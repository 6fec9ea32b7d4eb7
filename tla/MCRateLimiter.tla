----------------------------- MODULE MCRateLimiter -----------------------------
(* Finite instances of RateLimiter for TLC. *)
EXTENDS RateLimiter

CONSTANTS p1, p2, ip1, ip2, net1  \* model values

\* Both IPs are in one subnet.
OneSubnet == [ip \in IPs |-> net1]
=============================================================================
