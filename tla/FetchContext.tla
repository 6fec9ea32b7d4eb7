----------------------------- MODULE FetchContext -----------------------------
(***************************************************************************)
(* What the upstream clients of internal/rdap and internal/whois share:    *)
(* the fetches in flight, each under a context with a deadline, and time.  *)
(***************************************************************************)
EXTENDS Integers

CONSTANT Flights  \* the cache keys: a key has one fetch in flight (see TieredCache)

VARIABLE now

\* No query is under way.
NoCall == [at |-> "none"]

Smaller(m, n) == IF m <= n THEN m ELSE n

\* context.WithTimeout: the earlier of the two deadlines.
DeadlineAfter(timeout, deadline) == Smaller(now + timeout, deadline)
=============================================================================
