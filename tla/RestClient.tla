------------------------------ MODULE RestClient ------------------------------
(***************************************************************************)
(* pkg/rdaplookup/client.go and errors.go: the library client of the       *)
(* lookup service.  Every method is one doRequest: an attempt, and after   *)
(* a failure that is not the caller's fault a pause and another.           *)
(*                                                                         *)
(* Abstractions: a path stands for its method and body; statuses of one    *)
(* class that no caller tells apart are one reply; a pause is as long as   *)
(* it likes.                                                               *)
(***************************************************************************)
EXTENDS Integers, Sequences, SequencesExt

CONSTANT RestRetries  \* Client.maxRetries

ASSUME RestAssumption == RestRetries \in Nat

VARIABLES
    rest,    \* the request
    ctxDone  \* the caller's context is done

NoRequest == [at |-> "none", path |-> "", attempt |-> 0, err |-> "none", heard |-> <<>>]

\* What an attempt comes to; "network" is a request that fails, a body that cannot be
\* read and one that cannot be parsed.
ClientErrors == {"notFound", "limited", "rejected"}
RestReplies == ClientErrors \union {"ok", "failing", "network"}

DoRequest(path) ==
    /\ rest.at \in {"none", "over"}
    /\ rest' = [NoRequest EXCEPT !.at = "attempt", !.path = path]

\* Mutant: a refusal is tried again.
NoRetryNotFoundOnly(r) == r \in {"ok", "notFound"}
\* An answer, and an APIError of the 400s, end the request.
NoRetry(r) == r \in ClientErrors \union {"ok"}

\* Mutant: one attempt more than the retries allow.
LastAttemptLate == rest.attempt > RestRetries
LastAttempt == rest.attempt = RestRetries

\* doSingleRequest, and what doRequest does with its error.
SingleRequest(r) ==
    /\ rest.at = "attempt" /\ r \in RestReplies
    /\ ctxDone => r = "network"
    /\ rest' = [rest EXCEPT
           !.heard = Append(@, r),
           !.err = IF r = "ok" THEN "none" ELSE r,
           !.at = IF NoRetry(r) \/ LastAttempt THEN "over" ELSE "pause",
           !.attempt = IF NoRetry(r) \/ LastAttempt THEN @ ELSE @ + 1]
    /\ UNCHANGED ctxDone

\* The select between the backoff and the context.
Backoff ==
    /\ rest.at = "pause"
    /\ \/ rest' = [rest EXCEPT !.at = "attempt"]
       \/ ctxDone /\ rest' = [rest EXCEPT !.at = "over", !.err = "context"]
    /\ UNCHANGED ctxDone

RestTypeOK ==
    /\ rest.at \in {"none", "attempt", "pause", "over"}
    /\ rest.attempt \in 0..RestRetries
    /\ rest.err \in {"none", "context"} \union (RestReplies \ {"ok"})
    /\ rest.heard \in Seq(RestReplies) /\ Len(rest.heard) <= RestRetries + 1
    /\ ctxDone \in BOOLEAN
=============================================================================
