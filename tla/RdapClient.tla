------------------------------ MODULE RdapClient ------------------------------
(***************************************************************************)
(* internal/rdap/client.go: a query to the RDAP servers of a domain, an    *)
(* address, an AS number or an entity.  queryWithRetry asks each server up *)
(* to MaxRetries + 1 times, with a growing pause between two attempts,     *)
(* until one answers, one says "not found", or the context is done.        *)
(*                                                                         *)
(* Every query in flight is a member of Flights; they share the clock and  *)
(* nothing else here.  An error is the set of the sentinel errors that     *)
(* errors.Is finds in it, "Other" for one without any; no error is {}.     *)
(* An answer is [of, by]: what was asked, and the server that answered.    *)
(*                                                                         *)
(* Abstractions: reading a response is part of the attempt; statuses that  *)
(* end in the same error are one reply; the unit of time is the first      *)
(* pause, and nothing takes time but attempts and pauses.                  *)
(***************************************************************************)
EXTENDS FetchContext, Sequences

CONSTANTS
    MaxRetries,
    RequestTimeout,  \* of the HTTP client, for one attempt
    ReplyKinds       \* bound: the replies that a run tells apart

ASSUME RdapAssumption ==
    /\ MaxRetries \in Nat
    /\ RequestTimeout \in Nat \ {0}
    /\ ReplyKinds \subseteq {"data", "otherClass", "notFound", "limited", "invalid",
                         "failing", "refused"}

VARIABLE call  \* the query of each flight

\* What an attempt comes to, and the error that doQuery makes of it.  "otherClass" is
\* an RDAP object of another class than the one asked for; "cut" is a deadline that
\* passes while the body is read.
ErrorOf ==
    [data |-> {}, otherClass |-> {}, notFound |-> {"NotFound"}, limited |-> {"RateLimited"},
     invalid |-> {"InvalidResponse"}, failing |-> {"ServerError"}, refused |-> {"Other"},
     timeout |-> {"RequestTimeout"}, cut |-> {"Deadline"}]

NoData == [of |-> <<>>, by |-> ""]

\* History of a query: the attempts at each server, what the last came to, and whether
\* one came to something that a server is not asked again for.
NoHistory(urls) == [tried |-> [s \in DOMAIN urls |-> 0], last |-> "none", settled |-> FALSE]
Settling == {"data", "otherClass", "notFound", "cut"}
Heard(h, s, r) == [tried |-> [h.tried EXCEPT ![s] = @ + 1], last |-> r,
                   settled |-> h.settled \/ r \in Settling]

\* The query is over.
Over(err, answer, heard) == [at |-> "over", err |-> err, answer |-> answer, heard |-> heard]

\* Mutant: the context's deadline does not end an attempt.
DueAlone(c) == c.since + RequestTimeout
Due(c) == Smaller(c.since + RequestTimeout, c.deadline)

\* calculateBackoff: the pause doubles five times at most.
Pause(attempt) == 2 ^ Smaller(attempt - 1, 5)

\* Mutant: one attempt too few.
MoreAttemptsShort(c) == c.attempt + 1 < MaxRetries
MoreAttempts(c) == c.attempt < MaxRetries

\* Mutant: a denial is retried as well.
FinalDeadlineOnly(err) == "Deadline" \in err
\* No more attempts after these.  A deadline that doQuery has turned into
\* ErrRequestTimeout is not among them.
Final(err) == err \intersect {"NotFound", "Deadline"} # {}

-----------------------------------------------------------------------------
\* QueryDomain, QueryIP, QueryASN and QueryEntity, once the servers are resolved.
Query(f, of, resolved, deadline) ==
    /\ call[f] = NoCall
    /\ call' = [call EXCEPT ![f] =
           IF resolved.err # {} THEN Over(resolved.err, NoData, NoHistory(<<>>))
           ELSE IF resolved.urls = <<>> THEN Over({"NoServers"}, NoData, NoHistory(<<>>))
           ELSE [at |-> "attempt", of |-> of, servers |-> resolved.urls, server |-> 1,
                 attempt |-> 0, since |-> now, deadline |-> deadline,
                 heard |-> NoHistory(resolved.urls)]]

\* The attempt of c failed with err: a pause, the next server, or the end.
Failed(c, err) ==
    IF Final(err) THEN Over(err, NoData, c.heard)
    ELSE IF MoreAttempts(c)
         THEN [c EXCEPT !.at = "pause", !.attempt = @ + 1, !.since = now]
    ELSE IF c.server < Len(c.servers)
         THEN [c EXCEPT !.server = @ + 1, !.attempt = 0, !.since = now]
    ELSE Over({"AllServersFailed"} \union err, NoData, c.heard)

\* The attempt came to r.  An object of another class fails the query at its end,
\* where nothing is tried again.
Attempted(f, r) ==
    LET c == [call[f] EXCEPT !.heard = Heard(@, call[f].server, r)]
    IN call' = [call EXCEPT ![f] =
           CASE r = "data" -> Over({}, [of |-> c.of, by |-> c.servers[c.server]], c.heard)
             [] r = "otherClass" -> Over({"InvalidResponse"}, NoData, c.heard)
             [] OTHER -> Failed(c, ErrorOf[r])]

\* The server replied in time, or could not be reached.
Reply(f, r) ==
    /\ call[f].at = "attempt" /\ now < call[f].deadline
    /\ r \in ReplyKinds
    /\ Attempted(f, r)

\* The client's timeout, or the context's.  A body is read only of a request that was
\* sent before the context was done.
Expire(f, r) ==
    /\ call[f].at = "attempt" /\ now >= Due(call[f])
    /\ \/ r = "timeout"
       \/ r = "cut" /\ call[f].since < call[f].deadline
    /\ Attempted(f, r)

PauseEnds(c) == now >= c.since + Pause(c.attempt)

\* The select between the timer and ctx.Done.
Resume(f) ==
    /\ call[f].at = "pause" /\ PauseEnds(call[f])
    /\ call' = [call EXCEPT ![f].at = "attempt", ![f].since = now]

Cancel(f) ==
    /\ call[f].at = "pause" /\ now >= call[f].deadline
    /\ call' = [call EXCEPT ![f] = Over({"Deadline"}, NoData, @.heard)]

\* A timer has fired, or a context is done: what waits for it runs before time goes on.
RdapUrgent(f) ==
    \/ call[f].at = "attempt" /\ now >= Due(call[f])
    \/ call[f].at = "pause" /\ (PauseEnds(call[f]) \/ now >= call[f].deadline)

-----------------------------------------------------------------------------
(* Properties of one query *)

\* A query fails for want of a server that answers only when every server has had all
\* its attempts; the next server is asked only when the one before has had them; none
\* has more than it may, and none is asked after one gave the object or denied it.
RetriesExact ==
    \A f \in Flights : call[f] # NoCall =>
        LET heard == call[f].heard
            all == {s \in DOMAIN heard.tried : heard.tried[s] = MaxRetries + 1}
        IN /\ \A s \in DOMAIN heard.tried :
                  /\ heard.tried[s] <= MaxRetries + 1
                  /\ (s > 1 /\ heard.tried[s] > 0) => s - 1 \in all
           /\ heard.settled => call[f].at = "over"
           /\ (call[f].at = "over" /\ "AllServersFailed" \in call[f].err) =>
                  all = DOMAIN heard.tried
=============================================================================
