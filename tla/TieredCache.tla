------------------------------ MODULE TieredCache ------------------------------
(***************************************************************************)
(* internal/cache/tiered.go: the two-tier cache (L1 in memory, L2 Redis)   *)
(* and GetOrFetchWithNegative, through which every lookup handler of the   *)
(* server goes: probe both tiers, join or lead the key's singleflight      *)
(* call, check the tiers again, fetch upstream under a context detached    *)
(* from the caller and bounded by FetchTimeout, store, deliver.            *)
(*                                                                         *)
(* Each access to a tier is a step of its own, so that other callers run   *)
(* between an L2 read and the promotion of what it read, between the probe *)
(* and the flight, and between the writes to the two tiers.                *)
(*                                                                         *)
(* Abstractions: a cached value is the upstream answer it came from.  Time *)
(* passes only while upstream queries run or nobody runs: a local step or  *)
(* a Redis round trip takes no time on the scale of TTLs and timeouts.     *)
(***************************************************************************)
EXTENDS Integers, FiniteSets

CONSTANTS
    Callers,         \* request goroutines
    Keys,
    TTL,             \* TieredCacheConfig.DefaultTTL
    NegativeTTL,
    L1PromotionTTL,
    FetchTimeout,    \* as configured; cmd/rdap-lookup leaves it 0
    DefaultTimeout,  \* defaultFetchTimeout
    HandlerTimeout,  \* LookupHandler.handlerTimeout, the caller's own deadline
    HasL2,
    EnableL2Writes,
    MaxCalls,        \* bound: calls in a run
    MaxTime,         \* bound: the clock
    MaxUpsets,       \* bound: restarts, and writes of other processes to L2
    NoCaller, NoEntry, NoAnswer

ASSUME ParamsAssumption ==
    /\ TTL \in Nat \ {0} /\ NegativeTTL \in Nat \ {0} /\ L1PromotionTTL \in Nat
    /\ FetchTimeout \in Nat /\ DefaultTimeout \in Nat \ {0} /\ HandlerTimeout \in Nat
    /\ HasL2 \in BOOLEAN /\ EnableL2Writes \in BOOLEAN
    /\ MaxCalls \in Nat /\ MaxTime \in Nat /\ MaxUpsets \in Nat
    /\ NoCaller \notin Callers /\ NoCaller \notin Keys

\* An answer of the upstream: what it said, when, and as which answer in order.
Answer == [found: BOOLEAN, at: Nat, ver: Nat]
Failure(reason) == [err |-> reason]
Failures == {Failure("upstream_error"), Failure("fetch_timeout")}
Entry == [ans: Answer, exp: Nat, promoted: BOOLEAN]

ASSUME NullsAssumption ==
    NoEntry \notin Entry /\ NoAnswer \notin Answer \union Failures

VARIABLES
    l1, l2,      \* the tiers: key -> Entry or NoEntry; l2 outlives the process
    calls,       \* singleflight.Group: key -> the caller leading its flight
    pc,          \* where each caller is
    work,        \* the key, the answer so far and the deadlines of each caller
    answer,      \* what each caller's last call returned
    now,
    asked,       \* history: calls so far
    obtained,    \* history: the answers the upstream has given, per key
    delivered,   \* history: latest answer delivered so far, per key
    floor,       \* history: what delivered was for the key when the call began
    upsets       \* history: restarts and writes of other processes so far

vars == <<l1, l2, calls, pc, work, answer, now, asked, obtained,
          delivered, floor, upsets>>

\* What only Call, Restart and PeerStore change.
bounds == <<asked, floor, upsets>>

NoWork == [key |-> NoCaller, ans |-> NoAnswer, called |-> 0, fetchDue |-> 0]

Work == [key: Keys, ans: Answer \union Failures \union {NoAnswer},
         called: Nat, fetchDue: Nat]

Places == {"idle", "l1", "l2", "promote", "do", "joined", "fetch",
           "storeL1", "storeL2", "finish"}

TypeOK ==
    /\ l1 \in [Keys -> Entry \union {NoEntry}]
    /\ l2 \in [Keys -> Entry \union {NoEntry}]
    /\ calls \in [Keys -> Callers \union {NoCaller}]
    /\ pc \in [Callers -> Places]
    /\ work \in [Callers -> Work \union {NoWork}]
    /\ \A c \in Callers : pc[c] = "idle" <=> work[c] = NoWork
    /\ \A c \in Callers : pc[c] \in {"promote", "storeL1", "storeL2"} => work[c].ans \in Answer
    /\ \A c \in Callers : pc[c] = "finish" => work[c].ans \in Answer \union Failures
    /\ answer \in [Callers -> Answer \union Failures \union {NoAnswer}]
    /\ now \in 0..MaxTime
    /\ asked \in 0..MaxCalls
    /\ obtained \in [Keys -> SUBSET Answer]
    /\ delivered \in [Keys -> Nat]
    /\ floor \in [Callers -> Nat]
    /\ upsets \in 0..MaxUpsets

Init ==
    /\ l1 = [k \in Keys |-> NoEntry]
    /\ l2 = [k \in Keys |-> NoEntry]
    /\ calls = [k \in Keys |-> NoCaller]
    /\ pc = [c \in Callers |-> "idle"]
    /\ work = [c \in Callers |-> NoWork]
    /\ answer = [c \in Callers |-> NoAnswer]
    /\ now = 0
    /\ asked = 0
    /\ obtained = [k \in Keys |-> {}]
    /\ delivered = [k \in Keys |-> 0]
    /\ floor = [c \in Callers |-> 0]
    /\ upsets = 0

-----------------------------------------------------------------------------
(* Helpers *)

key(c) == work[c].key

\* The caller runs the closure of its key's flight.
Leads(c) == calls[key(c)] = c

Live(e) == e # NoEntry /\ now <= e.exp

\* Mutant: a config without FetchTimeout is taken literally.
TimeoutLiteral == FetchTimeout
\* normalizeConfig
Timeout == IF FetchTimeout <= 0 THEN DefaultTimeout ELSE FetchTimeout

TTLFor(a) == IF a.found THEN TTL ELSE NegativeTTL

Least(m, n) == IF m <= n THEN m ELSE n

\* Mutant: negative entries promoted like positive ones.
PromotionTTLUnclamped(a) == L1PromotionTTL
PromotionTTL(a) ==
    IF a.found THEN L1PromotionTTL ELSE Least(NegativeTTL, L1PromotionTTL)

AnswersSoFar == UNION {obtained[k] : k \in Keys}

\* The caller's context is done (deriveCtx in internal/api/lookup.go).
CallerDone(c) == now >= work[c].called + HandlerTimeout

Goto(c, place) == pc' = [pc EXCEPT ![c] = place]

\* Mutant: who returns keeps its work.
ReturnWorking(S, k, a) ==
    /\ answer' = [c \in Callers |-> IF c \in S THEN a ELSE answer[c]]
    /\ pc' = [c \in Callers |-> IF c \in S THEN "idle" ELSE pc[c]]
    /\ work' = work
    /\ delivered' = delivered
\* The calls of the callers in S, about k, return a.
Return(S, k, a) ==
    /\ answer' = [c \in Callers |-> IF c \in S THEN a ELSE answer[c]]
    /\ pc' = [c \in Callers |-> IF c \in S THEN "idle" ELSE pc[c]]
    /\ work' = [c \in Callers |-> IF c \in S THEN NoWork ELSE work[c]]
    /\ delivered' = IF a \in Answer /\ a.ver > delivered[k]
                    THEN [delivered EXCEPT ![k] = a.ver] ELSE delivered

\* A tier had the answer: the probe returns it, the flight ends with it.
Hit(c, a) ==
    IF Leads(c)
    THEN /\ Goto(c, "finish")
         /\ work' = [work EXCEPT ![c].ans = a]
         /\ UNCHANGED <<answer, delivered>>
    ELSE Return({c}, key(c), a)

\* Both tiers missed: the probe turns to singleflight, the flight to the upstream.
Missed(c) ==
    /\ Goto(c, IF Leads(c) THEN "fetch" ELSE "do")
    /\ UNCHANGED <<work, answer, delivered>>

-----------------------------------------------------------------------------
(* Steps of a call *)

Call(c, k) ==
    /\ pc[c] = "idle"
    /\ asked < MaxCalls
    /\ now + Timeout <= MaxTime
    /\ asked' = asked + 1
    /\ Goto(c, "l1")
    /\ work' = [work EXCEPT ![c] =
                   [key |-> k, ans |-> NoAnswer, called |-> now, fetchDue |-> 0]]
    /\ answer' = [answer EXCEPT ![c] = NoAnswer]
    /\ floor' = [floor EXCEPT ![c] = delivered[k]]
    /\ UNCHANGED <<l1, l2, calls, now, obtained, delivered, upsets>>

\* TieredCache.Get, first tier.  An expired entry is a miss.
L1Get(c) ==
    /\ pc[c] = "l1"
    /\ IF Live(l1[key(c)])
       THEN Hit(c, l1[key(c)].ans)
       ELSE IF HasL2 THEN Goto(c, "l2") /\ UNCHANGED <<work, answer, delivered>>
                     ELSE Missed(c)
    /\ UNCHANGED <<l1, l2, calls, now, obtained, bounds>>

\* Second tier.  An error of Redis, or a corrupt value, counts as a miss.
L2Hit(c) ==
    /\ pc[c] = "l2"
    /\ Live(l2[key(c)])
    /\ Goto(c, "promote")
    /\ work' = [work EXCEPT ![c].ans = l2[key(c)].ans]
    /\ UNCHANGED <<l1, l2, calls, answer, now, obtained, delivered, bounds>>

L2MissOrError(c) ==
    /\ pc[c] = "l2"
    /\ Missed(c)
    /\ UNCHANGED <<l1, l2, calls, now, obtained, bounds>>

\* promoteToL1, whatever L1 holds by now, with a fresh lease.
Promote(c) ==
    /\ pc[c] = "promote"
    /\ l1' = [l1 EXCEPT ![key(c)] =
                 [ans |-> work[c].ans, exp |-> now + PromotionTTL(work[c].ans),
                  promoted |-> TRUE]]
    /\ Hit(c, work[c].ans)
    /\ UNCHANGED <<l2, calls, now, obtained, bounds>>

\* Mutants: no singleflight; the flight does not look at the tiers again.
EnterFlightAlone(c) ==
    /\ calls' = [calls EXCEPT ![key(c)] = c]
    /\ Goto(c, "l1")
    /\ work' = [work EXCEPT ![c].fetchDue = now + Timeout]
EnterFlightUnchecked(c) ==
    IF calls[key(c)] = NoCaller
    THEN /\ calls' = [calls EXCEPT ![key(c)] = c]
         /\ Goto(c, "fetch")
         /\ work' = [work EXCEPT ![c].fetchDue = now + Timeout]
    ELSE Goto(c, "joined") /\ UNCHANGED <<calls, work>>
\* singleflight.Group.Do: lead a new flight, which checks the tiers again under
\* the fetch context, or wait for the one that is running.
EnterFlight(c) ==
    IF calls[key(c)] = NoCaller
    THEN /\ calls' = [calls EXCEPT ![key(c)] = c]
         /\ Goto(c, "l1")
         /\ work' = [work EXCEPT ![c].fetchDue = now + Timeout]
    ELSE Goto(c, "joined") /\ UNCHANGED <<calls, work>>

Do(c) ==
    /\ pc[c] = "do"
    /\ EnterFlight(c)
    /\ UNCHANGED <<l1, l2, answer, now, obtained, delivered, bounds>>

\* The answer the upstream gives now.
NewAnswer(found) == [found |-> found, at |-> now, ver |-> Cardinality(AnswersSoFar) + 1]

\* The upstream answers, positively or with notFoundErr.
FetchAnswer(c, found) ==
    LET a == NewAnswer(found)
    IN  /\ pc[c] = "fetch"
        /\ obtained' = [obtained EXCEPT ![key(c)] = @ \union {a}]
        /\ work' = [work EXCEPT ![c].ans = a]
        /\ Goto(c, "storeL1")
        /\ UNCHANGED <<l1, l2, calls, answer, now, delivered, bounds>>

\* Any other error of the fetch ends the flight and is not cached.
FetchFail(c, reason) ==
    /\ work' = [work EXCEPT ![c].ans = Failure(reason)]
    /\ Goto(c, "finish")
    /\ UNCHANGED <<l1, l2, calls, answer, now, obtained, delivered, bounds>>

FetchError(c) ==
    /\ pc[c] = "fetch"
    /\ FetchFail(c, "upstream_error")

\* Mutants: the fetch context dies with the caller's; it has no deadline.
FetchCtxDoneAttached(c) == now >= work[c].fetchDue \/ CallerDone(c)
FetchCtxDoneNever(c) == FALSE
\* Done of the fetch context: WithoutCancel(ctx), then WithTimeout(FetchTimeout).
FetchCtxDone(c) == now >= work[c].fetchDue

FetchExpire(c) ==
    /\ pc[c] = "fetch"
    /\ FetchCtxDone(c)
    /\ FetchFail(c, "fetch_timeout")

\* SetWithDefaultTTL: L1 always, then L2, whose failure is only logged.
StoreL1(c) ==
    /\ pc[c] = "storeL1"
    /\ l1' = [l1 EXCEPT ![key(c)] =
                 [ans |-> work[c].ans, exp |-> now + TTLFor(work[c].ans),
                  promoted |-> FALSE]]
    /\ Goto(c, IF HasL2 /\ EnableL2Writes THEN "storeL2" ELSE "finish")
    /\ UNCHANGED <<l2, calls, work, answer, now, obtained, delivered, bounds>>

StoreL2(c, ok) ==
    /\ pc[c] = "storeL2"
    /\ l2' = IF ok THEN [l2 EXCEPT ![key(c)] =
                            [ans |-> work[c].ans, exp |-> now + TTLFor(work[c].ans),
                             promoted |-> FALSE]]
                   ELSE l2
    /\ Goto(c, "finish")
    /\ UNCHANGED <<l1, calls, work, answer, now, obtained, delivered, bounds>>

\* The flight ends: its key is free again, the leader and all who joined return.
Finish(c) ==
    /\ pc[c] = "finish"
    /\ calls' = [calls EXCEPT ![key(c)] = NoCaller]
    /\ Return({c} \union {d \in Callers : pc[d] = "joined" /\ key(d) = key(c)},
              key(c), work[c].ans)
    /\ UNCHANGED <<l1, l2, now, obtained, bounds>>

-----------------------------------------------------------------------------
(* Environment *)

\* L1 loses an entry: LRU pressure of other keys, or an expired Get's removal
\* that hits a newer entry (see MemoryCache).
L1Drop(k) ==
    /\ l1[k] # NoEntry
    /\ l1' = [l1 EXCEPT ![k] = NoEntry]
    /\ UNCHANGED <<l2, calls, pc, work, answer, now, obtained, delivered, bounds>>

\* Another process that shares the Redis database stores a fresh answer.
PeerStore(k, found) ==
    LET a == NewAnswer(found)
    IN  /\ HasL2
        /\ upsets < MaxUpsets
        /\ upsets' = upsets + 1
        /\ obtained' = [obtained EXCEPT ![k] = @ \union {a}]
        /\ l2' = [l2 EXCEPT ![k] = [ans |-> a, exp |-> now + TTLFor(a), promoted |-> FALSE]]
        /\ UNCHANGED <<l1, calls, pc, work, answer, now, asked, delivered, floor>>

\* The process dies and comes back: only L2 survives.
Restart ==
    /\ upsets < MaxUpsets
    /\ upsets' = upsets + 1
    /\ l1' = [k \in Keys |-> NoEntry]
    /\ calls' = [k \in Keys |-> NoCaller]
    /\ pc' = [c \in Callers |-> "idle"]
    /\ work' = [c \in Callers |-> NoWork]
    /\ UNCHANGED <<l2, answer, now, asked, obtained, delivered, floor>>

\* Time passes while every caller waits for the upstream, and not past the
\* deadline of a fetch: the clients in internal/rdap and internal/whois return
\* when their context is done.
Tick ==
    /\ now < MaxTime
    /\ \A c \in Callers :
        \/ pc[c] \in {"idle", "joined"}
        \/ pc[c] = "fetch" /\ now < work[c].fetchDue
    /\ now' = now + 1
    /\ UNCHANGED <<l1, l2, calls, pc, work, answer, obtained, delivered, bounds>>

\* The run's calls are used up and have all returned.
Rest ==
    /\ asked = MaxCalls \/ now + Timeout > MaxTime
    /\ \A c \in Callers : pc[c] = "idle"
    /\ UNCHANGED vars

-----------------------------------------------------------------------------
\* The steps the runtime keeps taking once a call has begun.
Progress(c) ==
    \/ L1Get(c) \/ L2Hit(c) \/ L2MissOrError(c) \/ Promote(c) \/ Do(c)
    \/ FetchExpire(c)
    \/ StoreL1(c) \/ \E ok \in BOOLEAN : StoreL2(c, ok)
    \/ Finish(c)

Upstream(c) == FetchError(c) \/ \E found \in BOOLEAN : FetchAnswer(c, found)

Next ==
    \/ \E c \in Callers : Progress(c) \/ Upstream(c) \/ \E k \in Keys : Call(c, k)
    \/ \E k \in Keys : L1Drop(k) \/ \E found \in BOOLEAN : PeerStore(k, found)
    \/ Restart
    \/ Tick
    \/ Rest

Spec == Init /\ [][Next]_vars

\* Goroutines are scheduled and the clock runs; the upstream may never answer.
FairSpec == Spec /\ WF_vars(Tick) /\ \A c \in Callers : WF_vars(Progress(c))

-----------------------------------------------------------------------------
(* Properties *)

\* "Uses singleflight to prevent duplicate fetches for the same key": at any
\* moment at most one caller runs the key's flight from its second check to its
\* end, and it is the one the group knows; who has joined has someone to wait for.
OneFlightPerKey ==
    /\ \A c, d \in Callers :
        (/\ pc[c] \in {"fetch", "storeL1", "storeL2", "finish"}
         /\ pc[d] \in {"fetch", "storeL1", "storeL2", "finish"}
         /\ key(c) = key(d)) => c = d
    /\ \A c \in Callers : pc[c] = "joined" => calls[key(c)] \in Callers
    /\ \A k \in Keys : calls[k] # NoCaller =>
        pc[calls[k]] \in Places \ {"idle", "do", "joined"} /\ key(calls[k]) = k

\* The upstream is not asked for what L1 holds: while a flight fetches, L1 has
\* a live entry of the key only if a probe promoted one from L2 meanwhile.
FetchOnlyWhenCold ==
    \A c \in Callers :
        pc[c] = "fetch" /\ Live(l1[key(c)]) => l1[key(c)].promoted

\* No call, leading or joined, ends in the fetch's deadline before the whole
\* FetchTimeout (its default when the config omits it) has passed since the
\* flight's leader called, whatever became of the leader's own context.
NoEarlyTimeout ==
    \A c \in Callers :
        pc[c] = "finish" /\ work[c].ans = Failure("fetch_timeout")
            => now - work[c].called >= IF FetchTimeout > 0 THEN FetchTimeout
                                                          ELSE DefaultTimeout

\* Without L2, answers never go back: a call is never answered with an older
\* upstream answer than one delivered for its key before it began.
MonotonicAnswers ==
    \A c \in Callers : answer[c] \in Answer => answer[c].ver >= floor[c]

\* The callers get what AnswerService promises.
Service == INSTANCE AnswerService WITH
    FoundAge <- TTL + (IF HasL2 THEN L1PromotionTTL ELSE 0),
    MissingAge <- NegativeTTL + (IF HasL2 THEN Least(NegativeTTL, L1PromotionTTL) ELSE 0),
    Nobody <- NoCaller,
    asking <- [c \in Callers |-> work[c].key]

ServiceImplemented == Service!ServiceSpec

\* Every call returns, even when the upstream never answers.
EveryCallReturns == \A c \in Callers : pc[c] # "idle" ~> pc[c] = "idle"

\* doc/concurrent-map-writes-fix.md: "Upstream I/O is now guaranteed to cancel
\* when the handler timeout fires".
FetchEndsWithHandler ==
    \A c \in Callers : pc[c] = "fetch" => now <= work[c].called + HandlerTimeout
=============================================================================
