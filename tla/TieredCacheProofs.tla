--------------------------- MODULE TieredCacheProofs ---------------------------
(* What holds of TieredCache for every value of its constants. *)
EXTENDS TieredCache, FiniteSetTheorems, TLAPS

-----------------------------------------------------------------------------
(* Inductive invariants *)

\* The part of the type invariant that is about the callers.
CallersTyped ==
    /\ pc \in [Callers -> Places]
    /\ work \in [Callers -> Work \union {NoWork}]
    /\ \A c \in Callers : pc[c] = "idle" <=> work[c] = NoWork
    /\ \A c \in Callers : pc[c] \in {"promote", "storeL1", "storeL2"} => work[c].ans \in Answer
    /\ \A c \in Callers : pc[c] = "finish" => work[c].ans \in Answer \union Failures
    /\ answer \in [Callers -> Answer \union Failures \union {NoAnswer}]
    /\ delivered \in [Keys -> Nat]

\* There are as many answers as the latest one's number says, or more.
AnswersInv ==
    /\ IsFiniteSet(AnswersSoFar)
    /\ \A k \in Keys : \A a \in obtained[k] : a.ver <= Cardinality(AnswersSoFar)

\* The group knows who leads, and who is past the second check leads.
FlightInv ==
    /\ \A k \in Keys : calls[k] # NoCaller =>
        pc[calls[k]] \in Places \ {"idle", "do", "joined"} /\ key(calls[k]) = k
    /\ \A c \in Callers : pc[c] \in {"fetch", "storeL1", "storeL2", "finish"} => Leads(c)
    /\ \A c \in Callers : pc[c] = "joined" => calls[key(c)] # NoCaller

\* A flight that has found L1 without a live entry finds none stored there until its
\* own, only promoted ones.
ColdInv ==
    \A c \in Callers :
        pc[c] \in {"l2", "fetch"} /\ Leads(c) /\ Live(l1[key(c)]) => l1[key(c)].promoted

\* A flight's deadline is a whole timeout after its leader called.
DeadlineInv ==
    \A c \in Callers : pc[c] # "idle" =>
        /\ work[c].called <= now
        /\ Leads(c) => work[c].fetchDue >= work[c].called + Timeout
        /\ pc[c] = "finish" /\ work[c].ans = Failure("fetch_timeout") =>
            now >= work[c].called + Timeout

\* How old an answer may be when it is served.
Age(a) == IF a.found THEN TTL + (IF HasL2 THEN L1PromotionTTL ELSE 0)
                     ELSE NegativeTTL
                            + (IF HasL2 THEN Least(NegativeTTL, L1PromotionTTL) ELSE 0)

\* What a tier or a caller holds came from the upstream for that key, and expires in
\* time: a promotion adds its lease to what was left of the first.
L1InTime(k) ==
    l1[k] # NoEntry =>
        /\ l1[k].ans \in obtained[k]
        /\ l1[k].exp <= l1[k].ans.at + Age(l1[k].ans)
L2InTime(k) ==
    l2[k] # NoEntry =>
        /\ l2[k].ans \in obtained[k]
        /\ l2[k].exp <= l2[k].ans.at + TTLFor(l2[k].ans)
WorkInTime(c) ==
    /\ pc[c] \in {"l2", "promote", "storeL2"} => HasL2
    /\ pc[c] = "finish" => work[c].ans \in Failures \union obtained[key(c)]
    /\ pc[c] \in {"promote", "storeL1", "storeL2"} => work[c].ans \in obtained[key(c)]
    /\ pc[c] = "promote" => now <= work[c].ans.at + TTLFor(work[c].ans)
    /\ pc[c] \in {"storeL1", "storeL2"} => work[c].ans.at = now
    /\ pc[c] = "finish" /\ work[c].ans \in Answer =>
        now <= work[c].ans.at + Age(work[c].ans)

AgeInv ==
    /\ \A k \in Keys : L1InTime(k) /\ L2InTime(k)
    /\ \A c \in Callers : WorkInTime(c)

\* Without L2: what L1 holds, and what a flight is about to deliver, is no older than
\* what was delivered; a flight's answer is no older than what L1 holds, and once it is
\* stored nothing else is held.
KeyInOrder(k) ==
    /\ delivered[k] <= Cardinality(AnswersSoFar)
    /\ l1[k] # NoEntry => delivered[k] <= l1[k].ans.ver
WorkInOrder(c) ==
    pc[c] # "idle" =>
        /\ floor[c] <= delivered[key(c)]
        /\ pc[c] \in {"storeL1", "finish"} /\ work[c].ans \in Answer =>
            /\ delivered[key(c)] <= work[c].ans.ver
            /\ l1[key(c)] # NoEntry =>
                /\ l1[key(c)].ans.ver <= work[c].ans.ver
                /\ pc[c] = "finish" => l1[key(c)].ans.ver = work[c].ans.ver

OrderInv ==
    /\ \A k \in Keys : KeyInOrder(k)
    /\ \A c \in Callers : WorkInOrder(c)
    /\ MonotonicAnswers

-----------------------------------------------------------------------------
(* Helpers *)

\* Helper: who has called works on a key.
LEMMA WorkingOnKey ==
    ASSUME TypeOK, NEW c \in Callers, pc[c] # "idle"
    PROVE  /\ work[c] \in Work /\ key(c) \in Keys
           /\ NoWork \notin Work
BY ParamsAssumption DEF TypeOK, Work, NoWork, key

\* Helper: a null is neither an entry nor an answer.
LEMMA LiveIsEntry ==
    ASSUME NEW e \in Entry \union {NoEntry}, Live(e)
    PROVE  e \in Entry /\ e.ans \in Answer /\ now <= e.exp
BY DEF Live, Entry

\* Helper: a failure is no answer.
LEMMA FailureIsNoAnswer ==
    ASSUME NEW a \in Answer, NEW f \in Failures
    PROVE  a # f
<1>1. DOMAIN a = {"found", "at", "ver"}
  BY DEF Answer
<1>2. DOMAIN f = {"err"}
  BY DEF Failures, Failure
<1> QED
  BY <1>1, <1>2

\* Helper: the answer that comes next has a number of its own, above all the others.
LEMMA NextAnswer ==
    ASSUME TypeOK, AnswersInv, NEW found \in BOOLEAN
    PROVE  LET a == NewAnswer(found)
           IN  /\ a \in Answer /\ a.found = found /\ a.at = now
               /\ a.ver = Cardinality(AnswersSoFar) + 1
               /\ Cardinality(AnswersSoFar) \in Nat
               /\ \A k \in Keys : \A b \in obtained[k] : b.ver < a.ver
<1>1. Cardinality(AnswersSoFar) \in Nat
  BY FS_CardinalityType DEF AnswersInv
<1>2. now \in Nat
  BY ParamsAssumption DEF TypeOK
<1>3. \A k \in Keys : \A b \in obtained[k] : b.ver \in Nat
  BY DEF TypeOK, Answer
<1> QED
  BY <1>1, <1>2, <1>3 DEF NewAnswer, Answer, AnswersInv

\* Helper: it joins the answers so far.
LEMMA AnswerAdded ==
    ASSUME TypeOK, AnswersInv, NEW found \in BOOLEAN, NEW k \in Keys,
           obtained' = [obtained EXCEPT ![k] = @ \union {NewAnswer(found)}]
    PROVE  obtained' \in [Keys -> SUBSET Answer] /\ AnswersInv'
<1> DEFINE a == NewAnswer(found)
           V == Cardinality(AnswersSoFar)
<1>1. /\ a \in Answer /\ a.ver = V + 1 /\ V \in Nat
      /\ \A j \in Keys : \A b \in obtained[j] : b.ver < a.ver
  BY NextAnswer
<1>2. AnswersSoFar' = AnswersSoFar \union {a}
  BY DEF AnswersSoFar, TypeOK
<1>3. a \notin AnswersSoFar
  <2>1. \A j \in Keys : a \notin obtained[j]
    BY <1>1
  <2> QED
    BY <2>1 DEF AnswersSoFar
<1>4. IsFiniteSet(AnswersSoFar') /\ Cardinality(AnswersSoFar') = V + 1
  BY <1>2, <1>3, FS_AddElement DEF AnswersInv
<1>5. obtained' \in [Keys -> SUBSET Answer]
  BY <1>1 DEF TypeOK
<1>6. ASSUME NEW j \in Keys, NEW b \in obtained'[j]
      PROVE  b.ver <= V + 1
  <2>1. b \in obtained[j] \/ b = a
    BY DEF TypeOK
  <2>2. CASE b \in obtained[j]
    BY <1>1, <2>2 DEF TypeOK, Answer
  <2> QED
    BY <1>1, <2>1, <2>2
<1> QED
  BY <1>4, <1>5, <1>6 DEF AnswersInv

\* Helper: a return leaves the callers typed.
LEMMA ReturnTyped ==
    ASSUME TypeOK, NEW S \in SUBSET Callers, NEW k \in Keys, NEW a \in Answer \union Failures,
           Return(S, k, a)
    PROVE  CallersTyped'
<1>1. a \in Answer => a.ver \in Nat
  BY DEF Answer
<1>2. delivered' \in [Keys -> Nat]
  BY <1>1 DEF TypeOK, Return
<1>3. answer' \in [Callers -> Answer \union Failures \union {NoAnswer}]
  BY DEF TypeOK, Return
<1>4. pc' \in [Callers -> Places] /\ work' \in [Callers -> Work \union {NoWork}]
  BY DEF TypeOK, Return, Places
<1>5. \A c \in Callers :
        \/ pc'[c] = "idle" /\ work'[c] = NoWork
        \/ pc'[c] = pc[c] /\ work'[c] = work[c]
  BY DEF TypeOK, Return
<1> QED
  BY <1>2, <1>3, <1>4, <1>5 DEF TypeOK, CallersTyped

\* Helper: what a caller whose work goes on looks like.
LEMMA WorkTyped ==
    ASSUME TypeOK, NEW c \in Callers, NEW place \in Places \ {"idle"}, NEW w \in Work,
           Goto(c, place), work' = [work EXCEPT ![c] = w],
           place \in {"promote", "storeL1", "storeL2"} => w.ans \in Answer,
           place = "finish" => w.ans \in Answer \union Failures,
           answer' \in [Callers -> Answer \union Failures \union {NoAnswer}],
           UNCHANGED delivered
    PROVE  CallersTyped'
<1>1. w # NoWork
  BY ParamsAssumption DEF Work, NoWork
<1> QED
  BY <1>1 DEF TypeOK, CallersTyped, Goto

\* Helper: an answer so far leaves the work as typed as it was.
LEMMA AnswerHeld ==
    ASSUME TypeOK, NEW c \in Callers, pc[c] # "idle",
           NEW a \in Answer \union Failures
    PROVE  /\ [work[c] EXCEPT !.ans = a] \in Work
           /\ [work[c] EXCEPT !.ans = a].ans = a
           /\ [work[c] EXCEPT !.ans = a].key = key(c)
           /\ [work[c] EXCEPT !.ans = a].called = work[c].called
           /\ [work[c] EXCEPT !.ans = a].fetchDue = work[c].fetchDue
           /\ [work EXCEPT ![c].ans = a] = [work EXCEPT ![c] = [work[c] EXCEPT !.ans = a]]
BY WorkingOnKey DEF Work, key

\* Helper: a hit leaves the callers typed.
LEMMA HitTyped ==
    ASSUME TypeOK, NEW c \in Callers, pc[c] # "idle", NEW a \in Answer, Hit(c, a)
    PROVE  CallersTyped'
<1>1. CASE Leads(c)
  <2> DEFINE w == [work[c] EXCEPT !.ans = a]
  <2>1. w \in Work /\ w.ans = a /\ work' = [work EXCEPT ![c] = w]
    BY <1>1, AnswerHeld DEF Hit
  <2> HIDE DEF w
  <2> QED
    BY <1>1, <2>1, WorkTyped DEF Hit, TypeOK, Places
<1>2. CASE ~Leads(c)
  <2>1. Return({c}, key(c), a)
    BY <1>2 DEF Hit
  <2> QED
    BY <2>1, WorkingOnKey, ReturnTyped
<1> QED
  BY <1>1, <1>2

\* Helper: so does a miss of both tiers.
LEMMA MissTyped ==
    ASSUME TypeOK, NEW c \in Callers, pc[c] # "idle", Missed(c)
    PROVE  CallersTyped'
<1>1. work[c] \in Work /\ work' = [work EXCEPT ![c] = work[c]]
  BY WorkingOnKey DEF Missed, TypeOK
<1> QED
  BY <1>1, WorkTyped DEF Missed, TypeOK, Places

-----------------------------------------------------------------------------
(* Types, and the numbers of the answers *)

\* Helper: every step keeps the types.
LEMMA TypeKept ==
    ASSUME TypeOK, AnswersInv, [Next]_vars
    PROVE  TypeOK' /\ AnswersInv'
<1> USE ParamsAssumption, NullsAssumption
<1>1. ASSUME CallersTyped', UNCHANGED <<l2, calls, now, obtained, bounds>>,
             l1' \in [Keys -> Entry \union {NoEntry}]
      PROVE  TypeOK' /\ AnswersInv'
  BY <1>1 DEF TypeOK, CallersTyped, AnswersInv, AnswersSoFar, bounds
<1>2. ASSUME NEW c \in Callers, NEW k \in Keys, Call(c, k)
      PROVE  TypeOK' /\ AnswersInv'
  <2> DEFINE w == [key |-> k, ans |-> NoAnswer, called |-> now, fetchDue |-> 0]
  <2>1. w \in Work
    BY DEF TypeOK, Work
  <2>2. work' = [work EXCEPT ![c] = w] /\ Goto(c, "l1")
    BY <1>2 DEF Call
  <2>3. answer' \in [Callers -> Answer \union Failures \union {NoAnswer}] /\ UNCHANGED delivered
    BY <1>2 DEF Call, TypeOK
  <2> HIDE DEF w
  <2>4. CallersTyped'
    BY <2>1, <2>2, <2>3, WorkTyped DEF Places
  <2>5. floor' \in [Callers -> Nat] /\ asked' \in 0..MaxCalls
    BY <1>2 DEF Call, TypeOK
  <2> QED
    BY <1>2, <2>4, <2>5 DEF Call, TypeOK, CallersTyped, AnswersInv, AnswersSoFar
<1>3. ASSUME NEW c \in Callers, L1Get(c)
      PROVE  TypeOK' /\ AnswersInv'
  <2>1. UNCHANGED <<l1, l2, calls, now, obtained, bounds>>
    BY <1>3 DEF L1Get
  <2>2. pc[c] = "l1" /\ key(c) \in Keys /\ work[c] \in Work
    BY <1>3, WorkingOnKey DEF L1Get
  <2>3. CASE Live(l1[key(c)])
    BY <1>1, <1>3, <2>1, <2>2, <2>3, LiveIsEntry, HitTyped DEF L1Get, TypeOK
  <2>4. CASE ~Live(l1[key(c)]) /\ HasL2
    <3>1. work' = [work EXCEPT ![c] = work[c]] /\ Goto(c, "l2") /\ UNCHANGED <<answer, delivered>>
      BY <1>3, <2>4 DEF L1Get, TypeOK
    <3>2. CallersTyped'
      BY <2>2, <3>1, WorkTyped DEF TypeOK, Places
    <3> QED
      BY <1>1, <2>1, <3>2 DEF TypeOK
  <2>5. CASE ~Live(l1[key(c)]) /\ ~HasL2
    BY <1>1, <1>3, <2>1, <2>2, <2>5, MissTyped DEF L1Get, TypeOK
  <2> QED
    BY <2>3, <2>4, <2>5
<1>4. ASSUME NEW c \in Callers, L2Hit(c)
      PROVE  TypeOK' /\ AnswersInv'
  <2>1. pc[c] = "l2" /\ key(c) \in Keys /\ l2[key(c)].ans \in Answer
    BY <1>4, WorkingOnKey, LiveIsEntry DEF L2Hit, TypeOK
  <2> DEFINE w == [work[c] EXCEPT !.ans = l2[key(c)].ans]
  <2>2. w \in Work /\ w.ans \in Answer /\ work' = [work EXCEPT ![c] = w]
    BY <1>4, <2>1, AnswerHeld DEF L2Hit
  <2> HIDE DEF w
  <2>3. CallersTyped'
    BY <1>4, <2>2, WorkTyped DEF L2Hit, TypeOK, Places
  <2> QED
    BY <1>1, <1>4, <2>3 DEF L2Hit, TypeOK
<1>5. ASSUME NEW c \in Callers, L2MissOrError(c)
      PROVE  TypeOK' /\ AnswersInv'
  BY <1>1, <1>5, MissTyped DEF L2MissOrError, TypeOK
<1>6. ASSUME NEW c \in Callers, Promote(c)
      PROVE  TypeOK' /\ AnswersInv'
  <2>1. pc[c] = "promote" /\ key(c) \in Keys /\ work[c].ans \in Answer
    BY <1>6, WorkingOnKey DEF Promote, TypeOK
  <2>2. CallersTyped'
    BY <1>6, <2>1, HitTyped DEF Promote
  <2>3. now + PromotionTTL(work[c].ans) \in Nat
    BY DEF TypeOK, PromotionTTL, Least
  <2>4. l1' \in [Keys -> Entry \union {NoEntry}]
    BY <1>6, <2>1, <2>3 DEF Promote, TypeOK, Entry
  <2> QED
    BY <1>1, <1>6, <2>2, <2>4 DEF Promote
<1>7. ASSUME NEW c \in Callers, Do(c)
      PROVE  TypeOK' /\ AnswersInv'
  <2>1. pc[c] = "do" /\ key(c) \in Keys /\ work[c] \in Work
    BY <1>7, WorkingOnKey DEF Do
  <2>2. CASE calls[key(c)] = NoCaller
    <3> DEFINE w == [work[c] EXCEPT !.fetchDue = now + Timeout]
    <3>1. now + Timeout \in Nat
      BY DEF TypeOK, Timeout
    <3>2. w \in Work /\ work' = [work EXCEPT ![c] = w] /\ Goto(c, "l1")
      BY <1>7, <2>1, <2>2, <3>1 DEF Do, EnterFlight, Work
    <3> HIDE DEF w
    <3>3. CallersTyped'
      BY <1>7, <3>2, WorkTyped DEF Do, TypeOK, Places
    <3> QED
      BY <1>7, <2>1, <2>2, <3>3
      DEF Do, EnterFlight, TypeOK, CallersTyped, AnswersInv, AnswersSoFar, bounds
  <2>3. CASE calls[key(c)] # NoCaller
    <3>1. work' = [work EXCEPT ![c] = work[c]] /\ Goto(c, "joined") /\ UNCHANGED calls
      BY <1>7, <2>3 DEF Do, EnterFlight, TypeOK
    <3>2. CallersTyped'
      BY <1>7, <2>1, <3>1, WorkTyped DEF Do, TypeOK, Places
    <3> QED
      BY <1>1, <1>7, <3>1, <3>2 DEF Do, TypeOK
  <2> QED
    BY <2>2, <2>3
<1>8. ASSUME NEW c \in Callers, NEW found \in BOOLEAN, FetchAnswer(c, found)
      PROVE  TypeOK' /\ AnswersInv'
  <2> DEFINE a == NewAnswer(found)
             w == [work[c] EXCEPT !.ans = a]
  <2>1. a \in Answer
    BY NextAnswer
  <2>2. /\ pc[c] = "fetch" /\ Goto(c, "storeL1") /\ key(c) \in Keys
        /\ obtained' = [obtained EXCEPT ![key(c)] = @ \union {a}]
        /\ work' = [work EXCEPT ![c].ans = a]
        /\ UNCHANGED <<l1, l2, calls, answer, now, delivered, bounds>>
    BY <1>8, WorkingOnKey DEF FetchAnswer
  <2>3. obtained' \in [Keys -> SUBSET Answer] /\ AnswersInv'
    BY <2>2, AnswerAdded
  <2> HIDE DEF a
  <2>4. w \in Work /\ w.ans \in Answer /\ work' = [work EXCEPT ![c] = w]
    BY <2>1, <2>2, AnswerHeld
  <2> HIDE DEF w
  <2>5. CallersTyped'
    BY <2>2, <2>4, WorkTyped DEF TypeOK, Places
  <2> QED
    BY <2>2, <2>3, <2>5 DEF TypeOK, CallersTyped, bounds
<1>9. ASSUME NEW c \in Callers, FetchError(c) \/ FetchExpire(c)
      PROVE  TypeOK' /\ AnswersInv'
  <2>1. PICK f \in Failures : /\ work' = [work EXCEPT ![c].ans = f]
                              /\ pc[c] = "fetch" /\ Goto(c, "finish")
                              /\ UNCHANGED <<l1, l2, calls, answer, now, obtained, delivered,
                                             bounds>>
    BY <1>9 DEF FetchError, FetchExpire, FetchFail, Failures
  <2> DEFINE w == [work[c] EXCEPT !.ans = f]
  <2>2. w \in Work /\ w.ans \in Failures /\ work' = [work EXCEPT ![c] = w]
    BY <2>1, AnswerHeld
  <2> HIDE DEF w
  <2>3. CallersTyped'
    BY <2>1, <2>2, WorkTyped DEF TypeOK, Places
  <2> QED
    BY <1>1, <2>1, <2>3 DEF TypeOK
<1>10. ASSUME NEW c \in Callers, StoreL1(c)
       PROVE  TypeOK' /\ AnswersInv'
  <2>1. pc[c] = "storeL1" /\ key(c) \in Keys /\ work[c] \in Work /\ work[c].ans \in Answer
    BY <1>10, WorkingOnKey DEF StoreL1, TypeOK
  <2>2. work' = [work EXCEPT ![c] = work[c]] /\ UNCHANGED <<answer, delivered>>
    BY <1>10 DEF StoreL1, TypeOK
  <2>3. PICK place \in {"storeL2", "finish"} : Goto(c, place)
    BY <1>10 DEF StoreL1
  <2>4. CallersTyped'
    BY <2>1, <2>2, <2>3, WorkTyped DEF TypeOK, Places
  <2>5. now + TTLFor(work[c].ans) \in Nat
    BY DEF TypeOK, TTLFor
  <2>6. l1' \in [Keys -> Entry \union {NoEntry}]
    BY <1>10, <2>1, <2>5 DEF StoreL1, TypeOK, Entry
  <2> QED
    BY <1>1, <1>10, <2>4, <2>6 DEF StoreL1
<1>11. ASSUME NEW c \in Callers, NEW ok \in BOOLEAN, StoreL2(c, ok)
       PROVE  TypeOK' /\ AnswersInv'
  <2>1. pc[c] = "storeL2" /\ key(c) \in Keys /\ work[c] \in Work /\ work[c].ans \in Answer
    BY <1>11, WorkingOnKey DEF StoreL2, TypeOK
  <2>2. work' = [work EXCEPT ![c] = work[c]] /\ Goto(c, "finish") /\ UNCHANGED <<answer, delivered>>
    BY <1>11 DEF StoreL2, TypeOK
  <2>3. CallersTyped'
    BY <2>1, <2>2, WorkTyped DEF TypeOK, Places
  <2>4. now + TTLFor(work[c].ans) \in Nat
    BY DEF TypeOK, TTLFor
  <2>5. l2' \in [Keys -> Entry \union {NoEntry}]
    BY <1>11, <2>1, <2>4 DEF StoreL2, TypeOK, Entry
  <2> QED
    BY <1>11, <2>3, <2>5 DEF StoreL2, TypeOK, CallersTyped, AnswersInv, AnswersSoFar, bounds
<1>12. ASSUME NEW c \in Callers, Finish(c)
       PROVE  TypeOK' /\ AnswersInv'
  <2>1. key(c) \in Keys /\ work[c].ans \in Answer \union Failures
    BY <1>12, WorkingOnKey DEF Finish, TypeOK
  <2>2. CallersTyped'
    BY <1>12, <2>1, ReturnTyped DEF Finish
  <2> QED
    <3>1. calls' \in [Keys -> Callers \union {NoCaller}]
      BY <1>12, <2>1 DEF Finish, TypeOK
    <3>2. UNCHANGED <<l1, l2, now, obtained, bounds>>
      BY <1>12 DEF Finish
    <3> QED
      BY <2>2, <3>1, <3>2 DEF TypeOK, CallersTyped, AnswersInv, AnswersSoFar, bounds
<1>13. ASSUME NEW k \in Keys, L1Drop(k)
       PROVE  TypeOK' /\ AnswersInv'
  <2>1. l1' \in [Keys -> Entry \union {NoEntry}]
    BY <1>13 DEF L1Drop, TypeOK
  <2>2. CallersTyped'
    BY <1>13 DEF L1Drop, TypeOK, CallersTyped
  <2> QED
    BY <1>1, <1>13, <2>1, <2>2 DEF L1Drop
<1>14. ASSUME NEW k \in Keys, NEW found \in BOOLEAN, PeerStore(k, found)
       PROVE  TypeOK' /\ AnswersInv'
  <2> DEFINE a == NewAnswer(found)
  <2>1. a \in Answer /\ now + TTLFor(a) \in Nat
    BY NextAnswer DEF TypeOK, TTLFor
  <2>2. obtained' = [obtained EXCEPT ![k] = @ \union {a}]
    BY <1>14 DEF PeerStore
  <2>3. obtained' \in [Keys -> SUBSET Answer] /\ AnswersInv'
    BY <2>2, AnswerAdded
  <2>4. l2' \in [Keys -> Entry \union {NoEntry}]
    BY <1>14, <2>1 DEF PeerStore, TypeOK, Entry
  <2> QED
    BY <1>14, <2>3, <2>4 DEF PeerStore, TypeOK
<1>15. CASE Restart
  <2>1. CallersTyped'
    BY <1>15 DEF Restart, TypeOK, CallersTyped, Places
  <2> QED
    BY <1>15, <2>1 DEF Restart, TypeOK, CallersTyped, AnswersInv, AnswersSoFar
<1>16. CASE Tick
  BY <1>16 DEF Tick, TypeOK, AnswersInv, AnswersSoFar, bounds
<1>17. CASE UNCHANGED vars
  BY <1>17 DEF vars, TypeOK, AnswersInv, AnswersSoFar
<1> QED
  BY <1>2, <1>3, <1>4, <1>5, <1>6, <1>7, <1>8, <1>9, <1>10, <1>11, <1>12, <1>13, <1>14, <1>15,
     <1>16, <1>17
  DEF Next, Progress, Upstream, Rest

\* Helper: who returns is idle and works no more, and the others go on as they were.
LEMMA ReturnIdles ==
    ASSUME TypeOK, NEW S \in SUBSET Callers, NEW k \in Keys, NEW a, Return(S, k, a)
    PROVE  \A c \in Callers :
            IF c \in S THEN pc'[c] = "idle" /\ work'[c] = NoWork /\ answer'[c] = a
                       ELSE pc'[c] = pc[c] /\ work'[c] = work[c] /\ answer'[c] = answer[c]
BY DEF TypeOK, Return

\* Helper: a hit sends the leader to the end of its flight, and others home.
LEMMA HitMoves ==
    ASSUME TypeOK, NEW c \in Callers, pc[c] # "idle", NEW a \in Answer, Hit(c, a)
    PROVE  /\ Leads(c) =>
                /\ pc'[c] = "finish"
                /\ work'[c] = [work[c] EXCEPT !.ans = a] /\ work'[c].ans = a
                /\ work'[c].key = key(c)
                /\ work'[c].called = work[c].called /\ work'[c].fetchDue = work[c].fetchDue
                /\ answer' = answer /\ delivered' = delivered
           /\ ~Leads(c) => Return({c}, key(c), a) /\ pc'[c] = "idle" /\ work'[c] = NoWork
           /\ \A d \in Callers \ {c} :
                pc'[d] = pc[d] /\ work'[d] = work[d] /\ answer'[d] = answer[d]
<1>1. CASE Leads(c)
  <2> DEFINE w == [work[c] EXCEPT !.ans = a]
  <2>1. /\ w.ans = a /\ w.key = key(c)
        /\ w.called = work[c].called /\ w.fetchDue = work[c].fetchDue
        /\ [work EXCEPT ![c].ans = a] = [work EXCEPT ![c] = w]
    BY AnswerHeld
  <2>2. /\ work' = [work EXCEPT ![c] = w] /\ pc' = [pc EXCEPT ![c] = "finish"]
        /\ answer' = answer /\ delivered' = delivered
    BY <1>1, <2>1 DEF Hit, Goto
  <2> HIDE DEF w
  <2>3. /\ pc'[c] = "finish" /\ work'[c] = w
        /\ \A d \in Callers \ {c} : pc'[d] = pc[d] /\ work'[d] = work[d]
    BY <2>2 DEF TypeOK
  <2> QED
    BY <1>1, <2>1, <2>2, <2>3 DEF w
<1>2. CASE ~Leads(c)
  <2>1. Return({c}, key(c), a)
    BY <1>2 DEF Hit
  <2> QED
    BY <1>2, <2>1, ReturnIdles, WorkingOnKey
<1> QED
  BY <1>1, <1>2

-----------------------------------------------------------------------------
(* One flight per key *)

\* Helper: one caller moves; a leader goes on leading, and others do not enter a flight.
LEMMA OneMoves ==
    ASSUME TypeOK, TypeOK', FlightInv, NEW c \in Callers, pc[c] # "idle",
           UNCHANGED calls,
           \A d \in Callers \ {c} : pc'[d] = pc[d] /\ work'[d].key = key(d),
           IF Leads(c)
           THEN pc'[c] \in Places \ {"idle", "do", "joined"} /\ work'[c].key = key(c)
           ELSE /\ pc'[c] \in {"idle", "l2", "promote", "do", "joined"}
                /\ pc'[c] = "joined" => work'[c].key = key(c) /\ calls[key(c)] # NoCaller
    PROVE  FlightInv'
BY ParamsAssumption DEF FlightInv, TypeOK, key, Leads

\* Helper: the hits and misses of a probe, or of a flight's second check.
LEMMA HitKeepsFlights ==
    ASSUME TypeOK, TypeOK', FlightInv, NEW c \in Callers, pc[c] # "idle", UNCHANGED calls,
           (\E a \in Answer : Hit(c, a)) \/ Missed(c)
    PROVE  FlightInv'
<1>1. ASSUME NEW a \in Answer, Hit(c, a)
      PROVE  FlightInv'
  <2>1. \A d \in Callers \ {c} : pc'[d] = pc[d] /\ work'[d].key = key(d)
    BY <1>1, HitMoves DEF key
  <2>2. IF Leads(c) THEN pc'[c] = "finish" /\ work'[c].key = key(c) ELSE pc'[c] = "idle"
    BY <1>1, HitMoves
  <2> QED
    BY <2>1, <2>2, OneMoves DEF Places
<1>2. CASE Missed(c)
  <2>1. \A d \in Callers : work'[d].key = key(d) /\ (d # c => pc'[d] = pc[d])
    BY <1>2 DEF Missed, Goto, TypeOK, key
  <2>2. pc'[c] = IF Leads(c) THEN "fetch" ELSE "do"
    BY <1>2 DEF Missed, Goto, TypeOK
  <2> QED
    BY <2>1, <2>2, OneMoves DEF Places
<1> QED
  BY <1>1, <1>2

\* Helper: every step keeps the flights.
LEMMA FlightKept ==
    ASSUME TypeOK, TypeOK', FlightInv, [Next]_vars
    PROVE  FlightInv'
<1> USE ParamsAssumption
<1>1. ASSUME NEW c \in Callers, NEW k \in Keys, Call(c, k)
      PROVE  FlightInv'
  <2>1. /\ pc[c] = "idle" /\ pc'[c] = "l1" /\ UNCHANGED calls
        /\ \A d \in Callers \ {c} : pc'[d] = pc[d] /\ work'[d] = work[d]
    BY <1>1 DEF Call, Goto, TypeOK
  <2>2. \A j \in Keys : calls[j] # c
    BY <2>1 DEF FlightInv
  <2> QED
    BY <2>1, <2>2 DEF FlightInv, TypeOK, key, Leads, Places
<1>2. ASSUME NEW c \in Callers, L1Get(c)
      PROVE  FlightInv'
  <2>1. pc[c] = "l1" /\ UNCHANGED calls /\ key(c) \in Keys
    BY <1>2, WorkingOnKey DEF L1Get
  <2>2. CASE Live(l1[key(c)])
    BY <1>2, <2>1, <2>2, LiveIsEntry, HitKeepsFlights DEF L1Get, TypeOK
  <2>3. CASE ~Live(l1[key(c)]) /\ HasL2
    <3>1. /\ \A d \in Callers : work'[d].key = key(d) /\ (d # c => pc'[d] = pc[d])
          /\ pc'[c] = "l2"
      BY <1>2, <2>3 DEF L1Get, Goto, TypeOK, key
    <3> QED
      BY <2>1, <3>1, OneMoves DEF Places
  <2>4. CASE ~Live(l1[key(c)]) /\ ~HasL2
    BY <1>2, <2>1, <2>4, HitKeepsFlights DEF L1Get
  <2> QED
    BY <2>2, <2>3, <2>4
<1>3. ASSUME NEW c \in Callers, L2Hit(c)
      PROVE  FlightInv'
  <2>1. pc[c] = "l2" /\ pc'[c] = "promote" /\ UNCHANGED calls
    BY <1>3 DEF L2Hit, Goto, TypeOK
  <2>2. \A d \in Callers : work'[d].key = key(d) /\ (d # c => pc'[d] = pc[d])
    BY <1>3, <2>1, WorkingOnKey DEF L2Hit, Goto, TypeOK, key, Work
  <2> QED
    BY <2>1, <2>2, OneMoves DEF Places
<1>4. ASSUME NEW c \in Callers, L2MissOrError(c)
      PROVE  FlightInv'
  BY <1>4, HitKeepsFlights DEF L2MissOrError
<1>5. ASSUME NEW c \in Callers, Promote(c)
      PROVE  FlightInv'
  BY <1>5, HitKeepsFlights DEF Promote, TypeOK
<1>6. ASSUME NEW c \in Callers, Do(c)
      PROVE  FlightInv'
  <2>1. pc[c] = "do" /\ key(c) \in Keys /\ work[c] \in Work
    BY <1>6, WorkingOnKey DEF Do
  <2>2. CASE calls[key(c)] = NoCaller
    <3>1. /\ calls' = [calls EXCEPT ![key(c)] = c] /\ pc'[c] = "l1"
          /\ \A d \in Callers : work'[d].key = key(d) /\ (d # c => pc'[d] = pc[d])
      BY <1>6, <2>1, <2>2 DEF Do, EnterFlight, Goto, TypeOK, key, Work
    <3>2. \A j \in Keys : calls[j] # c
      BY <2>1 DEF FlightInv
    <3>3. \A j \in Keys : calls'[j] = IF j = key(c) THEN c ELSE calls[j]
      BY <2>1, <3>1 DEF TypeOK
    <3>4. ASSUME NEW j \in Keys, calls'[j] # NoCaller
          PROVE  pc'[calls'[j]] \in Places \ {"idle", "do", "joined"} /\ work'[calls'[j]].key = j
      <4>1. CASE j = key(c)
        BY <3>1, <3>3, <4>1 DEF Places, key
      <4>2. CASE j # key(c)
        <5>1. calls'[j] \in Callers \ {c} /\ calls'[j] = calls[j]
          BY <3>2, <3>3, <3>4, <4>2 DEF TypeOK
        <5> QED
          BY <3>1, <3>4, <5>1 DEF FlightInv, key
      <4> QED
        BY <4>1, <4>2
    <3>5. ASSUME NEW d \in Callers, pc'[d] \in {"fetch", "storeL1", "storeL2", "finish"}
          PROVE  calls'[work'[d].key] = d
      BY <2>2, <3>1, <3>3, <3>5 DEF FlightInv, Leads, TypeOK, key
    <3>6. ASSUME NEW d \in Callers, pc'[d] = "joined"
          PROVE  calls'[work'[d].key] # NoCaller
      BY <2>2, <3>1, <3>3, <3>6 DEF FlightInv, TypeOK, key
    <3> QED
      BY <3>4, <3>5, <3>6 DEF FlightInv, Leads, key
  <2>3. CASE calls[key(c)] # NoCaller
    <3>1. /\ UNCHANGED calls /\ pc'[c] = "joined"
          /\ \A d \in Callers : work'[d].key = key(d) /\ (d # c => pc'[d] = pc[d])
      BY <1>6, <2>1, <2>3 DEF Do, EnterFlight, Goto, TypeOK, key
    <3>2. ~Leads(c)
      BY <2>1 DEF FlightInv, Leads
    <3> QED
      BY <2>1, <2>3, <3>1, <3>2, OneMoves
  <2> QED
    BY <2>2, <2>3
<1>7. ASSUME NEW c \in Callers,
             (\E found \in BOOLEAN : FetchAnswer(c, found)) \/ FetchError(c) \/ FetchExpire(c)
      PROVE  FlightInv'
  <2>1. pc[c] = "fetch" /\ pc'[c] \in {"storeL1", "finish"} /\ UNCHANGED calls
    BY <1>7 DEF FetchAnswer, FetchError, FetchExpire, FetchFail, Goto, TypeOK
  <2>2. PICK a : work' = [work EXCEPT ![c].ans = a]
    BY <1>7 DEF FetchAnswer, FetchError, FetchExpire, FetchFail
  <2>3. \A d \in Callers \ {c} : pc'[d] = pc[d]
    BY <1>7 DEF FetchAnswer, FetchError, FetchExpire, FetchFail, Goto, TypeOK
  <2>4. \A d \in Callers : work'[d].key = key(d)
    BY <2>1, <2>2, WorkingOnKey DEF TypeOK, key, Work
  <2>5. Leads(c)
    BY <2>1 DEF FlightInv
  <2> QED
    BY <2>1, <2>3, <2>4, <2>5, OneMoves DEF Places
<1>8. ASSUME NEW c \in Callers, StoreL1(c) \/ \E ok \in BOOLEAN : StoreL2(c, ok)
      PROVE  FlightInv'
  <2>1. /\ pc[c] \in {"storeL1", "storeL2"} /\ pc'[c] \in {"storeL2", "finish"}
        /\ UNCHANGED calls
        /\ \A d \in Callers : work'[d].key = key(d) /\ (d # c => pc'[d] = pc[d])
    BY <1>8 DEF StoreL1, StoreL2, Goto, TypeOK, key
  <2>2. Leads(c)
    BY <2>1 DEF FlightInv
  <2> QED
    BY <2>1, <2>2, OneMoves DEF Places
<1>9. ASSUME NEW c \in Callers, Finish(c)
      PROVE  FlightInv'
  <2> DEFINE S == {c} \union {d \in Callers : pc[d] = "joined" /\ key(d) = key(c)}
  <2>1. pc[c] = "finish" /\ key(c) \in Keys /\ Leads(c)
    BY <1>9, WorkingOnKey DEF Finish, FlightInv
  <2>2. calls' = [calls EXCEPT ![key(c)] = NoCaller]
    BY <1>9 DEF Finish
  <2>3. Return(S, key(c), work[c].ans) /\ S \in SUBSET Callers
    BY <1>9 DEF Finish
  <2>4. \A d \in Callers : IF d \in S THEN pc'[d] = "idle" /\ work'[d] = NoWork
                                      ELSE pc'[d] = pc[d] /\ work'[d] = work[d]
    <3> HIDE DEF S
    <3> QED
      BY <2>1, <2>3, ReturnIdles
  <2> QED
    BY <2>1, <2>2, <2>4 DEF FlightInv, TypeOK, key, Leads, Places
<1>10. CASE Restart
  BY <1>10 DEF Restart, FlightInv
<1>11. CASE UNCHANGED <<calls, pc, work>>
  BY <1>11 DEF FlightInv, key, Leads
<1>12. CASE \/ \E k \in Keys : L1Drop(k) \/ \E found \in BOOLEAN : PeerStore(k, found)
            \/ Tick \/ UNCHANGED vars
  BY <1>11, <1>12 DEF L1Drop, PeerStore, Tick, vars
<1> QED
  BY <1>1, <1>2, <1>3, <1>4, <1>5, <1>6, <1>7, <1>8, <1>9, <1>10, <1>12
  DEF Next, Progress, Upstream, Rest

-----------------------------------------------------------------------------
(* What a flight finds in L1 *)

\* Helper: every step keeps flights from fetching what they, or another, have stored.
LEMMA ColdKept ==
    ASSUME TypeOK, TypeOK', FlightInv, FlightInv', ColdInv, [Next]_vars
    PROVE  ColdInv'
<1> USE ParamsAssumption
<1>0. ASSUME UNCHANGED <<l1, now>>,
             \A d \in Callers : pc'[d] \in {"l2", "fetch"} /\ calls'[work'[d].key] = d =>
                \/ pc[d] \in {"l2", "fetch"} /\ Leads(d) /\ work'[d].key = key(d)
                \/ ~Live(l1[work'[d].key])
      PROVE  ColdInv'
  <2> SUFFICES ASSUME NEW d \in Callers, pc'[d] \in {"l2", "fetch"},
                      calls'[work'[d].key] = d, Live(l1[work'[d].key])
               PROVE  l1[work'[d].key].promoted
    BY <1>0 DEF ColdInv, Leads, key, Live
  <2> QED
    BY <1>0 DEF ColdInv
<1>1. ASSUME NEW c \in Callers, NEW k \in Keys, Call(c, k)
      PROVE  ColdInv'
  <2>1. /\ pc'[c] = "l1" /\ UNCHANGED <<l1, now, calls>>
        /\ \A d \in Callers \ {c} : pc'[d] = pc[d] /\ work'[d] = work[d]
    BY <1>1 DEF Call, Goto, TypeOK
  <2> QED
    BY <1>0, <2>1 DEF Leads, key
<1>2. ASSUME NEW c \in Callers, L1Get(c)
      PROVE  ColdInv'
  <2>1. pc[c] = "l1" /\ UNCHANGED <<calls, l1, now>> /\ key(c) \in Keys
    BY <1>2, WorkingOnKey DEF L1Get
  <2>2. CASE Live(l1[key(c)])
    <3>1. l1[key(c)].ans \in Answer /\ Hit(c, l1[key(c)].ans)
      BY <1>2, <2>1, <2>2, LiveIsEntry DEF L1Get, TypeOK
    <3>2. /\ pc'[c] \in {"finish", "idle"}
          /\ \A d \in Callers \ {c} : pc'[d] = pc[d] /\ work'[d] = work[d]
      BY <2>1, <3>1, HitMoves
    <3> QED
      BY <1>0, <2>1, <3>2 DEF Leads, key
  <2>3. CASE ~Live(l1[key(c)])
    <3>1. /\ work' = work
          /\ \A d \in Callers \ {c} : pc'[d] = pc[d]
      BY <1>2, <2>3 DEF L1Get, Missed, Goto, TypeOK
    <3> QED
      BY <1>0, <2>1, <2>3, <3>1 DEF Leads, key
  <2> QED
    BY <2>2, <2>3
<1>3. ASSUME NEW c \in Callers, L2Hit(c)
      PROVE  ColdInv'
  <2>1. /\ pc[c] = "l2" /\ pc'[c] = "promote" /\ UNCHANGED <<calls, l1, now>>
        /\ \A d \in Callers \ {c} : pc'[d] = pc[d] /\ work'[d] = work[d]
    BY <1>3 DEF L2Hit, Goto, TypeOK
  <2> QED
    BY <1>0, <2>1 DEF Leads, key
<1>4. ASSUME NEW c \in Callers, L2MissOrError(c)
      PROVE  ColdInv'
  <2>1. /\ pc[c] = "l2" /\ UNCHANGED <<calls, l1, now, work>>
        /\ \A d \in Callers \ {c} : pc'[d] = pc[d]
    BY <1>4 DEF L2MissOrError, Missed, Goto, TypeOK
  <2> QED
    BY <1>0, <2>1 DEF Leads, key
<1>5. ASSUME NEW c \in Callers, Promote(c)
      PROVE  ColdInv'
  <2>1. pc[c] = "promote" /\ key(c) \in Keys /\ work[c].ans \in Answer
    BY <1>5, WorkingOnKey DEF Promote, TypeOK
  <2>2. /\ pc'[c] \in {"finish", "idle"}
        /\ \A d \in Callers \ {c} : pc'[d] = pc[d] /\ work'[d] = work[d]
    BY <1>5, <2>1, HitMoves DEF Promote
  <2>3. /\ \A k \in Keys : l1'[k] = l1[k] \/ l1'[k].promoted
        /\ UNCHANGED <<calls, now>>
    BY <1>5, <2>1 DEF Promote, TypeOK
  <2>4. ASSUME NEW d \in Callers, pc'[d] \in {"l2", "fetch"}, calls'[work'[d].key] = d,
               l1'[work'[d].key] # NoEntry, now' <= l1'[work'[d].key].exp
        PROVE  l1'[work'[d].key].promoted
    <3>1. pc[d] \in {"l2", "fetch"} /\ Leads(d) /\ key(d) \in Keys /\ work'[d].key = key(d)
      BY <2>2, <2>3, <2>4, WorkingOnKey DEF Leads, key
    <3> QED
      BY <2>3, <2>4, <3>1 DEF ColdInv, Live
  <2> QED
    BY <2>4 DEF ColdInv, Leads, key, Live
<1>6. ASSUME NEW c \in Callers, Do(c)
      PROVE  ColdInv'
  <2>1. pc[c] = "do" /\ key(c) \in Keys /\ UNCHANGED <<l1, now>>
    BY <1>6, WorkingOnKey DEF Do
  <2>2. /\ pc'[c] \in {"l1", "joined"}
        /\ \A d \in Callers \ {c} : pc'[d] = pc[d] /\ work'[d] = work[d]
        /\ \A k \in Keys : calls'[k] = calls[k] \/ calls'[k] = c
    BY <1>6, <2>1 DEF Do, EnterFlight, Goto, TypeOK
  <2> QED
    BY <1>0, <2>1, <2>2, WorkingOnKey DEF Leads, key
<1>7. ASSUME NEW c \in Callers,
             (\E found \in BOOLEAN : FetchAnswer(c, found)) \/ FetchError(c) \/ FetchExpire(c)
      PROVE  ColdInv'
  <2>1. /\ pc'[c] \in {"storeL1", "finish"} /\ UNCHANGED <<calls, l1, now>>
        /\ \A d \in Callers \ {c} : pc'[d] = pc[d] /\ work'[d] = work[d]
    BY <1>7 DEF FetchAnswer, FetchError, FetchExpire, FetchFail, Goto, TypeOK
  <2> QED
    BY <1>0, <2>1 DEF Leads, key
<1>8. ASSUME NEW c \in Callers, StoreL1(c)
      PROVE  ColdInv'
  <2>1. pc[c] = "storeL1" /\ Leads(c) /\ UNCHANGED <<calls, now, work>>
    BY <1>8 DEF StoreL1, FlightInv
  <2>2. pc'[c] \in {"storeL2", "finish"} /\ \A d \in Callers \ {c} : pc'[d] = pc[d]
    BY <1>8 DEF StoreL1, Goto, TypeOK
  <2>3. \A k \in Keys \ {key(c)} : l1'[k] = l1[k]
    BY <1>8 DEF StoreL1, TypeOK
  <2>4. ASSUME NEW d \in Callers, pc'[d] \in {"l2", "fetch"}, Leads(d),
               Live(l1[key(d)])'
        PROVE  l1'[key(d)].promoted
    <3>1. d # c /\ pc[d] = pc'[d] /\ key(d) \in Keys
      BY <2>2, <2>4, WorkingOnKey
    <3>2. key(d) # key(c)
      BY <2>1, <2>4, <3>1 DEF Leads
    <3>3. l1'[key(d)] = l1[key(d)] /\ key(d)' = key(d)
      BY <2>1, <2>3, <3>1, <3>2 DEF key
    <3> QED
      BY <2>1, <2>4, <3>1, <3>3 DEF ColdInv, Live
  <2> QED
    BY <2>1, <2>4 DEF ColdInv, Leads, key
<1>9. ASSUME NEW c \in Callers, NEW ok \in BOOLEAN, StoreL2(c, ok)
      PROVE  ColdInv'
  <2>1. /\ pc'[c] = "finish" /\ UNCHANGED <<calls, l1, now, work>>
        /\ \A d \in Callers \ {c} : pc'[d] = pc[d]
    BY <1>9 DEF StoreL2, Goto, TypeOK
  <2> QED
    BY <1>0, <2>1 DEF Leads, key
<1>10. ASSUME NEW c \in Callers, Finish(c)
       PROVE  ColdInv'
  <2> DEFINE S == {c} \union {d \in Callers : pc[d] = "joined" /\ key(d) = key(c)}
  <2>1. key(c) \in Keys /\ UNCHANGED <<l1, now>>
    BY <1>10, WorkingOnKey DEF Finish
  <2>2. \A k \in Keys : calls'[k] = calls[k] \/ calls'[k] = NoCaller
    BY <1>10, <2>1 DEF Finish, TypeOK
  <2>3. Return(S, key(c), work[c].ans) /\ S \in SUBSET Callers
    BY <1>10 DEF Finish
  <2> HIDE DEF S
  <2>4. \A d \in Callers : IF d \in S THEN pc'[d] = "idle" ELSE pc'[d] = pc[d] /\ work'[d] = work[d]
    BY <2>1, <2>3, ReturnIdles
  <2> QED
    BY <1>0, <2>1, <2>2, <2>4, WorkingOnKey DEF Leads, key
<1>11. ASSUME NEW k \in Keys, L1Drop(k)
       PROVE  ColdInv'
  <2>1. \A j \in Keys : l1'[j] = l1[j] \/ l1'[j] = NoEntry
    BY <1>11 DEF L1Drop, TypeOK
  <2>2. UNCHANGED <<calls, pc, work, now>>
    BY <1>11 DEF L1Drop
  <2>3. \A d \in Callers : pc[d] \in {"l2", "fetch"} => key(d) \in Keys
    BY WorkingOnKey
  <2> QED
    BY <2>1, <2>2, <2>3 DEF ColdInv, Leads, key, Live
<1>12. ASSUME NEW k \in Keys, NEW found \in BOOLEAN, PeerStore(k, found)
       PROVE  ColdInv'
  BY <1>12 DEF PeerStore, ColdInv, Leads, key, Live
<1>13. CASE Restart
  BY <1>13 DEF Restart, ColdInv
<1>14. CASE Tick
  <2>1. \A e \in Entry : now' <= e.exp => now <= e.exp
    BY <1>14 DEF Tick, TypeOK, Entry
  <2>2. ASSUME NEW d \in Callers, pc[d] \in {"l2", "fetch"}, Leads(d), Live(l1[key(d)])'
        PROVE  l1[key(d)].promoted
    <3>1. l1'[key(d)'] = l1[key(d)] /\ l1[key(d)] \in Entry
      BY <1>14, <2>2, WorkingOnKey DEF Tick, TypeOK, Live, key
    <3> QED
      BY <2>1, <2>2, <3>1 DEF ColdInv, Live
  <2> QED
    BY <1>14, <2>2 DEF Tick, ColdInv, Leads, key
<1>15. CASE UNCHANGED vars
  BY <1>15 DEF vars, ColdInv, Leads, key, Live
<1> QED
  BY <1>1, <1>2, <1>3, <1>4, <1>5, <1>6, <1>7, <1>8, <1>9, <1>10, <1>11, <1>12, <1>13, <1>14,
     <1>15
  DEF Next, Progress, Upstream, Rest

-----------------------------------------------------------------------------
(* The deadline of a fetch *)

\* Helper: every step keeps the deadlines.
LEMMA DeadlineKept ==
    ASSUME TypeOK, TypeOK', FlightInv, DeadlineInv, [Next]_vars
    PROVE  DeadlineInv'
<1> USE ParamsAssumption
<1> DEFINE Late == Failure("fetch_timeout")
<1>a. Timeout \in Nat /\ now \in Nat /\ now' \in Nat
  BY DEF Timeout, TypeOK
<1>b. \A d \in Callers : pc[d] # "idle" =>
        /\ work[d].called \in Nat /\ work[d].fetchDue \in Nat /\ key(d) \in Keys
        /\ work[d].called <= now
        /\ Leads(d) => work[d].fetchDue >= work[d].called + Timeout
        /\ pc[d] = "finish" /\ work[d].ans = Late => now >= work[d].called + Timeout
  BY WorkingOnKey DEF DeadlineInv, Work
<1>0. ASSUME now' >= now,
             \A d \in Callers : pc'[d] # "idle" =>
                /\ pc[d] # "idle" /\ work'[d].called = work[d].called
                /\ calls'[work'[d].key] = d =>
                    \/ Leads(d) /\ work'[d].fetchDue = work[d].fetchDue
                    \/ work'[d].fetchDue >= work[d].called + Timeout
                /\ pc'[d] = "finish" /\ work'[d].ans = Late =>
                    \/ pc[d] = "finish" /\ work[d].ans = Late
                    \/ now >= work[d].called + Timeout
      PROVE  DeadlineInv'
  <2> SUFFICES ASSUME NEW d \in Callers, pc'[d] # "idle"
               PROVE  /\ work'[d].called <= now'
                      /\ calls'[work'[d].key] = d =>
                            work'[d].fetchDue >= work'[d].called + Timeout
                      /\ pc'[d] = "finish" /\ work'[d].ans = Late =>
                            now' >= work'[d].called + Timeout
    BY DEF DeadlineInv, Leads, key, Timeout, Failure
  <2> HIDE DEF Late
  <2> QED
    BY <1>0, <1>a, <1>b
<1> HIDE DEF Late
<1>1. ASSUME NEW c \in Callers, NEW k \in Keys, Call(c, k)
      PROVE  DeadlineInv'
  <2>1. /\ pc[c] = "idle" /\ pc'[c] = "l1" /\ UNCHANGED <<now, calls>>
        /\ work'[c].called = now /\ work'[c].key = k
        /\ \A d \in Callers \ {c} : pc'[d] = pc[d] /\ work'[d] = work[d]
    BY <1>1 DEF Call, Goto, TypeOK
  <2>2. calls[k] # c
    BY <2>1 DEF FlightInv
  <2>3. ASSUME NEW d \in Callers \ {c}, pc[d] # "idle"
        PROVE  /\ work'[d].called <= now'
               /\ calls'[work'[d].key] = d => work'[d].fetchDue >= work'[d].called + Timeout
               /\ pc'[d] = "finish" /\ work'[d].ans = Late => now' >= work'[d].called + Timeout
    BY <1>b, <2>1, <2>3 DEF Leads, key
  <2> QED
    BY <1>a, <2>1, <2>2, <2>3 DEF DeadlineInv, Leads, key, Timeout, Late, Failure
<1>2. ASSUME NEW c \in Callers, NEW a \in Answer, Hit(c, a), pc[c] # "idle",
             UNCHANGED <<calls, now>>
      PROVE  DeadlineInv'
  <2>1. a # Late
    BY FailureIsNoAnswer DEF Late, Failures
  <2>2. \/ /\ Leads(c) /\ work'[c].ans = a
           /\ work'[c].called = work[c].called /\ work'[c].fetchDue = work[c].fetchDue
        \/ pc'[c] = "idle"
    BY <1>2, HitMoves
  <2>3. \A d \in Callers \ {c} : pc'[d] = pc[d] /\ work'[d] = work[d]
    BY <1>2, HitMoves
  <2> QED
    BY <1>0, <1>a, <1>2, <2>1, <2>2, <2>3 DEF Leads, key
<1>3. ASSUME NEW c \in Callers, pc[c] # "idle",  UNCHANGED <<work, calls, now>>,
             pc'[c] = "finish" => work[c].ans \in Answer,
             \A d \in Callers \ {c} : pc'[d] = pc[d]
      PROVE  DeadlineInv'
  <2>1. pc'[c] = "finish" => work[c].ans # Late
    BY <1>3, FailureIsNoAnswer DEF Late, Failures
  <2> QED
    BY <1>0, <1>a, <1>3, <2>1 DEF Leads, key
<1>4. ASSUME NEW c \in Callers, L1Get(c)
      PROVE  DeadlineInv'
  <2>1. pc[c] = "l1" /\ UNCHANGED <<calls, now>> /\ key(c) \in Keys
    BY <1>4, WorkingOnKey DEF L1Get
  <2>2. CASE Live(l1[key(c)])
    BY <1>2, <1>4, <2>1, <2>2, LiveIsEntry DEF L1Get, TypeOK
  <2>3. CASE ~Live(l1[key(c)])
    <3>1. /\ work' = work /\ pc'[c] # "finish"
          /\ \A d \in Callers \ {c} : pc'[d] = pc[d]
      BY <1>4, <2>3 DEF L1Get, Missed, Goto, TypeOK
    <3> QED
      BY <1>3, <2>1, <3>1
  <2> QED
    BY <2>2, <2>3
<1>5. ASSUME NEW c \in Callers, L2Hit(c)
      PROVE  DeadlineInv'
  <2>1. /\ pc[c] = "l2" /\ pc'[c] = "promote" /\ UNCHANGED <<calls, now>>
        /\ \A d \in Callers \ {c} : pc'[d] = pc[d] /\ work'[d] = work[d]
        /\ work' = [work EXCEPT ![c].ans = l2[key(c)].ans] /\ l2[key(c)].ans \in Answer
    BY <1>5, LiveIsEntry, WorkingOnKey DEF L2Hit, Goto, TypeOK
  <2>2. /\ work'[c].called = work[c].called /\ work'[c].fetchDue = work[c].fetchDue
        /\ work'[c].key = key(c)
    BY <2>1, WorkingOnKey DEF TypeOK, Work, key
  <2> QED
    BY <1>0, <1>a, <2>1, <2>2 DEF Leads, key
<1>6. ASSUME NEW c \in Callers, L2MissOrError(c)
      PROVE  DeadlineInv'
  <2>1. /\ pc[c] = "l2" /\ UNCHANGED <<calls, now, work>> /\ pc'[c] # "finish"
        /\ \A d \in Callers \ {c} : pc'[d] = pc[d]
    BY <1>6 DEF L2MissOrError, Missed, Goto, TypeOK
  <2> QED
    BY <1>3, <2>1
<1>7. ASSUME NEW c \in Callers, Promote(c)
      PROVE  DeadlineInv'
  BY <1>2, <1>7 DEF Promote, TypeOK
<1>8. ASSUME NEW c \in Callers, Do(c)
      PROVE  DeadlineInv'
  <2>1. pc[c] = "do" /\ key(c) \in Keys /\ work[c] \in Work /\ UNCHANGED now
    BY <1>8, WorkingOnKey DEF Do
  <2>2. /\ pc'[c] \in {"l1", "joined"}
        /\ \A d \in Callers \ {c} : pc'[d] = pc[d] /\ work'[d] = work[d]
        /\ \A k \in Keys : calls'[k] = calls[k] \/ calls'[k] = c
    BY <1>8, <2>1 DEF Do, EnterFlight, Goto, TypeOK
  <2>3. /\ work'[c].called = work[c].called /\ work'[c].key = key(c)
        /\ \/ work'[c].fetchDue = now + Timeout
           \/ work'[c].fetchDue = work[c].fetchDue /\ calls' = calls
    BY <1>8, <2>1 DEF Do, EnterFlight, TypeOK, Work, key
  <2>4. now + Timeout >= work[c].called + Timeout
    BY <1>a, <1>b, <2>1
  <2>5. \A d \in Callers \ {c} : pc[d] # "idle" /\ calls'[work'[d].key] = d => Leads(d)
    BY <1>b, <2>2 DEF Leads, key
  <2>6. calls' = calls /\ calls'[work'[c].key] = c => Leads(c)
    BY <2>3 DEF Leads
  <2> QED
    BY <1>0, <1>a, <2>1, <2>2, <2>3, <2>4, <2>5, <2>6
<1>9. ASSUME NEW c \in Callers, NEW found \in BOOLEAN, FetchAnswer(c, found)
      PROVE  DeadlineInv'
  <2>1. /\ pc[c] = "fetch" /\ pc'[c] = "storeL1" /\ UNCHANGED <<calls, now>>
        /\ \A d \in Callers \ {c} : pc'[d] = pc[d] /\ work'[d] = work[d]
        /\ work' = [work EXCEPT ![c].ans = NewAnswer(found)]
    BY <1>9 DEF FetchAnswer, Goto, TypeOK
  <2>2. /\ work'[c].called = work[c].called /\ work'[c].fetchDue = work[c].fetchDue
        /\ work'[c].key = key(c)
    BY <2>1, WorkingOnKey DEF TypeOK, Work, key
  <2> QED
    BY <1>0, <1>a, <2>1, <2>2 DEF Leads, key
<1>10. ASSUME NEW c \in Callers, FetchError(c) \/ FetchExpire(c)
       PROVE  DeadlineInv'
  <2>1. PICK f \in {Failure("upstream_error"), Late} :
            /\ work' = [work EXCEPT ![c].ans = f]
            /\ pc[c] = "fetch" /\ pc'[c] = "finish"
            /\ UNCHANGED <<calls, now>>
            /\ \A d \in Callers \ {c} : pc'[d] = pc[d] /\ work'[d] = work[d]
            /\ f = Late => now >= work[c].fetchDue
    <3>1. Failure("upstream_error") # Late
      BY DEF Failure, Late
    <3> QED
      BY <1>10, <3>1 DEF FetchError, FetchExpire, FetchFail, FetchCtxDone, Goto, TypeOK, Late
  <2>2. /\ work'[c].called = work[c].called /\ work'[c].fetchDue = work[c].fetchDue
        /\ work'[c].key = key(c) /\ work'[c].ans = f
    BY <2>1, WorkingOnKey DEF TypeOK, Work, key
  <2>3. f = Late => now >= work[c].called + Timeout
    BY <1>a, <1>b, <2>1 DEF FlightInv
  <2> QED
    BY <1>0, <1>a, <2>1, <2>2, <2>3 DEF Leads, key
<1>11. ASSUME NEW c \in Callers, StoreL1(c) \/ \E ok \in BOOLEAN : StoreL2(c, ok)
       PROVE  DeadlineInv'
  <2>1. /\ pc[c] \in {"storeL1", "storeL2"} /\ UNCHANGED <<calls, now, work>>
        /\ \A d \in Callers \ {c} : pc'[d] = pc[d]
    BY <1>11 DEF StoreL1, StoreL2, Goto, TypeOK
  <2>2. work[c].ans \in Answer
    BY <2>1 DEF TypeOK
  <2> QED
    BY <1>3, <2>1, <2>2
<1>12. ASSUME NEW c \in Callers, Finish(c)
       PROVE  DeadlineInv'
  <2> DEFINE S == {c} \union {d \in Callers : pc[d] = "joined" /\ key(d) = key(c)}
  <2>1. key(c) \in Keys /\ UNCHANGED now
    BY <1>12, WorkingOnKey DEF Finish
  <2>2. \A k \in Keys : calls'[k] = calls[k] \/ calls'[k] = NoCaller
    BY <1>12, <2>1 DEF Finish, TypeOK
  <2>3. Return(S, key(c), work[c].ans) /\ S \in SUBSET Callers
    BY <1>12 DEF Finish
  <2> HIDE DEF S
  <2>4. \A d \in Callers : pc'[d] # "idle" => pc'[d] = pc[d] /\ work'[d] = work[d]
    BY <2>1, <2>3, ReturnIdles
  <2>5. \A d \in Callers : pc'[d] # "idle" /\ calls'[work'[d].key] = d => Leads(d)
    BY <1>b, <2>2, <2>4 DEF Leads, key
  <2> QED
    BY <1>0, <1>a, <2>1, <2>4, <2>5
<1>13. CASE Restart
  BY <1>13 DEF Restart, DeadlineInv
<1>14. CASE Tick
  <2>1. now' >= now /\ UNCHANGED <<calls, pc, work>>
    BY <1>14, <1>a DEF Tick
  <2> QED
    BY <1>0, <2>1 DEF Leads, key
<1>15. CASE UNCHANGED <<calls, pc, work, now>>
  BY <1>15 DEF DeadlineInv, Leads, key
<1>16. CASE \/ \E k \in Keys : L1Drop(k) \/ \E found \in BOOLEAN : PeerStore(k, found)
            \/ UNCHANGED vars
  BY <1>15, <1>16 DEF L1Drop, PeerStore, vars
<1> QED
  BY <1>1, <1>4, <1>5, <1>6, <1>7, <1>8, <1>9, <1>10, <1>11, <1>12, <1>13, <1>14, <1>16
  DEF Next, Progress, Upstream, Rest

-----------------------------------------------------------------------------
(* How old what is held may be *)

\* Helper: a promotion adds its lease to the first one, and without L2 there is none.
LEMMA Ages ==
    ASSUME NEW a \in Answer
    PROVE  /\ Age(a) \in Nat /\ TTLFor(a) \in Nat /\ PromotionTTL(a) \in Nat /\ a.at \in Nat
           /\ TTLFor(a) <= Age(a)
           /\ HasL2 => TTLFor(a) + PromotionTTL(a) <= Age(a)
BY ParamsAssumption DEF Age, TTLFor, PromotionTTL, Least, Answer

\* Helper: every step keeps what is held in time.
LEMMA AgeKept ==
    ASSUME TypeOK, TypeOK', AnswersInv, AgeInv, [Next]_vars
    PROVE  AgeInv'
<1> USE ParamsAssumption
<1> DEFINE Grows == \A k \in Keys : obtained[k] \subseteq obtained'[k]
<1>a. now \in Nat /\ now' \in Nat
  BY DEF TypeOK
<1>0. ASSUME UNCHANGED obtained
      PROVE  Grows
  BY <1>0
<1>1. ASSUME Grows, NEW k \in Keys, l1'[k] = l1[k] \/ l1'[k] = NoEntry
      PROVE  L1InTime(k)'
  BY <1>1 DEF AgeInv, L1InTime, Age
<1>2. ASSUME Grows, NEW k \in Keys, l2'[k] = l2[k]
      PROVE  L2InTime(k)'
  BY <1>2 DEF AgeInv, L2InTime, TTLFor
<1>3. ASSUME Grows, NEW c \in Callers,
             pc[c] # "idle" /\ pc'[c] = pc[c] /\ work'[c] = work[c] /\ now' = now
      PROVE  WorkInTime(c)'
  BY <1>3, WorkingOnKey DEF AgeInv, WorkInTime, TTLFor, Age, key
<1>4. ASSUME NEW c \in Callers,
             pc'[c] \in {"idle", "l1", "do", "joined", "fetch"} \/ (pc'[c] = "l2" /\ HasL2)
      PROVE  WorkInTime(c)'
  BY <1>4 DEF WorkInTime
<1>5. ASSUME Grows, UNCHANGED now,
             \A k \in Keys : (l1'[k] = l1[k] \/ l1'[k] = NoEntry) /\ l2'[k] = l2[k],
             NEW c \in Callers, WorkInTime(c)',
             \A d \in Callers \ {c} : pc'[d] = pc[d] /\ work'[d] = work[d]
      PROVE  AgeInv'
  <2>1. ASSUME NEW d \in Callers
        PROVE  WorkInTime(d)'
    <3>1. CASE d = c
      BY <1>5, <3>1
    <3>2. CASE d # c /\ pc[d] # "idle"
      BY <1>3, <1>5, <3>2
    <3>3. CASE d # c /\ pc[d] = "idle"
      BY <1>4, <1>5, <3>3
    <3> QED
      BY <3>1, <3>2, <3>3
  <2> QED
    BY <1>1, <1>2, <1>5, <2>1 DEF AgeInv
<1> HIDE DEF Grows
<1>6. ASSUME NEW c \in Callers, pc[c] # "idle", NEW a \in obtained[key(c)], Hit(c, a),
             now <= a.at + Age(a), UNCHANGED <<now, obtained>>
      PROVE  /\ WorkInTime(c)'
             /\ \A d \in Callers \ {c} : pc'[d] = pc[d] /\ work'[d] = work[d]
  <2>1. a \in Answer
    BY <1>6, WorkingOnKey DEF TypeOK
  <2>2. \/ pc'[c] = "finish" /\ work'[c].ans = a /\ work'[c].key = key(c)
        \/ pc'[c] = "idle"
    BY <1>6, <2>1, HitMoves
  <2>3. \A d \in Callers \ {c} : pc'[d] = pc[d] /\ work'[d] = work[d]
    BY <1>6, <2>1, HitMoves
  <2> QED
    BY <1>6, <2>2, <2>3 DEF WorkInTime, Age, key
<1>7. ASSUME NEW c \in Callers, NEW k \in Keys, Call(c, k)
      PROVE  AgeInv'
  <2>1. /\ pc'[c] = "l1" /\ UNCHANGED <<now, l1, l2, obtained>>
        /\ \A d \in Callers \ {c} : pc'[d] = pc[d] /\ work'[d] = work[d]
    BY <1>7 DEF Call, Goto, TypeOK
  <2> QED
    BY <1>0, <1>4, <1>5, <2>1
<1>8. ASSUME NEW c \in Callers, L1Get(c)
      PROVE  AgeInv'
  <2>1. pc[c] = "l1" /\ UNCHANGED <<l1, l2, now, obtained>> /\ key(c) \in Keys
    BY <1>8, WorkingOnKey DEF L1Get
  <2>2. CASE Live(l1[key(c)])
    <3> DEFINE e == l1[key(c)]
    <3>1. /\ e \in Entry /\ e.ans \in obtained[key(c)] /\ e.ans \in Answer
          /\ now <= e.exp /\ e.exp <= e.ans.at + Age(e.ans) /\ e.exp \in Nat
      BY <2>1, <2>2, LiveIsEntry DEF AgeInv, L1InTime, TypeOK, Live, Entry
    <3>2. Hit(c, e.ans)
      BY <1>8, <2>2 DEF L1Get
    <3> HIDE DEF e
    <3>3. now <= e.ans.at + Age(e.ans)
      BY <1>a, <3>1, Ages
    <3> QED
      BY <1>0, <1>5, <1>6, <2>1, <3>1, <3>2, <3>3
  <2>3. CASE ~Live(l1[key(c)])
    <3>1. /\ pc'[c] \in {"fetch", "do"} \/ (pc'[c] = "l2" /\ HasL2)
          /\ \A d \in Callers \ {c} : pc'[d] = pc[d]
      BY <1>8, <2>3 DEF L1Get, Missed, Goto, TypeOK
    <3>2. work' = work
      BY <1>8, <2>3 DEF L1Get, Missed
    <3> QED
      BY <1>0, <1>4, <1>5, <2>1, <3>1, <3>2
  <2> QED
    BY <2>2, <2>3
<1>9. ASSUME NEW c \in Callers, L2Hit(c)
      PROVE  AgeInv'
  <2> DEFINE e == l2[key(c)]
  <2>1. /\ pc[c] = "l2" /\ pc'[c] = "promote" /\ UNCHANGED <<l1, l2, now, obtained>>
        /\ \A d \in Callers \ {c} : pc'[d] = pc[d] /\ work'[d] = work[d]
        /\ work' = [work EXCEPT ![c].ans = e.ans]
    BY <1>9 DEF L2Hit, Goto, TypeOK
  <2>2. key(c) \in Keys /\ work'[c].ans = e.ans /\ work'[c].key = key(c)
    BY <2>1, WorkingOnKey DEF TypeOK, Work, key
  <2>3. /\ e \in Entry /\ e.ans \in obtained[key(c)] /\ e.ans \in Answer
        /\ now <= e.exp /\ e.exp <= e.ans.at + TTLFor(e.ans) /\ e.exp \in Nat
    BY <1>9, <2>2, LiveIsEntry DEF L2Hit, AgeInv, L2InTime, TypeOK, Live, Entry
  <2> HIDE DEF e
  <2>4. now <= e.ans.at + TTLFor(e.ans)
    BY <1>a, <2>3, Ages
  <2>5. HasL2
    BY <2>1 DEF AgeInv, WorkInTime
  <2>6. WorkInTime(c)'
    BY <2>1, <2>2, <2>3, <2>4, <2>5 DEF WorkInTime, TTLFor, key
  <2> QED
    BY <1>0, <1>5, <2>1, <2>6
<1>10. ASSUME NEW c \in Callers, L2MissOrError(c)
       PROVE  AgeInv'
  <2>1. /\ UNCHANGED <<l1, l2, now, obtained, work>> /\ pc'[c] \in {"fetch", "do"}
        /\ \A d \in Callers \ {c} : pc'[d] = pc[d]
    BY <1>10 DEF L2MissOrError, Missed, Goto, TypeOK
  <2> QED
    BY <1>0, <1>4, <1>5, <2>1
<1>11. ASSUME NEW c \in Callers, Promote(c)
       PROVE  AgeInv'
  <2> DEFINE a == work[c].ans
  <2>1. /\ pc[c] = "promote" /\ key(c) \in Keys /\ a \in obtained[key(c)] /\ a \in Answer
        /\ HasL2 /\ now <= a.at + TTLFor(a) /\ Hit(c, a) /\ UNCHANGED <<l2, now, obtained>>
    BY <1>11, WorkingOnKey DEF Promote, AgeInv, WorkInTime, TypeOK
  <2>2. l1' = [l1 EXCEPT ![key(c)] = [ans |-> a, exp |-> now + PromotionTTL(a), promoted |-> TRUE]]
    BY <1>11 DEF Promote
  <2> HIDE DEF a
  <2>3. /\ now <= a.at + Age(a)
        /\ now + PromotionTTL(a) <= a.at + Age(a)
    BY <1>a, <2>1, Ages
  <2>4. /\ WorkInTime(c)'
        /\ \A d \in Callers \ {c} : pc'[d] = pc[d] /\ work'[d] = work[d]
    BY <1>6, <2>1, <2>3
  <2>5. ASSUME NEW k \in Keys
        PROVE  L1InTime(k)'
    <3>1. CASE k = key(c)
      BY <2>1, <2>2, <2>3, <3>1 DEF L1InTime, Age, TypeOK
    <3>2. CASE k # key(c)
      BY <1>0, <1>1, <2>1, <2>2, <3>2 DEF TypeOK
    <3> QED
      BY <3>1, <3>2
  <2>6. ASSUME NEW d \in Callers
        PROVE  WorkInTime(d)'
    BY <1>0, <1>3, <1>4, <2>1, <2>4
  <2> QED
    BY <1>0, <1>2, <2>1, <2>5, <2>6 DEF AgeInv
<1>12. ASSUME NEW c \in Callers, Do(c)
       PROVE  AgeInv'
  <2>1. /\ pc'[c] \in {"l1", "joined"} /\ UNCHANGED <<l1, l2, now, obtained>>
        /\ \A d \in Callers \ {c} : pc'[d] = pc[d] /\ work'[d] = work[d]
    BY <1>12 DEF Do, EnterFlight, Goto, TypeOK
  <2> QED
    BY <1>0, <1>4, <1>5, <2>1
<1>13. ASSUME NEW c \in Callers, NEW found \in BOOLEAN, FetchAnswer(c, found)
       PROVE  AgeInv'
  <2> DEFINE a == NewAnswer(found)
  <2>1. /\ pc[c] = "fetch" /\ pc'[c] = "storeL1" /\ UNCHANGED <<l1, l2, now>>
        /\ \A d \in Callers \ {c} : pc'[d] = pc[d] /\ work'[d] = work[d]
        /\ work' = [work EXCEPT ![c].ans = a]
        /\ obtained' = [obtained EXCEPT ![key(c)] = @ \union {a}]
    BY <1>13 DEF FetchAnswer, Goto, TypeOK
  <2>2. key(c) \in Keys /\ work'[c].ans = a /\ work'[c].key = key(c)
    BY <2>1, WorkingOnKey DEF TypeOK, Work, key
  <2>3. a.at = now
    BY NextAnswer
  <2> HIDE DEF a
  <2>4. Grows /\ a \in obtained'[key(c)]
    BY <2>1, <2>2 DEF Grows, TypeOK
  <2>5. WorkInTime(c)'
    BY <2>1, <2>2, <2>3, <2>4 DEF WorkInTime, key
  <2> QED
    BY <1>5, <2>1, <2>4, <2>5
<1>14. ASSUME NEW c \in Callers, FetchError(c) \/ FetchExpire(c)
       PROVE  AgeInv'
  <2>1. PICK f \in Failures :
            /\ work' = [work EXCEPT ![c].ans = f]
            /\ pc[c] = "fetch" /\ pc'[c] = "finish"
            /\ UNCHANGED <<l1, l2, now, obtained>>
            /\ \A d \in Callers \ {c} : pc'[d] = pc[d] /\ work'[d] = work[d]
    BY <1>14 DEF FetchError, FetchExpire, FetchFail, Goto, TypeOK, Failures
  <2>2. work'[c].ans = f
    BY <2>1, WorkingOnKey DEF TypeOK, Work
  <2>3. WorkInTime(c)'
    BY <2>1, <2>2, FailureIsNoAnswer DEF WorkInTime
  <2> QED
    BY <1>0, <1>5, <2>1, <2>3
<1>15. ASSUME NEW c \in Callers, StoreL1(c)
       PROVE  AgeInv'
  <2> DEFINE a == work[c].ans
  <2>1. /\ pc[c] = "storeL1" /\ key(c) \in Keys /\ a \in obtained[key(c)] /\ a \in Answer
        /\ a.at = now /\ UNCHANGED <<l2, now, obtained, work>>
    BY <1>15, WorkingOnKey DEF StoreL1, AgeInv, WorkInTime, TypeOK
  <2>2. l1' = [l1 EXCEPT ![key(c)] = [ans |-> a, exp |-> now + TTLFor(a), promoted |-> FALSE]]
    BY <1>15 DEF StoreL1
  <2>3. /\ pc'[c] = "finish" \/ (pc'[c] = "storeL2" /\ HasL2)
        /\ \A d \in Callers \ {c} : pc'[d] = pc[d] /\ work'[d] = work[d]
    BY <1>15 DEF StoreL1, Goto, TypeOK
  <2>4. /\ now <= a.at + Age(a) /\ now + TTLFor(a) <= a.at + Age(a)
    BY <1>a, <2>1, Ages
  <2>5. WorkInTime(c)'
    BY <2>1, <2>3, <2>4 DEF WorkInTime, Age, key
  <2> HIDE DEF a
  <2>6. ASSUME NEW k \in Keys
        PROVE  L1InTime(k)'
    <3>1. CASE k = key(c)
      BY <2>1, <2>2, <2>4, <3>1 DEF L1InTime, Age, TypeOK
    <3>2. CASE k # key(c)
      BY <1>0, <1>1, <2>1, <2>2, <3>2 DEF TypeOK
    <3> QED
      BY <3>1, <3>2
  <2>7. ASSUME NEW d \in Callers
        PROVE  WorkInTime(d)'
    BY <1>0, <1>3, <1>4, <2>1, <2>3, <2>5
  <2> QED
    BY <1>0, <1>2, <2>1, <2>6, <2>7 DEF AgeInv
<1>16. ASSUME NEW c \in Callers, NEW ok \in BOOLEAN, StoreL2(c, ok)
       PROVE  AgeInv'
  <2> DEFINE a == work[c].ans
  <2>1. /\ pc[c] = "storeL2" /\ key(c) \in Keys /\ a \in obtained[key(c)] /\ a \in Answer
        /\ a.at = now /\ UNCHANGED <<l1, now, obtained, work>>
    BY <1>16, WorkingOnKey DEF StoreL2, AgeInv, WorkInTime, TypeOK
  <2>2. \/ l2' = l2
        \/ l2' = [l2 EXCEPT ![key(c)] = [ans |-> a, exp |-> now + TTLFor(a), promoted |-> FALSE]]
    BY <1>16 DEF StoreL2
  <2>3. /\ pc'[c] = "finish"
        /\ \A d \in Callers \ {c} : pc'[d] = pc[d] /\ work'[d] = work[d]
    BY <1>16 DEF StoreL2, Goto, TypeOK
  <2>4. /\ now <= a.at + Age(a) /\ now + TTLFor(a) <= a.at + TTLFor(a)
    BY <1>a, <2>1, Ages
  <2>5. WorkInTime(c)'
    BY <2>1, <2>3, <2>4 DEF WorkInTime, Age, key
  <2> HIDE DEF a
  <2>6. ASSUME NEW k \in Keys
        PROVE  L2InTime(k)'
    <3>1. CASE k = key(c) /\ l2' # l2
      BY <2>1, <2>2, <2>4, <3>1 DEF L2InTime, TTLFor, TypeOK
    <3>2. CASE k # key(c) \/ l2' = l2
      BY <1>0, <1>2, <2>1, <2>2, <3>2 DEF TypeOK
    <3> QED
      BY <3>1, <3>2
  <2>7. ASSUME NEW d \in Callers
        PROVE  WorkInTime(d)'
    BY <1>0, <1>3, <1>4, <2>1, <2>3, <2>5
  <2> QED
    BY <1>0, <1>1, <2>1, <2>6, <2>7 DEF AgeInv
<1>17. ASSUME NEW c \in Callers, Finish(c)
       PROVE  AgeInv'
  <2> DEFINE S == {c} \union {d \in Callers : pc[d] = "joined" /\ key(d) = key(c)}
  <2>1. key(c) \in Keys /\ UNCHANGED <<now, l1, l2, obtained>>
    BY <1>17, WorkingOnKey DEF Finish
  <2>2. Return(S, key(c), work[c].ans) /\ S \in SUBSET Callers
    BY <1>17 DEF Finish
  <2> HIDE DEF S
  <2>3. \A d \in Callers : pc'[d] = "idle" \/ (pc'[d] = pc[d] /\ work'[d] = work[d])
    BY <2>1, <2>2, ReturnIdles
  <2>4. ASSUME NEW d \in Callers
        PROVE  WorkInTime(d)'
    BY <1>0, <1>3, <1>4, <2>1, <2>3
  <2> QED
    BY <1>0, <1>1, <1>2, <2>1, <2>4 DEF AgeInv
<1>18. ASSUME NEW k \in Keys, L1Drop(k)
       PROVE  AgeInv'
  <2>1. \A j \in Keys : l1'[j] = l1[j] \/ l1'[j] = NoEntry
    BY <1>18 DEF L1Drop, TypeOK
  <2>2. UNCHANGED <<l2, obtained, pc, work, now>>
    BY <1>18 DEF L1Drop
  <2> QED
    BY <1>0, <1>1, <1>2, <1>3, <1>4, <2>1, <2>2 DEF AgeInv
<1>19. ASSUME NEW k \in Keys, NEW found \in BOOLEAN, PeerStore(k, found)
       PROVE  AgeInv'
  <2> DEFINE a == NewAnswer(found)
  <2>1. /\ UNCHANGED <<l1, pc, work, now>>
        /\ obtained' = [obtained EXCEPT ![k] = @ \union {a}]
        /\ l2' = [l2 EXCEPT ![k] = [ans |-> a, exp |-> now + TTLFor(a), promoted |-> FALSE]]
    BY <1>19 DEF PeerStore
  <2>2. a \in Answer /\ a.at = now /\ now + TTLFor(a) <= a.at + TTLFor(a)
    BY <1>a, NextAnswer, Ages
  <2> HIDE DEF a
  <2>3. Grows /\ a \in obtained'[k]
    BY <2>1 DEF Grows, TypeOK
  <2>4. ASSUME NEW j \in Keys
        PROVE  L2InTime(j)'
    <3>1. CASE j = k
      BY <2>1, <2>2, <2>3, <3>1 DEF L2InTime, TTLFor, TypeOK
    <3>2. CASE j # k
      BY <1>2, <2>1, <2>3, <3>2 DEF TypeOK
    <3> QED
      BY <3>1, <3>2
  <2> QED
    BY <1>1, <1>3, <1>4, <2>1, <2>3, <2>4 DEF AgeInv
<1>20. CASE Restart
  <2>1. /\ \A k \in Keys : l1'[k] = NoEntry
        /\ \A c \in Callers : pc'[c] = "idle"
        /\ UNCHANGED <<l2, obtained>>
    BY <1>20 DEF Restart
  <2> QED
    BY <1>0, <1>1, <1>2, <1>4, <2>1 DEF AgeInv
<1>21. CASE Tick
  <2>1. UNCHANGED <<l1, l2, obtained>> /\ \A c \in Callers : pc'[c] \in {"idle", "joined", "fetch"}
    BY <1>21 DEF Tick
  <2> QED
    BY <1>0, <1>1, <1>2, <1>4, <2>1 DEF AgeInv
<1>22. CASE UNCHANGED vars
  BY <1>22 DEF vars, AgeInv, L1InTime, L2InTime, WorkInTime, TTLFor, Age, key
<1> QED
  BY <1>7, <1>8, <1>9, <1>10, <1>11, <1>12, <1>13, <1>14, <1>15, <1>16, <1>17, <1>18, <1>19,
     <1>20, <1>21, <1>22
  DEF Next, Progress, Upstream, Rest

-----------------------------------------------------------------------------
(* The inductive invariant, and what follows from it *)

IInv ==
    /\ TypeOK /\ AnswersInv /\ FlightInv
    /\ ColdInv /\ DeadlineInv /\ AgeInv

\* The inductive invariant of the tiered cache holds.
THEOREM Invariance == Spec => []IInv
<1>1. Init => IInv
  <2> SUFFICES ASSUME Init
               PROVE  IInv
    OBVIOUS
  <2>1. TypeOK
    BY ParamsAssumption DEF Init, TypeOK, Places
  <2>2. AnswersSoFar = {}
    BY DEF Init, AnswersSoFar
  <2>3. AnswersInv
    BY <2>2, FS_EmptySet DEF Init, AnswersInv
  <2>4. FlightInv /\ ColdInv /\ DeadlineInv
    BY DEF Init, FlightInv, ColdInv, DeadlineInv
  <2>5. AgeInv
    BY DEF Init, AgeInv, L1InTime, L2InTime, WorkInTime
  <2> QED
    BY <2>1, <2>3, <2>4, <2>5 DEF IInv
<1>2. IInv /\ [Next]_vars => IInv'
  BY TypeKept, FlightKept, ColdKept, DeadlineKept, AgeKept DEF IInv
<1> QED
  BY <1>1, <1>2, PTL DEF Spec

\* The type invariant of tiered.go: who works has a key, and whoever promotes, stores or
\* ends a flight has an answer for it.
THEOREM TypeCorrect == Spec => []TypeOK
BY Invariance, PTL DEF IInv

\* singleflight: however callers, flights and restarts interleave, at most one caller is
\* between a key's second check and the end of its flight, and nobody waits for no one.
THEOREM FlightsAreSingle == Spec => []OneFlightPerKey
<1>1. IInv => OneFlightPerKey
  <2> SUFFICES ASSUME IInv
               PROVE  OneFlightPerKey
    OBVIOUS
  <2>1. \A c \in Callers : pc[c] = "joined" => calls[key(c)] \in Callers
    BY WorkingOnKey DEF IInv, FlightInv, TypeOK
  <2> QED
    BY <2>1 DEF IInv, FlightInv, OneFlightPerKey, Leads
<1> QED
  BY <1>1, Invariance, PTL

\* The second check of a flight (GetOrFetchWithNegative): the upstream is not asked for
\* what L1 holds, whoever stored it between the probe and the flight.
THEOREM FlightsFetchCold == Spec => []FetchOnlyWhenCold
<1>1. IInv => FetchOnlyWhenCold
  BY DEF IInv, FlightInv, ColdInv, FetchOnlyWhenCold
<1> QED
  BY <1>1, Invariance, PTL

\* The detached context of a fetch: no call ends in its deadline before the whole
\* FetchTimeout, or the default when the config omits it.
THEOREM TimeoutsAreWhole == Spec => []NoEarlyTimeout
<1>1. IInv => NoEarlyTimeout
  <2> SUFFICES ASSUME IInv, NEW c \in Callers,
                      pc[c] = "finish", work[c].ans = Failure("fetch_timeout")
               PROVE  now - work[c].called >= Timeout
    BY ParamsAssumption DEF NoEarlyTimeout, Timeout
  <2>1. now \in Nat /\ work[c].called \in Nat /\ Timeout \in Nat
    BY ParamsAssumption, WorkingOnKey DEF IInv, TypeOK, Work, Timeout
  <2>2. now >= work[c].called + Timeout
    BY DEF IInv, DeadlineInv
  <2> QED
    BY <2>1, <2>2
<1> QED
  BY <1>1, Invariance, PTL

-----------------------------------------------------------------------------
(* The cache implements AnswerService *)

\* Helper: a step that changes no key, clock, upstream answer or reply is a stutter.
LEMMA CacheStutters ==
    ASSUME UNCHANGED <<now, obtained, answer>>, \A c \in Callers : work'[c].key = work[c].key
    PROVE  UNCHANGED Service!serviceVars
<1>1. [c \in Callers |-> work'[c].key] = [c \in Callers |-> work[c].key]
  OBVIOUS
<1> QED
  BY <1>1 DEF Service!serviceVars

\* Helper: returning an answer in time, or a failure, is a reply of the service.
LEMMA ReturnReplies ==
    ASSUME TypeOK, NEW S \in SUBSET Callers, NEW k \in Keys, NEW a, Return(S, k, a),
           \A c \in S : key(c) = k,
           a \in Failures \/ (a \in obtained[k] /\ now <= a.at + Age(a)),
           UNCHANGED <<now, obtained>>
    PROVE  Service!Reply
<1>1. a \in Service!Servable(k) \union Failures
  <2>1. CASE a \in obtained[k] /\ now <= a.at + Age(a)
    <3>1. a \in Answer /\ a.at \in Nat /\ Age(a) \in Nat /\ now \in Nat
      BY <2>1, Ages, ParamsAssumption DEF TypeOK
    <3>2. now - a.at <= Age(a)
      BY <2>1, <3>1
    <3> QED
      BY <2>1, <3>2 DEF Service!Servable, Age
  <2> QED
    BY <2>1
<1>2. ASSUME NEW c \in Callers
      PROVE  \/ work'[c].key = work[c].key /\ answer'[c] = answer[c]
             \/ /\ work[c].key \in Keys
                /\ work'[c].key = NoCaller
                /\ answer'[c] \in Service!Servable(work[c].key) \union Failures
  <2>1. CASE c \in S
    <3>1. work'[c] = NoWork /\ answer'[c] = a /\ work[c].key = k
      BY <2>1, ReturnIdles DEF key
    <3> QED
      BY <1>1, <3>1 DEF NoWork
  <2>2. CASE c \notin S
    BY <2>2, ReturnIdles
  <2> QED
    BY <2>1, <2>2
<1> QED
  BY <1>2 DEF Service!Reply

\* Helper: a tier's answer in time ends a probe with a reply, and a check in a stutter.
LEMMA HitReplies ==
    ASSUME TypeOK, NEW c \in Callers, pc[c] # "idle", NEW a \in Answer, Hit(c, a),
           a \in obtained[key(c)], now <= a.at + Age(a), UNCHANGED <<now, obtained>>
    PROVE  Service!Reply \/ UNCHANGED Service!serviceVars
<1>1. CASE Leads(c)
  <2>1. answer' = answer /\ \A d \in Callers : work'[d].key = work[d].key
    BY <1>1, HitMoves DEF key
  <2> QED
    BY <2>1, CacheStutters
<1>2. CASE ~Leads(c)
  <2>1. Return({c}, key(c), a) /\ key(c) \in Keys
    BY <1>2, HitMoves, WorkingOnKey
  <2> QED
    BY <2>1, ReturnReplies
<1> QED
  BY <1>1, <1>2

\* Helper: the answer that comes next is one the service may obtain.
LEMMA AnswerObtained ==
    ASSUME TypeOK, AnswersInv, NEW k \in Keys, NEW found \in BOOLEAN,
           obtained' = [obtained EXCEPT ![k] = @ \union {NewAnswer(found)}],
           UNCHANGED <<now, answer>>, \A c \in Callers : work'[c].key = work[c].key
    PROVE  Service!Obtain
<1> DEFINE a == NewAnswer(found)
<1>1. /\ a.at = now
      /\ \A j \in Keys : \A b \in obtained[j] : b.ver \in Nat /\ a.ver \in Nat /\ b.ver < a.ver
  BY NextAnswer DEF TypeOK, Answer
<1>2. \A j \in Keys : \A b \in obtained[j] : a.ver > b.ver
  BY <1>1
<1> HIDE DEF a
<1>3. a \in obtained'[k] /\ obtained' = [obtained EXCEPT ![k] = @ \union {a}]
  BY DEF TypeOK, a
<1>4. [c \in Callers |-> work'[c].key] = [c \in Callers |-> work[c].key]
  OBVIOUS
<1> QED
  BY <1>1, <1>2, <1>3, <1>4 DEF Service!Obtain

\* Helper: every step of the cache is one of the service, or changes nothing of it.
LEMMA StepsImplement ==
    ASSUME IInv, [Next]_vars
    PROVE  Service!ServiceNext \/ UNCHANGED Service!serviceVars
<1> USE ParamsAssumption DEF IInv
<1>1. ASSUME NEW c \in Callers, NEW k \in Keys, Call(c, k)
      PROVE  Service!Ask
  <2>1. /\ work[c] = NoWork /\ work'[c].key = k
        /\ \A d \in Callers \ {c} : work'[d] = work[d]
        /\ answer' = [answer EXCEPT ![c] = NoAnswer]
        /\ UNCHANGED <<now, obtained>>
    BY <1>1 DEF Call, TypeOK
  <2>2. work[c].key = NoCaller
    BY <2>1 DEF NoWork
  <2>3. [d \in Callers |-> work'[d].key] = [[d \in Callers |-> work[d].key] EXCEPT ![c] = k]
    BY <2>1
  <2> QED
    BY <2>1, <2>2, <2>3 DEF Service!Ask
<1>2. ASSUME NEW c \in Callers, L1Get(c)
      PROVE  Service!Reply \/ UNCHANGED Service!serviceVars
  <2>1. pc[c] = "l1" /\ UNCHANGED <<now, obtained>> /\ key(c) \in Keys
    BY <1>2, WorkingOnKey DEF L1Get
  <2>2. CASE Live(l1[key(c)])
    <3> DEFINE e == l1[key(c)]
    <3>1. /\ e \in Entry /\ e.ans \in obtained[key(c)] /\ e.ans \in Answer
          /\ now <= e.exp /\ e.exp <= e.ans.at + Age(e.ans) /\ e.exp \in Nat /\ now \in Nat
      BY <2>1, <2>2, LiveIsEntry DEF AgeInv, L1InTime, TypeOK, Live, Entry
    <3>2. Hit(c, e.ans)
      BY <1>2, <2>2 DEF L1Get
    <3> HIDE DEF e
    <3>3. now <= e.ans.at + Age(e.ans)
      BY <3>1, Ages
    <3> QED
      BY <2>1, <3>1, <3>2, <3>3, HitReplies
  <2>3. CASE ~Live(l1[key(c)])
    BY <1>2, <2>1, <2>3, CacheStutters DEF L1Get, Missed
  <2> QED
    BY <2>2, <2>3
<1>3. ASSUME NEW c \in Callers, Promote(c)
      PROVE  Service!Reply \/ UNCHANGED Service!serviceVars
  <2> DEFINE a == work[c].ans
  <2>1. /\ pc[c] = "promote" /\ key(c) \in Keys /\ a \in obtained[key(c)] /\ a \in Answer
        /\ now <= a.at + TTLFor(a) /\ Hit(c, a) /\ UNCHANGED <<now, obtained>> /\ now \in Nat
    BY <1>3, WorkingOnKey DEF Promote, AgeInv, WorkInTime, TypeOK
  <2> HIDE DEF a
  <2>2. now <= a.at + Age(a)
    BY <2>1, Ages
  <2> QED
    BY <2>1, <2>2, HitReplies
<1>4. ASSUME NEW c \in Callers, NEW found \in BOOLEAN, FetchAnswer(c, found)
      PROVE  Service!Obtain
  <2>1. /\ key(c) \in Keys /\ UNCHANGED <<now, answer>>
        /\ obtained' = [obtained EXCEPT ![key(c)] = @ \union {NewAnswer(found)}]
    BY <1>4, WorkingOnKey DEF FetchAnswer
  <2>2. \A d \in Callers : work'[d].key = work[d].key
    <3>1. work' = [work EXCEPT ![c].ans = NewAnswer(found)] /\ pc[c] = "fetch"
      BY <1>4 DEF FetchAnswer
    <3> QED
      BY <3>1, WorkingOnKey DEF TypeOK, Work
  <2> QED
    BY <2>1, <2>2, AnswerObtained
<1>5. ASSUME NEW k \in Keys, NEW found \in BOOLEAN, PeerStore(k, found)
      PROVE  Service!Obtain
  BY <1>5, AnswerObtained DEF PeerStore
<1>6. ASSUME NEW c \in Callers, Finish(c)
      PROVE  Service!Reply
  <2> DEFINE S == {c} \union {d \in Callers : pc[d] = "joined" /\ key(d) = key(c)}
             a == work[c].ans
  <2>1. pc[c] = "finish" /\ key(c) \in Keys /\ UNCHANGED <<now, obtained>>
    BY <1>6, WorkingOnKey DEF Finish
  <2>2. Return(S, key(c), a) /\ S \in SUBSET Callers /\ \A d \in S : key(d) = key(c)
    BY <1>6 DEF Finish
  <2>3. a \in Failures \/ (a \in obtained[key(c)] /\ now <= a.at + Age(a))
    BY <2>1 DEF AgeInv, WorkInTime, TypeOK
  <2> HIDE DEF S, a
  <2> QED
    BY <2>1, <2>2, <2>3, ReturnReplies
<1>7. CASE Restart
  <2>1. [c \in Callers |-> work'[c].key] = [c \in Callers |-> NoCaller]
    BY <1>7 DEF Restart, NoWork
  <2> QED
    BY <1>7, <2>1 DEF Restart, Service!ServiceNext, Service!Abandon
<1>8. CASE Tick
  <2>1. now' > now /\ UNCHANGED <<obtained, work, answer>>
    BY <1>8 DEF Tick, TypeOK
  <2> QED
    BY <2>1 DEF Service!ServiceNext, Service!Pass
<1>9. ASSUME NEW c \in Callers,
             \/ L2Hit(c) \/ L2MissOrError(c) \/ Do(c) \/ FetchError(c) \/ FetchExpire(c)
             \/ StoreL1(c) \/ \E ok \in BOOLEAN : StoreL2(c, ok)
      PROVE  UNCHANGED Service!serviceVars
  <2>1. pc[c] # "idle" /\ UNCHANGED <<now, obtained, answer>>
    BY <1>9
    DEF L2Hit, L2MissOrError, Missed, Do, FetchError, FetchExpire, FetchFail, StoreL1, StoreL2
  <2>2. \/ work' = work
        \/ \E a : work' = [work EXCEPT ![c].ans = a]
        \/ work' = [work EXCEPT ![c].fetchDue = now + Timeout]
    BY <1>9 DEF L2Hit, L2MissOrError, Missed, Do, EnterFlight, FetchError, FetchExpire, FetchFail,
                StoreL1, StoreL2
  <2>3. \A d \in Callers : work'[d].key = work[d].key
    BY <2>1, <2>2, WorkingOnKey DEF TypeOK, Work
  <2> QED
    BY <2>1, <2>3, CacheStutters
<1>10. CASE UNCHANGED <<now, obtained, work, answer>>
  BY <1>10, CacheStutters
<1>11. CASE (\E k \in Keys : L1Drop(k)) \/ UNCHANGED vars
  BY <1>10, <1>11 DEF L1Drop, vars
<1> QED
  BY <1>1, <1>2, <1>3, <1>4, <1>5, <1>6, <1>7, <1>8, <1>9, <1>11
  DEF Next, Progress, Upstream, Rest, Service!ServiceNext

\* tiered.go keeps the promise of AnswerService: whatever the tiers, flights, promotions,
\* restarts and other processes do, a caller gets a failure or an answer that the upstream
\* gave for its key, and none older than its TTL and one promotion lease.
THEOREM CacheImplementsService == Spec => ServiceImplemented
<1>1. Init => Service!ServiceInit
  BY DEF Init, NoWork, Service!ServiceInit
<1>2. IInv /\ [Next]_vars => [Service!ServiceNext]_(Service!serviceVars)
  BY StepsImplement
<1> QED
  BY <1>1, <1>2, Invariance, PTL DEF Spec, ServiceImplemented, Service!ServiceSpec

-----------------------------------------------------------------------------
(* Without L2, answers never go back *)

\* Helper: what a return does to the latest answer delivered for its key.
LEMMA ReturnDelivers ==
    ASSUME TypeOK, NEW S \in SUBSET Callers, NEW k \in Keys, NEW a \in Answer \union Failures,
           Return(S, k, a)
    PROVE  \A j \in Keys :
            /\ delivered'[j] >= delivered[j]
            /\ IF a \in Answer /\ a.ver > delivered[k] /\ j = k
               THEN delivered'[j] = a.ver ELSE delivered'[j] = delivered[j]
<1>1. a \in Answer => a.ver \in Nat
  BY DEF Answer
<1> QED
  BY <1>1 DEF TypeOK, Return

\* Helper: a return of what L1 holds, or of what a flight has stored there if it is
\* still held, keeps the order.
LEMMA ReturnInOrder ==
    ASSUME TypeOK, AnswersInv, OrderInv,
           NEW S \in SUBSET Callers, NEW k \in Keys, NEW a \in Answer \union Failures,
           Return(S, k, a), UNCHANGED <<l1, obtained, floor>>,
           \A c \in S : pc[c] # "idle" /\ key(c) = k,
           a \in Answer =>
                /\ a \in obtained[k] /\ delivered[k] <= a.ver
                /\ l1[k] # NoEntry => l1[k].ans.ver = a.ver
                /\ \A d \in Callers \ S :
                    /\ pc[d] \in {"storeL1", "finish"} /\ key(d) = k /\ work[d].ans \in Answer
                    => a.ver <= work[d].ans.ver
    PROVE  OrderInv'
<1>1. /\ delivered' \in [Keys -> Nat] /\ delivered \in [Keys -> Nat] /\ floor \in [Callers -> Nat]
      /\ a \in Answer => a.ver \in Nat
      /\ Cardinality(AnswersSoFar) \in Nat
  BY ReturnTyped, FS_CardinalityType DEF CallersTyped, TypeOK, AnswersInv, Answer
<1>2. \A j \in Keys :
        /\ delivered'[j] >= delivered[j]
        /\ IF a \in Answer /\ a.ver > delivered[k] /\ j = k
           THEN delivered'[j] = a.ver ELSE delivered'[j] = delivered[j]
  BY ReturnDelivers
<1>3. \A j \in Keys : l1[j] # NoEntry => l1[j].ans.ver \in Nat
  BY DEF TypeOK, Entry, Answer
<1>4. \A d \in Callers : IF d \in S THEN pc'[d] = "idle" /\ work'[d] = NoWork /\ answer'[d] = a
                         ELSE pc'[d] = pc[d] /\ work'[d] = work[d] /\ answer'[d] = answer[d]
  BY ReturnIdles
<1>5. ASSUME NEW j \in Keys
      PROVE  KeyInOrder(j)'
  <2>1. a \in Answer => a.ver <= Cardinality(AnswersSoFar)
    BY DEF AnswersInv
  <2>2. AnswersSoFar' = AnswersSoFar
    BY DEF AnswersSoFar
  <2>3. delivered'[j] <= Cardinality(AnswersSoFar)
    BY <1>1, <1>2, <2>1 DEF OrderInv, KeyInOrder
  <2>4. l1[j] # NoEntry => delivered'[j] <= l1[j].ans.ver
    BY <1>1, <1>2, <1>3 DEF OrderInv, KeyInOrder
  <2> QED
    BY <2>2, <2>3, <2>4 DEF KeyInOrder
<1>6. ASSUME NEW d \in Callers
      PROVE  WorkInOrder(d)'
  <2> SUFFICES ASSUME d \notin S, pc[d] # "idle"
               PROVE  WorkInOrder(d)'
    BY <1>4 DEF WorkInOrder
  <2>1. key(d) \in Keys /\ pc'[d] = pc[d] /\ work'[d] = work[d]
    BY <1>4, WorkingOnKey
  <2>2. floor[d] <= delivered'[key(d)]
    BY <1>1, <1>2, <2>1 DEF OrderInv, WorkInOrder
  <2>3. ASSUME pc[d] \in {"storeL1", "finish"}, work[d].ans \in Answer
        PROVE  delivered'[key(d)] <= work[d].ans.ver
    <3>1. delivered[key(d)] <= work[d].ans.ver
      BY <2>3 DEF OrderInv, WorkInOrder
    <3>2. a \in Answer /\ key(d) = k => a.ver <= work[d].ans.ver
      BY <2>3
    <3> QED
      BY <1>2, <2>1, <3>1, <3>2
  <2>4. WorkInOrder(d)
    BY DEF OrderInv
  <2> QED
    BY <2>1, <2>2, <2>3, <2>4 DEF WorkInOrder, key
<1>7. ASSUME NEW d \in Callers, answer'[d] \in Answer
      PROVE  answer'[d].ver >= floor[d]
  <2>1. CASE d \in S
    <3>1. answer'[d] = a /\ a \in Answer /\ a.ver \in Nat
      BY <1>1, <1>4, <1>7, <2>1
    <3>2. floor[d] <= delivered[k]
      BY <2>1 DEF OrderInv, WorkInOrder
    <3> QED
      BY <1>1, <3>1, <3>2
  <2>2. CASE d \notin S
    BY <1>4, <1>7, <2>2 DEF OrderInv, MonotonicAnswers
  <2> QED
    BY <2>1, <2>2
<1> QED
  BY <1>5, <1>6, <1>7 DEF OrderInv, MonotonicAnswers

\* Helper: without L2 every step keeps the order.
LEMMA OrderKept ==
    ASSUME ~HasL2, IInv, IInv', OrderInv, [Next]_vars
    PROVE  OrderInv'
<1> USE ParamsAssumption, NullsAssumption
<1>a. /\ TypeOK /\ TypeOK' /\ AnswersInv /\ AnswersInv' /\ FlightInv /\ AgeInv
      /\ Cardinality(AnswersSoFar) \in Nat
  BY FS_CardinalityType DEF IInv, AnswersInv
<1>b. \A k \in Keys : delivered[k] \in Nat /\ KeyInOrder(k)
  BY <1>a DEF OrderInv, TypeOK
<1>c. \A d \in Callers : WorkInOrder(d) /\ floor[d] \in Nat
  BY <1>a DEF OrderInv, TypeOK
<1>d. \A d \in Callers : pc[d] # "idle" => key(d) \in Keys /\ work[d] \in Work
  BY <1>a, WorkingOnKey
<1>0. ASSUME UNCHANGED <<delivered, obtained, answer, floor>>,
             \A k \in Keys : l1'[k] = l1[k] \/ l1'[k] = NoEntry,
             \A d \in Callers : pc'[d] # "idle" =>
                /\ pc[d] # "idle" /\ work'[d].key = key(d)
                /\ pc'[d] \in {"storeL1", "finish"} /\ work'[d].ans \in Answer =>
                    \/ pc'[d] = pc[d] /\ work'[d].ans = work[d].ans
                    \/ /\ pc'[d] = "finish" /\ l1[key(d)] # NoEntry
                       /\ work'[d].ans = l1[key(d)].ans
      PROVE  OrderInv'
  <2>1. AnswersSoFar' = AnswersSoFar
    BY <1>0 DEF AnswersSoFar
  <2>2. ASSUME NEW k \in Keys
        PROVE  KeyInOrder(k)'
    BY <1>0, <1>b, <2>1 DEF KeyInOrder
  <2>3. ASSUME NEW d \in Callers, pc'[d] # "idle"
        PROVE  WorkInOrder(d)'
    <3>1. key(d) \in Keys /\ key(d)' = key(d) /\ KeyInOrder(key(d)) /\ WorkInOrder(d)
      BY <1>0, <1>b, <1>c, <1>d, <2>3 DEF key
    <3>2. l1[key(d)] # NoEntry => l1[key(d)].ans.ver \in Nat
      BY <1>a, <3>1 DEF TypeOK, Entry, Answer
    <3> QED
      BY <1>0, <2>3, <3>1, <3>2 DEF KeyInOrder, WorkInOrder
  <2>4. \A d \in Callers : WorkInOrder(d)'
    BY <2>3 DEF WorkInOrder
  <2> QED
    BY <1>0, <2>2, <2>4 DEF OrderInv, MonotonicAnswers
<1>1. ASSUME NEW c \in Callers, NEW k \in Keys, Call(c, k)
      PROVE  OrderInv'
  <2>1. /\ pc'[c] = "l1" /\ work'[c].key = k /\ answer'[c] = NoAnswer
        /\ floor'[c] = delivered[k] /\ UNCHANGED <<l1, delivered, obtained>>
        /\ \A d \in Callers \ {c} : /\ pc'[d] = pc[d] /\ work'[d] = work[d]
                                    /\ answer'[d] = answer[d] /\ floor'[d] = floor[d]
    BY <1>1, <1>a DEF Call, Goto, TypeOK
  <2>2. \A j \in Keys : KeyInOrder(j)'
    BY <1>b, <2>1 DEF KeyInOrder, AnswersSoFar
  <2>3. \A d \in Callers : WorkInOrder(d)'
    BY <1>b, <1>c, <2>1 DEF WorkInOrder, key
  <2>4. MonotonicAnswers'
    BY <2>1 DEF OrderInv, MonotonicAnswers
  <2> QED
    BY <2>2, <2>3, <2>4 DEF OrderInv
<1>2. ASSUME NEW c \in Callers, L1Get(c)
      PROVE  OrderInv'
  <2>1. pc[c] = "l1" /\ UNCHANGED <<l1, obtained, floor>> /\ key(c) \in Keys
    BY <1>2, <1>d DEF L1Get, bounds
  <2>2. CASE Live(l1[key(c)])
    <3> DEFINE a == l1[key(c)].ans
    <3>1. a \in Answer /\ a \in obtained[key(c)] /\ Hit(c, a) /\ l1[key(c)] # NoEntry
      BY <1>2, <1>a, <2>1, <2>2, LiveIsEntry DEF L1Get, TypeOK, Live, AgeInv, L1InTime
    <3>2. CASE Leads(c)
      <4>1. /\ pc'[c] = "finish" /\ work'[c].ans = a /\ work'[c].key = key(c)
            /\ UNCHANGED <<answer, delivered>>
            /\ \A d \in Callers \ {c} : pc'[d] = pc[d] /\ work'[d] = work[d]
        BY <1>a, <2>1, <3>1, <3>2, HitMoves
      <4> QED
        BY <1>0, <2>1, <3>1, <4>1 DEF key
    <3>3. CASE ~Leads(c)
      <4>1. Return({c}, key(c), a)
        BY <1>a, <2>1, <3>1, <3>3, HitMoves
      <4>2. delivered[key(c)] <= a.ver
        BY <1>b, <2>1, <3>1 DEF KeyInOrder
      <4>3. \A d \in Callers \ {c} :
                pc[d] \in {"storeL1", "finish"} /\ key(d) = key(c) /\ work[d].ans \in Answer
                => a.ver <= work[d].ans.ver
        BY <1>c, <3>1 DEF WorkInOrder
      <4> HIDE DEF a
      <4>4. l1[key(c)] # NoEntry => l1[key(c)].ans.ver = a.ver
        BY DEF a
      <4> QED
        BY <1>a, <2>1, <3>1, <4>1, <4>2, <4>3, <4>4, ReturnInOrder
    <3> QED
      BY <3>2, <3>3
  <2>3. CASE ~Live(l1[key(c)])
    <3>1. /\ UNCHANGED <<work, answer, delivered>> /\ pc'[c] \in {"fetch", "do"}
          /\ \A d \in Callers \ {c} : pc'[d] = pc[d]
      BY <1>2, <1>a, <2>3 DEF L1Get, Missed, Goto, TypeOK
    <3> QED
      BY <1>0, <2>1, <3>1 DEF key
  <2> QED
    BY <2>2, <2>3
<1>3. ASSUME NEW c \in Callers,
             L2Hit(c) \/ L2MissOrError(c) \/ Promote(c) \/ \E ok \in BOOLEAN : StoreL2(c, ok)
      PROVE  OrderInv'
  BY <1>3, <1>a DEF L2Hit, L2MissOrError, Promote, StoreL2, AgeInv, WorkInTime
<1>4. ASSUME NEW c \in Callers, Do(c)
      PROVE  OrderInv'
  <2>1. /\ pc[c] = "do" /\ pc'[c] \in {"l1", "joined"}
        /\ UNCHANGED <<l1, delivered, obtained, answer, floor>>
        /\ \A d \in Callers \ {c} : pc'[d] = pc[d] /\ work'[d] = work[d]
    BY <1>4, <1>a DEF Do, EnterFlight, Goto, TypeOK, bounds
  <2>2. work'[c].key = key(c)
    BY <1>4, <1>a, <1>d, <2>1 DEF Do, EnterFlight, TypeOK, Work, key
  <2> QED
    BY <1>0, <2>1, <2>2 DEF key
<1>5. ASSUME NEW c \in Callers, NEW found \in BOOLEAN, FetchAnswer(c, found)
      PROVE  OrderInv'
  <2> DEFINE a == NewAnswer(found)
             V == Cardinality(AnswersSoFar)
  <2>1. /\ pc[c] = "fetch" /\ pc'[c] = "storeL1"
        /\ UNCHANGED <<l1, delivered, answer, floor>>
        /\ \A d \in Callers \ {c} : pc'[d] = pc[d] /\ work'[d] = work[d]
        /\ work' = [work EXCEPT ![c].ans = a]
        /\ obtained' = [obtained EXCEPT ![key(c)] = @ \union {a}]
    BY <1>5, <1>a DEF FetchAnswer, Goto, TypeOK, bounds
  <2>2. key(c) \in Keys /\ work'[c].ans = a /\ work'[c].key = key(c)
    BY <1>a, <1>d, <2>1 DEF TypeOK, Work, key
  <2>3. a \in Answer /\ a.ver = V + 1 /\ \A k \in Keys : \A b \in obtained[k] : b.ver < a.ver
    BY <1>a, NextAnswer
  <2> HIDE DEF a
  <2>4. a.ver <= Cardinality(AnswersSoFar)' /\ Cardinality(AnswersSoFar)' \in Nat
    <3>1. a \in obtained'[key(c)]
      BY <1>a, <2>1, <2>2 DEF TypeOK
    <3> QED
      BY <1>a, <2>2, <3>1, FS_CardinalityType DEF AnswersInv
  <2>5. \A k \in Keys : KeyInOrder(k)'
    BY <1>a, <1>b, <2>1, <2>3, <2>4 DEF KeyInOrder
  <2>6. ASSUME NEW d \in Callers
        PROVE  WorkInOrder(d)'
    <3>1. CASE d = c
      <4>1. delivered[key(c)] <= a.ver
        BY <1>a, <1>b, <2>2, <2>3 DEF KeyInOrder
      <4>2. l1[key(c)] # NoEntry => l1[key(c)].ans.ver < a.ver /\ l1[key(c)].ans.ver \in Nat
        BY <1>a, <2>2, <2>3 DEF AgeInv, L1InTime, TypeOK, Entry, Answer
      <4>3. floor[c] <= delivered[key(c)]
        BY <1>c, <2>1 DEF WorkInOrder
      <4> QED
        BY <1>a, <2>1, <2>2, <2>3, <3>1, <4>1, <4>2, <4>3 DEF WorkInOrder, key
    <3>2. CASE d # c
      BY <1>c, <2>1, <3>2 DEF WorkInOrder, key
    <3> QED
      BY <3>1, <3>2
  <2> QED
    BY <2>1, <2>5, <2>6 DEF OrderInv, MonotonicAnswers
<1>6. ASSUME NEW c \in Callers, FetchError(c) \/ FetchExpire(c)
      PROVE  OrderInv'
  <2>1. PICK f \in Failures :
            /\ work' = [work EXCEPT ![c].ans = f]
            /\ pc[c] = "fetch"
            /\ UNCHANGED <<l1, delivered, obtained, answer, floor>>
            /\ \A d \in Callers \ {c} : pc'[d] = pc[d] /\ work'[d] = work[d]
    BY <1>6, <1>a DEF FetchError, FetchExpire, FetchFail, Goto, TypeOK, Failures, bounds
  <2>2. work'[c].ans = f /\ work'[c].key = key(c)
    BY <1>a, <1>d, <2>1 DEF TypeOK, Work, key
  <2>3. f \notin Answer
    BY FailureIsNoAnswer
  <2> QED
    BY <1>0, <2>1, <2>2, <2>3 DEF key
<1>7. ASSUME NEW c \in Callers, StoreL1(c)
      PROVE  OrderInv'
  <2> DEFINE a == work[c].ans
  <2>1. /\ pc[c] = "storeL1" /\ pc'[c] = "finish" /\ Leads(c) /\ key(c) \in Keys /\ a \in Answer
        /\ UNCHANGED <<work, delivered, obtained, answer, floor>>
        /\ \A d \in Callers \ {c} : pc'[d] = pc[d]
    BY <1>7, <1>a, <1>d DEF StoreL1, Goto, TypeOK, FlightInv, bounds
  <2>2. l1' = [l1 EXCEPT ![key(c)] = [ans |-> a, exp |-> now + TTLFor(a), promoted |-> FALSE]]
    BY <1>7 DEF StoreL1
  <2>3. delivered[key(c)] <= a.ver /\ a.ver \in Nat
    BY <1>c, <2>1 DEF WorkInOrder, Answer
  <2>4. a = work[c].ans
    OBVIOUS
  <2> HIDE DEF a
  <2>5. \A k \in Keys : IF k = key(c) THEN l1'[k].ans = a ELSE l1'[k] = l1[k]
    BY <1>a, <2>1, <2>2 DEF TypeOK
  <2>6. \A k \in Keys : KeyInOrder(k)'
    BY <1>b, <2>1, <2>3, <2>5 DEF KeyInOrder, AnswersSoFar
  <2>7. ASSUME NEW d \in Callers, pc[d] # "idle", d # c
        PROVE  WorkInOrder(d)'
    <3>1. CASE key(d) # key(c)
      BY <1>c, <1>d, <2>1, <2>5, <2>7, <3>1 DEF WorkInOrder, key
    <3>2. CASE key(d) = key(c)
      <4>1. pc[d] \notin {"storeL1", "finish"}
        BY <1>a, <2>1, <2>7, <3>2 DEF FlightInv, Leads
      <4> QED
        BY <1>c, <2>1, <2>7, <4>1 DEF WorkInOrder, key
    <3> QED
      BY <3>1, <3>2
  <2>8. WorkInOrder(c)'
    BY <1>c, <2>1, <2>3, <2>4, <2>5 DEF WorkInOrder, key
  <2>9. \A d \in Callers : WorkInOrder(d)'
    BY <2>1, <2>7, <2>8 DEF WorkInOrder
  <2> QED
    BY <2>1, <2>6, <2>9 DEF OrderInv, MonotonicAnswers
<1>8. ASSUME NEW c \in Callers, Finish(c)
      PROVE  OrderInv'
  <2> DEFINE S == {c} \union {d \in Callers : pc[d] = "joined" /\ key(d) = key(c)}
             a == work[c].ans
  <2>1. /\ pc[c] = "finish" /\ key(c) \in Keys /\ Leads(c) /\ a \in Answer \union Failures
        /\ UNCHANGED <<l1, obtained, floor>>
    BY <1>8, <1>a, <1>d DEF Finish, FlightInv, TypeOK, bounds
  <2>2. Return(S, key(c), a) /\ S \in SUBSET Callers
    BY <1>8 DEF Finish
  <2>3. \A d \in S : pc[d] # "idle" /\ key(d) = key(c)
    BY <2>1
  <2>4. a \in Answer =>
            /\ a \in obtained[key(c)] /\ delivered[key(c)] <= a.ver
            /\ l1[key(c)] # NoEntry => l1[key(c)].ans.ver = a.ver
    BY <1>a, <1>c, <2>1, FailureIsNoAnswer DEF WorkInOrder, AgeInv, WorkInTime
  <2>5. \A d \in Callers \ S : ~(pc[d] \in {"storeL1", "finish"} /\ key(d) = key(c))
    BY <1>a, <2>1 DEF FlightInv, Leads
  <2> HIDE DEF S, a
  <2> QED
    BY <1>a, <2>1, <2>2, <2>3, <2>4, <2>5, ReturnInOrder
<1>9. ASSUME NEW k \in Keys, L1Drop(k)
      PROVE  OrderInv'
  <2>1. \A j \in Keys : l1'[j] = l1[j] \/ l1'[j] = NoEntry
    BY <1>9, <1>a DEF L1Drop, TypeOK
  <2> QED
    BY <1>0, <1>9, <2>1 DEF L1Drop, key, bounds
<1>10. ASSUME NEW k \in Keys, NEW found \in BOOLEAN, PeerStore(k, found)
       PROVE  OrderInv'
  BY <1>10 DEF PeerStore
<1>11. CASE Restart
  BY <1>0, <1>11 DEF Restart
<1>12. CASE Tick \/ UNCHANGED vars
  BY <1>0, <1>12 DEF Tick, vars, bounds, key
<1> QED
  BY <1>1, <1>2, <1>3, <1>4, <1>5, <1>6, <1>7, <1>8, <1>9, <1>10, <1>11, <1>12
  DEF Next, Progress, Upstream, Rest

\* Without Redis a client that asks again, on any connection and whatever L1 has dropped,
\* is never answered with older registration data than was delivered for that key before.
THEOREM AnswersNeverGoBack == ~HasL2 => (Spec => []MonotonicAnswers)
<1> SUFFICES ASSUME ~HasL2
             PROVE  Spec => []MonotonicAnswers
  OBVIOUS
<1>1. Init => OrderInv
  <2> SUFFICES ASSUME Init
               PROVE  OrderInv
    OBVIOUS
  <2>1. AnswersSoFar = {}
    BY DEF Init, AnswersSoFar
  <2>2. \A k \in Keys : KeyInOrder(k)
    BY <2>1, FS_EmptySet DEF Init, KeyInOrder
  <2> QED
    BY <2>2, NullsAssumption DEF Init, OrderInv, WorkInOrder, MonotonicAnswers
<1>2. IInv /\ IInv' /\ OrderInv /\ [Next]_vars => OrderInv'
  BY OrderKept
<1>3. OrderInv => MonotonicAnswers
  BY DEF OrderInv
<1> QED
  BY <1>1, <1>2, <1>3, Invariance, PTL DEF Spec
=============================================================================
