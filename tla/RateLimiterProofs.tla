--------------------------- MODULE RateLimiterProofs ---------------------------
(* What holds of RateLimiter for every number of requests, IPs and buckets. *)
EXTENDS RateLimiter, FiniteSetTheorems, TLAPS

\* Helper: a request that is under way works on well-typed data.
LEMMA RequestIsTyped ==
    ASSUME TypeOK, NEW p \in Procs, pc[p] # "idle"
    PROVE  /\ req[p] \in Request
           /\ SubnetOf[req[p].ip] \in Names
BY ParamsAssumption DEF TypeOK, Request, Names

\* Helper: no request under way looks like NoRequest.
LEMMA NoRequestIsNone == NoRequest \notin Request
BY NoBucketAssumption DEF NoRequest, Request

\* Helper: what putting a bucket under a name, or removing it, does to a map.
LEMMA MapUpdate ==
    ASSUME TypeOK, NEW m \in Maps, NEW n \in Names, NEW b \in Bucket \union {NoBucket},
           limiters' = [limiters EXCEPT ![m][n] = b]
    PROVE  /\ limiters' \in [Maps -> [Names -> Bucket \union {NoBucket}]]
           /\ \A k \in Maps \ {m} : Held(k)' = Held(k)
           /\ Held(m)' = IF b = NoBucket THEN Held(m) \ {n} ELSE Held(m) \union {n}
<1>1. /\ limiters'[m] = [limiters[m] EXCEPT ![n] = b]
      /\ \A k \in Maps \ {m} : limiters'[k] = limiters[k]
  BY DEF TypeOK
<1>2. limiters' \in [Maps -> [Names -> Bucket \union {NoBucket}]]
  BY DEF TypeOK
<1>3. \A k \in Maps \ {m} : Held(k)' = Held(k)
  BY <1>1 DEF Held
<1>4. \A j \in Names : limiters'[m][j] = IF j = n THEN b ELSE limiters[m][j]
  BY <1>1 DEF TypeOK
<1> QED
  BY <1>2, <1>3, <1>4 DEF Held

\* Helpers: the same for a bucket that is put there, and for one that is removed.
LEMMA PutBucket ==
    ASSUME TypeOK, NEW m \in Maps, NEW n \in Names, NEW b \in Bucket,
           limiters' = [limiters EXCEPT ![m][n] = b]
    PROVE  /\ \A k \in Maps \ {m} : Held(k)' = Held(k)
           /\ Held(m)' = Held(m) \union {n}
<1>1. b # NoBucket
  BY NoBucketAssumption
<1> QED
  BY <1>1, MapUpdate

\* Helper: a name leaves the map.
LEMMA DropBucket ==
    ASSUME TypeOK, NEW m \in Maps, NEW n \in Names,
           limiters' = [limiters EXCEPT ![m][n] = NoBucket]
    PROVE  /\ \A k \in Maps \ {m} : Held(k)' = Held(k)
           /\ Held(m)' = Held(m) \ {n}
BY MapUpdate

\* Helper: what a request that goes on leaves behind.
LEMMA RequestStep ==
    ASSUME TypeOK, NEW p \in Procs, NEW r \in Request,
           NEW place \in {"load", "full", "touch", "store", "count"},
           place \in {"touch", "count"} => r.bucket \in Nat,
           pc' = [pc EXCEPT ![p] = place], req' = [req EXCEPT ![p] = r]
    PROVE  /\ pc' \in [Procs -> {"idle", "load", "full", "touch", "store", "count"}]
           /\ req' \in [Procs -> Request \union {NoRequest}]
           /\ \A q \in Procs : pc'[q] = "idle" <=> req'[q] = NoRequest
           /\ \A q \in Procs : pc'[q] \in {"touch", "count"} => req'[q].bucket \in Nat
BY NoRequestIsNone DEF TypeOK

\* Helper: what a request that returns leaves behind.
LEMMA ReturnIsTyped ==
    ASSUME TypeOK, NEW p \in Procs, NEW id \in Nat \union {Denied}, Return(p, id)
    PROVE  /\ pc' = [pc EXCEPT ![p] = "idle"]
           /\ pc' \in [Procs -> {"idle", "load", "full", "touch", "store", "count"}]
           /\ req' \in [Procs -> Request \union {NoRequest}]
           /\ \A q \in Procs : pc'[q] = "idle" <=> req'[q] = NoRequest
           /\ \A q \in Procs : pc'[q] \in {"touch", "count"} => req'[q].bucket \in Nat
           /\ got' \in [Procs -> Nat \union {NoBucket, Denied}]
BY DEF TypeOK, Return, Goto

\* The type invariant of ratelimit.go; in particular the bucket that the cleanup
\* is about to delete is still in the map.
THEOREM TypeCorrect == Spec => []TypeOK
<1> USE ParamsAssumption, NoBucketAssumption
<1>1. Init => TypeOK
  BY DEF Init, TypeOK, Maps, Resting, Sweeper
<1>2. TypeOK /\ [Next]_vars => TypeOK'
  <2> SUFFICES ASSUME TypeOK, [Next]_vars
               PROVE  TypeOK'
    OBVIOUS
  <2>1. ASSUME NEW p \in Procs, NEW ip \in IPs, GetLimiter(p, ip)
        PROVE  TypeOK'
    <3>1. [map |-> "ip", name |-> ip, ip |-> ip, at |-> now, full |-> AtCapacity("ip"),
           bucket |-> NoBucket] \in Request
      BY DEF TypeOK, Request, Maps, Names, AtCapacity, Limit
    <3> QED
      BY <2>1, <3>1, NoRequestIsNone DEF TypeOK, GetLimiter, Goto, Held
  <2>2. ASSUME NEW p \in Procs, Load(p)
        PROVE  TypeOK'
    <3>1. req[p] \in Request /\ SubnetOf[req[p].ip] \in Names
      BY <2>2, RequestIsTyped DEF Load
    <3>2. req'[p] \in Request /\ (pc'[p] = "touch" => req'[p].bucket \in Nat)
      BY <2>2, <3>1 DEF Load, Goto, TypeOK, Request, Maps, Bucket
    <3>3. /\ pc' \in [Procs -> {"idle", "load", "full", "touch", "store", "count"}]
          /\ pc'[p] \in {"load", "full", "touch", "store"}
          /\ req' \in [Procs -> Request \union {NoRequest}]
          /\ \A q \in Procs \ {p} : pc'[q] = pc[q] /\ req'[q] = req[q]
      BY <2>2, <3>2 DEF Load, Goto, TypeOK
    <3>4. /\ \A q \in Procs : pc'[q] = "idle" <=> req'[q] = NoRequest
          /\ \A q \in Procs : pc'[q] \in {"touch", "count"} => req'[q].bucket \in Nat
      BY <3>2, <3>3, NoRequestIsNone DEF TypeOK
    <3> QED
      BY <2>2, <3>3, <3>4 DEF Load, TypeOK, Held
  <2>3. ASSUME NEW p \in Procs, SubnetCapacity(p)
        PROVE  TypeOK'
    <3>1. req[p] \in Request
      BY <2>3, RequestIsTyped DEF SubnetCapacity
    <3>2. [req[p] EXCEPT !.at = now] \in Request
      BY <3>1 DEF TypeOK, Request
    <3> QED
      BY <2>3, <3>1, <3>2, NoRequestIsNone
      DEF TypeOK, SubnetCapacity, Return, Goto, Held
  <2>4. ASSUME NEW p \in Procs, Touch(p)
        PROVE  TypeOK'
    <3>1. /\ req[p] \in Request /\ req[p].map \in Maps /\ req[p].name \in Names
          /\ req[p].at \in Nat /\ req[p].bucket \in Nat
      BY <2>4, RequestIsTyped DEF Touch, Request, TypeOK
    <3>2. /\ limiters' \in [Maps -> [Names -> Bucket \union {NoBucket}]]
          /\ \A m \in Maps, n \in Names : limiters[m][n] # NoBucket => limiters'[m][n] # NoBucket
      BY <2>4, <3>1 DEF Touch, TypeOK, Bucket
    <3>3. /\ pc' \in [Procs -> {"idle", "load", "full", "touch", "store", "count"}]
          /\ req' \in [Procs -> Request \union {NoRequest}]
          /\ got' \in [Procs -> Nat \union {NoBucket, Denied}]
          /\ \A q \in Procs : pc'[q] = "idle" <=> req'[q] = NoRequest
          /\ \A q \in Procs : pc'[q] \in {"touch", "count"} => req'[q].bucket \in Nat
      BY <2>4, <3>1 DEF Touch, Return, Goto, TypeOK
    <3> QED
      BY <2>4, <3>2, <3>3 DEF Touch, TypeOK, Held, Sweeper
  <2>5. ASSUME NEW p \in Procs, Store(p)
        PROVE  TypeOK'
    <3>1. /\ req[p] \in Request /\ req[p].map \in Maps /\ req[p].name \in Names
          /\ req[p].at \in Nat
      BY <2>5, RequestIsTyped DEF Store, Request
    <3>2. /\ [req[p] EXCEPT !.bucket = made + 1] \in Request
          /\ [req[p] EXCEPT !.bucket = made + 1].bucket = made + 1
      BY <3>1 DEF TypeOK, Request
    <3>3. CASE req[p].name \in Held(req[p].map)
      <4>1. limiters[req[p].map][req[p].name].id \in Nat
        BY <3>1, <3>3 DEF TypeOK, Held, Bucket
      <4> QED
        BY <2>5, <3>3, <4>1, ReturnIsTyped DEF Store, LoadOrStore, TypeOK, Held
    <3>4. CASE req[p].name \notin Held(req[p].map)
      <4>1. /\ limiters' \in [Maps -> [Names -> Bucket \union {NoBucket}]]
            /\ \A m \in Maps : Held(m) \subseteq Held(m)'
        <5>1. [id |-> made + 1, last |-> req[p].at] \in Bucket
          BY <3>1 DEF TypeOK, Bucket
        <5>2. PICK m \in Maps, n \in Names, b \in Bucket :
                 limiters' = [limiters EXCEPT ![m][n] = b]
          BY <2>5, <3>1, <3>4, <5>1 DEF Store, LoadOrStore
        <5>3. limiters' \in [Maps -> [Names -> Bucket \union {NoBucket}]]
          BY <5>2, MapUpdate
        <5>4. /\ \A k \in Maps \ {m} : Held(k)' = Held(k)
              /\ Held(m)' = Held(m) \union {n}
          BY <5>2, PutBucket
        <5> QED
          BY <5>3, <5>4
      <4>2. PICK r \in Request :
               r.bucket = made + 1 /\ req' = [req EXCEPT ![p] = r]
        BY <2>5, <3>2, <3>4 DEF Store, LoadOrStore
      <4>3. pc' = [pc EXCEPT ![p] = "count"]
        BY <2>5, <3>4 DEF Store, LoadOrStore, Goto
      <4>4. r.bucket \in Nat
        BY <4>2 DEF TypeOK
      <4>5. /\ pc' \in [Procs -> {"idle", "load", "full", "touch", "store", "count"}]
            /\ req' \in [Procs -> Request \union {NoRequest}]
            /\ \A q \in Procs : pc'[q] = "idle" <=> req'[q] = NoRequest
            /\ \A q \in Procs : pc'[q] \in {"touch", "count"} => req'[q].bucket \in Nat
        BY <4>2, <4>3, <4>4, RequestStep
      <4> QED
        BY <2>5, <3>4, <4>1, <4>5 DEF Store, LoadOrStore, TypeOK, Sweeper
    <3> QED
      BY <3>3, <3>4
  <2>6. ASSUME NEW p \in Procs, Count(p)
        PROVE  TypeOK'
    <3>1. req[p].map \in Maps /\ req[p].bucket \in Nat
      BY <2>6, RequestIsTyped DEF Count, Request, TypeOK
    <3>2. /\ pc' \in [Procs -> {"idle", "load", "full", "touch", "store", "count"}]
          /\ req' \in [Procs -> Request \union {NoRequest}]
          /\ \A q \in Procs : pc'[q] = "idle" <=> req'[q] = NoRequest
          /\ \A q \in Procs : pc'[q] \in {"touch", "count"} => req'[q].bucket \in Nat
          /\ got' \in [Procs -> Nat \union {NoBucket, Denied}]
      BY <2>6, <3>1, ReturnIsTyped DEF Count
    <3> QED
      BY <2>6, <3>1, <3>2 DEF Count, TypeOK, Held
  <2>7. CASE SweepStart
    <3>1. sweeper' \in Sweeper /\ sweeper'.place = "visit"
      <4>1. sweeper' = [place |-> "visit", at |-> now, map |-> "ip", todo |-> IPs,
                        victim |-> NoBucket, seen |-> NoBucket]
        BY <2>7 DEF SweepStart, Resting
      <4> QED
        BY <4>1 DEF TypeOK, Sweeper, Maps, Names
    <3> QED
      BY <2>7, <3>1 DEF SweepStart, TypeOK
  <2>8. ASSUME NEW n \in Names, SweepVisit(n)
        PROVE  TypeOK'
    <3> DEFINE b == limiters[sweeper.map][n]
    <3>1. b \in Bucket \union {NoBucket} /\ sweeper \in Sweeper
      BY DEF TypeOK, Sweeper
    <3>2. CASE b # NoBucket /\ Stale(b)
      <4>1. sweeper' = [sweeper EXCEPT !.todo = @ \ {n}, !.place = "delete", !.victim = n,
                                       !.seen = b]
        BY <2>8, <3>1, <3>2 DEF SweepVisit, Sweeper
      <4>2. sweeper' \in Sweeper /\ sweeper'.victim = n /\ sweeper'.map = sweeper.map
        BY <3>1, <4>1 DEF Sweeper
      <4>3. n \in Held(sweeper.map)
        BY <3>2 DEF Held
      <4> QED
        BY <2>8, <4>2, <4>3 DEF SweepVisit, TypeOK, Held
    <3>3. CASE ~(b # NoBucket /\ Stale(b))
      <4>1. sweeper' = [sweeper EXCEPT !.todo = @ \ {n}]
        BY <2>8, <3>3 DEF SweepVisit
      <4>2. sweeper' \in Sweeper /\ sweeper'.place = "visit"
        BY <2>8, <3>1, <4>1 DEF Sweeper, SweepVisit
      <4> QED
        BY <2>8, <4>2 DEF SweepVisit, TypeOK
    <3> QED
      BY <3>2, <3>3
  <2>9. CASE SweepDelete
    <3>1. sweeper' \in Sweeper /\ sweeper'.place = "uncount"
      BY <2>9 DEF SweepDelete, TypeOK, Sweeper
    <3>2. sweeper.map \in Maps /\ sweeper.victim \in Held(sweeper.map)
      BY <2>9 DEF SweepDelete, TypeOK, Sweeper
    <3>3. /\ limiters' \in [Maps -> [Names -> Bucket \union {NoBucket}]]
          /\ swept' \subseteq Nat
      BY <2>9, <3>2 DEF SweepDelete, TypeOK, Held, Bucket
    <3> QED
      BY <2>9, <3>1, <3>3 DEF SweepDelete, TypeOK
  <2>10. CASE SweepUncount
    <3>1. sweeper' \in Sweeper /\ sweeper'.place = "visit" /\ sweeper.map \in Maps
      BY <2>10 DEF SweepUncount, TypeOK, Sweeper
    <3> QED
      BY <2>10, <3>1 DEF SweepUncount, Uncount, TypeOK
  <2>11. CASE SweepNext
    <3>1. sweeper' \in Sweeper /\ sweeper'.place # "delete"
      BY <2>11 DEF SweepNext, TypeOK, Sweeper, Resting, Maps, Names
    <3> QED
      BY <2>11, <3>1 DEF SweepNext, TypeOK
  <2>12. CASE Stop
    <3>1. sweeper' \in Sweeper /\ sweeper'.place = "gone"
      BY <2>12 DEF Stop, TypeOK, Sweeper
    <3> QED
      BY <2>12, <3>1 DEF Stop, TypeOK
  <2>13. CASE Tick
    BY <2>13 DEF Tick, TypeOK, Held
  <2>14. CASE UNCHANGED vars
    BY <2>14 DEF vars, TypeOK, Held
  <2> QED
    BY <2>1, <2>2, <2>3, <2>4, <2>5, <2>6, <2>7, <2>8, <2>9, <2>10, <2>11, <2>12, <2>13,
       <2>14
    DEF Next, Serve, Sweep, Rest
<1> QED
  BY <1>1, <1>2, PTL DEF Spec

\* Helper: Touch adds and removes nothing.
LEMMA TouchKeepsMaps ==
    ASSUME TypeOK, NEW p \in Procs, Touch(p)
    PROVE  \A m \in Maps : Held(m)' = Held(m)
<1>1. CASE limiters' = limiters
  BY <1>1 DEF Held
<1>2. CASE limiters' # limiters
  <2>1. req[p] \in Request
    BY RequestIsTyped DEF Touch
  <2>2. PICK m \in Maps, n \in Names, b \in Bucket :
           n \in Held(m) /\ limiters' = [limiters EXCEPT ![m][n] = b]
    <3>1. /\ req[p].map \in Maps /\ req[p].name \in Names
          /\ req[p].at \in Nat /\ now \in Nat
      BY <2>1 DEF TypeOK, Request
    <3>2. limiters[req[p].map][req[p].name] \in Bucket
      BY <1>2, <3>1 DEF Touch, TypeOK
    <3> QED
      BY <1>2, <3>1, <3>2 DEF Touch, Held, Bucket
  <2>3. \A k \in Maps : Held(k)' = IF k = m THEN Held(k) \union {n} ELSE Held(k)
    BY <2>2, PutBucket
  <2> QED
    BY <2>2, <2>3
<1> QED
  BY <1>1, <1>2

-----------------------------------------------------------------------------
\* One step of the sweeper is outstanding for m between SweepDelete and SweepUncount.
Outstanding(m) == IF sweeper.place = "uncount" /\ sweeper.map = m THEN 1 ELSE 0

\* Inductive: the ledger of the counters, over maps that stay finite.
Ledger ==
    /\ SizeTracksEntries
    /\ \A m \in Maps : IsFiniteSet(Held(m))

\* Helper: what a step leaves alone, the ledger leaves alone.
LEMMA LedgerUntouched ==
    ASSUME TypeOK, Ledger, size' = size,
           \A m \in Maps : /\ Held(m)' = Held(m)
                           /\ Counting(m)' = Counting(m)
                           /\ Outstanding(m)' = Outstanding(m)
    PROVE  Ledger'
BY DEF Ledger, SizeTracksEntries, Outstanding

\* Helper: what a step does to one map.
LEMMA LedgerAtOneMap ==
    ASSUME TypeOK, Ledger, NEW m \in Maps,
           \A k \in Maps \ {m} : /\ size'[k] = size[k] /\ Held(k)' = Held(k)
                                 /\ Counting(k)' = Counting(k)
                                 /\ Outstanding(k)' = Outstanding(k),
           IsFiniteSet(Held(m)'),
           size'[m] = Cardinality(Held(m)') - Cardinality(Counting(m)') + Outstanding(m)'
    PROVE  Ledger'
BY DEF Ledger, SizeTracksEntries, Outstanding

\* Helper: the sets that the ledger counts.
LEMMA CountedSetsAreFinite ==
    ASSUME TypeOK, NEW m \in Maps
    PROVE  /\ IsFiniteSet(Counting(m)) /\ Cardinality(Counting(m)) \in Nat
           /\ IsFiniteSet(Admitted(m)) /\ Cardinality(Admitted(m)) \in Nat
           /\ Cardinality(Procs) \in Nat
<1>1. Counting(m) \in SUBSET Procs /\ Admitted(m) \in SUBSET Procs
  BY DEF Counting, Admitted
<1> QED
  BY <1>1, ParamsAssumption, FS_Subset, FS_CardinalityType

\* Helper: the ledger at one map.
LEMMA LedgerSays ==
    ASSUME TypeOK, Ledger, NEW m \in Maps
    PROVE  /\ size[m] = Cardinality(Held(m)) - Cardinality(Counting(m)) + Outstanding(m)
           /\ Outstanding(m) \in {0, 1}
           /\ IsFiniteSet(Held(m)) /\ Cardinality(Held(m)) \in Nat
           /\ IsFiniteSet(Counting(m)) /\ Cardinality(Counting(m)) \in Nat
BY CountedSetsAreFinite, FS_CardinalityType DEF Ledger, SizeTracksEntries, Outstanding

\* Each counter of ratelimit.go follows its map, whatever requests and cleanup do
\* to each other between a change of the map and that of the counter.
THEOREM LedgerHolds == Spec => []Ledger
<1> USE ParamsAssumption, NoBucketAssumption
<1>1. Init => Ledger
  <2> SUFFICES ASSUME Init, NEW m \in Maps
               PROVE  /\ size[m] = Cardinality(Held(m)) - Cardinality(Counting(m))
                                   + Outstanding(m)
                      /\ IsFiniteSet(Held(m))
    BY DEF Ledger, SizeTracksEntries, Outstanding
  <2>1. Held(m) = {} /\ Counting(m) = {} /\ size[m] = 0 /\ Outstanding(m) = 0
    BY DEF Init, Held, Counting, Outstanding, Resting
  <2> QED
    BY <2>1, FS_EmptySet
<1>2. TypeOK /\ Ledger /\ [Next]_vars => Ledger'
  <2> SUFFICES ASSUME TypeOK, Ledger, [Next]_vars
               PROVE  Ledger'
    OBVIOUS
  <2>1. ASSUME NEW p \in Procs, NEW ip \in IPs, GetLimiter(p, ip)
        PROVE  Ledger'
    BY <2>1, LedgerUntouched DEF GetLimiter, Goto, Held, Counting, Outstanding, TypeOK
  <2>2. ASSUME NEW p \in Procs, Load(p)
        PROVE  Ledger'
    BY <2>2, LedgerUntouched DEF Load, Goto, Held, Counting, Outstanding, TypeOK
  <2>3. ASSUME NEW p \in Procs, SubnetCapacity(p)
        PROVE  Ledger'
    BY <2>3, LedgerUntouched
    DEF SubnetCapacity, Return, Goto, Held, Counting, Outstanding, TypeOK
  <2>4. ASSUME NEW p \in Procs, Touch(p)
        PROVE  Ledger'
    <3>1. \A m \in Maps : Held(m)' = Held(m)
      BY <2>4, TouchKeepsMaps
    <3> QED
      BY <2>4, <3>1, LedgerUntouched DEF Touch, Return, Goto, Counting, Outstanding, TypeOK
  <2>5. ASSUME NEW p \in Procs, Store(p)
        PROVE  Ledger'
    <3>1. /\ req[p] \in Request /\ req[p].map \in Maps /\ req[p].name \in Names
          /\ req[p].at \in Nat
      BY <2>5, RequestIsTyped DEF Store, Request
    <3>2. CASE req[p].name \in Held(req[p].map)
      BY <2>5, <3>2, LedgerUntouched
      DEF Store, LoadOrStore, Return, Goto, Held, Counting, Outstanding, TypeOK
    <3>3. CASE req[p].name \notin Held(req[p].map)
      <4>1. PICK m \in Maps, n \in Names, b \in Bucket :
               /\ m = req[p].map /\ n = req[p].name
               /\ limiters' = [limiters EXCEPT ![m][n] = b]
        <5>1. [id |-> made + 1, last |-> req[p].at] \in Bucket
          BY <3>1 DEF TypeOK, Bucket
        <5> QED
          BY <2>5, <3>1, <3>3, <5>1 DEF Store, LoadOrStore
      <4>2. /\ \A k \in Maps \ {m} : Held(k)' = Held(k)
            /\ Held(m)' = Held(m) \union {n} /\ n \notin Held(m)
        BY <3>3, <4>1, PutBucket
      <4>3. /\ \A k \in Maps \ {m} : Counting(k)' = Counting(k)
            /\ Counting(m)' = Counting(m) \union {p} /\ p \notin Counting(m)
        <5>1. /\ pc' = [pc EXCEPT ![p] = "count"]
              /\ req' = [req EXCEPT ![p].bucket = made + 1]
              /\ pc[p] = "store"
          BY <2>5, <3>3 DEF Store, LoadOrStore, Goto
        <5>2. req'[p].map = m /\ \A q \in Procs \ {p} : req'[q] = req[q]
          BY <3>1, <4>1, <5>1 DEF TypeOK, Request
        <5> QED
          BY <5>1, <5>2 DEF Counting, TypeOK
      <4>4. \A k \in Maps : size'[k] = size[k] /\ Outstanding(k)' = Outstanding(k)
        BY <2>5 DEF Store, Outstanding
      <4>5. IsFiniteSet(Held(m)') /\ Cardinality(Held(m)') = Cardinality(Held(m)) + 1
        <5>1. PICK S : S = Held(m) /\ IsFiniteSet(S) /\ n \notin S
          BY <4>2, LedgerSays
        <5>2. IsFiniteSet(S \union {n}) /\ Cardinality(S \union {n}) = Cardinality(S) + 1
          BY <5>1, FS_AddElement
        <5> QED
          BY <4>2, <5>1, <5>2
      <4>6. Cardinality(Counting(m)') = Cardinality(Counting(m)) + 1
        <5>1. PICK S : S = Counting(m) /\ IsFiniteSet(S) /\ p \notin S
          BY <4>3, LedgerSays
        <5>2. Cardinality(S \union {p}) = Cardinality(S) + 1
          BY <5>1, FS_AddElement
        <5> QED
          BY <4>3, <5>1, <5>2
      <4>7. size'[m] = Cardinality(Held(m)') - Cardinality(Counting(m)') + Outstanding(m)'
        <5>1. size'[m] = size[m] /\ Outstanding(m)' = Outstanding(m)
          BY <4>4
        <5> QED
          BY <4>5, <4>6, <5>1, LedgerSays
      <4> QED
        BY <4>2, <4>3, <4>4, <4>5, <4>7, LedgerAtOneMap
    <3> QED
      BY <3>2, <3>3
  <2>6. ASSUME NEW p \in Procs, Count(p)
        PROVE  Ledger'
    <3>1. PICK m \in Maps : m = req[p].map
      BY <2>6, RequestIsTyped DEF Count, Request
    <3>2. /\ \A k \in Maps \ {m} : Counting(k)' = Counting(k) /\ size'[k] = size[k]
          /\ Counting(m)' = Counting(m) \ {p} /\ p \in Counting(m)
          /\ size'[m] = size[m] + 1
      BY <2>6, <3>1 DEF Count, Return, Goto, Counting, TypeOK
    <3>3. \A k \in Maps : Held(k)' = Held(k) /\ Outstanding(k)' = Outstanding(k)
      BY <2>6 DEF Count, Held, Outstanding
    <3>4. Cardinality(Counting(m)') = Cardinality(Counting(m)) - 1
      <4>1. PICK S : S = Counting(m) /\ IsFiniteSet(S) /\ p \in S
        BY <3>2, LedgerSays
      <4>2. Cardinality(S \ {p}) = Cardinality(S) - 1
        BY <4>1, FS_RemoveElement
      <4> QED
        BY <3>2, <4>1, <4>2
    <3>5. /\ size'[m] = Cardinality(Held(m)') - Cardinality(Counting(m)') + Outstanding(m)'
          /\ IsFiniteSet(Held(m)')
      <4>1. Held(m)' = Held(m) /\ Outstanding(m)' = Outstanding(m)
        BY <3>3
      <4> QED
        BY <3>2, <3>4, <4>1, LedgerSays
    <3> QED
      BY <3>2, <3>3, <3>5, LedgerAtOneMap
  <2>7. CASE SweepStart
    BY <2>7, LedgerUntouched DEF SweepStart, Resting, Held, Counting, Outstanding
  <2>8. ASSUME NEW n \in Names, SweepVisit(n)
        PROVE  Ledger'
    <3>1. \A m \in Maps : Outstanding(m)' = Outstanding(m)
      BY <2>8 DEF SweepVisit, Outstanding, TypeOK, Sweeper
    <3> QED
      BY <2>8, <3>1, LedgerUntouched DEF SweepVisit, Held, Counting
  <2>9. CASE SweepDelete
    <3>1. PICK m \in Maps, n \in Names :
             /\ m = sweeper.map /\ n = sweeper.victim /\ n \in Held(m)
             /\ limiters' = [limiters EXCEPT ![m][n] = NoBucket]
      BY <2>9 DEF SweepDelete, TypeOK, Sweeper, Held
    <3>2. /\ \A k \in Maps \ {m} : Held(k)' = Held(k)
          /\ Held(m)' = Held(m) \ {n}
      BY <3>1, DropBucket
    <3>3. /\ \A k \in Maps \ {m} : Outstanding(k)' = Outstanding(k)
          /\ Outstanding(m) = 0 /\ Outstanding(m)' = 1
      BY <2>9, <3>1 DEF SweepDelete, Outstanding, TypeOK, Sweeper
    <3>4. \A k \in Maps : size'[k] = size[k] /\ Counting(k)' = Counting(k)
      BY <2>9 DEF SweepDelete, Counting
    <3>5. /\ IsFiniteSet(Held(m)') /\ Cardinality(Held(m)') = Cardinality(Held(m)) - 1
      <4>1. IsFiniteSet(Held(m)) /\ Cardinality(Held(m)) \in Nat
        BY LedgerSays
      <4>2. PICK H : H = Held(m) /\ IsFiniteSet(H) /\ n \in H
        BY <3>1, <4>1
      <4>3. IsFiniteSet(H \ {n}) /\ Cardinality(H \ {n}) = Cardinality(H) - 1
        BY <4>2, FS_RemoveElement
      <4> QED
        BY <3>2, <4>2, <4>3
    <3>6. size'[m] = Cardinality(Held(m)') - Cardinality(Counting(m)') + Outstanding(m)'
      <4>1. size'[m] = size[m] /\ Counting(m)' = Counting(m)
        BY <3>4
      <4>2. Cardinality(Counting(m)') = Cardinality(Counting(m))
        BY <4>1
      <4>3. /\ size[m] = Cardinality(Held(m)) - Cardinality(Counting(m)) + Outstanding(m)
            /\ Cardinality(Held(m)) \in Nat /\ Cardinality(Counting(m)) \in Nat
        BY LedgerSays
      <4> QED
        BY <3>3, <3>5, <4>1, <4>2, <4>3
    <3> QED
      BY <3>2, <3>3, <3>4, <3>5, <3>6, LedgerAtOneMap
  <2>10. CASE SweepUncount
    <3>1. PICK m \in Maps : m = sweeper.map
      BY <2>10 DEF TypeOK, Sweeper
    <3>2. /\ \A k \in Maps \ {m} : Outstanding(k)' = Outstanding(k) /\ size'[k] = size[k]
          /\ Outstanding(m) = 1 /\ Outstanding(m)' = 0 /\ size'[m] = size[m] - 1
      BY <2>10, <3>1 DEF SweepUncount, Uncount, Outstanding, TypeOK, Sweeper
    <3>3. \A k \in Maps : Held(k)' = Held(k) /\ Counting(k)' = Counting(k)
      BY <2>10 DEF SweepUncount, Held, Counting
    <3> QED
      BY <3>2, <3>3, LedgerSays, LedgerAtOneMap DEF TypeOK
  <2>11. CASE SweepNext
    <3>1. \A m \in Maps : Outstanding(m)' = Outstanding(m)
      BY <2>11 DEF SweepNext, Resting, Outstanding, TypeOK, Sweeper
    <3> QED
      BY <2>11, <3>1, LedgerUntouched DEF SweepNext, Held, Counting
  <2>12. CASE Stop
    <3>1. \A m \in Maps : Outstanding(m)' = Outstanding(m)
      BY <2>12 DEF Stop, Outstanding, TypeOK, Sweeper
    <3> QED
      BY <2>12, <3>1, LedgerUntouched DEF Stop, Held, Counting
  <2>13. CASE Tick
    BY <2>13, LedgerUntouched DEF Tick, Held, Counting, Outstanding
  <2>14. CASE UNCHANGED vars
    BY <2>14, LedgerUntouched DEF vars, Held, Counting, Outstanding
  <2> QED
    BY <2>1, <2>2, <2>3, <2>4, <2>5, <2>6, <2>7, <2>8, <2>9, <2>10, <2>11, <2>12, <2>13,
       <2>14
    DEF Next, Serve, Sweep, Rest
<1> QED
  BY <1>1, <1>2, TypeCorrect, PTL DEF Spec

\* The counters are never off by more than the steps that are outstanding.
THEOREM CountersFollowMaps == Spec => []SizeTracksEntries
<1>1. Ledger => SizeTracksEntries
  BY DEF Ledger
<1> QED
  BY <1>1, LedgerHolds, PTL

-----------------------------------------------------------------------------
\* The room of m: what it holds and what may still be stored in it.
Within(m) ==
    Cardinality(Held(m)) + Cardinality(Admitted(m)) <= Limit(m) + Cardinality(Procs) - 1

\* Helper: a map that holds no more, for which no one else was admitted.
LEMMA WithinShrinks ==
    ASSUME TypeOK, Ledger, NEW m \in Maps, Within(m),
           Held(m)' \subseteq Held(m), Admitted(m)' \subseteq Admitted(m)
    PROVE  Within(m)'
<1>1. IsFiniteSet(Held(m)) /\ IsFiniteSet(Admitted(m))
  BY LedgerSays, CountedSetsAreFinite
<1>2. /\ Cardinality(Held(m)') <= Cardinality(Held(m))
      /\ IsFiniteSet(Held(m)') /\ IsFiniteSet(Held(m))
  BY <1>1, FS_Subset
<1>3. /\ Cardinality(Admitted(m)') <= Cardinality(Admitted(m))
      /\ IsFiniteSet(Admitted(m)') /\ IsFiniteSet(Admitted(m))
  BY <1>1, FS_Subset
<1>4. /\ Cardinality(Held(m)) \in Nat /\ Cardinality(Held(m)') \in Nat
      /\ Cardinality(Admitted(m)) \in Nat /\ Cardinality(Admitted(m)') \in Nat
      /\ Cardinality(Procs) \in Nat
  BY <1>2, <1>3, ParamsAssumption, FS_CardinalityType
<1>5. Limit(m) \in Nat
  BY ParamsAssumption DEF Limit
<1> QED
  BY <1>2, <1>3, <1>4, <1>5 DEF Within, Limit

\* Helper: a counter below its limit leaves room for every request that has not
\* stored yet, since those that have not counted yet are not among them.
LEMMA RoomBelowLimit ==
    ASSUME TypeOK, Ledger, NEW m \in Maps, ~AtCapacity(m),
           NEW S \in SUBSET Procs, S \intersect Counting(m) = {}
    PROVE  Cardinality(Held(m)) + Cardinality(S) <= Limit(m) + Cardinality(Procs) - 1
<1>1. /\ IsFiniteSet(S) /\ IsFiniteSet(Counting(m)) /\ IsFiniteSet(S \union Counting(m))
      /\ S \union Counting(m) \in SUBSET Procs
  BY ParamsAssumption, CountedSetsAreFinite, FS_Subset DEF Counting
<1>2. Cardinality(S \union Counting(m)) <= Cardinality(Procs)
  BY <1>1, ParamsAssumption, FS_Subset
<1>3. Cardinality(S \union Counting(m)) =
        Cardinality(S) + Cardinality(Counting(m)) - Cardinality(S \intersect Counting(m))
  BY <1>1, FS_Union
<1>4. Cardinality(S \intersect Counting(m)) = 0
  BY FS_EmptySet
<1>5. /\ Cardinality(S) \in Nat /\ Cardinality(Counting(m)) \in Nat
      /\ Cardinality(Procs) \in Nat
  BY <1>1, ParamsAssumption, FS_CardinalityType
<1>6. size[m] < Limit(m) /\ Limit(m) \in Nat /\ size[m] \in Int
  BY ParamsAssumption DEF AtCapacity, Limit, TypeOK
<1> QED
  BY <1>2, <1>3, <1>4, <1>5, <1>6, LedgerSays

\* Helper: only a request that has turned to its subnet asks for the subnets' room.
Turned == \A p \in Procs : pc[p] = "full" => req[p].map = "subnet"

\* Helper: Turned is an invariant.
LEMMA TurnedHolds == Spec => []Turned
<1>1. Init => Turned
  BY DEF Init, Turned
<1>2. TypeOK /\ Turned /\ [Next]_vars => Turned'
  <2> SUFFICES ASSUME TypeOK, Turned, [Next]_vars
               PROVE  Turned'
    OBVIOUS
  <2>1. ASSUME NEW p \in Procs, NEW ip \in IPs, GetLimiter(p, ip)
        PROVE  Turned'
    BY <2>1 DEF GetLimiter, Goto, Turned, TypeOK
  <2>2. ASSUME NEW p \in Procs, Serve(p)
        PROVE  Turned'
    BY <2>2 DEF Serve, Load, SubnetCapacity, Touch, Store, LoadOrStore, Count, Return, Goto,
                Turned, TypeOK
  <2>3. ASSUME UNCHANGED <<pc, req>>
        PROVE  Turned'
    BY <2>3 DEF Turned
  <2> QED
    BY <2>1, <2>2, <2>3
    DEF Next, Sweep, SweepStart, SweepVisit, SweepDelete, SweepUncount, SweepNext, Stop, Tick,
        Rest, vars
<1> QED
  BY <1>1, <1>2, TypeCorrect, PTL DEF Spec

\* "limits the rate limiter map size": a map of ratelimit.go never exceeds its
\* limit by as many entries as there are requests in flight.
THEOREM OvershootHolds == Spec => []OvershootBounded
<1> USE ParamsAssumption
<1>1. Init => OvershootBounded
  <2> SUFFICES ASSUME Init, NEW m \in Maps
               PROVE  Within(m)
    BY DEF OvershootBounded, Within
  <2>1. Held(m) = {} /\ Admitted(m) = {}
    BY DEF Init, Held, Admitted
  <2>2. Cardinality(Held(m)) = 0 /\ Cardinality(Admitted(m)) = 0
    BY <2>1, FS_EmptySet
  <2>3. Cardinality(Procs) \in Nat /\ Limit(m) \in Nat \ {0}
    BY FS_CardinalityType DEF Limit
  <2> QED
    BY <2>2, <2>3 DEF Within
<1>2. TypeOK /\ Ledger /\ Turned /\ OvershootBounded /\ [Next]_vars => OvershootBounded'
  <2> SUFFICES ASSUME TypeOK, Ledger, Turned, OvershootBounded, [Next]_vars, NEW m \in Maps
               PROVE  Within(m)'
    BY DEF OvershootBounded, Within
  <2>0. Within(m)
    BY DEF OvershootBounded, Within
  <2>1. ASSUME NEW p \in Procs, NEW ip \in IPs, GetLimiter(p, ip)
        PROVE  Within(m)'
    <3>1. Held(m)' = Held(m)
      BY <2>1 DEF GetLimiter, Held
    <3>2. CASE m = "ip" /\ ~AtCapacity("ip")
      <4>1. Admitted(m)' \in SUBSET Procs /\ Admitted(m)' \intersect Counting(m) = {}
        BY <2>1 DEF GetLimiter, Goto, Admitted, Counting, TypeOK
      <4>2. PICK S \in SUBSET Procs : S = Admitted(m)' /\ S \intersect Counting(m) = {}
        BY <4>1
      <4> QED
        BY <3>1, <3>2, <4>2, RoomBelowLimit DEF Within, Limit
    <3>3. CASE ~(m = "ip" /\ ~AtCapacity("ip"))
      <4>1. Admitted(m)' \subseteq Admitted(m)
        BY <2>1, <3>3 DEF GetLimiter, Goto, Admitted, TypeOK
      <4> QED
        BY <2>0, <3>1, <4>1, WithinShrinks
    <3> QED
      BY <3>2, <3>3
  <2>2. ASSUME NEW p \in Procs, Load(p)
        PROVE  Within(m)'
    <3>1. Held(m)' = Held(m)
      BY <2>2 DEF Load, Held
    <3>2. Admitted(m)' \subseteq Admitted(m)
      BY <2>2, RequestIsTyped DEF Load, Goto, Admitted, TypeOK, Request
    <3> QED
      BY <2>0, <3>1, <3>2, WithinShrinks
  <2>3. ASSUME NEW p \in Procs, SubnetCapacity(p)
        PROVE  Within(m)'
    <3>1. Held(m)' = Held(m)
      BY <2>3 DEF SubnetCapacity, Held
    <3>2. CASE req[p].map = m /\ ~AtCapacity("subnet")
      <4>1. Admitted(m)' \in SUBSET Procs /\ Admitted(m)' \intersect Counting(m) = {}
        BY <2>3, <3>2 DEF SubnetCapacity, Goto, Admitted, Counting, TypeOK
      <4>2. PICK S \in SUBSET Procs : S = Admitted(m)' /\ S \intersect Counting(m) = {}
        BY <4>1
      <4>3. m = "subnet"
        BY <2>3, <3>2 DEF SubnetCapacity, Turned
      <4> QED
        BY <3>1, <3>2, <4>2, <4>3, RoomBelowLimit DEF Within, Limit
    <3>3. CASE ~(req[p].map = m /\ ~AtCapacity("subnet"))
      <4>1. Admitted(m)' \subseteq Admitted(m)
        BY <2>3, <3>3, RequestIsTyped
        DEF SubnetCapacity, Return, Goto, Admitted, TypeOK, Request
      <4> QED
        BY <2>0, <3>1, <4>1, WithinShrinks
    <3> QED
      BY <3>2, <3>3
  <2>4. ASSUME NEW p \in Procs, Touch(p)
        PROVE  Within(m)'
    <3>1. Held(m)' = Held(m)
      BY <2>4, TouchKeepsMaps
    <3>2. Admitted(m)' \subseteq Admitted(m)
      BY <2>4 DEF Touch, Return, Goto, Admitted, TypeOK
    <3> QED
      BY <2>0, <3>1, <3>2, WithinShrinks
  <2>5. ASSUME NEW p \in Procs, Store(p)
        PROVE  Within(m)'
    <3>1. /\ req[p] \in Request /\ req[p].map \in Maps /\ req[p].name \in Names
          /\ req[p].at \in Nat
      BY <2>5, RequestIsTyped DEF Store, Request
    <3>2. CASE req[p].name \in Held(req[p].map)
      <4>1. Held(m)' = Held(m)
        BY <2>5, <3>2 DEF Store, LoadOrStore, Held
      <4>2. Admitted(m)' \subseteq Admitted(m)
        BY <2>5, <3>2 DEF Store, LoadOrStore, Return, Goto, Admitted, TypeOK
      <4> QED
        BY <2>0, <4>1, <4>2, WithinShrinks
    <3>3. CASE req[p].name \notin Held(req[p].map)
      <4>1. PICK k \in Maps, n \in Names, b \in Bucket :
               /\ k = req[p].map /\ n = req[p].name
               /\ limiters' = [limiters EXCEPT ![k][n] = b]
        <5>1. [id |-> made + 1, last |-> req[p].at] \in Bucket
          BY <3>1 DEF TypeOK, Bucket
        <5> QED
          BY <2>5, <3>1, <3>3, <5>1 DEF Store, LoadOrStore
      <4>2. Held(m)' = IF m = k THEN Held(m) \union {n} ELSE Held(m)
        BY <4>1, PutBucket
      <4>3. /\ pc' = [pc EXCEPT ![p] = "count"] /\ pc[p] = "store"
            /\ \A q \in Procs \ {p} : req'[q] = req[q]
        BY <2>5, <3>3 DEF Store, LoadOrStore, Goto, TypeOK
      <4>4. /\ Admitted(m)' = Admitted(m) \ {p}
            /\ m = k => p \in Admitted(m)
        BY <4>1, <4>3 DEF Admitted, TypeOK
      <4>5. CASE m # k
        BY <2>0, <4>2, <4>4, <4>5, WithinShrinks
      <4>6. CASE m = k
        <5>1. PICK H, A : /\ H = Held(m) /\ A = Admitted(m)
                          /\ IsFiniteSet(H) /\ IsFiniteSet(A)
          BY LedgerSays, CountedSetsAreFinite
        <5>2. n \notin H /\ p \in A
          BY <3>3, <4>1, <4>4, <4>6, <5>1
        <5>3. /\ Cardinality(H \union {n}) = Cardinality(H) + 1
              /\ Cardinality(A \ {p}) = Cardinality(A) - 1
              /\ Cardinality(H) \in Nat /\ Cardinality(A) \in Nat
          BY <5>1, <5>2, FS_AddElement, FS_RemoveElement, FS_CardinalityType
        <5>4. Held(m)' = H \union {n} /\ Admitted(m)' = A \ {p}
          BY <4>2, <4>4, <4>6, <5>1
        <5>5. Cardinality(H) + Cardinality(A) <= Limit(m) + Cardinality(Procs) - 1
          BY <2>0, <5>1 DEF Within
        <5> QED
          BY <5>3, <5>4, <5>5 DEF Within, Limit
      <4> QED
        BY <4>5, <4>6
    <3> QED
      BY <3>2, <3>3
  <2>6. ASSUME NEW p \in Procs, Count(p)
        PROVE  Within(m)'
    <3>1. Held(m)' = Held(m)
      BY <2>6 DEF Count, Held
    <3>2. Admitted(m)' \subseteq Admitted(m)
      BY <2>6 DEF Count, Return, Goto, Admitted, TypeOK
    <3> QED
      BY <2>0, <3>1, <3>2, WithinShrinks
  <2>7. CASE SweepDelete
    <3>1. PICK k \in Maps, n \in Names : limiters' = [limiters EXCEPT ![k][n] = NoBucket]
      BY <2>7 DEF SweepDelete, TypeOK, Sweeper, Held
    <3>2. Held(m)' \subseteq Held(m)
      BY <3>1, DropBucket
    <3>3. Admitted(m)' = Admitted(m)
      BY <2>7 DEF SweepDelete, Admitted
    <3> QED
      BY <2>0, <3>2, <3>3, WithinShrinks
  <2>8. ASSUME UNCHANGED <<limiters, pc, req>>
        PROVE  Within(m)'
    <3>1. Held(m)' = Held(m) /\ Admitted(m)' = Admitted(m)
      BY <2>8 DEF Held, Admitted
    <3> QED
      BY <2>0, <3>1, WithinShrinks
  <2> QED
    BY <2>1, <2>2, <2>3, <2>4, <2>5, <2>6, <2>7, <2>8
    DEF Next, Serve, Sweep, SweepStart, SweepVisit, SweepUncount, SweepNext, Stop, Tick, Rest,
        vars
<1> QED
  BY <1>1, <1>2, TypeCorrect, LedgerHolds, TurnedHolds, PTL DEF Spec

-----------------------------------------------------------------------------
\* The bucket of this number is in a map, or the cleanup has removed it.
InMaps(id) == \E m \in Maps : \E n \in Held(m) : limiters[m][n].id = id
Known(id) == id \in swept \/ InMaps(id)

\* Inductive: no bucket is lost between the step that finds or stores it and the
\* step that returns it.
BucketsKnown ==
    \A p \in Procs :
        /\ got[p] \notin {NoBucket, Denied} => Known(got[p])
        /\ pc[p] \in {"touch", "count"} => Known(req[p].bucket)

\* Helper: a map under which one name got another bucket of the same number.
LEMMA SameNumber ==
    ASSUME TypeOK, NEW m \in Maps, NEW n \in Held(m), NEW b \in Bucket,
           b.id = limiters[m][n].id, limiters' = [limiters EXCEPT ![m][n] = b]
    PROVE  \A k \in Maps, j \in Names :
               limiters[k][j] # NoBucket =>
                   limiters'[k][j] # NoBucket /\ limiters'[k][j].id = limiters[k][j].id
BY NoBucketAssumption DEF TypeOK, Held

\* Helper: a name keeps its bucket, by number, in every step but a deletion.
LEMMA NameKeepsBucket ==
    ASSUME TypeOK, [Next]_vars, ~SweepDelete
    PROVE  \A m \in Maps, n \in Names :
               limiters[m][n] # NoBucket =>
                   limiters'[m][n] # NoBucket /\ limiters'[m][n].id = limiters[m][n].id
<1>1. ASSUME NEW p \in Procs, Touch(p), limiters' # limiters
      PROVE  \E m \in Maps : \E n \in Held(m), b \in Bucket :
                b.id = limiters[m][n].id /\ limiters' = [limiters EXCEPT ![m][n] = b]
  <2>1. req[p] \in Request
    BY <1>1, RequestIsTyped DEF Touch
  <2>2. /\ req[p].map \in Maps /\ req[p].name \in Names
        /\ req[p].at \in Nat /\ now \in Nat
    BY <2>1 DEF TypeOK, Request
  <2>3. limiters[req[p].map][req[p].name] \in Bucket \union {NoBucket}
    BY <2>2 DEF TypeOK
  <2> QED
    BY <1>1, <2>2, <2>3 DEF Touch, Held, Bucket
<1>2. ASSUME NEW p \in Procs, Store(p), limiters' # limiters
      PROVE  \E m \in Maps : \E n \in Names \ Held(m), b \in Bucket :
                limiters' = [limiters EXCEPT ![m][n] = b]
  <2>1. req[p] \in Request
    BY <1>2, RequestIsTyped DEF Store
  <2>2. /\ req[p].map \in Maps /\ req[p].name \in Names
        /\ [id |-> made + 1, last |-> req[p].at] \in Bucket
    BY <2>1 DEF TypeOK, Request, Bucket
  <2> QED
    BY <1>2, <2>2 DEF Store, LoadOrStore
<1>3. CASE limiters' = limiters
  BY <1>3
<1>4. CASE \E p \in Procs : Touch(p) /\ limiters' # limiters
  <2>1. PICK m \in Maps, n \in Names, b \in Bucket :
           /\ n \in Held(m) /\ b.id = limiters[m][n].id
           /\ limiters' = [limiters EXCEPT ![m][n] = b]
    BY <1>1, <1>4 DEF Held
  <2> QED
    BY <2>1, SameNumber
<1>5. CASE \E p \in Procs : Store(p) /\ limiters' # limiters
  <2>1. PICK m \in Maps, n \in Names, b \in Bucket :
           limiters[m][n] = NoBucket /\ limiters' = [limiters EXCEPT ![m][n] = b]
    BY <1>2, <1>5 DEF Held
  <2>2. limiters[m][n] = NoBucket
    BY <2>1
  <2> QED
    BY <2>1, <2>2 DEF TypeOK
<1> QED
  BY <1>3, <1>4, <1>5
  DEF Next, Serve, GetLimiter, Load, SubnetCapacity, Count, Sweep, SweepStart, SweepVisit,
      SweepUncount, SweepNext, Stop, Tick, Rest, vars

\* Helper: a known bucket stays known.
LEMMA KnownForGood ==
    ASSUME TypeOK, [Next]_vars, NEW id, Known(id)
    PROVE  Known(id)'
<1>1. CASE SweepDelete
  <2>1. /\ sweeper.map \in Maps /\ sweeper.victim \in Names
        /\ sweeper.victim \in Held(sweeper.map)
    BY <1>1 DEF SweepDelete, TypeOK, Sweeper, Held
  <2>2. swept' = swept \union {limiters[sweeper.map][sweeper.victim].id}
    BY <1>1, <2>1 DEF SweepDelete
  <2>3. \A m \in Maps, n \in Names :
           limiters'[m][n] = IF m = sweeper.map /\ n = sweeper.victim
                             THEN NoBucket ELSE limiters[m][n]
    BY <1>1, <2>1 DEF SweepDelete, TypeOK
  <2>4. CASE id \in swept
    BY <2>2, <2>4 DEF Known
  <2>5. CASE InMaps(id)
    <3>1. PICK m \in Maps, n \in Names : n \in Held(m) /\ limiters[m][n].id = id
      BY <2>5 DEF InMaps, Held
    <3> QED
      BY <2>2, <2>3, <3>1 DEF Known, InMaps, Held
  <2> QED
    BY <2>4, <2>5 DEF Known
<1>2. CASE ~SweepDelete
  <2>1. swept' = swept
    BY <1>2 DEF Next, Serve, GetLimiter, Load, SubnetCapacity, Touch, Store, Count, Sweep,
                SweepStart, SweepVisit, SweepUncount, SweepNext, Stop, Tick, Rest, vars
  <2> QED
    BY <1>2, <2>1, NameKeepsBucket DEF Known, InMaps, Held
<1> QED
  BY <1>1, <1>2

\* Requests of one client share one bucket of ratelimit.go: what getLimiter returned
\* is still in the map, or the cleanup has removed it; LoadOrStore and the update of
\* lastAccess never put another one in its place.
THEOREM BucketsAreShared == Spec => []OneBucketPerName
<1>1. Init => BucketsKnown
  BY DEF Init, BucketsKnown
<1>2. TypeOK /\ BucketsKnown /\ [Next]_vars => BucketsKnown'
  <2> SUFFICES ASSUME TypeOK, BucketsKnown, [Next]_vars
               PROVE  BucketsKnown'
    OBVIOUS
  <2> USE NoBucketAssumption
  <2>1. \A id : Known(id) => Known(id)'
    BY KnownForGood
  <2>2. ASSUME NEW p \in Procs, NEW ip \in IPs, GetLimiter(p, ip)
        PROVE  BucketsKnown'
    BY <2>1, <2>2 DEF GetLimiter, Goto, BucketsKnown, TypeOK
  <2>3. ASSUME NEW p \in Procs, Load(p)
        PROVE  BucketsKnown'
    <3>1. req[p] \in Request /\ req[p].map \in Maps /\ req[p].name \in Names
      BY <2>3, RequestIsTyped DEF Load, Request
    <3>2. ASSUME NEW q \in Procs \ {p}
          PROVE  pc'[q] = pc[q] /\ req'[q] = req[q]
      BY <2>3 DEF Load, Goto, TypeOK
    <3>3. CASE limiters[req[p].map][req[p].name] # NoBucket
      <4>1. InMaps(limiters[req[p].map][req[p].name].id)
        BY <3>1, <3>3 DEF InMaps, Held
      <4>2. req'[p].bucket = limiters[req[p].map][req[p].name].id
        BY <2>3, <3>1, <3>3 DEF Load, TypeOK, Request
      <4> QED
        BY <2>1, <2>3, <3>2, <4>1, <4>2 DEF BucketsKnown, Known, Load
    <3>4. CASE limiters[req[p].map][req[p].name] = NoBucket
      <4>1. pc'[p] \notin {"touch", "count"}
        BY <2>3, <3>4 DEF Load, Goto, TypeOK
      <4> QED
        BY <2>1, <2>3, <3>2, <4>1 DEF BucketsKnown, Load
    <3> QED
      BY <3>3, <3>4
  <2>4. ASSUME NEW p \in Procs, NEW id \in Nat \union {Denied}, Return(p, id),
               id = Denied \/ Known(id)
        PROVE  BucketsKnown'
    BY <2>1, <2>4 DEF Return, Goto, BucketsKnown, TypeOK
  <2>5. ASSUME NEW p \in Procs, SubnetCapacity(p)
        PROVE  BucketsKnown'
    <3>1. CASE AtCapacity("subnet")
      BY <2>4, <2>5, <3>1 DEF SubnetCapacity
    <3>2. CASE ~AtCapacity("subnet")
      BY <2>1, <2>5, <3>2 DEF SubnetCapacity, Goto, BucketsKnown, TypeOK
    <3> QED
      BY <3>1, <3>2
  <2>6. ASSUME NEW p \in Procs, Touch(p) \/ Count(p)
        PROVE  BucketsKnown'
    <3>1. req[p].bucket \in Nat /\ Known(req[p].bucket) /\ Return(p, req[p].bucket)
      BY <2>6 DEF Touch, Count, BucketsKnown, TypeOK
    <3> QED
      BY <2>4, <3>1
  <2>7. ASSUME NEW p \in Procs, Store(p)
        PROVE  BucketsKnown'
    <3>1. /\ req[p] \in Request /\ req[p].map \in Maps /\ req[p].name \in Names
          /\ req[p].at \in Nat
      BY <2>7, RequestIsTyped DEF Store, Request
    <3>2. CASE req[p].name \in Held(req[p].map)
      <4>1. /\ limiters[req[p].map][req[p].name].id \in Nat
            /\ Known(limiters[req[p].map][req[p].name].id)
        BY <3>1, <3>2 DEF Known, InMaps, Held, TypeOK, Bucket
      <4> QED
        BY <2>4, <2>7, <3>2, <4>1 DEF Store, LoadOrStore
    <3>3. CASE req[p].name \notin Held(req[p].map)
      <4>1. limiters'[req[p].map][req[p].name] = [id |-> made + 1, last |-> req[p].at]
        BY <2>7, <3>1, <3>3 DEF Store, LoadOrStore, TypeOK
      <4>2. [id |-> made + 1, last |-> req[p].at] \in Bucket
        BY <3>1 DEF TypeOK, Bucket
      <4>3. PICK m \in Maps, n \in Names : limiters'[m][n] = [id |-> made + 1, last |-> req[p].at]
        BY <3>1, <4>1
      <4>4. n \in Held(m)' /\ limiters'[m][n].id = made + 1
        BY <4>2, <4>3 DEF Held
      <4>5. \A id : id = made + 1 => Known(id)'
        BY <4>4 DEF Known, InMaps
      <4>6. req'[p].bucket = made + 1
        BY <2>7, <3>1, <3>3 DEF Store, LoadOrStore, TypeOK, Request
      <4>7. /\ got' = got
            /\ \A q \in Procs \ {p} : pc'[q] = pc[q] /\ req'[q] = req[q]
        BY <2>7, <3>3 DEF Store, LoadOrStore, Goto, TypeOK
      <4> QED
        <5>1. Known(req[p].bucket)'
          BY <4>5, <4>6
        <5> QED
          BY <2>1, <2>7, <4>7, <5>1 DEF Store, BucketsKnown
    <3> QED
      BY <3>2, <3>3
  <2>8. ASSUME UNCHANGED <<pc, req, got>>
        PROVE  BucketsKnown'
    BY <2>1, <2>8 DEF BucketsKnown
  <2> QED
    BY <2>2, <2>3, <2>5, <2>6, <2>7, <2>8
    DEF Next, Serve, Sweep, SweepStart, SweepVisit, SweepDelete, SweepUncount, SweepNext,
        Stop, Tick, Rest, vars
<1>3. BucketsKnown => OneBucketPerName
  BY DEF BucketsKnown, OneBucketPerName, Known, InMaps
<1> QED
  BY <1>1, <1>2, <1>3, TypeCorrect, PTL DEF Spec

-----------------------------------------------------------------------------
\* Inductive: what the cleanup found stale is, by number, what the name still holds
\* when the cleanup comes to delete it.
VictimInv ==
    sweeper.place = "delete" =>
        /\ limiters[sweeper.map][sweeper.victim] # NoBucket
        /\ limiters[sweeper.map][sweeper.victim].id = sweeper.seen.id
        /\ sweeper.at - sweeper.seen.last > MaxAge

\* Helper: VictimInv is an invariant.
LEMMA VictimHolds == Spec => []VictimInv
<1>1. Init => VictimInv
  BY DEF Init, VictimInv, Resting
<1>2. TypeOK /\ VictimInv /\ [Next]_vars => VictimInv'
  <2> SUFFICES ASSUME TypeOK, VictimInv, [Next]_vars
               PROVE  VictimInv'
    OBVIOUS
  <2>0. sweeper \in Sweeper
    BY DEF TypeOK
  <2>1. ASSUME NEW n \in Names, SweepVisit(n)
        PROVE  VictimInv'
    <3> DEFINE b == limiters[sweeper.map][n]
    <3>1. CASE b # NoBucket /\ Stale(b)
      <4>1. /\ sweeper'.victim = n /\ sweeper'.map = sweeper.map
            /\ sweeper'.seen = b /\ sweeper'.at = sweeper.at /\ limiters' = limiters
        BY <2>0, <2>1, <3>1 DEF SweepVisit, Sweeper
      <4> QED
        BY <3>1, <4>1 DEF VictimInv, Stale
    <3>2. CASE ~(b # NoBucket /\ Stale(b))
      <4>1. sweeper'.place = "visit"
        BY <2>0, <2>1, <3>2 DEF SweepVisit, Sweeper
      <4> QED
        BY <4>1 DEF VictimInv
    <3> QED
      BY <3>1, <3>2
  <2>2. CASE SweepStart \/ SweepDelete \/ SweepUncount \/ SweepNext \/ Stop
    <3>1. CASE SweepStart \/ SweepNext
      <4>1. sweeper'.place # "delete"
        <5>1. CASE SweepStart
          BY <5>1 DEF SweepStart, Resting
        <5>2. CASE SweepNext
          BY <2>0, <5>2 DEF SweepNext, Resting, Sweeper
        <5> QED
          BY <3>1, <5>1, <5>2
      <4> QED
        BY <4>1 DEF VictimInv
    <3>2. CASE SweepDelete \/ SweepUncount \/ Stop
      BY <2>0, <3>2 DEF SweepDelete, SweepUncount, Stop, Sweeper, VictimInv
    <3> QED
      BY <2>2, <3>1, <3>2
  <2>3. CASE sweeper' = sweeper /\ ~SweepDelete
    <3>1. sweeper.place = "delete" => sweeper.map \in Maps /\ sweeper.victim \in Names
      BY DEF TypeOK, Sweeper, Held
    <3> QED
      BY <2>3, <3>1, NameKeepsBucket DEF VictimInv
  <2> QED
    BY <2>1, <2>2, <2>3
    DEF Next, Serve, GetLimiter, Load, SubnetCapacity, Touch, Store, Count, Sweep, Tick, Rest,
        vars
<1> QED
  BY <1>1, <1>2, TypeCorrect, PTL DEF Spec

\* The cleanup of ratelimit.go removes the very bucket that it found idle for more
\* than MaxAge, though it has released the entry's mutex before it deletes.
THEOREM SweepIsExact == Spec => SweepDropsWhatItSaw
<1>1. TypeOK /\ VictimInv /\ [Next]_vars =>
        [\A m \in Maps : \A n \in Names :
            (limiters[m][n] # NoBucket /\ limiters'[m][n] = NoBucket) =>
                /\ limiters[m][n].id = sweeper.seen.id
                /\ sweeper.at - sweeper.seen.last > MaxAge]_vars
  <2> SUFFICES ASSUME TypeOK, VictimInv, [Next]_vars,
                      NEW m \in Maps, NEW n \in Names,
                      limiters[m][n] # NoBucket, limiters'[m][n] = NoBucket
               PROVE  /\ limiters[m][n].id = sweeper.seen.id
                      /\ sweeper.at - sweeper.seen.last > MaxAge
    OBVIOUS
  <2>1. SweepDelete
    BY NameKeepsBucket
  <2>2. m = sweeper.map /\ n = sweeper.victim
    BY <2>1 DEF SweepDelete, TypeOK, Sweeper
  <2> QED
    BY <2>1, <2>2 DEF SweepDelete, VictimInv
<1> QED
  BY <1>1, TypeCorrect, VictimHolds, PTL DEF Spec, SweepDropsWhatItSaw
=============================================================================
