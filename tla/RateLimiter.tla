------------------------------ MODULE RateLimiter ------------------------------
(***************************************************************************)
(* IPRateLimiter of internal/api/ratelimit.go: a token bucket per client   *)
(* IP, and a bucket per subnet for the IPs that come when the map of IPs   *)
(* is full.  Two sync.Maps, each with an atomic counter of its entries     *)
(* beside it, are shared without a common lock by the request goroutines   *)
(* and by the cleanup goroutine: every access to a map, to a counter or to *)
(* a bucket's lastAccess is a step of its own.                             *)
(*                                                                         *)
(* Abstractions: a bucket is its number, in order of creation, and its     *)
(* lastAccess; what Allow does with its tokens (golang.org/x/time/rate),   *)
(* the capacity warnings and the metrics are left out.                     *)
(***************************************************************************)
EXTENDS Integers, FiniteSets

CONSTANTS
    Procs,        \* request goroutines
    IPs, Subnets, \* names of the buckets of the two maps
    SubnetOf,     \* ipToSubnet
    MaxIPs,       \* maxRateLimiterEntries
    MaxSubnets,   \* maxSubnetLimiterEntries
    MaxAge,       \* maxAge of cleanupLoop
    MaxRequests,  \* bound: requests in a run
    MaxTime,      \* bound: the clock
    NoBucket,     \* the name is not in the map
    Denied        \* getLimiter returned nil

ASSUME ParamsAssumption ==
    /\ IsFiniteSet(Procs)
    /\ SubnetOf \in [IPs -> Subnets]
    /\ MaxIPs \in Nat \ {0} /\ MaxSubnets \in Nat \ {0}
    /\ MaxAge \in Nat /\ MaxRequests \in Nat /\ MaxTime \in Nat

\* The two maps, and what they hold.
Maps == {"ip", "subnet"}
Names == IPs \union Subnets
Limit(m) == IF m = "ip" THEN MaxIPs ELSE MaxSubnets
Bucket == [id: Nat, last: Nat]

ASSUME NoBucketAssumption ==
    NoBucket \notin Bucket \union Nat \union Names /\ Denied \notin Nat

VARIABLES
    limiters,  \* map -> name -> Bucket or NoBucket
    size,      \* map -> the counter beside it
    pc,        \* where each request is
    req,       \* what each request works on
    got,       \* what each request's getLimiter returned last
    sweeper,   \* where the cleanup goroutine is, and what it works on
    now,
    made,      \* history: buckets created so far
    asked,     \* history: requests so far
    swept      \* history: the buckets the cleanup removed

vars == <<limiters, size, pc, req, got, sweeper, now, made, asked, swept>>

Held(m) == {n \in Names : limiters[m][n] # NoBucket}

Request == [map: Maps, name: Names, ip: IPs, at: Nat, full: BOOLEAN,
            bucket: Nat \union {NoBucket}]

NoRequest == [map |-> "ip", name |-> NoBucket, ip |-> NoBucket, at |-> 0, full |-> FALSE,
              bucket |-> NoBucket]

Sweeper == [place: {"rest", "visit", "delete", "uncount", "gone"}, at: Nat, map: Maps,
            todo: SUBSET Names, victim: Names \union {NoBucket},
            seen: Bucket \union {NoBucket}]

Resting == [place |-> "rest", at |-> 0, map |-> "ip", todo |-> {}, victim |-> NoBucket,
            seen |-> NoBucket]

TypeOK ==
    /\ limiters \in [Maps -> [Names -> Bucket \union {NoBucket}]]
    /\ size \in [Maps -> Int]
    /\ pc \in [Procs -> {"idle", "load", "full", "touch", "store", "count"}]
    /\ req \in [Procs -> Request \union {NoRequest}]
    /\ \A p \in Procs : pc[p] = "idle" <=> req[p] = NoRequest
    /\ \A p \in Procs : pc[p] \in {"touch", "count"} => req[p].bucket \in Nat
    /\ got \in [Procs -> Nat \union {NoBucket, Denied}]
    /\ sweeper \in Sweeper
    /\ sweeper.place = "delete" => sweeper.victim \in Held(sweeper.map)
    /\ now \in 0..MaxTime
    /\ made \in Nat
    /\ asked \in 0..MaxRequests
    /\ swept \subseteq Nat

Init ==
    /\ limiters = [m \in Maps |-> [n \in Names |-> NoBucket]]
    /\ size = [m \in Maps |-> 0]
    /\ pc = [p \in Procs |-> "idle"]
    /\ req = [p \in Procs |-> NoRequest]
    /\ got = [p \in Procs |-> NoBucket]
    /\ sweeper = Resting
    /\ now = 0
    /\ made = 0
    /\ asked = 0
    /\ swept = {}

-----------------------------------------------------------------------------
(* getLimiter and getSubnetLimiter *)

Goto(p, place) == pc' = [pc EXCEPT ![p] = place]

\* Mutant: who returns keeps its work.
ReturnWorking(p, id) ==
    /\ Goto(p, "idle")
    /\ req' = req
    /\ got' = [got EXCEPT ![p] = id]
Return(p, id) ==
    /\ Goto(p, "idle")
    /\ req' = [req EXCEPT ![p] = NoRequest]
    /\ got' = [got EXCEPT ![p] = id]

\* Mutant: one entry too many.
AtCapacityLate(m) == size[m] > Limit(m)
AtCapacity(m) == size[m] >= Limit(m)

\* The clock and the counter are read before anything else.
GetLimiter(p, ip) ==
    /\ pc[p] = "idle"
    /\ asked < MaxRequests
    /\ now + MaxAge < MaxTime
    /\ asked' = asked + 1
    /\ Goto(p, "load")
    /\ req' = [req EXCEPT ![p] = [map |-> "ip", name |-> ip, ip |-> ip, at |-> now,
                                  full |-> AtCapacity("ip"), bucket |-> NoBucket]]
    /\ UNCHANGED <<limiters, size, got, sweeper, now, made, swept>>

\* Load: a bucket that is there is used whatever the counter says; without one a
\* request that saw the IP map full turns to its subnet.
Load(p) ==
    LET m == req[p].map
        b == limiters[m][req[p].name]
    IN  /\ pc[p] = "load"
        /\ \/ /\ b # NoBucket
              /\ Goto(p, "touch")
              /\ req' = [req EXCEPT ![p].bucket = b.id]
           \/ /\ b = NoBucket /\ m = "ip" /\ ~req[p].full
              /\ Goto(p, "store")
              /\ UNCHANGED req
           \/ /\ b = NoBucket /\ m = "ip" /\ req[p].full
              /\ Goto(p, "load")
              /\ req' = [req EXCEPT ![p].map = "subnet", ![p].name = SubnetOf[req[p].ip]]
           \/ /\ b = NoBucket /\ m = "subnet"
              /\ Goto(p, "full")
              /\ UNCHANGED req
        /\ UNCHANGED <<limiters, size, got, sweeper, now, made, asked, swept>>

\* Only here the counter of subnets is read: nil when it is at its limit too.
SubnetCapacity(p) ==
    /\ pc[p] = "full"
    /\ IF AtCapacity("subnet")
       THEN Return(p, Denied)
       ELSE /\ Goto(p, "store")
            /\ req' = [req EXCEPT ![p].at = now]
            /\ UNCHANGED got
    /\ UNCHANGED <<limiters, size, sweeper, now, made, asked, swept>>

\* lastAccess, under the entry's own mutex, of the bucket that Load returned: it
\* may have left the map since.
Touch(p) ==
    LET m == req[p].map
        n == req[p].name
        at == IF m = "ip" THEN req[p].at ELSE now
        b == limiters[m][n]
    IN  /\ pc[p] = "touch"
        /\ limiters' = IF b # NoBucket /\ b.id = req[p].bucket
                       THEN [limiters EXCEPT ![m][n] = [id |-> b.id, last |-> at]]
                       ELSE limiters
        /\ Return(p, req[p].bucket)
        /\ UNCHANGED <<size, sweeper, now, made, asked, swept>>

\* Mutants: Store instead of LoadOrStore; a bucket that was there is counted too.
StoreOver(p, m, n) ==
    /\ limiters' = [limiters EXCEPT ![m][n] = [id |-> made + 1, last |-> req[p].at]]
    /\ made' = made + 1
    /\ Goto(p, "count")
    /\ req' = [req EXCEPT ![p].bucket = made + 1]
    /\ UNCHANGED got
StoreCounted(p, m, n) ==
    /\ limiters' = IF n \in Held(m) THEN limiters
                   ELSE [limiters EXCEPT ![m][n] = [id |-> made + 1, last |-> req[p].at]]
    /\ made' = IF n \in Held(m) THEN made ELSE made + 1
    /\ Goto(p, "count")
    /\ req' = [req EXCEPT ![p].bucket =
                  IF n \in Held(m) THEN limiters[m][n].id ELSE made + 1]
    /\ UNCHANGED got
\* LoadOrStore: another goroutine's bucket wins, and is not touched.
LoadOrStore(p, m, n) ==
    IF n \in Held(m)
    THEN Return(p, limiters[m][n].id) /\ UNCHANGED <<limiters, made>>
    ELSE /\ limiters' = [limiters EXCEPT ![m][n] = [id |-> made + 1, last |-> req[p].at]]
         /\ made' = made + 1
         /\ Goto(p, "count")
         /\ req' = [req EXCEPT ![p].bucket = made + 1]
         /\ UNCHANGED got

Store(p) ==
    /\ pc[p] = "store"
    /\ LoadOrStore(p, req[p].map, req[p].name)
    /\ UNCHANGED <<size, sweeper, now, asked, swept>>

Count(p) ==
    /\ pc[p] = "count"
    /\ size' = [size EXCEPT ![req[p].map] = @ + 1]
    /\ Return(p, req[p].bucket)
    /\ UNCHANGED <<limiters, sweeper, now, made, asked, swept>>

-----------------------------------------------------------------------------
(* cleanupLoop *)

\* A tick of the cleanup timer: one Range over each map, IPs first.
SweepStart ==
    /\ sweeper.place = "rest"
    /\ sweeper' = [Resting EXCEPT !.place = "visit", !.at = now, !.todo = IPs]
    /\ UNCHANGED <<limiters, size, pc, req, got, now, made, asked, swept>>

\* Mutant: the age is not compared with the limit.
StaleAnyAge(b) == sweeper.at >= b.last
Stale(b) == sweeper.at - b.last > MaxAge

\* Range comes to a name, in any order; one that is not there is passed over.
SweepVisit(n) ==
    LET b == limiters[sweeper.map][n]
        rest == [sweeper EXCEPT !.todo = @ \ {n}]
    IN  /\ sweeper.place = "visit"
        /\ n \in sweeper.todo
        /\ sweeper' = IF b # NoBucket /\ Stale(b)
                      THEN [rest EXCEPT !.place = "delete", !.victim = n, !.seen = b]
                      ELSE rest
        /\ UNCHANGED <<limiters, size, pc, req, got, now, made, asked, swept>>

\* The entry's mutex has been released: whatever the name holds by now goes.
SweepDelete ==
    LET m == sweeper.map
        n == sweeper.victim
    IN  /\ sweeper.place = "delete"
        /\ limiters' = [limiters EXCEPT ![m][n] = NoBucket]
        /\ swept' = IF n \in Held(m) THEN swept \union {limiters[m][n].id} ELSE swept
        /\ sweeper' = [sweeper EXCEPT !.place = "uncount"]
        /\ UNCHANGED <<size, pc, req, got, now, made, asked>>

\* Mutant: the counter of subnets is not adjusted.
UncountIPOnly(m) == IF m = "ip" THEN 1 ELSE 0
Uncount(m) == 1

SweepUncount ==
    /\ sweeper.place = "uncount"
    /\ size' = [size EXCEPT ![sweeper.map] = @ - Uncount(sweeper.map)]
    /\ sweeper' = [sweeper EXCEPT !.place = "visit", !.victim = NoBucket, !.seen = NoBucket]
    /\ UNCHANGED <<limiters, pc, req, got, now, made, asked, swept>>

\* The Range over one map has ended: the other map, or the next tick.
SweepNext ==
    /\ sweeper.place = "visit"
    /\ sweeper.todo = {}
    /\ sweeper' = IF sweeper.map = "ip"
                  THEN [sweeper EXCEPT !.map = "subnet", !.todo = Subnets]
                  ELSE Resting
    /\ UNCHANGED <<limiters, size, pc, req, got, now, made, asked, swept>>

\* Stop closes done, which the loop sees between two sweeps.
Stop ==
    /\ sweeper.place = "rest"
    /\ sweeper' = [sweeper EXCEPT !.place = "gone"]
    /\ UNCHANGED <<limiters, size, pc, req, got, now, made, asked, swept>>

\* The last MaxAge + 1 units of the clock are for the cleanup alone, so that the
\* bound does not keep a bucket from growing old.
Tick ==
    /\ now < MaxTime
    /\ now + MaxAge + 1 < MaxTime \/ \A p \in Procs : pc[p] = "idle"
    /\ now' = now + 1
    /\ UNCHANGED <<limiters, size, pc, req, got, sweeper, made, asked, swept>>

\* After Stop nothing is left to do but to serve requests.
Rest ==
    /\ sweeper.place = "gone" /\ now = MaxTime
    /\ \A p \in Procs : pc[p] = "idle"
    /\ UNCHANGED vars

-----------------------------------------------------------------------------
Serve(p) == Load(p) \/ SubnetCapacity(p) \/ Touch(p) \/ Store(p) \/ Count(p)

Sweep ==
    \/ SweepStart \/ SweepDelete \/ SweepUncount \/ SweepNext
    \/ \E n \in Names : SweepVisit(n)

Next ==
    \/ \E p \in Procs : Serve(p) \/ \E ip \in IPs : GetLimiter(p, ip)
    \/ Sweep
    \/ Stop
    \/ Tick
    \/ Rest

Spec == Init /\ [][Next]_vars

\* Requests and the cleanup goroutine run on, and so does the clock.
FairSpec ==
    /\ Spec
    /\ WF_vars(Sweep) /\ WF_vars(Tick)
    /\ \A p \in Procs : WF_vars(Serve(p))

-----------------------------------------------------------------------------
(* Properties *)

\* The requests that have stored a bucket in m and not counted it yet.
Counting(m) == {p \in Procs : pc[p] = "count" /\ req[p].map = m}

\* The requests that passed the capacity check of m and may still store in it.
Admitted(m) ==
    {p \in Procs :
        /\ pc[p] \in {"load", "store"} /\ req[p].map = m
        /\ pc[p] = "load" => m = "ip" /\ ~req[p].full}

\* Each counter follows its map: they differ only by the steps that are between
\* the change of the map and that of the counter, so nothing is counted twice or
\* forgotten whatever LoadOrStore and the cleanup do to each other.
SizeTracksEntries ==
    \A m \in Maps :
        size[m] = Cardinality(Held(m)) - Cardinality(Counting(m))
                  + (IF sweeper.place = "uncount" /\ sweeper.map = m THEN 1 ELSE 0)

\* What the unsynchronised check does to "limits the rate limiter map size": a
\* map exceeds its limit by less than the number of requests in flight.
OvershootBounded ==
    \A m \in Maps :
        Cardinality(Held(m)) + Cardinality(Admitted(m)) <= Limit(m) + Cardinality(Procs) - 1

\* Requests of one client share one bucket: a bucket that getLimiter returned is
\* still the one in the map, or the cleanup has removed it.  Nobody replaces it.
OneBucketPerName ==
    \A p \in Procs :
        got[p] \notin {NoBucket, Denied} =>
            \/ got[p] \in swept
            \/ \E m \in Maps : \E n \in Held(m) : limiters[m][n].id = got[p]

\* The two steps of the cleanup fit together: what it removes is the very bucket
\* that it had found idle for more than MaxAge, never one created since.  (That
\* bucket may have been used again between the two steps.)
SweepDropsWhatItSaw ==
    [][\A m \in Maps : \A n \in Names :
        (limiters[m][n] # NoBucket /\ limiters'[m][n] = NoBucket) =>
            /\ limiters[m][n].id = sweeper.seen.id
            /\ sweeper.at - sweeper.seen.last > MaxAge]_vars

\* A limiter that was full recovers: when no request comes any more, the cleanup
\* brings both maps and both counters down to nothing, unless it was stopped.
CapacityRecovers ==
    [](sweeper.place # "gone") =>
        <>[](\A m \in Maps : size[m] = 0 /\ Held(m) = {})
=============================================================================
