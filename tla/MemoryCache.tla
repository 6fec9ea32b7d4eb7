------------------------------ MODULE MemoryCache ------------------------------
(***************************************************************************)
(* The in-memory L1 cache of internal/cache/memory.go: an LRU list with a  *)
(* per-entry expiry, an entry limit and a byte limit, used by concurrent   *)
(* goroutines.                                                             *)
(*                                                                         *)
(* A goroutine holds the write lock of MemoryCache.mu over several steps   *)
(* only inside Set, whose eviction loop is modelled one RemoveOldest at a  *)
(* time; every other critical section is one action.  Get is split where   *)
(* the code releases the read lock: the entry it looked up is examined,    *)
(* and when expired removed, after other goroutines may have run.          *)
(*                                                                         *)
(* Abstractions: a value is its length (Sizes) and the number of the Set   *)
(* that wrote it; the hit, miss and eviction counters, which nothing       *)
(* reads back, are left out.                                               *)
(***************************************************************************)
EXTENDS Integers, FiniteSets, FiniteSetsExt

CONSTANTS
    Procs,       \* the goroutines using the cache
    Keys,        \* cache keys
    Sizes,       \* lengths a value may have
    TTLs,        \* time-to-live values passed to Set
    MaxSize,     \* MemoryCacheConfig.MaxSize, 0 = unlimited
    MaxEntries,  \* MemoryCacheConfig.MaxEntries
    MaxWrites,   \* bound: how many Sets the run makes
    MaxTime,     \* bound: how far the clock runs
    NoProc,      \* mu is free
    NoEntry      \* the key is absent

ASSUME ParamsAssumption ==
    /\ Sizes \subseteq Nat
    /\ TTLs \subseteq Nat
    /\ MaxSize \in Nat
    /\ MaxEntries \in Nat \ {0}
    /\ MaxWrites \in Nat
    /\ MaxTime \in Nat
    /\ IsFiniteSet(Keys)
    /\ NoProc \notin Procs

Entry == [size: Sizes, exp: Nat, ver: Nat]

ASSUME NoEntryAssumption == NoEntry \notin Entry

VARIABLES
    items,      \* the LRU's map: key -> Entry or NoEntry
    recency,    \* the LRU's list: <<a, b>> when a was used less recently than b
    sizeBytes,  \* MemoryCache.sizeBytes
    resident,   \* history variable: bytes of the values really held
    mu,         \* holder of the write lock of MemoryCache.mu
    pc,         \* where each goroutine is
    local,      \* the key and the entry each goroutine works on
    now,        \* wall clock
    writes      \* history variable: number of Sets so far

vars == <<items, recency, sizeBytes, resident, mu, pc, local, now, writes>>

NoWork == [key |-> NoEntry, entry |-> NoEntry]

TypeOK ==
    /\ items \in [Keys -> Entry \union {NoEntry}]
    /\ recency \subseteq Keys \X Keys
    /\ sizeBytes \in Int
    /\ resident \in Int
    /\ mu \in Procs \union {NoProc}
    /\ pc \in [Procs -> {"idle", "looked", "expired", "set", "evict"}]
    /\ local \in [Procs -> [key: Keys, entry: Entry] \union {NoWork}]
    /\ \A p \in Procs : pc[p] # "idle" => local[p] \in [key: Keys, entry: Entry]
    /\ \A p \in Procs : pc[p] = "evict" <=> mu = p
    /\ now \in 0..MaxTime
    /\ writes \in 0..MaxWrites

Init ==
    /\ items = [k \in Keys |-> NoEntry]
    /\ recency = {}
    /\ sizeBytes = 0
    /\ resident = 0
    /\ mu = NoProc
    /\ pc = [p \in Procs |-> "idle"]
    /\ local = [p \in Procs |-> NoWork]
    /\ now = 0
    /\ writes = 0

-----------------------------------------------------------------------------
(* The LRU list of the golang-lru library, as memory.go uses it *)

Present == {k \in Keys : items[k] # NoEntry}

\* The bytes held under k, 0 when k is absent.
HeldSize(k) == IF items[k] = NoEntry THEN 0 ELSE items[k].size

\* The list once k has been dropped from it ...
Forget(k) == {r \in recency : k \notin {r[1], r[2]}}

\* ... and once k has been moved, or pushed, to its front.
Touch(k) == Forget(k) \union {<<j, k>> : j \in Present \ {k}}

IsOldest(k) == k \in Present /\ \A j \in Present \ {k} : <<k, j>> \in recency

\* Mutants: the list keeps a node of the key that left the map, or the map the entry.
RemoveItemMapped(k, debit) ==
    /\ items' = items
    /\ recency' = Forget(k)
    /\ resident' = resident - HeldSize(k)
    /\ sizeBytes' = sizeBytes - HeldSize(k) - debit
RemoveItemDangling(k, debit) ==
    /\ items' = [items EXCEPT ![k] = NoEntry]
    /\ recency' = recency
    /\ resident' = resident - HeldSize(k)
    /\ sizeBytes' = sizeBytes - HeldSize(k) - debit

\* lru.Remove(k) with its onEvict callback, which debits sizeBytes by what was
\* held, next to the debit the caller makes itself.
RemoveItem(k, debit) ==
    /\ items' = [items EXCEPT ![k] = NoEntry]
    /\ recency' = Forget(k)
    /\ resident' = resident - HeldSize(k)
    /\ sizeBytes' = sizeBytes - HeldSize(k) - debit

-----------------------------------------------------------------------------
(* Get *)

\* Mutant: expiry tested with >= instead of After.
IsExpiredEarly(e) == now >= e.exp
IsExpired(e) == now > e.exp

\* The lookup under the read lock: a miss returns at once.
GetLookup(p, k) ==
    /\ pc[p] = "idle"
    /\ mu = NoProc
    /\ recency' = IF k \in Present THEN Touch(k) ELSE recency
    /\ IF k \in Present
       THEN /\ pc' = [pc EXCEPT ![p] = "looked"]
            /\ local' = [local EXCEPT ![p] = [key |-> k, entry |-> items[k]]]
       ELSE UNCHANGED <<pc, local>>
    /\ UNCHANGED <<items, sizeBytes, resident, mu, now, writes>>

\* The expiry test, no lock held: a hit returns the entry that was looked up.
GetCheck(p) ==
    /\ pc[p] = "looked"
    /\ IF IsExpired(local[p].entry)
       THEN pc' = [pc EXCEPT ![p] = "expired"] /\ UNCHANGED local
       ELSE pc' = [pc EXCEPT ![p] = "idle"] /\ local' = [local EXCEPT ![p] = NoWork]
    /\ UNCHANGED <<items, recency, sizeBytes, resident, mu, now, writes>>

\* The removal under the write lock: whatever the key holds by now goes, the
\* callback debits it, and Get debits the entry it had looked up once more.
GetExpire(p) ==
    /\ pc[p] = "expired"
    /\ mu = NoProc
    /\ RemoveItem(local[p].key, local[p].entry.size)
    /\ pc' = [pc EXCEPT ![p] = "idle"]
    /\ local' = [local EXCEPT ![p] = NoWork]
    /\ UNCHANGED <<mu, now, writes>>

-----------------------------------------------------------------------------
(* Set *)

\* The entry is built, and its expiry fixed, before the lock is taken.
SetCall(p, k, size, ttl) ==
    /\ pc[p] = "idle"
    /\ writes < MaxWrites
    /\ writes' = writes + 1
    /\ pc' = [pc EXCEPT ![p] = "set"]
    /\ local' = [local EXCEPT ![p] =
                    [key |-> k,
                     entry |-> [size |-> size, exp |-> now + ttl, ver |-> writes + 1]]]
    /\ UNCHANGED <<items, recency, sizeBytes, resident, mu, now>>

\* Mutant: the replaced value is never debited.
ReplacedDebitForgotten(k) == 0
\* A replaced value is debited up front, only when there is a byte limit.
ReplacedDebit(k) == IF MaxSize > 0 THEN HeldSize(k) ELSE 0

SetLock(p) ==
    /\ pc[p] = "set"
    /\ mu = NoProc
    /\ mu' = p
    /\ pc' = [pc EXCEPT ![p] = "evict"]
    /\ sizeBytes' = sizeBytes - ReplacedDebit(local[p].key)
    /\ UNCHANGED <<items, recency, resident, local, now, writes>>

\* Mutants: the loop test forgets the new value; the loop does not stop when empty.
MustEvictLate(p) == MaxSize > 0 /\ sizeBytes > MaxSize /\ Present # {}
MustEvictForever(p) == MaxSize > 0 /\ sizeBytes + local[p].entry.size > MaxSize
\* The condition of the eviction loop.
MustEvict(p) ==
    /\ MaxSize > 0
    /\ sizeBytes + local[p].entry.size > MaxSize
    /\ Present # {}

\* One turn of the loop: RemoveOldest.
SetEvict(p, k) ==
    /\ pc[p] = "evict"
    /\ MustEvict(p)
    /\ IsOldest(k)
    /\ RemoveItem(k, 0)
    /\ UNCHANGED <<mu, pc, local, now, writes>>

\* Mutant: a path without the deferred Unlock.
SetReturnLocked(p) ==
    /\ mu' = mu
    /\ pc' = [pc EXCEPT ![p] = "idle"]
    /\ local' = [local EXCEPT ![p] = NoWork]
    /\ UNCHANGED <<now, writes>>
\* The deferred Unlock and the return.
SetReturn(p) ==
    /\ mu' = NoProc
    /\ pc' = [pc EXCEPT ![p] = "idle"]
    /\ local' = [local EXCEPT ![p] = NoWork]
    /\ UNCHANGED <<now, writes>>

\* lru.Add of a key already present, or with room under MaxEntries.
SetStore(p) ==
    LET k == local[p].key
        e == local[p].entry
    IN  /\ pc[p] = "evict"
        /\ ~MustEvict(p)
        /\ k \in Present \/ Cardinality(Present) < MaxEntries
        /\ items' = [items EXCEPT ![k] = e]
        /\ recency' = Touch(k)
        /\ resident' = resident - HeldSize(k) + e.size
        /\ sizeBytes' = sizeBytes + e.size
        /\ SetReturn(p)

\* lru.Add of a new key to a full list: the oldest key leaves, with its callback.
SetStoreFull(p, old) ==
    LET k == local[p].key
        e == local[p].entry
    IN  /\ pc[p] = "evict"
        /\ ~MustEvict(p)
        /\ k \notin Present
        /\ Cardinality(Present) >= MaxEntries
        /\ IsOldest(old)
        /\ items' = [items EXCEPT ![old] = NoEntry, ![k] = e]
        /\ recency' = {r \in Touch(k) : old \notin {r[1], r[2]}}
        /\ resident' = resident - HeldSize(old) + e.size
        /\ sizeBytes' = sizeBytes - HeldSize(old) + e.size
        /\ SetReturn(p)

-----------------------------------------------------------------------------
(* Delete, Clear (Close is Clear) and the clock *)

\* Delete debits the entry itself, and the callback of Remove debits it again.
Delete(p, k) ==
    /\ pc[p] = "idle"
    /\ mu = NoProc
    /\ k \in Present
    /\ RemoveItem(k, HeldSize(k))
    /\ UNCHANGED <<mu, pc, local, now, writes>>

Clear(p) ==
    /\ pc[p] = "idle"
    /\ mu = NoProc
    /\ items' = [k \in Keys |-> NoEntry]
    /\ recency' = {}
    /\ sizeBytes' = 0
    /\ resident' = 0
    /\ UNCHANGED <<mu, pc, local, now, writes>>

Tick ==
    /\ now < MaxTime
    /\ now' = now + 1
    /\ UNCHANGED <<items, recency, sizeBytes, resident, mu, pc, local, writes>>

-----------------------------------------------------------------------------
Get(p) == GetCheck(p) \/ GetExpire(p) \/ \E k \in Keys : GetLookup(p, k)

Set(p) ==
    \/ \E k \in Keys, size \in Sizes, ttl \in TTLs : SetCall(p, k, size, ttl)
    \/ SetLock(p)
    \/ SetStore(p)
    \/ \E k \in Keys : SetEvict(p, k) \/ SetStoreFull(p, k)

Next ==
    \/ \E p \in Procs : Get(p) \/ Set(p) \/ Clear(p) \/ \E k \in Keys : Delete(p, k)
    \/ Tick

Spec == Init /\ [][Next]_vars

\* A goroutine that holds the lock keeps running; nothing is assumed of callers
\* or of the clock.
InSet(p) == SetStore(p) \/ \E k \in Keys : SetEvict(p, k) \/ SetStoreFull(p, k)

FairSpec == Spec /\ \A p \in Procs : WF_vars(InSet(p))

-----------------------------------------------------------------------------
(* Properties *)

\* The map and the list describe the same entries: the list orders the keys of the map
\* totally, so that RemoveOldest always has one victim, and the map respects MaxEntries.
ListCoherent ==
    /\ \A r \in recency : r[1] # r[2] /\ {r[1], r[2]} \subseteq Present
    /\ \A j, k \in Present : j # k => (<<j, k>> \in recency) # (<<k, j>> \in recency)
    /\ \A i, j, k \in Present :
        <<i, j>> \in recency /\ <<j, k>> \in recency => <<i, k>> \in recency
    /\ Cardinality(Present) <= MaxEntries

\* The byte ledger of memory.go goes by the same entries as the map: what the properties
\* call the bytes really held is the sum of the lengths in the map.
Held == [k \in Keys |-> HeldSize(k)]
TotalSize(sizes) == MapThenSumSet(LAMBDA k : sizes[k], Keys)
ResidentIsHeld == resident = TotalSize(Held)

\* The bytes still held under the key that the goroutine inside Set is about to
\* replace, and has debited already.
PendingReplacement == IF mu = NoProc THEN 0 ELSE HeldSize(local[mu].key)

\* With a byte limit, the counter the eviction loop trusts never over-reports:
\* with the debit in progress added back it is at most the bytes really held, in
\* the middle of a Set too.  (The second debit that GetExpire and Delete make,
\* and the eviction of the very key being replaced, all err on one side.)
NeverOverReports == MaxSize > 0 => sizeBytes + PendingReplacement <= resident

\* With a byte limit, no Set leaves the counter above the limit, unless the
\* value it stored is alone in the cache, whatever the Gets and Deletes between.
SizeGate ==
    MaxSize > 0 =>
        \/ sizeBytes <= MaxSize
        \/ \A j, k \in Present : j = k

\* The eviction of Set always ends: the goroutine releases the lock.
SetReleasesLock == \A p \in Procs : mu = p ~> mu # p

\* An entry that has not expired is dropped by Get's expiry step only when it
\* replaced, between the two locks, the entry that Get had examined: the race
\* costs the key that was asked for and no other, and never the entry examined.
ExpiryDropsOnlyOverwritten ==
    [][\A p \in Procs :
        (pc[p] = "expired" /\ pc'[p] = "idle")
            => \A k \in Keys :
                (items[k] # NoEntry /\ items'[k] = NoEntry /\ now <= items[k].exp)
                    => k = local[p].key /\ items[k].ver # local[p].entry.ver]_vars

\* What MemoryCacheConfig.MaxSize is documented to be, "Maximum size in bytes":
\* between operations the values held fit in it (every single value does).
SizeLimitEnforced ==
    (MaxSize > 0 /\ mu = NoProc) => resident <= MaxSize
=============================================================================
