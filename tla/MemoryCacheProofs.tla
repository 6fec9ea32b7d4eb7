--------------------------- MODULE MemoryCacheProofs ---------------------------
(* What holds of MemoryCache for every value of its constants. *)
EXTENDS MemoryCache, FiniteSetTheorems, TLAPS

\* Helper: an entry is not NoEntry, and the length of a held value is a number.
LEMMA HeldSizeIsNat ==
    ASSUME TypeOK, NEW k \in Keys
    PROVE  /\ HeldSize(k) \in Nat
           /\ k \in Present => items[k] \in Entry
BY ParamsAssumption DEF TypeOK, HeldSize, Present, Entry

\* Helper: lists stay sets of pairs of keys.
LEMMA ListIsTyped ==
    ASSUME TypeOK, NEW k \in Keys
    PROVE  /\ Forget(k) \subseteq Keys \X Keys
           /\ Touch(k) \subseteq Keys \X Keys
BY DEF TypeOK, Forget, Touch, Present

\* The type invariant of memory.go: in particular a goroutine is inside Set's
\* critical section exactly when it holds the write lock.
THEOREM TypeCorrect == Spec => []TypeOK
<1>1. Init => TypeOK
  BY ParamsAssumption, NoEntryAssumption DEF Init, TypeOK, NoWork, Entry
<1>2. TypeOK /\ [Next]_vars => TypeOK'
  <2> SUFFICES ASSUME TypeOK, [Next]_vars
               PROVE  TypeOK'
    OBVIOUS
  <2> USE ParamsAssumption
  <2>1. ASSUME NEW p \in Procs, NEW k \in Keys, GetLookup(p, k)
        PROVE  TypeOK'
    BY <2>1, HeldSizeIsNat, ListIsTyped DEF TypeOK, GetLookup, NoWork
  <2>2. ASSUME NEW p \in Procs, GetCheck(p)
        PROVE  TypeOK'
    BY <2>2 DEF TypeOK, GetCheck, NoWork
  <2>3. ASSUME NEW p \in Procs, GetExpire(p)
        PROVE  TypeOK'
    <3>1. local[p].key \in Keys /\ local[p].entry \in Entry
      BY <2>3 DEF TypeOK, GetExpire
    <3> QED
      BY <2>3, <3>1, HeldSizeIsNat, ListIsTyped
      DEF TypeOK, GetExpire, RemoveItem, NoWork, Entry
  <2>4. ASSUME NEW p \in Procs, NEW k \in Keys, NEW size \in Sizes, NEW ttl \in TTLs,
               SetCall(p, k, size, ttl)
        PROVE  TypeOK'
    <3>1. [size |-> size, exp |-> now + ttl, ver |-> writes + 1] \in Entry
      BY DEF TypeOK, Entry
    <3> QED
      BY <2>4, <3>1 DEF TypeOK, SetCall
  <2>5. ASSUME NEW p \in Procs, SetLock(p)
        PROVE  TypeOK'
    <3>1. local[p].key \in Keys
      BY <2>5 DEF TypeOK, SetLock
    <3> QED
      BY <2>5, <3>1, HeldSizeIsNat DEF TypeOK, SetLock, ReplacedDebit
  <2>6. ASSUME NEW p \in Procs, NEW k \in Keys, SetEvict(p, k)
        PROVE  TypeOK'
    BY <2>6, HeldSizeIsNat, ListIsTyped DEF TypeOK, SetEvict, RemoveItem
  <2>7. ASSUME NEW p \in Procs, SetStore(p)
        PROVE  TypeOK'
    <3>1. local[p].key \in Keys /\ local[p].entry \in Entry
      BY <2>7 DEF TypeOK, SetStore
    <3>2. items' \in [Keys -> Entry \union {NoEntry}] /\ recency' \subseteq Keys \X Keys
      BY <2>7, <3>1, ListIsTyped DEF TypeOK, SetStore
    <3>3. sizeBytes' \in Int /\ resident' \in Int
      BY <2>7, <3>1, HeldSizeIsNat DEF TypeOK, SetStore, Entry
    <3> QED
      BY <2>7, <3>2, <3>3 DEF TypeOK, SetStore, SetReturn, NoWork
  <2>8. ASSUME NEW p \in Procs, NEW old \in Keys, SetStoreFull(p, old)
        PROVE  TypeOK'
    <3>1. local[p].key \in Keys /\ local[p].entry \in Entry
      BY <2>8 DEF TypeOK, SetStoreFull
    <3>2. items' \in [Keys -> Entry \union {NoEntry}] /\ recency' \subseteq Keys \X Keys
      BY <2>8, <3>1, ListIsTyped DEF TypeOK, SetStoreFull
    <3>3. sizeBytes' \in Int /\ resident' \in Int
      BY <2>8, <3>1, HeldSizeIsNat DEF TypeOK, SetStoreFull, Entry
    <3> QED
      BY <2>8, <3>2, <3>3 DEF TypeOK, SetStoreFull, SetReturn, NoWork
  <2>9. ASSUME NEW p \in Procs, NEW k \in Keys, Delete(p, k)
        PROVE  TypeOK'
    BY <2>9, HeldSizeIsNat, ListIsTyped DEF TypeOK, Delete, RemoveItem
  <2>10. ASSUME NEW p \in Procs, Clear(p)
         PROVE  TypeOK'
    BY <2>10 DEF TypeOK, Clear
  <2>11. CASE Tick
    BY <2>11 DEF TypeOK, Tick
  <2>12. CASE UNCHANGED vars
    BY <2>12 DEF TypeOK, vars
  <2> QED
    BY <2>1, <2>2, <2>3, <2>4, <2>5, <2>6, <2>7, <2>8, <2>9, <2>10, <2>11, <2>12
    DEF Next, Get, Set
<1> QED
  BY <1>1, <1>2, PTL DEF Spec

\* The counter of memory.go never over-reports the bytes held, whatever the
\* interleaving of the expiring Gets, Deletes and Sets.
THEOREM CounterNeverOverReports == Spec => []NeverOverReports
<1>1. Init => NeverOverReports
  BY DEF Init, NeverOverReports, PendingReplacement
<1>2. TypeOK /\ NeverOverReports /\ [Next]_vars => NeverOverReports'
  <2> SUFFICES ASSUME TypeOK, NeverOverReports, [Next]_vars, MaxSize > 0
               PROVE  sizeBytes' + PendingReplacement' <= resident'
    BY DEF NeverOverReports
  <2> USE ParamsAssumption
  <2>0. sizeBytes + PendingReplacement <= resident
    BY DEF NeverOverReports
  <2>1. ASSUME NEW p \in Procs, NEW k \in Keys, GetLookup(p, k)
        PROVE  sizeBytes' + PendingReplacement' <= resident'
    BY <2>0, <2>1 DEF GetLookup, PendingReplacement, HeldSize
  <2>2. ASSUME NEW p \in Procs, GetCheck(p)
        PROVE  sizeBytes' + PendingReplacement' <= resident'
    <3>1. mu # p
      BY <2>2 DEF TypeOK, GetCheck
    <3> QED
      BY <2>0, <2>2, <3>1 DEF TypeOK, GetCheck, PendingReplacement, HeldSize
  <2>3. ASSUME NEW p \in Procs, GetExpire(p)
        PROVE  sizeBytes' + PendingReplacement' <= resident'
    <3>1. local[p].key \in Keys /\ local[p].entry.size \in Nat
      BY <2>3 DEF TypeOK, GetExpire, Entry
    <3> QED
      BY <2>0, <2>3, <3>1, HeldSizeIsNat
      DEF TypeOK, GetExpire, RemoveItem, PendingReplacement
  <2>4. ASSUME NEW p \in Procs, NEW k \in Keys, NEW size \in Sizes, NEW ttl \in TTLs,
               SetCall(p, k, size, ttl)
        PROVE  sizeBytes' + PendingReplacement' <= resident'
    <3>1. mu # p
      BY <2>4 DEF TypeOK, SetCall
    <3> QED
      BY <2>0, <2>4, <3>1 DEF TypeOK, SetCall, PendingReplacement, HeldSize
  <2>5. ASSUME NEW p \in Procs, SetLock(p)
        PROVE  sizeBytes' + PendingReplacement' <= resident'
    <3>1. local[p].key \in Keys
      BY <2>5 DEF TypeOK, SetLock
    <3>2. PendingReplacement = 0 /\ PendingReplacement' = HeldSize(local[p].key)
      BY <2>5 DEF SetLock, PendingReplacement, HeldSize
    <3> QED
      BY <2>0, <2>5, <3>1, <3>2, HeldSizeIsNat DEF TypeOK, SetLock, ReplacedDebit
  <2>6. ASSUME NEW p \in Procs, NEW k \in Keys, SetEvict(p, k)
        PROVE  sizeBytes' + PendingReplacement' <= resident'
    <3>1. mu = p /\ p # NoProc /\ local[p].key \in Keys
      BY <2>6 DEF TypeOK, SetEvict
    <3>2. PendingReplacement = HeldSize(local[p].key)
      BY <3>1 DEF PendingReplacement
    <3>3. PendingReplacement' = IF local[p].key = k THEN 0 ELSE HeldSize(local[p].key)
      BY <2>6, <3>1 DEF TypeOK, SetEvict, RemoveItem, PendingReplacement, HeldSize
    <3> QED
      BY <2>0, <2>6, <3>1, <3>2, <3>3, HeldSizeIsNat DEF TypeOK, SetEvict, RemoveItem
  <2>7. ASSUME NEW p \in Procs, SetStore(p)
        PROVE  sizeBytes' + PendingReplacement' <= resident'
    <3>1. mu = p /\ p # NoProc /\ local[p].key \in Keys /\ local[p].entry.size \in Nat
      BY <2>7 DEF TypeOK, SetStore, Entry
    <3>2. PendingReplacement = HeldSize(local[p].key) /\ PendingReplacement' = 0
      BY <2>7, <3>1 DEF SetStore, SetReturn, PendingReplacement
    <3> QED
      BY <2>0, <2>7, <3>1, <3>2, HeldSizeIsNat DEF TypeOK, SetStore
  <2>8. ASSUME NEW p \in Procs, NEW old \in Keys, SetStoreFull(p, old)
        PROVE  sizeBytes' + PendingReplacement' <= resident'
    <3>1. mu = p /\ p # NoProc /\ local[p].key \in Keys /\ local[p].entry.size \in Nat
      BY <2>8 DEF TypeOK, SetStoreFull, Entry
    <3>2. PendingReplacement = 0 /\ PendingReplacement' = 0
      BY <2>8, <3>1 DEF SetStoreFull, SetReturn, PendingReplacement, HeldSize, Present
    <3> QED
      BY <2>0, <2>8, <3>1, <3>2, HeldSizeIsNat DEF TypeOK, SetStoreFull
  <2>9. ASSUME NEW p \in Procs, NEW k \in Keys, Delete(p, k)
        PROVE  sizeBytes' + PendingReplacement' <= resident'
    BY <2>0, <2>9, HeldSizeIsNat DEF TypeOK, Delete, RemoveItem, PendingReplacement
  <2>10. ASSUME NEW p \in Procs, Clear(p)
         PROVE  sizeBytes' + PendingReplacement' <= resident'
    BY <2>10 DEF Clear, PendingReplacement
  <2>11. CASE Tick
    BY <2>0, <2>11 DEF Tick, PendingReplacement, HeldSize
  <2>12. CASE UNCHANGED vars
    BY <2>0, <2>12 DEF vars, PendingReplacement, HeldSize
  <2> QED
    BY <2>1, <2>2, <2>3, <2>4, <2>5, <2>6, <2>7, <2>8, <2>9, <2>10, <2>11, <2>12
    DEF Next, Get, Set
<1> QED
  BY <1>1, <1>2, TypeCorrect, PTL DEF Spec

\* The eviction loop of memory.go keeps its counter within the byte limit.
THEOREM CounterWithinLimit == Spec => []SizeGate
<1>1. Init => SizeGate
  BY DEF Init, SizeGate, Present
<1>2. TypeOK /\ SizeGate /\ [Next]_vars => SizeGate'
  <2> SUFFICES ASSUME TypeOK, SizeGate, [Next]_vars, MaxSize > 0
               PROVE  sizeBytes' <= MaxSize \/ \A j, k \in Present' : j = k
    BY DEF SizeGate
  <2> USE ParamsAssumption
  <2> DEFINE Shrinks == /\ sizeBytes' <= sizeBytes
                        /\ Present' \subseteq Present
                        /\ sizeBytes' \in Int
  <2>0. Shrinks => (sizeBytes' <= MaxSize \/ \A j, k \in Present' : j = k)
    BY DEF SizeGate, TypeOK
  <2>1. ASSUME NEW p \in Procs, NEW k \in Keys, GetLookup(p, k)
        PROVE  Shrinks
    BY <2>1 DEF TypeOK, GetLookup, Present
  <2>2. ASSUME NEW p \in Procs, GetCheck(p)
        PROVE  Shrinks
    BY <2>2 DEF TypeOK, GetCheck, Present
  <2>3. ASSUME NEW p \in Procs, GetExpire(p)
        PROVE  Shrinks
    <3>1. local[p].key \in Keys /\ local[p].entry.size \in Nat
      BY <2>3 DEF TypeOK, GetExpire, Entry
    <3> QED
      BY <2>3, <3>1, HeldSizeIsNat DEF TypeOK, GetExpire, RemoveItem, Present
  <2>4. ASSUME NEW p \in Procs, NEW k \in Keys, NEW size \in Sizes, NEW ttl \in TTLs,
               SetCall(p, k, size, ttl)
        PROVE  Shrinks
    BY <2>4 DEF TypeOK, SetCall, Present
  <2>5. ASSUME NEW p \in Procs, SetLock(p)
        PROVE  Shrinks
    <3>1. local[p].key \in Keys
      BY <2>5 DEF TypeOK, SetLock
    <3> QED
      BY <2>5, <3>1, HeldSizeIsNat DEF TypeOK, SetLock, ReplacedDebit, Present
  <2>6. ASSUME NEW p \in Procs, NEW k \in Keys, SetEvict(p, k)
        PROVE  Shrinks
    BY <2>6, HeldSizeIsNat DEF TypeOK, SetEvict, RemoveItem, Present
  <2>7. ASSUME NEW p \in Procs, SetStore(p)
        PROVE  sizeBytes' <= MaxSize \/ \A j, k \in Present' : j = k
    <3>1. local[p].key \in Keys /\ local[p].entry.size \in Nat
      BY <2>7 DEF TypeOK, SetStore, Entry
    <3>2. CASE Present = {}
      BY <2>7, <3>2 DEF TypeOK, SetStore, Present
    <3>3. CASE sizeBytes + local[p].entry.size <= MaxSize
      BY <2>7, <3>1, <3>3 DEF TypeOK, SetStore
    <3> QED
      BY <2>7, <3>1, <3>2, <3>3 DEF TypeOK, SetStore, MustEvict
  <2>8. ASSUME NEW p \in Procs, NEW old \in Keys, SetStoreFull(p, old)
        PROVE  sizeBytes' <= MaxSize \/ \A j, k \in Present' : j = k
    <3>1. local[p].key \in Keys /\ local[p].entry.size \in Nat
      BY <2>8 DEF TypeOK, SetStoreFull, Entry
    <3>2. old \in Present
      BY <2>8 DEF SetStoreFull, IsOldest
    <3>3. sizeBytes + local[p].entry.size <= MaxSize
      BY <2>8, <3>1, <3>2 DEF TypeOK, SetStoreFull, MustEvict
    <3> QED
      BY <2>8, <3>1, <3>3, HeldSizeIsNat DEF TypeOK, SetStoreFull
  <2>9. ASSUME NEW p \in Procs, NEW k \in Keys, Delete(p, k)
        PROVE  Shrinks
    BY <2>9, HeldSizeIsNat DEF TypeOK, Delete, RemoveItem, Present
  <2>10. ASSUME NEW p \in Procs, Clear(p)
         PROVE  \A j, k \in Present' : j = k
    BY <2>10 DEF Clear, Present
  <2>11. CASE Tick
    BY <2>0, <2>11 DEF TypeOK, Tick, Present
  <2>12. CASE UNCHANGED vars
    BY <2>0, <2>12 DEF TypeOK, vars, Present
  <2> QED
    BY <2>0, <2>1, <2>2, <2>3, <2>4, <2>5, <2>6, <2>7, <2>8, <2>9, <2>10, <2>11, <2>12
    DEF Next, Get, Set
<1> QED
  BY <1>1, <1>2, TypeCorrect, PTL DEF Spec

-----------------------------------------------------------------------------
\* An entry that a goroutine works on, or that the map holds.
AtHand(e) ==
    \/ \E p \in Procs : pc[p] # "idle" /\ local[p].entry = e
    \/ \E k \in Present : items[k] = e

\* Inductive: a version is the number of one Set, and so the name of one entry; and
\* what Get is about to remove was expired when it looked.
VersionsInv ==
    /\ \A d, e \in Entry : AtHand(d) /\ AtHand(e) /\ d.ver = e.ver => d = e
    /\ \A e \in Entry : AtHand(e) => e.ver <= writes
    /\ \A p \in Procs : pc[p] = "expired" => now > local[p].entry.exp

\* Helper: a step that brings no new entry and makes nobody examine one.
LEMMA VersionsKept ==
    ASSUME VersionsInv, TypeOK, TypeOK',
           writes' = writes, now' >= now,
           \A e \in Entry : AtHand(e)' => AtHand(e),
           \A p \in Procs : pc'[p] = "expired" => pc[p] = "expired" /\ local'[p] = local[p]
    PROVE  VersionsInv'
BY DEF VersionsInv, TypeOK, Entry

\* Helper: VersionsInv is an invariant.
LEMMA VersionsHold == Spec => []VersionsInv
<1>1. Init => VersionsInv
  BY DEF Init, VersionsInv, AtHand, Present
<1>2. TypeOK /\ TypeOK' /\ VersionsInv /\ [Next]_vars => VersionsInv'
  <2> SUFFICES ASSUME TypeOK, TypeOK', VersionsInv, [Next]_vars
               PROVE  VersionsInv'
    OBVIOUS
  <2> USE ParamsAssumption, NoEntryAssumption
  <2>1. ASSUME NEW p \in Procs, NEW k \in Keys, GetLookup(p, k)
        PROVE  VersionsInv'
    <3>1. \A e \in Entry : AtHand(e)' => AtHand(e)
      BY <2>1 DEF GetLookup, AtHand, Present, TypeOK
    <3> QED
      BY <2>1, <3>1, VersionsKept DEF GetLookup, TypeOK
  <2>2. ASSUME NEW p \in Procs, GetCheck(p)
        PROVE  VersionsInv'
    <3>1. \A e \in Entry : AtHand(e)' => AtHand(e)
      BY <2>2 DEF GetCheck, AtHand, Present, TypeOK
    <3> QED
      BY <2>2, <3>1 DEF GetCheck, IsExpired, TypeOK, VersionsInv
  <2>3. ASSUME NEW p \in Procs, GetExpire(p)
        PROVE  VersionsInv'
    <3>1. \A e \in Entry : AtHand(e)' => AtHand(e)
      BY <2>3 DEF GetExpire, RemoveItem, AtHand, Present, TypeOK
    <3> QED
      BY <2>3, <3>1, VersionsKept DEF GetExpire, TypeOK
  <2>4. ASSUME NEW p \in Procs, NEW k \in Keys, NEW size \in Sizes, NEW ttl \in TTLs,
               SetCall(p, k, size, ttl)
        PROVE  VersionsInv'
    <3> DEFINE new == [size |-> size, exp |-> now + ttl, ver |-> writes + 1]
    <3>1. new \in Entry /\ new.ver = writes + 1 /\ writes \in Nat
      BY DEF TypeOK, Entry
    <3>2. \A e \in Entry : AtHand(e)' => AtHand(e) \/ e = new
      BY <2>4 DEF SetCall, AtHand, Present, TypeOK
    <3>3. \A e \in Entry : e.ver \in Nat
      BY DEF Entry
    <3> HIDE DEF new
    <3>4. \A e \in Entry : AtHand(e)' => e.ver <= writes + 1
      BY <3>1, <3>2, <3>3 DEF VersionsInv
    <3>5. \A d, e \in Entry : AtHand(d)' /\ AtHand(e)' /\ d.ver = e.ver => d = e
      BY <3>1, <3>2, <3>3 DEF VersionsInv
    <3> QED
      BY <2>4, <3>4, <3>5 DEF SetCall, VersionsInv, TypeOK
  <2>5. ASSUME NEW p \in Procs, SetLock(p)
        PROVE  VersionsInv'
    <3>1. \A e \in Entry : AtHand(e)' => AtHand(e)
      BY <2>5 DEF SetLock, AtHand, Present, TypeOK
    <3> QED
      BY <2>5, <3>1, VersionsKept DEF SetLock, TypeOK
  <2>6. ASSUME NEW p \in Procs, NEW k \in Keys, SetEvict(p, k)
        PROVE  VersionsInv'
    <3>1. \A e \in Entry : AtHand(e)' => AtHand(e)
      BY <2>6 DEF SetEvict, RemoveItem, AtHand, Present, TypeOK
    <3> QED
      BY <2>6, <3>1, VersionsKept DEF SetEvict, TypeOK
  <2>7. ASSUME NEW p \in Procs, SetStore(p)
        PROVE  VersionsInv'
    <3>1. \A e \in Entry : AtHand(e)' => AtHand(e)
      BY <2>7 DEF SetStore, SetReturn, AtHand, Present, TypeOK
    <3> QED
      BY <2>7, <3>1, VersionsKept DEF SetStore, SetReturn, TypeOK
  <2>8. ASSUME NEW p \in Procs, NEW old \in Keys, SetStoreFull(p, old)
        PROVE  VersionsInv'
    <3>1. \A e \in Entry : AtHand(e)' => AtHand(e)
      BY <2>8 DEF SetStoreFull, SetReturn, AtHand, Present, TypeOK
    <3> QED
      BY <2>8, <3>1, VersionsKept DEF SetStoreFull, SetReturn, TypeOK
  <2>9. ASSUME NEW p \in Procs, NEW k \in Keys, Delete(p, k)
        PROVE  VersionsInv'
    <3>1. \A e \in Entry : AtHand(e)' => AtHand(e)
      BY <2>9 DEF Delete, RemoveItem, AtHand, Present, TypeOK
    <3> QED
      BY <2>9, <3>1, VersionsKept DEF Delete, TypeOK
  <2>10. ASSUME NEW p \in Procs, Clear(p)
         PROVE  VersionsInv'
    <3>1. \A e \in Entry : AtHand(e)' => AtHand(e)
      BY <2>10 DEF Clear, AtHand, Present, TypeOK
    <3> QED
      BY <2>10, <3>1, VersionsKept DEF Clear, TypeOK
  <2>11. CASE Tick
    <3>1. \A e \in Entry : AtHand(e)' => AtHand(e)
      BY <2>11 DEF Tick, AtHand, Present
    <3> QED
      BY <2>11, <3>1, VersionsKept DEF Tick, TypeOK
  <2>12. CASE UNCHANGED vars
    BY <2>12 DEF vars, VersionsInv, AtHand, Present
  <2> QED
    BY <2>1, <2>2, <2>3, <2>4, <2>5, <2>6, <2>7, <2>8, <2>9, <2>10, <2>11, <2>12
    DEF Next, Get, Set
<1> QED
  BY <1>1, <1>2, TypeCorrect, PTL DEF Spec

\* The race in Get of memory.go, between the read lock under which the entry was found and
\* the write lock under which it is removed, costs no entry but one that has replaced the
\* expired one under the same key.
THEOREM ExpiryIsExact == Spec => ExpiryDropsOnlyOverwritten
<1>1. TypeOK /\ VersionsInv /\ [Next]_vars =>
        [\A p \in Procs :
            (pc[p] = "expired" /\ pc'[p] = "idle")
                => \A k \in Keys :
                    (items[k] # NoEntry /\ items'[k] = NoEntry /\ now <= items[k].exp)
                        => k = local[p].key /\ items[k].ver # local[p].entry.ver]_vars
  <2> SUFFICES ASSUME TypeOK, VersionsInv, [Next]_vars,
                      NEW p \in Procs, pc[p] = "expired", pc'[p] = "idle",
                      NEW k \in Keys, items[k] # NoEntry, items'[k] = NoEntry,
                      now <= items[k].exp
               PROVE  k = local[p].key /\ items[k].ver # local[p].entry.ver
    OBVIOUS
  <2>1. GetExpire(p)
    BY DEF Next, Get, Set, GetLookup, GetCheck, GetExpire, SetCall, SetLock, SetEvict, SetStore,
           SetStoreFull, SetReturn, Delete, Clear, Tick, vars, TypeOK
  <2>2. /\ local[p] \in [key: Keys, entry: Entry] /\ items[k] \in Entry
        /\ local[p].entry \in Entry
    BY DEF TypeOK
  <2>3. k = local[p].key
    BY <2>1, <2>2 DEF GetExpire, RemoveItem, TypeOK
  <2>4. AtHand(items[k]) /\ AtHand(local[p].entry)
    BY DEF AtHand, Present
  <2>5. now > local[p].entry.exp
    BY DEF VersionsInv
  <2>6. items[k] # local[p].entry
    <3>1. local[p].entry.exp \in Nat /\ now \in Nat
      BY <2>2, ParamsAssumption DEF Entry, TypeOK
    <3> QED
      BY <2>5, <3>1
  <2> QED
    BY <2>2, <2>3, <2>4, <2>6 DEF VersionsInv
<1> QED
  BY <1>1, TypeCorrect, VersionsHold, PTL DEF Spec, ExpiryDropsOnlyOverwritten

-----------------------------------------------------------------------------
\* The list orders the keys totally, and no others.
Orders(list, keys) ==
    /\ \A r \in list : r[1] # r[2] /\ {r[1], r[2]} \subseteq keys
    /\ \A j, k \in keys : j # k => (<<j, k>> \in list) # (<<k, j>> \in list)
    /\ \A i, j, k \in keys :
        <<i, j>> \in list /\ <<j, k>> \in list => <<i, k>> \in list

\* Helper: a key that leaves the list leaves the others in their order.
LEMMA DropKeepsOrder ==
    ASSUME NEW keys, NEW list \in SUBSET (keys \X keys), NEW k, Orders(list, keys)
    PROVE  Orders({r \in list : k \notin {r[1], r[2]}}, keys \ {k})
<1> DEFINE dropped == {r \in list : k \notin {r[1], r[2]}}
<1>1. \A i, j : <<i, j>> \in dropped <=> <<i, j>> \in list /\ i # k /\ j # k
  OBVIOUS
<1>2. \A r \in dropped : r[1] # r[2] /\ {r[1], r[2]} \subseteq keys \ {k}
  BY DEF Orders
<1> HIDE DEF dropped
<1>3. ASSUME NEW i \in keys \ {k}, NEW j \in keys \ {k}, i # j
      PROVE  (<<i, j>> \in dropped) # (<<j, i>> \in dropped)
  <2>1. (<<i, j>> \in list) # (<<j, i>> \in list)
    BY <1>3 DEF Orders
  <2>2. /\ <<i, j>> \in dropped <=> <<i, j>> \in list
        /\ <<j, i>> \in dropped <=> <<j, i>> \in list
    BY <1>1
  <2> QED
    BY <2>1, <2>2
<1>4. \A h, i, j \in keys \ {k} :
        <<h, i>> \in dropped /\ <<i, j>> \in dropped => <<h, j>> \in dropped
  BY <1>1 DEF Orders
<1>5. Orders(dropped, keys \ {k})
  BY <1>2, <1>3, <1>4 DEF Orders
<1> QED
  BY <1>5 DEF dropped

\* Helper: a key that is moved, or pushed, to the front comes after all the others.
LEMMA PushKeepsOrder ==
    ASSUME NEW keys, NEW list \in SUBSET (keys \X keys), NEW k, Orders(list, keys)
    PROVE  Orders({r \in list : k \notin {r[1], r[2]}} \union {<<j, k>> : j \in keys \ {k}},
                  keys \union {k})
<1> DEFINE dropped == {r \in list : k \notin {r[1], r[2]}}
           pushed  == dropped \union {<<j, k>> : j \in keys \ {k}}
<1>1. \A i, j : <<i, j>> \in pushed <=> \/ <<i, j>> \in list /\ i # k /\ j # k
                                        \/ j = k /\ i \in keys \ {k}
  OBVIOUS
<1>2. \A r \in pushed : r[1] # r[2] /\ {r[1], r[2]} \subseteq keys \union {k}
  BY DEF Orders
<1> HIDE DEF pushed
<1>3. ASSUME NEW i \in keys \union {k}, NEW j \in keys \union {k}, i # j
      PROVE  (<<i, j>> \in pushed) # (<<j, i>> \in pushed)
  <2>1. CASE i # k /\ j # k
    <3>1. (<<i, j>> \in list) # (<<j, i>> \in list)
      BY <1>3, <2>1 DEF Orders
    <3>2. /\ <<i, j>> \in pushed <=> <<i, j>> \in list
          /\ <<j, i>> \in pushed <=> <<j, i>> \in list
      BY <1>1, <2>1
    <3> QED
      BY <3>1, <3>2
  <2>2. CASE i = k
    <3>1. <<i, j>> \notin pushed /\ <<j, i>> \in pushed
      BY <1>1, <1>3, <2>2
    <3> QED
      BY <3>1
  <2>3. CASE j = k
    <3>1. <<i, j>> \in pushed /\ <<j, i>> \notin pushed
      BY <1>1, <1>3, <2>3
    <3> QED
      BY <3>1
  <2> QED
    BY <2>1, <2>2, <2>3
<1>4. ASSUME NEW h \in keys \union {k}, NEW i \in keys \union {k}, NEW j \in keys \union {k},
             <<h, i>> \in pushed, <<i, j>> \in pushed
      PROVE  <<h, j>> \in pushed
  <2>1. i # k /\ h # k /\ <<h, i>> \in list
    BY <1>1, <1>4
  <2> QED
    BY <1>1, <1>4, <2>1 DEF Orders
<1>5. Orders(pushed, keys \union {k})
  BY <1>2, <1>3, <1>4 DEF Orders
<1> QED
  BY <1>5 DEF pushed

\* Helper: ListCoherent in terms of Orders.
LEMMA CoherentIsOrdered ==
    ListCoherent <=> Orders(recency, Present) /\ Cardinality(Present) <= MaxEntries
BY DEF ListCoherent, Orders

\* Helper: the keys present are finitely many, and fewer when some of them leave.
LEMMA FewerPresent ==
    ASSUME NEW keys \in SUBSET Present, Cardinality(Present) <= MaxEntries
    PROVE  Cardinality(keys) <= MaxEntries
<1>1. IsFiniteSet(Present)
  BY ParamsAssumption, FS_Subset DEF Present
<1>2. Cardinality(keys) <= Cardinality(Present) /\ Cardinality(keys) \in Nat
  BY <1>1, FS_Subset, FS_CardinalityType
<1> QED
  BY <1>1, <1>2, FS_CardinalityType, ParamsAssumption

\* Helper: a step that drops one key from the map and from the list, or none.
LEMMA RemovalKeepsList ==
    ASSUME TypeOK, ListCoherent, NEW k \in Keys,
           items' = [items EXCEPT ![k] = NoEntry], recency' = Forget(k)
    PROVE  ListCoherent'
<1>1. Orders(recency, Present) /\ Cardinality(Present) <= MaxEntries
  BY CoherentIsOrdered
<1>2. recency \in SUBSET (Present \X Present)
  BY <1>1 DEF TypeOK, Orders
<1>3. Present' = Present \ {k}
  BY DEF TypeOK, Present
<1>4. Orders(recency', Present')
  BY <1>1, <1>2, <1>3, DropKeepsOrder DEF Forget
<1>5. Cardinality(Present') <= MaxEntries
  BY <1>1, <1>3, FewerPresent
<1> QED
  BY <1>4, <1>5 DEF ListCoherent, Orders

\* Helper: a key moved or pushed to the front of the list.
LEMMA TouchKeepsOrder ==
    ASSUME TypeOK, ListCoherent, NEW k \in Keys
    PROVE  /\ Orders(Touch(k), Present \union {k})
           /\ Touch(k) \in SUBSET ((Present \union {k}) \X (Present \union {k}))
<1>1. Orders(recency, Present)
  BY CoherentIsOrdered
<1>2. recency \in SUBSET (Present \X Present)
  BY <1>1 DEF TypeOK, Orders
<1>3. Orders(Touch(k), Present \union {k})
  BY <1>1, <1>2, PushKeepsOrder DEF Touch, Forget
<1>4. Touch(k) \subseteq Keys \X Keys
  BY ListIsTyped
<1> QED
  BY <1>3, <1>4 DEF Orders

\* The map and the list of the LRU in memory.go stay in step, though reads move keys under
\* the read lock only and Set evicts one key at a time: whatever the mix of Gets, Sets,
\* Deletes and Clears, the list orders the keys held totally, and they are at most
\* MaxEntries.
THEOREM ListIsCoherent == Spec => []ListCoherent
<1>1. Init => ListCoherent
  <2> SUFFICES ASSUME Init
               PROVE  ListCoherent
    OBVIOUS
  <2>1. Present = {} /\ recency = {}
    BY DEF Init, Present
  <2>2. Cardinality(Present) = 0
    BY <2>1, FS_EmptySet
  <2> QED
    BY <2>1, <2>2, ParamsAssumption DEF ListCoherent
<1>2. TypeOK /\ ListCoherent /\ [Next]_vars => ListCoherent'
  <2> SUFFICES ASSUME TypeOK, ListCoherent, [Next]_vars
               PROVE  ListCoherent'
    OBVIOUS
  <2>0. ASSUME Present' = Present, recency' = recency
        PROVE  ListCoherent'
    BY <2>0 DEF ListCoherent
  <2>1. ASSUME NEW p \in Procs, NEW k \in Keys, GetLookup(p, k)
        PROVE  ListCoherent'
    <3>1. Present' = Present
      BY <2>1 DEF GetLookup, Present
    <3>2. CASE k \in Present
      <4>1. recency' = Touch(k) /\ Present \union {k} = Present
        BY <2>1, <3>2 DEF GetLookup
      <4>2. Orders(recency', Present')
        BY <3>1, <4>1, TouchKeepsOrder
      <4>3. Cardinality(Present') <= MaxEntries
        BY <3>1 DEF ListCoherent
      <4> QED
        BY <4>2, <4>3 DEF ListCoherent, Orders
    <3>3. CASE k \notin Present
      BY <2>0, <2>1, <3>1, <3>3 DEF GetLookup
    <3> QED
      BY <3>2, <3>3
  <2>2. ASSUME NEW p \in Procs, GetCheck(p)
        PROVE  ListCoherent'
    BY <2>0, <2>2 DEF GetCheck, Present
  <2>3. ASSUME NEW p \in Procs, GetExpire(p)
        PROVE  ListCoherent'
    <3>1. local[p].key \in Keys
      BY <2>3 DEF TypeOK, GetExpire
    <3> QED
      BY <2>3, <3>1, RemovalKeepsList DEF GetExpire, RemoveItem
  <2>4. ASSUME NEW p \in Procs, NEW k \in Keys, NEW size \in Sizes, NEW ttl \in TTLs,
               SetCall(p, k, size, ttl)
        PROVE  ListCoherent'
    BY <2>0, <2>4 DEF SetCall, Present
  <2>5. ASSUME NEW p \in Procs, SetLock(p)
        PROVE  ListCoherent'
    BY <2>0, <2>5 DEF SetLock, Present
  <2>6. ASSUME NEW p \in Procs, NEW k \in Keys, SetEvict(p, k)
        PROVE  ListCoherent'
    BY <2>6, RemovalKeepsList DEF SetEvict, RemoveItem
  <2>7. ASSUME NEW p \in Procs, SetStore(p)
        PROVE  ListCoherent'
    <3> DEFINE k == local[p].key
    <3>1. k \in Keys /\ local[p].entry # NoEntry
      BY <2>7, NoEntryAssumption DEF TypeOK, SetStore
    <3>2. Present' = Present \union {k}
      BY <2>7, <3>1 DEF TypeOK, SetStore, Present
    <3>3. recency' = Touch(k) /\ (k \in Present \/ Cardinality(Present) < MaxEntries)
      BY <2>7 DEF SetStore
    <3> HIDE DEF k
    <3>4. Orders(recency', Present')
      BY <3>1, <3>2, <3>3, TouchKeepsOrder
    <3>5. Cardinality(Present') <= MaxEntries
      <4>1. CASE k \in Present
        <5>1. Present' = Present
          BY <3>2, <4>1
        <5> QED
          BY <5>1 DEF ListCoherent
      <4>2. CASE k \notin Present
        <5>1. IsFiniteSet(Present)
          BY ParamsAssumption, FS_Subset DEF Present
        <5>2. Cardinality(Present') = Cardinality(Present) + 1 /\ Cardinality(Present) \in Nat
          BY <3>2, <4>2, <5>1, FS_AddElement, FS_CardinalityType
        <5> QED
          BY <3>3, <4>2, <5>2, ParamsAssumption
      <4> QED
        BY <4>1, <4>2
    <3> QED
      BY <3>4, <3>5 DEF ListCoherent, Orders
  <2>8. ASSUME NEW p \in Procs, NEW old \in Keys, SetStoreFull(p, old)
        PROVE  ListCoherent'
    <3> DEFINE k == local[p].key
    <3>1. k \in Keys /\ local[p].entry # NoEntry
      BY <2>8, NoEntryAssumption DEF TypeOK, SetStoreFull
    <3>2. k \notin Present /\ old \in Present
      BY <2>8 DEF SetStoreFull, IsOldest
    <3>3. Present' = (Present \union {k}) \ {old}
      BY <2>8, <3>1, <3>2 DEF TypeOK, SetStoreFull, Present
    <3>4. recency' = {r \in Touch(k) : old \notin {r[1], r[2]}}
      BY <2>8 DEF SetStoreFull
    <3> HIDE DEF k
    <3>5. Orders(recency', Present')
      BY <3>1, <3>3, <3>4, TouchKeepsOrder, DropKeepsOrder
    <3>6. Cardinality(Present') <= MaxEntries
      <4>1. IsFiniteSet(Present) /\ IsFiniteSet(Present \ {old})
        BY ParamsAssumption, FS_Subset DEF Present
      <4>2. Present' = (Present \ {old}) \union {k} /\ k \notin Present \ {old}
        BY <3>2, <3>3
      <4>3. Cardinality(Present') = Cardinality(Present \ {old}) + 1
        BY <4>1, <4>2, FS_AddElement
      <4>4. Cardinality(Present \ {old}) = Cardinality(Present) - 1
        BY <3>2, <4>1, FS_RemoveElement
      <4>5. Cardinality(Present) \in Nat /\ Cardinality(Present) <= MaxEntries
        BY <4>1, FS_CardinalityType DEF ListCoherent
      <4> QED
        BY <4>3, <4>4, <4>5
    <3> QED
      BY <3>5, <3>6 DEF ListCoherent, Orders
  <2>9. ASSUME NEW p \in Procs, NEW k \in Keys, Delete(p, k)
        PROVE  ListCoherent'
    BY <2>9, RemovalKeepsList DEF Delete, RemoveItem
  <2>10. ASSUME NEW p \in Procs, Clear(p)
         PROVE  ListCoherent'
    <3>1. Present' = {} /\ recency' = {}
      BY <2>10 DEF Clear, Present
    <3>2. Cardinality(Present') = 0
      BY <3>1, FS_EmptySet
    <3> QED
      BY <3>1, <3>2, ParamsAssumption DEF ListCoherent
  <2>11. CASE Tick
    BY <2>0, <2>11 DEF Tick, Present
  <2>12. CASE UNCHANGED vars
    BY <2>0, <2>12 DEF vars, Present
  <2> QED
    BY <2>1, <2>2, <2>3, <2>4, <2>5, <2>6, <2>7, <2>8, <2>9, <2>10, <2>11, <2>12
    DEF Next, Get, Set
<1> QED
  BY <1>1, <1>2, TypeCorrect, PTL DEF Spec

-----------------------------------------------------------------------------
(* The byte ledger.  The sum over the keys is a fold, a recursive function on the sets of
   keys: what holds of it is shown by looking at a smallest set that is an exception. *)

\* Helper: a non-empty set of natural numbers has a least one.
LEMMA LeastNumber ==
    ASSUME NEW T \in SUBSET Nat, T # {}
    PROVE  \E m \in T : \A n \in T : m <= n
<1>1. PICK m \in T : \A n \in T : <<n, m>> \notin OpToRel(<, Nat)
  BY NatLessThanWellFounded, WFMin
<1>2. ASSUME NEW n \in T
      PROVE  m <= n
  <2>1. n \in Nat /\ m \in Nat
    BY <1>2
  <2>2. n < m => <<n, m>> \in OpToRel(<, Nat)
    BY <2>1, Zenon DEF OpToRel
  <2>3. ~(n < m)
    BY <1>1, <1>2, <2>2, Zenon
  <2> QED
    BY <2>1, <2>3
<1> QED
  BY <1>2

\* The key the fold takes first, and one unfolding of the fold.
First(s) == CHOOSE x \in s : TRUE
Unfold(h, g) == [s \in SUBSET Keys |->
                    IF s = {} THEN 0 ELSE h[First(s)] + g[s \ {First(s)}]]
Partial(h) == CHOOSE g : g = Unfold(h, g)

\* Helper: a non-empty set of keys without the key taken first is smaller.
LEMMA FirstLeaves ==
    ASSUME IsFiniteSet(Keys), NEW s \in SUBSET Keys, s # {}
    PROVE  /\ First(s) \in s
           /\ s \ {First(s)} \in SUBSET Keys
           /\ Cardinality(s) \in Nat
           /\ Cardinality(s \ {First(s)}) = Cardinality(s) - 1
           /\ Cardinality(s \ {First(s)}) \in Nat
<1>1. First(s) \in s
  BY DEF First
<1>2. IsFiniteSet(s)
  BY FS_Subset
<1>3. Cardinality(s \ {First(s)}) = Cardinality(s) - 1 /\ IsFiniteSet(s \ {First(s)})
  BY <1>1, <1>2, FS_RemoveElement
<1> QED
  BY <1>1, <1>2, <1>3, FS_CardinalityType

\* Helper: the fold has a value on every set of keys: the function that is right on
\* the sets of at most n keys extends to those of n + 1.
LEMMA FoldIsDefined ==
    ASSUME IsFiniteSet(Keys), NEW h \in [Keys -> Int]
    PROVE  Partial(h) = Unfold(h, Partial(h))
<1> DEFINE Good(n) == \E g \in [SUBSET Keys -> Int] :
                         \A s \in SUBSET Keys :
                             Cardinality(s) <= n => g[s] = Unfold(h, g)[s]
           Bad == {n \in Nat : ~Good(n)}
<1>1. Bad = {}
  <2> SUFFICES ASSUME Bad # {}
               PROVE  FALSE
    OBVIOUS
  <2>1. PICK m \in Bad : \A n \in Bad : m <= n
    BY LeastNumber
  <2>2. CASE m = 0
    <3> DEFINE g == [s \in SUBSET Keys |-> 0]
    <3>1. g \in [SUBSET Keys -> Int]
      OBVIOUS
    <3>2. ASSUME NEW s \in SUBSET Keys, Cardinality(s) <= 0
          PROVE  g[s] = Unfold(h, g)[s]
      <4>1. s = {}
        BY <3>2, FS_Subset, FS_CardinalityType, FS_EmptySet
      <4> QED
        BY <4>1 DEF Unfold
    <3>3. Good(0)
      BY <3>1, <3>2
    <3> QED
      BY <2>1, <2>2, <3>3
  <2>3. CASE m # 0
    <3>1. m - 1 \in Nat /\ Good(m - 1)
      <4>1. m \in Nat /\ m - 1 \in Nat /\ ~(m <= m - 1)
        BY <2>1, <2>3
      <4>2. m - 1 \notin Bad
        BY <2>1, <4>1
      <4> QED
        BY <4>1, <4>2
    <3>2. PICK g \in [SUBSET Keys -> Int] :
              \A s \in SUBSET Keys : Cardinality(s) <= m - 1 => g[s] = Unfold(h, g)[s]
      BY <3>1
    <3> DEFINE f == Unfold(h, g)
    <3>3. f \in [SUBSET Keys -> Int]
      <4>1. ASSUME NEW s \in SUBSET Keys
            PROVE  f[s] \in Int
        <5>1. CASE s = {}
          BY <5>1 DEF Unfold
        <5>2. CASE s # {}
          <6>1. f[s] = h[First(s)] + g[s \ {First(s)}]
            BY <5>2 DEF Unfold
          <6>2. h[First(s)] \in Int /\ g[s \ {First(s)}] \in Int
            BY <5>2, FirstLeaves
          <6> QED
            BY <6>1, <6>2
        <5> QED
          BY <5>1, <5>2
      <4> QED
        BY <4>1 DEF Unfold
    <3>4. ASSUME NEW s \in SUBSET Keys, Cardinality(s) <= m
          PROVE  f[s] = Unfold(h, f)[s]
      <4>1. CASE s = {}
        BY <4>1 DEF Unfold
      <4>2. CASE s # {}
        <5> DEFINE t == s \ {First(s)}
        <5>1. t \in SUBSET Keys /\ Cardinality(t) <= m - 1
          BY <3>1, <3>4, <4>2, FirstLeaves
        <5>2. f[t] = g[t]
          BY <3>2, <5>1
        <5>3. f[s] = h[First(s)] + g[t] /\ Unfold(h, f)[s] = h[First(s)] + f[t]
          BY <4>2 DEF Unfold
        <5> QED
          BY <5>2, <5>3
      <4> QED
        BY <4>1, <4>2
    <3>5. Good(m)
      BY <3>3, <3>4
    <3> QED
      BY <2>1, <3>5
  <2> QED
    BY <2>2, <2>3
<1>2. Cardinality(Keys) \in Nat
  BY FS_CardinalityType
<1>3. Good(Cardinality(Keys))
  BY <1>1, <1>2
<1>4. PICK g \in [SUBSET Keys -> Int] :
          \A s \in SUBSET Keys : Cardinality(s) <= Cardinality(Keys) => g[s] = Unfold(h, g)[s]
  BY <1>3
<1>5. \A s \in SUBSET Keys : g[s] = Unfold(h, g)[s]
  BY <1>4, FS_Subset
<1>6. g = Unfold(h, g)
  <2>1. DOMAIN Unfold(h, g) = SUBSET Keys
    BY DEF Unfold
  <2>2. Unfold(h, g) = [s \in SUBSET Keys |-> Unfold(h, g)[s]]
    BY DEF Unfold
  <2>3. g = [s \in SUBSET Keys |-> g[s]]
    OBVIOUS
  <2> QED
    BY <1>5, <2>2, <2>3
<1>7. \E e : e = Unfold(h, e)
  BY <1>6
<1> QED
  BY <1>7 DEF Partial

\* Helper: the sum, unfolded once.
LEMMA SumUnfolds ==
    ASSUME IsFiniteSet(Keys), NEW h \in [Keys -> Int]
    PROVE  /\ TotalSize(h) = Partial(h)[Keys]
           /\ \A s \in SUBSET Keys :
                 Partial(h)[s] = IF s = {} THEN 0
                                 ELSE h[First(s)] + Partial(h)[s \ {First(s)}]
<1>1. TotalSize(h) = Partial(h)[Keys]
  BY Zenon DEF TotalSize, MapThenSumSet, MapThenFoldSet, Partial, Unfold, First
<1>2. Partial(h) = Unfold(h, Partial(h))
  BY FoldIsDefined
<1>3. \A g : \A s \in SUBSET Keys :
          Unfold(h, g)[s] = IF s = {} THEN 0 ELSE h[First(s)] + g[s \ {First(s)}]
  BY DEF Unfold
<1> QED
  BY <1>1, <1>2, <1>3

\* A change of one length changes the sum of the lengths by the difference.
LEMMA SumChangesAtOne ==
    ASSUME IsFiniteSet(Keys), NEW h \in [Keys -> Int], NEW f \in [Keys -> Int],
           NEW k \in Keys, \A j \in Keys \ {k} : f[j] = h[j]
    PROVE  /\ TotalSize(h) \in Int
           /\ TotalSize(f) = TotalSize(h) - h[k] + f[k]
<1> DEFINE P(s) == /\ Partial(h)[s] \in Int
                   /\ Partial(f)[s] = Partial(h)[s] + IF k \in s THEN f[k] - h[k] ELSE 0
           Bad == {n \in Nat : \E s \in SUBSET Keys : Cardinality(s) = n /\ ~P(s)}
<1>1. Bad = {}
  <2> SUFFICES ASSUME Bad # {}
               PROVE  FALSE
    OBVIOUS
  <2>1. PICK m \in Bad : \A n \in Bad : m <= n
    BY LeastNumber
  <2>2. PICK s \in SUBSET Keys : Cardinality(s) = m /\ ~P(s)
    BY <2>1
  <2>3. CASE s = {}
    <3>1. Partial(h)[s] = 0 /\ Partial(f)[s] = 0
      BY <2>3, SumUnfolds
    <3>2. k \notin s
      BY <2>3
    <3> QED
      BY <2>2, <3>1, <3>2
  <2>4. CASE s # {}
    <3> DEFINE x == First(s)
               t == s \ {x}
    <3>1. x \in s /\ t \in SUBSET Keys /\ Cardinality(t) = m - 1 /\ Cardinality(t) \in Nat
      BY <2>2, <2>4, FirstLeaves
    <3>2. P(t)
      BY <2>1, <3>1
    <3>3. Partial(h)[s] = h[x] + Partial(h)[t] /\ Partial(f)[s] = f[x] + Partial(f)[t]
      BY <2>4, SumUnfolds
    <3> HIDE DEF x
    <3>4. h[x] \in Int /\ f[x] \in Int /\ (x # k => f[x] = h[x]) /\ h[k] \in Int /\ f[k] \in Int
      BY <3>1
    <3>5. P(s)
      <4>1. CASE x = k
        BY <3>1, <3>2, <3>3, <3>4, <4>1
      <4>2. CASE x # k
        BY <3>1, <3>2, <3>3, <3>4, <4>2
      <4> QED
        BY <4>1, <4>2
    <3> QED
      BY <2>2, <3>5
  <2> QED
    BY <2>3, <2>4
<1>2. P(Keys)
  BY <1>1, FS_CardinalityType
<1> QED
  BY <1>2, SumUnfolds

\* The sum of zeros is zero.
LEMMA SumOfNothing ==
    ASSUME IsFiniteSet(Keys), NEW h \in [Keys -> Int], \A k \in Keys : h[k] = 0
    PROVE  TotalSize(h) = 0
<1> DEFINE P(s) == Partial(h)[s] = 0
           Bad == {n \in Nat : \E s \in SUBSET Keys : Cardinality(s) = n /\ ~P(s)}
<1>1. Bad = {}
  <2> SUFFICES ASSUME Bad # {}
               PROVE  FALSE
    OBVIOUS
  <2>1. PICK m \in Bad : \A n \in Bad : m <= n
    BY LeastNumber
  <2>2. PICK s \in SUBSET Keys : Cardinality(s) = m /\ ~P(s)
    BY <2>1
  <2>3. CASE s = {}
    BY <2>2, <2>3, SumUnfolds
  <2>4. CASE s # {}
    <3> DEFINE t == s \ {First(s)}
    <3>1. First(s) \in s /\ t \in SUBSET Keys /\ Cardinality(t) = m - 1 /\ Cardinality(t) \in Nat
      BY <2>2, <2>4, FirstLeaves
    <3>2. P(t)
      BY <2>1, <3>1
    <3>3. Partial(h)[s] = h[First(s)] + Partial(h)[t]
      BY <2>4, SumUnfolds
    <3>4. P(s)
      BY <3>1, <3>2, <3>3
    <3> QED
      BY <2>2, <3>4
  <2> QED
    BY <2>3, <2>4
<1>2. P(Keys)
  BY <1>1, FS_CardinalityType
<1> QED
  BY <1>2, SumUnfolds

\* Helper: the lengths before and after a step are numbers.
LEMMA HeldIsTyped ==
    ASSUME TypeOK
    PROVE  Held \in [Keys -> Int] /\ \A k \in Keys : Held[k] = HeldSize(k)
BY HeldSizeIsNat DEF Held

\* Helper: ... and so they are after a step, and the sum is the sum of those.
LEMMA HeldStaysTyped ==
    ASSUME TypeOK'
    PROVE  Held' \in [Keys -> Int] /\ TotalSize(Held)' = TotalSize(Held')
<1>1. ASSUME NEW k \in Keys
      PROVE  HeldSize(k)' \in Int
  <2>1. items'[k] # NoEntry => items'[k].size \in Nat
    BY ParamsAssumption DEF TypeOK, Entry
  <2> QED
    BY <2>1 DEF HeldSize
<1>2. Held' \in [Keys -> Int]
  BY <1>1 DEF Held
<1>3. TotalSize(Held)' = TotalSize(Held')
  BY Zenon DEF TotalSize, MapThenSumSet, MapThenFoldSet
<1> QED
  BY <1>2, <1>3

\* Helper: the step that removes the entry of k credits the ledger with its length.
LEMMA RemovedFromSum ==
    ASSUME TypeOK, TypeOK', ResidentIsHeld, NEW k \in Keys,
           items' = [items EXCEPT ![k] = NoEntry], resident' = resident - HeldSize(k)
    PROVE  ResidentIsHeld'
<1>1. Held \in [Keys -> Int] /\ Held' \in [Keys -> Int] /\ Held[k] = HeldSize(k)
  BY HeldIsTyped, HeldStaysTyped
<1>2. Held'[k] = 0 /\ \A j \in Keys \ {k} : Held'[j] = Held[j]
  BY DEF Held, HeldSize, TypeOK
<1>3. TotalSize(Held') = TotalSize(Held) - Held[k] + Held'[k] /\ TotalSize(Held) \in Int
  BY <1>1, <1>2, SumChangesAtOne, ParamsAssumption
<1>4. TotalSize(Held)' = TotalSize(Held')
  BY HeldStaysTyped
<1> QED
  BY <1>1, <1>2, <1>3, <1>4, HeldSizeIsNat DEF ResidentIsHeld, TypeOK

\* The bytes that the size limit of memory.go is about are the lengths of the entries in
\* the map, all added up, whatever path they came and went by.
THEOREM LedgerFollowsMap == Spec => []ResidentIsHeld
<1>1. Init => ResidentIsHeld
  <2> SUFFICES ASSUME Init
               PROVE  ResidentIsHeld
    OBVIOUS
  <2>1. Held \in [Keys -> Int] /\ \A k \in Keys : Held[k] = 0
    BY DEF Init, Held, HeldSize
  <2> QED
    BY <2>1, SumOfNothing, ParamsAssumption DEF Init, ResidentIsHeld
<1>2. TypeOK /\ TypeOK' /\ ResidentIsHeld /\ [Next]_vars => ResidentIsHeld'
  <2> SUFFICES ASSUME TypeOK, TypeOK', ResidentIsHeld, [Next]_vars
               PROVE  ResidentIsHeld'
    OBVIOUS
  <2> USE ParamsAssumption
  <2>0. ASSUME UNCHANGED <<items, resident>>
        PROVE  ResidentIsHeld'
    <3>1. Held' = Held
      BY <2>0 DEF Held, HeldSize
    <3>2. TotalSize(Held)' = TotalSize(Held')
      BY HeldStaysTyped
    <3> QED
      BY <2>0, <3>1, <3>2 DEF ResidentIsHeld
  <2>1. ASSUME NEW p \in Procs, NEW k \in Keys, GetLookup(p, k)
        PROVE  ResidentIsHeld'
    BY <2>0, <2>1 DEF GetLookup
  <2>2. ASSUME NEW p \in Procs, GetCheck(p)
        PROVE  ResidentIsHeld'
    BY <2>0, <2>2 DEF GetCheck
  <2>3. ASSUME NEW p \in Procs, GetExpire(p)
        PROVE  ResidentIsHeld'
    <3>1. local[p].key \in Keys
      BY <2>3 DEF TypeOK, GetExpire
    <3> QED
      BY <2>3, <3>1, RemovedFromSum DEF GetExpire, RemoveItem
  <2>4. ASSUME NEW p \in Procs, NEW k \in Keys, NEW size \in Sizes, NEW ttl \in TTLs,
               SetCall(p, k, size, ttl)
        PROVE  ResidentIsHeld'
    BY <2>0, <2>4 DEF SetCall
  <2>5. ASSUME NEW p \in Procs, SetLock(p)
        PROVE  ResidentIsHeld'
    BY <2>0, <2>5 DEF SetLock
  <2>6. ASSUME NEW p \in Procs, NEW k \in Keys, SetEvict(p, k)
        PROVE  ResidentIsHeld'
    BY <2>6, RemovedFromSum DEF SetEvict, RemoveItem
  <2>7. ASSUME NEW p \in Procs, SetStore(p)
        PROVE  ResidentIsHeld'
    <3> DEFINE k == local[p].key
               e == local[p].entry
    <3>1. k \in Keys /\ e \in Entry /\ e.size \in Nat /\ e # NoEntry
      BY <2>7, NoEntryAssumption DEF TypeOK, SetStore, Entry
    <3>2. items' = [items EXCEPT ![k] = e] /\ resident' = resident - HeldSize(k) + e.size
      BY <2>7 DEF SetStore
    <3> HIDE DEF k, e
    <3>3. Held \in [Keys -> Int] /\ Held[k] = HeldSize(k)
      BY <3>1, HeldIsTyped
    <3>4. Held' \in [Keys -> Int]
      BY HeldStaysTyped
    <3>5. Held'[k] = e.size /\ \A j \in Keys \ {k} : Held'[j] = Held[j]
      BY <3>1, <3>2 DEF Held, HeldSize, TypeOK
    <3>6. TotalSize(Held') = TotalSize(Held) - Held[k] + Held'[k] /\ TotalSize(Held) \in Int
      BY <3>1, <3>3, <3>4, <3>5, SumChangesAtOne
    <3>7. TotalSize(Held)' = TotalSize(Held')
      BY HeldStaysTyped
    <3> QED
      BY <3>1, <3>2, <3>3, <3>5, <3>6, <3>7, HeldSizeIsNat DEF ResidentIsHeld, TypeOK
  <2>8. ASSUME NEW p \in Procs, NEW old \in Keys, SetStoreFull(p, old)
        PROVE  ResidentIsHeld'
    <3> DEFINE k == local[p].key
               e == local[p].entry
               dropped == [Held EXCEPT ![old] = 0]
    <3>1. k \in Keys /\ e \in Entry /\ e.size \in Nat /\ e # NoEntry /\ k # old
      BY <2>8, NoEntryAssumption DEF TypeOK, SetStoreFull, Entry, IsOldest
    <3>2. /\ items' = [items EXCEPT ![old] = NoEntry, ![k] = e]
          /\ resident' = resident - HeldSize(old) + e.size
          /\ items[k] = NoEntry
      BY <2>8, <3>1 DEF SetStoreFull, Present
    <3> HIDE DEF k, e
    <3>3. Held \in [Keys -> Int] /\ Held[old] = HeldSize(old) /\ Held[k] = 0
      BY <3>1, <3>2, HeldIsTyped DEF HeldSize
    <3>4. Held' \in [Keys -> Int]
      BY HeldStaysTyped
    <3>5. dropped \in [Keys -> Int] /\ dropped[old] = 0 /\ dropped[k] = 0
      BY <3>1, <3>3
    <3>6. \A j \in Keys \ {old} : dropped[j] = Held[j]
      BY <3>3
    <3>7. Held'[k] = e.size /\ Held'[old] = 0 /\ \A j \in Keys \ {k, old} : Held'[j] = Held[j]
      BY <3>1, <3>2 DEF Held, HeldSize, TypeOK
    <3>8. \A j \in Keys \ {k} : Held'[j] = dropped[j]
      BY <3>3, <3>5, <3>6, <3>7
    <3> HIDE DEF dropped
    <3>9. /\ TotalSize(dropped) = TotalSize(Held) - Held[old] + dropped[old]
          /\ TotalSize(Held) \in Int
      BY <3>3, <3>5, <3>6, SumChangesAtOne
    <3>10. TotalSize(Held') = TotalSize(dropped) - dropped[k] + Held'[k]
      BY <3>1, <3>4, <3>5, <3>8, SumChangesAtOne
    <3>11. TotalSize(Held)' = TotalSize(Held')
      BY HeldStaysTyped
    <3> QED
      BY <3>1, <3>2, <3>3, <3>5, <3>7, <3>9, <3>10, <3>11, HeldSizeIsNat
      DEF ResidentIsHeld, TypeOK
  <2>9. ASSUME NEW p \in Procs, NEW k \in Keys, Delete(p, k)
        PROVE  ResidentIsHeld'
    BY <2>9, RemovedFromSum DEF Delete, RemoveItem
  <2>10. ASSUME NEW p \in Procs, Clear(p)
         PROVE  ResidentIsHeld'
    <3>1. Held' \in [Keys -> Int] /\ \A k \in Keys : Held'[k] = 0
      BY <2>10 DEF Clear, Held, HeldSize
    <3>2. TotalSize(Held') = 0
      BY <3>1, SumOfNothing
    <3>3. TotalSize(Held)' = TotalSize(Held')
      BY HeldStaysTyped
    <3> QED
      BY <2>10, <3>2, <3>3 DEF Clear, ResidentIsHeld
  <2>11. CASE Tick
    BY <2>0, <2>11 DEF Tick
  <2>12. CASE UNCHANGED vars
    BY <2>0, <2>12 DEF vars
  <2> QED
    BY <2>1, <2>2, <2>3, <2>4, <2>5, <2>6, <2>7, <2>8, <2>9, <2>10, <2>11, <2>12
    DEF Next, Get, Set
<1> QED
  BY <1>1, <1>2, TypeCorrect, PTL DEF Spec
=============================================================================
