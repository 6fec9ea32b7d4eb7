------------------------ MODULE ResolverTablesProofs ------------------------
(* The tables of ResolverTables are right for every file.  The loops of the loader are *)
(* recursive functions here; what they compute is shown by the first place where it    *)
(* would be wrong.                                                                      *)
EXTENDS ResolverTables, FiniteSetTheorems, FunctionTheorems, WellFoundedInduction, TLAPS

-----------------------------------------------------------------------------
(* Sequences that keep their order *)

\* Helper: a non-empty set of natural numbers has a least one.
LEMMA LeastPlace ==
    ASSUME NEW T \in SUBSET Nat, T # {}
    PROVE  \E m \in T : \A n \in T : m <= n
<1>1. PICK m \in T : \A n \in T : <<n, m>> \notin OpToRel(<, Nat)
  BY NatLessThanWellFounded, WFMin
<1>2. ASSUME NEW n \in T
      PROVE  m <= n
  <2>1. n \in Nat /\ m \in Nat
    BY <1>2
  <2>2. n < m => <<n, m>> \in OpToRel(<, Nat)
    BY <2>1, Zenon DEF OpToRel
  <2>3. ~(n < m)
    BY <1>1, <1>2, <2>2, Zenon
  <2> QED
    BY <2>1, <2>3
<1> QED
  BY <1>2

\* Helper: and one below a bound has a greatest one.
LEMMA LastPlace ==
    ASSUME NEW n \in Nat, NEW T \in SUBSET (1..n), T # {}
    PROVE  Max(T) \in T /\ \A m \in T : m <= Max(T)
<1> DEFINE R == {n - m : m \in T}
<1>1. R \in SUBSET Nat /\ R # {}
  <2>1. \A m \in T : m \in 1..n /\ n - m \in Nat
    OBVIOUS
  <2> QED
    BY <2>1
<1>2. PICK r \in R : \A i \in R : r <= i
  <2> HIDE DEF R
  <2> QED
    BY <1>1, LeastPlace
<1>3. PICK x \in T : r = n - x
  OBVIOUS
<1>4. \A m \in T : x >= m
  <2> SUFFICES ASSUME NEW m \in T
               PROVE  x >= m
    OBVIOUS
  <2>1. r <= n - m
    BY <1>2
  <2> QED
    BY <1>3, <2>1
<1>5. Max(T) \in T /\ \A m \in T : Max(T) >= m
  <2>1. \E y \in T : \A m \in T : y >= m
    BY <1>4
  <2> QED
    BY <2>1 DEF Max
<1> QED
  BY <1>5

\* Helper: what holds for no elements, and for one more whenever it does, holds for all.
LEMMA EveryPlace ==
    ASSUME NEW n \in Nat, NEW Right \in SUBSET (0..n), 0 \in Right,
           \A i \in 1..n : i - 1 \in Right => i \in Right
    PROVE  Right = 0..n
<1> SUFFICES ASSUME (0..n) \ Right # {}
             PROVE  FALSE
  OBVIOUS
<1>1. PICK m \in (0..n) \ Right : \A i \in (0..n) \ Right : m <= i
  <2>1. (0..n) \ Right \in SUBSET Nat
    OBVIOUS
  <2> QED
    BY <2>1, LeastPlace
<1>2. m # 0 /\ m \in 1..n /\ m - 1 \in 0..n
  BY <1>1
<1>3. m - 1 \in Right
  BY <1>1, <1>2
<1> QED
  BY <1>1, <1>2, <1>3

\* One place of Only, given f for the place before it; and the function of all places.
OneKept(seq, S, f, i) ==
    IF i = 0 THEN <<>> ELSE IF seq[i] \in S THEN Append(f[i - 1], seq[i]) ELSE f[i - 1]

KeptOnce(seq, S, f) == [i \in 0..Len(seq) |-> OneKept(seq, S, f, i)]
KeptUpto(seq, S) == CHOOSE f : f = KeptOnce(seq, S, f)

\* Helper: it has a value.
LEMMA KeptIsDefined ==
    ASSUME NEW T, NEW seq \in Seq(T), NEW S
    PROVE  /\ KeptUpto(seq, S) = KeptOnce(seq, S, KeptUpto(seq, S))
           /\ Only(seq, S) = KeptUpto(seq, S)[Len(seq)]
<1> DEFINE n == Len(seq)
           Right == {m \in 0..n : \E g : \A i \in 0..m : g[i] = OneKept(seq, S, g, i)}
<1>0. n \in Nat
  OBVIOUS
<1>1. 0 \in Right
  <2> DEFINE g == [i \in {0} |-> <<>>]
  <2>1. \A i \in 0..0 : g[i] = OneKept(seq, S, g, i)
    BY DEF OneKept
  <2> HIDE DEF g
  <2> QED
    BY <1>0, <2>1
<1>2. ASSUME NEW m \in 1..n, m - 1 \in Right
      PROVE  m \in Right
  <2>1. PICK g : \A i \in 0..m - 1 : g[i] = OneKept(seq, S, g, i)
    BY <1>2
  <2> DEFINE h == [i \in 0..m |-> OneKept(seq, S, g, i)]
  <2>2. \A i \in 0..m : h[i] = OneKept(seq, S, g, i)
    OBVIOUS
  <2> HIDE DEF h
  <2>3. ASSUME NEW i \in 0..m
        PROVE  h[i] = OneKept(seq, S, h, i)
    <3>1. CASE i = 0
      BY <2>2, <3>1 DEF OneKept
    <3>2. CASE i # 0
      <4>1. i - 1 \in 0..m /\ i - 1 \in 0..m - 1
        BY <3>2
      <4>2. h[i - 1] = g[i - 1]
        BY <2>1, <2>2, <4>1
      <4> QED
        BY <2>2, <4>2 DEF OneKept
    <3> QED
      BY <3>1, <3>2
  <2>4. m \in 0..n
    OBVIOUS
  <2> QED
    BY <2>3, <2>4
<1>3. Right \in SUBSET (0..n)
  OBVIOUS
<1> HIDE DEF Right
<1>4. Right = 0..n
  BY <1>0, <1>1, <1>2, <1>3, EveryPlace
<1>5. PICK g : \A i \in 0..n : g[i] = OneKept(seq, S, g, i)
  BY <1>0, <1>4 DEF Right
<1> DEFINE f == [i \in 0..n |-> g[i]]
<1>6. f = KeptOnce(seq, S, f)
  <2>1. ASSUME NEW i \in 0..n
        PROVE  g[i] = OneKept(seq, S, f, i)
    <3>1. CASE i = 0
      BY <1>5, <3>1 DEF OneKept
    <3>2. CASE i # 0
      <4>1. i - 1 \in 0..n
        BY <3>2
      <4>2. f[i - 1] = g[i - 1]
        BY <4>1
      <4> HIDE DEF f
      <4> QED
        BY <1>5, <4>2 DEF OneKept
    <3> QED
      BY <3>1, <3>2
  <2> QED
    BY <2>1 DEF KeptOnce
<1>7. KeptUpto(seq, S) = KeptOnce(seq, S, KeptUpto(seq, S))
  <2> HIDE DEF f
  <2>1. \E h : h = KeptOnce(seq, S, h)
    BY <1>6
  <2> QED
    BY <2>1, Zenon DEF KeptUpto
<1>8. Only(seq, S) = KeptUpto(seq, S)[Len(seq)]
  BY Zenon DEF Only, KeptUpto, KeptOnce, OneKept
<1> QED
  BY <1>7, <1>8

\* r has the members of seq that are in S, in their order: o says where each comes from.
KeepsOrder(seq, S, r, n, o) ==
    /\ o \in [1..Len(r) -> 1..n]
    /\ \A p, q \in 1..Len(r) : p < q => o[p] < o[q]
    /\ \A p \in 1..Len(r) : r[p] = seq[o[p]] /\ r[p] \in S
    /\ \A i \in 1..n : seq[i] \in S => \E p \in 1..Len(r) : o[p] = i

\* What the loops that skip keep is what they do not skip, in its order.
LEMMA OnlyKeeps ==
    ASSUME NEW T, NEW seq \in Seq(T), NEW S
    PROVE  /\ Only(seq, S) \in Seq(T \intersect S)
           /\ \E o : KeepsOrder(seq, S, Only(seq, S), Len(seq), o)
<1> DEFINE n == Len(seq)
           f == KeptUpto(seq, S)
           Right == {i \in 0..n : /\ f[i] \in Seq(T \intersect S)
                                  /\ \E o : KeepsOrder(seq, S, f[i], i, o)}
<1>0. n \in Nat
  OBVIOUS
<1>1. \A i \in 0..n : f[i] = OneKept(seq, S, f, i)
  <2>1. \A g : \A i \in 0..n : KeptOnce(seq, S, g)[i] = OneKept(seq, S, g, i)
    BY DEF KeptOnce
  <2> QED
    BY <2>1, KeptIsDefined
<1> HIDE DEF f
<1>2. 0 \in Right
  <2>1. f[0] = <<>>
    BY <1>0, <1>1 DEF OneKept
  <2> DEFINE o == [p \in {} |-> 0]
  <2>2. o \in [1..Len(<<>>) -> 1..0]
    OBVIOUS
  <2> HIDE DEF o
  <2>3. KeepsOrder(seq, S, <<>>, 0, o)
    BY <2>2 DEF KeepsOrder
  <2>4. f[0] \in Seq(T \intersect S) /\ KeepsOrder(seq, S, f[0], 0, o) /\ 0 \in 0..n
    BY <1>0, <2>1, <2>3
  <2> QED
    BY <2>4
<1>3. ASSUME NEW i \in 1..n, i - 1 \in Right
      PROVE  i \in Right
  <2>1. f[i - 1] \in Seq(T \intersect S)
    BY <1>3
  <2>2. PICK o : KeepsOrder(seq, S, f[i - 1], i - 1, o)
    BY <1>3
  <2> DEFINE r == f[i - 1]
             L == Len(r)
  <2>3. L \in Nat /\ i \in 0..n /\ i # 0 /\ i - 1 \in 0..n
    BY <2>1
  <2>4. /\ o \in [1..L -> 1..i - 1]
        /\ \A p, q \in 1..L : p < q => o[p] < o[q]
        /\ \A p \in 1..L : r[p] = seq[o[p]] /\ r[p] \in S
        /\ \A j \in 1..i - 1 : seq[j] \in S => \E p \in 1..L : o[p] = j
    BY <2>2 DEF KeepsOrder
  <2>5. CASE seq[i] \in S
    <3> DEFINE s == Append(r, seq[i])
               u == [p \in 1..L + 1 |-> IF p = L + 1 THEN i ELSE o[p]]
    <3>1. f[i] = s
      BY <1>1, <2>3, <2>5 DEF OneKept
    <3>2. seq[i] \in T \intersect S
      BY <2>5
    <3>3. /\ s \in Seq(T \intersect S) /\ Len(s) = L + 1 /\ s[L + 1] = seq[i]
          /\ \A p \in 1..L : s[p] = r[p]
      BY <2>1, <3>2
    <3>4. /\ u[L + 1] = i
          /\ \A p \in 1..L : u[p] = o[p] /\ o[p] \in 1..i - 1 /\ o[p] < i /\ p < L + 1
          /\ \A p \in 1..L + 1 : p \in 1..L \/ p = L + 1
      <4>1. u[L + 1] = i
        BY <2>3
      <4>2. ASSUME NEW p \in 1..L
            PROVE  u[p] = o[p] /\ o[p] \in 1..i - 1 /\ o[p] < i /\ p < L + 1
        <5>1. p \in 1..L + 1 /\ p # L + 1 /\ p < L + 1
          BY <2>3
        <5>2. o[p] \in 1..i - 1
          BY <2>4
        <5> HIDE DEF L
        <5> QED
          BY <2>3, <5>1, <5>2
      <4>3. \A p \in 1..L + 1 : p \in 1..L \/ p = L + 1
        BY <2>3
      <4> HIDE DEF u
      <4> QED
        BY <4>1, <4>2, <4>3
    <3>5. u \in [1..L + 1 -> 1..i]
      BY <2>3, <2>4
    <3> HIDE DEF s, u, r, L
    <3>6. \A p, q \in 1..L + 1 : p < q => u[p] < u[q]
      <4> SUFFICES ASSUME NEW p \in 1..L + 1, NEW q \in 1..L + 1, p < q
                   PROVE  u[p] < u[q]
        OBVIOUS
      <4>1. p \in 1..L
        BY <2>3
      <4>2. CASE q \in 1..L
        BY <2>4, <3>4, <4>1, <4>2
      <4>3. CASE q = L + 1
        BY <3>4, <4>1, <4>3
      <4> QED
        BY <3>4, <4>2, <4>3
    <3>7. \A p \in 1..L + 1 : s[p] = seq[u[p]] /\ s[p] \in S
      BY <2>4, <2>5, <3>3, <3>4
    <3>8. \A j \in 1..i : seq[j] \in S => \E p \in 1..L + 1 : u[p] = j
      <4> SUFFICES ASSUME NEW j \in 1..i, seq[j] \in S
                   PROVE  \E p \in 1..L + 1 : u[p] = j
        OBVIOUS
      <4>1. CASE j = i
        BY <2>3, <3>4, <4>1
      <4>2. CASE j # i
        <5>1. PICK p \in 1..L : o[p] = j
          BY <2>4, <4>2
        <5> QED
          BY <2>3, <3>4, <5>1
      <4> QED
        BY <4>1, <4>2
    <3>9. KeepsOrder(seq, S, s, i, u)
      BY <3>3, <3>5, <3>6, <3>7, <3>8 DEF KeepsOrder
    <3> QED
      BY <2>3, <3>1, <3>3, <3>9
  <2>6. CASE seq[i] \notin S
    <3>1. f[i] = r
      BY <1>1, <2>3, <2>6 DEF OneKept
    <3>2. o \in [1..L -> 1..i]
      BY <2>4
    <3>3. \A j \in 1..i : seq[j] \in S => \E p \in 1..L : o[p] = j
      BY <2>4, <2>6
    <3>4. KeepsOrder(seq, S, r, i, o)
      BY <2>4, <3>2, <3>3 DEF KeepsOrder
    <3> QED
      BY <2>1, <2>3, <3>1, <3>4
  <2> QED
    BY <2>5, <2>6
<1>4. Right \in SUBSET (0..n)
  OBVIOUS
<1> HIDE DEF Right
<1>5. Right = 0..n
  BY <1>0, <1>2, <1>3, <1>4, EveryPlace
<1>6. n \in Right
  BY <1>0, <1>5
<1>7. Only(seq, S) = f[n]
  BY KeptIsDefined DEF f
<1> QED
  BY <1>6, <1>7 DEF Right

\* One place of FlattenSeq, and all of them.
OneJoined(s, f, i) == IF i = 1 THEN s[i] ELSE f[i - 1] \o s[i]
JoinedOnce(s, f) == [i \in 1..Len(s) |-> OneJoined(s, f, i)]
Joined(s) == CHOOSE f : f = JoinedOnce(s, f)

\* Helper: it has a value.
LEMMA JoinedIsDefined ==
    ASSUME NEW T, NEW s \in Seq(Seq(T)), Len(s) # 0
    PROVE  /\ Joined(s) = JoinedOnce(s, Joined(s))
           /\ FlattenSeq(s) = Joined(s)[Len(s)]
<1> DEFINE n == Len(s)
           Right == {m \in 0..n : \E g : \A i \in 1..m : g[i] = OneJoined(s, g, i)}
<1>0. n \in Nat /\ 0 \in 0..n
  OBVIOUS
<1>1. 0 \in Right
  <2> DEFINE g == [i \in {} |-> <<>>]
  <2>1. \A i \in 1..0 : g[i] = OneJoined(s, g, i)
    OBVIOUS
  <2> HIDE DEF g
  <2> QED
    BY <1>0, <2>1
<1>2. ASSUME NEW m \in 1..n, m - 1 \in Right
      PROVE  m \in Right
  <2>1. PICK g : \A i \in 1..m - 1 : g[i] = OneJoined(s, g, i)
    BY <1>2
  <2> DEFINE h == [i \in 1..m |-> OneJoined(s, g, i)]
  <2>2. \A i \in 1..m : h[i] = OneJoined(s, g, i)
    OBVIOUS
  <2> HIDE DEF h
  <2>3. ASSUME NEW i \in 1..m
        PROVE  h[i] = OneJoined(s, h, i)
    <3>1. CASE i = 1
      BY <2>2, <3>1 DEF OneJoined
    <3>2. CASE i # 1
      <4>1. i - 1 \in 1..m /\ i - 1 \in 1..m - 1
        BY <3>2
      <4>2. h[i - 1] = g[i - 1]
        BY <2>1, <2>2, <4>1
      <4> QED
        BY <2>2, <4>2 DEF OneJoined
    <3> QED
      BY <3>1, <3>2
  <2>4. m \in 0..n
    OBVIOUS
  <2> QED
    BY <2>3, <2>4
<1>3. Right \in SUBSET (0..n)
  OBVIOUS
<1> HIDE DEF Right
<1>4. Right = 0..n
  BY <1>0, <1>1, <1>2, <1>3, EveryPlace
<1>5. PICK g : \A i \in 1..n : g[i] = OneJoined(s, g, i)
  <2>1. n \in Right
    BY <1>0, <1>4
  <2> HIDE DEF n
  <2> QED
    BY <2>1 DEF Right
<1> DEFINE f == [i \in 1..n |-> g[i]]
<1>6. f = JoinedOnce(s, f)
  <2>1. ASSUME NEW i \in 1..n
        PROVE  g[i] = OneJoined(s, f, i)
    <3>1. CASE i = 1
      BY <1>5, <3>1 DEF OneJoined
    <3>2. CASE i # 1
      <4>1. i - 1 \in 1..n
        BY <3>2
      <4>2. f[i - 1] = g[i - 1]
        BY <4>1
      <4> HIDE DEF f
      <4> QED
        BY <1>5, <4>2 DEF OneJoined
    <3> QED
      BY <3>1, <3>2
  <2> QED
    BY <2>1 DEF JoinedOnce
<1>7. Joined(s) = JoinedOnce(s, Joined(s))
  <2> HIDE DEF f
  <2>1. \E h : h = JoinedOnce(s, h)
    BY <1>6
  <2> QED
    BY <2>1, Zenon DEF Joined
<1>8. FlattenSeq(s) = Joined(s)[Len(s)]
  BY Zenon DEF FlattenSeq, Joined, JoinedOnce, OneJoined
<1> QED
  BY <1>7, <1>8

\* r has the members of the first n of the sequences s, in their order.
JoinsOrder(s, r, n, o) ==
    /\ o \in [1..Len(r) -> 1..n]
    /\ \A p, q \in 1..Len(r) : p < q => o[p] <= o[q]
    /\ \A p \in 1..Len(r) : \E j \in 1..Len(s[o[p]]) : r[p] = s[o[p]][j]
    /\ \A i \in 1..n : \A j \in 1..Len(s[i]) :
           \E p \in 1..Len(r) : o[p] = i /\ r[p] = s[i][j]

\* Helper: the next sequence is appended.
LEMMA JoinsNext ==
    ASSUME NEW T, NEW s, NEW i \in Nat \ {0}, s[i] \in Seq(T), NEW r \in Seq(T),
           NEW o, JoinsOrder(s, r, i - 1, o)
    PROVE  \E u : JoinsOrder(s, r \o s[i], i, u)
<1> DEFINE t == s[i]
           L == Len(r)
           M == Len(t)
           w == r \o t
           u == [p \in 1..L + M |-> IF p <= L THEN o[p] ELSE i]
<1>1. L \in Nat /\ M \in Nat /\ Len(w) = L + M
  OBVIOUS
<1>2. /\ o \in [1..L -> 1..i - 1]
      /\ \A p, q \in 1..L : p < q => o[p] <= o[q]
      /\ \A p \in 1..L : \E j \in 1..Len(s[o[p]]) : r[p] = s[o[p]][j]
      /\ \A k \in 1..i - 1 : \A j \in 1..Len(s[k]) :
             \E p \in 1..L : o[p] = k /\ r[p] = s[k][j]
  BY DEF JoinsOrder
<1>3. /\ \A p \in 1..L : w[p] = r[p]
      /\ \A j \in 1..M : w[L + j] = t[j]
  OBVIOUS
<1>4. ASSUME NEW p \in 1..L
      PROVE  p \in 1..L + M /\ u[p] = o[p] /\ o[p] \in 1..i - 1 /\ o[p] < i /\ o[p] \in Nat
  <2>1. p \in 1..L + M /\ p <= L
    BY <1>1
  <2>2. o[p] \in 1..i - 1
    BY <1>2
  <2>3. u[p] = o[p]
    BY <2>1
  <2> HIDE DEF u, L
  <2> QED
    BY <2>1, <2>2, <2>3
<1>5. ASSUME NEW j \in 1..M
      PROVE  L + j \in 1..L + M /\ u[L + j] = i
  <2>1. L + j \in 1..L + M /\ ~(L + j <= L)
    BY <1>1
  <2> HIDE DEF L, M
  <2> QED
    BY <2>1
<1>6. ASSUME NEW p \in 1..L + M, p \notin 1..L
      PROVE  \E j \in 1..M : p = L + j
  <2>1. p - L \in 1..M /\ p = L + (p - L)
    BY <1>1, <1>6
  <2> QED
    BY <2>1
<1>7. u \in [1..L + M -> 1..i]
  <2>1. \A p \in 1..L + M : u[p] \in 1..i
    <3> HIDE DEF u, L, M, w, t
    <3> SUFFICES ASSUME NEW p \in 1..L + M
                 PROVE  u[p] \in 1..i
      OBVIOUS
    <3>1. CASE p \in 1..L
      BY <1>4, <3>1
    <3>2. CASE p \notin 1..L
      <4>1. PICK j \in 1..M : p = L + j
        BY <1>6, <3>2
      <4> QED
        BY <1>5, <4>1
    <3> QED
      BY <3>1, <3>2
  <2>2. DOMAIN u = 1..L + M /\ u = [p \in DOMAIN u |-> u[p]]
    OBVIOUS
  <2> HIDE DEF u
  <2> QED
    BY <2>1, <2>2
<1> HIDE DEF u, L, M, w, t
<1>8. ASSUME NEW p \in 1..L + M, NEW q \in 1..L + M, p < q
      PROVE  u[p] <= u[q]
  <2>1. CASE q \in 1..L
    <3>1. p \in 1..L
      BY <1>1, <1>8, <2>1
    <3> QED
      BY <1>2, <1>4, <1>8, <2>1, <3>1
  <2>2. CASE q \notin 1..L
    <3>1. u[q] = i
      BY <1>5, <1>6, <2>2
    <3>2. u[p] \in 1..i
      BY <1>7
    <3> QED
      BY <3>1, <3>2
  <2> QED
    BY <2>1, <2>2
<1>9. ASSUME NEW p \in 1..L + M
      PROVE  \E j \in 1..Len(s[u[p]]) : w[p] = s[u[p]][j]
  <2>1. CASE p \in 1..L
    <3>1. PICK j \in 1..Len(s[o[p]]) : r[p] = s[o[p]][j]
      BY <1>2, <2>1
    <3>2. u[p] = o[p] /\ w[p] = r[p]
      BY <1>3, <1>4, <2>1
    <3> QED
      BY <3>1, <3>2
  <2>2. CASE p \notin 1..L
    BY <1>3, <1>5, <1>6, <2>2 DEF t, M
  <2> QED
    BY <2>1, <2>2
<1>10. ASSUME NEW k \in 1..i, NEW j \in 1..Len(s[k])
       PROVE  \E p \in 1..L + M : u[p] = k /\ w[p] = s[k][j]
  <2>1. CASE k = i
    <3>1. j \in 1..M
      BY <2>1 DEF M, t
    <3>2. w[L + j] = s[k][j] /\ u[L + j] = k /\ L + j \in 1..L + M
      BY <1>3, <1>5, <2>1, <3>1 DEF t
    <3> QED
      BY <3>2
  <2>2. CASE k # i
    <3>1. k \in 1..i - 1
      BY <2>2
    <3>2. PICK p \in 1..L : o[p] = k /\ r[p] = s[k][j]
      BY <1>2, <3>1
    <3> QED
      BY <1>3, <1>4, <3>2
  <2> QED
    BY <2>1, <2>2
<1>11. JoinsOrder(s, w, i, u)
  BY <1>1, <1>7, <1>8, <1>9, <1>10 DEF JoinsOrder
<1> QED
  BY <1>11 DEF w, t

\* A sequence of sequences is flattened in its order.
LEMMA FlattenJoins ==
    ASSUME NEW T, NEW s \in Seq(Seq(T))
    PROVE  /\ FlattenSeq(s) \in Seq(T)
           /\ \E o : JoinsOrder(s, FlattenSeq(s), Len(s), o)
<1> DEFINE n == Len(s)
           f == Joined(s)
           before(i) == IF i = 0 THEN <<>> ELSE f[i]
           Right == {i \in 0..n : /\ before(i) \in Seq(T)
                                  /\ \E o : JoinsOrder(s, before(i), i, o)}
<1>0. n \in Nat /\ 0 \in 0..n
  OBVIOUS
<1>1. <<>> \in Seq(T) /\ \E o : JoinsOrder(s, <<>>, 0, o)
  <2> DEFINE o == [p \in {} |-> 0]
  <2>1. o \in [1..Len(<<>>) -> 1..0]
    OBVIOUS
  <2> HIDE DEF o
  <2>2. JoinsOrder(s, <<>>, 0, o)
    BY <2>1 DEF JoinsOrder
  <2> QED
    BY <2>2
<1>2. CASE n = 0
  <2>1. s = <<>> /\ FlattenSeq(s) = <<>>
    BY <1>2 DEF FlattenSeq
  <2> QED
    BY <1>1, <1>2, <2>1
<1>3. CASE n # 0
  <2>1. \A i \in 1..n : f[i] = OneJoined(s, f, i)
    <3>1. \A g : \A i \in 1..n : JoinedOnce(s, g)[i] = OneJoined(s, g, i)
      BY DEF JoinedOnce
    <3> QED
      BY <1>3, <3>1, JoinedIsDefined
  <2> HIDE DEF f
  <2>2. 0 \in Right
    BY <1>0, <1>1
  <2>3. ASSUME NEW i \in 1..n, i - 1 \in Right
        PROVE  i \in Right
    <3>1. s[i] \in Seq(T) /\ i \in Nat \ {0} /\ i \in 0..n
      OBVIOUS
    <3>2. before(i - 1) \in Seq(T) /\ \E o : JoinsOrder(s, before(i - 1), i - 1, o)
      BY <2>3
    <3>3. before(i) = before(i - 1) \o s[i]
      <4>1. CASE i = 1
        <5>1. <<>> \o s[i] = s[i]
          BY <3>1
        <5> QED
          BY <2>1, <4>1, <5>1 DEF OneJoined
      <4>2. CASE i # 1
        <5>1. i # 0 /\ i - 1 # 0
          BY <4>2
        <5> QED
          BY <2>1, <4>2, <5>1 DEF OneJoined
      <4> QED
        BY <4>1, <4>2
    <3> DEFINE r == before(i - 1)
    <3> HIDE DEF before
    <3>4. \E u : JoinsOrder(s, r \o s[i], i, u)
      BY <3>1, <3>2, JoinsNext
    <3>5. r \o s[i] \in Seq(T)
      BY <3>1, <3>2
    <3> QED
      BY <3>1, <3>3, <3>4, <3>5
  <2>4. Right \in SUBSET (0..n)
    OBVIOUS
  <2> HIDE DEF Right
  <2>5. n \in Right
    <3>1. Right = 0..n
      BY <1>0, <2>2, <2>3, <2>4, EveryPlace
    <3> QED
      BY <1>0, <3>1
  <2>6. before(n) = FlattenSeq(s)
    BY <1>3, JoinedIsDefined DEF f
  <2> HIDE DEF before
  <2> QED
    BY <2>5, <2>6 DEF Right
<1> QED
  BY <1>2, <1>3

-----------------------------------------------------------------------------
(* The pairs of a file *)

\* Helper: a sequence over a set is one over any larger set.
LEMMA WiderSequence ==
    ASSUME NEW A, NEW B, A \subseteq B, NEW s \in Seq(A)
    PROVE  s \in Seq(B)
<1>1. Len(s) \in Nat /\ s \in [1..Len(s) -> A]
  OBVIOUS
<1>2. s \in [1..Len(s) -> B]
  BY <1>1
<1> QED
  BY <1>1, <1>2

\* A proper member of a list is one that is not malformed.
LEMMA ProperKeeps ==
    ASSUME NEW T, NEW seq \in Seq(T)
    PROVE  /\ Proper(seq) \in Seq(T \ {Malformed})
           /\ \A p \in 1..Len(Proper(seq)) : Proper(seq)[p] \in ToSet(seq)
           /\ \A x \in ToSet(seq) \ {Malformed} : \E p \in 1..Len(Proper(seq)) : Proper(seq)[p] = x
           /\ Proper(seq) = <<>> <=> ToSet(seq) \in SUBSET {Malformed}
<1> DEFINE S == ToSet(seq) \ {Malformed}
           r == Proper(seq)
<1>1. r \in Seq(T \intersect S) /\ \E o : KeepsOrder(seq, S, r, Len(seq), o)
  BY OnlyKeeps DEF Proper
<1>2. PICK o : KeepsOrder(seq, S, r, Len(seq), o)
  BY <1>1
<1>3. r \in Seq(T \ {Malformed})
  <2>1. T \intersect S \subseteq T \ {Malformed}
    OBVIOUS
  <2> HIDE DEF S, r
  <2> QED
    BY <1>1, <2>1, WiderSequence
<1> HIDE DEF r
<1>4. \A p \in 1..Len(r) : r[p] \in S
  BY <1>2 DEF KeepsOrder
<1>5. ASSUME NEW x \in S
      PROVE  \E p \in 1..Len(r) : r[p] = x
  <2>1. PICK i \in 1..Len(seq) : seq[i] = x
    BY <1>5 DEF ToSet
  <2>2. seq[i] \in S
    BY <1>5, <2>1
  <2> HIDE DEF S
  <2>3. PICK p \in 1..Len(r) : o[p] = i
    BY <1>2, <2>1, <2>2 DEF KeepsOrder
  <2>4. r[p] = seq[o[p]]
    BY <1>2 DEF KeepsOrder
  <2> QED
    BY <2>1, <2>3, <2>4
<1>6. r = <<>> <=> S = {}
  <2>1. CASE S = {}
    <3>1. Len(r) \in Nat
      BY <1>1
    <3>2. Len(r) = 0
      BY <1>4, <2>1, <3>1
    <3> QED
      BY <1>1, <2>1, <3>2
  <2>2. CASE S # {}
    <3>1. PICK x \in S : TRUE
      BY <2>2
    <3>2. \E p \in 1..Len(r) : r[p] = x
      BY <1>5, <3>1
    <3> QED
      BY <2>2, <3>2
  <2> QED
    BY <2>1, <2>2
<1> QED
  BY <1>3, <1>4, <1>5, <1>6 DEF r

\* The service speaks for the key.
SpeaksFor(service, k) ==
    /\ service # Malformed
    /\ k \in ToSet(service.keys)
    /\ ToSet(service.urls) \notin SUBSET {Malformed}

PairsFor(K) == [key : K \ {Malformed}, urls : Seq(URLs)]

\* A service gives a pair for every key it speaks for.
LEMMA PairsOfService ==
    ASSUME NEW K,
           NEW service \in {Malformed} \union
               [keys : Seq(K \union {Malformed}), urls : Seq(URLs \union {Malformed})]
    PROVE  /\ PairsOf(service) \in Seq(PairsFor(K))
           /\ \A j \in 1..Len(PairsOf(service)) :
                  LET pair == PairsOf(service)[j]
                  IN SpeaksFor(service, pair.key) /\ pair.urls = Proper(service.urls)
           /\ \A k \in K \ {Malformed} : SpeaksFor(service, k) =>
                  \E j \in 1..Len(PairsOf(service)) : PairsOf(service)[j].key = k
<1>1. CASE service = Malformed
  <2>1. PairsOf(service) = <<>>
    BY <1>1 DEF PairsOf
  <2> QED
    BY <1>1, <2>1 DEF SpeaksFor
<1>2. CASE service # Malformed
  <2> DEFINE keys == Proper(service.keys)
             urls == Proper(service.urls)
  <2>1. service.keys \in Seq(K \union {Malformed}) /\ service.urls \in Seq(URLs \union {Malformed})
    BY <1>2
  <2>2. /\ keys \in Seq(K \ {Malformed})
        /\ \A p \in 1..Len(keys) : keys[p] \in ToSet(service.keys)
        /\ \A x \in ToSet(service.keys) \ {Malformed} : \E p \in 1..Len(keys) : keys[p] = x
    <3>1. (K \union {Malformed}) \ {Malformed} = K \ {Malformed}
      OBVIOUS
    <3> QED
      BY <2>1, <3>1, ProperKeeps
  <2>3. urls \in Seq(URLs) /\ (urls = <<>> <=> ToSet(service.urls) \in SUBSET {Malformed})
    <3>1. urls \in Seq((URLs \union {Malformed}) \ {Malformed})
      BY <2>1, ProperKeeps
    <3>2. (URLs \union {Malformed}) \ {Malformed} \subseteq URLs
      OBVIOUS
    <3>3. urls \in Seq(URLs)
      <4> HIDE DEF urls
      <4> QED
        BY <3>1, <3>2, WiderSequence
    <3> QED
      BY <2>1, <3>3, ProperKeeps
  <2>4. PairsOf(service) =
            IF urls = <<>> THEN <<>> ELSE [j \in DOMAIN keys |-> [key |-> keys[j], urls |-> urls]]
    BY <1>2 DEF PairsOf
  <2> DEFINE result == PairsOf(service)
  <2> HIDE DEF keys, urls
  <2>5. CASE urls = <<>>
    <3>1. PairsOf(service) = <<>>
      BY <2>4, <2>5
    <3>2. \A k : ~SpeaksFor(service, k)
      BY <2>3, <2>5 DEF SpeaksFor
    <3> QED
      BY <3>1, <3>2
  <2>6. CASE urls # <<>>
    <3>1. result = [j \in 1..Len(keys) |-> [key |-> keys[j], urls |-> urls]]
      BY <2>2, <2>4, <2>6
    <3>2. Len(keys) \in Nat /\ \A j \in 1..Len(keys) : keys[j] \in K \ {Malformed}
      BY <2>2
    <3>3. \A j \in 1..Len(keys) : [key |-> keys[j], urls |-> urls] \in PairsFor(K)
      BY <2>3, <3>2 DEF PairsFor
    <3> HIDE DEF result
    <3>4. result \in Seq(PairsFor(K)) /\ Len(result) = Len(keys)
      BY <3>1, <3>2, <3>3
    <3>5. \A j \in 1..Len(keys) : result[j].key = keys[j] /\ result[j].urls = urls
      BY <3>1
    <3>6. \A j \in 1..Len(result) :
              SpeaksFor(service, result[j].key) /\ result[j].urls = Proper(service.urls)
      BY <1>2, <2>2, <2>3, <2>6, <3>4, <3>5 DEF SpeaksFor, urls
    <3>7. ASSUME NEW k \in K \ {Malformed}, SpeaksFor(service, k)
          PROVE  \E j \in 1..Len(result) : result[j].key = k
      <4>1. k \in ToSet(service.keys) \ {Malformed}
        BY <3>7 DEF SpeaksFor
      <4>2. PICK p \in 1..Len(keys) : keys[p] = k
        BY <2>2, <4>1
      <4> QED
        BY <3>4, <3>5, <4>2
    <3> QED
      BY <3>4, <3>6, <3>7 DEF result
  <2> QED
    BY <2>5, <2>6
<1> QED
  BY <1>1, <1>2

\* The pairs are those of the file for the keys in K, in the order of its services: o says
\* which service gave each.
Comes(file, pairs, K, o) ==
    /\ o \in [1..Len(pairs) -> 1..Len(file)]
    /\ \A p, q \in 1..Len(pairs) : p < q => o[p] <= o[q]
    /\ \A p \in 1..Len(pairs) : /\ pairs[p].key \in K
                                /\ SpeaksFor(file[o[p]], pairs[p].key)
                                /\ pairs[p].urls = Proper(file[o[p]].urls)
    /\ \A i \in 1..Len(file) : \A k \in K : SpeaksFor(file[i], k) =>
           \E p \in 1..Len(pairs) : o[p] = i /\ pairs[p].key = k

\* The loader meets the pairs of a file in the order of its services.
LEMMA PairsCome ==
    ASSUME NEW K, NEW file \in FilesFor(K)
    PROVE  /\ Pairs(file) \in Seq(PairsFor(K))
           /\ \E o : Comes(file, Pairs(file), K \ {Malformed}, o)
<1> DEFINE Sv == {Malformed} \union
                 [keys : Seq(K \union {Malformed}), urls : Seq(URLs \union {Malformed})]
           s == [i \in DOMAIN file |-> PairsOf(file[i])]
           r == Pairs(file)
<1>1. file \in Seq(Sv)
  BY DEF FilesFor
<1> HIDE DEF Sv
<1>2. Len(file) \in Nat /\ DOMAIN file = 1..Len(file) /\ \A i \in 1..Len(file) : file[i] \in Sv
  BY <1>1
<1>3. \A i \in 1..Len(file) :
          /\ PairsOf(file[i]) \in Seq(PairsFor(K))
          /\ \A j \in 1..Len(PairsOf(file[i])) :
                 LET pair == PairsOf(file[i])[j]
                 IN SpeaksFor(file[i], pair.key) /\ pair.urls = Proper(file[i].urls)
          /\ \A k \in K \ {Malformed} : SpeaksFor(file[i], k) =>
                 \E j \in 1..Len(PairsOf(file[i])) : PairsOf(file[i])[j].key = k
  BY <1>2, PairsOfService DEF Sv
<1>4. s \in Seq(Seq(PairsFor(K))) /\ Len(s) = Len(file)
  BY <1>2, <1>3
<1>5. \A i \in 1..Len(file) : s[i] = PairsOf(file[i])
  BY <1>2
<1>6. r = FlattenSeq(s)
  BY DEF Pairs
<1> HIDE DEF s, r
<1>7. r \in Seq(PairsFor(K)) /\ \E o : JoinsOrder(s, r, Len(s), o)
  BY <1>4, <1>6, FlattenJoins
<1>8. PICK o : JoinsOrder(s, r, Len(s), o)
  BY <1>7
<1>9. o \in [1..Len(r) -> 1..Len(file)] /\ \A p, q \in 1..Len(r) : p < q => o[p] <= o[q]
  BY <1>4, <1>8 DEF JoinsOrder
<1>10. ASSUME NEW p \in 1..Len(r)
       PROVE  /\ r[p].key \in K \ {Malformed}
              /\ SpeaksFor(file[o[p]], r[p].key)
              /\ r[p].urls = Proper(file[o[p]].urls)
  <2>1. o[p] \in 1..Len(file)
    BY <1>9
  <2>2. PICK j \in 1..Len(s[o[p]]) : r[p] = s[o[p]][j]
    BY <1>8 DEF JoinsOrder
  <2>3. r[p] \in PairsFor(K)
    BY <1>7
  <2>4. r[p] = PairsOf(file[o[p]])[j] /\ j \in 1..Len(PairsOf(file[o[p]]))
    BY <1>5, <2>1, <2>2
  <2>5. SpeaksFor(file[o[p]], r[p].key) /\ r[p].urls = Proper(file[o[p]].urls)
    BY <1>3, <2>1, <2>4
  <2> QED
    BY <2>3, <2>5 DEF PairsFor
<1>11. ASSUME NEW i \in 1..Len(file), NEW k \in K \ {Malformed}, SpeaksFor(file[i], k)
       PROVE  \E p \in 1..Len(r) : o[p] = i /\ r[p].key = k
  <2>1. PICK j \in 1..Len(PairsOf(file[i])) : PairsOf(file[i])[j].key = k
    BY <1>3, <1>11
  <2>2. s[i] = PairsOf(file[i]) /\ i \in 1..Len(s)
    BY <1>4, <1>5
  <2>3. j \in 1..Len(s[i])
    BY <2>2
  <2>4. PICK p \in 1..Len(r) : o[p] = i /\ r[p] = s[i][j]
    BY <1>8, <2>2, <2>3 DEF JoinsOrder
  <2> QED
    BY <2>1, <2>2, <2>4
<1>12. Comes(file, r, K \ {Malformed}, o)
  BY <1>9, <1>10, <1>11 DEF Comes
<1> QED
  BY <1>7, <1>12 DEF r

\* Helper: skipping pairs by their keys leaves the others in their order.
LEMMA OnlyComes ==
    ASSUME NEW T, NEW K, NEW J, NEW file, NEW pairs \in Seq(T), NEW o,
           Len(file) \in Nat, Comes(file, pairs, K, o), NEW S,
           \A p \in 1..Len(pairs) : pairs[p] \in S <=> pairs[p].key \in J
    PROVE  /\ Only(pairs, S) \in Seq(T)
           /\ \E u : Comes(file, Only(pairs, S), K \intersect J, u)
<1> DEFINE r == Only(pairs, S)
<1>1. r \in Seq(T \intersect S) /\ \E v : KeepsOrder(pairs, S, r, Len(pairs), v)
  BY OnlyKeeps
<1> HIDE DEF r
<1>2. PICK v : KeepsOrder(pairs, S, r, Len(pairs), v)
  BY <1>1
<1>3. /\ v \in [1..Len(r) -> 1..Len(pairs)]
      /\ \A p, q \in 1..Len(r) : p < q => v[p] < v[q]
      /\ \A p \in 1..Len(r) : r[p] = pairs[v[p]] /\ r[p] \in S
      /\ \A i \in 1..Len(pairs) : pairs[i] \in S => \E p \in 1..Len(r) : v[p] = i
  BY <1>2 DEF KeepsOrder
<1>4. /\ o \in [1..Len(pairs) -> 1..Len(file)]
      /\ \A p, q \in 1..Len(pairs) : p < q => o[p] <= o[q]
      /\ \A p \in 1..Len(pairs) : /\ pairs[p].key \in K
                                  /\ SpeaksFor(file[o[p]], pairs[p].key)
                                  /\ pairs[p].urls = Proper(file[o[p]].urls)
      /\ \A i \in 1..Len(file) : \A k \in K : SpeaksFor(file[i], k) =>
             \E p \in 1..Len(pairs) : o[p] = i /\ pairs[p].key = k
  BY DEF Comes
<1> DEFINE u == [p \in 1..Len(r) |-> o[v[p]]]
<1>5. \A p \in 1..Len(r) : u[p] = o[v[p]]
  OBVIOUS
<1>6. u \in [1..Len(r) -> 1..Len(file)]
  BY <1>3, <1>4
<1> HIDE DEF u
<1>7. ASSUME NEW p \in 1..Len(r), NEW q \in 1..Len(r), p < q
      PROVE  u[p] <= u[q]
  <2>1. v[p] \in 1..Len(pairs) /\ v[q] \in 1..Len(pairs) /\ v[p] < v[q]
    BY <1>3, <1>7
  <2>2. o[v[p]] <= o[v[q]]
    BY <1>4, <2>1
  <2> QED
    BY <1>5, <2>2
<1>8. ASSUME NEW p \in 1..Len(r)
      PROVE  /\ r[p].key \in K \intersect J
             /\ SpeaksFor(file[u[p]], r[p].key)
             /\ r[p].urls = Proper(file[u[p]].urls)
  <2>1. v[p] \in 1..Len(pairs) /\ r[p] = pairs[v[p]] /\ pairs[v[p]] \in S /\ u[p] = o[v[p]]
    BY <1>3, <1>5
  <2> QED
    BY <1>4, <2>1
<1>9. ASSUME NEW i \in 1..Len(file), NEW k \in K \intersect J, SpeaksFor(file[i], k)
      PROVE  \E p \in 1..Len(r) : u[p] = i /\ r[p].key = k
  <2>1. PICK m \in 1..Len(pairs) : o[m] = i /\ pairs[m].key = k
    BY <1>4, <1>9
  <2>2. PICK p \in 1..Len(r) : v[p] = m
    BY <1>3, <1>9, <2>1
  <2> QED
    BY <1>3, <1>5, <2>1, <2>2
<1>10. Comes(file, r, K \intersect J, u)
  BY <1>6, <1>7, <1>8, <1>9 DEF Comes
<1>11. r \in Seq(T)
  <2>1. T \intersect S \subseteq T
    OBVIOUS
  <2> QED
    BY <1>1, <2>1, WiderSequence
<1> QED
  BY <1>10, <1>11 DEF r

\* The table has the keys of K that are spoken for, each with the URLs of the last service
\* that speaks for it.
LastSpeaks(file, K, table) ==
    /\ \A k : k \in DOMAIN table <=> k \in K /\ \E i \in 1..Len(file) : Speaks(file, i, k)
    /\ \A k \in DOMAIN table : \E i \in 1..Len(file) :
           /\ Speaks(file, i, k)
           /\ \A j \in 1..Len(file) : Speaks(file, j, k) => j <= i
           /\ table[k] = Proper(file[i].urls)

\* So does the table that is filled in the order in which the pairs come.
LEMMA TableSays ==
    ASSUME NEW K, NEW file, Len(file) \in Nat, NEW P, NEW pairs \in Seq(PairsFor(P)), NEW o,
           Comes(file, pairs, K, o)
    PROVE  /\ LastSpeaks(file, K, TableOf(pairs))
           /\ \A k \in DOMAIN TableOf(pairs) : TableOf(pairs)[k] \in Seq(URLs)
<1> DEFINE L == Len(pairs)
           at(k) == {p \in 1..L : pairs[p].key = k}
           t == TableOf(pairs)
<1>1. L \in Nat /\ DOMAIN pairs = 1..L
  OBVIOUS
<1>2. /\ o \in [1..L -> 1..Len(file)]
      /\ \A p, q \in 1..L : p < q => o[p] <= o[q]
      /\ \A p \in 1..L : /\ pairs[p].key \in K
                         /\ SpeaksFor(file[o[p]], pairs[p].key)
                         /\ pairs[p].urls = Proper(file[o[p]].urls)
      /\ \A i \in 1..Len(file) : \A k \in K : SpeaksFor(file[i], k) =>
             \E p \in 1..L : o[p] = i /\ pairs[p].key = k
  BY DEF Comes
<1>3. t = [k \in {pairs[p].key : p \in 1..L} |-> pairs[Max(at(k))].urls]
  BY <1>1 DEF TableOf
<1>4. ASSUME NEW k \in DOMAIN t
      PROVE  /\ Max(at(k)) \in 1..L /\ pairs[Max(at(k))].key = k
             /\ \A p \in 1..L : pairs[p].key = k => p <= Max(at(k))
             /\ t[k] = pairs[Max(at(k))].urls
  <2>1. PICK p \in 1..L : pairs[p].key = k
    BY <1>3, <1>4
  <2>2. at(k) \in SUBSET (1..L) /\ at(k) # {}
    BY <2>1
  <2>3. t[k] = pairs[Max(at(k))].urls
    BY <1>3, <1>4
  <2>4. Max(at(k)) \in at(k) /\ \A q \in at(k) : q <= Max(at(k))
    <3> HIDE DEF at, t
    <3> QED
      BY <1>1, <2>2, LastPlace
  <2> QED
    BY <2>3, <2>4
<1> HIDE DEF t, L, at
<1>5. ASSUME NEW k
      PROVE  k \in DOMAIN t <=> k \in K /\ \E i \in 1..Len(file) : SpeaksFor(file[i], k)
  <2>1. k \in DOMAIN t <=> \E p \in 1..L : pairs[p].key = k
    BY <1>3
  <2>2. ASSUME NEW p \in 1..L, pairs[p].key = k
        PROVE  k \in K /\ \E i \in 1..Len(file) : SpeaksFor(file[i], k)
    BY <1>2, <2>2
  <2>3. ASSUME k \in K, NEW i \in 1..Len(file), SpeaksFor(file[i], k)
        PROVE  \E p \in 1..L : pairs[p].key = k
    BY <1>2, <2>3
  <2> QED
    BY <2>1, <2>2, <2>3
<1>6. ASSUME NEW k \in DOMAIN t
      PROVE  \E i \in 1..Len(file) :
                 /\ SpeaksFor(file[i], k)
                 /\ \A j \in 1..Len(file) : SpeaksFor(file[j], k) => j <= i
                 /\ t[k] = Proper(file[i].urls)
  <2> DEFINE m == Max(at(k))
  <2>1. /\ m \in 1..L /\ pairs[m].key = k /\ t[k] = pairs[m].urls
        /\ \A p \in 1..L : pairs[p].key = k => p <= m
    BY <1>4
  <2> HIDE DEF m
  <2>2. o[m] \in 1..Len(file) /\ SpeaksFor(file[o[m]], k) /\ t[k] = Proper(file[o[m]].urls)
    BY <1>2, <2>1
  <2>3. ASSUME NEW j \in 1..Len(file), SpeaksFor(file[j], k)
        PROVE  j <= o[m]
    <3>1. k \in K
      BY <1>2, <2>1
    <3>2. PICK p \in 1..L : o[p] = j /\ pairs[p].key = k
      BY <1>2, <2>3, <3>1
    <3>3. p <= m
      BY <2>1, <3>2
    <3>4. CASE p = m
      BY <2>2, <3>2, <3>4
    <3>5. CASE p # m
      <4>1. p < m
        BY <1>1, <2>1, <3>3, <3>5
      <4> QED
        BY <1>2, <2>1, <3>2, <4>1
    <3> QED
      BY <3>4, <3>5
  <2> QED
    BY <2>2, <2>3
<1>7. ASSUME NEW k \in DOMAIN t
      PROVE  t[k] \in Seq(URLs)
  <2> DEFINE m == Max(at(k))
  <2>1. m \in 1..L /\ t[k] = pairs[m].urls
    BY <1>4
  <2> HIDE DEF m
  <2>2. pairs[m] \in PairsFor(P)
    BY <2>1 DEF L
  <2> QED
    BY <2>1, <2>2 DEF PairsFor
<1>8. \A i, k : SpeaksFor(file[i], k) <=> Speaks(file, i, k)
  BY DEF Speaks, SpeaksFor
<1>9. LastSpeaks(file, K, t)
  BY <1>5, <1>6, <1>8 DEF LastSpeaks
<1> QED
  BY <1>7, <1>9 DEF t

\* The table of a file.
LEMMA FileSays ==
    ASSUME NEW K, NEW file \in FilesFor(K)
    PROVE  /\ LastSpeaks(file, K \ {Malformed}, TableOf(Pairs(file)))
           /\ \A k \in DOMAIN TableOf(Pairs(file)) : TableOf(Pairs(file))[k] \in Seq(URLs)
<1>1. Len(file) \in Nat
  BY DEF FilesFor
<1>2. PICK r : r = Pairs(file)
  OBVIOUS
<1>3. r \in Seq(PairsFor(K)) /\ \E o : Comes(file, r, K \ {Malformed}, o)
  BY <1>2, PairsCome
<1>4. PICK o : Comes(file, r, K \ {Malformed}, o)
  BY <1>3
<1>5. LastSpeaks(file, K \ {Malformed}, TableOf(r))
  BY <1>1, <1>3, <1>4, TableSays
<1>6. \A k \in DOMAIN TableOf(r) : TableOf(r)[k] \in Seq(URLs)
  BY <1>1, <1>3, <1>4, TableSays
<1> QED
  BY <1>2, <1>5, <1>6

\* That of its networks of one family.
LEMMA FamilySays ==
    ASSUME NEW K, NEW file \in FilesFor(K), NEW family
    PROVE  LET table == TableOf(OfFamily(Pairs(file), family))
           IN /\ LastSpeaks(file, {k \in K \ {Malformed} : k.family = family}, table)
              /\ \A k \in DOMAIN table : table[k] \in Seq(URLs)
<1> DEFINE J == {k \in K \ {Malformed} : k.family = family}
<1>1. Len(file) \in Nat
  BY DEF FilesFor
<1>2. PICK pairs : pairs = Pairs(file)
  OBVIOUS
<1>3. pairs \in Seq(PairsFor(K)) /\ \E o : Comes(file, pairs, K \ {Malformed}, o)
  BY <1>2, PairsCome
<1>4. PICK o : Comes(file, pairs, K \ {Malformed}, o)
  BY <1>3
<1>5. PICK S : S = {p \in ToSet(pairs) : p.key.family = family}
  OBVIOUS
<1>6. ASSUME NEW p \in 1..Len(pairs)
      PROVE  pairs[p] \in S <=> pairs[p].key \in J
  <2>1. pairs[p] \in ToSet(pairs)
    BY <1>3 DEF ToSet
  <2>2. pairs[p] \in PairsFor(K)
    BY <1>3
  <2>3. pairs[p].key \in K \ {Malformed}
    BY <2>2 DEF PairsFor
  <2> QED
    BY <1>5, <2>1, <2>3
<1>7. PICK r : r = Only(pairs, S)
  OBVIOUS
<1>8. (K \ {Malformed}) \intersect J = J
  OBVIOUS
<1>9. OfFamily(Pairs(file), family) = r
  BY <1>2, <1>5, <1>7, Zenon DEF OfFamily
<1> HIDE DEF J
<1>10. r \in Seq(PairsFor(K))
  BY <1>1, <1>3, <1>4, <1>6, <1>7, OnlyComes
<1>11. \E u : Comes(file, r, J, u)
  <2>1. \E u : Comes(file, Only(pairs, S), (K \ {Malformed}) \intersect J, u)
    BY <1>1, <1>3, <1>4, <1>6, OnlyComes
  <2> QED
    BY <1>7, <1>8, <2>1
<1>12. PICK u : Comes(file, r, J, u)
  BY <1>11
<1>13. LastSpeaks(file, J, TableOf(r))
  BY <1>1, <1>10, <1>12, TableSays
<1>14. \A k \in DOMAIN TableOf(r) : TableOf(r)[k] \in Seq(URLs)
  BY <1>1, <1>10, <1>12, TableSays
<1> QED
  BY <1>9, <1>13, <1>14 DEF J

-----------------------------------------------------------------------------
(* What the resolver answers *)

\* A domain is answered by the last service that speaks for its TLD.
THEOREM DomainsAgree ==
    ASSUME NEW K, NEW file \in FilesFor(K), NEW tld \in K, tld # Malformed,
           <<"name", tld>> # Malformed
    PROVE  DomainAgrees(file, tld)
<1> DEFINE table == LoadDNS(file)
           speaking == {i \in DOMAIN file : Speaks(file, i, tld)}
           answer == ResolveDomain(table, <<"name", tld>>)
<1>1. Len(file) \in Nat /\ DOMAIN file = 1..Len(file)
  BY DEF FilesFor
<1>2. /\ \A k : k \in DOMAIN table <=>
                    k \in K \ {Malformed} /\ \E i \in 1..Len(file) : Speaks(file, i, k)
      /\ \A k \in DOMAIN table : \E i \in 1..Len(file) :
             /\ Speaks(file, i, k)
             /\ \A j \in 1..Len(file) : Speaks(file, j, k) => j <= i
             /\ table[k] = Proper(file[i].urls)
  BY FileSays DEF LoadDNS, LastSpeaks
<1> HIDE DEF table
<1>3. Last(<<"name", tld>>) = tld
  BY DEF Last
<1>4. answer = IF DOMAIN table = {} THEN Failure("NotInitialized")
               ELSE IF tld \notin DOMAIN table THEN Failure("NoServer")
               ELSE Answer(table[tld])
  BY <1>3 DEF ResolveDomain
<1> HIDE DEF answer
<1>5. CASE speaking = {}
  <2>1. tld \notin DOMAIN table
    BY <1>1, <1>2, <1>5
  <2>2. answer.err = {"NotInitialized"} \/ answer.err = {"NoServer"}
    BY <1>4, <2>1 DEF Failure
  <2>3. Silent(answer)
    BY <2>2 DEF Silent
  <2> QED
    BY <1>5, <2>3 DEF DomainAgrees, answer, table
<1>6. CASE speaking # {}
  <2>1. tld \in DOMAIN table
    BY <1>1, <1>2, <1>6
  <2>2. PICK i \in 1..Len(file) :
            /\ Speaks(file, i, tld)
            /\ \A j \in 1..Len(file) : Speaks(file, j, tld) => j <= i
            /\ table[tld] = Proper(file[i].urls)
    BY <1>2, <2>1
  <2>3. speaking \in SUBSET (1..Len(file))
    BY <1>1
  <2>4. Max(speaking) \in speaking /\ \A j \in speaking : j <= Max(speaking)
    <3> HIDE DEF speaking
    <3> QED
      BY <1>1, <1>6, <2>3, LastPlace
  <2>5. i \in speaking
    BY <1>1, <2>2
  <2>6. Max(speaking) = i
    <3>1. PICK m : m = Max(speaking)
      OBVIOUS
    <3>2. m \in 1..Len(file) /\ i <= m /\ Speaks(file, m, tld)
      BY <2>3, <2>4, <2>5, <3>1
    <3>3. m <= i
      BY <2>2, <3>2
    <3> QED
      BY <3>1, <3>2, <3>3
  <2>7. answer = Answer(table[tld])
    BY <1>4, <2>1
  <2>8. Gave(file, Max(speaking), answer)
    BY <2>2, <2>6, <2>7 DEF Gave
  <2> QED
    BY <1>6, <2>8 DEF DomainAgrees, answer, table
<1> QED
  BY <1>5, <1>6

\* Helper: of some networks one is the longest.
LEMMA LongestExists ==
    ASSUME NEW found, found # {}, \A n \in found : n.bits \in 0..AddrBits
    PROVE  \E n \in found : \A m \in found : m.bits <= n.bits
<1> DEFINE R == {AddrBits - n.bits : n \in found}
<1>1. R \in SUBSET Nat /\ R # {}
  <2>1. \A n \in found : AddrBits - n.bits \in Nat
    BY AddrBitsAssumption
  <2> QED
    BY <2>1
<1>2. PICK r \in R : \A i \in R : r <= i
  <2> HIDE DEF R
  <2> QED
    BY <1>1, LeastPlace
<1>3. PICK n \in found : r = AddrBits - n.bits
  OBVIOUS
<1>4. ASSUME NEW m \in found
      PROVE  m.bits <= n.bits
  <2>1. r <= AddrBits - m.bits
    BY <1>2
  <2>2. m.bits \in Int /\ n.bits \in Int
    OBVIOUS
  <2> QED
    BY <1>3, <2>1, <2>2, AddrBitsAssumption
<1> QED
  BY <1>4

\* Helper: two networks of one length that have an address in common are the same.
LEMMA SameNetwork ==
    ASSUME NEW m \in Networks, NEW n \in Networks, NEW addr,
           m.family = n.family, m.bits = n.bits, Covers(m, addr), Covers(n, addr)
    PROVE  m = n
<1>1. PICK size : size = 2 ^ (AddrBits - n.bits)
  OBVIOUS
<1>2. m.addr = (m.addr \div size) * size /\ n.addr = (n.addr \div size) * size
  BY <1>1 DEF Networks
<1>3. addr \div size = m.addr \div size /\ addr \div size = n.addr \div size
  BY <1>1 DEF Covers
<1>4. m.addr = n.addr
  BY <1>2, <1>3, Zenon
<1>5. /\ m = [family |-> m.family, addr |-> m.addr, bits |-> m.bits]
      /\ n = [family |-> n.family, addr |-> n.addr, bits |-> n.bits]
  BY DEF Networks
<1> QED
  BY <1>4, <1>5

\* An address is answered by the last service that speaks for its longest network.
THEOREM AddressesAgree ==
    ASSUME NEW K \in SUBSET Networks, Malformed \notin K, NEW file \in FilesFor(K),
           NEW addr, [family |-> 4, addr |-> addr] # Malformed
    PROVE  AddressAgrees(file, K, addr)
<1> DEFINE table == LoadIPv4(file)
           ip == [family |-> 4, addr |-> addr]
           answer == ResolveIP(table, LoadIPv6(file), ip)
           found == {n \in DOMAIN table : Covers(n, addr)}
           best == {b \in (DOMAIN file) \X K :
                        Speaks(file, b[1], b[2]) /\ Covers(b[2], addr) /\ b[2].family = 4}
<1>1. Len(file) \in Nat /\ DOMAIN file = 1..Len(file)
  BY DEF FilesFor
<1>2. /\ \A k : k \in DOMAIN table <=> /\ k \in K /\ k.family = 4
                                       /\ \E i \in 1..Len(file) : Speaks(file, i, k)
      /\ \A k \in DOMAIN table : \E i \in 1..Len(file) :
             /\ Speaks(file, i, k)
             /\ \A j \in 1..Len(file) : Speaks(file, j, k) => j <= i
             /\ table[k] = Proper(file[i].urls)
  <2>1. LastSpeaks(file, {k \in K \ {Malformed} : k.family = 4}, table)
    BY FamilySays DEF LoadIPv4
  <2>2. {k \in K \ {Malformed} : k.family = 4} = {k \in K : k.family = 4}
    OBVIOUS
  <2> HIDE DEF table
  <2> QED
    BY <2>1, <2>2 DEF LastSpeaks
<1> HIDE DEF table
<1>3. answer = IF DOMAIN table = {} THEN Failure("NotInitialized")
               ELSE IF found = {} THEN Failure("NoServer")
               ELSE Answer(table[CHOOSE n \in found : \A m \in found : m.bits <= n.bits])
  BY DEF ResolveIP, ResolveIn
<1> HIDE DEF answer
<1>4. ASSUME NEW b \in best
      PROVE  b[1] \in 1..Len(file) /\ b[2] \in K /\ b[2] \in found /\ Speaks(file, b[1], b[2])
  BY <1>1, <1>2
<1>5. CASE found = {}
  <2>1. best = {}
    <3> HIDE DEF best, found
    <3> QED
      BY <1>4, <1>5
  <2>2. answer.err = {"NotInitialized"} \/ answer.err = {"NoServer"}
    BY <1>3, <1>5 DEF Failure
  <2>3. Silent(answer)
    BY <2>2 DEF Silent
  <2> QED
    BY <2>1, <2>3 DEF AddressAgrees, answer, table
<1>6. CASE found # {}
  <2>1. \A n \in found : n \in Networks /\ n \in K /\ n.family = 4 /\ n.bits \in 0..AddrBits
    BY <1>2 DEF Networks
  <2> DEFINE n == CHOOSE n \in found : \A m \in found : m.bits <= n.bits
  <2>2. n \in found /\ \A m \in found : m.bits <= n.bits
    <3>1. \E x \in found : \A m \in found : m.bits <= x.bits
      <4> HIDE DEF found
      <4> QED
        BY <1>6, <2>1, LongestExists
    <3> HIDE DEF found
    <3> QED
      BY <3>1
  <2>3. answer = Answer(table[n])
    BY <1>3, <1>6
  <2> HIDE DEF n
  <2>4. n \in DOMAIN table /\ Covers(n, addr)
    BY <2>2
  <2>5. PICK i \in 1..Len(file) : /\ Speaks(file, i, n)
                                  /\ \A j \in 1..Len(file) : Speaks(file, j, n) => j <= i
                                  /\ table[n] = Proper(file[i].urls)
    BY <1>2, <2>4
  <2>6. <<i, n>> \in best
    BY <1>1, <2>1, <2>2, <2>4, <2>5
  <2>7. Gave(file, <<i, n>>[1], answer)
    BY <2>3, <2>5 DEF Gave
  <2>8. ASSUME NEW c \in best
        PROVE  c[2].bits < n.bits \/ (c[2] = n /\ c[1] <= i)
    <3>1. c[2] \in found /\ c[2].bits <= n.bits
      BY <1>4, <2>2
    <3>2. CASE c[2].bits = n.bits
      <4>1. c[2] = n
        BY <2>1, <2>2, <2>4, <3>1, <3>2, SameNetwork
      <4> QED
        BY <1>4, <2>5, <4>1
    <3>3. CASE c[2].bits # n.bits
      <4>1. c[2].bits \in Int /\ n.bits \in Int
        BY <2>1, <2>2, <3>1
      <4> QED
        BY <3>1, <3>3, <4>1
    <3> QED
      BY <3>2, <3>3
  <2>9. \E b \in best : /\ Gave(file, b[1], answer)
                        /\ \A c \in best : \/ c[2].bits < b[2].bits
                                           \/ c[2] = b[2] /\ c[1] <= b[1]
    <3> HIDE DEF best
    <3>1. \A c \in best : \/ c[2].bits < <<i, n>>[2].bits
                          \/ c[2] = <<i, n>>[2] /\ c[1] <= <<i, n>>[1]
      BY <2>8
    <3> QED
      BY <2>6, <2>7, <3>1
  <2> QED
    BY <2>9 DEF AddressAgrees, answer, table
<1> QED
  BY <1>5, <1>6

\* Helper: the ranges of a file that parse come in its order.
LEMMA RangesCome ==
    ASSUME NEW K, NEW file \in FilesFor(K)
    PROVE  /\ RangesOf(Pairs(file)) \in Seq(PairsFor(K))
           /\ \E u : Comes(file, RangesOf(Pairs(file)),
                           {k \in K \ {Malformed} : ParsesAsRange(k)}, u)
<1> DEFINE J == {k \in K \ {Malformed} : ParsesAsRange(k)}
<1>1. Len(file) \in Nat
  BY DEF FilesFor
<1>2. PICK pairs : pairs = Pairs(file)
  OBVIOUS
<1>3. pairs \in Seq(PairsFor(K)) /\ \E o : Comes(file, pairs, K \ {Malformed}, o)
  BY <1>2, PairsCome
<1>4. PICK o : Comes(file, pairs, K \ {Malformed}, o)
  BY <1>3
<1>5. PICK S : S = {p \in ToSet(pairs) : ParsesAsRange(p.key)}
  OBVIOUS
<1>6. ASSUME NEW p \in 1..Len(pairs)
      PROVE  pairs[p] \in S <=> pairs[p].key \in J
  <2>1. pairs[p] \in ToSet(pairs)
    BY <1>3 DEF ToSet
  <2>2. pairs[p] \in PairsFor(K)
    BY <1>3
  <2>3. pairs[p].key \in K \ {Malformed}
    BY <2>2 DEF PairsFor
  <2> QED
    BY <1>5, <2>1, <2>3
<1>7. PICK r : r = Only(pairs, S)
  OBVIOUS
<1>8. (K \ {Malformed}) \intersect J = J
  OBVIOUS
<1>9. RangesOf(Pairs(file)) = r
  BY <1>2, <1>5, <1>7, Zenon DEF RangesOf
<1> HIDE DEF J
<1>10. r \in Seq(PairsFor(K))
  BY <1>1, <1>3, <1>4, <1>6, <1>7, OnlyComes
<1>11. \E u : Comes(file, r, J, u)
  <2>1. \E u : Comes(file, Only(pairs, S), (K \ {Malformed}) \intersect J, u)
    BY <1>1, <1>3, <1>4, <1>6, OnlyComes
  <2> QED
    BY <1>7, <1>8, <2>1
<1> QED
  BY <1>9, <1>10, <1>11 DEF J

\* The table is a sorting of the ranges r: o says where each came from.
IsSorting(table, r, o) ==
    /\ o \in [1..Len(r) -> 1..Len(r)] /\ IsInjective(o)
    /\ table = [i \in 1..Len(r) |-> r[o[i]]]
    /\ \A i, j \in 1..Len(r) : i < j => table[i].key.start <= table[j].key.start

\* Helper: what sort.Slice may leave is one.
LEMMA ASNSorts ==
    ASSUME NEW T, NEW file, RangesOf(Pairs(file)) \in Seq(T), NEW table \in LoadASN(file)
    PROVE  /\ table \in Seq(T) /\ Len(table) = Len(RangesOf(Pairs(file)))
           /\ \E o : IsSorting(table, RangesOf(Pairs(file)), o)
<1>1. PICK r : r = RangesOf(Pairs(file))
  OBVIOUS
<1>2. Len(r) \in Nat /\ DOMAIN r = 1..Len(r) /\ r \in Seq(T)
  BY <1>1
<1>3. /\ \E o \in {o \in [1..Len(r) -> 1..Len(r)] : IsInjective(o)} :
             table = [i \in 1..Len(r) |-> r[o[i]]]
      /\ \A i, j \in DOMAIN table : i < j => table[i].key.start <= table[j].key.start
  BY <1>1, <1>2 DEF LoadASN
<1>4. PICK o \in [1..Len(r) -> 1..Len(r)] : IsInjective(o) /\ table = [i \in 1..Len(r) |-> r[o[i]]]
  BY <1>3
<1>5. IsSorting(table, r, o)
  <2>1. DOMAIN table = 1..Len(r)
    BY <1>4
  <2> QED
    BY <1>3, <1>4, <2>1 DEF IsSorting
<1>6. \A i \in 1..Len(r) : r[o[i]] \in T
  <2>1. \A p \in 1..Len(r) : r[p] \in T
    BY <1>2
  <2> QED
    BY <1>4, <2>1
<1>7. table \in Seq(T) /\ Len(table) = Len(r)
  BY <1>2, <1>4, <1>6
<1> QED
  BY <1>1, <1>5, <1>7

\* Helper: every range is in the sorted table.
LEMMA SortingKeepsAll ==
    ASSUME NEW n \in Nat, NEW o \in [1..n -> 1..n], IsInjective(o), NEW p \in 1..n
    PROVE  \E q \in 1..n : o[q] = p
<1>1. IsFiniteSet(1..n)
  <2>1. 1 \in Int /\ n \in Int
    OBVIOUS
  <2> QED
    BY <2>1, FS_Interval
<1>2. \A a, b \in 1..n : o[a] = o[b] => a = b
  BY DEF IsInjective
<1>3. o \in Injection(1..n, 1..n)
  BY <1>2, Fun_IsInj
<1>4. o \in Surjection(1..n, 1..n)
  BY <1>1, <1>3, FS_Injection
<1>5. \A t \in 1..n : \E s \in 1..n : o[s] = t
  BY <1>4 DEF Surjection
<1> QED
  BY <1>5

\* Helper: the ranges that start by a number are the first ones of the sorted table.
LEMMA StartingAreFirst ==
    ASSUME NEW T, NEW table \in Seq(T), NEW asn \in Nat,
           \A i \in 1..Len(table) : table[i].key.start \in Nat,
           \A i, j \in 1..Len(table) : i < j => table[i].key.start <= table[j].key.start
    PROVE  /\ StartingBy(table, asn) \in 0..Len(table)
           /\ \A i \in 1..Len(table) :
                  table[i].key.start <= asn <=> i <= StartingBy(table, asn)
<1> DEFINE n == Len(table)
           S == {i \in 1..n : table[i].key.start <= asn}
<1>1. n \in Nat /\ DOMAIN table = 1..n
  OBVIOUS
<1>2. StartingBy(table, asn) = Cardinality(S)
  BY <1>1 DEF StartingBy
<1>3. \E c \in 0..n : S = 1..c
  <2>1. CASE S = {}
    <3>1. S = 1..0 /\ 0 \in 0..n
      BY <1>1, <2>1
    <3> QED
      BY <3>1
  <2>2. CASE S # {}
    <3>1. S \in SUBSET (1..n)
      OBVIOUS
    <3>2. Max(S) \in S /\ \A m \in S : m <= Max(S)
      <4> HIDE DEF S, n
      <4> QED
        BY <1>1, <2>2, <3>1, LastPlace
    <3>3. PICK c : c = Max(S)
      OBVIOUS
    <3>4. c \in 1..n /\ table[c].key.start <= asn /\ \A m \in S : m <= c
      BY <3>2, <3>3
    <3>5. ASSUME NEW i \in 1..c
          PROVE  i \in S
      <4>1. i \in 1..n
        BY <3>4
      <4>2. CASE i = c
        BY <3>4, <4>2
      <4>3. CASE i # c
        <5>1. i < c
          BY <4>3, <3>4
        <5>2. table[i].key.start <= table[c].key.start
          BY <3>4, <4>1, <5>1
        <5> QED
          BY <3>4, <4>1, <5>2
      <4> QED
        BY <4>2, <4>3
    <3>6. ASSUME NEW i \in S
          PROVE  i \in 1..c
      BY <3>4
    <3>7. S = 1..c /\ c \in 0..n
      <4> HIDE DEF S
      <4>1. S \subseteq 1..c /\ 1..c \subseteq S
        BY <3>5, <3>6
      <4>2. c \in 0..n
        BY <1>1, <3>4
      <4> HIDE DEF n
      <4> QED
        BY <4>1, <4>2
    <3> QED
      BY <3>7
  <2> QED
    BY <2>1, <2>2
<1>4. PICK c \in 0..n : S = 1..c
  BY <1>3
<1>5. Cardinality(S) = c
  <2> HIDE DEF S, n
  <2>1. c \in Nat
    BY <1>1, <1>4
  <2>2. 1 \in Int /\ c \in Int /\ Cardinality(1..c) = IF 1 > c THEN 0 ELSE c - 1 + 1
    BY <2>1, FS_Interval
  <2>3. Cardinality(1..c) = c
    BY <2>1, <2>2
  <2> QED
    BY <1>4, <2>3
<1>6. \A i \in 1..n : i \in S <=> table[i].key.start <= asn
  OBVIOUS
<1>7. \A i \in 1..n : i \in S <=> i <= c
  BY <1>4
<1> QED
  BY <1>2, <1>4, <1>5, <1>6, <1>7

\* A number is answered by a service that speaks for a range with it, whatever order the
\* sort leaves, and where no ranges overlap it is answered if there is one.
THEOREM NumbersAgree ==
    ASSUME NEW K \in SUBSET AsRanges, Malformed \notin K, NEW file \in FilesFor(K),
           NEW asn \in Nat \ {0}
    PROVE  NumberAgrees(file, K, asn)
<1> DEFINE J == {k \in K \ {Malformed} : ParsesAsRange(k)}
           speaking == {s \in (DOMAIN file) \X K :
                            Speaks(file, s[1], s[2]) /\ s[2].start <= s[2].end}
           holding == {s \in speaking : s[2].start <= asn /\ asn <= s[2].end}
           disjoint == \A s, t \in speaking :
                           s = t \/ s[2].end < t[2].start \/ t[2].end < s[2].start
<1> SUFFICES ASSUME NEW table \in LoadASN(file)
             PROVE  \/ \E s \in holding : Gave(file, s[1], ResolveASN(table, asn))
                    \/ /\ Silent(ResolveASN(table, asn))
                       /\ disjoint => holding = {}
  BY Zenon DEF NumberAgrees
<1>1. Len(file) \in Nat /\ DOMAIN file = 1..Len(file)
  BY DEF FilesFor
<1>2. PICK r : r = RangesOf(Pairs(file))
  OBVIOUS
<1>3. r \in Seq(PairsFor(K)) /\ \E u : Comes(file, r, J, u)
  BY <1>2, RangesCome
<1>4. PICK u : Comes(file, r, J, u)
  BY <1>3
<1>5. table \in Seq(PairsFor(K)) /\ Len(table) = Len(r) /\ \E o : IsSorting(table, r, o)
  BY <1>2, <1>3, ASNSorts
<1>6. PICK o : IsSorting(table, r, o)
  BY <1>5
<1> DEFINE n == Len(r)
<1>7. n \in Nat
  BY <1>3
<1>8. /\ o \in [1..n -> 1..n] /\ IsInjective(o)
      /\ \A i \in 1..n : table[i] = r[o[i]]
      /\ \A i, j \in 1..n : i < j => table[i].key.start <= table[j].key.start
  BY <1>6 DEF IsSorting
<1>9. /\ u \in [1..n -> 1..Len(file)]
      /\ \A p \in 1..n : /\ r[p].key \in J
                         /\ SpeaksFor(file[u[p]], r[p].key)
                         /\ r[p].urls = Proper(file[u[p]].urls)
      /\ \A i \in 1..Len(file) : \A k \in J : SpeaksFor(file[i], k) =>
             \E p \in 1..n : u[p] = i /\ r[p].key = k
  BY <1>4 DEF Comes
<1>10. \A k \in J : k \in K /\ k.start \in Nat /\ k.end \in Nat /\ k.start <= k.end
  BY DEF AsRanges, ParsesAsRange
<1>11. \A k \in K : k.start <= k.end => k \in J
  BY DEF ParsesAsRange
<1> HIDE DEF J, n
<1>12. ASSUME NEW i \in 1..n
       PROVE  /\ table[i].key \in J /\ u[o[i]] \in 1..Len(file)
              /\ <<u[o[i]], table[i].key>> \in speaking
              /\ table[i].urls = Proper(file[u[o[i]]].urls)
  <2>1. o[i] \in 1..n /\ table[i] = r[o[i]]
    BY <1>8
  <2>2. /\ u[o[i]] \in 1..Len(file) /\ table[i].key \in J
        /\ SpeaksFor(file[u[o[i]]], table[i].key)
        /\ table[i].urls = Proper(file[u[o[i]]].urls)
    BY <1>9, <2>1
  <2>3. Speaks(file, u[o[i]], table[i].key)
    BY <2>2 DEF Speaks, SpeaksFor
  <2> QED
    BY <1>1, <1>10, <2>2, <2>3
<1>13. ASSUME NEW s \in speaking
       PROVE  \E i \in 1..n : <<u[o[i]], table[i].key>> = s
  <2>1. s[1] \in 1..Len(file) /\ s[2] \in J /\ s = <<s[1], s[2]>>
    BY <1>1, <1>11
  <2>2. SpeaksFor(file[s[1]], s[2])
    BY DEF Speaks, SpeaksFor
  <2>3. PICK p \in 1..n : u[p] = s[1] /\ r[p].key = s[2]
    BY <1>9, <2>1, <2>2
  <2>4. PICK q \in 1..n : o[q] = p
    BY <1>7, <1>8, SortingKeepsAll
  <2>5. table[q].key = s[2] /\ u[o[q]] = s[1]
    BY <1>8, <2>3, <2>4
  <2> QED
    BY <2>1, <2>5
<1>14. PICK last : last = StartingBy(table, asn)
  OBVIOUS
<1>15. last \in 0..n /\ \A i \in 1..n : table[i].key.start <= asn <=> i <= last
  <2>1. \A i \in 1..n : table[i].key.start \in Nat
    BY <1>10, <1>12
  <2>2. Len(table) = n
    BY <1>5 DEF n
  <2>3. asn \in Nat
    OBVIOUS
  <2> QED
    BY <1>5, <1>8, <1>14, <2>1, <2>2, <2>3, StartingAreFirst
<1>16. ResolveASN(table, asn) =
           IF table = <<>> THEN Failure("NotInitialized")
           ELSE IF last > 0 /\ asn <= table[last].key.end THEN Answer(table[last].urls)
           ELSE Failure("NoServer")
  BY <1>14 DEF ResolveASN
<1> DEFINE answer == ResolveASN(table, asn)
<1> HIDE DEF answer
<1>17. table = <<>> <=> n = 0
  BY <1>5 DEF n
<1>18. CASE last > 0 /\ asn <= table[last].key.end
  <2>1. last \in 1..n
    BY <1>7, <1>15, <1>18
  <2>2. answer = Answer(table[last].urls)
    BY <1>7, <1>16, <1>17, <1>18, <2>1 DEF answer
  <2>3. table[last].key.start <= asn
    BY <1>7, <1>15, <2>1
  <2> DEFINE s == <<u[o[last]], table[last].key>>
  <2>4. s \in holding /\ s[1] = u[o[last]]
    BY <1>12, <1>18, <2>1, <2>3
  <2>5. Gave(file, s[1], answer)
    BY <1>12, <2>1, <2>2, <2>4 DEF Gave
  <2> QED
    BY <2>4, <2>5 DEF answer
<1>19. CASE ~(last > 0 /\ asn <= table[last].key.end)
  <2>1. answer.err = {"NotInitialized"} \/ answer.err = {"NoServer"}
    BY <1>16, <1>19 DEF Failure, answer
  <2>2. Silent(answer)
    BY <2>1 DEF Silent
  <2>3. ASSUME disjoint, NEW s \in holding
        PROVE  FALSE
    <3>1. s \in speaking /\ s[2].start <= asn /\ asn <= s[2].end
      OBVIOUS
    <3>2. PICK q \in 1..n : <<u[o[q]], table[q].key>> = s
      BY <1>13, <3>1
    <3>3. table[q].key = s[2]
      BY <3>2
    <3>4. q <= last
      BY <1>15, <3>1, <3>3
    <3>5. last > 0 /\ last \in 1..n
      BY <1>7, <1>15, <3>4
    <3>6. ~(asn <= table[last].key.end)
      BY <1>19, <3>5
    <3> DEFINE t == <<u[o[last]], table[last].key>>
    <3>7. t \in speaking /\ t[2] = table[last].key
      BY <1>12, <3>5
    <3> HIDE DEF t
    <3>8. /\ s[2].start \in Nat /\ s[2].end \in Nat
          /\ t[2].start \in Nat /\ t[2].end \in Nat /\ t[2].start <= t[2].end
      <4>1. table[q].key \in J /\ table[last].key \in J
        BY <1>12, <3>5
      <4> QED
        BY <1>10, <3>3, <3>7, <4>1
    <3>9. t[2].start <= asn
      BY <1>7, <1>15, <3>5, <3>7
    <3>10. s[2].start <= t[2].start
      <4>1. CASE q = last
        BY <3>3, <3>7, <3>8, <4>1
      <4>2. CASE q # last
        <5>1. q < last
          BY <1>7, <3>4, <3>5, <4>2
        <5> QED
          BY <1>8, <3>3, <3>5, <3>7, <5>1
      <4> QED
        BY <4>1, <4>2
    <3>11. s # t
      BY <3>1, <3>6, <3>7
    <3>12. s[2].end < t[2].start \/ t[2].end < s[2].start
      BY <2>3, <3>1, <3>7, <3>11, Zenon
    <3> QED
      BY <3>1, <3>8, <3>9, <3>10, <3>12
  <2> QED
    BY <2>2, <2>3 DEF answer
<1> QED
  BY <1>18, <1>19
=============================================================================
