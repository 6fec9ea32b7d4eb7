------------------------- MODULE BootstrapServiceProofs -------------------------
(* What holds of BootstrapService for every value of its constants. *)
EXTENDS BootstrapService, WellFoundedInduction, TLAPS

-----------------------------------------------------------------------------
(* Inductive invariants *)

\* A load under way has whole files, none older than its beginning, which is no
\* older than the resolver it is to replace.
LoadInv ==
    /\ WholeLoad
    /\ \A f \in Files : iana[f] <= published
    /\ load.by # "none" =>
        /\ \A f \in Files : load.since[f] <= iana[f]
        /\ \A i \in 1..load.files :
            load.read[File[i]] \in load.since[File[i]]..iana[File[i]]
        /\ resolver # Nil /\ ~load.swapped =>
            \A f \in Files : resolver[f] <= load.since[f]
    /\ load.swapped => load.files = Len(File) /\ resolver # Nil
    /\ resolver # Nil => began # Nil

\* The loop is gone when Stop has returned, and when Start never began it.
ExitInv ==
    /\ doneCh <=> loop = "gone"
    /\ main = "exited" => loop \in {"none", "gone"}

\* What a lookup may be served with is between its floor and the resolver.
LookupInv ==
    /\ LookupFollowsRefresh
    /\ client # Nil => resolver # Nil /\ client["dns"] <= resolver["dns"]
    /\ \A p \in Procs :
        /\ pc[p] # "idle" =>
            /\ resolver # Nil
            /\ floor[p] # Nil /\ floor[p] <= resolver["dns"]
            /\ named[p] = Nil
        /\ pc[p] = "set" =>
            /\ held[p] # Nil /\ held[p]["dns"] <= resolver["dns"]
            /\ \A q \in Procs : pc[q] \in {"set", "ask"} => floor[q] <= held[p]["dns"]
        /\ pc[p] = "ask" => client # Nil /\ floor[p] <= client["dns"]
        /\ pc[p] = "answer" => asked[p] # Nil /\ asked[p] <= resolver["dns"]
        /\ asked[p] # Nil => floor[p] # Nil
        /\ named[p] # Nil => asked[p] # Nil

-----------------------------------------------------------------------------
(* Helpers *)

\* Helper: the four files, in the order of LoadAll.
LEMMA FilesListed ==
    /\ Files = {"dns", "ipv4", "ipv6", "asn"}
    /\ Len(File) = 4
    /\ \A i \in 1..4 : File[i] \in Files
    /\ \A f \in Files : \E i \in 1..4 : f = File[i]
<1>1. Len(File) = 4 /\ DOMAIN File = 1..4
  BY DEF File
<1>2. File[1] = "dns" /\ File[2] = "ipv4" /\ File[3] = "ipv6" /\ File[4] = "asn"
  BY DEF File
<1>3. \A i \in 1..4 : i = 1 \/ i = 2 \/ i = 3 \/ i = 4
  OBVIOUS
<1> QED
  BY <1>1, <1>2, <1>3 DEF Files

\* Helper: a set of naturals has a least one, and Min is it.
LEMMA MinOfNats ==
    ASSUME NEW S \in SUBSET Nat, S # {}
    PROVE  Min(S) \in S /\ \A n \in S : Min(S) <= n
<1> DEFINE Below == {ss \in Nat \X Nat : ss[1] < ss[2]}
<1>1. IsWellFoundedOn(Below, Nat)
  BY NatLessThanWellFounded DEF OpToRel
<1>2. \E m \in S : \A n \in S : ~(<<n, m>> \in Below)
  <2> HIDE DEF Below
  <2> QED
    BY <1>1, WFMin
<1>3. PICK m \in S : \A n \in S : ~(<<n, m>> \in Below)
  BY <1>2
<1>4. ASSUME NEW n \in S
      PROVE  m <= n
  <2>1. m \in Nat /\ n \in Nat /\ ~(<<n, m>> \in Below)
    BY <1>3
  <2>2. ~(n < m)
    BY <2>1
  <2> QED
    BY <2>1, <2>2
<1> QED
  BY <1>4 DEF Min

\* Helper: no load is under way, or it is one of main or of the loop.
LEMMA LoadUnderWay ==
    ASSUME TypeOK
    PROVE  /\ load.by = "none" => load = NoLoad
           /\ load.by # "none" => load \in Load
           /\ load.swapped => load \in Load
BY DEF TypeOK, Load, NoLoad

\* Helper: what BeginLoad makes.
LEMMA BegunLoad ==
    ASSUME TypeOK, NEW who \in {"main", "loop"}, BeginLoad(who)
    PROVE  /\ load' \in Load
           /\ load'.by = who /\ load'.files = 0 /\ load'.since = iana /\ ~load'.swapped
BY DEF TypeOK, BeginLoad, Load

\* Helper: a whole load is a resolver.
LEMMA LoadedIsResolver ==
    ASSUME load \in Load, LoadInv, load.files = Len(File), iana \in Resolver
    PROVE  /\ load.read \in Resolver
           /\ \A f \in Files : load.read[f] \in load.since[f]..iana[f]
<1>1. ASSUME NEW f \in Files
      PROVE  load.read[f] \in load.since[f]..iana[f]
  <2>1. PICK i \in 1..4 : f = File[i]
    BY FilesListed
  <2> QED
    BY <2>1, FilesListed DEF LoadInv, WholeLoad, Load
<1>2. ASSUME NEW f \in Files
      PROVE  load.read[f] \in Editions
  BY <1>1, ParamsAssumption DEF Load, Resolver, Editions
<1> QED
  BY <1>1, <1>2 DEF Load, Resolver

\* Helper: the floor that a lookup starts with.
LEMMA FloorOfLookup ==
    ASSUME TypeOK, LookupInv, resolver # Nil
    PROVE  LET m == Min({resolver["dns"]} \union Pending)
           IN  /\ m \in Editions
               /\ m <= resolver["dns"]
               /\ \A q \in Procs : pc[q] = "set" => m <= held[q]["dns"]
<1> DEFINE S == {resolver["dns"]} \union Pending
<1>1. resolver["dns"] \in Editions
  BY FilesListed DEF TypeOK, Resolver
<1>2. ASSUME NEW q \in Procs, pc[q] = "set"
      PROVE  held[q]["dns"] \in Editions
  BY <1>2, FilesListed DEF TypeOK, LookupInv, Resolver
<1>3. S \subseteq Editions
  BY <1>1, <1>2 DEF Pending
<1>4. Min(S) \in S /\ \A n \in S : Min(S) <= n
  BY <1>3, ParamsAssumption, MinOfNats DEF Editions
<1>5. \A q \in Procs : pc[q] = "set" => held[q]["dns"] \in S
  BY DEF Pending
<1> QED
  BY <1>3, <1>4, <1>5

-----------------------------------------------------------------------------
(* The invariant holds *)

IInv == TypeOK /\ LoadInv /\ ExitInv /\ LookupInv

\* Helper: at the beginning.
LEMMA InvInit == Init => IInv
<1> USE ParamsAssumption, NilAssumption, FilesListed
<1> SUFFICES ASSUME Init
             PROVE  IInv
  OBVIOUS
<1>1. iana \in Resolver /\ published \in Editions /\ lookups \in 0..MaxRequests
  BY DEF Init, Resolver, Editions
<1>2. load.by = "none" /\ load \in Load \union {NoLoad}
  BY DEF Init, NoLoad
<1>3. TypeOK
  BY <1>1, <1>2 DEF Init, TypeOK
<1>4. LoadInv /\ ExitInv
  BY DEF Init, LoadInv, WholeLoad, ExitInv, NoLoad
<1>5. LookupInv
  BY DEF Init, LookupInv, LookupFollowsRefresh
<1> QED
  BY <1>3, <1>4, <1>5 DEF IInv

\* Helper: every step keeps types, loads whole and the loop's end final.
LEMMA ServiceKept ==
    ASSUME IInv, [Next]_vars
    PROVE  (TypeOK /\ LoadInv /\ ExitInv)'
<1> USE ParamsAssumption, NilAssumption, FilesListed
<1> USE DEF IInv
<1>1. ASSUME NEW f \in Changing, Publish(f)
      PROVE  (TypeOK /\ LoadInv /\ ExitInv)'
  <2>1. iana' \in Resolver /\ published' \in Editions
    BY <1>1 DEF Publish, TypeOK, Resolver, Editions
  <2>2. TypeOK'
    BY <1>1, <2>1 DEF Publish, TypeOK, service, requests
  <2>3. LoadInv'
    BY <1>1, <2>1 DEF Publish, TypeOK, LoadInv, WholeLoad, service, Resolver, Editions, Load, NoLoad
  <2> QED
    BY <1>1, <2>2, <2>3 DEF Publish, ExitInv, service
<1>2. CASE LoadFile
  <2> DEFINE f == File[load.files + 1]
  <2>1. load \in Load /\ load.files \in 0..3 /\ f \in Files
    BY <1>2, LoadUnderWay DEF LoadFile, Load
  <2>2. /\ load' \in Load
        /\ load'.by = load.by /\ load'.since = load.since /\ load'.swapped = load.swapped
        /\ load'.files = load.files + 1
        /\ load'.read = [load.read EXCEPT ![f] = iana[f]]
    <3>1. load' = [[load EXCEPT !.files = @ + 1]
                      EXCEPT !.read = [load.read EXCEPT ![f] = iana[f]]]
      BY <1>2, <2>1 DEF LoadFile, Load
    <3>2. [load.read EXCEPT ![f] = iana[f]] \in [Files -> Editions \union {Nil}]
      BY <2>1 DEF TypeOK, Load, Resolver
    <3> HIDE DEF f
    <3> QED
      <4>1. load.files + 1 \in 0..4
        BY <2>1
      <4>2. [load EXCEPT !.files = @ + 1] \in Load
        BY <2>1, <4>1 DEF Load
      <4> QED
        BY <2>1, <3>1, <3>2, <4>2 DEF Load
  <2>3. TypeOK'
    BY <1>2, <2>1, <2>2 DEF LoadFile, TypeOK, world, requests
  <2>4. ASSUME NEW i \in 1..load'.files
        PROVE  load'.read[File[i]] \in load'.since[File[i]]..iana[File[i]]
    <3>1. i \in 1..load.files \/ i = load.files + 1
      BY <2>1, <2>2
    <3>2. load.since[f] <= iana[f] /\ load.since[f] \in Nat /\ iana[f] \in Nat
      BY <1>2, <2>1 DEF LoadFile, LoadInv, WholeLoad, TypeOK, Load, Resolver, Editions
    <3>3. CASE File[i] = f
      BY <2>1, <2>2, <3>2, <3>3 DEF Load
    <3>4. CASE i \in 1..load.files /\ File[i] # f
      BY <1>2, <2>1, <2>2, <3>4 DEF LoadFile, LoadInv, WholeLoad, Load
    <3> QED
      BY <3>1, <3>3, <3>4
  <2>5. LoadInv'
    BY <1>2, <2>1, <2>2, <2>4 DEF LoadFile, LoadInv, WholeLoad, world, requests
  <2> QED
    BY <1>2, <2>3, <2>5 DEF LoadFile, ExitInv
<1>3. CASE LoadFails
  <2>1. load \in Load /\ ~load.swapped
    BY <1>3, LoadUnderWay DEF LoadFails, LoadInv, WholeLoad
  <2>2. load'.by = "none" /\ load' \in Load \union {NoLoad} /\ ~load'.swapped
    BY <1>3 DEF LoadFails, NoLoad
  <2>3. TypeOK'
    BY <1>3, <2>1, <2>2 DEF LoadFails, TypeOK, Load, world, requests
  <2>4. LoadInv'
    BY <1>3, <2>2 DEF LoadFails, LoadInv, WholeLoad, world, requests
  <2>5. ExitInv'
    BY <1>3, <2>1 DEF LoadFails, ExitInv, TypeOK, Load
  <2> QED
    BY <2>3, <2>4, <2>5
<1>4. CASE Swap
  <2>1. load \in Load /\ load.read \in Resolver
    BY <1>4, LoadUnderWay, LoadedIsResolver DEF Swap, TypeOK
  <2>2. /\ load' \in Load
        /\ load'.by = load.by /\ load'.since = load.since /\ load'.files = load.files
        /\ load'.read = load.read /\ load'.swapped
    BY <1>4, <2>1 DEF Swap, TypeOK, Load
  <2>3. resolver' \in Resolver /\ resolver' # Nil /\ began' \in Resolver /\ began' # Nil
    BY <1>4, <2>1 DEF Swap, Load
  <2>4. TypeOK'
    BY <1>4, <2>2, <2>3 DEF Swap, TypeOK, world, requests
  <2>5. LoadInv'
    BY <1>4, <2>1, <2>2, <2>3, LoadedIsResolver
    DEF Swap, LoadInv, WholeLoad, TypeOK, world, requests
  <2> QED
    BY <1>4, <2>4, <2>5 DEF Swap, ExitInv
<1>5. CASE EndRefresh
  <2>1. load \in Load /\ resolver \in Resolver /\ resolver # Nil
    BY <1>5, LoadUnderWay DEF EndRefresh, LoadInv, WholeLoad, TypeOK
  <2>2. load'.by = "none" /\ load' \in Load \union {NoLoad} /\ ~load'.swapped
    BY <1>5 DEF EndRefresh, NoLoad
  <2>3. allowed' \in SUBSET (Files \X Editions)
    BY <1>5, <2>1 DEF EndRefresh, TypeOK, UpdateAllowlist, Servers, Resolver
  <2>4. load.updates \in BOOLEAN
    BY <2>1 DEF Load
  <2>5. TypeOK'
    BY <1>5, <2>1, <2>2, <2>3, <2>4 DEF EndRefresh, TypeOK, Load, world, requests
  <2>6. LoadInv'
    BY <1>5, <2>2 DEF EndRefresh, LoadInv, WholeLoad, world, requests
  <2>7. ExitInv'
    BY <1>5, <2>1 DEF EndRefresh, ExitInv, TypeOK, Load
  <2> QED
    BY <2>5, <2>6, <2>7
<1>6. CASE Ticker
  BY <1>6 DEF Ticker, TypeOK, LoadInv, WholeLoad, ExitInv, world, requests
<1>7. CASE SelectTick
  <2>1. /\ load' \in Load /\ load'.by = "loop"
        /\ load'.files = 0 /\ load'.since = iana /\ ~load'.swapped
    BY <1>7, BegunLoad DEF SelectTick
  <2>2. main # "load"
    BY <1>7 DEF SelectTick, TypeOK
  <2>3. TypeOK'
    BY <1>7, <2>1, <2>2 DEF SelectTick, TypeOK, world, requests
  <2>4. LoadInv'
    BY <1>7, <2>1 DEF SelectTick, LoadInv, WholeLoad, TypeOK, Resolver, Editions, world
  <2> QED
    BY <1>7, <2>3, <2>4 DEF SelectTick, ExitInv
<1>8. CASE SelectStop
  BY <1>8 DEF SelectStop, TypeOK, LoadInv, WholeLoad, ExitInv, world, requests
<1>9. CASE Start
  <2>1. /\ load' \in Load /\ load'.by = "main"
        /\ load'.files = 0 /\ load'.since = iana /\ ~load'.swapped
    BY <1>9, BegunLoad DEF Start
  <2>3. TypeOK'
    BY <1>9, <2>1 DEF Start, TypeOK, world, requests
  <2>4. LoadInv'
    BY <1>9, <2>1 DEF Start, LoadInv, WholeLoad, TypeOK, Resolver, Editions, world
  <2> QED
    BY <1>9, <2>3, <2>4 DEF Start, ExitInv
<1>10. CASE NewClient
  BY <1>10 DEF NewClient, TypeOK, LoadInv, WholeLoad, ExitInv, world, service, requests
<1>11. CASE NewLookupHandler
  BY <1>11
  DEF NewLookupHandler, Servers, TypeOK, Resolver, LoadInv, WholeLoad, ExitInv, world, service,
      requests
<1>12. CASE SetServerValidator
  BY <1>12 DEF SetServerValidator, TypeOK, LoadInv, WholeLoad, ExitInv, world, requests
<1>13. CASE Stop
  BY <1>13 DEF Stop, TypeOK, LoadInv, WholeLoad, ExitInv, world, requests
<1>14. CASE StopReturns
  BY <1>14 DEF StopReturns, StopWaits, TypeOK, LoadInv, WholeLoad, ExitInv, world, service, requests
<1>15. ASSUME NEW p \in Procs, Lookup(p)
       PROVE  (TypeOK /\ LoadInv /\ ExitInv)'
  <2>1. UNCHANGED <<world, service, main, loop, allowed>>
    BY <1>15 DEF Lookup, ReadResolver, SetClient, Ask, Answer, AskFails
  <2>2. /\ client' \in Resolver \union {Nil}
        /\ pc' \in [Procs -> {"idle", "set", "ask", "answer"}]
        /\ held' \in [Procs -> Resolver \union {Nil}]
        /\ asked' \in [Procs -> Editions \union {Nil}]
        /\ named' \in [Procs -> Editions \union {Nil}]
        /\ floor' \in [Procs -> Editions \union {Nil}]
        /\ lookups' \in 0..MaxRequests
    <3>1. CASE ReadResolver(p)
      <4>1. resolver # Nil
        BY <3>1 DEF ReadResolver, TypeOK
      <4> DEFINE m == Min({resolver["dns"]} \union Pending)
      <4>2. m \in Editions
        BY <4>1, FloorOfLookup
      <4>3. floor' = [floor EXCEPT ![p] = m]
        BY <3>1 DEF ReadResolver
      <4> HIDE DEF m
      <4> QED
        BY <3>1, <4>2, <4>3 DEF ReadResolver, TypeOK
    <3>2. CASE SetClient(p)
      BY <3>2 DEF SetClient, SetResolver, TypeOK
    <3>3. CASE Ask(p)
      <4>1. client["dns"] \in Editions
        BY <3>3, FilesListed DEF Ask, TypeOK, LookupInv, Resolver
      <4> QED
        BY <3>3, <4>1 DEF Ask, TypeOK
    <3>4. CASE Answer(p)
      <4>1. resolver["dns"] \in Editions
        BY <3>4, FilesListed DEF Answer, TypeOK, LookupInv, Resolver
      <4> QED
        BY <3>4, <4>1 DEF Answer, TypeOK
    <3>5. CASE AskFails(p)
      BY <3>5 DEF AskFails, TypeOK
    <3> QED
      BY <1>15, <3>1, <3>2, <3>3, <3>4, <3>5 DEF Lookup
  <2>3. TypeOK'
    BY <2>1, <2>2 DEF TypeOK, world, service
  <2> QED
    BY <2>1, <2>3 DEF LoadInv, WholeLoad, ExitInv, world, service
<1>16. CASE UNCHANGED vars
  BY <1>16 DEF vars, TypeOK, LoadInv, WholeLoad, ExitInv, world, service, requests
<1> QED
  BY <1>1, <1>2, <1>3, <1>4, <1>5, <1>6, <1>7, <1>8, <1>9, <1>10, <1>11, <1>12, <1>13, <1>14,
     <1>15, <1>16 DEF Next, Refresh, Loop, Run, Exited

\* Helper: what lookups read and set stays between their floors and the resolver.
LEMMA LookupKept ==
    ASSUME IInv, [Next]_vars
    PROVE  LookupInv'
<1> USE ParamsAssumption, NilAssumption, FilesListed DEF IInv
<1> DEFINE Data == <<pc, held, asked, named, floor>>
<1>1. CASE UNCHANGED <<resolver, client, Data>>
  BY <1>1 DEF LookupInv, LookupFollowsRefresh
<1>2. CASE Swap
  <2>1. UNCHANGED <<client, Data>> /\ resolver' = load.read
    BY <1>2 DEF Swap, requests
  <2>2. load \in Load /\ load.read \in Resolver
    BY <1>2, LoadUnderWay, LoadedIsResolver DEF Swap, TypeOK
  <2>3. resolver' \in Resolver /\ resolver' # Nil
    BY <2>1, <2>2
  <2>4. resolver # Nil => resolver["dns"] <= resolver'["dns"]
    <3>1. resolver # Nil => resolver["dns"] <= load.since["dns"]
      BY <1>2 DEF Swap, LoadInv
    <3>2. load.read["dns"] \in load.since["dns"]..iana["dns"]
      BY <1>2, <2>2, LoadedIsResolver DEF Swap, TypeOK
    <3>3. load.since["dns"] \in Nat /\ iana["dns"] \in Nat
      BY <2>2 DEF TypeOK, Load, Resolver, Editions
    <3> QED
      BY <2>1, <3>1, <3>2, <3>3 DEF TypeOK, Resolver, Editions
  <2>5. \A r \in Resolver : r["dns"] \in Nat
    BY DEF Resolver, Editions
  <2> QED
    BY <2>1, <2>3, <2>4, <2>5 DEF LookupInv, LookupFollowsRefresh, TypeOK, Editions
<1>3. CASE NewClient
  <2>1. UNCHANGED <<resolver, Data>> /\ client' = resolver /\ resolver # Nil
    BY <1>3 DEF NewClient, service, requests, TypeOK
  <2>2. resolver["dns"] \in Nat
    BY <2>1 DEF TypeOK, Resolver, Editions
  <2> QED
    BY <2>1, <2>2 DEF LookupInv, LookupFollowsRefresh
<1>4. ASSUME NEW p \in Procs, ReadResolver(p)
      PROVE  LookupInv'
  <2> DEFINE m == Min({resolver["dns"]} \union Pending)
  <2>1. resolver \in Resolver /\ resolver # Nil /\ resolver["dns"] \in Nat
    BY <1>4 DEF ReadResolver, TypeOK, Resolver, Editions
  <2>2. /\ m \in Editions /\ m <= resolver["dns"]
        /\ \A q \in Procs : pc[q] = "set" => m <= held[q]["dns"]
    BY <2>1, FloorOfLookup
  <2>3. /\ UNCHANGED <<resolver, client>>
        /\ pc' = [pc EXCEPT ![p] = "set"] /\ held' = [held EXCEPT ![p] = resolver]
        /\ floor' = [floor EXCEPT ![p] = m]
        /\ asked' = [asked EXCEPT ![p] = Nil] /\ named' = [named EXCEPT ![p] = Nil]
    BY <1>4 DEF ReadResolver, service
  <2> HIDE DEF m
  <2> QED
    BY <2>1, <2>2, <2>3 DEF LookupInv, LookupFollowsRefresh, TypeOK, Editions
<1>5. ASSUME NEW p \in Procs, SetClient(p)
      PROVE  LookupInv'
  BY <1>5 DEF SetClient, SetResolver, LookupInv, LookupFollowsRefresh, TypeOK, service
<1>6. ASSUME NEW p \in Procs, Ask(p)
      PROVE  LookupInv'
  <2>1. client \in Resolver /\ client["dns"] \in Editions
    BY <1>6 DEF Ask, LookupInv, TypeOK, Resolver
  <2> QED
    BY <1>6, <2>1 DEF Ask, LookupInv, LookupFollowsRefresh, TypeOK, service, Editions
<1>7. ASSUME NEW p \in Procs, Answer(p)
      PROVE  LookupInv'
  <2>1. resolver \in Resolver /\ resolver["dns"] \in Editions
    BY <1>7 DEF Answer, LookupInv, TypeOK, Resolver
  <2> QED
    BY <1>7, <2>1 DEF Answer, LookupInv, LookupFollowsRefresh, TypeOK, service, Editions
<1>8. ASSUME NEW p \in Procs, AskFails(p)
      PROVE  LookupInv'
  BY <1>8 DEF AskFails, LookupInv, LookupFollowsRefresh, TypeOK, service
<1>9. CASE \E f \in Changing : Publish(f)
  BY <1>1, <1>9 DEF Publish, service, requests
<1>10. CASE LoadFile \/ LoadFails \/ EndRefresh \/ Ticker \/ Loop
  BY <1>1, <1>10 DEF LoadFile, LoadFails, EndRefresh, Ticker, Loop, SelectTick, SelectStop, requests
<1>11. CASE Start \/ NewLookupHandler \/ SetServerValidator \/ Stop \/ StopReturns
  BY <1>1, <1>11
  DEF Start, NewLookupHandler, SetServerValidator, Stop, StopReturns, service, requests
<1>12. CASE UNCHANGED vars
  BY <1>1, <1>12 DEF vars, service, requests
<1> QED
  BY <1>2, <1>3, <1>4, <1>5, <1>6, <1>7, <1>8, <1>9, <1>10, <1>11, <1>12
  DEF Next, Refresh, Run, Lookup, Exited

-----------------------------------------------------------------------------
(* Theorems *)

\* Helper: the inductive invariant.
THEOREM Invariance == Spec => []IInv
<1>1. IInv /\ [Next]_vars => IInv'
  BY ServiceKept, LookupKept DEF IInv
<1> QED
  BY <1>1, InvInit, PTL DEF Spec

\* The type invariant of the service (internal/bootstrap/service.go): one refresh at a
\* time, of Start until it has returned and of the loop afterwards, and a resolver from
\* then on.
THEOREM TypeCorrect == Spec => []TypeOK
BY Invariance, PTL DEF IInv

\* A refresh is all or nothing: whatever fails, and whatever IANA publishes meanwhile,
\* the resolver that LoadAll built is one whole load.
THEOREM ResolverIsWholeLoad == Spec => []WholeLoad
BY Invariance, PTL DEF IInv, LoadInv

\* Lookups set the one client's resolver under each other's feet (fetchDomainData), and
\* still none asks with older data than it or a lookup that it overlapped had read.
THEOREM LookupsNeverGoBack == Spec => []LookupFollowsRefresh
BY Invariance, PTL DEF IInv, LookupInv

\* Once a refresh has seen the validator, the allowlist is that of the resolver between
\* any two refreshes.
THEOREM AllowlistIsCurrent == Spec => []AllowlistFollowsRefresh
<1>1. Init => AllowlistFollowsRefresh
  BY DEF Init, AllowlistFollowsRefresh
<1>2. IInv /\ AllowlistFollowsRefresh /\ [Next]_vars => AllowlistFollowsRefresh'
  <2> SUFFICES ASSUME IInv, AllowlistFollowsRefresh, [Next]_vars, synced', ~load'.swapped
               PROVE  allowed' = Servers(resolver)'
    BY DEF AllowlistFollowsRefresh
  <2>1. CASE UNCHANGED <<resolver, allowed, synced, load>>
    BY <2>1 DEF AllowlistFollowsRefresh, Servers
  <2>2. CASE LoadFile \/ LoadFails
    <3>1. load.by # "none" /\ load.files < 4
      BY <2>2, FilesListed DEF LoadFile, LoadFails
    <3>2. ~load.swapped
      BY <3>1, FilesListed DEF IInv, LoadInv
    <3> QED
      BY <2>2, <3>2 DEF LoadFile, LoadFails, AllowlistFollowsRefresh, Servers
  <2>3. CASE Swap
    <3>1. load' = [load EXCEPT !.swapped = TRUE, !.updates = attached]
      BY <2>3 DEF Swap
    <3>2. load \in Load
      BY <2>3, LoadUnderWay DEF Swap, IInv
    <3> QED
      BY <3>1, <3>2 DEF Load
  <2>4. CASE EndRefresh
    BY <2>4 DEF EndRefresh, UpdateAllowlist, Servers
  <2>5. CASE SelectTick \/ Start
    <3>1. load.by # "main" /\ load.by # "loop"
      BY <2>5 DEF SelectTick, Start, IInv, TypeOK
    <3>2. ~load.swapped
      BY <3>1, LoadUnderWay DEF IInv, Load
    <3> QED
      BY <2>5, <3>2 DEF SelectTick, Start, AllowlistFollowsRefresh, Servers
  <2>6. CASE NewLookupHandler
    BY <2>6 DEF NewLookupHandler, Servers, service
  <2>7. CASE \E f \in Changing : Publish(f)
    BY <2>1, <2>7 DEF Publish, service
  <2>8. CASE Ticker \/ SelectStop \/ NewClient \/ SetServerValidator \/ Stop \/ StopReturns
    BY <2>1, <2>8
    DEF Ticker, SelectStop, NewClient, SetServerValidator, Stop, StopReturns, service
  <2>9. CASE \E p \in Procs : Lookup(p)
    BY <2>1, <2>9 DEF Lookup, ReadResolver, SetClient, Ask, Answer, AskFails, service
  <2>10. CASE UNCHANGED vars
    BY <2>1, <2>10 DEF vars, service
  <2> QED
    BY <2>2, <2>3, <2>4, <2>5, <2>6, <2>7, <2>8, <2>9, <2>10
    DEF Next, Refresh, Loop, Run, Exited
<1> QED
  BY <1>1, <1>2, Invariance, PTL DEF Spec

\* Stop waits for the loop, so once it has returned nothing refreshes any more: neither
\* the resolver nor the allowlist changes.
THEOREM StoppedForGood == Spec => StopIsFinal
<1>1. IInv /\ [Next]_vars => [main = "exited" => UNCHANGED <<resolver, allowed>>]_vars
  <2> SUFFICES ASSUME IInv, Next, main = "exited"
               PROVE  UNCHANGED <<resolver, allowed>>
    OBVIOUS
  <2>1. load.by = "none" /\ ~load.swapped
    <3>1. load.by # "main" /\ load.by # "loop"
      BY DEF IInv, TypeOK, ExitInv
    <3> QED
      BY <3>1, LoadUnderWay DEF IInv, Load
  <2>2. ~Refresh
    BY <2>1 DEF Refresh, LoadFile, LoadFails, Swap, EndRefresh
  <2>3. Run => FALSE
    BY DEF Run, Start, NewClient, NewLookupHandler, SetServerValidator, Stop, StopReturns
  <2> QED
    BY <2>2, <2>3
    DEF Next, Publish, Ticker, Loop, SelectTick, SelectStop, Lookup, ReadResolver, SetClient,
        Ask, Answer, AskFails, Exited, vars, service
<1> QED
  BY <1>1, Invariance, PTL DEF Spec, StopIsFinal
=============================================================================
