--------------------------- MODULE BootstrapService ---------------------------
(***************************************************************************)
(* bootstrap.Service (internal/bootstrap/service.go) as cmd/rdap-lookup    *)
(* runs it: the initial load, the background refresh and its end, and what *)
(* follows a refresh: the resolver of the rdap.Client, which every domain  *)
(* lookup sets again before it asks, and the allowlist of the validator    *)
(* for entity lookups.                                                     *)
(*                                                                         *)
(* Abstractions: editions of the bootstrap files are numbered as they come *)
(* out, and a file, as well as the servers in it, is the number of its     *)
(* edition.  IANA publishes a file at any time.  What a                    *)
(* server answers, and the metrics and the staleness warning, which change *)
(* nothing else, are left out.                                             *)
(***************************************************************************)
EXTENDS Integers, Sequences, FiniteSets, FiniteSetsExt

CONSTANTS
    Procs,        \* goroutines of domain lookups
    Listed,       \* editions of the DNS file in which the TLD has a server
    Attaching,    \* main may call SetServerValidator
    Changing,     \* bound: the files that change during a run
    MaxEditions,  \* bound: editions published during a run
    MaxRequests,  \* bound: lookups during a run
    Nil           \* no resolver, no edition, no server

\* The files in the order of LoadAll.
File == <<"dns", "ipv4", "ipv6", "asn">>
Files == {File[i] : i \in DOMAIN File}

ASSUME ParamsAssumption ==
    /\ IsFiniteSet(Procs)
    /\ Listed \subseteq Nat
    /\ Attaching \in BOOLEAN
    /\ Changing \subseteq Files
    /\ MaxEditions \in Nat /\ MaxRequests \in Nat

Editions == 0..MaxEditions
Resolver == [Files -> Editions]

ASSUME NilAssumption == Nil \notin Editions \union Resolver

VARIABLES
    iana,      \* the current edition of each file
    published, \* editions so far
    load,      \* the refresh under way: files loaded, and the editions when it began
    resolver,  \* Service.resolver
    attached,  \* Service.serverValidator is set
    stopCh, doneCh,  \* closed
    ticked,    \* the refresh ticker has fired
    main,      \* where run() is
    loop,      \* where backgroundRefresh is
    client,    \* rdap.Client.resolver
    allowed,   \* the servers of the validator's allowlist
    pc, held,  \* where each lookup is, and the resolver that it read
    asked, named,  \* the server each lookup asked, and the one in its answer
    began,     \* history: the editions when the load of the resolver began
    synced,    \* history: a refresh has finished since the validator was attached
    floor,     \* history: the oldest data that a lookup may ask with
    lookups    \* history: lookups so far

service == <<resolver, attached, stopCh, doneCh, ticked, load, began, synced>>
requests == <<pc, held, asked, named, floor, lookups>>
world == <<iana, published>>
vars == <<world, service, main, loop, client, allowed, requests>>

\* GetAllRDAPServers, normalised.
Servers(r) == {<<f, r[f]>> : f \in Files}

NoLoad == [by |-> "none", files |-> 0, read |-> Nil, since |-> Nil, swapped |-> FALSE,
           updates |-> FALSE]
Load == [by: {"main", "loop"}, files: 0..4, read: [Files -> Editions \union {Nil}],
         since: Resolver, swapped: BOOLEAN, updates: BOOLEAN]

TypeOK ==
    /\ iana \in Resolver /\ published \in Editions
    /\ load \in Load \union {NoLoad}
    /\ resolver \in Resolver \union {Nil}
    /\ began \in Resolver \union {Nil}
    /\ attached \in BOOLEAN /\ synced \in BOOLEAN
    /\ stopCh \in BOOLEAN /\ doneCh \in BOOLEAN /\ ticked \in BOOLEAN
    /\ main \in {"start", "load", "client", "handler", "attach", "serve", "wait", "exited"}
    /\ loop \in {"none", "select", "refresh", "gone"}
    /\ client \in Resolver \union {Nil}
    /\ allowed \in SUBSET (Files \X Editions)
    /\ pc \in [Procs -> {"idle", "set", "ask", "answer"}]
    /\ held \in [Procs -> Resolver \union {Nil}]
    /\ asked \in [Procs -> Editions \union {Nil}]
    /\ named \in [Procs -> Editions \union {Nil}]
    /\ floor \in [Procs -> Editions \union {Nil}]
    /\ lookups \in 0..MaxRequests
    \* One refresh at a time, of main until the loop is started.
    /\ main = "load" <=> load.by = "main"
    /\ loop = "refresh" <=> load.by = "loop"
    /\ main \in {"start", "load"} => loop = "none"
    /\ main \notin {"start", "load", "exited"} => resolver # Nil

Init ==
    /\ iana = [f \in Files |-> 0] /\ published = 0
    /\ load = NoLoad
    /\ resolver = Nil /\ began = Nil
    /\ attached = FALSE /\ stopCh = FALSE /\ doneCh = FALSE
    /\ ticked = FALSE /\ synced = FALSE
    /\ main = "start"
    /\ loop = "none"
    /\ client = Nil
    /\ allowed = {}
    /\ pc = [p \in Procs |-> "idle"]
    /\ held = [p \in Procs |-> Nil]
    /\ asked = [p \in Procs |-> Nil]
    /\ named = [p \in Procs |-> Nil]
    /\ floor = [p \in Procs |-> Nil]
    /\ lookups = 0


\* IANA publishes a new edition of a file.
Publish(f) ==
    /\ published < MaxEditions
    /\ published' = published + 1
    /\ iana' = [iana EXCEPT ![f] = published']
    /\ UNCHANGED <<service, main, loop, client, allowed, requests>>

-----------------------------------------------------------------------------
(* refresh, called by Start for the initial load and by the loop *)

BeginLoad(who) ==
    load' = [by |-> who, files |-> 0, read |-> [f \in Files |-> Nil], since |-> iana,
             swapped |-> FALSE, updates |-> FALSE]

\* LoadAll: a file at a time.
LoadFile ==
    /\ load.by # "none" /\ load.files < Len(File)
    /\ LET f == File[load.files + 1]
       IN  load' = [load EXCEPT !.files = @ + 1, !.read[f] = iana[f]]
    /\ UNCHANGED <<world, resolver, attached, stopCh, doneCh, ticked, began, synced, main, loop,
                   client, allowed, requests>>

\* Mutant: a file that cannot be had does not end the load.
LoadFailsSoftly ==
    /\ load.by # "none" /\ load.files < Len(File)
    /\ load' = [load EXCEPT !.files = @ + 1]
    /\ UNCHANGED <<world, resolver, attached, stopCh, doneCh, ticked, began, synced, main, loop,
                   client, allowed, requests>>
\* A fetch that fails or times out, or a file that does not parse, ends the refresh:
\* Start returns the error, and run with it; the loop keeps the resolver it has.
LoadFails ==
    /\ load.by # "none" /\ load.files < Len(File)
    /\ load' = NoLoad
    /\ main' = IF load.by = "main" THEN "exited" ELSE main
    /\ loop' = IF load.by = "loop" THEN "select" ELSE loop
    /\ UNCHANGED <<world, resolver, attached, stopCh, doneCh, ticked, began, synced, client,
                   allowed, requests>>


\* Under the mutex: the new resolver, and whether there is a validator to update.
Swap ==
    /\ load.by # "none" /\ load.files = Len(File) /\ ~load.swapped
    /\ resolver' = load.read
    /\ began' = load.since
    /\ load' = [load EXCEPT !.swapped = TRUE, !.updates = attached]
    /\ UNCHANGED <<world, attached, stopCh, doneCh, ticked, synced, main, loop, client, allowed,
                   requests>>

\* Mutant: servers are added, and those that left the files stay.
UpdateAllowlistMerges == allowed \union Servers(resolver)
UpdateAllowlist == Servers(resolver)

\* Outside it: the allowlist.  The refresh ends: Start spawns the loop.
EndRefresh ==
    /\ load.swapped
    /\ allowed' = IF load.updates THEN UpdateAllowlist ELSE allowed
    /\ synced' = load.updates
    /\ load' = NoLoad
    /\ main' = IF load.by = "main" THEN "client" ELSE main
    /\ loop' = "select"
    /\ UNCHANGED <<world, resolver, attached, stopCh, doneCh, ticked, began, client, requests>>

-----------------------------------------------------------------------------
(* backgroundRefresh *)

\* The channel of the ticker holds one tick.
Ticker ==
    /\ loop \in {"select", "refresh"} /\ ~ticked
    /\ ticked' = TRUE
    /\ UNCHANGED <<world, resolver, attached, stopCh, doneCh, load, began, synced, main, loop,
                   client, allowed, requests>>

\* select takes any branch that is ready: a tick may win over a closed stopCh.
SelectTick ==
    /\ loop = "select" /\ ticked
    /\ ticked' = FALSE
    /\ loop' = "refresh"
    /\ BeginLoad("loop")
    /\ UNCHANGED <<world, resolver, attached, stopCh, doneCh, began, synced, main, client,
                   allowed, requests>>

\* Mutant: stopCh is looked at only when there is no tick.
StopSeenIdle == stopCh /\ ~ticked
StopSeen == stopCh

SelectStop ==
    /\ loop = "select" /\ StopSeen
    /\ loop' = "gone"
    /\ doneCh' = TRUE
    /\ UNCHANGED <<world, resolver, attached, stopCh, ticked, load, began, synced, main, client,
                   allowed, requests>>

-----------------------------------------------------------------------------
(* run of cmd/rdap-lookup, with Start and Stop *)

Start ==
    /\ main = "start"
    /\ main' = "load"
    /\ BeginLoad("main")
    /\ UNCHANGED <<world, resolver, attached, stopCh, doneCh, ticked, began, synced, loop, client,
                   allowed, requests>>

\* rdap.NewClient(... WithResolver(bs.Resolver()))
NewClient ==
    /\ main = "client"
    /\ main' = "handler"
    /\ client' = resolver
    /\ UNCHANGED <<world, service, loop, allowed, requests>>

\* NewLookupHandler, with a validator of the servers known now.
NewLookupHandler ==
    /\ main = "handler"
    /\ main' \in {"serve"} \union (IF Attaching THEN {"attach"} ELSE {})
    /\ allowed' = Servers(resolver)
    /\ UNCHANGED <<world, service, loop, client, requests>>

\* What Service offers and run does not use.
SetServerValidator ==
    /\ main = "attach"
    /\ main' = "serve"
    /\ attached' = TRUE
    /\ UNCHANGED <<world, resolver, stopCh, doneCh, ticked, load, began, synced, loop, client,
                   allowed, requests>>

\* The server has been shut down, or has failed: the deferred Stop.  Lookups that
\* outlived Shutdown go on.
Stop ==
    /\ main = "serve"
    /\ main' = "wait"
    /\ stopCh' = TRUE
    /\ UNCHANGED <<world, resolver, attached, doneCh, ticked, load, began, synced, loop, client,
                   allowed, requests>>

\* Mutant: Stop does not wait for the loop.
StopWaitsNot == TRUE
StopWaits == doneCh

StopReturns ==
    /\ main = "wait" /\ StopWaits
    /\ main' = "exited"
    /\ UNCHANGED <<world, service, loop, client, allowed, requests>>

-----------------------------------------------------------------------------
(* fetchDomainData, by the goroutine of a lookup; the same four steps for IPs and   *)
(* ASNs, single or in a batch                                                     *)

\* What lookups have read and not set yet.
Pending == {held[q]["dns"] : q \in {q \in Procs : pc[q] = "set"}}

\* h.bootstrap.Resolver()
ReadResolver(p) ==
    /\ pc[p] = "idle" /\ main = "serve" /\ lookups < MaxRequests
    /\ lookups' = lookups + 1
    /\ pc' = [pc EXCEPT ![p] = "set"]
    /\ held' = [held EXCEPT ![p] = resolver]
    /\ floor' = [floor EXCEPT ![p] = Min({resolver["dns"]} \union Pending)]
    /\ asked' = [asked EXCEPT ![p] = Nil]
    /\ named' = [named EXCEPT ![p] = Nil]
    /\ UNCHANGED <<world, service, main, loop, client, allowed>>

\* Mutant: a client keeps the resolver it was made with.
SetResolverOnce(r) == client
SetResolver(r) == r

\* Without a lock: lookups set the one client's resolver under each other's feet.
SetClient(p) ==
    /\ pc[p] = "set" /\ main # "exited"
    /\ pc' = [pc EXCEPT ![p] = "ask"]
    /\ client' = SetResolver(held[p])
    /\ held' = [held EXCEPT ![p] = Nil]
    /\ UNCHANGED <<world, service, main, loop, allowed, asked, named, floor, lookups>>

\* QueryDomain resolves the TLD with what the client holds by now; without a server
\* for it the lookup turns to WHOIS, or fails.
Ask(p) ==
    /\ pc[p] = "ask" /\ main # "exited"
    /\ IF client["dns"] \in Listed
       THEN /\ pc' = [pc EXCEPT ![p] = "answer"]
            /\ asked' = [asked EXCEPT ![p] = client["dns"]]
       ELSE /\ pc' = [pc EXCEPT ![p] = "idle"]
            /\ UNCHANGED asked
    /\ UNCHANGED <<world, service, main, loop, client, allowed, held, named, floor, lookups>>

\* The server answered: rdap_server is resolved once more, with what the service
\* holds by now, and left empty when that has no server for the TLD.
Answer(p) ==
    /\ pc[p] = "answer" /\ main # "exited"
    /\ pc' = [pc EXCEPT ![p] = "idle"]
    /\ named' = [named EXCEPT ![p] = IF resolver["dns"] \in Listed THEN resolver["dns"]
                                     ELSE Nil]
    /\ UNCHANGED <<world, service, main, loop, client, allowed, held, asked, floor, lookups>>

\* Every server failed.
AskFails(p) ==
    /\ pc[p] = "answer" /\ main # "exited"
    /\ pc' = [pc EXCEPT ![p] = "idle"]
    /\ UNCHANGED <<world, service, main, loop, client, allowed, held, asked, named, floor,
                   lookups>>

-----------------------------------------------------------------------------
Refresh == LoadFile \/ LoadFails \/ Swap \/ EndRefresh
Loop == SelectTick \/ SelectStop
Run == Start \/ NewClient \/ NewLookupHandler \/ SetServerValidator \/ Stop \/ StopReturns
Lookup(p) == ReadResolver(p) \/ SetClient(p) \/ Ask(p) \/ Answer(p) \/ AskFails(p)

\* The process is gone.
Exited == main = "exited" /\ UNCHANGED vars

Next ==
    \/ \E f \in Changing : Publish(f)
    \/ Refresh \/ Ticker \/ Loop \/ Run
    \/ \E p \in Procs : Lookup(p)
    \/ Exited

Spec == Init /\ [][Next]_vars

\* A load ends, at the latest by its time limit; select chooses at random among what
\* is ready, so a closed stopCh is not passed over for ever.
FairSpec ==
    /\ Spec
    /\ WF_vars(Refresh) /\ WF_vars(Loop) /\ SF_vars(SelectStop)
    /\ WF_vars(Start \/ NewClient \/ NewLookupHandler \/ SetServerValidator \/ StopReturns)

-----------------------------------------------------------------------------
(* Properties *)

\* All or nothing: the resolver is one whole load.  Each of its files was current at
\* some time since that load began, and none is left from an earlier load.
WholeLoad ==
    resolver # Nil => \A f \in Files : resolver[f] \in began[f]..iana[f]

\* Although lookups set the one client's resolver without a lock, none asks with data
\* older than what it, or a lookup that it overlapped, had read; and the answer does
\* not name a server of older data than the one that was asked.
LookupFollowsRefresh ==
    \A p \in Procs :
        /\ asked[p] # Nil => asked[p] >= floor[p]
        /\ named[p] # Nil => named[p] >= asked[p]

\* "Update SSRF allowlist if validator is set": between two refreshes, the first of
\* which saw the validator, the allowlist is that of the resolver.
AllowlistFollowsRefresh ==
    synced /\ ~load.swapped => allowed = Servers(resolver)

\* The same for the program as run() wires it: "This should be called whenever
\* bootstrap data is refreshed" (UpdateAllowlist, internal/validate/url.go:59).
AllowlistFollowsResolver ==
    main = "serve" /\ load = NoLoad => allowed = Servers(resolver)

\* Once Stop has returned nothing is refreshed any more.
StopIsFinal ==
    [][main = "exited" => UNCHANGED <<resolver, allowed>>]_vars

\* Stop does not hang: it waits for a loop that may be anywhere in a refresh.
StopEnds == (main = "wait") ~> (main = "exited")
=============================================================================
