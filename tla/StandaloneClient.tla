--------------------------- MODULE StandaloneClient ---------------------------
(***************************************************************************)
(* pkg/rdaplookup/standalone.go: the library client that asks RDAP servers *)
(* itself.  The first lookup loads IANA's files under a sync.Once, while   *)
(* every other waits for it; a goroutine loads them again at each tick;    *)
(* any goroutine may look up, run a batch, or close the client.            *)
(*                                                                         *)
(* The resolver is published twice, for the allowlist under a mutex and in *)
(* the RDAP client without any; each is a step of its own, as are a probe  *)
(* of the cache, a query, and the store of what it brought.                *)
(*                                                                         *)
(* Abstractions: a resolver is the number of the load it came from; a      *)
(* query, retries included, is one exchange (RdapClient has them); cached  *)
(* entries outlive the run; a racy read of the RDAP client's resolver sees *)
(* the old one or the new one.                                             *)
(***************************************************************************)
EXTENDS Integers, FiniteSets, Sequences

CONSTANTS
    Callers,        \* goroutines that look up
    Workers,        \* those of them that a BatchLookup starts
    Closers,        \* goroutines that call Close
    Keys,           \* cache keys: what is looked up
    Queries,        \* of the batch: worker -> what it may look up, NoKey for another type
    Barred,         \* keys of entities at an unlisted server, and of what does not parse
    MaxConcurrency, \* of a batch
    MaxLoads,       \* bound: loads that succeed
    MaxTicks,       \* bound: ticks of the refresh
    MaxCalls,       \* bound: lookups
    NoKey

ASSUME StandaloneAssumption ==
    /\ Workers \subseteq Callers /\ Barred \subseteq Keys /\ NoKey \notin Keys
    /\ Callers \intersect {"idle", "done"} = {}
    /\ Queries \in [Workers -> (SUBSET (Keys \union {NoKey})) \ {{}}]
    /\ MaxConcurrency \in Nat \ {0}
    /\ {MaxLoads, MaxTicks, MaxCalls} \subseteq Nat

VARIABLES
    closed, cancelled,  \* closed.Swap, and the context of the refresh
    once,               \* bootstrapOnce: "idle", "done", or who runs it
    bootstrapErr,       \* what the first load ended in
    resolver,           \* c.resolver: the number of a load, 0 for nil
    rdapResolver,       \* the resolver of c.rdapClient
    loop, loopLoaded,   \* backgroundRefresh, and what it has loaded
    place, key,         \* where each caller is, and what it looks up
    loaded,             \* what the first load has brought
    outcome,            \* what each caller's last lookup came to
    cache,              \* key -> "data", "denied" or "absent"
    batch,              \* "idle", "running" or "returned"
    closing,            \* where each closer is
    loads, ticks, calls,
    firstLoad,          \* history: how the first load went, if it was tried
    overlapped          \* history: a load began before another was published

clientVars == <<closed, cancelled, once, bootstrapErr, resolver, rdapResolver, loop,
                loopLoaded, place, key, loaded, outcome, cache, batch, closing, loads,
                ticks, calls, firstLoad, overlapped>>

lookupVars == <<place, key, outcome, cache, batch, calls>>
loadVars == <<once, bootstrapErr, resolver, rdapResolver, loaded, loads, firstLoad, overlapped>>
loopVars == <<loop, loopLoaded, ticks>>
closeVars == <<closed, cancelled, closing>>

Served == {"data", "denied", "failed", "notAllowed"}

StandaloneInit ==
    /\ closed = FALSE /\ cancelled = FALSE
    /\ once = "idle" /\ bootstrapErr = "none" /\ firstLoad = "none" /\ overlapped = FALSE
    /\ resolver = 0 /\ rdapResolver = 0 /\ loaded = 0
    /\ loop = "wait" /\ loopLoaded = 0
    /\ place = [c \in Callers |-> "idle"] /\ key = [c \in Callers |-> NoKey]
    /\ outcome = [c \in Callers |-> "none"]
    /\ cache = [k \in Keys |-> "absent"]
    /\ batch = "idle"
    /\ closing = [k \in Closers |-> "idle"]
    /\ loads = 0 /\ ticks = 0 /\ calls = 0

-----------------------------------------------------------------------------
(* Lookups: LookupDomain, LookupIP, LookupASN and LookupEntity *)

Return(c, result) ==
    /\ place' = [place EXCEPT ![c] = "idle"]
    /\ key' = [key EXCEPT ![c] = NoKey]
    /\ outcome' = [outcome EXCEPT ![c] = result]

Go(c, where) == place' = [place EXCEPT ![c] = where] /\ UNCHANGED <<key, outcome>>

\* A lookup begins: the closed flag is read once.
Lookup(c, k) ==
    /\ IF closed THEN Return(c, "closed")
       ELSE /\ place' = [place EXCEPT ![c] = "ensure"]
            /\ key' = [key EXCEPT ![c] = k]
            /\ UNCHANGED outcome
    /\ UNCHANGED <<cache, batch, loadVars, loopVars, closeVars>>

Call(c, k) ==
    /\ c \notin Workers /\ place[c] = "idle" /\ calls < MaxCalls
    /\ calls' = calls + 1
    /\ Lookup(c, k)

\* Mutant: a client that is ready by IsReady needs no first load.
OnceDoneOrReady == once = "done" \/ resolver # 0
OnceDone == once = "done"

\* ensureBootstrap: the first runs the load, the others wait for its end.
EnsureBootstrap(c) ==
    /\ place[c] = "ensure"
    /\ \/ /\ OnceDone
          /\ IF bootstrapErr = "failed" THEN Return(c, "refused") ELSE Go(c, "look")
          /\ UNCHANGED loadVars
       \/ /\ once = "idle" /\ ~OnceDone
          /\ once' = c
          /\ overlapped' = (overlapped \/ loop \notin {"wait", "ended"})
          /\ Go(c, "load")
          /\ UNCHANGED <<bootstrapErr, resolver, rdapResolver, loaded, loads, firstLoad>>
    /\ UNCHANGED <<cache, batch, calls, loopVars, closeVars>>

\* The first load fails, the context of that first caller included.
LoadFails(c) ==
    /\ place[c] = "load"
    /\ once' = "done" /\ bootstrapErr' = "failed" /\ firstLoad' = "failed"
    /\ Return(c, "refused")
    /\ UNCHANGED <<resolver, rdapResolver, loaded, loads, overlapped, cache, batch, calls,
                   loopVars, closeVars>>

LoadBrings(c) ==
    /\ place[c] = "load" /\ loads < MaxLoads
    /\ loads' = loads + 1 /\ loaded' = loads'
    /\ Go(c, "publish")
    /\ UNCHANGED <<once, bootstrapErr, resolver, rdapResolver, firstLoad, overlapped, cache,
                   batch, calls, loopVars, closeVars>>

Publish(c) ==
    /\ place[c] = "publish"
    /\ resolver' = loaded
    /\ Go(c, "setResolver")
    /\ UNCHANGED <<once, bootstrapErr, rdapResolver, loaded, loads, firstLoad, overlapped, cache,
                   batch, calls, loopVars, closeVars>>

\* The RDAP client's, and the end of the once.
SetResolver(c) ==
    /\ place[c] = "setResolver"
    /\ rdapResolver' = loaded
    /\ once' = "done" /\ firstLoad' = "ok"
    /\ Go(c, "look")
    /\ UNCHANGED <<bootstrapErr, resolver, loaded, loads, overlapped, cache, batch, calls,
                   loopVars, closeVars>>

\* isServerAllowed for an entity, and the cache.
Look(c) ==
    /\ place[c] = "look"
    /\ IF key[c] \in Barred THEN Return(c, "notAllowed")
       ELSE IF cache[key[c]] # "absent" THEN Return(c, cache[key[c]])
       ELSE Go(c, "query")
    /\ UNCHANGED <<cache, batch, calls, loadVars, loopVars, closeVars>>

\* The RDAP query ends; objects and denials are stored.
QueryEnds(c, said) ==
    /\ place[c] = "query" /\ said \in {"data", "denied", "failed"}
    /\ IF said = "failed" THEN Return(c, "failed")
       ELSE /\ place' = [place EXCEPT ![c] = "store"]
            /\ outcome' = [outcome EXCEPT ![c] = said]
            /\ UNCHANGED key
    /\ UNCHANGED <<cache, batch, calls, loadVars, loopVars, closeVars>>

Store(c) ==
    /\ place[c] = "store"
    /\ cache' = [cache EXCEPT ![key[c]] = outcome[c]]
    /\ Return(c, outcome[c])
    /\ UNCHANGED <<batch, calls, loadVars, loopVars, closeVars>>

-----------------------------------------------------------------------------
(* BatchLookup: a goroutine for each query, of which MaxConcurrency run *)

BatchLookup ==
    /\ batch = "idle" /\ Workers # {}
    /\ IF closed THEN batch' = "returned" /\ UNCHANGED place
       ELSE /\ batch' = "running"
            /\ place' = [c \in Callers |-> IF c \in Workers THEN "queued" ELSE place[c]]
    /\ UNCHANGED <<key, outcome, cache, calls, loadVars, loopVars, closeVars>>

\* Those that hold a slot.
Running == {c \in Workers : place[c] \notin {"idle", "queued"}}

\* Mutant: a failed lookup returns without its slot.
SlotFreeLeaky == Cardinality(Running \union {c \in Workers : outcome[c] = "refused"}) < MaxConcurrency
SlotFree == Cardinality(Running) < MaxConcurrency

\* The semaphore, which no context interrupts, and the lookup of the query's type; a query
\* of another type is refused at once and gives its slot back.
TakeSlot(c) ==
    /\ c \in Workers /\ place[c] = "queued" /\ SlotFree
    /\ \/ \E k \in Queries[c] \ {NoKey} : Lookup(c, k)
       \/ /\ NoKey \in Queries[c]
          /\ Return(c, "unsupported")
          /\ UNCHANGED <<cache, batch, loadVars, loopVars, closeVars>>
    /\ UNCHANGED calls

BatchReturns ==
    /\ batch = "running" /\ \A c \in Workers : place[c] = "idle"
    /\ batch' = "returned"
    /\ UNCHANGED <<place, key, outcome, cache, calls, loadVars, loopVars, closeVars>>

-----------------------------------------------------------------------------
(* backgroundRefresh *)

\* Mutant: the loop does not look at its context.
LoopCancelledNever == FALSE
LoopCancelled == cancelled

Tick ==
    /\ loop = "wait" /\ ticks < MaxTicks
    /\ ticks' = ticks + 1
    /\ loop' = "load"
    /\ overlapped' = (overlapped \/ once \in Callers)
    /\ UNCHANGED <<loopLoaded, once, bootstrapErr, resolver, rdapResolver, loaded, loads,
                   firstLoad, lookupVars, closeVars>>

\* A load that fails is left to the next tick.
RefreshFails ==
    /\ loop = "load"
    /\ loop' = "wait"
    /\ UNCHANGED <<loopLoaded, ticks, loadVars, lookupVars, closeVars>>

RefreshBrings ==
    /\ loop = "load" /\ loads < MaxLoads
    /\ loads' = loads + 1 /\ loopLoaded' = loads'
    /\ loop' = "publish"
    /\ UNCHANGED <<ticks, once, bootstrapErr, resolver, rdapResolver, loaded, firstLoad,
                   overlapped, lookupVars, closeVars>>

RefreshPublishes ==
    /\ loop = "publish"
    /\ resolver' = loopLoaded
    /\ loop' = "setResolver"
    /\ UNCHANGED <<loopLoaded, ticks, once, bootstrapErr, rdapResolver, loaded, loads, firstLoad,
                   overlapped, lookupVars, closeVars>>

RefreshSetsResolver ==
    /\ loop = "setResolver"
    /\ rdapResolver' = loopLoaded
    /\ loop' = "wait"
    /\ UNCHANGED <<loopLoaded, ticks, once, bootstrapErr, resolver, loaded, loads, firstLoad,
                   overlapped, lookupVars, closeVars>>

LoopEnds ==
    /\ loop = "wait" /\ LoopCancelled
    /\ loop' = "ended"
    /\ UNCHANGED <<loopLoaded, ticks, loadVars, lookupVars, closeVars>>

-----------------------------------------------------------------------------
(* Close *)

\* Whoever comes second returns at once, while the first may still wait.
SwapClosed(k) ==
    /\ closing[k] = "idle"
    /\ closed' = TRUE
    /\ closing' = [closing EXCEPT ![k] = IF closed THEN "second" ELSE "cancel"]
    /\ UNCHANGED <<cancelled, loadVars, lookupVars, loopVars>>

CancelRefresh(k) ==
    /\ closing[k] = "cancel"
    /\ cancelled' = TRUE
    /\ closing' = [closing EXCEPT ![k] = "join"]
    /\ UNCHANGED <<closed, loadVars, lookupVars, loopVars>>

\* Mutant: the goroutine is cancelled and not waited for.
JoinedAtOnce == TRUE
Joined == loop = "ended"

\* wg.Wait returns, and the cache is cleared; a lookup under way may fill it again.
Release(k) ==
    /\ closing[k] = "join" /\ Joined
    /\ closing' = [closing EXCEPT ![k] = "first"]
    /\ cache' = [q \in Keys |-> "absent"]
    /\ UNCHANGED <<closed, cancelled, place, key, outcome, batch, calls, loadVars, loopVars>>

-----------------------------------------------------------------------------
\* What a lookup, the refresh and a Close do once they have begun.
LookupStep(c) == \/ EnsureBootstrap(c) \/ LoadFails(c) \/ LoadBrings(c) \/ Publish(c)
                 \/ SetResolver(c) \/ Look(c) \/ Store(c)
                 \/ \E said \in {"data", "denied", "failed"} : QueryEnds(c, said)
RefreshStep == \/ RefreshFails \/ RefreshBrings \/ RefreshPublishes \/ RefreshSetsResolver
               \/ LoopEnds
CloseStep(k) == CancelRefresh(k) \/ Release(k)

\* What has begun goes on by itself: loads and queries have timeouts.  Nobody need call,
\* and no tick need come.
StandaloneFairness ==
    /\ \A c \in Callers : WF_clientVars(LookupStep(c) \/ TakeSlot(c))
    /\ WF_clientVars(BatchReturns)
    /\ WF_clientVars(RefreshStep)
    /\ \A k \in Closers : WF_clientVars(CloseStep(k))

-----------------------------------------------------------------------------
(* Properties *)

ClientTypeOK ==
    /\ {closed, cancelled, overlapped} \subseteq BOOLEAN
    /\ once \in {"idle", "done"} \union Callers
    /\ bootstrapErr \in {"none", "failed"} /\ firstLoad \in {"none", "ok", "failed"}
    /\ {resolver, rdapResolver, loaded, loopLoaded, loads} \subseteq 0..MaxLoads
    /\ loop \in {"wait", "load", "publish", "setResolver", "ended"}
    /\ place \in [Callers -> {"idle", "queued", "ensure", "load", "publish",
                              "setResolver", "look", "query", "store"}]
    /\ \A c \in Callers : (key[c] = NoKey) = (place[c] \in {"idle", "queued"})
    /\ key \in [Callers -> Keys \union {NoKey}]
    /\ outcome \in [Callers -> Served \union {"none", "closed", "refused", "unsupported"}]
    /\ cache \in [Keys -> {"data", "denied", "absent"}]
    /\ batch \in {"idle", "running", "returned"}
    /\ closing \in [Closers -> {"idle", "cancel", "join", "first", "second"}]
    /\ ticks \in 0..MaxTicks /\ calls \in 0..MaxCalls

Publishing == loop = "setResolver" \/ \E c \in Callers : place[c] = "setResolver"

\* Whoever is past ensureBootstrap finds a resolver in the RDAP client, which would be a
\* nil dereference else, though IsReady is true earlier and a refresh publishes at the
\* same time; and unless a first load and a refresh overlapped, which may leave them with
\* different ones for good, the allowlist and the RDAP client have the same resolver
\* whenever nobody is between the two assignments.
ResolversServe ==
    /\ \A c \in Callers : place[c] \in {"look", "query", "store"} => rdapResolver # 0
    /\ ~overlapped /\ ~Publishing => resolver = rdapResolver

\* The first load is tried by one caller and decides for all, whatever a refresh brings
\* later: no lookup is served before it or without it, and none is refused unless it
\* failed.  (So a first caller whose context was cancelled shuts out every later one.)
FirstLoadDecides ==
    /\ \A c \in Callers :
           /\ outcome[c] \in Served => firstLoad = "ok"
           /\ outcome[c] = "refused" => firstLoad = "failed"
           /\ firstLoad = "failed" => place[c] \notin {"load", "look", "query", "store"}
    /\ Cardinality({c \in Callers : place[c] \in {"load", "publish", "setResolver"}}) <= 1

\* Once the Close that came first has returned, the refresh has ended for good, and a
\* resolver changes only by the hand of a lookup that was under way.
CloseIsFinal ==
    [][(\E k \in Closers : closing[k] = "first") =>
          /\ loop = "ended" /\ loop' = "ended"
          /\ resolver' # resolver => \E c \in Callers : place[c] = "publish"]_clientVars

\* Every lookup and every Close returns, and a batch too, even while a load hangs until
\* its timeout, others wait for it, and the client is closed meanwhile.
CallsReturn ==
    /\ \A c \in Callers \ Workers : (place[c] # "idle") ~> (place[c] = "idle")
    /\ \A k \in Closers : (closing[k] # "idle") ~> (closing[k] \in {"first", "second"})
    /\ (batch = "running") ~> (batch = "returned")
=============================================================================
