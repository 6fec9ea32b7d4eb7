--------------------------- MODULE ClientToolProofs ---------------------------
(* What holds of a StandaloneClient, whoever uses it: a library's goroutines, the       *)
(* command-line tool or the analyzer, for any number of callers, closers and refreshes; *)
(* and what the two tools end with, for any command lines and feeds.                    *)
EXTENDS ClientTool, FiniteSetTheorems, TLAPS

-----------------------------------------------------------------------------
(* The steps of a client *)

\* A caller that is not in the middle of a lookup, and no worker of a batch, begins one.
Begin(c) == c \notin Workers /\ place[c] = "idle" /\ \E k \in Keys : Lookup(c, k)

\* Every step that a client takes, by whomever.
ClientAction ==
    \/ \E c \in Callers : Begin(c) \/ TakeSlot(c) \/ LookupStep(c)
    \/ BatchLookup \/ BatchReturns
    \/ RefreshStep \/ Tick
    \/ \E k \in Closers : SwapClosed(k) \/ CloseStep(k)

\* Inductive: how the tools use the client.  The one call of a command line is for a key
\* there is, and the analyzer begins a lookup only when its last one is over.
AnalysisShape ==
    analysis = [at |-> analysis.at, standalone |-> analysis.standalone,
                ipLookup |-> analysis.ipLookup, feed |-> analysis.feed,
                domains |-> analysis.domains, ips |-> analysis.ips, asked |-> analysis.asked,
                results |-> analysis.results, counts |-> analysis.counts,
                code |-> analysis.code]

ToolInv ==
    /\ AnalysisShape /\ analysis.standalone \in BOOLEAN
    /\ analysis.domains \subseteq Keys /\ analysis.ips \subseteq Keys
    /\ analysis.at # "none" => line = Analyze
    /\ line \notin Lines => step = "parse"
    /\ step = "call" => config = ParseConfig(Tail(line)) /\ Decide = Ended(0, "go on")
    /\ (analysis.at # "none" /\ ~(analysis.at = "wait" /\ analysis.standalone)) =>
           place[Tool] = "idle"

\* Helper: a tool that goes on is told from one that ends.
LEMMA VerdictsDiffer ==
    /\ Ended(0, "help") # Ended(0, "go on")
    /\ \A says : Ended(1, says) # Ended(0, "go on")
<1>1. Ended(0, "go on").code = 0 /\ Ended(0, "go on").says = "go on"
  BY DEF Ended
<1>2. Ended(0, "help") # Ended(0, "go on")
  <2>1. Ended(0, "help").says = "help"
    BY DEF Ended
  <2> QED
    BY <1>1, <2>1
<1>3. ASSUME NEW says
      PROVE  Ended(1, says) # Ended(0, "go on")
  <2>1. Ended(1, says).code = 1 /\ 1 # 0
    BY DEF Ended
  <2> QED
    BY <1>1, <2>1, Zenon
<1> QED
  BY <1>2, <1>3

\* Helper: a command line that gets as far as a lookup is for a key there is.
LEMMA CallIsForAKey ==
    ASSUME ToolInv, step = "call", config.standalone, line[1] # "batch"
    PROVE  KeyOf[config.remaining[1]] \in Keys
<1> DEFINE c == ParseConfig(Tail(line))
<1>1. config = c /\ Decide = Ended(0, "go on") /\ line \in Lines
  BY DEF ToolInv
<1> HIDE DEF c
<1>2. /\ line # <<>> /\ line[1] \in LookupCommands \union {"batch", "health"}
      /\ c.err = "none" /\ ~c.help /\ ~(line[1] = "health" /\ c.standalone)
      /\ Wants(line[1], c.remaining) = "none"
  BY <1>1, VerdictsDiffer DEF Decide, c
<1>3. line[1] # "entity"
  BY <1>2 DEF Wants, EntityWants
<1>4. line[1] \in {"domain", "ip", "asn"}
  BY <1>1, <1>2, <1>3 DEF LookupCommands
<1>5. c.remaining # <<>>
  BY <1>2, <1>4 DEF Wants
<1>6. line[1] \in LookupCommands \ {"entity"}
  BY <1>4 DEF LookupCommands
<1>7. c.standalone
  BY <1>1
<1>8. c.remaining[1] \in DOMAIN KeyOf
  BY <1>1, <1>2, <1>5, <1>6, <1>7, KeysAssumption DEF c
<1> QED
  BY <1>1, <1>8, ToolAssumption

\* Helper: whoever takes a step, the client's part in it is a step of the client.
LEMMA StepsAreTheClients ==
    ASSUME ToolInv, [Next]_vars
    PROVE  ClientAction \/ UNCHANGED clientVars
<1>0. Tool \in Callers \ Workers /\ ToolCloser \in Closers
  BY AnalyzerAssumption
<1>1. CASE CallClient
  <2>1. CASE config.standalone /\ line[1] = "batch"
    BY <1>1, <2>1 DEF CallClient, ClientAction
  <2>2. CASE config.standalone /\ line[1] # "batch"
    <3>1. KeyOf[config.remaining[1]] \in Keys
      BY <1>1, <2>2, CallIsForAKey DEF CallClient
    <3>2. Call(Tool, KeyOf[config.remaining[1]])
      BY <1>1, <2>2 DEF CallClient
    <3> QED
      BY <1>0, <3>1, <3>2 DEF Call, Begin, ClientAction
  <2>3. CASE ~config.standalone
    BY <1>1, <2>3 DEF CallClient
  <2> QED
    BY <2>1, <2>2, <2>3
<1>2. CASE AnalyzerStep
  <2>1. CASE LookupNext
    <3>1. CASE \E k \in Left : analysis.standalone /\ Lookup(Tool, k)
      <4>1. Left \subseteq Keys
        BY DEF Left, ToolInv
      <4>2. place[Tool] = "idle"
        BY <2>1 DEF LookupNext, ToolInv
      <4> QED
        BY <1>0, <3>1, <4>1, <4>2 DEF Begin, ClientAction
    <3>2. CASE ~\E k \in Left : analysis.standalone /\ Lookup(Tool, k)
      BY <2>1, <3>2 DEF LookupNext, clientVars
    <3> QED
      BY <3>1, <3>2
  <2>2. CASE CloseAnalysisClient
    BY <1>0, <2>2 DEF CloseAnalysisClient, ClientAction
  <2>3. CASE FetchPhishingURLs \/ CreateClient \/ LookupEnds \/ Generate
    BY <2>3 DEF FetchPhishingURLs, CreateClient, LookupEnds, Generate
  <2> QED
    BY <1>2, <2>1, <2>2, <2>3 DEF AnalyzerStep
<1>3. CASE CloseClient
  BY <1>0, <1>3 DEF CloseClient, ClientAction
<1>4. CASE LibraryCall
  <2>1. ASSUME NEW c \in Callers \ Workers, NEW k \in LibraryKeys, Call(c, k)
        PROVE  ClientAction
    BY <2>1, ToolAssumption DEF Call, Begin, ClientAction
  <2> QED
    BY <1>4, <2>1 DEF LibraryCall, ClientAction
<1>5. CASE ClientStep
  BY <1>5 DEF ClientStep, ClientAction
<1>6. CASE RefreshTick
  BY <1>6 DEF RefreshTick, ClientAction
<1>7. CASE Parse \/ RestEnds \/ StandaloneEnds \/ ToolTimeout \/ RequestStep
  BY <1>7 DEF Parse, RestEnds, StandaloneEnds, ToolTimeout, RequestStep
<1>8. CASE Signal
  BY <1>8 DEF Signal
<1>9. CASE UNCHANGED vars
  BY <1>9 DEF vars
<1> QED
  BY <1>1, <1>2, <1>3, <1>4, <1>5, <1>6, <1>7, <1>8, <1>9 DEF Next, MainStep

\* Helper: a record that is changed in some fields keeps its shape.
LEMMA AnalysisKept ==
    ASSUME ToolInv, AnalyzerStep
    PROVE  /\ AnalysisShape' /\ analysis'.standalone = analysis.standalone
           /\ analysis'.domains \subseteq Keys /\ analysis'.ips \subseteq Keys
           /\ analysis.at # "none"
<1>1. CASE FetchPhishingURLs
  <2>1. CASE Ends(1)
    BY <1>1, <2>1 DEF FetchPhishingURLs, Ends, ToolInv, AnalysisShape
  <2>2. ASSUME NEW feed \in Feeds,
               analysis' = [analysis EXCEPT
                    !.at = "create", !.feed = feed,
                    !.domains = ExtractUniqueDomains(feed),
                    !.ips = IF analysis.ipLookup THEN ExtractIPs(feed) ELSE {}]
        PROVE  /\ AnalysisShape' /\ analysis'.standalone = analysis.standalone
               /\ analysis'.domains \subseteq Keys /\ analysis'.ips \subseteq Keys
    <3>1. ExtractUniqueDomains(feed) \subseteq Keys /\ ExtractIPs(feed) \subseteq Keys
      BY AnalyzerAssumption DEF ExtractUniqueDomains, ExtractIPs
    <3> QED
      BY <2>2, <3>1 DEF ToolInv, AnalysisShape
  <2> QED
    BY <1>1, <2>1, <2>2 DEF FetchPhishingURLs
<1>2. CASE LookupNext
  BY <1>2 DEF LookupNext, ToolInv, AnalysisShape
<1>3. CASE LookupEnds
  BY <1>3 DEF LookupEnds, ToolInv, AnalysisShape
<1>4. CASE CreateClient \/ CloseAnalysisClient \/ Generate
  BY <1>4 DEF CreateClient, CloseAnalysisClient, Generate, Ends, ToolInv, AnalysisShape
<1> QED
  BY <1>1, <1>2, <1>3, <1>4 DEF AnalyzerStep

\* Helper: the analyzer's own goroutine does not look up while its client does not.
LEMMA ToolIsFree ==
    ASSUME ToolInv, AnalyzerStep
    PROVE  (analysis'.at # "none" /\ ~(analysis'.at = "wait" /\ analysis'.standalone)) =>
               place'[Tool] = "idle"
<1>1. CASE LookupNext
  BY <1>1 DEF LookupNext, ToolInv, AnalysisShape, clientVars
<1>2. CASE LookupEnds
  BY <1>2 DEF LookupEnds, ToolInv, AnalysisShape, clientVars
<1>3. CASE FetchPhishingURLs \/ CreateClient \/ CloseAnalysisClient \/ Generate
  <2>1. analysis.at \notin {"none", "wait"} /\ place' = place
    BY <1>3
    DEF FetchPhishingURLs, CreateClient, CloseAnalysisClient, Generate, SwapClosed, lookupVars,
        clientVars
  <2> QED
    BY <2>1 DEF ToolInv
<1> QED
  BY <1>1, <1>2, <1>3 DEF AnalyzerStep

\* Helper: what a client does by itself does not begin a lookup of the tool's.
LEMMA ToolStaysFree ==
    ASSUME NEW P, place \in [Callers -> P], ClientStep \/ RefreshTick, place[Tool] = "idle"
    PROVE  place'[Tool] = "idle"
<1>0. Tool \in Callers \ Workers
  BY AnalyzerAssumption
<1>1. ASSUME NEW c \in Callers, LookupStep(c)
      PROVE  place'[Tool] = "idle"
  BY <1>0, <1>1
  DEF LookupStep, EnsureBootstrap, LoadFails, LoadBrings, Publish, SetResolver, Look, Store,
      QueryEnds, Return, Go
<1>2. ASSUME NEW c \in Callers, TakeSlot(c)
      PROVE  place'[Tool] = "idle"
  BY <1>0, <1>2 DEF TakeSlot, Lookup, Return
<1>3. CASE BatchReturns \/ RefreshStep \/ Tick \/ \E k \in Closers : CloseStep(k)
  BY <1>3
  DEF BatchReturns, RefreshStep, RefreshFails, RefreshBrings, RefreshPublishes,
      RefreshSetsResolver, LoopEnds, Tick, CloseStep, CancelRefresh, Release, lookupVars
<1> QED
  BY <1>1, <1>2, <1>3 DEF ClientStep, RefreshTick

\* Helper: every step keeps ToolInv.
LEMMA ToolKept ==
    ASSUME NEW P, place \in [Callers -> P], ToolInv, [Next]_vars
    PROVE  ToolInv'
<1>0. /\ Tool \in Callers \ Workers
      /\ Analyze \notin Lines /\ Library \notin Lines /\ Library # Analyze
  BY AnalyzerAssumption, ToolAssumption DEF Library, Analyze
<1>1. CASE Parse
  BY <1>1 DEF Parse, ToolInv, AnalysisShape, Decide, clientVars
<1>2. CASE AnalyzerStep /\ UNCHANGED toolVars
  <2>1. UNCHANGED <<line, step, config>>
    BY <1>2 DEF toolVars
  <2> QED
    BY <1>2, <2>1, AnalysisKept, ToolIsFree DEF ToolInv, Decide
<1>3. CASE CallClient \/ RestEnds \/ StandaloneEnds \/ CloseClient
  <2>1. UNCHANGED <<line, config, analysis>> /\ (step' = "call" => step = "call")
    BY <1>3 DEF CallClient, RestEnds, HealthGoesOn, StandaloneEnds, CloseClient
  <2>2. analysis.at = "none" /\ line \in Lines
    BY <1>0, <1>3 DEF CallClient, RestEnds, StandaloneEnds, CloseClient, ToolInv
  <2> QED
    BY <2>1, <2>2 DEF ToolInv, AnalysisShape, Decide
<1>4. CASE LibraryCall
  <2>1. UNCHANGED <<line, step, config, analysis>> /\ analysis.at = "none"
    BY <1>0, <1>4 DEF LibraryCall, ToolInv, toolVars
  <2> QED
    BY <2>1 DEF ToolInv, AnalysisShape, Decide
<1>5. CASE ClientStep \/ RefreshTick
  <2>1. UNCHANGED <<line, step, config, analysis>>
    BY <1>5 DEF ClientStep, RefreshTick, toolVars
  <2> QED
    BY <1>5, <2>1, ToolStaysFree DEF ToolInv, AnalysisShape, Decide
<1>6. CASE ToolTimeout \/ RequestStep \/ (Signal /\ UNCHANGED toolVars) \/ UNCHANGED vars
  <2>1. UNCHANGED <<line, step, config, analysis, place>>
    BY <1>6 DEF ToolTimeout, RequestStep, Signal, toolVars, clientVars, vars
  <2> QED
    BY <2>1 DEF ToolInv, AnalysisShape, Decide
<1> QED
  BY <1>1, <1>2, <1>3, <1>4, <1>5, <1>6 DEF Next, MainStep

\* Helper: and it holds at first.
LEMMA ToolInit == Init => ToolInv
<1> SUFFICES ASSUME Init
             PROVE  ToolInv
  OBVIOUS
<1>1. Tool \in Callers /\ Analyze \notin Lines /\ Library # Analyze
  BY AnalyzerAssumption, ToolAssumption DEF Library, Analyze
<1>2. step = "parse" /\ place[Tool] = "idle"
  BY <1>1 DEF Init, StandaloneInit
<1>3. CASE analysis = NoAnalysis
  BY <1>1, <1>2, <1>3 DEF ToolInv, AnalysisShape, NoAnalysis
<1>4. CASE /\ line = Analyze
           /\ \E standalone, ipLookup \in BOOLEAN : analysis = Analysis(standalone, ipLookup)
  BY <1>1, <1>2, <1>4 DEF ToolInv, AnalysisShape, NoAnalysis, Analysis
<1> QED
  BY <1>3, <1>4 DEF Init

-----------------------------------------------------------------------------
(* The inductive invariant of the client *)

Loading == {"load", "publish", "setResolver"}   \* within the sync.Once
PastOnce == {"look", "query", "store"}          \* past ensureBootstrap
Refreshing == {"load", "publish", "setResolver"}

Places == {"idle", "queued", "ensure"} \union Loading \union PastOnce

ClientTyped ==
    /\ closed \in BOOLEAN /\ cancelled \in BOOLEAN /\ overlapped \in BOOLEAN
    /\ once \in {"idle", "done"} \union Callers
    /\ bootstrapErr \in {"none", "failed"} /\ firstLoad \in {"none", "ok", "failed"}
    /\ resolver \in Nat /\ rdapResolver \in Nat /\ loads \in Nat
    /\ loaded \in Nat /\ loopLoaded \in Nat
    /\ loop \in {"wait", "ended"} \union Refreshing
    /\ place \in [Callers -> Places]
    /\ key \in [Callers -> Keys \union {NoKey}]
    /\ outcome \in [Callers -> Served \union {"none", "closed", "refused", "unsupported"}]
    /\ cache \in [Keys -> {"data", "denied", "absent"}]
    /\ closing \in [Closers -> {"idle", "cancel", "join", "first", "second"}]
    /\ \A c \in Callers :
           /\ place[c] \notin {"idle", "queued"} => key[c] \in Keys
           /\ place[c] = "store" => outcome[c] \in {"data", "denied"}
    /\ batch = "idle" => \A c \in Workers : place[c] = "idle"

\* The sync.Once: one caller loads, and the load is over when the once is.
OnceInv ==
    /\ \A c \in Callers : place[c] \in Loading => once = c
    /\ once = "done" <=> firstLoad # "none"
    /\ bootstrapErr = "failed" <=> firstLoad = "failed"

\* What a caller may have met goes with how the first load went.
ServedInv ==
    \A c \in Callers :
        /\ place[c] \in PastOnce \/ outcome[c] \in Served => firstLoad = "ok"
        /\ outcome[c] = "refused" => firstLoad = "failed"

\* A resolver that is published is one; and as long as no first load and no refresh were
\* under way together, the second assignment makes good what the first began.
ResolverInv ==
    /\ \A c \in Callers : place[c] \in {"publish", "setResolver"} => loaded # 0
    /\ loop \in {"publish", "setResolver"} => loopLoaded # 0
    /\ firstLoad = "ok" => rdapResolver # 0
    /\ ~overlapped =>
           /\ loop \in Refreshing => \A c \in Callers : place[c] \notin Loading
           /\ loop = "setResolver" => resolver = loopLoaded
           /\ \A c \in Callers : place[c] = "setResolver" => resolver = loaded
           /\ ~Publishing => resolver = rdapResolver

\* Whoever closed first has waited for the refresh to end.
CloseInv == \A k \in Closers : closing[k] = "first" => loop = "ended"

ClientInv == ClientTyped /\ OnceInv /\ ServedInv /\ ResolverInv /\ CloseInv

\* Helper: it holds of a new client.
LEMMA ClientInit == StandaloneInit => ClientInv
<1> SUFFICES ASSUME StandaloneInit
             PROVE  ClientInv
  OBVIOUS
<1> USE StandaloneAssumption DEF Loading, PastOnce, Refreshing, Places, Served
<1>1. ClientTyped
  BY DEF StandaloneInit, ClientTyped
<1>2. OnceInv /\ ServedInv /\ CloseInv
  BY DEF StandaloneInit, OnceInv, ServedInv, CloseInv
<1>3. ResolverInv
  BY DEF StandaloneInit, ResolverInv, Publishing
<1> QED
  BY <1>1, <1>2, <1>3 DEF ClientInv

\* Helper: the variables keep their types.
LEMMA TypesKept ==
    ASSUME ClientTyped, ClientAction
    PROVE  ClientTyped'
<1> USE StandaloneAssumption DEF Loading, PastOnce, Refreshing, Places, Served, loadVars, loopVars,
                                 closeVars, lookupVars
<1>1. ASSUME NEW c \in Callers, NEW k \in Keys, place[c] \in {"idle", "queued"}, Lookup(c, k),
             batch = "idle" => c \notin Workers
      PROVE  ClientTyped'
  BY <1>1 DEF Lookup, Return, ClientTyped
<1>2. ASSUME NEW c \in Callers, Begin(c)
      PROVE  ClientTyped'
  BY <1>1, <1>2 DEF Begin
<1>3. ASSUME NEW c \in Callers, TakeSlot(c)
      PROVE  ClientTyped'
  BY <1>1, <1>3 DEF TakeSlot, Return, ClientTyped
<1>4. ASSUME NEW c \in Callers, EnsureBootstrap(c)
      PROVE  ClientTyped'
  <2>1. CASE OnceDone
    BY <1>4, <2>1 DEF EnsureBootstrap, Return, Go, ClientTyped
  <2>2. CASE ~OnceDone
    <3>1. overlapped' \in BOOLEAN /\ once' = c
      BY <1>4, <2>2 DEF EnsureBootstrap
    <3>2. place' = [place EXCEPT ![c] = "load"] /\ UNCHANGED <<key, outcome>>
      BY <1>4, <2>2 DEF EnsureBootstrap, Go
    <3>3. UNCHANGED <<bootstrapErr, resolver, rdapResolver, loaded, loads, firstLoad, cache, batch,
                      loop, loopLoaded, closed, cancelled, closing>>
      BY <1>4, <2>2 DEF EnsureBootstrap
    <3>4. place[c] = "ensure"
      BY <1>4 DEF EnsureBootstrap
    <3>5. batch = "idle" => c \notin Workers
      BY <3>4 DEF ClientTyped
    <3>6. /\ place' \in [Callers -> Places]
          /\ \A d \in Callers :
                /\ place'[d] \notin {"idle", "queued"} => key[d] \in Keys
                /\ place'[d] = "store" => outcome[d] \in {"data", "denied"}
          /\ batch = "idle" => \A d \in Workers : place'[d] = "idle"
      BY <3>2, <3>4, <3>5 DEF ClientTyped
    <3> QED
      BY <3>1, <3>2, <3>3, <3>6 DEF ClientTyped
  <2> QED
    BY <2>1, <2>2
<1>5. ASSUME NEW c \in Callers, LoadFails(c)
      PROVE  ClientTyped'
  BY <1>5 DEF LoadFails, Return, ClientTyped
<1>6. ASSUME NEW c \in Callers, LoadBrings(c) \/ Publish(c) \/ SetResolver(c)
      PROVE  ClientTyped'
  BY <1>6 DEF LoadBrings, Publish, SetResolver, Go, ClientTyped
<1>7. ASSUME NEW c \in Callers, Look(c)
      PROVE  ClientTyped'
  BY <1>7 DEF Look, Return, Go, ClientTyped
<1>8. ASSUME NEW c \in Callers, NEW said \in {"data", "denied", "failed"}, QueryEnds(c, said)
      PROVE  ClientTyped'
  BY <1>8 DEF QueryEnds, Return, ClientTyped
<1>9. ASSUME NEW c \in Callers, Store(c)
      PROVE  ClientTyped'
  BY <1>9 DEF Store, Return, ClientTyped
<1>10. CASE BatchLookup \/ BatchReturns
  BY <1>10 DEF BatchLookup, BatchReturns, ClientTyped
<1>11. CASE RefreshStep \/ Tick
  <2>1. CASE RefreshFails \/ LoopEnds
    BY <2>1 DEF RefreshFails, LoopEnds, ClientTyped
  <2>2. CASE RefreshBrings
    BY <2>2 DEF RefreshBrings, ClientTyped
  <2>3. CASE RefreshPublishes \/ RefreshSetsResolver
    BY <2>3 DEF RefreshPublishes, RefreshSetsResolver, ClientTyped
  <2>4. CASE Tick
    BY <2>4 DEF Tick, ClientTyped
  <2> QED
    BY <1>11, <2>1, <2>2, <2>3, <2>4 DEF RefreshStep
<1>12. ASSUME NEW k \in Closers, SwapClosed(k) \/ CloseStep(k)
       PROVE  ClientTyped'
  <2>1. CASE SwapClosed(k)
    BY <2>1 DEF SwapClosed, ClientTyped
  <2>2. CASE CancelRefresh(k)
    BY <2>2 DEF CancelRefresh, ClientTyped
  <2>3. CASE Release(k)
    BY <2>3 DEF Release, ClientTyped
  <2> QED
    BY <1>12, <2>1, <2>2, <2>3 DEF CloseStep
<1> QED
  BY <1>2, <1>3, <1>4, <1>5, <1>6, <1>7, <1>8, <1>9, <1>10, <1>11, <1>12
  DEF ClientAction, LookupStep

\* Helper: whoever may begin a lookup is not in the middle of one, so that the steps of a
\* lookup are its own caller's alone.
LEMMA OnlyIdleBegin ==
    ASSUME ClientTyped, NEW c \in Callers, Begin(c) \/ TakeSlot(c)
    PROVE  /\ place[c] \in {"idle", "queued"} /\ place'[c] \in {"idle", "ensure"}
           /\ outcome'[c] \in {outcome[c], "closed", "unsupported"}
           /\ \A d \in Callers \ {c} : place'[d] = place[d] /\ outcome'[d] = outcome[d]
           /\ UNCHANGED <<loadVars, loopVars, closeVars>>
BY DEF Begin, TakeSlot, Lookup, Return, ClientTyped

\* Helper: a batch begins with workers that did nothing.
LEMMA OnlyIdleQueue ==
    ASSUME ClientTyped, BatchLookup \/ BatchReturns
    PROVE  /\ \A c \in Callers : \/ place'[c] = place[c]
                                 \/ place[c] = "idle" /\ place'[c] = "queued"
           /\ UNCHANGED <<outcome, loadVars, loopVars, closeVars>>
BY StandaloneAssumption DEF BatchLookup, BatchReturns, ClientTyped

\* Helper: the sync.Once runs its function once, for one caller.
LEMMA OnceKept ==
    ASSUME ClientTyped, OnceInv, ClientAction
    PROVE  OnceInv'
<1> USE StandaloneAssumption DEF Loading
<1>1. ASSUME NEW c \in Callers, Begin(c) \/ TakeSlot(c)
      PROVE  OnceInv'
  BY <1>1, OnlyIdleBegin DEF OnceInv, loadVars
<1>2. ASSUME NEW c \in Callers, EnsureBootstrap(c)
      PROVE  OnceInv'
  BY <1>2 DEF EnsureBootstrap, OnceDone, Return, Go, OnceInv, ClientTyped, loadVars
<1>3. ASSUME NEW c \in Callers, LoadFails(c)
      PROVE  OnceInv'
  BY <1>3 DEF LoadFails, Return, OnceInv, ClientTyped
<1>4. ASSUME NEW c \in Callers, LoadBrings(c) \/ Publish(c) \/ SetResolver(c)
      PROVE  OnceInv'
  BY <1>4 DEF LoadBrings, Publish, SetResolver, Go, OnceInv, ClientTyped
<1>5. ASSUME NEW c \in Callers, \/ Look(c) \/ Store(c)
                                \/ \E said \in {"data", "denied", "failed"} : QueryEnds(c, said)
      PROVE  OnceInv'
  BY <1>5 DEF Look, Store, QueryEnds, Return, Go, OnceInv, ClientTyped, loadVars
<1>6. CASE BatchLookup \/ BatchReturns
  BY <1>6, OnlyIdleQueue DEF OnceInv, loadVars
<1>7. CASE RefreshStep \/ Tick
  BY <1>7
  DEF RefreshStep, RefreshFails, RefreshBrings, RefreshPublishes, RefreshSetsResolver, LoopEnds,
      Tick, OnceInv, loadVars, lookupVars
<1>8. ASSUME NEW k \in Closers, SwapClosed(k) \/ CloseStep(k)
      PROVE  OnceInv'
  BY <1>8 DEF SwapClosed, CloseStep, CancelRefresh, Release, OnceInv, loadVars, lookupVars
<1> QED
  BY <1>1, <1>2, <1>3, <1>4, <1>5, <1>6, <1>7, <1>8 DEF ClientAction, LookupStep

\* Helper: who is served, and who is refused.
LEMMA ServedKept ==
    ASSUME ClientTyped, OnceInv, ServedInv, ClientAction
    PROVE  ServedInv'
<1> USE StandaloneAssumption DEF Loading, PastOnce, Served
<1>1. ASSUME NEW c \in Callers, Begin(c) \/ TakeSlot(c)
      PROVE  ServedInv'
  BY <1>1, OnlyIdleBegin DEF ServedInv, loadVars
<1>2. ASSUME NEW c \in Callers, EnsureBootstrap(c)
      PROVE  ServedInv'
  BY <1>2 DEF EnsureBootstrap, OnceDone, Return, Go, OnceInv, ServedInv, ClientTyped, loadVars
<1>3. ASSUME NEW c \in Callers, LoadFails(c)
      PROVE  ServedInv'
  BY <1>3 DEF LoadFails, Return, OnceInv, ServedInv, ClientTyped
<1>4. ASSUME NEW c \in Callers, LoadBrings(c) \/ Publish(c) \/ SetResolver(c)
      PROVE  ServedInv'
  BY <1>4 DEF LoadBrings, Publish, SetResolver, Go, OnceInv, ServedInv, ClientTyped
<1>5. ASSUME NEW c \in Callers, \/ Look(c) \/ Store(c)
                                \/ \E said \in {"data", "denied", "failed"} : QueryEnds(c, said)
      PROVE  ServedInv'
  BY <1>5 DEF Look, Store, QueryEnds, Return, Go, ServedInv, ClientTyped, loadVars
<1>6. CASE BatchLookup \/ BatchReturns
  BY <1>6, OnlyIdleQueue DEF ServedInv, loadVars
<1>7. CASE RefreshStep \/ Tick
  BY <1>7
  DEF RefreshStep, RefreshFails, RefreshBrings, RefreshPublishes, RefreshSetsResolver, LoopEnds,
      Tick, ServedInv, loadVars, lookupVars
<1>8. ASSUME NEW k \in Closers, SwapClosed(k) \/ CloseStep(k)
      PROVE  ServedInv'
  BY <1>8 DEF SwapClosed, CloseStep, CancelRefresh, Release, ServedInv, loadVars, lookupVars
<1> QED
  BY <1>1, <1>2, <1>3, <1>4, <1>5, <1>6, <1>7, <1>8 DEF ClientAction, LookupStep

\* Helper: the resolver of the RDAP client and that of the allowlist.
LEMMA ResolverKept ==
    ASSUME ClientTyped, OnceInv, ServedInv, ResolverInv, ClientAction
    PROVE  ResolverInv'
<1> USE StandaloneAssumption DEF Loading, PastOnce, Refreshing
<1>1. ASSUME NEW c \in Callers, Begin(c) \/ TakeSlot(c)
      PROVE  ResolverInv'
  BY <1>1, OnlyIdleBegin DEF ResolverInv, Publishing, loadVars, loopVars
<1>2. ASSUME NEW c \in Callers, EnsureBootstrap(c)
      PROVE  ResolverInv'
  <2>1. CASE place[c] = "ensure" /\ UNCHANGED <<loadVars, loopVars>>
    BY <1>2, <2>1 DEF EnsureBootstrap, Return, Go, OnceDone, OnceInv, ResolverInv, Publishing,
                      ClientTyped, loadVars, loopVars
  <2>2. CASE once # "done" /\ Go(c, "load")
    <3>1. \A d \in Callers : place[d] \in Loading => d = c
      BY <1>2, <2>2 DEF EnsureBootstrap, OnceDone, OnceInv
    <3> QED
      BY <1>2, <2>2, <3>1
      DEF EnsureBootstrap, Go, OnceDone, ResolverInv, Publishing, ClientTyped, loopVars
  <2> QED
    BY <1>2, <2>1, <2>2 DEF EnsureBootstrap, OnceDone
<1>3. ASSUME NEW c \in Callers, LoadFails(c)
      PROVE  ResolverInv'
  BY <1>3 DEF LoadFails, Return, ResolverInv, Publishing, ClientTyped, loopVars
<1>4. ASSUME NEW c \in Callers, LoadBrings(c)
      PROVE  ResolverInv'
  BY <1>4 DEF LoadBrings, Go, OnceInv, ResolverInv, Publishing, ClientTyped, loopVars
<1>5. ASSUME NEW c \in Callers, Publish(c)
      PROVE  ResolverInv'
  BY <1>5 DEF Publish, Go, OnceInv, ResolverInv, Publishing, ClientTyped, loopVars
<1>6. ASSUME NEW c \in Callers, SetResolver(c)
      PROVE  ResolverInv'
  BY <1>6 DEF SetResolver, Go, OnceInv, ResolverInv, Publishing, ClientTyped, loopVars
<1>7. ASSUME NEW c \in Callers, \/ Look(c) \/ Store(c)
                                \/ \E said \in {"data", "denied", "failed"} : QueryEnds(c, said)
      PROVE  ResolverInv'
  BY <1>7 DEF Look, Store, QueryEnds, Return, Go, ResolverInv, Publishing, ClientTyped, loadVars,
              loopVars
<1>8. CASE BatchLookup \/ BatchReturns
  BY <1>8, OnlyIdleQueue DEF ResolverInv, Publishing, loadVars, loopVars
<1>9. CASE Tick
  BY <1>9 DEF Tick, OnceInv, ResolverInv, Publishing, lookupVars, ClientTyped
<1>10. CASE RefreshStep
  BY <1>10
  DEF RefreshStep, RefreshFails, RefreshBrings, RefreshPublishes, RefreshSetsResolver, LoopEnds,
      ResolverInv, Publishing, loadVars, lookupVars, ClientTyped
<1>11. ASSUME NEW k \in Closers, SwapClosed(k) \/ CloseStep(k)
       PROVE  ResolverInv'
  BY <1>11 DEF SwapClosed, CloseStep, CancelRefresh, Release, ResolverInv, Publishing, loadVars,
               loopVars, lookupVars
<1> QED
  BY <1>1, <1>2, <1>3, <1>4, <1>5, <1>6, <1>7, <1>8, <1>9, <1>10, <1>11
  DEF ClientAction, LookupStep

\* Helper: the refresh that has ended does not begin again, and nobody else changes it.
LEMMA EndedForGood ==
    ASSUME ClientAction, loop = "ended"
    PROVE  loop' = "ended"
BY DEF ClientAction, Begin, TakeSlot, Lookup, LookupStep, EnsureBootstrap, LoadFails, LoadBrings,
       Publish, SetResolver, Look, Store, QueryEnds, BatchLookup, BatchReturns, RefreshStep,
       RefreshFails, RefreshBrings, RefreshPublishes, RefreshSetsResolver, LoopEnds, Tick,
       SwapClosed, CloseStep, CancelRefresh, Release, loopVars

\* Helper: Close.
LEMMA CloseKept ==
    ASSUME ClientTyped, CloseInv, ClientAction
    PROVE  CloseInv'
<1>1. ASSUME NEW k \in Closers, SwapClosed(k) \/ CloseStep(k)
      PROVE  CloseInv'
  BY <1>1 DEF SwapClosed, CloseStep, CancelRefresh, Release, Joined, CloseInv, ClientTyped,
              loopVars
<1>2. CASE ~\E k \in Closers : SwapClosed(k) \/ CloseStep(k)
  <2>1. UNCHANGED closing
    BY <1>2
    DEF ClientAction, Begin, TakeSlot, Lookup, LookupStep, EnsureBootstrap, LoadFails, LoadBrings,
        Publish, SetResolver, Look, Store, QueryEnds, BatchLookup, BatchReturns, RefreshStep,
        RefreshFails, RefreshBrings, RefreshPublishes, RefreshSetsResolver, LoopEnds, Tick,
        closeVars
  <2> QED
    BY <2>1, EndedForGood DEF CloseInv
<1> QED
  BY <1>1, <1>2

\* Helper: the inductive invariant of a StandaloneClient and of how it is used.
LEMMA ClientInvHolds == Spec => [](ToolInv /\ ClientInv)
<1>1. Init => ToolInv /\ ClientInv
  BY ToolInit, ClientInit DEF Init
<1>2. ToolInv /\ ClientInv /\ [Next]_vars => (ToolInv /\ ClientInv)'
  <2> SUFFICES ASSUME ToolInv, ClientInv, [Next]_vars
               PROVE  ToolInv' /\ ClientInv'
    OBVIOUS
  <2>1. place \in [Callers -> Places]
    BY DEF ClientInv, ClientTyped
  <2>2. ToolInv'
    BY <2>1, ToolKept
  <2>3. ASSUME ClientAction
        PROVE  ClientInv'
    BY <2>3, TypesKept, OnceKept, ServedKept, ResolverKept, CloseKept DEF ClientInv
  <2>4. ASSUME UNCHANGED clientVars
        PROVE  ClientInv'
    BY <2>4
    DEF clientVars, ClientInv, ClientTyped, OnceInv, ServedInv, ResolverInv, Publishing, CloseInv
  <2> QED
    BY <2>2, <2>3, <2>4, StepsAreTheClients
<1> QED
  BY <1>1, <1>2, PTL DEF Spec

-----------------------------------------------------------------------------
\* Whoever is past ensureBootstrap of standalone.go finds a resolver in the RDAP client;
\* and without an overlap of the first load and a refresh the allowlist has the same one
\* whenever nobody is between the two assignments.
THEOREM LookupsHaveResolver == Spec => []ResolversServe
<1>1. ClientInv => ResolversServe
  BY DEF ClientInv, ClientTyped, ServedInv, ResolverInv, ResolversServe, PastOnce
<1> QED
  BY <1>1, ClientInvHolds, PTL

\* The sync.Once of standalone.go: one caller tries the first load, and it decides who is
\* served and who is refused, whatever a refresh brings.
THEOREM FirstLoadIsFinal == Spec => []FirstLoadDecides
<1>1. ClientInv => FirstLoadDecides
  <2> SUFFICES ASSUME ClientInv
               PROVE  FirstLoadDecides
    OBVIOUS
  <2>1. \A c \in Callers :
           /\ outcome[c] \in Served => firstLoad = "ok"
           /\ outcome[c] = "refused" => firstLoad = "failed"
           /\ firstLoad = "failed" => place[c] \notin {"load", "look", "query", "store"}
    BY StandaloneAssumption DEF ClientInv, ClientTyped, OnceInv, ServedInv, Loading, PastOnce
  <2>2. Cardinality({c \in Callers : place[c] \in {"load", "publish", "setResolver"}}) <= 1
    <3> DEFINE S == {c \in Callers : place[c] \in {"load", "publish", "setResolver"}}
    <3>1. S \subseteq {once}
      BY DEF ClientInv, OnceInv, Loading
    <3>2. S = {} \/ S = {once}
      BY <3>1
    <3>3. Cardinality({}) = 0 /\ Cardinality({once}) = 1
      BY FS_EmptySet, FS_Singleton
    <3> QED
      BY <3>2, <3>3
  <2> QED
    BY <2>1, <2>2 DEF FirstLoadDecides
<1> QED
  BY <1>1, ClientInvHolds, PTL

\* Once the first Close of standalone.go has returned there is no refresh any more, and
\* only a lookup that was under way may still publish a resolver.
THEOREM ClosedForGood == Spec => CloseIsFinal
<1>1. ToolInv /\ ClientInv /\ [Next]_vars =>
        [(\E k \in Closers : closing[k] = "first") =>
            /\ loop = "ended" /\ loop' = "ended"
            /\ resolver' # resolver => \E c \in Callers : place[c] = "publish"]_clientVars
  <2> SUFFICES ASSUME ToolInv, ClientInv, [Next]_vars, NEW k \in Closers, closing[k] = "first",
                      ~UNCHANGED clientVars
               PROVE  /\ loop = "ended" /\ loop' = "ended"
                      /\ resolver' # resolver => \E c \in Callers : place[c] = "publish"
    OBVIOUS
  <2>1. ClientAction /\ loop = "ended"
    BY StepsAreTheClients DEF ClientInv, CloseInv
  <2>2. loop' = "ended"
    BY <2>1, EndedForGood
  <2>3. resolver' # resolver => \E c \in Callers : place[c] = "publish"
    BY <2>1
    DEF ClientAction, Begin, TakeSlot, Lookup, LookupStep, EnsureBootstrap, LoadFails, LoadBrings,
        Publish, SetResolver, Look, Store, QueryEnds, BatchLookup, BatchReturns, RefreshStep,
        RefreshFails, RefreshBrings, RefreshPublishes, RefreshSetsResolver, LoopEnds, Tick,
        SwapClosed, CloseStep, CancelRefresh, Release, loadVars
  <2> QED
    BY <2>1, <2>2, <2>3
<1> QED
  BY <1>1, ClientInvHolds, PTL DEF Spec, CloseIsFinal

-----------------------------------------------------------------------------
(* The inductive invariant of the tools *)

\* The bounds of a client, and the key of a caller.
ClientSpace ==
    /\ resolver <= MaxLoads /\ rdapResolver <= MaxLoads
    /\ loaded <= MaxLoads /\ loopLoaded <= MaxLoads /\ loads <= MaxLoads
    /\ \A c \in Callers : place[c] \in {"idle", "queued"} => key[c] = NoKey
    /\ batch \in {"idle", "running", "returned"}
    /\ ticks \in 0..MaxTicks

\* The request of the client of the service: an attempt for every reply that was heard, of
\* which only the last may have been final, and what the caller is told is that last.
Final == ClientErrors \union {"ok"}

RestShape == rest = [at |-> rest.at, path |-> rest.path, attempt |-> rest.attempt,
                     err |-> rest.err, heard |-> rest.heard]

RestInv ==
    /\ RestShape
    /\ rest.at \in {"none", "attempt", "pause", "over"}
    /\ rest.attempt \in 0..RestRetries
    /\ rest.err \in {"none", "context"} \union (RestReplies \ {"ok"})
    /\ rest.heard \in Seq(RestReplies)
    /\ rest.at \in {"attempt", "pause"} =>
           /\ Len(rest.heard) = rest.attempt
           /\ \A j \in 1..Len(rest.heard) : rest.heard[j] \notin Final
    /\ rest.at = "pause" => rest.attempt > 0
    /\ rest.at = "over" =>
           /\ Len(rest.heard) \in 1..RestRetries + 1
           /\ \A j \in 1..Len(rest.heard) : rest.heard[j] \in Final => j = Len(rest.heard)
           /\ rest.err # "context" =>
                  rest.err = (IF Last(rest.heard) = "ok" THEN "none" ELSE Last(rest.heard))
    /\ rest.at = "none" => rest.heard = <<>>
    /\ ctxDone \in BOOLEAN

\* How far the tool is, and what it has by then.
StepInv ==
    /\ line \in Lines \union {Library, Analyze}
    /\ step \in {"parse", "call", "wait", "close", "exit"}
    /\ config.standalone \in BOOLEAN /\ verdict.code \in {0, 1}
    /\ step = "parse" => config = Rejected("none")
    /\ step \in {"parse", "call"} \/ config.standalone => log = <<>>
    /\ step = "close" => config.standalone
    /\ line # Analyze => analysis.at = "none" /\ ~analysis.standalone

\* A request is that of a command, or of the analyzer that waits for it.
Paths == {"/healthz", "/ready", "/meta"} \union STRING

UseRest ==
    /\ rest.at # "none" =>
           \/ /\ line \in Lines /\ step \in {"wait", "exit"} /\ ~config.standalone
              /\ rest.path \in Paths
           \/ line = Analyze /\ analysis.at = "wait" /\ ~analysis.standalone
    /\ (analysis.at = "wait" /\ ~analysis.standalone) => rest.at # "none"

\* Nobody but a tool's own Close closes its client.
UseClose ==
    line # Library =>
        /\ \A k \in Closers \ {ToolCloser} : closing[k] = "idle"
        /\ closed <=> closing[ToolCloser] # "idle"
        /\ closing[ToolCloser] # "second"

\* A lookup by the tool's caller is one that the tool waits for, and comes to something.
CommandWaits == line \in Lines /\ step = "wait" /\ config.standalone /\ line[1] # "batch"
AnalyzerWaits == analysis.at = "wait" /\ analysis.standalone

UseTool ==
    /\ line \in Lines /\ ~CommandWaits => place[Tool] = "idle"
    /\ CommandWaits \/ AnalyzerWaits => (place[Tool] = "idle" => outcome[Tool] # "none")

\* What the tool ends with, and what it rests on.
LogInv ==
    /\ log \in Seq([path : Paths, heard : Seq(RestReplies) \ {<<>>}])
    /\ \A i \in DOMAIN log : \A j \in DOMAIN log[i].heard :
           log[i].heard[j] \in Final => j = Len(log[i].heard)
    /\ (step = "wait" /\ ~config.standalone /\ line[1] = "health") =>
           /\ rest.path \in {"/healthz", "/ready", "/meta"}
           /\ rest.path = "/healthz" => Len(log) = 0
           /\ rest.path = "/ready" => Len(log) = 1
           /\ rest.path = "/meta" => Len(log) = 2
           /\ \A i \in 1..Len(log) : Last(log[i].heard) = "ok"
    /\ (step = "exit" /\ log # <<>>) =>
           LET last == Last(Last(log).heard)
           IN /\ verdict.says \in {"answer", "not found", "rate limited"} =>
                     verdict.says = (CASE last = "ok" -> "answer"
                                       [] last = "notFound" -> "not found"
                                       [] last = "limited" -> "rate limited"
                                       [] OTHER -> "error")
              /\ (verdict.code = 0 /\ line[1] = "health") =>
                     \A i \in 1..2 : Last(log[i].heard) = "ok"

\* What a standalone client's lookup came to is what the tool ends with, and the client is
\* down when it ends.
StandaloneVerdict ==
    /\ (step \in {"close", "exit"} /\ config.standalone) =>
           /\ verdict.says = "not found" => outcome[Tool] = "denied"
           /\ (verdict.says = "answer" /\ line[1] # "batch") => outcome[Tool] = "data"
    /\ (step = "exit" /\ config.standalone) => loop = "ended" /\ closed

\* The report of the analyzer: what was asked so far, in which order.
Asked(i) == IF i <= Len(analysis.results) THEN analysis.results[i].of ELSE analysis.asked
AskedCount == Len(analysis.results) + IF analysis.at = "wait" THEN 1 ELSE 0
Domains == ExtractUniqueDomains(analysis.feed)
Addresses == IF analysis.ipLookup THEN ExtractIPs(analysis.feed) ELSE {}

Classes == {"OK", "NOT_FOUND", "RATE_LIMITED", "OTHER"}
Lasts == RestReplies \union Served \union {"none", "closed", "refused", "unsupported"}

ResultTrue(r) ==
    /\ r.class = "OK" => r.last \in {"ok", "data"}
    /\ r.class = "NOT_FOUND" => r.last \in {"notFound", "denied"}
    /\ r.class = "RATE_LIMITED" => r.last = "limited"
    /\ r.class = "OK" /\ analysis.standalone => firstLoad = "ok"

ReportTyped ==
    /\ analysis.at \in {"none", "fetch", "create", "lookup", "wait", "close", "report", "over"}
    /\ analysis.code \in {0, 1} /\ (analysis.asked # NoKey) = (analysis.at = "wait")
    /\ analysis.results \in Seq([of : Keys, class : Classes, last : Lasts])
    /\ analysis.at = "wait" => analysis.asked \in Keys
    /\ analysis.at \in {"none", "fetch", "create"} => analysis.results = <<>>

ReportTrue == \A i \in DOMAIN analysis.results : ResultTrue(analysis.results[i])

ReportProgress ==
    analysis.at \in {"create", "lookup", "wait", "close", "report"} =>
        /\ analysis.feed \in Feeds
        /\ analysis.domains \subseteq Domains /\ analysis.ips \subseteq Addresses
        /\ AskedCount = Cardinality(Domains \ analysis.domains)
                            + Cardinality(Addresses \ analysis.ips)
        /\ {Asked(i) : i \in {j \in 1..AskedCount : j <= Cardinality(Domains)}}
               = Domains \ analysis.domains
        /\ {Asked(i) : i \in {j \in 1..AskedCount : j > Cardinality(Domains)}}
               = Addresses \ analysis.ips
        /\ analysis.domains # {} => analysis.ips = Addresses
        /\ analysis.at \in {"close", "report"} => analysis.domains = {} /\ analysis.ips = {}

ReportComplete ==
    LET n == Cardinality(Domains)
        Of(part) == {analysis.results[i].of : i \in part}
    IN /\ Len(analysis.results) = n + Cardinality(Addresses)
       /\ Of(1..n) = Domains /\ Of(n + 1..Len(analysis.results)) = Addresses
       /\ analysis.counts.ok + analysis.counts.errors = n

ReportDone ==
    /\ (analysis.at = "report" \/ (analysis.at = "over" /\ analysis.code = 0)) =>
           (analysis.standalone => loop = "ended" /\ closed)
    /\ (analysis.at = "over" /\ analysis.code = 0) => ReportComplete

\* Helper: what becomes of a request in a step, and of the tool's context.
LEMMA RestMoves ==
    ASSUME [Next]_vars
    PROVE  \/ UNCHANGED <<rest, ctxDone>>
           \/ (\E path : DoRequest(path)) /\ UNCHANGED ctxDone
           \/ rest' = NoRequest /\ UNCHANGED ctxDone
           \/ UNCHANGED rest /\ ctxDone' = TRUE
           \/ (\E r \in RestReplies : SingleRequest(r)) \/ Backoff
<1>1. CASE CallClient
  BY <1>1 DEF CallClient
<1>2. CASE RestEnds
  BY <1>2 DEF RestEnds, HealthGoesOn
<1>3. CASE AnalyzerStep
  BY <1>3 DEF AnalyzerStep, FetchPhishingURLs, CreateClient, LookupNext, LookupEnds,
              CloseAnalysisClient, Generate
<1>4. CASE Parse \/ StandaloneEnds \/ CloseClient \/ LibraryCall \/ ClientStep \/ RefreshTick
  BY <1>4 DEF Parse, StandaloneEnds, CloseClient, LibraryCall, ClientStep, RefreshTick
<1>5. CASE ToolTimeout \/ Signal \/ RequestStep
  BY <1>5 DEF ToolTimeout, Signal, RequestStep
<1>6. CASE UNCHANGED vars
  BY <1>6 DEF vars
<1> QED
  BY <1>1, <1>2, <1>3, <1>4, <1>5, <1>6 DEF Next, MainStep

\* Helper: the reply that was heard last.
LEMMA LastHeard ==
    ASSUME NEW S, NEW s \in Seq(S), NEW r \in S
    PROVE  /\ Append(s, r) \in Seq(S) /\ Len(Append(s, r)) = Len(s) + 1
           /\ Append(s, r)[Len(s) + 1] = r /\ Last(Append(s, r)) = r
           /\ \A j \in 1..Len(s) : Append(s, r)[j] = s[j]
           /\ Len(s) \in Nat
BY DEF Last

\* Helper: every step keeps the request in shape.
LEMMA RestKept ==
    ASSUME RestInv, [Next]_vars
    PROVE  RestInv'
<1> USE RestAssumption
<1>1. ASSUME NEW path, DoRequest(path), UNCHANGED ctxDone
      PROVE  RestInv'
  <2>1. rest' = [at |-> "attempt", path |-> path, attempt |-> 0, err |-> "none", heard |-> <<>>]
    BY <1>1 DEF DoRequest, NoRequest
  <2>2. <<>> \in Seq(RestReplies) /\ Len(<<>>) = 0
    OBVIOUS
  <2> QED
    BY <1>1, <2>1, <2>2 DEF RestInv, RestShape
<1>2. CASE rest' = NoRequest /\ UNCHANGED ctxDone
  <2>1. /\ NoRequest.at = "none" /\ NoRequest.attempt = 0 /\ NoRequest.err = "none"
        /\ NoRequest.heard = <<>> /\ rest' = NoRequest
    BY <1>2 DEF NoRequest
  <2>2. RestShape'
    BY <1>2 DEF NoRequest, RestShape
  <2>3. ctxDone' \in BOOLEAN
    BY <1>2 DEF RestInv
  <2>4. <<>> \in Seq(RestReplies) /\ 0 \in 0..RestRetries
    OBVIOUS
  <2> QED
    BY <2>1, <2>2, <2>3, <2>4 DEF RestInv
<1>3. CASE UNCHANGED rest /\ ctxDone' \in BOOLEAN
  BY <1>3 DEF RestInv, RestShape
<1>4. ASSUME NEW r \in RestReplies, SingleRequest(r)
      PROVE  RestInv'
  <2> DEFINE over == NoRetry(r) \/ LastAttempt
  <2>1. /\ rest'.at = IF over THEN "over" ELSE "pause"
        /\ rest'.attempt = IF over THEN rest.attempt ELSE rest.attempt + 1
        /\ rest'.err = IF r = "ok" THEN "none" ELSE r
        /\ rest'.heard = Append(rest.heard, r)
        /\ RestShape' /\ ctxDone' = ctxDone
    BY <1>4 DEF SingleRequest, RestInv, RestShape
  <2>2. /\ Len(rest.heard) = rest.attempt /\ rest.attempt \in 0..RestRetries
        /\ rest.heard \in Seq(RestReplies)
        /\ \A j \in 1..Len(rest.heard) : rest.heard[j] \notin Final
    BY <1>4 DEF SingleRequest, RestInv
  <2>3. /\ rest'.heard \in Seq(RestReplies) /\ Len(rest'.heard) = rest.attempt + 1
        /\ rest'.heard[Len(rest'.heard)] = r /\ Last(rest'.heard) = r
        /\ \A j \in 1..rest.attempt : rest'.heard[j] \notin Final
    BY <2>1, <2>2, LastHeard
  <2>4. r \notin {"none", "context"} /\ (r \in Final <=> NoRetry(r))
    BY DEF RestReplies, ClientErrors, Final, NoRetry
  <2>5. over \/ rest.attempt < RestRetries
    BY <2>2 DEF LastAttempt
  <2>6. CASE over
    BY <2>1, <2>2, <2>3, <2>4, <2>6 DEF RestInv
  <2>7. CASE ~over
    BY <2>1, <2>2, <2>3, <2>4, <2>5, <2>7 DEF RestInv
  <2> QED
    BY <2>6, <2>7
<1>5. CASE Backoff
  <2>1. CASE rest' = [rest EXCEPT !.at = "attempt"]
    BY <1>5, <2>1 DEF Backoff, RestInv, RestShape
  <2>2. CASE ctxDone /\ rest' = [rest EXCEPT !.at = "over", !.err = "context"]
    <3>1. /\ rest.at = "pause" /\ Len(rest.heard) = rest.attempt /\ rest.attempt \in 1..RestRetries
          /\ rest.heard \in Seq(RestReplies)
          /\ \A j \in 1..Len(rest.heard) : rest.heard[j] \notin Final
      BY <1>5 DEF Backoff, RestInv
    <3>2. /\ rest'.at = "over" /\ rest'.err = "context" /\ rest'.heard = rest.heard
          /\ rest'.attempt = rest.attempt /\ RestShape' /\ ctxDone' = ctxDone
      BY <1>5, <2>2 DEF Backoff, RestInv, RestShape
    <3> QED
      BY <3>1, <3>2 DEF RestInv
  <2> QED
    BY <1>5, <2>1, <2>2 DEF Backoff
<1> QED
  BY <1>1, <1>2, <1>3, <1>4, <1>5, RestMoves DEF RestInv

\* Helper: the bounds are kept.
LEMMA SpaceKept ==
    ASSUME ClientTyped, ClientSpace, ClientAction
    PROVE  ClientSpace'
<1> USE StandaloneAssumption DEF ClientSpace, loadVars, loopVars, closeVars, lookupVars
<1>1. ASSUME NEW c \in Callers, Begin(c) \/ TakeSlot(c)
      PROVE  ClientSpace'
  BY <1>1 DEF Begin, TakeSlot, Lookup, Return, ClientTyped
<1>2. ASSUME NEW c \in Callers, EnsureBootstrap(c)
      PROVE  ClientSpace'
  BY <1>2 DEF EnsureBootstrap, Return, Go, ClientTyped
<1>3. ASSUME NEW c \in Callers, LoadFails(c) \/ LoadBrings(c) \/ Publish(c) \/ SetResolver(c)
      PROVE  ClientSpace'
  BY <1>3 DEF LoadFails, LoadBrings, Publish, SetResolver, Return, Go, ClientTyped
<1>4. ASSUME NEW c \in Callers, Look(c) \/ Store(c)
                                \/ \E said \in {"data", "denied", "failed"} : QueryEnds(c, said)
      PROVE  ClientSpace'
  BY <1>4 DEF Look, Store, QueryEnds, Return, Go, ClientTyped
<1>5. CASE BatchLookup \/ BatchReturns
  BY <1>5 DEF BatchLookup, BatchReturns, ClientTyped
<1>6. CASE RefreshStep \/ Tick
  BY <1>6
  DEF RefreshStep, RefreshFails, RefreshBrings, RefreshPublishes, RefreshSetsResolver, LoopEnds,
      Tick, ClientTyped
<1>7. ASSUME NEW k \in Closers, SwapClosed(k) \/ CloseStep(k)
      PROVE  ClientSpace'
  BY <1>7 DEF SwapClosed, CloseStep, CancelRefresh, Release
<1> QED
  BY <1>1, <1>2, <1>3, <1>4, <1>5, <1>6, <1>7 DEF ClientAction, LookupStep

\* Helper: only a call counts as one.
LEMMA CallsKept ==
    ASSUME calls \in 0..MaxCalls, [Next]_vars
    PROVE  calls' \in 0..MaxCalls
<1>1. CASE UNCHANGED calls
  BY <1>1
<1>2. ASSUME NEW c, NEW k, Call(c, k)
      PROVE  calls' \in 0..MaxCalls
  BY <1>2, StandaloneAssumption DEF Call
<1>3. CASE ClientStep \/ RefreshTick
  <2>1. UNCHANGED calls
    BY <1>3
    DEF ClientStep, RefreshTick, TakeSlot, LookupStep, EnsureBootstrap, LoadFails,
        LoadBrings, Publish, SetResolver, Look, Store, QueryEnds, BatchReturns, RefreshStep,
        RefreshFails, RefreshBrings, RefreshPublishes, RefreshSetsResolver, LoopEnds, Tick,
        CloseStep, CancelRefresh, Release, lookupVars
  <2> QED
    BY <1>1, <2>1
<1>4. CASE LibraryCall \/ CallClient \/ CloseClient
  BY <1>1, <1>2, <1>4 DEF LibraryCall, CallClient, CloseClient, BatchLookup, SwapClosed, lookupVars,
                          clientVars
<1>5. CASE AnalyzerStep
  BY <1>1, <1>5 DEF AnalyzerStep, FetchPhishingURLs, CreateClient, LookupNext, LookupEnds,
                    CloseAnalysisClient, Generate, SwapClosed, lookupVars, clientVars
<1>6. CASE Parse \/ RestEnds \/ StandaloneEnds \/ ToolTimeout \/ RequestStep \/ Signal
  BY <1>1, <1>6 DEF Parse, RestEnds, StandaloneEnds, ToolTimeout, RequestStep, Signal, clientVars
<1>7. CASE UNCHANGED vars
  BY <1>1, <1>7 DEF vars, clientVars
<1> QED
  BY <1>3, <1>4, <1>5, <1>6, <1>7 DEF Next, MainStep

-----------------------------------------------------------------------------
(* parseConfig, a recursive function on the places in the command line, has a value: what
   is right for the last n places extends to those of n + 1. *)

\* Helper: a non-empty set of natural numbers has a least one.
LEMMA LeastNumber ==
    ASSUME NEW T \in SUBSET Nat, T # {}
    PROVE  \E m \in T : \A n \in T : m <= n
<1>1. PICK m \in T : \A n \in T : <<n, m>> \notin OpToRel(<, Nat)
  BY NatLessThanWellFounded, WFMin
<1>2. ASSUME NEW n \in T
      PROVE  m <= n
  <2>1. n \in Nat /\ m \in Nat
    BY <1>2
  <2>2. n < m => <<n, m>> \in OpToRel(<, Nat)
    BY <2>1, Zenon DEF OpToRel
  <2>3. ~(n < m)
    BY <1>1, <1>2, <2>2, Zenon
  <2> QED
    BY <2>1, <2>3
<1> QED
  BY <1>2

\* What parseConfig makes of the arguments from the i-th on, given f for those after it.
FromHere(args, f, i) ==
    IF i > Len(args) THEN Parsed
    ELSE IF args[i] \in Valued
         THEN IF i = Len(args) THEN Rejected("missing value")
              ELSE IF args[i + 1] = "bad" /\ args[i] = "-t" THEN Rejected("invalid value")
              ELSE f[i + 2]
    ELSE IF args[i] = "-h" THEN Helped
    ELSE IF args[i] \in Dashed \ Flags THEN Rejected("unknown option")
    ELSE IF f[i + 1].help \/ f[i + 1].err # "none" THEN f[i + 1]
    ELSE IF args[i] = "-S" THEN [f[i + 1] EXCEPT !.standalone = TRUE]
    ELSE IF args[i] \in Flags THEN f[i + 1]
    ELSE [f[i + 1] EXCEPT !.remaining = <<args[i]>> \o @]

OnePass(args, f) == [i \in 1..Len(args) + 2 |-> FromHere(args, f, i)]
Passed(args) == CHOOSE f : f = OnePass(args, f)

ParseErrors == {"none", "missing value", "invalid value", "unknown option"}
Configs == [err : ParseErrors, help : BOOLEAN, standalone : BOOLEAN, remaining : Seq(STRING)]

\* Helper: the result for no arguments is one.
LEMMA ParsedIsOne == Parsed \in Configs
BY DEF Parsed, Rejected, Configs, ParseErrors

\* Helper: a place is decided by the next two.
LEMMA FromHereTyped ==
    ASSUME NEW args \in Seq(STRING), NEW f, NEW i \in 1..Len(args) + 2,
           i <= Len(args) => f[i + 1] \in Configs /\ f[i + 2] \in Configs
    PROVE  /\ FromHere(args, f, i) \in Configs
           /\ \A g : (i <= Len(args) => g[i + 1] = f[i + 1] /\ g[i + 2] = f[i + 2]) =>
                         FromHere(args, g, i) = FromHere(args, f, i)
<1>1. ASSUME NEW g, i <= Len(args) => g[i + 1] = f[i + 1] /\ g[i + 2] = f[i + 2]
      PROVE  FromHere(args, g, i) = FromHere(args, f, i)
  <2>1. CASE i > Len(args)
    BY <2>1 DEF FromHere
  <2>2. CASE ~(i > Len(args))
    <3>1. g[i + 1] = f[i + 1] /\ g[i + 2] = f[i + 2]
      BY <1>1, <2>2
    <3> QED
      BY <3>1, Zenon DEF FromHere
  <2> QED
    BY <2>1, <2>2
<1>2. /\ \A err \in ParseErrors : Rejected(err) \in Configs
      /\ Parsed \in Configs /\ Helped \in Configs
  <2>1. \A err \in ParseErrors : Rejected(err) \in Configs
    BY DEF Rejected, Configs
  <2>2. Rejected("none") \in Configs
    BY ParsedIsOne DEF Parsed
  <2>3. [Rejected("none") EXCEPT !.help = TRUE] \in Configs
    BY <2>2 DEF Configs
  <2> QED
    BY <2>1, <2>2, <2>3 DEF Parsed, Helped
<1>3. CASE i > Len(args)
  BY <1>1, <1>2, <1>3 DEF FromHere
<1>4. CASE i <= Len(args)
  <2> DEFINE next == f[i + 1]
             own == [next EXCEPT !.standalone = TRUE]
             kept == [next EXCEPT !.remaining = <<args[i]>> \o @]
  <2>1. args[i] \in STRING /\ ~(i > Len(args))
    BY <1>4
  <2>2. next \in Configs /\ f[i + 2] \in Configs
    BY <1>4
  <2>3. own \in Configs
    BY <2>2 DEF Configs
  <2>4. kept \in Configs
    <3>1. <<args[i]>> \o next.remaining \in Seq(STRING)
      BY <2>1, <2>2 DEF Configs
    <3> QED
      BY <2>2, <3>1 DEF Configs
  <2>5. FromHere(args, f, i) \in {Rejected("missing value"), Rejected("invalid value"), f[i + 2],
                                  Helped, Rejected("unknown option"), next, own, kept}
    BY <2>1 DEF FromHere
  <2> HIDE DEF next, own, kept
  <2>6. FromHere(args, f, i) \in Configs
    BY <1>2, <2>2, <2>3, <2>4, <2>5 DEF ParseErrors
  <2> QED
    BY <1>1, <2>6
<1> QED
  BY <1>1, <1>3, <1>4

\* Helper: parseConfig has a value.
LEMMA PassIsDefined ==
    ASSUME NEW args \in Seq(STRING)
    PROVE  Passed(args) = OnePass(args, Passed(args))
<1> DEFINE L == Len(args) + 2
           Good(n) == \E g \in [1..L -> Configs] :
                          \A i \in 1..L : i > L - n => g[i] = FromHere(args, g, i)
           Bad == {n \in Nat : ~Good(n)}
<1>0. L \in Nat /\ Len(args) = L - 2
  OBVIOUS
<1>1. Bad = {}
  <2> SUFFICES ASSUME Bad # {}
               PROVE  FALSE
    OBVIOUS
  <2>1. PICK m \in Bad : \A n \in Bad : m <= n
    BY LeastNumber
  <2>2. CASE m = 0
    <3> DEFINE g == [i \in 1..L |-> Parsed]
    <3>1. g \in [1..L -> Configs]
      <4>1. Parsed \in Configs
        BY ParsedIsOne
      <4> QED
        BY <4>1
    <3>2. \A i \in 1..L : ~(i > L - 0)
      BY <1>0
    <3>3. Good(0)
      BY <3>1, <3>2
    <3> QED
      BY <2>1, <2>2, <3>3
  <2>3. CASE m # 0
    <3>1. m - 1 \in Nat /\ Good(m - 1)
      <4>1. m \in Nat /\ m - 1 \in Nat /\ ~(m <= m - 1)
        BY <2>1, <2>3
      <4>2. m - 1 \notin Bad
        BY <2>1, <4>1
      <4> QED
        BY <4>1, <4>2
    <3>2. PICK g \in [1..L -> Configs] :
              \A i \in 1..L : i > L - (m - 1) => g[i] = FromHere(args, g, i)
      BY <3>1
    <3> DEFINE f == OnePass(args, g)
    <3>3. \A i \in 1..L : f[i] = FromHere(args, g, i) /\ f[i] \in Configs
      <4> SUFFICES ASSUME NEW i \in 1..L
                   PROVE  f[i] = FromHere(args, g, i) /\ f[i] \in Configs
        OBVIOUS
      <4>1. i <= Len(args) => g[i + 1] \in Configs /\ g[i + 2] \in Configs
        <5>1. i <= Len(args) => i + 1 \in 1..L /\ i + 2 \in 1..L
          BY <1>0
        <5> QED
          BY <3>2, <5>1
      <4> QED
        BY <4>1, FromHereTyped DEF OnePass
    <3>4. f \in [1..L -> Configs]
      <4>1. f = [i \in 1..L |-> FromHere(args, g, i)]
        BY DEF OnePass
      <4> QED
        BY <3>3, <4>1
    <3> HIDE DEF f
    <3>5. ASSUME NEW i \in 1..L, i > L - m
          PROVE  f[i] = FromHere(args, f, i)
      <4>1. i <= Len(args) => f[i + 1] = g[i + 1] /\ f[i + 2] = g[i + 2]
        BY <1>0, <2>1, <3>2, <3>3, <3>5
      <4>2. i <= Len(args) => g[i + 1] \in Configs /\ g[i + 2] \in Configs
        <5>1. i <= Len(args) => i + 1 \in 1..L /\ i + 2 \in 1..L
          BY <1>0
        <5> QED
          BY <3>2, <5>1
      <4> QED
        BY <3>3, <4>1, <4>2, FromHereTyped
    <3>6. Good(m)
      BY <3>4, <3>5
    <3> QED
      BY <2>1, <3>6
  <2> QED
    BY <2>2, <2>3
<1>2. Good(L)
  BY <1>0, <1>1
<1>3. PICK g \in [1..L -> Configs] : \A i \in 1..L : i > L - L => g[i] = FromHere(args, g, i)
  BY <1>2
<1>4. g = OnePass(args, g)
  <2>1. \A i \in 1..L : g[i] = FromHere(args, g, i)
    BY <1>0, <1>3
  <2>2. OnePass(args, g) = [i \in 1..L |-> FromHere(args, g, i)]
    BY DEF OnePass
  <2> QED
    BY <2>1, <2>2
<1>5. \E f : f = OnePass(args, f)
  BY <1>4
<1> QED
  BY <1>5 DEF Passed

\* What parseConfig returns has its shape, whatever the arguments are.
LEMMA ParsedTyped ==
    ASSUME NEW args \in Seq(STRING)
    PROVE  ParseConfig(args) \in Configs
<1> DEFINE L == Len(args) + 2
           f == Passed(args)
           Bad == {n \in Nat : n < L /\ f[L - n] \notin Configs}
<1>0. L \in Nat /\ Len(args) = L - 2 /\ 1 \in 1..L
  OBVIOUS
<1>1. ParseConfig(args) = f[1]
  BY Zenon DEF ParseConfig, Passed, OnePass, FromHere
<1>2. \A i \in 1..L : f[i] = FromHere(args, f, i)
  <2>1. \A g : \A i \in 1..L : OnePass(args, g)[i] = FromHere(args, g, i)
    BY DEF OnePass
  <2> QED
    BY <2>1, PassIsDefined
<1> HIDE DEF f
<1>3. Bad = {}
  <2> SUFFICES ASSUME Bad # {}
               PROVE  FALSE
    OBVIOUS
  <2>1. PICK m \in Bad : \A n \in Bad : m <= n
    BY LeastNumber
  <2> DEFINE i == L - m
  <2>2. i \in 1..L /\ f[i] \notin Configs
    BY <1>0, <2>1
  <2>3. ASSUME i <= Len(args)
        PROVE  f[i + 1] \in Configs /\ f[i + 2] \in Configs
    <3>1. m - 1 \in Nat /\ m - 2 \in Nat /\ m - 1 < L /\ m - 2 < L
      BY <1>0, <2>1, <2>3
    <3>2. m - 1 \notin Bad /\ m - 2 \notin Bad
      BY <2>1, <3>1
    <3>3. L - (m - 1) = i + 1 /\ L - (m - 2) = i + 2
      BY <1>0, <2>1
    <3> QED
      BY <3>1, <3>2, <3>3
  <2> HIDE DEF i
  <2>4. FromHere(args, f, i) \in Configs
    BY <2>2, <2>3, FromHereTyped
  <2> QED
    BY <1>2, <2>2, <2>4
<1>4. L - 1 \in Nat /\ L - 1 < L /\ L - (L - 1) = 1
  BY <1>0
<1>5. f[1] \in Configs
  BY <1>3, <1>4
<1> QED
  BY <1>1, <1>5

-----------------------------------------------------------------------------
(* How far the tools are *)

\* Helper: what the command line is decided to be has an exit code.
LEMMA DecideTyped == Decide.code \in {0, 1}
<1>1. ASSUME NEW code \in {0, 1}, NEW says
      PROVE  Ended(code, says).code \in {0, 1}
  BY DEF Ended
<1>2. \/ \E says : Decide = Ended(0, says)
      \/ \E says : Decide = Ended(1, says)
  BY Zenon DEF Decide
<1> QED
  BY <1>1, <1>2

\* Helper: ... and what it is told.
LEMMA FormatTyped ==
    ASSUME NEW err
    PROVE  /\ FormatError(err).code \in {0, 1}
           /\ FormatError(err).says = (CASE err = "none" -> "answer"
                                         [] err = "notFound" -> "not found"
                                         [] err = "limited" -> "rate limited"
                                         [] OTHER -> "error")
BY DEF FormatError, Ended

\* Helper: the lines of a tool are told from the rest.
LEMMA LinesDiffer == Analyze \notin Lines /\ Library \notin Lines /\ Library # Analyze
BY ToolAssumption DEF Library, Analyze

\* Helper: every step of a tool leaves its progress in order.
LEMMA StepKept ==
    ASSUME ToolInv, StepInv, [Next]_vars
    PROVE  StepInv'
<1> USE LinesDiffer
<1>1. CASE Parse
  <2>1. CASE Decide = Ended(0, "go on")
    <3>1. line # <<>> /\ line \in Seq(STRING)
      BY <1>1, <2>1, VerdictsDiffer, ToolAssumption DEF Parse, Decide
    <3>2. ParseConfig(Tail(line)) \in Configs
      <4>1. Tail(line) \in Seq(STRING)
        BY <3>1
      <4> QED
        BY <4>1, ParsedTyped
    <3>3. config'.standalone \in BOOLEAN /\ step' = "call" /\ verdict' = verdict
      BY <1>1, <2>1, <3>2 DEF Parse, Configs
    <3>4. log' = <<>> /\ UNCHANGED <<line, analysis>> /\ line \in Lines
      BY <1>1 DEF Parse, StepInv
    <3> QED
      BY <3>3, <3>4 DEF StepInv
  <2>2. CASE Decide # Ended(0, "go on")
    <3>1. verdict'.code \in {0, 1} /\ step' = "exit" /\ config' = config
      BY <1>1, <2>2, DecideTyped DEF Parse
    <3>2. log' = <<>> /\ UNCHANGED <<line, analysis>> /\ line \in Lines
      BY <1>1 DEF Parse, StepInv
    <3> QED
      BY <3>1, <3>2 DEF StepInv
  <2> QED
    BY <2>1, <2>2
<1>2. CASE CallClient
  BY <1>2 DEF CallClient, StepInv
<1>3. CASE RestEnds
  <2>1. /\ UNCHANGED <<line, config, analysis>> /\ ~config.standalone
        /\ step' \in {"wait", "exit"}
    BY <1>3 DEF RestEnds, HealthGoesOn
  <2>2. verdict'.code \in {0, 1}
    <3>1. \A says : Ended(0, says).code \in {0, 1} /\ Ended(1, says).code \in {0, 1}
      BY DEF Ended
    <3> QED
      BY <1>3, <3>1, FormatTyped DEF RestEnds, HealthGoesOn, StepInv
  <2> QED
    BY <2>1, <2>2 DEF StepInv
<1>4. CASE StandaloneEnds
  <2>1. verdict'.code \in {0, 1}
    <3>1. \A says : Ended(0, says).code \in {0, 1}
      BY DEF Ended
    <3> QED
      BY <1>4, <3>1, FormatTyped DEF StandaloneEnds
  <2>2. UNCHANGED <<line, config, analysis, log>> /\ step' = "close" /\ config.standalone
    BY <1>4 DEF StandaloneEnds
  <2> QED
    BY <2>1, <2>2 DEF StepInv
<1>5. CASE CloseClient
  BY <1>5 DEF CloseClient, StepInv
<1>6. CASE AnalyzerStep /\ UNCHANGED toolVars
  <2>1. line = Analyze /\ UNCHANGED <<line, step, config, verdict, log>>
    BY <1>6, AnalysisKept DEF ToolInv, toolVars
  <2> QED
    BY <2>1 DEF StepInv
<1>7. CASE \/ ToolTimeout \/ RequestStep \/ LibraryCall \/ ClientStep \/ RefreshTick
           \/ Signal /\ UNCHANGED toolVars
           \/ UNCHANGED vars
  <2>1. UNCHANGED <<line, step, config, verdict, log, analysis>>
    BY <1>7 DEF ToolTimeout, RequestStep, LibraryCall, ClientStep, RefreshTick, Signal, toolVars,
                vars
  <2> QED
    BY <2>1 DEF StepInv
<1> QED
  BY <1>1, <1>2, <1>3, <1>4, <1>5, <1>6, <1>7 DEF Next, MainStep

\* Helper: a command's request is for a path.
LEMMA LineIsPath ==
    ASSUME line \in Lines, line # <<>>
    PROVE  line[1] \in Paths
BY ToolAssumption DEF Paths

\* Helper: requests are made by the tools only, each for itself.
LEMMA UseRestKept ==
    ASSUME ToolInv, StepInv, RestInv, UseRest, [Next]_vars
    PROVE  UseRest'
<1> USE LinesDiffer
<1>1. CASE Parse
  BY <1>1 DEF Parse, UseRest, StepInv
<1>2. CASE CallClient
  <2>1. line \in Lines /\ line # <<>> /\ UNCHANGED <<line, config, analysis>>
    BY <1>2, VerdictsDiffer DEF CallClient, ToolInv, Decide
  <2>2. step' = "wait" /\ analysis.at = "none"
    BY <1>2, <2>1 DEF CallClient, StepInv
  <2>3. CASE config.standalone
    BY <1>2, <2>1, <2>2, <2>3 DEF CallClient, UseRest
  <2>4. CASE ~config.standalone
    <3>1. rest'.path \in Paths
      BY <1>2, <2>1, <2>4, LineIsPath DEF CallClient, DoRequest, NoRequest, Paths
    <3> QED
      BY <2>1, <2>2, <2>4, <3>1 DEF UseRest
  <2> QED
    BY <2>3, <2>4
<1>3. CASE RestEnds
  <2>1. /\ line \in Lines /\ UNCHANGED <<line, config, analysis>> /\ ~config.standalone
        /\ step' \in {"wait", "exit"} /\ analysis.at = "none" /\ rest.at # "none"
    BY <1>3 DEF RestEnds, HealthGoesOn, ToolInv, StepInv
  <2>2. rest'.path \in Paths
    BY <1>3, <2>1 DEF RestEnds, HealthGoesOn, DoRequest, NoRequest, Paths, UseRest
  <2> QED
    BY <2>1, <2>2 DEF UseRest
<1>4. CASE StandaloneEnds \/ CloseClient
  <2>1. /\ UNCHANGED <<line, config, analysis, rest>> /\ config.standalone
        /\ analysis.at = "none" /\ line \in Lines
    BY <1>4 DEF StandaloneEnds, CloseClient, ToolInv, StepInv
  <2> QED
    BY <2>1 DEF UseRest
<1>5. CASE AnalyzerStep /\ UNCHANGED toolVars
  <2>1. /\ line = Analyze /\ line' = line
        /\ AnalysisShape' /\ analysis'.standalone = analysis.standalone
    BY <1>5, AnalysisKept DEF ToolInv, toolVars
  <2>2. CASE LookupNext
    BY <2>1, <2>2 DEF LookupNext, DoRequest, NoRequest, UseRest, ToolInv, AnalysisShape
  <2>3. CASE LookupEnds
    BY <2>1, <2>3 DEF LookupEnds, NoRequest, UseRest, ToolInv, AnalysisShape
  <2>4. CASE FetchPhishingURLs \/ CreateClient \/ CloseAnalysisClient \/ Generate
    <3>1. analysis.at # "wait" /\ rest' = rest
      BY <2>4 DEF FetchPhishingURLs, CreateClient, CloseAnalysisClient, Generate
    <3>2. rest.at = "none"
      BY <2>1, <3>1 DEF UseRest
    <3>3. analysis'.at # "wait"
      BY <2>4, <3>1 DEF FetchPhishingURLs, CreateClient, CloseAnalysisClient, Generate, Ends,
                        ToolInv, AnalysisShape
    <3> QED
      BY <3>1, <3>2, <3>3 DEF UseRest
  <2> QED
    BY <1>5, <2>2, <2>3, <2>4 DEF AnalyzerStep
<1>6. CASE RequestStep
  <2>1. UNCHANGED <<line, step, config, analysis>> /\ rest.at # "none"
    BY <1>6 DEF RequestStep, SingleRequest, Backoff, toolVars
  <2>2. rest'.at # "none" /\ rest'.path = rest.path
    BY <1>6 DEF RequestStep, SingleRequest, Backoff, RestInv, RestShape
  <2> QED
    BY <2>1, <2>2 DEF UseRest
<1>7. CASE \/ ToolTimeout \/ LibraryCall \/ ClientStep \/ RefreshTick
           \/ Signal /\ UNCHANGED toolVars
           \/ UNCHANGED vars
  <2>1. UNCHANGED <<line, step, config, analysis, rest>>
    BY <1>7 DEF ToolTimeout, LibraryCall, ClientStep, RefreshTick, Signal, toolVars, vars
  <2> QED
    BY <2>1 DEF UseRest
<1> QED
  BY <1>1, <1>2, <1>3, <1>4, <1>5, <1>6, <1>7 DEF Next, MainStep

-----------------------------------------------------------------------------
(* Who uses a client *)

\* Helper: what the others do leaves alone the tool's caller that is idle, and a lookup of
\* its own comes to something.
LEMMA ToolOutcome ==
    ASSUME ClientTyped, ClientStep \/ RefreshTick
    PROVE  /\ place[Tool] = "idle" => place'[Tool] = "idle" /\ outcome'[Tool] = outcome[Tool]
           /\ place[Tool] # "idle" => (place'[Tool] = "idle" => outcome'[Tool] # "none")
<1>0. Tool \in Callers \ Workers
  BY AnalyzerAssumption
<1>1. ASSUME NEW c \in Callers, LookupStep(c)
      PROVE  /\ c # Tool => place'[Tool] = place[Tool] /\ outcome'[Tool] = outcome[Tool]
             /\ place[c] # "idle"
             /\ place'[c] = "idle" => outcome'[c] # "none"
  BY <1>0, <1>1
  DEF LookupStep, EnsureBootstrap, LoadFails, LoadBrings, Publish, SetResolver, Look, Store,
      QueryEnds, Return, Go, ClientTyped
<1>2. ASSUME NEW c \in Callers, TakeSlot(c)
      PROVE  place'[Tool] = place[Tool] /\ outcome'[Tool] = outcome[Tool]
  BY <1>0, <1>2 DEF TakeSlot, Lookup, Return, ClientTyped
<1>3. CASE BatchReturns \/ RefreshStep \/ Tick \/ \E k \in Closers : CloseStep(k)
  <2>1. UNCHANGED <<place, outcome>>
    BY <1>3
    DEF BatchReturns, RefreshStep, RefreshFails, RefreshBrings, RefreshPublishes,
        RefreshSetsResolver, LoopEnds, Tick, CloseStep, CancelRefresh, Release, lookupVars
  <2> QED
    BY <2>1
<1> QED
  BY <1>0, <1>1, <1>2, <1>3 DEF ClientStep, RefreshTick

\* Helper: closing[ToolCloser] is the flag of the tool's client.
LEMMA UseCloseKept ==
    ASSUME ToolInv, ClientTyped, UseClose, [Next]_vars
    PROVE  UseClose'
<1>0. /\ ToolCloser \in Closers
      /\ closing \in [Closers -> {"idle", "cancel", "join", "first", "second"}]
  BY AnalyzerAssumption DEF ClientTyped
<1> USE LinesDiffer
<1>1. CASE UNCHANGED <<line, closed, closing>>
  BY <1>1 DEF UseClose
<1>2. CASE SwapClosed(ToolCloser) /\ line' = line
  BY <1>0, <1>2 DEF SwapClosed, UseClose, ClientTyped
<1>3. ASSUME NEW k \in Closers, CloseStep(k), line' = line
      PROVE  UseClose'
  BY <1>0, <1>3 DEF CloseStep, CancelRefresh, Release, UseClose, ClientTyped
<1>4. CASE line = Library /\ line' = line
  BY <1>4 DEF UseClose
<1>5. CASE CallClient
  <2>1. UNCHANGED <<line, closed, closing>>
    BY <1>5 DEF CallClient, BatchLookup, Call, Lookup, closeVars, clientVars
  <2> QED
    BY <1>1, <2>1
<1>6. CASE CloseClient
  BY <1>1, <1>2, <1>6 DEF CloseClient, clientVars
<1>7. CASE AnalyzerStep /\ UNCHANGED toolVars
  <2>1. CASE LookupNext
    <3>1. UNCHANGED <<closed, closing>>
      BY <2>1 DEF LookupNext, Lookup, closeVars, clientVars
    <3> QED
      BY <1>1, <1>7, <3>1 DEF toolVars
  <2>2. CASE CloseAnalysisClient
    BY <1>1, <1>2, <1>7, <2>2 DEF CloseAnalysisClient, clientVars, toolVars
  <2>3. CASE FetchPhishingURLs \/ CreateClient \/ LookupEnds \/ Generate
    BY <1>1, <1>7, <2>3 DEF FetchPhishingURLs, CreateClient, LookupEnds, Generate, clientVars,
                            toolVars
  <2> QED
    BY <1>7, <2>1, <2>2, <2>3 DEF AnalyzerStep
<1>8. CASE LibraryCall
  BY <1>4, <1>8 DEF LibraryCall, toolVars
<1>9. CASE ClientStep
  <2>1. CASE \E k \in Closers : CloseStep(k)
    BY <1>3, <1>9, <2>1 DEF ClientStep, toolVars
  <2>2. CASE (\E c \in Callers : LookupStep(c) \/ TakeSlot(c)) \/ BatchReturns \/ RefreshStep
    <3>1. UNCHANGED <<closed, closing>>
      BY <2>2
      DEF TakeSlot, Lookup, LookupStep, EnsureBootstrap, LoadFails, LoadBrings, Publish,
          SetResolver, Look, Store, QueryEnds, BatchReturns, RefreshStep, RefreshFails,
          RefreshBrings, RefreshPublishes, RefreshSetsResolver, LoopEnds, closeVars
    <3> QED
      BY <1>1, <1>9, <3>1 DEF ClientStep, toolVars
  <2> QED
    BY <1>9, <2>1, <2>2 DEF ClientStep
<1>10. CASE RefreshTick
  BY <1>1, <1>10 DEF RefreshTick, Tick, closeVars, toolVars
<1>11. CASE \/ Parse \/ RestEnds \/ StandaloneEnds \/ ToolTimeout \/ RequestStep
            \/ Signal /\ UNCHANGED toolVars
            \/ UNCHANGED vars
  <2>1. UNCHANGED <<line, closed, closing>>
    BY <1>11 DEF Parse, RestEnds, StandaloneEnds, ToolTimeout, RequestStep, Signal, toolVars,
                 clientVars, vars
  <2> QED
    BY <1>1, <2>1
<1> QED
  BY <1>5, <1>6, <1>7, <1>8, <1>9, <1>10, <1>11 DEF Next, MainStep

\* Helper: a lookup that begins for a caller that is idle leaves it looking, or refused.
LEMMA LookupBegun ==
    ASSUME ClientTyped, NEW k, Lookup(Tool, k)
    PROVE  place'[Tool] = "idle" => outcome'[Tool] = "closed"
BY AnalyzerAssumption DEF Lookup, Return, ClientTyped

\* Helper: the tool's caller looks up only for the tool.
LEMMA UseToolKept ==
    ASSUME ToolInv, StepInv, ClientTyped, UseTool, [Next]_vars
    PROVE  UseTool'
<1> USE LinesDiffer
<1>1. CASE UNCHANGED <<line, step, config, analysis, place, outcome>>
  BY <1>1 DEF UseTool, CommandWaits, AnalyzerWaits
<1>2. CASE Parse
  <2>1. /\ line \in Lines /\ line' = line /\ step' \in {"call", "exit"} /\ analysis' = analysis
        /\ place' = place /\ step = "parse" /\ analysis.at = "none"
    BY <1>2 DEF Parse, StepInv, clientVars
  <2> QED
    BY <2>1 DEF UseTool, CommandWaits, AnalyzerWaits
<1>3. CASE CallClient
  <2>1. /\ line \in Lines /\ UNCHANGED <<line, config, analysis>> /\ step = "call"
        /\ step' = "wait" /\ analysis.at = "none"
    BY <1>3 DEF CallClient, ToolInv, StepInv
  <2>2. place[Tool] = "idle"
    BY <2>1 DEF UseTool, CommandWaits
  <2>3. CASE config.standalone /\ line[1] = "batch"
    <3>1. BatchLookup
      BY <1>3, <2>3 DEF CallClient
    <3>2. place'[Tool] = "idle"
      BY <2>2, <3>1, AnalyzerAssumption DEF BatchLookup
    <3> QED
      BY <2>1, <2>3, <3>2 DEF UseTool, CommandWaits, AnalyzerWaits
  <2>4. CASE config.standalone /\ line[1] # "batch"
    <3>1. \E k : Lookup(Tool, k)
      BY <1>3, <2>4 DEF CallClient, Call
    <3>2. place'[Tool] = "idle" => outcome'[Tool] = "closed"
      BY <3>1, LookupBegun
    <3> QED
      BY <2>1, <2>4, <3>2 DEF UseTool, CommandWaits, AnalyzerWaits
  <2>5. CASE ~config.standalone
    <3>1. place' = place
      BY <1>3, <2>5 DEF CallClient, clientVars
    <3> QED
      BY <2>1, <2>2, <2>5, <3>1 DEF UseTool, CommandWaits, AnalyzerWaits
  <2> QED
    BY <2>3, <2>4, <2>5
<1>4. CASE RestEnds \/ StandaloneEnds \/ CloseClient
  <2>1. /\ line \in Lines /\ UNCHANGED <<line, config, analysis, place>> /\ analysis.at = "none"
        /\ ~CommandWaits'
    BY <1>4
    DEF RestEnds, HealthGoesOn, StandaloneEnds, CloseClient, SwapClosed, lookupVars, clientVars,
        ToolInv, StepInv, CommandWaits
  <2>2. place[Tool] = "idle"
    BY <1>4, <2>1 DEF RestEnds, StandaloneEnds, CloseClient, UseTool, CommandWaits
  <2> QED
    BY <2>1, <2>2 DEF UseTool, AnalyzerWaits
<1>5. CASE AnalyzerStep /\ UNCHANGED toolVars
  <2>1. /\ line = Analyze /\ UNCHANGED <<line, step, config>>
        /\ analysis'.standalone = analysis.standalone
    BY <1>5, AnalysisKept DEF ToolInv, toolVars
  <2>2. ~CommandWaits'
    BY <2>1 DEF CommandWaits
  <2>3. ASSUME AnalyzerWaits', place'[Tool] = "idle"
        PROVE  outcome'[Tool] # "none"
    <3>1. CASE LookupNext
      <4>1. \E k : Lookup(Tool, k)
        BY <2>1, <2>3, <3>1 DEF LookupNext, AnalyzerWaits, ToolInv, AnalysisShape
      <4> QED
        BY <2>3, <4>1, LookupBegun
    <3>2. CASE ~LookupNext
      <4>1. analysis'.at # "wait"
        <5>1. CASE LookupEnds
          BY <5>1 DEF LookupEnds, ToolInv, AnalysisShape
        <5>2. CASE FetchPhishingURLs \/ CreateClient \/ CloseAnalysisClient \/ Generate
          BY <5>2 DEF FetchPhishingURLs, CreateClient, CloseAnalysisClient, Generate, Ends,
                      ToolInv, AnalysisShape
        <5> QED
          BY <1>5, <3>2, <5>1, <5>2 DEF AnalyzerStep
      <4> QED
        BY <2>3, <4>1 DEF AnalyzerWaits
    <3> QED
      BY <3>1, <3>2
  <2> QED
    BY <2>1, <2>2, <2>3 DEF UseTool
<1>6. CASE LibraryCall
  <2>1. UNCHANGED <<line, step, config, analysis>> /\ line = Library
    BY <1>6 DEF LibraryCall, toolVars
  <2> QED
    BY <2>1 DEF UseTool, CommandWaits, AnalyzerWaits, StepInv
<1>7. CASE ClientStep \/ RefreshTick
  <2>1. UNCHANGED <<line, step, config, analysis>>
    BY <1>7 DEF ClientStep, RefreshTick, toolVars
  <2> QED
    BY <1>7, <2>1, ToolOutcome DEF UseTool, CommandWaits, AnalyzerWaits
<1>8. CASE ToolTimeout \/ RequestStep \/ (Signal /\ UNCHANGED toolVars) \/ UNCHANGED vars
  BY <1>1, <1>8 DEF ToolTimeout, RequestStep, Signal, toolVars, clientVars, vars
<1> QED
  BY <1>2, <1>3, <1>4, <1>5, <1>6, <1>7, <1>8 DEF Next, MainStep

-----------------------------------------------------------------------------
(* What the tool ends with *)

\* Helper: one entry more in the log.
LEMMA LogAppended ==
    ASSUME NEW S, log \in Seq(S), NEW e \in S, log' = Append(log, e)
    PROVE  /\ log' \in Seq(S) /\ Len(log') = Len(log) + 1 /\ Len(log) \in Nat
           /\ Last(log') = e /\ log'[Len(log) + 1] = e /\ log' # <<>>
           /\ \A i \in 1..Len(log) : log'[i] = log[i]
           /\ DOMAIN log = 1..Len(log) /\ DOMAIN log' = 1..Len(log) + 1
BY DEF Last

Entries == [path : Paths, heard : Seq(RestReplies) \ {<<>>}]

\* Helper: the step that ends a request of the command.
LEMMA LogKeptByEnd ==
    ASSUME ToolInv, StepInv, RestInv, UseRest, LogInv, RestEnds
    PROVE  LogInv'
<1> DEFINE e == [path |-> rest.path, heard |-> rest.heard]
<1>1. /\ rest.at = "over" /\ step = "wait" /\ ~config.standalone /\ line \in Lines
      /\ UNCHANGED <<line, config>> /\ log' = Append(log, e)
  BY DEF RestEnds, ToolInv
<1>2. /\ rest.heard \in Seq(RestReplies) /\ Len(rest.heard) > 0
      /\ \A j \in DOMAIN rest.heard : rest.heard[j] \in Final => j = Len(rest.heard)
      /\ rest.err # "context" =>
             rest.err = (IF Last(rest.heard) = "ok" THEN "none" ELSE Last(rest.heard))
      /\ rest.err = "none" => Last(rest.heard) = "ok"
  <2>1. /\ rest.heard \in Seq(RestReplies) /\ Len(rest.heard) \in 1..RestRetries + 1
        /\ \A j \in 1..Len(rest.heard) : rest.heard[j] \in Final => j = Len(rest.heard)
        /\ rest.err # "context" =>
               rest.err = (IF Last(rest.heard) = "ok" THEN "none" ELSE Last(rest.heard))
    BY <1>1 DEF RestInv
  <2>2. Last(rest.heard) \in RestReplies /\ "none" \notin RestReplies
    BY <2>1, RestAssumption DEF Last, RestReplies, ClientErrors
  <2> QED
    BY <2>1, <2>2, RestAssumption
<1>3. e \in Entries /\ e.heard = rest.heard /\ e.path = rest.path
  BY <1>1, <1>2, LinesDiffer DEF UseRest, Entries
<1>4. log \in Seq(Entries)
  BY DEF LogInv, Entries
<1> HIDE DEF e
<1>5. /\ log' \in Seq(Entries) /\ Len(log') = Len(log) + 1 /\ Len(log) \in Nat
      /\ Last(log') = e /\ log'[Len(log) + 1] = e /\ log' # <<>>
      /\ \A i \in 1..Len(log) : log'[i] = log[i]
      /\ DOMAIN log = 1..Len(log) /\ DOMAIN log' = 1..Len(log) + 1
  BY <1>1, <1>3, <1>4, LogAppended
<1>6. \A i \in DOMAIN log' : i \in 1..Len(log) \/ i = Len(log) + 1
  BY <1>5
<1>7. \A i \in DOMAIN log' : \A j \in DOMAIN log'[i].heard :
           log'[i].heard[j] \in Final => j = Len(log'[i].heard)
  BY <1>2, <1>3, <1>5, <1>6 DEF LogInv
<1>8. log' \in Seq([path : Paths, heard : Seq(RestReplies) \ {<<>>}])
  BY <1>5 DEF Entries
<1>9. ASSUME line[1] = "health"
      PROVE  /\ rest.path \in {"/healthz", "/ready", "/meta"}
             /\ rest.path = "/healthz" => Len(log') = 1
             /\ rest.path = "/ready" => Len(log') = 2
             /\ rest.path = "/meta" => Len(log') = 3 /\ \A i \in 1..2 : Last(log'[i].heard) = "ok"
             /\ rest.err = "none" => \A i \in 1..Len(log') : Last(log'[i].heard) = "ok"
  <2>1. /\ rest.path \in {"/healthz", "/ready", "/meta"}
        /\ rest.path = "/healthz" => Len(log) = 0
        /\ rest.path = "/ready" => Len(log) = 1
        /\ rest.path = "/meta" => Len(log) = 2
        /\ \A i \in 1..Len(log) : Last(log[i].heard) = "ok"
    BY <1>1, <1>9 DEF LogInv
  <2>2. \A i \in 1..Len(log) : Last(log'[i].heard) = "ok"
    BY <1>5, <2>1
  <2>3. rest.err = "none" => Last(log'[Len(log) + 1].heard) = "ok"
    BY <1>2, <1>3, <1>5
  <2>4. \A i \in 1..Len(log') : i \in 1..Len(log) \/ i = Len(log) + 1
    BY <1>5
  <2>5. rest.err = "none" => \A i \in 1..Len(log') : Last(log'[i].heard) = "ok"
    BY <2>2, <2>3, <2>4
  <2>6. rest.path = "/meta" => \A i \in 1..2 : Last(log'[i].heard) = "ok"
    BY <2>1, <2>2
  <2> QED
    BY <1>5, <2>1, <2>5, <2>6
<1>10. CASE HealthGoesOn
  <2>1. /\ rest'.path = IF rest.path = "/healthz" THEN "/ready" ELSE "/meta"
        /\ step' = "wait" /\ line[1] = "health" /\ rest.err = "none" /\ rest.path # "/meta"
    BY <1>1, <1>10 DEF HealthGoesOn, DoRequest, NoRequest
  <2>2. /\ rest'.path \in {"/healthz", "/ready", "/meta"}
        /\ rest'.path = "/healthz" => Len(log') = 0
        /\ rest'.path = "/ready" => Len(log') = 1
        /\ rest'.path = "/meta" => Len(log') = 2
        /\ \A i \in 1..Len(log') : Last(log'[i].heard) = "ok"
    BY <1>9, <2>1
  <2> QED
    BY <1>1, <1>7, <1>8, <2>1, <2>2 DEF LogInv
<1>11. CASE ~HealthGoesOn
  <2>1. /\ step' = "exit" /\ rest' = rest
        /\ verdict' = (IF line[1] # "health" THEN FormatError(rest.err)
                       ELSE IF rest.path = "/meta" THEN Ended(0, "healthy")
                       ELSE Ended(1, "error"))
    BY <1>11 DEF RestEnds
  <2> DEFINE last == Last(rest.heard)
  <2>2. Last(Last(log').heard) = last
    BY <1>3, <1>5
  <2>3. verdict'.says \in {"answer", "not found", "rate limited"} =>
             verdict'.says = (CASE last = "ok" -> "answer"
                                [] last = "notFound" -> "not found"
                                [] last = "limited" -> "rate limited"
                                [] OTHER -> "error")
    <3>1. CASE line[1] # "health"
      <4>1. verdict'.says = (CASE rest.err = "none" -> "answer"
                               [] rest.err = "notFound" -> "not found"
                               [] rest.err = "limited" -> "rate limited"
                               [] OTHER -> "error")
        BY <2>1, <3>1, FormatTyped
      <4> HIDE DEF last
      <4>2. /\ rest.err # "context" => rest.err = (IF last = "ok" THEN "none" ELSE last)
            /\ rest.err = "none" => last = "ok"
        BY <1>2 DEF last
      <4>3. CASE rest.err = "none"
        BY <4>1, <4>2, <4>3
      <4>4. CASE rest.err = "notFound"
        BY <4>1, <4>2, <4>4
      <4>5. CASE rest.err = "limited"
        BY <4>1, <4>2, <4>5
      <4>6. CASE rest.err \notin {"none", "notFound", "limited"}
        BY <4>1, <4>6
      <4> QED
        BY <4>3, <4>4, <4>5, <4>6
    <3>2. CASE line[1] = "health"
      BY <2>1, <3>2 DEF Ended
    <3> QED
      BY <3>1, <3>2
  <2>4. (verdict'.code = 0 /\ line[1] = "health") => \A i \in 1..2 : Last(log'[i].heard) = "ok"
    BY <1>9, <2>1 DEF Ended
  <2> HIDE DEF last
  <2> QED
    BY <1>1, <1>7, <1>8, <2>1, <2>2, <2>3, <2>4 DEF LogInv
<1> QED
  BY <1>10, <1>11

\* Helper: every step leaves the log and the verdict in accord.
LEMMA LogKept ==
    ASSUME ToolInv, StepInv, RestInv, UseRest, LogInv, [Next]_vars
    PROVE  LogInv'
<1> USE LinesDiffer
<1>1. CASE UNCHANGED <<line, step, config, verdict, log, rest>>
  BY <1>1 DEF LogInv
<1>2. CASE log = <<>> /\ log' = log /\ ~(step' = "wait" /\ ~config'.standalone)
  BY <1>2 DEF LogInv
<1>3. CASE Parse
  <2>1. log = <<>> /\ log' = log /\ step' \in {"call", "exit"}
    BY <1>3 DEF Parse, StepInv
  <2> QED
    BY <1>2, <2>1
<1>4. CASE CallClient
  <2>1. log = <<>> /\ log' = log /\ config' = config /\ line' = line /\ step' = "wait"
    BY <1>4 DEF CallClient, StepInv
  <2>2. CASE config.standalone
    BY <1>2, <2>1, <2>2
  <2>3. CASE ~config.standalone
    <3>1. rest'.path = IF line[1] = "health" THEN "/healthz" ELSE line[1]
      BY <1>4, <2>3 DEF CallClient, DoRequest, NoRequest
    <3>2. Len(<<>>) = 0 /\ DOMAIN <<>> = {}
      OBVIOUS
    <3> QED
      BY <2>1, <3>1, <3>2 DEF LogInv
  <2> QED
    BY <2>2, <2>3
<1>5. CASE RestEnds
  BY <1>5, LogKeptByEnd
<1>6. CASE StandaloneEnds \/ CloseClient
  <2>1. config.standalone /\ UNCHANGED <<config, log>>
    BY <1>6 DEF StandaloneEnds, CloseClient, StepInv
  <2> QED
    BY <1>2, <2>1 DEF StepInv
<1>7. CASE AnalyzerStep /\ UNCHANGED toolVars
  <2>1. step = "parse" /\ UNCHANGED <<line, step, log>>
    BY <1>7, AnalysisKept DEF ToolInv, toolVars
  <2> QED
    BY <1>2, <2>1 DEF StepInv
<1>8. CASE RequestStep
  <2>1. UNCHANGED <<line, step, config, verdict, log>> /\ rest'.path = rest.path
    BY <1>8 DEF RequestStep, SingleRequest, Backoff, toolVars, RestInv, RestShape
  <2> QED
    BY <2>1 DEF LogInv
<1>9. CASE \/ ToolTimeout \/ LibraryCall \/ ClientStep \/ RefreshTick
           \/ Signal /\ UNCHANGED toolVars
           \/ UNCHANGED vars
  BY <1>1, <1>9 DEF ToolTimeout, LibraryCall, ClientStep, RefreshTick, Signal, toolVars, vars
<1> QED
  BY <1>3, <1>4, <1>5, <1>6, <1>7, <1>8, <1>9 DEF Next, MainStep

-----------------------------------------------------------------------------
(* A client that is down, and a load that succeeded, stay so *)

\* Helper: nobody opens a client again, and no later load undoes the first.
LEMMA DownForGood ==
    ASSUME ToolInv, ClientInv, [Next]_vars
    PROVE  /\ loop = "ended" => loop' = "ended"
           /\ closed => closed'
           /\ firstLoad = "ok" => firstLoad' = "ok"
<1>1. CASE UNCHANGED clientVars
  BY <1>1 DEF clientVars
<1>2. CASE ClientAction
  <2>1. closed => closed'
    BY <1>2
    DEF ClientAction, Begin, TakeSlot, Lookup, LookupStep, EnsureBootstrap, LoadFails, LoadBrings,
        Publish, SetResolver, Look, Store, QueryEnds, BatchLookup, BatchReturns, RefreshStep,
        RefreshFails, RefreshBrings, RefreshPublishes, RefreshSetsResolver, LoopEnds, Tick,
        SwapClosed, CloseStep, CancelRefresh, Release, closeVars
  <2>2. ASSUME firstLoad = "ok"
        PROVE  firstLoad' = "ok"
    <3>1. \A c \in Callers : place[c] # "load"
      BY <2>2, StandaloneAssumption DEF ClientInv, OnceInv, Loading
    <3> QED
      BY <1>2, <2>2, <3>1
      DEF ClientAction, Begin, TakeSlot, Lookup, LookupStep, EnsureBootstrap, LoadFails,
          LoadBrings, Publish, SetResolver, Look, Store, QueryEnds, BatchLookup, BatchReturns,
          RefreshStep, RefreshFails, RefreshBrings, RefreshPublishes, RefreshSetsResolver,
          LoopEnds, Tick, SwapClosed, CloseStep, CancelRefresh, Release, loadVars
  <2> QED
    BY <1>2, <2>1, <2>2, EndedForGood
<1> QED
  BY <1>1, <1>2, StepsAreTheClients

\* Helper: a tool's Close that has returned found the refresh ended.
LEMMA ClosedByTool ==
    ASSUME ClientInv, UseClose, line # Library, closing[ToolCloser] \in {"first", "second"}
    PROVE  loop = "ended" /\ closed
BY AnalyzerAssumption DEF ClientInv, CloseInv, UseClose

\* Helper: what a standalone lookup came to stands until the tool ends.
LEMMA StandaloneVerdictKept ==
    ASSUME ToolInv, ClientInv, StepInv, UseClose, UseTool, StandaloneVerdict, [Next]_vars
    PROVE  StandaloneVerdict'
<1> USE LinesDiffer
<1>1. CASE /\ UNCHANGED <<line, step, config, verdict>>
           /\ step # "parse" => outcome'[Tool] = outcome[Tool]
  <2>1. CASE step = "parse"
    BY <1>1, <2>1 DEF StandaloneVerdict
  <2>2. CASE step # "parse"
    BY <1>1, <2>2, DownForGood DEF StandaloneVerdict
  <2> QED
    BY <2>1, <2>2
<1>2. CASE Parse
  <2>1. ~config.standalone
    <3>1. config = Rejected("none")
      BY <1>2 DEF Parse, StepInv
    <3>2. Rejected("none").standalone = FALSE
      BY DEF Rejected
    <3> QED
      BY <3>1, <3>2
  <2>2. step' = "call" \/ config' = config
    BY <1>2 DEF Parse
  <2>3. step' \in {"call", "exit"}
    BY <1>2 DEF Parse
  <2> QED
    BY <2>1, <2>2, <2>3 DEF StandaloneVerdict
<1>3. CASE CallClient
  BY <1>3 DEF CallClient, StandaloneVerdict
<1>4. CASE RestEnds
  BY <1>4 DEF RestEnds, StandaloneVerdict
<1>5. CASE StandaloneEnds
  <2>1. UNCHANGED <<line, config, outcome>> /\ step' = "close"
    BY <1>5 DEF StandaloneEnds, clientVars
  <2>2. CASE line[1] = "batch"
    <3>1. verdict'.says = "answer"
      BY <1>5, <2>2 DEF StandaloneEnds, Ended
    <3> QED
      BY <2>1, <2>2, <3>1 DEF StandaloneVerdict
  <2>3. CASE line[1] # "batch"
    <3> DEFINE err == CASE outcome[Tool] = "data" -> "none"
                        [] outcome[Tool] = "denied" -> "notFound"
                        [] OTHER -> "other"
    <3>1. verdict' = FormatError(err)
      BY <1>5, <2>3 DEF StandaloneEnds
    <3>2. /\ err = "none" => outcome[Tool] = "data"
          /\ err = "notFound" => outcome[Tool] = "denied"
      OBVIOUS
    <3> HIDE DEF err
    <3>3. /\ verdict'.says = "answer" => err = "none"
          /\ verdict'.says = "not found" => err = "notFound"
      BY <3>1 DEF FormatError, Ended
    <3> QED
      BY <2>1, <3>2, <3>3 DEF StandaloneVerdict
  <2> QED
    BY <2>2, <2>3
<1>6. CASE CloseClient
  <2>1. step = "close" /\ UNCHANGED <<line, config, verdict, outcome>> /\ line \in Lines
    BY <1>6 DEF CloseClient, SwapClosed, lookupVars, clientVars, ToolInv
  <2>2. step' = "exit" => closing[ToolCloser] \in {"first", "second"} /\ UNCHANGED clientVars
    BY <1>6, <2>1 DEF CloseClient
  <2>3. step' = "exit" => loop' = "ended" /\ closed'
    BY <2>1, <2>2, ClosedByTool DEF clientVars
  <2>4. step' \in {"close", "exit"}
    BY <1>6, <2>1 DEF CloseClient
  <2> QED
    BY <2>1, <2>3, <2>4 DEF StandaloneVerdict
<1>7. CASE AnalyzerStep /\ UNCHANGED toolVars
  <2>1. step = "parse"
    BY <1>7, AnalysisKept DEF ToolInv
  <2> QED
    BY <1>1, <1>7, <2>1 DEF toolVars
<1>8. CASE LibraryCall
  <2>1. step = "parse"
    BY <1>8 DEF LibraryCall, ToolInv
  <2> QED
    BY <1>1, <1>8, <2>1 DEF LibraryCall, toolVars
<1>9. CASE ClientStep \/ RefreshTick
  <2>1. UNCHANGED <<line, step, config, verdict>>
    BY <1>9 DEF ClientStep, RefreshTick, toolVars
  <2>2. CASE step \in {"close", "exit"}
    <3>1. place[Tool] = "idle"
      BY <2>2 DEF ToolInv, UseTool, CommandWaits
    <3>2. outcome'[Tool] = outcome[Tool]
      BY <1>9, <3>1, ToolOutcome DEF ClientInv
    <3> QED
      BY <1>1, <2>1, <3>2
  <2>3. CASE step \notin {"close", "exit"}
    BY <2>1, <2>3 DEF StandaloneVerdict
  <2> QED
    BY <2>2, <2>3
<1>10. CASE ToolTimeout \/ RequestStep \/ (Signal /\ UNCHANGED toolVars) \/ UNCHANGED vars
  <2>1. UNCHANGED <<line, step, config, verdict, outcome>>
    BY <1>10 DEF ToolTimeout, RequestStep, Signal, toolVars, clientVars, vars
  <2> QED
    BY <1>1, <2>1
<1> QED
  BY <1>2, <1>3, <1>4, <1>5, <1>6, <1>7, <1>8, <1>9, <1>10 DEF Next, MainStep

-----------------------------------------------------------------------------
(* The report of the analyzer *)

\* Helper: the domains and the addresses of a feed are as many as can be counted.
LEMMA FeedIsFinite ==
    ASSUME NEW feed \in Feeds
    PROVE  /\ IsFiniteSet(ExtractUniqueDomains(feed)) /\ IsFiniteSet(ExtractIPs(feed))
           /\ ExtractUniqueDomains(feed) \subseteq Keys /\ ExtractIPs(feed) \subseteq Keys
<1>1. IsFiniteSet(feed) /\ feed \subseteq [host : Keys \union {NoKey}, ip : Keys \union {NoKey}]
  BY AnalyzerAssumption
<1>2. IsFiniteSet({e.host : e \in feed})
  <2> DEFINE f == [e \in feed |-> e.host]
  <2>1. f \in Surjection(feed, {e.host : e \in feed})
    BY DEF Surjection
  <2> QED
    BY <1>1, <2>1, FS_Surjection
<1>3. IsFiniteSet({e.ip : e \in feed})
  <2> DEFINE f == [e \in feed |-> e.ip]
  <2>1. f \in Surjection(feed, {e.ip : e \in feed})
    BY DEF Surjection
  <2> QED
    BY <1>1, <2>1, FS_Surjection
<1>4. ExtractUniqueDomains(feed) \in SUBSET {e.host : e \in feed}
  BY DEF ExtractUniqueDomains
<1>5. ExtractIPs(feed) \in SUBSET {e.ip : e \in feed}
  BY DEF ExtractIPs
<1>6. IsFiniteSet(ExtractUniqueDomains(feed)) /\ IsFiniteSet(ExtractIPs(feed))
  BY <1>2, <1>3, <1>4, <1>5, FS_Subset
<1>7. ExtractUniqueDomains(feed) \subseteq Keys /\ ExtractIPs(feed) \subseteq Keys
  BY <1>1 DEF ExtractUniqueDomains, ExtractIPs
<1> QED
  BY <1>6, <1>7

\* Helper: and so are those of the report.
LEMMA SubjectsAreFinite ==
    ASSUME analysis.feed \in Feeds
    PROVE  /\ IsFiniteSet(Domains) /\ IsFiniteSet(Addresses)
           /\ Cardinality(Domains) \in Nat /\ Cardinality(Addresses) \in Nat
           /\ Domains \subseteq Keys /\ Addresses \subseteq Keys
<1>1. IsFiniteSet({}) /\ {} \subseteq Keys
  BY FS_EmptySet
<1> QED
  BY <1>1, FeedIsFinite, FS_CardinalityType DEF Domains, Addresses

\* Helper: all that is done and one of the rest is one more.
LEMMA OneMoreDone ==
    ASSUME NEW S, IsFiniteSet(S), NEW T \in SUBSET S, NEW k \in T
    PROVE  /\ S \ (T \ {k}) = (S \ T) \union {k}
           /\ Cardinality(S \ T) \in Nat /\ Cardinality(S) \in Nat
           /\ Cardinality(S \ (T \ {k})) = Cardinality(S \ T) + 1
           /\ Cardinality(S \ T) + 1 <= Cardinality(S)
<1>1. S \ (T \ {k}) = (S \ T) \union {k} /\ k \notin S \ T
  OBVIOUS
<1>2. /\ IsFiniteSet(S \ T)
      /\ Cardinality(S \ T) <= Cardinality(S) /\ Cardinality(S \ T) # Cardinality(S)
  <2>1. S \ T \in SUBSET S /\ S # S \ T
    BY <1>1
  <2> QED
    BY <2>1, FS_Subset
<1>3. Cardinality((S \ T) \union {k}) = Cardinality(S \ T) + 1
  BY <1>1, <1>2, FS_AddElement
<1>4. Cardinality(S \ T) \in Nat /\ Cardinality(S) \in Nat
  BY <1>2, FS_CardinalityType
<1>5. Cardinality(S \ T) + 1 <= Cardinality(S)
  BY <1>2, <1>4
<1>6. Cardinality(S \ (T \ {k})) = Cardinality(S \ T) + 1
  BY <1>1, <1>3
<1> QED
  BY <1>1, <1>4, <1>5, <1>6

\* Helper: the results keep their types.
LEMMA ReportTypedKept ==
    ASSUME ToolInv, ClientInv, RestInv, UseRest, ReportTyped, [Next]_vars
    PROVE  ReportTyped'
<1>1. CASE UNCHANGED analysis
  BY <1>1 DEF ReportTyped
<1>2. CASE FetchPhishingURLs
  <2>1. analysis.at = "fetch" /\ analysis.results = <<>>
    BY <1>2 DEF FetchPhishingURLs, ReportTyped
  <2>2. /\ analysis'.at \in {"create", "over"} /\ analysis'.code \in {0, 1}
        /\ analysis'.asked = analysis.asked /\ analysis'.results = analysis.results
    BY <1>2 DEF FetchPhishingURLs, Ends, ToolInv, AnalysisShape, ReportTyped
  <2> QED
    BY <2>1, <2>2 DEF ReportTyped
<1>3. CASE CreateClient \/ CloseAnalysisClient \/ Generate
  BY <1>3 DEF CreateClient, CloseAnalysisClient, Generate, Ends, ToolInv, AnalysisShape,
              ReportTyped
<1>4. CASE LookupNext
  <2>1. ASSUME NEW k \in Left,
               analysis' = [analysis EXCEPT
                    !.at = "wait", !.asked = k,
                    !.domains = @ \ {k},
                    !.ips = IF k \in analysis.domains THEN @ ELSE @ \ {k}]
        PROVE  ReportTyped'
    <3>1. k \in Keys /\ k # NoKey
      BY StandaloneAssumption DEF Left, ToolInv
    <3> QED
      BY <1>4, <2>1, <3>1 DEF LookupNext, ToolInv, AnalysisShape, ReportTyped
  <2>2. CASE analysis' = [analysis EXCEPT !.at = "close"]
    BY <1>4, <2>2 DEF LookupNext, ToolInv, AnalysisShape, ReportTyped
  <2> QED
    BY <1>4, <2>1, <2>2 DEF LookupNext
<1>5. CASE LookupEnds
  <2> DEFINE err == IF analysis.standalone THEN outcome[Tool] ELSE rest.err
             last == IF analysis.standalone THEN err ELSE Last(rest.heard)
  <2>1. PICK class \in ClassifyError(err) :
             analysis' = [analysis EXCEPT
                 !.at = "lookup", !.asked = NoKey,
                 !.results = Append(@, [of |-> analysis.asked, class |-> class, last |-> last])]
    BY <1>5 DEF LookupEnds
  <2>2. class \in Classes
    BY Zenon DEF ClassifyError, Classes
  <2>3. last \in Lasts
    <3>1. CASE analysis.standalone
      BY <3>1, AnalyzerAssumption DEF ClientInv, ClientTyped, Lasts
    <3>2. CASE ~analysis.standalone
      <4>1. rest.heard \in Seq(RestReplies) /\ Len(rest.heard) \in 1..RestRetries + 1
        BY <1>5, <3>2 DEF LookupEnds, RestInv
      <4>2. Last(rest.heard) \in RestReplies
        BY <4>1, RestAssumption DEF Last
      <4> QED
        BY <3>2, <4>2 DEF Lasts
    <3> QED
      BY <3>1, <3>2
  <2> HIDE DEF err, last
  <2>4. [of |-> analysis.asked, class |-> class, last |-> last]
            \in [of : Keys, class : Classes, last : Lasts]
    BY <1>5, <2>2, <2>3 DEF LookupEnds, ReportTyped
  <2>5. /\ analysis'.at = "lookup" /\ analysis'.asked = NoKey /\ analysis'.code = analysis.code
        /\ analysis'.results
               = Append(analysis.results, [of |-> analysis.asked, class |-> class, last |-> last])
    BY <2>1 DEF ToolInv, AnalysisShape
  <2> QED
    BY <2>4, <2>5 DEF ReportTyped
<1>6. CASE AnalyzerStep
  BY <1>2, <1>3, <1>4, <1>5, <1>6 DEF AnalyzerStep
<1>7. CASE ~AnalyzerStep
  BY <1>1, <1>7
  DEF Next, MainStep, Parse, CallClient, RestEnds, StandaloneEnds, CloseClient, ToolTimeout,
      RequestStep, LibraryCall, ClientStep, RefreshTick, Signal, vars
<1> QED
  BY <1>6, <1>7

\* Helper: a class that says something is that of an error that says it.
LEMMA ClassSays ==
    ASSUME NEW err, NEW class \in ClassifyError(err)
    PROVE  /\ class = "OK" => err \in {"none", "data"}
           /\ class = "NOT_FOUND" => err \in {"denied", "notFound"}
           /\ class = "RATE_LIMITED" => err = "limited"
<1>1. CASE err \in {"none", "data"}
  BY <1>1 DEF ClassifyError
<1>2. CASE err = "denied"
  BY <1>2 DEF ClassifyError
<1>3. CASE err = "notFound"
  BY <1>3 DEF ClassifyError
<1>4. CASE err = "limited"
  BY <1>4 DEF ClassifyError
<1>5. CASE err \notin {"none", "data", "denied", "notFound", "limited"}
  <2>1. ClassifyError(err) = {"OTHER"}
    BY <1>5 DEF ClassifyError
  <2> QED
    BY <2>1
<1> QED
  BY <1>1, <1>2, <1>3, <1>4, <1>5

\* Helper: a result that is added is what its lookup came to.
LEMMA ReportTrueKept ==
    ASSUME ToolInv, ClientInv, RestInv, UseTool, ReportTyped, ReportTrue, [Next]_vars
    PROVE  ReportTrue'
<1>1. CASE UNCHANGED <<analysis>>
  BY <1>1, DownForGood DEF ReportTrue, ResultTrue
<1>2. CASE FetchPhishingURLs \/ CreateClient \/ CloseAnalysisClient \/ Generate
  <2>1. analysis'.results = analysis.results /\ analysis'.standalone = analysis.standalone
    BY <1>2 DEF FetchPhishingURLs, CreateClient, CloseAnalysisClient, Generate, Ends, ToolInv,
                AnalysisShape
  <2> QED
    BY <2>1, DownForGood DEF ReportTrue, ResultTrue
<1>3. CASE LookupNext
  <2>1. analysis'.results = analysis.results /\ analysis'.standalone = analysis.standalone
    BY <1>3 DEF LookupNext, ToolInv, AnalysisShape
  <2> QED
    BY <2>1, DownForGood DEF ReportTrue, ResultTrue
<1>4. CASE LookupEnds
  <2> DEFINE err == IF analysis.standalone THEN outcome[Tool] ELSE rest.err
             last == IF analysis.standalone THEN err ELSE Last(rest.heard)
  <2>1. PICK class \in ClassifyError(err) :
             analysis' = [analysis EXCEPT
                 !.at = "lookup", !.asked = NoKey,
                 !.results = Append(@, [of |-> analysis.asked, class |-> class, last |-> last])]
    BY <1>4 DEF LookupEnds
  <2> DEFINE r == [of |-> analysis.asked, class |-> class, last |-> last]
  <2>2. /\ analysis'.standalone = analysis.standalone
        /\ analysis'.results = Append(analysis.results, r)
    BY <2>1 DEF ToolInv, AnalysisShape
  <2>3. /\ class = "OK" => err \in {"none", "data"}
        /\ class = "NOT_FOUND" => err \in {"denied", "notFound"}
        /\ class = "RATE_LIMITED" => err = "limited"
    BY ClassSays
  <2>4. /\ class = "OK" => last \in {"ok", "data"}
        /\ class = "NOT_FOUND" => last \in {"notFound", "denied"}
        /\ class = "RATE_LIMITED" => last = "limited"
        /\ class = "OK" /\ analysis.standalone => firstLoad = "ok"
    <3>1. CASE analysis.standalone
      <4>1. Tool \in Callers /\ place[Tool] = "idle"
        BY <1>4, <3>1, AnalyzerAssumption DEF LookupEnds
      <4>2. err = outcome[Tool] /\ last = outcome[Tool] /\ outcome[Tool] # "none"
        BY <1>4, <3>1, <4>1 DEF LookupEnds, UseTool, AnalyzerWaits
      <4>3. outcome[Tool] = "data" => firstLoad = "ok"
        BY <4>1 DEF ClientInv, ServedInv, Served
      <4>4. outcome[Tool] \in Served \union {"none", "closed", "refused", "unsupported"}
        BY <4>1 DEF ClientInv, ClientTyped
      <4>5. outcome[Tool] \notin {"notFound", "limited"}
        BY <4>4 DEF Served
      <4> HIDE DEF err, last
      <4> QED
        BY <2>3, <4>2, <4>3, <4>5
    <3>2. CASE ~analysis.standalone
      <4>1. rest.at = "over" /\ err = rest.err /\ last = Last(rest.heard)
        BY <1>4, <3>2 DEF LookupEnds
      <4>2. /\ rest.err # "context" =>
                   rest.err = (IF Last(rest.heard) = "ok" THEN "none" ELSE Last(rest.heard))
            /\ rest.err \in {"none", "context"} \union (RestReplies \ {"ok"})
            /\ rest.heard \in Seq(RestReplies) /\ Len(rest.heard) \in 1..RestRetries + 1
        BY <4>1 DEF RestInv
      <4>3. Last(rest.heard) # "none"
        <5>1. Last(rest.heard) \in RestReplies
          BY <4>2, RestAssumption DEF Last
        <5> QED
          BY <5>1 DEF RestReplies, ClientErrors
      <4>4. rest.err \notin {"data", "denied"}
        BY <4>2 DEF RestReplies, ClientErrors
      <4> HIDE DEF err, last
      <4> QED
        BY <2>3, <3>2, <4>1, <4>2, <4>3, <4>4
    <3> QED
      BY <3>1, <3>2
  <2> HIDE DEF err, last
  <2>5. firstLoad = "ok" => firstLoad' = "ok"
    BY DownForGood
  <2>6. ASSUME NEW new, new = r
        PROVE  ResultTrue(new)'
    BY <2>2, <2>4, <2>5, <2>6 DEF ResultTrue
  <2>7. analysis.results \in Seq([of : Keys, class : Classes, last : Lasts])
    BY DEF ReportTyped
  <2>8. ASSUME NEW i \in DOMAIN analysis'.results
        PROVE  ResultTrue(analysis.results[i])'
    <3>1. CASE i \in 1..Len(analysis.results)
      <4>1. i \in DOMAIN analysis.results /\ analysis'.results[i] = analysis.results[i]
        BY <2>2, <2>7, <3>1
      <4> QED
        BY <2>2, <2>5, <4>1 DEF ReportTrue, ResultTrue
    <3>2. CASE i = Len(analysis.results) + 1
      <4>1. analysis'.results[i] = r
        BY <2>2, <2>7, <3>2
      <4> HIDE DEF r
      <4> QED
        BY <2>6, <4>1 DEF ResultTrue
    <3> QED
      BY <2>2, <2>7, <3>1, <3>2
  <2> QED
    BY <2>8 DEF ReportTrue
<1>5. CASE AnalyzerStep
  BY <1>2, <1>3, <1>4, <1>5 DEF AnalyzerStep
<1>6. CASE ~AnalyzerStep
  BY <1>1, <1>6
  DEF Next, MainStep, Parse, CallClient, RestEnds, StandaloneEnds, CloseClient, ToolTimeout,
      RequestStep, LibraryCall, ClientStep, RefreshTick, Signal, vars
<1> QED
  BY <1>5, <1>6

\* Helper: the values at some places and at one more place.
LEMMA OneAskedMore ==
    ASSUME NEW f, NEW A, NEW x
    PROVE  {f[i] : i \in A \union {x}} = {f[i] : i \in A} \union {f[x]}
OBVIOUS

\* Helper: what was asked is not changed by the next question, nor by the end of one.
LEMMA ProgressOfNext ==
    ASSUME ToolInv, ReportTyped, ReportProgress, analysis.at = "lookup", NEW k \in Left,
           analysis' = [analysis EXCEPT
                    !.at = "wait", !.asked = k,
                    !.domains = @ \ {k},
                    !.ips = IF k \in analysis.domains THEN @ ELSE @ \ {k}]
    PROVE  ReportProgress'
<1> DEFINE N == Len(analysis.results)
           n == Cardinality(Domains)
<1>1. /\ analysis'.at = "wait" /\ analysis'.asked = k /\ analysis'.results = analysis.results
      /\ analysis'.domains = analysis.domains \ {k}
      /\ analysis'.ips = IF k \in analysis.domains THEN analysis.ips ELSE analysis.ips \ {k}
      /\ analysis'.feed = analysis.feed /\ analysis'.ipLookup = analysis.ipLookup
  BY DEF ToolInv, AnalysisShape
<1>2. Domains' = Domains /\ Addresses' = Addresses
  BY <1>1 DEF Domains, Addresses
<1>3. N \in Nat /\ AskedCount = N /\ AskedCount' = N + 1
  BY <1>1 DEF AskedCount, ReportTyped
<1>4. /\ \A i \in 1..N : Asked(i)' = Asked(i)
      /\ Asked(N + 1)' = k
  BY <1>1, <1>3 DEF Asked
<1>5. /\ analysis.feed \in Feeds
      /\ analysis.domains \in SUBSET Domains /\ analysis.ips \in SUBSET Addresses
      /\ N = Cardinality(Domains \ analysis.domains) + Cardinality(Addresses \ analysis.ips)
      /\ {Asked(i) : i \in {j \in 1..N : j <= n}} = Domains \ analysis.domains
      /\ {Asked(i) : i \in {j \in 1..N : j > n}} = Addresses \ analysis.ips
      /\ analysis.domains # {} => analysis.ips = Addresses
  BY <1>3 DEF ReportProgress
<1>6. IsFiniteSet(Domains) /\ IsFiniteSet(Addresses) /\ n \in Nat
  BY <1>5, SubjectsAreFinite
<1>9. N' = N
  BY <1>1
<1> HIDE DEF N, n
<1>7. CASE analysis.domains # {}
  <2>1. k \in analysis.domains /\ analysis.ips = Addresses /\ analysis'.ips = Addresses
    BY <1>1, <1>5, <1>7 DEF Left
  <2>2. /\ Domains \ (analysis.domains \ {k}) = (Domains \ analysis.domains) \union {k}
        /\ Cardinality(Domains \ analysis.domains) \in Nat
        /\ Cardinality(Domains \ (analysis.domains \ {k}))
               = Cardinality(Domains \ analysis.domains) + 1
        /\ Cardinality(Domains \ analysis.domains) + 1 <= n
    <3>1. IsFiniteSet(Domains) /\ analysis.domains \in SUBSET Domains /\ k \in analysis.domains
      BY <1>5, <1>6, <2>1
    <3>2. PICK S, T : S = Domains /\ T = analysis.domains
      OBVIOUS
    <3>3. IsFiniteSet(S) /\ T \in SUBSET S /\ k \in T
      BY <3>1, <3>2
    <3>4. /\ S \ (T \ {k}) = (S \ T) \union {k}
          /\ Cardinality(S \ T) \in Nat
          /\ Cardinality(S \ (T \ {k})) = Cardinality(S \ T) + 1
          /\ Cardinality(S \ T) + 1 <= Cardinality(S)
      BY <3>3, OneMoreDone
    <3> QED
      BY <3>2, <3>4 DEF n
  <2>3. Addresses \ Addresses = {} /\ Cardinality({}) = 0
    BY FS_EmptySet
  <2>4. N + 1 <= n /\ N = Cardinality(Domains \ analysis.domains)
    BY <1>5, <2>1, <2>2, <2>3
  <2>5. /\ {j \in 1..N + 1 : j <= n} = {j \in 1..N : j <= n} \union {N + 1}
        /\ {j \in 1..N + 1 : j > n} = {}
    BY <1>3, <1>6, <2>4
  <2>6. {Asked(i)' : i \in {j \in 1..N + 1 : j <= n}} = (Domains \ analysis.domains) \union {k}
    <3>1. {Asked(i)' : i \in {j \in 1..N : j <= n}} = {Asked(i) : i \in {j \in 1..N : j <= n}}
      BY <1>4
    <3>2. {Asked(i)' : i \in {j \in 1..N : j <= n} \union {N + 1}}
             = {Asked(i)' : i \in {j \in 1..N : j <= n}} \union {Asked(N + 1)'}
      <4>1. PICK f : f = [i \in 1..N + 1 |-> Asked(i)']
        OBVIOUS
      <4>2. PICK A : A = {j \in 1..N : j <= n}
        OBVIOUS
      <4>3. /\ A \subseteq 1..N + 1 /\ N + 1 \in 1..N + 1
            /\ \A i \in 1..N + 1 : f[i] = Asked(i)'
        BY <1>3, <4>1, <4>2
      <4>4. {f[i] : i \in A \union {N + 1}} = {f[i] : i \in A} \union {f[N + 1]}
        BY OneAskedMore
      <4>5. {f[i] : i \in A} = {Asked(i)' : i \in A}
        BY <4>3
      <4>6. PICK B : B = A \union {N + 1}
        OBVIOUS
      <4>7. \A i \in B : f[i] = Asked(i)'
        BY <4>3, <4>6
      <4>8. {f[i] : i \in B} = {Asked(i)' : i \in B}
        BY <4>7
      <4>9. f[N + 1] = Asked(N + 1)'
        BY <1>9, <4>3, Zenon
      <4> QED
        BY <4>2, <4>4, <4>5, <4>6, <4>8, <4>9, Zenon
    <3> QED
      BY <1>4, <1>5, <2>5, <3>1, <3>2
  <2>7. {Asked(i)' : i \in {j \in 1..N + 1 : j > n}} = {}
    BY <2>5
  <2>8. N + 1 = Cardinality(Domains \ (analysis.domains \ {k})) + Cardinality(Addresses \ Addresses)
    BY <1>3, <2>2, <2>3, <2>4
  <2>9. n' = n
    BY <1>2 DEF n
  <2> QED
    BY <1>1, <1>2, <1>3, <1>5, <2>1, <2>2, <2>3, <2>6, <2>7, <2>8, <2>9 DEF ReportProgress, n
<1>8. CASE analysis.domains = {}
  <2>1. k \in analysis.ips /\ analysis'.ips = analysis.ips \ {k} /\ analysis'.domains = {}
    BY <1>1, <1>8 DEF Left
  <2>2. /\ Addresses \ (analysis.ips \ {k}) = (Addresses \ analysis.ips) \union {k}
        /\ Cardinality(Addresses \ analysis.ips) \in Nat
        /\ Cardinality(Addresses \ (analysis.ips \ {k}))
               = Cardinality(Addresses \ analysis.ips) + 1
    <3>1. IsFiniteSet(Addresses) /\ analysis.ips \in SUBSET Addresses /\ k \in analysis.ips
      BY <1>5, <1>6, <2>1
    <3>2. PICK S, T : S = Addresses /\ T = analysis.ips
      OBVIOUS
    <3>3. IsFiniteSet(S) /\ T \in SUBSET S /\ k \in T
      BY <3>1, <3>2
    <3>4. /\ S \ (T \ {k}) = (S \ T) \union {k}
          /\ Cardinality(S \ T) \in Nat
          /\ Cardinality(S \ (T \ {k})) = Cardinality(S \ T) + 1
      BY <3>3, OneMoreDone
    <3> QED
      BY <3>2, <3>4
  <2>3. Domains \ {} = Domains
    OBVIOUS
  <2>4. N >= n /\ N = n + Cardinality(Addresses \ analysis.ips)
    BY <1>5, <1>6, <1>8, <2>2, <2>3 DEF n
  <2>5. /\ {j \in 1..N + 1 : j <= n} = {j \in 1..N : j <= n}
        /\ {j \in 1..N + 1 : j > n} = {j \in 1..N : j > n} \union {N + 1}
    <3>1. \A j : j \in 1..N + 1 <=> j \in 1..N \/ j = N + 1
      BY <1>3
    <3>2. N + 1 > n /\ ~(N + 1 <= n)
      BY <1>3, <1>6, <2>4
    <3>3. {j \in 1..N + 1 : j <= n} = {j \in 1..N : j <= n}
      BY <3>1, <3>2
    <3>4. {j \in 1..N + 1 : j > n} = {j \in 1..N : j > n} \union {N + 1}
      BY <3>1, <3>2
    <3> QED
      BY <3>3, <3>4
  <2>6. {Asked(i)' : i \in {j \in 1..N + 1 : j <= n}} = Domains
    <3>1. {Asked(i)' : i \in {j \in 1..N : j <= n}} = {Asked(i) : i \in {j \in 1..N : j <= n}}
      BY <1>4
    <3> QED
      BY <1>5, <1>8, <2>3, <2>5, <3>1
  <2>7. {Asked(i)' : i \in {j \in 1..N + 1 : j > n}} = (Addresses \ analysis.ips) \union {k}
    <3>1. {Asked(i)' : i \in {j \in 1..N : j > n}} = {Asked(i) : i \in {j \in 1..N : j > n}}
      BY <1>4
    <3>2. {Asked(i)' : i \in {j \in 1..N : j > n} \union {N + 1}}
             = {Asked(i)' : i \in {j \in 1..N : j > n}} \union {Asked(N + 1)'}
      <4>1. PICK f : f = [i \in 1..N + 1 |-> Asked(i)']
        OBVIOUS
      <4>2. PICK A : A = {j \in 1..N : j > n}
        OBVIOUS
      <4>3. /\ A \subseteq 1..N + 1 /\ N + 1 \in 1..N + 1
            /\ \A i \in 1..N + 1 : f[i] = Asked(i)'
        BY <1>3, <4>1, <4>2
      <4>4. {f[i] : i \in A \union {N + 1}} = {f[i] : i \in A} \union {f[N + 1]}
        BY OneAskedMore
      <4>5. {f[i] : i \in A} = {Asked(i)' : i \in A}
        BY <4>3
      <4>6. PICK B : B = A \union {N + 1}
        OBVIOUS
      <4>7. \A i \in B : f[i] = Asked(i)'
        BY <4>3, <4>6
      <4>8. {f[i] : i \in B} = {Asked(i)' : i \in B}
        BY <4>7
      <4>9. f[N + 1] = Asked(N + 1)'
        BY <1>9, <4>3, Zenon
      <4> QED
        BY <4>2, <4>4, <4>5, <4>6, <4>8, <4>9, Zenon
    <3> QED
      BY <1>4, <1>5, <2>5, <3>1, <3>2
  <2>8. N + 1 = Cardinality(Domains \ {}) + Cardinality(Addresses \ (analysis.ips \ {k}))
    BY <1>3, <1>6, <2>2, <2>3, <2>4 DEF n
  <2>9. n' = n
    BY <1>2 DEF n
  <2> QED
    BY <1>1, <1>2, <1>3, <1>5, <2>1, <2>2, <2>3, <2>6, <2>7, <2>8, <2>9 DEF ReportProgress, n
<1> QED
  BY <1>7, <1>8

\* Helper: what was asked, and what is left, are the same after a step that asks nothing.
LEMMA ProgressOfSame ==
    ASSUME ReportProgress, analysis.at \in {"create", "lookup", "wait", "close", "report"},
           analysis'.feed = analysis.feed, analysis'.ipLookup = analysis.ipLookup,
           analysis'.domains = analysis.domains, analysis'.ips = analysis.ips,
           AskedCount' = AskedCount, \A i \in 1..AskedCount : Asked(i)' = Asked(i),
           analysis'.at \in {"close", "report"} => analysis.domains = {} /\ analysis.ips = {}
    PROVE  ReportProgress'
<1>1. Domains' = Domains /\ Addresses' = Addresses
  BY DEF Domains, Addresses
<1>2. /\ {j \in 1..AskedCount' : j <= Cardinality(Domains)}
             = {j \in 1..AskedCount : j <= Cardinality(Domains)}
      /\ {j \in 1..AskedCount' : j > Cardinality(Domains)}
             = {j \in 1..AskedCount : j > Cardinality(Domains)}
  OBVIOUS
<1>3. {Asked(i)' : i \in {j \in 1..AskedCount : j <= Cardinality(Domains)}}
        = {Asked(i) : i \in {j \in 1..AskedCount : j <= Cardinality(Domains)}}
  OBVIOUS
<1>4. {Asked(i)' : i \in {j \in 1..AskedCount : j > Cardinality(Domains)}}
        = {Asked(i) : i \in {j \in 1..AskedCount : j > Cardinality(Domains)}}
  OBVIOUS
<1>5. /\ analysis.feed \in Feeds
      /\ analysis.domains \subseteq Domains /\ analysis.ips \subseteq Addresses
      /\ AskedCount = Cardinality(Domains \ analysis.domains)
                          + Cardinality(Addresses \ analysis.ips)
      /\ {Asked(i) : i \in {j \in 1..AskedCount : j <= Cardinality(Domains)}}
             = Domains \ analysis.domains
      /\ {Asked(i) : i \in {j \in 1..AskedCount : j > Cardinality(Domains)}}
             = Addresses \ analysis.ips
      /\ analysis.domains # {} => analysis.ips = Addresses
  BY DEF ReportProgress
<1> QED
  BY <1>1, <1>2, <1>3, <1>4, <1>5 DEF ReportProgress

\* Helper: a feed has arrived, and nothing of it was asked.
LEMMA ProgressOfFeed ==
    ASSUME ToolInv, NEW feed \in Feeds, analysis.results = <<>>,
           analysis' = [analysis EXCEPT
                    !.at = "create", !.feed = feed,
                    !.domains = ExtractUniqueDomains(feed),
                    !.ips = IF analysis.ipLookup THEN ExtractIPs(feed) ELSE {}]
    PROVE  ReportProgress'
<1>1. /\ analysis'.at = "create" /\ analysis'.feed = feed
      /\ analysis'.ipLookup = analysis.ipLookup /\ analysis'.results = <<>>
      /\ analysis'.domains = ExtractUniqueDomains(feed)
      /\ analysis'.ips = IF analysis.ipLookup THEN ExtractIPs(feed) ELSE {}
  BY DEF ToolInv, AnalysisShape
<1>2. Domains' = analysis'.domains /\ Addresses' = analysis'.ips
  BY <1>1 DEF Domains, Addresses
<1>3. AskedCount' = 0
  BY <1>1 DEF AskedCount
<1>4. Cardinality({}) = 0
  BY FS_EmptySet
<1>5. Domains' \ analysis'.domains = {} /\ Addresses' \ analysis'.ips = {}
  BY <1>2
<1>6. /\ {j \in 1..AskedCount' : j <= Cardinality(Domains')} = {}
      /\ {j \in 1..AskedCount' : j > Cardinality(Domains')} = {}
  BY <1>3
<1>7. /\ {Asked(i)' : i \in {j \in 1..AskedCount' : j <= Cardinality(Domains')}} = {}
      /\ {Asked(i)' : i \in {j \in 1..AskedCount' : j > Cardinality(Domains')}} = {}
  BY <1>6
<1>8. AskedCount' = Cardinality(Domains' \ analysis'.domains)
                        + Cardinality(Addresses' \ analysis'.ips)
  <2>1. /\ Cardinality(Domains' \ analysis'.domains) = 0
        /\ Cardinality(Addresses' \ analysis'.ips) = 0
    BY <1>4, <1>5, Zenon
  <2> QED
    BY <1>3, <2>1
<1>9. analysis'.domains \subseteq Domains' /\ analysis'.ips \subseteq Addresses'
  BY <1>2
<1> QED
  BY <1>1, <1>2, <1>5, <1>7, <1>8, <1>9, Zenon DEF ReportProgress

\* Helper: nothing of a feed is asked twice, forgotten, or asked in the other order.
LEMMA ReportProgressKept ==
    ASSUME ToolInv, ReportTyped, ReportProgress, [Next]_vars
    PROVE  ReportProgress'
<1>1. CASE UNCHANGED analysis
  BY <1>1 DEF ReportProgress, Domains, Addresses, AskedCount, Asked
<1>2. CASE analysis'.at = "over"
  BY <1>2 DEF ReportProgress
<1>3. CASE FetchPhishingURLs
  <2>1. CASE Ends(1)
    BY <1>2, <2>1 DEF Ends, ToolInv, AnalysisShape
  <2>2. analysis.results = <<>>
    BY <1>3 DEF FetchPhishingURLs, ReportTyped
  <2> QED
    BY <1>3, <2>1, <2>2, ProgressOfFeed DEF FetchPhishingURLs
<1>4. CASE CreateClient
  <2>1. CASE Ends(1)
    BY <1>2, <2>1 DEF Ends, ToolInv, AnalysisShape
  <2>2. CASE analysis' = [analysis EXCEPT !.at = "lookup"]
    <3>1. analysis.at = "create"
      BY <1>4 DEF CreateClient
    <3>2. /\ analysis'.at = "lookup" /\ analysis'.feed = analysis.feed
          /\ analysis'.ipLookup = analysis.ipLookup /\ analysis'.domains = analysis.domains
          /\ analysis'.ips = analysis.ips /\ analysis'.results = analysis.results
          /\ analysis'.asked = analysis.asked
      BY <2>2 DEF ToolInv, AnalysisShape
    <3>3. AskedCount' = AskedCount /\ \A i \in 1..AskedCount : Asked(i)' = Asked(i)
      BY <3>1, <3>2 DEF AskedCount, Asked
    <3> QED
      BY <3>1, <3>2, <3>3, ProgressOfSame
  <2> QED
    BY <1>4, <2>1, <2>2 DEF CreateClient
<1>5. CASE LookupNext
  <2>1. analysis.at = "lookup"
    BY <1>5 DEF LookupNext
  <2>2. CASE Left = {} /\ analysis' = [analysis EXCEPT !.at = "close"]
    <3>1. analysis.domains = {} /\ analysis.ips = {}
      BY <2>2 DEF Left
    <3>2. /\ analysis'.at = "close" /\ analysis'.feed = analysis.feed
          /\ analysis'.ipLookup = analysis.ipLookup /\ analysis'.domains = analysis.domains
          /\ analysis'.ips = analysis.ips /\ analysis'.results = analysis.results
          /\ analysis'.asked = analysis.asked
      BY <2>2 DEF ToolInv, AnalysisShape
    <3>3. AskedCount' = AskedCount /\ \A i \in 1..AskedCount : Asked(i)' = Asked(i)
      BY <2>1, <3>2 DEF AskedCount, Asked
    <3> QED
      BY <2>1, <3>1, <3>2, <3>3, ProgressOfSame
  <2>3. ASSUME NEW k \in Left,
               analysis' = [analysis EXCEPT
                    !.at = "wait", !.asked = k,
                    !.domains = @ \ {k},
                    !.ips = IF k \in analysis.domains THEN @ ELSE @ \ {k}]
        PROVE  ReportProgress'
    BY <2>1, <2>3, ProgressOfNext
  <2> QED
    BY <1>5, <2>2, <2>3 DEF LookupNext
<1>6. CASE LookupEnds
  <2>1. PICK r : analysis' = [analysis EXCEPT !.at = "lookup", !.asked = NoKey,
                                              !.results = Append(@, r)]
                 /\ r.of = analysis.asked
    <3> DEFINE err == IF analysis.standalone THEN outcome[Tool] ELSE rest.err
               last == IF analysis.standalone THEN err ELSE Last(rest.heard)
    <3>1. PICK class \in ClassifyError(err) :
               analysis' = [analysis EXCEPT
                   !.at = "lookup", !.asked = NoKey,
                   !.results = Append(@, [of |-> analysis.asked, class |-> class, last |-> last])]
      BY <1>6 DEF LookupEnds
    <3> HIDE DEF err, last
    <3>2. [of |-> analysis.asked, class |-> class, last |-> last].of = analysis.asked
      OBVIOUS
    <3> QED
      BY <3>1, <3>2
  <2>2. /\ analysis'.at = "lookup" /\ analysis'.feed = analysis.feed
        /\ analysis'.ipLookup = analysis.ipLookup /\ analysis'.domains = analysis.domains
        /\ analysis'.ips = analysis.ips /\ analysis'.results = Append(analysis.results, r)
    BY <2>1 DEF ToolInv, AnalysisShape
  <2>3. analysis.at = "wait" /\ Len(analysis.results) \in Nat
    BY <1>6 DEF LookupEnds, ReportTyped
  <2>4. AskedCount = Len(analysis.results) + 1 /\ AskedCount' = AskedCount
    <3>1. Len(analysis'.results) = Len(analysis.results) + 1
      BY <2>2 DEF ReportTyped
    <3> QED
      BY <2>2, <2>3, <3>1 DEF AskedCount
  <2>5. ASSUME NEW i \in 1..AskedCount
        PROVE  Asked(i)' = Asked(i)
    <3>1. analysis'.results[i] = IF i <= Len(analysis.results) THEN analysis.results[i] ELSE r
      BY <2>2, <2>3, <2>4 DEF ReportTyped
    <3>2. Len(analysis'.results) = Len(analysis.results) + 1
      BY <2>2 DEF ReportTyped
    <3> QED
      BY <2>1, <2>3, <2>4, <3>1, <3>2 DEF Asked
  <2> QED
    BY <2>2, <2>3, <2>4, <2>5, ProgressOfSame
<1>7. CASE CloseAnalysisClient
  <2>1. CASE analysis' = [analysis EXCEPT !.at = "report"]
    <3>1. analysis.at = "close"
      BY <1>7 DEF CloseAnalysisClient
    <3>2. /\ analysis'.at = "report" /\ analysis'.feed = analysis.feed
          /\ analysis'.ipLookup = analysis.ipLookup /\ analysis'.domains = analysis.domains
          /\ analysis'.ips = analysis.ips /\ analysis'.results = analysis.results
          /\ analysis'.asked = analysis.asked
      BY <2>1 DEF ToolInv, AnalysisShape
    <3>3. AskedCount' = AskedCount /\ \A i \in 1..AskedCount : Asked(i)' = Asked(i)
      BY <3>1, <3>2 DEF AskedCount, Asked
    <3>4. analysis.domains = {} /\ analysis.ips = {}
      BY <3>1 DEF ReportProgress
    <3> QED
      BY <3>1, <3>2, <3>3, <3>4, ProgressOfSame
  <2> QED
    BY <1>1, <1>7, <2>1 DEF CloseAnalysisClient
<1>8. CASE Generate
  <2>1. analysis'.at = "over"
    BY <1>8 DEF Generate, Ends, ToolInv, AnalysisShape
  <2> QED
    BY <1>2, <2>1
<1>9. CASE ~AnalyzerStep
  BY <1>1, <1>9
  DEF Next, MainStep, Parse, CallClient, RestEnds, StandaloneEnds, CloseClient, ToolTimeout,
      RequestStep, LibraryCall, ClientStep, RefreshTick, Signal, vars
<1> QED
  BY <1>3, <1>4, <1>5, <1>6, <1>7, <1>8, <1>9 DEF AnalyzerStep

\* Helper: a part of a set and the rest are as many as the set.
LEMMA PartAndRest ==
    ASSUME NEW S, IsFiniteSet(S), NEW T \in SUBSET S
    PROVE  /\ Cardinality(T) \in Nat /\ Cardinality(S \ T) \in Nat
           /\ Cardinality(T) + Cardinality(S \ T) = Cardinality(S)
<1>1. S \intersect T = T
  OBVIOUS
<1>2. IsFiniteSet(T) /\ IsFiniteSet(S \ T)
  BY FS_Subset, FS_Difference
<1>3. Cardinality(S) \in Nat /\ Cardinality(T) \in Nat /\ Cardinality(S \ T) \in Nat
  BY <1>2, FS_CardinalityType
<1>4. Cardinality(S \ T) = Cardinality(S) - Cardinality(S \intersect T)
  BY FS_Difference
<1> QED
  BY <1>1, <1>3, <1>4

\* Helper: each domain has a result that is counted once, an answer or an error.
LEMMA CountsAddUp ==
    ASSUME ReportTyped, NEW n \in Nat, n <= Len(analysis.results),
           n = Cardinality(ExtractUniqueDomains(analysis.feed))
    PROVE  PrepareTemplateData.ok + PrepareTemplateData.errors = n
<1> DEFINE domains == {i \in DOMAIN analysis.results :
                           i <= Cardinality(ExtractUniqueDomains(analysis.feed))}
           ok == {i \in domains : analysis.results[i].class = "OK"}
<1>1. domains = 1..n
  BY DEF ReportTyped
<1>2. IsFiniteSet(domains) /\ Cardinality(domains) = n
  <2>1. IsFiniteSet(1..n) /\ Cardinality(1..n) = IF 1 > n THEN 0 ELSE n - 1 + 1
    <3>1. 1 \in Int /\ n \in Int /\ n - 1 + 1 = n
      OBVIOUS
    <3>2. /\ IsFiniteSet(1..n)
          /\ Cardinality(1..n) = IF 1 > n THEN 0 ELSE n - 1 + 1
      BY <3>1, FS_Interval, Zenon
    <3> QED
      BY <3>2
  <2>2. Cardinality(1..n) = n
    BY <2>1
  <2> QED
    BY <1>1, <2>1, <2>2
<1>3. ok \in SUBSET domains
  OBVIOUS
<1>4. /\ PrepareTemplateData.ok = Cardinality(ok)
      /\ PrepareTemplateData.errors = Cardinality(domains \ ok)
  BY DEF PrepareTemplateData
<1> HIDE DEF domains, ok
<1> QED
  BY <1>2, <1>3, <1>4, PartAndRest

\* Helper: when nothing is left to ask, each domain and then each address has its result.
LEMMA AllIsReported ==
    ASSUME ReportTyped, ReportProgress, analysis.at = "report"
    PROVE  LET n == Cardinality(Domains)
           IN /\ n \in Nat /\ n <= Len(analysis.results)
              /\ Len(analysis.results) = n + Cardinality(Addresses)
              /\ {analysis.results[i].of : i \in 1..n} = Domains
              /\ {analysis.results[i].of : i \in n + 1..Len(analysis.results)} = Addresses
<1> DEFINE N == Len(analysis.results)
           n == Cardinality(Domains)
<1>1. /\ analysis.feed \in Feeds
      /\ AskedCount = Cardinality(Domains \ {}) + Cardinality(Addresses \ {})
      /\ {Asked(i) : i \in {j \in 1..AskedCount : j <= Cardinality(Domains)}} = Domains \ {}
      /\ {Asked(i) : i \in {j \in 1..AskedCount : j > Cardinality(Domains)}} = Addresses \ {}
  <2>1. analysis.domains = {} /\ analysis.ips = {}
    BY DEF ReportProgress
  <2> QED
    BY <2>1 DEF ReportProgress
<1>2. AskedCount = N /\ N \in Nat /\ \A i \in 1..N : Asked(i) = analysis.results[i].of
  BY DEF AskedCount, Asked, ReportTyped
<1>3. n \in Nat /\ Cardinality(Addresses) \in Nat
  BY <1>1, SubjectsAreFinite
<1>4. Domains \ {} = Domains /\ Addresses \ {} = Addresses
  OBVIOUS
<1>5. N = n + Cardinality(Addresses) /\ n <= N
  BY <1>1, <1>2, <1>3, <1>4
<1> HIDE DEF N, n
<1>6. {j \in 1..N : j <= n} = 1..n /\ {j \in 1..N : j > n} = n + 1..N
  BY <1>2, <1>3, <1>5
<1>7. {Asked(i) : i \in 1..n} = Domains /\ {Asked(i) : i \in n + 1..N} = Addresses
  BY <1>1, <1>2, <1>4, <1>6, Zenon DEF n
<1>8. /\ \A i \in 1..n : Asked(i) = analysis.results[i].of
      /\ \A i \in n + 1..N : Asked(i) = analysis.results[i].of
  BY <1>2, <1>3, <1>5
<1>9. {analysis.results[i].of : i \in 1..n} = Domains
  BY <1>7, <1>8
<1>10. {analysis.results[i].of : i \in n + 1..N} = Addresses
  BY <1>7, <1>8
<1> QED
  BY <1>3, <1>5, <1>9, <1>10 DEF N, n

\* Helper: the report that is written has everything in it.
LEMMA ReportDoneKept ==
    ASSUME ToolInv, ClientInv, UseClose, ReportTyped, ReportProgress, ReportDone, [Next]_vars
    PROVE  ReportDone'
<1>1. CASE UNCHANGED analysis
  <2>1. ReportComplete' = ReportComplete
    BY <1>1 DEF ReportComplete, Domains, Addresses
  <2> QED
    BY <1>1, <2>1, DownForGood DEF ReportDone
<1>2. CASE \/ analysis'.at \in {"create", "lookup", "wait", "close"}
           \/ analysis'.at = "over" /\ analysis'.code = 1
  BY <1>2 DEF ReportDone
<1>3. CASE FetchPhishingURLs \/ CreateClient
  BY <1>2, <1>3 DEF FetchPhishingURLs, CreateClient, Ends, ToolInv, AnalysisShape
<1>4. CASE LookupNext \/ LookupEnds
  BY <1>2, <1>4 DEF LookupNext, LookupEnds, ToolInv, AnalysisShape
<1>5. CASE CloseAnalysisClient
  <2>1. CASE analysis' = [analysis EXCEPT !.at = "report"]
    <3>1. /\ analysis'.at = "report" /\ analysis'.standalone = analysis.standalone
          /\ analysis.at = "close" /\ line = Analyze
      BY <1>5, <2>1 DEF CloseAnalysisClient, ToolInv, AnalysisShape
    <3>2. analysis.standalone =>
              closing[ToolCloser] \in {"first", "second"} /\ UNCHANGED clientVars
      <4>1. analysis' # analysis
        BY <3>1
      <4> QED
        BY <1>5, <4>1 DEF CloseAnalysisClient
    <3>3. analysis.standalone => loop' = "ended" /\ closed'
      BY <3>1, <3>2, ClosedByTool, LinesDiffer DEF clientVars
    <3> QED
      BY <3>1, <3>3 DEF ReportDone
  <2> QED
    BY <1>1, <1>5, <2>1 DEF CloseAnalysisClient
<1>6. CASE Generate
  <2>1. analysis.at = "report"
    BY <1>6 DEF Generate
  <2>2. CASE Ends(1)
    BY <1>2, <2>2 DEF Ends, ToolInv, AnalysisShape
  <2>3. CASE analysis' = [analysis EXCEPT !.at = "over", !.code = 0,
                                          !.counts = PrepareTemplateData]
    <3>1. /\ analysis'.feed = analysis.feed /\ analysis'.ipLookup = analysis.ipLookup
          /\ analysis'.results = analysis.results /\ analysis'.standalone = analysis.standalone
          /\ analysis'.counts = PrepareTemplateData
      BY <2>3 DEF ToolInv, AnalysisShape
    <3>2. analysis.standalone => loop' = "ended" /\ closed'
      BY <2>1, DownForGood DEF ReportDone
    <3>3. /\ Cardinality(Domains) \in Nat
          /\ Cardinality(Domains) <= Len(analysis.results)
          /\ Len(analysis.results) = Cardinality(Domains) + Cardinality(Addresses)
          /\ {analysis.results[i].of : i \in 1..Cardinality(Domains)} = Domains
          /\ {analysis.results[i].of :
                  i \in Cardinality(Domains) + 1..Len(analysis.results)} = Addresses
      BY <2>1, AllIsReported
    <3>4. PrepareTemplateData.ok + PrepareTemplateData.errors = Cardinality(Domains)
      BY <3>3, CountsAddUp DEF Domains
    <3>5. Domains' = Domains /\ Addresses' = Addresses
      BY <3>1 DEF Domains, Addresses
    <3>6. ReportComplete'
      BY <3>1, <3>3, <3>4, <3>5 DEF ReportComplete
    <3> QED
      BY <3>1, <3>2, <3>6 DEF ReportDone
  <2> QED
    BY <1>6, <2>2, <2>3 DEF Generate
<1>7. CASE ~AnalyzerStep
  BY <1>1, <1>7
  DEF Next, MainStep, Parse, CallClient, RestEnds, StandaloneEnds, CloseClient, ToolTimeout,
      RequestStep, LibraryCall, ClientStep, RefreshTick, Signal, vars
<1> QED
  BY <1>3, <1>4, <1>5, <1>6, <1>7 DEF AnalyzerStep

-----------------------------------------------------------------------------
(* What the process ends with *)

UseInv == UseRest /\ UseClose /\ UseTool /\ calls \in 0..MaxCalls
ReportInv == ReportTyped /\ ReportTrue /\ ReportProgress /\ ReportDone

TruthInv ==
    /\ ClientSpace /\ RestInv /\ StepInv /\ UseInv
    /\ LogInv /\ StandaloneVerdict
    /\ ReportInv

\* Helper: it holds at first.
LEMMA TruthInit == Init => TruthInv
<1> SUFFICES ASSUME Init
             PROVE  TruthInv
  OBVIOUS
<1> USE LinesDiffer
<1>1. /\ rest = NoRequest /\ ctxDone = FALSE /\ step = "parse" /\ log = <<>>
      /\ config = Rejected("none") /\ verdict = Ended(0, "nothing")
      /\ StandaloneInit /\ line \in Lines \union {Library, Analyze}
  BY DEF Init
<1>2. /\ analysis.results = <<>> /\ analysis.code = 0 /\ analysis.at \in {"none", "fetch"}
      /\ analysis.asked = NoKey
      /\ line # Analyze => analysis.at = "none" /\ ~analysis.standalone
  <2>1. CASE analysis = NoAnalysis
    BY <2>1 DEF NoAnalysis
  <2>2. CASE /\ line = Analyze
             /\ \E standalone, ipLookup \in BOOLEAN : analysis = Analysis(standalone, ipLookup)
    BY <2>2 DEF Analysis, NoAnalysis
  <2> QED
    BY <2>1, <2>2 DEF Init
<1>3. ClientSpace
  BY <1>1, StandaloneAssumption DEF StandaloneInit, ClientSpace
<1>4. RestInv
  <2>1. rest = [at |-> "none", path |-> "", attempt |-> 0, err |-> "none", heard |-> <<>>]
    BY <1>1 DEF NoRequest
  <2>2. RestShape
    BY <2>1 DEF RestShape
  <2>3. /\ rest.at = "none" /\ rest.attempt = 0 /\ rest.err = "none" /\ rest.heard = <<>>
    BY <2>1
  <2>4. rest.heard \in Seq(RestReplies)
    BY <2>3
  <2>5. rest.attempt \in 0..RestRetries
    BY <2>3, RestAssumption
  <2> HIDE <2>1
  <2> QED
    BY <1>1, <2>2, <2>3, <2>4, <2>5 DEF RestInv
<1>5. StepInv
  <2>1. config.standalone = FALSE /\ verdict.code = 0
    BY <1>1 DEF Rejected, Ended
  <2> QED
    BY <1>1, <1>2, <2>1 DEF StepInv
<1>6. UseInv
  <2>1. rest.at = "none"
    BY <1>1 DEF NoRequest
  <2>2. UseClose
    BY <1>1, AnalyzerAssumption DEF UseClose, StandaloneInit
  <2>3. place[Tool] = "idle" /\ ~CommandWaits /\ ~AnalyzerWaits
    BY <1>1, <1>2, AnalyzerAssumption DEF StandaloneInit, CommandWaits, AnalyzerWaits
  <2>4. calls \in 0..MaxCalls
    BY <1>1, StandaloneAssumption DEF StandaloneInit
  <2> QED
    BY <1>2, <2>1, <2>2, <2>3, <2>4 DEF UseInv, UseRest, UseTool
<1>7. LogInv /\ StandaloneVerdict
  BY <1>1 DEF LogInv, StandaloneVerdict
<1>8. ReportInv
  <2>1. ReportTyped
    BY <1>2 DEF ReportTyped
  <2>2. ReportTrue /\ ReportProgress /\ ReportDone
    BY <1>2 DEF ReportTrue, ReportProgress, ReportDone
  <2> QED
    BY <2>1, <2>2 DEF ReportInv
<1> QED
  BY <1>3, <1>4, <1>5, <1>6, <1>7, <1>8 DEF TruthInv

\* Helper: and it is kept by every step.
LEMMA TruthInvHolds == Spec => [](ToolInv /\ ClientInv /\ TruthInv)
<1>1. Init => TruthInv
  BY TruthInit
<1>2. ToolInv /\ ClientInv /\ TruthInv /\ [Next]_vars => TruthInv'
  <2> SUFFICES ASSUME ToolInv, ClientInv, TruthInv, [Next]_vars
               PROVE  TruthInv'
    OBVIOUS
  <2> USE DEF TruthInv, UseInv, ReportInv
  <2>1. ClientTyped
    BY DEF ClientInv
  <2>2. ClientSpace'
    <3>1. CASE ClientAction
      BY <2>1, <3>1, SpaceKept
    <3>2. CASE UNCHANGED clientVars
      BY <3>2 DEF ClientSpace, clientVars
    <3> QED
      BY <3>1, <3>2, StepsAreTheClients
  <2>3. RestInv' /\ StepInv'
    BY RestKept, StepKept
  <2>4. UseInv'
    BY <2>1, UseRestKept, UseCloseKept, UseToolKept, CallsKept
  <2>5. LogInv' /\ StandaloneVerdict'
    BY LogKept, StandaloneVerdictKept
  <2>6. ReportInv'
    BY ReportTypedKept, ReportTrueKept, ReportProgressKept, ReportDoneKept
  <2> QED
    BY <2>2, <2>3, <2>4, <2>5, <2>6
<1> QED
  BY <1>1, <1>2, ClientInvHolds, PTL DEF Spec

\* Helper: it says of every variable what its type is.
LEMMA TypesTold ==
    ASSUME ToolInv, ClientInv, TruthInv
    PROVE  TypeOK
<1> USE DEF TruthInv, UseInv, ReportInv
<1>1. ClientTypeOK
  BY StandaloneAssumption
  DEF ClientInv, ClientTyped, ClientSpace, Places, Loading, PastOnce, Refreshing, ClientTypeOK
<1>2. RestTypeOK
  <2>1. rest.at \in {"attempt", "pause", "over", "none"} /\ Len(<<>>) = 0
    BY DEF RestInv
  <2>2. Len(rest.heard) <= RestRetries + 1
    BY <2>1, RestAssumption DEF RestInv
  <2> QED
    BY <2>2 DEF RestInv, RestTypeOK
<1>3. AnalysisTypeOK
  BY DEF ToolInv, ReportTyped, AnalysisTypeOK
<1>4. rest.at # "none" => line # Library /\ ~config.standalone /\ ~analysis.standalone
  <2>1. CASE line \in Lines /\ ~config.standalone
    BY <2>1, LinesDiffer DEF StepInv
  <2>2. CASE line = Analyze /\ ~analysis.standalone
    <3>1. config = Rejected("none")
      BY <2>2, LinesDiffer DEF ToolInv, StepInv
    <3>2. config.standalone = FALSE
      BY <3>1 DEF Rejected
    <3> QED
      BY <2>2, <3>2, LinesDiffer
  <2> QED
    BY <2>1, <2>2 DEF UseRest
<1>5. /\ line \in Lines \union {Library, Analyze}
      /\ step \in {"parse", "call", "wait", "close", "exit"}
      /\ verdict.code \in {0, 1} /\ config.standalone \in BOOLEAN
  BY DEF StepInv
<1> QED
  BY <1>1, <1>2, <1>3, <1>4, <1>5 DEF TypeOK

\* What the process of cmd/rdap-client ends with is what the upstream said, the standalone
\* client is down by then, and the report of cmd/phishstats-analyzer has each domain and
\* each address of its feed once, with what its lookup came to.
THEOREM ToolsTellTruth == Spec => []ToolTellsTruth
<1>1. ToolInv /\ ClientInv /\ TruthInv => ToolTellsTruth
  <2> SUFFICES ASSUME ToolInv, ClientInv, TruthInv
               PROVE  ToolTellsTruth
    OBVIOUS
  <2>1. TypeOK
    BY TypesTold
  <2>2. ReportTellsTruth
    <3>1. ReportTrue /\ ReportDone
      BY DEF TruthInv, ReportInv
    <3>2. (analysis.at = "over" /\ analysis.code = 0) =>
              /\ analysis.standalone => loop = "ended" /\ closed
              /\ ReportComplete
      BY <3>1 DEF ReportDone
    <3> QED
      BY <3>1, <3>2, Zenon
      DEF ReportTellsTruth, ReportTrue, ResultTrue, ReportComplete, Domains, Addresses
  <2>3. LogInv /\ StandaloneVerdict
    BY DEF TruthInv
  <2> QED
    BY <2>1, <2>2, <2>3, Zenon DEF ToolTellsTruth, LogInv, StandaloneVerdict, Final
<1> QED
  BY <1>1, TruthInvHolds, PTL
=============================================================================
