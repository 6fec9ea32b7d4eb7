------------------------------ MODULE ClientTool ------------------------------
(***************************************************************************)
(* cmd/rdap-client/main.go: one command line, from its arguments to the    *)
(* exit of the process, over either client of pkg/rdaplookup; or, instead  *)
(* of the tool, the analyzer; or goroutines of some program that share a   *)
(* StandaloneClient.                                                       *)
(*                                                                         *)
(* Abstractions: an argument is an option, a value that is accepted where  *)
(* one is read, or "bad" for one that is not; --timeout, --output and the  *)
(* sizes and times are one option with a value; a batch file stands for    *)
(* the queries in it; the environment sets nothing; what is printed is     *)
(* only whether it is an answer, help or an error.                         *)
(***************************************************************************)
EXTENDS Analyzer

CONSTANTS
    Lines,       \* bound: the command lines of a run
    LibraryKeys, \* bound: what the callers of a shared client look up by themselves
    KeyOf        \* argument -> what a lookup of it is for

\* What is run instead of a command line.
Library == <<"library">>
Analyze == <<"phishstats-analyzer">>

ASSUME ToolAssumption ==
    /\ Lines \subseteq Seq(STRING) /\ Lines \intersect {Library, Analyze} = {}
    /\ LibraryKeys \subseteq Keys
    /\ \A a \in DOMAIN KeyOf : KeyOf[a] \in Keys

VARIABLES
    line,     \* the command line, Library or Analyze
    step,     \* "parse", "call", "wait", "close", "exit"
    config,   \* what parseConfig made of it
    verdict,  \* what the process ends with: [code, says]
    log       \* history: the requests that are over, [path, heard]

toolVars == <<line, step, config, verdict, log>>
vars == <<clientVars, rest, ctxDone, analysis, toolVars>>

LookupCommands == {"domain", "ip", "asn", "entity"}

-----------------------------------------------------------------------------
(* parseConfig *)

Flags == {"-q", "-S", "--no-cache", "--no-normalize"}
Valued == {"-s", "-t"}
Dashed == Flags \union Valued \union {"-h", "-", "--rdap-server"}

\* A result that stands whatever follows.
Rejected(err) == [err |-> err, help |-> FALSE, standalone |-> FALSE, remaining |-> <<>>]
Helped == [Rejected("none") EXCEPT !.help = TRUE]
Parsed == Rejected("none")

\* The arguments from the left: an option takes its value, help and an error end it, and
\* whatever else begins with a dash is unknown, "-" and --rdap-server included.
ParseConfig(args) ==
    LET From[i \in 1..Len(args) + 2] ==
            IF i > Len(args) THEN Parsed
            ELSE IF args[i] \in Valued
                 THEN IF i = Len(args) THEN Rejected("missing value")
                      ELSE IF args[i + 1] = "bad" /\ args[i] = "-t" THEN Rejected("invalid value")
                      ELSE From[i + 2]
            ELSE IF args[i] = "-h" THEN Helped
            ELSE IF args[i] \in Dashed \ Flags THEN Rejected("unknown option")
            ELSE LET rest0 == From[i + 1]
                 IN IF rest0.help \/ rest0.err # "none" THEN rest0
                    ELSE IF args[i] = "-S" THEN [rest0 EXCEPT !.standalone = TRUE]
                    ELSE IF args[i] \in Flags THEN rest0
                    ELSE [rest0 EXCEPT !.remaining = <<args[i]>> \o @]
    IN From[1]

\* KeyOf has the argument that any of the lines looks up with the standalone client.
ASSUME KeysAssumption ==
    \A l \in Lines \ {<<>>} :
        LET c == ParseConfig(Tail(l))
        IN (/\ l[1] \in LookupCommands \ {"entity"}
            /\ c.err = "none" /\ ~c.help /\ c.standalone /\ c.remaining # <<>>)
           => c.remaining[1] \in DOMAIN KeyOf

\* No server can be given for an entity, since --rdap-server does not get past parseConfig.
EntityWants(remaining) ==
    IF remaining = <<>> THEN "missing argument" ELSE "missing --rdap-server"

BatchWants(remaining) ==
    IF remaining = <<>> THEN "missing argument"
    ELSE IF "bad" \in ToSet(remaining) THEN "invalid query"
    ELSE "none"

\* What a command wants of its arguments; "none" if it has it.
Wants(command, remaining) ==
    CASE command = "entity" -> EntityWants(remaining)
      [] command = "batch" -> BatchWants(remaining)
      [] command \in {"domain", "ip", "asn"} /\ remaining = <<>> -> "missing argument"
      [] OTHER -> "none"

Ended(code, says) == [code |-> code, says |-> says]

\* run and the run functions up to the client.
Decide ==
    LET command == line[1]
        c == ParseConfig(Tail(line))
    IN IF line = <<>> \/ command \in {"help", "-h", "version"} THEN Ended(0, "help")
       ELSE IF command \notin LookupCommands \union {"batch", "health"}
            THEN Ended(1, "unknown command")
       ELSE IF c.err # "none" THEN Ended(1, c.err)
       ELSE IF c.help THEN Ended(0, "help")
       ELSE IF command = "health" /\ c.standalone THEN Ended(1, "REST only")
       ELSE IF Wants(command, c.remaining) # "none"
            THEN Ended(1, Wants(command, c.remaining))
       ELSE Ended(0, "go on")

-----------------------------------------------------------------------------
Init ==
    /\ StandaloneInit
    /\ rest = NoRequest /\ ctxDone = FALSE
    /\ \/ line \in Lines \union {Library} /\ analysis = NoAnalysis
       \/ line = Analyze /\ \E standalone, ipLookup \in BOOLEAN : analysis = Analysis(standalone, ipLookup)
    /\ step = "parse" /\ config = Rejected("none") /\ verdict = Ended(0, "nothing") /\ log = <<>>

\* run, up to createClient: the tool goes on, or ends here.
Parse ==
    /\ line \in Lines /\ step = "parse"
    /\ IF Decide = Ended(0, "go on")
       THEN /\ config' = ParseConfig(Tail(line))
            /\ step' = "call"
            /\ UNCHANGED verdict
       ELSE verdict' = Decide /\ step' = "exit" /\ UNCHANGED config
    /\ UNCHANGED <<clientVars, rest, ctxDone, analysis, line, log>>

\* The one call on the client; health has three, and its first is /healthz.
CallClient ==
    /\ step = "call"
    /\ step' = "wait"
    /\ IF config.standalone
       THEN /\ IF line[1] = "batch" THEN BatchLookup ELSE Call(Tool, KeyOf[config.remaining[1]])
            /\ UNCHANGED rest
       ELSE /\ DoRequest(IF line[1] = "health" THEN "/healthz" ELSE line[1])
            /\ UNCHANGED clientVars
    /\ UNCHANGED <<ctxDone, analysis, line, config, verdict, log>>

\* Mutant: only an answer counts as one.
FormatErrorNot(err) == IF err = "none" THEN Ended(0, "answer") ELSE Ended(1, "not found")
\* formatError: the sentinels and statuses of pkg/rdaplookup/errors.go.  The RDAP client's
\* own rate limit, which the standalone client hands on, is not one of them.
FormatError(err) ==
    CASE err = "none" -> Ended(0, "answer")
      [] err = "notFound" -> Ended(1, "not found")
      [] err = "limited" -> Ended(1, "rate limited")
      [] OTHER -> Ended(1, "error")

\* runHealth: alive, then ready, then the metadata, without which it is healthy still.
HealthGoesOn ==
    /\ line[1] = "health" /\ rest.err = "none" /\ rest.path # "/meta"
    /\ DoRequest(IF rest.path = "/healthz" THEN "/ready" ELSE "/meta")
    /\ UNCHANGED <<step, verdict>>

RestEnds ==
    /\ step = "wait" /\ ~config.standalone /\ rest.at = "over"
    /\ log' = Append(log, [path |-> rest.path, heard |-> rest.heard])
    /\ \/ HealthGoesOn
       \/ /\ ~(line[1] = "health" /\ rest.err = "none" /\ rest.path # "/meta")
          /\ verdict' = (IF line[1] # "health" THEN FormatError(rest.err)
                         ELSE IF rest.path = "/meta" THEN Ended(0, "healthy")
                         ELSE Ended(1, "error"))
          /\ step' = "exit"
          /\ UNCHANGED rest
    /\ UNCHANGED <<clientVars, ctxDone, analysis, line, config>>

\* The standalone client returns: the results of a batch are printed whatever they are.
StandaloneEnds ==
    /\ step = "wait" /\ config.standalone
    /\ IF line[1] = "batch" THEN batch = "returned" ELSE place[Tool] = "idle"
    /\ verdict' = (IF line[1] = "batch" THEN Ended(0, "answer")
                   ELSE FormatError(CASE outcome[Tool] = "data" -> "none"
                                      [] outcome[Tool] = "denied" -> "notFound"
                                      [] OTHER -> "other"))
    /\ step' = "close"
    /\ UNCHANGED <<clientVars, rest, ctxDone, analysis, line, config, log>>

\* The deferred Close, and its return.
CloseClient ==
    /\ step = "close"
    /\ IF closing[ToolCloser] = "idle" THEN SwapClosed(ToolCloser) /\ UNCHANGED step
       ELSE /\ closing[ToolCloser] \in {"first", "second"}
            /\ step' = "exit"
            /\ UNCHANGED clientVars
    /\ UNCHANGED <<rest, ctxDone, analysis, line, config, verdict, log>>

\* The timeout of the command, for the tool's context.
ToolTimeout ==
    /\ step = "wait" /\ ~config.standalone /\ ~ctxDone
    /\ ctxDone' = TRUE
    /\ UNCHANGED <<clientVars, rest, analysis, toolVars>>

-----------------------------------------------------------------------------
RequestStep ==
    /\ (\E r \in RestReplies : SingleRequest(r)) \/ Backoff
    /\ UNCHANGED <<clientVars, analysis, toolVars>>

\* What the goroutines of a program that shares the client may begin.
LibraryCall ==
    /\ line = Library
    /\ \/ \E c \in Callers \ Workers, k \in LibraryKeys : Call(c, k)
       \/ BatchLookup
       \/ \E k \in Closers : SwapClosed(k)
    /\ UNCHANGED <<rest, ctxDone, analysis, toolVars>>

ClientStep ==
    /\ \/ \E c \in Callers : LookupStep(c) \/ TakeSlot(c)
       \/ BatchReturns
       \/ RefreshStep
       \/ \E k \in Closers : CloseStep(k)
    /\ UNCHANGED <<rest, ctxDone, analysis, toolVars>>

\* The clock of a StandaloneClient that exists.
RefreshTick ==
    /\ \/ line = Library \/ config.standalone
       \/ analysis.standalone /\ analysis.at \notin {"fetch", "create", "over"}
    /\ Tick
    /\ UNCHANGED <<rest, ctxDone, analysis, toolVars>>

\* The main goroutine of either tool.
MainStep == \/ Parse \/ CallClient \/ RestEnds \/ StandaloneEnds \/ CloseClient
            \/ AnalyzerStep /\ UNCHANGED toolVars

Next ==
    \/ MainStep \/ ToolTimeout
    \/ RequestStep
    \/ LibraryCall \/ ClientStep \/ RefreshTick
    \/ Signal /\ UNCHANGED toolVars

Fairness ==
    /\ StandaloneFairness
    /\ WF_vars(MainStep) /\ WF_vars(RequestStep)

Spec == Init /\ [][Next]_vars /\ Fairness

-----------------------------------------------------------------------------
(* Properties *)

\* Each variable of the tool and of both clients has its shape, and the clients are used
\* only as the command line says.
TypeOK ==
    /\ ClientTypeOK /\ RestTypeOK /\ AnalysisTypeOK
    /\ line \in Lines \union {Library, Analyze} /\ step \in {"parse", "call", "wait", "close", "exit"}
    /\ verdict.code \in {0, 1} /\ config.standalone \in BOOLEAN
    /\ rest.at # "none" => line # Library /\ ~config.standalone /\ ~analysis.standalone

\* The process ends with what the upstream said, each part of it in its shape (TypeOK: no
\* request takes more attempts than it has): an answer or "healthy" only if the last
\* reply to each request it rests on was one, "not found" and "rate limited" only for a
\* reply that said so; no request goes on after a 4xx, which would ask again what was
\* already refused; a standalone client is down when the process ends; and the report of
\* the analyzer holds what its lookups came to.
ToolTellsTruth ==
    /\ TypeOK
    /\ ReportTellsTruth
    /\ \A i \in DOMAIN log : \A j \in DOMAIN log[i].heard :
           log[i].heard[j] \in ClientErrors \union {"ok"} => j = Len(log[i].heard)
    /\ (step = "exit" /\ log # <<>>) =>
           LET last == Last(Last(log).heard)
           IN /\ verdict.says \in {"answer", "not found", "rate limited"} =>
                     verdict.says = (CASE last = "ok" -> "answer"
                                       [] last = "notFound" -> "not found"
                                       [] last = "limited" -> "rate limited"
                                       [] OTHER -> "error")
              /\ (verdict.code = 0 /\ line[1] = "health") =>
                     \A i \in 1..2 : Last(log[i].heard) = "ok"
    /\ (step = "exit" /\ config.standalone) =>
           /\ loop = "ended" /\ closed
           /\ verdict.says = "not found" => outcome[Tool] = "denied"
           /\ (verdict.says = "answer" /\ line[1] # "batch") => outcome[Tool] = "data"

\* Every call on a shared client returns, and each tool ends: whatever the network says,
\* however often it is asked again, and though its Close waits for the refresh.
EveryoneReturns ==
    /\ CallsReturn
    /\ line \in Lines ~> step = "exit"
    /\ analysis.at # "none" ~> analysis.at = "over"
=============================================================================
