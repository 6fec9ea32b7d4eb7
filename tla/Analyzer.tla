------------------------------- MODULE Analyzer -------------------------------
(***************************************************************************)
(* cmd/phishstats-analyzer: takes a feed of reported URLs, looks up each   *)
(* distinct domain and then each distinct address of it, one at a time, by *)
(* either client of pkg/rdaplookup, and writes a report of what came of    *)
(* it.  A signal cancels the context of whatever is left.                  *)
(*                                                                         *)
(* Abstractions: a feed is the set of its entries; a host is the key of    *)
(* its registrable domain; countries, times and percentiles are left out   *)
(* of the report.                                                          *)
(***************************************************************************)
EXTENDS StandaloneClient, RestClient

CONSTANTS
    Feeds,      \* sets of [host, ip], each a key or NoKey
    Tool,       \* the caller that is a tool's main goroutine
    ToolCloser  \* and its deferred Close

ASSUME AnalyzerAssumption ==
    /\ Tool \in Callers \ Workers /\ ToolCloser \in Closers
    /\ \A feed \in Feeds : /\ IsFiniteSet(feed)
                           /\ feed \subseteq [host : Keys \union {NoKey}, ip : Keys \union {NoKey}]

VARIABLE analysis

\* Where Run is, the client's mode and the lookup of addresses, what is left to look up,
\* what is asked, the results, the counts of the report, and the exit code.
NoAnalysis == [at |-> "none", standalone |-> FALSE, ipLookup |-> FALSE, feed |-> {},
               domains |-> {}, ips |-> {}, asked |-> NoKey, results |-> <<>>,
               counts |-> [ok |-> 0, errors |-> 0], code |-> 0]

Analysis(standalone, ipLookup) ==
    [NoAnalysis EXCEPT !.at = "fetch", !.standalone = standalone, !.ipLookup = ipLookup]

Ends(code) == analysis' = [analysis EXCEPT !.at = "over", !.code = code]

\* A URL without a host, and a host that looks like an address, have no domain.
ExtractUniqueDomains(feed) == {e.host : e \in feed} \ {NoKey}
\* An address that is empty or begins with "0." is left out.
ExtractIPs(feed) == {e.ip : e \in feed} \ {NoKey}

\* The feed's request fails, or its status or body will not do; else what it brought.
FetchPhishingURLs ==
    /\ analysis.at = "fetch"
    /\ \/ Ends(1)
       \/ /\ ~ctxDone
          /\ \E feed \in Feeds :
                analysis' = [analysis EXCEPT
                    !.at = "create", !.feed = feed,
                    !.domains = ExtractUniqueDomains(feed),
                    !.ips = IF analysis.ipLookup THEN ExtractIPs(feed) ELSE {}]
    /\ UNCHANGED <<clientVars, rest, ctxDone>>

\* A constructor refuses its options, or the lookups begin.
CreateClient ==
    /\ analysis.at = "create"
    /\ Ends(1) \/ analysis' = [analysis EXCEPT !.at = "lookup"]
    /\ UNCHANGED <<clientVars, rest, ctxDone>>

\* Mutant: the addresses come first.
LeftIPsFirst == IF analysis.ips # {} THEN analysis.ips ELSE analysis.domains
\* What lookupDomains and then lookupIPs have left, in the order of a Go map: any.
Left == IF analysis.domains # {} THEN analysis.domains ELSE analysis.ips

\* lookupDomains and lookupIPs: the next, even when the context is done; or the end.
LookupNext ==
    /\ analysis.at = "lookup"
    /\ \/ \E k \in Left :
             /\ analysis' = [analysis EXCEPT
                    !.at = "wait", !.asked = k,
                    !.domains = @ \ {k},
                    !.ips = IF k \in analysis.domains THEN @ ELSE @ \ {k}]
             /\ IF analysis.standalone THEN Lookup(Tool, k) /\ UNCHANGED <<calls, rest>>
                ELSE DoRequest(k) /\ UNCHANGED clientVars
       \/ /\ Left = {}
          /\ analysis' = [analysis EXCEPT !.at = "close"]
          /\ UNCHANGED <<clientVars, rest>>
    /\ UNCHANGED ctxDone

\* classifyError goes by the words of the error: the service's own "Too many requests", and
\* its "No RDAP server found" under a 404, are not the words it looks for.
ClassifyError(err) ==
    CASE err \in {"none", "data"} -> {"OK"}
      [] err = "denied" -> {"NOT_FOUND"}
      [] err = "notFound" -> {"NOT_FOUND", "OTHER"}
      [] err = "limited" -> {"RATE_LIMITED", "OTHER"}
      [] OTHER -> {"OTHER"}

\* A lookup is over: its result is kept, whatever it is.
LookupEnds ==
    /\ analysis.at = "wait"
    /\ IF analysis.standalone THEN place[Tool] = "idle" ELSE rest.at = "over"
    /\ LET err == IF analysis.standalone THEN outcome[Tool] ELSE rest.err
       IN \E class \in ClassifyError(err) :
             analysis' = [analysis EXCEPT
                 !.at = "lookup", !.asked = NoKey,
                 !.results = Append(@, [of |-> analysis.asked, class |-> class,
                                        last |-> IF analysis.standalone THEN err
                                                 ELSE Last(rest.heard)])]
    /\ rest' = NoRequest
    /\ UNCHANGED <<clientVars, ctxDone>>

\* Run's deferred Close, which returns once the refresh has ended.
CloseAnalysisClient ==
    /\ analysis.at = "close"
    /\ IF analysis.standalone /\ closing[ToolCloser] = "idle"
       THEN SwapClosed(ToolCloser) /\ UNCHANGED analysis
       ELSE /\ analysis.standalone => closing[ToolCloser] \in {"first", "second"}
            /\ analysis' = [analysis EXCEPT !.at = "report"]
            /\ UNCHANGED clientVars
    /\ UNCHANGED <<rest, ctxDone>>

\* The counts are of the domains' results, not of the addresses'.
PrepareTemplateData ==
    LET domains == {i \in DOMAIN analysis.results :
                        i <= Cardinality(ExtractUniqueDomains(analysis.feed))}
        ok == {i \in domains : analysis.results[i].class = "OK"}
    IN [ok |-> Cardinality(ok), errors |-> Cardinality(domains \ ok)]

\* The report is written, or its file cannot be; failed lookups do not count.
Generate ==
    /\ analysis.at = "report"
    /\ \/ Ends(1)
       \/ analysis' = [analysis EXCEPT !.at = "over", !.code = 0,
                                       !.counts = PrepareTemplateData]
    /\ UNCHANGED <<clientVars, rest, ctxDone>>

\* SIGINT or SIGTERM: the context is cancelled, and nothing looks at it between lookups.
Signal ==
    /\ analysis.at \notin {"none", "over"} /\ ~ctxDone
    /\ ctxDone' = TRUE
    /\ UNCHANGED <<clientVars, rest, analysis>>

AnalyzerStep == \/ FetchPhishingURLs \/ CreateClient \/ LookupNext \/ LookupEnds
                \/ CloseAnalysisClient \/ Generate

AnalysisTypeOK ==
    /\ analysis.at \in {"none", "fetch", "create", "lookup", "wait", "close", "report", "over"}
    /\ analysis.domains \union analysis.ips \subseteq Keys
    /\ (analysis.asked # NoKey) = (analysis.at = "wait")
    /\ analysis.code \in {0, 1}

\* The report has each distinct domain of the feed once, and then each distinct address if
\* they are wanted, whatever failed and whenever the signal came; OK, NOT_FOUND and
\* RATE_LIMITED stand only where the upstream's last word was that; a first load that
\* failed, a cancelled one included, leaves no result OK in standalone mode.
ReportTellsTruth ==
    /\ \A i \in DOMAIN analysis.results :
           LET r == analysis.results[i]
           IN /\ r.class = "OK" => r.last \in {"ok", "data"}
              /\ r.class = "NOT_FOUND" => r.last \in {"notFound", "denied"}
              /\ r.class = "RATE_LIMITED" => r.last = "limited"
              /\ r.class = "OK" /\ analysis.standalone => firstLoad = "ok"
    /\ (analysis.at = "over" /\ analysis.code = 0) =>
           LET domains == ExtractUniqueDomains(analysis.feed)
               ips == IF analysis.ipLookup THEN ExtractIPs(analysis.feed) ELSE {}
               n == Cardinality(domains)
               Of(part) == {analysis.results[i].of : i \in part}
           IN /\ Len(analysis.results) = n + Cardinality(ips)
              /\ Of(1..n) = domains /\ Of(n + 1..Len(analysis.results)) = ips
              /\ analysis.counts.ok + analysis.counts.errors = n
              /\ analysis.standalone => loop = "ended" /\ closed
=============================================================================
