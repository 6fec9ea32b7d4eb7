---------------------------- MODULE LookupPipeline ----------------------------
(***************************************************************************)
(* internal/api/lookup.go: a request for one object and a batch of them,   *)
(* from their queries to the words the client reads.  A lookup goes        *)
(* through the cache to a fetch, which resolves the RDAP servers in the    *)
(* tables of IANA (ResolverTables), asks them (RdapClient) and, for a      *)
(* domain without any, the WHOIS servers (WhoisClient).                    *)
(*                                                                         *)
(* Lookup 0 is the single request, lookup i the i-th query of the batch,   *)
(* which starts at time 0; the handler may be closed at any time.          *)
(*                                                                         *)
(* Abstractions: the cache is its first tier, whose entries outlive the    *)
(* run, and a probe is one step (TieredCache models both in full); the     *)
(* tables do not change (BootstrapService does that); time passes only     *)
(* while something waits for a peer, a pause or the batch's deadline.      *)
(***************************************************************************)
EXTENDS ResolverTables, RdapClient, WhoisClient

CONSTANTS
    Mixes,         \* bound: the requests of a run, [single: query, batch: queries]
    Files,         \* what IANA publishes: [dns, ip4, ip6, asn]
    WhoisEnabled,
    WhoisReplies,  \* bound: the ends of a WHOIS exchange that a run tells apart
    MayClose,      \* bound: whether the handler is closed
    Concurrency,   \* batchConfig.Concurrency
    BatchTimeout,  \* the earlier of handlerTimeout and batchConfig.Timeout
    FetchTimeout,
    MaxTime,       \* bound: the clock
    SmallFiles     \* bound: the files that TablesAgree looks at

ASSUME PipelineAssumption ==
    /\ Concurrency \in Nat \ {0} /\ BatchTimeout \in Nat /\ FetchTimeout \in Nat \ {0}
    /\ MaxTime \in Nat /\ WhoisEnabled \in BOOLEAN /\ MayClose \in BOOLEAN
    /\ WhoisReplies \subseteq {"record", "free", "tooLarge", "refused"}

\* What the loader makes of the files; the order of ranges with one start is open.
LoadAll ==
    {[dns |-> LoadDNS(Files.dns), ip4 |-> LoadIPv4(Files.ip4),
      ip6 |-> LoadIPv6(Files.ip6), asn |-> asn] : asn \in LoadASN(Files.asn)}

\* The types of the files and of a query.
ASSUME FilesAssumption ==
    /\ Files.dns \in FilesFor(TLDs) /\ Files.asn \in FilesFor(AsRanges)
    /\ {Files.ip4, Files.ip6} \subseteq FilesFor(Networks)
    /\ \A m \in Mixes :
           /\ m.batch \in Seq(Range(m.batch))
           /\ \A q \in {m.single} \union Range(m.batch) : q.server \in URLs \union {Malformed}

\* Those of the files that TablesAgree looks at; what it looks up there is well formed.
ASSUME SmallFilesAssumption ==
    /\ SmallFiles.dns \subseteq FilesFor(SmallFiles.tlds)
    /\ SmallFiles.ip \subseteq FilesFor(SmallFiles.networks)
    /\ SmallFiles.asn \subseteq FilesFor(SmallFiles.ranges)
    /\ SmallFiles.networks \subseteq Networks /\ SmallFiles.ranges \subseteq AsRanges
    /\ SmallFiles.numbers \subseteq Nat \ {0}
    /\ Malformed \notin SmallFiles.tlds /\ Malformed \notin SmallFiles.networks
    /\ Malformed \notin SmallFiles.ranges
    /\ \A tld \in SmallFiles.tlds : <<"name", tld>> # Malformed
    /\ \A a \in 0..(2 ^ AddrBits - 1) : [family |-> 4, addr |-> a] # Malformed

VARIABLES
    tables,   \* the resolver's tables
    mix,      \* the requests
    place,    \* where each lookup is
    result,   \* what each lookup came to
    flight,   \* the deadline and the leader's query of the key's fetch, or NoFlight
    cached,   \* the first tier: key -> entry or Absent
    answered, \* when the batch was answered, or NoAnswerYet
    told      \* history: what the upstreams said in the end, per key

vars == <<tables, mix, place, result, flight, cached, answered, told,
          now, call, whois, discovered, closed>>

whoisVars == <<whois, discovered, closed>>

NoFlight == [due |-> -1, query |-> Malformed]
NoAnswerYet == -1
Absent == [negative |-> FALSE, data |-> NoData]
Pending == [said |-> "pending", data |-> NoData, hit |-> FALSE]

Batch == 1..Len(mix.batch)
Lookups == {0} \union Batch
QueryOf(w) == IF w = 0 THEN mix.single ELSE mix.batch[w]

\* Mutant: the server is left out, so that two servers share an entity's entry.
CacheKeyShared(q) == <<q.kind, q.value>>
CacheKey(q) ==
    IF q.kind = "entity" THEN <<q.kind, q.value, q.server>> ELSE <<q.kind, q.value>>

\* Every key has a flight, and IANA an answer for the TLD of every domain.
ASSUME FlightsAssumption ==
    \A m \in Mixes : \A q \in {m.single} \union Range(m.batch) :
        /\ CacheKey(q) \in Flights
        /\ (q.kind = "domain" /\ q.value # Malformed) => Last(q.value) \in TLDs

Init ==
    /\ tables \in LoadAll
    /\ mix \in Mixes
    /\ place = [w \in Lookups |-> "queued"]
    /\ result = [w \in Lookups |-> Pending]
    /\ flight = [k \in Flights |-> NoFlight]
    /\ cached = [k \in Flights |-> Absent]
    /\ answered = NoAnswerYet
    /\ told = [k \in Flights |-> {}]
    /\ now = 0
    /\ call = [k \in Flights |-> NoCall]
    /\ whois = [k \in Flights |-> NoCall]
    /\ discovered = [tld \in TLDs |-> NoEntry]
    /\ closed = FALSE

-----------------------------------------------------------------------------
(* Words *)

\* The first of the sentinels in order that the error carries, as errors.Is finds it.
FirstOf(order, err) ==
    LET i == SelectInSeq(order, LAMBDA e : e \in err)
    IN IF i = 0 THEN "Failed" ELSE order[i]

\* handleError, with sanitizeUpstreamError for what is left.
HandleError(err) ==
    FirstOf(<<"NotFound", "RateLimited", "InvalidInput", "NoServer", "Deadline",
              "ServerError">>, err)

\* Mutant: the sentinel of a rate limit is not looked for.
SanitizeBatchErrorShort(err) ==
    FirstOf(<<"NotFound", "NoServer", "InvalidInput", "Deadline">>, err)
SanitizeBatchError(err) ==
    FirstOf(<<"NotFound", "RateLimited", "NoServer", "InvalidInput", "Deadline">>, err)

Result(w, outcome, hit) ==
    IF outcome.err = {} THEN [said |-> "data", data |-> outcome.data, hit |-> hit]
    ELSE [said |-> IF w = 0 THEN HandleError(outcome.err) ELSE SanitizeBatchError(outcome.err),
          data |-> NoData, hit |-> FALSE]

Refusal(word) == [Pending EXCEPT !.said = word]

\* Mutant: a denial in the cache is taken for an object.
DeniedAsData == [err |-> {}, data |-> NoData]
Denied == [err |-> {"NotFound"}, data |-> NoData]

\* The server of an entity: required, and on the allowlist.
RefusedEntity(q) ==
    IF q.server = Malformed THEN "ServerRequired"
    ELSE IF ~IsAllowed(GetAllRDAPServers(tables), q.server) THEN "ServerNotAllowed"
    ELSE "no"

\* What the handler of a kind refuses before it looks up.
Invalid(q) ==
    IF q.value = Malformed THEN "InvalidRequest"
    ELSE IF q.kind = "entity" THEN RefusedEntity(q)
    ELSE "no"

\* What processBatchQuery refuses; it does not look at the format of a value.
Refused(q) ==
    IF q.kind = "entity" THEN RefusedEntity(q)
    ELSE IF q.kind \notin {"domain", "ip", "asn"} THEN "UnknownType"
    ELSE "no"

-----------------------------------------------------------------------------
(* The cache and the fetch *)

\* What the resolver says of a query; the server of an entity is the query's own.
Resolved(q) ==
    IF q.value = Malformed THEN Failure("InvalidInput")
    ELSE CASE q.kind = "domain" -> ResolveDomain(tables.dns, q.value)
           [] q.kind = "ip" -> ResolveIP(tables.ip4, tables.ip6, q.value)
           [] q.kind = "asn" -> ResolveASN(tables.asn, q.value)
           [] OTHER -> Answer(<<q.server>>)

\* A closure of GetOrFetchWithNegative: the first tier again, then the fetch.
Lead(w, k) ==
    /\ flight[k] = NoFlight
    /\ IF cached[k] # Absent
       THEN /\ result' = [result EXCEPT ![w] =
                   Result(w, IF cached[k].negative THEN Denied
                             ELSE [err |-> {}, data |-> cached[k].data], FALSE)]
            /\ place' = [place EXCEPT ![w] = "done"]
            /\ UNCHANGED <<flight, call>>
       ELSE LET q == QueryOf(w) IN
            /\ flight' = [flight EXCEPT ![k] = [due |-> now + FetchTimeout, query |-> q]]
            /\ Query(k, <<q.kind, q.value>>, Resolved(q), now + FetchTimeout)
            /\ place' = [place EXCEPT ![w] = "wait"]
            /\ UNCHANGED result

Join(w, k) ==
    /\ flight[k] # NoFlight
    /\ place' = [place EXCEPT ![w] = "wait"]
    /\ UNCHANGED <<result, flight, call>>

FlightStarts(w) ==
    /\ place[w] = "missed"
    /\ Lead(w, CacheKey(QueryOf(w))) \/ Join(w, CacheKey(QueryOf(w)))
    /\ UNCHANGED <<tables, mix, cached, answered, told, now, whoisVars>>

\* fetchDomainData falls back on WHOIS for a domain without an RDAP server.
FallsBack(k) == WhoisEnabled /\ flight[k].query.kind = "domain" /\ "NoServer" \in call[k].err

FetchDomainViaWHOIS(k) ==
    /\ call[k].at = "over" /\ FallsBack(k)
    /\ WhoisQuery(k, flight[k].query.value, flight[k].due)
    /\ UNCHANGED <<tables, mix, place, result, flight, cached, answered, told, now, call>>

\* A WHOIS text is data whatever it says: no parser gives an error, and nothing ends
\* in ErrDomainNotFound.  rdap_server is the first server that the resolver names.
Fetched(k) ==
    LET q == flight[k].query
    IN IF FallsBack(k)
       THEN [err |-> whois[k].err,
             data |-> [of |-> <<q.kind, q.value>>, by |-> whois[k].by,
                       text |-> whois[k].text, rdapServer |-> ""]]
       ELSE [err |-> call[k].err,
             data |-> [of |-> call[k].answer.of, by |-> call[k].answer.by, text |-> "rdap",
                       rdapServer |-> IF call[k].err = {} THEN Head(Resolved(q).urls)
                                                          ELSE ""]]

\* Mutant: every failure is stored as a denial.
DenialAnyError(err) == err # {}
Denial(err) == "NotFound" \in err

\* Mutant: only one of those who wait is told.
WaitingOne(k) == {CHOOSE w \in Lookups : place[w] = "wait" /\ CacheKey(QueryOf(w)) = k}
Waiting(k) == {w \in Lookups : place[w] = "wait" /\ CacheKey(QueryOf(w)) = k}

\* What the upstream said last: a WHOIS error, a reply, nothing before the deadline, or
\* what the resolver said when nobody was asked.
Told(k) ==
    IF FallsBack(k)
    THEN IF whois[k].err = {} THEN whois[k].text ELSE "whoisError"
    ELSE IF call[k].err = {"Deadline"} /\ call[k].heard.last # "cut" THEN "cancelled"
    ELSE IF call[k].heard.tried # <<>> THEN call[k].heard.last
    ELSE IF call[k].err = {"NoServer"} THEN "noServer"
    ELSE IF call[k].err = {"InvalidInput"} THEN "invalidInput" ELSE "notReady"

\* The fetch returns: data and denials are stored, and whoever waits gets the outcome.
FlightEnds(k) ==
    LET outcome == Fetched(k)
    IN /\ call[k].at = "over" /\ (FallsBack(k) => whois[k].at = "over")
       /\ cached' = [cached EXCEPT ![k] =
              IF Denial(outcome.err) THEN [negative |-> TRUE, data |-> NoData]
              ELSE IF outcome.err = {} THEN [negative |-> FALSE, data |-> outcome.data]
              ELSE @]
       /\ result' = [w \in Lookups |->
              IF w \in Waiting(k) THEN Result(w, outcome, FALSE) ELSE result[w]]
       /\ place' = [w \in Lookups |-> IF w \in Waiting(k) THEN "done" ELSE place[w]]
       /\ flight' = [flight EXCEPT ![k] = NoFlight]
       /\ call' = [call EXCEPT ![k] = NoCall]
       /\ whois' = [whois EXCEPT ![k] = NoCall]
       /\ told' = [told EXCEPT ![k] = @ \union {Told(k)}]
       /\ UNCHANGED <<tables, mix, answered, now, discovered, closed>>

-----------------------------------------------------------------------------
(* Requests *)

\* The lookups of the batch that hold a slot of the semaphore.
Holding == {w \in Batch : place[w] \in {"missed", "wait"}}
SlotFree == Cardinality(Holding) < Concurrency

\* A refusal, or a probe of the cache.
Begin(w, refusal) ==
    LET k == CacheKey(QueryOf(w))
        hit == CASE refusal # "no" -> Refusal(refusal)
                 [] refusal = "no" /\ cached[k].negative -> Result(w, Denied, TRUE)
                 [] refusal = "no" /\ ~cached[k].negative /\ cached[k] # Absent ->
                        Result(w, [err |-> {}, data |-> cached[k].data], TRUE)
                 [] OTHER -> Pending
    IN /\ place[w] = "queued"
       /\ result' = [result EXCEPT ![w] = hit]
       /\ place' = [place EXCEPT ![w] = IF hit = Pending THEN "missed" ELSE "done"]
       /\ UNCHANGED <<tables, mix, flight, cached, answered, told, now, call, whoisVars>>

\* The single request, at the handler of its kind.
LookupDomain == mix.single.kind = "domain" /\ Begin(0, Invalid(mix.single))
LookupIP == mix.single.kind = "ip" /\ Begin(0, Invalid(mix.single))
LookupASN == mix.single.kind = "asn" /\ Begin(0, Invalid(mix.single))
LookupEntity == mix.single.kind = "entity" /\ Begin(0, Invalid(mix.single))
LookupSingle == LookupDomain \/ LookupIP \/ LookupASN \/ LookupEntity

\* The semaphore is acquired and the context is not done.  A lookup that ends here gives
\* its slot back at once.
ProcessBatchQuery(w) ==
    /\ w \in Batch /\ SlotFree /\ now < BatchTimeout
    /\ Begin(w, Refused(QueryOf(w)))

\* The batch's context is done, before the semaphore or right behind it.
GiveUp(w) ==
    /\ w \in Batch /\ place[w] = "queued" /\ now >= BatchTimeout
    /\ result' = [result EXCEPT ![w] = Refusal("BatchTimeout")]
    /\ place' = [place EXCEPT ![w] = "done"]
    /\ UNCHANGED <<tables, mix, flight, cached, answered, told, now, call, whoisVars>>

AllDone == \A w \in Batch : place[w] = "done"

\* wg.Wait returns.
Respond ==
    /\ AllDone /\ answered = NoAnswerYet
    /\ answered' = now
    /\ UNCHANGED <<tables, mix, place, result, flight, cached, told, now, call, whoisVars>>

-----------------------------------------------------------------------------
RdapStep(k) ==
    /\ \/ \E r \in ReplyKinds : Reply(k, r)
       \/ \E r \in {"timeout", "cut"} : Expire(k, r)
       \/ Resume(k)
       \/ Cancel(k)
    /\ UNCHANGED <<tables, mix, place, result, flight, cached, answered, told, now, whoisVars>>

WhoisStep(k) ==
    /\ \/ Connect(k)
       \/ Discover(k)
       \/ DiscoverFails(k)
       \/ QueryServer(k)
       \/ \E r \in WhoisReplies \union {"dialTimeout", "readTimeout"} : Exchange(k, r)
    /\ UNCHANGED <<tables, mix, place, result, flight, cached, answered, told, now, call>>

CloseHandler ==
    /\ MayClose /\ Close
    /\ UNCHANGED <<tables, mix, place, result, flight, cached, answered, told, now, call>>

\* Nothing is ready to run: time passes only while peers, pauses and deadlines are due.
Waits(k) ==
    /\ ~RdapUrgent(k) /\ ~WhoisUrgent(k)
    /\ call[k].at = "over" => FallsBack(k) /\ whois[k].at \notin {"none", "known", "over"}

Idle ==
    /\ \A w \in Lookups : place[w] # "missed"
    /\ \A w \in Batch : place[w] = "queued" => ~SlotFree /\ now < BatchTimeout
    /\ \A k \in Flights : Waits(k)
    /\ AllDone => answered # NoAnswerYet

Tick ==
    /\ now < MaxTime /\ Idle
    /\ now' = now + 1
    /\ UNCHANGED <<tables, mix, place, result, flight, cached, answered, told, call, whoisVars>>

Next ==
    \/ LookupSingle
    \/ \E w \in Lookups : ProcessBatchQuery(w) \/ GiveUp(w) \/ FlightStarts(w)
    \/ \E k \in Flights :
           RdapStep(k) \/ FetchDomainViaWHOIS(k) \/ WhoisStep(k) \/ FlightEnds(k)
    \/ Respond
    \/ CloseHandler
    \/ Tick

\* Goroutines run, timers fire and time passes; peers owe nothing.
Fairness ==
    /\ WF_vars(LookupSingle)
    /\ \A w \in UNION {{0} \union DOMAIN m.batch : m \in Mixes} :
           /\ WF_vars(w \in Lookups /\ (ProcessBatchQuery(w) \/ GiveUp(w)))
           /\ WF_vars(w \in Lookups /\ FlightStarts(w))
    /\ \A k \in Flights :
           /\ WF_vars(\E r \in {"timeout", "cut"} : Expire(k, r) /\ RdapStep(k))
           /\ WF_vars((Resume(k) \/ Cancel(k)) /\ RdapStep(k))
           /\ WF_vars(WhoisUrgent(k) /\ WhoisStep(k))
           /\ WF_vars(QueryServer(k) /\ WhoisStep(k))
           /\ WF_vars(FetchDomainViaWHOIS(k)) /\ WF_vars(FlightEnds(k))
    /\ WF_vars(Respond) /\ WF_vars(Tick)

Spec == Init /\ [][Next]_vars /\ Fairness

-----------------------------------------------------------------------------
(* Properties *)

Data == [of: {<<k[1], k[2]>> : k \in Flights}, by: DOMAIN HostOf \union Range(WhoisServer),
         text: {"rdap", "record", "free"}, rdapServer: DOMAIN HostOf \union {""}]
Words == {"data", "pending", "NotFound", "RateLimited", "InvalidInput", "NoServer", "Deadline",
          "ServerError", "Failed", "InvalidRequest", "UnknownType", "ServerRequired",
          "ServerNotAllowed", "BatchTimeout"}

\* Each variable of the request, the cache and the two clients has its shape; a key has
\* a deadline exactly while its RDAP query exists, and a WHOIS query only within it.
TypeOK ==
    /\ mix \in Mixes /\ now \in 0..MaxTime /\ answered \in {NoAnswerYet} \union 0..MaxTime
    /\ place \in [Lookups -> {"queued", "missed", "wait", "done"}]
    /\ DOMAIN result = Lookups
    /\ \A w \in Lookups :
           /\ result[w].said \in Words /\ result[w].hit \in BOOLEAN
           /\ result[w].data \in Data \union {NoData}
           /\ (place[w] = "done") = (result[w].said # "pending")
           /\ (result[w].said = "data") = (result[w].data # NoData)
    /\ \A k \in Flights :
           /\ cached[k].data \in Data \union {NoData} /\ cached[k].negative \in BOOLEAN
           /\ flight[k].due \in -1..(MaxTime + FetchTimeout)
           /\ call[k].at \in {"none", "attempt", "pause", "over"}
           /\ whois[k].at \in {"none", "dialIANA", "readIANA", "known", "query", "over"}
           /\ (flight[k] = NoFlight) = (call[k] = NoCall)
           /\ whois[k] # NoCall => call[k].at = "over" /\ FallsBack(k)
    /\ closed \in BOOLEAN

\* What a client should read for what the upstream said.
Means(said, w) ==
    CASE said \in {"data", "record", "free"} -> {"data"}
      [] said = "notFound" -> {"NotFound"}
      [] said = "limited" -> {"RateLimited"}
      [] said = "failing" -> {IF w = 0 THEN "ServerError" ELSE "Failed"}
      [] said \in {"cut", "cancelled"} -> {"Deadline"}
      [] said = "noServer" -> {"NoServer"}
      [] said = "invalidInput" -> {"InvalidInput"}
      [] OTHER -> {"Failed"}

Unlooked == {"pending", "BatchTimeout", "InvalidRequest", "UnknownType", "ServerRequired",
             "ServerNotAllowed"}

\* What the client reads is what the upstream said to some fetch of its key, through
\* retries, fallbacks, shared flights, the cache and two different orders of errors.Is:
\* a rate limit is not called a failure, nor a failure an absence.
OutcomeFollowsUpstream ==
    \A w \in Lookups : result[w].said \notin Unlooked =>
        \E said \in told[CacheKey(QueryOf(w))] : result[w].said \in Means(said, w)

\* Only what the upstream said is kept: an object if a fetch of the key brought one, an
\* absence if a server denied it, and nothing for failures, limits and deadlines.
CacheFollowsUpstream ==
    \A k \in Flights :
        LET kept == cached[k] # Absent
        IN /\ (kept /\ cached[k].negative) => "notFound" \in told[k]
           /\ (kept /\ ~cached[k].negative) =>
                  told[k] \intersect {"data", "record", "free"} # {}
           /\ ~kept => told[k] \intersect {"data", "record", "free", "notFound"} = {}

\* Whatever shared its flight or its cache entry, a lookup gets the object that it asked
\* for, from a server that may give it: the one that an entity query names, one that
\* IANA lists, or the WHOIS server of a TLD that has none.
ResultsOwn ==
    \A w \in Lookups : result[w].said = "data" =>
        LET q == QueryOf(w)  data == result[w].data
        IN /\ data.of = <<q.kind, q.value>>
           /\ IF data.text = "rdap"
              THEN data.by \in (IF q.kind = "entity" THEN {q.server}
                                ELSE ToSet(Resolved(q).urls))
              ELSE q.kind = "domain" /\ data.by = WhoisServer[Last(q.value)]

\* A batch is answered within its own timeout and the time of one fetch that started
\* before it ran out.  The time of a fetch is FetchTimeout, or twice what a discovery
\* may take where that is more: discovery.go counts its timeout again after dialling.
BatchBounded ==
    LET fetch == Max({FetchTimeout, 2 * Smaller(WhoisTimeout, FetchTimeout)})
    IN answered # NoAnswerYet => answered < BatchTimeout + fetch \/ answered = 0

\* Loader and resolver together give what the file says, for every small file: the URLs
\* of the last service for a TLD, of the longest network, and of the range of a number
\* unless ranges overlap.  (Looked at where a run begins.)
TablesAgree ==
    (now = 0 /\ ~closed /\ \A w \in Lookups : place[w] = "queued") =>
        /\ \A f \in SmallFiles.dns, tld \in SmallFiles.tlds : DomainAgrees(f, tld)
        /\ \A f \in SmallFiles.ip, a \in 0..(2 ^ AddrBits - 1) :
               AddressAgrees(f, SmallFiles.networks, a)
        /\ \A f \in SmallFiles.asn, n \in SmallFiles.numbers :
               NumberAgrees(f, SmallFiles.ranges, n)

\* After Close no query goes to the WHOIS server of a domain, not even for a flight
\* whose discovery was under way then and has filled the emptied cache again.
NoWhoisAfterClose ==
    [][\A k \in Flights : (closed /\ whois'[k].at = "query") => whois[k].at = "query"]_vars

\* Every batch is answered, whatever its servers do or fail to do.
BatchResponds == <>(answered # NoAnswerYet)

\* What doc/api/rdap-lookup-api.yaml says of rdap_server: the server that provided the
\* data.
RdapServerProvided ==
    \A w \in Lookups : (result[w].said = "data" /\ result[w].data.text = "rdap") =>
        result[w].data.rdapServer = result[w].data.by

\* What whois/client.go says of ErrDomainNotFound, and lookup.go turns into a denial: a
\* domain that its WHOIS server calls free is not found.
FreeDomainNotFound ==
    \A w \in Lookups : result[w].said = "data" => result[w].data.text # "free"
=============================================================================
