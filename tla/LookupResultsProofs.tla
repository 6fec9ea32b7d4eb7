-------------------------- MODULE LookupResultsProofs --------------------------
(* What clients of LookupPipeline read, for every value of its constants. *)
EXTENDS LookupPipelineProofs

-----------------------------------------------------------------------------
(* Words *)

\* Helper: the first sentinel of an error that has one of those looked for ...
LEMMA FirstOfOne ==
    ASSUME NEW order, NEW err, Len(order) \in Nat, NEW p \in 1..Len(order),
           \A i \in 1..Len(order) : order[i] \in err <=> i = p
    PROVE  FirstOf(order, err) = order[p]
<1> DEFINE found == {i \in 1..Len(order) : order[i] \in err}
<1>1. found = {p}
  OBVIOUS
<1>2. Min({p}) = p
  BY DEF Min
<1>3. SelectInSeq(order, LAMBDA e : e \in err) = p
  BY <1>1, <1>2 DEF SelectInSeq
<1> QED
  BY <1>3 DEF FirstOf

\* ... and of an error that has none of them.
LEMMA FirstOfNone ==
    ASSUME NEW order, NEW err, \A i \in 1..Len(order) : order[i] \notin err
    PROVE  FirstOf(order, err) = "Failed"
<1>1. {i \in 1..Len(order) : order[i] \in err} = {}
  OBVIOUS
<1>2. SelectInSeq(order, LAMBDA e : e \in err) = 0
  BY <1>1 DEF SelectInSeq
<1> QED
  BY <1>2 DEF FirstOf

SingleWords == {"NotFound", "RateLimited", "InvalidInput", "NoServer", "Deadline", "ServerError"}
BatchWords == SingleWords \ {"ServerError"}

\* Helper: the words of handleError.
LEMMA SingleWord ==
    ASSUME NEW err
    PROVE  /\ \A word \in SingleWords : err \intersect SingleWords = {word} =>
                  HandleError(err) = word
           /\ err \intersect SingleWords = {} => HandleError(err) = "Failed"
<1> DEFINE order == <<"NotFound", "RateLimited", "InvalidInput", "NoServer", "Deadline",
                      "ServerError">>
<1>1. /\ Len(order) = 6 /\ 1..Len(order) = {1, 2, 3, 4, 5, 6}
      /\ order[1] = "NotFound" /\ order[2] = "RateLimited" /\ order[3] = "InvalidInput"
      /\ order[4] = "NoServer" /\ order[5] = "Deadline" /\ order[6] = "ServerError"
  OBVIOUS
<1>2. HandleError(err) = FirstOf(order, err)
  BY DEF HandleError
<1> HIDE DEF order
<1>3. ASSUME NEW p \in 1..6, err \intersect SingleWords = {order[p]}
      PROVE  HandleError(err) = order[p]
  <2>1. \A i \in 1..Len(order) : order[i] \in err <=> i = p
    BY <1>1, <1>3 DEF SingleWords
  <2>2. Len(order) \in Nat /\ p \in 1..Len(order)
    BY <1>1
  <2> QED
    BY <1>2, <2>1, <2>2, FirstOfOne
<1>4. ASSUME err \intersect SingleWords = {}
      PROVE  HandleError(err) = "Failed"
  BY <1>1, <1>2, <1>4, FirstOfNone DEF SingleWords
<1> QED
  BY <1>1, <1>3, <1>4 DEF SingleWords

\* Helper: the words of SanitizeBatchError, which are looked for in another order.
LEMMA BatchWord ==
    ASSUME NEW err
    PROVE  /\ \A word \in BatchWords : err \intersect BatchWords = {word} =>
                  SanitizeBatchError(err) = word
           /\ err \intersect BatchWords = {} => SanitizeBatchError(err) = "Failed"
<1> DEFINE order == <<"NotFound", "RateLimited", "NoServer", "InvalidInput", "Deadline">>
<1>1. /\ Len(order) = 5 /\ 1..Len(order) = {1, 2, 3, 4, 5}
      /\ order[1] = "NotFound" /\ order[2] = "RateLimited" /\ order[3] = "NoServer"
      /\ order[4] = "InvalidInput" /\ order[5] = "Deadline"
  OBVIOUS
<1>2. SanitizeBatchError(err) = FirstOf(order, err)
  BY DEF SanitizeBatchError
<1> HIDE DEF order
<1>3. ASSUME NEW p \in 1..5, err \intersect BatchWords = {order[p]}
      PROVE  SanitizeBatchError(err) = order[p]
  <2>1. \A i \in 1..Len(order) : order[i] \in err <=> i = p
    BY <1>1, <1>3 DEF BatchWords, SingleWords
  <2>2. Len(order) \in Nat /\ p \in 1..Len(order)
    BY <1>1
  <2> QED
    BY <1>2, <2>1, <2>2, FirstOfOne
<1>4. ASSUME err \intersect BatchWords = {}
      PROVE  SanitizeBatchError(err) = "Failed"
  BY <1>1, <1>2, <1>4, FirstOfNone DEF BatchWords, SingleWords
<1> QED
  BY <1>1, <1>3, <1>4 DEF BatchWords, SingleWords

\* The word that a lookup reads for an error.
WordOf(w, err) == IF w = 0 THEN HandleError(err) ELSE SanitizeBatchError(err)

\* Helper: the words for an error that has one sentinel that clients are told of, or none.
LEMMA WordFits ==
    ASSUME NEW w, NEW err
    PROVE  /\ \A word \in BatchWords : err \intersect SingleWords = {word} => WordOf(w, err) = word
           /\ err \intersect SingleWords = {} => WordOf(w, err) = "Failed"
           /\ err \intersect SingleWords = {"ServerError"} =>
                  WordOf(w, err) = IF w = 0 THEN "ServerError" ELSE "Failed"
<1>1. BatchWords \subseteq SingleWords /\ "ServerError" \in SingleWords \ BatchWords
  BY DEF SingleWords, BatchWords
<1>2. \A word \in BatchWords :
          err \intersect SingleWords = {word} => err \intersect BatchWords = {word}
  BY <1>1
<1>3. err \intersect SingleWords = {} => err \intersect BatchWords = {}
  BY <1>1
<1>4. err \intersect SingleWords = {"ServerError"} => err \intersect BatchWords = {}
  BY <1>1
<1>5. CASE w = 0
  BY <1>1, <1>5, SingleWord DEF WordOf
<1>6. CASE w # 0
  BY <1>2, <1>3, <1>4, <1>6, BatchWord DEF WordOf
<1> QED
  BY <1>5, <1>6

\* Helper: a fetch's outcome reads as what was told, through the retries and the fallback.
LEMMA WordIsTold ==
    ASSUME CallsInv, WhoisInv, NEW k \in Flights, NEW w, NEW hit,
           call[k].at = "over", FallsBack(k) => whois[k].at = "over"
    PROVE  Result(w, Fetched(k), hit).said \in Means(Told(k), w)
<1> DEFINE err == Fetched(k).err
<1>1. Ended(call[k])
  BY CallKinds DEF CallsInv
<1>2. SUFFICES (IF err = {} THEN "data" ELSE WordOf(w, err)) \in Means(Told(k), w)
  BY DEF Result, WordOf
<1>3. CASE FallsBack(k)
  <2> DEFINE v == whois[k]
  <2>1. v.err \in WhoisErrors \/ (v.err = {} /\ v.text \in {"record", "free"})
    BY <1>3 DEF WhoisInv, IsWhois, NoCall
  <2>2. err = v.err /\ Told(k) = IF v.err = {} THEN v.text ELSE "whoisError"
    BY <1>3 DEF Fetched, Told
  <2> HIDE DEF v, err
  <2>3. CASE v.err = {} /\ v.text \in {"record", "free"}
    BY <2>2, <2>3 DEF Means
  <2>4. CASE v.err \in WhoisErrors
    <3>1. v.err # {} /\ v.err \intersect SingleWords = {}
      BY <2>4 DEF WhoisErrors, SingleWords
    <3>2. WordOf(w, v.err) = "Failed"
      BY <3>1, WordFits
    <3>3. Told(k) = "whoisError"
      BY <2>2, <3>1
    <3> QED
      BY <2>2, <3>1, <3>2, <3>3 DEF Means
  <2> QED
    BY <2>1, <2>3, <2>4
<1>4. CASE ~FallsBack(k)
  <2> DEFINE c == call[k]
  <2>1. err = c.err
    BY <1>4 DEF Fetched
  <2>2. Told(k) = IF c.err = {"Deadline"} /\ c.heard.last # "cut" THEN "cancelled"
                  ELSE IF c.heard.tried # <<>> THEN c.heard.last
                  ELSE IF c.err = {"NoServer"} THEN "noServer"
                  ELSE IF c.err = {"InvalidInput"} THEN "invalidInput" ELSE "notReady"
    BY <1>4 DEF Told
  <2> HIDE DEF c, err
  <2>3. CASE c.heard.tried = <<>> /\ c.err \in UnaskedErrors
    <3>1. CASE c.err \in {{"NoServer"}, {"InvalidInput"}}
      <4>1. PICK word \in {"NoServer", "InvalidInput"} : c.err = {word}
        BY <3>1
      <4>2. WordOf(w, c.err) = word
        BY <4>1, WordFits DEF BatchWords, SingleWords
      <4>3. Told(k) = IF word = "NoServer" THEN "noServer" ELSE "invalidInput"
        BY <2>2, <2>3, <4>1
      <4> QED
        BY <2>1, <4>1, <4>2, <4>3 DEF Means
    <3>2. CASE c.err \in {{"NotInitialized"}, {"NoServers"}}
      <4>1. c.err # {} /\ c.err \intersect SingleWords = {}
        BY <3>2 DEF SingleWords
      <4>2. WordOf(w, c.err) = "Failed"
        BY <4>1, WordFits
      <4>3. Told(k) = "notReady"
        BY <2>2, <2>3, <3>2
      <4> QED
        BY <2>1, <4>1, <4>2, <4>3 DEF Means
    <3> QED
      BY <2>3, <3>1, <3>2 DEF UnaskedErrors
  <2>4. CASE c.heard.tried # <<>> /\ Fits(c.err, c.heard.last)
    <3> DEFINE last == c.heard.last
    <3> HIDE DEF last
    <3>1. CASE last = "data" /\ c.err = {}
      BY <2>1, <2>2, <2>4, <3>1 DEF Means, last
    <3>2. CASE last = "notFound" /\ c.err = {"NotFound"}
      <4>1. WordOf(w, c.err) = "NotFound"
        BY <3>2, WordFits DEF BatchWords, SingleWords
      <4>2. Told(k) = "notFound"
        BY <2>2, <2>4, <3>2 DEF last
      <4> QED
        BY <2>1, <3>2, <4>1, <4>2 DEF Means
    <3>3. CASE c.err = {"Deadline"} /\ last \in {"cut"} \union Passing
      <4>1. WordOf(w, c.err) = "Deadline"
        BY <3>3, WordFits DEF BatchWords, SingleWords
      <4>2. Told(k) \in {"cut", "cancelled"}
        BY <2>2, <2>4, <3>3 DEF last
      <4> QED
        BY <2>1, <3>3, <4>1, <4>2 DEF Means
    <3>4. CASE last = "limited" /\ c.err = {"AllServersFailed", "RateLimited"}
      <4>1. WordOf(w, c.err) = "RateLimited"
        <5>1. c.err \intersect SingleWords = {"RateLimited"} /\ "RateLimited" \in BatchWords
          BY <3>4 DEF BatchWords, SingleWords
        <5> QED
          BY <5>1, WordFits
      <4>2. Told(k) = "limited"
        BY <2>2, <2>4, <3>4 DEF last
      <4> QED
        BY <2>1, <3>4, <4>1, <4>2 DEF Means
    <3>5. CASE last = "failing" /\ c.err = {"AllServersFailed", "ServerError"}
      <4>1. WordOf(w, c.err) = IF w = 0 THEN "ServerError" ELSE "Failed"
        <5>1. c.err \intersect SingleWords = {"ServerError"}
          BY <3>5 DEF SingleWords
        <5> QED
          BY <5>1, WordFits
      <4>2. Told(k) = "failing"
        BY <2>2, <2>4, <3>5 DEF last
      <4> QED
        BY <2>1, <3>5, <4>1, <4>2 DEF Means
    <3>6. CASE /\ last \in {"otherClass", "invalid", "refused", "timeout"}
               /\ \/ c.err = {"InvalidResponse"}
                  \/ \E e \in {"InvalidResponse", "Other", "RequestTimeout"} :
                        c.err = {"AllServersFailed", e}
      <4>1. c.err # {} /\ c.err # {"Deadline"} /\ c.err \intersect SingleWords = {}
        BY <3>6 DEF SingleWords
      <4>2. WordOf(w, c.err) = "Failed"
        BY <4>1, WordFits
      <4>3. Told(k) = last
        BY <2>2, <2>4, <4>1 DEF last
      <4> QED
        BY <2>1, <3>6, <4>1, <4>2, <4>3 DEF Means
    <3> QED
      BY <2>4, <3>1, <3>2, <3>3, <3>4, <3>5, <3>6 DEF Fits, Passing, ErrorOf, last
  <2> QED
    BY <1>1, <2>3, <2>4 DEF Ended, c
<1> QED
  BY <1>3, <1>4

-----------------------------------------------------------------------------
(* Whose flights they are *)

\* Helper: a lookup's key is a key.
LEMMA LookupsHaveKeys ==
    ASSUME mix \in Mixes, NEW w \in Lookups
    PROVE  CacheKey(QueryOf(w)) \in Flights
<1>1. QueryOf(w) \in {mix.single} \union Range(mix.batch)
  BY FilesAssumption DEF QueryOf, Lookups, Batch, Range
<1> QED
  BY <1>1, FlightsAssumption

\* Helper: nothing changes what was asked.
LEMMA QueriesStay ==
    ASSUME [Next]_vars
    PROVE  /\ mix' = mix /\ tables' = tables /\ Lookups' = Lookups
           /\ \A w : QueryOf(w)' = QueryOf(w)
<1>1. mix' = mix /\ tables' = tables
  BY DEF Next, vars, LookupSingle, LookupDomain, LookupIP, LookupASN, LookupEntity,
         Begin, ProcessBatchQuery, GiveUp, FlightStarts, RdapStep, FetchDomainViaWHOIS,
         WhoisStep, FlightEnds, Respond, CloseHandler, Tick
<1> QED
  BY <1>1 DEF Lookups, Batch, QueryOf

\* The refusals of the handlers.
Refusals == {"ServerRequired", "ServerNotAllowed", "InvalidRequest", "UnknownType"}

Kinds == {"domain", "ip", "asn", "entity"}
Asked == {QueryOf(w) : w \in Lookups}

\* The query c is one for q at the servers that the resolver names for it, and only one
\* for a proper value finds that there are none.
AsksFor(q, c) ==
    /\ c.at \in {"attempt", "pause"} =>
           /\ c.of = <<q.kind, q.value>> /\ c.servers = Resolved(q).urls
           /\ q.value # Malformed
    /\ c.at = "over" =>
           /\ c.err = {} => /\ c.answer.of = <<q.kind, q.value>>
                            /\ c.answer.by \in ToSet(Resolved(q).urls)
           /\ "NoServer" \in c.err => q.value # Malformed

\* The WHOIS query v is one for q at the server that IANA names for it.
WhoisFor(q, v) ==
    /\ v.at \in {"dialIANA", "readIANA", "known", "query"} => v.of = q.value
    /\ v.at \in {"known", "query"} => v.server = WhoisServer[Last(q.value)]
    /\ (v.at = "over" /\ v.err = {}) => v.by = WhoisServer[Last(q.value)]

\* A flight's queries are for the query of its leader, which is one that was asked.
FlightOwn(k) ==
    LET q == flight[k].query
    IN /\ call[k] # NoCall =>
              q \in Asked /\ q.kind \in Kinds /\ CacheKey(q) = k /\ AsksFor(q, call[k])
       /\ whois[k] # NoCall => call[k].at = "over" /\ FallsBack(k) /\ WhoisFor(q, whois[k])

\* Inductive: flights ask what their key says, and the discoveries keep what IANA says.
FlightsInv ==
    /\ place = [w \in Lookups |-> place[w]]
    /\ \A w \in Lookups : place[w] \in {"missed", "wait"} => QueryOf(w).kind \in Kinds
    /\ flight = [k \in Flights |-> flight[k]]
    /\ \A k \in Flights : FlightOwn(k)
    /\ discovered = [tld \in TLDs |-> discovered[tld]]
    /\ \A tld \in TLDs : discovered[tld] # NoEntry => discovered[tld].server = WhoisServer[tld]

\* What becomes of the query c when an attempt ends: it goes on where it was, or it is over,
\* without an error only with the answer of its server.
Follow(c, e) ==
    \/ /\ e.at \in {"attempt", "pause"} /\ e.since = now
       /\ e.of = c.of /\ e.servers = c.servers /\ e.deadline = c.deadline
    \/ /\ e.at = "over" /\ "NoServer" \notin e.err
       /\ e.err = {} => e.answer = [of |-> c.of, by |-> c.servers[c.server]]

\* Helper: the end of an attempt.
LEMMA AttemptFollowed ==
    ASSUME NEW c, Asking(c), c.at = "attempt", NEW r \in Outcomes
    PROVE  Follow(c, After(Tried(c, r), r))
<1> DEFINE d == Tried(c, r)
<1>1. d = [at |-> c.at, of |-> c.of, servers |-> c.servers, server |-> c.server,
           attempt |-> c.attempt, since |-> c.since, deadline |-> c.deadline,
           heard |-> d.heard]
  BY AttemptCounts
<1> HIDE DEF d
<1>2. \A err, heard : (err # {} /\ "NoServer" \notin err) => Follow(c, Over(err, NoData, heard))
  BY DEF Follow, Over
<1>3. CASE r = "data"
  <2> DEFINE answer == [of |-> c.of, by |-> c.servers[c.server]]
  <2>1. d.of = c.of /\ d.servers[d.server] = c.servers[c.server]
    BY <1>1
  <2>2. After(d, r) = Over({}, answer, d.heard)
    BY <1>3, <2>1 DEF After
  <2> HIDE DEF answer
  <2>3. Follow(c, Over({}, answer, d.heard))
    BY DEF Follow, Over, answer
  <2> QED
    BY <2>2, <2>3 DEF d
<1>4. CASE r = "otherClass"
  <2>1. Follow(c, Over({"InvalidResponse"}, NoData, d.heard))
    BY <1>2
  <2> QED
    BY <1>4, <2>1 DEF After, d
<1>5. CASE r \notin {"data", "otherClass"}
  <2> DEFINE err == ErrorOf[r]
  <2>1. err # {} /\ "NoServer" \notin err
    BY <1>5 DEF Outcomes, ErrorOf
  <2> HIDE DEF err
  <2>2. Follow(c, Over(err, NoData, d.heard))
    BY <1>2, <2>1
  <2>3. Follow(c, Over({"AllServersFailed"} \union err, NoData, d.heard))
    <3>1. {"AllServersFailed"} \union err # {} /\ "NoServer" \notin {"AllServersFailed"} \union err
      BY <2>1
    <3> QED
      BY <1>2, <3>1
  <2>4. Follow(c, [d EXCEPT !.at = "pause", !.attempt = @ + 1, !.since = now])
    <3> DEFINE d1 == [d EXCEPT !.at = "pause"]
               d2 == [d1 EXCEPT !.attempt = @ + 1]
               e  == [d2 EXCEPT !.since = now]
    <3>1. e.at = "pause" /\ e.of = c.of /\ e.servers = c.servers
          /\ e.deadline = c.deadline /\ e.since = now
      BY <1>1
    <3> HIDE DEF e
    <3>2. Follow(c, e)
      BY <3>1 DEF Follow
    <3> QED
      BY <3>2 DEF e
  <2>5. Follow(c, [d EXCEPT !.server = @ + 1, !.attempt = 0, !.since = now])
    <3> DEFINE d1 == [d EXCEPT !.server = @ + 1]
               d2 == [d1 EXCEPT !.attempt = 0]
               e  == [d2 EXCEPT !.since = now]
    <3>1. e.at = "attempt" /\ e.of = c.of /\ e.servers = c.servers
          /\ e.deadline = c.deadline /\ e.since = now
      BY <1>1
    <3> HIDE DEF e
    <3>2. Follow(c, e)
      BY <3>1 DEF Follow
    <3> QED
      BY <3>2 DEF e
  <2>6. After(d, r) = Failed(d, err)
    BY <1>5 DEF After, err
  <2>7. Follow(c, Failed(d, err))
    BY <2>2, <2>3, <2>4, <2>5 DEF Failed
  <2> QED
    BY <2>6, <2>7 DEF d
<1> QED
  BY <1>3, <1>4, <1>5

\* Helper: the query goes on for what it was for.
LEMMA FollowAsks ==
    ASSUME NEW q, NEW c, Asking(c), AsksFor(q, c), NEW e, Follow(c, e)
    PROVE  AsksFor(q, e)
<1>1. /\ c.of = <<q.kind, q.value>> /\ c.servers = Resolved(q).urls /\ q.value # Malformed
      /\ c.servers[c.server] \in ToSet(c.servers)
  BY DEF AsksFor, Asking, ToSet
<1> QED
  BY <1>1 DEF Follow, AsksFor

\* Helper: a query starts at the servers that the resolver names.
LEMMA StartAsks ==
    ASSUME NEW q, IsResolution(Resolved(q)), NEW deadline
    PROVE  AsksFor(q, Started(<<q.kind, q.value>>, Resolved(q), deadline))
<1> DEFINE r == Resolved(q)
           c == Started(<<q.kind, q.value>>, r, deadline)
<1>1. q.value = Malformed => r.err = {"InvalidInput"}
  BY DEF Resolved, Failure
<1> HIDE DEF r
<1>2. CASE r.err # {}
  <2>1. c.at = "over" /\ c.err = r.err
    BY <1>2 DEF Started, Over
  <2> HIDE DEF c
  <2>2. AsksFor(q, c)
    BY <1>1, <1>2, <2>1 DEF AsksFor
  <2> QED
    BY <2>2 DEF c, r
<1>3. CASE r.err = {} /\ r.urls = <<>>
  <2>1. c.at = "over" /\ c.err = {"NoServers"}
    BY <1>3 DEF Started, Over
  <2> HIDE DEF c
  <2>2. AsksFor(q, c)
    BY <2>1 DEF AsksFor
  <2> QED
    BY <2>2 DEF c, r
<1>4. CASE r.err = {} /\ r.urls # <<>>
  <2>1. c.at = "attempt" /\ c.of = <<q.kind, q.value>> /\ c.servers = r.urls
    BY <1>4 DEF Started
  <2>2. q.value # Malformed
    BY <1>1, <1>4
  <2> HIDE DEF c
  <2>3. AsksFor(q, c)
    BY <2>1, <2>2 DEF AsksFor, r
  <2> QED
    BY <2>3 DEF c, r
<1> QED
  BY <1>2, <1>3, <1>4

\* Helper: a step of the RDAP query of one flight.
LEMMA CallStays ==
    ASSUME FlightsInv, CallsInv, [Next]_vars,
           NEW k \in Flights, call[k].at \in {"attempt", "pause"}, NEW c,
           call' = [call EXCEPT ![k] = c], AsksFor(flight[k].query, c),
           flight' = flight, whois' = whois
    PROVE  \A j \in Flights : FlightOwn(j)'
<1> SUFFICES ASSUME NEW j \in Flights
             PROVE  FlightOwn(j)'
  OBVIOUS
<1> DEFINE q == flight[j].query
<1>1. /\ call[j] # NoCall =>
             q \in Asked /\ q.kind \in Kinds /\ CacheKey(q) = j /\ AsksFor(q, call[j])
      /\ whois[j] # NoCall => call[j].at = "over" /\ FallsBack(j) /\ WhoisFor(q, whois[j])
  BY DEF FlightsInv, FlightOwn
<1>2. Asked' = Asked /\ q' = q /\ tables' = tables
  BY QueriesStay DEF Asked
<1>3. CASE j = k
  <2>1. call[k] # NoCall /\ whois[k] = NoCall /\ call'[k] = c
    BY <1>1, <1>3 DEF NoCall, CallsInv
  <2> QED
    BY <1>1, <1>2, <1>3, <2>1 DEF FlightOwn, AsksFor, Resolved, CacheKey
<1>4. CASE j # k
  <2>1. call'[j] = call[j] /\ whois'[j] = whois[j]
    BY <1>4 DEF CallsInv
  <2> QED
    BY <1>1, <1>2, <2>1 DEF FlightOwn, AsksFor, Resolved, CacheKey, FallsBack, WhoisFor
<1> QED
  BY <1>3, <1>4

\* Helper: whatever happens to the RDAP queries keeps to their flights.
LEMMA RdapKeeps ==
    ASSUME FlightsInv, CallsInv, [Next]_vars, NEW k \in Flights, RdapStep(k)
    PROVE  \A j \in Flights : FlightOwn(j)'
<1> DEFINE q == flight[k].query
<1>1. flight' = flight /\ whois' = whois
  BY DEF RdapStep, whoisVars
<1>2. call[k].at \in {"attempt", "pause"} => Asking(call[k]) /\ AsksFor(q, call[k])
  BY CallKinds DEF CallsInv, FlightsInv, FlightOwn, NoCall
<1>3. ASSUME NEW r \in Outcomes, call[k].at = "attempt", Attempted(k, r)
      PROVE  \A j \in Flights : FlightOwn(j)'
  <2> DEFINE c == After(Tried(call[k], r), r)
  <2>1. call' = [call EXCEPT ![k] = c]
    BY <1>3 DEF Attempted, After, Tried
  <2>2. AsksFor(q, c)
    BY <1>2, <1>3, AttemptFollowed, FollowAsks
  <2> HIDE DEF c, q
  <2> QED
    BY <1>1, <1>3, <2>1, <2>2, CallStays DEF q
<1>4. CASE Resume(k)
  <2> DEFINE d == [call[k] EXCEPT !.at = "attempt"]
             c == [d EXCEPT !.since = now]
  <2>1. call[k].at = "pause" /\ call' = [call EXCEPT ![k] = c]
    BY <1>4 DEF Resume, CallsInv
  <2>2. c.at = "attempt" /\ c.of = call[k].of /\ c.servers = call[k].servers
    BY <1>2, <2>1 DEF Asking
  <2> HIDE DEF c, d
  <2>3. AsksFor(q, c)
    BY <1>2, <2>1, <2>2 DEF AsksFor
  <2> QED
    BY <1>1, <2>1, <2>3, CallStays
<1>5. CASE Cancel(k)
  <2> DEFINE c == Over({"Deadline"}, NoData, call[k].heard)
  <2>1. call[k].at = "pause" /\ call' = [call EXCEPT ![k] = c]
    BY <1>5 DEF Cancel
  <2>2. AsksFor(q, c)
    BY DEF AsksFor, Over
  <2> HIDE DEF c
  <2> QED
    BY <1>1, <2>1, <2>2, CallStays
<1>6. /\ \A r \in ReplyKinds : r \in Outcomes
      /\ \A r \in {"timeout", "cut"} : r \in Outcomes
  BY RdapAssumption DEF Outcomes
<1> QED
  BY <1>3, <1>4, <1>5, <1>6 DEF RdapStep, Reply, Expire

\* Helper: a step of the WHOIS query of one flight.
LEMMA WhoisStays ==
    ASSUME FlightsInv, WhoisInv, [Next]_vars, NEW k \in Flights, call[k].at = "over", FallsBack(k),
           NEW v, whois' = [whois EXCEPT ![k] = v], WhoisFor(flight[k].query, v),
           flight' = flight, call' = call
    PROVE  \A j \in Flights : FlightOwn(j)'
<1> SUFFICES ASSUME NEW j \in Flights
             PROVE  FlightOwn(j)'
  OBVIOUS
<1> DEFINE q == flight[j].query
<1>1. /\ call[j] # NoCall =>
             q \in Asked /\ q.kind \in Kinds /\ CacheKey(q) = j /\ AsksFor(q, call[j])
      /\ whois[j] # NoCall => call[j].at = "over" /\ FallsBack(j) /\ WhoisFor(q, whois[j])
  BY DEF FlightsInv, FlightOwn
<1>2. Asked' = Asked /\ q' = q /\ tables' = tables
  BY QueriesStay DEF Asked
<1>3. CASE j = k
  <2>1. whois'[k] = v
    BY DEF WhoisInv
  <2> QED
    BY <1>1, <1>2, <1>3, <2>1 DEF FlightOwn, AsksFor, Resolved, CacheKey, FallsBack, WhoisFor
<1>4. CASE j # k
  <2>1. whois'[j] = whois[j]
    BY <1>4 DEF WhoisInv
  <2> QED
    BY <1>1, <1>2, <2>1 DEF FlightOwn, AsksFor, Resolved, CacheKey, FallsBack, WhoisFor
<1> QED
  BY <1>3, <1>4

\* Helper: the leader's query of a fallback on WHOIS is for a domain of a known TLD.
LEMMA FallbackHasTLD ==
    ASSUME Settled, FlightsInv, NEW k \in Flights, call[k].at = "over", FallsBack(k)
    PROVE  Last(flight[k].query.value) \in TLDs
<1> DEFINE q == flight[k].query
<1>1. call[k] # NoCall
  BY DEF NoCall
<1>2. q \in Asked /\ AsksFor(q, call[k]) /\ q.kind = "domain" /\ "NoServer" \in call[k].err
  BY <1>1 DEF FlightsInv, FlightOwn, FallsBack
<1>3. q.value # Malformed
  BY <1>2 DEF AsksFor
<1>4. PICK w \in Lookups : q = QueryOf(w)
  BY <1>2 DEF Asked
<1>5. q \in {mix.single} \union Range(mix.batch) /\ mix \in Mixes
  BY <1>4, FilesAssumption DEF Settled, QueryOf, Lookups, Batch, Range
<1> QED
  BY <1>2, <1>3, <1>5, FlightsAssumption

\* Helper: a failure of WHOIS is one whoever asked.
LEMMA FailuresFit ==
    ASSUME NEW q, NEW err, err # {}
    PROVE  WhoisFor(q, WhoisFails(err))
BY DEF WhoisFor, WhoisFails, WhoisOver

\* Helper: whatever happens to the WHOIS queries keeps to their flights.
LEMMA WhoisKeeps ==
    ASSUME Settled, FlightsInv, WhoisInv, [Next]_vars, NEW k \in Flights,
           WhoisStep(k) \/ FetchDomainViaWHOIS(k)
    PROVE  \A j \in Flights : FlightOwn(j)'
<1> DEFINE q == flight[k].query
           u == whois[k]
<1>1. flight' = flight /\ call' = call
  BY DEF WhoisStep, FetchDomainViaWHOIS
<1>2. u.at # "none" =>
        call[k].at = "over" /\ FallsBack(k) /\ WhoisFor(q, u) /\ Last(q.value) \in TLDs
  BY FallbackHasTLD DEF FlightsInv, FlightOwn, NoCall
<1>3. ASSUME u.at # "none", NEW v, whois' = [whois EXCEPT ![k] = v], WhoisFor(q, v)
      PROVE  \A j \in Flights : FlightOwn(j)'
  BY <1>1, <1>2, <1>3, WhoisStays
<1>4. CASE Connect(k)
  <2> DEFINE d == [u EXCEPT !.at = "readIANA"]
             v == [d EXCEPT !.due = now + u.span]
  <2>1. u.at = "dialIANA" /\ whois' = [whois EXCEPT ![k] = v]
    BY <1>4 DEF Connect, WhoisInv
  <2>2. u = [at |-> u.at, of |-> u.of, span |-> u.span, due |-> u.due, deadline |-> u.deadline]
    BY <2>1 DEF WhoisInv, IsWhois, NoCall
  <2>3. v.at = "readIANA" /\ v.of = u.of
    BY <2>2
  <2> HIDE DEF v, d
  <2>4. WhoisFor(q, v)
    BY <1>2, <2>1, <2>3 DEF WhoisFor
  <2> QED
    BY <1>3, <2>1, <2>4
<1>5. CASE Discover(k)
  <2> DEFINE server == WhoisServer[Last(u.of)]
             v == IF server = NoServerListed THEN WhoisFails({"NoWhoisServer"})
                                             ELSE Known(u, server)
  <2>1. u.at = "readIANA" /\ whois' = [whois EXCEPT ![k] = v]
    BY <1>5 DEF Discover
  <2>2. u.of = q.value
    BY <1>2, <2>1 DEF WhoisFor
  <2>3. WhoisFor(q, Known(u, server))
    BY <2>2 DEF WhoisFor, Known
  <2>4. WhoisFor(q, v)
    BY <2>3, FailuresFit
  <2> HIDE DEF v
  <2> QED
    BY <1>3, <2>1, <2>4
<1>6. CASE DiscoverFails(k)
  <2> DEFINE err == IF u.at = "dialIANA" /\ now >= u.due THEN {"DiscoveryTimeout"}
                                                         ELSE {"Other"}
  <2>1. u.at # "none" /\ whois' = [whois EXCEPT ![k] = WhoisFails(err)]
    BY <1>6 DEF DiscoverFails
  <2>2. err # {}
    OBVIOUS
  <2> HIDE DEF err, q
  <2> QED
    BY <1>3, <2>1, <2>2, FailuresFit
<1>7. CASE QueryServer(k)
  <2> DEFINE asked == [at |-> "query", of |-> u.of, server |-> u.server,
                       due |-> DeadlineAfter(WhoisTimeout, u.deadline),
                       deadline |-> u.deadline]
             v     == IF MaySend THEN asked ELSE WhoisFails({"Other"})
  <2>1. u.at = "known" /\ whois' = [whois EXCEPT ![k] = v]
    BY <1>7 DEF QueryServer
  <2>2. asked.at = "query" /\ asked.of = u.of /\ asked.server = u.server
    OBVIOUS
  <2> HIDE DEF asked
  <2>3. WhoisFor(q, asked)
    BY <1>2, <2>1, <2>2 DEF WhoisFor
  <2>4. WhoisFor(q, v)
    BY <2>3, FailuresFit
  <2> HIDE DEF v
  <2> QED
    BY <1>3, <2>1, <2>4
<1>8. ASSUME NEW r \in WhoisReplies \union {"dialTimeout", "readTimeout"}, Exchange(k, r)
      PROVE  \A j \in Flights : FlightOwn(j)'
  <2> DEFINE v == IF WhoisErrorOf[r] = {} THEN WhoisOver({}, u.server, r)
                                          ELSE WhoisFails(WhoisErrorOf[r])
  <2>1. u.at = "query" /\ whois' = [whois EXCEPT ![k] = v]
    BY <1>8 DEF Exchange
  <2>2. WhoisFor(q, WhoisOver({}, u.server, r))
    BY <1>2, <2>1 DEF WhoisFor, WhoisOver
  <2>3. WhoisFor(q, v)
    BY <2>2, FailuresFit
  <2> HIDE DEF v
  <2> QED
    BY <1>3, <2>1, <2>3
<1>9. CASE FetchDomainViaWHOIS(k)
  <2> DEFINE span == Smaller(WhoisTimeout, flight[k].due - now)
             asks == [at |-> "dialIANA", of |-> q.value, span |-> span, due |-> now + span,
                      deadline |-> flight[k].due]
             v == IF closed \/ Len(q.value) < 2 THEN WhoisFails({"Other"})
                  ELSE IF Fresh(Last(q.value))
                       THEN Known(asks, discovered[Last(q.value)].server)
                  ELSE asks
  <2>1. call[k].at = "over" /\ FallsBack(k) /\ whois' = [whois EXCEPT ![k] = v]
    BY <1>9 DEF FetchDomainViaWHOIS, WhoisQuery
  <2>2. Fresh(Last(q.value)) => discovered[Last(q.value)].server = WhoisServer[Last(q.value)]
    BY <2>1, FallbackHasTLD DEF Fresh, FlightsInv
  <2>3. asks.of = q.value /\ asks.at = "dialIANA"
    OBVIOUS
  <2> HIDE DEF asks
  <2>4. WhoisFor(q, asks)
    BY <2>3 DEF WhoisFor
  <2>5. Fresh(Last(q.value)) => WhoisFor(q, Known(asks, discovered[Last(q.value)].server))
    BY <2>2, <2>3 DEF WhoisFor, Known
  <2>6. WhoisFor(q, v)
    BY <2>4, <2>5, FailuresFit
  <2> HIDE DEF v
  <2> QED
    BY <1>1, <2>1, <2>6, WhoisStays
<1> QED
  BY <1>4, <1>5, <1>6, <1>7, <1>8, <1>9 DEF WhoisStep

\* Helper: a lookup that starts or joins a flight.
LEMMA StartsKeep ==
    ASSUME Settled, FlightsInv, CallsInv, WhoisInv, [Next]_vars, NEW w \in Lookups, FlightStarts(w)
    PROVE  /\ \A j \in Flights : FlightOwn(j)'
           /\ flight' = [k \in Flights |-> flight'[k]]
<1> DEFINE q == QueryOf(w)
           i == CacheKey(q)
           c == Started(<<q.kind, q.value>>, Resolved(q), now + FetchTimeout)
<1>1. i \in Flights /\ q \in Asked /\ q.kind \in Kinds
  BY LookupsHaveKeys DEF Settled, Asked, FlightStarts, FlightsInv
<1>2. whois' = whois /\ Asked' = Asked /\ tables' = tables
  BY QueriesStay DEF FlightStarts, whoisVars, Asked
<1>3. CASE call' = call /\ flight' = flight
  BY <1>2, <1>3 DEF FlightsInv, FlightOwn, AsksFor, Resolved, CacheKey, FallsBack, WhoisFor
<1>4. CASE Lead(w, i) /\ cached[i] = Absent
  <2>1. /\ flight' = [flight EXCEPT ![i] = [due |-> now + FetchTimeout, query |-> q]]
        /\ call[i] = NoCall /\ call' = [call EXCEPT ![i] = c]
    BY <1>4 DEF Lead, Query, Started
  <2>2. AsksFor(q, c)
    BY LookupsResolve, StartAsks DEF Settled
  <2> HIDE DEF c
  <2> SUFFICES ASSUME NEW j \in Flights
               PROVE  FlightOwn(j)'
    BY <2>1 DEF FlightsInv
  <2>3. CASE j = i
    <3>1. flight'[i].query = q /\ call'[i] = c /\ whois'[i] = NoCall
      BY <1>1, <1>2, <2>1 DEF FlightsInv, FlightOwn, CallsInv, NoCall
    <3> HIDE DEF q
    <3>2. CacheKey(q) = i
      BY DEF q
    <3> HIDE DEF i
    <3> QED
      BY <1>1, <1>2, <2>2, <2>3, <3>1, <3>2 DEF FlightOwn, AsksFor, Resolved, CacheKey
  <2>4. CASE j # i
    <3>1. flight'[j] = flight[j] /\ call'[j] = call[j] /\ whois'[j] = whois[j]
      BY <1>2, <2>1, <2>4 DEF FlightsInv, CallsInv
    <3> QED
      BY <1>2, <3>1 DEF FlightsInv, FlightOwn, AsksFor, Resolved, CacheKey, FallsBack, WhoisFor
  <2> QED
    BY <2>3, <2>4
<1> QED
  BY <1>3, <1>4 DEF FlightStarts, Lead, Join, FlightsInv

\* Helper: the end of a flight.
LEMMA EndKeeps ==
    ASSUME FlightsInv, CallsInv, WhoisInv, [Next]_vars, NEW k \in Flights, FlightEnds(k)
    PROVE  /\ \A j \in Flights : FlightOwn(j)'
           /\ flight' = [j \in Flights |-> flight'[j]]
<1>1. /\ flight' = [flight EXCEPT ![k] = NoFlight]
      /\ call' = [call EXCEPT ![k] = NoCall]
      /\ whois' = [whois EXCEPT ![k] = NoCall]
  BY DEF FlightEnds
<1>2. Asked' = Asked /\ tables' = tables
  BY QueriesStay DEF Asked
<1> SUFFICES ASSUME NEW j \in Flights
             PROVE  FlightOwn(j)'
  BY <1>1 DEF FlightsInv
<1>3. CASE j = k
  <2>1. call'[j] = NoCall /\ whois'[j] = NoCall
    BY <1>1, <1>3 DEF CallsInv, WhoisInv
  <2> QED
    BY <2>1 DEF FlightOwn
<1>4. CASE j # k
  <2>1. flight'[j] = flight[j] /\ call'[j] = call[j] /\ whois'[j] = whois[j]
    BY <1>1, <1>4 DEF FlightsInv, CallsInv, WhoisInv
  <2> QED
    BY <1>2, <2>1 DEF FlightsInv, FlightOwn, AsksFor, Resolved, CacheKey, FallsBack, WhoisFor
<1> QED
  BY <1>3, <1>4

\* Helper: only lookups of the four kinds come as far as a flight.
LEMMA PlacesKeep ==
    ASSUME FlightsInv, [Next]_vars
    PROVE  /\ place' = [w \in Lookups |-> place'[w]]
           /\ \A w \in Lookups : place'[w] \in {"missed", "wait"} => QueryOf(w).kind \in Kinds
<1>1. /\ place = [w \in Lookups |-> place[w]]
      /\ \A w \in Lookups : place[w] \in {"missed", "wait"} => QueryOf(w).kind \in Kinds
  BY DEF FlightsInv
<1> DEFINE Kept ==
        /\ place' = [w \in Lookups |-> place'[w]]
        /\ \A w \in Lookups : place'[w] \in {"missed", "wait"} => QueryOf(w).kind \in Kinds
<1> SUFFICES Kept
  OBVIOUS
<1>2. ASSUME NEW w \in Lookups, QueryOf(w).kind \in Kinds, NEW p,
             place' = [place EXCEPT ![w] = p]
      PROVE  Kept
  BY <1>1, <1>2
<1>3. ASSUME NEW w \in Lookups, place' = [place EXCEPT ![w] = "done"]
      PROVE  Kept
  BY <1>1, <1>3
<1>4. CASE LookupSingle
  <2>1. 0 \in Lookups /\ QueryOf(0) = mix.single
    BY DEF Lookups, QueryOf
  <2>2. mix.single.kind \in Kinds
    BY <1>4 DEF LookupSingle, LookupDomain, LookupIP, LookupASN, LookupEntity, Kinds
  <2>3. \E p : place' = [place EXCEPT ![0] = p]
    BY <1>4 DEF LookupSingle, LookupDomain, LookupIP, LookupASN, LookupEntity, Begin
  <2> HIDE DEF Kept
  <2> QED
    BY <1>2, <2>1, <2>2, <2>3
<1>5. ASSUME NEW w \in Lookups, ProcessBatchQuery(w)
      PROVE  Kept
  <2> DEFINE refusal == Refused(QueryOf(w))
  <2>1. CASE refusal = "no"
    <3>1. QueryOf(w).kind \in Kinds
      BY <2>1 DEF Refused, Kinds
    <3>2. \E p : place' = [place EXCEPT ![w] = p]
      BY <1>5 DEF ProcessBatchQuery, Begin
    <3> HIDE DEF Kept
    <3> QED
      BY <1>2, <3>1, <3>2
  <2>2. CASE refusal # "no"
    <3>1. refusal \in Refusals
      BY <2>2 DEF Refused, RefusedEntity, Refusals
    <3> HIDE DEF refusal
    <3>2. Refusal(refusal) # Pending
      <4>1. Refusal(refusal).said = refusal /\ Pending.said = "pending"
        BY DEF Refusal, Pending
      <4> QED
        BY <3>1, <4>1 DEF Refusals
    <3>3. place' = [place EXCEPT ![w] = "done"]
      BY <1>5, <2>2, <3>2 DEF ProcessBatchQuery, Begin, refusal
    <3> HIDE DEF Kept
    <3> QED
      BY <1>3, <3>3
  <2> QED
    BY <2>1, <2>2
<1>6. ASSUME NEW w \in Lookups, GiveUp(w)
      PROVE  Kept
  BY <1>3, <1>6 DEF GiveUp
<1>7. ASSUME NEW w \in Lookups, FlightStarts(w)
      PROVE  Kept
  <2>1. place[w] = "missed" /\ \E p : place' = [place EXCEPT ![w] = p]
    BY <1>7 DEF FlightStarts, Lead, Join
  <2>2. QueryOf(w).kind \in Kinds
    BY <1>1, <2>1
  <2> HIDE DEF Kept
  <2> QED
    BY <1>2, <2>1, <2>2
<1>8. ASSUME NEW k \in Flights, FlightEnds(k)
      PROVE  Kept
  BY <1>1, <1>8 DEF FlightEnds
<1>9. CASE \/ \E k \in Flights : RdapStep(k) \/ WhoisStep(k) \/ FetchDomainViaWHOIS(k)
           \/ Respond
           \/ CloseHandler
           \/ Tick
           \/ UNCHANGED vars
  <2>1. place' = place
    BY <1>9 DEF vars, RdapStep, WhoisStep, FetchDomainViaWHOIS, Respond, CloseHandler, Tick
  <2> QED
    BY <1>1, <2>1
<1> HIDE DEF Kept
<1> QED
  BY <1>4, <1>5, <1>6, <1>7, <1>8, <1>9 DEF Next

\* Helper: the discovery cache holds what IANA says.
LEMMA DiscoveriesKeep ==
    ASSUME FlightsInv, [Next]_vars
    PROVE  /\ discovered' = [tld \in TLDs |-> discovered'[tld]]
           /\ \A tld \in TLDs :
                  discovered'[tld] # NoEntry => discovered'[tld].server = WhoisServer[tld]
<1>1. CASE discovered' = discovered
  BY <1>1 DEF FlightsInv
<1>2. CASE discovered' = [tld \in TLDs |-> NoEntry]
  BY <1>2
<1>3. ASSUME NEW tld,
             discovered' = [discovered EXCEPT ![tld] = [server |-> WhoisServer[tld], at |-> now]]
      PROVE  /\ discovered' = [t \in TLDs |-> discovered'[t]]
             /\ \A t \in TLDs :
                    discovered'[t] # NoEntry => discovered'[t].server = WhoisServer[t]
  BY <1>3 DEF FlightsInv
<1>4. \/ discovered' = discovered
      \/ discovered' = [tld \in TLDs |-> NoEntry]
      \/ \E tld :
           discovered' = [discovered EXCEPT ![tld] = [server |-> WhoisServer[tld], at |-> now]]
  BY DEF Next, vars, whoisVars, LookupSingle, LookupDomain, LookupIP, LookupASN, LookupEntity,
         Begin, ProcessBatchQuery, GiveUp, FlightStarts, RdapStep, FetchDomainViaWHOIS,
         WhoisQuery, WhoisStep, Connect, Discover, DiscoverFails, QueryServer, Exchange,
         FlightEnds, Respond, CloseHandler, Close, Tick
<1> QED
  BY <1>1, <1>2, <1>3, <1>4

\* Helper: flights keep asking what their key says.
LEMMA FlightsHold == Spec => []FlightsInv
<1>1. Init => FlightsInv
  BY DEF Init, FlightsInv, FlightOwn
<1>2. Settled /\ CallsInv /\ WhoisInv /\ FlightsInv /\ [Next]_vars => FlightsInv'
  <2> SUFFICES ASSUME Settled, CallsInv, WhoisInv, FlightsInv, [Next]_vars
               PROVE  FlightsInv'
    OBVIOUS
  <2>1. (/\ flight' = [k \in Flights |-> flight'[k]]
         /\ \A k \in Flights : FlightOwn(k)') => FlightsInv'
    BY PlacesKeep, DiscoveriesKeep, QueriesStay DEF FlightsInv
  <2>2. CASE \/ LookupSingle
             \/ \E w \in Lookups : ProcessBatchQuery(w) \/ GiveUp(w)
             \/ Respond
             \/ CloseHandler
             \/ Tick
             \/ UNCHANGED vars
    <3>1. flight' = flight /\ call' = call /\ whois' = whois
      BY <2>2 DEF vars, whoisVars, LookupSingle, LookupDomain, LookupIP, LookupASN,
                  LookupEntity, Begin, ProcessBatchQuery, GiveUp, Respond, CloseHandler,
                  Close, Tick
    <3>2. \A k \in Flights : FlightOwn(k)'
      BY <3>1, QueriesStay DEF FlightsInv, FlightOwn, AsksFor, Resolved, CacheKey, FallsBack,
                              WhoisFor, Asked
    <3> QED
      BY <2>1, <3>1, <3>2 DEF FlightsInv
  <2>3. ASSUME NEW w \in Lookups, FlightStarts(w)
        PROVE  FlightsInv'
    BY <2>1, <2>3, StartsKeep
  <2>4. ASSUME NEW k \in Flights, RdapStep(k) \/ WhoisStep(k) \/ FetchDomainViaWHOIS(k)
        PROVE  FlightsInv'
    <3>1. flight' = flight
      BY <2>4 DEF RdapStep, WhoisStep, FetchDomainViaWHOIS
    <3>2. flight' = [j \in Flights |-> flight'[j]]
      BY <3>1 DEF FlightsInv
    <3> QED
      BY <2>1, <2>4, <3>2, RdapKeeps, WhoisKeeps
  <2>5. ASSUME NEW k \in Flights, FlightEnds(k)
        PROVE  FlightsInv'
    BY <2>1, <2>5, EndKeeps
  <2> QED
    BY <2>2, <2>3, <2>4, <2>5 DEF Next
<1> QED
  BY <1>1, <1>2, CallsHold, WhoisHolds, PTL DEF Spec

-----------------------------------------------------------------------------
(* What lookups come to *)

\* What a lookup reads when it finds its key in the cache.
Found(w, k, hit) ==
    Result(w, IF cached[k].negative THEN Denied ELSE [err |-> {}, data |-> cached[k].data], hit)

\* r is what a lookup may come to before its flight ends: nothing, a refusal, or what is kept.
Early(w, r) ==
    \/ r = Pending
    \/ \E word \in Refusals \union {"BatchTimeout"} : r = Refusal(word)
    \/ /\ QueryOf(w).kind \in Kinds /\ cached[CacheKey(QueryOf(w))] # Absent
       /\ \E hit \in BOOLEAN : r = Found(w, CacheKey(QueryOf(w)), hit)

\* A step at which one lookup comes to something before a flight of its key ends.
OneEarly ==
    \E w \in Lookups : \E r :
        Early(w, r) /\ result' = [result EXCEPT ![w] = r] /\ cached' = cached /\ told' = told

\* Helper: the start of a lookup.
LEMMA BeginsEarly ==
    ASSUME NEW w \in Lookups, NEW refusal \in Refusals \union {"no"}, Begin(w, refusal),
           refusal = "no" => QueryOf(w).kind \in Kinds
    PROVE  OneEarly
<1> DEFINE k == CacheKey(QueryOf(w))
           hit == CASE refusal # "no" -> Refusal(refusal)
                    [] refusal = "no" /\ cached[k].negative -> Result(w, Denied, TRUE)
                    [] refusal = "no" /\ ~cached[k].negative /\ cached[k] # Absent ->
                           Result(w, [err |-> {}, data |-> cached[k].data], TRUE)
                    [] OTHER -> Pending
<1>1. result' = [result EXCEPT ![w] = hit] /\ cached' = cached /\ told' = told
  BY DEF Begin
<1>2. Early(w, hit)
  <2>1. CASE refusal # "no"
    BY <2>1 DEF Early
  <2>2. CASE refusal = "no" /\ cached[k].negative
    <3>1. cached[k] # Absent
      BY <2>2 DEF Absent
    <3>2. hit = Found(w, k, TRUE)
      BY <2>2 DEF Found
    <3> HIDE DEF hit
    <3> QED
      BY <2>2, <3>1, <3>2 DEF Early
  <2>3. CASE refusal = "no" /\ ~cached[k].negative /\ cached[k] # Absent
    <3>1. hit = Found(w, k, TRUE)
      BY <2>3 DEF Found
    <3> HIDE DEF hit
    <3> QED
      BY <2>3, <3>1 DEF Early
  <2>4. CASE refusal = "no" /\ ~cached[k].negative /\ cached[k] = Absent
    <3>1. hit = Pending
      BY <2>4
    <3> HIDE DEF hit
    <3> QED
      BY <3>1 DEF Early
  <2> QED
    BY <2>1, <2>2, <2>3, <2>4
<1> HIDE DEF hit
<1> QED
  BY <1>1, <1>2 DEF OneEarly

\* Helper: a step that is not the end of a flight.
LEMMA OthersEarly ==
    ASSUME FlightsInv, [Next]_vars, \A k \in Flights : ~FlightEnds(k)
    PROVE  \/ OneEarly
           \/ result' = result /\ cached' = cached /\ told' = told
<1>1. CASE LookupSingle
  <2>1. Invalid(mix.single) \in Refusals \union {"no"} /\ 0 \in Lookups
    BY DEF Invalid, RefusedEntity, Refusals, Lookups
  <2>2. QueryOf(0).kind \in Kinds
    BY <1>1 DEF LookupSingle, LookupDomain, LookupIP, LookupASN, LookupEntity, QueryOf, Kinds
  <2> QED
    BY <1>1, <2>1, <2>2, BeginsEarly
    DEF LookupSingle, LookupDomain, LookupIP, LookupASN, LookupEntity
<1>2. ASSUME NEW w \in Lookups, ProcessBatchQuery(w)
      PROVE  OneEarly
  <2>1. /\ Refused(QueryOf(w)) \in Refusals \union {"no"}
        /\ Refused(QueryOf(w)) = "no" => QueryOf(w).kind \in Kinds
    BY DEF Refused, RefusedEntity, Refusals, Kinds
  <2> QED
    BY <1>2, <2>1, BeginsEarly DEF ProcessBatchQuery
<1>3. ASSUME NEW w \in Lookups, GiveUp(w)
      PROVE  OneEarly
  <2>1. Early(w, Refusal("BatchTimeout"))
    BY DEF Early
  <2> QED
    BY <1>3, <2>1 DEF GiveUp, OneEarly
<1>4. ASSUME NEW w \in Lookups, FlightStarts(w)
      PROVE  OneEarly \/ (result' = result /\ cached' = cached /\ told' = told)
  <2> DEFINE k == CacheKey(QueryOf(w))
  <2>1. cached' = cached /\ told' = told /\ QueryOf(w).kind \in Kinds
    BY <1>4 DEF FlightStarts, FlightsInv
  <2>2. CASE Lead(w, k) /\ cached[k] # Absent
    <3>1. result' = [result EXCEPT ![w] = Found(w, k, FALSE)]
      BY <2>2 DEF Lead, Found
    <3>2. Early(w, Found(w, k, FALSE))
      BY <2>1, <2>2 DEF Early
    <3> QED
      BY <2>1, <3>1, <3>2 DEF OneEarly
  <2>3. CASE Join(w, k) \/ (Lead(w, k) /\ cached[k] = Absent)
    BY <2>1, <2>3 DEF Join, Lead
  <2> QED
    BY <1>4, <2>2, <2>3 DEF FlightStarts
<1>5. CASE \/ \E k \in Flights : RdapStep(k) \/ WhoisStep(k) \/ FetchDomainViaWHOIS(k)
           \/ Respond
           \/ CloseHandler
           \/ Tick
           \/ UNCHANGED vars
  BY <1>5 DEF vars, RdapStep, WhoisStep, FetchDomainViaWHOIS, Respond, CloseHandler, Tick
<1> QED
  BY <1>1, <1>2, <1>3, <1>4, <1>5 DEF Next

\* What OutcomeFollowsUpstream says of one lookup.
Follows(w, r, said) == r.said \notin Unlooked => \E s \in said : r.said \in Means(s, w)

\* Inductive: OutcomeFollowsUpstream, of a function on the lookups.
OutcomeInv ==
    /\ result = [w \in Lookups |-> result[w]]
    /\ OutcomeFollowsUpstream

\* Helper: what is read in the cache is what an upstream said.
LEMMA FoundFollows ==
    ASSUME Settled, CacheInv, NEW w \in Lookups, NEW r, Early(w, r)
    PROVE  Follows(w, r, told[CacheKey(QueryOf(w))])
<1> DEFINE k == CacheKey(QueryOf(w))
<1>1. CASE r = Pending
  BY <1>1 DEF Follows, Unlooked, Pending
<1>2. ASSUME NEW word \in Refusals \union {"BatchTimeout"}, r = Refusal(word)
      PROVE  Follows(w, r, told[k])
  BY <1>2 DEF Follows, Refusals, Unlooked, Refusal, Pending
<1>3. ASSUME NEW hit, cached[k] # Absent, r = Found(w, k, hit)
      PROVE  Follows(w, r, told[k])
  <2>1. k \in Flights
    BY LookupsHaveKeys DEF Settled
  <2>2. CASE cached[k].negative
    <3>1. "notFound" \in told[k]
      BY <1>3, <2>1, <2>2 DEF CacheInv, CacheFollowsUpstream
    <3>2. r.said = WordOf(w, {"NotFound"})
      BY <1>3, <2>2 DEF Found, Result, Denied, WordOf
    <3>3. r.said = "NotFound"
      BY <3>2, WordFits DEF BatchWords, SingleWords
    <3>4. r.said \in Means("notFound", w)
      BY <3>3 DEF Means
    <3> QED
      BY <3>1, <3>4 DEF Follows
  <2>3. CASE ~cached[k].negative
    <3>1. PICK s \in Objects : s \in told[k]
      BY <1>3, <2>1, <2>3 DEF CacheInv, CacheFollowsUpstream, Objects
    <3>2. r.said = "data"
      BY <1>3, <2>3 DEF Found, Result
    <3>3. r.said \in Means(s, w)
      BY <3>1, <3>2 DEF Means, Objects
    <3> QED
      BY <3>1, <3>3 DEF Follows
  <2> QED
    BY <2>2, <2>3
<1> QED
  BY <1>1, <1>2, <1>3 DEF Early

\* Of every lookup, single or of a batch: what the client reads is what an upstream said to
\* some fetch of its key, through retries, the fallback on WHOIS, shared flights, the cache
\* and the orders in which handleError and SanitizeBatchError look for errors.
THEOREM OutcomesFollow == Spec => []OutcomeFollowsUpstream
<1>1. Init => OutcomeInv
  BY DEF Init, OutcomeInv, OutcomeFollowsUpstream, Pending, Unlooked
<1>2. /\ Settled /\ CallsInv /\ WhoisInv /\ FlightsInv /\ CacheInv /\ OutcomeInv
      /\ [Next]_vars
      => OutcomeInv'
  <2> SUFFICES ASSUME Settled, CallsInv, WhoisInv, FlightsInv, CacheInv, OutcomeInv, [Next]_vars
               PROVE  OutcomeInv'
    OBVIOUS
  <2>1. \A w \in Lookups : Follows(w, result[w], told[CacheKey(QueryOf(w))])
    BY DEF OutcomeInv, OutcomeFollowsUpstream, Follows
  <2>2. (/\ result' = [w \in Lookups |-> result'[w]]
         /\ \A w \in Lookups : Follows(w, result'[w], told'[CacheKey(QueryOf(w))]))
          => OutcomeInv'
    BY QueriesStay DEF OutcomeInv, OutcomeFollowsUpstream, Follows, CacheKey
  <2>3. CASE result' = result /\ told' = told
    BY <2>1, <2>2, <2>3 DEF OutcomeInv
  <2>4. CASE OneEarly
    <3>1. PICK w \in Lookups :
              \E r : Early(w, r) /\ result' = [result EXCEPT ![w] = r] /\ told' = told
      BY <2>4 DEF OneEarly
    <3>2. PICK r : Early(w, r) /\ result' = [result EXCEPT ![w] = r] /\ told' = told
      BY <3>1
    <3>3. Follows(w, r, told[CacheKey(QueryOf(w))])
      BY <3>2, FoundFollows
    <3> QED
      BY <2>1, <2>2, <3>2, <3>3 DEF OutcomeInv
  <2>5. ASSUME NEW k \in Flights, FlightEnds(k)
        PROVE  OutcomeInv'
    <3>1. /\ result' = [w \in Lookups |->
                 IF w \in Waiting(k) THEN Result(w, Fetched(k), FALSE) ELSE result[w]]
          /\ told' = [told EXCEPT ![k] = @ \union {Told(k)}]
      BY <2>5 DEF FlightEnds
    <3>2. /\ Told(k) \in told'[k]
          /\ \A j \in Flights : told[j] \subseteq told'[j]
      BY <3>1 DEF CacheInv
    <3>3. \A w \in Lookups : Follows(w, result'[w], told'[CacheKey(QueryOf(w))])
      <4> SUFFICES ASSUME NEW w \in Lookups
                   PROVE  Follows(w, result'[w], told'[CacheKey(QueryOf(w))])
        OBVIOUS
      <4>1. CASE w \in Waiting(k)
        <5>1. Result(w, Fetched(k), FALSE).said \in Means(Told(k), w)
          BY <2>5, WordIsTold DEF FlightEnds
        <5>2. CacheKey(QueryOf(w)) = k
          BY <4>1 DEF Waiting
        <5> QED
          BY <3>1, <3>2, <4>1, <5>1, <5>2 DEF Follows
      <4>2. CASE w \notin Waiting(k)
        <5>1. told[CacheKey(QueryOf(w))] \subseteq told'[CacheKey(QueryOf(w))]
          BY <3>2, LookupsHaveKeys DEF Settled
        <5> QED
          BY <2>1, <3>1, <4>2, <5>1 DEF Follows
      <4> QED
        BY <4>1, <4>2
    <3> QED
      BY <2>2, <3>1, <3>3
  <2> QED
    BY <2>3, <2>4, <2>5, OthersEarly
<1>3. CacheInv /\ OutcomeInv => OutcomeFollowsUpstream
  BY DEF OutcomeInv
<1> QED
  BY <1>1, <1>2, <1>3, CallsHold, WhoisHolds, FlightsHold, CacheHolds, PTL DEF Spec

-----------------------------------------------------------------------------
(* Whose data it is *)

\* The data is of what q asks for, from a server that may give it.
Owns(q, data) ==
    /\ data.of = <<q.kind, q.value>>
    /\ IF data.text = "rdap"
       THEN data.by \in (IF q.kind = "entity" THEN {q.server} ELSE ToSet(Resolved(q).urls))
       ELSE q.kind = "domain" /\ data.by = WhoisServer[Last(q.value)]

\* Helper: queries of one key own the same.
LEMMA KeysOwn ==
    ASSUME NEW q, NEW r, q.kind \in Kinds, r.kind \in Kinds, CacheKey(q) = CacheKey(r),
           NEW data, Owns(q, data)
    PROVE  Owns(r, data)
<1>1. q.kind = r.kind /\ q.value = r.value /\ (q.kind = "entity" => q.server = r.server)
  BY DEF CacheKey
<1>2. Resolved(q) = Resolved(r)
  BY <1>1 DEF Resolved, Kinds
<1> QED
  BY <1>1, <1>2 DEF Owns

\* What is kept under a key, and what a lookup of it comes to, is its own.
KeptOwn(k, entry) ==
    (entry # Absent /\ ~entry.negative) =>
        \A q \in Asked : (q.kind \in Kinds /\ CacheKey(q) = k) => Owns(q, entry.data)
ResultOwn(w, r) == r.said = "data" => Owns(QueryOf(w), r.data)

\* Inductive: what is kept and what lookups come to.
OwnInv ==
    /\ result = [w \in Lookups |-> result[w]]
    /\ cached = [k \in Flights |-> cached[k]]
    /\ \A k \in Flights : KeptOwn(k, cached[k])
    /\ \A w \in Lookups : ResultOwn(w, result[w])

\* Helper: a fetch brings what the leader asked for.
LEMMA FetchedOwn ==
    ASSUME CallsInv, WhoisInv, FlightsInv, NEW k \in Flights,
           call[k].at = "over", FallsBack(k) => whois[k].at = "over", Fetched(k).err = {}
    PROVE  /\ flight[k].query.kind \in Kinds /\ CacheKey(flight[k].query) = k
           /\ Owns(flight[k].query, Fetched(k).data)
<1> DEFINE q == flight[k].query
           data == Fetched(k).data
<1>1. call[k] # NoCall
  BY DEF NoCall
<1>2. q.kind \in Kinds /\ CacheKey(q) = k /\ AsksFor(q, call[k]) /\ FlightOwn(k)
  BY <1>1 DEF FlightsInv, FlightOwn
<1>3. CASE FallsBack(k)
  <2>1. whois[k] # NoCall /\ whois[k].at = "over" /\ whois[k].err = {}
    BY <1>3 DEF NoCall, Fetched
  <2>2. whois[k].text # "rdap" /\ whois[k].by = WhoisServer[Last(q.value)]
    BY <1>2, <2>1 DEF WhoisInv, IsWhois, WhoisErrors, FlightOwn, WhoisFor
  <2>3. /\ data.of = <<q.kind, q.value>> /\ data.by = whois[k].by
        /\ data.text = whois[k].text
    BY <1>3 DEF Fetched
  <2>4. q.kind = "domain"
    BY <1>3 DEF FallsBack
  <2> HIDE DEF data
  <2>5. Owns(q, data)
    BY <2>2, <2>3, <2>4 DEF Owns
  <2> QED
    BY <1>2, <2>5 DEF data
<1>4. CASE ~FallsBack(k)
  <2>1. /\ data.of = call[k].answer.of /\ data.by = call[k].answer.by
        /\ data.text = "rdap" /\ call[k].err = {}
    BY <1>4 DEF Fetched
  <2>2. data.of = <<q.kind, q.value>> /\ data.by \in ToSet(Resolved(q).urls)
    BY <1>2, <2>1 DEF AsksFor
  <2>3. (q.kind = "entity" /\ ToSet(Resolved(q).urls) # {}) => ToSet(Resolved(q).urls) = {q.server}
    BY DEF Resolved, Answer, Failure, ToSet
  <2> HIDE DEF data
  <2>4. Owns(q, data)
    BY <2>1, <2>2, <2>3 DEF Owns
  <2> QED
    BY <1>2, <2>4 DEF data
<1> QED
  BY <1>3, <1>4

\* Helper: what is read in the cache is the lookup's own.
LEMMA FoundOwn ==
    ASSUME Settled, OwnInv, NEW w \in Lookups, NEW r, Early(w, r)
    PROVE  ResultOwn(w, r)
<1> DEFINE k == CacheKey(QueryOf(w))
<1>1. CASE r = Pending
  BY <1>1 DEF ResultOwn, Pending
<1>2. ASSUME NEW word \in Refusals \union {"BatchTimeout"}, r = Refusal(word)
      PROVE  ResultOwn(w, r)
  BY <1>2 DEF ResultOwn, Refusals, Refusal, Pending
<1>3. ASSUME NEW hit, QueryOf(w).kind \in Kinds, cached[k] # Absent, r = Found(w, k, hit)
      PROVE  ResultOwn(w, r)
  <2>1. CASE cached[k].negative
    <3>1. r.said = WordOf(w, {"NotFound"})
      BY <1>3, <2>1 DEF Found, Result, Denied, WordOf
    <3>2. r.said = "NotFound"
      BY <3>1, WordFits DEF BatchWords, SingleWords
    <3> QED
      BY <3>2 DEF ResultOwn
  <2>2. CASE ~cached[k].negative
    <3>1. r.data = cached[k].data
      BY <1>3, <2>2 DEF Found, Result
    <3>2. KeptOwn(k, cached[k]) /\ QueryOf(w) \in Asked
      BY LookupsHaveKeys DEF Settled, OwnInv, Asked
    <3>3. Owns(QueryOf(w), cached[k].data)
      BY <1>3, <2>2, <3>2 DEF KeptOwn
    <3> QED
      BY <3>1, <3>3 DEF ResultOwn
  <2> QED
    BY <2>1, <2>2
<1> QED
  BY <1>1, <1>2, <1>3 DEF Early

\* Of every lookup of every request, whatever shared its flight or its cache entry: what it
\* gets is of the object that it asked for, from a server that may give it, since a cache key
\* holds all that the answer depends on (cacheKey of lookup.go, BuildKey of cache.go).
THEOREM ResultsAreOwn == Spec => []ResultsOwn
<1>1. Init => OwnInv
  BY DEF Init, OwnInv, KeptOwn, ResultOwn, Pending
<1>2. Settled /\ CallsInv /\ WhoisInv /\ FlightsInv /\ OwnInv /\ [Next]_vars => OwnInv'
  <2> SUFFICES ASSUME Settled, CallsInv, WhoisInv, FlightsInv, OwnInv, [Next]_vars
               PROVE  OwnInv'
    OBVIOUS
  <2>1. (/\ result' = [w \in Lookups |-> result'[w]]
         /\ cached' = [k \in Flights |-> cached'[k]]
         /\ \A k \in Flights : KeptOwn(k, cached'[k])
         /\ \A w \in Lookups : ResultOwn(w, result'[w])) => OwnInv'
    <3>1. /\ Lookups' = Lookups /\ Asked' = Asked /\ \A w : QueryOf(w)' = QueryOf(w)
          /\ \A q, data : Owns(q, data)' <=> Owns(q, data)
      BY QueriesStay DEF Asked, Owns, Resolved
    <3>2. \A q : CacheKey(q)' = CacheKey(q)
      BY DEF CacheKey
    <3>3. /\ \A k \in Flights : KeptOwn(k, cached[k])' <=> KeptOwn(k, cached'[k])
          /\ \A w \in Lookups : ResultOwn(w, result[w])' <=> ResultOwn(w, result'[w])
      BY <3>1, <3>2 DEF KeptOwn, ResultOwn
    <3> QED
      BY <3>1, <3>3 DEF OwnInv
  <2>2. CASE result' = result /\ cached' = cached
    BY <2>1, <2>2 DEF OwnInv
  <2>3. CASE OneEarly
    <3>1. PICK w \in Lookups :
              \E r : Early(w, r) /\ result' = [result EXCEPT ![w] = r] /\ cached' = cached
      BY <2>3 DEF OneEarly
    <3>2. PICK r : Early(w, r) /\ result' = [result EXCEPT ![w] = r] /\ cached' = cached
      BY <3>1
    <3>3. ResultOwn(w, r)
      BY <3>2, FoundOwn
    <3> QED
      BY <2>1, <3>2, <3>3 DEF OwnInv
  <2>4. ASSUME NEW k \in Flights, FlightEnds(k)
        PROVE  OwnInv'
    <3> DEFINE o    == Fetched(k)
               q    == flight[k].query
               kept == IF Denial(o.err) THEN [negative |-> TRUE, data |-> NoData]
                       ELSE IF o.err = {} THEN [negative |-> FALSE, data |-> o.data]
                       ELSE cached[k]
    <3>1. /\ result' = [w \in Lookups |->
                 IF w \in Waiting(k) THEN Result(w, o, FALSE) ELSE result[w]]
          /\ cached' = [cached EXCEPT ![k] = kept]
      BY <2>4 DEF FlightEnds
    <3>2. o.err = {} => q.kind \in Kinds /\ CacheKey(q) = k /\ Owns(q, o.data)
      BY <2>4, FetchedOwn DEF FlightEnds
    <3>3. ASSUME o.err = {}, NEW r, r.kind \in Kinds, CacheKey(r) = k
          PROVE  Owns(r, o.data)
      BY <3>2, <3>3, KeysOwn
    <3>4. KeptOwn(k, kept)
      <4>1. CASE Denial(o.err)
        <5>1. kept.negative
          BY <4>1
        <5> QED
          BY <5>1 DEF KeptOwn
      <4>2. CASE ~Denial(o.err) /\ o.err = {}
        <5>1. kept.data = o.data
          BY <4>2
        <5> HIDE DEF kept, o
        <5> QED
          BY <3>3, <4>2, <5>1 DEF KeptOwn
      <4>3. CASE ~Denial(o.err) /\ o.err # {}
        BY <4>3 DEF OwnInv
      <4> QED
        BY <4>1, <4>2, <4>3
    <3>5. \A w \in Lookups : ResultOwn(w, result'[w])
      <4> SUFFICES ASSUME NEW w \in Waiting(k), result'[w] = Result(w, o, FALSE)
                   PROVE  ResultOwn(w, Result(w, o, FALSE))
        BY <3>1 DEF OwnInv
      <4>1. CASE o.err = {}
        <5>1. QueryOf(w).kind \in Kinds /\ CacheKey(QueryOf(w)) = k
          BY DEF Waiting, FlightsInv
        <5>2. Result(w, o, FALSE).data = o.data
          BY <4>1 DEF Result
        <5>3. Owns(QueryOf(w), o.data)
          BY <3>3, <4>1, <5>1
        <5> QED
          BY <5>2, <5>3 DEF ResultOwn
      <4>2. CASE o.err # {}
        <5>1. Told(k) \notin Objects
          BY <2>4, <4>2, OutcomeIsTold DEF FlightEnds
        <5>2. Result(w, o, FALSE).said \in Means(Told(k), w)
          BY <2>4, WordIsTold DEF FlightEnds
        <5>3. "data" \notin Means(Told(k), w)
          BY <5>1 DEF Means, Objects
        <5> QED
          BY <5>2, <5>3 DEF ResultOwn
      <4> QED
        BY <4>1, <4>2
    <3> HIDE DEF kept
    <3>6. /\ cached' = [j \in Flights |-> cached'[j]]
          /\ \A j \in Flights : KeptOwn(j, cached'[j])
      BY <3>1, <3>4 DEF OwnInv
    <3> QED
      BY <2>1, <3>1, <3>5, <3>6
  <2> QED
    BY <2>2, <2>3, <2>4, OthersEarly
<1>3. Settled /\ OwnInv => ResultsOwn
  BY DEF OwnInv, ResultOwn, Owns, ResultsOwn
<1> QED
  BY <1>1, <1>2, <1>3, CallsHold, WhoisHolds, FlightsHold, PTL DEF Spec

-----------------------------------------------------------------------------
(* How long it takes *)

\* How long a fetch takes at most, and a discovery's timeout in a fetch that has just begun.
FetchBound == Max({FetchTimeout, 2 * Smaller(WhoisTimeout, FetchTimeout)})
Span == Smaller(WhoisTimeout, FetchTimeout)
Begun(k) == flight[k].due - FetchTimeout

\* The RDAP query c of a flight with this deadline keeps to it.
CallTimed(c, due) ==
    c.at \in {"attempt", "pause"} => c.deadline = due /\ now <= due /\ c.since \in Nat

\* The WHOIS query v of a flight that began then keeps to its deadlines, of which the one
\* to hear from IANA counts from the connection.
WhoisTimed(v, begun) ==
    /\ v.at \in {"dialIANA", "readIANA", "known", "query"} => v.deadline = begun + FetchTimeout
    /\ v.at \in {"dialIANA", "readIANA"} => v.span = Span
    /\ v.at = "dialIANA" => v.due = begun + Span /\ now <= v.due
    /\ v.at = "readIANA" => v.due \in Int /\ v.due <= begun + 2 * Span
    /\ v.at = "query" => v.due \in Int /\ v.due <= begun + FetchTimeout

\* A flight is under way for as long as it may, and WHOIS is asked at once or not at all.
FlightTimed(k) ==
    /\ (flight[k] = NoFlight) <=> (call[k] = NoCall)
    /\ call[k] # NoCall =>
           /\ flight[k].due \in Int /\ Begun(k) \in Nat
           /\ Begun(k) <= now /\ now <= Begun(k) + FetchBound
           /\ CallTimed(call[k], flight[k].due)
           /\ (call[k].at = "over" /\ FallsBack(k) /\ whois[k] = NoCall) => now = Begun(k)
           /\ WhoisTimed(whois[k], Begun(k))

\* A lookup of the batch waits for a flight that began before the batch's time was up.
LookupTimed(w) ==
    LET k == CacheKey(QueryOf(w))
    IN /\ place[w] \in {"queued", "missed", "wait", "done"}
       /\ place[w] = "queued" => now <= BatchTimeout
       /\ place[w] = "missed" => now < BatchTimeout
       /\ place[w] = "wait" => flight[k] # NoFlight /\ Begun(k) < BatchTimeout

\* Inductive: flights and lookups keep to their times, and so does the answer.
TimeInv ==
    /\ now \in Nat
    /\ \A k \in Flights : FlightTimed(k)
    /\ \A w \in Batch : LookupTimed(w)
    /\ answered = NoAnswerYet => now < BatchTimeout + FetchBound \/ now = 0
    /\ answered # NoAnswerYet => answered < BatchTimeout + FetchBound \/ answered = 0

\* Helper: what the bound bounds.
LEMMA BoundHolds ==
    /\ Span \in Nat \ {0} /\ FetchBound \in Nat \ {0}
    /\ FetchTimeout <= FetchBound /\ 2 * Span <= FetchBound
<1> DEFINE S == {FetchTimeout, 2 * Span}
<1>1. Span \in Nat \ {0} /\ FetchTimeout \in Nat \ {0}
  BY PipelineAssumption, WhoisAssumption DEF Span, Smaller
<1>2. FetchBound = Max(S)
  BY DEF FetchBound, Span
<1>3. \E m \in S : \A n \in S : m >= n
  BY <1>1
<1>4. Max(S) \in S /\ \A n \in S : Max(S) >= n
  BY <1>3 DEF Max
<1> QED
  BY <1>1, <1>2, <1>4

\* Helper: what a step leaves alone keeps to its time.
LEMMA TimedStays ==
    ASSUME NEW k \in Flights, FlightTimed(k), now' = now,
           flight'[k] = flight[k], call'[k] = call[k], whois'[k] = whois[k]
    PROVE  FlightTimed(k)'
BY DEF FlightTimed, Begun, CallTimed, WhoisTimed, FallsBack

\* Helper: time goes on only while every flight has some left.
LEMMA TickTimed ==
    ASSUME CallsInv, WhoisInv, FlightsInv, now \in Nat, NEW k \in Flights, FlightTimed(k), Tick
    PROVE  FlightTimed(k)'
<1> DEFINE c == call[k]
           v == whois[k]
           b == Begun(k)
<1>1. /\ now' = now + 1 /\ flight' = flight /\ call' = call /\ whois' = whois
      /\ ~RdapUrgent(k) /\ ~WhoisUrgent(k)
      /\ c.at = "over" => FallsBack(k) /\ v.at \notin {"none", "known", "over"}
  BY DEF Tick, Idle, Waits, whoisVars
<1>2. CASE c = NoCall
  BY <1>1, <1>2 DEF FlightTimed
<1>3. CASE c # NoCall
  <2>1. /\ flight[k] # NoFlight /\ flight[k].due \in Int /\ b \in Nat /\ b <= now
        /\ flight[k].due = b + FetchTimeout
        /\ CallTimed(c, flight[k].due) /\ WhoisTimed(v, b)
    BY <1>3, PipelineAssumption DEF FlightTimed, Begun
  <2>2. CASE c.at \in {"attempt", "pause"}
    <3>1. now < flight[k].due
      BY <1>1, <2>1, <2>2, RdapAssumption DEF RdapUrgent, Due, Smaller, CallTimed
    <3>2. v = NoCall
      BY <2>2 DEF FlightsInv, FlightOwn
    <3>3. CallTimed(c, flight[k].due)' /\ WhoisTimed(v, b)'
      BY <1>1, <2>1, <2>2, <3>1, <3>2 DEF CallTimed, WhoisTimed, NoCall
    <3>4. now' <= b + FetchBound
      BY <1>1, <2>1, <3>1, BoundHolds, PipelineAssumption
    <3> QED
      BY <1>1, <1>3, <2>1, <2>2, <3>3, <3>4 DEF FlightTimed, Begun
  <2>3. CASE c.at = "over"
    <3>1. FallsBack(k) /\ v.at \in {"dialIANA", "readIANA", "query"} /\ v # NoCall
      BY <1>1, <2>3 DEF WhoisInv, IsWhois, NoCall
    <3>2. now < v.due
      BY <1>1, <2>1, <3>1, BoundHolds DEF WhoisUrgent, WhoisTimed
    <3>3. CallTimed(c, flight[k].due)' /\ WhoisTimed(v, b)'
      BY <1>1, <2>1, <2>3, <3>1, <3>2, BoundHolds DEF CallTimed, WhoisTimed, Begun
    <3>4. now' <= b + FetchBound
      BY <1>1, <2>1, <3>1, <3>2, BoundHolds, PipelineAssumption DEF WhoisTimed
    <3> QED
      BY <1>1, <1>3, <2>1, <3>1, <3>3, <3>4 DEF FlightTimed, Begun
  <2> QED
    BY <1>3, <2>2, <2>3, CallKinds DEF CallsInv
<1> QED
  BY <1>2, <1>3

\* Helper: a step of the RDAP query of one flight.
LEMMA RdapTimed ==
    ASSUME CallsInv, FlightsInv, now \in Nat, \A j \in Flights : FlightTimed(j),
           NEW k \in Flights, RdapStep(k)
    PROVE  \A j \in Flights : FlightTimed(j)'
<1>1. now' = now /\ flight' = flight /\ whois' = whois
  BY DEF RdapStep, whoisVars
<1>2. ASSUME call[k].at \in {"attempt", "pause"}, NEW c, call' = [call EXCEPT ![k] = c],
             CallTimed(c, flight[k].due), c # NoCall, c.at = "over" => "NoServer" \notin c.err
      PROVE  \A j \in Flights : FlightTimed(j)'
  <2> SUFFICES ASSUME NEW j \in Flights
               PROVE  FlightTimed(j)'
    OBVIOUS
  <2>1. CASE j # k
    BY <1>1, <1>2, <2>1, TimedStays DEF CallsInv
  <2>2. CASE j = k
    <3>1. call'[k] = c /\ call[k] # NoCall
      BY <1>2 DEF CallsInv, NoCall
    <3>2. /\ flight[k] # NoFlight /\ flight[k].due \in Int /\ Begun(k) \in Nat
          /\ Begun(k) <= now /\ now <= Begun(k) + FetchBound /\ WhoisTimed(whois[k], Begun(k))
      BY <3>1 DEF FlightTimed
    <3>3. (c.at = "over" /\ FallsBack(k)') => FALSE
      BY <1>2, <3>1 DEF FallsBack
    <3> QED
      BY <1>1, <1>2, <2>2, <3>1, <3>2, <3>3 DEF FlightTimed, Begun, CallTimed, WhoisTimed
  <2> QED
    BY <2>1, <2>2
<1>3. call[k].at \in {"attempt", "pause"} => Asking(call[k]) /\ CallTimed(call[k], flight[k].due)
  BY CallKinds DEF CallsInv, FlightTimed, NoCall
<1>4. ASSUME NEW r \in Outcomes, call[k].at = "attempt", Attempted(k, r)
      PROVE  \A j \in Flights : FlightTimed(j)'
  <2> DEFINE c == After(Tried(call[k], r), r)
  <2>1. call' = [call EXCEPT ![k] = c]
    BY <1>4 DEF Attempted, After, Tried
  <2>2. Follow(call[k], c)
    BY <1>3, <1>4, AttemptFollowed
  <2> HIDE DEF c
  <2>3. CallTimed(c, flight[k].due) /\ c # NoCall /\ (c.at = "over" => "NoServer" \notin c.err)
    BY <1>3, <1>4, <2>2 DEF Follow, CallTimed, NoCall
  <2> QED
    BY <1>2, <1>4, <2>1, <2>3
<1>5. CASE Resume(k)
  <2> DEFINE d == [call[k] EXCEPT !.at = "attempt"]
             c == [d EXCEPT !.since = now]
  <2>1. call[k].at = "pause" /\ call' = [call EXCEPT ![k] = c]
    BY <1>5 DEF Resume, CallsInv
  <2>2. c.at = "attempt" /\ c.deadline = call[k].deadline /\ c.since = now
    BY <1>3, <2>1 DEF Asking
  <2> HIDE DEF c, d
  <2>3. CallTimed(c, flight[k].due) /\ c # NoCall /\ c.at # "over"
    BY <1>3, <2>1, <2>2 DEF CallTimed, NoCall
  <2> QED
    BY <1>2, <2>1, <2>3
<1>6. CASE Cancel(k)
  <2> DEFINE c == Over({"Deadline"}, NoData, call[k].heard)
  <2>1. call[k].at = "pause" /\ call' = [call EXCEPT ![k] = c]
    BY <1>6 DEF Cancel
  <2>2. c.at = "over" /\ "NoServer" \notin c.err
    BY DEF Over
  <2> HIDE DEF c
  <2>3. CallTimed(c, flight[k].due) /\ c # NoCall
    BY <2>2 DEF CallTimed, NoCall
  <2> QED
    BY <1>2, <2>1, <2>2, <2>3
<1>7. /\ \A r \in ReplyKinds : r \in Outcomes
      /\ \A r \in {"timeout", "cut"} : r \in Outcomes
  BY RdapAssumption DEF Outcomes
<1> QED
  BY <1>4, <1>5, <1>6, <1>7 DEF RdapStep, Reply, Expire

\* Helper: a failure of WHOIS needs no time.
LEMMA FailuresTimed ==
    ASSUME NEW err, NEW begun
    PROVE  WhoisTimed(WhoisFails(err), begun) /\ WhoisFails(err) # NoCall
<1> DEFINE v == WhoisFails(err)
<1>1. v.at = "over"
  BY DEF WhoisFails, WhoisOver
<1> HIDE DEF v
<1>2. WhoisTimed(v, begun) /\ v # NoCall
  BY <1>1 DEF WhoisTimed, NoCall
<1> QED
  BY <1>2 DEF v

\* Helper: a step of the WHOIS query of one flight.
LEMMA WhoisKeepsTime ==
    ASSUME WhoisInv, FlightsInv, now \in Nat, \A j \in Flights : FlightTimed(j),
           NEW k \in Flights, WhoisStep(k) \/ FetchDomainViaWHOIS(k)
    PROVE  \A j \in Flights : FlightTimed(j)'
<1> DEFINE u == whois[k]
           b == Begun(k)
<1>1. now' = now /\ flight' = flight /\ call' = call
  BY DEF WhoisStep, FetchDomainViaWHOIS
<1>2. u # NoCall => call[k].at = "over" /\ FallsBack(k)
  BY DEF FlightsInv, FlightOwn
<1>3. call[k].at = "over" =>
        /\ flight[k] # NoFlight /\ flight[k].due \in Int /\ b \in Nat
        /\ b <= now /\ now <= b + FetchBound /\ flight[k].due = b + FetchTimeout
        /\ WhoisTimed(u, b) /\ (FallsBack(k) /\ u = NoCall => now = b)
  BY PipelineAssumption DEF FlightTimed, Begun, NoCall
<1>4. ASSUME call[k].at = "over", NEW v, whois' = [whois EXCEPT ![k] = v],
             WhoisTimed(v, b), v # NoCall
      PROVE  \A j \in Flights : FlightTimed(j)'
  <2> SUFFICES ASSUME NEW j \in Flights
               PROVE  FlightTimed(j)'
    OBVIOUS
  <2>1. CASE j # k
    BY <1>1, <1>4, <2>1, TimedStays DEF WhoisInv
  <2>2. CASE j = k
    <3>1. whois'[k] = v /\ call[k] # NoCall
      BY <1>4 DEF WhoisInv, NoCall
    <3> QED
      BY <1>1, <1>3, <1>4, <2>2, <3>1 DEF FlightTimed, Begun, CallTimed, WhoisTimed
  <2> QED
    BY <2>1, <2>2
<1>5. CASE Connect(k)
  <2> DEFINE d == [u EXCEPT !.at = "readIANA"]
             v == [d EXCEPT !.due = now + u.span]
  <2>1. u.at = "dialIANA" /\ now < u.due /\ whois' = [whois EXCEPT ![k] = v]
    BY <1>5 DEF Connect, WhoisInv
  <2>2. u = [at |-> u.at, of |-> u.of, span |-> u.span, due |-> u.due, deadline |-> u.deadline]
        /\ u # NoCall
    BY <2>1 DEF WhoisInv, IsWhois, NoCall
  <2>3. /\ v.at = "readIANA" /\ v.deadline = u.deadline /\ v.span = u.span
        /\ v.due = now + u.span
    BY <2>2
  <2> HIDE DEF v, d
  <2>4. WhoisTimed(v, b) /\ v # NoCall
    BY <1>2, <1>3, <2>1, <2>2, <2>3, BoundHolds DEF WhoisTimed, NoCall
  <2> QED
    BY <1>2, <1>4, <2>1, <2>2, <2>4
<1>6. CASE Discover(k)
  <2> DEFINE server == WhoisServer[Last(u.of)]
             v == IF server = NoServerListed THEN WhoisFails({"NoWhoisServer"})
                                             ELSE Known(u, server)
  <2>1. u.at = "readIANA" /\ u # NoCall /\ whois' = [whois EXCEPT ![k] = v]
    BY <1>6 DEF Discover, NoCall
  <2>2. Known(u, server).at = "known" /\ Known(u, server).deadline = u.deadline
    BY DEF Known
  <2>3. WhoisTimed(Known(u, server), b) /\ Known(u, server) # NoCall
    BY <1>2, <1>3, <2>1, <2>2 DEF WhoisTimed, NoCall
  <2>4. WhoisTimed(v, b) /\ v # NoCall
    BY <2>3, FailuresTimed
  <2> HIDE DEF v
  <2> QED
    BY <1>2, <1>4, <2>1, <2>4
<1>7. CASE DiscoverFails(k)
  <2> DEFINE err == IF u.at = "dialIANA" /\ now >= u.due THEN {"DiscoveryTimeout"}
                                                         ELSE {"Other"}
  <2>1. u # NoCall /\ whois' = [whois EXCEPT ![k] = WhoisFails(err)]
    BY <1>7 DEF DiscoverFails, NoCall
  <2> HIDE DEF err
  <2> QED
    BY <1>2, <1>4, <2>1, FailuresTimed
<1>8. CASE QueryServer(k)
  <2> DEFINE asked == [at |-> "query", of |-> u.of, server |-> u.server,
                       due |-> DeadlineAfter(WhoisTimeout, u.deadline),
                       deadline |-> u.deadline]
             v     == IF MaySend THEN asked ELSE WhoisFails({"Other"})
  <2>1. u.at = "known" /\ u # NoCall /\ whois' = [whois EXCEPT ![k] = v]
    BY <1>8 DEF QueryServer, NoCall
  <2>2. u.deadline = b + FetchTimeout
    BY <1>2, <1>3, <2>1 DEF WhoisTimed
  <2>3. /\ asked.at = "query" /\ asked.deadline = u.deadline
        /\ asked.due = DeadlineAfter(WhoisTimeout, u.deadline)
    OBVIOUS
  <2> HIDE DEF asked
  <2>4. asked.due \in Int /\ asked.due <= b + FetchTimeout
    BY <1>2, <1>3, <2>1, <2>2, <2>3, WhoisAssumption, PipelineAssumption
    DEF DeadlineAfter, Smaller
  <2>5. WhoisTimed(asked, b) /\ asked # NoCall
    BY <2>2, <2>3, <2>4 DEF WhoisTimed, NoCall
  <2>6. WhoisTimed(v, b) /\ v # NoCall
    BY <2>5, FailuresTimed
  <2> HIDE DEF v
  <2> QED
    BY <1>2, <1>4, <2>1, <2>6
<1>9. ASSUME NEW r \in WhoisReplies \union {"dialTimeout", "readTimeout"}, Exchange(k, r)
      PROVE  \A j \in Flights : FlightTimed(j)'
  <2> DEFINE w == WhoisOver({}, u.server, r)
             v == IF WhoisErrorOf[r] = {} THEN w ELSE WhoisFails(WhoisErrorOf[r])
  <2>1. u # NoCall /\ whois' = [whois EXCEPT ![k] = v]
    BY <1>9 DEF Exchange, NoCall
  <2>2. w.at = "over"
    BY DEF WhoisOver
  <2> HIDE DEF w
  <2>3. WhoisTimed(w, b) /\ w # NoCall
    BY <2>2 DEF WhoisTimed, NoCall
  <2>4. WhoisTimed(v, b) /\ v # NoCall
    BY <2>3, FailuresTimed
  <2> HIDE DEF v
  <2> QED
    BY <1>2, <1>4, <2>1, <2>4
<1>10. CASE FetchDomainViaWHOIS(k)
  <2> DEFINE domain == flight[k].query.value
             span == Smaller(WhoisTimeout, flight[k].due - now)
             asks == [at |-> "dialIANA", of |-> domain, span |-> span, due |-> now + span,
                      deadline |-> flight[k].due]
             knows == Known(asks, discovered[Last(domain)].server)
             v == IF closed \/ Len(domain) < 2 THEN WhoisFails({"Other"})
                  ELSE IF Fresh(Last(domain)) THEN knows
                  ELSE asks
  <2>1. call[k].at = "over" /\ FallsBack(k) /\ u = NoCall /\ whois' = [whois EXCEPT ![k] = v]
    BY <1>10 DEF FetchDomainViaWHOIS, WhoisQuery
  <2>2. now = b /\ flight[k].due = b + FetchTimeout /\ b \in Nat
    BY <1>3, <2>1
  <2>3. span = Span
    BY <2>2, PipelineAssumption DEF Span
  <2>4. /\ asks.at = "dialIANA" /\ asks.span = Span /\ asks.due = now + Span
        /\ asks.deadline = flight[k].due
    BY <2>3
  <2> HIDE DEF asks
  <2>5. knows.at = "known" /\ knows.deadline = flight[k].due
    BY <2>4 DEF Known
  <2> HIDE DEF knows
  <2>6. WhoisTimed(asks, b) /\ asks # NoCall
    BY <2>2, <2>4, BoundHolds DEF WhoisTimed, NoCall
  <2>7. WhoisTimed(knows, b) /\ knows # NoCall
    BY <2>2, <2>5 DEF WhoisTimed, NoCall
  <2>8. WhoisTimed(v, b) /\ v # NoCall
    BY <2>6, <2>7, FailuresTimed
  <2> HIDE DEF v
  <2> QED
    BY <1>4, <2>1, <2>8
<1> QED
  BY <1>5, <1>6, <1>7, <1>8, <1>9, <1>10 DEF WhoisStep

\* Helper: a flight that starts has its whole time.
LEMMA StartTimed ==
    ASSUME Settled, CallsInv, WhoisInv, FlightsInv, now \in Nat,
           \A j \in Flights : FlightTimed(j),
           NEW w \in Lookups, FlightStarts(w)
    PROVE  \A j \in Flights : FlightTimed(j)'
<1> DEFINE q == QueryOf(w)
           i == CacheKey(q)
           c == Started(<<q.kind, q.value>>, Resolved(q), now + FetchTimeout)
<1>1. now' = now /\ whois' = whois
  BY DEF FlightStarts, whoisVars
<1>2. CASE call' = call /\ flight' = flight
  BY <1>1, <1>2, TimedStays
<1>3. CASE Lead(w, i) /\ cached[i] = Absent
  <2> DEFINE f == [due |-> now + FetchTimeout, query |-> q]
  <2>1. /\ flight' = [flight EXCEPT ![i] = f]
        /\ call[i] = NoCall /\ call' = [call EXCEPT ![i] = c]
    BY <1>3 DEF Lead, Query, Started
  <2>2. f.due = now + FetchTimeout /\ f # NoFlight
    <3>1. f.due # NoFlight.due
      BY PipelineAssumption DEF NoFlight
    <3> QED
      BY <3>1
  <2>3. c.at = "over" \/ (c.at = "attempt" /\ c.since = now /\ c.deadline = now + FetchTimeout)
    BY DEF Started, Over
  <2> HIDE DEF c, f
  <2> SUFFICES ASSUME NEW j \in Flights
               PROVE  FlightTimed(j)'
    OBVIOUS
  <2>4. CASE j # i
    <3>1. flight'[j] = flight[j] /\ call'[j] = call[j]
      BY <2>1, <2>4 DEF FlightsInv, CallsInv
    <3> QED
      BY <1>1, <3>1, TimedStays
  <2>5. CASE j = i
    <3>1. flight'[j] = f /\ call'[j] = c /\ whois'[j] = NoCall
      BY <1>1, <2>1, <2>5 DEF FlightsInv, FlightOwn, CallsInv, NoCall
    <3> HIDE DEF i
    <3>2. Begun(j)' = now /\ f.due \in Int
      BY <2>2, <3>1, PipelineAssumption DEF Begun
    <3>3. c # NoCall
      BY <2>3 DEF NoCall
    <3>4. CallTimed(call[j], flight[j].due)'
      BY <1>1, <2>2, <2>3, <3>1, PipelineAssumption DEF CallTimed
    <3>5. WhoisTimed(whois[j], Begun(j))'
      BY <3>1 DEF WhoisTimed, NoCall
    <3>6. now <= now + FetchBound
      BY BoundHolds
    <3> QED
      BY <1>1, <2>2, <3>1, <3>2, <3>3, <3>4, <3>5, <3>6 DEF FlightTimed
  <2> QED
    BY <2>4, <2>5
<1> QED
  BY <1>2, <1>3 DEF FlightStarts, Lead, Join

\* Helper: a flight that ends leaves nothing to time.
LEMMA EndTimed ==
    ASSUME CallsInv, WhoisInv, FlightsInv, \A j \in Flights : FlightTimed(j),
           NEW k \in Flights, FlightEnds(k)
    PROVE  \A j \in Flights : FlightTimed(j)'
<1>1. /\ flight' = [flight EXCEPT ![k] = NoFlight]
      /\ call' = [call EXCEPT ![k] = NoCall]
      /\ whois' = [whois EXCEPT ![k] = NoCall] /\ now' = now
  BY DEF FlightEnds
<1> SUFFICES ASSUME NEW j \in Flights
             PROVE  FlightTimed(j)'
  OBVIOUS
<1>2. CASE j # k
  <2>1. flight'[j] = flight[j] /\ call'[j] = call[j] /\ whois'[j] = whois[j]
    BY <1>1, <1>2 DEF FlightsInv, CallsInv, WhoisInv
  <2> QED
    BY <1>1, <2>1, TimedStays
<1>3. CASE j = k
  <2>1. flight'[j] = NoFlight /\ call'[j] = NoCall
    BY <1>1, <1>3 DEF FlightsInv, CallsInv
  <2> QED
    BY <2>1 DEF FlightTimed
<1> QED
  BY <1>2, <1>3

\* Helper: a step at which time stands still, no flight ends, and a lookup of the batch at
\* most ends or goes on in time.
LEMMA LookupsStay ==
    ASSUME FlightsInv, [Next]_vars, \A v \in Batch : LookupTimed(v), now' = now,
           \A k \in Flights : flight[k] # NoFlight => flight'[k] = flight[k],
           Settled,
           \A v \in Batch :
               \/ place'[v] = place[v]
               \/ place'[v] = "done"
               \/ place'[v] = "missed" /\ now < BatchTimeout
               \/ LookupTimed(v)'
    PROVE  \A v \in Batch : LookupTimed(v)'
<1> SUFFICES ASSUME NEW v \in Batch
             PROVE  LookupTimed(v)'
  BY QueriesStay DEF Batch
<1> DEFINE k == CacheKey(QueryOf(v))
<1>1. k \in Flights
  BY LookupsHaveKeys DEF Settled, Lookups
<1>2. CacheKey(QueryOf(v))' = k
  BY QueriesStay DEF CacheKey, QueryOf
<1>3. LookupTimed(v)
  OBVIOUS
<1>4. CASE place'[v] = place[v]
  BY <1>1, <1>2, <1>3, <1>4 DEF LookupTimed, Begun
<1>5. CASE place'[v] = "done"
  BY <1>5 DEF LookupTimed
<1>6. CASE place'[v] = "missed" /\ now < BatchTimeout
  BY <1>6 DEF LookupTimed
<1> QED
  BY <1>4, <1>5, <1>6

\* Helper: a lookup starts or joins a flight at once.
LEMMA StartInTime ==
    ASSUME Settled, FlightsInv, [Next]_vars, now \in Nat, \A k \in Flights : FlightTimed(k),
           \A v \in Batch : LookupTimed(v), NEW w \in Lookups, FlightStarts(w)
    PROVE  \A v \in Batch : LookupTimed(v)'
<1> DEFINE k == CacheKey(QueryOf(w))
<1>1. k \in Flights /\ now' = now /\ place[w] = "missed"
  BY LookupsHaveKeys DEF Settled, FlightStarts
<1>2. \A j \in Flights : flight[j] # NoFlight => flight'[j] = flight[j]
  BY <1>1 DEF FlightStarts, Lead, Join, FlightsInv
<1>3. \A v \in Batch : v # w => place'[v] = place[v]
  BY DEF FlightStarts, Lead, Join, FlightsInv, Lookups
<1>4. ASSUME w \in Batch
      PROVE  place'[w] = "done" \/ LookupTimed(w)'
  <2>1. now < BatchTimeout
    BY <1>1, <1>4 DEF LookupTimed
  <2>2. CASE Join(w, k)
    <3>1. flight[k] # NoFlight /\ flight'[k] = flight[k] /\ place'[w] = "wait"
      BY <1>2, <2>2 DEF Join, FlightsInv
    <3>2. Begun(k) \in Nat /\ Begun(k) <= now
      BY <1>1, <3>1 DEF FlightTimed
    <3>3. Begun(k) < BatchTimeout
      BY <2>1, <3>2, PipelineAssumption
    <3>4. CacheKey(QueryOf(w))' = k
      BY QueriesStay DEF CacheKey, QueryOf
    <3>5. flight'[k].due - FetchTimeout < BatchTimeout /\ flight'[k] # NoFlight
      BY <3>1, <3>3 DEF Begun
    <3> HIDE DEF k
    <3> QED
      BY <3>1, <3>4, <3>5 DEF LookupTimed, Begun
  <2>3. CASE Lead(w, k) /\ cached[k] # Absent
    BY <2>3 DEF Lead, FlightsInv
  <2>4. CASE Lead(w, k) /\ cached[k] = Absent
    <3> DEFINE f == [due |-> now + FetchTimeout, query |-> QueryOf(w)]
    <3>1. flight'[k] = f /\ place'[w] = "wait"
      BY <1>1, <2>4 DEF Lead, FlightsInv
    <3>2. f.due = now + FetchTimeout /\ f # NoFlight
      <4>1. f.due # NoFlight.due
        BY PipelineAssumption DEF NoFlight
      <4> QED
        BY <4>1
    <3> HIDE DEF f
    <3>3. flight'[k].due - FetchTimeout < BatchTimeout /\ flight'[k] # NoFlight
      BY <2>1, <3>1, <3>2, PipelineAssumption
    <3>4. CacheKey(QueryOf(w))' = k
      BY QueriesStay DEF CacheKey, QueryOf
    <3> HIDE DEF k
    <3> QED
      BY <3>1, <3>3, <3>4 DEF LookupTimed, Begun
  <2> QED
    BY <2>2, <2>3, <2>4 DEF FlightStarts
<1> QED
  BY <1>1, <1>2, <1>3, <1>4, LookupsStay

\* Helper: whoever waits for a flight that ends is done.
LEMMA EndInTime ==
    ASSUME Settled, FlightsInv, [Next]_vars, \A v \in Batch : LookupTimed(v),
           NEW k \in Flights, FlightEnds(k)
    PROVE  \A v \in Batch : LookupTimed(v)'
<1>1. /\ place' = [w \in Lookups |-> IF w \in Waiting(k) THEN "done" ELSE place[w]]
      /\ flight' = [flight EXCEPT ![k] = NoFlight] /\ now' = now
  BY DEF FlightEnds
<1> SUFFICES ASSUME NEW v \in Batch
             PROVE  LookupTimed(v)'
  BY QueriesStay DEF Batch
<1> DEFINE i == CacheKey(QueryOf(v))
<1>2. v \in Lookups /\ LookupTimed(v)
  BY DEF Lookups
<1>3. CASE v \in Waiting(k)
  <2>1. place'[v] = "done"
    BY <1>1, <1>2, <1>3
  <2> QED
    BY <2>1 DEF LookupTimed
<1>4. CASE v \notin Waiting(k)
  <2>1. place'[v] = place[v] /\ (place[v] = "wait" => i # k)
    BY <1>1, <1>2, <1>4 DEF Waiting
  <2>2. i # k => flight'[i] = flight[i]
    BY <1>1, <1>2, LookupsHaveKeys DEF Settled, FlightsInv
  <2>3. CacheKey(QueryOf(v))' = i
    BY QueriesStay DEF CacheKey, QueryOf
  <2> QED
    BY <1>1, <1>2, <2>1, <2>2, <2>3 DEF LookupTimed, Begun
<1> QED
  BY <1>3, <1>4

\* Helper: time goes on only while no lookup of the batch has anything to do.
LEMMA TickInTime ==
    ASSUME Settled, CallsInv, WhoisInv, FlightsInv, [Next]_vars, now \in Nat,
           \A k \in Flights : FlightTimed(k), \A v \in Batch : LookupTimed(v), Tick
    PROVE  /\ \A v \in Batch : LookupTimed(v)'
           /\ answered' = NoAnswerYet => now' < BatchTimeout + FetchBound
<1>1. /\ now' = now + 1 /\ place' = place /\ flight' = flight /\ answered' = answered
      /\ \A w \in Batch : place[w] # "missed" /\ (place[w] = "queued" => now < BatchTimeout)
      /\ AllDone => answered # NoAnswerYet
  BY DEF Tick, Idle, Lookups
<1>2. \A v \in Batch : CacheKey(QueryOf(v))' = CacheKey(QueryOf(v))
  BY QueriesStay DEF CacheKey, QueryOf
<1>3. ASSUME NEW v \in Batch
      PROVE  LookupTimed(v)'
  <2>1. LookupTimed(v)
    OBVIOUS
  <2> QED
    BY <1>1, <1>2, <1>3, <2>1, PipelineAssumption DEF LookupTimed, Begun
<1>4. ASSUME answered = NoAnswerYet
      PROVE  now + 1 < BatchTimeout + FetchBound
  <2>1. PICK v \in Batch : place[v] # "done"
    BY <1>1, <1>4 DEF AllDone
  <2>2. LookupTimed(v)
    OBVIOUS
  <2>3. CASE place[v] = "queued"
    BY <1>1, <2>3, BoundHolds, PipelineAssumption
  <2>4. CASE place[v] = "wait"
    <3> DEFINE k == CacheKey(QueryOf(v))
    <3>1. k \in Flights /\ flight[k] # NoFlight /\ Begun(k) < BatchTimeout
      BY <2>2, <2>4, LookupsHaveKeys DEF Settled, Lookups, LookupTimed
    <3> HIDE DEF k
    <3>2. PICK j \in Flights : j = k
      BY <3>1
    <3>3. FlightTimed(j) /\ FlightTimed(j)'
      BY TickTimed
    <3>4. call'[j] # NoCall /\ flight'[j] = flight[j]
      BY <1>1, <3>1, <3>2, <3>3 DEF FlightTimed
    <3>5. Begun(j)' = Begun(j) /\ now' <= Begun(j)' + FetchBound
      BY <3>3, <3>4 DEF FlightTimed, Begun
    <3>6. Begun(j) \in Nat
      BY <3>1, <3>2, <3>3 DEF FlightTimed
    <3> QED
      BY <1>1, <3>1, <3>2, <3>5, <3>6, BoundHolds, PipelineAssumption
  <2> QED
    BY <1>1, <2>1, <2>2, <2>3, <2>4 DEF LookupTimed
<1> QED
  BY <1>1, <1>3, <1>4, QueriesStay DEF Batch

\* Helper: whatever happens, flights and lookups keep to their times.
LEMMA TimesHold == Spec => []TimeInv
<1>1. Init => TimeInv
  <2> SUFFICES ASSUME Init
               PROVE  TimeInv
    OBVIOUS
  <2>1. now = 0 /\ answered = NoAnswerYet
    BY DEF Init
  <2>2. \A k \in Flights : FlightTimed(k)
    BY DEF Init, FlightTimed
  <2>3. \A w \in Batch : LookupTimed(w)
    <3>1. \A w \in Batch : place[w] = "queued"
      BY DEF Init, Lookups
    <3> QED
      BY <2>1, <3>1, PipelineAssumption DEF LookupTimed
  <2> QED
    BY <2>1, <2>2, <2>3 DEF TimeInv
<1>2. /\ Settled /\ CallsInv /\ WhoisInv /\ FlightsInv /\ TimeInv /\ [Next]_vars
      => TimeInv'
  <2> SUFFICES ASSUME Settled, CallsInv, WhoisInv, FlightsInv, TimeInv, [Next]_vars
               PROVE  TimeInv'
    OBVIOUS
  <2>1. /\ now \in Nat /\ \A k \in Flights : FlightTimed(k)
        /\ \A w \in Batch : LookupTimed(w)
    BY DEF TimeInv
  <2>2. ASSUME now' = now, answered' = answered, \A k \in Flights : FlightTimed(k)',
               \A w \in Batch : LookupTimed(w)'
        PROVE  TimeInv'
    BY <2>2, QueriesStay DEF TimeInv, Batch
  <2>3. ASSUME now' = now, flight' = flight, call' = call, whois' = whois
        PROVE  \A k \in Flights : FlightTimed(k)'
    BY <2>1, <2>3, TimedStays
  <2>4. CASE LookupSingle \/ \E w \in Lookups : ProcessBatchQuery(w) \/ GiveUp(w)
    <3>1. /\ now' = now /\ flight' = flight /\ call' = call /\ whois' = whois
          /\ answered' = answered
      BY <2>4 DEF whoisVars, LookupSingle, LookupDomain, LookupIP, LookupASN, LookupEntity,
                  Begin, ProcessBatchQuery, GiveUp
    <3>2. \A v \in Batch : \/ place'[v] = place[v]
                           \/ place'[v] = "done"
                           \/ place'[v] = "missed" /\ now < BatchTimeout
      <4>1. CASE LookupSingle
        <5>1. \E p : place' = [place EXCEPT ![0] = p]
          BY <4>1 DEF LookupSingle, LookupDomain, LookupIP, LookupASN, LookupEntity, Begin
        <5>2. \A v \in Batch : v # 0
          BY DEF Batch
        <5> QED
          BY <5>1, <5>2 DEF FlightsInv
      <4>2. ASSUME NEW w \in Lookups, ProcessBatchQuery(w), NEW v \in Batch
            PROVE  \/ place'[v] = place[v]
                   \/ place'[v] = "done"
                   \/ place'[v] = "missed" /\ now < BatchTimeout
        <5>1. \E p \in {"missed", "done"} : place' = [place EXCEPT ![w] = p]
          BY <4>2 DEF ProcessBatchQuery, Begin
        <5>2. now < BatchTimeout
          BY <4>2 DEF ProcessBatchQuery
        <5> QED
          BY <4>2, <5>1, <5>2 DEF FlightsInv
      <4>3. ASSUME NEW w \in Lookups, GiveUp(w), NEW v \in Batch
            PROVE  place'[v] = place[v] \/ place'[v] = "done"
        BY <4>3 DEF GiveUp, FlightsInv
      <4> QED
        BY <2>4, <4>1, <4>2, <4>3
    <3>3. \A v \in Batch : LookupTimed(v)'
      BY <2>1, <3>1, <3>2, LookupsStay
    <3> QED
      BY <2>2, <2>3, <3>1, <3>3
  <2>5. ASSUME NEW w \in Lookups, FlightStarts(w)
        PROVE  TimeInv'
    <3>1. now' = now /\ answered' = answered
      BY <2>5 DEF FlightStarts
    <3> QED
      BY <2>1, <2>2, <2>5, <3>1, StartTimed, StartInTime
  <2>6. ASSUME NEW k \in Flights, RdapStep(k) \/ WhoisStep(k) \/ FetchDomainViaWHOIS(k)
        PROVE  TimeInv'
    <3>1. now' = now /\ answered' = answered /\ place' = place /\ flight' = flight
      BY <2>6 DEF RdapStep, WhoisStep, FetchDomainViaWHOIS
    <3>2. \A v \in Batch : LookupTimed(v)'
      BY <2>1, <3>1, LookupsStay
    <3>3. \A j \in Flights : FlightTimed(j)'
      BY <2>1, <2>6, RdapTimed, WhoisKeepsTime
    <3> QED
      BY <2>2, <3>1, <3>2, <3>3
  <2>7. ASSUME NEW k \in Flights, FlightEnds(k)
        PROVE  TimeInv'
    <3>1. now' = now /\ answered' = answered
      BY <2>7 DEF FlightEnds
    <3> QED
      BY <2>1, <2>2, <2>7, <3>1, EndTimed, EndInTime
  <2>8. CASE Respond \/ CloseHandler \/ UNCHANGED vars
    <3>1. /\ now' = now /\ flight' = flight /\ call' = call /\ whois' = whois /\ place' = place
          /\ answered' = answered \/ (answered = NoAnswerYet /\ answered' = now)
      BY <2>8 DEF vars, whoisVars, Respond, CloseHandler, Close
    <3>2. \A v \in Batch : LookupTimed(v)'
      BY <2>1, <3>1, LookupsStay
    <3>3. \A k \in Flights : FlightTimed(k)'
      BY <2>3, <3>1
    <3>4. CASE answered' = answered
      BY <2>2, <3>1, <3>2, <3>3, <3>4
    <3>5. CASE answered = NoAnswerYet /\ answered' = now
      <4>1. now < BatchTimeout + FetchBound \/ now = 0
        BY <3>5 DEF TimeInv
      <4>2. answered' # NoAnswerYet
        BY <2>1, <3>5 DEF NoAnswerYet
      <4> QED
        BY <2>1, <3>1, <3>2, <3>3, <3>5, <4>1, <4>2, QueriesStay DEF TimeInv, Batch
    <3> QED
      BY <3>1, <3>4, <3>5
  <2>9. CASE Tick
    <3>1. now' \in Nat /\ answered' = answered
      BY <2>1, <2>9 DEF Tick
    <3>2. \A k \in Flights : FlightTimed(k)'
      BY <2>1, <2>9, TickTimed
    <3>3. /\ \A v \in Batch : LookupTimed(v)'
          /\ answered' = NoAnswerYet => now' < BatchTimeout + FetchBound
      BY <2>1, <2>9, TickInTime
    <3> QED
      BY <3>1, <3>2, <3>3, QueriesStay DEF TimeInv, Batch
  <2> QED
    BY <2>4, <2>5, <2>6, <2>7, <2>8, <2>9 DEF Next
<1> QED
  BY <1>1, <1>2, CallsHold, WhoisHolds, FlightsHold, PTL DEF Spec

\* A batch, however many queries it has and however they share slots, flights, servers and
\* the two timeouts of a discovery, is answered within its own timeout and the time of one
\* fetch that began before it ran out (LookupBatch and processBatchQuery of lookup.go).
THEOREM BatchesAreBounded == Spec => []BatchBounded
<1>1. TimeInv => BatchBounded
  BY DEF TimeInv, BatchBounded, FetchBound
<1> QED
  BY <1>1, TimesHold, PTL

-----------------------------------------------------------------------------
(* What everything looks like *)

\* Helper: the first of some words is one of them.
LEMMA FirstOfSome ==
    ASSUME NEW order, NEW err, Len(order) \in Nat
    PROVE  FirstOf(order, err) \in {order[i] : i \in 1..Len(order)} \union {"Failed"}
<1> DEFINE found == {i \in 1..Len(order) : order[i] \in err}
<1>1. CASE found = {}
  BY <1>1, FirstOfNone
<1>2. CASE found # {}
  <2>1. found \subseteq Nat
    OBVIOUS
  <2>2. PICK m \in found : \A i \in found : <<i, m>> \notin OpToRel(<, Nat)
    BY <1>2, <2>1, NatLessThanWellFounded, WFMin, Zenon
  <2>3. \A i \in found : <<i, m>> \in Nat \X Nat
    BY <2>1
  <2>4. \A i \in found : ~(i < m)
    BY <2>2, <2>3, Zenon DEF OpToRel
  <2>5. \A i \in found : m <= i
    BY <2>1, <2>4
  <2>6. Min(found) \in found
    BY <2>5 DEF Min
  <2>7. SelectInSeq(order, LAMBDA e : e \in err) = Min(found)
    BY <1>2 DEF SelectInSeq
  <2>8. FirstOf(order, err) = order[Min(found)]
    BY <2>6, <2>7 DEF FirstOf
  <2> QED
    BY <2>6, <2>8
<1> QED
  BY <1>1, <1>2

\* Helper: what a client may read of an error.
LEMMA ErrorsHaveWords ==
    ASSUME NEW w, NEW err
    PROVE  WordOf(w, err) \in SingleWords \union {"Failed"}
<1>1. HandleError(err) \in SingleWords \union {"Failed"}
  <2> DEFINE order == <<"NotFound", "RateLimited", "InvalidInput", "NoServer", "Deadline",
                        "ServerError">>
  <2>1. Len(order) = 6 /\ \A i \in 1..6 : order[i] \in SingleWords
    BY DEF SingleWords
  <2>2. HandleError(err) = FirstOf(order, err)
    BY DEF HandleError
  <2> HIDE DEF order
  <2> QED
    BY <2>1, <2>2, FirstOfSome
<1>2. SanitizeBatchError(err) \in SingleWords \union {"Failed"}
  <2> DEFINE order == <<"NotFound", "RateLimited", "NoServer", "InvalidInput", "Deadline">>
  <2>1. Len(order) = 5 /\ \A i \in 1..5 : order[i] \in SingleWords
    BY DEF SingleWords
  <2>2. SanitizeBatchError(err) = FirstOf(order, err)
    BY DEF SanitizeBatchError
  <2> HIDE DEF order
  <2> QED
    BY <2>1, <2>2, FirstOfSome
<1> QED
  BY <1>1, <1>2 DEF WordOf

\* A query that is not refused: of a kind, and with a server if it is for an entity.
Looked(q) == q.kind \in Kinds /\ (q.kind = "entity" => q.server # Malformed)

\* A lookup is done when it has come to something, and only then has it data, if it has.
Typed(p, r) ==
    /\ p \in {"queued", "missed", "wait", "done"}
    /\ r.said \in Words /\ r.hit \in BOOLEAN /\ r.data \in Data \union {NoData}
    /\ p = "done" <=> r.said # "pending"
    /\ r.said = "data" <=> r.data # NoData

\* A denial, or data.
Entries == {Absent, [negative |-> TRUE, data |-> NoData]} \union [negative: {FALSE}, data: Data]

\* Inductive: what TypeOK says of the lookups, the cache and the clock; lookups that were
\* not refused, and the leaders of the flights, may be looked up.
TypedInv ==
    /\ now \in 0..MaxTime /\ answered \in {NoAnswerYet} \union 0..MaxTime /\ closed \in BOOLEAN
    /\ place = [w \in Lookups |-> place[w]]
    /\ result = [w \in Lookups |-> result[w]]
    /\ \A w \in Lookups :
           /\ Typed(place[w], result[w])
           /\ place[w] \in {"missed", "wait"} => Looked(QueryOf(w))
    /\ cached = [k \in Flights |-> cached[k]]
    /\ \A k \in Flights :
           /\ cached[k] \in Entries
           /\ call[k] # NoCall => Looked(flight[k].query)

\* Helper: no data is not data.
LEMMA NoDataIsNone == NoData \notin Data
<1> SUFFICES ASSUME NoData \in Data
             PROVE  FALSE
  OBVIOUS
<1>1. "text" \in DOMAIN NoData
  BY DEF Data
<1> QED
  BY <1>1 DEF NoData

\* Helper: what a lookup comes to.
LEMMA ResultTyped ==
    ASSUME NEW w, NEW outcome, NEW hit \in BOOLEAN, outcome.err = {} => outcome.data \in Data
    PROVE  Typed("done", Result(w, outcome, hit))
<1> DEFINE r == Result(w, outcome, hit)
<1>1. CASE outcome.err = {}
  <2>1. r.said = "data" /\ r.data = outcome.data /\ r.hit = hit
    BY <1>1 DEF Result
  <2> HIDE DEF r
  <2>2. Typed("done", r)
    BY <1>1, <2>1, NoDataIsNone DEF Typed, Words
  <2> QED
    BY <2>2 DEF r
<1>2. CASE outcome.err # {}
  <2>1. r.said = WordOf(w, outcome.err) /\ r.data = NoData /\ r.hit = FALSE
    BY <1>2 DEF Result, WordOf
  <2>2. WordOf(w, outcome.err) \in SingleWords \union {"Failed"}
    BY ErrorsHaveWords
  <2> HIDE DEF r
  <2>3. Typed("done", r)
    BY <2>1, <2>2 DEF Typed, Words, SingleWords
  <2> QED
    BY <2>3 DEF r
<1> QED
  BY <1>1, <1>2

\* Helper: a refusal, and what is found in the cache.
LEMMA EarlyTyped ==
    /\ \A word \in Refusals \union {"BatchTimeout"} : Typed("done", Refusal(word))
    /\ \A k : cached[k] \in Entries /\ cached[k] # Absent =>
           \A w : \A hit \in BOOLEAN : Typed("done", Found(w, k, hit))
<1>1. ASSUME NEW word \in Refusals \union {"BatchTimeout"}
      PROVE  Typed("done", Refusal(word))
  <2> DEFINE r == Refusal(word)
  <2>1. r.said = word /\ r.data = NoData /\ r.hit = FALSE
    BY DEF Refusal, Pending
  <2> HIDE DEF r
  <2>2. Typed("done", r)
    BY <2>1 DEF Typed, Words, Refusals
  <2> QED
    BY <2>2 DEF r
<1>2. ASSUME NEW k, cached[k] \in Entries, cached[k] # Absent, NEW w, NEW hit \in BOOLEAN
      PROVE  Typed("done", Found(w, k, hit))
  <2>1. CASE cached[k].negative
    <3>1. Found(w, k, hit) = Result(w, Denied, hit)
      BY <2>1 DEF Found
    <3>2. Denied.err # {}
      BY DEF Denied
    <3> QED
      BY <3>1, <3>2, ResultTyped
  <2>2. CASE ~cached[k].negative
    <3> DEFINE o == [err |-> {}, data |-> cached[k].data]
    <3>1. cached[k] # [negative |-> TRUE, data |-> NoData]
      BY <2>2
    <3>2. cached[k] \in [negative: {FALSE}, data: Data]
      BY <1>2, <3>1, Zenon DEF Entries
    <3>3. Found(w, k, hit) = Result(w, o, hit)
      BY <2>2 DEF Found
    <3>4. o.data \in Data
      BY <3>2
    <3> HIDE DEF o
    <3> QED
      BY <3>3, <3>4, ResultTyped
  <2> QED
    BY <2>1, <2>2
<1> QED
  BY <1>1, <1>2

\* Helper: a fetch for a query that may be looked up brings data.
LEMMA FetchedTyped ==
    ASSUME Settled, CallsInv, WhoisInv, FlightsInv, NEW k \in Flights,
           call[k].at = "over", FallsBack(k) => whois[k].at = "over", Fetched(k).err = {},
           Looked(flight[k].query)
    PROVE  Fetched(k).data \in Data
<1> DEFINE q == flight[k].query
           data == Fetched(k).data
<1>1. call[k] # NoCall
  BY DEF NoCall
<1>2. q \in Asked /\ CacheKey(q) = k /\ AsksFor(q, call[k])
  BY <1>1 DEF FlightsInv, FlightOwn
<1>3. <<q.kind, q.value>> = <<k[1], k[2]>>
  BY <1>2 DEF CacheKey
<1>4. CASE FallsBack(k)
  <2>1. data = [of |-> <<q.kind, q.value>>, by |-> whois[k].by, text |-> whois[k].text,
                rdapServer |-> ""]
    BY <1>4 DEF Fetched
  <2>2. whois[k] # NoCall /\ whois[k].at = "over" /\ whois[k].err = {}
    BY <1>4 DEF NoCall, Fetched
  <2>3. whois[k].text \in {"record", "free"} /\ whois[k].by = WhoisServer[Last(q.value)]
    BY <2>2 DEF WhoisInv, IsWhois, WhoisErrors, FlightsInv, FlightOwn, WhoisFor
  <2>4. Last(q.value) \in TLDs
    BY <1>4, FallbackHasTLD
  <2>5. whois[k].by \in Range(WhoisServer)
    BY <2>3, <2>4 DEF Range, TLDs
  <2> HIDE DEF q, data
  <2>6. data \in Data
    BY <1>3, <2>1, <2>3, <2>5 DEF Data
  <2> QED
    BY <2>6 DEF data
<1>5. CASE ~FallsBack(k)
  <2> DEFINE urls == Resolved(q).urls
  <2>1. data = [of |-> call[k].answer.of, by |-> call[k].answer.by, text |-> "rdap",
                rdapServer |-> Head(urls)] /\ call[k].err = {}
    BY <1>5 DEF Fetched
  <2>2. call[k].answer.of = <<q.kind, q.value>> /\ call[k].answer.by \in ToSet(urls)
    BY <1>2, <2>1 DEF AsksFor
  <2>3. q.kind \in {"domain", "ip", "asn"} \/ q.server # Malformed
    BY DEF Looked, Kinds
  <2>4. urls \in Seq(URLs)
    <3>1. PICK w \in Lookups : q = QueryOf(w)
      BY <1>2 DEF Asked
    <3> QED
      BY <2>3, <3>1, LookupsResolve DEF Settled
  <2> HIDE DEF urls, data, q
  <2>5. urls # <<>> /\ Head(urls) \in URLs /\ call[k].answer.by \in URLs
    BY <2>2, <2>4 DEF ToSet
  <2>6. data \in Data
    BY <1>3, <2>1, <2>2, <2>5 DEF Data, URLs
  <2> QED
    BY <2>6 DEF data
<1> QED
  BY <1>4, <1>5

\* One lookup goes on, or comes to something.
OneMove ==
    \E w \in Lookups : \E p, r :
        /\ place' = [place EXCEPT ![w] = p] /\ result' = [result EXCEPT ![w] = r]
        /\ Typed(p, r) /\ (p \in {"missed", "wait"} => Looked(QueryOf(w)))

\* Helper: the start of a lookup.
LEMMA BeginMoves ==
    ASSUME TypedInv, Settled, NEW w \in Lookups, NEW refusal \in Refusals \union {"no"},
           Begin(w, refusal), refusal = "no" => Looked(QueryOf(w))
    PROVE  OneMove
<1> DEFINE k == CacheKey(QueryOf(w))
           hit == CASE refusal # "no" -> Refusal(refusal)
                    [] refusal = "no" /\ cached[k].negative -> Result(w, Denied, TRUE)
                    [] refusal = "no" /\ ~cached[k].negative /\ cached[k] # Absent ->
                           Result(w, [err |-> {}, data |-> cached[k].data], TRUE)
                    [] OTHER -> Pending
           p == IF hit = Pending THEN "missed" ELSE "done"
<1>1. place' = [place EXCEPT ![w] = p] /\ result' = [result EXCEPT ![w] = hit]
  BY DEF Begin
<1>2. k \in Flights
  BY LookupsHaveKeys DEF Settled
<1>3. cached[k] \in Entries
  BY <1>2 DEF TypedInv
<1>4. Typed("missed", Pending) /\ ~Typed("done", Pending)
  BY DEF Typed, Pending, Words
<1>5. Typed(p, hit) /\ (p = "missed" => refusal = "no")
  <2>1. CASE refusal # "no"
    <3>1. hit = Refusal(refusal) /\ Typed("done", Refusal(refusal))
      BY <2>1, EarlyTyped
    <3> HIDE DEF hit
    <3> QED
      BY <1>4, <3>1
  <2>2. CASE refusal = "no" /\ cached[k].negative
    <3>1. cached[k] # Absent
      BY <2>2 DEF Absent
    <3>2. hit = Found(w, k, TRUE)
      BY <2>2 DEF Found
    <3>3. Typed("done", Found(w, k, TRUE))
      BY <1>3, <3>1, EarlyTyped
    <3> HIDE DEF hit
    <3> QED
      BY <1>4, <3>2, <3>3
  <2>3. CASE refusal = "no" /\ ~cached[k].negative /\ cached[k] # Absent
    <3>1. hit = Found(w, k, TRUE)
      BY <2>3 DEF Found
    <3>2. Typed("done", Found(w, k, TRUE))
      BY <1>3, <2>3, EarlyTyped
    <3> HIDE DEF hit
    <3> QED
      BY <1>4, <3>1, <3>2
  <2>4. CASE refusal = "no" /\ ~cached[k].negative /\ cached[k] = Absent
    <3>1. hit = Pending
      BY <2>4
    <3> HIDE DEF hit
    <3> QED
      BY <1>4, <2>4, <3>1
  <2> QED
    BY <2>1, <2>2, <2>3, <2>4
<1> HIDE DEF hit
<1>6. p \in {"missed", "wait"} => Looked(QueryOf(w))
  BY <1>5
<1> HIDE DEF p
<1> QED
  BY <1>1, <1>5, <1>6 DEF OneMove

\* Helper: whatever happens but the end of a flight.
LEMMA OthersMove ==
    ASSUME Settled, FlightsInv, TypedInv, [Next]_vars, \A k \in Flights : ~FlightEnds(k)
    PROVE  /\ cached' = cached
           /\ OneMove \/ (place' = place /\ result' = result)
<1>1. CASE LookupSingle
  <2>1. 0 \in Lookups /\ QueryOf(0) = mix.single
    BY DEF Lookups, QueryOf
  <2>2. mix.single.kind \in Kinds /\ Begin(0, Invalid(mix.single))
    BY <1>1 DEF LookupSingle, LookupDomain, LookupIP, LookupASN, LookupEntity, Kinds
  <2>3. /\ Invalid(mix.single) \in Refusals \union {"no"}
        /\ Invalid(mix.single) = "no" => Looked(mix.single)
    BY <2>2 DEF Invalid, RefusedEntity, Refusals, Looked
  <2>4. OneMove
    BY <2>1, <2>2, <2>3, BeginMoves
  <2> QED
    BY <2>2, <2>4 DEF Begin
<1>2. ASSUME NEW w \in Lookups, ProcessBatchQuery(w)
      PROVE  cached' = cached /\ OneMove
  <2>1. /\ Refused(QueryOf(w)) \in Refusals \union {"no"}
        /\ Refused(QueryOf(w)) = "no" => Looked(QueryOf(w))
    BY DEF Refused, RefusedEntity, Refusals, Kinds, Looked
  <2>2. Begin(w, Refused(QueryOf(w)))
    BY <1>2 DEF ProcessBatchQuery
  <2>3. OneMove
    BY <2>1, <2>2, BeginMoves
  <2> QED
    BY <2>2, <2>3 DEF Begin
<1>3. ASSUME NEW w \in Lookups, GiveUp(w)
      PROVE  cached' = cached /\ OneMove
  <2>1. Typed("done", Refusal("BatchTimeout"))
    BY EarlyTyped
  <2>2. /\ place' = [place EXCEPT ![w] = "done"] /\ cached' = cached
        /\ result' = [result EXCEPT ![w] = Refusal("BatchTimeout")]
    BY <1>3 DEF GiveUp
  <2>3. \A p, r : /\ place' = [place EXCEPT ![w] = p] /\ result' = [result EXCEPT ![w] = r]
                  /\ Typed(p, r) /\ (p \in {"missed", "wait"} => Looked(QueryOf(w)))
                  => OneMove
    BY DEF OneMove
  <2>4. OneMove
    BY <2>1, <2>2, <2>3
  <2> QED
    BY <2>2, <2>4
<1>4. ASSUME NEW w \in Lookups, FlightStarts(w)
      PROVE  cached' = cached /\ OneMove
  <2> DEFINE k == CacheKey(QueryOf(w))
  <2>1. /\ cached' = cached /\ k \in Flights /\ place[w] = "missed" /\ Looked(QueryOf(w))
        /\ Typed(place[w], result[w])
    BY <1>4, LookupsHaveKeys DEF FlightStarts, TypedInv, Settled
  <2>2. CASE Lead(w, k) /\ cached[k] # Absent
    <3>1. /\ place' = [place EXCEPT ![w] = "done"]
          /\ result' = [result EXCEPT ![w] = Found(w, k, FALSE)]
      BY <2>2 DEF Lead, Found
    <3>2. cached[k] \in Entries
      BY <2>1 DEF TypedInv
    <3>3. Typed("done", Found(w, k, FALSE))
      BY <2>2, <3>2, EarlyTyped
    <3> QED
      BY <2>1, <3>1, <3>3 DEF OneMove
  <2>3. CASE Join(w, k) \/ (Lead(w, k) /\ cached[k] = Absent)
    <3>1. place' = [place EXCEPT ![w] = "wait"] /\ result' = result
      BY <2>3 DEF Join, Lead
    <3>2. result' = [result EXCEPT ![w] = result[w]]
      BY <3>1 DEF TypedInv
    <3>3. Typed("wait", result[w])
      BY <2>1 DEF Typed
    <3> QED
      BY <2>1, <3>1, <3>2, <3>3 DEF OneMove
  <2> QED
    BY <1>4, <2>1, <2>2, <2>3 DEF FlightStarts
<1>5. CASE \/ \E k \in Flights : RdapStep(k) \/ WhoisStep(k) \/ FetchDomainViaWHOIS(k)
           \/ Respond
           \/ CloseHandler
           \/ Tick
           \/ UNCHANGED vars
  BY <1>5 DEF vars, RdapStep, WhoisStep, FetchDomainViaWHOIS, Respond, CloseHandler, Tick
<1> QED
  BY <1>1, <1>2, <1>3, <1>4, <1>5 DEF Next

\* Helper: a flight is led by a lookup that may be looked up.
LEMMA LeadersLooked ==
    ASSUME Settled, CallsInv, FlightsInv, TypedInv, [Next]_vars, NEW k \in Flights,
           call'[k] # NoCall
    PROVE  Looked(flight'[k].query)
<1>1. call[k] # NoCall => Looked(flight[k].query)
  BY DEF TypedInv
<1>2. CASE \/ LookupSingle
           \/ \E w \in Lookups : ProcessBatchQuery(w) \/ GiveUp(w)
           \/ \E j \in Flights : FetchDomainViaWHOIS(j) \/ WhoisStep(j)
           \/ Respond
           \/ CloseHandler
           \/ Tick
           \/ UNCHANGED vars
  <2>1. call' = call /\ flight' = flight
    BY <1>2 DEF vars, LookupSingle, LookupDomain, LookupIP, LookupASN, LookupEntity, Begin,
                ProcessBatchQuery, GiveUp, FetchDomainViaWHOIS, WhoisStep, Respond,
                CloseHandler, Tick
  <2> QED
    BY <1>1, <2>1
<1>3. ASSUME NEW j \in Flights, RdapStep(j)
      PROVE  Looked(flight'[k].query)
  <2>1. flight' = flight /\ call[j].at \in {"attempt", "pause"}
    BY <1>3 DEF RdapStep, Reply, Expire, Resume, Cancel
  <2>2. j # k => call'[k] = call[k]
    BY <1>3 DEF RdapStep, Reply, Expire, Resume, Cancel, Attempted, CallsInv
  <2>3. call[k] # NoCall
    BY <2>1, <2>2 DEF NoCall
  <2> QED
    BY <1>1, <2>1, <2>3
<1>4. ASSUME NEW w \in Lookups, FlightStarts(w)
      PROVE  Looked(flight'[k].query)
  <2> DEFINE q == QueryOf(w)
             i == CacheKey(q)
  <2>1. i \in Flights /\ Looked(q)
    BY <1>4, LookupsHaveKeys DEF Settled, FlightStarts, TypedInv
  <2>2. CASE call' = call /\ flight' = flight
    BY <1>1, <2>2
  <2>3. CASE Lead(w, i) /\ cached[i] = Absent
    <3>1. flight' = [flight EXCEPT ![i] = [due |-> now + FetchTimeout, query |-> q]]
      BY <2>3 DEF Lead
    <3>2. \E c : call' = [call EXCEPT ![i] = c]
      BY <2>3 DEF Lead, Query
    <3> QED
      BY <1>1, <2>1, <3>1, <3>2 DEF FlightsInv, CallsInv
  <2> QED
    BY <1>4, <2>2, <2>3 DEF FlightStarts, Lead, Join
<1>5. ASSUME NEW j \in Flights, FlightEnds(j)
      PROVE  Looked(flight'[k].query)
  <2>1. flight' = [flight EXCEPT ![j] = NoFlight] /\ call' = [call EXCEPT ![j] = NoCall]
    BY <1>5 DEF FlightEnds
  <2> QED
    BY <1>1, <2>1 DEF FlightsInv, CallsInv
<1> QED
  BY <1>2, <1>3, <1>4, <1>5 DEF Next

\* Helper: the clock, the answer and the closed flag.
LEMMA ScalarsTyped ==
    ASSUME TypedInv, [Next]_vars
    PROVE  /\ now' \in 0..MaxTime /\ answered' \in {NoAnswerYet} \union 0..MaxTime
           /\ closed' \in BOOLEAN
<1>1. \/ now' = now
      \/ now' = now + 1 /\ now < MaxTime
  BY DEF Next, vars, LookupSingle, LookupDomain, LookupIP, LookupASN, LookupEntity, Begin,
         ProcessBatchQuery, GiveUp, FlightStarts, RdapStep, FetchDomainViaWHOIS, WhoisStep,
         FlightEnds, Respond, CloseHandler, Tick
<1>2. answered' \in {answered, now}
  BY DEF Next, vars, LookupSingle, LookupDomain, LookupIP, LookupASN, LookupEntity, Begin,
         ProcessBatchQuery, GiveUp, FlightStarts, RdapStep, FetchDomainViaWHOIS, WhoisStep,
         FlightEnds, Respond, CloseHandler, Tick
<1>3. closed' \in {closed, TRUE}
  BY DEF Next, vars, whoisVars, LookupSingle, LookupDomain, LookupIP, LookupASN, LookupEntity,
         Begin, ProcessBatchQuery, GiveUp, FlightStarts, RdapStep, FetchDomainViaWHOIS,
         WhoisQuery, WhoisStep, Connect, Discover, DiscoverFails, QueryServer, Exchange,
         FlightEnds, Respond, CloseHandler, Close, Tick
<1>4. now' \in 0..MaxTime
  BY <1>1, PipelineAssumption DEF TypedInv
<1>5. now \in 0..MaxTime /\ answered \in {NoAnswerYet} \union 0..MaxTime /\ closed \in BOOLEAN
  BY DEF TypedInv
<1> QED
  BY <1>2, <1>3, <1>4, <1>5

\* Helper: everything keeps its shape.
LEMMA ShapesHold == Spec => []TypedInv
<1>1. Init => TypedInv
  <2> SUFFICES ASSUME Init
               PROVE  TypedInv
    OBVIOUS
  <2>1. Typed("queued", Pending)
    BY DEF Typed, Pending, Words
  <2>2. now = 0 /\ answered = NoAnswerYet /\ closed = FALSE
    BY DEF Init
  <2>3. \A w \in Lookups : place[w] = "queued" /\ Typed(place[w], result[w])
    BY <2>1 DEF Init
  <2>4. \A k \in Flights : cached[k] = Absent /\ call[k] = NoCall
    BY DEF Init
  <2>5. /\ place = [w \in Lookups |-> place[w]] /\ result = [w \in Lookups |-> result[w]]
        /\ cached = [k \in Flights |-> cached[k]]
    BY DEF Init
  <2>6. Absent \in Entries
    BY DEF Entries
  <2>7. 0 \in 0..MaxTime
    BY PipelineAssumption
  <2> QED
    BY <2>2, <2>3, <2>4, <2>5, <2>6, <2>7 DEF TypedInv
<1>2. /\ Settled /\ CallsInv /\ WhoisInv /\ FlightsInv /\ TypedInv /\ [Next]_vars
      => TypedInv'
  <2> SUFFICES ASSUME Settled, CallsInv, WhoisInv, FlightsInv, TypedInv, [Next]_vars
               PROVE  TypedInv'
    OBVIOUS
  <2>1. (/\ place' = [w \in Lookups |-> place'[w]] /\ result' = [w \in Lookups |-> result'[w]]
         /\ \A w \in Lookups : /\ Typed(place'[w], result'[w])
                               /\ place'[w] \in {"missed", "wait"} => Looked(QueryOf(w))
         /\ cached' = [k \in Flights |-> cached'[k]]
         /\ \A k \in Flights : cached'[k] \in Entries) => TypedInv'
    <3>1. /\ Lookups' = Lookups /\ \A w : QueryOf(w)' = QueryOf(w)
          /\ \A w : Looked(QueryOf(w))' <=> Looked(QueryOf(w))
          /\ \A w \in Lookups : Typed(place[w], result[w])' <=> Typed(place'[w], result'[w])
      BY QueriesStay DEF Looked, Typed, Data
    <3>2. \A k \in Flights : call'[k] # NoCall => Looked(flight'[k].query)
      BY LeadersLooked
    <3>3. \A k \in Flights : Looked(flight[k].query)' <=> Looked(flight'[k].query)
      BY DEF Looked
    <3> QED
      BY <3>1, <3>2, <3>3, ScalarsTyped DEF TypedInv, Entries, Data
  <2>2. /\ place = [w \in Lookups |-> place[w]] /\ result = [w \in Lookups |-> result[w]]
        /\ cached = [k \in Flights |-> cached[k]]
        /\ \A w \in Lookups : /\ Typed(place[w], result[w])
                              /\ place[w] \in {"missed", "wait"} => Looked(QueryOf(w))
        /\ \A k \in Flights : cached[k] \in Entries
    BY DEF TypedInv
  <2>3. CASE cached' = cached /\ place' = place /\ result' = result
    BY <2>1, <2>2, <2>3
  <2>4. CASE cached' = cached /\ OneMove
    <3>1. PICK w \in Lookups : \E p, r :
              /\ place' = [place EXCEPT ![w] = p] /\ result' = [result EXCEPT ![w] = r]
              /\ Typed(p, r) /\ (p \in {"missed", "wait"} => Looked(QueryOf(w)))
      BY <2>4 DEF OneMove
    <3>2. PICK p, r :
              /\ place' = [place EXCEPT ![w] = p] /\ result' = [result EXCEPT ![w] = r]
              /\ Typed(p, r) /\ (p \in {"missed", "wait"} => Looked(QueryOf(w)))
      BY <3>1
    <3> QED
      BY <2>1, <2>2, <2>4, <3>2
  <2>5. ASSUME NEW k \in Flights, FlightEnds(k)
        PROVE  TypedInv'
    <3> DEFINE o    == Fetched(k)
               kept == IF Denial(o.err) THEN [negative |-> TRUE, data |-> NoData]
                       ELSE IF o.err = {} THEN [negative |-> FALSE, data |-> o.data]
                       ELSE cached[k]
    <3>1. /\ place' = [w \in Lookups |-> IF w \in Waiting(k) THEN "done" ELSE place[w]]
          /\ result' = [w \in Lookups |->
                 IF w \in Waiting(k) THEN Result(w, o, FALSE) ELSE result[w]]
          /\ cached' = [cached EXCEPT ![k] = kept]
      BY <2>5 DEF FlightEnds
    <3>2. o.err = {} => o.data \in Data
      <4>1. call[k].at = "over" /\ (FallsBack(k) => whois[k].at = "over")
        BY <2>5 DEF FlightEnds
      <4>2. Looked(flight[k].query)
        BY <4>1 DEF TypedInv, NoCall
      <4> QED
        BY <4>1, <4>2, FetchedTyped
    <3> HIDE DEF o
    <3>3. \A w \in Lookups : Typed("done", Result(w, o, FALSE))
      BY <3>2, ResultTyped
    <3>4. kept \in Entries
      <4>1. CASE Denial(o.err)
        BY <4>1 DEF Entries
      <4>2. CASE ~Denial(o.err) /\ o.err = {}
        BY <3>2, <4>2 DEF Entries
      <4>3. CASE ~Denial(o.err) /\ o.err # {}
        <5>1. kept = cached[k]
          BY <4>3
        <5> HIDE DEF kept
        <5> QED
          BY <2>2, <5>1
      <4> QED
        BY <4>1, <4>2, <4>3
    <3> HIDE DEF kept
    <3>5. \A w \in Lookups : /\ Typed(place'[w], result'[w])
                             /\ place'[w] \in {"missed", "wait"} => Looked(QueryOf(w))
      BY <2>2, <3>1, <3>3
    <3>6. /\ cached' = [j \in Flights |-> cached'[j]]
          /\ \A j \in Flights : cached'[j] \in Entries
      BY <2>2, <3>1, <3>4
    <3>7. /\ place' = [w \in Lookups |-> place'[w]]
          /\ result' = [w \in Lookups |-> result'[w]]
      BY <3>1
    <3> HIDE DEF TypedInv
    <3> QED
      BY <2>1, <3>5, <3>6, <3>7
  <2> QED
    BY <2>3, <2>4, <2>5, OthersMove
<1> QED
  BY <1>1, <1>2, CallsHold, WhoisHolds, FlightsHold, PTL DEF Spec

\* Every variable of a request has its shape whatever the interleaving: a lookup is done
\* exactly when it has come to something; what it has come to is data exactly when it says
\* so, from a server of the tables or of IANA, since an entity without a server is refused
\* before a flight starts; a key has a deadline exactly while its query exists, and WHOIS is
\* asked only once that is over without a server.
THEOREM TypeCorrect == Spec => []TypeOK
<1>1. Settled /\ CallsInv /\ WhoisInv /\ FlightsInv /\ TimeInv /\ TypedInv => TypeOK
  <2> SUFFICES ASSUME Settled, CallsInv, WhoisInv, FlightsInv, TimeInv, TypedInv
               PROVE  TypeOK
    OBVIOUS
  <2>1. /\ mix \in Mixes /\ now \in 0..MaxTime
        /\ answered \in {NoAnswerYet} \union 0..MaxTime /\ closed \in BOOLEAN
    BY DEF Settled, TypedInv
  <2>2. /\ place \in [Lookups -> {"queued", "missed", "wait", "done"}] /\ DOMAIN result = Lookups
        /\ \A w \in Lookups : Typed(place[w], result[w])
    BY DEF TypedInv, Typed
  <2>3. ASSUME NEW k \in Flights
        PROVE  /\ cached[k].data \in Data \union {NoData} /\ cached[k].negative \in BOOLEAN
               /\ flight[k].due \in -1..(MaxTime + FetchTimeout)
               /\ call[k].at \in {"none", "attempt", "pause", "over"}
               /\ whois[k].at \in {"none", "dialIANA", "readIANA", "known", "query", "over"}
               /\ (flight[k] = NoFlight) = (call[k] = NoCall)
               /\ whois[k] # NoCall => call[k].at = "over" /\ FallsBack(k)
    <3>1. cached[k].data \in Data \union {NoData} /\ cached[k].negative \in BOOLEAN
      <4>1. cached[k] \in Entries
        BY DEF TypedInv
      <4>2. CASE \E b \in BOOLEAN : cached[k] = [negative |-> b, data |-> NoData]
        BY <4>2
      <4>3. CASE cached[k] \in [negative: {FALSE}, data: Data]
        BY <4>3
      <4> QED
        BY <4>1, <4>2, <4>3, Zenon DEF Entries, Absent
    <3>2. FlightTimed(k)
      BY DEF TimeInv
    <3>3. flight[k].due \in -1..(MaxTime + FetchTimeout)
      <4>1. CASE flight[k] = NoFlight
        <5>1. flight[k].due = -1
          BY <4>1 DEF NoFlight
        <5> QED
          BY <5>1, PipelineAssumption
      <4>2. CASE flight[k] # NoFlight
        <5>1. flight[k].due \in Int /\ Begun(k) \in Nat /\ Begun(k) <= now
          BY <3>2, <4>2 DEF FlightTimed
        <5> QED
          BY <2>1, <5>1, PipelineAssumption DEF Begun
      <4> QED
        BY <4>1, <4>2
    <3>4. call[k].at \in {"none", "attempt", "pause", "over"}
      <4>1. NoCall.at = "none"
        BY DEF NoCall
      <4> QED
        BY <4>1, CallKinds DEF CallsInv
    <3>5. whois[k].at \in {"none", "dialIANA", "readIANA", "known", "query", "over"}
      BY DEF WhoisInv, IsWhois, NoCall
    <3>6. (flight[k] = NoFlight) <=> (call[k] = NoCall)
      BY <3>2 DEF FlightTimed
    <3>7. whois[k] # NoCall => call[k].at = "over" /\ FallsBack(k)
      BY DEF FlightsInv, FlightOwn
    <3> QED
      BY <3>1, <3>3, <3>4, <3>5, <3>6, <3>7
  <2>4. ASSUME NEW w \in Lookups
        PROVE  /\ result[w].said \in Words /\ result[w].hit \in BOOLEAN
               /\ result[w].data \in Data \union {NoData}
               /\ (place[w] = "done") = (result[w].said # "pending")
               /\ (result[w].said = "data") = (result[w].data # NoData)
    BY <2>2 DEF Typed
  <2> QED
    BY <2>1, <2>2, <2>3, <2>4 DEF TypeOK
<1> QED
  BY <1>1, CallsHold, WhoisHolds, FlightsHold, TimesHold, ShapesHold, PTL
=============================================================================
