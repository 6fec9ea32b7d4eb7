------------------------- MODULE LookupPipelineProofs -------------------------
(* What holds of LookupPipeline for every value of its constants. *)
EXTENDS LookupPipeline, ResolverTablesProofs, NaturalsInduction

Servers == URLs \union {Malformed}

-----------------------------------------------------------------------------
(* The resolver *)

ResolverErrors == {{}, {"InvalidInput"}, {"NoServer"}, {"NotInitialized"}}

\* A resolver's answer is a list of servers and an error of its own; the tables name URLs.
IsResolution(r) == r.urls \in Seq(Servers) /\ r.err \in ResolverErrors
OfURLs(r) == r.urls \in Seq(URLs) /\ IsResolution(r)

\* Helper: an empty list, as of a failure, and a list of URLs.
LEMMA ListsResolve ==
    /\ \A e \in {"InvalidInput", "NoServer", "NotInitialized"} : OfURLs(Failure(e))
    /\ \A urls \in Seq(URLs) : OfURLs(Answer(urls))
    /\ \A s \in Servers : IsResolution(Answer(<<s>>))
<1>1. \A e \in {"InvalidInput", "NoServer", "NotInitialized"} : OfURLs(Failure(e))
  BY DEF OfURLs, IsResolution, Failure, ResolverErrors
<1>2. \A urls \in Seq(URLs) : urls \in Seq(Servers)
  BY DEF Servers
<1>3. \A urls \in Seq(Servers) : IsResolution(Answer(urls))
  BY DEF IsResolution, Answer, ResolverErrors
<1>4. \A s \in Servers : <<s>> \in Seq(Servers)
  OBVIOUS
<1>5. \A urls : Answer(urls).urls = urls
  BY DEF Answer
<1> QED
  BY <1>1, <1>2, <1>3, <1>4, <1>5 DEF OfURLs

\* Helper: a search of networks.
LEMMA NetworksResolve ==
    ASSUME NEW table, NEW addr,
           \A urls \in Range(table) : urls \in Seq(URLs),
           \A n \in DOMAIN table : n.bits \in 0..AddrBits
    PROVE  OfURLs(ResolveIn(table, addr))
<1> DEFINE found == {n \in DOMAIN table : Covers(n, addr)}
           best  == CHOOSE n \in found : \A m \in found : m.bits <= n.bits
<1>1. CASE DOMAIN table = {} \/ found = {}
  BY <1>1, ListsResolve DEF ResolveIn
<1>2. CASE DOMAIN table # {} /\ found # {}
  <2>1. \E n \in found : \A m \in found : m.bits <= n.bits
    BY <1>2, LongestExists
  <2>2. best \in found
    BY <2>1
  <2>3. table[best] \in Seq(URLs)
    BY <2>2 DEF Range
  <2>4. ResolveIn(table, addr) = Answer(table[best])
    BY <1>2 DEF ResolveIn
  <2> QED
    BY <2>3, <2>4, ListsResolve
<1> QED
  BY <1>1, <1>2

\* Helper: a search of ranges.
LEMMA RangesResolve ==
    ASSUME NEW ranges, NEW asn,
           ranges \in Seq(Range(ranges)),
           \A i \in DOMAIN ranges : ranges[i].urls \in Seq(URLs)
    PROVE  OfURLs(ResolveASN(ranges, asn))
<1> DEFINE before == {i \in DOMAIN ranges : ranges[i].key.start <= asn}
           last   == StartingBy(ranges, asn)
<1>1. DOMAIN ranges = 1..Len(ranges) /\ Len(ranges) \in Nat
  OBVIOUS
<1>2. IsFiniteSet(1..Len(ranges)) /\ Cardinality(1..Len(ranges)) = Len(ranges)
  <2> DEFINE len == Len(ranges)
  <2>1. len \in Nat
    BY <1>1
  <2> HIDE DEF len
  <2>2. IsFiniteSet(1..len) /\ Cardinality(1..len) = len
    BY <2>1, FS_Interval
  <2> QED
    BY <2>2 DEF len
<1>3. Cardinality(before) \in Nat /\ Cardinality(before) <= Len(ranges)
  BY <1>1, <1>2, FS_Subset, FS_CardinalityType
<1>4. last \in Nat /\ (last > 0 => last \in DOMAIN ranges)
  BY <1>1, <1>3 DEF StartingBy
<1>5. last > 0 => OfURLs(Answer(ranges[last].urls))
  BY <1>4, ListsResolve
<1> HIDE DEF last
<1> QED
  BY <1>5, ListsResolve DEF ResolveASN, last

\* Helper: the tables name URLs, and networks as long as an address at most.
LEMMA TablesTyped ==
    ASSUME NEW t \in LoadAll
    PROVE  /\ \A urls \in Range(t.dns) \union Range(t.ip4) \union Range(t.ip6) :
                  urls \in Seq(URLs)
           /\ \A n \in DOMAIN t.ip4 \union DOMAIN t.ip6 : n.bits \in 0..AddrBits
           /\ t.asn \in Seq(Range(t.asn))
           /\ \A i \in DOMAIN t.asn : t.asn[i].urls \in Seq(URLs)
<1>1. PICK asn \in LoadASN(Files.asn) :
          t = [dns |-> LoadDNS(Files.dns), ip4 |-> LoadIPv4(Files.ip4),
               ip6 |-> LoadIPv6(Files.ip6), asn |-> asn]
  BY DEF LoadAll
<1>2. /\ Files.dns \in FilesFor(TLDs) /\ Files.asn \in FilesFor(AsRanges)
      /\ Files.ip4 \in FilesFor(Networks) /\ Files.ip6 \in FilesFor(Networks)
  BY FilesAssumption
<1>3. \A k \in DOMAIN t.dns : t.dns[k] \in Seq(URLs)
  <2>1. t.dns = TableOf(Pairs(Files.dns))
    BY <1>1 DEF LoadDNS
  <2> QED
    BY <1>2, <2>1, FileSays
<1>4. ASSUME NEW file \in FilesFor(Networks), NEW family, NEW table,
             table = TableOf(OfFamily(Pairs(file), family))
      PROVE  \A k \in DOMAIN table : table[k] \in Seq(URLs) /\ k.bits \in 0..AddrBits
  <2>1. LastSpeaks(file, {k \in Networks \ {Malformed} : k.family = family}, table)
    BY <1>4, FamilySays
  <2>2. \A k \in DOMAIN table : k \in Networks
    BY <2>1 DEF LastSpeaks
  <2>3. \A k \in DOMAIN table : table[k] \in Seq(URLs)
    BY <1>4, FamilySays
  <2> QED
    BY <2>2, <2>3 DEF Networks
<1>5. \A k \in DOMAIN t.ip4 : t.ip4[k] \in Seq(URLs) /\ k.bits \in 0..AddrBits
  <2>1. t.ip4 = TableOf(OfFamily(Pairs(Files.ip4), 4))
    BY <1>1 DEF LoadIPv4
  <2> QED
    BY <1>2, <1>4, <2>1
<1>6. \A k \in DOMAIN t.ip6 : t.ip6[k] \in Seq(URLs) /\ k.bits \in 0..AddrBits
  <2>1. t.ip6 = TableOf(OfFamily(Pairs(Files.ip6), 6))
    BY <1>1 DEF LoadIPv6
  <2> QED
    BY <1>2, <1>4, <2>1
<1>7. t.asn \in Seq(PairsFor(AsRanges))
  <2>1. t.asn \in LoadASN(Files.asn)
    BY <1>1
  <2>2. RangesOf(Pairs(Files.asn)) \in Seq(PairsFor(AsRanges))
    BY <1>2, RangesCome
  <2> QED
    BY <2>1, <2>2, ASNSorts
<1>8. t.asn \in Seq(Range(t.asn))
  BY <1>7 DEF Range
<1>9. \A i \in DOMAIN t.asn : t.asn[i].urls \in Seq(URLs)
  <2>1. \A i \in DOMAIN t.asn : t.asn[i] \in PairsFor(AsRanges)
    BY <1>7
  <2> QED
    BY <2>1 DEF PairsFor
<1> QED
  BY <1>3, <1>5, <1>6, <1>8, <1>9 DEF Range

\* Loader and resolver together answer what a file says, whatever the files: what the last
\* service says of a TLD, the longest network of an address, and the range of a number.
THEOREM TablesAreRight == Spec => []TablesAgree
<1>1. ASSUME NEW f \in SmallFiles.dns, NEW tld \in SmallFiles.tlds
      PROVE  DomainAgrees(f, tld)
  <2>1. /\ f \in FilesFor(SmallFiles.tlds) /\ tld # Malformed
        /\ <<"name", tld>> # Malformed
    BY SmallFilesAssumption
  <2> QED
    BY <2>1, DomainsAgree
<1>2. ASSUME NEW f \in SmallFiles.ip, NEW a \in 0..(2 ^ AddrBits - 1)
      PROVE  AddressAgrees(f, SmallFiles.networks, a)
  <2>1. /\ f \in FilesFor(SmallFiles.networks) /\ SmallFiles.networks \in SUBSET Networks
        /\ Malformed \notin SmallFiles.networks /\ [family |-> 4, addr |-> a] # Malformed
    BY SmallFilesAssumption
  <2> QED
    BY <2>1, AddressesAgree
<1>3. ASSUME NEW f \in SmallFiles.asn, NEW n \in SmallFiles.numbers
      PROVE  NumberAgrees(f, SmallFiles.ranges, n)
  <2>1. /\ f \in FilesFor(SmallFiles.ranges) /\ SmallFiles.ranges \in SUBSET AsRanges
        /\ Malformed \notin SmallFiles.ranges /\ n \in Nat \ {0}
    BY SmallFilesAssumption
  <2> QED
    BY <2>1, NumbersAgree
<1>4. TablesAgree
  BY <1>1, <1>2, <1>3 DEF TablesAgree
<1> QED
  BY <1>4, PTL

\* Helper: whatever a lookup asks, the resolver answers with a list of servers, and of
\* URLs unless the query is for an entity without a server.
LEMMA LookupsResolve ==
    ASSUME tables \in LoadAll, mix \in Mixes, NEW w \in Lookups
    PROVE  LET q == QueryOf(w)
           IN /\ IsResolution(Resolved(q))
              /\ (q.kind \in {"domain", "ip", "asn"} \/ q.server # Malformed) =>
                     Resolved(q).urls \in Seq(URLs)
<1> DEFINE q == QueryOf(w)
<1>1. /\ \A urls \in Range(tables.dns) \union Range(tables.ip4) \union Range(tables.ip6) :
             urls \in Seq(URLs)
      /\ \A n \in DOMAIN tables.ip4 \union DOMAIN tables.ip6 : n.bits \in 0..AddrBits
      /\ tables.asn \in Seq(Range(tables.asn))
      /\ \A i \in DOMAIN tables.asn : tables.asn[i].urls \in Seq(URLs)
  BY TablesTyped
<1>2. q.server \in Servers
  <2>1. q \in {mix.single} \union Range(mix.batch)
    BY FilesAssumption DEF QueryOf, Lookups, Batch, Range
  <2> QED
    BY <2>1, FilesAssumption DEF Servers
<1>3. OfURLs(ResolveDomain(tables.dns, q.value))
  <2>1. Last(q.value) \in DOMAIN tables.dns => tables.dns[Last(q.value)] \in Seq(URLs)
    BY <1>1 DEF Range
  <2> QED
    BY <2>1, ListsResolve DEF ResolveDomain
<1>4. OfURLs(ResolveIP(tables.ip4, tables.ip6, q.value))
  BY <1>1, NetworksResolve, ListsResolve DEF ResolveIP
<1>5. OfURLs(ResolveASN(tables.asn, q.value))
  BY <1>1, RangesResolve
<1>6. /\ IsResolution(Answer(<<q.server>>)) /\ OfURLs(Failure("InvalidInput"))
      /\ q.server # Malformed => OfURLs(Answer(<<q.server>>))
  <2>1. q.server # Malformed => <<q.server>> \in Seq(URLs)
    BY <1>2 DEF Servers
  <2> QED
    BY <1>2, <2>1, ListsResolve
<1> HIDE DEF q
<1>7. /\ IsResolution(Resolved(q))
      /\ (q.kind \in {"domain", "ip", "asn"} \/ q.server # Malformed) => OfURLs(Resolved(q))
  BY <1>3, <1>4, <1>5, <1>6 DEF Resolved, OfURLs
<1> QED
  BY <1>7 DEF OfURLs, q

-----------------------------------------------------------------------------
(* A query, attempt by attempt *)

\* What an attempt may have come to when another one follows it.
Passing == {"none", "limited", "invalid", "failing", "refused", "timeout"}

IsHistory(h) ==
    /\ h = [tried |-> h.tried, last |-> h.last, settled |-> h.settled]
    /\ h.settled \in BOOLEAN

\* n servers, of which some have had all their attempts, and the next one some.
Spent(n, server, attempts) ==
    [s \in 1..n |-> IF s < server THEN MaxRetries + 1 ELSE IF s = server THEN attempts ELSE 0]

\* A server is asked when the one before it has had all its attempts.
InTurn(tried) ==
    \E n \in Nat :
        /\ tried \in [1..n -> 0..(MaxRetries + 1)]
        /\ \A s \in 2..n : tried[s] > 0 => tried[s - 1] = MaxRetries + 1

\* A query under way: what it has tried is what its counters say.
Asking(c) ==
    /\ c = [at |-> c.at, of |-> c.of, servers |-> c.servers, server |-> c.server,
            attempt |-> c.attempt, since |-> c.since, deadline |-> c.deadline,
            heard |-> c.heard]
    /\ c.at \in {"attempt", "pause"}
    /\ c.servers \in Seq(Servers)
    /\ c.server \in 1..Len(c.servers)
    /\ c.attempt \in 0..MaxRetries
    /\ IsHistory(c.heard)
    /\ c.heard.tried = Spent(Len(c.servers), c.server, c.attempt)
    /\ c.heard.last \in Passing
    /\ ~c.heard.settled

\* The error of a query that has asked, by what it heard last: only a deadline in a pause
\* hides it.
Fits(err, last) ==
    \/ last \in {"data", "notFound", "cut"} /\ err = ErrorOf[last]
    \/ last = "otherClass" /\ err = {"InvalidResponse"}
    \/ last \in Passing \ {"none"} /\ err = {"AllServersFailed"} \union ErrorOf[last]
    \/ last \in Passing /\ err = {"Deadline"}

\* Helper: the error tells an object, and a denial, from the rest.
LEMMA FitsTells ==
    ASSUME NEW err, NEW last, Fits(err, last)
    PROVE  /\ err = {} <=> last = "data"
           /\ "NotFound" \in err <=> last = "notFound"
           /\ last \notin {"record", "free"}
           /\ err = {"Deadline"} => last \notin {"data", "notFound"}
<1>1. CASE last \in {"data", "notFound", "cut"} /\ err = ErrorOf[last]
  BY <1>1 DEF ErrorOf
<1>2. CASE last = "otherClass" /\ err = {"InvalidResponse"}
  BY <1>2
<1>3. CASE last \in Passing \ {"none"} /\ err = {"AllServersFailed"} \union ErrorOf[last]
  <2>1. "NotFound" \notin ErrorOf[last]
    BY <1>3 DEF ErrorOf, Passing
  <2> QED
    BY <1>3, <2>1 DEF Passing
<1>4. CASE last \in Passing /\ err = {"Deadline"}
  BY <1>4 DEF Passing
<1> QED
  BY <1>1, <1>2, <1>3, <1>4 DEF Fits

\* The errors of one that has not.
UnaskedErrors == {{"InvalidInput"}, {"NoServer"}, {"NotInitialized"}, {"NoServers"}}

\* A query that is over: its error tells what it heard last.
Ended(c) ==
    /\ c = [at |-> "over", err |-> c.err, answer |-> c.answer, heard |-> c.heard]
    /\ IsHistory(c.heard)
    /\ InTurn(c.heard.tried)
    /\ "AllServersFailed" \in c.err =>
           \A s \in DOMAIN c.heard.tried : c.heard.tried[s] = MaxRetries + 1
    /\ \/ c.heard.tried # <<>> /\ Fits(c.err, c.heard.last)
       \/ c.heard.tried = <<>> /\ c.err \in UnaskedErrors

\* Helper: what the counters allow is in turn.
LEMMA SpentInTurn ==
    ASSUME NEW n \in Nat, NEW server \in 1..n, NEW attempts \in 0..(MaxRetries + 1)
    PROVE  InTurn(Spent(n, server, attempts)) /\ Spent(n, server, attempts) # <<>>
<1> DEFINE tried == Spent(n, server, attempts)
<1>1. tried \in [1..n -> 0..(MaxRetries + 1)]
  BY RdapAssumption DEF Spent
<1>2. \A s \in 2..n : tried[s] > 0 => tried[s - 1] = MaxRetries + 1
  BY RdapAssumption DEF Spent
<1>3. 1 \in DOMAIN tried
  BY <1>1
<1> HIDE DEF tried
<1>4. InTurn(tried) /\ tried # <<>>
  BY <1>1, <1>2, <1>3 DEF InTurn
<1> QED
  BY <1>4 DEF tried

\* Helper: one more attempt at the server whose turn it is.
LEMMA SpentOnce ==
    ASSUME NEW n \in Nat, NEW server \in 1..n, NEW attempts \in Nat
    PROVE  [Spent(n, server, attempts) EXCEPT ![server] = @ + 1]
             = Spent(n, server, attempts + 1)
<1> DEFINE f == Spent(n, server, attempts)
           g == Spent(n, server, attempts + 1)
<1>1. f = [s \in 1..n |-> f[s]] /\ g = [s \in 1..n |-> g[s]]
  BY DEF Spent
<1>2. /\ \A s \in 1..n : s # server => g[s] = f[s]
      /\ g[server] = f[server] + 1
  BY RdapAssumption DEF Spent
<1> HIDE DEF f, g
<1>3. [f EXCEPT ![server] = @ + 1] = g
  BY <1>1, <1>2
<1> QED
  BY <1>3 DEF f, g

\* What Query makes of the resolver's answer.
Started(of, resolved, deadline) ==
    IF resolved.err # {} THEN Over(resolved.err, NoData, NoHistory(<<>>))
    ELSE IF resolved.urls = <<>> THEN Over({"NoServers"}, NoData, NoHistory(<<>>))
    ELSE [at |-> "attempt", of |-> of, servers |-> resolved.urls, server |-> 1,
          attempt |-> 0, since |-> now, deadline |-> deadline,
          heard |-> NoHistory(resolved.urls)]

\* Helper: a query that ends before it asks.
LEMMA OverAtOnce ==
    ASSUME NEW err \in UnaskedErrors
    PROVE  Ended(Over(err, NoData, NoHistory(<<>>)))
<1> DEFINE c == Over(err, NoData, NoHistory(<<>>))
<1>1. /\ InTurn(c.heard.tried) /\ c.heard.tried = <<>>
      /\ \A s \in DOMAIN c.heard.tried : c.heard.tried[s] = MaxRetries + 1
  <2>1. c.heard.tried = [s \in {} |-> 0]
    BY DEF Over, NoHistory
  <2> HIDE DEF c
  <2>2. c.heard.tried \in [1..0 -> 0..(MaxRetries + 1)] /\ DOMAIN c.heard.tried = {}
    BY <2>1
  <2>3. InTurn(c.heard.tried)
    BY <2>2 DEF InTurn
  <2>4. c.heard.tried = <<>>
    BY <2>1
  <2> QED
    BY <2>2, <2>3, <2>4
<1>2. /\ c = [at |-> "over", err |-> c.err, answer |-> c.answer, heard |-> c.heard]
      /\ c.err = err /\ IsHistory(c.heard)
  BY DEF Over, NoHistory, IsHistory
<1> HIDE DEF c
<1>3. Ended(c)
  BY <1>1, <1>2 DEF Ended
<1> QED
  BY <1>3 DEF c

\* Helper: a query begins with its first server, or it is over.
LEMMA QueryStarts ==
    ASSUME NEW of, NEW resolved, IsResolution(resolved), NEW deadline
    PROVE  LET c == Started(of, resolved, deadline)
           IN Asking(c) \/ Ended(c)
<1>1. CASE resolved.err # {}
  BY <1>1, OverAtOnce DEF Started, IsResolution, ResolverErrors, UnaskedErrors
<1>2. CASE resolved.err = {} /\ resolved.urls = <<>>
  BY <1>2, OverAtOnce DEF Started, UnaskedErrors
<1>3. CASE resolved.err = {} /\ resolved.urls # <<>>
  <2> DEFINE c == Started(of, resolved, deadline)
  <2>1. c = [at |-> "attempt", of |-> of, servers |-> resolved.urls, server |-> 1,
             attempt |-> 0, since |-> now, deadline |-> deadline,
             heard |-> NoHistory(resolved.urls)]
    BY <1>3 DEF Started
  <2>2. resolved.urls \in Seq(Servers) /\ 1 \in 1..Len(resolved.urls)
    BY <1>3 DEF IsResolution
  <2>3. NoHistory(resolved.urls) = [tried |-> Spent(Len(resolved.urls), 1, 0),
                                    last |-> "none", settled |-> FALSE]
    <3>1. DOMAIN resolved.urls = 1..Len(resolved.urls) /\ Len(resolved.urls) \in Nat
      BY <2>2
    <3>2. [s \in DOMAIN resolved.urls |-> 0] = Spent(Len(resolved.urls), 1, 0)
      BY <3>1 DEF Spent
    <3> QED
      BY <3>2 DEF NoHistory
  <2> HIDE DEF c
  <2>4. c = [at |-> c.at, of |-> c.of, servers |-> c.servers, server |-> c.server,
             attempt |-> c.attempt, since |-> c.since, deadline |-> c.deadline,
             heard |-> c.heard]
    BY <2>1
  <2>5. IsHistory(c.heard) /\ c.heard.last \in Passing /\ ~c.heard.settled
    <3> DEFINE h == c.heard
    <3>1. h = [tried |-> Spent(Len(resolved.urls), 1, 0), last |-> "none", settled |-> FALSE]
      BY <2>1, <2>3
    <3> HIDE DEF h
    <3>2. IsHistory(h) /\ h.last \in Passing /\ ~h.settled
      BY <3>1 DEF IsHistory, Passing
    <3> QED
      BY <3>2 DEF h
  <2>6. c.heard.tried = Spent(Len(c.servers), c.server, c.attempt)
    BY <2>1, <2>3
  <2>7. Asking(c)
    BY <2>1, <2>2, <2>4, <2>5, <2>6, RdapAssumption DEF Asking
  <2> QED
    BY <2>7 DEF c
<1> QED
  BY <1>1, <1>2, <1>3

\* What Attempted makes of a query whose attempt came to r, the attempt counted.
After(c, r) ==
    CASE r = "data" -> Over({}, [of |-> c.of, by |-> c.servers[c.server]], c.heard)
      [] r = "otherClass" -> Over({"InvalidResponse"}, NoData, c.heard)
      [] OTHER -> Failed(c, ErrorOf[r])

\* A query between the end of an attempt and what follows from it.
Tried(c, r) == [c EXCEPT !.heard = Heard(@, c.server, r)]

Outcomes == {"data", "otherClass", "notFound", "limited", "invalid", "failing", "refused",
             "timeout", "cut"}

\* Helper: an attempt counts for its server, and its outcome is remembered.
LEMMA AttemptCounts ==
    ASSUME NEW c, Asking(c), NEW r \in Outcomes
    PROVE  LET d == Tried(c, r)
           IN /\ d = [at |-> c.at, of |-> c.of, servers |-> c.servers, server |-> c.server,
                      attempt |-> c.attempt, since |-> c.since, deadline |-> c.deadline,
                      heard |-> d.heard]
              /\ d.heard = [tried |-> Spent(Len(c.servers), c.server, c.attempt + 1),
                            last |-> r, settled |-> r \in Settling]
<1> DEFINE h == c.heard
           n == Len(c.servers)
<1>1. c = [at |-> c.at, of |-> c.of, servers |-> c.servers, server |-> c.server,
           attempt |-> c.attempt, since |-> c.since, deadline |-> c.deadline,
           heard |-> h]
  BY DEF Asking
<1>2. h.tried = Spent(n, c.server, c.attempt) /\ ~h.settled /\ h.settled \in BOOLEAN
  BY DEF Asking, IsHistory
<1>3. n \in Nat /\ c.server \in 1..n /\ c.attempt \in Nat
  BY RdapAssumption DEF Asking
<1>4. [Spent(n, c.server, c.attempt) EXCEPT ![c.server] = @ + 1]
        = Spent(n, c.server, c.attempt + 1)
  BY <1>3, SpentOnce
<1>5. Heard(h, c.server, r) = [tried |-> Spent(n, c.server, c.attempt + 1),
                               last |-> r, settled |-> r \in Settling]
  BY <1>2, <1>4 DEF Heard
<1> HIDE DEF h, n
<1> DEFINE e == Heard(h, c.server, r)
<1>6. Tried(c, r) = [c EXCEPT !.heard = e]
  BY DEF Tried, h
<1> HIDE DEF e
<1>7. Tried(c, r) = [at |-> c.at, of |-> c.of, servers |-> c.servers, server |-> c.server,
                     attempt |-> c.attempt, since |-> c.since, deadline |-> c.deadline,
                     heard |-> e]
  BY <1>1, <1>6
<1>8. Tried(c, r).heard = e
  BY <1>7
<1> QED
  BY <1>5, <1>7, <1>8 DEF e, h, n

\* Helper: the end of a query that has asked.
LEMMA EndsAsHeard ==
    ASSUME NEW n \in Nat, NEW server \in 1..n, NEW attempts \in 0..(MaxRetries + 1),
           NEW last, NEW settled \in BOOLEAN, NEW err, NEW answer, Fits(err, last),
           "AllServersFailed" \in err => server = n /\ attempts = MaxRetries + 1
    PROVE  Ended(Over(err, answer, [tried |-> Spent(n, server, attempts), last |-> last,
                                    settled |-> settled]))
<1> DEFINE tried == Spent(n, server, attempts)
           h == [tried |-> tried, last |-> last, settled |-> settled]
           c == Over(err, answer, h)
<1>1. InTurn(tried) /\ tried # <<>>
  BY SpentInTurn
<1>2. "AllServersFailed" \in err => \A s \in DOMAIN tried : tried[s] = MaxRetries + 1
  BY DEF Spent
<1> HIDE DEF tried
<1>3. h.tried = tried /\ h.last = last /\ IsHistory(h)
  BY DEF IsHistory
<1> HIDE DEF h
<1>4. /\ c = [at |-> "over", err |-> c.err, answer |-> c.answer, heard |-> c.heard]
      /\ c.err = err /\ c.heard = h
  BY DEF Over
<1> HIDE DEF c
<1>5. Ended(c)
  BY <1>1, <1>2, <1>3, <1>4 DEF Ended
<1> QED
  BY <1>5 DEF c, h, tried

\* Helper: an attempt that failed for good or not is followed by a pause, by the next
\* server, or by the end.
LEMMA AttemptEnds ==
    ASSUME NEW c, Asking(c), c.at = "attempt", NEW r \in Outcomes
    PROVE  LET d == After(Tried(c, r), r)
           IN Asking(d) \/ Ended(d)
<1> DEFINE d == Tried(c, r)
           n == Len(c.servers)
           h == [tried |-> Spent(n, c.server, c.attempt + 1), last |-> r,
                 settled |-> r \in Settling]
<1>1. /\ d = [at |-> c.at, of |-> c.of, servers |-> c.servers, server |-> c.server,
              attempt |-> c.attempt, since |-> c.since, deadline |-> c.deadline,
              heard |-> d.heard]
      /\ d.heard = h
  BY AttemptCounts
<1>2. /\ n \in Nat /\ c.server \in 1..n /\ c.attempt \in 0..MaxRetries
      /\ c.attempt + 1 \in 0..(MaxRetries + 1)
      /\ c.servers \in Seq(Servers)
  BY RdapAssumption DEF Asking
<1>3. d.server = c.server /\ d.attempt = c.attempt /\ d.servers = c.servers
  BY <1>1
<1>4. ASSUME NEW err, NEW answer,
             "AllServersFailed" \in err => c.server = n /\ c.attempt = MaxRetries,
             Fits(err, r)
      PROVE  Ended(Over(err, answer, d.heard))
  <2>1. "AllServersFailed" \in err => c.server = n /\ c.attempt + 1 = MaxRetries + 1
    BY <1>4
  <2>2. (r \in Settling) \in BOOLEAN
    OBVIOUS
  <2> HIDE DEF d, n
  <2>3. Ended(Over(err, answer, h))
    BY <1>2, <1>4, <2>1, <2>2, EndsAsHeard
  <2> HIDE DEF h
  <2> QED
    BY <1>1, <2>3
<1> HIDE DEF d, n, h
<1>9. d = [at |-> c.at, of |-> c.of, servers |-> c.servers, server |-> c.server,
           attempt |-> c.attempt, since |-> c.since, deadline |-> c.deadline, heard |-> h]
  BY <1>1, Zenon
<1>5. CASE r = "data"
  <2>1. Ended(Over({}, [of |-> d.of, by |-> d.servers[d.server]], d.heard))
    BY <1>4, <1>5 DEF Fits, ErrorOf
  <2> QED
    BY <1>5, <2>1 DEF After, d
<1>6. CASE r = "otherClass"
  <2>1. Ended(Over({"InvalidResponse"}, NoData, d.heard))
    BY <1>4, <1>6 DEF Fits
  <2> QED
    BY <1>6, <2>1 DEF After, d
<1>7. CASE r \in {"notFound", "cut"}
  <2>1. ErrorOf[r] \in {{"NotFound"}, {"Deadline"}}
    BY <1>7 DEF ErrorOf
  <2>2. Ended(Over(ErrorOf[r], NoData, d.heard))
    BY <1>4, <1>7, <2>1 DEF Fits
  <2>3. Failed(d, ErrorOf[r]) = Over(ErrorOf[r], NoData, d.heard)
    BY <2>1 DEF Failed, Final
  <2>4. After(d, r) = Failed(d, ErrorOf[r])
    BY <1>7 DEF After
  <2> QED
    BY <2>2, <2>3, <2>4 DEF d
<1>8. CASE r \in {"limited", "invalid", "failing", "refused", "timeout"}
  <2> DEFINE err == ErrorOf[r]
  <2>1. err \in {{"RateLimited"}, {"InvalidResponse"}, {"ServerError"}, {"Other"},
                 {"RequestTimeout"}}
    BY <1>8 DEF ErrorOf
  <2> HIDE DEF err
  <2>2. After(d, r) = Failed(d, err) /\ ~Final(err)
    BY <1>8, <2>1 DEF After, Final, err
  <2>3. IsHistory(h) /\ h.last \in Passing /\ ~h.settled
        /\ h.tried = Spent(n, c.server, c.attempt + 1)
    <3>1. r \in Passing /\ r \notin Settling
      BY <1>8 DEF Passing, Settling
    <3>2. /\ h.last = r /\ h.settled = (r \in Settling)
          /\ h.tried = Spent(n, c.server, c.attempt + 1)
          /\ h = [tried |-> h.tried, last |-> h.last, settled |-> h.settled]
      BY DEF h
    <3>3. h.settled = FALSE
      <4>1. (r \in Settling) = FALSE
        BY <3>1
      <4> QED
        BY <3>2, <4>1, Zenon
    <3> QED
      BY <3>1, <3>2, <3>3 DEF IsHistory
  <2>4. CASE MoreAttempts(d)
    <3> DEFINE e == [d EXCEPT !.at = "pause", !.attempt = @ + 1, !.since = now]
    <3>1. e = [at |-> "pause", of |-> c.of, servers |-> c.servers, server |-> c.server,
               attempt |-> c.attempt + 1, since |-> now, deadline |-> c.deadline,
               heard |-> h]
      <4> DEFINE d1 == [d EXCEPT !.at = "pause"]
                 d2 == [d1 EXCEPT !.attempt = @ + 1]
      <4>1. d1 = [at |-> "pause", of |-> c.of, servers |-> c.servers, server |-> c.server,
                  attempt |-> c.attempt, since |-> c.since, deadline |-> c.deadline,
                  heard |-> h]
        BY <1>9
      <4>2. e = [d2 EXCEPT !.since = now]
        OBVIOUS
      <4> HIDE DEF d1, e
      <4>3. d2 = [at |-> "pause", of |-> c.of, servers |-> c.servers, server |-> c.server,
                  attempt |-> c.attempt + 1, since |-> c.since, deadline |-> c.deadline,
                  heard |-> h]
        BY <4>1
      <4> HIDE DEF d2
      <4> QED
        BY <4>2, <4>3
    <3>2. c.attempt + 1 \in 0..MaxRetries
      BY <1>2, <1>3, <2>4, RdapAssumption DEF MoreAttempts
    <3>3. Failed(d, err) = e
      BY <2>2, <2>4 DEF Failed
    <3> HIDE DEF e
    <3>4. Asking(e)
      BY <1>2, <2>3, <3>1, <3>2 DEF Asking, n
    <3> QED
      BY <2>2, <3>3, <3>4 DEF d
  <2>5. CASE ~MoreAttempts(d) /\ c.server < n
    <3> DEFINE e == [d EXCEPT !.server = @ + 1, !.attempt = 0, !.since = now]
    <3>1. e = [at |-> "attempt", of |-> c.of, servers |-> c.servers, server |-> c.server + 1,
               attempt |-> 0, since |-> now, deadline |-> c.deadline, heard |-> h]
      <4> DEFINE d1 == [d EXCEPT !.server = @ + 1]
                 d2 == [d1 EXCEPT !.attempt = 0]
      <4>1. d1 = [at |-> c.at, of |-> c.of, servers |-> c.servers, server |-> c.server + 1,
                  attempt |-> c.attempt, since |-> c.since, deadline |-> c.deadline,
                  heard |-> h]
        BY <1>9
      <4>2. e = [d2 EXCEPT !.since = now]
        OBVIOUS
      <4> HIDE DEF d1, e
      <4>3. d2 = [at |-> c.at, of |-> c.of, servers |-> c.servers, server |-> c.server + 1,
                  attempt |-> 0, since |-> c.since, deadline |-> c.deadline,
                  heard |-> h]
        BY <4>1
      <4> HIDE DEF d2
      <4> QED
        BY <4>2, <4>3
    <3>2. c.attempt = MaxRetries /\ c.server + 1 \in 1..n
      BY <1>2, <1>3, <2>5, RdapAssumption DEF MoreAttempts
    <3>3. Failed(d, err) = e
      BY <1>3, <2>2, <2>5 DEF Failed, n
    <3>4. Spent(n, c.server, c.attempt + 1) = Spent(n, c.server + 1, 0)
      BY <1>2, <3>2, RdapAssumption DEF Spent
    <3> HIDE DEF e
    <3>5. Asking(e)
      BY <1>2, <2>3, <3>1, <3>2, <3>4, RdapAssumption DEF Asking, n
    <3> QED
      BY <2>2, <3>3, <3>5 DEF d
  <2>6. CASE ~MoreAttempts(d) /\ ~(c.server < n)
    <3>1. c.attempt = MaxRetries /\ c.server = n
      BY <1>2, <1>3, <2>6, RdapAssumption DEF MoreAttempts
    <3>2. Failed(d, err) = Over({"AllServersFailed"} \union err, NoData, d.heard)
      BY <1>3, <2>2, <2>6 DEF Failed, n
    <3>3. Fits({"AllServersFailed"} \union err, r)
      BY <1>8 DEF Fits, Passing, err
    <3>4. Ended(Over({"AllServersFailed"} \union err, NoData, d.heard))
      BY <1>4, <3>1, <3>3
    <3> QED
      BY <2>2, <3>2, <3>4 DEF d
  <2> QED
    BY <2>4, <2>5, <2>6
<1> QED
  BY <1>5, <1>6, <1>7, <1>8 DEF Outcomes

-----------------------------------------------------------------------------
(* Every query *)

\* Nothing changes the tables and the requests.
Settled == tables \in LoadAll /\ mix \in Mixes

IsCall(c) == c = NoCall \/ Asking(c) \/ Ended(c)

\* Inductive: queries are what RdapClient makes of the resolver's answers.
CallsInv ==
    /\ call = [k \in Flights |-> call[k]]
    /\ \A k \in Flights : IsCall(call[k])

\* Helper: where a query is tells what it is.
LEMMA CallKinds ==
    ASSUME NEW c, IsCall(c)
    PROVE  /\ c.at \in {"attempt", "pause"} => Asking(c)
           /\ c.at = "over" => Ended(c)
           /\ c # NoCall => c.at \in {"attempt", "pause", "over"}
           /\ Asking(c) => c.at \in {"attempt", "pause"}
<1>1. CASE c = NoCall
  <2>1. c.at = "none"
    BY <1>1 DEF NoCall
  <2> QED
    BY <1>1, <2>1 DEF Asking
<1>2. CASE Asking(c)
  BY <1>2 DEF Asking
<1>3. CASE Ended(c)
  <2>1. c.at = "over"
    BY <1>3 DEF Ended
  <2> QED
    BY <1>3, <2>1 DEF Asking
<1> QED
  BY <1>1, <1>2, <1>3 DEF IsCall

\* Helper: a step of one query.
LEMMA CallKept ==
    ASSUME CallsInv, NEW k \in Flights, NEW c, IsCall(c), call' = [call EXCEPT ![k] = c]
    PROVE  CallsInv'
BY DEF CallsInv

\* Helper: the end of an attempt.
LEMMA AttemptKept ==
    ASSUME CallsInv, NEW k \in Flights, call[k].at = "attempt", NEW r \in Outcomes,
           Attempted(k, r)
    PROVE  CallsInv'
<1> DEFINE c == After(Tried(call[k], r), r)
<1>1. Asking(call[k])
  BY CallKinds DEF CallsInv
<1>2. IsCall(c)
  BY <1>1, AttemptEnds DEF IsCall
<1>3. call' = [call EXCEPT ![k] = c]
  BY DEF Attempted, After, Tried
<1> HIDE DEF c
<1> QED
  BY <1>2, <1>3, CallKept

\* Helper: the end of a pause, one way or the other.
LEMMA PauseKept ==
    ASSUME CallsInv, NEW k \in Flights, Resume(k) \/ Cancel(k)
    PROVE  CallsInv'
<1> DEFINE c == call[k]
           h == c.heard
<1>1. Asking(c) /\ c.at = "pause"
  BY CallKinds DEF CallsInv, Resume, Cancel
<1>2. /\ c = [at |-> c.at, of |-> c.of, servers |-> c.servers, server |-> c.server,
              attempt |-> c.attempt, since |-> c.since, deadline |-> c.deadline,
              heard |-> h]
      /\ c.servers \in Seq(Servers) /\ Len(c.servers) \in Nat
      /\ c.server \in 1..Len(c.servers) /\ c.attempt \in 0..MaxRetries
      /\ h.tried = Spent(Len(c.servers), c.server, c.attempt)
      /\ h.last \in Passing /\ ~h.settled /\ IsHistory(h)
  BY <1>1 DEF Asking
<1>3. CASE Resume(k)
  <2> DEFINE d == [c EXCEPT !.at = "attempt"]
             e == [d EXCEPT !.since = now]
  <2>1. call' = [call EXCEPT ![k] = e]
    BY <1>3 DEF Resume, CallsInv
  <2> HIDE DEF c, h
  <2>2. d = [at |-> "attempt", of |-> c.of, servers |-> c.servers, server |-> c.server,
             attempt |-> c.attempt, since |-> c.since, deadline |-> c.deadline,
             heard |-> h]
    BY <1>2
  <2> HIDE DEF d
  <2>3. e = [at |-> "attempt", of |-> c.of, servers |-> c.servers, server |-> c.server,
             attempt |-> c.attempt, since |-> now, deadline |-> c.deadline, heard |-> h]
    BY <2>2
  <2> HIDE DEF e
  <2>4. Asking(e)
    BY <1>2, <2>3 DEF Asking
  <2>5. IsCall(e)
    BY <2>4 DEF IsCall
  <2> QED
    BY <2>1, <2>5, CallKept
<1>4. CASE Cancel(k)
  <2> DEFINE e == Over({"Deadline"}, NoData, h)
  <2>1. call' = [call EXCEPT ![k] = e]
    BY <1>4 DEF Cancel
  <2> HIDE DEF c, h
  <2>2. c.attempt \in 0..(MaxRetries + 1) /\ h.settled \in BOOLEAN
    BY <1>2, RdapAssumption DEF IsHistory
  <2>3. h = [tried |-> Spent(Len(c.servers), c.server, c.attempt), last |-> h.last,
             settled |-> h.settled]
    BY <1>2 DEF IsHistory
  <2>4. Fits({"Deadline"}, h.last)
    BY <1>2 DEF Fits
  <2>5. Ended(Over({"Deadline"}, NoData, [tried |-> Spent(Len(c.servers), c.server, c.attempt),
                                          last |-> h.last, settled |-> h.settled]))
    BY <1>2, <2>2, <2>4, EndsAsHeard
  <2>6. Ended(e)
    BY <2>3, <2>5
  <2> HIDE DEF e
  <2>7. IsCall(e)
    BY <2>6 DEF IsCall
  <2> QED
    BY <2>1, <2>7, CallKept
<1> QED
  BY <1>3, <1>4

\* Helper: a lookup that leads a flight starts its query.
LEMMA LeadKept ==
    ASSUME Settled, CallsInv, NEW w \in Lookups, NEW k, Lead(w, k)
    PROVE  CallsInv'
<1> DEFINE q == QueryOf(w)
           c == Started(<<q.kind, q.value>>, Resolved(q), now + FetchTimeout)
<1>1. CASE cached[k] # Absent
  BY <1>1 DEF Lead, CallsInv
<1>2. CASE cached[k] = Absent /\ k \in Flights
  <2>1. call' = [call EXCEPT ![k] = c]
    BY <1>2 DEF Lead, Query, Started
  <2>2. Asking(c) \/ Ended(c)
    BY LookupsResolve, QueryStarts DEF Settled
  <2> HIDE DEF c
  <2> QED
    BY <1>2, <2>1, <2>2, CallKept DEF IsCall
<1>3. CASE cached[k] = Absent /\ k \notin Flights
  <2>1. PICK c1 : call' = [call EXCEPT ![k] = c1]
    BY <1>3 DEF Lead, Query
  <2>2. call' = call
    BY <1>3, <2>1 DEF CallsInv
  <2> QED
    BY <2>2 DEF CallsInv
<1> QED
  BY <1>1, <1>2, <1>3

\* The actions at which no query starts, goes on or ends.
CallUntouched ==
    \/ LookupSingle
    \/ \E w \in Lookups : ProcessBatchQuery(w) \/ GiveUp(w)
    \/ \E k \in Flights : FetchDomainViaWHOIS(k) \/ WhoisStep(k)
    \/ Respond
    \/ CloseHandler
    \/ Tick

\* Helper: the queries that RdapClient makes stay what they are.
LEMMA CallsHold == Spec => [](Settled /\ CallsInv)
<1>1. Init => Settled /\ CallsInv
  BY DEF Init, Settled, CallsInv, IsCall
<1>2. Settled /\ CallsInv /\ [Next]_vars => Settled' /\ CallsInv'
  <2> SUFFICES ASSUME Settled, CallsInv, [Next]_vars
               PROVE  Settled' /\ CallsInv'
    OBVIOUS
  <2>1. Settled'
    BY DEF Settled, Next, vars, LookupSingle, LookupDomain, LookupIP, LookupASN, LookupEntity,
           Begin, ProcessBatchQuery, GiveUp, FlightStarts, RdapStep, FetchDomainViaWHOIS,
           WhoisStep, FlightEnds, Respond, CloseHandler, Tick
  <2>2. CASE CallUntouched \/ UNCHANGED vars
    <3>1. call' = call
      BY <2>2 DEF CallUntouched, vars, LookupSingle, LookupDomain, LookupIP, LookupASN,
                  LookupEntity, Begin, ProcessBatchQuery, GiveUp, FetchDomainViaWHOIS,
                  WhoisStep, Respond, CloseHandler, Tick
    <3> QED
      BY <2>1, <3>1 DEF CallsInv
  <2>3. ASSUME NEW w \in Lookups, FlightStarts(w)
        PROVE  CallsInv'
    <3>1. CASE Lead(w, CacheKey(QueryOf(w)))
      BY <3>1, LeadKept
    <3>2. CASE Join(w, CacheKey(QueryOf(w)))
      BY <3>2 DEF Join, CallsInv
    <3> QED
      BY <2>3, <3>1, <3>2 DEF FlightStarts
  <2>4. ASSUME NEW k \in Flights, RdapStep(k)
        PROVE  CallsInv'
    <3>1. ASSUME NEW r \in ReplyKinds, Reply(k, r)
          PROVE  CallsInv'
      <4>1. r \in Outcomes
        BY RdapAssumption DEF Outcomes
      <4> QED
        BY <3>1, <4>1, AttemptKept DEF Reply
    <3>2. ASSUME NEW r \in {"timeout", "cut"}, Expire(k, r)
          PROVE  CallsInv'
      <4>1. r \in Outcomes
        BY DEF Outcomes
      <4> QED
        BY <3>2, <4>1, AttemptKept DEF Expire
    <3> QED
      BY <2>4, <3>1, <3>2, PauseKept DEF RdapStep
  <2>5. ASSUME NEW k \in Flights, FlightEnds(k)
        PROVE  CallsInv'
    <3>1. call' = [call EXCEPT ![k] = NoCall]
      BY <2>5 DEF FlightEnds
    <3> QED
      BY <3>1, CallKept DEF IsCall
  <2> QED
    BY <2>1, <2>2, <2>3, <2>4, <2>5 DEF Next, CallUntouched
<1> QED
  BY <1>1, <1>2, PTL DEF Spec

\* What RetriesExact says of one query.
ExactRetries(c) ==
    LET heard == c.heard
        all == {s \in DOMAIN heard.tried : heard.tried[s] = MaxRetries + 1}
    IN /\ \A s \in DOMAIN heard.tried :
              /\ heard.tried[s] <= MaxRetries + 1
              /\ (s > 1 /\ heard.tried[s] > 0) => s - 1 \in all
       /\ heard.settled => c.at = "over"
       /\ (c.at = "over" /\ "AllServersFailed" \in c.err) => all = DOMAIN heard.tried

\* Helper: attempts in turn are exact.
LEMMA TurnsAreExact ==
    ASSUME NEW tried, InTurn(tried), NEW s \in DOMAIN tried
    PROVE  /\ tried[s] <= MaxRetries + 1
           /\ (s > 1 /\ tried[s] > 0) => /\ s - 1 \in DOMAIN tried
                                         /\ tried[s - 1] = MaxRetries + 1
<1>1. PICK n \in Nat : /\ tried \in [1..n -> 0..(MaxRetries + 1)]
                       /\ \A t \in 2..n : tried[t] > 0 => tried[t - 1] = MaxRetries + 1
  BY DEF InTurn
<1>2. s \in 1..n /\ DOMAIN tried = 1..n
  BY <1>1
<1> QED
  BY <1>1, <1>2, RdapAssumption

\* queryWithRetry of internal/rdap/client.go, whatever the servers do, however many they are
\* and wherever the deadline falls: no server is asked more than MaxRetries + 1 times, none
\* before the one in front of it has had all its attempts, none after one settled the query,
\* and the query fails for want of a server only when all have had all of theirs.
THEOREM RetriesAreExact == Spec => []RetriesExact
<1>1. CallsInv => RetriesExact
  <2> SUFFICES ASSUME CallsInv, NEW f \in Flights, call[f] # NoCall
               PROVE  ExactRetries(call[f])
    BY DEF RetriesExact, ExactRetries
  <2> DEFINE c == call[f]
             tried == c.heard.tried
  <2>1. CASE Asking(c)
    <3>1. /\ Len(c.servers) \in Nat /\ c.server \in 1..Len(c.servers)
          /\ c.attempt \in 0..(MaxRetries + 1)
          /\ tried = Spent(Len(c.servers), c.server, c.attempt)
      BY <2>1, RdapAssumption DEF Asking
    <3>2. InTurn(tried)
      BY <3>1, SpentInTurn
    <3>3. ~c.heard.settled /\ c.at # "over"
      BY <2>1 DEF Asking
    <3> HIDE DEF c
    <3>4. ExactRetries(c)
      BY <3>2, <3>3, TurnsAreExact DEF ExactRetries
    <3> QED
      BY <3>4 DEF c
  <2>2. CASE Ended(c)
    <3>1. /\ InTurn(tried) /\ c.at = "over"
          /\ "AllServersFailed" \in c.err => \A s \in DOMAIN tried : tried[s] = MaxRetries + 1
      BY <2>2 DEF Ended
    <3> HIDE DEF c
    <3>2. ExactRetries(c)
      BY <3>1, TurnsAreExact DEF ExactRetries
    <3> QED
      BY <3>2 DEF c
  <2> QED
    BY <2>1, <2>2 DEF CallsInv, IsCall
<1> QED
  BY <1>1, CallsHold, PTL

-----------------------------------------------------------------------------
(* WHOIS *)

WhoisErrors ==
    {{"Other"}, {"NoWhoisServer"}, {"DiscoveryTimeout"}, {"WhoisTimeout"}, {"TooLarge"}}

\* A WHOIS query: one at IANA has the record that Connect updates; one that is over has
\* failed with an error of its own or has a text.
IsWhois(w) ==
    \/ w = NoCall
    \/ /\ w.at \in {"dialIANA", "readIANA"}
       /\ w = [at |-> w.at, of |-> w.of, span |-> w.span, due |-> w.due,
               deadline |-> w.deadline]
    \/ w.at \in {"known", "query"}
    \/ /\ w.at = "over"
       /\ w.err \in WhoisErrors \/ (w.err = {} /\ w.text \in {"record", "free"})

\* Inductive: the WHOIS queries are such queries.
WhoisInv ==
    /\ whois = [k \in Flights |-> whois[k]]
    /\ \A k \in Flights : IsWhois(whois[k])

\* A step of the query of k leaves it w; once the client is closed it does not ask a
\* domain's server with it.
Becomes(k, w) ==
    /\ IsWhois(w)
    /\ whois' = [whois EXCEPT ![k] = w]
    /\ (closed /\ w.at = "query") => whois[k].at = "query"

\* Helper: a failure.
LEMMA WhoisFailsWell ==
    ASSUME NEW err \in WhoisErrors
    PROVE  IsWhois(WhoisFails(err)) /\ WhoisFails(err).at = "over"
<1> DEFINE w == WhoisFails(err)
<1>1. w.at = "over" /\ w.err = err
  BY DEF WhoisFails, WhoisOver
<1> HIDE DEF w
<1>2. IsWhois(w)
  BY <1>1 DEF IsWhois
<1>3. IsWhois(w) /\ w.at = "over"
  BY <1>1, <1>2
<1> QED
  BY <1>3 DEF w

\* Helper: a query begins.
LEMMA WhoisBegins ==
    ASSUME NEW k, NEW domain, NEW deadline, WhoisQuery(k, domain, deadline)
    PROVE  \E w : Becomes(k, w)
<1> DEFINE span  == Smaller(WhoisTimeout, deadline - now)
           w     == [at |-> "dialIANA", of |-> domain, span |-> span, due |-> now + span,
                     deadline |-> deadline]
           known == Known(w, discovered[Last(domain)].server)
<1>1. CASE closed \/ Len(domain) < 2
  <2>1. whois' = [whois EXCEPT ![k] = WhoisFails({"Other"})]
    BY <1>1 DEF WhoisQuery
  <2>2. IsWhois(WhoisFails({"Other"})) /\ WhoisFails({"Other"}).at = "over"
    BY WhoisFailsWell DEF WhoisErrors
  <2>3. Becomes(k, WhoisFails({"Other"}))
    BY <2>1, <2>2 DEF Becomes
  <2> QED
    BY <2>3
<1>2. CASE ~(closed \/ Len(domain) < 2) /\ Fresh(Last(domain))
  <2>1. whois' = [whois EXCEPT ![k] = known]
    BY <1>2 DEF WhoisQuery
  <2>2. known.at = "known"
    BY DEF Known
  <2> HIDE DEF known
  <2>3. Becomes(k, known)
    BY <2>1, <2>2 DEF Becomes, IsWhois
  <2> QED
    BY <2>3
<1>3. CASE ~(closed \/ Len(domain) < 2) /\ ~Fresh(Last(domain))
  <2>1. whois' = [whois EXCEPT ![k] = w]
    BY <1>3 DEF WhoisQuery
  <2>2. w.at = "dialIANA" /\ w = [at |-> w.at, of |-> w.of, span |-> w.span, due |-> w.due,
                                  deadline |-> w.deadline]
    OBVIOUS
  <2> HIDE DEF w
  <2>3. Becomes(k, w)
    BY <2>1, <2>2 DEF Becomes, IsWhois
  <2> QED
    BY <2>3
<1> QED
  BY <1>1, <1>2, <1>3

\* Helper: the discovery at IANA.
LEMMA DiscoverySteps ==
    ASSUME WhoisInv, NEW k \in Flights, Connect(k) \/ Discover(k) \/ DiscoverFails(k)
    PROVE  \E w : Becomes(k, w)
<1> DEFINE v == whois[k]
<1>1. CASE Connect(k)
  <2> DEFINE d == [v EXCEPT !.at = "readIANA"]
             w == [d EXCEPT !.due = now + v.span]
  <2>1. v = [at |-> v.at, of |-> v.of, span |-> v.span, due |-> v.due,
             deadline |-> v.deadline]
    BY <1>1 DEF Connect, WhoisInv, IsWhois, NoCall
  <2>2. whois' = [whois EXCEPT ![k] = w]
    BY <1>1 DEF Connect, WhoisInv
  <2> HIDE DEF v
  <2>3. d = [at |-> "readIANA", of |-> v.of, span |-> v.span, due |-> v.due,
             deadline |-> v.deadline]
    BY <2>1
  <2> HIDE DEF d
  <2>4. w = [at |-> "readIANA", of |-> v.of, span |-> v.span, due |-> now + v.span,
             deadline |-> v.deadline]
    BY <2>3
  <2> HIDE DEF w
  <2>5. w.at = "readIANA" /\ w = [at |-> w.at, of |-> w.of, span |-> w.span, due |-> w.due,
                                  deadline |-> w.deadline]
    BY <2>4
  <2>6. Becomes(k, w)
    BY <2>2, <2>5 DEF Becomes, IsWhois
  <2> QED
    BY <2>6
<1>2. CASE Discover(k)
  <2> DEFINE server == WhoisServer[Last(v.of)]
             w == IF server = NoServerListed THEN WhoisFails({"NoWhoisServer"})
                                             ELSE Known(v, server)
  <2>1. whois' = [whois EXCEPT ![k] = w]
    BY <1>2 DEF Discover
  <2>2. Known(v, server).at = "known"
    BY DEF Known
  <2>3. IsWhois(w) /\ w.at # "query"
    BY <2>2, WhoisFailsWell DEF IsWhois, WhoisErrors
  <2> HIDE DEF w
  <2>4. Becomes(k, w)
    BY <2>1, <2>3 DEF Becomes
  <2> QED
    BY <2>4
<1>3. CASE DiscoverFails(k)
  <2> DEFINE err == IF v.at = "dialIANA" /\ now >= v.due THEN {"DiscoveryTimeout"}
                                                         ELSE {"Other"}
  <2>1. whois' = [whois EXCEPT ![k] = WhoisFails(err)]
    BY <1>3 DEF DiscoverFails
  <2>2. err \in WhoisErrors
    BY DEF WhoisErrors
  <2> HIDE DEF err
  <2>3. Becomes(k, WhoisFails(err))
    BY <2>1, <2>2, WhoisFailsWell DEF Becomes
  <2> QED
    BY <2>3
<1> QED
  BY <1>1, <1>2, <1>3

\* Helper: the query to the domain's server, for which the closed flag is read again.
LEMMA ServerSteps ==
    ASSUME WhoisInv, NEW k \in Flights,
           \/ QueryServer(k)
           \/ \E r \in WhoisReplies \union {"dialTimeout", "readTimeout"} : Exchange(k, r)
    PROVE  \E w : Becomes(k, w)
<1> DEFINE v == whois[k]
<1>1. CASE QueryServer(k)
  <2> DEFINE asked == [at |-> "query", of |-> v.of, server |-> v.server,
                       due |-> DeadlineAfter(WhoisTimeout, v.deadline),
                       deadline |-> v.deadline]
             w     == IF MaySend THEN asked ELSE WhoisFails({"Other"})
  <2>1. whois' = [whois EXCEPT ![k] = w]
    BY <1>1 DEF QueryServer
  <2>2. asked.at = "query"
    OBVIOUS
  <2> HIDE DEF asked
  <2>3. IsWhois(w) /\ (closed => w.at # "query")
    BY <2>2, WhoisFailsWell DEF IsWhois, MaySend, WhoisErrors
  <2> HIDE DEF w
  <2>4. Becomes(k, w)
    BY <2>1, <2>3 DEF Becomes
  <2> QED
    BY <2>4
<1>2. ASSUME NEW r \in WhoisReplies \union {"dialTimeout", "readTimeout"}, Exchange(k, r)
      PROVE  \E w : Becomes(k, w)
  <2> DEFINE err == WhoisErrorOf[r]
             w   == IF err = {} THEN WhoisOver({}, v.server, r) ELSE WhoisFails(err)
  <2>1. whois' = [whois EXCEPT ![k] = w]
    BY <1>2 DEF Exchange
  <2>2. err \in WhoisErrors \/ (err = {} /\ r \in {"record", "free"})
    BY PipelineAssumption DEF WhoisErrorOf, WhoisErrors
  <2> HIDE DEF err
  <2>3. err = {} => IsWhois(WhoisOver({}, v.server, r)) /\ WhoisOver({}, v.server, r).at = "over"
    BY <2>2 DEF WhoisOver, IsWhois
  <2>4. IsWhois(w) /\ w.at = "over"
    BY <2>2, <2>3, WhoisFailsWell DEF WhoisErrors
  <2> HIDE DEF w
  <2>5. Becomes(k, w)
    BY <2>1, <2>4 DEF Becomes
  <2> QED
    BY <2>5
<1> QED
  BY <1>1, <1>2

\* Helper: whatever happens concerns one WHOIS query or none.
LEMMA OneWhoisStep ==
    ASSUME WhoisInv, [Next]_vars
    PROVE  whois' = whois \/ \E k \in Flights : \E w : Becomes(k, w)
<1>1. ASSUME NEW k \in Flights, WhoisStep(k)
      PROVE  \E w : Becomes(k, w)
  BY <1>1, DiscoverySteps, ServerSteps DEF WhoisStep
<1>2. ASSUME NEW k \in Flights, FetchDomainViaWHOIS(k)
      PROVE  \E w : Becomes(k, w)
  BY <1>2, WhoisBegins DEF FetchDomainViaWHOIS
<1>3. ASSUME NEW k \in Flights, FlightEnds(k)
      PROVE  \E w : Becomes(k, w)
  <2>1. NoCall.at # "query" /\ IsWhois(NoCall)
    BY DEF NoCall, IsWhois
  <2>2. whois' = [whois EXCEPT ![k] = NoCall]
    BY <1>3 DEF FlightEnds
  <2>3. Becomes(k, NoCall)
    BY <2>1, <2>2 DEF Becomes
  <2> QED
    BY <2>3
<1>4. CASE \/ LookupSingle
           \/ \E w \in Lookups : ProcessBatchQuery(w) \/ GiveUp(w) \/ FlightStarts(w)
           \/ \E k \in Flights : RdapStep(k)
           \/ Respond
           \/ CloseHandler
           \/ Tick
           \/ UNCHANGED vars
  BY <1>4 DEF vars, whoisVars, LookupSingle, LookupDomain, LookupIP, LookupASN, LookupEntity,
              Begin, ProcessBatchQuery, GiveUp, FlightStarts, RdapStep, Respond, CloseHandler,
              Close, Tick
<1> QED
  BY <1>1, <1>2, <1>3, <1>4 DEF Next

\* Helper: the WHOIS queries stay what they are.
LEMMA WhoisHolds == Spec => []WhoisInv
<1>1. Init => WhoisInv
  BY DEF Init, WhoisInv, IsWhois
<1>2. WhoisInv /\ [Next]_vars => WhoisInv'
  <2> SUFFICES ASSUME WhoisInv, [Next]_vars
               PROVE  WhoisInv'
    OBVIOUS
  <2>1. CASE whois' = whois
    BY <2>1 DEF WhoisInv
  <2>2. ASSUME NEW k \in Flights, NEW w, Becomes(k, w)
        PROVE  WhoisInv'
    BY <2>2 DEF Becomes, WhoisInv
  <2> QED
    BY <2>1, <2>2, OneWhoisStep
<1> QED
  BY <1>1, <1>2, PTL DEF Spec

\* Client.closed of internal/whois is read when a query begins and again before it is sent to
\* the domain's server: however discoveries, the cache they share and Close interleave, no
\* query is sent there once the client is closed.
THEOREM ClosedSendsNothing == Spec => NoWhoisAfterClose
<1>1. WhoisInv /\ [Next]_vars =>
        [\A k \in Flights : (closed /\ whois'[k].at = "query") => whois[k].at = "query"]_vars
  <2> SUFFICES ASSUME WhoisInv, [Next]_vars,
                      NEW j \in Flights, closed, whois'[j].at = "query"
               PROVE  whois[j].at = "query"
    OBVIOUS
  <2>1. CASE whois' = whois
    BY <2>1
  <2>2. ASSUME NEW k \in Flights, NEW w, Becomes(k, w)
        PROVE  whois[j].at = "query"
    <3>1. whois'[k] = w /\ (j # k => whois'[j] = whois[j])
      BY <2>2 DEF Becomes, WhoisInv
    <3> QED
      BY <2>2, <3>1 DEF Becomes
  <2> QED
    BY <2>1, <2>2, OneWhoisStep
<1> QED
  BY <1>1, WhoisHolds, PTL DEF Spec, NoWhoisAfterClose

-----------------------------------------------------------------------------
(* What is told and what is kept *)

Objects == {"data", "record", "free"}

\* Helper: what an upstream said in the end shows in the outcome of the fetch, through
\* the retries and the fallback.
LEMMA OutcomeIsTold ==
    ASSUME CallsInv, WhoisInv, NEW k \in Flights,
           call[k].at = "over", FallsBack(k) => whois[k].at = "over"
    PROVE  /\ Fetched(k).err = {} <=> Told(k) \in Objects
           /\ "NotFound" \in Fetched(k).err <=> Told(k) = "notFound"
           /\ Fetched(k).data # NoData
<1>1. Ended(call[k])
  BY CallKinds DEF CallsInv
<1>2. Fetched(k).data # NoData
  <2>1. "text" \in DOMAIN Fetched(k).data
    BY DEF Fetched
  <2>2. "text" \notin DOMAIN NoData
    BY DEF NoData
  <2> QED
    BY <2>1, <2>2
<1>3. CASE FallsBack(k)
  <2> DEFINE w == whois[k]
  <2>1. "NotFound" \notin w.err /\ (w.err = {} => w.text \in {"record", "free"})
    BY <1>3 DEF WhoisInv, IsWhois, NoCall, WhoisErrors
  <2>2. Fetched(k).err = w.err
    BY <1>3 DEF Fetched
  <2>3. Told(k) = IF w.err = {} THEN w.text ELSE "whoisError"
    BY <1>3 DEF Told
  <2> QED
    BY <1>2, <2>1, <2>2, <2>3 DEF Objects
<1>4. CASE ~FallsBack(k)
  <2> DEFINE c == call[k]
  <2>1. Fetched(k).err = c.err
    BY <1>4 DEF Fetched
  <2>2. /\ c.heard.tried # <<>> =>
              Told(k) = IF c.err = {"Deadline"} /\ c.heard.last # "cut" THEN "cancelled"
                        ELSE c.heard.last
        /\ (c.heard.tried = <<>> /\ c.err # {"Deadline"}) =>
              Told(k) \in {"noServer", "invalidInput", "notReady"}
    BY <1>4 DEF Told
  <2> HIDE DEF c
  <2>3. CASE c.heard.tried = <<>> /\ c.err \in UnaskedErrors
    <3>1. c.err # {} /\ c.err # {"Deadline"} /\ "NotFound" \notin c.err
      BY <2>3 DEF UnaskedErrors
    <3> QED
      BY <1>2, <2>1, <2>2, <2>3, <3>1 DEF Objects
  <2>4. CASE c.heard.tried # <<>> /\ Fits(c.err, c.heard.last)
    <3>1. /\ c.err = {} <=> c.heard.last = "data"
          /\ "NotFound" \in c.err <=> c.heard.last = "notFound"
          /\ c.heard.last \notin {"record", "free"}
          /\ c.err = {"Deadline"} => c.heard.last \notin {"data", "notFound"}
      BY <2>4, FitsTells
    <3> QED
      BY <1>2, <2>1, <2>2, <2>4, <3>1 DEF Objects
  <2> QED
    BY <1>1, <2>3, <2>4 DEF Ended, c
<1> QED
  BY <1>3, <1>4

\* Inductive: CacheFollowsUpstream, of functions on the keys.
CacheInv ==
    /\ cached = [k \in Flights |-> cached[k]]
    /\ told = [k \in Flights |-> told[k]]
    /\ CacheFollowsUpstream

\* Helper: what is kept stays what was told.
LEMMA CacheHolds == Spec => []CacheInv
<1>1. Init => CacheInv
  BY DEF Init, CacheInv, CacheFollowsUpstream
<1>2. CallsInv /\ WhoisInv /\ CacheInv /\ [Next]_vars => CacheInv'
  <2> SUFFICES ASSUME CallsInv, WhoisInv, CacheInv, [Next]_vars
               PROVE  CacheInv'
    OBVIOUS
  <2>1. CASE \/ LookupSingle
             \/ \E w \in Lookups : ProcessBatchQuery(w) \/ GiveUp(w) \/ FlightStarts(w)
             \/ \E k \in Flights : RdapStep(k) \/ WhoisStep(k) \/ FetchDomainViaWHOIS(k)
             \/ Respond
             \/ CloseHandler
             \/ Tick
             \/ UNCHANGED vars
    <3>1. cached' = cached /\ told' = told
      BY <2>1 DEF vars, LookupSingle, LookupDomain, LookupIP, LookupASN, LookupEntity,
                  Begin, ProcessBatchQuery, GiveUp, FlightStarts, RdapStep, WhoisStep,
                  FetchDomainViaWHOIS, Respond, CloseHandler, Tick
    <3> QED
      BY <3>1 DEF CacheInv, CacheFollowsUpstream
  <2>2. ASSUME NEW k \in Flights, FlightEnds(k)
        PROVE  CacheInv'
    <3> DEFINE o    == Fetched(k)
               kept == IF Denial(o.err) THEN [negative |-> TRUE, data |-> NoData]
                       ELSE IF o.err = {} THEN [negative |-> FALSE, data |-> o.data]
                       ELSE cached[k]
               all  == told[k] \union {Told(k)}
    <3>1. cached' = [cached EXCEPT ![k] = kept] /\ told' = [told EXCEPT ![k] = all]
      BY <2>2 DEF FlightEnds
    <3>2. /\ o.err = {} <=> Told(k) \in Objects
          /\ "NotFound" \in o.err <=> Told(k) = "notFound"
          /\ o.data # NoData
      BY <2>2, OutcomeIsTold DEF FlightEnds
    <3>3. /\ (cached[k] # Absent /\ cached[k].negative) => "notFound" \in told[k]
          /\ (cached[k] # Absent /\ ~cached[k].negative) => told[k] \intersect Objects # {}
          /\ cached[k] = Absent =>
                 told[k] \intersect {"data", "record", "free", "notFound"} = {}
      BY DEF CacheInv, CacheFollowsUpstream, Objects
    <3> HIDE DEF o
    <3>4. /\ (kept # Absent /\ kept.negative) => "notFound" \in all
          /\ (kept # Absent /\ ~kept.negative) => all \intersect Objects # {}
          /\ kept = Absent => all \intersect {"data", "record", "free", "notFound"} = {}
      <4>1. CASE Denial(o.err)
        <5>1. kept.negative /\ kept # Absent /\ "notFound" \in all
          BY <3>2, <4>1 DEF Denial, Absent
        <5> QED
          BY <5>1
      <4>2. CASE ~Denial(o.err) /\ o.err = {}
        <5>1. ~kept.negative /\ kept # Absent /\ all \intersect Objects # {}
          BY <3>2, <4>2 DEF Absent
        <5> QED
          BY <5>1
      <4>3. CASE ~Denial(o.err) /\ o.err # {}
        <5>1. Told(k) \notin Objects /\ Told(k) # "notFound" /\ kept = cached[k]
          BY <3>2, <4>3 DEF Denial
        <5> QED
          BY <3>3, <5>1 DEF Objects
      <4> QED
        BY <4>1, <4>2, <4>3
    <3> HIDE DEF kept, all
    <3>5. /\ cached'[k] = kept /\ told'[k] = all
          /\ \A j \in Flights : j # k => cached'[j] = cached[j] /\ told'[j] = told[j]
      BY <3>1 DEF CacheInv
    <3>6. CacheFollowsUpstream'
      BY <3>4, <3>5 DEF CacheInv, CacheFollowsUpstream, Objects
    <3>7. /\ cached' = [j \in Flights |-> cached'[j]]
          /\ told' = [j \in Flights |-> told'[j]]
      BY <3>1 DEF CacheInv
    <3> QED
      BY <3>6, <3>7 DEF CacheInv
  <2> QED
    BY <2>1, <2>2 DEF Next
<1> QED
  BY <1>1, <1>2, CallsHold, WhoisHolds, PTL DEF Spec

\* GetOrFetchWithNegative is given what the upstreams said: through retries, a fallback and
\* shared flights, an object is kept only when a fetch of the key brought one, a denial only
\* when a server denied it, and neither a failure nor a rate limit nor a deadline.
THEOREM CacheIsTrue == Spec => []CacheFollowsUpstream
<1>1. CacheInv => CacheFollowsUpstream
  BY DEF CacheInv
<1> QED
  BY <1>1, CacheHolds, PTL
=============================================================================
