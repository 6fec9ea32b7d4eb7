---------------------------- MODULE ResolverTables ----------------------------
(***************************************************************************)
(* The tables of internal/bootstrap: how the loader builds them from the   *)
(* services of an IANA file (loader.go), how the resolver searches them    *)
(* (resolver.go), and the hosts that internal/validate/url.go takes from   *)
(* their URLs.                                                             *)
(*                                                                         *)
(* Abstractions: a file is the sequence of its services, a service has a   *)
(* sequence of keys and one of URLs.  A domain is the sequence of its      *)
(* labels in lower case.  An address has AddrBits bits, a network is its   *)
(* first address and its length.  A key that does not parse, a member that *)
(* is no string, a service that is no pair of lists and an empty domain,   *)
(* address or handle are all Malformed.                                    *)
(***************************************************************************)
EXTENDS Integers, Sequences, FiniteSets, FiniteSetsExt, SequencesExt, Functions

CONSTANTS
    AddrBits,    \* width of an address
    Malformed,
    HostOf       \* URL -> its host without a default port, Malformed if it has none

ASSUME AddrBitsAssumption == AddrBits \in Nat

URLs == DOMAIN HostOf

\* A network is its first address and its length, as IANA writes it.
Networks == {n \in [family : {4, 6}, addr : Nat, bits : 0..AddrBits] :
                 LET size == 2 ^ (AddrBits - n.bits) IN n.addr = (n.addr \div size) * size}

AsRanges == [start : Nat, end : Nat]

\* The files whose services are for keys in K.
FilesFor(K) ==
    Seq({Malformed} \union [keys : Seq(K \union {Malformed}), urls : Seq(URLs \union {Malformed})])

-----------------------------------------------------------------------------
(* loader.go *)

\* The members of a sequence that are in S, in their order; loops skip the others.
Only(seq, S) ==
    LET Upto[i \in 0..Len(seq)] ==
            IF i = 0 THEN <<>>
            ELSE IF seq[i] \in S THEN Append(Upto[i - 1], seq[i]) ELSE Upto[i - 1]
    IN Upto[Len(seq)]

Proper(seq) == Only(seq, ToSet(seq) \ {Malformed})

\* The (key, URLs) pairs of a service.  One without keys or without URLs is an error, and
\* skipped.
PairsOf(service) ==
    IF service = Malformed THEN <<>>
    ELSE LET keys == Proper(service.keys)
             urls == Proper(service.urls)
         IN IF urls = <<>> THEN <<>>
            ELSE [j \in DOMAIN keys |-> [key |-> keys[j], urls |-> urls]]

\* Those of a file in the order in which the loader meets them.
Pairs(file) == FlattenSeq([i \in DOMAIN file |-> PairsOf(file[i])])

\* Mutant: the first pair of a key stays.
TableOfFirst(pairs) ==
    [k \in {pairs[i].key : i \in DOMAIN pairs} |->
        pairs[Min({i \in DOMAIN pairs : pairs[i].key = k})].urls]
\* A Go map, or a trie, filled in order: the last pair of a key wins.
TableOf(pairs) ==
    [k \in {pairs[i].key : i \in DOMAIN pairs} |->
        pairs[Max({i \in DOMAIN pairs : pairs[i].key = k})].urls]

LoadDNS(file) == TableOf(Pairs(file))

\* Keys of the other family are skipped.
OfFamily(pairs, family) == Only(pairs, {p \in ToSet(pairs) : p.key.family = family})

LoadIPv4(file) == TableOf(OfFamily(Pairs(file), 4))
LoadIPv6(file) == TableOf(OfFamily(Pairs(file), 6))

\* parseASNRange: a range that ends before it starts is an error.
ParsesAsRange(key) == key.start <= key.end

RangesOf(pairs) == Only(pairs, {p \in ToSet(pairs) : ParsesAsRange(p.key)})

\* The ranges sorted by their start.  sort.Slice is not stable: ranges with the
\* same start may come out in any order.
LoadASN(file) ==
    LET ranges == RangesOf(Pairs(file))
        orders == {o \in [DOMAIN ranges -> DOMAIN ranges] : IsInjective(o)}
    IN {s \in {[i \in DOMAIN ranges |-> ranges[o[i]]] : o \in orders} :
            \A i, j \in DOMAIN s : i < j => s[i].key.start <= s[j].key.start}

-----------------------------------------------------------------------------
(* resolver.go *)

Answer(urls) == [urls |-> urls, err |-> {}]
Failure(err) == [urls |-> <<>>, err |-> {err}]

ResolveDomain(table, domain) ==
    IF domain = Malformed THEN Failure("InvalidInput")
    ELSE IF DOMAIN table = {} THEN Failure("NotInitialized")
    ELSE IF Last(domain) \notin DOMAIN table THEN Failure("NoServer")
    ELSE Answer(table[Last(domain)])

Covers(network, addr) ==
    LET size == 2 ^ (AddrBits - network.bits)
    IN addr \div size = network.addr \div size

\* Of the networks that contain the address, in whatever order they come, the one
\* with the most bits.
ResolveIn(table, addr) ==
    LET found == {n \in DOMAIN table : Covers(n, addr)}
    IN IF DOMAIN table = {} THEN Failure("NotInitialized")
       ELSE IF found = {} THEN Failure("NoServer")
       ELSE Answer(table[CHOOSE n \in found : \A m \in found : m.bits <= n.bits])

ResolveIP(ip4, ip6, ip) ==
    IF ip = Malformed THEN Failure("InvalidInput")
    ELSE ResolveIn(IF ip.family = 4 THEN ip4 ELSE ip6, ip.addr)

\* Mutant: the search ends one range early.
StartingByBefore(ranges, asn) == Cardinality({i \in DOMAIN ranges : ranges[i].key.start < asn})
\* How many ranges start at or before asn: sort.Search on the sorted ranges.
StartingBy(ranges, asn) == Cardinality({i \in DOMAIN ranges : ranges[i].key.start <= asn})

\* The loop backwards over these stops at the last of them in any case: it
\* contains asn, or it ends before it.
ResolveASN(ranges, asn) ==
    LET last == StartingBy(ranges, asn)
    IN IF asn = 0 THEN Failure("InvalidInput")
       ELSE IF ranges = <<>> THEN Failure("NotInitialized")
       ELSE IF last > 0 /\ asn <= ranges[last].key.end THEN Answer(ranges[last].urls)
       ELSE Failure("NoServer")

\* Of the four tables together.
GetAllRDAPServers(tables) ==
    UNION {ToSet(urls) : urls \in Range(tables.dns) \union Range(tables.ip4)
                                      \union Range(tables.ip6)}
        \union UNION {ToSet(tables.asn[i].urls) : i \in DOMAIN tables.asn}

\* Hosts are compared; a URL without one is never allowed.
IsAllowed(servers, url) ==
    HostOf[url] # Malformed /\ HostOf[url] \in {HostOf[u] : u \in servers}

-----------------------------------------------------------------------------
(* What the tables are for, said of the files without the loader's words. *)

\* Service i of the file speaks for key k.
Speaks(file, i, k) ==
    /\ file[i] # Malformed
    /\ k \in ToSet(file[i].keys)
    /\ ToSet(file[i].urls) \notin SUBSET {Malformed}

\* It gave the answer: its URLs, as they stand, are the answer's.
Gave(file, i, answer) == answer = Answer(Proper(file[i].urls))

\* No answer was due.
Silent(answer) == answer.err \in {{"NoServer"}, {"NotInitialized"}}

\* The answer comes from the last service that speaks for the TLD.
DomainAgrees(file, tld) ==
    LET speaking == {i \in DOMAIN file : Speaks(file, i, tld)}
        answer == ResolveDomain(LoadDNS(file), <<"name", tld>>)
    IN IF speaking = {} THEN Silent(answer) ELSE Gave(file, Max(speaking), answer)

\* The answer comes from a service that speaks for a network of the address, and no
\* service speaks for a longer one, nor a later one for the same.
AddressAgrees(file, networks, addr) ==
    LET answer == ResolveIP(LoadIPv4(file), LoadIPv6(file), [family |-> 4, addr |-> addr])
        best == {b \in (DOMAIN file) \X networks :
                    Speaks(file, b[1], b[2]) /\ Covers(b[2], addr) /\ b[2].family = 4}
    IN \/ best = {} /\ Silent(answer)
       \/ \E b \in best : /\ Gave(file, b[1], answer)
                          /\ \A c \in best : \/ c[2].bits < b[2].bits
                                             \/ c[2] = b[2] /\ c[1] <= b[1]

\* The answer comes from a service that speaks for a range with the number, whatever
\* order the sort leaves; it is missing only where there is none, or where two of the
\* file's ranges overlap (which IANA's do not).
NumberAgrees(file, ranges, asn) ==
    LET speaking == {s \in (DOMAIN file) \X ranges :
                        Speaks(file, s[1], s[2]) /\ s[2].start <= s[2].end}
        holding == {s \in speaking : s[2].start <= asn /\ asn <= s[2].end}
        disjoint == \A s, t \in speaking :
                        s = t \/ s[2].end < t[2].start \/ t[2].end < s[2].start
    IN \A table \in LoadASN(file) :
           LET answer == ResolveASN(table, asn)
           IN \/ \E s \in holding : Gave(file, s[1], answer)
              \/ Silent(answer) /\ (disjoint => holding = {})
=============================================================================
