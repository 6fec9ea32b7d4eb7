--------------------------- MODULE MCLookupPipeline ---------------------------
(***************************************************************************)
(* A small instance of LookupPipeline: com has two RDAP servers, de has    *)
(* only a WHOIS server, xy has none.                                       *)
(***************************************************************************)
EXTENDS LookupPipeline

CONSTANT Bad

Domain(tld) == [kind |-> "domain", value |-> <<"name", tld>>, server |-> Bad]
Entity(server) == [kind |-> "entity", value |-> "H", server |-> server]
Ip(addr) == [kind |-> "ip", value |-> [family |-> 4, addr |-> addr], server |-> Bad]
Asn(n) == [kind |-> "asn", value |-> n, server |-> Bad]
Other(kind, value) == [kind |-> kind, value |-> value, server |-> Bad]

\* Lookups that share a key; one that waits for the only slot, before WHOIS and behind
\* it; one entity at two servers; what is refused, and what nothing speaks for.
MCMixes ==
    {[single |-> Domain("com"), batch |-> <<Domain("com"), Domain("com")>>],
     [single |-> Domain("de"), batch |-> <<Domain("de"), Domain("com")>>],
     [single |-> Entity("A"), batch |-> <<Entity("B"), Entity("A")>>],
     [single |-> Asn(2), batch |-> <<Ip(1), Entity("evil")>>],
     [single |-> Ip(1), batch |-> <<Asn(2)>>],
     [single |-> Other("domain", Bad),
      batch |-> <<Other("nameserver", "H"), Entity(Bad), Other("domain", Bad), Asn(9),
                 Domain("xy")>>]}

Queries == UNION {{m.single} \union ToSet(m.batch) : m \in MCMixes}
MCFlights == {CacheKey(q) : q \in Queries}

MCHostOf == [u \in {"A", "A2", "B", "evil"} |->
                CASE u \in {"A", "A2"} -> "a.example" [] u = "B" -> "b.example"
                  [] OTHER -> "evil.example"]

Service(keys, urls) == [keys |-> keys, urls |-> urls]
Net(family, addr, bits) == [family |-> family, addr |-> addr, bits |-> bits]

MCFiles ==
    [dns |-> <<Service(<<"com">>, <<"A", "B">>)>>,
     ip4 |-> <<Service(<<Net(4, 0, 1)>>, <<"A">>)>>,
     ip6 |-> <<Service(<<Net(6, 0, 1)>>, <<"B">>)>>,
     asn |-> <<Service(<<[start |-> 1, end |-> 3]>>, <<"B">>)>>]

MCWhoisServer ==
    [tld \in {"com", "de", "xy"} |-> CASE tld = "com" -> "V" [] tld = "de" -> "W"
                                       [] OTHER -> NoServerListed]

\* The files of TablesAgree.
Lists(S) == BoundedSeq(S, 2)
Nets == {Net(4, 0, 0), Net(4, 0, 1), Net(4, 2, 1), Net(4, 0, 2), Net(4, 1, 2), Net(6, 0, 1)}
Spans == {[start |-> s, end |-> e] : s, e \in 1..3}
MCSmallFiles ==
    [dns |-> BoundedSeq({Service(k, u) : k \in Lists({"com", "net", Bad}),
                                         u \in {<<>>, <<"A", "B">>, <<"B", Bad>>, <<Bad>>}}
                        \union {Bad}, 2),
     tlds |-> {"com", "net"},
     ip |-> BoundedSeq({Service(k, u) : k \in BoundedSeq(Nets \union {Bad}, 1)
                                              \union {<<Net(4, 0, 1), Net(4, 0, 2)>>},
                                        u \in {<<"A">>, <<"B">>, <<Bad>>}}, 2),
     networks |-> Nets,
     asn |-> BoundedSeq({Service(<<k>>, u) : k \in Spans, u \in {<<"A">>, <<"B">>}}, 3),
     ranges |-> Spans,
     numbers |-> 1..3]
=============================================================================
