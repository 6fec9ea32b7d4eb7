----------------------------- MODULE MCClientTool -----------------------------
(***************************************************************************)
(* A small instance of ClientTool: a lookup, a batch of two through one    *)
(* slot and two that close; command lines of each kind; and two feeds.     *)
(***************************************************************************)
EXTENDS ClientTool, TLC

CONSTANTS Value, Free, Entity, Address, w1, w2, NoQuery
\* An argument, the keys of a name, of a barred entity and of an address, the workers of a batch

MCQueries == (w1 :> {Free}) @@ (w2 :> {Entity, NoQuery})

MCKeyOf == [a \in {Value, "other"} |-> IF a = Value THEN Free ELSE Entity]

\* Two entries of one domain, of which one has an address and the other one that does not
\* parse; and one whose host is an address.
MCFeeds == {{[host |-> Free, ip |-> Address], [host |-> Free, ip |-> Entity]},
            {[host |-> NoQuery, ip |-> Address]}}

\* Lines that run, among them what the help says of options behind the command, and
\* lines of the help that do not.
MCLines ==
    {<<>>, <<"version">>, <<"domain", "-h">>, <<"domain", "-t", "bad", Value>>, <<"ip", "-s">>,
     <<"domain", Value, "-q">>, <<"asn", "-t", "30s", Value, "-S">>, <<"asn", "-S", "other">>,
     <<"entity", Value, "--rdap-server", Value>>, <<"entity", Value>>, <<"batch", "-">>,
     <<"-S", "domain", Value>>, <<"batch", "-S", Value, Value>>, <<"batch", Value>>,
     <<"batch", "bad">>, <<"domain">>, <<"health">>, <<"health", "-S">>}
=============================================================================
