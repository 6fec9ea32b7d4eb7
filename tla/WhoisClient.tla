------------------------------ MODULE WhoisClient ------------------------------
(***************************************************************************)
(* internal/whois: a query for a domain finds the server of its TLD, in    *)
(* the discovery cache or at whois.iana.org, and asks it (client.go,       *)
(* discovery.go).  Queries of several flights share the cache and the      *)
(* closed flag, which Close sets while they may be under way.              *)
(*                                                                         *)
(* Abstractions: a query to a domain's server is one exchange, which its   *)
(* deadline may end while it dials or while it reads; a response is a      *)
(* record of the domain, or says that the domain is free, which nobody     *)
(* looks at before the parser.  A domain is the sequence of its labels.    *)
(***************************************************************************)
EXTENDS FetchContext, Sequences, SequencesExt

CONSTANTS
    WhoisServer,    \* TLD -> what IANA answers: a server, or NoServerListed
    NoServerListed,
    WhoisTimeout,   \* of a query, and of a discovery
    DiscoveryTTL,
    NoEntry         \* the TLD is not in the cache

ASSUME WhoisAssumption == WhoisTimeout \in Nat \ {0} /\ DiscoveryTTL \in Nat

VARIABLES
    whois,      \* the WHOIS query of each flight
    discovered, \* Discovery.cache
    closed      \* Client.closed

TLDs == DOMAIN WhoisServer

\* What an exchange comes to, and the error it ends in.  A deadline is known as one
\* only while the connection is dialled.
WhoisErrorOf ==
    [record |-> {}, free |-> {}, tooLarge |-> {"TooLarge"}, refused |-> {"Other"},
     dialTimeout |-> {"WhoisTimeout"}, readTimeout |-> {"Other"}]

WhoisOver(err, by, text) == [at |-> "over", err |-> err, by |-> by, text |-> text]
WhoisFails(err) == WhoisOver(err, "", "none")

\* getCached: an expired entry stays and counts as none.
Fresh(tld) == discovered[tld] # NoEntry /\ now - discovered[tld].at <= DiscoveryTTL

Known(w, server) == [at |-> "known", of |-> w.of, server |-> server, deadline |-> w.deadline]

-----------------------------------------------------------------------------
\* Query, and DiscoverServer up to the cache: closed, or a domain without a dot.  The
\* timeout of a discovery is what the context leaves of it at its start.
WhoisQuery(f, domain, deadline) ==
    LET span == Smaller(WhoisTimeout, deadline - now)
        w == [at |-> "dialIANA", of |-> domain, span |-> span, due |-> now + span,
              deadline |-> deadline]
    IN /\ whois[f] = NoCall
       /\ whois' = [whois EXCEPT ![f] =
              IF closed \/ Len(domain) < 2 THEN WhoisFails({"Other"})
              ELSE IF Fresh(Last(domain)) THEN Known(w, discovered[Last(domain)].server)
              ELSE w]
       /\ UNCHANGED <<discovered, closed>>

\* The connection to IANA stands, and the timeout counts again from here.
Connect(f) ==
    /\ whois[f].at = "dialIANA" /\ now < whois[f].due
    /\ whois' = [whois EXCEPT ![f].at = "readIANA", ![f].due = now + whois[f].span]
    /\ UNCHANGED <<discovered, closed>>

\* IANA names a server, which is cached whether or not the client is closed by now,
\* or names none.
Discover(f) ==
    LET tld == Last(whois[f].of)
    IN /\ whois[f].at = "readIANA" /\ now < whois[f].due
       /\ IF WhoisServer[tld] = NoServerListed
          THEN /\ whois' = [whois EXCEPT ![f] = WhoisFails({"NoWhoisServer"})]
               /\ UNCHANGED discovered
          ELSE /\ whois' = [whois EXCEPT ![f] = Known(@, WhoisServer[tld])]
               /\ discovered' = [discovered EXCEPT ![tld] =
                                     [server |-> WhoisServer[tld], at |-> now]]
       /\ UNCHANGED closed

\* IANA cannot be reached, breaks off, or does not answer in time, which is known as
\* a timeout only while it is dialled.
DiscoverFails(f) ==
    /\ whois[f].at \in {"dialIANA", "readIANA"}
    /\ whois' = [whois EXCEPT ![f] = WhoisFails(
           IF @.at = "dialIANA" /\ now >= @.due THEN {"DiscoveryTimeout"} ELSE {"Other"})]
    /\ UNCHANGED <<discovered, closed>>

\* Mutant: the closed flag is read once, at the start of the query.
MaySendAnyhow == TRUE
\* QueryServer reads the closed flag again.
MaySend == ~closed

QueryServer(f) ==
    /\ whois[f].at = "known"
    /\ whois' = [whois EXCEPT ![f] =
           IF MaySend
           THEN [at |-> "query", of |-> @.of, server |-> @.server,
                 due |-> DeadlineAfter(WhoisTimeout, @.deadline), deadline |-> @.deadline]
           ELSE WhoisFails({"Other"})]
    /\ UNCHANGED <<discovered, closed>>

Exchange(f, r) ==
    /\ whois[f].at = "query"
    /\ IF r \in {"dialTimeout", "readTimeout"} THEN now >= whois[f].due
                                               ELSE now < whois[f].due
    /\ whois' = [whois EXCEPT ![f] =
           IF WhoisErrorOf[r] = {} THEN WhoisOver({}, @.server, r)
                                   ELSE WhoisFails(WhoisErrorOf[r])]
    /\ UNCHANGED <<discovered, closed>>

\* Close waits for nobody; a second one does nothing.
Close ==
    /\ ~closed
    /\ closed' = TRUE
    /\ discovered' = [tld \in TLDs |-> NoEntry]
    /\ UNCHANGED whois

WhoisUrgent(f) ==
    /\ whois[f].at \in {"dialIANA", "readIANA", "query"}
    /\ now >= whois[f].due
=============================================================================
