----------------------------- MODULE AnswerService -----------------------------
(***************************************************************************)
(* What the tiered cache promises its callers, without tiers, flights or   *)
(* expiry: a caller that asks about a key gets a failure, or an answer     *)
(* that the upstream gave for that very key and that is not too old, where *)
(* "not found" may have a shorter life than a positive answer.             *)
(***************************************************************************)
EXTENDS Integers

CONSTANTS
    Callers, Keys,
    FoundAge,     \* how old a positive answer may be when it is served
    MissingAge,   \* how old a "not found" may be when it is served
    Failures,     \* the errors a call may end in
    Nobody,       \* the caller has not asked
    NoAnswer      \* the caller has not been answered

VARIABLES now, obtained, asking, answer

serviceVars == <<now, obtained, asking, answer>>

Answer == [found: BOOLEAN, at: Nat, ver: Nat]

ServiceInit ==
    /\ now = 0
    /\ obtained = [k \in Keys |-> {}]
    /\ asking = [c \in Callers |-> Nobody]
    /\ answer = [c \in Callers |-> NoAnswer]

\* The answers about k that may still be served.
Servable(k) ==
    {a \in obtained[k] : now - a.at <= IF a.found THEN FoundAge ELSE MissingAge}

Ask ==
    /\ \E c \in Callers, k \in Keys :
        /\ asking[c] = Nobody
        /\ asking' = [asking EXCEPT ![c] = k]
        /\ answer' = [answer EXCEPT ![c] = NoAnswer]
    /\ UNCHANGED <<now, obtained>>

\* The upstream answers: the new answer is later than every earlier one.
Obtain ==
    /\ \E k \in Keys :
        /\ \E a \in obtained'[k] :
            /\ obtained' = [obtained EXCEPT ![k] = @ \union {a}]
            /\ a.at = now
            /\ \A j \in Keys : \A b \in obtained[j] : a.ver > b.ver
    /\ UNCHANGED <<now, asking, answer>>

\* One reply may serve several callers that wait for the same answer.
Reply ==
    /\ \A c \in Callers :
        \/ asking'[c] = asking[c] /\ answer'[c] = answer[c]
        \/ /\ asking[c] \in Keys
           /\ asking'[c] = Nobody
           /\ answer'[c] \in Servable(asking[c]) \union Failures
    /\ UNCHANGED <<now, obtained>>

\* The process restarts: its callers are cut off, no answer is delivered.
Abandon ==
    /\ asking' = [c \in Callers |-> Nobody]
    /\ UNCHANGED <<now, obtained, answer>>

Pass == now' > now /\ UNCHANGED <<obtained, asking, answer>>

ServiceNext == Ask \/ Obtain \/ Reply \/ Abandon \/ Pass

ServiceSpec == ServiceInit /\ [][ServiceNext]_serviceVars
=============================================================================
