----------------------------- MODULE Governance -----------------------------
(***************************************************************************)
(* What the gateway promises about governed calls, without tasks, clocks,  *)
(* transactions, attempts or a network.  A call is an intent that is       *)
(* admitted at most once and settled at most once.  A token is the         *)
(* permission a human gives: it is asked for, granted or closed, and spent *)
(* by the admission of one intent, in one step with it.                    *)
(***************************************************************************)
CONSTANTS
    Calls,      \* intents; also the identities of the tokens they ask for
    None,       \* no token
    Terms,      \* what an intent is about, and what a token is good for
    Verdicts    \* the ways an admitted intent may be settled

VARIABLES
    terms,      \* the terms of each intent, and of the token it asks for
    free,       \* the intents that need no token
    token,      \* "unasked", "asked", "granted", "closed" or "spent"
    intent,     \* "new", "open", or the verdict
    basis       \* the token an admitted intent was admitted on

gvars == <<terms, free, token, intent, basis>>

GInit ==
    /\ terms \in [Calls -> Terms]
    /\ free \subseteq Calls
    /\ token = [a \in Calls |-> "unasked"]
    /\ intent = [c \in Calls |-> "new"]
    /\ basis = [c \in Calls |-> None]

Move(a, from, to) ==
    /\ token[a] = from
    /\ token' = [token EXCEPT ![a] = to]
    /\ UNCHANGED <<terms, free, intent, basis>>

Ask(a) == Move(a, "unasked", "asked")
Grant(a) == Move(a, "asked", "granted")
Close(a) == Move(a, "asked", "closed") \/ Move(a, "granted", "closed")

AdmitFreely(c) ==
    /\ intent[c] = "new"
    /\ c \in free
    /\ intent' = [intent EXCEPT ![c] = "open"]
    /\ UNCHANGED <<terms, free, token, basis>>

AdmitOn(c, a) ==
    /\ intent[c] = "new"
    /\ token[a] = "granted"
    /\ terms[a] = terms[c]
    /\ intent' = [intent EXCEPT ![c] = "open"]
    /\ token' = [token EXCEPT ![a] = "spent"]
    /\ basis' = [basis EXCEPT ![c] = a]
    /\ UNCHANGED <<terms, free>>

Settle(c) ==
    /\ intent[c] = "open"
    /\ \E v \in Verdicts : intent' = [intent EXCEPT ![c] = v]
    /\ UNCHANGED <<terms, free, token, basis>>

GNext ==
    \/ \E a \in Calls : Ask(a) \/ Grant(a) \/ Close(a)
    \/ \E c \in Calls :
          \/ AdmitFreely(c) \/ Settle(c)
          \/ \E a \in Calls : AdmitOn(c, a)

GSpec == GInit /\ [][GNext]_gvars
=============================================================================
