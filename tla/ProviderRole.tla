---------------------------- MODULE ProviderRole ----------------------------
(***************************************************************************)
(* What the registry of UI providers promises, without sockets, heartbeats *)
(* or messages: providers come with a priority and go, and at every moment *)
(* one of the highest priority holds the role, if there is any at all.     *)
(***************************************************************************)
EXTENDS Integers

CONSTANTS
    UIs,         \* clients that may register
    Priorities,
    Nobody

VARIABLES
    priority,    \* priority of each registered UI
    holder       \* the UI that may answer

Candidates(table) ==
    IF DOMAIN table = {}
    THEN {Nobody}
    ELSE {u \in DOMAIN table : \A v \in DOMAIN table : table[v] <= table[u]}

Init == DOMAIN priority = {} /\ holder = Nobody

\* Some UIs go, and at most one joins or joins again.
Leave(gone) == priority' = [u \in DOMAIN priority \ gone |-> priority[u]]

Join(gone, new, p) ==
    priority' = [u \in (DOMAIN priority \ gone) \cup {new} |->
                    IF u = new THEN p ELSE priority[u]]

Next ==
    /\ \E gone \in SUBSET DOMAIN priority :
          \/ Leave(gone)
          \/ \E new \in UIs, p \in Priorities : Join(gone, new, p)
    /\ holder' \in Candidates(priority')

Spec == Init /\ [][Next]_<<priority, holder>>
=============================================================================
