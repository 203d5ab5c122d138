---------------------------- MODULE EventStream ----------------------------
(***************************************************************************)
(* What the pull side of the events promises its readers, without sockets, *)
(* waiters or messages: a stream that keeps the latest events, at most     *)
(* Capacity of them, and that they leave oldest first.  One that leaves    *)
(* goes to one reader or to nobody, for good.                              *)
(***************************************************************************)
EXTENDS Integers

CONSTANTS
    Readers,   \* clients that may ask
    Capacity   \* most events that are kept

VARIABLES
    first, last,  \* the events first..last are kept
    given,        \* the reader of each event that had one
    lost          \* the events that had none

Init ==
    /\ first = 1 /\ last = 0
    /\ DOMAIN given = {}
    /\ lost = {}

Give(r) ==
    /\ given' = [e \in DOMAIN given \cup {first} |-> IF e = first THEN r ELSE given[e]]
    /\ UNCHANGED lost

Lose == lost' = lost \cup {first} /\ UNCHANGED given

\* The oldest event leaves.
Leave ==
    /\ first' = first + 1
    /\ (\E r \in Readers : Give(r)) \/ Lose

Take == first <= last /\ Leave /\ UNCHANGED last

\* Another event: it is kept, if need be in place of the oldest; or nothing is
\* kept, and it leaves at once.
Arrive ==
    /\ last' = last + 1
    /\ \/ last - first + 1 < Capacity /\ UNCHANGED <<first, given, lost>>
       \/ last - first + 1 = Capacity /\ first' = first + 1 /\ Lose
       \/ first = last + 1 /\ Leave

Next == Take \/ Arrive

Spec == Init /\ [][Next]_<<first, last, given, lost>>
=============================================================================
