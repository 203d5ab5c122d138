----------------------------- MODULE PromptLife -----------------------------
(***************************************************************************)
(* What the two sides of the keyring promise about one prompt, without     *)
(* connections, threads or processes: it comes on the screen at most once  *)
(* and, having left it, does not come back.  A prompt may also end unseen. *)
(***************************************************************************)
CONSTANT Cookies   \* names of prompts

VARIABLE status    \* where each prompt is in its life

Init == status = [c \in Cookies |-> "new"]

Appear(c) ==
    /\ status[c] = "new"
    /\ status' = [status EXCEPT ![c] = "open"]

\* A process that dies takes several with it.
Vanish(C) ==
    status' = [c \in Cookies |-> IF c \in C THEN "ended" ELSE status[c]]

Next ==
    \/ \E c \in Cookies : Appear(c)
    \/ \E C \in SUBSET Cookies : Vanish(C)

Spec == Init /\ [][Next]_status
=============================================================================
