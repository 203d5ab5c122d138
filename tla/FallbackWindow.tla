--------------------------- MODULE FallbackWindow ---------------------------
(***************************************************************************)
(* The fallback window (src/fallback/FallbackWindow.cpp): which session it *)
(* shows, whether it is visible and whether it waits for the daemon, and   *)
(* its two timers.  It shows one session, the one created last.  The slots *)
(* are operators here; FallbackClient calls them where it emits the        *)
(* signals.  Layout, texts and the reading of prompts are left out.        *)
(***************************************************************************)
EXTENDS FallbackProcess

VARIABLES
    shown,    \* m_currentSessionId
    visible,  \* isVisible()
    busy,     \* m_busy: the buttons are disabled
    idle,     \* m_idleExitTimer runs
    clears,   \* delayed clears of closed sessions that are still to fire
    failed    \* history: the session shown was closed with an error

windowVars == <<shown, visible, busy, idle, clears, failed>>

WindowTypeOK ==
    /\ shown \in Ids \cup {NoId}
    /\ visible \in BOOLEAN
    /\ busy \in BOOLEAN
    /\ idle \in BOOLEAN
    /\ clears \in Nat
    /\ failed \in BOOLEAN

WindowInit ==
    /\ shown = NoId
    /\ visible = FALSE
    /\ busy = FALSE
    /\ idle = FALSE
    /\ clears = 0
    /\ failed = FALSE

\* The process ends and takes the window with it.
windowGone ==
    /\ shown' = NoId
    /\ visible' = FALSE
    /\ busy' = FALSE
    /\ idle' = FALSE
    /\ clears' = 0
    /\ failed' = FALSE

\* clearSession(), hide() and startIdleExitTimer(), which come together.
dismiss ==
    /\ shown' = NoId
    /\ visible' = FALSE
    /\ idle' = TRUE
    /\ failed' = FALSE

sessionCreated(c) ==
    /\ shown' = c
    /\ visible' = TRUE
    /\ busy' = FALSE
    /\ idle' = FALSE
    /\ failed' = FALSE
    /\ UNCHANGED clears

\* Mutant: an update leaves the buttons as they are.
sessionUpdatedOnly(c) == UNCHANGED windowVars

sessionUpdated(c) ==
    /\ busy' = (busy /\ c # shown)
    /\ UNCHANGED <<shown, visible, idle, clears, failed>>

\* A success stays on the screen for 300 ms, an error until the user acts.
sessionClosed(c, result) ==
    \/ /\ c # shown
       /\ UNCHANGED windowVars
    \/ /\ c = shown /\ result = "success"
       /\ clears' = clears + 1
       /\ UNCHANGED <<shown, visible, busy, idle, failed>>
    \/ /\ c = shown /\ result = "cancelled"
       /\ dismiss
       /\ busy' = FALSE
       /\ UNCHANGED clears
    \/ /\ c = shown /\ result = "error"
       /\ busy' = FALSE
       /\ failed' = TRUE
       /\ UNCHANGED <<shown, visible, idle, clears>>

\* Mutant: the window stays when the role goes.
providerStateIgnored(isActive) ==
    /\ busy' = (busy /\ shown = NoId)
    /\ UNCHANGED <<shown, visible, idle, clears, failed>>

providerStateChanged(isActive) ==
    \/ /\ isActive
       /\ busy' = (busy /\ shown = NoId)
       /\ UNCHANGED <<shown, visible, idle, clears, failed>>
    \/ /\ ~isActive
       /\ dismiss
       /\ busy' = (busy /\ shown = NoId)
       /\ UNCHANGED clears
=============================================================================
