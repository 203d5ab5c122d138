----------------------------- MODULE MCFallback -----------------------------
(* An instance of Fallback for TLC.  Two sessions, so that the window has    *)
(* one that it does not show; a shell that ranks below or above the          *)
(* fallback.  One unread message in each direction is enough for the two     *)
(* ends to disagree, and a handler may send two more at once.                *)
EXTENDS Fallback
=============================================================================
