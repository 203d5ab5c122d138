--------------------------- MODULE MCPinentryFlow ---------------------------
(* Instances of PinentryFlow for TLC.  Processes meet in the daemon only    *)
(* through the owner check, which PinentryManager's own run explores, so    *)
(* one process is enough here.  One cookie is enough for a flow, with all   *)
(* its retries, and for its return after the daemon closed it; a third      *)
(* connection lets a retry report linger unread while the next request is   *)
(* answered and a further report is sent.                                   *)
EXTENDS PinentryFlow
=============================================================================
