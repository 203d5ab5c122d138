------------------------- MODULE MCPinentryManager -------------------------
(* An instance of PinentryManager for TLC: two processes, so that one can   *)
(* interfere with the other's flow; two flows; two connections, so that a   *)
(* prompt and a report can be open at once, in either order.                *)
EXTENDS PinentryManager
=============================================================================
