------------------------- MODULE MCProviderRegistry -------------------------
(* An instance of ProviderRegistry for TLC.  Three sockets let a provider   *)
(* come, go and tie while two others compete; two priorities give every     *)
(* ranking.  Timeout : Interval is 3 : 1, as 15000 : 5000 in the code.      *)
EXTENDS ProviderRegistry
=============================================================================
