-------------------------- MODULE MCPolkitListener --------------------------
(* Instances of PolkitListener for TLC.  Two cookies and two requests: two  *)
(* authentications at once, or one named twice, at once or one after the    *)
(* other.  The limit is the code's.  With three Sessions, one is replaced    *)
(* and not deleted yet beside two flows, or two beside one; a flow can use  *)
(* up all its attempts within one cancel.                                   *)
EXTENDS PolkitListener
=============================================================================
