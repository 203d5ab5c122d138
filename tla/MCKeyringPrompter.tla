------------------------ MODULE MCKeyringPrompter ------------------------
(* Instances of KeyringPrompter for TLC.  Two cookies let a closed prompt's *)
(* worker wait beside the next prompt; three connections carry both         *)
(* requests and a cancel.                                                   *)
EXTENDS KeyringPrompter
=============================================================================
