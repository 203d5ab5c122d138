---------------------------- MODULE MCEventQueue ----------------------------
(* Instances of EventQueue for TLC.  Three sockets, so that two wait behind *)
(* each other while a third comes and goes; two places in the queue and     *)
(* four events, so that it overflows, drains and overflows again.           *)
EXTENDS EventQueue
=============================================================================
