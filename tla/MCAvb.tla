------------------------------- MODULE MCAvb -------------------------------
(* Two banks, so that a controller has a sibling, two rates and three         *)
(* controllers, so that one bank gets a second one.                           *)
EXTENDS Avb
============================================================================
