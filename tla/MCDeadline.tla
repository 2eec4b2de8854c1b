---------------------------- MODULE MCDeadline ----------------------------
(* Messages of three bytes, so that a read can be cut twice, and two calls, *)
(* so that one starts while handlers of the other are still queued.         *)
EXTENDS Deadline
===========================================================================
