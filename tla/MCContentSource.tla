-------------------------- MODULE MCContentSource --------------------------
(***************************************************************************)
(* ContentSource with two callbacks and a backend whose frame requests     *)
(* change size (a plugin's do), one of them without a size.                *)
(***************************************************************************)
EXTENDS ContentSource

MCRequests == {[kind |-> "points", max |-> 2, preferred |-> 0, blank |-> 0],
               [kind |-> "frame", max |-> 2, preferred |-> 1, blank |-> 0],
               [kind |-> "frame", max |-> 3, preferred |-> 0, blank |-> 2],
               [kind |-> "frame", max |-> 0, preferred |-> 0, blank |-> 0]}
=============================================================================
