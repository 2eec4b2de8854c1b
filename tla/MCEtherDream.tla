---------------------------- MODULE MCEtherDream ----------------------------
(* A FIFO of four points, targets of one to three, and an application that  *)
(* may double the rate or the latency.                                      *)
EXTENDS EtherDream

MCRates == {1000, 2000}
MCLatencies == {1, 2}
=============================================================================
