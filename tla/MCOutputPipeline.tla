-------------------------- MODULE MCOutputPipeline --------------------------
(***************************************************************************)
(* OutputPipeline with one content position, batches of at most two points *)
(* and delay lines of up to two colours.                                   *)
(***************************************************************************)
EXTENDS OutputPipeline

MCContent == [at : Positions, rgb : Colour]
MCSyncTimes == {0, 1}
MCRates == {1, 2}
=============================================================================
