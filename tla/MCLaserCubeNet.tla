--------------------------- MODULE MCLaserCubeNet ---------------------------
(* Two message numbers, so that they wrap while acks are outstanding, and   *)
(* a stall threshold of half the age at which packets are given up.         *)
EXTENDS LaserCubeNet

MCRates == {1, 2}
=============================================================================
