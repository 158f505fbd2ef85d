--------------------------- MODULE MCPoolThreads ---------------------------
(***************************************************************************)
(* Two threads share a pool of two packets.                                *)
(***************************************************************************)
EXTENDS PoolThreads
=============================================================================
