-------------------------- MODULE MC_RempSessions --------------------------
(* The session tracker alone, with a longer log and wider time range than *)
(* the composed model can afford, to exercise the alive-range arithmetic.  *)
EXTENDS RempSessions, TLC
=============================================================================
