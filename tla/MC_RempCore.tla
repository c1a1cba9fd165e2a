---------------------------- MODULE MC_RempCore ----------------------------
(* Model of the REMP core for TLC: three messages, two of them re-encodings *)
(* of one user intent (same uid "A"), three master-chain sessions.          *)
EXTENDS RempCore, TLC

MCIds == 1..3
MCUidOf == (1 :> "A") @@ (2 :> "A") @@ (3 :> "B")
=============================================================================
