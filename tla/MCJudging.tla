----------------------------- MODULE MCJudging -----------------------------
(***************************************************************************)
(* The judge for TLC: two pages that may say the same, and change twice,   *)
(* so that one may change back.                                            *)
(***************************************************************************)
EXTENDS Judging
============================================================================
