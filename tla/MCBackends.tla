----------------------------- MODULE MCBackends -----------------------------
(***************************************************************************)
(* The rotating provider for TLC: three backends, so that the two attempts *)
(* of a call never cover the pool, and times small enough to let           *)
(* cooldowns, trials, quarantines and the global backoff end in every      *)
(* order.  The third failure in a row quarantines.                         *)
(***************************************************************************)
EXTENDS Backends
=============================================================================
