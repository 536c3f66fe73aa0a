---------------------------- MODULE MCSearchWalk ----------------------------
(***************************************************************************)
(* The walk over the grid and the pages for TLC, one phrase at a time.     *)
(* Only the first page of the first phrase ever finds a candidate, so that *)
(* the other phrase falls as silent as its protection allows.              *)
(***************************************************************************)
EXTENDS SearchPass

ddgOnly == <<"ddg">>

serp == [by \in Engines |-> [k \in Keys |-> IF k = <<0, 1>> THEN <<"chan">> ELSE <<>>]]
=============================================================================
