---------------------------- MODULE MCScheduler ----------------------------
(***************************************************************************)
(* The loop for TLC: one source of two always raises, the budget of the    *)
(* first crawl is one, and a backoff can outlast the longest sleep.        *)
(***************************************************************************)
EXTENDS Scheduler
=============================================================================
