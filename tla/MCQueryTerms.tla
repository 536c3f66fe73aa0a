--------------------------- MODULE MCQueryTerms ---------------------------
(***************************************************************************)
(* The audit of query terms for TLC: a term that is a category of approved *)
(* offers as well, and one that is not.                                    *)
(***************************************************************************)
EXTENDS QueryTerms
============================================================================
