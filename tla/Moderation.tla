---------------------------- MODULE Moderation ----------------------------
(***************************************************************************)
(* What crawler, judge and moderators together promise about the queue of  *)
(* offers (backend/app/crud/offer.py), whatever passes, sweeps, caches and *)
(* failures lie behind it: pages are sighted, the judge refuses, moderators*)
(* rule.  row[p] is the latest offer of page p, closed[p] the texts of its *)
(* earlier ones.                                                           *)
(***************************************************************************)
EXTENDS Naturals

CONSTANTS
    Page,
    Text,
    Junk                \* texts the judge refuses

VARIABLES
    row,                \* [Page -> [status, text]]
    closed,             \* [Page -> SUBSET Text]
    asked               \* pages whose refusal is under way

vars == <<row, closed, asked>>

Init ==
    /\ \E t \in Text : row = [p \in Page |-> [status |-> "none", text |-> t]]
    /\ closed = [p \in Page |-> {}] /\ asked = {}

\* create_offer: a page brings a text that none of its offers has; what is
\* published stays, and what was rejected is closed.
Sight(p, t) ==
    /\ row[p].status = "none" \/ (row[p].status # "published" /\ row[p].text # t)
    /\ t \notin closed[p]
    /\ row' = [row EXCEPT ![p] = [status |-> "pending", text |-> t]]
    /\ closed' = IF row[p].status = "rejected"
                 THEN [closed EXCEPT ![p] = @ \cup {row[p].text}] ELSE closed
    /\ UNCHANGED asked

MayRefuse(p) == row[p].status = "pending" /\ row[p].text \in Junk

\* judge_reject begins for junk only, and only while it waits for a moderator.
Ask(p) == MayRefuse(p) /\ asked' = {p} /\ UNCHANGED <<row, closed>>

\* It ends with what it began with, or is over at once.
Refuse(p) ==
    /\ p \in asked \/ MayRefuse(p)
    /\ row' = [row EXCEPT ![p].status = "rejected"]
    /\ asked' = asked \ {p} /\ UNCHANGED closed

\* set_status
Rule(p, status) ==
    /\ row[p].status # "none"
    /\ row' = [row EXCEPT ![p].status = status]
    /\ UNCHANGED <<closed, asked>>

Next ==
    \E p \in Page : \/ \E t \in Text : Sight(p, t)
                    \/ Ask(p) \/ Refuse(p)
                    \/ \E s \in {"pending", "published", "rejected"} : Rule(p, s)

Spec == Init /\ [][Next]_vars
============================================================================
