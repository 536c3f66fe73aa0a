---------------------------- MODULE QueryTerms ----------------------------
(***************************************************************************)
(* How search terms are learned.  A periodic tick mines terms from the     *)
(* corpus (learn/run_query_miner.py), takes the categories of approved     *)
(* offers into the lexicon (learn/bootstrap_query_lexicon.py), adds terms  *)
(* bred by successful searches and submits them all to the backend for     *)
(* audit (crud/query_term.py); another tick fetches what moderators        *)
(* approved and protected (runner.py).  Both rebuild the grid that is      *)
(* searched; of it, the terms of services are modelled.                    *)
(*                                                                         *)
(* The ticks take turns in the crawler's thread; moderators act between    *)
(* their requests.  What the miner finds worth proposing (support, the     *)
(* axis veto, the stoplist, which a term outgrows) is any set of terms.    *)
(***************************************************************************)
EXTENDS Naturals, FiniteSets

CONSTANTS
    Term,
    Categories,         \* terms that are categories of approved offers
    MaxRulings, MaxFaults   \* bounds

ASSUME QueryTermsAssumption ==
    Categories \subseteq Term /\ MaxRulings \in Nat /\ MaxFaults \in Nat

VARIABLES
    terms,              \* [Term -> row], the backend's table
    lexicon,            \* the file of learned terms
    candidates,         \* the file of candidates
    bred,               \* terms bred since the last tick
    frozen,             \* rejected terms as fetched at the start
    approved, protected,    \* as fetched last
    grid,               \* the service terms that are searched
    tick,               \* the learning tick: "no", "mined", "flushed"
    vouched,            \* history: terms a person approved once
    rulings, faults

vars == <<terms, lexicon, candidates, bred, frozen, approved, protected,
          grid, tick, vouched, rulings, faults>>

files == <<lexicon, candidates>>
fetched == <<approved, protected>>
audit == <<terms, vouched, rulings>>

Absent == [status |-> "none", protected |-> FALSE, reviewed |-> FALSE]

WithStatus(s) == {t \in Term : terms[t].status = s}
ProtectedTerms == {t \in Term : terms[t].protected}

Fault == faults < MaxFaults /\ faults' = faults + 1

Init ==
    /\ terms = [t \in Term |-> Absent]
    /\ lexicon = {} /\ candidates = {} /\ bred = {} /\ frozen = {}
    /\ approved = {} /\ protected = {} /\ grid = {} /\ tick = "no" /\ vouched = {}
    /\ rulings = 0 /\ faults = 0

\* compose_service_terms: the lexicon file and what the backend approved.
Grid(learned, audited) == learned \cup audited

\* A fetch that fails yields nothing where the code goes on without it.
Fetch(set, got) ==
    \/ got = set /\ UNCHANGED faults
    \/ got = {} /\ Fault

----------------------------------------------------------------------------
(* The learning tick.                                                      *)

\* The sink of SearchPass: checks the list fetched at the start.
Breed(t) ==
    /\ tick = "no" /\ t \notin frozen /\ bred' = bred \cup {t}
    /\ UNCHANGED <<audit, files, frozen, fetched, grid, tick, faults>>

\* bootstrap: categories enter the lexicon without an audit, and the miner's
\* candidates replace the file.
Mine ==
    /\ tick = "no" /\ tick' = "mined"
    /\ \E cats \in SUBSET Categories, found \in SUBSET Term, rejected \in SUBSET Term :
          /\ Fetch(WithStatus("rejected"), rejected)
          /\ lexicon' = lexicon \cup cats
          /\ candidates' = found \ (lexicon' \cup rejected)
    /\ UNCHANGED <<audit, bred, frozen, fetched, grid>>

\* _flush_bred_terms, with a list of rejected terms of its own.
Flush ==
    /\ tick = "mined" /\ tick' = "flushed" /\ bred' = {}
    /\ \E rejected \in SUBSET Term :
          /\ IF bred = {} THEN UNCHANGED faults /\ rejected = {}
                          ELSE Fetch(WithStatus("rejected"), rejected)
          /\ candidates' = candidates \cup (bred \ rejected)
    /\ UNCHANGED <<audit, lexicon, frozen, fetched, grid>>

\* Mutant: a term proposed again is a candidate again.
Requeued(row) == [Absent EXCEPT !.status = "pending"]

\* upsert_candidates: only a new term makes a row.
Upserted(row) == IF row.status = "none" THEN [Absent EXCEPT !.status = "pending"] ELSE row

\* _submit_query_candidates, which may fail, and the grid.
Propose ==
    /\ tick = "flushed" /\ tick' = "no"
    /\ \/ /\ terms' = [t \in Term |-> IF t \in candidates THEN Upserted(terms[t]) ELSE terms[t]]
          /\ UNCHANGED faults
       \/ Fault /\ UNCHANGED terms
    /\ grid' = Grid(lexicon, approved)
    /\ UNCHANGED <<vouched, rulings, files, bred, frozen, fetched>>

\* Offers cannot be fetched, or a file not be written: the tick ends here.
TickFails ==
    /\ Fault /\ tick \in {"no", "mined"} /\ tick' = "no"
    /\ \E cats \in SUBSET Categories :
          lexicon' \in IF tick = "no" THEN {lexicon, lexicon \cup cats} ELSE {lexicon}
    /\ UNCHANGED <<audit, candidates, bred, frozen, fetched, grid>>

----------------------------------------------------------------------------
(* The refresh tick.                                                       *)

\* Mutant: an empty list is no list.
KeepIfNone(old, new) == IF new = {} THEN old ELSE new

\* reload_backend_terms
Replaced(old, new) == new

\* Mutant: what waits for the audit is searched as well.
Unrejected == WithStatus("approved") \cup WithStatus("pending")

Audited == WithStatus("approved")

\* The two fetches fail apart.
Refresh ==
    /\ tick = "no"
    /\ \/ approved' = Replaced(approved, Audited) /\ grid' = Grid(lexicon, approved')
          /\ \/ protected' = ProtectedTerms /\ UNCHANGED faults
             \/ UNCHANGED protected /\ Fault
       \/ UNCHANGED <<approved, grid>> /\ protected' = ProtectedTerms /\ Fault
    /\ UNCHANGED <<audit, files, bred, frozen, tick>>

\* The crawler starts again: the approved terms come back with a refresh only.
Restart ==
    /\ Fault
    /\ frozen' \in {{}, WithStatus("rejected")} /\ protected' \in {{}, ProtectedTerms}
    /\ approved' = {} /\ bred' = {} /\ tick' = "no" /\ grid' = Grid(lexicon, {})
    /\ UNCHANGED <<audit, files>>

----------------------------------------------------------------------------
(* People.                                                                 *)

Rule(t, row) ==
    /\ rulings < MaxRulings /\ rulings' = rulings + 1
    /\ terms[t] # row /\ terms' = [terms EXCEPT ![t] = row]
    /\ UNCHANGED <<files, bred, frozen, fetched, grid, tick, faults>>

Vouch(t) == vouched' = vouched \cup {t}

Unreviewed(row) == [row EXCEPT !.status = "pending", !.reviewed = FALSE]

Approve(t) ==
    /\ terms[t].status # "none" /\ Vouch(t)
    /\ Rule(t, [terms[t] EXCEPT !.status = "approved", !.reviewed = TRUE])

Reject(t) ==
    /\ terms[t].status # "none" /\ UNCHANGED vouched
    /\ Rule(t, [terms[t] EXCEPT !.status = "rejected", !.reviewed = TRUE])

ToPending(t) ==
    /\ terms[t].status # "none" /\ UNCHANGED vouched
    /\ Rule(t, Unreviewed(terms[t]))

\* A person's own term: approved and protected.
ManualAdd(t) ==
    Vouch(t) /\ Rule(t, [status |-> "approved", protected |-> TRUE, reviewed |-> TRUE])

SetProtected(t, on) ==
    /\ terms[t].status # "none" /\ UNCHANGED vouched
    /\ Rule(t, [terms[t] EXCEPT !.protected = on])

\* The command line (audit.py, query_stoplist.py) rules on the candidates' file.
OperatorRules(t, learnt) ==
    /\ t \in candidates /\ candidates' = candidates \ {t}
    /\ rulings < MaxRulings /\ rulings' = rulings + 1
    /\ lexicon' = lexicon \cup learnt /\ vouched' = vouched \cup learnt
    /\ UNCHANGED <<terms, bred, frozen, fetched, grid, tick, faults>>

OperatorApproves(t) == OperatorRules(t, {t})

OperatorRejects(t) == OperatorRules(t, {})

Moderator(t) ==
    \/ Approve(t) \/ Reject(t) \/ ToPending(t) \/ ManualAdd(t)
    \/ SetProtected(t, TRUE) \/ SetProtected(t, FALSE)

Next ==
    \/ Mine \/ Flush \/ Propose \/ TickFails \/ Refresh \/ Restart
    \/ \E t \in Term : Breed(t) \/ Moderator(t) \/ OperatorApproves(t) \/ OperatorRejects(t)

Spec == Init /\ [][Next]_vars

\* The loop ticks for ever.
FairSpec == Spec /\ SF_vars(Mine) /\ WF_vars(Flush) /\ WF_vars(Propose) /\ SF_vars(Refresh)

----------------------------------------------------------------------------
(* Properties.                                                             *)

Row == [status : {"none", "pending", "approved", "rejected"},
        protected : BOOLEAN, reviewed : BOOLEAN]

TypeOK ==
    /\ terms \in [Term -> Row]
    /\ \A t \in Term : /\ terms[t].status = "none" => terms[t] = Absent
                       /\ terms[t].reviewed <=> terms[t].status \in {"approved", "rejected"}
    /\ lexicon \cup candidates \cup bred \cup frozen \subseteq Term
    /\ approved \cup protected \cup grid \cup vouched \subseteq Term
    /\ tick \in {"no", "mined", "flushed"}
    /\ rulings \in 0 .. MaxRulings /\ faults \in 0 .. MaxFaults

(* A term that moderators rejected does not come back to their queue by    *)
(* itself, through whatever list of rejected terms the crawler missed.     *)
RejectedStaysOut ==
    [][\A t \in Term : (terms[t].status = "rejected" /\ terms'[t] # terms[t])
                          => rulings' > rulings]_vars

(* Nothing is searched that no person ever approved, as a term or as the   *)
(* category of an approved offer.                                          *)
OnlyAuditedSearched == grid \subseteq Categories \cup vouched

(* What moderators decide reaches the search in the end: a term they       *)
(* approve is searched, and one whose approval they withdraw is not, unless*)
(* the learned lexicon holds it too (a category, or a term the operator    *)
(* approved), though fetches fail and the crawler restarts.                *)
AuditReachesGrid ==
    <>[](protected = ProtectedTerms /\ grid = lexicon \cup WithStatus("approved"))

============================================================================
