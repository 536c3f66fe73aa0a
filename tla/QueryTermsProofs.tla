------------------------- MODULE QueryTermsProofs -------------------------
(***************************************************************************)
(* The audit of query terms, proved for any terms, rulings and failures:   *)
(* the types, that what is searched was approved by people, and that what  *)
(* they rejected stays out of their queue.                                 *)
(***************************************************************************)
EXTENDS QueryTerms, TLAPS

\* Every list a term reaches the search through holds approved terms only,
\* categories apart.  What is mined, bred or frozen need not be approved.
Vouched ==
    /\ lexicon \subseteq Categories \cup vouched
    /\ approved \subseteq vouched
    /\ \A t \in Term : terms[t].status = "approved" => t \in vouched
    /\ OnlyAuditedSearched

IInv == TypeOK /\ Vouched

-----------------------------------------------------------------------------

LEMMA InitHolds == Init => IInv
<1> SUFFICES ASSUME Init PROVE IInv
  OBVIOUS
<1>1. TypeOK
  BY QueryTermsAssumption DEF Init, TypeOK, Absent, Row
<1>2. Vouched
  BY DEF Init, Vouched, OnlyAuditedSearched, Absent
<1> QED BY <1>1, <1>2 DEF IInv

\* What moderators do to a row.
RuledRow(row) ==
    /\ row \in Row /\ row.status # "none"
    /\ row.reviewed <=> row.status \in {"approved", "rejected"}

LEMMA RuleKeeps ==
    ASSUME IInv, NEW t \in Term, NEW row, RuledRow(row), Rule(t, row),
           vouched' \in {vouched, vouched \cup {t}},
           row.status = "approved" => t \in vouched' \/ terms[t].status = "approved"
    PROVE  IInv'
<1> USE DEF IInv
<1>1. /\ terms' = [terms EXCEPT ![t] = row] /\ terms \in [Term -> Row]
      /\ rulings < MaxRulings /\ rulings' = rulings + 1
      /\ UNCHANGED <<lexicon, candidates, bred, frozen, approved, protected, grid, tick, faults>>
  BY DEF Rule, files, fetched, TypeOK
<1>2. terms' \in [Term -> Row]
  BY <1>1 DEF RuledRow
<1>3. \A u \in Term : /\ terms'[u].status = "none" => terms'[u] = Absent
                      /\ terms'[u].reviewed <=> terms'[u].status \in {"approved", "rejected"}
  <2> SUFFICES ASSUME NEW u \in Term
               PROVE  /\ terms'[u].status = "none" => terms'[u] = Absent
                      /\ terms'[u].reviewed <=> terms'[u].status \in {"approved", "rejected"}
    OBVIOUS
  <2>1. CASE u = t
    <3>1. terms'[u] = row
      BY <1>1, <2>1
    <3> QED BY <3>1 DEF RuledRow
  <2>2. CASE u # t
    <3>1. terms'[u] = terms[u]
      BY <1>1, <2>2
    <3> QED BY <3>1 DEF TypeOK
  <2> QED BY <2>1, <2>2
<1>4. vouched' \subseteq Term /\ vouched \subseteq vouched'
  BY DEF TypeOK
<1>5. rulings' \in 0 .. MaxRulings
  BY <1>1, QueryTermsAssumption DEF TypeOK
<1>6. TypeOK'
  BY <1>1, <1>2, <1>3, <1>4, <1>5 DEF TypeOK
<1>7. Vouched'
  <2>1. \A u \in Term : terms'[u].status = "approved" => u \in vouched'
    BY <1>1, <1>4 DEF Vouched
  <2> QED BY <1>1, <1>4, <2>1 DEF Vouched, OnlyAuditedSearched
<1> QED BY <1>6, <1>7

LEMMA ModeratorKeeps ==
    ASSUME IInv, NEW t \in Term, Moderator(t)
    PROVE  IInv'
<1> USE DEF IInv
<1>1. terms[t] \in Row
  BY DEF TypeOK
<1>2. CASE Approve(t)
  BY <1>1, <1>2, RuleKeeps DEF Approve, Vouch, RuledRow, Row
<1>3. CASE Reject(t)
  BY <1>1, <1>3, RuleKeeps DEF Reject, RuledRow, Row
<1>4. CASE ToPending(t)
  BY <1>1, <1>4, RuleKeeps DEF ToPending, Unreviewed, RuledRow, Row
<1>5. CASE ManualAdd(t)
  BY <1>5, RuleKeeps DEF ManualAdd, Vouch, RuledRow, Row
<1>6. ASSUME NEW on \in BOOLEAN, SetProtected(t, on) PROVE IInv'
  <2>1. RuledRow([terms[t] EXCEPT !.protected = on])
    BY <1>1, <1>6 DEF SetProtected, RuledRow, Row, TypeOK
  <2> QED BY <1>1, <1>6, <2>1, RuleKeeps DEF SetProtected, Row
<1> QED BY <1>2, <1>3, <1>4, <1>5, <1>6 DEF Moderator

LEMMA OperatorKeeps ==
    ASSUME IInv, NEW t \in Term, OperatorApproves(t) \/ OperatorRejects(t)
    PROVE  IInv'
<1> USE DEF IInv
<1>1. PICK learnt \in SUBSET Term : OperatorRules(t, learnt)
  BY DEF OperatorApproves, OperatorRejects
<1>2. /\ rulings' \in 0 .. MaxRulings
      /\ UNCHANGED <<terms, bred, frozen, approved, protected, grid, tick, faults>>
      /\ candidates' \subseteq Term /\ lexicon' = lexicon \cup learnt /\ vouched' = vouched \cup learnt
  BY <1>1, QueryTermsAssumption DEF OperatorRules, TypeOK, fetched
<1>3. TypeOK'
  BY <1>2 DEF TypeOK
<1>4. Vouched'
  BY <1>2 DEF Vouched, OnlyAuditedSearched
<1> QED BY <1>3, <1>4

-----------------------------------------------------------------------------
(* The ticks.                                                              *)

LEMMA FaultTyped == TypeOK /\ (Fault \/ UNCHANGED faults) => faults' \in 0 .. MaxFaults
BY QueryTermsAssumption DEF TypeOK, Fault

LEMMA LearningKeeps ==
    ASSUME IInv, \/ Mine \/ Flush \/ TickFails
                 \/ \E t \in Term : Breed(t)
    PROVE  IInv'
<1> USE DEF IInv
<1>1. UNCHANGED <<terms, vouched, rulings, frozen, approved, protected, grid>>
  BY DEF Mine, Flush, TickFails, Breed, audit, fetched
<1>2. lexicon' \subseteq lexicon \cup Categories /\ candidates' \subseteq Term /\ bred' \subseteq Term
  BY DEF Mine, Flush, TickFails, Breed, files, TypeOK
<1>3. tick' \in {"no", "mined", "flushed"}
  BY DEF Mine, Flush, TickFails, Breed, TypeOK
<1>4. faults' \in 0 .. MaxFaults
  BY FaultTyped DEF Mine, Flush, TickFails, Breed, Fetch
<1>5. TypeOK'
  BY <1>1, <1>2, <1>3, <1>4, QueryTermsAssumption DEF TypeOK
<1>6. Vouched'
  BY <1>1, <1>2 DEF Vouched, OnlyAuditedSearched
<1> QED BY <1>5, <1>6

\* A submission adds rows that wait, and touches no other.
LEMMA ProposeDoes ==
    ASSUME TypeOK, Propose
    PROVE  \A t \in Term : \/ terms'[t] = terms[t]
                           \/ /\ terms[t].status = "none"
                              /\ terms'[t] = [status |-> "pending", protected |-> FALSE, reviewed |-> FALSE]
BY DEF TypeOK, Propose, Upserted, Absent

LEMMA ProposeKeeps ==
    ASSUME IInv, Propose
    PROVE  IInv'
<1> USE DEF IInv
<1>1. /\ UNCHANGED <<vouched, rulings, lexicon, candidates, bred, frozen, approved, protected>>
      /\ grid' = lexicon \cup approved /\ tick' = "no"
  BY DEF Propose, files, fetched, Grid
<1>2. \E f : terms' = [t \in Term |-> f[t]]
  <2>1. terms = [t \in Term |-> terms[t]]
    BY DEF TypeOK
  <2>2. CASE UNCHANGED terms
    BY <2>1, <2>2
  <2>3. CASE terms' = [t \in Term |-> IF t \in candidates THEN Upserted(terms[t]) ELSE terms[t]]
    BY <2>3
  <2> QED BY <2>2, <2>3 DEF Propose
<1>3. ASSUME NEW t \in Term PROVE terms'[t] \in Row
  <2>1. terms[t] \in Row
    BY DEF TypeOK
  <2>2. [status |-> "pending", protected |-> FALSE, reviewed |-> FALSE] \in Row
    BY DEF Row
  <2> QED BY <2>1, <2>2, ProposeDoes
<1>4. terms' \in [Term -> Row]
  BY <1>2, <1>3
<1>5. \A t \in Term : /\ terms'[t].status = "none" => terms'[t] = Absent
                      /\ terms'[t].reviewed <=> terms'[t].status \in {"approved", "rejected"}
  BY ProposeDoes DEF TypeOK
<1>6. faults' \in 0 .. MaxFaults
  BY FaultTyped DEF Propose
<1>7. TypeOK'
  BY <1>1, <1>4, <1>5, <1>6 DEF TypeOK
<1>8. \A t \in Term : terms'[t].status = "approved" => t \in vouched
  BY ProposeDoes DEF Vouched
<1>9. Vouched'
  BY <1>1, <1>8 DEF Vouched, OnlyAuditedSearched
<1> QED BY <1>7, <1>9

LEMMA AuditedVouched ==
    ASSUME IInv
    PROVE  /\ Audited \subseteq vouched
           /\ WithStatus("approved") \subseteq Term /\ WithStatus("rejected") \subseteq Term
           /\ ProtectedTerms \subseteq Term
BY DEF IInv, Vouched, Audited, WithStatus, ProtectedTerms

LEMMA RefreshKeeps ==
    ASSUME IInv, Refresh \/ Restart
    PROVE  IInv'
<1> USE DEF IInv
<1>1. UNCHANGED <<terms, vouched, rulings, lexicon, candidates>>
  BY DEF Refresh, Restart, audit, files
<1>2. approved' \in {{}, approved, Audited} /\ grid' \subseteq grid \cup lexicon \cup approved'
  BY DEF Refresh, Restart, Replaced, Grid
<1>3. protected' \subseteq Term /\ frozen' \subseteq Term /\ bred' \subseteq Term
  BY AuditedVouched DEF Refresh, Restart, TypeOK
<1>4. tick' \in {"no", "mined", "flushed"} /\ faults' \in 0 .. MaxFaults
  BY FaultTyped DEF Refresh, Restart, TypeOK
<1>5. approved' \subseteq vouched
  BY <1>2, AuditedVouched DEF Vouched
<1>6. vouched \subseteq Term /\ lexicon \subseteq Term /\ grid \subseteq Term /\ candidates \subseteq Term
  BY DEF TypeOK
<1>7. TypeOK'
  BY <1>1, <1>2, <1>3, <1>4, <1>5, <1>6 DEF TypeOK
<1>8. Vouched'
  BY <1>1, <1>2, <1>5 DEF Vouched, OnlyAuditedSearched
<1> QED BY <1>7, <1>8

-----------------------------------------------------------------------------

LEMMA NextKeeps == IInv /\ [Next]_vars => IInv'
<1> SUFFICES ASSUME IInv, [Next]_vars PROVE IInv'
  OBVIOUS
<1>1. CASE \/ Mine \/ Flush \/ TickFails
           \/ \E t \in Term : Breed(t)
  BY <1>1, LearningKeeps
<1>2. CASE Propose
  BY <1>2, ProposeKeeps
<1>3. CASE Refresh \/ Restart
  BY <1>3, RefreshKeeps
<1>4. ASSUME NEW t \in Term, Moderator(t) PROVE IInv'
  BY <1>4, ModeratorKeeps
<1>5. ASSUME NEW t \in Term, OperatorApproves(t) \/ OperatorRejects(t) PROVE IInv'
  BY <1>5, OperatorKeeps
<1>6. CASE UNCHANGED vars
  BY <1>6 DEF vars, IInv, TypeOK, Vouched, OnlyAuditedSearched
<1> QED BY <1>1, <1>2, <1>3, <1>4, <1>5, <1>6 DEF Next

(* The inductive invariant: approved rows of the table, the fetched list   *)
(* and what the lexicon and the grid hold besides categories was vouched   *)
(* for by a person (crud/query_term.py, learn/audit.py).  Candidates, bred *)
(* terms and the frozen list of rejected ones are typed, and no more.      *)
THEOREM Invariance == Spec => []IInv
<1> QED BY InitHolds, NextKeeps, PTL DEF Spec

(* The table, the files and the fetched lists (crud/query_term.py,         *)
(* discovery/query_lexicon.py) keep their types.                           *)
THEOREM TypeCorrect == Spec => []TypeOK
<1>1. IInv => TypeOK
  BY DEF IInv
<1> QED BY <1>1, Invariance, PTL

(* Nothing is searched that no person approved, as a term or as a category *)
(* (query_lexicon.py, compose_service_terms).                              *)
THEOREM SearchIsAudited == Spec => []OnlyAuditedSearched
<1>1. IInv => OnlyAuditedSearched
  BY DEF IInv, Vouched
<1> QED BY <1>1, Invariance, PTL

\* A rejected term changes by a ruling only.
LEMMA OnlyRulingsRevive ==
    ASSUME TypeOK, [Next]_vars, NEW t \in Term,
           terms[t].status = "rejected", terms'[t] # terms[t]
    PROVE  rulings' > rulings
<1>1. CASE Propose
  BY <1>1, ProposeDoes
<1>2. CASE \/ Mine \/ Flush \/ TickFails \/ Refresh \/ Restart \/ UNCHANGED vars
           \/ \E u \in Term : Breed(u)
  BY <1>2 DEF Mine, Flush, TickFails, Refresh, Restart, Breed, audit, vars
<1>3. ASSUME NEW u \in Term, Moderator(u) PROVE rulings' > rulings
  <2>1. rulings' = rulings + 1
    BY <1>3 DEF Moderator, Approve, Reject, ToPending, ManualAdd, SetProtected, Rule
  <2> QED BY <2>1 DEF TypeOK
<1>4. ASSUME NEW u \in Term, OperatorApproves(u) \/ OperatorRejects(u) PROVE rulings' > rulings
  BY <1>4 DEF OperatorApproves, OperatorRejects, OperatorRules
<1> QED BY <1>1, <1>2, <1>3, <1>4 DEF Next

(* A term that moderators rejected does not come back to their queue by    *)
(* itself (crud/query_term.py, upsert_candidates), whatever the crawler    *)
(* proposes again.                                                         *)
THEOREM RejectedNeverReturn == Spec => RejectedStaysOut
<1> DEFINE Stays == \A t \in Term : (terms[t].status = "rejected" /\ terms'[t] # terms[t])
                                       => rulings' > rulings
<1>1. TypeOK /\ [Next]_vars => [Stays]_vars
  BY OnlyRulingsRevive
<1>2. Spec => [][Stays]_vars
  BY <1>1, TypeCorrect, PTL DEF Spec
<1> QED BY <1>2 DEF RejectedStaysOut
=============================================================================
