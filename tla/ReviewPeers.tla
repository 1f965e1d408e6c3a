---------------------------- MODULE ReviewPeers -----------------------------
(***************************************************************************)
(* Submissions, peer nominations and the overdue cron: submitReview,       *)
(* createNominations .. bulkApproveNominations and markOverdueReviews of   *)
(* src/src/modules/review/review.service.ts.                               *)
(***************************************************************************)
EXTENDS ReviewStore

\* Fault: a submitted review may be submitted again.
SubmitReviewRead_Again(r, c, pair, score) ==
    /\ review[c][pair] # Nil
    /\ cycle[c].status = "ACTIVE"
    /\ Begin(r, "submit", [op |-> "submit", cycle |-> c, pair |-> pair, score |-> score])
    /\ UNCHANGED rows

\* The reviewer sends score (Nil: no rating question answered) for the review of pair.
SubmitReviewRead(r, c, pair, score) ==
    /\ review[c][pair] # Nil
    /\ cycle[c].status = "ACTIVE"
    /\ review[c][pair].status # "SUBMITTED"
    /\ Begin(r, "submit", [op |-> "submit", cycle |-> c, pair |-> pair, score |-> score])
    /\ UNCHANGED rows

\* Fault: without rating questions the average is stored as 0.
SubmitReviewCommit_ZeroScore(r) ==
    LET q == request[r] IN
    /\ q.op = "submit"
    /\ review[q.cycle][q.pair] # Nil
    /\ review' = [review EXCEPT ![q.cycle][q.pair].status = "SUBMITTED",
                                ![q.cycle][q.pair].score = IF q.score = Nil THEN 0 ELSE q.score]
    /\ End(r)
    /\ UNCHANGED <<template, cycle, nomination, session, performance, notice>>

SubmitReviewCommit(r) ==
    LET q == request[r] IN
    /\ q.op = "submit"
    /\ review[q.cycle][q.pair] # Nil
    /\ review' = [review EXCEPT ![q.cycle][q.pair].status = "SUBMITTED",
                                ![q.cycle][q.pair].score = q.score]
    /\ End(r)
    /\ UNCHANGED <<template, cycle, nomination, session, performance, notice>>

----------------------------------------------------------------------------

NominatedBy(c, u) == {v \in User : nomination[c][<<u, v>>] # Nil}

NominateRead(r, c, u, nominees) ==
    /\ cycle[c].status = "ACTIVE"
    /\ nominees # {} /\ u \notin nominees
    /\ Begin(r, "nominate", [op |-> "nominate", cycle |-> c, by |-> u, nominees |-> nominees])
    /\ UNCHANGED rows

\* Fault: only the nominees of this request are counted.
NominateCount_ThisRequest(r) ==
    LET q == request[r] IN
    /\ q.op = "nominate"
    /\ Cardinality(q.nominees) <= MaxNominations
    /\ NominatedBy(q.cycle, q.by) \cap q.nominees = {}
    /\ Await(r, [op |-> "nominateCounted", cycle |-> q.cycle, by |-> q.by, nominees |-> q.nominees])
    /\ UNCHANGED rows

\* The two queries of the check are one step: what the second one could miss
\* by coming early, the unique key catches at the commit.
NominateCount(r) ==
    LET q == request[r]
        already == NominatedBy(q.cycle, q.by)
    IN
    /\ q.op = "nominate"
    /\ Cardinality(already) + Cardinality(q.nominees) <= MaxNominations
    /\ already \cap q.nominees = {}
    /\ Await(r, [op |-> "nominateCounted", cycle |-> q.cycle, by |-> q.by, nominees |-> q.nominees])
    /\ UNCHANGED rows

\* @@unique([reviewCycleId, nominatorId, nomineeId])
NominateCommit(r) ==
    LET q == request[r] IN
    /\ q.op = "nominateCounted"
    /\ cycle[q.cycle].status # "DELETED"
    /\ NominatedBy(q.cycle, q.by) \cap q.nominees = {}
    /\ nomination' = [nomination EXCEPT ![q.cycle] =
           [p \in Pair |-> IF p[1] = q.by /\ p[2] \in q.nominees THEN "PENDING" ELSE @[p]]]
    /\ End(r)
    /\ UNCHANGED <<template, cycle, review, session, performance, notice>>

----------------------------------------------------------------------------

\* Fault: no transaction, so the approval stays when the review is rejected.
ApproveTransaction_Split(c, pair) ==
    /\ nomination[c][pair] # Nil
    /\ nomination' = [nomination EXCEPT ![c][pair] = "APPROVED"]
    /\ review' = [review EXCEPT ![c][pair] =
           IF @ = Nil THEN [type |-> "PEER", status |-> "PENDING", score |-> Nil] ELSE @]

\* The transaction of approveNomination: the nominator is the reviewee and the
\* nominee the reviewer of the new PEER review; a review with these two already
\* in the cycle rejects it by the unique key.
ApproveTransaction(c, pair) ==
    /\ nomination[c][pair] # Nil
    /\ review[c][pair] = Nil
    /\ nomination' = [nomination EXCEPT ![c][pair] = "APPROVED"]
    /\ review' = [review EXCEPT ![c][pair] =
           [type |-> "PEER", status |-> "PENDING", score |-> Nil]]

ApproveRead(r, c, pair) ==
    /\ nomination[c][pair] = "PENDING"
    /\ Begin(r, "approve", [op |-> "approve", cycle |-> c, pair |-> pair])
    /\ UNCHANGED rows

ApproveCommit(r) ==
    /\ request[r].op = "approve"
    /\ ApproveTransaction(request[r].cycle, request[r].pair)
    /\ End(r)
    /\ UNCHANGED <<template, cycle, session, performance, notice>>

\* Fault: a nomination can be rejected after it was approved.
RejectRead_AnyStatus(r, c, pair) ==
    /\ nomination[c][pair] # Nil
    /\ Begin(r, "reject", [op |-> "reject", cycle |-> c, pair |-> pair])
    /\ UNCHANGED rows

RejectRead(r, c, pair) ==
    /\ nomination[c][pair] = "PENDING"
    /\ Begin(r, "reject", [op |-> "reject", cycle |-> c, pair |-> pair])
    /\ UNCHANGED rows

RejectCommit(r) ==
    LET q == request[r] IN
    /\ q.op = "reject"
    /\ nomination[q.cycle][q.pair] # Nil
    /\ nomination' = [nomination EXCEPT ![q.cycle][q.pair] = "REJECTED"]
    /\ End(r)
    /\ UNCHANGED <<template, cycle, review, session, performance, notice>>

\* bulkApproveNominations lists the pending nominations, then approves them one
\* after another; the first approval that throws ends the request (Fail).
BulkApproveRead(r, c) ==
    LET pending == {p \in Pair : nomination[c][p] = "PENDING"} IN
    /\ pending # {}
    /\ Begin(r, "bulkApprove", [op |-> "bulk", cycle |-> c, todo |-> pending])
    /\ UNCHANGED rows

BulkApproveNext(r, pair) ==
    LET q == request[r] IN
    /\ q.op = "bulk"
    /\ pair \in q.todo
    /\ nomination[q.cycle][pair] = "PENDING"
    /\ Await(r, [op |-> "bulkApprove", cycle |-> q.cycle, todo |-> q.todo \ {pair},
                 pair |-> pair])
    /\ UNCHANGED rows

BulkApproveCommit(r) ==
    LET q == request[r] IN
    /\ q.op = "bulkApprove"
    /\ ApproveTransaction(q.cycle, q.pair)
    /\ IF q.todo = {} THEN End(r)
       ELSE Await(r, [op |-> "bulk", cycle |-> q.cycle, todo |-> q.todo])
    /\ UNCHANGED <<template, cycle, session, performance, notice>>

----------------------------------------------------------------------------

\* The cron reads the ACTIVE cycles past their end date (which ones is left to
\* the calendar), then updates one cycle after another.
OverdueRead(r, expired) ==
    /\ expired # {}
    /\ \A c \in expired : cycle[c].status = "ACTIVE"
    /\ Begin(r, "overdue", [op |-> "overdue", cycles |-> expired])
    /\ UNCHANGED rows

\* Fault: the update names the cycle only.
OverdueMark_NoStatus(r, c) ==
    LET q == request[r]
        late(row) == IF row # Nil THEN [row EXCEPT !.status = "OVERDUE"] ELSE row
    IN
    /\ q.op = "overdue"
    /\ c \in q.cycles
    /\ review' = [review EXCEPT ![c] = [p \in Pair |-> late(review[c][p])]]
    /\ IF q.cycles = {c} THEN End(r)
       ELSE Await(r, [op |-> "overdue", cycles |-> q.cycles \ {c}])
    /\ UNCHANGED <<template, cycle, nomination, session, performance, notice>>

\* updateMany where status is PENDING: a conditional write, in one statement.
OverdueMark(r, c) ==
    LET q == request[r]
        late(row) == IF row # Nil /\ row.status = "PENDING"
                     THEN [row EXCEPT !.status = "OVERDUE"] ELSE row
    IN
    /\ q.op = "overdue"
    /\ c \in q.cycles
    /\ review' = [review EXCEPT ![c] = [p \in Pair |-> late(review[c][p])]]
    /\ IF q.cycles = {c} THEN End(r)
       ELSE Await(r, [op |-> "overdue", cycles |-> q.cycles \ {c}])
    /\ UNCHANGED <<template, cycle, nomination, session, performance, notice>>
=============================================================================
