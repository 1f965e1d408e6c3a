------------------------------- MODULE Review -------------------------------
(***************************************************************************)
(* The review module of src/src/modules/review: its handlers composed over *)
(* the shared rows, and what they keep true.                               *)
(*                                                                         *)
(* The properties come in two groups.  The first holds however requests    *)
(* overlap.  The second is the contract of the handlers called one at a    *)
(* time (Request a singleton); requests that overlap break each of them.   *)
(***************************************************************************)
EXTENDS ReviewCycles, ReviewPeers, ReviewCalibration

Init == StoreInit

CycleStep(r) ==
    \/ \E t \in Template : UpdateTemplateRead(r, t)
    \/ UpdateTemplateCommit(r)
    \/ \E t \in Template : RemoveTemplateRead(r, t)
    \/ RemoveTemplateCommit(r)
    \/ \E t \in Template, ex \in ExclusionLists : CreateCycleRead(r, t, ex)
    \/ \E c \in Cycle : CreateCycleCommit(r, c)
    \/ \E c \in Cycle, t \in Template \cup {Nil}, ex \in ExclusionLists \cup {Nil} :
          UpdateCycleRead(r, c, t, ex)
    \/ UpdateCycleCommit(r)
    \/ \E c \in Cycle : RemoveCycleRead(r, c)
    \/ RemoveCycleCommit(r)
    \/ \E c \in Cycle : ActivateRead(r, c)
    \/ ActivateLoad(r)
    \/ ActivateCommit(r)
    \/ ActivateNotify(r)
    \/ \E c \in Cycle : CalibrateRead(r, c)
    \/ CalibrateCommit(r)
    \/ \E c \in Cycle : CompleteRead(r, c)
    \/ CompleteCheck(r)
    \/ CompleteCommit(r)

PeerStep(r) ==
    \/ \E c \in Cycle, p \in Pair, x \in Rating \cup {Nil} : SubmitReviewRead(r, c, p, x)
    \/ SubmitReviewCommit(r)
    \/ \E c \in Cycle, u \in User, S \in SUBSET User : NominateRead(r, c, u, S)
    \/ NominateCount(r)
    \/ NominateCommit(r)
    \/ \E c \in Cycle, p \in Pair : ApproveRead(r, c, p)
    \/ ApproveCommit(r)
    \/ \E c \in Cycle, p \in Pair : RejectRead(r, c, p)
    \/ RejectCommit(r)
    \/ \E c \in Cycle : BulkApproveRead(r, c)
    \/ \E p \in Pair : BulkApproveNext(r, p)
    \/ BulkApproveCommit(r)
    \/ \E S \in SUBSET Cycle : OverdueRead(r, S)
    \/ \E c \in Cycle : OverdueMark(r, c)

CalibrationStep(r) ==
    \/ \E c \in Cycle, scope \in SUBSET User : CreateSessionRead(r, c, scope)
    \/ CreateSessionLoad(r)
    \/ \E s \in Session : CreateSessionCommit(r, s)
    \/ \E s \in Session, u \in User, x \in CalibratedScore : AdjustRead(r, s, u, x)
    \/ AdjustCommit(r)
    \/ \E s \in Session : FinalizeRead(r, s)
    \/ FinalizeCommit(r)

Next ==
    \/ \E t \in Template : CreateTemplate(t)
    \/ \E r \in Request : CycleStep(r) \/ PeerStep(r) \/ CalibrationStep(r) \/ Fail(r)

Spec == Init /\ [][Next]_vars

----------------------------------------------------------------------------
(* What holds however requests overlap.                                    *)

\* Draft cycles own no rows, so deleting one loses nothing.  No handler that
\* adds a review, a nomination or a session re-reads the cycle when it
\* writes: it holds only because no cycle ever returns to DRAFT.
DraftOwnsNothing ==
    \A c \in Cycle : cycle[c].status = "DRAFT" =>
        /\ cycle[c].snapshot = Nil /\ notice[c] = {}
        /\ \A p \in Pair : review[c][p] = Nil /\ nomination[c][p] = Nil
        /\ SessionsOf(c, "in_progress") \cup SessionsOf(c, "finalized") = {}

\* A cycle is activated at most once: no cycle goes back to ACTIVE, and an
\* activation whose transaction goes through finds a draft, never a cycle that
\* another activation has launched since the check of the status.
\* activateCycle does not look at the status when it writes; it is the unique
\* key of the reviews that rejects the second set.  This needs a user no
\* exclusion list names (with disjoint rosters both activations go through).
NeverReactivated ==
    [][/\ \A c \in Cycle : cycle'[c].status = "ACTIVE" /\ cycle[c].status # "ACTIVE"
                            => cycle[c].status = "DRAFT"
       /\ \A r \in Request : request[r].op = "activateLoaded" /\ request'[r].op = "activated"
                            => cycle[request[r].cycle].status = "DRAFT"]_vars

\* A submitted review is never reopened or marked overdue; it goes only with
\* its cycle.  The cron decides which reviews are late after an await, and
\* relies on the status in the where clause of its updateMany.
SubmittedStaysSubmitted ==
    [][\A c \in Cycle, p \in Pair :
         review[c][p] # Nil /\ review[c][p].status = "SUBMITTED" =>
             \/ review'[c][p] # Nil /\ review'[c][p].status = "SUBMITTED"
             \/ cycle'[c].status = "DELETED"]_vars

\* An approved nomination has its PEER review: approvals race with rejections,
\* with other approvals and with the removal of the cycle.
ApprovedHasReview ==
    \A c \in Cycle, p \in Pair :
        nomination[c][p] = "APPROVED" => review[c][p] # Nil /\ review[c][p].type = "PEER"

\* A user's calibrated score names a cycle that reached calibration and still
\* exists, and sessions exist only in such cycles.
ScoresComeFromCalibration ==
    /\ \A u \in User : performance[u].lastReviewCycle # Nil =>
           cycle[performance[u].lastReviewCycle].status \in {"CALIBRATING", "COMPLETED"}
    /\ \A s \in Session : SessionExists(s) =>
           cycle[session[s].cycle].status \in {"CALIBRATING", "COMPLETED"}

\* Nobody is told of a review assignment that was rolled back: a notified user
\* has the SELF review of that cycle until the cycle is deleted.
NoticeMeansAssigned ==
    \A c \in Cycle : CycleExists(c) => \A u \in notice[c] : review[c][<<u, u>>] # Nil

----------------------------------------------------------------------------
(* The contract of the handlers called one at a time.                      *)

\* A launched cycle is reviewed with the questions its template shows: the
\* template of a launched cycle cannot be edited, deleted or exchanged.
SnapshotIsTemplate ==
    \A c \in Cycle : cycle[c].status \in Launched =>
        cycle[c].snapshot = <<cycle[c].template, template[cycle[c].template]>>

\* The reviews of a launched cycle are those of the users its exclusion list
\* leaves, plus one PEER review for each approved nomination and no other.
ReviewsAreAccountedFor ==
    \A c \in Cycle : cycle[c].status \in Launched =>
        \A p \in Pair :
            /\ p \in AssignedPairs(User \ cycle[c].excluded)
                   <=> review[c][p] # Nil /\ review[c][p].type = "ASSIGNED"
            /\ nomination[c][p] = "APPROVED"
                   <=> review[c][p] # Nil /\ review[c][p].type = "PEER"

\* "You can only nominate a maximum of 3 peers per cycle"
NominationLimit ==
    \A c \in Cycle, u \in User : Cardinality(NominatedBy(c, u)) <= MaxNominations

\* Submissions close with the ACTIVE stage, and one review is submitted once.
SubmissionsCloseWithStage ==
    [][\A c \in Cycle, p \in Pair :
         review'[c][p] # review[c][p] /\ review'[c][p] # Nil /\ review'[c][p].status = "SUBMITTED"
            => cycle[c].status = "ACTIVE" /\ review[c][p].status # "SUBMITTED"]_vars

\* Completed cycles have no open session, and what they published stands: a
\* finalized session holds a score for everyone in it, and it is one of these
\* scores that the performance record shows under the name of the cycle.
PublishedScoresStand ==
    /\ \A c \in Cycle : cycle[c].status = "COMPLETED" => SessionsOf(c, "in_progress") = {}
    /\ \A u \in User : LET c == performance[u].lastReviewCycle IN
         c # Nil => \E s \in SessionsOf(c, "finalized") :
             /\ u \in DOMAIN session[s].scores
             /\ performance[u].reviewScore = session[s].scores[u]
             /\ performance[u].reviewScore # Nil

StageOf(status) ==
    [UNBORN |-> "none", DRAFT |-> "draft", ACTIVE |-> "active", CALIBRATING |-> "calibrating",
     COMPLETED |-> "completed", DELETED |-> "dropped"][status]

AnswerOf(row) ==
    IF row = Nil THEN "none" ELSE IF row.status = "SUBMITTED" THEN "answered" ELSE "open"

ResultOf(row) ==
    IF row.lastReviewCycle = Nil THEN Nil ELSE <<row.lastReviewCycle, row.reviewScore>>

Lifecycle == INSTANCE ReviewLifecycle WITH
    Questions <- Contents, Score <- CalibratedScore, None <- Nil,
    stage <- [c \in Cycle |-> StageOf(cycle[c].status)],
    asks <- [c \in Cycle |-> cycle[c].snapshot],
    reviews <- [c \in Cycle |-> [p \in Pair |-> AnswerOf(review[c][p])]],
    result <- [u \in User |-> ResultOf(performance[u])]

\* The handlers implement the lifecycle of ReviewLifecycle: each cycle goes
\* forward one stage at a time and only a draft is deleted, with the questions
\* of its launch; reviews are answered once, and scores published only from
\* its calibration to its completion.
FollowsLifecycle == Lifecycle!Spec

----------------------------------------------------------------------------
(* What the documentation says and overlapping or plain calls refute.      *)

\* Every pending nomination can still be approved: "single and bulk
\* administrative approval endpoints that auto generate PEER reviews"
\* (src/CHANGELOG.md:79).
PendingIsApprovable ==
    \A c \in Cycle, p \in Pair : nomination[c][p] = "PENDING" => review[c][p] = Nil

\* What was submitted is not written over: "duplicate submission prevention"
\* (src/CHANGELOG.md:81).
SubmittedOnce ==
    [][\A c \in Cycle, p \in Pair :
         review[c][p] # Nil /\ review[c][p].status = "SUBMITTED" =>
             review'[c][p] = review[c][p] \/ cycle'[c].status = "DELETED"]_vars
=============================================================================
