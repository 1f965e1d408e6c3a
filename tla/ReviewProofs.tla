---------------------------- MODULE ReviewProofs ----------------------------
(***************************************************************************)
(* Theorems about the review module for every set of users, cycles and     *)
(* requests in flight.                                                     *)
(***************************************************************************)
EXTENDS Review, TLAPS

----------------------------------------------------------------------------
(* What a request in flight holds, by its handler and its position.        *)

\* Each position of a handler determines the fields of the request record.
LEMMA RequestFields ==
    ASSUME NEW q \in InFlight
    PROVE  /\ q.op \in {"updateTemplate", "removeTemplate"} => q.template \in Template
           /\ q.op = "createCycle" => q.template \in Template /\ q.excluded \in SUBSET User
           /\ q.op = "updateCycle" => /\ q.cycle \in Cycle /\ q.template \in Template \cup {Nil}
                                      /\ q.excluded \in (SUBSET User) \cup {Nil}
           /\ q.op \in {"removeCycle", "calibrate", "complete", "completeChecked"} =>
                  q.cycle \in Cycle
           /\ q.op = "activate" => /\ q.cycle \in Cycle /\ q.template \in Template \cup {Nil}
                                   /\ q.excluded \in SUBSET User
           /\ q.op = "activateLoaded" => /\ q.cycle \in Cycle /\ q.snapshot \in Contents
                                         /\ q.eligible \in SUBSET User
           /\ q.op = "activated" => q.cycle \in Cycle /\ q.eligible \in SUBSET User
           /\ q.op = "submit" => /\ q.cycle \in Cycle /\ q.pair \in Pair
                                 /\ q.score \in Rating \cup {Nil}
           /\ q.op \in {"nominate", "nominateCounted"} =>
                  q.cycle \in Cycle /\ q.by \in User /\ q.nominees \in SUBSET User
           /\ q.op \in {"approve", "reject"} => q.cycle \in Cycle /\ q.pair \in Pair
           /\ q.op = "bulk" => q.cycle \in Cycle /\ q.todo \in SUBSET Pair
           /\ q.op = "bulkApprove" => /\ q.cycle \in Cycle /\ q.todo \in SUBSET Pair
                                      /\ q.pair \in Pair
           /\ q.op = "overdue" => q.cycles \in SUBSET Cycle
           /\ q.op = "createSession" => q.cycle \in Cycle /\ q.scope \in SUBSET User
           /\ q.op = "createSessionLoaded" => q.cycle \in Cycle /\ q.members \in SUBSET User
           /\ q.op \in {"adjust", "finalize"} => q.session \in Session /\ q.scores \in Scores
  BY DEF InFlight, Idle

----------------------------------------------------------------------------
(* Types.                                                                  *)

\* A step that leaves the rows alone and moves slot r to a well-typed request keeps the types.
LEMMA RequestOnly ==
    ASSUME TypeOK, NEW r \in Request, NEW q \in InFlight, Await(r, q), UNCHANGED rows
    PROVE  TypeOK'
  BY DEF TypeOK, RowsOK, Await, rows

\* Slot r holds a well-typed request, and may become idle or move on to another one.
LEMMA RequestTypes ==
    ASSUME TypeOK, NEW r \in Request
    PROVE  /\ RowsOK
           /\ request[r] \in InFlight
           /\ End(r) => request' \in [Request -> InFlight]
           /\ \A q \in InFlight : Await(r, q) => request' \in [Request -> InFlight]
  BY DEF TypeOK, End, Await, InFlight

\* The entry of a user in a session is a score or null.
LEMMA ScoreInSession ==
    ASSUME NEW scores \in Scores, NEW u \in DOMAIN scores
    PROVE  u \in User /\ scores[u] \in CalibratedScore \cup {Nil}
  BY DEF Scores

\* The template handlers keep the types.
LEMMA TemplateStepType ==
    ASSUME TypeOK, NEW r \in Request,
           \/ \E t \in Template : UpdateTemplateRead(r, t) \/ RemoveTemplateRead(r, t)
           \/ UpdateTemplateCommit(r) \/ RemoveTemplateCommit(r)
    PROVE  TypeOK'
  <1>0. RowsOK /\ request[r] \in InFlight
    BY RequestTypes
  <1>1. CASE \E t \in Template : UpdateTemplateRead(r, t)
    BY <1>1, RequestOnly DEF UpdateTemplateRead, Begin, Await, InFlight
  <1>2. CASE UpdateTemplateCommit(r)
    <2>1. request[r].template \in Template
      BY <1>0, <1>2, RequestFields DEF UpdateTemplateCommit
    <2>2. RowsOK'
      BY <1>0, <1>2, <2>1 DEF UpdateTemplateCommit, RowsOK
    <2>3. QED
      BY <1>2, <2>2, RequestTypes DEF UpdateTemplateCommit, TypeOK
  <1>3. CASE \E t \in Template : RemoveTemplateRead(r, t)
    BY <1>3, RequestOnly DEF RemoveTemplateRead, Begin, Await, InFlight
  <1>4. CASE RemoveTemplateCommit(r)
    <2>1. request[r].template \in Template
      BY <1>0, <1>4, RequestFields DEF RemoveTemplateCommit
    <2>2. RowsOK'
      BY <1>0, <1>4, <2>1 DEF RemoveTemplateCommit, RowsOK
    <2>3. QED
      BY <1>4, <2>2, RequestTypes DEF RemoveTemplateCommit, TypeOK
  <1>5. QED
    BY <1>1, <1>2, <1>3, <1>4

\* The handlers that create, edit and delete a cycle keep the types.
LEMMA CycleEditType ==
    ASSUME TypeOK, NEW r \in Request,
           \/ \E t \in Template, ex \in ExclusionLists : CreateCycleRead(r, t, ex)
           \/ \E c \in Cycle : CreateCycleCommit(r, c)
           \/ \E c \in Cycle, t \in Template \cup {Nil}, ex \in ExclusionLists \cup {Nil} :
                 UpdateCycleRead(r, c, t, ex)
           \/ UpdateCycleCommit(r)
           \/ \E c \in Cycle : RemoveCycleRead(r, c)
           \/ RemoveCycleCommit(r)
    PROVE  TypeOK'
  <1> DEFINE q == request[r]
  <1>0. RowsOK /\ q \in InFlight
    BY RequestTypes
  <1>1. CASE \E t \in Template, ex \in ExclusionLists : CreateCycleRead(r, t, ex)
    BY <1>1, RequestOnly, StoreAssumption DEF CreateCycleRead, Begin, Await, InFlight
  <1>2. ASSUME NEW c \in Cycle, CreateCycleCommit(r, c) PROVE TypeOK'
    <2>1. q.template \in Template /\ q.excluded \in SUBSET User
      BY <1>0, <1>2, RequestFields DEF CreateCycleCommit
    <2>2. RowsOK'
      BY <1>0, <1>2, <2>1 DEF CreateCycleCommit, RowsOK, CycleRow, CycleStatus, Launched
    <2>3. QED
      BY <1>2, <2>2, RequestTypes DEF CreateCycleCommit, TypeOK
  <1>3. CASE \E c \in Cycle, t \in Template \cup {Nil}, ex \in ExclusionLists \cup {Nil} :
                UpdateCycleRead(r, c, t, ex)
    BY <1>3, RequestOnly, StoreAssumption DEF UpdateCycleRead, Begin, Await, InFlight
  <1>4. CASE UpdateCycleCommit(r)
    <2> DEFINE old == cycle[q.cycle]
               tt == IF q.template = Nil THEN old.template ELSE q.template
               xx == IF q.excluded = Nil THEN old.excluded ELSE q.excluded
               row == [old EXCEPT !.template = tt, !.excluded = xx]
    <2>1. q.cycle \in Cycle /\ q.template \in Template \cup {Nil}
          /\ q.excluded \in (SUBSET User) \cup {Nil}
      BY <1>0, <1>4, RequestFields DEF UpdateCycleCommit
    <2>2. old \in CycleRow
      BY <1>0, <2>1 DEF RowsOK
    <2>3. tt \in Template \cup {Nil} /\ xx \in SUBSET User
      BY <2>1, <2>2 DEF CycleRow
    <2>4. row \in CycleRow
      BY <2>2, <2>3 DEF CycleRow
    <2>5. cycle' = [cycle EXCEPT ![q.cycle] = row]
      BY <1>0, <1>4 DEF UpdateCycleCommit, RowsOK
    <2>6. cycle' \in [Cycle -> CycleRow]
      <3> HIDE DEF row
      <3> QED BY <1>0, <2>1, <2>4, <2>5 DEF RowsOK
    <2>7. RowsOK'
      BY <1>0, <1>4, <2>6 DEF UpdateCycleCommit, RowsOK
    <2>8. QED
      BY <1>4, <2>7, RequestTypes DEF UpdateCycleCommit, TypeOK
  <1>5. CASE \E c \in Cycle : RemoveCycleRead(r, c)
    BY <1>5, RequestOnly DEF RemoveCycleRead, Begin, Await, InFlight
  <1>6. CASE RemoveCycleCommit(r)
    <2>1. q.cycle \in Cycle
      BY <1>0, <1>6, RequestFields DEF RemoveCycleCommit
    <2>2. [cycle[q.cycle] EXCEPT !.status = "DELETED"] \in CycleRow
      <3>1. cycle[q.cycle] \in CycleRow
        BY <1>0, <2>1 DEF RowsOK
      <3>2. QED
        BY <3>1 DEF CycleRow, CycleStatus
    <2>3. cycle' \in [Cycle -> CycleRow]
      BY <1>0, <1>6, <2>1, <2>2 DEF RemoveCycleCommit, RowsOK
    <2>4. session' \in [Session -> SessionRow]
      <3>1. \A s \in Session : [session[s] EXCEPT !.status = "DELETED"] \in SessionRow
        BY <1>0 DEF RowsOK, SessionRow
      <3>2. QED
        BY <1>0, <1>6, <3>1 DEF RemoveCycleCommit, RowsOK
    <2>5. performance' \in [User -> PerformanceRow]
      <3>1. \A u \in User : [performance[u] EXCEPT !.lastReviewCycle = Nil] \in PerformanceRow
        BY <1>0 DEF RowsOK, PerformanceRow
      <3>2. QED
        BY <1>0, <1>6, <3>1 DEF RemoveCycleCommit, RowsOK
    <2>6. RowsOK'
      BY <1>0, <1>6, <2>1, <2>3, <2>4, <2>5 DEF RemoveCycleCommit, RowsOK
    <2>7. QED
      BY <1>6, <2>6, RequestTypes DEF RemoveCycleCommit, TypeOK
  <1>7. QED
    BY <1>1, <1>2, <1>3, <1>4, <1>5, <1>6

\* Activating, calibrating and completing a cycle keep the types.
LEMMA StageType ==
    ASSUME TypeOK, NEW r \in Request,
           \/ \E c \in Cycle : ActivateRead(r, c) \/ CalibrateRead(r, c) \/ CompleteRead(r, c)
           \/ ActivateLoad(r) \/ ActivateCommit(r) \/ ActivateNotify(r)
           \/ CalibrateCommit(r) \/ CompleteCheck(r) \/ CompleteCommit(r)
    PROVE  TypeOK'
  <1> DEFINE q == request[r]
  <1>0. RowsOK /\ q \in InFlight
    BY RequestTypes
  <1>1. CASE \E c \in Cycle : ActivateRead(r, c)
    BY <1>0, <1>1, RequestOnly DEF ActivateRead, Begin, Await, InFlight, RowsOK, CycleRow
  <1>2. CASE ActivateLoad(r)
    <2> DEFINE next == [op |-> "activateLoaded", cycle |-> q.cycle,
                        snapshot |-> <<q.template, template[q.template]>>,
                        eligible |-> User \ q.excluded]
    <2>1. q.cycle \in Cycle /\ q.template \in Template
      BY <1>0, <1>2, RequestFields DEF ActivateLoad, TemplateExists
    <2>2. <<q.template, template[q.template]>> \in Contents
      BY <1>0, <2>1 DEF RowsOK, Contents
    <2>3. next \in InFlight
      BY <2>1, <2>2 DEF InFlight
    <2>4. QED
      BY <1>2, <2>3, RequestOnly DEF ActivateLoad
  <1>3. CASE ActivateCommit(r)
    <2> DEFINE row == [cycle[q.cycle] EXCEPT !.status = "ACTIVE", !.snapshot = q.snapshot]
               next == [op |-> "activated", cycle |-> q.cycle, eligible |-> q.eligible]
    <2>1. q.cycle \in Cycle /\ q.snapshot \in Contents /\ q.eligible \in SUBSET User
      BY <1>0, <1>3, RequestFields DEF ActivateCommit
    <2>2. cycle[q.cycle] \in CycleRow
      BY <1>0, <2>1 DEF RowsOK
    <2>3. row \in CycleRow
      BY <2>1, <2>2 DEF CycleRow, CycleStatus, Launched
    <2>4. cycle' = [cycle EXCEPT ![q.cycle] = row]
      BY <1>0, <1>3 DEF ActivateCommit, RowsOK
    <2>5. review' \in [Cycle -> [Pair -> ReviewRow \cup {Nil}]]
      BY ZenonT(40), <1>0, <1>3 DEF ActivateCommit, RowsOK, NewReview, ReviewRow
    <2>6. RowsOK'
      <3>1. cycle' \in [Cycle -> CycleRow]
        <4> HIDE DEF row
        <4> QED BY <1>0, <2>1, <2>3, <2>4 DEF RowsOK
      <3>2. UNCHANGED <<template, nomination, session, performance, notice>>
        BY <1>3 DEF ActivateCommit
      <3>3. QED BY <1>0, <2>5, <3>1, <3>2 DEF RowsOK
    <2>7. next \in InFlight
      BY <2>1 DEF InFlight
    <2>8. QED
      BY <1>3, <2>6, <2>7, RequestTypes DEF ActivateCommit, TypeOK
  <1>4. CASE ActivateNotify(r)
    <2>1. q.cycle \in Cycle /\ q.eligible \in SUBSET User
      BY <1>0, <1>4, RequestFields DEF ActivateNotify
    <2>2. RowsOK'
      BY <1>0, <1>4, <2>1 DEF ActivateNotify, RowsOK
    <2>3. QED
      BY <1>4, <2>2, RequestTypes DEF ActivateNotify, TypeOK
  <1>5. CASE \E c \in Cycle : CalibrateRead(r, c)
    BY <1>5, RequestOnly DEF CalibrateRead, Begin, Await, InFlight
  <1>6. CASE CalibrateCommit(r)
    <2>1. q.cycle \in Cycle
      BY <1>0, <1>6, RequestFields DEF CalibrateCommit
    <2>2. RowsOK'
      BY ZenonT(40), <1>0, <1>6, <2>1 DEF CalibrateCommit, RowsOK, CycleRow, CycleStatus, Launched
    <2>3. QED
      BY <1>6, <2>2, RequestTypes DEF CalibrateCommit, TypeOK
  <1>7. CASE \E c \in Cycle : CompleteRead(r, c)
    BY <1>7, RequestOnly DEF CompleteRead, Begin, Await, InFlight
  <1>8. CASE CompleteCheck(r)
    <2>1. [op |-> "completeChecked", cycle |-> q.cycle] \in InFlight
      BY <1>0, <1>8, RequestFields DEF CompleteCheck, InFlight
    <2>2. QED
      BY <1>8, <2>1, RequestOnly DEF CompleteCheck
  <1>9. CASE CompleteCommit(r)
    <2> DEFINE done == SessionsOf(q.cycle, "finalized")
               scored == {u \in User : \E s \in done : u \in DOMAIN session[s].scores}
    <2>1. q.cycle \in Cycle
      BY <1>0, <1>9, RequestFields DEF CompleteCommit
    <2>2. PICK last \in [scored -> done] :
            /\ \A u \in scored : u \in DOMAIN session[last[u]].scores
            /\ performance' = [u \in User |->
                   IF u \in scored
                   THEN [reviewScore |-> session[last[u]].scores[u], lastReviewCycle |-> q.cycle]
                   ELSE performance[u]]
      BY <1>9 DEF CompleteCommit
    <2>3. \A u \in scored : session[last[u]].scores \in Scores
      BY <1>0, <2>2 DEF SessionsOf, RowsOK, SessionRow
    <2>4. \A u \in scored : session[last[u]].scores[u] \in CalibratedScore \cup {Nil}
      BY <2>2, <2>3, ScoreInSession
    <2>5. performance' \in [User -> PerformanceRow]
      <3> HIDE DEF scored, done
      <3>1. QED
        BY <1>0, <2>1, <2>2, <2>4 DEF PerformanceRow, RowsOK
    <2>6. cycle' = [cycle EXCEPT ![q.cycle].status = "COMPLETED"]
      BY <1>9 DEF CompleteCommit
    <2>7. cycle' \in [Cycle -> CycleRow]
      BY ZenonT(40), <1>0, <2>1, <2>6 DEF RowsOK, CycleRow, CycleStatus, Launched
    <2>8. RowsOK'
      BY <1>0, <1>9, <2>5, <2>7 DEF CompleteCommit, RowsOK
    <2>9. QED
      BY <1>9, <2>8, RequestTypes DEF CompleteCommit, TypeOK
  <1>10. QED
    BY <1>1, <1>2, <1>3, <1>4, <1>5, <1>6, <1>7, <1>8, <1>9

\* Every step of the template and cycle handlers keeps the types.
LEMMA CycleStepType ==
    ASSUME TypeOK, NEW r \in Request, CycleStep(r)
    PROVE  TypeOK'
  BY TemplateStepType, CycleEditType, StageType DEF CycleStep

\* Submitting and nominating keep the types.
LEMMA SubmitType ==
    ASSUME TypeOK, NEW r \in Request,
           \/ \E c \in Cycle, p \in Pair, x \in Rating \cup {Nil} : SubmitReviewRead(r, c, p, x)
           \/ SubmitReviewCommit(r)
           \/ \E c \in Cycle, u \in User, S \in SUBSET User : NominateRead(r, c, u, S)
           \/ NominateCount(r) \/ NominateCommit(r)
    PROVE  TypeOK'
  <1> DEFINE q == request[r]
  <1>0. RowsOK /\ q \in InFlight
    BY RequestTypes
  <1>1. CASE \E c \in Cycle, p \in Pair, x \in Rating \cup {Nil} : SubmitReviewRead(r, c, p, x)
    BY <1>1, RequestOnly DEF SubmitReviewRead, Begin, Await, InFlight
  <1>2. CASE SubmitReviewCommit(r)
    <2> DEFINE row == [review[q.cycle][q.pair] EXCEPT !.status = "SUBMITTED", !.score = q.score]
    <2>1. q.cycle \in Cycle /\ q.pair \in Pair /\ q.score \in Rating \cup {Nil}
      BY <1>0, <1>2, RequestFields DEF SubmitReviewCommit
    <2>2. review[q.cycle][q.pair] \in ReviewRow
      <3>1. review[q.cycle][q.pair] # Nil
        BY <1>2 DEF SubmitReviewCommit
      <3>2. review \in [Cycle -> [Pair -> ReviewRow \cup {Nil}]]
        BY <1>0 DEF RowsOK
      <3>3. QED BY <2>1, <3>1, <3>2
    <2>3. row \in ReviewRow
      BY <2>1, <2>2 DEF ReviewRow
    <2>4. review' = [review EXCEPT ![q.cycle][q.pair] = row]
      BY <1>0, <1>2, <2>1 DEF SubmitReviewCommit, RowsOK
    <2>5. review' \in [Cycle -> [Pair -> ReviewRow \cup {Nil}]]
      <3> HIDE DEF row
      <3> QED BY <1>0, <2>1, <2>3, <2>4 DEF RowsOK
    <2>6. QED
      BY <1>0, <1>2, <2>5, RequestTypes DEF SubmitReviewCommit, TypeOK, RowsOK
  <1>3. CASE \E c \in Cycle, u \in User, S \in SUBSET User : NominateRead(r, c, u, S)
    BY <1>3, RequestOnly DEF NominateRead, Begin, Await, InFlight
  <1>4. CASE NominateCount(r)
    <2>1. [op |-> "nominateCounted", cycle |-> q.cycle, by |-> q.by, nominees |-> q.nominees]
              \in InFlight
      BY <1>0, <1>4, RequestFields DEF NominateCount, InFlight
    <2>2. QED
      BY <1>4, <2>1, RequestOnly DEF NominateCount
  <1>5. CASE NominateCommit(r)
    <2>1. q.cycle \in Cycle
      BY <1>0, <1>5, RequestFields DEF NominateCommit
    <2>2. nomination' \in [Cycle -> [Pair -> NominationStatus \cup {Nil}]]
      BY <1>0, <1>5, <2>1 DEF NominateCommit, RowsOK, NominationStatus
    <2>3. QED
      BY <1>0, <1>5, <2>2, RequestTypes DEF NominateCommit, TypeOK, RowsOK
  <1>6. QED
    BY <1>1, <1>2, <1>3, <1>4, <1>5

\* The approval transaction keeps the types of the two tables it writes.
LEMMA ApproveTypes ==
    ASSUME RowsOK, NEW c \in Cycle, NEW p \in Pair, ApproveTransaction(c, p)
    PROVE  /\ nomination' \in [Cycle -> [Pair -> NominationStatus \cup {Nil}]]
           /\ review' \in [Cycle -> [Pair -> ReviewRow \cup {Nil}]]
  BY DEF ApproveTransaction, RowsOK, NominationStatus, ReviewRow

\* Approving, rejecting and marking reviews overdue keep the types.
LEMMA ApproveType ==
    ASSUME TypeOK, NEW r \in Request,
           \/ \E c \in Cycle, p \in Pair : ApproveRead(r, c, p) \/ RejectRead(r, c, p)
           \/ \E c \in Cycle : BulkApproveRead(r, c) \/ OverdueMark(r, c)
           \/ \E p \in Pair : BulkApproveNext(r, p)
           \/ \E S \in SUBSET Cycle : OverdueRead(r, S)
           \/ ApproveCommit(r) \/ RejectCommit(r) \/ BulkApproveCommit(r)
    PROVE  TypeOK'
  <1> DEFINE q == request[r]
  <1>0. RowsOK /\ q \in InFlight
    BY RequestTypes
  <1>1. CASE \E c \in Cycle, p \in Pair : ApproveRead(r, c, p)
    BY <1>1, RequestOnly DEF ApproveRead, Begin, Await, InFlight
  <1>2. CASE ApproveCommit(r)
    <2>1. q.cycle \in Cycle /\ q.pair \in Pair
      BY <1>0, <1>2, RequestFields DEF ApproveCommit
    <2>2. QED
      BY <1>0, <1>2, <2>1, ApproveTypes, RequestTypes DEF ApproveCommit, TypeOK, RowsOK
  <1>3. CASE \E c \in Cycle, p \in Pair : RejectRead(r, c, p)
    BY <1>3, RequestOnly DEF RejectRead, Begin, Await, InFlight
  <1>4. CASE RejectCommit(r)
    <2>1. q.cycle \in Cycle /\ q.pair \in Pair
      BY <1>0, <1>4, RequestFields DEF RejectCommit
    <2>2. nomination' \in [Cycle -> [Pair -> NominationStatus \cup {Nil}]]
      BY <1>0, <1>4, <2>1 DEF RejectCommit, RowsOK, NominationStatus
    <2>3. QED
      BY <1>0, <1>4, <2>2, RequestTypes DEF RejectCommit, TypeOK, RowsOK
  <1>5. CASE \E c \in Cycle : BulkApproveRead(r, c)
    BY <1>5, RequestOnly DEF BulkApproveRead, Begin, Await, InFlight
  <1>6. ASSUME NEW p \in Pair, BulkApproveNext(r, p) PROVE TypeOK'
    <2>1. q.cycle \in Cycle /\ q.todo \in SUBSET Pair
      BY <1>0, <1>6, RequestFields DEF BulkApproveNext
    <2>2. [op |-> "bulkApprove", cycle |-> q.cycle, todo |-> q.todo \ {p}, pair |-> p] \in InFlight
      BY <2>1 DEF InFlight
    <2>3. QED
      BY <1>6, <2>2, RequestOnly DEF BulkApproveNext
  <1>7. CASE BulkApproveCommit(r)
    <2>1. q.cycle \in Cycle /\ q.todo \in SUBSET Pair /\ q.pair \in Pair
      BY <1>0, <1>7, RequestFields DEF BulkApproveCommit
    <2>2. [op |-> "bulk", cycle |-> q.cycle, todo |-> q.todo] \in InFlight
      BY <2>1 DEF InFlight
    <2>3. request' \in [Request -> InFlight]
      BY <1>7, <2>2, RequestTypes DEF BulkApproveCommit
    <2>4. QED
      BY <1>0, <1>7, <2>1, <2>3, ApproveTypes DEF BulkApproveCommit, TypeOK, RowsOK
  <1>8. CASE \E S \in SUBSET Cycle : OverdueRead(r, S)
    BY <1>8, RequestOnly DEF OverdueRead, Begin, Await, InFlight
  <1>9. ASSUME NEW c \in Cycle, OverdueMark(r, c) PROVE TypeOK'
    <2>1. q.cycles \in SUBSET Cycle
      BY <1>0, <1>9, RequestFields DEF OverdueMark
    <2>2. [op |-> "overdue", cycles |-> q.cycles \ {c}] \in InFlight
      BY <2>1 DEF InFlight
    <2>3. request' \in [Request -> InFlight]
      BY <1>9, <2>2, RequestTypes DEF OverdueMark
    <2>4. review' \in [Cycle -> [Pair -> ReviewRow \cup {Nil}]]
      <3>1. \A row \in ReviewRow : [row EXCEPT !.status = "OVERDUE"] \in ReviewRow
        BY DEF ReviewRow
      <3>2. review[c] \in [Pair -> ReviewRow \cup {Nil}]
        BY <1>0 DEF RowsOK
      <3>3. \A p \in Pair : review[c][p] # Nil => review[c][p] \in ReviewRow
        BY <3>2
      <3>4. QED
        BY <1>0, <1>9, <3>1, <3>2, <3>3 DEF OverdueMark, RowsOK
    <2>5. QED
      BY <1>0, <1>9, <2>3, <2>4 DEF OverdueMark, TypeOK, RowsOK
  <1>10. QED
    BY <1>1, <1>2, <1>3, <1>4, <1>5, <1>6, <1>7, <1>8, <1>9

\* Every step of the submission and nomination handlers and of the cron keeps the types.
LEMMA PeerStepType ==
    ASSUME TypeOK, NEW r \in Request, PeerStep(r)
    PROVE  TypeOK'
  BY SubmitType, ApproveType DEF PeerStep

\* Every step of the calibration handlers keeps the types.
LEMMA CalibrationStepType ==
    ASSUME TypeOK, NEW r \in Request, CalibrationStep(r)
    PROVE  TypeOK'
  <1> DEFINE q == request[r]
  <1>0. RowsOK /\ q \in InFlight
    BY RequestTypes
  <1>1. CASE \E c \in Cycle, scope \in SUBSET User : CreateSessionRead(r, c, scope)
    BY <1>1, RequestOnly DEF CreateSessionRead, Begin, Await, InFlight
  <1>2. CASE CreateSessionLoad(r)
    <2>1. q.cycle \in Cycle /\ q.scope \in SUBSET User
      BY <1>0, <1>2, RequestFields DEF CreateSessionLoad
    <2>2. \A S \in SUBSET User :
              [op |-> "createSessionLoaded", cycle |-> q.cycle, members |-> S] \in InFlight
      BY <2>1 DEF InFlight
    <2>3. QED
      BY <1>2, <2>1, <2>2, RequestOnly DEF CreateSessionLoad
  <1>3. ASSUME NEW s \in Session, CreateSessionCommit(r, s) PROVE TypeOK'
    <2> DEFINE row == [status |-> "in_progress", cycle |-> q.cycle,
                       scores |-> [u \in q.members |-> Nil]]
    <2>1. q.cycle \in Cycle /\ q.members \in SUBSET User
      BY <1>0, <1>3, RequestFields DEF CreateSessionCommit
    <2>2. [u \in q.members |-> Nil] \in Scores
      BY <2>1 DEF Scores
    <2>3. row \in SessionRow
      BY <2>1, <2>2 DEF SessionRow
    <2>4. session' \in [Session -> SessionRow]
      <3>1. session' = [session EXCEPT ![s] = row]
        BY <1>3 DEF CreateSessionCommit
      <3> HIDE DEF row
      <3> QED BY <1>0, <2>3, <3>1 DEF RowsOK
    <2>5. QED
      BY <1>0, <1>3, <2>4, RequestTypes DEF CreateSessionCommit, TypeOK, RowsOK
  <1>4. ASSUME NEW s \in Session, NEW u \in User, NEW x \in CalibratedScore, AdjustRead(r, s, u, x)
        PROVE TypeOK'
    <2> DEFINE new == [session[s].scores EXCEPT ![u] = x]
    <2>1. session[s].scores \in Scores
      BY <1>0 DEF RowsOK, SessionRow
    <2>2. new \in Scores
      BY <2>1 DEF Scores
    <2>3. [op |-> "adjust", session |-> s, scores |-> new] \in InFlight
      BY <2>2 DEF InFlight
    <2>4. QED
      BY <1>4, <2>3, RequestOnly DEF AdjustRead, Begin, Await
  <1>5. CASE AdjustCommit(r)
    <2> DEFINE row == [session[q.session] EXCEPT !.scores = q.scores]
    <2>1. q.session \in Session /\ q.scores \in Scores
      BY <1>0, <1>5, RequestFields DEF AdjustCommit
    <2>2. row \in SessionRow
      <3>1. session[q.session] \in SessionRow
        BY <1>0, <2>1 DEF RowsOK
      <3>2. QED BY <2>1, <3>1 DEF SessionRow
    <2>3. session' \in [Session -> SessionRow]
      <3>1. session' = [session EXCEPT ![q.session] = row]
        BY <1>5 DEF AdjustCommit
      <3> HIDE DEF row
      <3> QED BY <1>0, <2>2, <3>1 DEF RowsOK
    <2>4. QED
      BY <1>0, <1>5, <2>3, RequestTypes DEF AdjustCommit, TypeOK, RowsOK
  <1>6. ASSUME NEW s \in Session, FinalizeRead(r, s) PROVE TypeOK'
    <2>1. session[s].scores \in Scores
      BY <1>0 DEF RowsOK, SessionRow
    <2>2. [op |-> "finalize", session |-> s, scores |-> session[s].scores] \in InFlight
      BY <2>1 DEF InFlight
    <2>3. QED
      BY <1>6, <2>2, RequestOnly DEF FinalizeRead, Begin, Await
  <1>7. CASE FinalizeCommit(r)
    <2> DEFINE row == [session[q.session] EXCEPT !.status = "finalized"]
    <2>1. q.session \in Session /\ q.scores \in Scores
      BY <1>0, <1>7, RequestFields DEF FinalizeCommit
    <2>2. session[q.session] \in SessionRow
      BY <1>0, <2>1 DEF RowsOK
    <2>3. row \in SessionRow /\ session[q.session].cycle \in Cycle \cup {Nil}
      BY <2>2 DEF SessionRow
    <2>4. session' \in [Session -> SessionRow]
      <3>1. session' = [session EXCEPT ![q.session] = row]
        BY <1>7 DEF FinalizeCommit
      <3> HIDE DEF row
      <3> QED BY <1>0, <2>3, <3>1 DEF RowsOK
    <2>5. \A u \in User : u \in DOMAIN q.scores => q.scores[u] \in CalibratedScore \cup {Nil}
      BY <2>1, ScoreInSession
    <2>6. performance' \in [User -> PerformanceRow]
      BY <1>0, <1>7, <2>3, <2>5 DEF FinalizeCommit, RowsOK, PerformanceRow
    <2>7. QED
      BY <1>0, <1>7, <2>4, <2>6, RequestTypes DEF FinalizeCommit, TypeOK, RowsOK
  <1>8. QED
    BY <1>1, <1>2, <1>3, <1>4, <1>5, <1>6, <1>7 DEF CalibrationStep

\* The empty tables and idle slots are well typed.
LEMMA InitType == Init => TypeOK
  <1> SUFFICES ASSUME Init PROVE TypeOK
    OBVIOUS
  <1>1. [u \in {} |-> Nil] \in Scores
    BY DEF Scores
  <1>2. RowsOK
    BY <1>1 DEF Init, StoreInit, RowsOK, CycleRow, CycleStatus, SessionRow, PerformanceRow
  <1>3. QED
    BY <1>2 DEF Init, StoreInit, TypeOK, InFlight

\* Every step keeps the types.
LEMMA NextType == TypeOK /\ [Next]_vars => TypeOK'
  <1> SUFFICES ASSUME TypeOK, [Next]_vars PROVE TypeOK'
    OBVIOUS
  <1>1. CASE \E t \in Template : CreateTemplate(t)
    BY <1>1 DEF CreateTemplate, TypeOK, RowsOK
  <1>2. ASSUME NEW r \in Request, Fail(r) PROVE TypeOK'
    BY <1>2, RequestTypes DEF Fail, TypeOK, RowsOK, rows
  <1>3. CASE UNCHANGED vars
    BY <1>3 DEF vars, TypeOK, RowsOK
  <1>4. QED
    BY <1>1, <1>2, <1>3, CycleStepType, PeerStepType, CalibrationStepType DEF Next

\* Every table holds rows of its type and every request in flight what its
\* handler has read, whatever the order of the requests' steps.
THEOREM TypeCorrect == Spec => []TypeOK
  BY InitType, NextType, PTL DEF Spec
=============================================================================
