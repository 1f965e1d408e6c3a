------------------------- MODULE ReviewSafetyProofs -------------------------
(***************************************************************************)
(* The safety properties of the review module that hold however requests   *)
(* overlap, for every set of users, cycles, sessions and requests.  First  *)
(* one lemma for each table on how a step may change it, then the two      *)
(* parts of the inductive invariant, then the properties.                  *)
(***************************************************************************)
EXTENDS ReviewInvariant, ReviewProofs

----------------------------------------------------------------------------
(* How a step may change each table.                                       *)

\* A step writes nothing the properties read, or is one of the writes.
LEMMA StepKinds ==
    ASSUME [Next]_vars
    PROVE  \/ UNCHANGED <<cycle, review, nomination, session, performance, notice>>
           \/ \E r \in Request :
                \/ \E c \in Cycle : CreateCycleCommit(r, c) \/ OverdueMark(r, c)
                \/ UpdateCycleCommit(r) \/ RemoveCycleCommit(r)
                \/ ActivateCommit(r) \/ ActivateNotify(r) \/ CalibrateCommit(r) \/ CompleteCommit(r)
                \/ SubmitReviewCommit(r) \/ NominateCommit(r)
                \/ ApproveCommit(r) \/ BulkApproveCommit(r) \/ RejectCommit(r)
                \/ \E s \in Session : CreateSessionCommit(r, s)
                \/ AdjustCommit(r) \/ FinalizeCommit(r)
  <1> DEFINE Same == UNCHANGED <<cycle, review, nomination, session, performance, notice>>
  <1>1. CASE UNCHANGED vars \/ \E t \in Template : CreateTemplate(t)
    BY <1>1 DEF vars, CreateTemplate
  <1>2. ASSUME NEW r \in Request, Fail(r) PROVE Same
    BY <1>2 DEF Fail, rows
  <1>3. ASSUME NEW r \in Request, CycleStep(r)
        PROVE  \/ Same
               \/ \E c \in Cycle : CreateCycleCommit(r, c)
               \/ UpdateCycleCommit(r) \/ RemoveCycleCommit(r)
               \/ ActivateCommit(r) \/ ActivateNotify(r) \/ CalibrateCommit(r) \/ CompleteCommit(r)
    BY <1>3 DEF CycleStep, rows, UpdateTemplateRead, UpdateTemplateCommit, RemoveTemplateRead,
                RemoveTemplateCommit, CreateCycleRead, UpdateCycleRead, RemoveCycleRead,
                ActivateRead, ActivateLoad, CalibrateRead, CompleteRead, CompleteCheck
  <1>4. ASSUME NEW r \in Request, PeerStep(r)
        PROVE  \/ Same
               \/ \E c \in Cycle : OverdueMark(r, c)
               \/ SubmitReviewCommit(r) \/ NominateCommit(r)
               \/ ApproveCommit(r) \/ BulkApproveCommit(r) \/ RejectCommit(r)
    BY <1>4 DEF PeerStep, rows, SubmitReviewRead, NominateRead, NominateCount, ApproveRead,
                RejectRead, BulkApproveRead, BulkApproveNext, OverdueRead
  <1>5. ASSUME NEW r \in Request, CalibrationStep(r)
        PROVE  \/ Same
               \/ \E s \in Session : CreateSessionCommit(r, s)
               \/ AdjustCommit(r) \/ FinalizeCommit(r)
    BY <1>5 DEF CalibrationStep, rows, CreateSessionRead, CreateSessionLoad, AdjustRead, FinalizeRead
  <1>6. QED
    BY <1>1, <1>2, <1>3, <1>4, <1>5 DEF Next

\* A slot keeps its request, or takes a step after which it holds nothing
\* the invariant is about, or takes one of the listed steps.
LEMMA RequestStep ==
    ASSUME TypeOK, [Next]_vars, NEW x \in Request
    PROVE  \/ request'[x] = request[x]
           \/ request'[x].op \in {"idle", "updateTemplate", "removeTemplate", "removeCycle",
                  "submit", "approve", "reject", "bulk", "bulkApprove", "overdue", "adjust",
                  "finalize"}
           \/ \E t \in Template, ex \in ExclusionLists : CreateCycleRead(x, t, ex)
           \/ \E c \in Cycle, t \in Template \cup {Nil}, ex \in ExclusionLists \cup {Nil} :
                 UpdateCycleRead(x, c, t, ex)
           \/ \E c \in Cycle : ActivateRead(x, c) \/ CalibrateRead(x, c) \/ CompleteRead(x, c)
           \/ ActivateLoad(x) \/ ActivateCommit(x) \/ CompleteCheck(x)
           \/ \E c \in Cycle, u \in User, S \in SUBSET User : NominateRead(x, c, u, S)
           \/ NominateCount(x)
           \/ \E c \in Cycle, scope \in SUBSET User : CreateSessionRead(x, c, scope)
           \/ CreateSessionLoad(x)
  <1> DEFINE Silent(q) == q.op \in {"idle", "updateTemplate", "removeTemplate", "removeCycle",
                 "submit", "approve", "reject", "bulk", "bulkApprove", "overdue", "adjust",
                 "finalize"}
  <1>0. request \in [Request -> InFlight]
    BY DEF TypeOK
  <1>1. \A q : Await(x, q) => request'[x] = q
    BY <1>0 DEF Await
  <1>2. End(x) => request'[x] = Idle
    BY <1>0 DEF End
  <1>3. \A op, q : Begin(x, op, q) => request'[x] = q
    BY <1>0 DEF Begin
  <1>4. ASSUME NEW r \in Request, r # x
        PROVE  /\ \A q : Await(r, q) => request'[x] = request[x]
               /\ \A op, q : Begin(r, op, q) => request'[x] = request[x]
               /\ End(r) => request'[x] = request[x]
    BY <1>0, <1>4 DEF Await, Begin, End
  <1>5. CASE UNCHANGED vars \/ \E t \in Template : CreateTemplate(t)
    BY <1>5 DEF vars, CreateTemplate
  <1>6. ASSUME NEW r \in Request, r # x, CycleStep(r) \/ PeerStep(r) \/ CalibrationStep(r) \/ Fail(r)
        PROVE  request'[x] = request[x]
    <2>1. CASE CycleStep(r)
      BY <1>4, <1>6, <2>1 DEF CycleStep, UpdateTemplateRead, UpdateTemplateCommit,
         RemoveTemplateRead, RemoveTemplateCommit, CreateCycleRead, CreateCycleCommit,
         UpdateCycleRead, UpdateCycleCommit, RemoveCycleRead, RemoveCycleCommit, ActivateRead,
         ActivateLoad, ActivateCommit, ActivateNotify, CalibrateRead, CalibrateCommit,
         CompleteRead, CompleteCheck, CompleteCommit
    <2>2. CASE PeerStep(r)
      BY <1>4, <1>6, <2>2 DEF PeerStep, SubmitReviewRead, SubmitReviewCommit, NominateRead,
         NominateCount, NominateCommit, ApproveRead, ApproveCommit, RejectRead, RejectCommit,
         BulkApproveRead, BulkApproveNext, BulkApproveCommit, OverdueRead, OverdueMark
    <2>3. CASE CalibrationStep(r)
      BY <1>4, <1>6, <2>3 DEF CalibrationStep, CreateSessionRead, CreateSessionLoad,
         CreateSessionCommit, AdjustRead, AdjustCommit, FinalizeRead, FinalizeCommit
    <2>4. QED
      BY <1>4, <1>6, <2>1, <2>2, <2>3 DEF Fail
  <1>7. CASE Fail(x)
    BY <1>2, <1>7 DEF Fail, Idle
  <1>8. CASE CycleStep(x)
    <2>1. CASE \E t \in Template : UpdateTemplateRead(x, t) \/ RemoveTemplateRead(x, t)
      BY <1>3, <2>1 DEF UpdateTemplateRead, RemoveTemplateRead
    <2>2. CASE \E c \in Cycle : RemoveCycleRead(x, c)
      BY <1>3, <2>2 DEF RemoveCycleRead
    <2>3. CASE \/ UpdateTemplateCommit(x) \/ RemoveTemplateCommit(x)
               \/ \E c \in Cycle : CreateCycleCommit(x, c)
               \/ UpdateCycleCommit(x) \/ RemoveCycleCommit(x) \/ ActivateNotify(x)
               \/ CalibrateCommit(x) \/ CompleteCommit(x)
      <3>1. End(x)
        BY <2>3 DEF UpdateTemplateCommit, RemoveTemplateCommit, CreateCycleCommit,
           UpdateCycleCommit, RemoveCycleCommit, ActivateNotify, CalibrateCommit, CompleteCommit
      <3>2. QED
        BY <1>2, <3>1 DEF Idle
    <2>4. QED
      BY <1>8, <2>1, <2>2, <2>3 DEF CycleStep
  <1>9. CASE PeerStep(x)
    <2>1. CASE \E c \in Cycle, p \in Pair, s \in Rating \cup {Nil} : SubmitReviewRead(x, c, p, s)
      BY <1>3, <2>1 DEF SubmitReviewRead
    <2>2. CASE \E c \in Cycle, p \in Pair : ApproveRead(x, c, p) \/ RejectRead(x, c, p)
      BY <1>3, <2>2 DEF ApproveRead, RejectRead
    <2>3. CASE \E c \in Cycle : BulkApproveRead(x, c)
      BY <1>3, <2>3 DEF BulkApproveRead
    <2>4. CASE \E p \in Pair : BulkApproveNext(x, p)
      BY <1>1, <2>4 DEF BulkApproveNext
    <2>5. CASE \E S \in SUBSET Cycle : OverdueRead(x, S)
      BY <1>3, <2>5 DEF OverdueRead
    <2>6. CASE \E c \in Cycle : OverdueMark(x, c)
      BY <1>1, <1>2, <2>6 DEF OverdueMark, Idle
    <2>7. CASE SubmitReviewCommit(x) \/ NominateCommit(x) \/ ApproveCommit(x) \/ RejectCommit(x)
      <3>1. End(x)
        BY <2>7 DEF SubmitReviewCommit, NominateCommit, ApproveCommit, RejectCommit
      <3>2. QED
        BY <1>2, <3>1 DEF Idle
    <2>8. CASE BulkApproveCommit(x)
      BY <1>1, <1>2, <2>8 DEF BulkApproveCommit, Idle
    <2>9. QED
      BY <1>9, <2>1, <2>2, <2>3, <2>4, <2>5, <2>6, <2>7, <2>8 DEF PeerStep
  <1>10. CASE CalibrationStep(x)
    <2>1. CASE \E s \in Session, u \in User, y \in CalibratedScore : AdjustRead(x, s, u, y)
      BY <1>3, <2>1 DEF AdjustRead
    <2>2. CASE \E s \in Session : FinalizeRead(x, s)
      BY <1>3, <2>2 DEF FinalizeRead
    <2>3. CASE (\E s \in Session : CreateSessionCommit(x, s)) \/ AdjustCommit(x) \/ FinalizeCommit(x)
      BY <1>2, <2>3 DEF CreateSessionCommit, AdjustCommit, FinalizeCommit, Idle
    <2>4. QED
      BY <1>10, <2>1, <2>2, <2>3 DEF CalibrationStep
  <1>11. QED
    BY <1>5, <1>6, <1>7, <1>8, <1>9, <1>10 DEF Next

\* The cycle row changes along the lifecycle only, and who changes it.
LEMMA StatusStep ==
    ASSUME TypeOK, [Next]_vars, NEW c \in Cycle
    PROVE  \/ cycle'[c].status = cycle[c].status /\ cycle'[c].snapshot = cycle[c].snapshot
           \/ cycle[c].status = "UNBORN" /\ cycle'[c].status = "DRAFT" /\ cycle'[c].snapshot = Nil
           \/ /\ CycleExists(c) /\ cycle'[c].status = "DELETED"
              /\ \E r \in Request : RemoveCycleCommit(r) /\ request[r].cycle = c
           \/ /\ CycleExists(c) /\ cycle'[c].status = "ACTIVE"
              /\ \E r \in Request : ActivateCommit(r) /\ request[r].cycle = c
           \/ /\ CycleExists(c) /\ cycle'[c].status = "CALIBRATING"
              /\ \E r \in Request : CalibrateCommit(r) /\ request[r].cycle = c
           \/ /\ CycleExists(c) /\ cycle'[c].status = "COMPLETED"
              /\ \E r \in Request : CompleteCommit(r) /\ request[r].cycle = c
  <1>0. cycle \in [Cycle -> CycleRow]
    BY DEF TypeOK, RowsOK
  <1>01. cycle[c] = [status |-> cycle[c].status, template |-> cycle[c].template,
                     excluded |-> cycle[c].excluded, snapshot |-> cycle[c].snapshot]
    BY <1>0 DEF CycleRow
  <1>1. CASE UNCHANGED cycle
    BY <1>1
  <1>2. ASSUME NEW r \in Request, NEW d \in Cycle, CreateCycleCommit(r, d)
        PROVE  \/ cycle'[c] = cycle[c]
               \/ /\ cycle[c].status = "UNBORN" /\ cycle'[c].status = "DRAFT"
                  /\ cycle'[c].snapshot = Nil
    BY <1>0, <1>2 DEF CreateCycleCommit
  <1>3. ASSUME NEW r \in Request, UpdateCycleCommit(r)
        PROVE  cycle'[c].status = cycle[c].status /\ cycle'[c].snapshot = cycle[c].snapshot
    BY <1>0, <1>01, <1>3 DEF UpdateCycleCommit
  <1>4. ASSUME NEW r \in Request, RemoveCycleCommit(r)
        PROVE  cycle'[c] = cycle[c] \/ /\ CycleExists(c) /\ cycle'[c].status = "DELETED"
                                       /\ request[r].cycle = c
    BY <1>0, <1>01, <1>4 DEF RemoveCycleCommit
  <1>5. ASSUME NEW r \in Request, ActivateCommit(r)
        PROVE  cycle'[c] = cycle[c] \/ /\ CycleExists(c) /\ cycle'[c].status = "ACTIVE"
                                       /\ request[r].cycle = c
    BY <1>0, <1>01, <1>5 DEF ActivateCommit
  <1>6. ASSUME NEW r \in Request, CalibrateCommit(r)
        PROVE  cycle'[c] = cycle[c] \/ /\ CycleExists(c) /\ cycle'[c].status = "CALIBRATING"
                                       /\ request[r].cycle = c
    BY <1>0, <1>01, <1>6 DEF CalibrateCommit
  <1>7. ASSUME NEW r \in Request, CompleteCommit(r)
        PROVE  cycle'[c] = cycle[c] \/ /\ CycleExists(c) /\ cycle'[c].status = "COMPLETED"
                                       /\ request[r].cycle = c
    BY <1>0, <1>01, <1>7 DEF CompleteCommit
  <1>8. \/ UNCHANGED cycle
        \/ \E r \in Request :
             \/ \E d \in Cycle : CreateCycleCommit(r, d)
             \/ UpdateCycleCommit(r) \/ RemoveCycleCommit(r)
             \/ ActivateCommit(r) \/ CalibrateCommit(r) \/ CompleteCommit(r)
    BY StepKinds DEF ActivateNotify, SubmitReviewCommit, NominateCommit, ApproveCommit,
       BulkApproveCommit, RejectCommit, OverdueMark, CreateSessionCommit, AdjustCommit,
       FinalizeCommit
  <1>9. QED
    BY <1>1, <1>2, <1>3, <1>4, <1>5, <1>6, <1>7, <1>8

\* A review is kept with its type, a submitted one submitted; or created by an
\* activation or an approval; or deleted together with its cycle.
LEMMA ReviewStep ==
    ASSUME TypeOK, [Next]_vars, NEW c \in Cycle, NEW p \in Pair
    PROVE  \/ review'[c][p] = review[c][p]
           \/ /\ review[c][p] # Nil /\ review'[c][p] # Nil
              /\ review'[c][p].type = review[c][p].type
              /\ review[c][p].status = "SUBMITTED" => review'[c][p].status = "SUBMITTED"
              /\ UNCHANGED <<cycle, nomination>>
           \/ /\ review[c][p] = Nil /\ review'[c][p] # Nil
              /\ cycle'[c].status = "ACTIVE" /\ UNCHANGED nomination
           \/ /\ review[c][p] = Nil /\ review'[c][p] # Nil /\ review'[c][p].type = "PEER"
              /\ nomination[c][p] # Nil /\ UNCHANGED cycle
           \/ /\ review'[c][p] = Nil /\ nomination'[c][p] = Nil /\ cycle'[c].status = "DELETED"
  <1>0. /\ cycle \in [Cycle -> CycleRow]
        /\ nomination \in [Cycle -> [Pair -> NominationStatus \cup {Nil}]]
        /\ review \in [Cycle -> [Pair -> ReviewRow \cup {Nil}]]
    BY DEF TypeOK, RowsOK
  <1>01. /\ review' \in [Cycle -> [Pair -> ReviewRow \cup {Nil}]]
    BY NextType DEF TypeOK, RowsOK
  <1>02. \A type \in {"ASSIGNED", "PEER"} :
            NewReview(type) # Nil /\ NewReview(type).type = type
    BY NilAssumption DEF NewReview, ReviewRow
  <1>1. CASE UNCHANGED review
    BY <1>1
  <1>2. ASSUME NEW r \in Request, SubmitReviewCommit(r)
        PROVE  \/ review'[c][p] = review[c][p]
               \/ /\ review[c][p] # Nil /\ review'[c][p] # Nil
                  /\ review'[c][p].type = review[c][p].type
                  /\ review'[c][p].status = "SUBMITTED"
    <2> DEFINE q == request[r]
               new == [review[q.cycle][q.pair] EXCEPT !.status = "SUBMITTED", !.score = q.score]
    <2>1. q.cycle \in Cycle /\ q.pair \in Pair
      BY <1>2, RequestTypes, RequestFields DEF SubmitReviewCommit
    <2>2. review[q.cycle][q.pair] # Nil /\ review[q.cycle][q.pair] \in ReviewRow
      BY <1>0, <1>2, <2>1 DEF SubmitReviewCommit
    <2>3. new.status = "SUBMITTED" /\ new.type = review[q.cycle][q.pair].type
      BY <2>2 DEF ReviewRow
    <2>4. review' = [review EXCEPT ![q.cycle][q.pair] = new]
      BY <1>0, <1>2, <2>1 DEF SubmitReviewCommit
    <2>5. new # Nil
      <3>1. review'[q.cycle][q.pair] = new
        <4> HIDE DEF new
        <4> QED BY <1>0, <2>1, <2>4
      <3>2. new \in ReviewRow
        BY <2>1, <2>2, RequestTypes, RequestFields, <1>2 DEF ReviewRow, SubmitReviewCommit
      <3>3. QED
        BY <3>2, NilAssumption
    <2>6. QED
      <3> HIDE DEF new
      <3> QED BY <1>0, <2>1, <2>2, <2>3, <2>4, <2>5
  <1>3. ASSUME NEW r \in Request, NEW d \in Cycle, OverdueMark(r, d)
        PROVE  \/ review'[c][p] = review[c][p]
               \/ /\ review[c][p] # Nil /\ review'[c][p] # Nil
                  /\ review'[c][p].type = review[c][p].type
                  /\ review[c][p].status # "SUBMITTED"
    <2> DEFINE late(row) == [row EXCEPT !.status = "OVERDUE"]
    <2>1. \A row \in ReviewRow : late(row) \in ReviewRow /\ late(row).type = row.type
      BY DEF ReviewRow
    <2>2. \/ review'[c][p] = review[c][p]
          \/ /\ review[c][p] # Nil /\ review[c][p].status = "PENDING"
             /\ review'[c][p] = late(review[c][p])
      BY <1>0, <1>3 DEF OverdueMark
    <2>3. review[c][p] # Nil => review[c][p] \in ReviewRow
      BY <1>0
    <2>4. QED
      <3> HIDE DEF late
      <3> QED BY <2>1, <2>2, <2>3, NilAssumption
  <1>4. ASSUME NEW r \in Request, ActivateCommit(r)
        PROVE  \/ review'[c][p] = review[c][p]
               \/ /\ review[c][p] = Nil /\ review'[c][p] # Nil
                  /\ cycle'[c].status = "ACTIVE"
    <2>1. request[r].cycle \in Cycle
      BY <1>4, RequestTypes, RequestFields DEF ActivateCommit
    <2>2. cycle[request[r].cycle] \in CycleRow
      BY <1>0, <2>1
    <2>3. cycle'[request[r].cycle].status = "ACTIVE"
      BY <1>0, <1>4, <2>1, <2>2 DEF ActivateCommit, CycleRow
    <2>4. \/ review'[c][p] = review[c][p]
          \/ /\ c = request[r].cycle /\ review[c][p] = Nil /\ review'[c][p] = NewReview("ASSIGNED")
      BY <1>0, <1>4, <2>1 DEF ActivateCommit
    <2>5. QED
      BY <1>02, <2>3, <2>4
  <1>5. ASSUME NEW d \in Cycle, NEW k \in Pair, ApproveTransaction(d, k)
        PROVE  \/ review'[c][p] = review[c][p]
               \/ /\ review[c][p] = Nil /\ review'[c][p] # Nil /\ review'[c][p].type = "PEER"
                  /\ nomination[c][p] # Nil
    BY <1>0, <1>02, <1>5 DEF ApproveTransaction, NewReview
  <1>6. ASSUME NEW r \in Request, RemoveCycleCommit(r)
        PROVE  \/ review'[c][p] = review[c][p]
               \/ /\ review'[c][p] = Nil /\ nomination'[c][p] = Nil /\ cycle'[c].status = "DELETED"
    <2>1. request[r].cycle \in Cycle
      BY <1>6, RequestTypes, RequestFields DEF RemoveCycleCommit
    <2>2. cycle[request[r].cycle] \in CycleRow
      BY <1>0, <2>1
    <2>3. cycle'[request[r].cycle].status = "DELETED"
      BY <1>0, <1>6, <2>1, <2>2 DEF RemoveCycleCommit, CycleRow
    <2>4. QED
      BY <1>0, <1>6, <2>1, <2>3 DEF RemoveCycleCommit
  <1>7. ASSUME NEW r \in Request, ApproveCommit(r) \/ BulkApproveCommit(r)
        PROVE  request[r].cycle \in Cycle /\ request[r].pair \in Pair
    BY <1>7, RequestTypes, RequestFields DEF ApproveCommit, BulkApproveCommit
  <1>8. \/ UNCHANGED review
        \/ \E r \in Request :
             \/ SubmitReviewCommit(r) /\ UNCHANGED <<cycle, nomination>>
             \/ \E d \in Cycle : OverdueMark(r, d) /\ UNCHANGED <<cycle, nomination>>
             \/ ActivateCommit(r) /\ UNCHANGED nomination
             \/ /\ ApproveCommit(r) \/ BulkApproveCommit(r)
                /\ ApproveTransaction(request[r].cycle, request[r].pair) /\ UNCHANGED cycle
             \/ RemoveCycleCommit(r)
    <2>1. ASSUME NEW r \in Request,
                 \/ \E d \in Cycle : CreateCycleCommit(r, d)
                 \/ UpdateCycleCommit(r) \/ CalibrateCommit(r) \/ CompleteCommit(r)
                 \/ ActivateNotify(r) \/ NominateCommit(r) \/ RejectCommit(r)
                 \/ \E s \in Session : CreateSessionCommit(r, s)
                 \/ AdjustCommit(r) \/ FinalizeCommit(r)
          PROVE  UNCHANGED review
      BY <2>1 DEF CreateCycleCommit, UpdateCycleCommit, CalibrateCommit, CompleteCommit,
         ActivateNotify, NominateCommit, RejectCommit, CreateSessionCommit, AdjustCommit,
         FinalizeCommit
    <2>2. ASSUME NEW r \in Request
          PROVE  /\ SubmitReviewCommit(r) => UNCHANGED <<cycle, nomination>>
                 /\ \A d \in Cycle : OverdueMark(r, d) => UNCHANGED <<cycle, nomination>>
                 /\ ActivateCommit(r) => UNCHANGED nomination
                 /\ ApproveCommit(r) \/ BulkApproveCommit(r) =>
                        /\ ApproveTransaction(request[r].cycle, request[r].pair)
                        /\ UNCHANGED cycle
      BY DEF SubmitReviewCommit, OverdueMark, ActivateCommit, ApproveCommit, BulkApproveCommit
    <2>3. QED
      BY <2>1, <2>2, StepKinds
  <1>9. QED
    BY <1>1, <1>2, <1>3, <1>4, <1>5, <1>6, <1>7, <1>8

\* A nomination is filed by a counted request, approved together with its PEER
\* review, rejected, or deleted together with its cycle.
LEMMA NominationStep ==
    ASSUME TypeOK, [Next]_vars, NEW c \in Cycle, NEW p \in Pair
    PROVE  \/ nomination'[c][p] = nomination[c][p]
           \/ /\ nomination'[c][p] = "PENDING" /\ UNCHANGED <<cycle, review>>
              /\ \E r \in Request : request[r].op = "nominateCounted" /\ request[r].cycle = c
           \/ /\ nomination'[c][p] = "APPROVED" /\ nomination[c][p] # Nil
              /\ review'[c][p] # Nil /\ review'[c][p].type = "PEER" /\ UNCHANGED cycle
           \/ /\ nomination'[c][p] = "REJECTED" /\ nomination[c][p] # Nil
              /\ UNCHANGED <<cycle, review>>
           \/ /\ nomination'[c][p] = Nil /\ review'[c][p] = Nil /\ cycle'[c].status = "DELETED"
  <1>0. /\ cycle \in [Cycle -> CycleRow]
        /\ nomination \in [Cycle -> [Pair -> NominationStatus \cup {Nil}]]
        /\ review \in [Cycle -> [Pair -> ReviewRow \cup {Nil}]]
    BY DEF TypeOK, RowsOK
  <1>1. CASE UNCHANGED nomination
    BY <1>1
  <1>2. ASSUME NEW r \in Request, NominateCommit(r)
        PROVE  \/ nomination'[c][p] = nomination[c][p]
               \/ /\ nomination'[c][p] = "PENDING"
                  /\ request[r].op = "nominateCounted" /\ request[r].cycle = c
    BY <1>0, <1>2 DEF NominateCommit
  <1>3. ASSUME NEW d \in Cycle, NEW k \in Pair, ApproveTransaction(d, k)
        PROVE  \/ nomination'[c][p] = nomination[c][p]
               \/ /\ nomination'[c][p] = "APPROVED" /\ nomination[c][p] # Nil
                  /\ review'[c][p] # Nil /\ review'[c][p].type = "PEER"
    <2>1. [type |-> "PEER", status |-> "PENDING", score |-> Nil] # Nil
      BY NilAssumption DEF ReviewRow
    <2>2. QED
      BY <1>0, <1>3, <2>1 DEF ApproveTransaction
  <1>4. ASSUME NEW r \in Request, RejectCommit(r)
        PROVE  \/ nomination'[c][p] = nomination[c][p]
               \/ nomination'[c][p] = "REJECTED" /\ nomination[c][p] # Nil
    BY <1>0, <1>4 DEF RejectCommit
  <1>5. ASSUME NEW r \in Request, RemoveCycleCommit(r)
        PROVE  \/ nomination'[c][p] = nomination[c][p]
               \/ /\ nomination'[c][p] = Nil /\ review'[c][p] = Nil /\ cycle'[c].status = "DELETED"
    <2>1. request[r].cycle \in Cycle
      BY <1>5, RequestTypes, RequestFields DEF RemoveCycleCommit
    <2>2. cycle[request[r].cycle] \in CycleRow
      BY <1>0, <2>1
    <2>3. cycle'[request[r].cycle].status = "DELETED"
      BY <1>0, <1>5, <2>1, <2>2 DEF RemoveCycleCommit, CycleRow
    <2>4. QED
      BY <1>0, <1>5, <2>1, <2>3 DEF RemoveCycleCommit
  <1>6. ASSUME NEW r \in Request, ApproveCommit(r) \/ BulkApproveCommit(r)
        PROVE  request[r].cycle \in Cycle /\ request[r].pair \in Pair
    BY <1>6, RequestTypes, RequestFields DEF ApproveCommit, BulkApproveCommit
  <1>7. \/ UNCHANGED nomination
        \/ \E r \in Request :
             \/ NominateCommit(r) /\ UNCHANGED <<cycle, review>>
             \/ /\ ApproveCommit(r) \/ BulkApproveCommit(r)
                /\ ApproveTransaction(request[r].cycle, request[r].pair) /\ UNCHANGED cycle
             \/ RejectCommit(r) /\ UNCHANGED <<cycle, review>>
             \/ RemoveCycleCommit(r)
    BY ZenonT(40), StepKinds DEF CreateCycleCommit, UpdateCycleCommit, CalibrateCommit, CompleteCommit,
       ActivateNotify, ActivateCommit, SubmitReviewCommit, OverdueMark, CreateSessionCommit,
       AdjustCommit, FinalizeCommit, NominateCommit, ApproveCommit, BulkApproveCommit, RejectCommit
  <1>8. QED
    BY <1>1, <1>2, <1>3, <1>4, <1>5, <1>6, <1>7

\* A session that exists was there before, in a cycle not deleted by this step,
\* or is opened by a request that loaded its members.
LEMMA SessionStep ==
    ASSUME TypeOK, [Next]_vars, NEW s \in Session, SessionExists(s)'
    PROVE  \/ /\ SessionExists(s) /\ session'[s].cycle = session[s].cycle
              /\ \A r \in Request : RemoveCycleCommit(r) => request[r].cycle # session[s].cycle
           \/ /\ CycleExists(session'[s].cycle) /\ UNCHANGED cycle
              /\ \E r \in Request : /\ request[r].op = "createSessionLoaded"
                                    /\ request[r].cycle = session'[s].cycle
  <1>0. session \in [Session -> SessionRow]
    BY DEF TypeOK, RowsOK
  <1>01. session[s] = [status |-> session[s].status, cycle |-> session[s].cycle,
                       scores |-> session[s].scores]
    BY <1>0 DEF SessionRow
  <1>1. ASSUME NEW r \in Request, RemoveCycleCommit(r)
        PROVE  /\ SessionExists(s) /\ session'[s].cycle = session[s].cycle
               /\ request[r].cycle # session[s].cycle
    BY <1>0, <1>01, <1>1 DEF RemoveCycleCommit, SessionExists
  <1>2. ASSUME NEW r \in Request, NEW k \in Session, CreateSessionCommit(r, k)
        PROVE  \/ session'[s] = session[s]
               \/ /\ CycleExists(session'[s].cycle) /\ UNCHANGED cycle
                  /\ request[r].op = "createSessionLoaded" /\ request[r].cycle = session'[s].cycle
    BY <1>0, <1>2 DEF CreateSessionCommit
  <1>3. ASSUME NEW r \in Request, AdjustCommit(r) \/ FinalizeCommit(r)
        PROVE  SessionExists(s) /\ session'[s].cycle = session[s].cycle
    BY <1>0, <1>01, <1>3 DEF AdjustCommit, FinalizeCommit, SessionExists
  <1>4. CASE \E r \in Request : RemoveCycleCommit(r)
    <2>1. ASSUME NEW r \in Request, NEW x \in Request, RemoveCycleCommit(r), RemoveCycleCommit(x)
          PROVE  request[x].cycle # session[s].cycle
      BY <1>1, <2>1
    <2>2. QED
      BY <1>1, <1>4, <2>1
  <1>5. \/ UNCHANGED session
        \/ \E r \in Request : \/ RemoveCycleCommit(r) \/ AdjustCommit(r) \/ FinalizeCommit(r)
                              \/ \E k \in Session : CreateSessionCommit(r, k)
    <2>1. ASSUME NEW r \in Request,
                 \/ \E d \in Cycle : CreateCycleCommit(r, d) \/ OverdueMark(r, d)
                 \/ UpdateCycleCommit(r) \/ ActivateCommit(r) \/ ActivateNotify(r)
                 \/ CalibrateCommit(r) \/ CompleteCommit(r) \/ SubmitReviewCommit(r)
                 \/ NominateCommit(r) \/ ApproveCommit(r) \/ BulkApproveCommit(r) \/ RejectCommit(r)
          PROVE  UNCHANGED session
      BY <2>1 DEF CreateCycleCommit, OverdueMark, UpdateCycleCommit, ActivateCommit,
         ActivateNotify, CalibrateCommit, CompleteCommit, SubmitReviewCommit, NominateCommit,
         ApproveCommit, BulkApproveCommit, RejectCommit
    <2>2. QED
      BY <2>1, StepKinds
  <1>6. CASE \A r \in Request : ~RemoveCycleCommit(r)
    <2>1. session' = session => SessionExists(s) /\ session'[s].cycle = session[s].cycle
      BY DEF SessionExists
    <2>2. session'[s] = session[s] => SessionExists(s) /\ session'[s].cycle = session[s].cycle
      BY DEF SessionExists
    <2>3. QED
      BY <1>2, <1>3, <1>5, <1>6, <2>1, <2>2
  <1>7. QED
    BY <1>4, <1>6

\* Notices are added by the last step of an activation only.
LEMMA NoticeStep ==
    ASSUME TypeOK, [Next]_vars, NEW c \in Cycle
    PROVE  \/ notice'[c] = notice[c]
           \/ \E r \in Request :
                /\ request[r].op = "activated" /\ request[r].cycle = c
                /\ notice'[c] = notice[c] \cup request[r].eligible
                /\ UNCHANGED <<cycle, review>>
  <1>0. notice \in [Cycle -> SUBSET User]
    BY DEF TypeOK, RowsOK
  <1>1. UNCHANGED notice \/ \E r \in Request : ActivateNotify(r)
    BY ZenonT(40), StepKinds DEF CreateCycleCommit, OverdueMark, UpdateCycleCommit, RemoveCycleCommit,
       ActivateCommit, CalibrateCommit, CompleteCommit, SubmitReviewCommit, NominateCommit,
       ApproveCommit, BulkApproveCommit, RejectCommit, CreateSessionCommit, AdjustCommit,
       FinalizeCommit
  <1>2. ASSUME NEW r \in Request, ActivateNotify(r)
        PROVE  \/ notice'[c] = notice[c]
               \/ /\ request[r].op = "activated" /\ request[r].cycle = c
                  /\ notice'[c] = notice[c] \cup request[r].eligible
                  /\ UNCHANGED <<cycle, review>>
    BY <1>0, <1>2 DEF ActivateNotify
  <1>3. QED
    BY <1>1, <1>2

\* The cycle a performance record names stays, or is cleared with that cycle, or
\* is the cycle of an existing session or of a completion.
LEMMA PerformanceStep ==
    ASSUME TypeOK, [Next]_vars, NEW u \in User
    PROVE  LET last == performance'[u].lastReviewCycle IN
           \/ last = Nil
           \/ /\ last = performance[u].lastReviewCycle
              /\ \A r \in Request : RemoveCycleCommit(r) => request[r].cycle # last
           \/ /\ UNCHANGED cycle
              /\ \E s \in Session : SessionExists(s) /\ last = session[s].cycle
           \/ last \in Cycle /\ cycle'[last].status = "COMPLETED"
  <1> DEFINE last == performance'[u].lastReviewCycle
  <1>0. performance \in [User -> PerformanceRow] /\ cycle \in [Cycle -> CycleRow]
    BY DEF TypeOK, RowsOK
  <1>01. performance[u] = [reviewScore |-> performance[u].reviewScore,
                           lastReviewCycle |-> performance[u].lastReviewCycle]
    BY <1>0 DEF PerformanceRow
  <1>1. ASSUME NEW r \in Request, RemoveCycleCommit(r)
        PROVE  \/ last = Nil
               \/ last = performance[u].lastReviewCycle /\ request[r].cycle # last
    BY <1>0, <1>01, <1>1 DEF RemoveCycleCommit
  <1>2. ASSUME NEW r \in Request, FinalizeCommit(r)
        PROVE  \/ last = performance[u].lastReviewCycle
               \/ /\ UNCHANGED cycle
                  /\ \E s \in Session : SessionExists(s) /\ last = session[s].cycle
    <2>1. request[r].session \in Session
      BY <1>2, RequestTypes, RequestFields DEF FinalizeCommit
    <2>2. QED
      BY <1>0, <1>2, <2>1 DEF FinalizeCommit
  <1>3. ASSUME NEW r \in Request, CompleteCommit(r)
        PROVE  \/ last = performance[u].lastReviewCycle
               \/ last \in Cycle /\ cycle'[last].status = "COMPLETED"
    <2>1. request[r].cycle \in Cycle
      BY <1>3, RequestTypes, RequestFields DEF CompleteCommit
    <2>2. cycle[request[r].cycle] \in CycleRow
      BY <1>0, <2>1
    <2>3. cycle'[request[r].cycle].status = "COMPLETED"
      BY <1>0, <1>3, <2>1, <2>2 DEF CompleteCommit, CycleRow
    <2>4. last = performance[u].lastReviewCycle \/ last = request[r].cycle
      BY <1>0, <1>3 DEF CompleteCommit
    <2>5. QED
      BY <2>1, <2>3, <2>4
  <1>4. \/ UNCHANGED performance
        \/ \E r \in Request : RemoveCycleCommit(r) \/ FinalizeCommit(r) \/ CompleteCommit(r)
    BY ZenonT(40), StepKinds DEF CreateCycleCommit, OverdueMark, UpdateCycleCommit, ActivateCommit,
       ActivateNotify, CalibrateCommit, SubmitReviewCommit, NominateCommit, ApproveCommit,
       BulkApproveCommit, RejectCommit, CreateSessionCommit, AdjustCommit
  <1>5. CASE \E r \in Request : RemoveCycleCommit(r)
    BY <1>1, <1>5
  <1>6. CASE \A r \in Request : ~RemoveCycleCommit(r)
    BY <1>2, <1>3, <1>4, <1>6
  <1>7. QED
    BY <1>5, <1>6

----------------------------------------------------------------------------
(* The launch invariant.                                                   *)

\* A cycle that was activated once stays so, and a deleted one stays deleted.
LEMMA StartedStays ==
    ASSUME TypeOK, [Next]_vars, NEW c \in Cycle, Started(c)
    PROVE  Started(c)' /\ (CycleExists(c)' => CycleExists(c))
  BY StatusStep DEF Started, Launched, CycleExists

\* A review stays while its cycle exists.
LEMMA ReviewStays ==
    ASSUME TypeOK, [Next]_vars, NEW c \in Cycle, NEW p \in Pair, CycleExists(c)', review[c][p] # Nil
    PROVE  review'[c][p] # Nil
  BY ReviewStep DEF CycleExists

LEMMA OwnsStep ==
    ASSUME LaunchInv, [Next]_vars
    PROVE  UnlaunchedOwnsNothing'
  <1> SUFFICES ASSUME NEW c \in Cycle, ~Started(c)'
               PROVE  /\ cycle'[c].snapshot = Nil /\ notice'[c] = {}
                      /\ \A p \in Pair : review'[c][p] = Nil /\ nomination'[c][p] = Nil
    BY DEF UnlaunchedOwnsNothing
  <1>1. TypeOK /\ ~Started(c)
    BY StartedStays DEF LaunchInv
  <1>2. /\ cycle[c].snapshot = Nil /\ notice[c] = {}
        /\ \A p \in Pair : review[c][p] = Nil /\ nomination[c][p] = Nil
    BY <1>1 DEF LaunchInv, UnlaunchedOwnsNothing
  <1>3. cycle'[c].snapshot = Nil
    BY <1>1, <1>2, StatusStep DEF Started, Launched
  <1>4. ~ \E r \in Request : /\ request[r].op \in {"nominateCounted", "activated"}
                             /\ request[r].cycle = c
    BY <1>1 DEF LaunchInv, RemembersLaunch
  <1>5. notice'[c] = {}
    BY <1>1, <1>2, <1>4, NoticeStep
  <1>6. ASSUME NEW p \in Pair PROVE review'[c][p] = Nil /\ nomination'[c][p] = Nil
    <2>1. cycle'[c].status # "ACTIVE"
      BY DEF Started, Launched
    <2>2. review'[c][p] = Nil
      BY <1>1, <1>2, <2>1, ReviewStep
    <2>3. nomination'[c][p] = Nil
      BY <1>1, <1>2, <1>4, NominationStep
    <2>4. QED
      BY <2>2, <2>3
  <1>7. QED
    BY <1>3, <1>5, <1>6

LEMMA SessionsStartedStep ==
    ASSUME LaunchInv, [Next]_vars
    PROVE  SessionsStarted'
  <1> DEFINE After(c) == c \in Cycle /\ cycle'[c].status \in Launched \cup {"DELETED"}
  <1> SUFFICES ASSUME NEW s \in Session, SessionExists(s)'
               PROVE  After(session'[s].cycle)
    BY DEF SessionsStarted, Started
  <1>0. TypeOK
    BY DEF LaunchInv
  <1>1. CASE SessionExists(s) /\ session'[s].cycle = session[s].cycle
    <2>1. session[s].cycle \in Cycle /\ Started(session[s].cycle)
      BY <1>1 DEF LaunchInv, SessionsStarted
    <2>2. QED
      BY <1>0, <1>1, <2>1, StartedStays DEF Started
  <1>2. ASSUME UNCHANGED cycle, NEW r \in Request, request[r].op = "createSessionLoaded",
               request[r].cycle = session'[s].cycle
        PROVE  After(session'[s].cycle)
    <2>1. request[r].cycle \in Cycle
      BY <1>0, <1>2, RequestTypes, RequestFields
    <2>2. Started(request[r].cycle)
      BY <1>2 DEF LaunchInv, RemembersLaunch
    <2>3. QED
      BY <1>2, <2>1, <2>2 DEF Started
  <1>3. QED
    BY <1>0, <1>1, <1>2, SessionStep

LEMMA ApprovedStep ==
    ASSUME LaunchInv, [Next]_vars
    PROVE  ApprovedHasReview'
  <1> SUFFICES ASSUME NEW c \in Cycle, NEW p \in Pair, nomination'[c][p] = "APPROVED"
               PROVE  review'[c][p] # Nil /\ review'[c][p].type = "PEER"
    BY DEF ApprovedHasReview
  <1>0. TypeOK /\ "APPROVED" # Nil
    BY NilAssumption DEF LaunchInv, NominationStatus
  <1>1. CASE nomination'[c][p] = nomination[c][p]
    <2>1. review[c][p] # Nil /\ review[c][p].type = "PEER"
      BY <1>1 DEF LaunchInv, ApprovedHasReview
    <2>2. QED
      BY <1>0, <2>1, ReviewStep
  <1>2. QED
    BY <1>0, <1>1, NominationStep

LEMMA NoticeMeansAssignedStep ==
    ASSUME LaunchInv, [Next]_vars
    PROVE  NoticeMeansAssigned'
  <1> SUFFICES ASSUME NEW c \in Cycle, CycleExists(c)', NEW u \in notice'[c]
               PROVE  review'[c][<<u, u>>] # Nil
    BY DEF NoticeMeansAssigned, CycleExists
  <1>0. TypeOK /\ TypeOK' /\ <<u, u>> \in Pair
    BY NextType DEF LaunchInv, TypeOK, RowsOK, Pair
  <1>1. CASE u \in notice[c]
    <2>1. Started(c)
      BY <1>1 DEF LaunchInv, UnlaunchedOwnsNothing
    <2>2. review[c][<<u, u>>] # Nil
      BY <1>0, <1>1, <2>1, StartedStays DEF LaunchInv, NoticeMeansAssigned
    <2>3. QED
      BY <1>0, <2>2, ReviewStays
  <1>2. ASSUME NEW r \in Request, request[r].op = "activated", request[r].cycle = c,
               u \in request[r].eligible, UNCHANGED <<cycle, review>>
        PROVE  review'[c][<<u, u>>] # Nil
    <2>1. CycleExists(c)
      BY <1>2 DEF CycleExists
    <2>2. QED
      BY <1>2, <2>1 DEF LaunchInv, RemembersLaunch
  <1>3. QED
    BY <1>0, <1>1, <1>2, NoticeStep

LEMMA RemembersLaunchStep ==
    ASSUME LaunchInv, [Next]_vars, NEW x \in Request
    PROVE  RemembersLaunch(request[x])'
  <1> DEFINE q == request'[x]
  <1>0. TypeOK /\ TypeOK' /\ request \in [Request -> InFlight] /\ cycle \in [Cycle -> CycleRow]
    BY NextType DEF LaunchInv, TypeOK, RowsOK
  <1>1. CASE q = request[x]
    <2>1. RemembersLaunch(request[x])
      BY DEF LaunchInv
    <2>2. ASSUME q.op \in {"nominate", "nominateCounted", "activated", "createSession",
                           "createSessionLoaded"}
          PROVE  /\ q.cycle \in Cycle /\ Started(q.cycle)
                 /\ cycle'[q.cycle].status \in Launched \cup {"DELETED"}
      <3>1. q.cycle \in Cycle
        BY <1>0, <1>1, <2>2, RequestTypes, RequestFields
      <3>2. Started(q.cycle)
        BY <1>1, <2>1, <2>2 DEF RemembersLaunch
      <3>3. QED
        BY <1>0, <3>1, <3>2, StartedStays DEF Started
    <2>3. ASSUME q.op = "activated", cycle'[q.cycle].status \notin {"UNBORN", "DELETED"},
                 NEW u \in q.eligible
          PROVE  review'[q.cycle][<<u, u>>] # Nil
      <3>1. q.eligible \in SUBSET User
        BY <1>0, <1>1, <2>3, RequestTypes, RequestFields
      <3>2. CycleExists(q.cycle)
        BY <1>0, <2>2, <2>3, StartedStays DEF CycleExists
      <3>3. review[q.cycle][<<u, u>>] # Nil
        BY <1>1, <2>1, <2>3, <3>2 DEF RemembersLaunch
      <3>4. QED
        BY <1>0, <2>2, <2>3, <3>1, <3>3, ReviewStays DEF Pair, CycleExists
    <2>4. QED
      BY <2>2, <2>3 DEF RemembersLaunch, Started, CycleExists
  <1>2. CASE \E c \in Cycle, u \in User, S \in SUBSET User : NominateRead(x, c, u, S)
    BY <1>0, <1>2 DEF NominateRead, Begin, rows, RemembersLaunch, Started, Launched
  <1>3. CASE \E c \in Cycle, scope \in SUBSET User : CreateSessionRead(x, c, scope)
    BY <1>0, <1>3 DEF CreateSessionRead, Begin, rows, RemembersLaunch, Started, Launched
  <1>4. CASE NominateCount(x) \/ CreateSessionLoad(x)
    <2>1. Started(request[x].cycle)
      BY <1>4 DEF LaunchInv, RemembersLaunch, NominateCount, CreateSessionLoad
    <2>2. q.cycle = request[x].cycle /\ q.op # "activated" /\ cycle' = cycle
      BY <1>0, <1>4 DEF NominateCount, CreateSessionLoad, Await, rows
    <2>3. QED
      BY <2>1, <2>2 DEF RemembersLaunch, Started
  <1>5. CASE ActivateCommit(x)
    <2>1. request[x].cycle \in Cycle /\ request[x].eligible \in SUBSET User
      BY <1>0, <1>5, RequestTypes, RequestFields DEF ActivateCommit
    <2>2. q = [op |-> "activated", cycle |-> request[x].cycle, eligible |-> request[x].eligible]
      BY <1>0, <1>5 DEF ActivateCommit, Await
    <2>3. cycle[request[x].cycle] \in CycleRow
      BY <1>0, <2>1
    <2>4. cycle'[request[x].cycle].status = "ACTIVE"
      BY <1>0, <1>5, <2>1, <2>3 DEF ActivateCommit, CycleRow
    <2>5. \A u \in request[x].eligible : review'[request[x].cycle][<<u, u>>] = NewReview("ASSIGNED")
      BY <1>0, <1>5, <2>1 DEF ActivateCommit, AssignedPairs, Pair, TypeOK, RowsOK
    <2>6. NewReview("ASSIGNED") # Nil
      BY NilAssumption DEF NewReview, ReviewRow
    <2>7. QED
      BY <2>2, <2>4, <2>5, <2>6 DEF RemembersLaunch, Started, Launched
  <1>6. CASE \/ q.op \in {"idle", "updateTemplate", "removeTemplate", "removeCycle", "submit",
                 "approve", "reject", "bulk", "bulkApprove", "overdue", "adjust", "finalize"}
             \/ \E t \in Template, ex \in ExclusionLists : CreateCycleRead(x, t, ex)
             \/ \E c \in Cycle, t \in Template \cup {Nil}, ex \in ExclusionLists \cup {Nil} :
                   UpdateCycleRead(x, c, t, ex)
             \/ \E c \in Cycle : ActivateRead(x, c) \/ CalibrateRead(x, c) \/ CompleteRead(x, c)
             \/ ActivateLoad(x) \/ CompleteCheck(x)
    <2>1. q.op \notin {"nominate", "nominateCounted", "activated", "createSession",
                       "createSessionLoaded"}
      BY <1>0, <1>6 DEF CreateCycleRead, UpdateCycleRead, ActivateRead, CalibrateRead,
         CompleteRead, ActivateLoad, CompleteCheck, Begin, Await
    <2>2. QED
      BY <2>1 DEF RemembersLaunch
  <1>7. QED
    BY <1>0, <1>1, <1>2, <1>3, <1>4, <1>5, <1>6, RequestStep

LEMMA LaunchInvInit == Init => LaunchInv
  <1> SUFFICES ASSUME Init PROVE LaunchInv
    OBVIOUS
  <1>1. TypeOK
    BY InitType
  <1>2. \A c \in Cycle : ~Started(c)
    BY DEF Init, StoreInit, Started, Launched
  <1>3. QED
    BY <1>1, <1>2, NilAssumption DEF Init, StoreInit, LaunchInv, UnlaunchedOwnsNothing,
       SessionsStarted, SessionExists, ApprovedHasReview, NoticeMeansAssigned, RemembersLaunch,
       Idle, NominationStatus

LEMMA LaunchStep ==
    ASSUME LaunchInv, [Next]_vars
    PROVE  LaunchInv'
  <1>1. TypeOK'
    BY NextType DEF LaunchInv
  <1>2. QED
    BY <1>1, OwnsStep, SessionsStartedStep, ApprovedStep, NoticeMeansAssignedStep,
       RemembersLaunchStep DEF LaunchInv

\* LaunchInv is inductive.
THEOREM LaunchInvariant == Spec => []LaunchInv
  <1>1. LaunchInv /\ [Next]_vars => LaunchInv'
    BY LaunchStep
  <1>2. QED
    BY LaunchInvInit, <1>1, PTL DEF Spec

\* A draft owns no rows: no handler re-reads the cycle when it adds a review, a
\* nomination or a session, yet none of them can add one to a draft.
THEOREM DraftsOwnNothing == Spec => []DraftOwnsNothing
  <1>1. LaunchInv => DraftOwnsNothing
    BY DEF LaunchInv, DraftOwnsNothing, UnlaunchedOwnsNothing, SessionsStarted, SessionExists,
           Started, Launched, SessionsOf
  <1>2. QED
    BY LaunchInvariant, <1>1, PTL

\* An approved nomination has its PEER review.
THEOREM ApprovedNominationsHaveReviews == Spec => []ApprovedHasReview
  <1>1. LaunchInv => ApprovedHasReview
    BY DEF LaunchInv
  <1>2. QED
    BY LaunchInvariant, <1>1, PTL

\* Whoever was told of an assignment has the SELF review while the cycle exists.
THEOREM NoticesMeanAssignments == Spec => []NoticeMeansAssigned
  <1>1. LaunchInv => NoticeMeansAssigned
    BY DEF LaunchInv
  <1>2. QED
    BY LaunchInvariant, <1>1, PTL

\* A submitted review stays submitted until its cycle is deleted, cron included.
THEOREM SubmittedReviewsStay == Spec => SubmittedStaysSubmitted
  <1> DEFINE Stays(c, p) ==
          review[c][p] # Nil /\ review[c][p].status = "SUBMITTED" =>
             \/ review'[c][p] # Nil /\ review'[c][p].status = "SUBMITTED"
             \/ cycle'[c].status = "DELETED"
  <1>1. ASSUME TypeOK, [Next]_vars, NEW c \in Cycle, NEW p \in Pair PROVE Stays(c, p)
    BY <1>1, ReviewStep
  <1>2. TypeOK /\ [Next]_vars => [\A c \in Cycle, p \in Pair : Stays(c, p)]_vars
    BY <1>1
  <1>3. QED
    BY TypeCorrect, <1>2, PTL DEF Spec, SubmittedStaysSubmitted

----------------------------------------------------------------------------
(* The stage invariant, for a user a whom no exclusion list names.         *)

\* The exclusion list of a cycle is kept, or written by a create or an update.
LEMMA ExcludedStep ==
    ASSUME TypeOK, [Next]_vars, NEW c \in Cycle
    PROVE  \/ cycle'[c].excluded = cycle[c].excluded
           \/ \E r \in Request : /\ request[r].op \in {"createCycle", "updateCycle"}
                                 /\ request[r].op = "updateCycle" => request[r].excluded # Nil
                                 /\ cycle'[c].excluded = request[r].excluded
  <1>0. cycle \in [Cycle -> CycleRow]
    BY DEF TypeOK, RowsOK
  <1>01. cycle[c] = [status |-> cycle[c].status, template |-> cycle[c].template,
                     excluded |-> cycle[c].excluded, snapshot |-> cycle[c].snapshot]
    BY <1>0 DEF CycleRow
  <1>1. ASSUME NEW r \in Request, NEW d \in Cycle, CreateCycleCommit(r, d)
        PROVE  \/ cycle'[c] = cycle[c]
               \/ request[r].op = "createCycle" /\ cycle'[c].excluded = request[r].excluded
    BY <1>0, <1>1 DEF CreateCycleCommit
  <1>2. ASSUME NEW r \in Request, UpdateCycleCommit(r)
        PROVE  \/ cycle'[c].excluded = cycle[c].excluded
               \/ /\ request[r].op = "updateCycle" /\ request[r].excluded # Nil
                  /\ cycle'[c].excluded = request[r].excluded
    BY <1>0, <1>01, <1>2 DEF UpdateCycleCommit
  <1>3. ASSUME NEW r \in Request,
               \/ RemoveCycleCommit(r) \/ ActivateCommit(r) \/ CalibrateCommit(r) \/ CompleteCommit(r)
        PROVE  cycle'[c].excluded = cycle[c].excluded
    <2>1. CASE RemoveCycleCommit(r)
      BY <1>0, <1>01, <2>1 DEF RemoveCycleCommit
    <2>2. CASE ActivateCommit(r)
      BY <1>0, <1>01, <2>2 DEF ActivateCommit
    <2>3. CASE CalibrateCommit(r)
      BY <1>0, <1>01, <2>3 DEF CalibrateCommit
    <2>4. CASE CompleteCommit(r)
      BY <1>0, <1>01, <2>4 DEF CompleteCommit
    <2>5. QED BY <1>3, <2>1, <2>2, <2>3, <2>4
  <1>4. \/ UNCHANGED cycle
        \/ \E r \in Request :
             \/ \E d \in Cycle : CreateCycleCommit(r, d)
             \/ UpdateCycleCommit(r) \/ RemoveCycleCommit(r)
             \/ ActivateCommit(r) \/ CalibrateCommit(r) \/ CompleteCommit(r)
    BY StepKinds DEF ActivateNotify, SubmitReviewCommit, NominateCommit, ApproveCommit,
       BulkApproveCommit, RejectCommit, OverdueMark, CreateSessionCommit, AdjustCommit,
       FinalizeCommit
  <1>5. QED
    BY <1>1, <1>2, <1>3, <1>4

\* The SELF review of a lets an activation through on a draft only, and is created by it.
LEMMA ActivatesDrafts ==
    ASSUME NEW a, AlwaysEligible(a), TypeOK, StageInv(a), NEW r \in Request, ActivateCommit(r)
    PROVE  /\ request[r].cycle \in Cycle /\ cycle[request[r].cycle].status = "DRAFT"
           /\ review'[request[r].cycle][<<a, a>>] # Nil
  <1> DEFINE q == request[r]
  <1>1. q.op = "activateLoaded" /\ q.cycle \in Cycle
    BY RequestTypes, RequestFields DEF ActivateCommit
  <1>2. a \in q.eligible /\ <<a, a>> \in Pair
    BY <1>1 DEF StageInv, RemembersStage, AlwaysEligible, Pair
  <1>3. <<a, a>> \in AssignedPairs(q.eligible)
    BY <1>2 DEF AssignedPairs
  <1>4. review[q.cycle][<<a, a>>] = Nil
    BY <1>3 DEF ActivateCommit
  <1>5. cycle[q.cycle].status \notin Launched
    BY <1>1, <1>4 DEF StageInv
  <1>6. cycle[q.cycle].status \in CycleStatus
    BY <1>1 DEF TypeOK, RowsOK, CycleRow
  <1>7. cycle[q.cycle].status = "DRAFT"
    BY <1>5, <1>6 DEF ActivateCommit, CycleExists, CycleStatus
  <1>8. review'[q.cycle][<<a, a>>] = NewReview("ASSIGNED")
    BY <1>1, <1>2, <1>3 DEF ActivateCommit, TypeOK, RowsOK
  <1>9. NewReview("ASSIGNED") # Nil
    BY NilAssumption DEF NewReview, ReviewRow
  <1>10. QED
    BY <1>1, <1>7, <1>8, <1>9

\* A cycle that reached calibration stays there until it is removed.
LEMMA CalibratedStays ==
    ASSUME NEW a, AlwaysEligible(a), TypeOK, StageInv(a), [Next]_vars, NEW c \in Cycle
    PROVE  /\ Calibrated(c) => cycle'[c].status \in {"CALIBRATING", "COMPLETED", "DELETED"}
           /\ cycle[c].status \in {"CALIBRATING", "COMPLETED"} =>
                 \/ cycle'[c].status \in {"CALIBRATING", "COMPLETED"}
                 \/ \E r \in Request : RemoveCycleCommit(r) /\ request[r].cycle = c
  BY StatusStep, ActivatesDrafts DEF Calibrated

LEMMA NotExcludedStep ==
    ASSUME NEW a, AlwaysEligible(a), TypeOK, StageInv(a), [Next]_vars, NEW c \in Cycle
    PROVE  a \notin cycle'[c].excluded
  <1>1. a \notin cycle[c].excluded
    BY DEF StageInv
  <1>2. ASSUME NEW r \in Request, request[r].op \in {"createCycle", "updateCycle"},
               request[r].op = "updateCycle" => request[r].excluded # Nil
        PROVE  a \notin request[r].excluded
    BY <1>2 DEF StageInv, RemembersStage
  <1>3. QED
    BY <1>1, <1>2, ExcludedStep

LEMMA SelfReviewStep ==
    ASSUME NEW a, AlwaysEligible(a), TypeOK, StageInv(a), [Next]_vars, NEW c \in Cycle,
           cycle'[c].status \in Launched
    PROVE  review'[c][<<a, a>>] # Nil
  <1>0. CycleExists(c)' /\ <<a, a>> \in Pair
    BY DEF CycleExists, Launched, AlwaysEligible, Pair
  <1>1. ASSUME cycle[c].status \in Launched PROVE review'[c][<<a, a>>] # Nil
    BY <1>0, <1>1, ReviewStays DEF StageInv
  <1>2. ASSUME NEW r \in Request, ActivateCommit(r), request[r].cycle = c
        PROVE  review'[c][<<a, a>>] # Nil
    BY <1>2, ActivatesDrafts
  <1>3. ASSUME NEW r \in Request, CalibrateCommit(r) \/ CompleteCommit(r), request[r].cycle = c
        PROVE  cycle[c].status \in Launched
    <2>1. CycleExists(c) /\ request[r].op \in {"calibrate", "completeChecked"}
      BY <1>3 DEF CalibrateCommit, CompleteCommit
    <2>2. Started(c) \/ Calibrated(c)
      BY <1>3, <2>1 DEF StageInv, RemembersStage
    <2>3. QED
      BY <2>1, <2>2 DEF CycleExists, Started, Calibrated, Launched
  <1>4. QED
    BY <1>1, <1>2, <1>3, StatusStep DEF Launched

LEMMA ScoresStep ==
    ASSUME NEW a, AlwaysEligible(a), LaunchInv, StageInv(a), [Next]_vars
    PROVE  ScoresComeFromCalibration'
  <1> DEFINE Reached(c) == cycle'[c].status \in {"CALIBRATING", "COMPLETED"}
  <1>0. TypeOK /\ TypeOK' /\ SessionsStarted /\ ScoresComeFromCalibration
    BY NextType DEF LaunchInv, StageInv
  <1>1. ASSUME NEW s \in Session, SessionExists(s)'
        PROVE  Reached(session'[s].cycle)
    <2>1. CASE /\ SessionExists(s) /\ session'[s].cycle = session[s].cycle
               /\ \A r \in Request : RemoveCycleCommit(r) => request[r].cycle # session[s].cycle
      <3>1. /\ session[s].cycle \in Cycle
            /\ cycle[session[s].cycle].status \in {"CALIBRATING", "COMPLETED"}
        BY <1>0, <2>1 DEF SessionsStarted, ScoresComeFromCalibration
      <3>2. QED
        BY <1>0, <2>1, <3>1, CalibratedStays
    <2>2. ASSUME CycleExists(session'[s].cycle), UNCHANGED cycle, NEW r \in Request,
                 request[r].op = "createSessionLoaded", request[r].cycle = session'[s].cycle
          PROVE  Reached(session'[s].cycle)
      <3>1. Calibrated(request[r].cycle)
        BY <2>2 DEF StageInv, RemembersStage
      <3>2. QED
        BY <2>2, <3>1 DEF Calibrated, CycleExists
    <2>3. QED
      BY <1>0, <1>1, <2>1, <2>2, SessionStep
  <1>2. ASSUME NEW u \in User, performance'[u].lastReviewCycle # Nil
        PROVE  Reached(performance'[u].lastReviewCycle)
    <2> DEFINE last == performance'[u].lastReviewCycle
    <2>1. last \in Cycle
      BY <1>0, <1>2 DEF TypeOK, RowsOK, PerformanceRow
    <2>2. CASE /\ last = performance[u].lastReviewCycle
               /\ \A r \in Request : RemoveCycleCommit(r) => request[r].cycle # last
      <3>1. cycle[last].status \in {"CALIBRATING", "COMPLETED"}
        BY <1>0, <1>2, <2>2 DEF ScoresComeFromCalibration
      <3>2. QED
        BY <1>0, <2>1, <2>2, <3>1, CalibratedStays
    <2>3. ASSUME UNCHANGED cycle, NEW s \in Session, SessionExists(s), last = session[s].cycle
          PROVE  Reached(last)
      BY <1>0, <2>3 DEF ScoresComeFromCalibration
    <2>4. QED
      BY <1>0, <1>2, <2>2, <2>3, PerformanceStep
  <1>3. QED
    BY <1>1, <1>2 DEF ScoresComeFromCalibration

LEMMA RemembersStageStep ==
    ASSUME NEW a, AlwaysEligible(a), TypeOK, StageInv(a), [Next]_vars, NEW x \in Request
    PROVE  RemembersStage(request[x], a)'
  <1> DEFINE q == request'[x]
  <1>0. request \in [Request -> InFlight] /\ cycle \in [Cycle -> CycleRow]
    BY DEF TypeOK, RowsOK
  <1>1. CASE q = request[x]
    <2>1. RemembersStage(request[x], a)
      BY DEF StageInv
    <2>2. ASSUME q.op = "calibrate" PROVE cycle'[q.cycle].status \in Launched \cup {"DELETED"}
      BY <1>0, <1>1, <2>1, <2>2, RequestFields, StartedStays DEF RemembersStage, Started
    <2>3. ASSUME q.op \in {"complete", "completeChecked", "createSession", "createSessionLoaded"}
          PROVE  cycle'[q.cycle].status \in {"CALIBRATING", "COMPLETED", "DELETED"}
      <3>1. q.cycle \in Cycle
        BY <1>0, <1>1, <2>3, RequestTypes, RequestFields
      <3>2. QED
        BY <1>1, <2>1, <2>3, <3>1, CalibratedStays DEF RemembersStage
    <2>4. QED
      BY <1>1, <2>1, <2>2, <2>3 DEF RemembersStage, Started, Calibrated
  <1>2. CASE \E c \in Cycle : ActivateRead(x, c) \/ CalibrateRead(x, c) \/ CompleteRead(x, c)
    <2>1. cycle' = cycle /\ \A c \in Cycle : a \notin cycle[c].excluded
      BY <1>2 DEF ActivateRead, CalibrateRead, CompleteRead, rows, StageInv
    <2>2. QED
      BY <1>0, <1>2, <2>1 DEF ActivateRead, CalibrateRead, CompleteRead, Begin, RemembersStage,
         Started, Launched, Calibrated
  <1>3. CASE \E t \in Template, ex \in ExclusionLists : CreateCycleRead(x, t, ex)
    BY <1>0, <1>3 DEF CreateCycleRead, Begin, RemembersStage, AlwaysEligible
  <1>4. CASE \E c \in Cycle, t \in Template \cup {Nil}, ex \in ExclusionLists \cup {Nil} :
                UpdateCycleRead(x, c, t, ex)
    BY <1>0, <1>4 DEF UpdateCycleRead, Begin, RemembersStage, AlwaysEligible
  <1>5. CASE ActivateLoad(x)
    <2>1. a \notin request[x].excluded
      BY <1>5 DEF ActivateLoad, StageInv, RemembersStage
    <2>2. QED
      BY <1>0, <1>5, <2>1 DEF ActivateLoad, Await, RemembersStage, AlwaysEligible
  <1>6. CASE CompleteCheck(x) \/ CreateSessionLoad(x)
    <2>1. Calibrated(request[x].cycle) /\ cycle' = cycle
      BY <1>6 DEF CompleteCheck, CreateSessionLoad, rows, StageInv, RemembersStage
    <2>2. q.cycle = request[x].cycle /\ q.op \in {"completeChecked", "createSessionLoaded"}
      BY <1>0, <1>6 DEF CompleteCheck, CreateSessionLoad, Await
    <2>3. QED
      BY <2>1, <2>2 DEF RemembersStage, Calibrated
  <1>7. CASE \E c \in Cycle, scope \in SUBSET User : CreateSessionRead(x, c, scope)
    BY <1>0, <1>7 DEF CreateSessionRead, Begin, rows, RemembersStage, Calibrated
  <1>8. CASE \/ q.op \in {"idle", "updateTemplate", "removeTemplate", "removeCycle", "submit",
                 "approve", "reject", "bulk", "bulkApprove", "overdue", "adjust", "finalize"}
             \/ \E c \in Cycle, u \in User, S \in SUBSET User : NominateRead(x, c, u, S)
             \/ NominateCount(x) \/ ActivateCommit(x)
    <2>1. q.op \notin {"calibrate", "complete", "completeChecked", "createSession",
                       "createSessionLoaded", "createCycle", "activate", "updateCycle",
                       "activateLoaded"}
      BY <1>0, <1>8 DEF NominateRead, NominateCount, ActivateCommit, Begin, Await
    <2>2. QED
      BY <2>1 DEF RemembersStage
  <1>9. QED
    BY <1>1, <1>2, <1>3, <1>4, <1>5, <1>6, <1>7, <1>8, RequestStep

\* ReviewInv, the launch invariant with the stage invariant of every user who
\* is always eligible, is inductive.
THEOREM ReviewInvariantHolds == Spec => []ReviewInv
  <1>1. Init => ReviewInv
    <2> SUFFICES ASSUME Init, NEW a \in User PROVE LaunchInv /\ StageInv(a)
      BY LaunchInvInit DEF ReviewInv
    <2>1. QED
      BY LaunchInvInit, NilAssumption DEF Init, StoreInit, StageInv, Launched, SessionExists,
         ScoresComeFromCalibration, RemembersStage, Idle
  <1>2. ReviewInv /\ [Next]_vars => ReviewInv'
    <2> SUFFICES ASSUME ReviewInv, [Next]_vars PROVE ReviewInv'
      OBVIOUS
    <2>1. TypeOK /\ LaunchInv /\ LaunchInv'
      BY NextType, OwnsStep, SessionsStartedStep, ApprovedStep, NoticeMeansAssignedStep,
         RemembersLaunchStep DEF ReviewInv, LaunchInv
    <2>2. ASSUME NEW a \in User, AlwaysEligible(a) PROVE StageInv(a)'
      <3>1. StageInv(a)
        BY <2>2 DEF ReviewInv
      <3>2. QED
        BY <2>1, <2>2, <3>1, NotExcludedStep, SelfReviewStep, ScoresStep, RemembersStageStep
           DEF StageInv
    <2>3. QED
      BY <2>1, <2>2 DEF ReviewInv, AlwaysEligible
  <1>3. QED
    BY <1>1, <1>2, PTL DEF Spec

\* With a user whom no exclusion list names, a cycle is activated at most once:
\* the status is not checked again when activateCycle writes, but the unique key
\* on the SELF review of that user rejects every activation but the first.
THEOREM NoReactivation ==
    ASSUME NEW a, AlwaysEligible(a)
    PROVE  Spec => NeverReactivated
  <1> DEFINE Once ==
        /\ \A c \in Cycle : cycle'[c].status = "ACTIVE" /\ cycle[c].status # "ACTIVE"
                             => cycle[c].status = "DRAFT"
        /\ \A r \in Request : request[r].op = "activateLoaded" /\ request'[r].op = "activated"
                             => cycle[request[r].cycle].status = "DRAFT"
  <1>1. ReviewInv /\ [Next]_vars => [Once]_vars
    <2> SUFFICES ASSUME ReviewInv, [Next]_vars
                 PROVE  Once
      OBVIOUS
    <2>1. TypeOK /\ StageInv(a)
      BY DEF ReviewInv, LaunchInv, AlwaysEligible
    <2>2. ASSUME NEW c \in Cycle, cycle'[c].status = "ACTIVE", cycle[c].status # "ACTIVE"
          PROVE  cycle[c].status = "DRAFT"
      <3>1. PICK r \in Request : ActivateCommit(r) /\ request[r].cycle = c
        BY <2>1, <2>2, StatusStep
      <3>2. QED
        BY <2>1, <3>1, ActivatesDrafts
    <2>3. ASSUME NEW r \in Request, request[r].op = "activateLoaded", request'[r].op = "activated"
          PROVE  cycle[request[r].cycle].status = "DRAFT"
      <3>1. ActivateCommit(r)
        <4>1. request \in [Request -> InFlight]
          BY <2>1 DEF TypeOK
        <4>2. QED
          BY <2>1, <2>3, <4>1, RequestStep DEF CreateCycleRead, UpdateCycleRead, ActivateRead,
             CalibrateRead, CompleteRead, ActivateLoad, CompleteCheck, NominateRead, NominateCount,
             CreateSessionRead, CreateSessionLoad, Begin, Await
      <3>2. QED
        BY <2>1, <3>1, ActivatesDrafts
    <2>4. QED
      BY <2>2, <2>3
  <1>2. QED
    BY ReviewInvariantHolds, <1>1, PTL DEF Spec, NeverReactivated

\* With a user whom no exclusion list names, published scores and calibration
\* sessions belong to cycles that reached calibration and still exist.
THEOREM ScoresAreCalibrated ==
    ASSUME NEW a, AlwaysEligible(a)
    PROVE  Spec => []ScoresComeFromCalibration
  <1>1. ReviewInv => ScoresComeFromCalibration
    BY DEF ReviewInv, AlwaysEligible, StageInv
  <1>2. QED
    BY ReviewInvariantHolds, <1>1, PTL
=============================================================================
