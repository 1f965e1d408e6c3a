------------------------- MODULE ReviewSerialProofs -------------------------
(***************************************************************************)
(* The contract of the review handlers called one at a time (a singleton   *)
(* Request), for any users, cycles, templates and sessions: what a handler *)
(* checked before an await is still true when it writes.                   *)
(***************************************************************************)
EXTENDS ReviewSafetyProofs, FiniteSetTheorems

----------------------------------------------------------------------------
(* How a step may change templates and cycles.                             *)

\* A template is created, edited, or removed while no cycle refers to it.
LEMMA TemplateStep ==
    ASSUME TypeOK, [Next]_vars, NEW t \in Template
    PROVE  \/ template'[t] = template[t]
           \/ /\ UNCHANGED cycle
              /\ \/ template[t] = 0
                 \/ /\ TemplateExists(t) /\ template'[t] = template[t] + 1
                    /\ \E r \in Request : request[r].op = "updateTemplate" /\ request[r].template = t
                 \/ ~Referenced(t)
<1>0. template \in [Template -> Int]
  BY DEF TypeOK, RowsOK
<1>1. ASSUME NEW d \in Template, CreateTemplate(d)
      PROVE  UNCHANGED cycle /\ template[d] = 0 /\ template' = [template EXCEPT ![d] = 1]
  BY <1>1 DEF CreateTemplate
<1>2. ASSUME NEW r \in Request, UpdateTemplateCommit(r)
      PROVE  LET d == request[r].template IN
             /\ d \in Template /\ TemplateExists(d) /\ request[r].op = "updateTemplate"
             /\ template' = [template EXCEPT ![d] = @ + 1] /\ UNCHANGED cycle
  BY <1>2, RequestTypes, RequestFields DEF UpdateTemplateCommit
<1>3. ASSUME NEW r \in Request, RemoveTemplateCommit(r)
      PROVE  LET d == request[r].template IN
             /\ d \in Template /\ ~Referenced(d)
             /\ template' = [template EXCEPT ![d] = -1] /\ UNCHANGED cycle
  BY <1>3, RequestTypes, RequestFields DEF RemoveTemplateCommit
<1>4. \/ UNCHANGED template
      \/ \E d \in Template : CreateTemplate(d)
      \/ \E r \in Request : UpdateTemplateCommit(r) \/ RemoveTemplateCommit(r)
  <2>1. ASSUME NEW r \in Request, CycleStep(r)
        PROVE  UNCHANGED template \/ UpdateTemplateCommit(r) \/ RemoveTemplateCommit(r)
    BY <2>1 DEF CycleStep, rows, UpdateTemplateRead, RemoveTemplateRead, CreateCycleRead,
       CreateCycleCommit, UpdateCycleRead, UpdateCycleCommit, RemoveCycleRead, RemoveCycleCommit,
       ActivateRead, ActivateLoad, ActivateCommit, ActivateNotify, CalibrateRead, CalibrateCommit,
       CompleteRead, CompleteCheck, CompleteCommit
  <2>2. ASSUME NEW r \in Request, PeerStep(r) PROVE UNCHANGED template
    BY <2>2 DEF PeerStep, rows, SubmitReviewRead, SubmitReviewCommit, NominateRead, NominateCount,
       NominateCommit, ApproveRead, ApproveCommit, RejectRead, RejectCommit, BulkApproveRead,
       BulkApproveNext, BulkApproveCommit, OverdueRead, OverdueMark
  <2>3. ASSUME NEW r \in Request, CalibrationStep(r) PROVE UNCHANGED template
    BY <2>3 DEF CalibrationStep, rows, CreateSessionRead, CreateSessionLoad, CreateSessionCommit,
       AdjustRead, AdjustCommit, FinalizeRead, FinalizeCommit
  <2>4. (\E r \in Request : Fail(r)) \/ UNCHANGED vars => UNCHANGED template
    BY DEF Fail, rows, vars
  <2>5. QED BY <2>1, <2>2, <2>3, <2>4 DEF Next
<1>5. QED BY <1>0, <1>1, <1>2, <1>3, <1>4

\* What a step may do to the row of cycle c, and the request that does it.
LEMMA CycleRowStep ==
    ASSUME TypeOK, [Next]_vars, NEW c \in Cycle, cycle'[c] # cycle[c]
    PROVE  /\ UNCHANGED template
           /\ \/ /\ cycle[c].status = "UNBORN" /\ cycle'[c].status = "DRAFT"
                 /\ TemplateExists(cycle'[c].template)
              \/ \E r \in Request :
                   /\ request[r].cycle = c /\ CycleExists(c)
                   /\ \/ /\ request[r].op = "updateCycle" /\ cycle'[c].status = cycle[c].status
                         /\ \/ cycle'[c].template = cycle[c].template
                            \/ TemplateExists(cycle'[c].template)
                      \/ request[r].op = "removeCycle" /\ cycle'[c].status = "DELETED"
                      \/ /\ cycle'[c].template = cycle[c].template
                         /\ cycle'[c].excluded = cycle[c].excluded
                         /\ \/ /\ request[r].op = "activateLoaded" /\ cycle'[c].status = "ACTIVE"
                               /\ cycle'[c].snapshot = request[r].snapshot /\ ActivateCommit(r)
                            \/ /\ cycle'[c].snapshot = cycle[c].snapshot
                               /\ UNCHANGED <<review, nomination, session>>
                               /\ \/ /\ request[r].op = "calibrate" /\ UNCHANGED performance
                                     /\ cycle'[c].status = "CALIBRATING"
                                  \/ /\ request[r].op = "completeChecked" /\ CompleteCommit(r)
                                     /\ cycle'[c].status = "COMPLETED"
<1>0. cycle \in [Cycle -> CycleRow]
  BY DEF TypeOK, RowsOK
<1>01. cycle[c] = [status |-> cycle[c].status, template |-> cycle[c].template,
                   excluded |-> cycle[c].excluded, snapshot |-> cycle[c].snapshot]
  BY <1>0 DEF CycleRow
<1> DEFINE Done(r) == request[r].cycle = c /\ CycleExists(c) /\ UNCHANGED template
<1>1. ASSUME NEW r \in Request, NEW d \in Cycle, CreateCycleCommit(r, d)
      PROVE  /\ UNCHANGED template /\ cycle[c].status = "UNBORN" /\ cycle'[c].status = "DRAFT"
             /\ TemplateExists(cycle'[c].template)
  BY <1>0, <1>1 DEF CreateCycleCommit, TemplateExists
<1>2. ASSUME NEW r \in Request, UpdateCycleCommit(r)
      PROVE  /\ Done(r) /\ request[r].op = "updateCycle" /\ cycle'[c].status = cycle[c].status
             /\ cycle'[c].template = cycle[c].template \/ TemplateExists(cycle'[c].template)
  <2>1. /\ request[r].op = "updateCycle" /\ CycleExists(request[r].cycle) /\ UNCHANGED template
        /\ request[r].template # Nil => TemplateExists(request[r].template)
    BY <1>2 DEF UpdateCycleCommit
  <2>2. request[r].cycle = c
    BY <1>0, <1>2 DEF UpdateCycleCommit
  <2>3. /\ cycle'[c].status = cycle[c].status
        /\ cycle'[c].template = IF request[r].template = Nil THEN cycle[c].template
                                 ELSE request[r].template
    BY <1>0, <1>01, <1>2, <2>2 DEF UpdateCycleCommit
  <2>4. QED BY <2>1, <2>2, <2>3 DEF TemplateExists
<1>3. ASSUME NEW r \in Request, RemoveCycleCommit(r)
      PROVE  Done(r) /\ request[r].op = "removeCycle" /\ cycle'[c].status = "DELETED"
  BY <1>0, <1>01, <1>3 DEF RemoveCycleCommit
<1>4. ASSUME NEW r \in Request, ActivateCommit(r)
      PROVE  /\ Done(r) /\ request[r].op = "activateLoaded" /\ cycle'[c].status = "ACTIVE"
             /\ cycle'[c].snapshot = request[r].snapshot
             /\ cycle'[c].template = cycle[c].template /\ cycle'[c].excluded = cycle[c].excluded
  BY <1>0, <1>01, <1>4 DEF ActivateCommit
<1>5. ASSUME NEW r \in Request, CalibrateCommit(r)
      PROVE  /\ Done(r) /\ request[r].op = "calibrate" /\ cycle'[c].status = "CALIBRATING"
             /\ cycle'[c].snapshot = cycle[c].snapshot
             /\ cycle'[c].template = cycle[c].template /\ cycle'[c].excluded = cycle[c].excluded
             /\ UNCHANGED <<review, nomination, session, performance>>
  BY <1>0, <1>01, <1>5 DEF CalibrateCommit
<1>6. ASSUME NEW r \in Request, CompleteCommit(r)
      PROVE  /\ Done(r) /\ request[r].op = "completeChecked" /\ cycle'[c].status = "COMPLETED"
             /\ cycle'[c].snapshot = cycle[c].snapshot
             /\ cycle'[c].template = cycle[c].template /\ cycle'[c].excluded = cycle[c].excluded
             /\ UNCHANGED <<review, nomination, session>>
  BY <1>0, <1>01, <1>6 DEF CompleteCommit
<1>7. \E r \in Request :
        \/ \E d \in Cycle : CreateCycleCommit(r, d)
        \/ UpdateCycleCommit(r) \/ RemoveCycleCommit(r)
        \/ ActivateCommit(r) \/ CalibrateCommit(r) \/ CompleteCommit(r)
  BY StepKinds DEF ActivateNotify, SubmitReviewCommit, NominateCommit, ApproveCommit,
     BulkApproveCommit, RejectCommit, OverdueMark, CreateSessionCommit, AdjustCommit,
     FinalizeCommit
<1>8. QED BY <1>1, <1>2, <1>3, <1>4, <1>5, <1>6, <1>7

----------------------------------------------------------------------------
(* The checks.                                                             *)

\* A handler that takes a step ends, goes on to a place where no check is
\* remembered, or has just checked.
LEMMA CheckStep ==
    ASSUME TypeOK, NEW x \in Request,
           CycleStep(x) \/ PeerStep(x) \/ CalibrationStep(x) \/ Fail(x)
    PROVE  \/ request'[x].op \in {"idle", "removeTemplate", "createCycle", "activated", "nominate",
                 "nominateCounted", "approve", "bulk", "bulkApprove", "overdue"}
           \/ \E t \in Template : UpdateTemplateRead(x, t)
           \/ \E c \in Cycle, t \in Template \cup {Nil}, ex \in ExclusionLists \cup {Nil} :
                 UpdateCycleRead(x, c, t, ex)
           \/ \E c \in Cycle : \/ RemoveCycleRead(x, c) \/ ActivateRead(x, c)
                               \/ CalibrateRead(x, c) \/ CompleteRead(x, c)
           \/ ActivateLoad(x) \/ CompleteCheck(x) \/ CreateSessionLoad(x)
           \/ \E c \in Cycle, p \in Pair, s \in Rating \cup {Nil} : SubmitReviewRead(x, c, p, s)
           \/ \E c \in Cycle, p \in Pair : RejectRead(x, c, p)
           \/ \E c \in Cycle, scope \in SUBSET User : CreateSessionRead(x, c, scope)
           \/ \E s \in Session, u \in User, y \in CalibratedScore : AdjustRead(x, s, u, y)
           \/ \E s \in Session : FinalizeRead(x, s)
<1>0. request \in [Request -> InFlight]
  BY DEF TypeOK
<1>1. \A q : Await(x, q) => request'[x] = q
  BY <1>0 DEF Await
<1>2. End(x) => request'[x].op = "idle"
  BY <1>0 DEF End, Idle
<1>3. \A op, q : Begin(x, op, q) => request'[x] = q
  BY <1>0 DEF Begin
<1>4. CASE \/ Fail(x) \/ UpdateTemplateCommit(x) \/ RemoveTemplateCommit(x)
           \/ \E c \in Cycle : CreateCycleCommit(x, c)
           \/ UpdateCycleCommit(x) \/ RemoveCycleCommit(x) \/ ActivateNotify(x)
           \/ CalibrateCommit(x) \/ CompleteCommit(x)
  <2>1. End(x)
    BY <1>4 DEF Fail, UpdateTemplateCommit, RemoveTemplateCommit, CreateCycleCommit,
       UpdateCycleCommit, RemoveCycleCommit, ActivateNotify, CalibrateCommit, CompleteCommit
  <2>2. QED BY <1>2, <2>1
<1>5. CASE \/ SubmitReviewCommit(x) \/ NominateCommit(x) \/ ApproveCommit(x) \/ RejectCommit(x)
           \/ \E s \in Session : CreateSessionCommit(x, s)
           \/ AdjustCommit(x) \/ FinalizeCommit(x)
  <2>1. End(x)
    BY <1>5 DEF SubmitReviewCommit, NominateCommit, ApproveCommit, RejectCommit,
       CreateSessionCommit, AdjustCommit, FinalizeCommit
  <2>2. QED BY <1>2, <2>1
<1>6. CASE \/ \E t \in Template : RemoveTemplateRead(x, t)
           \/ \E t \in Template, ex \in ExclusionLists : CreateCycleRead(x, t, ex)
           \/ ActivateCommit(x)
  <2>1. CASE \E t \in Template : RemoveTemplateRead(x, t)
    BY <1>3, <2>1 DEF RemoveTemplateRead
  <2>2. CASE \E t \in Template, ex \in ExclusionLists : CreateCycleRead(x, t, ex)
    BY <1>3, <2>2 DEF CreateCycleRead
  <2>3. CASE ActivateCommit(x)
    BY <1>1, <2>3 DEF ActivateCommit
  <2>4. QED BY <1>6, <2>1, <2>2, <2>3
<1>7. CASE \/ \E c \in Cycle, u \in User, S \in SUBSET User : NominateRead(x, c, u, S)
           \/ NominateCount(x)
           \/ \E c \in Cycle, p \in Pair : ApproveRead(x, c, p)
           \/ \E S \in SUBSET Cycle : OverdueRead(x, S)
  <2>1. CASE \E c \in Cycle, u \in User, S \in SUBSET User : NominateRead(x, c, u, S)
    BY <1>3, <2>1 DEF NominateRead
  <2>2. CASE NominateCount(x)
    BY <1>1, <2>2 DEF NominateCount
  <2>3. CASE \E c \in Cycle, p \in Pair : ApproveRead(x, c, p)
    BY <1>3, <2>3 DEF ApproveRead
  <2>4. CASE \E S \in SUBSET Cycle : OverdueRead(x, S)
    BY <1>3, <2>4 DEF OverdueRead
  <2>5. QED BY <1>7, <2>1, <2>2, <2>3, <2>4
<1>8. CASE \/ \E c \in Cycle : BulkApproveRead(x, c)
           \/ \E p \in Pair : BulkApproveNext(x, p)
           \/ BulkApproveCommit(x)
           \/ \E c \in Cycle : OverdueMark(x, c)
  <2>1. CASE \E c \in Cycle : BulkApproveRead(x, c)
    BY <1>3, <2>1 DEF BulkApproveRead
  <2>2. CASE \E p \in Pair : BulkApproveNext(x, p)
    BY <1>1, <2>2 DEF BulkApproveNext
  <2>3. CASE BulkApproveCommit(x)
    BY <1>1, <1>2, <2>3 DEF BulkApproveCommit
  <2>4. CASE \E c \in Cycle : OverdueMark(x, c)
    BY <1>1, <1>2, <2>4 DEF OverdueMark
  <2>5. QED BY <1>8, <2>1, <2>2, <2>3, <2>4
<1>9. QED BY <1>4, <1>5, <1>6, <1>7, <1>8 DEF CycleStep, PeerStep, CalibrationStep

\* A check that has just been made holds: nothing was written since.
LEMMA JustChecked ==
    ASSUME SerialInv, NEW x \in Request,
           CycleStep(x) \/ PeerStep(x) \/ CalibrationStep(x) \/ Fail(x)
    PROVE  CycleStillChecked(request[x])' /\ RowsStillChecked(request[x])'
<1> DEFINE q == request'[x]
           Good == CycleStillChecked(request[x])' /\ RowsStillChecked(request[x])'
<1>0. /\ TypeOK /\ request \in [Request -> InFlight] /\ cycle \in [Cycle -> CycleRow]
      /\ CycleStillChecked(request[x]) /\ RowsStillChecked(request[x])
  BY DEF SerialInv, LaunchInv, TypeOK, RowsOK
<1>1. \A y : Await(x, y) => q = y
  BY <1>0 DEF Await
<1>2. \A op, y : Begin(x, op, y) => q = y
  BY <1>0 DEF Begin
<1>3. CASE request'[x].op \in {"idle", "removeTemplate", "createCycle", "activated", "nominate",
              "nominateCounted", "approve", "bulk", "bulkApprove", "overdue"}
  BY <1>3 DEF CycleStillChecked, RowsStillChecked
<1>4. CASE \E t \in Template : UpdateTemplateRead(x, t)
  BY <1>2, <1>4 DEF UpdateTemplateRead, rows, CycleStillChecked, RowsStillChecked
<1>5. CASE \E c \in Cycle, t \in Template \cup {Nil}, ex \in ExclusionLists \cup {Nil} :
              UpdateCycleRead(x, c, t, ex)
  BY <1>2, <1>5 DEF UpdateCycleRead, rows, CycleStillChecked, RowsStillChecked
<1>6. CASE \E c \in Cycle : RemoveCycleRead(x, c) \/ CalibrateRead(x, c) \/ CompleteRead(x, c)
  BY <1>2, <1>6 DEF RemoveCycleRead, CalibrateRead, CompleteRead, rows, CycleStillChecked,
     RowsStillChecked
<1>7. CASE \E c \in Cycle : ActivateRead(x, c)
  BY <1>2, <1>7 DEF ActivateRead, rows, CycleStillChecked, RowsStillChecked
<1>8. CASE ActivateLoad(x)
  BY <1>0, <1>1, <1>8 DEF ActivateLoad, rows, CycleStillChecked, RowsStillChecked
<1>9. CASE CompleteCheck(x)
  BY <1>0, <1>1, <1>9 DEF CompleteCheck, rows, CycleStillChecked, RowsStillChecked, SessionsOf
<1>10. CASE CreateSessionLoad(x)
  <2>1. PICK M : q = [op |-> "createSessionLoaded", cycle |-> request[x].cycle, members |-> M]
    BY <1>1, <1>10 DEF CreateSessionLoad
  <2>2. request[x].op = "createSession" /\ UNCHANGED rows
    BY <1>10 DEF CreateSessionLoad
  <2>3. QED BY <1>0, <2>1, <2>2 DEF rows, CycleStillChecked, RowsStillChecked
<1>11. CASE \E c \in Cycle, p \in Pair, s \in Rating \cup {Nil} : SubmitReviewRead(x, c, p, s)
  BY <1>2, <1>11 DEF SubmitReviewRead, rows, CycleStillChecked, RowsStillChecked
<1>12. CASE \E c \in Cycle, p \in Pair : RejectRead(x, c, p)
  BY <1>2, <1>12 DEF RejectRead, rows, CycleStillChecked, RowsStillChecked
<1>13. CASE \E c \in Cycle, scope \in SUBSET User : CreateSessionRead(x, c, scope)
  BY <1>2, <1>13 DEF CreateSessionRead, rows, CycleStillChecked, RowsStillChecked
<1>14. CASE \E s \in Session, u \in User, y \in CalibratedScore : AdjustRead(x, s, u, y)
  BY <1>2, <1>14 DEF AdjustRead, rows, CycleStillChecked, RowsStillChecked
<1>15. CASE \E s \in Session : FinalizeRead(x, s)
  BY <1>2, <1>15 DEF FinalizeRead, rows, CycleStillChecked, RowsStillChecked
<1>16. QED BY <1>0, <1>3, <1>4, <1>5, <1>6, <1>7, <1>8, <1>9, <1>10, <1>11, <1>12, <1>13, <1>14,
              <1>15, CheckStep

\* A step of no request changes nothing that was checked.
LEMMA ChecksStand ==
    ASSUME SerialInv, UNCHANGED vars \/ \E t \in Template : CreateTemplate(t), NEW x \in Request
    PROVE  CycleStillChecked(request[x])' /\ RowsStillChecked(request[x])'
<1> DEFINE q == request[x]
<1>0. CycleStillChecked(q) /\ RowsStillChecked(q) /\ q \in InFlight /\ TypeOK
  BY DEF SerialInv, LaunchInv, TypeOK
<1>1. CASE UNCHANGED vars
  BY <1>0, <1>1 DEF vars, CycleStillChecked, RowsStillChecked, SessionsOf
<1>2. ASSUME NEW t \in Template, CreateTemplate(t)
      PROVE  CycleStillChecked(q)' /\ RowsStillChecked(q)'
  <2>1. /\ template[t] = 0 /\ template' = [template EXCEPT ![t] = 1]
        /\ UNCHANGED <<cycle, review, nomination, session, request>>
        /\ template \in [Template -> Int]
    BY <1>0, <1>2 DEF CreateTemplate, TypeOK, RowsOK
  <2>2. q.op = "activateLoaded" => template'[cycle[q.cycle].template] = template[cycle[q.cycle].template]
    <3>1. q.op = "activateLoaded" => q.cycle \in Cycle /\ cycle[q.cycle].status = "DRAFT"
      BY <1>0, RequestFields DEF CycleStillChecked
    <3>2. q.op = "activateLoaded" => template[cycle[q.cycle].template] > 0
      BY <3>1 DEF SerialInv, CyclesHaveTemplates, CycleExists, TemplateExists
    <3>3. QED BY <2>1, <3>2
  <2>3. QED BY <1>0, <2>1, <2>2 DEF CycleStillChecked, RowsStillChecked, SessionsOf
<1>3. QED BY <1>1, <1>2

----------------------------------------------------------------------------
(* Templates and snapshots.                                                *)

\* An existing cycle keeps its template: the key rejects the removal.
LEMMA TemplatesStay ==
    ASSUME SerialInv, [Next]_vars
    PROVE  CyclesHaveTemplates'
<1>0. /\ TypeOK /\ TypeOK' /\ CyclesHaveTemplates /\ template \in [Template -> Int]
      /\ cycle \in [Cycle -> CycleRow]
  BY NextType DEF SerialInv, LaunchInv, TypeOK, RowsOK
<1> SUFFICES ASSUME NEW c \in Cycle, CycleExists(c)' PROVE TemplateExists(cycle[c].template)'
  BY DEF CyclesHaveTemplates, TemplateExists
<1>1. ASSUME UNCHANGED template, TemplateExists(cycle'[c].template)
      PROVE  TemplateExists(cycle[c].template)'
  BY <1>1 DEF TemplateExists
<1>2. CASE cycle'[c] # cycle[c]
  BY <1>0, <1>1, <1>2, CycleRowStep DEF CyclesHaveTemplates, CycleExists
<1>3. CASE cycle'[c] = cycle[c]
  <2>1. CycleExists(c) /\ TemplateExists(cycle[c].template) /\ cycle[c].template \in Template
    BY <1>0, <1>3 DEF CyclesHaveTemplates, CycleExists, TemplateExists, CycleRow
  <2>2. Referenced(cycle[c].template)
    BY <2>1 DEF Referenced
  <2>3. QED BY <1>0, <1>3, <2>1, <2>2, TemplateStep DEF TemplateExists
<1>4. QED BY <1>2, <1>3

LEMMA SnapshotsStay ==
    ASSUME SerialInv, [Next]_vars
    PROVE  SnapshotIsTemplate'
<1>0. /\ TypeOK /\ CyclesHaveTemplates /\ SnapshotIsTemplate /\ template \in [Template -> Int]
      /\ cycle \in [Cycle -> CycleRow] /\ request \in [Request -> InFlight]
      /\ \A r \in Request : CycleStillChecked(request[r])
  BY DEF SerialInv, LaunchInv, TypeOK, RowsOK
<1> SUFFICES ASSUME NEW c \in Cycle, cycle'[c].status \in Launched
             PROVE  cycle'[c].snapshot = <<cycle'[c].template, template'[cycle'[c].template]>>
  BY DEF SnapshotIsTemplate
<1>1. CASE cycle'[c] # cycle[c]
  <2>1. UNCHANGED template
    BY <1>0, <1>1, CycleRowStep
  <2>2. ASSUME NEW r \in Request, request[r].cycle = c, request[r].op = "updateCycle",
               cycle'[c].status = cycle[c].status
        PROVE  FALSE
    BY <1>0, <2>2 DEF CycleStillChecked, Launched
  <2>3. ASSUME NEW r \in Request, request[r].cycle = c, request[r].op = "activateLoaded",
               cycle'[c].snapshot = request[r].snapshot, cycle'[c].template = cycle[c].template
        PROVE  cycle'[c].snapshot = <<cycle'[c].template, template'[cycle'[c].template]>>
    BY <1>0, <2>1, <2>3 DEF CycleStillChecked
  <2>4. ASSUME NEW r \in Request, request[r].cycle = c, request[r].op \in {"calibrate", "completeChecked"},
               cycle'[c].snapshot = cycle[c].snapshot, cycle'[c].template = cycle[c].template
        PROVE  cycle'[c].snapshot = <<cycle'[c].template, template'[cycle'[c].template]>>
    BY <1>0, <2>1, <2>4 DEF CycleStillChecked, SnapshotIsTemplate, Launched
  <2>5. QED BY <1>0, <1>1, <2>2, <2>3, <2>4, CycleRowStep DEF Launched
<1>2. CASE cycle'[c] = cycle[c]
  <2>1. /\ cycle[c].snapshot = <<cycle[c].template, template[cycle[c].template]>>
        /\ CycleExists(c) /\ TemplateExists(cycle[c].template) /\ Referenced(cycle[c].template)
        /\ cycle[c].template \in Template
    BY <1>0, <1>2 DEF SnapshotIsTemplate, CyclesHaveTemplates, CycleExists, Launched, Referenced,
       TemplateExists, CycleRow
  <2>2. \A r \in Request : request[r].op = "updateTemplate" => request[r].template # cycle[c].template
    BY <1>0, <1>2 DEF CycleStillChecked
  <2>3. template'[cycle[c].template] = template[cycle[c].template]
    BY <1>0, <2>1, <2>2, TemplateStep DEF TemplateExists
  <2>4. QED BY <1>2, <2>1, <2>3
<1>3. QED BY <1>1, <1>2

----------------------------------------------------------------------------
(* Reviews and nominations.                                                *)

\* What a step may do to the review and the nomination of one pair in a
\* launched cycle.
LEMMA PairStep ==
    ASSUME SerialInv, [Next]_vars, NEW c \in Cycle, NEW p \in Pair, cycle[c].status \in Launched
    PROVE  \/ review'[c][p] = review[c][p] /\ nomination'[c][p] = nomination[c][p]
           \/ /\ review[c][p] # Nil /\ review'[c][p] # Nil
              /\ review'[c][p].type = review[c][p].type /\ nomination'[c][p] = nomination[c][p]
           \/ /\ review'[c][p] = review[c][p]
              /\ nomination[c][p] # "APPROVED" /\ nomination'[c][p] \in {"PENDING", "REJECTED"}
           \/ /\ review[c][p] = Nil /\ review'[c][p] # Nil
              /\ review'[c][p].type = "PEER" /\ nomination'[c][p] = "APPROVED"
<1>0. /\ TypeOK /\ request \in [Request -> InFlight]
      /\ nomination \in [Cycle -> [Pair -> NominationStatus \cup {Nil}]]
      /\ review \in [Cycle -> [Pair -> ReviewRow \cup {Nil}]]
      /\ \A r \in Request : CycleStillChecked(request[r]) /\ RowsStillChecked(request[r])
  BY DEF SerialInv, LaunchInv, TypeOK, RowsOK
<1> DEFINE Kept == review'[c][p] = review[c][p] /\ nomination'[c][p] = nomination[c][p]
<1>1. ASSUME NEW r \in Request, SubmitReviewCommit(r) \/ \E d \in Cycle : OverdueMark(r, d)
      PROVE  \/ Kept
             \/ /\ review[c][p] # Nil /\ review'[c][p] # Nil
                /\ review'[c][p].type = review[c][p].type /\ nomination'[c][p] = nomination[c][p]
  <2>1. UNCHANGED <<cycle, nomination>>
    BY <1>1 DEF SubmitReviewCommit, OverdueMark
  <2>2. SubmitReviewCommit(r) => request[r].cycle \in Cycle /\ request[r].pair \in Pair
    BY RequestTypes, RequestFields, <1>0 DEF SubmitReviewCommit
  <2>3. review[c][p] = Nil => review'[c][p] = Nil
    <3>1. CASE SubmitReviewCommit(r)
      <4>1. review[c][p] = Nil => c # request[r].cycle \/ p # request[r].pair
        BY <3>1 DEF SubmitReviewCommit
      <4>2. QED BY <1>0, <2>2, <3>1, <4>1 DEF SubmitReviewCommit
    <3>2. CASE \E d \in Cycle : OverdueMark(r, d)
      BY <1>0, <3>2 DEF OverdueMark
    <3>3. QED BY <1>1, <3>1, <3>2
  <2>4. cycle'[c].status # "DELETED"
    BY <2>1 DEF Launched
  <2>5. QED BY <1>0, <2>1, <2>3, <2>4, ReviewStep
<1>2. ASSUME NEW r \in Request, ActivateCommit(r) \/ RemoveCycleCommit(r) PROVE Kept
  <2>1. request[r].cycle # c
    BY <1>0, <1>2 DEF ActivateCommit, RemoveCycleCommit, CycleStillChecked, Launched
  <2>2. QED BY <1>0, <1>2, <2>1 DEF ActivateCommit, RemoveCycleCommit
<1>3. ASSUME NEW r \in Request, NominateCommit(r)
      PROVE  \/ Kept
             \/ /\ review'[c][p] = review[c][p]
                /\ nomination[c][p] # "APPROVED" /\ nomination'[c][p] \in {"PENDING", "REJECTED"}
  <2>1. p = <<p[1], p[2]>> /\ p[1] \in User /\ p[2] \in User
    BY DEF Pair
  <2>2. c = request[r].cycle /\ p[1] = request[r].by /\ p[2] \in request[r].nominees => nomination[c][p] = Nil
    BY <1>3, <2>1 DEF NominateCommit, NominatedBy
  <2>3. "APPROVED" # Nil
    BY NilAssumption DEF NominationStatus
  <2>4. QED BY <1>0, <1>3, <2>2, <2>3 DEF NominateCommit
<1>4. ASSUME NEW r \in Request, ApproveCommit(r) \/ BulkApproveCommit(r)
      PROVE  \/ Kept
             \/ /\ review[c][p] = Nil /\ review'[c][p] # Nil
                /\ review'[c][p].type = "PEER" /\ nomination'[c][p] = "APPROVED"
  <2>1. /\ ApproveTransaction(request[r].cycle, request[r].pair)
        /\ request[r].cycle \in Cycle /\ request[r].pair \in Pair
    BY <1>0, <1>4, RequestTypes, RequestFields DEF ApproveCommit, BulkApproveCommit
  <2>2. NewReview("PEER") # Nil /\ NewReview("PEER").type = "PEER"
    BY NilAssumption DEF NewReview, ReviewRow
  <2>3. QED BY <1>0, <2>1, <2>2 DEF ApproveTransaction, NewReview
<1>5. ASSUME NEW r \in Request, RejectCommit(r)
      PROVE  \/ Kept
             \/ /\ review'[c][p] = review[c][p]
                /\ nomination[c][p] # "APPROVED" /\ nomination'[c][p] \in {"PENDING", "REJECTED"}
  BY <1>0, <1>5 DEF RejectCommit, RowsStillChecked
<1>6. ASSUME NEW r \in Request,
             \/ \E d \in Cycle : CreateCycleCommit(r, d)
             \/ UpdateCycleCommit(r) \/ ActivateNotify(r) \/ CalibrateCommit(r) \/ CompleteCommit(r)
             \/ \E s \in Session : CreateSessionCommit(r, s)
             \/ AdjustCommit(r) \/ FinalizeCommit(r)
      PROVE  Kept
  BY <1>6 DEF CreateCycleCommit, UpdateCycleCommit, ActivateNotify, CalibrateCommit, CompleteCommit,
     CreateSessionCommit, AdjustCommit, FinalizeCommit
<1>7. QED BY <1>1, <1>2, <1>3, <1>4, <1>5, <1>6, StepKinds

\* Drafts have no reviews and no nominations; the activation gives one to every
\* pair of the roster it was given, and that is the roster of the cycle still.
LEMMA ActivationAccounts ==
    ASSUME SerialInv, NEW r \in Request, ActivateCommit(r), NEW p \in Pair
    PROVE  LET c == request[r].cycle IN
           /\ p \in AssignedPairs(User \ cycle[c].excluded)
                  <=> review'[c][p] # Nil /\ review'[c][p].type = "ASSIGNED"
           /\ nomination'[c][p] = "APPROVED"
                  <=> review'[c][p] # Nil /\ review'[c][p].type = "PEER"
<1> DEFINE q == request[r]
           c == q.cycle
<1>0. /\ TypeOK /\ c \in Cycle /\ q.op = "activateLoaded" /\ review \in [Cycle -> [Pair -> ReviewRow \cup {Nil}]]
      /\ CycleStillChecked(q)
  BY RequestTypes, RequestFields DEF SerialInv, LaunchInv, ActivateCommit, TypeOK, RowsOK
<1>1. cycle[c].status = "DRAFT" /\ q.eligible = User \ cycle[c].excluded
  BY <1>0 DEF CycleStillChecked
<1>2. review[c][p] = Nil /\ nomination[c][p] = Nil
  BY <1>0, <1>1 DEF SerialInv, LaunchInv, UnlaunchedOwnsNothing, Started, Launched
<1>3. /\ UNCHANGED nomination
      /\ review'[c][p] = IF p \in AssignedPairs(q.eligible) THEN NewReview("ASSIGNED") ELSE Nil
  BY <1>0, <1>2 DEF ActivateCommit
<1>4. NewReview("ASSIGNED") # Nil /\ NewReview("ASSIGNED").type = "ASSIGNED" /\ "APPROVED" # Nil
  BY NilAssumption DEF NewReview, ReviewRow, NominationStatus
<1>5. QED BY <1>1, <1>2, <1>3, <1>4

LEMMA AccountsStay ==
    ASSUME SerialInv, [Next]_vars
    PROVE  ReviewsAreAccountedFor'
<1>0. /\ TypeOK /\ ReviewsAreAccountedFor
      /\ \A r \in Request : CycleStillChecked(request[r])
  BY DEF SerialInv, LaunchInv
<1> DEFINE Accounts(c, p) ==
             /\ p \in AssignedPairs(User \ cycle[c].excluded)
                    <=> review[c][p] # Nil /\ review[c][p].type = "ASSIGNED"
             /\ nomination[c][p] = "APPROVED"
                    <=> review[c][p] # Nil /\ review[c][p].type = "PEER"
<1>1. ASSUME NEW c \in Cycle, cycle'[c].status \in Launched, NEW p \in Pair PROVE Accounts(c, p)'
  <2>1. ASSUME cycle[c].status \in Launched, cycle'[c].excluded = cycle[c].excluded PROVE Accounts(c, p)'
    <3>1. Accounts(c, p)
      BY <1>0, <2>1 DEF ReviewsAreAccountedFor
    <3>2. p \in AssignedPairs(User \ cycle[c].excluded) <=> p \in AssignedPairs(User \ cycle'[c].excluded)
      BY <2>1
    <3>3. "PENDING" # "APPROVED" /\ "REJECTED" # "APPROVED" /\ "ASSIGNED" # "PEER"
      OBVIOUS
    <3>4. QED BY <2>1, <3>1, <3>2, <3>3, PairStep DEF AssignedPairs
  <2>2. CASE cycle'[c] = cycle[c]
    BY <1>1, <2>1, <2>2
  <2>3. CASE cycle'[c] # cycle[c]
    <3>1. ASSUME NEW r \in Request, request[r].cycle = c, ActivateCommit(r),
                 cycle'[c].excluded = cycle[c].excluded
          PROVE  Accounts(c, p)'
      BY <3>1, ActivationAccounts DEF AssignedPairs
    <3>2. ASSUME NEW r \in Request, request[r].cycle = c, request[r].op \in {"calibrate", "completeChecked"},
                 cycle'[c].excluded = cycle[c].excluded
          PROVE  Accounts(c, p)'
      BY <1>0, <2>1, <3>2 DEF CycleStillChecked, Launched
    <3>3. ASSUME NEW r \in Request, request[r].cycle = c, request[r].op = "updateCycle",
                 cycle'[c].status = cycle[c].status
          PROVE  FALSE
      BY <1>0, <1>1, <3>3 DEF CycleStillChecked, Launched
    <3> HIDE DEF Accounts
    <3>4. QED BY <1>0, <1>1, <2>3, <3>1, <3>2, <3>3, CycleRowStep DEF Launched
  <2>4. QED BY <2>2, <2>3
<1>2. QED BY <1>1 DEF ReviewsAreAccountedFor

\* A review becomes SUBMITTED by the submission of this very review.
LEMMA SubmittedBy ==
    ASSUME TypeOK, [Next]_vars, NEW c \in Cycle, NEW p \in Pair,
           review'[c][p] # review[c][p], review'[c][p] # Nil, review'[c][p].status = "SUBMITTED"
    PROVE  \E r \in Request : /\ request[r].op = "submit"
                              /\ request[r].cycle = c /\ request[r].pair = p
<1>0. /\ review \in [Cycle -> [Pair -> ReviewRow \cup {Nil}]] /\ request \in [Request -> InFlight]
  BY DEF TypeOK, RowsOK
<1>1. ASSUME NEW r \in Request, SubmitReviewCommit(r)
      PROVE  request[r].op = "submit" /\ request[r].cycle = c /\ request[r].pair = p
  <2>1. request[r].cycle \in Cycle /\ request[r].pair \in Pair
    BY <1>0, <1>1, RequestFields DEF SubmitReviewCommit
  <2>2. QED BY <1>0, <1>1, <2>1 DEF SubmitReviewCommit
<1>2. ASSUME NEW r \in Request, NEW d \in Cycle, OverdueMark(r, d) PROVE FALSE
  <2> DEFINE late(row) == [row EXCEPT !.status = "OVERDUE"]
  <2>1. \A row \in ReviewRow : late(row).status = "OVERDUE"
    BY DEF ReviewRow
  <2>2. review[c][p] \in ReviewRow /\ review'[c][p] = late(review[c][p])
    BY <1>0, <1>2 DEF OverdueMark
  <2> HIDE DEF late
  <2>3. QED BY <2>1, <2>2
<1>3. \A type : NewReview(type).status = "PENDING"
  BY DEF NewReview
<1>4. ASSUME NEW r \in Request, ActivateCommit(r) PROVE FALSE
  BY <1>0, <1>3, <1>4 DEF ActivateCommit
<1>5. ASSUME NEW r \in Request, ApproveCommit(r) \/ BulkApproveCommit(r) PROVE FALSE
  BY <1>0, <1>5 DEF ApproveCommit, BulkApproveCommit, ApproveTransaction
<1>6. ASSUME NEW r \in Request, RemoveCycleCommit(r) PROVE FALSE
  BY <1>0, <1>6 DEF RemoveCycleCommit
<1>7. \E r \in Request :
         \/ SubmitReviewCommit(r) \/ \E d \in Cycle : OverdueMark(r, d)
         \/ ActivateCommit(r) \/ ApproveCommit(r) \/ BulkApproveCommit(r) \/ RemoveCycleCommit(r)
  BY StepKinds DEF CreateCycleCommit, UpdateCycleCommit, CalibrateCommit, CompleteCommit,
     ActivateNotify, NominateCommit, RejectCommit, CreateSessionCommit, AdjustCommit, FinalizeCommit
<1>8. QED BY <1>1, <1>2, <1>4, <1>5, <1>6, <1>7

----------------------------------------------------------------------------
(* Sessions and scores.                                                    *)

\* What a step may do to the row of session s.
LEMMA SessionRowStep ==
    ASSUME TypeOK, [Next]_vars, NEW s \in Session, session'[s] # session[s]
    PROVE  \E r \in Request :
             \/ /\ RemoveCycleCommit(r) /\ request[r].cycle = session[s].cycle
                /\ session'[s].status = "DELETED"
             \/ /\ UNCHANGED cycle
                /\ \/ /\ request[r].op = "createSessionLoaded"
                      /\ session[s].status = "UNBORN" /\ session'[s].status = "in_progress"
                      /\ session'[s].cycle = request[r].cycle
                   \/ /\ request[r].op = "adjust" /\ request[r].session = s
                      /\ session'[s].status = session[s].status /\ session'[s].cycle = session[s].cycle
                   \/ /\ request[r].op = "finalize" /\ request[r].session = s
                      /\ session'[s].status = "finalized"
                      /\ session'[s].cycle = session[s].cycle /\ session'[s].scores = session[s].scores
<1>0. session \in [Session -> SessionRow] /\ request \in [Request -> InFlight]
  BY DEF TypeOK, RowsOK
<1>01. session[s] = [status |-> session[s].status, cycle |-> session[s].cycle,
                     scores |-> session[s].scores]
  BY <1>0 DEF SessionRow
<1>1. ASSUME NEW r \in Request, RemoveCycleCommit(r)
      PROVE  request[r].cycle = session[s].cycle /\ session'[s].status = "DELETED"
  BY <1>0, <1>01, <1>1 DEF RemoveCycleCommit
<1>2. ASSUME NEW r \in Request, NEW d \in Session, CreateSessionCommit(r, d)
      PROVE  /\ UNCHANGED cycle /\ request[r].op = "createSessionLoaded"
             /\ session[s].status = "UNBORN" /\ session'[s].status = "in_progress"
             /\ session'[s].cycle = request[r].cycle
  BY <1>0, <1>2 DEF CreateSessionCommit
<1>3. ASSUME NEW r \in Request, AdjustCommit(r)
      PROVE  /\ UNCHANGED cycle /\ request[r].op = "adjust" /\ request[r].session = s
             /\ session'[s].status = session[s].status /\ session'[s].cycle = session[s].cycle
  BY <1>0, <1>01, <1>3 DEF AdjustCommit
<1>4. ASSUME NEW r \in Request, FinalizeCommit(r)
      PROVE  /\ UNCHANGED cycle /\ request[r].op = "finalize" /\ request[r].session = s
             /\ session'[s].status = "finalized"
             /\ session'[s].cycle = session[s].cycle /\ session'[s].scores = session[s].scores
  BY <1>0, <1>01, <1>4 DEF FinalizeCommit
<1>5. \E r \in Request : \/ RemoveCycleCommit(r) \/ \E d \in Session : CreateSessionCommit(r, d)
                         \/ AdjustCommit(r) \/ FinalizeCommit(r)
  BY StepKinds DEF CreateCycleCommit, OverdueMark, UpdateCycleCommit, ActivateCommit, ActivateNotify,
     CalibrateCommit, CompleteCommit, SubmitReviewCommit, NominateCommit, ApproveCommit,
     BulkApproveCommit, RejectCommit
<1>6. QED BY <1>1, <1>2, <1>3, <1>4, <1>5

\* What a step may do to the score of user u.
LEMMA ScoreRowStep ==
    ASSUME TypeOK, [Next]_vars, NEW u \in User, performance'[u].lastReviewCycle # Nil
    PROVE  \/ /\ performance'[u] = performance[u]
              /\ \A r \in Request : RemoveCycleCommit(r) => request[r].cycle # performance[u].lastReviewCycle
           \/ \E r \in Request :
                /\ request[r].op = "finalize" /\ u \in DOMAIN request[r].scores
                /\ performance'[u] = [reviewScore |-> request[r].scores[u],
                                      lastReviewCycle |-> session[request[r].session].cycle]
                /\ session' = [session EXCEPT ![request[r].session].status = "finalized"]
           \/ /\ UNCHANGED session
              /\ \E c \in Cycle : \E s \in SessionsOf(c, "finalized") :
                   /\ u \in DOMAIN session[s].scores
                   /\ performance'[u] = [reviewScore |-> session[s].scores[u], lastReviewCycle |-> c]
<1>0. performance \in [User -> PerformanceRow] /\ request \in [Request -> InFlight]
  BY DEF TypeOK, RowsOK
<1>01. performance[u] = [reviewScore |-> performance[u].reviewScore,
                         lastReviewCycle |-> performance[u].lastReviewCycle]
  BY <1>0 DEF PerformanceRow
<1>1. ASSUME UNCHANGED performance, ~ \E r \in Request : RemoveCycleCommit(r)
      PROVE  /\ performance'[u] = performance[u]
             /\ \A r \in Request : RemoveCycleCommit(r) => request[r].cycle # performance[u].lastReviewCycle
  BY <1>1
<1>2. CASE \E r \in Request : RemoveCycleCommit(r)
  <2>1. ASSUME NEW r \in Request, RemoveCycleCommit(r)
        PROVE  performance'[u] = performance[u] /\ request[r].cycle # performance[u].lastReviewCycle
    BY <1>0, <1>01, <2>1 DEF RemoveCycleCommit
  <2>2. QED BY <1>2, <2>1
<1>3. ASSUME NEW r \in Request, FinalizeCommit(r), u \in DOMAIN request[r].scores
      PROVE  /\ request[r].op = "finalize"
             /\ performance'[u] = [reviewScore |-> request[r].scores[u],
                                   lastReviewCycle |-> session[request[r].session].cycle]
             /\ session' = [session EXCEPT ![request[r].session].status = "finalized"]
  BY <1>3 DEF FinalizeCommit
<1>4. ASSUME NEW r \in Request, CompleteCommit(r), performance'[u] # performance[u]
      PROVE  /\ UNCHANGED session
             /\ \E c \in Cycle : \E s \in SessionsOf(c, "finalized") :
                  /\ u \in DOMAIN session[s].scores
                  /\ performance'[u] = [reviewScore |-> session[s].scores[u], lastReviewCycle |-> c]
  <2> DEFINE c == request[r].cycle
             finalized == SessionsOf(c, "finalized")
             scored == {v \in User : \E s \in finalized : v \in DOMAIN session[s].scores}
  <2>1. c \in Cycle
    BY <1>0, <1>4, RequestFields DEF CompleteCommit
  <2>2. /\ UNCHANGED session
        /\ \E last \in [scored -> finalized] :
             /\ \A v \in scored : v \in DOMAIN session[last[v]].scores
             /\ performance' = [v \in User |->
                    IF v \in scored
                    THEN [reviewScore |-> session[last[v]].scores[v], lastReviewCycle |-> c]
                    ELSE performance[v]]
    BY <1>4 DEF CompleteCommit
  <2> HIDE DEF finalized, scored
  <2>3. PICK last \in [scored -> finalized] :
             /\ \A v \in scored : v \in DOMAIN session[last[v]].scores
             /\ performance' = [v \in User |->
                    IF v \in scored
                    THEN [reviewScore |-> session[last[v]].scores[v], lastReviewCycle |-> c]
                    ELSE performance[v]]
    BY <2>2
  <2>4. u \in scored
    BY <1>4, <2>3
  <2>5. /\ last[u] \in finalized /\ u \in DOMAIN session[last[u]].scores
        /\ performance'[u] = [reviewScore |-> session[last[u]].scores[u], lastReviewCycle |-> c]
    BY <2>3, <2>4
  <2>6. QED BY <2>1, <2>2, <2>5 DEF finalized
<1>5. \/ UNCHANGED performance
      \/ \E r \in Request : RemoveCycleCommit(r) \/ CompleteCommit(r) \/ FinalizeCommit(r)
  BY ZenonT(30), StepKinds DEF CreateCycleCommit, OverdueMark, UpdateCycleCommit, ActivateCommit, ActivateNotify,
     CalibrateCommit, SubmitReviewCommit, NominateCommit, ApproveCommit, BulkApproveCommit,
     RejectCommit, CreateSessionCommit, AdjustCommit
<1>6. (\E r \in Request : FinalizeCommit(r) /\ u \notin DOMAIN request[r].scores)
         => performance'[u] = performance[u]
  BY <1>0 DEF FinalizeCommit
<1>7. QED BY <1>1, <1>2, <1>3, <1>4, <1>5, <1>6

\* A finalized session is not touched again, but by the deletion of its cycle.
LEMMA SessionRemoved ==
    ASSUME SerialInv, [Next]_vars, NEW s \in Session, session[s].status = "finalized",
           session'[s] # session[s]
    PROVE  \E r \in Request : RemoveCycleCommit(r) /\ request[r].cycle = session[s].cycle
<1>1. TypeOK /\ \A r \in Request : RowsStillChecked(request[r])
  BY DEF SerialInv, LaunchInv
<1>2. QED BY <1>1, SessionRowStep DEF RowsStillChecked

LEMMA FinalizedStayScored ==
    ASSUME SerialInv, [Next]_vars
    PROVE  FinalizedIsScored'
<1>0. /\ TypeOK /\ FinalizedIsScored
      /\ \A r \in Request : RowsStillChecked(request[r])
  BY DEF SerialInv, LaunchInv
<1>1. ASSUME NEW s \in Session, session'[s].status = "finalized",
             NEW u \in DOMAIN session'[s].scores
      PROVE  session'[s].scores[u] # Nil
  <2>1. CASE session'[s] = session[s]
    BY <1>0, <1>1, <2>1 DEF FinalizedIsScored
  <2>2. CASE session'[s] # session[s]
    BY <1>0, <1>1, <2>2, SessionRowStep DEF RowsStillChecked
  <2>3. QED BY <2>1, <2>2
<1>2. QED BY <1>1 DEF FinalizedIsScored

LEMMA ScoresStay ==
    ASSUME SerialInv, [Next]_vars
    PROVE  PublishedScoresStand'
<1>0. /\ TypeOK /\ FinalizedIsScored /\ PublishedScoresStand
      /\ \A r \in Request : CycleStillChecked(request[r]) /\ RowsStillChecked(request[r])
      /\ request \in [Request -> InFlight] /\ session \in [Session -> SessionRow]
  BY DEF SerialInv, LaunchInv, TypeOK, RowsOK
<1>1. ASSUME NEW c \in Cycle, cycle'[c].status = "COMPLETED",
             NEW s \in Session, session'[s].cycle = c, session'[s].status = "in_progress"
      PROVE  FALSE
  <2>1. CASE session'[s] # session[s]
    <3>1. PICK r \in Request :
            /\ UNCHANGED cycle
            /\ \/ request[r].op = "createSessionLoaded" /\ request[r].cycle = c
               \/ request[r].op = "adjust" /\ request[r].session = s /\ session[s].cycle = c
      BY <1>0, <1>1, <2>1, SessionRowStep
    <3>2. cycle[c].status = "COMPLETED"
      BY <1>1, <3>1
    <3>3. request[r].op = "createSessionLoaded" => cycle[request[r].cycle].status = "CALIBRATING"
      BY <1>0 DEF CycleStillChecked
    <3>4. request[r].op = "adjust" => session[request[r].session].status = "in_progress"
      BY <1>0 DEF RowsStillChecked
    <3>5. SessionsOf(c, "in_progress") = {}
      BY <1>0, <3>2 DEF PublishedScoresStand
    <3>6. QED BY <3>1, <3>2, <3>3, <3>4, <3>5 DEF SessionsOf
  <2>2. CASE session'[s] = session[s]
    <3>1. SessionsOf(c, "in_progress") # {}
      BY <1>1, <2>2 DEF SessionsOf
    <3>2. cycle[c].status # "COMPLETED"
      BY <1>0, <3>1 DEF PublishedScoresStand
    <3>3. \E r \in Request : request[r].cycle = c /\ request[r].op = "completeChecked"
      BY <1>0, <1>1, <3>2, CycleRowStep
    <3>4. QED BY <1>0, <3>1, <3>3 DEF RowsStillChecked
  <2>3. QED BY <2>1, <2>2
<1>2. ASSUME NEW u \in User, performance'[u].lastReviewCycle # Nil
      PROVE  \E s \in Session :
               /\ session'[s].cycle = performance'[u].lastReviewCycle
               /\ session'[s].status = "finalized" /\ u \in DOMAIN session'[s].scores
               /\ performance'[u].reviewScore = session'[s].scores[u]
               /\ performance'[u].reviewScore # Nil
  <2>1. CASE /\ performance'[u] = performance[u]
             /\ \A r \in Request : RemoveCycleCommit(r) => request[r].cycle # performance[u].lastReviewCycle
    <3>1. PICK s \in SessionsOf(performance[u].lastReviewCycle, "finalized") :
            /\ u \in DOMAIN session[s].scores
            /\ performance[u].reviewScore = session[s].scores[u]
            /\ performance[u].reviewScore # Nil
      BY <1>0, <1>2, <2>1 DEF PublishedScoresStand
    <3>2. s \in Session /\ session[s].cycle = performance[u].lastReviewCycle /\ session[s].status = "finalized"
      BY <3>1 DEF SessionsOf
    <3>3. session'[s] = session[s]
      <4>1. ASSUME session'[s] # session[s] PROVE FALSE
        <5>1. \E r \in Request : RemoveCycleCommit(r) /\ request[r].cycle = session[s].cycle
          BY <1>0, <3>2, <4>1, SessionRemoved
        <5>2. QED BY <2>1, <3>2, <5>1
      <4>2. QED BY <4>1
    <3>4. QED BY <2>1, <3>1, <3>2, <3>3
  <2>2. CASE \E r \in Request :
               /\ request[r].op = "finalize" /\ u \in DOMAIN request[r].scores
               /\ performance'[u] = [reviewScore |-> request[r].scores[u],
                                     lastReviewCycle |-> session[request[r].session].cycle]
               /\ session' = [session EXCEPT ![request[r].session].status = "finalized"]
    <3>1. PICK r \in Request :
               /\ request[r].op = "finalize" /\ u \in DOMAIN request[r].scores
               /\ performance'[u] = [reviewScore |-> request[r].scores[u],
                                     lastReviewCycle |-> session[request[r].session].cycle]
               /\ session' = [session EXCEPT ![request[r].session].status = "finalized"]
      BY <2>2
    <3> DEFINE s == request[r].session
    <3>2. s \in Session
      BY <1>0, <3>1, RequestFields
    <3>3. request[r].scores = session[s].scores /\ request[r].scores[u] # Nil
      BY <1>0, <3>1 DEF RowsStillChecked
    <3>4. /\ session'[s].cycle = session[s].cycle /\ session'[s].scores = session[s].scores
          /\ session'[s].status = "finalized"
      BY <1>0, <3>1, <3>2 DEF SessionRow
    <3> HIDE DEF s
    <3>5. QED BY <3>1, <3>2, <3>3, <3>4 DEF s
  <2>3. CASE /\ UNCHANGED session
             /\ \E c \in Cycle : \E s \in SessionsOf(c, "finalized") :
                  /\ u \in DOMAIN session[s].scores
                  /\ performance'[u] = [reviewScore |-> session[s].scores[u], lastReviewCycle |-> c]
    BY <1>0, <2>3 DEF SessionsOf, FinalizedIsScored
  <2>4. QED BY <1>0, <1>2, <2>1, <2>2, <2>3, ScoreRowStep
<1>3. QED BY <1>1, <1>2 DEF PublishedScoresStand, SessionsOf

----------------------------------------------------------------------------
(* The contract.                                                           *)

\* With one slot, the step of a request disturbs no other request.
LEMMA SerialStep ==
    ASSUME \A r, s \in Request : r = s, SerialInv, [Next]_vars
    PROVE  SerialInv'
<1>1. LaunchInv'
  BY LaunchStep DEF SerialInv
<1>2. ASSUME NEW x \in Request
      PROVE  CycleStillChecked(request[x])' /\ RowsStillChecked(request[x])'
  <2>1. CASE UNCHANGED vars \/ \E t \in Template : CreateTemplate(t)
    BY <2>1, ChecksStand
  <2>2. CASE \E r \in Request : CycleStep(r) \/ PeerStep(r) \/ CalibrationStep(r) \/ Fail(r)
    <3>1. CycleStep(x) \/ PeerStep(x) \/ CalibrationStep(x) \/ Fail(x)
      BY <2>2
    <3>2. QED BY <3>1, JustChecked
  <2>3. QED BY <2>1, <2>2 DEF Next
<1>3. QED
  BY <1>1, <1>2, TemplatesStay, SnapshotsStay, AccountsStay, FinalizedStayScored, ScoresStay
  DEF SerialInv

LEMMA SerialInit == Init => SerialInv
<1> SUFFICES ASSUME Init PROVE SerialInv
  OBVIOUS
<1>1. LaunchInv
  BY LaunchInvInit
<1>2. \A c \in Cycle : cycle[c].status = "UNBORN"
  BY DEF Init, StoreInit
<1>3. CyclesHaveTemplates /\ SnapshotIsTemplate /\ ReviewsAreAccountedFor
  BY <1>2 DEF CyclesHaveTemplates, CycleExists, SnapshotIsTemplate, ReviewsAreAccountedFor, Launched
<1>4. (\A s \in Session : session[s].status = "UNBORN") /\ \A u \in User : performance[u].lastReviewCycle = Nil
  BY DEF Init, StoreInit
<1>5. FinalizedIsScored /\ PublishedScoresStand
  BY <1>2, <1>4 DEF FinalizedIsScored, PublishedScoresStand
<1>6. \A r \in Request : CycleStillChecked(request[r]) /\ RowsStillChecked(request[r])
  BY DEF Init, StoreInit, Idle, CycleStillChecked, RowsStillChecked
<1>7. QED BY <1>1, <1>3, <1>5, <1>6 DEF SerialInv

LEMMA Serially ==
    ASSUME \A r, s \in Request : r = s
    PROVE  Spec => []SerialInv
<1>1. SerialInv /\ [Next]_vars => SerialInv'
  BY SerialStep
<1>2. QED BY <1>1, SerialInit, PTL DEF Spec

\* SnapshotIsTemplate: the template of a launched cycle is not edited, deleted
\* or exchanged by updateTemplate, removeTemplate and updateCycle.
THEOREM SnapshotsAreTemplates ==
    ASSUME \A r, s \in Request : r = s
    PROVE  Spec => []SnapshotIsTemplate
<1>1. SerialInv => SnapshotIsTemplate
  BY DEF SerialInv
<1>2. QED BY <1>1, Serially, PTL

\* ReviewsAreAccountedFor: activateCycle and the approvals create the reviews
\* that the roster and the nominations call for, and nothing else does.
THEOREM ReviewsFollowTheRoster ==
    ASSUME \A r, s \in Request : r = s
    PROVE  Spec => []ReviewsAreAccountedFor
<1>1. SerialInv => ReviewsAreAccountedFor
  BY DEF SerialInv
<1>2. QED BY <1>1, Serially, PTL

\* PublishedScoresStand: a completed cycle has no open session, and every score
\* it published is that of a finalized session.
THEOREM ScoresArePublished ==
    ASSUME \A r, s \in Request : r = s
    PROVE  Spec => []PublishedScoresStand
<1>1. SerialInv => PublishedScoresStand
  BY DEF SerialInv
<1>2. QED BY <1>1, Serially, PTL

\* SubmissionsCloseWithStage: submitReview writes only while the cycle is
\* ACTIVE, and never over a submitted review.
THEOREM SubmissionsClose ==
    ASSUME \A r, s \in Request : r = s
    PROVE  Spec => SubmissionsCloseWithStage
<1>1. SerialInv /\ [Next]_vars =>
        [\A c \in Cycle, p \in Pair :
           review'[c][p] # review[c][p] /\ review'[c][p] # Nil /\ review'[c][p].status = "SUBMITTED"
              => cycle[c].status = "ACTIVE" /\ review[c][p].status # "SUBMITTED"]_vars
  <2>1. ASSUME SerialInv, [Next]_vars, NEW c \in Cycle, NEW p \in Pair,
               review'[c][p] # review[c][p], review'[c][p] # Nil, review'[c][p].status = "SUBMITTED"
        PROVE  cycle[c].status = "ACTIVE" /\ review[c][p].status # "SUBMITTED"
    <3>1. TypeOK /\ \A r \in Request : CycleStillChecked(request[r]) /\ RowsStillChecked(request[r])
      BY <2>1 DEF SerialInv, LaunchInv
    <3>2. QED BY <2>1, <3>1, SubmittedBy DEF CycleStillChecked, RowsStillChecked
  <2>2. QED BY <2>1
<1>2. QED BY <1>1, Serially, PTL DEF Spec, SubmissionsCloseWithStage

----------------------------------------------------------------------------
(* The limit of nominations.                                               *)

\* The steps that write nominations.
LEMMA NominationSteps ==
    ASSUME [Next]_vars
    PROVE  \/ UNCHANGED nomination
           \/ \E r \in Request : \/ NominateCommit(r) \/ ApproveCommit(r) \/ BulkApproveCommit(r)
                                 \/ RejectCommit(r) \/ RemoveCycleCommit(r)
<1>1. ASSUME NEW r \in Request,
             \/ \E c \in Cycle : CreateCycleCommit(r, c)
             \/ UpdateCycleCommit(r) \/ ActivateCommit(r) \/ ActivateNotify(r)
             \/ CalibrateCommit(r) \/ CompleteCommit(r)
      PROVE  UNCHANGED nomination
  BY <1>1 DEF CreateCycleCommit, UpdateCycleCommit, ActivateCommit, ActivateNotify, CalibrateCommit,
     CompleteCommit
<1>2. ASSUME NEW r \in Request,
             \/ \E c \in Cycle : OverdueMark(r, c)
             \/ SubmitReviewCommit(r)
             \/ \E s \in Session : CreateSessionCommit(r, s)
             \/ AdjustCommit(r) \/ FinalizeCommit(r)
      PROVE  UNCHANGED nomination
  BY <1>2 DEF OverdueMark, SubmitReviewCommit, CreateSessionCommit, AdjustCommit, FinalizeCommit
<1>3. QED BY <1>1, <1>2, StepKinds

\* A user is the nominator of fewer users, or of those createNominations adds.
LEMMA NominatedStep ==
    ASSUME TypeOK, [Next]_vars, NEW c \in Cycle, NEW u \in User
    PROVE  \/ NominatedBy(c, u)' \subseteq NominatedBy(c, u)
           \/ \E r \in Request :
                /\ request[r].op = "nominateCounted" /\ request[r].cycle = c /\ request[r].by = u
                /\ NominatedBy(c, u)' = NominatedBy(c, u) \cup request[r].nominees
<1>0. /\ nomination \in [Cycle -> [Pair -> NominationStatus \cup {Nil}]]
      /\ request \in [Request -> InFlight] /\ \A v \in User : <<u, v>> \in Pair
  BY DEF TypeOK, RowsOK, Pair
<1>1. ASSUME NEW r \in Request, NominateCommit(r)
      PROVE  \/ NominatedBy(c, u)' \subseteq NominatedBy(c, u)
             \/ /\ request[r].op = "nominateCounted" /\ request[r].cycle = c /\ request[r].by = u
                /\ NominatedBy(c, u)' = NominatedBy(c, u) \cup request[r].nominees
  <2>1. request[r].op = "nominateCounted" /\ request[r].cycle \in Cycle /\ request[r].nominees \subseteq User
    BY <1>0, <1>1, RequestFields DEF NominateCommit
  <2>2. \A p \in Pair : nomination'[c][p] =
          IF c = request[r].cycle /\ p[1] = request[r].by /\ p[2] \in request[r].nominees
          THEN "PENDING" ELSE nomination[c][p]
    BY <1>0, <1>1, <2>1 DEF NominateCommit
  <2>3. \A v \in User : nomination'[c][<<u, v>>] =
          IF c = request[r].cycle /\ u = request[r].by /\ v \in request[r].nominees
          THEN "PENDING" ELSE nomination[c][<<u, v>>]
    BY <1>0, <2>2
  <2>4. "PENDING" # Nil
    BY NilAssumption DEF NominationStatus
  <2>5. CASE c = request[r].cycle /\ u = request[r].by
    BY <2>1, <2>3, <2>4, <2>5 DEF NominatedBy
  <2>6. CASE ~(c = request[r].cycle /\ u = request[r].by)
    BY <2>3, <2>6 DEF NominatedBy
  <2>7. QED BY <2>5, <2>6
<1>2. ASSUME NEW r \in Request, ApproveCommit(r) \/ BulkApproveCommit(r) \/ RejectCommit(r)
      PROVE  NominatedBy(c, u)' \subseteq NominatedBy(c, u)
  <2>1. \A p \in Pair : nomination'[c][p] # Nil => nomination[c][p] # Nil
    BY <1>0, <1>2, NilAssumption
    DEF ApproveCommit, BulkApproveCommit, RejectCommit, ApproveTransaction, NominationStatus
  <2>2. QED BY <1>0, <2>1 DEF NominatedBy
<1>3. ASSUME NEW r \in Request, RemoveCycleCommit(r)
      PROVE  NominatedBy(c, u)' \subseteq NominatedBy(c, u)
  <2>1. \A p \in Pair : nomination'[c][p] # Nil => nomination[c][p] # Nil
    BY <1>0, <1>3 DEF RemoveCycleCommit
  <2>2. QED BY <1>0, <2>1 DEF NominatedBy
<1>4. UNCHANGED nomination => NominatedBy(c, u)' \subseteq NominatedBy(c, u)
  BY DEF NominatedBy
<1>5. QED BY <1>1, <1>2, <1>3, <1>4, NominationSteps

\* From a counted request there is no way on but to write, or to fail.
LEMMA CountedEnds ==
    ASSUME TypeOK, NEW x \in Request, request[x].op = "nominateCounted",
           CycleStep(x) \/ PeerStep(x) \/ CalibrationStep(x) \/ Fail(x)
    PROVE  request'[x].op = "idle"
<1>0. request \in [Request -> InFlight] /\ request[x] # Idle
  BY DEF TypeOK, Idle
<1>1. ~CycleStep(x)
  BY <1>0 DEF CycleStep, Begin, UpdateTemplateRead, UpdateTemplateCommit,
     RemoveTemplateRead, RemoveTemplateCommit, CreateCycleRead, CreateCycleCommit,
     UpdateCycleRead, UpdateCycleCommit, RemoveCycleRead, RemoveCycleCommit, ActivateRead,
     ActivateLoad, ActivateCommit, ActivateNotify, CalibrateRead, CalibrateCommit,
     CompleteRead, CompleteCheck, CompleteCommit
<1>2. ~CalibrationStep(x)
  BY <1>0 DEF CalibrationStep, Begin, CreateSessionRead, CreateSessionLoad, CreateSessionCommit,
     AdjustRead, AdjustCommit, FinalizeRead, FinalizeCommit
<1>3. PeerStep(x) => NominateCommit(x)
  BY <1>0 DEF PeerStep, Begin, SubmitReviewRead, SubmitReviewCommit, NominateRead, NominateCount,
     ApproveRead, ApproveCommit, RejectRead, RejectCommit, BulkApproveRead, BulkApproveNext,
     BulkApproveCommit, OverdueRead, OverdueMark
<1>4. End(x) => request'[x].op = "idle"
  BY <1>0 DEF End, Idle
<1>5. QED BY <1>1, <1>2, <1>3, <1>4 DEF NominateCommit, Fail

Counted(q) ==
    q.op = "nominateCounted" =>
        Cardinality(NominatedBy(q.cycle, q.by)) + Cardinality(q.nominees) <= MaxNominations

LEMMA NominationStays ==
    ASSUME \A r, s \in Request : r = s, IsFiniteSet(User), TypeOK, NominationInv, [Next]_vars
    PROVE  NominationInv'
<1>0. /\ NominationLimit /\ (\A r \in Request : Counted(request[r]))
      /\ request \in [Request -> InFlight] /\ MaxNominations \in Nat
      /\ nomination \in [Cycle -> [Pair -> NominationStatus \cup {Nil}]]
  BY StoreAssumption DEF NominationInv, Counted, TypeOK, RowsOK
<1>1. \A S \in SUBSET User : IsFiniteSet(S) /\ Cardinality(S) \in Nat
  BY FS_Subset, FS_CardinalityType
<1>2. ASSUME NEW c \in Cycle, NEW u \in User
      PROVE  Cardinality(NominatedBy(c, u)') <= MaxNominations
  <2>1. NominatedBy(c, u) \subseteq User /\ NominatedBy(c, u)' \subseteq User
    BY DEF NominatedBy
  <2>2. CASE NominatedBy(c, u)' \subseteq NominatedBy(c, u)
    <3>1. Cardinality(NominatedBy(c, u)') <= Cardinality(NominatedBy(c, u))
      BY <1>1, <2>1, <2>2, FS_Subset
    <3>2. QED BY <1>0, <1>1, <2>1, <3>1 DEF NominationLimit
  <2>3. ASSUME NEW r \in Request,
               request[r].op = "nominateCounted" /\ request[r].cycle = c /\ request[r].by = u,
               NominatedBy(c, u)' = NominatedBy(c, u) \cup request[r].nominees
        PROVE  Cardinality(NominatedBy(c, u)') <= MaxNominations
    <3>1. request[r].nominees \subseteq User
      BY <1>0, <2>3, RequestFields
    <3>2. Cardinality(NominatedBy(c, u)) + Cardinality(request[r].nominees) <= MaxNominations
      BY <1>0, <2>3 DEF Counted
    <3>3. /\ Cardinality(NominatedBy(c, u)') = Cardinality(NominatedBy(c, u))
               + Cardinality(request[r].nominees) - Cardinality(NominatedBy(c, u) \cap request[r].nominees)
          /\ Cardinality(NominatedBy(c, u) \cap request[r].nominees) \in Nat
      BY <1>1, <2>1, <2>3, <3>1, FS_Union
    <3>4. QED BY <1>0, <1>1, <2>1, <3>1, <3>2, <3>3
  <2>4. QED BY <2>2, <2>3, NominatedStep
<1>3. ASSUME NEW x \in Request PROVE Counted(request[x])'
  <2>1. CASE UNCHANGED vars \/ \E t \in Template : CreateTemplate(t)
    BY <1>0, <2>1 DEF vars, CreateTemplate, Counted, NominatedBy
  <2>2. CASE \E r \in Request : CycleStep(r) \/ PeerStep(r) \/ CalibrationStep(r) \/ Fail(r)
    <3>1. CycleStep(x) \/ PeerStep(x) \/ CalibrationStep(x) \/ Fail(x)
      BY <2>2
    <3>2. CASE NominateCount(x)
      <4>1. /\ request'[x] = [op |-> "nominateCounted", cycle |-> request[x].cycle,
                              by |-> request[x].by, nominees |-> request[x].nominees]
            /\ UNCHANGED nomination
            /\ Cardinality(NominatedBy(request[x].cycle, request[x].by))
                 + Cardinality(request[x].nominees) <= MaxNominations
        BY <1>0, <3>2 DEF NominateCount, Await, rows
      <4>2. QED BY <4>1 DEF Counted, NominatedBy
    <3>3. CASE request'[x].op = "nominateCounted" /\ ~NominateCount(x)
      <4>1. request'[x] = request[x]
        <5>1. /\ \A q : Await(x, q) => request'[x] = q
              /\ \A op, q : Begin(x, op, q) => request'[x] = q
          BY <1>0 DEF Await, Begin
        <5>2. ASSUME NEW t \in Template, NEW ex \in ExclusionLists, CreateCycleRead(x, t, ex)
              PROVE  FALSE
          BY <3>3, <5>1, <5>2 DEF CreateCycleRead
        <5>3. ASSUME NEW c \in Cycle, NEW t \in Template \cup {Nil},
                     NEW ex \in ExclusionLists \cup {Nil}, UpdateCycleRead(x, c, t, ex)
              PROVE  FALSE
          BY <3>3, <5>1, <5>3 DEF UpdateCycleRead
        <5>4. ASSUME NEW c \in Cycle, ActivateRead(x, c) \/ CalibrateRead(x, c) \/ CompleteRead(x, c)
              PROVE  FALSE
          BY <3>3, <5>1, <5>4 DEF ActivateRead, CalibrateRead, CompleteRead
        <5>5. ~(ActivateLoad(x) \/ ActivateCommit(x) \/ CompleteCheck(x) \/ CreateSessionLoad(x))
          BY <3>3, <5>1 DEF ActivateLoad, ActivateCommit, CompleteCheck, CreateSessionLoad
        <5>6. ASSUME NEW c \in Cycle, NEW u \in User, NEW S \in SUBSET User, NominateRead(x, c, u, S)
              PROVE  FALSE
          BY <3>3, <5>1, <5>6 DEF NominateRead
        <5>7. ASSUME NEW c \in Cycle, NEW scope \in SUBSET User, CreateSessionRead(x, c, scope)
              PROVE  FALSE
          BY <3>3, <5>1, <5>7 DEF CreateSessionRead
        <5>8. QED BY <3>3, <5>2, <5>3, <5>4, <5>5, <5>6, <5>7, RequestStep
      <4>2. QED BY <3>1, <3>3, <4>1, CountedEnds
    <3>4. QED BY <3>2, <3>3 DEF Counted
  <2>3. QED BY <2>1, <2>2 DEF Next
<1>4. QED BY <1>2, <1>3 DEF NominationInv, NominationLimit, Counted, NominatedBy

\* NominationLimit: createNominations counts before it writes, "You can only
\* nominate a maximum of 3 peers per cycle".
THEOREM NominationsAreLimited ==
    ASSUME \A r, s \in Request : r = s, IsFiniteSet(User)
    PROVE  Spec => []NominationLimit
<1>1. Init => NominationInv
  <2> SUFFICES ASSUME Init PROVE NominationInv
    OBVIOUS
  <2>1. ASSUME NEW c \in Cycle, NEW u \in User PROVE Cardinality(NominatedBy(c, u)) = 0
    <3>1. NominatedBy(c, u) = {}
      BY DEF Init, StoreInit, NominatedBy, Pair
    <3>2. QED BY <3>1, FS_EmptySet
  <2>2. MaxNominations \in Nat
    BY StoreAssumption
  <2>3. \A r \in Request : request[r].op = "idle"
    BY DEF Init, StoreInit, Idle
  <2>4. QED BY <2>1, <2>2, <2>3 DEF NominationInv, NominationLimit
<1>2. TypeOK /\ NominationInv /\ [Next]_vars => NominationInv'
  BY NominationStays
<1>3. NominationInv => NominationLimit
  BY DEF NominationInv
<1>4. QED BY <1>1, <1>2, <1>3, TypeCorrect, PTL DEF Spec

----------------------------------------------------------------------------
(* The lifecycle: the handlers called one at a time implement              *)
(* ReviewLifecycle.                                                        *)

Stages == [c \in Cycle |-> StageOf(cycle[c].status)]
Asks == [c \in Cycle |-> cycle[c].snapshot]
Answers == [c \in Cycle |-> [p \in Pair |-> AnswerOf(review[c][p])]]
Results == [u \in User |-> ResultOf(performance[u])]

\* The status of a cycle changes as the checks of the handlers allow.
LEMMA StageStep ==
    ASSUME SerialInv, [Next]_vars, NEW c \in Cycle, cycle'[c].status # cycle[c].status
    PROVE  \/ cycle[c].status = "UNBORN" /\ cycle'[c].status = "DRAFT"
           \/ cycle[c].status = "DRAFT" /\ cycle'[c].status = "DELETED"
           \/ cycle[c].status = "DRAFT" /\ cycle'[c].status = "ACTIVE"
           \/ cycle[c].status = "ACTIVE" /\ cycle'[c].status = "CALIBRATING"
           \/ cycle[c].status = "CALIBRATING" /\ cycle'[c].status = "COMPLETED"
<1>1. TypeOK /\ \A r \in Request : CycleStillChecked(request[r])
  BY DEF SerialInv, LaunchInv
<1>2. cycle'[c] # cycle[c]
  OBVIOUS
<1>3. \/ cycle[c].status = "UNBORN" /\ cycle'[c].status = "DRAFT"
      \/ \E r \in Request :
           /\ request[r].cycle = c
           /\ \/ request[r].op = "removeCycle" /\ cycle'[c].status = "DELETED"
              \/ request[r].op = "activateLoaded" /\ cycle'[c].status = "ACTIVE"
              \/ request[r].op = "calibrate" /\ cycle'[c].status = "CALIBRATING"
              \/ request[r].op = "completeChecked" /\ cycle'[c].status = "COMPLETED"
  BY <1>1, <1>2, CycleRowStep
<1>4. QED BY <1>1, <1>3 DEF CycleStillChecked

\* A nomination comes by createNominations, in a cycle that has been launched.
LEMMA NominationComes ==
    ASSUME SerialInv, [Next]_vars, NEW c \in Cycle, NEW p \in Pair,
           nomination'[c][p] # Nil, nomination[c][p] = Nil
    PROVE  cycle'[c].status \in Launched
<1>0. /\ nomination \in [Cycle -> [Pair -> NominationStatus \cup {Nil}]]
      /\ request \in [Request -> InFlight] /\ cycle \in [Cycle -> CycleRow]
      /\ \A r \in Request : RemembersLaunch(request[r])
  BY DEF SerialInv, LaunchInv, TypeOK, RowsOK
<1>1. ASSUME NEW r \in Request, NominateCommit(r) PROVE cycle'[c].status \in Launched
  <2>1. request[r].cycle = c
    BY <1>0, <1>1 DEF NominateCommit
  <2>2. Started(c) /\ cycle[c].status # "DELETED" /\ UNCHANGED cycle
    BY <1>0, <1>1, <2>1 DEF NominateCommit, RemembersLaunch
  <2>3. QED BY <2>2 DEF Started
<1>2. ASSUME NEW r \in Request, ApproveCommit(r) \/ BulkApproveCommit(r) \/ RejectCommit(r)
      PROVE  FALSE
  BY <1>0, <1>2 DEF ApproveCommit, BulkApproveCommit, RejectCommit, ApproveTransaction
<1>3. ASSUME NEW r \in Request, RemoveCycleCommit(r) PROVE FALSE
  BY <1>0, <1>3 DEF RemoveCycleCommit
<1>4. QED BY <1>1, <1>2, <1>3, NominationSteps

LEMMA RowsKeepStage ==
    ASSUME SerialInv, RowsMatchStage, [Next]_vars
    PROVE  RowsMatchStage'
<1>0. /\ TypeOK /\ SessionsStarted
      /\ \A r \in Request : CycleStillChecked(request[r]) /\ RowsStillChecked(request[r])
  BY DEF SerialInv, LaunchInv
<1>1. ASSUME NEW s \in Session, SessionExists(s)'
      PROVE  cycle'[session'[s].cycle].status \in {"CALIBRATING", "COMPLETED"}
  <2>1. CASE session'[s] = session[s]
    <3>1. /\ SessionExists(s) /\ session[s].cycle \in Cycle
          /\ cycle[session[s].cycle].status \in {"CALIBRATING", "COMPLETED"}
      BY <1>0, <1>1, <2>1 DEF RowsMatchStage, SessionExists, SessionsStarted
    <3>2. CASE cycle'[session[s].cycle].status = cycle[session[s].cycle].status
      BY <2>1, <3>1, <3>2
    <3>3. CASE cycle'[session[s].cycle].status # cycle[session[s].cycle].status
      BY <2>1, <3>1, <3>3, StageStep
    <3>4. QED BY <3>2, <3>3
  <2>2. CASE session'[s] # session[s]
    <3>1. PICK r \in Request :
            /\ UNCHANGED cycle
            /\ \/ request[r].op = "createSessionLoaded" /\ session'[s].cycle = request[r].cycle
               \/ /\ request[r].op \in {"adjust", "finalize"} /\ request[r].session = s
                  /\ session'[s].cycle = session[s].cycle
      BY <1>0, <1>1, <2>2, SessionRowStep DEF SessionExists
    <3>2. CASE request[r].op = "createSessionLoaded" /\ session'[s].cycle = request[r].cycle
      BY <1>0, <3>1, <3>2 DEF CycleStillChecked
    <3>3. CASE /\ request[r].op \in {"adjust", "finalize"} /\ request[r].session = s
               /\ session'[s].cycle = session[s].cycle
      BY <1>0, <3>1, <3>3 DEF RowsStillChecked, RowsMatchStage, SessionExists
    <3>4. QED BY <3>1, <3>2, <3>3
  <2>3. QED BY <2>1, <2>2
<1>2. ASSUME NEW c \in Cycle, NEW p \in Pair, nomination'[c][p] # Nil
      PROVE  cycle'[c].status \in Launched
  <2>1. CASE nomination[c][p] = Nil
    BY <1>2, <2>1, NominationComes
  <2>2. CASE nomination[c][p] # Nil
    <3>1. cycle[c].status \in Launched
      BY <2>2 DEF RowsMatchStage
    <3>2. CASE cycle'[c].status = cycle[c].status
      BY <3>1, <3>2
    <3>3. CASE cycle'[c].status # cycle[c].status
      BY <3>1, <3>3, StageStep DEF Launched
    <3>4. QED BY <3>2, <3>3
  <2>3. QED BY <2>1, <2>2
<1>3. QED BY <1>1, <1>2 DEF RowsMatchStage, SessionExists

\* How a step looks from the lifecycle, cycle by cycle and user by user.
LEMMA MovesOne ==
    ASSUME NEW c \in Cycle, NEW to, StageOf(cycle[c].status)' = to,
           \A d \in Cycle \ {c} : cycle'[d] = cycle[d]
    PROVE  Lifecycle!Move(c, StageOf(cycle[c].status), to)
<1>1. Stages[c] = StageOf(cycle[c].status)
  BY DEF Stages
<1>2. Stages' = [Stages EXCEPT ![c] = to]
  BY DEF Stages
<1>3. QED BY <1>1, <1>2 DEF Lifecycle!Move, Stages

LEMMA SameStages ==
    ASSUME \A c \in Cycle : cycle'[c].status = cycle[c].status
    PROVE  Stages' = Stages
BY DEF Stages

LEMMA SameAsks ==
    ASSUME \A c \in Cycle : cycle'[c].snapshot = cycle[c].snapshot
    PROVE  Asks' = Asks
BY DEF Asks

LEMMA SameAnswers ==
    ASSUME \A c \in Cycle : \A p \in Pair : AnswerOf(review[c][p])' = AnswerOf(review[c][p])
    PROVE  Answers' = Answers
BY DEF Answers

LEMMA SameResults ==
    ASSUME UNCHANGED performance
    PROVE  Results' = Results
BY DEF Results, ResultOf

LEMMA SameReviews ==
    ASSUME UNCHANGED review
    PROVE  Answers' = Answers
BY DEF Answers, AnswerOf

\* What the lemmas below use of the invariant.
LEMMA SerialFacts ==
    ASSUME SerialInv
    PROVE  /\ cycle \in [Cycle -> CycleRow] /\ review \in [Cycle -> [Pair -> ReviewRow \cup {Nil}]]
           /\ performance \in [User -> PerformanceRow] /\ session \in [Session -> SessionRow]
           /\ nomination \in [Cycle -> [Pair -> NominationStatus \cup {Nil}]]
           /\ request \in [Request -> InFlight] /\ TypeOK
           /\ \A r \in Request : CycleStillChecked(request[r]) /\ RowsStillChecked(request[r])
BY DEF SerialInv, LaunchInv, TypeOK, RowsOK

\* createCycle begins a cycle, and removeCycle ends a draft, which has no
\* reviews and published nothing.
LEMMA CreateDrafts ==
    ASSUME SerialInv, NEW r \in Request, NEW c \in Cycle, CreateCycleCommit(r, c)
    PROVE  Lifecycle!Draft(c)
<1>1. /\ cycle[c].status = "UNBORN" /\ cycle'[c].status = "DRAFT" /\ cycle'[c].snapshot = Nil
      /\ \A d \in Cycle \ {c} : cycle'[d] = cycle[d]
      /\ UNCHANGED <<review, performance>>
  BY SerialFacts DEF CreateCycleCommit
<1>2. cycle[c].snapshot = Nil
  BY <1>1 DEF SerialInv, LaunchInv, UnlaunchedOwnsNothing, Started, Launched
<1>3. Lifecycle!Move(c, "none", "draft")
  BY <1>1, MovesOne DEF StageOf
<1>4. Asks' = Asks /\ Answers' = Answers /\ Results' = Results
  BY <1>1, <1>2, SameAsks, SameReviews, SameResults
<1>5. QED BY <1>3, <1>4 DEF Lifecycle!Draft, Asks, Answers, Results

LEMMA RemovalDrops ==
    ASSUME SerialInv, RowsMatchStage, NEW r \in Request, RemoveCycleCommit(r)
    PROVE  \E c \in Cycle : Lifecycle!Drop(c)
<1> DEFINE c == request[r].cycle
<1>1. c \in Cycle /\ cycle[c].status = "DRAFT"
  BY SerialFacts, RequestFields DEF RemoveCycleCommit, CycleStillChecked
<1>2. /\ cycle' = [cycle EXCEPT ![c].status = "DELETED"]
      /\ review' = [review EXCEPT ![c] = [p \in Pair |-> Nil]]
      /\ performance' = [u \in User |->
             IF performance[u].lastReviewCycle = c
             THEN [performance[u] EXCEPT !.lastReviewCycle = Nil] ELSE performance[u]]
  BY DEF RemoveCycleCommit
<1> HIDE DEF c
<1>3. /\ cycle'[c].status = "DELETED" /\ cycle'[c].snapshot = cycle[c].snapshot
      /\ \A d \in Cycle \ {c} : cycle'[d] = cycle[d]
  BY <1>1, <1>2, SerialFacts DEF CycleRow
<1>4. \A p \in Pair : review[c][p] = Nil
  BY <1>1 DEF SerialInv, LaunchInv, UnlaunchedOwnsNothing, Started, Launched
<1>5. \A d \in Cycle : \A p \in Pair : review'[d][p] = review[d][p]
  BY <1>1, <1>2, <1>4, SerialFacts
<1>6. ASSUME NEW u \in User PROVE performance[u].lastReviewCycle # c
  <2>1. ASSUME performance[u].lastReviewCycle = c PROVE FALSE
    <3>1. c # Nil
      BY <1>1, NilAssumption
    <3>2. PICK s \in SessionsOf(c, "finalized") : TRUE
      BY <2>1, <3>1 DEF SerialInv, PublishedScoresStand
    <3>3. s \in Session /\ session[s].cycle = c /\ SessionExists(s)
      BY <3>2 DEF SessionsOf, SessionExists
    <3>4. QED BY <1>1, <3>3 DEF RowsMatchStage
  <2>2. QED BY <2>1
<1>7. performance' = performance
  BY <1>2, <1>6, SerialFacts
<1>8. Lifecycle!Move(c, "draft", "dropped")
  BY <1>1, <1>3, MovesOne DEF StageOf
<1>9. Asks' = Asks /\ Answers' = Answers /\ Results' = Results
  BY <1>3, <1>5, <1>7, SameAsks, SameAnswers, SameResults DEF AnswerOf
<1>10. QED BY <1>1, <1>8, <1>9 DEF Lifecycle!Drop, Asks, Answers, Results

\* activateCycle fixes the questions and opens the reviews of the roster.
LEMMA ActivationLaunches ==
    ASSUME SerialInv, NEW r \in Request, ActivateCommit(r)
    PROVE  \E c \in Cycle : Lifecycle!Launch(c)
<1> DEFINE q == request[r]
           c == q.cycle
<1>1. c \in Cycle /\ q.snapshot \in Contents /\ cycle[c].status = "DRAFT"
  BY SerialFacts, RequestFields DEF ActivateCommit, CycleStillChecked
<1>2. /\ review' = [review EXCEPT ![c] =
             [p \in Pair |-> IF p \in AssignedPairs(q.eligible) THEN NewReview("ASSIGNED") ELSE @[p]]]
      /\ cycle' = [cycle EXCEPT ![c].status = "ACTIVE", ![c].snapshot = q.snapshot]
      /\ UNCHANGED performance
  BY DEF ActivateCommit
<1> HIDE DEF c
<1>3. /\ cycle'[c].status = "ACTIVE" /\ cycle'[c].snapshot = q.snapshot
      /\ \A d \in Cycle \ {c} : cycle'[d] = cycle[d] /\ review'[d] = review[d]
  BY <1>1, <1>2, SerialFacts DEF CycleRow
<1>4. ASSUME NEW p \in Pair PROVE AnswerOf(review'[c][p]) \in {"none", "open"}
  <2>1. review[c][p] = Nil
    BY <1>1 DEF SerialInv, LaunchInv, UnlaunchedOwnsNothing, Started, Launched
  <2>2. review'[c][p] \in {Nil, NewReview("ASSIGNED")}
    BY <1>1, <1>2, <2>1, SerialFacts
  <2>3. QED BY <2>2 DEF AnswerOf, NewReview
<1>5. Lifecycle!Move(c, "draft", "active")
  BY <1>1, <1>3, MovesOne DEF StageOf
<1>6. Asks'[c] \in Contents /\ Asks' = [Asks EXCEPT ![c] = Asks'[c]]
  BY <1>1, <1>3 DEF Asks
<1>7. Answers'[c] \in [Pair -> {"none", "open"}]
  BY <1>1, <1>4 DEF Answers
<1>8. Answers' = [Answers EXCEPT ![c] = Answers'[c]]
  BY <1>1, <1>3 DEF Answers
<1>9. Results' = Results
  BY <1>2, SameResults
<1>10. QED BY <1>1, <1>5, <1>6, <1>7, <1>8, <1>9 DEF Lifecycle!Launch, Asks, Answers, Results

LEMMA CalibrationBegins ==
    ASSUME SerialInv, NEW r \in Request, CalibrateCommit(r)
    PROVE  \E c \in Cycle : Lifecycle!Calibrate(c)
<1> DEFINE c == request[r].cycle
<1>1. c \in Cycle /\ cycle[c].status = "ACTIVE"
  BY SerialFacts, RequestFields DEF CalibrateCommit, CycleStillChecked
<1>2. cycle' = [cycle EXCEPT ![c].status = "CALIBRATING"] /\ UNCHANGED <<review, performance>>
  BY DEF CalibrateCommit
<1> HIDE DEF c
<1>3. /\ cycle'[c].status = "CALIBRATING" /\ cycle'[c].snapshot = cycle[c].snapshot
      /\ \A d \in Cycle \ {c} : cycle'[d] = cycle[d]
  BY <1>1, <1>2, SerialFacts DEF CycleRow
<1>4. Lifecycle!Move(c, "active", "calibrating")
  BY <1>1, <1>3, MovesOne DEF StageOf
<1>5. Asks' = Asks /\ Answers' = Answers /\ Results' = Results
  BY <1>2, <1>3, SameAsks, SameReviews, SameResults
<1>6. QED BY <1>1, <1>4, <1>5 DEF Lifecycle!Calibrate, Asks, Answers, Results

\* A score that was written is one of cycle c, or the user keeps what they had.
LEMMA ScoresOne ==
    ASSUME NEW c \in Cycle,
           \A u \in User : \/ performance'[u] = performance[u]
                           \/ /\ performance'[u].lastReviewCycle = c
                              /\ performance'[u].reviewScore \in CalibratedScore
    PROVE  Lifecycle!Scored(c)
<1>1. \A u \in User : Results'[u] \in {Results[u]} \cup ({c} \X CalibratedScore)
  <2>1. c # Nil
    BY NilAssumption
  <2>2. QED BY <2>1 DEF Results, ResultOf
<1>2. Results' = [u \in User |-> Results'[u]]
  BY DEF Results
<1>3. QED BY <1>1, <1>2 DEF Lifecycle!Scored, Results

\* completeCycle publishes what the finalized sessions of the cycle say, and
\* none of them misses a score.
LEMMA CompletionPublishes ==
    ASSUME SerialInv, NEW r \in Request, CompleteCommit(r)
    PROVE  \E c \in Cycle : Lifecycle!Complete(c)
<1> DEFINE c == request[r].cycle
           finalized == SessionsOf(c, "finalized")
           scored == {u \in User : \E s \in finalized : u \in DOMAIN session[s].scores}
<1>1. c \in Cycle /\ cycle[c].status = "CALIBRATING"
  BY SerialFacts, RequestFields DEF CompleteCommit, CycleStillChecked
<1>2. /\ cycle' = [cycle EXCEPT ![c].status = "COMPLETED"] /\ UNCHANGED review
      /\ \E last \in [scored -> finalized] :
           /\ \A u \in scored : u \in DOMAIN session[last[u]].scores
           /\ performance' = [u \in User |->
                  IF u \in scored
                  THEN [reviewScore |-> session[last[u]].scores[u], lastReviewCycle |-> c]
                  ELSE performance[u]]
  BY DEF CompleteCommit
<1> HIDE DEF c, scored, finalized
<1>3. /\ cycle'[c].status = "COMPLETED" /\ cycle'[c].snapshot = cycle[c].snapshot
      /\ \A d \in Cycle \ {c} : cycle'[d] = cycle[d]
  BY <1>1, <1>2, SerialFacts DEF CycleRow
<1>4. ASSUME NEW s \in finalized, NEW u \in DOMAIN session[s].scores
      PROVE  session[s].scores[u] \in CalibratedScore
  <2>1. s \in Session /\ session[s].status = "finalized"
    BY <1>4 DEF finalized, SessionsOf
  <2>2. session[s].scores[u] # Nil
    BY <1>4, <2>1 DEF SerialInv, FinalizedIsScored
  <2>3. session[s].scores \in Scores
    BY <2>1, SerialFacts DEF SessionRow
  <2>4. QED BY <1>4, <2>2, <2>3 DEF Scores
<1>5. PICK last \in [scored -> finalized] :
           /\ \A u \in scored : u \in DOMAIN session[last[u]].scores
           /\ performance' = [u \in User |->
                  IF u \in scored
                  THEN [reviewScore |-> session[last[u]].scores[u], lastReviewCycle |-> c]
                  ELSE performance[u]]
  BY <1>2
<1>6. ASSUME NEW u \in User
      PROVE  \/ performance'[u] = performance[u]
             \/ /\ performance'[u].lastReviewCycle = c
                /\ performance'[u].reviewScore \in CalibratedScore
  <2>1. CASE u \in scored
    <3>1. last[u] \in finalized /\ u \in DOMAIN session[last[u]].scores
      BY <1>5, <2>1
    <3>2. session[last[u]].scores[u] \in CalibratedScore
      BY <1>4, <3>1
    <3>3. performance'[u] = [reviewScore |-> session[last[u]].scores[u], lastReviewCycle |-> c]
      BY <1>5, <2>1
    <3>4. QED BY <3>2, <3>3
  <2>2. CASE u \notin scored
    BY <1>5, <2>2
  <2>3. QED BY <2>1, <2>2
<1>7. Lifecycle!Move(c, "calibrating", "completed")
  BY <1>1, <1>3, MovesOne DEF StageOf
<1>8. Lifecycle!Scored(c)
  BY <1>1, <1>6, ScoresOne
<1>9. Asks' = Asks /\ Answers' = Answers
  BY <1>2, <1>3, SameAsks, SameReviews
<1>10. QED BY <1>1, <1>7, <1>8, <1>9 DEF Lifecycle!Complete, Asks, Answers

\* finalizeSession publishes while its cycle calibrates: a completed cycle has
\* no session left in progress.
LEMMA FinalizingPublishes ==
    ASSUME SerialInv, RowsMatchStage, NEW r \in Request, FinalizeCommit(r)
    PROVE  \E c \in Cycle : Lifecycle!Publish(c)
<1> DEFINE q == request[r]
           s == q.session
           c == session[s].cycle
<1>1. /\ s \in Session /\ q.scores \in Scores /\ session[s].status = "in_progress"
      /\ \A u \in DOMAIN q.scores : q.scores[u] # Nil
  BY SerialFacts, RequestFields DEF FinalizeCommit, RowsStillChecked
<1>2. c \in Cycle /\ cycle[c].status \in {"CALIBRATING", "COMPLETED"}
  BY <1>1 DEF RowsMatchStage, SessionExists, SerialInv, LaunchInv, SessionsStarted
<1>3. cycle[c].status # "COMPLETED"
  <2>1. s \in SessionsOf(c, "in_progress")
    BY <1>1 DEF SessionsOf
  <2>2. QED BY <1>2, <2>1 DEF SerialInv, PublishedScoresStand
<1>4. /\ performance' = [u \in User |->
             IF u \in DOMAIN q.scores THEN [reviewScore |-> q.scores[u], lastReviewCycle |-> c]
             ELSE performance[u]]
      /\ UNCHANGED <<cycle, review>>
  BY DEF FinalizeCommit
<1> HIDE DEF c, s, q
<1>5. \A u \in DOMAIN q.scores : q.scores[u] \in CalibratedScore
  BY <1>1 DEF Scores
<1>6. Lifecycle!Scored(c)
  BY <1>2, <1>4, <1>5, ScoresOne
<1>7. Stages' = Stages /\ Asks' = Asks /\ Answers' = Answers
  BY <1>4, SameStages, SameAsks, SameReviews
<1>8. StageOf(cycle[c].status) = "calibrating"
  BY <1>2, <1>3 DEF StageOf
<1>9. QED BY <1>2, <1>6, <1>7, <1>8 DEF Lifecycle!Publish, Stages, Asks, Answers

\* One review that is answered, or comes, is one answer that changes.
LEMMA AnswersOne ==
    ASSUME NEW c \in Cycle, NEW p \in Pair, NEW to, AnswerOf(review'[c][p]) = to,
           \A d \in Cycle, x \in Pair : d # c \/ x # p => review'[d][x] = review[d][x]
    PROVE  Answers[c][p] = AnswerOf(review[c][p]) /\ Answers' = [Answers EXCEPT ![c][p] = to]
<1>1. \A d \in Cycle, x \in Pair : Answers[d][x] = AnswerOf(review[d][x])
  BY DEF Answers
<1>2. \A d \in Cycle \ {c} : Answers'[d] = Answers[d]
  BY DEF Answers
<1>3. Answers'[c] = [Answers[c] EXCEPT ![p] = to]
  BY DEF Answers
<1>4. DOMAIN Answers' = Cycle /\ Answers' = [d \in Cycle |-> Answers'[d]] /\ DOMAIN Answers = Cycle
  BY DEF Answers
<1> HIDE DEF Answers
<1>5. QED BY <1>1, <1>2, <1>3, <1>4

\* submitReview answers an open review of an active cycle.
LEMMA SubmissionAnswers ==
    ASSUME SerialInv, NEW r \in Request, SubmitReviewCommit(r)
    PROVE  \E c \in Cycle, p \in Pair : Lifecycle!Answer(c, p)
<1> DEFINE c == request[r].cycle
           p == request[r].pair
<1>1. /\ c \in Cycle /\ p \in Pair /\ cycle[c].status = "ACTIVE"
      /\ review[c][p] # Nil /\ review[c][p].status # "SUBMITTED"
  BY SerialFacts, RequestFields DEF SubmitReviewCommit, CycleStillChecked, RowsStillChecked
<1>2. /\ review' = [review EXCEPT ![c][p].status = "SUBMITTED", ![c][p].score = request[r].score]
      /\ UNCHANGED <<cycle, performance>>
  BY DEF SubmitReviewCommit
<1> HIDE DEF c, p
<1>3. review'[c][p] # Nil /\ review'[c][p].status = "SUBMITTED"
  <2>1. review[c][p] \in ReviewRow
    BY <1>1, SerialFacts
  <2>2. request[r].score \in Rating \cup {Nil}
    BY SerialFacts, RequestFields DEF SubmitReviewCommit
  <2>3. review'[c][p] = [review[c][p] EXCEPT !.status = "SUBMITTED", !.score = request[r].score]
    BY <1>1, <1>2, SerialFacts
  <2>4. review'[c][p] \in ReviewRow /\ review'[c][p].status = "SUBMITTED"
    BY <2>1, <2>2, <2>3 DEF ReviewRow
  <2>5. QED BY <2>4, NilAssumption
<1>4. \A d \in Cycle, x \in Pair : d # c \/ x # p => review'[d][x] = review[d][x]
  BY <1>1, <1>2, SerialFacts
<1>5. Answers[c][p] = "open" /\ Answers' = [Answers EXCEPT ![c][p] = "answered"]
  <2>1. AnswerOf(review[c][p]) = "open" /\ AnswerOf(review'[c][p]) = "answered"
    BY <1>1, <1>3 DEF AnswerOf
  <2>2. QED BY <1>1, <1>4, <2>1, AnswersOne
<1>6. StageOf(cycle[c].status) = "active"
  BY <1>1 DEF StageOf
<1>7. Stages' = Stages /\ Asks' = Asks /\ Results' = Results
  BY <1>2, SameStages, SameAsks, SameResults
<1>8. QED BY <1>1, <1>5, <1>6, <1>7 DEF Lifecycle!Answer, Stages, Asks, Answers, Results

\* An approval, single or in bulk, opens the one review it is about.
LEMMA ApprovalAdds ==
    ASSUME SerialInv, RowsMatchStage, NEW r \in Request, ApproveCommit(r) \/ BulkApproveCommit(r)
    PROVE  \E c \in Cycle, p \in Pair : Lifecycle!AddPeer(c, p)
<1> DEFINE c == request[r].cycle
           p == request[r].pair
           row == [type |-> "PEER", status |-> "PENDING", score |-> Nil]
<1>1. c \in Cycle /\ p \in Pair
  BY SerialFacts, RequestFields DEF ApproveCommit, BulkApproveCommit
<1>2. /\ nomination[c][p] # Nil /\ review[c][p] = Nil
      /\ review' = [review EXCEPT ![c][p] = row]
      /\ UNCHANGED <<cycle, performance>>
  BY DEF ApproveCommit, BulkApproveCommit, ApproveTransaction
<1>3. row \in ReviewRow /\ row.status = "PENDING"
  BY DEF ReviewRow
<1>4. AnswerOf(review[c][p]) = "none" /\ AnswerOf(row) = "open"
  BY <1>2, <1>3, NilAssumption DEF AnswerOf
<1> HIDE DEF c, p, row
<1>5. review'[c][p] = row /\ \A d \in Cycle, x \in Pair : d # c \/ x # p => review'[d][x] = review[d][x]
  BY <1>1, <1>2, SerialFacts
<1>6. Answers[c][p] = "none" /\ Answers' = [Answers EXCEPT ![c][p] = "open"]
  BY <1>1, <1>4, <1>5, AnswersOne
<1>7. StageOf(cycle[c].status) \in {"active", "calibrating", "completed"}
  BY <1>1, <1>2 DEF RowsMatchStage, Launched, StageOf
<1>8. Stages' = Stages /\ Asks' = Asks /\ Results' = Results
  BY <1>2, SameStages, SameAsks, SameResults
<1>9. QED BY <1>1, <1>6, <1>7, <1>8 DEF Lifecycle!AddPeer, Stages, Asks, Answers, Results

\* The rest is not seen: edits of drafts, notices, nominations, sessions that
\* open or change, and reviews that become overdue.
LEMMA RestIsUnseen ==
    ASSUME SerialInv, NEW r \in Request,
           \/ UpdateCycleCommit(r) \/ ActivateNotify(r) \/ NominateCommit(r) \/ RejectCommit(r)
           \/ \E s \in Session : CreateSessionCommit(r, s)
           \/ AdjustCommit(r) \/ \E c \in Cycle : OverdueMark(r, c)
    PROVE  Stages' = Stages /\ Asks' = Asks /\ Answers' = Answers /\ Results' = Results
<1>1. CASE UpdateCycleCommit(r)
  <2>1. UNCHANGED <<review, performance>>
    BY <1>1 DEF UpdateCycleCommit
  <2>2. \A c \in Cycle : cycle'[c].status = cycle[c].status /\ cycle'[c].snapshot = cycle[c].snapshot
    BY <1>1, SerialFacts DEF UpdateCycleCommit, CycleRow
  <2>3. QED BY <2>1, <2>2, SameStages, SameAsks, SameReviews, SameResults
<1>2. ASSUME NEW c \in Cycle, OverdueMark(r, c)
      PROVE  Stages' = Stages /\ Asks' = Asks /\ Answers' = Answers /\ Results' = Results
  <2> DEFINE late(row) == IF row # Nil /\ row.status = "PENDING"
                          THEN [row EXCEPT !.status = "OVERDUE"] ELSE row
  <2>1. UNCHANGED <<cycle, performance>>
    BY <1>2 DEF OverdueMark
  <2>2. review' = [review EXCEPT ![c] = [p \in Pair |-> late(review[c][p])]]
    BY <1>2 DEF OverdueMark
  <2>3. ASSUME NEW row \in ReviewRow \cup {Nil} PROVE AnswerOf(late(row)) = AnswerOf(row)
    <3>1. CASE row # Nil /\ row.status = "PENDING"
      <4>1. late(row) \in ReviewRow /\ late(row).status = "OVERDUE"
        BY <3>1 DEF ReviewRow
      <4>2. late(row) # Nil
        BY <4>1, NilAssumption
      <4>3. QED BY <3>1, <4>1, <4>2 DEF AnswerOf
    <3>2. CASE ~(row # Nil /\ row.status = "PENDING")
      BY <3>2
    <3>3. QED BY <3>1, <3>2
  <2> HIDE DEF late
  <2>4. ASSUME NEW d \in Cycle, NEW p \in Pair PROVE AnswerOf(review'[d][p]) = AnswerOf(review[d][p])
    <3>1. review'[d][p] \in {review[d][p], late(review[d][p])}
      BY <2>2, SerialFacts
    <3>2. review[d][p] \in ReviewRow \cup {Nil}
      BY SerialFacts
    <3>3. QED BY <2>3, <3>1, <3>2
  <2>5. QED BY <2>1, <2>4, SameStages, SameAsks, SameAnswers, SameResults DEF AnswerOf
<1>3. CASE \/ ActivateNotify(r) \/ NominateCommit(r) \/ RejectCommit(r)
           \/ \E s \in Session : CreateSessionCommit(r, s)
           \/ AdjustCommit(r)
  <2>1. UNCHANGED <<cycle, review, performance>>
    BY <1>3 DEF ActivateNotify, NominateCommit, RejectCommit, CreateSessionCommit, AdjustCommit
  <2>2. QED BY <2>1, SameStages, SameAsks, SameReviews, SameResults
<1>4. QED BY <1>1, <1>2, <1>3

LEMMA LifecycleInit == Init => RowsMatchStage /\ Lifecycle!Init
<1> SUFFICES ASSUME Init PROVE RowsMatchStage /\ Lifecycle!Init
  OBVIOUS
<1>1. RowsMatchStage
  BY DEF Init, StoreInit, RowsMatchStage, SessionExists
<1>2. /\ \A c \in Cycle : cycle[c].status = "UNBORN" /\ cycle[c].snapshot = Nil
      /\ \A c \in Cycle, p \in Pair : review[c][p] = Nil
      /\ \A u \in User : performance[u].lastReviewCycle = Nil
  BY DEF Init, StoreInit
<1>3. QED BY <1>1, <1>2 DEF Lifecycle!Init, StageOf, AnswerOf, ResultOf

LEMMA LifecycleStep ==
    ASSUME SerialInv, RowsMatchStage, [Next]_vars
    PROVE  [Lifecycle!Next]_<<Stages, Asks, Answers, Results>>
<1> DEFINE Seen == [Lifecycle!Next]_<<Stages, Asks, Answers, Results>>
<1>1. CASE UNCHANGED <<cycle, review, nomination, session, performance, notice>>
  BY <1>1, SameStages, SameAsks, SameReviews, SameResults
<1>2. ASSUME NEW r \in Request, NEW c \in Cycle, CreateCycleCommit(r, c) PROVE Seen
  BY <1>2, CreateDrafts DEF Lifecycle!Next
<1>3. ASSUME NEW r \in Request,
             RemoveCycleCommit(r) \/ ActivateCommit(r) \/ CalibrateCommit(r) \/ CompleteCommit(r)
      PROVE  Seen
  BY <1>3, RemovalDrops, ActivationLaunches, CalibrationBegins, CompletionPublishes DEF Lifecycle!Next
<1>4. ASSUME NEW r \in Request,
             SubmitReviewCommit(r) \/ ApproveCommit(r) \/ BulkApproveCommit(r) \/ FinalizeCommit(r)
      PROVE  Seen
  BY <1>4, SubmissionAnswers, ApprovalAdds, FinalizingPublishes DEF Lifecycle!Next
<1>5. ASSUME NEW r \in Request,
             \/ UpdateCycleCommit(r) \/ ActivateNotify(r) \/ NominateCommit(r) \/ RejectCommit(r)
             \/ \E s \in Session : CreateSessionCommit(r, s)
             \/ AdjustCommit(r) \/ \E c \in Cycle : OverdueMark(r, c)
      PROVE  Seen
  BY <1>5, RestIsUnseen
<1>6. QED BY <1>1, <1>2, <1>3, <1>4, <1>5, StepKinds

\* FollowsLifecycle: with one request at a time, every step of every handler
\* is a step of ReviewLifecycle or is not seen in it.
THEOREM ReviewsFollowLifecycle ==
    ASSUME \A r, s \in Request : r = s
    PROVE  Spec => FollowsLifecycle
<1>1. Init => Lifecycle!Init /\ RowsMatchStage
  BY LifecycleInit
<1>2. SerialInv /\ RowsMatchStage /\ [Next]_vars => RowsMatchStage'
  BY RowsKeepStage
<1>3. SerialInv /\ RowsMatchStage /\ [Next]_vars
        => [Lifecycle!Next]_<<Stages, Asks, Answers, Results>>
  BY LifecycleStep
<1>4. QED
  BY <1>1, <1>2, <1>3, Serially, PTL
  DEF Spec, FollowsLifecycle, Lifecycle!Spec, Lifecycle!vars, Stages, Asks, Answers, Results
=============================================================================
