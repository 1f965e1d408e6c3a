-------------------------- MODULE ComplaintProofs --------------------------
(* Theorems about Complaints, for any users, complaints, requests, bounds.  *)
EXTENDS Complaints, FiniteSetTheorems, TLAPS

\* What a status change has checked of a row, or of what has become of it.
Allows(row, status) == row # Nil /\ (row \notin NoRow => status \in ValidTransitions(row.status))

\* An unfinished status change is the only one, and is still one of the table.
Stands(r, q) ==
    q.op = "update" => "update" \in load.ops[r] /\ Allows(complaint[q.complaint], q.status)

UpdatesStand == \A r \in Request : Stands(r, request[r])

\* What the cron has marked it still finds when it reads it back.
MarkedAreFresh ==
    \A c \in lateRun : complaint[c] # Nil /\ (Exists(c) => complaint[c].old /\ complaint[c].age = 0)

\* How often a lateness was announced, by its age: not before the run that marks
\* it reads it back, and not by more than one run in each of its first two ticks.
Counted(row, n, marked, running) ==
    /\ n \in 0..2
    /\ row = Nil => n = 0
    /\ row \notin NoRow /\ row.status # "LATE" => n = 0
    /\ row \notin NoRow /\ row.status = "LATE" =>
         /\ row.age = 0 => n <= 1 /\ (running => marked /\ n = 0)
         /\ row.age = 1 /\ running => n <= 1

AnnouncementsCount ==
    \A c \in Complaint : Counted(complaint[c], announced[c], c \in lateRun, lateRun # {})

IInv ==
    /\ complaint \in [Complaint -> ComplaintRow \cup NoRow]
    /\ lateRun \in SUBSET Complaint
    /\ request \in [Request -> InFlight]
    /\ load \in Load
    /\ announced \in [Complaint -> Nat]
    /\ UpdatesStand /\ MarkedAreFresh /\ LateIsAnnounced /\ AnnouncementsCount

Stages == [c \in Complaint |-> StageOf(complaint[c])]

LEMMA RowsAreRows ==
    /\ \A row \in ComplaintRow : row \notin NoRow
    /\ Nil \in NoRow /\ Gone \in NoRow /\ Nil # Gone
BY ComplaintAssumption DEF ComplaintAssumption, NoRow

LEMMA FlightTypes ==
    ASSUME NEW q \in InFlight
    PROVE  /\ q.op \in {"filed", "told", "update", "updated", "delete"} => q.complaint \in Complaint
           /\ q.op \in {"filed", "told", "update", "updated"} => q.by \in User /\ q.targets \in SUBSET User
           /\ q.op \in {"update", "updated"} => q.status \in Status
BY DEF InFlight, Idle

\* Every stage of a row is one of the lifecycle.
LEMMA StagesAreStages == IInv => Stages \in [Complaint -> Lifecycle!Stage]
BY DEF IInv, Stages, StageOf, NoRow, ComplaintRow, Status, Lifecycle!Stage,
       Lifecycle!Open, Lifecycle!Closed

----------------------------------------------------------------------------
(* Steps that write no complaint.                                          *)

LEMMA QuietStep ==
    ASSUME IInv, UNCHANGED <<complaint, lateRun, announced, load>>,
           \/ request' = request
           \/ \E r \in Request, q \in InFlight :
                 Stands(r, q) /\ request' = [request EXCEPT ![r] = q]
    PROVE  IInv' /\ UNCHANGED Stages
<1>1. UNCHANGED Stages
  BY DEF Stages, StageOf
<1>2. request' \in [Request -> InFlight] /\ UpdatesStand'
  <2>1. CASE request' = request
    BY <2>1 DEF IInv, UpdatesStand, Stands, Allows
  <2>2. ASSUME NEW r \in Request, NEW q \in InFlight, Stands(r, q),
               request' = [request EXCEPT ![r] = q]
        PROVE  request' \in [Request -> InFlight] /\ UpdatesStand'
    <3>1. request' \in [Request -> InFlight]
      BY <2>2 DEF IInv
    <3>2. \A s \in Request : request'[s] = IF s = r THEN q ELSE request[s]
      BY <2>2 DEF IInv
    <3>3. \A s \in Request : Stands(s, request'[s])
      BY <2>2, <3>2 DEF IInv, UpdatesStand
    <3>4. QED BY <3>1, <3>3 DEF UpdatesStand, Stands, Allows
  <2>3. QED BY <2>1, <2>2
<1>3. MarkedAreFresh' /\ LateIsAnnounced'
  BY DEF IInv, MarkedAreFresh, LateIsAnnounced, Exists
<1>4. AnnouncementsCount'
  BY DEF IInv, AnnouncementsCount
<1>5. QED BY <1>1, <1>2, <1>3, <1>4 DEF IInv

\* Handlers that wait with what is no status change.
LEMMA PassiveStep ==
    ASSUME IInv, NEW r \in Request, NEW q \in InFlight, q.op # "update",
           request' = [request EXCEPT ![r] = q], UNCHANGED <<complaint, lateRun, announced, load>>
    PROVE  IInv' /\ UNCHANGED Stages
BY QuietStep DEF Stands

LEMMA UpdateReadStep ==
    ASSUME IInv, NEW r \in Request, NEW c \in Complaint, NEW u \in User, NEW status \in Status,
           UpdateRead(r, c, u, status)
    PROVE  IInv' /\ UNCHANGED Stages
<1> DEFINE q == [op |-> "update", complaint |-> c, by |-> u,
                 targets |-> complaint[c].targets, status |-> status]
<1>1. complaint[c] \in ComplaintRow /\ complaint[c] \notin NoRow
  BY DEF UpdateRead, Exists, IInv
<1>2. q \in InFlight
  BY <1>1 DEF InFlight, ComplaintRow
<1>3. Stands(r, q)
  BY <1>1, RowsAreRows DEF UpdateRead, Begin, Stands, Allows
<1>4. QED BY <1>2, <1>3, QuietStep DEF UpdateRead, Begin

LEMMA OtherHandlerSteps ==
    ASSUME IInv, NEW r \in Request,
           \/ \E c \in Complaint, u \in User : DeleteRead(r, c, u)
           \/ FileNotify(r) \/ FileNotifyAdmins(r) \/ UpdateNotify(r) \/ Fail(r)
    PROVE  IInv' /\ UNCHANGED Stages
<1>1. Idle \in InFlight /\ Idle.op # "update"
  BY DEF InFlight, Idle
<1>2. ASSUME NEW c \in Complaint, NEW u \in User, DeleteRead(r, c, u)
      PROVE  IInv' /\ UNCHANGED Stages
  <2> DEFINE q == [op |-> "delete", complaint |-> c]
  <2>1. q \in InFlight /\ q.op # "update"
    BY DEF InFlight
  <2>2. QED BY <1>2, <2>1, PassiveStep DEF DeleteRead, Begin
<1>3. CASE FileNotify(r)
  <2> DEFINE q == [request[r] EXCEPT !.op = "told"]
  <2>1. request[r] \in InFlight /\ request[r].op = "filed"
    BY <1>3 DEF FileNotify, IInv
  <2>2. q \in InFlight /\ q.op # "update"
    BY <2>1 DEF InFlight, Idle
  <2>3. QED BY <1>3, <2>2, PassiveStep DEF FileNotify, Await
<1>4. CASE FileNotifyAdmins(r) \/ UpdateNotify(r) \/ Fail(r)
  BY <1>1, <1>4, PassiveStep DEF FileNotifyAdmins, UpdateNotify, Fail, End, Await
<1>5. QED BY <1>2, <1>3, <1>4

----------------------------------------------------------------------------
(* Steps that write a complaint.                                           *)

LEMMA FileCommitStep ==
    ASSUME IInv, NEW r \in Request, NEW c \in Complaint, NEW u \in User,
           NEW targets \in SUBSET User, FileCommit(r, c, u, targets)
    PROVE  IInv' /\ Lifecycle!File(c)
<1> DEFINE q == [op |-> "filed", complaint |-> c, by |-> u, targets |-> targets]
           row == [by |-> u, targets |-> targets, status |-> "OPEN", resolvedBy |-> Nil,
                   old |-> FALSE, age |-> 0]
<1>1. /\ request' = [request EXCEPT ![r] = q] /\ UNCHANGED <<load, lateRun, announced>>
      /\ complaint[c] = Nil /\ complaint' = [complaint EXCEPT ![c] = row]
  BY DEF FileCommit, Begin
<1>2. row \in ComplaintRow /\ row \notin NoRow /\ q \in InFlight
  BY RowsAreRows DEF ComplaintRow, Status, InFlight
<1>3. \A d \in Complaint : complaint'[d] = IF d = c THEN row ELSE complaint[d]
  BY <1>1 DEF IInv
<1>4. \A s \in Request : request'[s] = IF s = r THEN q ELSE request[s]
  BY <1>1 DEF IInv
<1>5. UpdatesStand'
  <2>1. ASSUME NEW s \in Request, request'[s].op = "update"
        PROVE  "update" \in load.ops[s] /\ Allows(complaint'[request'[s].complaint], request'[s].status)
    <3>1. request'[s] = request[s] /\ Stands(s, request[s])
      BY <1>4, <2>1 DEF IInv, UpdatesStand
    <3>2. request[s].complaint \in Complaint /\ request[s].complaint # c
      BY <1>1, <2>1, <3>1, FlightTypes DEF IInv, Stands, Allows
    <3>3. QED BY <1>3, <2>1, <3>1, <3>2 DEF Stands
  <2>2. QED BY <1>1, <2>1 DEF UpdatesStand, Stands, Allows
<1>6. MarkedAreFresh' /\ LateIsAnnounced'
  BY <1>1, <1>2, <1>3 DEF IInv, MarkedAreFresh, LateIsAnnounced, Exists
<1>7. Lifecycle!File(c)
  <2>1. StageOf(complaint[c]) = "none" /\ StageOf(row) = "OPEN"
    BY <1>1, <1>2 DEF StageOf, NoRow
  <2>2. \A d \in Complaint : StageOf(complaint'[d]) = IF d = c THEN "OPEN" ELSE StageOf(complaint[d])
    BY <1>3, <2>1
  <2>3. QED BY <2>1, <2>2 DEF Lifecycle!File, Lifecycle!Move
<1>8. complaint' \in [Complaint -> ComplaintRow \cup NoRow] /\ request' \in [Request -> InFlight]
  BY <1>1, <1>2 DEF IInv
<1>9. AnnouncementsCount'
  <2>1. row # Nil /\ row.status = "OPEN"
    BY <1>2 DEF NoRow
  <2> HIDE DEF row
  <2>2. QED BY <1>1, <1>3, <2>1 DEF IInv, AnnouncementsCount, Counted
<1>10. QED BY <1>1, <1>5, <1>6, <1>7, <1>8, <1>9 DEF IInv

\* The heart of the refinement: when the handler writes, the status is one that
\* allows the change, though maybe not the one it has read.
LEMMA UpdateCommitStep ==
    ASSUME IInv, NEW r \in Request, UpdateCommit(r)
    PROVE  IInv' /\ \E c \in Complaint : Lifecycle!Attend(c) \/ Lifecycle!Close(c)
<1>1. PICK c \in Complaint, status \in Status :
        /\ c = request[r].complaint /\ status = request[r].status
        /\ complaint[c] \in ComplaintRow /\ complaint[c] \notin NoRow
        /\ status \in ValidTransitions(complaint[c].status)
        /\ "update" \in load.ops[r] /\ request[r].op = "update" /\ request[r].by \in User
  <2>1. request[r].op = "update" /\ Exists(request[r].complaint) /\ Stands(r, request[r])
    BY DEF UpdateCommit, IInv, UpdatesStand
  <2>2. request[r].complaint \in Complaint /\ request[r].status \in Status /\ request[r].by \in User
    BY <2>1, FlightTypes DEF IInv
  <2>3. QED BY <2>1, <2>2 DEF Stands, Allows, Exists, IInv
<1> DEFINE q == [request[r] EXCEPT !.op = "updated"]
<1>2. PICK row :
        /\ row = Updated(complaint[c], status, request[r].by)
        /\ complaint' = [complaint EXCEPT ![c] = row] /\ announced' = [announced EXCEPT ![c] = 0]
        /\ request' = [request EXCEPT ![r] = q] /\ UNCHANGED <<load, lateRun>>
  BY <1>1 DEF UpdateCommit, Await
<1>3. row \in ComplaintRow /\ row \notin NoRow /\ row.status = status /\ row.age = 0
      /\ row.old = complaint[c].old
  BY <1>1, <1>2, RowsAreRows DEF Updated, ComplaintRow, Status, Closed
<1>4. q \in InFlight /\ q.op = "updated"
  BY <1>1 DEF IInv, InFlight, Idle
<1>5. \A d \in Complaint : complaint'[d] = IF d = c THEN row ELSE complaint[d]
  BY <1>2 DEF IInv
<1>6. \A s \in Request : request'[s] = IF s = r THEN q ELSE request[s]
  BY <1>2 DEF IInv
<1>7. UpdatesStand'
  <2>1. ASSUME NEW s \in Request, request'[s].op = "update" PROVE FALSE
    <3>1. s # r /\ request[s].op = "update"
      BY <1>4, <1>6, <2>1
    <3>2. "update" \in load.ops[s] \cap load.ops[r]
      BY <1>1, <3>1 DEF IInv, UpdatesStand, Stands
    <3>3. QED BY <3>1, <3>2, ComplaintAssumption DEF ComplaintAssumption, IInv
  <2>2. QED BY <2>1 DEF UpdatesStand, Stands
<1>8. status \in {"IN_REVIEW", "RESOLVED", "DISMISSED"}
  BY <1>1 DEF ValidTransitions, Closed, ComplaintRow, Status
<1>9. MarkedAreFresh' /\ LateIsAnnounced'
  <2>1. MarkedAreFresh'
    BY <1>1, <1>2, <1>3, <1>5, RowsAreRows DEF IInv, MarkedAreFresh, Exists
  <2>2. ASSUME ~load'.fails, NEW d \in Complaint, complaint'[d] \notin NoRow,
               complaint'[d].status = "LATE"
        PROVE  announced'[d] > 0 \/ d \in lateRun'
    <3>1. d # c /\ complaint'[d] = complaint[d]
      BY <1>3, <1>5, <1>8, <2>2
    <3>2. QED BY <1>2, <2>2, <3>1 DEF IInv, LateIsAnnounced, Exists
  <2>3. QED BY <2>1, <2>2 DEF LateIsAnnounced, Exists
<1>10. Lifecycle!Attend(c) \/ Lifecycle!Close(c)
  <2>1. /\ StageOf(complaint[c]) = complaint[c].status
        /\ \A d \in Complaint :
              StageOf(complaint'[d]) = IF d = c THEN status ELSE StageOf(complaint[d])
    BY <1>1, <1>3, <1>5 DEF StageOf, NoRow
  <2>2. CASE status = "IN_REVIEW"
    <3>1. complaint[c].status \in {"OPEN", "LATE"}
      BY <1>1, <2>2 DEF ValidTransitions, Closed, ComplaintRow, Status
    <3>2. QED BY <2>1, <2>2, <3>1 DEF Lifecycle!Attend, Lifecycle!Move
  <2>3. CASE status \in Closed
    <3>1. complaint[c].status \in {"IN_REVIEW", "LATE"}
      BY <1>1, <2>3 DEF ValidTransitions, Closed, ComplaintRow, Status
    <3>2. QED BY <2>1, <2>3, <3>1 DEF Lifecycle!Close, Lifecycle!Move, Lifecycle!Closed, Closed
  <2>4. QED BY <1>8, <2>2, <2>3 DEF Closed
<1>11. complaint' \in [Complaint -> ComplaintRow \cup NoRow] /\ request' \in [Request -> InFlight]
  BY <1>2, <1>3, <1>4 DEF IInv
<1>12. AnnouncementsCount' /\ announced' \in [Complaint -> Nat]
  <2>1. \A d \in Complaint : announced'[d] = IF d = c THEN 0 ELSE announced[d]
    BY <1>2 DEF IInv
  <2>2. Counted(complaint'[c], announced'[c], c \in lateRun', lateRun' # {})
    BY <1>3, <1>5, <1>8, <2>1 DEF Counted
  <2>3. \A d \in Complaint \ {c} : Counted(complaint'[d], announced'[d], d \in lateRun', lateRun' # {})
    BY <1>2, <1>5, <2>1 DEF IInv, AnnouncementsCount
  <2>4. announced' \in [Complaint -> Nat]
    BY <1>2 DEF IInv
  <2>5. QED BY <2>2, <2>3, <2>4 DEF AnnouncementsCount
<1>13. QED BY <1>2, <1>7, <1>9, <1>10, <1>11, <1>12 DEF IInv

LEMMA DeleteCommitStep ==
    ASSUME IInv, NEW r \in Request, DeleteCommit(r)
    PROVE  IInv' /\ \E c \in Complaint : Lifecycle!Delete(c)
<1>1. PICK c \in Complaint : c = request[r].complaint /\ Exists(c)
  BY FlightTypes DEF DeleteCommit, IInv
<1>2. /\ complaint' = [complaint EXCEPT ![c] = Gone]
      /\ request' = [request EXCEPT ![r] = Idle] /\ UNCHANGED <<load, lateRun, announced>>
  BY <1>1 DEF DeleteCommit, End, Await
<1>3. \A d \in Complaint : complaint'[d] = IF d = c THEN Gone ELSE complaint[d]
  BY <1>2 DEF IInv
<1>4. \A s \in Request : request'[s] = IF s = r THEN Idle ELSE request[s]
  BY <1>2 DEF IInv
<1>5. UpdatesStand'
  <2>1. ASSUME NEW s \in Request, request'[s].op = "update"
        PROVE  "update" \in load.ops[s] /\ Allows(complaint'[request'[s].complaint], request'[s].status)
    <3>1. request'[s] = request[s] /\ Stands(s, request[s])
      BY <1>4, <2>1 DEF IInv, UpdatesStand, Idle
    <3>2. request[s].complaint \in Complaint
      BY <2>1, <3>1, FlightTypes DEF IInv
    <3>3. QED BY <1>3, <2>1, <3>1, <3>2, RowsAreRows DEF Stands, Allows
  <2>2. QED BY <1>2, <2>1 DEF UpdatesStand, Stands, Allows
<1>6. MarkedAreFresh' /\ LateIsAnnounced'
  BY <1>2, <1>3, RowsAreRows DEF IInv, MarkedAreFresh, LateIsAnnounced, Exists
<1>7. Lifecycle!Delete(c)
  <2>1. complaint[c] \in ComplaintRow /\ complaint[c] \notin NoRow
    BY <1>1 DEF Exists, IInv
  <2>2. StageOf(complaint[c]) \in Status
    BY <2>1 DEF StageOf, NoRow, ComplaintRow
  <2>3. [d \in Complaint |-> StageOf(complaint[d])]' =
              [[d \in Complaint |-> StageOf(complaint[d])] EXCEPT ![c] = "deleted"]
    BY <1>3, RowsAreRows DEF StageOf
  <2>4. QED BY <2>2, <2>3 DEF Lifecycle!Delete, Lifecycle!Move, Lifecycle!Open, Lifecycle!Closed, Status
<1>8. complaint' \in [Complaint -> ComplaintRow \cup NoRow] /\ request' \in [Request -> InFlight]
  BY <1>2, RowsAreRows DEF IInv, InFlight
<1>9. AnnouncementsCount'
  <2>1. Counted(complaint'[c], announced'[c], c \in lateRun', lateRun' # {})
    BY <1>2, <1>3, RowsAreRows DEF IInv, AnnouncementsCount, Counted
  <2>2. QED BY <1>2, <1>3, <2>1 DEF IInv, AnnouncementsCount
<1>10. QED BY <1>2, <1>5, <1>6, <1>7, <1>8, <1>9 DEF IInv

\* Whatever was allowed of an open complaint, or one in review, is of a late one.
LEMMA MarkLateStep ==
    ASSUME IInv, MarkLate
    PROVE  IInv' /\ Lifecycle!Lapse
<1>1. /\ lateRun = {} /\ lateRun' = Neglected /\ UNCHANGED <<announced, request, load>>
      /\ complaint' = [c \in Complaint |->
            IF c \in Neglected THEN [complaint[c] EXCEPT !.status = "LATE", !.age = 0]
            ELSE IF Exists(c) THEN Older(complaint[c]) ELSE complaint[c]]
  BY DEF MarkLate, Tick, Neglected, frame
<1>2. \A c \in Neglected :
        /\ c \in Complaint /\ Exists(c) /\ complaint[c] \in ComplaintRow
        /\ complaint[c].status \in {"OPEN", "IN_REVIEW"} /\ complaint[c].old
  BY DEF Neglected, IInv, Exists
<1>3. \A c \in Neglected :
        /\ complaint'[c] \in ComplaintRow /\ complaint'[c] \notin NoRow
        /\ complaint'[c].status = "LATE" /\ complaint'[c].old /\ complaint'[c].age = 0
  <2> DEFINE Late(row) == [row EXCEPT !.status = "LATE", !.age = 0]
  <2>1. ASSUME NEW row \in ComplaintRow
        PROVE  /\ Late(row) \in ComplaintRow
               /\ Late(row).status = "LATE" /\ Late(row).old = row.old /\ Late(row).age = 0
    BY DEF ComplaintRow, Status
  <2>2. \A c \in Neglected : complaint'[c] = Late(complaint[c])
    BY <1>1, <1>2
  <2> HIDE DEF Late
  <2>3. QED BY <1>2, <2>1, <2>2, RowsAreRows
<1>4. \A c \in Complaint \ Neglected :
        /\ complaint'[c] \in ComplaintRow \cup NoRow
        /\ complaint[c] \in NoRow => complaint'[c] = complaint[c]
        /\ complaint[c] \notin NoRow =>
             /\ complaint'[c] \notin NoRow /\ complaint'[c].status = complaint[c].status
             /\ complaint[c].age = 0 => complaint'[c].age = 1
             /\ complaint[c].age # 0 => complaint'[c].age = 2
  <2>1. ASSUME NEW row \in ComplaintRow
        PROVE  /\ Older(row) \in ComplaintRow /\ Older(row) \notin NoRow
               /\ Older(row).status = row.status
               /\ row.age = 0 => Older(row).age = 1
               /\ row.age # 0 => Older(row).age = 2
    <3>1. Older(row) \in ComplaintRow
      BY DEF Older, ComplaintRow
    <3>2. QED BY <3>1, RowsAreRows DEF Older, ComplaintRow
  <2>2. QED BY <1>1, <2>1 DEF IInv, Exists
<1>5. UpdatesStand'
  <2>1. ASSUME NEW s \in Request, request[s].op = "update"
        PROVE  Allows(complaint'[request[s].complaint], request[s].status)
    <3>1. Stands(s, request[s]) /\ request[s].complaint \in Complaint
      BY <2>1, FlightTypes DEF IInv, UpdatesStand
    <3>2. CASE request[s].complaint \in Neglected
      <4>1. request[s].status \in ValidTransitions(complaint[request[s].complaint].status)
        BY <1>2, <2>1, <3>1, <3>2 DEF Stands, Allows, Exists
      <4>2. request[s].status \in ValidTransitions("LATE")
        BY <1>2, <3>2, <4>1 DEF ValidTransitions, Closed
      <4>3. QED BY <1>3, <3>2, <4>2, RowsAreRows DEF Allows
    <3>3. CASE request[s].complaint \notin Neglected
      BY <1>4, <2>1, <3>1, <3>3, RowsAreRows DEF Stands, Allows
    <3>4. QED BY <3>2, <3>3
  <2>2. QED BY <1>1, <2>1 DEF IInv, UpdatesStand, Stands, Allows
<1>6. MarkedAreFresh'
  BY <1>1, <1>3, RowsAreRows DEF MarkedAreFresh, Exists
<1>7. LateIsAnnounced' /\ AnnouncementsCount'
  <2>1. LateIsAnnounced'
    BY <1>1, <1>4 DEF IInv, LateIsAnnounced, Exists
  <2>2. ASSUME NEW c \in Neglected
        PROVE  Counted(complaint'[c], announced[c], c \in Neglected, Neglected # {})
    <3>1. Counted(complaint[c], announced[c], c \in lateRun, lateRun # {})
      BY <1>2 DEF IInv, AnnouncementsCount
    <3>2. announced[c] = 0
      BY <1>2, <3>1 DEF Counted, Exists
    <3>3. complaint'[c] \notin NoRow /\ complaint'[c].status = "LATE" /\ complaint'[c].age = 0
      BY <1>3
    <3>4. QED BY <3>2, <3>3, RowsAreRows DEF Counted
  <2>3. ASSUME NEW c \in Complaint \ Neglected
        PROVE  Counted(complaint'[c], announced[c], c \in Neglected, Neglected # {})
    <3>1. Counted(complaint[c], announced[c], c \in lateRun, lateRun # {})
      BY DEF IInv, AnnouncementsCount
    <3>2. CASE complaint[c] \in NoRow
      BY <1>4, <3>1, <3>2 DEF Counted
    <3>3. CASE complaint[c] \notin NoRow
      <4>1. complaint[c].age # 0 => complaint'[c].age = 2
        BY <1>4, <3>3
      <4>2. QED BY <1>4, <3>1, <3>3, <4>1, RowsAreRows DEF Counted
    <3>4. QED BY <3>2, <3>3
  <2>4. QED BY <1>1, <2>1, <2>2, <2>3 DEF AnnouncementsCount
<1>8. Lifecycle!Lapse
  <2>1. \A c \in Complaint : StageOf(complaint'[c]) = IF c \in Neglected THEN "LATE" ELSE StageOf(complaint[c])
    BY <1>3, <1>4 DEF StageOf, NoRow
  <2>2. \A c \in Neglected : StageOf(complaint[c]) \in {"OPEN", "IN_REVIEW"}
    BY <1>2 DEF StageOf, Exists, NoRow
  <2>3. Neglected \in SUBSET {c \in Complaint : [d \in Complaint |-> StageOf(complaint[d])][c] \in Lifecycle!Open}
    BY <1>2, <2>2 DEF Lifecycle!Open
  <2>4. [c \in Complaint |-> StageOf(complaint[c])]' =
          [c \in Complaint |-> IF c \in Neglected THEN "LATE"
                               ELSE [d \in Complaint |-> StageOf(complaint[d])][c]]
    BY <2>1
  <2>5. QED BY <2>3, <2>4 DEF Lifecycle!Lapse
<1>9. complaint' \in [Complaint -> ComplaintRow \cup NoRow] /\ lateRun' \in SUBSET Complaint
  BY <1>1, <1>2, <1>3, <1>4 DEF IInv
<1>10. QED BY <1>1, <1>5, <1>6, <1>7, <1>8, <1>9 DEF IInv

LEMMA AgeStep ==
    ASSUME IInv, NEW c \in Complaint, Age(c)
    PROVE  IInv' /\ UNCHANGED Stages
<1>1. complaint[c] \in ComplaintRow /\ complaint[c] \notin NoRow
      /\ UNCHANGED <<request, load, lateRun, announced>>
  BY DEF Age, Exists, IInv, frame
<1> DEFINE row == [complaint[c] EXCEPT !.old = TRUE]
<1>2. /\ row \in ComplaintRow /\ complaint' = [complaint EXCEPT ![c] = row]
      /\ row.status = complaint[c].status /\ row.age = complaint[c].age /\ row.old
  BY <1>1 DEF Age, ComplaintRow
<1> HIDE DEF row
<1>3. \A d \in Complaint : complaint'[d] = IF d = c THEN row ELSE complaint[d]
  BY <1>2 DEF IInv
<1>4. UpdatesStand'
  <2>1. \A s \in Request : request[s].op = "update" =>
          Allows(complaint'[request[s].complaint], request[s].status)
    BY <1>1, <1>2, <1>3, RowsAreRows, FlightTypes DEF IInv, UpdatesStand, Stands, Allows
  <2>2. QED BY <1>1, <2>1 DEF IInv, UpdatesStand, Stands, Allows
<1>5. MarkedAreFresh'
  BY <1>1, <1>2, <1>3, RowsAreRows DEF IInv, MarkedAreFresh, Exists
<1>6. LateIsAnnounced'
  BY <1>1, <1>2, <1>3 DEF IInv, LateIsAnnounced, Exists
<1>7. UNCHANGED Stages
  <2>1. StageOf(row) = StageOf(complaint[c])
    BY <1>1, <1>2, RowsAreRows DEF StageOf, NoRow
  <2>2. \A d \in Complaint : StageOf(complaint'[d]) = StageOf(complaint[d])
    BY <1>3, <2>1
  <2>3. QED BY <2>2 DEF Stages
<1>8. complaint' \in [Complaint -> ComplaintRow \cup NoRow]
  BY <1>2 DEF IInv
<1>9. AnnouncementsCount'
  <2>1. row \notin NoRow
    BY <1>2, RowsAreRows
  <2>2. Counted(complaint[c], announced[c], c \in lateRun, lateRun # {})
    BY DEF IInv, AnnouncementsCount
  <2>3. Counted(row, announced[c], c \in lateRun, lateRun # {})
    BY <1>1, <1>2, <2>1, <2>2, RowsAreRows DEF Counted
  <2>4. QED BY <1>1, <1>3, <2>3 DEF IInv, AnnouncementsCount
<1>10. QED BY <1>1, <1>4, <1>5, <1>6, <1>7, <1>8, <1>9 DEF IInv

\* The window is wide enough for what the run has marked, and too narrow for what
\* the run before the last has.
LEMMA AnnounceSteps ==
    ASSUME IInv, AnnounceLate \/ LateRunFails
    PROVE  IInv' /\ UNCHANGED Stages
<1>1. lateRun # {} /\ lateRun' = {} /\ UNCHANGED <<complaint, request, load>>
  BY DEF AnnounceLate, LateRunFails, frame
<1>2. UpdatesStand' /\ MarkedAreFresh' /\ UNCHANGED Stages
  BY <1>1 DEF IInv, UpdatesStand, Stands, Allows, MarkedAreFresh, Stages, StageOf
<1> DEFINE told(c) == Exists(c) /\ complaint[c].status = "LATE" /\ complaint[c].old
                      /\ complaint[c].age <= 1
<1>3. \/ announced' = announced /\ load.fails
      \/ announced' = [c \in Complaint |-> IF told(c) THEN announced[c] + 1 ELSE announced[c]]
  BY DEF AnnounceLate, LateRunFails, InWindow
<1>4. \A c \in Complaint : announced'[c] = announced[c] \/ (told(c) /\ announced'[c] = announced[c] + 1)
  BY <1>3
<1>5. announced' \in [Complaint -> Nat]
  BY <1>3 DEF IInv
<1>6. LateIsAnnounced'
  <2>1. ASSUME ~load.fails, NEW c \in Complaint, Exists(c), complaint[c].status = "LATE"
        PROVE  announced'[c] > 0
    <3>1. announced'[c] = IF told(c) THEN announced[c] + 1 ELSE announced[c]
      BY <1>3, <2>1
    <3>2. announced[c] \in Nat /\ (announced[c] > 0 \/ told(c))
      BY <2>1 DEF IInv, LateIsAnnounced, MarkedAreFresh
    <3> HIDE DEF told
    <3>3. QED BY <3>1, <3>2
  <2>2. QED BY <1>1, <2>1 DEF LateIsAnnounced, Exists
<1>7. AnnouncementsCount'
  <2>1. ASSUME NEW c \in Complaint
        PROVE  Counted(complaint'[c], announced'[c], c \in lateRun', lateRun' # {})
    <3>1. Counted(complaint[c], announced[c], c \in lateRun, lateRun # {})
      BY DEF IInv, AnnouncementsCount
    <3>2. CASE announced'[c] = announced[c]
      BY <1>1, <3>1, <3>2 DEF Counted
    <3>3. CASE told(c) /\ announced'[c] = announced[c] + 1
      <4>1. complaint[c] \notin NoRow /\ complaint[c].status = "LATE" /\ complaint[c].age \in {0, 1}
        BY <3>3 DEF Exists, IInv, ComplaintRow
      <4>2. announced[c] \in 0..2 /\ (complaint[c].age = 0 => announced[c] = 0)
            /\ (complaint[c].age = 1 => announced[c] <= 1)
        BY <1>1, <3>1, <4>1 DEF Counted
      <4>3. announced'[c] \in 0..2 /\ (complaint[c].age = 0 => announced'[c] = 1)
        BY <3>3, <4>1, <4>2
      <4>4. complaint[c] # Nil
        BY <4>1, RowsAreRows
      <4>5. QED BY <1>1, <4>1, <4>3, <4>4 DEF Counted
    <3>4. QED BY <1>4, <3>2, <3>3
  <2>2. QED BY <1>1, <2>1 DEF AnnouncementsCount
<1>8. QED BY <1>1, <1>2, <1>5, <1>6, <1>7 DEF IInv

----------------------------------------------------------------------------
(* Every step, and the theorems.                                           *)

LEMMA InitHolds == Init => IInv /\ Lifecycle!Init
<1> SUFFICES ASSUME Init PROVE IInv /\ Lifecycle!Init
  OBVIOUS
<1>1. complaint \in [Complaint -> ComplaintRow \cup NoRow] /\ load \in Load /\ lateRun = {}
  BY ComplaintAssumption DEF ComplaintAssumption, Init, RequestsInit
<1>2. request \in [Request -> InFlight] /\ UpdatesStand
  BY DEF Init, RequestsInit, InFlight, UpdatesStand, Stands, Idle
<1>3. MarkedAreFresh /\ LateIsAnnounced
  BY DEF Init, MarkedAreFresh, LateIsAnnounced, Exists
<1>4. announced \in [Complaint -> Nat] /\ AnnouncementsCount
  <2>1. \A c \in Complaint : complaint[c] \notin NoRow => complaint[c].age = 2
    BY ComplaintAssumption DEF ComplaintAssumption, Init, RequestsInit
  <2>2. \A c \in Complaint : announced[c] \in {0, 1}
          /\ (announced[c] = 1 <=> complaint[c] \notin NoRow /\ complaint[c].status = "LATE")
    BY DEF Init
  <2>3. AnnouncementsCount
    BY <1>1, <2>1, <2>2, RowsAreRows DEF AnnouncementsCount, Counted
  <2>4. QED BY <2>3 DEF Init
<1>5. IInv
  BY <1>1, <1>2, <1>3, <1>4 DEF IInv
<1>6. QED BY <1>5, StagesAreStages DEF Stages, Lifecycle!Init

\* Every step is one of the lifecycle, or leaves every stage alone.
LEMMA StepHolds ==
    ASSUME IInv, [Next]_vars
    PROVE  IInv' /\ [Lifecycle!Next]_Stages
<1>1. ASSUME NEW r \in Request, HandlerStep(r) PROVE IInv' /\ [Lifecycle!Next]_Stages
  <2>1. ASSUME NEW c \in Complaint, NEW u \in User, NEW targets \in SUBSET User,
               FileCommit(r, c, u, targets)
        PROVE  IInv' /\ [Lifecycle!Next]_Stages
    BY <2>1, FileCommitStep DEF Lifecycle!Next
  <2>2. ASSUME NEW c \in Complaint, NEW u \in User, NEW status \in Status,
               UpdateRead(r, c, u, status)
        PROVE  IInv' /\ [Lifecycle!Next]_Stages
    BY <2>2, UpdateReadStep
  <2>3. CASE UpdateCommit(r)
    BY <2>3, UpdateCommitStep DEF Lifecycle!Next
  <2>4. CASE DeleteCommit(r)
    BY <2>4, DeleteCommitStep DEF Lifecycle!Next
  <2>5. QED BY <1>1, <2>1, <2>2, <2>3, <2>4, OtherHandlerSteps DEF HandlerStep
<1>2. CASE LateCron
  BY <1>2, MarkLateStep, AnnounceSteps DEF LateCron, Lifecycle!Next
<1>3. ASSUME NEW c \in Complaint, Age(c) PROVE IInv' /\ [Lifecycle!Next]_Stages
  BY <1>3, AgeStep
<1>4. CASE Notify(NotificationStep)
  BY <1>4, QuietStep DEF Notify, frame
<1>5. CASE (Inbox \/ WarnFails) /\ UNCHANGED <<complaint, lateRun, announced>>
  BY <1>5, QuietStep DEF Inbox, WarnFails
<1>6. CASE UNCHANGED vars
  BY <1>6, QuietStep DEF vars
<1>7. QED BY <1>1, <1>2, <1>3, <1>4, <1>5, <1>6 DEF Next

\* The handlers, the cron, failures and deletions together implement the
\* lifecycle of the transition table: a check made before an await is still good
\* when the handler writes, as only the cron can have come in between.
THEOREM ComplaintsFollowLifecycle == Spec => FollowsLifecycle
<1>1. Init => Lifecycle!Init
  BY InitHolds
<1>2. IInv /\ [Next]_vars => [Lifecycle!Next]_Stages
  BY StepHolds
<1>3. Spec => []IInv
  BY InitHolds, StepHolds, PTL DEF Spec
<1>4. QED BY <1>1, <1>2, <1>3, PTL DEF Spec, FollowsLifecycle, Lifecycle!Spec, Stages

\* No lateness goes unannounced while the runs of the cron succeed.
THEOREM EveryLatenessIsAnnounced == Spec => []LateIsAnnounced
<1>1. IInv => LateIsAnnounced
  BY DEF IInv
<1>2. Spec => []IInv
  BY InitHolds, StepHolds, PTL DEF Spec
<1>3. QED BY <1>1, <1>2, PTL

\* No lateness is announced by a third run of the cron.
THEOREM NoLatenessIsAnnouncedThrice == Spec => []AnnouncedTwiceAtMost
<1>1. IInv => AnnouncedTwiceAtMost
  BY DEF IInv, AnnouncementsCount, Counted, AnnouncedTwiceAtMost
<1>2. Spec => []IInv
  BY InitHolds, StepHolds, PTL DEF Spec
<1>3. QED BY <1>1, <1>2, PTL

----------------------------------------------------------------------------
(* The notices.                                                            *)

\* A finite set has as many elements as SetToSeq lists, and no others.
LEMMA ListsItsElements ==
    ASSUME NEW S, IsFiniteSet(S)
    PROVE  SetToSeq(S) \in Seq(S)
<1>1. \E f \in [1..Cardinality(S) -> S] : IsInjective(f)
  BY FS_CardinalityType DEF ExistsBijection, Bijection, Injection
<1>2. SetToSeq(S) \in [1..Cardinality(S) -> S]
  BY <1>1 DEF SetToSeq
<1>3. Cardinality(S) \in Nat
  BY FS_CardinalityType
<1>4. QED BY <1>2, <1>3

\* Where a job stands: its rows are accounted for by its starts.  It is retried
\* while fewer than three attempts have thrown, and put back after one stall.
Accounted(n) ==
    /\ n.state \in {"written", "done"} => n.rows # <<>>
    /\ Len(n.rows) <= n.attempts + n.stalls + (IF n.state \in {"written", "done"} THEN 1 ELSE 0)
    /\ n.state # "failed" => n.attempts <= 2 /\ n.stalls <= 1
    /\ n.attempts + n.stalls <= 4

NoticesStand ==
    /\ notice \in Seq(Notice)
    /\ \A i \in DOMAIN notice : Accounted(notice[i])

Posted(u, about, kind) ==
    [to |-> u, about |-> about, kind |-> kind, state |-> "waiting", attempts |-> 0, stalls |-> 0,
     rows |-> <<>>]

\* dispatch appends new jobs, one for each addressee.
LEMMA DispatchAppends ==
    ASSUME NoticesStand, NEW users \in SUBSET User, NEW about \in Subject, NEW kind \in Kind,
           Dispatch(users, about, kind)
    PROVE  NoticesStand'
<1> DEFINE S == {Posted(u, about, kind) : u \in users}
           f == [u \in users |-> Posted(u, about, kind)]
<1>1. IsFiniteSet(users)
  BY FS_Subset, ComplaintAssumption DEF ComplaintAssumption
<1>2. IsFiniteSet(S)
  <2>1. f \in Surjection(users, S)
    BY DEF Surjection
  <2>2. QED BY <1>1, <2>1, FS_Surjection
<1>3. \A n \in S : n \in Notice /\ Accounted(n)
  <2>1. ASSUME NEW u \in users
        PROVE  Posted(u, about, kind) \in Notice /\ Accounted(Posted(u, about, kind))
    BY DEF Posted, Notice, Accounted
  <2>2. QED BY <2>1
<1>4. Jobs(users, about, kind) = SetToSeq(S)
  BY DEF Jobs, Posted
<1> HIDE DEF S, f
<1>5. SetToSeq(S) \in Seq(S)
  BY <1>2, ListsItsElements
<1> DEFINE js == SetToSeq(S)
<1>6. notice' = notice \o js
  BY <1>4 DEF Dispatch
<1> HIDE DEF js
<1>7. js \in Seq(S) /\ S \subseteq Notice
  BY <1>3, <1>5 DEF js
<1>8. js \in Seq(Notice) /\ \A j \in DOMAIN js : js[j] \in S
  BY <1>7
<1>9. notice' \in Seq(Notice)
  BY <1>6, <1>8 DEF NoticesStand
<1>10. \A i \in DOMAIN notice' : \/ i \in DOMAIN notice /\ notice'[i] = notice[i]
                                 \/ notice'[i] \in S
  BY <1>6, <1>8 DEF NoticesStand
<1>11. QED BY <1>3, <1>9, <1>10 DEF NoticesStand

\* What the worker or a user does to one notice.
Touches(i, n) ==
    /\ i \in DOMAIN notice /\ notice' = [notice EXCEPT ![i] = n]
    /\ n \in Notice /\ Accounted(n)

LEMMA TouchKeeps ==
    ASSUME NoticesStand, NEW i, NEW n, Touches(i, n)
    PROVE  NoticesStand'
BY DEF NoticesStand, Touches

\* The worker: Take, Write, Finish, Throw, and a process that dies.
LEMMA WorkKeeps ==
    ASSUME NoticesStand, Work \/ \E i \in DOMAIN notice : Stall(i)
    PROVE  NoticesStand'
<1>1. ASSUME NEW i \in DOMAIN notice
      PROVE  notice[i] \in Notice /\ Accounted(notice[i])
  BY DEF NoticesStand
<1>2. ASSUME NEW i \in DOMAIN notice, Take(i) \/ Finish(i) PROVE \E n : Touches(i, n)
  <2> DEFINE n == [notice[i] EXCEPT !.state = IF notice[i].state = "waiting" THEN "active" ELSE "done"]
  <2>1. notice' = [notice EXCEPT ![i] = n] /\ notice[i].state \in {"waiting", "written"}
    BY <1>1, <1>2 DEF Take, Finish, Notice
  <2>2. n \in Notice /\ Accounted(n)
    BY <1>1, <2>1 DEF Notice, Accounted
  <2>3. QED BY <2>1, <2>2 DEF Touches
<1>3. ASSUME NEW i \in DOMAIN notice, Write(i) PROVE \E n : Touches(i, n)
  <2> DEFINE rows == Append(notice[i].rows, "unread")
             n == [notice[i] EXCEPT !.state = "written", !.rows = rows]
  <2>1. notice' = [notice EXCEPT ![i] = n] /\ notice[i].state = "active"
    BY <1>1, <1>3 DEF Write, Notice
  <2>2. rows \in Seq(RowState) /\ rows # <<>> /\ Len(rows) = Len(notice[i].rows) + 1
        /\ Len(notice[i].rows) \in Nat
    BY <1>1 DEF Notice, RowState
  <2> HIDE DEF rows
  <2>3. n \in Notice
    BY <1>1, <2>2 DEF Notice
  <2>4. Accounted(n)
    BY SMTT(20), <1>1, <2>1, <2>2 DEF Notice, Accounted
  <2>5. QED BY <2>1, <2>3, <2>4 DEF Touches
<1>4. ASSUME NEW i \in DOMAIN notice, Throw(i) PROVE \E n : Touches(i, n)
  <2> DEFINE n == [notice[i] EXCEPT !.attempts = @ + 1,
                                    !.state = IF notice[i].attempts < 2 THEN "waiting" ELSE "failed"]
  <2>1. notice' = [notice EXCEPT ![i] = n] /\ notice[i].state \in {"active", "written"}
    BY <1>1, <1>4 DEF Throw, Notice
  <2>2. n \in Notice
    <3> DEFINE k == notice[i].attempts + 1
               state == IF notice[i].attempts < 2 THEN "waiting" ELSE "failed"
    <3>1. notice[i].attempts \in 0..3 /\ notice[i].attempts <= 2
      BY <1>1, <2>1 DEF Notice, Accounted
    <3>2. k \in 0..3 /\ state \in {"waiting", "failed"}
      BY <3>1
    <3> HIDE DEF k, state
    <3>3. n = [notice[i] EXCEPT !.attempts = k, !.state = state]
      BY DEF k, state
    <3> HIDE DEF n
    <3>4. QED BY <1>1, <3>2, <3>3 DEF Notice
  <2>3. Accounted(n)
    BY <1>1, <2>1 DEF Notice, Accounted
  <2>4. QED BY <2>1, <2>2, <2>3 DEF Touches
<1>5. ASSUME NEW i \in DOMAIN notice, Stall(i) PROVE \E n : Touches(i, n)
  <2> DEFINE n == [notice[i] EXCEPT !.stalls = @ + 1,
                                    !.state = IF notice[i].stalls < 1 THEN "waiting" ELSE "failed"]
  <2>1. notice' = [notice EXCEPT ![i] = n] /\ notice[i].state \in {"active", "written"}
    BY <1>1, <1>5 DEF Stall, Notice
  <2>2. n \in Notice
    <3> DEFINE k == notice[i].stalls + 1
               state == IF notice[i].stalls < 1 THEN "waiting" ELSE "failed"
    <3>1. notice[i].stalls \in 0..2 /\ notice[i].stalls <= 1
      BY <1>1, <2>1 DEF Notice, Accounted
    <3>2. k \in 0..2 /\ state \in {"waiting", "failed"}
      BY <3>1
    <3> HIDE DEF k, state
    <3>3. n = [notice[i] EXCEPT !.stalls = k, !.state = state]
      BY DEF k, state
    <3> HIDE DEF n
    <3>4. QED BY <1>1, <3>2, <3>3 DEF Notice
  <2>3. Accounted(n)
    BY <1>1, <2>1 DEF Notice, Accounted
  <2>4. QED BY <2>1, <2>2, <2>3 DEF Touches
<1>6. QED BY <1>2, <1>3, <1>4, <1>5, TouchKeeps DEF Work

\* Reading and deleting change the state of rows, and write none.
LEMMA ReadKeeps ==
    ASSUME NEW n \in Notice, Accounted(n), NEW rows \in Seq(RowState), Len(rows) = Len(n.rows)
    PROVE  LET m == [n EXCEPT !.rows = rows]
           IN m \in Notice /\ Accounted(m)
<1> DEFINE m == [n EXCEPT !.rows = rows]
<1>1. n.rows = <<>> <=> rows = <<>>
  BY DEF Notice
<1>2. /\ m.rows = rows /\ m.state = n.state /\ m.attempts = n.attempts /\ m.stalls = n.stalls
  BY DEF Notice
<1>3. m \in Notice
  BY DEF Notice
<1> HIDE DEF m
<1>4. Accounted(m)
  BY <1>1, <1>2 DEF Accounted
<1>5. QED BY <1>2, <1>3, <1>4 DEF m

LEMMA InboxKeeps ==
    ASSUME NoticesStand, Inbox
    PROVE  NoticesStand'
<1>1. ASSUME NEW i \in DOMAIN notice
      PROVE  notice[i] \in Notice /\ Accounted(notice[i]) /\ notice[i].rows \in Seq(RowState)
  <2>1. notice[i] \in Notice /\ Accounted(notice[i])
    BY DEF NoticesStand
  <2>2. QED BY <2>1 DEF Notice
<1>2. ASSUME NEW i \in DOMAIN notice, NEW k \in DOMAIN notice[i].rows,
             MarkAsRead(i, k) \/ DeleteNotification(i, k)
      PROVE  NoticesStand'
  <2>1. PICK x \in RowState : notice' = [notice EXCEPT ![i].rows[k] = x]
    BY <1>2 DEF MarkAsRead, DeleteNotification, RowState
  <2> DEFINE rows == [notice[i].rows EXCEPT ![k] = x]
  <2>2. rows \in Seq(RowState) /\ Len(rows) = Len(notice[i].rows)
    BY <1>1, <1>2
  <2>3. notice' = [notice EXCEPT ![i] = [notice[i] EXCEPT !.rows = rows]]
    BY <2>1
  <2> HIDE DEF rows
  <2>4. Touches(i, [notice[i] EXCEPT !.rows = rows])
    BY <1>1, <2>2, <2>3, ReadKeeps DEF Touches
  <2>5. QED BY <2>4, TouchKeeps
<1>3. ASSUME NEW u \in User, MarkAllAsRead(u) PROVE NoticesStand'
  <2> DEFINE rows(i) == [k \in DOMAIN notice[i].rows |->
                            IF notice[i].rows[k] = "unread" THEN "read" ELSE notice[i].rows[k]]
             new(i) == IF i \in InboxOf(u) THEN [notice[i] EXCEPT !.rows = rows(i)] ELSE notice[i]
  <2>1. notice' = [i \in DOMAIN notice |-> new(i)]
    BY <1>3 DEF MarkAllAsRead
  <2>2. \A i \in DOMAIN notice : rows(i) \in Seq(RowState) /\ Len(rows(i)) = Len(notice[i].rows)
    <3>1. ASSUME NEW i \in DOMAIN notice
          PROVE  rows(i) \in Seq(RowState) /\ Len(rows(i)) = Len(notice[i].rows)
      <4>1. /\ Len(notice[i].rows) \in Nat /\ DOMAIN notice[i].rows = 1..Len(notice[i].rows)
            /\ \A k \in DOMAIN notice[i].rows : notice[i].rows[k] \in RowState
        BY <1>1
      <4>2. rows(i) \in [1..Len(notice[i].rows) -> RowState]
        BY <4>1 DEF RowState
      <4>3. QED BY <4>1, <4>2
    <3>2. QED BY <3>1
  <2> HIDE DEF rows
  <2>3. \A i \in DOMAIN notice :
           new(i) \in Notice /\ Accounted(new(i))
    BY <1>1, <2>2, ReadKeeps
  <2> HIDE DEF new
  <2>4. notice' \in Seq(Notice)
    <3>1. Len(notice) \in Nat /\ DOMAIN notice = 1..Len(notice)
      BY DEF NoticesStand
    <3>2. notice' \in [1..Len(notice) -> Notice]
      BY <2>1, <2>3, <3>1
    <3>3. QED BY <3>1, <3>2
  <2>5. QED BY <2>1, <2>3, <2>4 DEF NoticesStand
<1>4. QED BY <1>2, <1>3 DEF Inbox

----------------------------------------------------------------------------
(* The rest of the state.                                                  *)

Types ==
    /\ calls \in Nat
    /\ due \subseteq load.due

NoticeInv == IInv /\ Types /\ NoticesStand

LEMMA BeginCounts ==
    ASSUME Types, NEW r \in Request, NEW op, NEW q, Begin(r, op, q)
    PROVE  calls' \in Nat /\ load' = load
BY DEF Begin, Types

\* Handlers that tell somebody of a complaint.
LEMMA NotificationsTell ==
    ASSUME NoticeInv, NEW r \in Request,
           FileNotify(r) \/ FileNotifyAdmins(r) \/ UpdateNotify(r)
    PROVE  NoticesStand' /\ Types'
<1> DEFINE q == request[r]
<1>1. /\ q \in InFlight /\ Admin \subseteq User /\ Complaint \subseteq Subject
      /\ NoticesStand /\ Types
  BY ComplaintAssumption DEF NoticeInv, IInv, ComplaintAssumption
<1>2. Types'
  BY <1>1 DEF FileNotify, FileNotifyAdmins, UpdateNotify, End, Await, Types
<1>3. PICK users \in SUBSET User, about \in Subject, kind \in Kind : Dispatch(users, about, kind)
  <2>1. CASE FileNotify(r) \/ UpdateNotify(r)
    <3>1. q.complaint \in Complaint /\ q.targets \in SUBSET User
      BY <1>1, <2>1, FlightTypes DEF FileNotify, UpdateNotify
    <3>2. \E kind \in Kind : Dispatch(q.targets, q.complaint, kind)
      BY <2>1 DEF FileNotify, UpdateNotify, Kind
    <3>3. QED BY <1>1, <3>1, <3>2
  <2>2. CASE FileNotifyAdmins(r)
    <3>1. q.complaint \in Complaint
      BY <1>1, <2>2, FlightTypes DEF FileNotifyAdmins
    <3>2. \E kind \in Kind : Dispatch(Admin \ {q.by}, q.complaint, kind)
      BY <2>2 DEF FileNotifyAdmins, Kind
    <3>3. Admin \ {q.by} \in SUBSET User
      BY <1>1
    <3>4. QED BY <1>1, <3>1, <3>2, <3>3
  <2>3. QED BY <2>1, <2>2
<1>4. NoticesStand'
  BY <1>1, <1>3, DispatchAppends
<1>5. QED BY <1>2, <1>4

\* The queue, the cron of deadlines, the inbox.
LEMMA QueueTells ==
    ASSUME NoticeInv,
           \/ Notify(NotificationStep)
           \/ Inbox \/ WarnFails
           \/ UNCHANGED vars
    PROVE  NoticesStand' /\ Types'
<1>1. Types /\ NoticesStand /\ load \in Load /\ load' = load /\ calls' \in Nat
  BY DEF NoticeInv, IInv, Types, Notify, Inbox, WarnFails, frame, vars
<1>2. CASE Inbox
  BY <1>1, <1>2, InboxKeeps DEF Inbox, Types
<1>3. CASE WarnFails
  BY <1>1, <1>3 DEF WarnFails, Types, NoticesStand
<1>4. CASE Notify(NotificationStep)
  <2>1. CASE (Work \/ \E i \in DOMAIN notice : Stall(i)) /\ UNCHANGED due
    BY <1>1, <2>1, WorkKeeps DEF Types
  <2>2. CASE WarnRead /\ UNCHANGED notice
    BY <1>1, <2>2 DEF WarnRead, Unwarned, Types, NoticesStand
  <2>3. ASSUME NEW d \in due, WarnDispatch(d) PROVE NoticesStand' /\ Types'
    <3>1. d.task \in Subject /\ {d.user} \in SUBSET User
      BY <1>1, <2>3, ComplaintAssumption DEF Types, ComplaintAssumption
    <3>2. NoticesStand'
      BY <1>1, <2>3, <3>1, DispatchAppends DEF WarnDispatch, Kind
    <3>3. QED BY <1>1, <2>3, <3>2 DEF WarnDispatch, Types
  <2>4. QED BY <1>4, <2>1, <2>2, <2>3 DEF Notify, NotificationStep
<1>5. CASE UNCHANGED vars
  BY <1>1, <1>5 DEF vars, NoticesStand, Types
<1>6. QED BY <1>2, <1>3, <1>4, <1>5

LEMMA NoticesInit == Init => NoticeInv
<1> SUFFICES ASSUME Init PROVE NoticeInv
  OBVIOUS
<1>1. IInv /\ notice = <<>> /\ due = {} /\ calls = 0
  BY InitHolds DEF Init, RequestsInit, NotificationsInit
<1>2. QED BY <1>1 DEF NoticeInv, Types, NoticesStand

LEMMA NoticesStep ==
    ASSUME NoticeInv, [Next]_vars
    PROVE  NoticeInv'
<1>1. IInv' /\ NoticesStand /\ Types
  BY StepHolds DEF NoticeInv
<1>2. ASSUME UNCHANGED <<notice, due, load>>, calls' \in Nat PROVE NoticesStand' /\ Types'
  BY <1>1, <1>2 DEF NoticesStand, Types
<1>3. ASSUME NEW r \in Request, HandlerStep(r) PROVE NoticesStand' /\ Types'
  <2>1. ASSUME NEW c \in Complaint, NEW u \in User,
               \/ \E targets \in SUBSET User : FileCommit(r, c, u, targets)
               \/ \E status \in Status : UpdateRead(r, c, u, status)
               \/ DeleteRead(r, c, u)
        PROVE  NoticesStand' /\ Types'
    BY <1>1, <1>2, <2>1, BeginCounts DEF FileCommit, UpdateRead, DeleteRead
  <2>2. CASE UpdateCommit(r) \/ DeleteCommit(r) \/ Fail(r)
    <3>1. UNCHANGED <<notice, due, load, calls>>
      BY <2>2 DEF UpdateCommit, DeleteCommit, Fail, End, Await
    <3>2. QED BY <1>1, <1>2, <3>1 DEF Types
  <2>3. QED BY <1>3, <2>1, <2>2, NotificationsTell DEF HandlerStep
<1>4. ASSUME LateCron \/ \E c \in Complaint : Age(c) PROVE NoticesStand' /\ Types'
  <2>1. UNCHANGED <<notice, due, load, calls>>
    BY <1>4 DEF LateCron, MarkLate, Tick, AnnounceLate, LateRunFails, Age, frame
  <2>2. QED BY <1>1, <1>2, <2>1 DEF Types
<1>5. QED BY <1>1, <1>3, <1>4, QueueTells DEF Next, NoticeInv

LEMMA NoticesHold == Spec => []NoticeInv
BY NoticesInit, NoticesStep, PTL DEF Spec

\* TypeOK of Complaints, with the notices: among its types, no job is started
\* more often than its attempts and its one stall allow.
THEOREM ComplaintsTypeCorrect == Spec => []TypeOK
<1>1. NoticeInv => TypeOK
  BY DEF NoticeInv, IInv, Types, NoticesStand, TypeOK, NotificationsTypeOK
<1>2. QED BY <1>1, NoticesHold, PTL

\* RowsAreAccountedFor: processDispatch leaves a row for every start that got as
\* far as the insert, at most four of one notice, and one at least of a notice
\* that is done, whatever the user does to the inbox meanwhile.
THEOREM InboxIsAccountedFor == Spec => []RowsAreAccountedFor
<1>1. NoticeInv => RowsAreAccountedFor
  <2>1. ASSUME NoticeInv, NEW i \in DOMAIN notice
        PROVE  LET n == notice[i]
                   tries == n.attempts + n.stalls + (IF n.state \in {"written", "done"} THEN 1 ELSE 0)
               IN /\ n.state \in {"written", "done"} => n.rows # <<>>
                  /\ Len(n.rows) <= tries /\ Len(n.rows) <= 4
    <3>1. notice[i] \in Notice /\ Accounted(notice[i])
      BY <2>1 DEF NoticeInv, NoticesStand
    <3>2. Len(notice[i].rows) \in Nat /\ notice[i].attempts \in 0..3 /\ notice[i].stalls \in 0..2
      BY <3>1 DEF Notice
    <3>3. Len(notice[i].rows) <= 4
      BY <3>1, <3>2 DEF Accounted
    <3>4. QED BY <3>1, <3>3 DEF Accounted
  <2>2. QED BY <2>1 DEF RowsAreAccountedFor
<1>2. QED BY <1>1, NoticesHold, PTL
=============================================================================
