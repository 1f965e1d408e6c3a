-------------------------- MODULE TaskSafetyProofs --------------------------
(***************************************************************************)
(* The ratings of TaskPerformance; its type correctness; and the contract  *)
(* of its handlers called one at a time (a singleton Request).  For any    *)
(* users, tasks and bounds.                                                *)
(***************************************************************************)
EXTENDS TaskPerformance, FiniteSetTheorems, TLAPS

----------------------------------------------------------------------------
(* Ratings.                                                                *)

\* The four counts of a user are numbers, whatever the rows say.
LEMMA ActualCounts ==
    ASSUME NEW u PROVE Actual(u) \in Counts
<1>1. \A S : Cardinality({t \in Task : task[t].assignee = u /\ task[t].status \in S}) \in Nat
  <2>1. ASSUME NEW S
        PROVE Cardinality({t \in Task : task[t].assignee = u /\ task[t].status \in S}) \in Nat
    <3>1. IsFiniteSet({t \in Task : task[t].assignee = u /\ task[t].status \in S})
      BY FS_Subset, TaskAssumption DEF TaskAssumption
    <3>2. QED BY <3>1, FS_CardinalityType
  <2>2. QED BY <2>1
<1>2. QED BY <1>1 DEF Actual, Counts

\* A score without overdue tasks is at least 50, and is exactly 50 only when
\* every term but the 50 is zero, so that rounding cannot take it below.
LEMMA RatedByOverdue ==
    ASSUME NEW c \in Counts, "NeedsImprovement" \in Ratings(c)
    PROVE  c.overdue > 0
<1>1. c.assigned # 0 /\ MayMiss(c, 50)
  BY DEF Ratings, RatingNames
<1>2. \A a, n, l, o \in Nat :
         \/ 50 * a + 50 * n - 40 * o + 10 * (n + l) + 10 * l < 50 * a
         \/ 50 * a + 50 * n - 40 * o + 10 * (n + l) + 10 * l = 50 * a /\ n + l + o > 0
         => o > 0
  OBVIOUS
<1>3. c.assigned \in Nat /\ c.onTime \in Nat /\ c.late \in Nat /\ c.overdue \in Nat
  BY DEF Counts
<1>4. QED BY <1>1, <1>2, <1>3, Zenon DEF MayMiss, Points

\* What is recorded, and what the worker has counted, are counts of tasks,
\* and every recorded rating is one the recorded counts can get.
RecordsAreRated ==
    /\ DOMAIN record = User
    /\ \A u \in User : record[u] # Nil =>
          record[u].counts \in Counts /\ record[u].rating \in Ratings(record[u].counts)
    /\ worker # Nil /\ worker.user # Nil => worker.user \in User /\ worker.counts \in Counts

\* No handler and no cron touches the records or the worker.
LEMMA RequestsLeaveRecords ==
    ASSUME NEW r \in Request, HandlerStep(r) \/ Continue(r) \/ Fail(r)
    PROVE  UNCHANGED <<record, worker>>
<1>1. CASE HandlerStep(r)
  BY <1>1 DEF HandlerStep, CreateTask, UpdateRead, UpdateStatusRead, RemoveRead, AddSubTaskRead,
              OverdueRead, RecalculateAll
<1>2. CASE Continue(r)
  BY <1>2 DEF Continue, UpdateWalk, UpdateCommit, UpdateStatusCommit, RemoveCommit,
              AddSubTaskCommit, OverdueCommit, Enqueue
<1>3. CASE Fail(r)
  BY <1>3 DEF Fail
<1>4. QED BY <1>1, <1>2, <1>3

\* Every step keeps the records rated by their own counts.
LEMMA RecordsStayRated ==
    ASSUME RecordsAreRated, [Next]_vars
    PROVE  RecordsAreRated'
<1>1. CASE UNCHANGED <<record, worker>>
  BY <1>1 DEF RecordsAreRated
<1>2. CASE TakeJob
  BY <1>2 DEF TakeJob, RecordsAreRated
<1>3. ASSUME NEW u \in User, RecalculateRead(u)
      PROVE  RecordsAreRated'
  <2>1. Actual(u) \in Counts
    BY ActualCounts
  <2>2. /\ UNCHANGED record
        /\ worker' = [worker EXCEPT !.user = u, !.counts = Actual(u)]
    BY <1>3 DEF RecalculateRead
  <2>3. QED BY <2>1, <2>2 DEF RecordsAreRated
<1>4. ASSUME NEW x \in RatingNames, RecalculateWrite(x)
      PROVE  RecordsAreRated'
  <2>1. /\ worker # Nil /\ worker.user # Nil
        /\ x \in Ratings(worker.counts)
        /\ record' = [record EXCEPT ![worker.user] = [counts |-> worker.counts, rating |-> x]]
    BY <1>4 DEF RecalculateWrite
  <2>2. worker.user \in User /\ worker.counts \in Counts
    BY <2>1 DEF RecordsAreRated
  <2>3. DOMAIN record' = User
    BY <2>1 DEF RecordsAreRated
  <2>4. ASSUME NEW u \in User, record'[u] # Nil
        PROVE  record'[u].counts \in Counts /\ record'[u].rating \in Ratings(record'[u].counts)
    BY <2>1, <2>2, <2>4 DEF RecordsAreRated
  <2>5. worker' = Nil \/ worker'.user = Nil
    BY <1>4 DEF RecalculateWrite
  <2>6. QED BY <2>3, <2>4, <2>5 DEF RecordsAreRated, Ratings, MayReach, MayMiss, Points
<1>5. CASE JobFails
  BY <1>5 DEF JobFails, RecordsAreRated
<1>6. QED
  <2>1. CASE \E r \in Request : HandlerStep(r) \/ Continue(r) \/ Fail(r)
    BY <1>1, <2>1, RequestsLeaveRecords
  <2>2. CASE \E t \in Task : DeadlinePasses(t)
    BY <1>1, <2>2 DEF DeadlinePasses
  <2>3. CASE UNCHANGED vars
    BY <1>1, <2>3 DEF vars
  <2>4. QED BY <1>2, <1>3, <1>4, <1>5, <2>1, <2>2, <2>3 DEF Next, WorkerStep

\* NeedsImprovementMeansOverdue: the score of recalculateForUser never rates
\* "Needs Improvement" a user without overdue tasks, however jobs and handlers
\* interleave, events are lost or jobs fail.
THEOREM OnlyOverdueNeedsImprovement == Spec => []NeedsImprovementMeansOverdue
<1>1. Init => RecordsAreRated
  BY DEF Init, StoreInit, RecordsAreRated
<1>2. RecordsAreRated /\ [Next]_vars => RecordsAreRated'
  BY RecordsStayRated
<1>3. RecordsAreRated => NeedsImprovementMeansOverdue
  <2>1. ASSUME RecordsAreRated, NEW u \in User, record[u] # Nil,
               record[u].rating = "NeedsImprovement"
        PROVE  record[u].counts.overdue > 0
    <3>1. record[u].counts \in Counts /\ "NeedsImprovement" \in Ratings(record[u].counts)
      BY <2>1 DEF RecordsAreRated
    <3>2. QED BY <3>1, RatedByOverdue
  <2>2. QED BY <2>1 DEF NeedsImprovementMeansOverdue
<1>4. QED BY <1>1, <1>2, <1>3, PTL DEF Spec

----------------------------------------------------------------------------
(* Types.                                                                  *)

\* What a request in flight carries, by its operation.
LEMMA InFlightFields ==
    ASSUME NEW q \in InFlight
    PROVE  /\ q.op = "updateWalk" =>
                 q \in [op: {"updateWalk"}, task: Task, change: Change, assignee: User,
                        current: Task, visited: SUBSET Task]
           /\ q.op = "update" => q.task \in Task /\ q.change \in Changes /\ q.assignee \in User
           /\ q.op = "updateStatus" =>
                 q.task \in Task /\ q.status \in Settable /\ q.assignee \in User /\ q.stamp \in BOOLEAN
           /\ q.op = "remove" => q.task \in Task /\ q.assignee \in User
           /\ q.op = "addSubTask" => q.task \in Task
           /\ q.op = "overdue" => q.tasks \subseteq Task /\ q.assignees \subseteq User
           /\ q.op = "publish" => q.users \subseteq User
<1>1. Change \subseteq Changes
  BY TaskAssumption DEF TaskAssumption
<1>2. QED BY <1>1 DEF InFlight, Idle

\* Steps of requests: what a slot is given must be of the type.
LEMMA BeginTyped ==
    ASSUME TypeOK, NEW r \in Request, NEW op, NEW q \in InFlight, Begin(r, op, q)
    PROVE  request' \in [Request -> InFlight] /\ calls' \in 0..MaxCalls
<1>1. MaxCalls \in Nat
  BY TaskAssumption DEF TaskAssumption
<1>2. QED BY <1>1 DEF TypeOK, Begin

LEMMA AwaitTyped ==
    ASSUME TypeOK, NEW r \in Request, NEW q \in InFlight, Await(r, q)
    PROVE  request' \in [Request -> InFlight] /\ calls' \in 0..MaxCalls
BY DEF TypeOK, Await

LEMMA PublishTyped ==
    ASSUME TypeOK, NEW r \in Request, NEW S \in SUBSET User, Publish(r, S)
    PROVE  request' \in [Request -> InFlight] /\ calls' \in 0..MaxCalls
<1>1. [op |-> "publish", users |-> S] \in InFlight
  BY DEF InFlight
<1>2. QED BY <1>1, AwaitTyped DEF Publish

LEMMA EndTyped ==
    ASSUME TypeOK, NEW r \in Request, End(r)
    PROVE  request' \in [Request -> InFlight] /\ calls' \in 0..MaxCalls
<1>1. Idle \in InFlight
  BY DEF InFlight
<1>2. QED BY <1>1, AwaitTyped DEF End

\* The columns of the task table have their types, and a task has an assignee.
TasksTyped ==
    /\ task \in [Task -> TaskRow]
    /\ \A t \in Task : Exists(t) => task[t].assignee \in User

\* A step that leaves records, worker, queue and history alone keeps the types
\* if it keeps those of the rows and of the requests.
LEMMA TypedByParts ==
    ASSUME TypeOK, UNCHANGED <<record, queue, worker, lost>>, TasksTyped',
           request' \in [Request -> InFlight] /\ calls' \in 0..MaxCalls
    PROVE  TypeOK'
BY DEF TypeOK, TasksTyped

LEMMA TasksStayTyped ==
    ASSUME TypeOK, UNCHANGED task PROVE TasksTyped'
BY DEF TypeOK, TasksTyped, Exists

LEMMA RowTyped ==
    ASSUME TypeOK, NEW t \in Task, NEW row \in TaskRow,
           row.status \notin {"UNBORN", "DELETED"} => row.assignee \in User,
           task' = [task EXCEPT ![t] = row]
    PROVE  TasksTyped'
BY DEF TypeOK, TasksTyped, Exists

\* The reads of the handlers, and creation.
LEMMA HandlersTyped ==
    ASSUME TypeOK, NEW r \in Request, HandlerStep(r)
    PROVE  TypeOK'
<1>1. Nil \notin User \cup Task
  BY TaskAssumption DEF TaskAssumption
<1>2. ASSUME NEW t \in Task, NEW u \in User, CreateTask(r, t, u) PROVE TypeOK'
  <2>1. task' = [task EXCEPT ![t] = [NoRow("NOT_STARTED") EXCEPT !.assignee = u]]
    BY <1>2 DEF CreateTask
  <2>2. [NoRow("NOT_STARTED") EXCEPT !.assignee = u] \in TaskRow
    BY DEF NoRow, TaskRow, TaskStatus
  <2>3. [NoRow("NOT_STARTED") EXCEPT !.assignee = u].assignee = u
    BY DEF NoRow
  <2>4. TasksTyped'
    BY <2>1, <2>2, <2>3 DEF TypeOK, TasksTyped, Exists
  <2>5. [op |-> "publish", users |-> {u}] \in InFlight
    BY DEF InFlight
  <2>6. QED BY <1>2, <2>4, <2>5, BeginTyped, TypedByParts DEF CreateTask
<1>3. ASSUME NEW t \in Task, NEW ch \in Change, UpdateRead(r, t, ch) PROVE TypeOK'
  <2> DEFINE walks == ch.dependsOn \in Task /\ ch.dependsOn # task[t].dependsOn
             walk == [op |-> "updateWalk", task |-> t, change |-> ch, assignee |-> task[t].assignee,
                      current |-> ch.dependsOn, visited |-> {}]
             upd == [op |-> "update", task |-> t, change |-> ch, assignee |-> task[t].assignee]
  <2>1. task[t].assignee \in User
    BY <1>3 DEF UpdateRead, TypeOK
  <2>2. (IF walks THEN walk ELSE upd) \in InFlight
    <3>1. upd \in InFlight
      BY <2>1 DEF InFlight
    <3>2. walks => walk \in InFlight
      BY <2>1 DEF InFlight
    <3>3. QED BY <3>1, <3>2
  <2>3. Begin(r, "update", IF walks THEN walk ELSE upd) /\ UNCHANGED <<task, record, queue, worker, lost>>
    BY <1>3 DEF UpdateRead
  <2> HIDE DEF walks, walk, upd
  <2>4. QED BY <2>2, <2>3, BeginTyped, TasksStayTyped, TypedByParts
<1>4. ASSUME NEW t \in Task, NEW new \in TaskStatus, UpdateStatusRead(r, t, new) PROVE TypeOK'
  <2> DEFINE status == IF new = "COMPLETED" /\ task[t].status = "OVERDUE" THEN "COMPLETED_LATE" ELSE new
             q == [op |-> "updateStatus", task |-> t, assignee |-> task[t].assignee,
                   status |-> status, stamp |-> new = "COMPLETED"]
  <2>1. task[t].assignee \in User /\ status \in Settable /\ (new = "COMPLETED") \in BOOLEAN
    BY <1>4 DEF UpdateStatusRead, TypeOK, Settable, Done
  <2>2. q \in InFlight
    BY <2>1 DEF InFlight
  <2>3. Begin(r, "updateStatus", q) /\ UNCHANGED <<task, record, queue, worker, lost>>
    BY <1>4 DEF UpdateStatusRead
  <2> HIDE DEF q
  <2>4. QED BY <2>2, <2>3, BeginTyped, TasksStayTyped, TypedByParts
<1>5. ASSUME NEW t \in Task, RemoveRead(r, t) PROVE TypeOK'
  <2>1. [op |-> "remove", task |-> t, assignee |-> task[t].assignee] \in InFlight
    BY <1>5 DEF RemoveRead, TypeOK, InFlight
  <2>2. QED BY <1>5, <2>1, BeginTyped, TasksStayTyped, TypedByParts DEF RemoveRead
<1>6. ASSUME NEW t \in Task, AddSubTaskRead(r, t) PROVE TypeOK'
  <2>1. [op |-> "addSubTask", task |-> t] \in InFlight
    BY DEF InFlight
  <2>2. QED BY <1>6, <2>1, BeginTyped, TasksStayTyped, TypedByParts DEF AddSubTaskRead
<1>7. CASE OverdueRead(r)
  <2> DEFINE late == {t \in Task : task[t].overdue /\ task[t].status \in {"NOT_STARTED", "IN_PROGRESS"}}
             users == {task[t].assignee : t \in late}
             q == [op |-> "overdue", tasks |-> late, assignees |-> users]
  <2>1. late \subseteq Task /\ users \subseteq User
    BY DEF TypeOK, Exists
  <2>2. Begin(r, "overdue", q) /\ UNCHANGED <<task, record, queue, worker, lost>>
    BY <1>7 DEF OverdueRead
  <2> HIDE DEF late, users
  <2>3. q \in InFlight
    BY <2>1 DEF InFlight
  <2> HIDE DEF q
  <2>4. QED BY <2>2, <2>3, BeginTyped, TasksStayTyped, TypedByParts
<1>8. CASE RecalculateAll(r)
  <2> DEFINE users == {task[t].assignee : t \in {t \in Task : Exists(t)}}
             q == [op |-> "publish", users |-> users]
  <2>1. users \subseteq User
    BY DEF TypeOK
  <2>2. Begin(r, "recalculateAll", q) /\ UNCHANGED <<task, record, queue, worker, lost>>
    BY <1>8 DEF RecalculateAll
  <2> HIDE DEF users
  <2>3. q \in InFlight
    BY <2>1 DEF InFlight
  <2> HIDE DEF q
  <2>4. QED BY <2>2, <2>3, BeginTyped, TasksStayTyped, TypedByParts
<1>9. QED BY <1>2, <1>3, <1>4, <1>5, <1>6, <1>7, <1>8 DEF HandlerStep

\* The writes of the handlers, and what follows them.
LEMMA ContinuationsTyped ==
    ASSUME TypeOK, NEW r \in Request, Continue(r) \/ Fail(r)
    PROVE  TypeOK'
<1> DEFINE q == request[r]
<1>1. q \in InFlight /\ Nil \notin User \cup Task
  BY TaskAssumption DEF TypeOK, TaskAssumption
<1> HIDE DEF q
<1>2. CASE UpdateWalk(r)
  <2> DEFINE parent == IF Exists(q.current) THEN task[q.current].dependsOn ELSE Nil
             upd == [op |-> "update", task |-> q.task, change |-> q.change, assignee |-> q.assignee]
             walk == [q EXCEPT !.current = parent, !.visited = @ \cup {q.current}]
  <2>1. q \in [op: {"updateWalk"}, task: Task, change: Change, assignee: User,
               current: Task, visited: SUBSET Task]
    BY <1>1, <1>2, InFlightFields DEF UpdateWalk, q
  <2>2. upd \in InFlight
    BY <2>1 DEF InFlight
  <2>3. parent # Nil => walk \in InFlight
    <3>1. parent # Nil => parent \in Task
      BY <2>1 DEF TypeOK, TaskRow
    <3>2. q.visited \cup {q.current} \in SUBSET Task
      BY <2>1
    <3>3. parent # Nil =>
             walk \in [op: {"updateWalk"}, task: Task, change: Change, assignee: User,
                      current: Task, visited: SUBSET Task]
      <4> HIDE DEF parent
      <4>1. QED BY <2>1, <3>1, <3>2
    <3>4. QED BY <3>3 DEF InFlight
  <2>4. /\ Await(r, upd) \/ (parent # Nil /\ Await(r, walk))
        /\ UNCHANGED <<task, record, queue, worker, lost>>
    BY <1>2 DEF UpdateWalk, q
  <2> HIDE DEF parent, upd, walk
  <2>5. QED BY <2>2, <2>3, <2>4, AwaitTyped, TasksStayTyped, TypedByParts
<1>3. CASE UpdateCommit(r)
  <2>1. q.task \in Task /\ q.change \in Changes /\ q.assignee \in User
    BY <1>1, <1>3, InFlightFields DEF UpdateCommit, q
  <2>2. /\ Exists(q.task) /\ task' = [task EXCEPT ![q.task] = Changed(@, q.change)]
        /\ UNCHANGED <<record, queue, worker, lost>>
        /\ IF q.change.assignee \notin {Nil, q.assignee}
           THEN Publish(r, {q.assignee, q.change.assignee}) ELSE End(r)
    BY <1>3 DEF UpdateCommit, q
  <2>3. task[q.task] \in TaskRow /\ task[q.task].assignee \in User
    BY <2>1, <2>2 DEF TypeOK
  <2>4. Changed(task[q.task], q.change) \in TaskRow /\ Changed(task[q.task], q.change).assignee \in User
    BY <1>1, <2>1, <2>3 DEF Changed, Changes, TaskRow
  <2>5. TasksTyped'
    BY <2>1, <2>2, <2>4 DEF TypeOK, TasksTyped, Exists
  <2>6. q.change.assignee # Nil => {q.assignee, q.change.assignee} \in SUBSET User
    BY <2>1 DEF Changes
  <2>7. request' \in [Request -> InFlight] /\ calls' \in 0..MaxCalls
    BY <2>2, <2>6, PublishTyped, EndTyped
  <2>8. QED BY <2>2, <2>5, <2>7, TypedByParts
<1>4. CASE UpdateStatusCommit(r)
  <2>1. q.task \in Task /\ q.status \in Settable /\ q.assignee \in User /\ q.stamp \in BOOLEAN
    BY <1>1, <1>4, InFlightFields DEF UpdateStatusCommit, q
  <2>2. /\ Exists(q.task) /\ Publish(r, {q.assignee})
        /\ task' = [task EXCEPT ![q.task].status = q.status, ![q.task].completedAt = q.stamp]
        /\ UNCHANGED <<record, queue, worker, lost>>
    BY <1>4 DEF UpdateStatusCommit, q
  <2>3. TasksTyped'
    <3> DEFINE row == [task[q.task] EXCEPT !.status = q.status, !.completedAt = q.stamp]
    <3>1. task[q.task] \in TaskRow /\ task[q.task].assignee \in User
      BY <2>1, <2>2 DEF TypeOK
    <3>2. row \in TaskRow /\ row.assignee \in User
      BY <2>1, <3>1 DEF TaskRow, TaskStatus, Settable
    <3>3. task' = [task EXCEPT ![q.task] = row]
      BY <2>1, <2>2, <3>1 DEF TypeOK, TaskRow
    <3> HIDE DEF row
    <3>4. QED BY <2>1, <3>2, <3>3, RowTyped
  <2>4. {q.assignee} \in SUBSET User
    BY <2>1
  <2>5. QED BY <2>2, <2>3, <2>4, PublishTyped, TypedByParts
<1>5. CASE RemoveCommit(r)
  <2>1. q.task \in Task /\ q.assignee \in User
    BY <1>1, <1>5, InFlightFields DEF RemoveCommit, q
  <2>2. /\ Publish(r, {q.assignee})
        /\ task' = [t \in Task |->
              IF t = q.task THEN NoRow("DELETED")
              ELSE IF task[t].dependsOn = q.task THEN [task[t] EXCEPT !.dependsOn = Nil]
              ELSE task[t]]
        /\ UNCHANGED <<record, queue, worker, lost>>
    BY <1>5 DEF RemoveCommit, q
  <2>3. NoRow("DELETED") \in TaskRow /\ NoRow("DELETED").status = "DELETED"
    BY DEF NoRow, TaskRow, TaskStatus
  <2>4. TasksTyped'
    BY <2>2, <2>3 DEF TypeOK, TasksTyped, Exists, TaskRow
  <2>5. {q.assignee} \in SUBSET User
    BY <2>1
  <2>6. QED BY <2>2, <2>4, <2>5, PublishTyped, TypedByParts
<1>6. CASE AddSubTaskCommit(r)
  <2>1. q.task \in Task
    BY <1>1, <1>6, InFlightFields DEF AddSubTaskCommit, q
  <2>2. /\ Exists(q.task) /\ End(r)
        /\ task' = [task EXCEPT ![q.task].status = "IN_PROGRESS"]
        /\ UNCHANGED <<record, queue, worker, lost>>
    BY <1>6 DEF AddSubTaskCommit, q
  <2>3. TasksTyped'
    BY <2>1, <2>2 DEF TypeOK, TasksTyped, Exists, TaskRow, TaskStatus
  <2>4. QED BY <2>2, <2>3, EndTyped, TypedByParts
<1>7. CASE OverdueCommit(r)
  <2>1. q.assignees \in SUBSET User
    BY <1>1, <1>7, InFlightFields DEF OverdueCommit, q
  <2>2. /\ Publish(r, q.assignees)
        /\ task' = [t \in Task |->
              IF t \in q.tasks /\ Exists(t) THEN [task[t] EXCEPT !.status = "OVERDUE"] ELSE task[t]]
        /\ UNCHANGED <<record, queue, worker, lost>>
    BY <1>7 DEF OverdueCommit, q
  <2>3. TasksTyped'
    BY <2>2 DEF TypeOK, TasksTyped, Exists, TaskRow, TaskStatus
  <2>4. QED BY <2>1, <2>2, <2>3, PublishTyped, TypedByParts
<1>8. CASE Enqueue(r)
  <2>1. q.users \in SUBSET User
    BY <1>1, <1>8, InFlightFields DEF Enqueue, q
  <2>2. End(r) /\ queue' = Append(queue, q.users) /\ UNCHANGED <<task, record, worker, lost>>
    BY <1>8 DEF Enqueue, q
  <2>3. queue' \in Seq(SUBSET User)
    BY <2>1, <2>2 DEF TypeOK
  <2>4. request' \in [Request -> InFlight] /\ calls' \in 0..MaxCalls
    BY <2>2, EndTyped
  <2>5. QED BY <2>2, <2>3, <2>4 DEF TypeOK, Exists
<1>9. CASE Fail(r)
  <2>1. q.op = "publish" => q.users \subseteq User
    BY <1>1, InFlightFields
  <2>2. End(r) /\ UNCHANGED <<task, record, queue, worker>> /\ lost' \subseteq User
    BY <1>9, <2>1 DEF Fail, TypeOK, q
  <2>3. request' \in [Request -> InFlight] /\ calls' \in 0..MaxCalls
    BY <2>2, EndTyped
  <2>4. QED BY <2>2, <2>3 DEF TypeOK, Exists
<1>10. QED BY <1>2, <1>3, <1>4, <1>5, <1>6, <1>7, <1>8, <1>9 DEF Continue

\* The worker: what it writes are the counts it has read.
LEMMA WorkerTyped ==
    ASSUME TypeOK, RecordsAreRated, WorkerStep \/ JobFails
    PROVE  TypeOK'
<1>1. CASE TakeJob
  <2>1. Head(queue) \in SUBSET User /\ Tail(queue) \in Seq(SUBSET User)
    BY <1>1 DEF TakeJob, TypeOK
  <2>2. worker' \in Job
    BY <1>1, <2>1 DEF TakeJob, Job
  <2>3. queue' \in Seq(SUBSET User) /\ UNCHANGED <<task, record, request, calls, lost>>
    BY <1>1, <2>1 DEF TakeJob
  <2>4. QED BY <2>2, <2>3 DEF TypeOK, Exists
<1>2. ASSUME NEW u \in User, RecalculateRead(u) PROVE TypeOK'
  <2>1. worker \in Job
    BY <1>2 DEF RecalculateRead, TypeOK
  <2>2. worker' \in Job
    BY <1>2, <2>1, ActualCounts DEF RecalculateRead, Job
  <2>3. UNCHANGED <<task, record, queue, request, calls>> /\ lost' \subseteq User
    BY <1>2 DEF RecalculateRead, TypeOK
  <2>4. QED BY <2>2, <2>3 DEF TypeOK, Exists
<1>3. ASSUME NEW x \in RatingNames, RecalculateWrite(x) PROVE TypeOK'
  <2>1. /\ worker # Nil /\ worker.user # Nil
        /\ record' = [record EXCEPT ![worker.user] = [counts |-> worker.counts, rating |-> x]]
        /\ LET left == worker.users \ {worker.user}
           IN worker' = IF left = {} THEN Nil ELSE [users |-> left, user |-> Nil, counts |-> Nil]
        /\ UNCHANGED <<task, queue, request, calls, lost>>
    BY <1>3 DEF RecalculateWrite
  <2>2. worker.users \in SUBSET User /\ worker.user \in User /\ worker.counts \in Counts
    BY <2>1 DEF TypeOK, RecordsAreRated, Job
  <2>3. worker' = Nil \/ worker' \in Job
    BY <2>1, <2>2 DEF Job
  <2>4. DOMAIN record' = User /\ \A u \in User : record'[u] = Nil \/ record'[u] \in RecordRow
    BY <2>1, <2>2 DEF TypeOK, RecordRow
  <2>5. QED BY <2>1, <2>3, <2>4 DEF TypeOK, Exists
<1>4. CASE JobFails
  <2>1. worker' = Nil /\ lost' \subseteq User /\ UNCHANGED <<task, record, queue, request, calls>>
    BY <1>4 DEF JobFails, TypeOK, Job
  <2>2. QED BY <2>1 DEF TypeOK, Exists
<1>5. QED BY <1>1, <1>2, <1>3, <1>4 DEF WorkerStep

LEMMA StepsTyped ==
    ASSUME TypeOK, RecordsAreRated, [Next]_vars
    PROVE  TypeOK'
<1>1. ASSUME NEW t \in Task, DeadlinePasses(t) PROVE TypeOK'
  <2>1. task' = [task EXCEPT ![t].overdue = TRUE] /\ UNCHANGED <<record, queue, worker, request, calls, lost>>
    BY <1>1 DEF DeadlinePasses
  <2>2. TasksTyped'
    <3> DEFINE row == [task[t] EXCEPT !.overdue = TRUE]
    <3>1. Exists(t) /\ task[t] \in TaskRow /\ task[t].assignee \in User
      BY <1>1 DEF DeadlinePasses, TypeOK
    <3>2. row \in TaskRow /\ row.assignee \in User
      BY <3>1 DEF TaskRow
    <3>3. task' = [task EXCEPT ![t] = row]
      BY <2>1, <3>1 DEF TypeOK
    <3> HIDE DEF row
    <3>4. QED BY <3>2, <3>3, RowTyped
  <2>3. request' \in [Request -> InFlight] /\ calls' \in 0..MaxCalls
    BY <2>1 DEF TypeOK
  <2>4. QED BY <2>1, <2>2, <2>3, TypedByParts
<1>2. CASE UNCHANGED vars
  BY <1>2 DEF vars, TypeOK, Exists
<1>3. QED BY <1>1, <1>2, HandlersTyped, ContinuationsTyped, WorkerTyped DEF Next

LEMMA InitTyped == Init => TypeOK
<1>1. MaxCalls \in Nat
  BY TaskAssumption DEF TaskAssumption
<1>2. \A t \in Task : NoRow("UNBORN") \in TaskRow /\ NoRow("UNBORN").status = "UNBORN"
  BY DEF NoRow, TaskRow, TaskStatus
<1>3. Idle \in InFlight
  BY DEF InFlight
<1>4. <<>> \in Seq(SUBSET User)
  OBVIOUS
<1>5. QED BY <1>1, <1>2, <1>3, <1>4 DEF Init, StoreInit, TypeOK, Exists

\* TypeOK of TaskPerformance: among its types, a task that exists has an
\* assignee, and a job of the worker has the counts that its record is given.
THEOREM TasksTypeCorrect == Spec => []TypeOK
<1>1. Init => TypeOK /\ RecordsAreRated
  BY InitTyped DEF Init, StoreInit, RecordsAreRated
<1>2. TypeOK /\ RecordsAreRated /\ [Next]_vars => (TypeOK /\ RecordsAreRated)'
  BY StepsTyped, RecordsStayRated
<1>3. QED BY <1>1, <1>2, PTL DEF Spec

----------------------------------------------------------------------------
(* One handler at a time.                                                  *)

\* What a request that has passed its checks still knows about the rows it
\* will write.  It is true because nothing but deadlines comes in between.
StillChecked(r) ==
    LET q == request[r] IN
    /\ q.op = "updateStatus" => /\ q.stamp <=> q.status \in Done
                                /\ q.status \in Done => PrerequisiteDone(q.task)
    /\ q.op = "remove" => Dependents(q.task) = {}
    /\ q.op = "addSubTask" => ~task[q.task].completedAt
    /\ q.op = "overdue" => \A t \in q.tasks : ~task[t].completedAt

SerialInv ==
    /\ TypeOK
    /\ RecordsAreRated
    /\ StampMeansDone
    /\ \A r \in Request : StillChecked(r)

\* A request that is idle or about to emit its event has nothing left to check.
LEMMA PublishedIsChecked ==
    ASSUME TypeOK, NEW r \in Request, NEW S, Publish(r, S) \/ End(r)
    PROVE  StillChecked(r)'
BY DEF TypeOK, Publish, End, Await, Idle, StillChecked

\* The columns the checks are about, and requests, stay: so do the checks.
LEMMA CheckedStays ==
    ASSUME TypeOK, UNCHANGED request, task' \in [Task -> TaskRow],
           \A t \in Task : /\ task'[t].status = task[t].status
                           /\ task'[t].dependsOn = task[t].dependsOn
                           /\ task'[t].completedAt = task[t].completedAt,
           NEW r \in Request, StillChecked(r)
    PROVE  StillChecked(r)'
<1> DEFINE q == request[r]
<1>1. q \in InFlight /\ q' = q
  BY DEF TypeOK
<1> HIDE DEF q
<1>2. q.op = "updateStatus" /\ q.status \in Done => PrerequisiteDone(q.task)'
  <2>1. q.op = "updateStatus" => q.task \in Task
    BY <1>1, InFlightFields
  <2>2. \A t \in Task : task[t].dependsOn \in Task \cup {Nil}
    BY DEF TypeOK, TaskRow
  <2>3. QED BY <1>1, <2>1, <2>2 DEF StillChecked, PrerequisiteDone, q
<1>3. q.op = "remove" => Dependents(q.task)' = {}
  BY <1>1 DEF StillChecked, Dependents, Exists, q
<1>4. q.op = "addSubTask" => ~task'[q.task].completedAt
  BY <1>1, InFlightFields DEF StillChecked, q
<1>5. q.op = "overdue" => \A t \in q.tasks : ~task'[t].completedAt
  BY <1>1, InFlightFields DEF StillChecked, q
<1>6. QED BY <1>1, <1>2, <1>3, <1>4, <1>5 DEF StillChecked, q

LEMMA StampsStay ==
    ASSUME StampMeansDone,
           \A t \in Task : /\ task'[t].status = task[t].status
                           /\ task'[t].completedAt = task[t].completedAt
    PROVE  StampMeansDone'
BY DEF StampMeansDone, Exists

\* The checks are taken when a handler begins.
LEMMA HandlersCheck ==
    ASSUME SerialInv, NEW r \in Request, HandlerStep(r)
    PROVE  StampMeansDone' /\ StillChecked(r)'
<1>1. TypeOK /\ StampMeansDone
  BY DEF SerialInv
<1>2. ASSUME NEW t \in Task, NEW u \in User, CreateTask(r, t, u)
      PROVE  StampMeansDone' /\ StillChecked(r)'
  <2>1. /\ task' = [task EXCEPT ![t] = [NoRow("NOT_STARTED") EXCEPT !.assignee = u]]
        /\ request' = [request EXCEPT ![r] = [op |-> "publish", users |-> {u}]]
    BY <1>2 DEF CreateTask, Begin
  <2>2. StampMeansDone'
    BY <1>1, <2>1 DEF TypeOK, StampMeansDone, NoRow, Exists, Done
  <2>3. request'[r].op = "publish"
    BY <1>1, <2>1 DEF TypeOK
  <2>4. QED BY <2>2, <2>3 DEF StillChecked
<1>3. CASE UNCHANGED task
  <2>1. StampMeansDone'
    BY <1>1, <1>3, StampsStay
  <2>2. ASSUME NEW t \in Task, NEW ch \in Change, UpdateRead(r, t, ch) PROVE StillChecked(r)'
    <3>1. request'[r].op \in {"updateWalk", "update"}
      BY <1>1, <2>2 DEF UpdateRead, Begin, TypeOK
    <3>2. QED BY <3>1 DEF StillChecked
  <2>3. ASSUME NEW t \in Task, NEW new \in TaskStatus, UpdateStatusRead(r, t, new) PROVE StillChecked(r)'
    <3> DEFINE status == IF new = "COMPLETED" /\ task[t].status = "OVERDUE" THEN "COMPLETED_LATE" ELSE new
    <3>1. request'[r] = [op |-> "updateStatus", task |-> t, assignee |-> task[t].assignee,
                         status |-> status, stamp |-> new = "COMPLETED"]
      BY <1>1, <2>3 DEF UpdateStatusRead, Begin, TypeOK
    <3>2. (new = "COMPLETED") <=> status \in Done
      BY <2>3 DEF UpdateStatusRead, Done
    <3>3. status \in Done => PrerequisiteDone(t)'
      BY <1>3, <2>3, <3>2 DEF UpdateStatusRead, PrerequisiteDone
    <3> HIDE DEF status
    <3>4. /\ request'[r].op = "updateStatus" /\ request'[r].task = t
          /\ request'[r].status = status /\ request'[r].stamp = (new = "COMPLETED")
      BY <3>1
    <3>5. request'[r].stamp <=> request'[r].status \in Done
      BY <3>2, <3>4, Zenon
    <3>6. request'[r].status \in Done => PrerequisiteDone(request[r].task)'
      BY <3>3, <3>4 DEF PrerequisiteDone
    <3>7. QED BY <3>4, <3>5, <3>6 DEF StillChecked
  <2>4. ASSUME NEW t \in Task, RemoveRead(r, t) PROVE StillChecked(r)'
    <3>1. request'[r] = [op |-> "remove", task |-> t, assignee |-> task[t].assignee]
      BY <1>1, <2>4 DEF RemoveRead, Begin, TypeOK
    <3>2. Dependents(t)' = {}
      BY <1>3, <2>4 DEF RemoveRead, Dependents, Exists
    <3>3. QED BY <3>1, <3>2 DEF StillChecked
  <2>5. ASSUME NEW t \in Task, AddSubTaskRead(r, t) PROVE StillChecked(r)'
    <3>1. request'[r] = [op |-> "addSubTask", task |-> t]
      BY <1>1, <2>5 DEF AddSubTaskRead, Begin, TypeOK
    <3>2. ~task'[t].completedAt
      BY <1>1, <1>3, <2>5 DEF AddSubTaskRead, StampMeansDone, Exists, Done
    <3>3. QED BY <3>1, <3>2 DEF StillChecked
  <2>6. ASSUME OverdueRead(r) PROVE StillChecked(r)'
    <3> DEFINE late == {t \in Task : task[t].overdue /\ task[t].status \in {"NOT_STARTED", "IN_PROGRESS"}}
    <3>1. request'[r] = [op |-> "overdue", tasks |-> late, assignees |-> {task[t].assignee : t \in late}]
      BY <1>1, <2>6 DEF OverdueRead, Begin, TypeOK
    <3>2. \A t \in late : ~task'[t].completedAt
      BY <1>1, <1>3 DEF StampMeansDone, Exists, Done
    <3> HIDE DEF late
    <3>3. QED BY <3>1, <3>2 DEF StillChecked
  <2>7. ASSUME RecalculateAll(r) PROVE StillChecked(r)'
    <3>1. request'[r].op = "publish"
      BY <1>1, <2>7 DEF RecalculateAll, Begin, TypeOK
    <3>2. QED BY <3>1 DEF StillChecked
  <2>8. ASSUME NEW t \in Task, NEW u \in User, CreateTask(r, t, u) PROVE StillChecked(r)'
    BY <1>2, <2>8
  <2>9. QED BY <2>1, <2>2, <2>3, <2>4, <2>5, <2>6, <2>7, <2>8 DEF HandlerStep
<1>4. HandlerStep(r) => UNCHANGED task \/ \E t \in Task, u \in User : CreateTask(r, t, u)
  BY DEF HandlerStep, UpdateRead, UpdateStatusRead, RemoveRead, AddSubTaskRead, OverdueRead, RecalculateAll
<1>5. QED BY <1>2, <1>3, <1>4

\* A write on the strength of checks that still hold keeps stamp and status together.
LEMMA WritesKeepStamps ==
    ASSUME SerialInv, NEW r \in Request, Continue(r) \/ Fail(r)
    PROVE  StampMeansDone' /\ StillChecked(r)'
<1> DEFINE q == request[r]
<1>1. /\ TypeOK /\ StampMeansDone /\ StillChecked(r)
      /\ q \in InFlight /\ task \in [Task -> TaskRow]
  BY DEF SerialInv, TypeOK
<1> HIDE DEF q
<1>2. ASSUME UNCHANGED task PROVE StampMeansDone'
  BY <1>1, <1>2, StampsStay
<1>3. CASE UpdateWalk(r)
  <2>1. request'[r].op \in {"updateWalk", "update"} /\ UNCHANGED task
    <3> DEFINE parent == IF Exists(q.current) THEN task[q.current].dependsOn ELSE Nil
               walk == [q EXCEPT !.current = parent, !.visited = @ \cup {q.current}]
    <3>1. q.op = "updateWalk" /\ UNCHANGED task
      BY <1>3 DEF UpdateWalk, q
    <3>2. walk.op = "updateWalk"
      BY <1>1, <3>1, InFlightFields
    <3>3. request'[r] = walk \/ request'[r].op = "update"
      BY <1>1, <1>3 DEF UpdateWalk, Await, TypeOK, q
    <3> HIDE DEF walk
    <3>4. QED BY <3>1, <3>2, <3>3
  <2>2. QED BY <1>2, <2>1 DEF StillChecked
<1>4. CASE UpdateCommit(r)
  <2>1. /\ q.task \in Task /\ task' = [task EXCEPT ![q.task] = Changed(@, q.change)]
        /\ Publish(r, {q.assignee, q.change.assignee}) \/ End(r)
    BY <1>1, <1>4, InFlightFields DEF UpdateCommit, q
  <2>2. \A t \in Task : task'[t].status = task[t].status /\ task'[t].completedAt = task[t].completedAt
    BY <1>1, <2>1 DEF Changed, TaskRow
  <2>3. QED BY <1>1, <2>1, <2>2, StampsStay, PublishedIsChecked
<1>5. CASE UpdateStatusCommit(r)
  <2>1. /\ q.task \in Task /\ (q.stamp <=> q.status \in Done) /\ Publish(r, {q.assignee})
        /\ task' = [task EXCEPT ![q.task].status = q.status, ![q.task].completedAt = q.stamp]
    BY <1>1, <1>5, InFlightFields DEF UpdateStatusCommit, StillChecked, q
  <2>2. task'[q.task].status = q.status /\ task'[q.task].completedAt = q.stamp
    BY <1>1, <2>1 DEF TaskRow
  <2>3. \A t \in Task \ {q.task} : task'[t] = task[t]
    BY <1>1, <2>1
  <2>4. StampMeansDone'
    BY <1>1, <2>1, <2>2, <2>3 DEF StampMeansDone, Exists
  <2>5. QED BY <1>1, <2>1, <2>4, PublishedIsChecked
<1>6. CASE RemoveCommit(r)
  <2>1. /\ Publish(r, {q.assignee})
        /\ task' = [t \in Task |->
              IF t = q.task THEN NoRow("DELETED")
              ELSE IF task[t].dependsOn = q.task THEN [task[t] EXCEPT !.dependsOn = Nil]
              ELSE task[t]]
    BY <1>6 DEF RemoveCommit, q
  <2>2. \A t \in Task : \/ task'[t].status = "DELETED"
                        \/ task'[t].status = task[t].status /\ task'[t].completedAt = task[t].completedAt
    BY <1>1, <2>1 DEF TaskRow, NoRow
  <2>3. StampMeansDone'
    BY <1>1, <2>2 DEF StampMeansDone, Exists
  <2>4. QED BY <1>1, <2>1, <2>3, PublishedIsChecked
<1>7. CASE AddSubTaskCommit(r)
  <2>1. /\ q.task \in Task /\ ~task[q.task].completedAt /\ End(r)
        /\ task' = [task EXCEPT ![q.task].status = "IN_PROGRESS"]
    BY <1>1, <1>7, InFlightFields DEF AddSubTaskCommit, StillChecked, q
  <2>2. task'[q.task].status = "IN_PROGRESS" /\ ~task'[q.task].completedAt
    BY <1>1, <2>1 DEF TaskRow
  <2>3. \A t \in Task \ {q.task} : task'[t] = task[t]
    BY <1>1, <2>1
  <2>4. StampMeansDone'
    BY <1>1, <2>1, <2>2, <2>3 DEF StampMeansDone, Exists, Done
  <2>5. QED BY <1>1, <2>1, <2>4, PublishedIsChecked
<1>8. CASE OverdueCommit(r)
  <2>1. /\ Publish(r, q.assignees) /\ (\A t \in q.tasks : ~task[t].completedAt)
        /\ task' = [t \in Task |->
              IF t \in q.tasks /\ Exists(t) THEN [task[t] EXCEPT !.status = "OVERDUE"] ELSE task[t]]
    BY <1>8, <1>1 DEF OverdueCommit, StillChecked, q
  <2>2. \A t \in Task : \/ task'[t].status = "OVERDUE" /\ ~task'[t].completedAt
                        \/ task'[t] = task[t]
    BY <1>1, <2>1 DEF TaskRow
  <2>3. StampMeansDone'
    BY <1>1, <2>2 DEF StampMeansDone, Exists, Done
  <2>4. QED BY <1>1, <2>1, <2>3, PublishedIsChecked
<1>9. CASE Enqueue(r) \/ Fail(r)
  <2>1. UNCHANGED task /\ End(r)
    BY <1>9 DEF Enqueue, Fail
  <2>2. QED BY <1>1, <1>2, <2>1, PublishedIsChecked
<1>10. QED BY <1>3, <1>4, <1>5, <1>6, <1>7, <1>8, <1>9 DEF Continue

\* With one slot, the step of a request disturbs no other request.
LEMMA SerialStep ==
    ASSUME \A r, s \in Request : r = s, SerialInv, [Next]_vars
    PROVE  SerialInv'
<1>1. TypeOK' /\ RecordsAreRated'
  BY StepsTyped, RecordsStayRated DEF SerialInv
<1>2. CASE \E r \in Request : HandlerStep(r) \/ Continue(r) \/ Fail(r)
  BY <1>1, <1>2, HandlersCheck, WritesKeepStamps DEF SerialInv
<1>3. CASE /\ UNCHANGED request
           /\ \A t \in Task : /\ task'[t].status = task[t].status
                              /\ task'[t].dependsOn = task[t].dependsOn
                              /\ task'[t].completedAt = task[t].completedAt
  <2>1. task' \in [Task -> TaskRow] /\ TypeOK /\ StampMeansDone /\ \A r \in Request : StillChecked(r)
    BY <1>1 DEF TypeOK, SerialInv
  <2>2. \A r \in Request : StillChecked(r)'
    BY <1>3, <2>1, CheckedStays
  <2>3. StampMeansDone'
    BY <1>3, <2>1, StampsStay
  <2>4. QED BY <1>1, <2>2, <2>3 DEF SerialInv
<1>4. CASE UNCHANGED <<task, request>>
  BY <1>3, <1>4
<1>5. ASSUME NEW t \in Task, DeadlinePasses(t) PROVE SerialInv'
  <2>1. task' = [task EXCEPT ![t].overdue = TRUE] /\ UNCHANGED request /\ task \in [Task -> TaskRow]
    BY <1>5 DEF DeadlinePasses, SerialInv, TypeOK
  <2>2. \A s \in Task : /\ task'[s].status = task[s].status
                        /\ task'[s].dependsOn = task[s].dependsOn
                        /\ task'[s].completedAt = task[s].completedAt
    BY <2>1 DEF TaskRow
  <2>3. QED BY <1>3, <2>1, <2>2
<1>6. WorkerStep \/ JobFails \/ UNCHANGED vars => UNCHANGED <<task, request>>
  BY DEF WorkerStep, TakeJob, RecalculateRead, RecalculateWrite, JobFails, vars
<1>7. QED BY <1>2, <1>4, <1>5, <1>6 DEF Next

LEMMA SerialInit == Init => SerialInv
<1>1. Init => TypeOK
  BY InitTyped
<1>2. Init => StampMeansDone
  BY DEF Init, StoreInit, StampMeansDone, Exists, NoRow
<1>3. Init => \A r \in Request : StillChecked(r)
  BY DEF Init, StoreInit, StillChecked, Idle
<1>4. Init => RecordsAreRated
  BY DEF Init, StoreInit, RecordsAreRated
<1>5. QED BY <1>1, <1>2, <1>3, <1>4 DEF SerialInv

\* StampMeansDone: with handlers and cron called one at a time, the completion
\* stamp that updateStatus writes agrees with the status that four handlers and
\* the overdue cron write.
THEOREM StampsAgree ==
    ASSUME \A r, s \in Request : r = s
    PROVE  Spec => []StampMeansDone
<1>1. SerialInv /\ [Next]_vars => SerialInv'
  BY SerialStep
<1>2. SerialInv => StampMeansDone
  BY DEF SerialInv
<1>3. QED BY <1>1, <1>2, SerialInit, PTL DEF Spec

\* What a step may do to the task t: the action of PrerequisitesComeFirst.
ComesAfter(t) ==
    /\ task'[t].status \in Done /\ task[t].status \notin Done => PrerequisiteDone(t)
    /\ task'[t].status = "DELETED" /\ Exists(t) => Dependents(t) = {}

LEMMA SettledTasks ==
    ASSUME NEW t \in Task,
           \/ task'[t].status = task[t].status
           \/ task'[t].status \in {"NOT_STARTED", "IN_PROGRESS", "OVERDUE"}
    PROVE  ComesAfter(t)
BY DEF ComesAfter, Exists, Done

\* Only updateStatus completes a task, only remove deletes one, each by its checks.
LEMMA StepsComeAfter ==
    ASSUME SerialInv, [Next]_vars, NEW t \in Task
    PROVE  ComesAfter(t)
<1>1. TypeOK /\ task \in [Task -> TaskRow] /\ \A r \in Request : StillChecked(r)
  BY DEF SerialInv, TypeOK
<1>2. ASSUME UNCHANGED task PROVE ComesAfter(t)
  BY <1>2, SettledTasks
<1>3. ASSUME NEW r \in Request, HandlerStep(r) PROVE ComesAfter(t)
  <2>1. ASSUME NEW s \in Task, NEW u \in User, CreateTask(r, s, u) PROVE ComesAfter(t)
    <3>1. task' = [task EXCEPT ![s] = [NoRow("NOT_STARTED") EXCEPT !.assignee = u]]
      BY <2>1 DEF CreateTask
    <3>2. [NoRow("NOT_STARTED") EXCEPT !.assignee = u].status = "NOT_STARTED"
      BY DEF NoRow
    <3>3. QED BY <1>1, <3>1, <3>2, SettledTasks
  <2>2. UNCHANGED task \/ \E s \in Task, u \in User : CreateTask(r, s, u)
    BY <1>3 DEF HandlerStep, UpdateRead, UpdateStatusRead, RemoveRead, AddSubTaskRead, OverdueRead, RecalculateAll
  <2>3. QED BY <1>2, <2>1, <2>2
<1>4. ASSUME NEW r \in Request, Continue(r) PROVE ComesAfter(t)
  <2> DEFINE q == request[r]
  <2>1. q \in InFlight /\ StillChecked(r)
    BY <1>1 DEF TypeOK
  <2> HIDE DEF q
  <2>2. CASE UpdateCommit(r)
    <3>1. task' = [task EXCEPT ![q.task] = Changed(@, q.change)]
      BY <2>2 DEF UpdateCommit, q
    <3>2. task'[t].status = task[t].status
      BY <1>1, <3>1 DEF Changed, TaskRow
    <3>3. QED BY <3>2, SettledTasks
  <2>3. CASE UpdateStatusCommit(r)
    <3>1. /\ q.task \in Task /\ q.status \in Settable
          /\ q.status \in Done => PrerequisiteDone(q.task)
          /\ task' = [task EXCEPT ![q.task].status = q.status, ![q.task].completedAt = q.stamp]
      BY <2>1, <2>3, InFlightFields DEF UpdateStatusCommit, StillChecked, q
    <3>2. t # q.task => task'[t] = task[t]
      BY <1>1, <3>1
    <3>3. task'[q.task].status = q.status
      BY <1>1, <3>1 DEF TaskRow
    <3>4. q.status # "DELETED"
      BY <3>1 DEF Settable, Done
    <3>5. QED BY <3>1, <3>2, <3>3, <3>4, SettledTasks DEF ComesAfter
  <2>4. CASE RemoveCommit(r)
    <3>1. /\ Dependents(q.task) = {}
          /\ task' = [s \in Task |->
                IF s = q.task THEN NoRow("DELETED")
                ELSE IF task[s].dependsOn = q.task THEN [task[s] EXCEPT !.dependsOn = Nil]
                ELSE task[s]]
      BY <2>1, <2>4 DEF RemoveCommit, StillChecked, q
    <3>2. t # q.task => task'[t].status = task[t].status
      BY <1>1, <3>1 DEF TaskRow
    <3>3. t = q.task => task'[t].status = "DELETED"
      BY <3>1 DEF NoRow
    <3>4. QED BY <3>1, <3>2, <3>3, SettledTasks DEF ComesAfter, Done
  <2>5. CASE AddSubTaskCommit(r)
    <3>1. task' = [task EXCEPT ![q.task].status = "IN_PROGRESS"]
      BY <2>5 DEF AddSubTaskCommit, q
    <3>2. task'[t] = task[t] \/ task'[t].status = "IN_PROGRESS"
      BY <1>1, <3>1 DEF TaskRow
    <3>3. QED BY <3>2, SettledTasks
  <2>6. CASE OverdueCommit(r)
    <3>1. task' = [s \in Task |->
             IF s \in q.tasks /\ Exists(s) THEN [task[s] EXCEPT !.status = "OVERDUE"] ELSE task[s]]
      BY <2>6 DEF OverdueCommit, q
    <3>2. task'[t] = task[t] \/ task'[t].status = "OVERDUE"
      BY <1>1, <3>1 DEF TaskRow
    <3>3. QED BY <3>2, SettledTasks
  <2>7. CASE UpdateWalk(r) \/ Enqueue(r)
    BY <1>2, <2>7 DEF UpdateWalk, Enqueue
  <2>8. QED BY <1>4, <2>2, <2>3, <2>4, <2>5, <2>6, <2>7 DEF Continue
<1>5. ASSUME NEW s \in Task, DeadlinePasses(s) PROVE ComesAfter(t)
  <2>1. task'[t].status = task[t].status
    BY <1>1, <1>5 DEF DeadlinePasses, TaskRow
  <2>2. QED BY <2>1, SettledTasks
<1>6. (\E r \in Request : Fail(r)) \/ WorkerStep \/ JobFails \/ UNCHANGED vars => UNCHANGED task
  BY DEF Fail, WorkerStep, TakeJob, RecalculateRead, RecalculateWrite, JobFails, vars
<1>7. QED BY <1>2, <1>3, <1>4, <1>5, <1>6 DEF Next

\* PrerequisitesComeFirst: with handlers called one at a time, a task is
\* completed only after its prerequisite (updateStatus), and nobody deletes a
\* prerequisite under the tasks that wait for it (remove).
THEOREM PrerequisitesAreFirst ==
    ASSUME \A r, s \in Request : r = s
    PROVE  Spec => PrerequisitesComeFirst
<1>1. SerialInv /\ [Next]_vars => SerialInv'
  BY SerialStep
<1>2. SerialInv /\ [Next]_vars => \A t \in Task : ComesAfter(t)
  BY StepsComeAfter
<1>3. SerialInv /\ [Next]_vars =>
         [\A t \in Task :
            /\ task'[t].status \in Done /\ task[t].status \notin Done => PrerequisiteDone(t)
            /\ task'[t].status = "DELETED" /\ Exists(t) => Dependents(t) = {}]_vars
  BY <1>2 DEF ComesAfter
<1>4. QED BY <1>1, <1>3, SerialInit, PTL DEF Spec, PrerequisitesComeFirst

----------------------------------------------------------------------------
(* Prerequisites.  The walk of update has seen a set of tasks that is      *)
(* closed but for the task it looks at next; when it ends, the chain of    *)
(* the new prerequisite lies in a closed set without the task itself.      *)

AbsentDependOnNothing == \A t \in Task : ~Exists(t) => task[t].dependsOn = Nil

\* The whole chain above d lies in U, and t is not on it.
ChainAvoids(U, d, t) ==
    d \in U /\ t \notin U /\ \A x \in U : task[x].dependsOn \in U \cup {Nil}

\* What a request in flight has established about the prerequisite it will set.
Walked(r) ==
    LET q == request[r]
        d == q.change.dependsOn
    IN
    /\ q.op = "updateWalk" =>
          /\ d \in q.visited \cup {q.current}
          /\ \A x \in q.visited : x # q.task /\ task[x].dependsOn \in q.visited \cup {q.current}
    /\ q.op = "update" /\ d \in Task /\ d # task[q.task].dependsOn =>
          \E U \in SUBSET Task : ChainAvoids(U, d, q.task)

ChainInv ==
    /\ TypeOK /\ RecordsAreRated
    /\ AbsentDependOnNothing
    /\ NoDependencyCycle
    /\ \A r \in Request : Walked(r)

\* Clearing prerequisites opens no chain that could close.
LEMMA ClearedChainsStayOpen ==
    ASSUME TypeOK, NoDependencyCycle,
           \A t \in Task : task'[t].dependsOn \in {task[t].dependsOn, Nil}
    PROVE  NoDependencyCycle'
<1>1. Nil \notin Task
  BY TaskAssumption DEF TaskAssumption
<1>2. ASSUME NEW S \in SUBSET Task, S # {} PROVE \E t \in S : task'[t].dependsOn \notin S
  <2>1. PICK t \in S : task[t].dependsOn \notin S
    BY <1>2 DEF NoDependencyCycle
  <2>2. QED BY <1>1, <2>1
<1>3. QED BY <1>2 DEF NoDependencyCycle

\* Neither does a new prerequisite whose chain avoids the task: in a set with
\* both, some task above the new prerequisite waits for none of the set.
LEMMA AvoidingChainsStayOpen ==
    ASSUME TypeOK, NoDependencyCycle, NEW c \in Task, NEW d \in Task,
           NEW U \in SUBSET Task, ChainAvoids(U, d, c),
           task'[c].dependsOn = d,
           \A t \in Task \ {c} : task'[t].dependsOn = task[t].dependsOn
    PROVE  NoDependencyCycle'
<1>1. Nil \notin Task
  BY TaskAssumption DEF TaskAssumption
<1>2. ASSUME NEW S \in SUBSET Task, S # {} PROVE \E t \in S : task'[t].dependsOn \notin S
  <2>1. CASE c \notin S
    <3>1. PICK t \in S : task[t].dependsOn \notin S
      BY <1>2 DEF NoDependencyCycle
    <3>2. QED BY <2>1, <3>1
  <2>2. CASE c \in S /\ d \notin S
    BY <2>2
  <2>3. CASE d \in S
    <3>1. S \cap U \in SUBSET Task /\ S \cap U # {}
      BY <2>3 DEF ChainAvoids
    <3>2. PICK t \in S \cap U : task[t].dependsOn \notin S \cap U
      BY <3>1 DEF NoDependencyCycle
    <3>3. t # c /\ task[t].dependsOn \in U \cup {Nil}
      BY <3>2 DEF ChainAvoids
    <3>4. task'[t].dependsOn \notin S
      BY <1>1, <3>2, <3>3
    <3>5. QED BY <3>2, <3>4
  <2>4. QED BY <2>1, <2>2, <2>3
<1>3. QED BY <1>2 DEF NoDependencyCycle

\* A request that does not update has nothing to establish.
LEMMA OthersHaveWalked ==
    ASSUME NEW r \in Request, request'[r].op \notin {"updateWalk", "update"}
    PROVE  Walked(r)'
BY DEF Walked

\* The request that takes a step: update checks the chain, the others do not set
\* a prerequisite.
LEMMA RequestsWalk ==
    ASSUME ChainInv, NEW r \in Request, HandlerStep(r) \/ Continue(r) \/ Fail(r)
    PROVE  Walked(r)'
<1> DEFINE q == request[r]
<1>1. /\ TypeOK /\ Walked(r) /\ q \in InFlight /\ task \in [Task -> TaskRow]
      /\ request \in [Request -> InFlight]
  BY DEF ChainInv, TypeOK
<1>2. Nil \notin Task /\ "keep" \notin Task
  BY TaskAssumption DEF TaskAssumption
<1> HIDE DEF q
<1>3. ASSUME NEW t \in Task, NEW ch \in Change, UpdateRead(r, t, ch) PROVE Walked(r)'
  <2> DEFINE dep == ch.dependsOn
             walks == dep \in Task /\ dep # task[t].dependsOn
  <2>1. UNCHANGED task
    BY <1>3 DEF UpdateRead
  <2>2. CASE walks
    <3>1. request'[r] = [op |-> "updateWalk", task |-> t, change |-> ch,
                         assignee |-> task[t].assignee, current |-> dep, visited |-> {}]
      BY <1>1, <1>3, <2>2 DEF UpdateRead, Begin
    <3>2. QED BY <3>1 DEF Walked
  <2>3. CASE ~walks
    <3>1. request'[r] = [op |-> "update", task |-> t, change |-> ch, assignee |-> task[t].assignee]
      BY <1>1, <1>3, <2>3 DEF UpdateRead, Begin
    <3>2. QED BY <2>1, <2>3, <3>1 DEF Walked
  <2>4. QED BY <2>2, <2>3
<1>4. CASE UpdateWalk(r)
  <2> DEFINE parent == IF Exists(q.current) THEN task[q.current].dependsOn ELSE Nil
             seen == q.visited \cup {q.current}
             d == q.change.dependsOn
             upd == [op |-> "update", task |-> q.task, change |-> q.change, assignee |-> q.assignee]
             walk == [q EXCEPT !.current = parent, !.visited = @ \cup {q.current}]
  <2>1. q \in [op: {"updateWalk"}, task: Task, change: Change, assignee: User,
               current: Task, visited: SUBSET Task]
    BY <1>1, <1>4, InFlightFields DEF UpdateWalk, q
  <2>2. /\ d \in seen
        /\ \A x \in q.visited : x # q.task /\ task[x].dependsOn \in seen
    BY <1>1, <2>1 DEF Walked, q
  <2>3. q.current # q.task /\ UNCHANGED task
    BY <1>4 DEF UpdateWalk, q
  <2>4. parent = task[q.current].dependsOn
    BY <2>1 DEF ChainInv, AbsentDependOnNothing
  <2>5. CASE q.current \in q.visited \/ parent = Nil
    <3>1. request'[r] = upd
      BY <1>1, <1>4, <2>5 DEF UpdateWalk, Await, q
    <3>2. d \in seen /\ q.task \notin seen /\ \A x \in seen : task'[x].dependsOn \in seen \cup {Nil}
      BY <2>2, <2>3, <2>4, <2>5
    <3>3. seen \in SUBSET Task
      BY <2>1
    <3>4. /\ request'[r].op = "update" /\ request'[r].task = q.task
          /\ request'[r].change.dependsOn = d
      BY <3>1
    <3> HIDE DEF seen, parent, upd, d
    <3>5. \E U \in SUBSET Task :
             d \in U /\ q.task \notin U /\ \A x \in U : task'[x].dependsOn \in U \cup {Nil}
      BY <3>2, <3>3
    <3>6. QED BY <3>4, <3>5 DEF Walked, ChainAvoids
  <2>6. CASE ~(q.current \in q.visited \/ parent = Nil)
    <3>1. request'[r] = walk
      BY <1>1, <1>4, <2>6 DEF UpdateWalk, Await, q
    <3>2. /\ request'[r].op = "updateWalk" /\ request'[r].task = q.task
          /\ request'[r].change = q.change
          /\ request'[r].current = parent /\ request'[r].visited = seen
      BY <2>1, <3>1
    <3>3. d \in seen \cup {parent}
      BY <2>2
    <3>4. \A x \in seen : x # q.task /\ task'[x].dependsOn \in seen \cup {parent}
      BY <2>2, <2>3, <2>4
    <3> HIDE DEF seen, parent, walk
    <3>5. QED BY <3>2, <3>3, <3>4 DEF Walked
  <2>7. QED BY <2>5, <2>6
<1>5. ASSUME ~UpdateWalk(r), \A t \in Task, ch \in Change : ~UpdateRead(r, t, ch)
      PROVE  request'[r].op \notin {"updateWalk", "update"}
  BY <1>1, <1>5 DEF HandlerStep, Continue, Fail, CreateTask, UpdateStatusRead, RemoveRead,
     AddSubTaskRead, OverdueRead, RecalculateAll, UpdateCommit, UpdateStatusCommit, RemoveCommit,
     AddSubTaskCommit, OverdueCommit, Enqueue, Begin, Await, Publish, End, Idle
<1>6. QED BY <1>3, <1>4, <1>5, OthersHaveWalked

\* What the steps of requests do to prerequisites.
LEMMA WritesOpenNoCycle ==
    ASSUME ChainInv, NEW r \in Request, HandlerStep(r) \/ Continue(r) \/ Fail(r)
    PROVE  AbsentDependOnNothing' /\ NoDependencyCycle'
<1> DEFINE q == request[r]
<1>1. /\ TypeOK /\ Walked(r) /\ q \in InFlight /\ task \in [Task -> TaskRow]
      /\ AbsentDependOnNothing /\ NoDependencyCycle
  BY DEF ChainInv, TypeOK
<1> HIDE DEF q
<1>2. CASE UNCHANGED task
  BY <1>1, <1>2 DEF AbsentDependOnNothing, NoDependencyCycle, Exists
<1>3. ASSUME \A t \in Task : \/ task'[t].dependsOn = Nil
                             \/ task'[t].dependsOn = task[t].dependsOn /\ (Exists(t) => Exists(t)')
      PROVE  AbsentDependOnNothing' /\ NoDependencyCycle'
  <2>1. \A t \in Task : task'[t].dependsOn \in {task[t].dependsOn, Nil}
    BY <1>3
  <2>2. NoDependencyCycle'
    BY <1>1, <2>1, ClearedChainsStayOpen
  <2>3. QED BY <1>1, <1>3, <2>2 DEF AbsentDependOnNothing
<1>4. ASSUME NEW t \in Task, NEW u \in User, CreateTask(r, t, u)
      PROVE  AbsentDependOnNothing' /\ NoDependencyCycle'
  <2>1. task' = [task EXCEPT ![t] = [NoRow("NOT_STARTED") EXCEPT !.assignee = u]]
    BY <1>4 DEF CreateTask
  <2>2. [NoRow("NOT_STARTED") EXCEPT !.assignee = u].dependsOn = Nil
    BY DEF NoRow
  <2>3. \A s \in Task : task'[s].dependsOn = Nil \/ task'[s] = task[s]
    BY <1>1, <2>1, <2>2
  <2>4. QED BY <1>3, <2>3 DEF Exists
<1>5. CASE UpdateCommit(r)
  <2> DEFINE d == q.change.dependsOn
  <2>1. /\ q.op = "update" /\ q.task \in Task /\ Exists(q.task)
        /\ task' = [task EXCEPT ![q.task] = Changed(@, q.change)]
    BY <1>1, <1>5, InFlightFields DEF UpdateCommit, q
  <2>2. /\ task'[q.task].dependsOn = IF d = "keep" THEN task[q.task].dependsOn ELSE d
        /\ task'[q.task].status = task[q.task].status
    BY <1>1, <2>1 DEF Changed, TaskRow
  <2>3. \A t \in Task \ {q.task} : task'[t] = task[t]
    BY <1>1, <2>1
  <2>4. AbsentDependOnNothing'
    BY <1>1, <2>1, <2>2, <2>3 DEF AbsentDependOnNothing, Exists
  <2>5. CASE d \in Task /\ d # task[q.task].dependsOn
    <3>1. PICK U \in SUBSET Task : ChainAvoids(U, d, q.task)
      BY <1>1, <2>1, <2>5 DEF Walked, q
    <3>2. task'[q.task].dependsOn = d
      BY <2>2, <2>5, TaskAssumption DEF TaskAssumption
    <3>3. NoDependencyCycle'
      BY <1>1, <2>1, <2>3, <2>5, <3>1, <3>2, AvoidingChainsStayOpen
    <3>4. QED BY <2>4, <3>3
  <2>6. CASE ~(d \in Task /\ d # task[q.task].dependsOn)
    <3>1. d \in Task \cup {Nil, "keep"}
      BY <1>1, <2>1, InFlightFields DEF Changes
    <3>2. \A t \in Task : task'[t].dependsOn \in {task[t].dependsOn, Nil}
      BY <2>2, <2>3, <2>6, <3>1
    <3>3. QED BY <1>1, <2>4, <3>2, ClearedChainsStayOpen
  <2>7. QED BY <2>5, <2>6
<1>6. CASE UpdateStatusCommit(r)
  <2>1. /\ q.status \in Settable
        /\ task' = [task EXCEPT ![q.task].status = q.status, ![q.task].completedAt = q.stamp]
    BY <1>1, <1>6, InFlightFields DEF UpdateStatusCommit, q
  <2>2. \A t \in Task : task'[t].dependsOn = task[t].dependsOn /\ (Exists(t) => Exists(t)')
    BY <1>1, <2>1 DEF TaskRow, Exists, Settable, Done
  <2>3. QED BY <1>3, <2>2
<1>7. CASE RemoveCommit(r)
  <2>1. task' = [t \in Task |->
           IF t = q.task THEN NoRow("DELETED")
           ELSE IF task[t].dependsOn = q.task THEN [task[t] EXCEPT !.dependsOn = Nil]
           ELSE task[t]]
    BY <1>7 DEF RemoveCommit, q
  <2>2. \A t \in Task : task'[t].dependsOn = Nil \/ task'[t] = task[t]
    BY <1>1, <2>1 DEF TaskRow, NoRow
  <2>3. QED BY <1>3, <2>2 DEF Exists
<1>8. CASE AddSubTaskCommit(r)
  <2>1. task' = [task EXCEPT ![q.task].status = "IN_PROGRESS"]
    BY <1>8 DEF AddSubTaskCommit, q
  <2>2. \A t \in Task : task'[t].dependsOn = task[t].dependsOn /\ (Exists(t) => Exists(t)')
    BY <1>1, <2>1 DEF TaskRow, Exists
  <2>3. QED BY <1>3, <2>2
<1>9. CASE OverdueCommit(r)
  <2>1. task' = [t \in Task |->
           IF t \in q.tasks /\ Exists(t) THEN [task[t] EXCEPT !.status = "OVERDUE"] ELSE task[t]]
    BY <1>9 DEF OverdueCommit, q
  <2>2. \A t \in Task : task'[t].dependsOn = task[t].dependsOn /\ (Exists(t) => Exists(t)')
    BY <1>1, <2>1 DEF TaskRow, Exists
  <2>3. QED BY <1>3, <2>2
<1>10. \/ UNCHANGED task
       \/ \E t \in Task, u \in User : CreateTask(r, t, u)
       \/ UpdateCommit(r) \/ UpdateStatusCommit(r) \/ RemoveCommit(r) \/ AddSubTaskCommit(r)
       \/ OverdueCommit(r)
  BY DEF HandlerStep, Continue, Fail, UpdateRead, UpdateStatusRead, RemoveRead, AddSubTaskRead,
     OverdueRead, RecalculateAll, UpdateWalk, Enqueue
<1>11. QED BY <1>2, <1>4, <1>5, <1>6, <1>7, <1>8, <1>9, <1>10

\* With one slot, no prerequisite changes between the walk and the write.
LEMMA ChainStep ==
    ASSUME \A r, s \in Request : r = s, ChainInv, [Next]_vars
    PROVE  ChainInv'
<1>1. TypeOK' /\ RecordsAreRated'
  BY StepsTyped, RecordsStayRated DEF ChainInv
<1>2. CASE \E r \in Request : HandlerStep(r) \/ Continue(r) \/ Fail(r)
  BY <1>1, <1>2, RequestsWalk, WritesOpenNoCycle DEF ChainInv
<1>3. CASE /\ UNCHANGED request
           /\ \A t \in Task : /\ task'[t].status = task[t].status
                              /\ task'[t].dependsOn = task[t].dependsOn
  <2>1. AbsentDependOnNothing' /\ NoDependencyCycle'
    BY <1>3 DEF ChainInv, AbsentDependOnNothing, NoDependencyCycle, Exists
  <2>2. ASSUME NEW r \in Request PROVE Walked(r)'
    <3> DEFINE q == request[r]
    <3>1. q \in InFlight /\ Walked(r)
      BY DEF ChainInv, TypeOK
    <3> HIDE DEF q
    <3>2. q.op = "updateWalk" => q.visited \subseteq Task
      BY <3>1, InFlightFields
    <3>3. q.op = "update" => q.task \in Task
      BY <3>1, InFlightFields
    <3>4. \A U \in SUBSET Task : ChainAvoids(U, q.change.dependsOn, q.task) =>
             ChainAvoids(U, q.change.dependsOn, q.task)'
      BY <1>3 DEF ChainAvoids, q
    <3>5. QED BY <1>3, <3>1, <3>2, <3>3, <3>4 DEF Walked, q, ChainAvoids
  <2>3. QED BY <1>1, <2>1, <2>2 DEF ChainInv
<1>4. CASE UNCHANGED <<task, request>>
  BY <1>3, <1>4
<1>5. ASSUME NEW t \in Task, DeadlinePasses(t) PROVE ChainInv'
  <2>1. task' = [task EXCEPT ![t].overdue = TRUE] /\ UNCHANGED request /\ task \in [Task -> TaskRow]
    BY <1>5 DEF DeadlinePasses, ChainInv, TypeOK
  <2>2. \A s \in Task : task'[s].status = task[s].status /\ task'[s].dependsOn = task[s].dependsOn
    BY <2>1 DEF TaskRow
  <2>3. QED BY <1>3, <2>1, <2>2
<1>6. WorkerStep \/ JobFails \/ UNCHANGED vars => UNCHANGED <<task, request>>
  BY DEF WorkerStep, TakeJob, RecalculateRead, RecalculateWrite, JobFails, vars
<1>7. QED BY <1>2, <1>4, <1>5, <1>6 DEF Next

\* NoDependencyCycle: with handlers called one at a time, no chain of
\* prerequisites closes, of whatever length, although update checks a new one
\* by walking up its chain with one query for each hop.
THEOREM PrerequisitesNeverClose ==
    ASSUME \A r, s \in Request : r = s
    PROVE  Spec => []NoDependencyCycle
<1>1. Init => ChainInv
  <2>1. Nil \notin Task
    BY TaskAssumption DEF TaskAssumption
  <2>2. ASSUME Init PROVE ChainInv
    <3>1. TypeOK /\ RecordsAreRated
      BY <2>2, InitTyped, SerialInit DEF SerialInv
    <3>2. \A t \in Task : task[t].dependsOn = Nil
      BY <2>2 DEF Init, StoreInit, NoRow
    <3>3. AbsentDependOnNothing /\ NoDependencyCycle
      BY <2>1, <3>2 DEF AbsentDependOnNothing, NoDependencyCycle
    <3>4. \A r \in Request : Walked(r)
      BY <2>2 DEF Init, StoreInit, Walked, Idle
    <3>5. QED BY <3>1, <3>3, <3>4 DEF ChainInv
  <2>3. QED BY <2>2
<1>2. ChainInv /\ [Next]_vars => ChainInv'
  BY ChainStep
<1>3. ChainInv => NoDependencyCycle
  BY DEF ChainInv
<1>4. QED BY <1>1, <1>2, <1>3, PTL DEF Spec
=============================================================================
