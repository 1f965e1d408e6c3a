-------------------------- MODULE TaskRecordProofs --------------------------
(***************************************************************************)
(* The records of performance catch up with the tasks, however handlers,   *)
(* cron, queue and worker interleave and whatever is lost, provided that   *)
(* what a handler read still names everybody its write is about: handlers  *)
(* are called one at a time, or nobody reassigns a task (update) or starts *)
(* one through its first subtask (addSubTask, which emits no event).       *)
(***************************************************************************)
EXTENDS TaskSafetyProofs

\* The task has been created, and is assigned to one of S while it exists.
Owned(t, S) == task[t].status # "UNBORN" /\ (Exists(t) => task[t].assignee \in S)

\* Handlers are called one at a time.
Alone == \A r, s \in Request : r = s

\* Nobody reassigns a task or adds a first subtask.
NobodyMovesTasks ==
    /\ "addSubTask" \notin Op
    /\ "update" \notin Op \/ \A ch \in Change : ch.assignee = Nil

\* The event a request will emit names everybody its write is about; the
\* writes that may change more are those of a request that is alone.
Meant(r) ==
    LET q == request[r] IN
    /\ q.op \in {"updateStatus", "remove", "updateWalk", "update"} => Owned(q.task, {q.assignee})
    /\ q.op = "overdue" => \A t \in q.tasks : Owned(t, q.assignees)
    /\ q.op \in {"updateWalk", "update"} => Alone \/ q.change.assignee = Nil
    /\ q.op = "addSubTask" => Alone /\ task[q.task].status = "NOT_STARTED"

\* A recalculation of u is on its way, or was lost.
Awaited(u) ==
    \/ u \in lost
    \/ \E r \in Request : request[r].op = "publish" /\ u \in request[r].users
    \/ \E i \in DOMAIN queue : u \in queue[i]
    \/ worker # Nil /\ u \in worker.users /\ worker.user # u

\* What is recorded for u, or is about to be, is how the tasks are now.
Current(u) ==
    IF worker # Nil /\ worker.user = u THEN worker.counts = Actual(u) ELSE Recorded(u) = Actual(u)

\* The worker only recalculates users of its job.
WorksOnItsJob == worker # Nil /\ worker.user # Nil => worker.user \in worker.users

RecordInv ==
    /\ TypeOK
    /\ RecordsAreRated
    /\ WorksOnItsJob
    /\ \A r \in Request : Meant(r)
    /\ \A u \in User : Awaited(u) \/ Current(u)

----------------------------------------------------------------------------
(* Who is affected by a write.                                             *)

OwnedBy(t, u) == Exists(t) /\ task[t].assignee = u

\* Statuses that are counted alike.
Alike(a, b) == a = b \/ {a, b} \subseteq {"NOT_STARTED", "IN_PROGRESS"}

\* The counts of a user depend on the tasks the user has, and on whether each
\* is open, overdue, or done in time or late.
LEMMA SameTasksSameCounts ==
    ASSUME NEW u,
           \A t \in Task : OwnedBy(t, u) \/ OwnedBy(t, u)' =>
               OwnedBy(t, u) /\ OwnedBy(t, u)' /\ Alike(task'[t].status, task[t].status)
    PROVE  Actual(u)' = Actual(u)
<1> DEFINE counted == {{"NOT_STARTED", "IN_PROGRESS", "OVERDUE", "COMPLETED", "COMPLETED_LATE"},
                       {"COMPLETED"}, {"COMPLETED_LATE"}, {"OVERDUE"}}
<1>1. ASSUME NEW S \in counted
      PROVE  {t \in Task : task'[t].assignee = u /\ task'[t].status \in S}
                 = {t \in Task : task[t].assignee = u /\ task[t].status \in S}
  BY DEF OwnedBy, Exists, Alike
<1>2. {"NOT_STARTED", "IN_PROGRESS", "OVERDUE"} \cup Done
         = {"NOT_STARTED", "IN_PROGRESS", "OVERDUE", "COMPLETED", "COMPLETED_LATE"}
  BY DEF Done
<1>3. QED BY <1>1, <1>2 DEF Actual

\* A step that does not reassign keeps every task with its owner.
KeepsOwners ==
    \A t \in Task : task[t].status # "UNBORN" =>
        /\ task'[t].status # "UNBORN"
        /\ Exists(t)' => Exists(t) /\ task'[t].assignee = task[t].assignee

LEMMA OwnedStays ==
    ASSUME KeepsOwners, NEW t \in Task, NEW S, Owned(t, S)
    PROVE  Owned(t, S)'
BY DEF KeepsOwners, Owned, Exists

\* What a request means survives the steps of the others, and those of the
\* clock and the worker, which change no status.
LEMMA MeantStays ==
    ASSUME TypeOK, KeepsOwners, NEW r \in Request, Meant(r), request'[r] = request[r],
           Alone => \A t \in Task : task'[t].status = task[t].status
    PROVE  Meant(r)'
<1> DEFINE q == request[r]
<1>1. q \in InFlight /\ q' = q
  BY DEF TypeOK
<1> HIDE DEF q
<1>2. ASSUME q.op \in {"updateStatus", "remove", "updateWalk", "update"}
      PROVE  Owned(q.task, {q.assignee})'
  <2>1. q.task \in Task
    BY <1>1, <1>2, InFlightFields
  <2>2. Owned(q.task, {q.assignee})
    BY <1>2 DEF Meant, q
  <2>3. QED BY <1>1, <2>1, <2>2 DEF KeepsOwners, Owned, Exists
<1>3. ASSUME q.op = "overdue" PROVE \A t \in q.tasks : Owned(t, q.assignees)'
  <2>1. q.tasks \subseteq Task
    BY <1>1, <1>3, InFlightFields
  <2>2. \A t \in q.tasks : Owned(t, q.assignees)
    BY <1>3 DEF Meant, q
  <2>3. QED BY <1>1, <2>1, <2>2 DEF KeepsOwners, Owned, Exists
<1>4. q.op = "addSubTask" => Alone /\ task'[q.task].status = "NOT_STARTED"
  <2>1. q.op = "addSubTask" => q.task \in Task
    BY <1>1, InFlightFields
  <2>2. q.op = "addSubTask" => Alone /\ task[q.task].status = "NOT_STARTED"
    BY DEF Meant, q
  <2>3. QED BY <2>1, <2>2
<1>5. q.op \in {"updateWalk", "update"} => Alone \/ q.change.assignee = Nil
  BY DEF Meant, q
<1>6. QED BY <1>1, <1>2, <1>3, <1>4, <1>5 DEF Meant, q

\* A step of a handler tells whom it affects: it keeps owners unless it is
\* alone, means what it says, and emits an event for every user whose counts
\* it changes.
Tells(r) ==
    /\ Alone \/ KeepsOwners
    /\ Meant(r)'
    /\ request[r].op # "publish"
    /\ \A s \in Request \ {r} : request'[s] = request[s]
    /\ \A u \in User : \/ Actual(u)' = Actual(u)
                       \/ request'[r].op = "publish" /\ u \in request'[r].users

LEMMA ReadsTell ==
    ASSUME TypeOK, UNCHANGED task, NEW r \in Request, request[r].op # "publish",
           \A s \in Request \ {r} : request'[s] = request[s], Meant(r)'
    PROVE  Tells(r)
<1>1. KeepsOwners
  BY DEF KeepsOwners, Exists
<1>2. \A u \in User : Actual(u)' = Actual(u)
  BY SameTasksSameCounts DEF OwnedBy, Exists, Alike
<1>3. QED BY <1>1, <1>2 DEF Tells

LEMMA HandlersTell ==
    ASSUME Alone \/ NobodyMovesTasks, RecordInv, NEW r \in Request, HandlerStep(r)
    PROVE  Tells(r)
<1>1. TypeOK
  BY DEF RecordInv
<1>2. ASSUME NEW t \in Task, NEW u \in User, CreateTask(r, t, u) PROVE Tells(r)
  <2>1. /\ task[t].status = "UNBORN" /\ request[r] = Idle
        /\ task' = [task EXCEPT ![t] = [NoRow("NOT_STARTED") EXCEPT !.assignee = u]]
        /\ request' = [request EXCEPT ![r] = [op |-> "publish", users |-> {u}]]
    BY <1>2 DEF CreateTask, Begin
  <2>2. task'[t].assignee = u /\ task'[t].status = "NOT_STARTED"
    BY <1>1, <2>1 DEF NoRow, TypeOK
  <2>3. \A s \in Task \ {t} : task'[s] = task[s]
    BY <1>1, <2>1 DEF TypeOK
  <2>4. request'[r] = [op |-> "publish", users |-> {u}] /\ \A s \in Request \ {r} : request'[s] = request[s]
    BY <1>1, <2>1 DEF TypeOK
  <2>5. KeepsOwners
    BY <2>1, <2>3 DEF KeepsOwners, Exists
  <2>6. \A v \in User \ {u} : Actual(v)' = Actual(v)
    BY <2>1, <2>2, <2>3, SameTasksSameCounts DEF OwnedBy, Exists, Alike
  <2>7. Meant(r)'
    BY <2>4 DEF Meant
  <2>8. QED BY <2>1, <2>4, <2>5, <2>6, <2>7 DEF Tells, Idle
<1>3. ASSUME NEW t \in Task, NEW new \in TaskStatus, UpdateStatusRead(r, t, new) PROVE Tells(r)
  <2>1. \E status : /\ request' = [request EXCEPT ![r] =
                          [op |-> "updateStatus", task |-> t, assignee |-> task[t].assignee,
                           status |-> status, stamp |-> new = "COMPLETED"]]
                    /\ request[r] = Idle /\ Exists(t) /\ UNCHANGED task
    BY <1>3 DEF UpdateStatusRead, Begin
  <2>2. /\ request'[r].op = "updateStatus" /\ request'[r].task = t /\ request'[r].assignee = task[t].assignee
        /\ \A s \in Request \ {r} : request'[s] = request[s]
    BY <1>1, <2>1 DEF TypeOK
  <2>3. Meant(r)'
    BY <2>1, <2>2 DEF Meant, Owned, Exists
  <2>4. QED BY <1>1, <2>1, <2>2, <2>3, ReadsTell DEF Idle
<1>4. ASSUME NEW t \in Task, RemoveRead(r, t) PROVE Tells(r)
  <2>1. /\ request' = [request EXCEPT ![r] = [op |-> "remove", task |-> t, assignee |-> task[t].assignee]]
        /\ request[r] = Idle /\ Exists(t) /\ UNCHANGED task
    BY <1>4 DEF RemoveRead, Begin
  <2>2. /\ request'[r].op = "remove" /\ request'[r].task = t /\ request'[r].assignee = task[t].assignee
        /\ \A s \in Request \ {r} : request'[s] = request[s]
    BY <1>1, <2>1 DEF TypeOK
  <2>3. Meant(r)'
    BY <2>1, <2>2 DEF Meant, Owned, Exists
  <2>4. QED BY <1>1, <2>1, <2>2, <2>3, ReadsTell DEF Idle
<1>5. ASSUME OverdueRead(r) PROVE Tells(r)
  <2> DEFINE late == {t \in Task : task[t].overdue /\ task[t].status \in {"NOT_STARTED", "IN_PROGRESS"}}
             users == {task[t].assignee : t \in late}
  <2>1. /\ request' = [request EXCEPT ![r] = [op |-> "overdue", tasks |-> late, assignees |-> users]]
        /\ request[r] = Idle /\ UNCHANGED task
    BY <1>5 DEF OverdueRead, Begin
  <2>2. \A t \in late : task[t].status # "UNBORN" /\ task[t].assignee \in users
    OBVIOUS
  <2> HIDE DEF late, users
  <2>3. /\ request'[r].op = "overdue" /\ request'[r].tasks = late /\ request'[r].assignees = users
        /\ \A s \in Request \ {r} : request'[s] = request[s]
    BY <1>1, <2>1 DEF TypeOK
  <2>4. Meant(r)'
    BY <2>1, <2>2, <2>3 DEF Meant, Owned, Exists
  <2>5. QED BY <1>1, <2>1, <2>3, <2>4, ReadsTell DEF Idle
<1>6. ASSUME RecalculateAll(r) PROVE Tells(r)
  <2>1. /\ request'[r].op = "publish" /\ request[r] = Idle /\ UNCHANGED task
        /\ \A s \in Request \ {r} : request'[s] = request[s]
    BY <1>1, <1>6 DEF RecalculateAll, Begin, TypeOK
  <2>2. Meant(r)'
    BY <2>1 DEF Meant
  <2>3. QED BY <1>1, <2>1, <2>2, ReadsTell DEF Idle
<1>7. ASSUME NEW t \in Task, NEW ch \in Change, UpdateRead(r, t, ch) PROVE Tells(r)
  <2>1. PICK q : /\ request' = [request EXCEPT ![r] = q]
                 /\ q.op \in {"update", "updateWalk"}
                 /\ q.task = t /\ q.assignee = task[t].assignee /\ q.change = ch
    <3> DEFINE walk == [op |-> "updateWalk", task |-> t, change |-> ch, assignee |-> task[t].assignee,
                        current |-> ch.dependsOn, visited |-> {}]
               write == [op |-> "update", task |-> t, change |-> ch, assignee |-> task[t].assignee]
    <3>1. request' = [request EXCEPT ![r] = walk] \/ request' = [request EXCEPT ![r] = write]
      BY <1>7 DEF UpdateRead, Begin
    <3>2. /\ walk.op \in {"update", "updateWalk"} /\ write.op \in {"update", "updateWalk"}
          /\ walk.task = t /\ walk.assignee = task[t].assignee /\ walk.change = ch
          /\ write.task = t /\ write.assignee = task[t].assignee /\ write.change = ch
      OBVIOUS
    <3> HIDE DEF walk, write
    <3>3. QED BY <3>1, <3>2
  <2>2. request[r] = Idle /\ "update" \in Op /\ Exists(t) /\ UNCHANGED task
    BY <1>7 DEF UpdateRead, Begin
  <2>3. request'[r] = q /\ \A s \in Request \ {r} : request'[s] = request[s]
    BY <1>1, <2>1 DEF TypeOK
  <2>4. Alone \/ ch.assignee = Nil
    BY <2>2 DEF NobodyMovesTasks
  <2>5. Meant(r)'
    BY <2>1, <2>2, <2>3, <2>4 DEF Meant, Owned, Exists
  <2>6. QED BY <1>1, <2>2, <2>3, <2>5, ReadsTell DEF Idle
<1>8. ASSUME NEW t \in Task, AddSubTaskRead(r, t) PROVE Tells(r)
  <2>1. /\ request' = [request EXCEPT ![r] = [op |-> "addSubTask", task |-> t]]
        /\ request[r] = Idle /\ "addSubTask" \in Op
        /\ task[t].status = "NOT_STARTED" /\ UNCHANGED task
    BY <1>8 DEF AddSubTaskRead, Begin
  <2>2. /\ request'[r].op = "addSubTask" /\ request'[r].task = t
        /\ \A s \in Request \ {r} : request'[s] = request[s]
    BY <1>1, <2>1 DEF TypeOK
  <2>3. Meant(r)'
    BY <2>1, <2>2 DEF Meant, NobodyMovesTasks
  <2>4. QED BY <1>1, <2>1, <2>2, <2>3, ReadsTell DEF Idle
<1>9. QED BY <1>2, <1>3, <1>4, <1>5, <1>6, <1>7, <1>8 DEF HandlerStep

LEMMA CommitsTell ==
    ASSUME RecordInv, NEW r \in Request,
           UpdateWalk(r) \/ UpdateCommit(r) \/ UpdateStatusCommit(r) \/ RemoveCommit(r)
               \/ AddSubTaskCommit(r) \/ OverdueCommit(r)
    PROVE  Tells(r)
<1> DEFINE q == request[r]
<1>1. /\ TypeOK /\ Meant(r) /\ q \in InFlight /\ task \in [Task -> TaskRow]
  BY DEF RecordInv, TypeOK
<1> HIDE DEF q
<1>2. ASSUME NEW S, Publish(r, S)
      PROVE  /\ request'[r].op = "publish" /\ request'[r].users = S
             /\ Meant(r)'
             /\ \A s \in Request \ {r} : request'[s] = request[s]
  <2>1. request' = [request EXCEPT ![r] = [op |-> "publish", users |-> S]]
    BY <1>2 DEF Publish, Await
  <2>2. request'[r].op = "publish" /\ request'[r].users = S
    BY <1>1, <2>1 DEF TypeOK
  <2>3. \A s \in Request \ {r} : request'[s] = request[s]
    BY <1>1, <2>1 DEF TypeOK
  <2>4. QED BY <2>2, <2>3 DEF Meant
<1>3. CASE UpdateStatusCommit(r)
  <2>1. /\ q.op = "updateStatus" /\ Exists(q.task) /\ Publish(r, {q.assignee})
        /\ task' = [task EXCEPT ![q.task].status = q.status, ![q.task].completedAt = q.stamp]
    BY <1>3 DEF UpdateStatusCommit, q
  <2>2. /\ q.task \in Task /\ q.status \in Settable
        /\ Exists(q.task) /\ task[q.task].assignee = q.assignee
    BY <1>1, <2>1, InFlightFields DEF Meant, Owned, q
  <2>3. /\ task'[q.task].status = q.status /\ task'[q.task].assignee = task[q.task].assignee
        /\ \A t \in Task \ {q.task} : task'[t] = task[t]
    BY <1>1, <2>1, <2>2 DEF TaskRow
  <2>4. KeepsOwners
    BY <2>2, <2>3 DEF KeepsOwners, Exists, Settable, Done
  <2>5. \A u \in User \ {q.assignee} : Actual(u)' = Actual(u)
    BY <2>2, <2>3, SameTasksSameCounts DEF OwnedBy, Exists, Alike
  <2>6. QED BY <1>2, <2>1, <2>4, <2>5 DEF Tells, q
<1>4. CASE RemoveCommit(r)
  <2>1. /\ q.op = "remove" /\ Exists(q.task) /\ Publish(r, {q.assignee})
        /\ task' = [t \in Task |->
              IF t = q.task THEN NoRow("DELETED")
              ELSE IF task[t].dependsOn = q.task THEN [task[t] EXCEPT !.dependsOn = Nil]
              ELSE task[t]]
    BY <1>4 DEF RemoveCommit, q
  <2>2. q.task \in Task /\ task[q.task].assignee = q.assignee
    BY <1>1, <2>1, InFlightFields DEF Meant, Owned, q
  <2>3. /\ task'[q.task].status = "DELETED"
        /\ \A t \in Task \ {q.task} : task'[t].status = task[t].status /\ task'[t].assignee = task[t].assignee
    BY <1>1, <2>1, <2>2 DEF TaskRow, NoRow
  <2>4. KeepsOwners
    BY <2>3 DEF KeepsOwners, Exists
  <2>5. \A u \in User \ {q.assignee} : Actual(u)' = Actual(u)
    BY <2>2, <2>3, SameTasksSameCounts DEF OwnedBy, Exists, Alike
  <2>6. QED BY <1>2, <2>1, <2>4, <2>5 DEF Tells, q
<1>5. CASE OverdueCommit(r)
  <2>1. /\ q.op = "overdue" /\ Publish(r, q.assignees)
        /\ task' = [t \in Task |->
              IF t \in q.tasks /\ Exists(t) THEN [task[t] EXCEPT !.status = "OVERDUE"] ELSE task[t]]
    BY <1>5 DEF OverdueCommit, q
  <2>2. \A t \in q.tasks : Exists(t) => task[t].assignee \in q.assignees
    BY <1>1, <2>1 DEF Meant, Owned, q
  <2>3. \A t \in Task : \/ task'[t] = task[t]
                        \/ /\ t \in q.tasks /\ Exists(t) /\ task'[t].status = "OVERDUE"
                           /\ task'[t].assignee = task[t].assignee
    BY <1>1, <2>1 DEF TaskRow
  <2>4. KeepsOwners
    BY <2>3 DEF KeepsOwners, Exists
  <2>5. \A u \in User \ q.assignees : Actual(u)' = Actual(u)
    BY <2>2, <2>3, SameTasksSameCounts DEF OwnedBy, Exists, Alike
  <2>6. QED BY <1>2, <2>1, <2>4, <2>5 DEF Tells, q
<1>6. ASSUME NEW x, Await(r, x)
      PROVE  request'[r] = x /\ \A s \in Request \ {r} : request'[s] = request[s]
  BY <1>1, <1>6 DEF Await, TypeOK
<1>7. CASE UpdateWalk(r)
  <2>1. PICK x : /\ Await(r, x) /\ x.op \in {"update", "updateWalk"}
                 /\ x.task = q.task /\ x.assignee = q.assignee /\ x.change = q.change
    <3>1. q \in [op: {"updateWalk"}, task: Task, change: Change, assignee: User,
                 current: Task, visited: SUBSET Task]
      BY <1>1, <1>7, InFlightFields DEF UpdateWalk, q
    <3> DEFINE write == [op |-> "update", task |-> q.task, change |-> q.change, assignee |-> q.assignee]
               walk(y) == [q EXCEPT !.current = y, !.visited = @ \cup {q.current}]
    <3>2. PICK y : Await(r, write) \/ Await(r, walk(y))
      BY <1>7 DEF UpdateWalk, q
    <3>3. /\ write.op = "update" /\ write.task = q.task
          /\ write.assignee = q.assignee /\ write.change = q.change
      OBVIOUS
    <3>4. /\ walk(y).op = "updateWalk" /\ walk(y).task = q.task
          /\ walk(y).assignee = q.assignee /\ walk(y).change = q.change
      BY <3>1
    <3> HIDE DEF write, walk
    <3>5. QED BY <3>2, <3>3, <3>4
  <2>2. request'[r] = x /\ (\A s \in Request \ {r} : request'[s] = request[s]) /\ UNCHANGED task
    BY <1>6, <1>7, <2>1 DEF UpdateWalk
  <2>3. Meant(r)'
    BY <1>1, <1>7, <2>1, <2>2 DEF Meant, Owned, Exists, UpdateWalk, q
  <2>4. QED BY <1>1, <1>7, <2>2, <2>3, ReadsTell DEF UpdateWalk
<1>8. CASE UpdateCommit(r)
  <2> DEFINE new == q.change.assignee
  <2>1. /\ q.op = "update" /\ Exists(q.task)
        /\ task' = [task EXCEPT ![q.task] = Changed(@, q.change)]
        /\ IF new \notin {Nil, q.assignee} THEN Publish(r, {q.assignee, new}) ELSE End(r)
    BY <1>8 DEF UpdateCommit, q
  <2>2. /\ q.task \in Task /\ task[q.task].assignee = q.assignee
        /\ Alone \/ new = Nil
    BY <1>1, <2>1, InFlightFields DEF Meant, Owned, q
  <2>3. /\ task'[q.task].status = task[q.task].status
        /\ task'[q.task].assignee = IF new = Nil THEN q.assignee ELSE new
        /\ \A t \in Task \ {q.task} : task'[t] = task[t]
    BY <1>1, <2>1, <2>2 DEF TaskRow, Changed
  <2>4. Alone \/ KeepsOwners
    BY <2>1, <2>2, <2>3 DEF KeepsOwners, Exists
  <2>5. CASE new \in {Nil, q.assignee}
    <3>1. \A u \in User : Actual(u)' = Actual(u)
      BY <2>2, <2>3, <2>5, SameTasksSameCounts DEF OwnedBy, Exists, Alike
    <3>2. request'[r] = Idle /\ \A s \in Request \ {r} : request'[s] = request[s]
      BY <1>6, <2>1, <2>5 DEF End
    <3>3. Meant(r)'
      BY <3>2 DEF Meant, Idle
    <3>4. QED BY <2>1, <2>4, <3>1, <3>2, <3>3 DEF Tells, q
  <2>6. CASE new \notin {Nil, q.assignee}
    <3>1. \A u \in User \ {q.assignee, new} : Actual(u)' = Actual(u)
      BY <2>2, <2>3, SameTasksSameCounts DEF OwnedBy, Exists, Alike
    <3>2. QED BY <1>2, <2>1, <2>4, <2>6, <3>1 DEF Tells, q
  <2>7. QED BY <2>5, <2>6
<1>9. CASE AddSubTaskCommit(r)
  <2>1. /\ q.op = "addSubTask" /\ End(r)
        /\ task' = [task EXCEPT ![q.task].status = "IN_PROGRESS"]
    BY <1>9 DEF AddSubTaskCommit, q
  <2>2. q.task \in Task /\ Alone /\ task[q.task].status = "NOT_STARTED"
    BY <1>1, <2>1, InFlightFields DEF Meant, q
  <2>3. /\ task'[q.task].status = "IN_PROGRESS" /\ task'[q.task].assignee = task[q.task].assignee
        /\ \A t \in Task \ {q.task} : task'[t] = task[t]
    BY <1>1, <2>1, <2>2 DEF TaskRow
  <2>4. \A u \in User : Actual(u)' = Actual(u)
    BY <2>2, <2>3, SameTasksSameCounts DEF OwnedBy, Exists, Alike
  <2>5. request'[r] = Idle /\ \A s \in Request \ {r} : request'[s] = request[s]
    BY <1>6, <2>1 DEF End
  <2>6. Meant(r)'
    BY <2>5 DEF Meant, Idle
  <2>7. QED BY <2>1, <2>2, <2>4, <2>5, <2>6 DEF Tells, q
<1>10. QED BY <1>3, <1>4, <1>5, <1>7, <1>8, <1>9

\* A step that tells leaves nobody behind.
LEMMA TellingKeepsRecords ==
    ASSUME RecordInv, NEW r \in Request, Tells(r), UNCHANGED <<record, queue, worker, lost>>,
           NEW u \in User
    PROVE  (Awaited(u) \/ Current(u))'
<1>1. Awaited(u) \/ Current(u)
  BY DEF RecordInv
<1>2. CASE request'[r].op = "publish" /\ u \in request'[r].users
  BY <1>2 DEF Awaited
<1>3. CASE Awaited(u)
  <2>1. (\E s \in Request : request[s].op = "publish" /\ u \in request[s].users)
          => \E s \in Request : request'[s].op = "publish" /\ u \in request'[s].users
    BY DEF Tells
  <2>2. QED BY <1>3, <2>1 DEF Awaited
<1>4. CASE Current(u) /\ Actual(u)' = Actual(u)
  <2>1. Recorded(u)' = Recorded(u)
    BY DEF Recorded
  <2>2. QED BY <1>4, <2>1 DEF Current
<1>5. QED BY <1>1, <1>2, <1>3, <1>4 DEF Tells

----------------------------------------------------------------------------
(* The queue and the worker: the tasks stay, and a recalculation that is   *)
(* awaited goes from hand to hand.                                         *)

LEMMA SameTasksSameCurrent ==
    ASSUME UNCHANGED task, NEW u
    PROVE  Actual(u)' = Actual(u)
BY SameTasksSameCounts DEF OwnedBy, Exists, Alike

\* A request that ends (Enqueue, Fail) leaves the others, which mean what they meant.
LEMMA EndingMeans ==
    ASSUME RecordInv, NEW r \in Request, End(r), UNCHANGED task
    PROVE  /\ \A s \in Request : Meant(s)'
           /\ \A s \in Request \ {r} : request'[s] = request[s]
<1>1. TypeOK /\ (\A s \in Request : Meant(s)) /\ request' = [request EXCEPT ![r] = Idle]
  BY DEF RecordInv, End, Await
<1>2. request'[r] = Idle /\ \A s \in Request \ {r} : request'[s] = request[s]
  BY <1>1 DEF TypeOK
<1>3. KeepsOwners
  BY DEF KeepsOwners, Exists
<1>4. \A s \in Request \ {r} : Meant(s)'
  BY <1>1, <1>2, <1>3, MeantStays
<1>5. Meant(r)'
  BY <1>2 DEF Meant, Idle
<1>6. QED BY <1>2, <1>4, <1>5

\* The listener adds the job whose users the event named.
LEMMA EnqueueHandsOn ==
    ASSUME RecordInv, NEW r \in Request, Enqueue(r), NEW u \in User
    PROVE  (Awaited(u) \/ Current(u))'
<1>1. /\ TypeOK /\ (Awaited(u) \/ Current(u)) /\ End(r)
      /\ request[r].op = "publish" /\ queue' = Append(queue, request[r].users)
      /\ UNCHANGED <<task, record, worker, lost>>
  BY DEF RecordInv, Enqueue
<1>2. \A s \in Request \ {r} : request'[s] = request[s]
  BY <1>1, EndingMeans
<1>3. queue \in Seq(SUBSET User) /\ request[r].users \in SUBSET User
  BY <1>1, InFlightFields DEF TypeOK
<1>4. /\ DOMAIN queue \subseteq DOMAIN queue' /\ \A i \in DOMAIN queue : queue'[i] = queue[i]
      /\ Len(queue) + 1 \in DOMAIN queue' /\ queue'[Len(queue) + 1] = request[r].users
  BY <1>1, <1>3
<1>5. CASE Awaited(u)
  <2>1. CASE \E s \in Request : request[s].op = "publish" /\ u \in request[s].users
    BY <1>2, <1>4, <2>1 DEF Awaited
  <2>2. CASE \E i \in DOMAIN queue : u \in queue[i]
    BY <1>4, <2>2 DEF Awaited
  <2>3. CASE u \in lost \/ (worker # Nil /\ u \in worker.users /\ worker.user # u)
    BY <1>1, <2>3 DEF Awaited
  <2>4. QED BY <1>5, <2>1, <2>2, <2>3 DEF Awaited
<1>6. CASE Current(u)
  <2>1. Actual(u)' = Actual(u) /\ Recorded(u)' = Recorded(u)
    BY <1>1, SameTasksSameCurrent DEF Recorded
  <2>2. QED BY <1>1, <1>6, <2>1 DEF Current
<1>7. QED BY <1>1, <1>5, <1>6

\* A handler that dies between its write and its event loses it: lost says so.
LEMMA FailHandsOn ==
    ASSUME RecordInv, NEW r \in Request, Fail(r), NEW u \in User
    PROVE  (Awaited(u) \/ Current(u))'
<1>1. /\ Awaited(u) \/ Current(u)
      /\ End(r) /\ lost' = IF request[r].op = "publish" THEN lost \cup request[r].users ELSE lost
      /\ UNCHANGED <<task, record, queue, worker>>
  BY DEF RecordInv, Fail
<1>2. \A s \in Request \ {r} : request'[s] = request[s]
  BY <1>1, EndingMeans
<1>3. CASE Awaited(u)
  <2>1. CASE \E s \in Request : request[s].op = "publish" /\ u \in request[s].users
    BY <1>1, <1>2, <2>1 DEF Awaited
  <2>2. CASE ~\E s \in Request : request[s].op = "publish" /\ u \in request[s].users
    BY <1>1, <1>3, <2>2 DEF Awaited
  <2>3. QED BY <2>1, <2>2
<1>4. CASE Current(u)
  <2>1. Actual(u)' = Actual(u) /\ Recorded(u)' = Recorded(u)
    BY <1>1, SameTasksSameCurrent DEF Recorded
  <2>2. QED BY <1>1, <1>4, <2>1 DEF Current
<1>5. QED BY <1>1, <1>3, <1>4

LEMMA TakeJobHandsOn ==
    ASSUME RecordInv, TakeJob, NEW u \in User
    PROVE  (Awaited(u) \/ Current(u))'
<1>1. /\ TypeOK /\ (Awaited(u) \/ Current(u))
      /\ worker = Nil /\ queue # <<>>
      /\ worker' = [users |-> Head(queue), user |-> Nil, counts |-> Nil]
      /\ queue' = Tail(queue)
      /\ UNCHANGED <<task, record, request, calls, lost>>
  BY DEF RecordInv, TakeJob
<1>2. Nil \notin User
  BY TaskAssumption DEF TaskAssumption
<1>3. CASE Awaited(u)
  <2>1. ASSUME NEW i \in DOMAIN queue, u \in queue[i] PROVE Awaited(u)'
    <3>1. CASE i = 1
      <4>1. worker'.users = queue[1] /\ worker'.user = Nil
        BY <1>1
      <4>2. worker' # Nil
        <5>1. Head(queue) \in SUBSET User
          BY <1>1 DEF TypeOK
        <5>2. worker' \in Job
          BY <1>1, <5>1 DEF Job
        <5>3. QED BY <5>2, TaskAssumption DEF TaskAssumption
      <4>3. QED BY <1>2, <2>1, <3>1, <4>1, <4>2 DEF Awaited
    <3>2. CASE i # 1
      <4>1. i - 1 \in DOMAIN queue' /\ queue'[i - 1] = queue[i]
        BY <1>1, <2>1, <3>2 DEF TypeOK
      <4>2. QED BY <2>1, <4>1 DEF Awaited
    <3>3. QED BY <3>1, <3>2
  <2>2. CASE u \in lost \/ \E s \in Request : request[s].op = "publish" /\ u \in request[s].users
    BY <1>1, <2>2 DEF Awaited
  <2>3. QED BY <1>1, <1>3, <2>1, <2>2 DEF Awaited
<1>4. CASE Current(u)
  <2>1. Actual(u)' = Actual(u) /\ Recorded(u)' = Recorded(u)
    BY <1>1, SameTasksSameCurrent DEF Recorded
  <2>2. worker'.user = Nil
    BY <1>1
  <2>3. QED BY <1>1, <1>2, <1>4, <2>1, <2>2 DEF Current
<1>5. QED BY <1>1, <1>3, <1>4

LEMMA ReadHandsOn ==
    ASSUME RecordInv, NEW v \in User, RecalculateRead(v), NEW u \in User
    PROVE  (Awaited(u) \/ Current(u))' /\ WorksOnItsJob'
<1>1. /\ TypeOK /\ (Awaited(u) \/ Current(u))
      /\ worker # Nil /\ worker.user = Nil /\ v \in worker.users
      /\ worker' = [worker EXCEPT !.user = v, !.counts = Actual(v)]
      /\ lost' = lost \ {v}
      /\ UNCHANGED <<task, record, queue, request, calls>>
  BY DEF RecordInv, RecalculateRead
<1>2. Nil \notin User
  BY TaskAssumption DEF TaskAssumption
<1>3. worker'.users = worker.users /\ worker'.user = v /\ worker'.counts = Actual(v) /\ worker' # Nil
  <2>1. worker \in Job /\ Actual(v) \in Counts
    BY <1>1, ActualCounts DEF TypeOK
  <2>2. worker' \in Job
    BY <1>1, <2>1 DEF Job
  <2>3. worker' # Nil
    BY <2>2, TaskAssumption DEF TaskAssumption
  <2>4. QED BY <1>1, <2>1, <2>3 DEF Job
<1>4. Actual(u)' = Actual(u) /\ Recorded(u)' = Recorded(u)
  BY <1>1, SameTasksSameCurrent DEF Recorded
<1>5. WorksOnItsJob'
  BY <1>1, <1>3 DEF WorksOnItsJob
<1>6. CASE u = v
  BY <1>3, <1>4, <1>5, <1>6 DEF Current
<1>7. CASE u # v /\ Awaited(u)
  BY <1>1, <1>3, <1>5, <1>7 DEF Awaited
<1>8. CASE u # v /\ Current(u)
  BY <1>1, <1>2, <1>3, <1>4, <1>5, <1>8 DEF Current
<1>9. QED BY <1>1, <1>6, <1>7, <1>8

LEMMA WriteHandsOn ==
    ASSUME RecordInv, NEW x \in RatingNames, RecalculateWrite(x), NEW u \in User
    PROVE  (Awaited(u) \/ Current(u))' /\ WorksOnItsJob'
<1> DEFINE left == worker.users \ {worker.user}
           row == [counts |-> worker.counts, rating |-> x]
           job == [users |-> left, user |-> Nil, counts |-> Nil]
<1>1. /\ TypeOK /\ RecordsAreRated /\ (Awaited(u) \/ Current(u))
      /\ worker # Nil /\ worker.user # Nil
      /\ record' = [record EXCEPT ![worker.user] = row]
      /\ worker' = IF left = {} THEN Nil ELSE job
      /\ UNCHANGED <<task, queue, request, calls, lost>>
  BY DEF RecordInv, RecalculateWrite
<1>2. /\ worker.users \in SUBSET User /\ worker.user \in User /\ worker.counts \in Counts
      /\ Nil \notin User /\ DOMAIN record = User
  BY <1>1, TaskAssumption DEF TypeOK, RecordsAreRated, Job, TaskAssumption
<1>3. row \in RecordRow /\ row # Nil /\ row.counts = worker.counts
  <2>1. row \in RecordRow
    BY <1>2 DEF RecordRow
  <2>2. QED BY <2>1, TaskAssumption DEF TaskAssumption
<1>4. job # Nil /\ job.user = Nil /\ job.users = left
  <2>1. job \in Job
    BY <1>2 DEF Job
  <2>2. QED BY <2>1, TaskAssumption DEF TaskAssumption
<1> HIDE DEF row, job
<1>5. Actual(u)' = Actual(u)
  BY <1>1, SameTasksSameCurrent
<1>6. WorksOnItsJob'
  BY <1>1, <1>4 DEF WorksOnItsJob
<1>7. ~(worker' # Nil /\ worker'.user = u)
  BY <1>1, <1>2, <1>4
<1>8. CASE worker.user = u
  <2>1. CASE Current(u)
    <3>1. worker.counts = Actual(u)
      BY <1>1, <1>8, <2>1 DEF Current
    <3>2. record'[u] = row
      BY <1>1, <1>2, <1>8
    <3>3. Recorded(u)' = worker.counts
      BY <1>3, <3>2 DEF Recorded
    <3>4. QED BY <1>5, <1>6, <1>7, <3>1, <3>3 DEF Current
  <2>2. CASE Awaited(u)
    BY <1>1, <1>6, <1>8, <2>2 DEF Awaited
  <2>3. QED BY <1>1, <2>1, <2>2
<1>9. CASE worker.user # u
  <2>1. CASE Current(u)
    <3>1. Recorded(u)' = Recorded(u)
      BY <1>1, <1>2, <1>9 DEF Recorded
    <3>2. QED BY <1>1, <1>5, <1>6, <1>7, <1>9, <2>1, <3>1 DEF Current
  <2>2. CASE u \in worker.users
    <3>1. u \in left
      BY <1>9, <2>2
    <3>2. worker' # Nil /\ u \in worker'.users /\ worker'.user # u
      BY <1>1, <1>2, <1>4, <3>1
    <3>3. QED BY <1>6, <3>2 DEF Awaited
  <2>3. CASE Awaited(u) /\ u \notin worker.users
    BY <1>1, <1>6, <2>3 DEF Awaited
  <2>4. QED BY <1>1, <2>1, <2>2, <2>3
<1>10. QED BY <1>8, <1>9

\* A job that fails takes all its users with it: lost says so.
LEMMA JobFailsHandsOn ==
    ASSUME RecordInv, JobFails, NEW u \in User
    PROVE  (Awaited(u) \/ Current(u))' /\ WorksOnItsJob'
<1>1. /\ (Awaited(u) \/ Current(u)) /\ WorksOnItsJob
      /\ worker # Nil /\ worker' = Nil /\ lost' = lost \cup worker.users
      /\ UNCHANGED <<task, record, queue, request, calls>>
  BY DEF RecordInv, JobFails
<1>2. Nil \notin User
  BY TaskAssumption DEF TaskAssumption
<1>3. CASE u \in worker.users \/ Awaited(u)
  BY <1>1, <1>3 DEF Awaited, WorksOnItsJob
<1>4. CASE u \notin worker.users /\ Current(u)
  <2>1. Actual(u)' = Actual(u) /\ Recorded(u)' = Recorded(u)
    BY <1>1, SameTasksSameCurrent DEF Recorded
  <2>2. worker.user # u
    BY <1>1, <1>2, <1>4 DEF WorksOnItsJob
  <2>3. QED BY <1>1, <1>4, <2>1, <2>2 DEF Current, WorksOnItsJob
<1>5. QED BY <1>1, <1>3, <1>4 DEF WorksOnItsJob

----------------------------------------------------------------------------

LEMMA RecordsStep ==
    ASSUME Alone \/ NobodyMovesTasks, RecordInv, [Next]_vars
    PROVE  RecordInv'
<1>1. TypeOK /\ RecordsAreRated /\ WorksOnItsJob /\ \A r \in Request : Meant(r)
  BY DEF RecordInv
<1>2. TypeOK' /\ RecordsAreRated'
  BY <1>1, StepsTyped, RecordsStayRated
<1>3. ASSUME NEW r \in Request, Tells(r), UNCHANGED <<record, queue, worker, lost>> PROVE RecordInv'
  <2>1. \A u \in User : (Awaited(u) \/ Current(u))'
    BY <1>3, TellingKeepsRecords
  <2>2. \A s \in Request : Meant(s)'
    <3>1. ASSUME NEW s \in Request \ {r} PROVE Meant(s)'
      <4>1. ~Alone
        BY DEF Alone
      <4>2. QED BY <1>1, <1>3, <4>1, MeantStays DEF Tells
    <3>2. QED BY <1>3, <3>1 DEF Tells
  <2>3. QED BY <1>1, <1>2, <1>3, <2>1, <2>2 DEF RecordInv, WorksOnItsJob
<1>4. ASSUME NEW r \in Request, HandlerStep(r) PROVE RecordInv'
  <2>1. UNCHANGED <<record, queue, worker, lost>>
    BY <1>4 DEF HandlerStep, CreateTask, UpdateRead, UpdateStatusRead, RemoveRead, AddSubTaskRead,
                OverdueRead, RecalculateAll
  <2>2. QED BY <1>3, <1>4, <2>1, HandlersTell
<1>5. ASSUME NEW r \in Request,
             UpdateWalk(r) \/ UpdateCommit(r) \/ UpdateStatusCommit(r) \/ RemoveCommit(r)
                 \/ AddSubTaskCommit(r) \/ OverdueCommit(r)
      PROVE  RecordInv'
  <2>1. UNCHANGED <<record, queue, worker, lost>>
    BY <1>5 DEF UpdateWalk, UpdateCommit, UpdateStatusCommit, RemoveCommit, AddSubTaskCommit, OverdueCommit
  <2>2. QED BY <1>3, <1>5, <2>1, CommitsTell
<1>6. ASSUME NEW r \in Request, Enqueue(r) \/ Fail(r) PROVE RecordInv'
  <2>1. End(r) /\ UNCHANGED <<task, worker>>
    BY <1>6 DEF Enqueue, Fail
  <2>2. \A u \in User : (Awaited(u) \/ Current(u))'
    BY <1>6, EnqueueHandsOn, FailHandsOn
  <2>3. QED BY <1>1, <1>2, <2>1, <2>2, EndingMeans DEF RecordInv, WorksOnItsJob
<1>7. ASSUME UNCHANGED <<task, request>>, WorksOnItsJob', \A u \in User : (Awaited(u) \/ Current(u))'
      PROVE  RecordInv'
  <2>1. KeepsOwners
    BY <1>7 DEF KeepsOwners, Exists
  <2>2. \A s \in Request : Meant(s)'
    BY <1>1, <1>7, <2>1, MeantStays
  <2>3. QED BY <1>2, <1>7, <2>2 DEF RecordInv
<1>8. CASE TakeJob
  <2>1. \A u \in User : (Awaited(u) \/ Current(u))'
    BY <1>8, TakeJobHandsOn
  <2>2. UNCHANGED <<task, request>> /\ worker'.user = Nil
    BY <1>8 DEF TakeJob
  <2>3. QED BY <1>7, <2>1, <2>2 DEF WorksOnItsJob
<1>9. ASSUME NEW v \in User, RecalculateRead(v) PROVE RecordInv'
  <2>1. UNCHANGED <<task, request>>
    BY <1>9 DEF RecalculateRead
  <2>2. QED BY <1>7, <1>9, <2>1, ReadHandsOn
<1>10. ASSUME NEW x \in RatingNames, RecalculateWrite(x) PROVE RecordInv'
  <2>1. UNCHANGED <<task, request>> /\ worker.user \in User
    BY <1>1, <1>10 DEF RecalculateWrite, RecordsAreRated
  <2>2. QED BY <1>7, <1>10, <2>1, WriteHandsOn
<1>11. CASE JobFails
  <2>1. UNCHANGED <<task, request>> /\ WorksOnItsJob'
    BY <1>11 DEF JobFails, WorksOnItsJob
  <2>2. QED BY <1>7, <1>11, <2>1, JobFailsHandsOn
<1>12. ASSUME NEW t \in Task, DeadlinePasses(t) PROVE RecordInv'
  <2>1. /\ task' = [task EXCEPT ![t].overdue = TRUE] /\ task \in [Task -> TaskRow]
        /\ UNCHANGED <<record, queue, worker, request, calls, lost>>
    BY <1>1, <1>12 DEF DeadlinePasses, TypeOK
  <2>2. \A s \in Task : task'[s].status = task[s].status /\ task'[s].assignee = task[s].assignee
    BY <2>1 DEF TaskRow
  <2>3. KeepsOwners
    BY <2>2 DEF KeepsOwners, Exists
  <2>4. \A s \in Request : Meant(s)'
    BY <1>1, <2>1, <2>2, <2>3, MeantStays
  <2>5. \A u \in User : Actual(u)' = Actual(u)
    BY <2>2, SameTasksSameCounts DEF OwnedBy, Exists, Alike
  <2>6. \A u \in User : (Awaited(u) \/ Current(u))'
    BY <2>1, <2>5 DEF RecordInv, Awaited, Current, Recorded
  <2>7. QED BY <1>1, <1>2, <2>1, <2>4, <2>6 DEF RecordInv, WorksOnItsJob
<1>13. CASE UNCHANGED vars
  <2>1. UNCHANGED <<task, record, queue, worker, request, lost>>
    BY <1>13 DEF vars
  <2>2. \A u \in User : Actual(u)' = Actual(u)
    BY <2>1, SameTasksSameCurrent
  <2>3. \A u \in User : (Awaited(u) \/ Current(u))'
    BY <2>1, <2>2 DEF RecordInv, Awaited, Current, Recorded
  <2>4. QED BY <1>1, <1>7, <2>1, <2>3 DEF WorksOnItsJob
<1>14. QED BY <1>4, <1>5, <1>6, <1>8, <1>9, <1>10, <1>11, <1>12, <1>13 DEF Next, Continue, WorkerStep

LEMMA RecordsInit == Init => RecordInv
<1> SUFFICES ASSUME Init PROVE RecordInv
  OBVIOUS
<1>1. TypeOK
  BY InitTyped
<1>2. RecordsAreRated /\ WorksOnItsJob
  BY DEF Init, StoreInit, RecordsAreRated, WorksOnItsJob
<1>3. \A r \in Request : Meant(r)
  BY DEF Init, StoreInit, Meant, Idle
<1>4. ASSUME NEW u \in User PROVE Recorded(u) = Actual(u)
  <2>1. Recorded(u) = [assigned |-> 0, onTime |-> 0, late |-> 0, overdue |-> 0]
    BY DEF Init, StoreInit, Recorded
  <2>2. \A t \in Task : task[t].assignee # u
    BY TaskAssumption DEF Init, StoreInit, NoRow, TaskAssumption
  <2>3. \A S : {t \in Task : task[t].assignee = u /\ task[t].status \in S} = {}
    BY <2>2
  <2>4. Cardinality({}) = 0
    BY FS_EmptySet
  <2>5. QED BY <2>1, <2>3, <2>4 DEF Actual
<1>5. \A u \in User : Current(u)
  BY <1>4 DEF Init, StoreInit, Current
<1>6. QED BY <1>1, <1>2, <1>3, <1>5 DEF RecordInv

\* RecordsCatchUp: once the queue, the worker and the handlers are done, the
\* record of every user counts the tasks as they are, unless its event or job
\* was lost; any number of handlers may overlap, provided that none of them
\* reassigns a task or adds its first subtask, and all of them may be called
\* one at a time.
THEOREM RecordsFollowTasks ==
    ASSUME Alone \/ NobodyMovesTasks
    PROVE  Spec => []RecordsCatchUp
<1>1. RecordInv /\ [Next]_vars => RecordInv'
  BY RecordsStep
<1>2. RecordInv => RecordsCatchUp
  <2>1. ASSUME RecordInv, Quiet, NEW u \in User \ lost PROVE Recorded(u) = Actual(u)
    <3>1. Awaited(u) \/ Current(u)
      BY <2>1 DEF RecordInv
    <3>2. ~Awaited(u)
      BY <2>1 DEF Awaited, Quiet, Idle
    <3>3. QED BY <2>1, <3>1, <3>2 DEF Current, Quiet
  <2>2. QED BY <2>1 DEF RecordsCatchUp
<1>3. QED BY <1>1, <1>2, RecordsInit, PTL DEF Spec
=============================================================================
