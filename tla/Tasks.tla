------------------------------- MODULE Tasks --------------------------------
(***************************************************************************)
(* The handlers of src/src/modules/task/task.service.ts that change a task *)
(* row, and the overdue cron of src/src/scheduler/performance.task.ts.     *)
(***************************************************************************)
EXTENDS TaskStore

\* What create reads (member, department, prerequisite) it only checks; the
\* prerequisite is not among the columns it writes.
CreateTask(r, t, u) ==
    /\ task[t].status = "UNBORN"
    /\ task' = [task EXCEPT ![t] = [NoRow("NOT_STARTED") EXCEPT !.assignee = u]]
    /\ Begin(r, "create", [op |-> "publish", users |-> {u}])
    /\ UNCHANGED <<record, queue, worker, lost>>

DeadlinePasses(t) ==
    /\ Exists(t) /\ ~task[t].overdue
    /\ task' = [task EXCEPT ![t].overdue = TRUE]
    /\ UNCHANGED <<record, queue, worker, request, calls, lost>>

----------------------------------------------------------------------------
(* update: a new prerequisite is checked by walking up its own chain, one  *)
(* query for each hop.                                                     *)

\* Fault: only direct self-dependence is checked.
UpdateRead_NoWalk(r, t, ch) ==
    /\ Exists(t)
    /\ ch.dependsOn \in Task => Exists(ch.dependsOn) /\ ch.dependsOn # t
    /\ Begin(r, "update", [op |-> "update", task |-> t, change |-> ch, assignee |-> task[t].assignee])
    /\ UNCHANGED <<task, record, queue, worker, lost>>

UpdateRead(r, t, ch) ==
    LET dep == ch.dependsOn
        walks == dep \in Task /\ dep # task[t].dependsOn
    IN
    /\ Exists(t)
    /\ walks => Exists(dep) /\ dep # t
    /\ Begin(r, "update",
             IF walks
             THEN [op |-> "updateWalk", task |-> t, change |-> ch, assignee |-> task[t].assignee,
                   current |-> dep, visited |-> {}]
             ELSE [op |-> "update", task |-> t, change |-> ch, assignee |-> task[t].assignee])
    /\ UNCHANGED <<task, record, queue, worker, lost>>

\* Reaching the task itself throws (Fail); a task seen before ends the walk.
UpdateWalk(r) ==
    LET q == request[r]
        parent == IF Exists(q.current) THEN task[q.current].dependsOn ELSE Nil
    IN
    /\ q.op = "updateWalk"
    /\ q.current # q.task
    /\ IF q.current \in q.visited \/ parent = Nil
       THEN Await(r, [op |-> "update", task |-> q.task, change |-> q.change, assignee |-> q.assignee])
       ELSE Await(r, [q EXCEPT !.current = parent, !.visited = @ \cup {q.current}])
    /\ UNCHANGED <<task, record, queue, worker, lost>>

\* Fault: an absent assignee is written too.
Changed_WritesNull(row, ch) ==
    [row EXCEPT !.assignee = ch.assignee,
                !.dependsOn = IF ch.dependsOn = "keep" THEN @ ELSE ch.dependsOn,
                !.overdue = @ /\ ~ch.extend]

Changed(row, ch) ==
    [row EXCEPT !.assignee = IF ch.assignee = Nil THEN @ ELSE ch.assignee,
                !.dependsOn = IF ch.dependsOn = "keep" THEN @ ELSE ch.dependsOn,
                !.overdue = @ /\ ~ch.extend]

\* Fault: only the new assignee is told of a reassignment.
UpdateCommit_NewOnly(r) ==
    LET q == request[r] IN
    /\ q.op = "update"
    /\ Exists(q.task) /\ (q.change.dependsOn \in Task => Exists(q.change.dependsOn))
    /\ task' = [task EXCEPT ![q.task] = Changed(@, q.change)]
    /\ IF q.change.assignee \notin {Nil, q.assignee}
       THEN Publish(r, {q.change.assignee}) ELSE End(r)
    /\ UNCHANGED <<record, queue, worker, lost>>

\* REASSIGNED names the assignee read at the start and the new one (the two
\* arguments are swapped, which the listener does not tell apart).
UpdateCommit(r) ==
    LET q == request[r] IN
    /\ q.op = "update"
    /\ Exists(q.task) /\ (q.change.dependsOn \in Task => Exists(q.change.dependsOn))
    /\ task' = [task EXCEPT ![q.task] = Changed(@, q.change)]
    /\ IF q.change.assignee \notin {Nil, q.assignee}
       THEN Publish(r, {q.assignee, q.change.assignee}) ELSE End(r)
    /\ UNCHANGED <<record, queue, worker, lost>>

----------------------------------------------------------------------------

PrerequisiteDone(t) ==
    task[t].dependsOn # Nil => task[task[t].dependsOn].status \in Done

\* Fault: the prerequisite is looked at when a task starts, not when it is completed.
UpdateStatusRead_StartOnly(r, t, new) ==
    LET now == task[t].status IN
    /\ Exists(t)
    /\ new \in {"NOT_STARTED", "IN_PROGRESS", "COMPLETED"}
    /\ now = "OVERDUE" => new = "COMPLETED"
    /\ new = "IN_PROGRESS" => PrerequisiteDone(t)
    /\ Begin(r, "updateStatus",
             [op |-> "updateStatus", task |-> t, assignee |-> task[t].assignee,
              status |-> IF new = "COMPLETED" /\ now = "OVERDUE" THEN "COMPLETED_LATE" ELSE new,
              stamp |-> new = "COMPLETED"])
    /\ UNCHANGED <<task, record, queue, worker, lost>>

\* UpdateTaskStatusDto admits three statuses; COMPLETED becomes COMPLETED_LATE
\* when the task was read OVERDUE.
UpdateStatusRead(r, t, new) ==
    LET now == task[t].status IN
    /\ Exists(t)
    /\ new \in {"NOT_STARTED", "IN_PROGRESS", "COMPLETED"}
    /\ now = "OVERDUE" => new = "COMPLETED"
    /\ new \in {"IN_PROGRESS", "COMPLETED"} => PrerequisiteDone(t)
    /\ Begin(r, "updateStatus",
             [op |-> "updateStatus", task |-> t, assignee |-> task[t].assignee,
              status |-> IF new = "COMPLETED" /\ now = "OVERDUE" THEN "COMPLETED_LATE" ELSE new,
              stamp |-> new = "COMPLETED"])
    /\ UNCHANGED <<task, record, queue, worker, lost>>

\* Fault: the completion stamp of a reopened task is kept.
UpdateStatusCommit_KeepsStamp(r) ==
    LET q == request[r] IN
    /\ q.op = "updateStatus"
    /\ Exists(q.task)
    /\ task' = [task EXCEPT ![q.task].status = q.status,
                            ![q.task].completedAt = @ \/ q.stamp]
    /\ Publish(r, {q.assignee})
    /\ UNCHANGED <<record, queue, worker, lost>>

UpdateStatusCommit(r) ==
    LET q == request[r] IN
    /\ q.op = "updateStatus"
    /\ Exists(q.task)
    /\ task' = [task EXCEPT ![q.task].status = q.status, ![q.task].completedAt = q.stamp]
    /\ Publish(r, {q.assignee})
    /\ UNCHANGED <<record, queue, worker, lost>>

----------------------------------------------------------------------------

Dependents(t) == {d \in Task : Exists(d) /\ task[d].dependsOn = t}

RemoveRead(r, t) ==
    /\ Exists(t)
    /\ Dependents(t) = {}
    /\ Begin(r, "remove", [op |-> "remove", task |-> t, assignee |-> task[t].assignee])
    /\ UNCHANGED <<task, record, queue, worker, lost>>

\* task_dependsOnTaskId_fkey is ON DELETE SET NULL.
RemoveCommit(r) ==
    LET q == request[r] IN
    /\ q.op = "remove"
    /\ Exists(q.task)
    /\ task' = [t \in Task |->
           IF t = q.task THEN NoRow("DELETED")
           ELSE IF task[t].dependsOn = q.task THEN [task[t] EXCEPT !.dependsOn = Nil]
           ELSE task[t]]
    /\ Publish(r, {q.assignee})
    /\ UNCHANGED <<record, queue, worker, lost>>

\* Adding the first subtask starts a task, whatever it depends on, and emits
\* no task event.
AddSubTaskRead(r, t) ==
    /\ task[t].status = "NOT_STARTED"
    /\ Begin(r, "addSubTask", [op |-> "addSubTask", task |-> t])
    /\ UNCHANGED <<task, record, queue, worker, lost>>

AddSubTaskCommit(r) ==
    LET t == request[r].task IN
    /\ request[r].op = "addSubTask"
    /\ Exists(t)
    /\ task' = [task EXCEPT ![t].status = "IN_PROGRESS"]
    /\ End(r)
    /\ UNCHANGED <<record, queue, worker, lost>>

----------------------------------------------------------------------------
(* handleOverdueDetection: what to mark is read first, and the updateMany  *)
(* names the ids only.                                                     *)

OverdueRead(r) ==
    LET late == {t \in Task : /\ task[t].overdue
                              /\ task[t].status \in {"NOT_STARTED", "IN_PROGRESS"}} IN
    /\ late # {}
    /\ Begin(r, "overdue", [op |-> "overdue", tasks |-> late,
                            assignees |-> {task[t].assignee : t \in late}])
    /\ UNCHANGED <<task, record, queue, worker, lost>>

\* Fault: nobody's record is recalculated.
OverdueCommit_Silent(r) ==
    LET q == request[r] IN
    /\ q.op = "overdue"
    /\ task' = [t \in Task |->
           IF t \in q.tasks /\ Exists(t) THEN [task[t] EXCEPT !.status = "OVERDUE"] ELSE task[t]]
    /\ End(r)
    /\ UNCHANGED <<record, queue, worker, lost>>

OverdueCommit(r) ==
    LET q == request[r] IN
    /\ q.op = "overdue"
    /\ task' = [t \in Task |->
           IF t \in q.tasks /\ Exists(t) THEN [task[t] EXCEPT !.status = "OVERDUE"] ELSE task[t]]
    /\ Publish(r, q.assignees)
    /\ UNCHANGED <<record, queue, worker, lost>>

\* The request dies before its write, or, when lost has its users, between
\* its write and its event.
Fail(r) ==
    /\ request[r] # Idle
    /\ lost' = IF request[r].op = "publish" THEN lost \cup request[r].users ELSE lost
    /\ End(r)
    /\ UNCHANGED <<task, record, queue, worker>>
=============================================================================
