-------------------------- MODULE TaskPerformance ---------------------------
(***************************************************************************)
(* Tasks and the performance records computed from them.  The worker runs  *)
(* concurrently with everything.  Handlers that overlap break the rules on *)
(* prerequisites and stamps (they are the contract of a singleton Request),*)
(* and a reassignment that overlaps another write makes that write's event *)
(* name the wrong user; without reassignment and subtasks the records      *)
(* catch up however the handlers overlap.                                  *)
(***************************************************************************)
EXTENDS Tasks, Performance

Init == StoreInit

HandlerStep(r) ==
    \/ \E t \in Task, u \in User : CreateTask(r, t, u)
    \/ \E t \in Task, ch \in Change : UpdateRead(r, t, ch)
    \/ \E t \in Task, new \in TaskStatus : UpdateStatusRead(r, t, new)
    \/ \E t \in Task : RemoveRead(r, t)
    \/ \E t \in Task : AddSubTaskRead(r, t)
    \/ OverdueRead(r)
    \/ RecalculateAll(r)

\* What a handler in flight does next.
Continue(r) ==
    \/ UpdateWalk(r)
    \/ UpdateCommit(r)
    \/ UpdateStatusCommit(r)
    \/ RemoveCommit(r)
    \/ AddSubTaskCommit(r)
    \/ OverdueCommit(r)
    \/ Enqueue(r)

WorkerStep ==
    \/ TakeJob
    \/ \E u \in User : RecalculateRead(u)
    \/ \E x \in RatingNames : RecalculateWrite(x)

Next ==
    \/ \E r \in Request : HandlerStep(r) \/ Continue(r) \/ Fail(r)
    \/ \E t \in Task : DeadlinePasses(t)
    \/ WorkerStep
    \/ JobFails

\* The event loop goes on with every handler in flight (it answers or fails),
\* and BullMQ keeps its worker going.  No client has to call, no cron has to run.
Fairness ==
    /\ \A r \in Request : WF_vars(Continue(r) \/ Fail(r))
    /\ WF_vars(WorkerStep)

Spec == Init /\ [][Next]_vars
FairSpec == Spec /\ Fairness

----------------------------------------------------------------------------

\* The chain of prerequisites never closes, however long (every set of tasks
\* has one that waits for none of the set), although the chain is walked one
\* query at a time and nothing in the schema forbids a cycle.
NoDependencyCycle ==
    \A S \in SUBSET Task : S # {} => \E t \in S : task[t].dependsOn \notin S

\* A task is completed only after its prerequisite, and a prerequisite is not
\* deleted under the tasks that wait for it.
PrerequisitesComeFirst ==
    [][\A t \in Task :
         /\ task'[t].status \in Done /\ task[t].status \notin Done => PrerequisiteDone(t)
         /\ task'[t].status = "DELETED" /\ Exists(t) => Dependents(t) = {}]_vars

\* The completion stamp and the status, written by four handlers and a cron, agree.
StampMeansDone == \A t \in Task : Exists(t) => (task[t].completedAt <=> task[t].status \in Done)

Quiet == (\A r \in Request : request[r] = Idle) /\ queue = <<>> /\ worker = Nil

Recorded(u) ==
    IF record[u] = Nil THEN [assigned |-> 0, onTime |-> 0, late |-> 0, overdue |-> 0]
    ELSE record[u].counts

\* When everything has been processed the records count the tasks as they are,
\* but for the users whose event or job was lost: the record is recalculated
\* from the rows, so jobs that come late or twice do no harm.
RecordsCatchUp == Quiet => \A u \in User \ lost : Recorded(u) = Actual(u)

\* Nobody without overdue work is rated "NeedsImprovement".
NeedsImprovementMeansOverdue ==
    \A u \in User : record[u] # Nil /\ record[u].rating = "NeedsImprovement" =>
        record[u].counts.overdue > 0

\* A record that lags behind the tasks catches up, unless its job was lost.
EveryChangeIsCounted ==
    \A u \in User : (Recorded(u) # Actual(u)) ~> (Recorded(u) = Actual(u) \/ u \in lost)

----------------------------------------------------------------------------
\* "a task cannot move to `IN_PROGRESS` while its required prior task remains
\* unfinished" (src/CHANGELOG.md:47).
StartsAfterPrerequisite ==
    [][\A t \in Task :
         task'[t].status = "IN_PROGRESS" /\ task[t].status # "IN_PROGRESS" => PrerequisiteDone(t)]_vars
=============================================================================
