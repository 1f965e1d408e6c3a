----------------------------- MODULE TaskStore ------------------------------
(***************************************************************************)
(* Tasks, the jobs of the BullMQ queue 'performance' and the Performance   *)
(* rows computed from tasks (src/prisma/schema.prisma, models Task and     *)
(* Performance).  As in ReviewStore a request is a chain of steps, one for *)
(* each stretch between two awaits, and keeps what it read in request[r];  *)
(* after its write a handler emits an event, and the listener of           *)
(* PerformanceService adds a job.  Roles are left out: an admin may make   *)
(* every call.  Subtasks, comments and attachments are left out, except    *)
(* that adding a subtask starts the task.                                  *)
(***************************************************************************)
EXTENDS Integers, FiniteSets, Sequences

CONSTANTS
    User, Task,  \* members of one organization; task ids (never used twice)
    Request,     \* slots for the requests and cron runs in flight at one time
    Nil,         \* SQL NULL, or no row
    Change,      \* bound: what clients ask updates to change
    MaxCalls,    \* bound: calls and cron runs in one behaviour
    Op           \* bound: the handlers clients call

VARIABLES
    task,     \* the Task rows
    record,   \* the Performance row of each user, without its review columns
    queue,    \* waiting recalculate jobs, each a set of users
    worker,   \* the job PerformanceProcessor is working on
    request,  \* what each request in flight has read so far
    calls,    \* requests begun
    lost      \* history: users whose last recalculation was dropped by a fault

vars == <<task, record, queue, worker, request, calls, lost>>

----------------------------------------------------------------------------

Done == {"COMPLETED", "COMPLETED_LATE"}
TaskStatus == {"UNBORN", "NOT_STARTED", "IN_PROGRESS", "OVERDUE", "DELETED"} \cup Done

\* What updateStatus may write.
Settable == {"NOT_STARTED", "IN_PROGRESS"} \cup Done

\* overdue: the deadline has passed (a task without one is never overdue).
TaskRow == [status: TaskStatus, assignee: User \cup {Nil}, dependsOn: Task \cup {Nil},
            overdue: BOOLEAN, completedAt: BOOLEAN]

NoRow(status) == [status |-> status, assignee |-> Nil, dependsOn |-> Nil,
                  overdue |-> FALSE, completedAt |-> FALSE]

\* A change names the new assignee (Nil: the same) and the new prerequisite
\* (Nil clears it, "keep" leaves it), and may put the deadline off.
Changes == [assignee: User \cup {Nil}, dependsOn: Task \cup {Nil, "keep"}, extend: BOOLEAN]

Counts == [assigned: Nat, onTime: Nat, late: Nat, overdue: Nat]

RatingNames == {"NeedsImprovement", "Average", "Good", "Excellent"}

RecordRow == [counts: Counts, rating: RatingNames]

\* A job the worker has taken, and the user it is working on (Nil: none yet).
Job == [users: SUBSET User, user: User \cup {Nil}, counts: Counts \cup {Nil}]

Idle == [op |-> "idle"]

InFlight ==
    {Idle}
    \cup [op: {"updateWalk"}, task: Task, change: Change, assignee: User,
          current: Task, visited: SUBSET Task]
    \cup [op: {"update"}, task: Task, change: Change, assignee: User]
    \cup [op: {"updateStatus"}, task: Task, status: Settable, assignee: User, stamp: BOOLEAN]
    \cup [op: {"remove"}, task: Task, assignee: User]
    \cup [op: {"addSubTask"}, task: Task]
    \cup [op: {"overdue"}, tasks: SUBSET Task, assignees: SUBSET User]
    \cup [op: {"publish"}, users: SUBSET User]

ASSUME TaskAssumption ==
    /\ Nil \notin User \cup Task \cup RecordRow \cup Job
    /\ "keep" \notin Task
    /\ IsFiniteSet(Task)
    /\ Change \subseteq Changes
    /\ MaxCalls \in Nat

Begin(r, op, q) ==
    /\ op \in Op /\ request[r] = Idle /\ calls < MaxCalls
    /\ request' = [request EXCEPT ![r] = q]
    /\ calls' = calls + 1

Await(r, q) == request' = [request EXCEPT ![r] = q] /\ UNCHANGED calls
End(r) == Await(r, Idle)

\* What a handler does after its write: emit the event, with these users in it.
Publish(r, users) == Await(r, [op |-> "publish", users |-> users])

Exists(t) == task[t].status \notin {"UNBORN", "DELETED"}

\* The groupBy of recalculateForUser.
Actual(u) ==
    LET mine(S) == Cardinality({t \in Task : task[t].assignee = u /\ task[t].status \in S}) IN
    [assigned |-> mine({"NOT_STARTED", "IN_PROGRESS", "OVERDUE"} \cup Done),
     onTime |-> mine({"COMPLETED"}), late |-> mine({"COMPLETED_LATE"}),
     overdue |-> mine({"OVERDUE"})]

StoreInit ==
    /\ task = [t \in Task |-> NoRow("UNBORN")]
    /\ record = [u \in User |-> Nil]
    /\ queue = <<>>
    /\ worker = Nil
    /\ request = [r \in Request |-> Idle]
    /\ calls = 0
    /\ lost = {}

\* Type correctness; a task that exists is assigned to somebody (the column is
\* not nullable, and update leaves it alone when no assignee is given).
TypeOK ==
    /\ task \in [Task -> TaskRow]
    /\ \A t \in Task : Exists(t) => task[t].assignee \in User
    /\ \A u \in User : record[u] = Nil \/ record[u] \in RecordRow
    /\ DOMAIN record = User
    /\ queue \in Seq(SUBSET User)
    /\ worker = Nil \/ worker \in Job
    /\ request \in [Request -> InFlight]
    /\ calls \in 0..MaxCalls
    /\ lost \subseteq User
=============================================================================
