--------------------------- MODULE Notifications ---------------------------
(***************************************************************************)
(* src/src/modules/notification: the queue of notices, its worker, the     *)
(* inbox rows, and the cron that warns of deadlines                        *)
(* (src/src/scheduler/notification.task.ts).  A notice keeps its job and   *)
(* the rows the job has written.  No module of the program registers       *)
(* NotificationProcessor: as it is built, load.worker is FALSE.  Left out: *)
(* mail and its preferences, which change nothing here.                    *)
(***************************************************************************)
EXTENDS Requests, FiniteSets, Sequences, SequencesExt

CONSTANTS
    User,
    Subject,     \* what a notice is about: complaints and tasks
    MaxNotices   \* bound: the notices NoticesSettle looks at

VARIABLES
    notice,  \* every notice dispatched so far, in order
    due      \* what the run of the deadline cron has still to warn of

Kind == {"COMPLAINT_CREATED", "COMPLAINT_STATUS_CHANGED", "DEADLINE_WARNING"}
RowState == {"unread", "read", "deleted"}

Notice ==
    [to: User, about: Subject, kind: Kind,
     state: {"waiting", "active", "written", "done", "failed"},
     attempts: 0..3, stalls: 0..2, rows: Seq(RowState)]

NotificationsInit == notice = <<>> /\ due = {}

\* dispatch, dispatchBulk, dispatchToMany.
Jobs(users, about, kind) ==
    SetToSeq({[to |-> u, about |-> about, kind |-> kind, state |-> "waiting",
               attempts |-> 0, stalls |-> 0, rows |-> <<>>] : u \in users})

Dispatch(users, about, kind) == notice' = notice \o Jobs(users, about, kind)

----------------------------------------------------------------------------
(* The worker takes one job at a time.                                     *)

Busy == \E i \in DOMAIN notice : notice[i].state \in {"active", "written"}

Take(i) ==
    /\ load.worker /\ ~Busy
    /\ notice[i].state = "waiting"
    /\ notice' = [notice EXCEPT ![i].state = "active"]

\* processDispatch creates the row and emits it before it looks for preferences.
Write(i) ==
    /\ notice[i].state = "active"
    /\ notice' = [notice EXCEPT ![i].state = "written", ![i].rows = Append(@, "unread")]

Finish(i) ==
    /\ notice[i].state = "written"
    /\ notice' = [notice EXCEPT ![i].state = "done"]

\* Fault: an error of the insert is caught and logged like one of the mail.
Throw_Caught(i) ==
    /\ notice[i].state \in {"active", "written"}
    /\ notice' = [notice EXCEPT ![i].state = "done"]

\* Fault: attempts are not counted.
Throw_NotCounted(i) ==
    /\ notice[i].state \in {"active", "written"}
    /\ notice' = [notice EXCEPT ![i].state = "waiting"]

\* Fault: attempts: 4.
Throw_FourAttempts(i) ==
    /\ notice[i].state \in {"active", "written"}
    /\ notice' = [notice EXCEPT ![i].attempts = @ + 1,
                                ![i].state = IF notice[i].attempts < 3 THEN "waiting" ELSE "failed"]

\* The insert or a lookup throws: attempts: 3.
Throw(i) ==
    /\ notice[i].state \in {"active", "written"}
    /\ notice' = [notice EXCEPT ![i].attempts = @ + 1,
                                ![i].state = IF notice[i].attempts < 2 THEN "waiting" ELSE "failed"]

\* The process dies with the job.  BullMQ puts a stalled job back once.
Stall(i) ==
    /\ notice[i].state \in {"active", "written"}
    /\ notice' = [notice EXCEPT ![i].stalls = @ + 1,
                                ![i].state = IF notice[i].stalls < 1 THEN "waiting" ELSE "failed"]

Work == \E i \in DOMAIN notice : Take(i) \/ Write(i) \/ Finish(i) \/ Throw(i)

----------------------------------------------------------------------------
(* The inbox.  Read and write of a handler are one step: all that can      *)
(* happen in between is that the row goes and the write throws.            *)

InboxOf(u) == {i \in DOMAIN notice : notice[i].to = u}

MarkAsRead(i, k) ==
    /\ notice[i].rows[k] # "deleted"
    /\ notice' = [notice EXCEPT ![i].rows[k] = "read"]

MarkAllAsRead(u) ==
    notice' = [i \in DOMAIN notice |->
        IF i \in InboxOf(u)
        THEN [notice[i] EXCEPT !.rows = [k \in DOMAIN @ |-> IF @[k] = "unread" THEN "read" ELSE @[k]]]
        ELSE notice[i]]

DeleteNotification(i, k) ==
    /\ notice[i].rows[k] # "deleted"
    /\ notice' = [notice EXCEPT ![i].rows[k] = "deleted"]

Inbox ==
    /\ calls < load.calls /\ calls' = calls + 1
    /\ UNCHANGED <<request, load, due>>
    /\ \/ \E i \in DOMAIN notice : \E k \in DOMAIN notice[i].rows :
            MarkAsRead(i, k) \/ DeleteNotification(i, k)
       \/ \E u \in User : MarkAllAsRead(u)

----------------------------------------------------------------------------
(* handleDeadlineWarnings, in one day.  load.due are the unfinished tasks  *)
(* due within a day, with their assignees.                                 *)

\* A task counts as warned of when there is a row about it, read or not.
Warned(t) ==
    \E i \in DOMAIN notice : /\ notice[i].about = t /\ notice[i].kind = "DEADLINE_WARNING"
                             /\ \E k \in DOMAIN notice[i].rows : notice[i].rows[k] # "deleted"

NoticesAbout(t) == {i \in DOMAIN notice : notice[i].about = t}

\* (load.warnings bounds the warnings of one task.)
Unwarned == {d \in load.due : ~Warned(d.task) /\ Cardinality(NoticesAbout(d.task)) < load.warnings}

\* Fault: a task that was warned of ends the run (return for continue).
WarnRead_StopsAtWarned ==
    /\ due = {} /\ Unwarned # {}
    /\ \A d \in load.due : ~Warned(d.task)
    /\ due' = Unwarned

WarnRead ==
    /\ due = {} /\ Unwarned # {}
    /\ due' = Unwarned

\* One dispatch is awaited after another.
WarnDispatch(d) ==
    /\ d \in due
    /\ Dispatch({d.user}, d.task, "DEADLINE_WARNING")
    /\ due' = due \ {d}

\* A dispatch throws, which ends the run.  (It counts as a call: the bound.)
WarnFails ==
    /\ calls < load.calls /\ calls' = calls + 1
    /\ due # {} /\ due' = {}
    /\ UNCHANGED <<request, load, notice>>

----------------------------------------------------------------------------

NotificationStep ==
    \/ /\ Work \/ \E i \in DOMAIN notice : Stall(i)
       /\ UNCHANGED due
    \/ WarnRead /\ UNCHANGED notice
    \/ \E d \in due : WarnDispatch(d)

NotificationsTypeOK ==
    /\ notice \in Seq(Notice)
    /\ due \subseteq load.due

\* A notice that is done is in the inbox, or was until its user deleted it; it is
\* there once for every time the job was started and got as far as the insert,
\* so four times at most.
RowsAreAccountedFor ==
    \A i \in DOMAIN notice :
        LET n == notice[i]
            tries == n.attempts + n.stalls + (IF n.state \in {"written", "done"} THEN 1 ELSE 0)
        IN /\ n.state \in {"written", "done"} => n.rows # <<>>
           /\ Len(n.rows) <= tries /\ Len(n.rows) <= 4

Settled(i) == i \in DOMAIN notice /\ notice[i].state \in {"done", "failed"}

\* With a worker every notice is delivered, or given up after its attempts.
NoticesSettle ==
    \A i \in 1..MaxNotices : load.worker /\ i \in DOMAIN notice ~> Settled(i)

\* With a worker everybody is warned of what is due, in a row of the inbox that
\* stays there until they delete it, unless the job has failed for good: runs of
\* the cron may end between two tasks, jobs may fail and users may delete the
\* warning of one task before another task has its own.
DueTasksAreWarned ==
    \A d \in [task: Subject, user: User] :
        load.worker /\ d \in load.due ~>
            \E i \in NoticesAbout(d.task) \cap InboxOf(d.user) :
                notice[i].rows # <<>> \/ notice[i].state = "failed"
=============================================================================
