----------------------------- MODULE Complaints -----------------------------
(***************************************************************************)
(* src/src/modules/complaint/complaint.service.ts and the cron of          *)
(* src/src/scheduler/complaint.task.ts, with the notices they dispatch.    *)
(* Who is an admin, and who has a profile, does not change.  Left out: the *)
(* wording, mails, the audit log (but for its await).                      *)
(***************************************************************************)
EXTENDS Notifications

CONSTANTS
    Complaint,  \* ids, never used twice
    Nil, Gone,  \* an id not yet used, or SQL NULL; a row that was deleted
    Admin       \* the admins and owners

VARIABLES
    complaint,  \* the Complaint rows, each with its ComplaintTarget rows
    lateRun,    \* what the cron has marked and not announced yet
    announced   \* history: how often the present lateness of each was announced

frame == <<request, calls, load>>
vars == <<complaint, lateRun, announced, notice, due, request, calls, load>>

Status == {"OPEN", "IN_REVIEW", "LATE", "RESOLVED", "DISMISSED"}
Closed == {"RESOLVED", "DISMISSED"}

\* Fault: an open complaint may be closed without a review.
ValidTransitions_FromOpen(status) ==
    CASE status = "OPEN" -> {"IN_REVIEW", "RESOLVED", "DISMISSED"}
      [] status = "IN_REVIEW" -> {"RESOLVED", "DISMISSED"}
      [] status = "LATE" -> {"IN_REVIEW", "RESOLVED", "DISMISSED"}
      [] status \in Closed -> {}

\* VALID_TRANSITIONS.
ValidTransitions(status) ==
    CASE status = "OPEN" -> {"IN_REVIEW"}
      [] status = "IN_REVIEW" -> {"RESOLVED", "DISMISSED"}
      [] status = "LATE" -> {"IN_REVIEW", "RESOLVED", "DISMISSED"}
      [] status \in Closed -> {}

\* old: created more than two hours ago; age: the ticks of the cron since the
\* last update.  Two are ten minutes, and more than the window of the cron.
ComplaintRow == [by: User, targets: SUBSET User, status: Status, resolvedBy: User \cup {Nil},
                 old: BOOLEAN, age: {0, 1, 2}]
NoRow == {Nil, Gone}
Exists(c) == complaint[c] \notin NoRow

InFlight ==
    {Idle}
    \cup [op: {"filed", "told"}, complaint: Complaint, by: User, targets: SUBSET User]
    \cup [op: {"update", "updated"}, complaint: Complaint, by: User, targets: SUBSET User,
          status: Status]
    \cup [op: {"delete"}, complaint: Complaint]

\* Two slots that both change a status are left out: the handler writes without
\* a condition, and the second of two changes would not be one of the table.
ASSUME ComplaintAssumption ==
    /\ Complaint \subseteq Subject /\ Admin \subseteq User /\ IsFiniteSet(User)
    /\ Nil \notin User /\ NoRow \cap ComplaintRow = {} /\ Nil # Gone
    /\ \A l \in Load : /\ l.seed \in [Complaint -> ComplaintRow \cup NoRow]
                       /\ \A c \in Complaint : l.seed[c] \notin NoRow => l.seed[c].age = 2
                       /\ l.due \subseteq [task: Subject \ Complaint, user: User]
    /\ \A l \in Load : \A r, s \in Request : "update" \in l.ops[r] \cap l.ops[s] => r = s

Init ==
    /\ RequestsInit /\ NotificationsInit
    /\ complaint = load.seed
    /\ lateRun = {}
    /\ announced = [c \in Complaint |->
           IF complaint[c] \notin NoRow /\ complaint[c].status = "LATE" THEN 1 ELSE 0]

----------------------------------------------------------------------------
(* Handlers.                                                               *)

\* create: the complaint and its targets in one transaction.
FileCommit(r, c, u, targets) ==
    /\ complaint[c] = Nil /\ u \notin targets
    /\ Begin(r, "file", [op |-> "filed", complaint |-> c, by |-> u, targets |-> targets])
    /\ complaint' = [complaint EXCEPT ![c] =
           [by |-> u, targets |-> targets, status |-> "OPEN", resolvedBy |-> Nil,
            old |-> FALSE, age |-> 0]]
    /\ UNCHANGED <<lateRun, announced, notice, due>>

\* The targets are told before the admins are looked up ...
FileNotify(r) ==
    LET q == request[r] IN
    /\ q.op = "filed"
    /\ Dispatch(q.targets, q.complaint, "COMPLAINT_CREATED")
    /\ Await(r, [q EXCEPT !.op = "told"])
    /\ UNCHANGED <<complaint, lateRun, announced, due>>

\* ... and the admins then, one who is a target as well for the second time.
FileNotifyAdmins(r) ==
    LET q == request[r] IN
    /\ q.op = "told"
    /\ Dispatch(Admin \ {q.by}, q.complaint, "COMPLAINT_CREATED")
    /\ End(r)
    /\ UNCHANGED <<complaint, lateRun, announced, due>>

UpdateRead(r, c, u, status) ==
    /\ Exists(c)
    /\ status \in ValidTransitions(complaint[c].status)
    /\ u \in Admin \/ (status = "IN_REVIEW" /\ u \in complaint[c].targets)
    /\ Begin(r, "update", [op |-> "update", complaint |-> c, by |-> u,
                           targets |-> complaint[c].targets, status |-> status])
    /\ UNCHANGED <<complaint, lateRun, announced, notice, due>>

Updated(row, status, u) ==
    [row EXCEPT !.status = status, !.age = 0,
                !.resolvedBy = IF status \in Closed THEN u ELSE @]

UpdateCommit(r) ==
    LET q == request[r] IN
    /\ q.op = "update" /\ Exists(q.complaint)
    /\ complaint' = [complaint EXCEPT ![q.complaint] = Updated(@, q.status, q.by)]
    /\ announced' = [announced EXCEPT ![q.complaint] = 0]
    /\ Await(r, [q EXCEPT !.op = "updated"])
    /\ UNCHANGED <<lateRun, notice, due>>

\* After the audit log was awaited; the submitter is not told.
UpdateNotify(r) ==
    LET q == request[r] IN
    /\ q.op = "updated"
    /\ Dispatch(q.targets, q.complaint, "COMPLAINT_STATUS_CHANGED")
    /\ End(r)
    /\ UNCHANGED <<complaint, lateRun, announced, due>>

DeleteRead(r, c, u) ==
    /\ Exists(c)
    /\ IF complaint[c].by = u THEN complaint[c].status = "OPEN" ELSE u \in Admin
    /\ Begin(r, "delete", [op |-> "delete", complaint |-> c])
    /\ UNCHANGED <<complaint, lateRun, announced, notice, due>>

DeleteCommit(r) ==
    LET q == request[r] IN
    /\ q.op = "delete" /\ Exists(q.complaint)
    /\ complaint' = [complaint EXCEPT ![q.complaint] = Gone]
    /\ End(r)
    /\ UNCHANGED <<lateRun, announced, notice, due>>

\* An exception or a restart between two awaits.
Fail(r) ==
    /\ request[r] # Idle
    /\ End(r)
    /\ UNCHANGED <<complaint, lateRun, announced, notice, due>>

----------------------------------------------------------------------------
(* markLateComplaints.                                                     *)

\* Fault: only complaints nobody has looked at become late.
Neglected_OpenOnly == {c \in Complaint :
    Exists(c) /\ complaint[c].status = "OPEN" /\ complaint[c].old}

Neglected == {c \in Complaint :
    Exists(c) /\ complaint[c].status \in {"OPEN", "IN_REVIEW"} /\ complaint[c].old}

Older(row) == [row EXCEPT !.age = IF @ < 2 THEN @ + 1 ELSE 2]

Tick(marked) ==
    /\ lateRun = {}
    /\ complaint' = [c \in Complaint |->
           IF c \in Neglected THEN marked[c]
           ELSE IF Exists(c) THEN Older(complaint[c]) ELSE complaint[c]]
    /\ lateRun' = Neglected
    /\ UNCHANGED <<announced, notice, due, frame>>

\* Fault: the update leaves updatedAt as it was.
MarkLate_KeepsUpdatedAt ==
    Tick([c \in Neglected |-> [Older(complaint[c]) EXCEPT !.status = "LATE"]])

\* The tick of the cron, every five minutes, and its conditional updateMany.
MarkLate == Tick([c \in Neglected |-> [complaint[c] EXCEPT !.status = "LATE", !.age = 0]])

\* Fault: a window of eleven minutes.
InWindow_Eleven(row) == TRUE

\* Six minutes: those of this tick and of the one before.  (A run of the cron is
\* over within a minute.)
InWindow(row) == row.age <= 1

\* Which ones it marked is read back by the time of the update: complaints that
\* the previous run marked are announced again.
AnnounceLate ==
    /\ lateRun # {}
    /\ announced' = [c \in Complaint |->
           IF Exists(c) /\ complaint[c].status = "LATE" /\ complaint[c].old /\ InWindow(complaint[c])
           THEN announced[c] + 1 ELSE announced[c]]
    /\ lateRun' = {}
    /\ UNCHANGED <<complaint, notice, due, frame>>

\* (load.fails is a bound: the behaviours in which the second query may throw.)
LateRunFails ==
    /\ load.fails /\ lateRun # {}
    /\ lateRun' = {}
    /\ UNCHANGED <<complaint, announced, notice, due, frame>>

\* Two hours pass.
Age(c) ==
    /\ Exists(c) /\ ~complaint[c].old
    /\ complaint' = [complaint EXCEPT ![c].old = TRUE]
    /\ UNCHANGED <<lateRun, announced, notice, due, frame>>

----------------------------------------------------------------------------

HandlerStep(r) ==
    \/ \E c \in Complaint, u \in User :
         \/ \E targets \in SUBSET User : FileCommit(r, c, u, targets)
         \/ \E status \in Status : UpdateRead(r, c, u, status)
         \/ DeleteRead(r, c, u)
    \/ FileNotify(r) \/ FileNotifyAdmins(r)
    \/ UpdateCommit(r) \/ UpdateNotify(r) \/ DeleteCommit(r)
    \/ Fail(r)

LateCron == MarkLate \/ AnnounceLate \/ LateRunFails

Notify(step) == step /\ UNCHANGED <<complaint, lateRun, announced, frame>>

Next ==
    \/ \E r \in Request : HandlerStep(r)
    \/ LateCron
    \/ \E c \in Complaint : Age(c)
    \/ Notify(NotificationStep)
    \/ (Inbox \/ WarnFails) /\ UNCHANGED <<complaint, lateRun, announced>>

\* The schedulers start their runs, the worker keeps working, and what was
\* awaited returns.  No client has to call, no handler has to return, nobody has
\* to read.
Fairness ==
    /\ WF_vars(MarkLate) /\ WF_vars(AnnounceLate \/ LateRunFails)
    /\ WF_vars(Notify(Work /\ UNCHANGED due))
    /\ WF_vars(Notify(WarnRead /\ UNCHANGED notice))
    /\ WF_vars(Notify(\E d \in due : WarnDispatch(d)))

Spec == Init /\ [][Next]_vars
FairSpec == Spec /\ Fairness

----------------------------------------------------------------------------

\* Type correctness.
TypeOK ==
    /\ NotificationsTypeOK
    /\ complaint \in [Complaint -> ComplaintRow \cup NoRow]
    /\ lateRun \in SUBSET Complaint
    /\ announced \in [Complaint -> Nat]
    /\ request \in [Request -> InFlight]
    /\ calls \in Nat /\ load \in Load

StageOf(row) == IF row = Nil THEN "none" ELSE IF row = Gone THEN "deleted" ELSE row.status

Lifecycle == INSTANCE ComplaintLifecycle WITH stage <- [c \in Complaint |-> StageOf(complaint[c])]

\* The detailed model implements the table: with one status change at a time,
\* however the cron, deletions and failures come between its check and its
\* write, a complaint only goes from stage to stage as the table says.
FollowsLifecycle == Lifecycle!Spec

\* When no run of the cron fails, every complaint that is late was announced, or
\* will be by the run that has just marked it: the window of six minutes does
\* not lose any, whatever status changes come between the two queries.
LateIsAnnounced ==
    ~load.fails => \A c \in Complaint :
        Exists(c) /\ complaint[c].status = "LATE" => announced[c] > 0 \/ c \in lateRun

\* The window is wider than the time between two runs, so that a complaint may
\* be announced, and mailed about, by the run after as well: but never by a third
\* one, however many complaints later runs find and whoever takes them back into review.
AnnouncedTwiceAtMost == \A c \in Complaint : announced[c] <= 2

Unfinished(c) == Exists(c) /\ complaint[c].status \in {"OPEN", "IN_REVIEW"} /\ complaint[c].old

\* A complaint does not stay open or in review for ever: the cron makes it late,
\* unless it is closed or deleted first.
OldComplaintsAreNoticed == \A c \in Complaint : Unfinished(c) ~> ~Unfinished(c)
=============================================================================
