# A verification project for the TeamOS backend

TLA+ models of the stateful parts of this NestJS/Prisma backend, TLC runs that check them on
small instances, and TLAPS proofs that hold for every instance. `PROJECT.json` lists the
components, runs, mutants, findings, hazards and theorems, and maps every definition that models
code to the lines it models.

Two facts about the program decide how everything is modelled:

* **Node runs one callback at a time.** What a handler does between two `await`s happens at once;
  whatever it read before an `await` may be stale after it. A handler is therefore a chain of
  actions: a *Read* action takes the checks and remembers in `request[r]` what the code keeps in
  local variables, a *Commit* action writes. `request` is a function from a small set of slots, so
  the number of slots is the number of handlers that may overlap.
* **PostgreSQL statements and `$transaction`s commit at once.** A transaction is one step, and the
  unique and foreign keys of `prisma/schema.prisma` are guards of the Commit: when a key rejects a
  write the request can only fail (`Fail`), and a failing request writes nothing. The one place where
  it matters that a transaction at READ COMMITTED first reads and then writes, the sum of a target's
  entries, is two steps (`EntrySum`, `EntryCommit`).

## Inventory

| Component | State | Operations | Interacts with | What is hard | What makes it correct |
|---|---|---|---|---|---|
| Review (`modules/review`) | templates, cycles, reviews, nominations, calibration sessions, two columns of `Performance` | template and cycle CRUD, activate / calibrate / complete, submit, nominate, approve / reject / bulk approve, create / adjust / finalize sessions, overdue cron | notifications, gateway, performance rows | check, await, unconditional write everywhere; one transaction for activation, one per approval, one per finalization | a cycle is launched once, goes forward only, keeps its questions; reviews are exactly those assigned or approved; published scores come from finalized calibrations |
| Tasks (`modules/task`) | task rows with status, assignee, prerequisite, deadline, completion stamp; subtasks, comments, attachments | create, update, updateStatus, remove, subtask / comment / attachment CRUD | emits events to Performance; overdue cron writes the same rows | the prerequisite chain is walked one query at a time; status computed from a stale row | no dependency cycle, prerequisites first, stamp agrees with status |
| Performance (`modules/performance`) | one record per user, snapshots, insights, BullMQ queue `performance` | listeners for four task events, worker, recalculateAll, snapshots, insights | reads tasks, queue in Redis | events and jobs may be lost, jobs have no retries, worker runs beside the handlers; floating-point thresholds | records converge to the tasks; nobody without overdue work is rated Needs Improvement |
| Performance crons (`scheduler/performance.task.ts`) | none | overdue tasks, snapshots, insights, overdue reviews, reminders | tasks, reviews, queue | select, then write by id | see tasks and reviews |
| Targets (`modules/target`) | targets in a tree of at most three levels, entries, rolled-up values | create, update, remove, add / delete entry, lists, strategy map | crons change their status | the check of the parent is stale when the row is written; sums inside transactions that do not see each other; moves and deletions do not roll up | the tree has three levels and no cycle; the value of a target is the sum of its entries, that of a parent the progress of its children; lapsed targets close |
| Target and deadline crons (`scheduler/notification.task.ts`) | none | deadline warnings, missed targets, targets at risk | targets, tasks, notifications | select, then write by id; once-a-day rule by looking for an earlier notice | every task that is due is warned of, every lapsed target marked |
| Complaints (`modules/complaint`) | complaints with a status table | create, update status, delete, late cron | notifications, mail | check, await, unconditional write against the cron's conditional one; what became late is read back by time | only transitions of the table; every lateness announced, and by two runs at most |
| Notifications (`modules/notification`) | rows, queue `notification`, three attempts | dispatch, process, mark read, delete, preferences | gateway, mail | row written before steps that may throw, so retries duplicate; the processor is registered nowhere | a delivered notice is in the inbox, a bounded number of times |
| Gateway (`gateway/task.gateway.ts`) | sockets and rooms; `connectedUsers` and `orgSyncInProgress` of each instance | connect, disconnect, switch organization, heartbeat | session and member tables | awaits between check and join; heartbeats beside switches; three instances at every socket; a heartbeat that throws ends the process | `connectedUsers`, rooms and `client.data` stay together; a socket follows its session |
| Users, departments (`modules/user`, `modules/department`) | members, profiles with supervisor and department, departments with a head | profile update, reassign team, department CRUD | read by every list and check of visibility | deletion against assignment; a chain of checks before one write | roles and teams mean the same in every list and detail; names are unique |
| Subtasks, comments, attachments (`modules/task`, `modules/upload`) | rows, files at the storage service | add, edit, reorder, remove; upload, delete; removal of the task | gateway | a file and its row are two writes in two systems; a file is known by the name its client gave it | an attachment has its file; a reply has its comment |
| Visibility (all services) | none | filters of the lists, checks of the details, scope of the analytics, whom one may recognize | roles, teams, departments | each rule is written twice, over rows that change | what a list shows, the detail opens |
| Audit log, LLM, mail, request pipeline | little or none | inserts, calls to services | | | not modelled, see below |

## What is modelled

### Review: `ReviewLifecycle`, `ReviewStore`, `ReviewCycles`, `ReviewPeers`, `ReviewCalibration`, `Review`

`ReviewStore` has the tables as functions: `template` (a version number for the contents), `cycle`,
`review` and `nomination` by cycle and pair of users (which is their unique key), `session`,
`performance` (`reviewScore`, `lastReviewCycleId`), and `notice`, the users a `REVIEW_ASSIGNED` job
was queued for. The three handler modules have one action for each stretch of a handler between
awaits, named after the handler: `ActivateRead` (status check), `ActivateLoad` (template, members
and profiles), `ActivateCommit` (the transaction), `ActivateNotify` (what follows it). `Review` composes
them and states the properties; `ReviewInvariant` has the inductive strengthening.

`ReviewLifecycle` is the abstract specification: the stage of each cycle, the questions it asks, which of its
reviews are open or answered, and the cycle and score that each user's record shows, with one move for each thing
that can happen to a cycle. It knows no handlers, awaits, templates, nominations, sessions or deadlines. `Review` maps
its rows to these four (`Lifecycle == INSTANCE ReviewLifecycle WITH ...`: a status to its stage, a review PENDING or OVERDUE to
"open", a record to the pair of its cycle and score), and `FollowsLifecycle` is the refinement, for handlers called one at a time.

Merged on purpose: the three queries of `activateCycle` before its transaction (`ActivateLoad`), the
two of `createNominations` (`NominateCount`), the queries of `createCalibrationSession`, and the check
of the note with that of the score in `finalizeSession`. A department is any set of users. Left out:
titles, dates, roles, response texts (a submission carries only its overall score), audit log,
gateway events, the AI draft.

The properties come in two groups. The first holds **however requests overlap** (two slots in the
runs, any number in the proofs). The second is the **contract of the handlers called one at a time**
(one slot): there, requests that overlap do break each property, because a check before an await is
not repeated by the write. Two violation runs show what overlapping or plain calls do against the
change log.

### Tasks and performance: `TaskStore`, `Tasks`, `Performance`, `TaskPerformance`

`task` has the rows; `record` the counts and the rating of each user's `Performance` row; `queue` the
waiting BullMQ jobs, `worker` the job in progress. A handler that has written and is about to emit its
event is at position `publish`: `Enqueue` is the listener adding the job, and `Fail` there is a crash or a
Redis error that loses it. `lost` is a history variable: the users whose last recalculation was
dropped. The score is kept as an integer multiple of the number of tasks (`Points`); where it lies exactly
on a threshold, the floating-point sum of the code may fall on either side, so `Ratings` is a set.

Left out: roles, subtask rows (only their effect on the task; the rows are in `TaskItems`), snapshots,
insights, the gateway.

### The frame of the newer modules: `Requests`

`Requests` has the slots of handlers in flight, and a `load`, chosen once in `Init` from the constant
`Load`: which operations clients call in which slot (`ops`), how many calls there are in all, the rows
the behaviour starts with, and switches for faults. One run thus covers several scenarios, each with
its own bounds. `OneAtATime` says of a load that only one slot is in use: the contract of handlers
called one at a time is stated under it, everything else holds however requests overlap.

### Targets: `TargetStore`, `Targets`

`target` has the rows (type, parent, goal = `targetValue`, value = `currentValue`, status, and how far
away the deadline is), `entry` the progress entries, `cron` what each of the two crons that write
targets has selected. `validateAlignment` is `ValidAlignment`, taken in the Read of `create` and
`update`; the Commit finds other rows, and only the foreign key is checked again. `remove` counts the
children and deletes; `ON DELETE SET NULL` and `CASCADE` are part of `RemoveCommit`. `addEntry` and
`deleteEntry` check the target (`AddEntryRead`), then compute sum and roll-up from what is committed (`EntrySum`,
with the parent that was read before the transaction) and write it (`EntryCommit`). Values are whole
hundredths, as the code rounds them; progress is added as integers over `Scale`, a common multiple of
the goals, and a tie in rounding may fall either way (`RolledUpValues` is a set). Left out: roles and departments
(an admin calls; who sees a target is in `Visibility`), attachments of entries, what the crons dispatch.

### Complaints and notices: `ComplaintLifecycle`, `Complaints`, `Notifications`

`ComplaintLifecycle` is the abstract specification: the stage of each complaint and the moves that
`VALID_TRANSITIONS` and the cron promise together, without handlers or awaits. `Complaints` has the rows,
the handlers cut at their awaits, and the cron as its two statements: `MarkLate`, one conditional
`updateMany`, and `AnnounceLate`, which reads back by `updatedAt` what to announce. `age` counts the ticks of the cron since a row
was updated: it starts every five minutes, its run is taken to be over within a minute, and its window of six minutes therefore holds
what was updated since the tick before (`InWindow`). `announced` is a history variable: how many runs have announced the present lateness. The refinement maps each row to its stage
(`Lifecycle == INSTANCE ComplaintLifecycle WITH stage <- ...`) and `FollowsLifecycle` is its specification. It is stated for loads in which no two
slots change a status (`ComplaintAssumption`): two overlapping updates do leave the table, which is
a finding.

`Notifications`, which `Complaints` extends, has every notice dispatched so far with its job (attempts,
stalls) and the inbox rows the job has written, the users who read and delete them, and the deadline
cron. `load.worker` says whether anybody takes the jobs; as the program is built nobody does, and both cases
are checked. A job that throws is retried up to three attempts; one whose process dies is put back
once (BullMQ's default).

### Directory, gateway, visibility, task items: `Directory`, `Gateway`, `Visibility`, `TaskItems`, `Workspace`

These share one table of members. `Directory` has members (roles per organization, better-auth's and
external), profiles and departments of the organization `Home`; `updateProfile`, `reassignTeam` and department
CRUD are chains with one action per query. `Gateway` has sockets with their `client.data` and rooms, and sessions. `NotificationModule`, `PerformanceModule` and
`GatewayModule` each provide a `TaskGateway`, so that there are three instances on one server: `connectedUsers` (`listed`),
`orgSyncInProgress` (`sync`), the `handleConnection`s under way (`connecting`) and the running heartbeat (`beat`) are therefore
functions of `Instance`, and every instance handles every connection, hang-up and `org:switch`. `handleConnection`, `syncSocketOrg` and the heartbeat are cut
at their awaits. A client may hang up at any moment; what is in flight for its socket goes on, as in the code: a
connection that is still being checked joins its rooms and is listed, a sync that has begun ends. A query that throws
(`load.throws`) is caught in `handleConnection` and `handleOrgSwitch`, which close the socket, and not caught in a heartbeat:
`Crash` is the unhandled rejection, and `Restart` (in `Workspace`) the process that starts again without sockets and handlers.
`Visibility` has, for each list and each detail, the rule as the code writes it there, as operators over the
directory. `TaskItems` has subtasks with their order, comments with their replies, attachments with
their files, and the removal of a task with its cascade. A file is stored under its task and the name the client gave it
(`File`), so that two attachments may stand for one file; `FileOf` fixes beforehand which file each attachment id will be used for. `abandoned` is a
history variable: the attachments whose removal broke off after their file was deleted. `Workspace` composes the four: the next step is one of the directory, the gateway, or the
items, and `Fail` ends any handler between two awaits.

Merged on purpose: `handleConnection`'s session lookup with the checks that follow it; the walk of
`validateAlignment`; read and write of the inbox handlers, whose only race is with a deletion.

## Runs

| Run | Instance | Shows |
|---|---|---|
| `review_launch` | 2 users, 1 cycle, 1 template, 2 overlapping requests | an activation that goes through found a draft, drafts own nothing, approval and review together, no notice without assignment, submissions stay |
| `review_calibration` | the same with 1 session and 1 score | scores and sessions belong to cycles that reached calibration |
| `review_serial` | 1 request at a time, the whole life of a cycle | the handlers implement `ReviewLifecycle`; questions frozen at launch, published scores stand, submissions close |
| `review_peers` | 3 users, 1 request at a time | exactly the reviews that the roster and the approvals call for; the nomination limit |
| `review_unapprovable` (violation) | 2 users | a nominated supervisor can never be approved |
| `review_duplicate` (violation) | 2 overlapping requests | a submitted review is overwritten |
| `task_serial` | 2 users, 2 tasks, 1 request, 4 calls | no dependency cycle, prerequisites first, stamps, records of both sides of a reassignment |
| `task_records` | 2 users, 2 tasks, 2 overlapping requests, 3 calls | records converge, or their job was lost; ratings |
| `task_subtask` (violation) | 2 tasks, 4 calls | a subtask starts a task whose prerequisite is unfinished |
| `targets` | 4 targets, 2 entries; one handler at a time (3 or 4 calls, from three trees), two at a time (2 or 3 calls), crons beside both | the tree has no cycle and three levels in every interleaving; one at a time, values are sums and roll-ups reach the top, deletions orphan nobody; lapsed targets close |
| `complaints` | 2 users, 2 complaints or 2 tasks, 2 slots, up to 3 calls; with and without failing runs, a worker, a user who deletes notices | handlers, deletions and cron implement the lifecycle; every lateness announced, once or twice; notices stored and settled; with a worker, whom a task is due for has a warning in the inbox |
| `workspace` | 3 users, 2 organizations, 2 departments, 1 or 2 sockets in 2 instances of the gateway, 1 task with 3 subtasks, 3 comments, 3 attachments of 2 names; 2 slots, up to 3 calls in twelve loads | lists and details agree; sockets accounted for and catching up; attachments keep their files |

**Bounds.** One cycle is enough for the review properties, each of which is about one cycle; two users
have every kind of review (self, manager, upward, peer), three are needed for a nomination
that is neither. Two requests are enough for every race of a check against a write, and the proofs
remove the bound. `MaxVersion`, `Rating` and `CalibratedScore` number contents that nothing compares
but by equality. `Op` restricts which handlers clients call in a run, so that two overlapping requests
stay within reach. The code's limit of three nominations is `MaxNominations`, 1 in the runs (with three users, the smallest limit that can be exceeded). `MaxCalls`
bounds the calls and cron runs of a task behaviour: four make two tasks and link them both ways, or
link them and complete one; three make two tasks and one overlapping change of both. A dependency
cycle of three tasks is beyond these bounds; `NoDependencyCycle`, which says that every set of tasks has one that
waits for none of the set, is proved for any number.

The newer runs choose among several loads. *Targets*: a company, a team and an individual are the three levels; the
fourth target is free, a second individual (with goal 0, which the roll-up skips) or a second team, so that
there is an average to take and somewhere to move to. Two entries are enough to add, delete and
overlap. Goals are 0, 1 and 2 units and amounts half a unit and one (in hundredths), so that averages
need rounding; `Value` bounds what comes out. *Complaints*: two complaints are what an announcement by time
can confuse; `MaxNotices` is the number of notices whose settling is checked, `load.warnings` the warnings of one task; with a worker
one of the loads has two tasks due at once and one failing run between them, the other a user who deletes the warning. An age of two ticks
is outside of the window for ever, so `age` stops there. *Workspace*: two instances of the gateway are enough for their syncs, heartbeats and connections to
meet at one socket, and the theorem has any number; two tabs of one user make it matter which socket leaves `connectedUsers`. Clients may hang up in
every load with a socket; `throws` (queries that throw, and so the crash) has a load of its own. Three attachments of two names are two that share
a file and one that does not; two orders of two ids and one that repeats an id are enough for `reorder`. Any handler may fail between two
awaits. Ids are never used twice.

**Symmetry** is used for request slots (`review_launch`, `review_calibration`) and for users and tasks
(`task_serial`), never where liveness is checked.

**Deadlock checking is off**: a server may stop when clients stop calling, ids run out or `MaxCalls` is reached.

**Fairness.** No client has to call, and no handler of the newer modules has to return. What the program starts
itself goes on:

* `TaskPerformance`: Node resumes every handler in flight, which then goes on or fails (weak fairness of
  `Continue(r) \/ Fail(r)`), and BullMQ keeps its worker going (weak fairness of `WorkerStep`). Nothing forces a
  failure or forbids it; that is why `EveryChangeIsCounted` excuses users in `lost`.
* `Targets`: the scheduler starts the detection of missed targets every ten minutes (weak fairness of its
  `CronRead`), and it does not throw at the same place for ever (strong fairness of its `CronWrite`). The cron for
  targets at risk has none.
* `Complaints`: the crons start (weak fairness of `MarkLate`, `WarnRead`), a run of the late cron ends one way
  or the other (`AnnounceLate \/ LateRunFails`), and a run of the deadline cron goes on with its dispatches (weak fairness of
  `\E d \in due : WarnDispatch(d)`, in whatever order). A run of the deadline cron that fails (`WarnFails`) counts as a call, so there are
  finitely many of them. The worker, when there is one, keeps working: no module of the program registers
  it (a finding), so what `NoticesSettle` and `DueTasksAreWarned` promise is under `load.worker`, and says what the code would do once it is.
* `Workspace`: the interval of the heartbeat passes and its queries return (weak fairness, for each instance, of `BeatRead`,
  `BeatNext`, and of the end of a sync). Nothing forces a crash; one closes every socket.

## What is proved

Every theorem holds for all values of the constants that satisfy the assumptions, in particular for any
number of slots, users and rows. The assumptions say that null is no id, that a marker of an absent row is no row,
that the supervisor map is one, that seeds are rows, and, where something is counted, that the set is finite;
`StoreAssumption`, `NilAssumption` (Review), `TaskAssumption`, `LoadAssumption`, `TargetAssumption`, `SeedAssumption`,
`ComplaintAssumption`, `DirectoryAssumption`, `GatewayAssumption`, `ItemAssumption` are evaluated by TLC in the runs. The third
column has what a theorem assumes beyond them.

| Theorem | Property | Under |
|---|---|---|
| `ReviewProofs!TypeCorrect` | `TypeOK` of Review | |
| `ReviewSafetyProofs!DraftsOwnNothing`, `ApprovedNominationsHaveReviews`, `NoticesMeanAssignments`, `SubmittedReviewsStay` | the properties of `review_launch` | |
| `ReviewSafetyProofs!NoReactivation`, `ScoresAreCalibrated` | `NeverReactivated`, `ScoresComeFromCalibration` | a user whom no exclusion list names |
| `ReviewSerialProofs!SnapshotsAreTemplates`, `ReviewsFollowTheRoster`, `ScoresArePublished`, `SubmissionsClose` | the contract of the handlers, `review_serial` and `review_peers` | one request at a time |
| `ReviewSerialProofs!ReviewsFollowLifecycle` | the refinement `FollowsLifecycle` of Review | one request at a time |
| `ReviewSerialProofs!NominationsAreLimited` | `NominationLimit` | one request at a time, finitely many users |
| `TaskSafetyProofs!TasksTypeCorrect`, `OnlyOverdueNeedsImprovement` | `TypeOK`, `NeedsImprovementMeansOverdue` | |
| `TaskSafetyProofs!StampsAgree`, `PrerequisitesAreFirst`, `PrerequisitesNeverClose` | `StampMeansDone`, `PrerequisitesComeFirst`, `NoDependencyCycle` | one request at a time |
| `TaskRecordProofs!RecordsFollowTasks` | `RecordsCatchUp` | one request at a time, or any number while no `update` changes an assignee and `addSubTask` is not called |
| `TargetProofs!TypeCorrect`, `ParentsAlwaysRankHigher` | `TypeOK`, `ParentsRankHigher` | |
| `TargetProofs!DeletionsOrphanNobody` | `DeletionOrphansNobody`, stated for loads with one handler at a time | |
| `TargetProofs!ValuesAreSums`, `RollUpsReachTheTop` | `ValueIsSum`, `RollUpReachesTheTop`, stated for the same loads | |
| `ComplaintProofs!ComplaintsFollowLifecycle` | the refinement `FollowsLifecycle` | no two slots update a status (`ComplaintAssumption`) |
| `ComplaintProofs!ComplaintsTypeCorrect`, `EveryLatenessIsAnnounced`, `NoLatenessIsAnnouncedThrice`, `InboxIsAccountedFor` | `TypeOK`, `LateIsAnnounced`, `AnnouncedTwiceAtMost`, `RowsAreAccountedFor` | the same |
| `WorkspaceProofs!WorkspaceTypeCorrect` | `TypeOK` | |
| `WorkspaceProofs!SocketsStayAccounted`, `FilesAlwaysStay` | `SocketsAreAccountedFor`, `FilesStay` | |

`ReviewSafetyProofs` also states the inductive invariants themselves (`LaunchInvariant`, `ReviewInvariantHolds`).

**Reviews, overlapping requests.** The properties are not inductive: `ActivateNotify` writes `notice` on
the strength of a transaction that committed earlier, `NominateCommit` inserts a row for a cycle
whose status it read two awaits before. `LaunchInv` adds what each request in flight still knows: "started"
(launched or deleted) is stable, so a request that saw ACTIVE may rely on it; `activated` requests know that
the reviews are there as long as the cycle exists; and a draft owns nothing because nothing that
writes rows starts from one. `StageInv(a)` adds what needs the unique key: a user `a` no list excludes
has a SELF review in every launched cycle, which makes the transaction of a second activation fail, so
that whoever does get through finds a draft (`ActivatesDrafts`), status never returns to ACTIVE, and "calibrated" is stable too. `NeverReactivated` says both:
no cycle comes back to ACTIVE, and no transaction of an activation goes through on a cycle that is not a draft. Without such a user it is false:
two activations with disjoint rosters both succeed.

**Reviews, one request at a time.** `SerialInv` is `LaunchInv`, the contract, and that every check of the request
in flight still stands when it writes (`CycleStillChecked`, `RowsStillChecked`). A check holds when it is made
(`JustChecked`), and nobody else writes before it is used; that is where the hypothesis is needed. What was
loaded before the transaction (template, roster) is therefore what the transaction stores. The template
cannot change afterwards because the handlers refuse to touch a template in use by a cycle that is not a draft. For the nominations,
`NominationInv` keeps the sum that `createNominations` has counted.

**Reviews, the refinement.** A move of `ReviewLifecycle` has guards that no Commit repeats: a cycle is launched from
draft, a review answered while the cycle is active, a score published from its calibration. `SerialInv` supplies the first
two, since what the Read checked still stands, and that a draft has no questions and no reviews yet. `finalizeSession` and the
approvals look at the session and the nomination but not at the cycle; `RowsMatchStage` says in which stages these exist at
all. There is one lemma per handler (its step is the move, or leaves the four mapped values alone), and `LifecycleStep` joins them.

**Tasks and ratings.** `RecordsAreRated`: every recorded rating is one the recorded counts
can get. With no task overdue the score is 50 plus non-negative terms, and exactly 50 only when they
are all zero, where floating point is exact (`RatedByOverdue`). `SerialInv` (in `TaskSafetyProofs`) adds to the types
and the stamps that what a request checked still stands, as for reviews.

**Dependencies.** `update` walks the chain of prerequisites upward from the new one, a query per hop, and writes only if the
walk ends without meeting the task. `ChainInv` says of a walk that the prerequisites of all it has visited are visited, or are
the one it looks at next; when it ends, the whole chain of the new prerequisite lies in a closed set without the
task (`ChainAvoids`). If the write made some tasks all wait for one another, those of them in that set would have waited for one another before.
Chains are thus never counted or built, and their length does not matter.

**Records.** `RecordInv`: for each user, either the record counts the tasks as they are (`Current`) or somebody still
owes the recalculation (`Awaited`: a request at its publish step, a queued job, the worker before its reading, or the history
variable `lost`). Each write to a task makes the requests that made it owe the users it affects (`Meant`). The assignee that
`update` announces was read before several awaits, and an overlapping `update` may have changed it; `addSubTask` announces
nothing, and starts only what was NOT_STARTED when it looked. Hence the hypothesis: what a request read
names everybody its write is about when nobody else writes (`Alone`), or when no write changes an assignee (`NobodyMovesTasks`).

**Targets.** Alignment is checked awaits before it is written, and other handlers may have changed the parent in between. `IInv`
is `TypeOK /\ ParentsRankHigher /\ ChecksStand`: a cleared parent stays of a higher type, since the type of a target is
never written after its creation, deletion only makes the write fail at the foreign key, and ids are not
used again (`TypesStand`). Three types then leave room for three levels and none for a circle. `RemovalsStand` does the same for the
count of children that a removal has taken, with one handler at a time.

The sum of entries is the library's sum over a set, which is a recursive function. The provers need only that equal
arguments give equal sums, and that no entries give 0. `SumsInv` says that each individual target is worth the sum of its entries,
and of the request in flight that what its transaction has computed is right once it commits (`Counted`): the sum over the entries
with the new one or without the deleted one, and the averages over the children as they will then be. The crons, which run beside it, write
no value. `RollUpReachesTheTop` is an action property of that commit.

**Complaints.** `UpdatesStand` says that the transition a request is about to write is still one of the table. Only the cron
can have moved the complaint since the check, and the table allows from LATE all it allows from OPEN and IN_REVIEW, which makes the
stale check harmless. `MarkedAreFresh` says that what a run of the cron has marked is still found by
its second query. With them each step is a move of `ComplaintLifecycle` or a stutter. `AnnouncementsCount` bounds the announcements
of a lateness by the age of its row: none before the run that marks it reads it back, one in that run, one more in the next tick, and then the
row is out of the window. `NoticeInv` joins the types of the notices and the count of rows per job
(`NoticesStand`: a row for each start that passed the insert).

**Workspace.** `TypeOK` needs `WorkInv`: the foreign keys of the items (`ItemsOK`), and that a reply in flight answers a comment
of its task or one that is gone (`Replies`). The place of a new subtask is the largest one plus one, so that a finite set of numbers must be shown
to have a largest (by way of a smallest set that has none, `WFMin`); what goes with a comment is its thread, the least set closed under replies.

`SocketInv` follows each socket: before it connects nothing knows it (`Untouched`); every instance takes its user from the
same session, whose user never changes (`Owned`); and what the property says of it (`AccountedFor`). Steps of different instances meet
only in `client.data` and the rooms, and each of them writes both in one step; that is why it holds for any number
of instances although a socket may end up in two rooms. `SoundStep` joins the invariant with `ClosingDelists`, the step half of the
property. What does *not* hold, and is not claimed: that a socket is in no other room, and that a socket which has hung up is listed nowhere
(`handleConnection` may list it afterwards). Both are findings.

`FileInv` says of every attachment that is shown, and of every request that has uploaded and is about to write its row, that its file is `Held`: it is
stored, or an attachment of the same name is `Struck` (being removed, removed, or abandoned by a removal that broke off).
`Emptying` says that what the removal of a task deletes is still that task's, or gone.

**Only model-checked.** The six liveness properties (`EveryChangeIsCounted`, `LapsedTargetsClose`, `OldComplaintsAreNoticed`,
`NoticesSettle`, `DueTasksAreWarned`, `SocketsCatchUp`) rest on fairness, and so on ENABLED, which the proof system does not support. Of the
invariants and action properties of the passing runs, all are theorems but `ListsAndDetailsAgree`: it relates two pure rules over one
state, so that nothing is to be gained from induction, and TLC evaluates it over every combination of roles, teams and departments that the
directory loads of `workspace` reach. Induction over finite sets is within reach by way of a
smallest counterexample; what a recursive definition computes for every input is not, and no theorem depends on it.

## Findings

46, in `PROJECT.json`, each with its line. Three are shown by violation runs: a nominated supervisor can never be approved
(`review_unapprovable`), two overlapping submissions overwrite each other (`review_duplicate`), and a subtask starts a task whose
prerequisite is unfinished (`task_subtask`). The others were met while translating the code and are of a few kinds:

* *a check that is not repeated by the write*: overlapping handlers reopen completed tasks, move a cycle back, leave the
  transition table of complaints, reject what is approved, delete or edit a cycle that was just launched, lose an adjusted score, add entries to closed targets; crons write OVERDUE, MISSED and AT_RISK over a completion;
  staff assigned during the removal of a department loses it;
* *sums computed from what is committed*: overlapping entries lose each other, the roll-up goes to a parent that is no longer one
  and may divide by zero, removals and moves do not roll up;
* *work nobody does*: the notification processor is registered nowhere, deadline reminders only log, and the once-a-day rule
  of the deadline warnings therefore warns at every run;
* *the gateway*: three instances with a state of their own, events to the whole organization, rooms of two organizations after a switch
  that overlaps a connection or the switch of another instance, sockets listed after they hung up, a failed heartbeat that ends the process;
* *lists against details*: callers without profile or department, supervisors and complaints, the leaderboard's ten;
* *smaller ones*: a rating lost to floating point, a prerequisite checked but not stored at creation, who filed a complaint is
  not told of its progress, files that are never deleted or are overwritten by name.

Where such an overlap breaks a property, the property is stated for the loads in which it holds, and the run's bounds or the module's comment say so.
A property stated for handlers called one at a time says nothing of overlaps: a hazard that is an overlap the code does not survive names no
property in `PROJECT.json` and points to its finding.

## Not modelled

* **Snapshots, insights, analytics aggregates, strategy map, leaderboard**: they copy or read rows for charts; no decision of a
  handler depends on them. Whom they show is in `Visibility`.
* **Audit log**: one insert whose errors are swallowed. **Mail, LLM, pictures**: calls to services whose answer is shown, not used.
* **Recognition**: one insert and one delete after checks (whom one may recognize is in `Visibility`). **Branding, onboarding, e-mail
  preferences**: a column that no modelled handler reads.
* **Sessions, sign-up, membership**: better-auth, a library; members and sessions are external actions of `Directory` and `Gateway`.
* **Request pipeline**: guards, pipes and filters keep no state; what the DTOs admit is in the inputs of the actions, roles are in
  `Visibility` and in the Reads that ask for them.
* **Texts**: titles, comments, feedback and notes; `updateComment` writes only these.

## What is left

Transactions below the level of one step for the activation and the finalization, as `EntrySum` and `EntryCommit` are for
entries; an abstract specification of records that follow tasks, as there is for complaints and reviews; a run in which
a dependency cycle of more than two tasks could close.
