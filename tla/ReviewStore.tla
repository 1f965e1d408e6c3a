---------------------------- MODULE ReviewStore ----------------------------
(***************************************************************************)
(* The rows the review module keeps (src/prisma/schema.prisma, models      *)
(* ReviewTemplate .. CalibrationSession and the two review columns of      *)
(* Performance) and the requests that are between two of their awaits.     *)
(*                                                                         *)
(* Node runs one callback at a time, so what ReviewService does between    *)
(* two awaits is one step; what it read before an await may be stale after *)
(* it.  A handler is therefore a chain of actions: a Read action checks    *)
(* what the handler checks and keeps what it keeps in request[r], a Commit *)
(* action writes.  A Prisma $transaction is one step, and the unique and   *)
(* foreign keys of the schema are guards of the Commit: when a key rejects *)
(* the write the request can only Fail, which changes nothing.             *)
(***************************************************************************)
EXTENDS Integers, FiniteSets

CONSTANTS
    User,            \* members of one organization, each with an active profile
    Cycle, Template, Session,  \* row ids (uuids: never used twice)
    Request,         \* slots for the requests in flight at one time
    Nil,             \* SQL NULL, or no row
    Supervisor,      \* userProfile.supervisorId of each user
    ExclusionLists,  \* the values admins give to excludedUserIds
    Rating,          \* the overall scores a submitted review may carry
    CalibratedScore, \* the scores a calibration session may give
    MaxVersion,      \* bound: template contents are numbered 1..MaxVersion
    MaxNominations,  \* peers one member may nominate per cycle (3 in the code)
    Op               \* bound: the handlers clients call

Pair == User \X User             \* <<reviewee, reviewer>> or <<nominator, nominee>>

ASSUME StoreAssumption ==
    /\ Supervisor \in [User -> User \cup {Nil}]
    /\ ExclusionLists \subseteq SUBSET User
    /\ MaxVersion \in Nat \ {0}
    /\ MaxNominations \in Nat

VARIABLES
    template,     \* contents version of each template; 0 before it exists, -1 after deletion
    cycle,        \* the ReviewCycle rows
    review,       \* PerformanceReview rows, by cycle and <<reviewee, reviewer>>
    nomination,   \* PeerNomination status, by cycle and <<nominator, nominee>>
    session,      \* CalibrationSession rows
    performance,  \* Performance.reviewScore and lastReviewCycleId of each user
    notice,       \* users a REVIEW_ASSIGNED job was queued for, by cycle
    request       \* what each request in flight has read so far

rows == <<template, cycle, review, nomination, session, performance, notice>>
vars == <<template, cycle, review, nomination, session, performance, notice, request>>

----------------------------------------------------------------------------
(* Row types. *)

Launched == {"ACTIVE", "CALIBRATING", "COMPLETED"}
CycleStatus == {"UNBORN", "DRAFT", "DELETED"} \cup Launched

Contents == Template \X Int      \* what a template shows: its id and version

CycleRow == [status: CycleStatus, template: Template \cup {Nil},
             excluded: SUBSET User, snapshot: Contents \cup {Nil}]

ReviewRow == [type: {"ASSIGNED", "PEER"}, status: {"PENDING", "OVERDUE", "SUBMITTED"},
              score: Rating \cup {Nil}]

NominationStatus == {"PENDING", "APPROVED", "REJECTED"}

\* adjustedScores: the calibratedScore of each user in the session, null until adjusted.
Scores == UNION {[S -> CalibratedScore \cup {Nil}] : S \in SUBSET User}

SessionRow == [status: {"UNBORN", "in_progress", "finalized", "DELETED"},
               cycle: Cycle \cup {Nil}, scores: Scores]

PerformanceRow == [reviewScore: CalibratedScore \cup {Nil}, lastReviewCycle: Cycle \cup {Nil}]

\* null is none of the values it stands beside.
ASSUME NilAssumption ==
    Nil \notin User \cup Cycle \cup Template \cup Rating \cup CalibratedScore
               \cup ReviewRow \cup NominationStatus

----------------------------------------------------------------------------
(* Requests in flight: which handler, where it is, and what it has read.   *)

Idle == [op |-> "idle"]

InFlight ==
    {Idle}
    \cup [op: {"updateTemplate", "removeTemplate"}, template: Template]
    \cup [op: {"createCycle"}, template: Template, excluded: SUBSET User]
    \cup [op: {"updateCycle"}, cycle: Cycle, template: Template \cup {Nil},
          excluded: (SUBSET User) \cup {Nil}]
    \cup [op: {"removeCycle", "calibrate", "complete", "completeChecked"},
          cycle: Cycle]
    \cup [op: {"activate"}, cycle: Cycle, template: Template \cup {Nil}, excluded: SUBSET User]
    \cup [op: {"activateLoaded"}, cycle: Cycle, snapshot: Contents,
          eligible: SUBSET User]
    \cup [op: {"activated"}, cycle: Cycle, eligible: SUBSET User]
    \cup [op: {"submit"}, cycle: Cycle, pair: Pair, score: Rating \cup {Nil}]
    \cup [op: {"nominate", "nominateCounted"}, cycle: Cycle, by: User, nominees: SUBSET User]
    \cup [op: {"approve", "reject"}, cycle: Cycle, pair: Pair]
    \cup [op: {"bulk"}, cycle: Cycle, todo: SUBSET Pair]
    \cup [op: {"bulkApprove"}, cycle: Cycle, todo: SUBSET Pair, pair: Pair]
    \cup [op: {"overdue"}, cycles: SUBSET Cycle]
    \cup [op: {"createSession"}, cycle: Cycle, scope: SUBSET User]
    \cup [op: {"createSessionLoaded"}, cycle: Cycle, members: SUBSET User]
    \cup [op: {"adjust", "finalize"}, session: Session, scores: Scores]

\* Slot r takes a call of handler op, moves on to its next await, or answers.
Begin(r, op, q) == op \in Op /\ request[r] = Idle /\ request' = [request EXCEPT ![r] = q]
Await(r, q) == request' = [request EXCEPT ![r] = q]
End(r) == request' = [request EXCEPT ![r] = Idle]

\* The request dies without writing: a key rejected its write, the database
\* failed, or the server restarted.
Fail(r) == request[r] # Idle /\ End(r) /\ UNCHANGED rows

\* validateCycle finds the row, and a foreign key to it can be satisfied.
CycleExists(c) == cycle[c].status \notin {"UNBORN", "DELETED"}
TemplateExists(t) == t # Nil /\ template[t] > 0

StoreInit ==
    /\ template = [t \in Template |-> 0]
    /\ cycle = [c \in Cycle |-> [status |-> "UNBORN", template |-> Nil,
                                 excluded |-> {}, snapshot |-> Nil]]
    /\ review = [c \in Cycle |-> [p \in Pair |-> Nil]]
    /\ nomination = [c \in Cycle |-> [p \in Pair |-> Nil]]
    /\ session = [s \in Session |-> [status |-> "UNBORN", cycle |-> Nil, scores |-> [u \in {} |-> Nil]]]
    /\ performance = [u \in User |-> [reviewScore |-> Nil, lastReviewCycle |-> Nil]]
    /\ notice = [c \in Cycle |-> {}]
    /\ request = [r \in Request |-> Idle]

RowsOK ==
    /\ template \in [Template -> Int]
    /\ cycle \in [Cycle -> CycleRow]
    /\ review \in [Cycle -> [Pair -> ReviewRow \cup {Nil}]]
    /\ nomination \in [Cycle -> [Pair -> NominationStatus \cup {Nil}]]
    /\ session \in [Session -> SessionRow]
    /\ performance \in [User -> PerformanceRow]
    /\ notice \in [Cycle -> SUBSET User]

\* Every variable holds rows of its table, and every request what its handler reads.
TypeOK == RowsOK /\ request \in [Request -> InFlight]
=============================================================================
