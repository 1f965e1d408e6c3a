-------------------------- MODULE ReviewInvariant ---------------------------
(***************************************************************************)
(* The inductive strengthening of the properties of Review that hold       *)
(* however requests overlap: what a request in flight still knows about    *)
(* its cycle by the time it writes.                                        *)
(***************************************************************************)
EXTENDS Review

\* Once true of a cycle, always true.
Started(c) == cycle[c].status \in Launched \cup {"DELETED"}
Calibrated(c) == cycle[c].status \in {"CALIBRATING", "COMPLETED", "DELETED"}

\* A cycle that was never activated owns no rows.
UnlaunchedOwnsNothing ==
    \A c \in Cycle : ~Started(c) =>
        /\ cycle[c].snapshot = Nil /\ notice[c] = {}
        /\ \A p \in Pair : review[c][p] = Nil /\ nomination[c][p] = Nil

SessionsStarted ==
    \A s \in Session : SessionExists(s) => session[s].cycle \in Cycle /\ Started(session[s].cycle)

\* What the last check of its handler left true of request q.
RemembersLaunch(q) ==
    /\ q.op \in {"nominate", "nominateCounted", "activated", "createSession", "createSessionLoaded"}
           => Started(q.cycle)
    /\ q.op = "activated" /\ CycleExists(q.cycle) =>
           \A u \in q.eligible : review[q.cycle][<<u, u>>] # Nil

\* The invariant behind DraftOwnsNothing, ApprovedHasReview and NoticeMeansAssigned.
LaunchInv ==
    /\ TypeOK
    /\ UnlaunchedOwnsNothing
    /\ SessionsStarted
    /\ ApprovedHasReview
    /\ NoticeMeansAssigned
    /\ \A r \in Request : RemembersLaunch(request[r])

----------------------------------------------------------------------------
(* With a user a whom no exclusion list names.                             *)

AlwaysEligible(a) == a \in User /\ \A ex \in ExclusionLists : a \notin ex

RemembersStage(q, a) ==
    /\ q.op = "calibrate" => Started(q.cycle)
    /\ q.op \in {"complete", "completeChecked", "createSession", "createSessionLoaded"}
           => Calibrated(q.cycle)
    /\ q.op \in {"createCycle", "activate"} => a \notin q.excluded
    /\ q.op = "updateCycle" => q.excluded = Nil \/ a \notin q.excluded
    /\ q.op = "activateLoaded" => a \in q.eligible

\* The invariant behind NeverReactivated and ScoresComeFromCalibration: the
\* SELF review of a stands in the way of every second activation.
StageInv(a) ==
    /\ \A c \in Cycle : a \notin cycle[c].excluded
    /\ \A c \in Cycle : cycle[c].status \in Launched => review[c][<<a, a>>] # Nil
    /\ ScoresComeFromCalibration
    /\ \A r \in Request : RemembersStage(request[r], a)

\* The two together, for every user who is always eligible.
ReviewInv == LaunchInv /\ \A a \in User : AlwaysEligible(a) => StageInv(a)

----------------------------------------------------------------------------
(* With one request at a time: the checks of request q still hold when it  *)
(* writes.                                                                 *)

CycleStillChecked(q) ==
    /\ q.op \in {"updateCycle", "removeCycle", "activate", "activateLoaded"} =>
           cycle[q.cycle].status = "DRAFT"
    /\ q.op \in {"calibrate", "submit"} => cycle[q.cycle].status = "ACTIVE"
    /\ q.op \in {"complete", "completeChecked", "createSession", "createSessionLoaded"} =>
           cycle[q.cycle].status = "CALIBRATING"
    /\ q.op = "activate" => /\ q.template = cycle[q.cycle].template
                            /\ q.excluded = cycle[q.cycle].excluded
    /\ q.op = "activateLoaded" =>
           /\ q.snapshot = <<cycle[q.cycle].template, template[cycle[q.cycle].template]>>
           /\ q.eligible = User \ cycle[q.cycle].excluded
    /\ q.op = "updateTemplate" =>
           \A c \in Cycle : cycle[c].status \in Launched => cycle[c].template # q.template

RowsStillChecked(q) ==
    /\ q.op = "submit" => /\ review[q.cycle][q.pair] # Nil
                          /\ review[q.cycle][q.pair].status # "SUBMITTED"
    /\ q.op = "reject" => nomination[q.cycle][q.pair] = "PENDING"
    /\ q.op \in {"adjust", "finalize"} => session[q.session].status = "in_progress"
    /\ q.op = "finalize" => /\ q.scores = session[q.session].scores
                            /\ \A u \in DOMAIN q.scores : q.scores[u] # Nil
    /\ q.op = "completeChecked" => SessionsOf(q.cycle, "in_progress") = {}

\* review_cycle_templateId_fkey
CyclesHaveTemplates ==
    \A c \in Cycle : CycleExists(c) => TemplateExists(cycle[c].template)

\* finalizeSession lets no entry through that has no score.
FinalizedIsScored ==
    \A s \in Session : session[s].status = "finalized" =>
        \A u \in DOMAIN session[s].scores : session[s].scores[u] # Nil

\* The invariant behind the contract of the handlers, for a singleton Request.
SerialInv ==
    /\ LaunchInv
    /\ CyclesHaveTemplates /\ SnapshotIsTemplate
    /\ FinalizedIsScored /\ PublishedScoresStand
    /\ ReviewsAreAccountedFor
    /\ \A r \in Request : CycleStillChecked(request[r]) /\ RowsStillChecked(request[r])

\* Sessions and nominations are found only in the stages that handle them;
\* with SerialInv, the invariant behind FollowsLifecycle.
RowsMatchStage ==
    /\ \A s \in Session : SessionExists(s) =>
           cycle[session[s].cycle].status \in {"CALIBRATING", "COMPLETED"}
    /\ \A c \in Cycle, p \in Pair :
           nomination[c][p] # Nil => cycle[c].status \in Launched

\* What createNominations counted, it may add; for a singleton Request and
\* finitely many users.
NominationInv ==
    /\ NominationLimit
    /\ \A r \in Request : LET q == request[r] IN
         q.op = "nominateCounted" =>
             Cardinality(NominatedBy(q.cycle, q.by)) + Cardinality(q.nominees) <= MaxNominations
=============================================================================
