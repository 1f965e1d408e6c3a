SPECIFICATION Spec
CONSTANTS
    u1 = u1
    u2 = u2
    u3 = u3
    User = {u1, u2}
    Cycle = {c1}
    Template = {t1}
    Session = {s1}
    Request = {r1}
    Nil = Nil
    Rating = {1}
    CalibratedScore = {1, 2}
    MaxVersion = 2
    MaxNominations = 1
    Supervisor <- MCSupervisor
    ExclusionLists <- MCExclusionLists
    Op <- SerialOps
INVARIANTS SnapshotIsTemplate PublishedScoresStand
PROPERTIES SubmissionsCloseWithStage FollowsLifecycle
CHECK_DEADLOCK FALSE
