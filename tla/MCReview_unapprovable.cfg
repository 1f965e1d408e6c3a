SPECIFICATION Spec
CONSTANTS
    u1 = u1
    u2 = u2
    u3 = u3
    User = {u1, u2}
    Cycle = {c1}
    Template = {t1}
    Session = {}
    Request = {r1}
    Nil = Nil
    Rating = {}
    CalibratedScore = {}
    MaxVersion = 1
    MaxNominations = 1
    Supervisor <- MCSupervisor
    ExclusionLists <- MCExclusionLists
    Op <- LaunchOps
INVARIANTS PendingIsApprovable
CHECK_DEADLOCK FALSE
