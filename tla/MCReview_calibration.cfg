SPECIFICATION Spec
CONSTANTS
    u1 = u1
    u2 = u2
    u3 = u3
    User = {u1, u2}
    Cycle = {c1}
    Template = {t1}
    Session = {s1}
    Request = {r1, r2}
    Nil = Nil
    Rating = {1}
    CalibratedScore = {1}
    MaxVersion = 1
    MaxNominations = 1
    Supervisor <- MCSupervisor
    ExclusionLists <- MCExclusionLists
    Op <- CalibrationOps
INVARIANTS ScoresComeFromCalibration
SYMMETRY RequestSymmetry
CHECK_DEADLOCK FALSE
