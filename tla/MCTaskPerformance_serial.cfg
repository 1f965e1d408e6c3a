\* Handlers called one at a time, beside the worker.
SPECIFICATION Spec
CONSTANTS
    User = {u1, u2}
    Task = {t1, t2}
    Request = {r1}
    Nil = Nil
    MaxCalls = 4
    Change <- MCChange
    Op <- AllOps
SYMMETRY Interchangeable
INVARIANTS TypeOK NoDependencyCycle StampMeansDone RecordsCatchUp
PROPERTIES PrerequisitesComeFirst
CHECK_DEADLOCK FALSE
