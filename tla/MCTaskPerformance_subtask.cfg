\* Starting a task whose prerequisite is unfinished.
SPECIFICATION Spec
CONSTANTS
    User = {u1}
    Task = {t1, t2}
    Request = {r1}
    Nil = Nil
    MaxCalls = 4
    Change <- MCChange
    Op <- AllOps
PROPERTY StartsAfterPrerequisite
CHECK_DEADLOCK FALSE
