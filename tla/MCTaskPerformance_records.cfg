\* Handlers that overlap, without reassignment and subtasks.
SPECIFICATION FairSpec
CONSTANTS
    User = {u1, u2}
    Task = {t1, t2}
    Request = {r1, r2}
    Nil = Nil
    MaxCalls = 3
    Change <- MCChange
    Op <- EventfulOps
INVARIANTS RecordsCatchUp NeedsImprovementMeansOverdue
PROPERTIES EveryChangeIsCounted
CHECK_DEADLOCK FALSE
