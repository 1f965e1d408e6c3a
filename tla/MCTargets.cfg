\* Targets, their entries and the crons.
SPECIFICATION FairSpec
CONSTANTS
    c = c  m = m  i = i  j = j
    r1 = r1  r2 = r2
    Target = {c, m, i, j}
    Entry = {e1, e2}
    Request = {r1, r2}
    Nil = Nil
    Gone = Gone
    Goal = {0, 100, 200}
    Amount = {50, 100}
    Value <- MCValue
    Scale = 200
    Change <- MCChange
    Load <- MCLoad
INVARIANTS TypeOK ParentsRankHigher ValueIsSum
PROPERTIES RollUpReachesTheTop DeletionOrphansNobody LapsedTargetsClose
CHECK_DEADLOCK FALSE
