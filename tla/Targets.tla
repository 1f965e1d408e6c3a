------------------------------ MODULE Targets -------------------------------
(***************************************************************************)
(* The handlers of src/src/modules/target/target.service.ts and the two    *)
(* crons of src/src/scheduler/notification.task.ts that change a target    *)
(* (the notices they send are left out).                                   *)
(***************************************************************************)
EXTENDS TargetStore

Init == StoreInit

----------------------------------------------------------------------------
(* Alignment.                                                              *)

\* Fault: only depth and circularity are checked, not the types.
ValidAlignment_AnyType(t, type, p) ==
    /\ Exists(p) /\ p # t
    /\ LET grandparent == target[p].parent IN
       grandparent # Nil => grandparent # t /\ target[grandparent].parent = Nil

\* validateAlignment.  The walk up the parents (merged into one read) refuses a
\* fourth level and, for an update, a grandparent that is the target itself.
ValidAlignment(t, type, p) ==
    /\ Exists(p) /\ target[p].type \in ParentTypes(type)
    /\ LET grandparent == target[p].parent IN
       grandparent # Nil => grandparent # t /\ target[grandparent].parent = Nil

CreateRead(r, t, row) ==
    /\ target[t] = Nil
    /\ row.parent # Nil => ValidAlignment(t, row.type, row.parent)
    /\ Begin(r, "create", [op |-> "create", target |-> t, row |-> row])
    /\ UNCHANGED <<tables, cron>>

CreateCommit(r) ==
    LET q == request[r] IN
    /\ q.op = "create"
    /\ target[q.target] = Nil
    /\ q.row.parent # Nil => Exists(q.row.parent)
    /\ target' = [target EXCEPT ![q.target] = q.row]
    /\ End(r)
    /\ UNCHANGED <<entry, cron>>

UpdateRead(r, t, ch) ==
    /\ Exists(t)
    /\ ch.parent \in Target \ {target[t].parent} => ValidAlignment(t, target[t].type, ch.parent)
    /\ Begin(r, "update", [op |-> "update", target |-> t, change |-> ch])
    /\ UNCHANGED <<tables, cron>>

Changed(row, ch) ==
    [row EXCEPT !.parent = IF ch.parent = "keep" THEN @ ELSE ch.parent,
                !.goal = IF ch.goal = -1 THEN @ ELSE ch.goal,
                !.status = IF ch.status = "keep" THEN @ ELSE ch.status,
                !.deadline = IF ch.deadline = "keep" THEN @ ELSE ch.deadline]

\* Nothing is rolled up, although the goal or the parent may be new.
UpdateCommit(r) ==
    LET q == request[r] IN
    /\ q.op = "update"
    /\ Exists(q.target)
    /\ q.change.parent \in Target => Exists(q.change.parent)
    /\ target' = [target EXCEPT ![q.target] = Changed(@, q.change)]
    /\ End(r)
    /\ UNCHANGED <<entry, cron>>

\* Fault: the children are not counted.
RemoveRead_AnyTarget(r, t) ==
    /\ Exists(t)
    /\ Begin(r, "remove", [op |-> "remove", target |-> t])
    /\ UNCHANGED <<tables, cron>>

RemoveRead(r, t) ==
    /\ Exists(t)
    /\ ChildrenIn(target, t) = {}
    /\ Begin(r, "remove", [op |-> "remove", target |-> t])
    /\ UNCHANGED <<tables, cron>>

\* Fault: the entries stay behind.
RemoveCommit_KeepsEntries(r) ==
    LET t == request[r].target IN
    /\ request[r].op = "remove"
    /\ Exists(t)
    /\ target' = [x \in Target |->
           IF x = t THEN Gone
           ELSE IF x \in ChildrenIn(target, t) THEN [target[x] EXCEPT !.parent = Nil]
           ELSE target[x]]
    /\ End(r)
    /\ UNCHANGED <<entry, cron>>

\* target_parentTargetId_fkey is ON DELETE SET NULL, target_entry_targetId_fkey
\* ON DELETE CASCADE.
RemoveCommit(r) ==
    LET t == request[r].target IN
    /\ request[r].op = "remove"
    /\ Exists(t)
    /\ target' = [x \in Target |->
           IF x = t THEN Gone
           ELSE IF x \in ChildrenIn(target, t) THEN [target[x] EXCEPT !.parent = Nil]
           ELSE target[x]]
    /\ entry' = [e \in Entry |-> IF e \in EntriesIn(entry, t) THEN Gone ELSE entry[e]]
    /\ End(r)
    /\ UNCHANGED cron

----------------------------------------------------------------------------
(* Entries.  The transaction reads what is committed (EntrySum) and then   *)
(* writes (EntryCommit): READ COMMITTED does not keep another from         *)
(* committing in between.                                                  *)

Progress(row) == IF row.goal = 0 THEN 0 ELSE row.value * (Scale \div row.goal)

\* The values rollupParent may store for p: the average progress of the
\* children times p's goal, rounded; a tie goes either way in floating point.
\* Without a row or without children there is none (the transaction fails).
RolledUpValues(table, p) ==
    LET kids == ChildrenIn(table, p)
        n == table[p].goal * SumFunction([c \in kids |-> Progress(table[c])])
        d == Scale * Cardinality(kids)
    IN IF table[p] \in NoRow \/ kids = {} THEN {}
       ELSE {v \in {n \div d, n \div d + 1} : 2 * (v * d - n) \in -d..d}

RollUp(table, p) == {[table EXCEPT ![p].value = v] : v \in RolledUpValues(table, p)}

\* Fault: the roll-up stops at the parent.
RolledUp_OneLevel(table, p) == RollUp(table, p)

\* rollupParent goes on to the parent's parent, which is the last level.
RolledUp(table, p) ==
    UNION {IF up[p].parent = Nil THEN {up} ELSE RollUp(up, up[p].parent) : up \in RollUp(table, p)}

AddEntryRead(r, e, t, amount) ==
    /\ entry[e] = Nil
    /\ Exists(t) /\ target[t].status \in Open
    /\ Begin(r, "addEntry", [op |-> "addEntry", entry |-> e, target |-> t, amount |-> amount,
                             parent |-> target[t].parent])
    /\ UNCHANGED <<tables, cron>>

DeleteEntryRead(r, e) ==
    /\ entry[e] \notin NoRow
    /\ LET t == entry[e].target IN
       Begin(r, "deleteEntry", [op |-> "deleteEntry", entry |-> e, target |-> t,
                                amount |-> entry[e].amount, parent |-> target[t].parent])
    /\ UNCHANGED <<tables, cron>>

\* The entries as the transaction leaves them: this one added, or deleted.
EntriesAfter(table, q) ==
    [table EXCEPT ![q.entry] =
        IF q.op \in {"addEntry", "addCommit"}
        THEN [target |-> q.target, amount |-> q.amount] ELSE Gone]

\* The rows the transaction writes, and what it writes to them.
Written(q) ==
    {q.target} \cup (IF q.parent = Nil THEN {} ELSE {q.parent, target[q.parent].parent} \cap Target)

ValuesIn(table) == [t \in Target |-> IF Exists(t) THEN table[t].value ELSE 0]

\* Fault: the sum is taken before the entry is deleted.
EntrySum_StaleSum(r) ==
    LET q == request[r]
        after == IF q.op = "addEntry" THEN EntriesAfter(entry, q) ELSE entry
        own == [target EXCEPT ![q.target].value = TotalIn(after, q.target)]
    IN
    /\ q.op \in {"addEntry", "deleteEntry"}
    /\ Exists(q.target)
    /\ \E table \in (IF q.parent = Nil THEN {own} ELSE RolledUp(own, q.parent)) :
       /\ ValuesIn(table) \in [Target -> Value]
       /\ Await(r, [op |-> IF q.op = "addEntry" THEN "addCommit" ELSE "deleteCommit",
                    entry |-> q.entry, target |-> q.target, amount |-> q.amount,
                    written |-> Written(q), values |-> ValuesIn(table)])
    /\ UNCHANGED <<tables, cron>>

\* What the transaction computes once it has added or deleted the entry: the
\* sum of the target's entries, and the roll-up from the parent read before.
EntrySum(r) ==
    LET q == request[r]
        own == [target EXCEPT ![q.target].value = TotalIn(EntriesAfter(entry, q), q.target)]
    IN
    /\ q.op \in {"addEntry", "deleteEntry"}
    /\ Exists(q.target)
    /\ \E table \in (IF q.parent = Nil THEN {own} ELSE RolledUp(own, q.parent)) :
       /\ ValuesIn(table) \in [Target -> Value]
       /\ Await(r, [op |-> IF q.op = "addEntry" THEN "addCommit" ELSE "deleteCommit",
                    entry |-> q.entry, target |-> q.target, amount |-> q.amount,
                    written |-> Written(q), values |-> ValuesIn(table)])
    /\ UNCHANGED <<tables, cron>>

EntryCommit(r) ==
    LET q == request[r] IN
    /\ q.op \in {"addCommit", "deleteCommit"}
    /\ IF q.op = "addCommit" THEN entry[q.entry] = Nil ELSE entry[q.entry] \notin NoRow
    /\ \A t \in q.written \cup {q.target} : Exists(t)
    /\ target' = [t \in Target |->
           IF t \in q.written THEN [target[t] EXCEPT !.value = q.values[t]] ELSE target[t]]
    /\ entry' = EntriesAfter(entry, q)
    /\ End(r)
    /\ UNCHANGED cron

\* The request dies between two awaits; a transaction in progress rolls back.
Fail(r) ==
    /\ request[r] # Idle
    /\ End(r)
    /\ UNCHANGED <<tables, cron>>

----------------------------------------------------------------------------
(* The crons run beside the handlers.  Each selects, awaits, and writes    *)
(* the status by id.                                                       *)

\* A deadline comes closer (only of targets in load.aging, a bound).
TimePasses(t) ==
    /\ t \in load.aging /\ Exists(t) /\ target[t].deadline # "past"
    /\ target' = [target EXCEPT ![t].deadline = IF @ = "far" THEN "near" ELSE "past"]
    /\ UNCHANGED <<entry, cron, frame>>

\* Fault: targets at risk are not looked at.
Selected_OnTrackOnly(k) ==
    {t \in Target :
        /\ Exists(t) /\ target[t].status = "ON_TRACK"
        /\ CASE k = "missed" -> target[t].deadline = "past"
             [] k = "atRisk" -> target[t].deadline = "near" /\ 2 * target[t].value < target[t].goal}

\* handleMissedTargetDetection takes every open target past its deadline;
\* handleTargetAtRiskDetection those on track, near it, with progress under one
\* half (progress is 0 when the goal is 0).
Selected(k) ==
    {t \in Target :
        /\ Exists(t)
        /\ CASE k = "missed" -> /\ target[t].deadline = "past"
                                /\ target[t].status \in Open
             [] k = "atRisk" -> /\ target[t].deadline = "near"
                                /\ target[t].status = "ON_TRACK"
                                /\ target[t].goal = 0 \/ 2 * target[t].value < target[t].goal}

CronRead(k) ==
    /\ cron[k] = {}
    /\ Selected(k) # {}
    /\ cron' = [cron EXCEPT ![k] = Selected(k)]
    /\ UNCHANGED <<tables, frame>>

CronWrite(k) ==
    /\ cron[k] # {}
    /\ target' = [t \in Target |->
           IF t \in cron[k] /\ Exists(t)
           THEN [target[t] EXCEPT !.status = IF k = "missed" THEN "MISSED" ELSE "AT_RISK"]
           ELSE target[t]]
    /\ cron' = [cron EXCEPT ![k] = {}]
    /\ UNCHANGED <<entry, frame>>

\* The run throws after its query; the error is logged and the next run starts afresh.
CronFails(k) ==
    /\ cron[k] # {}
    /\ cron' = [cron EXCEPT ![k] = {}]
    /\ UNCHANGED <<tables, frame>>

----------------------------------------------------------------------------

HandlerStep(r) ==
    \/ \E t \in Target, type \in TargetType, goal \in Goal, p \in Target \cup {Nil} :
         CreateRead(r, t, [type |-> type, parent |-> p, goal |-> goal, value |-> 0,
                           status |-> "ON_TRACK", deadline |-> "far"])
    \/ \E t \in Target, ch \in Change : UpdateRead(r, t, ch)
    \/ \E t \in Target : RemoveRead(r, t)
    \/ \E e \in Entry, t \in Target, x \in Amount : AddEntryRead(r, e, t, x)
    \/ \E e \in Entry : DeleteEntryRead(r, e)
    \/ CreateCommit(r) \/ UpdateCommit(r) \/ RemoveCommit(r)
    \/ EntrySum(r) \/ EntryCommit(r)
    \/ Fail(r)

CronStep(k) == CronRead(k) \/ CronWrite(k) \/ CronFails(k)

Next ==
    \/ \E r \in Request : HandlerStep(r)
    \/ \E k \in Cron : CronStep(k)
    \/ \E t \in Target : TimePasses(t)

\* The scheduler starts the detection of missed targets every ten minutes, and it
\* does not fail for ever.  No client has to call, no handler has to return.
Fairness ==
    /\ WF_vars(CronRead("missed"))
    /\ SF_vars(CronWrite("missed"))

Spec == Init /\ [][Next]_vars
FairSpec == Spec /\ Fairness

----------------------------------------------------------------------------

\* However creations, moves and deletions overlap, every parent is of a higher
\* type than its children: the alignment has at most three levels and no cycle,
\* although each check is made against rows read before an await.
ParentsRankHigher ==
    \A t \in Target : Exists(t) /\ target[t].parent # Nil =>
        target[target[t].parent].type \in ParentTypes(target[t].type)

\* One handler at a time (beside the crons), the value of an individual target
\* is the sum of its entries, through additions, deletions and moves.
ValueIsSum ==
    OneAtATime => \A t \in Target :
        Exists(t) /\ target[t].type = "INDIVIDUAL" => target[t].value = TotalIn(entry, t)

\* One handler at a time, an entry that comes or goes brings the parent of its
\* target, and the parent's parent, to the average progress of their children.
RollUpReachesTheTop ==
    [][OneAtATime =>
        \A e \in Entry :
            LET row == IF entry[e] \in NoRow THEN entry'[e] ELSE entry[e]
                p == target[row.target].parent
            IN entry'[e] # entry[e] /\ target'[row.target] \notin NoRow /\ p # Nil =>
                /\ target'[p].value \in RolledUpValues(target', p)
                /\ LET g == target'[p].parent IN
                   g # Nil => target'[g].value \in RolledUpValues(target', g)]_vars

\* One handler at a time, a target is cut off from its parent by an update that
\* asks for it, never by the deletion of the parent.
DeletionOrphansNobody ==
    [][OneAtATime =>
        \A t \in Target :
            /\ Exists(t) /\ target'[t] \notin NoRow
            /\ target[t].parent # Nil /\ target'[t].parent = Nil
            => target'[target[t].parent] \notin NoRow]_vars

Lapsed(t) == Exists(t) /\ target[t].deadline = "past" /\ target[t].status \in Open

\* A target past its deadline does not stay open: it is marked missed, unless a
\* client closes it, puts the deadline off or deletes it first.
LapsedTargetsClose == \A t \in Target : Lapsed(t) ~> ~Lapsed(t)
=============================================================================
