---------------------------- MODULE TargetStore -----------------------------
(***************************************************************************)
(* Targets (company, team, individual), their alignment and the entries    *)
(* that log progress on them (src/prisma/schema.prisma, models Target and  *)
(* TargetEntry).  Values are whole hundredths, which is what a rolled-up   *)
(* value is rounded to.  Left out: roles and departments (an admin may     *)
(* make every call), titles, periods, assignees, attachments.              *)
(***************************************************************************)
EXTENDS Requests, FiniteSets, Functions

CONSTANTS
    Target, Entry,  \* ids, never used twice
    Nil, Gone,      \* SQL NULL or an id not yet used; a row that was deleted
    Goal,           \* bound: what a targetValue may be
    Amount,         \* bound: what an entry may log
    Value,          \* bound: what a currentValue may be
    Change,         \* bound: what clients ask updates to change
    Scale           \* a common multiple of the goals but 0, to add fractions

VARIABLES
    target,  \* the Target rows
    entry,   \* the TargetEntry rows
    cron     \* what each cron of NotificationCronTask has read

tables == <<target, entry>>
frame == <<request, calls, load>>
vars == <<target, entry, cron, request, calls, load>>

----------------------------------------------------------------------------

TargetType == {"COMPANY", "TEAM", "INDIVIDUAL"}
Open == {"ON_TRACK", "AT_RISK"}
TargetStatus == Open \cup {"COMPLETED", "MISSED"}

\* How far away a deadline is: more than three days, less, over.
Deadline == {"far", "near", "past"}

TargetRow == [type: TargetType, parent: Target \cup {Nil}, goal: Goal, value: Value,
              status: TargetStatus, deadline: Deadline]
EntryRow == [target: Target, amount: Amount]

NoRow == {Nil, Gone}

Exists(t) == target[t] \notin NoRow
ChildrenIn(table, p) == {c \in Target : table[c] \notin NoRow /\ table[c].parent = p}
EntriesIn(table, t) == {e \in Entry : table[e] \notin NoRow /\ table[e].target = t}

\* The aggregate over the entries of t: the sum of their values, 0 if there are none.
TotalIn(table, t) == SumFunction([e \in EntriesIn(table, t) |-> table[e].amount])

\* VALID_PARENT_TYPES.
ParentTypes(type) ==
    CASE type = "INDIVIDUAL" -> {"TEAM", "COMPANY"}
      [] type = "TEAM" -> {"COMPANY"}
      [] type = "COMPANY" -> {}

\* What an update may change.  Nil clears the parent; "keep", or -1 for a
\* goal, leaves a column alone.
Changes ==
    [parent: Target \cup {Nil, "keep"}, goal: Goal \cup {-1},
     status: TargetStatus \cup {"keep"}, deadline: Deadline \cup {"keep"}]

InFlight ==
    {Idle}
    \cup [op: {"create"}, target: Target, row: TargetRow]
    \cup [op: {"update"}, target: Target, change: Changes]
    \cup [op: {"remove"}, target: Target]
    \cup [op: {"addEntry", "deleteEntry"}, entry: Entry, target: Target, amount: Amount,
          parent: Target \cup {Nil}]
    \cup [op: {"addCommit", "deleteCommit"}, entry: Entry, target: Target, amount: Amount,
          written: SUBSET Target, values: [Target -> Value]]

Cron == {"missed", "atRisk"}

\* The table a behaviour starts with: created by earlier calls, no entry yet.
Seeds ==
    {s \in [Target -> TargetRow \cup NoRow] :
        \A t \in Target : s[t] \notin NoRow =>
            /\ s[t].type = "INDIVIDUAL" => s[t].value = 0
            /\ s[t].parent # Nil => /\ s[s[t].parent] \notin NoRow
                                   /\ s[s[t].parent].type \in ParentTypes(s[t].type)}

ASSUME TargetAssumption ==
    /\ IsFiniteSet(Target) /\ IsFiniteSet(Entry)
    /\ Nil \notin Target /\ Nil # Gone /\ "keep" \notin Target \cup {Nil}
    /\ NoRow \cap (TargetRow \cup EntryRow) = {}
    /\ Goal \subseteq Nat /\ Amount \subseteq Int /\ Value \subseteq Int /\ 0 \in Value /\ Change \subseteq Changes
    /\ Scale \in Nat \ {0} /\ \A g \in Goal \ {0} : Scale % g = 0

\* Checked by element, the set is too large to enumerate.
ASSUME SeedAssumption == \A l \in Load : l.seed \in Seeds

StoreInit ==
    /\ RequestsInit
    /\ target = load.seed
    /\ entry = [e \in Entry |-> Nil]
    /\ cron = [k \in Cron |-> {}]

\* Type correctness, with the foreign keys of the two tables.
TypeOK ==
    /\ target \in [Target -> TargetRow \cup NoRow]
    /\ \A t \in Target : Exists(t) /\ target[t].parent # Nil => Exists(target[t].parent)
    /\ entry \in [Entry -> EntryRow \cup NoRow]
    /\ \A e \in Entry : entry[e] \notin NoRow => Exists(entry[e].target)
    /\ cron \in [Cron -> SUBSET Target]
    /\ request \in [Request -> InFlight]
    /\ calls \in Nat
    /\ load \in Load
=============================================================================
