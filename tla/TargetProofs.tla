---------------------------- MODULE TargetProofs ----------------------------
(* Theorems about Targets, for any targets, entries, requests and bounds.   *)
EXTENDS Targets, TLAPS

\* What an unfinished create or update has checked of the parent still holds when
\* it writes: a row keeps its type as long as it exists, and no id is used twice.
Accepts(table, p, type) ==
    table[p] # Nil /\ (table[p] \notin NoRow => table[p].type \in ParentTypes(type))

Cleared(table, q) ==
    /\ q.op = "create" => q.row.parent = Nil \/ Accepts(table, q.row.parent, q.row.type)
    /\ q.op = "update" =>
          /\ table[q.target] # Nil
          /\ q.change.parent \in Target /\ table[q.target] \notin NoRow =>
                Accepts(table, q.change.parent, table[q.target].type)

ChecksStand == \A r \in Request : Cleared(target, request[r])

IInv == TypeOK /\ ParentsRankHigher /\ ChecksStand

\* A step neither changes the type of a row nor brings one back.
TypesStand ==
    \A t \in Target :
        /\ target[t] # Nil => target'[t] # Nil
        /\ target[t] # Nil /\ target'[t] \notin NoRow =>
              target[t] \notin NoRow /\ target'[t].type = target[t].type

\* A row is never one of the marks of its absence.
LEMMA RowsAreRows ==
    /\ \A row \in TargetRow : row \notin NoRow
    /\ \A row \in EntryRow : row \notin NoRow
    /\ Nil \in NoRow /\ Gone \in NoRow /\ Nil # Gone
    /\ Nil \notin Target
BY TargetAssumption DEF TargetAssumption, NoRow

\* Every handler waits with one of the records of InFlight.
LEMMA FlightTypes ==
    ASSUME TypeOK, NEW r \in Request
    PROVE  /\ request[r].op = "create" =>
                 request[r].target \in Target /\ request[r].row \in TargetRow
           /\ request[r].op = "update" =>
                 request[r].target \in Target /\ request[r].change \in Changes
           /\ request[r].op = "remove" => request[r].target \in Target
           /\ request[r].op \in {"addEntry", "deleteEntry"} =>
                 /\ request[r].entry \in Entry /\ request[r].target \in Target
                 /\ request[r].amount \in Amount /\ request[r].parent \in Target \cup {Nil}
           /\ request[r].op \in {"addCommit", "deleteCommit"} =>
                 /\ request[r].entry \in Entry /\ request[r].target \in Target
                 /\ request[r].amount \in Amount
                 /\ request[r].written \in SUBSET Target
                 /\ request[r].values \in [Target -> Value]
<1>1. request[r] \in InFlight
  BY DEF TypeOK
<1>2. QED BY <1>1 DEF InFlight, Idle

\* A step that keeps the types keeps every handler cleared whose turn it is not.
LEMMA ClearedStays ==
    ASSUME TypesStand, NEW q \in InFlight, Cleared(target, q)
    PROVE  Cleared(target', q)
<1>1. \A p \in Target : \A type : Accepts(target, p, type) => Accepts(target', p, type)
  BY RowsAreRows DEF TypesStand, Accepts
<1>2. CASE q.op = "create"
  <2>1. q.row.parent \in Target \cup {Nil}
    BY <1>2 DEF InFlight, Idle, TargetRow
  <2>2. QED BY <1>1, <1>2, <2>1 DEF Cleared
<1>3. CASE q.op = "update"
  <2>1. q.target \in Target
    BY <1>3 DEF InFlight, Idle
  <2>2. target'[q.target] # Nil
    BY <1>3, <2>1 DEF Cleared, TypesStand
  <2>3. ASSUME q.change.parent \in Target, target'[q.target] \notin NoRow
        PROVE  Accepts(target', q.change.parent, target'[q.target].type)
    <3>1. target[q.target] \notin NoRow /\ target'[q.target].type = target[q.target].type
      BY <1>3, <2>1, <2>3 DEF Cleared, TypesStand
    <3>2. QED BY <3>1, <1>1, <1>3, <2>3 DEF Cleared
  <2>4. QED BY <1>3, <2>2, <2>3 DEF Cleared
<1>4. QED BY <1>2, <1>3 DEF Cleared

\* ... so that only the new state of the handler that moves is left to look at.
LEMMA ChecksOutliveSteps ==
    ASSUME TypeOK, ChecksStand, TypesStand, NEW r \in Request, NEW q,
           request' = [request EXCEPT ![r] = q], Cleared(target', q)
    PROVE  ChecksStand'
<1>1. \A s \in Request : s # r => request'[s] = request[s]
  BY DEF TypeOK
<1>2. request'[r] = q
  BY DEF TypeOK
<1>3. \A s \in Request : Cleared(target', request[s])
  BY ClearedStays DEF TypeOK, ChecksStand
<1>4. QED BY <1>1, <1>2, <1>3 DEF ChecksStand

----------------------------------------------------------------------------
(* The initial state.                                                      *)

LEMMA InitHolds == Init => IInv
<1> SUFFICES ASSUME Init PROVE IInv
  OBVIOUS
<1> USE DEF Init, StoreInit, RequestsInit
<1>1. load.seed \in Seeds
  BY SeedAssumption
<1>2. TypeOK
  BY <1>1, TargetAssumption DEF TypeOK, Seeds, InFlight, Exists, NoRow, Idle, Cron
<1>3. ParentsRankHigher
  BY <1>1 DEF ParentsRankHigher, Seeds, Exists
<1>4. ChecksStand
  BY DEF ChecksStand, Cleared, Idle
<1>5. QED BY <1>2, <1>3, <1>4 DEF IInv

----------------------------------------------------------------------------
(* Steps that write no row.                                                *)

LEMMA StepThatReads ==
    ASSUME IInv, NEW r \in Request, NEW q \in InFlight, request' = [request EXCEPT ![r] = q],
           Cleared(target, q), calls' \in Nat, UNCHANGED <<tables, cron, load>>
    PROVE  IInv'
<1>1. TypeOK'
  BY DEF IInv, TypeOK, tables, Exists
<1>2. ParentsRankHigher'
  BY DEF IInv, ParentsRankHigher, Exists, tables
<1>3. TypesStand
  BY DEF TypesStand, tables
<1>4. ChecksStand'
  BY <1>3, ChecksOutliveSteps DEF IInv, tables
<1>5. QED BY <1>1, <1>2, <1>4 DEF IInv

LEMMA CreateReadStep ==
    ASSUME IInv, NEW r \in Request, NEW t \in Target, NEW row \in TargetRow, CreateRead(r, t, row)
    PROVE  IInv'
<1> DEFINE q == [op |-> "create", target |-> t, row |-> row]
<1>1. q \in InFlight
  BY DEF InFlight
<1>2. Cleared(target, q)
  BY RowsAreRows DEF CreateRead, ValidAlignment, Cleared, Accepts, Exists
<1>3. request' = [request EXCEPT ![r] = q] /\ calls' \in Nat /\ UNCHANGED <<tables, cron, load>>
  BY DEF CreateRead, Begin, IInv, TypeOK
<1>4. QED BY <1>1, <1>2, <1>3, StepThatReads

LEMMA UpdateReadStep ==
    ASSUME IInv, NEW r \in Request, NEW t \in Target, NEW ch \in Change, UpdateRead(r, t, ch)
    PROVE  IInv'
<1> DEFINE q == [op |-> "update", target |-> t, change |-> ch]
<1>1. q \in InFlight
  BY TargetAssumption DEF TargetAssumption, InFlight
<1>2. Cleared(target, q)
  <2>1. Exists(t)
    BY DEF UpdateRead
  <2>2. ASSUME ch.parent \in Target PROVE Accepts(target, ch.parent, target[t].type)
    <3>1. CASE ch.parent = target[t].parent
      BY <2>1, <2>2, <3>1, RowsAreRows
      DEF IInv, TypeOK, ParentsRankHigher, Accepts, Exists
    <3>2. CASE ch.parent # target[t].parent
      BY <2>2, <3>2, RowsAreRows DEF UpdateRead, ValidAlignment, Accepts, Exists
    <3>3. QED BY <3>1, <3>2
  <2>3. QED BY <2>1, <2>2, RowsAreRows DEF Cleared, Exists
<1>3. request' = [request EXCEPT ![r] = q] /\ calls' \in Nat /\ UNCHANGED <<tables, cron, load>>
  BY DEF UpdateRead, Begin, IInv, TypeOK
<1>4. QED BY <1>1, <1>2, <1>3, StepThatReads

LEMMA RemoveReadStep ==
    ASSUME IInv, NEW r \in Request, NEW t \in Target, RemoveRead(r, t)
    PROVE  IInv'
<1> DEFINE q == [op |-> "remove", target |-> t]
<1>1. q \in InFlight /\ Cleared(target, q)
  BY DEF InFlight, Cleared
<1>2. request' = [request EXCEPT ![r] = q] /\ calls' \in Nat /\ UNCHANGED <<tables, cron, load>>
  BY DEF RemoveRead, Begin, IInv, TypeOK
<1>3. QED BY <1>1, <1>2, StepThatReads

LEMMA AddEntryReadStep ==
    ASSUME IInv, NEW r \in Request, NEW e \in Entry, NEW t \in Target, NEW x \in Amount,
           AddEntryRead(r, e, t, x)
    PROVE  IInv'
<1> DEFINE q == [op |-> "addEntry", entry |-> e, target |-> t, amount |-> x,
                 parent |-> target[t].parent]
<1>1. target[t].parent \in Target \cup {Nil}
  BY DEF AddEntryRead, Exists, IInv, TypeOK, TargetRow
<1>2. q \in InFlight /\ Cleared(target, q)
  BY <1>1 DEF InFlight, Cleared
<1>3. request' = [request EXCEPT ![r] = q] /\ calls' \in Nat /\ UNCHANGED <<tables, cron, load>>
  BY DEF AddEntryRead, Begin, IInv, TypeOK
<1>4. QED BY <1>2, <1>3, StepThatReads

LEMMA DeleteEntryReadStep ==
    ASSUME IInv, NEW r \in Request, NEW e \in Entry, DeleteEntryRead(r, e)
    PROVE  IInv'
<1> DEFINE t == entry[e].target
           q == [op |-> "deleteEntry", entry |-> e, target |-> t,
                 amount |-> entry[e].amount, parent |-> target[t].parent]
<1>1. entry[e] \in EntryRow /\ Exists(t)
  BY DEF DeleteEntryRead, IInv, TypeOK
<1>2. target[t].parent \in Target \cup {Nil}
  BY <1>1 DEF Exists, IInv, TypeOK, TargetRow, EntryRow
<1>3. q \in InFlight /\ Cleared(target, q)
  BY <1>1, <1>2 DEF InFlight, Cleared, EntryRow
<1>4. request' = [request EXCEPT ![r] = q] /\ calls' \in Nat /\ UNCHANGED <<tables, cron, load>>
  BY DEF DeleteEntryRead, Begin, IInv, TypeOK
<1>5. QED BY <1>3, <1>4, StepThatReads

LEMMA EntrySumStep ==
    ASSUME IInv, NEW r \in Request, EntrySum(r)
    PROVE  IInv'
<1>1. PICK v \in [Target -> Value] :
        /\ request' = [request EXCEPT ![r] =
              [op |-> IF request[r].op = "addEntry" THEN "addCommit" ELSE "deleteCommit",
               entry |-> request[r].entry, target |-> request[r].target,
               amount |-> request[r].amount, written |-> Written(request[r]), values |-> v]]
        /\ UNCHANGED <<calls, load>>
  BY DEF EntrySum, Await
<1> DEFINE q == [op |-> IF request[r].op = "addEntry" THEN "addCommit" ELSE "deleteCommit",
                 entry |-> request[r].entry, target |-> request[r].target,
                 amount |-> request[r].amount, written |-> Written(request[r]), values |-> v]
<1>2. request[r].op \in {"addEntry", "deleteEntry"} /\ UNCHANGED <<tables, cron>>
  BY DEF EntrySum
<1>3. Written(request[r]) \in SUBSET Target
  BY <1>2, FlightTypes DEF IInv, Written
<1>4. q \in InFlight /\ Cleared(target, q)
  BY <1>2, <1>3, FlightTypes DEF IInv, InFlight, Cleared
<1>5. QED BY <1>1, <1>2, <1>4, StepThatReads DEF IInv, TypeOK

LEMMA FailStep ==
    ASSUME IInv, NEW r \in Request, Fail(r)
    PROVE  IInv'
<1>1. Idle \in InFlight /\ Cleared(target, Idle)
  BY DEF Idle, InFlight, Cleared
<1>2. QED BY <1>1, StepThatReads DEF Fail, End, Await, IInv, TypeOK

----------------------------------------------------------------------------
(* Steps that write.                                                       *)

LEMMA CreateCommitStep ==
    ASSUME IInv, NEW r \in Request, CreateCommit(r)
    PROVE  IInv'
<1> DEFINE t == request[r].target
           row == request[r].row
<1>1. /\ t \in Target /\ row \in TargetRow /\ row \notin NoRow
      /\ target[t] = Nil /\ target' = [target EXCEPT ![t] = row]
      /\ row.parent \in Target \cup {Nil}
      /\ row.parent # Nil => Exists(row.parent) /\ target[row.parent].type \in ParentTypes(row.type)
  <2>1. request[r].op = "create" /\ Cleared(target, request[r])
    BY DEF CreateCommit, IInv, ChecksStand
  <2>2. t \in Target /\ row \in TargetRow
    BY <2>1, FlightTypes DEF IInv
  <2>3. QED BY <2>1, <2>2, RowsAreRows DEF CreateCommit, Cleared, Accepts, Exists, TargetRow
<1>2. /\ request' = [request EXCEPT ![r] = Idle]
      /\ UNCHANGED <<calls, load, entry, cron>>
  BY DEF CreateCommit, End, Await
<1>3. target' \in [Target -> TargetRow \cup NoRow] /\ target'[t] = row
      /\ \A x \in Target : x # t => target'[x] = target[x]
  BY <1>1 DEF IInv, TypeOK
<1>4. \A x \in Target : Exists(x) => Exists(x)' /\ target'[x] = target[x]
  BY <1>1, <1>3, RowsAreRows DEF Exists
<1>5. TypeOK'
  <2>1. \A x \in Target : Exists(x)' /\ target'[x].parent # Nil => Exists(target[x].parent)'
    BY <1>1, <1>3, <1>4 DEF IInv, TypeOK, Exists, TargetRow
  <2>2. \A e \in Entry : entry'[e] \notin NoRow => Exists(entry[e].target)'
    BY <1>2, <1>4 DEF IInv, TypeOK, EntryRow, Exists
  <2>3. request' \in [Request -> InFlight]
    BY <1>2 DEF IInv, TypeOK, InFlight
  <2>4. QED BY <1>2, <1>3, <2>1, <2>2, <2>3 DEF IInv, TypeOK
<1>6. ParentsRankHigher'
  BY <1>1, <1>3, <1>4 DEF IInv, TypeOK, ParentsRankHigher, Exists, TargetRow
<1>7. TypesStand
  BY <1>1, <1>3, RowsAreRows DEF TypesStand
<1>8. ChecksStand'
  BY <1>2, <1>7, ChecksOutliveSteps DEF IInv, Cleared, Idle
<1>9. QED BY <1>5, <1>6, <1>8 DEF IInv

LEMMA ChangedIsRow ==
    ASSUME NEW old \in TargetRow, NEW ch \in Changes
    PROVE  /\ Changed(old, ch) \in TargetRow /\ Changed(old, ch).type = old.type
           /\ Changed(old, ch).parent \in Target =>
                \/ Changed(old, ch).parent = old.parent
                \/ ch.parent \in Target /\ Changed(old, ch).parent = ch.parent
<1> DEFINE row == Changed(old, ch)
<1>1. /\ row = [old EXCEPT !.parent = row.parent, !.goal = row.goal,
                           !.status = row.status, !.deadline = row.deadline]
      /\ row.parent = IF ch.parent = "keep" THEN old.parent ELSE ch.parent
      /\ row.goal = IF ch.goal = -1 THEN old.goal ELSE ch.goal
      /\ row.status = IF ch.status = "keep" THEN old.status ELSE ch.status
      /\ row.deadline = IF ch.deadline = "keep" THEN old.deadline ELSE ch.deadline
  BY DEF Changed, TargetRow
<1>2. row.parent \in Target \cup {Nil}
  BY <1>1 DEF Changes, TargetRow
<1>3. row.goal \in Goal
  BY <1>1 DEF Changes, TargetRow
<1>4. row.status \in TargetStatus /\ row.deadline \in Deadline
  BY <1>1 DEF Changes, TargetRow
<1>5. row \in TargetRow /\ row.type = old.type
  BY <1>1, <1>2, <1>3, <1>4 DEF TargetRow
<1>6. QED BY <1>1, <1>5

LEMMA UpdateCommitStep ==
    ASSUME IInv, NEW r \in Request, UpdateCommit(r)
    PROVE  IInv'
<1> DEFINE t == request[r].target
           ch == request[r].change
           row == Changed(target[t], ch)
<1>1. /\ t \in Target /\ ch \in Changes /\ target[t] \in TargetRow
      /\ target' = [target EXCEPT ![t] = row]
      /\ ch.parent \in Target =>
            Exists(ch.parent) /\ target[ch.parent].type \in ParentTypes(target[t].type)
  <2>1. request[r].op = "update" /\ Cleared(target, request[r])
    BY DEF UpdateCommit, IInv, ChecksStand
  <2>2. t \in Target /\ ch \in Changes
    BY <2>1, FlightTypes DEF IInv
  <2>3. QED BY <2>1, <2>2 DEF UpdateCommit, Cleared, Accepts, Exists, IInv, TypeOK
<1>2. /\ request' = [request EXCEPT ![r] = Idle]
      /\ UNCHANGED <<calls, load, entry, cron>>
  BY DEF UpdateCommit, End, Await
<1>3. /\ row \in TargetRow /\ row.type = target[t].type
      /\ row.parent \in Target => \/ row.parent = target[t].parent
                                  \/ ch.parent \in Target /\ row.parent = ch.parent
  BY <1>1, ChangedIsRow
<1>4. /\ target' \in [Target -> TargetRow \cup NoRow] /\ target'[t] = row
      /\ \A x \in Target : x # t => target'[x] = target[x]
  BY <1>1, <1>3 DEF IInv, TypeOK
<1>5. \A x \in Target :
        /\ Exists(x)' <=> Exists(x)
        /\ Exists(x) => target'[x].type = target[x].type
  BY <1>1, <1>3, <1>4, RowsAreRows DEF Exists
<1>6. \A x \in Target : Exists(x)' /\ target'[x].parent # Nil =>
        /\ Exists(target'[x].parent)
        /\ target[target'[x].parent].type \in ParentTypes(target[x].type)
        /\ target'[x].parent \in Target
  <2>1. SUFFICES ASSUME NEW x \in Target, Exists(x)', target'[x].parent # Nil
        PROVE  /\ Exists(target'[x].parent)
               /\ target[target'[x].parent].type \in ParentTypes(target[x].type)
               /\ target'[x].parent \in Target
    OBVIOUS
  <2>2. target'[x].parent \in Target
    BY <1>4, <2>1 DEF Exists, TargetRow
  <2>3. Exists(x)
    BY <1>5, <2>1
  <2>4. CASE x = t /\ ch.parent \in Target /\ row.parent = ch.parent
    BY <1>1, <1>4, <2>2, <2>4
  <2>5. CASE target'[x].parent = target[x].parent
    BY <2>1, <2>2, <2>3, <2>5 DEF IInv, TypeOK, ParentsRankHigher
  <2>6. QED BY <1>3, <1>4, <2>2, <2>4, <2>5
<1>7. TypeOK'
  <2>1. \A x \in Target : Exists(x)' /\ target'[x].parent # Nil => Exists(target[x].parent)'
    BY <1>5, <1>6 DEF Exists
  <2>2. \A e \in Entry : entry'[e] \notin NoRow => Exists(entry[e].target)'
    BY <1>2, <1>5 DEF IInv, TypeOK, EntryRow, Exists
  <2>3. request' \in [Request -> InFlight]
    BY <1>2 DEF IInv, TypeOK, InFlight
  <2>4. QED BY <1>2, <1>4, <2>1, <2>2, <2>3 DEF IInv, TypeOK
<1>8. ParentsRankHigher'
  BY <1>5, <1>6 DEF ParentsRankHigher
<1>9. TypesStand
  BY <1>1, <1>3, <1>4, RowsAreRows DEF TypesStand
<1>10. ChecksStand'
  BY <1>2, <1>9, ChecksOutliveSteps DEF IInv, Cleared, Idle
<1>11. QED BY <1>7, <1>8, <1>10 DEF IInv

LEMMA RemoveCommitStep ==
    ASSUME IInv, NEW r \in Request, RemoveCommit(r)
    PROVE  IInv'
<1>1. PICK t \in Target : t = request[r].target /\ Exists(t)
  BY FlightTypes DEF RemoveCommit, IInv
<1>2. /\ target' = [x \in Target |->
            IF x = t THEN Gone
            ELSE IF x \in ChildrenIn(target, t) THEN [target[x] EXCEPT !.parent = Nil]
            ELSE target[x]]
      /\ entry' = [e \in Entry |-> IF e \in EntriesIn(entry, t) THEN Gone ELSE entry[e]]
      /\ request' = [request EXCEPT ![r] = Idle]
      /\ UNCHANGED <<calls, load, cron>>
  BY <1>1 DEF RemoveCommit, End, Await
<1>3. \A x \in Target \ {t} : Exists(x) =>
        /\ target'[x] \in TargetRow /\ target'[x].type = target[x].type
        /\ target'[x].parent = IF target[x].parent = t THEN Nil ELSE target[x].parent
  BY <1>2 DEF IInv, TypeOK, Exists, ChildrenIn, TargetRow
<1>4. \A x \in Target \ {t} : ~Exists(x) => target'[x] = target[x]
  BY <1>2 DEF Exists, ChildrenIn
<1>5. target'[t] = Gone /\ ~Exists(t)'
  BY <1>1, <1>2, RowsAreRows DEF Exists
<1>6. target' \in [Target -> TargetRow \cup NoRow]
  <2>1. \A x \in Target : target'[x] \in TargetRow \cup NoRow
    BY <1>3, <1>4, <1>5, RowsAreRows DEF IInv, TypeOK, Exists
  <2>2. QED BY <1>2, <2>1
<1>7. \A x \in Target : Exists(x)' <=> x # t /\ Exists(x)
  BY <1>3, <1>4, <1>5, RowsAreRows DEF Exists
<1>8. TypeOK'
  <2>1. \A x \in Target : Exists(x)' /\ target'[x].parent # Nil => Exists(target[x].parent)'
    <3>1. SUFFICES ASSUME NEW x \in Target, Exists(x)', target'[x].parent # Nil
          PROVE  Exists(target[x].parent)'
      OBVIOUS
    <3>2. x # t /\ Exists(x) /\ target'[x].parent = target[x].parent /\ target[x].parent # t
      BY <1>3, <1>7, <3>1
    <3>3. Exists(target[x].parent) /\ target[x].parent \in Target
      BY <3>1, <3>2 DEF IInv, TypeOK, Exists, TargetRow
    <3>4. QED BY <1>7, <3>2, <3>3 DEF Exists
  <2>2. entry' \in [Entry -> EntryRow \cup NoRow]
    BY <1>2, RowsAreRows DEF IInv, TypeOK
  <2>3. \A e \in Entry : entry'[e] \notin NoRow => Exists(entry[e].target)'
    <3>1. SUFFICES ASSUME NEW e \in Entry, entry'[e] \notin NoRow
          PROVE  Exists(entry[e].target)'
      OBVIOUS
    <3>2. entry'[e] = entry[e] /\ entry[e].target # t
      BY <1>2, <3>1, RowsAreRows DEF EntriesIn
    <3>3. QED BY <1>7, <3>1, <3>2 DEF IInv, TypeOK, EntryRow, Exists
  <2>4. request' \in [Request -> InFlight]
    BY <1>2 DEF IInv, TypeOK, InFlight
  <2>5. QED BY <1>2, <1>6, <2>1, <2>2, <2>3, <2>4 DEF IInv, TypeOK
<1>9. ParentsRankHigher'
  <2>1. SUFFICES ASSUME NEW x \in Target, Exists(x)', target'[x].parent # Nil
        PROVE  target'[target'[x].parent].type \in ParentTypes(target'[x].type)
    BY DEF ParentsRankHigher
  <2>2. x # t /\ Exists(x) /\ target'[x].parent = target[x].parent /\ target[x].parent # t
    BY <1>3, <1>7, <2>1
  <2>3. Exists(target[x].parent) /\ target[x].parent \in Target
    BY <2>1, <2>2 DEF IInv, TypeOK, Exists, TargetRow
  <2>4. target[target[x].parent].type \in ParentTypes(target[x].type)
    BY <2>1, <2>2 DEF IInv, ParentsRankHigher
  <2>5. QED BY <1>3, <2>2, <2>3, <2>4
<1>10. TypesStand
  BY <1>1, <1>3, <1>4, <1>5, RowsAreRows DEF TypesStand, Exists
<1>11. ChecksStand'
  BY <1>2, <1>10, ChecksOutliveSteps DEF IInv, Cleared, Idle
<1>12. QED BY <1>8, <1>9, <1>11 DEF IInv

\* A step that writes other columns than type and parent, for whichever rows.
LEMMA SameTree ==
    ASSUME IInv, target' \in [Target -> TargetRow \cup NoRow],
           \A x \in Target :
               /\ ~Exists(x) => target'[x] = target[x]
               /\ Exists(x) => /\ target'[x] \in TargetRow
                               /\ target'[x].type = target[x].type
                               /\ target'[x].parent = target[x].parent
    PROVE  /\ \A x \in Target : Exists(x)' <=> Exists(x)
           /\ \A x \in Target :
                Exists(x)' /\ target'[x].parent # Nil => Exists(target[x].parent)'
           /\ ParentsRankHigher'
           /\ TypesStand
<1>1. \A x \in Target : Exists(x)' <=> Exists(x)
  BY RowsAreRows DEF Exists
<1>2. \A x \in Target : Exists(x)' /\ target'[x].parent # Nil =>
        /\ target'[x].parent \in Target
        /\ Exists(target'[x].parent)
        /\ target[target'[x].parent].type \in ParentTypes(target[x].type)
  BY <1>1 DEF IInv, TypeOK, ParentsRankHigher, Exists, TargetRow
<1>3. ParentsRankHigher'
  BY <1>1, <1>2 DEF ParentsRankHigher
<1>4. TypesStand
  BY RowsAreRows DEF TypesStand, Exists
<1>5. QED BY <1>1, <1>2, <1>3, <1>4 DEF Exists

LEMMA EntryCommitStep ==
    ASSUME IInv, NEW r \in Request, EntryCommit(r)
    PROVE  IInv'
<1> DEFINE q == request[r]
<1>1. /\ q.entry \in Entry /\ q.target \in Target /\ q.amount \in Amount
      /\ q.written \in SUBSET Target /\ q.values \in [Target -> Value]
  BY FlightTypes DEF EntryCommit, IInv
<1>2. /\ \A t \in q.written \cup {q.target} : Exists(t)
      /\ target' = [t \in Target |->
           IF t \in q.written THEN [target[t] EXCEPT !.value = q.values[t]] ELSE target[t]]
      /\ request' = [request EXCEPT ![r] = Idle]
      /\ UNCHANGED <<calls, load, cron>>
  BY DEF EntryCommit, End, Await
<1>3. \A x \in Target :
        /\ ~Exists(x) => target'[x] = target[x]
        /\ Exists(x) => /\ target'[x] \in TargetRow
                        /\ target'[x].type = target[x].type
                        /\ target'[x].parent = target[x].parent
  BY <1>1, <1>2 DEF IInv, TypeOK, Exists, TargetRow
<1>4. target' \in [Target -> TargetRow \cup NoRow]
  BY <1>2, <1>3 DEF IInv, TypeOK, Exists
<1>5. entry' \in [Entry -> EntryRow \cup NoRow]
      /\ \A e \in Entry : entry'[e] \notin NoRow => Exists(entry'[e].target)
  <2>1. CASE entry' = [entry EXCEPT ![q.entry] = [target |-> q.target, amount |-> q.amount]]
    BY <1>1, <1>2, <2>1 DEF IInv, TypeOK, EntryRow, Exists
  <2>2. CASE entry' = [entry EXCEPT ![q.entry] = Gone]
    BY <2>2, RowsAreRows DEF IInv, TypeOK
  <2>3. QED BY <2>1, <2>2 DEF EntryCommit, EntriesAfter
<1>6. TypeOK'
  <2>1. \A e \in Entry : entry'[e] \notin NoRow => Exists(entry[e].target)'
    BY <1>3, <1>4, <1>5, SameTree DEF EntryRow, Exists
  <2>2. request' \in [Request -> InFlight]
    BY <1>2 DEF IInv, TypeOK, InFlight
  <2>3. QED BY <1>2, <1>3, <1>4, <1>5, <2>1, <2>2, SameTree DEF IInv, TypeOK
<1>7. ChecksStand'
  BY <1>2, <1>3, <1>4, SameTree, ChecksOutliveSteps DEF IInv, Cleared, Idle
<1>8. QED BY <1>3, <1>4, <1>6, <1>7, SameTree DEF IInv

\* The crons and the clock write a status or a deadline.
LEMMA OtherColumns ==
    ASSUME IInv, UNCHANGED <<entry, frame>>, cron' \in [Cron -> SUBSET Target],
           target' \in [Target -> TargetRow \cup NoRow],
           \A x \in Target :
               /\ ~Exists(x) => target'[x] = target[x]
               /\ Exists(x) => /\ target'[x] \in TargetRow
                               /\ target'[x].type = target[x].type
                               /\ target'[x].parent = target[x].parent
    PROVE  IInv'
<1>1. TypeOK'
  <2>1. \A e \in Entry : entry'[e] \notin NoRow => Exists(entry[e].target)'
    BY SameTree DEF IInv, TypeOK, EntryRow, Exists
  <2>2. QED BY <2>1, SameTree DEF IInv, TypeOK, frame
<1>2. ChecksStand'
  BY SameTree, ClearedStays DEF ChecksStand, IInv, TypeOK, frame
<1>3. QED BY <1>1, <1>2, SameTree DEF IInv

LEMMA CronSteps ==
    ASSUME IInv, \/ \E k \in Cron : CronStep(k)
                 \/ \E t \in Target : TimePasses(t)
    PROVE  IInv'
<1>1. ASSUME NEW k \in Cron, CronRead(k) PROVE IInv'
  <2>1. Selected(k) \in SUBSET Target
    BY DEF Selected
  <2>2. cron' \in [Cron -> SUBSET Target]
    BY <1>1, <2>1 DEF CronRead, IInv, TypeOK
  <2>3. QED BY <1>1, <2>2, OtherColumns DEF CronRead, tables, IInv, TypeOK, Exists
<1>2. ASSUME NEW k \in Cron, CronWrite(k) PROVE IInv'
  <2>1. \A x \in Target :
          /\ ~Exists(x) => target'[x] = target[x]
          /\ Exists(x) => /\ target'[x] \in TargetRow
                          /\ target'[x].type = target[x].type
                          /\ target'[x].parent = target[x].parent
    BY <1>2 DEF CronWrite, IInv, TypeOK, Exists, TargetRow, TargetStatus, Open
  <2>2. target' \in [Target -> TargetRow \cup NoRow]
    BY <1>2, <2>1 DEF CronWrite, IInv, TypeOK, Exists
  <2>3. UNCHANGED <<entry, frame>> /\ cron' \in [Cron -> SUBSET Target]
    BY <1>2 DEF CronWrite, IInv, TypeOK
  <2>4. QED BY <2>1, <2>2, <2>3, OtherColumns
<1>3. ASSUME NEW k \in Cron, CronFails(k) PROVE IInv'
  <2>1. cron' \in [Cron -> SUBSET Target]
    BY <1>3 DEF CronFails, IInv, TypeOK
  <2>2. QED BY <1>3, <2>1, OtherColumns DEF CronFails, tables, IInv, TypeOK, Exists
<1>4. ASSUME NEW t \in Target, TimePasses(t) PROVE IInv'
  <2>1. \A x \in Target :
          /\ ~Exists(x) => target'[x] = target[x]
          /\ Exists(x) => /\ target'[x] \in TargetRow
                          /\ target'[x].type = target[x].type
                          /\ target'[x].parent = target[x].parent
    BY <1>4 DEF TimePasses, IInv, TypeOK, Exists, TargetRow, Deadline
  <2>2. target' \in [Target -> TargetRow \cup NoRow]
    BY <1>4, <2>1 DEF TimePasses, IInv, TypeOK, Exists
  <2>3. UNCHANGED <<entry, frame>> /\ cron' \in [Cron -> SUBSET Target]
    BY <1>4 DEF TimePasses, IInv, TypeOK
  <2>4. QED BY <2>1, <2>2, <2>3, OtherColumns
<1>5. QED BY <1>1, <1>2, <1>3, <1>4 DEF CronStep

----------------------------------------------------------------------------
(* Every step, and the theorems.                                           *)

LEMMA HandlerSteps ==
    ASSUME IInv, NEW r \in Request, HandlerStep(r)
    PROVE  IInv'
<1>1. ASSUME NEW t \in Target, NEW type \in TargetType, NEW goal \in Goal,
             NEW p \in Target \cup {Nil},
             CreateRead(r, t, [type |-> type, parent |-> p, goal |-> goal, value |-> 0,
                               status |-> "ON_TRACK", deadline |-> "far"])
      PROVE  IInv'
  <2> DEFINE row == [type |-> type, parent |-> p, goal |-> goal, value |-> 0,
                     status |-> "ON_TRACK", deadline |-> "far"]
  <2>1. row \in TargetRow
    BY TargetAssumption DEF TargetAssumption, TargetRow, TargetStatus, Open, Deadline
  <2>2. QED BY <1>1, <2>1, CreateReadStep
<1>2. QED
  BY <1>1, UpdateReadStep, RemoveReadStep, AddEntryReadStep, DeleteEntryReadStep,
     CreateCommitStep, UpdateCommitStep, RemoveCommitStep, EntrySumStep, EntryCommitStep,
     FailStep DEF HandlerStep

LEMMA StepHolds == IInv /\ [Next]_vars => IInv'
<1>1. ASSUME IInv, Next PROVE IInv'
  BY <1>1, HandlerSteps, CronSteps DEF Next
<1>2. ASSUME IInv, UNCHANGED vars PROVE IInv'
  BY <1>2 DEF vars, IInv, TypeOK, ParentsRankHigher, ChecksStand, Exists
<1>3. QED BY <1>1, <1>2

LEMMA Invariance == Spec => []IInv
<1>1. QED BY InitHolds, StepHolds, PTL DEF Spec

\* Every row, read and foreign key has the type it should have, whatever the
\* handlers and crons interleave.
THEOREM TypeCorrect == Spec => []TypeOK
<1>1. IInv => TypeOK
  BY DEF IInv
<1>2. QED BY <1>1, Invariance, PTL

\* However many creations, moves and deletions overlap, each with a check made
\* before an await, the alignment stays a forest of at most three levels.
THEOREM ParentsAlwaysRankHigher == Spec => []ParentsRankHigher
<1>1. IInv => ParentsRankHigher
  BY DEF IInv
<1>2. QED BY <1>1, Invariance, PTL
----------------------------------------------------------------------------
(* Deletions, when handlers do not overlap.                                *)

Childless(q) == q.op = "remove" => ChildrenIn(target, q.target) = {}

\* A handler runs only in a slot that clients use; what a removal has counted
\* still holds when it deletes.
RemovalsStand ==
    /\ \A r \in Request : request[r] # Idle => load.ops[r] # {}
    /\ OneAtATime => \A r \in Request : Childless(request[r])

\* No step but the end of a removal takes a parent away.
KeepsParents ==
    \A t \in Target :
        Exists(t) /\ target'[t] \notin NoRow /\ target[t].parent # Nil /\ target'[t].parent = Nil =>
            target'[target[t].parent] \notin NoRow

LEMMA SameRequests ==
    ASSUME RemovalsStand, UNCHANGED frame,
           \A x \in Target :
               /\ target[x] \in NoRow => target'[x] = target[x]
               /\ target[x] \notin NoRow =>
                     target'[x] \notin NoRow /\ target'[x].parent = target[x].parent
    PROVE  RemovalsStand' /\ KeepsParents
<1>1. \A p : ChildrenIn(target, p)' = ChildrenIn(target, p)
  BY DEF ChildrenIn
<1>2. UNCHANGED <<request, load>> /\ OneAtATime' = OneAtATime
  BY DEF frame, OneAtATime
<1>3. RemovalsStand'
  BY <1>1, <1>2 DEF RemovalsStand, Childless
<1>4. QED BY <1>3 DEF KeepsParents

\* A handler that begins writes nothing.
LEMMA SlotBegins ==
    ASSUME IInv, RemovalsStand, NEW r \in Request, NEW q, Childless(q), load.ops[r] # {},
           request' = [request EXCEPT ![r] = q], UNCHANGED <<target, load>>
    PROVE  RemovalsStand' /\ KeepsParents
<1>1. OneAtATime' = OneAtATime /\ UNCHANGED target
  BY DEF OneAtATime
<1>2. \A s \in Request : request'[s] = IF s = r THEN q ELSE request[s]
  BY DEF IInv, TypeOK
<1>3. \A p : ChildrenIn(target, p)' = ChildrenIn(target, p)
  BY DEF ChildrenIn
<1>4. RemovalsStand'
  <2>1. \A s \in Request : request'[s] # Idle => load'.ops[s] # {}
    BY <1>2 DEF RemovalsStand
  <2>2. ASSUME OneAtATime', NEW s \in Request PROVE Childless(request[s])'
    BY <1>1, <1>2, <1>3, <2>2 DEF RemovalsStand, Childless
  <2>3. QED BY <2>1, <2>2 DEF RemovalsStand
<1>5. QED BY <1>4 DEF KeepsParents

\* A handler that goes on is the only one, and is no removal any more.
LEMMA SlotGoesOn ==
    ASSUME IInv, RemovalsStand, NEW r \in Request, request[r] # Idle, NEW q, q.op # "remove",
           request' = [request EXCEPT ![r] = q], UNCHANGED load
    PROVE  RemovalsStand'
<1>1. OneAtATime' = OneAtATime
  BY DEF OneAtATime
<1>2. \A s \in Request : request'[s] = IF s = r THEN q ELSE request[s]
  BY DEF IInv, TypeOK
<1>3. load.ops[r] # {}
  BY DEF RemovalsStand
<1>4. \A s \in Request : request'[s] # Idle => load'.ops[s] # {}
  BY <1>2, <1>3 DEF RemovalsStand
<1>5. ASSUME OneAtATime, NEW s \in Request PROVE Childless(request[s])'
  <2>1. CASE s = r
    BY <1>2, <2>1 DEF Childless
  <2>2. CASE s # r
    <3>1. request'[s] = Idle
      BY <1>2, <1>3, <1>5, <2>2 DEF OneAtATime, RemovalsStand
    <3>2. QED BY <3>1 DEF Childless, Idle
  <2>3. QED BY <2>1, <2>2
<1>6. QED BY <1>1, <1>4, <1>5 DEF RemovalsStand

LEMMA HandlersKeepParents ==
    ASSUME IInv, RemovalsStand, NEW r \in Request, HandlerStep(r)
    PROVE  RemovalsStand' /\ (OneAtATime => KeepsParents)
<1>1. Idle.op = "idle"
  BY DEF Idle
<1>2. ASSUME NEW t \in Target, NEW row, CreateRead(r, t, row)
      PROVE  RemovalsStand' /\ KeepsParents
  BY <1>2, SlotBegins DEF CreateRead, Begin, tables, Childless
<1>3. ASSUME NEW t \in Target, NEW ch \in Change, UpdateRead(r, t, ch)
      PROVE  RemovalsStand' /\ KeepsParents
  BY <1>3, SlotBegins DEF UpdateRead, Begin, tables, Childless
<1>4. ASSUME NEW t \in Target, RemoveRead(r, t)
      PROVE  RemovalsStand' /\ KeepsParents
  BY <1>4, SlotBegins DEF RemoveRead, Begin, tables, Childless
<1>5. ASSUME NEW e \in Entry, NEW t \in Target, NEW x \in Amount, AddEntryRead(r, e, t, x)
      PROVE  RemovalsStand' /\ KeepsParents
  BY <1>5, SlotBegins DEF AddEntryRead, Begin, tables, Childless
<1>6. ASSUME NEW e \in Entry, DeleteEntryRead(r, e)
      PROVE  RemovalsStand' /\ KeepsParents
  BY <1>6, SlotBegins DEF DeleteEntryRead, Begin, tables, Childless
<1>7. CASE CreateCommit(r)
  <2>1. RemovalsStand'
    BY <1>1, <1>7, SlotGoesOn DEF CreateCommit, End, Await
  <2>2. \A x \in Target : Exists(x) => target'[x] = target[x]
    BY <1>7 DEF CreateCommit, Exists, IInv, TypeOK, NoRow
  <2>3. QED BY <2>1, <2>2 DEF KeepsParents
<1>8. CASE UpdateCommit(r)
  <2>1. RemovalsStand'
    BY <1>1, <1>8, SlotGoesOn DEF UpdateCommit, End, Await
  <2>2. \A x \in Target : Exists(x) => target'[x] \notin NoRow
    <3>1. /\ request[r].target \in Target /\ request[r].change \in Changes
          /\ target[request[r].target] \in TargetRow
      BY <1>8, FlightTypes DEF UpdateCommit, IInv, TypeOK, Exists
    <3>2. target'[request[r].target] = Changed(target[request[r].target], request[r].change)
      BY <1>8, <3>1 DEF UpdateCommit, IInv, TypeOK
    <3>3. target'[request[r].target] \notin NoRow
      BY <3>1, <3>2, ChangedIsRow, RowsAreRows
    <3>4. \A x \in Target : x # request[r].target => target'[x] = target[x]
      BY <1>8, <3>1 DEF UpdateCommit, IInv, TypeOK
    <3>5. QED BY <3>3, <3>4 DEF Exists
  <2>3. \A x \in Target : Exists(x) /\ target[x].parent # Nil =>
            target[x].parent \in Target /\ Exists(target[x].parent)
    BY DEF IInv, TypeOK, TargetRow, Exists
  <2>4. QED BY <2>2, <2>3, <2>1 DEF KeepsParents
<1>9. CASE RemoveCommit(r)
  <2>1. RemovalsStand'
    BY <1>1, <1>9, SlotGoesOn DEF RemoveCommit, End, Await
  <2>2. ASSUME OneAtATime PROVE KeepsParents
    <3>1. ChildrenIn(target, request[r].target) = {}
      BY <1>9, <2>2 DEF RemoveCommit, RemovalsStand, Childless
    <3>2. \A x \in Target : target'[x] = IF x = request[r].target THEN Gone ELSE target[x]
      BY <1>9, <3>1 DEF RemoveCommit
    <3>3. QED BY <3>2 DEF KeepsParents, NoRow
  <2>3. QED BY <2>1, <2>2
<1>10. CASE EntrySum(r)
  <2>1. PICK q : q.op # "remove" /\ request' = [request EXCEPT ![r] = q]
    BY <1>10 DEF EntrySum, Await
  <2>2. RemovalsStand'
    BY <1>1, <1>10, <2>1, SlotGoesOn DEF EntrySum, Await
  <2>3. QED BY <1>10, <2>2 DEF EntrySum, tables, KeepsParents
<1>11. CASE EntryCommit(r)
  <2>1. RemovalsStand'
    BY <1>1, <1>11, SlotGoesOn DEF EntryCommit, End, Await
  <2>2. \A x \in Target : Exists(x) => target'[x] = target[x] \/ target'[x].parent = target[x].parent
    BY <1>11 DEF EntryCommit, Exists, IInv, TypeOK, TargetRow
  <2>3. QED BY <2>1, <2>2 DEF KeepsParents
<1>12. CASE Fail(r)
  BY <1>1, <1>12, SlotGoesOn DEF Fail, End, Await, tables, KeepsParents
<1>13. QED
  BY <1>2, <1>3, <1>4, <1>5, <1>6, <1>7, <1>8, <1>9, <1>10, <1>11, <1>12 DEF HandlerStep

LEMMA StepsKeepParents ==
    ASSUME IInv, RemovalsStand, [Next]_vars
    PROVE  RemovalsStand' /\ (OneAtATime => KeepsParents)
<1>1. ASSUME NEW k \in Cron, CronStep(k) PROVE RemovalsStand' /\ KeepsParents
  <2>1. \A x \in Target :
          /\ target[x] \in NoRow => target'[x] = target[x]
          /\ target[x] \notin NoRow => target'[x] \notin NoRow /\ target'[x].parent = target[x].parent
    <3>1. CASE CronWrite(k)
      <4>1. \A x \in Target : target[x] \notin NoRow =>
              target'[x] \in TargetRow /\ target'[x].parent = target[x].parent
        BY <3>1 DEF CronWrite, Exists, IInv, TypeOK, TargetRow, TargetStatus, Open
      <4>2. \A x \in Target : target[x] \in NoRow => target'[x] = target[x]
        BY <3>1 DEF CronWrite, Exists
      <4>3. QED BY <4>1, <4>2, RowsAreRows
    <3>2. QED BY <1>1, <3>1 DEF CronStep, CronRead, CronFails, tables
  <2>2. UNCHANGED frame
    BY <1>1 DEF CronStep, CronRead, CronWrite, CronFails
  <2>3. QED BY <2>1, <2>2, SameRequests
<1>2. ASSUME NEW t \in Target, TimePasses(t) PROVE RemovalsStand' /\ KeepsParents
  <2>1. \A x \in Target : target[x] \notin NoRow =>
          target'[x] \in TargetRow /\ target'[x].parent = target[x].parent
    BY <1>2 DEF TimePasses, Exists, IInv, TypeOK, TargetRow, Deadline
  <2>2. \A x \in Target : target[x] \in NoRow => target'[x] = target[x]
    BY <1>2 DEF TimePasses, Exists, IInv, TypeOK
  <2>3. QED BY <1>2, <2>1, <2>2, RowsAreRows, SameRequests DEF TimePasses
<1>3. CASE UNCHANGED vars
  BY <1>3, SameRequests DEF vars, frame
<1>4. QED BY <1>1, <1>2, <1>3, HandlersKeepParents DEF Next

\* When handlers do not overlap, a target loses its parent only by an update
\* that asks for it: the count of children that remove makes before an await is
\* still true when it deletes, whatever the crons do in between.
THEOREM DeletionsOrphanNobody == Spec => DeletionOrphansNobody
<1>1. Init => RemovalsStand
  BY DEF Init, StoreInit, RequestsInit, RemovalsStand, Childless, Idle
<1>2. IInv /\ RemovalsStand /\ [Next]_vars => RemovalsStand'
  BY StepsKeepParents
<1>3. IInv /\ RemovalsStand /\ [Next]_vars =>
        [OneAtATime =>
            \A t \in Target :
                /\ Exists(t) /\ target'[t] \notin NoRow
                /\ target[t].parent # Nil /\ target'[t].parent = Nil
                => target'[target[t].parent] \notin NoRow]_vars
  BY StepsKeepParents DEF KeepsParents
<1>4. QED BY <1>1, <1>2, <1>3, Invariance, PTL DEF Spec, DeletionOrphansNobody

----------------------------------------------------------------------------
(* Sums and averages, when handlers do not overlap: what a transaction     *)
(* computed is what its commit makes true, whatever the crons write in     *)
(* between.                                                                *)

\* The rows as the commit of q leaves them.
Committed(table, q) ==
    [t \in Target |-> IF t \in q.written THEN [table[t] EXCEPT !.value = q.values[t]] ELSE table[t]]

\* p and its parent stand at the average progress of their children.
RolledUpFrom(table, p) ==
    p # Nil =>
        /\ table[p].value \in RolledUpValues(table, p)
        /\ LET g == table[p].parent IN g # Nil => table[g].value \in RolledUpValues(table, g)

\* What a handler in flight knows of the tables.
Counted(table, rows, q) ==
    /\ q.op = "create" => q.row.value = 0
    /\ q.op \in {"addEntry", "deleteEntry"} => q.parent = table[q.target].parent
    /\ q.op \in {"deleteEntry", "deleteCommit"} =>
          rows[q.entry] \in NoRow \/ rows[q.entry].target = q.target
    /\ q.op \in {"addCommit", "deleteCommit"} =>
          /\ q.target \in q.written
          /\ q.values[q.target] = TotalIn(EntriesAfter(rows, q), q.target)
          /\ \A t \in q.written \ {q.target} : table[t].type # "INDIVIDUAL"
          /\ RolledUpFrom(Committed(table, q), table[q.target].parent)
          /\ \A t \in q.written : table[t] \notin NoRow

SumsInv ==
    /\ ValueIsSum
    /\ OneAtATime => \A r \in Request : Counted(target, entry, request[r])

\* A target without entries stands at 0: the fold over no element is its base.
LEMMA NothingSumsToZero ==
    ASSUME NEW f, DOMAIN f = {} PROVE SumFunction(f) = 0
<1> DEFINE step(g) == [s \in SUBSET {} |-> IF s = {} THEN 0
                                           ELSE f[CHOOSE x \in s : TRUE] + g[s \ {CHOOSE x \in s : TRUE}]]
           none == [s \in SUBSET {} |-> 0]
<1>1. none = step(none)
  OBVIOUS
<1>2. (CHOOSE g : g = step(g)) = step(CHOOSE g : g = step(g))
  BY <1>1
<1>3. (CHOOSE g : g = step(g))[{}] = 0
  BY <1>2
<1>4. SumFunction(f) = (CHOOSE g : g = step(g))[{}]
  BY DEF SumFunction, SumFunctionOnSet, FoldFunctionOnSet, MapThenFoldSet
<1>5. QED BY <1>3, <1>4

\* The total of a target depends on its own entries only.
LEMMA SameTotal ==
    ASSUME NEW A, NEW B, NEW t,
           \A e \in Entry : /\ e \in EntriesIn(A, t) <=> e \in EntriesIn(B, t)
                            /\ e \in EntriesIn(A, t) => A[e].amount = B[e].amount
    PROVE  TotalIn(A, t) = TotalIn(B, t)
<1>1. EntriesIn(A, t) = EntriesIn(B, t)
  BY DEF EntriesIn
<1>2. [e \in EntriesIn(A, t) |-> A[e].amount] = [e \in EntriesIn(B, t) |-> B[e].amount]
  BY <1>1 DEF EntriesIn
<1>3. QED BY <1>2 DEF TotalIn

\* Two rows, and two tables, that are the same as far as roll-ups look at them.
SameAs(old, new) ==
    /\ old \in NoRow <=> new \in NoRow
    /\ old \notin NoRow =>
          old.parent = new.parent /\ old.goal = new.goal /\ old.value = new.value

Agree(A, B) == \A x \in Target : SameAs(A[x], B[x])

\* One row, as far as the average of p looks at it.
SameFor(p, old, new) ==
    /\ old \in NoRow <=> new \in NoRow
    /\ old \notin NoRow =>
          /\ old.parent = new.parent /\ old.goal = new.goal
          /\ old.parent = p => old.value = new.value

\* The average of p depends on p's goal and on the goals and values of its children.
LEMMA SameAverage ==
    ASSUME NEW A, NEW B, NEW p \in Target,
           \A x \in Target : SameFor(p, A[x], B[x])
    PROVE  RolledUpValues(A, p) = RolledUpValues(B, p)
<1>1. ChildrenIn(A, p) = ChildrenIn(B, p)
  BY DEF ChildrenIn, SameFor
<1>2. \A c \in ChildrenIn(A, p) : Progress(A[c]) = Progress(B[c])
  BY DEF ChildrenIn, Progress, SameFor
<1>3. [c \in ChildrenIn(A, p) |-> Progress(A[c])] = [c \in ChildrenIn(B, p) |-> Progress(B[c])]
  BY <1>1, <1>2
<1>4. CASE A[p] \in NoRow
  BY <1>4 DEF RolledUpValues, SameFor
<1>6. A[p] \notin NoRow => B[p] \notin NoRow /\ A[p].goal = B[p].goal
  BY DEF SameFor
<1>5. CASE A[p] \notin NoRow
  BY <1>1, <1>3, <1>5, <1>6, Zenon DEF RolledUpValues
<1>7. QED BY <1>4, <1>5

LEMMA RollUpsAgree ==
    ASSUME NEW A, NEW B, Agree(A, B), NEW p \in Target \cup {Nil}, RolledUpFrom(A, p),
           \A x \in Target : A[x] \notin NoRow => A[x].parent \in Target \cup {Nil}
    PROVE  RolledUpFrom(B, p)
<1>1. SUFFICES ASSUME p # Nil PROVE RolledUpFrom(B, p)
  BY DEF RolledUpFrom
<1>2. \A x \in Target : RolledUpValues(A, x) = RolledUpValues(B, x)
  BY SameAverage DEF Agree, SameAs, SameFor
<1>3. \A x \in Target : A[x].value \in RolledUpValues(A, x) => A[x] \notin NoRow
  BY DEF RolledUpValues
<1>4. A[p].value \in RolledUpValues(A, p) /\ p \in Target
  BY <1>1 DEF RolledUpFrom
<1>5. A[p] \notin NoRow /\ A[p].parent \in Target \cup {Nil}
  BY <1>3, <1>4
<1>6. B[p].value \in RolledUpValues(B, p) /\ B[p].parent = A[p].parent
  BY <1>2, <1>4, <1>5 DEF Agree, SameAs
<1>7. ASSUME A[p].parent # Nil PROVE B[A[p].parent].value \in RolledUpValues(B, A[p].parent)
  <2>1. A[p].parent \in Target /\ A[A[p].parent].value \in RolledUpValues(A, A[p].parent)
    BY <1>1, <1>5, <1>7 DEF RolledUpFrom
  <2>2. A[A[p].parent] \notin NoRow
    BY <1>3, <2>1
  <2>3. QED BY <1>2, <2>1, <2>2 DEF Agree, SameAs
<1>8. QED BY <1>6, <1>7 DEF RolledUpFrom

----------------------------------------------------------------------------

LEMMA NewValue ==
    ASSUME NEW row \in TargetRow, NEW v \in Value, NEW new, new = [row EXCEPT !.value = v]
    PROVE  /\ new \in TargetRow /\ new \notin NoRow /\ new.value = v
           /\ new.type = row.type /\ new.parent = row.parent /\ new.goal = row.goal
<1>1. new \in TargetRow
  BY DEF TargetRow
<1>2. QED BY <1>1, RowsAreRows DEF TargetRow

\* The crons and the clock write no column that counts.
LEMMA CountsOutliveCrons ==
    ASSUME IInv, SumsInv, UNCHANGED <<entry, frame>>,
           \A x \in Target :
               /\ target[x] \in NoRow => target'[x] = target[x]
               /\ target[x] \notin NoRow =>
                     /\ target[x] \in TargetRow /\ target'[x] \in TargetRow
                     /\ target'[x].type = target[x].type /\ target'[x].parent = target[x].parent
                     /\ target'[x].goal = target[x].goal /\ target'[x].value = target[x].value
    PROVE  SumsInv'
<1>1. \A x \in Target : target[x] \notin NoRow =>
        /\ target'[x] \notin NoRow
        /\ target'[x].type = target[x].type /\ target'[x].parent = target[x].parent
        /\ target'[x].goal = target[x].goal /\ target'[x].value = target[x].value
  BY RowsAreRows
<1>2. OneAtATime' = OneAtATime /\ UNCHANGED <<entry, request>>
  BY DEF frame, OneAtATime
<1>3. ValueIsSum'
  <2>1. \A t : TotalIn(entry, t)' = TotalIn(entry, t)
    BY <1>2
  <2>2. QED BY <1>1, <1>2, <2>1 DEF SumsInv, ValueIsSum, Exists
<1>4. ASSUME OneAtATime, NEW r \in Request PROVE Counted(target', entry, request[r])
  <2> DEFINE q == request[r]
             A == Committed(target, q)
             B == Committed(target', q)
  <2>1. Counted(target, entry, q)
    BY <1>4 DEF SumsInv
  <2>2. ASSUME q.op \in {"addEntry", "deleteEntry"} PROVE q.parent = target'[q.target].parent
    <3>1. q.target \in Target
      BY <2>2, FlightTypes DEF IInv
    <3>2. QED BY <1>1, <2>1, <2>2, <3>1 DEF Counted
  <2>3. ASSUME q.op \in {"addCommit", "deleteCommit"}
        PROVE  /\ \A t \in q.written \ {q.target} : target'[t].type # "INDIVIDUAL"
               /\ RolledUpFrom(B, target'[q.target].parent)
               /\ \A t \in q.written : target'[t] \notin NoRow
    <3>1. /\ q.target \in Target /\ q.written \in SUBSET Target /\ q.values \in [Target -> Value]
          /\ q.target \in q.written /\ \A t \in q.written : target[t] \notin NoRow
      BY <2>1, <2>3, FlightTypes DEF IInv, Counted
    <3>2. \A t \in q.written : target[t] \in TargetRow /\ target'[t] \in TargetRow
      BY <3>1
    <3>3. \A t \in q.written : /\ A[t] = [target[t] EXCEPT !.value = q.values[t]]
                               /\ B[t] = [target'[t] EXCEPT !.value = q.values[t]]
                               /\ q.values[t] \in Value
      BY <3>1 DEF Committed
    <3>4. \A t \in q.written :
            /\ A[t] \in TargetRow /\ A[t] \notin NoRow /\ B[t] \in TargetRow /\ B[t] \notin NoRow
            /\ A[t].parent = target[t].parent /\ A[t].goal = target[t].goal
            /\ B[t].parent = target'[t].parent /\ B[t].goal = target'[t].goal
            /\ A[t].value = q.values[t] /\ B[t].value = q.values[t]
      <4> HIDE DEF A, B, q
      <4>1. ASSUME NEW t \in q.written
            PROVE  /\ A[t] \in TargetRow /\ A[t] \notin NoRow /\ A[t].value = q.values[t]
                   /\ A[t].parent = target[t].parent /\ A[t].goal = target[t].goal
        <5>1. target[t] \in TargetRow /\ q.values[t] \in Value
              /\ A[t] = [target[t] EXCEPT !.value = q.values[t]]
          BY <3>2, <3>3
        <5>2. QED BY <5>1, NewValue
      <4>2. ASSUME NEW t \in q.written
            PROVE  /\ B[t] \in TargetRow /\ B[t] \notin NoRow /\ B[t].value = q.values[t]
                   /\ B[t].parent = target'[t].parent /\ B[t].goal = target'[t].goal
        <5>1. target'[t] \in TargetRow /\ q.values[t] \in Value
              /\ B[t] = [target'[t] EXCEPT !.value = q.values[t]]
          BY <3>2, <3>3
        <5>2. QED BY <5>1, NewValue
      <4>3. QED BY <4>1, <4>2
    <3>5. \A t \in Target \ q.written : A[t] = target[t] /\ B[t] = target'[t]
      BY DEF Committed
    <3> HIDE DEF A, B, q
    <3>6. Agree(A, B)
      BY <1>1, <3>1, <3>4, <3>5 DEF Agree, SameAs
    <3>7. \A t \in Target : A[t] \notin NoRow => A[t].parent \in Target \cup {Nil}
      BY <3>4, <3>5 DEF IInv, TypeOK, TargetRow
    <3>8. target'[q.target].parent = target[q.target].parent
          /\ target[q.target].parent \in Target \cup {Nil}
      BY <1>1, <3>1, <3>2 DEF TargetRow
    <3>9. RolledUpFrom(A, target[q.target].parent)
      BY <2>1, <2>3 DEF Counted, A, q
    <3>10. RolledUpFrom(B, target'[q.target].parent)
      BY <3>6, <3>7, <3>8, <3>9, RollUpsAgree
    <3>11. \A t \in q.written \ {q.target} : target'[t].type # "INDIVIDUAL"
      BY <1>1, <2>1, <2>3, <3>1 DEF Counted
    <3>12. QED BY <1>1, <3>1, <3>10, <3>11
  <2> HIDE DEF q
  <2>4. QED BY <2>1, <2>2, <2>3 DEF Counted, q
<1>5. QED BY <1>2, <1>3, <1>4 DEF SumsInv

\* A handler that moves is the only one in flight.
LEMMA OnlyOneCounts ==
    ASSUME IInv, RemovalsStand, NEW r \in Request, load.ops[r] # {}, NEW q,
           request' = [request EXCEPT ![r] = q], UNCHANGED load,
           OneAtATime => Counted(target', entry', q), ValueIsSum'
    PROVE  SumsInv'
<1>1. OneAtATime' = OneAtATime
  BY DEF OneAtATime
<1>2. ASSUME OneAtATime, NEW s \in Request PROVE Counted(target', entry', request'[s])
  <2>1. CASE s = r
    BY <1>2, <2>1 DEF IInv, TypeOK
  <2>2. CASE s # r
    <3>1. request'[s] = Idle
      BY <1>2, <2>2 DEF OneAtATime, RemovalsStand, IInv, TypeOK
    <3>2. QED BY <3>1 DEF Counted, Idle
  <2>3. QED BY <2>1, <2>2
<1>3. QED BY <1>1, <1>2 DEF SumsInv

LEMMA SameTables ==
    ASSUME ValueIsSum, UNCHANGED <<target, entry, load>> PROVE ValueIsSum'
BY DEF ValueIsSum, OneAtATime, Exists

\* A call that begins.
LEMMA BeginCounts ==
    ASSUME IInv, RemovalsStand, SumsInv, NEW r \in Request, NEW op, NEW q, Begin(r, op, q),
           UNCHANGED <<tables, cron>>, Counted(target, entry, q)
    PROVE  SumsInv'
<1>1. /\ load.ops[r] # {} /\ request' = [request EXCEPT ![r] = q] /\ UNCHANGED <<target, entry, load>>
  BY DEF Begin, tables
<1>2. Counted(target', entry', q)
  BY <1>1
<1>3. ValueIsSum'
  BY <1>1, SameTables DEF SumsInv
<1>4. QED BY <1>1, <1>2, <1>3, OnlyOneCounts

\* A handler that is over, once its write has kept the sums.
LEMMA EndCounts ==
    ASSUME IInv, RemovalsStand, NEW r \in Request, request[r] # Idle, End(r), ValueIsSum'
    PROVE  SumsInv'
<1>1. load.ops[r] # {} /\ request' = [request EXCEPT ![r] = Idle] /\ UNCHANGED load
  BY DEF RemovalsStand, End, Await
<1>2. Counted(target', entry', Idle)
  BY DEF Counted, Idle
<1>3. QED BY <1>1, <1>2, OnlyOneCounts

LEMMA CreateCommitSums ==
    ASSUME IInv, SumsInv, NEW r \in Request, CreateCommit(r), OneAtATime => Counted(target, entry, request[r])
    PROVE  ValueIsSum'
<1> DEFINE q == request[r]
<1>1. q.op = "create" /\ q.target \in Target /\ q.row \in TargetRow
  BY FlightTypes DEF CreateCommit, IInv
<1>2. /\ target[q.target] = Nil /\ target' = [target EXCEPT ![q.target] = q.row]
      /\ UNCHANGED <<entry, load>>
  BY DEF CreateCommit, End, Await
<1>3. OneAtATime' = OneAtATime
  BY <1>2 DEF OneAtATime
<1>4. ASSUME OneAtATime, NEW t \in Target, Exists(t)', target'[t].type = "INDIVIDUAL"
      PROVE  target'[t].value = TotalIn(entry, t)
  <2>1. CASE t = q.target
    <3>1. target'[t].value = 0
      BY <1>1, <1>2, <1>4, <2>1 DEF Counted, IInv, TypeOK
    <3>2. EntriesIn(entry, t) = {}
      BY <1>2, <2>1, RowsAreRows DEF EntriesIn, IInv, TypeOK, Exists
    <3>3. DOMAIN [e \in EntriesIn(entry, t) |-> entry[e].amount] = {}
      BY <3>2
    <3>4. TotalIn(entry, t) = 0
      BY <3>3, NothingSumsToZero DEF TotalIn
    <3>5. QED BY <3>1, <3>4
  <2>2. CASE t # q.target
    <3>1. target'[t] = target[t]
      BY <1>1, <1>2, <2>2 DEF IInv, TypeOK
    <3>2. QED BY <1>4, <3>1 DEF SumsInv, ValueIsSum, Exists
  <2>3. QED BY <2>1, <2>2
<1>5. QED BY <1>2, <1>3, <1>4 DEF ValueIsSum

LEMMA UpdateCommitSums ==
    ASSUME IInv, SumsInv, NEW r \in Request, UpdateCommit(r)
    PROVE  ValueIsSum'
<1> DEFINE q == request[r]
           row == Changed(target[q.target], q.change)
<1>1. /\ q.target \in Target /\ q.change \in Changes /\ target[q.target] \in TargetRow
      /\ Exists(q.target)
      /\ target' = [target EXCEPT ![q.target] = row] /\ UNCHANGED <<entry, load>>
  BY FlightTypes DEF UpdateCommit, End, Await, IInv, TypeOK, Exists
<1>2. row.type = target[q.target].type /\ row.value = target[q.target].value
  BY <1>1, ChangedIsRow DEF Changed, TargetRow
<1>3. OneAtATime' = OneAtATime
  BY <1>1 DEF OneAtATime
<1> HIDE DEF row
<1>4. \A t \in Target : /\ target'[t] \notin NoRow => target[t] \notin NoRow
                        /\ target'[t].type = target[t].type /\ target'[t].value = target[t].value
  BY <1>1, <1>2 DEF IInv, TypeOK, Exists
<1>5. QED BY <1>1, <1>3, <1>4 DEF SumsInv, ValueIsSum, Exists

LEMMA RemoveCommitSums ==
    ASSUME IInv, SumsInv, NEW r \in Request, RemoveCommit(r)
    PROVE  ValueIsSum'
<1>1. PICK t \in Target : t = request[r].target /\ Exists(t)
  BY FlightTypes DEF RemoveCommit, IInv
<1>2. /\ target' = [x \in Target |->
            IF x = t THEN Gone
            ELSE IF x \in ChildrenIn(target, t) THEN [target[x] EXCEPT !.parent = Nil]
            ELSE target[x]]
      /\ entry' = [e \in Entry |-> IF e \in EntriesIn(entry, t) THEN Gone ELSE entry[e]]
      /\ UNCHANGED load
  BY <1>1 DEF RemoveCommit, End, Await
<1>3. OneAtATime' = OneAtATime
  BY <1>2 DEF OneAtATime
<1>4. ASSUME OneAtATime, NEW x \in Target, Exists(x)', target'[x].type = "INDIVIDUAL"
      PROVE  target'[x].value = TotalIn(entry', x)
  <2>1. x # t
    BY <1>2, <1>4, RowsAreRows DEF Exists
  <2>2. Exists(x)
    BY <1>2, <1>4, <2>1 DEF ChildrenIn, Exists
  <2>3. target'[x].type = target[x].type /\ target'[x].value = target[x].value
    BY <1>2, <2>1, <2>2 DEF IInv, TypeOK, Exists, TargetRow
  <2>4. \A e \in Entry : /\ e \in EntriesIn(entry, x) <=> e \in EntriesIn(entry', x)
                         /\ e \in EntriesIn(entry, x) => entry[e].amount = entry'[e].amount
    BY <1>2, <2>1, RowsAreRows DEF EntriesIn
  <2>5. TotalIn(entry, x) = TotalIn(entry', x)
    BY <2>4, SameTotal
  <2>6. QED BY <1>4, <2>2, <2>3, <2>5 DEF SumsInv, ValueIsSum
<1>5. QED BY <1>3, <1>4 DEF ValueIsSum

\* The commit of an entry, and what it brings to the top.
LEMMA EntryCommitSums ==
    ASSUME IInv, SumsInv, NEW r \in Request, EntryCommit(r), OneAtATime => Counted(target, entry, request[r])
    PROVE  ValueIsSum'
<1> DEFINE q == request[r]
<1>1. /\ q.op \in {"addCommit", "deleteCommit"}
      /\ q.entry \in Entry /\ q.target \in Target /\ q.amount \in Amount
      /\ q.written \in SUBSET Target /\ q.values \in [Target -> Value]
  BY FlightTypes DEF EntryCommit, IInv
<1>2. /\ \A t \in q.written \cup {q.target} : Exists(t)
      /\ target' = Committed(target, q)
      /\ entry' = EntriesAfter(entry, q)
      /\ IF q.op = "addCommit" THEN entry[q.entry] = Nil ELSE entry[q.entry] \notin NoRow
      /\ UNCHANGED load
  BY DEF EntryCommit, End, Await, Committed
<1>3. OneAtATime' = OneAtATime
  BY <1>2 DEF OneAtATime
<1>4. ASSUME OneAtATime, NEW t \in Target, Exists(t)', target'[t].type = "INDIVIDUAL"
      PROVE  target'[t].value = TotalIn(entry', t)
  <2>1. Counted(target, entry, q)
    BY <1>4
  <2>2. t \in q.written => /\ target[t] \in TargetRow
                           /\ target'[t] = [target[t] EXCEPT !.value = q.values[t]]
                           /\ q.values[t] \in Value
    BY <1>1, <1>2 DEF Committed, Exists, IInv, TypeOK
  <2> HIDE DEF q
  <2>3. t \in q.written => target'[t].type = target[t].type /\ target'[t].value = q.values[t]
    BY <2>2, NewValue
  <2>4. t \notin q.written => target'[t] = target[t]
    BY <1>2 DEF Committed
  <2>5. CASE t = q.target
    BY <1>1, <1>2, <2>1, <2>3, <2>5 DEF Counted
  <2>6. CASE t # q.target
    <3>1. t \notin q.written
      BY <1>1, <1>4, <2>1, <2>3, <2>6 DEF Counted
    <3>2. target[t].value = TotalIn(entry, t)
      BY <1>4, <2>4, <3>1 DEF SumsInv, ValueIsSum, Exists
    <3>3. \A e \in Entry : e # q.entry => entry'[e] = entry[e]
      BY <1>1, <1>2 DEF EntriesAfter, IInv, TypeOK
    <3>4. q.entry \notin EntriesIn(entry, t) /\ q.entry \notin EntriesIn(entry', t)
      <4>1. CASE q.op = "addCommit"
        <5>1. entry[q.entry] = Nil /\ entry'[q.entry].target = q.target
          BY <1>1, <1>2, <4>1 DEF EntriesAfter, IInv, TypeOK
        <5>2. QED BY <2>6, <5>1, RowsAreRows DEF EntriesIn
      <4>2. CASE q.op = "deleteCommit"
        <5>1. entry[q.entry].target = q.target /\ entry'[q.entry] = Gone
          BY <1>1, <1>2, <2>1, <4>2 DEF EntriesAfter, IInv, TypeOK, Counted
        <5>2. QED BY <2>6, <5>1, RowsAreRows DEF EntriesIn
      <4>3. QED BY <1>1, <4>1, <4>2
    <3>5. TotalIn(entry, t) = TotalIn(entry', t)
      BY <3>3, <3>4, SameTotal DEF EntriesIn
    <3>6. QED BY <2>4, <3>1, <3>2, <3>5
  <2>7. QED BY <2>5, <2>6
<1>5. QED BY <1>3, <1>4 DEF ValueIsSum

----------------------------------------------------------------------------
(* The transaction of an entry.                                            *)

\* Two levels above a target: neither is an individual target, and no row
\* stands above the second.
LEMMA LevelsAbove ==
    ASSUME IInv, NEW t \in Target, Exists(t), NEW p, p = target[t].parent, p # Nil,
           NEW g, g = target[p].parent
    PROVE  /\ p \in Target /\ Exists(p) /\ p # t /\ target[p] \in TargetRow
           /\ target[p].type # "INDIVIDUAL" /\ g # p
           /\ g # Nil => /\ g \in Target /\ Exists(g) /\ g # t /\ target[g] \in TargetRow
                         /\ target[g].type # "INDIVIDUAL" /\ target[g].parent = Nil
<1>1. \A x \in Target : Exists(x) =>
         /\ target[x] \in TargetRow /\ target[x].type \in TargetType
         /\ target[x].parent \in Target \cup {Nil}
  BY DEF IInv, TypeOK, Exists, TargetRow
<1>2. \A x \in Target : Exists(x) /\ target[x].parent # Nil =>
         /\ target[x].parent \in Target /\ Exists(target[x].parent)
         /\ target[target[x].parent].type \in ParentTypes(target[x].type)
  BY <1>1 DEF IInv, TypeOK, ParentsRankHigher
<1>3. /\ ParentTypes("INDIVIDUAL") = {"TEAM", "COMPANY"}
      /\ ParentTypes("TEAM") = {"COMPANY"}
      /\ ParentTypes("COMPANY") = {}
  BY DEF ParentTypes
<1>4. /\ p \in Target /\ Exists(p) /\ target[p] \in TargetRow
      /\ target[p].type \in ParentTypes(target[t].type)
  BY <1>1, <1>2
<1>5. \A x \in Target : Exists(x) /\ target[x].parent # Nil => target[x].parent # x
  BY <1>1, <1>2, <1>3 DEF TargetType
<1>6. target[p].type # "INDIVIDUAL"
  BY <1>1, <1>3, <1>4 DEF TargetType
<1>7. g # p
  BY <1>4, <1>5
<1>8. ASSUME g # Nil
      PROVE  /\ g \in Target /\ Exists(g) /\ g # t /\ target[g] \in TargetRow
             /\ target[g].type # "INDIVIDUAL" /\ target[g].parent = Nil
  <2>1. /\ g \in Target /\ Exists(g) /\ target[g] \in TargetRow
        /\ target[g].type \in ParentTypes(target[p].type)
    BY <1>1, <1>2, <1>4, <1>8
  <2>2. target[g].type = "COMPANY"
    BY <1>1, <1>3, <1>4, <1>6, <2>1 DEF TargetType
  <2>3. target[g].parent = Nil
    BY <1>2, <1>3, <2>1, <2>2
  <2>4. g # t
    BY <2>3
  <2>5. QED BY <2>1, <2>2, <2>3, <2>4
<1>9. p # t
  BY <1>5
<1>10. QED BY <1>4, <1>6, <1>7, <1>8, <1>9

\* Writing a value, of whatever type, to one row of a table.
LEMMA OneValue ==
    ASSUME NEW A, DOMAIN A = Target, NEW x \in Target, A[x] \in TargetRow,
           NEW v, NEW B, B = [A EXCEPT ![x].value = v]
    PROVE  /\ DOMAIN B = Target
           /\ B[x] = [A[x] EXCEPT !.value = v] /\ B[x].value = v
           /\ B[x].parent = A[x].parent
           /\ \A y \in Target : y # x => B[y] = A[y]
BY DEF TargetRow

\* What the transaction computes for t, with a parent p: q's total a in the row
\* of t, and p and its parent at the average of their children.
LEMMA RollUpIsRight ==
    ASSUME IInv, NEW t \in Target, Exists(t), NEW p, p = target[t].parent, p # Nil,
           NEW a, NEW own, own = [target EXCEPT ![t].value = a],
           NEW table \in RolledUp(own, p), ValuesIn(table) \in [Target -> Value]
    PROVE  /\ RolledUpFrom(table, p) /\ table[t].value = a
           /\ \A x \in Target : \/ table[x] = target[x]
                                \/ /\ x \in {t, p, target[p].parent} /\ Exists(x)
                                   /\ table[x] = [target[x] EXCEPT !.value = table[x].value]
                                   /\ table[x].value \in Value
<1> DEFINE g == target[p].parent
<1>1. /\ target \in [Target -> TargetRow \cup NoRow] /\ DOMAIN target = Target
      /\ target[t] \in TargetRow
  BY DEF IInv, TypeOK, Exists
<1>2. /\ p \in Target /\ p # t /\ Exists(p) /\ target[p] \in TargetRow /\ g # p
      /\ g # Nil => /\ g \in Target /\ Exists(g) /\ g # t /\ target[g] \in TargetRow
                    /\ target[g].parent = Nil
  BY LevelsAbove
<1>3. PICK up \in RollUp(own, p) : table \in IF up[p].parent = Nil THEN {up} ELSE RollUp(up, up[p].parent)
  BY Zenon DEF RolledUp
<1>4. PICK v \in RolledUpValues(own, p) : up = [own EXCEPT ![p].value = v]
  BY DEF RollUp
<1>5. /\ DOMAIN own = Target /\ own[t] = [target[t] EXCEPT !.value = a] /\ own[t].value = a
      /\ \A x \in Target : x # t => own[x] = target[x]
  BY <1>1, OneValue
<1>6. own[p] = target[p]
  BY <1>2, <1>5
<1>7. /\ DOMAIN up = Target /\ up[p] = [target[p] EXCEPT !.value = v] /\ up[p].value = v
      /\ up[p].parent = g
      /\ \A x \in Target : x # p => up[x] = own[x]
  BY <1>2, <1>4, <1>5, <1>6, OneValue
<1>8. IF g = Nil THEN table = up ELSE table \in RollUp(up, g)
  BY <1>3, <1>7
<1>9. \A x \in Target : Exists(x) => table[x].value \in Value
  BY DEF ValuesIn
<1>10. /\ target[p] \notin NoRow /\ target[t] \notin NoRow
       /\ g # Nil => target[g] \notin NoRow
  BY <1>1, <1>2 DEF Exists
<1> HIDE DEF g
<1>11. CASE g = Nil
  <2>1. table = up
    BY <1>8, <1>11
  <2>2. table[t] = own[t] /\ table[p].value = v
    BY <1>2, <1>7, <2>1
  <2>3. a \in Value /\ v \in Value
    <3>1. table[t].value = a /\ table[p].value = v
      BY <1>5, <2>2
    <3>2. QED BY <1>2, <1>9, <3>1
  <2>4. /\ table[t] \in TargetRow /\ table[t] \notin NoRow /\ table[t].parent = p
        /\ table[t].goal = target[t].goal /\ table[t].value = a
    BY <1>1, <1>5, <2>2, <2>3, NewValue
  <2>5. /\ table[p] \in TargetRow /\ table[p] \notin NoRow /\ table[p].parent = g
        /\ table[p].goal = target[p].goal /\ table[p].value = v
    <3>1. table[p] = [target[p] EXCEPT !.value = v]
      BY <1>7, <2>1
    <3>2. QED BY <1>2, <2>3, <3>1, NewValue DEF g
  <2>6. \A x \in Target \ {p} : table[x] = own[x]
    BY <1>7, <2>1
  <2>7. RolledUpValues(own, p) = RolledUpValues(table, p)
    <3>1. target[p].parent = g /\ g # p
      BY <1>2 DEF g
    <3>2. own[p].parent = table[p].parent /\ own[p].goal = table[p].goal
          /\ own[p].parent # p /\ own[p] \notin NoRow
      BY <1>6, <1>10, <2>5, <3>1
    <3>3. \A x \in Target : SameFor(p, own[x], table[x])
      BY <2>5, <2>6, <3>2 DEF SameFor
    <3>4. QED BY <1>2, <3>3, SameAverage
  <2>8. RolledUpFrom(table, p)
    BY <1>11, <2>5, <2>7 DEF RolledUpFrom
  <2>9. ASSUME NEW x \in Target
        PROVE \/ table[x] = target[x]
              \/ /\ x \in {t, p, g} /\ Exists(x)
                 /\ table[x] = [target[x] EXCEPT !.value = table[x].value]
                 /\ table[x].value \in Value
    <3>1. CASE x = t
      BY <1>5, <2>2, <2>3, <3>1
    <3>2. CASE x = p
      BY <1>2, <1>7, <2>1, <2>3, <3>2
    <3>3. CASE x # t /\ x # p
      BY <1>5, <2>6, <3>3
    <3>4. QED BY <3>1, <3>2, <3>3
  <2>10. QED BY <2>4, <2>8, <2>9 DEF g
<1>12. CASE g # Nil
  <2>1. PICK w \in RolledUpValues(up, g) : table = [up EXCEPT ![g].value = w]
    BY <1>8, <1>12 DEF RollUp
  <2>2. g \in Target /\ Exists(g) /\ g # t /\ g # p /\ target[g] \in TargetRow /\ target[g].parent = Nil
    BY <1>2, <1>12
  <2>3. up[g] = target[g] /\ own[g] = target[g]
    BY <1>5, <1>7, <2>2
  <2>4. /\ table[g] = [target[g] EXCEPT !.value = w] /\ table[g].value = w
        /\ \A x \in Target : x # g => table[x] = up[x]
    BY <1>7, <2>1, <2>2, <2>3, OneValue
  <2>5. table[t] = own[t] /\ table[p] = up[p]
    BY <1>2, <1>7, <2>2, <2>4
  <2>6. a \in Value /\ v \in Value /\ w \in Value
    <3>1. table[t].value = a /\ table[p].value = v /\ table[g].value = w
      BY <1>5, <1>7, <2>4, <2>5
    <3>2. QED BY <1>2, <1>9, <2>2, <3>1
  <2>7. /\ table[t] \in TargetRow /\ table[t] \notin NoRow /\ table[t].parent = p
        /\ table[t].goal = target[t].goal /\ table[t].value = a
    BY <1>1, <1>5, <2>5, <2>6, NewValue
  <2>8. /\ table[p] \in TargetRow /\ table[p] \notin NoRow /\ table[p].parent = g
        /\ table[p].goal = target[p].goal /\ table[p].value = v
    <3>1. table[p] = [target[p] EXCEPT !.value = v]
      BY <1>7, <2>5
    <3>2. QED BY <1>2, <2>6, <3>1, NewValue DEF g
  <2>9. /\ table[g] \in TargetRow /\ table[g] \notin NoRow /\ table[g].parent = Nil
        /\ table[g].goal = target[g].goal /\ table[g].value = w
    BY <2>2, <2>4, <2>6, NewValue
  <2>10. p # Nil /\ g # Nil /\ target[p].parent = g
    BY <1>12 DEF g
  <2>11. RolledUpValues(own, p) = RolledUpValues(table, p)
    <3>1. \A x \in Target : x # p /\ x # g => table[x] = own[x]
      BY <1>7, <2>4
    <3>2. /\ own[p] \notin NoRow /\ table[p] \notin NoRow
          /\ own[p].parent = table[p].parent /\ own[p].goal = table[p].goal /\ own[p].parent # p
      BY <1>6, <1>10, <2>2, <2>8, <2>10
    <3>3. /\ own[g] \notin NoRow /\ table[g] \notin NoRow
          /\ own[g].parent = table[g].parent /\ own[g].goal = table[g].goal /\ own[g].parent # p
      BY <1>10, <2>2, <2>3, <2>9, <2>10
    <3>4. \A x \in Target : SameFor(p, own[x], table[x])
      BY <3>1, <3>2, <3>3 DEF SameFor
    <3>5. QED BY <1>2, <3>4, SameAverage
  <2>12. RolledUpValues(up, g) = RolledUpValues(table, g)
    <3>1. /\ up[g] \notin NoRow /\ table[g] \notin NoRow
          /\ up[g].parent = table[g].parent /\ up[g].goal = table[g].goal /\ up[g].parent # g
      BY <1>10, <2>2, <2>3, <2>9, <2>10
    <3>2. \A x \in Target : SameFor(g, up[x], table[x])
      BY <2>4, <3>1 DEF SameFor
    <3>3. QED BY <2>2, <3>2, SameAverage
  <2>13. RolledUpFrom(table, p)
    BY <2>8, <2>9, <2>11, <2>12 DEF RolledUpFrom
  <2>14. ASSUME NEW x \in Target
         PROVE \/ table[x] = target[x]
               \/ /\ x \in {t, p, g} /\ Exists(x)
                  /\ table[x] = [target[x] EXCEPT !.value = table[x].value]
                  /\ table[x].value \in Value
    <3>1. CASE x = t
      BY <1>5, <2>5, <2>6, <3>1
    <3>2. CASE x = p
      BY <1>2, <1>7, <2>5, <2>6, <3>2
    <3>3. CASE x = g
      BY <2>2, <2>4, <2>6, <3>3
    <3>4. CASE x \notin {t, p, g}
      BY <1>5, <1>7, <2>4, <3>4
    <3>5. QED BY <3>1, <3>2, <3>3, <3>4
  <2>15. QED BY <2>7, <2>13, <2>14 DEF g
<1>13. QED BY <1>11, <1>12

\* A transaction knows what its commit will make true.
LEMMA EntrySumCounts ==
    ASSUME IInv, RemovalsStand, SumsInv, NEW r \in Request, EntrySum(r)
    PROVE  SumsInv'
<1> DEFINE q == request[r]
           a == TotalIn(EntriesAfter(entry, q), q.target)
           own == [target EXCEPT ![q.target].value = a]
           p == q.parent
<1>1. /\ q.op \in {"addEntry", "deleteEntry"} /\ Exists(q.target)
      /\ q.target \in Target /\ q.parent \in Target \cup {Nil} /\ q.entry \in Entry
      /\ UNCHANGED <<tables, cron>>
  BY FlightTypes DEF EntrySum, IInv
<1>2. PICK table \in (IF p = Nil THEN {own} ELSE RolledUp(own, p)) :
        /\ ValuesIn(table) \in [Target -> Value]
        /\ Await(r, [op |-> IF q.op = "addEntry" THEN "addCommit" ELSE "deleteCommit",
                     entry |-> q.entry, target |-> q.target, amount |-> q.amount,
                     written |-> Written(q), values |-> ValuesIn(table)])
  BY DEF EntrySum
<1> DEFINE new == [op |-> IF q.op = "addEntry" THEN "addCommit" ELSE "deleteCommit",
                   entry |-> q.entry, target |-> q.target, amount |-> q.amount,
                   written |-> Written(q), values |-> ValuesIn(table)]
<1>3. /\ load.ops[r] # {} /\ request' = [request EXCEPT ![r] = new]
      /\ UNCHANGED <<target, entry, load>>
  BY <1>1, <1>2 DEF Await, tables, RemovalsStand, Idle
<1>4. ValueIsSum'
  BY <1>3, SameTables DEF SumsInv
<1>5. /\ new.op \in {"addCommit", "deleteCommit"}
      /\ new.op = "deleteCommit" => q.op = "deleteEntry"
      /\ new.target = q.target /\ new.entry = q.entry
      /\ new.written = Written(q) /\ new.values = ValuesIn(table)
  BY <1>1
<1>6. EntriesAfter(entry, new) = EntriesAfter(entry, q)
  BY <1>1 DEF EntriesAfter
<1>7. target \in [Target -> TargetRow \cup NoRow] /\ target[q.target] \in TargetRow
  BY <1>1 DEF IInv, TypeOK, Exists
<1>8. \A x \in Target : Exists(x) => table[x].value \in Value /\ ValuesIn(table)[x] = table[x].value
  BY <1>2 DEF ValuesIn
<1>9. ASSUME OneAtATime PROVE Counted(target, entry, new)
  <2>1. p = target[q.target].parent /\ (q.op = "deleteEntry" => entry[q.entry] \in NoRow \/ entry[q.entry].target = q.target)
    BY <1>1, <1>9 DEF SumsInv, Counted
  <2> HIDE DEF new, q
  <2>2. CASE p = Nil
    <3>1. table = own
      BY <1>2, <2>2
    <3>2. table[q.target].value = a
      BY <1>7, <1>1, <3>1 DEF TargetRow
    <3>3. ValuesIn(table)[q.target] = a
      BY <1>1, <1>8, <3>2
    <3>4. Written(q) = {q.target}
      BY <2>2 DEF Written
    <3>5. RolledUpFrom(Committed(target, new), target[q.target].parent)
      BY <2>1, <2>2 DEF RolledUpFrom
    <3>6. target[q.target] \notin NoRow
      BY <1>1 DEF Exists
    <3>7. QED BY <1>5, <1>6, <2>1, <3>3, <3>4, <3>5, <3>6 DEF Counted
  <2>3. CASE p # Nil
    <3> DEFINE g == target[p].parent
    <3>1. /\ p \in Target /\ Exists(p) /\ target[p].type # "INDIVIDUAL"
          /\ g # Nil => g \in Target /\ Exists(g) /\ target[g].type # "INDIVIDUAL"
          /\ g \in Target \cup {Nil}
      <4>1. /\ p \in Target /\ Exists(p) /\ target[p].type # "INDIVIDUAL"
            /\ g # Nil => g \in Target /\ Exists(g) /\ target[g].type # "INDIVIDUAL"
        BY <1>1, <2>1, <2>3, LevelsAbove
      <4>2. QED BY <4>1
    <3>2. Written(q) = {q.target, p, g} \cap Target
      BY <1>1, <2>3, <3>1 DEF Written
    <3>3. table \in RolledUp(own, p)
      BY <1>2, <2>3
    <3>4. /\ RolledUpFrom(table, p) /\ table[q.target].value = a
          /\ \A x \in Target : \/ table[x] = target[x]
                               \/ /\ x \in {q.target, p, g} /\ Exists(x)
                                  /\ table[x] = [target[x] EXCEPT !.value = table[x].value]
                                  /\ table[x].value \in Value
      BY SMTT(30), <1>1, <1>2, <2>1, <2>3, <3>3, RollUpIsRight
    <3> HIDE DEF g, own, a, p
    <3>5. Nil \notin Target
      BY RowsAreRows
    <3>6. \A t \in Written(q) : t \in Target /\ Exists(t) /\ target[t] \notin NoRow /\ target[t] \in TargetRow
      BY <1>1, <1>7, <3>1, <3>2, <3>5 DEF Exists
    <3>7. ASSUME NEW x \in Target PROVE SameAs(table[x], Committed(target, new)[x])
      <4> DEFINE C == Committed(target, new)
      <4>1. CASE x \in Written(q)
        <5>1. C[x] = [target[x] EXCEPT !.value = table[x].value] /\ table[x].value \in Value
          BY <1>5, <1>8, <3>6, <4>1 DEF Committed
        <5>2. C[x] \in TargetRow /\ C[x] \notin NoRow /\ C[x].value = table[x].value
              /\ C[x].parent = target[x].parent /\ C[x].goal = target[x].goal
          BY <3>6, <4>1, <5>1, NewValue
        <5>3. CASE table[x] = target[x]
          BY <3>6, <4>1, <5>2, <5>3 DEF SameAs
        <5>4. CASE table[x] = [target[x] EXCEPT !.value = table[x].value]
          BY <5>1, <5>2, <5>4 DEF SameAs
        <5>5. QED BY <3>4, <5>3, <5>4
      <4>2. CASE x \notin Written(q)
        <5>1. C[x] = target[x]
          BY <1>5, <4>2 DEF Committed
        <5>2. table[x] = target[x]
          BY <3>2, <3>4, <4>2
        <5>3. QED BY <5>1, <5>2 DEF SameAs
      <4>3. QED BY <4>1, <4>2
    <3>8. \A x \in Target : table[x] \notin NoRow => table[x].parent \in Target \cup {Nil}
      <4>1. ASSUME NEW x \in Target, table[x] \notin NoRow PROVE table[x].parent \in Target \cup {Nil}
        <5>1. CASE table[x] = target[x]
          BY <1>7, <4>1, <5>1 DEF TargetRow
        <5>2. CASE Exists(x) /\ table[x] = [target[x] EXCEPT !.value = table[x].value]
                   /\ table[x].value \in Value
          <6>1. target[x] \in TargetRow
            BY <1>7, <5>2 DEF Exists
          <6>2. table[x].parent = target[x].parent
            BY <5>2, <6>1, NewValue
          <6>3. QED BY <6>1, <6>2 DEF TargetRow
        <5>3. QED BY <3>4, <5>1, <5>2
      <4>2. QED BY <4>1
    <3>9. RolledUpFrom(Committed(target, new), p)
      <4>1. Agree(table, Committed(target, new))
        BY <3>7 DEF Agree, SameAs
      <4>2. QED BY <3>1, <3>4, <3>8, <4>1, RollUpsAgree
    <3>10. q.target \in Written(q) /\ ValuesIn(table)[q.target] = a
      BY <1>1, <1>8, <3>2, <3>4
    <3>11. \A t \in Written(q) \ {q.target} : target[t].type # "INDIVIDUAL"
      BY <3>1, <3>2, <3>5
    <3>12. QED BY <1>5, <1>6, <2>1, <3>6, <3>9, <3>10, <3>11 DEF Counted, a
  <2>4. QED BY <2>2, <2>3
<1>10. OneAtATime => Counted(target', entry', new)
  BY <1>3, <1>9
<1> HIDE DEF new
<1>11. QED BY <1>3, <1>4, <1>10, OnlyOneCounts

----------------------------------------------------------------------------

LEMMA HandlersKeepSums ==
    ASSUME IInv, RemovalsStand, SumsInv, NEW r \in Request, HandlerStep(r)
    PROVE  SumsInv'
<1>1. OneAtATime => Counted(target, entry, request[r])
  BY DEF SumsInv
<1>2. ASSUME NEW t \in Target, NEW row, row.value = 0, CreateRead(r, t, row) PROVE SumsInv'
  BY <1>2, BeginCounts DEF CreateRead, Counted
<1>3. ASSUME NEW t \in Target, NEW ch \in Change, UpdateRead(r, t, ch) PROVE SumsInv'
  BY <1>3, BeginCounts DEF UpdateRead, Counted
<1>4. ASSUME NEW t \in Target, RemoveRead(r, t) PROVE SumsInv'
  BY <1>4, BeginCounts DEF RemoveRead, Counted
<1>5. ASSUME NEW e \in Entry, NEW t \in Target, NEW x \in Amount, AddEntryRead(r, e, t, x)
      PROVE  SumsInv'
  BY <1>5, BeginCounts DEF AddEntryRead, Counted
<1>6. ASSUME NEW e \in Entry, DeleteEntryRead(r, e) PROVE SumsInv'
  BY <1>6, BeginCounts DEF DeleteEntryRead, Counted
<1>7. CASE CreateCommit(r)
  <2>1. ValueIsSum'
    BY <1>1, <1>7, CreateCommitSums
  <2>2. request[r] # Idle /\ End(r)
    BY <1>7 DEF CreateCommit, Idle
  <2>3. QED BY <2>1, <2>2, EndCounts
<1>8. CASE UpdateCommit(r)
  <2>1. ValueIsSum'
    BY <1>8, UpdateCommitSums
  <2>2. request[r] # Idle /\ End(r)
    BY <1>8 DEF UpdateCommit, Idle
  <2>3. QED BY <2>1, <2>2, EndCounts
<1>9. CASE RemoveCommit(r)
  BY <1>9, RemoveCommitSums, EndCounts DEF RemoveCommit, Idle
<1>10. CASE EntryCommit(r)
  BY SMTT(30), <1>1, <1>10, EntryCommitSums, EndCounts DEF EntryCommit, Idle
<1>11. CASE Fail(r)
  <2>1. ValueIsSum'
    BY <1>11, SameTables DEF Fail, End, Await, tables, SumsInv
  <2>2. QED BY <1>11, <2>1, EndCounts DEF Fail
<1>12. QED
  <2>1. \A t \in Target, type \in TargetType, goal \in Goal, p \in Target \cup {Nil} :
           CreateRead(r, t, [type |-> type, parent |-> p, goal |-> goal, value |-> 0,
                             status |-> "ON_TRACK", deadline |-> "far"]) => SumsInv'
    BY <1>2
  <2>2. QED
    BY <1>3, <1>4, <1>5, <1>6, <1>7, <1>8, <1>9, <1>10, <1>11, <2>1, EntrySumCounts DEF HandlerStep

LEMMA StepsKeepSums ==
    ASSUME IInv, RemovalsStand, SumsInv, [Next]_vars
    PROVE  SumsInv'
<1>1. ASSUME NEW k \in Cron, CronStep(k) PROVE SumsInv'
  <2>1. CASE CronWrite(k)
    <3>1. \A x \in Target :
            /\ target[x] \in NoRow => target'[x] = target[x]
            /\ target[x] \notin NoRow =>
                  /\ target[x] \in TargetRow /\ target'[x] \in TargetRow
                  /\ target'[x].type = target[x].type /\ target'[x].parent = target[x].parent
                  /\ target'[x].goal = target[x].goal /\ target'[x].value = target[x].value
      BY <2>1 DEF CronWrite, Exists, IInv, TypeOK, TargetRow, TargetStatus, Open
    <3>2. UNCHANGED <<entry, frame>>
      BY <2>1 DEF CronWrite
    <3>3. QED BY <3>1, <3>2, CountsOutliveCrons
  <2>2. CASE CronRead(k) \/ CronFails(k)
    BY <2>2, CountsOutliveCrons DEF CronRead, CronFails, tables, IInv, TypeOK
  <2>3. QED BY <1>1, <2>1, <2>2 DEF CronStep
<1>2. ASSUME NEW t \in Target, TimePasses(t) PROVE SumsInv'
  <2>1. \A x \in Target :
          /\ target[x] \in NoRow => target'[x] = target[x]
          /\ target[x] \notin NoRow =>
                /\ target[x] \in TargetRow /\ target'[x] \in TargetRow
                /\ target'[x].type = target[x].type /\ target'[x].parent = target[x].parent
                /\ target'[x].goal = target[x].goal /\ target'[x].value = target[x].value
    BY <1>2 DEF TimePasses, Exists, IInv, TypeOK, TargetRow, Deadline
  <2>2. QED BY <1>2, <2>1, CountsOutliveCrons DEF TimePasses
<1>3. CASE UNCHANGED vars
  BY <1>3, CountsOutliveCrons DEF vars, frame, IInv, TypeOK
<1>4. QED BY <1>1, <1>2, <1>3, HandlersKeepSums DEF Next

LEMMA SumsInvariance == Spec => [](RemovalsStand /\ SumsInv)
<1>1. Init => RemovalsStand
  BY DEF Init, StoreInit, RequestsInit, RemovalsStand, Childless, Idle
<1>2. ASSUME Init PROVE SumsInv
  <2>1. load.seed \in Seeds /\ target = load.seed /\ entry = [e \in Entry |-> Nil]
        /\ \A r \in Request : request[r] = Idle
    BY <1>2, SeedAssumption DEF Init, StoreInit, RequestsInit
  <2>2. ASSUME NEW t \in Target, Exists(t), target[t].type = "INDIVIDUAL"
        PROVE  target[t].value = TotalIn(entry, t)
    <3>1. target[t].value = 0
      BY <2>1, <2>2 DEF Seeds, Exists
    <3>2. EntriesIn(entry, t) = {}
      BY <2>1, RowsAreRows DEF EntriesIn
    <3>3. DOMAIN [e \in EntriesIn(entry, t) |-> entry[e].amount] = {}
      BY <3>2
    <3>4. QED BY <3>1, <3>3, NothingSumsToZero DEF TotalIn
  <2>3. QED BY <2>1, <2>2 DEF SumsInv, ValueIsSum, Counted, Idle
<1>3. IInv /\ RemovalsStand /\ SumsInv /\ [Next]_vars => (RemovalsStand /\ SumsInv)'
  BY StepsKeepParents, StepsKeepSums
<1>4. QED BY <1>1, <1>2, <1>3, Invariance, PTL DEF Spec

\* ValueIsSum: when handlers do not overlap, the value of an individual target
\* is the sum of its entries, through every addition, deletion and move, although
\* each transaction computes it before it commits and crons write the same rows.
THEOREM ValuesAreSums == Spec => []ValueIsSum
<1>1. SumsInv => ValueIsSum
  BY DEF SumsInv
<1>2. QED BY <1>1, SumsInvariance, PTL

\* What the commit of an entry does to the parents of its target.
LEMMA CommitsReachTheTop ==
    ASSUME IInv, SumsInv, OneAtATime, NEW r \in Request, EntryCommit(r), NEW e \in Entry,
           NEW row, row = IF entry[e] \in NoRow THEN entry'[e] ELSE entry[e],
           entry'[e] # entry[e]
    PROVE  RolledUpFrom(target', target[row.target].parent)
<1> DEFINE q == request[r]
<1>1. Counted(target, entry, q) /\ q.op \in {"addCommit", "deleteCommit"} /\ q.entry \in Entry
  BY FlightTypes DEF SumsInv, EntryCommit, IInv
<1>2. /\ target' = Committed(target, q) /\ entry' = EntriesAfter(entry, q)
      /\ IF q.op = "addCommit" THEN entry[q.entry] = Nil ELSE entry[q.entry] \notin NoRow
  BY DEF EntryCommit, Committed
<1> HIDE DEF q
<1>3. e = q.entry
  BY <1>1, <1>2 DEF EntriesAfter, IInv, TypeOK
<1>4. row.target = q.target
  <2>1. CASE q.op = "addCommit"
    <3>1. entry[e] \in NoRow /\ entry'[e] = [target |-> q.target, amount |-> q.amount]
      BY <1>1, <1>2, <1>3, <2>1, RowsAreRows DEF EntriesAfter, IInv, TypeOK
    <3>2. QED BY <3>1
  <2>2. CASE q.op = "deleteCommit"
    BY <1>1, <1>2, <1>3, <2>2 DEF Counted
  <2>3. QED BY <1>1, <2>1, <2>2
<1>5. QED BY <1>1, <1>2, <1>4 DEF Counted

\* RollUpReachesTheTop: when handlers do not overlap, an entry that is added or
\* deleted brings the parent of its target and the parent's parent to the average
\* progress of their children, as they are when the transaction commits.
THEOREM RollUpsReachTheTop == Spec => RollUpReachesTheTop
<1>1. ASSUME IInv, SumsInv, [Next]_vars, OneAtATime, NEW e \in Entry,
             NEW row, row = IF entry[e] \in NoRow THEN entry'[e] ELSE entry[e],
             entry'[e] # entry[e], target'[row.target] \notin NoRow
      PROVE  RolledUpFrom(target', target[row.target].parent)
  <2>1. ASSUME NEW r \in Request, RemoveCommit(r) PROVE FALSE
    <3>1. PICK t \in Target : t = request[r].target
      <4>1. request[r].op = "remove"
        BY <2>1 DEF RemoveCommit
      <4>2. request[r].target \in Target
        BY <1>1, <4>1, FlightTypes DEF IInv
      <4>3. QED BY <4>2
    <3>2. /\ entry' = [x \in Entry |-> IF x \in EntriesIn(entry, t) THEN Gone ELSE entry[x]]
          /\ target'[t] = Gone
      BY <2>1, <3>1 DEF RemoveCommit
    <3>3. entry[e] \notin NoRow /\ entry[e].target = t
      BY <1>1, <3>2 DEF EntriesIn
    <3>4. QED BY <1>1, <3>2, <3>3, RowsAreRows
  <2>2. UNCHANGED entry \/ \E r \in Request : EntryCommit(r) \/ RemoveCommit(r)
    <3>1. ASSUME NEW r \in Request, HandlerStep(r)
          PROVE  UNCHANGED entry \/ EntryCommit(r) \/ RemoveCommit(r)
      BY <3>1 DEF HandlerStep, CreateRead, UpdateRead, RemoveRead, AddEntryRead, DeleteEntryRead,
         CreateCommit, UpdateCommit, EntrySum, Fail, tables
    <3>2. ASSUME NEW k \in Cron, CronStep(k) PROVE UNCHANGED entry
      BY <3>2 DEF CronStep, CronRead, CronWrite, CronFails, tables
    <3>3. (\E t \in Target : TimePasses(t)) \/ UNCHANGED vars => UNCHANGED entry
      BY DEF TimePasses, tables, vars
    <3>4. QED BY <1>1, <3>1, <3>2, <3>3 DEF Next
  <2>3. QED BY <1>1, <2>1, <2>2, CommitsReachTheTop
<1>2. IInv /\ SumsInv /\ [Next]_vars =>
        [OneAtATime =>
            \A e \in Entry :
                LET row == IF entry[e] \in NoRow THEN entry'[e] ELSE entry[e]
                    p == target[row.target].parent
                IN entry'[e] # entry[e] /\ target'[row.target] \notin NoRow /\ p # Nil =>
                    /\ target'[p].value \in RolledUpValues(target', p)
                    /\ LET g == target'[p].parent IN
                       g # Nil => target'[g].value \in RolledUpValues(target', g)]_vars
  BY <1>1 DEF RolledUpFrom
<1>3. QED BY <1>2, SumsInvariance, Invariance, PTL DEF Spec, RollUpReachesTheTop
=============================================================================
