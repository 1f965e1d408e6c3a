--------------------------- MODULE WorkspaceProofs ---------------------------
(* Theorems about Workspace, for any users, sockets, tasks, requests, bounds. *)
EXTENDS Workspace, FiniteSetTheorems, WellFoundedInduction, TLAPS

LEMMA Marks ==
    /\ Nil # Gone /\ NoRow = {Nil, Gone}
    /\ Nil \notin User /\ Nil \notin Org /\ Nil \notin Token /\ Nil \notin Department
    /\ \A p \in Profile : p # Nil
    /\ \A e \in Session : e # Nil /\ e # Gone
    /\ \A q \in Sync : q # Nil
    /\ Unread # Nil /\ \A e \in [user: User, org: Org] : e # Nil /\ e # Unread
<1>1. /\ Nil # Gone /\ NoRow = {Nil, Gone}
      /\ Nil \notin User /\ Nil \notin Org /\ Nil \notin Token /\ Nil \notin Department
      /\ \A p \in Profile : p # Nil
      /\ \A e \in Session : e # Nil /\ e # Gone
      /\ \A q \in Sync : q # Nil
      /\ Unread # Nil
  BY DirectoryAssumption, GatewayAssumption DEF DirectoryAssumption, GatewayAssumption, NoRow
<1>2. \A e \in [user: User, org: Org] : e \in Session /\ e # Unread
  BY <1>1 DEF Session, Unread
<1>3. QED BY <1>1, <1>2

\* The load of a behaviour is chosen once.
LEMMA LoadStands == ASSUME [Next]_vars PROVE UNCHANGED load
<1> USE DEF Begin, Call, Await, End
<1>1. ASSUME NEW r \in Request, DirectoryStep(r) PROVE UNCHANGED load
  BY <1>1 DEF DirectoryStep, ProfileRead, ProfileDepartment, ProfileSupervisor, ProfileUpsert,
     ReassignRead, ReassignCount, ReassignCommit, FoundRead, FoundHead, FoundCommit,
     ModifyRead, ModifyName, ModifyHead, ModifyCommit, DissolveRead, DissolveCommit, Membership
<1>2. ASSUME NEW r \in Request, ItemStep(r) PROVE UNCHANGED load
  BY <1>2 DEF ItemStep, AddSubTaskRead, AddSubTaskOrder, AddSubTaskCreate, EditSubTaskRead,
     EditSubTaskCommit, ReorderRead, ReorderCommit, DropSubTaskRead, DropSubTaskCommit,
     CommentRead, CommentCreate, DropCommentRead, DropCommentCommit, AttachRead, Upload,
     AttachCreate, DetachRead, DetachFile, DetachCommit, DropRead, DropFiles, DropCommit
<1>3. ASSUME NEW r \in Request, ClientCall(r) \/ Fail(r) PROVE UNCHANGED load
  BY <1>3 DEF ClientCall, Switch, SwitchRead, SignOut, SetActive, Fail
<1>4. CASE UNCHANGED vars \/ Restart
  BY <1>4 DEF vars, frame, Restart
<1>5. QED BY <1>1, <1>2, <1>3, <1>4 DEF Next, Frozen, Socketly, frame

----------------------------------------------------------------------------
(* Members.                                                                *)

MembersOK == member \in [User -> [Org -> Role \cup {Nil}]]

LEMMA MembersStayOK == ASSUME MembersOK, [Next]_vars PROVE MembersOK'
<1>1. ASSUME NEW r \in Request, DirectoryStep(r) PROVE MembersOK'
  <2>1. CASE \E u \in User, o \in Org, role \in Role \cup {Nil} : Membership(r, u, o, role)
    BY <2>1 DEF MembersOK, Membership
  <2>2. CASE ~\E u \in User, o \in Org, role \in Role \cup {Nil} : Membership(r, u, o, role)
    <3>1. UNCHANGED member
      BY <1>1, <2>2 DEF DirectoryStep, ProfileRead, ProfileDepartment, ProfileSupervisor,
         ProfileUpsert, ReassignRead, ReassignCount, ReassignCommit, FoundRead, FoundHead,
         FoundCommit, ModifyRead, ModifyName, ModifyHead, ModifyCommit, DissolveRead,
         DissolveCommit, directoryVars
    <3>2. QED BY <3>1 DEF MembersOK
  <2>3. QED BY <2>1, <2>2
<1>2. ASSUME NEW r \in Request, ItemStep(r) PROVE UNCHANGED member
  BY <1>2 DEF ItemStep, AddSubTaskRead, AddSubTaskOrder, AddSubTaskCreate, EditSubTaskRead,
     EditSubTaskCommit, ReorderRead, ReorderCommit, DropSubTaskRead, DropSubTaskCommit,
     CommentRead, CommentCreate, DropCommentRead, DropCommentCommit, AttachRead, Upload,
     AttachCreate, DetachRead, DetachFile, DetachCommit, DropRead, DropFiles, DropCommit,
     OnlyItems, directoryVars
<1>3. ASSUME NEW r \in Request, Fail(r) \/ Socketly(ClientCall(r)) PROVE UNCHANGED member
  BY <1>3 DEF Fail, Socketly, directoryVars
<1>4. CASE \/ \E g \in Instance : Frozen(ServerStep(g))
           \/ Frozen(ClientStep) \/ Restart \/ UNCHANGED vars
  BY <1>4 DEF Frozen, Socketly, Restart, directoryVars, vars, MembersOK
<1>5. QED BY <1>1, <1>2, <1>3, <1>4 DEF Next, MembersOK

LEMMA MembersInvariance == Spec => []MembersOK
<1>1. Init => MembersOK
  BY DirectoryAssumption DEF Init, RequestsInit, DirectoryInit, DirectoryAssumption, MembersOK
<1>2. MembersOK /\ [Next]_vars => MembersOK'
  BY MembersStayOK
<1>3. QED BY <1>1, <1>2, PTL DEF Spec

----------------------------------------------------------------------------
(* Types.  Induction over finite sets is by a smallest counterexample.     *)

LEMMA FiniteSetsHaveAMaximum ==
    ASSUME NEW S \in SUBSET Int, IsFiniteSet(S), S # {}
    PROVE  \E m \in S : \A x \in S : x <= m
<1> DEFINE Topless == {U \in FiniteSubsetsOf(S) : U # {} /\ \A m \in U : \E x \in U : ~(x <= m)}
<1>1. ASSUME Topless # {} PROVE FALSE
  <2>1. PICK U \in Topless : \A V \in Topless : <<V, U>> \notin StrictSubsetOrdering(S)
    <3>1. IsWellFoundedOn(StrictSubsetOrdering(S), FiniteSubsetsOf(S))
      BY FS_StrictSubsetOrderingWellFounded
    <3>2. Topless \subseteq FiniteSubsetsOf(S)
      OBVIOUS
    <3> HIDE DEF Topless
    <3>3. QED BY <1>1, <3>1, <3>2, WFMin
  <2>2. U \in SUBSET S /\ U # {} /\ \A m \in U : \E x \in U : ~(x <= m)
    BY DEF FiniteSubsetsOf
  <2>3. PICK u \in U : TRUE
    BY <2>2
  <2>4. U \ {u} \in FiniteSubsetsOf(S) /\ U \ {u} \subseteq U /\ U \ {u} # U
    BY <2>2, FS_Subset DEF FiniteSubsetsOf
  <2>5. U \ {u} \notin Topless
    <3>1. <<U \ {u}, U>> \in StrictSubsetOrdering(S)
      BY <2>2, <2>3, <2>4 DEF StrictSubsetOrdering
    <3>2. QED BY <2>1, <3>1
  <2>6. CASE U \ {u} = {}
    BY <2>2, <2>6
  <2>7. CASE U \ {u} # {}
    <3>1. PICK m \in U \ {u} : \A x \in U \ {u} : x <= m
      BY <2>4, <2>5, <2>7
    <3>2. CASE u <= m
      BY <2>2, <3>1, <3>2
    <3>3. CASE ~(u <= m)
      BY <2>2, <3>1, <3>3
    <3>4. QED BY <3>2, <3>3
  <2>8. QED BY <2>6, <2>7
<1>2. S \in FiniteSubsetsOf(S)
  BY DEF FiniteSubsetsOf
<1>3. S \notin Topless
  BY <1>1
<1>4. QED BY <1>2, <1>3

LEMMA MaximumIsInTheSet ==
    ASSUME NEW S \in SUBSET Int, IsFiniteSet(S), S # {}
    PROVE  Max(S) \in S
BY FiniteSetsHaveAMaximum DEF Max

FlightOK == request \in [Request -> InFlight] /\ calls \in Nat /\ load \in Load
DepartmentsOK == department \in [Department -> DepartmentRow \cup NoRow]
ProfilesOK == profile \in [User -> Profile \cup {Nil}]

\* The rows of a task, with their foreign keys.
ItemsOK ==
    /\ task \in [Task -> [by: User, done: BOOLEAN] \cup NoRow]
    /\ subtask \in [SubTask -> SubTaskRow \cup NoRow]
    /\ comment \in [Comment -> CommentRow \cup NoRow]
    /\ \A s \in Rows(subtask) : TaskExists(subtask[s].task)
    /\ \A c \in Rows(comment) :
         /\ TaskExists(comment[c].task)
         /\ comment[c].parent # Nil => comment[c].parent \in Of(comment, comment[c].task)

FilesOK ==
    /\ attachment \in [Attachment -> AttachmentRow \cup NoRow]
    /\ stored \subseteq File /\ abandoned \subseteq Attachment
    /\ \A a \in Rows(attachment) :
         TaskExists(attachment[a].task) /\ FileOf[a].task = attachment[a].task

\* A reply in flight is one to a comment of its task, or to one that is gone.
Replies(q) ==
    q.op = "comment" /\ q.parent # Nil =>
        /\ comment[q.parent] # Nil
        /\ q.parent \in Rows(comment) => comment[q.parent].task = q.task

RepliesOK == \A r \in Request : Replies(request[r])

WorkInv == FlightOK /\ DepartmentsOK /\ ProfilesOK /\ ItemsOK /\ FilesOK /\ RepliesOK

\* What a step of the items is shown to keep.
ItemsKept == FlightOK' /\ ItemsOK' /\ FilesOK' /\ RepliesOK'

LEMMA ItemMarks ==
    /\ \A row \in AttachmentRow : row \notin NoRow /\ row.task \in Task
    /\ Nil \in NoRow /\ Gone \in NoRow /\ Nil # Gone /\ NoRow = {Nil, Gone}
BY DirectoryAssumption, ItemAssumption DEF NoRow, DirectoryAssumption, ItemAssumption, AttachmentRow

LEMMA BeginTypes ==
    ASSUME FlightOK, NEW r \in Request, NEW op, NEW q \in InFlight, Begin(r, op, q)
    PROVE  FlightOK'
BY DEF FlightOK, Begin

LEMMA AwaitTypes ==
    ASSUME FlightOK, NEW r \in Request, NEW q \in InFlight, Await(r, q)
    PROVE  FlightOK'
BY DEF FlightOK, Await

LEMMA EndTypes ==
    ASSUME FlightOK, NEW r \in Request, End(r)
    PROVE  FlightOK'
BY AwaitTypes DEF End, InFlight

LEMMA OpsAreNamed ==
    ASSUME NEW q \in InFlight
    PROVE  "op" \in DOMAIN q
BY DEF InFlight, DirectoryInFlight, GatewayInFlight, ItemInFlight, Idle

\* What a handler in flight remembers.
LEMMA FlightTypes ==
    ASSUME NEW q \in InFlight
    PROVE  /\ q.op = "supervised" => /\ q.user \in User /\ q.dept \in Department \cup {Nil}
                                     /\ q.sup \in User \cup {Nil}
           /\ q.op \in {"reassign", "counted"} => q.to \in User
           /\ q.op \in {"found", "headed"} => q.name \in Name /\ q.head \in User \cup {Nil}
           /\ q.op \in {"modify", "modified", "appointed"} =>
                 q.dept \in Department /\ q.name \in Name \cup {Nil} /\ q.head \in User \cup {Nil}
           /\ q.op = "dissolve" => q.dept \in Department
           /\ q.op = "switch" => q \in [op: {"switch"}, socket: Socket, left: SUBSET Instance]
           /\ q.op \in {"addSubTask", "ordered"} => q.task \in Task
           /\ q.op = "ordered" => q.order \in Nat
           /\ q.op = "editSubTask" => q.subtask \in SubTask
           /\ q.op = "reorder" => q.ids \in Seq(SubTask)
           /\ q.op = "comment" =>
                 q.task \in Task /\ q.by \in User /\ q.parent \in Comment \cup {Nil}
           /\ q.op = "dropComment" => q.comment \in Comment
           /\ q.op \in {"attach", "uploaded"} => q.file \in File /\ q.by \in User
           /\ q.op \in {"detach", "deleted"} => q.attachment \in Attachment
           /\ q.op \in {"drop", "emptied"} => q.task \in Task /\ q.files \in SUBSET Attachment
<1> USE DEF InFlight, DirectoryInFlight, GatewayInFlight, ItemInFlight, Idle
<1>1. CASE q.op \in {"supervised", "reassign", "counted", "found", "headed"}
  BY <1>1
<1>2. CASE q.op \in {"modify", "modified", "appointed", "dissolve", "switch"}
  BY <1>2
<1>3. CASE q.op \in {"addSubTask", "ordered", "editSubTask", "reorder", "comment", "dropComment"}
  BY <1>3
<1>4. CASE q.op \in {"attach", "uploaded", "detach", "deleted", "drop", "emptied"}
  BY <1>4
<1> QED BY <1>1, <1>2, <1>3, <1>4

\* A handler that goes on to its next check still knows what it has read.
LEMMA Advance ==
    ASSUME NEW q \in InFlight
    PROVE  /\ q.op = "profile" => [q EXCEPT !.op = "placed"] \in InFlight
           /\ q.op = "placed" => [q EXCEPT !.op = "supervised"] \in InFlight
           /\ q.op = "reassign" => [q EXCEPT !.op = "counted"] \in InFlight
           /\ q.op = "found" => [q EXCEPT !.op = "headed"] \in InFlight
           /\ q.op = "modify" => [q EXCEPT !.op = "modified"] \in InFlight
           /\ q.op = "modified" => [q EXCEPT !.op = "appointed"] \in InFlight
           /\ q.op = "attach" => [q EXCEPT !.op = "uploaded"] \in InFlight
           /\ q.op = "detach" => [q EXCEPT !.op = "deleted"] \in InFlight
           /\ q.op = "drop" => [q EXCEPT !.op = "emptied"] \in InFlight
<1>1. CASE q.op \in {"profile", "placed"}
  <2>1. q \in [op: {"profile", "placed", "supervised"}, user: User,
               dept: Department \cup {Nil}, sup: User \cup {Nil}]
    BY <1>1 DEF InFlight, DirectoryInFlight, GatewayInFlight, ItemInFlight, Idle
  <2>2. QED BY <1>1, <2>1 DEF InFlight, DirectoryInFlight
<1>2. CASE q.op = "reassign"
  <2>1. q \in [op: {"reassign", "counted"}, from: User, to: User, team: SUBSET User]
    BY <1>2 DEF InFlight, DirectoryInFlight, GatewayInFlight, ItemInFlight, Idle
  <2>2. QED BY <1>2, <2>1 DEF InFlight, DirectoryInFlight
<1>3. CASE q.op = "found"
  <2>1. q \in [op: {"found", "renamed", "headed"}, dept: Department, name: Name, head: User \cup {Nil}]
    BY <1>3 DEF InFlight, DirectoryInFlight, GatewayInFlight, ItemInFlight, Idle
  <2>2. QED BY <1>3, <2>1 DEF InFlight, DirectoryInFlight
<1>4. CASE q.op \in {"modify", "modified"}
  <2>1. q \in [op: {"modify", "modified", "appointed"}, dept: Department, was: Name,
               name: Name \cup {Nil}, head: User \cup {Nil}]
    BY <1>4 DEF InFlight, DirectoryInFlight, GatewayInFlight, ItemInFlight, Idle
  <2>2. QED BY <1>4, <2>1 DEF InFlight, DirectoryInFlight
<1>5. CASE q.op = "attach"
  <2>1. q \in [op: {"attach", "uploaded"}, file: File, by: User]
    BY <1>5 DEF InFlight, DirectoryInFlight, GatewayInFlight, ItemInFlight, Idle
  <2>2. QED BY <1>5, <2>1 DEF InFlight, ItemInFlight
<1>6. CASE q.op = "detach"
  <2>1. q \in [op: {"detach", "deleted"}, attachment: Attachment]
    BY <1>6 DEF InFlight, DirectoryInFlight, GatewayInFlight, ItemInFlight, Idle
  <2>2. QED BY <1>6, <2>1 DEF InFlight, ItemInFlight
<1>7. CASE q.op = "drop"
  <2>1. q \in [op: {"drop", "emptied"}, task: Task, files: SUBSET Attachment]
    BY <1>7 DEF InFlight, DirectoryInFlight, GatewayInFlight, ItemInFlight, Idle
  <2>2. QED BY <1>7, <2>1 DEF InFlight, ItemInFlight
<1>8. QED BY <1>1, <1>2, <1>3, <1>4, <1>5, <1>6, <1>7

\* A request keeps its fields but for its op.
LEMMA OpIsSet ==
    ASSUME NEW q \in InFlight, NEW op
    PROVE  [q EXCEPT !.op = op].op = op
BY OpsAreNamed

\* What a handler has deleted is what it remembers.
LEMMA RemovedTypes ==
    ASSUME NEW q \in InFlight
    PROVE  /\ q.op = "deleted" => RemovedBy(q) = {q.attachment}
           /\ q.op = "emptied" => RemovedBy(q) = q.files
           /\ q.op \notin {"deleted", "emptied"} => RemovedBy(q) = {}
           /\ RemovedBy(q) \subseteq Attachment
<1>1. /\ q.op = "deleted" => RemovedBy(q) = {q.attachment}
      /\ q.op = "emptied" => RemovedBy(q) = q.files
      /\ q.op \notin {"deleted", "emptied"} => RemovedBy(q) = {}
  BY DEF RemovedBy
<1>2. QED BY <1>1, FlightTypes

----------------------------------------------------------------------------
(* Steps of the directory.                                                 *)

DirectoryOps ==
    {"idle", "profile", "placed", "supervised", "reassign", "counted", "found", "headed",
     "modify", "modified", "appointed", "dissolve"}

LEMMA DirectoryTypes ==
    ASSUME FlightOK, DepartmentsOK, NEW r \in Request, DirectoryStep(r)
    PROVE  FlightOK' /\ DepartmentsOK'
<1> USE DEF directoryVars
<1>0. request[r] \in InFlight
  BY DEF FlightOK
<1>1. ASSUME NEW u \in User, NEW s \in User \cup {Nil}, NEW d \in Department \cup {Nil}, ProfileRead(r, u, d, s)
      PROVE  FlightOK' /\ DepartmentsOK'
  <2>1. [op |-> "profile", user |-> u, dept |-> d, sup |-> s] \in InFlight
    BY DEF InFlight, DirectoryInFlight
  <2>2. QED BY <1>1, <2>1, BeginTypes DEF ProfileRead, DepartmentsOK
<1>2. CASE ProfileDepartment(r) \/ ProfileSupervisor(r) \/ ReassignCount(r)
  BY <1>0, <1>2, Advance, AwaitTypes
  DEF ProfileDepartment, ProfileSupervisor, ReassignCount, DepartmentsOK
<1>3. CASE FoundHead(r) \/ ModifyName(r) \/ ModifyHead(r)
  BY <1>0, <1>3, Advance, AwaitTypes DEF FoundHead, ModifyName, ModifyHead, DepartmentsOK
<1>4. CASE ProfileUpsert(r) \/ ReassignCommit(r)
  BY <1>4, EndTypes DEF ProfileUpsert, ReassignCommit, DepartmentsOK
<1>5. ASSUME NEW u \in User, NEW v \in User, NEW team \in SUBSET User, ReassignRead(r, u, v, team)
      PROVE  FlightOK' /\ DepartmentsOK'
  <2>1. [op |-> "reassign", from |-> u, to |-> v, team |-> team] \in InFlight
    BY DEF InFlight, DirectoryInFlight
  <2>2. QED BY <1>5, <2>1, BeginTypes DEF ReassignRead, DepartmentsOK
<1>6. ASSUME NEW d \in Department, NEW u \in User \cup {Nil}, NEW n \in Name, FoundRead(r, d, n, u)
      PROVE  FlightOK' /\ DepartmentsOK'
  <2>1. [op |-> "found", dept |-> d, name |-> n, head |-> u] \in InFlight
    BY DEF InFlight, DirectoryInFlight
  <2>2. QED BY <1>6, <2>1, BeginTypes DEF FoundRead, DepartmentsOK
<1>7. ASSUME NEW d \in Department, NEW u \in User \cup {Nil}, NEW n \in Name \cup {Nil}, ModifyRead(r, d, n, u)
      PROVE  FlightOK' /\ DepartmentsOK'
  <2>1. department[d].name \in Name
    BY <1>7 DEF ModifyRead, DepartmentExists, DepartmentsOK, DepartmentRow
  <2>2. [op |-> "modify", dept |-> d, was |-> department[d].name, name |-> n, head |-> u] \in InFlight
    BY <2>1 DEF InFlight, DirectoryInFlight
  <2>3. QED BY <1>7, <2>2, BeginTypes DEF ModifyRead, DepartmentsOK
<1>8. CASE FoundCommit(r)
  <2>1. [name |-> request[r].name, head |-> request[r].head] \in DepartmentRow
    BY <1>0, <1>8, FlightTypes DEF FoundCommit, DepartmentRow
  <2>2. QED BY <1>8, <2>1, EndTypes DEF FoundCommit, DepartmentsOK
<1>9. CASE ModifyCommit(r)
  <2> DEFINE q == request[r]
  <2>1. q.op = "appointed" /\ DepartmentExists(q.dept)
        /\ department' = [department EXCEPT ![q.dept] =
                            [name |-> IF q.name = Nil THEN @.name ELSE q.name,
                             head |-> IF q.head = Nil THEN @.head ELSE q.head]]
    BY <1>9 DEF ModifyCommit
  <2>2. q.dept \in Department /\ q.name \in Name \cup {Nil} /\ q.head \in User \cup {Nil}
    BY <1>0, <2>1, FlightTypes
  <2> HIDE DEF q
  <2>3. department[q.dept] \in DepartmentRow
    BY <2>1, <2>2 DEF DepartmentExists, DepartmentsOK
  <2>4. DepartmentsOK'
    BY <2>1, <2>2, <2>3 DEF DepartmentsOK, DepartmentRow
  <2>5. QED BY <1>9, <2>4, EndTypes DEF ModifyCommit
<1>10. ASSUME NEW d \in Department, DissolveRead(r, d) PROVE FlightOK' /\ DepartmentsOK'
  <2>1. [op |-> "dissolve", dept |-> d] \in InFlight
    BY DEF InFlight, DirectoryInFlight
  <2>2. QED BY <1>10, <2>1, BeginTypes DEF DissolveRead, DepartmentsOK
<1>11. CASE DissolveCommit(r)
  BY <1>11, EndTypes DEF DissolveCommit, DepartmentsOK, NoRow
<1>12. ASSUME NEW u \in User, NEW o \in Org, NEW role \in Role \cup {Nil}, Membership(r, u, o, role)
       PROVE  FlightOK' /\ DepartmentsOK'
  BY <1>12 DEF Membership, Call, FlightOK, DepartmentsOK
<1>13. QED BY <1>1, <1>2, <1>3, <1>4, <1>5, <1>6, <1>7, <1>8, <1>9, <1>10, <1>11, <1>12 DEF DirectoryStep

LEMMA DirectoryProfiles ==
    ASSUME FlightOK, ProfilesOK, NEW r \in Request, DirectoryStep(r)
    PROVE  ProfilesOK'
<1> DEFINE q == request[r]
<1>1. q \in InFlight
  BY DEF FlightOK
<1>2. CASE ProfileUpsert(r)
  <2>1. q.op = "supervised" /\ profile' = [profile EXCEPT ![q.user] = Merged(profile[q.user], q)]
    BY <1>2 DEF ProfileUpsert
  <2>2. q.user \in User /\ q.dept \in Department \cup {Nil} /\ q.sup \in User \cup {Nil}
    BY <1>1, <2>1, FlightTypes
  <2> HIDE DEF q
  <2>3. \A p \in Profile \cup {Nil} : Merged(p, q) \in Profile
    BY <2>2 DEF Merged, Profile
  <2>4. QED BY <2>1, <2>2, <2>3 DEF ProfilesOK
<1>3. CASE ReassignCommit(r)
  <2>1. q.op = "counted" /\ profile' = [u \in User |-> IF u \in Team(q.from) \cap q.team
                                           THEN [profile[u] EXCEPT !.sup = q.to] ELSE profile[u]]
    BY <1>3 DEF ReassignCommit
  <2>2. q.to \in User
    BY <1>1, <2>1, FlightTypes
  <2> HIDE DEF q
  <2>3. \A p \in Profile : [p EXCEPT !.sup = q.to] \in Profile
    BY <2>2 DEF Profile
  <2>4. QED BY <2>1, <2>3 DEF ProfilesOK, Team
<1>4. CASE DissolveCommit(r)
  <2>1. profile' = [u \in User |-> IF u \in Staff(q.dept)
                                   THEN [profile[u] EXCEPT !.dept = Nil] ELSE profile[u]]
    BY <1>4 DEF DissolveCommit
  <2> HIDE DEF q
  <2>2. \A p \in Profile : [p EXCEPT !.dept = Nil] \in Profile
    BY DEF Profile
  <2>3. QED BY <2>1, <2>2 DEF ProfilesOK, Staff
<1>5. CASE ~(ProfileUpsert(r) \/ ReassignCommit(r) \/ DissolveCommit(r))
  <2>1. UNCHANGED profile
    BY <1>5 DEF DirectoryStep, ProfileRead, ProfileDepartment, ProfileSupervisor, ReassignRead,
       ReassignCount, FoundRead, FoundHead, FoundCommit, ModifyRead, ModifyName, ModifyHead,
       ModifyCommit, DissolveRead, Membership, directoryVars
  <2>2. QED BY <2>1 DEF ProfilesOK
<1>6. QED BY <1>2, <1>3, <1>4, <1>5

\* Only one request moves, and it is one of the directory before and after.
LEMMA DirectoryMoves ==
    ASSUME FlightOK, NEW r \in Request, DirectoryStep(r)
    PROVE  \/ UNCHANGED request
           \/ /\ request[r].op \in DirectoryOps /\ request'[r].op \in DirectoryOps
              /\ \A s \in Request \ {r} : request'[s] = request[s]
<1>1. request[r] \in InFlight /\ request \in [Request -> InFlight]
  BY DEF FlightOK
<1> USE <1>1 DEF Begin, Call, Await, End, Idle, DirectoryOps
<1>2. CASE \/ ProfileDepartment(r) \/ ProfileSupervisor(r) \/ ReassignCount(r)
           \/ FoundHead(r) \/ ModifyName(r) \/ ModifyHead(r)
  <2>1. /\ request[r].op \in DirectoryOps
        /\ \E op \in {"placed", "supervised", "counted", "headed", "modified", "appointed"} :
             request' = [request EXCEPT ![r] = [request[r] EXCEPT !.op = op]]
    BY <1>2 DEF ProfileDepartment, ProfileSupervisor, ReassignCount, FoundHead, ModifyName, ModifyHead
  <2>2. QED BY <2>1, OpIsSet
<1>3. CASE ProfileUpsert(r) \/ ReassignCommit(r) \/ FoundCommit(r) \/ ModifyCommit(r) \/ DissolveCommit(r)
  BY <1>3 DEF ProfileUpsert, ReassignCommit, FoundCommit, ModifyCommit, DissolveCommit
<1>4. CASE \E u \in User, o \in Org, role \in Role \cup {Nil} : Membership(r, u, o, role)
  BY <1>4 DEF Membership
<1>5. CASE \/ \E u \in User, s \in User \cup {Nil}, d \in Department \cup {Nil} : ProfileRead(r, u, d, s)
           \/ \E u, v \in User, team \in SUBSET User : ReassignRead(r, u, v, team)
           \/ \E d \in Department, u \in User \cup {Nil} :
                \/ \E n \in Name : FoundRead(r, d, n, u)
                \/ \E n \in Name \cup {Nil} : ModifyRead(r, d, n, u)
           \/ \E d \in Department : DissolveRead(r, d)
  BY <1>5 DEF ProfileRead, ReassignRead, FoundRead, ModifyRead, DissolveRead
<1>6. QED BY <1>2, <1>3, <1>4, <1>5 DEF DirectoryStep

----------------------------------------------------------------------------
(* Steps of what hangs on a task.                                          *)

\* A comment that was made is changed only by its removal.
LEMMA RepliesStand ==
    ASSUME FlightOK, ItemsOK, RepliesOK,
           \A s \in Request : request'[s] = request[s] \/ request'[s].op # "comment",
           \A c \in Comment : comment[c] # Nil => comment'[c] \in {comment[c], Gone},
           comment' \in [Comment -> CommentRow \cup NoRow]
    PROVE  RepliesOK'
<1>1. ASSUME NEW s \in Request, request'[s] = request[s] PROVE Replies(request[s])'
  <2>1. Replies(request[s]) /\ request[s] \in InFlight
    BY DEF RepliesOK, FlightOK
  <2>2. CASE request[s].op = "comment" /\ request[s].parent # Nil
    <3>1. PICK p \in Comment : p = request[s].parent
      BY <2>1, <2>2, FlightTypes
    <3>2. comment[p] # Nil /\ (p \in Rows(comment) => comment[p].task = request[s].task)
      BY <2>1, <2>2, <3>1 DEF Replies
    <3>3. comment'[p] \in {comment[p], Gone} /\ Gone # Nil /\ Gone \in NoRow
      BY <3>2, ItemMarks
    <3>4. comment'[p] # Nil /\ (comment'[p] \notin NoRow => comment'[p].task = request[s].task)
      <4>1. comment[p] \notin NoRow => p \in Rows(comment)
        BY DEF Rows, ItemsOK
      <4>2. QED BY <3>2, <3>3, <4>1
    <3>5. QED BY <1>1, <3>1, <3>4 DEF Replies, Rows
  <2>3. QED BY <1>1, <2>2 DEF Replies
<1>2. ASSUME NEW s \in Request, request'[s].op # "comment" PROVE Replies(request[s])'
  BY <1>2 DEF Replies
<1>3. QED BY <1>1, <1>2 DEF RepliesOK

LEMMA EndReplies ==
    ASSUME FlightOK, ItemsOK, RepliesOK, NEW r \in Request, End(r),
           \A c \in Comment : comment[c] # Nil => comment'[c] \in {comment[c], Gone},
           comment' \in [Comment -> CommentRow \cup NoRow]
    PROVE  RepliesOK'
<1>1. \A s \in Request : request'[s] = request[s] \/ request'[s].op # "comment"
  BY DEF End, Await, Idle, FlightOK
<1>2. QED BY <1>1, RepliesStand

\* Rows that stay with the tasks they belong to.
LEMMA ItemsStand ==
    ASSUME ItemsOK, UNCHANGED <<task, subtask, comment>>
    PROVE  ItemsOK'
BY DEF ItemsOK, Rows, Of, TaskExists

LEMMA FilesStand ==
    ASSUME FilesOK, UNCHANGED <<task, attachment>>, stored' \subseteq File, abandoned' \subseteq Attachment
    PROVE  FilesOK'
BY DEF FilesOK, Rows, TaskExists

LEMMA ReadTypes ==
    ASSUME WorkInv, NEW r \in Request, NEW op, NEW q \in InFlight, Begin(r, op, q),
           OnlyItems, KeepItems, Replies(q)
    PROVE  ItemsKept
<1>1. FlightOK' /\ ItemsOK' /\ FilesOK'
  BY BeginTypes, ItemsStand, FilesStand DEF WorkInv, OnlyItems, KeepItems, FilesOK
<1>2. ASSUME NEW s \in Request PROVE Replies(request[s])'
  <2>1. request'[s] = q \/ request'[s] = request[s]
    BY DEF Begin, WorkInv, FlightOK
  <2>2. QED BY <2>1 DEF WorkInv, RepliesOK, Replies, Rows, KeepItems
<1>3. QED BY <1>1, <1>2 DEF ItemsKept, RepliesOK

LEMMA ItemReadTypes ==
    ASSUME WorkInv, NEW r \in Request,
           \/ \E t \in Task, u \in User :
                \/ AddSubTaskRead(r, t) \/ DropRead(r, t, u)
                \/ \E p \in Comment \cup {Nil} : CommentRead(r, t, u, p)
                \/ \E n \in FileName : AttachRead(r, [task |-> t, name |-> n], u)
           \/ \E s \in SubTask : EditSubTaskRead(r, s) \/ \E u \in User : DropSubTaskRead(r, s, u)
           \/ \E ids \in load.orders : ReorderRead(r, ids)
           \/ \E c \in Comment, u \in User : DropCommentRead(r, c, u)
           \/ \E a \in Attachment, u \in User : DetachRead(r, a, u)
    PROVE  ItemsKept
<1>1. ASSUME NEW t \in Task, AddSubTaskRead(r, t) PROVE ItemsKept
  <2>1. [op |-> "addSubTask", task |-> t] \in InFlight
    BY DEF InFlight, ItemInFlight
  <2>2. QED BY <1>1, <2>1, ReadTypes DEF AddSubTaskRead, Replies
<1>2. ASSUME NEW t \in Task, NEW u \in User, DropRead(r, t, u) PROVE ItemsKept
  <2>1. [op |-> "drop", task |-> t, files |-> Of(attachment, t)] \in InFlight
    BY DEF InFlight, ItemInFlight, Of, Rows, WorkInv, FilesOK
  <2>2. QED BY <1>2, <2>1, ReadTypes DEF DropRead, Replies
<1>3. ASSUME NEW t \in Task, NEW u \in User, NEW p \in Comment \cup {Nil}, CommentRead(r, t, u, p)
      PROVE  ItemsKept
  <2> DEFINE q == [op |-> "comment", task |-> t, by |-> u, parent |-> p]
  <2>1. q \in InFlight
    BY DEF InFlight, ItemInFlight
  <2>2. Replies(q)
    BY <1>3, ItemMarks DEF CommentRead, Replies, Of, Rows
  <2>3. Begin(r, "comment", q) /\ OnlyItems /\ KeepItems
    BY <1>3 DEF CommentRead
  <2> HIDE DEF q
  <2>4. QED BY <2>1, <2>2, <2>3, ReadTypes
<1>4. ASSUME NEW t \in Task, NEW u \in User, NEW n \in FileName, AttachRead(r, [task |-> t, name |-> n], u)
      PROVE  ItemsKept
  <2>1. [op |-> "attach", file |-> [task |-> t, name |-> n], by |-> u] \in InFlight
    BY DEF InFlight, ItemInFlight, File
  <2>2. QED BY <1>4, <2>1, ReadTypes DEF AttachRead, Replies
<1>5. ASSUME NEW s \in SubTask, EditSubTaskRead(r, s) PROVE ItemsKept
  <2>1. [op |-> "editSubTask", subtask |-> s] \in InFlight
    BY DEF InFlight, ItemInFlight
  <2>2. QED BY <1>5, <2>1, ReadTypes DEF EditSubTaskRead, Replies
<1>6. ASSUME NEW s \in SubTask, NEW u \in User, DropSubTaskRead(r, s, u) PROVE ItemsKept
  <2>1. [op |-> "dropSubTask", subtask |-> s] \in InFlight
    BY DEF InFlight, ItemInFlight
  <2>2. QED BY <1>6, <2>1, ReadTypes DEF DropSubTaskRead, Replies
<1>7. ASSUME NEW ids \in load.orders, ReorderRead(r, ids) PROVE ItemsKept
  <2>1. ids \in Seq(SubTask)
    BY ItemAssumption DEF ItemAssumption, WorkInv, FlightOK
  <2>2. [op |-> "reorder", ids |-> ids] \in InFlight
    BY <2>1 DEF InFlight, ItemInFlight
  <2>3. QED BY <1>7, <2>2, ReadTypes DEF ReorderRead, Replies
<1>8. ASSUME NEW c \in Comment, NEW u \in User, DropCommentRead(r, c, u) PROVE ItemsKept
  <2>1. [op |-> "dropComment", comment |-> c] \in InFlight
    BY DEF InFlight, ItemInFlight
  <2>2. QED BY <1>8, <2>1, ReadTypes DEF DropCommentRead, Replies
<1>9. ASSUME NEW a \in Attachment, NEW u \in User, DetachRead(r, a, u) PROVE ItemsKept
  <2>1. [op |-> "detach", attachment |-> a] \in InFlight
    BY DEF InFlight, ItemInFlight
  <2>2. QED BY <1>9, <2>1, ReadTypes DEF DetachRead, Replies
<1>10. QED BY <1>1, <1>2, <1>3, <1>4, <1>5, <1>6, <1>7, <1>8, <1>9

\* The next place in the order of the subtasks of a task.
LEMMA NextPlace ==
    ASSUME ItemsOK, NEW t
    PROVE  Max({subtask[s].order : s \in Of(subtask, t)} \cup {0}) + 1 \in Nat
<1> DEFINE Places == {subtask[s].order : s \in Of(subtask, t)}
<1>1. Of(subtask, t) \subseteq SubTask /\ \A s \in Of(subtask, t) : subtask[s].order \in Nat
  BY DEF ItemsOK, Of, Rows, SubTaskRow
<1>2. IsFiniteSet(Of(subtask, t))
  BY <1>1, FS_Subset, ItemAssumption DEF ItemAssumption
<1>3. IsFiniteSet(Places) /\ Places \subseteq Nat
  <2> DEFINE f == [s \in Of(subtask, t) |-> subtask[s].order]
  <2>1. f \in Surjection(Of(subtask, t), Places)
    BY DEF Surjection
  <2>2. IsFiniteSet(Places)
    BY <1>2, <2>1, FS_Surjection
  <2>3. QED BY <1>1, <2>2
<1> HIDE DEF Places
<1>4. IsFiniteSet(Places \cup {0}) /\ Places \cup {0} \in SUBSET Int
  BY <1>3, FS_AddElement
<1>5. Max(Places \cup {0}) \in Places \cup {0}
  BY <1>4, MaximumIsInTheSet
<1>6. Max(Places \cup {0}) + 1 \in Nat
  <2>1. PICK m \in Places \cup {0} : m = Max(Places \cup {0})
    BY <1>5
  <2>2. QED BY <1>3, <2>1
<1>7. QED BY <1>6 DEF Places

\* The place of an id in the list a client sends.
LEMMA LastPlaces ==
    ASSUME NEW ids \in Seq(SubTask), NEW s \in ToSet(ids)
    PROVE  Max({k \in DOMAIN ids : ids[k] = s}) - 1 \in Nat
<1> DEFINE K == {k \in DOMAIN ids : ids[k] = s}
<1>1. DOMAIN ids = 1..Len(ids) /\ Len(ids) \in Nat
  OBVIOUS
<1>2. K # {}
  <2>1. PICK k \in DOMAIN ids : ids[k] = s
    BY DEF ToSet
  <2>2. QED BY <2>1
<1>3. K \in SUBSET (1..Len(ids))
  BY <1>1
<1>4. IsFiniteSet(K)
  <2>1. IsFiniteSet(1..Len(ids))
    BY <1>1, FS_Interval
  <2>2. QED BY <1>3, <2>1, FS_Subset
<1> HIDE DEF K
<1>5. Max(K) \in K
  <2>1. K \in SUBSET Int
    BY <1>1, <1>3
  <2>2. QED BY <1>2, <1>4, <2>1, MaximumIsInTheSet
<1>6. Max(K) - 1 \in Nat
  <2>1. PICK m \in K : m = Max(K)
    BY <1>5
  <2>2. m \in 1..Len(ids)
    BY <1>3
  <2>3. QED BY <1>1, <2>1, <2>2
<1>7. QED BY <1>6 DEF K


\* Steps that write the subtasks or the comments, and are over.
LEMMA SubTaskWriteTypes ==
    ASSUME WorkInv, NEW r \in Request,
           \/ EditSubTaskCommit(r) \/ DropSubTaskCommit(r) \/ ReorderCommit(r)
           \/ \E s \in SubTask : AddSubTaskCreate(r, s)
    PROVE  ItemsKept
<1>1. End(r) /\ UNCHANGED <<task, comment, attachment, stored, abandoned>>
  BY DEF EditSubTaskCommit, DropSubTaskCommit, ReorderCommit, AddSubTaskCreate, OnlyItems
<1>2. FlightOK' /\ request[r] \in InFlight
  BY <1>1, EndTypes DEF WorkInv, FlightOK
<1>3. RepliesOK'
  BY <1>1, EndReplies DEF WorkInv, ItemsOK
<1>4. /\ subtask' \in [SubTask -> SubTaskRow \cup NoRow]
      /\ \A s \in SubTask : subtask'[s] \notin NoRow => TaskExists(subtask'[s].task)
  <2>1. CASE EditSubTaskCommit(r)
    <3>1. PICK s \in Rows(subtask) : subtask' = [subtask EXCEPT ![s].done = ~@]
      BY <2>1 DEF EditSubTaskCommit
    <3>2. subtask[s] \in SubTaskRow /\ s \in SubTask /\ TaskExists(subtask[s].task)
      BY DEF WorkInv, ItemsOK, Rows
    <3>3. PICK done \in BOOLEAN : done = ~subtask[s].done
      BY <3>2 DEF SubTaskRow
    <3>4. subtask' = [subtask EXCEPT ![s] = [subtask[s] EXCEPT !.done = done]]
      BY <3>1, <3>2, <3>3 DEF WorkInv, ItemsOK
    <3>5. [subtask[s] EXCEPT !.done = done] \in SubTaskRow
          /\ [subtask[s] EXCEPT !.done = done].task = subtask[s].task
      BY <3>2 DEF SubTaskRow
    <3>6. QED BY <3>2, <3>4, <3>5 DEF WorkInv, ItemsOK, Rows
  <2>2. CASE DropSubTaskCommit(r)
    BY <2>2, ItemMarks DEF DropSubTaskCommit, WorkInv, ItemsOK, Rows
  <2>3. CASE ReorderCommit(r)
    <3>1. PICK ids \in Seq(SubTask) :
            /\ ToSet(ids) \subseteq Rows(subtask)
            /\ subtask' = [s \in SubTask |-> IF s \in ToSet(ids)
                    THEN [subtask[s] EXCEPT !.order = Max({k \in DOMAIN ids : ids[k] = s}) - 1]
                    ELSE subtask[s]]
      BY <1>2, <2>3, FlightTypes DEF ReorderCommit
    <3>2. ASSUME NEW s \in SubTask
          PROVE  /\ subtask'[s] \in SubTaskRow \cup NoRow
                 /\ subtask'[s] \notin NoRow => TaskExists(subtask'[s].task)
      <4>1. CASE s \in ToSet(ids)
        <5>1. PICK n \in Nat : n = Max({k \in DOMAIN ids : ids[k] = s}) - 1
          BY <4>1, LastPlaces
        <5>2. s \in Rows(subtask) /\ subtask[s] \in SubTaskRow /\ TaskExists(subtask[s].task)
          BY <3>1, <4>1 DEF WorkInv, ItemsOK, Rows
        <5>3. subtask'[s] = [subtask[s] EXCEPT !.order = n]
          BY <3>1, <4>1, <5>1
        <5>4. QED BY <5>2, <5>3 DEF SubTaskRow
      <4>2. CASE s \notin ToSet(ids)
        BY <3>1, <4>2 DEF WorkInv, ItemsOK, Rows
      <4>3. QED BY <4>1, <4>2
    <3>3. QED BY <3>1, <3>2
  <2>4. ASSUME NEW s \in SubTask, AddSubTaskCreate(r, s)
        PROVE  /\ subtask' \in [SubTask -> SubTaskRow \cup NoRow]
               /\ \A x \in SubTask : subtask'[x] \notin NoRow => TaskExists(subtask'[x].task)
    <3>1. [task |-> request[r].task, order |-> request[r].order, done |-> FALSE] \in SubTaskRow
      BY <1>2, <2>4, FlightTypes DEF AddSubTaskCreate, SubTaskRow
    <3>2. QED BY <2>4, <3>1 DEF AddSubTaskCreate, WorkInv, ItemsOK, Rows
  <2>5. QED BY <2>1, <2>2, <2>3, <2>4
<1>5. ItemsOK'
  BY <1>1, <1>4 DEF WorkInv, ItemsOK, Rows, Of, TaskExists
<1>6. FilesOK'
  BY <1>1, FilesStand DEF WorkInv, FilesOK
<1>7. QED BY <1>2, <1>3, <1>5, <1>6 DEF ItemsKept

LEMMA CommentCreateTypes ==
    ASSUME WorkInv, NEW r \in Request, NEW c \in Comment, CommentCreate(r, c)
    PROVE  ItemsKept
<1> DEFINE q == request[r]
           row == [task |-> q.task, by |-> q.by, parent |-> q.parent]
<1>1. /\ End(r) /\ UNCHANGED <<task, subtask, attachment, stored, abandoned>>
      /\ q.op = "comment" /\ TaskExists(q.task) /\ comment[c] = Nil
      /\ q.parent # Nil => q.parent \in Rows(comment)
      /\ comment' = [comment EXCEPT ![c] = row]
  BY DEF CommentCreate, OnlyItems
<1>2. FlightOK' /\ q \in InFlight /\ Replies(q)
  BY <1>1, EndTypes DEF WorkInv, FlightOK, RepliesOK
<1>3. q.task \in Task /\ q.by \in User /\ q.parent \in Comment \cup {Nil}
  BY <1>1, <1>2, FlightTypes
<1>4. row \in CommentRow /\ row.task = q.task /\ row.parent = q.parent
  BY <1>3 DEF CommentRow
<1> HIDE DEF q, row
<1>5. comment' \in [Comment -> CommentRow \cup NoRow]
      /\ comment'[c] = row /\ \A x \in Comment : x # c => comment'[x] = comment[x]
  BY <1>1, <1>4 DEF WorkInv, ItemsOK
<1>6. c \notin Rows(comment)
  BY <1>1, ItemMarks DEF Rows
<1>7. RepliesOK'
  <2>1. \A x \in Comment : comment[x] # Nil => comment'[x] \in {comment[x], Gone}
    BY <1>1, <1>5
  <2>2. QED BY <1>1, <1>5, <2>1, EndReplies DEF WorkInv
<1>8. ASSUME NEW x \in Rows(comment)'
      PROVE  task'[comment'[x].task] \notin NoRow
             /\ (comment'[x].parent # Nil => comment'[x].parent \in Of(comment', comment'[x].task))
  <2>1. CASE x = c
    <3>1. q.parent # Nil => q.parent # c /\ comment[q.parent].task = q.task /\ q.parent \in Rows(comment)
      BY <1>1, <1>2, <1>6 DEF Replies
    <3>2. q.parent # Nil => q.parent \in Of(comment', q.task)
      BY <1>3, <1>5, <3>1 DEF Of, Rows, WorkInv, ItemsOK
    <3>3. QED BY <1>1, <1>4, <1>5, <2>1, <3>2 DEF TaskExists
  <2>2. CASE x # c
    <3>1. x \in Rows(comment) /\ comment'[x] = comment[x]
      BY <1>5, <2>2 DEF Rows, WorkInv, ItemsOK
    <3>2. TaskExists(comment[x].task)
          /\ (comment[x].parent # Nil => comment[x].parent \in Of(comment, comment[x].task))
      BY <3>1 DEF WorkInv, ItemsOK
    <3>3. \A p : p \in Of(comment, comment[x].task) => p \in Of(comment', comment[x].task)
      BY <1>5, <1>6 DEF Of, Rows, WorkInv, ItemsOK
    <3>4. QED BY <1>1, <3>1, <3>2, <3>3 DEF TaskExists
  <2>3. QED BY <2>1, <2>2
<1>9. ItemsOK'
  BY <1>1, <1>5, <1>8 DEF WorkInv, ItemsOK, Rows, TaskExists
<1>10. FilesOK'
  BY <1>1, FilesStand DEF WorkInv, FilesOK
<1>11. QED BY <1>2, <1>7, <1>9, <1>10 DEF ItemsKept

\* A comment goes with the replies to it: no reply is left without its parent.
LEMMA DropCommentTypes ==
    ASSUME WorkInv, NEW r \in Request, DropCommentCommit(r)
    PROVE  ItemsKept
<1> DEFINE T == Thread(request[r].comment)
<1>1. /\ End(r) /\ UNCHANGED <<task, subtask, attachment, stored, abandoned>>
      /\ comment' = [c \in Comment |-> IF c \in T THEN Gone ELSE comment[c]]
  BY DEF DropCommentCommit, OnlyItems
<1>2. ASSUME NEW x \in Rows(comment), comment[x].parent \in T PROVE x \in T
  BY <1>2 DEF Thread
<1> HIDE DEF T
<1>3. FlightOK'
  BY <1>1, EndTypes DEF WorkInv
<1>4. comment' \in [Comment -> CommentRow \cup NoRow] /\ Gone \in NoRow
  BY <1>1, ItemMarks DEF WorkInv, ItemsOK
<1>5. RepliesOK'
  BY <1>1, <1>4, EndReplies DEF WorkInv
<1>6. ASSUME NEW x \in Rows(comment)'
      PROVE  task'[comment'[x].task] \notin NoRow
             /\ (comment'[x].parent # Nil => comment'[x].parent \in Of(comment', comment'[x].task))
  <2>1. x \in Rows(comment) /\ comment'[x] = comment[x] /\ x \notin T
    BY <1>1, <1>4 DEF Rows, WorkInv, ItemsOK
  <2>2. TaskExists(comment[x].task)
        /\ (comment[x].parent # Nil => comment[x].parent \in Of(comment, comment[x].task))
    BY <2>1 DEF WorkInv, ItemsOK
  <2>3. comment[x].parent \notin T
    BY <1>2, <2>1
  <2>4. comment[x].parent # Nil => comment[x].parent \in Of(comment', comment[x].task)
    BY <1>1, <2>2, <2>3 DEF Of, Rows, WorkInv, ItemsOK
  <2>5. QED BY <1>1, <2>1, <2>2, <2>4 DEF TaskExists
<1>7. ItemsOK'
  BY <1>1, <1>4, <1>6 DEF WorkInv, ItemsOK, Rows, TaskExists
<1>8. FilesOK'
  BY <1>1, FilesStand DEF WorkInv, FilesOK
<1>9. QED BY <1>3, <1>5, <1>7, <1>8 DEF ItemsKept

\* With a task everything that hangs on it goes.
LEMMA DropTypes ==
    ASSUME WorkInv, NEW r \in Request, DropCommit(r)
    PROVE  ItemsKept
<1> DEFINE t == request[r].task
<1>1. /\ End(r) /\ UNCHANGED <<stored, abandoned>>
      /\ task' = [task EXCEPT ![t] = Gone]
      /\ subtask' = Cascade(subtask, t) /\ comment' = Cascade(comment, t)
      /\ attachment' = Cascade(attachment, t)
  BY DEF DropCommit
<1> HIDE DEF t
<1>2. FlightOK'
  BY <1>1, EndTypes DEF WorkInv
<1>3. subtask' \in [SubTask -> SubTaskRow \cup NoRow] /\ comment' \in [Comment -> CommentRow \cup NoRow]
      /\ Gone \in NoRow /\ \A c \in Comment : comment'[c] \in {comment[c], Gone}
  BY <1>1, ItemMarks DEF Cascade, WorkInv, ItemsOK
<1>4. RepliesOK'
  BY <1>1, <1>3, EndReplies DEF WorkInv
<1>5. ASSUME NEW x \in Rows(subtask)' PROVE task'[subtask'[x].task] \notin NoRow
  <2>1. x \in Rows(subtask) /\ subtask'[x] = subtask[x] /\ subtask[x].task # t
    BY <1>1, <1>3 DEF Rows, Cascade, Of, WorkInv, ItemsOK
  <2>2. QED BY <1>1, <2>1 DEF TaskExists, WorkInv, ItemsOK
<1>6. ASSUME NEW x \in Rows(comment)'
      PROVE  task'[comment'[x].task] \notin NoRow
             /\ (comment'[x].parent # Nil => comment'[x].parent \in Of(comment', comment'[x].task))
  <2>1. x \in Rows(comment) /\ comment'[x] = comment[x] /\ comment[x].task # t
    BY <1>1, <1>3 DEF Rows, Cascade, Of, WorkInv, ItemsOK
  <2>2. TaskExists(comment[x].task)
        /\ (comment[x].parent # Nil => comment[x].parent \in Of(comment, comment[x].task))
    BY <2>1 DEF WorkInv, ItemsOK
  <2>3. task'[comment[x].task] \notin NoRow
    BY <1>1, <2>1, <2>2 DEF TaskExists, ItemsOK, WorkInv
  <2>4. comment[x].parent # Nil => comment[x].parent \in Of(comment', comment[x].task)
    BY <1>1, <2>1, <2>2 DEF Of, Rows, Cascade, WorkInv, ItemsOK
  <2>5. QED BY <2>1, <2>3, <2>4
<1>7. ItemsOK'
  <2>1. task' \in [Task -> [by: User, done: BOOLEAN] \cup NoRow]
    BY <1>1, ItemMarks DEF WorkInv, ItemsOK
  <2>2. QED BY <1>3, <1>5, <1>6, <2>1 DEF ItemsOK, Rows, TaskExists
<1>8. FilesOK'
  <2>1. attachment' \in [Attachment -> AttachmentRow \cup NoRow]
    BY <1>1, ItemMarks DEF Cascade, WorkInv, FilesOK
  <2>2. ASSUME NEW x \in Rows(attachment)'
        PROVE  task'[attachment'[x].task] \notin NoRow /\ FileOf[x].task = attachment'[x].task
    <3>1. x \in Rows(attachment) /\ attachment'[x] = attachment[x] /\ attachment[x].task # t
      BY <1>1, <2>1, ItemMarks DEF Rows, Cascade, Of, WorkInv, FilesOK
    <3>2. TaskExists(attachment[x].task) /\ FileOf[x].task = attachment[x].task
      BY <3>1 DEF WorkInv, FilesOK
    <3>3. QED BY <1>1, <3>1, <3>2 DEF TaskExists, WorkInv, ItemsOK
  <2>3. QED BY <1>1, <2>1, <2>2 DEF WorkInv, FilesOK, Rows, TaskExists
<1>9. QED BY <1>2, <1>4, <1>7, <1>8 DEF ItemsKept

\* Steps that write neither subtasks nor comments.
LEMMA OtherItemTypes ==
    ASSUME WorkInv, NEW r \in Request,
           \/ AddSubTaskOrder(r)
           \/ Upload(r) \/ DetachFile(r) \/ DetachCommit(r) \/ DropFiles(r)
           \/ \E a \in Attachment : AttachCreate(r, a)
    PROVE  ItemsKept
<1> DEFINE q == request[r]
<1>1. UNCHANGED <<task, subtask, comment, abandoned>>
  BY DEF AddSubTaskOrder, Upload, AttachCreate, DetachFile, DetachCommit, DropFiles, OnlyItems, KeepItems
<1>2. q \in InFlight
  BY DEF WorkInv, FlightOK
<1>3. FilesOK'
  <2>1. CASE Upload(r)
    <3>1. q.file \in File
      BY <1>2, <2>1, FlightTypes DEF Upload
    <3>2. QED BY <1>1, <2>1, <3>1, FilesStand DEF Upload, WorkInv, FilesOK
  <2>2. CASE AddSubTaskOrder(r) \/ DetachFile(r) \/ DropFiles(r)
    <3>1. stored' \subseteq File /\ UNCHANGED attachment
      BY <2>2 DEF AddSubTaskOrder, DetachFile, DropFiles, KeepItems, WorkInv, FilesOK
    <3>2. QED BY <1>1, <3>1, FilesStand DEF WorkInv, FilesOK
  <2>3. CASE DetachCommit(r)
    BY <1>1, <2>3, ItemMarks DEF DetachCommit, WorkInv, FilesOK, Rows, TaskExists
  <2>4. ASSUME NEW a \in Attachment, AttachCreate(r, a) PROVE FilesOK'
    <3>1. /\ q.op = "uploaded" /\ TaskExists(q.file.task) /\ FileOf[a] = q.file
          /\ attachment' = [attachment EXCEPT ![a] = [task |-> q.file.task, by |-> q.by]]
          /\ UNCHANGED stored
      BY <2>4 DEF AttachCreate
    <3>2. q.file \in File /\ q.by \in User
      BY <1>2, <3>1, FlightTypes
    <3>3. PICK row : row = [task |-> q.file.task, by |-> q.by]
      OBVIOUS
    <3>4. row \in AttachmentRow /\ row.task = q.file.task
      BY <3>2, <3>3 DEF File, AttachmentRow
    <3>5. attachment' \in [Attachment -> AttachmentRow \cup NoRow] /\ attachment'[a] = row
          /\ \A x \in Attachment : x # a => attachment'[x] = attachment[x]
      BY <3>1, <3>3, <3>4 DEF WorkInv, FilesOK
    <3>6. ASSUME NEW x \in Rows(attachment)'
          PROVE  task'[attachment'[x].task] \notin NoRow /\ FileOf[x].task = attachment'[x].task
      <4>1. CASE x = a
        BY <1>1, <3>1, <3>4, <3>5, <4>1 DEF TaskExists
      <4>2. CASE x # a
        BY <1>1, <3>5, <4>2 DEF Rows, TaskExists, WorkInv, FilesOK
      <4>3. QED BY <4>1, <4>2
    <3>7. QED BY <1>1, <3>1, <3>5, <3>6 DEF WorkInv, FilesOK, Rows, TaskExists
  <2>5. QED BY <2>1, <2>2, <2>3, <2>4
<1>4. PICK p \in InFlight : Await(r, p) /\ p.op # "comment"
  <2>1. CASE AddSubTaskOrder(r)
    <3>1. PICK n \in Nat : n = Max({subtask[s].order : s \in Of(subtask, q.task)} \cup {0}) + 1
      BY NextPlace DEF WorkInv
    <3>2. q.task \in Task
      BY <1>2, <2>1, FlightTypes DEF AddSubTaskOrder
    <3>3. [op |-> "ordered", task |-> q.task, order |-> n] \in InFlight
      BY <3>2 DEF InFlight, ItemInFlight
    <3>4. QED BY <2>1, <3>1, <3>3 DEF AddSubTaskOrder
  <2>2. CASE Upload(r) \/ DetachFile(r) \/ DropFiles(r)
    <3>1. \/ q.op = "attach" /\ Await(r, [q EXCEPT !.op = "uploaded"])
          \/ q.op = "detach" /\ Await(r, [q EXCEPT !.op = "deleted"])
          \/ q.op = "drop" /\ Await(r, [q EXCEPT !.op = "emptied"])
      BY <2>2 DEF Upload, DetachFile, DropFiles
    <3>2. \A op : [q EXCEPT !.op = op].op = op
      BY <1>2, OpIsSet
    <3> HIDE DEF q
    <3>3. QED BY <1>2, <3>1, <3>2, Advance
  <2>3. CASE DetachCommit(r) \/ \E a \in Attachment : AttachCreate(r, a)
    BY <2>3 DEF AttachCreate, DetachCommit, End, Idle, InFlight
  <2>4. QED BY <2>1, <2>2, <2>3
<1>5. FlightOK'
  BY <1>4, AwaitTypes DEF WorkInv
<1>6. RepliesOK'
  <2>1. \A s \in Request : request'[s] = request[s] \/ request'[s].op # "comment"
    BY <1>4 DEF Await, WorkInv, FlightOK
  <2>2. QED BY <1>1, <2>1, RepliesStand DEF WorkInv, ItemsOK
<1>7. ItemsOK'
  BY <1>1, ItemsStand DEF WorkInv
<1>8. QED BY <1>3, <1>5, <1>6, <1>7 DEF ItemsKept

----------------------------------------------------------------------------

\* A handler of the gateway remembers its socket and the instances left to answer.
LEMMA ClientTypes ==
    ASSUME FlightOK, NEW r \in Request, ClientCall(r)
    PROVE  FlightOK' /\ \A s \in Request : request'[s] = request[s] \/ request'[s].op \in {"idle", "switch"}
<1>1. request[r] \in InFlight /\ request \in [Request -> InFlight]
  BY DEF FlightOK
<1>2. ASSUME NEW s \in Socket, Switch(r, s)
      PROVE  FlightOK' /\ \A x \in Request : request'[x] = request[x] \/ request'[x].op \in {"idle", "switch"}
  <2>1. [op |-> "switch", socket |-> s, left |-> Instance] \in InFlight
    BY DEF InFlight, GatewayInFlight
  <2>2. QED BY <1>1, <1>2, <2>1, BeginTypes DEF Switch, Begin
<1>3. ASSUME NEW g \in Instance, SwitchRead(r, g)
      PROVE  FlightOK' /\ \A x \in Request : request'[x] = request[x] \/ request'[x].op \in {"idle", "switch"}
  <2>1. request[r] \in [op: {"switch"}, socket: Socket, left: SUBSET Instance]
    BY <1>1, <1>3, FlightTypes DEF SwitchRead
  <2>2. PICK p : p = (IF request[r].left = {g} THEN Idle ELSE [request[r] EXCEPT !.left = @ \ {g}])
    OBVIOUS
  <2>3. p \in InFlight /\ p.op \in {"idle", "switch"}
    BY <2>1, <2>2 DEF InFlight, GatewayInFlight, Idle
  <2>4. Await(r, p)
    BY <1>3, <2>2 DEF SwitchRead
  <2>5. QED BY <1>1, <2>3, <2>4, AwaitTypes DEF Await
<1>4. ASSUME NEW t \in Token, SignOut(r, t) \/ \E o \in Org \cup {Nil} : SetActive(r, t, o)
      PROVE  FlightOK' /\ UNCHANGED request
  BY <1>4 DEF SignOut, SetActive, Call, FlightOK
<1>5. QED BY <1>2, <1>3, <1>4 DEF ClientCall

\* Those steps are of a request that has nothing to do with items.
LEMMA ClientMoves ==
    ASSUME FlightOK, NEW r \in Request, ClientCall(r)
    PROVE  \A s \in Request :
               \/ request'[s] = request[s]
               \/ request[s].op \in {"idle", "switch"} /\ request'[s].op \in {"idle", "switch"}
<1>1. \A s \in Request : request'[s] = request[s] \/ request'[s].op \in {"idle", "switch"}
  BY ClientTypes
<1>2. \A s \in Request : request'[s] = request[s] \/ request[s].op \in {"idle", "switch"}
  <2>1. ASSUME NEW t \in Token, SignOut(r, t) \/ \E o \in Org \cup {Nil} : SetActive(r, t, o)
        PROVE  UNCHANGED request
    BY <2>1 DEF SignOut, SetActive, Call
  <2>2. ASSUME (\E s \in Socket : Switch(r, s)) \/ \E g \in Instance : SwitchRead(r, g)
        PROVE  /\ request[r].op \in {"idle", "switch"}
               /\ \A s \in Request : s # r => request'[s] = request[s]
    <3>1. ASSUME NEW s \in Socket, Switch(r, s)
          PROVE  request[r] = Idle /\ \A x \in Request : x # r => request'[x] = request[x]
      BY <3>1 DEF Switch, Begin, FlightOK
    <3>2. ASSUME NEW g \in Instance, SwitchRead(r, g)
          PROVE  request[r].op = "switch" /\ \A x \in Request : x # r => request'[x] = request[x]
      BY <3>2 DEF SwitchRead, Await, FlightOK
    <3>3. QED BY <2>2, <3>1, <3>2 DEF Idle
  <2>3. QED BY <2>1, <2>2 DEF ClientCall
<1>3. QED BY <1>1, <1>2

LEMMA WorkInvStands == ASSUME WorkInv, [Next]_vars PROVE WorkInv'
<1>1. ASSUME NEW r \in Request, DirectoryStep(r), UNCHANGED itemVars PROVE WorkInv'
  <2>1. FlightOK' /\ DepartmentsOK' /\ ProfilesOK'
    BY <1>1, DirectoryTypes, DirectoryProfiles DEF WorkInv
  <2>2. ItemsOK' /\ FilesOK'
    BY <1>1, ItemsStand, FilesStand DEF itemVars, WorkInv, FilesOK
  <2>3. \A s \in Request : request'[s] = request[s] \/ request'[s].op # "comment"
    BY <1>1, DirectoryMoves DEF WorkInv, DirectoryOps
  <2>4. RepliesOK'
    BY <1>1, <2>3, RepliesStand DEF itemVars, WorkInv, ItemsOK
  <2>5. QED BY <2>1, <2>2, <2>4 DEF WorkInv
<1>2. ASSUME NEW r \in Request, ItemStep(r) PROVE WorkInv'
  <2>1. ItemsKept
    BY <1>2, ItemReadTypes, SubTaskWriteTypes, CommentCreateTypes, DropCommentTypes, DropTypes,
       OtherItemTypes DEF ItemStep
  <2>2. UNCHANGED <<profile, department>>
    BY <1>2 DEF ItemStep, AddSubTaskRead, AddSubTaskOrder, AddSubTaskCreate, EditSubTaskRead,
       EditSubTaskCommit, ReorderRead, ReorderCommit, DropSubTaskRead, DropSubTaskCommit,
       CommentRead, CommentCreate, DropCommentRead, DropCommentCommit, AttachRead, Upload,
       AttachCreate, DetachRead, DetachFile, DetachCommit, DropRead, DropFiles, DropCommit,
       OnlyItems, directoryVars
  <2>3. QED BY <2>1, <2>2 DEF ItemsKept, WorkInv, DepartmentsOK, ProfilesOK
<1>3. ASSUME NEW r \in Request, Fail(r) PROVE WorkInv'
  <2>1. /\ End(r) /\ UNCHANGED <<profile, department, task, subtask, comment, attachment, stored>>
        /\ abandoned' = abandoned \cup RemovedBy(request[r])
    BY <1>3 DEF Fail, directoryVars
  <2>2. RemovedBy(request[r]) \subseteq Attachment
    BY RemovedTypes DEF WorkInv, FlightOK
  <2>3. FlightOK' /\ ItemsOK' /\ FilesOK'
    BY <2>1, <2>2, EndTypes, ItemsStand, FilesStand DEF WorkInv, FilesOK
  <2>4. RepliesOK'
    BY <2>1, EndReplies DEF WorkInv, ItemsOK
  <2>5. QED BY <2>1, <2>3, <2>4 DEF WorkInv, DepartmentsOK, ProfilesOK
<1>4. ASSUME NEW r \in Request, Socketly(ClientCall(r)) PROVE WorkInv'
  <2>1. FlightOK' /\ \A s \in Request : request'[s] = request[s] \/ request'[s].op # "comment"
    BY <1>4, ClientTypes DEF Socketly, WorkInv
  <2>2. UNCHANGED <<directoryVars, itemVars>>
    BY <1>4 DEF Socketly
  <2>3. ItemsOK' /\ FilesOK'
    BY <2>2, ItemsStand, FilesStand DEF itemVars, WorkInv, FilesOK
  <2>4. RepliesOK'
    BY <2>1, <2>2, RepliesStand DEF itemVars, WorkInv, ItemsOK
  <2>5. QED BY <2>1, <2>2, <2>3, <2>4 DEF WorkInv, DepartmentsOK, ProfilesOK, directoryVars
<1>5. CASE Restart
  <2>1. /\ request' = [r \in Request |-> Idle] /\ UNCHANGED <<directoryVars, calls, load>>
        /\ UNCHANGED <<task, subtask, comment, attachment, stored>>
        /\ abandoned' = abandoned \cup UNION {RemovedBy(request[r]) : r \in Request}
    BY <1>5 DEF Restart
  <2>2. \A r \in Request : RemovedBy(request[r]) \subseteq Attachment
    BY RemovedTypes DEF WorkInv, FlightOK
  <2>3. FlightOK' /\ RepliesOK'
    BY <2>1 DEF WorkInv, FlightOK, InFlight, RepliesOK, Replies, Idle
  <2>4. ItemsOK' /\ FilesOK'
    BY <2>1, <2>2, ItemsStand, FilesStand DEF WorkInv, FilesOK
  <2>5. QED BY <2>1, <2>3, <2>4 DEF WorkInv, DepartmentsOK, ProfilesOK, directoryVars
<1>6. CASE UNCHANGED <<directoryVars, itemVars, frame>>
  <2>1. ItemsOK' /\ FilesOK'
    BY <1>6, ItemsStand, FilesStand DEF itemVars, WorkInv, FilesOK
  <2>2. FlightOK' /\ RepliesOK' /\ DepartmentsOK' /\ ProfilesOK'
    BY <1>6 DEF WorkInv, FlightOK, RepliesOK, Replies, Rows, DepartmentsOK, ProfilesOK,
       directoryVars, itemVars, frame
  <2>3. QED BY <2>1, <2>2 DEF WorkInv
<1>7. QED BY <1>1, <1>2, <1>3, <1>4, <1>5, <1>6 DEF Next, Frozen, Socketly, vars

LEMMA WorkInvariance == Spec => []WorkInv
<1>1. ASSUME Init PROVE WorkInv
  <2>1. FlightOK /\ \A r \in Request : request[r] = Idle
    BY <1>1, LoadAssumption DEF Init, RequestsInit, FlightOK, InFlight
  <2>2. DepartmentsOK /\ ProfilesOK
    BY <1>1, DirectoryAssumption
    DEF Init, RequestsInit, DirectoryInit, DirectoryAssumption, DepartmentsOK, ProfilesOK
  <2>3. RepliesOK
    BY <2>1 DEF RepliesOK, Replies, Idle
  <2>4. /\ load \in Load /\ task = load.task /\ subtask = load.subtask
        /\ comment = [c \in Comment |-> Nil] /\ attachment = [a \in Attachment |-> Nil]
        /\ stored = {} /\ abandoned = {}
    BY <1>1 DEF Init, RequestsInit, ItemInit
  <2>5. /\ Rows(comment) = {} /\ comment \in [Comment -> CommentRow \cup NoRow]
        /\ Rows(attachment) = {} /\ attachment \in [Attachment -> AttachmentRow \cup NoRow]
    BY <2>4, ItemMarks DEF Rows
  <2>6. /\ task \in [Task -> [by: User, done: BOOLEAN] \cup NoRow]
        /\ subtask \in [SubTask -> SubTaskRow \cup NoRow]
        /\ \A s \in Rows(subtask) : TaskExists(subtask[s].task)
    BY <2>4, ItemAssumption DEF ItemAssumption, Rows, TaskExists
  <2>7. ItemsOK /\ FilesOK
    BY <2>4, <2>5, <2>6 DEF ItemsOK, FilesOK
  <2>8. QED BY <2>1, <2>2, <2>3, <2>7 DEF WorkInv
<1>2. WorkInv /\ [Next]_vars => WorkInv'
  BY WorkInvStands
<1>3. QED BY <1>1, <1>2, PTL DEF Spec

----------------------------------------------------------------------------
(* Sockets.                                                                *)

SocketTypes ==
    /\ session \in [Token -> Session \cup {Gone}]
    /\ socket \in [Socket -> SocketRow]
    /\ connecting \in [Instance -> [Socket -> [user: User, org: Org] \cup {Nil, Unread}]]
    /\ listed \in [Instance -> [User -> SUBSET Socket]]
    /\ sync \in [Instance -> [Socket -> Sync \cup {Nil}]]

\* A session is that of one user for good.
SessionsOwned == \A t \in Token : session[t] # Gone => session[t].user = load.session[t].user

Owner(s) == load.session[socket[s].token].user

\* No instance has seen a socket that is not there yet.
Untouched(s) ==
    socket[s].state = "new" =>
        /\ socket[s].user = Nil /\ socket[s].org = Nil
        /\ \A g \in Instance : /\ connecting[g][s] = Nil /\ sync[g][s] = Nil
                               /\ \A u \in User : s \notin listed[g][u]

\* All instances take the user of a socket from the same session.
Owned(s) ==
    /\ socket[s].state # "new" => socket[s].token \in Token
    /\ socket[s].user # Nil => socket[s].user = Owner(s)
    /\ \A g \in Instance :
         connecting[g][s] \notin {Nil, Unread} => connecting[g][s].user = Owner(s)

AccountedFor(s) ==
    /\ \A g \in Instance :
         /\ Open(s) /\ connecting[g][s] = Nil =>
              socket[s].user # Nil /\ s \in listed[g][socket[s].user]
         /\ \A u \in User : s \in listed[g][u] => socket[s].user = u
    /\ socket[s].org # Nil => socket[s].org \in socket[s].rooms

Sound(s) == Untouched(s) /\ Owned(s) /\ AccountedFor(s)

SocketInv == SocketTypes /\ SessionsOwned /\ \A s \in Socket : Sound(s)

\* What every step is shown to keep.
SoundStep == SocketInv' /\ ClosingDelists

\* Of a socket that a step does not touch nothing is left to show.
LEMMA OthersStaySound ==
    ASSUME SocketInv, NEW s \in Socket, UNCHANGED load, socket'[s] = socket[s],
           \A g \in Instance : connecting'[g][s] = connecting[g][s] /\ sync'[g][s] = sync[g][s],
           \A g \in Instance, u \in User : s \in listed'[g][u] <=> s \in listed[g][u]
    PROVE  Sound(s)'
<1>1. Sound(s) /\ socket[s].user \in User \cup {Nil}
  BY DEF SocketInv, SocketTypes, SocketRow
<1>2. Untouched(s)'
  BY <1>1 DEF Sound, Untouched
<1>3. Owned(s)'
  BY <1>1 DEF Sound, Owned, Owner
<1>4. AccountedFor(s)'
  BY <1>1 DEF Sound, AccountedFor, Open
<1>5. QED BY <1>2, <1>3, <1>4 DEF Sound

\* A socket that is closed, if it was open.
LEMMA KickStep ==
    ASSUME SocketInv, NEW s \in Socket, Kick(s), UNCHANGED load,
           \A g \in Instance, x \in Socket :
               /\ connecting'[g][x] = connecting[g][x] \/ (x = s /\ connecting'[g][x] = Nil)
               /\ sync'[g][x] = sync[g][x] \/ (x = s /\ sync'[g][x] = Nil)
    PROVE  /\ socket' \in [Socket -> SocketRow]
           /\ listed' \in [Instance -> [User -> SUBSET Socket]]
           /\ \A x \in Socket : Sound(x)'
           /\ ClosingDelists
<1>1. Sound(s) /\ socket[s] \in SocketRow
  BY DEF SocketInv, SocketTypes
<1>2. PICK st \in {"new", "open", "closed"} :
        /\ socket'[s] \in SocketRow
        /\ socket'[s].state = st /\ (st = socket[s].state \/ st = "closed") /\ st # "open"
        /\ socket'[s].user = socket[s].user /\ socket'[s].token = socket[s].token
        /\ socket'[s].org = socket[s].org /\ socket'[s].rooms = socket[s].rooms
        /\ socket[s].state = "new" => st = "new"
  <2>1. CASE ~Open(s)
    BY <1>1, <2>1 DEF Kick, Open, SocketRow
  <2>2. CASE Open(s)
    <3>1. socket'[s] = [socket[s] EXCEPT !.state = "closed"]
      BY <2>2 DEF Kick, Disconnected, SocketInv, SocketTypes
    <3>2. QED BY <1>1, <2>2, <3>1 DEF Open, SocketRow
  <2>3. QED BY <2>1, <2>2
<1>3. \A x \in Socket : x # s => socket'[x] = socket[x]
  BY DEF Kick, Disconnected, SocketInv, SocketTypes
<1>4. socket' \in [Socket -> SocketRow]
  BY <1>2, <1>3 DEF Kick, Disconnected, SocketInv, SocketTypes
<1>5. listed' \in [Instance -> [User -> SUBSET Socket]]
  BY DEF Kick, Disconnected, SocketInv, SocketTypes
<1>6. ASSUME NEW g \in Instance, NEW u \in User, NEW x \in Socket, x # s
      PROVE  x \in listed'[g][u] <=> x \in listed[g][u]
  <2>1. UNCHANGED listed \/ Disconnected(s)
    BY DEF Kick
  <2>2. CASE Disconnected(s)
    <3>1. listed' = [h \in Instance |-> [w \in User |->
              IF w = socket[s].user THEN listed[h][w] \ {s} ELSE listed[h][w]]]
      BY <2>2 DEF Disconnected
    <3>2. listed'[g][u] = IF u = socket[s].user THEN listed[g][u] \ {s} ELSE listed[g][u]
      BY <3>1
    <3>3. QED BY <1>6, <3>2
  <2>3. QED BY <2>1, <2>2
<1>7. ASSUME NEW g \in Instance, NEW u \in User, s \in listed'[g][u]
      PROVE  s \in listed[g][u] /\ ~Open(s)
  <2>1. CASE Open(s)
    <3>1. listed'[g][u] = IF u = socket[s].user THEN listed[g][u] \ {s} ELSE listed[g][u]
      <4>1. Disconnected(s)
        BY <2>1 DEF Kick
      <4>2. listed' = [h \in Instance |-> [w \in User |->
                IF w = socket[s].user THEN listed[h][w] \ {s} ELSE listed[h][w]]]
        BY <4>1 DEF Disconnected
      <4>3. QED BY <4>2
    <3>2. s \in listed[g][u] /\ u # socket[s].user
      BY <1>7, <3>1
    <3>3. QED BY <1>1, <3>2 DEF Sound, AccountedFor
  <2>2. CASE ~Open(s)
    BY <1>7, <2>2 DEF Kick
  <2>3. QED BY <2>1, <2>2
<1>8. ASSUME NEW x \in Socket, x # s PROVE Sound(x)'
  BY <1>3, <1>6, <1>8, OthersStaySound
<1>9. Sound(s)'
  <2>1. Untouched(s)'
    BY <1>1, <1>2, <1>7 DEF Sound, Untouched
  <2>2. Owned(s)'
    BY <1>1, <1>2 DEF Sound, Owned, Owner
  <2>3. AccountedFor(s)'
    BY <1>1, <1>2, <1>7 DEF Sound, AccountedFor, Open
  <2>4. QED BY <2>1, <2>2, <2>3 DEF Sound
<1>10. ClosingDelists
  BY <1>3, <1>7 DEF ClosingDelists, Open
<1>11. QED BY <1>4, <1>5, <1>8, <1>9, <1>10

LEMMA ConnectStep ==
    ASSUME SocketInv, NEW s \in Socket, NEW t \in Token, Connect(s, t), UNCHANGED load
    PROVE  SoundStep
<1>1. socket[s] \in SocketRow /\ Sound(s) /\ socket[s].state = "new"
  BY DEF SocketInv, SocketTypes, Connect
<1>2. /\ socket'[s] \in SocketRow /\ socket'[s].state = "open" /\ socket'[s].token = t
      /\ socket'[s].user = Nil /\ socket'[s].org = Nil
  <2>1. socket'[s] = [socket[s] EXCEPT !.state = "open", !.token = t]
    BY DEF Connect, SocketInv, SocketTypes, SocketRow
  <2>2. QED BY <1>1, <2>1 DEF SocketRow, Sound, Untouched
<1>3. \A x \in Socket : x # s => socket'[x] = socket[x]
  BY DEF Connect, SocketInv, SocketTypes
<1>4. /\ connecting' \in [Instance -> [Socket -> [user: User, org: Org] \cup {Nil, Unread}]]
      /\ \A g \in Instance : connecting'[g][s] = Unread
      /\ \A g \in Instance, x \in Socket : x # s => connecting'[g][x] = connecting[g][x]
  BY DEF Connect, SocketInv, SocketTypes
<1>5. UNCHANGED <<session, listed, sync>>
  BY DEF Connect
<1>6. socket' \in [Socket -> SocketRow]
  BY <1>2, <1>3 DEF Connect, SocketInv, SocketTypes
<1>7. ASSUME NEW x \in Socket, x # s PROVE Sound(x)'
  BY <1>3, <1>4, <1>5, <1>7, OthersStaySound
<1>8. Sound(s)'
  BY <1>1, <1>2, <1>4, <1>5, Marks DEF Sound, Untouched, Owned, AccountedFor, Open
<1>9. ClosingDelists
  BY <1>2, <1>3 DEF ClosingDelists, Open
<1>10. QED BY <1>4, <1>5, <1>6, <1>7, <1>8, <1>9 DEF SoundStep, SocketInv, SocketTypes, SessionsOwned

LEMMA ConnectReadStep ==
    ASSUME SocketInv, NEW g \in Instance, NEW s \in Socket, ConnectRead(g, s), UNCHANGED load
    PROVE  SoundStep
<1> DEFINE e == session[socket[s].token]
<1>1. Sound(s) /\ connecting[g][s] = Unread /\ socket[s].state # "new" /\ socket[s].token \in Token
  BY Marks DEF SocketInv, ConnectRead, Sound, Untouched, Owned
<1>2. e \in [user: User, org: Org] /\ e.user = Owner(s)
  BY <1>1 DEF ConnectRead, SocketInv, SocketTypes, SessionsOwned, Session, Owner
<1> HIDE DEF e
<1>3. /\ connecting' = [connecting EXCEPT ![g][s] = e]
      /\ UNCHANGED <<session, socket, listed, sync>>
  BY DEF ConnectRead, e
<1>4. connecting' \in [Instance -> [Socket -> [user: User, org: Org] \cup {Nil, Unread}]]
  BY <1>2, <1>3 DEF SocketInv, SocketTypes
<1>5. /\ connecting'[g][s] = e
      /\ \A h \in Instance, x \in Socket : h # g \/ x # s => connecting'[h][x] = connecting[h][x]
  BY <1>3 DEF SocketInv, SocketTypes
<1>6. ASSUME NEW x \in Socket, x # s PROVE Sound(x)'
  BY <1>3, <1>5, <1>6, OthersStaySound
<1>7. Sound(s)'
  <2>1. Untouched(s)' /\ AccountedFor(s)'
    BY <1>1, <1>2, <1>3, <1>5, Marks DEF Sound, Untouched, AccountedFor, Open
  <2>2. Owned(s)'
    BY <1>1, <1>2, <1>3, <1>5 DEF Sound, Owned, Owner
  <2>3. QED BY <2>1, <2>2 DEF Sound
<1>8. ClosingDelists
  BY <1>3 DEF ClosingDelists, Open
<1>9. QED BY <1>3, <1>4, <1>6, <1>7, <1>8 DEF SoundStep, SocketInv, SocketTypes, SessionsOwned

LEMMA ConnectRejectStep ==
    ASSUME SocketInv, NEW g \in Instance, NEW s \in Socket, ConnectReject(g, s), UNCHANGED load
    PROVE  SoundStep
<1>1. /\ Kick(s) /\ connecting' = [connecting EXCEPT ![g][s] = Nil] /\ UNCHANGED <<session, sync>>
  BY DEF ConnectReject
<1>2. \A h \in Instance, x \in Socket :
        connecting'[h][x] = connecting[h][x] \/ (x = s /\ connecting'[h][x] = Nil)
  BY <1>1 DEF SocketInv, SocketTypes
<1>3. connecting' \in [Instance -> [Socket -> [user: User, org: Org] \cup {Nil, Unread}]]
  BY <1>1 DEF SocketInv, SocketTypes
<1>4. QED BY <1>1, <1>2, <1>3, KickStep DEF SoundStep, SocketInv, SocketTypes, SessionsOwned

LEMMA ConnectJoinStep ==
    ASSUME SocketInv, NEW g \in Instance, NEW s \in Socket, ConnectJoin(g, s), UNCHANGED load
    PROVE  SoundStep
<1>1. socket[s] \in SocketRow /\ connecting[g][s] \in [user: User, org: Org] /\ Sound(s)
  BY DEF SocketInv, SocketTypes, ConnectJoin
<1>2. PICK u \in User, o \in Org : u = connecting[g][s].user /\ o = connecting[g][s].org
  BY <1>1
<1>3. u = Owner(s) /\ socket[s].state # "new" /\ socket[s].user \in {Nil, u}
  BY <1>1, <1>2, Marks DEF Sound, Untouched, Owned
<1>4. /\ socket'[s] \in SocketRow
      /\ socket'[s].state = socket[s].state /\ socket'[s].token = socket[s].token
      /\ socket'[s].user = u /\ socket'[s].org = o /\ socket'[s].rooms = socket[s].rooms \cup {o}
  <2> DEFINE v == [socket[s] EXCEPT !.user = u, !.org = o, !.rooms = @ \cup {o}]
  <2>1. /\ v \in SocketRow /\ v.state = socket[s].state /\ v.token = socket[s].token
        /\ v.user = u /\ v.org = o /\ v.rooms = socket[s].rooms \cup {o}
    BY <1>1 DEF SocketRow
  <2>2. socket'[s] = v
    BY <1>1, <1>2 DEF ConnectJoin, SocketInv, SocketTypes, SocketRow
  <2> HIDE DEF v
  <2>3. QED BY <2>1, <2>2
<1>5. /\ connecting' = [connecting EXCEPT ![g][s] = Nil] /\ UNCHANGED <<session, sync>>
      /\ listed' = [listed EXCEPT ![g][u] = @ \cup {s}]
      /\ \A x \in Socket : x # s => socket'[x] = socket[x]
  BY <1>2 DEF ConnectJoin, SocketInv, SocketTypes
<1>6. /\ connecting' \in [Instance -> [Socket -> [user: User, org: Org] \cup {Nil, Unread}]]
      /\ connecting'[g][s] = Nil
      /\ \A h \in Instance, x \in Socket : h # g \/ x # s => connecting'[h][x] = connecting[h][x]
  BY <1>5 DEF SocketInv, SocketTypes
<1>7. /\ listed' \in [Instance -> [User -> SUBSET Socket]]
      /\ \A h \in Instance, w \in User, x \in Socket :
           x \in listed'[h][w] <=> x \in listed[h][w] \/ (h = g /\ w = u /\ x = s)
  BY <1>5 DEF SocketInv, SocketTypes
<1>8. socket' \in [Socket -> SocketRow]
  BY <1>4, <1>5 DEF ConnectJoin, SocketInv, SocketTypes
<1>9. ASSUME NEW x \in Socket, x # s PROVE Sound(x)'
  BY <1>5, <1>6, <1>7, <1>9, OthersStaySound
<1>10. Sound(s)'
  <2>1. Untouched(s)'
    BY <1>3, <1>4 DEF Untouched
  <2>2. Owned(s)'
    BY <1>1, <1>3, <1>4, <1>6 DEF Sound, Owned, Owner
  <2>3. ASSUME NEW h \in Instance
        PROVE  /\ Open(s)' /\ connecting'[h][s] = Nil => s \in listed'[h][u]
               /\ \A w \in User : s \in listed'[h][w] => w = u
    <3>1. AccountedFor(s) /\ u # Nil /\ Nil \notin User
      BY <1>1, Marks DEF Sound
    <3>2. \A w \in User : s \in listed[h][w] => w = u
      BY <1>3, <3>1 DEF AccountedFor
    <3>3. CASE h = g
      BY <1>7, <3>2, <3>3
    <3>4. CASE h # g
      <4>1. /\ connecting'[h][s] = connecting[h][s]
            /\ \A w \in User : s \in listed'[h][w] <=> s \in listed[h][w]
        BY <1>6, <1>7, <3>4
      <4>2. Open(s)' <=> Open(s)
        BY <1>4 DEF Open
      <4>3. Open(s) /\ connecting[h][s] = Nil => s \in listed[h][u]
        BY <1>3, <3>1 DEF AccountedFor
      <4>4. QED BY <3>2, <4>1, <4>2, <4>3
    <3>5. QED BY <3>3, <3>4
  <2>4. u # Nil
    BY Marks
  <2>5. AccountedFor(s)'
    BY <1>4, <2>3, <2>4 DEF AccountedFor
  <2>6. QED BY <2>1, <2>2, <2>5 DEF Sound
<1>11. ClosingDelists
  BY <1>4, <1>5 DEF ClosingDelists, Open
<1>12. QED BY <1>5, <1>6, <1>7, <1>8, <1>9, <1>10, <1>11
       DEF SoundStep, SocketInv, SocketTypes, SessionsOwned

LEMMA HangUpStep ==
    ASSUME SocketInv, NEW s \in Socket, HangUp(s), UNCHANGED load
    PROVE  SoundStep
<1>1. Kick(s) /\ UNCHANGED <<session, connecting, sync>>
  BY DEF HangUp, Kick
<1>2. QED BY <1>1, KickStep DEF SoundStep, SocketInv, SocketTypes, SessionsOwned

LEMMA SyncRejectStep ==
    ASSUME SocketInv, NEW g \in Instance, NEW s \in Socket, SyncReject(g, s), UNCHANGED load
    PROVE  SoundStep
<1>1. /\ Kick(s) /\ sync' = [sync EXCEPT ![g][s] = Nil] /\ UNCHANGED <<session, connecting>>
  BY DEF SyncReject
<1>2. \A h \in Instance, x \in Socket : sync'[h][x] = sync[h][x] \/ (x = s /\ sync'[h][x] = Nil)
  BY <1>1 DEF SocketInv, SocketTypes
<1>3. sync' \in [Instance -> [Socket -> Sync \cup {Nil}]]
  BY <1>1 DEF SocketInv, SocketTypes
<1>4. QED BY <1>1, <1>2, <1>3, KickStep DEF SoundStep, SocketInv, SocketTypes, SessionsOwned

LEMMA SyncJoinStep ==
    ASSUME SocketInv, NEW g \in Instance, NEW s \in Socket, SyncJoin(g, s), UNCHANGED load
    PROVE  SoundStep
<1>1. socket[s] \in SocketRow /\ sync[g][s] \in Sync /\ sync[g][s] # Nil /\ Sound(s)
  BY DEF SocketInv, SocketTypes, SyncJoin
<1>2. PICK o \in Org : o = sync[g][s].new
  BY <1>1 DEF Sync
<1>3. /\ socket'[s] \in SocketRow
      /\ socket'[s].state = socket[s].state /\ socket'[s].token = socket[s].token
      /\ socket'[s].user = socket[s].user /\ socket'[s].org = o /\ o \in socket'[s].rooms
  <2> DEFINE v == [socket[s] EXCEPT !.org = o, !.rooms = (@ \ {sync[g][s].old}) \cup {o}]
  <2>1. /\ v \in SocketRow /\ v.state = socket[s].state /\ v.token = socket[s].token
        /\ v.user = socket[s].user /\ v.org = o /\ o \in v.rooms
    BY <1>1 DEF SocketRow
  <2>2. socket'[s] = v
    BY <1>1, <1>2 DEF SyncJoin, SocketInv, SocketTypes, SocketRow
  <2> HIDE DEF v
  <2>3. QED BY <2>1, <2>2
<1>4. /\ sync' = [sync EXCEPT ![g][s] = Nil] /\ UNCHANGED <<session, connecting, listed>>
      /\ \A x \in Socket : x # s => socket'[x] = socket[x]
  BY DEF SyncJoin, SocketInv, SocketTypes
<1>5. /\ sync' \in [Instance -> [Socket -> Sync \cup {Nil}]]
      /\ \A h \in Instance, x \in Socket : x # s => sync'[h][x] = sync[h][x]
  BY <1>4 DEF SocketInv, SocketTypes
<1>6. socket' \in [Socket -> SocketRow]
  BY <1>3, <1>4 DEF SyncJoin, SocketInv, SocketTypes
<1>7. ASSUME NEW x \in Socket, x # s PROVE Sound(x)'
  BY <1>4, <1>5, <1>7, OthersStaySound
<1>8. Sound(s)'
  <2>1. socket[s].state # "new"
    BY <1>1 DEF Sound, Untouched
  <2>2. Untouched(s)' /\ Owned(s)'
    BY <1>1, <1>3, <1>4, <2>1 DEF Sound, Untouched, Owned, Owner
  <2>3. AccountedFor(s)'
    BY <1>1, <1>3, <1>4 DEF Sound, AccountedFor, Open
  <2>4. QED BY <2>2, <2>3 DEF Sound
<1>9. ClosingDelists
  BY <1>3, <1>4 DEF ClosingDelists, Open
<1>10. QED BY <1>4, <1>5, <1>6, <1>7, <1>8, <1>9 DEF SoundStep, SocketInv, SocketTypes, SessionsOwned

\* A check of a socket that may start a switch, or close it.
LEMMA SyncStartStep ==
    ASSUME SocketInv, NEW g \in Instance, NEW s \in Socket, NEW e \in Session, NEW b \in BOOLEAN,
           SyncStart(g, s, e, b), UNCHANGED <<session, connecting, load>>
    PROVE  SoundStep
<1>1. Sound(s) /\ socket[s] \in SocketRow
  BY DEF SocketInv, SocketTypes
<1>2. CASE UNCHANGED <<socket, listed, sync>>
  <2>1. \A x \in Socket : Sound(x)'
    BY <1>2, OthersStaySound
  <2>2. ClosingDelists
    BY <1>2 DEF ClosingDelists, Open
  <2>3. QED BY <1>2, <2>1, <2>2 DEF SoundStep, SocketInv, SocketTypes, SessionsOwned
<1>3. CASE Kick(s) /\ UNCHANGED sync
  BY <1>3, KickStep DEF SoundStep, SocketInv, SocketTypes, SessionsOwned
<1>4. CASE /\ Open(s) /\ e.org # Nil /\ UNCHANGED <<socket, listed>>
           /\ sync' = [sync EXCEPT ![g][s] = [user |-> e.user, old |-> socket[s].org,
                                              new |-> e.org, beat |-> b]]
  <2> DEFINE q == [user |-> e.user, old |-> socket[s].org, new |-> e.org, beat |-> b]
  <2>1. q \in Sync
    BY <1>1, <1>4 DEF Sync, Session, SocketRow
  <2> HIDE DEF q
  <2>2. /\ sync' \in [Instance -> [Socket -> Sync \cup {Nil}]]
        /\ \A h \in Instance, x \in Socket : x # s => sync'[h][x] = sync[h][x]
    BY <1>4, <2>1 DEF SocketInv, SocketTypes, q
  <2>3. \A x \in Socket : x # s => Sound(x)'
    BY <1>4, <2>2, OthersStaySound
  <2>4. Sound(s)'
    BY <1>1, <1>4 DEF Sound, Untouched, Owned, Owner, AccountedFor, Open
  <2>5. ClosingDelists
    BY <1>4 DEF ClosingDelists, Open
  <2>6. QED BY <1>4, <2>2, <2>3, <2>4, <2>5 DEF SoundStep, SocketInv, SocketTypes, SessionsOwned
<1>5. QED BY <1>2, <1>3, <1>4 DEF SyncStart

\* A step that no socket, instance or session sees.
LEMMA UnseenStep ==
    ASSUME SocketInv, UNCHANGED <<session, socket, connecting, listed, sync, load>>
    PROVE  SoundStep
<1>1. \A s \in Socket : Sound(s)'
  BY OthersStaySound
<1>2. ClosingDelists
  BY DEF ClosingDelists, Open
<1>3. QED BY <1>1, <1>2 DEF SoundStep, SocketInv, SocketTypes, SessionsOwned

LEMMA SwitchReadStep ==
    ASSUME SocketInv, FlightOK, NEW r \in Request, NEW g \in Instance, SwitchRead(r, g), UNCHANGED load
    PROVE  SoundStep
<1> DEFINE s == request[r].socket
<1>1. s \in Socket
  BY FlightTypes DEF SwitchRead, FlightOK
<1>2. PICK e : e = session[socket[s].token]
  OBVIOUS
<1>3. /\ UNCHANGED <<session, connecting>>
      /\ \/ Kick(s) /\ UNCHANGED sync
         \/ e # Gone /\ SyncStart(g, s, e, FALSE)
  BY <1>2 DEF SwitchRead
<1> HIDE DEF s
<1>4. CASE Kick(s) /\ UNCHANGED sync
  BY <1>1, <1>3, <1>4, KickStep DEF SoundStep, SocketInv, SocketTypes, SessionsOwned
<1>5. CASE e # Gone /\ SyncStart(g, s, e, FALSE) /\ Open(s)
  <2>1. Sound(s) /\ socket[s].state # "new"
    BY <1>1, <1>5 DEF SocketInv, Open
  <2>2. e \in Session
    BY <1>2, <1>5, <2>1 DEF Sound, Owned, SocketInv, SocketTypes
  <2>3. QED BY <1>1, <1>3, <1>5, <2>2, SyncStartStep
<1>6. CASE SyncStart(g, s, e, FALSE) /\ ~Open(s)
  BY <1>3, <1>6, UnseenStep DEF SyncStart
<1>7. QED BY <1>3, <1>4, <1>5, <1>6

\* What the heartbeats have read: sessions, by socket.
BeatState == (UNION {[S -> Session \cup {Gone}] : S \in SUBSET Socket}) \cup {Nil}
BeatsOK == beat \in [Instance -> BeatState]

LEMMA BeatStates ==
    ASSUME NEW b \in BeatState, b # Nil, NEW s \in DOMAIN b
    PROVE  /\ b[s] \in Session \cup {Gone}
           /\ [x \in DOMAIN b \ {s} |-> b[x]] \in BeatState
<1>1. PICK S \in SUBSET Socket : b \in [S -> Session \cup {Gone}]
  BY DEF BeatState
<1>2. [x \in DOMAIN b \ {s} |-> b[x]] \in [S \ {s} -> Session \cup {Gone}]
  BY <1>1
<1>3. S \ {s} \in SUBSET Socket
  OBVIOUS
<1>4. QED BY <1>1, <1>2, <1>3 DEF BeatState

LEMMA BeatReadStep ==
    ASSUME SocketInv, BeatsOK, NEW g \in Instance, BeatRead(g), UNCHANGED load
    PROVE  SoundStep /\ BeatsOK'
<1> DEFINE seen == {s \in Socket : Open(s)}
           b == [s \in seen |-> session[socket[s].token]]
<1>1. beat' = [beat EXCEPT ![g] = b] /\ UNCHANGED <<session, socket, connecting, listed, sync>>
  BY DEF BeatRead
<1>2. b \in [seen -> Session \cup {Gone}]
  BY DEF Open, SocketInv, Sound, Owned, SocketTypes
<1>3. b \in BeatState
  BY <1>2 DEF BeatState
<1> HIDE DEF b
<1>4. BeatsOK'
  BY <1>1, <1>3 DEF BeatsOK
<1>5. QED BY <1>1, <1>4, UnseenStep

LEMMA BeatNextStep ==
    ASSUME SocketInv, BeatsOK, NEW g \in Instance, NEW s \in Socket, BeatNext(g, s), UNCHANGED load
    PROVE  SoundStep /\ BeatsOK'
<1> DEFINE b == beat[g]
<1>1. /\ b # Nil /\ s \in DOMAIN b /\ UNCHANGED <<session, connecting>>
      /\ IF b[s] = Gone THEN Kick(s) /\ UNCHANGED sync ELSE SyncStart(g, s, b[s], TRUE)
      /\ beat' = [beat EXCEPT ![g] =
             IF DOMAIN b = {s} THEN Nil ELSE [x \in DOMAIN b \ {s} |-> b[x]]]
  BY DEF BeatNext
<1>2. b \in BeatState
  BY DEF BeatsOK
<1> HIDE DEF b
<1> DEFINE rest == IF DOMAIN b = {s} THEN Nil ELSE [x \in DOMAIN b \ {s} |-> b[x]]
<1>3. b[s] \in Session \cup {Gone} /\ rest \in BeatState
  <2>1. b[s] \in Session \cup {Gone} /\ [x \in DOMAIN b \ {s} |-> b[x]] \in BeatState
    BY <1>1, <1>2, BeatStates
  <2>2. Nil \in BeatState
    BY DEF BeatState
  <2>3. QED BY <2>1, <2>2
<1>4. BeatsOK'
  <2>1. beat' = [beat EXCEPT ![g] = rest]
    BY <1>1
  <2> HIDE DEF rest
  <2>2. QED BY <1>3, <2>1 DEF BeatsOK
<1> HIDE DEF rest
<1>5. ASSUME b[s] = Gone PROVE SoundStep
  <2>1. Kick(s) /\ UNCHANGED <<session, connecting, sync>>
    BY <1>1, <1>5
  <2>2. QED BY <2>1, KickStep DEF SoundStep, SocketInv, SocketTypes, SessionsOwned
<1>6. ASSUME b[s] # Gone PROVE SoundStep
  <2>1. b[s] \in Session /\ SyncStart(g, s, b[s], TRUE)
    BY <1>1, <1>3, <1>6
  <2>2. QED BY <1>1, <2>1, SyncStartStep
<1>7. QED BY <1>4, <1>5, <1>6

LEMMA CrashStep ==
    ASSUME SocketInv, Crash, UNCHANGED load
    PROVE  SoundStep /\ BeatsOK'
<1>1. /\ connecting' \in [Instance -> [Socket -> [user: User, org: Org] \cup {Nil, Unread}]]
      /\ listed' \in [Instance -> [User -> SUBSET Socket]]
      /\ sync' \in [Instance -> [Socket -> Sync \cup {Nil}]]
      /\ BeatsOK' /\ UNCHANGED session
      /\ \A g \in Instance, s \in Socket : /\ connecting'[g][s] = Nil /\ sync'[g][s] = Nil
                                           /\ \A u \in User : s \notin listed'[g][u]
  BY DEF Crash, BeatsOK, BeatState
<1>2. ASSUME NEW s \in Socket
      PROVE  socket'[s] \in SocketRow /\ Sound(s)'
  <2>1. Sound(s) /\ socket[s] \in SocketRow
    BY DEF SocketInv, SocketTypes
  <2>2. /\ socket'[s] \in SocketRow /\ socket'[s].state # "open"
        /\ socket'[s].state = "new" => socket[s].state = "new"
        /\ socket[s].state = "new" => socket'[s].state = "new"
        /\ socket'[s].user = socket[s].user /\ socket'[s].token = socket[s].token
        /\ socket'[s].org = socket[s].org /\ socket'[s].rooms = socket[s].rooms
    <3>1. CASE Open(s)
      <4>1. socket'[s] = [socket[s] EXCEPT !.state = "closed"]
        BY <3>1 DEF Crash
      <4>2. QED BY <2>1, <3>1, <4>1 DEF Open, SocketRow
    <3>2. CASE ~Open(s)
      BY <2>1, <3>2 DEF Crash, Open
    <3>3. QED BY <3>1, <3>2
  <2>3. Untouched(s)'
    BY <1>1, <2>1, <2>2 DEF Sound, Untouched
  <2>4. Owned(s)'
    BY <1>1, <2>1, <2>2 DEF Sound, Owned, Owner
  <2>5. AccountedFor(s)'
    BY <1>1, <2>1, <2>2 DEF Sound, AccountedFor, Open
  <2>6. QED BY <2>2, <2>3, <2>4, <2>5 DEF Sound
<1>3. socket' \in [Socket -> SocketRow]
  BY <1>2 DEF Crash
<1>4. ClosingDelists
  BY <1>1 DEF ClosingDelists
<1>5. QED BY <1>1, <1>2, <1>3, <1>4 DEF SoundStep, SocketInv, SocketTypes, SessionsOwned

LEMMA SessionStep ==
    ASSUME SocketInv, NEW r \in Request, NEW t \in Token, UNCHANGED load,
           SignOut(r, t) \/ \E o \in Org \cup {Nil} : SetActive(r, t, o)
    PROVE  SoundStep
<1>1. UNCHANGED <<socket, connecting, listed, sync, beat>>
  BY DEF SignOut, SetActive
<1>2. session' \in [Token -> Session \cup {Gone}] /\ SessionsOwned'
  <2>1. CASE SignOut(r, t)
    BY <2>1 DEF SignOut, SocketInv, SocketTypes, SessionsOwned
  <2>2. ASSUME NEW o \in Org \cup {Nil}, SetActive(r, t, o)
        PROVE  session' \in [Token -> Session \cup {Gone}] /\ SessionsOwned'
    <3>1. session[t] \in Session /\ session' = [session EXCEPT ![t].org = o]
      BY <2>2 DEF SetActive, SocketInv, SocketTypes
    <3>2. [session[t] EXCEPT !.org = o] \in Session /\ [session[t] EXCEPT !.org = o].user = session[t].user
      BY <3>1 DEF Session
    <3>3. session' = [session EXCEPT ![t] = [session[t] EXCEPT !.org = o]]
      BY <3>1 DEF SocketInv, SocketTypes
    <3>4. session[t] # Gone
      BY <2>2 DEF SetActive
    <3>5. QED BY <3>2, <3>3, <3>4 DEF SocketInv, SocketTypes, SessionsOwned
  <2>3. QED BY <2>1, <2>2
<1>3. \A s \in Socket : Sound(s)'
  BY <1>1, OthersStaySound
<1>4. ClosingDelists
  BY <1>1 DEF ClosingDelists, Open
<1>5. QED BY <1>1, <1>2, <1>3, <1>4 DEF SoundStep, SocketInv, SocketTypes

LEMMA SocketInvStands ==
    ASSUME SocketInv, BeatsOK, WorkInv, [Next]_vars
    PROVE  SoundStep /\ BeatsOK'
<1>1. UNCHANGED load /\ FlightOK
  BY LoadStands DEF WorkInv
<1>2. ASSUME NEW g \in Instance, ServerStep(g) PROVE SoundStep /\ BeatsOK'
  <2>1. CASE BeatRead(g)
    BY <1>1, <2>1, BeatReadStep
  <2>2. ASSUME NEW s \in Socket, BeatNext(g, s) PROVE SoundStep /\ BeatsOK'
    BY <1>1, <2>2, BeatNextStep
  <2>3. ASSUME NEW s \in Socket,
               \/ ConnectRead(g, s) \/ ConnectReject(g, s) \/ ConnectJoin(g, s)
               \/ SyncReject(g, s) \/ SyncJoin(g, s)
        PROVE  SoundStep /\ BeatsOK'
    <3>1. UNCHANGED beat
      BY <2>3 DEF ConnectRead, ConnectReject, ConnectJoin, SyncReject, SyncJoin
    <3>2. SoundStep
      BY <1>1, <2>3, ConnectReadStep, ConnectRejectStep, ConnectJoinStep, SyncRejectStep, SyncJoinStep
    <3>3. QED BY <3>1, <3>2 DEF BeatsOK
  <2>4. QED BY <1>2, <2>1, <2>2, <2>3 DEF ServerStep
<1>3. CASE ClientStep
  <2>1. UNCHANGED beat
    BY <1>3 DEF ClientStep, HangUp, Connect
  <2>2. SoundStep
    BY <1>1, <1>3, HangUpStep, ConnectStep DEF ClientStep
  <2>3. QED BY <2>1, <2>2 DEF BeatsOK
<1>4. ASSUME NEW r \in Request, ClientCall(r) PROVE SoundStep /\ BeatsOK'
  <2>1. UNCHANGED beat
    BY <1>4 DEF ClientCall, Switch, SwitchRead, SignOut, SetActive, gatewayVars
  <2>2. ASSUME NEW s \in Socket, Switch(r, s) PROVE SoundStep
    BY <1>1, <2>2, UnseenStep DEF Switch, gatewayVars
  <2>3. ASSUME NEW g \in Instance, SwitchRead(r, g) PROVE SoundStep
    BY <1>1, <2>3, SwitchReadStep
  <2>4. ASSUME NEW t \in Token, SignOut(r, t) \/ \E o \in Org \cup {Nil} : SetActive(r, t, o)
        PROVE  SoundStep
    BY <1>1, <2>4, SessionStep
  <2>5. SoundStep
    BY <1>4, <2>2, <2>3, <2>4 DEF ClientCall
  <2>6. QED BY <2>1, <2>5 DEF BeatsOK
<1>5. CASE Restart
  BY <1>1, <1>5, CrashStep DEF Restart
<1>6. CASE UNCHANGED gatewayVars
  BY <1>1, <1>6, UnseenStep DEF gatewayVars, BeatsOK
<1>7. QED BY <1>2, <1>3, <1>4, <1>5, <1>6 DEF Next, Fail, Frozen, Socketly, vars

LEMMA SocketInvariance == Spec => [](SocketInv /\ BeatsOK)
<1>1. Init => SocketInv /\ BeatsOK
  <2>1. SUFFICES ASSUME Init PROVE SocketInv /\ BeatsOK
    OBVIOUS
  <2>2. load \in Load /\ session = load.session
    BY <2>1 DEF Init, RequestsInit, GatewayInit
  <2>3. SocketTypes
    <3>1. NoSocket \in SocketRow
      BY DEF NoSocket, SocketRow
    <3>2. QED BY <2>1, <2>2, <3>1, GatewayAssumption DEF Init, GatewayInit, GatewayAssumption, SocketTypes
  <2>4. SessionsOwned
    BY <2>2 DEF SessionsOwned
  <2>5. \A s \in Socket : Sound(s)
    BY <2>1 DEF Init, GatewayInit, Sound, Untouched, Owned, AccountedFor, Open, NoSocket
  <2>6. BeatsOK
    BY <2>1 DEF Init, GatewayInit, BeatsOK, BeatState
  <2>7. QED BY <2>3, <2>4, <2>5, <2>6 DEF SocketInv
<1>2. SocketInv /\ BeatsOK /\ WorkInv /\ [Next]_vars => (SocketInv /\ BeatsOK)'
  BY SocketInvStands DEF SoundStep
<1>3. QED BY <1>1, <1>2, WorkInvariance, PTL DEF Spec

\* Whatever number of instances of the gateway there are, and however connections,
\* hang-ups, switches, heartbeats and crashes meet at one socket: connectedUsers of
\* every instance, the rooms and client.data stay together, and a socket that
\* closes is listed nowhere any more (task.gateway.ts).
THEOREM SocketsStayAccounted == Spec => SocketsAreAccountedFor
<1>1. SocketInv => Accounted
  BY DEF SocketInv, Sound, AccountedFor, Accounted
<1>2. SocketInv /\ BeatsOK /\ WorkInv /\ [Next]_vars => [Accounted' /\ ClosingDelists]_gatewayVars
  <2>1. SUFFICES ASSUME SocketInv, BeatsOK, WorkInv, [Next]_vars PROVE Accounted' /\ ClosingDelists
    OBVIOUS
  <2>2. SoundStep
    BY <2>1, SocketInvStands
  <2>3. QED BY <1>1, <2>2, PTL DEF SoundStep
<1>3. QED BY <1>2, SocketInvariance, WorkInvariance, PTL DEF Spec, SocketsAreAccountedFor

----------------------------------------------------------------------------
(* Files.                                                                  *)

\* Attachments whose file may be gone: they are being removed, or were, or were to be.
Struck(b) == Removing(b) \/ b \in abandoned \/ attachment[b] = Gone

\* A file that is there, or has gone with an attachment that stood for it.
Held(f) == f \in stored \/ \E b \in Attachment : FileOf[b] = f /\ Struck(b)

\* What is deleted with a task is still that task's, or gone.
Emptying(q) ==
    q.op \in {"drop", "emptied"} =>
        \A a \in q.files : /\ attachment[a] # Nil
                           /\ a \in Rows(attachment) => attachment[a].task = q.task

FileInv ==
    /\ \A a \in Rows(attachment) : Held(FileOf[a])
    /\ \A r \in Request : request[r].op = "uploaded" => Held(request[r].file)
    /\ \A r \in Request : Emptying(request[r])

\* Attachments come and go, and do not come back.
RowsAge == \A b \in Attachment : attachment[b] # Nil => attachment'[b] \in {attachment[b], Gone}

\* No request forgets what it has deleted, unless it is recorded otherwise.
StrikesStay ==
    /\ abandoned \subseteq abandoned'
    /\ \A r \in Request : \A b \in RemovedBy(request[r]) :
         b \in RemovedBy(request'[r]) \/ b \in abandoned' \/ attachment'[b] = Gone

\* A file is deleted only for an attachment that it was stored for.
FilesAreStruck ==
    \A f \in stored : f \in stored' \/ \E b \in Attachment : FileOf[b] = f /\ Struck(b)'

LEMMA HeldStays ==
    ASSUME RowsAge, StrikesStay, FilesAreStruck, NEW f, Held(f)
    PROVE  Held(f)'
<1>1. ASSUME NEW b \in Attachment, Struck(b) PROVE Struck(b)'
  <2>1. CASE Removing(b)
    BY <2>1 DEF Removing, StrikesStay, Struck
  <2>2. CASE b \in abandoned
    BY <2>2 DEF StrikesStay, Struck
  <2>3. CASE attachment[b] = Gone
    BY <2>3, Marks DEF RowsAge, Struck
  <2>4. QED BY <1>1, <2>1, <2>2, <2>3 DEF Struck
<1>2. QED BY <1>1 DEF Held, FilesAreStruck

\* What a request is yet to remove stays of its task.
LEMMA EmptyingStays ==
    ASSUME FilesOK, RowsAge, attachment' \in [Attachment -> AttachmentRow \cup NoRow],
           NEW q \in InFlight, Emptying(q)
    PROVE  Emptying(q)'
<1>1. ASSUME q.op \in {"drop", "emptied"}, NEW a \in q.files
      PROVE  /\ attachment'[a] # Nil
             /\ attachment'[a] \notin NoRow => attachment'[a].task = q.task
  <2>1. a \in Attachment
    BY <1>1, FlightTypes
  <2>2. attachment[a] # Nil /\ (a \in Rows(attachment) => attachment[a].task = q.task)
    BY <1>1 DEF Emptying
  <2>3. attachment'[a] \in {attachment[a], Gone}
    BY <2>1, <2>2 DEF RowsAge
  <2>4. QED BY <2>1, <2>2, <2>3, ItemMarks DEF Rows, FilesOK
<1>2. QED BY <1>1 DEF Emptying, Rows

\* A step shows that the files stay by what it does to the request it is of.
LEMMA FileStep ==
    ASSUME WorkInv, WorkInv', FileInv, RowsAge, StrikesStay, FilesAreStruck,
           \A a \in Rows(attachment)' : a \in Rows(attachment) \/ Held(FileOf[a]),
           \A r \in Request :
               \/ request'[r] = request[r]
               \/ /\ request'[r].op = "uploaded" => Held(request[r].file)'
                  /\ Emptying(request[r])'
    PROVE  FileInv'
<1>1. \A a \in Rows(attachment)' : Held(FileOf[a])'
  BY HeldStays DEF FileInv
<1>2. ASSUME NEW r \in Request, request'[r].op = "uploaded" PROVE Held(request[r].file)'
  <2>1. CASE request'[r] = request[r]
    <3>1. PICK f : f = request[r].file
      OBVIOUS
    <3>2. Held(f)
      BY <1>2, <2>1, <3>1 DEF FileInv
    <3>3. Held(f)'
      BY <3>2, HeldStays
    <3>4. QED BY <2>1, <3>1, <3>3 DEF Held
  <2>2. CASE request'[r] # request[r]
    BY <1>2, <2>2
  <2>3. QED BY <2>1, <2>2
<1>3. ASSUME NEW r \in Request PROVE Emptying(request[r])'
  <2>1. CASE request'[r] = request[r]
    <3>1. request[r] \in InFlight /\ Emptying(request[r])
      BY DEF WorkInv, FlightOK, FileInv
    <3>2. PICK q \in InFlight : q = request[r]
      BY <3>1
    <3>3. Emptying(q)'
      BY <3>1, <3>2, EmptyingStays DEF WorkInv, FilesOK
    <3>4. QED BY <2>1, <3>2, <3>3 DEF Emptying
  <2>2. CASE request'[r] # request[r]
    BY <2>2
  <2>3. QED BY <2>1, <2>2
<1>4. QED BY <1>1, <1>2, <1>3 DEF FileInv

\* A step that sees no attachment and no file.
LEMMA NoFileStep ==
    ASSUME WorkInv, WorkInv', FileInv, UNCHANGED <<attachment, stored>>, abandoned \subseteq abandoned',
           \A r \in Request :
               \/ request'[r] = request[r]
               \/ /\ RemovedBy(request[r]) \subseteq abandoned'
                  /\ request'[r].op \notin {"uploaded", "drop", "emptied"}
    PROVE  FileInv'
<1>1. RowsAge /\ StrikesStay /\ FilesAreStruck
  BY DEF RowsAge, StrikesStay, FilesAreStruck
<1>2. \A a \in Rows(attachment)' : a \in Rows(attachment)
  BY DEF Rows
<1>3. ASSUME NEW r \in Request, request'[r].op \notin {"uploaded", "drop", "emptied"}
      PROVE  Emptying(request[r])'
  BY <1>3 DEF Emptying
<1>4. QED BY <1>1, <1>2, <1>3, FileStep

LEMMA DropReadFiles ==
    ASSUME WorkInv, WorkInv', FileInv, NEW r \in Request, NEW t \in Task, NEW u \in User, DropRead(r, t, u)
    PROVE  FileInv'
<1> DEFINE p == [op |-> "drop", task |-> t, files |-> Of(attachment, t)]
<1>1. /\ request[r] = Idle /\ request' = [request EXCEPT ![r] = p]
      /\ UNCHANGED <<attachment, stored, abandoned>>
  BY DEF DropRead, Begin, KeepItems
<1>2. \A s \in Request : request'[s] = request[s] \/ (s = r /\ request'[s] = p)
  BY <1>1 DEF WorkInv, FlightOK
<1>3. RowsAge /\ StrikesStay /\ FilesAreStruck
  BY <1>1, <1>2, RemovedTypes DEF RowsAge, StrikesStay, FilesAreStruck, RemovedBy, Idle
<1>4. \A a \in Rows(attachment)' : a \in Rows(attachment)
  BY <1>1 DEF Rows
<1>5. ASSUME NEW s \in Request, request'[s] = p
      PROVE  request'[s].op # "uploaded" /\ Emptying(request[s])'
  BY <1>1, <1>5, ItemMarks DEF Emptying, Of, Rows
<1>6. QED BY <1>2, <1>3, <1>4, <1>5, FileStep

LEMMA UploadFiles ==
    ASSUME WorkInv, WorkInv', FileInv, NEW r \in Request, Upload(r)
    PROVE  FileInv'
<1> DEFINE q == request[r]
<1>1. /\ q.op = "attach" /\ Await(r, [q EXCEPT !.op = "uploaded"])
      /\ stored' = stored \cup {q.file} /\ UNCHANGED <<attachment, abandoned>>
  BY DEF Upload
<1>2. q \in InFlight /\ request \in [Request -> InFlight]
  BY DEF WorkInv, FlightOK
<1>3. /\ request'[r].op = "uploaded" /\ request'[r].file = q.file
      /\ \A s \in Request : s # r => request'[s] = request[s]
  <2>1. q \in [op: {"attach", "uploaded"}, file: File, by: User]
    BY <1>1, <1>2 DEF InFlight, DirectoryInFlight, GatewayInFlight, ItemInFlight, Idle
  <2>2. QED BY <1>1, <1>2, <2>1 DEF Await
<1>4. RowsAge /\ StrikesStay /\ FilesAreStruck
  BY <1>1, <1>2, <1>3 DEF RowsAge, StrikesStay, FilesAreStruck, RemovedBy
<1>5. \A a \in Rows(attachment)' : a \in Rows(attachment)
  BY <1>1 DEF Rows
<1>6. Held(request[r].file)'
  BY <1>1, <1>3 DEF Held
<1>7. Emptying(request[r])'
  BY <1>3 DEF Emptying
<1>8. QED BY <1>3, <1>4, <1>5, <1>6, <1>7, FileStep

LEMMA AttachCreateFiles ==
    ASSUME WorkInv, WorkInv', FileInv, NEW r \in Request, NEW a \in Attachment, AttachCreate(r, a)
    PROVE  FileInv'
<1> DEFINE q == request[r]
<1>1. /\ q.op = "uploaded" /\ End(r) /\ attachment[a] = Nil /\ FileOf[a] = q.file
      /\ attachment' = [attachment EXCEPT ![a] = [task |-> q.file.task, by |-> q.by]]
      /\ UNCHANGED <<stored, abandoned>>
  BY DEF AttachCreate
<1>2. /\ request'[r] = Idle /\ \A s \in Request : s # r => request'[s] = request[s]
      /\ \A b \in Attachment : b # a => attachment'[b] = attachment[b]
  BY <1>1 DEF WorkInv, FlightOK, FilesOK, End, Await
<1>3. RowsAge /\ StrikesStay /\ FilesAreStruck
  BY <1>1, <1>2 DEF RowsAge, StrikesStay, FilesAreStruck, RemovedBy
<1>4. ASSUME NEW b \in Rows(attachment)' PROVE b \in Rows(attachment) \/ Held(FileOf[b])
  <2>1. CASE b = a
    BY <1>1, <2>1 DEF FileInv
  <2>2. CASE b # a
    BY <1>1, <1>2, <2>2 DEF Rows, WorkInv, FilesOK
  <2>3. QED BY <2>1, <2>2
<1>5. request'[r].op # "uploaded" /\ Emptying(request[r])'
  BY <1>2 DEF Emptying, Idle
<1>6. QED BY <1>2, <1>3, <1>4, <1>5, FileStep

\* The file goes first: from here on its attachment is struck.
LEMMA DetachFileFiles ==
    ASSUME WorkInv, WorkInv', FileInv, NEW r \in Request, DetachFile(r)
    PROVE  FileInv'
<1> DEFINE q == request[r]
<1>1. /\ q.op = "detach" /\ Await(r, [q EXCEPT !.op = "deleted"])
      /\ stored' \in {stored, stored \ {FileOf[q.attachment]}} /\ UNCHANGED <<attachment, abandoned>>
  BY DEF DetachFile
<1>2. q \in InFlight /\ request \in [Request -> InFlight]
  BY DEF WorkInv, FlightOK
<1>3. /\ q.attachment \in Attachment /\ request'[r].op = "deleted"
      /\ request'[r].attachment = q.attachment
      /\ \A s \in Request : s # r => request'[s] = request[s]
  <2>1. q \in [op: {"detach", "deleted"}, attachment: Attachment]
    BY <1>1, <1>2 DEF InFlight, DirectoryInFlight, GatewayInFlight, ItemInFlight, Idle
  <2>2. QED BY <1>1, <1>2, <2>1 DEF Await
<1>4. Struck(q.attachment)'
  BY <1>3 DEF Struck, Removing, RemovedBy
<1>5. RowsAge /\ StrikesStay
  BY <1>1, <1>2, <1>3 DEF RowsAge, StrikesStay, RemovedBy
<1>6. FilesAreStruck
  BY <1>1, <1>3, <1>4 DEF FilesAreStruck
<1>7. \A b \in Rows(attachment)' : b \in Rows(attachment)
  BY <1>1 DEF Rows
<1>8. request'[r].op # "uploaded" /\ Emptying(request[r])'
  BY <1>3 DEF Emptying
<1>9. QED BY <1>3, <1>5, <1>6, <1>7, <1>8, FileStep

LEMMA DropFilesFiles ==
    ASSUME WorkInv, WorkInv', FileInv, NEW r \in Request, DropFiles(r)
    PROVE  FileInv'
<1> DEFINE q == request[r]
<1>1. /\ q.op = "drop" /\ Await(r, [q EXCEPT !.op = "emptied"])
      /\ \E lost \in SUBSET q.files : stored' = stored \ {FileOf[a] : a \in lost}
      /\ UNCHANGED <<attachment, abandoned>>
  BY DEF DropFiles
<1>2. q \in InFlight /\ request \in [Request -> InFlight]
  BY DEF WorkInv, FlightOK
<1>3. /\ q.files \subseteq Attachment /\ request'[r].op = "emptied"
      /\ request'[r].files = q.files /\ request'[r].task = q.task
      /\ \A s \in Request : s # r => request'[s] = request[s]
  <2>1. q \in [op: {"drop", "emptied"}, task: Task, files: SUBSET Attachment]
    BY <1>1, <1>2 DEF InFlight, DirectoryInFlight, GatewayInFlight, ItemInFlight, Idle
  <2>2. QED BY <1>1, <1>2, <2>1 DEF Await
<1>4. \A a \in q.files : Struck(a)'
  BY <1>3 DEF Struck, Removing, RemovedBy
<1>5. RowsAge /\ StrikesStay
  BY <1>1, <1>2, <1>3 DEF RowsAge, StrikesStay, RemovedBy
<1>6. FilesAreStruck
  BY <1>1, <1>3, <1>4 DEF FilesAreStruck
<1>7. \A b \in Rows(attachment)' : b \in Rows(attachment)
  BY <1>1 DEF Rows
<1>8. request'[r].op # "uploaded" /\ Emptying(request[r])'
  <2>1. Emptying(q)
    BY DEF FileInv
  <2>2. QED BY <1>1, <1>3, <2>1 DEF Emptying, Rows
<1>9. QED BY <1>3, <1>5, <1>6, <1>7, <1>8, FileStep

\* The row goes with what had struck it.
LEMMA RowsGoFiles ==
    ASSUME WorkInv, WorkInv', FileInv, NEW r \in Request, DetachCommit(r) \/ DropCommit(r)
    PROVE  FileInv'
<1> DEFINE q == request[r]
<1>1. q \in InFlight /\ Emptying(q)
  BY DEF WorkInv, FlightOK, FileInv
<1>2. /\ End(r) /\ UNCHANGED <<stored, abandoned>>
      /\ \A b \in Attachment : attachment'[b] \in {attachment[b], Gone}
      /\ \A b \in RemovedBy(q) : attachment'[b] = Gone
  <2>1. CASE DetachCommit(r)
    <3>1. /\ q.op = "deleted" /\ End(r) /\ UNCHANGED <<stored, abandoned>>
          /\ attachment' = [attachment EXCEPT ![q.attachment] = Gone]
      BY <2>1 DEF DetachCommit
    <3>2. q.attachment \in Attachment /\ RemovedBy(q) = {q.attachment}
      BY <1>1, <3>1, FlightTypes, RemovedTypes
    <3>3. QED BY <3>1, <3>2 DEF WorkInv, FilesOK
  <2>2. CASE DropCommit(r)
    <3>1. /\ q.op = "emptied" /\ End(r) /\ UNCHANGED <<stored, abandoned>>
          /\ attachment' = Cascade(attachment, q.task)
      BY <2>2 DEF DropCommit
    <3>2. q.files \subseteq Attachment /\ RemovedBy(q) = q.files
      BY <1>1, <3>1, FlightTypes, RemovedTypes
    <3>3. \A b \in Attachment : attachment'[b] \in {attachment[b], Gone}
      BY <3>1 DEF Cascade, WorkInv, FilesOK
    <3>4. ASSUME NEW b \in q.files PROVE attachment'[b] = Gone
      <4>1. attachment[b] # Nil /\ (b \in Rows(attachment) => attachment[b].task = q.task)
        BY <1>1, <3>1, <3>4 DEF Emptying
      <4>2. b \in DOMAIN attachment /\ NoRow = {Nil, Gone}
        BY <3>2, <3>4, ItemMarks DEF WorkInv, FilesOK
      <4>3. QED BY <3>1, <4>1, <4>2 DEF Cascade, Of, Rows
    <3>5. QED BY <3>1, <3>2, <3>3, <3>4
  <2>3. QED BY <2>1, <2>2
<1>3. request'[r] = Idle /\ \A s \in Request : s # r => request'[s] = request[s]
  BY <1>2 DEF WorkInv, FlightOK, End, Await
<1>4. RowsAge /\ StrikesStay /\ FilesAreStruck
  BY <1>2, <1>3 DEF RowsAge, StrikesStay, FilesAreStruck
<1>5. \A b \in Rows(attachment)' : b \in Rows(attachment)
  BY <1>2, ItemMarks DEF Rows, WorkInv, FilesOK
<1>6. request'[r].op # "uploaded" /\ Emptying(request[r])'
  BY <1>3 DEF Emptying, Idle
<1>7. QED BY <1>2, <1>3, <1>4, <1>5, <1>6, FileStep

\* The other steps of a task's items begin, go on with or end a handler that
\* has deleted nothing.
LEMMA OtherItemFiles ==
    ASSUME WorkInv, WorkInv', FileInv, NEW r \in Request, ItemStep(r),
           ~(Upload(r) \/ DetachFile(r) \/ DropFiles(r) \/ DetachCommit(r) \/ DropCommit(r)),
           \A a \in Attachment : ~AttachCreate(r, a),
           \A t \in Task, u \in User : ~DropRead(r, t, u)
    PROVE  FileInv'
<1>1. UNCHANGED <<attachment, stored, abandoned>>
  BY DEF ItemStep, AddSubTaskRead, AddSubTaskOrder, AddSubTaskCreate, EditSubTaskRead,
     EditSubTaskCommit, ReorderRead, ReorderCommit, DropSubTaskRead, DropSubTaskCommit,
     CommentRead, CommentCreate, DropCommentRead, DropCommentCommit, AttachRead, DetachRead, KeepItems
<1> DEFINE Passes == /\ request[r].op \notin {"deleted", "emptied"}
                     /\ request'[r].op \notin {"uploaded", "drop", "emptied"}
                     /\ \A s \in Request : s # r => request'[s] = request[s]
<1>2. Passes
  <2>1. request \in [Request -> InFlight]
    BY DEF WorkInv, FlightOK
  <2>2. CASE \/ EditSubTaskCommit(r) \/ ReorderCommit(r) \/ DropSubTaskCommit(r) \/ DropCommentCommit(r)
             \/ \E s \in SubTask : AddSubTaskCreate(r, s)
             \/ \E c \in Comment : CommentCreate(r, c)
    BY <2>1, <2>2 DEF EditSubTaskCommit, ReorderCommit, DropSubTaskCommit, DropCommentCommit,
       AddSubTaskCreate, CommentCreate, End, Await, Idle
  <2>3. CASE AddSubTaskOrder(r)
    <3>1. PICK n : Await(r, [op |-> "ordered", task |-> request[r].task, order |-> n])
      BY <2>3 DEF AddSubTaskOrder
    <3>2. request[r].op = "addSubTask"
      BY <2>3 DEF AddSubTaskOrder
    <3>3. QED BY <2>1, <3>1, <3>2 DEF Await
  <2>4. ASSUME NEW t \in Task, NEW u \in User,
               \/ AddSubTaskRead(r, t) \/ \E p \in Comment \cup {Nil} : CommentRead(r, t, u, p)
               \/ \E n \in FileName : AttachRead(r, [task |-> t, name |-> n], u)
        PROVE  Passes
    BY <2>1, <2>4 DEF AddSubTaskRead, CommentRead, AttachRead, Begin, Idle
  <2>5. ASSUME NEW s \in SubTask, EditSubTaskRead(r, s) \/ \E u \in User : DropSubTaskRead(r, s, u)
        PROVE  Passes
    BY <2>1, <2>5 DEF EditSubTaskRead, DropSubTaskRead, Begin, Idle
  <2>6. ASSUME \/ \E ids \in load.orders : ReorderRead(r, ids)
               \/ \E c \in Comment, u \in User : DropCommentRead(r, c, u)
               \/ \E a \in Attachment, u \in User : DetachRead(r, a, u)
        PROVE  Passes
    BY <2>1, <2>6 DEF ReorderRead, DropCommentRead, DetachRead, Begin, Idle
  <2>7. QED BY <2>2, <2>3, <2>4, <2>5, <2>6 DEF ItemStep
<1>3. \A s \in Request :
        \/ request'[s] = request[s]
        \/ s = r /\ request'[s].op \notin {"uploaded", "drop", "emptied"}
  BY <1>2
<1>4. RemovedBy(request[r]) = {}
  BY <1>2, RemovedTypes DEF WorkInv, FlightOK
<1>5. QED BY <1>1, <1>3, <1>4, NoFileStep

LEMMA FileInvStands == ASSUME WorkInv, WorkInv', FileInv, [Next]_vars PROVE FileInv'
<1>1. ASSUME NEW r \in Request, ItemStep(r) PROVE FileInv'
  BY <1>1, DropReadFiles, UploadFiles, AttachCreateFiles, DetachFileFiles, DropFilesFiles,
     RowsGoFiles, OtherItemFiles
<1>2. ASSUME NEW r \in Request, DirectoryStep(r), UNCHANGED itemVars PROVE FileInv'
  <2>1. ASSUME NEW s \in Request
        PROVE  \/ request'[s] = request[s]
               \/ RemovedBy(request[s]) = {} /\ request'[s].op \notin {"uploaded", "drop", "emptied"}
    BY <1>2, DirectoryMoves, RemovedTypes DEF DirectoryOps, WorkInv, FlightOK
  <2>2. QED BY <1>2, <2>1, NoFileStep DEF itemVars
<1>3. ASSUME NEW r \in Request, Socketly(ClientCall(r)) PROVE FileInv'
  <2>1. ASSUME NEW s \in Request
        PROVE  \/ request'[s] = request[s]
               \/ RemovedBy(request[s]) = {} /\ request'[s].op \notin {"uploaded", "drop", "emptied"}
    <3>1. request'[s] = request[s] \/ (request[s].op \in {"idle", "switch"}
                                       /\ request'[s].op \in {"idle", "switch"})
      BY <1>3, ClientMoves DEF Socketly, WorkInv
    <3>2. QED BY <3>1, RemovedTypes DEF WorkInv, FlightOK
  <2>2. QED BY <1>3, <2>1, NoFileStep DEF Socketly, itemVars
<1>4. ASSUME NEW r \in Request, Fail(r) PROVE FileInv'
  <2>1. /\ UNCHANGED <<attachment, stored>> /\ abandoned' = abandoned \cup RemovedBy(request[r])
        /\ request'[r] = Idle /\ \A s \in Request : s # r => request'[s] = request[s]
    BY <1>4 DEF Fail, End, Await, WorkInv, FlightOK
  <2>2. QED BY <2>1, NoFileStep DEF Idle
<1>5. CASE Restart
  <2>1. /\ UNCHANGED <<attachment, stored>> /\ \A r \in Request : request'[r] = Idle
        /\ abandoned' = abandoned \cup UNION {RemovedBy(request[r]) : r \in Request}
    BY <1>5 DEF Restart
  <2>2. QED BY <2>1, NoFileStep DEF Idle
<1>6. CASE UNCHANGED <<itemVars, request>>
  BY <1>6, NoFileStep DEF itemVars
<1>7. QED BY <1>1, <1>2, <1>3, <1>4, <1>5, <1>6 DEF Next, Frozen, Socketly, vars, frame

\* Whatever uploads, removals, deletions of tasks, failures and restarts overlap,
\* and whatever names the clients give: an attachment that is shown has its file,
\* unless it, or another that was stored under the same name, is being removed,
\* was removed, or was to be (addAttachment, removeAttachment and remove of
\* task.service.ts, upload.service.ts).
THEOREM FilesAlwaysStay == Spec => []FilesStay
<1>1. ASSUME Init PROVE FileInv
  <2>1. /\ attachment = [a \in Attachment |-> Nil] /\ \A r \in Request : request[r] = Idle
    BY <1>1, LoadAssumption DEF Init, RequestsInit, ItemInit
  <2>2. Rows(attachment) = {}
    BY <2>1, ItemMarks DEF Rows
  <2>3. QED BY <2>1, <2>2 DEF FileInv, Emptying, Idle
<1>2. FileInv /\ WorkInv /\ WorkInv' /\ [Next]_vars => FileInv'
  BY FileInvStands
<1>3. ASSUME WorkInv, FileInv PROVE FilesStay
  <2>1. ASSUME NEW a \in Rows(attachment), FileOf[a] \notin stored
        PROVE  \/ Removing(a) \/ a \in abandoned
               \/ \E b \in Attachment \ {a} :
                    FileOf[b] = FileOf[a] /\ (Removing(b) \/ b \in abandoned \/ attachment[b] = Gone)
    <3>1. PICK b \in Attachment : FileOf[b] = FileOf[a] /\ Struck(b)
      BY <1>3, <2>1 DEF FileInv, Held
    <3>2. attachment[a] # Gone
      BY ItemMarks DEF Rows
    <3>3. QED BY <3>1, <3>2 DEF Struck
  <2>2. QED BY <2>1 DEF FilesStay
<1>4. QED BY <1>1, <1>2, <1>3, WorkInvariance, PTL DEF Spec

----------------------------------------------------------------------------

\* Type correctness, with the foreign keys of the rows of a task: what the
\* handlers of the directory, of a task's items and of the gateway keep, whatever
\* they read before the rows they read are gone.
THEOREM WorkspaceTypeCorrect == Spec => []TypeOK
<1>1. ASSUME MembersOK, WorkInv, SocketInv, BeatsOK PROVE TypeOK
  <2>1. DirectoryTypeOK
    BY <1>1 DEF DirectoryTypeOK, MembersOK, WorkInv, DepartmentsOK, ProfilesOK
  <2>2. GatewayTypeOK
    BY <1>1 DEF GatewayTypeOK, SocketInv, SocketTypes, BeatsOK, BeatState
  <2>3. ItemTypeOK
    BY <1>1 DEF ItemTypeOK, WorkInv, ItemsOK, FilesOK
  <2>4. QED BY <1>1, <2>1, <2>2, <2>3 DEF TypeOK, WorkInv, FlightOK
<1>2. QED BY <1>1, MembersInvariance, WorkInvariance, SocketInvariance, PTL
=============================================================================
