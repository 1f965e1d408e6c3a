----------------------------- MODULE Directory -----------------------------
(***************************************************************************)
(* Members, profiles and departments: src/src/modules/user/user.service.ts *)
(* and src/src/modules/department/department.service.ts.  Profiles and     *)
(* departments are those of one organization, Home: every query names one. *)
(* Membership is better-auth's and external.  Left out: names, pictures    *)
(* and branding, descriptions, the status of a profile, the audit log.     *)
(***************************************************************************)
EXTENDS Requests, FiniteSets

CONSTANTS
    User,
    Org,         \* the organizations
    Home,        \* the one whose profiles, departments and tasks are looked at
    Department,  \* ids, never used twice
    Name,        \* names of departments
    Nil, Gone    \* an id not yet used, SQL NULL, a field that is not in the
                 \* dto; a row that was deleted

VARIABLES
    member,     \* the Member rows: the role of a user in an organization
    profile,    \* the UserProfile rows of Home
    department  \* its Department rows

directoryVars == <<member, profile, department>>

NoRow == {Nil, Gone}
Role == {"owner", "admin", "supervisor", "member"}
Rank == [owner |-> 3, admin |-> 2, supervisor |-> 1, member |-> 0]

Profile == [dept: Department \cup {Nil}, sup: User \cup {Nil}]
DepartmentRow == [name: Name, head: User \cup {Nil}]
DepartmentExists(d) == d # Nil /\ department[d] \notin NoRow
Named(n) == {d \in Department : DepartmentExists(d) /\ department[d].name = n}

RoleOf(u) == member[u][Home]
IsMember(u) == RoleOf(u) # Nil

\* outranks: one who is no longer a member counts as a member.
Outranks(u, v) == Rank[RoleOf(u)] > (IF IsMember(v) THEN Rank[RoleOf(v)] ELSE 0)

\* RolesGuard: someone may call what asks for one of these roles.
RolesGuard(roles) == \E u \in User : RoleOf(u) \in roles

ASSUME DirectoryAssumption ==
    /\ Home \in Org /\ Nil # Gone
    /\ NoRow \cap (User \cup Org \cup Department \cup Name \cup Profile \cup DepartmentRow) = {}
    /\ \A l \in Load : /\ l.member \in [User -> [Org -> Role \cup {Nil}]]
                       /\ l.profile \in [User -> Profile \cup {Nil}]
                       /\ l.department \in [Department -> DepartmentRow \cup NoRow]

DirectoryInit ==
    /\ member = load.member
    /\ profile = load.profile
    /\ department = load.department

DirectoryInFlight ==
    [op: {"profile", "placed", "supervised"}, user: User,
     dept: Department \cup {Nil}, sup: User \cup {Nil}]
    \cup [op: {"reassign", "counted"}, from: User, to: User, team: SUBSET User]
    \cup [op: {"found", "renamed", "headed"}, dept: Department, name: Name, head: User \cup {Nil}]
    \cup [op: {"modify", "modified", "appointed"}, dept: Department, was: Name,
          name: Name \cup {Nil}, head: User \cup {Nil}]
    \cup [op: {"dissolve"}, dept: Department]

----------------------------------------------------------------------------
(* updateProfile: three checks, each a query, then the upsert.             *)

ProfileRead(r, u, d, s) ==
    /\ Begin(r, "profile", [op |-> "profile", user |-> u, dept |-> d, sup |-> s])
    /\ RolesGuard({"owner", "admin"}) /\ IsMember(u)
    /\ UNCHANGED directoryVars

ProfileDepartment(r) ==
    LET q == request[r] IN
    /\ q.op = "profile"
    /\ q.dept # Nil => DepartmentExists(q.dept)
    /\ Await(r, [q EXCEPT !.op = "placed"])
    /\ UNCHANGED directoryVars

ProfileSupervisor(r) ==
    LET q == request[r] IN
    /\ q.op = "placed"
    /\ q.sup # Nil => RoleOf(q.sup) \in {"supervisor", "admin", "owner"}
    /\ Await(r, [q EXCEPT !.op = "supervised"])
    /\ UNCHANGED directoryVars

\* What the dto does not name stays; the foreign key refuses a department that
\* was deleted meanwhile.
Merged(p, q) ==
    [dept |-> IF q.dept # Nil \/ p = Nil THEN q.dept ELSE p.dept,
     sup |-> IF q.sup # Nil \/ p = Nil THEN q.sup ELSE p.sup]

ProfileUpsert(r) ==
    LET q == request[r] IN
    /\ q.op = "supervised"
    /\ q.dept # Nil => DepartmentExists(q.dept)
    /\ profile' = [profile EXCEPT ![q.user] = Merged(@, q)]
    /\ End(r)
    /\ UNCHANGED <<member, department>>

----------------------------------------------------------------------------
(* reassignTeam.  Nothing is asked of the new supervisor's role, and they  *)
(* may be one of the team.                                                 *)

Team(u) == {v \in User : profile[v] # Nil /\ profile[v].sup = u}

ReassignRead(r, u, v, team) ==
    /\ Begin(r, "reassign", [op |-> "reassign", from |-> u, to |-> v, team |-> team])
    /\ RolesGuard({"owner", "admin"}) /\ IsMember(u) /\ IsMember(v)
    /\ UNCHANGED directoryVars

ReassignCount(r) ==
    LET q == request[r] IN
    /\ q.op = "reassign"
    /\ Team(q.from) \cap q.team # {}
    /\ Await(r, [q EXCEPT !.op = "counted"])
    /\ UNCHANGED directoryVars

ReassignCommit(r) ==
    LET q == request[r] IN
    /\ q.op = "counted"
    /\ profile' = [u \in User |-> IF u \in Team(q.from) \cap q.team
                                  THEN [profile[u] EXCEPT !.sup = q.to] ELSE profile[u]]
    /\ End(r)
    /\ UNCHANGED <<member, department>>

----------------------------------------------------------------------------
(* Departments.                                                            *)

FoundRead(r, d, n, u) ==
    /\ Begin(r, "found", [op |-> "found", dept |-> d, name |-> n, head |-> u])
    /\ RolesGuard({"owner", "admin"}) /\ department[d] = Nil
    /\ Named(n) = {}
    /\ UNCHANGED directoryVars

FoundHead(r) ==
    LET q == request[r] IN
    /\ q.op = "found"
    /\ q.head # Nil => IsMember(q.head)
    /\ Await(r, [q EXCEPT !.op = "headed"])
    /\ UNCHANGED directoryVars

\* The unique key refuses a name that was taken meanwhile.
FoundCommit(r) ==
    LET q == request[r] IN
    /\ q.op = "headed" /\ department[q.dept] = Nil /\ Named(q.name) = {}
    /\ department' = [department EXCEPT ![q.dept] = [name |-> q.name, head |-> q.head]]
    /\ End(r)
    /\ UNCHANGED <<member, profile>>

ModifyRead(r, d, n, u) ==
    /\ DepartmentExists(d)
    /\ Begin(r, "modify", [op |-> "modify", dept |-> d, was |-> department[d].name,
                           name |-> n, head |-> u])
    /\ RolesGuard({"owner", "admin"})
    /\ UNCHANGED directoryVars

ModifyName(r) ==
    LET q == request[r] IN
    /\ q.op = "modify"
    /\ q.name \notin {Nil, q.was} => Named(q.name) = {}
    /\ Await(r, [q EXCEPT !.op = "modified"])
    /\ UNCHANGED directoryVars

ModifyHead(r) ==
    LET q == request[r] IN
    /\ q.op = "modified"
    /\ q.head # Nil => IsMember(q.head)
    /\ Await(r, [q EXCEPT !.op = "appointed"])
    /\ UNCHANGED directoryVars

ModifyCommit(r) ==
    LET q == request[r] IN
    /\ q.op = "appointed" /\ DepartmentExists(q.dept)
    /\ q.name # Nil => Named(q.name) \subseteq {q.dept}
    /\ department' = [department EXCEPT ![q.dept] =
           [name |-> IF q.name = Nil THEN @.name ELSE q.name,
            head |-> IF q.head = Nil THEN @.head ELSE q.head]]
    /\ End(r)
    /\ UNCHANGED <<member, profile>>

Staff(d) == {u \in User : profile[u] # Nil /\ profile[u].dept = d}

DissolveRead(r, d) ==
    /\ Begin(r, "dissolve", [op |-> "dissolve", dept |-> d])
    /\ RolesGuard({"owner", "admin"}) /\ DepartmentExists(d)
    /\ Staff(d) = {}
    /\ UNCHANGED directoryVars

\* ON DELETE SET NULL for staff that was assigned meanwhile.
DissolveCommit(r) ==
    LET q == request[r] IN
    /\ q.op = "dissolve" /\ DepartmentExists(q.dept)
    /\ department' = [department EXCEPT ![q.dept] = Gone]
    /\ profile' = [u \in User |-> IF u \in Staff(q.dept)
                                  THEN [profile[u] EXCEPT !.dept = Nil] ELSE profile[u]]
    /\ End(r)
    /\ UNCHANGED member

----------------------------------------------------------------------------

\* better-auth: somebody joins, leaves, or gets another role.  It keeps an owner.
Membership(r, u, o, role) ==
    /\ Call(r, "membership")
    /\ member[u][o] # role
    /\ member' = [member EXCEPT ![u][o] = role]
    /\ \E v \in User : member'[v][o] = "owner"
    /\ UNCHANGED <<profile, department>>

DirectoryStep(r) ==
    \/ \E u \in User, s \in User \cup {Nil}, d \in Department \cup {Nil} : ProfileRead(r, u, d, s)
    \/ ProfileDepartment(r) \/ ProfileSupervisor(r) \/ ProfileUpsert(r)
    \/ \E u, v \in User, team \in SUBSET User : ReassignRead(r, u, v, team)
    \/ ReassignCount(r) \/ ReassignCommit(r)
    \/ \E d \in Department, u \in User \cup {Nil} :
         \/ \E n \in Name : FoundRead(r, d, n, u)
         \/ \E n \in Name \cup {Nil} : ModifyRead(r, d, n, u)
    \/ FoundHead(r) \/ FoundCommit(r)
    \/ ModifyName(r) \/ ModifyHead(r) \/ ModifyCommit(r)
    \/ \E d \in Department : DissolveRead(r, d)
    \/ DissolveCommit(r)
    \/ \E u \in User, o \in Org, role \in Role \cup {Nil} : Membership(r, u, o, role)

DirectoryTypeOK ==
    /\ member \in [User -> [Org -> Role \cup {Nil}]]
    /\ profile \in [User -> Profile \cup {Nil}]
    /\ department \in [Department -> DepartmentRow \cup NoRow]
=============================================================================
