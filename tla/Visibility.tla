----------------------------- MODULE Visibility -----------------------------
(***************************************************************************)
(* Who sees what: the filters of the lists and the checks of the details,  *)
(* which are written twice in every service, and the scope of the          *)
(* analytics.  u is the caller, a member of Home; rows are looked at by    *)
(* the columns the filters name.                                           *)
(***************************************************************************)
EXTENDS Directory

Admins == {"owner", "admin"}
SeenOf(u) == Team(u) \cup {u}

\* Fault: the supervisor is not added to the team.
PerformanceListed_TeamOnly(u) ==
    CASE RoleOf(u) = "member" -> {u}
      [] RoleOf(u) = "supervisor" -> Team(u)
      [] OTHER -> User

\* PerformanceService.findAll, and TaskService.findAll by assignee.
PerformanceListed(u) ==
    CASE RoleOf(u) = "member" -> {u}
      [] RoleOf(u) = "supervisor" -> SeenOf(u)
      [] OTHER -> User

\* checkViewAccess.
PerformanceOpens(u, v) ==
    CASE RoleOf(u) \in Admins -> TRUE
      [] RoleOf(u) = "member" -> v = u
      [] RoleOf(u) = "supervisor" -> v = u \/ (profile[v] # Nil /\ profile[v].sup = u)

Target ==
    [type: {"COMPANY"}, for: {Nil}, dept: {Nil}]
    \cup [type: {"TEAM"}, for: {Nil}, dept: Department \cup {Nil}]
    \cup [type: {"INDIVIDUAL"}, for: User, dept: {Nil}]

\* A caller without a profile has departmentId undefined: in a filter it
\* matches every team target, in a comparison none.
InDepartment(u, d) == profile[u] # Nil /\ profile[u].dept = d

TargetListed(u, t) ==
    \/ RoleOf(u) \in Admins
    \/ t.type = "COMPANY"
    \/ t.type = "TEAM" /\ (profile[u] = Nil \/ InDepartment(u, t.dept))
    \/ t.type = "INDIVIDUAL" /\ t.for \in (IF RoleOf(u) = "supervisor" THEN SeenOf(u) ELSE {u})

TargetOpens(u, t) ==
    /\ RoleOf(u) = "member" /\ t.type = "INDIVIDUAL" => t.for = u
    /\ RoleOf(u) \notin Admins /\ t.type = "TEAM" => InDepartment(u, t.dept)

ComplaintRow == [by: User, targets: SUBSET User]

\* buildVisibilityFilter and canAccess.
ComplaintListed(u, c) ==
    \/ RoleOf(u) \in Admins
    \/ c.by = u \/ u \in c.targets
    \/ RoleOf(u) = "supervisor" /\ c.by \in Team(u)

ComplaintOpens(u, c) == RoleOf(u) \in Admins \/ c.by = u \/ u \in c.targets

\* resolveScope: whose records the distribution and the comparison count.
AnalyticsScope(u) ==
    CASE RoleOf(u) \in Admins -> User
      [] RoleOf(u) = "supervisor" ->
           IF profile[u] = Nil \/ (profile[u] # Nil /\ profile[u].dept = Nil) THEN User
           ELSE Staff(profile[u].dept)
      [] OTHER -> {u}

\* RecognitionService.create: whom u may recognize.
MayRecognize(u) ==
    {v \in User \ {u} : /\ RoleOf(u) # "member" /\ profile[v] # Nil
                        /\ RoleOf(u) = "supervisor" => profile[v].sup = u}

\* Whatever roles, teams and departments become: a list and the detail agree
\* about performance records; what the list of targets shows, the detail opens,
\* but for the team targets of a caller without a profile; a complaint that opens
\* is listed, and for all but a supervisor the other way round; one may only
\* recognize whose record one may see; and nobody who is bound to a department
\* has analytics of another.
ListsAndDetailsAgree ==
    \A u \in User : IsMember(u) =>
        /\ \A v \in User : v \in PerformanceListed(u) <=> PerformanceOpens(u, v)
        /\ \A t \in Target :
             TargetListed(u, t) /\ (t.type # "TEAM" \/ profile[u] # Nil) => TargetOpens(u, t)
        /\ \A c \in ComplaintRow :
             /\ ComplaintOpens(u, c) => ComplaintListed(u, c)
             /\ RoleOf(u) # "supervisor" /\ ComplaintListed(u, c) => ComplaintOpens(u, c)
        /\ \A v \in MayRecognize(u) : PerformanceOpens(u, v)
        /\ RoleOf(u) \notin Admins /\ profile[u] # Nil /\ profile[u].dept # Nil =>
             \A v \in AnalyticsScope(u) : v = u \/ InDepartment(v, profile[u].dept)
=============================================================================
