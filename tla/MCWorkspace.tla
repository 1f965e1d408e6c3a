---------------------------- MODULE MCWorkspace ----------------------------
(* Small instances of Workspace for TLC. *)
EXTENDS Workspace, TLC

CONSTANTS ann, bob, cy, home, away, d1, d2, n1, n2, k1, g1, g2, s1, s2, t1, i1, i2, i3, c1, c2, c3,
    a1, a2, a3, f1, f2, r1, r2

Roles(a, b, c) == (ann :> a @@ bob :> b @@ cy :> c)
Members(roles) == [u \in User |-> (home :> roles[u] @@ away :> Nil)]
Placed(d, s) == [dept |-> d, sup |-> s]

NoTask == [t \in Task |-> Gone]
NoSubTask == [s \in SubTask |-> Gone]
Sub(t, k) == [task |-> t, order |-> k, done |-> FALSE]

Quiet ==
    [ops |-> (r1 :> {} @@ r2 :> {}), calls |-> 0,
     member |-> Members(Roles("owner", "supervisor", "member")),
     profile |-> (ann :> Nil @@ bob :> Placed(d1, Nil) @@ cy :> Placed(d1, bob)),
     department |-> (d1 :> [name |-> n1, head |-> Nil] @@ d2 :> Nil),
     session |-> (k1 :> Gone), sockets |-> {}, throws |-> FALSE,
     task |-> NoTask, subtask |-> NoSubTask, orders |-> {}]

Pair(ops1, ops2, n) == [Quiet EXCEPT !.ops = (r1 :> ops1 @@ r2 :> ops2), !.calls = n]

\* bob with one tab or two, a member of both organizations, or of home only.
Tabs(tabs, ops1, ops2, n, both) ==
    [Pair(ops1, ops2, n) EXCEPT
        !.sockets = tabs, !.session = (k1 :> [user |-> bob, org |-> home]),
        !.member[bob][away] = IF both THEN "member" ELSE Nil]

\* Two attachments of t1 may have the same name.
MCFileOf ==
    LET Stored(f) == [task |-> t1, name |-> f] IN (a1 :> Stored(f1) @@ a2 :> Stored(f1) @@ a3 :> Stored(f2))

TaskOf(u, done) == [NoTask EXCEPT ![t1] = [by |-> u, done |-> done]]

MCLoad ==
    {\* The directory, one call at a time and two.
     Pair({"profile", "reassign", "found", "modify", "dissolve", "membership"}, {}, 2),
     [Pair({"profile"}, {"dissolve", "reassign"}, 2) EXCEPT
        !.department = (d1 :> [name |-> n1, head |-> Nil] @@ d2 :> [name |-> n2, head |-> cy])],
     Pair({"found", "modify"}, {"modify", "membership"}, 2),
     \* The gateway.
     Tabs({s1}, {"switch"}, {"setActive"}, 2, FALSE),
     Tabs({s1}, {"setActive"}, {}, 1, TRUE),
     Tabs({s1}, {"switch", "signOut"}, {}, 2, FALSE),
     Tabs({s1}, {}, {"membership"}, 1, TRUE),
     Tabs({s1, s2}, {}, {}, 0, FALSE),
     [Tabs({s1}, {"switch"}, {}, 1, TRUE) EXCEPT !.throws = TRUE],
     \* What hangs on a task.
     [Pair({"addSubTask", "reorder"}, {"addSubTask", "editSubTask", "dropSubTask"}, 2) EXCEPT
        !.task = TaskOf(ann, FALSE),
        !.subtask = [NoSubTask EXCEPT ![i1] = Sub(t1, 1), ![i2] = Nil, ![i3] = Nil],
        !.orders = {<<i1>>, <<i1, i2>>, <<i2, i1>>, <<i1, i1>>}],
     [Pair({"comment", "drop"}, {"dropComment", "comment"}, 3) EXCEPT !.task = TaskOf(ann, FALSE)],
     [Pair({"attach", "drop"}, {"attach", "detach"}, 3) EXCEPT !.task = TaskOf(ann, TRUE)]}
=============================================================================
