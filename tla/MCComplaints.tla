---------------------------- MODULE MCComplaints ----------------------------
(* Small instances of Complaints for TLC. *)
EXTENDS Complaints, TLC

CONSTANTS c1, c2, t1, t2, ann, bob, r1, r2

Row(status, old) ==
    [by |-> bob, targets |-> {ann}, status |-> status, resolvedBy |-> Nil,
     old |-> old, age |-> 2]

None == (c1 :> Gone @@ c2 :> Gone)
New == (c1 :> Nil @@ c2 :> Gone)
Two == (c1 :> Row("OPEN", FALSE) @@ c2 :> Row("LATE", TRUE))

Quiet == [ops |-> (r1 :> {} @@ r2 :> {}), calls |-> 0, seed |-> None, fails |-> FALSE,
          worker |-> FALSE, due |-> {}, warnings |-> 2]

TwoTasks == {[task |-> t1, user |-> ann], [task |-> t2, user |-> bob]}

Pair(ops1, ops2, n, s) == [Quiet EXCEPT !.ops = (r1 :> ops1 @@ r2 :> ops2), !.calls = n, !.seed = s]

\* The life of one complaint, and two complaints that become late, beside
\* deletions and the cron; tasks that fall due, with and without a worker, and
\* with a user who reads and deletes.
MCLoad ==
    {Pair({"file", "update"}, {"delete"}, 3, New),
     Pair({"update"}, {"delete"}, 3, Two),
     [Pair({"update"}, {}, 2, Two) EXCEPT !.fails = TRUE],
     [Quiet EXCEPT !.due = TwoTasks],
     [Quiet EXCEPT !.due = TwoTasks, !.worker = TRUE, !.warnings = 1, !.calls = 1],
     [Quiet EXCEPT !.due = {[task |-> t1, user |-> ann]}, !.worker = TRUE, !.calls = 1]}
=============================================================================
