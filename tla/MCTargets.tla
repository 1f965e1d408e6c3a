----------------------------- MODULE MCTargets ------------------------------
(* Small instances of Targets for TLC. *)
EXTENDS Targets, TLC

CONSTANTS c, m, i, j, r1, r2

MCValue == -2000..2000

Same == [parent |-> "keep", goal |-> -1, status |-> "keep", deadline |-> "keep"]

\* One column at a time.
MCChange ==
    {[Same EXCEPT !.parent = p] : p \in Target \cup {Nil}}
    \cup {[Same EXCEPT !.goal = g] : g \in Goal}
    \cup {[Same EXCEPT !.status = s] : s \in {"COMPLETED", "ON_TRACK"}}
    \cup {[Same EXCEPT !.deadline = "far"]}

Row(type, parent, goal) ==
    [type |-> type, parent |-> parent, goal |-> goal, value |-> 0,
     status |-> "ON_TRACK", deadline |-> "far"]

\* company c, team m under it, individual i under the team; j is still free, or
\* a second target of the team or of the company.
Chain == (c :> Row("COMPANY", Nil, 200) @@ m :> Row("TEAM", c, 200)
          @@ i :> Row("INDIVIDUAL", m, 100) @@ j :> Nil)
Fork == [Chain EXCEPT ![j] = Row("INDIVIDUAL", m, 0)]
TwoTeams == [Chain EXCEPT ![j] = Row("TEAM", c, 100)]

Serial(ops) == (r1 :> ops @@ r2 :> {})
Pair(ops) == (r1 :> ops @@ r2 :> ops)

Entries == {"addEntry", "deleteEntry"}
Structure == {"create", "update", "remove"}

\* One handler at a time: the life of entries in a tree that changes.  Two at a
\* time: the structure alone, and entries of targets that go away.  With the
\* crons: one target whose deadline passes.
MCLoad ==
    {[ops |-> Serial(Entries \cup Structure), calls |-> 3, seed |-> s, aging |-> {}] :
        s \in {Chain, Fork, TwoTeams}}
    \cup {[ops |-> Serial(Entries), calls |-> 4, seed |-> s, aging |-> {}] : s \in {Fork, TwoTeams}}
    \cup {[ops |-> Pair(Structure), calls |-> 3, seed |-> s, aging |-> {}] : s \in {TwoTeams}}
    \cup {[ops |-> Pair(Entries \cup {"remove"}), calls |-> 3, seed |-> Fork, aging |-> {}]}
    \cup {[ops |-> Pair({"update", "addEntry"}), calls |-> 2, seed |-> Chain, aging |-> {i}]}
=============================================================================
