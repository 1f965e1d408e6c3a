------------------------- MODULE MCTaskPerformance --------------------------
(* Small instances of TaskPerformance for TLC. *)
EXTENDS TaskPerformance, TLC

Same == [assignee |-> Nil, dependsOn |-> "keep", extend |-> FALSE]

\* One column at a time.
MCChange ==
    {[Same EXCEPT !.assignee = u] : u \in User}
    \cup {[Same EXCEPT !.dependsOn = d] : d \in Task \cup {Nil}}
    \cup {[Same EXCEPT !.extend = TRUE]}

AllOps == {"create", "update", "updateStatus", "remove", "addSubTask", "overdue", "recalculateAll"}

\* Without reassignment, and without subtasks: addSubTask emits no event, and
\* when it overlaps the completion of its task it reopens the task unnoticed.
EventfulOps == AllOps \ {"update", "addSubTask"}

\* Users and tasks are interchangeable (not where liveness is checked).
Interchangeable == Permutations(User) \cup Permutations(Task)
=============================================================================
