---------------------------- MODULE Performance -----------------------------
(***************************************************************************)
(* The performance record: the score of recalculateForUser                 *)
(* (src/src/modules/performance/performance.service.ts), the listeners     *)
(* that queue recalculations, and the one worker (performance.processor.ts,*)
(* BullMQ's default concurrency) that runs them.  The queue's add gives no *)
(* attempts, so a job that fails once is gone.                             *)
(***************************************************************************)
EXTENDS TaskStore

\* Fault: a late completion costs as much as it should earn.
Points_LatePenalty(c) ==
    50 * c.assigned + 50 * c.onTime - 40 * c.overdue + 10 * (c.onTime + c.late) - 60 * c.late

\* assigned times the performanceScore, before it is clamped to 0..100.
Points(c) ==
    50 * c.assigned + 50 * c.onTime - 40 * c.overdue + 10 * (c.onTime + c.late) + 10 * c.late

\* The score reaches a threshold.  The quotients are floating point: a score
\* that lies on a threshold exactly may come out just below it (with 2 on time
\* and 3 overdue of 6: 49.99999999999999), unless every term is zero.
MayReach(c, threshold) == Points(c) >= threshold * c.assigned
MayMiss(c, threshold) ==
    \/ Points(c) < threshold * c.assigned
    \/ Points(c) = threshold * c.assigned /\ c.onTime + c.late + c.overdue > 0

\* The ratings the code may give to these counts.
Ratings(c) ==
    IF c.assigned = 0 THEN {"Average"}
    ELSE {x \in RatingNames :
            CASE x = "Excellent" -> MayReach(c, 90)
              [] x = "Good" -> MayReach(c, 75) /\ MayMiss(c, 90)
              [] x = "Average" -> MayReach(c, 50) /\ MayMiss(c, 75)
              [] x = "NeedsImprovement" -> MayMiss(c, 50)}

----------------------------------------------------------------------------

\* The listeners of CREATED, STATUS_CHANGED, DELETED and REASSIGNED, and the cron.
Enqueue(r) ==
    /\ request[r].op = "publish"
    /\ queue' = Append(queue, request[r].users)
    /\ End(r)
    /\ UNCHANGED <<task, record, worker, lost>>

\* recalculateAll, asked for by an admin: everyone a task is assigned to now.
RecalculateAll(r) ==
    LET users == {task[t].assignee : t \in {t \in Task : Exists(t)}} IN
    /\ users # {}
    /\ Begin(r, "recalculateAll", [op |-> "publish", users |-> users])
    /\ UNCHANGED <<task, record, queue, worker, lost>>

TakeJob ==
    /\ worker = Nil /\ queue # <<>>
    /\ worker' = [users |-> Head(queue), user |-> Nil, counts |-> Nil]
    /\ queue' = Tail(queue)
    /\ UNCHANGED <<task, record, request, calls, lost>>

\* The users of a job come in the order of its array, which nothing depends on.
RecalculateRead(u) ==
    /\ worker # Nil /\ worker.user = Nil /\ u \in worker.users
    /\ worker' = [worker EXCEPT !.user = u, !.counts = Actual(u)]
    /\ lost' = lost \ {u}
    /\ UNCHANGED <<task, record, queue, request, calls>>

\* Fault: the job is done after its first user.
RecalculateWrite_OneUser(rating) ==
    /\ worker # Nil /\ worker.user # Nil
    /\ rating \in Ratings(worker.counts)
    /\ record' = [record EXCEPT ![worker.user] = [counts |-> worker.counts, rating |-> rating]]
    /\ worker' = Nil
    /\ UNCHANGED <<task, queue, request, calls, lost>>

RecalculateWrite(rating) ==
    LET left == worker.users \ {worker.user} IN
    /\ worker # Nil /\ worker.user # Nil
    /\ rating \in Ratings(worker.counts)
    /\ record' = [record EXCEPT ![worker.user] = [counts |-> worker.counts, rating |-> rating]]
    /\ worker' = IF left = {} THEN Nil ELSE [users |-> left, user |-> Nil, counts |-> Nil]
    /\ UNCHANGED <<task, queue, request, calls, lost>>

JobFails ==
    /\ worker # Nil
    /\ lost' = lost \cup worker.users
    /\ worker' = Nil
    /\ UNCHANGED <<task, record, queue, request, calls>>
=============================================================================
