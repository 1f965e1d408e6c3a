------------------------ MODULE ComplaintLifecycle ------------------------
(***************************************************************************)
(* What VALID_TRANSITIONS of src/src/modules/complaint/complaint.service.ts *)
(* and the cron for late complaints promise together: the stages of a      *)
(* complaint, without handlers, awaits, users or time.                     *)
(***************************************************************************)
CONSTANT Complaint

VARIABLE stage

Open == {"OPEN", "IN_REVIEW"}
Closed == {"RESOLVED", "DISMISSED"}
Stage == Open \cup {"LATE"} \cup Closed \cup {"none", "deleted"}

Init == stage \in [Complaint -> Stage]

Move(c, from, to) == stage[c] \in from /\ stage' = [stage EXCEPT ![c] = to]

File(c) == Move(c, {"none"}, "OPEN")
Attend(c) == Move(c, {"OPEN", "LATE"}, "IN_REVIEW")
Close(c) == \E s \in Closed : Move(c, {"IN_REVIEW", "LATE"}, s)
Delete(c) == Move(c, Open \cup {"LATE"} \cup Closed, "deleted")

\* The cron takes all it finds in one update.
Lapse ==
    \E S \in SUBSET {c \in Complaint : stage[c] \in Open} :
        stage' = [c \in Complaint |-> IF c \in S THEN "LATE" ELSE stage[c]]

Next == Lapse \/ \E c \in Complaint : File(c) \/ Attend(c) \/ Close(c) \/ Delete(c)

Spec == Init /\ [][Next]_stage
=============================================================================
