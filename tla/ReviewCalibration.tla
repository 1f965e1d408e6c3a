------------------------- MODULE ReviewCalibration --------------------------
(***************************************************************************)
(* Calibration sessions: createCalibrationSession, adjustScore and         *)
(* finalizeSession of src/src/modules/review/review.service.ts.  Only the  *)
(* facilitator or an owner gets past the first check of the last two, so   *)
(* who calls is left out.  A note comes with every score (the DTO requires *)
(* both), so an entry has a note exactly when its calibratedScore is set.  *)
(***************************************************************************)
EXTENDS ReviewStore

\* Fault: sessions may open while the cycle is still active.
CreateSessionRead_Early(r, c, scope) ==
    /\ cycle[c].status \in {"ACTIVE", "CALIBRATING"}
    /\ Begin(r, "createSession", [op |-> "createSession", cycle |-> c, scope |-> scope])
    /\ UNCHANGED rows

\* scope: the users of the department, or everyone when no department is given.
CreateSessionRead(r, c, scope) ==
    /\ cycle[c].status = "CALIBRATING"
    /\ Begin(r, "createSession", [op |-> "createSession", cycle |-> c, scope |-> scope])
    /\ UNCHANGED rows

\* The users with at least one submitted review that carries a score.
CreateSessionLoad(r) ==
    LET q == request[r]
        counts(row) == row # Nil /\ row.status = "SUBMITTED" /\ row.score # Nil
    IN
    /\ q.op = "createSession"
    /\ Await(r, [op |-> "createSessionLoaded", cycle |-> q.cycle,
                 members |-> {u \in q.scope : \E v \in User : counts(review[q.cycle][<<u, v>>])}])
    /\ UNCHANGED rows

CreateSessionCommit(r, s) ==
    LET q == request[r] IN
    /\ q.op = "createSessionLoaded"
    /\ session[s].status = "UNBORN" /\ CycleExists(q.cycle)
    /\ session' = [session EXCEPT ![s] = [status |-> "in_progress", cycle |-> q.cycle,
                                          scores |-> [u \in q.members |-> Nil]]]
    /\ End(r)
    /\ UNCHANGED <<template, cycle, review, nomination, performance, notice>>

\* The whole JSON column is read, one entry changed, and the whole column written.
AdjustRead(r, s, u, score) ==
    /\ session[s].status = "in_progress"
    /\ u \in DOMAIN session[s].scores
    /\ Begin(r, "adjust", [op |-> "adjust", session |-> s,
                           scores |-> [session[s].scores EXCEPT ![u] = score]])
    /\ UNCHANGED rows

SessionExists(s) == session[s].status \in {"in_progress", "finalized"}

AdjustCommit(r) ==
    LET q == request[r] IN
    /\ q.op = "adjust"
    /\ SessionExists(q.session)
    /\ session' = [session EXCEPT ![q.session].scores = q.scores]
    /\ End(r)
    /\ UNCHANGED <<template, cycle, review, nomination, performance, notice>>

\* Fault: entries without a score are let through.
FinalizeRead_Incomplete(r, s) ==
    /\ session[s].status = "in_progress"
    /\ Begin(r, "finalize", [op |-> "finalize", session |-> s, scores |-> session[s].scores])
    /\ UNCHANGED rows

\* "Cannot finalize" while an entry misses its score or note.
FinalizeRead(r, s) ==
    /\ session[s].status = "in_progress"
    /\ \A u \in DOMAIN session[s].scores : session[s].scores[u] # Nil
    /\ Begin(r, "finalize", [op |-> "finalize", session |-> s, scores |-> session[s].scores])
    /\ UNCHANGED rows

FinalizeCommit(r) ==
    LET q == request[r] IN
    /\ q.op = "finalize"
    /\ SessionExists(q.session)
    /\ performance' = [u \in User |->
           IF u \in DOMAIN q.scores
           THEN [reviewScore |-> q.scores[u], lastReviewCycle |-> session[q.session].cycle]
           ELSE performance[u]]
    /\ session' = [session EXCEPT ![q.session].status = "finalized"]
    /\ End(r)
    /\ UNCHANGED <<template, cycle, review, nomination, notice>>
=============================================================================
