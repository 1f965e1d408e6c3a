---------------------------- MODULE ReviewCycles ----------------------------
(***************************************************************************)
(* Templates and the lifecycle of a review cycle: the handlers of          *)
(* src/src/modules/review/review.service.ts from createTemplate to         *)
(* completeCycle.  Every call comes from an admin or an owner (the         *)
(* controller's @Roles), so who calls is left out.  Audit entries are left *)
(* out: no handler here reads one.                                         *)
(***************************************************************************)
EXTENDS ReviewStore

CreateTemplate(t) ==
    /\ "createTemplate" \in Op
    /\ template[t] = 0
    /\ template' = [template EXCEPT ![t] = 1]
    /\ UNCHANGED <<cycle, review, nomination, session, performance, notice, request>>

\* Fault: only ACTIVE cycles keep their template from being edited.
UpdateTemplateRead_ActiveOnly(r, t) ==
    /\ TemplateExists(t)
    /\ ~ \E c \in Cycle : cycle[c].template = t /\ cycle[c].status = "ACTIVE"
    /\ Begin(r, "updateTemplate", [op |-> "updateTemplate", template |-> t])
    /\ UNCHANGED rows

\* "Cannot edit a template used by an active or completed cycle"
UpdateTemplateRead(r, t) ==
    /\ TemplateExists(t)
    /\ ~ \E c \in Cycle : cycle[c].template = t /\ cycle[c].status \in Launched
    /\ Begin(r, "updateTemplate", [op |-> "updateTemplate", template |-> t])
    /\ UNCHANGED rows

UpdateTemplateCommit(r) ==
    LET t == request[r].template IN
    /\ request[r].op = "updateTemplate"
    /\ TemplateExists(t) /\ template[t] < MaxVersion
    /\ template' = [template EXCEPT ![t] = @ + 1]
    /\ End(r)
    /\ UNCHANGED <<cycle, review, nomination, session, performance, notice>>

Referenced(t) == \E c \in Cycle : CycleExists(c) /\ cycle[c].template = t

RemoveTemplateRead(r, t) ==
    /\ TemplateExists(t)
    /\ ~Referenced(t)
    /\ Begin(r, "removeTemplate", [op |-> "removeTemplate", template |-> t])
    /\ UNCHANGED rows

\* review_cycle_templateId_fkey is ON DELETE RESTRICT: the key checks again.
RemoveTemplateCommit(r) ==
    LET t == request[r].template IN
    /\ request[r].op = "removeTemplate"
    /\ TemplateExists(t) /\ ~Referenced(t)
    /\ template' = [template EXCEPT ![t] = -1]
    /\ End(r)
    /\ UNCHANGED <<cycle, review, nomination, session, performance, notice>>

----------------------------------------------------------------------------

CreateCycleRead(r, t, ex) ==
    /\ TemplateExists(t)
    /\ Begin(r, "createCycle", [op |-> "createCycle", template |-> t, excluded |-> ex])
    /\ UNCHANGED rows

CreateCycleCommit(r, c) ==
    LET q == request[r] IN
    /\ q.op = "createCycle"
    /\ cycle[c].status = "UNBORN" /\ TemplateExists(q.template)
    /\ cycle' = [cycle EXCEPT ![c] = [status |-> "DRAFT", template |-> q.template,
                                      excluded |-> q.excluded, snapshot |-> Nil]]
    /\ End(r)
    /\ UNCHANGED <<template, review, nomination, session, performance, notice>>

\* t and ex are Nil when the request leaves the column alone.
UpdateCycleRead(r, c, t, ex) ==
    /\ cycle[c].status = "DRAFT"
    /\ t # Nil => TemplateExists(t)
    /\ Begin(r, "updateCycle", [op |-> "updateCycle", cycle |-> c, template |-> t, excluded |-> ex])
    /\ UNCHANGED rows

\* Fault: the row is saved as it was read, status included.
UpdateCycleCommit_SavesStatus(r) ==
    LET q == request[r] IN
    /\ q.op = "updateCycle"
    /\ CycleExists(q.cycle)
    /\ cycle' = [cycle EXCEPT ![q.cycle].status = "DRAFT"]
    /\ End(r)
    /\ UNCHANGED <<template, review, nomination, session, performance, notice>>

UpdateCycleCommit(r) ==
    LET q == request[r] IN
    /\ q.op = "updateCycle"
    /\ CycleExists(q.cycle)
    /\ q.template # Nil => TemplateExists(q.template)
    /\ cycle' = [cycle EXCEPT
           ![q.cycle].template = IF q.template = Nil THEN @ ELSE q.template,
           ![q.cycle].excluded = IF q.excluded = Nil THEN @ ELSE q.excluded]
    /\ End(r)
    /\ UNCHANGED <<template, review, nomination, session, performance, notice>>

\* Fault: an active cycle may be deleted as well.
RemoveCycleRead_AnyOpen(r, c) ==
    /\ cycle[c].status \in {"DRAFT", "ACTIVE"}
    /\ Begin(r, "removeCycle", [op |-> "removeCycle", cycle |-> c])
    /\ UNCHANGED rows

RemoveCycleRead(r, c) ==
    /\ cycle[c].status = "DRAFT"
    /\ Begin(r, "removeCycle", [op |-> "removeCycle", cycle |-> c])
    /\ UNCHANGED rows

\* The delete names only the id.  Reviews, nominations and sessions cascade;
\* performance_lastReviewCycleId_fkey is ON DELETE SET NULL.
RemoveCycleCommit(r) ==
    LET c == request[r].cycle IN
    /\ request[r].op = "removeCycle"
    /\ CycleExists(c)
    /\ cycle' = [cycle EXCEPT ![c].status = "DELETED"]
    /\ review' = [review EXCEPT ![c] = [p \in Pair |-> Nil]]
    /\ nomination' = [nomination EXCEPT ![c] = [p \in Pair |-> Nil]]
    /\ session' = [s \in Session |->
           IF session[s].cycle = c THEN [session[s] EXCEPT !.status = "DELETED"] ELSE session[s]]
    /\ performance' = [u \in User |->
           IF performance[u].lastReviewCycle = c
           THEN [performance[u] EXCEPT !.lastReviewCycle = Nil] ELSE performance[u]]
    /\ End(r)
    /\ UNCHANGED <<template, notice>>

----------------------------------------------------------------------------
(* Activation: read the cycle, load the template and the roster, then one  *)
(* transaction creates the reviews and sets ACTIVE.                        *)

ActivateRead(r, c) ==
    /\ cycle[c].status = "DRAFT"
    /\ Begin(r, "activate", [op |-> "activate", cycle |-> c, template |-> cycle[c].template,
                             excluded |-> cycle[c].excluded])
    /\ UNCHANGED rows

ActivateLoad(r) ==
    LET q == request[r] IN
    /\ q.op = "activate"
    /\ TemplateExists(q.template)
    /\ Await(r, [op |-> "activateLoaded", cycle |-> q.cycle,
                 snapshot |-> <<q.template, template[q.template]>>,
                 eligible |-> User \ q.excluded])
    /\ UNCHANGED rows

\* The deduplicated keys of the SELF, MANAGER and UPWARD reviews of the eligible users.
AssignedPairs(eligible) ==
    {<<u, u>> : u \in eligible}
    \cup {p \in Pair : p[1] \in eligible /\ Supervisor[p[1]] = p[2]}
    \cup {p \in Pair : p[2] \in eligible /\ Supervisor[p[2]] = p[1]}

NewReview(type) == [type |-> type, status |-> "PENDING", score |-> Nil]

\* Fault: createMany skips duplicates instead of failing on them.
ActivateCommit_SkipDuplicates(r) ==
    LET q == request[r] IN
    /\ q.op = "activateLoaded"
    /\ CycleExists(q.cycle)
    /\ review' = [review EXCEPT ![q.cycle] =
           [p \in Pair |-> IF p \in AssignedPairs(q.eligible) /\ @[p] = Nil
                           THEN NewReview("ASSIGNED") ELSE @[p]]]
    /\ cycle' = [cycle EXCEPT ![q.cycle].status = "ACTIVE", ![q.cycle].snapshot = q.snapshot]
    /\ Await(r, [op |-> "activated", cycle |-> q.cycle, eligible |-> q.eligible])
    /\ UNCHANGED <<template, nomination, session, performance, notice>>

\* @@unique([reviewCycleId, revieweeId, reviewerId]) is the only thing that
\* stops a second activation: the update does not check the status again.
ActivateCommit(r) ==
    LET q == request[r]
        pairs == AssignedPairs(q.eligible)
    IN
    /\ q.op = "activateLoaded"
    /\ CycleExists(q.cycle)
    /\ \A p \in pairs : review[q.cycle][p] = Nil
    /\ review' = [review EXCEPT ![q.cycle] =
           [p \in Pair |-> IF p \in pairs THEN NewReview("ASSIGNED") ELSE @[p]]]
    /\ cycle' = [cycle EXCEPT ![q.cycle].status = "ACTIVE",
                              ![q.cycle].snapshot = q.snapshot]
    /\ Await(r, [op |-> "activated", cycle |-> q.cycle, eligible |-> q.eligible])
    /\ UNCHANGED <<template, nomination, session, performance, notice>>

\* Fault: the notices are queued before the transaction.
ActivateNotify_BeforeCommit(r) ==
    LET q == request[r] IN
    /\ q.op = "activateLoaded"
    /\ notice' = [notice EXCEPT ![q.cycle] = @ \cup q.eligible]
    /\ UNCHANGED <<template, cycle, review, nomination, session, performance, request>>

ActivateNotify(r) ==
    LET q == request[r] IN
    /\ q.op = "activated"
    /\ notice' = [notice EXCEPT ![q.cycle] = @ \cup q.eligible]
    /\ End(r)
    /\ UNCHANGED <<template, cycle, review, nomination, session, performance>>

----------------------------------------------------------------------------

CalibrateRead(r, c) ==
    /\ cycle[c].status = "ACTIVE"
    /\ Begin(r, "calibrate", [op |-> "calibrate", cycle |-> c])
    /\ UNCHANGED rows

CalibrateCommit(r) ==
    LET c == request[r].cycle IN
    /\ request[r].op = "calibrate"
    /\ CycleExists(c)
    /\ cycle' = [cycle EXCEPT ![c].status = "CALIBRATING"]
    /\ End(r)
    /\ UNCHANGED <<template, review, nomination, session, performance, notice>>

SessionsOf(c, status) == {s \in Session : session[s].cycle = c /\ session[s].status = status}

CompleteRead(r, c) ==
    /\ cycle[c].status = "CALIBRATING"
    /\ Begin(r, "complete", [op |-> "complete", cycle |-> c])
    /\ UNCHANGED rows

CompleteCheck(r) ==
    /\ request[r].op = "complete"
    /\ SessionsOf(request[r].cycle, "in_progress") = {}
    /\ Await(r, [op |-> "completeChecked", cycle |-> request[r].cycle])
    /\ UNCHANGED rows

\* The loop writes every entry whose calibratedScore is not undefined, so a
\* null is written too.  The sessions come unordered: where two of them hold
\* the same user, either may be written last.
CompleteCommit(r) ==
    LET c == request[r].cycle
        finalized == SessionsOf(c, "finalized")
        scored == {u \in User : \E s \in finalized : u \in DOMAIN session[s].scores}
    IN
    /\ request[r].op = "completeChecked"
    /\ CycleExists(c)
    /\ \E last \in [scored -> finalized] :
         /\ \A u \in scored : u \in DOMAIN session[last[u]].scores
         /\ performance' = [u \in User |->
                IF u \in scored
                THEN [reviewScore |-> session[last[u]].scores[u], lastReviewCycle |-> c]
                ELSE performance[u]]
    /\ cycle' = [cycle EXCEPT ![c].status = "COMPLETED"]
    /\ End(r)
    /\ UNCHANGED <<template, review, nomination, session, notice>>
=============================================================================
