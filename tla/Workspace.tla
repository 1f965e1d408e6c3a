----------------------------- MODULE Workspace -----------------------------
(***************************************************************************)
(* The components that look a member up by role and team: the directory,   *)
(* what hangs on the tasks, and the gateway, over one table of members.    *)
(***************************************************************************)
EXTENDS Gateway, Visibility, TaskItems

frame == <<request, calls, load>>
vars == <<directoryVars, gatewayVars, itemVars, frame>>

InFlight == {Idle} \cup DirectoryInFlight \cup GatewayInFlight \cup ItemInFlight

Init == RequestsInit /\ DirectoryInit /\ GatewayInit /\ ItemInit

\* A handler throws: a query of its own, or the check after one.  (Those of the
\* gateway catch what they throw.)
Fail(r) ==
    LET q == request[r] IN
    /\ q # Idle /\ q.op # "switch"
    /\ End(r)
    /\ abandoned' = abandoned \cup RemovedBy(q)
    /\ UNCHANGED <<directoryVars, gatewayVars, task, subtask, comment, attachment, stored>>

\* The process ends, with all that is in flight.
Restart ==
    /\ Crash
    /\ request' = [r \in Request |-> Idle]
    /\ abandoned' = abandoned \cup UNION {RemovedBy(request[r]) : r \in Request}
    /\ UNCHANGED <<directoryVars, task, subtask, comment, attachment, stored, calls, load>>

Socketly(step) == step /\ UNCHANGED <<directoryVars, itemVars>>
Frozen(step) == Socketly(step) /\ UNCHANGED frame

Next ==
    \/ \E r \in Request :
         \/ DirectoryStep(r) /\ UNCHANGED <<gatewayVars, itemVars>>
         \/ ItemStep(r) /\ UNCHANGED gatewayVars
         \/ Fail(r)
         \/ Socketly(ClientCall(r))
    \/ \E g \in Instance : Frozen(ServerStep(g))
    \/ Frozen(ClientStep)
    \/ Restart

\* Queries return, and the interval of the heartbeat passes.  No client has to
\* call, no handler of theirs has to return.
Fairness ==
    \A g \in Instance :
        /\ WF_vars(Frozen(BeatRead(g)))
        /\ \A s \in Socket :
             /\ WF_vars(Frozen(BeatNext(g, s)))
             /\ WF_vars(Frozen(SyncReject(g, s) \/ SyncJoin(g, s)))

Spec == Init /\ [][Next]_vars
FairSpec == Spec /\ Fairness

\* Type correctness.
TypeOK ==
    /\ DirectoryTypeOK /\ GatewayTypeOK /\ ItemTypeOK
    /\ request \in [Request -> InFlight]
    /\ calls \in Nat /\ load \in Load
=============================================================================
