------------------------------ MODULE Requests ------------------------------
(***************************************************************************)
(* Handlers in flight, for the modules that share this frame.  A handler   *)
(* is a chain of steps, one for each stretch between two awaits, and keeps *)
(* what it has read in request[r].  What the clients of a behaviour call,  *)
(* and how much of it overlaps, is chosen once from Load: two slots with   *)
(* operations are two handlers that may overlap.                           *)
(***************************************************************************)
EXTENDS Integers

CONSTANTS
    Request,  \* slots for the handlers in flight at one time
    Load      \* bound: a load has ops[r], what clients call in slot r, and
              \* calls, how often in all (and whatever a module adds to it)

VARIABLES
    request,  \* what each handler in flight has read so far
    calls,    \* handlers begun
    load      \* the load of this behaviour

Idle == [op |-> "idle"]

ASSUME LoadAssumption ==
    \A l \in Load : DOMAIN l.ops = Request /\ l.calls \in Nat

RequestsInit ==
    /\ load \in Load
    /\ request = [r \in Request |-> Idle]
    /\ calls = 0

Begin(r, op, q) ==
    /\ op \in load.ops[r] /\ request[r] = Idle /\ calls < load.calls
    /\ request' = [request EXCEPT ![r] = q]
    /\ calls' = calls + 1
    /\ UNCHANGED load

\* A call that is over in one step.
Call(r, op) ==
    /\ op \in load.ops[r] /\ request[r] = Idle /\ calls < load.calls
    /\ calls' = calls + 1
    /\ UNCHANGED <<request, load>>

Await(r, q) ==
    /\ request' = [request EXCEPT ![r] = q]
    /\ UNCHANGED <<calls, load>>

End(r) == Await(r, Idle)

\* No two slots in use: every handler returns before the next is called.
OneAtATime == \A r, s \in Request : load.ops[r] # {} /\ load.ops[s] # {} => r = s
=============================================================================
