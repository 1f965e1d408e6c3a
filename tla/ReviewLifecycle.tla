-------------------------- MODULE ReviewLifecycle ---------------------------
(***************************************************************************)
(* What src/src/modules/review/review.service.ts promises of its review    *)
(* cycles, told without handlers, awaits, templates, nominations, sessions *)
(* or deadlines: a cycle goes through its stages, the questions are fixed  *)
(* when it is launched, a review is answered once and while the cycle is   *)
(* active, and a cycle publishes scores from its calibration to its end.   *)
(***************************************************************************)
CONSTANTS Cycle, User,
          Pair,       \* who is reviewed by whom
          Questions,  \* what a cycle may ask
          Score,      \* what it may publish of somebody
          None

VARIABLES
    stage,    \* of each cycle
    asks,     \* the questions of each cycle
    reviews,  \* by cycle and pair: "none", "open" or "answered"
    result    \* the cycle and the score that each user's record shows

vars == <<stage, asks, reviews, result>>

Init ==
    /\ stage = [c \in Cycle |-> "none"]
    /\ asks = [c \in Cycle |-> None]
    /\ reviews = [c \in Cycle |-> [p \in Pair |-> "none"]]
    /\ result = [u \in User |-> None]

Move(c, from, to) == stage[c] = from /\ stage' = [stage EXCEPT ![c] = to]

Draft(c) == Move(c, "none", "draft") /\ UNCHANGED <<asks, reviews, result>>
Drop(c) == Move(c, "draft", "dropped") /\ UNCHANGED <<asks, reviews, result>>

Launch(c) ==
    /\ Move(c, "draft", "active")
    /\ asks'[c] \in Questions /\ asks' = [asks EXCEPT ![c] = asks'[c]]
    /\ reviews'[c] \in [Pair -> {"none", "open"}] /\ reviews' = [reviews EXCEPT ![c] = reviews'[c]]
    /\ UNCHANGED result

\* A peer is approved; the stage does not matter.
AddPeer(c, p) ==
    /\ stage[c] \in {"active", "calibrating", "completed"}
    /\ reviews[c][p] = "none"
    /\ reviews' = [reviews EXCEPT ![c][p] = "open"]
    /\ UNCHANGED <<stage, asks, result>>

Answer(c, p) ==
    /\ stage[c] = "active"
    /\ reviews[c][p] = "open"
    /\ reviews' = [reviews EXCEPT ![c][p] = "answered"]
    /\ UNCHANGED <<stage, asks, result>>

Calibrate(c) == Move(c, "active", "calibrating") /\ UNCHANGED <<asks, reviews, result>>

\* Some of the users get a score of the cycle, the others keep what they have.
Scored(c) ==
    /\ result' = [u \in User |-> result'[u]]
    /\ \A u \in User : result'[u] \in {result[u]} \cup ({c} \X Score)

Publish(c) == stage[c] = "calibrating" /\ Scored(c) /\ UNCHANGED <<stage, asks, reviews>>
Complete(c) == Move(c, "calibrating", "completed") /\ Scored(c) /\ UNCHANGED <<asks, reviews>>

Next ==
    \E c \in Cycle :
        \/ Draft(c) \/ Drop(c) \/ Launch(c) \/ Calibrate(c) \/ Publish(c) \/ Complete(c)
        \/ \E p \in Pair : AddPeer(c, p) \/ Answer(c, p)

Spec == Init /\ [][Next]_vars
=============================================================================
