------------------------------ MODULE MCReview ------------------------------
(* Small instances of Review for TLC. *)
EXTENDS ReviewInvariant, TLC

CONSTANTS u1, u2, u3

\* u1 supervises u2, u2 supervises u3.
MCSupervisor == [u \in User |-> IF u = u2 THEN u1 ELSE IF u = u3 THEN u2 ELSE Nil]

\* Nobody, or one user, is excluded; u1 is always eligible.
MCExclusionLists == {{}, {u2}}

\* One request at a time, from the template to the published scores.
SerialOps == {"createTemplate", "updateTemplate", "removeTemplate", "createCycle", "updateCycle",
              "removeCycle", "activate", "calibrate", "complete", "submit", "overdue",
              "createSession", "adjust", "finalize"}

\* One request at a time, everything that decides who reviews whom.
PeerOps == {"createTemplate", "createCycle", "updateCycle", "removeCycle", "activate", "calibrate",
            "complete", "nominate", "approve", "reject", "bulkApprove"}

\* Two requests at a time, from the creation of a cycle to its peer reviews.
LaunchOps == {"createTemplate", "removeTemplate", "createCycle", "updateCycle", "removeCycle", "activate",
              "calibrate", "submit", "nominate", "approve", "reject", "overdue"}

\* Two requests at a time, with just enough of the launch to reach calibration.
CalibrationOps == {"createTemplate", "createCycle", "removeCycle", "activate", "calibrate",
                   "complete", "submit", "createSession", "adjust", "finalize"}

RequestSymmetry == Permutations(Request)
=============================================================================
