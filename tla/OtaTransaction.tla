-------------------------- MODULE OtaTransaction --------------------------
(***************************************************************************)
(* What an OTA update promises to whoever delivers its job, without        *)
(* phases, calls, journal writes or crashes: one durable stage that only   *)
(* moves forward, the image the device runs, and the last answer given.    *)
(* OtaEngine is shown to implement it.                                     *)
(***************************************************************************)

VARIABLES
    exact,   \* the updater can tell exactly which image runs: never changes
    stage,   \* how far the update is, durably
    image,   \* the image in use
    said     \* the last answer given

avars == <<exact, stage, image, said>>

Decided == {"completed", "rolled_back", "rollback_failed"}
Stages == {"pending", "switching", "reverting"} \cup Decided

AInit == exact \in BOOLEAN /\ stage = "pending" /\ image = "old" /\ said = "none"

\* The reboot into the new image is due.
Switch == stage = "pending" /\ stage' = "switching" /\ UNCHANGED <<exact, image, said>>

\* The reboot back into the old image is due.
Revert == stage \in {"pending", "switching"} /\ stage' = "reverting" /\ UNCHANGED <<exact, image, said>>

\* Success is decided only while the new image runs.
Complete ==
    /\ stage \in {"pending", "switching"}
    /\ exact => image = "new"
    /\ stage' = "completed" /\ UNCHANGED <<exact, image, said>>

\* The update failed; the answer may be given in the same step.
Undo ==
    /\ stage \notin Decided
    /\ stage' \in {"rolled_back", "rollback_failed"}
    /\ said' \in {said, "failed"}
    /\ UNCHANGED <<exact, image>>

\* The image changes by a boot or by a live update, not by an answer.
ChangeImage == image' \in {"old", "new"} /\ UNCHANGED <<exact, stage, said>>

\* "succeeded" is said only of a completed update, "rebooting" only of one
\* that is not decided.  A call that is refused says "failed" at any time.
Say ==
    /\ said' \in {"failed"} \cup (IF stage = "completed" THEN {"succeeded"} ELSE {})
                            \cup (IF stage \notin Decided THEN {"rebooting"} ELSE {})
    /\ UNCHANGED <<exact, stage, image>>

ANext == Switch \/ Revert \/ Complete \/ Undo \/ ChangeImage \/ Say

ASpec == AInit /\ [][ANext]_avars
=============================================================================
