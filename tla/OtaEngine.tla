----------------------------- MODULE OtaEngine -----------------------------
(***************************************************************************)
(* The device's OTA transaction engine (agent/internal/ota/engine.go), its *)
(* resumable download (agent/internal/ota/download.go) and the updaters it *)
(* drives (agent/internal/ota/adapters.go).                                *)
(*                                                                         *)
(* Engine.Execute is called again and again for one update: every time the *)
(* cloud delivers the job, after an agent crash, after a reboot.  It keeps *)
(* a journal (one JSON file, replaced atomically) with the phase reached,  *)
(* and does the work of a phase BEFORE it journals the phase.  A crash, a  *)
(* power loss or a failed write may fall between any two of the steps      *)
(* below.  One step is one adapter call, one journal write or one reboot   *)
(* request; `pc' says where in Execute the agent is.                       *)
(***************************************************************************)
EXTENDS Naturals

CONSTANTS
    Adapters,      \* the adapters to be considered, a subset of AllAdapters
    Blocks,        \* the size of the artifact
    Limit,         \* MaxArtifactBytes, in the same unit
    MaxBoots,      \* bound: how many times the device has booted, at most
    MaxCrashes     \* bound: how many times the agent process dies

\* "plugin" and "live" stand for plugin executables that answer the
\* requires-reboot question with yes and with no.
AllAdapters == {"ostree", "rauc", "mender", "swupdate", "flatpak", "plugin", "live"}

ASSUME AdaptersAssumption == Adapters \subseteq AllAdapters
ASSUME ArtifactAssumption == Blocks \in Nat \ {0} /\ Limit \in Nat /\ Blocks <= Limit
ASSUME BoundsAssumption == MaxBoots \in Nat \ {0} /\ MaxCrashes \in Nat

VARIABLES
    env,       \* the request, the device and its configuration: never changes
    job,       \* the cloud's job for this update; delivered while "open"
    disk,      \* the journal file (phase "none": there is no file)
    aged,      \* two minutes have passed since the journal was written
    tx,        \* Execute's local copy of the transaction
    pc,        \* where Execute is; "idle" between two calls
    result,    \* the state of the last Status that Execute returned
    staging,   \* the downloaded artifact and the .part file it grows in
    dev,       \* what the updater and the boot loader have on the device
    boot,      \* the boot ID of the running kernel: 1, 2, ...
    crashes    \* agent crashes so far

vars == <<env, job, disk, aged, tx, pc, result, staging, dev, boot, crashes>>

-----------------------------------------------------------------------------
(* The transaction.                                                        *)

EarlyPhases == {"created", "prepared", "downloaded", "verified"}
RebootPhases == {"reboot_requested", "rollback_reboot_requested"}
Terminal == {"completed", "rolled_back", "rollback_failed"}
Phases == {"none", "installed", "activated"} \cup EarlyPhases \cup RebootPhases \cup Terminal

\* boot 0 is the empty BootID; prev says whether PreviousVersion is known.
Transaction == [phase : Phases, boot : Nat, attempts : 0..3, prev : BOOLEAN]
NoTx == [phase |-> "none", boot |-> 0, attempts |-> 0, prev |-> FALSE]
Fresh == [NoTx EXCEPT !.phase = "created"]

\* Fault variant: one more request than the journal's counter was meant for.
RebootLimit_OffByOne == 4
RebootLimit == 3

-----------------------------------------------------------------------------
(* The request, the device, and what the updaters do to it (adapters.go).  *)

\* pinned: the request names the revision that must run (always, except for
\* a Flatpak request without commit); online: an OSTree repository request;
\* telling: the updater's version report names the running release and no
\* other.  OSTree's and Flatpak's commands print the revision in use, RAUC's
\* prints every slot and for SWUpdate there is none; Mender's and a plugin's
\* report depends on the device.
Environments == {e \in [adapter : Adapters, pinned : BOOLEAN, online : BOOLEAN, telling : BOOLEAN,
                        autoReboot : BOOLEAN, bootId : BOOLEAN] :
                    /\ e.pinned \/ e.adapter = "flatpak"
                    /\ e.adapter \in {"ostree", "flatpak"} => e.telling
                    /\ e.adapter \in {"rauc", "swupdate"} => ~e.telling
                    /\ e.online => e.adapter = "ostree"}

\* running: the image in use; next: the image the next boot selects;
\* staged: the new image is installed; good: it was confirmed.
Images == {"old", "new"}
Device == [running : Images, next : Images, staged : BOOLEAN, good : BOOLEAN]

Live == env.adapter \in {"flatpak", "live"}

\* A plugin that fails to answer is taken to require a reboot.
RequiresReboot == CASE env.adapter = "flatpak" -> {FALSE}
                    [] env.adapter = "live" -> BOOLEAN
                    [] OTHER -> {TRUE}

ArtifactRequired == env.adapter # "flatpak" /\ ~env.online

Installed == [dev EXCEPT !.staged = TRUE,
                         !.next = IF env.adapter = "ostree" THEN @ ELSE "new",
                         !.running = IF Live THEN "new" ELSE @]

\* Only ostree (admin deploy) and plugins have something to activate.
Activated == IF env.adapter \in {"ostree", "plugin"} THEN [dev EXCEPT !.next = "new"] ELSE dev
ActivateMayFail == env.adapter \in {"ostree", "plugin", "live"}

Committed == IF env.adapter \in {"mender", "rauc", "plugin", "live"}
             THEN [dev EXCEPT !.good = (dev.running = "new")] ELSE dev
CommitMayFail == env.adapter \in {"mender", "rauc", "plugin", "live"}

\* `rauc status mark-bad' marks the slot that is booted, whichever it is.
RolledBack == IF env.adapter = "rauc"
              THEN [dev EXCEPT !.next = IF dev.running = "old" /\ dev.staged THEN "new" ELSE "old"]
              ELSE [dev EXCEPT !.next = "old", !.running = IF Live THEN "old" ELSE @]

\* SWUpdate has no rollback; Flatpak and OSTree need the previous revision.
RollbackPossible == /\ env.adapter # "swupdate"
                    /\ env.adapter \in {"flatpak", "ostree"} => tx.prev

\* What CurrentVersion may report, as the set of releases whose name the
\* report contains.  `mender show-provides' and a plugin may print nothing, an
\* old entry, or a name that another one is a part of (1.1 in 1.10).
CurrentVersion == IF env.telling THEN {{dev.running}}
                  ELSE IF env.adapter = "swupdate" THEN {{}}
                  ELSE SUBSET Images

\* Fault variant: the version report is not looked at.
VersionConfirmed_Skipped == TRUE

\* ostree and flatpak compare revisions; the others look for the release in
\* a report, and take an empty one for a confirmation.
VersionConfirmed ==
    \/ ~env.pinned
    \/ \E report \in CurrentVersion :
          \/ "new" \in report
          \/ report = {} /\ env.adapter \notin {"ostree", "flatpak"}

-----------------------------------------------------------------------------
(* The files of the staging directory.                                     *)

\* n: blocks written; ok: they are the artifact's; synced: they survive a
\* power loss.  A file that is missing has no blocks.
File == [n : 0..(Limit + 1), ok : BOOLEAN, synced : BOOLEAN]
NoFile == [n |-> 0, ok |-> TRUE, synced |-> TRUE]

digestMatches(file) == file.n = Blocks /\ file.ok

\* What a power loss leaves of a file: any part of what was not synced.
AfterPowerLoss(file) ==
    IF file.synced THEN {file}
    ELSE {f \in File : f.synced /\ f.n <= file.n /\ (f.ok => file.ok)}

-----------------------------------------------------------------------------
(* Building blocks of the steps.                                           *)

Init ==
    /\ env \in Environments /\ job = "open"
    /\ disk = NoTx /\ aged = FALSE
    /\ tx = NoTx /\ pc = "idle" /\ result = "none"
    /\ staging = [part |-> NoFile, final |-> NoFile]
    /\ dev = [running |-> "old", next |-> "old", staged |-> FALSE, good |-> FALSE]
    /\ boot = 1 /\ crashes = 0

BootId == IF env.bootId THEN boot ELSE 0

At(location, phase) == pc = location /\ tx.phase = phase

\* Execute returns: its local variables are gone.
Return(state) == pc' = "idle" /\ tx' = NoTx /\ result' = state

\* save: the file is replaced as a whole (temporary file, fsync, rename).
Persist(t) ==
    /\ disk' = t
    /\ aged' = FALSE

\* requestReboot runs systemctl; it fails when automatic reboots are disabled.
RebootAccepted == env.autoReboot

\* failAndRollback takes over.
Fail == pc' = "fail" /\ UNCHANGED <<tx, dev, result>>

journal == <<disk, aged>>
system == <<env, job, boot, crashes>>
outside == <<system, staging>>

-----------------------------------------------------------------------------
(* A call of Execute.                                                      *)

\* Validation, an adapter that is missing, or a journal that cannot be read,
\* created or matched to the request: nothing happens.
Reject ==
    /\ pc = "idle"
    /\ Return("failed")
    /\ UNCHANGED <<dev, journal, outside>>

\* loadOrCreate without a file.
Create ==
    /\ pc = "idle" /\ disk.phase = "none"
    /\ Persist(Fresh)
    /\ tx' = Fresh /\ pc' = "run"
    /\ UNCHANGED <<result, dev, outside>>

\* Fault variant: a transaction that waits for its reboot starts over.
Load_StartsOver ==
    /\ pc = "idle" /\ disk.phase \notin Terminal \cup {"none"}
    /\ tx' = IF disk.phase \in RebootPhases THEN [disk EXCEPT !.phase = "verified"] ELSE disk
    /\ pc' = "run"
    /\ UNCHANGED <<result, dev, journal, outside>>

\* loadOrCreate with a file that holds an unfinished transaction.
Load ==
    /\ pc = "idle" /\ disk.phase \notin Terminal \cup {"none"}
    /\ tx' = disk
    /\ pc' = IF disk.phase \in RebootPhases THEN "resume" ELSE "run"
    /\ UNCHANGED <<result, dev, journal, outside>>

\* loadOrCreate with a file that holds a finished one.
Replay ==
    /\ pc = "idle" /\ disk.phase \in Terminal
    /\ Return(IF disk.phase = "completed" THEN "succeeded" ELSE "failed")
    /\ UNCHANGED <<dev, journal, outside>>

\* CurrentVersion, compatibleFrom and ensureFreeSpace.  The version report
\* may be empty (it always is for SWUpdate).
Preflight ==
    /\ At("run", "created")
    /\ \/ Fail
       \/ \E known \in (IF env.adapter = "swupdate" THEN {FALSE} ELSE BOOLEAN) :
            tx' = [tx EXCEPT !.phase = "prepared", !.prev = known]
          /\ pc' = "save" /\ UNCHANGED <<dev, result>>
    /\ UNCHANGED <<journal, outside>>

\* Without an artifact there is nothing to fetch; and fetch returns at once
\* when the file is there already.
Download ==
    /\ At("run", "prepared")
    /\ ArtifactRequired => digestMatches(staging.final)
    /\ tx' = [tx EXCEPT !.phase = "downloaded"] /\ pc' = "save"
    /\ UNCHANGED <<dev, result, journal, outside>>

\* The answer to the request of fetch: an error, a limit that is passed, the
\* whole artifact (200), or the rest that was asked for (206).
OpenPart ==
    /\ At("run", "prepared")
    /\ ArtifactRequired /\ ~digestMatches(staging.final)
    /\ \/ Fail /\ UNCHANGED staging
       \/ staging' = [staging EXCEPT !.part = NoFile] /\ pc' = "copy" /\ UNCHANGED <<tx, dev, result>>
       \/ staging.part.n > 0 /\ pc' = "copy" /\ UNCHANGED <<staging, tx, dev, result>>
    /\ UNCHANGED <<journal, system>>

\* A block of the body, right or wrong, is appended.
CopyPart ==
    /\ pc = "copy" /\ staging.part.n <= Limit
    /\ \E right \in BOOLEAN :
         staging' = [staging EXCEPT !.part = [n |-> @.n + 1, ok |-> @.ok /\ right, synced |-> FALSE]]
    /\ UNCHANGED <<pc, tx, dev, result, journal, system>>

\* Fault variant: the file is not synced.
ClosePart_NoSync ==
    /\ pc = "copy"
    /\ pc' = "check" \/ pc' = "fail"
    /\ UNCHANGED <<staging, tx, dev, result, journal, system>>

\* The body ends, or breaks off, at any point; the file is synced and closed.
ClosePart ==
    /\ pc = "copy"
    /\ \/ staging' = [staging EXCEPT !.part.synced = TRUE] /\ pc' \in {"check", "fail"}
       \/ UNCHANGED staging /\ pc' = "fail"
    /\ UNCHANGED <<tx, dev, result, journal, system>>

\* Size and digest are checked.  A file that passes the limit, or has not the
\* size that the request may state, stays; one with the wrong digest is
\* removed; the right one gets its final name.
CheckPart ==
    /\ pc = "check"
    /\ \/ ~digestMatches(staging.part) /\ Fail
          /\ staging' \in {staging} \cup (IF staging.part.n > Limit THEN {}
                                         ELSE {[staging EXCEPT !.part = NoFile]})
       \/ digestMatches(staging.part) /\ Fail /\ UNCHANGED staging
       \/ /\ digestMatches(staging.part)
          /\ staging' = [part |-> NoFile, final |-> staging.part]
          /\ tx' = [tx EXCEPT !.phase = "downloaded"] /\ pc' = "save" /\ UNCHANGED <<dev, result>>
    /\ UNCHANGED <<journal, system>>

\* Digest, release signature and the updater's own check.
Verify ==
    /\ At("run", "downloaded")
    /\ \/ Fail
       \/ /\ ArtifactRequired => digestMatches(staging.final)
          /\ tx' = [tx EXCEPT !.phase = "verified"] /\ pc' = "save" /\ UNCHANGED <<dev, result>>
    /\ UNCHANGED <<journal, outside>>

\* An updater that is killed or fails may have done its work or not.
Install ==
    /\ At("run", "verified")
    /\ \/ dev' = Installed /\ tx' = [tx EXCEPT !.phase = "installed"] /\ pc' = "save"
       \/ dev' \in {dev, Installed} /\ pc' = "fail" /\ UNCHANGED tx
    /\ UNCHANGED <<result, journal, outside>>

Activate ==
    /\ At("run", "installed")
    /\ \/ dev' = Activated /\ tx' = [tx EXCEPT !.phase = "activated"] /\ pc' = "save"
       \/ ActivateMayFail /\ dev' \in {dev, Activated} /\ pc' = "fail" /\ UNCHANGED tx
    /\ UNCHANGED <<result, journal, outside>>

\* A new state that needs no reboot is confirmed at once; otherwise the
\* request for the reboot is journalled first, with the boot ID.
AfterActivate ==
    /\ At("run", "activated")
    /\ \/ TRUE \in RequiresReboot
          /\ tx' = [tx EXCEPT !.phase = "reboot_requested", !.boot = BootId]
          /\ pc' = "save"
       \/ FALSE \in RequiresReboot /\ pc' = "confirm" /\ UNCHANGED tx
    /\ UNCHANGED <<dev, result, journal, outside>>

\* Fault variant: the error of the save is ignored.
Save_Unchecked ==
    /\ pc = "save"
    /\ Persist(tx) \/ UNCHANGED journal
    /\ pc' = "run"
    /\ UNCHANGED <<tx, result, dev, outside>>

\* A save whose error is checked: Execute goes on, or returns "failed".
Save ==
    /\ pc = "save"
    /\ \/ Persist(tx) /\ pc' = "run" /\ UNCHANGED <<tx, result>>
       \/ Return("failed") /\ UNCHANGED journal
    /\ UNCHANGED <<dev, outside>>

\* The reboot request that follows the journal write.
RequestReboot ==
    /\ At("run", "reboot_requested")
    /\ \/ RebootAccepted /\ Return("rebooting") /\ UNCHANGED dev
       \/ Fail
    /\ UNCHANGED <<disk, aged, outside>>

\* The end of a call that has journalled its outcome.
Finish ==
    /\ pc = "run" /\ tx.phase \in {"completed", "rolled_back"}
    /\ Return(IF tx.phase = "completed" THEN "succeeded" ELSE "failed")
    /\ UNCHANGED <<dev, journal, outside>>

-----------------------------------------------------------------------------
(* resumeAfterReboot.                                                      *)

\* Fault variant: the boot ID is not compared.
SameBoot_Ignored == FALSE

SameBoot == tx.boot # 0 /\ tx.boot = BootId

\* The device has not rebooted yet: wait, ask again, or give up.
AwaitReboot ==
    /\ pc = "resume" /\ SameBoot
    /\ \/ ~aged /\ Return("rebooting")
       \/ aged /\ tx.attempts < RebootLimit
          /\ tx' = [tx EXCEPT !.attempts = @ + 1] /\ pc' = "saveRetry" /\ UNCHANGED result
       \/ aged /\ tx.attempts >= RebootLimit /\ tx.phase = "rollback_reboot_requested"
          /\ tx' = [tx EXCEPT !.phase = "rollback_failed"] /\ pc' = "saveEnd" /\ UNCHANGED result
       \/ aged /\ tx.attempts >= RebootLimit /\ tx.phase = "reboot_requested"
          /\ pc' = "fail" /\ UNCHANGED <<tx, result>>
    /\ UNCHANGED <<dev, journal, outside>>

\* Fault variant: the attempt is counted in memory only.
SaveRetry_Skipped ==
    /\ pc = "saveRetry"
    /\ pc' = "rebootRetry"
    /\ UNCHANGED <<tx, result, journal, dev, outside>>

SaveRetry ==
    /\ pc = "saveRetry"
    /\ \/ Persist(tx) /\ pc' = "rebootRetry" /\ UNCHANGED <<tx, result>>
       \/ Return("failed") /\ UNCHANGED journal
    /\ UNCHANGED <<dev, outside>>

RebootRetry ==
    /\ pc = "rebootRetry"
    /\ \/ RebootAccepted /\ Return("rebooting")
       \/ Return("failed")
    /\ UNCHANGED <<dev, disk, aged, outside>>

\* Fault variant: a rollback's reboot is taken for the update's.
Rebooted_ForgetsRollback ==
    /\ pc = "resume" /\ ~SameBoot
    /\ pc' = "confirm"
    /\ UNCHANGED <<tx, dev, result, journal, outside>>

\* Another boot: the rollback is over, or the update is to be confirmed.
Rebooted ==
    /\ pc = "resume" /\ ~SameBoot
    /\ \/ tx.phase = "rollback_reboot_requested"
          /\ tx' = [tx EXCEPT !.phase = "rolled_back"] /\ pc' = "save"
       \/ tx.phase = "reboot_requested" /\ pc' = "confirm" /\ UNCHANGED tx
    /\ UNCHANGED <<dev, result, journal, outside>>

-----------------------------------------------------------------------------
(* confirmAndCommit.                                                       *)

\* The health check and the version report.
Confirm ==
    /\ pc = "confirm"
    /\ \/ VersionConfirmed /\ pc' = "commit" /\ UNCHANGED <<tx, dev, result>>
       \/ Fail
    /\ UNCHANGED <<journal, outside>>

Commit ==
    /\ pc = "commit"
    /\ \/ dev' = Committed /\ tx' = [tx EXCEPT !.phase = "completed"] /\ pc' = "save"
       \/ CommitMayFail /\ dev' \in {dev, Committed} /\ pc' = "fail" /\ UNCHANGED tx
    /\ UNCHANGED <<result, journal, outside>>

-----------------------------------------------------------------------------
(* failAndRollback.  Its saves are not checked.                            *)

\* Nothing is undone before "installed" is journalled.
Abandon ==
    /\ pc = "fail" /\ tx.phase \in EarlyPhases
    /\ tx' = [tx EXCEPT !.phase = "rolled_back"] /\ pc' = "saveEnd"
    /\ UNCHANGED <<dev, result, journal, outside>>

Rollback ==
    /\ pc = "fail" /\ tx.phase \notin EarlyPhases /\ RollbackPossible
    /\ dev' = RolledBack
    /\ \/ TRUE \in RequiresReboot
          /\ tx' = [tx EXCEPT !.phase = "rollback_reboot_requested", !.boot = BootId]
          /\ pc' = "saveRollback"
       \/ FALSE \in RequiresReboot
          /\ tx' = [tx EXCEPT !.phase = "rolled_back"] /\ pc' = "saveEnd"
    /\ UNCHANGED <<result, journal, outside>>

RollbackFails ==
    /\ pc = "fail" /\ tx.phase \notin EarlyPhases
    /\ dev' \in {dev} \cup (IF RollbackPossible THEN {RolledBack} ELSE {})
    /\ tx' = [tx EXCEPT !.phase = "rollback_failed"] /\ pc' = "saveEnd"
    /\ UNCHANGED <<result, journal, outside>>

SaveRollback ==
    /\ pc = "saveRollback"
    /\ Persist(tx) \/ UNCHANGED journal
    /\ pc' = "rebootRollback"
    /\ UNCHANGED <<tx, dev, result, outside>>

RebootRollback ==
    /\ pc = "rebootRollback"
    /\ \/ RebootAccepted /\ Return("rebooting")
       \/ tx' = [tx EXCEPT !.phase = "rollback_failed"] /\ pc' = "saveEnd" /\ UNCHANGED result
    /\ UNCHANGED <<dev, disk, aged, outside>>

SaveEnd ==
    /\ pc = "saveEnd"
    /\ Persist(tx) \/ UNCHANGED journal
    /\ Return("failed")
    /\ UNCHANGED <<dev, outside>>

-----------------------------------------------------------------------------
(* What happens to the agent from outside.                                 *)

\* Two minutes pass (only resumeAfterReboot looks at the clock).
Age ==
    /\ ~aged /\ disk.phase \in RebootPhases
    /\ aged' = TRUE
    /\ UNCHANGED <<disk, tx, pc, result, dev, outside>>

\* The agent process dies and is restarted in the same boot.
Crash ==
    /\ pc # "idle" /\ crashes < MaxCrashes
    /\ crashes' = crashes + 1
    /\ pc' = "idle" /\ tx' = NoTx
    /\ UNCHANGED <<env, job, journal, result, staging, dev, boot>>

\* What comes up after a boot: the selected image, or the old one when the
\* boot loader falls back from an image that was never confirmed.
BootChoices ==
    IF Live THEN {dev.running} ELSE {dev.next} \cup (IF dev.good THEN {} ELSE {"old"})

\* A reboot, asked for or not (a power loss may fall between any two steps).
Reboot ==
    /\ boot < MaxBoots
    /\ boot' = boot + 1
    /\ \E image \in BootChoices : dev' = [dev EXCEPT !.running = image, !.next = image]
    /\ staging' \in [part : AfterPowerLoss(staging.part), final : AfterPowerLoss(staging.final)]
    /\ pc' = "idle" /\ tx' = NoTx
    /\ UNCHANGED <<env, job, journal, result, crashes>>

\* The cloud takes the success for the job's result; or the job ends without
\* one, at any time: it was answered "failed", it became too old to deliver, or
\* it went with its device.  An answer "rebooting" leaves the job open.
CloseJob ==
    /\ job = "open"
    /\ \/ pc = "idle" /\ result = "succeeded" /\ job' = "succeeded"
       \/ job' = "ended"
    /\ UNCHANGED <<env, boot, crashes, journal, tx, pc, result, staging, dev>>

-----------------------------------------------------------------------------
Call == Create \/ Load \/ Replay
Fetch == OpenPart \/ CopyPart \/ ClosePart \/ CheckPart
Forward == Preflight \/ Download \/ Fetch \/ Verify \/ Install \/ Activate \/ AfterActivate
             \/ Save \/ RequestReboot \/ Finish
Resume == AwaitReboot \/ SaveRetry \/ RebootRetry \/ Rebooted
ConfirmAndCommit == Confirm \/ Commit
FailAndRollback == Abandon \/ Rollback \/ RollbackFails \/ SaveRollback
                     \/ RebootRollback \/ SaveEnd
Engine == Forward \/ Resume \/ ConfirmAndCommit \/ FailAndRollback
World == Age \/ Crash \/ Reboot \/ CloseJob

Next == Reject \/ Call \/ Engine \/ World

Spec == Init /\ [][Next]_vars

\* The job is delivered again and again while it is open, Execute's
\* loop-free code runs to its end, the clock goes on, and the state directory
\* is not unwritable for ever.  Nothing is assumed about reboots: they may
\* never happen.  And a job that has failed or expired need not come again.
SavedOk == (Save \/ SaveRetry \/ SaveRollback \/ SaveEnd) /\ disk' = tx
Fairness ==
    /\ WF_vars(job = "open" /\ Call) /\ WF_vars(Engine) /\ WF_vars(Age) /\ SF_vars(SavedOk)
FairSpec == Spec /\ Fairness

-----------------------------------------------------------------------------
(* What must hold.                                                         *)

Locations == {"idle", "run", "copy", "check", "save", "resume", "saveRetry", "rebootRetry", "confirm",
              "commit", "fail", "saveRollback", "rebootRollback", "saveEnd"}

\* Every variable has its type.
TypeOK ==
    /\ env \in Environments /\ job \in {"open", "succeeded", "ended"}
    /\ disk \in Transaction /\ tx \in Transaction
    /\ aged \in BOOLEAN /\ pc \in Locations
    /\ result \in {"none", "rebooting", "succeeded", "failed"}
    /\ staging \in [part : File, final : File] /\ dev \in Device
    /\ boot \in 1..MaxBoots /\ crashes \in 0..MaxCrashes

\* Whenever Execute is about to drive the updater, the phase it works on is
\* the journalled one: after a crash at any point the engine repeats at most
\* the one step whose phase was not written yet, and skips none.
Acting == {"run", "copy", "check", "resume", "confirm", "commit", "fail", "rebootRetry"}
WorkFollowsJournal == pc \in Acting => tx.phase = disk.phase

\* After the reboot was journalled the artifact is never installed again,
\* whatever crashes, reboots and redeliveries come (OTA_ADAPTERS.md: "the
\* same job resumes at health confirmation instead of reinstalling").
NoReinstall == [][disk.phase \in RebootPhases \cup Terminal => ~Install]_vars

\* An artifact is installed as a whole or not at all: whatever the server
\* sends, wherever the download breaks off and is resumed, and also when the
\* power fails between verification and installation (OTA_ADAPTERS.md: "retry
\* or resume does not activate partial content").
WholeInstalled == [][Install /\ ArtifactRequired => digestMatches(staging.final)]_vars

\* The updater can tell exactly which image runs, and there is one to expect.
ExactlyConfirmed == env.telling /\ env.pinned

\* confirmAndCommit journals "completed" only while the new image is running,
\* also when the boot loader fell back or the agent died half-way: of every
\* OSTree update, of Flatpak updates to a given commit, and of the updates of
\* Mender and plugins whose version report can be relied on.
SuccessOnlyOnTarget ==
    [][(disk'.phase = "completed" /\ disk.phase # "completed" /\ ExactlyConfirmed)
          => dev.running = "new"]_vars

\* OSTree: "rolled_back" is journalled only when the old deployment is booted
\* and will be booted again, on whichever path the transaction failed.
RolledBackRunsOld ==
    env.adapter = "ostree" /\ env.bootId /\ disk.phase = "rolled_back"
        => dev.running = "old" /\ dev.next = "old"

\* A transaction is decided, and stays decided, even if the device never
\* reboots, unless its job ends before: Execute answers "failed" without a
\* decision when a checked save or a repeated reboot request fails, and a job
\* that failed or expired is not delivered any more.  A job that the cloud
\* counts as a success was decided in any case.
EventuallyDecided == <>[](disk.phase \in Terminal \/ job = "ended")

\* The engine implements the abstract transaction.
Abstract == INSTANCE OtaTransaction WITH
    exact <- ExactlyConfirmed,
    stage <- CASE disk.phase = "reboot_requested" -> "switching"
               [] disk.phase = "rollback_reboot_requested" -> "reverting"
               [] disk.phase \in Terminal -> disk.phase
               [] OTHER -> "pending",
    image <- dev.running,
    said <- result
ImplementsTransaction == Abstract!ASpec
=============================================================================
