# Verification of the Soul Room edge platform

TLA+ models of the parts of the platform whose correctness depends on the order
of events: crashes, restarts, lost answers, several requests at the same time.
TLC checks them on small instances, TLAPS proves the most important properties
for every value of the constants. Paths below are relative to the repository.

## 1. The system and its hard parts

The **agent** (`agent/`) runs on a device. Every interval `tick` empties its
offline queue, sends a heartbeat, telemetry and inventory, asks the cloud for a
job, runs it and posts the result. The **cloud** (`cloud-infra/`) is one process
(`cmd/platform`) with a control API for operators, a gateway for devices, and a
store: maps in memory behind one lock, written to one JSON file at every change.
Devices call the cloud, never the other way round; every call may be lost, be
answered late, or be repeated.

| Component | State | Operations | What is hard | What makes it correct |
|---|---|---|---|---|
| OTA engine, download and adapters (`agent/internal/ota`) | journal of one transaction; staging files; the updater's slots; boot ID | Execute and its phases, the resumable download, resume, confirm, roll back | crash between work and journal, interrupted downloads, reboots that do not happen, boot-loader fallback, failed journal writes | only a whole artifact is installed, nothing is installed twice, success only on the new image where the updater can tell, rolled back means the old image, every update is decided while its job lives |
| Campaigns and jobs (`server.go`, `storage/store.go` of the cloud) | campaign, jobs, devices | create, promote, next job, complete, delete, expire | handlers hold copies between store calls; late and repeated results; removals | one job per device, pilots first, "completed" covers every target, every job is decided |
| Offline queue (`agent/internal/storage`, `agent.go`) | `queue.jsonl`, the items a flush holds | enqueue, dequeue, prune, flush, archive | failure half-way through a flush, full queue, clock changes, another process | bounded, nothing vanishes untold, nothing is doubled, high priority stays, the backlog drains |
| Job registry (`agent/internal/jobs`, `agent.go`) | `jobs.json`, the job under way | poll, validate, execute, remember, post | redelivery after a lost result, torn file, ignored write errors | the cloud shows only real successes; no success is run again |
| Enrollment (`enrollment`, `identity`, `certificates`) | tokens, device records, identity files | new token, consume, create, certify, save, remove | several steps per request, time-outs and repeats, memory and file differ, half-saved identity | a token enrolls once, an identity belongs to one device and is known, removed stays removed |
| AI assistant (`assistant`, `server/assistant.go`) | key file, connection, request times, approvals | start, save and remove the connection, chat, approve an action | processes race for the key file, handlers save over each other, an approval is sent twice or after the device is gone | saved keys can be opened, a hosted provider's key goes to that provider only, the limit is exact, one job per approval |
| Device registry, telemetry ingestion (`server.go`, `storage/store.go` of the cloud) | device records, inventories, which devices have telemetry | heartbeat, inventory, telemetry, PATCH, delete | handlers read a record, change a copy and write it back; removals in between | an update is lost by an overlap only, no telemetry without its device, removed stays removed |
| Users, sessions, roles, platform settings (`server.go`, `rbac`, `cmd/dev-seed`) | users, memberships, sessions, settings, in memory and in the file | first owner, login, logout, create user, save and reset settings | failed writes that are or are not undone, restarts, the seed program as another process, chains of delegation | whole accounts, refused means refused, answers of success survive, nobody hands on more than he may do |
| Collectors, connectors, applications, configuration, TUI, web UI | none that is shared | I/O | - | not modelled |

The components interact through the cloud's store: `Campaign` queues the jobs
that `JobRegistry` polls for, whose `ota_update` handler is `OtaEngine`;
`OfflineQueue` shares the agent's loop; `Enrollment` supplies the identity all of
them present; `AssistantActions` queues jobs like an operator does;
`ControlPlane` has the accounts behind every operator and the records that
`Enrollment` creates. Each model
contains the other side as far as it can influence it (`Campaign` has devices that
report, `JobRegistry` a cloud that delivers).

## 2. Modules

### OtaEngine, OtaTransaction, OtaEngineProofs

`OtaEngine` is `Engine.Execute` with `resumeAfterReboot`, `confirmAndCommit` and
`failAndRollback` (`engine.go`), and the effect of every adapter method
(`adapters.go`). One action is one adapter call, one journal write or one reboot
request; `pc` says where in `Execute` the agent is, `tx` is its local copy of the
transaction, `disk` the journal. `dev` is what the updater and the boot loader
have: the running image, the one selected for the next boot, whether the new one
is staged and confirmed. `Crash` and `Reboot` may fall between any two actions;
`Reboot` boots the selected image or falls back from an unconfirmed one. Saves
whose error the code checks (`Save`, `SaveRetry`) return on failure; those whose
error it ignores (`SaveRollback`, `SaveEnd`) go on. `env` chooses the adapter, the
kind of request and the configuration once. `job` is the cloud's job for the update:
it is delivered while "open", and `CloseJob` ends it, with the success that was
answered or without one (a "failed" answer, expiry, removal of the device).

Versions are abstracted to "old" and "new", and a report of the updater
(`CurrentVersion`) to the set of releases whose name it contains, since
`confirmAndCommit` looks for the release *in* it and takes an empty report for a
confirmation. `env.telling` says that the report names the running release and no
other. OSTree's and Flatpak's commands print the revision in use; `rauc status`
lists every slot, and for SWUpdate there is no report; of Mender (`show-provides`)
and of plugins it depends on the device, so both are in the model. Where the report
does not tell, a boot-loader fallback may be journalled as a success on the old
image. `OTA_ADAPTERS.md` claims the opposite for OSTree only, so `SuccessOnlyOnTarget`
and the abstract transaction are conditional on `ExactlyConfirmed`: the report tells,
and the request names a revision. OSTree's fallback from `ostree admin status` when the
booted revision cannot be read is not distinguished.

`Download` is four steps between the phases `prepared` and `downloaded`: `OpenPart` continues the
`.part` file or starts it anew, `CopyPart` appends a block, `ClosePart` syncs and
closes, `CheckPart` compares size and digest and renames. A staging file is the
number of its blocks, whether they are the artifact's (`ok`) and whether they are
synced; a power loss (`Reboot`) leaves any part of what was not. The server is
arbitrary: it may send the rest of another artifact, too much, or stop. Renames
are taken to be durable. A `.part` file that is complete when the agent dies before
the rename is asked for from its end; the server refuses (416) and the update
fails, which `EventuallyDecided` accepts. The signature check is the step `Verify`.

`OtaTransaction` is what the engine promises: a durable stage that only moves
forward, success decided only while the new image runs, answers that agree with
the stage. `ImplementsTransaction` is the refinement; `stage` is computed from
the journal's phase.

### Campaign, CampaignProofs

One OTA campaign. A store method holds the store's lock, so it is one action; the
handlers `otaCampaigns` and `promoteOTACampaign` are sequences of them, with the
handler's copy of the campaign in `creator` and `promoter`. `array` is the array
behind `TargetIDs`, which `DeleteDevice` filters in place and every copy shares.
Jobs are numbered; `JobsOf` is the look-up by idempotency key. Devices (`held`,
`outcome`, `inflight`) poll, report, restart; a decided update keeps its outcome,
a call that is refused answers "failed" without touching it. `Overdue` lets a
job's `ExpiresAt` pass. The store's file is taken to be written at every change;
what a failed write does is in `Enrollment`. `Filtered` is the loop that keeps some
places of a list, in order; it is written with ranks and not with `SelectSeq`, so
that what it keeps can be proved.

### OfflineQueue, OfflineQueueProofs

The clock reads one of `Times`. `queue.jsonl`, `prune` and the agent's loop.
`prune` is a filter, a stable sort and a cut: `Sorted` puts each kept item behind all
that come `Earlier`, which is what a stable sort does whatever its algorithm;
`Fitting` cuts by the running `Totals`; the one result is written as a set, so that
TLC computes it once.
`Flush` takes a batch out of the file, `Send` sends its head, `Requeue` puts back
what is left, `Collect` sends a report or buffers it. `LossIsAccounted` compares
what each step loses with what it adds to the `DroppedItems` counter. `Replace` includes the
archive that `edge-agentctl` may make between load and rename. The clock may be
set to any time at any step. Sizes and ages are small numbers; the batch size is
a parameter. The assumption that one heartbeat fits the budget is
`config.Validate`'s lower bound of 1 MiB.

### JobRegistry, JobRegistryProofs

`processNextJob`, `Registry.Execute` and `jobs.json`, which is written in place:
a crash or a full disk during a save may leave it unreadable (`torn`), and the next
save starts it anew, as it does when the file cannot be read for once; `LookUp` is
Execute's own read, which may fail too. `Handle` stands for every job handler: it succeeds, fails, or (for an
update) asks for a reboot. `runs` and `done` count what really happened on the
device; the cloud's view is `cloud`.

### Enrollment, EnrollmentProofs

`Service.Enroll` as three steps (`Consume`, `Create`, `Certify`), each with a save
that may fail and leave memory ahead of the file; `ServerRestart` loads the file.
`ReadRecord` and `WriteRecord` are the handlers that read a device record and
write it back (heartbeat, inventory, PATCH); of the record only ID and tenant are
kept. On the device, `SaveIdentity` writes its files one by one, `SaveFails` stops
it anywhere and may leave the file at hand empty, `GiveUp` is the time-out after
which the operator may call again.

### AssistantConfig, AssistantConfigProofs

The key file `ai-secrets.key` and the connection whose provider key is sealed with
it. A process start is a sequence of steps of `loadSecretBox` (`Start`, `CreateKey`,
`WriteKey`), so processes race for the file and die while they write it. A PUT is
`PutConfiguration`, which reads the saved key and checks the request, and
`SaveAIConfiguration`; chats and tests keep the configuration they have read while
they call the provider (`calling`). A sealed key is the provider and the address it was
entered for and the process whose key sealed it. A hosted provider has one address,
which the handler sets whatever the request says; a compatible one has the address of
the request (`Endpoints`). "Leaving the key field blank preserves the saved key"
(`AI_ASSISTANT.md`) also when the PUT changes a compatible provider's address: the key
entered for one endpoint is then sent to the other. `KeyFitsProvider` states what does
hold: a hosted provider's key is sent to its address only, and a compatible one's never
to a hosted provider.

### AssistantActions, AssistantActionsProofs

`Service.Allow` with its list of request times (`calls` is what really was let
through, for the property), `prepareAIActions`, which turns a proposal into a sealed
approval, and `aiAction`: `Approve` is all it checks, `QueueAction` its call of
`CreateJob`. Jobs, capabilities and devices change in between. Proposals are
arbitrary: nothing is assumed of the language model. Proposals to open a page carry
no approval and are left out.

### ControlPlane, ControlPlaneProofs

Accounts, sessions, settings and device records, with the store they share. A store
method is one step that changes the memory and replaces the file, or changes the
memory and fails to write; `CreateTenantUser` alone undoes its change then. A
handler is several steps (`pc` of its request: check, act, read, write, audit),
and the store, other handlers and a restart may come between any two. The audit
record at the end of a handler is one more write of the whole store, which makes a
change durable that an earlier write failed to. Each run of the seed program is a
process of its own with its own copy of the file (`seed`); runs may overlap with each
other and with the platform, which `compose.yaml` starts after one of them.
`BootstrapOrganizationOwner` looks for an installation in the run's copy only, so a run
that overlaps another writes over what is there; `replaced` notes that it happened.

Requests are numbered, and a value that a request writes (a session token, settings,
a field of a record) is the request's number, so that the properties can tell whose
value is shown. Passwords are "first" (the one the first owner was told of) and
"other". `told`, `refused`, `latest` and `overlap` are history variables: what
clients were answered, addresses whose creation failed, the last request that says
something of a field, and the devices of which two handlers had a copy at the same time. A record's
fields stand for groups that one handler sets together; "agent" is `AgentVersion`, which
an inventory without it keeps and a heartbeat without it (or with a payload that cannot
be read) clears, so `LostOnlyByOverlap` counts every heartbeat as saying something of it.
There is one organization
(no program creates a second) and an account has one role, as `CreateTenantUser`
gives it.

Left out: two processes writing the one temporary file of `saveLocked` at the same
moment; power loss (`saveLocked` renames without syncing, so an answer survives the
end of the process, not of the machine); a `cmd/device-gateway` that shares the file
with the platform; the metrics and the audit records themselves. `SaveInventory`
stores the inventory of a device that was removed after the look-up; the entry has
no device then, and nothing reads it.

The definitions named `X_Y` in a module ("fault variant") are faulty forms of
definition `X`. Nothing uses them; they record which mistake in the code each
property would reveal, and every property of a passing run has one.

## 3. Runs

| Run | Instance | Shows |
|---|---|---|
| `OtaEngine` | 7 adapters, an artifact of 2 blocks, 3 boots, 1 crash, fair | the journal is followed, only a whole artifact is installed, no reinstall, success on target, refinement, every update is decided unless its job ends first |
| `CampaignRollout` | 2 devices, 1 pilot, 2 operators, fair | one job per device, pilot first, every job is decided |
| `CampaignRemovals` | 2 devices, targets d1, d2, d2, removals | "completed" covers every target |
| `OfflineQueue` | 3 reports, 2 units of space, 2 clock readings, batch 2, 1 fault, fair | budget, no copies, every loss is counted, priorities, the backlog drains |
| `ControlPlane` | the owner and 2 addresses, 4 roles, 1 device, 4 requests, 2 runs of the seed program at the same time, 1 failed write | accounts, answers, delegation, device records, telemetry |
| `JobRegistry` | a command, an update, an unsupported job, 2 runs each | success is real, no rerun without a fault |
| `AssistantConfig` | the server and one more process, 2 compatible endpoints, 2 PUTs and 1 provider call at the same time, 3 process ends | saved keys can be opened, keys fit their providers |
| `AssistantActions` | an owner and an operator, 1 device, 1 approval sent twice at once, limit 2 in a window of 2, 1 restart | exact limit, one job per approval, no job without device |
| `Enrollment` | 2 devices, 2 tokens of 2 tenants, 3 requests, 1 failed write, any number of restarts | the enrollment properties |

Three more runs refute what a document or a message of the code says:

* `ControlPlaneSeeds`: "Changing `.env` later does not change an existing owner's email
  or password" (`README.md:105`), but two overlapping runs of the seed program both find
  no installation (`store.go:147`), and the later one replaces the owner that the first
  one has told of.
* `CampaignPilots`: "only a completed pilot group can be promoted"
  (`server.go:553`), but with two pilots the first one's success is counted
  before the second one's job exists.
* `JobRegistryRestart`: `JOB_STATE_MACHINE.md` says completed jobs are not rerun
  after a restart; a torn `jobs.json` forgets all of them.

More divergences were met and are described here only. `otaCampaigns` writes its own
copy of the campaign back after it has queued the jobs (`server.go:513`); when the
pilot's success arrives before that (`CreatorQueue`, the pilot's report, `CompleteJob`,
`CreatorUpdate`), the campaign goes from `canary_complete` back to `canary_queued`, no
further result changes it, and `promoteOTACampaign` refuses for ever. No line of the
repository says that such a campaign must be promotable, so no property does. "device did not reboot
after three requests" (`engine.go:201`) is said of the rollback after fewer, because
`RebootAttempts` still holds the update's requests when `failAndRollback` starts its
own. `QUEUE_POLICY.md` says the oldest low-priority items are dropped; `prune`
sorts the oldest to the front and cuts the newest. "Replaying the same approval
returns the same job" (`AI_ASSISTANT.md`) ends when that job is removed from the
history: `OneJobPerApproval` is stated for the jobs in the history. A failed write of
the journal does not keep `failAndRollback` from requesting the reboot
(`engine.go:277`, against `OTA_ADAPTERS.md`). A crash between the adapter's
rollback and its journal entry (`engine.go:268`) lets the next call confirm the
update with the old deployment selected for the next boot. `flush` takes items
out of the file before they are sent (`agent.go:148`), so a crash loses them
although `QUEUE_POLICY.md` calls the store crash-safe; `LossIsAccounted` therefore
allows a crash or a failed write the loss of one batch. An item that the cloud
rejects for good is put back and blocks every later flush (`agent.go:157`);
`BacklogDrains` has a cloud that accepts what it answers. A job whose success was
reported but lost and that has expired since is answered "expired" (`jobs.go:74`).
A torn key file makes every later enrollment fail until somebody removes it
(`identity.go:66`).

### Bounds

`MaxBoots` 3 covers the update's reboot, the rollback's and one that nobody asked
for; `MaxCrashes` 1 adds a crash of the process at any point, next to the power losses
that the reboots are and to failed writes, which are not bounded (the invariants are
proved for any number of all three). One failed write in `ControlPlane` can hit any step;
a second one only undoes what a later write has repaired. Two runs of the seed program
are what an overlap needs.
Two devices, one of them the pilot, are enough for a promotion to race with the
creation; the third target of `CampaignRemovals` is a repeated one, so that
numbers of jobs and targets differ. Three reports overflow a queue of two units
(an inventory takes two) and exceed a batch of two; the two readings of the clock
are further apart than `MaxAge`. Two blocks are enough for a download that breaks
off in the middle and one that exceeds the limit. Four requests of `ControlPlane` are
a login, an account, and two handlers on the record or account at the same time; the
roles are all that can create accounts and one that cannot. Three enrollment requests let
one device ask twice while another one asks. One approval is enough for
`AssistantActions`, whose properties are about one approval each; a limit of two in
a window of two lets requests age one by one. Two racing processes and three ends
cover a crash of the writer and the restart of both; two PUTs overlap each other and a
provider call, and `MaxCalls` is 1 because the properties are about each call alone. Deadlock is not checked where the
system may really stop: all jobs decided, all requests answered.

### Fairness

`OtaEngine`: the job is delivered again as long as it is open in the cloud, and
`Execute`, which has no loops, returns (weak fairness of calls and steps); two minutes
pass; the state directory is not unwritable for ever (strong fairness of a successful
save). Nothing is assumed of reboots. A job that was answered "failed" or has expired is
not delivered again (`store.go:764`): after a failed checked save or a failed repeated
reboot request the update may stay undecided on the device, and `EventuallyDecided`
says just that an update is decided or its job has ended without a success. `Campaign`: devices poll, requests are answered or lost, time
passes; operators owe nothing and results may all be lost. `OfflineQueue`: the
ticker drives the loop; the link is a hypothesis of the property.

## 4. Proofs

`OtaEngineProofs` proves `TypeCorrect`, `JournalFollowed`, `RolledBackSound`,
`ResumeWithoutReinstall` and `SuccessSound` for every set of adapters and all
bounds; `SuccessSound` and the refinement speak of a success on the new image only for
updates that name a revision and whose updater reports the running release. `WorkFollowsJournal` is not inductive: a step that acts is preceded by
steps that save, so the inductive invariant says, for every location, which
phases the local copy may be in and how they relate to the journalled one (one
phase ahead while a save is due). For OSTree it adds what the device looks like
in each phase: the new deployment is not selected before `installed`, and a
rollback that is journalled with the current boot ID has the old one selected.
`InstalledWhole` is `WholeInstalled` for artifacts of any size; its invariant
(`Staged`) says that a file is synced before it gets its final name, so no power
loss takes away what the journal calls verified. `Refinement` shows that the engine
implements `OtaTransaction`: `OutsideStep` sorts the steps by what is seen of them
from outside (work, an answer, a phase that is journalled, the last answer together
with the outcome), and `Simulation` makes each of them a step of the transaction or
none. It needs one more part (`Due`): while a phase is due to be saved the journal
holds the one before it, so an outcome is written over an open transaction and a
stage never moves back.

`CampaignProofs` proves all four safety properties (`CampaignTypes`, `OneJobEach`,
`PilotGoesFirst`, `CompletedIsCovered`) for any devices, request, percentage and number
of operators. Every step either appends a job for a device that has none
or changes states without reviving a removed job, from which `OneJobPerDevice`
follows. For `PilotFirst` the invariant follows a success from the device over the
result on its way to the stored job (`Told`), and adds that a campaign shown as
`canary_complete`, and every promotion under way, is past the pilot (`Led`).

`CompleteJob` shows a campaign as completed when two numbers agree, the present jobs
and the length of `TargetIDs`; `CompletedCoversTargets` says which devices they are.
The invariant that makes the numbers enough (`CInv`): a present job is for a device
that is known and was asked for (`Targeted`), no two are for the same one (`Alone`),
and every length under which the list is stored, *or is still held by a handler that
may store it*, reaches all known targets (`Covered`). The last part is the delicate
one, because `DeleteDevice` shifts the shared array under the handlers' copies: it
holds since an item only ever moves forward (`FilteredKeeps`, `DeleteCovers`). Then
the jobs map one to one into the list's devices, which are no more than the jobs, so
each has one. TLC checked `CInv` on the instance of `CampaignRemovals` before.

`JobRegistryProofs` proves `JobTypes`, `SuccessReal` and `NoRerun` for any jobs
and bounds. The invariant follows a success through its stations: whatever says
"succeeded" (the result at hand, `jobs.json`, a result on its way, the cloud) has
a successful execution behind it; and while there was no fault, a job that has
succeeded is remembered in a readable file, or is just about to be. A failed read or
write, torn or not, is a fault.

`AssistantConfigProofs` proves `ConfigTypes`, `SecretsStayOpen` and `KeysFit` for
any number of processes, endpoints and requests. `SecretsOpen` is not inductive: the invariant
adds that at most one process is ever writing the file and then the file is short
(`OneWriter`), that a process which has a key has the file's (`OneKey`), and that
every stored or pending secret is sealed with the file's key, was entered for its
provider and, of a hosted one, for that provider's address (`Stored`).

`AssistantActionsProofs` proves all four invariants (`ActionsTypes`, `ApprovedOnce`,
`NoOrphanJobs`, `LimitExact`) for any users, devices and bounds; the invariant
states `OneJobPerApproval` without cardinalities. `LimitIsExact` speaks of the present
only and is not inductive: `SameCount` says that the pruned list and the whole history
have equally many entries of the last minute at every time *from now on*, which each
step keeps because what `Allow` drops is out of the minute for good.

`OfflineQueueProofs` proves all five safety properties of `OfflineQueue`
(`QueueTypes`, `QueueWithinBudget`, `QueueHasNoCopies`, `QueueLossIsAccounted`,
`QueueKeepsPriority`) for any sizes, budget, age, batch and bounds. `WithinBudget`
and `NoCopies` are inductive with two more parts: items in queue and hand have
distinct numbers that were given out (`Named`), and flush holds one batch at most
(`OneBatch`). The rest are lemmas about the operators, for lists of any length:
`Totals` is the running sum and grows (`TotalsDef`, `SegmentTotals`), `Earlier` is a
strict linear order (`EarlierOrder`), `Sorted` lists each kept place once and in that
order (`SortedLists`), `prune` keeps a part of its argument that fits and drops nothing
that should stay before what it keeps (`PruneKeeps`). Where they need induction over a
list's length, the proof takes the least number for which the claim fails (`Least`,
from well-foundedness of the naturals) instead of the library's induction theorem,
which the provers cannot instantiate.

`EnrollmentProofs` proves all five invariants of `Enrollment` (`EnrollmentTypes`,
`OneDevicePerToken`, `IdentityIsOwn`, `IdentityIsKnown`, `RemovedForGood`) for any
devices, tokens, requests, failed writes and restarts. The further parts of the
invariant: IDs are given in turn and to one request each (`Numbered`); a token is
used up in memory and file before a device is created with it (`Once`); whatever
names a device (a record, a request, a removal) goes back to a creation (`Backed`); a record whose creation was answered is in memory and file
until its removal is asked for (`Kept`); a client that saves holds its own answer
(`Held`); and while no fault happened the ID and the tenant on disk come from one
answer (`Matched`).

`ControlPlaneProofs` proves all six properties of `ControlPlane` for any addresses,
devices and bounds (`ControlTypes`, `StoreSound`, `RefusedForGood`,
`AnswersSurvive`, `NoEscalation`, `NoSilentLoss`). They are
inductive only together and with five more parts: only a running platform has
handlers at work (`Working`); a run of the seed program that may still write has an
empty copy (`Installed`); memory and file have the same accounts, unless such a run
replaced the file by one with the owner only, and up to then what clients were told is
in the memory too, so that the next write does not take it out of the file (`Synced`); who has asked for an account still has
the role that allowed it (`Asked`); and the only copy of a record differs from it in
what its request says (`Copies`). `AnswersSurvive` holds as long as no run writes over
an installation; `ControlPlaneSeeds` shows that one may.

The assumptions are the ones named in the modules (`AdaptersAssumption`,
`ArtifactAssumption`, `BoundsAssumption`, `TargetsAssumption`, `PercentAssumption`,
`SwitchAssumption`, `JobsAssumption`, `EnrollmentAssumption`, `ProcsAssumption`,
`ConfigBounds`, `ActionsAssumption`, `ActionsBounds`, `NamesAssumption`, `ControlBounds`,
`RolesAssumption`, `QueueAssumption`, `QueueBounds`). Every invariant and every action
property that the passing runs check is a theorem, and so is the refinement.
Model-checked only: liveness (`EventuallyDecided`, `EveryJobDecided`,
`BacklogDrains`), which rests on fairness and is out of the prover's reach.

## 5. Left to do

A composition of the cloud's queue with `JobRegistry` and `OtaTransaction`, which
today meet through the results each of them allows the other.

Not modelled: collectors and connectors (reads of the operating
system), configuration files, TUI and web UI, the content of the audit log, security scan,
cryptography itself, TLS. The clocks of device and cloud are taken to agree on
whether a job has expired.
