------------------------------ MODULE Campaign ------------------------------
(***************************************************************************)
(* One OTA campaign of the cloud: the handlers that create and promote it  *)
(* (cloud-infra/internal/server/server.go), the store they share with the  *)
(* device endpoints (cloud-infra/internal/storage/store.go), and devices   *)
(* that poll for jobs and report results.                                  *)
(*                                                                         *)
(* A store method holds the store's lock: it is one step.  A handler calls *)
(* several of them and keeps a copy of the campaign in between, so every   *)
(* call is a step of its own, and anything may happen between two of them. *)
(***************************************************************************)
EXTENDS Naturals, Sequences, FiniteSets, SequencesExt

CONSTANTS
    Devices,        \* the tenant's devices
    Targets,        \* the TargetIDs of the request, a sequence of devices
    CanaryPercent,  \* 1..100, see validateRollout
    Admins,         \* operators who may press "Continue rollout"
    Removals,       \* whether job history and devices are removed
    MaxJobs,        \* bound: jobs ever created
    MaxInflight     \* bound: results on their way to the cloud

ASSUME TargetsAssumption == Targets \in Seq(Devices) /\ Targets # <<>>
ASSUME PercentAssumption == CanaryPercent \in 1..100
ASSUME SwitchAssumption == Removals \in BOOLEAN /\ MaxJobs \in Nat /\ MaxInflight \in Nat

VARIABLES
    devices,    \* the devices the store knows
    camp,       \* the stored campaign: exists, state, len (of its TargetIDs)
    array,      \* the array behind every copy of the campaign's TargetIDs slice
    jobs,       \* the jobs ever created; a removed one has state "removed"
    creator,    \* the POST handler
    promoter,   \* the PATCH handlers
    held,       \* the job each device works on (0: none)
    outcome,    \* what became of the update on each device
    inflight    \* results that devices have sent

vars == <<devices, camp, array, jobs, creator, promoter, held, outcome, inflight>>
store == <<devices, camp, array, jobs>>
handlers == <<creator, promoter>>
edge == <<held, outcome, inflight>>

-----------------------------------------------------------------------------
Open == {"queued", "delivered", "running", "rebooting"}
Closed == {"succeeded", "failed", "expired"}
CampaignStates == {"ready", "canary_queued", "queued", "running", "failed",
                   "canary_complete", "completed"}

Present == {i \in DOMAIN jobs : jobs[i].state # "removed"}
JobsOf(d) == {i \in Present : jobs[i].dev = d}

\* The pilot group: ceil(n * percent / 100) devices, at least one.
CanaryCount(n) == LET c == (n * CanaryPercent + 99) \div 100 IN IF c < 1 THEN 1 ELSE c
Pilots == {Targets[i] : i \in 1..CanaryCount(Len(Targets))}

\* What s holds at some of its places, in its order.
Filtered(s, places) ==
    LET Place(n) == CHOOSE i \in places : Cardinality({j \in places : j < i}) = n - 1
    IN  [n \in 1..Cardinality(places) |-> s[Place(n)]]

\* Fault variant: the targets without a job are not counted.
campaignState_NoCount(js) ==
    LET here == {i \in DOMAIN js : js[i].state # "removed"}
    IN  IF here = {} THEN camp.state
        ELSE IF \E i \in here : js[i].state \in {"failed", "expired"} THEN "failed"
        ELSE IF \E i \in here : js[i].state # "succeeded" THEN "running" ELSE "completed"

\* What the state of the campaign is, judged from jobs js.
campaignState(js) ==
    LET here == {i \in DOMAIN js : js[i].state # "removed"}
    IN  IF here = {} THEN camp.state
        ELSE IF \E i \in here : js[i].state \in {"failed", "expired"} THEN "failed"
        ELSE IF \E i \in here : js[i].state # "succeeded" THEN "running"
        ELSE IF Cardinality(here) < camp.len THEN "canary_complete"
        ELSE "completed"

Init ==
    /\ devices = Devices
    /\ camp = [exists |-> FALSE, state |-> "ready", len |-> 0]
    /\ array = Targets
    /\ jobs = <<>>
    /\ creator = [pc |-> "start", i |-> 1, len |-> 0]
    /\ promoter = [a \in Admins |-> [pc |-> "idle", todo |-> <<>>, len |-> 0]]
    /\ held = [d \in Devices |-> 0]
    /\ outcome = [d \in Devices |-> "none"]
    /\ inflight = {}

-----------------------------------------------------------------------------
(* Store methods that the handlers share.                                  *)

\* Fault variant: the idempotency key is not looked up.
CreateJob_NoKey(d) ==
    /\ d \in devices /\ Len(jobs) < MaxJobs
    /\ jobs' = Append(jobs, [dev |-> d, state |-> "queued", overdue |-> FALSE])
    /\ UNCHANGED <<devices, camp, array>>

\* CreateJob: a job with the same idempotency key (campaign and device) is
\* returned instead of a new one.
CreateJob(d) ==
    /\ d \in devices
    /\ IF JobsOf(d) # {} THEN UNCHANGED jobs
       ELSE /\ Len(jobs) < MaxJobs
            /\ jobs' = Append(jobs, [dev |-> d, state |-> "queued", overdue |-> FALSE])
    /\ UNCHANGED <<devices, camp, array>>

\* CreateJob fails: the device is gone, or the file cannot be written (the
\* new job stays in memory all the same).
CreateJobFails(d) ==
    \/ d \notin devices /\ UNCHANGED store
    \/ JobsOf(d) = {} /\ CreateJob(d)

\* UpdateOTACampaign: the handler's copy replaces the stored campaign.
UpdateOTACampaign(state, len) ==
    /\ camp' = IF camp.exists THEN [camp EXCEPT !.state = state, !.len = len] ELSE camp
    /\ UNCHANGED <<devices, array, jobs>>

-----------------------------------------------------------------------------
(* POST: create the campaign and queue the pilot group's jobs.             *)

CreateCampaign ==
    /\ creator.pc = "start"
    /\ ToSet(Targets) \subseteq devices
    /\ camp' = [exists |-> TRUE, state |-> "ready", len |-> Len(Targets)]
    /\ creator' = [creator EXCEPT !.pc = "queue", !.len = Len(Targets)]
    /\ UNCHANGED <<devices, array, jobs, promoter, edge>>

CreatorQueue ==
    /\ creator.pc = "queue" /\ creator.i <= CanaryCount(creator.len)
    /\ \/ CreateJob(array[creator.i]) /\ creator' = [creator EXCEPT !.i = @ + 1]
       \/ CreateJobFails(array[creator.i]) /\ creator' = [creator EXCEPT !.pc = "abort"]
    /\ UNCHANGED <<promoter, edge>>

CreatorUpdate ==
    /\ creator.pc = "queue" /\ creator.i > CanaryCount(creator.len)
    /\ UpdateOTACampaign(IF CanaryCount(creator.len) < creator.len THEN "canary_queued" ELSE "queued",
                         creator.len)
    /\ creator' = [creator EXCEPT !.pc = "done"]
    /\ UNCHANGED <<promoter, edge>>

CreatorAbort ==
    /\ creator.pc = "abort"
    /\ UpdateOTACampaign("failed", creator.len)
    /\ creator' = [creator EXCEPT !.pc = "done"]
    /\ UNCHANGED <<promoter, edge>>

-----------------------------------------------------------------------------
(* PATCH: promote, that is, queue a job for every target without one.      *)

\* Fault variant: the campaign's state is not examined.
StartPromote_AnyState(a) ==
    /\ promoter[a].pc = "idle"
    /\ camp.exists
    /\ promoter' = [promoter EXCEPT ![a] = [pc |-> "list", todo |-> <<>>, len |-> camp.len]]
    /\ UNCHANGED <<store, creator, edge>>

StartPromote(a) ==
    /\ promoter[a].pc = "idle"
    /\ camp.exists /\ camp.state = "canary_complete"
    /\ promoter' = [promoter EXCEPT ![a] = [pc |-> "list", todo |-> <<>>, len |-> camp.len]]
    /\ UNCHANGED <<store, creator, edge>>

\* JobsForDeployment; "campaign_already_promoted" when nothing is left.
ListRemaining(a) ==
    /\ promoter[a].pc = "list"
    /\ LET remaining == Filtered(array, {i \in 1..promoter[a].len : JobsOf(array[i]) = {}})
       IN  promoter' = [promoter EXCEPT ![a].pc = IF remaining = <<>> THEN "idle" ELSE "queue",
                                        ![a].todo = remaining]
    /\ UNCHANGED <<store, creator, edge>>

PromoteQueue(a) ==
    /\ promoter[a].pc = "queue" /\ promoter[a].todo # <<>>
    /\ \/ CreateJob(Head(promoter[a].todo)) /\ promoter' = [promoter EXCEPT ![a].todo = Tail(@)]
       \/ CreateJobFails(Head(promoter[a].todo))
          /\ promoter' = [promoter EXCEPT ![a].pc = "idle", ![a].todo = <<>>]
    /\ UNCHANGED <<creator, edge>>

PromoteUpdate(a) ==
    /\ promoter[a].pc = "queue" /\ promoter[a].todo = <<>>
    /\ UpdateOTACampaign("queued", promoter[a].len)
    /\ promoter' = [promoter EXCEPT ![a].pc = "idle"]
    /\ UNCHANGED <<creator, edge>>

-----------------------------------------------------------------------------
(* The device endpoints.                                                   *)

\* Fault variant: a job is delivered again however old it is.
NextJobForDevice_NoExpiry(d) ==
    /\ d \in devices /\ held[d] = 0
    /\ \E i \in JobsOf(d) : /\ jobs[i].state \in Open
                            /\ jobs' = [jobs EXCEPT ![i].state = "delivered"]
                            /\ held' = [held EXCEPT ![d] = i]
    /\ UNCHANGED <<devices, camp, array, handlers, outcome, inflight>>

\* NextJobForDevice: the map is walked in any order; overdue jobs met on the
\* way expire, the first job that is not overdue is delivered (again).
NextJobForDevice(d) ==
    LET mine == {i \in JobsOf(d) : jobs[i].state \in Open}
        late == {i \in mine : jobs[i].overdue}
        Expired(S) == [i \in DOMAIN jobs |-> IF i \in S THEN [jobs[i] EXCEPT !.state = "expired"]
                                             ELSE jobs[i]]
    IN  /\ d \in devices /\ held[d] = 0
        /\ \/ \E i \in mine \ late, S \in SUBSET late :
                /\ jobs' = [Expired(S) EXCEPT ![i].state = "delivered"]
                /\ held' = [held EXCEPT ![d] = i]
           \/ /\ mine = late /\ late # {}
              /\ jobs' = Expired(late)
              /\ UNCHANGED held
        /\ UNCHANGED <<devices, camp, array, handlers, outcome, inflight>>

\* Fault variant: the campaign takes over the job's state.
CompleteJob_CopiesState(m) ==
    /\ m \in inflight
    /\ inflight' = inflight \ {m}
    /\ IF m.job \in Present
       THEN /\ jobs' = [jobs EXCEPT ![m.job].state = m.state]
            /\ camp' = IF camp.exists THEN [camp EXCEPT !.state = m.state] ELSE camp
       ELSE UNCHANGED <<jobs, camp>>
    /\ UNCHANGED <<devices, array, handlers, held, outcome>>

\* CompleteJob: whatever the job's state was, the result becomes its state,
\* and the campaign's state is computed anew.
CompleteJob(m) ==
    /\ m \in inflight
    /\ inflight' = inflight \ {m}
    /\ IF m.job \in Present
       THEN /\ jobs' = [jobs EXCEPT ![m.job].state = m.state]
            /\ camp' = IF camp.exists THEN [camp EXCEPT !.state = campaignState(jobs')] ELSE camp
       ELSE UNCHANGED <<jobs, camp>>
    /\ UNCHANGED <<devices, array, handlers, held, outcome>>

-----------------------------------------------------------------------------
(* The devices (external here: their side is OtaEngine) and the network.   *)

\* The device reports.  A transaction that is decided stays decided; a call
\* that is refused (an overdue job, a request that is not valid, a journal that
\* cannot be read) answers "failed" without touching it.
Report(d, state) ==
    /\ held[d] # 0 /\ Cardinality(inflight) < MaxInflight
    /\ \/ outcome[d] = "none" /\ outcome' = [outcome EXCEPT ![d] = IF state = "rebooting" THEN @ ELSE state]
       \/ outcome[d] = state /\ UNCHANGED outcome
       \/ state = "failed" /\ UNCHANGED outcome
    /\ inflight' = inflight \cup {[job |-> held[d], state |-> state]}
    /\ held' = [held EXCEPT ![d] = 0]
    /\ UNCHANGED <<store, handlers>>

\* The result is lost, or the agent stops before it reports.
Lose(m) ==
    /\ m \in inflight
    /\ inflight' = inflight \ {m}
    /\ UNCHANGED <<store, handlers, held, outcome>>
AgentRestart(d) ==
    /\ held[d] # 0
    /\ held' = [held EXCEPT ![d] = 0]
    /\ UNCHANGED <<store, handlers, outcome, inflight>>

-----------------------------------------------------------------------------
(* Removals, time and restarts.                                            *)

DeleteJob(i) ==
    /\ Removals /\ i \in Present /\ jobs[i].state \in Closed
    /\ jobs' = [jobs EXCEPT ![i].state = "removed"]
    /\ UNCHANGED <<devices, camp, array, handlers, edge>>

\* DeleteDevice: the device's jobs go; the campaign's TargetIDs are filtered
\* in place (TargetIDs[:0]), which every other copy of the slice sees.
DeleteDevice(d) ==
    LET left == Filtered(array, {i \in 1..camp.len : array[i] # d})
    IN  /\ Removals /\ d \in devices
        /\ devices' = devices \ {d}
        /\ jobs' = [i \in DOMAIN jobs |->
                      IF jobs[i].dev = d THEN [jobs[i] EXCEPT !.state = "removed"] ELSE jobs[i]]
        /\ IF camp.exists
           THEN /\ array' = left \o SubSeq(array, Len(left) + 1, Len(array))
                /\ camp' = IF left = <<>> THEN [camp EXCEPT !.exists = FALSE]
                           ELSE [camp EXCEPT !.len = Len(left)]
           ELSE UNCHANGED <<array, camp>>
        /\ UNCHANGED <<handlers, edge>>

\* A job's ExpiresAt passes.
Overdue(i) ==
    /\ i \in Present /\ ~jobs[i].overdue
    /\ jobs' = [jobs EXCEPT ![i].overdue = TRUE]
    /\ UNCHANGED <<devices, camp, array, handlers, edge>>

\* The server restarts from its file: requests under way are gone.
ServerRestart ==
    /\ creator.pc \in {"queue", "abort"} \/ \E a \in Admins : promoter[a].pc # "idle"
    /\ creator' = IF creator.pc = "start" THEN creator ELSE [creator EXCEPT !.pc = "done"]
    /\ promoter' = [a \in Admins |-> [pc |-> "idle", todo |-> <<>>, len |-> 0]]
    /\ UNCHANGED <<store, edge>>

-----------------------------------------------------------------------------
Creator == CreateCampaign \/ CreatorQueue \/ CreatorUpdate \/ CreatorAbort
Promoter(a) == StartPromote(a) \/ ListRemaining(a) \/ PromoteQueue(a) \/ PromoteUpdate(a)

Next ==
    \/ Creator
    \/ \E a \in Admins : Promoter(a)
    \/ \E d \in Devices : NextJobForDevice(d) \/ AgentRestart(d) \/ DeleteDevice(d)
    \/ \E d \in Devices, state \in {"succeeded", "failed", "rebooting"} : Report(d, state)
    \/ \E m \in inflight : CompleteJob(m) \/ Lose(m)
    \/ \E i \in DOMAIN jobs : DeleteJob(i) \/ Overdue(i)
    \/ ServerRestart

Spec == Init /\ [][Next]_vars

\* Devices poll every interval, a job's context and time end, a request is
\* answered or lost, handlers run to their end.  Operators owe nothing.
Fairness ==
    /\ WF_vars(CreatorQueue \/ CreatorUpdate \/ CreatorAbort)
    /\ \A a \in Admins : WF_vars(ListRemaining(a) \/ PromoteQueue(a) \/ PromoteUpdate(a))
    /\ \A d \in Devices :
          /\ WF_vars(NextJobForDevice(d))
          /\ WF_vars(AgentRestart(d) \/ \E state \in {"succeeded", "failed", "rebooting"} : Report(d, state))
    /\ WF_vars(\E m \in inflight : CompleteJob(m) \/ Lose(m))
    /\ \A i \in 1..MaxJobs : WF_vars(i \in DOMAIN jobs /\ Overdue(i))
FairSpec == Spec /\ Fairness

-----------------------------------------------------------------------------
(* What must hold.                                                         *)

\* Every variable has its type.
TypeOK ==
    /\ devices \subseteq Devices
    /\ camp \in [exists : BOOLEAN, state : CampaignStates, len : 0..Len(Targets)]
    /\ array \in Seq(Devices) /\ Len(array) = Len(Targets)
    /\ jobs \in Seq([dev : Devices, state : Open \cup Closed \cup {"removed"}, overdue : BOOLEAN])
    /\ creator \in [pc : {"start", "queue", "abort", "done"}, i : 1..(Len(Targets) + 1),
                    len : 0..Len(Targets)]
    /\ promoter \in [Admins -> [pc : {"idle", "list", "queue"}, todo : Seq(Devices),
                                len : 0..Len(Targets)]]
    /\ held \in [Devices -> 0..MaxJobs]
    /\ outcome \in [Devices -> {"none", "succeeded", "failed"}]
    /\ inflight \subseteq [job : 1..MaxJobs, state : {"succeeded", "failed", "rebooting"}]

\* However creation, promotion and repeated promotion interleave, a device
\* never has two jobs of the campaign.
OneJobPerDevice == \A d \in Devices : Cardinality(JobsOf(d)) <= 1

\* The campaign becomes "completed" only when every device it targets has a
\* job that succeeded: a partial rollout is never shown as complete, although
\* the code only compares numbers, and devices and jobs come and go.
CompletedCoversTargets ==
    [][camp'.exists /\ camp'.state = "completed" /\ camp.state # "completed" =>
         \A t \in ToSet(SubSeq(array', 1, camp'.len)) :
             \E i \in DOMAIN jobs' : jobs'[i].dev = t /\ jobs'[i].state = "succeeded"]_vars

\* With a pilot group of one device, no other device gets a job before the
\* pilot's update succeeded (App.tsx: "The pilot group receives the update
\* first").  Results that come late or twice change nothing.
PilotFirst ==
    CanaryCount(Len(Targets)) = 1 /\ ~Removals =>
        \A i \in Present : jobs[i].dev \notin Pilots => \A d \in Pilots : outcome[d] = "succeeded"

\* Every job that is queued is decided: it gets a result or expires.
EveryJobDecided ==
    \A i \in 1..MaxJobs :
        i \in DOMAIN jobs ~> i \in DOMAIN jobs /\ jobs[i].state \in Closed \cup {"removed"}

-----------------------------------------------------------------------------
(* What the product says and the code does not keep.                       *)

\* promoteOTACampaign: "only a completed pilot group can be promoted".  When a
\* promotion is accepted, the update has succeeded on every pilot device.
OnlyCompletedPilots ==
    [][\A a \in Admins : StartPromote(a) =>
          \A d \in Pilots \cap devices : outcome[d] = "succeeded"]_vars
=============================================================================
