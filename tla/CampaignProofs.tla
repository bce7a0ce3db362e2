--------------------------- MODULE CampaignProofs ---------------------------
(***************************************************************************)
(* Proofs about the OTA campaign, for any devices, request and operators:  *)
(* a device never has two jobs, a pilot group of one goes first, and a     *)
(* campaign that becomes "completed" covers its targets.                   *)
(***************************************************************************)
EXTENDS Campaign, FiniteSetTheorems, FunctionTheorems, SequenceTheorems, TLAPS

Job == [dev : Devices, state : Open \cup Closed \cup {"removed"}, overdue : BOOLEAN]
Results == {"succeeded", "failed", "rebooting"}

\* The store's part: what the jobs are, and that no two present ones are of the
\* same device.
Stored ==
    /\ devices \subseteq Devices
    /\ jobs \in Seq(Job)
    /\ \A m \in inflight : m.state \in Results
Alone == \A i, j \in Present : jobs[i].dev = jobs[j].dev => i = j

\* What a step does to the jobs: one more, for a known device that has none, or
\* other states of the same ones, of which a removed one stays removed.
Grows ==
    \E d \in devices :
        /\ JobsOf(d) = {}
        /\ jobs' = Append(jobs, [dev |-> d, state |-> "queued", overdue |-> FALSE])
Turns ==
    /\ jobs' \in Seq(Job) /\ Len(jobs') = Len(jobs)
    /\ \A i \in DOMAIN jobs : /\ jobs'[i].dev = jobs[i].dev
                              /\ jobs[i].state = "removed" => jobs'[i].state = "removed"

\* A function on the jobs' numbers is again a sequence of jobs.
LEMMA SameLength ==
  ASSUME Stored, NEW f \in [DOMAIN jobs -> Job]
  PROVE  f \in Seq(Job) /\ Len(f) = Len(jobs)
<1>1. jobs \in Seq(Job) /\ DOMAIN jobs = 1..Len(jobs) /\ Len(jobs) \in Nat
  BY DEF Stored
<1>2. f \in [1..Len(jobs) -> Job]
  BY <1>1
<1>3. f \in Seq(Job)
  BY <1>1, <1>2, SeqDef
<1> QED
  BY <1>1, <1>2, <1>3, LenProperties

\* New states for some of the jobs, or the same ones overdue.
LEMMA Turning ==
  ASSUME Stored, DOMAIN jobs' = DOMAIN jobs,
         jobs' = [i \in DOMAIN jobs |-> jobs'[i]],
         \A i \in DOMAIN jobs :
            /\ jobs'[i] \in Job
            /\ jobs'[i].dev = jobs[i].dev
            /\ jobs[i].state = "removed" => jobs'[i].state = "removed"
  PROVE  Turns
<1>1. jobs' \in [DOMAIN jobs -> Job]
  OBVIOUS
<1> QED
  BY <1>1, SameLength DEF Turns

\* CreateJob, whether it succeeds or fails, adds at most one job.
LEMMA CreateJobStep ==
  ASSUME Stored, NEW d, CreateJob(d) \/ CreateJobFails(d)
  PROVE  Grows \/ Turns
<1>1. CASE jobs' = jobs
  BY <1>1 DEF Stored, Turns
<1>2. CASE jobs' # jobs
  BY <1>2 DEF CreateJob, CreateJobFails, store, Grows
<1> QED
  BY <1>1, <1>2

\* Every other step leaves the jobs or turns them.
Queues == CreatorQueue \/ \E a \in Admins : PromoteQueue(a)

LEMMA OtherStep == Stored /\ [Next]_vars => Queues \/ Turns
<1> SUFFICES ASSUME Stored, [Next]_vars PROVE Queues \/ Turns
  OBVIOUS
<1>u. ASSUME jobs' = jobs PROVE Turns
  BY <1>u DEF Stored, Turns
<1>t. jobs \in [DOMAIN jobs -> Job]
  BY DEF Stored
<1>1. ASSUME NEW d \in Devices, NextJobForDevice(d) PROVE Turns
  <2> DEFINE mine == {i \in JobsOf(d) : jobs[i].state \in Open}
             late == {i \in mine : jobs[i].overdue}
             Expired(S) == [i \in DOMAIN jobs |-> IF i \in S THEN [jobs[i] EXCEPT !.state = "expired"]
                                                  ELSE jobs[i]]
  <2>m. mine \subseteq {i \in DOMAIN jobs : jobs[i].state # "removed"}
    BY DEF JobsOf, Present
  <2>1. CASE \E i \in mine, S \in SUBSET mine : jobs' = [Expired(S) EXCEPT ![i].state = "delivered"]
    <3>1. PICK i \in mine, S \in SUBSET mine : jobs' = [Expired(S) EXCEPT ![i].state = "delivered"]
      BY <2>1
    <3>2. i \in DOMAIN jobs /\ jobs[i].state # "removed" /\ \A k \in S : jobs[k].state # "removed"
      BY <2>m
    <3> HIDE DEF mine
    <3> QED
      BY <1>t, <3>1, <3>2, Turning DEF Job, Open, Closed
  <2>2. CASE \E S \in SUBSET mine : jobs' = Expired(S)
    <3>1. PICK S \in SUBSET mine : jobs' = Expired(S)
      BY <2>2
    <3>2. \A k \in S : jobs[k].state # "removed"
      BY <2>m
    <3> HIDE DEF mine
    <3> QED
      BY <1>t, <3>1, <3>2, Turning DEF Job, Open, Closed
  <2> QED
    <3>1. late \subseteq mine
      OBVIOUS
    <3>2. \/ \E i \in mine \ late, S \in SUBSET late :
                /\ jobs' = [Expired(S) EXCEPT ![i].state = "delivered"]
                /\ held' = [held EXCEPT ![d] = i]
          \/ /\ mine = late /\ late # {}
             /\ jobs' = Expired(late)
             /\ UNCHANGED held
      BY <1>1, Zenon DEF NextJobForDevice
    <3> HIDE DEF mine, late, Expired
    <3> QED
      BY <2>1, <2>2, <3>1, <3>2
<1>2. ASSUME NEW m \in inflight, CompleteJob(m) PROVE Turns
  <2>1. CASE m.job \in Present
    <3>1. jobs' = [jobs EXCEPT ![m.job].state = m.state] /\ m.state \in Open \cup Closed
      BY <1>2, <2>1 DEF CompleteJob, Stored, Results, Open, Closed
    <3> QED
      BY <1>t, <2>1, <3>1, Turning DEF Present, Job, Open, Closed
  <2>2. CASE m.job \notin Present
    BY <1>2, <1>u, <2>2 DEF CompleteJob
  <2> QED
    BY <2>1, <2>2
<1>3. ASSUME NEW i \in DOMAIN jobs, DeleteJob(i) \/ Overdue(i) PROVE Turns
  <2>1. \/ jobs' = [jobs EXCEPT ![i].state = "removed"]
        \/ jobs' = [jobs EXCEPT ![i].overdue = TRUE]
    BY <1>3 DEF DeleteJob, Overdue
  <2>2. DOMAIN jobs' = DOMAIN jobs /\ jobs' = [k \in DOMAIN jobs |-> jobs'[k]]
    BY <1>t, <2>1
  <2>3. ASSUME NEW k \in DOMAIN jobs
        PROVE  /\ jobs'[k] \in Job
               /\ jobs'[k].dev = jobs[k].dev
               /\ jobs[k].state = "removed" => jobs'[k].state = "removed"
    <3>1. jobs[k] \in Job
      BY <1>t, <2>3
    <3>2. \/ jobs'[k] = jobs[k]
          \/ jobs'[k] = [jobs[k] EXCEPT !.state = "removed"]
          \/ jobs'[k] = [jobs[k] EXCEPT !.overdue = TRUE]
      BY <1>t, <2>1, <2>3
    <3> QED
      BY <3>1, <3>2 DEF Job
  <2> QED
    BY <2>2, <2>3, Turning
<1>4. ASSUME NEW d \in Devices, DeleteDevice(d) PROVE Turns
  <2>1. jobs' = [i \in DOMAIN jobs |->
                   IF jobs[i].dev = d THEN [jobs[i] EXCEPT !.state = "removed"] ELSE jobs[i]]
    BY <1>4 DEF DeleteDevice
  <2> QED
    BY <1>t, <2>1, Turning DEF Job
<1>5. CASE CreateCampaign \/ CreatorUpdate \/ CreatorAbort \/ ServerRestart \/ UNCHANGED vars
  BY <1>5, <1>u DEF CreateCampaign, CreatorUpdate, CreatorAbort, ServerRestart, UpdateOTACampaign, store, vars
<1>6. ASSUME NEW a \in Admins, StartPromote(a) \/ ListRemaining(a) \/ PromoteUpdate(a) PROVE Turns
  BY <1>6, <1>u DEF StartPromote, ListRemaining, PromoteUpdate, UpdateOTACampaign, store
<1>7. ASSUME NEW d \in Devices, NEW state \in Results, Report(d, state) PROVE Turns
  BY <1>7, <1>u DEF Report, store
<1>8. ASSUME NEW d \in Devices, AgentRestart(d) PROVE Turns
  BY <1>8, <1>u DEF AgentRestart, store
<1>9. ASSUME NEW m \in inflight, Lose(m) PROVE Turns
  BY <1>9, <1>u DEF Lose, store
<1> QED
  BY <1>1, <1>2, <1>3, <1>4, <1>5, <1>6, <1>7, <1>8, <1>9
     DEF Next, Creator, Promoter, Results, Queues

\* Every step grows or turns the jobs.
LEMMA JobsStep == Stored /\ [Next]_vars => Grows \/ Turns
<1> SUFFICES ASSUME Stored, Queues PROVE Grows \/ Turns
  BY OtherStep
<1> QED
  BY CreateJobStep DEF Queues, CreatorQueue, PromoteQueue

-----------------------------------------------------------------------------
(* At most one job for each device.                                        *)

\* Devices, jobs and results keep their types.
LEMMA StoredStep == Stored /\ [Next]_vars => Stored'
<1> SUFFICES ASSUME Stored, [Next]_vars PROVE Stored'
  OBVIOUS
<1>1. devices' \subseteq Devices
  BY DEF Stored, Next, Creator, Promoter, CreateCampaign, CreatorQueue, CreatorUpdate, CreatorAbort,
         StartPromote, ListRemaining, PromoteQueue, PromoteUpdate, CreateJob, CreateJobFails,
         UpdateOTACampaign, NextJobForDevice, CompleteJob, Report, Lose, AgentRestart, DeleteJob,
         DeleteDevice, Overdue, ServerRestart, store, vars
<1>2. jobs' \in Seq(Job)
  <2>1. CASE Grows
    <3>1. PICK d \in devices : jobs' = Append(jobs, [dev |-> d, state |-> "queued", overdue |-> FALSE])
      BY <2>1 DEF Grows
    <3>2. [dev |-> d, state |-> "queued", overdue |-> FALSE] \in Job
      BY <3>1 DEF Stored, Job, Open
    <3> QED
      BY <3>1, <3>2 DEF Stored
  <2> QED
    BY <2>1, JobsStep DEF Turns
<1>3. \A m \in inflight' : m.state \in Results
  <2>1. ASSUME NEW d \in Devices, NEW state \in Results, Report(d, state)
        PROVE  \A m \in inflight' : m.state \in Results
    BY <2>1 DEF Report, Stored
  <2>2. CASE inflight' \subseteq inflight
    BY <2>2 DEF Stored
  <2>3. inflight' \subseteq inflight \/ \E d \in Devices, state \in Results : Report(d, state)
    BY DEF Next, Creator, Promoter, CreateCampaign, CreatorQueue, CreatorUpdate, CreatorAbort,
           StartPromote, ListRemaining, PromoteQueue, PromoteUpdate, NextJobForDevice, CompleteJob,
           Lose, AgentRestart, DeleteJob, DeleteDevice, Overdue, ServerRestart, edge, vars, Results
  <2> QED
    BY <2>1, <2>2, <2>3
<1> QED
  BY <1>1, <1>2, <1>3 DEF Stored

\* CreateJob looks for a job of the device first, so a new one is alone.
LEMMA AloneStep == Stored /\ Alone /\ [Next]_vars => Alone'
<1> SUFFICES ASSUME Stored, Alone, [Next]_vars,
                    NEW i \in Present', NEW j \in Present', jobs'[i].dev = jobs'[j].dev
             PROVE  i = j
  BY DEF Alone
<1>1. CASE Turns
  <2>1. DOMAIN jobs' = DOMAIN jobs
    BY <1>1 DEF Turns, Stored
  <2>2. i \in Present /\ j \in Present /\ jobs[i].dev = jobs[j].dev
    BY <1>1, <2>1 DEF Turns, Present
  <2> QED
    BY <2>2 DEF Alone
<1>2. CASE Grows
  <2>1. PICK d \in devices :
           /\ JobsOf(d) = {}
           /\ jobs' = Append(jobs, [dev |-> d, state |-> "queued", overdue |-> FALSE])
    BY <1>2 DEF Grows
  <2>2. /\ \A k \in DOMAIN jobs' : k \in DOMAIN jobs \/ k = Len(jobs) + 1
        /\ \A k \in DOMAIN jobs : jobs'[k] = jobs[k]
        /\ jobs'[Len(jobs) + 1].dev = d
    BY <2>1 DEF Stored
  <2>3. ASSUME NEW k \in Present', k \in DOMAIN jobs PROVE k \in Present /\ jobs[k] = jobs'[k]
    BY <2>2, <2>3 DEF Present
  <2>4. ASSUME NEW k \in Present' PROVE k \in DOMAIN jobs \/ k = Len(jobs) + 1
    BY <2>2, <2>4 DEF Present
  <2>5. \A k \in Present : jobs[k].dev # d
    BY <2>1 DEF JobsOf
  <2> QED
    BY <2>2, <2>3, <2>4, <2>5 DEF Alone
<1> QED
  BY <1>1, <1>2, JobsStep

\* However creation, promotion, repeated promotion, removal and restart
\* interleave, CreateJob's lookup leaves a device with one job at most.
THEOREM OneJobEach == Spec => []OneJobPerDevice
<1>1. Init => Stored /\ Alone
  BY DEF Init, Stored, Alone, Present
<1>2. Stored /\ Alone => OneJobPerDevice
  <2> SUFFICES ASSUME Alone, NEW d \in Devices PROVE Cardinality(JobsOf(d)) <= 1
    BY DEF OneJobPerDevice
  <2>1. CASE JobsOf(d) = {}
    BY <2>1, FS_EmptySet
  <2>2. CASE JobsOf(d) # {}
    <3>1. PICK i \in JobsOf(d) : TRUE
      BY <2>2
    <3>2. \A j \in JobsOf(d) : j = i
      BY <3>1 DEF Alone, JobsOf
    <3>3. JobsOf(d) = {i}
      BY <3>1, <3>2
    <3>4. Cardinality({i}) = 1
      BY FS_Singleton
    <3> QED
      BY <3>3, <3>4
  <2> QED
    BY <2>1, <2>2
<1> QED
  BY <1>1, <1>2, StoredStep, AloneStep, PTL DEF Spec

-----------------------------------------------------------------------------
(* The pilot goes first.                                                   *)

\* The devices' part: a device works on its own job, and a success that is
\* stored or on its way has happened on the device.
Told ==
    /\ outcome \in [Devices -> {"none", "succeeded", "failed"}]
    /\ DOMAIN held = Devices
    /\ \A d \in Devices : held[d] # 0 => held[d] \in DOMAIN jobs /\ jobs[held[d]].dev = d
    /\ \A m \in inflight :
          /\ m.job \in DOMAIN jobs
          /\ m.state = "succeeded" => outcome[jobs[m.job].dev] = "succeeded"
    /\ \A i \in DOMAIN jobs : jobs[i].state = "succeeded" => outcome[jobs[i].dev] = "succeeded"

\* The handlers' part, where the pilot group is one device and nothing is
\* removed: whoever may queue a job for another device is past the pilot.
Piloted == CanaryCount(Len(Targets)) = 1 /\ ~Removals
Lead == Targets[1]
Past == outcome[Lead] = "succeeded"
Fields ==
    /\ camp = [exists |-> camp.exists, state |-> camp.state, len |-> camp.len]
    /\ creator \in [pc : {"start", "queue", "abort", "done"}, i : Nat \ {0}, len : Nat]
    /\ promoter = [a \in Admins |-> [pc |-> promoter[a].pc, todo |-> promoter[a].todo, len |-> promoter[a].len]]
Led ==
    /\ array = Targets
    /\ creator.pc = "queue" => creator.len = Len(Targets)
    /\ camp.state = "canary_complete" => Past
    /\ \A a \in Admins : promoter[a].pc # "idle" => Past
    /\ \A i \in Present : jobs[i].dev # Lead => Past
PInv == Stored /\ Told /\ (Piloted => Fields /\ Led)

\* A device's success is never taken back, and a job keeps its number and device.
Lasts ==
    /\ outcome' \in [Devices -> {"none", "succeeded", "failed"}]
    /\ \A d \in Devices : outcome[d] = "succeeded" => outcome'[d] = "succeeded"

\* Such an outcome, and the number and device of a job, last through every step.
LEMMA KeepStep ==
  ASSUME Stored, Told, [Next]_vars
  PROVE  /\ Lasts
         /\ \A i \in DOMAIN jobs : i \in DOMAIN jobs' /\ jobs'[i].dev = jobs[i].dev
<1>1. Lasts
  <2>1. ASSUME NEW d \in Devices, NEW state \in Results, Report(d, state) PROVE Lasts
    BY <2>1 DEF Report, Told, Results, Lasts
  <2>2. CASE outcome' = outcome
    BY <2>2 DEF Told, Lasts
  <2>3. outcome' = outcome \/ \E d \in Devices, state \in Results : Report(d, state)
    BY DEF Next, Creator, Promoter, CreateCampaign, CreatorQueue, CreatorUpdate, CreatorAbort,
           StartPromote, ListRemaining, PromoteQueue, PromoteUpdate, NextJobForDevice, CompleteJob,
           Lose, AgentRestart, DeleteJob, DeleteDevice, Overdue, ServerRestart, edge, vars, Results
  <2> QED
    BY <2>1, <2>2, <2>3
<1>2. \A i \in DOMAIN jobs : i \in DOMAIN jobs' /\ jobs'[i].dev = jobs[i].dev
  <2>1. CASE Turns
    BY <2>1 DEF Turns, Stored
  <2>2. CASE Grows
    <3>1. PICK d : jobs' = Append(jobs, [dev |-> d, state |-> "queued", overdue |-> FALSE])
      BY <2>2 DEF Grows
    <3> QED
      BY <3>1 DEF Stored
  <2> QED
    BY <2>1, <2>2, JobsStep
<1> QED
  BY <1>1, <1>2

\* A job succeeds only by a result that is on its way.
LEMMA SuccessStep ==
  ASSUME Stored, Told, [Next]_vars, NEW i \in DOMAIN jobs', jobs'[i].state = "succeeded"
  PROVE  i \in DOMAIN jobs /\ outcome[jobs[i].dev] = "succeeded"
<1>0. CASE jobs' = jobs
  BY <1>0 DEF Told
<1>1. CASE Grows
  <2>1. PICK d : jobs' = Append(jobs, [dev |-> d, state |-> "queued", overdue |-> FALSE])
    BY <1>1 DEF Grows
  <2>2. (i \in DOMAIN jobs /\ jobs'[i] = jobs[i]) \/ jobs'[i].state = "queued"
    BY <2>1 DEF Stored
  <2> QED
    BY <2>2 DEF Told
<1>t. jobs \in [DOMAIN jobs -> Job]
  BY DEF Stored
<1>2. ASSUME NEW d \in Devices, NextJobForDevice(d) PROVE i \in DOMAIN jobs /\ jobs[i].state = "succeeded"
  <2> DEFINE mine == {k \in JobsOf(d) : jobs[k].state \in Open}
             late == {k \in mine : jobs[k].overdue}
             Expired(S) == [k \in DOMAIN jobs |-> IF k \in S THEN [jobs[k] EXCEPT !.state = "expired"]
                                                  ELSE jobs[k]]
  <2>1. \/ \E k \in mine \ late, S \in SUBSET late :
              /\ jobs' = [Expired(S) EXCEPT ![k].state = "delivered"]
              /\ held' = [held EXCEPT ![d] = k]
        \/ /\ mine = late /\ late # {}
           /\ jobs' = Expired(late)
           /\ UNCHANGED held
    BY <1>2, Zenon DEF NextJobForDevice
  <2>m. mine \subseteq DOMAIN jobs
    BY DEF JobsOf, Present
  <2> HIDE DEF mine, late
  <2> DEFINE Turned == \/ jobs'[i] = jobs[i]
                       \/ jobs'[i] = [jobs[i] EXCEPT !.state = "expired"]
                       \/ jobs'[i].state = "delivered"
  <2>2. i \in DOMAIN jobs /\ Turned
    <3>1. CASE jobs' = Expired(late)
      BY <1>t, <3>1
    <3>2. ASSUME NEW k \in mine, NEW S, jobs' = [Expired(S) EXCEPT ![k].state = "delivered"]
          PROVE  i \in DOMAIN jobs /\ Turned
      <4>1. k \in DOMAIN jobs /\ i \in DOMAIN jobs
        BY <2>m, <3>2
      <4>2. CASE i = k
        <5>1. jobs'[i] = [(Expired(S)[i]) EXCEPT !.state = "delivered"]
          BY <3>2, <4>1, <4>2
        <5>2. Expired(S)[i] = jobs[i] \/ Expired(S)[i] = [jobs[i] EXCEPT !.state = "expired"]
          BY <4>1
        <5> QED
          BY <1>t, <4>1, <5>1, <5>2 DEF Job
      <4>3. CASE i # k
        <5>1. jobs'[i] = Expired(S)[i]
          BY <3>2, <4>1, <4>3
        <5>2. Expired(S)[i] = jobs[i] \/ Expired(S)[i] = [jobs[i] EXCEPT !.state = "expired"]
          BY <4>1
        <5> QED
          BY <4>1, <5>1, <5>2
      <4> QED
        BY <4>2, <4>3
    <3> HIDE DEF Expired
    <3>3. jobs' = Expired(late) \/ \E k \in mine : \E S : jobs' = [Expired(S) EXCEPT ![k].state = "delivered"]
      BY <2>1
    <3> HIDE DEF Turned
    <3> QED
      BY <3>1, <3>2, <3>3
  <2> QED
    BY <1>t, <2>2 DEF Job
<1>3. ASSUME NEW m \in inflight, CompleteJob(m) PROVE i \in DOMAIN jobs /\ outcome[jobs[i].dev] = "succeeded"
  <2>1. CASE jobs' = [jobs EXCEPT ![m.job].state = m.state]
    BY <1>3, <1>t, <2>1 DEF Told, Job
  <2> QED
    BY <1>0, <1>3, <2>1 DEF CompleteJob
<1>4. ASSUME NEW k \in DOMAIN jobs, DeleteJob(k) \/ Overdue(k) PROVE i \in DOMAIN jobs /\ jobs[i].state = "succeeded"
  <2>1. jobs' = [jobs EXCEPT ![k].state = "removed"] \/ jobs' = [jobs EXCEPT ![k].overdue = TRUE]
    BY <1>4 DEF DeleteJob, Overdue
  <2> QED
    BY <1>t, <2>1 DEF Job
<1>5. ASSUME NEW d \in Devices, DeleteDevice(d) PROVE i \in DOMAIN jobs /\ jobs[i].state = "succeeded"
  <2>1. jobs' = [k \in DOMAIN jobs |->
                   IF jobs[k].dev = d THEN [jobs[k] EXCEPT !.state = "removed"] ELSE jobs[k]]
    BY <1>5 DEF DeleteDevice
  <2> QED
    BY <1>t, <2>1 DEF Job
<1>6. ASSUME NEW d, CreateJob(d) \/ CreateJobFails(d) PROVE jobs' = jobs \/ Grows
  BY <1>6 DEF CreateJob, CreateJobFails, store, Grows
<1>7. \/ jobs' = jobs \/ Grows
      \/ \E d \in Devices : NextJobForDevice(d) \/ DeleteDevice(d)
      \/ \E m \in inflight : CompleteJob(m)
      \/ \E k \in DOMAIN jobs : DeleteJob(k) \/ Overdue(k)
  BY <1>6 DEF Next, Creator, Promoter, CreateCampaign, CreatorQueue, CreatorUpdate, CreatorAbort,
         StartPromote, ListRemaining, PromoteQueue, PromoteUpdate, UpdateOTACampaign,
         Report, Lose, AgentRestart, ServerRestart, store, vars
<1> QED
  BY <1>0, <1>1, <1>2, <1>3, <1>4, <1>5, <1>7 DEF Told

\* Devices report what happened, and the store only takes over reports.
LEMMA ToldStep == Stored /\ Told /\ [Next]_vars => Told'
<1> SUFFICES ASSUME Stored, Told, [Next]_vars PROVE Told'
  OBVIOUS
<1>k. Lasts /\ \A i \in DOMAIN jobs : i \in DOMAIN jobs' /\ jobs'[i].dev = jobs[i].dev
  BY KeepStep
<1>t. \A i \in DOMAIN jobs : jobs[i] \in Job
  BY DEF Stored
<1>d. \A i \in DOMAIN jobs : jobs[i].dev \in Devices
  BY <1>t DEF Job
<1>1. \A i \in DOMAIN jobs' : jobs'[i].state = "succeeded" => outcome'[jobs'[i].dev] = "succeeded"
  <2> SUFFICES ASSUME NEW i \in DOMAIN jobs', jobs'[i].state = "succeeded"
               PROVE  outcome'[jobs'[i].dev] = "succeeded"
    OBVIOUS
  <2>1. i \in DOMAIN jobs /\ outcome[jobs[i].dev] = "succeeded"
    BY SuccessStep
  <2> QED
    BY <1>k, <1>d, <2>1 DEF Lasts
<1> DEFINE Own == /\ DOMAIN held' = Devices
                  /\ \A d \in Devices : held'[d] # 0 => held'[d] \in DOMAIN jobs /\ jobs[held'[d]].dev = d
<1>2. Own
  <2>1. CASE held' = held
    BY <2>1 DEF Told
  <2>2. ASSUME NEW d \in Devices, held' = [held EXCEPT ![d] = 0] PROVE Own
    BY <2>2 DEF Told
  <2>3. ASSUME NEW d \in Devices, NEW i \in JobsOf(d), held' = [held EXCEPT ![d] = i] PROVE Own
    BY <2>3 DEF Told, JobsOf, Present
  <2>4. ASSUME NEW d \in Devices, NextJobForDevice(d)
        PROVE  held' = held \/ \E i \in JobsOf(d) : held' = [held EXCEPT ![d] = i]
    BY <2>4 DEF NextJobForDevice
  <2>5. ASSUME NEW d \in Devices, NEW state \in Results, Report(d, state) \/ AgentRestart(d)
        PROVE  held' = [held EXCEPT ![d] = 0]
    BY <2>5 DEF Report, AgentRestart
  <2>6. \/ held' = held
        \/ \E d \in Devices : NextJobForDevice(d) \/ AgentRestart(d)
        \/ \E d \in Devices, state \in Results : Report(d, state)
    BY DEF Next, Creator, Promoter, CreateCampaign, CreatorQueue, CreatorUpdate, CreatorAbort,
           StartPromote, ListRemaining, PromoteQueue, PromoteUpdate, CompleteJob,
           Lose, DeleteJob, DeleteDevice, Overdue, ServerRestart, edge, vars, Results
  <2>7. Results # {}
    BY DEF Results
  <2> HIDE DEF Own
  <2> QED
    BY <2>1, <2>2, <2>3, <2>4, <2>5, <2>6, <2>7
<1> DEFINE Real(m) == m.job \in DOMAIN jobs /\ (m.state = "succeeded" => outcome'[jobs[m.job].dev] = "succeeded")
<1>3. \A m \in inflight' : Real(m)
  <2>1. \A m \in inflight : Real(m)
    BY <1>k, <1>d DEF Told, Lasts
  <2>2. ASSUME NEW d \in Devices, NEW state \in Results, Report(d, state) PROVE \A m \in inflight' : Real(m)
    <3>1. outcome'[d] = "succeeded" \/ state # "succeeded"
      BY <2>2 DEF Report, Told, Results
    <3>2. Real([job |-> held[d], state |-> state])
      BY <2>2, <3>1 DEF Report, Told
    <3> HIDE DEF Real
    <3> QED
      BY <2>1, <2>2, <3>2 DEF Report
  <2>3. inflight' \subseteq inflight \/ \E d \in Devices, state \in Results : Report(d, state)
    BY DEF Next, Creator, Promoter, CreateCampaign, CreatorQueue, CreatorUpdate, CreatorAbort,
           StartPromote, ListRemaining, PromoteQueue, PromoteUpdate, NextJobForDevice, CompleteJob,
           Lose, AgentRestart, DeleteJob, DeleteDevice, Overdue, ServerRestart, edge, vars, Results
  <2> HIDE DEF Real
  <2> QED
    BY <2>1, <2>2, <2>3
<1> QED
  BY <1>k, <1>1, <1>2, <1>3 DEF Told, Lasts

\* The handlers' records keep their shape.
LEMMA FieldsStep == ~Removals /\ Fields /\ [Next]_vars => Fields'
<1> SUFFICES ASSUME ~Removals, Fields, [Next]_vars PROVE Fields'
  OBVIOUS
<1>1. camp' = [exists |-> camp'.exists, state |-> camp'.state, len |-> camp'.len]
  BY DEF Fields, Next, Creator, Promoter, CreateCampaign, CreatorQueue, CreatorUpdate, CreatorAbort,
         StartPromote, ListRemaining, PromoteQueue, PromoteUpdate, CreateJob, CreateJobFails,
         UpdateOTACampaign, NextJobForDevice, CompleteJob, Report, Lose, AgentRestart, DeleteJob,
         DeleteDevice, Overdue, ServerRestart, store, vars
<1>2. creator' \in [pc : {"start", "queue", "abort", "done"}, i : Nat \ {0}, len : Nat]
  <2>1. CASE creator' = creator
    BY <2>1 DEF Fields
  <2>2. CASE CreateCampaign
    <3>1. Len(Targets) \in Nat
      BY TargetsAssumption
    <3> QED
      BY <2>2, <3>1 DEF CreateCampaign, Fields
  <2>3. CASE CreatorQueue
    BY <2>3 DEF CreatorQueue, Fields
  <2>4. CASE CreatorUpdate \/ CreatorAbort \/ ServerRestart
    BY <2>4 DEF CreatorUpdate, CreatorAbort, ServerRestart, Fields
  <2>5. creator' = creator \/ CreateCampaign \/ CreatorQueue \/ CreatorUpdate \/ CreatorAbort \/ ServerRestart
    BY DEF Next, Creator, Promoter, StartPromote, ListRemaining, PromoteQueue, PromoteUpdate,
           NextJobForDevice, CompleteJob, Report, Lose, AgentRestart, DeleteJob, DeleteDevice, Overdue,
           handlers, vars
  <2> QED
    BY <2>1, <2>2, <2>3, <2>4, <2>5
<1> DEFINE Shape(f) == f = [a \in Admins |-> [pc |-> f[a].pc, todo |-> f[a].todo, len |-> f[a].len]]
<1>3. Shape(promoter')
  <2>0. Shape(promoter)
    BY DEF Fields
  <2>1. CASE promoter' = promoter
    BY <2>0, <2>1
  <2>2. ASSUME NEW b \in Admins, Promoter(b) PROVE Shape(promoter')
    BY <2>0, <2>2 DEF Promoter, StartPromote, ListRemaining, PromoteQueue, PromoteUpdate
  <2>3. CASE ServerRestart
    BY <2>3 DEF ServerRestart
  <2>4. promoter' = promoter \/ (\E b \in Admins : Promoter(b)) \/ ServerRestart
    BY DEF Next, Creator, CreateCampaign, CreatorQueue, CreatorUpdate, CreatorAbort,
           NextJobForDevice, CompleteJob, Report, Lose, AgentRestart, DeleteJob, DeleteDevice, Overdue,
           handlers, vars
  <2> QED
    BY <2>1, <2>2, <2>3, <2>4
<1> QED
  BY <1>1, <1>2, <1>3 DEF Fields

\* A campaign becomes "canary_complete" when every job has succeeded: the
\* pilot's, or one that was queued when the pilot was past.
LEMMA JudgedStep ==
  ASSUME Stored, Told, Led, NEW m \in inflight, m.job \in Present,
         jobs' = [jobs EXCEPT ![m.job].state = m.state],
         campaignState(jobs') = "canary_complete"
  PROVE  Past
<1>t. jobs \in [DOMAIN jobs -> Job]
  BY DEF Stored
<1> DEFINE here == {i \in DOMAIN jobs' : jobs'[i].state # "removed"}
<1>1. CASE here = {}
  BY <1>1 DEF campaignState, Led
<1>2. CASE here # {}
  <2>1. PICK i \in here : TRUE
    BY <1>2
  <2>2. \A k \in here : jobs'[k].state = "succeeded"
    BY <1>2 DEF campaignState
  <2>3. i \in DOMAIN jobs /\ jobs'[i].state = "succeeded" /\ m.job \in DOMAIN jobs
    BY <1>t, <2>1, <2>2 DEF Present
  <2>4. i \in Present /\ outcome[jobs[i].dev] = "succeeded"
    <3>1. CASE i = m.job
      BY <1>t, <2>3, <3>1 DEF Told, Job
    <3>2. CASE i # m.job
      BY <1>t, <2>3, <3>2 DEF Told, Present
    <3> QED
      BY <3>1, <3>2
  <2> QED
    BY <2>4 DEF Led, Past
<1> QED
  BY <1>1, <1>2

\* Nobody gets to queue another device's job before the pilot is past.
LEMMA LedStep == Piloted /\ Stored /\ Told /\ Fields /\ Led /\ [Next]_vars => Led'
<1> SUFFICES ASSUME Piloted, Stored, Told, Fields, Led, [Next]_vars PROVE Led'
  OBVIOUS
<1>n. ~Removals /\ CanaryCount(Len(Targets)) = 1
  BY DEF Piloted
<1>l. Len(Targets) \in Nat /\ Lead \in Devices
  BY TargetsAssumption DEF Lead
<1>p. Past => Past'
  BY <1>l, KeepStep DEF Past, Lasts, Lead
<1>1. array' = Targets
  BY <1>n DEF Led, Next, Creator, Promoter, CreateCampaign, CreatorQueue, CreatorUpdate, CreatorAbort,
         StartPromote, ListRemaining, PromoteQueue, PromoteUpdate, CreateJob, CreateJobFails,
         UpdateOTACampaign, NextJobForDevice, CompleteJob, Report, Lose, AgentRestart, DeleteJob,
         DeleteDevice, Overdue, ServerRestart, store, vars
<1>2. creator'.pc = "queue" => creator'.len = Len(Targets)
  <2>1. creator' = creator \/ Creator \/ ServerRestart
    BY DEF Next, Promoter, StartPromote, ListRemaining, PromoteQueue, PromoteUpdate,
           NextJobForDevice, CompleteJob, Report, Lose, AgentRestart, DeleteJob, DeleteDevice, Overdue,
           handlers, vars
  <2> QED
    BY <2>1 DEF Creator, CreateCampaign, CreatorQueue, CreatorUpdate, CreatorAbort, ServerRestart, Fields, Led
<1>3. \A a \in Admins : promoter'[a].pc # "idle" => Past'
  <2>1. CASE promoter' = promoter
    BY <1>p, <2>1 DEF Led
  <2>2. ASSUME NEW b \in Admins, Promoter(b), NEW a \in Admins, promoter'[a].pc # "idle" PROVE Past
    <3>1. promoter[a].pc # "idle" \/ camp.state = "canary_complete"
      BY <2>2 DEF Promoter, StartPromote, ListRemaining, PromoteQueue, PromoteUpdate, Fields
    <3> QED
      BY <3>1 DEF Led
  <2>3. CASE ServerRestart
    BY <2>3 DEF ServerRestart
  <2>4. promoter' = promoter \/ (\E b \in Admins : Promoter(b)) \/ ServerRestart
    BY DEF Next, Creator, CreateCampaign, CreatorQueue, CreatorUpdate, CreatorAbort,
           NextJobForDevice, CompleteJob, Report, Lose, AgentRestart, DeleteJob, DeleteDevice, Overdue,
           handlers, vars
  <2> QED
    BY <1>p, <2>1, <2>2, <2>3, <2>4
<1>4. camp'.state = "canary_complete" => Past
  <2>1. CASE camp' = camp
    BY <2>1 DEF Led
  <2>2. CASE CreateCampaign \/ CreatorUpdate \/ CreatorAbort
    <3>1. camp' = camp \/ camp'.state \in {"ready", "canary_queued", "queued", "failed"}
      <4>1. CASE CreateCampaign
        BY <4>1 DEF CreateCampaign
      <4>2. CASE CreatorUpdate
        BY <4>2 DEF CreatorUpdate, UpdateOTACampaign, Fields
      <4>3. CASE CreatorAbort
        BY <4>3 DEF CreatorAbort, UpdateOTACampaign, Fields
      <4> QED
        BY <2>2, <4>1, <4>2, <4>3
    <3> QED
      BY <3>1 DEF Led
  <2>3. ASSUME NEW a \in Admins, PromoteUpdate(a) PROVE camp'.state = "canary_complete" => Past
    BY <2>3 DEF PromoteUpdate, UpdateOTACampaign, Fields, Led
  <2>4. ASSUME NEW m \in inflight, CompleteJob(m), camp' # camp, camp'.state = "canary_complete" PROVE Past
    <3>1. /\ m.job \in Present
          /\ jobs' = [jobs EXCEPT ![m.job].state = m.state]
          /\ camp' = [camp EXCEPT !.state = campaignState(jobs')]
      BY <2>4 DEF CompleteJob
    <3>2. campaignState(jobs') = "canary_complete"
      BY <2>4, <3>1 DEF Fields
    <3> QED
      BY <3>1, <3>2, JudgedStep
  <2>5. \/ camp' = camp \/ CreateCampaign \/ CreatorUpdate \/ CreatorAbort
        \/ \E a \in Admins : PromoteUpdate(a)
        \/ \E m \in inflight : CompleteJob(m)
    BY <1>n DEF Next, Creator, Promoter, CreatorQueue, StartPromote, ListRemaining, PromoteQueue,
           CreateJob, CreateJobFails, NextJobForDevice, Report, Lose, AgentRestart,
           DeleteJob, DeleteDevice, Overdue, ServerRestart, store, vars
  <2> QED
    BY <2>1, <2>2, <2>3, <2>4, <2>5
<1>5. ASSUME NEW i \in Present', jobs'[i].dev # Lead PROVE Past
  <2>1. CASE Turns
    <3>1. i \in Present /\ jobs[i].dev # Lead
      BY <1>5, <2>1 DEF Turns, Present, Stored
    <3> QED
      BY <3>1 DEF Led
  <2>2. ASSUME NEW d, CreateJob(d) \/ CreateJobFails(d), d = Lead \/ Past PROVE Past
    <3>1. CASE jobs' = jobs
      BY <1>5, <3>1 DEF Led, Present
    <3>2. CASE jobs' = Append(jobs, [dev |-> d, state |-> "queued", overdue |-> FALSE])
      <4>1. i \in DOMAIN jobs' /\ jobs'[i].state # "removed"
        BY <1>5 DEF Present
      <4>2. (i \in DOMAIN jobs /\ jobs'[i] = jobs[i]) \/ jobs'[i].dev = d
        BY <3>2, <4>1 DEF Stored
      <4>3. CASE i \in DOMAIN jobs /\ jobs'[i] = jobs[i]
        BY <1>5, <4>1, <4>3 DEF Led, Present
      <4> QED
        BY <1>5, <2>2, <4>2, <4>3
    <3> QED
      BY <2>2, <3>1, <3>2 DEF CreateJob, CreateJobFails, store
  <2>3. CASE CreatorQueue
    <3>1. creator.i = 1
      BY <1>n, <2>3 DEF CreatorQueue, Led, Fields
    <3>2. CreateJob(Lead) \/ CreateJobFails(Lead)
      BY <2>3, <3>1 DEF CreatorQueue, Led, Lead
    <3> QED
      BY <2>2, <3>2
  <2>4. ASSUME NEW a \in Admins, PromoteQueue(a) PROVE Past
    BY <2>4 DEF PromoteQueue, Led
  <2>5. Turns \/ CreatorQueue \/ \E a \in Admins : PromoteQueue(a)
    BY OtherStep DEF Queues
  <2> QED
    BY <2>1, <2>3, <2>4, <2>5
<1> QED
  BY <1>p, <1>1, <1>2, <1>3, <1>4, <1>5 DEF Led

\* With a pilot group of one device, and nothing removed, no other device gets
\* a job before the update succeeded on the pilot, however late results come.
THEOREM PilotGoesFirst == Spec => []PilotFirst
<1>1. Init => PInv
  <2> SUFFICES ASSUME Init PROVE PInv
    OBVIOUS
  <2>1. Stored /\ Told
    BY DEF Init, Stored, Told
  <2>2. Fields /\ Led
    BY TargetsAssumption DEF Init, Fields, Led, Present
  <2> QED
    BY <2>1, <2>2 DEF PInv
<1>2. PInv /\ [Next]_vars => PInv'
  BY StoredStep, ToldStep, FieldsStep, LedStep DEF PInv, Piloted
<1>3. PInv => PilotFirst
  <2> SUFFICES ASSUME PInv, Piloted, NEW i \in Present, jobs[i].dev \notin Pilots, NEW d \in Pilots
               PROVE  outcome[d] = "succeeded"
    BY DEF PilotFirst, Piloted
  <2>1. Pilots = {Lead}
    BY DEF Piloted, Pilots, Lead
  <2> QED
    BY <2>1 DEF PInv, Led, Past
<1> QED
  BY <1>1, <1>2, <1>3, PTL DEF Spec
-----------------------------------------------------------------------------
(* What Filtered keeps of a list.                                          *)

\* The numbers up to n, from one or from zero, are n.
LEMMA UpTo ==
  ASSUME NEW n \in Nat
  PROVE  /\ IsFiniteSet(1..n) /\ Cardinality(1..n) = n
         /\ IsFiniteSet(0..(n - 1)) /\ Cardinality(0..(n - 1)) = n
<1>1. 1 \in Int /\ 0 \in Int /\ n \in Int /\ n - 1 \in Int
  OBVIOUS
<1>2. IsFiniteSet(1..n) /\ Cardinality(1..n) = IF 1 > n THEN 0 ELSE n - 1 + 1
  BY <1>1, FS_Interval
<1>3. IsFiniteSet(0..(n - 1)) /\ Cardinality(0..(n - 1)) = IF 0 > n - 1 THEN 0 ELSE (n - 1) - 0 + 1
  BY <1>1, FS_Interval
<1> QED
  BY <1>2, <1>3

\* Some of the first n places are at most n.
LEMMA PlacesFinite ==
  ASSUME NEW n \in Nat, NEW places \in SUBSET (1..n)
  PROVE  IsFiniteSet(places) /\ Cardinality(places) \in Nat /\ Cardinality(places) <= n
<1>1. IsFiniteSet(1..n) /\ Cardinality(1..n) = n
  BY UpTo
<1>2. IsFiniteSet(places) /\ Cardinality(places) <= n
  BY <1>1, FS_Subset
<1> QED
  BY <1>2, FS_CardinalityType

\* Filtered has what is at its places and nothing else, and no item moves to a
\* later place.
LEMMA FilteredKeeps ==
  ASSUME NEW S, NEW s \in Seq(S), NEW n \in 0..Len(s), NEW places \in SUBSET (1..n)
  PROVE  /\ Filtered(s, places) \in Seq(S)
         /\ Len(Filtered(s, places)) = Cardinality(places)
         /\ Len(Filtered(s, places)) \in 0..n
         /\ \A q \in 1..Len(Filtered(s, places)) : \E p \in places : Filtered(s, places)[q] = s[p]
         /\ \A p \in places : \E q \in 1..Len(Filtered(s, places)) :
                                 q <= p /\ Filtered(s, places)[q] = s[p]
<1> DEFINE M == Cardinality(places)
           Under(i) == {j \in places : j < i}
           R == [i \in places |-> Cardinality(Under(i))]
<1>0. n \in Nat /\ n <= Len(s) /\ Len(s) \in Nat /\ DOMAIN s = 1..Len(s)
  OBVIOUS
<1>1. IsFiniteSet(places) /\ M \in Nat /\ M <= n
  BY <1>0, PlacesFinite
<1>n. \A i \in places : i \in Nat /\ i \in DOMAIN s /\ i > 0
  BY <1>0
<1>2. ASSUME NEW i \in places PROVE R[i] \in 0..(M - 1) /\ R[i] + 1 <= i
  <2> DEFINE U == Under(i)
  <2>i. i \in Nat /\ i > 0 /\ i - 1 \in Nat
    BY <1>n
  <2>a. U \in SUBSET places /\ i \notin U
    BY <2>i
  <2>b. \A j \in U : j \in 1..(i - 1)
    BY <1>n, <2>i
  <2>c. R[i] = Cardinality(U)
    OBVIOUS
  <2>1. U \in SUBSET places /\ U # places /\ R[i] = Cardinality(U) /\ U \in SUBSET (1..(i - 1))
    BY <2>a, <2>b, <2>c
  <2> HIDE DEF U
  <2>2. IsFiniteSet(U) /\ Cardinality(U) <= M /\ Cardinality(U) # M
    BY <1>1, <2>1, FS_Subset
  <2>3. Cardinality(U) \in Nat /\ Cardinality(U) <= i - 1
    BY <2>1, <2>i, PlacesFinite
  <2> HIDE DEF R, M
  <2> QED
    BY <1>1, <2>1, <2>2, <2>3, <2>i
<1>3. ASSUME NEW i \in places, NEW k \in places, i < k PROVE R[i] < R[k]
  <2> DEFINE U == Under(i)
             V == Under(k)
  <2>a. i \in Nat /\ k \in Nat /\ i \in V /\ i \notin U
    BY <1>3, <1>n
  <2>b. \A j \in U : j \in V
    BY <1>3, <1>n, <2>a
  <2>1. U \in SUBSET V /\ U # V /\ V \in SUBSET places
    BY <2>a, <2>b
  <2>2. R[i] = Cardinality(U) /\ R[k] = Cardinality(V)
    OBVIOUS
  <2> HIDE DEF U, V
  <2>3. IsFiniteSet(V)
    BY <1>1, <2>1, FS_Subset
  <2>4. Cardinality(U) <= Cardinality(V) /\ Cardinality(U) # Cardinality(V)
    BY <2>1, <2>3, FS_Subset
  <2>5. R[i] \in 0..(M - 1) /\ R[k] \in 0..(M - 1)
    BY <1>2
  <2> HIDE DEF R, M
  <2> QED
    BY <1>1, <2>2, <2>4, <2>5
<1>4. R \in [places -> 0..(M - 1)]
  BY <1>2
<1>5. \A i, k \in places : R[i] = R[k] => i = k
  <2> SUFFICES ASSUME NEW i \in places, NEW k \in places, R[i] = R[k], i # k PROVE FALSE
    OBVIOUS
  <2>1. i < k \/ k < i
    BY <1>n
  <2>2. R[i] \in Int /\ R[k] \in Int
    BY <1>1, <1>2
  <2> HIDE DEF R
  <2> QED
    BY <1>3, <2>1, <2>2
<1>6. \A r \in 0..(M - 1) : \E i \in places : R[i] = r
  <2>1. IsFiniteSet(0..(M - 1)) /\ Cardinality(0..(M - 1)) = M
    BY <1>1, UpTo
  <2> DEFINE D == 0..(M - 1)
  <2> HIDE DEF R, D
  <2>2. R \in Injection(places, D)
    BY <1>4, <1>5, Fun_IsInj DEF D
  <2>3. R \in Surjection(places, D)
    BY <1>1, <2>1, <2>2, FS_Injection DEF D
  <2>4. \A r \in D : \E i \in places : R[i] = r
    BY <2>3, Fun_SurjectionProperties
  <2> QED
    BY <2>4 DEF D
<1> DEFINE Place(r) == CHOOSE i \in places : Cardinality(Under(i)) = r - 1
           f == Filtered(s, places)
<1>7. ASSUME NEW r \in 1..M PROVE Place(r) \in places /\ R[Place(r)] = r - 1
  <2>1. r - 1 \in 0..(M - 1)
    BY <1>1
  <2>2. \E i \in places : Cardinality(Under(i)) = r - 1
    BY <1>6, <2>1
  <2>3. Place(r) \in places /\ Cardinality(Under(Place(r))) = r - 1
    BY <2>2
  <2> HIDE DEF Place
  <2> QED
    BY <2>3
<1>8. f = [r \in 1..M |-> s[Place(r)]]
  BY DEF Filtered
<1> HIDE DEF f, R, Place
<1>e. \A i \in DOMAIN s : s[i] \in S
  OBVIOUS
<1>9. \A r \in 1..M : f[r] = s[Place(r)] /\ f[r] \in S
  <2> TAKE r \in 1..M
  <2>1. f[r] = s[Place(r)]
    BY <1>8
  <2>2. Place(r) \in DOMAIN s
    BY <1>7, <1>n
  <2> QED
    BY <1>e, <2>1, <2>2
<1>10. f \in [1..M -> S]
  BY <1>8, <1>9
<1>11. f \in Seq(S) /\ Len(f) = M
  <2>1. f \in Seq(S)
    BY <1>1, <1>10, SeqDef
  <2> QED
    BY <1>1, <1>10, <2>1, LenProperties
<1>12. ASSUME NEW p \in places PROVE \E q \in 1..M : q <= p /\ f[q] = s[p]
  <2>1. R[p] \in 0..(M - 1) /\ R[p] + 1 <= p
    BY <1>2
  <2>2. R[p] + 1 \in 1..M /\ (R[p] + 1) - 1 = R[p]
    BY <1>1, <2>1
  <2>3. Place(R[p] + 1) = p
    BY <1>5, <1>7, <2>2
  <2>4. f[R[p] + 1] = s[p]
    BY <1>9, <2>2, <2>3
  <2> QED
    BY <2>1, <2>2, <2>4
<1>13. \A q \in 1..M : \E p \in places : f[q] = s[p]
  BY <1>7, <1>9
<1>14. M \in 0..n
  BY <1>0, <1>1
<1> HIDE DEF M
<1>15. /\ f \in Seq(S) /\ Len(f) = M /\ Len(f) \in 0..n
       /\ \A q \in 1..Len(f) : \E p \in places : f[q] = s[p]
       /\ \A p \in places : \E q \in 1..Len(f) : q <= p /\ f[q] = s[p]
  BY <1>11, <1>12, <1>13, <1>14
<1> QED
  BY <1>15 DEF f, M

\* A list whose kept items are moved to its front is as long as before, and has
\* nothing that it had not.
InPlace(s, places) == Filtered(s, places) \o SubSeq(s, Len(Filtered(s, places)) + 1, Len(s))

LEMMA FilteredInPlace ==
  ASSUME NEW S, NEW s \in Seq(S), NEW n \in 0..Len(s), NEW places \in SUBSET (1..n)
  PROVE  /\ InPlace(s, places) \in Seq(S) /\ Len(InPlace(s, places)) = Len(s)
         /\ \A k \in 1..Len(s) : \E p \in 1..Len(s) : InPlace(s, places)[k] = s[p]
         /\ \A p \in places : \E q \in 1..Len(Filtered(s, places)) :
                                 q <= p /\ InPlace(s, places)[q] = s[p]
<1> DEFINE t == InPlace(s, places)
           f == Filtered(s, places)
           r == SubSeq(s, Len(f) + 1, Len(s))
<1>1. /\ f \in Seq(S) /\ Len(f) \in 0..n
      /\ \A q \in 1..Len(f) : \E p \in places : f[q] = s[p]
      /\ \A p \in places : \E q \in 1..Len(f) : q <= p /\ f[q] = s[p]
  BY FilteredKeeps
<1>2. t = f \o r
  BY DEF InPlace
<1> HIDE DEF f, t
<1>n. n \in Nat /\ n <= Len(s) /\ Len(s) \in Nat /\ Len(f) \in Nat /\ Len(f) <= Len(s)
  BY <1>1
<1>3. r \in Seq(S) /\ Len(r) = Len(s) - Len(f) /\ \A k \in 1..Len(r) : r[k] = s[k + Len(f)]
  BY <1>n
<1> HIDE DEF r
<1>4. /\ t \in Seq(S) /\ Len(t) = Len(s)
      /\ \A k \in 1..Len(f) : t[k] = f[k]
      /\ \A k \in 1..Len(t) : k > Len(f) => t[k] = r[k - Len(f)]
  <2>1. f \in Seq(S) /\ r \in Seq(S)
    BY <1>1, <1>3
  <2>2. t \in Seq(S) /\ Len(t) = Len(f) + Len(r)
    BY <1>2, <2>1, ConcatProperties
  <2>3. \A k \in 1..(Len(f) + Len(r)) : t[k] = IF k <= Len(f) THEN f[k] ELSE r[k - Len(f)]
    BY <1>2, <2>1, ConcatProperties
  <2> QED
    BY <1>n, <1>3, <2>2, <2>3
<1>5. ASSUME NEW k \in 1..Len(t) PROVE \E p \in 1..Len(s) : t[k] = s[p]
  <2>1. CASE k <= Len(f)
    <3>1. k \in 1..Len(f)
      BY <1>n, <2>1
    <3>2. PICK p \in places : f[k] = s[p]
      BY <1>1, <3>1
    <3>3. p \in 1..n
      OBVIOUS
    <3>4. p \in 1..Len(s)
      BY <1>n, <3>3
    <3> QED
      BY <1>4, <3>1, <3>2, <3>4
  <2>2. CASE k > Len(f)
    <3>1. k - Len(f) \in 1..Len(r) /\ (k - Len(f)) + Len(f) = k /\ k \in 1..Len(s)
      BY <1>n, <1>3, <1>4, <2>2
    <3>2. t[k] = s[k]
      BY <1>3, <1>4, <2>2, <3>1
    <3> QED
      BY <3>1, <3>2
  <2> QED
    BY <1>n, <2>1, <2>2
<1>6. ASSUME NEW p \in places PROVE \E q \in 1..Len(f) : q <= p /\ t[q] = s[p]
  BY <1>1, <1>4
<1> QED
  BY <1>4, <1>5, <1>6 DEF f, t

-----------------------------------------------------------------------------
(* Types.                                                                  *)

\* The creator's copy of the campaign is the whole request, so its walk over
\* the pilot group stays in the list.
TInv ==
    /\ TypeOK
    /\ Len(jobs) <= MaxJobs
    /\ creator.pc \in {"queue", "abort"} => creator.len = Len(Targets)

\* The pilot group is at least one device and no more than there are.
LEMMA PilotCount == ASSUME NEW n \in Nat, n >= 1 PROVE CanaryCount(n) \in 1..n
<1> DEFINE m == n * CanaryPercent
<1>p. CanaryPercent \in Nat /\ CanaryPercent <= 100 /\ CanaryPercent >= 1
  BY PercentAssumption
<1>1. m \in Nat /\ m <= 100 * n
  <2>1. \A p \in Nat : p <= 100 => n * p \in Nat /\ n * p <= 100 * n
    <3> TAKE p \in Nat
    <3> HAVE p <= 100
    <3>1. n * p \in Nat /\ n * (100 - p) \in Nat
      OBVIOUS
    <3>2. n * (100 - p) = 100 * n - n * p
      OBVIOUS
    <3> QED
      BY <3>1, <3>2
  <2> QED
    BY <1>p, <2>1
<1>2. CanaryCount(n) = IF (m + 99) \div 100 < 1 THEN 1 ELSE (m + 99) \div 100
  BY DEF CanaryCount
<1> HIDE DEF m
<1>3. (m + 99) \div 100 \in Nat /\ (m + 99) \div 100 <= n
  BY <1>1
<1> QED
  BY <1>2, <1>3

\* The computed state is one of the campaign's states.
LEMMA JudgedType == ASSUME camp.state \in CampaignStates, NEW js PROVE campaignState(js) \in CampaignStates
BY DEF campaignState, CampaignStates

\* DeleteDevice shortens the list, in the array it was in.
LEMMA DeleteLeaves ==
  ASSUME TypeOK, NEW d \in Devices, DeleteDevice(d), camp.exists
  PROVE  /\ array' \in Seq(Devices) /\ Len(array') = Len(array)
         /\ ToSet(array') \subseteq ToSet(array)
         /\ camp' = [camp EXCEPT !.exists = FALSE] \/ camp' = [camp EXCEPT !.len = camp'.len]
         /\ camp'.exists => camp'.len \in 0..camp.len
         /\ \A p \in 1..camp.len : array[p] # d =>
               \E q \in 1..Len(array') : q <= p /\ array'[q] = array[p]
                                         /\ (camp'.exists => q <= camp'.len)
<1> DEFINE places == {i \in 1..camp.len : array[i] # d}
           left == Filtered(array, places)
<1>1. /\ array' = InPlace(array, places)
      /\ camp' = IF left = <<>> THEN [camp EXCEPT !.exists = FALSE] ELSE [camp EXCEPT !.len = Len(left)]
  BY DEF DeleteDevice, InPlace
<1>2. array \in Seq(Devices) /\ camp.len \in 0..Len(array) /\ places \in SUBSET (1..camp.len)
  BY DEF TypeOK
<1>c. camp = [exists |-> camp.exists, state |-> camp.state, len |-> camp.len]
  BY DEF TypeOK
<1>3. Len(left) \in 0..camp.len
  BY <1>2, FilteredKeeps
<1> HIDE DEF places
<1>4. /\ array' \in Seq(Devices) /\ Len(array') = Len(array)
      /\ \A k \in 1..Len(array) : \E p \in 1..Len(array) : array'[k] = array[p]
      /\ \A p \in places : \E q \in 1..Len(left) : q <= p /\ array'[q] = array[p]
  BY <1>1, <1>2, FilteredInPlace
<1> HIDE DEF left
<1>5. ToSet(array') \subseteq ToSet(array)
  <2>1. DOMAIN array' = 1..Len(array') /\ DOMAIN array = 1..Len(array)
    BY <1>2, <1>4
  <2> QED
    BY <1>4, <2>1 DEF ToSet
<1>6. camp' = [camp EXCEPT !.exists = FALSE] \/ (camp' = [camp EXCEPT !.len = Len(left)] /\ camp'.len = Len(left))
  BY <1>1, <1>c
<1>7. camp'.exists => camp'.len = Len(left)
  BY <1>1, <1>c
<1>8. ASSUME NEW p \in 1..camp.len, array[p] # d
      PROVE  \E q \in 1..Len(array') : q <= p /\ array'[q] = array[p]
                                       /\ (camp'.exists => q <= camp'.len)
  <2>1. PICK q \in 1..Len(left) : q <= p /\ array'[q] = array[p]
    BY <1>4, <1>8 DEF places
  <2>2. q \in 1..Len(array') /\ q <= Len(left)
    BY <1>2, <1>3, <1>4
  <2> QED
    BY <1>7, <2>1, <2>2
<1> QED
  BY <1>3, <1>4, <1>5, <1>6, <1>7, <1>8

\* The campaign's record and its array keep their types.
LEMMA CampTypes ==
  ASSUME TInv, [Next]_vars
  PROVE  /\ camp' \in [exists : BOOLEAN, state : CampaignStates, len : 0..Len(Targets)]
         /\ array' \in Seq(Devices) /\ Len(array') = Len(Targets)
<1> DEFINE Camp == [exists : BOOLEAN, state : CampaignStates, len : 0..Len(Targets)]
           Ok == camp' \in Camp /\ array' \in Seq(Devices) /\ Len(array') = Len(Targets)
<1>l. Len(Targets) \in Nat
  BY TargetsAssumption
<1>t. camp \in Camp /\ array \in Seq(Devices) /\ Len(array) = Len(Targets)
  BY DEF TInv, TypeOK
<1>r. camp \in [exists : BOOLEAN, state : CampaignStates, len : Nat]
  BY <1>l, <1>t
<1>0. ASSUME camp' = camp, array' = array PROVE Ok
  BY <1>t, <1>0
<1>u. ASSUME NEW state \in CampaignStates, NEW len \in 0..Len(Targets), UpdateOTACampaign(state, len) PROVE Ok
  BY <1>t, <1>u DEF UpdateOTACampaign
<1>s. {"ready", "canary_queued", "queued", "failed"} \subseteq CampaignStates
  BY DEF CampaignStates
<1>1. CASE CreateCampaign
  BY <1>1, <1>l, <1>t, <1>s DEF CreateCampaign
<1>2. CASE CreatorUpdate \/ CreatorAbort
  <2>1. creator.len \in 0..Len(Targets)
    BY DEF TInv, TypeOK
  <2>2. \E state \in {"canary_queued", "queued", "failed"} : UpdateOTACampaign(state, creator.len)
    BY <1>2 DEF CreatorUpdate, CreatorAbort
  <2>3. PICK state \in CampaignStates : UpdateOTACampaign(state, creator.len)
    BY <1>s, <2>2
  <2> QED
    BY <1>u, <2>1, <2>3
<1>3. ASSUME NEW a \in Admins, PromoteUpdate(a) PROVE Ok
  <2>1. promoter[a].len \in 0..Len(Targets)
    BY DEF TInv, TypeOK
  <2>2. UpdateOTACampaign("queued", promoter[a].len)
    BY <1>3 DEF PromoteUpdate
  <2> HIDE DEF Ok
  <2> QED
    BY <1>s, <1>u, <2>1, <2>2
<1>4. ASSUME NEW m \in inflight, CompleteJob(m) PROVE Ok
  <2>1. camp' = camp \/ camp' = [camp EXCEPT !.state = campaignState(jobs')]
    BY <1>4 DEF CompleteJob
  <2>2. camp.state \in CampaignStates
    BY <1>t
  <2>3. campaignState(jobs') \in CampaignStates
    BY <2>2, JudgedType
  <2>4. array' = array
    BY <1>4 DEF CompleteJob
  <2> QED
    BY <1>t, <2>1, <2>3, <2>4
<1>5. ASSUME NEW d \in Devices, DeleteDevice(d) PROVE Ok
  <2>1. CASE camp.exists
    <3>1. /\ array' \in Seq(Devices) /\ Len(array') = Len(array)
          /\ camp' = [camp EXCEPT !.exists = FALSE] \/ camp' = [camp EXCEPT !.len = camp'.len]
          /\ camp'.exists => camp'.len \in 0..camp.len
      BY <1>5, <2>1, DeleteLeaves DEF TInv
    <3>2. CASE camp' = [camp EXCEPT !.exists = FALSE]
      BY <1>t, <3>1, <3>2
    <3>3. CASE camp' = [camp EXCEPT !.len = camp'.len]
      <4>1. camp'.exists = camp.exists
        BY <1>t, <3>3
      <4>2. camp'.len \in 0..Len(Targets)
        BY <1>l, <1>t, <2>1, <3>1, <4>1
      <4> QED
        BY <1>t, <3>1, <3>3, <4>2
    <3> QED
      BY <3>1, <3>2, <3>3
  <2>2. CASE ~camp.exists
    BY <1>0, <1>5, <2>2 DEF DeleteDevice
  <2> QED
    BY <2>1, <2>2
<1>6. \/ (camp' = camp /\ array' = array) \/ CreateCampaign \/ CreatorUpdate \/ CreatorAbort
      \/ \E a \in Admins : PromoteUpdate(a)
      \/ \E m \in inflight : CompleteJob(m)
      \/ \E d \in Devices : DeleteDevice(d)
  BY DEF Next, Creator, Promoter, CreatorQueue, StartPromote, ListRemaining, PromoteQueue,
         CreateJob, CreateJobFails, NextJobForDevice, Report, Lose, AgentRestart,
         DeleteJob, Overdue, ServerRestart, store, vars
<1> QED
  BY <1>0, <1>1, <1>2, <1>3, <1>4, <1>5, <1>6

\* So do the handlers' records.
LEMMA HandlerTypes ==
  ASSUME TInv, [Next]_vars
  PROVE  /\ creator' \in [pc : {"start", "queue", "abort", "done"}, i : 1..(Len(Targets) + 1),
                          len : 0..Len(Targets)]
         /\ creator'.pc \in {"queue", "abort"} => creator'.len = Len(Targets)
         /\ promoter' \in [Admins -> [pc : {"idle", "list", "queue"}, todo : Seq(Devices),
                                      len : 0..Len(Targets)]]
<1> DEFINE Copy == [pc : {"start", "queue", "abort", "done"}, i : 1..(Len(Targets) + 1),
                    len : 0..Len(Targets)]
           Turn == [pc : {"idle", "list", "queue"}, todo : Seq(Devices), len : 0..Len(Targets)]
<1>l. Len(Targets) \in Nat /\ Len(Targets) >= 1
  BY TargetsAssumption
<1>t. /\ creator \in Copy
      /\ creator.pc \in {"queue", "abort"} => creator.len = Len(Targets)
      /\ promoter \in [Admins -> Turn]
      /\ array \in Seq(Devices) /\ camp.len \in 0..Len(array) /\ camp.len \in 0..Len(Targets)
  BY DEF TInv, TypeOK
<1>p. ASSUME NEW a \in Admins PROVE promoter[a] \in Turn /\ promoter[a].len \in 0..Len(array)
  BY <1>t DEF TInv, TypeOK
<1>1. creator' \in Copy /\ (creator'.pc \in {"queue", "abort"} => creator'.len = Len(Targets))
  <2>1. CASE creator' = creator
    BY <1>t, <2>1
  <2>2. CASE CreateCampaign
    <3>1. creator' = [creator EXCEPT !.pc = "queue", !.len = Len(Targets)]
      BY <2>2 DEF CreateCampaign
    <3>2. Len(Targets) \in 0..Len(Targets)
      BY <1>l
    <3> QED
      BY <1>t, <3>1, <3>2
  <2>3. CASE CreatorQueue
    <3>1. creator.pc = "queue" /\ creator.i <= CanaryCount(creator.len)
      BY <2>3 DEF CreatorQueue
    <3>2. creator.len = Len(Targets) /\ CanaryCount(Len(Targets)) \in 1..Len(Targets)
      BY <1>l, <1>t, <3>1, PilotCount
    <3>3. creator.i \in Nat /\ creator.i >= 1
      BY <1>l, <1>t
    <3>4. creator.i + 1 \in 1..(Len(Targets) + 1)
      BY <1>l, <3>1, <3>2, <3>3
    <3>5. creator' = [creator EXCEPT !.i = @ + 1] \/ creator' = [creator EXCEPT !.pc = "abort"]
      BY <2>3 DEF CreatorQueue
    <3> QED
      BY <1>t, <3>2, <3>4, <3>5
  <2>4. CASE CreatorUpdate \/ CreatorAbort \/ ServerRestart
    <3>1. creator' = [creator EXCEPT !.pc = "done"] \/ (creator' = creator /\ creator.pc = "start")
      BY <2>4 DEF CreatorUpdate, CreatorAbort, ServerRestart
    <3> QED
      BY <1>t, <3>1
  <2>5. creator' = creator \/ CreateCampaign \/ CreatorQueue \/ CreatorUpdate \/ CreatorAbort \/ ServerRestart
    BY DEF Next, Creator, Promoter, StartPromote, ListRemaining, PromoteQueue, PromoteUpdate,
           NextJobForDevice, CompleteJob, Report, Lose, AgentRestart, DeleteJob, DeleteDevice, Overdue,
           handlers, vars
  <2> QED
    BY <2>1, <2>2, <2>3, <2>4, <2>5
<1>2. promoter' \in [Admins -> Turn]
  <2>1. CASE promoter' = promoter
    BY <1>t, <2>1
  <2>2. ASSUME NEW a \in Admins, StartPromote(a) PROVE promoter' \in [Admins -> Turn]
    <3>1. [pc |-> "list", todo |-> <<>>, len |-> camp.len] \in Turn
      BY <1>t
    <3> HIDE DEF Turn
    <3> QED
      BY <1>t, <2>2, <3>1 DEF StartPromote
  <2>3. ASSUME NEW a \in Admins, ListRemaining(a) PROVE promoter' \in [Admins -> Turn]
    <3> DEFINE places == {i \in 1..promoter[a].len : JobsOf(array[i]) = {}}
               remaining == Filtered(array, places)
               pc == IF remaining = <<>> THEN "idle" ELSE "queue"
    <3>1. places \in SUBSET (1..promoter[a].len)
      OBVIOUS
    <3>2. promoter' = [promoter EXCEPT ![a].pc = pc, ![a].todo = remaining]
      BY <2>3 DEF ListRemaining
    <3> HIDE DEF places
    <3>3. remaining \in Seq(Devices)
      BY <1>t, <1>p, <3>1, FilteredKeeps
    <3>4. pc \in {"idle", "queue"}
      OBVIOUS
    <3> HIDE DEF remaining, pc
    <3> QED
      BY <1>t, <3>2, <3>3, <3>4
  <2>4. ASSUME NEW a \in Admins, PromoteQueue(a) PROVE promoter' \in [Admins -> Turn]
    <3>1. promoter[a].todo \in Seq(Devices) /\ promoter[a].todo # <<>>
      BY <1>p, <2>4 DEF PromoteQueue
    <3>2. Tail(promoter[a].todo) \in Seq(Devices) /\ <<>> \in Seq(Devices)
      BY <3>1
    <3>3. \/ promoter' = [promoter EXCEPT ![a].todo = Tail(@)]
          \/ promoter' = [promoter EXCEPT ![a].pc = "idle", ![a].todo = <<>>]
      BY <2>4 DEF PromoteQueue
    <3> DEFINE rest == Tail(promoter[a].todo)
    <3>4. rest \in Seq(Devices)
      BY <3>2
    <3>5. \/ promoter' = [promoter EXCEPT ![a].todo = rest]
          \/ promoter' = [promoter EXCEPT ![a].pc = "idle", ![a].todo = <<>>]
      BY <1>t, <3>3
    <3> HIDE DEF rest
    <3>6. CASE promoter' = [promoter EXCEPT ![a].todo = rest]
      BY <1>t, <3>4, <3>6
    <3>7. CASE promoter' = [promoter EXCEPT ![a].pc = "idle", ![a].todo = <<>>]
      BY <1>t, <3>2, <3>7
    <3> QED
      BY <3>5, <3>6, <3>7
  <2>5. ASSUME NEW a \in Admins, PromoteUpdate(a) PROVE promoter' \in [Admins -> Turn]
    BY <1>t, <2>5 DEF PromoteUpdate
  <2>6. CASE ServerRestart
    BY <1>l, <2>6 DEF ServerRestart
  <2>7. \/ promoter' = promoter \/ ServerRestart
        \/ \E a \in Admins : StartPromote(a) \/ ListRemaining(a) \/ PromoteQueue(a) \/ PromoteUpdate(a)
    BY DEF Next, Creator, Promoter, CreateCampaign, CreatorQueue, CreatorUpdate, CreatorAbort,
           NextJobForDevice, CompleteJob, Report, Lose, AgentRestart, DeleteJob, DeleteDevice, Overdue,
           handlers, vars
  <2> HIDE DEF Turn
  <2> QED
    BY <2>1, <2>2, <2>3, <2>4, <2>5, <2>6, <2>7
<1> QED
  BY <1>1, <1>2

\* So do the devices' records, and the bound on the jobs holds.
LEMMA EdgeTypes ==
  ASSUME TInv, [Next]_vars
  PROVE  /\ Len(jobs') <= MaxJobs
         /\ held' \in [Devices -> 0..MaxJobs]
         /\ outcome' \in [Devices -> {"none", "succeeded", "failed"}]
         /\ inflight' \subseteq [job : 1..MaxJobs, state : {"succeeded", "failed", "rebooting"}]
<1>t. /\ Stored
      /\ jobs \in Seq(Job) /\ Len(jobs) <= MaxJobs /\ MaxJobs \in Nat
      /\ held \in [Devices -> 0..MaxJobs]
      /\ outcome \in [Devices -> {"none", "succeeded", "failed"}]
      /\ inflight \subseteq [job : 1..MaxJobs, state : Results]
  BY SwitchAssumption DEF TInv, TypeOK, Stored, Job, Results
<1>1. Len(jobs') <= MaxJobs
  <2>1. CASE Turns
    BY <1>t, <2>1 DEF Turns
  <2>2. ASSUME NEW d, CreateJob(d) \/ CreateJobFails(d) PROVE Len(jobs') <= MaxJobs
    <3>1. \/ jobs' = jobs
          \/ /\ Len(jobs) < MaxJobs
             /\ jobs' = Append(jobs, [dev |-> d, state |-> "queued", overdue |-> FALSE])
      BY <2>2 DEF CreateJob, CreateJobFails, store
    <3> QED
      BY <1>t, <3>1
  <2>3. CASE Queues
    BY <2>2, <2>3 DEF Queues, CreatorQueue, PromoteQueue
  <2> QED
    BY <1>t, <2>1, <2>3, OtherStep
<1>2. ASSUME NEW d \in Devices, NEW state \in Results, Report(d, state)
      PROVE  /\ held' \in [Devices -> 0..MaxJobs]
             /\ outcome' \in [Devices -> {"none", "succeeded", "failed"}]
             /\ inflight' \subseteq [job : 1..MaxJobs, state : Results]
  <2>1. held[d] \in 1..MaxJobs /\ held' = [held EXCEPT ![d] = 0]
    BY <1>2, <1>t DEF Report
  <2>2. \/ outcome' = outcome
        \/ outcome' = [outcome EXCEPT ![d] = IF state = "rebooting" THEN @ ELSE state]
    BY <1>2 DEF Report
  <2>3. inflight' = inflight \cup {[job |-> held[d], state |-> state]}
    BY <1>2 DEF Report
  <2>4. held' \in [Devices -> 0..MaxJobs]
    BY <1>t, <2>1
  <2>5. outcome' \in [Devices -> {"none", "succeeded", "failed"}]
    BY <1>t, <2>2 DEF Results
  <2>6. inflight' \subseteq [job : 1..MaxJobs, state : Results]
    BY <1>t, <2>1, <2>3
  <2> QED
    BY <2>4, <2>5, <2>6
<1>3. ASSUME NEW d \in Devices, NextJobForDevice(d) PROVE held' \in [Devices -> 0..MaxJobs]
  <2>1. held' = held \/ \E i \in JobsOf(d) : held' = [held EXCEPT ![d] = i]
    BY <1>3 DEF NextJobForDevice
  <2>2. \A i \in JobsOf(d) : i \in 0..MaxJobs
    BY <1>t DEF JobsOf, Present
  <2> QED
    BY <1>t, <2>1, <2>2
<1>4. ASSUME NEW d \in Devices, AgentRestart(d) PROVE held' \in [Devices -> 0..MaxJobs]
  BY <1>4, <1>t DEF AgentRestart
<1>5. \/ \E d \in Devices, state \in Results : Report(d, state)
      \/ /\ \/ held' = held
            \/ \E d \in Devices : NextJobForDevice(d) \/ AgentRestart(d)
         /\ outcome' = outcome
         /\ inflight' \subseteq inflight
  BY DEF Next, Creator, Promoter, CreateCampaign, CreatorQueue, CreatorUpdate, CreatorAbort,
         StartPromote, ListRemaining, PromoteQueue, PromoteUpdate, NextJobForDevice, CompleteJob,
         Lose, AgentRestart, DeleteJob, DeleteDevice, Overdue, ServerRestart, edge, vars, Results
<1>6. /\ held' \in [Devices -> 0..MaxJobs]
      /\ outcome' \in [Devices -> {"none", "succeeded", "failed"}]
      /\ inflight' \subseteq [job : 1..MaxJobs, state : Results]
  BY <1>t, <1>2, <1>3, <1>4, <1>5
<1> QED
  BY <1>1, <1>6 DEF Results

\* The invariant holds at first and is kept.
LEMMA InitTInv == Init => TInv
<1> SUFFICES ASSUME Init PROVE TInv
  OBVIOUS
<1>1. Len(Targets) \in Nat /\ Len(Targets) >= 1 /\ Targets \in Seq(Devices)
  BY TargetsAssumption
<1>2. "ready" \in CampaignStates
  BY DEF CampaignStates
<1> QED
  BY <1>1, <1>2, SwitchAssumption DEF Init, TInv, TypeOK

LEMMA StepTInv == TInv /\ [Next]_vars => TInv'
<1> SUFFICES ASSUME TInv, [Next]_vars PROVE TInv'
  OBVIOUS
<1>1. Stored
  BY DEF TInv, TypeOK, Stored, Job, Results
<1>2. Stored'
  BY <1>1, StoredStep
<1>3. /\ devices' \subseteq Devices
      /\ jobs' \in Seq([dev : Devices, state : Open \cup Closed \cup {"removed"}, overdue : BOOLEAN])
  BY <1>2 DEF Stored, Job
<1> QED
  BY <1>3, CampTypes, HandlerTypes, EdgeTypes DEF TInv, TypeOK

\* Every variable keeps its type, whatever the request, the devices and the
\* bounds: in particular every walk over a copied campaign stays in its array.
THEOREM CampaignTypes == Spec => []TypeOK
<1>1. TInv => TypeOK
  BY DEF TInv
<1> QED
  BY <1>1, InitTInv, StepTInv, PTL DEF Spec

-----------------------------------------------------------------------------
(* A completed campaign covers its targets.                                *)

\* The request's devices, and a copy of the campaign, of length n, that misses
\* none of them that is still known.
Asked == ToSet(Targets)
Covers(n) == \A e \in devices \cap Asked : \E p \in 1..n : array[p] = e

\* Jobs and work under way are for the request's devices, a present job for one
\* that is still known.
Targeted ==
    /\ ToSet(array) \subseteq Asked
    /\ \A a \in Admins : ToSet(promoter[a].todo) \subseteq Asked
    /\ \A i \in Present : jobs[i].dev \in devices \cap Asked

\* Every length under which the list of targets is, or may yet be, stored.
Covered ==
    /\ creator.pc = "start" => /\ array = Targets /\ ~camp.exists
                               /\ \A a \in Admins : promoter[a].pc = "idle"
    /\ camp.exists => Covers(camp.len)
    /\ creator.pc \in {"queue", "abort"} => Covers(creator.len)
    /\ \A a \in Admins : promoter[a].pc # "idle" => Covers(promoter[a].len)

CInv == TInv /\ Alone /\ Targeted /\ Covered

\* Whoever queues a job queues it for a device of the request.
LEMMA QueuedAreAsked ==
  ASSUME TInv, Targeted, Queues
  PROVE  Turns \/ \E d \in devices \cap Asked :
                     jobs' = Append(jobs, [dev |-> d, state |-> "queued", overdue |-> FALSE])
<1>1. ASSUME NEW d \in Asked, CreateJob(d) \/ CreateJobFails(d)
      PROVE  Turns \/ \E e \in devices \cap Asked :
                         jobs' = Append(jobs, [dev |-> e, state |-> "queued", overdue |-> FALSE])
  <2>1. Stored
    BY DEF TInv, TypeOK, Stored, Job, Results
  <2>2. jobs' = jobs => Turns
    BY <2>1 DEF Stored, Turns
  <2>3. \/ jobs' = jobs
        \/ d \in devices /\ jobs' = Append(jobs, [dev |-> d, state |-> "queued", overdue |-> FALSE])
    BY <1>1 DEF CreateJob, CreateJobFails, store
  <2> QED
    BY <1>1, <2>2, <2>3
<1>2. CASE CreatorQueue
  <2>1. Len(Targets) \in Nat /\ Len(Targets) >= 1
    BY TargetsAssumption
  <2>2. /\ array \in Seq(Devices) /\ Len(array) = Len(Targets)
        /\ creator.len = Len(Targets) /\ creator.i \in Nat /\ creator.i >= 1
        /\ creator.i <= CanaryCount(creator.len)
    BY <1>2, <2>1 DEF CreatorQueue, TInv, TypeOK
  <2>3. CanaryCount(Len(Targets)) \in 1..Len(Targets)
    BY <2>1, PilotCount
  <2>4. creator.i \in DOMAIN array
    BY <2>1, <2>2, <2>3
  <2>5. array[creator.i] \in Asked
    BY <2>4 DEF Targeted, ToSet
  <2> QED
    BY <1>1, <1>2, <2>5 DEF CreatorQueue
<1>3. ASSUME NEW a \in Admins, PromoteQueue(a)
      PROVE  Turns \/ \E d \in devices \cap Asked :
                         jobs' = Append(jobs, [dev |-> d, state |-> "queued", overdue |-> FALSE])
  <2>1. promoter[a].todo \in Seq(Devices) /\ promoter[a].todo # <<>>
    BY <1>3 DEF PromoteQueue, TInv, TypeOK
  <2>2. Head(promoter[a].todo) \in ToSet(promoter[a].todo)
    BY <2>1 DEF ToSet
  <2>3. Head(promoter[a].todo) \in Asked
    BY <2>2 DEF Targeted
  <2> QED
    BY <1>1, <1>3, <2>3 DEF PromoteQueue
<1> QED
  BY <1>2, <1>3 DEF Queues

\* A known device goes only with DeleteDevice, which takes its jobs along.
LEMMA TargetedStep ==
  ASSUME TInv, Targeted, [Next]_vars
  PROVE  Targeted'
<1>s. Stored
  BY DEF TInv, TypeOK, Stored, Job, Results
<1>t. /\ jobs \in Seq(Job) /\ array \in Seq(Devices) /\ camp.len \in 0..Len(array)
      /\ promoter \in [Admins -> [pc : {"idle", "list", "queue"}, todo : Seq(Devices),
                                  len : 0..Len(array)]]
  BY <1>s DEF TInv, TypeOK, Stored
<1>1. ToSet(array') \subseteq Asked
  <2>1. ASSUME NEW d \in Devices, DeleteDevice(d) PROVE ToSet(array') \subseteq ToSet(array)
    <3>1. CASE camp.exists
      BY <2>1, <3>1, DeleteLeaves DEF TInv
    <3>2. CASE ~camp.exists
      BY <2>1, <3>2 DEF DeleteDevice
    <3> QED
      BY <3>1, <3>2
  <2>2. array' = array \/ \E d \in Devices : DeleteDevice(d)
    BY DEF Next, Creator, Promoter, CreateCampaign, CreatorQueue, CreatorUpdate, CreatorAbort,
           StartPromote, ListRemaining, PromoteQueue, PromoteUpdate, CreateJob, CreateJobFails,
           UpdateOTACampaign, NextJobForDevice, CompleteJob, Report, Lose, AgentRestart, DeleteJob,
           Overdue, ServerRestart, store, vars
  <2> QED
    BY <2>1, <2>2 DEF Targeted
<1>2. ASSUME NEW a \in Admins PROVE ToSet(promoter'[a].todo) \subseteq Asked
  <2>0. ToSet(<<>>) = {}
    BY DEF ToSet
  <2>1. CASE promoter'[a].todo = promoter[a].todo \/ promoter'[a].todo = <<>>
    BY <2>0, <2>1 DEF Targeted
  <2>2. ASSUME NEW b \in Admins, StartPromote(b) \/ PromoteUpdate(b)
        PROVE  promoter'[a].todo = promoter[a].todo \/ promoter'[a].todo = <<>>
    <3>1. \/ promoter' = [promoter EXCEPT ![b] = [pc |-> "list", todo |-> <<>>, len |-> camp.len]]
          \/ promoter' = [promoter EXCEPT ![b].pc = "idle"]
      BY <2>2 DEF StartPromote, PromoteUpdate
    <3>2. CASE b = a
      BY <1>t, <3>1, <3>2
    <3>3. CASE b # a
      BY <1>t, <3>1, <3>3
    <3> QED
      BY <3>2, <3>3
  <2>3. ASSUME NEW b \in Admins, PromoteQueue(b) PROVE ToSet(promoter'[a].todo) \subseteq Asked
    <3>1. CASE b = a /\ promoter'[a].todo = Tail(promoter[a].todo)
      <4>1. promoter[a].todo \in Seq(Devices) /\ promoter[a].todo # <<>>
        BY <1>t, <2>3, <3>1 DEF PromoteQueue
      <4>2. ToSet(Tail(promoter[a].todo)) \subseteq ToSet(promoter[a].todo)
        BY <4>1 DEF ToSet
      <4> QED
        BY <3>1, <4>2 DEF Targeted
    <3> DEFINE rest == Tail(promoter[b].todo)
               Kept == \/ b = a /\ promoter'[a].todo = rest
                       \/ promoter'[a].todo = promoter[a].todo \/ promoter'[a].todo = <<>>
    <3>2. \/ promoter' = [promoter EXCEPT ![b].todo = rest]
          \/ promoter' = [promoter EXCEPT ![b].pc = "idle", ![b].todo = <<>>]
      BY <2>3 DEF PromoteQueue
    <3> HIDE DEF rest
    <3>3. ASSUME promoter' = [promoter EXCEPT ![b].todo = rest] PROVE Kept
      BY <1>t, <3>3
    <3>4. ASSUME promoter' = [promoter EXCEPT ![b].pc = "idle", ![b].todo = <<>>] PROVE Kept
      BY <1>t, <3>4
    <3>5. Kept
      BY <3>2, <3>3, <3>4
    <3>6. \/ b = a /\ promoter'[a].todo = Tail(promoter[a].todo)
          \/ promoter'[a].todo = promoter[a].todo \/ promoter'[a].todo = <<>>
      BY <3>5 DEF rest
    <3> QED
      BY <2>1, <3>1, <3>6
  <2>4. ASSUME NEW b \in Admins, ListRemaining(b) PROVE ToSet(promoter'[a].todo) \subseteq Asked
    <3> DEFINE places == {i \in 1..promoter[b].len : JobsOf(array[i]) = {}}
               remaining == Filtered(array, places)
    <3>1. places \in SUBSET (1..promoter[b].len) /\ promoter[b].len \in 0..Len(array)
      BY <1>t
    <3>2. \E pc : promoter' = [promoter EXCEPT ![b].pc = pc, ![b].todo = remaining]
      BY <2>4 DEF ListRemaining
    <3> HIDE DEF places, remaining
    <3>3. PICK pc : promoter' = [promoter EXCEPT ![b].pc = pc, ![b].todo = remaining]
      BY <3>2
    <3>4. promoter'[a].todo = promoter[a].todo \/ promoter'[a].todo = remaining
      BY <1>t, <3>3
    <3> USE DEF remaining
    <3>5. /\ remaining \in Seq(Devices)
          /\ \A q \in 1..Len(remaining) : \E p \in places : remaining[q] = array[p]
      BY <1>t, <3>1, FilteredKeeps
    <3> HIDE DEF remaining
    <3>6. \A p \in places : p \in DOMAIN array
      BY <1>t, <3>1
    <3>7. ToSet(remaining) \subseteq ToSet(array)
      BY <3>5, <3>6 DEF ToSet
    <3> QED
      BY <2>1, <3>4, <3>7 DEF Targeted
  <2>5. CASE ServerRestart
    BY <2>1, <2>5 DEF ServerRestart
  <2>6. \/ promoter' = promoter \/ ServerRestart
        \/ \E b \in Admins : StartPromote(b) \/ ListRemaining(b) \/ PromoteQueue(b) \/ PromoteUpdate(b)
    BY DEF Next, Creator, Promoter, CreateCampaign, CreatorQueue, CreatorUpdate, CreatorAbort,
           NextJobForDevice, CompleteJob, Report, Lose, AgentRestart, DeleteJob, DeleteDevice, Overdue,
           handlers, vars
  <2> QED
    BY <2>1, <2>2, <2>3, <2>4, <2>5, <2>6
<1>3. ASSUME NEW i \in Present' PROVE jobs'[i].dev \in devices' \cap Asked
  <2>1. CASE Turns /\ devices' = devices
    <3>1. i \in Present /\ jobs'[i].dev = jobs[i].dev
      BY <1>3, <1>t, <2>1 DEF Turns, Present
    <3> QED
      BY <2>1, <3>1 DEF Targeted
  <2>2. ASSUME NEW d \in Devices, DeleteDevice(d) PROVE jobs'[i].dev \in devices' \cap Asked
    <3>1. /\ jobs' = [k \in DOMAIN jobs |->
                        IF jobs[k].dev = d THEN [jobs[k] EXCEPT !.state = "removed"] ELSE jobs[k]]
          /\ devices' = devices \ {d}
      BY <2>2 DEF DeleteDevice
    <3>2. i \in DOMAIN jobs /\ jobs'[i].state # "removed"
      BY <1>3, <3>1 DEF Present
    <3>3. jobs[i] \in Job
      BY <1>t, <3>2
    <3>4. jobs[i].dev # d /\ jobs'[i] = jobs[i]
      BY <3>1, <3>2, <3>3 DEF Job
    <3>5. i \in Present
      BY <3>2, <3>4 DEF Present
    <3> QED
      BY <3>1, <3>4, <3>5 DEF Targeted
  <2>3. ASSUME NEW d \in devices \cap Asked, devices' = devices,
               jobs' = Append(jobs, [dev |-> d, state |-> "queued", overdue |-> FALSE])
        PROVE  jobs'[i].dev \in devices' \cap Asked
    <3>1. i \in DOMAIN jobs' /\ jobs'[i].state # "removed"
      BY <1>3 DEF Present
    <3>2. (i \in DOMAIN jobs /\ jobs'[i] = jobs[i]) \/ jobs'[i].dev = d
      BY <1>t, <2>3, <3>1
    <3> QED
      BY <2>3, <3>1, <3>2 DEF Targeted, Present
  <2>4. devices' = devices \/ \E d \in Devices : DeleteDevice(d)
    BY DEF Next, Creator, Promoter, CreateCampaign, CreatorQueue, CreatorUpdate, CreatorAbort,
           StartPromote, ListRemaining, PromoteQueue, PromoteUpdate, CreateJob, CreateJobFails,
           UpdateOTACampaign, NextJobForDevice, CompleteJob, Report, Lose, AgentRestart, DeleteJob,
           Overdue, ServerRestart, store, vars
  <2>5. Turns \/ \E d \in devices \cap Asked :
                    jobs' = Append(jobs, [dev |-> d, state |-> "queued", overdue |-> FALSE])
    BY <1>s, OtherStep, QueuedAreAsked
  <2> QED
    BY <2>1, <2>2, <2>3, <2>4, <2>5
<1> QED
  BY <1>1, <1>2, <1>3 DEF Targeted

\* Removing a device moves the others forward in the array, so every copied
\* length under which they were found still finds them.
LEMMA DeleteCovers ==
  ASSUME TypeOK, NEW d \in Devices, DeleteDevice(d), camp.exists, Covers(camp.len)
  PROVE  /\ camp'.exists => Covers(camp.len)'
         /\ \A n \in Nat : Covers(n) => \A e \in devices' \cap Asked : \E p \in 1..n : array'[p] = e
<1>t. array \in Seq(Devices) /\ camp.len \in Nat /\ camp.len <= Len(array) /\ Len(array) \in Nat
  <2>1. Len(Targets) \in Nat
    BY TargetsAssumption
  <2> QED
    BY <2>1 DEF TypeOK
<1>1. /\ devices' = devices \ {d}
      /\ Len(array') = Len(array)
      /\ camp'.exists => camp'.len \in 0..camp.len
      /\ \A p \in 1..camp.len : array[p] # d =>
            \E q \in 1..Len(array') : q <= p /\ array'[q] = array[p]
                                      /\ (camp'.exists => q <= camp'.len)
  BY DeleteLeaves DEF DeleteDevice
<1>2. ASSUME NEW e \in devices' \cap Asked, NEW p \in 1..camp.len, array[p] = e
      PROVE  \E q \in Nat : 1 <= q /\ q <= p /\ array'[q] = e /\ (camp'.exists => q <= camp'.len)
  <2>1. array[p] # d
    BY <1>1, <1>2
  <2>2. PICK q \in 1..Len(array') : q <= p /\ array'[q] = array[p] /\ (camp'.exists => q <= camp'.len)
    BY <1>1, <2>1
  <2>3. q \in Nat /\ 1 <= q
    BY <1>1, <1>t, <2>2
  <2> QED
    BY <1>2, <2>2, <2>3
<1>3. ASSUME camp'.exists, NEW e \in devices' \cap Asked
      PROVE  \E p \in 1..(camp'.len) : array'[p] = e
  <2>1. PICK p \in 1..camp.len : array[p] = e
    BY <1>1, <1>3 DEF Covers
  <2>2. PICK q \in Nat : 1 <= q /\ q <= p /\ array'[q] = e /\ q <= camp'.len
    BY <1>2, <1>3, <2>1
  <2>3. camp'.len \in 0..camp.len
    BY <1>1, <1>3
  <2>4. q \in 1..(camp'.len)
    BY <1>t, <2>2, <2>3
  <2> QED
    BY <2>2, <2>4
<1>4. ASSUME NEW n \in Nat, Covers(n), NEW e \in devices' \cap Asked
      PROVE  \E p \in 1..n : array'[p] = e
  <2>1. PICK p \in 1..camp.len : array[p] = e
    BY <1>1 DEF Covers
  <2>2. PICK r \in 1..n : array[r] = e
    BY <1>1, <1>4 DEF Covers
  <2>3. p \in Nat /\ r \in Nat /\ p <= camp.len /\ r <= n /\ r >= 1
    BY <1>t
  <2>4. \E k \in 1..camp.len : array[k] = e /\ k <= n
    BY <1>t, <2>1, <2>2, <2>3
  <2>5. PICK k \in 1..camp.len : array[k] = e /\ k <= n
    BY <2>4
  <2>6. PICK q \in Nat : 1 <= q /\ q <= k /\ array'[q] = e
    BY <1>2, <2>5
  <2>7. q \in 1..n
    BY <1>t, <2>5, <2>6
  <2> QED
    BY <2>6, <2>7
<1> QED
  BY <1>3, <1>4 DEF Covers

\* Lengths that are stored, or copied by a handler, cover the known targets.
LEMMA CoveredStep ==
  ASSUME TInv, Covered, [Next]_vars
  PROVE  Covered'
<1>l. Len(Targets) \in Nat
  BY TargetsAssumption
<1>t. /\ camp \in [exists : BOOLEAN, state : CampaignStates, len : Nat]
      /\ creator \in [pc : {"start", "queue", "abort", "done"}, i : Nat, len : Nat]
      /\ promoter \in [Admins -> [pc : {"idle", "list", "queue"}, todo : Seq(Devices), len : Nat]]
  BY <1>l DEF TInv, TypeOK
<1>1. CASE UNCHANGED <<devices, array, creator, promoter>>
           /\ camp'.exists = camp.exists /\ camp'.len = camp.len
  BY <1>1 DEF Covered, Covers
<1>2. CASE CreateCampaign
  <2>1. /\ ToSet(Targets) \subseteq devices /\ creator.pc = "start"
        /\ camp' = [exists |-> TRUE, state |-> "ready", len |-> Len(Targets)]
        /\ creator' = [creator EXCEPT !.pc = "queue", !.len = Len(Targets)]
        /\ UNCHANGED <<devices, array, promoter>>
    BY <1>2 DEF CreateCampaign
  <2>2. creator'.pc = "queue" /\ creator'.len = Len(Targets) /\ camp'.len = Len(Targets)
    BY <1>t, <2>1
  <2>3. array' = Targets /\ \A a \in Admins : promoter'[a].pc = "idle"
    BY <2>1 DEF Covered
  <2>4. DOMAIN Targets = 1..Len(Targets)
    BY TargetsAssumption
  <2>5. \A e \in devices' \cap Asked : \E p \in 1..Len(Targets) : array'[p] = e
    BY <2>3, <2>4 DEF Asked, ToSet
  <2> QED
    BY <2>2, <2>3, <2>5 DEF Covered, Covers
<1>3. CASE CreatorQueue \/ CreatorUpdate \/ CreatorAbort
  <2>1. UNCHANGED <<devices, array, promoter>> /\ creator.pc \in {"queue", "abort"}
    BY <1>3 DEF CreatorQueue, CreatorUpdate, CreatorAbort, CreateJob, CreateJobFails, UpdateOTACampaign, store
  <2>2. creator'.len = creator.len /\ creator'.pc # "start"
    <3>1. \/ creator' = [creator EXCEPT !.i = @ + 1]
          \/ creator' = [creator EXCEPT !.pc = "abort"]
          \/ creator' = [creator EXCEPT !.pc = "done"]
      BY <1>3 DEF CreatorQueue, CreatorUpdate, CreatorAbort
    <3> QED
      BY <1>t, <2>1, <3>1
  <2>3. camp'.exists = camp.exists /\ camp'.len \in {camp.len, creator.len}
    <3>1. CASE camp' = camp
      BY <3>1
    <3>2. ASSUME NEW state, camp' = [camp EXCEPT !.state = state, !.len = creator.len]
          PROVE  camp'.exists = camp.exists /\ camp'.len \in {camp.len, creator.len}
      BY <1>t, <3>2
    <3>3. camp' = camp \/ \E state : camp' = [camp EXCEPT !.state = state, !.len = creator.len]
      BY <1>3 DEF CreatorQueue, CreatorUpdate, CreatorAbort, CreateJob, CreateJobFails, UpdateOTACampaign, store
    <3> QED
      BY <3>1, <3>2, <3>3
  <2>4. Covers(creator.len)
    BY <2>1 DEF Covered
  <2> QED
    BY <2>1, <2>2, <2>3, <2>4 DEF Covered, Covers
<1>4. ASSUME NEW a \in Admins, StartPromote(a) PROVE Covered'
  <2>1. /\ camp.exists
        /\ promoter' = [promoter EXCEPT ![a] = [pc |-> "list", todo |-> <<>>, len |-> camp.len]]
        /\ UNCHANGED <<devices, camp, array, creator>>
    BY <1>4 DEF StartPromote, store
  <2>2. /\ promoter'[a].len = camp.len
        /\ \A b \in Admins : b # a => promoter'[b] = promoter[b]
    BY <1>t, <2>1
  <2> QED
    BY <2>1, <2>2 DEF Covered, Covers
<1>5. ASSUME NEW a \in Admins, ListRemaining(a) \/ PromoteQueue(a) \/ PromoteUpdate(a) PROVE Covered'
  <2>1. promoter[a].pc # "idle" /\ UNCHANGED <<devices, array, creator>>
    BY <1>5 DEF ListRemaining, PromoteQueue, PromoteUpdate, CreateJob, CreateJobFails,
                UpdateOTACampaign, store
  <2>2. \A b \in Admins : /\ promoter'[b].len = promoter[b].len
                          /\ promoter'[b].pc # "idle" => promoter[b].pc # "idle"
    <3>1. CASE ListRemaining(a)
      <4>1. \E pc, todo : promoter' = [promoter EXCEPT ![a].pc = pc, ![a].todo = todo]
        BY <3>1 DEF ListRemaining
      <4> QED
        BY <1>t, <2>1, <4>1
    <3>2. CASE PromoteQueue(a)
      <4>1. \/ promoter' = [promoter EXCEPT ![a].todo = Tail(@)]
            \/ promoter' = [promoter EXCEPT ![a].pc = "idle", ![a].todo = <<>>]
        BY <3>2 DEF PromoteQueue
      <4>2. CASE promoter' = [promoter EXCEPT ![a].todo = Tail(@)]
        BY <1>t, <2>1, <4>2
      <4>3. CASE promoter' = [promoter EXCEPT ![a].pc = "idle", ![a].todo = <<>>]
        BY <1>t, <2>1, <4>3
      <4> QED
        BY <4>1, <4>2, <4>3
    <3>3. CASE PromoteUpdate(a)
      BY <1>t, <2>1, <3>3 DEF PromoteUpdate
    <3> QED
      BY <1>5, <3>1, <3>2, <3>3
  <2>3. camp'.exists = camp.exists /\ camp'.len \in {camp.len, promoter[a].len}
    <3>1. CASE camp' = camp
      BY <3>1
    <3>2. CASE camp' = [camp EXCEPT !.state = "queued", !.len = promoter[a].len]
      BY <1>t, <3>2
    <3>3. camp' = camp \/ camp' = [camp EXCEPT !.state = "queued", !.len = promoter[a].len]
      BY <1>5 DEF ListRemaining, PromoteQueue, PromoteUpdate, CreateJob, CreateJobFails,
                  UpdateOTACampaign, store
    <3> QED
      BY <3>1, <3>2, <3>3
  <2>4. Covers(promoter[a].len) /\ creator.pc # "start"
    BY <2>1 DEF Covered
  <2> QED
    BY <2>1, <2>2, <2>3, <2>4 DEF Covered, Covers
<1>6. ASSUME NEW m \in inflight, CompleteJob(m) PROVE Covered'
  <2>1. camp'.exists = camp.exists /\ camp'.len = camp.len
    <3>1. camp' = camp \/ \E state : camp' = [camp EXCEPT !.state = state]
      BY <1>6 DEF CompleteJob
    <3> QED
      BY <1>t, <3>1
  <2> QED
    BY <1>1, <1>6, <2>1 DEF CompleteJob, handlers
<1>7. ASSUME NEW d \in Devices, DeleteDevice(d) PROVE Covered'
  <2>1. UNCHANGED <<creator, promoter>> /\ devices' \subseteq devices
    BY <1>7 DEF DeleteDevice, handlers
  <2>2. CASE camp.exists
    <3>1. Covers(camp.len) /\ creator.pc # "start"
      BY <2>2 DEF Covered
    <3>2. /\ camp'.exists => Covers(camp.len)'
          /\ \A n \in Nat : Covers(n) => \A e \in devices' \cap Asked : \E p \in 1..n : array'[p] = e
      BY <1>7, <2>2, <3>1, DeleteCovers DEF TInv
    <3>3. creator.len \in Nat /\ \A a \in Admins : promoter[a].len \in Nat
      BY <1>t
    <3>4. creator.pc \in {"queue", "abort"} => Covers(creator.len)'
      BY <2>1, <3>2, <3>3 DEF Covered, Covers
    <3>5. ASSUME NEW a \in Admins, promoter'[a].pc # "idle" PROVE Covers(promoter[a].len)'
      <4>1. Covers(promoter[a].len)
        BY <2>1, <3>5 DEF Covered
      <4> QED
        BY <2>1, <3>2, <3>3, <4>1 DEF Covers
    <3> QED
      BY <2>1, <3>1, <3>2, <3>4, <3>5 DEF Covered
  <2>3. CASE ~camp.exists
    <3>1. camp' = camp /\ array' = array
      BY <1>7, <2>3 DEF DeleteDevice
    <3> QED
      BY <2>1, <2>3, <3>1 DEF Covered, Covers
  <2> QED
    BY <2>2, <2>3
<1>8. CASE ServerRestart
  <2>1. /\ UNCHANGED <<devices, camp, array>>
        /\ creator'.pc \in {"start", "done"}
        /\ creator'.pc = "start" => creator.pc = "start"
        /\ \A a \in Admins : promoter'[a].pc = "idle"
    BY <1>8, <1>t DEF ServerRestart, store
  <2> QED
    BY <2>1 DEF Covered, Covers
<1>9. \/ UNCHANGED <<devices, camp, array, creator, promoter>>
      \/ CreateCampaign \/ CreatorQueue \/ CreatorUpdate \/ CreatorAbort \/ ServerRestart
      \/ \E a \in Admins : StartPromote(a) \/ ListRemaining(a) \/ PromoteQueue(a) \/ PromoteUpdate(a)
      \/ \E m \in inflight : CompleteJob(m)
      \/ \E d \in Devices : DeleteDevice(d)
  BY DEF Next, Creator, Promoter, NextJobForDevice, Report, Lose, AgentRestart,
         DeleteJob, Overdue, store, handlers, vars
<1> QED
  BY <1>1, <1>2, <1>3, <1>4, <1>5, <1>6, <1>7, <1>8, <1>9

\* A result completes the campaign when as many jobs have succeeded as there
\* are targets.  No two are of one device and none of a device that is not a
\* target, so every target has one.
LEMMA CompletedStep ==
  ASSUME CInv, NEW m \in inflight, CompleteJob(m), Targeted', Alone',
         camp'.exists, camp'.state = "completed", camp.state # "completed"
  PROVE  \A t \in ToSet(SubSeq(array', 1, camp'.len)) :
             \E i \in DOMAIN jobs' : jobs'[i].dev = t /\ jobs'[i].state = "succeeded"
<1> DEFINE here == {i \in DOMAIN jobs' : jobs'[i].state # "removed"}
           n == camp.len
           first == {array[p] : p \in 1..n}
<1>l. Len(Targets) \in Nat
  BY TargetsAssumption
<1>t. /\ camp \in [exists : BOOLEAN, state : CampaignStates, len : Nat]
      /\ array \in Seq(Devices) /\ n \in Nat /\ n <= Len(array) /\ Len(array) \in Nat
      /\ jobs \in Seq(Job)
  BY <1>l DEF CInv, TInv, TypeOK, Job
<1>1. /\ camp.exists /\ array' = array /\ devices' = devices /\ m.job \in Present
      /\ jobs' = [jobs EXCEPT ![m.job].state = m.state]
      /\ camp' = [camp EXCEPT !.state = campaignState(jobs')]
  <2>1. array' = array /\ devices' = devices /\ camp' # camp
    BY DEF CompleteJob
  <2>2. camp.exists /\ m.job \in Present
    BY <2>1 DEF CompleteJob
  <2> QED
    BY <2>1, <2>2 DEF CompleteJob
<1>2. camp'.len = n /\ campaignState(jobs') = "completed"
  BY <1>1, <1>t
<1>3. /\ here # {} /\ ~(Cardinality(here) < n)
      /\ \A i \in here : jobs'[i].state = "succeeded"
  BY <1>2 DEF campaignState
<1>4. IsFiniteSet(here) /\ Cardinality(here) \in Nat
  <2>1. Len(jobs) \in Nat /\ DOMAIN jobs' = 1..Len(jobs)
    BY <1>1, <1>t
  <2>2. here \in SUBSET (1..Len(jobs))
    BY <2>1
  <2> HIDE DEF here
  <2> QED
    BY <2>1, <2>2, PlacesFinite
<1>5. IsFiniteSet(first) /\ Cardinality(first) \in Nat /\ Cardinality(first) <= n
  <2>1. IsFiniteSet(1..n) /\ Cardinality(1..n) = n
    BY <1>t, UpTo
  <2> DEFINE At == [p \in 1..n |-> array[p]]
             N == 1..n
  <2>2. first = {At[p] : p \in N}
    OBVIOUS
  <2>3. At \in Surjection(N, first)
    BY <2>2, Fun_IsSurj
  <2> HIDE DEF At, first, N
  <2>4. IsFiniteSet(first) /\ Cardinality(first) <= Cardinality(N)
    BY <2>1, <2>3, FS_Surjection DEF N
  <2> QED
    BY <2>1, <2>4, FS_CardinalityType DEF N
<1> DEFINE dev == [i \in here |-> jobs'[i].dev]
<1>6. \A i \in here : dev[i] \in first
  <2> TAKE i \in here
  <2>1. jobs'[i].dev \in devices \cap Asked
    BY <1>1 DEF Targeted, Present
  <2>2. Covers(n)
    BY <1>1 DEF CInv, Covered
  <2> QED
    BY <2>1, <2>2 DEF Covers
<1>7. \A i, j \in here : dev[i] = dev[j] => i = j
  BY DEF Alone, Present
<1> HIDE DEF here, first
<1>8. dev \in Injection(here, first)
  <2>1. dev \in [here -> first]
    BY <1>6
  <2> HIDE DEF dev
  <2> QED
    BY <1>7, <2>1, Fun_IsInj
<1> HIDE DEF dev
<1>9. Cardinality(here) = Cardinality(first)
  <2>1. Cardinality(here) <= Cardinality(first)
    BY <1>5, <1>8, FS_Injection
  <2> QED
    BY <1>3, <1>4, <1>5, <1>t, <2>1
<1>10. dev \in Surjection(here, first)
  BY <1>5, <1>8, <1>9, FS_Injection
<1>11. \A t \in first : \E i \in here : dev[i] = t
  BY <1>10, Fun_SurjectionProperties
<1>12. ToSet(SubSeq(array', 1, camp'.len)) \subseteq first
  <2>1. SubSeq(array, 1, n) = [p \in 1..n |-> array[p]]
    BY <1>t
  <2>2. ToSet(SubSeq(array, 1, n)) = {SubSeq(array, 1, n)[p] : p \in 1..n}
    BY <2>1 DEF ToSet
  <2>3. ToSet(SubSeq(array, 1, n)) = first
    BY <2>1, <2>2 DEF first
  <2> QED
    BY <1>1, <1>2, <2>3
<1> QED
  BY <1>3, <1>11, <1>12 DEF dev, here

\* However removals of devices and jobs, creation, promotion and results
\* interleave, a campaign becomes "completed" only when each of its targets has
\* a job that succeeded, although CompleteJob compares only two numbers.
THEOREM CompletedIsCovered == Spec => CompletedCoversTargets
<1> DEFINE Done == camp'.exists /\ camp'.state = "completed" /\ camp.state # "completed" =>
                     \A t \in ToSet(SubSeq(array', 1, camp'.len)) :
                         \E i \in DOMAIN jobs' : jobs'[i].dev = t /\ jobs'[i].state = "succeeded"
<1>1. Init => CInv
  <2> SUFFICES ASSUME Init PROVE CInv
    OBVIOUS
  <2>1. Alone /\ Targeted
    BY DEF Init, Alone, Targeted, Present, Asked, ToSet
  <2>2. Covered
    BY DEF Init, Covered
  <2> QED
    BY <2>1, <2>2, InitTInv DEF CInv
<1>2. CInv /\ [Next]_vars => CInv'
  <2> SUFFICES ASSUME CInv, [Next]_vars PROVE CInv'
    OBVIOUS
  <2>1. Stored
    BY DEF CInv, TInv, TypeOK, Stored, Job, Results
  <2> QED
    BY <2>1, StepTInv, AloneStep, TargetedStep, CoveredStep DEF CInv
<1>3. CInv /\ [Next]_vars => Done
  <2> SUFFICES ASSUME CInv, [Next]_vars, camp'.exists, camp'.state = "completed", camp.state # "completed"
               PROVE  \A t \in ToSet(SubSeq(array', 1, camp'.len)) :
                         \E i \in DOMAIN jobs' : jobs'[i].dev = t /\ jobs'[i].state = "succeeded"
    OBVIOUS
  <2>t. camp \in [exists : BOOLEAN, state : CampaignStates, len : 0..Len(Targets)]
    BY DEF CInv, TInv, TypeOK
  <2>1. CASE \E m \in inflight : CompleteJob(m)
    <3>1. Targeted' /\ Alone'
      BY <1>2 DEF CInv
    <3> QED
      BY <2>1, <3>1, CompletedStep
  <2>2. ~CreateCampaign
    BY DEF CreateCampaign
  <2>3. ASSUME NEW state \in {"canary_queued", "queued", "failed"}, NEW len, UpdateOTACampaign(state, len)
        PROVE  FALSE
    BY <2>t, <2>3 DEF UpdateOTACampaign
  <2>4. ~CreatorUpdate /\ ~CreatorAbort /\ \A a \in Admins : ~PromoteUpdate(a)
    BY <2>3 DEF CreatorUpdate, CreatorAbort, PromoteUpdate
  <2>5. \A d \in Devices : ~DeleteDevice(d)
    BY <2>t DEF DeleteDevice
  <2>6. camp' # camp
    OBVIOUS
  <2>7. \/ camp' = camp \/ CreateCampaign \/ CreatorUpdate \/ CreatorAbort
        \/ \E a \in Admins : PromoteUpdate(a)
        \/ \E m \in inflight : CompleteJob(m)
        \/ \E d \in Devices : DeleteDevice(d)
    BY DEF Next, Creator, Promoter, CreatorQueue, StartPromote, ListRemaining, PromoteQueue,
           CreateJob, CreateJobFails, NextJobForDevice, Report, Lose, AgentRestart,
           DeleteJob, Overdue, ServerRestart, store, vars
  <2> QED
    BY <2>1, <2>2, <2>4, <2>5, <2>6, <2>7
<1>4. CInv /\ [Next]_vars => [Done]_vars
  BY <1>3
<1> QED
  BY <1>1, <1>2, <1>4, PTL DEF Spec, CompletedCoversTargets
=============================================================================
