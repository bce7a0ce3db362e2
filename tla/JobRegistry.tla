---------------------------- MODULE JobRegistry ----------------------------
(***************************************************************************)
(* How a device runs the jobs of the cloud: processNextJob of              *)
(* agent/internal/agent/agent.go polls for a job, Registry.Execute of      *)
(* agent/internal/jobs/jobs.go runs it and remembers its result in         *)
(* jobs.json (SaveJobState and LoadJobState of agent/internal/storage/     *)
(* store.go), and the result is posted to the cloud's CompleteJob.         *)
(*                                                                         *)
(* jobs.json is written in place: a crash or a full disk while it is       *)
(* written leaves it unreadable, and the next SaveJobState starts it anew, *)
(* as it does when the file cannot be read.                                *)
(***************************************************************************)
EXTENDS Naturals, FiniteSets

CONSTANTS
    Jobs,           \* the jobs queued for this device
    OtaJobs,        \* those of type ota_update: OtaEngine keeps their outcome
    Unsupported,    \* those without a handler, or that their handler refuses
    NoJob,          \* none of them
    MaxRuns,        \* bound: executions of each handler
    MaxInflight,    \* bound: results on their way to the cloud
    MaxFaults       \* bound: crashes, failed reads and failed writes

ASSUME JobsAssumption ==
    /\ NoJob \notin Jobs
    /\ OtaJobs \subseteq Jobs /\ Unsupported \subseteq Jobs
    /\ MaxRuns \in Nat \ {0} /\ MaxInflight \in Nat /\ MaxFaults \in Nat

VARIABLES
    cloud,      \* the state of each job in the cloud's store
    overdue,    \* the jobs whose ExpiresAt has passed
    file,       \* jobs.json as it was last written in full: a state for each job
    torn,       \* whether a later write was cut short: the file is unreadable
    pc, job, res,   \* where the agent is, the job it holds, its result
    inflight,   \* results that were posted and not yet handled
    runs,       \* executions of each job's handler
    done,       \* executions of each job's handler that succeeded
    faults

vars == <<cloud, overdue, file, torn, pc, job, res, inflight, runs, done, faults>>
disk == <<file, torn>>
agent == <<pc, job, res>>

Open == {"queued", "delivered", "running", "rebooting"}
Results == {"succeeded", "failed", "rebooting"}

Init ==
    /\ cloud = [j \in Jobs |-> "queued"] /\ overdue = {}
    /\ file = [j \in Jobs |-> "none"] /\ torn = FALSE
    /\ pc = "idle" /\ job = NoJob /\ res = "none"
    /\ inflight = {}
    /\ runs = [j \in Jobs |-> 0] /\ done = [j \in Jobs |-> 0]
    /\ faults = 0

-----------------------------------------------------------------------------
(* jobs.json.                                                              *)

\* LoadJobState finds a success; an unreadable file counts as none.
Remembered(j) == ~torn /\ file[j] = "succeeded"

Fault == faults < MaxFaults /\ faults' = faults + 1

NoEntries == [i \in Jobs |-> "none"]
Entries == IF torn THEN NoEntries ELSE file

\* Fault variant: the job's entry replaces the others.
Write_Alone(j, state, entries) == file' = [NoEntries EXCEPT ![j] = state] /\ torn' = FALSE

\* The entry of j is set and the file written back.
Write(j, state, entries) == file' = [entries EXCEPT ![j] = state] /\ torn' = FALSE

\* SaveJobState; its error is ignored by the caller.  The file may be
\* unreadable for once, and lose its other entries; it may not open, and stay
\* as it is; and the write may stop short.
SaveJobState(j, state) ==
    \/ Write(j, state, Entries) /\ UNCHANGED faults
    \/ /\ Fault
       /\ \/ Write(j, state, NoEntries)
          \/ UNCHANGED disk
          \/ torn' = TRUE /\ UNCHANGED file

-----------------------------------------------------------------------------
(* The agent.                                                              *)

\* NextJobForDevice: overdue jobs expire on the way to the one delivered.  The
\* answer may get lost.
Poll(j) ==
    /\ pc = "idle"
    /\ cloud[j] \in Open /\ j \notin overdue
    /\ \E S \in SUBSET {i \in overdue : cloud[i] \in Open} :
          cloud' = [i \in Jobs |-> IF i = j THEN "delivered" ELSE IF i \in S THEN "expired" ELSE cloud[i]]
    /\ \/ pc' = "got" /\ job' = j /\ res' = "none"
       \/ UNCHANGED agent
    /\ UNCHANGED <<overdue, disk, inflight, runs, done, faults>>

\* Nothing left but overdue jobs: they expire.
PollNothing ==
    LET open == {i \in Jobs : cloud[i] \in Open} IN
    /\ pc = "idle" /\ open # {} /\ open \subseteq overdue
    /\ cloud' = [i \in Jobs |-> IF i \in open THEN "expired" ELSE cloud[i]]
    /\ UNCHANGED <<overdue, disk, agent, inflight, runs, done, faults>>

Answer(r) == pc' = "post" /\ res' = r /\ UNCHANGED job

\* The answers of Execute that do not run the handler: the job expired, its
\* success is remembered, or nobody handles it.
AnswerEarly ==
    /\ pc = "got"
    /\ IF job \in overdue THEN Answer("failed")
       ELSE IF Remembered(job) THEN Answer("succeeded")
       ELSE job \in Unsupported /\ Answer("failed")
    /\ UNCHANGED <<cloud, overdue, disk, inflight, runs, done, faults>>

\* Execute finds no success, or cannot read the file, and goes on.
LookUp ==
    /\ pc = "got" /\ job \notin overdue \cup Unsupported
    /\ (~Remembered(job) /\ UNCHANGED faults) \/ Fault
    /\ pc' = "start" /\ UNCHANGED <<job, res>>
    /\ UNCHANGED <<cloud, overdue, disk, inflight, runs, done>>

SaveRunning ==
    /\ pc = "start"
    /\ SaveJobState(job, "running")
    /\ pc' = "run" /\ UNCHANGED <<job, res>>
    /\ UNCHANGED <<cloud, overdue, inflight, runs, done>>

\* The handler: it succeeds or fails; an update may ask for a reboot first.
\* An update that is decided (the journal of OtaEngine) is not done a second
\* time: the engine repeats its outcome, or refuses the call.
Handle(r) ==
    /\ pc = "run" /\ runs[job] < MaxRuns
    /\ r = "rebooting" => job \in OtaJobs
    /\ job \in OtaJobs /\ done[job] > 0 => r # "rebooting"
    /\ done' = IF r = "succeeded" /\ ~(job \in OtaJobs /\ done[job] > 0)
               THEN [done EXCEPT ![job] = @ + 1] ELSE done
    /\ runs' = [runs EXCEPT ![job] = @ + 1]
    /\ pc' = "ran" /\ res' = r /\ UNCHANGED job
    /\ UNCHANGED <<cloud, overdue, disk, inflight, faults>>

SaveResult ==
    /\ pc = "ran"
    /\ SaveJobState(job, res)
    /\ pc' = "post" /\ UNCHANGED <<job, res>>
    /\ UNCHANGED <<cloud, overdue, inflight, runs, done>>

\* Fault variant: the result of the last job stays behind.
Idle_KeepsResult == pc' = "idle" /\ job' = NoJob /\ UNCHANGED res

Idle == pc' = "idle" /\ job' = NoJob /\ res' = "none"

\* PostDeviceJSON: sent, or not; there is no second attempt.
Post ==
    /\ pc = "post"
    /\ \/ Cardinality(inflight) < MaxInflight /\ inflight' = inflight \cup {[job |-> job, state |-> res]}
       \/ UNCHANGED inflight
    /\ Idle
    /\ UNCHANGED <<cloud, overdue, disk, runs, done, faults>>

-----------------------------------------------------------------------------
(* The cloud, time and crashes.                                            *)

\* Fault variant: a result closes the job, whatever it says.
CompleteJob_Closes(m) ==
    /\ m \in inflight /\ inflight' = inflight \ {m}
    /\ cloud' = [cloud EXCEPT ![m.job] = IF m.state = "rebooting" THEN "succeeded" ELSE m.state]
    /\ UNCHANGED <<overdue, disk, agent, runs, done, faults>>

\* CompleteJob takes the result, whatever the job's state is.
CompleteJob(m) ==
    /\ m \in inflight /\ inflight' = inflight \ {m}
    /\ cloud' = [cloud EXCEPT ![m.job] = m.state]
    /\ UNCHANGED <<overdue, disk, agent, runs, done, faults>>

Expire(j) ==
    /\ j \notin overdue /\ overdue' = overdue \cup {j}
    /\ UNCHANGED <<cloud, disk, agent, inflight, runs, done, faults>>

\* The agent stops at any point, for instance in the reboot it asked for; it
\* may be writing jobs.json at that time.
Crash ==
    /\ pc # "idle" /\ Fault
    /\ torn' \in IF pc \in {"start", "ran"} THEN {torn, TRUE} ELSE {torn}
    /\ Idle
    /\ UNCHANGED <<cloud, overdue, file, inflight, runs, done>>

Next ==
    \/ \E j \in Jobs : Poll(j) \/ Expire(j)
    \/ PollNothing \/ AnswerEarly \/ LookUp \/ SaveRunning \/ SaveResult \/ Post \/ Crash
    \/ \E r \in Results : Handle(r)
    \/ \E m \in inflight : CompleteJob(m)

Spec == Init /\ [][Next]_vars

-----------------------------------------------------------------------------
(* What must hold.                                                         *)

\* Every variable has its type; the agent has a result just when it is to be
\* saved or posted.
TypeOK ==
    /\ cloud \in [Jobs -> Open \cup {"succeeded", "failed", "expired"}]
    /\ overdue \subseteq Jobs
    /\ file \in [Jobs -> Results \cup {"none", "running"}] /\ torn \in BOOLEAN
    /\ pc \in {"idle", "got", "start", "run", "ran", "post"}
    /\ job \in Jobs \cup {NoJob} /\ (job = NoJob <=> pc = "idle")
    /\ res \in Results \cup {"none"} /\ (res = "none" <=> pc \in {"idle", "got", "start", "run"})
    /\ inflight \subseteq [job : Jobs, state : Results]
    /\ runs \in [Jobs -> 0..MaxRuns] /\ done \in [Jobs -> 0..MaxRuns]
    /\ faults \in 0..MaxFaults

\* The cloud shows a job as succeeded only if its handler did succeed on the
\* device, through redelivery, late results, crashes and a damaged jobs.json.
SuccessIsReal == \A j \in Jobs : cloud[j] = "succeeded" => done[j] > 0

\* "Completed successful jobs are persisted and are not silently rerun after
\* reconnect": as long as no crash or write error intervenes, a handler does
\* not run again after it succeeded, however often results get lost and the
\* job is delivered again.
NotRerunAfterReconnect ==
    [][\A j \in Jobs : faults = 0 /\ done[j] > 0 => runs'[j] = runs[j]]_vars

-----------------------------------------------------------------------------
(* What the documents say and the code does not do.                        *)

\* JOB_STATE_MACHINE.md: "Completed successful jobs are persisted and are not
\* silently rerun after reconnect or restart": a job whose success was
\* written to jobs.json is not started again, unless the read of the file fails
\* at that moment.
NotRerunAfterRestart ==
    [][pc = "got" /\ file[job] = "succeeded" /\ UNCHANGED faults => pc' # "start"]_vars
=============================================================================
