------------------------- MODULE JobRegistryProofs -------------------------
(* Proofs about JobRegistry, for any set of jobs and any bounds.           *)
EXTENDS JobRegistry, TLAPS

\* A handler does not succeed more often than it runs.
RunsCounted == \A j \in Jobs : done[j] <= runs[j]

\* Wherever a success is noted - by the agent, in jobs.json, in a result on
\* its way, in the cloud - the handler has succeeded.
SuccessWitnessed ==
    /\ \A j \in Jobs : file[j] = "succeeded" => done[j] > 0
    /\ res = "succeeded" => done[job] > 0
    /\ \A m \in inflight : m.state = "succeeded" => done[m.job] > 0
    /\ SuccessIsReal

\* Without faults, a success is in jobs.json or about to be written there,
\* and the handler that runs has not succeeded before.
SuccessSaved ==
    faults = 0 =>
        /\ ~torn
        /\ \A j \in Jobs : done[j] > 0 => file[j] = "succeeded" \/ (pc = "ran" /\ job = j /\ res = "succeeded")
        /\ pc \in {"start", "run"} => done[job] = 0
        /\ pc = "ran" /\ done[job] > 0 => res = "succeeded"

IInv == TypeOK /\ RunsCounted /\ SuccessWitnessed /\ SuccessSaved

\* The initial state has the types, and no success.
LEMMA InitHolds == Init => IInv
  <1> SUFFICES ASSUME Init PROVE IInv
    OBVIOUS
  <1> USE JobsAssumption DEF Init
  <1>1. TypeOK
    <2>1. 0 \in 0..MaxRuns /\ 0 \in 0..MaxFaults /\ overdue \subseteq Jobs
      OBVIOUS
    <2>2. torn \in BOOLEAN
      OBVIOUS
    <2>3. cloud \in [Jobs -> Open \cup {"succeeded", "failed", "expired"}]
      BY DEF Open
    <2>4. file \in [Jobs -> Results \cup {"none", "running"}]
      OBVIOUS
    <2>5. runs \in [Jobs -> 0..MaxRuns] /\ done \in [Jobs -> 0..MaxRuns]
      BY <2>1
    <2>6. inflight \subseteq [job : Jobs, state : Results]
      OBVIOUS
    <2> QED
      BY <2>1, <2>2, <2>3, <2>4, <2>5, <2>6 DEF TypeOK
  <1>2. RunsCounted
    BY DEF RunsCounted
  <1>3. SuccessWitnessed
    BY DEF SuccessWitnessed, SuccessIsReal
  <1>4. SuccessSaved
    BY DEF SuccessSaved
  <1> QED
    BY <1>1, <1>2, <1>3, <1>4 DEF IInv

\* Saving a state keeps the type of jobs.json and leaves the rest alone.
LEMMA SaveType ==
  ASSUME TypeOK, NEW j \in Jobs, NEW state \in Results \cup {"running"}, SaveJobState(j, state)
  PROVE  /\ file' \in [Jobs -> Results \cup {"none", "running"}]
         /\ torn' \in BOOLEAN
         /\ faults' \in 0..MaxFaults
  <1> USE JobsAssumption DEF TypeOK
  <1>1. {Entries, NoEntries} \subseteq [Jobs -> Results \cup {"none", "running"}]
    BY DEF Entries, NoEntries
  <1>2. ASSUME NEW entries \in {Entries, NoEntries}, Write(j, state, entries)
        PROVE  file' \in [Jobs -> Results \cup {"none", "running"}] /\ torn' \in BOOLEAN
    BY <1>1, <1>2 DEF Write
  <1>3. ASSUME UNCHANGED file, torn' \in BOOLEAN
        PROVE  file' \in [Jobs -> Results \cup {"none", "running"}] /\ torn' \in BOOLEAN
    BY <1>3
  <1>4. faults' \in 0..MaxFaults
    BY DEF SaveJobState, Fault
  <1>5. \/ \E entries \in {Entries, NoEntries} : Write(j, state, entries)
        \/ UNCHANGED file /\ torn' \in BOOLEAN
    BY DEF SaveJobState, disk
  <1> QED
    BY <1>2, <1>3, <1>4, <1>5

\* Every step keeps the types.
LEMMA TypeStep == TypeOK /\ RunsCounted /\ [Next]_vars => TypeOK' /\ RunsCounted'
  <1> SUFFICES ASSUME TypeOK, RunsCounted, [Next]_vars PROVE TypeOK' /\ RunsCounted'
    OBVIOUS
  <1> USE JobsAssumption DEF TypeOK, RunsCounted, Open, Results
  <1>1. ASSUME NEW j \in Jobs, Poll(j) PROVE TypeOK' /\ RunsCounted'
    BY <1>1 DEF Poll, disk, agent
  <1>2. CASE PollNothing
    BY <1>2 DEF PollNothing, disk, agent
  <1>3. CASE AnswerEarly
    BY <1>3 DEF AnswerEarly, Answer, disk
  <1>4. CASE SaveRunning
    <2>1. job \in Jobs /\ SaveJobState(job, "running")
      BY <1>4 DEF SaveRunning
    <2>2. file' \in [Jobs -> Results \cup {"none", "running"}] /\ torn' \in BOOLEAN /\ faults' \in 0..MaxFaults
      BY <2>1, SaveType
    <2> QED
      BY <1>4, <2>2 DEF SaveRunning
  <1>5. ASSUME NEW r \in Results, Handle(r) PROVE TypeOK' /\ RunsCounted'
    BY <1>5 DEF Handle, disk
  <1>6. CASE SaveResult
    <2>1. job \in Jobs /\ res \in Results /\ SaveJobState(job, res)
      BY <1>6 DEF SaveResult
    <2>2. file' \in [Jobs -> Results \cup {"none", "running"}] /\ torn' \in BOOLEAN /\ faults' \in 0..MaxFaults
      BY <2>1, SaveType
    <2> QED
      BY <1>6, <2>2 DEF SaveResult
  <1>7. CASE Post
    BY <1>7 DEF Post, Idle, disk
  <1>8. ASSUME NEW m \in inflight, CompleteJob(m) PROVE TypeOK' /\ RunsCounted'
    BY <1>8 DEF CompleteJob, disk, agent
  <1>9. ASSUME NEW j \in Jobs, Expire(j) PROVE TypeOK' /\ RunsCounted'
    BY <1>9 DEF Expire, disk, agent
  <1>10. CASE Crash
    <2>1. torn' \in BOOLEAN
      BY <1>10 DEF Crash
    <2>2. faults' \in 0..MaxFaults
      BY <1>10 DEF Crash, Fault
    <2> QED
      BY <1>10, <2>1, <2>2 DEF Crash, Idle
  <1>11. CASE UNCHANGED vars
    BY <1>11 DEF vars
  <1>12. CASE LookUp
    BY <1>12 DEF LookUp, Fault, disk
  <1> QED
    BY <1>1, <1>2, <1>3, <1>4, <1>5, <1>6, <1>7, <1>8, <1>9, <1>10, <1>11, <1>12 DEF Next

\* A success is only ever noted after the handler succeeded or copied from
\* a place where it was noted before.
LEMMA WitnessStep == TypeOK /\ SuccessWitnessed /\ [Next]_vars => SuccessWitnessed'
  <1> SUFFICES ASSUME TypeOK, SuccessWitnessed, [Next]_vars PROVE SuccessWitnessed'
    OBVIOUS
  <1> USE JobsAssumption DEF TypeOK, SuccessWitnessed, SuccessIsReal, Open, Results
  <1>1. ASSUME NEW j \in Jobs, Poll(j) PROVE SuccessWitnessed'
    BY <1>1 DEF Poll, disk, agent
  <1>2. CASE PollNothing
    BY <1>2 DEF PollNothing, disk, agent
  <1>3. CASE AnswerEarly
    BY <1>3 DEF AnswerEarly, Answer, Remembered, disk
  <1>4. CASE SaveRunning
    BY <1>4 DEF SaveRunning, SaveJobState, Write, Entries, NoEntries, disk
  <1>5. ASSUME NEW r \in Results, Handle(r) PROVE SuccessWitnessed'
    BY <1>5 DEF Handle, disk
  <1>6. CASE SaveResult
    BY <1>6 DEF SaveResult, SaveJobState, Write, Entries, NoEntries, disk
  <1>7. CASE Post
    BY <1>7 DEF Post, Idle, disk
  <1>8. ASSUME NEW m \in inflight, CompleteJob(m) PROVE SuccessWitnessed'
    BY <1>8 DEF CompleteJob, disk, agent
  <1>9. ASSUME NEW j \in Jobs, Expire(j) PROVE SuccessWitnessed'
    BY <1>9 DEF Expire, disk, agent
  <1>10. CASE Crash
    BY <1>10 DEF Crash, Idle
  <1>11. CASE UNCHANGED vars
    BY <1>11 DEF vars
  <1>12. CASE LookUp
    BY <1>12 DEF LookUp, disk
  <1> QED
    BY <1>1, <1>2, <1>3, <1>4, <1>5, <1>6, <1>7, <1>8, <1>9, <1>10, <1>11, <1>12 DEF Next

\* Without faults a success is saved before the agent goes on.
LEMMA SavedStep == TypeOK /\ SuccessSaved /\ [Next]_vars => SuccessSaved'
  <1> SUFFICES ASSUME TypeOK, SuccessSaved, [Next]_vars, faults' = 0 PROVE SuccessSaved'
    BY DEF SuccessSaved
  <1> USE JobsAssumption DEF TypeOK, SuccessSaved, Open, Results
  <1>1. ASSUME NEW j \in Jobs, Poll(j) PROVE SuccessSaved'
    BY <1>1 DEF Poll, disk, agent
  <1>2. CASE PollNothing
    BY <1>2 DEF PollNothing, disk, agent
  <1>3. CASE AnswerEarly
    BY <1>3 DEF AnswerEarly, Answer, disk
  <1>4. CASE SaveRunning
    BY <1>4 DEF SaveRunning, SaveJobState, Fault, Write, Entries, disk
  <1>5. ASSUME NEW r \in Results, Handle(r) PROVE SuccessSaved'
    BY <1>5 DEF Handle, disk
  <1>6. CASE SaveResult
    <2>1. Write(job, res, file) /\ UNCHANGED faults
      BY <1>6 DEF SaveResult, SaveJobState, Fault, Entries
    <2>2. pc = "ran" /\ pc' = "post" /\ job \in Jobs /\ UNCHANGED done
      BY <1>6 DEF SaveResult
    <2>3. ~torn' /\ file' = [i \in Jobs |-> IF i = job THEN res ELSE file[i]]
      BY <2>1 DEF Write
    <2>4. ASSUME NEW j \in Jobs, done[j] > 0 PROVE file'[j] = "succeeded"
      <3>1. file[j] = "succeeded" \/ (job = j /\ res = "succeeded")
        BY <2>1, <2>4
      <3>2. j = job => res = "succeeded"
        BY <2>1, <2>2, <2>4
      <3> QED
        BY <3>1, <3>2, <2>3
    <2> QED
      BY <2>1, <2>2, <2>3, <2>4
  <1>7. CASE Post
    BY <1>7 DEF Post, Idle, disk
  <1>8. ASSUME NEW m \in inflight, CompleteJob(m) PROVE SuccessSaved'
    BY <1>8 DEF CompleteJob, disk, agent
  <1>9. ASSUME NEW j \in Jobs, Expire(j) PROVE SuccessSaved'
    BY <1>9 DEF Expire, disk, agent
  <1>10. CASE Crash
    BY <1>10 DEF Crash, Fault, Idle
  <1>11. CASE UNCHANGED vars
    BY <1>11 DEF vars
  <1>12. CASE LookUp
    BY <1>12 DEF LookUp, Fault, Remembered, disk
  <1> QED
    BY <1>1, <1>2, <1>3, <1>4, <1>5, <1>6, <1>7, <1>8, <1>9, <1>10, <1>11, <1>12 DEF Next

\* The invariant holds in every state.
LEMMA Inductive == Spec => []IInv
  <1>1. IInv /\ [Next]_vars => IInv'
    BY TypeStep, WitnessStep, SavedStep DEF IInv
  <1> QED
    BY InitHolds, <1>1, PTL DEF Spec

\* Every variable keeps its type.
THEOREM JobTypes == Spec => []TypeOK
  BY Inductive, PTL DEF IInv

\* The cloud never shows a success that did not happen on the device,
\* whatever is lost, repeated, late or damaged.
THEOREM SuccessReal == Spec => []SuccessIsReal
  <1>1. IInv => SuccessIsReal
    BY DEF IInv, SuccessWitnessed
  <1> QED
    BY Inductive, <1>1, PTL

\* Without crashes and write errors no handler runs after it succeeded.
THEOREM NoRerun == Spec => NotRerunAfterReconnect
  <1> DEFINE Kept == \A j \in Jobs : faults = 0 /\ done[j] > 0 => runs'[j] = runs[j]
  <1>1. IInv /\ [Next]_vars => [Kept]_vars
    <2> SUFFICES ASSUME IInv, [Next]_vars PROVE Kept \/ UNCHANGED vars
      OBVIOUS
    <2> USE DEF IInv, TypeOK, SuccessSaved, Open, Results
    <2>1. ASSUME NEW r \in Results, Handle(r) PROVE Kept
      BY <2>1 DEF Handle
    <2>2. CASE UNCHANGED runs
      BY <2>2
    <2>3. CASE UNCHANGED vars
      BY <2>3
    <2>4. (\E r \in Results : Handle(r)) \/ UNCHANGED runs \/ UNCHANGED vars
      BY DEF Next, Poll, PollNothing, AnswerEarly, LookUp, SaveRunning, SaveResult, Post, CompleteJob, Expire, Crash
    <2> QED
      BY <2>1, <2>2, <2>3, <2>4
  <1> QED
    BY Inductive, <1>1, PTL DEF Spec, NotRerunAfterReconnect
=============================================================================
