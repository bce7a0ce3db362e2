-------------------------- MODULE AssistantActions --------------------------
(***************************************************************************)
(* The AI assistant's requests and approvals                               *)
(* (cloud-infra/internal/server/assistant.go): a user's chat is let        *)
(* through by the request limit (Service.Allow), the model's proposals     *)
(* become sealed approvals, and an approval that is sent back queues a     *)
(* device job in the store.                                                *)
(*                                                                         *)
(* One organization, whose connection works (see AssistantConfig).         *)
(***************************************************************************)
EXTENDS Naturals, Sequences, FiniteSets

CONSTANTS
    Users,          \* the members of the organization
    Can,            \* the permissions of each user, see RolePermissions
    Devices,
    Reports,        \* the sets of capabilities that inventories name
    Minute,         \* the window of the request limit
    Limit,          \* AIRequestsPerMinute
    Lifetime,       \* how long an approval is valid (10 minutes)
    MaxTime, MaxCalls, MaxTokens, MaxJobs, MaxInflight, MaxStops   \* bounds

Permissions == {"command", "reboot"}
\* One of the three collecting jobs stands for all of them.
JobTypes == {"collect_logs", "scan_vulnerabilities", "reboot"}
JobCapability == [type \in JobTypes |->
    CASE type = "collect_logs" -> "job:collect_logs"
      [] type = "scan_vulnerabilities" -> "job:scan_vulnerabilities"
      [] type = "reboot" -> "job:reboot"]
Capabilities == {"jobs", "security:trivy"} \cup {JobCapability[type] : type \in JobTypes}

ASSUME ActionsAssumption ==
    /\ Can \in [Users -> SUBSET Permissions] /\ Reports \subseteq SUBSET Capabilities
    /\ Minute \in Nat \ {0} /\ Limit \in Nat \ {0} /\ Lifetime \in Nat
ASSUME ActionsBounds == {MaxTime, MaxCalls, MaxTokens, MaxJobs, MaxInflight, MaxStops} \subseteq Nat

VARIABLES
    times,      \* Service.requestTimes
    calls,      \* when requests were let through since the server started
    asking,     \* the users whose chat waits for the provider
    now,
    caps,       \* the devices in the store, with the capabilities they reported
    tokens,     \* the approvals handed to users
    approving,  \* how many aiAction requests have passed the checks with each token
    jobs,       \* the jobs ever queued for approvals
    stops       \* restarts of the server

vars == <<times, calls, asking, now, caps, tokens, approving, jobs, stops>>
limiter == <<times, calls>>
store == <<caps, jobs>>
approvals == <<tokens, approving>>

Init ==
    /\ times = [u \in Users |-> <<>>] /\ calls = [u \in Users |-> <<>>] /\ asking = {}
    /\ now = 0
    /\ caps = [d \in Devices |-> {"jobs"}]
    /\ tokens = <<>> /\ approving = <<>> /\ jobs = <<>>
    /\ stops = 0

-----------------------------------------------------------------------------
(* The request limit and the call of the provider.                         *)

\* The places of s that hold a time of the last minute.
Current(s) == {i \in DOMAIN s : s[i] + Minute > now}

\* What s holds at these places, in its order.
Filtered(s, places) ==
    LET Place(n) == CHOOSE i \in places : Cardinality({j \in places : j < i}) = n - 1
    IN  [n \in 1..Cardinality(places) |-> s[Place(n)]]

\* The request times that Allow keeps.
Recent(u) == Filtered(times[u], Current(times[u]))

\* Fault variant: a refused request is noted as well.
Allow_NotesRefused(u) ==
    /\ times' = [times EXCEPT ![u] = Append(Recent(u), now)]
    /\ calls' = [calls EXCEPT ![u] = IF Len(Recent(u)) < Limit THEN Append(@, now) ELSE @]

\* A request that is let through is added to the list.
Allow(u) ==
    /\ times' = [times EXCEPT ![u] = IF Len(Recent(u)) < Limit THEN Append(Recent(u), now) ELSE Recent(u)]
    /\ calls' = [calls EXCEPT ![u] = IF Len(Recent(u)) < Limit THEN Append(@, now) ELSE @]

\* aiChat up to the call of the provider, or aiTest; a request that finds no
\* connection has counted all the same.
Ask(u) ==
    /\ u \notin asking /\ Len(calls[u]) < MaxCalls
    /\ Allow(u)
    /\ asking' \in {asking, IF calls'[u] # calls[u] THEN asking \cup {u} ELSE asking}
    /\ UNCHANGED <<now, store, approvals, stops>>

-----------------------------------------------------------------------------
(* Proposals and approvals.                                                *)

\* aiJobPermission.
PermissionFor(type) == IF type = "reboot" THEN "reboot" ELSE "command"

\* deviceSupportsAIJob: "jobs" stands for the collecting jobs only.
Supports(d, type) ==
    \/ JobCapability[type] \in caps[d]
    \/ type = "scan_vulnerabilities" /\ "security:trivy" \in caps[d]
    \/ type = "collect_logs" /\ "jobs" \in caps[d]

\* The user may, and GetDevice finds a device that can.
Possible(u, d, type) ==
    /\ PermissionFor(type) \in Can[u]
    /\ d \in DOMAIN caps /\ Supports(d, type)

\* The provider has answered, failed or timed out.  prepareAIActions hands out
\* an approval for a proposal that is possible now; the model may propose
\* anything.
Answer(u) ==
    /\ u \in asking /\ asking' = asking \ {u}
    /\ \/ UNCHANGED approvals
       \/ /\ Len(tokens) < MaxTokens
          /\ \E d \in Devices, type \in JobTypes :
                /\ Possible(u, d, type)
                /\ tokens' = Append(tokens, [user |-> u, dev |-> d, type |-> type, expires |-> now + Lifetime])
          /\ approving' = Append(approving, 0)
    /\ UNCHANGED <<limiter, now, store, stops>>

\* aiAction up to CreateJob: u sends token t, for the first time or again.
Approve(u, t) ==
    /\ tokens[t].user = u /\ now <= tokens[t].expires
    /\ Possible(u, tokens[t].dev, tokens[t].type)
    /\ approving[t] < MaxInflight /\ approving' = [approving EXCEPT ![t] = @ + 1]
    /\ UNCHANGED <<limiter, asking, now, store, tokens, stops>>

JobsOf(t) == {i \in DOMAIN jobs : jobs[i].token = t /\ jobs[i].state # "removed"}
NewJob(t) == [token |-> t, dev |-> tokens[t].dev, state |-> "queued"]

\* Fault variant: the job's key is made from its ID, not from the approval.
CreateJob_OwnKey(t) ==
    jobs' = IF tokens[t].dev \in DOMAIN caps THEN Append(jobs, NewJob(t)) ELSE jobs

\* Fault variant: the handler's device is taken for the one in the store.
CreateJob_NoDevice(t) ==
    jobs' = IF JobsOf(t) = {} THEN Append(jobs, NewJob(t)) ELSE jobs

\* CreateJob: the device must (still) be there; the digest of the token is the
\* idempotency key, so an approval that has a job gets that job.
CreateJob(t) ==
    jobs' = IF tokens[t].dev \in DOMAIN caps /\ JobsOf(t) = {} THEN Append(jobs, NewJob(t)) ELSE jobs

QueueAction(t) ==
    /\ approving[t] > 0 /\ approving' = [approving EXCEPT ![t] = @ - 1]
    /\ Len(jobs) < MaxJobs /\ CreateJob(t)
    /\ UNCHANGED <<limiter, asking, now, caps, tokens, stops>>

-----------------------------------------------------------------------------
(* What else changes the store; time and restarts.                         *)

\* The device reports a result, or the job expires (see Campaign).
JobEnds(i) ==
    /\ jobs[i].state = "queued"
    /\ jobs' = [jobs EXCEPT ![i].state = "ended"]
    /\ UNCHANGED <<limiter, asking, now, caps, approvals, stops>>

\* An administrator removes the job from the history.
DeleteJob(i) ==
    /\ jobs[i].state = "ended"
    /\ jobs' = [jobs EXCEPT ![i].state = "removed"]
    /\ UNCHANGED <<limiter, asking, now, caps, approvals, stops>>

\* The inventory names the device's capabilities, unless the list is empty.
Inventory(d, new) ==
    /\ d \in DOMAIN caps /\ new # {}
    /\ caps' = [caps EXCEPT ![d] = new]
    /\ UNCHANGED <<limiter, asking, now, approvals, jobs, stops>>

\* The device goes, and its jobs with it.
DeleteDevice(d) ==
    /\ d \in DOMAIN caps
    /\ caps' = [e \in DOMAIN caps \ {d} |-> caps[e]]
    /\ jobs' = [i \in DOMAIN jobs |-> IF jobs[i].dev = d THEN [jobs[i] EXCEPT !.state = "removed"] ELSE jobs[i]]
    /\ UNCHANGED <<limiter, asking, now, approvals, stops>>

Tick ==
    /\ now < MaxTime /\ now' = now + 1
    /\ UNCHANGED <<limiter, asking, store, approvals, stops>>

\* The server restarts: its requests and its request times are gone, the
\* store and the approvals of the users are not.
Restart ==
    /\ stops < MaxStops /\ stops' = stops + 1
    /\ times' = [u \in Users |-> <<>>] /\ calls' = [u \in Users |-> <<>>] /\ asking' = {}
    /\ approving' = [t \in DOMAIN tokens |-> 0]
    /\ UNCHANGED <<now, store, tokens>>

-----------------------------------------------------------------------------
Next ==
    \/ \E u \in Users : Ask(u) \/ Answer(u)
    \/ \E u \in Users, t \in DOMAIN tokens : Approve(u, t)
    \/ \E t \in DOMAIN tokens : QueueAction(t)
    \/ \E i \in DOMAIN jobs : JobEnds(i) \/ DeleteJob(i)
    \/ \E d \in Devices : DeleteDevice(d)
    \/ \E d \in Devices, new \in Reports : Inventory(d, new)
    \/ Tick \/ Restart

Spec == Init /\ [][Next]_vars

-----------------------------------------------------------------------------
(* What must hold.                                                         *)

Token == [user : Users, dev : Devices, type : JobTypes, expires : Nat]
\* Every variable has its type, and no list of request times outgrows the
\* limit.
TypeOK ==
    /\ times \in [Users -> Seq(Nat)] /\ \A u \in Users : Len(times[u]) <= Limit
    /\ calls \in [Users -> Seq(Nat)] /\ asking \subseteq Users
    /\ now \in 0..MaxTime /\ stops \in 0..MaxStops
    /\ DOMAIN caps \subseteq Devices /\ caps \in [DOMAIN caps -> SUBSET Capabilities]
    /\ tokens \in Seq(Token) /\ Len(tokens) <= MaxTokens
    /\ approving \in [DOMAIN tokens -> 0..MaxInflight]
    /\ jobs \in Seq([token : 1..Len(tokens), dev : Devices, state : {"queued", "ended", "removed"}])

\* The limit is exact: a user is refused if and only if Limit requests were
\* let through within the last minute.  Refused requests and the pruning of
\* the list change nothing.
LimitIsExact ==
    \A u \in Users : Len(Recent(u)) >= Limit <=> Cardinality(Current(calls[u])) >= Limit

\* "Replaying the same approval returns the same job": as long as its job is
\* in the history, an approval has no other one, even if it is sent twice at
\* once, or again after a restart.
OneJobPerApproval == \A t \in DOMAIN tokens : Cardinality(JobsOf(t)) <= 1

\* No job waits for a device that was removed while its approval was checked.
JobsHaveDevices == \A i \in DOMAIN jobs : jobs[i].state = "removed" \/ jobs[i].dev \in DOMAIN caps
=============================================================================
