----------------------------- MODULE Enrollment -----------------------------
(***************************************************************************)
(* How a device gets its identity: the one-time tokens and the device      *)
(* records of the cloud (cloud-infra/internal/enrollment/enrollment.go and *)
(* cloud-infra/internal/storage/store.go), and edge-agentctl on the device *)
(* (agent/internal/enrollment/enrollment.go, agent/internal/identity).     *)
(*                                                                         *)
(* The store keeps its data in memory and writes all of it to one file at  *)
(* every change; when the write fails the change stays in memory.  The     *)
(* device keeps its identity in separate files written one by one.  The CA *)
(* certificate is the same in every answer and is left out.                *)
(***************************************************************************)
EXTENDS Naturals, FiniteSets

CONSTANTS
    Agents,         \* the devices
    Tokens,         \* the enrollment tokens
    TenantOf,       \* the tenant of each token
    Writers,        \* heartbeat, inventory and PATCH requests under way
    MaxRequests,    \* bound: enrollment requests
    MaxFaults       \* bound: crashes and failed writes

ASSUME EnrollmentAssumption ==
    /\ IsFiniteSet(Agents) /\ IsFiniteSet(Tokens)
    /\ TenantOf \in [Tokens -> Nat \ {0}]
    /\ MaxRequests \in Nat /\ MaxFaults \in Nat

VARIABLES
    mem, file,  \* the store in memory and on disk: unused tokens, used ones, devices
    request,    \* the enrollment requests, each with its handler's progress
    writer,     \* the copy of a device record that a handler works on (0: none)
    client,     \* edge-agentctl on each device
    disk,       \* the identity files of each device (0: empty or missing)
    issued,     \* every device record ever created: its token and its device
    doomed,     \* the IDs whose removal was asked for
    removed,    \* the IDs whose removal was confirmed
    faults

vars == <<mem, file, request, writer, client, disk, issued, doomed, removed, faults>>
store == <<mem, file>>
edge == <<client, disk>>
history == <<issued, doomed, removed>>

Requests == 1..MaxRequests
Ids == 1..MaxRequests
Tenants == {TenantOf[t] : t \in Tokens}
Record == [id : Ids, tenant : Tenants]
Unsent == [agent |-> 0, token |-> 0, pc |-> "unsent", id |-> 0]

Init ==
    /\ mem = [free |-> {}, spent |-> {}, devs |-> {}] /\ file = mem
    /\ request = [r \in Requests |-> Unsent]
    /\ writer = [w \in Writers |-> 0]
    /\ client = [a \in Agents |-> [pc |-> "idle", req |-> 0]]
    /\ disk = [a \in Agents |-> [device |-> 0, tenant |-> 0, cert |-> 0, key |-> "none"]]
    /\ issued = {} /\ doomed = {} /\ removed = {}
    /\ faults = 0

Fault == faults < MaxFaults /\ faults' = faults + 1

-----------------------------------------------------------------------------
(* The store.                                                              *)

\* Fault variant: the error of the write is swallowed.
Stored_Anyway(s) == mem' = s /\ file' \in {file, s} /\ UNCHANGED faults

\* saveLocked succeeds: the file is replaced as a whole; or it fails.
Stored(s) == mem' = s /\ file' = s /\ UNCHANGED faults
NotStored(s) == mem' = s /\ UNCHANGED file /\ Fault

\* Fault variant: the count is raised in the loop's copy of the token only.
Spend_Copy(t) == mem

\* ConsumeEnrollmentToken raises UsedCount to MaxDevices, which is 1.
Spend(t) == [mem EXCEPT !.free = @ \ {t}, !.spent = @ \cup {t}]

\* Fault variant: IDs are numbered by the devices there are.
NewID_Counts == Cardinality(mem.devs) + 1

\* NewID: an ID that was never given.
NewID == Cardinality(issued) + 1

\* Fault variant: the record is written without a look at the stored one.
UpdateDevice_Upserts(rec) ==
    <<TRUE, [mem EXCEPT !.devs = {d \in @ : d.id # rec.id} \cup {rec}]>>

\* UpdateDevice: whether the record is still there, and the new store.
UpdateDevice(rec) ==
    <<\E d \in mem.devs : d.id = rec.id /\ d.tenant = rec.tenant,
      [mem EXCEPT !.devs = {d \in @ : d.id # rec.id} \cup {rec}]>>

-----------------------------------------------------------------------------
(* The cloud.                                                              *)

\* NewToken; a token whose save fails is never shown to anybody.
NewToken(t) ==
    /\ t \notin mem.free \cup mem.spent
    /\ Stored([mem EXCEPT !.free = @ \cup {t}])
    /\ UNCHANGED <<request, writer, edge, history>>

Moves(r, pc) == request' = [request EXCEPT ![r].pc = pc]

\* The token is looked up and used up.  It may also be refused: it expired
\* or is meant for another serial number or product.
Consume(r) ==
    /\ request[r].pc = "consume"
    /\ LET t == request[r].token IN
       \/ t \in mem.free /\ Stored(Spend(t)) /\ Moves(r, "create")
       \/ t \in mem.free /\ NotStored(Spend(t)) /\ Moves(r, "rejected")
       \/ Moves(r, "rejected") /\ UNCHANGED <<store, faults>>
    /\ UNCHANGED <<writer, edge, history>>

\* CreateDevice.
Create(r) ==
    /\ request[r].pc = "create"
    /\ LET rec == [id |-> NewID, tenant |-> TenantOf[request[r].token]]
           s == [mem EXCEPT !.devs = @ \cup {rec}] IN
       /\ \/ Stored(s) /\ request' = [request EXCEPT ![r].pc = "update", ![r].id = rec.id]
          \/ NotStored(s) /\ Moves(r, "rejected")
       /\ issued' = issued \cup {[id |-> rec.id, token |-> request[r].token, agent |-> request[r].agent]}
    /\ UNCHANGED <<writer, edge, doomed, removed>>

\* IssueDeviceCertificate, which may fail, and UpdateDevice.
Certify(r) ==
    /\ request[r].pc = "update"
    /\ LET new == UpdateDevice([id |-> request[r].id, tenant |-> TenantOf[request[r].token]]) IN
       \/ new[1] /\ Stored(new[2]) /\ Moves(r, "reply")
       \/ new[1] /\ NotStored(new[2]) /\ Moves(r, "rejected")
       \/ Moves(r, "rejected") /\ UNCHANGED <<store, faults>>
    /\ UNCHANGED <<writer, edge, history>>

\* deviceHeartbeat, deviceInventory and the PATCH of a device: GetDevice, some
\* fields changed in the copy, UpdateDevice.
ReadRecord(w) ==
    /\ writer[w] = 0
    /\ \E rec \in mem.devs : writer' = [writer EXCEPT ![w] = rec.id]
    /\ UNCHANGED <<store, request, edge, history, faults>>

WriteRecord(w) ==
    /\ writer[w] # 0
    /\ \E x \in issued :
          /\ x.id = writer[w]
          /\ LET new == UpdateDevice([id |-> x.id, tenant |-> TenantOf[x.token]]) IN
             IF new[1] THEN Stored(new[2]) \/ NotStored(new[2]) ELSE UNCHANGED <<store, faults>>
    /\ writer' = [writer EXCEPT ![w] = 0]
    /\ UNCHANGED <<request, edge, history>>

\* DeleteDevice; the operator is told whether the file was written.
DeleteDevice(rec) ==
    LET s == [mem EXCEPT !.devs = @ \ {rec}] IN
    /\ rec \in mem.devs
    /\ doomed' = doomed \cup {rec.id}
    /\ \/ Stored(s) /\ removed' = removed \cup {rec.id}
       \/ NotStored(s) /\ UNCHANGED removed
    /\ UNCHANGED <<request, writer, edge, issued>>

\* The server starts again from its file; handlers under way are gone.
ServerRestart ==
    /\ mem' = file
    /\ request' = [r \in Requests |-> IF request[r].pc \in {"consume", "create", "update"}
                                      THEN [request[r] EXCEPT !.pc = "rejected"] ELSE request[r]]
    /\ writer' = [w \in Writers |-> 0]
    /\ UNCHANGED <<file, edge, history, faults>>

-----------------------------------------------------------------------------
(* The device.                                                             *)

Goes(a, pc) == client' = [client EXCEPT ![a].pc = pc]

\* Fault variant: the request is not forgotten.
Quits_Holding(a) == client' = [client EXCEPT ![a].pc = "idle"]

Quits(a) == client' = [client EXCEPT ![a] = [pc |-> "idle", req |-> 0]]

\* LoadOrCreateFileSigner makes the key, once; a key file that is damaged is
\* an error for good.  Then the request is sent.
Enroll(a, t, r) ==
    /\ client[a].pc = "idle" /\ disk[a].key # "torn"
    /\ t \in file.free \cup file.spent
    /\ request[r].pc = "unsent" /\ \A q \in Requests : q < r => request[q].pc # "unsent"
    /\ disk' = [disk EXCEPT ![a].key = "whole"]
    /\ client' = [client EXCEPT ![a] = [pc |-> "wait", req |-> r]]
    /\ request' = [request EXCEPT ![r] = [agent |-> a, token |-> t, pc |-> "consume", id |-> 0]]
    /\ UNCHANGED <<store, writer, history, faults>>

KeyTorn(a) ==
    /\ client[a].pc = "idle" /\ disk[a].key = "none" /\ Fault
    /\ disk' = [disk EXCEPT ![a].key = "torn"]
    /\ UNCHANGED <<store, request, writer, client, history>>

\* The answer arrives and is saved, or it is an error; or none arrives in time.
Receive(a) ==
    /\ client[a].pc = "wait" /\ request[client[a].req].pc = "reply"
    /\ Goes(a, "device")
    /\ UNCHANGED <<store, request, writer, disk, history, faults>>

GiveUp(a) ==
    /\ client[a].pc = "wait"
    /\ Quits(a)
    /\ UNCHANGED <<store, request, writer, disk, history, faults>>

\* SaveIdentity: device_id, tenant_id and device.crt, in this order; the first
\* error ends it.
Answer(a) == request[client[a].req]
SaveIdentity(a) ==
    /\ \/ /\ client[a].pc = "device"
          /\ disk' = [disk EXCEPT ![a].device = Answer(a).id] /\ Goes(a, "tenant")
       \/ /\ client[a].pc = "tenant"
          /\ disk' = [disk EXCEPT ![a].tenant = TenantOf[Answer(a).token]] /\ Goes(a, "cert")
       \/ /\ client[a].pc = "cert"
          /\ disk' = [disk EXCEPT ![a].cert = Answer(a).id] /\ Quits(a)
    /\ UNCHANGED <<store, request, writer, history, faults>>

\* edge-agentctl stops or a write fails: the file may be empty afterwards.
SaveFails(a) ==
    /\ client[a].pc \in {"device", "tenant", "cert"} /\ Fault
    /\ \/ UNCHANGED disk
       \/ client[a].pc = "device" /\ disk' = [disk EXCEPT ![a].device = 0]
       \/ client[a].pc = "tenant" /\ disk' = [disk EXCEPT ![a].tenant = 0]
       \/ client[a].pc = "cert" /\ disk' = [disk EXCEPT ![a].cert = 0]
    /\ Quits(a)
    /\ UNCHANGED <<store, request, writer, history>>

-----------------------------------------------------------------------------
Next ==
    \/ \E t \in Tokens : NewToken(t)
    \/ \E r \in Requests : Consume(r) \/ Create(r) \/ Certify(r)
    \/ \E w \in Writers : ReadRecord(w) \/ WriteRecord(w)
    \/ \E rec \in mem.devs : DeleteDevice(rec)
    \/ ServerRestart
    \/ \E a \in Agents, t \in Tokens, r \in Requests : Enroll(a, t, r)
    \/ \E a \in Agents : KeyTorn(a) \/ Receive(a) \/ GiveUp(a) \/ SaveIdentity(a) \/ SaveFails(a)

Spec == Init /\ [][Next]_vars

-----------------------------------------------------------------------------
(* What must hold.                                                         *)

Store == [free : SUBSET Tokens, spent : SUBSET Tokens, devs : SUBSET Record]
\* Every variable has its type; edge-agentctl holds a request just while it
\* waits for the answer or saves it.
TypeOK ==
    /\ mem \in Store /\ file \in Store
    /\ request \in [Requests -> {Unsent} \cup
                      [agent : Agents, token : Tokens, id : Ids \cup {0},
                       pc : {"consume", "create", "update", "reply", "rejected"}]]
    /\ writer \in [Writers -> Ids \cup {0}]
    /\ client \in [Agents -> [pc : {"idle", "wait", "device", "tenant", "cert"}, req : Requests \cup {0}]]
    /\ \A a \in Agents : client[a].pc = "idle" <=> client[a].req = 0
    /\ disk \in [Agents -> [device : Ids \cup {0}, tenant : Tenants \cup {0}, cert : Ids \cup {0},
                            key : {"none", "whole", "torn"}]]
    /\ issued \subseteq [id : Ids, token : Tokens, agent : Agents]
    /\ removed \subseteq doomed /\ doomed \subseteq Ids
    /\ faults \in 0..MaxFaults

\* THREAT_MODEL.md: "Token can enroll once".  A token brings forth at most one
\* device record, with concurrent and repeated requests, failed writes and
\* restarts of the server between any two steps of a request.
TokenEnrollsOnce == \A t \in Tokens : Cardinality({x \in issued : x.token = t}) <= 1

\* LoadIdentity succeeds.
Loads(a) == disk[a].device # 0 /\ disk[a].tenant # 0

\* The ID and the certificate that a device has on disk were issued to it and
\* to no other: answers that come late, to a client that has given up and
\* asked again, and half-saved identities give no device the ID of another.
OwnIdentity ==
    \A a \in Agents : \A x \in issued :
        x.id \in {disk[a].device, disk[a].cert} => x.agent = a

\* An identity that loads is known to the cloud, also after a restart of the
\* server, unless an operator removed the device; and for the same tenant, if
\* no fault cut its saving short.
EnrolledIsKnown ==
    \A a \in Agents : Loads(a) /\ disk[a].device \notin doomed =>
        \E rec \in mem.devs \cap file.devs :
            /\ rec.id = disk[a].device
            /\ client[a].pc = "idle" /\ faults = 0 => rec.tenant = disk[a].tenant

\* A device whose removal was confirmed does not come back, whatever handlers
\* held a copy of its record, and whatever the server restarts from.
RemovedStaysRemoved == \A rec \in mem.devs \cup file.devs : rec.id \notin removed
=============================================================================
