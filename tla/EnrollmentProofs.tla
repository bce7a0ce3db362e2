-------------------------- MODULE EnrollmentProofs --------------------------
(***************************************************************************)
(* Proofs about Enrollment: the types, and the properties that tokens,     *)
(* identities and device records keep for any number of devices, tokens,   *)
(* requests and faults.                                                    *)
(***************************************************************************)
EXTENDS Enrollment, FiniteSetTheorems, TLAPS

\* The device record that a creation leaves in the store.
RecordOf(x) == [id |-> x.id, tenant |-> TenantOf[x.token]]

\* The requests that cannot create a record any more.
Past == {r \in Requests : request[r].pc \in {"update", "reply", "rejected"}}

\* IDs are given in turn, one at most per request.
Numbered ==
    /\ IsFiniteSet(issued) /\ Cardinality(issued) <= Cardinality(Past)
    /\ \A x \in issued : x.id \in 1..Cardinality(issued)
    /\ \A x, y \in issued : x.id = y.id => x = y

\* A token that has created a record, or is about to, is used up, in memory
\* and in the file; and nothing else is about to use it.
UsedIn(t, s) == t \in s.spent /\ t \notin s.free
UsedUp(t) == UsedIn(t, mem) /\ UsedIn(t, file)
Once ==
    /\ \A x, y \in issued : x.token = y.token => x = y
    /\ \A x \in issued : UsedUp(x.token)
    /\ \A r \in Requests : request[r].pc = "create" =>
         /\ UsedUp(request[r].token)
         /\ \A x \in issued : x.token # request[r].token
         /\ \A q \in Requests : request[q].pc = "create" /\ request[q].token = request[r].token => q = r

\* Whatever names a device goes back to a creation.
Backed ==
    /\ \A s \in {mem, file} : \A rec \in s.devs : \E x \in issued : rec = RecordOf(x)
    /\ \A i \in doomed : \E x \in issued : x.id = i
    /\ \A r \in Requests : request[r].pc \in {"update", "reply"} =>
         [id |-> request[r].id, token |-> request[r].token, agent |-> request[r].agent] \in issued

\* A record that was confirmed to its device is in memory and in the file
\* until somebody wants it removed.
Confirmed(r) == request[r].pc = "reply"
Kept ==
    \A r \in Requests : Confirmed(r) /\ request[r].id \notin doomed =>
        RecordOf(request[r]) \in mem.devs \cap file.devs

\* edge-agentctl works on a request of its own, and saves a confirmed one; so
\* what the disk has was confirmed to this device.
Saves == {"device", "tenant", "cert"}
Gave(a, i) == \E r \in Requests : Confirmed(r) /\ request[r].agent = a /\ request[r].id = i
Held ==
    /\ \A a \in Agents : client[a].pc # "idle" =>
         request[client[a].req].agent = a /\ request[client[a].req].pc # "unsent"
    /\ \A a \in Agents : client[a].pc \in Saves => Confirmed(client[a].req)
    /\ \A a \in Agents : \A i \in {disk[a].device, disk[a].cert} \ {0} : Gave(a, i)

\* While nothing has failed, ID and tenant on the disk come from one answer.
Fits(a) ==
    \E r \in Requests : /\ Confirmed(r) /\ request[r].id = disk[a].device
                        /\ TenantOf[request[r].token] = disk[a].tenant
Matched ==
    faults = 0 => \A a \in Agents :
        /\ client[a].pc \in {"idle", "wait", "device"} /\ disk[a].device # 0 => Fits(a)
        /\ client[a].pc \in {"tenant", "cert"} => disk[a].device = Answer(a).id
        /\ client[a].pc = "cert" => disk[a].tenant = TenantOf[Answer(a).token]

IInv ==
    /\ TypeOK /\ RemovedStaysRemoved
    /\ Numbered /\ Once /\ Backed /\ Kept /\ Held /\ Matched

-----------------------------------------------------------------------------
(* Types.                                                                  *)

\* The record sets of TypeOK.
Sent == [agent : Agents, token : Tokens, id : Ids \cup {0},
         pc : {"consume", "create", "update", "reply", "rejected"}]
Edge == [pc : {"idle", "wait", "device", "tenant", "cert"}, req : Requests \cup {0}]
Files == [device : Ids \cup {0}, tenant : Tenants \cup {0}, cert : Ids \cup {0},
          key : {"none", "whole", "torn"}]

\* A write of the store, successful or not, keeps the types.
LEMMA StoreTypes ==
  ASSUME TypeOK, NEW s \in Store, Stored(s) \/ NotStored(s)
  PROVE  mem' \in Store /\ file' \in Store /\ faults' \in 0..MaxFaults
BY EnrollmentAssumption DEF TypeOK, Stored, NotStored, Fault

\* A request that was sent is a whole request, and none else has an answer.
LEMMA SentType ==
  ASSUME TypeOK, NEW r \in Requests, request[r].pc # "unsent"
  PROVE  /\ request[r] \in Sent /\ TenantOf[request[r].token] \in Tenants
         /\ TenantOf[request[r].token] \in Nat \ {0}
<1>1. request[r] \in Sent
  BY DEF TypeOK, Sent, Unsent
<1>2. request[r].token \in Tokens
  BY <1>1 DEF Sent
<1> QED
  BY <1>1, <1>2, EnrollmentAssumption DEF Tenants

\* A handler that moves on.
LEMMA MovesType ==
  ASSUME TypeOK, NEW r \in Requests, request[r].pc # "unsent", Moves(r, "create") \/ Moves(r, "rejected") \/ Moves(r, "reply")
  PROVE  request' \in [Requests -> {Unsent} \cup Sent]
<1>1. request[r] \in Sent
  BY SentType
<1>2. request \in [Requests -> {Unsent} \cup Sent]
  BY DEF TypeOK, Sent
<1>3. \A p \in {"create", "rejected", "reply"} : [request[r] EXCEPT !.pc = p] \in Sent
  BY <1>1 DEF Sent
<1> QED
  BY <1>1, <1>2, <1>3 DEF Moves

\* A record that is written back is there already: the store stays as it is.
LEMMA WrittenBack ==
  ASSUME TypeOK, Numbered, Backed, NEW x \in issued, NEW rec, rec = RecordOf(x), UpdateDevice(rec)[1]
  PROVE  rec \in mem.devs /\ UpdateDevice(rec)[2] = mem
<1>1. PICK d \in mem.devs : d.id = rec.id /\ d.tenant = rec.tenant
  BY DEF UpdateDevice
<1>2. \A e \in mem.devs : e.id = rec.id => e = rec
  BY DEF Backed, Numbered, RecordOf
<1>3. {e \in mem.devs : e.id # rec.id} \cup {rec} = mem.devs
  BY <1>1, <1>2
<1> QED
  BY <1>1, <1>2, <1>3 DEF UpdateDevice, TypeOK, Store

\* A new ID is new, and within the bound.
LEMMA NewIDType ==
  ASSUME TypeOK, Numbered, NEW r \in Requests, request[r].pc = "create"
  PROVE  /\ NewID \in Ids /\ \A x \in issued : x.id < NewID
         /\ Cardinality(issued) \in Nat
<1>1. Cardinality(issued) \in Nat
  BY FS_CardinalityType DEF Numbered
<1>2. IsFiniteSet(Requests) /\ Cardinality(Requests) = MaxRequests
  BY FS_Interval, EnrollmentAssumption DEF Requests
<1>3. Past \cup {r} \subseteq Requests /\ r \notin Past
  BY DEF Past
<1>4. IsFiniteSet(Past) /\ IsFiniteSet(Past \cup {r})
  BY <1>2, <1>3, FS_Subset
<1>5. Cardinality(Past \cup {r}) = Cardinality(Past) + 1 /\ Cardinality(Past) \in Nat
  BY <1>3, <1>4, FS_AddElement, FS_CardinalityType
<1>6. Cardinality(Past \cup {r}) <= MaxRequests
  BY <1>2, <1>3, FS_Subset
<1>7. Cardinality(issued) + 1 <= MaxRequests
  BY <1>1, <1>5, <1>6, EnrollmentAssumption DEF Numbered
<1> QED
  BY <1>1, <1>7, EnrollmentAssumption DEF NewID, Ids, Numbered

\* Steps of edge-agentctl leave the cloud alone.
LEMMA EdgeTypes ==
  ASSUME TypeOK, UNCHANGED <<store, writer, history>>, request' \in [Requests -> {Unsent} \cup Sent],
         faults' \in 0..MaxFaults, disk' \in [Agents -> Files], client' \in [Agents -> Edge],
         \A a \in Agents : client'[a].pc = "idle" <=> client'[a].req = 0
  PROVE  TypeOK'
BY DEF TypeOK, store, history, Sent, Files, Edge

\* What edge-agentctl's moves make of its state.
LEMMA EdgeMoves ==
  ASSUME TypeOK, NEW a \in Agents, NEW c \in Edge, c.pc = "idle" <=> c.req = 0,
         client' = [client EXCEPT ![a] = c]
  PROVE  /\ client' \in [Agents -> Edge]
         /\ \A b \in Agents : client'[b].pc = "idle" <=> client'[b].req = 0
<1>1. client \in [Agents -> Edge]
  BY DEF TypeOK, Edge
<1> QED
  BY <1>1 DEF TypeOK

\* A step forward keeps the request that edge-agentctl holds.
LEMMA Going ==
  ASSUME TypeOK, NEW a \in Agents, client[a].pc # "idle",
         NEW p \in {"device", "tenant", "cert"}, Goes(a, p)
  PROVE  /\ client' = [client EXCEPT ![a] = [pc |-> p, req |-> client[a].req]]
         /\ [pc |-> p, req |-> client[a].req] \in Edge /\ client[a].req # 0
<1>1. client \in [Agents -> Edge] /\ client[a] \in Edge
  BY DEF TypeOK, Edge
<1>2. [client[a] EXCEPT !.pc = p] = [pc |-> p, req |-> client[a].req]
  BY <1>1 DEF Edge
<1>3. client' = [client EXCEPT ![a] = [client[a] EXCEPT !.pc = p]]
  BY <1>1 DEF Goes
<1> QED
  BY <1>1, <1>2, <1>3 DEF TypeOK, Edge

\* When edge-agentctl ends it holds none.
LEMMA Quitting ==
  ASSUME TypeOK, NEW a \in Agents, Quits(a)
  PROVE  /\ client' \in [Agents -> Edge]
         /\ \A b \in Agents : client'[b].pc = "idle" <=> client'[b].req = 0
<1>1. [pc |-> "idle", req |-> 0] \in Edge
  BY DEF Edge
<1> QED
  BY <1>1, EdgeMoves DEF Quits

\* Every step keeps the types.
LEMMA TypeStep == TypeOK /\ Numbered /\ Backed /\ Held /\ [Next]_vars => TypeOK'
<1> SUFFICES ASSUME TypeOK, Numbered, Backed, Held, [Next]_vars PROVE TypeOK'
  OBVIOUS
<1> USE EnrollmentAssumption
<1>a. mem \in Store /\ file \in Store
  BY DEF TypeOK
<1>b. request \in [Requests -> {Unsent} \cup Sent]
  BY DEF TypeOK, Sent
<1>c. client \in [Agents -> Edge] /\ disk \in [Agents -> Files] /\ faults \in 0..MaxFaults
  BY DEF TypeOK, Edge, Files
<1>1. ASSUME NEW t \in Tokens, NewToken(t) PROVE TypeOK'
  <2>1. [mem EXCEPT !.free = @ \cup {t}] \in Store
    BY <1>a DEF Store
  <2>2. mem' \in Store /\ file' \in Store /\ faults' \in 0..MaxFaults
    BY <1>1, <2>1, StoreTypes DEF NewToken
  <2> QED
    BY <1>1, <2>2 DEF NewToken, TypeOK, edge, history
<1>2. ASSUME NEW r \in Requests, Consume(r) PROVE TypeOK'
  <2>0. request[r].token \in Tokens
    BY <1>2, SentType DEF Consume, Sent
  <2>1. Spend(request[r].token) \in Store
    BY <1>a, <2>0 DEF Spend, Store
  <2>2. request' \in [Requests -> {Unsent} \cup Sent]
    BY <1>2, MovesType DEF Consume
  <2>3. mem' \in Store /\ file' \in Store /\ faults' \in 0..MaxFaults
    BY <1>2, <2>1, StoreTypes DEF Consume, store, TypeOK
  <2> QED
    BY <1>2, <2>2, <2>3 DEF Consume, TypeOK, edge, history, Sent
<1>3. ASSUME NEW r \in Requests, Create(r) PROVE TypeOK'
  <2> DEFINE rec == [id |-> NewID, tenant |-> TenantOf[request[r].token]]
  <2> DEFINE new == [id |-> rec.id, token |-> request[r].token, agent |-> request[r].agent]
  <2>1. rec \in Record /\ new \in [id : Ids, token : Tokens, agent : Agents]
    BY <1>3, NewIDType, SentType DEF Create, Record, Sent
  <2>2. [mem EXCEPT !.devs = @ \cup {rec}] \in Store
    BY <1>a, <2>1 DEF Store
  <2>3. mem' \in Store /\ file' \in Store /\ faults' \in 0..MaxFaults
    BY <1>3, <2>2, StoreTypes DEF Create
  <2>4. request' \in [Requests -> {Unsent} \cup Sent]
    <3>1. CASE Moves(r, "rejected")
      BY <3>1, <1>3, MovesType DEF Create
    <3>2. CASE request' = [request EXCEPT ![r].pc = "update", ![r].id = rec.id]
      <4>1. request[r] \in Sent /\ rec.id \in Ids
        BY <1>3, SentType, <2>1 DEF Create, Record
      <4>2. [request[r] EXCEPT !.pc = "update", !.id = rec.id] \in Sent
        BY <4>1 DEF Sent
      <4>3. request' = [request EXCEPT ![r] = [request[r] EXCEPT !.pc = "update", !.id = rec.id]]
        BY <3>2, <1>b, <4>1 DEF Sent
      <4> QED
        BY <4>2, <4>3, <1>b
    <3> QED
      BY <3>1, <3>2, <1>3 DEF Create
  <2>5. issued' \subseteq [id : Ids, token : Tokens, agent : Agents]
    <3>1. issued' = issued \cup {new}
      BY <1>3 DEF Create
    <3> QED
      BY <3>1, <2>1 DEF TypeOK
  <2> QED
    BY <1>3, <2>3, <2>4, <2>5 DEF Create, TypeOK, edge, Sent
<1>4. ASSUME NEW r \in Requests, Certify(r) PROVE TypeOK'
  <2> DEFINE x == [id |-> request[r].id, token |-> request[r].token, agent |-> request[r].agent]
  <2>1. x \in issued /\ [id |-> request[r].id, tenant |-> TenantOf[request[r].token]] = RecordOf(x)
    BY <1>4 DEF Certify, Backed, RecordOf
  <2>2. mem' \in Store /\ file' \in Store /\ faults' \in 0..MaxFaults
    BY <1>4, <1>a, <2>1, WrittenBack, StoreTypes DEF Certify, store, TypeOK
  <2>3. request' \in [Requests -> {Unsent} \cup Sent]
    BY <1>4, MovesType DEF Certify
  <2> QED
    BY <1>4, <2>2, <2>3 DEF Certify, TypeOK, edge, history, Sent
<1>5. ASSUME NEW w \in Writers, ReadRecord(w) PROVE TypeOK'
  <2>1. \A rec \in mem.devs : rec.id \in Ids
    BY <1>a DEF Store, Record
  <2> QED
    BY <1>5, <2>1 DEF ReadRecord, TypeOK, store, edge, history
<1>6. ASSUME NEW w \in Writers, WriteRecord(w) PROVE TypeOK'
  <2>1. PICK x \in issued :
          LET new == UpdateDevice([id |-> x.id, tenant |-> TenantOf[x.token]]) IN
          IF new[1] THEN Stored(new[2]) \/ NotStored(new[2]) ELSE UNCHANGED <<store, faults>>
    BY <1>6 DEF WriteRecord
  <2>2. mem' \in Store /\ file' \in Store /\ faults' \in 0..MaxFaults
    BY <1>a, <2>1, WrittenBack, StoreTypes DEF store, TypeOK, RecordOf
  <2> QED
    BY <1>6, <2>2 DEF WriteRecord, TypeOK, edge, history
<1>7. ASSUME NEW rec \in mem.devs, DeleteDevice(rec) PROVE TypeOK'
  <2>1. [mem EXCEPT !.devs = @ \ {rec}] \in Store /\ rec.id \in Ids
    BY <1>a DEF Store, Record
  <2>2. mem' \in Store /\ file' \in Store /\ faults' \in 0..MaxFaults
    BY <1>7, <2>1, StoreTypes DEF DeleteDevice
  <2> QED
    BY <1>7, <2>1, <2>2 DEF DeleteDevice, TypeOK, edge
<1>8. CASE ServerRestart
  <2>1. \A r \in Requests : request[r].pc \in {"consume", "create", "update"}
          => [request[r] EXCEPT !.pc = "rejected"] \in Sent
    BY SentType DEF Sent
  <2>2. request' \in [Requests -> {Unsent} \cup Sent]
    BY <1>8, <1>b, <2>1 DEF ServerRestart
  <2> QED
    BY <1>8, <2>2 DEF ServerRestart, TypeOK, edge, history, Sent
<1>9. ASSUME NEW a \in Agents, NEW t \in Tokens, NEW r \in Requests, Enroll(a, t, r) PROVE TypeOK'
  <2>1. [agent |-> a, token |-> t, pc |-> "consume", id |-> 0] \in Sent /\ 0 \notin Requests
    BY DEF Sent, Requests
  <2>2. request' \in [Requests -> {Unsent} \cup Sent]
    BY <1>9, <1>b, <2>1 DEF Enroll
  <2>3. disk' \in [Agents -> Files]
    BY <1>9, <1>c DEF Enroll, Files
  <2>4. [pc |-> "wait", req |-> r] \in Edge /\ r # 0
    BY <2>1 DEF Edge
  <2> QED
    BY <1>9, <1>c, <2>2, <2>3, <2>4, EdgeMoves, EdgeTypes DEF Enroll
<1>10. ASSUME NEW a \in Agents, KeyTorn(a) PROVE TypeOK'
  <2>1. disk' \in [Agents -> Files] /\ faults' \in 0..MaxFaults
    BY <1>10, <1>c DEF KeyTorn, Fault, Files
  <2> QED
    BY <1>10, <1>b, <1>c, <2>1, EdgeTypes DEF KeyTorn, TypeOK
<1>11. ASSUME NEW a \in Agents, Receive(a) \/ GiveUp(a) PROVE TypeOK'
  <2>1. CASE Receive(a)
    BY <2>1, <1>b, <1>c, Going, EdgeMoves, EdgeTypes DEF Receive
  <2>2. CASE GiveUp(a)
    BY <2>2, <1>b, <1>c, Quitting, EdgeTypes DEF GiveUp
  <2> QED
    BY <1>11, <2>1, <2>2
<1>12. ASSUME NEW a \in Agents, SaveIdentity(a) PROVE TypeOK'
  <2>1. client[a].pc \in Saves /\ client[a].req \in Requests /\ request[client[a].req].pc = "reply"
    BY <1>12, <1>c DEF SaveIdentity, Saves, Held, Confirmed, TypeOK, Edge
  <2>2. Answer(a).id \in Ids \cup {0} /\ TenantOf[Answer(a).token] \in Tenants
    BY <2>1, SentType DEF Answer, Sent
  <2>3. disk' \in [Agents -> Files]
    BY <1>12, <1>c, <2>2 DEF SaveIdentity, Files
  <2>4. /\ client' \in [Agents -> Edge]
        /\ \A b \in Agents : client'[b].pc = "idle" <=> client'[b].req = 0
    <3>1. CASE Quits(a)
      BY <3>1, Quitting
    <3>2. ASSUME NEW p \in {"tenant", "cert"}, Goes(a, p)
          PROVE  /\ client' \in [Agents -> Edge]
                 /\ \A b \in Agents : client'[b].pc = "idle" <=> client'[b].req = 0
      BY <3>2, <2>1, Going, EdgeMoves DEF Saves
    <3> QED
      BY <1>12, <3>1, <3>2 DEF SaveIdentity
  <2> QED
    BY <1>12, <1>b, <1>c, <2>3, <2>4, EdgeTypes DEF SaveIdentity
<1>13. ASSUME NEW a \in Agents, SaveFails(a) PROVE TypeOK'
  <2>1. disk' \in [Agents -> Files] /\ faults' \in 0..MaxFaults
    BY <1>13, <1>c DEF SaveFails, Fault, Files
  <2> QED
    BY <1>13, <1>b, <2>1, Quitting, EdgeTypes DEF SaveFails
<1>14. CASE UNCHANGED vars
  BY <1>14 DEF vars, TypeOK
<1> QED
  BY <1>1, <1>2, <1>3, <1>4, <1>5, <1>6, <1>7, <1>8, <1>9, <1>10, <1>11, <1>12, <1>13, <1>14 DEF Next

-----------------------------------------------------------------------------
(* What a step can do, in general.                                         *)

\* The cloud's store after a step, in memory or in the file, has the records it
\* had, or those of the memory, or one more or less.
LEMMA StoreStep ==
  ASSUME TypeOK, Numbered, Backed, [Next]_vars
  PROVE  \/ mem' = mem /\ file' \in {mem, file}
         \/ ServerRestart
         \/ \E t \in Tokens : NewToken(t)
         \/ \E r \in Requests : Consume(r) \/ Create(r)
         \/ \E rec \in mem.devs : DeleteDevice(rec)
<1>1. ASSUME NEW r \in Requests, Certify(r) PROVE mem' = mem /\ file' \in {mem, file}
  <2> DEFINE x == [id |-> request[r].id, token |-> request[r].token, agent |-> request[r].agent]
  <2>1. x \in issued /\ [id |-> request[r].id, tenant |-> TenantOf[request[r].token]] = RecordOf(x)
    BY <1>1 DEF Certify, Backed, RecordOf
  <2> QED
    BY <1>1, <2>1, WrittenBack DEF Certify, store, Stored, NotStored
<1>2. ASSUME NEW w \in Writers, WriteRecord(w) PROVE mem' = mem /\ file' \in {mem, file}
  <2>1. PICK x \in issued :
          LET new == UpdateDevice([id |-> x.id, tenant |-> TenantOf[x.token]]) IN
          IF new[1] THEN Stored(new[2]) \/ NotStored(new[2]) ELSE UNCHANGED <<store, faults>>
    BY <1>2 DEF WriteRecord
  <2> QED
    BY <2>1, WrittenBack DEF store, RecordOf, Stored, NotStored
<1>3. ASSUME NEW w \in Writers, ReadRecord(w) PROVE mem' = mem /\ file' \in {mem, file}
  BY <1>3 DEF ReadRecord, store
<1>4. ASSUME NEW a \in Agents, NEW t \in Tokens, NEW r \in Requests, Enroll(a, t, r)
      PROVE  mem' = mem /\ file' \in {mem, file}
  BY <1>4 DEF Enroll, store
<1>5. ASSUME NEW a \in Agents, KeyTorn(a) \/ Receive(a) \/ GiveUp(a) \/ SaveIdentity(a) \/ SaveFails(a)
      PROVE  mem' = mem /\ file' \in {mem, file}
  BY <1>5 DEF KeyTorn, Receive, GiveUp, SaveIdentity, SaveFails, store
<1>6. CASE UNCHANGED vars
  BY <1>6 DEF vars
<1> QED
  BY <1>1, <1>2, <1>3, <1>4, <1>5, <1>6 DEF Next

\* A handler's request after a step.
Ended(r) == request'[r] = [request[r] EXCEPT !.pc = "rejected"]
LEMMA RequestStep ==
  ASSUME TypeOK, [Next]_vars, NEW r \in Requests
  PROVE  \/ request'[r] = request[r]
         \/ request[r].pc \in {"consume", "create", "update"} /\ Ended(r)
         \/ Consume(r) /\ request[r].pc = "consume" /\ request'[r] = [request[r] EXCEPT !.pc = "create"]
         \/ /\ Create(r) /\ request[r].pc = "create"
            /\ request'[r] = [request[r] EXCEPT !.pc = "update", !.id = NewID]
         \/ Certify(r) /\ request[r].pc = "update" /\ request'[r] = [request[r] EXCEPT !.pc = "reply"]
         \/ request[r].pc = "unsent" /\ request'[r].pc = "consume"
<1>a. request \in [Requests -> {Unsent} \cup Sent]
  BY DEF TypeOK, Sent
<1>b. request[r].pc # "unsent" => request[r] \in Sent
  BY SentType
<1>1. ASSUME NEW q \in Requests, NEW p, Moves(q, p)
      PROVE  IF q = r THEN request'[r] = [request[r] EXCEPT !.pc = p] ELSE request'[r] = request[r]
  BY <1>1, <1>a DEF Moves
<1>2. ASSUME NEW q \in Requests, Consume(q)
      PROVE  \/ request'[r] = request[r]
             \/ q = r /\ request[r].pc = "consume" /\ (Ended(r) \/ request'[r] = [request[r] EXCEPT !.pc = "create"])
  BY <1>1, <1>2 DEF Consume, Ended
<1>3. ASSUME NEW q \in Requests, Create(q)
      PROVE  \/ request'[r] = request[r]
             \/ /\ q = r /\ request[r].pc = "create"
                /\ (Ended(r) \/ request'[r] = [request[r] EXCEPT !.pc = "update", !.id = NewID])
  BY <1>1, <1>3, <1>a DEF Create, Ended
<1>4. ASSUME NEW q \in Requests, Certify(q)
      PROVE  \/ request'[r] = request[r]
             \/ q = r /\ request[r].pc = "update" /\ (Ended(r) \/ request'[r] = [request[r] EXCEPT !.pc = "reply"])
  BY <1>1, <1>4 DEF Certify, Ended
<1>5. CASE ServerRestart
  BY <1>5, <1>a DEF ServerRestart, Ended
<1>6. ASSUME NEW a \in Agents, NEW t \in Tokens, NEW q \in Requests, Enroll(a, t, q)
      PROVE  \/ request'[r] = request[r]
             \/ request[r].pc = "unsent" /\ request'[r].pc = "consume"
  BY <1>6, <1>a DEF Enroll
<1>7. ASSUME \/ UNCHANGED vars
             \/ \E t \in Tokens : NewToken(t)
             \/ \E w \in Writers : ReadRecord(w) \/ WriteRecord(w)
             \/ \E rec \in mem.devs : DeleteDevice(rec)
             \/ \E a \in Agents : KeyTorn(a) \/ Receive(a) \/ GiveUp(a) \/ SaveIdentity(a) \/ SaveFails(a)
      PROVE  request' = request
  BY <1>7 DEF vars, NewToken, ReadRecord, WriteRecord, DeleteDevice, KeyTorn, Receive, GiveUp, SaveIdentity, SaveFails
<1> QED
  BY <1>2, <1>3, <1>4, <1>5, <1>6, <1>7 DEF Next

\* A request keeps its token and its device, and its ID once it has one.
LEMMA RequestKeeps ==
  ASSUME TypeOK, [Next]_vars, NEW r \in Requests
  PROVE  /\ request[r].pc # "unsent" =>
              /\ request'[r].pc # "unsent"
              /\ request'[r].token = request[r].token /\ request'[r].agent = request[r].agent
              /\ request'[r].id = request[r].id \/ Create(r)
         /\ request[r].pc = "reply" => request'[r] = request[r]
         /\ r \in Past => request'[r].pc \in {"update", "reply", "rejected"}
         /\ request'[r].pc = "create" => request[r].pc = "create" \/ Consume(r)
         /\ request'[r].pc = "update" => request[r].pc = "update" \/ Create(r)
         /\ request'[r].pc = "reply" => request[r].pc = "reply" \/ Certify(r)
<1>b. request[r].pc # "unsent" => request[r] \in Sent
  BY SentType
<1>c. ASSUME NEW p, request[r] \in Sent
      PROVE  LET q == [request[r] EXCEPT !.pc = p] IN
             q.pc = p /\ q.token = request[r].token /\ q.agent = request[r].agent /\ q.id = request[r].id
  BY <1>c DEF Sent
<1>d. ASSUME NEW p, NEW n, request[r] \in Sent
      PROVE  LET q == [request[r] EXCEPT !.pc = p, !.id = n] IN
             q.pc = p /\ q.token = request[r].token /\ q.agent = request[r].agent
  BY <1>d DEF Sent
<1>1. CASE request'[r] = request[r]
  BY <1>1 DEF Past
<1>2. CASE request[r].pc \in {"consume", "create", "update"} /\ Ended(r)
  BY <1>2, <1>b, <1>c DEF Ended, Past
<1>3. CASE Consume(r) /\ request[r].pc = "consume" /\ request'[r] = [request[r] EXCEPT !.pc = "create"]
  BY <1>3, <1>b, <1>c DEF Past
<1>4. CASE Create(r) /\ request[r].pc = "create" /\ request'[r] = [request[r] EXCEPT !.pc = "update", !.id = NewID]
  BY <1>4, <1>b, <1>d DEF Past
<1>5. CASE Certify(r) /\ request[r].pc = "update" /\ request'[r] = [request[r] EXCEPT !.pc = "reply"]
  BY <1>5, <1>b, <1>c DEF Past
<1>6. CASE request[r].pc = "unsent" /\ request'[r].pc = "consume"
  BY <1>6 DEF Past
<1> QED
  BY <1>1, <1>2, <1>3, <1>4, <1>5, <1>6, RequestStep

\* Who writes the histories.
LEMMA HistoryStep ==
  ASSUME [Next]_vars
  PROVE  /\ issued' = issued \/ \E r \in Requests : Create(r)
         /\ (doomed' = doomed /\ removed' = removed) \/ \E rec \in mem.devs : DeleteDevice(rec)
<1>1. ASSUME \/ UNCHANGED vars
             \/ \E t \in Tokens : NewToken(t)
             \/ \E r \in Requests : Consume(r) \/ Certify(r)
             \/ \E w \in Writers : ReadRecord(w) \/ WriteRecord(w)
             \/ ServerRestart
             \/ \E a \in Agents, t \in Tokens, r \in Requests : Enroll(a, t, r)
             \/ \E a \in Agents : KeyTorn(a) \/ Receive(a) \/ GiveUp(a) \/ SaveIdentity(a) \/ SaveFails(a)
      PROVE  issued' = issued /\ doomed' = doomed /\ removed' = removed
  BY <1>1 DEF vars, history, NewToken, Consume, Certify, ReadRecord, WriteRecord, ServerRestart, Enroll,
              KeyTorn, Receive, GiveUp, SaveIdentity, SaveFails
<1>2. ASSUME NEW r \in Requests, Create(r) PROVE doomed' = doomed /\ removed' = removed
  BY <1>2 DEF Create
<1>3. ASSUME NEW rec \in mem.devs, DeleteDevice(rec) PROVE issued' = issued
  BY <1>3 DEF DeleteDevice
<1> QED
  BY <1>1, <1>2, <1>3 DEF Next

\* What a creation adds to them.
NewRow(r) == [id |-> NewID, token |-> request[r].token, agent |-> request[r].agent]
LEMMA Creation ==
  ASSUME TypeOK, NEW r \in Requests, Create(r)
  PROVE  /\ request[r].pc = "create" /\ issued' = issued \cup {NewRow(r)}
         /\ \A q \in Requests \ {r} : request'[q] = request[q]
         /\ request'[r].pc \in {"update", "rejected"}
         /\ request'[r].pc = "update" => request'[r].id = NewID
<1>a. request \in [Requests -> {Unsent} \cup Sent] /\ request[r] \in Sent
  BY SentType DEF TypeOK, Sent, Create
<1> QED
  BY <1>a DEF Create, NewRow, Moves, Sent

-----------------------------------------------------------------------------
(* The parts of the invariant, one by one.                                 *)

\* A creation uses the next number, and its request cannot create again.
LEMMA NumberedStep == TypeOK /\ Numbered /\ [Next]_vars => Numbered'
<1> SUFFICES ASSUME TypeOK, Numbered, [Next]_vars PROVE Numbered'
  OBVIOUS
<1>a. Past \subseteq Past' /\ Past' \subseteq Requests
  BY RequestKeeps DEF Past
<1>b. IsFiniteSet(Requests)
  BY FS_Interval, EnrollmentAssumption DEF Requests
<1>c. IsFiniteSet(Past') /\ IsFiniteSet(Past)
  BY <1>a, <1>b, FS_Subset
<1>d. Cardinality(Past) <= Cardinality(Past') /\ Cardinality(Past) \in Nat /\ Cardinality(Past') \in Nat
  BY <1>a, <1>c, FS_Subset, FS_CardinalityType
<1>e. Cardinality(issued) \in Nat
  BY FS_CardinalityType DEF Numbered
<1>1. CASE issued' = issued
  BY <1>1, <1>d, <1>e DEF Numbered
<1>2. ASSUME NEW r \in Requests, Create(r) PROVE Numbered'
  <2>1. /\ issued' = issued \cup {NewRow(r)} /\ r \notin Past /\ r \in Past'
        /\ \A x \in issued : x.id < NewID
    BY <1>2, Creation, NewIDType DEF Past, Create
  <2>2. NewRow(r).id = NewID /\ NewRow(r) \notin issued
    BY <2>1, <1>e DEF NewRow, NewID
  <2>3. IsFiniteSet(issued') /\ Cardinality(issued') = Cardinality(issued) + 1
    BY <2>1, <2>2, FS_AddElement DEF Numbered
  <2>4. Cardinality(Past \cup {r}) = Cardinality(Past) + 1 /\ Cardinality(Past \cup {r}) <= Cardinality(Past')
    <3>1. Past \cup {r} \subseteq Past'
      BY <1>a, <2>1
    <3> QED
      BY <1>c, <2>1, <3>1, FS_AddElement, FS_Subset
  <2>5. Cardinality(issued') <= Cardinality(Past')
    BY <1>d, <1>e, <2>3, <2>4 DEF Numbered
  <2>6. \A x \in issued' : x.id \in 1..Cardinality(issued')
    BY <1>e, <2>1, <2>2, <2>3 DEF Numbered, NewID
  <2>7. \A x, y \in issued' : x.id = y.id => x = y
    <3>1. \A x \in issued : x.id # NewID
      BY <2>1, <1>e DEF Numbered, NewID
    <3> QED
      BY <2>1, <2>2, <3>1 DEF Numbered
  <2> QED
    BY <2>3, <2>5, <2>6, <2>7 DEF Numbered
<1> QED
  BY <1>1, <1>2, HistoryStep

\* A token that is used up stays so.
LEMMA StaysUsed ==
  ASSUME TypeOK, Numbered, Backed, [Next]_vars, NEW t, UsedIn(t, mem), UsedIn(t, file)
  PROVE  UsedIn(t, mem') /\ UsedIn(t, file')
<1>a. mem \in Store /\ file \in Store
  BY DEF TypeOK
<1> DEFINE Goal == UsedIn(t, mem') /\ UsedIn(t, file')
<1>1. ASSUME NEW u \in Tokens, NewToken(u) PROVE Goal
  BY <1>1, <1>a DEF NewToken, Stored, UsedIn, Store
<1>2. ASSUME NEW r \in Requests, Consume(r) PROVE Goal
  BY <1>2, <1>a DEF Consume, Spend, Stored, NotStored, store, UsedIn, Store
<1>3. ASSUME NEW r \in Requests, Create(r) PROVE Goal
  BY <1>3, <1>a DEF Create, Stored, NotStored, UsedIn, Store
<1>4. ASSUME NEW rec \in mem.devs, DeleteDevice(rec) PROVE Goal
  BY <1>4, <1>a DEF DeleteDevice, Stored, NotStored, UsedIn, Store
<1>5. CASE ServerRestart
  BY <1>5 DEF ServerRestart
<1>6. CASE mem' = mem /\ file' \in {mem, file}
  BY <1>6
<1> QED
  BY <1>1, <1>2, <1>3, <1>4, <1>5, <1>6, StoreStep

\* A request that has used up its token has found it unused.
LEMMA Consumption ==
  ASSUME TypeOK, NEW r \in Requests, Consume(r)
  PROVE  /\ \A q \in Requests \ {r} : request'[q] = request[q]
         /\ request'[r].token = request[r].token
         /\ request'[r].pc = "create" =>
              /\ request[r].token \in mem.free
              /\ UsedIn(request[r].token, mem') /\ UsedIn(request[r].token, file')
<1>a. request \in [Requests -> {Unsent} \cup Sent] /\ request[r] \in Sent /\ mem \in Store
  BY SentType DEF TypeOK, Sent, Consume
<1>1. \A q \in Requests \ {r} : request'[q] = request[q]
  BY <1>a DEF Consume, Moves
<1>2. request'[r].token = request[r].token
  BY <1>a DEF Consume, Moves, Sent
<1>3. ASSUME request'[r].pc = "create" PROVE request[r].token \in mem.free /\ Stored(Spend(request[r].token))
  BY <1>3, <1>a DEF Consume, Moves, Sent
<1>4. ASSUME Stored(Spend(request[r].token))
      PROVE  UsedIn(request[r].token, mem') /\ UsedIn(request[r].token, file')
  BY <1>4, <1>a DEF Stored, Spend, UsedIn, Store
<1> QED
  BY <1>1, <1>2, <1>3, <1>4

\* A token is used up, in memory and in the file, before the record is created;
\* from then on nobody finds it unused.
LEMMA OnceStep == TypeOK /\ Numbered /\ Backed /\ Once /\ [Next]_vars => Once'
<1> SUFFICES ASSUME TypeOK, Numbered, Backed, Once, [Next]_vars PROVE Once'
  OBVIOUS
<1>u. \A t : UsedUp(t) => UsedIn(t, mem') /\ UsedIn(t, file')
  BY StaysUsed DEF UsedUp
<1>1. ASSUME NEW r \in Requests, Create(r) PROVE Once'
  <2>1. /\ request[r].pc = "create" /\ issued' = issued \cup {NewRow(r)}
        /\ request'[r].pc # "create" /\ \A q \in Requests \ {r} : request'[q] = request[q]
    BY <1>1, Creation
  <2>2. NewRow(r).token = request[r].token /\ UsedUp(request[r].token)
    BY <2>1 DEF NewRow, Once
  <2>3. \A x \in issued' : UsedIn(x.token, mem') /\ UsedIn(x.token, file')
    BY <1>u, <2>1, <2>2 DEF Once
  <2>4. \A x, y \in issued' : x.token = y.token => x = y
    BY <2>1, <2>2 DEF Once
  <2>5. ASSUME NEW q \in Requests, request'[q].pc = "create"
        PROVE  /\ UsedIn(request'[q].token, mem') /\ UsedIn(request'[q].token, file')
               /\ \A x \in issued' : x.token # request'[q].token
               /\ q # r
    <3>1. q # r /\ request[q].pc = "create" /\ UsedUp(request[q].token) /\ request'[q] = request[q]
      BY <2>1, <2>5 DEF Once
    <3>2. request[q].token # request[r].token
      BY <3>1, <2>1 DEF Once
    <3> QED
      BY <1>u, <2>1, <2>2, <3>1, <3>2 DEF Once
  <2> QED
    BY <2>1, <2>3, <2>4, <2>5 DEF Once, UsedUp
<1>2. ASSUME issued' = issued PROVE Once'
  <2>1. \A x \in issued : UsedIn(x.token, mem') /\ UsedIn(x.token, file')
    BY <1>u DEF Once
  <2> DEFINE Alone(q) ==
        /\ UsedIn(request'[q].token, mem') /\ UsedIn(request'[q].token, file')
        /\ \A x \in issued : x.token # request'[q].token
        /\ \A p \in Requests : request'[p].pc = "create" /\ request'[p].token = request'[q].token => p = q
  <2>2. ASSUME \A p \in Requests : request'[p].pc = "create" => request[p].pc = "create",
               NEW q \in Requests, request'[q].pc = "create"
        PROVE  Alone(q)
    <3>1. \A p \in Requests : request'[p].pc = "create" =>
            request[p].pc = "create" /\ request'[p].token = request[p].token
      BY <2>2, RequestKeeps
    <3>2. UsedUp(request[q].token)
      BY <2>2, <3>1 DEF Once
    <3> QED
      BY <1>u, <2>2, <3>1, <3>2 DEF Once
  <2>3. ASSUME NEW r \in Requests, Consume(r), request'[r].pc = "create",
               NEW q \in Requests, request'[q].pc = "create"
        PROVE  Alone(q)
    <3>1. /\ \A p \in Requests \ {r} : request'[p] = request[p]
          /\ request'[r].token = request[r].token /\ request[r].token \in mem.free
          /\ UsedIn(request[r].token, mem') /\ UsedIn(request[r].token, file')
      BY <2>3, Consumption
    <3>2. ~UsedUp(request[r].token)
      BY <3>1 DEF UsedUp, UsedIn
    <3>3. CASE q = r
      BY <3>1, <3>2, <3>3 DEF Once
    <3>4. CASE q # r
      <4>1. request[q].pc = "create" /\ request'[q] = request[q] /\ UsedUp(request[q].token)
        BY <2>3, <3>1, <3>4 DEF Once
      <4>2. \A p \in Requests : request'[p].pc = "create" /\ request'[p].token = request'[q].token => p = q
        BY <3>1, <3>2, <4>1 DEF Once
      <4> QED
        BY <1>u, <4>1, <4>2 DEF Once
    <3> QED
      BY <3>3, <3>4
  <2>4. ASSUME NEW q \in Requests, request'[q].pc = "create" PROVE Alone(q)
    <3>1. CASE \A p \in Requests : request'[p].pc = "create" => request[p].pc = "create"
      BY <3>1, <2>2, <2>4
    <3>2. CASE \E p \in Requests : request'[p].pc = "create" /\ request[p].pc # "create"
      BY <3>2, <2>3, <2>4, RequestKeeps
    <3> QED
      BY <3>1, <3>2
  <2> QED
    BY <1>2, <2>1, <2>4 DEF Once, UsedUp
<1> QED
  BY <1>1, <1>2, HistoryStep

\* The records after a step: old ones, or the one that was created; and one
\* that is in memory and in the file stays there unless it is removed.
LEMMA DevicesStep ==
  ASSUME TypeOK, Numbered, Backed, [Next]_vars
  PROVE  /\ \A rec \in mem'.devs \cup file'.devs :
              \/ rec \in mem.devs \cup file.devs
              \/ \E r \in Requests : Create(r) /\ rec = RecordOf(NewRow(r))
         /\ \A rec \in mem.devs \cap file.devs :
              rec \in mem'.devs \cap file'.devs \/ DeleteDevice(rec)
<1>a. mem \in Store /\ file \in Store
  BY DEF TypeOK
<1> DEFINE Old == mem'.devs \cup file'.devs \subseteq mem.devs \cup file.devs
<1> DEFINE Stay == mem.devs \cap file.devs \subseteq mem'.devs \cap file'.devs
<1>1. ASSUME NEW u \in Tokens, NewToken(u) PROVE Old /\ Stay
  BY <1>1, <1>a DEF NewToken, Stored, Store
<1>2. ASSUME NEW r \in Requests, Consume(r) PROVE Old /\ Stay
  BY <1>2, <1>a DEF Consume, Spend, Stored, NotStored, store, Store
<1>3. ASSUME NEW r \in Requests, Create(r)
      PROVE  Stay /\ mem'.devs \cup file'.devs \subseteq mem.devs \cup file.devs \cup {RecordOf(NewRow(r))}
  <2>1. RecordOf(NewRow(r)) = [id |-> NewID, tenant |-> TenantOf[request[r].token]]
    BY DEF RecordOf, NewRow
  <2> QED
    BY <1>3, <1>a, <2>1 DEF Create, Stored, NotStored, Store
<1>4. ASSUME NEW rec \in mem.devs, DeleteDevice(rec)
      PROVE  Old /\ mem.devs \cap file.devs \subseteq (mem'.devs \cap file'.devs) \cup {rec}
  BY <1>4, <1>a DEF DeleteDevice, Stored, NotStored, Store
<1>5. CASE ServerRestart
  BY <1>5 DEF ServerRestart
<1>6. CASE mem' = mem /\ file' \in {mem, file}
  BY <1>6
<1> QED
  BY <1>1, <1>2, <1>3, <1>4, <1>5, <1>6, StoreStep

\* Only a creation brings a new ID into play.
LEMMA BackedStep == TypeOK /\ Numbered /\ Backed /\ [Next]_vars => Backed'
<1> SUFFICES ASSUME TypeOK, Numbered, Backed, [Next]_vars PROVE Backed'
  OBVIOUS
<1>a. issued \subseteq issued' /\ \A r \in Requests : Create(r) => NewRow(r) \in issued'
  BY Creation, HistoryStep
<1>1. ASSUME NEW rec \in mem'.devs \cup file'.devs PROVE \E x \in issued' : rec = RecordOf(x)
  BY <1>a, <1>1, DevicesStep DEF Backed
<1>2. ASSUME NEW i \in doomed' PROVE \E x \in issued' : x.id = i
  <2>1. CASE doomed' = doomed
    BY <1>a, <1>2, <2>1 DEF Backed
  <2>2. ASSUME NEW rec \in mem.devs, DeleteDevice(rec) PROVE \E x \in issued' : x.id = i
    <3>1. i \in doomed \/ i = rec.id
      BY <1>2, <2>2 DEF DeleteDevice
    <3>2. PICK x \in issued : rec = RecordOf(x)
      BY <2>2 DEF Backed
    <3>3. x.id = rec.id
      BY <3>2 DEF RecordOf
    <3> QED
      BY <1>a, <3>1, <3>2, <3>3 DEF Backed
  <2> QED
    BY <2>1, <2>2, HistoryStep
<1>3. ASSUME NEW r \in Requests, request'[r].pc \in {"update", "reply"}
      PROVE  [id |-> request'[r].id, token |-> request'[r].token, agent |-> request'[r].agent] \in issued'
  <2>1. CASE Create(r)
    <3>1. request'[r].pc = "update" /\ request'[r].id = NewID /\ request[r].pc = "create"
      BY <1>3, <2>1, Creation
    <3>2. request'[r].token = request[r].token /\ request'[r].agent = request[r].agent
      BY <3>1, RequestKeeps
    <3> QED
      BY <1>a, <2>1, <3>1, <3>2 DEF NewRow
  <2>2. CASE ~Create(r)
    <3>1. request[r].pc \in {"update", "reply"}
      BY <1>3, <2>2, RequestKeeps DEF Certify
    <3>2. request'[r].id = request[r].id /\ request'[r].token = request[r].token /\ request'[r].agent = request[r].agent
      BY <2>2, <3>1, RequestKeeps
    <3> QED
      BY <1>a, <3>1, <3>2 DEF Backed
  <2> QED
    BY <2>1, <2>2
<1> QED
  BY <1>1, <1>2, <1>3 DEF Backed, RecordOf

\* A new record has a new ID, and a removal takes the only record with the ID.
LEMMA RemovedStep ==
  TypeOK /\ Numbered /\ Backed /\ RemovedStaysRemoved /\ [Next]_vars => RemovedStaysRemoved'
<1> SUFFICES ASSUME TypeOK, Numbered, Backed, RemovedStaysRemoved, [Next]_vars PROVE RemovedStaysRemoved'
  OBVIOUS
<1>1. CASE removed' = removed
  <2> SUFFICES ASSUME NEW rec \in mem'.devs \cup file'.devs PROVE rec.id \notin removed
    BY <1>1 DEF RemovedStaysRemoved
  <2>1. CASE rec \in mem.devs \cup file.devs
    BY <2>1 DEF RemovedStaysRemoved
  <2>2. ASSUME NEW r \in Requests, Create(r), rec = RecordOf(NewRow(r)) PROVE rec.id \notin removed
    <3>1. rec.id = NewID
      BY <2>2 DEF RecordOf, NewRow
    <3>2. \A x \in issued : x.id < NewID /\ x.id \in Nat
      BY <2>2, NewIDType DEF Create, TypeOK, Ids
    <3>3. \A i \in removed : \E x \in issued : x.id = i
      BY DEF TypeOK, Backed
    <3> QED
      BY <3>1, <3>2, <3>3, NewIDType, <2>2 DEF NewID, Create
  <2> QED
    BY <2>1, <2>2, DevicesStep
<1>2. ASSUME NEW rec \in mem.devs, DeleteDevice(rec) PROVE RemovedStaysRemoved'
  <2>1. CASE removed' = removed
    BY <1>1, <2>1
  <2>2. CASE Stored([mem EXCEPT !.devs = @ \ {rec}]) /\ removed' = removed \cup {rec.id}
    <3>1. mem'.devs = mem.devs \ {rec} /\ file'.devs = mem.devs \ {rec}
      BY <2>2 DEF Stored, TypeOK, Store
    <3>2. \A e \in mem.devs : e.id = rec.id => e = rec
      BY <1>2 DEF Backed, Numbered, RecordOf
    <3> QED
      BY <2>2, <3>1, <3>2 DEF RemovedStaysRemoved
  <2> QED
    BY <1>2, <2>1, <2>2 DEF DeleteDevice
<1> QED
  BY <1>1, <1>2, HistoryStep

\* The answer is sent after a write that has succeeded; later writes keep the
\* record unless it is removed.
LEMMA KeptStep == TypeOK /\ Numbered /\ Backed /\ Kept /\ [Next]_vars => Kept'
<1> SUFFICES ASSUME TypeOK, Numbered, Backed, Kept, [Next]_vars,
                    NEW r \in Requests, request'[r].pc = "reply", request'[r].id \notin doomed'
             PROVE  RecordOf(request'[r]) \in mem'.devs \cap file'.devs
  BY DEF Kept, Confirmed, RecordOf
<1>a. doomed \subseteq doomed'
  BY HistoryStep DEF DeleteDevice
<1>1. CASE request[r].pc = "reply"
  <2>1. request'[r] = request[r]
    BY <1>1, RequestKeeps
  <2>2. RecordOf(request[r]) \in mem.devs \cap file.devs
    BY <1>1, <1>a, <2>1 DEF Kept, Confirmed
  <2>3. ~DeleteDevice(RecordOf(request[r]))
    BY <2>1 DEF DeleteDevice, RecordOf
  <2> QED
    BY <2>1, <2>2, <2>3, DevicesStep
<1>2. CASE Certify(r)
  <2> DEFINE x == [id |-> request[r].id, token |-> request[r].token, agent |-> request[r].agent]
  <2> DEFINE rec == [id |-> request[r].id, tenant |-> TenantOf[request[r].token]]
  <2>1. x \in issued /\ rec = RecordOf(x) /\ rec = RecordOf(request[r])
    BY <1>2 DEF Certify, Backed, RecordOf
  <2>2. request \in [Requests -> {Unsent} \cup Sent] /\ request[r] \in Sent
    BY <1>2, SentType DEF TypeOK, Sent, Certify
  <2>3. UpdateDevice(rec)[1] /\ Stored(UpdateDevice(rec)[2]) /\ Moves(r, "reply")
    BY <1>2, <2>2 DEF Certify, Moves, Sent
  <2>4. RecordOf(request'[r]) = rec
    BY <2>2, <2>3 DEF Moves, Sent, RecordOf
  <2> QED
    BY <2>1, <2>3, <2>4, WrittenBack DEF Stored
<1> QED
  BY <1>1, <1>2, RequestKeeps

\* A device after a step, and who counts faults.
LEMMA EdgeStep ==
  ASSUME TypeOK, [Next]_vars, NEW a \in Agents
  PROVE  \/ /\ client'[a] = client[a] /\ disk'[a].device = disk[a].device
            /\ disk'[a].tenant = disk[a].tenant /\ disk'[a].cert = disk[a].cert
         \/ \E t \in Tokens, r \in Requests : Enroll(a, t, r)
         \/ Receive(a) \/ GiveUp(a) \/ SaveIdentity(a) \/ SaveFails(a)
<1>a. client \in [Agents -> Edge] /\ disk \in [Agents -> Files]
  BY DEF TypeOK, Edge, Files
<1> DEFINE Same == /\ client'[a] = client[a] /\ disk'[a].device = disk[a].device
                   /\ disk'[a].tenant = disk[a].tenant /\ disk'[a].cert = disk[a].cert
<1>1. ASSUME NEW b \in Agents \ {a}, NEW t \in Tokens, NEW r \in Requests, Enroll(b, t, r) PROVE Same
  BY <1>1, <1>a DEF Enroll
<1>2. ASSUME NEW b \in Agents \ {a}, Receive(b) \/ GiveUp(b) PROVE Same
  BY <1>2, <1>a DEF Receive, GiveUp, Goes, Quits
<1>3. ASSUME NEW b \in Agents \ {a}, SaveIdentity(b) PROVE Same
  BY <1>3, <1>a DEF SaveIdentity, Goes, Quits
<1>4. ASSUME NEW b \in Agents \ {a}, SaveFails(b) PROVE Same
  BY <1>4, <1>a DEF SaveFails, Quits
<1>5. ASSUME NEW b \in Agents, KeyTorn(b) PROVE Same
  BY <1>5, <1>a DEF KeyTorn, Files
<1>6. ASSUME \/ UNCHANGED vars
             \/ \E t \in Tokens : NewToken(t)
             \/ \E r \in Requests : Consume(r) \/ Create(r) \/ Certify(r)
             \/ \E w \in Writers : ReadRecord(w) \/ WriteRecord(w)
             \/ \E rec \in mem.devs : DeleteDevice(rec)
             \/ ServerRestart
      PROVE  Same
  BY <1>6 DEF vars, edge, NewToken, Consume, Create, Certify, ReadRecord, WriteRecord, DeleteDevice, ServerRestart
<1> QED
  BY <1>1, <1>2, <1>3, <1>4, <1>5, <1>6 DEF Next

\* What is confirmed stays confirmed.
LEMMA StaysConfirmed ==
  ASSUME TypeOK, [Next]_vars, NEW r \in Requests, Confirmed(r)
  PROVE  request'[r] = request[r] /\ request'[r].pc = "reply"
BY RequestKeeps DEF Confirmed

\* The identity that SaveIdentity writes was confirmed to this device.
LEMMA Saving ==
  ASSUME TypeOK, Held, NEW a \in Agents, client[a].pc \in Saves
  PROVE  /\ client[a].req \in Requests /\ Confirmed(client[a].req)
         /\ request[client[a].req].agent = a /\ Gave(a, Answer(a).id)
<1>1. client[a].req \in Requests
  BY DEF TypeOK, Saves
<1>2. Confirmed(client[a].req) /\ request[client[a].req].agent = a
  BY DEF Held, Saves
<1> QED
  BY <1>1, <1>2 DEF Gave, Answer

\* The answer that is saved is the one to the device's own request.
LEMMA HeldStep == TypeOK /\ Held /\ [Next]_vars => Held'
<1> SUFFICES ASSUME TypeOK, Held, [Next]_vars, NEW a \in Agents
             PROVE  /\ client'[a].pc # "idle" =>
                         request'[client'[a].req].agent = a /\ request'[client'[a].req].pc # "unsent"
                    /\ client'[a].pc \in Saves => request'[client'[a].req].pc = "reply"
                    /\ \A i \in {disk'[a].device, disk'[a].cert} \ {0} : Gave(a, i)'
  BY DEF Held, Confirmed
<1>a. client \in [Agents -> Edge] /\ disk \in [Agents -> Files] /\ request \in [Requests -> {Unsent} \cup Sent]
  BY DEF TypeOK, Edge, Files, Sent
<1>b. client[a].pc # "idle" => client[a].req \in Requests
  BY <1>a DEF TypeOK, Edge
<1>c. \A i : Gave(a, i) => Gave(a, i)'
  <2> SUFFICES ASSUME NEW i, NEW r \in Requests, Confirmed(r), request[r].agent = a, request[r].id = i
               PROVE  Gave(a, i)'
    BY DEF Gave
  <2> QED
    BY StaysConfirmed DEF Gave, Confirmed
<1>d. client[a].pc # "idle" =>
        request'[client[a].req].agent = a /\ request'[client[a].req].pc # "unsent"
  BY <1>b, RequestKeeps DEF Held
<1>e. client[a].pc \in Saves => request'[client[a].req].pc = "reply"
  BY <1>b, StaysConfirmed DEF Held, Saves
<1>f. \A i \in {disk[a].device, disk[a].cert} \ {0} : Gave(a, i)'
  BY <1>c DEF Held
<1>1. CASE client'[a] = client[a] /\ disk'[a].device = disk[a].device /\ disk'[a].cert = disk[a].cert
  BY <1>1, <1>d, <1>e, <1>f
<1>2. ASSUME NEW t \in Tokens, NEW r \in Requests, Enroll(a, t, r)
      PROVE  /\ client'[a].pc = "wait" /\ client'[a].req = r
             /\ request'[r].agent = a /\ request'[r].pc = "consume"
             /\ disk'[a].device = disk[a].device /\ disk'[a].cert = disk[a].cert
  BY <1>2, <1>a DEF Enroll, Files
<1>3. ASSUME Receive(a)
      PROVE  /\ client'[a] = [pc |-> "device", req |-> client[a].req] /\ disk' = disk
             /\ client[a].pc = "wait" /\ request'[client[a].req].pc = "reply"
  <2>1. client[a].pc = "wait" /\ request[client[a].req].pc = "reply" /\ request' = request
    BY <1>3 DEF Receive
  <2>2. client' = [client EXCEPT ![a] = [pc |-> "device", req |-> client[a].req]]
    BY <1>3, <2>1, Going DEF Receive
  <2> QED
    BY <1>3, <1>a, <2>1, <2>2 DEF Receive
<1>4. ASSUME GiveUp(a) PROVE client'[a].pc = "idle" /\ disk' = disk
  BY <1>4, <1>a DEF GiveUp, Quits
<1>5. ASSUME SaveFails(a)
      PROVE  /\ client'[a].pc = "idle"
             /\ disk'[a].device \in {0, disk[a].device} /\ disk'[a].cert \in {0, disk[a].cert}
  BY <1>5, <1>a DEF SaveFails, Quits, Files
<1>6. ASSUME SaveIdentity(a)
      PROVE  /\ client'[a].pc = "idle" \/ (client'[a].pc \in Saves /\ client'[a].req = client[a].req)
             /\ disk'[a].device \in {disk[a].device, Answer(a).id}
             /\ disk'[a].cert \in {disk[a].cert, Answer(a).id}
             /\ client[a].pc \in Saves
  BY <1>6, <1>a DEF SaveIdentity, Goes, Quits, Saves, Files, Edge
<1>7. CASE SaveIdentity(a)
  <2>1. Gave(a, Answer(a).id)
    BY <1>6, <1>7, Saving
  <2> DEFINE n == Answer(a).id
  <2>2. ASSUME NEW i, i = n PROVE Gave(a, i)'
    BY <1>c, <2>1, <2>2
  <2> QED
    BY <1>6, <1>7, <1>d, <1>e, <1>f, <2>2 DEF Saves
<1>8. CASE \E t \in Tokens, r \in Requests : Enroll(a, t, r)
  BY <1>2, <1>8, <1>f DEF Saves
<1>9. CASE Receive(a)
  BY <1>3, <1>9, <1>d, <1>f
<1>10. CASE GiveUp(a)
  BY <1>4, <1>10, <1>f DEF Saves
<1>11. CASE SaveFails(a)
  BY <1>5, <1>11, <1>f DEF Saves
<1> QED
  BY <1>1, <1>7, <1>8, <1>9, <1>10, <1>11, EdgeStep

\* A fault is counted for good.
LEMMA FaultsStep == TypeOK /\ [Next]_vars /\ faults' = 0 => faults = 0
<1> SUFFICES ASSUME TypeOK, [Next]_vars PROVE faults' \in {faults, faults + 1}
  BY DEF TypeOK
<1>1. ASSUME \/ UNCHANGED vars
             \/ ServerRestart
             \/ \E t \in Tokens : NewToken(t)
             \/ \E w \in Writers : ReadRecord(w)
             \/ \E a \in Agents, t \in Tokens, r \in Requests : Enroll(a, t, r)
             \/ \E a \in Agents : KeyTorn(a) \/ Receive(a) \/ GiveUp(a) \/ SaveIdentity(a) \/ SaveFails(a)
      PROVE  faults' \in {faults, faults + 1}
  BY <1>1 DEF vars, ServerRestart, NewToken, Stored, ReadRecord, Enroll, KeyTorn, Receive, GiveUp, SaveIdentity, SaveFails, Fault
<1>2. ASSUME NEW r \in Requests, Consume(r) \/ Create(r) \/ Certify(r) PROVE faults' \in {faults, faults + 1}
  BY <1>2 DEF Consume, Create, Certify, Stored, NotStored, Fault
<1>3. ASSUME NEW w \in Writers, WriteRecord(w) PROVE faults' \in {faults, faults + 1}
  BY <1>3 DEF WriteRecord, Stored, NotStored, Fault
<1>4. ASSUME NEW rec \in mem.devs, DeleteDevice(rec) PROVE faults' \in {faults, faults + 1}
  BY <1>4 DEF DeleteDevice, Stored, NotStored, Fault
<1> QED
  BY <1>1, <1>2, <1>3, <1>4 DEF Next

\* Without a fault the saving of an identity runs to its end.
LEMMA MatchedStep == TypeOK /\ Held /\ Matched /\ [Next]_vars => Matched'
<1> SUFFICES ASSUME TypeOK, Held, Matched, [Next]_vars, faults' = 0, NEW a \in Agents
             PROVE  /\ client'[a].pc \in {"idle", "wait", "device"} /\ disk'[a].device # 0 => Fits(a)'
                    /\ client'[a].pc \in {"tenant", "cert"} => disk'[a].device = request'[client'[a].req].id
                    /\ client'[a].pc = "cert" => disk'[a].tenant = TenantOf[request'[client'[a].req].token]
  BY DEF Matched, Answer
<1>0. faults = 0
  BY FaultsStep
<1>a. client \in [Agents -> Edge] /\ disk \in [Agents -> Files] /\ request \in [Requests -> {Unsent} \cup Sent]
  BY DEF TypeOK, Edge, Files, Sent
<1>b. client[a].pc \in Saves => /\ client[a].req \in Requests /\ Confirmed(client[a].req)
                                /\ request'[client[a].req] = request[client[a].req]
  BY Saving, StaysConfirmed
<1>c. ASSUME Fits(a), disk'[a].device = disk[a].device, disk'[a].tenant = disk[a].tenant PROVE Fits(a)'
  <2>1. PICK r \in Requests : /\ Confirmed(r) /\ request[r].id = disk[a].device
                              /\ TenantOf[request[r].token] = disk[a].tenant
    BY <1>c DEF Fits
  <2> QED
    BY <1>c, <2>1, StaysConfirmed DEF Fits, Confirmed
<1>d. client[a].pc \in {"idle", "wait", "device"} /\ disk[a].device # 0 => Fits(a)
  BY <1>0 DEF Matched
<1>1. CASE /\ client'[a] = client[a] /\ disk'[a].device = disk[a].device
           /\ disk'[a].tenant = disk[a].tenant /\ disk'[a].cert = disk[a].cert
  <2>1. client[a].pc \in {"tenant", "cert"} => disk[a].device = request[client[a].req].id
    BY <1>0 DEF Matched, Answer
  <2>2. client[a].pc = "cert" => disk[a].tenant = TenantOf[request[client[a].req].token]
    BY <1>0 DEF Matched, Answer
  <2> QED
    BY <1>1, <1>b, <1>c, <1>d, <2>1, <2>2 DEF Saves
<1>2. ASSUME NEW t \in Tokens, NEW r \in Requests, Enroll(a, t, r)
      PROVE  /\ client'[a].pc = "wait" /\ client[a].pc = "idle"
             /\ disk'[a].device = disk[a].device /\ disk'[a].tenant = disk[a].tenant
  BY <1>2, <1>a DEF Enroll, Files
<1>3. ASSUME Receive(a) PROVE client'[a].pc = "device" /\ client[a].pc = "wait" /\ disk' = disk
  BY <1>3, <1>a DEF Receive, Goes, Edge
<1>4. ASSUME GiveUp(a) PROVE client'[a].pc = "idle" /\ client[a].pc = "wait" /\ disk' = disk
  BY <1>4, <1>a DEF GiveUp, Quits
<1>5. ~SaveFails(a)
  BY <1>0 DEF SaveFails, Fault
<1>6. CASE SaveIdentity(a)
  <2>0. client[a].pc \in Saves /\ request' = request
    BY <1>6 DEF SaveIdentity, Saves
  <2>1. CASE client[a].pc = "device"
    <3>1. client'[a].pc = "tenant" /\ client'[a].req = client[a].req /\ disk'[a].device = Answer(a).id
      BY <1>6, <1>a, <2>1 DEF SaveIdentity, Goes, Edge, Files
    <3> QED
      BY <2>0, <3>1 DEF Answer
  <2>2. CASE client[a].pc = "tenant"
    <3>1. /\ client'[a].pc = "cert" /\ client'[a].req = client[a].req
          /\ disk'[a].device = disk[a].device /\ disk'[a].tenant = TenantOf[Answer(a).token]
      BY <1>6, <1>a, <2>2 DEF SaveIdentity, Goes, Edge, Files
    <3>2. disk[a].device = request[client[a].req].id
      BY <1>0, <2>2 DEF Matched, Answer
    <3> QED
      BY <2>0, <3>1, <3>2 DEF Answer
  <2>3. CASE client[a].pc = "cert"
    <3>1. client'[a].pc = "idle" /\ disk'[a].device = disk[a].device /\ disk'[a].tenant = disk[a].tenant
      BY <1>6, <1>a, <2>3 DEF SaveIdentity, Quits, Edge, Files
    <3>2. disk[a].device = request[client[a].req].id /\ disk[a].tenant = TenantOf[request[client[a].req].token]
      BY <1>0, <2>3 DEF Matched, Answer
    <3>3. Fits(a)
      BY <1>b, <2>0, <3>2 DEF Fits
    <3> QED
      BY <1>c, <3>1, <3>3
  <2> QED
    BY <2>0, <2>1, <2>2, <2>3 DEF Saves
<1>7. CASE \E t \in Tokens, r \in Requests : Enroll(a, t, r)
  BY <1>2, <1>7, <1>c, <1>d
<1>8. CASE Receive(a)
  BY <1>3, <1>8, <1>c, <1>d
<1>9. CASE GiveUp(a)
  BY <1>4, <1>9, <1>c, <1>d
<1> QED
  BY <1>1, <1>5, <1>6, <1>7, <1>8, <1>9, EdgeStep

-----------------------------------------------------------------------------
(* The theorems.                                                           *)

\* Nothing has happened yet.
LEMMA InitialInv == Init => IInv
<1> SUFFICES ASSUME Init PROVE IInv
  OBVIOUS
<1> USE EnrollmentAssumption
<1>1. TypeOK
  BY DEF Init, TypeOK, Store, Unsent
<1>2. \A r \in Requests : request[r].pc = "unsent"
  BY DEF Init, Unsent
<1>3. Past = {}
  BY <1>2 DEF Past
<1>4. Numbered
  BY <1>3, FS_EmptySet DEF Init, Numbered
<1>5. Once /\ Backed /\ Kept /\ RemovedStaysRemoved
  BY <1>2 DEF Init, Once, Backed, Kept, Confirmed, RemovedStaysRemoved
<1>6. Held /\ Matched
  BY DEF Init, Held, Matched, Saves
<1> QED
  BY <1>1, <1>4, <1>5, <1>6 DEF IInv

\* Every step keeps the invariant.
LEMMA Inductive == IInv /\ [Next]_vars => IInv'
BY TypeStep, NumberedStep, OnceStep, BackedStep, RemovedStep, KeptStep, HeldStep, MatchedStep DEF IInv

\* So it holds in every behaviour.
LEMMA Always == Spec => []IInv
BY InitialInv, Inductive, PTL DEF Spec

\* Store, handlers, edge-agentctl and identity files keep their types, and the
\* IDs that NewID gives stay within the number of requests.
THEOREM EnrollmentTypes == Spec => []TypeOK
<1>1. IInv => TypeOK
  BY DEF IInv
<1> QED
  BY <1>1, Always, PTL

\* ConsumeEnrollmentToken: a token brings forth at most one device record,
\* however requests interleave, writes fail and the server restarts.
THEOREM OneDevicePerToken == Spec => []TokenEnrollsOnce
<1>1. IInv => TokenEnrollsOnce
  <2> SUFFICES ASSUME IInv, NEW t \in Tokens PROVE Cardinality({x \in issued : x.token = t}) <= 1
    BY DEF TokenEnrollsOnce
  <2> DEFINE Rows == {x \in issued : x.token = t}
  <2>1. CASE Rows = {}
    BY <2>1, FS_EmptySet
  <2>2. ASSUME NEW x \in Rows PROVE Rows = {x}
    BY <2>2 DEF IInv, Once
  <2>3. ASSUME NEW x \in Rows PROVE Cardinality(Rows) = 1
    BY <2>2, <2>3, FS_Singleton
  <2> QED
    BY <2>1, <2>3
<1> QED
  BY <1>1, Always, PTL

\* SaveIdentity: the ID and the certificate on a device were issued to it.
THEOREM IdentityIsOwn == Spec => []OwnIdentity
<1>1. IInv => OwnIdentity
  <2> SUFFICES ASSUME IInv, NEW a \in Agents, NEW x \in issued, x.id \in {disk[a].device, disk[a].cert}
               PROVE  x.agent = a
    BY DEF OwnIdentity
  <2>1. x.id # 0
    BY EnrollmentAssumption DEF IInv, TypeOK, Ids
  <2>2. PICK r \in Requests : Confirmed(r) /\ request[r].agent = a /\ request[r].id = x.id
    BY <2>1 DEF IInv, Held, Gave
  <2>3. [id |-> request[r].id, token |-> request[r].token, agent |-> request[r].agent] \in issued
    BY <2>2 DEF IInv, Backed, Confirmed
  <2> QED
    BY <2>2, <2>3 DEF IInv, Numbered
<1> QED
  BY <1>1, Always, PTL

\* CreateDevice and UpdateDevice before the answer: an identity that loads is
\* known to the cloud, now and after a restart.
THEOREM IdentityIsKnown == Spec => []EnrolledIsKnown
<1>1. IInv => EnrolledIsKnown
  <2> SUFFICES ASSUME IInv, NEW a \in Agents, Loads(a), disk[a].device \notin doomed
               PROVE  \E rec \in mem.devs \cap file.devs :
                         /\ rec.id = disk[a].device
                         /\ client[a].pc = "idle" /\ faults = 0 => rec.tenant = disk[a].tenant
    BY DEF EnrolledIsKnown
  <2>1. PICK r \in Requests :
          /\ Confirmed(r) /\ request[r].id = disk[a].device
          /\ client[a].pc = "idle" /\ faults = 0 => TenantOf[request[r].token] = disk[a].tenant
    <3>1. CASE client[a].pc = "idle" /\ faults = 0
      BY <3>1 DEF IInv, Matched, Fits, Loads
    <3>2. CASE ~(client[a].pc = "idle" /\ faults = 0)
      BY <3>2 DEF IInv, Held, Gave, Loads
    <3> QED
      BY <3>1, <3>2
  <2>2. RecordOf(request[r]) \in mem.devs \cap file.devs
    BY <2>1 DEF IInv, Kept
  <2> QED
    BY <2>1, <2>2 DEF RecordOf
<1> QED
  BY <1>1, Always, PTL

\* DeleteDevice, against handlers that write back a copy and restarts.
THEOREM RemovedForGood == Spec => []RemovedStaysRemoved
<1>1. IInv => RemovedStaysRemoved
  BY DEF IInv
<1> QED
  BY <1>1, Always, PTL
=============================================================================
