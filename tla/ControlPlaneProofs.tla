------------------------- MODULE ControlPlaneProofs -------------------------
(***************************************************************************)
(* The invariants of ControlPlane, for any people, devices, requests,      *)
(* failed writes and runs of the seed program, at once or in turn.         *)
(***************************************************************************)
EXTENDS ControlPlane, TLAPS

\* A handler that is at work has been started by the running platform; what
\* was asked for is known once the request is sent.
Busy == Pcs \ {"unsent", "done"}
Working ==
    \A i \in Numbers : /\ req[i].pc = "unsent" => req[i].op = "none"
                       /\ req[i].pc \in Busy => up

\* Steps of some run of the seed program.
SomeOpen == \E n \in Seeds : SeedOpen(n)
SomeBootstrap == \E n \in Seeds : Bootstrap(n)

\* A run of the seed program that may still write has seen no installation,
\* that is an empty file.  Until the platform starts there is just the owner.
Installed ==
    /\ up => mem.org /\ file.org
    /\ ~file.org => file = Empty /\ refused = {}
    /\ \A n \in Seeds : seed[n].pc = "create" => seed[n].copy = Empty
    /\ ~up => file.devices = {} /\ \A m \in file.memberships : m.user = Owner

\* The owner is always there, and memory and file have the same accounts unless
\* a run of the seed program wrote over them: then the file has the owner only.
SameUsers ==
    /\ up => Owner \in EmailsOf(mem)
    /\ file.org => Owner \in EmailsOf(file)
    /\ up => \/ mem.users = file.users /\ mem.memberships = file.memberships
             \/ replaced /\ EmailsOf(file) = {Owner}

\* Sessions and settings as they were reported to clients.
Reported(s) ==
    /\ told.sessions \subseteq s.sessions
    /\ s.change > told.change \/ (s.change = told.change /\ s.settings = told.settings)

\* They are in the memory too, so the next write does not take them out of the
\* file.
Synced == SameUsers /\ (up /\ ~replaced => Reported(mem))

\* Who has asked for an account still has the role that allowed it.
Asked ==
    \A i \in Numbers : req[i].op = "user" /\ req[i].pc = "act" =>
        \E r \in RolesOf(mem, req[i].by) : canAssignRole(r, req[i].role)

\* The only copy of a record differs from it in what the request says.
Copies ==
    \A i \in Numbers : req[i].pc = "write" /\ req[i].dev \notin overlap =>
        /\ \A f \in Fields : Says(i, f) \/ req[i].copy[f] = mem.record[req[i].dev][f]
        /\ \A j \in Numbers : req[j].pc = "write" /\ req[j].dev = req[i].dev => j = i

-----------------------------------------------------------------------------
(* Types.                                                                  *)

\* The part of TypeOK about the requests.
Works(r) == r.pc \in {"read", "write"} \/ (r.pc = "act" /\ r.op \in AtDevice)
ReqOK == req \in [Numbers -> Request] /\ \A i \in Numbers : Works(req[i]) => req[i].dev \in Devices
DataOK == mem \in Data /\ file \in Data /\ faults \in 0..MaxFaults

\* What the handlers make of the data has its type.
LEMMA EmptyType == Empty \in Data /\ New \in Record
<1>1. New \in Record
  BY ControlBounds DEF New, Record
<1>2. [d \in Devices |-> New] \in [Devices -> Record]
  BY <1>1
<1> QED
  BY <1>1, <1>2, ControlBounds DEF Empty, Data

\* A change of one part of the data leaves the rest as it is.
LEMMA DataType ==
  ASSUME NEW s \in Data
  PROVE  /\ \A x \in SUBSET User, y \in SUBSET Membership :
               [s EXCEPT !.users = x, !.memberships = y] \in Data
         /\ \A x \in SUBSET Session : [s EXCEPT !.sessions = x] \in Data
         /\ \A x \in 0..MaxRequests, y \in Nat : [s EXCEPT !.settings = x, !.change = y] \in Data
         /\ \A x \in SUBSET Devices, y \in [Devices -> Record] :
               [s EXCEPT !.devices = x, !.record = y] \in Data
         /\ \A y \in [Devices -> Record] : [s EXCEPT !.record = y] \in Data
         /\ \A x \in SUBSET Devices : [s EXCEPT !.inventory = x] \in Data
         /\ \A x \in SUBSET Devices : [s EXCEPT !.telemetry = x] \in Data
         /\ \A x \in SUBSET Devices, y \in SUBSET Devices, z \in SUBSET Devices :
               [s EXCEPT !.devices = x, !.inventory = y, !.telemetry = z] \in Data
BY Zenon DEF Data

\* saveLocked, whether it succeeds or not.
LEMMA StoredType ==
  ASSUME DataOK, NEW s \in Data, Stored(s) \/ NotStored(s)
  PROVE  DataOK'
BY ControlBounds DEF DataOK, Stored, NotStored, Fault

\* A request that is sent, moves on or ends.
LEMMA RequestType ==
  ASSUME ReqOK, NEW i \in Numbers, NEW r \in Request, Works(r) => r.dev \in Devices,
         req' = [req EXCEPT ![i] = r]
  PROVE  ReqOK'
BY DEF ReqOK

\* A handler that moves on keeps its device.
LEMMA MovesType ==
  ASSUME ReqOK, NEW i \in Numbers, NEW p \in Pcs, Moves(i, p),
         p \in {"audit", "done"} \/ req[i].dev \in Devices
  PROVE  ReqOK'
<1> DEFINE r == [req[i] EXCEPT !.pc = p]
<1>1. req[i] \in Request
  BY DEF ReqOK
<1>2. r \in Request /\ r.pc = p /\ r.dev = req[i].dev
  BY <1>1 DEF Request
<1>3. req' = [req EXCEPT ![i] = r]
  BY DEF Moves
<1>4. Works(r) => r.dev \in Devices
  BY <1>2 DEF Works
<1> HIDE DEF r
<1> QED
  BY <1>2, <1>3, <1>4, RequestType

\* A handler that returns forgets its device.
LEMMA ReturnsType ==
  ASSUME ReqOK, NEW i \in Numbers, Returns(i)
  PROVE  ReqOK'
<1> DEFINE r == [req[i] EXCEPT !.pc = "done", !.dev = NoDevice, !.copy = New]
<1>1. req[i] \in Request
  BY DEF ReqOK
<1>2. r \in Request /\ r.pc = "done"
  BY <1>1, EmptyType DEF Request, Pcs
<1>3. req' = [req EXCEPT ![i] = r]
  BY DEF Returns
<1>4. ~Works(r)
  BY <1>2 DEF Works
<1> HIDE DEF r
<1> QED
  BY <1>2, <1>3, <1>4, RequestType

\* The forms in which the handlers send a request.
LEMMA UnsentType ==
  /\ Unsent \in Request
  /\ \A op \in Ops, pc \in Pcs : [Unsent EXCEPT !.op = op, !.pc = pc] \in Request
  /\ \A op \in Ops, pc \in Pcs, d \in Devices : [Unsent EXCEPT !.op = op, !.pc = pc, !.dev = d] \in Request
  /\ \A op \in Ops, pc \in Pcs, d \in Devices, c \in Record :
        [Unsent EXCEPT !.op = op, !.pc = pc, !.dev = d, !.copy = c] \in Request
  /\ \A op \in Ops, pc \in Pcs, e \in Persons, f \in Persons, r \in AllRoles :
        [Unsent EXCEPT !.op = op, !.pc = pc, !.by = e, !.email = f, !.role = r] \in Request
<1>1. "none" \in Ops /\ "unsent" \in Pcs /\ Owner \in Persons /\ "read_only_viewer" \in AllRoles
  BY DEF Ops, Pcs, Persons, AllRoles, RolePermissions
<1>2. Unsent \in Request
  BY <1>1, EmptyType DEF Unsent, Request
<1> QED
  BY <1>2, Zenon DEF Request

\* Every handler leaves requests that are well formed.
LEMMA ReqStep == TypeOK /\ [Next]_vars => ReqOK'
<1> SUFFICES ASSUME TypeOK, [Next]_vars PROVE ReqOK'
  OBVIOUS
<1>a. ReqOK
  BY DEF TypeOK, ReqOK, Works
<1>b. ASSUME NEW d \in Devices, NEW set, NEW i \in Numbers PROVE Edited(d, set, i) \in Record
  BY DEF Edited, Record, Numbers, TypeOK, Data
<1>c. mem.devices \subseteq Devices /\ Roles \subseteq AllRoles
  BY RolesAssumption DEF TypeOK, Data
<1>1. CASE SomeOpen \/ SomeBootstrap \/ Start
  BY <1>1, <1>a DEF SomeOpen, SeedOpen, SomeBootstrap, Bootstrap, Start, ReqOK
<1>2. CASE Restart
  <2> DEFINE Stop(r) == [r EXCEPT !.pc = "done", !.dev = NoDevice, !.copy = New]
  <2>1. ASSUME NEW r \in Request PROVE Stop(r) \in Request /\ ~Works(Stop(r))
    BY EmptyType DEF Request, Pcs, Works
  <2>2. req' = [i \in Numbers |-> IF req[i].pc = "unsent" THEN req[i] ELSE Stop(req[i])]
    BY <1>2 DEF Restart
  <2> HIDE DEF Stop
  <2> QED
    BY <1>a, <2>1, <2>2 DEF ReqOK
<1>3. ASSUME NEW i \in Numbers, SignedOut(i) PROVE ReqOK'
  BY <1>3, <1>a DEF SignedOut, ReqOK
<1>4. ASSUME NEW i \in Numbers, login(i) \/ deviceEnroll(i) PROVE ReqOK'
  <2>1. PICK op \in Ops, p \in {"audit", "done"} :
          req' = [req EXCEPT ![i] = [Unsent EXCEPT !.op = op, !.pc = p]]
    BY <1>4 DEF login, deviceEnroll, Send, Ops
  <2>2. [Unsent EXCEPT !.op = op, !.pc = p] \in Request /\ ~Works([Unsent EXCEPT !.op = op, !.pc = p])
    BY UnsentType DEF Pcs, Works, Unsent
  <2> QED
    BY <1>a, <2>1, <2>2, RequestType
<1>5. ASSUME NEW i \in Numbers, RequestUser(i) PROVE ReqOK'
  <2>1. PICK e \in Persons, email \in Persons, role \in Roles :
          req' = [req EXCEPT ![i] =
                    [Unsent EXCEPT !.op = "user", !.pc = "act", !.by = e, !.email = email, !.role = role]]
    BY <1>5 DEF RequestUser, Send
  <2> DEFINE r == [Unsent EXCEPT !.op = "user", !.pc = "act", !.by = e, !.email = email, !.role = role]
  <2>2. r \in Request
    <3>1. "user" \in Ops /\ "act" \in Pcs /\ role \in AllRoles
      BY <1>c DEF Ops, Pcs
    <3> QED
      BY <3>1, UnsentType, Zenon
  <2>3. ~Works(r)
    BY DEF Works, Unsent, AtDevice
  <2> HIDE DEF r
  <2> QED
    BY <1>a, <2>1, <2>2, <2>3, RequestType DEF r
<1>6. ASSUME NEW i \in Numbers, RequestSettings(i) PROVE ReqOK'
  <2>1. PICK op \in {"settings", "reset"} :
          req' = [req EXCEPT ![i] = [Unsent EXCEPT !.op = op, !.pc = "act"]]
    BY <1>6 DEF RequestSettings, Send
  <2>2. [Unsent EXCEPT !.op = op, !.pc = "act"] \in Request /\ ~Works([Unsent EXCEPT !.op = op, !.pc = "act"])
    BY UnsentType DEF Ops, Pcs, Works, Unsent, AtDevice
  <2> QED
    BY <1>a, <2>1, <2>2, RequestType
<1>7. ASSUME NEW i \in Numbers, deviceInventory(i) \/ deviceTelemetry(i) \/ RequestDelete(i) PROVE ReqOK'
  <2>1. PICK op \in Ops, d \in Devices :
          req' = [req EXCEPT ![i] = [Unsent EXCEPT !.op = op, !.pc = "act", !.dev = d]]
    BY <1>7, <1>c DEF deviceInventory, deviceTelemetry, RequestDelete, Send, Ops
  <2> DEFINE r == [Unsent EXCEPT !.op = op, !.pc = "act", !.dev = d]
  <2>2. r \in Request /\ r.dev \in Devices
    BY UnsentType DEF Pcs, Unsent
  <2> HIDE DEF r
  <2> QED
    BY <1>a, <2>1, <2>2, RequestType DEF r
<1>8. ASSUME NEW i \in Numbers, Patch(i) \/ deviceHeartbeat(i) PROVE ReqOK'
  <2>1. PICK op \in Ops, d \in Devices, c \in Record :
          req' = [req EXCEPT ![i] = [Unsent EXCEPT !.op = op, !.pc = "write", !.dev = d, !.copy = c]]
    <3>1. CASE Patch(i)
      BY <3>1, <1>b, <1>c DEF Patch, Send, Ops
    <3>2. CASE deviceHeartbeat(i)
      <4>1. ASSUME NEW d \in Devices, NEW set, NEW version \in {i, 0}
            PROVE  [Edited(d, set, i) EXCEPT !["agent"] = version] \in Record
        <5>1. Edited(d, set, i) \in Record /\ version \in 0..MaxRequests
          BY <1>b, ControlBounds DEF Numbers
        <5> QED
          BY <5>1, Zenon DEF Record
      <4>2. "heartbeat" \in Ops
        BY DEF Ops
      <4> QED
        BY <3>2, <1>c, <4>1, <4>2 DEF deviceHeartbeat, Send
    <3> QED
      BY <1>8, <3>1, <3>2
  <2> DEFINE r == [Unsent EXCEPT !.op = op, !.pc = "write", !.dev = d, !.copy = c]
  <2>2. r \in Request
    BY UnsentType DEF Pcs
  <2>3. r.dev \in Devices
    BY DEF Unsent
  <2> HIDE DEF r
  <2> QED
    BY <1>a, <2>1, <2>2, <2>3, RequestType DEF r
<1>9. ASSUME NEW i \in Numbers, ReadInventoried(i) PROVE ReqOK'
  <2>1. req[i] \in Request /\ req[i].dev \in Devices
    BY <1>9, <1>a DEF ReadInventoried, ReqOK, Works
  <2>2. CASE Returns(i)
    BY <1>a, <2>2, ReturnsType
  <2>3. CASE ~Returns(i)
    <3>0. PICK set : req' = [req EXCEPT ![i].pc = "write", ![i].copy = Edited(req[i].dev, set, i)]
      BY <1>9, <2>3 DEF ReadInventoried
    <3> DEFINE r == [req[i] EXCEPT !.pc = "write", !.copy = Edited(req[i].dev, set, i)]
    <3>1. req' = [req EXCEPT ![i] = r]
      BY <3>0
    <3>2. Edited(req[i].dev, set, i) \in Record
      BY <1>b, <2>1
    <3>3. r \in Request /\ r.dev \in Devices
      BY <2>1, <3>2 DEF Request, Pcs
    <3> HIDE DEF r
    <3> QED
      BY <1>a, <3>1, <3>3, RequestType
  <2> QED
    BY <2>2, <2>3
<1>10. ASSUME NEW i \in Numbers,
              CreateTenantUser(i) \/ Audit(i) \/ ChangeSettings(i) \/ SaveInventory(i)
                \/ UpdateDevice(i) \/ AddTelemetry(i) \/ DeleteDevice(i)
       PROVE  ReqOK'
  <2>1. Returns(i) \/ Moves(i, "audit") \/ (SaveInventory(i) /\ Moves(i, "read"))
    BY <1>10 DEF CreateTenantUser, CreateTenantUserFails, Audit, ChangeSettings, Answer, SaveInventory,
                 UpdateDevice, AddTelemetry, DeleteDevice
  <2>2. SaveInventory(i) => req[i].dev \in Devices
    BY <1>a DEF SaveInventory, ReqOK, Works, AtDevice
  <2> QED
    BY <1>a, <2>1, <2>2, ReturnsType, MovesType DEF Pcs
<1>11. CASE UNCHANGED vars
  BY <1>11, <1>a DEF vars, ReqOK
<1> QED
  BY <1>1, <1>2, <1>3, <1>4, <1>5, <1>6, <1>7, <1>8, <1>9, <1>10, <1>11
     DEF Next, SomeOpen, SomeBootstrap, Accounts, Registry

\* What the handlers and the seed program write is well formed.
LEMMA DataStep == TypeOK /\ [Next]_vars => DataOK'
<1> SUFFICES ASSUME TypeOK, [Next]_vars PROVE DataOK'
  OBVIOUS
<1>a. DataOK /\ mem \in Data /\ file \in Data
  BY DEF TypeOK, DataOK
<1>b. ReqOK
  BY DEF TypeOK, ReqOK, Works
<1>1. CASE SomeOpen \/ Start \/ Restart
  BY <1>1, <1>a DEF SomeOpen, SeedOpen, Start, Restart, DataOK, data
<1>2. ASSUME NEW n \in Seeds, Bootstrap(n) PROVE DataOK'
  <2>1. ASSUME NEW p \in Passwords
        PROVE  [seed[n].copy EXCEPT !.org = TRUE, !.users = @ \cup {[email |-> Owner, password |-> p]},
                 !.memberships = @ \cup {[user |-> Owner, role |-> "organization_owner"]}] \in Data
    <3>1. seed[n].copy \in Data
      BY DEF TypeOK
    <3>2. seed[n].copy.users \cup {[email |-> Owner, password |-> p]} \in SUBSET User
      BY <3>1 DEF Data, User, Persons
    <3>3. seed[n].copy.memberships \cup {[user |-> Owner, role |-> "organization_owner"]} \in SUBSET Membership
      BY <3>1 DEF Data, Membership, Persons, AllRoles, RolePermissions
    <3> QED
      BY <3>1, <3>2, <3>3, Zenon DEF Data
  <2>2. file' \in Data
    BY <1>2, <2>1, <1>a DEF Bootstrap, Passwords
  <2>3. mem' = mem /\ faults' \in 0..MaxFaults
    BY <1>2, ControlBounds DEF Bootstrap, Fault, TypeOK
  <2> QED
    BY <1>a, <2>2, <2>3 DEF DataOK
<1>3. ASSUME NEW i \in Numbers,
             SignedOut(i) \/ RequestUser(i) \/ RequestSettings(i) \/ Patch(i) \/ deviceHeartbeat(i)
               \/ deviceInventory(i) \/ ReadInventoried(i) \/ deviceTelemetry(i) \/ RequestDelete(i)
      PROVE  DataOK'
  BY <1>3, <1>a DEF SignedOut, RequestUser, RequestSettings, Patch, deviceHeartbeat, deviceInventory,
                    ReadInventoried, deviceTelemetry, RequestDelete, data, DataOK
<1>4. ASSUME NEW i \in Numbers, login(i) PROVE DataOK'
  <2>1. PICK u \in mem.users :
          LET s == [mem EXCEPT !.sessions = @ \cup {[token |-> i, user |-> u.email]}] IN Stored(s) \/ NotStored(s)
    BY <1>4 DEF login
  <2>2. mem.sessions \cup {[token |-> i, user |-> u.email]} \in SUBSET Session
    BY <1>a DEF Data, Session, User
  <2> QED
    BY <1>a, <2>1, <2>2, DataType, StoredType
<1>5. ASSUME NEW i \in Numbers, CreateTenantUser(i) PROVE DataOK'
  <2> DEFINE user == [email |-> req[i].email, password |-> "first"]
             membership == [user |-> req[i].email, role |-> req[i].role]
             s == [mem EXCEPT !.users = @ \cup {user}, !.memberships = @ \cup {membership}]
  <2>1. user \in User /\ membership \in Membership
    BY <1>b DEF ReqOK, Request, User, Membership, Passwords
  <2>2. mem.users \in SUBSET User /\ mem.memberships \in SUBSET Membership
    BY <1>a DEF Data
  <2>3. s \in Data
    BY <1>a, <2>1, <2>2, DataType
  <2>4. Undone(s, user, membership) \in Data
    <3>1. s.users \ {user} \in SUBSET User /\ s.memberships \ {membership} \in SUBSET Membership
      BY <2>3 DEF Data
    <3> QED
      BY <2>3, <3>1, DataType DEF Undone
  <2>5. \/ UNCHANGED <<data, faults>>
        \/ Stored(s)
        \/ mem' = Undone(s, user, membership) /\ UNCHANGED file /\ Fault
    BY <1>5 DEF CreateTenantUser, CreateTenantUserFails
  <2> HIDE DEF s, user, membership
  <2> QED
    BY <1>a, <2>3, <2>4, <2>5, StoredType, ControlBounds DEF DataOK, data, Fault
<1>6. ASSUME NEW i \in Numbers, Audit(i) PROVE DataOK'
  BY <1>6, <1>a, StoredType DEF Audit
<1>7. ASSUME NEW i \in Numbers, ChangeSettings(i) PROVE DataOK'
  <2> DEFINE s == [mem EXCEPT !.settings = IF req[i].op = "settings" THEN i ELSE 0, !.change = @ + 1]
  <2>1. (IF req[i].op = "settings" THEN i ELSE 0) \in 0..MaxRequests /\ mem.change + 1 \in Nat
    BY <1>a, ControlBounds DEF Numbers, Data
  <2>2. s \in Data
    BY <1>a, <2>1, DataType
  <2>3. Stored(s) \/ NotStored(s)
    BY <1>7 DEF ChangeSettings, Answer
  <2> HIDE DEF s
  <2> QED
    BY <1>a, <2>2, <2>3, StoredType
<1>8. ASSUME NEW i \in Numbers, deviceEnroll(i) PROVE DataOK'
  <2>1. PICK d \in Devices :
          LET s == [mem EXCEPT !.devices = @ \cup {d}, !.record[d] = New] IN Stored(s) \/ NotStored(s)
    BY <1>8 DEF deviceEnroll
  <2>2. mem.devices \cup {d} \in SUBSET Devices /\ [mem.record EXCEPT ![d] = New] \in [Devices -> Record]
    BY <1>a, EmptyType DEF Data
  <2>3. [mem EXCEPT !.devices = @ \cup {d}, !.record[d] = New] \in Data
    BY <1>a, <2>2 DEF Data
  <2> QED
    BY <1>a, <2>1, <2>3, StoredType
<1>9. ASSUME NEW i \in Numbers, SaveInventory(i) \/ UpdateDevice(i) \/ AddTelemetry(i) \/ DeleteDevice(i)
      PROVE  DataOK'
  <2> DEFINE d == req[i].dev
             r == [mem EXCEPT !.record[d] = req[i].copy]
             v == [mem EXCEPT !.inventory = @ \cup {d}]
             w == [mem EXCEPT !.telemetry = @ \cup {d}]
             x == [mem EXCEPT !.devices = @ \ {d}, !.inventory = @ \ {d}, !.telemetry = @ \ {d}]
  <2>1. d \in Devices /\ req[i].copy \in Record
    <3>1. req[i].pc = "write" \/ (req[i].pc = "act" /\ req[i].op \in AtDevice)
      BY <1>9 DEF SaveInventory, UpdateDevice, AddTelemetry, DeleteDevice, AtDevice
    <3> QED
      BY <3>1, <1>b DEF ReqOK, Works, Request
  <2>2. r \in Data
    <3>1. [mem.record EXCEPT ![d] = req[i].copy] \in [Devices -> Record]
      BY <1>a, <2>1 DEF Data
    <3> QED
      BY <1>a, <3>1, DataType
  <2>3. v \in Data /\ w \in Data
    <3>1. mem.inventory \cup {d} \in SUBSET Devices /\ mem.telemetry \cup {d} \in SUBSET Devices
      BY <1>a, <2>1 DEF Data
    <3> QED
      BY <1>a, <3>1, DataType
  <2>4. x \in Data
    <3>1. mem.devices \ {d} \in SUBSET Devices /\ mem.inventory \ {d} \in SUBSET Devices
          /\ mem.telemetry \ {d} \in SUBSET Devices
      BY <1>a DEF Data
    <3> QED
      BY <1>a, <3>1, DataType
  <2>5. \/ UNCHANGED <<data, faults>> \/ Stored(r) \/ NotStored(r) \/ Stored(v) \/ NotStored(v)
        \/ Stored(w) \/ NotStored(w) \/ Stored(x) \/ NotStored(x)
    BY <1>9 DEF SaveInventory, UpdateDevice, AddTelemetry, DeleteDevice
  <2> HIDE DEF r, v, w, x
  <2> QED
    BY <1>a, <2>2, <2>3, <2>4, <2>5, StoredType DEF DataOK, data
<1>10. CASE UNCHANGED vars
  BY <1>10, <1>a DEF vars, DataOK
<1> QED
  BY <1>1, <1>2, <1>3, <1>4, <1>5, <1>6, <1>7, <1>8, <1>9, <1>10
     DEF Next, SomeOpen, SomeBootstrap, Accounts, Registry

Told == [users : SUBSET [email : Persons, password : Passwords, role : AllRoles],
         sessions : SUBSET Session, change : Nat, settings : 0..MaxRequests]
RestOK ==
    /\ up \in BOOLEAN /\ cookies \subseteq Numbers
    /\ seed \in [Seeds -> [pc : {"idle", "create"}, copy : Data]] /\ replaced \in BOOLEAN
    /\ told \in Told /\ refused \subseteq Persons /\ latest \in [Devices -> Record]
    /\ overlap \subseteq Devices

\* So is what is remembered of the answers and of the handlers' copies.
LEMMA RestStep == TypeOK /\ [Next]_vars => RestOK'
<1> SUFFICES ASSUME TypeOK, [Next]_vars PROVE RestOK'
  OBVIOUS
<1>a. RestOK /\ told \in Told
  BY DEF TypeOK, RestOK, Told
<1>b. ReqOK
  BY DEF TypeOK, ReqOK, Works
<1>c. mem \in Data /\ file \in Data
  BY DEF TypeOK
<1>d. \A d \in Devices : NoteOverlap(d) => overlap' \subseteq Devices
  BY <1>a DEF NoteOverlap, RestOK
<1>1. CASE SomeOpen
  BY <1>1, <1>a, <1>c DEF SomeOpen, SeedOpen, RestOK, history
<1>2. ASSUME NEW n \in Seeds, Bootstrap(n) PROVE RestOK'
  <2>1. ASSUME NEW p \in Passwords
        PROVE  [told EXCEPT !.users = @ \cup {[email |-> Owner, password |-> p, role |-> "organization_owner"]}] \in Told
    BY <1>a DEF Told, Persons, AllRoles, RolePermissions
  <2>2. told' \in Told
    BY <1>2, <1>a, <2>1 DEF Bootstrap, Passwords
  <2>3. seed' \in [Seeds -> [pc : {"idle", "create"}, copy : Data]]
    <3>1. [pc |-> "idle", copy |-> Empty] \in [pc : {"idle", "create"}, copy : Data]
      BY EmptyType
    <3> QED
      BY <1>2, <1>a, <3>1 DEF Bootstrap, RestOK
  <2>4. replaced' \in BOOLEAN
    BY <1>2, <1>a, <1>c DEF Bootstrap, RestOK, Data
  <2> QED
    BY <1>2, <1>a, <2>2, <2>3, <2>4 DEF Bootstrap, RestOK
<1>3. CASE Start
  BY <1>3, <1>a, Zenon DEF Start, RestOK, seeding, history
<1>4. CASE Restart
  BY <1>4, <1>a, <1>c DEF Restart, RestOK, seeding, Data
<1>5. ASSUME NEW i \in Numbers, SignedOut(i) PROVE RestOK'
  BY <1>5, <1>a DEF SignedOut, RestOK, seeding, history
<1>6. ASSUME NEW i \in Numbers,
             RequestUser(i) \/ RequestSettings(i) \/ Audit(i) \/ deviceInventory(i) \/ SaveInventory(i)
               \/ deviceTelemetry(i) \/ AddTelemetry(i) \/ RequestDelete(i) \/ DeleteDevice(i)
      PROVE  RestOK'
  <2>1. UNCHANGED <<up, cookies, seed, replaced, told, refused, latest, overlap>>
    BY <1>6 DEF RequestUser, RequestSettings, Audit, deviceInventory, SaveInventory, deviceTelemetry,
                AddTelemetry, RequestDelete, DeleteDevice, seeding, history
  <2> QED
    BY <1>a, <2>1 DEF RestOK
<1>7. ASSUME NEW i \in Numbers, login(i) PROVE RestOK'
  <2>1. PICK u \in mem.users :
          /\ cookies' \in {cookies, cookies \cup {i}}
          /\ told' \in {told, [told EXCEPT !.sessions = @ \cup {[token |-> i, user |-> u.email]}]}
    BY <1>7 DEF login
  <2>2. told' \in Told
    BY <1>a, <1>c, <2>1 DEF Told, Session, Data, User
  <2> QED
    BY <1>7, <1>a, <2>1, <2>2 DEF login, RestOK, seeding
<1>8. ASSUME NEW i \in Numbers, CreateTenantUser(i) PROVE RestOK'
  <2>1. req[i].email \in Persons /\ req[i].role \in AllRoles
    BY <1>b DEF ReqOK, Request
  <2>2. [told EXCEPT !.users = @ \cup {[email |-> req[i].email, password |-> "first", role |-> req[i].role]}] \in Told
    BY <1>a, <2>1 DEF Told, Passwords
  <2>3. told' \in Told /\ refused' \subseteq Persons
    BY <1>8, <1>a, <2>1, <2>2 DEF CreateTenantUser, CreateTenantUserFails, RestOK
  <2> QED
    BY <1>8, <1>a, <2>3 DEF CreateTenantUser, RestOK, seeding
<1>9. ASSUME NEW i \in Numbers, ChangeSettings(i) PROVE RestOK'
  <2> DEFINE s == [mem EXCEPT !.settings = IF req[i].op = "settings" THEN i ELSE 0, !.change = @ + 1]
  <2>1. s.settings \in 0..MaxRequests /\ s.change \in Nat
    BY <1>c, ControlBounds DEF Numbers, Data
  <2>2. told' \in {told, [told EXCEPT !.change = s.change, !.settings = s.settings]}
    BY <1>9 DEF ChangeSettings, Answer
  <2> HIDE DEF s
  <2>3. told' \in Told
    BY <1>a, <2>1, <2>2 DEF Told
  <2> QED
    BY <1>9, <1>a, <2>3 DEF ChangeSettings, RestOK, seeding
<1>10. ASSUME NEW i \in Numbers, deviceEnroll(i) PROVE RestOK'
  BY <1>10, <1>a, EmptyType DEF deviceEnroll, RestOK, seeding
<1>11. ASSUME NEW i \in Numbers, Patch(i) \/ deviceHeartbeat(i) PROVE RestOK'
  <2>1. \E d \in Devices : NoteOverlap(d)
    BY <1>11, <1>c DEF Patch, deviceHeartbeat, Data
  <2> QED
    BY <1>11, <1>a, <1>d, <2>1 DEF Patch, deviceHeartbeat, RestOK, seeding
<1>12. ASSUME NEW i \in Numbers, ReadInventoried(i) PROVE RestOK'
  <2>1. overlap' \subseteq Devices
    BY <1>12, <1>a, <1>c, <1>d DEF ReadInventoried, RestOK, Data
  <2> QED
    BY <1>12, <1>a, <2>1 DEF ReadInventoried, RestOK, seeding
<1>13. ASSUME NEW i \in Numbers, UpdateDevice(i) PROVE RestOK'
  <2>1. latest' \in [Devices -> Record]
    <3>1. ASSUME NEW old \in Record
          PROVE  [f \in Fields |-> IF Says(i, f) THEN req[i].copy[f] ELSE old[f]] \in Record
      <4>1. req[i].copy \in Record
        BY <1>b DEF ReqOK, Request
      <4> QED
        BY <4>1 DEF Record
    <3>2. \/ latest' = latest
          \/ latest' = [latest EXCEPT ![req[i].dev] = [f \in Fields |-> IF Says(i, f) THEN req[i].copy[f] ELSE @[f]]]
      BY <1>13 DEF UpdateDevice
    <3> QED
      BY <1>a, <3>1, <3>2 DEF RestOK
  <2> QED
    BY <1>13, <1>a, <2>1 DEF UpdateDevice, RestOK, seeding
<1>14. CASE UNCHANGED vars
  BY <1>14, <1>a DEF vars, RestOK
<1> QED
  BY <1>1, <1>2, <1>3, <1>4, <1>5, <1>6, <1>7, <1>8, <1>9, <1>10, <1>11, <1>12, <1>13, <1>14
     DEF Next, SomeOpen, SomeBootstrap, Accounts, Registry

\* Together: every step keeps the types.
LEMMA TypeStep == TypeOK /\ [Next]_vars => TypeOK'
<1> SUFFICES ASSUME TypeOK, [Next]_vars PROVE TypeOK'
  OBVIOUS
<1>1. DataOK' /\ ReqOK' /\ RestOK'
  BY DataStep, ReqStep, RestStep
<1> QED
  BY <1>1 DEF DataOK, ReqOK, Works, RestOK, Told, TypeOK

\* The first state has the types too.
LEMMA TypeInit == Init => TypeOK
<1> SUFFICES ASSUME Init PROVE TypeOK
  OBVIOUS
<1>1. mem \in Data /\ file \in Data /\ seed \in [Seeds -> [pc : {"idle", "create"}, copy : Data]]
  BY EmptyType DEF Init
<1>2. req \in [Numbers -> Request] /\ \A i \in Numbers : req[i].pc = "unsent"
  BY UnsentType DEF Init, Unsent
<1>3. told \in Told
  BY ControlBounds DEF Init, Told
<1>4. latest \in [Devices -> Record]
  BY EmptyType DEF Init
<1>5. faults \in 0..MaxFaults
  BY ControlBounds DEF Init
<1>6. replaced \in BOOLEAN
  BY DEF Init
<1> QED
  BY <1>1, <1>2, <1>3, <1>4, <1>5, <1>6 DEF Init, TypeOK, Told

\* Accounts, device records and what the handlers hold keep their types, for
\* any people, devices and requests; a handler that works on a device knows it.
THEOREM ControlTypes == Spec => []TypeOK
BY TypeInit, TypeStep, PTL DEF Spec

-----------------------------------------------------------------------------
(* What a step can do, in general.                                         *)

\* A step leaves the requests alone, sends one, or moves one that is at work.
LEMMA ReqForm ==
  ASSUME TypeOK, [Next]_vars
  PROVE  \/ req' = req
         \/ Restart
         \/ \E i \in Numbers, r \in Request : Ready(i) /\ r.pc # "unsent" /\ Send(i, r)
         \/ \E i \in Numbers : req[i].pc \in Busy /\ Returns(i)
         \/ \E i \in Numbers, p \in {"audit", "read"} : req[i].pc \in Busy /\ Moves(i, p)
         \/ \E i \in Numbers, c \in Record : /\ req[i].pc = "read"
                                /\ req' = [req EXCEPT ![i].pc = "write", ![i].copy = c]
<1>a. ReqOK'
  BY ReqStep
<1>1. CASE SomeOpen \/ SomeBootstrap \/ Start \/ UNCHANGED vars
  BY <1>1 DEF SomeOpen, SeedOpen, SomeBootstrap, Bootstrap, Start, vars
<1>2. CASE Restart
  BY <1>2
<1>3. ASSUME NEW i \in Numbers, SignedOut(i) PROVE req' = req
  BY <1>3 DEF SignedOut
<1>4. ASSUME NEW i \in Numbers,
             login(i) \/ deviceEnroll(i) \/ RequestUser(i) \/ RequestSettings(i) \/ deviceInventory(i)
               \/ deviceTelemetry(i) \/ RequestDelete(i) \/ Patch(i) \/ deviceHeartbeat(i)
      PROVE  \E r \in Request : Ready(i) /\ r.pc # "unsent" /\ Send(i, r)
  <2>0. Ready(i)
    BY <1>4 DEF login, deviceEnroll, RequestUser, RequestSettings, deviceInventory, deviceTelemetry,
                RequestDelete, Patch, deviceHeartbeat
  <2>1. PICK r : r.pc # "unsent" /\ Send(i, r)
    <3>1. CASE login(i) \/ deviceEnroll(i)
      BY <3>1 DEF login, deviceEnroll, Unsent
    <3>2. CASE RequestUser(i)
      BY <3>2 DEF RequestUser, Unsent
    <3>3. CASE RequestSettings(i)
      BY <3>3 DEF RequestSettings, Unsent
    <3>4. CASE deviceInventory(i) \/ deviceTelemetry(i) \/ RequestDelete(i)
      BY <3>4 DEF deviceInventory, deviceTelemetry, RequestDelete, Unsent
    <3>5. CASE Patch(i)
      BY <3>5 DEF Patch, Unsent
    <3>6. CASE deviceHeartbeat(i)
      BY <3>6 DEF deviceHeartbeat, Unsent
    <3> QED
      BY <1>4, <3>1, <3>2, <3>3, <3>4, <3>5, <3>6
  <2>2. r \in Request
    BY <1>a, <2>1 DEF Send, ReqOK, TypeOK
  <2> QED
    BY <2>0, <2>1, <2>2
<1>5. ASSUME NEW i \in Numbers, ReadInventoried(i)
      PROVE  \/ req[i].pc \in Busy /\ Returns(i)
             \/ \E c \in Record : req[i].pc = "read" /\ req' = [req EXCEPT ![i].pc = "write", ![i].copy = c]
  <2>1. req[i].pc = "read" /\ "read" \in Busy
    BY <1>5 DEF ReadInventoried, Busy, Pcs
  <2>2. CASE ~Returns(i)
    <3>1. PICK set : req' = [req EXCEPT ![i].pc = "write", ![i].copy = Edited(req[i].dev, set, i)]
      BY <1>5, <2>2 DEF ReadInventoried
    <3>2. Edited(req[i].dev, set, i) \in Record
      <4>1. req[i].dev \in Devices
        BY <2>1 DEF TypeOK
      <4> QED
        BY <4>1 DEF Edited, Record, Numbers, TypeOK, Data
    <3> QED
      BY <2>1, <3>1, <3>2
  <2> QED
    BY <2>1, <2>2
<1>6. ASSUME NEW i \in Numbers,
              CreateTenantUser(i) \/ Audit(i) \/ ChangeSettings(i) \/ SaveInventory(i)
                \/ UpdateDevice(i) \/ AddTelemetry(i) \/ DeleteDevice(i)
      PROVE  req[i].pc \in Busy /\ (Returns(i) \/ Moves(i, "audit") \/ Moves(i, "read"))
  BY <1>6 DEF CreateTenantUser, CreateTenantUserFails, Audit, ChangeSettings, Answer, SaveInventory,
                 UpdateDevice, AddTelemetry, DeleteDevice, Busy, Pcs
<1> QED
  BY <1>1, <1>2, <1>3, <1>4, <1>5, <1>6 DEF Next, SomeOpen, SomeBootstrap, Accounts, Registry

\* Only the seed program, a start and the creation of an account touch users
\* and memberships; and all writes replace the file by the memory.
SameAccounts ==
    mem'.users = mem.users /\ mem'.memberships = mem.memberships /\ mem'.org = mem.org
LEMMA AccountFrame ==
  ASSUME TypeOK, [Next]_vars, ~SomeBootstrap, ~Start, ~Restart, \A i \in Numbers : ~CreateTenantUser(i)
  PROVE  SameAccounts /\ file' \in {file, mem'} /\ up' = up /\ UNCHANGED <<refused, replaced>>
<1>a. mem \in Data
  BY DEF TypeOK
<1>1. CASE SomeOpen \/ UNCHANGED vars
  BY <1>1 DEF SomeOpen, SeedOpen, vars, data, history, seeding, SameAccounts
<1>2. ASSUME NEW i \in Numbers,
             SignedOut(i) \/ RequestUser(i) \/ RequestSettings(i) \/ Patch(i) \/ deviceHeartbeat(i)
               \/ deviceInventory(i) \/ ReadInventoried(i) \/ deviceTelemetry(i) \/ RequestDelete(i)
      PROVE  SameAccounts /\ file' \in {file, mem'} /\ up' = up /\ UNCHANGED <<refused, replaced>>
  BY <1>2 DEF SignedOut, RequestUser, RequestSettings, Patch, deviceHeartbeat, deviceInventory,
              ReadInventoried, deviceTelemetry, RequestDelete, data, history, seeding, SameAccounts
<1>3. ASSUME NEW i \in Numbers, login(i) \/ Audit(i) \/ ChangeSettings(i)
      PROVE  SameAccounts /\ file' \in {file, mem'} /\ up' = up /\ UNCHANGED <<refused, replaced>>
  <2>1. CASE login(i)
    BY <2>1, <1>a DEF login, Stored, NotStored, seeding, SameAccounts, Data
  <2>2. CASE Audit(i)
    BY <2>2 DEF Audit, Stored, NotStored, seeding, SameAccounts, history
  <2>3. CASE ChangeSettings(i)
    BY <2>3, <1>a DEF ChangeSettings, Answer, Stored, NotStored, seeding, SameAccounts, Data
  <2> QED
    BY <1>3, <2>1, <2>2, <2>3
<1>4. ASSUME NEW i \in Numbers, deviceEnroll(i) \/ UpdateDevice(i)
      PROVE  SameAccounts /\ file' \in {file, mem'} /\ up' = up /\ UNCHANGED <<refused, replaced>>
  <2>1. CASE deviceEnroll(i)
    BY <2>1, <1>a DEF deviceEnroll, Stored, NotStored, seeding, SameAccounts, Data
  <2>2. CASE UpdateDevice(i)
    BY <2>2, <1>a DEF UpdateDevice, Stored, NotStored, seeding, SameAccounts, data, Data
  <2> QED
    BY <1>4, <2>1, <2>2
<1>5. ASSUME NEW i \in Numbers, SaveInventory(i) \/ AddTelemetry(i) \/ DeleteDevice(i)
      PROVE  SameAccounts /\ file' \in {file, mem'} /\ up' = up /\ UNCHANGED <<refused, replaced>>
  BY <1>5, <1>a DEF SaveInventory, AddTelemetry, DeleteDevice, Stored, NotStored, seeding, SameAccounts, data, history, Data
<1> QED
  BY <1>1, <1>2, <1>3, <1>4, <1>5 DEF Next, SomeOpen, SomeBootstrap, Accounts, Registry

\* The platform is started once and for all.
LEMMA StaysUp == ASSUME TypeOK, [Next]_vars, up PROVE up'
<1>1. CASE \E i \in Numbers : CreateTenantUser(i)
  BY <1>1 DEF CreateTenantUser
<1>2. CASE SomeBootstrap \/ Start \/ Restart
  BY <1>2 DEF SomeBootstrap, Bootstrap, Start, Restart
<1> QED
  BY <1>1, <1>2, AccountFrame

\* What was asked for stays known.
LEMMA ReqFrame ==
  ASSUME TypeOK, [Next]_vars, NEW j \in Numbers
  PROVE  \/ req[j].pc = "unsent" /\ up /\ req'[j].pc # "unsent"
         \/ /\ req'[j].op = req[j].op /\ req'[j].by = req[j].by
            /\ req'[j].email = req[j].email /\ req'[j].role = req[j].role
            /\ req'[j].pc \in {req[j].pc, "done"} \/ (req[j].pc \in Busy /\ req'[j].pc \in {"audit", "read", "write"})
            /\ req'[j].pc = "unsent" <=> req[j].pc = "unsent"
<1>a. req \in [Numbers -> Request] /\ req[j] \in Request
  BY DEF TypeOK
<1>b. "read" \in Busy /\ "unsent" \notin Busy
  BY DEF Busy, Pcs
<1>1. CASE req' = req
  BY <1>1
<1>2. CASE Restart
  <2>1. req'[j] = IF req[j].pc = "unsent" THEN req[j]
                  ELSE [req[j] EXCEPT !.pc = "done", !.dev = NoDevice, !.copy = New]
    BY <1>2 DEF Restart
  <2> QED
    BY <1>a, <2>1 DEF Request
<1>3. ASSUME NEW i \in Numbers, NEW r \in Request, Ready(i), r.pc # "unsent", Send(i, r)
      PROVE  \/ req[j].pc = "unsent" /\ up /\ req'[j].pc # "unsent"
             \/ req'[j] = req[j]
  BY <1>3, <1>a DEF Send, Ready
<1>4. ASSUME NEW i \in Numbers, req[i].pc \in Busy, Returns(i)
      PROVE  req'[j] = req[j] \/ (req[j].pc \in Busy /\ req'[j] = [req[j] EXCEPT !.pc = "done", !.dev = NoDevice, !.copy = New])
  BY <1>4, <1>a DEF Returns
<1>5. ASSUME NEW i \in Numbers, NEW p \in {"audit", "read"}, req[i].pc \in Busy, Moves(i, p)
      PROVE  req'[j] = req[j] \/ (req[j].pc \in Busy /\ req'[j] = [req[j] EXCEPT !.pc = p])
  BY <1>5, <1>a DEF Moves
<1>6. ASSUME NEW i \in Numbers, NEW c \in Record, req[i].pc = "read",
             req' = [req EXCEPT ![i].pc = "write", ![i].copy = c]
      PROVE  req'[j] = req[j] \/ (req[j].pc = "read" /\ req'[j] = [req[j] EXCEPT !.pc = "write", !.copy = c])
  BY <1>6, <1>a
<1>7. CASE req'[j] = req[j]
  BY <1>7
<1>8. CASE req[j].pc \in Busy /\ req'[j] = [req[j] EXCEPT !.pc = "done", !.dev = NoDevice, !.copy = New]
  BY <1>8, <1>a, <1>b DEF Request
<1>9. ASSUME NEW p \in {"audit", "read"}, req[j].pc \in Busy, req'[j] = [req[j] EXCEPT !.pc = p]
      PROVE  /\ req'[j].op = req[j].op /\ req'[j].by = req[j].by
             /\ req'[j].email = req[j].email /\ req'[j].role = req[j].role
             /\ req'[j].pc = p /\ req[j].pc # "unsent"
  BY <1>9, <1>a, <1>b DEF Request
<1>10. ASSUME NEW c, req[j].pc = "read", req'[j] = [req[j] EXCEPT !.pc = "write", !.copy = c]
       PROVE  /\ req'[j].op = req[j].op /\ req'[j].by = req[j].by
              /\ req'[j].email = req[j].email /\ req'[j].role = req[j].role
              /\ req'[j].pc = "write" /\ req[j].pc \in Busy
  BY <1>10, <1>a, <1>b DEF Request
<1> QED
  BY <1>1, <1>2, <1>3, <1>4, <1>5, <1>6, <1>7, <1>8, <1>9, <1>10, ReqForm

\* Only the running platform starts handlers, and it stays up.
LEMMA WorkingStep == TypeOK /\ Working /\ [Next]_vars => Working'
<1> SUFFICES ASSUME TypeOK, Working, [Next]_vars, NEW j \in Numbers
             PROVE  /\ req'[j].pc = "unsent" => req'[j].op = "none"
                    /\ req'[j].pc \in Busy => up'
  BY DEF Working
<1>1. "done" \notin Busy /\ (up => up')
  BY StaysUp DEF Busy
<1> QED
  BY <1>1, ReqFrame DEF Working

-----------------------------------------------------------------------------
(* Accounts.                                                               *)

\* An account is created in memory and file, or both stay as they are: the
\* failed creation takes back exactly what it has added.
Added(i) ==
    /\ req[i].email \notin EmailsOf(mem)
    /\ mem' = [mem EXCEPT !.users = @ \cup {[email |-> req[i].email, password |-> "first"]},
                          !.memberships = @ \cup {[user |-> req[i].email, role |-> req[i].role]}]
    /\ file' = mem' /\ refused' = refused \ {req[i].email}
    /\ told' = [told EXCEPT !.users = @ \cup
                  {[email |-> req[i].email, password |-> "first", role |-> req[i].role]}]
NotAdded(i) ==
    /\ UNCHANGED <<mem, file, told>>
    /\ \/ UNCHANGED refused
       \/ req[i].email \notin EmailsOf(mem) /\ refused' = refused \cup {req[i].email}

\* CreateTenantUser has just these two outcomes.
LEMMA Created ==
  ASSUME TypeOK, AccountsConsistent, NEW i \in Numbers, CreateTenantUser(i)
  PROVE  Added(i) \/ NotAdded(i)
<1> DEFINE user == [email |-> req[i].email, password |-> "first"]
           membership == [user |-> req[i].email, role |-> req[i].role]
           s == [mem EXCEPT !.users = @ \cup {user}, !.memberships = @ \cup {membership}]
<1>1. mem \in Data
  BY DEF TypeOK
<1>2. ASSUME req[i].email \notin EmailsOf(mem) PROVE Undone(s, user, membership) = mem
  <2>1. user \notin mem.users
    BY <1>2 DEF EmailsOf
  <2>2. membership \notin mem.memberships
    BY <1>2 DEF AccountsConsistent
  <2>3. (mem.users \cup {user}) \ {user} = mem.users
        /\ (mem.memberships \cup {membership}) \ {membership} = mem.memberships
    BY <2>1, <2>2
  <2>4. s.users = mem.users \cup {user} /\ s.memberships = mem.memberships \cup {membership}
    BY <1>1 DEF Data
  <2>5. Undone(s, user, membership) = [s EXCEPT !.users = mem.users, !.memberships = mem.memberships]
    BY <2>3, <2>4 DEF Undone
  <2>6. [s EXCEPT !.users = mem.users, !.memberships = mem.memberships] = mem
    BY <1>1 DEF Data
  <2> QED
    BY <2>5, <2>6
<1>3. CASE req[i].email \in EmailsOf(mem)
  BY <1>3 DEF CreateTenantUser, CreateTenantUserFails, NotAdded, data
<1>4. CASE req[i].email \notin EmailsOf(mem) /\ Stored(s)
  <2>1. mem' = s /\ file' = s
    BY <1>4 DEF Stored
  <2>2. CASE NotAdded(i)
    BY <2>2
  <2>3. CASE CreateTenantUserFails(i, s, user, membership)
    BY <2>3, <1>2, <1>4 DEF CreateTenantUserFails, NotAdded
  <2>4. CASE ~CreateTenantUserFails(i, s, user, membership)
    BY <2>1, <2>4, <1>4 DEF CreateTenantUser, Added
  <2> QED
    BY <2>3, <2>4
<1>5. CASE req[i].email \notin EmailsOf(mem) /\ ~Stored(s)
  <2>1. CreateTenantUserFails(i, s, user, membership)
    BY <1>5 DEF CreateTenantUser
  <2> QED
    BY <2>1, <1>2, <1>5 DEF CreateTenantUserFails, NotAdded
<1> QED
  BY <1>3, <1>4, <1>5

\* Until the platform runs only the seed program writes.
LEMMA DownFrame ==
  ASSUME TypeOK, Working, [Next]_vars, ~up, ~SomeBootstrap
  PROVE  file' = file
<1>1. ASSUME NEW i \in Numbers PROVE req[i].pc \notin {"act", "audit", "read", "write"}
  BY DEF Working, Busy, Pcs
<1>2. ASSUME NEW i \in Numbers PROVE ~Ready(i)
  BY DEF Ready
<1>3. ASSUME NEW i \in Numbers, SignedOut(i) PROVE file' = file
  BY <1>3 DEF SignedOut, data
<1>4. ASSUME NEW i \in Numbers
      PROVE  /\ ~login(i) /\ ~RequestUser(i) /\ ~RequestSettings(i) /\ ~deviceEnroll(i) /\ ~Patch(i)
             /\ ~deviceHeartbeat(i) /\ ~deviceInventory(i) /\ ~deviceTelemetry(i) /\ ~RequestDelete(i)
  BY <1>2, Zenon DEF login, RequestUser, RequestSettings, deviceEnroll, Patch, deviceHeartbeat, deviceInventory,
              deviceTelemetry, RequestDelete
<1>5. ASSUME NEW i \in Numbers
      PROVE  /\ ~Audit(i) /\ ~ChangeSettings(i) /\ ~SaveInventory(i) /\ ~ReadInventoried(i)
             /\ ~UpdateDevice(i) /\ ~AddTelemetry(i) /\ ~DeleteDevice(i)
  BY <1>1 DEF Audit, ChangeSettings, SaveInventory, ReadInventoried, UpdateDevice, AddTelemetry, DeleteDevice
<1>6. CASE UNCHANGED vars
  BY <1>6 DEF vars
<1>7. CASE SomeOpen \/ Start \/ Restart
  BY <1>7 DEF SomeOpen, SeedOpen, Start, Restart, data
<1>8. ASSUME NEW i \in Numbers PROVE ~CreateTenantUser(i)
  BY <1>1 DEF CreateTenantUser
<1> QED
  BY <1>3, <1>4, <1>5, <1>6, <1>7, <1>8 DEF Next, SomeOpen, SomeBootstrap, Accounts, Registry

\* What a run of the seed program writes: the owner and nothing else.
JustOwner(p) ==
    [Empty EXCEPT !.org = TRUE, !.users = @ \cup {[email |-> Owner, password |-> p]},
                  !.memberships = @ \cup {[user |-> Owner, role |-> "organization_owner"]}]
LEMMA BootstrapForm ==
  ASSUME TypeOK, Installed, SomeBootstrap
  PROVE  /\ UNCHANGED <<mem, up, req, refused, latest, overlap>>
         /\ \A m \in Seeds : seed'[m].pc = "create" => seed'[m] = seed[m]
         /\ \/ UNCHANGED <<file, told, replaced>>
            \/ /\ replaced' = (replaced \/ file.org)
               /\ \E p \in Passwords :
                    /\ file' = JustOwner(p)
                    /\ told' = [told EXCEPT !.users = @ \cup
                                  {[email |-> Owner, password |-> p, role |-> "organization_owner"]}]
<1>1. PICK n \in Seeds : Bootstrap(n)
  BY DEF SomeBootstrap
<1>2. seed[n].copy = Empty
  BY <1>1 DEF Bootstrap, Installed
<1>3. UNCHANGED <<mem, up, req, refused, latest, overlap>>
  BY <1>1 DEF Bootstrap
<1>4. \A m \in Seeds : seed'[m].pc = "create" => seed'[m] = seed[m]
  BY <1>1 DEF Bootstrap, TypeOK
<1>5. CASE UNCHANGED <<file, told, replaced>>
  BY <1>3, <1>4, <1>5
<1>6. CASE ~UNCHANGED <<file, told, replaced>>
  <2>1. PICK p \in Passwords :
          /\ file' = [seed[n].copy EXCEPT !.org = TRUE, !.users = @ \cup {[email |-> Owner, password |-> p]},
                        !.memberships = @ \cup {[user |-> Owner, role |-> "organization_owner"]}]
          /\ told' = [told EXCEPT !.users = @ \cup
                        {[email |-> Owner, password |-> p, role |-> "organization_owner"]}]
          /\ replaced' = (replaced \/ file.org)
    BY <1>1, <1>6 DEF Bootstrap, Passwords
  <2> QED
    BY <1>2, <1>3, <1>4, <2>1 DEF JustOwner
<1> QED
  BY <1>5, <1>6

\* The parts of such a file.
LEMMA OwnerData ==
  ASSUME NEW p
  PROVE  /\ JustOwner(p).org = TRUE /\ JustOwner(p).devices = {} /\ JustOwner(p).telemetry = {}
         /\ JustOwner(p).users = {[email |-> Owner, password |-> p]}
         /\ JustOwner(p).memberships = {[user |-> Owner, role |-> "organization_owner"]}
         /\ JustOwner(p).sessions = Empty.sessions /\ JustOwner(p).change = Empty.change
         /\ JustOwner(p).settings = Empty.settings
BY DEF JustOwner, Empty

\* A file without an installation is empty, in each run's copy as well.
LEMMA InstalledStep ==
  TypeOK /\ AccountsConsistent /\ Working /\ Installed /\ [Next]_vars => Installed'
<1> SUFFICES ASSUME TypeOK, AccountsConsistent, Working, Installed, [Next]_vars PROVE Installed'
  OBVIOUS
<1>a. mem \in Data /\ file \in Data
  BY DEF TypeOK
<1>b. Empty.org = FALSE /\ Empty.devices = {} /\ Empty.memberships = {}
  BY DEF Empty
<1>1. CASE SomeOpen
  <2>1. PICK n \in Seeds : SeedOpen(n)
    BY <1>1 DEF SomeOpen
  <2>2. file = Empty
    BY <2>1 DEF SeedOpen, Initialized, Installed
  <2>3. UNCHANGED <<mem, file, up, refused>> /\ seed' = [seed EXCEPT ![n] = [pc |-> "create", copy |-> file]]
    BY <2>1 DEF SeedOpen, data, history
  <2>4. \A m \in Seeds : seed'[m].pc = "create" => seed'[m].copy = Empty
    BY <2>2, <2>3 DEF Installed, TypeOK
  <2> QED
    BY <2>3, <2>4 DEF Installed
<1>2. CASE SomeBootstrap
  <2>1. /\ UNCHANGED <<mem, up, refused>>
        /\ \A n \in Seeds : seed'[n].pc = "create" => seed'[n].copy = Empty
    BY <1>2, BootstrapForm DEF Installed
  <2>2. CASE file' = file
    BY <2>1, <2>2 DEF Installed
  <2>3. ASSUME NEW p \in Passwords, file' = JustOwner(p) PROVE Installed'
    <3>1. /\ file'.org = TRUE /\ file'.devices = {}
          /\ file'.memberships = {[user |-> Owner, role |-> "organization_owner"]}
      BY <2>3, OwnerData
    <3> QED
      BY <2>1, <3>1 DEF Installed
  <2> QED
    BY <1>2, <2>2, <2>3, BootstrapForm
<1>3. CASE Start
  BY <1>3 DEF Start, Installed, seeding, history
<1>4. CASE Restart
  BY <1>4 DEF Restart, Installed, seeding
<1>5. ASSUME NEW i \in Numbers, CreateTenantUser(i) PROVE Installed'
  <2>1. up /\ up' /\ seed' = seed
    BY <1>5 DEF CreateTenantUser, Working, Busy, Pcs, seeding
  <2>2. mem'.org = mem.org /\ file' \in {file, mem'}
    BY <1>5, <1>a, Created DEF Added, NotAdded, Data
  <2> QED
    BY <2>1, <2>2 DEF Installed
<1>6. CASE ~SomeOpen /\ ~SomeBootstrap /\ ~Start /\ ~Restart /\ \A i \in Numbers : ~CreateTenantUser(i)
  <2>1. SameAccounts /\ file' \in {file, mem'} /\ up' = up /\ UNCHANGED refused
    BY <1>6, AccountFrame
  <2>2. seed' = seed
    BY <1>6 DEF Next, SomeOpen, SomeBootstrap, Accounts, Registry, login, SignedOut,
                 RequestUser, Audit, RequestSettings, ChangeSettings,
                deviceEnroll, Patch, deviceHeartbeat, deviceInventory, SaveInventory, ReadInventoried, UpdateDevice,
                deviceTelemetry, AddTelemetry, RequestDelete, DeleteDevice, seeding, vars
  <2>3. CASE up
    BY <2>1, <2>2, <2>3 DEF Installed, SameAccounts
  <2>4. CASE ~up
    <3>1. file' = file
      BY <1>6, <2>4, DownFrame
    <3> QED
      BY <2>1, <2>2, <2>4, <3>1 DEF Installed
  <2> QED
    BY <2>3, <2>4
<1> QED
  BY <1>1, <1>2, <1>3, <1>4, <1>5, <1>6

\* AccountsConsistent for one copy of the data.
Consistent(users, memberships) ==
    /\ {u.email : u \in users} = {m.user : m \in memberships}
    /\ \A m, n \in memberships : m.user = n.user => m = n
    /\ \A u, v \in users : u.email = v.email => u = v

\* AccountsConsistent speaks of memory and file.
LEMMA ConsistentData ==
  AccountsConsistent <=> Consistent(mem.users, mem.memberships) /\ Consistent(file.users, file.memberships)
BY DEF AccountsConsistent, Consistent, EmailsOf

\* A new address gets one user and one membership.
LEMMA ConsistentAdd ==
  ASSUME NEW users, NEW memberships, Consistent(users, memberships), NEW e, NEW p, NEW r,
         e \notin {u.email : u \in users}
  PROVE  Consistent(users \cup {[email |-> e, password |-> p]}, memberships \cup {[user |-> e, role |-> r]})
<1>1. \A u \in users : u.email # e
  OBVIOUS
<1>2. \A m \in memberships : m.user # e
  BY DEF Consistent
<1> DEFINE new == [email |-> e, password |-> p]
           grant == [user |-> e, role |-> r]
<1>a. new.email = e /\ grant.user = e
  OBVIOUS
<1> HIDE DEF new, grant
<1>3. {u.email : u \in users \cup {new}} = {u.email : u \in users} \cup {e}
  BY <1>a
<1>4. {m.user : m \in memberships \cup {grant}} = {m.user : m \in memberships} \cup {e}
  BY <1>a
<1>5. \A m, n \in memberships \cup {grant} : m.user = n.user => m = n
  BY <1>2, <1>a DEF Consistent
<1>6. \A u, v \in users \cup {new} : u.email = v.email => u = v
  BY <1>1, <1>a DEF Consistent
<1>7. Consistent(users \cup {new}, memberships \cup {grant})
  BY <1>3, <1>4, <1>5, <1>6 DEF Consistent
<1> QED
  BY <1>7 DEF new, grant

\* No step separates an account's halves, brings a refused account back or
\* lets memory and file differ in the accounts.
LEMMA AccountsStep ==
  ASSUME TypeOK, AccountsConsistent, RefusedIsUnknown, Working, Installed, SameUsers, [Next]_vars
  PROVE  AccountsConsistent' /\ RefusedIsUnknown' /\ SameUsers'
<1>a. mem \in Data /\ file \in Data
  BY DEF TypeOK
<1>b. Consistent(mem.users, mem.memberships) /\ Consistent(file.users, file.memberships)
  BY ConsistentData
<1>c. Consistent(mem'.users, mem'.memberships) /\ Consistent(file'.users, file'.memberships) => AccountsConsistent'
  BY DEF AccountsConsistent, Consistent, EmailsOf
<1>d. mem'.users = mem.users => EmailsOf(mem') = EmailsOf(mem)
  BY DEF EmailsOf
<1>1. CASE SomeBootstrap
  <2>1. UNCHANGED <<mem, up, refused>>
    BY <1>1, BootstrapForm
  <2>2. CASE UNCHANGED <<file, told, replaced>>
    BY <1>b, <1>c, <2>1, <2>2 DEF RefusedIsUnknown, SameUsers, EmailsOf
  <2>3. ASSUME NEW p \in Passwords, file' = JustOwner(p), replaced' = (replaced \/ file.org)
        PROVE  AccountsConsistent' /\ RefusedIsUnknown' /\ SameUsers'
    <3>1. /\ file'.users = {[email |-> Owner, password |-> p]}
          /\ file'.memberships = {[user |-> Owner, role |-> "organization_owner"]}
      BY <2>3, OwnerData
    <3>2. EmailsOf(file') = {Owner}
      BY <3>1 DEF EmailsOf
    <3>3. Consistent(file'.users, file'.memberships)
      BY <3>1 DEF Consistent
    <3>4. Owner \notin refused
      BY DEF Installed, SameUsers, RefusedIsUnknown
    <3>5. RefusedIsUnknown'
      BY <2>1, <3>2, <3>4 DEF RefusedIsUnknown
    <3>6. SameUsers'
      BY <2>1, <2>3, <3>2 DEF SameUsers, Installed
    <3> QED
      BY <1>b, <1>c, <2>1, <3>3, <3>5, <3>6
  <2> QED
    BY <1>1, <2>2, <2>3, BootstrapForm
<1>2. CASE Start \/ Restart
  <2>1. mem' = file /\ file' = file /\ refused' = refused /\ file.org
    BY <1>2 DEF Start, Restart, history, Installed
  <2> QED
    BY <1>b, <1>c, <2>1 DEF RefusedIsUnknown, SameUsers
<1>3. ASSUME NEW i \in Numbers, CreateTenantUser(i) PROVE AccountsConsistent' /\ RefusedIsUnknown' /\ SameUsers'
  <2>1. up /\ up' /\ UNCHANGED replaced
    BY <1>3 DEF CreateTenantUser, Working, Busy, Pcs, seeding
  <2>e. EmailsOf(file) \subseteq EmailsOf(mem) /\ Owner \in EmailsOf(mem)
    BY <2>1 DEF SameUsers, EmailsOf
  <2>2. CASE NotAdded(i)
    <3>1. RefusedIsUnknown'
      BY <2>e, <2>2 DEF NotAdded, RefusedIsUnknown
    <3> QED
      BY <2>1, <2>2, <3>1, <1>b, <1>c DEF NotAdded, SameUsers
  <2>3. CASE Added(i)
    <3>1. /\ mem'.users = mem.users \cup {[email |-> req[i].email, password |-> "first"]}
          /\ mem'.memberships = mem.memberships \cup {[user |-> req[i].email, role |-> req[i].role]}
          /\ file' = mem'
      BY <2>3, <1>a DEF Added, Data
    <3>2. Consistent(mem'.users, mem'.memberships)
      <4>1. req[i].email \notin {u.email : u \in mem.users}
        BY <2>3 DEF Added, EmailsOf
      <4>2. Consistent(mem.users \cup {[email |-> req[i].email, password |-> "first"]},
                       mem.memberships \cup {[user |-> req[i].email, role |-> req[i].role]})
        BY <1>b, <4>1, ConsistentAdd, Zenon
      <4> QED
        BY <3>1, <4>2, Zenon
    <3>3. EmailsOf(mem') = EmailsOf(mem) \cup {req[i].email}
      <4> DEFINE new == [email |-> req[i].email, password |-> "first"]
      <4>1. new.email = req[i].email /\ mem'.users = mem.users \cup {new}
        BY <3>1
      <4> HIDE DEF new
      <4> QED
        BY <4>1 DEF EmailsOf
    <3>4. RefusedIsUnknown'
      BY <2>3, <3>1, <3>3 DEF RefusedIsUnknown, Added
    <3>5. SameUsers'
      BY <2>e, <3>1, <3>3 DEF SameUsers
    <3> QED
      BY <1>c, <3>1, <3>2, <3>4, <3>5
  <2> QED
    BY <1>3, <2>2, <2>3, Created
<1>4. CASE ~SomeBootstrap /\ ~Start /\ ~Restart /\ \A i \in Numbers : ~CreateTenantUser(i)
  <2>1. SameAccounts /\ file' \in {file, mem'} /\ up' = up /\ UNCHANGED <<refused, replaced>>
    BY <1>4, AccountFrame
  <2>2. EmailsOf(mem') = EmailsOf(mem) /\ Consistent(mem'.users, mem'.memberships)
    BY <2>1, <1>b, <1>d DEF SameAccounts
  <2>3. CASE file' = file
    BY <2>1, <2>2, <2>3, <1>b, <1>c DEF SameAccounts, RefusedIsUnknown, SameUsers
  <2>4. CASE file' # file
    <3>1. up /\ file' = mem'
      BY <1>4, <2>1, <2>4, DownFrame
    <3> QED
      BY <2>1, <2>2, <3>1, <1>c DEF RefusedIsUnknown, SameUsers
  <2> QED
    BY <2>3, <2>4
<1> QED
  BY <1>1, <1>2, <1>3, <1>4

-----------------------------------------------------------------------------
(* Answers.                                                                *)

\* So are the accounts.
ReportedUsers ==
    \A t \in told.users : /\ [email |-> t.email, password |-> t.password] \in file.users
                          /\ [user |-> t.email, role |-> t.role] \in file.memberships

SameRest == /\ mem'.sessions = mem.sessions /\ mem'.settings = mem.settings /\ mem'.change = mem.change
            /\ told' = told
\* Sessions and settings change by login and ChangeSettings only.
LEMMA AnswerFrame ==
  ASSUME TypeOK, [Next]_vars, ~SomeBootstrap, ~Start, ~Restart,
         \A i \in Numbers : ~CreateTenantUser(i) /\ ~login(i) /\ ~ChangeSettings(i)
  PROVE  SameRest
<1>a. mem \in Data
  BY DEF TypeOK
<1>1. CASE SomeOpen \/ UNCHANGED vars
  BY <1>1 DEF SomeOpen, SeedOpen, vars, data, history, SameRest
<1>2. ASSUME NEW i \in Numbers,
             SignedOut(i) \/ RequestUser(i) \/ RequestSettings(i) \/ Patch(i) \/ deviceHeartbeat(i)
               \/ deviceInventory(i) \/ ReadInventoried(i) \/ deviceTelemetry(i) \/ RequestDelete(i)
      PROVE  SameRest
  BY <1>2 DEF SignedOut, RequestUser, RequestSettings, Patch, deviceHeartbeat, deviceInventory,
              ReadInventoried, deviceTelemetry, RequestDelete, data, history, SameRest
<1>3. ASSUME NEW i \in Numbers, Audit(i) PROVE SameRest
  BY <1>3 DEF Audit, Stored, NotStored, SameRest, history
<1>4. ASSUME NEW i \in Numbers, deviceEnroll(i) \/ UpdateDevice(i) PROVE SameRest
  <2>1. CASE deviceEnroll(i)
    BY <2>1, <1>a DEF deviceEnroll, Stored, NotStored, SameRest, Data
  <2>2. CASE UpdateDevice(i)
    BY <2>2, <1>a DEF UpdateDevice, Stored, NotStored, SameRest, data, Data
  <2> QED
    BY <1>4, <2>1, <2>2
<1>5. ASSUME NEW i \in Numbers, SaveInventory(i) \/ AddTelemetry(i) \/ DeleteDevice(i) PROVE SameRest
  BY <1>5, <1>a DEF SaveInventory, AddTelemetry, DeleteDevice, Stored, NotStored, SameRest, data, history, Data
<1> QED
  BY <1>1, <1>2, <1>3, <1>4, <1>5 DEF Next, SomeOpen, SomeBootstrap, Accounts, Registry

\* No step undoes that an installation was written over.
LEMMA ReplacedStays == ASSUME TypeOK, AccountsConsistent, Installed, [Next]_vars, ~replaced' PROVE ~replaced
<1>1. CASE SomeBootstrap
  BY <1>1, BootstrapForm
<1>2. CASE Start \/ Restart \/ \E i \in Numbers : CreateTenantUser(i)
  BY <1>2 DEF Start, Restart, CreateTenantUser, seeding
<1> QED
  BY <1>1, <1>2, AccountFrame

\* Whatever is written, by whichever handler, carries what clients were told.
LEMMA AnsweredStep ==
  ASSUME TypeOK, AccountsConsistent, Working, Installed, AnsweredIsDurable, Synced, [Next]_vars
  PROVE  AnsweredIsDurable' /\ (up /\ ~replaced => Reported(mem))'
<1> SUFFICES ASSUME ~replaced' PROVE AnsweredIsDurable' /\ (up => Reported(mem))'
  BY DEF AnsweredIsDurable
<1>0. ~replaced
  BY ReplacedStays
<1>a. mem \in Data /\ file \in Data /\ told \in Told
  BY DEF TypeOK, Told
<1>b. /\ ReportedUsers /\ Reported(file) /\ (up => Reported(mem))
      /\ up => mem.users = file.users /\ mem.memberships = file.memberships
  BY <1>0 DEF AnsweredIsDurable, Synced, SameUsers, Reported, ReportedUsers
<1>c. ReportedUsers' /\ Reported(file)' => AnsweredIsDurable'
  BY DEF AnsweredIsDurable, Reported, ReportedUsers
<1>1. CASE SomeBootstrap
  <2>1. UNCHANGED <<mem, up>>
    BY <1>1, BootstrapForm
  <2>3. CASE file' = file /\ told' = told
    BY <1>b, <1>c, <2>1, <2>3 DEF ReportedUsers, Reported
  <2>4. CASE ~(file' = file /\ told' = told)
    <3>0. PICK p \in Passwords :
              /\ replaced' = (replaced \/ file.org)
              /\ file' = JustOwner(p)
              /\ told' = [told EXCEPT !.users = @ \cup
                           {[email |-> Owner, password |-> p, role |-> "organization_owner"]}]
      BY <1>1, <2>4, BootstrapForm
    <3>1. ~up /\ file = Empty
      BY <3>0 DEF Installed
    <3>a. told.users = {}
      BY <3>1, <1>b DEF ReportedUsers, Empty
    <3>2. /\ file'.users = {[email |-> Owner, password |-> p]}
          /\ file'.memberships = {[user |-> Owner, role |-> "organization_owner"]}
          /\ file'.sessions = file.sessions /\ file'.change = file.change /\ file'.settings = file.settings
      BY <3>0, <3>1, OwnerData
    <3>3. /\ told'.users = {[email |-> Owner, password |-> p, role |-> "organization_owner"]}
          /\ told'.sessions = told.sessions /\ told'.change = told.change /\ told'.settings = told.settings
      BY <3>0, <3>a, <1>a DEF Told
    <3>4. ReportedUsers'
      BY <3>2, <3>3 DEF ReportedUsers
    <3>5. Reported(file)'
      BY <3>2, <3>3, <1>b DEF Reported
    <3> QED
      BY <1>c, <2>1, <3>1, <3>4, <3>5
  <2> QED
    BY <2>3, <2>4
<1>2. CASE Start \/ Restart
  <2>1. mem' = file /\ file' = file /\ told' = told
    BY <1>2 DEF Start, Restart, history
  <2> QED
    BY <1>b, <1>c, <2>1 DEF ReportedUsers, Reported
<1>3. ASSUME NEW i \in Numbers, CreateTenantUser(i) PROVE AnsweredIsDurable' /\ (up => Reported(mem))'
  <2>1. up /\ up' /\ mem.users = file.users /\ mem.memberships = file.memberships
    BY <1>3, <1>b DEF CreateTenantUser, Working, Busy, Pcs
  <2>2. CASE NotAdded(i)
    BY <2>1, <2>2, <1>b, <1>c DEF NotAdded, ReportedUsers, Reported
  <2>3. CASE Added(i)
    <3>1. /\ mem'.users = mem.users \cup {[email |-> req[i].email, password |-> "first"]}
          /\ mem'.memberships = mem.memberships \cup {[user |-> req[i].email, role |-> req[i].role]}
          /\ mem'.sessions = mem.sessions /\ mem'.change = mem.change /\ mem'.settings = mem.settings
          /\ file' = mem'
      BY <2>3, <1>a DEF Added, Data
    <3>2. /\ told'.users = told.users \cup {[email |-> req[i].email, password |-> "first", role |-> req[i].role]}
          /\ told'.sessions = told.sessions /\ told'.change = told.change /\ told'.settings = told.settings
      BY <2>3, <1>a DEF Added, Told
    <3>3. ReportedUsers'
      <4> DEFINE new == [email |-> req[i].email, password |-> "first", role |-> req[i].role]
      <4>1. new.email = req[i].email /\ new.password = "first" /\ new.role = req[i].role
        OBVIOUS
      <4> HIDE DEF new
      <4>2. told'.users = told.users \cup {new}
        BY <3>2 DEF new
      <4> SUFFICES ASSUME NEW t \in told'.users
                   PROVE  /\ [email |-> t.email, password |-> t.password] \in file'.users
                          /\ [user |-> t.email, role |-> t.role] \in file'.memberships
        BY DEF ReportedUsers
      <4>3. CASE t = new
        BY <3>1, <4>1, <4>3
      <4>4. CASE t \in told.users
        BY <2>1, <3>1, <4>4, <1>b DEF ReportedUsers
      <4> QED
        BY <4>2, <4>3, <4>4
    <3>4. Reported(mem)' /\ Reported(file)'
      BY <2>1, <3>1, <3>2, <1>b DEF Reported
    <3> QED
      BY <1>c, <3>3, <3>4
  <2> QED
    BY <1>3, <2>2, <2>3, Created
<1>4. ASSUME NEW i \in Numbers, login(i) PROVE AnsweredIsDurable' /\ (up => Reported(mem))'
  <2>1. up /\ up' /\ mem.users = file.users /\ mem.memberships = file.memberships
    BY <1>4, <1>b DEF login, Ready
  <2>2. PICK u \in mem.users :
          LET session == [token |-> i, user |-> u.email]
              s == [mem EXCEPT !.sessions = @ \cup {session}] IN
          \/ Stored(s) /\ told' = [told EXCEPT !.sessions = @ \cup {session}]
          \/ NotStored(s) /\ told' = told
    BY <1>4 DEF login
  <2>3. /\ mem'.users = mem.users /\ mem'.memberships = mem.memberships
        /\ mem'.change = mem.change /\ mem'.settings = mem.settings
        /\ mem'.sessions = mem.sessions \cup {[token |-> i, user |-> u.email]}
    BY <2>2, <1>a DEF Stored, NotStored, Data
  <2>4. /\ told'.users = told.users /\ told'.change = told.change /\ told'.settings = told.settings
        /\ \/ file' = mem' /\ told'.sessions = told.sessions \cup {[token |-> i, user |-> u.email]}
           \/ file' = file /\ told' = told
    BY <2>2, <1>a DEF Stored, NotStored, Told
  <2>5. ReportedUsers'
    BY <1>b, <2>1, <2>3, <2>4 DEF ReportedUsers
  <2>6. Reported(mem)' /\ Reported(file)'
    BY <1>b, <2>1, <2>3, <2>4 DEF Reported
  <2> QED
    BY <1>c, <2>5, <2>6
<1>5. ASSUME NEW i \in Numbers, ChangeSettings(i) PROVE AnsweredIsDurable' /\ (up => Reported(mem))'
  <2>1. up /\ up' /\ mem.users = file.users /\ mem.memberships = file.memberships
    BY <1>5, <1>b DEF ChangeSettings, Working, Busy, Pcs
  <2> DEFINE s == [mem EXCEPT !.settings = IF req[i].op = "settings" THEN i ELSE 0, !.change = @ + 1]
  <2>2. \/ Stored(s) /\ told' = [told EXCEPT !.change = s.change, !.settings = s.settings]
        \/ NotStored(s) /\ told' = told
    BY <1>5 DEF ChangeSettings, Answer
  <2>3. /\ s.users = mem.users /\ s.memberships = mem.memberships /\ s.sessions = mem.sessions
        /\ s.change = mem.change + 1
    BY <1>a DEF Data
  <2> HIDE DEF s
  <2>4. /\ mem' = s
        /\ \/ /\ file' = s /\ told'.users = told.users /\ told'.sessions = told.sessions
              /\ told'.change = s.change /\ told'.settings = s.settings
           \/ file' = file /\ told' = told
    BY <2>2, <1>a DEF Stored, NotStored, Told
  <2>5. mem.change \in Nat /\ told.change \in Nat
    BY <1>a DEF Data, Told
  <2>6. ReportedUsers'
    BY <1>b, <2>1, <2>3, <2>4 DEF ReportedUsers
  <2>7. Reported(mem)' /\ Reported(file)'
    BY <1>b, <2>1, <2>3, <2>4, <2>5 DEF Reported
  <2> QED
    BY <1>c, <2>6, <2>7
<1>6. CASE ~SomeBootstrap /\ ~Start /\ ~Restart
           /\ \A i \in Numbers : ~CreateTenantUser(i) /\ ~login(i) /\ ~ChangeSettings(i)
  <2>1. SameAccounts /\ file' \in {file, mem'} /\ up' = up /\ SameRest
    BY <1>6, AccountFrame, AnswerFrame
  <2>2. CASE up
    BY <1>b, <1>c, <2>1, <2>2 DEF SameAccounts, SameRest, ReportedUsers, Reported
  <2>3. CASE ~up
    BY <1>6, <1>b, <1>c, <2>1, <2>3, DownFrame DEF SameRest, ReportedUsers, Reported
  <2> QED
    BY <2>2, <2>3
<1> QED
  BY <1>1, <1>2, <1>3, <1>4, <1>5, <1>6

-----------------------------------------------------------------------------
(* Delegation.                                                             *)

\* canAssignRole lets nobody give away more than he has.
LEMMA AssignedIsHeld ==
  ASSUME NEW r \in AllRoles, NEW role \in AllRoles, canAssignRole(r, role)
  PROVE  RolePermissions[role] \subseteq RolePermissions[r]
<1>1. RolePermissions[role] \subseteq Owning
  BY DEF AllRoles, RolePermissions, Owning, Administering, Viewing
<1>2. role \notin {"platform_administrator", "organization_owner"} => RolePermissions[role] \subseteq Administering
  BY DEF AllRoles, RolePermissions, Administering, Viewing
<1>3. /\ RolePermissions["platform_administrator"] = Owning /\ RolePermissions["organization_owner"] = Owning
      /\ RolePermissions["organization_administrator"] = Administering
  BY DEF RolePermissions
<1> QED
  BY <1>1, <1>2, <1>3 DEF canAssignRole

\* A request for an account is made by RequestUser only.
LEMMA NewUserRequest ==
  ASSUME TypeOK, Working, [Next]_vars, NEW j \in Numbers, req[j].pc = "unsent", req'[j].op = "user"
  PROVE  RequestUser(j)
<1>a. req \in [Numbers -> Request] /\ req[j].op # "user"
  BY DEF TypeOK, Working
<1>b. ASSUME NEW i \in Numbers, NEW r, r.op # "user", Send(i, r) PROVE FALSE
  BY <1>a, <1>b DEF Send
<1>1. ASSUME NEW i \in Numbers, RequestUser(i) PROVE i = j
  BY <1>1, <1>a DEF RequestUser, Send
<1>2. ASSUME NEW i \in Numbers, login(i) \/ deviceEnroll(i) PROVE FALSE
  BY <1>2, <1>b DEF login, deviceEnroll, Unsent
<1>3. ASSUME NEW i \in Numbers, RequestSettings(i) PROVE FALSE
  BY <1>3, <1>b DEF RequestSettings, Unsent
<1>4. ASSUME NEW i \in Numbers, deviceInventory(i) \/ deviceTelemetry(i) \/ RequestDelete(i) PROVE FALSE
  BY <1>4, <1>b DEF deviceInventory, deviceTelemetry, RequestDelete, Unsent
<1>5. ASSUME NEW i \in Numbers, Patch(i) PROVE FALSE
  BY <1>5, <1>b DEF Patch, Unsent
<1>6. ASSUME NEW i \in Numbers, deviceHeartbeat(i) PROVE FALSE
  BY <1>6, <1>b DEF deviceHeartbeat, Unsent
<1>7. ASSUME req'[j] = req[j] PROVE FALSE
  BY <1>7, <1>a
<1>8. CASE SomeOpen \/ SomeBootstrap \/ Start \/ UNCHANGED vars
  BY <1>7, <1>8 DEF SomeOpen, SeedOpen, SomeBootstrap, Bootstrap, Start, vars
<1>9. CASE Restart
  BY <1>7, <1>9 DEF Restart
<1>10. ASSUME NEW i \in Numbers, SignedOut(i) PROVE FALSE
  BY <1>7, <1>10 DEF SignedOut
<1>11. ASSUME NEW i \in Numbers,
              CreateTenantUser(i) \/ Audit(i) \/ ChangeSettings(i) \/ SaveInventory(i)
                \/ UpdateDevice(i) \/ AddTelemetry(i) \/ DeleteDevice(i) \/ ReadInventoried(i)
       PROVE  FALSE
  <2>1. req[i].pc # "unsent"
    BY <1>11 DEF CreateTenantUser, Audit, ChangeSettings, SaveInventory, UpdateDevice, AddTelemetry,
                 DeleteDevice, ReadInventoried
  <2>2. \E r : req' = [req EXCEPT ![i] = r]
    BY <1>11 DEF CreateTenantUser, CreateTenantUserFails, Audit, ChangeSettings, Answer, SaveInventory, UpdateDevice,
                 AddTelemetry, DeleteDevice, ReadInventoried, Moves, Returns
  <2> QED
    BY <1>7, <1>a, <2>1, <2>2
<1> QED
  BY <1>1, <1>2, <1>3, <1>4, <1>5, <1>6, <1>8, <1>9, <1>10, <1>11
     DEF Next, SomeOpen, SomeBootstrap, Accounts, Registry

\* Nobody loses a role while the platform runs, nor in a restart, unless the
\* accounts in the file were written over.
LEMMA RolesGrow ==
  ASSUME TypeOK, AccountsConsistent, Working, Installed, [Next]_vars, ~Start,
         Restart => file.memberships = mem.memberships
  PROVE  /\ mem.memberships \subseteq mem'.memberships
         /\ \A m \in mem'.memberships \ mem.memberships :
               \E i \in Numbers : CreateTenantUser(i) /\ m = [user |-> req[i].email, role |-> req[i].role]
<1>a. mem \in Data
  BY DEF TypeOK
<1>1. CASE SomeBootstrap
  BY <1>1, BootstrapForm
<1>2. CASE Restart
  BY <1>2 DEF Restart
<1>3. ASSUME NEW i \in Numbers, CreateTenantUser(i)
      PROVE  \/ mem'.memberships = mem.memberships
             \/ mem'.memberships = mem.memberships \cup {[user |-> req[i].email, role |-> req[i].role]}
  BY <1>3, <1>a, Created DEF Added, NotAdded, Data
<1>4. CASE ~SomeBootstrap /\ ~Restart /\ \A i \in Numbers : ~CreateTenantUser(i)
  BY <1>4, AccountFrame DEF SameAccounts
<1> QED
  BY <1>1, <1>2, <1>3, <1>4

\* Who creates an account keeps the role that has allowed it, so what he
\* gives away stays within what he has.
LEMMA DelegationStep ==
  ASSUME TypeOK, AccountsConsistent, Working, Installed, Synced, Asked, DelegationNeverWidens, [Next]_vars
  PROVE  Asked' /\ DelegationNeverWidens'
<1>1. CASE Start
  <2>1. ~up /\ mem' = file /\ req' = req
    BY <1>1 DEF Start
  <2>2. \A i \in Numbers : req[i].pc # "act"
    BY <2>1 DEF Working, Busy, Pcs
  <2> QED
    BY <2>1, <2>2 DEF Asked, DelegationNeverWidens, Installed
<1>3. CASE Restart /\ file.memberships # mem.memberships
  <2>1. mem' = file /\ up
    BY <1>3 DEF Restart
  <2>2. \A m \in mem'.memberships : m.user = Owner
    BY <1>3, <2>1 DEF Synced, SameUsers, AccountsConsistent
  <2>3. \A i \in Numbers : req'[i].pc # "act"
    BY <1>3 DEF Restart, TypeOK, Request
  <2> QED
    BY <2>2, <2>3 DEF Asked, DelegationNeverWidens
<1>2. CASE ~Start /\ (Restart => file.memberships = mem.memberships)
  <2>1. mem.memberships \subseteq mem'.memberships
    BY <1>2, RolesGrow
  <2>2. ASSUME NEW e PROVE RolesOf(mem, e) \subseteq RolesOf(mem', e)
    BY <2>1 DEF RolesOf
  <2>3. Asked'
    <3> SUFFICES ASSUME NEW j \in Numbers, req'[j].op = "user", req'[j].pc = "act"
                 PROVE  \E r \in RolesOf(mem', req'[j].by) : canAssignRole(r, req'[j].role)
      BY DEF Asked
    <3>1. CASE req[j].pc = "unsent"
      <4>1. RequestUser(j)
        BY <3>1, NewUserRequest
      <4>2. PICK e \in Persons, email \in Persons, role \in Roles :
               /\ \E r \in RolesOf(mem, e) : canAssignRole(r, role)
               /\ Send(j, [Unsent EXCEPT !.op = "user", !.pc = "act", !.by = e, !.email = email, !.role = role])
        BY <4>1 DEF RequestUser
      <4>3. req'[j] = [Unsent EXCEPT !.op = "user", !.pc = "act", !.by = e, !.email = email, !.role = role]
        BY <4>2 DEF Send, TypeOK
      <4>4. req'[j].by = e /\ req'[j].role = role
        BY <4>3 DEF Unsent
      <4> QED
        BY <2>2, <4>2, <4>4
    <3>2. CASE req[j].pc # "unsent"
      <4>1. req'[j].op = req[j].op /\ req'[j].by = req[j].by /\ req'[j].role = req[j].role /\ req[j].pc = "act"
        BY <3>2, ReqFrame
      <4> QED
        BY <2>2, <4>1 DEF Asked
    <3> QED
      BY <3>1, <3>2
  <2>4. DelegationNeverWidens'
    <3> SUFFICES ASSUME NEW m \in mem'.memberships, m.user # Owner
                 PROVE  \E i \in Numbers :
                          /\ req'[i].op = "user" /\ req'[i].email = m.user /\ req'[i].role = m.role
                          /\ RolePermissions[m.role] \subseteq
                               UNION {RolePermissions[r] : r \in RolesOf(mem', req'[i].by)}
      BY DEF DelegationNeverWidens
    <3>0. ASSUME NEW i \in Numbers, req[i].op = "user"
          PROVE  /\ req'[i].op = req[i].op /\ req'[i].by = req[i].by
                 /\ req'[i].email = req[i].email /\ req'[i].role = req[i].role
      <4>1. req[i].pc # "unsent"
        BY <3>0 DEF Working
      <4> QED
        BY <4>1, ReqFrame
    <3>1. CASE m \in mem.memberships
      <4>1. PICK i \in Numbers :
              /\ req[i].op = "user" /\ req[i].email = m.user /\ req[i].role = m.role
              /\ RolePermissions[m.role] \subseteq UNION {RolePermissions[r] : r \in RolesOf(mem, req[i].by)}
        BY <3>1 DEF DelegationNeverWidens
      <4>2. UNION {RolePermissions[r] : r \in RolesOf(mem, req[i].by)}
              \subseteq UNION {RolePermissions[r] : r \in RolesOf(mem', req'[i].by)}
        BY <2>2, <3>0, <4>1
      <4> QED
        BY <3>0, <4>1, <4>2
    <3>2. CASE m \notin mem.memberships
      <4>1. PICK i \in Numbers : CreateTenantUser(i) /\ m = [user |-> req[i].email, role |-> req[i].role]
        BY <1>2, <3>2, RolesGrow
      <4>2. req[i].op = "user" /\ req[i].pc = "act" /\ m.user = req[i].email /\ m.role = req[i].role
        BY <4>1 DEF CreateTenantUser
      <4>3. PICK r \in RolesOf(mem, req[i].by) : canAssignRole(r, req[i].role)
        BY <4>2 DEF Asked
      <4>4. req[i].role \in AllRoles /\ r \in AllRoles
        BY DEF TypeOK, Request, RolesOf
      <4>5. RolePermissions[m.role] \subseteq RolePermissions[r]
        BY <4>2, <4>3, <4>4, AssignedIsHeld
      <4>6. r \in RolesOf(mem', req'[i].by)
        BY <2>2, <3>0, <4>2
      <4> QED
        BY <3>0, <4>2, <4>5, <4>6
    <3> QED
      BY <3>1, <3>2
  <2> QED
    BY <2>3, <2>4
<1> QED
  BY <1>1, <1>2, <1>3

-----------------------------------------------------------------------------
(* Device records.                                                         *)

\* saveLocked writes what the memory has.
LEMMA TelemetryStored ==
  ASSUME TelemetryHasDevice, NEW s, s.telemetry \subseteq s.devices, Stored(s) \/ NotStored(s)
  PROVE  TelemetryHasDevice'
BY DEF TelemetryHasDevice, Stored, NotStored

\* AddTelemetry checks under the lock, and a removal takes the telemetry along.
LEMMA TelemetryStep ==
  ASSUME TypeOK, AccountsConsistent, Installed, TelemetryHasDevice, [Next]_vars
  PROVE  TelemetryHasDevice'
<1>a. mem \in Data /\ file \in Data /\ mem.telemetry \subseteq mem.devices
  BY DEF TypeOK, TelemetryHasDevice
<1>1. CASE SomeOpen \/ Start \/ Restart \/ UNCHANGED vars
  BY <1>1 DEF SomeOpen, SeedOpen, Start, Restart, vars, data, TelemetryHasDevice
<1>2. CASE SomeBootstrap
  <2>1. mem' = mem
    BY <1>2, BootstrapForm
  <2>2. file' = file \/ \E p \in Passwords : file' = JustOwner(p)
    BY <1>2, BootstrapForm
  <2>3. file' = file \/ (file'.telemetry = {} /\ file'.devices = {})
    BY <2>2, OwnerData
  <2> QED
    BY <2>1, <2>3 DEF TelemetryHasDevice
<1>3. ASSUME NEW i \in Numbers,
             SignedOut(i) \/ RequestUser(i) \/ RequestSettings(i) \/ Patch(i) \/ deviceHeartbeat(i)
               \/ deviceInventory(i) \/ ReadInventoried(i) \/ deviceTelemetry(i) \/ RequestDelete(i)
      PROVE  TelemetryHasDevice'
  BY <1>3 DEF SignedOut, RequestUser, RequestSettings, Patch, deviceHeartbeat, deviceInventory,
              ReadInventoried, deviceTelemetry, RequestDelete, data, TelemetryHasDevice
<1>4. ASSUME NEW i \in Numbers, login(i) PROVE TelemetryHasDevice'
  <2>1. PICK x : Stored([mem EXCEPT !.sessions = x]) \/ NotStored([mem EXCEPT !.sessions = x])
    BY <1>4 DEF login
  <2> QED
    BY <1>a, <2>1, TelemetryStored DEF Data
<1>5. ASSUME NEW i \in Numbers, CreateTenantUser(i) PROVE TelemetryHasDevice'
  <2>1. mem'.telemetry = mem.telemetry /\ mem'.devices = mem.devices /\ file' \in {file, mem'}
    BY <1>5, <1>a, Created DEF Added, NotAdded, Data
  <2> QED
    BY <2>1 DEF TelemetryHasDevice
<1>6. ASSUME NEW i \in Numbers, Audit(i) PROVE TelemetryHasDevice'
  BY <1>6, <1>a, TelemetryStored DEF Audit
<1>7. ASSUME NEW i \in Numbers, ChangeSettings(i) PROVE TelemetryHasDevice'
  <2>1. PICK x, y : LET s == [mem EXCEPT !.settings = x, !.change = y] IN Stored(s) \/ NotStored(s)
    BY <1>7 DEF ChangeSettings, Answer
  <2> QED
    BY <1>a, <2>1, TelemetryStored DEF Data
<1>8. ASSUME NEW i \in Numbers, deviceEnroll(i) PROVE TelemetryHasDevice'
  <2>1. PICK d \in Devices :
          LET s == [mem EXCEPT !.devices = @ \cup {d}, !.record[d] = New] IN Stored(s) \/ NotStored(s)
    BY <1>8 DEF deviceEnroll
  <2> QED
    BY <1>a, <2>1, TelemetryStored DEF Data
<1>9. ASSUME NEW i \in Numbers, SaveInventory(i) \/ UpdateDevice(i) PROVE TelemetryHasDevice'
  <2>1. CASE SaveInventory(i)
    <3>1. PICK x : LET s == [mem EXCEPT !.inventory = x] IN Stored(s) \/ NotStored(s)
      BY <2>1 DEF SaveInventory
    <3> QED
      BY <1>a, <3>1, TelemetryStored DEF Data
  <2>2. CASE UpdateDevice(i)
    <3>1. PICK x : \/ UNCHANGED data
                   \/ LET s == [mem EXCEPT !.record = x] IN Stored(s) \/ NotStored(s)
      BY <2>2 DEF UpdateDevice
    <3> QED
      BY <1>a, <3>1, TelemetryStored DEF Data, data, TelemetryHasDevice
  <2> QED
    BY <1>9, <2>1, <2>2
<1>10. ASSUME NEW i \in Numbers, AddTelemetry(i) PROVE TelemetryHasDevice'
  <2>1. \/ UNCHANGED data
        \/ /\ req[i].dev \in mem.devices
           /\ LET s == [mem EXCEPT !.telemetry = @ \cup {req[i].dev}] IN Stored(s) \/ NotStored(s)
    BY <1>10 DEF AddTelemetry, Accepts
  <2> QED
    BY <1>a, <2>1, TelemetryStored DEF Data, data, TelemetryHasDevice
<1>11. ASSUME NEW i \in Numbers, DeleteDevice(i) PROVE TelemetryHasDevice'
  <2> DEFINE s == [mem EXCEPT !.devices = @ \ {req[i].dev}, !.inventory = @ \ {req[i].dev},
                              !.telemetry = @ \ {req[i].dev}]
  <2>1. UNCHANGED data \/ Stored(s) \/ NotStored(s)
    BY <1>11 DEF DeleteDevice
  <2>2. s.telemetry \subseteq s.devices
    BY <1>a DEF Data
  <2> HIDE DEF s
  <2> QED
    BY <2>1, <2>2, TelemetryStored DEF data, TelemetryHasDevice
<1> QED
  BY <1>1, <1>2, <1>3, <1>4, <1>5, <1>6, <1>7, <1>8, <1>9, <1>10, <1>11
     DEF Next, SomeOpen, SomeBootstrap, Accounts, Registry

\* The handlers that get a copy of a record note whom they overlap with.
GetsCopy(i) == Patch(i) \/ deviceHeartbeat(i) \/ ReadInventoried(i)
LEMMA NewCopy ==
  ASSUME TypeOK, NEW i \in Numbers, GetsCopy(i)
  PROVE  /\ mem' = mem /\ latest' = latest
         /\ \A j \in Numbers \ {i} : req'[j] = req[j]
         /\ \/ req'[i].pc # "write" /\ overlap' = overlap
            \/ \E d \in Devices :
                 /\ req'[i].dev = d /\ NoteOverlap(d) /\ req[i].pc # "write"
                 /\ \A f \in Fields : Says(i, f)' \/ req'[i].copy[f] = mem.record[d][f]
<1>a. req \in [Numbers -> Request] /\ mem.devices \subseteq Devices
  BY DEF TypeOK, Data
<1>b. ASSUME NEW d, NEW set, NEW f \in Fields PROVE Edited(d, set, i)[f] \in {i, mem.record[d][f]}
  BY DEF Edited
<1>1. CASE Patch(i)
  <2>1. PICK d \in mem.devices, set \in SUBSET {"location", "remote"} :
          /\ Send(i, [Unsent EXCEPT !.op = "patch", !.pc = "write", !.dev = d, !.copy = Edited(d, set, i)])
          /\ NoteOverlap(d)
    BY <1>1 DEF Patch
  <2>2. mem' = mem /\ latest' = latest /\ req[i].pc # "write"
    BY <1>1 DEF Patch, data, Ready
  <2>3. req'[i].dev = d /\ req'[i].copy = Edited(d, set, i) /\ \A j \in Numbers \ {i} : req'[j] = req[j]
    BY <1>a, <2>1 DEF Send, Unsent
  <2> QED
    BY <1>a, <1>b, <2>1, <2>2, <2>3 DEF Says
<1>2. CASE deviceHeartbeat(i)
  <2>1. PICK d \in mem.devices, set \in {{"seen"}, {"seen", "location"}}, version \in {i, 0} :
          /\ Send(i, [Unsent EXCEPT !.op = "heartbeat", !.pc = "write", !.dev = d,
                       !.copy = [Edited(d, set, i) EXCEPT !["agent"] = version]])
          /\ NoteOverlap(d)
    BY <1>2 DEF deviceHeartbeat
  <2>2. mem' = mem /\ latest' = latest /\ req[i].pc # "write"
    BY <1>2 DEF deviceHeartbeat, data, Ready
  <2> DEFINE c == [Edited(d, set, i) EXCEPT !["agent"] = version]
  <2>3. \A f \in Fields \ {"agent"} : c[f] = Edited(d, set, i)[f]
    BY DEF Edited
  <2> HIDE DEF c
  <2>4. /\ req'[i].dev = d /\ req'[i].copy = c /\ req'[i].op = "heartbeat"
        /\ \A j \in Numbers \ {i} : req'[j] = req[j]
    BY <1>a, <2>1 DEF Send, Unsent, c
  <2> QED
    BY <1>a, <1>b, <2>1, <2>2, <2>3, <2>4 DEF Says
<1>3. CASE ReadInventoried(i)
  <2>1. mem' = mem /\ latest' = latest /\ req[i].pc = "read" /\ req[i].dev \in Devices
    BY <1>3 DEF ReadInventoried, data, TypeOK
  <2>2. \/ Returns(i) /\ overlap' = overlap
        \/ /\ NoteOverlap(req[i].dev)
           /\ \E set : req' = [req EXCEPT ![i].pc = "write", ![i].copy = Edited(req[i].dev, set, i)]
    BY <1>3 DEF ReadInventoried
  <2>3. CASE Returns(i) /\ overlap' = overlap
    BY <1>a, <2>1, <2>3 DEF Returns, Request
  <2>4. ASSUME NEW set, NoteOverlap(req[i].dev),
               req' = [req EXCEPT ![i].pc = "write", ![i].copy = Edited(req[i].dev, set, i)]
        PROVE  /\ req'[i].dev = req[i].dev /\ \A j \in Numbers \ {i} : req'[j] = req[j]
               /\ \A f \in Fields : Says(i, f)' \/ req'[i].copy[f] = mem.record[req[i].dev][f]
    <3>1. /\ req'[i].dev = req[i].dev /\ req'[i].copy = Edited(req[i].dev, set, i)
          /\ \A j \in Numbers \ {i} : req'[j] = req[j]
      BY <1>a, <2>4 DEF Request
    <3> QED
      BY <1>b, <3>1 DEF Says
  <2> QED
    BY <2>1, <2>2, <2>3, <2>4
<1> QED
  BY <1>1, <1>2, <1>3 DEF GetsCopy

\* No other step makes a handler hold a copy.
LEMMA KeptCopy ==
  ASSUME TypeOK, [Next]_vars, \A i \in Numbers : ~GetsCopy(i), NEW j \in Numbers, req'[j].pc = "write"
  PROVE  req'[j] = req[j]
<1>a. req \in [Numbers -> Request]
  BY DEF TypeOK
<1>1. CASE SomeOpen \/ SomeBootstrap \/ Start \/ UNCHANGED vars
  BY <1>1 DEF SomeOpen, SeedOpen, SomeBootstrap, Bootstrap, Start, vars
<1>2. CASE Restart
  BY <1>2, <1>a DEF Restart, Request
<1>3. ASSUME NEW i \in Numbers, SignedOut(i) PROVE req'[j] = req[j]
  BY <1>3 DEF SignedOut
<1>4. ASSUME NEW i \in Numbers, NEW r, r.pc # "write", Send(i, r) PROVE req'[j] = req[j]
  BY <1>4, <1>a DEF Send
<1>5. ASSUME NEW i \in Numbers,
             login(i) \/ deviceEnroll(i) \/ RequestUser(i) \/ RequestSettings(i) \/ deviceInventory(i)
               \/ deviceTelemetry(i) \/ RequestDelete(i)
      PROVE  req'[j] = req[j]
  <2>1. PICK r : r.pc # "write" /\ Send(i, r)
    <3>1. CASE login(i) \/ deviceEnroll(i)
      BY <3>1 DEF login, deviceEnroll, Unsent
    <3>2. CASE RequestUser(i)
      BY <3>2 DEF RequestUser, Unsent
    <3>3. CASE RequestSettings(i)
      BY <3>3 DEF RequestSettings, Unsent
    <3>4. CASE deviceInventory(i) \/ deviceTelemetry(i) \/ RequestDelete(i)
      BY <3>4 DEF deviceInventory, deviceTelemetry, RequestDelete, Unsent
    <3> QED
      BY <1>5, <3>1, <3>2, <3>3, <3>4
  <2> QED
    BY <1>4, <2>1
<1>6. ASSUME NEW i \in Numbers,
              CreateTenantUser(i) \/ Audit(i) \/ ChangeSettings(i) \/ SaveInventory(i)
                \/ UpdateDevice(i) \/ AddTelemetry(i) \/ DeleteDevice(i)
      PROVE  req'[j] = req[j]
  <2>1. Returns(i) \/ Moves(i, "audit") \/ Moves(i, "read")
    BY <1>6 DEF CreateTenantUser, CreateTenantUserFails, Audit, ChangeSettings, Answer, SaveInventory,
                UpdateDevice, AddTelemetry, DeleteDevice
  <2>2. CASE Returns(i)
    BY <1>a, <2>2 DEF Returns, Request
  <2>3. CASE Moves(i, "audit") \/ Moves(i, "read")
    BY <1>a, <2>3 DEF Moves, Request
  <2> QED
    BY <2>1, <2>2, <2>3
<1> QED
  BY <1>1, <1>2, <1>3, <1>5, <1>6 DEF Next, SomeOpen, SomeBootstrap, Accounts, Registry, GetsCopy

\* Only a start, an enrollment and UpdateDevice touch the records.
SameRecords ==
    mem'.record = mem.record /\ mem'.devices \subseteq mem.devices /\ latest' = latest /\ overlap' = overlap
LEMMA RecordFrame ==
  ASSUME TypeOK, AccountsConsistent, [Next]_vars, ~Start, ~Restart,
         \A i \in Numbers : ~GetsCopy(i) /\ ~deviceEnroll(i) /\ ~UpdateDevice(i)
  PROVE  SameRecords
<1>a. mem \in Data
  BY DEF TypeOK
<1>1. CASE SomeOpen \/ SomeBootstrap \/ UNCHANGED vars
  BY <1>1 DEF SomeOpen, SeedOpen, SomeBootstrap, Bootstrap, vars, data, history, SameRecords
<1>2. ASSUME NEW i \in Numbers,
             SignedOut(i) \/ RequestUser(i) \/ RequestSettings(i) \/ deviceInventory(i)
               \/ deviceTelemetry(i) \/ RequestDelete(i)
      PROVE  SameRecords
  BY <1>2 DEF SignedOut, RequestUser, RequestSettings, deviceInventory, deviceTelemetry, RequestDelete,
              data, history, SameRecords
<1>3. ASSUME NEW i \in Numbers, login(i) PROVE SameRecords
  BY <1>3, <1>a DEF login, Stored, NotStored, SameRecords, Data
<1>4. ASSUME NEW i \in Numbers, Audit(i) PROVE SameRecords
  BY <1>4 DEF Audit, Stored, NotStored, SameRecords, history
<1>5. ASSUME NEW i \in Numbers, ChangeSettings(i) PROVE SameRecords
  BY <1>5, <1>a DEF ChangeSettings, Answer, Stored, NotStored, SameRecords, Data
<1>6. ASSUME NEW i \in Numbers, SaveInventory(i) \/ AddTelemetry(i) \/ DeleteDevice(i) PROVE SameRecords
  BY <1>6, <1>a DEF SaveInventory, AddTelemetry, DeleteDevice, Stored, NotStored, SameRecords, data, history, Data
<1>7. ASSUME NEW i \in Numbers, CreateTenantUser(i) PROVE SameRecords
  <2>1. latest' = latest /\ overlap' = overlap
    BY <1>7 DEF CreateTenantUser
  <2>2. mem'.record = mem.record /\ mem'.devices = mem.devices
    BY <1>7, <1>a, Created DEF Added, NotAdded, Data
  <2> QED
    BY <2>1, <2>2 DEF SameRecords
<1> QED
  BY <1>1, <1>2, <1>3, <1>4, <1>5, <1>6, <1>7 DEF Next, SomeOpen, SomeBootstrap, Accounts, Registry, GetsCopy

\* A copy that is the only one stays the only one, and is written before
\* anything else touches the fields that it has from the record.
LEMMA RecordsStep ==
  ASSUME TypeOK, AccountsConsistent, Working, Installed, Copies, LostOnlyByOverlap, [Next]_vars
  PROVE  Copies' /\ LostOnlyByOverlap'
<1>a. /\ mem.record \in [Devices -> Record] /\ latest \in [Devices -> Record] /\ mem \in Data
      /\ \A i \in Numbers : req[i] \in Request
  BY DEF TypeOK, Data
<1>b. ASSUME NEW i \in Numbers, req[i].pc = "write" PROVE req[i].dev \in Devices
  BY <1>b DEF TypeOK
<1>1. CASE Start
  <2>1. ~up /\ mem' = file /\ req' = req
    BY <1>1 DEF Start
  <2>2. \A i \in Numbers : req[i].pc # "write"
    BY <2>1 DEF Working, Busy, Pcs
  <2>3. mem'.devices = {}
    BY <2>1 DEF Installed
  <2> QED
    BY <2>1, <2>2, <2>3 DEF Copies, LostOnlyByOverlap
<1>2. CASE Restart
  <2>1. mem'.record = latest'
    BY <1>2 DEF Restart
  <2>2. ASSUME NEW i \in Numbers PROVE req'[i].pc # "write"
    BY <1>2, <1>a DEF Restart, Request
  <2> QED
    BY <2>1, <2>2 DEF Copies, LostOnlyByOverlap, Says
<1>3. ASSUME NEW i \in Numbers, GetsCopy(i) PROVE Copies' /\ LostOnlyByOverlap'
  <2>1. mem' = mem /\ latest' = latest /\ \A j \in Numbers \ {i} : req'[j] = req[j]
    BY <1>3, NewCopy
  <2>2. CASE req'[i].pc # "write" /\ overlap' = overlap
    BY <2>1, <2>2 DEF Copies, LostOnlyByOverlap, Says
  <2>3. ASSUME NEW d \in Devices, req'[i].dev = d, NoteOverlap(d), req[i].pc # "write",
               \A f \in Fields : Says(i, f)' \/ req'[i].copy[f] = mem.record[d][f]
        PROVE  Copies' /\ LostOnlyByOverlap'
    <3>1. overlap \subseteq overlap'
      BY <2>3 DEF NoteOverlap
    <3>2. ASSUME NEW j \in Numbers, req[j].pc = "write", req[j].dev = d PROVE d \in overlap'
      BY <2>3, <3>2 DEF NoteOverlap
    <3>4. ASSUME NEW j \in Numbers, req'[j].pc = "write", req'[j].dev \notin overlap'
          PROVE  /\ \A f \in Fields : Says(j, f)' \/ req'[j].copy[f] = mem.record[req'[j].dev][f]
                 /\ \A k \in Numbers : req'[k].pc = "write" /\ req'[k].dev = req'[j].dev => k = j
      <4>1. CASE j = i
        BY <2>1, <2>3, <3>2, <3>4, <4>1
      <4>2. CASE j # i
        <5>1. req'[j] = req[j] /\ req[j].dev \notin overlap /\ req[j].dev # d
          BY <2>1, <3>1, <3>2, <3>4, <4>2
        <5> QED
          BY <2>1, <2>3, <3>4, <5>1 DEF Copies, Says
      <4> QED
        BY <4>1, <4>2
    <3>5. Copies'
      BY <2>1, <3>4 DEF Copies
    <3>6. LostOnlyByOverlap'
      BY <2>1, <3>1 DEF LostOnlyByOverlap
    <3> QED
      BY <3>5, <3>6
  <2> QED
    BY <1>3, <2>2, <2>3, NewCopy
<1>4. ASSUME \A i \in Numbers : ~GetsCopy(i) PROVE \A j \in Numbers : req'[j].pc = "write" => req'[j] = req[j]
  BY <1>4, KeptCopy
<1>5. ASSUME NEW i \in Numbers, deviceEnroll(i), \A j \in Numbers : ~GetsCopy(j)
      PROVE  Copies' /\ LostOnlyByOverlap'
  <2>1. PICK d \in Devices :
          /\ \A j \in Numbers : req[j].dev # d
          /\ mem' = [mem EXCEPT !.devices = @ \cup {d}, !.record[d] = New]
          /\ latest' = [latest EXCEPT ![d] = New] /\ overlap' = overlap \ {d}
    BY <1>5 DEF deviceEnroll, Stored, NotStored
  <2>2. mem'.devices = mem.devices \cup {d} /\ mem'.record = [mem.record EXCEPT ![d] = New]
    BY <2>1, <1>a DEF Data
  <2>3. Copies'
    <3> SUFFICES ASSUME NEW j \in Numbers, req'[j].pc = "write", req'[j].dev \notin overlap'
                 PROVE  /\ \A f \in Fields : Says(j, f)' \/ req'[j].copy[f] = mem'.record[req'[j].dev][f]
                        /\ \A k \in Numbers : req'[k].pc = "write" /\ req'[k].dev = req'[j].dev => k = j
      BY DEF Copies
    <3>1. req'[j] = req[j] /\ req[j].dev # d /\ req[j].dev \notin overlap /\ req[j].dev \in Devices
      BY <1>4, <1>5, <1>b, <2>1
    <3>2. mem'.record[req[j].dev] = mem.record[req[j].dev]
      BY <1>a, <2>2, <3>1
    <3> QED
      BY <1>4, <1>5, <3>1, <3>2 DEF Copies, Says
  <2>4. LostOnlyByOverlap'
    BY <1>a, <2>1, <2>2 DEF LostOnlyByOverlap, Data
  <2> QED
    BY <2>3, <2>4
<1>6. ASSUME NEW i \in Numbers, UpdateDevice(i), \A j \in Numbers : ~GetsCopy(j)
      PROVE  Copies' /\ LostOnlyByOverlap'
  <2> DEFINE d == req[i].dev
             c == req[i].copy
  <2>0. req[i].pc = "write" /\ d \in Devices /\ c \in Record /\ overlap' = overlap
    BY <1>6, <1>a, <1>b DEF UpdateDevice, Request
  <2>a. req'[i].pc # "write"
    BY <1>6, <1>a DEF UpdateDevice, Returns, Moves, Request, TypeOK
  <2>1. CASE UNCHANGED <<mem, latest>>
    BY <1>4, <1>6, <2>0, <2>1 DEF Copies, LostOnlyByOverlap, Says
  <2>2. CASE ~UNCHANGED <<mem, latest>>
    <3>1. /\ mem' = [mem EXCEPT !.record[d] = c]
          /\ latest' = [latest EXCEPT ![d] = [f \in Fields |-> IF Says(i, f) THEN c[f] ELSE @[f]]]
      BY <1>6, <2>2 DEF UpdateDevice, Stored, NotStored, data
    <3> HIDE DEF d, c
    <3>2. mem'.devices = mem.devices /\ mem'.record = [mem.record EXCEPT ![d] = c]
      BY <3>1, <1>a DEF Data
    <3>3. Copies'
      <4> SUFFICES ASSUME NEW j \in Numbers, req'[j].pc = "write", req'[j].dev \notin overlap'
                   PROVE  /\ \A f \in Fields : Says(j, f)' \/ req'[j].copy[f] = mem'.record[req'[j].dev][f]
                          /\ \A k \in Numbers : req'[k].pc = "write" /\ req'[k].dev = req'[j].dev => k = j
        BY DEF Copies
      <4>1. req'[j] = req[j] /\ req[j].dev \notin overlap /\ req[j].dev \in Devices /\ j # i
        BY <1>4, <1>6, <1>b, <2>0, <2>a
      <4>2. req[j].dev # d
        BY <4>1, <2>0 DEF Copies, d
      <4>3. mem'.record[req[j].dev] = mem.record[req[j].dev]
        BY <1>a, <3>2, <4>1, <4>2
      <4> QED
        BY <1>4, <1>6, <4>1, <4>3 DEF Copies, Says
    <3>4. LostOnlyByOverlap'
      <4> SUFFICES ASSUME NEW x \in mem'.devices \ overlap' PROVE mem'.record[x] = latest'[x]
        BY DEF LostOnlyByOverlap
      <4>1. x \in Devices /\ mem.record[x] = latest[x]
        BY <2>0, <3>2, <1>a DEF LostOnlyByOverlap, Data
      <4>2. CASE x # d
        BY <1>a, <2>0, <3>1, <3>2, <4>1, <4>2
      <4>3. CASE x = d
        <5>1. \A f \in Fields : Says(i, f) \/ c[f] = mem.record[d][f]
          BY <2>0, <4>3 DEF Copies, d, c
        <5>2. latest'[d] = [f \in Fields |-> IF Says(i, f) THEN c[f] ELSE latest[d][f]]
          BY <1>a, <2>0, <3>1
        <5>3. c = [f \in Fields |-> c[f]]
          BY <2>0 DEF Record
        <5>4. \A f \in Fields : (IF Says(i, f) THEN c[f] ELSE latest[d][f]) = c[f]
          BY <5>1, <4>1, <4>3
        <5>5. latest'[d] = c
          BY <5>2, <5>3, <5>4
        <5> QED
          BY <1>a, <2>0, <3>2, <4>3, <5>5
      <4> QED
        BY <4>2, <4>3
    <3> QED
      BY <3>3, <3>4
  <2> QED
    BY <2>1, <2>2
<1>7. CASE ~Start /\ ~Restart /\ \A i \in Numbers : ~GetsCopy(i) /\ ~deviceEnroll(i) /\ ~UpdateDevice(i)
  <2>1. SameRecords
    BY <1>7, RecordFrame
  <2> QED
    BY <1>4, <1>7, <2>1 DEF SameRecords, Copies, LostOnlyByOverlap, Says
<1> QED
  BY <1>1, <1>2, <1>3, <1>5, <1>6, <1>7

-----------------------------------------------------------------------------
(* The theorems.                                                           *)

\* The inductive invariant: the properties, and what they rest on.
IInv ==
    /\ TypeOK /\ AccountsConsistent /\ RefusedIsUnknown /\ AnsweredIsDurable
    /\ DelegationNeverWidens /\ LostOnlyByOverlap /\ TelemetryHasDevice
    /\ Working /\ Installed /\ Synced /\ Asked /\ Copies

\* It holds before the installation.
LEMMA InitialInv == Init => IInv
<1> SUFFICES ASSUME Init PROVE IInv
  OBVIOUS
<1>1. TypeOK
  BY TypeInit
<1>2. \A i \in Numbers : req[i].pc = "unsent" /\ req[i].op = "none"
  BY DEF Init, Unsent
<1>3. /\ mem = Empty /\ file = Empty /\ ~up /\ refused = {} /\ \A n \in Seeds : seed[n].pc = "idle"
      /\ told.users = {} /\ told.sessions = {} /\ told.change = 0 /\ told.settings = 0
  BY DEF Init
<1>4. /\ Empty.org = FALSE /\ Empty.users = {} /\ Empty.memberships = {} /\ Empty.telemetry = {} /\ Empty.devices = {}
      /\ Empty.change = 0 /\ Empty.settings = 0
  BY DEF Empty
<1>5. AccountsConsistent /\ RefusedIsUnknown /\ TelemetryHasDevice /\ LostOnlyByOverlap
  BY <1>3, <1>4 DEF AccountsConsistent, RefusedIsUnknown, TelemetryHasDevice, LostOnlyByOverlap, EmailsOf
<1>6. AnsweredIsDurable
  BY <1>3, <1>4 DEF AnsweredIsDurable
<1>7. DelegationNeverWidens /\ Working /\ Installed /\ Synced /\ Asked /\ Copies
  BY <1>2, <1>3, <1>4 DEF DelegationNeverWidens, Working, Installed, Synced, SameUsers, Asked, Copies, Busy
<1> QED
  BY <1>1, <1>5, <1>6, <1>7 DEF IInv

\* Every step of a handler, of the seed program and of the platform keeps it.
LEMMA Inductive == IInv /\ [Next]_vars => IInv'
<1> SUFFICES ASSUME IInv, [Next]_vars PROVE IInv'
  OBVIOUS
<1> USE DEF IInv
<1>1. TypeOK' /\ Working' /\ Installed'
  BY TypeStep, WorkingStep, InstalledStep
<1>2. SameUsers
  BY DEF Synced
<1>3. AccountsConsistent' /\ RefusedIsUnknown' /\ SameUsers'
  BY <1>2, AccountsStep
<1>4. AnsweredIsDurable' /\ (up /\ ~replaced => Reported(mem))'
  BY AnsweredStep
<1>5. Synced'
  BY <1>3, <1>4 DEF Synced
<1>6. Asked' /\ DelegationNeverWidens'
  BY DelegationStep
<1>7. TelemetryHasDevice'
  BY TelemetryStep
<1>8. Copies' /\ LostOnlyByOverlap'
  BY RecordsStep
<1> QED
  BY <1>1, <1>3, <1>4, <1>5, <1>6, <1>7, <1>8

\* Together, in every behaviour.
LEMMA Always == Spec => []IInv
BY InitialInv, Inductive, PTL DEF Spec

\* CreateTenantUser, AddTelemetry and DeleteDevice: users and memberships
\* belong together and telemetry has its device, in memory and in the file,
\* however requests interleave and writes fail.
THEOREM StoreSound == Spec => []StoreConsistent
<1>1. IInv => StoreConsistent
  BY DEF IInv, StoreConsistent
<1> QED
  BY <1>1, Always, PTL

\* CreateTenantUser: an account whose creation failed stays unknown.
THEOREM RefusedForGood == Spec => []RefusedIsUnknown
<1>1. IInv => RefusedIsUnknown
  BY DEF IInv
<1> QED
  BY <1>1, Always, PTL

\* saveLocked before the answer: what clients were told survives restarts,
\* as long as no run of the seed program writes over the installation.
THEOREM AnswersSurvive == Spec => []AnsweredIsDurable
<1>1. IInv => AnsweredIsDurable
  BY DEF IInv
<1> QED
  BY <1>1, Always, PTL

\* canAssignRole along a chain of creations of any length.
THEOREM NoEscalation == Spec => []DelegationNeverWidens
<1>1. IInv => DelegationNeverWidens
  BY DEF IInv
<1> QED
  BY <1>1, Always, PTL

\* The handlers that read, edit and write a device record: without overlap
\* nothing that a request said is lost, for any number of devices and reports.
THEOREM NoSilentLoss == Spec => []LostOnlyByOverlap
<1>1. IInv => LostOnlyByOverlap
  BY DEF IInv
<1> QED
  BY <1>1, Always, PTL
=============================================================================
