---------------------------- MODULE ControlPlane ----------------------------
(***************************************************************************)
(* Accounts, sessions, platform settings and device records of the cloud:  *)
(* the handlers of cloud-infra/internal/server/server.go, the store they   *)
(* share (cloud-infra/internal/storage/store.go), roles and permissions    *)
(* (cloud-infra/internal/rbac/rbac.go) and the seed program that creates   *)
(* the first owner (cloud-infra/cmd/dev-seed/main.go).                     *)
(*                                                                         *)
(* A store method holds the lock and is one step: it changes the memory    *)
(* and then replaces the file as a whole, or fails to.  A handler is       *)
(* several such steps, and anything may happen between two of them.  Each  *)
(* run of the seed program is a process of its own, with its own copy of   *)
(* the file, and runs may overlap with each other and with the platform.   *)
(*                                                                         *)
(* A value that a request writes is named by the number of the request.    *)
(***************************************************************************)
EXTENDS Naturals

CONSTANTS
    Owner,          \* the e-mail address of the first owner
    Emails,         \* the addresses that users are created for
    Roles,          \* the roles that requests name
    Devices,        \* the devices that enroll
    Seeds,          \* the runs of the seed program that may be under way at once
    NoDevice,       \* a request that is about no device
    MaxRequests,    \* bound: requests, logins included
    MaxFaults       \* bound: failed writes

ASSUME NamesAssumption == Owner \notin Emails /\ NoDevice \notin Devices
ASSUME ControlBounds == MaxRequests \in Nat /\ MaxFaults \in Nat

VARIABLES
    mem,        \* the data of the running platform
    file,       \* control-plane.json
    up,         \* whether the platform was started
    req,        \* the requests, each with its handler's progress
    cookies,    \* the tokens of sessions that browsers have and that are not expired
    seed,       \* the runs of the seed program, each with its copy of the file
    replaced,   \* whether a run of it wrote over an installation
    told,       \* what clients were told: users created, settings saved
    refused,    \* addresses whose creation failed and was not repeated
    latest,     \* per device and field, the last request that set it
    overlap,    \* devices of which two handlers had a copy at the same time
    faults

vars == <<mem, file, up, req, cookies, seed, replaced, told, refused, latest, overlap, faults>>
data == <<mem, file>>
seeding == <<seed, replaced>>
history == <<told, refused, latest, overlap>>

-----------------------------------------------------------------------------
(* Roles and permissions.                                                  *)

Viewing == {"device.read", "telemetry.read", "ai.use"}
Administering == Viewing \cup
    {"device.enroll", "device.update", "device.delete", "device.command", "job.delete",
     "device.reboot", "deployment.create", "deployment.approve", "deployment.cancel",
     "artifact.upload", "profile.manage", "user.manage", "audit.read", "remote_access.create"}
Owning == Administering \cup {"tenant.settings.manage"}

RolePermissions ==
    [platform_administrator |-> Owning,
     organization_owner |-> Owning,
     organization_administrator |-> Administering,
     fleet_operator |-> Viewing \cup {"device.command"},
     deployment_manager |-> Viewing \cup {"deployment.create", "deployment.cancel", "artifact.upload"},
     support_engineer |-> Viewing \cup {"device.command", "remote_access.create"},
     security_auditor |-> Viewing \cup {"audit.read"},
     read_only_viewer |-> Viewing]
AllRoles == DOMAIN RolePermissions

ASSUME RolesAssumption == Roles \subseteq AllRoles

\* Fault variant: an administrator may name an owner.
canAssignRole_Peers(actor, role) ==
    \/ actor = "platform_administrator"
    \/ actor \in {"organization_owner", "organization_administrator"} /\ role # "platform_administrator"

canAssignRole(actor, role) ==
    \/ actor = "platform_administrator"
    \/ actor = "organization_owner" /\ role # "platform_administrator"
    \/ actor = "organization_administrator"
       /\ role \notin {"platform_administrator", "organization_owner"}

-----------------------------------------------------------------------------
(* The data.                                                               *)

Persons == Emails \cup {Owner}
Passwords == {"first", "other"}
Numbers == 1..MaxRequests
User == [email : Persons, password : Passwords]
Membership == [user : Persons, role : AllRoles]
Session == [token : Numbers, user : Persons]

\* The fields of a device record, each with the request that has set it (0: it
\* is empty).  They stand for what one handler sets together: "seen" for
\* LastSeenAt, Presence and HealthState, "hardware" for what only an inventory
\* tells.  "agent" is AgentVersion, which heartbeats and inventories both set.
Fields == {"seen", "agent", "location", "remote", "hardware"}
Record == [Fields -> 0..MaxRequests]
New == [f \in Fields |-> 0]

\* settings: the request that saved them (0: the deployment's); change: the
\* last request that saved or reset them.
Empty == [org |-> FALSE, users |-> {}, memberships |-> {}, sessions |-> {}, settings |-> 0,
          change |-> 0, devices |-> {}, record |-> [d \in Devices |-> New],
          inventory |-> {}, telemetry |-> {}]

EmailsOf(s) == {u.email : u \in s.users}
RolesOf(s, e) == {r \in AllRoles : [user |-> e, role |-> r] \in s.memberships}

\* saveLocked succeeds: the file is replaced as a whole; or it fails.
Stored(s) == mem' = s /\ file' = s /\ UNCHANGED faults
Fault == faults < MaxFaults /\ faults' = faults + 1
NotStored(s) == mem' = s /\ UNCHANGED file /\ Fault

-----------------------------------------------------------------------------
(* The requests.  pc is the next step of the handler.                      *)

Ops == {"none", "login", "user", "settings", "reset", "enroll", "patch", "delete",
        "heartbeat", "inventory", "telemetry"}
Unsent == [op |-> "none", pc |-> "unsent", by |-> Owner, email |-> Owner,
           role |-> "read_only_viewer", dev |-> NoDevice, copy |-> New]

Init ==
    /\ mem = Empty /\ file = Empty /\ up = FALSE
    /\ req = [i \in Numbers |-> Unsent]
    /\ cookies = {}
    /\ seed = [n \in Seeds |-> [pc |-> "idle", copy |-> Empty]] /\ replaced = FALSE
    /\ told = [users |-> {}, sessions |-> {}, change |-> 0, settings |-> 0] /\ refused = {}
    /\ latest = [d \in Devices |-> New] /\ overlap = {}
    /\ faults = 0

\* The platform runs and the request is the next to be sent.
Ready(i) == up /\ req[i].pc = "unsent" /\ \A j \in 1..(i - 1) : req[j].pc # "unsent"
Send(i, r) == req' = [req EXCEPT ![i] = r]

Moves(i, pc) == req' = [req EXCEPT ![i].pc = pc]
\* The handler returns: of a request for an account is kept who has made it.
Returns(i) == req' = [req EXCEPT ![i].pc = "done", ![i].dev = NoDevice, ![i].copy = New]

-----------------------------------------------------------------------------
(* The first owner, and the platform's start (compose.yaml: the platform   *)
(* waits for the seed program's success).                                  *)

Initialized(s) == s.org \/ s.users # {} \/ s.memberships # {}

\* A run loads the file and, when it finds an installation, stops.
SeedOpen(n) ==
    /\ seed[n].pc = "idle" /\ ~Initialized(file)
    /\ seed' = [seed EXCEPT ![n] = [pc |-> "create", copy |-> file]]
    /\ UNCHANGED <<data, up, req, cookies, replaced, history, faults>>

\* BootstrapOrganizationOwner looks at the run's own copy only, which had no
\* installation.  Runs with different settings in .env may overlap: the first to
\* write has the first password, one that writes over it another.
Bootstrap(n) ==
    /\ seed[n].pc = "create"
    /\ seed' = [seed EXCEPT ![n] = [pc |-> "idle", copy |-> Empty]]
    /\ LET p == IF file.org THEN "other" ELSE "first" IN
       \/ /\ file' = [seed[n].copy EXCEPT !.org = TRUE, !.users = @ \cup {[email |-> Owner, password |-> p]},
                        !.memberships = @ \cup {[user |-> Owner, role |-> "organization_owner"]}]
          /\ told' = [told EXCEPT !.users = @ \cup
                        {[email |-> Owner, password |-> p, role |-> "organization_owner"]}]
          /\ replaced' = (replaced \/ file.org) /\ UNCHANGED faults
       \/ Fault /\ UNCHANGED <<file, told, replaced>>
    /\ UNCHANGED <<mem, up, req, cookies, refused, latest, overlap>>

\* The platform waits for the run that its compose.yaml starts, no other.
Start ==
    /\ ~up /\ file.org
    /\ up' = TRUE /\ mem' = file
    /\ UNCHANGED <<file, req, cookies, seeding, history, faults>>

\* The platform dies and is started again: what is not in the file is lost.
Restart ==
    /\ up
    /\ mem' = file /\ latest' = file.record
    /\ req' = [i \in Numbers |-> IF req[i].pc = "unsent" THEN req[i]
                                 ELSE [req[i] EXCEPT !.pc = "done", !.dev = NoDevice, !.copy = New]]
    /\ UNCHANGED <<file, up, cookies, seeding, told, refused, overlap, faults>>

-----------------------------------------------------------------------------
(* Sessions.                                                               *)

login(i) ==
    /\ Ready(i)
    /\ \E u \in mem.users :
         LET session == [token |-> i, user |-> u.email]
             s == [mem EXCEPT !.sessions = @ \cup {session}] IN
         \/ /\ Stored(s) /\ cookies' = cookies \cup {i}
            /\ told' = [told EXCEPT !.sessions = @ \cup {session}]
         \/ NotStored(s) /\ UNCHANGED <<cookies, told>>
    /\ Send(i, [Unsent EXCEPT !.op = "login", !.pc = "done"])
    /\ UNCHANGED <<up, seeding, refused, latest, overlap>>

\* logout clears the cookie and leaves the session in the store; and sessions
\* expire.
SignedOut(t) ==
    /\ t \in cookies /\ cookies' = cookies \ {t}
    /\ UNCHANGED <<data, up, req, seeding, history, faults>>

\* withAuth and rbac.Authorize: person e may do what needs the permission.
Authorized(e, permission) ==
    /\ \E session \in mem.sessions :
          session.user = e /\ session.token \in cookies
    /\ \E r \in RolesOf(mem, e) : permission \in RolePermissions[r]

-----------------------------------------------------------------------------
(* users: an account is created.                                           *)

RequestUser(i) ==
    /\ Ready(i)
    /\ \E e \in Persons, email \in Persons, role \in Roles :
         /\ Authorized(e, "user.manage")
         /\ \E r \in RolesOf(mem, e) : canAssignRole(r, role)
         /\ Send(i, [Unsent EXCEPT !.op = "user", !.pc = "act", !.by = e, !.email = email, !.role = role])
    /\ UNCHANGED <<data, up, cookies, seeding, history, faults>>

\* Fault variant: the membership stays when the user is taken back.
Undone_Half(s, user, membership) == [s EXCEPT !.users = @ \ {user}]

Undone(s, user, membership) ==
    [s EXCEPT !.users = @ \ {user}, !.memberships = @ \ {membership}]

\* Fault variant: a failed write is not undone.
CreateTenantUserFails_Kept(i, s, user, membership) ==
    /\ mem' = s /\ UNCHANGED <<file, told>> /\ Fault
    /\ refused' = refused \cup {req[i].email} /\ Returns(i)

CreateTenantUserFails(i, s, user, membership) ==
    /\ mem' = Undone(s, user, membership) /\ UNCHANGED <<file, told>> /\ Fault
    /\ refused' = refused \cup {req[i].email} /\ Returns(i)

CreateTenantUser(i) ==
    /\ req[i].op = "user" /\ req[i].pc = "act"
    /\ LET user == [email |-> req[i].email, password |-> "first"]
           membership == [user |-> req[i].email, role |-> req[i].role]
           s == [mem EXCEPT !.users = @ \cup {user}, !.memberships = @ \cup {membership}] IN
       \/ req[i].email \in EmailsOf(mem) /\ Returns(i) /\ UNCHANGED <<data, told, refused, faults>>
       \/ /\ req[i].email \notin EmailsOf(mem) /\ Stored(s)
          /\ told' = [told EXCEPT !.users = @ \cup
                        {[email |-> req[i].email, password |-> "first", role |-> req[i].role]}]
          /\ refused' = refused \ {req[i].email} /\ Moves(i, "audit")
       \/ req[i].email \notin EmailsOf(mem) /\ CreateTenantUserFails(i, s, user, membership)
    /\ UNCHANGED <<up, cookies, seeding, latest, overlap>>

\* audit.Record writes the whole store once more; its error is ignored.
Audit(i) ==
    /\ req[i].pc = "audit" /\ Returns(i)
    /\ Stored(mem) \/ NotStored(mem)
    /\ UNCHANGED <<up, cookies, seeding, history>>

-----------------------------------------------------------------------------
(* platformSettings.                                                       *)

RequestSettings(i) ==
    /\ Ready(i)
    /\ \E e \in Persons, op \in {"settings", "reset"} :
         /\ Authorized(e, "tenant.settings.manage")
         /\ Send(i, [Unsent EXCEPT !.op = op, !.pc = "act"])
    /\ UNCHANGED <<data, up, cookies, seeding, history, faults>>

\* Fault variant: the error of the save is ignored, as it is elsewhere.
Answer_Unchecked(i, s) ==
    /\ Stored(s) \/ NotStored(s)
    /\ told' = [told EXCEPT !.change = s.change, !.settings = s.settings] /\ Moves(i, "audit")

Answer(i, s) ==
    \/ /\ Stored(s) /\ Moves(i, "audit")
       /\ told' = [told EXCEPT !.change = s.change, !.settings = s.settings]
    \/ NotStored(s) /\ Returns(i) /\ UNCHANGED told

\* SavePlatformSettings and ResetPlatformSettings: not undone when they fail.
ChangeSettings(i) ==
    /\ req[i].op \in {"settings", "reset"} /\ req[i].pc = "act"
    /\ Answer(i, [mem EXCEPT !.settings = IF req[i].op = "settings" THEN i ELSE 0, !.change = @ + 1])
    /\ UNCHANGED <<up, cookies, seeding, refused, latest, overlap>>

-----------------------------------------------------------------------------
(* Device records.                                                         *)

\* deviceEnroll registers a device (CreateDevice), which stays in memory when
\* the write fails; Enrollment has the details.  An ID is never given twice:
\* nothing is under way for it.
deviceEnroll(i) ==
    /\ Ready(i)
    /\ \E d \in Devices \ mem.devices :
         LET s == [mem EXCEPT !.devices = @ \cup {d}, !.record[d] = New] IN
         /\ \A j \in Numbers : req[j].dev # d
         /\ \/ Stored(s) /\ Send(i, [Unsent EXCEPT !.op = "enroll", !.pc = "audit"])
            \/ NotStored(s) /\ Send(i, [Unsent EXCEPT !.op = "enroll", !.pc = "done"])
         /\ latest' = [latest EXCEPT ![d] = New] /\ overlap' = overlap \ {d}
    /\ UNCHANGED <<up, cookies, seeding, told, refused>>

\* Fault variant: a heartbeat without a location clears the one there is.
Edited_Clears(d, set, i) ==
    [f \in Fields |-> IF f \in set THEN i ELSE IF f = "location" THEN 0 ELSE mem.record[d][f]]

\* A handler's copy of the record, with the fields that it sets.
Edited(d, set, i) == [f \in Fields |-> IF f \in set THEN i ELSE mem.record[d][f]]

\* Another handler has a copy too.
NoteOverlap(d) ==
    overlap' = IF \E j \in Numbers : req[j].dev = d /\ req[j].pc = "write"
               THEN overlap \cup {d} ELSE overlap

\* The PATCH of a device: a manual location, a remote access ID, both or none.
Patch(i) ==
    /\ Ready(i)
    /\ \E e \in Persons, d \in mem.devices, set \in SUBSET {"location", "remote"} :
         /\ Authorized(e, "device.read") /\ Authorized(e, "device.update")
         /\ Send(i, [Unsent EXCEPT !.op = "patch", !.pc = "write", !.dev = d, !.copy = Edited(d, set, i)])
         /\ NoteOverlap(d)
    /\ UNCHANGED <<data, up, cookies, seeding, told, refused, latest, faults>>

\* deviceHeartbeat: the location is set when the device knows its own; the
\* agent's version always, to none when the report has none or is not readable.
deviceHeartbeat(i) ==
    /\ Ready(i)
    /\ \E d \in mem.devices, set \in {{"seen"}, {"seen", "location"}}, version \in {i, 0} :
         /\ Send(i, [Unsent EXCEPT !.op = "heartbeat", !.pc = "write", !.dev = d,
                      !.copy = [Edited(d, set, i) EXCEPT !["agent"] = version]])
         /\ NoteOverlap(d)
    /\ UNCHANGED <<data, up, cookies, seeding, told, refused, latest, faults>>

\* Fault variant: the handler does not pass on which device has reported.
deviceInventory_Unnamed(i) ==
    /\ Ready(i) /\ mem.devices # {} /\ Send(i, [Unsent EXCEPT !.op = "inventory", !.pc = "act"])
    /\ UNCHANGED <<data, up, cookies, seeding, history, faults>>

\* deviceInventory: SaveInventory looks the device up, and stores what it got
\* after it has let go of the lock.
deviceInventory(i) ==
    /\ Ready(i)
    /\ \E d \in mem.devices : Send(i, [Unsent EXCEPT !.op = "inventory", !.pc = "act", !.dev = d])
    /\ UNCHANGED <<data, up, cookies, seeding, history, faults>>

SaveInventory(i) ==
    /\ req[i].op = "inventory" /\ req[i].pc = "act"
    /\ LET s == [mem EXCEPT !.inventory = @ \cup {req[i].dev}] IN
       \/ Stored(s) /\ Moves(i, "read")
       \/ NotStored(s) /\ Returns(i)
    /\ UNCHANGED <<up, cookies, seeding, history>>

\* Values that the inventory does not have are kept, the agent's version too;
\* when its payload is not readable, or the device is gone, nothing is done.
ReadInventoried(i) ==
    /\ req[i].pc = "read"
    /\ LET d == req[i].dev IN
       \/ /\ d \in mem.devices /\ NoteOverlap(d)
          /\ \E set \in {{"hardware"}, {"hardware", "agent"}} :
               req' = [req EXCEPT ![i].pc = "write", ![i].copy = Edited(d, set, i)]
       \/ Returns(i) /\ UNCHANGED overlap
    /\ UNCHANGED <<data, up, cookies, seeding, told, refused, latest, faults>>

\* What a request says of the record: the fields that it has a value for and,
\* of a heartbeat, the agent's version in any case.
Says(i, f) == req[i].copy[f] = i \/ (req[i].op = "heartbeat" /\ f = "agent")

\* UpdateDevice: the record as the handler has it.  Only the PATCH looks at
\* the error, and only it is audited.
UpdateDevice(i) ==
    /\ req[i].pc = "write"
    /\ LET d == req[i].dev
           s == [mem EXCEPT !.record[d] = req[i].copy] IN
       \/ d \notin mem.devices /\ Returns(i) /\ UNCHANGED <<data, latest, faults>>
       \/ /\ d \in mem.devices
          /\ \/ Stored(s) /\ req[i].op = "patch" /\ Moves(i, "audit")
             \/ Stored(s) /\ req[i].op # "patch" /\ Returns(i)
             \/ NotStored(s) /\ Returns(i)
          /\ latest' = [latest EXCEPT ![d] = [f \in Fields |-> IF Says(i, f) THEN req[i].copy[f] ELSE @[f]]]
    /\ UNCHANGED <<up, cookies, seeding, told, refused, overlap>>

\* deviceTelemetry: the envelope is checked, then AddTelemetry checks again.
deviceTelemetry(i) ==
    /\ Ready(i)
    /\ \E d \in mem.devices : Send(i, [Unsent EXCEPT !.op = "telemetry", !.pc = "act", !.dev = d])
    /\ UNCHANGED <<data, up, cookies, seeding, history, faults>>

\* Fault variant: the check of the envelope is taken to be enough.
Accepts_Always(d) == TRUE

Accepts(d) == d \in mem.devices

AddTelemetry(i) ==
    /\ req[i].op = "telemetry" /\ req[i].pc = "act" /\ Returns(i)
    /\ LET s == [mem EXCEPT !.telemetry = @ \cup {req[i].dev}] IN
       \/ Accepts(req[i].dev) /\ (Stored(s) \/ NotStored(s))
       \/ ~Accepts(req[i].dev) /\ UNCHANGED <<data, faults>>
    /\ UNCHANGED <<up, cookies, seeding, history>>

RequestDelete(i) ==
    /\ Ready(i)
    /\ \E e \in Persons, d \in Devices :
         /\ Authorized(e, "device.read") /\ Authorized(e, "device.delete")
         /\ Send(i, [Unsent EXCEPT !.op = "delete", !.pc = "act", !.dev = d])
    /\ UNCHANGED <<data, up, cookies, seeding, history, faults>>

\* DeleteDevice; its jobs and campaigns are the subject of Campaign.
DeleteDevice(i) ==
    /\ req[i].op = "delete" /\ req[i].pc = "act"
    /\ LET d == req[i].dev
           s == [mem EXCEPT !.devices = @ \ {d}, !.inventory = @ \ {d}, !.telemetry = @ \ {d}] IN
       \/ d \in mem.devices /\ Stored(s) /\ Moves(i, "audit")
       \/ d \in mem.devices /\ NotStored(s) /\ Returns(i)
       \/ d \notin mem.devices /\ Returns(i) /\ UNCHANGED <<data, faults>>
    /\ UNCHANGED <<up, cookies, seeding, history>>

-----------------------------------------------------------------------------
Accounts(i) == login(i) \/ RequestUser(i) \/ CreateTenantUser(i) \/ RequestSettings(i) \/ ChangeSettings(i)
Registry(i) == \/ deviceEnroll(i) \/ Patch(i) \/ deviceHeartbeat(i) \/ deviceInventory(i) \/ SaveInventory(i)
               \/ ReadInventoried(i) \/ UpdateDevice(i) \/ deviceTelemetry(i) \/ AddTelemetry(i)
               \/ RequestDelete(i) \/ DeleteDevice(i)

Next ==
    \/ \E n \in Seeds : SeedOpen(n) \/ Bootstrap(n)
    \/ Start \/ Restart
    \/ \E i \in Numbers : Accounts(i) \/ Registry(i) \/ Audit(i) \/ SignedOut(i)

Spec == Init /\ [][Next]_vars

-----------------------------------------------------------------------------
(* What must hold.                                                         *)

Data == [org : BOOLEAN, users : SUBSET User, memberships : SUBSET Membership,
         sessions : SUBSET Session, settings : 0..MaxRequests, change : Nat,
         devices : SUBSET Devices, record : [Devices -> Record],
         inventory : SUBSET Devices, telemetry : SUBSET Devices]
AtDevice == {"delete", "inventory", "telemetry"}
Pcs == {"unsent", "act", "read", "write", "audit", "done"}
Request == [op : Ops, pc : Pcs, by : Persons, email : Persons, role : AllRoles,
            dev : Devices \cup {NoDevice}, copy : Record]

\* Every variable has its type, and a handler that works on a device knows
\* which.
TypeOK ==
    /\ mem \in Data /\ file \in Data /\ up \in BOOLEAN
    /\ req \in [Numbers -> Request]
    /\ \A i \in Numbers :
         req[i].pc \in {"read", "write"} \/ (req[i].pc = "act" /\ req[i].op \in AtDevice)
         => req[i].dev \in Devices
    /\ cookies \subseteq Numbers
    /\ seed \in [Seeds -> [pc : {"idle", "create"}, copy : Data]] /\ replaced \in BOOLEAN
    /\ told \in [users : SUBSET [email : Persons, password : Passwords, role : AllRoles],
                 sessions : SUBSET Session, change : Nat, settings : 0..MaxRequests]
    /\ refused \subseteq Persons /\ latest \in [Devices -> Record]
    /\ overlap \subseteq Devices /\ faults \in 0..MaxFaults

\* Users and memberships belong together, one to one.
AccountsConsistent ==
    \A s \in {mem, file} :
        /\ EmailsOf(s) = {m.user : m \in s.memberships}
        /\ \A m, n \in s.memberships : m.user = n.user => m = n
        /\ \A u, v \in s.users : u.email = v.email => u = v

\* Telemetry belongs to a registered device.
TelemetryHasDevice ==
    \A s \in {mem, file} : s.telemetry \subseteq s.devices

\* In memory and in the file, accounts are whole and telemetry has its device:
\* a creation whose write failed leaves neither half of an account behind, two
\* requests for one address do not both create it, a run of the seed program
\* that comes late leaves one owner and not two, and no telemetry stays of a
\* device that is removed while its report is under way.  (An inventory may:
\* SaveInventory stores it after it has let go of the lock.)
StoreConsistent == AccountsConsistent /\ TelemetryHasDevice

\* An account whose creation was answered with an error does not turn up
\* later, when another request writes the store or the platform restarts.
RefusedIsUnknown ==
    \A e \in refused : e \notin EmailsOf(mem) \cup EmailsOf(file)

\* As long as no run of the seed program writes over an installation, what was
\* answered with success is in the file, and so survives a restart: the
\* accounts with role and password, the sessions, and the settings unless they
\* were changed again.
AnsweredIsDurable ==
    ~replaced =>
    /\ \A t \in told.users :
         /\ [email |-> t.email, password |-> t.password] \in file.users
         /\ [user |-> t.email, role |-> t.role] \in file.memberships
    /\ told.sessions \subseteq file.sessions
    /\ \/ file.change > told.change
       \/ file.change = told.change /\ file.settings = told.settings

\* An owner that a run of the seed program has told of stays, with that
\* password: "Changing .env later does not change an existing owner's email or
\* password."  Runs that overlap break it: each looks at its own copy of the
\* file only, and the last to write wins.
OwnerIsKept ==
    \A t \in told.users :
        t.email = Owner => [email |-> Owner, password |-> t.password] \in file.users

\* Nobody can do what neither the first owner nor the person who created the
\* account could do, however long the chain of creations is.
DelegationNeverWidens ==
    \A m \in mem.memberships :
        \/ m.user = Owner
        \/ \E i \in Numbers :
             /\ req[i].op = "user" /\ req[i].email = m.user /\ req[i].role = m.role
             /\ RolePermissions[m.role] \subseteq
                  UNION {RolePermissions[r] : r \in RolesOf(mem, req[i].by)}

\* A field of a device record shows what the last request that says something
\* of it said, unless two handlers had a copy of the record at the same time: an
\* update is lost by an overlap only.  A report that leaves a field out does not
\* clear it, but for the agent's version, which a heartbeat that has none clears.
LostOnlyByOverlap ==
    \A d \in mem.devices \ overlap : mem.record[d] = latest[d]
=============================================================================
