---------------------------- MODULE DeploymentFlow ----------------------------
(***************************************************************************)
(* The one-click deployment tool (scripts/macos_deploy.py): the journal of *)
(* the devices it provisions, the maintenance lease it holds while the API *)
(* is replaced, and the file that remembers the owner of the lease.        *)
(*                                                                         *)
(* The tool is a program that an operator runs again and again.  It may    *)
(* die, or end with an error, between any two of its steps; what is in its *)
(* memory (tool) is then lost, and files, devices and Redis are what they  *)
(* were.  One invocation runs at a time.                                   *)
(***************************************************************************)
EXTENDS Integers, FiniteSets

CONSTANTS Roles,      (* FIXED_ROLES                                         *)
          Owners,     (* owner tokens; a new one is one that nothing holds   *)
          MaxFaults,  (* bound: faults of one behaviour                      *)
          Legacy      (* may the journal be one of the first version?        *)

ASSUME ConstantAssumption ==
  /\ MaxFaults \in Nat
  /\ Legacy \in BOOLEAN

NoOwner == "no owner"

ASSUME OwnerAssumption == NoOwner \notin Owners

VARIABLES
  tool,      (* the running invocation: where it is, and what it remembers   *)
  journal,   (* the step of every role in the provisioning journal           *)
  stamped,   (* has the entry of the role a created_at?                      *)
  version,   (* the version of the journal file                              *)
  ownerFile, (* DeploymentOwnerState: the owner token on disk                *)
  secrets,   (* the root .env                                                *)
  avd,       (* every fixed AVD: "none", "off" or "on"                       *)
  app,       (* what is installed on it: "none", "apk" or "frida"            *)
  bundle,    (* the stored session of the role: "none", or refreshed         *)
             (* "before" or "after" the created_at of its entry              *)
  own,       (* history: that session was read from the AVD there is now     *)
  lease,     (* the deployment lease in Redis                                *)
  api,       (* is the API container up?                                     *)
  paused,    (* RunnerControl.queue_paused                                   *)
  working,   (* does the runner work on an ordinary task?                    *)
  faults     (* how many faults there were                                   *)

files   == <<journal, stamped, version, ownerFile, secrets>>
devices == <<avd, app, bundle, own>>
service == <<lease, api, paused, working>>
vars    == <<tool, files, devices, service, faults>>

Chain == <<"PENDING_CREATE", "AVD_CREATED", "APK_VERIFIED", "FRIDA_READY",
           "LOGIN_REQUIRED", "ACCEPTANCE_PENDING">>

Steps == {Chain[i] : i \in 1..6}

Idle == [pc |-> "idle", mode |-> "none", missing |-> {}, prov |-> {},
         token |-> NoOwner]

Stages == {"idle", "checks", "image", "roles", "launch", "verify", "decide",
           "lock", "wait", "store", "acquire", "drop", "renew", "compose",
           "health", "mark", "sessions", "pending", "rerenew", "accept",
           "release", "unfile", "complete"}

At(pc) == tool.pc = pc

Goto(pc) == tool' = [tool EXCEPT !.pc = pc]

(* A DeploymentError, and the regular end: the process exits.               *)
End == tool' = Idle

Journaled == {r \in Roles : journal[r] # "none"}

(* _validate_document: in a document of the second version every role that  *)
(* was created has a creation time.                                         *)
Readable ==
  version = 2 =>
    \A r \in Journaled : journal[r] # "PENDING_CREATE" => stamped[r]

(* _write replaces the file atomically, with a document of version 2.       *)
WriteJournal(steps, times) ==
  /\ journal' = steps
  /\ stamped' = times
  /\ version' = 2

(* set_step: only the next step of the chain.                               *)
SetStep(r, s) ==
  /\ Readable
  /\ \E i \in 1..5 : journal[r] = Chain[i] /\ s = Chain[i + 1]
  /\ WriteJournal([journal EXCEPT ![r] = s], stamped)
  /\ UNCHANGED <<ownerFile, secrets>>

-----------------------------------------------------------------------------
(* What emulator -list-avds does not list.                                  *)
MissingRoles == {r \in Roles : avd[r] = "none"}

(* "auto" provisions when an AVD is missing or the journal is not empty.    *)
ModeOf(mode) ==
  IF mode # "auto" THEN mode
  ELSE IF MissingRoles = {} /\ Journaled = {} THEN "existing"
  ELSE "provision"

(* The operator starts the tool; a rollback goes for the lock at once.      *)
Start(mode) ==
  /\ At("idle")
  /\ mode = "auto" => Readable
  /\ tool' = [Idle EXCEPT
       !.pc = IF mode = "rollback" THEN "lock" ELSE "checks",
       !.mode = ModeOf(mode),
       !.missing = MissingRoles]
  /\ UNCHANGED <<files, devices, service, faults>>

(* The root .env is created by setup-admin, or the two secrets that an      *)
(* earlier release did not have are added to it; what is there is kept.     *)
CreatedSecrets == "complete"

UpgradedSecrets == IF secrets = "partial" THEN "complete" ELSE secrets

RootEnvironment ==
  secrets' = IF secrets = "none" THEN CreatedSecrets ELSE UpgradedSecrets

(* An existing deployment needs both AVDs.                                  *)
ExistingChecks ==
  /\ At("checks")
  /\ tool.mode = "existing"
  /\ tool.missing = {}
  /\ Goto("image")
  /\ RootEnvironment
  /\ UNCHANGED <<journal, stamped, version, ownerFile, devices, service, faults>>

(* record_initial_missing: an entry for every missing role that has none.   *)
ProvisionChecks ==
  LET new == tool.missing \ Journaled IN
  /\ At("checks")
  /\ tool.mode = "provision"
  /\ Readable
  /\ IF new = {} THEN UNCHANGED <<journal, stamped, version>>
     ELSE WriteJournal(
       [r \in Roles |-> IF r \in new THEN "PENDING_CREATE" ELSE journal[r]],
       [r \in Roles |-> r \notin new /\ stamped[r]])
  /\ RootEnvironment
  /\ tool' = [tool EXCEPT !.pc = "image", !.prov = Journaled \cup new]
  /\ UNCHANGED <<ownerFile, devices, service, faults>>

(* The effective Compose configuration is valid, the image is built, and    *)
(* its manifest names the expected assets.  Nothing of what runs changes.   *)
BuildImage ==
  /\ At("image")
  /\ Goto(IF tool.mode = "existing" THEN "lock" ELSE "roles")
  /\ UNCHANGED <<files, devices, service, faults>>

-----------------------------------------------------------------------------
(* Provisioning brings every role of the journal to FRIDA_READY.  The code  *)
(* goes role by role; here they may take turns.                             *)
Turn(r) ==
  /\ At("roles")
  /\ r \in tool.prov
  /\ journal[r] \in {Chain[i] : i \in 1..3}

CreateAvd(r) ==
  /\ Turn(r)
  /\ avd[r] = "none"
  /\ journal[r] = "PENDING_CREATE"
  /\ avd' = [avd EXCEPT ![r] = "off"]
  /\ UNCHANGED <<tool, files, app, bundle, own, service, faults>>

(* The AVD exists and has no creation time: this run has created it, or one *)
(* that died before it could write the journal, or an earlier release.      *)
(* Whatever session is stored was refreshed before the time written now.    *)
Stamp(r) ==
  /\ Turn(r)
  /\ avd[r] # "none"
  /\ ~stamped[r]
  /\ Readable
  /\ WriteJournal([journal EXCEPT ![r] = "AVD_CREATED"],
                  [stamped EXCEPT ![r] = TRUE])
  /\ bundle' = [bundle EXCEPT ![r] = IF @ = "none" THEN @ ELSE "before"]
  /\ UNCHANGED <<tool, ownerFile, secrets, avd, app, own, service, faults>>

(* The phase that follows AVD_CREATED installs the APK, the next one Frida. *)
(* The mutant asks for Frida after either of them.                          *)
ProvisionedMutant(r) == app[r] = "frida"

Provisioned(r) ==
  IF journal[r] = "AVD_CREATED" THEN app[r] # "none" ELSE app[r] = "frida"

(* The device is there: adb attaches to the emulator of the fixed serial,   *)
(* and it is the fixed AVD, run by the trusted emulator.                    *)
Attached(r) == avd[r] = "on"

(* _ensure_provisioning_avd_booted                                          *)
Boot(r) == avd' = [avd EXCEPT ![r] = "on"]

(* The AVD is booted and the phase is done in a container.                  *)
Provision(r) ==
  /\ Turn(r)
  /\ stamped[r]
  /\ avd[r] # "none"
  /\ ~(Attached(r) /\ Provisioned(r))
  /\ Boot(r)
  /\ app' = [app EXCEPT ![r] = IF Provisioned(r) THEN @
                               ELSE IF journal[r] = "AVD_CREATED" THEN "apk"
                               ELSE "frida"]
  /\ UNCHANGED <<tool, files, bundle, own, service, faults>>

(* Only then is the phase journaled; one that was done and not journaled is *)
(* verified again.                                                          *)
JournalPhase(r) ==
  /\ Turn(r)
  /\ stamped[r]
  /\ Attached(r) /\ Provisioned(r)
  /\ SetStep(r, IF journal[r] = "AVD_CREATED" THEN "APK_VERIFIED"
                ELSE "FRIDA_READY")
  /\ UNCHANGED <<tool, devices, service, faults>>

RolesReady ==
  /\ At("roles")
  /\ \A r \in tool.prov : ~Turn(r)
  /\ Goto("launch")
  /\ UNCHANGED <<files, devices, service, faults>>

(* The broker is asked to start a device and to launch the App, and polled  *)
(* until the operation says RUNNING.                                        *)
StartDevices(roles) ==
  avd' = [r \in Roles |-> IF r \in roles THEN "on" ELSE avd[r]]

(* The lifecycle service is installed and starts the devices: all of them,  *)
(* or those that were provisioned in this run.                              *)
Launch ==
  /\ At("launch")
  /\ Goto("verify")
  /\ StartDevices(IF tool.mode = "existing" THEN Roles
                  ELSE {r \in tool.prov : journal[r] = "FRIDA_READY"})
  /\ UNCHANGED <<files, app, bundle, own, service, faults>>

(* Identity and APK digest of every device are read through adb.            *)
DevicesVerified == \A r \in Roles : Attached(r) /\ app[r] # "none"

Verify ==
  /\ At("verify")
  /\ DevicesVerified
  /\ Goto(IF tool.mode = "existing" THEN "renew" ELSE "decide")
  /\ UNCHANGED <<files, devices, service, faults>>

(* A first replacement, before anybody could log in, takes no lease.        *)
Decide ==
  /\ At("decide")
  /\ Goto(IF \A r \in Journaled :
               journal[r] \in {"LOGIN_REQUIRED", "ACCEPTANCE_PENDING"}
          THEN "lock" ELSE "compose")
  /\ UNCHANGED <<files, devices, service, faults>>

-----------------------------------------------------------------------------
(* prepare: the administrator's lock pauses the queue of the old API, ...   *)
Lock ==
  /\ At("lock")
  /\ api = "up"
  /\ paused' = TRUE
  /\ Goto("wait")
  /\ UNCHANGED <<files, devices, lease, api, working, faults>>

(* ... the running task comes to its end, ...                               *)
RunnerIdle == ~working

AfterPrepare == IF tool.mode = "existing" THEN "launch" ELSE "renew"

(* load: the token of a private file of this user.                          *)
StoredOwner == ownerFile

(* ... and an owner that is on disk may hold the lease already, which is    *)
(* renewed then.                                                            *)
LoadOwner ==
  /\ At("wait")
  /\ RunnerIdle
  /\ tool.mode # "rollback"
  /\ IF StoredOwner # NoOwner
       THEN tool' = [tool EXCEPT !.token = StoredOwner,
              !.pc = IF lease = StoredOwner THEN AfterPrepare ELSE "store"]
       ELSE \E o \in Owners \ {lease} :
              tool' = [tool EXCEPT !.token = o, !.pc = "store"]
  /\ UNCHANGED <<files, devices, service, faults>>

(* A rollback takes the owner that is on disk.                              *)
RollbackOwner ==
  /\ At("wait")
  /\ RunnerIdle
  /\ tool.mode = "rollback"
  /\ StoredOwner # NoOwner
  /\ tool' = [tool EXCEPT !.token = StoredOwner, !.pc = "release"]
  /\ UNCHANGED <<files, devices, service, faults>>

(* The owner is on disk before the lease is taken.  The mutant keeps it in  *)
(* memory.                                                                  *)
StoreOwnerMutant ==
  /\ At("store")
  /\ Goto("acquire")
  /\ UNCHANGED <<files, devices, service, faults>>

StoreOwner ==
  /\ At("store")
  /\ ownerFile' = tool.token
  /\ Goto("acquire")
  /\ UNCHANGED <<journal, stamped, version, secrets, devices, service, faults>>

(* SET NX, unless a task is running.  The mutant relies on the idle check.  *)
AcquirableMutant == lease = NoOwner

Acquirable == lease = NoOwner /\ RunnerIdle

Acquire ==
  /\ At("acquire")
  /\ IF Acquirable
       THEN lease' = tool.token /\ Goto(AfterPrepare)
       ELSE lease' = lease /\ Goto("drop")
  /\ UNCHANGED <<files, devices, api, paused, working, faults>>

(* DEPLOYMENT_MAINTENANCE_BUSY                                              *)
DropOwner ==
  /\ At("drop")
  /\ ownerFile' = NoOwner
  /\ End
  /\ UNCHANGED <<journal, stamped, version, secrets, devices, service, faults>>

(* The scripts compare the owner.                                           *)
Holds == lease = tool.token

(* The lease is extended; without it the run ends (..._LOST).               *)
Renew ==
  /\ At("renew")
  /\ Holds
  /\ Goto("compose")
  /\ UNCHANGED <<files, devices, service, faults>>

Rerenew ==
  /\ At("rerenew")
  /\ Holds
  /\ Goto(IF tool.mode = "existing" THEN "sessions" ELSE "accept")
  /\ UNCHANGED <<files, devices, service, faults>>

-----------------------------------------------------------------------------
(* docker compose up replaces the API when its image has changed.  A new    *)
(* process has an open queue and no lock, and what ran is interrupted.      *)
ComposeUp ==
  /\ At("compose")
  /\ Goto("health")
  /\ \/ UNCHANGED service
     \/ /\ api' = "up"
        /\ paused' = FALSE
        /\ working' = FALSE
        /\ lease' = lease
  /\ UNCHANGED <<files, devices, faults>>

Healthy ==
  /\ At("health")
  /\ api = "up"
  /\ Goto(IF tool.mode = "existing" THEN "rerenew" ELSE "mark")
  /\ UNCHANGED <<files, devices, service, faults>>

MarkLogin(r) ==
  /\ At("mark")
  /\ r \in tool.prov
  /\ journal[r] = "FRIDA_READY"
  /\ SetStep(r, "LOGIN_REQUIRED")
  /\ UNCHANGED <<tool, devices, service, faults>>

Marked ==
  /\ At("mark")
  /\ \A r \in tool.prov : journal[r] # "FRIDA_READY"
  /\ Goto("sessions")
  /\ UNCHANGED <<files, devices, service, faults>>

(* Every role has a stored session, and a new device one that was refreshed *)
(* after its creation; otherwise FIRST_TIME_LOGIN_REQUIRED, or              *)
(* SESSION_NOT_READY of an existing deployment.  The mutant is content with *)
(* any session.                                                             *)
SessionsReadyMutant == \A r \in Roles : bundle[r] # "none"

SessionsReady ==
  /\ \A r \in Roles : bundle[r] # "none"
  /\ \A r \in tool.prov : stamped[r] /\ bundle[r] = "after"

CheckSessions ==
  /\ At("sessions")
  /\ api = "up"
  /\ SessionsReady
  /\ Goto(IF tool.mode = "existing" THEN "accept" ELSE "pending")
  /\ UNCHANGED <<files, devices, service, faults>>

MarkPending(r) ==
  /\ At("pending")
  /\ r \in tool.prov
  /\ journal[r] = "LOGIN_REQUIRED"
  /\ SetStep(r, "ACCEPTANCE_PENDING")
  /\ UNCHANGED <<tool, devices, service, faults>>

(* A run that took no lease ends here, and so does one with a role that is  *)
(* somewhere else.                                                          *)
Pended ==
  /\ At("pending")
  /\ \A r \in tool.prov : journal[r] # "LOGIN_REQUIRED"
  /\ IF /\ tool.token # NoOwner
        /\ \A r \in Journaled : journal[r] = "ACCEPTANCE_PENDING"
       THEN Goto("rerenew")
       ELSE End
  /\ UNCHANGED <<files, devices, service, faults>>

(* The acceptance task is bound to the lease and is the only one that runs. *)
Accept ==
  /\ At("accept")
  /\ api = "up"
  /\ Holds
  /\ Goto("release")
  /\ UNCHANGED <<files, devices, service, faults>>

(* release: compare-owner in Redis, then the file.                          *)
Release ==
  /\ At("release")
  /\ Holds
  /\ lease' = NoOwner
  /\ Goto("unfile")
  /\ UNCHANGED <<files, devices, api, paused, working, faults>>

DeleteOwner ==
  /\ At("unfile")
  /\ ownerFile' = NoOwner
  /\ tool' = [tool EXCEPT !.pc = "complete", !.token = NoOwner]
  /\ UNCHANGED <<journal, stamped, version, secrets, devices, service, faults>>

Complete(r) ==
  /\ At("complete")
  /\ r \in tool.prov
  /\ journal[r] = "ACCEPTANCE_PENDING"
  /\ WriteJournal([journal EXCEPT ![r] = "none"], [stamped EXCEPT ![r] = FALSE])
  /\ UNCHANGED <<tool, ownerFile, secrets, devices, service, faults>>

(* READY, or MAINTENANCE_RELEASED_QUEUE_PAUSED.                             *)
Done ==
  /\ At("complete")
  /\ \A r \in tool.prov : journal[r] = "none"
  /\ End
  /\ UNCHANGED <<files, devices, service, faults>>

(* The stages that cannot go on: the run ends with an error, or asks the    *)
(* operator to log in.  The lease and its owner stay where they are.        *)
Blocked ==
  CASE At("checks")   -> IF tool.mode = "existing" THEN tool.missing # {}
                         ELSE ~Readable
    [] At("roles")    -> \/ ~Readable
                         \/ \E r \in Roles : /\ Turn(r) /\ avd[r] = "none"
                                             /\ journal[r] # "PENDING_CREATE"
    [] At("verify")   -> ~DevicesVerified
    [] At("lock")     -> api = "down"
    [] At("wait")     -> tool.mode = "rollback" /\ StoredOwner = NoOwner /\ ~working
    [] At("renew")    -> ~Holds
    [] At("rerenew")  -> ~Holds
    [] At("health")   -> api = "down"
    [] At("sessions") -> api = "down" \/ ~SessionsReady
    [] At("accept")   -> api = "down" \/ ~Holds
    [] At("release")  -> ~Holds
    [] OTHER          -> FALSE

Refuse ==
  /\ Blocked
  /\ End
  /\ UNCHANGED <<files, devices, service, faults>>

-----------------------------------------------------------------------------
(* Faults.  A step may fail, or the process may die, anywhere.              *)
Fault == faults < MaxFaults /\ faults' = faults + 1

Crash ==
  /\ Fault
  /\ tool.pc \notin {"idle", "checks"}
  /\ End
  /\ UNCHANGED <<files, devices, service>>

(* A prerequisite is missing: a command, a JDK, disk space, the system      *)
(* image or its licence.  Nothing has been changed.                         *)
HostRefuses ==
  /\ Fault
  /\ At("checks")
  /\ End
  /\ UNCHANGED <<files, devices, service>>

(* redis-cli has run the script, but the tool does not learn of it.         *)
AcquireUnanswered ==
  /\ Fault
  /\ At("acquire")
  /\ Acquirable
  /\ lease' = tool.token
  /\ End
  /\ UNCHANGED <<files, devices, api, paused, working>>

ReleaseUnanswered ==
  /\ Fault
  /\ At("release")
  /\ Holds
  /\ lease' = NoOwner
  /\ End
  /\ UNCHANGED <<files, devices, api, paused, working>>

(* DEPLOYMENT_TASKS_ACTIVE: a task takes longer than the idle timeout.      *)
StillBusy ==
  /\ Fault
  /\ At("wait")
  /\ working
  /\ End
  /\ UNCHANGED <<files, devices, service>>

(* The hour of the lease is over although every stage is far shorter: the   *)
(* host was suspended.  Between a renewal and the replacement there is no   *)
(* time for it.                                                             *)
LeaseExpires ==
  /\ Fault
  /\ lease # NoOwner
  /\ ~At("compose")
  /\ lease' = NoOwner
  /\ UNCHANGED <<tool, files, devices, api, paused, working>>

ApiStops ==
  /\ Fault
  /\ api = "up"
  /\ api' = "down"
  /\ working' = FALSE
  /\ paused' = FALSE
  /\ UNCHANGED <<tool, files, devices, lease>>

DeviceStops(r) ==
  /\ Fault
  /\ avd[r] = "on"
  /\ avd' = [avd EXCEPT ![r] = "off"]
  /\ UNCHANGED <<tool, files, app, bundle, own, service>>

(* Somebody deletes a device that is in use; its session stays behind.      *)
DeleteAvd(r) ==
  /\ Fault
  /\ At("idle")
  /\ journal[r] = "none"
  /\ avd[r] # "none"
  /\ avd' = [avd EXCEPT ![r] = "none"]
  /\ app' = [app EXCEPT ![r] = "none"]
  /\ own' = [own EXCEPT ![r] = FALSE]
  /\ UNCHANGED <<tool, files, bundle, service>>

(* The rest of the world: Docker restarts the API, the operator starts a    *)
(* device, logs in and refreshes the session, and the service does its work.*)
ApiStarts ==
  /\ api = "down"
  /\ api' = "up"
  /\ UNCHANGED <<tool, files, devices, lease, paused, working, faults>>

StartDevice(r) ==
  /\ avd[r] = "off"
  /\ avd' = [avd EXCEPT ![r] = "on"]
  /\ UNCHANGED <<tool, files, app, bundle, own, service, faults>>

Login(r) ==
  /\ api = "up"
  /\ avd[r] = "on"
  /\ app[r] = "frida"
  /\ bundle' = [bundle EXCEPT ![r] = "after"]
  /\ own' = [own EXCEPT ![r] = TRUE]
  /\ UNCHANGED <<tool, files, avd, app, service, faults>>

TaskStarts ==
  /\ api = "up"
  /\ ~paused /\ ~working
  /\ lease = NoOwner
  /\ working' = TRUE
  /\ UNCHANGED <<tool, files, devices, lease, api, paused, faults>>

TaskEnds ==
  /\ working
  /\ working' = FALSE
  /\ UNCHANGED <<tool, files, devices, lease, api, paused, faults>>

(* The tool keeps its lock, and with it the queue closed, while it runs.    *)
Resume ==
  /\ At("idle")
  /\ api = "up"
  /\ paused
  /\ paused' = FALSE
  /\ UNCHANGED <<tool, files, devices, lease, api, working, faults>>

-----------------------------------------------------------------------------
(* A host with any of the devices, sessions that may be left from others,   *)
(* and perhaps the journal of an earlier release, which had no times and    *)
(* knew three steps; the last of them is read as AVD_CREATED.               *)
Init ==
  /\ tool = Idle
  /\ ownerFile = NoOwner
  /\ version = IF Legacy THEN 1 ELSE 2
  /\ journal \in [Roles ->
       IF Legacy THEN {"none", "PENDING_CREATE", "AVD_CREATED"}
       ELSE {"none"}]
  /\ stamped = [r \in Roles |-> FALSE]
  /\ secrets \in {"none", "partial", "complete"}
  /\ avd \in [Roles -> {"none", "off", "on"}]
  /\ app = [r \in Roles |-> IF avd[r] = "none" \/ journal[r] # "none"
                            THEN "none" ELSE "frida"]
  /\ bundle \in [Roles -> {"none", "after"}]
  /\ own = [r \in Roles |-> /\ avd[r] # "none" /\ journal[r] = "none"
                            /\ bundle[r] # "none"]
  /\ \A r \in Roles :
       /\ journal[r] = "AVD_CREATED" => avd[r] # "none"
       /\ journal[r] = "none" /\ avd[r] # "none" => bundle[r] # "none"
  /\ lease = NoOwner
  /\ api \in {"up", "down"}
  /\ paused = FALSE
  /\ working = FALSE
  /\ faults = 0

ToolStep ==
  \/ ExistingChecks \/ ProvisionChecks \/ BuildImage \/ RolesReady
  \/ Launch \/ Verify \/ Decide
  \/ \E r \in Roles : CreateAvd(r) \/ Stamp(r) \/ Provision(r) \/ JournalPhase(r)
                      \/ MarkLogin(r) \/ MarkPending(r) \/ Complete(r)
  \/ Lock \/ LoadOwner \/ RollbackOwner \/ StoreOwner \/ Acquire \/ DropOwner
  \/ Renew \/ Rerenew \/ ComposeUp \/ Healthy \/ Marked \/ CheckSessions \/ Pended
  \/ Accept \/ Release \/ DeleteOwner \/ Done \/ Refuse

Faulty ==
  \/ Crash \/ HostRefuses \/ AcquireUnanswered \/ ReleaseUnanswered \/ StillBusy
  \/ LeaseExpires \/ ApiStops
  \/ \E r \in Roles : DeviceStops(r) \/ DeleteAvd(r)

World ==
  \/ ApiStarts \/ TaskStarts \/ TaskEnds \/ Resume
  \/ \E r \in Roles : StartDevice(r) \/ Login(r)

Next ==
  \/ \E mode \in {"auto", "existing", "provision", "rollback"} : Start(mode)
  \/ ToolStep \/ Faulty \/ World

Spec == Init /\ [][Next]_vars

(* The tool goes on (where it polls for an idle runner, it meets a moment   *)
(* between two tasks), the operator runs it again and again, starts devices *)
(* and logs in, Docker restarts the API, and tasks come to an end.          *)
Fairness ==
  /\ SF_vars(ToolStep)
  /\ SF_vars(Start("auto"))
  /\ WF_vars(ApiStarts) /\ WF_vars(TaskEnds)
  /\ \A r \in Roles : WF_vars(StartDevice(r)) /\ SF_vars(Login(r))

FairSpec == Spec /\ Fairness

-----------------------------------------------------------------------------
(* The shape of the tool, of its files, of the devices and of the service.  *)
ToolType ==
  tool \in [pc : Stages, mode : {"none", "existing", "provision", "rollback"},
            missing : SUBSET Roles, prov : SUBSET Roles,
            token : Owners \cup {NoOwner}]

FilesType ==
  /\ journal \in [Roles -> Steps \cup {"none"}]
  /\ stamped \in [Roles -> BOOLEAN]
  /\ version \in {1, 2}
  /\ ownerFile \in Owners \cup {NoOwner}
  /\ secrets \in {"none", "partial", "complete"}

DevicesType ==
  /\ avd \in [Roles -> {"none", "off", "on"}]
  /\ app \in [Roles -> {"none", "apk", "frida"}]
  /\ bundle \in [Roles -> {"none", "before", "after"}]
  /\ own \in [Roles -> BOOLEAN]

ServiceType ==
  /\ lease \in Owners \cup {NoOwner}
  /\ api \in {"up", "down"}
  /\ paused \in BOOLEAN
  /\ working \in BOOLEAN
  /\ faults \in 0..MaxFaults

TypeOK == ToolType /\ FilesType /\ DevicesType /\ ServiceType

(* Whatever dies or stays unanswered, the owner of a live lease is on disk, *)
(* so the next run renews it and a rollback can release it.                 *)
OwnerKept == lease # NoOwner => ownerFile = lease

(* The journal never claims more than was done, and a device without an     *)
(* entry is one that is completely provisioned and whose stored session was *)
(* read from this device, not from one of the same name before it.          *)
RoleSound(r) ==
  avd[r] # "none" =>
    /\ journal[r] = "none" => app[r] = "frida" /\ own[r]
    /\ journal[r] = "APK_VERIFIED" => app[r] # "none"
    /\ journal[r] \in {Chain[i] : i \in 4..6} => app[r] = "frida"

RolesSound == \A r \in Roles : RoleSound(r)

(* A run that has taken the lease replaces the API only while no ordinary   *)
(* task is being worked on.                                                 *)
NothingInterrupted ==
  [][At("compose") /\ ~At("compose")' /\ tool.token # NoOwner => ~working]_vars

(* Every role that was begun is provisioned in the end, and its entry goes. *)
ProvisioningEnds == Journaled # {} ~> Journaled = {}

(* A document of the second version is always precise, so the tool can read *)
(* its own journal.                                                         *)
JournalReadable == Readable
=============================================================================
