------------------------- MODULE DeploymentFlowProofs -------------------------
(***************************************************************************)
(* Proofs about DeploymentFlow, for any set of roles and owner tokens, any *)
(* number of faults, and from journals of either version.                  *)
(*                                                                         *)
(* Two invariants are inductive, each above the types: OwnerInv says who   *)
(* knows the owner of the lease at every stage of the tool, RoleInv where  *)
(* the stored session of a device comes from.                              *)
(***************************************************************************)
EXTENDS DeploymentFlow, TLAPS

LEMMA ChainIs ==
  /\ Chain[1] = "PENDING_CREATE" /\ Chain[2] = "AVD_CREATED"
  /\ Chain[3] = "APK_VERIFIED"   /\ Chain[4] = "FRIDA_READY"
  /\ Chain[5] = "LOGIN_REQUIRED" /\ Chain[6] = "ACCEPTANCE_PENDING"
  BY DEF Chain

LEMMA StepsAre ==
  Steps = {"PENDING_CREATE", "AVD_CREATED", "APK_VERIFIED", "FRIDA_READY",
           "LOGIN_REQUIRED", "ACCEPTANCE_PENDING"}
  BY ChainIs DEF Steps

(* What set_step writes is the successor of what was there.                 *)
LEMMA SetStepWrites ==
  ASSUME NEW r, NEW s, SetStep(r, s)
  PROVE  /\ journal' = [journal EXCEPT ![r] = s]
         /\ stamped' = stamped /\ version' = 2
         /\ \/ journal[r] = "PENDING_CREATE" /\ s = "AVD_CREATED"
            \/ journal[r] = "AVD_CREATED"    /\ s = "APK_VERIFIED"
            \/ journal[r] = "APK_VERIFIED"   /\ s = "FRIDA_READY"
            \/ journal[r] = "FRIDA_READY"    /\ s = "LOGIN_REQUIRED"
            \/ journal[r] = "LOGIN_REQUIRED" /\ s = "ACCEPTANCE_PENDING"
  BY ChainIs DEF SetStep, WriteJournal

LEMMA TurnMeans ==
  ASSUME NEW r, Turn(r)
  PROVE  /\ At("roles") /\ r \in tool.prov
         /\ journal[r] \in {"PENDING_CREATE", "AVD_CREATED", "APK_VERIFIED"}
  BY ChainIs DEF Turn

-----------------------------------------------------------------------------
(* Types.                                                                   *)
(* A part that a step leaves alone keeps its type.                          *)
LEMMA Frames ==
  /\ ToolType /\ UNCHANGED tool => ToolType'
  /\ FilesType /\ UNCHANGED files => FilesType'
  /\ DevicesType /\ UNCHANGED devices => DevicesType'
  /\ ServiceType /\ UNCHANGED <<service, faults>> => ServiceType'
  BY DEF ToolType, FilesType, DevicesType, ServiceType, files, devices, service

(* The tool moves to another stage, or ends.                                *)
LEMMA ToolMoves ==
  /\ \A pc \in Stages : ToolType /\ Goto(pc) => ToolType'
  /\ End => ToolType'
  BY DEF ToolType, Goto, End, Idle, Stages

LEMMA InitTypes == Init => TypeOK
<1> SUFFICES ASSUME Init PROVE TypeOK
  OBVIOUS
<1>1. ToolType
  BY DEF Init, ToolType, Idle, Stages
<1>2. FilesType
  BY StepsAre DEF Init, FilesType
<1>3. DevicesType
  BY DEF Init, DevicesType
<1>4. ServiceType
  <2>1. lease = NoOwner /\ api \in {"up", "down"} /\ faults = 0
    BY Zenon DEF Init
  <2>2. paused \in BOOLEAN /\ working \in BOOLEAN
    BY Zenon DEF Init
  <2> QED
    BY <2>1, <2>2, ConstantAssumption DEF ServiceType
<1> QED
  BY <1>1, <1>2, <1>3, <1>4 DEF TypeOK

(* The stages up to the lock, where the journal is written and the devices  *)
(* are provisioned.                                                         *)
LEMMA ProvisionTypes ==
  ASSUME TypeOK,
         ExistingChecks \/ ProvisionChecks \/ BuildImage \/ RolesReady
           \/ Launch \/ Verify \/ Decide
           \/ \E r \in Roles : CreateAvd(r) \/ Stamp(r) \/ Provision(r)
                               \/ JournalPhase(r)
  PROVE  TypeOK'
<1> USE Frames, ToolMoves DEF TypeOK
<1>1. CASE ExistingChecks
  <2>1. FilesType'
    BY <1>1 DEF ExistingChecks, RootEnvironment, CreatedSecrets,
                UpgradedSecrets, FilesType
  <2> QED
    BY <1>1, <2>1 DEF ExistingChecks, Stages
<1>2. CASE ProvisionChecks
  <2>1. FilesType'
    <3>1. secrets' \in {"none", "partial", "complete"}
      BY <1>2 DEF ProvisionChecks, RootEnvironment, CreatedSecrets,
                  UpgradedSecrets, FilesType
    <3> QED
      BY <1>2, <3>1, StepsAre DEF ProvisionChecks, WriteJournal, FilesType
  <2>2. ToolType'
    BY <1>2 DEF ProvisionChecks, ToolType, Journaled, Stages
  <2> QED
    BY <1>2, <2>1, <2>2 DEF ProvisionChecks
<1>3. CASE BuildImage \/ RolesReady \/ Verify \/ Decide
  BY <1>3 DEF BuildImage, RolesReady, Verify, Decide, Stages
<1>4. CASE Launch
  <2>1. DevicesType'
    BY <1>4 DEF Launch, StartDevices, DevicesType
  <2> QED
    BY <1>4, <2>1 DEF Launch, Stages
<1>5. ASSUME NEW r \in Roles, CreateAvd(r) \/ Provision(r) PROVE TypeOK'
  <2>1. DevicesType'
    BY <1>5 DEF CreateAvd, Provision, Boot, DevicesType
  <2> QED
    BY <1>5, <2>1 DEF CreateAvd, Provision
<1>6. ASSUME NEW r \in Roles, Stamp(r) PROVE TypeOK'
  <2>1. FilesType'
    BY <1>6, StepsAre DEF Stamp, WriteJournal, FilesType
  <2>2. DevicesType'
    BY <1>6 DEF Stamp, DevicesType
  <2> QED
    BY <1>6, <2>1, <2>2 DEF Stamp
<1>7. ASSUME NEW r \in Roles, JournalPhase(r) PROVE TypeOK'
  <2>1. FilesType'
    <3>1. PICK s : SetStep(r, s)
      BY <1>7 DEF JournalPhase
    <3>2. UNCHANGED <<ownerFile, secrets>>
      BY <3>1 DEF SetStep
    <3> QED
      BY <3>1, <3>2, StepsAre, SetStepWrites DEF FilesType
  <2> QED
    BY <1>7, <2>1 DEF JournalPhase
<1> QED
  BY <1>1, <1>2, <1>3, <1>4, <1>5, <1>6, <1>7

(* The stages that hold the lease or go for it.                             *)
LEMMA LeaseTypes ==
  ASSUME TypeOK,
         Lock \/ LoadOwner \/ RollbackOwner \/ StoreOwner \/ Acquire
           \/ DropOwner \/ Renew \/ Rerenew \/ ComposeUp \/ Healthy \/ Marked
           \/ CheckSessions \/ Pended \/ Accept \/ Release \/ DeleteOwner
           \/ Done \/ Refuse
  PROVE  TypeOK'
<1> USE Frames, ToolMoves DEF TypeOK
<1>1. CASE Renew \/ Rerenew \/ Healthy \/ Marked \/ CheckSessions \/ Accept
  BY <1>1 DEF Renew, Rerenew, Healthy, Marked, CheckSessions, Accept, Stages
<1>2. CASE Lock \/ Release \/ ComposeUp
  <2>1. ServiceType'
    BY <1>2 DEF Lock, Release, ComposeUp, ServiceType, service
  <2> QED
    BY <1>2, <2>1 DEF Lock, Release, ComposeUp, Stages
<1>3. CASE LoadOwner \/ RollbackOwner
  <2>1. ToolType'
    <3>1. ASSUME NEW o \in Owners \cup {NoOwner}, NEW pc \in Stages,
                 tool' = [tool EXCEPT !.token = o, !.pc = pc]
          PROVE  ToolType'
      BY <3>1 DEF ToolType
    <3>2. StoredOwner \in Owners \cup {NoOwner}
      BY DEF StoredOwner, FilesType
    <3>3. /\ AfterPrepare \in Stages /\ "store" \in Stages
          /\ "release" \in Stages
      BY DEF AfterPrepare, Stages
    <3> QED
      BY <1>3, <3>1, <3>2, <3>3 DEF LoadOwner, RollbackOwner
  <2> QED
    BY <1>3, <2>1 DEF LoadOwner, RollbackOwner
<1>4. CASE StoreOwner \/ DropOwner \/ DeleteOwner
  <2>1. FilesType'
    BY <1>4 DEF StoreOwner, DropOwner, DeleteOwner, FilesType, ToolType
  <2>2. ToolType'
    BY <1>4 DEF StoreOwner, DropOwner, DeleteOwner, ToolType, Stages
  <2> QED
    BY <1>4, <2>1, <2>2 DEF StoreOwner, DropOwner, DeleteOwner
<1>5. CASE Acquire
  <2>1. ServiceType'
    BY <1>5 DEF Acquire, ServiceType, ToolType
  <2>2. ToolType'
    BY <1>5 DEF Acquire, AfterPrepare, Stages
  <2> QED
    BY <1>5, <2>1, <2>2 DEF Acquire
<1>6. CASE Pended \/ Done \/ Refuse
  BY <1>6 DEF Pended, Done, Refuse, Stages
<1> QED
  BY <1>1, <1>2, <1>3, <1>4, <1>5, <1>6

LEMMA JournalTypes ==
  ASSUME TypeOK,
         NEW r \in Roles, MarkLogin(r) \/ MarkPending(r) \/ Complete(r)
  PROVE  TypeOK'
<1>1. FilesType'
  BY StepsAre, SetStepWrites
  DEF TypeOK, FilesType, MarkLogin, MarkPending, SetStep, Complete, WriteJournal
<1> QED
  BY <1>1, Frames DEF TypeOK, MarkLogin, MarkPending, Complete

LEMMA FaultTypes ==
  ASSUME TypeOK, Faulty
  PROVE  TypeOK'
<1> USE Frames, ToolMoves DEF TypeOK
<1>1. faults' \in 0..MaxFaults
  BY ConstantAssumption
  DEF Faulty, Fault, Crash, HostRefuses, AcquireUnanswered, ReleaseUnanswered,
      StillBusy, LeaseExpires, ApiStops, DeviceStops, DeleteAvd, ServiceType
<1>2. CASE Crash \/ HostRefuses \/ StillBusy
  BY <1>1, <1>2 DEF Crash, HostRefuses, StillBusy, ServiceType, service
<1>3. CASE AcquireUnanswered \/ ReleaseUnanswered
  <2>1. ServiceType'
    BY <1>1, <1>3 DEF AcquireUnanswered, ReleaseUnanswered, ServiceType,
                      ToolType
  <2> QED
    BY <1>3, <2>1 DEF AcquireUnanswered, ReleaseUnanswered
<1>4. CASE LeaseExpires \/ ApiStops
  <2>1. ServiceType'
    BY <1>1, <1>4 DEF LeaseExpires, ApiStops, ServiceType
  <2> QED
    BY <1>4, <2>1 DEF LeaseExpires, ApiStops
<1>5. ASSUME NEW r \in Roles, DeviceStops(r) \/ DeleteAvd(r) PROVE TypeOK'
  <2>1. DevicesType'
    BY <1>5 DEF DeviceStops, DeleteAvd, DevicesType
  <2>2. ServiceType'
    BY <1>1, <1>5 DEF DeviceStops, DeleteAvd, ServiceType, service
  <2> QED
    BY <1>5, <2>1, <2>2 DEF DeviceStops, DeleteAvd
<1> QED
  BY <1>2, <1>3, <1>4, <1>5 DEF Faulty

LEMMA WorldTypes ==
  ASSUME TypeOK, World
  PROVE  TypeOK'
<1> USE Frames DEF TypeOK
<1>1. CASE ApiStarts \/ TaskStarts \/ TaskEnds \/ Resume
  <2>1. ServiceType'
    BY <1>1 DEF ApiStarts, TaskStarts, TaskEnds, Resume, ServiceType
  <2> QED
    BY <1>1, <2>1 DEF ApiStarts, TaskStarts, TaskEnds, Resume
<1>2. ASSUME NEW r \in Roles, StartDevice(r) \/ Login(r) PROVE TypeOK'
  <2>1. DevicesType'
    BY <1>2 DEF StartDevice, Login, DevicesType
  <2> QED
    BY <1>2, <2>1 DEF StartDevice, Login
<1> QED
  BY <1>1, <1>2 DEF World

LEMMA StartTypes ==
  ASSUME TypeOK,
         NEW mode \in {"auto", "existing", "provision", "rollback"}, Start(mode)
  PROVE  TypeOK'
<1>1. ToolType'
  BY DEF Start, ToolType, Idle, Stages, ModeOf, MissingRoles
<1> QED
  BY <1>1, Frames DEF TypeOK, Start

(* The tool, its files, the devices and the service keep their types,       *)
(* whatever fails.                                                          *)
THEOREM DeploymentTyping == Spec => []TypeOK
<1>1. TypeOK /\ [Next]_vars => TypeOK'
  <2> SUFFICES ASSUME TypeOK, [Next]_vars PROVE TypeOK'
    OBVIOUS
  <2>1. CASE ToolStep
    BY <2>1, ProvisionTypes, LeaseTypes, JournalTypes DEF ToolStep
  <2>2. CASE Faulty
    BY <2>2, FaultTypes
  <2>3. CASE World
    BY <2>3, WorldTypes
  <2>4. CASE UNCHANGED vars
    BY <2>4, Frames DEF vars, TypeOK
  <2> QED
    BY <2>1, <2>2, <2>3, <2>4, StartTypes DEF Next
<1> QED
  BY <1>1, InitTypes, PTL DEF Spec

-----------------------------------------------------------------------------
(* Who knows the owner.  A token is written to disk before it goes to Redis *)
(* and erased after it has left it; a run that has taken no lease has no    *)
(* token; and no ordinary task starts while somebody holds the lease.       *)
OwnerInv ==
  /\ lease # NoOwner => ownerFile = lease /\ ~working
  /\ tool.pc \in {"store", "acquire", "drop", "unfile"} => lease = NoOwner
  /\ At("acquire") => ownerFile = tool.token
  /\ tool.pc \in {"checks", "image", "roles", "decide"} => tool.token = NoOwner
  /\ tool.pc \in {"launch", "verify"} /\ tool.mode # "existing" =>
       tool.token = NoOwner
  /\ At("compose") /\ tool.token # NoOwner => lease = tool.token

LEMMA OwnerInit == Init => OwnerInv
<1> SUFFICES ASSUME Init PROVE OwnerInv
  OBVIOUS
<1>1. lease = NoOwner /\ tool = Idle
  BY DEF Init
<1>2. tool.pc = "idle"
  BY <1>1 DEF Idle
<1> QED
  BY <1>1, <1>2 DEF OwnerInv, At

(* The new value of the tool, field by field.                               *)
LEMMA ToolFields ==
  ASSUME ToolType
  PROVE  /\ \A pc : Goto(pc) =>
              /\ tool'.pc = pc /\ tool'.mode = tool.mode
              /\ tool'.prov = tool.prov /\ tool'.token = tool.token
              /\ tool'.missing = tool.missing
         /\ End => /\ tool'.pc = "idle" /\ tool'.token = NoOwner
                   /\ tool'.mode = "none"
  BY DEF ToolType, Goto, End, Idle

LEMMA OwnerProvision ==
  ASSUME TypeOK, OwnerInv,
         ExistingChecks \/ ProvisionChecks \/ BuildImage \/ RolesReady
           \/ Launch \/ Verify \/ Decide
           \/ \E r \in Roles : CreateAvd(r) \/ Stamp(r) \/ Provision(r)
                               \/ JournalPhase(r)
  PROVE  OwnerInv'
<1> USE ToolFields DEF TypeOK, OwnerInv, At, service, files
<1>1. CASE ExistingChecks \/ BuildImage \/ RolesReady
  BY <1>1 DEF ExistingChecks, BuildImage, RolesReady
<1>2. CASE ProvisionChecks
  <2>1. tool'.pc = "image" /\ tool'.token = tool.token
    BY <1>2 DEF ProvisionChecks, ToolType
  <2> QED
    BY <1>2, <2>1 DEF ProvisionChecks
<1>3. CASE Launch \/ Verify \/ Decide
  BY <1>3 DEF Launch, Verify, Decide
<1>4. ASSUME NEW r \in Roles, CreateAvd(r) \/ Stamp(r) \/ Provision(r)
      PROVE  OwnerInv'
  BY <1>4 DEF CreateAvd, Stamp, Provision
<1>5. ASSUME NEW r \in Roles, JournalPhase(r) PROVE OwnerInv'
  BY <1>5 DEF JournalPhase, SetStep
<1> QED
  BY <1>1, <1>2, <1>3, <1>4, <1>5

LEMMA OwnerLease ==
  ASSUME TypeOK, OwnerInv,
         Lock \/ LoadOwner \/ RollbackOwner \/ StoreOwner \/ Acquire
           \/ DropOwner \/ Renew \/ Rerenew \/ ComposeUp \/ Healthy \/ Marked
           \/ CheckSessions \/ Pended \/ Accept \/ Release \/ DeleteOwner
           \/ Done \/ Refuse
  PROVE  OwnerInv'
<1> USE ToolFields DEF TypeOK, OwnerInv, At, service, files
<1>1. CASE Lock \/ Rerenew \/ Healthy \/ Marked \/ CheckSessions \/ Accept
  BY <1>1 DEF Lock, Rerenew, Healthy, Marked, CheckSessions, Accept
<1>2. CASE Renew
  BY <1>2 DEF Renew, Holds
(* An owner that holds the lease is on disk; so the token that has yet to   *)
(* be stored finds the lease free.                                          *)
<1>3. CASE LoadOwner
  <2>1. CASE StoredOwner # NoOwner /\ lease = StoredOwner
    <3>1. tool'.token = lease /\ tool'.pc = AfterPrepare /\ tool'.mode = tool.mode
      BY <1>3, <2>1 DEF LoadOwner, ToolType
    <3> QED
      BY <1>3, <2>1, <3>1 DEF LoadOwner, AfterPrepare
  <2>2. CASE ~(StoredOwner # NoOwner /\ lease = StoredOwner)
    <3>1. tool'.pc = "store"
      BY <1>3, <2>2 DEF LoadOwner, ToolType
    <3>2. lease = NoOwner
      BY <2>2 DEF StoredOwner
    <3> QED
      BY <1>3, <3>1, <3>2 DEF LoadOwner
  <2> QED
    BY <2>1, <2>2
<1>4. CASE RollbackOwner
  <2>1. tool'.pc = "release"
    BY <1>4 DEF RollbackOwner, ToolType
  <2> QED
    BY <1>4, <2>1 DEF RollbackOwner
<1>5. CASE StoreOwner \/ DropOwner
  BY <1>5 DEF StoreOwner, DropOwner
<1>6. CASE Acquire
  BY <1>6 DEF Acquire, Acquirable, RunnerIdle, AfterPrepare
<1>7. CASE ComposeUp
  BY <1>7 DEF ComposeUp
<1>8. CASE Release
  BY <1>8 DEF Release
<1>9. CASE DeleteOwner
  <2>1. tool'.pc = "complete"
    BY <1>9 DEF DeleteOwner, ToolType
  <2> QED
    BY <1>9, <2>1 DEF DeleteOwner
<1>10. CASE Pended \/ Done \/ Refuse
  BY <1>10 DEF Pended, Done, Refuse
<1> QED
  BY <1>1, <1>2, <1>3, <1>4, <1>5, <1>6, <1>7, <1>8, <1>9, <1>10

LEMMA OwnerOthers ==
  ASSUME TypeOK, OwnerInv,
         \/ \E r \in Roles : MarkLogin(r) \/ MarkPending(r) \/ Complete(r)
         \/ Faulty \/ World
         \/ \E mode \in {"auto", "existing", "provision", "rollback"} :
              Start(mode)
  PROVE  OwnerInv'
<1> USE ToolFields DEF TypeOK, OwnerInv, At, service, files
<1>1. ASSUME NEW r \in Roles, MarkLogin(r) \/ MarkPending(r) \/ Complete(r)
      PROVE  OwnerInv'
  BY <1>1 DEF MarkLogin, MarkPending, Complete, SetStep
<1>2. CASE Crash \/ HostRefuses \/ StillBusy
  BY <1>2 DEF Crash, HostRefuses, StillBusy
<1>3. CASE AcquireUnanswered
  BY <1>3 DEF AcquireUnanswered, Acquirable, RunnerIdle
<1>4. CASE ReleaseUnanswered \/ LeaseExpires \/ ApiStops
  BY <1>4 DEF ReleaseUnanswered, LeaseExpires, ApiStops
<1>5. ASSUME NEW r \in Roles,
             DeviceStops(r) \/ DeleteAvd(r) \/ StartDevice(r) \/ Login(r)
      PROVE  OwnerInv'
  BY <1>5 DEF DeviceStops, DeleteAvd, StartDevice, Login
<1>6. CASE ApiStarts \/ TaskStarts \/ TaskEnds \/ Resume
  BY <1>6 DEF ApiStarts, TaskStarts, TaskEnds, Resume
<1>7. ASSUME NEW mode \in {"auto", "existing", "provision", "rollback"},
             Start(mode)
      PROVE  OwnerInv'
  <2>1. tool'.pc \in {"lock", "checks"} /\ tool'.token = NoOwner
    BY <1>7 DEF Start, Idle
  <2> QED
    BY <1>7, <2>1 DEF Start
<1> QED
  BY <1>1, <1>2, <1>3, <1>4, <1>5, <1>6, <1>7 DEF Faulty, World

LEMMA OwnerStep ==
  ASSUME TypeOK, OwnerInv, [Next]_vars
  PROVE  OwnerInv'
<1>1. CASE ToolStep
  BY <1>1, OwnerProvision, OwnerLease, OwnerOthers DEF ToolStep
<1>2. CASE UNCHANGED vars
  BY <1>2 DEF vars, files, devices, service, OwnerInv, At
<1> QED
  BY <1>1, <1>2, OwnerOthers DEF Next

(* Whatever dies, fails or stays unanswered, and however often the tool is  *)
(* run again: the owner of a live lease is on disk, where the next run and  *)
(* a rollback find it.                                                      *)
THEOREM OwnerIsKept == Spec => []OwnerKept
<1>1. OwnerInv => OwnerKept
  BY DEF OwnerInv, OwnerKept
<1> QED
  BY <1>1, OwnerInit, OwnerStep, DeploymentTyping, PTL DEF Spec

(* A run that has taken the lease replaces the API only while no ordinary   *)
(* task is being worked on: the lease was taken when none ran, none starts  *)
(* under it, and it is renewed just before the replacement.                 *)
THEOREM NothingIsInterrupted == Spec => NothingInterrupted
<1>1. OwnerInv =>
        [At("compose") /\ ~At("compose")' /\ tool.token # NoOwner => ~working]_vars
  BY DEF OwnerInv
<1> QED
  BY <1>1, OwnerInit, OwnerStep, DeploymentTyping, PTL DEF Spec, NothingInterrupted

-----------------------------------------------------------------------------
(* Where a stored session comes from.  A session that was refreshed after   *)
(* the creation time in the journal was read from this device, because a    *)
(* device in the journal is not replaced; the last two steps of the chain   *)
(* are written by a run that has just seen such a session.  No run starts a *)
(* device that does not exist.                                              *)
RoleInv ==
  /\ RolesSound
  /\ tool.mode = "existing" =>
       /\ \A r \in Roles : avd[r] = "none" => r \in tool.missing
       /\ tool.missing = {} \/ At("checks")
       /\ ~At("idle")
  /\ \A r \in Roles :
       /\ journal[r] \notin {"none", "PENDING_CREATE"} => avd[r] # "none"
       /\ stamped[r] /\ bundle[r] = "after" /\ journal[r] # "none" => own[r]
       /\ journal[r] = "ACCEPTANCE_PENDING" => own[r]
  /\ At("pending") => \A r \in tool.prov : stamped[r] /\ bundle[r] = "after"

(* RoleSound without the positions of the chain.                            *)
LEMMA RoleSoundMeans ==
  ASSUME NEW r
  PROVE  RoleSound(r) <=>
           (avd[r] # "none" =>
              /\ journal[r] = "none" => app[r] = "frida" /\ own[r]
              /\ journal[r] = "APK_VERIFIED" => app[r] # "none"
              /\ journal[r] \in {"FRIDA_READY", "LOGIN_REQUIRED",
                                 "ACCEPTANCE_PENDING"} => app[r] = "frida")
  BY ChainIs DEF RoleSound

LEMMA RoleSoundPrime ==
  ASSUME NEW r
  PROVE  RoleSound(r)' <=>
           (avd'[r] # "none" =>
              /\ journal'[r] = "none" => app'[r] = "frida" /\ own'[r]
              /\ journal'[r] = "APK_VERIFIED" => app'[r] # "none"
              /\ journal'[r] \in {"FRIDA_READY", "LOGIN_REQUIRED",
                                  "ACCEPTANCE_PENDING"} => app'[r] = "frida")
  BY ChainIs DEF RoleSound

LEMMA RoleInit == Init => RoleInv
<1> SUFFICES ASSUME Init PROVE RoleInv
  OBVIOUS
<1>1. ASSUME NEW r \in Roles PROVE RoleSound(r)
  <2>1. /\ journal[r] \in {"none", "PENDING_CREATE", "AVD_CREATED"}
        /\ journal[r] = "none" /\ avd[r] # "none" => bundle[r] # "none"
    BY DEF Init
  <2>2. /\ avd[r] # "none" /\ journal[r] = "none" => app[r] = "frida"
        /\ own[r] <=> /\ avd[r] # "none" /\ journal[r] = "none"
                      /\ bundle[r] # "none"
    BY DEF Init
  <2> QED
    BY <2>1, <2>2, RoleSoundMeans
<1>2. ASSUME NEW r \in Roles
      PROVE  ~stamped[r] /\ journal[r] # "ACCEPTANCE_PENDING"
  BY DEF Init
<1>3. ~At("pending") /\ tool.mode # "existing"
  BY DEF Init, Idle, At
<1>4. ASSUME NEW r \in Roles
      PROVE  journal[r] \notin {"none", "PENDING_CREATE"} => avd[r] # "none"
  BY DEF Init
<1> QED
  BY <1>1, <1>2, <1>3, <1>4 DEF RoleInv, RolesSound

(* A step that touches no journal entry and no device, and does not enter   *)
(* the stage "pending".                                                     *)
LEMMA RoleFrame ==
  ASSUME RoleInv, UNCHANGED <<journal, stamped, avd, app, bundle, own>>,
         ~At("pending")' \/ UNCHANGED tool,
         tool'.mode = "existing" =>
           /\ tool.mode = "existing" /\ tool'.missing = tool.missing
           /\ tool.missing = {} \/ ~At("checks") \/ UNCHANGED tool
           /\ ~At("idle")' \/ UNCHANGED tool
  PROVE  RoleInv'
  BY RoleSoundMeans, RoleSoundPrime DEF RoleInv, RolesSound, At

(* The journal writes of set_step.                                          *)
LEMMA RoleSetStep ==
  ASSUME TypeOK, RoleInv, NEW r \in Roles, NEW s, SetStep(r, s),
         UNCHANGED <<tool, devices>>,
         s # "AVD_CREATED",
         s = "APK_VERIFIED" => app[r] # "none",
         s = "FRIDA_READY" => app[r] = "frida",
         s = "ACCEPTANCE_PENDING" => At("pending") /\ r \in tool.prov
  PROVE  RoleInv'
<1> USE RoleSoundMeans, RoleSoundPrime
    DEF TypeOK, FilesType, DevicesType, RoleInv, RolesSound, At, devices
<1>1. /\ journal' = [journal EXCEPT ![r] = s] /\ stamped' = stamped
      /\ s \in Steps
      /\ s = "LOGIN_REQUIRED" => journal[r] = "FRIDA_READY"
      /\ s = "ACCEPTANCE_PENDING" => journal[r] = "LOGIN_REQUIRED"
      /\ journal[r] \notin {"none", "PENDING_CREATE"}
      /\ s \notin {"none", "PENDING_CREATE"}
  BY SetStepWrites, StepsAre
<1>2. ASSUME NEW q \in Roles PROVE RoleSound(q)'
  <2>1. CASE q # r
    BY <1>1, <2>1
  <2>2. CASE q = r
    BY <1>1, <2>2
  <2> QED
    BY <2>1, <2>2
<1>3. s = "ACCEPTANCE_PENDING" => own[r]
  BY <1>1
<1>4. ASSUME NEW q \in Roles
      PROVE  /\ stamped'[q] /\ bundle'[q] = "after" /\ journal'[q] # "none"
                  => own'[q]
             /\ journal'[q] = "ACCEPTANCE_PENDING" => own'[q]
  BY <1>1, <1>3
<1>5. ASSUME NEW q \in Roles, journal'[q] \notin {"none", "PENDING_CREATE"}
      PROVE  avd'[q] # "none"
  BY <1>1, <1>5
<1>6. At("pending")' => \A q \in tool'.prov : stamped'[q] /\ bundle'[q] = "after"
  BY <1>1
<1> QED
  BY <1>2, <1>4, <1>5, <1>6

LEMMA RoleProvision ==
  ASSUME TypeOK, RoleInv, NEW r \in Roles,
         CreateAvd(r) \/ Stamp(r) \/ Provision(r) \/ JournalPhase(r)
  PROVE  RoleInv'
<1> USE TurnMeans, RoleSoundMeans, RoleSoundPrime
    DEF TypeOK, FilesType, DevicesType, RoleInv, RolesSound, At, files
<1>1. CASE CreateAvd(r)
  BY <1>1 DEF CreateAvd
<1>2. CASE Stamp(r)
  <2>1. /\ journal' = [journal EXCEPT ![r] = "AVD_CREATED"]
        /\ stamped' = [stamped EXCEPT ![r] = TRUE]
        /\ bundle'[r] # "after"
        /\ \A q \in Roles \ {r} : bundle'[q] = bundle[q]
        /\ UNCHANGED <<tool, avd, app, own>>
    BY <1>2 DEF Stamp, WriteJournal
  <2> QED
    BY <1>2, <2>1 DEF Stamp
<1>3. CASE Provision(r)
  <2>1. /\ avd' = [avd EXCEPT ![r] = "on"] /\ avd[r] # "none"
        /\ \A q \in Roles \ {r} : app'[q] = app[q]
        /\ \/ app'[r] = app[r] \/ app'[r] = "frida"
           \/ app'[r] = "apk" /\ journal[r] = "AVD_CREATED"
        /\ UNCHANGED <<tool, journal, stamped, bundle, own>>
    BY <1>3 DEF Provision, Boot
  <2> QED
    BY <1>3, <2>1 DEF Provision
<1>4. CASE JournalPhase(r)
  <2>1. CASE journal[r] = "AVD_CREATED"
    BY <1>4, <2>1, RoleSetStep DEF JournalPhase, Provisioned
  <2>2. CASE journal[r] # "AVD_CREATED"
    BY <1>4, <2>2, RoleSetStep DEF JournalPhase, Provisioned
  <2> QED
    BY <2>1, <2>2
<1> QED
  BY <1>1, <1>2, <1>3, <1>4

(* The stages of the tool that change no journal entry and no device.       *)
LEMMA RoleTool ==
  ASSUME TypeOK, RoleInv,
         \/ ExistingChecks \/ BuildImage \/ RolesReady \/ Verify \/ Decide
         \/ Lock \/ Renew \/ Rerenew \/ ComposeUp \/ Healthy \/ Marked
         \/ Accept \/ Release \/ StoreOwner \/ Acquire \/ DropOwner \/ Pended
         \/ Done \/ Refuse \/ LoadOwner \/ RollbackOwner \/ DeleteOwner
  PROVE  RoleInv'
<1> USE ToolFields DEF TypeOK, files, devices, At
<1>1. UNCHANGED <<journal, stamped, avd, app, bundle, own>>
  BY DEF ExistingChecks, BuildImage, RolesReady, Verify, Decide, Lock, Renew,
         Rerenew, ComposeUp, Healthy, Marked, Accept, Release, StoreOwner,
         Acquire, DropOwner, Pended, Done, Refuse, LoadOwner, RollbackOwner,
         DeleteOwner
<1>2. CASE \/ ExistingChecks \/ BuildImage \/ RolesReady \/ Verify \/ Decide
           \/ Lock \/ Renew \/ Rerenew \/ ComposeUp \/ Healthy \/ Marked
           \/ Accept \/ Release \/ StoreOwner \/ Acquire
  <2>1. /\ ~At("pending")' /\ ~At("idle")'
        /\ tool'.mode = tool.mode /\ tool'.missing = tool.missing
        /\ tool.missing = {} \/ ~At("checks")
    BY <1>2
    DEF ExistingChecks, BuildImage, RolesReady, Verify, Decide, Lock, Renew,
        Rerenew, ComposeUp, Healthy, Marked, Accept, Release, StoreOwner,
        Acquire, AfterPrepare
  <2> QED
    BY <1>1, <2>1, RoleFrame
<1>3. CASE Pended
  <2>1. ~At("pending")' /\ ~At("checks")
    BY <1>3 DEF Pended
  <2>2. tool'.mode = "existing" =>
          /\ tool.mode = "existing" /\ tool'.missing = tool.missing
          /\ ~At("idle")'
    BY <1>3 DEF Pended
  <2> QED
    BY <1>1, <2>1, <2>2, RoleFrame
<1>4. CASE DropOwner \/ Done \/ Refuse
  <2>1. ~At("pending")' /\ tool'.mode # "existing"
    BY <1>4 DEF DropOwner, Done, Refuse
  <2> QED
    BY <1>1, <2>1, RoleFrame
<1>5. CASE LoadOwner \/ RollbackOwner \/ DeleteOwner
  <2>1. /\ ~At("pending")' /\ ~At("checks") /\ ~At("idle")'
        /\ tool'.mode = tool.mode /\ tool'.missing = tool.missing
    BY <1>5 DEF LoadOwner, RollbackOwner, DeleteOwner, AfterPrepare, ToolType
  <2> QED
    BY <1>1, <2>1, RoleFrame
<1> QED
  BY <1>2, <1>3, <1>4, <1>5

(* The writes of ProvisionChecks and Launch, role by role.                  *)
LEMMA ChecksWrite ==
  ASSUME TypeOK, ProvisionChecks, NEW r \in Roles
  PROVE  \/ journal'[r] = journal[r] /\ stamped'[r] = stamped[r]
         \/ journal'[r] = "PENDING_CREATE" /\ ~stamped'[r]
<1>1. CASE tool.missing \ Journaled = {}
  BY <1>1 DEF ProvisionChecks
<1>2. CASE tool.missing \ Journaled # {}
  <2> DEFINE new == tool.missing \ Journaled
  <2>1. /\ journal' = [q \in Roles |-> IF q \in new THEN "PENDING_CREATE"
                                       ELSE journal[q]]
        /\ stamped' = [q \in Roles |-> q \notin new /\ stamped[q]]
    BY <1>2 DEF ProvisionChecks, WriteJournal
  <2> HIDE DEF new
  <2>2. stamped'[r] = (r \notin new /\ stamped[r])
    BY <2>1, Zenon
  <2>3. journal'[r] = IF r \in new THEN "PENDING_CREATE" ELSE journal[r]
    BY <2>1
  <2>4. CASE r \in new
    BY <2>2, <2>3, <2>4
  <2>5. stamped[r] \in BOOLEAN
    BY DEF TypeOK, FilesType
  <2>6. r \notin new => stamped'[r] = stamped[r]
    BY <2>2, <2>5, Zenon
  <2> QED
    BY <2>3, <2>4, <2>6
<1> QED
  BY <1>1, <1>2

LEMMA LaunchStarts ==
  ASSUME Launch, NEW r \in Roles
  PROVE  \/ avd'[r] = avd[r]
         \/ avd'[r] = "on" /\ (tool.mode = "existing" \/ journal[r] = "FRIDA_READY")
  BY DEF Launch, StartDevices

LEMMA RoleChanges ==
  ASSUME TypeOK, RoleInv, ProvisionChecks \/ Launch \/ CheckSessions
  PROVE  RoleInv'
<1> USE ToolFields, RoleSoundMeans, RoleSoundPrime
    DEF TypeOK, RoleInv, RolesSound, At, files, devices
<1>1. CASE ProvisionChecks
  <2>1. /\ tool'.mode = "provision" /\ tool'.pc = "image"
        /\ UNCHANGED <<avd, app, bundle, own>>
    BY <1>1 DEF ProvisionChecks, ToolType
  <2>2. ASSUME NEW r \in Roles
        PROVE  \/ journal'[r] = journal[r] /\ stamped'[r] = stamped[r]
               \/ journal'[r] = "PENDING_CREATE" /\ ~stamped'[r]
    BY <1>1, ChecksWrite
  <2>3. RolesSound'
    BY <2>1, <2>2
  <2> QED
    BY <2>1, <2>2, <2>3
<1>2. CASE Launch
  <2>1. /\ tool'.pc = "verify" /\ tool'.mode = tool.mode
        /\ tool'.missing = tool.missing
        /\ UNCHANGED <<journal, stamped, app, bundle, own>>
    BY <1>2 DEF Launch
  <2>2. ASSUME NEW r \in Roles
        PROVE  avd'[r] = avd[r] \/ (avd'[r] = "on" /\ avd[r] # "none")
    <3>1. CASE avd'[r] = avd[r]
      BY <3>1
    <3>2. CASE avd'[r] = "on" /\ tool.mode = "existing"
      <4>1. tool.pc = "launch"
        BY <1>2 DEF Launch
      <4>2. tool.missing = {} /\ (avd[r] = "none" => r \in tool.missing)
        BY <3>2, <4>1 DEF RoleInv
      <4> QED
        BY <3>2, <4>2
    <3>3. CASE avd'[r] = "on" /\ journal[r] = "FRIDA_READY"
      BY <3>3
    <3> QED
      BY <1>2, <3>1, <3>2, <3>3, LaunchStarts
  <2>3. RolesSound'
    BY <2>1, <2>2
  <2>4. tool.mode = "existing" => tool.missing = {}
    BY <1>2 DEF Launch
  <2> QED
    BY <2>1, <2>2, <2>3, <2>4
<1>3. CASE CheckSessions
  <2>1. /\ UNCHANGED <<journal, stamped, avd, app, bundle, own>>
        /\ tool'.prov = tool.prov /\ tool'.mode = tool.mode
        /\ tool'.missing = tool.missing /\ ~At("checks")
        /\ ~At("idle")'
    BY <1>3 DEF CheckSessions
  <2>2. \A r \in tool.prov : stamped[r] /\ bundle[r] = "after"
    BY <1>3 DEF CheckSessions, SessionsReady
  <2> QED
    BY <2>1, <2>2
<1> QED
  BY <1>1, <1>2, <1>3

LEMMA RoleMarks ==
  ASSUME TypeOK, RoleInv, NEW r \in Roles,
         MarkLogin(r) \/ MarkPending(r) \/ Complete(r)
  PROVE  RoleInv'
<1>1. CASE MarkLogin(r)
  BY <1>1, RoleSetStep DEF MarkLogin
<1>2. CASE MarkPending(r)
  BY <1>2, RoleSetStep DEF MarkPending
<1>3. CASE Complete(r)
  <2>1. /\ journal' = [journal EXCEPT ![r] = "none"]
        /\ stamped' = [stamped EXCEPT ![r] = FALSE]
        /\ UNCHANGED <<tool, avd, app, bundle, own>>
        /\ journal[r] = "ACCEPTANCE_PENDING" /\ ~At("pending")
    BY <1>3 DEF Complete, WriteJournal, devices, At
  <2> USE RoleSoundMeans, RoleSoundPrime
      DEF TypeOK, FilesType, RoleInv, RolesSound, At
  <2>2. RolesSound'
    BY <2>1
  <2> QED
    BY <2>1, <2>2
<1> QED
  BY <1>1, <1>2, <1>3

LEMMA RoleOthers ==
  ASSUME TypeOK, RoleInv,
         \/ Faulty \/ World
         \/ \E mode \in {"auto", "existing", "provision", "rollback"} :
              Start(mode)
  PROVE  RoleInv'
<1> USE ToolFields DEF TypeOK, files, devices, At
<1>1. CASE \/ Crash \/ HostRefuses \/ StillBusy \/ AcquireUnanswered
           \/ ReleaseUnanswered
  BY <1>1, RoleFrame
  DEF Crash, HostRefuses, StillBusy, AcquireUnanswered, ReleaseUnanswered
<1>2. CASE \/ LeaseExpires \/ ApiStops \/ ApiStarts \/ TaskStarts \/ TaskEnds
           \/ Resume
  BY <1>2, RoleFrame
  DEF LeaseExpires, ApiStops, ApiStarts, TaskStarts, TaskEnds, Resume
<1>3. ASSUME NEW r \in Roles, DeviceStops(r) \/ StartDevice(r) PROVE RoleInv'
  <2>1. /\ UNCHANGED <<tool, journal, stamped, app, bundle, own>>
        /\ \A q \in Roles : avd'[q] = "none" <=> avd[q] = "none"
    BY <1>3 DEF DeviceStops, StartDevice, DevicesType
  <2> QED
    BY <2>1, RoleSoundMeans, RoleSoundPrime DEF RoleInv, RolesSound
<1>4. ASSUME NEW r \in Roles, Login(r) PROVE RoleInv'
  <2>1. /\ UNCHANGED <<tool, journal, stamped, avd, app>>
        /\ bundle' = [bundle EXCEPT ![r] = "after"]
        /\ own' = [own EXCEPT ![r] = TRUE]
    BY <1>4 DEF Login
  <2> QED
    BY <2>1, RoleSoundMeans, RoleSoundPrime DEF RoleInv, RolesSound, DevicesType
<1>5. ASSUME NEW r \in Roles, DeleteAvd(r) PROVE RoleInv'
  <2>1. /\ UNCHANGED <<tool, journal, stamped, bundle>> /\ At("idle")
        /\ journal[r] = "none"
        /\ avd' = [avd EXCEPT ![r] = "none"]
        /\ app' = [app EXCEPT ![r] = "none"]
        /\ own' = [own EXCEPT ![r] = FALSE]
    BY <1>5 DEF DeleteAvd
  <2> QED
    BY <2>1, RoleSoundMeans, RoleSoundPrime DEF RoleInv, RolesSound, DevicesType
<1>6. ASSUME NEW mode \in {"auto", "existing", "provision", "rollback"},
             Start(mode)
      PROVE  RoleInv'
  <2>1. /\ UNCHANGED <<journal, stamped, avd, app, bundle, own>>
        /\ tool'.pc \in {"lock", "checks"}
        /\ tool'.missing = MissingRoles /\ tool'.mode = ModeOf(mode)
        /\ mode = "rollback" <=> tool'.pc = "lock"
    BY <1>6 DEF Start, Idle
  <2>2. tool'.mode = "existing" => tool'.pc = "checks"
    BY <2>1 DEF ModeOf
  <2> QED
    BY <2>1, <2>2, RoleSoundMeans, RoleSoundPrime
    DEF RoleInv, RolesSound, MissingRoles
<1> QED
  BY <1>1, <1>2, <1>3, <1>4, <1>5, <1>6 DEF Faulty, World

(* The journal claims no more than was done, and a device without an entry  *)
(* is completely provisioned, with a session of its own: for every journal  *)
(* of an earlier release, every crash, and devices deleted between runs.    *)
THEOREM RolesAreSound == Spec => []RolesSound
<1>1. TypeOK /\ RoleInv /\ [Next]_vars => RoleInv'
  <2> SUFFICES ASSUME TypeOK, RoleInv, [Next]_vars PROVE RoleInv'
    OBVIOUS
  <2>1. CASE ToolStep
    BY <2>1, RoleTool, RoleProvision, RoleChanges, RoleMarks DEF ToolStep
  <2>2. CASE UNCHANGED vars
    BY <2>2, RoleFrame DEF vars, files, devices, At
  <2> QED
    BY <2>1, <2>2, RoleOthers DEF Next
<1>2. RoleInv => RolesSound
  BY DEF RoleInv
<1> QED
  BY <1>1, <1>2, RoleInit, DeploymentTyping, PTL DEF Spec
=============================================================================
