-------------------------- MODULE DeviceControlProofs --------------------------
(***************************************************************************)
(* Proofs about DeviceControl, for any number of sessions, devices,        *)
(* operations and polling requests and for every choice of faults.         *)
(*                                                                         *)
(* Ownership is the inductive invariant.  The part that holds always says  *)
(* that the maintenance gate keeps what it has checked; the part under     *)
(* Undisturbed ties the broker's view (busy, latest, opState) to the API's *)
(* (opLease, the action in progress, the reports on their way).            *)
(***************************************************************************)
EXTENDS DeviceControl, TLAPS

LEMMA StatesAre ==
  /\ States = {"STARTING", "RUNNING", "STOPPED", "UNKNOWN", "STOPPING", "ERROR"}
  /\ OpStates = {"STARTING", "STOPPING", "RUNNING", "STOPPED", "ERROR",
                 "LAUNCH_FAILED"}
  BY DEF States, OpStates, Detected, InFlight, Settled, Failed

LEMMA EmptyRecords ==
  /\ NoAction \in ActionState
  /\ NoTask \in RunnerState
  /\ NoPoll \in PollState
  BY StatesAre DEF NoAction, NoTask, NoPoll, ActionState, RunnerState, PollState,
       InFlight

(* A fault that happens is one of Faults.                                   *)
LEMMA HappensType ==
  ASSUME NEW fault, Happens(fault), happened \subseteq Faults
  PROVE  happened' \subseteq Faults
  BY DEF Happens

(* A request that lists the devices is about one of them.                   *)
Types ==
  /\ TypeOK
  /\ \A p \in Pollers : poll[p].pc # "idle" => poll[p].role \in Roles

LEMMA InitTypes == Init => Types
<1> SUFFICES ASSUME Init PROVE Types
  OBVIOUS
<1>1. /\ action \in ActionState
      /\ runner \in RunnerState
      /\ poll \in [Pollers -> PollState]
  BY EmptyRecords DEF Init
<1>2. /\ saved \in [Roles -> States]
      /\ opState \in [Ops -> OpStates]
      /\ device \in [Roles -> {"STOPPED", "STARTING", "RUNNING"}]
  BY StatesAre DEF Init
<1>3. \A p \in Pollers : poll[p].pc = "idle"
  BY DEF Init, NoPoll
<1> QED
  BY <1>1, <1>2, <1>3 DEF Init, Types, TypeOK

LEMMA AdminTypes ==
  ASSUME Types, AdminNext PROVE Types'
<1> USE ConstantAssumption DEF Types, TypeOK
<1>1. ASSUME NEW s \in Sessions,
             Lock(s) \/ Release(s) \/ DisconnectSession(s)
      PROVE  Types'
  BY <1>1 DEF Lock, Release, DisconnectSession, broker
<1>2. ASSUME NEW s \in Sessions, RegisterSocket(s) \/ UnregisterSocket(s)
      PROVE  Types'
  <2>1. sockets' \in [Sessions -> Nat]
    BY <1>2 DEF RegisterSocket, UnregisterSocket
  <2> QED
    BY <1>2, <2>1 DEF RegisterSocket, UnregisterSocket, broker
<1>3. ASSUME NEW s \in Sessions, NEW r \in Roles, NEW kind \in InFlight,
             BeginAction(s, r, kind)
      PROVE  Types'
  <2>1. action' \in ActionState
    BY <1>3 DEF BeginAction, ActionState
  <2> QED
    BY <1>3, <2>1 DEF BeginAction, control, broker
<1>4. CASE PauseQueue \/ ResumeQueue
  BY <1>4 DEF PauseQueue, ResumeQueue, broker
<1>5. ASSUME NEW o \in Ops, SubmitOp(o) PROVE Types'
  <2>1. happened' \subseteq Faults
    BY <1>5, HappensType DEF SubmitOp
  <2>2. action.kind \in OpStates /\ action.kind \in States
    BY DEF ActionState, OpStates, States
  <2>3. action' \in ActionState
    BY <1>5 DEF SubmitOp, ActionState
  <2> QED
    BY <1>5, <2>1, <2>2, <2>3 DEF SubmitOp, control
<1>6. CASE SubmitFails
  BY <1>6, EmptyRecords DEF SubmitFails, control, broker
<1>7. CASE ActionReply
  <2>1. action.op \in Ops \cup {NoOp}
    BY DEF ActionState
  <2>2. /\ opLease' \in [Roles -> Ops \cup {NoOp}]
        /\ paused' \in BOOLEAN
    BY <1>7, <2>1 DEF ActionReply
  <2> QED
    BY <1>7, <2>2, EmptyRecords DEF ActionReply, broker
<1>8. CASE ActionReplyLost
  <2>1. happened' \subseteq Faults
    BY <1>8, HappensType DEF ActionReplyLost
  <2> QED
    BY <1>8, <2>1, EmptyRecords DEF ActionReplyLost, control, broker
<1> QED
  BY <1>1, <1>2, <1>3, <1>4, <1>5, <1>6, <1>7, <1>8 DEF AdminNext

LEMMA RunnerTypes ==
  ASSUME Types, RunnerNext PROVE Types'
<1> USE ConstantAssumption DEF Types, TypeOK
<1>1. ASSUME NEW closed \in BOOLEAN, NEW bound \in BOOLEAN,
             Claim(closed, bound)
      PROVE  Types'
  <2>1. runner' \in RunnerState
    BY <1>1 DEF Claim, RunnerState
  <2> QED
    BY <1>1, <2>1 DEF Claim, control, broker
<1>2. CASE Branch \/ NeedsAdmin
  <2>1. runner' \in RunnerState
    BY <1>2 DEF Branch, NeedsAdmin, RunnerState
  <2> QED
    BY <1>2, <2>1 DEF Branch, NeedsAdmin, control, broker
<1>3. CASE PauseForAdmin
  BY <1>3, EmptyRecords DEF PauseForAdmin, control, broker
<1>4. CASE FinishTask
  <2>1. happened' \subseteq Faults /\ tasks' \subseteq {"held", "left"}
    BY <1>4, HappensType DEF FinishTask
  <2> QED
    BY <1>4, <2>1, EmptyRecords DEF FinishTask, control, broker
<1>5. CASE HideTask \/ \E closed, bound \in BOOLEAN : ClaimLost(closed, bound)
  <2>1. happened' \subseteq Faults /\ tasks' \subseteq {"held", "left"}
    BY <1>5, HappensType DEF HideTask, ClaimLost
  <2> QED
    BY <1>5, <2>1 DEF HideTask, ClaimLost, control, broker
<1> QED
  BY <1>1, <1>2, <1>3, <1>4, <1>5 DEF RunnerNext

(* Every report is a report, whatever step its request takes next.          *)
LEMMA ReportType ==
  ASSUME NEW q \in PollState
  PROVE  /\ Unheard(q) \in PollState
         /\ \A st \in States : Answer(q, st) \in PollState
  BY EmptyRecords DEF Unheard, Answer, PollState

LEMMA BrokerTypes ==
  ASSUME Types, BrokerNext PROVE Types'
<1> USE ConstantAssumption DEF Types, TypeOK
<1>1. ASSUME NEW r \in Roles, PowerOn(r) \/ Booted(r) \/ PowerOff(r)
      PROVE  Types'
  BY <1>1 DEF PowerOn, Booted, PowerOff, control, broker
<1>2. ASSUME NEW r \in Roles, Finish(r) PROVE Types'
  <2>1. PICK st \in Outcomes(r) :
          /\ opState' = [opState EXCEPT ![latest[r]] = st]
          /\ saved' = [saved EXCEPT ![r] = Reported(st)]
    BY <1>2 DEF Finish
  <2>2. st \in OpStates /\ Reported(st) \in States
    BY StatesAre DEF Outcomes, Reported
  <2> QED
    BY <1>2, <2>1, <2>2 DEF Finish, control
<1>3. ASSUME NEW p \in Pollers, NEW r \in Roles, PollRead(p, r)
      PROVE  Types'
  <2> DEFINE q == [pc   |-> IF busy[r] THEN "reply" ELSE "detect",
                   role |-> r, was |-> saved[r], op |-> latest[r],
                   st   |-> saved[r], heard |-> TRUE]
  <2>1. q \in PollState
    BY DEF PollState
  <2>2. poll' = [poll EXCEPT ![p] = q]
    BY <1>3 DEF PollRead
  <2>3. q.role \in Roles
    OBVIOUS
  <2> HIDE DEF q
  <2>4. /\ poll' \in [Pollers -> PollState]
        /\ \A u \in Pollers : poll'[u].pc # "idle" => poll'[u].role \in Roles
    BY <2>1, <2>2, <2>3
  <2> QED
    BY <1>3, <2>4 DEF PollRead, control, broker
<1>4. ASSUME NEW p \in Pollers, PollDetect(p) PROVE Types'
  <2>1. PICK st \in {device[poll[p].role]}
                    \cup (IF UnknownDetect THEN {"UNKNOWN"} ELSE {}) :
          poll' = [poll EXCEPT ![p] = [@ EXCEPT !.pc = "write", !.st = st]]
    BY <1>4 DEF PollDetect
  <2>2. poll[p] \in PollState /\ poll[p].role \in Roles
    BY <1>4 DEF PollDetect
  <2>3. st \in States
    BY <2>1, <2>2, StatesAre
  <2> DEFINE q == [poll[p] EXCEPT !.pc = "write", !.st = st]
  <2>4. q \in PollState /\ q.role = poll[p].role
    BY <2>2, <2>3 DEF PollState
  <2>5. poll' = [poll EXCEPT ![p] = q]
    BY <2>1
  <2> HIDE DEF q
  <2> QED
    BY <1>4, <2>2, <2>4, <2>5 DEF PollDetect, control, broker
<1>5. ASSUME NEW p \in Pollers, PollWrite(p) PROVE Types'
  <2>1. poll[p] \in PollState /\ poll[p].role \in Roles
    BY <1>5 DEF PollWrite
  <2>2. poll[p].st \in States /\ "RUNNING" \in OpStates
        /\ {"RUNNING", "ERROR"} \subseteq States
    BY <2>1, StatesAre DEF PollState
  <2>3. PICK st \in States : poll' = [poll EXCEPT ![p] = Answer(@, st)]
    BY <1>5, <2>2 DEF PollWrite
  <2> DEFINE q == Answer(poll[p], st)
  <2>4. q \in PollState
    BY <2>1, <2>3, ReportType
  <2>5. q.pc # "idle" => q.role \in Roles
    BY <2>1 DEF Answer, NoPoll, PollState
  <2>6. poll' = [poll EXCEPT ![p] = q]
    BY <2>3
  <2>7. saved' \in [Roles -> States]
    BY <1>5, <2>2 DEF PollWrite
  <2>8. opState' \in [Ops -> OpStates]
    BY <1>5, <2>2 DEF PollWrite
  <2> HIDE DEF q
  <2> QED
    BY <1>5, <2>4, <2>5, <2>6, <2>7, <2>8 DEF PollWrite, control
<1>6. ASSUME NEW p \in Pollers, PollReply(p) PROVE Types'
  <2>1. poll[p].op \in Ops \cup {NoOp}
    BY DEF PollState
  <2>2. opLease' \in [Roles -> Ops \cup {NoOp}] /\ paused' \in BOOLEAN
    BY <1>6, <2>1 DEF PollReply, Reconcile, Reconciled
  <2>3. NoPoll.pc = "idle"
    BY DEF NoPoll
  <2> QED
    BY <1>6, <2>2, <2>3, EmptyRecords DEF PollReply, broker
<1>7. ASSUME NEW p \in Pollers, PollLost(p) PROVE Types'
  <2>1. Unheard(poll[p]) \in PollState
    BY ReportType
  <2>2. Unheard(poll[p]).pc # "idle" => Unheard(poll[p]).role \in Roles
    BY <1>7 DEF PollLost, Unheard, NoPoll, PollState
  <2> QED
    BY <1>7, <2>1, <2>2 DEF PollLost, control, broker
<1> QED
  BY <1>1, <1>2, <1>3, <1>4, <1>5, <1>6, <1>7 DEF BrokerNext

LEMMA RestartTypes ==
  ASSUME Types, RestartApi \/ RestartBroker PROVE Types'
<1> USE ConstantAssumption DEF Types, TypeOK
<1>1. happened' \subseteq Faults
  BY HappensType DEF RestartApi, RestartBroker
<1>2. \A p \in Pollers : /\ Unheard(poll[p]) \in PollState
                         /\ Unheard(poll[p]).pc # "idle"
                              => Unheard(poll[p]).role = poll[p].role
                         /\ Unheard(poll[p]).pc # "idle"
                              => poll[p].pc # "idle"
  BY ReportType DEF Unheard, NoPoll, PollState
<1>3. NoPoll.pc = "idle"
  BY DEF NoPoll
<1>4. CASE RestartApi
  BY <1>1, <1>2, <1>3, <1>4, EmptyRecords DEF RestartApi, broker
<1>5. CASE RestartBroker
  <2>1. saved' \in [Roles -> States] /\ opState' \in [Ops -> OpStates]
    BY <1>5, StatesAre DEF RestartBroker
  <2> QED
    BY <1>1, <1>3, <1>5, <2>1, EmptyRecords DEF RestartBroker, control
<1> QED
  BY <1>4, <1>5

LEMMA StepTypes == Types /\ [Next]_vars => Types'
<1>1. ASSUME Types, UNCHANGED vars PROVE Types'
  BY <1>1 DEF vars, Types, TypeOK
<1> QED
  BY <1>1, AdminTypes, RunnerTypes, BrokerTypes, RestartTypes DEF Next

(* The control of the API, the broker's tables, the requests in progress    *)
(* and the emulators keep their types through every fault and restart.      *)
THEOREM ControlTyping == Spec => []TypeOK
<1>1. Types => TypeOK
  BY DEF Types
<1> QED
  BY <1>1, InitTypes, StepTypes, PTL DEF Spec

-----------------------------------------------------------------------------
(* While no task was hidden, Redis shows the one the runner works on.       *)
Shown == "hidden task" \notin happened => (RunnerBusy => "held" \in tasks)

(* What holds whatever goes wrong: the gate keeps what it has checked.      *)
Gated == OwnedMeansPaused /\ GateHolds /\ Shown

LEMMA GatedInit == Init => Gated
  BY ConstantAssumption
  DEF Init, Gated, OwnedMeansPaused, GateHolds, HasOperation, NoAction, Shown,
      RunnerBusy, NoTask

LEMMA GatedAdmin ==
  ASSUME Types, Gated, AdminNext PROVE Gated'
<1> USE ConstantAssumption
    DEF Types, TypeOK, Gated, OwnedMeansPaused, GateHolds, HasOperation,
        HasRunningTask, Shown, RunnerBusy, GateFree
<1>1. ASSUME NEW s \in Sessions,
             Lock(s) \/ Release(s) \/ DisconnectSession(s)
               \/ RegisterSocket(s) \/ UnregisterSocket(s)
      PROVE  Gated'
  BY <1>1 DEF Lock, Release, DisconnectSession, RegisterSocket,
              UnregisterSocket
<1>2. ASSUME NEW s \in Sessions, NEW r \in Roles, NEW kind \in InFlight,
             BeginAction(s, r, kind)
      PROVE  Gated'
  BY <1>2 DEF BeginAction, control
<1>3. CASE PauseQueue \/ ResumeQueue
  BY <1>3 DEF PauseQueue, ResumeQueue
<1>4. ASSUME NEW o \in Ops, SubmitOp(o) PROVE Gated'
  <2>1. action'.by = action.by /\ action.pc = "submit"
    BY <1>4 DEF SubmitOp, ActionState
  <2>2. happened \subseteq happened' /\ UNCHANGED <<control, runner, tasks>>
    BY <1>4 DEF SubmitOp, Happens
  <2>3. happened' \subseteq happened \cup {"overtaken"}
    BY <1>4 DEF SubmitOp, Happens
  <2> QED
    BY <2>1, <2>2, <2>3 DEF control
<1>5. CASE SubmitFails \/ ActionReplyLost
  <2>1. /\ action' = NoAction
        /\ UNCHANGED <<paused, lockOwner, opLease, runner, tasks>>
        /\ happened \subseteq happened'
    BY <1>5 DEF SubmitFails, ActionReplyLost, Happens, control
  <2>2. NoAction.pc = "none"
    BY DEF NoAction
  <2> QED
    BY <2>1, <2>2
<1>6. CASE ActionReply
  BY <1>6 DEF ActionReply, NoAction
<1> QED
  BY <1>1, <1>2, <1>3, <1>4, <1>5, <1>6 DEF AdminNext

LEMMA GatedStep ==
  ASSUME Types, Gated, [Next]_vars PROVE Gated'
<1> USE ConstantAssumption
    DEF Gated, OwnedMeansPaused, GateHolds, HasOperation, HasRunningTask,
        Shown, RunnerBusy, GateFree
<1>1. CASE RunnerNext
  <2>1. CASE \E closed, bound \in BOOLEAN :
               Claim(closed, bound) \/ ClaimLost(closed, bound)
    <3>1. /\ action.pc = "none" /\ tasks \subseteq tasks'
          /\ UNCHANGED <<paused, lockOwner, opLease, action>>
          /\ happened \subseteq happened'
      BY <2>1 DEF Claim, ClaimLost, Happens, control
    <3>2. UNCHANGED runner \/ "held" \in tasks'
      BY <2>1 DEF Claim, ClaimLost
    <3> QED
      BY <3>1, <3>2
  <2>2. CASE Branch
    <3>1. RunnerBusy
      BY <2>2 DEF Branch
    <3>2. UNCHANGED <<paused, lockOwner, opLease, action, tasks, happened>>
      BY <2>2 DEF Branch, control
    <3> QED
      BY <3>1, <3>2
  <2>3. CASE FinishTask
    <3>1. /\ UNCHANGED <<paused, lockOwner, opLease, action>>
          /\ runner'.pc = "idle" /\ (tasks = {} => tasks' = {})
          /\ happened \subseteq happened'
      BY <2>3 DEF FinishTask, Happens, control, NoTask
    <3> QED
      BY <3>1
  <2>4. CASE PauseForAdmin
    BY <2>4 DEF PauseForAdmin, NoTask
  <2>5. CASE NeedsAdmin
    <3>1. runner'.pc = "waiting"
      BY <2>5 DEF NeedsAdmin, Types, TypeOK, RunnerState
    <3>2. /\ UNCHANGED <<paused, lockOwner, opLease, action, happened>>
          /\ tasks' \subseteq tasks
      BY <2>5 DEF NeedsAdmin, control
    <3> QED
      BY <3>1, <3>2
  <2>6. CASE HideTask
    BY <2>6 DEF HideTask, Happens, control
  <2> QED
    BY <1>1, <2>1, <2>2, <2>3, <2>4, <2>5, <2>6 DEF RunnerNext
<1>2. ASSUME NEW r \in Roles,
             PowerOn(r) \/ Booted(r) \/ PowerOff(r) \/ Finish(r)
      PROVE  Gated'
  BY <1>2 DEF PowerOn, Booted, PowerOff, Finish, control
<1>3. ASSUME NEW p \in Pollers, PollReply(p) PROVE Gated'
  <2>1. poll[p].role \in Roles
    BY <1>3 DEF PollReply, Types
  <2> QED
    BY <1>3, <2>1 DEF PollReply, Reconcile, Reconciled, Types, TypeOK
<1>4. ASSUME NEW p \in Pollers,
             \/ \E r \in Roles : PollRead(p, r)
             \/ PollDetect(p) \/ PollWrite(p) \/ PollLost(p)
      PROVE  Gated'
  BY <1>4 DEF PollRead, PollDetect, PollWrite, PollLost, control
<1>5. CASE RestartApi
  BY <1>5 DEF RestartApi, NoAction, NoTask
<1>6. CASE RestartBroker
  <2>1. action'.pc = "none" /\ UNCHANGED <<control, runner, tasks>>
    BY <1>6 DEF RestartBroker, NoAction
  <2>2. happened \subseteq happened'
    BY <1>6 DEF RestartBroker, Happens
  <2> QED
    BY <2>1, <2>2 DEF control
<1>7. CASE UNCHANGED vars
  BY <1>7 DEF vars
<1> QED
  BY <1>1, <1>2, <1>3, <1>4, <1>5, <1>6, <1>7, GatedAdmin DEF Next, BrokerNext

(* Whatever goes wrong, a lock or a leased operation means a paused queue.  *)
THEOREM OwnedIsPaused == Spec => []OwnedMeansPaused
<1>1. Gated => OwnedMeansPaused
  BY DEF Gated
<1> QED
  BY <1>1, InitTypes, StepTypes, GatedInit, GatedStep, PTL DEF Spec

(* Whatever goes wrong, a submission keeps until the request ends what      *)
(* maintenance() checked when it began: the lock, the paused queue, no      *)
(* leased operation, no task shown as RUNNING.  That the runner holds none  *)
(* follows only while no RUNNING task was hidden in the store.              *)
THEOREM GateIsHeld == Spec => []GateHolds
<1>1. Gated => GateHolds
  BY DEF Gated
<1> QED
  BY <1>1, InitTypes, StepTypes, GatedInit, GatedStep, PTL DEF Spec

-----------------------------------------------------------------------------
(* The rest needs an undisturbed run.  Operations of different devices are  *)
(* different; the operation of a busy device is in flight and that of an    *)
(* idle one is not.                                                         *)
Tables ==
  /\ \A r, q \in Roles : r # q /\ latest[r] = latest[q] => latest[r] = NoOp
  /\ \A r \in Roles :
       /\ busy[r] => latest[r] # NoOp /\ opState[latest[r]] \in InFlight
       /\ ~busy[r] /\ latest[r] # NoOp => opState[latest[r]] \notin InFlight
       /\ busy[r] => saved[r] \in InFlight

(* A busy device is leased to its operation, or the reply that will lease   *)
(* it is on its way to a request that holds the gate; the runner is idle.   *)
BusyOwned ==
  \A r \in Roles : busy[r] =>
    /\ \/ opLease[r] = latest[r]
       \/ action.pc = "accepted" /\ action.role = r /\ action.op = latest[r]
    /\ ~RunnerBusy

(* A detection works on the latest operation of an idle device, and a final *)
(* report is about an operation that is over.                               *)
Reports ==
  \A p \in Pollers :
    /\ poll[p].pc \in {"detect", "write"} =>
         poll[p].op = latest[poll[p].role] /\ ~busy[poll[p].role]
    /\ poll[p].pc = "reply" /\ poll[p].st \in Settled /\ poll[p].op # NoOp =>
         opState[poll[p].op] \notin InFlight

Ownership == Undisturbed => Tables /\ BusyOwned /\ Reports

LEMMA KindsApart == InFlight \cap Settled = {} /\ InFlight \cap Failed = {}
  BY DEF InFlight, Settled, Failed

LEMMA OwnershipInit == Init => Ownership
  BY ConstantAssumption
  DEF Init, Ownership, Tables, BusyOwned, Reports, NoPoll

(* A fault but a lost result or a restart of the broker ends the            *)
(* undisturbed part.                                                        *)
LEMMA Disturbs ==
  ASSUME NEW fault, Happens(fault),
         fault \notin {"lost result", "broker restart"}
  PROVE  ~Undisturbed'
  BY DEF Happens, Undisturbed

LEMMA SubmitOwned ==
  ASSUME Types, Gated, Ownership, NEW o \in Ops, SubmitOp(o)
  PROVE  Ownership'
<1> USE ConstantAssumption DEF Types, TypeOK
<1> SUFFICES ASSUME Undisturbed' PROVE (Tables /\ BusyOwned /\ Reports)'
  BY DEF Ownership
<1>1. /\ ~Overtakes(action.role, {"detect", "write"})
      /\ Undisturbed
  BY Disturbs DEF SubmitOp, Undisturbed
<1>2. Tables /\ BusyOwned /\ Reports
  BY <1>1 DEF Ownership
<1> DEFINE ro == action.role
<1>3. /\ FreshOp(o) /\ ~busy[ro]
      /\ opState' = [opState EXCEPT ![o] = action.kind]
      /\ latest' = [latest EXCEPT ![ro] = o]
      /\ busy' = [busy EXCEPT ![ro] = TRUE]
      /\ saved' = [saved EXCEPT ![ro] = action.kind]
      /\ action' = [action EXCEPT !.pc = "accepted", !.op = o]
      /\ UNCHANGED <<opLease, runner, poll>>
  BY DEF SubmitOp, control
<1>4. action.kind \in InFlight /\ action' = [action EXCEPT !.pc = "accepted", !.op = o]
  BY <1>3 DEF ActionState
<1>5. \A r \in Roles : ~busy[r] /\ opLease[r] = NoOp
  <2>1. action.pc = "submit" /\ ~HasOperation
    BY DEF SubmitOp, Gated, GateHolds
  <2> QED
    BY <1>2, <2>1 DEF BusyOwned, HasOperation, Tables
<1>6. \A r \in Roles : latest[r] # o
  BY <1>3 DEF FreshOp
<1>7. Tables'
  BY <1>2, <1>3, <1>4, <1>5, <1>6 DEF Tables
<1>8. BusyOwned'
  <2>1. action.pc = "submit" /\ ~RunnerBusy
    BY <1>1 DEF SubmitOp, Gated, GateHolds, Undisturbed
  <2>2. action'.pc = "accepted" /\ action'.role = ro /\ action'.op = o
    BY <1>3 DEF ActionState
  <2>3. ~RunnerBusy'
    BY <1>3, <2>1 DEF RunnerBusy
  <2> QED
    BY <1>3, <1>5, <2>2, <2>3 DEF BusyOwned
<1>9. Reports'
  <2>1. ASSUME NEW p \in Pollers, poll[p].pc \in {"detect", "write"}
        PROVE  poll'[p].op = latest'[poll[p].role] /\ ~busy'[poll[p].role]
    <3>1. poll[p].role # ro /\ poll[p].role \in Roles
      BY <1>1, <2>1 DEF Overtakes
    <3> QED
      BY <1>2, <1>3, <2>1, <3>1 DEF Reports
  <2>2. ASSUME NEW p \in Pollers, poll[p].pc = "reply",
               poll[p].st \in Settled, poll[p].op # NoOp
        PROVE  opState'[poll[p].op] \notin InFlight
    <3>1. poll[p].op # o /\ poll[p].op \in Ops
      BY <1>3, <2>2 DEF FreshOp, PollState
    <3> QED
      BY <1>2, <1>3, <2>2, <3>1 DEF Reports
  <2> QED
    BY <1>3, <2>1, <2>2 DEF Reports
<1> QED
  BY <1>7, <1>8, <1>9

LEMMA ReplyOwned ==
  ASSUME Types, Gated, Ownership, ActionReply
  PROVE  Ownership'
<1> USE ConstantAssumption DEF Types, TypeOK
<1> SUFFICES ASSUME Undisturbed PROVE (Tables /\ BusyOwned /\ Reports)'
  BY DEF Ownership, ActionReply, Undisturbed
<1>1. Tables /\ BusyOwned /\ Reports
  BY DEF Ownership
<1>2. /\ action.pc = "accepted" /\ ~HasOperation
      /\ UNCHANGED <<runner, poll, busy, saved, latest, opState>>
  BY DEF ActionReply, Gated, GateHolds, broker
<1>3. ASSUME NEW r \in Roles, busy[r]
      PROVE  opLease'[r] = latest[r] /\ ~RunnerBusy
  <2>1. /\ action.role = r /\ action.op = latest[r] /\ ~RunnerBusy
        /\ opState[action.op] \in InFlight /\ opLease[r] = NoOp
    BY <1>1, <1>2, <1>3 DEF BusyOwned, Tables, HasOperation
  <2>2. action.kind \in InFlight
    BY DEF ActionState
  <2> QED
    BY <2>1, <2>2 DEF ActionReply
<1>4. Tables' /\ Reports'
  BY <1>1, <1>2 DEF Tables, Reports
<1>5. BusyOwned'
  BY <1>2, <1>3 DEF BusyOwned, RunnerBusy
<1> QED
  BY <1>4, <1>5

LEMMA FinishOwned ==
  ASSUME Types, Gated, Ownership, NEW r \in Roles, Finish(r)
  PROVE  Ownership'
<1> USE ConstantAssumption DEF Types, TypeOK
<1> SUFFICES ASSUME Undisturbed PROVE (Tables /\ BusyOwned /\ Reports)'
  BY DEF Ownership, Finish, Undisturbed
<1>1. Tables /\ BusyOwned /\ Reports
  BY DEF Ownership
<1>2. PICK st \in Outcomes(r) :
        /\ opState' = [opState EXCEPT ![latest[r]] = st]
        /\ saved' = [saved EXCEPT ![r] = Reported(st)]
  BY DEF Finish
<1>3. st \notin InFlight
  BY DEF Outcomes, InFlight
<1>4. /\ busy[r] /\ busy' = [busy EXCEPT ![r] = FALSE]
      /\ UNCHANGED <<opLease, action, runner, poll, latest>>
  BY DEF Finish, control
<1>5. latest[r] \in Ops
  BY <1>1, <1>4 DEF Tables
<1>6. Tables'
  BY <1>1, <1>2, <1>3, <1>4, <1>5 DEF Tables
<1>7. BusyOwned'
  BY <1>1, <1>4 DEF BusyOwned, RunnerBusy
<1>8. Reports'
  BY <1>1, <1>2, <1>3, <1>4, <1>5 DEF Reports, PollState
<1> QED
  BY <1>6, <1>7, <1>8

(* What detections and reports change.                                      *)
LEMMA PollOwned ==
  ASSUME Types, Gated, Ownership, NEW p \in Pollers,
         \/ \E r \in Roles : PollRead(p, r)
         \/ PollDetect(p) \/ PollReply(p) \/ PollLost(p)
  PROVE  Ownership'
<1> USE ConstantAssumption DEF Types, TypeOK
<1> SUFFICES ASSUME Undisturbed PROVE (Tables /\ BusyOwned /\ Reports)'
  BY DEF Ownership, Undisturbed, PollRead, PollDetect, PollReply, PollLost
<1>1. Tables /\ BusyOwned /\ Reports
  BY DEF Ownership
<1>2. UNCHANGED <<action, runner, busy, saved, latest, opState>>
  BY DEF PollRead, PollDetect, PollReply, PollLost, broker
<1>3. Tables'
  BY <1>1, <1>2 DEF Tables
<1>4. CASE PollReply(p)
  <2>1. NoPoll.pc = "idle"
    BY DEF NoPoll
  <2>2. Reports'
    BY <1>1, <1>2, <1>4, <2>1 DEF PollReply, Reports
  <2>3. ASSUME NEW r \in Roles, busy[r] PROVE opLease'[r] = opLease[r]
    <3>1. opLease[r] = latest[r] /\ latest[r] \in Ops
          /\ opState[latest[r]] \in InFlight
      BY <1>1, <1>4, <2>3 DEF PollReply, GateFree, BusyOwned, Tables
    <3>2. poll[p].op = latest[r] => poll[p].st \notin Settled
      BY <1>1, <1>4, <3>1 DEF Reports, PollReply
    <3> QED
      BY <1>4, <3>1, <3>2 DEF PollReply, Reconcile, Reconciled
  <2>4. BusyOwned'
    BY <1>1, <1>2, <2>3 DEF BusyOwned, RunnerBusy
  <2> QED
    BY <1>3, <2>2, <2>4
<1>5. ASSUME NEW r \in Roles, PollRead(p, r) PROVE Reports' /\ BusyOwned'
  <2> DEFINE q == [pc   |-> IF busy[r] THEN "reply" ELSE "detect",
                   role |-> r, was |-> saved[r], op |-> latest[r],
                   st   |-> saved[r], heard |-> TRUE]
  <2>1. poll' = [poll EXCEPT ![p] = q]
    BY <1>5 DEF PollRead
  <2>2. busy[r] => q.pc = "reply" /\ q.st \notin Settled
    BY <1>1, KindsApart DEF Tables
  <2>3. ~busy[r] => q.pc = "detect" /\ q.op = latest[r] /\ q.role = r
    OBVIOUS
  <2> HIDE DEF q
  <2>4. Reports'
    BY <1>1, <1>2, <2>1, <2>2, <2>3 DEF Reports
  <2> QED
    BY <1>1, <1>2, <1>5, <2>4 DEF PollRead, control, BusyOwned, RunnerBusy
<1>6. CASE PollDetect(p)
  <2>1. PICK st : poll' = [poll EXCEPT ![p] = [@ EXCEPT !.pc = "write", !.st = st]]
    BY <1>6 DEF PollDetect
  <2>2. /\ poll'[p].pc = "write" /\ poll'[p].op = poll[p].op
        /\ poll'[p].role = poll[p].role
        /\ \A u \in Pollers \ {p} : poll'[u] = poll[u]
    BY <2>1 DEF PollState
  <2>3. Reports'
    <3>1. poll[p].pc = "detect"
      BY <1>6 DEF PollDetect
    <3>2. /\ poll[p].op = latest[poll[p].role] /\ ~busy[poll[p].role]
      BY <1>1, <3>1 DEF Reports
    <3> QED
      BY <1>1, <1>2, <2>2, <3>2 DEF Reports
  <2> QED
    BY <1>1, <1>2, <1>3, <1>6, <2>3
       DEF PollDetect, control, BusyOwned, RunnerBusy
<1>7. CASE PollLost(p)
  <2>1. \/ poll'[p].pc = "idle"
        \/ /\ poll'[p].pc = poll[p].pc /\ poll[p].pc # "reply"
           /\ poll'[p].op = poll[p].op /\ poll'[p].role = poll[p].role
    BY <1>7 DEF PollLost, Unheard, NoPoll, PollState
  <2>2. \A u \in Pollers \ {p} : poll'[u] = poll[u]
    BY <1>7 DEF PollLost
  <2>3. Reports'
    BY <1>1, <1>2, <2>1, <2>2 DEF Reports
  <2> QED
    BY <1>1, <1>2, <1>3, <1>7, <2>3
       DEF PollLost, control, BusyOwned, RunnerBusy
<1> QED
  BY <1>3, <1>4, <1>5, <1>6, <1>7

(* The write after a detection: the device is idle, so that no operation in *)
(* flight is touched, and nothing it writes puts one in flight.             *)
LEMMA PollWriteOwned ==
  ASSUME Types, Gated, Ownership, NEW p \in Pollers, PollWrite(p)
  PROVE  Ownership'
<1> USE ConstantAssumption DEF Types, TypeOK
<1> SUFFICES ASSUME Undisturbed PROVE (Tables /\ BusyOwned /\ Reports)'
  BY DEF Ownership, Undisturbed, PollWrite
<1>1. Tables /\ BusyOwned /\ Reports
  BY DEF Ownership
<1> DEFINE r0 == poll[p].role
           o0 == poll[p].op
<1>2. /\ UNCHANGED <<opLease, action, runner, busy, latest>>
      /\ r0 \in Roles /\ ~busy[r0] /\ o0 = latest[r0]
  BY <1>1 DEF PollWrite, control, Reports
<1>3. o0 # NoOp => opState[o0] \notin InFlight
  BY <1>1, <1>2 DEF Tables
<1>4. \/ UNCHANGED opState
      \/ o0 # NoOp /\ opState' = [opState EXCEPT ![o0] = "RUNNING"]
  <2>1. \/ UNCHANGED opState
        \/ /\ o0 # NoOp
           /\ opState' = [opState EXCEPT ![o0] = IF latest[r0] = o0
                                                 THEN "RUNNING" ELSE @]
    BY DEF PollWrite
  <2> QED
    BY <1>2, <2>1
<1>5. /\ \A r \in Roles \ {r0} : saved'[r] = saved[r]
      /\ \A u \in Pollers \ {p} : poll'[u] = poll[u]
  BY DEF PollWrite
<1>6. poll'[p].pc = "idle" \/ (poll'[p].pc = "reply" /\ poll'[p].op = o0)
  <2>1. \E st : poll' = [poll EXCEPT ![p] = Answer(@, st)]
    BY DEF PollWrite
  <2>2. \A st : \/ Answer(poll[p], st).pc = "idle"
               \/ /\ Answer(poll[p], st).pc = "reply"
                  /\ Answer(poll[p], st).op = o0
    BY DEF Answer, NoPoll, PollState
  <2> HIDE DEF o0
  <2> QED
    BY <2>1, <2>2
<1>7. "RUNNING" \notin InFlight
  BY DEF InFlight
<1> HIDE DEF r0, o0
<1>8. Tables'
  BY <1>1, <1>2, <1>3, <1>4, <1>5, <1>7 DEF Tables
<1>9. BusyOwned'
  BY <1>1, <1>2 DEF BusyOwned, RunnerBusy
<1>10. \A o \in Ops : opState[o] \notin InFlight => opState'[o] \notin InFlight
  BY <1>4, <1>7
<1>11. \A u \in Pollers : poll[u].op \in Ops \cup {NoOp}
  BY DEF PollState
<1>12. o0 \in Ops \cup {NoOp}
  BY <1>11 DEF o0
<1>13. Reports'
  BY <1>1, <1>2, <1>3, <1>5, <1>6, <1>10, <1>11, <1>12 DEF Reports
<1> QED
  BY <1>8, <1>9, <1>13

(* What has nothing to do with operations keeps the invariant.              *)
LEMMA OwnershipKept ==
  ASSUME Ownership, Undisturbed' => Undisturbed,
         UNCHANGED <<opLease, poll, busy, saved, latest, opState>>,
         RunnerBusy' => RunnerBusy,
         action.pc = "accepted" => UNCHANGED action
  PROVE  Ownership'
<1> SUFFICES ASSUME Undisturbed PROVE (Tables /\ BusyOwned /\ Reports)'
  BY DEF Ownership
<1>1. Tables /\ BusyOwned /\ Reports
  BY DEF Ownership
<1>2. Tables' /\ Reports'
  BY <1>1 DEF Tables, Reports
<1>3. BusyOwned'
  BY <1>1 DEF BusyOwned
<1> QED
  BY <1>2, <1>3

LEMMA OwnershipStep ==
  ASSUME Types, Gated, Ownership, [Next]_vars PROVE Ownership'
<1> USE ConstantAssumption
<1>1. ASSUME NEW s \in Sessions,
             \/ Lock(s) \/ Release(s) \/ DisconnectSession(s)
             \/ RegisterSocket(s) \/ UnregisterSocket(s)
      PROVE  Ownership'
  BY <1>1, OwnershipKept
     DEF Lock, Release, DisconnectSession, RegisterSocket, UnregisterSocket,
         broker, Undisturbed, RunnerBusy
<1>2. CASE PauseQueue
  BY <1>2, OwnershipKept DEF PauseQueue, broker, Undisturbed, RunnerBusy
<1>3. CASE ResumeQueue
  BY <1>3, OwnershipKept DEF ResumeQueue, broker, Undisturbed, RunnerBusy
<1>4. ASSUME NEW s \in Sessions, NEW r \in Roles, NEW kind \in InFlight,
             BeginAction(s, r, kind)
      PROVE  Ownership'
  BY <1>4, OwnershipKept
     DEF BeginAction, GateFree, control, broker, Undisturbed, RunnerBusy
<1>5. CASE SubmitFails
  BY <1>5, OwnershipKept
     DEF SubmitFails, control, broker, Undisturbed, RunnerBusy
<1>6. CASE ActionReplyLost
  BY <1>6, Disturbs DEF ActionReplyLost, Ownership
<1>7. ASSUME NEW closed \in BOOLEAN, NEW bound \in BOOLEAN,
             Claim(closed, bound)
      PROVE  Ownership'
  <2> SUFFICES ASSUME Undisturbed PROVE (Tables /\ BusyOwned /\ Reports)'
    BY <1>7 DEF Claim, Ownership, Undisturbed
  <2>1. \A r \in Roles : ~busy[r]
    BY <1>7 DEF Claim, GateFree, MayClaim, HasOperation, Ownership, Tables,
                BusyOwned
  <2> QED
    BY <1>7, <2>1 DEF Claim, control, broker, Ownership, Tables, BusyOwned,
                      Reports
<1>8. CASE \/ Branch \/ FinishTask \/ NeedsAdmin \/ PauseForAdmin
           \/ HideTask
           \/ \E closed, bound \in BOOLEAN : ClaimLost(closed, bound)
  <2>1. RunnerBusy' => RunnerBusy
    <3>1. Branch \/ NeedsAdmin => RunnerBusy
      BY DEF Branch, NeedsAdmin, RunnerBusy
    <3>2. CASE Branch \/ NeedsAdmin
      BY <3>1, <3>2
    <3>3. CASE ~(Branch \/ NeedsAdmin)
      <4>1. UNCHANGED runner \/ runner' = NoTask
        BY <1>8, <3>3 DEF FinishTask, PauseForAdmin, HideTask, ClaimLost
      <4>2. NoTask.pc = "idle"
        BY DEF NoTask
      <4> QED
        BY <4>1, <4>2 DEF RunnerBusy
    <3> QED
      BY <3>2, <3>3
  <2>2. Undisturbed' => Undisturbed
    BY <1>8 DEF Branch, FinishTask, NeedsAdmin, PauseForAdmin, HideTask,
                ClaimLost, Happens, Undisturbed
  <2> QED
    BY <1>8, <2>1, <2>2, OwnershipKept
       DEF Branch, FinishTask, NeedsAdmin, PauseForAdmin, HideTask, ClaimLost,
           control, broker
<1>9. ASSUME NEW r \in Roles, PowerOn(r) \/ Booted(r) \/ PowerOff(r)
      PROVE  Ownership'
  BY <1>9, OwnershipKept
     DEF PowerOn, Booted, PowerOff, control, broker, Undisturbed,
         RunnerBusy
<1>10. CASE RestartApi
  BY <1>10, Disturbs DEF RestartApi, Ownership
<1>11. CASE RestartBroker
  <2> SUFFICES ASSUME Undisturbed PROVE (Tables /\ BusyOwned /\ Reports)'
    BY <1>11 DEF RestartBroker, Happens, Ownership, Undisturbed
  <2>1. /\ \A r \in Roles : ~busy'[r] /\ latest'[r] = NoOp
        /\ \A o \in Ops : opState'[o] \notin InFlight
    BY <1>11, KindsApart DEF RestartBroker, Failed
  <2>2. \A p \in Pollers : poll'[p].pc = "idle"
                           \/ (poll'[p].pc = "reply" /\ poll'[p] = poll[p])
    BY <1>11 DEF RestartBroker, NoPoll
  <2>3. \A p \in Pollers : poll[p].op \in Ops \cup {NoOp}
    BY DEF Types, TypeOK, PollState
  <2>4. Tables' /\ BusyOwned'
    BY <2>1 DEF Tables, BusyOwned
  <2>5. Reports'
    BY <2>1, <2>2, <2>3 DEF Reports
  <2> QED
    BY <2>4, <2>5
<1>12. CASE UNCHANGED vars
  BY <1>12, OwnershipKept DEF vars, Undisturbed, RunnerBusy
<1> QED
  BY <1>1, <1>2, <1>3, <1>4, <1>5, <1>6, <1>7, <1>8, <1>9, <1>10, <1>11, <1>12,
     SubmitOwned, ReplyOwned, FinishOwned, PollOwned, PollWriteOwned
  DEF Next, AdminNext, RunnerNext, BrokerNext

(* The devices have one user: while the broker starts or stops one the      *)
(* runner drives none, as long as no detection is overtaken, no reply to a  *)
(* submission is lost, no RUNNING task is hidden in the store and the API   *)
(* does not restart; claims and results may get lost, the broker restart.   *)
THEOREM DevicesAreExclusive == Spec => []DeviceExclusive
<1>1. Types /\ Ownership => DeviceExclusive
  BY DEF Types, Ownership, BusyOwned, DeviceExclusive, RunnerBusy
<1> QED
  BY <1>1, InitTypes, StepTypes, GatedInit, GatedStep, OwnershipInit,
     OwnershipStep, PTL DEF Spec

(* Faults are not forgotten.                                                *)
LEMMA HappenedGrows == ASSUME [Next]_vars PROVE happened \subseteq happened'
<1>1. CASE AdminNext
  BY <1>1 DEF AdminNext, Lock, Release, DisconnectSession, RegisterSocket,
       UnregisterSocket, BeginAction, PauseQueue, ResumeQueue, SubmitOp,
       SubmitFails, ActionReply, ActionReplyLost, Happens
<1>2. CASE RunnerNext
  BY <1>2 DEF RunnerNext, Claim, ClaimLost, Branch, FinishTask, NeedsAdmin,
       PauseForAdmin, HideTask, Happens
<1>3. CASE BrokerNext
  BY <1>3 DEF BrokerNext, PowerOn, Booted, PowerOff, Finish, PollRead,
       PollDetect, PollWrite, PollReply, PollLost
<1>4. CASE RestartApi \/ RestartBroker \/ UNCHANGED vars
  BY <1>4 DEF RestartApi, RestartBroker, Happens, vars
<1> QED
  BY <1>1, <1>2, <1>3, <1>4 DEF Next

(* Which steps write the leases.                                            *)
LEMMA LeaseWriters ==
  ASSUME [Next]_vars
  PROVE  \/ UNCHANGED opLease
         \/ ActionReply
         \/ \E p \in Pollers : PollReply(p)
         \/ RestartApi
<1>1. CASE AdminNext
  BY <1>1 DEF AdminNext, Lock, Release, DisconnectSession, RegisterSocket,
       UnregisterSocket, BeginAction, PauseQueue, ResumeQueue, SubmitOp,
       SubmitFails, ActionReplyLost, control
<1>2. CASE RunnerNext
  BY <1>2 DEF RunnerNext, Claim, ClaimLost, Branch, FinishTask, NeedsAdmin,
       PauseForAdmin, HideTask, control
<1>3. CASE BrokerNext
  BY <1>3 DEF BrokerNext, PowerOn, Booted, PowerOff, Finish, PollRead,
       PollDetect, PollWrite, PollLost, control
<1>4. CASE RestartBroker \/ UNCHANGED vars
  BY <1>4 DEF RestartBroker, control, vars
<1> QED
  BY <1>1, <1>2, <1>3, <1>4 DEF Next

(* An operation in flight keeps its lease: only the report of its own end   *)
(* takes it away.                                                           *)
THEOREM LeaseOutlivesOperation == Spec => NoEarlyRelease
<1>1. ASSUME Types, Gated, Ownership, [Next]_vars, Undisturbed',
             NEW r \in Roles, opLease[r] # NoOp,
             opState[opLease[r]] \in InFlight
      PROVE  opLease'[r] = opLease[r]
  <2>1. Reports
    BY <1>1, HappenedGrows DEF Undisturbed, Ownership
  <2>2. CASE UNCHANGED opLease
    BY <2>2
  <2>3. CASE ActionReply
    BY <1>1, <2>3 DEF ActionReply, Gated, GateHolds, HasOperation
  <2>4. ASSUME NEW p \in Pollers, PollReply(p)
        PROVE  opLease'[r] = opLease[r]
    <3>1. poll[p].op = opLease[r] => poll[p].st \notin Settled
      BY <1>1, <2>1, <2>4 DEF PollReply, Reports
    <3> QED
      BY <1>1, <2>4, <3>1
         DEF PollReply, Reconcile, Reconciled, Types, TypeOK
  <2>5. CASE RestartApi
    BY <1>1, <2>5, Disturbs DEF RestartApi
  <2> QED
    BY <1>1, <2>2, <2>3, <2>4, <2>5, LeaseWriters
<1>2. Types /\ Gated /\ Ownership /\ [Next]_vars =>
        [Undisturbed' => \A r \in Roles :
           (opLease[r] # NoOp /\ opState[opLease[r]] \in InFlight)
             => opLease'[r] = opLease[r]]_vars
  BY <1>1
<1> QED
  BY <1>2, InitTypes, StepTypes, GatedInit, GatedStep, OwnershipInit,
     OwnershipStep, PTL DEF Spec, NoEarlyRelease
==============================================================================
