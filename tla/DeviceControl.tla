----------------------------- MODULE DeviceControl -----------------------------
(***************************************************************************)
(* Who may use the Android devices: the runner, an administrator, or a     *)
(* start/stop operation of the host-side device broker.                    *)
(*                                                                         *)
(* The API process decides with RunnerControl (runner.py), which lives in  *)
(* memory behind one re-entrant lock, the maintenance gate.  The broker    *)
(* (macos-device-lifecycle.py) runs operations in threads of its own       *)
(* process; the API learns about them from the reply to its submission and *)
(* by polling the list of devices.                                         *)
(*                                                                         *)
(* The task store is reduced to the tasks it shows as RUNNING.  That is    *)
(* not the same as what the runner works on: a result that could not be    *)
(* stored leaves a RUNNING task without a runner, and a task the runner    *)
(* works on stops being RUNNING when the retention loop writes an old      *)
(* payload over it or removes it as an acceptance task.                    *)
(***************************************************************************)
EXTENDS Integers, FiniteSets

CONSTANTS Sessions,       (* administrator sessions                         *)
          Roles,          (* core_metrics, main_fund_flow                   *)
          Ops,            (* operation ids (secrets.token_urlsafe)          *)
          Pollers,        (* requests that list the devices                 *)
          NoSession, NoOp, (* "absent" values                               *)
          MaxSockets,     (* bound: device streams of one session           *)
          Faults,         (* what may go wrong, a part of AllFaults         *)
          MaxFaults,      (* bound: different faults of one run             *)
          UnknownDetect,  (* may the identity check of a device fail?       *)
          ManualPower     (* may devices start and stop by themselves?      *)

(* A submission overtakes a detection of the device's state, or a report on *)
(* its way to the API; the reply to a submission, or to a request for the   *)
(* list of devices, times out; a claim or a result fails halfway; a RUNNING *)
(* task stops being shown as such; one of the two processes restarts.       *)
AllFaults == {"overtaken", "late report", "lost reply", "lost list",
              "lost result", "hidden task", "API restart", "broker restart"}

ASSUME ConstantAssumption ==
  /\ IsFiniteSet(Ops)
  /\ NoSession \notin Sessions
  /\ NoOp \notin Ops
  /\ {MaxSockets, MaxFaults} \subseteq Nat
  /\ Faults \subseteq AllFaults
  /\ {UnknownDetect, ManualPower} \subseteq BOOLEAN

VARIABLES
  paused,    (* RunnerControl.queue_paused                                  *)
  lockOwner, (* RunnerControl._lock_owner                                   *)
  sockets,   (* RunnerControl._socket_disconnectors, their number           *)
  opLease,   (* RunnerControl._operation_leases                             *)
  action,    (* the admin_device_action request that holds the gate         *)
  runner,    (* the runner inside run_once                                  *)
  tasks,     (* Redis: the tasks it shows as RUNNING                        *)
  poll,      (* requests for the list of devices, one role at a time        *)
  busy,      (* broker: _role_busy                                          *)
  saved,     (* broker: _states                                             *)
  latest,    (* broker: _latest_operations                                  *)
  opState,   (* broker: the state of each operation                         *)
  device,    (* the emulators                                               *)
  happened   (* history: the faults so far that need one of MaxFaults       *)

control  == <<paused, lockOwner, sockets, opLease>>
broker   == <<busy, saved, latest, opState>>
vars == <<paused, lockOwner, sockets, opLease, action, runner, tasks, poll,
          busy, saved, latest, opState, device, happened>>

-----------------------------------------------------------------------------
InFlight == {"STARTING", "STOPPING"}
Settled  == {"RUNNING", "STOPPED", "ERROR"}

(* An operation fails with an error code; only DEVICE_APP_LAUNCH_FAILED is  *)
(* told apart from the others.                                              *)
Failed   == {"ERROR", "LAUNCH_FAILED"}
OpStates == InFlight \cup Settled \cup Failed
Detected == {"STARTING", "RUNNING", "STOPPED", "UNKNOWN"}
States   == Detected \cup InFlight \cup Settled

NoAction == [pc |-> "none", by |-> NoSession, role |-> NoOp, op |-> NoOp,
             kind |-> "STARTING"]
NoPoll   == [pc |-> "idle", role |-> NoOp, was |-> "UNKNOWN", op |-> NoOp,
             st |-> "UNKNOWN", heard |-> TRUE]
NoTask   == [pc |-> "idle", closed |-> FALSE]

(* Every method of RunnerControl takes the maintenance gate; the request    *)
(* that starts or stops a device keeps it while it talks to the broker.     *)
GateFree == action.pc = "none"

HasOperation == \E r \in Roles : opLease[r] # NoOp

(* store.has_running_task(): what Redis shows.  "held" is the task the      *)
(* runner works on, "left" one whose claim or result got lost.              *)
HasRunningTask == tasks # {}

RunnerBusy == runner.pc \in {"claimed", "device", "network"}

Happens(fault) ==
  /\ fault \in Faults
  /\ fault \notin happened => Cardinality(happened) < MaxFaults
  /\ happened' = happened \cup {fault}

FreshOp(o) ==
  /\ action.op # o
  /\ \A r \in Roles : latest[r] # o /\ opLease[r] # o
  /\ \A p \in Pollers : poll[p].op # o

-----------------------------------------------------------------------------
(* Administrators: the lock, the device streams, the queue.                 *)

(* lock(session_id): a lock whose owner has no live stream may be taken.    *)
Lock(s) ==
  /\ GateFree
  /\ \A owner \in Sessions \ {s} : lockOwner = owner => sockets[owner] = 0
  /\ lockOwner' = s
  /\ paused' = TRUE
  /\ UNCHANGED <<sockets, opLease, action, runner, tasks, poll, broker,
                 device, happened>>

(* release(session_id) *)
Release(s) ==
  /\ GateFree
  /\ lockOwner = s
  /\ ~HasOperation
  /\ lockOwner' = NoSession
  /\ UNCHANGED <<paused, sockets, opLease, action, runner, tasks, poll,
                 broker, device, happened>>

(* disconnect_session(session_id): logout, a password change, an expired    *)
(* cookie.  The streams close later, each through its own unregister.       *)
DisconnectSession(s) ==
  /\ GateFree
  /\ lockOwner = s
  /\ lockOwner' = NoSession
  /\ UNCHANGED <<paused, sockets, opLease, action, runner, tasks, poll,
                 broker, device, happened>>

RegisterSocket(s) ==
  /\ GateFree
  /\ sockets[s] < MaxSockets
  /\ sockets' = [sockets EXCEPT ![s] = @ + 1]
  /\ UNCHANGED <<paused, lockOwner, opLease, action, runner, tasks, poll,
                 broker, device, happened>>

(* unregister(): with its last stream a session loses the lock.  The mutant *)
(* counts a stream out that is gone already.                                *)
UnregisterSocketMutant(s) ==
  /\ GateFree
  /\ sockets' = [sockets EXCEPT ![s] = @ - 1]
  /\ lockOwner' = IF sockets[s] = 1 /\ lockOwner = s THEN NoSession
                                                     ELSE lockOwner
  /\ UNCHANGED <<paused, opLease, action, runner, tasks, poll, broker,
                 device, happened>>

UnregisterSocket(s) ==
  /\ GateFree
  /\ sockets[s] > 0
  /\ sockets' = [sockets EXCEPT ![s] = @ - 1]
  /\ lockOwner' = IF sockets[s] = 1 /\ lockOwner = s THEN NoSession
                                                     ELSE lockOwner
  /\ UNCHANGED <<paused, opLease, action, runner, tasks, poll, broker,
                 device, happened>>

PauseQueue ==
  /\ GateFree
  /\ paused' = TRUE
  /\ UNCHANGED <<lockOwner, sockets, opLease, action, runner, tasks, poll,
                 broker, device, happened>>

(* resume_queue(); the mutant forgets the operations.                       *)
ResumeQueueMutant ==
  /\ GateFree
  /\ lockOwner = NoSession
  /\ paused' = FALSE
  /\ UNCHANGED <<lockOwner, sockets, opLease, action, runner, tasks, poll,
                 broker, device, happened>>

ResumeQueue ==
  /\ GateFree
  /\ lockOwner = NoSession
  /\ ~HasOperation
  /\ paused' = FALSE
  /\ UNCHANGED <<lockOwner, sockets, opLease, action, runner, tasks, poll,
                 broker, device, happened>>

-----------------------------------------------------------------------------
(* run_once.  closed: the market phase it read first is CLOSED; bound: the  *)
(* deployment lease it read has its acceptance task.                        *)
MayClaim(closed, bound) ==
  /\ ~HasOperation
  /\ paused => closed # bound

(* _claim_next_task: the checks and the claim under the gate.  The first    *)
(* mutant ignores the operations, the second does not take the gate.        *)
ClaimMutant(closed, bound) ==
  /\ GateFree
  /\ runner.pc = "idle"
  /\ paused => closed # bound
  /\ runner' = [pc |-> "claimed", closed |-> closed]
  /\ tasks' = tasks \cup {"held"}
  /\ UNCHANGED <<control, action, poll, broker, device, happened>>

ClaimMutant2(closed, bound) ==
  /\ runner.pc = "idle"
  /\ MayClaim(closed, bound)
  /\ runner' = [pc |-> "claimed", closed |-> closed]
  /\ tasks' = tasks \cup {"held"}
  /\ UNCHANGED <<control, action, poll, broker, device, happened>>

Claim(closed, bound) ==
  /\ GateFree
  /\ runner.pc = "idle"
  /\ MayClaim(closed, bound)
  /\ runner' = [pc |-> "claimed", closed |-> closed]
  /\ tasks' = tasks \cup {"held"}
  /\ UNCHANGED <<control, action, poll, broker, device, happened>>

(* Outside the gate run_once looks at queue_paused again: a paused queue in *)
(* the CLOSED phase is served from the network, anything else may drive the *)
(* devices.                                                                 *)
Branch ==
  /\ runner.pc = "claimed"
  /\ runner' = [runner EXCEPT !.pc = IF runner.closed /\ paused THEN "network"
                                                                ELSE "device"]
  /\ UNCHANGED <<control, action, tasks, poll, broker, device, happened>>

(* The script claimed a task, and its reply did not come.                   *)
ClaimLost(closed, bound) ==
  /\ GateFree
  /\ runner.pc = "idle"
  /\ MayClaim(closed, bound)
  /\ Happens("lost result")
  /\ tasks' = tasks \cup {"left"}
  /\ UNCHANGED <<control, action, runner, poll, broker, device>>

(* The result, or the failure, is stored; if that fails too, the task stays *)
(* as it is until recover_running finds it.                                 *)
FinishTask ==
  /\ runner.pc \in {"network", "device"}
  /\ runner' = NoTask
  /\ \/ tasks' = tasks \ {"held"} /\ UNCHANGED happened
     \/ /\ "held" \in tasks
        /\ Happens("lost result")
        /\ tasks' = (tasks \ {"held"}) \cup {"left"}
  /\ UNCHANGED <<control, action, poll, broker, device>>

(* except NeedsAdminError: the task waits, then the queue is paused.        *)
NeedsAdmin ==
  /\ runner.pc = "device"
  /\ runner' = [runner EXCEPT !.pc = "waiting"]
  /\ tasks' = tasks \ {"held"}
  /\ UNCHANGED <<control, action, poll, broker, device, happened>>

(* A RUNNING task stops being shown as one although nothing has ended it:   *)
(* cleanup stores the finished task it had read before a refresh and a      *)
(* claim, or the task was the acceptance task of a lease that is released   *)
(* or has expired and is removed with it.                                   *)
HideTask ==
  /\ Happens("hidden task")
  /\ \E task \in tasks : tasks' = tasks \ {task}
  /\ UNCHANGED <<control, action, runner, poll, broker, device>>

PauseForAdmin ==
  /\ runner.pc = "waiting"
  /\ GateFree
  /\ paused' = TRUE
  /\ runner' = NoTask
  /\ UNCHANGED <<lockOwner, sockets, opLease, action, tasks, poll, broker,
                 device, happened>>

-----------------------------------------------------------------------------
(* admin_device_action: everything inside "with control.maintenance(...)".  *)
BeginAction(s, r, kind) ==
  /\ GateFree
  /\ lockOwner = s
  /\ paused
  /\ ~HasOperation
  /\ ~HasRunningTask
  /\ action' = [pc |-> "submit", by |-> s, role |-> r, op |-> NoOp,
                kind |-> kind]
  /\ UNCHANGED <<control, runner, tasks, poll, broker, device, happened>>

(* DeviceLifecycleManager.submit.  Nothing keeps it from happening while a  *)
(* list of devices is between its look at _role_busy and its write to       *)
(* _states, or between that and the API.                                    *)
Overtakes(r, pcs) ==
  \E p \in Pollers : poll[p].role = r /\ poll[p].pc \in pcs

SubmitOp(o) ==
  LET r == action.role IN
  /\ action.pc = "submit"
  /\ FreshOp(o)
  /\ ~busy[r]
  /\ Overtakes(r, {"reply"}) => "late report" \in Faults
  /\ IF Overtakes(r, {"detect", "write"}) THEN Happens("overtaken")
                                          ELSE UNCHANGED happened
  /\ opState' = [opState EXCEPT ![o] = action.kind]
  /\ latest' = [latest EXCEPT ![r] = o]
  /\ busy' = [busy EXCEPT ![r] = TRUE]
  /\ saved' = [saved EXCEPT ![r] = action.kind]
  /\ action' = [action EXCEPT !.pc = "accepted", !.op = o]
  /\ UNCHANGED <<control, runner, tasks, poll, device>>

(* The broker cannot be reached, or answers that the role is busy.          *)
SubmitFails ==
  /\ action.pc = "submit"
  /\ action' = NoAction
  /\ UNCHANGED <<control, runner, tasks, poll, broker, device, happened>>

(* The reply carries the state the operation had when it was written:       *)
(* either the initial one or, by now, a final one.  begin_operation only    *)
(* follows a state that is in flight.                                       *)
ActionReply ==
  LET r == action.role IN
  /\ action.pc = "accepted"
  /\ \E st \in {action.kind, opState[action.op]} :
       IF st \in InFlight /\ opLease[r] \in {NoOp, action.op}
       THEN /\ opLease' = [opLease EXCEPT ![r] = action.op]
            /\ paused' = TRUE
       ELSE UNCHANGED <<opLease, paused>>
  /\ action' = NoAction
  /\ UNCHANGED <<lockOwner, sockets, runner, tasks, poll, broker, device,
                 happened>>

(* The reply does not arrive within timeout_seconds: the request fails with *)
(* DEVICE_LIFECYCLE_UNAVAILABLE and there is no begin_operation.            *)
ActionReplyLost ==
  /\ action.pc = "accepted"
  /\ Happens("lost reply")
  /\ action' = NoAction
  /\ UNCHANGED <<control, runner, tasks, poll, broker, device>>

-----------------------------------------------------------------------------
(* The broker's workers, _run_operation and _finish, and the emulators.     *)
Working(r, kind) == busy[r] /\ opState[latest[r]] = kind

(* What an operation, or somebody at the host, does to the emulator.        *)
PowerOn(r) ==
  /\ ManualPower \/ Working(r, "STARTING")
  /\ device[r] = "STOPPED"
  /\ device' = [device EXCEPT ![r] = "STARTING"]
  /\ UNCHANGED <<control, action, runner, tasks, poll, broker, happened>>

Booted(r) ==
  /\ device[r] = "STARTING"
  /\ device' = [device EXCEPT ![r] = "RUNNING"]
  /\ UNCHANGED <<control, action, runner, tasks, poll, broker, happened>>

PowerOff(r) ==
  /\ ManualPower \/ Working(r, "STOPPING")
  /\ device[r] # "STOPPED"
  /\ device' = [device EXCEPT ![r] = "STOPPED"]
  /\ UNCHANGED <<control, action, runner, tasks, poll, broker, happened>>

(* Success needs the emulator in the wanted state; failure (a timeout, a    *)
(* command that fails) is possible at any time, a launch failure only once  *)
(* the emulator is up.                                                      *)
Outcomes(r) ==
  {"ERROR"}
  \cup (IF opState[latest[r]] = "STARTING" /\ device[r] = "RUNNING"
        THEN {"RUNNING", "LAUNCH_FAILED"} ELSE {})
  \cup (IF opState[latest[r]] = "STOPPING" /\ device[r] = "STOPPED"
        THEN {"STOPPED"} ELSE {})

Reported(st) == IF st = "LAUNCH_FAILED" THEN "ERROR" ELSE st

Finish(r) ==
  /\ busy[r]
  /\ \E st \in Outcomes(r) :
       /\ opState' = [opState EXCEPT ![latest[r]] = st]
       /\ saved' = [saved EXCEPT ![r] = Reported(st)]
  /\ busy' = [busy EXCEPT ![r] = FALSE]
  /\ UNCHANGED <<control, action, runner, tasks, poll, latest, device,
                 happened>>

-----------------------------------------------------------------------------
(* devices() for one role, and what lifecycle_health_by_role makes of it.   *)

(* The look at busy, state and latest operation under the broker's lock.    *)
PollRead(p, r) ==
  /\ poll[p].pc = "idle"
  /\ poll' = [poll EXCEPT ![p] =
                [pc   |-> IF busy[r] THEN "reply" ELSE "detect",
                 role |-> r, was |-> saved[r], op |-> latest[r],
                 st   |-> saved[r], heard |-> TRUE]]
  /\ UNCHANGED <<control, action, runner, tasks, broker, device, happened>>

(* _detect_state, outside the lock.                                         *)
PollDetect(p) ==
  /\ poll[p].pc = "detect"
  /\ \E st \in {device[poll[p].role]}
                 \cup (IF UnknownDetect THEN {"UNKNOWN"} ELSE {}) :
       poll' = [poll EXCEPT ![p] = [@ EXCEPT !.pc = "write", !.st = st]]
  /\ UNCHANGED <<control, action, runner, tasks, broker, device, happened>>

(* The state to report, and the write to _states: a launch failure that     *)
(* resolved itself, an error that sticks, or whatever was detected.         *)
Answer(q, st) == IF q.heard THEN [q EXCEPT !.pc = "reply", !.st = st]
                            ELSE NoPoll

PollWrite(p) ==
  LET r == poll[p].role
      o == poll[p].op
      failed(errors) ==
        poll[p].was = "ERROR" /\ o # NoOp /\ opState[o] \in errors
      recoverable == poll[p].st = "RUNNING" /\ failed({"LAUNCH_FAILED"})
  IN
  /\ poll[p].pc = "write"
  /\ \/ /\ recoverable
        /\ poll' = [poll EXCEPT ![p] = Answer(@, "RUNNING")]
        /\ saved' = [saved EXCEPT ![r] = "RUNNING"]
        /\ opState' = [opState EXCEPT ![o] = IF latest[r] = o THEN "RUNNING"
                                                              ELSE @]
     \/ /\ failed(Failed)
        /\ poll' = [poll EXCEPT ![p] = Answer(@, "ERROR")]
        /\ UNCHANGED <<saved, opState>>
     \/ /\ ~failed(Failed)
        /\ poll' = [poll EXCEPT ![p] = Answer(@, @.st)]
        /\ saved' = [saved EXCEPT ![r] = poll[p].st]
        /\ UNCHANGED opState
  /\ UNCHANGED <<control, action, runner, tasks, busy, latest, device,
                 happened>>

(* reconcile_operation with the reported state st of operation o, and its   *)
(* mutants: any final report ends the lease; an error does not.             *)
Reconciled(r, o, st, settled, anyOp) ==
  LET current == opLease[r] IN
  IF st \in InFlight /\ o # NoOp /\ current \in {NoOp, o}
  THEN opLease' = [opLease EXCEPT ![r] = o] /\ paused' = TRUE
  ELSE IF st \in settled /\ current # NoOp /\ (anyOp \/ o = current)
  THEN opLease' = [opLease EXCEPT ![r] = NoOp] /\ UNCHANGED paused
  ELSE UNCHANGED <<opLease, paused>>

ReconcileMutant(r, o, st) == Reconciled(r, o, st, Settled, TRUE)

ReconcileMutant2(r, o, st) ==
  Reconciled(r, o, st, Settled \ {"ERROR"}, FALSE)

Reconcile(r, o, st) == Reconciled(r, o, st, Settled, FALSE)

(* The reply reaches the API, which waits for the gate.                     *)
PollReply(p) ==
  /\ poll[p].pc = "reply"
  /\ GateFree
  /\ Reconcile(poll[p].role, poll[p].op, poll[p].st)
  /\ poll' = [poll EXCEPT ![p] = NoPoll]
  /\ UNCHANGED <<lockOwner, sockets, action, runner, tasks, broker, device,
                 happened>>

(* The request times out; the broker's thread goes on with what it does.    *)
Unheard(q) == IF q.pc = "reply" THEN NoPoll ELSE [q EXCEPT !.heard = FALSE]

PollLost(p) ==
  /\ "lost list" \in Faults
  /\ poll[p].pc # "idle"
  /\ poll[p].heard
  /\ poll' = [poll EXCEPT ![p] = Unheard(@)]
  /\ UNCHANGED <<control, action, runner, tasks, broker, device, happened>>

-----------------------------------------------------------------------------
(* Restarts, at most one of each process.  RunnerControl is new: nothing is *)
(* paused, locked or leased, and recover_running queues every RUNNING task. *)
(* What a thread of the broker is doing it still does; its reply is lost.   *)
RestartApi ==
  /\ "API restart" \notin happened
  /\ Happens("API restart")
  /\ paused' = FALSE
  /\ lockOwner' = NoSession
  /\ sockets' = [s \in Sessions |-> 0]
  /\ opLease' = [r \in Roles |-> NoOp]
  /\ action' = NoAction
  /\ runner' = NoTask
  /\ tasks' = {}
  /\ poll' = [p \in Pollers |-> IF poll[p].pc = "idle" THEN NoPoll
                                                       ELSE Unheard(poll[p])]
  /\ UNCHANGED <<broker, device>>

(* The broker forgets its operations and its daemon threads end with it.    *)
RestartBroker ==
  /\ "broker restart" \notin happened
  /\ Happens("broker restart")
  /\ busy' = [r \in Roles |-> FALSE]
  /\ saved' = [r \in Roles |-> "UNKNOWN"]
  /\ latest' = [r \in Roles |-> NoOp]
  /\ opState' = [o \in Ops |-> IF opState[o] \in InFlight THEN "ERROR"
                                                          ELSE opState[o]]
  /\ action' = NoAction
  /\ poll' = [p \in Pollers |-> IF poll[p].pc = "reply" THEN poll[p]
                                                        ELSE NoPoll]
  /\ UNCHANGED <<control, runner, tasks, device>>

-----------------------------------------------------------------------------
Init ==
  /\ paused = FALSE
  /\ lockOwner = NoSession
  /\ sockets = [s \in Sessions |-> 0]
  /\ opLease = [r \in Roles |-> NoOp]
  /\ action = NoAction
  /\ runner = NoTask
  /\ tasks = {}
  /\ poll = [p \in Pollers |-> NoPoll]
  /\ busy = [r \in Roles |-> FALSE]
  /\ saved = [r \in Roles |-> "UNKNOWN"]
  /\ latest = [r \in Roles |-> NoOp]
  /\ opState = [o \in Ops |-> "STOPPED"]
  /\ device \in [Roles -> {"STOPPED", "RUNNING"}]
  /\ happened = {}

AdminNext ==
  \/ \E s \in Sessions :
       \/ Lock(s) \/ Release(s) \/ DisconnectSession(s)
       \/ RegisterSocket(s) \/ UnregisterSocket(s)
       \/ \E r \in Roles, kind \in InFlight : BeginAction(s, r, kind)
  \/ PauseQueue \/ ResumeQueue
  \/ \E o \in Ops : SubmitOp(o)
  \/ SubmitFails \/ ActionReply \/ ActionReplyLost

RunnerNext ==
  \/ \E closed, bound \in BOOLEAN :
       Claim(closed, bound) \/ ClaimLost(closed, bound)
  \/ Branch \/ FinishTask \/ NeedsAdmin \/ PauseForAdmin \/ HideTask

BrokerNext ==
  \/ \E r \in Roles : PowerOn(r) \/ Booted(r) \/ PowerOff(r) \/ Finish(r)
  \/ \E p \in Pollers, r \in Roles : PollRead(p, r)
  \/ \E p \in Pollers : PollDetect(p) \/ PollWrite(p)
                        \/ PollReply(p) \/ PollLost(p)

Next == AdminNext \/ RunnerNext \/ BrokerNext \/ RestartApi \/ RestartBroker

Spec == Init /\ [][Next]_vars

(* The broker bounds every operation by its timeouts, an emulator that is   *)
(* booting gets there, requests end, and an administrator page that shows   *)
(* an operation in flight keeps polling.  The gate is free again and again, *)
(* so a report that waits for it gets it.                                   *)
Fairness ==
  /\ WF_vars(ActionReply)
  /\ \A r \in Roles : WF_vars(Finish(r)) /\ WF_vars(Booted(r))
  /\ \A p \in Pollers :
       /\ \A r \in Roles : SF_vars(PollRead(p, r))
       /\ WF_vars(PollDetect(p)) /\ WF_vars(PollWrite(p))
       /\ SF_vars(PollReply(p))

FairSpec == Spec /\ Fairness

-----------------------------------------------------------------------------
ActionState == [pc : {"none", "submit", "accepted"},
                by : Sessions \cup {NoSession}, role : Roles \cup {NoOp},
                op : Ops \cup {NoOp}, kind : InFlight]
PollState == [pc : {"idle", "detect", "write", "reply"},
              role : Roles \cup {NoOp}, was : States, op : Ops \cup {NoOp},
              st : States, heard : BOOLEAN]
RunnerState == [pc : {"idle", "claimed", "network", "device", "waiting"},
                closed : BOOLEAN]

(* The shape of the control, the broker and the exchanges between them.     *)
TypeOK ==
  /\ paused \in BOOLEAN
  /\ lockOwner \in Sessions \cup {NoSession}
  /\ sockets \in [Sessions -> Nat]
  /\ opLease \in [Roles -> Ops \cup {NoOp}]
  /\ action \in ActionState
  /\ runner \in RunnerState
  /\ tasks \subseteq {"held", "left"}
  /\ poll \in [Pollers -> PollState]
  /\ busy \in [Roles -> BOOLEAN]
  /\ saved \in [Roles -> States]
  /\ latest \in [Roles -> Ops \cup {NoOp}]
  /\ opState \in [Ops -> OpStates]
  /\ device \in [Roles -> {"STOPPED", "STARTING", "RUNNING"}]
  /\ happened \subseteq Faults

(* A device in the hands of an administrator or of an operation means a     *)
(* paused queue, whatever interleaving of locks, streams that close, late   *)
(* reports and resumptions led there.                                       *)
OwnedMeansPaused ==
  lockOwner # NoSession \/ HasOperation => paused

(* "Hold device ownership and idle guarantees through one host action":     *)
(* while a start or stop is being submitted, its session owns the lock, the *)
(* queue is paused, no other operation is leased and no task is shown as    *)
(* RUNNING; nor does the runner hold one, unless a task it held was hidden. *)
GateHolds ==
  action.pc # "none" =>
    /\ lockOwner = action.by /\ paused /\ ~HasOperation /\ ~HasRunningTask
    /\ RunnerBusy => "hidden task" \in happened

(* No detection was overtaken, no reply to a submission lost, no task       *)
(* hidden, and the API did not restart.                                     *)
Undisturbed == happened \subseteq {"lost result", "broker restart"}

(* The runner never drives the devices while the broker starts or stops     *)
(* one, in an undisturbed run.                                              *)
DeviceExclusive ==
  Undisturbed => \A r \in Roles : busy[r] => runner.pc # "device"

(* "Submission ownership lasts through the broker's matching terminal       *)
(* state": in an undisturbed run an operation in flight keeps its lease.    *)
NoEarlyRelease ==
  [][Undisturbed' => \A r \in Roles :
       (opLease[r] # NoOp /\ opState[opLease[r]] \in InFlight)
         => opLease'[r] = opLease[r]]_vars

(* The promise as the design states it, without that condition.             *)
OwnershipLasts ==
  [][\A r \in Roles :
       (opLease[r] # NoOp /\ opState[opLease[r]] \in InFlight)
         => opLease'[r] = opLease[r]]_vars

(* An operation does not own the devices forever: polling ends its lease.   *)
OperationLeaseEnds ==
  \A r \in Roles, o \in Ops : opLease[r] = o ~> opLease[r] # o
==============================================================================
