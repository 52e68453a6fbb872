------------------------------- MODULE RunnerLoop -------------------------------
(***************************************************************************)
(* How the runner loop of the API learns that there is work: RunnerWake    *)
(* and runner_loop (api.py).                                               *)
(*                                                                         *)
(* A request stores a task (or resumes the queue) first and notifies       *)
(* afterwards, from a thread of its own.  The notification is a callback   *)
(* that the event loop runs later.  The loop clears the event, lets        *)
(* run_once claim in another thread, and waits for the event when nothing  *)
(* was claimed, at most for the poll interval.                             *)
(***************************************************************************)
EXTENDS Integers, FiniteSets

CONSTANTS Requests,  (* requests that are served at the same time           *)
          MaxQueue,  (* bound: queued tasks                                 *)
          Leases,    (* do deployments freeze the queue?                    *)
          Faults     (* may run_once fail, before a claim or after it?      *)

ASSUME LoopAssumption ==
  /\ MaxQueue \in Nat \ {0}
  /\ Leases \in BOOLEAN
  /\ Faults \in BOOLEAN

VARIABLES queue,    (* how many tasks are queued                            *)
          paused,   (* RunnerControl.queue_paused                           *)
          frozen,   (* a deployment lease is live in the store              *)
          request,  (* how far each request is                              *)
          event,    (* the asyncio event of RunnerWake                      *)
          loop,     (* where runner_loop is                                 *)
          missed    (* history: since the loop began its round, a lease has *)
                    (* ended or run_once failed; nobody notifies of that    *)

loopVars == <<queue, paused, frozen, request, event, loop, missed>>

LoopClaimable == queue > 0 /\ ~paused /\ ~frozen

-----------------------------------------------------------------------------
(* A submission, a retry or the resumption of a waiting job: the task is    *)
(* queued durably before the runner is notified.                            *)
Store(q) ==
  /\ request[q] = "idle"
  /\ queue < MaxQueue
  /\ queue' = queue + 1
  /\ request' = [request EXCEPT ![q] = "stored"]
  /\ UNCHANGED <<paused, frozen, event, loop, missed>>

(* The route that resumes the queue; the mutant forgets to notify.          *)
ResumeMutant(q) ==
  /\ request[q] = "idle"
  /\ paused
  /\ paused' = FALSE
  /\ UNCHANGED <<queue, frozen, request, event, loop, missed>>

Resume(q) ==
  /\ request[q] = "idle"
  /\ paused
  /\ paused' = FALSE
  /\ request' = [request EXCEPT ![q] = "stored"]
  /\ UNCHANGED <<queue, frozen, event, loop, missed>>

(* notify: call_soon_threadsafe(event.set)                                  *)
Notify(q) ==
  /\ request[q] = "stored"
  /\ request' = [request EXCEPT ![q] = "scheduled"]
  /\ UNCHANGED <<queue, paused, frozen, event, loop, missed>>

(* The event loop runs the callback.                                        *)
SetEvent(q) ==
  /\ request[q] = "scheduled"
  /\ request' = [request EXCEPT ![q] = "idle"]
  /\ event' = TRUE
  /\ UNCHANGED <<queue, paused, frozen, loop, missed>>

Pause ==
  /\ paused' = TRUE
  /\ UNCHANGED <<queue, frozen, request, event, loop, missed>>

(* A deployment takes, or gives back, the queue; nobody notifies.           *)
Freeze ==
  /\ Leases
  /\ ~frozen
  /\ frozen' = TRUE
  /\ UNCHANGED <<queue, paused, request, event, loop, missed>>

Thaw ==
  /\ frozen
  /\ frozen' = FALSE
  /\ missed' = TRUE
  /\ UNCHANGED <<queue, paused, request, event, loop>>

-----------------------------------------------------------------------------
(* runner_wake.clear() at the top of the loop, then run_once in a thread.   *)
Clear ==
  /\ loop = "top"
  /\ event' = FALSE
  /\ loop' = "claim"
  /\ missed' = FALSE
  /\ UNCHANGED <<queue, paused, frozen, request>>

(* run_once claims a task and works on it; afterwards the loop goes round   *)
(* without waiting.  The mutant does not notice that the list is empty.     *)
ClaimTaskMutant ==
  /\ loop = "claim"
  /\ ~paused /\ ~frozen
  /\ queue' = queue - 1
  /\ loop' = "work"
  /\ UNCHANGED <<paused, frozen, request, event, missed>>

ClaimTask ==
  /\ loop = "claim"
  /\ LoopClaimable
  /\ queue' = queue - 1
  /\ loop' = "work"
  /\ UNCHANGED <<paused, frozen, request, event, missed>>

EndWork ==
  /\ loop = "work"
  /\ loop' = "top"
  /\ UNCHANGED <<queue, paused, frozen, request, event, missed>>

(* run_once fails while it works; the loop waits although there may be more *)
(* to do.                                                                   *)
WorkFails ==
  /\ Faults
  /\ loop = "work"
  /\ loop' = "none"
  /\ missed' = (missed \/ LoopClaimable)
  /\ UNCHANGED <<queue, paused, frozen, request, event>>

(* run_once finds nothing it may claim, or fails; the thread is on its way  *)
(* back to the loop.                                                        *)
NothingClaimed ==
  /\ loop = "claim"
  /\ ~LoopClaimable \/ Faults
  /\ loop' = "none"
  /\ missed' = (missed \/ LoopClaimable)
  /\ UNCHANGED <<queue, paused, frozen, request, event>>

(* The loop starts to wait.  The mutant clears the event at this point.     *)
BeginWaitMutant ==
  /\ loop = "none"
  /\ loop' = "wait"
  /\ event' = FALSE
  /\ UNCHANGED <<queue, paused, frozen, request, missed>>

BeginWait ==
  /\ loop = "none"
  /\ loop' = "wait"
  /\ UNCHANGED <<queue, paused, frozen, request, event, missed>>

Wake ==
  /\ loop = "wait"
  /\ event
  /\ loop' = "top"
  /\ UNCHANGED <<queue, paused, frozen, request, event, missed>>

(* The poll interval is over.  The mutant has no such interval.             *)
PollIntervalMutant == FALSE /\ UNCHANGED loopVars

PollInterval ==
  /\ loop = "wait"
  /\ loop' = "top"
  /\ UNCHANGED <<queue, paused, frozen, request, event, missed>>

-----------------------------------------------------------------------------
LoopInit ==
  /\ queue \in 0..MaxQueue
  /\ paused = FALSE
  /\ frozen \in {FALSE, Leases}
  /\ request = [q \in Requests |-> "idle"]
  /\ event = FALSE
  /\ loop = "top"
  /\ missed = FALSE

LoopNext ==
  \/ \E q \in Requests : Store(q) \/ Resume(q) \/ Notify(q) \/ SetEvent(q)
  \/ Pause \/ Freeze \/ Thaw
  \/ Clear \/ ClaimTask \/ EndWork \/ WorkFails \/ NothingClaimed
  \/ BeginWait \/ Wake \/ PollInterval

LoopSpec == LoopInit /\ [][LoopNext]_loopVars

(* Requests and the loop go on by themselves, and a task does not take      *)
(* forever.  That the poll interval ends is not part of it.                 *)
LoopFairness ==
  /\ \A q \in Requests : WF_loopVars(Notify(q)) /\ WF_loopVars(SetEvent(q))
  /\ WF_loopVars(Clear) /\ WF_loopVars(EndWork) /\ WF_loopVars(BeginWait) /\ WF_loopVars(Wake)
  /\ WF_loopVars(ClaimTask \/ NothingClaimed)

LoopFairSpec == LoopSpec /\ LoopFairness

-----------------------------------------------------------------------------
(* The shape of the queue, the requests, the event and the loop.            *)
LoopTypeOK ==
  /\ queue \in 0..MaxQueue
  /\ {paused, frozen, event, missed} \subseteq BOOLEAN
  /\ request \in [Requests -> {"idle", "stored", "scheduled"}]
  /\ loop \in {"top", "claim", "work", "none", "wait"}

(* No lost wake-up: when the loop waits, or is about to, although a task    *)
(* could be claimed, the event is set, or a request is still about to set   *)
(* it, or nobody notifies of what made the task claimable.                  *)
NoLostWakeup ==
  loop \in {"none", "wait"} /\ LoopClaimable =>
    event \/ missed \/ \E q \in Requests : request[q] # "idle"

(* So the runner reacts to a request without ever using the poll interval:  *)
(* a claimable task leads to a claim unless the queue gets closed, or       *)
(* something happens that nobody notifies of.                               *)
PromptClaim ==
  (LoopClaimable /\ ~missed) ~> (loop = "work" \/ paused \/ frozen \/ missed)

(* Where nobody notifies, the poll interval still leads to a claim, once    *)
(* the queue stays open, provided that not every claim fails.               *)
PolledClaim ==
  WF_loopVars(PollInterval) /\ SF_loopVars(ClaimTask) =>
    (<>[](~paused /\ ~frozen) => (queue > 0 ~> loop = "work"))
==============================================================================
