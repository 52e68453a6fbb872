------------------------------ MODULE MemoryStore ------------------------------
(***************************************************************************)
(* InMemoryStreams (queue.py): the task store of a development service,    *)
(* which promises what the Redis store promises.  An ordinary task is      *)
(* named by its symbol: submit_or_refresh, the only way in, keeps one task *)
(* per symbol, so deduplicate_by_symbol finds nothing and no alias is ever *)
(* written.  A claimed ordinary task keeps its place in the queue; only    *)
(* its status says that it no longer waits.  Every method runs under the   *)
(* store's lock, and those that do not are called by the only runner.      *)
(***************************************************************************)
EXTENDS Naturals, Sequences, FiniteSets, Selection

CONSTANTS MemSymbols,     (* symbols people submit                          *)
          MemAcceptances, (* ids of the tasks a deployment binds            *)
          MemOwners,      (* owner tokens of deployments                    *)
          MemPendingCap,
          MemNone

(* Who holds the queue, and the task bound to the lease.                    *)
MemLease == [owner : MemOwners, bound : MemAcceptances \cup {MemNone}]

ASSUME MemAssumption ==
  /\ MemPendingCap \in Nat \ {0}
  /\ MemNone \notin MemSymbols \cup MemAcceptances \cup MemOwners
  /\ MemNone \notin MemLease
  /\ MemSymbols \cap MemAcceptances = {}

VARIABLES mtask,    (* the status of each task, "absent" before it exists   *)
          mowner,   (* the owner digest an acceptance task was marked with  *)
          mfifo,    (* task ids, claimed ordinary ones included             *)
          mlease,   (* the live deployment lease, or MemNone                *)
          mheld     (* the task the runner executes, or MemNone             *)

mvars == <<mtask, mowner, mfifo, mlease, mheld>>

MemIds == MemSymbols \cup MemAcceptances
MemActive == {"QUEUED", "RUNNING", "WAITING_ADMIN"}
MemTerminal == {"COMPLETED", "PARTIAL", "MARKET_SNAPSHOT", "FAILED"}

MemInit ==
  /\ mtask = [t \in MemIds |-> "absent"]
  /\ mowner = [t \in MemAcceptances |-> MemNone]
  /\ mfifo = <<>> /\ mlease = MemNone /\ mheld = MemNone

MemPending == Cardinality({t \in MemIds : mtask[t] \in MemActive})
MemLeased == mlease # MemNone
MemBound == IF MemLeased THEN mlease.bound ELSE MemNone

ToTail(t) == Append(Keep(mfifo, MemIds \ {t}), t)

(* POST /api/v1/jobs: a new symbol enters, a finished one starts afresh, an *)
(* active one is returned as it is.                                         *)
MemSubmit(t) ==
  /\ mtask[t] \notin MemActive
  /\ MemPending < MemPendingCap
  /\ mtask' = [mtask EXCEPT ![t] = "QUEUED"]
  /\ mfifo' = ToTail(t)
  /\ UNCHANGED <<mowner, mlease, mheld>>

(* The administrator repeats a failed task or resumes a waiting one; the    *)
(* cap is not asked.                                                        *)
MemRequeue(t) ==
  /\ mtask[t] \in {"FAILED", "WAITING_ADMIN"}
  /\ mtask' = [mtask EXCEPT ![t] = "QUEUED"]
  /\ mfifo' = ToTail(t)
  /\ UNCHANGED <<mowner, mlease, mheld>>

(* The task bound by the live lease, if it is the lease holder's and waits. *)
BoundClaim ==
  LET t == mlease.bound
  IN  {b \in {t} \ {MemNone} :
         mowner[b] = mlease.owner /\ mtask[b] = "QUEUED"}

(* The ordinary tasks that wait, in the order of the queue.                 *)
QueuedOrdinary == {t \in MemSymbols : mtask[t] = "QUEUED"}
MemWaiting == Keep(mfifo, QueuedOrdinary)
OrdinaryClaim == IF MemWaiting = <<>> THEN {} ELSE {Head(MemWaiting)}

MemClaimableMutant ==
  IF MemLeased /\ mlease.bound # MemNone THEN BoundClaim ELSE OrdinaryClaim

MemClaimable == IF MemLeased THEN BoundClaim ELSE OrdinaryClaim

MemClaim ==
  /\ mheld = MemNone
  /\ \E t \in MemClaimable :
       /\ mtask' = [mtask EXCEPT ![t] = "RUNNING"]
       /\ mheld' = t
       /\ mfifo' = IF MemLeased THEN Keep(mfifo, MemIds \ {t}) ELSE mfifo
  /\ UNCHANGED <<mowner, mlease>>

(* The runner's last call about its task: transition, complete_result or    *)
(* complete_market_snapshot.  A task removed meanwhile is a KeyError.       *)
MemFinish ==
  /\ mheld # MemNone
  /\ \/ /\ mtask[mheld] = "absent"
        /\ UNCHANGED mtask
     \/ /\ mtask[mheld] = "RUNNING"
        /\ \E s \in MemTerminal \cup {"WAITING_ADMIN"} :
             mtask' = [mtask EXCEPT ![mheld] = s]
  /\ mheld' = MemNone
  /\ UNCHANGED <<mowner, mfifo, mlease>>

(* The application is stopped and started over the same store, whose        *)
(* lifespan recovers running tasks: they return to their places.            *)
MemRestart ==
  /\ \E t \in MemIds : mtask[t] = "RUNNING"
  /\ mtask' = [t \in MemIds |->
                 IF mtask[t] = "RUNNING" THEN "QUEUED" ELSE mtask[t]]
  /\ mheld' = MemNone
  /\ UNCHANGED <<mowner, mfifo, mlease>>

(* has_running_task, which acquire_deployment_lease repeats.                *)
MemBusy == \E t \in MemIds : mtask[t] = "RUNNING"

MemAcquire(o) ==
  /\ ~MemLeased
  /\ ~MemBusy
  /\ mlease' = [owner |-> o, bound |-> MemNone]
  /\ UNCHANGED <<mtask, mowner, mfifo, mheld>>

(* Nothing renewed the lease for its time to live.                          *)
MemExpire ==
  /\ MemLeased
  /\ mlease' = MemNone
  /\ UNCHANGED <<mtask, mowner, mfifo, mheld>>

(* A first bind adds the deployment's own task, refused at the cap.         *)
MemBind(o, t) ==
  /\ MemLeased
  /\ mlease.owner = o /\ mlease.bound = MemNone
  /\ mtask[t] = "absent"
  /\ MemPending < MemPendingCap
  /\ mtask' = [mtask EXCEPT ![t] = "QUEUED"]
  /\ mowner' = [mowner EXCEPT ![t] = o]
  /\ mfifo' = Append(mfifo, t)
  /\ mlease' = [mlease EXCEPT !.bound = t]
  /\ UNCHANGED mheld

(* A later bind repeats the bound task once it has ended.                   *)
MemRebind(o) ==
  /\ MemLeased
  /\ mlease.owner = o /\ mlease.bound # MemNone
  /\ mtask[mlease.bound] \in MemTerminal
  /\ mowner[mlease.bound] = o
  /\ MemPending < MemPendingCap
  /\ mtask' = [mtask EXCEPT ![mlease.bound] = "QUEUED"]
  /\ mfifo' = ToTail(mlease.bound)
  /\ UNCHANGED <<mowner, mlease, mheld>>

(* _remove_maintenance_task_locked: the task, its place and its events.     *)
Dropped(gone) ==
  /\ mtask' = [t \in MemIds |-> IF t \in gone THEN "absent" ELSE mtask[t]]
  /\ mowner' = [t \in MemAcceptances |->
                  IF t \in gone THEN MemNone ELSE mowner[t]]
  /\ mfifo' = Keep(mfifo, MemIds \ gone)

(* The holder gives the lease back; its task must still be there.           *)
MemRelease(o) ==
  /\ MemLeased
  /\ mlease.owner = o
  /\ mlease.bound # MemNone =>
       mtask[mlease.bound] # "absent" /\ mowner[mlease.bound] = o
  /\ Dropped({mlease.bound} \ {MemNone})
  /\ mlease' = MemNone
  /\ UNCHANGED mheld

(* The retention loop removes the tasks of deployments that are no more,    *)
(* running ones included.                                                   *)
MemCleanup ==
  LET gone == {t \in MemAcceptances : mtask[t] # "absent"} \ {MemBound}
  IN  /\ gone # {}
      /\ Dropped(gone)
      /\ UNCHANGED <<mlease, mheld>>

MemNext ==
  \/ \E t \in MemSymbols : MemSubmit(t) \/ MemRequeue(t)
  \/ MemClaim \/ MemFinish \/ MemRestart
  \/ \E o \in MemOwners :
       \/ MemAcquire(o) \/ MemRebind(o) \/ MemRelease(o)
       \/ \E t \in MemAcceptances : MemBind(o, t)
  \/ MemExpire \/ MemCleanup

MemSpec == MemInit /\ [][MemNext]_mvars

(* The shape of the tasks, the list, the lease and the runner.              *)
MemTypeOK ==
  /\ mtask \in [MemIds -> MemActive \cup MemTerminal \cup {"absent"}]
  /\ mowner \in [MemAcceptances -> MemOwners \cup {MemNone}]
  /\ mfifo \in Seq(MemIds)
  /\ mlease \in MemLease \cup {MemNone}
  /\ mheld \in MemIds \cup {MemNone}

(* The development store keeps the promise of FifoQueue: ordinary tasks     *)
(* start in the order they were queued, an interrupted task comes first     *)
(* again although it never left its place, nothing ordinary starts while a  *)
(* deployment holds the queue, and none takes it while ordinary work runs.  *)
MemQueue == INSTANCE FifoQueue WITH
  Jobs <- MemSymbols,
  waiting <- MemWaiting,
  started <- {t \in MemSymbols : mtask[t] = "RUNNING"},
  maintenance <- MemLeased

MemKeepsOrder == MemQueue!QSpec
==============================================================================
