------------------------------- MODULE TaskStore -------------------------------
(***************************************************************************)
(* The Redis task store of the Level2 service (RedisStreamsStore) together *)
(* with the actors that call it: public and administrator requests, the    *)
(* single Level2Runner, the retention loop, the host deployment script     *)
(* that holds the maintenance lease, and API restarts.                     *)
(*                                                                         *)
(* Each Lua script is one atomic action.  The Python operations that read  *)
(* a task and write it back in a second command (transition,               *)
(* complete_result, complete_market_snapshot and cleanup) are two actions  *)
(* with the value they read kept in between.                               *)
(*                                                                         *)
(* Timestamps are abstracted: where the code orders by created_at, the     *)
(* model allows every order.  The event stream is left out.                *)
(***************************************************************************)
EXTENDS Integers, FiniteSets, Sequences, SequencesExt, Selection

CONSTANTS Ids,           (* task identifiers (secrets.token_urlsafe)          *)
          Symbols,       (* stock codes                                       *)
          AccSymbol,     (* 601872, the code of the fixed acceptance task     *)
          Owners,        (* deployment owner tokens                           *)
          NoId, NoOwner, (* "absent" values                                   *)
          Cap,           (* pending_cap                                       *)
          Results,       (* terminal statuses the sources produce             *)
          CaptureExpiry, (* do stored captures get older than 24 hours?       *)
          RedisFaults,   (* may a Redis call of the runner fail or time out?  *)
          AdminRetry,    (* is the administrator's retry route used?          *)
          OldRelease,    (* start from data of an earlier release?            *)
          MaxCrashes,    (* bound: API restarts                               *)
          MaxDrift,      (* bound: how far the counter may drift from 0..Cap  *)
          MaxList        (* bound: length of the list a task may return to    *)

AllResults == {"COMPLETED", "PARTIAL", "MARKET_SNAPSHOT"}

ASSUME ConstantAssumption ==
  /\ IsFiniteSet(Ids)
  /\ AccSymbol \in Symbols
  /\ NoId \notin Ids
  /\ NoOwner \notin Owners
  /\ Cap \in Nat \ {0}
  /\ Results \subseteq AllResults
  /\ {CaptureExpiry, RedisFaults, AdminRetry, OldRelease} \subseteq BOOLEAN
  /\ MaxCrashes \in Nat
  /\ MaxDrift \in Nat
  /\ MaxList \in Nat

VARIABLES
  task,    (* <stream>:task:<id>, the payload of every task                 *)
  index,   (* <stream>:tasks, the set of task ids                           *)
  fifo,    (* <stream>:pending, the list of queued ids                      *)
  symbols, (* <stream>:symbols, the task of a stock code                    *)
  aliases, (* <stream>:aliases, where a removed public id points            *)
  count,   (* <stream>:active-count                                         *)
  lease,   (* <stream>:deployment-maintenance                               *)
  api,     (* whether the API process serves requests                       *)
  runner,  (* the runner's local state inside run_once                      *)
  cleaner, (* the retention loop's local state inside cleanup               *)
  crashes  (* API restarts so far                                           *)

store == <<task, index, fifo, symbols, aliases, count>>
vars  == <<task, index, fifo, symbols, aliases, count, lease, api, runner,
           cleaner, crashes>>

-----------------------------------------------------------------------------
(* Payloads.  "READY" is what the retention loop looks for: a stored        *)
(* capture that is not yet marked expired.                                  *)

Active   == {"QUEUED", "RUNNING", "WAITING_ADMIN"}
Terminal == AllResults \cup {"FAILED"}

Payload == [st    : Active \cup Terminal \cup {"ABSENT"},
            sym   : Symbols,
            owner : Owners \cup {NoOwner},
            ready : BOOLEAN]

Absent == [st |-> "ABSENT", sym |-> AccSymbol, owner |-> NoOwner,
           ready |-> FALSE]

NewTaskMutant(s, o) ==
  [st |-> "PENDING", sym |-> s, owner |-> o, ready |-> FALSE]

NewTask(s, o) == [st |-> "QUEUED", sym |-> s, owner |-> o, ready |-> FALSE]

Exists(t)   == task[t].st # "ABSENT"
IsActive(t) == task[t].st \in Active
Done(t)     == task[t].st \in Terminal
Ordinary(t) == Exists(t) /\ task[t].owner = NoOwner
Acceptance(t) == Exists(t) /\ task[t].owner # NoOwner

NoLease  == [owner |-> NoOwner, bound |-> NoId, digest |-> FALSE]
LeaseLive == lease.owner # NoOwner

Idle == [pc |-> "idle", id |-> NoId, rec |-> Absent, wasActive |-> FALSE]

(* Ids are random and never issued twice: an id that nothing in the system  *)
(* mentions stands for one that was never issued.                           *)
Fresh(t) ==
  /\ ~Exists(t)
  /\ t \notin index
  /\ ~Contains(fifo, t)
  /\ \A s \in Symbols : symbols[s] # t
  /\ \A a \in Ids : aliases[a] # t
  /\ aliases[t] = NoId
  /\ lease.bound # t
  /\ runner.id # t
  /\ cleaner.id # t

(* What a startup recovers and what a new lease waits for.                  *)
InterruptedMutant == {}

Interrupted == {t \in index : task[t].st = "RUNNING"}

(* What the lease scripts count by scanning the index. *)
PendingScan == Cardinality({t \in index : IsActive(t)})

(* A public operation on task t is refused for an acceptance task and for   *)
(* whatever task the live lease is bound to.                                *)
Public(t) == Ordinary(t) /\ lease.bound # t

(* _canonical_task and the scripts' better(): an active task is preferred;  *)
(* among equals the timestamps decide, which the model leaves open.         *)
Best(S) == IF \E t \in S : IsActive(t) THEN {t \in S : IsActive(t)} ELSE S

(* ordinary_canonical(symbol, removed): the task the symbol index falls     *)
(* back to when the tasks of R go.                                          *)
OrdinaryCanonicalMutant(s, R) == {NoId}

OrdinaryCanonicalMutant2(s, R) ==
  LET S == {t \in index \ R : Exists(t) /\ task[t].sym = s}
  IN  IF S = {} THEN {NoId} ELSE Best(S)

OrdinaryCanonical(s, R) ==
  LET S == {t \in index \ R : Ordinary(t) /\ task[t].sym = s}
  IN  IF S = {} THEN {NoId} ELSE Best(S)

(* LREM of an id, and LREM followed by RPUSH.                                *)
Unlisted(t) == Keep(fifo, Ids \ {t})

ToBack(t) == Append(Unlisted(t), t)

(* remove_task, for a set R of tasks of the acceptance code.                *)
RemoveTasks(R) ==
  \E c \in OrdinaryCanonical(AccSymbol, R) :
    /\ aliases' = [a \in Ids |-> IF a \in R THEN NoId
                                 ELSE IF aliases[a] \in R THEN c
                                 ELSE aliases[a]]
    /\ symbols' = [symbols EXCEPT ![AccSymbol] = c]
    /\ fifo' = Keep(fifo, Ids \ R)
    /\ task' = [t \in Ids |-> IF t \in R THEN Absent ELSE task[t]]
    /\ index' = index \ R

-----------------------------------------------------------------------------
(* Public and administrator requests.                                       *)

(* submit_or_refresh(task) for a code that has no usable task: the index    *)
(* entry is unusable when it is empty, when its payload is gone, and when   *)
(* it names an acceptance task or the task of the live lease.  At the cap   *)
(* the script answers QUEUE_FULL; the unusable entry it then drops never    *)
(* occurs once the API serves (SymbolIndexSound), so that case is a stutter.*)
Usable(s) == symbols[s] # NoId /\ Public(symbols[s])

SubmitNew(s, t) ==
  /\ api = "UP"
  /\ Fresh(t)
  /\ ~Usable(s)
  /\ count < Cap
  /\ task' = [task EXCEPT ![t] = NewTask(s, NoOwner)]
  /\ index' = index \cup {t}
  /\ fifo' = Append(fifo, t)
  /\ symbols' = [symbols EXCEPT ![s] = t]
  /\ count' = count + 1
  /\ UNCHANGED <<aliases, lease, api, runner, cleaner, crashes>>

(* submit_or_refresh(task) for a code whose task is terminal: the task is   *)
(* reset and queued again under its old id.  (An active one is returned as  *)
(* it is, which changes nothing.)                                           *)
SubmitRefreshMutant(s) ==
  /\ api = "UP"
  /\ Usable(s)
  /\ count < Cap
  /\ task' = [task EXCEPT ![symbols[s]] = NewTask(s, NoOwner)]
  /\ fifo' = ToBack(symbols[s])
  /\ count' = count + 1
  /\ UNCHANGED <<index, symbols, aliases, lease, api, runner, cleaner,
                 crashes>>

SubmitRefresh(s) ==
  /\ api = "UP"
  /\ Usable(s)
  /\ Done(symbols[s])
  /\ count < Cap
  /\ task' = [task EXCEPT ![symbols[s]] = NewTask(s, NoOwner)]
  /\ fifo' = ToBack(symbols[s])
  /\ count' = count + 1
  /\ UNCHANGED <<index, symbols, aliases, lease, api, runner, cleaner,
                 crashes>>

(* refresh_task(task_id), the public retry route.  Unlike a submission it   *)
(* does not remove the id from the list before it appends it.               *)
RefreshTask(t) ==
  /\ api = "UP"
  /\ Public(t)
  /\ Done(t)
  /\ count < Cap
  /\ Len(fifo) < MaxList
  /\ task' = [task EXCEPT ![t] = NewTask(@.sym, NoOwner)]
  /\ fifo' = Append(fifo, t)
  /\ index' = index \cup {t}
  /\ count' = count + 1
  /\ UNCHANGED <<symbols, aliases, lease, api, runner, cleaner, crashes>>

(* retry_failed(task_id), the administrator's retry route: no cap check.    *)
RetryFailed(t) ==
  /\ api = "UP"
  /\ AdminRetry
  /\ Public(t)
  /\ task[t].st = "FAILED"
  /\ count < Cap + MaxDrift
  /\ Len(fifo) < MaxList
  /\ task' = [task EXCEPT ![t].st = "QUEUED"]
  /\ fifo' = Append(fifo, t)
  /\ count' = count + 1
  /\ UNCHANGED <<index, symbols, aliases, lease, api, runner, cleaner,
                 crashes>>

(* requeue_waiting(task_id), the administrator's resume route.  The mutants *)
(* lose the id, or put it in front of the list.                             *)
Resumed(t, list) ==
  /\ api = "UP"
  /\ Public(t)
  /\ task[t].st = "WAITING_ADMIN"
  /\ Len(fifo) < MaxList
  /\ task' = [task EXCEPT ![t].st = "QUEUED"]
  /\ fifo' = list
  /\ UNCHANGED <<index, symbols, aliases, count, lease, api, runner, cleaner,
                 crashes>>

RequeueWaitingMutant(t) == Resumed(t, fifo)

RequeueWaitingMutant2(t) == Resumed(t, <<t>> \o fifo)

RequeueWaiting(t) == Resumed(t, Append(fifo, t))

-----------------------------------------------------------------------------
(* The maintenance lease.                                                   *)

(* acquire_deployment_lease and the host script that stands in for it: the  *)
(* store writes the owner's digest into the lease, the host script does not.*)
AcquireLease(o, digest) ==
  /\ ~LeaseLive
  /\ Interrupted = {}
  /\ lease' = [owner |-> o, bound |-> NoId, digest |-> digest]
  /\ UNCHANGED <<store, api, runner, cleaner, crashes>>

(* renew_deployment_lease: besides extending the TTL it adds the digest.    *)
RenewLease(o) ==
  /\ lease.owner = o
  /\ lease' = [lease EXCEPT !.digest = TRUE]
  /\ UNCHANGED <<store, api, runner, cleaner, crashes>>

(* The TTL of the lease runs out.                                           *)
ExpireLease ==
  /\ LeaseLive
  /\ lease' = NoLease
  /\ UNCHANGED <<store, api, runner, cleaner, crashes>>

(* bind_deployment_acceptance for a lease without a task: a new acceptance  *)
(* task is queued and bound.  The cap is checked by scanning the index, and *)
(* the active count is not incremented.                                     *)
BindNew(o, t) ==
  /\ api = "UP"
  /\ lease.owner = o
  /\ lease.bound = NoId
  /\ Fresh(t)
  /\ PendingScan < Cap
  /\ count > -MaxDrift
  /\ task' = [task EXCEPT ![t] = NewTask(AccSymbol, o)]
  /\ index' = index \cup {t}
  /\ fifo' = Append(fifo, t)
  /\ lease' = [lease EXCEPT !.bound = t, !.digest = TRUE]
  /\ UNCHANGED <<symbols, aliases, count, api, runner, cleaner, crashes>>

(* bind_deployment_acceptance for a lease that has its task: the task gets  *)
(* the owner's mark if an earlier release left it without, leaves the       *)
(* symbol index, and is queued again when it is terminal.                   *)
BindAgain(o) ==
  LET t == lease.bound
      again == Done(t) /\ PendingScan < Cap
  IN
  /\ api = "UP"
  /\ lease.owner = o
  /\ t # NoId
  /\ Exists(t)
  /\ task[t].owner \in {NoOwner, o}
  /\ count > -MaxDrift
  /\ task' = [task EXCEPT ![t] = IF again THEN NewTask(AccSymbol, o)
                                          ELSE [@ EXCEPT !.owner = o]]
  /\ fifo' = IF again THEN ToBack(t) ELSE fifo
  /\ index' = IF again THEN index \cup {t} ELSE index
  /\ symbols' = [symbols EXCEPT ![AccSymbol] = IF @ = t THEN NoId ELSE @]
  /\ lease' = [lease EXCEPT !.digest = TRUE]
  /\ UNCHANGED <<aliases, count, api, runner, cleaner, crashes>>

(* release_deployment_lease: the lease goes and its task with it.  The host *)
(* script does the same, also while the API is down.                        *)
ReleaseLease(o) ==
  /\ lease.owner = o
  /\ \/ lease.bound = NoId /\ UNCHANGED store
     \/ /\ lease.bound # NoId
        /\ Exists(lease.bound)
        /\ task[lease.bound].owner \in {NoOwner, o}
        /\ RemoveTasks({lease.bound})
        /\ UNCHANGED count
  /\ lease' = NoLease
  /\ UNCHANGED <<api, runner, cleaner, crashes>>

-----------------------------------------------------------------------------
(* The runner: next_runnable, then some work, then a result.                *)
(*                                                                         *)
(* The Redis client is built with retry_on_timeout: a command whose reply   *)
(* is lost was executed and is sent again.  A claim sent again is one more  *)
(* claim, after one that left a RUNNING task nobody works on.               *)

Claim(t) ==
  /\ task' = [task EXCEPT ![t].st = "RUNNING"]
  /\ runner' \in {[Idle EXCEPT !.pc = "work", !.id = t]}
                   \cup (IF RedisFaults THEN {Idle} ELSE {})
  /\ UNCHANGED <<index, symbols, aliases, count, lease, api, cleaner, crashes>>

(* Under a live lease only its bound acceptance task can be claimed.        *)
ClaimBound ==
  /\ api = "UP"
  /\ runner.pc = "idle"
  /\ LeaseLive
  /\ lease.digest
  /\ lease.bound # NoId
  /\ task[lease.bound].st = "QUEUED"
  /\ task[lease.bound].owner = lease.owner
  /\ fifo' = Unlisted(lease.bound)
  /\ Claim(lease.bound)

Claimable(t) == Ordinary(t) /\ task[t].st = "QUEUED"

(* Without a lease the list is popped until a queued ordinary task comes    *)
(* up; whatever is popped before it is dropped from the list.               *)
ClaimNext ==
  /\ api = "UP"
  /\ runner.pc = "idle"
  /\ ~LeaseLive
  /\ \E t \in Ids, k \in 1..Len(fifo) :
       /\ fifo[k] = t
       /\ Claimable(t)
       /\ \A j \in 1..(k - 1) : ~Claimable(fifo[j])
       /\ fifo' = SubSeq(fifo, k + 1, Len(fifo))
       /\ Claim(t)

ClaimNothing ==
  /\ api = "UP"
  /\ runner.pc = "idle"
  /\ ~LeaseLive
  /\ fifo # <<>>
  /\ \A k \in 1..Len(fifo) : ~Claimable(fifo[k])
  /\ fifo' = <<>>
  /\ UNCHANGED <<task, index, symbols, aliases, count, lease, api, runner,
                 cleaner, crashes>>

(* _ALLOWED_TRANSITIONS, and the statuses that complete_result and          *)
(* complete_market_snapshot accept, by the status they lead to.             *)
AllowedFrom(st) ==
  CASE st = "FAILED"                   -> Active \cup {"PARTIAL"}
    [] st = "WAITING_ADMIN"            -> {"RUNNING", "PARTIAL"}
    [] st \in {"COMPLETED", "PARTIAL"} -> {"RUNNING", "PARTIAL"}
    [] st = "MARKET_SNAPSHOT"          -> {"RUNNING"}

(* What transition and complete_* make of the payload they read.  A         *)
(* transition keeps the captures; a result brings its own.  WAITING_ADMIN   *)
(* comes from driving the App for a long capture, which an acceptance task  *)
(* never asks for; nor does it ever have a capture.                         *)
Statuses == Results \cup {"FAILED", "WAITING_ADMIN"}

Outcome(t) ==
  LET old == task[t]
  IN  {rec \in [st : Statuses, sym : {old.sym}, owner : {old.owner},
                ready : BOOLEAN] :
         /\ old.st \in AllowedFrom(rec.st)
         /\ rec.st = "MARKET_SNAPSHOT" => ~rec.ready
         /\ rec.st \in {"FAILED", "WAITING_ADMIN"} => rec.ready = old.ready
         /\ Acceptance(t) => ~rec.ready /\ rec.st # "WAITING_ADMIN"}

(* The GET of transition or complete_*; the new payload is built from it.   *)
RunnerRead ==
  /\ runner.pc = "work"
  /\ \E rec \in Outcome(runner.id) :
       runner' = [runner EXCEPT !.pc = "write", !.rec = rec,
                                !.wasActive = IsActive(runner.id)]
  /\ UNCHANGED <<store, lease, api, cleaner, crashes>>

(* The GET finds the task gone or in a status that refuses the outcome: the *)
(* runner gives up on it.                                                   *)
RunnerRefused ==
  /\ runner.pc = "work"
  /\ \E st \in Statuses : task[runner.id].st \notin AllowedFrom(st)
  /\ runner' = Idle
  /\ UNCHANGED <<store, lease, api, cleaner, crashes>>

(* The SET and the counter update of _persist_with_event, in one script;    *)
(* when the reply is lost the script will run once more.                    *)
RunnerPersist ==
  /\ runner.pc = "write"
  /\ task' = [task EXCEPT ![runner.id] = runner.rec]
  /\ count' = count + (IF runner.rec.st \in Active THEN 1 ELSE 0)
                    - (IF runner.wasActive THEN 1 ELSE 0)
  /\ runner' \in {Idle} \cup (IF RedisFaults /\ count \in 1-MaxDrift..Cap
                                THEN {runner} ELSE {})
  /\ UNCHANGED <<index, fifo, symbols, aliases, lease, api, cleaner, crashes>>

(* Redis stays unreachable: the exception ends run_once, except that a      *)
(* result that could not be stored is first turned into a failure.          *)
RunnerFault ==
  /\ RedisFaults
  /\ runner.pc # "idle"
  /\ runner' \in {Idle}
       \cup (IF runner.pc = "write" /\ runner.rec.st \in AllResults
             THEN {[runner EXCEPT !.pc = "fail"]} ELSE {})
  /\ UNCHANGED <<store, lease, api, cleaner, crashes>>

(* The except branches after complete_result and complete_market_snapshot:  *)
(* the task is read again; for a result it must be RUNNING or PARTIAL, for  *)
(* a snapshot the transition table decides.                                 *)
RunnerFallback ==
  LET old  == task[runner.id]
      from == IF runner.rec.st = "MARKET_SNAPSHOT" THEN AllowedFrom("FAILED")
                                                   ELSE {"RUNNING", "PARTIAL"}
  IN
  /\ runner.pc = "fail"
  /\ runner' = IF old.st \in from
               THEN [runner EXCEPT !.pc  = "write",
                                   !.rec = [old EXCEPT !.st = "FAILED"],
                                   !.wasActive = old.st \in Active]
               ELSE Idle
  /\ UNCHANGED <<store, lease, api, cleaner, crashes>>

-----------------------------------------------------------------------------
(* The retention loop: cleanup(now).                                        *)

(* Without a lease, every acceptance task in the index is removed.          *)
CleanupAcceptanceMutant ==
  /\ api = "UP"
  /\ cleaner.pc = "idle"
  /\ RemoveTasks({t \in index : Acceptance(t)})
  /\ UNCHANGED <<count, lease, api, runner, cleaner, crashes>>

CleanupAcceptance ==
  LET targets == {t \in index : Acceptance(t)}
  IN
  /\ api = "UP"
  /\ cleaner.pc = "idle"
  /\ ~LeaseLive
  /\ targets # {}
  /\ RemoveTasks(targets)
  /\ UNCHANGED <<count, lease, api, runner, cleaner, crashes>>

(* The GET of a task whose capture is past its 24 hours.  An index entry    *)
(* without a payload, which this pass would drop, never survives a startup. *)
CleanupRead(t) ==
  /\ api = "UP"
  /\ CaptureExpiry
  /\ cleaner.pc = "idle"
  /\ t \in index
  /\ Ordinary(t)
  /\ task[t].ready
  /\ cleaner' = [pc |-> "write", id |-> t,
                 rec |-> [task[t] EXCEPT !.ready = FALSE]]
  /\ UNCHANGED <<store, lease, api, runner, crashes>>

NoCleaning == [pc |-> "idle", id |-> NoId, rec |-> Absent]

(* _save: the whole payload read earlier is written back.                   *)
CleanupSave ==
  /\ cleaner.pc = "write"
  /\ task' = [task EXCEPT ![cleaner.id] = cleaner.rec]
  /\ cleaner' = NoCleaning
  /\ UNCHANGED <<index, fifo, symbols, aliases, count, lease, api, runner,
                 crashes>>

-----------------------------------------------------------------------------
(* API restarts.                                                            *)

Crash ==
  /\ api = "UP"
  /\ crashes < MaxCrashes
  /\ api' = "DOWN"
  /\ runner' = Idle
  /\ cleaner' = NoCleaning
  /\ crashes' = crashes + 1
  /\ UNCHANGED <<store, lease>>

(* The aliases once every task in the domain of heir is folded into another;*)
(* the mutant forgets the aliases that point at such a task already.        *)
InheritedMutant(heir) ==
  [a \in Ids |-> IF a \in DOMAIN heir THEN heir[a] ELSE aliases[a]]

Inherited(heir) ==
  [a \in Ids |-> IF a \in DOMAIN heir THEN heir[a]
                 ELSE IF aliases[a] \in DOMAIN heir THEN heir[aliases[a]]
                 ELSE aliases[a]]

(* The startup of the lifespan: recover_running, deduplicate_by_symbol and  *)
(* reconcile_active_count, before any request is served.                    *)
Boot ==
  /\ api = "DOWN"
  /\ LET ordinary == {t \in index : Ordinary(t) /\ t # lease.bound}
         group(s) == {t \in ordinary : task[t].sym = s}
         codes    == {s \in Symbols : group(s) # {}}
         excluded == {t \in index : Exists(t) /\ t \notin ordinary}
     IN
     \E order \in SetToSeqs(Interrupted),
        keep \in {f \in [codes -> ordinary] : \A s \in codes :
                                                f[s] \in Best(group(s))} :
       LET gone == ordinary \ {keep[s] : s \in codes}
           heir == [t \in gone |-> keep[task[t].sym]]
       IN
       /\ task' = [t \in Ids |->
                     IF t \in gone THEN Absent
                     ELSE IF t \in Interrupted
                          THEN [task[t] EXCEPT !.st = "QUEUED"]
                     ELSE task[t]]
       /\ fifo' = Keep(order \o fifo, Ids \ gone)
       /\ index' = {t \in index : Exists(t)} \ gone
       /\ aliases' = Inherited(heir)
       /\ symbols' = [s \in Symbols |->
                        IF s \in codes THEN keep[s]
                        ELSE IF symbols[s] \in excluded THEN NoId
                        ELSE symbols[s]]
       /\ count' = Cardinality({t \in index \ gone : IsActive(t)})
  /\ api' = "UP"
  /\ UNCHANGED <<lease, runner, cleaner, crashes>>

-----------------------------------------------------------------------------
EmptyInit ==
  /\ task = [t \in Ids |-> Absent]
  /\ index = {}
  /\ fifo = <<>>
  /\ symbols = [s \in Symbols |-> NoId]
  /\ lease = NoLease

(* Data written by an earlier release: several tasks of one code, index     *)
(* entries without a payload, and a lease, without a digest, whose          *)
(* acceptance task carries no owner mark and is named by the symbol index.  *)
OldPayload == [st : {"QUEUED", "RUNNING", "COMPLETED"}, sym : Symbols,
               owner : {NoOwner}, ready : {FALSE}]

OldReleaseInit ==
  /\ task \in [Ids -> {Absent} \cup OldPayload]
  /\ index = Ids
  /\ fifo \in SetToSeqs({t \in Ids : task[t].st = "QUEUED"})
  /\ symbols \in [Symbols -> Ids \cup {NoId}]
  /\ \A s \in Symbols : symbols[s] # NoId =>
       Exists(symbols[s]) /\ task[symbols[s]].sym = s
  /\ \/ lease = NoLease
     \/ \E o \in Owners, t \in Ids :
          /\ task[t].st = "QUEUED"
          /\ task[t].sym = AccSymbol
          /\ symbols[AccSymbol] = t
          /\ \A u \in Ids : task[u].st # "RUNNING"
          /\ lease = [owner |-> o, bound |-> t, digest |-> FALSE]

Init ==
  /\ IF OldRelease THEN OldReleaseInit ELSE EmptyInit
  /\ aliases = [t \in Ids |-> NoId]
  /\ count = 0
  /\ api = "DOWN"
  /\ runner = Idle
  /\ cleaner = NoCleaning
  /\ crashes = 0

PublicNext ==
  \/ \E s \in Symbols, t \in Ids : SubmitNew(s, t)
  \/ \E s \in Symbols : SubmitRefresh(s)
  \/ \E t \in Ids : RefreshTask(t) \/ RetryFailed(t) \/ RequeueWaiting(t)

LeaseNext ==
  \/ \E o \in Owners : \/ \E digest \in BOOLEAN : AcquireLease(o, digest)
                       \/ RenewLease(o)
                       \/ \E t \in Ids : BindNew(o, t)
                       \/ BindAgain(o)
                       \/ ReleaseLease(o)
  \/ ExpireLease

RunnerNext ==
  \/ ClaimBound \/ ClaimNext \/ ClaimNothing
  \/ RunnerRead \/ RunnerRefused \/ RunnerPersist
  \/ RunnerFault \/ RunnerFallback

CleanerNext ==
  \/ CleanupAcceptance \/ CleanupSave
  \/ \E t \in Ids : CleanupRead(t)

Next == PublicNext \/ LeaseNext \/ RunnerNext \/ CleanerNext \/ Crash \/ Boot

Spec == Init /\ [][Next]_vars

(* run_once, cleanup and a startup are never abandoned half way; a claim is *)
(* tried again at every poll interval and the retention loop keeps passing. *)
Fairness ==
  /\ WF_vars(ClaimBound) /\ WF_vars(ClaimNext) /\ WF_vars(ClaimNothing)
  /\ WF_vars(RunnerRead) /\ WF_vars(RunnerRefused) /\ WF_vars(RunnerPersist)
  /\ WF_vars(CleanupSave) /\ WF_vars(CleanupAcceptance)
  /\ WF_vars(Boot)

FairSpec == Spec /\ Fairness

-----------------------------------------------------------------------------
RunnerState == [pc : {"idle", "work", "write", "fail"}, id : Ids \cup {NoId},
                rec : Payload, wasActive : BOOLEAN]

(* The types of everything except the pending list, and of the list.        *)
StoreTypeOK ==
  /\ task \in [Ids -> Payload]
  /\ index \subseteq Ids
  /\ symbols \in [Symbols -> Ids \cup {NoId}]
  /\ aliases \in [Ids -> Ids \cup {NoId}]
  /\ count \in Int
  /\ lease \in [owner : Owners \cup {NoOwner}, bound : Ids \cup {NoId},
                digest : BOOLEAN]
  /\ api \in {"UP", "DOWN"}
  /\ runner \in RunnerState
  /\ cleaner \in [pc : {"idle", "write"}, id : Ids \cup {NoId}, rec : Payload]
  /\ crashes \in Nat

(* The shape of the store, the lease, the runner and the retention loop.     *)
TypeOK == StoreTypeOK /\ fifo \in Seq(Ids)

(* While a deployment lease is live, the only task in execution is the      *)
(* acceptance task bound to it: the lease freezes ordinary claims, also     *)
(* across API restarts, recoveries and re-acquisitions.                     *)
LeaseExclusive ==
  LeaseLive => \A t \in Ids : task[t].st = "RUNNING" => t = lease.bound

(* A deployment starts only when the work in progress is over: while a      *)
(* lease is live the runner works on no ordinary task.                      *)
MaintenanceQuiet ==
  LeaseLive /\ runner.pc # "idle" => ~Ordinary(runner.id)

(* No accepted request gets stuck: an ordinary queued task is always in the *)
(* pending list, so that some claim reaches it.                             *)
QueuedIsListed ==
  \A t \in Ids : Claimable(t) => Contains(fifo, t)

(* After startup a stock code has at most one ordinary task, whatever       *)
(* submissions, acceptance tasks and lease releases did to the symbol index.*)
OneTaskPerSymbol ==
  api = "UP" => \A t, u \in Ids :
    Ordinary(t) /\ Ordinary(u) /\ task[t].sym = task[u].sym => t = u

(* The symbol index never names an acceptance task, a removed task or a     *)
(* task of another code, and what it names is in the task index, so that    *)
(* the running checks, which scan the task index, see it.                   *)
SymbolIndexSound ==
  api = "UP" => \A s \in Symbols :
    LET t == symbols[s] IN
    t # NoId => t \in index /\ Ordinary(t) /\ task[t].sym = s

(* A payload outside the task index is a leftover that a late write of the  *)
(* runner brought back after its acceptance task was removed: terminal,     *)
(* never queued, never bound, never named by the symbol index.              *)
OrphansAreInert ==
  \A t \in Ids : Exists(t) /\ t \notin index =>
    /\ Done(t) /\ Acceptance(t)
    /\ ~Contains(fifo, t)
    /\ lease.bound # t
    /\ \A s \in Symbols : symbols[s] # t

(* A public id that startup folded into another task keeps answering: it    *)
(* points directly at a task that still exists and is not itself an alias.  *)
AliasesResolve ==
  \A a \in Ids : aliases[a] # NoId =>
    /\ ~Exists(a)
    /\ Exists(aliases[a])
    /\ aliases[aliases[a]] = NoId

(* While the API serves and Redis answers, every RUNNING task is the one    *)
(* the runner works on: nothing else stays RUNNING and blocks maintenance.  *)
RunningHasRunner ==
  api = "UP" => \A t \in Ids :
    task[t].st = "RUNNING" => runner.pc # "idle" /\ runner.id = t

(* The admission counter equals the number of active tasks.                 *)
CountExact ==
  api = "UP" => count = Cardinality({t \in Ids : IsActive(t)})

(* The public cap holds for the tasks the public can create.                *)
CapRespected ==
  Cardinality({t \in Ids : Ordinary(t) /\ IsActive(t)}) <= Cap

(* An accepted ordinary request is durable: while the API serves, a claim   *)
(* is the only thing that takes it out of QUEUED.                           *)
QueuedUntilClaimed ==
  [][\A t \in Ids :
       Claimable(t) /\ api = "UP" => task'[t].st \in {"QUEUED", "RUNNING"}]_vars

(* The store implements the abstract queue: the ordinary queued tasks in    *)
(* list order are its waiting jobs, the ordinary RUNNING tasks its started  *)
(* jobs, a live lease its maintenance.                                      *)
Queue == INSTANCE FifoQueue WITH
           Jobs        <- Ids,
           waiting     <- Keep(fifo, {t \in Ids : Claimable(t)}),
           started     <- {t \in Ids : Ordinary(t) /\ task[t].st = "RUNNING"},
           maintenance <- LeaseLive

ImplementsQueue == Queue!QSpec

(* Every request is served: once maintenance is over for good, each queued  *)
(* ordinary task is eventually claimed.                                     *)
EventuallyClaimed ==
  <>[]~LeaseLive => \A t \in Ids : Claimable(t) ~> ~Claimable(t)

(* A queued acceptance task is eventually done, unless its lease ends.      *)
AcceptanceRuns ==
  \A t \in Ids :
    (lease.bound = t /\ task[t].st = "QUEUED") ~>
      (lease.bound # t \/ Done(t))
==============================================================================
