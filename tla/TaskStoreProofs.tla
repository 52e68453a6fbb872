---------------------------- MODULE TaskStoreProofs ----------------------------
(***************************************************************************)
(* Proofs about TaskStore, for every finite set of ids, all codes and      *)
(* owners and every cap: the store's types with every fault the model has, *)
(* the exclusiveness of the deployment lease and its quietness; and what   *)
(* the store keeps about its tasks: the pending list, the task index, the  *)
(* symbol index and the aliases.                                           *)
(***************************************************************************)
EXTENDS TaskStore, SelectionProofs

(* An ordinary payload, and a payload that is queued or running, is in the  *)
(* task index.  AcquireLease looks for RUNNING tasks only there.            *)
Indexed ==
  \A t \in Ids : Ordinary(t) \/ task[t].st \in {"QUEUED", "RUNNING"}
                   => t \in index

(* The bound task carries its owner's mark; if an earlier release left it   *)
(* without, it is still queued and neither loop holds a copy of it.         *)
BoundSound ==
  lease.bound # NoId =>
    /\ LeaseLive
    /\ Exists(lease.bound)
    /\ Ordinary(lease.bound) =>
         /\ task[lease.bound].st = "QUEUED"
         /\ runner.id # lease.bound
         /\ cleaner.id # lease.bound

(* What the runner is about to write is never QUEUED or RUNNING, and it is  *)
(* ordinary exactly when the task it is written over is.                    *)
RunnerSound ==
  /\ runner.pc = "idle" => runner.id = NoId
  /\ runner.pc = "fail" => RedisFaults
  /\ CaptureExpiry /\ runner.pc = "work" => ~task[runner.id].ready
  /\ runner.pc \in {"write", "fail"} =>
       /\ runner.rec.st \in Terminal \cup {"WAITING_ADMIN"}
       /\ CaptureExpiry /\ runner.rec.ready =>
            \/ runner.rec.st \in {"COMPLETED", "PARTIAL"}
            \/ runner.rec.st = "FAILED" /\ RedisFaults
       /\ runner.rec.owner = NoOwner <=> Ordinary(runner.id)

(* What the retention loop is about to write is a terminal ordinary payload *)
(* over an ordinary task that is not bound to a lease.                      *)
CleanerSound ==
  /\ cleaner.pc = "idle" => cleaner.id = NoId
  /\ cleaner.pc = "write" =>
       /\ cleaner.id \in Ids
       /\ cleaner.rec.st \in Terminal
       /\ cleaner.rec.owner = NoOwner
       /\ ~cleaner.rec.ready
       /\ Ordinary(cleaner.id)
       /\ cleaner.id # lease.bound

(* Only a finished task has a capture the retention loop would read, and a  *)
(* FAILED one only if a result was turned into a failure after it was       *)
(* stored.                                                                  *)
ReadySound ==
  CaptureExpiry => \A t \in Ids : task[t].ready =>
    \/ task[t].st \in {"COMPLETED", "PARTIAL"}
    \/ task[t].st = "FAILED" /\ RedisFaults

(* A stopped API process has no loop in the middle of an operation.         *)
DownIdle ==
  api = "DOWN" => runner.pc = "idle" /\ cleaner.pc = "idle"

(* The types, with what they need to be inductive: a loop that is in the    *)
(* middle of an operation knows the task it works on.                       *)
Types ==
  /\ StoreTypeOK
  /\ runner.pc # "idle" => runner.id \in Ids
  /\ cleaner.pc = "write" => cleaner.id \in Ids

(* The payload read for an id that Redis does not know is a payload.         *)
LEMMA AbsentType == Absent \in Payload
BY ConstantAssumption DEF Absent, Payload, Active, Terminal

(* A submission or refresh of any code writes a payload.                     *)
LEMMA NewTaskType ==
  ASSUME NEW s \in Symbols, NEW o \in Owners \cup {NoOwner}
  PROVE  NewTask(s, o) \in Payload
BY DEF NewTask, Payload, Active

(* Between two rounds run_once holds no task.                                *)
LEMMA IdleType == Idle \in RunnerState /\ Idle.pc = "idle" /\ Idle.id = NoId
BY AbsentType DEF Idle, RunnerState

(* After a claim run_once holds the claimed task and nothing else.           *)
LEMMA WorkType ==
  ASSUME NEW t \in Ids
  PROVE  LET work == [Idle EXCEPT !.pc = "work", !.id = t]
         IN  work \in RunnerState /\ work.pc = "work" /\ work.id = t
BY IdleType DEF RunnerState

(* What the scripts make of the store when acceptance tasks are removed.    *)
LEMMA RemoveTypes ==
  ASSUME Types, NEW R \in SUBSET Ids, RemoveTasks(R)
  PROVE  /\ task' \in [Ids -> Payload]
         /\ index' \subseteq Ids
         /\ symbols' \in [Symbols -> Ids \cup {NoId}]
         /\ aliases' \in [Ids -> Ids \cup {NoId}]
<1> USE ConstantAssumption DEF Types, StoreTypeOK
<1>1. PICK c \in OrdinaryCanonical(AccSymbol, R) :
        /\ aliases' = [a \in Ids |-> IF a \in R THEN NoId
                                     ELSE IF aliases[a] \in R THEN c
                                     ELSE aliases[a]]
        /\ symbols' = [symbols EXCEPT ![AccSymbol] = c]
        /\ task' = [t \in Ids |-> IF t \in R THEN Absent ELSE task[t]]
        /\ index' = index \ R
  BY DEF RemoveTasks
<1>2. c \in Ids \cup {NoId}
  BY DEF OrdinaryCanonical, Best
<1> QED
  BY <1>1, <1>2, AbsentType

(* An empty store and the data of an earlier release are both well typed.    *)
LEMMA TypesInit == Init => Types
<1> SUFFICES ASSUME Init PROVE Types
  OBVIOUS
<1> USE ConstantAssumption
<1>0. OldRelease \in BOOLEAN
  OBVIOUS
<1>1. lease \in [owner : Owners \cup {NoOwner}, bound : Ids \cup {NoId},
                 digest : BOOLEAN]
  <2>1. NoLease \in [owner : Owners \cup {NoOwner}, bound : Ids \cup {NoId},
                     digest : BOOLEAN]
    BY DEF NoLease
  <2>2. CASE OldRelease
    <3>1. OldReleaseInit
      BY <2>2 DEF Init
    <3>2. CASE lease = NoLease
      BY <2>1, <3>2
    <3>3. CASE lease # NoLease
      <4>1. PICK o \in Owners, t \in Ids :
              lease = [owner |-> o, bound |-> t, digest |-> FALSE]
        BY <3>1, <3>3 DEF OldReleaseInit
      <4> QED
        BY <4>1
    <3> QED
      BY <3>2, <3>3
  <2>3. CASE ~OldRelease
    BY <2>1, <2>3 DEF Init, EmptyInit
  <2> QED
    BY <1>0, <2>2, <2>3
<1>2. /\ task \in [Ids -> Payload]
      /\ index \subseteq Ids
      /\ symbols \in [Symbols -> Ids \cup {NoId}]
  <2>1. CASE OldRelease
    <3>1. OldPayload \subseteq Payload
      BY DEF OldPayload, Payload, Active, Terminal, AllResults
    <3>2. OldReleaseInit
      BY <2>1 DEF Init
    <3> QED
      BY <3>1, <3>2, AbsentType DEF OldReleaseInit
  <2>2. CASE ~OldRelease
    BY <2>2, AbsentType DEF Init, EmptyInit
  <2> QED
    BY <1>0, <2>1, <2>2
<1> QED
  BY <1>1, <1>2, AbsentType, IdleType
  DEF Init, Types, StoreTypeOK, NoCleaning

(* Startup, seen through the sets it computes.                              *)
LEMMA BootTypes == ASSUME Types, Boot PROVE Types'
<1> USE ConstantAssumption DEF Types, StoreTypeOK
<1> DEFINE ordinary == {t \in index : Ordinary(t) /\ t # lease.bound}
           group(s) == {t \in ordinary : task[t].sym = s}
           codes    == {s \in Symbols : group(s) # {}}
           excluded == {t \in index : Exists(t) /\ t \notin ordinary}
<1>1. PICK keep \in [codes -> ordinary] :
        LET gone == ordinary \ {keep[s] : s \in codes}
            heir == [t \in gone |-> keep[task[t].sym]]
        IN
        /\ task' = [t \in Ids |->
                      IF t \in gone THEN Absent
                      ELSE IF t \in Interrupted
                           THEN [task[t] EXCEPT !.st = "QUEUED"]
                      ELSE task[t]]
        /\ index' = {t \in index : Exists(t)} \ gone
        /\ aliases' = Inherited(heir)
        /\ symbols' = [s \in Symbols |->
                         IF s \in codes THEN keep[s]
                         ELSE IF symbols[s] \in excluded THEN NoId
                         ELSE symbols[s]]
        /\ count' = Cardinality({t \in index \ gone : IsActive(t)})
  BY Zenon DEF Boot
<1> DEFINE gone == ordinary \ {keep[s] : s \in codes}
<1>2. \A t \in gone : keep[task[t].sym] \in Ids
  <2> SUFFICES ASSUME NEW t \in gone PROVE keep[task[t].sym] \in Ids
    OBVIOUS
  <2>1. task[t].sym \in codes
    BY DEF Payload
  <2> QED
    BY <2>1
<1>3. task' \in [Ids -> Payload]
  <2>1. \A t \in Ids : [task[t] EXCEPT !.st = "QUEUED"] \in Payload
    BY DEF Payload, Active
  <2> QED
    BY <1>1, <2>1, AbsentType
<1>4. index' \subseteq Ids
  BY <1>1
<1>5. aliases' \in [Ids -> Ids \cup {NoId}]
  BY <1>1, <1>2 DEF Inherited
<1>6. symbols' \in [Symbols -> Ids \cup {NoId}]
  BY <1>1
<1>7. count' \in Int
  <2>1. IsFiniteSet({t \in index \ gone : IsActive(t)})
    BY FS_Subset
  <2> QED
    BY <1>1, <2>1, FS_CardinalityType
<1>8. api' \in {"UP", "DOWN"} /\ UNCHANGED <<lease, runner, cleaner, crashes>>
  BY DEF Boot
<1> QED
  BY <1>3, <1>4, <1>5, <1>6, <1>7, <1>8

(* Every operation of every caller keeps the types.                          *)
LEMMA TypesStep == Types /\ [Next]_vars => Types'
<1> SUFFICES ASSUME Types, [Next]_vars PROVE Types'
  OBVIOUS
<1> USE ConstantAssumption
<1>1. ASSUME NEW s \in Symbols, NEW t \in Ids, SubmitNew(s, t)
      PROVE  Types'
  BY <1>1, NewTaskType DEF SubmitNew, Types, StoreTypeOK
<1>2. ASSUME NEW s \in Symbols, SubmitRefresh(s)
      PROVE  Types'
  <2>1. NewTask(s, NoOwner) \in Payload
    BY NewTaskType
  <2>2. task' = [task EXCEPT ![symbols[s]] = NewTask(s, NoOwner)]
    BY <1>2 DEF SubmitRefresh
  <2>3. task' \in [Ids -> Payload]
    BY <2>1, <2>2 DEF Types, StoreTypeOK
  <2> QED
    BY <1>2, <2>3 DEF SubmitRefresh, Types, StoreTypeOK
<1>3. ASSUME NEW t \in Ids, RefreshTask(t)
      PROVE  Types'
  <2>1. task[t].sym \in Symbols
    BY DEF Types, StoreTypeOK, Payload
  <2> QED
    BY <1>3, <2>1, NewTaskType DEF RefreshTask, Types, StoreTypeOK
<1>4. ASSUME NEW t \in Ids, RetryFailed(t) \/ RequeueWaiting(t)
      PROVE  Types'
  <2>1. [task[t] EXCEPT !.st = "QUEUED"] \in Payload
    BY DEF Types, StoreTypeOK, Payload, Active
  <2>2. task' = [task EXCEPT ![t].st = "QUEUED"]
    BY <1>4 DEF RetryFailed, RequeueWaiting, Resumed
  <2>3. task' \in [Ids -> Payload]
    BY <2>1, <2>2 DEF Types, StoreTypeOK
  <2>4. CASE RetryFailed(t)
    BY <2>3, <2>4 DEF RetryFailed, Types, StoreTypeOK
  <2>5. CASE RequeueWaiting(t)
    BY <2>3, <2>5 DEF RequeueWaiting, Resumed, Types, StoreTypeOK
  <2> QED
    BY <1>4, <2>4, <2>5
<1>5. ASSUME NEW o \in Owners, NEW digest \in BOOLEAN, AcquireLease(o, digest)
      PROVE  Types'
  BY <1>5 DEF AcquireLease, Types, StoreTypeOK, store
<1>6. ASSUME NEW o \in Owners, RenewLease(o)
      PROVE  Types'
  BY <1>6 DEF RenewLease, Types, StoreTypeOK, store
<1>7. CASE ExpireLease
  BY <1>7 DEF ExpireLease, NoLease, Types, StoreTypeOK, store
<1>8. ASSUME NEW o \in Owners, NEW t \in Ids, BindNew(o, t)
      PROVE  Types'
  BY <1>8, NewTaskType DEF BindNew, Types, StoreTypeOK
<1>9. ASSUME NEW o \in Owners, BindAgain(o)
       PROVE  Types'
  <2>1. lease.bound \in Ids
    BY <1>9 DEF BindAgain, Types, StoreTypeOK
  <2>2. [task[lease.bound] EXCEPT !.owner = o] \in Payload
    BY <2>1 DEF Types, StoreTypeOK, Payload
  <2>3. NewTask(AccSymbol, o) \in Payload
    BY NewTaskType
  <2>4. task' \in [Ids -> Payload]
    BY <1>9, <2>1, <2>2, <2>3 DEF BindAgain, Types, StoreTypeOK
  <2> QED
    BY <1>9, <2>1, <2>4 DEF BindAgain, Types, StoreTypeOK
<1>10. ASSUME NEW o \in Owners, ReleaseLease(o)
       PROVE  Types'
  <2>1. CASE lease.bound = NoId /\ UNCHANGED store
    BY <1>10, <2>1 DEF ReleaseLease, NoLease, Types, StoreTypeOK, store
  <2>2. CASE lease.bound # NoId /\ RemoveTasks({lease.bound}) /\ UNCHANGED count
    <3>1. {lease.bound} \in SUBSET Ids
      BY <2>2 DEF Types, StoreTypeOK
    <3> QED
      BY <1>10, <2>2, <3>1, RemoveTypes
      DEF ReleaseLease, NoLease, Types, StoreTypeOK
  <2> QED
    BY <1>10, <2>1, <2>2 DEF ReleaseLease
<1>11. CASE ClaimBound \/ ClaimNext
  <2>1. PICK t \in Ids : Claim(t)
    BY <1>11 DEF ClaimBound, ClaimNext, Types, StoreTypeOK
  <2>2. [task[t] EXCEPT !.st = "RUNNING"] \in Payload
    BY DEF Types, StoreTypeOK, Payload, Active
  <2>5. runner' \in {[Idle EXCEPT !.pc = "work", !.id = t], Idle}
    BY <2>1 DEF Claim
  <2>6. runner' \in RunnerState /\ (runner'.pc # "idle" => runner'.id \in Ids)
    <3>1. CASE runner' = [Idle EXCEPT !.pc = "work", !.id = t]
      BY ONLY <3>1, WorkType, t \in Ids
    <3>2. CASE runner' = Idle
      BY ONLY <3>2, IdleType
    <3> QED
      BY <2>5, <3>1, <3>2
  <2> QED
    BY <2>1, <2>2, <2>6 DEF Claim, Types, StoreTypeOK
<1>12. CASE ClaimNothing
  BY <1>12 DEF ClaimNothing, Types, StoreTypeOK
<1>13. CASE RunnerRead
  <2>1. PICK rec \in Outcome(runner.id) :
          runner' = [runner EXCEPT !.pc = "write", !.rec = rec,
                                   !.wasActive = IsActive(runner.id)]
    BY <1>13 DEF RunnerRead
  <2>2. runner.id \in Ids /\ task[runner.id] \in Payload
    BY <1>13 DEF RunnerRead, Types, StoreTypeOK
  <2>3. rec \in [st : Statuses, sym : {task[runner.id].sym},
                 owner : {task[runner.id].owner}, ready : BOOLEAN]
    BY <2>1 DEF Outcome
  <2>4. Statuses \subseteq Active \cup Terminal
    BY DEF Statuses, Active, Terminal
  <2>5. rec \in Payload
    BY <2>2, <2>3, <2>4 DEF Payload
  <2>6. IsActive(runner.id) \in BOOLEAN
    BY DEF IsActive
  <2>7. runner' \in RunnerState /\ runner'.id = runner.id
    BY <2>1, <2>5, <2>6 DEF Types, StoreTypeOK, RunnerState
  <2> QED
    BY <1>13, <2>2, <2>7 DEF RunnerRead, Types, StoreTypeOK, store
<1>14. CASE RunnerRefused
  BY <1>14, IdleType DEF RunnerRefused, Types, StoreTypeOK, store
<1>15. CASE RunnerPersist
  <2>1. runner' \in {Idle, runner}
    BY <1>15 DEF RunnerPersist
  <2>2. \A m, n \in {0, 1} : count + m - n \in Int
    BY DEF Types, StoreTypeOK
  <2>3. count' \in Int
    BY <1>15, <2>2 DEF RunnerPersist
  <2>4. task' \in [Ids -> Payload]
    BY <1>15 DEF RunnerPersist, Types, StoreTypeOK, RunnerState
  <2>5. runner' \in RunnerState /\ (runner'.pc # "idle" => runner'.id \in Ids)
    BY <2>1, IdleType DEF Types, StoreTypeOK
  <2> QED
    BY <1>15, <2>3, <2>4, <2>5 DEF RunnerPersist, Types, StoreTypeOK
<1>16. CASE RunnerFault
  <2>1. runner' \in {Idle, [runner EXCEPT !.pc = "fail"]}
    BY <1>16 DEF RunnerFault
  <2>2. /\ [runner EXCEPT !.pc = "fail"] \in RunnerState
        /\ [runner EXCEPT !.pc = "fail"].id = runner.id
    BY DEF Types, StoreTypeOK, RunnerState
  <2>3. runner.id \in Ids
    BY <1>16 DEF RunnerFault, Types
  <2>4. runner' \in RunnerState /\ (runner'.pc # "idle" => runner'.id \in Ids)
    BY <2>1, <2>2, <2>3, IdleType
  <2> QED
    BY <1>16, <2>4 DEF RunnerFault, Types, StoreTypeOK, store
<1>17. CASE RunnerFallback
  <2> DEFINE failed == [task[runner.id] EXCEPT !.st = "FAILED"]
             next   == [runner EXCEPT !.pc  = "write", !.rec = failed,
                                      !.wasActive = task[runner.id].st \in Active]
  <2>1. runner.id \in Ids
    BY <1>17 DEF RunnerFallback, Types
  <2>2. failed \in Payload
    BY <2>1 DEF Types, StoreTypeOK, Payload, Terminal
  <2>3. (task[runner.id].st \in Active) \in BOOLEAN
    OBVIOUS
  <2>4. runner' \in {Idle, next}
    BY <1>17 DEF RunnerFallback
  <2>5. next \in RunnerState /\ next.id = runner.id
    BY <2>2, <2>3 DEF Types, StoreTypeOK, RunnerState
  <2>6. runner' \in RunnerState /\ (runner'.pc # "idle" => runner'.id \in Ids)
    BY <2>1, <2>4, <2>5, IdleType
  <2> QED
    BY <1>17, <2>6 DEF RunnerFallback, Types, StoreTypeOK, store
<1>18. CASE CleanupAcceptance
  <2>1. {t \in index : Acceptance(t)} \in SUBSET Ids
    BY DEF Types, StoreTypeOK
  <2> QED
    BY <1>18, <2>1, RemoveTypes DEF CleanupAcceptance, Types, StoreTypeOK
<1>19. ASSUME NEW t \in Ids, CleanupRead(t)
       PROVE  Types'
  <2>1. [task[t] EXCEPT !.ready = FALSE] \in Payload
    BY DEF Types, StoreTypeOK, Payload
  <2> QED
    BY <1>19, <2>1 DEF CleanupRead, Types, StoreTypeOK, store
<1>20. CASE CleanupSave
  BY <1>20, AbsentType DEF CleanupSave, NoCleaning, Types, StoreTypeOK
<1>21. CASE Crash
  BY <1>21, AbsentType, IdleType DEF Crash, NoCleaning, Types, StoreTypeOK, store
<1>22. CASE Boot
  BY <1>22, BootTypes
<1>23. CASE UNCHANGED vars
  BY <1>23 DEF vars, Types, StoreTypeOK
<1> QED
  BY <1>1, <1>2, <1>3, <1>4, <1>5, <1>6, <1>7, <1>8, <1>9, <1>10, <1>11,
     <1>12, <1>13, <1>14, <1>15, <1>16, <1>17, <1>18, <1>19, <1>20, <1>21,
     <1>22, <1>23
  DEF Next, PublicNext, LeaseNext, RunnerNext, CleanerNext

(* The inductive invariant behind LeaseExclusive, next to Types.            *)
Safe ==
  /\ Indexed /\ BoundSound /\ RunnerSound /\ CleanerSound /\ ReadySound
  /\ DownIdle
  /\ LeaseExclusive

(* LeaseExclusive needs one of three rare things to be absent: captures     *)
(* that expire, a stored result turned into a failure because its reply was *)
(* lost, and the administrator's retry of it.  Together they let the        *)
(* retention loop read a RUNNING payload and write it back later.           *)
NoStaleRetry == ~(CaptureExpiry /\ RedisFaults /\ AdminRetry)

(* Releasing the lease removes its task from everything that names it.       *)
LEMMA ReleaseLeaseSafe ==
  ASSUME Types, Types', Safe, NoStaleRetry, NEW o \in Owners, ReleaseLease(o)
  PROVE  Safe'
<1> USE ConstantAssumption
    DEF Types, StoreTypeOK, RunnerState, Payload, Safe, Indexed, BoundSound,
        RunnerSound, CleanerSound, ReadySound, DownIdle, LeaseExclusive,
        LeaseLive, Ordinary, Exists
<1> DEFINE b == lease.bound
<1>1. lease' = NoLease /\ UNCHANGED <<api, runner, cleaner, crashes>>
  BY DEF ReleaseLease
<1>2. CASE UNCHANGED store
  BY <1>1, <1>2 DEF NoLease, store
<1>3. CASE b # NoId /\ Exists(b) /\ RemoveTasks({b})
  <2>1. /\ task' = [t \in Ids |-> IF t = b THEN Absent ELSE task[t]]
        /\ index' = index \ {b}
    BY <1>3 DEF RemoveTasks
  <2>2. Absent.st = "ABSENT" /\ ~Absent.ready
    BY DEF Absent
  <2>3. /\ task'[b] = Absent
        /\ \A t \in Ids : t # b => task'[t] = task[t]
    BY <1>3, <2>1
  <2> HIDE DEF b
  <2>4. Indexed'
    BY <2>1, <2>2, <2>3
  <2>5. BoundSound' /\ LeaseExclusive'
    BY <1>1 DEF NoLease
  <2>6. RunnerSound'
    BY <1>1, <2>2, <2>3 DEF b
  <2>7. CleanerSound'
    BY <1>1, <2>2, <2>3 DEF NoLease, b
  <2>8. ReadySound'
    BY <2>2, <2>3
  <2>9. DownIdle'
    BY <1>1
  <2> QED
    BY <2>4, <2>5, <2>6, <2>7, <2>8, <2>9
<1> QED
  BY <1>2, <1>3 DEF ReleaseLease

(* A claim, of whichever task: under a lease it is the bound one.           *)
LEMMA ClaimSafe ==
  ASSUME Types, Types', Safe, NEW t \in Ids, Claim(t),
         task[t].st = "QUEUED", runner.pc = "idle", api = "UP",
         LeaseLive => t = lease.bound /\ ~Ordinary(t)
  PROVE  Safe'
<1>1. \/ runner'.pc = "idle" /\ runner'.id = NoId
      \/ runner'.pc = "work" /\ runner'.id = t
  <2>1. runner' \in {[Idle EXCEPT !.pc = "work", !.id = t], Idle}
    BY DEF Claim
  <2> QED
    BY <2>1, WorkType, IdleType
<1>2. /\ task' = [task EXCEPT ![t].st = "RUNNING"]
      /\ UNCHANGED <<index, lease, api, cleaner>>
  BY DEF Claim
<1> USE ConstantAssumption
    DEF Types, StoreTypeOK, RunnerState, Payload, Safe, Indexed, BoundSound,
        RunnerSound, CleanerSound, ReadySound, DownIdle, LeaseExclusive,
        LeaseLive, Ordinary, Exists
<1>3. /\ task'[t].st = "RUNNING"
      /\ task'[t].ready = task[t].ready
      /\ task'[t].owner = task[t].owner
      /\ \A u \in Ids : u # t => task'[u] = task[u]
  BY <1>2
<1>4. Indexed'
  BY <1>2, <1>3
<1>5. BoundSound'
  BY <1>1, <1>2, <1>3
<1>6. RunnerSound'
  BY <1>1, <1>3
<1>7. CleanerSound'
  BY <1>2, <1>3
<1>8. ReadySound'
  <2> SUFFICES ASSUME CaptureExpiry, NEW u \in Ids, task'[u].ready
               PROVE  \/ task'[u].st \in {"COMPLETED", "PARTIAL"}
                      \/ task'[u].st = "FAILED" /\ RedisFaults
    OBVIOUS
  <2>1. u # t
    BY <1>3
  <2> QED
    BY <1>3, <2>1
<1>9. DownIdle' /\ LeaseExclusive'
  BY <1>2, <1>3
<1> QED
  BY <1>4, <1>5, <1>6, <1>7, <1>8, <1>9

(* The except branches write a FAILED payload over the task they read.       *)
LEMMA RunnerFallbackSafe ==
  ASSUME Types, Types', Safe, NoStaleRetry, RunnerFallback
  PROVE  Safe'
<1> USE ConstantAssumption
    DEF Types, StoreTypeOK, RunnerState, Payload, Safe, Indexed, BoundSound,
        RunnerSound, CleanerSound, ReadySound, DownIdle, LeaseExclusive,
        LeaseLive, Ordinary, Exists
<1>1. UNCHANGED <<task, index, lease, api, cleaner>>
  BY DEF RunnerFallback, store
<1>2. RunnerSound'
  <2>1. CASE runner' = Idle
    BY <2>1, IdleType
  <2>2. CASE runner' # Idle
    <3> DEFINE old == task[runner.id]
    <3>1. /\ runner.id \in Ids
          /\ old.st \in {"QUEUED", "RUNNING", "WAITING_ADMIN", "PARTIAL"}
      BY <2>2 DEF RunnerFallback, AllowedFrom, Active
    <3>2. /\ runner'.pc = "write" /\ runner'.id = runner.id
          /\ runner'.rec = [old EXCEPT !.st = "FAILED"]
      BY <2>2 DEF RunnerFallback
    <3>3. RedisFaults
      BY DEF RunnerFallback
    <3>4. /\ runner'.rec.st = "FAILED" /\ runner'.rec.owner = old.owner
      BY <3>1, <3>2
    <3> QED
      BY <1>1, <3>1, <3>2, <3>3, <3>4 DEF Terminal
  <2> QED
    BY <2>1, <2>2
<1>3. BoundSound' /\ DownIdle'
  BY <1>1, IdleType DEF RunnerFallback
<1>4. Indexed' /\ CleanerSound' /\ ReadySound' /\ LeaseExclusive'
  BY <1>1
<1> QED
  BY <1>2, <1>3, <1>4

(* A startup returns RUNNING tasks to the queue, so none is left behind a    *)
(* live lease.                                                               *)
LEMMA BootSafe == ASSUME Types, Types', Safe, Boot PROVE Safe'
<1>1. /\ runner.pc = "idle" /\ cleaner.pc = "idle"
      /\ UNCHANGED <<lease, runner, cleaner>>
      /\ api' = "UP"
  BY DEF Boot, Safe, DownIdle
<1>2. PICK gone \in SUBSET {t \in index : Ordinary(t) /\ t # lease.bound} :
        /\ task' = [t \in Ids |->
                      IF t \in gone THEN Absent
                      ELSE IF t \in Interrupted
                           THEN [task[t] EXCEPT !.st = "QUEUED"]
                      ELSE task[t]]
        /\ index' = {t \in index : Exists(t)} \ gone
  <2> DEFINE ordinary == {t \in index : Ordinary(t) /\ t # lease.bound}
             group(s) == {t \in ordinary : task[t].sym = s}
             codes    == {s \in Symbols : group(s) # {}}
  <2>1. PICK keep \in [codes -> ordinary] :
          LET gone == ordinary \ {keep[s] : s \in codes}
          IN
          /\ task' = [t \in Ids |->
                        IF t \in gone THEN Absent
                        ELSE IF t \in Interrupted
                           THEN [task[t] EXCEPT !.st = "QUEUED"]
                        ELSE task[t]]
          /\ index' = {t \in index : Exists(t)} \ gone
    BY Zenon DEF Boot
  <2> QED
    BY <2>1
<1> USE ConstantAssumption
    DEF Types, StoreTypeOK, RunnerState, Payload, Safe, Indexed, BoundSound,
       RunnerSound, CleanerSound, ReadySound, DownIdle, LeaseExclusive,
       LeaseLive, Ordinary, Exists
<1>3. Absent.st = "ABSENT" /\ ~Absent.ready
  BY DEF Absent
<1>4. ASSUME NEW t \in Ids
      PROVE  \/ t \in gone /\ task'[t] = Absent
             \/ /\ t \notin gone
                /\ t \in index /\ task[t].st = "RUNNING"
                /\ task'[t].st = "QUEUED" /\ task'[t].owner = task[t].owner
                /\ task'[t].ready = task[t].ready
             \/ /\ t \notin gone
                /\ task[t].st # "RUNNING"
                /\ task'[t] = task[t]
  BY <1>2 DEF Interrupted
<1>5. Indexed'
  BY <1>2, <1>3, <1>4
<1>6. BoundSound'
  BY <1>1, <1>2, <1>3, <1>4
<1>7. RunnerSound' /\ CleanerSound' /\ DownIdle'
  BY <1>1
<1>8. ReadySound'
  BY <1>3, <1>4
<1>9. LeaseExclusive'
  BY <1>3, <1>4
<1> QED
  BY <1>5, <1>6, <1>7, <1>8, <1>9

(* Every operation of every caller keeps the inductive invariant.            *)
LEMMA SafeStep ==
  ASSUME Types, Types', Safe, NoStaleRetry, [Next]_vars
  PROVE  Safe'
<1> USE ConstantAssumption
    DEF Types, StoreTypeOK, RunnerState, Payload, Safe, NoStaleRetry,
       Indexed, BoundSound, RunnerSound, CleanerSound,
       ReadySound, DownIdle, LeaseExclusive, LeaseLive, Ordinary, Exists
<1>1. ASSUME NEW s \in Symbols, NEW t \in Ids, SubmitNew(s, t)
      PROVE  Safe'
  BY <1>1 DEF SubmitNew, Fresh, NewTask
<1>2. ASSUME NEW s \in Symbols, SubmitRefresh(s)
      PROVE  Safe'
  BY <1>2 DEF SubmitRefresh, Usable, Public, NewTask, Done, Terminal, AllResults
<1>3. ASSUME NEW t \in Ids, RefreshTask(t)
      PROVE  Safe'
  BY <1>3 DEF RefreshTask, Public, NewTask, Done, Terminal, AllResults
<1>4. ASSUME NEW t \in Ids, RetryFailed(t)
      PROVE  Safe'
  BY <1>4 DEF RetryFailed, Public
<1>5. ASSUME NEW t \in Ids, RequeueWaiting(t)
      PROVE  Safe'
  BY <1>5 DEF RequeueWaiting, Resumed, Public
<1>6. ASSUME NEW o \in Owners, NEW digest \in BOOLEAN, AcquireLease(o, digest)
      PROVE  Safe'
  BY <1>6 DEF AcquireLease, Interrupted, store
<1>7. ASSUME NEW o \in Owners, RenewLease(o)
      PROVE  Safe'
  BY <1>7 DEF RenewLease, store
<1>8. CASE ExpireLease
  BY <1>8 DEF ExpireLease, NoLease, store
<1>9. ASSUME NEW o \in Owners, NEW t \in Ids, BindNew(o, t)
      PROVE  Safe'
  BY <1>9 DEF BindNew, Fresh, NewTask
<1>10. ASSUME NEW o \in Owners, BindAgain(o)
      PROVE  Safe'
  BY <1>10 DEF BindAgain, NewTask, Done, Terminal, AllResults
<1>11. ASSUME NEW o \in Owners, ReleaseLease(o)
      PROVE  Safe'
  BY <1>11, ReleaseLeaseSafe
<1>12. CASE ClaimBound
  BY <1>12, ClaimSafe DEF ClaimBound
<1>13. CASE ClaimNext
  BY <1>13, ClaimSafe DEF ClaimNext, Claimable
<1>14. CASE ClaimNothing
  BY <1>14 DEF ClaimNothing
<1>15. CASE RunnerRead
  BY <1>15
  DEF RunnerRead, Outcome, Statuses, AllowedFrom, Active, Terminal, AllResults,
      store
<1>16. CASE RunnerRefused
  BY <1>16 DEF RunnerRefused, Idle, store
<1>17. CASE RunnerPersist
  BY <1>17 DEF RunnerPersist, Idle, Terminal, AllResults
<1>18. CASE RunnerFault
  BY <1>18 DEF RunnerFault, Idle, store
<1>19. CASE RunnerFallback
  BY <1>19, RunnerFallbackSafe
<1>20. CASE CleanupAcceptance
  BY SMTT(60), <1>20 DEF CleanupAcceptance, RemoveTasks, Acceptance, Absent
<1>21. ASSUME NEW t \in Ids, CleanupRead(t)
      PROVE  Safe'
  BY <1>21 DEF CleanupRead, Terminal, AllResults, store
<1>22. CASE CleanupSave
  BY <1>22 DEF CleanupSave, NoCleaning, Terminal, AllResults
<1>23. CASE Crash
  BY <1>23 DEF Crash, Idle, NoCleaning, store
<1>24. CASE UNCHANGED vars
  BY <1>24 DEF vars
<1>25. CASE Boot
  BY <1>25, BootSafe
<1> HIDE DEF Types, StoreTypeOK, RunnerState, Payload, Safe
<1> QED
  BY <1>1, <1>2, <1>3, <1>4, <1>5, <1>6, <1>7, <1>8, <1>9, <1>10, <1>11,
     <1>12, <1>13, <1>14, <1>15, <1>16, <1>17, <1>18, <1>19, <1>20, <1>21,
     <1>22, <1>23, <1>24, <1>25
  DEF Next, PublicNext, LeaseNext, RunnerNext, CleanerNext

(* The invariant holds initially, also over the data of an earlier release. *)
LEMMA SafeInit == Init => Safe
<1> SUFFICES ASSUME Init PROVE Safe
  OBVIOUS
<1> USE ConstantAssumption
<1>0. OldRelease \in BOOLEAN
  OBVIOUS
<1>1. /\ runner.pc = "idle" /\ runner.id = NoId
      /\ cleaner.pc = "idle" /\ cleaner.id = NoId
  BY IdleType DEF Init, NoCleaning
<1>2. RunnerSound /\ CleanerSound /\ DownIdle
  BY <1>1 DEF RunnerSound, CleanerSound, DownIdle
<1>3. CASE ~OldRelease
  <2>1. /\ \A t \in Ids : task[t].st = "ABSENT" /\ ~task[t].ready
        /\ lease = NoLease
    BY <1>3 DEF Init, EmptyInit, Absent
  <2> QED
    BY <1>2, <2>1
    DEF Safe, Indexed, BoundSound, ReadySound, LeaseExclusive, LeaseLive,
        NoLease, Ordinary, Exists
<1>4. CASE OldRelease
  <2>1. OldReleaseInit
    BY <1>4 DEF Init
  <2>2. /\ index = Ids
        /\ task \in [Ids -> {Absent} \cup OldPayload]
    BY <2>1 DEF OldReleaseInit
  <2>3. \A rec \in {Absent} \cup OldPayload : ~rec.ready
    <3>1. ~Absent.ready
      BY DEF Absent
    <3>2. \A rec \in OldPayload : rec.ready \in {FALSE}
      BY DEF OldPayload
    <3> QED
      BY <3>1, <3>2
  <2>4. \A t \in Ids : ~task[t].ready
    BY <2>2, <2>3
  <2>5. Indexed /\ ReadySound
    BY <2>2, <2>4 DEF Indexed, ReadySound
  <2>6. BoundSound /\ LeaseExclusive
    <3>1. CASE lease = NoLease
      BY <3>1 DEF NoLease, BoundSound, LeaseExclusive, LeaseLive
    <3>2. CASE lease # NoLease
      <4>1. PICK o \in Owners, t \in Ids :
              /\ task[t].st = "QUEUED"
              /\ \A u \in Ids : task[u].st # "RUNNING"
              /\ lease = [owner |-> o, bound |-> t, digest |-> FALSE]
        BY <2>1, <3>2 DEF OldReleaseInit
      <4> QED
        BY <1>1, <4>1
        DEF BoundSound, LeaseExclusive, LeaseLive, Exists
    <3> QED
      BY <3>1, <3>2
  <2> QED
    BY <1>2, <2>5, <2>6 DEF Safe
<1> QED
  BY <1>0, <1>3, <1>4

(* Every action keeps the store's types, whatever faults and restarts       *)
(* happen: redis payloads, indexes, the counter, the lease and the locals   *)
(* of the runner and the retention loop.                                    *)
THEOREM Typing == Spec => []StoreTypeOK
<1>1. Types => StoreTypeOK
  BY DEF Types
<1> QED
  BY <1>1, TypesInit, TypesStep, PTL DEF Spec

(* The deployment lease is exclusive: while it is live the only RUNNING     *)
(* task is the one bound to it, for any number of tasks, codes, owners and  *)
(* restarts.                                                                *)
THEOREM LeaseIsExclusive ==
  ASSUME NoStaleRetry
  PROVE  Spec => []LeaseExclusive
<1> DEFINE Inv == Types /\ Safe
<1>1. Init => Inv
  BY TypesInit, SafeInit
<1>2. Inv /\ [Next]_vars => Inv'
  BY TypesStep, SafeStep, NoStaleRetry
<1>3. Inv => LeaseExclusive
  BY DEF Safe
<1> QED
  BY <1>1, <1>2, <1>3, PTL DEF Spec

(* With captures that never expire and Redis calls that never fail, the     *)
(* retention loop never writes a task back, and an ordinary task the runner *)
(* works on stays RUNNING, where a new lease sees it.                       *)
Calm == ~CaptureExpiry /\ ~RedisFaults

Quiet ==
  /\ cleaner.pc = "idle"
  /\ runner.pc # "fail"
  /\ runner.pc # "idle" /\ Ordinary(runner.id) => task[runner.id].st = "RUNNING"
  /\ MaintenanceQuiet

(* While a task is claimed, the runner's task is RUNNING; under a lease it  *)
(* is an acceptance task.                                                   *)
LEMMA ClaimQuiet ==
  ASSUME Types, Types', Calm, Quiet, NEW t \in Ids, Claim(t),
         task[t].st = "QUEUED", LeaseLive => ~Ordinary(t)
  PROVE  Quiet'
<1>1. runner' = [Idle EXCEPT !.pc = "work", !.id = t]
  BY DEF Claim, Calm
<1>2. runner'.pc = "work" /\ runner'.id = t
  BY <1>1, WorkType
<1>3. /\ task' = [task EXCEPT ![t].st = "RUNNING"]
      /\ UNCHANGED <<lease, cleaner>>
  BY DEF Claim
<1>4. task'[t].st = "RUNNING" /\ task'[t].owner = task[t].owner
  BY <1>3 DEF Types, StoreTypeOK, Payload
<1>5. Ordinary(t)' => Ordinary(t)
  BY <1>4 DEF Ordinary, Exists
<1> QED
  BY <1>2, <1>3, <1>4, <1>5
  DEF Quiet, MaintenanceQuiet, LeaseLive, Ordinary, Exists

(* Every step keeps the runner off ordinary tasks during maintenance.       *)
LEMMA QuietStep ==
  ASSUME Types, Types', Safe, Calm, Quiet, [Next]_vars
  PROVE  Quiet'
<1> USE ConstantAssumption
    DEF Types, StoreTypeOK, RunnerState, Payload, Calm, Quiet,
        MaintenanceQuiet, LeaseLive, Ordinary, Exists
<1>1. ASSUME NEW s \in Symbols, NEW t \in Ids, SubmitNew(s, t)
      PROVE  Quiet'
  BY <1>1 DEF SubmitNew, Fresh, NewTask
<1>2. ASSUME NEW s \in Symbols, SubmitRefresh(s)
      PROVE  Quiet'
  BY <1>2 DEF SubmitRefresh, Usable, Public, NewTask, Done, Terminal, AllResults
<1>3. ASSUME NEW t \in Ids, RefreshTask(t)
      PROVE  Quiet'
  BY <1>3 DEF RefreshTask, Public, NewTask, Done, Terminal, AllResults
<1>4. ASSUME NEW t \in Ids, RetryFailed(t)
      PROVE  Quiet'
  BY <1>4 DEF RetryFailed, Public
<1>5. ASSUME NEW t \in Ids, RequeueWaiting(t)
      PROVE  Quiet'
  BY <1>5 DEF RequeueWaiting, Resumed, Public
<1>6. ASSUME NEW o \in Owners, NEW digest \in BOOLEAN, AcquireLease(o, digest)
      PROVE  Quiet'
  BY <1>6 DEF AcquireLease, Interrupted, Safe, Indexed, store
<1>7. ASSUME NEW o \in Owners, RenewLease(o)
      PROVE  Quiet'
  BY <1>7 DEF RenewLease, store
<1>8. CASE ExpireLease
  BY <1>8 DEF ExpireLease, NoLease, store
<1>9. ASSUME NEW o \in Owners, NEW t \in Ids, BindNew(o, t)
      PROVE  Quiet'
  BY <1>9 DEF BindNew, Fresh, NewTask
<1>10. ASSUME NEW o \in Owners, BindAgain(o)
      PROVE  Quiet'
  BY <1>10 DEF BindAgain, NewTask, Safe, BoundSound
<1>11. ASSUME NEW o \in Owners, ReleaseLease(o)
      PROVE  Quiet'
  <2>1. lease' = NoLease /\ UNCHANGED <<runner, cleaner>>
    BY <1>11 DEF ReleaseLease
  <2>2. \A t \in Ids : task'[t] = task[t] \/ task'[t] = Absent
    <3>1. CASE UNCHANGED store
      BY <3>1 DEF store
    <3>2. CASE RemoveTasks({lease.bound})
      BY <3>2 DEF RemoveTasks
    <3> QED
      BY <1>11, <3>1, <3>2 DEF ReleaseLease
  <2>3. Absent.st = "ABSENT"
    BY DEF Absent
  <2> QED
    BY <2>1, <2>2, <2>3 DEF NoLease
<1>12. CASE ClaimBound
  BY <1>12, ClaimQuiet DEF ClaimBound
<1>13. CASE ClaimNext
  BY <1>13, ClaimQuiet DEF ClaimNext, Claimable
<1>14. CASE ClaimNothing
  BY <1>14 DEF ClaimNothing
<1>15. CASE RunnerRead
  BY <1>15 DEF RunnerRead, store
<1>16. CASE RunnerRefused
  BY <1>16 DEF RunnerRefused, Idle, store
<1>17. CASE RunnerPersist
  BY <1>17 DEF RunnerPersist, Idle
<1>18. CASE RunnerFault
  BY <1>18 DEF RunnerFault
<1>19. CASE RunnerFallback
  BY <1>19 DEF RunnerFallback
<1>20. CASE CleanupAcceptance
  BY <1>20 DEF CleanupAcceptance, RemoveTasks, Acceptance, Absent
<1>21. ASSUME NEW t \in Ids, CleanupRead(t)
      PROVE  Quiet'
  BY <1>21 DEF CleanupRead
<1>22. CASE CleanupSave
  BY <1>22 DEF CleanupSave
<1>23. CASE Crash
  BY <1>23 DEF Crash, Idle, NoCleaning, store
<1>24. CASE UNCHANGED vars
  BY <1>24 DEF vars
<1>25. CASE Boot
  BY <1>25 DEF Boot, Safe, DownIdle
<1> HIDE DEF Types, StoreTypeOK, RunnerState, Payload, Quiet
<1> QED
  BY <1>1, <1>2, <1>3, <1>4, <1>5, <1>6, <1>7, <1>8, <1>9, <1>10, <1>11,
     <1>12, <1>13, <1>14, <1>15, <1>16, <1>17, <1>18, <1>19, <1>20, <1>21,
     <1>22, <1>23, <1>24, <1>25
  DEF Next, PublicNext, LeaseNext, RunnerNext, CleanerNext

(* A deployment starts only when the work in progress is over: while a      *)
(* lease is live the runner works on no ordinary task, for every number of  *)
(* tasks and owners, as long as nothing writes a task behind its back.      *)
THEOREM MaintenanceIsQuiet ==
  ASSUME Calm
  PROVE  Spec => []MaintenanceQuiet
<1> DEFINE Inv == Types /\ Safe /\ Quiet
<1>1. Init => Inv
  <2>1. Init => Quiet
    BY IdleType DEF Init, NoCleaning, Quiet, MaintenanceQuiet
  <2> QED
    BY <2>1, TypesInit, SafeInit
<1>2. Inv /\ [Next]_vars => Inv'
  <2>1. NoStaleRetry
    BY DEF Calm, NoStaleRetry
  <2> QED
    BY <2>1, TypesStep, SafeStep, QuietStep, Calm
<1>3. Inv => MaintenanceQuiet
  BY DEF Quiet
<1> QED
  BY <1>1, <1>2, <1>3, PTL DEF Spec

-----------------------------------------------------------------------------

(* What startup makes of the store: the tasks that go, with the task each   *)
(* is folded into, and the task that a code keeps.                          *)
BootShape(order, gone, codes, heir, keep) ==
  /\ \A t \in gone : /\ Ordinary(t) /\ t # lease.bound
                     /\ Ordinary(heir[t])
  /\ \A s \in codes : /\ Ordinary(keep[s]) /\ keep[s] # lease.bound
                      /\ task[keep[s]].sym = s
  /\ \A t \in index : Ordinary(t) /\ t # lease.bound =>
       /\ task[t].sym \in codes
       /\ t \in gone <=> t # keep[task[t].sym]
  /\ task' = [t \in Ids |->
                IF t \in gone THEN Absent
                ELSE IF t \in Interrupted
                     THEN [task[t] EXCEPT !.st = "QUEUED"]
                ELSE task[t]]
  /\ fifo' = Keep(order \o fifo, Ids \ gone)
  /\ index' = {t \in index : Exists(t)} \ gone
  /\ aliases' = Inherited(heir)
  /\ symbols' = [s \in Symbols |->
                   IF s \in codes THEN keep[s]
                   ELSE IF symbols[s] \in index /\ Exists(symbols[s])
                           /\ ~(Ordinary(symbols[s])
                                /\ symbols[s] # lease.bound)
                        THEN NoId
                   ELSE symbols[s]]
  /\ count' = Cardinality({t \in index \ gone : IsActive(t)})
  /\ api = "DOWN" /\ api' = "UP"
  /\ UNCHANGED <<lease, runner, cleaner, crashes>>

(* What a startup chooses, as one statement about the state before it.      *)
LEMMA BootFacts ==
  ASSUME Types, Boot
  PROVE  \E order \in SetToSeqs(Interrupted), gone \in SUBSET index,
            codes \in SUBSET Symbols :
         \E heir \in [gone -> index \ gone], keep \in [codes -> index \ gone] :
           BootShape(order, gone, codes, heir, keep)
<1> USE ConstantAssumption DEF Types, StoreTypeOK
<1> DEFINE ordinary == {t \in index : Ordinary(t) /\ t # lease.bound}
           group(s) == {t \in ordinary : task[t].sym = s}
           codes    == {s \in Symbols : group(s) # {}}
           excluded == {t \in index : Exists(t) /\ t \notin ordinary}
<1>1. PICK order \in SetToSeqs(Interrupted),
           keep \in {f \in [codes -> ordinary] : \A s \in codes :
                                                   f[s] \in Best(group(s))} :
        LET gone == ordinary \ {keep[s] : s \in codes}
            heir == [t \in gone |-> keep[task[t].sym]]
        IN
        /\ task' = [t \in Ids |->
                      IF t \in gone THEN Absent
                      ELSE IF t \in Interrupted
                           THEN [task[t] EXCEPT !.st = "QUEUED"]
                      ELSE task[t]]
        /\ fifo' = Keep(order \o fifo, Ids \ gone)
        /\ index' = {t \in index : Exists(t)} \ gone
        /\ aliases' = Inherited(heir)
        /\ symbols' = [s \in Symbols |->
                         IF s \in codes THEN keep[s]
                         ELSE IF symbols[s] \in excluded THEN NoId
                         ELSE symbols[s]]
        /\ count' = Cardinality({t \in index \ gone : IsActive(t)})
  BY Zenon DEF Boot
<1> DEFINE gone == ordinary \ {keep[s] : s \in codes}
           heir == [t \in gone |-> keep[task[t].sym]]
<1>2. keep \in [codes -> ordinary] /\ \A s \in codes : keep[s] \in group(s)
  <2>1. keep \in [codes -> ordinary] /\ \A s \in codes : keep[s] \in Best(group(s))
    OBVIOUS
  <2>2. \A s \in codes : Best(group(s)) \subseteq group(s)
    BY DEF Best
  <2> HIDE DEF ordinary, group, codes, gone, heir
  <2> QED
    BY <2>1, <2>2
<1>3. \A s \in codes : /\ keep[s] \in index /\ Ordinary(keep[s])
                       /\ keep[s] # lease.bound
                       /\ task[keep[s]].sym = s
                       /\ keep[s] \notin gone
  BY <1>2
<1>4. \A t \in ordinary : task[t].sym \in codes
  BY DEF Payload
<1>5. \A t \in ordinary : t \in gone <=> t # keep[task[t].sym]
  BY <1>3, <1>4
<1>6. heir \in [gone -> index \ gone] /\ \A t \in gone : Ordinary(heir[t])
  BY <1>3, <1>4
<1>7. \A s \in Symbols :
        symbols[s] \in excluded <=>
          /\ symbols[s] \in index /\ Exists(symbols[s])
          /\ ~(Ordinary(symbols[s]) /\ symbols[s] # lease.bound)
  OBVIOUS
<1>8. symbols' = [s \in Symbols |->
                       IF s \in codes THEN keep[s]
                       ELSE IF symbols[s] \in index /\ Exists(symbols[s])
                               /\ ~(Ordinary(symbols[s])
                                    /\ symbols[s] # lease.bound)
                            THEN NoId
                       ELSE symbols[s]]
  BY <1>1, <1>7
<1>9. /\ task' = [t \in Ids |->
                    IF t \in gone THEN Absent
                    ELSE IF t \in Interrupted
                         THEN [task[t] EXCEPT !.st = "QUEUED"]
                    ELSE task[t]]
      /\ fifo' = Keep(order \o fifo, Ids \ gone)
      /\ index' = {t \in index : Exists(t)} \ gone
      /\ aliases' = Inherited(heir)
      /\ count' = Cardinality({t \in index \ gone : IsActive(t)})
  BY <1>1
<1>10. /\ api = "DOWN" /\ api' = "UP"
       /\ UNCHANGED <<lease, runner, cleaner, crashes>>
  BY DEF Boot
<1>11. /\ gone \in SUBSET index /\ codes \in SUBSET Symbols
       /\ keep \in [codes -> index \ gone]
       /\ \A t \in gone : Ordinary(t) /\ t # lease.bound
  BY <1>2, <1>3
<1>12. \A t \in index : Ordinary(t) /\ t # lease.bound =>
           /\ task[t].sym \in codes
           /\ t \in gone <=> t # keep[task[t].sym]
  BY <1>4, <1>5
<1>13. \A s \in codes : /\ Ordinary(keep[s]) /\ keep[s] # lease.bound
                        /\ task[keep[s]].sym = s
  BY <1>3
<1> HIDE DEF gone, heir, codes, ordinary, group, excluded, Types, StoreTypeOK
<1>14. BootShape(order, gone, codes, heir, keep)
  BY <1>6, <1>8, <1>9, <1>10, <1>11, <1>12, <1>13 DEF BootShape
<1> QED
  BY <1>6, <1>11, <1>14

(* What the scripts that remove acceptance tasks make of the store.         *)
RemoveShape(R, c) ==
  /\ c # NoId => c \in index \ R /\ Ordinary(c) /\ task[c].sym = AccSymbol
  /\ c = NoId => \A t \in index \ R :
                   ~(Ordinary(t) /\ task[t].sym = AccSymbol)
  /\ aliases' = [a \in Ids |-> IF a \in R THEN NoId
                               ELSE IF aliases[a] \in R THEN c
                               ELSE aliases[a]]
  /\ symbols' = [symbols EXCEPT ![AccSymbol] = c]
  /\ fifo' = Keep(fifo, Ids \ R)
  /\ task' = [t \in Ids |-> IF t \in R THEN Absent ELSE task[t]]
  /\ index' = index \ R

(* What removing a set of tasks leaves, without the symbol it frees.        *)
LEMMA RemoveFacts ==
  ASSUME Types, NEW R \in SUBSET Ids, RemoveTasks(R)
  PROVE  \E c \in Ids \cup {NoId} : RemoveShape(R, c)
<1> USE ConstantAssumption DEF Types, StoreTypeOK
<1>1. PICK c \in OrdinaryCanonical(AccSymbol, R) :
        /\ aliases' = [a \in Ids |-> IF a \in R THEN NoId
                                     ELSE IF aliases[a] \in R THEN c
                                     ELSE aliases[a]]
        /\ symbols' = [symbols EXCEPT ![AccSymbol] = c]
        /\ fifo' = Keep(fifo, Ids \ R)
        /\ task' = [t \in Ids |-> IF t \in R THEN Absent ELSE task[t]]
        /\ index' = index \ R
  BY DEF RemoveTasks
<1> DEFINE S == {t \in index \ R : Ordinary(t) /\ task[t].sym = AccSymbol}
<1>2. S = {} => c = NoId
  BY DEF OrdinaryCanonical
<1>3. S # {} => c \in S
  BY DEF OrdinaryCanonical, Best
<1>4. c = NoId => S = {}
  BY <1>3
<1>5. c # NoId => c \in S
  BY <1>2, <1>3
<1>6. c \in Ids \cup {NoId}
  BY <1>5
<1>7. c = NoId => \A t \in index \ R :
                       ~(Ordinary(t) /\ task[t].sym = AccSymbol)
  BY <1>4
<1>8. RemoveShape(R, c)
  BY <1>1, <1>5, <1>7 DEF RemoveShape
<1> QED
  BY <1>6, <1>8

(* What a claim without a lease makes of the list.                          *)
LEMMA ClaimNextFacts ==
  ASSUME fifo \in Seq(Ids), ClaimNext
  PROVE  \E t \in Ids, a \in Seq(Ids), b \in Seq(Ids) :
           /\ Claimable(t) /\ Claim(t)
           /\ fifo = Append(a, t) \o b
           /\ fifo' = b
           /\ \A y : Contains(a, y) => ~Claimable(y)
<1>1. PICK t \in Ids, k \in 1..Len(fifo) :
        /\ fifo[k] = t
        /\ Claimable(t)
        /\ \A j \in 1..(k - 1) : ~Claimable(fifo[j])
        /\ fifo' = SubSeq(fifo, k + 1, Len(fifo))
        /\ Claim(t)
  BY DEF ClaimNext
<1> DEFINE a == SubSeq(fifo, 1, k - 1)
           b == SubSeq(fifo, k + 1, Len(fifo))
<1>2. /\ a \in Seq(Ids) /\ b \in Seq(Ids)
      /\ fifo = Append(a, fifo[k]) \o b
      /\ \A y : Contains(a, y) <=> \E j \in 1..(k - 1) : fifo[j] = y
  BY CutList
<1> HIDE DEF a
<1> QED
  BY <1>1, <1>2

(* Membership in the list after LREM, and after LREM and RPUSH.             *)
LEMMA UnlistedHas ==
  ASSUME fifo \in Seq(Ids), NEW t \in Ids
  PROVE  /\ Unlisted(t) \in Seq(Ids)
         /\ \A y : Contains(Unlisted(t), y) <=> Contains(fifo, y) /\ y # t
<1>1. Unlisted(t) \in Seq(Ids)
  BY KeepType DEF Unlisted
<1>2. \A y : Contains(Unlisted(t), y) <=> Contains(fifo, y) /\ y \in Ids \ {t}
  BY KeepContains DEF Unlisted
<1>3. \A y : Contains(fifo, y) => y \in Ids
  BY DEF Contains
<1> QED
  BY <1>1, <1>2, <1>3

(* LREM and RPUSH of an id leave the list with that id and the others.      *)
LEMMA ToBackHas ==
  ASSUME fifo \in Seq(Ids), NEW t \in Ids
  PROVE  /\ ToBack(t) \in Seq(Ids)
         /\ \A y : Contains(ToBack(t), y) <=> Contains(fifo, y) \/ y = t
<1>1. Unlisted(t) \in Seq(Ids)
  BY UnlistedHas
<1>2. ToBack(t) \in Seq(Ids)
  BY <1>1 DEF ToBack
<1>3. \A y : Contains(ToBack(t), y) <=> Contains(Unlisted(t), y) \/ y = t
  BY <1>1, ContainsAppend DEF ToBack
<1> QED
  BY <1>2, <1>3, UnlistedHas

(* RPUSH leaves the list with one more id.                                  *)
LEMMA AppendHas ==
  ASSUME fifo \in Seq(Ids), NEW t \in Ids
  PROVE  /\ Append(fifo, t) \in Seq(Ids)
         /\ \A y : Contains(Append(fifo, t), y) <=> Contains(fifo, y) \/ y = t
<1>1. Append(fifo, t) \in Seq(Ids)
  OBVIOUS
<1> QED
  BY <1>1, ContainsAppend

(* The list after a startup: what was interrupted, then what was listed,    *)
(* without the tasks that go.                                               *)
LEMMA BootHas ==
  ASSUME Types, fifo \in Seq(Ids), NEW order \in SetToSeqs(Interrupted),
         NEW gone
  PROVE  LET list == Keep(order \o fifo, Ids \ gone)
         IN  /\ list \in Seq(Ids)
             /\ \A y : Contains(list, y) <=>
                  (y \in Interrupted \/ Contains(fifo, y)) /\ y \notin gone
<1>1. Interrupted \subseteq Ids /\ IsFiniteSet(Interrupted)
  <2>1. Interrupted \subseteq Ids
    BY DEF Interrupted, Types, StoreTypeOK
  <2> QED
    BY <2>1, ConstantAssumption, FS_Subset
<1>2. /\ order \in Seq(Interrupted)
      /\ \A y : Contains(order, y) <=> y \in Interrupted
  BY <1>1, ListingHas
<1>3. order \in Seq(Ids)
  BY <1>1, <1>2
<1>4. order \o fifo \in Seq(Ids)
  BY <1>3
<1>5. \A y : Contains(order \o fifo, y) <=> y \in Interrupted \/ Contains(fifo, y)
  BY <1>2, <1>3, ContainsConcat
<1>6. Keep(order \o fifo, Ids \ gone) \in Seq(Ids)
  BY <1>4, KeepType
<1>7. \A y : Contains(Keep(order \o fifo, Ids \ gone), y)
               <=> Contains(order \o fifo, y) /\ y \in Ids \ gone
  BY <1>4, KeepContains
<1>8. \A y : Contains(fifo, y) => y \in Ids
  BY DEF Contains
<1> QED
  BY <1>1, <1>5, <1>6, <1>7, <1>8

-----------------------------------------------------------------------------
(* The pending list, with its type, holds every claimable task.             *)
ListSound == fifo \in Seq(Ids) /\ QueuedIsListed

(* It is enough that a task that becomes claimable is put on the list and   *)
(* that one that stays claimable stays on it.                               *)
LEMMA ListedFrom ==
  ASSUME ListSound, fifo' \in Seq(Ids),
         \A u \in Ids : Claimable(u)' =>
           \/ Contains(fifo', u)
           \/ Claimable(u) /\ (Contains(fifo, u) => Contains(fifo', u))
  PROVE  ListSound'
BY DEF ListSound, QueuedIsListed

(* The operations that queue one task, or leave the list as it is.          *)
LEMMA ListedPush ==
  ASSUME ListSound, NEW t \in Ids,
         fifo' \in {Append(fifo, t), ToBack(t)},
         \A u \in Ids : u # t => task'[u] = task[u]
  PROVE  ListSound'
<1>0. fifo \in Seq(Ids)
  BY DEF ListSound
<1>1. /\ fifo' \in Seq(Ids)
      /\ \A y : Contains(fifo', y) <=> Contains(fifo, y) \/ y = t
  <2>1. CASE fifo' = Append(fifo, t)
    BY <1>0, <2>1, AppendHas
  <2>2. CASE fifo' = ToBack(t)
    BY <1>0, <2>2, ToBackHas
  <2> QED
    BY <2>1, <2>2
<1>2. \A u \in Ids : u # t /\ Claimable(u)' => Claimable(u)
  BY DEF Claimable, Ordinary, Exists
<1> QED
  BY <1>1, <1>2, ListedFrom

(* The steps that leave the list alone and make no task claimable.          *)
LEMMA ListedSame ==
  ASSUME ListSound, fifo' = fifo,
         \A u \in Ids : Claimable(u)' => Claimable(u)
  PROVE  ListSound'
BY ListedFrom DEF ListSound

(* No operation of any caller loses a claimable task.                       *)
LEMMA ListedStep ==
  ASSUME Types, Types', Safe, ListSound, [Next]_vars
  PROVE  ListSound'
<1> USE ConstantAssumption
<1>0. /\ task \in [Ids -> Payload] /\ task' \in [Ids -> Payload]
      /\ fifo \in Seq(Ids)
  BY DEF Types, StoreTypeOK, ListSound
<1>1. ASSUME NEW s \in Symbols, NEW t \in Ids, SubmitNew(s, t)
      PROVE  ListSound'
  BY <1>0, <1>1, ListedPush DEF SubmitNew
<1>2. ASSUME NEW s \in Symbols, SubmitRefresh(s)
      PROVE  ListSound'
  <2>1. symbols[s] \in Ids
    BY <1>2 DEF SubmitRefresh, Usable, Types, StoreTypeOK
  <2> QED
    BY <1>0, <1>2, <2>1, ListedPush DEF SubmitRefresh
<1>3. ASSUME NEW t \in Ids, RefreshTask(t) \/ RetryFailed(t) \/ RequeueWaiting(t)
      PROVE  ListSound'
  <2>1. fifo' = Append(fifo, t)
    BY <1>3 DEF RefreshTask, RetryFailed, RequeueWaiting, Resumed
  <2>2. \A u \in Ids : u # t => task'[u] = task[u]
    BY <1>0, <1>3 DEF RefreshTask, RetryFailed, RequeueWaiting, Resumed
  <2> QED
    BY <2>1, <2>2, ListedPush
<1>4. ASSUME NEW o \in Owners, NEW t \in Ids, BindNew(o, t)
      PROVE  ListSound'
  BY <1>0, <1>4, ListedPush DEF BindNew
<1>5. ASSUME NEW o \in Owners, BindAgain(o)
      PROVE  ListSound'
  <2>1. lease.bound \in Ids
    BY <1>5 DEF BindAgain, Types, StoreTypeOK
  <2>2. \A u \in Ids : u # lease.bound => task'[u] = task[u]
    BY <1>0, <1>5 DEF BindAgain
  <2>3. CASE fifo' = ToBack(lease.bound)
    BY <2>1, <2>2, <2>3, ListedPush
  <2>4. CASE fifo' = fifo
    <3>1. task'[lease.bound].owner = o
      BY <1>0, <1>5, <2>1 DEF BindAgain, NewTask, Payload
    <3>2. \A u \in Ids : Claimable(u)' => Claimable(u)
      BY <2>2, <3>1 DEF Claimable, Ordinary, Exists
    <3> QED
      BY <2>4, <3>2, ListedSame
  <2> QED
    BY <1>5, <2>3, <2>4 DEF BindAgain
<1>6. ASSUME NEW R \in SUBSET Ids, RemoveTasks(R)
      PROVE  ListSound'
  <2>1. PICK c \in Ids \cup {NoId} : RemoveShape(R, c)
    BY <1>6, RemoveFacts
  <2>2. fifo' = Keep(fifo, Ids \ R)
    BY <2>1 DEF RemoveShape
  <2>3. fifo' \in Seq(Ids)
    BY <1>0, <2>2, KeepType
  <2>4. \A y : Contains(fifo', y) <=> Contains(fifo, y) /\ y \in Ids \ R
    BY <1>0, <2>2, KeepContains
  <2>5. ASSUME NEW u \in Ids, Claimable(u)' PROVE Claimable(u) /\ u \notin R
    BY <1>0, <2>1, <2>5 DEF RemoveShape, Claimable, Ordinary, Exists, Absent
  <2> QED
    BY <2>3, <2>4, <2>5, ListedFrom
<1>7. ASSUME NEW o \in Owners, ReleaseLease(o)
      PROVE  ListSound'
  <2>1. CASE UNCHANGED store
    BY <2>1, ListedSame DEF store, Claimable, Ordinary, Exists
  <2>2. CASE lease.bound # NoId /\ RemoveTasks({lease.bound})
    <3>1. {lease.bound} \in SUBSET Ids
      BY <2>2 DEF Types, StoreTypeOK
    <3> QED
      BY <1>6, <2>2, <3>1
  <2> QED
    BY <1>7, <2>1, <2>2 DEF ReleaseLease
<1>8. CASE CleanupAcceptance
  <2>1. {t \in index : Acceptance(t)} \in SUBSET Ids
    BY DEF Types, StoreTypeOK
  <2> QED
    BY <1>6, <1>8, <2>1 DEF CleanupAcceptance
<1>9. ASSUME NEW t \in Ids, Claim(t) PROVE \A u \in Ids :
               Claimable(u)' => Claimable(u) /\ u # t
  BY <1>0, <1>9 DEF Claim, Claimable, Ordinary, Exists, Payload
<1>10. CASE ClaimBound
  <2>1. /\ lease.bound \in Ids /\ Claim(lease.bound)
        /\ fifo' = Unlisted(lease.bound)
    BY <1>10 DEF ClaimBound, Types, StoreTypeOK
  <2> QED
    BY <1>0, <1>9, <2>1, UnlistedHas, ListedFrom
<1>11. CASE ClaimNext
  <2>1. PICK t \in Ids, a \in Seq(Ids), b \in Seq(Ids) :
           /\ Claimable(t) /\ Claim(t)
           /\ fifo = Append(a, t) \o b
           /\ fifo' = b
           /\ \A y : Contains(a, y) => ~Claimable(y)
    BY <1>0, <1>11, ClaimNextFacts
  <2>2. Append(a, t) \in Seq(Ids)
    BY <2>1
  <2>3. \A y : Contains(fifo, y) <=> Contains(a, y) \/ y = t \/ Contains(b, y)
    <3>1. \A y : Contains(Append(a, t), y) <=> Contains(a, y) \/ y = t
      BY ContainsAppend
    <3>2. \A y : Contains(Append(a, t) \o b, y)
                   <=> Contains(Append(a, t), y) \/ Contains(b, y)
      BY <2>2, ContainsConcat
    <3> QED
      BY <2>1, <3>1, <3>2
  <2> QED
    BY <1>9, <2>1, <2>3, ListedFrom
<1>12. CASE ClaimNothing
  <2>1. fifo' = <<>> /\ task' = task
    BY <1>12 DEF ClaimNothing
  <2>2. \A u \in Ids : ~Claimable(u)
    BY <1>12 DEF ClaimNothing, ListSound, QueuedIsListed, Contains
  <2> QED
    BY <2>1, <2>2, ListedFrom DEF Claimable, Ordinary, Exists
<1>13. CASE RunnerPersist
  <2>1. /\ runner.id \in Ids /\ fifo' = fifo
        /\ task' = [task EXCEPT ![runner.id] = runner.rec]
        /\ runner.rec.st # "QUEUED"
    BY <1>13 DEF RunnerPersist, Types, Safe, RunnerSound, Terminal, AllResults
  <2> QED
    BY <1>0, <2>1, ListedSame DEF Claimable, Ordinary, Exists
<1>14. CASE CleanupSave
  <2>1. /\ cleaner.id \in Ids /\ fifo' = fifo
        /\ task' = [task EXCEPT ![cleaner.id] = cleaner.rec]
        /\ cleaner.rec.st # "QUEUED"
    BY <1>14 DEF CleanupSave, Types, Safe, CleanerSound, Terminal, AllResults
  <2> QED
    BY <1>0, <2>1, ListedSame DEF Claimable, Ordinary, Exists
<1>15. CASE Boot
  <2>1. PICK order \in SetToSeqs(Interrupted), gone \in SUBSET index,
             codes \in SUBSET Symbols :
          \E heir \in [gone -> index \ gone], keep \in [codes -> index \ gone] :
            BootShape(order, gone, codes, heir, keep)
    BY <1>15, BootFacts
  <2>2. /\ task' = [t \in Ids |->
                IF t \in gone THEN Absent
                ELSE IF t \in Interrupted
                     THEN [task[t] EXCEPT !.st = "QUEUED"]
                ELSE task[t]]
        /\ fifo' = Keep(order \o fifo, Ids \ gone)
    BY <2>1 DEF BootShape
  <2>3. /\ fifo' \in Seq(Ids)
        /\ \A y : Contains(fifo', y) <=>
                  (y \in Interrupted \/ Contains(fifo, y)) /\ y \notin gone
    BY <1>0, <2>2, BootHas
  <2>4. ASSUME NEW u \in Ids, Claimable(u)'
        PROVE  u \notin gone /\ (u \in Interrupted \/ Claimable(u))
    <3>1. u \notin gone
      BY <2>2, <2>4 DEF Claimable, Ordinary, Exists, Absent
    <3> QED
      BY <1>0, <2>2, <2>4, <3>1 DEF Claimable, Ordinary, Exists
  <2> QED
    BY <2>3, <2>4, ListedFrom
<1>16. CASE UNCHANGED <<task, fifo>>
  BY <1>16, ListedSame DEF Claimable, Ordinary, Exists
<1>17. \/ \E s \in Symbols, t \in Ids : SubmitNew(s, t)
       \/ \E s \in Symbols : SubmitRefresh(s)
       \/ \E t \in Ids : RefreshTask(t) \/ RetryFailed(t) \/ RequeueWaiting(t)
       \/ \E o \in Owners, t \in Ids : BindNew(o, t)
       \/ \E o \in Owners : BindAgain(o) \/ ReleaseLease(o)
       \/ ClaimBound \/ ClaimNext \/ ClaimNothing \/ RunnerPersist
       \/ CleanupAcceptance \/ CleanupSave \/ Boot
       \/ UNCHANGED <<task, fifo>>
  BY DEF Next, PublicNext, LeaseNext, RunnerNext, CleanerNext, vars, store,
         AcquireLease, RenewLease, ExpireLease, RunnerRead, RunnerRefused,
         RunnerFault, RunnerFallback, CleanupRead, Crash
<1> QED
  BY <1>1, <1>2, <1>3, <1>4, <1>5, <1>7, <1>8, <1>10, <1>11, <1>12, <1>13,
     <1>14, <1>15, <1>16, <1>17

(* Also the list an earlier release left holds every task it left QUEUED.   *)
LEMMA ListedInit == Init => ListSound
<1> SUFFICES ASSUME Init PROVE ListSound
  OBVIOUS
<1>0. OldRelease \in BOOLEAN
  BY ConstantAssumption
<1>1. CASE ~OldRelease
  <2>1. fifo = <<>> /\ \A t \in Ids : task[t].st = "ABSENT"
    BY <1>1 DEF Init, EmptyInit, Absent
  <2> QED
    BY <2>1 DEF ListSound, QueuedIsListed, Claimable
<1>2. CASE OldRelease
  <2> DEFINE Q == {t \in Ids : task[t].st = "QUEUED"}
  <2>1. fifo \in SetToSeqs(Q)
    BY <1>2 DEF Init, OldReleaseInit
  <2>2. IsFiniteSet(Q)
    BY ConstantAssumption, FS_Subset
  <2>3. fifo \in Seq(Q) /\ \A y : Contains(fifo, y) <=> y \in Q
    BY <2>1, <2>2, ListingHas
  <2>4. fifo \in Seq(Ids)
    BY <2>3
  <2> QED
    BY <2>3, <2>4 DEF ListSound, QueuedIsListed, Claimable
<1> QED
  BY <1>0, <1>1, <1>2

(* Whatever the faults, the list is a list of ids.                          *)
LEMMA ListTypeStep ==
  ASSUME Types, fifo \in Seq(Ids), [Next]_vars
  PROVE  fifo' \in Seq(Ids)
<1>1. \A t \in Ids : /\ Append(fifo, t) \in Seq(Ids)
                     /\ ToBack(t) \in Seq(Ids) /\ Unlisted(t) \in Seq(Ids)
  BY AppendHas, ToBackHas, UnlistedHas
<1>2. \A R : Keep(fifo, Ids \ R) \in Seq(Ids)
  BY KeepType
<1>3. ASSUME NEW t \in Ids, NEW s \in Symbols,
             \/ SubmitNew(s, t) \/ RefreshTask(t) \/ RetryFailed(t)
             \/ RequeueWaiting(t) \/ \E o \in Owners : BindNew(o, t)
      PROVE  fifo' \in Seq(Ids)
  <2>1. fifo' = Append(fifo, t)
    BY <1>3
    DEF SubmitNew, RefreshTask, RetryFailed, RequeueWaiting, Resumed, BindNew
  <2> QED
    BY <1>1, <2>1
<1>4. ASSUME NEW s \in Symbols, SubmitRefresh(s) PROVE fifo' \in Seq(Ids)
  <2>1. symbols[s] \in Ids /\ fifo' = ToBack(symbols[s])
    BY <1>4 DEF SubmitRefresh, Usable, Types, StoreTypeOK
  <2> QED
    BY <1>1, <2>1
<1>5. ASSUME NEW o \in Owners, BindAgain(o) PROVE fifo' \in Seq(Ids)
  <2>1. lease.bound \in Ids /\ fifo' \in {fifo, ToBack(lease.bound)}
    BY <1>5 DEF BindAgain, Types, StoreTypeOK
  <2> QED
    BY <1>1, <2>1
<1>6. ASSUME NEW R, RemoveTasks(R) PROVE fifo' \in Seq(Ids)
  <2>1. fifo' = Keep(fifo, Ids \ R)
    BY <1>6 DEF RemoveTasks
  <2> QED
    BY <1>2, <2>1
<1>7. CASE ClaimBound
  <2>1. lease.bound \in Ids /\ fifo' = Unlisted(lease.bound)
    BY <1>7 DEF ClaimBound, Types, StoreTypeOK
  <2> QED
    BY <1>1, <2>1
<1>8. CASE ClaimNext
  BY <1>8, ClaimNextFacts
<1>9. CASE ClaimNothing
  <2>1. fifo' = <<>>
    BY <1>9 DEF ClaimNothing
  <2> QED
    BY <2>1
<1>10. CASE Boot
  <2>1. PICK order \in SetToSeqs(Interrupted), gone \in SUBSET index :
          fifo' = Keep(order \o fifo, Ids \ gone)
    BY <1>10, BootFacts DEF BootShape
  <2> QED
    BY <2>1, BootHas
<1>11. \/ \E s \in Symbols, t \in Ids : SubmitNew(s, t)
       \/ \E s \in Symbols : SubmitRefresh(s)
       \/ \E t \in Ids : RefreshTask(t) \/ RetryFailed(t) \/ RequeueWaiting(t)
       \/ \E o \in Owners, t \in Ids : BindNew(o, t)
       \/ \E o \in Owners : BindAgain(o)
       \/ \E R : RemoveTasks(R)
       \/ ClaimBound \/ ClaimNext \/ ClaimNothing \/ Boot
       \/ fifo' = fifo
  BY DEF Next, PublicNext, LeaseNext, RunnerNext, CleanerNext, vars, store,
         AcquireLease, RenewLease, ExpireLease, ReleaseLease, RunnerRead,
         RunnerRefused, RunnerPersist, RunnerFault, RunnerFallback,
         CleanupAcceptance, CleanupRead, CleanupSave, Crash
<1> QED
  BY <1>3, <1>4, <1>5, <1>6, <1>7, <1>8, <1>9, <1>10, <1>11,
     ConstantAssumption

(* Every action keeps the whole type of the store, the pending list         *)
(* included, whatever faults and restarts happen.                           *)
THEOREM StoreTyping == Spec => []TypeOK
<1> DEFINE Inv == Types /\ fifo \in Seq(Ids)
<1>1. Init => Inv
  BY TypesInit, ListedInit DEF ListSound
<1>2. Inv /\ [Next]_vars => Inv'
  BY TypesStep, ListTypeStep
<1>3. Inv => TypeOK
  BY DEF Types, TypeOK
<1> QED
  BY <1>1, <1>2, <1>3, PTL DEF Spec

(* No accepted request gets stuck: an ordinary queued task is always in the *)
(* pending list, for any number of tasks, codes, owners, faults and         *)
(* restarts, and whatever an earlier release left behind.                   *)
THEOREM QueuedAreListed ==
  ASSUME NoStaleRetry
  PROVE  Spec => []QueuedIsListed
<1> DEFINE Inv == Types /\ Safe /\ ListSound
<1>1. Init => Inv
  BY TypesInit, SafeInit, ListedInit
<1>2. Inv /\ [Next]_vars => Inv'
  BY TypesStep, SafeStep, ListedStep, NoStaleRetry
<1>3. Inv => QueuedIsListed
  BY DEF ListSound
<1> QED
  BY <1>1, <1>2, <1>3, PTL DEF Spec

-----------------------------------------------------------------------------
(* What the symbol index names is an ordinary task of that code.            *)
SymbolsNamed ==
  \A s \in Symbols : symbols[s] # NoId =>
    symbols[s] \in index /\ Ordinary(symbols[s]) /\ task[symbols[s]].sym = s

(* What the lease names, and every acceptance task, is of the fixed code.   *)
LeaseNamed ==
  /\ lease.bound # NoId =>
       lease.bound \in index /\ task[lease.bound].sym = AccSymbol
  /\ \A t \in Ids : Acceptance(t) => task[t].sym = AccSymbol

(* A payload outside the index is a finished acceptance task.               *)
LeftOver ==
  \A t \in Ids : Exists(t) /\ t \notin index => Done(t) /\ Acceptance(t)

(* What a loop is about to write is of the code of the task it is written   *)
(* over, if that is still there; an acceptance task is written finished.    *)
CopiesNamed ==
  /\ runner.pc \in {"write", "fail"} =>
       /\ Exists(runner.id) => task[runner.id].sym = runner.rec.sym
       /\ runner.rec.owner # NoOwner =>
            runner.rec.sym = AccSymbol /\ runner.rec.st \in Terminal
  /\ cleaner.pc = "write" => cleaner.rec.sym = task[cleaner.id].sym

Named == SymbolsNamed /\ LeaseNamed /\ LeftOver /\ CopiesNamed

(* Removing acceptance tasks leaves no index naming one of them.            *)
LEMMA NamedRemove ==
  ASSUME Types, Types', Safe, Named, NEW R \in SUBSET Ids, RemoveTasks(R),
         lease'.bound \in {lease.bound, NoId}, lease'.bound \notin R,
         \A t \in R : t = lease.bound \/ Acceptance(t),
         cleaner' = cleaner, runner' = runner
  PROVE  Named'
<1> USE ConstantAssumption
    DEF Types, StoreTypeOK, RunnerState, Payload, Named, SymbolsNamed,
        LeaseNamed, LeftOver, CopiesNamed, Ordinary, Acceptance, Exists, Done
<1>1. PICK c \in Ids \cup {NoId} : RemoveShape(R, c)
  BY RemoveFacts
<1>2. /\ c # NoId => c \in index \ R /\ Ordinary(c) /\ task[c].sym = AccSymbol
      /\ symbols' = [symbols EXCEPT ![AccSymbol] = c]
      /\ index' = index \ R
      /\ \A t \in R : task'[t] = Absent
      /\ \A t \in Ids \ R : task'[t] = task[t]
  BY <1>1 DEF RemoveShape
<1>3. Absent.st = "ABSENT"
  BY DEF Absent
<1>4. SymbolsNamed'
  BY <1>2
<1>5. LeaseNamed' /\ LeftOver'
  BY SMTT(30), <1>2, <1>3
<1>6. CopiesNamed'
  <2>1. cleaner.pc = "write" => cleaner.id \in Ids \ R
    BY DEF Safe, CleanerSound
  <2> QED
    BY <1>2, <1>3, <2>1
<1> QED
  BY <1>4, <1>5, <1>6

(* No step lets an index name a task that is not there.                     *)
LEMMA NamedStep ==
  ASSUME Types, Types', Safe, Named, [Next]_vars
  PROVE  Named'
<1> USE ConstantAssumption
    DEF Types, StoreTypeOK, RunnerState, Payload, Named, SymbolsNamed,
        LeaseNamed, LeftOver, CopiesNamed, Ordinary, Acceptance, Exists, Done
<1>0. /\ CleanerSound /\ RunnerSound /\ BoundSound /\ Indexed
  BY DEF Safe
<1>1. ASSUME NEW s \in Symbols, NEW t \in Ids, SubmitNew(s, t)
      PROVE  Named'
  BY <1>0, <1>1 DEF SubmitNew, Fresh, NewTask
<1>2. ASSUME NEW s \in Symbols, SubmitRefresh(s)
      PROVE  Named'
  BY <1>0, <1>2 DEF SubmitRefresh, Usable, Public, NewTask, RunnerSound
<1>3. ASSUME NEW t \in Ids, RefreshTask(t)
      PROVE  Named'
  BY <1>0, <1>3 DEF RefreshTask, Public, NewTask
<1>4. ASSUME NEW t \in Ids, RetryFailed(t)
      PROVE  Named'
  BY <1>0, <1>4 DEF RetryFailed, Public, Indexed
<1>5. ASSUME NEW t \in Ids, RequeueWaiting(t)
      PROVE  Named'
  BY <1>0, <1>5 DEF RequeueWaiting, Resumed, Public, Indexed
<1>6. ASSUME NEW o \in Owners, NEW digest \in BOOLEAN, AcquireLease(o, digest)
      PROVE  Named'
  BY <1>6 DEF AcquireLease, store
<1>7. ASSUME NEW o \in Owners, RenewLease(o)
      PROVE  Named'
  BY <1>7 DEF RenewLease, store
<1>8. CASE ExpireLease
  BY <1>8 DEF ExpireLease, NoLease, store
<1>9. ASSUME NEW o \in Owners, NEW t \in Ids, BindNew(o, t)
      PROVE  Named'
  BY <1>9 DEF BindNew, Fresh, NewTask
<1>10. ASSUME NEW o \in Owners, BindAgain(o)
      PROVE  Named'
  BY SMTT(30), <1>0, <1>10 DEF BindAgain, NewTask, BoundSound, CleanerSound
<1>11. ASSUME NEW o \in Owners, ReleaseLease(o)
      PROVE  Named'
  <2>1. CASE UNCHANGED store
    BY <1>11, <2>1 DEF ReleaseLease, NoLease, store
  <2>2. CASE lease.bound # NoId /\ RemoveTasks({lease.bound})
    <3>1. /\ {lease.bound} \in SUBSET Ids /\ lease'.bound = NoId
          /\ NoId \notin {lease.bound}
          /\ cleaner' = cleaner /\ runner' = runner
      BY <1>11, <2>2 DEF ReleaseLease, NoLease
    <3> HIDE DEF Types, StoreTypeOK, Named
    <3> QED
      BY <2>2, <3>1, NamedRemove
  <2> QED
    BY <1>11, <2>1, <2>2 DEF ReleaseLease
<1>12. CASE CleanupAcceptance
  <2> DEFINE R == {t \in index : Acceptance(t)}
  <2>1. /\ R \in SUBSET Ids /\ RemoveTasks(R) /\ lease' = lease
        /\ cleaner' = cleaner /\ runner' = runner
        /\ \A t \in R : Acceptance(t)
    BY <1>12 DEF CleanupAcceptance
  <2>2. lease.bound = NoId
    BY <1>0, <1>12 DEF CleanupAcceptance, BoundSound
  <2>3. lease'.bound \in {lease.bound, NoId} /\ lease'.bound \notin R
    BY <2>1, <2>2
  <2> HIDE DEF R, Types, StoreTypeOK, Named
  <2> QED
    BY <2>1, <2>3, NamedRemove
<1>13. ASSUME NEW t \in Ids, Claim(t), task[t].st = "QUEUED" PROVE Named'
  <2>1. /\ runner'.pc \in {"idle", "work"}
        /\ task' = [task EXCEPT ![t].st = "RUNNING"]
        /\ UNCHANGED <<index, symbols, lease, cleaner>>
    <3>1. runner' \in {[Idle EXCEPT !.pc = "work", !.id = t], Idle}
      BY <1>13 DEF Claim
    <3> QED
      BY <1>13, <3>1, WorkType, IdleType DEF Claim
  <2> QED
    BY <1>0, <1>13, <2>1 DEF Indexed
<1>14. CASE ClaimBound
  BY <1>13, <1>14 DEF ClaimBound
<1>15. CASE ClaimNext
  BY <1>13, <1>15 DEF ClaimNext, Claimable
<1>16. CASE ClaimNothing
  BY <1>16 DEF ClaimNothing
<1>17. CASE RunnerRead
  <2>1. PICK rec \in Outcome(runner.id) :
          runner' = [runner EXCEPT !.pc = "write", !.rec = rec,
                                   !.wasActive = IsActive(runner.id)]
    BY <1>17 DEF RunnerRead
  <2>2. /\ rec.sym = task[runner.id].sym /\ rec.owner = task[runner.id].owner
        /\ rec.st \in Statuses
        /\ task[runner.id].st \in AllowedFrom(rec.st)
        /\ Acceptance(runner.id) => rec.st # "WAITING_ADMIN"
    BY <2>1 DEF Outcome
  <2>3. task[runner.id].st # "ABSENT"
    BY <2>2 DEF AllowedFrom, Statuses, AllResults, Active
  <2>4. rec.owner # NoOwner => rec.sym = AccSymbol /\ rec.st \in Terminal
    BY <1>17, <2>2, <2>3 DEF RunnerRead, Statuses, Terminal, AllResults
  <2>5. runner'.rec = rec /\ runner'.id = runner.id
    BY <2>1
  <2> QED
    BY <1>17, <2>2, <2>4, <2>5 DEF RunnerRead, store
<1>18. CASE RunnerRefused
  BY <1>18, IdleType DEF RunnerRefused, store
<1>19. CASE RunnerPersist
  <2>1. /\ task' = [task EXCEPT ![runner.id] = runner.rec]
        /\ runner.id \in Ids /\ runner.rec.st # "ABSENT"
        /\ runner' \in {Idle, runner}
        /\ UNCHANGED <<index, symbols, lease, cleaner>>
        /\ runner.rec.owner = NoOwner <=> Ordinary(runner.id)
    BY <1>0, <1>19 DEF RunnerPersist, RunnerSound, Terminal, AllResults
  <2> QED
    BY <1>0, <1>19, <2>1, IdleType DEF RunnerPersist, Indexed, CleanerSound
<1>20. CASE RunnerFault
  BY <1>20, IdleType DEF RunnerFault, store
<1>21. CASE RunnerFallback
  <2> DEFINE old == task[runner.id]
  <2>1. CASE runner' = Idle
    <3>1. UNCHANGED <<task, index, symbols, lease, cleaner>> /\ runner'.pc = "idle"
      BY <1>21, <2>1, IdleType DEF RunnerFallback, store
    <3>2. SymbolsNamed' /\ LeaseNamed' /\ LeftOver'
      BY <3>1
    <3>3. CopiesNamed'
      BY <3>1
    <3> QED
      BY <3>2, <3>3
  <2>2. CASE runner' # Idle
    <3>1. /\ runner.id \in Ids
          /\ old.st # "ABSENT"
      BY <1>21, <2>2 DEF RunnerFallback, AllowedFrom, Active
    <3>2. /\ runner'.pc = "write" /\ runner'.id = runner.id
          /\ runner'.rec = [old EXCEPT !.st = "FAILED"]
      BY <1>21, <2>2 DEF RunnerFallback
    <3> QED
      BY <1>21, <3>1, <3>2 DEF RunnerFallback, Terminal, store
  <2> QED
    BY <2>1, <2>2
<1>22. ASSUME NEW t \in Ids, CleanupRead(t)
      PROVE  Named'
  BY <1>22 DEF CleanupRead, store
<1>23. CASE CleanupSave
  <2>1. /\ task' = [task EXCEPT ![cleaner.id] = cleaner.rec]
        /\ cleaner.id \in Ids /\ Ordinary(cleaner.id)
        /\ cleaner.rec.st \in Terminal /\ cleaner.rec.owner = NoOwner
        /\ cleaner.rec.sym = task[cleaner.id].sym
        /\ cleaner.rec.st # "ABSENT"
        /\ cleaner'.pc = "idle"
        /\ UNCHANGED <<index, symbols, lease, runner>>
    BY <1>0, <1>23 DEF CleanupSave, NoCleaning, CleanerSound, Terminal, AllResults
  <2>2. \A t \in Ids : /\ task'[t].sym = task[t].sym
                       /\ task'[t].owner = task[t].owner
                       /\ Exists(t)' <=> Exists(t)
                       /\ Done(t) => Done(t)'
    BY <2>1
  <2> QED
    BY <2>1, <2>2
<1>24. CASE Crash
  BY <1>24, IdleType DEF Crash, NoCleaning, store
<1>25. CASE Boot
  <2>1. PICK order \in SetToSeqs(Interrupted), gone \in SUBSET index,
             codes \in SUBSET Symbols :
          \E heir \in [gone -> index \ gone], keep \in [codes -> index \ gone] :
            BootShape(order, gone, codes, heir, keep)
    BY <1>25, BootFacts
  <2>2. PICK keep \in [codes -> index \ gone] :
          \E heir \in [gone -> index \ gone] :
            BootShape(order, gone, codes, heir, keep)
    BY <2>1
  <2>3. /\ runner.pc = "idle" /\ cleaner.pc = "idle"
        /\ UNCHANGED <<lease, runner, cleaner>>
    BY <2>2 DEF BootShape, Safe, DownIdle
  <2>4. /\ \A t \in Ids :
             task'[t] = IF t \in gone THEN Absent
                        ELSE IF t \in Interrupted
                             THEN [task[t] EXCEPT !.st = "QUEUED"]
                        ELSE task[t]
        /\ index' = {t \in index : Exists(t)} \ gone
        /\ \A t \in gone : Ordinary(t) /\ t # lease.bound
        /\ \A s \in codes : /\ Ordinary(keep[s]) /\ keep[s] # lease.bound
                            /\ task[keep[s]].sym = s
        /\ \A t \in index : Ordinary(t) /\ t # lease.bound =>
             task[t].sym \in codes
        /\ \A s \in Symbols :
             symbols'[s] = IF s \in codes THEN keep[s]
                           ELSE IF symbols[s] \in index /\ Exists(symbols[s])
                                   /\ ~(Ordinary(symbols[s])
                                        /\ symbols[s] # lease.bound)
                                THEN NoId
                           ELSE symbols[s]
    BY <2>2 DEF BootShape
  <2>5. Absent.st = "ABSENT"
    BY DEF Absent
  <2>6. \A t \in Ids \ gone : /\ task'[t].sym = task[t].sym
                              /\ task'[t].owner = task[t].owner
                              /\ Exists(t)' <=> Exists(t)
                              /\ Done(t)' <=> Done(t)
    BY <2>4 DEF Interrupted, Terminal, AllResults
  <2>7. SymbolsNamed'
    <3> SUFFICES ASSUME NEW s \in Symbols, symbols'[s] # NoId
                 PROVE  (symbols[s] \in index /\ Ordinary(symbols[s])
                         /\ task[symbols[s]].sym = s)'
      OBVIOUS
    <3>1. CASE s \in codes
      <4>1. symbols'[s] = keep[s] /\ keep[s] \in index \ gone
        BY <2>4, <3>1
      <4> QED
        BY <2>4, <2>6, <3>1, <4>1
    <3>2. CASE s \notin codes
      <4>1. symbols'[s] = symbols[s]
        BY <2>4, <3>2
      <4> QED
        BY <2>4, <3>2, <4>1
    <3> QED
      BY <3>1, <3>2
  <2>8. LeaseNamed' /\ LeftOver'
    BY <1>0, <2>3, <2>4, <2>5, <2>6 DEF BoundSound
  <2> QED
    BY <2>3, <2>7, <2>8
<1>26. CASE UNCHANGED vars
  BY <1>26 DEF vars
<1> HIDE DEF Types, StoreTypeOK, RunnerState, Payload, Named
<1> QED
  BY <1>1, <1>2, <1>3, <1>4, <1>5, <1>6, <1>7, <1>8, <1>9, <1>10, <1>11,
     <1>12, <1>14, <1>15, <1>16, <1>17, <1>18, <1>19, <1>20, <1>21,
     <1>22, <1>23, <1>24, <1>25, <1>26
  DEF Next, PublicNext, LeaseNext, RunnerNext, CleanerNext

-----------------------------------------------------------------------------
(* What the list names exists and is in the index.                          *)
ListNamed ==
  /\ fifo \in Seq(Ids)
  /\ \A t \in Ids : Contains(fifo, t) => Exists(t) /\ t \in index

(* Pushing the id of a task in the index keeps the list sound.              *)
LEMMA ListNamedPush ==
  ASSUME Types, ListNamed, NEW t \in Ids,
         fifo' \in {Append(fifo, t), ToBack(t)},
         task'[t].st # "ABSENT", t \in index',
         index \subseteq index', \A u \in Ids : u # t => task'[u] = task[u]
  PROVE  ListNamed'
<1>0. fifo \in Seq(Ids)
  BY DEF ListNamed
<1>1. /\ fifo' \in Seq(Ids)
      /\ \A y : Contains(fifo', y) <=> Contains(fifo, y) \/ y = t
  <2>1. CASE fifo' = Append(fifo, t)
    BY <1>0, <2>1, AppendHas
  <2>2. CASE fifo' = ToBack(t)
    BY <1>0, <2>2, ToBackHas
  <2> QED
    BY <2>1, <2>2
<1>2. \A u \in Ids : u # t /\ Contains(fifo', u) => Exists(u)' /\ u \in index'
  BY <1>1 DEF ListNamed, Exists
<1>3. Exists(t)' /\ t \in index'
  BY DEF Exists
<1> QED
  BY <1>1, <1>2, <1>3 DEF ListNamed

(* A list of fewer ids is sound when the tasks of these ids stay.           *)
LEMMA ListNamedLess ==
  ASSUME ListNamed, fifo' \in Seq(Ids),
         \A u \in Ids : Contains(fifo', u) =>
           Contains(fifo, u) /\ task'[u].st # "ABSENT" /\ u \in index'
  PROVE  ListNamed'
BY DEF ListNamed, Exists

(* No step lists an id that has no task or leaves one behind.               *)
LEMMA ListNamedStep ==
  ASSUME Types, Types', Safe, Named, ListNamed, [Next]_vars
  PROVE  ListNamed'
<1> USE ConstantAssumption
<1>0. /\ task \in [Ids -> Payload] /\ task' \in [Ids -> Payload]
      /\ fifo \in Seq(Ids) /\ index \subseteq Ids
      /\ \A t \in Ids : Contains(fifo, t) => task[t].st # "ABSENT" /\ t \in index
  BY DEF Types, StoreTypeOK, ListNamed, Exists
<1>1. ASSUME NEW s \in Symbols, NEW t \in Ids, SubmitNew(s, t)
      PROVE  ListNamed'
  <2>1. task'[t].st = "QUEUED"
    BY <1>0, <1>1 DEF SubmitNew, NewTask
  <2> QED
    BY <1>0, <1>1, <2>1, ListNamedPush DEF SubmitNew
<1>2. ASSUME NEW s \in Symbols, SubmitRefresh(s)
      PROVE  ListNamed'
  <2>1. symbols[s] \in Ids /\ symbols[s] \in index
    BY <1>2 DEF SubmitRefresh, Usable, Named, SymbolsNamed, Types, StoreTypeOK
  <2>2. task'[symbols[s]].st = "QUEUED"
    BY <1>0, <1>2, <2>1 DEF SubmitRefresh, NewTask
  <2> QED
    BY <1>0, <1>2, <2>1, <2>2, ListNamedPush DEF SubmitRefresh
<1>3. ASSUME NEW t \in Ids, RefreshTask(t) \/ RetryFailed(t) \/ RequeueWaiting(t)
      PROVE  ListNamed'
  <2>1. /\ fifo' = Append(fifo, t)
        /\ index' = index \/ index' = index \cup {t}
    BY <1>3 DEF RefreshTask, RetryFailed, RequeueWaiting, Resumed
  <2>2. \A u \in Ids : u # t => task'[u] = task[u]
    BY <1>0, <1>3 DEF RefreshTask, RetryFailed, RequeueWaiting, Resumed
  <2>3. task'[t].st = "QUEUED"
    BY <1>0, <1>3
    DEF RefreshTask, RetryFailed, RequeueWaiting, Resumed, NewTask, Payload
  <2>4. t \in index
    BY <1>3
    DEF RefreshTask, RetryFailed, RequeueWaiting, Resumed, Public, Safe, Indexed
  <2> QED
    BY <2>1, <2>2, <2>3, <2>4, ListNamedPush
<1>4. ASSUME NEW o \in Owners, NEW t \in Ids, BindNew(o, t)
      PROVE  ListNamed'
  <2>1. task'[t].st = "QUEUED"
    BY <1>0, <1>4 DEF BindNew, NewTask
  <2> QED
    BY <1>0, <1>4, <2>1, ListNamedPush DEF BindNew
<1>5. ASSUME NEW o \in Owners, BindAgain(o)
      PROVE  ListNamed'
  <2>1. lease.bound \in Ids /\ lease.bound \in index
    BY <1>5 DEF BindAgain, Named, LeaseNamed, Types, StoreTypeOK
  <2>2. \A u \in Ids : u # lease.bound => task'[u] = task[u]
    BY <1>0, <1>5 DEF BindAgain
  <2>3. /\ task'[lease.bound].st # "ABSENT"
        /\ index \subseteq index' /\ index' \subseteq Ids
    BY <1>0, <1>5, <2>1 DEF BindAgain, NewTask, Payload, Exists
  <2>4. CASE fifo' = ToBack(lease.bound)
    BY <2>1, <2>2, <2>3, <2>4, ListNamedPush
  <2>5. CASE fifo' = fifo
    BY <1>0, <2>1, <2>2, <2>3, <2>5, ListNamedLess
  <2> QED
    BY <1>5, <2>4, <2>5 DEF BindAgain
<1>6. ASSUME NEW R \in SUBSET Ids, RemoveTasks(R)
      PROVE  ListNamed'
  <2>1. PICK c \in Ids \cup {NoId} : RemoveShape(R, c)
    BY <1>6, RemoveFacts
  <2>2. /\ fifo' = Keep(fifo, Ids \ R)
        /\ index' = index \ R
        /\ \A t \in Ids \ R : task'[t] = task[t]
    BY <2>1 DEF RemoveShape
  <2>3. fifo' \in Seq(Ids)
    BY <1>0, <2>2, KeepType
  <2>4. \A y : Contains(fifo', y) <=> Contains(fifo, y) /\ y \in Ids \ R
    BY <1>0, <2>2, KeepContains
  <2> QED
    BY <1>0, <2>2, <2>3, <2>4, ListNamedLess
<1>7. ASSUME NEW o \in Owners, ReleaseLease(o)
      PROVE  ListNamed'
  <2>1. CASE UNCHANGED store
    BY <1>0, <2>1, ListNamedLess DEF store
  <2>2. CASE lease.bound # NoId /\ RemoveTasks({lease.bound})
    <3>1. {lease.bound} \in SUBSET Ids
      BY <2>2 DEF Types, StoreTypeOK
    <3> QED
      BY <1>6, <2>2, <3>1
  <2> QED
    BY <1>7, <2>1, <2>2 DEF ReleaseLease
<1>8. CASE CleanupAcceptance
  <2>1. {t \in index : Acceptance(t)} \in SUBSET Ids
    BY <1>0
  <2> QED
    BY <1>6, <1>8, <2>1 DEF CleanupAcceptance
<1>9. ASSUME NEW t \in Ids, Claim(t) PROVE
             index' = index /\ \A u \in Ids : task[u].st # "ABSENT" =>
               task'[u].st # "ABSENT"
  BY <1>0, <1>9 DEF Claim, Payload
<1>10. CASE ClaimBound
  <2>1. /\ lease.bound \in Ids /\ Claim(lease.bound)
        /\ fifo' = Unlisted(lease.bound)
    BY <1>10 DEF ClaimBound, Types, StoreTypeOK
  <2> QED
    BY <1>0, <1>9, <2>1, UnlistedHas, ListNamedLess
<1>11. CASE ClaimNext
  <2>1. PICK t \in Ids, a \in Seq(Ids), b \in Seq(Ids) :
           Claim(t) /\ fifo = Append(a, t) \o b /\ fifo' = b
    BY <1>0, <1>11, ClaimNextFacts
  <2>2. Append(a, t) \in Seq(Ids)
    BY <2>1
  <2>3. \A y : Contains(b, y) => Contains(fifo, y)
    BY <2>1, <2>2, ContainsConcat
  <2> QED
    BY <1>0, <1>9, <2>1, <2>3, ListNamedLess
<1>12. CASE ClaimNothing
  <2>1. fifo' = <<>>
    BY <1>12 DEF ClaimNothing
  <2> QED
    BY <2>1 DEF ListNamed, Contains
<1>13. CASE RunnerPersist
  <2>1. /\ runner.id \in Ids /\ fifo' = fifo /\ index' = index
        /\ task' = [task EXCEPT ![runner.id] = runner.rec]
        /\ runner.rec.st # "ABSENT"
    BY <1>13 DEF RunnerPersist, Types, Safe, RunnerSound, Terminal, AllResults
  <2> QED
    BY <1>0, <2>1, ListNamedLess
<1>14. CASE CleanupSave
  <2>1. /\ cleaner.id \in Ids /\ fifo' = fifo /\ index' = index
        /\ task' = [task EXCEPT ![cleaner.id] = cleaner.rec]
        /\ cleaner.rec.st # "ABSENT"
    BY <1>14 DEF CleanupSave, Types, Safe, CleanerSound, Terminal, AllResults
  <2> QED
    BY <1>0, <2>1, ListNamedLess
<1>15. CASE Boot
  <2>1. PICK order \in SetToSeqs(Interrupted), gone \in SUBSET index,
             codes \in SUBSET Symbols :
          \E heir \in [gone -> index \ gone], keep \in [codes -> index \ gone] :
            BootShape(order, gone, codes, heir, keep)
    BY <1>15, BootFacts
  <2>2. /\ task' = [t \in Ids |->
                IF t \in gone THEN Absent
                ELSE IF t \in Interrupted
                     THEN [task[t] EXCEPT !.st = "QUEUED"]
                ELSE task[t]]
        /\ fifo' = Keep(order \o fifo, Ids \ gone)
        /\ index' = {t \in index : Exists(t)} \ gone
    BY <2>1 DEF BootShape
  <2>3. /\ fifo' \in Seq(Ids)
        /\ \A y : Contains(fifo', y) <=>
                  (y \in Interrupted \/ Contains(fifo, y)) /\ y \notin gone
    BY <1>0, <2>2, BootHas
  <2>4. ASSUME NEW u \in Ids, Contains(fifo', u)
        PROVE  task'[u].st # "ABSENT" /\ u \in index'
    <3>1. u \notin gone /\ task[u].st # "ABSENT" /\ u \in index
      BY <1>0, <2>3, <2>4 DEF Interrupted
    <3>2. \/ task'[u] = task[u]
          \/ task'[u] = [task[u] EXCEPT !.st = "QUEUED"]
      BY <2>2, <3>1
    <3> QED
      BY <1>0, <2>2, <3>1, <3>2 DEF Exists, Payload
  <2> QED
    BY <2>3, <2>4 DEF ListNamed, Exists
<1>16. CASE UNCHANGED <<task, fifo, index>>
  BY <1>0, <1>16, ListNamedLess
<1>17. \/ \E s \in Symbols, t \in Ids : SubmitNew(s, t)
       \/ \E s \in Symbols : SubmitRefresh(s)
       \/ \E t \in Ids : RefreshTask(t) \/ RetryFailed(t) \/ RequeueWaiting(t)
       \/ \E o \in Owners, t \in Ids : BindNew(o, t)
       \/ \E o \in Owners : BindAgain(o) \/ ReleaseLease(o)
       \/ ClaimBound \/ ClaimNext \/ ClaimNothing \/ RunnerPersist
       \/ CleanupAcceptance \/ CleanupSave \/ Boot
       \/ UNCHANGED <<task, fifo, index>>
  BY DEF Next, PublicNext, LeaseNext, RunnerNext, CleanerNext, vars, store,
         AcquireLease, RenewLease, ExpireLease, RunnerRead, RunnerRefused,
         RunnerFault, RunnerFallback, CleanupRead, Crash
<1> QED
  BY <1>1, <1>2, <1>3, <1>4, <1>5, <1>7, <1>8, <1>10, <1>11, <1>12, <1>13,
     <1>14, <1>15, <1>16, <1>17

(* The names an empty store, or an earlier release, starts with.            *)
LEMMA NamedInit == Init => Named /\ ListNamed
<1> SUFFICES ASSUME Init PROVE Named /\ ListNamed
  OBVIOUS
<1> USE ConstantAssumption
<1>0. OldRelease \in BOOLEAN
  OBVIOUS
<1>1. runner.pc = "idle" /\ cleaner.pc = "idle"
  BY IdleType DEF Init, NoCleaning
<1>2. CopiesNamed
  BY <1>1 DEF CopiesNamed
<1>3. fifo \in Seq(Ids)
  BY ListedInit DEF ListSound
<1>4. CASE ~OldRelease
  <2>1. /\ fifo = <<>> /\ \A t \in Ids : task[t].st = "ABSENT"
        /\ lease.bound = NoId /\ \A s \in Symbols : symbols[s] = NoId
    BY <1>4 DEF Init, EmptyInit, Absent, NoLease
  <2>2. \A t \in Ids : ~Contains(fifo, t)
    BY <2>1 DEF Contains
  <2>3. SymbolsNamed /\ LeaseNamed /\ LeftOver
    BY <2>1 DEF SymbolsNamed, LeaseNamed, LeftOver, Acceptance, Exists
  <2> QED
    BY <1>2, <1>3, <2>2, <2>3 DEF Named, ListNamed
<1>5. CASE OldRelease
  <2>1. OldReleaseInit
    BY <1>5 DEF Init
  <2>2. index = Ids /\ task \in [Ids -> {Absent} \cup OldPayload]
    BY <2>1 DEF OldReleaseInit
  <2>3. \A t \in Ids : ~Acceptance(t)
    <3>1. \A rec \in {Absent} \cup OldPayload : rec.owner = NoOwner
      <4>1. Absent.owner = NoOwner
        BY DEF Absent
      <4>2. \A rec \in OldPayload : rec.owner \in {NoOwner}
        BY DEF OldPayload
      <4> QED
        BY <4>1, <4>2
    <3> QED
      BY <2>2, <3>1 DEF Acceptance
  <2>4. SymbolsNamed
    BY <2>1, <2>2, <2>3 DEF OldReleaseInit, SymbolsNamed, Ordinary, Acceptance
  <2>5. LeaseNamed
    <3>1. CASE lease = NoLease
      BY <2>3, <3>1 DEF LeaseNamed, NoLease
    <3>2. CASE lease # NoLease
      <4>1. PICK o \in Owners, t \in Ids :
              /\ task[t].sym = AccSymbol
              /\ lease = [owner |-> o, bound |-> t, digest |-> FALSE]
        BY <2>1, <3>2 DEF OldReleaseInit
      <4> QED
        BY <2>2, <2>3, <4>1 DEF LeaseNamed
    <3> QED
      BY <3>1, <3>2
  <2>6. LeftOver
    BY <2>2 DEF LeftOver
  <2>7. ASSUME NEW t \in Ids, Contains(fifo, t) PROVE Exists(t) /\ t \in index
    <3> DEFINE Q == {u \in Ids : task[u].st = "QUEUED"}
    <3>1. fifo \in SetToSeqs(Q) /\ IsFiniteSet(Q)
      BY <2>1, FS_Subset DEF OldReleaseInit
    <3>2. t \in Q
      BY <2>7, <3>1, ListingHas
    <3> QED
      BY <2>2, <3>2 DEF Exists
  <2> QED
    BY <1>2, <1>3, <2>4, <2>5, <2>6, <2>7 DEF Named, ListNamed
<1> QED
  BY <1>0, <1>4, <1>5

(* The symbol index never names an acceptance task, a removed task or a     *)
(* task of another code, and what it names is in the task index.            *)
THEOREM SymbolIndexIsSound ==
  ASSUME NoStaleRetry
  PROVE  Spec => []SymbolIndexSound
<1> DEFINE Inv == Types /\ Safe /\ Named
<1>1. Init => Inv
  BY TypesInit, SafeInit, NamedInit
<1>2. Inv /\ [Next]_vars => Inv'
  BY TypesStep, SafeStep, NamedStep, NoStaleRetry
<1>3. Inv => SymbolIndexSound
  BY DEF Named, SymbolsNamed, SymbolIndexSound
<1> QED
  BY <1>1, <1>2, <1>3, PTL DEF Spec

(* A payload outside the task index is a finished acceptance task that      *)
(* nothing names: not the list, not the lease, not the symbol index.        *)
THEOREM LeftOversAreInert ==
  ASSUME NoStaleRetry
  PROVE  Spec => []OrphansAreInert
<1> DEFINE Inv == Types /\ Safe /\ Named /\ ListNamed
<1>1. Init => Inv
  BY TypesInit, SafeInit, NamedInit
<1>2. Inv /\ [Next]_vars => Inv'
  BY TypesStep, SafeStep, NamedStep, ListNamedStep, NoStaleRetry
<1>3. Inv => OrphansAreInert
  BY ConstantAssumption
  DEF Named, SymbolsNamed, LeaseNamed, LeftOver, ListNamed, OrphansAreInert
<1> QED
  BY <1>1, <1>2, <1>3, PTL DEF Spec

-----------------------------------------------------------------------------
(* Without data of an earlier release, the symbol index names every         *)
(* ordinary task and a lease is bound to an acceptance task only.           *)
AllNamed ==
  /\ \A t \in Ids : Ordinary(t) => symbols[task[t].sym] = t
  /\ lease.bound # NoId => Acceptance(lease.bound)

(* Removing acceptance tasks frees no code an ordinary task holds.          *)
LEMMA AllNamedRemove ==
  ASSUME Types, Types', Safe, Named, AllNamed, NEW R \in SUBSET Ids,
         RemoveTasks(R), \A t \in R : Acceptance(t),
         lease'.bound \in {lease.bound, NoId}, lease'.bound \notin R
  PROVE  AllNamed'
<1> USE ConstantAssumption
    DEF Types, StoreTypeOK, Payload, AllNamed, Ordinary, Acceptance, Exists
<1>1. PICK c \in Ids \cup {NoId} : RemoveShape(R, c)
  BY RemoveFacts
<1>2. /\ c # NoId => c \in index \ R /\ Ordinary(c) /\ task[c].sym = AccSymbol
      /\ c = NoId => \A t \in index \ R :
                       ~(Ordinary(t) /\ task[t].sym = AccSymbol)
      /\ symbols' = [symbols EXCEPT ![AccSymbol] = c]
      /\ \A t \in R : task'[t] = Absent
      /\ \A t \in Ids \ R : task'[t] = task[t]
  BY <1>1 DEF RemoveShape
<1>3. Absent.st = "ABSENT"
  BY DEF Absent
<1>4. ASSUME NEW t \in Ids, Ordinary(t)' PROVE symbols'[task'[t].sym] = t
  <2>1. t \notin R /\ task'[t] = task[t] /\ Ordinary(t)
    BY <1>2, <1>3, <1>4
  <2>2. symbols[task[t].sym] = t /\ t \in index
    BY <2>1 DEF Safe, Indexed
  <2>3. CASE task[t].sym = AccSymbol
    <3>1. c # NoId
      BY <1>2, <2>1, <2>2, <2>3
    <3>2. symbols[AccSymbol] = c
      BY <1>2, <3>1
    <3> QED
      BY <1>2, <2>1, <2>2, <2>3, <3>2
  <2>4. CASE task[t].sym # AccSymbol
    BY <1>2, <2>1, <2>2, <2>4
  <2> QED
    BY <2>3, <2>4
<1>5. lease'.bound # NoId => Acceptance(lease.bound)' /\ lease'.bound = lease.bound
  BY <1>2
<1>6. lease'.bound # NoId =>
         task'[lease'.bound].st # "ABSENT" /\ task'[lease'.bound].owner # NoOwner
  BY <1>2
<1> QED
  BY <1>4, <1>6

(* No step takes the code of an ordinary task away.                         *)
LEMMA AllNamedStep ==
  ASSUME Types, Types', Safe, Named, AllNamed, [Next]_vars
  PROVE  AllNamed'
<1> USE ConstantAssumption
    DEF Types, StoreTypeOK, RunnerState, Payload, AllNamed, Ordinary,
        Acceptance, Exists
<1>0. /\ CleanerSound /\ RunnerSound /\ BoundSound /\ Indexed /\ SymbolsNamed
      /\ LeaseNamed /\ CopiesNamed /\ DownIdle
  BY DEF Safe, Named
<1>1. ASSUME NEW s \in Symbols, NEW t \in Ids, SubmitNew(s, t)
      PROVE  AllNamed'
  BY <1>0, <1>1 DEF SubmitNew, Fresh, NewTask, Usable, Public
<1>2. ASSUME NEW s \in Symbols, SubmitRefresh(s)
      PROVE  AllNamed'
  BY <1>0, <1>2 DEF SubmitRefresh, Usable, Public, NewTask, SymbolsNamed
<1>3. ASSUME NEW t \in Ids, RefreshTask(t)
      PROVE  AllNamed'
  BY <1>3 DEF RefreshTask, Public, NewTask
<1>4. ASSUME NEW t \in Ids, RetryFailed(t)
      PROVE  AllNamed'
  BY <1>4 DEF RetryFailed, Public
<1>5. ASSUME NEW t \in Ids, RequeueWaiting(t)
      PROVE  AllNamed'
  BY <1>5 DEF RequeueWaiting, Resumed, Public
<1>6. ASSUME NEW o \in Owners, NEW digest \in BOOLEAN, AcquireLease(o, digest)
      PROVE  AllNamed'
  BY <1>6 DEF AcquireLease, store
<1>7. ASSUME NEW o \in Owners, RenewLease(o)
      PROVE  AllNamed'
  BY <1>7 DEF RenewLease, store
<1>8. CASE ExpireLease
  BY <1>8 DEF ExpireLease, NoLease, store
<1>9. ASSUME NEW o \in Owners, NEW t \in Ids, BindNew(o, t)
      PROVE  AllNamed'
  BY <1>9 DEF BindNew, Fresh, NewTask
<1>10. ASSUME NEW o \in Owners, BindAgain(o)
      PROVE  AllNamed'
  <2> DEFINE b == lease.bound
  <2>1. /\ b \in Ids /\ Acceptance(b)
        /\ lease'.bound = b
        /\ task'[b].st # "ABSENT" /\ task'[b].owner = o
        /\ \A t \in Ids : t # b => task'[t] = task[t]
        /\ \A s \in Symbols : symbols'[s] = symbols[s]
                              \/ symbols[s] = b
    BY <1>10 DEF BindAgain, NewTask
  <2> QED
    BY <2>1
<1>11. ASSUME NEW o \in Owners, ReleaseLease(o)
      PROVE  AllNamed'
  <2>1. CASE UNCHANGED store
    BY <1>11, <2>1 DEF ReleaseLease, NoLease, store
  <2>2. CASE lease.bound # NoId /\ RemoveTasks({lease.bound})
    <3>1. /\ {lease.bound} \in SUBSET Ids /\ lease'.bound = NoId
          /\ NoId \notin {lease.bound}
          /\ \A t \in {lease.bound} : Acceptance(t)
      BY <1>11, <2>2 DEF ReleaseLease, NoLease
    <3> HIDE DEF Types, StoreTypeOK, AllNamed, Acceptance
    <3> QED
      BY <2>2, <3>1, AllNamedRemove
  <2> QED
    BY <1>11, <2>1, <2>2 DEF ReleaseLease
<1>12. CASE CleanupAcceptance
  <2> DEFINE R == {t \in index : Acceptance(t)}
  <2>1. /\ R \in SUBSET Ids /\ RemoveTasks(R) /\ lease' = lease
        /\ \A t \in R : Acceptance(t)
    BY <1>12 DEF CleanupAcceptance
  <2>2. lease.bound = NoId
    BY <1>0, <1>12 DEF CleanupAcceptance, BoundSound
  <2>3. lease'.bound \in {lease.bound, NoId} /\ lease'.bound \notin R
    BY <2>1, <2>2
  <2> HIDE DEF R, Types, StoreTypeOK, AllNamed
  <2> QED
    BY <2>1, <2>3, AllNamedRemove
<1>13. ASSUME NEW t \in Ids, Claim(t), task[t].st = "QUEUED" PROVE AllNamed'
  BY <1>13 DEF Claim
<1>14. CASE ClaimBound
  BY <1>13, <1>14 DEF ClaimBound
<1>15. CASE ClaimNext
  BY <1>13, <1>15 DEF ClaimNext, Claimable
<1>16. CASE ClaimNothing
  BY <1>16 DEF ClaimNothing
<1>17. CASE RunnerRead \/ RunnerRefused \/ RunnerFault \/ RunnerFallback
  <2> HIDE DEF Types, StoreTypeOK, RunnerState, Payload, AllNamed
  <2>1. UNCHANGED <<task, symbols, lease>>
    BY <1>17 DEF RunnerRead, RunnerRefused, RunnerFault, RunnerFallback, store
  <2> QED
    BY <2>1 DEF AllNamed
<1>18. CASE RunnerPersist
  <2>1. /\ task' = [task EXCEPT ![runner.id] = runner.rec]
        /\ runner.id \in Ids /\ runner.rec.st # "ABSENT"
        /\ UNCHANGED <<symbols, lease>>
        /\ runner.rec.owner = NoOwner <=> Ordinary(runner.id)
        /\ Exists(runner.id) => task[runner.id].sym = runner.rec.sym
    BY <1>0, <1>18
    DEF RunnerPersist, RunnerSound, CopiesNamed, Terminal, AllResults
  <2> QED
    BY <2>1
<1>19. ASSUME NEW t \in Ids, CleanupRead(t)
      PROVE  AllNamed'
  BY <1>19 DEF CleanupRead, store
<1>20. CASE CleanupSave
  <2>1. /\ task' = [task EXCEPT ![cleaner.id] = cleaner.rec]
        /\ cleaner.id \in Ids /\ Ordinary(cleaner.id)
        /\ cleaner.rec.owner = NoOwner
        /\ cleaner.rec.sym = task[cleaner.id].sym
        /\ UNCHANGED <<symbols, lease>>
        /\ cleaner.id # lease.bound
    BY <1>0, <1>20 DEF CleanupSave, CleanerSound, CopiesNamed
  <2> QED
    BY <2>1
<1>21. CASE Crash
  BY <1>21 DEF Crash, store
<1>22. CASE Boot
  <2>1. PICK order \in SetToSeqs(Interrupted), gone \in SUBSET index,
             codes \in SUBSET Symbols :
          \E heir \in [gone -> index \ gone], keep \in [codes -> index \ gone] :
            BootShape(order, gone, codes, heir, keep)
    BY <1>22, BootFacts
  <2>2. PICK keep \in [codes -> index \ gone] :
          \E heir \in [gone -> index \ gone] :
            BootShape(order, gone, codes, heir, keep)
    BY <2>1
  <2>3. /\ \A t \in Ids :
             task'[t] = IF t \in gone THEN Absent
                        ELSE IF t \in Interrupted
                             THEN [task[t] EXCEPT !.st = "QUEUED"]
                        ELSE task[t]
        /\ lease' = lease
        /\ \A t \in gone : Ordinary(t) /\ t # lease.bound
        /\ \A s \in codes : /\ Ordinary(keep[s]) /\ keep[s] # lease.bound
                            /\ task[keep[s]].sym = s
        /\ \A t \in index : Ordinary(t) /\ t # lease.bound =>
             /\ task[t].sym \in codes
             /\ t \in gone <=> t # keep[task[t].sym]
        /\ \A s \in codes : symbols'[s] = keep[s]
    BY <2>2 DEF BootShape
  <2>4. Absent.st = "ABSENT"
    BY DEF Absent
  <2>5. \A t \in Ids \ gone : /\ task'[t].sym = task[t].sym
                              /\ task'[t].owner = task[t].owner
                              /\ Exists(t)' <=> Exists(t)
    BY <2>3 DEF Interrupted
  <2>6. ASSUME NEW t \in Ids, Ordinary(t)' PROVE symbols'[task'[t].sym] = t
    <3>1. t \notin gone /\ Ordinary(t)
      BY <2>3, <2>4, <2>5, <2>6
    <3>2. t \in index /\ t # lease.bound
      BY <1>0, <3>1 DEF Indexed
    <3> QED
      BY <2>3, <2>5, <3>1, <3>2
  <2>7. lease'.bound # NoId =>
          task'[lease.bound].st # "ABSENT" /\ task'[lease.bound].owner # NoOwner
    BY <2>3, <2>5
  <2> QED
    BY <2>3, <2>6, <2>7
<1>23. CASE UNCHANGED vars
  BY <1>23 DEF vars
<1> HIDE DEF Types, StoreTypeOK, RunnerState, Payload, AllNamed
<1> QED
  BY <1>1, <1>2, <1>3, <1>4, <1>5, <1>6, <1>7, <1>8, <1>9, <1>10, <1>11,
     <1>12, <1>14, <1>15, <1>16, <1>17, <1>18, <1>19, <1>20, <1>21,
     <1>22, <1>23
  DEF Next, PublicNext, LeaseNext, RunnerNext, CleanerNext

(* An empty store holds no ordinary task.                                   *)
LEMMA AllNamedInit == ASSUME ~OldRelease PROVE Init => AllNamed
BY DEF Init, EmptyInit, Absent, NoLease, AllNamed, Ordinary, Exists

(* What the index invariants have in common.                                *)
IndexInv == Types /\ Safe /\ Named /\ ListNamed /\ ListSound /\ AllNamed

(* The invariant of the indexes holds at first and in every step.           *)
LEMMA IndexInvariance ==
  ASSUME ~OldRelease, NoStaleRetry
  PROVE  /\ Init => IndexInv
         /\ IndexInv /\ [Next]_vars => IndexInv'
<1>1. Init => IndexInv
  BY TypesInit, SafeInit, NamedInit, ListedInit, AllNamedInit DEF IndexInv
<1>2. IndexInv /\ [Next]_vars => IndexInv'
  BY TypesStep, SafeStep, NamedStep, ListNamedStep, ListedStep, AllNamedStep
  DEF IndexInv
<1> QED
  BY <1>1, <1>2

(* A stock code has at most one ordinary task, whatever submissions,        *)
(* acceptance tasks, lease releases and restarts did to the symbol index,   *)
(* unless a lease of an earlier release was bound to an unmarked task.      *)
THEOREM OneTaskEach ==
  ASSUME ~OldRelease, NoStaleRetry
  PROVE  Spec => []OneTaskPerSymbol
<1>1. IndexInv => OneTaskPerSymbol
  <2> SUFFICES ASSUME AllNamed, NEW t \in Ids, NEW u \in Ids,
                      Ordinary(t), Ordinary(u), task[t].sym = task[u].sym
               PROVE  t = u
    BY DEF IndexInv, OneTaskPerSymbol
  <2>1. symbols[task[t].sym] = t /\ symbols[task[u].sym] = u
    BY DEF AllNamed
  <2> QED
    BY <2>1
<1> QED
  BY <1>1, IndexInvariance, PTL DEF Spec

-----------------------------------------------------------------------------
(* What a loop works on was never folded into another task.                 *)
AliasSound ==
  /\ AliasesResolve
  /\ runner.pc # "idle" => aliases[runner.id] = NoId
  /\ cleaner.pc = "write" => aliases[cleaner.id] = NoId

(* It is enough that no id with an alias comes to exist and no task an      *)
(* alias points at goes, when the aliases stay as they are.                 *)
LEMMA AliasSame ==
  ASSUME Types, Types', Safe, AliasSound, aliases' = aliases,
         \A t \in Ids : aliases[t] # NoId => (~Exists(t))',
         \A t \in Ids : Exists(t) => Exists(t)',
         \/ runner' = runner
         \/ runner'.pc = "idle"
         \/ runner'.id = runner.id /\ runner.pc # "idle"
         \/ Exists(runner'.id),
         \/ cleaner' = cleaner
         \/ cleaner'.pc = "idle"
         \/ Exists(cleaner'.id)
  PROVE  AliasSound'
<1> USE ConstantAssumption
<1>0. /\ aliases \in [Ids -> Ids \cup {NoId}]
      /\ runner'.pc # "idle" => runner'.id \in Ids
      /\ cleaner'.pc = "write" => cleaner'.id \in Ids
      /\ cleaner'.pc \in {"idle", "write"}
  BY DEF Types, StoreTypeOK
<1>1. \A a \in Ids : aliases[a] # NoId =>
        ~Exists(a) /\ aliases[a] \in Ids /\ Exists(aliases[a])
        /\ aliases[aliases[a]] = NoId
  BY <1>0 DEF AliasSound, AliasesResolve
<1>2. \A a \in Ids : aliases[a] # NoId =>
        (~Exists(a))' /\ task'[aliases[a]].st # "ABSENT"
        /\ aliases[aliases[a]] = NoId
  BY <1>1 DEF Exists
<1>3. AliasesResolve'
  BY <1>2 DEF AliasesResolve, Exists
<1>4. runner'.pc # "idle" => aliases[runner'.id] = NoId
  BY <1>0, <1>1 DEF AliasSound
<1>5. cleaner'.pc = "write" => aliases[cleaner'.id] = NoId
  BY <1>0, <1>1 DEF AliasSound
<1> QED
  BY <1>3, <1>4, <1>5 DEF AliasSound

(* A removed task takes the aliases that point at it along.                 *)
LEMMA AliasRemove ==
  ASSUME Types, Types', Safe, AliasSound, NEW R \in SUBSET Ids,
         RemoveTasks(R), UNCHANGED <<runner, cleaner>>
  PROVE  AliasSound'
<1> USE ConstantAssumption
<1>1. PICK c \in Ids \cup {NoId} : RemoveShape(R, c)
  BY RemoveFacts
<1>2. /\ c # NoId => c \in Ids \ R /\ Exists(c)
      /\ \A a \in Ids : aliases'[a] = IF a \in R THEN NoId
                                      ELSE IF aliases[a] \in R THEN c
                                      ELSE aliases[a]
      /\ \A t \in R : task'[t].st = "ABSENT"
      /\ \A t \in Ids \ R : task'[t] = task[t]
  BY <1>1 DEF RemoveShape, Ordinary, Absent, Types, StoreTypeOK
<1>3. /\ aliases \in [Ids -> Ids \cup {NoId}]
      /\ runner.pc # "idle" => runner.id \in Ids
      /\ cleaner.pc = "write" => cleaner.id \in Ids
  BY DEF Types, StoreTypeOK
<1>4. \A a \in Ids : aliases[a] # NoId =>
        /\ task[a].st = "ABSENT"
        /\ aliases[a] \in Ids /\ task[aliases[a]].st # "ABSENT"
        /\ aliases[aliases[a]] = NoId
  BY <1>3 DEF AliasSound, AliasesResolve, Exists
<1>5. \A a \in Ids : aliases[a] = NoId => aliases'[a] = NoId
  BY <1>2, <1>3
<1>6. ASSUME NEW a \in Ids, aliases'[a] # NoId
      PROVE  /\ task'[a].st = "ABSENT"
             /\ task'[aliases'[a]].st # "ABSENT"
             /\ aliases'[aliases'[a]] = NoId
  <2>1. /\ a \notin R /\ aliases[a] # NoId
        /\ task'[a].st = "ABSENT"
    BY <1>2, <1>4, <1>5, <1>6
  <2>2. CASE aliases[a] \in R
    <3>1. aliases'[a] = c /\ c \in Ids \ R /\ task[c].st # "ABSENT"
      BY <1>2, <1>6, <2>1, <2>2 DEF Exists
    <3>2. aliases[c] = NoId
      BY <1>4, <3>1
    <3> QED
      BY <1>2, <1>5, <2>1, <3>1, <3>2
  <2>3. CASE aliases[a] \notin R
    <3>1. aliases'[a] = aliases[a] /\ aliases[a] \in Ids \ R
      BY <1>2, <1>4, <2>1, <2>3
    <3> QED
      BY <1>2, <1>4, <1>5, <2>1, <3>1
  <2> QED
    BY <2>2, <2>3
<1>7. AliasesResolve'
  BY <1>6 DEF AliasesResolve, Exists
<1> QED
  BY <1>3, <1>5, <1>7 DEF AliasSound

(* A startup folds tasks into ones it keeps, and no alias into a gap.       *)
LEMMA AliasBoot ==
  ASSUME Types, Types', Safe, AliasSound, Boot
  PROVE  AliasSound'
<1> USE ConstantAssumption
<1>1. PICK order \in SetToSeqs(Interrupted), gone \in SUBSET index,
           codes \in SUBSET Symbols :
        \E heir \in [gone -> index \ gone], keep \in [codes -> index \ gone] :
          BootShape(order, gone, codes, heir, keep)
  BY BootFacts
<1>2. PICK heir \in [gone -> index \ gone] :
        \E keep \in [codes -> index \ gone] :
          BootShape(order, gone, codes, heir, keep)
  BY <1>1
<1>3. /\ \A t \in gone : heir[t] \in Ids \ gone /\ task[heir[t]].st # "ABSENT"
      /\ \A t \in Ids :
           task'[t] = IF t \in gone THEN Absent
                      ELSE IF t \in Interrupted
                           THEN [task[t] EXCEPT !.st = "QUEUED"]
                      ELSE task[t]
      /\ aliases' = Inherited(heir)
      /\ api = "DOWN"
      /\ UNCHANGED <<runner, cleaner>>
      /\ index \subseteq Ids
  BY <1>2 DEF BootShape, Ordinary, Exists, Types, StoreTypeOK
<1>4. \A t \in Ids : task'[t].st = "ABSENT" <=>
                       t \in gone \/ task[t].st = "ABSENT"
  BY <1>3 DEF Absent, Interrupted, Types, StoreTypeOK, Payload
<1>5. \A a \in Ids : aliases'[a] = IF a \in gone THEN heir[a]
                                   ELSE IF aliases[a] \in gone
                                        THEN heir[aliases[a]]
                                   ELSE aliases[a]
  BY <1>3 DEF Inherited
<1>6. /\ aliases \in [Ids -> Ids \cup {NoId}]
      /\ \A a \in Ids : aliases[a] # NoId =>
           /\ task[a].st = "ABSENT"
           /\ aliases[a] \in Ids /\ task[aliases[a]].st # "ABSENT"
           /\ aliases[aliases[a]] = NoId
  BY DEF AliasSound, AliasesResolve, Exists, Types, StoreTypeOK
<1>7. \A a \in Ids \ gone : aliases[a] = NoId => aliases'[a] = NoId
  BY <1>3, <1>5
<1>8. ASSUME NEW a \in Ids, aliases'[a] # NoId
      PROVE  /\ task'[a].st = "ABSENT"
             /\ task'[aliases'[a]].st # "ABSENT"
             /\ aliases'[aliases'[a]] = NoId
  <2>1. ASSUME NEW h \in Ids \ gone, task[h].st # "ABSENT", aliases'[a] = h
        PROVE  /\ task'[aliases'[a]].st # "ABSENT"
               /\ aliases'[aliases'[a]] = NoId
    BY <1>4, <1>6, <1>7, <2>1
  <2>2. CASE a \in gone
    BY <1>3, <1>4, <1>5, <2>1, <2>2
  <2>3. CASE a \notin gone
    <3>1. aliases[a] # NoId
      BY <1>7, <1>8, <2>3
    <3>2. CASE aliases[a] \in gone
      BY <1>3, <1>4, <1>5, <1>6, <2>1, <2>3, <3>1, <3>2
    <3>3. CASE aliases[a] \notin gone
      BY <1>4, <1>5, <1>6, <2>1, <2>3, <3>1, <3>3
    <3> QED
      BY <3>2, <3>3
  <2> QED
    BY <2>2, <2>3
<1>9. AliasesResolve'
  BY <1>8 DEF AliasesResolve, Exists
<1>10. runner'.pc = "idle" /\ cleaner'.pc = "idle"
  BY <1>3 DEF Safe, DownIdle
<1> QED
  BY <1>9, <1>10 DEF AliasSound

(* No step leaves an alias that points at a task that is gone.              *)
LEMMA AliasStep ==
  ASSUME Types, Types', Safe, AliasSound, [Next]_vars
  PROVE  AliasSound'
<1> USE ConstantAssumption
<1>0. /\ task \in [Ids -> Payload] /\ task' \in [Ids -> Payload]
      /\ \A t \in Ids : Exists(t) <=> task[t].st # "ABSENT"
      /\ \A t \in Ids : Exists(t)' <=> task'[t].st # "ABSENT"
      /\ \A t \in Ids : aliases[t] # NoId => ~Exists(t)
      /\ \A t \in Ids : NewTask(AccSymbol, NoOwner).st = "QUEUED"
  BY DEF Types, StoreTypeOK, Exists, AliasSound, AliasesResolve, NewTask
<1>1. ASSUME NEW u \in Ids, aliases[u] = NoId, aliases' = aliases,
             \A t \in Ids : t # u => task'[t] = task[t],
             task'[u].st # "ABSENT",
             \/ runner' = runner \/ runner'.pc = "idle" \/ Exists(runner'.id),
             cleaner' = cleaner \/ cleaner'.pc = "idle"
      PROVE  AliasSound'
  <2>1. /\ \A t \in Ids : aliases[t] # NoId => (~Exists(t))'
        /\ \A t \in Ids : Exists(t) => Exists(t)'
    BY <1>0, <1>1
  <2> QED
    BY <1>1, <2>1, AliasSame
<1>2. ASSUME UNCHANGED <<task, aliases>>,
             \/ runner' = runner
             \/ runner'.pc = "idle"
             \/ runner'.id = runner.id /\ runner.pc # "idle",
             \/ cleaner' = cleaner
             \/ cleaner'.pc = "idle"
             \/ Exists(cleaner'.id)
      PROVE  AliasSound'
  <2>1. /\ \A t \in Ids : aliases[t] # NoId => (~Exists(t))'
        /\ \A t \in Ids : Exists(t) => Exists(t)'
    BY <1>0, <1>2
  <2> QED
    BY <1>2, <2>1, AliasSame
<1>3. ASSUME NEW s \in Symbols, NEW t \in Ids, SubmitNew(s, t)
      PROVE  AliasSound'
  <2>1. task'[t].st = "QUEUED" /\ aliases[t] = NoId
    BY <1>0, <1>3 DEF SubmitNew, Fresh, NewTask
  <2> QED
    BY <1>0, <1>1, <1>3, <2>1 DEF SubmitNew
<1>4. ASSUME NEW s \in Symbols, SubmitRefresh(s)
      PROVE  AliasSound'
  <2>1. symbols[s] \in Ids /\ Exists(symbols[s])
    BY <1>4 DEF SubmitRefresh, Usable, Public, Ordinary, Types, StoreTypeOK
  <2>2. task'[symbols[s]].st = "QUEUED"
    BY <1>0, <1>4, <2>1 DEF SubmitRefresh, NewTask
  <2>3. /\ aliases' = aliases /\ runner' = runner /\ cleaner' = cleaner
        /\ \A t \in Ids : t # symbols[s] => task'[t] = task[t]
    BY <1>0, <1>4 DEF SubmitRefresh
  <2> QED
    BY <1>0, <1>1, <2>1, <2>2, <2>3
<1>5. ASSUME NEW t \in Ids, RefreshTask(t) \/ RetryFailed(t) \/ RequeueWaiting(t)
      PROVE  AliasSound'
  <2>1. Exists(t)
    BY <1>5 DEF RefreshTask, RetryFailed, RequeueWaiting, Resumed, Public,
                Ordinary
  <2>2. task'[t].st = "QUEUED"
    BY <1>0, <1>5
    DEF RefreshTask, RetryFailed, RequeueWaiting, Resumed, NewTask, Payload
  <2>3. /\ aliases' = aliases /\ runner' = runner /\ cleaner' = cleaner
        /\ \A u \in Ids : u # t => task'[u] = task[u]
    BY <1>0, <1>5 DEF RefreshTask, RetryFailed, RequeueWaiting, Resumed
  <2> QED
    BY <1>0, <1>1, <2>1, <2>2, <2>3
<1>6. ASSUME NEW o \in Owners, NEW t \in Ids, BindNew(o, t)
      PROVE  AliasSound'
  <2>1. task'[t].st = "QUEUED" /\ aliases[t] = NoId
    BY <1>0, <1>6 DEF BindNew, Fresh, NewTask
  <2> QED
    BY <1>0, <1>1, <1>6, <2>1 DEF BindNew
<1>7. ASSUME NEW o \in Owners, BindAgain(o)
      PROVE  AliasSound'
  <2>1. lease.bound \in Ids /\ Exists(lease.bound)
    BY <1>7 DEF BindAgain, Types, StoreTypeOK
  <2>2. task'[lease.bound].st # "ABSENT"
    BY <1>0, <1>7, <2>1 DEF BindAgain, NewTask, Payload
  <2>3. /\ aliases' = aliases /\ runner' = runner /\ cleaner' = cleaner
        /\ \A u \in Ids : u # lease.bound => task'[u] = task[u]
    BY <1>0, <1>7 DEF BindAgain
  <2> QED
    BY <1>0, <1>1, <2>1, <2>2, <2>3
<1>8. ASSUME NEW o \in Owners, ReleaseLease(o)
      PROVE  AliasSound'
  <2>1. CASE UNCHANGED store
    BY <1>2, <1>8, <2>1 DEF ReleaseLease, store
  <2>2. CASE lease.bound # NoId /\ RemoveTasks({lease.bound})
    <3>1. {lease.bound} \in SUBSET Ids /\ UNCHANGED <<runner, cleaner>>
      BY <1>8, <2>2 DEF ReleaseLease, Types, StoreTypeOK
    <3> QED
      BY <2>2, <3>1, AliasRemove
  <2> QED
    BY <1>8, <2>1, <2>2 DEF ReleaseLease
<1>9. CASE CleanupAcceptance
  <2>1. {t \in index : Acceptance(t)} \in SUBSET Ids
    BY DEF Types, StoreTypeOK
  <2> QED
    BY <1>9, <2>1, AliasRemove DEF CleanupAcceptance
<1>10. ASSUME NEW t \in Ids, Claim(t), task[t].st = "QUEUED"
       PROVE  AliasSound'
  <2>1. task'[t].st = "RUNNING" /\ Exists(t)
    BY <1>0, <1>10 DEF Claim, Payload
  <2>2. /\ aliases' = aliases /\ cleaner' = cleaner
        /\ \A u \in Ids : u # t => task'[u] = task[u]
    BY <1>0, <1>10 DEF Claim
  <2>3. runner'.pc = "idle" \/ runner'.id = t
    BY <1>10, IdleType, WorkType DEF Claim
  <2> QED
    BY <1>0, <1>1, <2>1, <2>2, <2>3
<1>11. CASE ClaimBound
  <2>1. lease.bound \in Ids
    BY <1>11 DEF ClaimBound, Types, StoreTypeOK
  <2> QED
    BY <1>10, <1>11, <2>1 DEF ClaimBound
<1>12. CASE ClaimNext
  BY <1>10, <1>12 DEF ClaimNext, Claimable
<1>13. CASE RunnerPersist
  <2>1. /\ runner.pc = "write" /\ runner.id \in Ids
        /\ runner.rec.st # "ABSENT"
        /\ task' = [task EXCEPT ![runner.id] = runner.rec]
        /\ UNCHANGED <<aliases, cleaner>>
    BY <1>13
    DEF RunnerPersist, Types, Safe, RunnerSound, Terminal, AllResults
  <2>2. aliases[runner.id] = NoId
    BY <2>1 DEF AliasSound
  <2>3. task'[runner.id].st # "ABSENT"
        /\ \A u \in Ids : u # runner.id => task'[u] = task[u]
    BY <1>0, <2>1
  <2>4. runner' = runner \/ runner'.pc = "idle"
    BY <1>13, IdleType DEF RunnerPersist
  <2> QED
    BY <1>1, <2>1, <2>2, <2>3, <2>4
<1>14. CASE RunnerRead \/ RunnerRefused \/ RunnerFault \/ RunnerFallback
  <2>1. UNCHANGED <<task, aliases, cleaner>>
    BY <1>14 DEF RunnerRead, RunnerRefused, RunnerFault, RunnerFallback, store
  <2>2. runner'.pc = "idle" \/ (runner'.id = runner.id /\ runner.pc # "idle")
    <3>0. runner \in RunnerState
      BY DEF Types, StoreTypeOK
    <3>1. CASE RunnerRead
      BY <3>0, <3>1 DEF RunnerRead, RunnerState
    <3>2. CASE RunnerRefused
      BY <3>2, IdleType DEF RunnerRefused
    <3>3. CASE RunnerFault
      BY <3>0, <3>3, IdleType DEF RunnerFault, RunnerState
    <3>4. CASE RunnerFallback
      BY <3>0, <3>4, IdleType DEF RunnerFallback, RunnerState
    <3> QED
      BY <1>14, <3>1, <3>2, <3>3, <3>4
  <2> QED
    BY <1>2, <2>1, <2>2
<1>15. CASE CleanupSave
  <2>1. /\ cleaner.pc = "write" /\ cleaner.id \in Ids
        /\ cleaner.rec.st # "ABSENT"
        /\ task' = [task EXCEPT ![cleaner.id] = cleaner.rec]
        /\ UNCHANGED <<aliases, runner>>
        /\ cleaner'.pc = "idle"
    BY <1>15
    DEF CleanupSave, NoCleaning, Types, Safe, CleanerSound, Terminal, AllResults
  <2>2. aliases[cleaner.id] = NoId
    BY <2>1 DEF AliasSound
  <2>3. task'[cleaner.id].st # "ABSENT"
        /\ \A u \in Ids : u # cleaner.id => task'[u] = task[u]
    BY <1>0, <2>1
  <2> QED
    BY <1>1, <2>1, <2>2, <2>3
<1>16. ASSUME NEW t \in Ids, CleanupRead(t)
       PROVE  AliasSound'
  <2>1. cleaner'.id = t /\ Exists(t) /\ UNCHANGED <<task, aliases, runner>>
    BY <1>16 DEF CleanupRead, Ordinary, store
  <2> QED
    BY <1>2, <2>1
<1>17. CASE Crash
  <2>1. runner'.pc = "idle" /\ cleaner'.pc = "idle" /\ UNCHANGED <<task, aliases>>
    BY <1>17, IdleType DEF Crash, NoCleaning, store
  <2> QED
    BY <1>2, <2>1
<1>18. CASE Boot
  BY <1>18, AliasBoot
<1>19. CASE UNCHANGED <<task, aliases, runner, cleaner>>
  BY <1>2, <1>19
<1>20. \/ \E s \in Symbols, t \in Ids : SubmitNew(s, t)
       \/ \E s \in Symbols : SubmitRefresh(s)
       \/ \E t \in Ids : RefreshTask(t) \/ RetryFailed(t) \/ RequeueWaiting(t)
       \/ \E o \in Owners, t \in Ids : BindNew(o, t)
       \/ \E o \in Owners : BindAgain(o) \/ ReleaseLease(o)
       \/ ClaimBound \/ ClaimNext \/ RunnerPersist
       \/ (RunnerRead \/ RunnerRefused \/ RunnerFault \/ RunnerFallback)
       \/ CleanupAcceptance \/ CleanupSave \/ Crash \/ Boot
       \/ \E t \in Ids : CleanupRead(t)
       \/ UNCHANGED <<task, aliases, runner, cleaner>>
  BY DEF Next, PublicNext, LeaseNext, RunnerNext, CleanerNext, vars, store,
         AcquireLease, RenewLease, ExpireLease, ClaimNothing
<1> QED
  BY <1>3, <1>4, <1>5, <1>6, <1>7, <1>8, <1>9, <1>11, <1>12, <1>13, <1>14,
     <1>15, <1>16, <1>17, <1>18, <1>19, <1>20

(* A public id that startup folded into another task keeps answering, also  *)
(* over data of an earlier release: it points directly at a task that still *)
(* exists and is not itself an alias.                                       *)
THEOREM FoldedIdsResolve ==
  ASSUME NoStaleRetry
  PROVE  Spec => []AliasesResolve
<1> DEFINE Inv == Types /\ Safe /\ AliasSound
<1>1. Init => AliasSound
  BY IdleType DEF Init, NoCleaning, AliasSound, AliasesResolve
<1>2. Init => Inv
  BY <1>1, TypesInit, SafeInit
<1>3. Inv /\ [Next]_vars => Inv'
  BY TypesStep, SafeStep, AliasStep, NoStaleRetry
<1>4. Inv => AliasesResolve
  BY DEF AliasSound
<1> QED
  BY <1>2, <1>3, <1>4, PTL DEF Spec
==============================================================================
