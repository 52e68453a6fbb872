----------------------------- MODULE TaskQueueProofs -----------------------------
(***************************************************************************)
(* Proofs about TaskStore as a queue: a RUNNING task has the runner, the   *)
(* counter of active tasks is exact and capped, a listed task waits until  *)
(* it is claimed, and the store implements the queue of FifoQueue.         *)
(***************************************************************************)
EXTENDS TaskStoreProofs
-----------------------------------------------------------------------------
(* The steps after which no task is RUNNING that was not, and the runner    *)
(* still holds its task if that one is.                                     *)
LEMMA RunningKept ==
  ASSUME RunningHasRunner, api' = "UP" => api = "UP",
         \A t \in Ids : task'[t].st = "RUNNING" => task[t].st = "RUNNING",
         \A t \in Ids : task'[t].st = "RUNNING" /\ runner.pc # "idle"
                        /\ runner.id = t
                          => runner'.pc # "idle" /\ runner'.id = t
  PROVE  RunningHasRunner'
BY DEF RunningHasRunner

(* Without a fault of Redis no step leaves a RUNNING task alone.            *)
LEMMA RunningStep ==
  ASSUME Types, Types', Safe, ~RedisFaults, RunningHasRunner, [Next]_vars
  PROVE  RunningHasRunner'
<1> USE ConstantAssumption
<1>0. /\ task \in [Ids -> Payload] /\ task' \in [Ids -> Payload]
      /\ runner \in RunnerState
      /\ NewTask(AccSymbol, NoOwner).st = "QUEUED"
  BY DEF Types, StoreTypeOK, NewTask
<1>1. ASSUME UNCHANGED <<api, runner>>,
             \A t \in Ids : task'[t].st = "RUNNING" => task[t].st = "RUNNING"
      PROVE  RunningHasRunner'
  BY <1>1, RunningKept
<1>2. ASSUME NEW s \in Symbols, NEW t \in Ids, SubmitNew(s, t)
      PROVE  RunningHasRunner'
  BY <1>0, <1>1, <1>2 DEF SubmitNew, NewTask
<1>3. ASSUME NEW s \in Symbols, SubmitRefresh(s)
      PROVE  RunningHasRunner'
  BY <1>0, <1>1, <1>3 DEF SubmitRefresh, NewTask
<1>4. ASSUME NEW t \in Ids, RefreshTask(t) \/ RetryFailed(t) \/ RequeueWaiting(t)
      PROVE  RunningHasRunner'
  <2>1. task'[t].st = "QUEUED"
    BY <1>0, <1>4
    DEF RefreshTask, RetryFailed, RequeueWaiting, Resumed, NewTask, Payload
  <2>2. /\ UNCHANGED <<api, runner>>
        /\ \A u \in Ids : u # t => task'[u] = task[u]
    BY <1>0, <1>4 DEF RefreshTask, RetryFailed, RequeueWaiting, Resumed
  <2> QED
    BY <1>1, <2>1, <2>2
<1>5. ASSUME NEW o \in Owners, NEW t \in Ids, BindNew(o, t)
      PROVE  RunningHasRunner'
  BY <1>0, <1>1, <1>5 DEF BindNew, NewTask
<1>6. ASSUME NEW o \in Owners, BindAgain(o)
      PROVE  RunningHasRunner'
  <2>1. lease.bound \in Ids /\ UNCHANGED <<api, runner>>
    BY <1>6 DEF BindAgain, Types, StoreTypeOK
  <2>2. task'[lease.bound].st \in {"QUEUED", task[lease.bound].st}
    BY <1>0, <1>6, <2>1 DEF BindAgain, NewTask, Payload
  <2>3. \A u \in Ids : u # lease.bound => task'[u] = task[u]
    BY <1>0, <1>6 DEF BindAgain
  <2> QED
    BY <1>1, <2>1, <2>2, <2>3
<1>7. ASSUME NEW R \in SUBSET Ids, RemoveTasks(R), UNCHANGED <<api, runner>>
      PROVE  RunningHasRunner'
  BY <1>0, <1>1, <1>7 DEF RemoveTasks, Absent
<1>8. ASSUME NEW o \in Owners, ReleaseLease(o)
      PROVE  RunningHasRunner'
  <2>1. UNCHANGED <<api, runner>>
    BY <1>8 DEF ReleaseLease
  <2>2. CASE UNCHANGED store
    BY <1>1, <2>1, <2>2 DEF store
  <2>3. CASE lease.bound # NoId /\ RemoveTasks({lease.bound})
    <3>1. {lease.bound} \in SUBSET Ids
      BY <2>3 DEF Types, StoreTypeOK
    <3> QED
      BY <1>7, <2>1, <2>3, <3>1
  <2> QED
    BY <1>8, <2>2, <2>3 DEF ReleaseLease
<1>9. CASE CleanupAcceptance
  <2>1. {t \in index : Acceptance(t)} \in SUBSET Ids
    BY DEF Types, StoreTypeOK
  <2> QED
    BY <1>7, <1>9, <2>1 DEF CleanupAcceptance
<1>10. ASSUME NEW t \in Ids, Claim(t), api = "UP", runner.pc = "idle"
       PROVE  RunningHasRunner'
  <2>1. runner'.pc = "work" /\ runner'.id = t
    BY <1>10, WorkType DEF Claim
  <2>2. \A u \in Ids : u # t => task'[u] = task[u]
    BY <1>0, <1>10 DEF Claim
  <2> QED
    BY <1>10, <2>1, <2>2 DEF RunningHasRunner
<1>11. CASE ClaimBound
  <2>1. lease.bound \in Ids
    BY <1>11 DEF ClaimBound, Types, StoreTypeOK
  <2> QED
    BY <1>10, <1>11, <2>1 DEF ClaimBound
<1>12. CASE ClaimNext
  BY <1>10, <1>12 DEF ClaimNext
<1>13. CASE RunnerRead
  <2>1. runner'.id = runner.id /\ runner'.pc = "write" /\ UNCHANGED <<task, api>>
    BY <1>0, <1>13 DEF RunnerRead, RunnerState, store
  <2> QED
    BY <2>1, RunningKept
<1>14. CASE RunnerRefused
  <2>1. \A st \in Statuses : "RUNNING" \in AllowedFrom(st)
    BY DEF Statuses, AllowedFrom, AllResults, Active
  <2>2. task[runner.id].st # "RUNNING" /\ UNCHANGED <<task, api>>
    BY <1>14, <2>1 DEF RunnerRefused, store
  <2> QED
    BY <2>2, RunningKept
<1>15. CASE RunnerPersist
  <2>1. /\ runner.pc = "write" /\ runner.id \in Ids
        /\ runner.rec.st # "RUNNING"
        /\ task' = [task EXCEPT ![runner.id] = runner.rec]
        /\ api' = api
    BY <1>15
    DEF RunnerPersist, Types, Safe, RunnerSound, Terminal, AllResults
  <2>2. /\ task'[runner.id].st # "RUNNING"
        /\ \A u \in Ids : u # runner.id => task'[u] = task[u]
    BY <1>0, <2>1
  <2> QED
    BY <2>1, <2>2, RunningKept
<1>16. ~RunnerFault
  BY DEF RunnerFault
<1>17. ~RunnerFallback
  BY DEF RunnerFallback, Safe, RunnerSound
<1>18. CASE CleanupSave
  <2>1. /\ cleaner.pc = "write" /\ cleaner.id \in Ids
        /\ cleaner.rec.st # "RUNNING"
        /\ task' = [task EXCEPT ![cleaner.id] = cleaner.rec]
        /\ UNCHANGED <<api, runner>>
    BY <1>18
    DEF CleanupSave, Types, Safe, CleanerSound, Terminal, AllResults
  <2>2. /\ task'[cleaner.id].st # "RUNNING"
        /\ \A u \in Ids : u # cleaner.id => task'[u] = task[u]
    BY <1>0, <2>1
  <2> QED
    BY <1>1, <2>1, <2>2
<1>19. CASE Crash
  BY <1>19 DEF Crash, RunningHasRunner
<1>20. CASE Boot
  <2>1. PICK order \in SetToSeqs(Interrupted), gone \in SUBSET index,
             codes \in SUBSET Symbols :
          \E heir \in [gone -> index \ gone], keep \in [codes -> index \ gone] :
            BootShape(order, gone, codes, heir, keep)
    BY <1>20, BootFacts
  <2>2. \A t \in Ids : task'[t] = IF t \in gone THEN Absent
                                  ELSE IF t \in Interrupted
                                       THEN [task[t] EXCEPT !.st = "QUEUED"]
                                  ELSE task[t]
    BY <2>1 DEF BootShape
  <2>3. ASSUME NEW t \in Ids PROVE task'[t].st # "RUNNING"
    BY <1>0, <2>2 DEF Absent, Interrupted, Safe, Indexed, Payload
  <2> QED
    BY <2>3 DEF RunningHasRunner
<1>21. CASE UNCHANGED <<task, api, runner>>
  BY <1>1, <1>21
<1>22. \/ \E s \in Symbols, t \in Ids : SubmitNew(s, t)
       \/ \E s \in Symbols : SubmitRefresh(s)
       \/ \E t \in Ids : RefreshTask(t) \/ RetryFailed(t) \/ RequeueWaiting(t)
       \/ \E o \in Owners, t \in Ids : BindNew(o, t)
       \/ \E o \in Owners : BindAgain(o) \/ ReleaseLease(o)
       \/ ClaimBound \/ ClaimNext \/ RunnerRead \/ RunnerRefused
       \/ RunnerPersist \/ CleanupAcceptance \/ CleanupSave \/ Crash \/ Boot
       \/ UNCHANGED <<task, api, runner>>
  BY <1>16, <1>17
  DEF Next, PublicNext, LeaseNext, RunnerNext, CleanerNext, vars, store,
      AcquireLease, RenewLease, ExpireLease, ClaimNothing, CleanupRead
<1> QED
  BY <1>2, <1>3, <1>4, <1>5, <1>6, <1>8, <1>9, <1>11, <1>12, <1>13, <1>14,
     <1>15, <1>18, <1>19, <1>20, <1>21, <1>22

(* While Redis answers, every RUNNING task is the one the runner works on:  *)
(* none stays RUNNING and blocks a deployment, whatever requests, leases,   *)
(* expiries and restarts happen.                                            *)
THEOREM NoTaskRunsAlone ==
  ASSUME ~RedisFaults
  PROVE  Spec => []RunningHasRunner
<1> DEFINE Inv == Types /\ Safe /\ RunningHasRunner
<1>1. Init => Inv
  BY TypesInit, SafeInit DEF Init, RunningHasRunner
<1>2. Inv /\ [Next]_vars => Inv'
  <2>1. NoStaleRetry
    BY DEF NoStaleRetry
  <2> QED
    BY <2>1, TypesStep, SafeStep, RunningStep
<1> QED
  BY <1>1, <1>2, PTL DEF Spec

-----------------------------------------------------------------------------
(* One more and one fewer active task.                                      *)
LEMMA OneMoreActive ==
  ASSUME IsFiniteSet(Ids), NEW A \in SUBSET Ids, NEW B \in SUBSET Ids,
         NEW t \in Ids, t \notin A, B = A \cup {t}
  PROVE  /\ Cardinality(A) \in Nat /\ Cardinality(B) \in Nat
         /\ Cardinality(B) = Cardinality(A) + 1
<1>1. IsFiniteSet(A) /\ IsFiniteSet(B)
  BY FS_Subset
<1> QED
  BY <1>1, FS_CardinalityType, FS_AddElement

(* The tasks that count.                                                    *)
ActiveIds == {t \in Ids : IsActive(t)}

(* Without deployments, and with nothing that writes a task behind the      *)
(* runner's back, the counter is exact, and what the runner is about to     *)
(* finish was active when it was read.                                      *)
Counted ==
  /\ runner.pc = "write" => runner.wasActive
  /\ api = "UP" => count = Cardinality(ActiveIds)

(* Without owners there is no lease and every task is an ordinary one.      *)
LEMMA NoOwners ==
  ASSUME Types, Safe, Owners = {}
  PROVE  /\ ~LeaseLive /\ lease.bound = NoId
         /\ \A t \in Ids : ~Acceptance(t)
         /\ runner.pc = "write" => Ordinary(runner.id)
<1> USE DEF Types, StoreTypeOK, Payload, RunnerState
<1>1. ~LeaseLive /\ lease.bound = NoId
  BY DEF Safe, BoundSound, LeaseLive
<1>2. \A t \in Ids : ~Acceptance(t)
  BY DEF Acceptance
<1>3. runner.pc = "write" => Ordinary(runner.id)
  BY DEF Safe, RunnerSound
<1> QED
  BY <1>1, <1>2, <1>3

(* A step that changes no activity may leave the counter.                   *)
LEMMA CountedSame ==
  ASSUME Counted, UNCHANGED <<count, api, runner>>,
         \A t \in Ids : IsActive(t)' <=> IsActive(t)
  PROVE  Counted'
<1>1. ActiveIds' = ActiveIds
  BY DEF ActiveIds
<1> QED
  BY <1>1 DEF Counted

(* A step that makes one task active counts it.                             *)
LEMMA CountedMore ==
  ASSUME Counted, api = "UP", UNCHANGED <<api, runner>>, count' = count + 1,
         NEW t \in Ids, ~IsActive(t), IsActive(t)',
         \A u \in Ids : u # t => task'[u] = task[u]
  PROVE  Counted'
<1>1. \A u \in Ids : u # t => (IsActive(u)' <=> IsActive(u))
  BY DEF IsActive
<1>2. /\ t \notin ActiveIds /\ ActiveIds' = ActiveIds \cup {t}
      /\ ActiveIds \in SUBSET Ids /\ ActiveIds' \in SUBSET Ids
  BY <1>1 DEF ActiveIds
<1>3. Cardinality(ActiveIds') = Cardinality(ActiveIds) + 1
  BY <1>2, OneMoreActive, ConstantAssumption
<1>4. ActiveIds' = (ActiveIds)'
  OBVIOUS
<1> QED
  BY <1>3 DEF Counted

(* Every step that changes how many tasks are active counts them.           *)
LEMMA CountedStep ==
  ASSUME Types, Types', Safe, Calm, Quiet, Owners = {}, Counted, [Next]_vars
  PROVE  Counted'
<1> USE ConstantAssumption
<1>0. /\ task \in [Ids -> Payload] /\ task' \in [Ids -> Payload]
      /\ runner \in RunnerState /\ count \in Int
      /\ ~LeaseLive /\ lease.bound = NoId
      /\ \A t \in Ids : ~Acceptance(t)
      /\ runner.pc = "write" => Ordinary(runner.id)
      /\ \A t \in Ids : Ordinary(t) => t \in index
      /\ \A t \in Ids : Exists(t) => Ordinary(t)
  BY NoOwners DEF Types, StoreTypeOK, Safe, Indexed, Acceptance, Ordinary
<1>1. /\ "QUEUED" \in Active /\ "RUNNING" \in Active
      /\ "WAITING_ADMIN" \in Active
      /\ \A st \in Terminal \cup {"ABSENT"} : st \notin Active
  BY DEF Active, Terminal, AllResults
<1>2. ASSUME NEW s \in Symbols, NEW t \in Ids, SubmitNew(s, t)
      PROVE  Counted'
  <2>1. task[t].st = "ABSENT" /\ task'[t].st = "QUEUED"
    BY <1>0, <1>2 DEF SubmitNew, Fresh, NewTask, Exists
  <2>2. ~IsActive(t) /\ IsActive(t)'
    BY <1>1, <2>1 DEF IsActive
  <2>3. /\ \A u \in Ids : u # t => task'[u] = task[u]
        /\ api = "UP" /\ UNCHANGED <<api, runner>> /\ count' = count + 1
    BY <1>0, <1>2 DEF SubmitNew
  <2> QED
    BY <2>2, <2>3, CountedMore
<1>3. ASSUME NEW s \in Symbols, SubmitRefresh(s)
      PROVE  Counted'
  <2>1. symbols[s] \in Ids /\ task[symbols[s]].st \in Terminal
    BY <1>3 DEF SubmitRefresh, Usable, Done, Types, StoreTypeOK
  <2>2. task'[symbols[s]].st = "QUEUED"
    BY <1>0, <1>3, <2>1 DEF SubmitRefresh, NewTask
  <2>3. ~IsActive(symbols[s]) /\ task'[symbols[s]].st \in Active
    BY <1>1, <2>1, <2>2 DEF IsActive
  <2>4. /\ \A u \in Ids : u # symbols[s] => task'[u] = task[u]
        /\ api = "UP" /\ UNCHANGED <<api, runner, symbols>>
        /\ count' = count + 1
    BY <1>0, <1>3 DEF SubmitRefresh
  <2>5. PICK t \in Ids : t = symbols[s]
    BY <2>1
  <2>6. ~IsActive(t) /\ IsActive(t)' /\ \A u \in Ids : u # t => task'[u] = task[u]
    BY <2>3, <2>4, <2>5 DEF IsActive
  <2> QED
    BY <2>4, <2>6, CountedMore
<1>4. ASSUME NEW t \in Ids, RefreshTask(t) \/ RetryFailed(t)
      PROVE  Counted'
  <2>1. task[t].st \in Terminal
    BY <1>4 DEF RefreshTask, RetryFailed, Done, Terminal
  <2>2. task'[t].st = "QUEUED"
    BY <1>0, <1>4 DEF RefreshTask, RetryFailed, NewTask, Payload
  <2>3. ~IsActive(t) /\ IsActive(t)'
    BY <1>1, <2>1, <2>2 DEF IsActive
  <2>4. /\ \A u \in Ids : u # t => task'[u] = task[u]
        /\ api = "UP" /\ UNCHANGED <<api, runner>> /\ count' = count + 1
    BY <1>0, <1>4 DEF RefreshTask, RetryFailed
  <2> QED
    BY <2>3, <2>4, CountedMore
<1>5. ASSUME NEW t \in Ids, RequeueWaiting(t)
      PROVE  Counted'
  <2>1. task[t].st = "WAITING_ADMIN" /\ task'[t].st = "QUEUED"
    BY <1>0, <1>5 DEF RequeueWaiting, Resumed, Payload
  <2>2. /\ \A u \in Ids : u # t => task'[u] = task[u]
        /\ UNCHANGED <<count, api, runner>>
    BY <1>0, <1>5 DEF RequeueWaiting, Resumed
  <2>3. \A u \in Ids : IsActive(u)' <=> IsActive(u)
    BY <1>1, <2>1, <2>2 DEF IsActive
  <2> QED
    BY <2>2, <2>3, CountedSame
<1>6. ASSUME NEW t \in Ids, Claim(t), task[t].st = "QUEUED"
      PROVE  Counted'
  <2>1. task'[t].st = "RUNNING" /\ \A u \in Ids : u # t => task'[u] = task[u]
    BY <1>0, <1>6 DEF Claim, Payload
  <2>2. runner'.pc = "work" /\ UNCHANGED <<count, api>>
    BY <1>6, WorkType DEF Claim, Calm
  <2>3. \A u \in Ids : IsActive(u)' <=> IsActive(u)
    BY <1>1, <1>6, <2>1 DEF IsActive
  <2>4. ActiveIds' = ActiveIds
    BY <2>3 DEF ActiveIds
  <2> QED
    BY <2>2, <2>4 DEF Counted
<1>7. CASE ClaimNext
  BY <1>6, <1>7 DEF ClaimNext, Claimable
<1>8. CASE RunnerRead
  <2>1. PICK rec \in Outcome(runner.id) :
          runner' = [runner EXCEPT !.pc = "write", !.rec = rec,
                                   !.wasActive = IsActive(runner.id)]
    BY <1>8 DEF RunnerRead
  <2>2. runner.pc = "work" /\ runner.id \in Ids /\ UNCHANGED <<task, count, api>>
    BY <1>8 DEF RunnerRead, Types, store
  <2>3. task[runner.id].st # "ABSENT"
    BY <2>1 DEF Outcome, AllowedFrom, Active, Statuses, AllResults
  <2>4. task[runner.id].st = "RUNNING"
    BY <1>0, <2>2, <2>3 DEF Exists, Quiet
  <2>5. IsActive(runner.id) /\ runner'.wasActive = IsActive(runner.id)
    BY <1>0, <1>1, <2>1, <2>4 DEF IsActive, RunnerState
  <2>6. ActiveIds' = ActiveIds
    BY <2>2 DEF ActiveIds, IsActive
  <2> QED
    BY <2>2, <2>5, <2>6 DEF Counted
<1>9. CASE RunnerRefused \/ Crash
  <2>1. runner'.pc = "idle" /\ UNCHANGED <<task, count>>
        /\ (api' = "UP" => api = "UP")
    BY <1>9, IdleType DEF RunnerRefused, Crash, store
  <2>2. ActiveIds' = ActiveIds
    BY <2>1 DEF ActiveIds, IsActive
  <2> QED
    BY <2>1, <2>2 DEF Counted
<1>10. CASE RunnerPersist
  <2>1. /\ runner.pc = "write" /\ runner.id \in Ids
        /\ runner.rec.st \in Terminal \cup {"WAITING_ADMIN"}
        /\ task' = [task EXCEPT ![runner.id] = runner.rec]
        /\ UNCHANGED api
        /\ runner' = Idle
    BY <1>10 DEF RunnerPersist, Types, Safe, RunnerSound, Calm
  <2>2. task[runner.id].st = "RUNNING" /\ runner.wasActive
    BY <1>0, <2>1 DEF Quiet, Counted
  <2>3. runner'.pc = "idle"
    BY <2>1, IdleType
  <2>4. PICK t \in Ids : t = runner.id
    BY <2>1
  <2>5. /\ IsActive(t)
        /\ task'[t] = runner.rec
        /\ \A u \in Ids : u # t => task'[u] = task[u]
    BY <1>0, <1>1, <2>1, <2>2, <2>4 DEF IsActive
  <2>6. \A u \in Ids : u # t => (IsActive(u)' <=> IsActive(u))
    BY <2>5 DEF IsActive
  <2>7. CASE runner.rec.st \in Active
    <3>1. count' = count
      BY <1>0, <1>10, <2>2, <2>7 DEF RunnerPersist
    <3>2. IsActive(t)'
      BY <2>5, <2>7 DEF IsActive
    <3>3. ActiveIds' = ActiveIds
      BY <2>5, <2>6, <3>2 DEF ActiveIds
    <3> QED
      BY <2>1, <2>3, <3>1, <3>3 DEF Counted
  <2>8. CASE runner.rec.st \notin Active
    <3>1. count' = count - 1
      BY <1>0, <1>10, <2>2, <2>8 DEF RunnerPersist
    <3>2. ~IsActive(t)'
      BY <2>5, <2>8 DEF IsActive
    <3>3. /\ t \notin ActiveIds' /\ ActiveIds = ActiveIds' \cup {t}
          /\ ActiveIds \in SUBSET Ids /\ ActiveIds' \in SUBSET Ids
      BY <2>5, <2>6, <3>2 DEF ActiveIds
    <3>4. /\ Cardinality(ActiveIds) = Cardinality(ActiveIds') + 1
          /\ Cardinality(ActiveIds') \in Nat
      BY <3>3, OneMoreActive
    <3> QED
      BY <2>1, <2>3, <3>1, <3>4 DEF Counted
  <2> QED
    BY <2>7, <2>8
<1>11. /\ ~RunnerFault /\ ~RunnerFallback /\ ~CleanupSave
       /\ ~CleanupAcceptance /\ ~ExpireLease /\ ~ClaimBound
  BY <1>0 DEF RunnerFault, RunnerFallback, CleanupSave, CleanupAcceptance,
              ExpireLease, ClaimBound, Calm, Quiet, Types, StoreTypeOK
<1>12. CASE Boot
  <2>1. PICK order \in SetToSeqs(Interrupted), gone \in SUBSET index,
             codes \in SUBSET Symbols :
          \E heir \in [gone -> index \ gone], keep \in [codes -> index \ gone] :
            BootShape(order, gone, codes, heir, keep)
    BY <1>12, BootFacts
  <2>2. /\ \A t \in Ids : task'[t] = IF t \in gone THEN Absent
                                     ELSE IF t \in Interrupted
                                          THEN [task[t] EXCEPT !.st = "QUEUED"]
                                     ELSE task[t]
        /\ count' = Cardinality({t \in index \ gone : IsActive(t)})
        /\ runner' = runner /\ runner.pc = "idle"
    BY <2>1 DEF BootShape, Safe, DownIdle
  <2>3. ASSUME NEW t \in Ids
        PROVE  task'[t].st \in Active <=> t \in index \ gone /\ task[t].st \in Active
    <3>1. task[t].st \in Active => t \in index
      BY <1>0, <1>1 DEF Exists
    <3>2. t \in Interrupted => t \in index /\ task[t].st = "RUNNING"
      BY DEF Interrupted
    <3>3. Absent.st = "ABSENT"
      BY DEF Absent
    <3> QED
      BY <1>0, <1>1, <2>2, <3>1, <3>2, <3>3 DEF Payload
  <2>4. index \subseteq Ids
    BY DEF Types, StoreTypeOK
  <2>5. ActiveIds' = {t \in index \ gone : IsActive(t)}
    BY <2>3, <2>4 DEF ActiveIds, IsActive
  <2> QED
    BY <2>2, <2>5 DEF Counted
<1>13. CASE UNCHANGED <<task, count, api, runner>>
  BY <1>13, CountedSame DEF IsActive
<1>14. \/ \E s \in Symbols, t \in Ids : SubmitNew(s, t)
       \/ \E s \in Symbols : SubmitRefresh(s)
       \/ \E t \in Ids : RefreshTask(t) \/ RetryFailed(t)
       \/ \E t \in Ids : RequeueWaiting(t)
       \/ ClaimNext \/ RunnerRead \/ RunnerRefused \/ Crash
       \/ RunnerPersist \/ Boot
       \/ UNCHANGED <<task, count, api, runner>>
  BY <1>11
  DEF Next, PublicNext, LeaseNext, RunnerNext, CleanerNext, vars, store,
      ClaimNothing, CleanupRead
<1> QED
  BY <1>2, <1>3, <1>4, <1>5, <1>7, <1>8, <1>9, <1>10, <1>12, <1>13, <1>14

(* What the theorems about a calm store start from.                         *)
CalmInv == Types /\ Safe /\ Quiet

(* The invariant of the counter holds at first and in every step.           *)
LEMMA CalmInvariance ==
  ASSUME Calm
  PROVE  /\ Init => CalmInv
         /\ CalmInv /\ [Next]_vars => CalmInv'
<1>1. Init => CalmInv
  <2>1. Init => Quiet
    BY IdleType DEF Init, NoCleaning, Quiet, MaintenanceQuiet
  <2> QED
    BY <2>1, TypesInit, SafeInit DEF CalmInv
<1>2. CalmInv /\ [Next]_vars => CalmInv'
  <2>1. NoStaleRetry
    BY DEF Calm, NoStaleRetry
  <2> QED
    BY <2>1, TypesStep, SafeStep, QuietStep, Calm DEF CalmInv
<1> QED
  BY <1>1, <1>2

(* The admission counter equals the number of active tasks whenever the API *)
(* serves, after any requests, administrator retries and restarts, also     *)
(* over data of an earlier release: only deployments and writes behind the  *)
(* runner's back make it drift.                                             *)
THEOREM CounterIsExact ==
  ASSUME Calm, Owners = {}
  PROVE  Spec => []CountExact
<1> DEFINE Inv == CalmInv /\ Counted
<1>1. Init => Inv
  <2>1. Init => Counted
    BY IdleType DEF Init, Counted
  <2> QED
    BY <2>1, CalmInvariance
<1>2. Inv /\ [Next]_vars => Inv'
  <2>1. CalmInv /\ [Next]_vars => CalmInv'
    BY CalmInvariance
  <2>2. CalmInv /\ CalmInv' /\ Counted /\ [Next]_vars => Counted'
    BY CountedStep, Calm DEF CalmInv
  <2> QED
    BY <2>1, <2>2
<1>3. Inv => CountExact
  BY DEF Counted, ActiveIds, CountExact
<1> QED
  BY <1>1, <1>2, <1>3, PTL DEF Spec

-----------------------------------------------------------------------------
(* The number of active tasks grows only by an admission below the cap.     *)
LEMMA CappedStep ==
  ASSUME Types, Types', Safe, Calm, Quiet, Owners = {}, ~AdminRetry, Counted,
         Cardinality(ActiveIds) <= Cap, [Next]_vars
  PROVE  Cardinality(ActiveIds') <= Cap
<1> USE ConstantAssumption
<1>0. /\ task \in [Ids -> Payload] /\ task' \in [Ids -> Payload]
      /\ count \in Int
      /\ ~LeaseLive /\ lease.bound = NoId
      /\ \A t \in Ids : ~Acceptance(t)
      /\ runner.pc = "write" => Ordinary(runner.id)
  BY NoOwners DEF Types, StoreTypeOK
<1>1. /\ "QUEUED" \in Active /\ "RUNNING" \in Active
      /\ "WAITING_ADMIN" \in Active /\ "ABSENT" \notin Active
  BY DEF Active
<1>2. ASSUME NEW t \in Ids, \A u \in Ids : u # t => task'[u] = task[u],
             api = "UP", count < Cap
      PROVE  Cardinality(ActiveIds') <= Cap
  <2>1. /\ Cardinality(ActiveIds) < Cap
        /\ ActiveIds \in SUBSET Ids /\ ActiveIds' \in SUBSET Ids
    BY <1>2 DEF Counted, ActiveIds
  <2>2. ActiveIds' \subseteq ActiveIds \cup {t}
    BY <1>2 DEF ActiveIds, IsActive
  <2>3. /\ IsFiniteSet(ActiveIds) /\ IsFiniteSet(ActiveIds')
        /\ IsFiniteSet(ActiveIds \cup {t})
    BY <2>1, FS_Subset, FS_AddElement
  <2>4. /\ Cardinality(ActiveIds) \in Nat /\ Cardinality(ActiveIds') \in Nat
        /\ Cardinality(ActiveIds \cup {t}) \in Nat
    BY <2>3, FS_CardinalityType
  <2>5. Cardinality(ActiveIds \cup {t}) <= Cardinality(ActiveIds) + 1
    BY <2>3, <2>4, FS_AddElement
  <2>6. Cardinality(ActiveIds') <= Cardinality(ActiveIds \cup {t})
    BY <2>2, <2>3, FS_Subset
  <2> QED
    BY <2>1, <2>4, <2>5, <2>6
<1>3. ASSUME \A u \in Ids : IsActive(u)' => IsActive(u)
      PROVE  Cardinality(ActiveIds') <= Cap
  <2>1. ActiveIds' \subseteq ActiveIds /\ ActiveIds \subseteq Ids
    BY <1>3 DEF ActiveIds
  <2>2. IsFiniteSet(ActiveIds) /\ IsFiniteSet(ActiveIds')
    BY <2>1, FS_Subset
  <2>3. /\ Cardinality(ActiveIds) \in Nat /\ Cardinality(ActiveIds') \in Nat
        /\ Cardinality(ActiveIds') <= Cardinality(ActiveIds)
    BY <2>1, <2>2, FS_Subset, FS_CardinalityType
  <2> QED
    BY <2>3
<1>4. ASSUME NEW s \in Symbols, NEW t \in Ids, SubmitNew(s, t)
      PROVE  Cardinality(ActiveIds') <= Cap
  BY <1>0, <1>2, <1>4 DEF SubmitNew
<1>5. ASSUME NEW s \in Symbols, SubmitRefresh(s)
      PROVE  Cardinality(ActiveIds') <= Cap
  <2>1. symbols[s] \in Ids /\ api = "UP" /\ count < Cap
        /\ \A u \in Ids : u # symbols[s] => task'[u] = task[u]
    BY <1>0, <1>5 DEF SubmitRefresh, Usable, Types, StoreTypeOK
  <2> QED
    BY <1>2, <2>1
<1>6. ASSUME NEW t \in Ids, RefreshTask(t)
      PROVE  Cardinality(ActiveIds') <= Cap
  BY <1>0, <1>2, <1>6 DEF RefreshTask
<1>7. ASSUME NEW t \in Ids, task[t].st \in Active,
             \A u \in Ids : u # t => task'[u] = task[u]
      PROVE  Cardinality(ActiveIds') <= Cap
  BY <1>3, <1>7 DEF IsActive
<1>8. ASSUME NEW t \in Ids, RequeueWaiting(t)
      PROVE  Cardinality(ActiveIds') <= Cap
  BY <1>0, <1>1, <1>7, <1>8 DEF RequeueWaiting, Resumed
<1>9. CASE ClaimNext
  BY <1>0, <1>1, <1>7, <1>9 DEF ClaimNext, Claimable, Claim
<1>10. CASE RunnerPersist
  BY <1>0, <1>1, <1>7, <1>10 DEF RunnerPersist, Quiet, Types
<1>11. /\ ~RunnerFault /\ ~RunnerFallback /\ ~CleanupSave
       /\ ~CleanupAcceptance /\ ~ExpireLease /\ ~ClaimBound
       /\ \A t \in Ids : ~RetryFailed(t)
  BY <1>0 DEF RunnerFault, RunnerFallback, CleanupSave, CleanupAcceptance,
              ExpireLease, ClaimBound, RetryFailed, Calm, Quiet, Types,
              StoreTypeOK
<1>12. CASE Boot
  <2>1. PICK order \in SetToSeqs(Interrupted), gone \in SUBSET index,
             codes \in SUBSET Symbols :
          \E heir \in [gone -> index \ gone], keep \in [codes -> index \ gone] :
            BootShape(order, gone, codes, heir, keep)
    BY <1>12, BootFacts
  <2>2. \A t \in Ids : task'[t] = IF t \in gone THEN Absent
                                  ELSE IF t \in Interrupted
                                       THEN [task[t] EXCEPT !.st = "QUEUED"]
                                  ELSE task[t]
    BY <2>1 DEF BootShape
  <2>3. \A t \in Ids : task'[t].st \in Active => task[t].st \in Active
    <3>1. Absent.st = "ABSENT"
      BY DEF Absent
    <3>2. \A t \in Interrupted : task[t].st = "RUNNING"
      BY DEF Interrupted
    <3> QED
      BY <1>1, <2>2, <3>1, <3>2
  <2> QED
    BY <1>3, <2>3 DEF IsActive
<1>13. CASE task' = task
  BY <1>3, <1>13 DEF IsActive
<1>14. \/ \E s \in Symbols, t \in Ids : SubmitNew(s, t)
       \/ \E s \in Symbols : SubmitRefresh(s)
       \/ \E t \in Ids : RefreshTask(t) \/ RequeueWaiting(t)
       \/ ClaimNext \/ RunnerPersist \/ Boot
       \/ task' = task
  BY <1>11
  DEF Next, PublicNext, LeaseNext, RunnerNext, CleanerNext, vars, store,
      ClaimNothing, RunnerRead, RunnerRefused, CleanupRead, Crash
<1> QED
  BY <1>4, <1>5, <1>6, <1>8, <1>9, <1>10, <1>12, <1>13, <1>14

(* The public cap holds, between restarts and across them, when there are   *)
(* no deployments, no administrator retries and no writes behind the        *)
(* runner's back: these are all that can take the store over its cap.       *)
THEOREM CapHolds ==
  ASSUME Calm, Owners = {}, ~AdminRetry, ~OldRelease
  PROVE  Spec => []CapRespected
<1> DEFINE Few == Cardinality(ActiveIds) <= Cap
           Inv == CalmInv /\ Counted /\ Few
<1>1. Init => Inv
  <2>1. Init => Counted
    BY IdleType DEF Init, Counted
  <2>2. ASSUME Init PROVE Few
    <3>1. ActiveIds = {}
      BY <2>2 DEF Init, EmptyInit, ActiveIds, IsActive, Absent, Active
    <3> QED
      BY <3>1, FS_EmptySet, ConstantAssumption
  <2> QED
    BY <2>1, <2>2, CalmInvariance
<1>2. Inv /\ [Next]_vars => Inv'
  <2>1. CalmInv /\ [Next]_vars => CalmInv'
    BY CalmInvariance
  <2>2. CalmInv /\ CalmInv' /\ Counted /\ [Next]_vars => Counted'
    BY CountedStep, Calm DEF CalmInv
  <2>3. CalmInv /\ CalmInv' /\ Counted /\ Few /\ [Next]_vars => Few'
    BY CappedStep, Calm DEF CalmInv
  <2> QED
    BY <2>1, <2>2, <2>3
<1>3. Inv => CapRespected
  <2> SUFFICES ASSUME Inv PROVE CapRespected
    OBVIOUS
  <2> DEFINE S == {t \in Ids : Ordinary(t) /\ IsActive(t)}
  <2>1. S \subseteq ActiveIds /\ ActiveIds \subseteq Ids
    BY DEF ActiveIds
  <2>2. IsFiniteSet(ActiveIds) /\ IsFiniteSet(S)
    BY <2>1, FS_Subset, ConstantAssumption
  <2>3. /\ Cardinality(S) <= Cardinality(ActiveIds)
        /\ Cardinality(S) \in Nat /\ Cardinality(ActiveIds) \in Nat
    BY <2>1, <2>2, FS_Subset, FS_CardinalityType
  <2> QED
    BY <2>3, ConstantAssumption DEF CapRespected
<1> QED
  BY <1>1, <1>2, <1>3, PTL DEF Spec

(* One step of any caller takes an ordinary queued task nowhere but to      *)
(* RUNNING while the API serves.                                            *)
LEMMA QueuedStep ==
  ASSUME CalmInv, CalmInv', AllNamed, Calm, [Next]_vars, api = "UP",
         NEW t \in Ids, Claimable(t)
  PROVE  task'[t].st \in {"QUEUED", "RUNNING"}
<1> USE ConstantAssumption
<1>0. /\ task \in [Ids -> Payload]
      /\ task[t].st = "QUEUED" /\ task[t].owner = NoOwner /\ t # lease.bound
      /\ Types /\ Safe /\ Quiet
  BY DEF CalmInv, Types, StoreTypeOK, AllNamed, Acceptance, Claimable, Ordinary
<1>1. CASE task'[t] = task[t]
  BY <1>0, <1>1
<1>2. ASSUME NEW s \in Symbols, NEW u \in Ids, SubmitNew(s, u)
      PROVE  task'[t] = task[t]
  BY <1>0, <1>2 DEF SubmitNew, Fresh, Exists
<1>3. ASSUME NEW s \in Symbols, SubmitRefresh(s)
      PROVE  task'[t] = task[t]
  BY <1>0, <1>3 DEF SubmitRefresh, Done, Terminal, AllResults
<1>4. ASSUME NEW u \in Ids, RefreshTask(u) \/ RetryFailed(u) \/ RequeueWaiting(u)
      PROVE  task'[t] = task[t]
  BY <1>0, <1>4 DEF RefreshTask, RetryFailed, RequeueWaiting, Resumed, Done,
                    Terminal, AllResults
<1>5. ASSUME NEW o \in Owners, NEW u \in Ids, BindNew(o, u)
      PROVE  task'[t] = task[t]
  BY <1>0, <1>5 DEF BindNew, Fresh, Exists
<1>6. ASSUME NEW o \in Owners, BindAgain(o)
      PROVE  task'[t] = task[t]
  BY <1>0, <1>6 DEF BindAgain
<1>7. ASSUME NEW R \in SUBSET Ids, RemoveTasks(R), t \notin R
      PROVE  task'[t] = task[t]
  BY <1>0, <1>7 DEF RemoveTasks
<1>8. ASSUME NEW o \in Owners, ReleaseLease(o)
      PROVE  task'[t] = task[t]
  <2>1. CASE UNCHANGED store
    BY <2>1 DEF store
  <2>2. CASE lease.bound # NoId /\ RemoveTasks({lease.bound})
    <3>1. {lease.bound} \in SUBSET Ids
      BY <1>0, <2>2 DEF Types, StoreTypeOK
    <3> QED
      BY <1>0, <1>7, <2>2, <3>1
  <2> QED
    BY <1>8, <2>1, <2>2 DEF ReleaseLease
<1>9. CASE CleanupAcceptance
  <2> DEFINE R == {u \in index : Acceptance(u)}
  <2>1. R \in SUBSET Ids /\ t \notin R /\ RemoveTasks(R)
    BY <1>0, <1>9 DEF CleanupAcceptance, Acceptance, Types, StoreTypeOK
  <2> HIDE DEF R
  <2> QED
    BY <1>1, <1>7, <2>1
<1>10. CASE ClaimBound
  BY <1>0, <1>10 DEF ClaimBound, Claim
<1>11. CASE ClaimNext
  <2>1. PICK u \in Ids : Claim(u)
    BY <1>11 DEF ClaimNext
  <2> QED
    BY <1>0, <2>1 DEF Claim, Payload
<1>12. CASE RunnerPersist
  BY <1>0, <1>12 DEF RunnerPersist, Quiet, Claimable
<1>13. ~CleanupSave /\ ~Boot
  BY <1>0 DEF CleanupSave, Quiet, Boot
<1>14. \/ \E s \in Symbols, u \in Ids : SubmitNew(s, u)
       \/ \E s \in Symbols : SubmitRefresh(s)
       \/ \E u \in Ids : RefreshTask(u) \/ RetryFailed(u) \/ RequeueWaiting(u)
       \/ \E o \in Owners, u \in Ids : BindNew(o, u)
       \/ \E o \in Owners : BindAgain(o) \/ ReleaseLease(o)
       \/ CleanupAcceptance \/ ClaimBound \/ ClaimNext \/ RunnerPersist
       \/ task' = task
  BY <1>13
  DEF Next, PublicNext, LeaseNext, RunnerNext, CleanerNext, vars, store,
      AcquireLease, RenewLease, ExpireLease, ClaimNothing, RunnerRead,
      RunnerRefused, RunnerFault, RunnerFallback, CleanupRead, Crash
<1> QED
  BY <1>1, <1>2, <1>3, <1>4, <1>5, <1>6, <1>8, <1>9, <1>10, <1>11, <1>12,
     <1>14

(* An accepted request is durable: with captures that do not expire and a   *)
(* Redis that answers, a claim is the only thing that takes an ordinary     *)
(* task out of QUEUED while the API serves; deployments do not lose it.     *)
THEOREM OnlyAClaimUnqueues ==
  ASSUME Calm, ~OldRelease
  PROVE  Spec => QueuedUntilClaimed
<1> DEFINE Inv == CalmInv /\ IndexInv
<1>0. NoStaleRetry
  BY DEF Calm, NoStaleRetry
<1>1. Init => Inv
  BY <1>0, CalmInvariance, IndexInvariance
<1>2. Inv /\ [Next]_vars => Inv'
  BY <1>0, CalmInvariance, IndexInvariance
<1>3. ASSUME Inv, Inv', [Next]_vars
      PROVE  [\A t \in Ids : Claimable(t) /\ api = "UP" =>
                task'[t].st \in {"QUEUED", "RUNNING"}]_vars
  BY <1>3, QueuedStep, Calm DEF IndexInv
<1> QED
  BY <1>1, <1>2, <1>3, PTL DEF Spec, QueuedUntilClaimed

-----------------------------------------------------------------------------
(* The list names queued tasks only, each once, and the runner's task is    *)
(* RUNNING unless its acceptance task was removed.                          *)
ListQueued ==
  /\ fifo \in Seq(Ids)
  /\ IsInjective(fifo)
  /\ \A t \in Ids : Contains(fifo, t) => task[t].st = "QUEUED"
  /\ runner.pc # "idle" => task[runner.id].st \in {"RUNNING", "ABSENT"}

(* An id that is not listed comes to the back the same way with and without *)
(* an LREM before the RPUSH.                                                *)
LEMMA ToBackNew ==
  ASSUME fifo \in Seq(Ids), NEW t \in Ids, ~Contains(fifo, t)
  PROVE  ToBack(t) = Append(fifo, t)
<1>1. \A y : Contains(fifo, y) => y \in Ids \ {t}
  BY DEF Contains
<1>2. Keep(fifo, Ids \ {t}) = fifo
  BY <1>1, KeepAll
<1> QED
  BY <1>2 DEF ToBack, Unlisted

(* A task is pushed in the step that makes it QUEUED.                       *)
LEMMA ListQueuedPush ==
  ASSUME Types, ListQueued, NEW t \in Ids, task[t].st \notin {"QUEUED", "RUNNING"},
         runner.pc # "idle" => runner.id # t,
         fifo' \in {Append(fifo, t), ToBack(t)}, runner' = runner,
         task'[t].st = "QUEUED",
         \A u \in Ids : u # t => task'[u] = task[u]
  PROVE  ListQueued' /\ fifo' = Append(fifo, t)
<1>0. /\ fifo \in Seq(Ids) /\ IsInjective(fifo) /\ ~Contains(fifo, t)
      /\ runner.pc # "idle" => runner.id \in Ids
  BY DEF ListQueued, Types
<1>1. fifo' = Append(fifo, t)
  BY <1>0, ToBackNew
<1>2. /\ fifo' \in Seq(Ids)
      /\ \A y : Contains(fifo', y) <=> Contains(fifo, y) \/ y = t
  BY <1>0, <1>1, AppendHas
<1>3. IsInjective(fifo')
  BY <1>0, <1>1, DistinctAppend
<1>4. \A u \in Ids : Contains(fifo', u) => task'[u].st = "QUEUED"
  BY <1>2 DEF ListQueued
<1>5. runner'.pc # "idle" => task'[runner'.id].st \in {"RUNNING", "ABSENT"}
  BY <1>0 DEF ListQueued
<1> QED
  BY <1>1, <1>2, <1>3, <1>4, <1>5 DEF ListQueued

(* The steps that shorten the list, or leave it as it is.                   *)
LEMMA ListQueuedLess ==
  ASSUME ListQueued, fifo' \in Seq(Ids), IsInjective(fifo'),
         \A t \in Ids : Contains(fifo', t) =>
           Contains(fifo, t) /\ task'[t].st = task[t].st,
         runner'.pc # "idle" => task'[runner'.id].st \in {"RUNNING", "ABSENT"}
  PROVE  ListQueued'
BY DEF ListQueued

(* Dropping ids from the list leaves what is kept as it was.                *)
LEMMA ListQueuedKeep ==
  ASSUME ListQueued, NEW S, fifo' = Keep(fifo, S),
         \A t \in Ids \cap S : Contains(fifo, t) => task'[t].st = task[t].st,
         runner'.pc # "idle" => task'[runner'.id].st \in {"RUNNING", "ABSENT"}
  PROVE  ListQueued'
<1>0. fifo \in Seq(Ids) /\ IsInjective(fifo)
  BY DEF ListQueued
<1>1. fifo' \in Seq(Ids) /\ IsInjective(fifo')
  BY <1>0, KeepType, KeepDistinct
<1>2. \A y : Contains(fifo', y) <=> Contains(fifo, y) /\ y \in S
  BY <1>0, KeepContains
<1> QED
  BY <1>1, <1>2, ListQueuedLess

(* The list after a startup, when what is interrupted is not listed.        *)
LEMMA BootDistinct ==
  ASSUME Types, fifo \in Seq(Ids), IsInjective(fifo),
         NEW order \in SetToSeqs(Interrupted),
         \A t \in Ids : Contains(fifo, t) => t \notin Interrupted
  PROVE  order \in Seq(Ids) /\ IsInjective(order) /\ IsInjective(order \o fifo)
<1>1. Interrupted \subseteq Ids /\ IsFiniteSet(Interrupted)
  <2>1. Interrupted \subseteq Ids
    BY DEF Interrupted, Types, StoreTypeOK
  <2> QED
    BY <2>1, ConstantAssumption, FS_Subset
<1>2. /\ order \in Seq(Interrupted) /\ IsInjective(order)
      /\ \A y : Contains(order, y) <=> y \in Interrupted
  BY <1>1, ListingHas
<1>3. order \in Seq(Ids)
  BY <1>1, <1>2
<1>4. \A y : ~(Contains(order, y) /\ Contains(fifo, y))
  BY <1>1, <1>2
<1>5. IsInjective(order \o fifo)
  BY <1>2, <1>3, <1>4, DistinctConcat
<1> QED
  BY <1>2, <1>3, <1>5

(* A startup puts the interrupted tasks, now QUEUED, at the front.          *)
LEMMA ListQueuedBoot ==
  ASSUME Types, Types', Safe, ListQueued, Boot
  PROVE  ListQueued'
<1> USE ConstantAssumption
<1>0. /\ fifo \in Seq(Ids) /\ IsInjective(fifo)
      /\ task \in [Ids -> Payload]
      /\ \A t \in Ids : Contains(fifo, t) => task[t].st = "QUEUED"
      /\ \A t \in Interrupted : task[t].st = "RUNNING" /\ t \in Ids
  BY DEF ListQueued, Types, StoreTypeOK, Interrupted
<1>1. PICK order \in SetToSeqs(Interrupted), gone \in SUBSET index,
           codes \in SUBSET Symbols :
        \E heir \in [gone -> index \ gone], keep \in [codes -> index \ gone] :
          BootShape(order, gone, codes, heir, keep)
  BY BootFacts
<1>2. /\ \A t \in Ids : task'[t] = IF t \in gone THEN Absent
                                   ELSE IF t \in Interrupted
                                        THEN [task[t] EXCEPT !.st = "QUEUED"]
                                   ELSE task[t]
      /\ fifo' = Keep(order \o fifo, Ids \ gone)
      /\ runner' = runner /\ runner.pc = "idle"
  BY <1>1 DEF BootShape, Safe, DownIdle
<1>3. /\ fifo' \in Seq(Ids)
      /\ \A y : Contains(fifo', y) <=>
                  (y \in Interrupted \/ Contains(fifo, y)) /\ y \notin gone
  BY <1>0, <1>2, BootHas
<1>4. order \in Seq(Ids) /\ IsInjective(order \o fifo)
  BY <1>0, BootDistinct
<1>5. order \o fifo \in Seq(Ids)
  BY <1>0, <1>4
<1>6. IsInjective(fifo')
  BY <1>2, <1>4, <1>5, KeepDistinct
<1>7. \A t \in Ids : Contains(fifo', t) => task'[t].st = "QUEUED"
  BY <1>0, <1>2, <1>3 DEF Payload
<1> QED
  BY <1>2, <1>3, <1>6, <1>7 DEF ListQueued

(* What is left of a list without repetition behind one of its elements.    *)
LEMMA TailDistinct ==
  ASSUME NEW a \in Seq(Ids), NEW b \in Seq(Ids), NEW t \in Ids,
         fifo = Append(a, t) \o b, IsInjective(fifo)
  PROVE  /\ IsInjective(b)
         /\ ~Contains(b, t)
         /\ \A y : Contains(b, y) => Contains(fifo, y)
<1> DEFINE c == Append(a, t)
<1>1. c \in Seq(Ids) /\ Len(c) \in Nat /\ Len(c) = Len(a) + 1 /\ c[Len(c)] = t
  OBVIOUS
<1>2. Len(a) \in Nat /\ Len(b) \in Nat /\ Len(c) \in 1..Len(c)
  BY <1>1
<1> HIDE DEF c
<1>3. /\ Len(fifo) = Len(c) + Len(b) /\ fifo \in Seq(Ids)
      /\ \A i \in 1..Len(c) : fifo[i] = c[i]
      /\ \A i \in 1..Len(b) : fifo[Len(c) + i] = b[i]
  BY <1>1, ConcatFacts DEF c
<1>4. /\ DOMAIN fifo = 1..(Len(c) + Len(b)) /\ DOMAIN b = 1..Len(b)
      /\ fifo[Len(c)] = t
  BY <1>1, <1>2, <1>3
<1>5. \A i, j \in DOMAIN fifo : fifo[i] = fifo[j] => i = j
  BY DEF IsInjective
<1>6. ASSUME NEW i \in 1..Len(b), NEW j \in 1..Len(b), b[i] = b[j] PROVE i = j
  <2>1. Len(c) + i \in DOMAIN fifo /\ Len(c) + j \in DOMAIN fifo
    BY <1>1, <1>2, <1>4
  <2>2. Len(c) + i = Len(c) + j
    BY <1>3, <1>5, <1>6, <2>1
  <2> QED
    BY <1>1, <2>2
<1>7. ASSUME NEW i \in 1..Len(b), b[i] = t PROVE FALSE
  <2>1. Len(c) + i \in DOMAIN fifo /\ Len(c) \in DOMAIN fifo
    BY <1>1, <1>2, <1>4
  <2>2. Len(c) + i = Len(c)
    <3>1. fifo[Len(c) + i] = t /\ fifo[Len(c)] = t
      BY ONLY <1>3, <1>4, <1>7, i \in 1..Len(b)
    <3> QED
      BY ONLY <1>5, <2>1, <3>1
  <2> QED
    BY <1>1, <2>2
<1>8. \A y : Contains(b, y) => Contains(fifo, y)
  BY <1>1, ContainsConcat DEF c
<1>9. IsInjective(b)
  BY <1>4, <1>6 DEF IsInjective
<1>10. ~Contains(b, t)
  BY <1>7 DEF Contains
<1> QED
  BY <1>8, <1>9, <1>10

(* No step lists a task twice or one that is not QUEUED.                    *)
LEMMA ListQueuedStep ==
  ASSUME CalmInv, CalmInv', Calm, ListQueued, [Next]_vars
  PROVE  ListQueued'
<1> USE ConstantAssumption
<1>0. /\ task \in [Ids -> Payload] /\ task' \in [Ids -> Payload]
      /\ fifo \in Seq(Ids) /\ IsInjective(fifo)
      /\ \A t \in Ids : Contains(fifo, t) => task[t].st = "QUEUED"
      /\ runner.pc # "idle" => runner.id \in Ids
      /\ runner.pc # "idle" => task[runner.id].st \in {"RUNNING", "ABSENT"}
      /\ Types /\ Types' /\ Safe /\ Quiet
      /\ runner \in RunnerState
  BY DEF CalmInv, Types, StoreTypeOK, ListQueued
<1>1. ASSUME NEW s \in Symbols, NEW t \in Ids, SubmitNew(s, t)
      PROVE  ListQueued'
  <2>1. /\ task[t].st = "ABSENT" /\ runner.id # t /\ task'[t].st = "QUEUED"
        /\ fifo' = Append(fifo, t) /\ runner' = runner
        /\ \A u \in Ids : u # t => task'[u] = task[u]
    BY <1>0, <1>1 DEF SubmitNew, Fresh, NewTask, Exists
  <2> QED
    BY <1>0, <2>1, ListQueuedPush
<1>2. ASSUME NEW s \in Symbols, SubmitRefresh(s)
      PROVE  ListQueued'
  <2>1. symbols[s] \in Ids /\ task[symbols[s]].st \in Terminal
    BY <1>0, <1>2 DEF SubmitRefresh, Usable, Done, Types, StoreTypeOK
  <2>2. /\ task'[symbols[s]].st = "QUEUED"
        /\ fifo' = ToBack(symbols[s]) /\ runner' = runner
        /\ \A u \in Ids : u # symbols[s] => task'[u] = task[u]
    BY <1>0, <1>2, <2>1 DEF SubmitRefresh, NewTask
  <2>3. /\ task[symbols[s]].st \notin {"QUEUED", "RUNNING", "ABSENT"}
        /\ runner.pc # "idle" => runner.id # symbols[s]
    BY <1>0, <2>1 DEF Terminal, AllResults
  <2> QED
    BY <1>0, <2>1, <2>2, <2>3, ListQueuedPush
<1>3. ASSUME NEW t \in Ids, RefreshTask(t) \/ RetryFailed(t) \/ RequeueWaiting(t)
      PROVE  ListQueued'
  <2>1. task[t].st \in Terminal \cup {"WAITING_ADMIN"}
    BY <1>3 DEF RefreshTask, RetryFailed, RequeueWaiting, Resumed, Done, Terminal
  <2>2. task'[t].st = "QUEUED"
    BY <1>0, <1>3
    DEF RefreshTask, RetryFailed, RequeueWaiting, Resumed, NewTask, Payload
  <2>3. /\ fifo' = Append(fifo, t) /\ runner' = runner
        /\ \A u \in Ids : u # t => task'[u] = task[u]
    BY <1>0, <1>3 DEF RefreshTask, RetryFailed, RequeueWaiting, Resumed
  <2>4. /\ task[t].st \notin {"QUEUED", "RUNNING", "ABSENT"}
        /\ runner.pc # "idle" => runner.id # t
    BY <1>0, <2>1 DEF Terminal, AllResults
  <2> QED
    BY <1>0, <2>2, <2>3, <2>4, ListQueuedPush
<1>4. ASSUME NEW o \in Owners, NEW t \in Ids, BindNew(o, t)
      PROVE  ListQueued'
  <2>1. /\ task[t].st = "ABSENT" /\ runner.id # t /\ task'[t].st = "QUEUED"
        /\ fifo' = Append(fifo, t) /\ runner' = runner
        /\ \A u \in Ids : u # t => task'[u] = task[u]
    BY <1>0, <1>4 DEF BindNew, Fresh, NewTask, Exists
  <2> QED
    BY <1>0, <2>1, ListQueuedPush
<1>5. ASSUME NEW o \in Owners, BindAgain(o)
      PROVE  ListQueued'
  <2>1. /\ lease.bound \in Ids /\ runner' = runner
        /\ \A u \in Ids : u # lease.bound => task'[u] = task[u]
    BY <1>0, <1>5 DEF BindAgain, Types, StoreTypeOK
  <2>2. CASE Done(lease.bound) /\ PendingScan < Cap
    <3>1. task'[lease.bound].st = "QUEUED" /\ fifo' = ToBack(lease.bound)
      BY <1>0, <1>5, <2>1, <2>2 DEF BindAgain, NewTask
    <3>2. /\ task[lease.bound].st \notin {"QUEUED", "RUNNING", "ABSENT"}
          /\ runner.pc # "idle" => runner.id # lease.bound
      BY <1>0, <2>2 DEF Done, Terminal, AllResults
    <3> QED
      BY <1>0, <2>1, <3>1, <3>2, ListQueuedPush
  <2>3. CASE ~(Done(lease.bound) /\ PendingScan < Cap)
    <3>1. fifo' = fifo /\ task'[lease.bound].st = task[lease.bound].st
      BY <1>0, <1>5, <2>1, <2>3 DEF BindAgain, Payload
    <3>2. \A u \in Ids : task'[u].st = task[u].st
      BY <2>1, <3>1
    <3> QED
      BY <1>0, <2>1, <3>1, <3>2, ListQueuedLess
  <2> QED
    BY <2>2, <2>3
<1>6. ASSUME NEW R \in SUBSET Ids, RemoveTasks(R), runner' = runner
      PROVE  ListQueued'
  <2>1. PICK c \in Ids \cup {NoId} : RemoveShape(R, c)
    BY <1>0, <1>6, RemoveFacts
  <2>2. /\ fifo' = Keep(fifo, Ids \ R)
        /\ \A t \in Ids \ R : task'[t] = task[t]
        /\ \A t \in R : task'[t].st = "ABSENT"
    BY <2>1 DEF RemoveShape, Absent
  <2> QED
    BY <1>0, <1>6, <2>2, ListQueuedKeep
<1>7. ASSUME NEW o \in Owners, ReleaseLease(o)
      PROVE  ListQueued'
  <2>1. runner' = runner
    BY <1>7 DEF ReleaseLease
  <2>2. CASE UNCHANGED store
    BY <1>0, <2>1, <2>2, ListQueuedLess DEF store
  <2>3. CASE lease.bound # NoId /\ RemoveTasks({lease.bound})
    <3>1. {lease.bound} \in SUBSET Ids
      BY <1>0, <2>3 DEF Types, StoreTypeOK
    <3> QED
      BY <1>6, <2>1, <2>3, <3>1
  <2> QED
    BY <1>7, <2>2, <2>3 DEF ReleaseLease
<1>8. CASE CleanupAcceptance
  <2>1. {t \in index : Acceptance(t)} \in SUBSET Ids
    BY <1>0 DEF Types, StoreTypeOK
  <2> QED
    BY <1>6, <1>8, <2>1 DEF CleanupAcceptance
<1>9. ASSUME NEW t \in Ids, Claim(t), fifo' \in Seq(Ids), IsInjective(fifo'),
             ~Contains(fifo', t), \A y : Contains(fifo', y) => Contains(fifo, y)
      PROVE  ListQueued'
  <2>1. task'[t].st = "RUNNING" /\ \A u \in Ids : u # t => task'[u] = task[u]
    BY <1>0, <1>9 DEF Claim, Payload
  <2>2. runner'.id = t
    BY <1>9, WorkType DEF Claim, Calm
  <2> QED
    BY <1>9, <2>1, <2>2, ListQueuedLess
<1>10. CASE ClaimBound
  <2>1. /\ lease.bound \in Ids /\ Claim(lease.bound)
        /\ fifo' = Unlisted(lease.bound)
    BY <1>0, <1>10 DEF ClaimBound, Types, StoreTypeOK
  <2>2. IsInjective(fifo')
    BY <1>0, <2>1, KeepDistinct DEF Unlisted
  <2> QED
    BY <1>0, <1>9, <2>1, <2>2, UnlistedHas
<1>11. CASE ClaimNext
  <2>1. PICK t \in Ids, a \in Seq(Ids), b \in Seq(Ids) :
           Claim(t) /\ fifo = Append(a, t) \o b /\ fifo' = b
    BY <1>0, <1>11, ClaimNextFacts
  <2>2. IsInjective(b) /\ ~Contains(b, t) /\ \A y : Contains(b, y) => Contains(fifo, y)
    BY <1>0, <2>1, TailDistinct
  <2> QED
    BY <1>9, <2>1, <2>2
<1>12. CASE ClaimNothing
  <2>1. fifo' = <<>> /\ UNCHANGED <<task, runner>>
    BY <1>12 DEF ClaimNothing
  <2>2. \A y : ~Contains(<<>>, y)
    BY DEF Contains
  <2>3. IsInjective(<<>>) /\ <<>> \in Seq(Ids)
    BY DEF IsInjective
  <2> QED
    BY <1>0, <2>1, <2>2, <2>3, ListQueuedLess
<1>13. CASE RunnerRead
  <2>1. runner'.id = runner.id /\ runner.pc # "idle" /\ UNCHANGED <<task, fifo>>
    BY <1>0, <1>13 DEF RunnerRead, RunnerState, store
  <2> QED
    BY <1>0, <2>1, ListQueuedLess
<1>14. CASE RunnerRefused \/ Crash
  <2>1. runner'.pc = "idle" /\ UNCHANGED <<task, fifo>>
    BY <1>14, IdleType DEF RunnerRefused, Crash, store
  <2> QED
    BY <1>0, <2>1, ListQueuedLess
<1>15. CASE RunnerPersist
  <2>1. /\ runner.pc = "write" /\ runner.id \in Ids
        /\ task' = [task EXCEPT ![runner.id] = runner.rec]
        /\ fifo' = fifo /\ runner' = Idle
    BY <1>0, <1>15 DEF RunnerPersist, Calm
  <2>2. runner'.pc = "idle" /\ ~Contains(fifo, runner.id)
    BY <1>0, <2>1, IdleType
  <2>3. \A u \in Ids : Contains(fifo, u) => task'[u].st = task[u].st
    BY <1>0, <2>1, <2>2
  <2> QED
    BY <1>0, <2>1, <2>2, <2>3, ListQueuedLess
<1>16. /\ ~RunnerFault /\ ~RunnerFallback /\ ~CleanupSave
  BY <1>0 DEF RunnerFault, RunnerFallback, CleanupSave, Calm, Quiet
<1>17. CASE Boot
  BY <1>0, <1>17, ListQueuedBoot
<1>18. CASE UNCHANGED <<task, fifo, runner>>
  BY <1>0, <1>18, ListQueuedLess
<1>19. \/ \E s \in Symbols, t \in Ids : SubmitNew(s, t)
       \/ \E s \in Symbols : SubmitRefresh(s)
       \/ \E t \in Ids : RefreshTask(t) \/ RetryFailed(t) \/ RequeueWaiting(t)
       \/ \E o \in Owners, t \in Ids : BindNew(o, t)
       \/ \E o \in Owners : BindAgain(o) \/ ReleaseLease(o)
       \/ ClaimBound \/ ClaimNext \/ ClaimNothing \/ RunnerRead
       \/ (RunnerRefused \/ Crash)
       \/ RunnerPersist \/ CleanupAcceptance \/ Boot
       \/ UNCHANGED <<task, fifo, runner>>
  BY <1>16
  DEF Next, PublicNext, LeaseNext, RunnerNext, CleanerNext, vars, store,
      AcquireLease, RenewLease, ExpireLease, CleanupRead
<1> QED
  BY <1>1, <1>2, <1>3, <1>4, <1>5, <1>7, <1>8, <1>10, <1>11, <1>12, <1>13,
     <1>14, <1>15, <1>17, <1>18, <1>19

-----------------------------------------------------------------------------
(* The mapping of the store to the abstract queue.                          *)
ClaimableIds == {t \in Ids : Claimable(t)}

Waiting == Keep(fifo, ClaimableIds)

Started == {t \in Ids : Ordinary(t) /\ task[t].st = "RUNNING"}

(* The steps of the abstract queue, on the mapped state.                    *)
LEMMA AsAdmit ==
  ASSUME NEW t \in Ids, ~Contains(Waiting, t), t \notin Started,
         Waiting' = Append(Waiting, t), Started' = Started, lease' = lease
  PROVE  Queue!QNext
BY DEF Queue!QNext, Queue!Admit, Queue!Contains, Contains, Waiting, Started,
       ClaimableIds, LeaseLive

(* The head of what waits is started.                                       *)
LEMMA AsStart ==
  ASSUME ~LeaseLive, Waiting # <<>>,
         Started' = Started \cup {Head(Waiting)},
         Waiting' = Tail(Waiting), lease' = lease
  PROVE  Queue!QNext
BY DEF Queue!QNext, Queue!Start, Waiting, Started, ClaimableIds, LeaseLive

(* A started task ends.                                                     *)
LEMMA AsFinish ==
  ASSUME NEW t \in Ids, t \in Started, Started' = Started \ {t},
         Waiting' = Waiting, lease' = lease
  PROVE  Queue!QNext
BY DEF Queue!QNext, Queue!Finish, Waiting, Started, ClaimableIds, LeaseLive

(* What was started comes back, in some order, before what waits.           *)
LEMMA AsRecover ==
  ASSUME Started # {}, NEW order \in SetToSeqs(Started),
         Waiting' = order \o Waiting, Started' = {}, lease' = lease
  PROVE  Queue!QNext
<1>1. \A S : Queue!Cardinality(S) = Cardinality(S)
  BY DEF Queue!Cardinality, Cardinality
<1>2. Queue!SetToSeqs(Started) = SetToSeqs(Started)
  BY <1>1 DEF Queue!SetToSeqs, SetToSeqs
<1>3. Queue!Recover
  BY <1>2 DEF Queue!Recover, Waiting, Started, ClaimableIds, LeaseLive
<1> QED
  BY <1>3 DEF Queue!QNext

(* A lease stops the queue.                                                 *)
LEMMA AsFreeze ==
  ASSUME ~LeaseLive, Started = {}, LeaseLive', Waiting' = Waiting,
         Started' = Started
  PROVE  Queue!QNext
BY DEF Queue!QNext, Queue!Freeze, Waiting, Started, ClaimableIds

(* The end of a lease lets the queue run again.                             *)
LEMMA AsThaw ==
  ASSUME LeaseLive, ~LeaseLive', Waiting' = Waiting, Started' = Started
  PROVE  Queue!QNext
BY DEF Queue!QNext, Queue!Thaw, Waiting, Started, ClaimableIds

(* A step the queue does not see.                                           *)
LEMMA AsStutter ==
  ASSUME Waiting' = Waiting, Started' = Started, LeaseLive' <=> LeaseLive
  PROVE  UNCHANGED Queue!qvars
BY DEF Queue!qvars, Waiting, Started, ClaimableIds

(* A list over a set is over any set that holds its members.                *)
LEMMA ListOver ==
  ASSUME NEW T, NEW q \in Seq(T), NEW S, \A y : Contains(q, y) => y \in S
  PROVE  q \in Seq(S)
<1>1. Len(q) \in Nat /\ q = [i \in 1..Len(q) |-> q[i]]
  OBVIOUS
<1>2. \A i \in 1..Len(q) : q[i] \in S
  BY DEF Contains
<1> QED
  BY <1>1, <1>2

(* A list that contains nothing is empty.                                   *)
LEMMA EmptyList ==
  ASSUME NEW T, NEW q \in Seq(T), \A y : ~Contains(q, y)
  PROVE  q = <<>>
<1>1. Len(q) = 0
  <2>1. Len(q) \in Nat
    OBVIOUS
  <2>2. 1 \notin 1..Len(q)
    BY DEF Contains
  <2> QED
    BY <2>1, <2>2
<1> QED
  BY <1>1

(* What both descriptions of the store have in common.                      *)
QueueInv == CalmInv /\ IndexInv /\ ListQueued

(* What the steps below need of the invariant, in one place.                *)
LEMMA QueueFacts ==
  ASSUME QueueInv
  PROVE  /\ Types /\ Safe /\ Quiet /\ AllNamed /\ ListQueued
         /\ task \in [Ids -> Payload] /\ fifo \in Seq(Ids) /\ IsInjective(fifo)
         /\ index \subseteq Ids
         /\ \A y : Contains(fifo, y) => y \in Ids /\ task[y].st = "QUEUED"
         /\ lease.bound # NoId => lease.bound \in Ids /\ Acceptance(lease.bound)
<1>1. /\ Types /\ Safe /\ Quiet /\ AllNamed /\ ListQueued
      /\ task \in [Ids -> Payload] /\ fifo \in Seq(Ids) /\ IsInjective(fifo)
      /\ index \subseteq Ids
      /\ lease.bound \in Ids \cup {NoId}
  BY DEF QueueInv, CalmInv, IndexInv, ListQueued, Types, StoreTypeOK
<1>2. \A y : Contains(fifo, y) => y \in Ids
  BY <1>1 DEF Contains
<1> QED
  BY <1>1, <1>2 DEF ListQueued, AllNamed

(* Whether a job is claimable or started follows from its payload.          *)
LEMMA SameJob ==
  ASSUME NEW u, task'[u] = task[u]
  PROVE  /\ Claimable(u)' <=> Claimable(u)
         /\ Ordinary(u)' <=> Ordinary(u)
BY DEF Claimable, Ordinary, Exists

(* Tasks that are not started before or after do not matter.                *)
LEMMA SameStarted ==
  ASSUME NEW B \in SUBSET Ids, \A u \in Ids \ B : task'[u] = task[u],
         \A u \in B : u \notin Started /\ u \notin Started'
  PROVE  Started' = Started
<1>1. \A u \in Ids \ B : u \in Started' <=> u \in Started
  BY SameJob DEF Started
<1>2. Started \subseteq Ids /\ Started' \subseteq Ids
  BY DEF Started
<1> QED
  BY <1>1, <1>2

(* The same for a single task.                                              *)
LEMMA SameStartedBut ==
  ASSUME NEW b \in Ids, \A u \in Ids : u # b => task'[u] = task[u],
         b \notin Started, b \notin Started'
  PROVE  Started' = Started
<1>1. \A u \in Ids : u # b => (u \in Started' <=> u \in Started)
  BY SameJob DEF Started
<1>2. Started \subseteq Ids /\ Started' \subseteq Ids
  BY DEF Started
<1> QED
  BY <1>1, <1>2

(* Dropping from the list what cannot be claimed changes nothing.           *)
LEMMA SameWaiting ==
  ASSUME fifo \in Seq(Ids), NEW S, fifo' = Keep(fifo, S),
         \A y \in Ids : Contains(fifo, y) =>
           (y \in S /\ Claimable(y)' <=> Claimable(y))
  PROVE  Waiting' = Waiting
<1>1. Waiting' = Keep(Keep(fifo, S), ClaimableIds')
  BY DEF Waiting
<1>2. Keep(Keep(fifo, S), ClaimableIds') = Keep(fifo, S \cap ClaimableIds')
  BY KeepKeep
<1>3. \A y : Contains(fifo, y) =>
        (y \in S \cap ClaimableIds' <=> y \in ClaimableIds)
  BY DEF ClaimableIds, Contains
<1>4. Keep(fifo, S \cap ClaimableIds') = Keep(fifo, ClaimableIds)
  BY <1>3, KeepSame
<1> QED
  BY <1>1, <1>2, <1>4 DEF Waiting

(* The same list shows the same queue while its tasks stay claimable.       *)
LEMMA SameList ==
  ASSUME fifo \in Seq(Ids), fifo' = fifo,
         \A y \in Ids : Contains(fifo, y) => (Claimable(y)' <=> Claimable(y))
  PROVE  Waiting' = Waiting
<1>1. \A y : Contains(fifo, y) => y \in Ids
  BY DEF Contains
<1>2. Keep(fifo, Ids) = fifo
  BY <1>1, KeepAll
<1> QED
  BY <1>1, <1>2, SameWaiting

(* An acceptance task that stays one is invisible to the abstract queue.    *)
LEMMA UnseenJob ==
  ASSUME fifo \in Seq(Ids), NEW b \in Ids,
         task[b].owner # NoOwner, task'[b].owner # NoOwner,
         \A u \in Ids : u # b => task'[u] = task[u]
  PROVE  /\ \A y \in Ids : Claimable(y)' <=> Claimable(y)
         /\ Started' = Started
         /\ fifo' = fifo => Waiting' = Waiting
<1>1. ~Ordinary(b) /\ ~Ordinary(b)' /\ ~Claimable(b) /\ ~Claimable(b)'
  BY DEF Ordinary, Claimable
<1>2. \A y \in Ids : Claimable(y)' <=> Claimable(y)
  BY <1>1, SameJob
<1>3. Started' = Started
  <2>1. b \notin Started /\ b \notin Started'
    BY <1>1 DEF Started
  <2> QED
    BY <2>1, SameStartedBut
<1>4. fifo' = fifo => Waiting' = Waiting
  BY <1>2, SameList
<1> QED
  BY <1>2, <1>3, <1>4

(* One task is put at the back: an ordinary one is admitted, an acceptance  *)
(* task is invisible to the abstract queue.                                 *)
LEMMA PushedWaiting ==
  ASSUME QueueInv, NEW t \in Ids, task[t].st \notin {"QUEUED", "RUNNING"},
         fifo' = Append(fifo, t), task'[t].st = "QUEUED",
         \A u \in Ids : u # t => task'[u] = task[u]
  PROVE  /\ Waiting' = IF Claimable(t)' THEN Append(Waiting, t) ELSE Waiting
         /\ Started' = Started
         /\ ~Contains(Waiting, t) /\ t \notin Started
<1>0. fifo \in Seq(Ids) /\ ~Contains(fifo, t)
  BY QueueFacts
<1>1. Waiting' = Keep(Append(fifo, t), ClaimableIds')
  BY DEF Waiting
<1>2. Keep(Append(fifo, t), ClaimableIds') =
        IF t \in ClaimableIds' THEN Append(Keep(fifo, ClaimableIds'), t)
                               ELSE Keep(fifo, ClaimableIds')
  BY <1>0, KeepAppend
<1>3. \A y : Contains(fifo, y) => (y \in ClaimableIds' <=> y \in ClaimableIds)
  BY <1>0, SameJob DEF ClaimableIds, Contains
<1>4. Keep(fifo, ClaimableIds') = Keep(fifo, ClaimableIds)
  BY <1>0, <1>3, KeepSame
<1>5. t \in ClaimableIds' <=> Claimable(t)'
  BY DEF ClaimableIds
<1>6. Started' = Started
  <2>1. t \notin Started /\ t \notin Started'
    BY DEF Started
  <2> QED
    BY <2>1, SameStartedBut
<1>7. ~Contains(Waiting, t)
  BY <1>0, KeepContains DEF Waiting
<1> QED
  BY <1>1, <1>2, <1>4, <1>5, <1>6, <1>7 DEF Waiting, Started

(* Pushing an ordinary task admits it at the end of the queue.              *)
LEMMA PushAdmits ==
  ASSUME QueueInv, NEW t \in Ids, task[t].st \notin {"QUEUED", "RUNNING"},
         fifo' \in {Append(fifo, t), ToBack(t)},
         task'[t].st = "QUEUED", task'[t].owner = NoOwner,
         \A u \in Ids : u # t => task'[u] = task[u], lease' = lease
  PROVE  Queue!QNext
<1>1. fifo' = Append(fifo, t)
  BY QueueFacts, ToBackNew
<1>2. Claimable(t)'
  BY DEF Claimable, Ordinary, Exists
<1> QED
  BY <1>1, <1>2, PushedWaiting, AsAdmit

(* Pushing an acceptance task changes nothing for ordinary tasks.           *)
LEMMA PushUnseen ==
  ASSUME QueueInv, NEW t \in Ids, task[t].st \notin {"QUEUED", "RUNNING"},
         fifo' \in {Append(fifo, t), ToBack(t)},
         task'[t].st = "QUEUED", task'[t].owner # NoOwner,
         \A u \in Ids : u # t => task'[u] = task[u], LeaseLive' <=> LeaseLive
  PROVE  UNCHANGED Queue!qvars
<1>1. fifo' = Append(fifo, t)
  BY QueueFacts, ToBackNew
<1>2. ~Claimable(t)'
  BY DEF Claimable, Ordinary
<1> QED
  BY <1>1, <1>2, PushedWaiting, AsStutter

(* Removing acceptance tasks is invisible to the abstract queue.            *)
LEMMA RemoveUnseen ==
  ASSUME QueueInv, NEW R \in SUBSET Ids, RemoveTasks(R),
         \A t \in R : Acceptance(t)
  PROVE  Waiting' = Waiting /\ Started' = Started
<1>0. fifo \in Seq(Ids) /\ Types
  BY QueueFacts
<1>1. PICK c \in Ids \cup {NoId} : RemoveShape(R, c)
  BY <1>0, RemoveFacts
<1>2. /\ fifo' = Keep(fifo, Ids \ R)
      /\ \A t \in Ids \ R : task'[t] = task[t]
      /\ \A t \in R : task'[t].st = "ABSENT"
  BY <1>1 DEF RemoveShape, Absent
<1>3. \A t \in R : ~Ordinary(t) /\ ~Claimable(t) /\ ~Ordinary(t)'
  BY <1>2 DEF Acceptance, Ordinary, Exists, Claimable
<1>4. Waiting' = Waiting
  BY <1>0, <1>2, <1>3, SameJob, SameWaiting
<1>5. Started' = Started
  <2>1. \A t \in R : t \notin Started /\ t \notin Started'
    BY <1>3 DEF Started
  <2> QED
    BY <1>2, <2>1, SameStarted
<1> QED
  BY <1>4, <1>5

(* A claim without a lease starts the job at the front.                     *)
LEMMA ClaimStarts == ASSUME QueueInv, ClaimNext PROVE Queue!QNext
<1>0. /\ fifo \in Seq(Ids) /\ IsInjective(fifo) /\ task \in [Ids -> Payload]
  BY QueueFacts
<1>1. PICK t \in Ids, a \in Seq(Ids), b \in Seq(Ids) :
         /\ Claimable(t) /\ Claim(t)
         /\ fifo = Append(a, t) \o b
         /\ fifo' = b
         /\ \A y : Contains(a, y) => ~Claimable(y)
  BY <1>0, ClaimNextFacts
<1>2. ~Contains(b, t)
  BY <1>0, <1>1, TailDistinct
<1>3. Append(a, t) \in Seq(Ids)
  BY <1>1
<1>4. Waiting = Keep(Append(a, t), ClaimableIds) \o Keep(b, ClaimableIds)
  <2>0. PICK c \in Seq(Ids) : c = Append(a, t)
    BY <1>3
  <2>1. Waiting = Keep(c \o b, ClaimableIds)
    BY <1>1, <2>0 DEF Waiting
  <2>2. Keep(c \o b, ClaimableIds) = Keep(c, ClaimableIds) \o Keep(b, ClaimableIds)
    BY KeepConcat
  <2> QED
    BY <2>0, <2>1, <2>2
<1>5. Keep(Append(a, t), ClaimableIds) = Append(Keep(a, ClaimableIds), t)
  BY <1>1, KeepAppend DEF ClaimableIds
<1>6. Keep(a, ClaimableIds) = <<>>
  BY <1>1, KeepNone DEF ClaimableIds
<1>7. Waiting = <<t>> \o Keep(b, ClaimableIds)
  BY <1>4, <1>5, <1>6
<1>8. Keep(b, ClaimableIds) \in Seq(Ids)
  BY <1>1, KeepType
<1>9. Waiting # <<>> /\ Head(Waiting) = t /\ Tail(Waiting) = Keep(b, ClaimableIds)
  <2> DEFINE q == Keep(b, ClaimableIds)
  <2>1. \A s \in Seq(Ids) : /\ <<t>> \o s # <<>> /\ Head(<<t>> \o s) = t
                            /\ Tail(<<t>> \o s) = s
    OBVIOUS
  <2> QED
    BY <1>7, <1>8, <2>1
<1>10. /\ task'[t].st = "RUNNING" /\ task'[t].owner = task[t].owner
       /\ \A u \in Ids : u # t => task'[u] = task[u]
       /\ lease' = lease
  BY <1>0, <1>1 DEF Claim, Payload
<1>11. \A y : Contains(b, y) => (y \in ClaimableIds' <=> y \in ClaimableIds)
  BY <1>1, <1>2, <1>10, SameJob DEF ClaimableIds
<1>12. Waiting' = Keep(b, ClaimableIds)
  BY <1>1, <1>11, KeepSame DEF Waiting
<1>13. Ordinary(t)' /\ task'[t].st = "RUNNING"
  BY <1>1, <1>10 DEF Claimable, Ordinary, Exists
<1>14. Started' = Started \cup {t}
  BY <1>10, <1>13, SameJob DEF Started
<1> QED
  BY <1>9, <1>10, <1>12, <1>14, AsStart DEF ClaimNext

(* A stored result finishes the job, if the job was not an acceptance task. *)
LEMMA PersistFinishes ==
  ASSUME QueueInv, Calm, RunnerPersist
  PROVE  Queue!QNext \/ UNCHANGED Queue!qvars
<1>0. /\ fifo \in Seq(Ids) /\ task \in [Ids -> Payload]
      /\ Types /\ Safe /\ Quiet /\ ListQueued
      /\ \A y : Contains(fifo, y) => task[y].st = "QUEUED"
  BY QueueFacts
<1>1. /\ runner.pc = "write" /\ runner.id \in Ids
      /\ task'[runner.id] = runner.rec
      /\ \A u \in Ids : u # runner.id => task'[u] = task[u]
      /\ runner.rec.st # "RUNNING"
      /\ runner.rec.owner = NoOwner <=> Ordinary(runner.id)
      /\ fifo' = fifo /\ lease' = lease
      /\ task[runner.id].st \in {"RUNNING", "ABSENT"}
  BY <1>0
  DEF RunnerPersist, Types, Safe, RunnerSound, Terminal, AllResults, ListQueued
<1>2. Waiting' = Waiting
  BY <1>0, <1>1, SameJob, SameList
<1>3. CASE Ordinary(runner.id)
  <2>1. runner.id \in Started
    BY <1>0, <1>1, <1>3 DEF Quiet, Started
  <2>2. Started' = Started \ {runner.id}
    BY <1>1, SameJob DEF Started
  <2> QED
    BY <1>1, <1>2, <2>1, <2>2, AsFinish
<1>4. CASE ~Ordinary(runner.id)
  <2>1. Started' = Started
    <3>1. PICK t \in Ids : t = runner.id
      BY <1>1
    <3>2. ~Ordinary(t) /\ task'[t].st # "RUNNING"
      BY <1>1, <1>4, <3>1
    <3>3. t \notin Started /\ t \notin Started'
      BY <3>2 DEF Started
    <3> QED
      BY <1>1, <3>1, <3>3, SameStartedBut
  <2> QED
    BY <1>1, <1>2, <2>1, AsStutter DEF LeaseLive
<1> QED
  BY <1>3, <1>4

(* A startup folds nothing, and puts what was interrupted in front.         *)
LEMMA BootRecovers ==
  ASSUME QueueInv, Boot
  PROVE  Queue!QNext \/ UNCHANGED Queue!qvars
<1> USE ConstantAssumption
<1>0. /\ fifo \in Seq(Ids) /\ IsInjective(fifo) /\ task \in [Ids -> Payload]
      /\ Types /\ Safe /\ AllNamed /\ index \subseteq Ids
      /\ \A y : Contains(fifo, y) => y \in Ids /\ task[y].st = "QUEUED"
      /\ \A t \in Interrupted : t \in Ids /\ task[t].st = "RUNNING"
  BY QueueFacts DEF Interrupted
<1>1. PICK order \in SetToSeqs(Interrupted), gone \in SUBSET index,
           codes \in SUBSET Symbols :
        \E heir \in [gone -> index \ gone], keep \in [codes -> index \ gone] :
          BootShape(order, gone, codes, heir, keep)
  BY <1>0, BootFacts
<1>2. PICK keep \in [codes -> index \ gone] :
        \E heir \in [gone -> index \ gone] :
          BootShape(order, gone, codes, heir, keep)
  BY <1>1
<1>3. /\ \A t \in gone : Ordinary(t) /\ t # lease.bound
      /\ \A s \in codes : Ordinary(keep[s]) /\ task[keep[s]].sym = s
      /\ \A t \in index : Ordinary(t) /\ t # lease.bound =>
           /\ task[t].sym \in codes
           /\ t \in gone <=> t # keep[task[t].sym]
      /\ task' = [t \in Ids |->
                    IF t \in gone THEN Absent
                    ELSE IF t \in Interrupted
                         THEN [task[t] EXCEPT !.st = "QUEUED"]
                    ELSE task[t]]
      /\ fifo' = Keep(order \o fifo, Ids \ gone)
      /\ lease' = lease
  BY <1>2 DEF BootShape
<1>4. gone = {}
  <2> SUFFICES ASSUME NEW t \in gone PROVE FALSE
    OBVIOUS
  <2>1. /\ task[t].sym \in codes /\ t # keep[task[t].sym]
        /\ Ordinary(keep[task[t].sym]) /\ keep[task[t].sym] \in Ids
        /\ task[keep[task[t].sym]].sym = task[t].sym
    BY <1>0, <1>3
  <2>2. symbols[task[t].sym] = t /\ symbols[task[t].sym] = keep[task[t].sym]
    BY <1>0, <1>3, <2>1 DEF AllNamed
  <2> QED
    BY <2>1, <2>2
<1>5. order \in Seq(Ids) /\ IsInjective(order) /\ order \o fifo \in Seq(Ids)
  <2>1. order \in Seq(Ids) /\ IsInjective(order)
    BY <1>0, BootDistinct
  <2> QED
    BY <1>0, <2>1
<1>6. fifo' = order \o fifo
  <2>1. \A y : Contains(order \o fifo, y) => y \in Ids \ gone
    BY <1>4, <1>5 DEF Contains
  <2> QED
    BY <1>3, <1>5, <2>1, KeepAll
<1>7. \A t \in Ids : IF t \in Interrupted
                     THEN /\ task'[t].st = "QUEUED"
                          /\ task'[t].owner = task[t].owner
                     ELSE task'[t] = task[t]
  BY <1>0, <1>3, <1>4 DEF Payload
<1>8. Started' = {}
  <2>1. \A t \in Ids : ~(Ordinary(t)' /\ task'[t].st = "RUNNING")
    BY <1>0, <1>7, SameJob DEF Interrupted, Safe, Indexed
  <2> QED
    BY <2>1 DEF Started
<1>9. Started \subseteq Interrupted
  BY <1>0 DEF Started, Interrupted, Safe, Indexed
<1>10. \A t \in Interrupted : t \in ClaimableIds' <=> t \in Started
  BY <1>0, <1>7 DEF ClaimableIds, Claimable, Ordinary, Exists, Started
<1> DEFINE first == Keep(order, ClaimableIds')
<1>11. Waiting' = first \o Waiting
  <2>1. Waiting' = Keep(order \o fifo, ClaimableIds')
    BY <1>6 DEF Waiting
  <2>2. Keep(order \o fifo, ClaimableIds') = first \o Keep(fifo, ClaimableIds')
    BY <1>0, <1>5, KeepConcat
  <2>3. \A y : Contains(fifo, y) => (y \in ClaimableIds' <=> y \in ClaimableIds)
    BY <1>0, <1>7, SameJob DEF ClaimableIds
  <2>4. Keep(fifo, ClaimableIds') = Keep(fifo, ClaimableIds)
    BY <1>0, <2>3, KeepSame
  <2> QED
    BY <2>1, <2>2, <2>4 DEF Waiting
<1>12. Interrupted \subseteq Ids /\ IsFiniteSet(Interrupted) /\ IsFiniteSet(Started)
  <2>1. Interrupted \subseteq Ids
    BY <1>0
  <2>2. IsFiniteSet(Interrupted)
    BY <2>1, FS_Subset
  <2> QED
    BY <1>9, <2>1, <2>2, FS_Subset
<1>13. /\ first \in Seq(Ids) /\ IsInjective(first)
       /\ \A y : Contains(first, y) <=> y \in Started
  <2>1. \A y : Contains(order, y) <=> y \in Interrupted
    BY <1>12, ListingHas
  <2>2. \A y : Contains(first, y) <=> Contains(order, y) /\ y \in ClaimableIds'
    BY <1>5, KeepContains
  <2>3. first \in Seq(Ids) /\ IsInjective(first)
    BY <1>5, KeepType, KeepDistinct
  <2> HIDE DEF first
  <2> QED
    BY <1>9, <1>10, <2>1, <2>2, <2>3
<1> HIDE DEF first
<1>14. CASE Started = {}
  <2>1. first = <<>>
    BY <1>13, <1>14, EmptyList
  <2>2. Waiting \in Seq(Ids)
    BY <1>0, KeepType DEF Waiting
  <2>3. Waiting' = Waiting
    BY <1>11, <2>1, <2>2
  <2> QED
    BY <1>3, <1>8, <1>14, <2>3, AsStutter DEF LeaseLive
<1>15. CASE Started # {}
  <2>1. first \in Seq(Started)
    BY <1>13, ListOver
  <2>2. first \in SetToSeqs(Started)
    BY <1>12, <1>13, <2>1, ListingIs
  <2> QED
    BY <1>3, <1>8, <1>11, <1>15, <2>2, AsRecover
<1> QED
  BY <1>14, <1>15

(* Every step of the store is a step of the abstract queue, or invisible.   *)
LEMMA QueueStep ==
  ASSUME QueueInv, QueueInv', Calm, [Next]_vars
  PROVE  [Queue!QNext]_(Queue!qvars)
<1> USE ConstantAssumption
<1> SUFFICES Queue!QNext \/ UNCHANGED Queue!qvars
  OBVIOUS
<1>0. /\ task \in [Ids -> Payload] /\ task' \in [Ids -> Payload]
      /\ Types /\ Safe /\ Quiet /\ AllNamed /\ fifo \in Seq(Ids)
      /\ \A y : Contains(fifo, y) => y \in Ids /\ task[y].st = "QUEUED"
      /\ lease.bound # NoId => lease.bound \in Ids /\ Acceptance(lease.bound)
  <2>1. task' \in [Ids -> Payload]
    BY DEF QueueInv, CalmInv, Types, StoreTypeOK
  <2> QED
    BY <2>1, QueueFacts
<1>1. ASSUME NEW s \in Symbols, NEW t \in Ids, SubmitNew(s, t)
      PROVE  Queue!QNext
  BY <1>0, <1>1, PushAdmits DEF SubmitNew, Fresh, NewTask, Exists
<1>2. ASSUME NEW s \in Symbols, SubmitRefresh(s)
      PROVE  Queue!QNext
  <2>1. symbols[s] \in Ids /\ task[symbols[s]].st \notin {"QUEUED", "RUNNING"}
    BY <1>0, <1>2
    DEF SubmitRefresh, Usable, Done, Types, StoreTypeOK, Terminal, AllResults
  <2>2. /\ task'[symbols[s]].st = "QUEUED" /\ task'[symbols[s]].owner = NoOwner
        /\ fifo' = ToBack(symbols[s]) /\ lease' = lease
        /\ \A u \in Ids : u # symbols[s] => task'[u] = task[u]
    BY <1>0, <1>2, <2>1 DEF SubmitRefresh, NewTask
  <2> QED
    BY <2>1, <2>2, PushAdmits
<1>3. ASSUME NEW t \in Ids, RefreshTask(t) \/ RetryFailed(t) \/ RequeueWaiting(t)
      PROVE  Queue!QNext
  <2>1. task[t].st \notin {"QUEUED", "RUNNING"}
    BY <1>3 DEF RefreshTask, RetryFailed, RequeueWaiting, Resumed, Done,
                Terminal, AllResults
  <2>2. task'[t].st = "QUEUED" /\ task'[t].owner = NoOwner
    BY <1>0, <1>3
    DEF RefreshTask, RetryFailed, RequeueWaiting, Resumed, NewTask, Payload,
        Public, Ordinary
  <2>3. /\ fifo' = Append(fifo, t) /\ lease' = lease
        /\ \A u \in Ids : u # t => task'[u] = task[u]
    BY <1>0, <1>3 DEF RefreshTask, RetryFailed, RequeueWaiting, Resumed
  <2> QED
    BY <2>1, <2>2, <2>3, PushAdmits
<1>4. ASSUME NEW o \in Owners, NEW t \in Ids, BindNew(o, t)
      PROVE  UNCHANGED Queue!qvars
  <2>1. task[t].st = "ABSENT" /\ task'[t].st = "QUEUED" /\ task'[t].owner # NoOwner
    BY <1>0, <1>4 DEF BindNew, Fresh, NewTask, Exists
  <2>2. /\ fifo' = Append(fifo, t)
        /\ \A u \in Ids : u # t => task'[u] = task[u]
        /\ LeaseLive' <=> LeaseLive
    BY <1>0, <1>4 DEF BindNew, LeaseLive, Types, StoreTypeOK
  <2> QED
    BY <2>1, <2>2, PushUnseen
<1>5. ASSUME NEW o \in Owners, BindAgain(o)
      PROVE  UNCHANGED Queue!qvars
  <2>1. PICK b \in Ids : b = lease.bound
    BY <1>0, <1>5 DEF BindAgain
  <2>2. /\ task[b].owner # NoOwner /\ task'[b].owner # NoOwner
        /\ \A u \in Ids : u # b => task'[u] = task[u]
        /\ LeaseLive' <=> LeaseLive
    BY <1>0, <1>5, <2>1
    DEF BindAgain, NewTask, Acceptance, Payload, LeaseLive, Types, StoreTypeOK
  <2>3. CASE Done(b) /\ PendingScan < Cap
    <3>1. task'[b].st = "QUEUED" /\ fifo' = ToBack(b)
      BY <1>0, <1>5, <2>1, <2>3 DEF BindAgain, NewTask
    <3>2. task[b].st \notin {"QUEUED", "RUNNING"}
      BY <2>3 DEF Done, Terminal, AllResults
    <3> QED
      BY <2>2, <3>1, <3>2, PushUnseen
  <2>4. CASE ~(Done(b) /\ PendingScan < Cap)
    <3>1. fifo' = fifo
      BY <1>5, <2>1, <2>4 DEF BindAgain
    <3>2. Waiting' = Waiting /\ Started' = Started
      BY <1>0, <2>2, <3>1, UnseenJob
    <3> QED
      BY <2>2, <3>2, AsStutter
  <2> QED
    BY <2>3, <2>4
<1>6. ASSUME UNCHANGED <<task, fifo>>
      PROVE  Waiting' = Waiting /\ Started' = Started
  BY <1>6 DEF Waiting, Started, ClaimableIds, Claimable, Ordinary, Exists
<1>7. ASSUME NEW o \in Owners, NEW digest \in BOOLEAN, AcquireLease(o, digest)
      PROVE  Queue!QNext
  <2>1. Started = {}
    BY <1>0, <1>7 DEF AcquireLease, Interrupted, Started, Safe, Indexed
  <2>2. ~LeaseLive /\ LeaseLive' /\ UNCHANGED <<task, fifo>>
    BY <1>7 DEF AcquireLease, LeaseLive, store
  <2> QED
    BY <1>6, <2>1, <2>2, AsFreeze
<1>8. ASSUME NEW o \in Owners, RenewLease(o)
      PROVE  UNCHANGED Queue!qvars
  <2>1. (LeaseLive' <=> LeaseLive) /\ UNCHANGED <<task, fifo>>
    BY <1>8 DEF RenewLease, LeaseLive, Types, StoreTypeOK, store
  <2> QED
    BY <1>6, <2>1, AsStutter
<1>9. CASE ExpireLease
  <2>1. LeaseLive /\ ~LeaseLive' /\ UNCHANGED <<task, fifo>>
    BY <1>9 DEF ExpireLease, LeaseLive, NoLease, store
  <2> QED
    BY <1>6, <2>1, AsThaw
<1>10. ASSUME NEW o \in Owners, ReleaseLease(o)
       PROVE  Queue!QNext
  <2>1. LeaseLive /\ ~LeaseLive'
    BY <1>10 DEF ReleaseLease, LeaseLive, NoLease
  <2>2. CASE UNCHANGED store
    BY <1>6, <2>1, <2>2, AsThaw DEF store
  <2>3. CASE lease.bound # NoId /\ RemoveTasks({lease.bound})
    BY <1>0, <2>1, <2>3, RemoveUnseen, AsThaw
  <2> QED
    BY <1>10, <2>2, <2>3 DEF ReleaseLease
<1>11. CASE CleanupAcceptance
  <2> DEFINE R == {t \in index : Acceptance(t)}
  <2>1. /\ R \in SUBSET Ids /\ RemoveTasks(R) /\ \A t \in R : Acceptance(t)
        /\ lease' = lease
    BY <1>0, <1>11 DEF CleanupAcceptance, Types, StoreTypeOK
  <2> HIDE DEF R
  <2> QED
    BY <2>1, RemoveUnseen, AsStutter DEF LeaseLive
<1>12. CASE ClaimBound
  <2>1. PICK b \in Ids : b = lease.bound
    BY <1>0, <1>12 DEF ClaimBound
  <2>2. /\ task[b].owner # NoOwner /\ task'[b].owner # NoOwner
        /\ \A u \in Ids : u # b => task'[u] = task[u]
        /\ fifo' = Unlisted(b) /\ lease' = lease
    BY <1>0, <1>12, <2>1 DEF ClaimBound, Claim, Acceptance, Payload
  <2>3. \A y \in Ids : Claimable(y)' <=> Claimable(y)
    BY <1>0, <2>2, UnseenJob
  <2>4. ~Claimable(b)
    BY <2>2 DEF Claimable, Ordinary
  <2>5. Waiting' = Waiting
    BY <1>0, <2>2, <2>3, <2>4, SameWaiting DEF Unlisted
  <2>6. Started' = Started
    BY <1>0, <2>2, UnseenJob
  <2> QED
    BY <2>2, <2>5, <2>6, AsStutter DEF LeaseLive
<1>13. CASE ClaimNext
  BY <1>13, ClaimStarts
<1>14. CASE ClaimNothing
  <2>1. \A y : Contains(fifo, y) => y \notin ClaimableIds
    BY <1>14 DEF ClaimNothing, Contains, ClaimableIds
  <2>2. Waiting = <<>>
    BY <1>0, <2>1, KeepNone DEF Waiting
  <2>3. fifo' = <<>> /\ UNCHANGED <<task, lease>>
    BY <1>14 DEF ClaimNothing
  <2>4. Waiting' = Waiting
    BY <2>2, <2>3, KeepEmpty DEF Waiting
  <2>5. Started' = Started
    BY <2>3 DEF Started, Ordinary, Exists
  <2> QED
    BY <2>3, <2>4, <2>5, AsStutter DEF LeaseLive
<1>15. CASE RunnerPersist
  BY <1>15, PersistFinishes
<1>16. CASE Boot
  BY <1>16, BootRecovers
<1>17. CASE UNCHANGED <<task, fifo, lease>>
  BY <1>6, <1>17, AsStutter DEF LeaseLive
<1>18. ~CleanupSave
  BY <1>0 DEF CleanupSave, Quiet
<1>19. \/ \E s \in Symbols, t \in Ids : SubmitNew(s, t)
       \/ \E s \in Symbols : SubmitRefresh(s)
       \/ \E t \in Ids : RefreshTask(t) \/ RetryFailed(t) \/ RequeueWaiting(t)
       \/ \E o \in Owners, t \in Ids : BindNew(o, t)
       \/ \E o \in Owners, digest \in BOOLEAN : AcquireLease(o, digest)
       \/ \E o \in Owners : BindAgain(o) \/ ReleaseLease(o) \/ RenewLease(o)
       \/ ExpireLease \/ ClaimBound \/ ClaimNext \/ ClaimNothing
       \/ RunnerPersist \/ CleanupAcceptance \/ Boot
       \/ UNCHANGED <<task, fifo, lease>>
  BY <1>18
  DEF Next, PublicNext, LeaseNext, RunnerNext, CleanerNext, vars, store,
      RunnerRead, RunnerRefused, RunnerFault, RunnerFallback, CleanupRead,
      Crash
<1> QED
  BY <1>1, <1>2, <1>3, <1>4, <1>5, <1>7, <1>8, <1>9, <1>10, <1>11, <1>12,
     <1>13, <1>14, <1>15, <1>16, <1>17, <1>19

(* The invariant of the refinement holds at first and in every step.        *)
LEMMA QueueInvariance ==
  ASSUME Calm, ~OldRelease
  PROVE  /\ Init => QueueInv
         /\ QueueInv /\ [Next]_vars => QueueInv'
<1>0. NoStaleRetry
  BY DEF Calm, NoStaleRetry
<1>1. ASSUME Init PROVE ListQueued
  <2>1. fifo = <<>> /\ runner.pc = "idle"
    BY <1>1, IdleType DEF Init, EmptyInit
  <2>2. \A y : ~Contains(<<>>, y)
    BY DEF Contains
  <2>3. IsInjective(<<>>) /\ <<>> \in Seq(Ids)
    BY DEF IsInjective
  <2> QED
    BY <2>1, <2>2, <2>3 DEF ListQueued
<1>2. Init => QueueInv
  BY <1>0, <1>1, CalmInvariance, IndexInvariance DEF QueueInv
<1>3. ASSUME QueueInv, [Next]_vars PROVE QueueInv'
  <2>1. CalmInv' /\ IndexInv'
    BY <1>0, <1>3, CalmInvariance, IndexInvariance DEF QueueInv
  <2>2. ListQueued'
    BY <1>3, <2>1, ListQueuedStep DEF QueueInv
  <2> QED
    BY <2>1, <2>2 DEF QueueInv
<1> QED
  BY <1>2, <1>3

(* The store implements the abstract first-in first-out queue: requests are *)
(* admitted once, started in the order of admission, put back in front by a *)
(* restart and never started during a deployment, whatever acceptance       *)
(* tasks, lease expiries and restarts do to the list and the indexes.       *)
THEOREM StoreImplementsQueue ==
  ASSUME Calm, ~OldRelease
  PROVE  Spec => ImplementsQueue
<1>1. Init => Queue!QInit
  <2> SUFFICES ASSUME Init PROVE Queue!QInit
    OBVIOUS
  <2>1. fifo = <<>> /\ \A t \in Ids : ~Ordinary(t)
    BY DEF Init, EmptyInit, Absent, Ordinary, Exists
  <2>2. Waiting = <<>> /\ Started = {}
    BY <2>1, KeepEmpty DEF Waiting, Started
  <2>3. LeaseLive \in BOOLEAN
    BY DEF LeaseLive
  <2> QED
    BY <2>2, <2>3 DEF Queue!QInit, Waiting, Started, ClaimableIds
<1>2. QueueInv /\ QueueInv' /\ [Next]_vars => [Queue!QNext]_(Queue!qvars)
  BY QueueStep, Calm
<1> QED
  BY <1>1, <1>2, QueueInvariance, PTL DEF Spec, ImplementsQueue, Queue!QSpec
===============================================================================
