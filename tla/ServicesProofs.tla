---------------------------- MODULE ServicesProofs ----------------------------
(***************************************************************************)
(* Proofs about the parts of the service that share no state, each about   *)
(* the specification of its own part and for all values of its constants:  *)
(* the runner's loop, the connection pool, the store of a development      *)
(* service, the pushes, the market accounts, the administrator's sessions, *)
(* the event stream, the fund flows, the watchlists and the catalog.       *)
(***************************************************************************)
EXTENDS RunnerLoop, WarmPool, MemoryStore, MarketUsers, FundFlow,
        ResearchPush, TaskEvents, AdminSessions, Watchlists, SymbolCatalog,
        SelectionProofs, SequenceTheorems

(* Max and Min of small sets.                                                *)

(* Max of a set of numbers that is not empty and has a bound.               *)
LEMMA MaxOfBounded ==
  ASSUME NEW N \in Nat, NEW S, S \subseteq 0 .. N, S # {}
  PROVE  Max(S) \in S /\ \A y \in S : y <= Max(S)
<1> DEFINE U == {n \in Nat : \A y \in S : y <= n}
<1>1. U \subseteq Nat /\ N \in U
  OBVIOUS
<1>2. PICK m \in U : \A n \in U : ~(n < m)
  BY <1>1, NatLeast
<1>3. m \in S
  <2>1. SUFFICES ASSUME m \notin S PROVE FALSE
    OBVIOUS
  <2>2. \A y \in S : y < m /\ y \in Nat
    BY <1>2, <2>1
  <2>3. m - 1 \in Nat /\ m - 1 < m /\ \A y \in S : y <= m - 1
    <3>1. PICK y \in S : y < m /\ y \in Nat
      BY <2>2
    <3> QED
      BY <1>2, <2>2, <3>1
  <2> QED
    BY <1>2, <2>3
<1>4. \A y \in S : y <= m
  BY <1>2
<1>5. m \in S /\ \A y \in S : m >= y
  BY <1>3, <1>4
<1>6. Max(S) \in S /\ \A y \in S : Max(S) >= y
  BY <1>5 DEF Max
<1>7. \A y \in S : y \in Nat
  OBVIOUS
<1> QED
  BY <1>6, <1>7

(* Min of two numbers.                                                      *)
LEMMA MinOfPair ==
  ASSUME NEW a \in Nat, NEW b \in Nat
  PROVE  Min({a, b}) = IF a <= b THEN a ELSE b
<1>1. CASE a <= b
  <2>1. \A x \in {a, b} : (\A y \in {a, b} : x <= y) <=> x = a
    BY <1>1
  <2> QED
    BY <1>1, <2>1 DEF Min
<1>2. CASE ~(a <= b)
  <2>1. \A x \in {a, b} : (\A y \in {a, b} : x <= y) <=> x = b
    BY <1>2
  <2> QED
    BY <1>2, <2>1 DEF Min
<1> QED
  BY <1>1, <1>2

(* The counter of pushes stops at two.                                      *)
LEMMA MinOfTwo ==
  ASSUME NEW n \in 0 .. 2 PROVE Min({2, n + 1}) = IF n = 0 THEN 1 ELSE 2
<1>1. CASE n = 0
  <2>1. {2, n + 1} = {1, 2}
    BY <1>1
  <2>2. \A x \in {1, 2} : (\A y \in {1, 2} : x <= y) <=> x = 1
    OBVIOUS
  <2> QED
    BY <1>1, <2>1, <2>2 DEF Min
<1>2. CASE n # 0
  <2>1. {2, n + 1} = {2, n + 1} /\ 2 <= n + 1
    BY <1>2
  <2>2. \A x \in {2, n + 1} : (\A y \in {2, n + 1} : x <= y) <=> x = 2
    BY <2>1
  <2> QED
    BY <1>2, <2>2 DEF Min
<1> QED
  BY <1>1, <1>2

-----------------------------------------------------------------------------
(* RunnerLoop.                                                              *)

(* The loop, the event and the requests keep their types.                   *)
THEOREM LoopTyping == LoopSpec => []LoopTypeOK
<1> USE LoopAssumption DEF LoopTypeOK
<1>1. LoopInit => LoopTypeOK
  BY DEF LoopInit
<1>2. LoopTypeOK /\ [LoopNext]_loopVars => LoopTypeOK'
  <2> SUFFICES ASSUME LoopTypeOK, [LoopNext]_loopVars PROVE LoopTypeOK'
    OBVIOUS
  <2>1. ASSUME NEW q \in Requests, Store(q) PROVE LoopTypeOK'
    BY <2>1 DEF Store
  <2>2. ASSUME NEW q \in Requests, Resume(q) PROVE LoopTypeOK'
    BY <2>2 DEF Resume
  <2>3. ASSUME NEW q \in Requests, Notify(q) PROVE LoopTypeOK'
    BY <2>3 DEF Notify
  <2>4. ASSUME NEW q \in Requests, SetEvent(q) PROVE LoopTypeOK'
    BY <2>4 DEF SetEvent
  <2>5. CASE Pause \/ Freeze \/ Thaw
    BY <2>5 DEF Pause, Freeze, Thaw
  <2>6. CASE Clear \/ EndWork \/ BeginWait \/ Wake \/ PollInterval
    BY <2>6 DEF Clear, EndWork, BeginWait, Wake, PollInterval
  <2>7. CASE ClaimTask
    BY <2>7 DEF ClaimTask, LoopClaimable
  <2>8. CASE WorkFails \/ NothingClaimed
    <3>1. (missed \/ LoopClaimable) \in BOOLEAN
      BY DEF LoopClaimable
    <3> QED
      BY <2>8, <3>1 DEF WorkFails, NothingClaimed
  <2>9. CASE UNCHANGED loopVars
    BY <2>9 DEF loopVars
  <2> QED
    BY <2>1, <2>2, <2>3, <2>4, <2>5, <2>6, <2>7, <2>8, <2>9 DEF LoopNext
<1> QED
  BY <1>1, <1>2, PTL DEF LoopSpec

(* No wake-up is lost: whatever requests, pauses and deployments do between *)
(* the loop's claim and its wait, a claimable task is announced by the      *)
(* event or by a request that will still set it.  The invariant is          *)
(* inductive: what makes a task claimable leaves its request un-idle, the   *)
(* event is only cleared outside the two waiting positions, and the loop    *)
(* gets there only when nothing was claimable or with missed set.           *)
THEOREM WakeUpIsNotLost == LoopSpec => []NoLostWakeup
<1> DEFINE IInv == LoopTypeOK /\ NoLostWakeup
<1>1. LoopInit => NoLostWakeup
  BY DEF LoopInit, NoLostWakeup
<1>2. IInv /\ LoopTypeOK' /\ [LoopNext]_loopVars => NoLostWakeup'
  <2> SUFFICES ASSUME IInv, LoopTypeOK', [LoopNext]_loopVars PROVE NoLostWakeup'
    OBVIOUS
  <2> USE LoopAssumption DEF LoopTypeOK, NoLostWakeup, LoopClaimable
  <2>1. ASSUME NEW q \in Requests, Store(q) \/ Resume(q) PROVE NoLostWakeup'
    <3>1. request'[q] # "idle"
      BY <2>1 DEF Store, Resume
    <3> QED
      BY <3>1
  <2>2. ASSUME NEW q \in Requests, Notify(q) PROVE NoLostWakeup'
    <3>1. request'[q] # "idle"
      BY <2>2 DEF Notify
    <3> QED
      BY <3>1
  <2>3. ASSUME NEW q \in Requests, SetEvent(q) PROVE NoLostWakeup'
    BY <2>3 DEF SetEvent
  <2>4. CASE Pause \/ Freeze \/ Thaw
    BY <2>4 DEF Pause, Freeze, Thaw
  <2>5. CASE Clear \/ EndWork \/ Wake \/ PollInterval \/ ClaimTask
    BY <2>5 DEF Clear, EndWork, Wake, PollInterval, ClaimTask
  <2>6. CASE BeginWait
    BY <2>6 DEF BeginWait
  <2>7. CASE WorkFails \/ NothingClaimed
    BY <2>7 DEF WorkFails, NothingClaimed
  <2>8. CASE UNCHANGED loopVars
    BY <2>8 DEF loopVars
  <2> QED
    BY <2>1, <2>2, <2>3, <2>4, <2>5, <2>6, <2>7, <2>8 DEF LoopNext
<1> QED
  BY <1>1, <1>2, LoopTyping, PTL DEF LoopSpec

-----------------------------------------------------------------------------
(* WarmPool.  None of the properties is inductive by itself.  That a        *)
(* connection is in one hand needs to know which positions of the code hold *)
(* one (Position) and that hands never share (Apart); that the pool holds   *)
(* nothing old needs the request lock, which keeps a request that read an   *)
(* old session from outliving the invalidation (Timely); that the flag is   *)
(* true needs that threads of the present generation are alone (Alone).     *)

(* Which positions of the request and of a refill hold a connection; both   *)
(* have read a session before they come to open one.                        *)
Position ==
  /\ user.conn # NoConn <=> user.pc \in {"check", "read", "answer"}
  /\ user.pc # "free" => user.ses # 0
  /\ \A t \in Refills :
       /\ refill[t].pc # "store" => refill[t].conn = NoConn
       /\ refill[t].pc # "idle" => refill[t].ses # 0

(* Two hands never hold the same connection.                                *)
Apart ==
  /\ ready # NoConn => ready # user.conn
  /\ \A t \in Refills : refill[t].conn # NoConn =>
       /\ refill[t].conn # ready
       /\ refill[t].conn # user.conn
       /\ \A u \in Refills : refill[u].conn = refill[t].conn => u = t

(* A connection is open exactly while somebody holds it.                    *)
Held(k) == ready = k \/ user.conn = k \/ \E t \in Refills : refill[t].conn = k

Accounted == \A k \in Conns : Open(k) <=> Held(k)

(* Only a request that waits for its answer has used its connection.        *)
Unused ==
  \A k \in Conns :
    conn[k].uses = (IF user.pc = "answer" /\ user.conn = k THEN 1 ELSE 0)

(* The pool and the request belong to the present session, except between   *)
(* the change of the session and the invalidation that follows it.          *)
Timely ==
  /\ ready # NoConn => conn[ready].ses = fp
  /\ rotation # "put" => /\ fp \in {0, session}
                         /\ user.pc # "free" => user.ses = session

(* Threads know no later generation than the pool; the one that knows the   *)
(* present one is alone and flagged.                                        *)
Alone ==
  /\ \A t \in Refills : refill[t].gen <= generation
  /\ user.pc = "start" => user.gen = generation
  /\ user.pc = "start" =>
       \A t \in Refills : refill[t].pc # "idle" => refill[t].gen # generation
  /\ \A t, u \in Refills :
       refill[t].pc # "idle" /\ refill[t].gen = generation
       /\ refill[u].pc # "idle" /\ refill[u].gen = generation => t = u

PInv == /\ PoolTypeOK
        /\ Position /\ Apart /\ Accounted /\ Unused
        /\ Timely
        /\ Alone /\ RefillingIsTrue

-----------------------------------------------------------------------------
(* The types.                                                               *)
(* Records built from good parts are good.                                  *)
LEMMA GoodUser ==
  ASSUME NEW u \in UserState,
         NEW p \in {"free", "acquire", "auth", "check", "read", "answer",
                    "replenish", "start"},
         NEW s \in 0..MaxSessions, NEW g \in 0..MaxGeneration, NEW c \in Stock
  PROVE  /\ [u EXCEPT !.pc = p] \in UserState
         /\ [u EXCEPT !.pc = p, !.ses = s] \in UserState
         /\ [u EXCEPT !.pc = p, !.gen = g] \in UserState
         /\ [u EXCEPT !.pc = p, !.conn = c] \in UserState
         /\ [u EXCEPT !.pc = p, !.gen = g, !.conn = c] \in UserState
PROOF BY DEF UserState

(* So is one of a refill.                                                   *)
LEMMA GoodRefill ==
  ASSUME NEW r \in RefillState, NEW p \in {"idle", "auth", "store"},
         NEW s \in 0..MaxSessions, NEW g \in 0..MaxGeneration, NEW c \in Stock
  PROVE  /\ [r EXCEPT !.pc = p] \in RefillState
         /\ [r EXCEPT !.pc = p, !.conn = c] \in RefillState
         /\ [r EXCEPT !.pc = p, !.ses = s, !.gen = g] \in RefillState
PROOF BY DEF RefillState

(* The request and the refill threads start from records of their sets.     *)
LEMMA GoodStart == NoUser \in UserState /\ NoRefill \in RefillState
PROOF BY PoolAssumption DEF NoUser, NoRefill, UserState, RefillState, Stock

(* The bounds in the guards and the positions keep the types.               *)
LEMMA TypesKept ==
  ASSUME PoolTypeOK, Position, [PoolNext]_poolVars
  PROVE  PoolTypeOK'
PROOF
  <1> USE PoolAssumption DEF PoolTypeOK
  <1> DEFINE UserFields == /\ user.ses \in 0..MaxSessions
                           /\ user.gen \in 0..MaxGeneration
                           /\ user.conn \in Stock
             Fields(t)  == /\ refill[t] \in RefillState
                           /\ refill[t].ses \in 0..MaxSessions
                           /\ refill[t].gen \in 0..MaxGeneration
                           /\ refill[t].conn \in Stock
             Rest == /\ session' \in 1..MaxSessions
                     /\ rotation' \in {"none", "put", "prewarm"}
                     /\ ready' \in Stock
                     /\ fp' \in 0..MaxSessions
                     /\ closed' \in BOOLEAN
                     /\ generation' \in 0..MaxGeneration
                     /\ conn' \in [Conns -> ConnState]
                     /\ issued' \in 0..MaxIssued
  <1>u. UserFields
    BY DEF UserState
  <1>f. ASSUME NEW t \in Refills PROVE Fields(t)
    BY DEF RefillState
  <1>c. ASSUME NEW S PROVE Close(S) => conn' \in [Conns -> ConnState]
    BY DEF Close, Unopened, ConnState
  <1>o. ASSUME NEW k \in Conns, NEW s \in 0..MaxSessions
        PROVE  Opens(k, s) => /\ conn' \in [Conns -> ConnState]
                              /\ issued' \in 0..MaxIssued
    BY DEF Opens, ConnState
  <1>n. NoConn \in Stock /\ session \in 0..MaxSessions
    BY DEF Stock
  <1> HIDE DEF UserFields, Fields
  <1>1. CASE BeginRead
    BY <1>1, <1>u, <1>n, GoodUser, GoodStart DEF BeginRead
  <1>2. CASE Acquire
    <2>0. /\ generation' \in 0..MaxGeneration
          /\ generation' = generation + (IF fp = user.ses THEN 0 ELSE 1)
      BY <1>2 DEF Acquire
    <2>a. PICK kept \in Stock :
            user' = [user EXCEPT !.pc = IF kept = NoConn THEN "auth" ELSE "check",
                                 !.gen = generation', !.conn = kept]
      BY <1>2, <1>n, <2>0 DEF Acquire
    <2>b. PICK p \in {"auth", "check"}, g \in 0..MaxGeneration :
            user' = [user EXCEPT !.pc = p, !.gen = g, !.conn = kept]
      BY <2>0, <2>a
    <2>1. user' \in UserState
      BY <2>b, GoodUser
    <2>2. refill' \in [Refills -> RefillState]
      BY <1>2, <1>u, <1>f, <1>n, GoodRefill, GoodStart DEF Acquire, Fields
    <2>3. refilling' \in BOOLEAN
      BY <1>2 DEF Acquire
    <2>4. Rest
      BY <1>2, <1>u, <1>f, <1>c, <1>o, <1>n DEF Acquire, UserFields, Fields
    <2>. QED  BY <2>1, <2>2, <2>3, <2>4
  <1>3. CASE AcquireRefused
    BY <1>3, <1>u, <1>n, GoodUser, GoodStart DEF AcquireRefused
  <1>4. ASSUME NEW k \in Conns, Authenticate(k)
         PROVE  PoolTypeOK'
    <2>1. user' \in UserState
      BY <1>4, <1>u, <1>n, GoodUser, GoodStart DEF Authenticate, Stock
    <2>2. refill' \in [Refills -> RefillState]
      BY <1>4, <1>u, <1>f, <1>n, GoodRefill, GoodStart DEF Authenticate, Fields
    <2>3. refilling' \in BOOLEAN
      BY <1>4 DEF Authenticate
    <2>4. Rest
      BY <1>4, <1>u, <1>f, <1>c, <1>o, <1>n DEF Authenticate, UserFields, Fields
    <2>. QED  BY <2>1, <2>2, <2>3, <2>4
  <1>5. CASE AuthenticateFails
    BY <1>5, <1>u, <1>n, GoodUser, GoodStart DEF AuthenticateFails
  <1>6. CASE Check
    <2>1. user' \in UserState
      BY <1>6, <1>u, <1>n, GoodUser, GoodStart DEF Check
    <2>2. refill' \in [Refills -> RefillState]
      BY <1>6, <1>u, <1>f, <1>n, GoodRefill, GoodStart DEF Check, Fields
    <2>3. refilling' \in BOOLEAN
      BY <1>6 DEF Check
    <2>4. Rest
      BY <1>6, <1>u, <1>f, <1>c, <1>o, <1>n DEF Check, UserFields, Fields
    <2>. QED  BY <2>1, <2>2, <2>3, <2>4
  <1>7. CASE Send
    <2>1. user' \in UserState
      BY <1>7, <1>u, <1>n, GoodUser, GoodStart DEF Send, Position, ConnState
    <2>2. refill' \in [Refills -> RefillState]
      BY <1>7, <1>u, <1>f, <1>n, GoodRefill, GoodStart DEF Send, Position, ConnState, Fields
    <2>3. refilling' \in BOOLEAN
      BY <1>7 DEF Send, Position, ConnState
    <2>0. user.conn \in Conns
      BY <1>7, <1>u DEF Send, Position, Stock, UserFields
    <2>a. conn[user.conn] \in ConnState
          /\ [conn[user.conn] EXCEPT !.uses = @ + 1] \in ConnState
      BY <2>0 DEF ConnState
    <2>b. conn' \in [Conns -> ConnState]
      BY <1>7, <2>0, <2>a DEF Send
    <2>4. Rest
      BY <1>7, <2>b DEF Send
    <2>. QED  BY <2>1, <2>2, <2>3, <2>4
  <1>8. CASE Answer
    <2>1. user' \in UserState
      BY <1>8, <1>u, <1>n, GoodUser, GoodStart DEF Answer
    <2>2. refill' \in [Refills -> RefillState]
      BY <1>8, <1>u, <1>f, <1>n, GoodRefill, GoodStart DEF Answer, Fields
    <2>3. refilling' \in BOOLEAN
      BY <1>8 DEF Answer
    <2>4. Rest
      BY <1>8, <1>u, <1>f, <1>c, <1>o, <1>n DEF Answer, UserFields, Fields
    <2>. QED  BY <2>1, <2>2, <2>3, <2>4
  <1>9. CASE Schedule
    <2>0. generation' \in 0..MaxGeneration
      BY <1>9 DEF Schedule
    <2>a. PICK g \in 0..MaxGeneration :
            user' = [user EXCEPT !.pc = "start", !.gen = g] \/ user' = NoUser
      BY <1>9, <2>0 DEF Schedule
    <2>b. [user EXCEPT !.pc = "start", !.gen = g] \in UserState
      BY GoodUser
    <2>1. user' \in UserState
      BY <2>a, <2>b, GoodStart
    <2>2. refill' \in [Refills -> RefillState]
      BY <1>9, <1>u, <1>f, <1>n, GoodRefill, GoodStart DEF Schedule, Fields
    <2>3. refilling' \in BOOLEAN
      BY <1>9 DEF Schedule
    <2>4. Rest
      BY <1>9, <1>u, <1>f, <1>c, <1>o, <1>n DEF Schedule, UserFields, Fields
    <2>. QED  BY <2>1, <2>2, <2>3, <2>4
  <1>10. CASE ScheduleRefused
    BY <1>10, <1>u, <1>n, GoodUser, GoodStart DEF ScheduleRefused
  <1>11. ASSUME NEW t \in Refills, StartRefill(t)
         PROVE  PoolTypeOK'
    <2>1. user' \in UserState
      BY <1>11, <1>u, <1>n, GoodUser, GoodStart DEF StartRefill
    <2>2. refill' \in [Refills -> RefillState]
      BY <1>11, <1>u, <1>f, <1>n, GoodRefill, GoodStart
         DEF StartRefill, Fields, UserFields
    <2>3. refilling' \in BOOLEAN
      BY <1>11 DEF StartRefill
    <2>4. Rest
      BY <1>11, <1>u, <1>f, <1>c, <1>o, <1>n DEF StartRefill, UserFields, Fields
    <2>. QED  BY <2>1, <2>2, <2>3, <2>4
  <1>12. CASE StartFails
    <2>1. user' \in UserState
      BY <1>12, <1>u, <1>n, GoodUser, GoodStart DEF StartFails
    <2>2. refill' \in [Refills -> RefillState]
      BY <1>12, <1>u, <1>f, <1>n, GoodRefill, GoodStart DEF StartFails, Fields
    <2>3. refilling' \in BOOLEAN
      BY <1>12 DEF StartFails
    <2>4. Rest
      BY <1>12, <1>u, <1>f, <1>c, <1>o, <1>n DEF StartFails, UserFields, Fields
    <2>. QED  BY <2>1, <2>2, <2>3, <2>4
  <1>13. CASE Prewarm
    BY <1>13, <1>u, <1>n, GoodUser, GoodStart DEF Prewarm
  <1>14. ASSUME NEW t \in Refills, NEW k \in Conns, RefillOpens(t, k)
         PROVE  PoolTypeOK'
    <2>1. user' \in UserState
      BY <1>14, <1>u, <1>n, GoodUser, GoodStart DEF RefillOpens
    <2>2. refill' \in [Refills -> RefillState]
      BY <1>14, <1>u, <1>f, <1>n, GoodRefill, GoodStart DEF RefillOpens, Fields, Stock
    <2>3. refilling' \in BOOLEAN
      BY <1>14 DEF RefillOpens
    <2>4. Rest
      BY <1>14, <1>u, <1>f, <1>c, <1>o, <1>n DEF RefillOpens, UserFields, Fields
    <2>. QED  BY <2>1, <2>2, <2>3, <2>4
  <1>15. ASSUME NEW t \in Refills, RefillFails(t)
         PROVE  PoolTypeOK'
    <2>1. user' \in UserState
      BY <1>15, <1>u, <1>n, GoodUser, GoodStart DEF RefillFails
    <2>2. refill' \in [Refills -> RefillState]
      BY <1>15, <1>u, <1>f, <1>n, GoodRefill, GoodStart DEF RefillFails, Fields
    <2>3. refilling' \in BOOLEAN
      BY <1>15 DEF RefillFails
    <2>4. Rest
      BY <1>15, <1>u, <1>f, <1>c, <1>o, <1>n DEF RefillFails, UserFields, Fields
    <2>. QED  BY <2>1, <2>2, <2>3, <2>4
  <1>16. ASSUME NEW t \in Refills, RefillStore(t)
         PROVE  PoolTypeOK'
    <2>1. user' \in UserState
      BY <1>16, <1>u, <1>n, GoodUser, GoodStart DEF RefillStore, Stores
    <2>2. refill' \in [Refills -> RefillState]
      BY <1>16, <1>u, <1>f, <1>n, GoodRefill, GoodStart DEF RefillStore, Stores, Fields
    <2>3. refilling' \in BOOLEAN
      BY <1>16 DEF RefillStore, Stores
    <2>4. Rest
      BY <1>16, <1>u, <1>f, <1>c, <1>o, <1>n DEF RefillStore, Stores, UserFields, Fields
    <2>. QED  BY <2>1, <2>2, <2>3, <2>4
  <1>17. CASE PutSession
    <2>1. Rest
      BY <1>17 DEF PutSession
    <2>. QED  BY <1>17, <2>1 DEF PutSession
  <1>18. CASE Invalidate
    <2>1. user' \in UserState
      BY <1>18, <1>u, <1>n, GoodUser, GoodStart DEF Invalidate, EmptyPool
    <2>2. refill' \in [Refills -> RefillState]
      BY <1>18, <1>u, <1>f, <1>n, GoodRefill, GoodStart DEF Invalidate, EmptyPool, Fields
    <2>3. refilling' \in BOOLEAN
      BY <1>18 DEF Invalidate, EmptyPool
    <2>4. Rest
      BY <1>18, <1>u, <1>f, <1>c, <1>o, <1>n DEF Invalidate, EmptyPool, UserFields, Fields
    <2>. QED  BY <2>1, <2>2, <2>3, <2>4
  <1>19. CASE PrewarmSession
    BY <1>19, <1>u, <1>n, GoodUser, GoodStart DEF PrewarmSession
  <1>20. CASE ClosePool
    <2>1. user' \in UserState
      BY <1>20, <1>u, <1>n, GoodUser, GoodStart DEF ClosePool, EmptyPool
    <2>2. refill' \in [Refills -> RefillState]
      BY <1>20, <1>u, <1>f, <1>n, GoodRefill, GoodStart DEF ClosePool, EmptyPool, Fields
    <2>3. refilling' \in BOOLEAN
      BY <1>20 DEF ClosePool, EmptyPool
    <2>4. Rest
      BY <1>20, <1>u, <1>f, <1>c, <1>o, <1>n DEF ClosePool, EmptyPool, UserFields, Fields
    <2>. QED  BY <2>1, <2>2, <2>3, <2>4
  <1>21. CASE UNCHANGED poolVars
    BY <1>21 DEF poolVars
  <1> HIDE DEF PoolTypeOK, Rest
  <1>. QED
    BY <1>1, <1>2, <1>3, <1>4, <1>5, <1>6, <1>7, <1>8, <1>9, <1>10, <1>11, <1>12, <1>13, <1>14, <1>15, <1>16, <1>17, <1>18, <1>19, <1>20, <1>21
       DEF PoolNext, UserNext, RefillNext

(* Each step moves a connection together with the position.                 *)
LEMMA PositionKept ==
  ASSUME PoolTypeOK, Position, [PoolNext]_poolVars
  PROVE  Position'
PROOF
  <1> USE PoolAssumption DEF PoolTypeOK, Stock, UserState, RefillState, ConnState, NoUser, NoRefill, Position
  <1>1. CASE BeginRead
    BY <1>1 DEF BeginRead
  <1>2. CASE Acquire
    BY <1>2 DEF Acquire, Close, Unopened
  <1>3. CASE AcquireRefused
    BY <1>3 DEF AcquireRefused
  <1>4. ASSUME NEW k \in Conns, Authenticate(k)
         PROVE  Position'
    BY <1>4 DEF Authenticate, Opens
  <1>5. CASE AuthenticateFails
    BY <1>5 DEF AuthenticateFails
  <1>6. CASE Check
    BY <1>6 DEF Check, Close, Unopened
  <1>7. CASE Send
    BY <1>7 DEF Send
  <1>8. CASE Answer
    BY <1>8 DEF Answer, Close, Unopened
  <1>9. CASE Schedule
    BY <1>9 DEF Schedule, Close, Unopened
  <1>10. CASE ScheduleRefused
    BY <1>10 DEF ScheduleRefused
  <1>11. ASSUME NEW t \in Refills, StartRefill(t)
         PROVE  Position'
    BY <1>11 DEF StartRefill
  <1>12. CASE StartFails
    BY <1>12 DEF StartFails
  <1>13. CASE Prewarm
    BY <1>13 DEF Prewarm
  <1>14. ASSUME NEW t \in Refills, NEW k \in Conns, RefillOpens(t, k)
         PROVE  Position'
    BY <1>14 DEF RefillOpens, Opens
  <1>15. ASSUME NEW t \in Refills, RefillFails(t)
         PROVE  Position'
    BY <1>15 DEF RefillFails
  <1>16. ASSUME NEW t \in Refills, RefillStore(t)
         PROVE  Position'
    BY <1>16 DEF RefillStore, Stores, Close, Unopened
  <1>17. CASE PutSession
    BY <1>17 DEF PutSession
  <1>18. CASE Invalidate
    BY <1>18 DEF Invalidate, EmptyPool, Close, Unopened
  <1>19. CASE PrewarmSession
    BY <1>19 DEF PrewarmSession
  <1>20. CASE ClosePool
    BY <1>20 DEF ClosePool, EmptyPool, Close, Unopened
  <1>21. CASE UNCHANGED poolVars
    BY <1>21 DEF poolVars
  <1> HIDE DEF PoolTypeOK, Stock, UserState, RefillState, ConnState, NoUser, NoRefill, Position
  <1>. QED
    BY <1>1, <1>2, <1>3, <1>4, <1>5, <1>6, <1>7, <1>8, <1>9, <1>10, <1>11, <1>12, <1>13, <1>14, <1>15, <1>16, <1>17, <1>18, <1>19, <1>20, <1>21
       DEF PoolNext, UserNext, RefillNext

(* Connections change hands without being copied or forgotten.              *)
LEMMA HandsKept ==
  ASSUME PoolTypeOK, Position, Apart, Accounted, Unused, [PoolNext]_poolVars
  PROVE  Apart' /\ Accounted' /\ Unused'
PROOF
  <1> USE PoolAssumption DEF PoolTypeOK, Stock, UserState, RefillState, ConnState, NoUser, NoRefill, Position, Apart, Accounted, Held, Open, Unused
  <1>1. CASE BeginRead
    BY <1>1 DEF BeginRead
  <1>2. CASE Acquire
    <2>1. Apart'
      BY <1>2 DEF Acquire, Close, Unopened
    <2>2. Accounted'
      BY <1>2 DEF Acquire, Close, Unopened
    <2>3. Unused'
      BY <1>2 DEF Acquire, Close, Unopened
    <2>. QED  BY <2>1, <2>2, <2>3
  <1>3. CASE AcquireRefused
    BY <1>3 DEF AcquireRefused
  <1>4. ASSUME NEW k \in Conns, Authenticate(k)
         PROVE  Apart' /\ Accounted' /\ Unused'
    <2>1. Apart'
      BY <1>4 DEF Authenticate, Opens
    <2>2. Accounted'
      BY <1>4 DEF Authenticate, Opens
    <2>3. Unused'
      BY <1>4 DEF Authenticate, Opens
    <2>. QED  BY <2>1, <2>2, <2>3
  <1>5. CASE AuthenticateFails
    BY <1>5 DEF AuthenticateFails
  <1>6. CASE Check
    <2>1. Apart'
      BY <1>6 DEF Check, Close, Unopened
    <2>2. Accounted'
      BY <1>6 DEF Check, Close, Unopened
    <2>3. Unused'
      BY <1>6 DEF Check, Close, Unopened
    <2>. QED  BY <2>1, <2>2, <2>3
  <1>7. CASE Send
    <2>1. Apart'
      BY <1>7 DEF Send
    <2>2. Accounted'
      BY <1>7 DEF Send
    <2>3. Unused'
      BY <1>7 DEF Send
    <2>. QED  BY <2>1, <2>2, <2>3
  <1>8. CASE Answer
    <2>1. Apart'
      BY <1>8 DEF Answer, Close, Unopened
    <2>2. Accounted'
      BY <1>8 DEF Answer, Close, Unopened
    <2>3. Unused'
      BY <1>8 DEF Answer, Close, Unopened
    <2>. QED  BY <2>1, <2>2, <2>3
  <1>9. CASE Schedule
    <2>1. Apart'
      BY <1>9 DEF Schedule, Close, Unopened
    <2>2. Accounted'
      BY <1>9 DEF Schedule, Close, Unopened
    <2>3. Unused'
      BY <1>9 DEF Schedule, Close, Unopened
    <2>. QED  BY <2>1, <2>2, <2>3
  <1>10. CASE ScheduleRefused
    BY <1>10 DEF ScheduleRefused
  <1>11. ASSUME NEW t \in Refills, StartRefill(t)
         PROVE  Apart' /\ Accounted' /\ Unused'
    <2>1. Apart'
      BY <1>11 DEF StartRefill
    <2>2. Accounted'
      BY <1>11 DEF StartRefill
    <2>3. Unused'
      BY <1>11 DEF StartRefill
    <2>. QED  BY <2>1, <2>2, <2>3
  <1>12. CASE StartFails
    BY <1>12 DEF StartFails
  <1>13. CASE Prewarm
    BY <1>13 DEF Prewarm
  <1>14. ASSUME NEW t \in Refills, NEW k \in Conns, RefillOpens(t, k)
         PROVE  Apart' /\ Accounted' /\ Unused'
    <2>1. Apart'
      BY <1>14 DEF RefillOpens, Opens
    <2>2. Accounted'
      BY <1>14 DEF RefillOpens, Opens
    <2>3. Unused'
      BY <1>14 DEF RefillOpens, Opens
    <2>. QED  BY <2>1, <2>2, <2>3
  <1>15. ASSUME NEW t \in Refills, RefillFails(t)
         PROVE  Apart' /\ Accounted' /\ Unused'
    BY <1>15 DEF RefillFails
  <1>16. ASSUME NEW t \in Refills, RefillStore(t)
         PROVE  Apart' /\ Accounted' /\ Unused'
    <2>1. Apart'
      BY <1>16 DEF RefillStore, Stores, Close, Unopened, Fits
    <2>2. Accounted'
      BY <1>16 DEF RefillStore, Stores, Close, Unopened, Fits
    <2>3. Unused'
      BY <1>16 DEF RefillStore, Stores, Close, Unopened, Fits
    <2>. QED  BY <2>1, <2>2, <2>3
  <1>17. CASE PutSession
    BY <1>17 DEF PutSession
  <1>18. CASE Invalidate
    <2>1. Apart'
      BY <1>18 DEF Invalidate, EmptyPool, Close, Unopened
    <2>2. Accounted'
      BY <1>18 DEF Invalidate, EmptyPool, Close, Unopened
    <2>3. Unused'
      BY <1>18 DEF Invalidate, EmptyPool, Close, Unopened
    <2>. QED  BY <2>1, <2>2, <2>3
  <1>19. CASE PrewarmSession
    BY <1>19 DEF PrewarmSession
  <1>20. CASE ClosePool
    <2>1. Apart'
      BY <1>20 DEF ClosePool, EmptyPool, Close, Unopened
    <2>2. Accounted'
      BY <1>20 DEF ClosePool, EmptyPool, Close, Unopened
    <2>3. Unused'
      BY <1>20 DEF ClosePool, EmptyPool, Close, Unopened
    <2>. QED  BY <2>1, <2>2, <2>3
  <1>21. CASE UNCHANGED poolVars
    BY <1>21 DEF poolVars
  <1> HIDE DEF PoolTypeOK, Stock, UserState, RefillState, ConnState, NoUser, NoRefill, Position, Apart, Accounted, Held, Open, Unused
  <1>. QED
    BY <1>1, <1>2, <1>3, <1>4, <1>5, <1>6, <1>7, <1>8, <1>9, <1>10, <1>11, <1>12, <1>13, <1>14, <1>15, <1>16, <1>17, <1>18, <1>19, <1>20, <1>21
       DEF PoolNext, UserNext, RefillNext

(* A thread of the present generation stays alone, and flagged.             *)
LEMMA FlagKept ==
  ASSUME PoolTypeOK, Position, Alone, RefillingIsTrue, [PoolNext]_poolVars
  PROVE  Alone' /\ RefillingIsTrue'
PROOF
  <1> USE PoolAssumption DEF PoolTypeOK, Stock, UserState, RefillState, ConnState, NoUser, NoRefill, Alone, RefillingIsTrue, Current
  <1>1. CASE BeginRead
    BY <1>1 DEF BeginRead
  <1>2. CASE Acquire
    BY <1>2 DEF Acquire, Close, Unopened
  <1>3. CASE AcquireRefused
    BY <1>3 DEF AcquireRefused
  <1>4. ASSUME NEW k \in Conns, Authenticate(k)
         PROVE  Alone' /\ RefillingIsTrue'
    BY <1>4 DEF Authenticate, Opens
  <1>5. CASE AuthenticateFails
    BY <1>5 DEF AuthenticateFails
  <1>6. CASE Check
    BY <1>6 DEF Check, Close, Unopened
  <1>7. CASE Send
    BY <1>7 DEF Send
  <1>8. CASE Answer
    BY <1>8 DEF Answer, Close, Unopened
  <1>9. CASE Schedule
    <2>1. /\ generation' >= generation /\ generation' \in 0..MaxGeneration
          /\ UNCHANGED refill
      BY <1>9 DEF Schedule
    <2>0. \A t \in Refills : refill'[t].gen <= generation'
      <3>1. \A t \in Refills : refill[t].gen \in 0..MaxGeneration
        OBVIOUS
      <3>. QED  BY <2>1, <3>1
    <2>2. CASE user'.pc = "start"
      <3>1. user'.gen = generation' /\ refilling'
        BY <1>9, <2>2 DEF Schedule
      <3>2. \A t \in Refills : refill[t].pc # "idle" => refill[t].gen # generation'
        <4>1. fp # user.ses => generation' > generation
          BY <1>9 DEF Schedule
        <4>2. fp = user.ses => generation' = generation /\ ~refilling
          BY <1>9, <2>2 DEF Schedule
        <4>. QED  BY <4>1, <4>2
      <3>3. Alone'
        BY <2>0, <2>1, <2>2, <3>1, <3>2
      <3>4. RefillingIsTrue'
        BY <2>2, <3>1
      <3>. QED  BY <3>3, <3>4
    <2>3. CASE user'.pc # "start"
      <3>1. generation' = generation /\ (refilling' <=> refilling)
        BY <1>9, <2>3 DEF Schedule
      <3>. QED  BY <1>9, <2>1, <2>3, <3>1 DEF Schedule
    <2>. QED  BY <2>2, <2>3
  <1>10. CASE ScheduleRefused
    BY <1>10 DEF ScheduleRefused
  <1>11. ASSUME NEW t \in Refills, StartRefill(t)
         PROVE  Alone' /\ RefillingIsTrue'
    BY <1>11 DEF StartRefill
  <1>12. CASE StartFails
    BY <1>12 DEF StartFails
  <1>13. CASE Prewarm
    BY <1>13 DEF Prewarm
  <1>14. ASSUME NEW t \in Refills, NEW k \in Conns, RefillOpens(t, k)
         PROVE  Alone' /\ RefillingIsTrue'
    BY <1>14 DEF RefillOpens, Opens
  <1>15. ASSUME NEW t \in Refills, RefillFails(t)
         PROVE  Alone' /\ RefillingIsTrue'
    BY <1>15 DEF RefillFails
  <1>16. ASSUME NEW t \in Refills, RefillStore(t)
         PROVE  Alone' /\ RefillingIsTrue'
    <2>1. /\ refill[t].pc = "store"
          /\ refill' = [refill EXCEPT ![t] = NoRefill]
          /\ UNCHANGED <<user, generation>>
          /\ refilling' <=> refilling /\ ~(refill[t].gen = generation)
      BY <1>16 DEF RefillStore, Stores
    <2>2. Alone'
      BY <2>1
    <2>3. \A u \in Refills : u # t => refill'[u] = refill[u]
      BY <2>1
    <2>4. RefillingIsTrue'
      BY <2>1, <2>3
    <2>. QED  BY <2>2, <2>4
  <1>17. CASE PutSession
    BY <1>17 DEF PutSession
  <1>18. CASE Invalidate
    BY <1>18 DEF Invalidate, EmptyPool, Close, Unopened
  <1>19. CASE PrewarmSession
    BY <1>19 DEF PrewarmSession
  <1>20. CASE ClosePool
    BY <1>20 DEF ClosePool, EmptyPool, Close, Unopened
  <1>21. CASE UNCHANGED poolVars
    BY <1>21 DEF poolVars
  <1> HIDE DEF PoolTypeOK, Stock, UserState, RefillState, ConnState, NoUser, NoRefill, Alone, RefillingIsTrue, Current
  <1>. QED
    BY <1>1, <1>2, <1>3, <1>4, <1>5, <1>6, <1>7, <1>8, <1>9, <1>10, <1>11, <1>12, <1>13, <1>14, <1>15, <1>16, <1>17, <1>18, <1>19, <1>20, <1>21
       DEF PoolNext, UserNext, RefillNext

(* The request lock and the generation keep old sessions out of the pool.   *)
LEMMA FreshKept ==
  ASSUME PoolTypeOK, Position, Apart, Accounted, Timely, [PoolNext]_poolVars
  PROVE  Timely'
PROOF
  <1> USE PoolAssumption DEF PoolTypeOK, Stock, UserState, RefillState, ConnState, NoUser, NoRefill, Position, Apart, Accounted, Held, Open, Timely
  <1>1. CASE BeginRead
    BY <1>1 DEF BeginRead
  <1>2. CASE Acquire
    BY <1>2 DEF Acquire, Close, Unopened
  <1>3. CASE AcquireRefused
    BY <1>3 DEF AcquireRefused
  <1>4. ASSUME NEW k \in Conns, Authenticate(k)
         PROVE  Timely'
    BY <1>4 DEF Authenticate, Opens
  <1>5. CASE AuthenticateFails
    BY <1>5 DEF AuthenticateFails
  <1>6. CASE Check
    BY <1>6 DEF Check, Close, Unopened
  <1>7. CASE Send
    BY <1>7 DEF Send
  <1>8. CASE Answer
    BY <1>8 DEF Answer, Close, Unopened
  <1>9. CASE Schedule
    BY <1>9 DEF Schedule, Close, Unopened
  <1>10. CASE ScheduleRefused
    BY <1>10 DEF ScheduleRefused
  <1>11. ASSUME NEW t \in Refills, StartRefill(t)
         PROVE  Timely'
    BY <1>11 DEF StartRefill
  <1>12. CASE StartFails
    BY <1>12 DEF StartFails
  <1>13. CASE Prewarm
    BY <1>13 DEF Prewarm
  <1>14. ASSUME NEW t \in Refills, NEW k \in Conns, RefillOpens(t, k)
         PROVE  Timely'
    BY <1>14 DEF RefillOpens, Opens
  <1>15. ASSUME NEW t \in Refills, RefillFails(t)
         PROVE  Timely'
    BY <1>15 DEF RefillFails
  <1>16. ASSUME NEW t \in Refills, RefillStore(t)
         PROVE  Timely'
    BY <1>16 DEF RefillStore, Stores, Close, Unopened, Fits
  <1>17. CASE PutSession
    BY <1>17 DEF PutSession
  <1>18. CASE Invalidate
    BY <1>18 DEF Invalidate, EmptyPool, Close, Unopened
  <1>19. CASE PrewarmSession
    BY <1>19 DEF PrewarmSession
  <1>20. CASE ClosePool
    BY <1>20 DEF ClosePool, EmptyPool, Close, Unopened
  <1>21. CASE UNCHANGED poolVars
    BY <1>21 DEF poolVars
  <1> HIDE DEF PoolTypeOK, Stock, UserState, RefillState, ConnState, NoUser, NoRefill, Position, Apart, Accounted, Held, Open, Timely
  <1>. QED
    BY <1>1, <1>2, <1>3, <1>4, <1>5, <1>6, <1>7, <1>8, <1>9, <1>10, <1>11, <1>12, <1>13, <1>14, <1>15, <1>16, <1>17, <1>18, <1>19, <1>20, <1>21
       DEF PoolNext, UserNext, RefillNext
-----------------------------------------------------------------------------
(* The invariant holds at the start and is kept.                            *)
LEMMA InvStarts ==
  ASSUME PoolInit
  PROVE  PInv
PROOF
  <1> USE PoolAssumption DEF PoolInit, NoUser, NoRefill, Unopened
  <1>1. PoolTypeOK
    <2>1. user \in UserState /\ refill \in [Refills -> RefillState]
      BY GoodStart
    <2>2. conn \in [Conns -> ConnState]
      BY DEF ConnState
    <2>3. /\ session \in 1..MaxSessions /\ fp \in 0..MaxSessions
          /\ generation \in 0..MaxGeneration /\ issued \in 0..MaxIssued
      OBVIOUS
    <2>4. refilling \in BOOLEAN /\ closed \in BOOLEAN
      OBVIOUS
    <2>. QED  BY <2>1, <2>2, <2>3, <2>4 DEF PoolTypeOK, Stock
  <1>2. Position /\ Apart
    BY DEF Position, Apart
  <1>3. Accounted /\ Unused
    BY DEF Accounted, Held, Open, Unused
  <1>4. Timely /\ Alone /\ RefillingIsTrue
    BY DEF Timely, Alone, RefillingIsTrue
  <1>. QED  BY <1>1, <1>2, <1>3, <1>4 DEF PInv

(* Every step keeps it.                                                     *)
LEMMA InvKept ==
  ASSUME PInv, [PoolNext]_poolVars
  PROVE  PInv'
PROOF
  BY TypesKept, PositionKept, HandsKept, FreshKept, FlagKept DEF PInv

(* It holds in every state.                                                 *)
LEMMA InvHolds == PoolSpec => []PInv
PROOF
  <1>1. PoolInit => PInv
    BY InvStarts
  <1>2. PInv /\ [PoolNext]_poolVars => PInv'
    BY InvKept
  <1>. QED  BY <1>1, <1>2, PTL DEF PoolSpec

(* What the invariant says about one connection.                            *)
LEMMA OneHand ==
  ASSUME PInv, NEW k \in Conns
  PROVE  Cardinality(Holders(k)) = (IF Open(k) THEN 1 ELSE 0)
PROOF
  <1>1. CASE ~Open(k)
    <2>1. Holders(k) = {}
      BY <1>1 DEF PInv, Accounted, Held, Holders
    <2>. QED  BY <1>1, <2>1, FS_EmptySet
  <1>2. CASE Open(k)
    <2>1. \E h : Holders(k) = {h}
      <3>1. CASE ready = k
        <4>1. Holders(k) = {"pool"}
          BY <1>2, <3>1, PoolAssumption DEF PInv, Apart, Holders
        <4>. QED  BY <4>1
      <3>2. CASE user.conn = k
        <4>1. Holders(k) = {"user"}
          BY <1>2, <3>2, PoolAssumption DEF PInv, Apart, Holders
        <4>. QED  BY <4>1
      <3>3. ASSUME NEW t \in Refills, refill[t].conn = k
            PROVE  \E h : Holders(k) = {h}
        <4>1. Holders(k) = {t}
          BY <1>2, <3>3, PoolAssumption DEF PInv, Apart, Holders
        <4>. QED  BY <4>1
      <3>. QED  BY <1>2, <3>1, <3>2, <3>3 DEF PInv, Accounted, Held
    <2>. QED  BY <1>2, <2>1, FS_Singleton
  <1>. QED  BY <1>1, <1>2

-----------------------------------------------------------------------------
(* The variables of the pool keep their types, in every state.              *)
THEOREM PoolTyping == PoolSpec => []PoolTypeOK
PROOF
  <1>1. PInv => PoolTypeOK
    BY DEF PInv
  <1>. QED  BY <1>1, InvHolds, PTL

(* _ready, the request and the refill threads never share a connection,     *)
(* none is open that nobody holds, and none carries a second request.       *)
THEOREM UsedOnce == PoolSpec => []SingleUse
PROOF
  <1>1. PInv => SingleUse
    <2> SUFFICES ASSUME PInv, NEW k \in Conns
                 PROVE  /\ Cardinality(Holders(k)) = (IF Open(k) THEN 1 ELSE 0)
                        /\ conn[k].uses <= 1
                        /\ ready = k => conn[k].uses = 0
      BY DEF SingleUse
    <2>1. Cardinality(Holders(k)) = (IF Open(k) THEN 1 ELSE 0)
      BY OneHand
    <2>2. conn[k].uses <= 1
      BY DEF PInv, Unused
    <2>3. ready = k => conn[k].uses = 0
      BY PoolAssumption DEF PInv, Unused, Apart
    <2>. QED  BY <2>1, <2>2, <2>3
  <1>. QED  BY <1>1, InvHolds, PTL

(* Once invalidate has run, _ready belongs to the session in the file.      *)
THEOREM NoOldSession == PoolSpec => []ReadyIsCurrent
PROOF
  <1>1. PInv => ReadyIsCurrent
    <2> SUFFICES ASSUME PInv, ready # NoConn, rotation # "put"
                 PROVE  conn[ready].ses = session
      BY DEF ReadyIsCurrent
    <2>1. ready \in Conns
      BY DEF PInv, PoolTypeOK, Stock
    <2>2. conn[ready].ses = fp /\ conn[ready].ses # 0
      BY <2>1 DEF PInv, Timely, Accounted, Held, Open
    <2>. QED  BY <2>2 DEF PInv, Timely
  <1>. QED  BY <1>1, InvHolds, PTL

(* _refilling is set exactly while a thread of this generation refills.     *)
THEOREM FlagIsTrue == PoolSpec => []RefillingIsTrue
PROOF
  <1>1. PInv => RefillingIsTrue
    BY DEF PInv
  <1>. QED  BY <1>1, InvHolds, PTL

-----------------------------------------------------------------------------
(* MemoryStore.                                                             *)

(* The ordinary task that runs.                                             *)
RunningOrdinary == {t \in MemSymbols : mtask[t] = "RUNNING"}

(* The list names each task once, every waiting or running ordinary task,   *)
(* and none that does not exist; the runner holds the one that runs; an     *)
(* ordinary one stands before all that wait, and none runs under a lease.   *)
MemInv ==
  /\ IsInjective(mfifo)
  /\ \A t \in QueuedOrdinary \cup RunningOrdinary : Contains(mfifo, t)
  /\ \A t \in MemIds : mtask[t] = "absent" => ~Contains(mfifo, t)
  /\ \A t \in MemIds : mtask[t] = "RUNNING" => t = mheld
  /\ \A t \in RunningOrdinary :
       Keep(mfifo, QueuedOrdinary \cup {t}) = <<t>> \o MemWaiting
  /\ MemLeased => RunningOrdinary = {}

(* The tasks, the list, the lease and the runner keep their types.          *)
LEMMA MemTyping == MemSpec => []MemTypeOK
<1> USE MemAssumption
<1>1. MemInit => MemTypeOK
  BY DEF MemInit, MemTypeOK, MemIds
<1>2. MemTypeOK /\ [MemNext]_mvars => MemTypeOK'
  <2> SUFFICES ASSUME MemTypeOK, [MemNext]_mvars PROVE MemTypeOK'
    OBVIOUS
  <2>k. ASSUME NEW S PROVE Keep(mfifo, S) \in Seq(MemIds)
    BY KeepType DEF MemTypeOK
  <2>a. ASSUME NEW t \in MemIds PROVE ToTail(t) \in Seq(MemIds)
    BY <2>k DEF ToTail
  <2>l. mlease # MemNone => mlease.owner \in MemOwners
                            /\ mlease.bound \in MemAcceptances \cup {MemNone}
    BY DEF MemTypeOK, MemLease
  <2>1. ASSUME NEW t \in MemSymbols, MemSubmit(t) \/ MemRequeue(t) PROVE MemTypeOK'
    BY <2>1, <2>a DEF MemSubmit, MemRequeue, MemTypeOK, MemIds, MemActive
  <2>2. CASE MemClaim
    <3>1. PICK t \in MemClaimable :
            /\ mtask' = [mtask EXCEPT ![t] = "RUNNING"]
            /\ mheld' = t
            /\ mfifo' = IF MemLeased THEN Keep(mfifo, MemIds \ {t}) ELSE mfifo
      BY <2>2 DEF MemClaim
    <3>2. t \in MemIds
      <4>1. CASE MemLeased
        BY <3>1, <4>1, <2>l DEF MemClaimable, BoundClaim, MemLeased, MemIds
      <4>2. CASE ~MemLeased
        <5>1. MemWaiting # <<>> /\ t = Head(MemWaiting)
          BY <3>1, <4>2 DEF MemClaimable, OrdinaryClaim
        <5>2. MemWaiting \in Seq(MemIds)
          BY <2>k DEF MemWaiting
        <5> QED
          BY <5>1, <5>2
      <4> QED
        BY <4>1, <4>2
    <3>3. mfifo' \in Seq(MemIds)
      BY <3>1, <2>k DEF MemTypeOK
    <3> QED
      BY <2>2, <3>1, <3>2, <3>3 DEF MemClaim, MemTypeOK, MemActive
  <2>3. CASE MemFinish
    BY <2>3 DEF MemFinish, MemTypeOK, MemActive
  <2>4. CASE MemRestart
    BY <2>4 DEF MemRestart, MemTypeOK, MemActive
  <2>5. ASSUME NEW o \in MemOwners, MemAcquire(o) PROVE MemTypeOK'
    BY <2>5 DEF MemAcquire, MemTypeOK, MemLease
  <2>6. CASE MemExpire
    BY <2>6 DEF MemExpire, MemTypeOK
  <2>7. ASSUME NEW o \in MemOwners, NEW t \in MemAcceptances, MemBind(o, t)
        PROVE  MemTypeOK'
    <3>1. mlease' \in MemLease /\ Append(mfifo, t) \in Seq(MemIds)
      BY <2>7 DEF MemBind, MemTypeOK, MemLease, MemIds, MemLeased
    <3> QED
      BY <2>7, <3>1 DEF MemBind, MemTypeOK, MemIds, MemActive
  <2>8. ASSUME NEW o \in MemOwners, MemRebind(o) PROVE MemTypeOK'
    <3>1. mlease.bound \in MemIds
      BY <2>8, <2>l DEF MemRebind, MemLeased, MemIds
    <3> QED
      BY <2>8, <2>a, <3>1 DEF MemRebind, MemTypeOK, MemActive
  <2>9. ASSUME NEW gone, Dropped(gone), mheld' = mheld, mlease' \in MemLease \cup {MemNone}
        PROVE  MemTypeOK'
    BY <2>9, <2>k DEF Dropped, MemTypeOK
  <2>10. ASSUME NEW o \in MemOwners, MemRelease(o) PROVE MemTypeOK'
    BY <2>10, <2>9 DEF MemRelease
  <2>11. CASE MemCleanup
    BY <2>11, <2>9 DEF MemCleanup, MemTypeOK
  <2>12. CASE UNCHANGED mvars
    BY <2>12 DEF mvars, MemTypeOK
  <2> QED
    BY <2>1, <2>2, <2>3, <2>4, <2>5, <2>6, <2>7, <2>8, <2>10, <2>11, <2>12 DEF MemNext
<1> QED
  BY <1>1, <1>2, PTL DEF MemSpec

(* Moving one entry of a list to its end: R is the rest of the entries.     *)
LEMMA MovedToEnd ==
  ASSUME NEW T, NEW s \in Seq(T), NEW t \in T, NEW R,
         IsInjective(s), \A y : y \in R <=> y \in T /\ y # t
  PROVE  /\ Append(Keep(s, R), t) \in Seq(T) /\ IsInjective(Append(Keep(s, R), t))
         /\ \A y : Contains(Append(Keep(s, R), t), y) <=> (Contains(s, y) \/ y = t)
         /\ \A S : t \notin S => Keep(Append(Keep(s, R), t), S) = Keep(s, S)
         /\ \A S, P : t \notin P /\ (\A y : y \in S <=> y \in P \/ y = t) =>
              Keep(Append(Keep(s, R), t), S) = Append(Keep(s, P), t)
<1> DEFINE k == Keep(s, R)
           r == Append(k, t)
<1>1. /\ k \in Seq(T) /\ IsInjective(k)
      /\ \A y : Contains(k, y) <=> (Contains(s, y) /\ y \in R)
  BY KeepType, KeepDistinct, KeepContains
<1>2. \A y : Contains(s, y) => y \in T
  BY DEF Contains
<1>3. ASSUME NEW S, NEW P, \A y : y \in P <=> (y \in S /\ y # t)
      PROVE  Keep(k, S) = Keep(s, P)
  <2> DEFINE Q == R \cap S
  <2>1. Keep(k, S) = Keep(s, Q)
    BY KeepKeep
  <2>2. \A y : Contains(s, y) => (y \in Q <=> y \in P)
    BY <1>2, <1>3
  <2> HIDE DEF Q
  <2>3. Keep(s, Q) = Keep(s, P)
    BY <2>2, KeepSame
  <2> QED
    BY <2>1, <2>3
<1> HIDE DEF k
<1>4. /\ r \in Seq(T) /\ IsInjective(r)
      /\ \A y : Contains(r, y) <=> (Contains(k, y) \/ y = t)
  <2>1. Append(k, t) \in Seq(T)
    BY <1>1
  <2>2. IsInjective(Append(k, t))
    BY <1>1, DistinctAppend
  <2>3. \A y : Contains(Append(k, t), y) <=> (Contains(k, y) \/ y = t)
    BY <1>1, ContainsAppend
  <2> QED
    BY <2>1, <2>2, <2>3
<1>5. \A S : Keep(r, S) = IF t \in S THEN Append(Keep(k, S), t) ELSE Keep(k, S)
  BY <1>1, KeepAppend
<1> HIDE DEF r
<1>6. \A S : t \notin S => Keep(r, S) = Keep(s, S)
  <2> SUFFICES ASSUME NEW S, t \notin S PROVE Keep(r, S) = Keep(s, S)
    OBVIOUS
  <2>1. Keep(k, S) = Keep(s, S)
    BY <1>3
  <2> QED
    BY <1>5, <2>1
<1>7. ASSUME NEW S, NEW P, t \notin P, \A y : y \in S <=> (y \in P \/ y = t)
      PROVE  Keep(r, S) = Append(Keep(s, P), t)
  <2>1. Keep(k, S) = Keep(s, P)
    BY <1>3, <1>7
  <2>2. Keep(r, S) = Append(Keep(k, S), t)
    BY <1>5, <1>7
  <2> QED
    BY <2>1, <2>2, Zenon
<1>8. \A y : Contains(r, y) <=> (Contains(s, y) \/ y = t)
  BY <1>1, <1>2, <1>4
<1> QED
  BY <1>4, <1>6, <1>7, <1>8, Zenon DEF k, r

(* The list k is t and then the list q.                                     *)
FirstThen(k, t, q) == k = <<t>> \o q /\ q = Tail(k)

(* Taking the first of the entries that were kept: R are the others.        *)
LEMMA FirstKept ==
  ASSUME NEW T, NEW s \in Seq(T), NEW S, NEW t, NEW R,
         IsInjective(s), Keep(s, S) # <<>>, t = Head(Keep(s, S)),
         \A y : y \in R <=> y \in S /\ y # t
  PROVE  /\ t \in S /\ t \in T /\ Contains(s, t)
         /\ FirstThen(Keep(s, S), t, Keep(s, R))
<1> DEFINE k == Keep(s, S)
           r == Tail(k)
           u == <<t>>
<1>1. /\ k \in Seq(T) /\ IsInjective(k)
      /\ \A y : Contains(k, y) <=> (Contains(s, y) /\ y \in S)
  BY KeepType, KeepDistinct, KeepContains
<1>2. S \cap R = R /\ Keep(k, R) = Keep(s, S \cap R)
  BY KeepKeep
<1>3. Keep(k, R) = Keep(s, R)
  BY <1>2
<1>0. k # <<>> /\ t = Head(k)
  OBVIOUS
<1> HIDE DEF k
<1>4. /\ r \in Seq(T) /\ t \in T /\ k = u \o r
      /\ Len(k) = Len(r) + 1 /\ Len(r) \in Nat /\ k[1] = t
      /\ \A i \in 1 .. Len(r) : r[i] = k[i + 1]
      /\ u \in Seq(T) /\ Len(u) = 1 /\ u[1] = t
      /\ <<>> \o r = r
      /\ DOMAIN k = 1 .. Len(k) /\ Len(k) \in Nat
  BY <1>0, <1>1
<1> HIDE DEF r, u
<1>5. Contains(k, t)
  BY <1>4 DEF Contains
<1>6. \A y : Contains(r, y) => y \in R
  <2> SUFFICES ASSUME NEW i \in 1 .. Len(r) PROVE r[i] \in R
    BY DEF Contains
  <2>1. i + 1 \in 1 .. Len(k) /\ 1 \in 1 .. Len(k) /\ i + 1 # 1 /\ r[i] = k[i + 1]
    BY <1>4
  <2>2. Contains(k, r[i])
    BY <2>1 DEF Contains
  <2>3. r[i] # t
    BY <1>1, <1>4, <2>1 DEF IsInjective
  <2> QED
    BY <1>1, <2>2, <2>3
<1>7. Keep(r, R) = r
  BY <1>4, <1>6, KeepAll
<1>8. Keep(u, R) = <<>>
  <2>1. \A y : Contains(u, y) => y \notin R
    BY <1>4 DEF Contains
  <2> QED
    BY <1>4, <2>1, KeepNone
<1>9. Keep(k, R) = Keep(u, R) \o Keep(r, R)
  <2>1. Keep(u \o r, R) = Keep(u, R) \o Keep(r, R)
    <3>1. u \in Seq(T) /\ r \in Seq(T)
      BY <1>4
    <3> QED
      BY ONLY <3>1, KeepConcat
  <2> QED
    BY <1>4, <2>1
<1>10. Keep(s, R) = r
  BY <1>3, <1>4, <1>7, <1>8, <1>9
<1>11. t \in S /\ Contains(s, t)
  BY <1>1, <1>5
<1>12. FirstThen(k, t, r)
  BY <1>4 DEF FirstThen, r, u
<1>13. FirstThen(k, t, Keep(s, R))
  BY <1>10, <1>12, Zenon
<1> QED
  BY <1>4, <1>11, <1>13 DEF k

(* The moves of FifoQueue, in the terms of the store: a task is queued,     *)
LEMMA MemAdmits ==
  ASSUME NEW t \in MemSymbols, ~Contains(MemWaiting, t), t \notin RunningOrdinary,
         MemWaiting' = Append(MemWaiting, t), RunningOrdinary' = RunningOrdinary,
         mlease' = mlease
  PROVE  MemQueue!QNext
BY DEF MemQueue!QNext, MemQueue!Admit, MemQueue!Contains, Contains, MemLeased,
       RunningOrdinary

(* the first one starts,                                                    *)
LEMMA MemStarts ==
  ASSUME ~MemLeased, MemWaiting # <<>>, MemWaiting' = Tail(MemWaiting),
         RunningOrdinary' = RunningOrdinary \cup {Head(MemWaiting)},
         mlease' = mlease
  PROVE  MemQueue!QNext
BY DEF MemQueue!QNext, MemQueue!Start, MemLeased, RunningOrdinary

(* ends,                                                                    *)
LEMMA MemFinishes ==
  ASSUME NEW t \in RunningOrdinary, RunningOrdinary' = RunningOrdinary \ {t},
         MemWaiting' = MemWaiting, mlease' = mlease
  PROVE  MemQueue!QNext
BY DEF MemQueue!QNext, MemQueue!Finish, MemLeased, RunningOrdinary

(* or comes back to the front;                                              *)
LEMMA MemRecovers ==
  ASSUME NEW t, RunningOrdinary = {t}, RunningOrdinary' = {},
         MemWaiting' = <<t>> \o MemWaiting, mlease' = mlease
  PROVE  MemQueue!QNext
<1>1. \A S : MemQueue!Cardinality(S) = Cardinality(S)
  BY DEF MemQueue!Cardinality, Cardinality
<1>2. MemQueue!SetToSeqs({t}) = SetToSeqs({t})
  BY <1>1 DEF MemQueue!SetToSeqs, SetToSeqs
<1>3. <<t>> \in SetToSeqs({t})
  <2>1. <<t>> \in Seq({t}) /\ Len(<<t>>) = 1 /\ <<t>>[1] = t /\ DOMAIN <<t>> = {1}
    OBVIOUS
  <2>2. IsInjective(<<t>>) /\ \A y \in {t} : Contains(<<t>>, y)
    BY <2>1 DEF IsInjective, Contains
  <2>3. IsFiniteSet({t})
    BY FS_Singleton
  <2> QED
    BY <2>1, <2>2, <2>3, ListingIs
<1>4. MemQueue!Recover
  BY <1>2, <1>3 DEF MemQueue!Recover, MemLeased, RunningOrdinary
<1> QED
  BY <1>4 DEF MemQueue!QNext

(* maintenance takes or returns the queue;                                  *)
LEMMA MemFreezes ==
  ASSUME MemLeased <=> ~(MemLeased'), MemLeased' => RunningOrdinary = {},
         MemWaiting' = MemWaiting, RunningOrdinary' = RunningOrdinary
  PROVE  MemQueue!QNext
BY DEF MemQueue!QNext, MemQueue!Freeze, MemQueue!Thaw, MemLeased, RunningOrdinary

(* every other step leaves ordinary work alone.                             *)
LEMMA MemStutters ==
  ASSUME MemWaiting' = MemWaiting, RunningOrdinary' = RunningOrdinary,
         MemLeased' <=> MemLeased
  PROVE  UNCHANGED MemQueue!qvars
BY DEF MemQueue!qvars, MemLeased, RunningOrdinary

(* What a step does to the promises of the list and to the abstract queue.  *)
LEMMA MemStep ==
  ASSUME MemTypeOK, MemTypeOK', MemInv, [MemNext]_mvars
  PROVE  MemInv' /\ (MemQueue!QNext \/ UNCHANGED MemQueue!qvars)
<1> USE MemAssumption
<1>t. /\ mfifo \in Seq(MemIds) /\ mfifo' \in Seq(MemIds)
      /\ MemWaiting \in Seq(MemIds) /\ MemSymbols \subseteq MemIds
      /\ MemAcceptances \subseteq MemIds
      /\ mtask \in [MemIds -> MemActive \cup MemTerminal \cup {"absent"}]
      /\ \A y : Contains(MemWaiting, y) <=> Contains(mfifo, y) /\ y \in QueuedOrdinary
  BY KeepType, KeepContains DEF MemTypeOK, MemWaiting, MemIds
<1>l. mlease # MemNone => mlease.owner \in MemOwners
                          /\ mlease.bound \in MemAcceptances \cup {MemNone}
  BY DEF MemTypeOK, MemLease
(* Ordinary tasks and their places are left alone.                          *)
<1>s. ASSUME \A t \in MemSymbols : mtask'[t] = mtask[t],
             \A S : S \subseteq MemSymbols => Keep(mfifo', S) = Keep(mfifo, S),
             \A y \in MemSymbols : Contains(mfifo, y) => Contains(mfifo', y),
             IsInjective(mfifo'),
             \A t \in MemIds : mtask'[t] = "absent" => ~Contains(mfifo', t),
             \A t \in MemIds : mtask'[t] = "RUNNING" => t = mheld',
             MemLeased' => RunningOrdinary = {}
      PROVE  /\ MemInv'
             /\ MemWaiting' = MemWaiting /\ RunningOrdinary' = RunningOrdinary
  <2>1. QueuedOrdinary' = QueuedOrdinary /\ RunningOrdinary' = RunningOrdinary
    BY <1>s DEF QueuedOrdinary, RunningOrdinary
  <2>2. MemWaiting' = Keep(mfifo', QueuedOrdinary)
    BY <2>1 DEF MemWaiting
  <2>3. QueuedOrdinary \subseteq MemSymbols /\ RunningOrdinary \subseteq MemSymbols
    BY DEF QueuedOrdinary, RunningOrdinary
  <2>4. MemWaiting' = MemWaiting
    BY <1>s, <2>2, <2>3 DEF MemWaiting
  <2>5. \A t \in RunningOrdinary :
          Keep(mfifo', QueuedOrdinary \cup {t}) = <<t>> \o MemWaiting
    <3> TAKE t \in RunningOrdinary
    <3>1. QueuedOrdinary \cup {t} \subseteq MemSymbols
      BY <2>3
    <3> QED
      BY <1>s, <3>1 DEF MemInv
  <2> QED
    BY <1>s, <2>1, <2>3, <2>4, <2>5 DEF MemInv
<1>e. MemTypeOK => \A t \in MemIds : mtask[t] = "QUEUED" => mtask[t] # "absent"
  OBVIOUS
<1>1. ASSUME NEW t \in MemSymbols, MemSubmit(t) \/ MemRequeue(t)
      PROVE  MemInv' /\ MemQueue!QNext
  <2>1. /\ mtask[t] \notin {"QUEUED", "RUNNING"}
        /\ mtask' = [mtask EXCEPT ![t] = "QUEUED"]
        /\ mfifo' = Append(Keep(mfifo, MemIds \ {t}), t)
        /\ mlease' = mlease /\ mheld' = mheld
    BY <1>1 DEF MemSubmit, MemRequeue, MemActive, ToTail
  <2>2. /\ QueuedOrdinary' = QueuedOrdinary \cup {t} /\ t \notin QueuedOrdinary
        /\ RunningOrdinary' = RunningOrdinary /\ t \notin RunningOrdinary
        /\ t \in MemIds
    BY <1>t, <2>1 DEF QueuedOrdinary, RunningOrdinary
  <2>3. /\ IsInjective(mfifo')
        /\ \A y : Contains(mfifo', y) <=> (Contains(mfifo, y) \/ y = t)
        /\ \A S, P : t \notin P /\ (\A y : y \in S <=> y \in P \/ y = t) =>
             Keep(mfifo', S) = Append(Keep(mfifo, P), t)
    <3>1. IsInjective(mfifo)
      BY DEF MemInv
    <3>2. PICK R : R = MemIds \ {t}
      OBVIOUS
    <3>3. mfifo' = Append(Keep(mfifo, R), t)
      BY <2>1, <3>2, Zenon
    <3>4. \A y : y \in R <=> y \in MemIds /\ y # t
      BY <3>2
    <3>5. /\ IsInjective(Append(Keep(mfifo, R), t))
          /\ \A y : Contains(Append(Keep(mfifo, R), t), y) <=> (Contains(mfifo, y) \/ y = t)
          /\ \A S, P : t \notin P /\ (\A y : y \in S <=> y \in P \/ y = t) =>
               Keep(Append(Keep(mfifo, R), t), S) = Append(Keep(mfifo, P), t)
      BY ONLY <1>t, <2>2, <3>1, <3>4, MovedToEnd
    <3> QED
      BY <3>3, <3>5, Zenon
  <2>4. MemWaiting' = Append(MemWaiting, t)
    <3>1. Keep(mfifo', QueuedOrdinary') = Append(Keep(mfifo, QueuedOrdinary), t)
      BY <2>2, <2>3
    <3> QED
      BY <3>1 DEF MemWaiting
  <2>5. \A r \in RunningOrdinary' :
          Keep(mfifo', QueuedOrdinary' \cup {r}) = <<r>> \o MemWaiting'
    <3> SUFFICES ASSUME NEW r \in RunningOrdinary
                 PROVE  Keep(mfifo', QueuedOrdinary' \cup {r}) =
                          <<r>> \o Append(MemWaiting, t)
      BY <2>2, <2>4
    <3>1. PICK P, S : P = QueuedOrdinary \cup {r} /\ S = QueuedOrdinary' \cup {r}
      OBVIOUS
    <3>2. Keep(mfifo', S) = Append(Keep(mfifo, P), t)
      <4>1. t \notin P /\ S = P \cup {t}
        BY <2>2, <3>1
      <4> QED
        BY <2>3, <4>1
    <3>3. Keep(mfifo, P) = <<r>> \o MemWaiting
      BY <3>1 DEF MemInv
    <3>4. <<r>> \in Seq(MemIds)
      BY <1>t DEF RunningOrdinary
    <3>5. <<r>> \o Append(MemWaiting, t) = Append(<<r>> \o MemWaiting, t)
      BY <1>t, <2>2, <3>4
    <3> QED
      BY <3>1, <3>2, <3>3, <3>5
  <2>6. \A u \in MemIds : u # t => mtask'[u] = mtask[u]
    BY <1>t, <2>1
  <2>7. mtask'[t] = "QUEUED"
    BY <1>t, <2>1, <2>2
  <2>8. MemInv'
    BY <2>1, <2>2, <2>3, <2>5, <2>6, <2>7 DEF MemInv, MemLeased
  <2>9. ~Contains(MemWaiting, t)
    BY <1>t, <2>2
  <2> QED
    BY <2>1, <2>2, <2>4, <2>8, <2>9, MemAdmits
<1>2. CASE MemClaim
  <2>1. PICK t \in MemClaimable :
          /\ mheld = MemNone
          /\ mtask' = [mtask EXCEPT ![t] = "RUNNING"]
          /\ mheld' = t
          /\ mfifo' = IF MemLeased THEN Keep(mfifo, MemIds \ {t}) ELSE mfifo
          /\ mlease' = mlease
    BY <1>2 DEF MemClaim
  <2>2. \A u \in MemIds : mtask[u] # "RUNNING"
    BY <2>1 DEF MemInv, MemIds
  <2>3. CASE MemLeased
    <3>1. t \in MemAcceptances /\ t \in MemIds /\ t \notin MemSymbols
      BY <1>l, <1>t, <2>1, <2>3 DEF MemClaimable, BoundClaim, MemLeased
    <3>2. mfifo' = Keep(mfifo, MemIds \ {t})
      BY <2>1, <2>3
    <3>3. \A y : Contains(mfifo', y) <=> Contains(mfifo, y) /\ y \in MemIds \ {t}
      BY <1>t, <3>2, KeepContains
    <3>4. IsInjective(mfifo')
      BY <1>t, <3>2, KeepDistinct DEF MemInv
    <3>5. \A S : S \subseteq MemSymbols => Keep(mfifo', S) = Keep(mfifo, S)
      <4> SUFFICES ASSUME NEW S, S \subseteq MemSymbols PROVE Keep(mfifo', S) = Keep(mfifo, S)
        OBVIOUS
      <4>1. (MemIds \ {t}) \cap S = S
        BY <1>t, <3>1
      <4> QED
        BY <1>t, <3>2, <4>1, KeepKeep
    <3>6. \A u \in MemIds : u # t => mtask'[u] = mtask[u]
      BY <1>t, <2>1
    <3>7. mtask'[t] = "RUNNING"
      BY <1>t, <2>1, <3>1
    <3>8. RunningOrdinary = {}
      BY <1>t, <2>2 DEF RunningOrdinary
    <3>9. /\ MemInv'
          /\ MemWaiting' = MemWaiting /\ RunningOrdinary' = RunningOrdinary
      <4>1. \A u \in MemSymbols : mtask'[u] = mtask[u]
        BY <1>t, <3>1, <3>6
      <4>2. \A y \in MemSymbols : Contains(mfifo, y) => Contains(mfifo', y)
        BY <1>t, <3>1, <3>3
      <4>3. \A u \in MemIds : mtask'[u] = "absent" => ~Contains(mfifo', u)
        BY <3>3, <3>6, <3>7 DEF MemInv
      <4>4. \A u \in MemIds : mtask'[u] = "RUNNING" => u = mheld'
        BY <2>1, <2>2, <3>6
      <4> QED
        BY <1>s, <3>4, <3>5, <3>8, <4>1, <4>2, <4>3, <4>4
    <3> QED
      BY <2>1, <3>9, MemStutters DEF MemLeased
  <2>4. CASE ~MemLeased
    <3>1. MemWaiting # <<>> /\ t = Head(MemWaiting) /\ mfifo' = mfifo
      BY <2>1, <2>4 DEF MemClaimable, OrdinaryClaim
    <3>2. /\ t \in QueuedOrdinary /\ Contains(mfifo, t)
          /\ Keep(mfifo, QueuedOrdinary \ {t}) = Tail(MemWaiting)
          /\ MemWaiting = <<t>> \o Keep(mfifo, QueuedOrdinary \ {t})
      <4>1. IsInjective(mfifo) /\ Keep(mfifo, QueuedOrdinary) = MemWaiting
        BY DEF MemInv, MemWaiting
      <4>2. Keep(mfifo, QueuedOrdinary) # <<>> /\ t = Head(Keep(mfifo, QueuedOrdinary))
        BY <3>1, <4>1
      <4>3. PICK R : R = QueuedOrdinary \ {t}
        OBVIOUS
      <4>4. \A y : y \in R <=> y \in QueuedOrdinary /\ y # t
        BY <4>3
      <4>5. IsInjective(mfifo) /\ mfifo \in Seq(MemIds)
        BY <1>t, <4>1
      <4>6. /\ t \in QueuedOrdinary /\ t \in MemIds /\ Contains(mfifo, t)
            /\ FirstThen(Keep(mfifo, QueuedOrdinary), t, Keep(mfifo, R))
        BY <4>2, <4>4, <4>5, FirstKept
      <4>7. /\ Keep(mfifo, R) = Tail(Keep(mfifo, QueuedOrdinary))
            /\ Keep(mfifo, QueuedOrdinary) = <<t>> \o Keep(mfifo, R)
        BY <4>6 DEF FirstThen
      <4> QED
        BY <4>1, <4>3, <4>6, <4>7, Zenon
    <3>3. t \in MemSymbols /\ t \in MemIds
      BY <1>t, <3>2 DEF QueuedOrdinary
    <3>4. mtask'[t] = "RUNNING" /\ \A u \in MemIds : u # t => mtask'[u] = mtask[u]
      BY <1>t, <2>1, <3>3
    <3>5. /\ QueuedOrdinary' = QueuedOrdinary \ {t}
          /\ RunningOrdinary = {} /\ RunningOrdinary' = {t}
      BY <1>t, <2>2, <3>3, <3>4 DEF QueuedOrdinary, RunningOrdinary
    <3>6. MemWaiting' = Keep(mfifo, QueuedOrdinary \ {t})
      BY <3>1, <3>5 DEF MemWaiting
    <3>7. (QueuedOrdinary \ {t}) \cup {t} = QueuedOrdinary
      BY <3>2
    <3>8. \A r \in RunningOrdinary' :
            Keep(mfifo', QueuedOrdinary' \cup {r}) = <<r>> \o MemWaiting'
      BY <3>1, <3>2, <3>5, <3>6, <3>7 DEF MemWaiting
    <3>9. \A u \in QueuedOrdinary' \cup RunningOrdinary' : Contains(mfifo', u)
      BY <3>1, <3>2, <3>5 DEF MemInv
    <3>10. MemInv'
      <4>1. \A u \in MemIds : mtask'[u] = "absent" => ~Contains(mfifo', u)
        BY <3>1, <3>4 DEF MemInv
      <4>2. \A u \in MemIds : mtask'[u] = "RUNNING" => u = mheld'
        BY <2>1, <2>2, <3>4
      <4>3. ~MemLeased'
        BY <2>1, <2>4 DEF MemLeased
      <4> QED
        BY <3>1, <3>8, <3>9, <4>1, <4>2, <4>3 DEF MemInv
    <3> QED
      BY <2>1, <2>4, <3>1, <3>2, <3>5, <3>6, <3>10, MemStarts
  <2> QED
    BY <2>3, <2>4
<1>3. CASE MemFinish
  <2>1. /\ mheld # MemNone /\ mheld \in MemIds /\ mheld' = MemNone
        /\ mfifo' = mfifo /\ mlease' = mlease
    BY <1>3 DEF MemFinish, MemTypeOK
  <2>2. \A u \in MemIds : u # mheld => mtask'[u] = mtask[u]
    BY <1>3, <1>t, <2>1 DEF MemFinish
  <2>3. \/ mtask[mheld] = mtask'[mheld] /\ mtask[mheld] = "absent"
        \/ mtask[mheld] = "RUNNING" /\ mtask'[mheld] \notin {"RUNNING", "QUEUED", "absent"}
    <3>1. CASE mtask[mheld] = "absent" /\ mtask' = mtask
      BY <3>1
    <3>2. ASSUME mtask[mheld] = "RUNNING",
                 NEW x \in MemTerminal \cup {"WAITING_ADMIN"},
                 mtask' = [mtask EXCEPT ![mheld] = x]
          PROVE  mtask'[mheld] \notin {"RUNNING", "QUEUED", "absent"}
      BY <1>t, <2>1, <3>2 DEF MemTerminal
    <3> QED
      BY <1>3, <3>1, <3>2 DEF MemFinish
  <2>4. \A u \in MemIds : mtask'[u] # "RUNNING"
    BY <2>2, <2>3 DEF MemInv
  <2>5. RunningOrdinary' = {} /\ QueuedOrdinary' = QueuedOrdinary
    BY <1>t, <2>2, <2>3, <2>4 DEF RunningOrdinary, QueuedOrdinary
  <2>6. MemWaiting' = MemWaiting
    BY <2>1, <2>5 DEF MemWaiting
  <2>7. MemInv'
    <3>1. \A u \in MemIds : mtask'[u] = "absent" => ~Contains(mfifo', u)
      BY <2>1, <2>2, <2>3 DEF MemInv
    <3> QED
      BY <2>1, <2>4, <2>5, <3>1 DEF MemInv
  <2>8. CASE mheld \in RunningOrdinary
    <3>1. RunningOrdinary' = RunningOrdinary \ {mheld}
      BY <1>t, <2>5 DEF RunningOrdinary, MemInv
    <3> QED
      BY <2>1, <2>6, <2>7, <2>8, <3>1, MemFinishes
  <2>9. CASE mheld \notin RunningOrdinary
    <3>1. RunningOrdinary' = RunningOrdinary
      BY <1>t, <2>5, <2>9 DEF RunningOrdinary, MemInv
    <3> QED
      BY <2>1, <2>6, <2>7, <3>1, MemStutters DEF MemLeased
  <2> QED
    BY <2>8, <2>9
<1>4. CASE MemRestart
  <2>1. PICK r \in MemIds : mtask[r] = "RUNNING"
    BY <1>4 DEF MemRestart
  <2>2. \A u \in MemIds : mtask[u] = "RUNNING" => u = r
    BY <2>1 DEF MemInv
  <2>3. /\ mfifo' = mfifo /\ mlease' = mlease
        /\ mtask'[r] = "QUEUED"
        /\ \A u \in MemIds : u # r => mtask'[u] = mtask[u] /\ mtask[u] # "RUNNING"
    BY <1>4, <2>1, <2>2 DEF MemRestart
  <2>4. RunningOrdinary' = {}
    BY <1>t, <2>3 DEF RunningOrdinary
  <2>i. ASSUME \A u \in QueuedOrdinary' : Contains(mfifo', u) PROVE MemInv'
    <3>1. \A u \in MemIds : mtask'[u] = "absent" => ~Contains(mfifo', u)
      BY <2>3 DEF MemInv
    <3>2. \A u \in MemIds : mtask'[u] # "RUNNING"
      BY <2>3
    <3> QED
      BY <2>i, <2>3, <2>4, <3>1, <3>2 DEF MemInv
  <2>5. CASE r \in MemSymbols
    <3>1. QueuedOrdinary' = QueuedOrdinary \cup {r} /\ RunningOrdinary = {r}
      BY <1>t, <2>1, <2>2, <2>3, <2>5 DEF QueuedOrdinary, RunningOrdinary
    <3>2. MemWaiting' = <<r>> \o MemWaiting
      <4>1. Keep(mfifo, QueuedOrdinary \cup {r}) = <<r>> \o MemWaiting
        BY <3>1 DEF MemInv
      <4> QED
        BY <2>3, <3>1, <4>1 DEF MemWaiting
    <3>3. MemInv'
      BY <2>i, <2>3, <3>1 DEF MemInv
    <3> QED
      BY <2>3, <2>4, <3>1, <3>2, <3>3, MemRecovers
  <2>6. CASE r \notin MemSymbols
    <3>1. QueuedOrdinary' = QueuedOrdinary /\ RunningOrdinary' = RunningOrdinary
      BY <1>t, <2>3, <2>4, <2>6 DEF QueuedOrdinary, RunningOrdinary
    <3>2. MemWaiting' = MemWaiting
      BY <2>3, <3>1 DEF MemWaiting
    <3>3. MemInv'
      BY <2>i, <2>3, <3>1 DEF MemInv
    <3> QED
      BY <2>3, <3>1, <3>2, <3>3, MemStutters DEF MemLeased
  <2> QED
    BY <2>5, <2>6
<1>5. ASSUME mtask' = mtask, mfifo' = mfifo, mheld' = mheld,
             MemLeased' => RunningOrdinary = {}
      PROVE  /\ MemInv'
             /\ MemWaiting' = MemWaiting /\ RunningOrdinary' = RunningOrdinary
  BY <1>s, <1>5 DEF MemInv
<1>6. ASSUME NEW o \in MemOwners, MemAcquire(o)
      PROVE  MemInv' /\ MemQueue!QNext
  <2>1. RunningOrdinary = {}
    BY <1>6, <1>t DEF MemAcquire, MemBusy, RunningOrdinary
  <2>2. ~MemLeased /\ MemLeased'
    <3>1. mlease' \in MemLease
      BY <1>6 DEF MemAcquire, MemLease
    <3>2. mlease' # MemNone
      BY <1>6, <3>1 DEF MemAcquire, MemTypeOK, MemLease
    <3> QED
      BY <1>6, <3>2 DEF MemAcquire, MemLeased
  <2>3. /\ MemInv'
        /\ MemWaiting' = MemWaiting /\ RunningOrdinary' = RunningOrdinary
    BY <1>5, <1>6, <2>1 DEF MemAcquire
  <2> QED
    BY <2>1, <2>2, <2>3, MemFreezes
<1>7. CASE MemExpire
  <2>1. MemLeased /\ ~MemLeased'
    BY <1>7 DEF MemExpire, MemLeased
  <2>2. /\ MemInv'
        /\ MemWaiting' = MemWaiting /\ RunningOrdinary' = RunningOrdinary
    BY <1>5, <1>7, <2>1 DEF MemExpire
  <2> QED
    BY <2>1, <2>2, MemFreezes
(* An acceptance task enters the list.                                      *)
<1>8. ASSUME NEW t \in MemAcceptances,
             \/ mtask[t] = "absent" /\ mfifo' = Append(mfifo, t)
             \/ mfifo' = Append(Keep(mfifo, MemIds \ {t}), t),
             mtask' = [mtask EXCEPT ![t] = "QUEUED"], mheld' = mheld,
             MemLeased, MemLeased'
      PROVE  MemInv' /\ UNCHANGED MemQueue!qvars
  <2>1. t \in MemIds /\ t \notin MemSymbols
    BY <1>t
  <2>2. /\ IsInjective(mfifo')
        /\ \A y : Contains(mfifo', y) <=> (Contains(mfifo, y) \/ y = t)
        /\ \A S : t \notin S => Keep(mfifo', S) = Keep(mfifo, S)
    <3>1. CASE mtask[t] = "absent" /\ mfifo' = Append(mfifo, t)
      BY <1>t, <2>1, <3>1, DistinctAppend, ContainsAppend, KeepAppend DEF MemInv
    <3>2. CASE mfifo' = Append(Keep(mfifo, MemIds \ {t}), t)
      <4>1. IsInjective(mfifo)
        BY DEF MemInv
      <4>2. PICK R : R = MemIds \ {t}
        OBVIOUS
      <4>3. mfifo' = Append(Keep(mfifo, R), t)
        BY <3>2, <4>2
      <4> QED
        BY SMTT(30), <1>t, <2>1, <4>1, <4>2, <4>3, MovedToEnd
    <3> QED
      BY <1>8, <3>1, <3>2
  <2>3. mtask'[t] = "QUEUED" /\ \A u \in MemIds : u # t => mtask'[u] = mtask[u]
    BY <1>8, <1>t, <2>1
  <2>4. /\ MemInv'
        /\ MemWaiting' = MemWaiting /\ RunningOrdinary' = RunningOrdinary
    <3>1. \A u \in MemSymbols : mtask'[u] = mtask[u]
      BY <1>t, <2>1, <2>3
    <3>2. \A S : S \subseteq MemSymbols => Keep(mfifo', S) = Keep(mfifo, S)
      BY <2>1, <2>2
    <3>3. \A u \in MemIds : mtask'[u] = "absent" => ~Contains(mfifo', u)
      BY <2>2, <2>3 DEF MemInv
    <3>4. \A u \in MemIds : mtask'[u] = "RUNNING" => u = mheld'
      BY <1>8, <2>3 DEF MemInv
    <3>5. RunningOrdinary = {}
      BY <1>8 DEF MemInv
    <3> QED
      BY <1>s, <2>2, <3>1, <3>2, <3>3, <3>4, <3>5
  <2> QED
    BY <1>8, <2>4, MemStutters
<1>9. ASSUME NEW o \in MemOwners, NEW t \in MemAcceptances, MemBind(o, t)
      PROVE  MemInv' /\ UNCHANGED MemQueue!qvars
  <2>1. MemLeased /\ MemLeased'
    <3>1. mlease' \in MemLease
      BY <1>9 DEF MemBind, MemTypeOK, MemLease, MemLeased
    <3>2. mlease'.bound = t /\ mlease.bound = MemNone
      BY <1>9 DEF MemBind, MemTypeOK, MemLease, MemLeased
    <3>3. mlease' # mlease /\ t # MemNone
      BY <3>2
    <3>4. mlease' # MemNone
      BY <3>1, <1>9, <3>3 DEF MemBind, MemTypeOK, MemLeased
    <3> QED
      BY <1>9, <3>4 DEF MemBind, MemLeased
  <2> QED
    BY <1>8, <1>9, <2>1 DEF MemBind
<1>10. ASSUME NEW o \in MemOwners, MemRebind(o)
       PROVE  MemInv' /\ UNCHANGED MemQueue!qvars
  <2>1. PICK t \in MemAcceptances : t = mlease.bound
    BY <1>10, <1>l DEF MemRebind, MemLeased
  <2>2. MemLeased /\ MemLeased'
    BY <1>10 DEF MemRebind, MemLeased
  <2> QED
    BY <1>8, <1>10, <2>1, <2>2 DEF MemRebind, ToTail
(* Acceptance tasks are dropped.                                            *)
<1>11. ASSUME NEW gone \in SUBSET MemAcceptances, Dropped(gone), mheld' = mheld,
              MemLeased' => MemLeased
       PROVE  /\ MemInv'
              /\ MemWaiting' = MemWaiting /\ RunningOrdinary' = RunningOrdinary
  <2>1. /\ mfifo' = Keep(mfifo, MemIds \ gone)
        /\ \A u \in MemIds : mtask'[u] = IF u \in gone THEN "absent" ELSE mtask[u]
    BY <1>11 DEF Dropped
  <2>2. \A y : Contains(mfifo', y) <=> Contains(mfifo, y) /\ y \in MemIds \ gone
    BY <1>t, <2>1, KeepContains
  <2>3. IsInjective(mfifo')
    BY <1>t, <2>1, KeepDistinct DEF MemInv
  <2>4. \A u \in MemSymbols : u \in MemIds /\ u \notin gone
    BY <1>t, <1>11
  <2>5. \A S : S \subseteq MemSymbols => Keep(mfifo', S) = Keep(mfifo, S)
    <3> SUFFICES ASSUME NEW S, S \subseteq MemSymbols PROVE Keep(mfifo', S) = Keep(mfifo, S)
      OBVIOUS
    <3>1. (MemIds \ gone) \cap S = S
      BY <2>4
    <3> QED
      BY <1>t, <2>1, <3>1, KeepKeep
  <2>6. \A u \in MemSymbols : mtask'[u] = mtask[u]
    BY <2>1, <2>4
  <2>7. \A u \in MemIds : mtask'[u] = "absent" => ~Contains(mfifo', u)
    BY <2>1, <2>2 DEF MemInv
  <2>8. \A u \in MemIds : mtask'[u] = "RUNNING" => u = mheld'
    BY <1>11, <2>1 DEF MemInv
  <2>9. \A y \in MemSymbols : Contains(mfifo, y) => Contains(mfifo', y)
    BY <2>2, <2>4
  <2>10. MemLeased' => RunningOrdinary = {}
    BY <1>11 DEF MemInv
  <2> QED
    BY <1>s, <2>3, <2>5, <2>6, <2>7, <2>8, <2>9, <2>10
<1>12. ASSUME NEW o \in MemOwners, MemRelease(o)
       PROVE  MemInv' /\ MemQueue!QNext
  <2>1. MemLeased /\ ~MemLeased'
    BY <1>12 DEF MemRelease, MemLeased
  <2>2. PICK gone \in SUBSET MemAcceptances : gone = {mlease.bound} \ {MemNone}
    BY <1>l, <2>1 DEF MemLeased
  <2>3. /\ MemInv'
        /\ MemWaiting' = MemWaiting /\ RunningOrdinary' = RunningOrdinary
    BY <1>11, <1>12, <2>1, <2>2 DEF MemRelease
  <2> QED
    BY <2>1, <2>3, MemFreezes
<1>13. CASE MemCleanup
  <2>1. PICK gone \in SUBSET MemAcceptances :
          gone = {t \in MemAcceptances : mtask[t] # "absent"} \ {MemBound}
    OBVIOUS
  <2>2. Dropped(gone) /\ mheld' = mheld /\ mlease' = mlease
    BY <1>13, <2>1 DEF MemCleanup
  <2>3. /\ MemInv'
        /\ MemWaiting' = MemWaiting /\ RunningOrdinary' = RunningOrdinary
    BY <1>11, <2>2 DEF MemLeased
  <2> QED
    BY <2>2, <2>3, MemStutters DEF MemLeased
<1>14. CASE UNCHANGED mvars
  <2>1. mtask' = mtask /\ mfifo' = mfifo /\ mheld' = mheld /\ mlease' = mlease
    BY <1>14 DEF mvars
  <2>2. /\ MemInv'
        /\ MemWaiting' = MemWaiting /\ RunningOrdinary' = RunningOrdinary
    BY <1>5, <2>1 DEF MemLeased, MemInv
  <2> QED
    BY <2>1, <2>2, MemStutters DEF MemLeased
<1> QED
  BY <1>1, <1>2, <1>3, <1>4, <1>6, <1>7, <1>9, <1>10, <1>12, <1>13, <1>14 DEF MemNext

(* The development store keeps the promise of FifoQueue: ordinary tasks     *)
(* start in the order they were queued, an interrupted one comes first      *)
(* again, and none starts while a deployment holds the queue.               *)
THEOREM MemoryStoreKeepsOrder == MemSpec => MemKeepsOrder
<1>1. MemInit => MemInv /\ MemQueue!QInit
  <2> SUFFICES ASSUME MemInit PROVE MemInv /\ MemQueue!QInit
    OBVIOUS
  <2>1. /\ mfifo = <<>> /\ mlease = MemNone
        /\ \A t \in MemIds : mtask[t] = "absent"
    BY DEF MemInit
  <2>2. QueuedOrdinary = {} /\ RunningOrdinary = {}
    BY <2>1 DEF QueuedOrdinary, RunningOrdinary, MemIds
  <2>3. MemWaiting = <<>>
    BY <2>1, KeepEmpty DEF MemWaiting
  <2>4. Len(<<>>) = 0 /\ DOMAIN <<>> = {}
    OBVIOUS
  <2>5. IsInjective(mfifo) /\ \A t : ~Contains(mfifo, t)
    BY <2>1, <2>4 DEF IsInjective, Contains
  <2>6. MemInv
    BY <2>1, <2>2, <2>5 DEF MemInv, MemLeased
  <2>7. MemLeased \in BOOLEAN
    BY DEF MemLeased
  <2> QED
    BY <2>2, <2>3, <2>6, <2>7 DEF MemQueue!QInit, RunningOrdinary
<1>2. MemTypeOK /\ MemTypeOK' /\ MemInv /\ [MemNext]_mvars =>
        MemInv' /\ [MemQueue!QNext]_(MemQueue!qvars)
  BY MemStep
<1> QED
  BY <1>1, <1>2, MemTyping, PTL DEF MemSpec, MemKeepsOrder, MemQueue!QSpec

-----------------------------------------------------------------------------
(* ResearchPush.                                                            *)

(* What is known of the claims: an event nobody claimed was not sent, and   *)
(* the event a poll is about to send is claimed, unsent, and its alone.     *)
ClaimInv ==
  /\ \A k \in RsKeys : rsent[k] = 0 \/ (k \in rclaims /\ rsent[k] = 1)
  /\ \A p \in RsPollers : rpoll[p].step = "claimed" =>
       /\ rpoll[p].key \in rclaims
       /\ rsent[rpoll[p].key] = 0
       /\ \A q \in RsPollers :
            rpoll[q].step = "claimed" /\ rpoll[q].key = rpoll[p].key => q = p

(* The tables, the claims and the polls keep their types.                   *)
LEMMA PushTyping == RsSpec => []RsTypeOK
<1>1. RsInit => RsTypeOK
  BY RsAssumption DEF RsInit, RsTypeOK, RsValues, RsCalls
<1>2. RsTypeOK /\ [RsNext]_rsvars => RsTypeOK'
  <2> SUFFICES ASSUME RsTypeOK, [RsNext]_rsvars PROVE RsTypeOK'
    OBVIOUS
  <2>i. RsIdle \in RsCalls
    BY DEF RsCalls
  <2>g. ASSUME NEW p \in RsPollers, NEW call \in RsCalls, Goes(p, call)
        PROVE  rpoll' \in [RsPollers -> RsCalls]
    BY <2>g DEF Goes, RsTypeOK
  <2>a. ASSUME NEW todo \in SUBSET MarkerKeys, NEW ch \in BOOLEAN
        PROVE  After(todo, ch) \in RsCalls
    BY <2>a DEF After, RsCalls
  <2>c. ASSUME NEW k \in RsKeys, NEW todo \in SUBSET MarkerKeys, NEW ch \in BOOLEAN
        PROVE  [step |-> "claimed", key |-> k, todo |-> todo, channel |-> ch] \in RsCalls
    BY DEF RsCalls
  <2>t. \A p \in RsPollers :
          /\ rpoll[p] \in RsCalls
          /\ rpoll[p].step = "refreshed" => rpoll[p].snap \in [RsMinutes -> RsValues]
          /\ rpoll[p].step = "push" =>
               rpoll[p].todo \in SUBSET MarkerKeys /\ rpoll[p].channel \in BOOLEAN
          /\ rpoll[p].step = "claimed" =>
               /\ rpoll[p].key \in RsKeys
               /\ rpoll[p].todo \in SUBSET MarkerKeys /\ rpoll[p].channel \in BOOLEAN
    BY DEF RsTypeOK, RsCalls, RsIdle
  <2>1. CASE SourceMoves \/ SlotMoves \/ SavePushConfig
    BY <2>1 DEF SourceMoves, SlotMoves, SavePushConfig, RsTypeOK, RsValues
  <2>2. CASE RsRestart
    BY <2>2, <2>i DEF RsRestart, RsTypeOK
  <2>3. ASSUME NEW p \in RsPollers, NEW push \in BOOLEAN, Refresh(p, push)
        PROVE  RsTypeOK'
    <3>1. [step |-> "refreshed", push |-> push, snap |-> rsource] \in RsCalls
      BY DEF RsCalls, RsTypeOK
    <3> QED
      BY <2>3, <2>g, <3>1 DEF Refresh, RsTypeOK
  <2>4. ASSUME NEW p \in RsPollers, RecordSnapshot(p) PROVE RsTypeOK'
    <3> DEFINE snap == rpoll[p].snap
    <3>1. rrow' = Stored(snap) /\ rrow' \in [RsMinutes -> RsValues]
      BY <2>4, <2>t DEF RecordSnapshot, Stored, RsTypeOK
    <3>2. Changed(snap) \subseteq RsMinutes
      BY DEF Changed
    <3>3. [step |-> "changed", minutes |-> Changed(snap)] \in RsCalls
      BY <3>2 DEF RsCalls
    <3>4. \E call \in RsCalls : Goes(p, call)
      BY <2>4, <2>i, <3>3 DEF RecordSnapshot
    <3> QED
      BY <2>4, <2>g, <3>1, <3>4 DEF RecordSnapshot, RsTypeOK
  <2>5. ASSUME NEW p \in RsPollers, BuildMarkers(p) PROVE RsTypeOK'
    <3> DEFINE todo == {k \in Markers : k[1] \in rpoll[p].minutes}
    <3>1. todo \in SUBSET MarkerKeys
      BY DEF Markers, MarkerKeys, RsTypeOK
    <3>2. After(todo, rchannel) \in RsCalls
      BY <2>a, <3>1 DEF RsTypeOK
    <3> QED
      BY <2>5, <2>g, <3>2 DEF BuildMarkers, RsTypeOK
  <2>6. ASSUME NEW p \in RsPollers, ClaimMarker(p) PROVE RsTypeOK'
    <3>1. PICK k \in rpoll[p].todo :
            /\ Goes(p, IF Claims(k)
                  THEN [step |-> "claimed", key |-> k, todo |-> rpoll[p].todo \ {k},
                        channel |-> rpoll[p].channel]
                  ELSE After(rpoll[p].todo \ {k}, rpoll[p].channel))
            /\ rclaims' = rclaims \cup {k}
      BY <2>6 DEF ClaimMarker
    <3>2. k \in RsKeys /\ rpoll[p].todo \ {k} \in SUBSET MarkerKeys
          /\ rpoll[p].channel \in BOOLEAN
      BY <2>6, <2>t DEF ClaimMarker, RsKeys
    <3>3. \E call \in RsCalls : Goes(p, call)
      BY <2>a, <2>c, <3>1, <3>2
    <3> QED
      BY <2>6, <2>g, <3>1, <3>2, <3>3 DEF ClaimMarker, RsTypeOK
  <2>7. ASSUME NEW p \in RsPollers, SendPush(p) PROVE RsTypeOK'
    <3>1. /\ rpoll[p].key \in RsKeys /\ rpoll[p].todo \in SUBSET MarkerKeys
          /\ rpoll[p].channel \in BOOLEAN
      BY <2>7, <2>t DEF SendPush
    <3>2. \E call \in RsCalls : Goes(p, call)
      BY <2>7, <2>a, <2>i, <3>1 DEF SendPush
    <3>3. rsent[rpoll[p].key] \in 0 .. 2
      BY <3>1 DEF RsTypeOK
    <3>4. Min({2, rsent[rpoll[p].key] + 1}) \in 0 .. 2
      BY <3>3, MinOfTwo
    <3>5. rsent' \in [RsKeys -> 0 .. 2]
      BY <2>7, <3>3, <3>4 DEF SendPush, RsTypeOK
    <3> QED
      BY <2>7, <2>g, <3>2, <3>5 DEF SendPush, RsTypeOK
  <2>8. ASSUME NEW p \in RsPollers, FetchPremium(p) PROVE RsTypeOK'
    <3>1. [step |-> "premium"] \in RsCalls
      BY DEF RsCalls
    <3> QED
      BY <2>8, <2>g, <3>1 DEF FetchPremium, RsTypeOK
  <2>9. ASSUME NEW p \in RsPollers, ClaimPremium(p) PROVE RsTypeOK'
    <3>1. CASE rslot = RsNone
      BY <2>9, <2>g, <2>i, <3>1 DEF ClaimPremium, RsTypeOK
    <3>2. CASE rslot # RsNone
      <4>1. rslot \in RsKeys
        BY <3>2 DEF RsTypeOK, RsKeys
      <4>2. \E call \in RsCalls : Goes(p, call)
        BY <2>9, <2>c, <2>i, <3>2, <4>1 DEF ClaimPremium, RsTypeOK
      <4> QED
        BY <2>9, <2>g, <3>2, <4>1, <4>2 DEF ClaimPremium, RsTypeOK
    <3> QED
      BY <3>1, <3>2
  <2>10. CASE UNCHANGED rsvars
    BY <2>10 DEF rsvars, RsTypeOK
  <2> QED
    BY <2>1, <2>2, <2>3, <2>4, <2>5, <2>6, <2>7, <2>8, <2>9, <2>10 DEF RsNext
<1> QED
  BY <1>1, <1>2, PTL DEF RsSpec

(* research_service sends no event twice: a poll sends only the event it    *)
(* claimed, no other poll claims it afterwards, and a restart in between    *)
(* loses the push and never repeats it.                                     *)
THEOREM NoEventTwice == RsSpec => []PushedOnce
<1>1. RsInit => ClaimInv
  BY DEF RsInit, ClaimInv, RsIdle
<1>2. RsTypeOK /\ RsTypeOK' /\ ClaimInv /\ [RsNext]_rsvars => ClaimInv'
  <2> SUFFICES ASSUME RsTypeOK, RsTypeOK', ClaimInv, [RsNext]_rsvars PROVE ClaimInv'
    OBVIOUS
  (* A step that takes a poll to a position where it claims nothing, and    *)
  (* leaves the claims or adds one.                                         *)
  <2>g. ASSUME NEW p \in RsPollers, NEW call, Goes(p, call), call.step # "claimed",
               rclaims \subseteq rclaims', rsent' = rsent
        PROVE  ClaimInv'
    BY <2>g DEF Goes, RsTypeOK, ClaimInv
  (* One that claims a key no one had claimed.                              *)
  <2>c. ASSUME NEW p \in RsPollers, NEW call, Goes(p, call), call.step = "claimed",
               call.key \in RsKeys \ rclaims, rclaims' = rclaims \cup {call.key},
               rsent' = rsent
        PROVE  ClaimInv'
    BY <2>c DEF Goes, RsTypeOK, ClaimInv
  <2>a. ASSUME NEW todo, NEW ch PROVE After(todo, ch).step # "claimed"
    BY DEF After, RsIdle
  <2>i. RsIdle.step # "claimed"
    BY DEF RsIdle
  <2>1. CASE SourceMoves \/ SlotMoves \/ SavePushConfig
    BY <2>1 DEF SourceMoves, SlotMoves, SavePushConfig, ClaimInv
  <2>2. CASE RsRestart
    BY <2>2, <2>i DEF RsRestart, ClaimInv
  <2>3. ASSUME NEW p \in RsPollers, NEW push \in BOOLEAN, Refresh(p, push)
        PROVE  ClaimInv'
    BY <2>3, <2>g DEF Refresh
  <2>4. ASSUME NEW p \in RsPollers, RecordSnapshot(p) PROVE ClaimInv'
    <3>1. \E call : Goes(p, call) /\ call.step # "claimed"
      BY <2>4, <2>i DEF RecordSnapshot
    <3> QED
      BY <2>4, <2>g, <3>1 DEF RecordSnapshot
  <2>5. ASSUME NEW p \in RsPollers, BuildMarkers(p) PROVE ClaimInv'
    BY <2>5, <2>g, <2>a DEF BuildMarkers
  <2>6. ASSUME NEW p \in RsPollers, ClaimMarker(p) PROVE ClaimInv'
    <3>1. PICK k \in rpoll[p].todo :
            /\ Goes(p, IF Claims(k)
                  THEN [step |-> "claimed", key |-> k, todo |-> rpoll[p].todo \ {k},
                        channel |-> rpoll[p].channel]
                  ELSE After(rpoll[p].todo \ {k}, rpoll[p].channel))
            /\ rclaims' = rclaims \cup {k}
            /\ rsent' = rsent
      BY <2>6 DEF ClaimMarker
    <3>2. k \in RsKeys
      BY <3>1 DEF RsTypeOK
    <3>3. CASE Claims(k)
      BY <2>c, <3>1, <3>2, <3>3 DEF Claims
    <3>4. CASE ~Claims(k)
      BY <2>g, <2>a, <3>1, <3>4
    <3> QED
      BY <3>3, <3>4
  <2>7. ASSUME NEW p \in RsPollers, SendPush(p) PROVE ClaimInv'
    <3> DEFINE k == rpoll[p].key
    <3>1. k \in RsKeys /\ k \in rclaims /\ rsent[k] = 0
      BY <2>7 DEF SendPush, ClaimInv, RsTypeOK, RsCalls, RsIdle
    <3>2. Min({2, 0 + 1}) = 1
      BY MinOfTwo
    <3>3. rsent'[k] \in {0, 1} /\ \A l \in RsKeys : l # k => rsent'[l] = rsent[l]
      BY <2>7, <3>1, <3>2 DEF SendPush, RsTypeOK
    <3>4. rpoll'[p].step # "claimed" /\ \A q \in RsPollers : q # p => rpoll'[q] = rpoll[q]
      BY <2>7, <2>a, <2>i DEF SendPush, Goes, RsTypeOK
    <3>5. rclaims' = rclaims /\ rpoll[p].step = "claimed"
      BY <2>7 DEF SendPush
    <3>6. \A q \in RsPollers : rpoll'[q].step = "claimed" =>
            /\ rpoll'[q] = rpoll[q] /\ q # p /\ rpoll[q].key # k
            /\ rpoll[q].key \in RsKeys
      BY <3>4, <3>5 DEF ClaimInv, RsTypeOK, RsCalls, RsIdle
    <3> QED
      BY <3>1, <3>3, <3>4, <3>5, <3>6 DEF ClaimInv
  <2>8. ASSUME NEW p \in RsPollers, FetchPremium(p) PROVE ClaimInv'
    BY <2>8, <2>g DEF FetchPremium
  <2>9. ASSUME NEW p \in RsPollers, ClaimPremium(p) PROVE ClaimInv'
    <3>1. CASE rslot = RsNone
      BY <2>9, <2>g, <2>i, <3>1 DEF ClaimPremium
    <3>2. CASE rslot # RsNone /\ Claims(rslot)
      BY <2>9, <2>c, <3>2 DEF ClaimPremium, Claims, RsTypeOK, RsKeys
    <3>3. CASE rslot # RsNone /\ ~Claims(rslot)
      BY <2>9, <2>g, <2>i, <3>3 DEF ClaimPremium
    <3> QED
      BY <3>1, <3>2, <3>3
  <2>10. CASE UNCHANGED rsvars
    BY <2>10 DEF rsvars, ClaimInv
  <2> QED
    BY <2>1, <2>2, <2>3, <2>4, <2>5, <2>6, <2>7, <2>8, <2>9, <2>10 DEF RsNext
<1>3. RsTypeOK /\ ClaimInv => PushedOnce
  BY DEF ClaimInv, PushedOnce, RsTypeOK
<1> QED
  BY <1>1, <1>2, <1>3, PushTyping, PTL DEF RsSpec

-----------------------------------------------------------------------------
(* MarketUsers.                                                             *)

(* The plan of a request: a change of the account is followed at once by a  *)
(* revocation, a session is created last and never by an administrator's    *)
(* request, and an attempt to log in is one call at a time.                 *)
Creates(calls) == \E i \in 1 .. Len(calls) : calls[i] = "create"
Owes(calls) ==
  \A i \in 1 .. Len(calls) :
    /\ calls[i] \in {"change", "reset", "disable"} =>
         i < Len(calls) /\ calls[i + 1] = "revoke"
    /\ calls[i] = "create" => i = Len(calls)
    /\ calls[i] \in {"reset", "disable"} => ~Creates(calls)
    /\ calls[i] \in {"verify", "fail"} => i = 1

(* Requests that will create a session for an earlier password or an        *)
(* earlier stay of the user.                                                *)
StaleJobs(u) ==
  {h \in MuHandlers : /\ mjob[h].user = u /\ Creates(mjob[h].calls)
                      /\ mjob[h].known # muser[u].era}

(* Some thread creates no earlier session, for it is the one that changed   *)
(* the account last or has begun since; and unless a revocation is to come  *)
(* or got lost, the earlier sessions that are stored and those that are     *)
(* still to be created are fewer than the threads.                          *)
FewEarlier(u) ==
  /\ StaleJobs(u) # MuHandlers
  /\ \/ Revoking(u) \/ mlost[u]
     \/ Cardinality(EarlierSessions(u)) + Cardinality(StaleJobs(u))
          < Cardinality(MuHandlers)

UserInv ==
  /\ \A h \in MuHandlers : Owes(mjob[h].calls)
  /\ \A t \in MuTokens : mlive[t] # MuNone => t \in mindex[mlive[t].user]
  /\ \A u \in MuUsers : FewEarlier(u)

(* What is left of a request after its first call.                          *)
LEMMA TailOwes ==
  ASSUME NEW calls \in Seq(MuCalls), calls # <<>>, Owes(calls)
  PROVE  /\ Tail(calls) \in Seq(MuCalls) /\ Owes(Tail(calls))
         /\ Head(calls) \in {"change", "reset", "disable"} =>
              Tail(calls) # <<>> /\ Head(Tail(calls)) = "revoke"
         /\ Head(calls) \in {"reset", "disable"} => ~Creates(calls)
         /\ Head(calls) = "create" => Creates(calls) /\ Tail(calls) = <<>>
         /\ Creates(Tail(calls)) => Creates(calls)
         /\ Tail(calls) # <<>> => Head(Tail(calls)) \notin {"verify", "fail"}
<1>1. /\ Tail(calls) \in Seq(MuCalls) /\ Len(Tail(calls)) = Len(calls) - 1
      /\ \A i \in 1 .. Len(calls) - 1 : Tail(calls)[i] = calls[i + 1]
      /\ Len(calls) \in Nat \ {0} /\ Head(calls) = calls[1]
      /\ Len(calls) = 1 => Tail(calls) = <<>>
      /\ Tail(calls) # <<>> => Head(Tail(calls)) = calls[2] /\ Len(calls) > 1
      /\ Len(calls) > 1 => Tail(calls) # <<>>
  <2>1. /\ Tail(calls) \in Seq(MuCalls) /\ Len(Tail(calls)) = Len(calls) - 1
        /\ \A i \in 1 .. Len(calls) - 1 : Tail(calls)[i] = calls[i + 1]
        /\ Len(calls) \in Nat \ {0} /\ Head(calls) = calls[1]
    OBVIOUS
  <2>2. Tail(calls) = <<>> <=> Len(Tail(calls)) = 0
    BY <2>1, EmptySeq
  <2>3. Tail(calls) # <<>> => Len(calls) > 1
    BY <2>1, <2>2
  <2>4. Len(calls) > 1 => 1 \in 1 .. Len(calls) - 1
    BY <2>1
  <2>5. Tail(calls) # <<>> => Head(Tail(calls)) = Tail(calls)[1]
    BY <2>1
  <2>6. Len(calls) > 1 => Tail(calls)[1] = calls[2]
    BY <2>1, <2>4
  <2> QED
    BY <2>1, <2>2, <2>3, <2>5, <2>6
<1>2. Creates(Tail(calls)) => Creates(calls)
  <2>1. \A i \in 1 .. Len(calls) - 1 : i + 1 \in 1 .. Len(calls)
    BY <1>1
  <2> QED
    BY <1>1, <2>1 DEF Creates
<1>3. Owes(Tail(calls))
  <2> SUFFICES ASSUME NEW i \in 1 .. Len(Tail(calls))
               PROVE  /\ Tail(calls)[i] \in {"change", "reset", "disable"} =>
                           i < Len(Tail(calls)) /\ Tail(calls)[i + 1] = "revoke"
                      /\ Tail(calls)[i] = "create" => i = Len(Tail(calls))
                      /\ Tail(calls)[i] \in {"reset", "disable"} =>
                           ~Creates(Tail(calls))
                      /\ Tail(calls)[i] \in {"verify", "fail"} => i = 1
    BY DEF Owes
  <2> DEFINE n == Len(calls)
             j == i + 1
  <2>0. /\ i \in 1 .. n - 1 /\ n \in Nat /\ j \in 1 .. n /\ j # 1
        /\ j < n => i < Len(Tail(calls)) /\ j \in 1 .. n - 1
        /\ j = n => i = Len(Tail(calls))
    <3>1. Len(Tail(calls)) = n - 1 /\ n \in Nat
      BY <1>1
    <3> HIDE DEF n
    <3> QED
      BY <3>1
  <2>1. Tail(calls)[i] = calls[j] /\ (j < n => Tail(calls)[j] = calls[j + 1])
    BY <1>1, <2>0
  <2>2. /\ calls[j] \in {"change", "reset", "disable"} =>
             j < n /\ calls[j + 1] = "revoke"
        /\ calls[j] = "create" => j = n
        /\ calls[j] \in {"reset", "disable"} => ~Creates(calls)
        /\ calls[j] \in {"verify", "fail"} => j = 1
    BY <2>0 DEF Owes
  <2> HIDE DEF n
  <2>3. /\ Tail(calls)[i] \in {"change", "reset", "disable"} =>
             i < Len(Tail(calls)) /\ Tail(calls)[j] = "revoke"
    BY <2>0, <2>1, <2>2
  <2>4. Tail(calls)[i] = "create" => i = Len(Tail(calls))
    BY <2>0, <2>1, <2>2
  <2>5. Tail(calls)[i] \notin {"verify", "fail"}
    BY <2>0, <2>1, <2>2
  <2>6. Tail(calls)[i] \in {"reset", "disable"} => ~Creates(Tail(calls))
    BY <1>2, <2>1, <2>2
  <2> QED
    BY <2>3, <2>4, <2>5, <2>6
<1>4. 1 \in 1 .. Len(calls)
  BY <1>1
<1>5. Head(calls) = "create" => Creates(calls) /\ Tail(calls) = <<>>
  BY <1>1, <1>4 DEF Owes, Creates
<1>6. Tail(calls) # <<>> => Head(Tail(calls)) \notin {"verify", "fail"}
  <2>1. Tail(calls) # <<>> => 2 \in 1 .. Len(calls)
    BY <1>1
  <2>2. Tail(calls) # <<>> => calls[2] \notin {"verify", "fail"}
    BY <2>1 DEF Owes
  <2> QED
    BY <1>1, <2>2
<1>7. Head(calls) \in {"change", "reset", "disable"} =>
        Tail(calls) # <<>> /\ Head(Tail(calls)) = "revoke"
  <2>1. calls[1] \in {"change", "reset", "disable"} =>
          1 < Len(calls) /\ calls[1 + 1] = "revoke"
    BY <1>4 DEF Owes
  <2>2. 1 + 1 = 2
    OBVIOUS
  <2> QED
    BY <1>1, <2>1, <2>2
<1>8. Head(calls) \in {"reset", "disable"} => ~Creates(calls)
  BY <1>1, <1>4 DEF Owes
<1> QED
  BY <1>1, <1>2, <1>3, <1>5, <1>6, <1>7, <1>8

(* Lists of one, two and three calls.                                       *)
LEMMA ShortLists ==
  ASSUME NEW S, NEW x \in S, NEW y \in S, NEW z \in S
  PROVE  /\ <<x>> \in Seq(S) /\ Len(<<x>>) = 1 /\ <<x>>[1] = x
         /\ <<x, y>> \in Seq(S) /\ Len(<<x, y>>) = 2
         /\ <<x, y>>[1] = x /\ <<x, y>>[2] = y
         /\ <<x, y, z>> \in Seq(S) /\ Len(<<x, y, z>>) = 3
         /\ <<x, y, z>>[1] = x /\ <<x, y, z>>[2] = y /\ <<x, y, z>>[3] = z
OBVIOUS

(* Two plans of an administrator in a row are one.                          *)
Patches(calls) ==
  /\ calls \in Seq(MuCalls) /\ Owes(calls)
  /\ \A i \in 1 .. Len(calls) :
       calls[i] \in {"reset", "revoke", "disable", "enable"}

LEMMA PlansJoin ==
  ASSUME NEW a, NEW b, Patches(a), Patches(b)
  PROVE  Patches(a \o b)
<1> DEFINE c == a \o b
<1>1. /\ c \in Seq(MuCalls) /\ Len(c) = Len(a) + Len(b)
      /\ \A i \in 1 .. Len(a) : c[i] = a[i]
      /\ \A i \in 1 .. Len(b) : c[Len(a) + i] = b[i]
      /\ Len(a) \in Nat /\ Len(b) \in Nat
  BY DEF Patches
<1> HIDE DEF c
<1>2. ASSUME NEW i \in 1 .. Len(c)
      PROVE  /\ c[i] \in {"reset", "revoke", "disable", "enable"}
             /\ c[i] \in {"reset", "disable"} => i < Len(c) /\ c[i + 1] = "revoke"
  <2>1. CASE i \in 1 .. Len(a)
    <3>1. a[i] \in {"reset", "revoke", "disable", "enable"}
      BY <2>1 DEF Patches
    <3>2. a[i] \in {"reset", "disable"} => i < Len(a) /\ a[i + 1] = "revoke"
      BY <2>1 DEF Patches, Owes
    <3>3. i < Len(a) => c[i + 1] = a[i + 1] /\ i < Len(c)
      BY <1>1, <2>1
    <3> QED
      BY <1>1, <2>1, <3>1, <3>2, <3>3
  <2>2. CASE i \notin 1 .. Len(a)
    <3>1. PICK j \in 1 .. Len(b) : i = Len(a) + j
      <4>1. i - Len(a) \in 1 .. Len(b) /\ i = Len(a) + (i - Len(a))
        BY <1>1, <2>2
      <4> QED
        BY <4>1
    <3>2. b[j] \in {"reset", "revoke", "disable", "enable"}
      BY DEF Patches
    <3>3. b[j] \in {"reset", "disable"} => j < Len(b) /\ b[j + 1] = "revoke"
      BY DEF Patches, Owes
    <3>4. j < Len(b) => c[i + 1] = b[j + 1] /\ i < Len(c)
      <4>1. i + 1 = Len(a) + (j + 1)
        BY <1>1, <3>1
      <4>2. j < Len(b) => j + 1 \in 1 .. Len(b)
        BY <1>1
      <4>3. j < Len(b) => i < Len(c)
        BY <1>1, <3>1
      <4> QED
        BY <1>1, <4>1, <4>2, <4>3
    <3>5. c[i] = b[j]
      BY <1>1, <3>1
    <3> QED
      BY <3>2, <3>3, <3>4, <3>5
  <2> QED
    BY <2>1, <2>2
<1>3. ~Creates(c)
  BY <1>2 DEF Creates
<1>4. Owes(c)
  BY <1>2, <1>3 DEF Owes
<1> QED
  BY <1>1, <1>2, <1>4 DEF c, Patches

(* The plans of a request owe nothing when it begins.                       *)
LEMMA PlansOwe ==
  /\ <<>> \in Seq(MuCalls) /\ Owes(<<>>) /\ ~Creates(<<>>)
  /\ \A c \in {"verify", "fail"} :
       /\ <<c>> \in Seq(MuCalls) /\ Owes(<<c>>) /\ ~Creates(<<c>>)
       /\ Head(<<c>>) = c /\ <<c>> # <<>>
  /\ <<"clear", "create">> \in Seq(MuCalls) /\ Owes(<<"clear", "create">>)
  /\ Head(<<"clear", "create">>) = "clear"
  /\ PasswordCalls \in Seq(MuCalls) /\ Owes(PasswordCalls)
  /\ Head(PasswordCalls) = "change"
  /\ \A r \in BOOLEAN, e \in {"keep", "on", "off"} : Patches(PatchCalls(r, e))
<1>1. <<>> \in Seq(MuCalls) /\ Owes(<<>>) /\ ~Creates(<<>>) /\ Len(<<>>) = 0
  BY DEF Owes, Creates
<1>2. ASSUME NEW c \in {"verify", "fail"}
      PROVE  /\ <<c>> \in Seq(MuCalls) /\ Owes(<<c>>) /\ ~Creates(<<c>>)
             /\ Head(<<c>>) = c /\ <<c>> # <<>>
  <2>1. <<c>> \in Seq(MuCalls) /\ Len(<<c>>) = 1 /\ <<c>>[1] = c
    BY ShortLists DEF MuCalls
  <2>2. \A i \in 1 .. 1 : i = 1
    OBVIOUS
  <2> QED
    BY <2>1, <2>2 DEF Owes, Creates
<1>3. /\ <<"clear", "create">> \in Seq(MuCalls) /\ Owes(<<"clear", "create">>)
      /\ Head(<<"clear", "create">>) = "clear"
  <2> DEFINE c == <<"clear", "create">>
  <2>1. c \in Seq(MuCalls) /\ Len(c) = 2 /\ c[1] = "clear" /\ c[2] = "create"
    BY ShortLists DEF MuCalls
  <2> HIDE DEF c
  <2>2. \A i \in 1 .. 2 : i = 1 \/ i = 2
    OBVIOUS
  <2>3. Owes(c)
    BY <2>1, <2>2 DEF Owes
  <2> QED
    BY <2>1, <2>3 DEF c
<1>4. /\ PasswordCalls \in Seq(MuCalls) /\ Owes(PasswordCalls)
      /\ Head(PasswordCalls) = "change"
  <2>1. /\ PasswordCalls \in Seq(MuCalls) /\ Len(PasswordCalls) = 3
        /\ PasswordCalls[1] = "change" /\ PasswordCalls[2] = "revoke"
        /\ PasswordCalls[3] = "create"
    BY ShortLists DEF MuCalls, PasswordCalls
  <2>2. \A i \in 1 .. 3 : i = 1 \/ i = 2 \/ i = 3
    OBVIOUS
  <2>3. 2 \in 1 .. 3 /\ 1 < 3 /\ 1 + 1 = 2
    OBVIOUS
  <2> QED
    BY <2>1, <2>2, <2>3 DEF Owes
<1>5. ASSUME NEW x \in {"reset", "disable"} PROVE Patches(<<x, "revoke">>)
  <2> DEFINE c == <<x, "revoke">>
  <2>1. c \in Seq(MuCalls) /\ Len(c) = 2 /\ c[1] = x /\ c[2] = "revoke"
    BY ShortLists DEF MuCalls
  <2> HIDE DEF c
  <2>2. \A i \in 1 .. 2 : i = 1 \/ i = 2
    OBVIOUS
  <2>3. 1 < 2 /\ 1 + 1 = 2
    OBVIOUS
  <2>4. ~Creates(c)
    BY <2>1, <2>2 DEF Creates
  <2>5. Patches(c)
    BY <2>1, <2>2, <2>3, <2>4 DEF Owes, Patches
  <2> QED
    BY <2>5 DEF c
<1>6. Patches(<<"enable">>)
  <2>1. <<"enable">> \in Seq(MuCalls) /\ Len(<<"enable">>) = 1 /\ <<"enable">>[1] = "enable"
    BY ShortLists DEF MuCalls
  <2>2. \A i \in 1 .. 1 : i = 1
    OBVIOUS
  <2> QED
    BY <2>1, <2>2 DEF Owes, Patches
<1>7. ASSUME NEW r \in BOOLEAN, NEW e \in {"keep", "on", "off"}
      PROVE  Patches(PatchCalls(r, e))
  <2> DEFINE a == IF r THEN <<"reset", "revoke">> ELSE <<>>
             b == CASE e = "keep" -> <<>>
                    [] e = "on" -> <<"enable">>
                    [] e = "off" -> <<"disable", "revoke">>
  <2>0. Patches(<<>>)
    BY <1>1 DEF Patches
  <2>1. Patches(a)
    BY <2>0, <1>5
  <2>2. Patches(b)
    <3>1. CASE e = "keep"
      BY <2>0, <3>1
    <3>2. CASE e = "on"
      BY <1>6, <3>2
    <3>3. CASE e = "off"
      BY <1>5, <3>3
    <3> QED
      BY <3>1, <3>2, <3>3
  <2>3. PatchCalls(r, e) = a \o b
    BY DEF PatchCalls
  <2> HIDE DEF a, b
  <2> QED
    BY <2>1, <2>2, <2>3, PlansJoin
<1> QED
  BY <1>1, <1>2, <1>3, <1>4, <1>7

(* What a thread does next.                                                 *)
LEMMA JobGoes ==
  ASSUME MuTypeOK, NEW h \in MuHandlers, NEW u \in MuUsers, NEW era \in MuEra,
         NEW calls \in Seq(MuCalls), MuGoes(h, u, era, calls)
  PROVE  /\ mjob' \in [MuHandlers -> MuJob]
         /\ mjob'[h].calls = calls
         /\ calls # <<>> => mjob'[h].user = u /\ mjob'[h].known = era
         /\ \A g \in MuHandlers \ {h} : mjob'[g] = mjob[g]
<1> DEFINE job == IF calls = <<>> THEN MuIdle
                  ELSE [user |-> u, known |-> era, calls |-> calls]
<1>1. MuIdle \in MuJob /\ MuIdle.calls = <<>>
  <2>1. (CHOOSE v \in MuUsers : TRUE) \in MuUsers
    BY MuAssumption
  <2>2. [pass |-> 0, off |-> 0] \in MuEra
    BY MuAssumption DEF MuEra
  <2> QED
    BY <2>1, <2>2, PlansOwe DEF MuIdle, MuJob
<1>2. /\ job \in MuJob /\ job.calls = calls
      /\ calls # <<>> => job.user = u /\ job.known = era
  BY <1>1 DEF MuJob
<1>3. mjob' = [mjob EXCEPT ![h] = job]
  BY DEF MuGoes
<1> HIDE DEF job
<1> QED
  BY <1>2, <1>3 DEF MuTypeOK

(* What a thread is doing.                                                  *)
LEMMA JobIs ==
  ASSUME MuTypeOK, NEW h \in MuHandlers
  PROVE  /\ mjob[h].user \in MuUsers /\ mjob[h].known \in MuEra
         /\ mjob[h].calls \in Seq(MuCalls)
         /\ muser[mjob[h].user].era \in MuEra
         /\ mjob[h].calls # <<>> => Tail(mjob[h].calls) \in Seq(MuCalls)
BY DEF MuTypeOK, MuJob, MuUser

(* The users, the sessions and the calls of the requests keep their         *)
(* types.                                                                   *)
LEMMA UserTyping == MuSpec => []MuTypeOK
<1> USE MuAssumption
<1>0. MuIdle \in MuJob
  <2>1. (CHOOSE v \in MuUsers : TRUE) \in MuUsers
    OBVIOUS
  <2>2. [pass |-> 0, off |-> 0] \in MuEra
    BY DEF MuEra
  <2> QED
    BY <2>1, <2>2, PlansOwe DEF MuIdle, MuJob
<1>1. MuInit => MuTypeOK
  BY <1>0 DEF MuInit, MuTypeOK, MuUser, MuEra
<1>2. MuTypeOK /\ [MuNext]_muvars => MuTypeOK'
  <2> SUFFICES ASSUME MuTypeOK, [MuNext]_muvars PROVE MuTypeOK'
    OBVIOUS
  <2>s. ASSUME NEW h \in MuHandlers, NEW u \in MuUsers, NEW c \in Seq(MuCalls),
               Serves(h, u, c)
        PROVE  mjob' \in [MuHandlers -> MuJob]
    <3>1. muser[u].era \in MuEra
      BY DEF MuTypeOK, MuUser
    <3> QED
      BY <2>s, <3>1, JobGoes DEF Serves
  <2>r. ASSUME NEW h \in MuHandlers,
               Ended(h) \/ (Returned(h) /\ mjob[h].calls # <<>>)
        PROVE  mjob' \in [MuHandlers -> MuJob]
    BY <2>r, JobIs, JobGoes, PlansOwe DEF Returned, Ended
  <2>f. ASSUME NEW t \in MuTokens, mlive[t] # MuNone, ForgetSession(t)
        PROVE  mlive' \in [MuTokens -> MuSession \cup {MuNone}]
               /\ mindex' \in [MuUsers -> SUBSET MuTokens]
    BY <2>f DEF ForgetSession, MuTypeOK
  <2>1. ASSUME NEW u \in MuUsers, MuMinutePasses(u) PROVE MuTypeOK'
    <3>1. mfails' \in [MuUsers -> Nat]
      BY <2>1 DEF MuMinutePasses, MuTypeOK
    <3> QED
      BY <2>1, <3>1 DEF MuMinutePasses, MuTypeOK
  <2>2. ASSUME NEW t \in MuTokens, MuRefused(t) \/ MuLogout(t) PROVE MuTypeOK'
    BY <2>2, <2>f DEF MuRefused, MuLogout, MuAdmitted, MuTypeOK
  <2>3. ASSUME NEW t \in MuTokens, MuExpire(t) PROVE MuTypeOK'
    BY <2>3 DEF MuExpire, MuTypeOK
  <2>4. ASSUME NEW h \in MuHandlers, RevokeUser(h) PROVE MuTypeOK'
    <3>1. mlive' \in [MuTokens -> MuSession \cup {MuNone}]
      BY <2>4 DEF RevokeUser, MuTypeOK
    <3>2. mindex' \in [MuUsers -> SUBSET MuTokens] /\ mlost' \in [MuUsers -> BOOLEAN]
      BY <2>4 DEF RevokeUser, MuTypeOK
    <3> QED
      BY <2>4, <2>r, <3>1, <3>2 DEF RevokeUser, Calling, MuTypeOK
  <2>5. ASSUME NEW h \in MuHandlers, NEW c \in {"change", "reset", "disable", "enable"},
               AccountCall(h, c)
        PROVE  MuTypeOK'
    <3> DEFINE u == mjob[h].user
    <3>1. u \in MuUsers /\ mjob[h].calls # <<>>
      BY <2>5, JobIs DEF AccountCall, Calling
    <3>2. muser[u] \in MuUser /\ muser[u].era \in MuEra
      BY <3>1 DEF MuTypeOK, MuUser
    <3>3. muser[u].era.pass < MuMaxChanges => NewPassword(u) \in MuEra
      BY <3>2 DEF NewPassword, MuEra
    <3>4. muser[u].era.off < MuMaxChanges => NewAbsence(u) \in MuEra
      BY <3>2 DEF NewAbsence, MuEra
    <3>5. \A era \in MuEra, b \in BOOLEAN :
            /\ [muser[u] EXCEPT !.era = era, !.must = b] \in MuUser
            /\ [muser[u] EXCEPT !.era = era, !.enabled = b] \in MuUser
      BY <3>2 DEF MuUser
    <3>6. ASSUME NEW row \in MuUser
          PROVE  [muser EXCEPT ![u] = row] \in [MuUsers -> MuUser]
      BY <3>1 DEF MuTypeOK
    <3>7. [muser[u] EXCEPT !.enabled = TRUE] \in MuUser
      BY <3>2 DEF MuUser
    <3> HIDE DEF u
    <3>8. muser' \in [MuUsers -> MuUser] /\ mjob' \in [MuHandlers -> MuJob]
      <4>1. CASE c = "change"
        <5>1. Change(h, u)
          BY <2>5, <4>1 DEF AccountCall, u
        <5>2. CASE Ended(h) /\ UNCHANGED muser
          BY <2>r, <5>2 DEF MuTypeOK
        <5>3. CASE /\ muser[u].era.pass < MuMaxChanges
                   /\ muser' = [muser EXCEPT ![u] =
                        [muser[u] EXCEPT !.era = NewPassword(u), !.must = FALSE]]
                   /\ MuGoes(h, u, NewPassword(u), Tail(mjob[h].calls))
          <6>1. [muser[u] EXCEPT !.era = NewPassword(u), !.must = FALSE] \in MuUser
            BY <3>3, <3>5, <5>3
          <6>2. muser' \in [MuUsers -> MuUser]
            BY <3>6, <5>3, <6>1
          <6>3. mjob' \in [MuHandlers -> MuJob]
            BY <3>1, <3>3, <5>3, JobIs, JobGoes
          <6> QED
            BY <6>2, <6>3
        <5> QED
          BY <5>1, <5>2, <5>3 DEF Change
      <4>2. CASE c = "reset"
        <5>1. Reset(h, u)
          BY <2>5, <4>2 DEF AccountCall, u
        <5>2. [muser[u] EXCEPT !.era = NewPassword(u), !.must = TRUE] \in MuUser
          BY <3>3, <3>5, <5>1 DEF Reset
        <5> QED
          BY <2>r, <3>1, <3>6, <5>1, <5>2 DEF Reset
      <4>3. CASE c = "disable"
        <5>1. Disable(h, u)
          BY <2>5, <4>3 DEF AccountCall, u
        <5>2. [muser[u] EXCEPT !.era = NewAbsence(u), !.enabled = FALSE] \in MuUser
          BY <3>4, <3>5, <5>1 DEF Disable
        <5> QED
          BY <2>r, <3>1, <3>6, <5>1, <5>2 DEF Disable
      <4>4. CASE c = "enable"
        <5>1. Enable(h, u)
          BY <2>5, <4>4 DEF AccountCall, u
        <5>2. muser' = [muser EXCEPT ![u] = [muser[u] EXCEPT !.enabled = TRUE]]
          BY <5>1, <3>1 DEF Enable, MuTypeOK
        <5> QED
          BY <2>r, <3>1, <3>6, <3>7, <5>1, <5>2 DEF Enable
      <4> QED
        BY <4>1, <4>2, <4>3, <4>4
    <3> QED
      BY <2>5, <3>8 DEF AccountCall, MuTypeOK
  <2>6. ASSUME NEW h \in MuHandlers, NEW t \in MuTokens, CreateSession(h, t)
        PROVE  MuTypeOK'
    <3> DEFINE u == mjob[h].user
    <3>1. [user |-> u, born |-> mjob[h].known] \in MuSession /\ u \in MuUsers
      BY JobIs DEF MuSession
    <3>3. mlive' \in [MuTokens -> MuSession \cup {MuNone}]
      BY <2>6, <3>1 DEF CreateSession, MuTypeOK
    <3>4. mindex' \in [MuUsers -> SUBSET MuTokens]
      BY <2>6, <3>1 DEF CreateSession, MuTypeOK
    <3> QED
      BY <2>6, <2>r, <3>3, <3>4 DEF CreateSession, Calling, MuTypeOK
  <2>7. ASSUME NEW h \in MuHandlers, NEW t \in MuTokens, MuChangePassword(h, t)
        PROVE  MuTypeOK'
    <3>1. mlive[t].user \in MuUsers
      BY <2>7 DEF MuChangePassword, MuAdmitted, MuTypeOK, MuSession
    <3> QED
      BY <2>7, <2>s, <3>1, PlansOwe DEF MuChangePassword, MuTypeOK
  <2>8. ASSUME NEW h \in MuHandlers, NEW u \in MuUsers, MuLogin(h, u) PROVE MuTypeOK'
    <3>1. mjob' \in [MuHandlers -> MuJob]
      BY <2>8, <2>s, PlansOwe DEF MuLogin
    <3> QED
      BY <2>8, <3>1 DEF MuLogin, MuTypeOK
  <2>9. ASSUME NEW h \in MuHandlers, NEW u \in MuUsers, NEW r \in BOOLEAN,
               NEW e \in {"keep", "on", "off"}, MuPatch(h, u, r, e)
        PROVE  MuTypeOK'
    BY <2>9, <2>s, PlansOwe DEF MuPatch, Patches, MuTypeOK
  <2>10. ASSUME NEW h \in MuHandlers, MuVerify(h) PROVE MuTypeOK'
    <3>1. mjob' \in [MuHandlers -> MuJob]
      BY <2>10, JobIs, JobGoes, PlansOwe DEF MuVerify
    <3> QED
      BY <2>10, <3>1 DEF MuVerify, MuTypeOK
  <2>11. ASSUME NEW h \in MuHandlers, CountFailure(h) \/ ForgetFailures(h)
         PROVE  MuTypeOK'
    <3>1. mfails' \in [MuUsers -> Nat]
      BY <2>11 DEF CountFailure, ForgetFailures, MuTypeOK
    <3> QED
      BY <2>11, <2>r, <3>1 DEF CountFailure, ForgetFailures, Calling, MuTypeOK
  <2>12. ASSUME NEW h \in MuHandlers, CallFails(h) PROVE MuTypeOK'
    <3>1. mlost' \in [MuUsers -> BOOLEAN]
      BY <2>12 DEF CallFails, MuTypeOK, Calling
    <3> QED
      BY <2>12, <2>r, <3>1 DEF CallFails, MuTypeOK
  <2>13. CASE MuRestart
    <3>1. mlost' \in [MuUsers -> BOOLEAN]
      BY <2>13 DEF MuRestart, MuTypeOK, Revoking
    <3> QED
      BY <2>13, <1>0, <3>1 DEF MuRestart, MuTypeOK
  <2>14. CASE UNCHANGED muvars
    BY <2>14 DEF muvars, MuTypeOK
  <2> QED
    BY <2>1, <2>2, <2>3, <2>4, <2>5, <2>6, <2>7, <2>8, <2>9, <2>10, <2>11, <2>12,
       <2>13, <2>14 DEF MuNext
<1> QED
  BY <1>1, <1>2, PTL DEF MuSpec

(* A step of a request of one thread: what it still has to call is owed,    *)
(* what it will create is earlier only if it was before, and unless it was  *)
(* about to revoke, a revocation to come is still to come.                  *)
LEMMA JobStep ==
  ASSUME MuTypeOK, UserInv, NEW h \in MuHandlers, NEW u \in MuUsers,
         NEW era \in MuEra, NEW calls \in Seq(MuCalls), Owes(calls),
         MuGoes(h, u, era, calls), NEW v \in MuUsers,
         Creates(calls) /\ u = v =>
           \/ era = muser'[v].era
           \/ /\ mjob[h].user = v /\ mjob[h].known = era
              /\ Creates(mjob[h].calls)
  PROVE  /\ \A g \in MuHandlers : Owes(mjob'[g].calls)
         /\ muser'[v].era = muser[v].era => StaleJobs(v)' \subseteq StaleJobs(v)
         /\ mjob[h].user # v \/ ~Calling(h, "revoke") =>
              (Revoking(v) => Revoking(v)')
<1>1. /\ mjob'[h].calls = calls
      /\ calls # <<>> => mjob'[h].user = u /\ mjob'[h].known = era
      /\ \A g \in MuHandlers \ {h} : mjob'[g] = mjob[g]
  BY JobGoes
<1>2. Creates(calls) => calls # <<>>
  BY PlansOwe
<1>3. \A g \in MuHandlers : Owes(mjob'[g].calls)
  BY <1>1 DEF UserInv
<1>4. ASSUME muser'[v].era = muser[v].era, NEW g \in StaleJobs(v)'
      PROVE  g \in StaleJobs(v)
  <2>1. CASE g = h
    BY <1>1, <1>2, <1>4, <2>1 DEF StaleJobs
  <2>2. CASE g # h
    BY <1>1, <1>4, <2>2 DEF StaleJobs
  <2> QED
    BY <2>1, <2>2
<1>5. ASSUME mjob[h].user # v \/ ~Calling(h, "revoke"), Revoking(v)
      PROVE  Revoking(v)'
  <2>1. PICK g \in MuHandlers : mjob[g].user = v /\ Calling(g, "revoke")
    BY <1>5 DEF Revoking
  <2>2. mjob'[g] = mjob[g]
    BY <1>1, <1>5, <2>1
  <2> QED
    BY <2>1, <2>2 DEF Revoking, Calling
<1> QED
  BY <1>3, <1>4, <1>5

(* The sets that are counted are finite.                                    *)
LEMMA UserCounts ==
  ASSUME NEW u
  PROVE  /\ IsFiniteSet(MuHandlers) /\ Cardinality(MuHandlers) \in Nat
         /\ StaleJobs(u) \subseteq MuHandlers /\ IsFiniteSet(StaleJobs(u))
         /\ Cardinality(StaleJobs(u)) \in Nat
         /\ IsFiniteSet(EarlierSessions(u)) /\ Cardinality(EarlierSessions(u)) \in Nat
         /\ StaleJobs(u)' \subseteq MuHandlers /\ IsFiniteSet(StaleJobs(u)')
         /\ Cardinality(StaleJobs(u)') \in Nat
         /\ IsFiniteSet(EarlierSessions(u)') /\ Cardinality(EarlierSessions(u)') \in Nat
<1>1. /\ StaleJobs(u) \subseteq MuHandlers /\ StaleJobs(u)' \subseteq MuHandlers
      /\ EarlierSessions(u) \subseteq MuTokens /\ EarlierSessions(u)' \subseteq MuTokens
  BY DEF StaleJobs, EarlierSessions
<1>2. IsFiniteSet(MuHandlers) /\ IsFiniteSet(MuTokens)
  BY MuAssumption
<1>3. /\ IsFiniteSet(StaleJobs(u)) /\ IsFiniteSet(StaleJobs(u)')
      /\ IsFiniteSet(EarlierSessions(u)) /\ IsFiniteSet(EarlierSessions(u)')
  BY <1>1, <1>2, FS_Subset
<1> QED
  BY <1>1, <1>2, <1>3, FS_CardinalityType

(* Where nothing more is earlier or will be.                                *)
LEMMA FewKept ==
  ASSUME UserInv, NEW u \in MuUsers,
         EarlierSessions(u)' \subseteq EarlierSessions(u),
         StaleJobs(u)' \subseteq StaleJobs(u),
         Revoking(u) \/ mlost[u] => Revoking(u)' \/ mlost'[u]
  PROVE  FewEarlier(u)'
<1>1. /\ Cardinality(EarlierSessions(u)') <= Cardinality(EarlierSessions(u))
      /\ Cardinality(StaleJobs(u)') <= Cardinality(StaleJobs(u))
  BY UserCounts, FS_Subset
<1>2. FewEarlier(u)
  BY DEF UserInv
<1>3. StaleJobs(u)' # MuHandlers
  BY <1>2, UserCounts DEF FewEarlier
<1>4. Cardinality(EarlierSessions(u)) + Cardinality(StaleJobs(u)) < Cardinality(MuHandlers)
        => Cardinality(EarlierSessions(u)') + Cardinality(StaleJobs(u)')
             < Cardinality(MuHandlers)
  BY <1>1, UserCounts
<1> QED
  BY <1>2, <1>3, <1>4 DEF FewEarlier

LEMMA UserStarts == MuInit => UserInv
<1> SUFFICES ASSUME MuInit PROVE UserInv
  OBVIOUS
<1>1. \A h \in MuHandlers : mjob[h].calls = <<>>
  BY DEF MuInit, MuIdle
<1>2. \A h \in MuHandlers : Owes(mjob[h].calls) /\ ~Creates(mjob[h].calls)
  BY <1>1, PlansOwe
<1>3. ASSUME NEW u \in MuUsers PROVE FewEarlier(u)
  <2>1. StaleJobs(u) = {}
    BY <1>2 DEF StaleJobs
  <2>2. EarlierSessions(u) = {}
    BY DEF MuInit, EarlierSessions
  <2>3. Cardinality(MuHandlers) # 0 /\ StaleJobs(u) # MuHandlers
    BY <2>1, UserCounts, MuAssumption, FS_EmptySet
  <2>4. Cardinality(StaleJobs(u)) = 0 /\ Cardinality(EarlierSessions(u)) = 0
    BY <2>1, <2>2, FS_EmptySet
  <2>5. Cardinality(MuHandlers) \in Nat
    BY UserCounts
  <2>6. Cardinality(EarlierSessions(u)) + Cardinality(StaleJobs(u)) < Cardinality(MuHandlers)
    BY <2>3, <2>4, <2>5
  <2> QED
    BY <2>3, <2>6 DEF FewEarlier
<1> QED
  BY <1>2, <1>3 DEF MuInit, UserInv

(* A thread goes on, and accounts, sessions and revocations stay.           *)
LEMMA RequestStep ==
  ASSUME MuTypeOK, UserInv, NEW h \in MuHandlers, NEW u \in MuUsers,
         NEW era \in MuEra, NEW calls \in Seq(MuCalls), Owes(calls),
         MuGoes(h, u, era, calls), UNCHANGED <<mlive, mindex, mlost>>,
         \A v \in MuUsers : muser'[v].era = muser[v].era,
         ~Calling(h, "revoke"),
         Creates(calls) =>
           \/ era = muser[u].era
           \/ /\ mjob[h].user = u /\ mjob[h].known = era
              /\ Creates(mjob[h].calls)
  PROVE  UserInv'
<1>1. ASSUME NEW v \in MuUsers PROVE FewEarlier(v)'
  <2>1. StaleJobs(v)' \subseteq StaleJobs(v) /\ (Revoking(v) => Revoking(v)')
    BY JobStep
  <2>2. EarlierSessions(v)' = EarlierSessions(v)
    BY DEF EarlierSessions
  <2> QED
    BY <2>1, <2>2, FewKept
<1>2. \A g \in MuHandlers : Owes(mjob'[g].calls)
  BY JobStep
<1> QED
  BY <1>1, <1>2 DEF UserInv

(* An account is changed: its revocation comes next, and the thread that    *)
(* will call it creates nothing earlier.                                    *)
LEMMA AccountStep ==
  ASSUME MuTypeOK, UserInv, NEW h \in MuHandlers,
         NEW c \in {"change", "reset", "disable"}, Calling(h, c), NEW era \in MuEra,
         MuGoes(h, mjob[h].user, era, Tail(mjob[h].calls)),
         UNCHANGED <<mlive, mindex, mlost>>,
         \A v \in MuUsers \ {mjob[h].user} : muser'[v].era = muser[v].era,
         c = "change" => era = muser'[mjob[h].user].era
  PROVE  UserInv'
<1> DEFINE u == mjob[h].user
           old == mjob[h].calls
           calls == Tail(old)
<1>1. /\ u \in MuUsers /\ old \in Seq(MuCalls) /\ old # <<>> /\ Head(old) = c
      /\ Owes(old)
  BY JobIs DEF Calling, UserInv
<1>2. /\ calls \in Seq(MuCalls) /\ Owes(calls) /\ calls # <<>>
      /\ Head(calls) = "revoke"
      /\ c # "change" => ~Creates(calls)
  BY <1>1, TailOwes
<1>3. MuGoes(h, u, era, calls) /\ (c = "change" => era = muser'[u].era)
  OBVIOUS
<1>4. ~Calling(h, "revoke")
  BY DEF Calling
<1>5. \A v \in MuUsers \ {u} : muser'[v].era = muser[v].era
  OBVIOUS
<1> HIDE DEF u, old, calls
<1>6. Creates(calls) => era = muser'[u].era
  BY <1>2, <1>3
<1>7. ASSUME NEW v \in MuUsers PROVE FewEarlier(v)'
  <2>1. CASE v # u
    <3>1. StaleJobs(v)' \subseteq StaleJobs(v) /\ (Revoking(v) => Revoking(v)')
      BY <1>1, <1>2, <1>3, <1>4, <1>5, <2>1, JobStep
    <3>2. EarlierSessions(v)' = EarlierSessions(v)
      BY <1>5, <2>1 DEF EarlierSessions
    <3> QED
      BY <3>1, <3>2, FewKept
  <2>2. CASE v = u
    <3>1. mjob'[h].calls = calls /\ mjob'[h].user = u /\ mjob'[h].known = era
      BY <1>1, <1>2, <1>3, JobGoes
    <3>2. h \notin StaleJobs(v)'
      BY <1>6, <2>2, <3>1 DEF StaleJobs
    <3>3. Revoking(v)'
      BY <1>2, <2>2, <3>1 DEF Revoking, Calling
    <3> QED
      BY <3>2, <3>3 DEF FewEarlier
  <2> QED
    BY <2>1, <2>2
<1>8. \A g \in MuHandlers : Owes(mjob'[g].calls)
  BY <1>1, <1>2, <1>3, <1>6, JobStep
<1> QED
  BY <1>7, <1>8 DEF UserInv

(* The sessions of a user are revoked: none of them is left, and the        *)
(* requests that will create an earlier one are not all of the threads.     *)
LEMMA RevokeStep ==
  ASSUME MuTypeOK, UserInv, NEW h \in MuHandlers, RevokeUser(h)
  PROVE  UserInv'
<1> DEFINE u == mjob[h].user
           era == mjob[h].known
           old == mjob[h].calls
           calls == Tail(old)
<1>1. /\ u \in MuUsers /\ era \in MuEra /\ old \in Seq(MuCalls)
      /\ old # <<>> /\ Owes(old)
  BY JobIs DEF RevokeUser, Calling, UserInv
<1>2. /\ calls \in Seq(MuCalls) /\ Owes(calls)
      /\ Creates(calls) => Creates(old)
  BY <1>1, TailOwes
<1>3. MuGoes(h, u, era, calls) /\ muser' = muser
  BY DEF RevokeUser, Returned
<1>4. \A v \in MuUsers :
        /\ StaleJobs(v)' \subseteq StaleJobs(v)
        /\ v # u => (Revoking(v) => Revoking(v)')
        /\ \A g \in MuHandlers : Owes(mjob'[g].calls)
  <2> SUFFICES ASSUME NEW v \in MuUsers
               PROVE  /\ StaleJobs(v)' \subseteq StaleJobs(v)
                      /\ v # u => (Revoking(v) => Revoking(v)')
                      /\ \A g \in MuHandlers : Owes(mjob'[g].calls)
    OBVIOUS
  <2>1. Creates(calls) /\ u = v =>
          /\ mjob[h].user = v /\ mjob[h].known = era
          /\ Creates(mjob[h].calls)
    BY <1>2
  <2>2. muser'[v].era = muser[v].era
    BY <1>3
  <2>3. mjob[h].user = u
    OBVIOUS
  <2> HIDE DEF u, era, old, calls
  <2>4. /\ \A g \in MuHandlers : Owes(mjob'[g].calls)
        /\ muser'[v].era = muser[v].era => StaleJobs(v)' \subseteq StaleJobs(v)
        /\ mjob[h].user # v \/ ~Calling(h, "revoke") =>
             (Revoking(v) => Revoking(v)')
    BY <1>1, <1>2, <1>3, <2>1, JobStep
  <2> QED
    BY <2>2, <2>3, <2>4
<1>5. /\ \A t \in MuTokens : mlive'[t] = IF t \in mindex[u] THEN MuNone ELSE mlive[t]
      /\ \A v \in MuUsers : mindex'[v] = IF v = u THEN {} ELSE mindex[v]
      /\ \A v \in MuUsers \ {u} : mlost'[v] = mlost[v]
  BY DEF RevokeUser, MuTypeOK
<1>6. ASSUME NEW t \in MuTokens, mlive'[t] # MuNone
      PROVE  /\ mlive'[t] = mlive[t] /\ mlive[t].user # u
             /\ t \in mindex'[mlive'[t].user]
  <2>1. mlive'[t] = mlive[t] /\ t \notin mindex[u]
    BY <1>5, <1>6
  <2>2. mlive[t].user \in MuUsers /\ t \in mindex[mlive[t].user]
    BY <1>6, <2>1 DEF MuTypeOK, MuSession, UserInv
  <2> QED
    BY <1>5, <2>1, <2>2
<1> HIDE DEF u, era, old, calls
<1>7. ASSUME NEW v \in MuUsers PROVE FewEarlier(v)'
  <2>1. EarlierSessions(v)' \subseteq EarlierSessions(v)
    BY <1>3, <1>6 DEF EarlierSessions
  <2>2. CASE v # u
    BY <1>4, <1>5, <2>1, <2>2, FewKept
  <2>3. CASE v = u
    <3>1. EarlierSessions(v)' = {}
      BY <1>6, <2>3 DEF EarlierSessions
    <3>2. StaleJobs(v) # MuHandlers
      BY DEF UserInv, FewEarlier
    <3>3. StaleJobs(v)' # MuHandlers
      BY <1>4, <3>2, UserCounts
    <3>4. Cardinality(StaleJobs(v)') < Cardinality(MuHandlers)
      <4>1. Cardinality(StaleJobs(v)') <= Cardinality(MuHandlers)
        BY UserCounts, FS_Subset
      <4>2. Cardinality(StaleJobs(v)') # Cardinality(MuHandlers)
        BY <3>3, UserCounts, FS_Subset
      <4> QED
        BY <4>1, <4>2, UserCounts
    <3>5. Cardinality(EarlierSessions(v)') = 0
      BY <3>1, FS_EmptySet
    <3>6. Cardinality(EarlierSessions(v)') + Cardinality(StaleJobs(v)')
            < Cardinality(MuHandlers)
      BY <3>4, <3>5, UserCounts
    <3> QED
      BY <3>3, <3>6 DEF FewEarlier
  <2> QED
    BY <2>2, <2>3
<1> QED
  BY <1>1, <1>4, <1>6, <1>7 DEF UserInv

(* A session is created: if it is an earlier one, the request that would    *)
(* create it was counted.                                                   *)
LEMMA CreateStep ==
  ASSUME MuTypeOK, UserInv, NEW h \in MuHandlers, NEW t \in MuTokens,
         CreateSession(h, t)
  PROVE  UserInv'
<1> DEFINE u == mjob[h].user
           era == mjob[h].known
           old == mjob[h].calls
<1>1. /\ u \in MuUsers /\ era \in MuEra /\ old \in Seq(MuCalls)
      /\ old # <<>> /\ Owes(old) /\ Head(old) = "create"
  BY JobIs DEF CreateSession, Calling, UserInv
<1>2. Creates(old) /\ Tail(old) = <<>>
  BY <1>1, TailOwes
<1>3. MuGoes(h, u, era, <<>>) /\ muser' = muser /\ mlost' = mlost
  BY <1>2 DEF CreateSession, Returned
<1>4. ~Calling(h, "revoke")
  BY DEF CreateSession, Calling
<1>5. \A v \in MuUsers :
        /\ StaleJobs(v)' \subseteq StaleJobs(v)
        /\ Revoking(v) => Revoking(v)'
        /\ \A g \in MuHandlers : Owes(mjob'[g].calls)
  BY <1>1, <1>3, <1>4, PlansOwe, JobStep
<1>6. h \notin StaleJobs(u)'
  <2>0. <<>> \in Seq(MuCalls)
    BY PlansOwe
  <2>1. mjob'[h].calls = <<>>
    BY <1>1, <1>3, <2>0, JobGoes
  <2> QED
    BY <2>1, PlansOwe DEF StaleJobs
<1>7. /\ mlive[t] = MuNone
      /\ mlive'[t] = [user |-> u, born |-> era]
      /\ \A s \in MuTokens \ {t} : mlive'[s] = mlive[s]
      /\ \A v \in MuUsers : mindex'[v] = IF v = u THEN mindex[u] \cup {t} ELSE mindex[v]
  BY DEF CreateSession, MuTypeOK
<1>8. \A s \in MuTokens : mlive'[s] # MuNone => s \in mindex'[mlive'[s].user]
  <2> SUFFICES ASSUME NEW s \in MuTokens, mlive'[s] # MuNone
               PROVE  s \in mindex'[mlive'[s].user]
    OBVIOUS
  <2>1. CASE s = t
    BY <1>1, <1>7, <2>1
  <2>2. CASE s # t
    <3>1. mlive[s].user \in MuUsers /\ s \in mindex[mlive[s].user]
      BY <1>7, <2>2 DEF MuTypeOK, MuSession, UserInv
    <3> QED
      BY <1>7, <2>2, <3>1
  <2> QED
    BY <2>1, <2>2
<1>9. ASSUME NEW v \in MuUsers PROVE FewEarlier(v)'
  <2>1. CASE v # u \/ era = muser[u].era
    <3>1. EarlierSessions(v)' \subseteq EarlierSessions(v)
      BY <1>3, <1>7, <2>1 DEF EarlierSessions
    <3> QED
      BY <1>3, <1>5, <3>1, FewKept
  <2>2. CASE v = u /\ era # muser[u].era
    <3>1. /\ EarlierSessions(v)' \subseteq EarlierSessions(v) \cup {t}
          /\ t \notin EarlierSessions(v)
      BY <1>3, <1>7 DEF EarlierSessions
    <3>2. h \in StaleJobs(v) /\ StaleJobs(v)' \subseteq StaleJobs(v) \ {h}
      BY <1>2, <1>5, <1>6, <2>2 DEF StaleJobs
    <3>3. Cardinality(EarlierSessions(v)') <= Cardinality(EarlierSessions(v)) + 1
      <4>1. /\ Cardinality(EarlierSessions(v) \cup {t}) = Cardinality(EarlierSessions(v)) + 1
            /\ IsFiniteSet(EarlierSessions(v) \cup {t})
        BY <3>1, UserCounts, FS_AddElement
      <4>2. Cardinality(EarlierSessions(v)') <= Cardinality(EarlierSessions(v) \cup {t})
        BY <3>1, <4>1, FS_Subset
      <4> QED
        BY <4>1, <4>2
    <3>4. /\ Cardinality(StaleJobs(v) \ {h}) = Cardinality(StaleJobs(v)) - 1
          /\ IsFiniteSet(StaleJobs(v) \ {h})
      BY <3>2, UserCounts, FS_RemoveElement
    <3>5. Cardinality(StaleJobs(v)') <= Cardinality(StaleJobs(v) \ {h})
      BY <3>2, <3>4, FS_Subset
    <3>6. FewEarlier(v) /\ StaleJobs(v)' # MuHandlers
      BY <3>2 DEF UserInv
    <3>7. Cardinality(EarlierSessions(v)) + Cardinality(StaleJobs(v)) < Cardinality(MuHandlers)
            => Cardinality(EarlierSessions(v)') + Cardinality(StaleJobs(v)')
                 < Cardinality(MuHandlers)
      BY <3>3, <3>4, <3>5, UserCounts
    <3> QED
      BY <1>3, <1>5, <3>6, <3>7 DEF FewEarlier
  <2> QED
    BY <2>1, <2>2
<1> QED
  BY <1>1, <1>5, <1>8, <1>9 DEF UserInv

(* A session ends.                                                          *)
LEMMA SessionEnds ==
  ASSUME MuTypeOK, UserInv, NEW t \in MuTokens, mlive[t] # MuNone,
         mlive' = [mlive EXCEPT ![t] = MuNone],
         \/ mindex' = mindex
         \/ mindex' = [mindex EXCEPT ![mlive[t].user] = @ \ {t}],
         UNCHANGED <<muser, mjob, mlost>>
  PROVE  UserInv'
<1>1. /\ mlive'[t] = MuNone
      /\ \A s \in MuTokens \ {t} : mlive'[s] = mlive[s]
      /\ \A v \in MuUsers : mindex[v] \ {t} \subseteq mindex'[v]
  BY DEF MuTypeOK
<1>2. \A s \in MuTokens : mlive'[s] # MuNone => s \in mindex'[mlive'[s].user]
  <2> SUFFICES ASSUME NEW s \in MuTokens, mlive'[s] # MuNone
               PROVE  s \in mindex'[mlive'[s].user]
    OBVIOUS
  <2>1. s # t /\ mlive'[s] = mlive[s]
    BY <1>1
  <2>2. mlive[s].user \in MuUsers /\ s \in mindex[mlive[s].user]
    BY <2>1 DEF MuTypeOK, MuSession, UserInv
  <2> QED
    BY <1>1, <2>1, <2>2
<1>3. ASSUME NEW v \in MuUsers PROVE FewEarlier(v)'
  <2>1. EarlierSessions(v)' \subseteq EarlierSessions(v)
    BY <1>1 DEF EarlierSessions
  <2>2. StaleJobs(v)' = StaleJobs(v) /\ (Revoking(v) => Revoking(v)')
    BY DEF StaleJobs, Revoking, Calling
  <2> QED
    BY <2>1, <2>2, FewKept
<1> QED
  BY <1>2, <1>3 DEF UserInv

(* A restart: no request is left, and a revocation that was to come is      *)
(* lost.                                                                    *)
LEMMA RestartStep ==
  ASSUME MuTypeOK, UserInv, MuRestart
  PROVE  UserInv'
<1>1. \A h \in MuHandlers : mjob'[h].calls = <<>>
  BY DEF MuRestart, MuIdle
<1>2. \A h \in MuHandlers : Owes(mjob'[h].calls) /\ ~Creates(mjob'[h].calls)
  BY <1>1, PlansOwe
<1>3. ASSUME NEW v \in MuUsers PROVE FewEarlier(v)'
  <2>1. StaleJobs(v)' = {}
    BY <1>2 DEF StaleJobs
  <2>2. EarlierSessions(v)' = EarlierSessions(v)
    BY DEF MuRestart, EarlierSessions
  <2>3. Revoking(v) \/ mlost[v] => mlost'[v]
    BY DEF MuRestart
  <2> QED
    BY <2>1, <2>2, <2>3, FewKept
<1> QED
  BY <1>2, <1>3 DEF MuRestart, UserInv

LEMMA UserStep == UserInv /\ MuTypeOK /\ [MuNext]_muvars => UserInv'
<1> SUFFICES ASSUME UserInv, MuTypeOK, [MuNext]_muvars PROVE UserInv'
  OBVIOUS
<1>i. \A h \in MuHandlers : Owes(mjob[h].calls)
  BY DEF UserInv
<1>s. ASSUME NEW h \in MuHandlers, NEW u \in MuUsers, NEW c \in Seq(MuCalls),
             Owes(c), Serves(h, u, c), UNCHANGED <<muser, mlive, mindex, mlost>>
      PROVE  UserInv'
  <2>1. muser[u].era \in MuEra /\ ~Calling(h, "revoke")
    BY <1>s DEF MuTypeOK, MuUser, Serves, Calling
  <2> QED
    BY <1>s, <2>1, RequestStep DEF Serves
<1>r. ASSUME NEW h \in MuHandlers, mjob[h].calls # <<>>, ~Calling(h, "revoke"),
             Returned(h) \/ Ended(h), UNCHANGED <<mlive, mindex, mlost>>,
             \A v \in MuUsers : muser'[v].era = muser[v].era
      PROVE  UserInv'
  <2>1. /\ mjob[h].user \in MuUsers /\ mjob[h].known \in MuEra
        /\ mjob[h].calls \in Seq(MuCalls)
    BY JobIs
  <2>2. CASE Returned(h)
    <3>1. /\ Tail(mjob[h].calls) \in Seq(MuCalls) /\ Owes(Tail(mjob[h].calls))
          /\ Creates(Tail(mjob[h].calls)) => Creates(mjob[h].calls)
      BY <1>i, <1>r, <2>1, TailOwes
    <3> QED
      BY <1>r, <2>1, <2>2, <3>1, RequestStep DEF Returned
  <2>3. CASE Ended(h)
    BY <1>r, <2>1, <2>3, PlansOwe, RequestStep DEF Ended
  <2> QED
    BY <1>r, <2>2, <2>3
<1>1. ASSUME NEW u \in MuUsers, MuMinutePasses(u) PROVE UserInv'
  BY <1>1 DEF MuMinutePasses, UserInv, FewEarlier, StaleJobs, EarlierSessions,
              Revoking, Calling
<1>2. ASSUME NEW t \in MuTokens, MuRefused(t) \/ MuLogout(t) PROVE UserInv'
  BY <1>2, SessionEnds DEF MuRefused, MuLogout, MuAdmitted, ForgetSession
<1>3. ASSUME NEW t \in MuTokens, MuExpire(t) PROVE UserInv'
  BY <1>3, SessionEnds DEF MuExpire
<1>4. ASSUME NEW h \in MuHandlers, RevokeUser(h) PROVE UserInv'
  BY <1>4, RevokeStep
<1>5. ASSUME NEW h \in MuHandlers, AccountCall(h, "change") PROVE UserInv'
  <2> DEFINE u == mjob[h].user
  <2>1. /\ u \in MuUsers /\ muser[u] \in MuUser /\ muser[u].era \in MuEra
        /\ mjob[h].calls # <<>> /\ ~Calling(h, "revoke") /\ Calling(h, "change")
    BY <1>5, JobIs DEF AccountCall, Calling, MuTypeOK
  <2>2. Change(h, u) /\ UNCHANGED <<mlive, mindex, mlost>>
    BY <1>5 DEF AccountCall
  <2>3. CASE Ended(h) /\ UNCHANGED muser
    BY <1>r, <2>1, <2>2, <2>3
  <2>4. CASE ~(Ended(h) /\ UNCHANGED muser)
    <3>1. /\ muser[u].era.pass < MuMaxChanges
          /\ muser' = [muser EXCEPT ![u] =
               [muser[u] EXCEPT !.era = NewPassword(u), !.must = FALSE]]
          /\ MuGoes(h, u, NewPassword(u), Tail(mjob[h].calls))
      BY <2>2, <2>4 DEF Change
    <3>2. NewPassword(u) \in MuEra
      BY <2>1, <3>1, MuAssumption DEF NewPassword, MuEra
    <3>3. /\ muser'[u].era = NewPassword(u)
          /\ \A v \in MuUsers \ {u} : muser'[v].era = muser[v].era
      BY <2>1, <3>1 DEF MuTypeOK, MuUser
    <3> QED
      BY <2>1, <2>2, <3>1, <3>2, <3>3, AccountStep
  <2> QED
    BY <2>3, <2>4
<1>6. ASSUME NEW h \in MuHandlers, NEW c \in {"reset", "disable"}, AccountCall(h, c)
      PROVE  UserInv'
  <2> DEFINE u == mjob[h].user
  <2>1. u \in MuUsers /\ mjob[h].known \in MuEra /\ Calling(h, c)
    BY <1>6, JobIs DEF AccountCall
  <2>2. (Reset(h, u) \/ Disable(h, u)) /\ UNCHANGED <<mlive, mindex, mlost>>
    BY <1>6 DEF AccountCall
  <2>3. \A v \in MuUsers \ {u} : muser'[v].era = muser[v].era
    BY <2>1, <2>2 DEF Reset, Disable, MuTypeOK
  <2>4. MuGoes(h, u, mjob[h].known, Tail(mjob[h].calls))
    BY <2>2 DEF Reset, Disable, Returned
  <2> QED
    BY <2>1, <2>2, <2>3, <2>4, AccountStep
<1>7. ASSUME NEW h \in MuHandlers, AccountCall(h, "enable") PROVE UserInv'
  <2>1. Enable(h, mjob[h].user) /\ Calling(h, "enable") /\ UNCHANGED <<mlive, mindex, mlost>>
    BY <1>7 DEF AccountCall
  <2>2. \A v \in MuUsers : muser'[v].era = muser[v].era
    BY <2>1 DEF Enable, MuTypeOK, MuUser
  <2> QED
    BY <1>r, <2>1, <2>2 DEF Enable, Calling
<1>8. ASSUME NEW h \in MuHandlers, NEW t \in MuTokens, CreateSession(h, t) PROVE UserInv'
  BY <1>8, CreateStep
<1>9. ASSUME NEW h \in MuHandlers, NEW t \in MuTokens, MuChangePassword(h, t)
      PROVE  UserInv'
  <2>1. mlive[t].user \in MuUsers
    BY <1>9 DEF MuChangePassword, MuAdmitted, MuTypeOK, MuSession
  <2> QED
    BY <1>9, <1>s, <2>1, PlansOwe DEF MuChangePassword
<1>10. ASSUME NEW h \in MuHandlers, NEW u \in MuUsers, MuLogin(h, u) PROVE UserInv'
  BY <1>10, <1>s, PlansOwe DEF MuLogin
<1>11. ASSUME NEW h \in MuHandlers, NEW u \in MuUsers, NEW r \in BOOLEAN,
              NEW e \in {"keep", "on", "off"}, MuPatch(h, u, r, e)
       PROVE  UserInv'
  BY <1>11, <1>s, PlansOwe DEF MuPatch, Patches
<1>12. ASSUME NEW h \in MuHandlers, MuVerify(h) PROVE UserInv'
  <2>1. /\ mjob[h].user \in MuUsers /\ mjob[h].known \in MuEra
        /\ muser[mjob[h].user].era \in MuEra /\ ~Calling(h, "revoke")
    BY <1>12, JobIs DEF MuVerify, Calling
  <2> QED
    BY <1>12, <2>1, PlansOwe, RequestStep DEF MuVerify
<1>13. ASSUME NEW h \in MuHandlers, CountFailure(h) \/ ForgetFailures(h) PROVE UserInv'
  BY <1>13, <1>r DEF CountFailure, ForgetFailures, Calling
<1>14. ASSUME NEW h \in MuHandlers, CallFails(h) PROVE UserInv'
  <2> DEFINE u == mjob[h].user
  <2>1. /\ u \in MuUsers /\ mjob[h].known \in MuEra /\ mjob[h].calls # <<>>
        /\ Ended(h) /\ UNCHANGED <<muser, mlive, mindex>>
    BY <1>14, JobIs DEF CallFails
  <2>2. mlost' = [mlost EXCEPT ![u] = mlost[u] \/ Calling(h, "revoke")]
    BY <1>14 DEF CallFails
  <2>3. /\ \A v \in MuUsers \ {u} : mlost'[v] = mlost[v]
        /\ mlost'[u] = (mlost[u] \/ Calling(h, "revoke"))
    BY <2>1, <2>2 DEF MuTypeOK
  <2>4. MuGoes(h, u, mjob[h].known, <<>>)
    BY <2>1 DEF Ended
  <2>5. \A v \in MuUsers :
          /\ StaleJobs(v)' \subseteq StaleJobs(v)
          /\ u # v \/ ~Calling(h, "revoke") => (Revoking(v) => Revoking(v)')
          /\ \A g \in MuHandlers : Owes(mjob'[g].calls)
    BY <2>1, <2>4, PlansOwe, JobStep
  <2>6. ASSUME NEW v \in MuUsers PROVE FewEarlier(v)'
    <3>1. EarlierSessions(v)' = EarlierSessions(v)
      BY <2>1 DEF EarlierSessions
    <3>2. Revoking(v) \/ mlost[v] => Revoking(v)' \/ mlost'[v]
      BY <2>3, <2>5
    <3> QED
      BY <2>5, <3>1, <3>2, FewKept
  <2>7. \A t \in MuTokens : mlive'[t] # MuNone => t \in mindex'[mlive'[t].user]
    BY <2>1 DEF UserInv
  <2>8. \A g \in MuHandlers : Owes(mjob'[g].calls)
    BY <2>1, <2>5
  <2> QED
    BY <2>6, <2>7, <2>8 DEF UserInv
<1>15. CASE MuRestart
  BY <1>15, RestartStep
<1>16. CASE UNCHANGED muvars
  BY <1>16 DEF muvars, UserInv, FewEarlier, StaleJobs, EarlierSessions, Revoking,
              Calling
<1> QED
  BY <1>1, <1>2, <1>3, <1>4, <1>5, <1>6, <1>7, <1>8, <1>9, <1>10, <1>11, <1>12,
     <1>13, <1>14, <1>15, <1>16 DEF MuNext

(* Once the sessions of a user were revoked after the last change of the    *)
(* password or the last disabling of the account, fewer earlier sessions    *)
(* are stored than there are threads, unless another revocation is to come  *)
(* or one got lost.  A session is created by a request that has seen the    *)
(* row of its time, at most one for each thread, and the thread that        *)
(* changed the account last creates none; and the reverse index lists       *)
(* every stored session, so that the revocation leaves none.                *)
THEOREM EarlierSessionsAreFew == MuSpec => []EarlierSessionsBounded
<1>1. UserInv => EarlierSessionsBounded
  <2> SUFFICES ASSUME UserInv, NEW u \in MuUsers, ~Revoking(u), ~mlost[u]
               PROVE  Cardinality(EarlierSessions(u)) < Cardinality(MuHandlers)
    BY DEF EarlierSessionsBounded
  <2>1. Cardinality(EarlierSessions(u)) + Cardinality(StaleJobs(u))
          < Cardinality(MuHandlers)
    BY DEF UserInv, FewEarlier
  <2> QED
    BY <2>1, UserCounts
<1> QED
  BY <1>1, UserStarts, UserStep, UserTyping, PTL DEF MuSpec

(* The limit on failed logins of a name is overrun by at most the attempts  *)
(* that run at the same time: each was admitted below the limit, so that    *)
(* the failures and the attempts together stay below the limit and the      *)
(* number of threads; an attempt stands at the head of its request, so that *)
(* no other call is followed by one.                                        *)
THEOREM UserLimitHoldsUpToThreads == MuSpec => []MarketGuessesBounded
<1> USE MuAssumption
<1> DEFINE Few(u) == mfails[u] + Cardinality(MuTrying(u)) < MuAttempts + Cardinality(MuHandlers)
<1>f. ASSUME NEW u
      PROVE  /\ IsFiniteSet(MuHandlers) /\ Cardinality(MuHandlers) \in Nat
             /\ MuTrying(u) \subseteq MuHandlers /\ IsFiniteSet(MuTrying(u))
             /\ IsFiniteSet(MuTrying(u)')
             /\ Cardinality(MuTrying(u)) \in Nat /\ Cardinality(MuTrying(u)') \in Nat
             /\ Cardinality(MuTrying(u)') <= Cardinality(MuHandlers)
  <2>1. MuTrying(u) \subseteq MuHandlers /\ MuTrying(u)' \subseteq MuHandlers
    BY DEF MuTrying
  <2> QED
    BY <2>1, FS_Subset, FS_CardinalityType
<1>1. MuInit => MarketGuessesBounded
  <2> SUFFICES ASSUME MuInit, NEW u \in MuUsers PROVE Few(u)
    BY DEF MarketGuessesBounded
  <2>1. MuTrying(u) = {}
    BY DEF MuInit, MuIdle, MuTrying, Calling
  <2>2. Cardinality(MuTrying(u)) = 0 /\ mfails[u] = 0
    BY <2>1, FS_EmptySet DEF MuInit
  <2> QED
    BY <1>f, <2>2
<1>2. MuTypeOK /\ MuTypeOK' /\ UserInv /\ MarketGuessesBounded /\ [MuNext]_muvars
        => MarketGuessesBounded'
  <2> SUFFICES ASSUME MuTypeOK, MuTypeOK', UserInv, [MuNext]_muvars,
                      NEW u \in MuUsers, Few(u)
               PROVE  Few(u)'
    BY DEF MarketGuessesBounded
  <2>0. mfails[u] \in Nat /\ mfails'[u] \in Nat
    BY DEF MuTypeOK
  (* Where no attempt begins and no failure is counted.                     *)
  <2>k. ASSUME MuTrying(u)' \subseteq MuTrying(u), mfails'[u] <= mfails[u]
        PROVE  Few(u)'
    <3>1. Cardinality(MuTrying(u)') <= Cardinality(MuTrying(u))
      BY <1>f, <2>k, FS_Subset
    <3> QED
      BY <1>f, <2>0, <2>k, <3>1
  <2>g. ASSUME NEW h \in MuHandlers, NEW v \in MuUsers, NEW era \in MuEra,
               NEW calls \in Seq(MuCalls), MuGoes(h, v, era, calls),
               calls # <<>> => Head(calls) \notin {"verify", "fail"}
        PROVE  MuTrying(u)' \subseteq MuTrying(u) \ {h}
    <3>1. mjob'[h].calls = calls /\ \A g \in MuHandlers \ {h} : mjob'[g] = mjob[g]
      BY <2>g, JobGoes
    <3> QED
      BY <2>g, <3>1 DEF MuTrying, Calling
  <2>r. ASSUME NEW h \in MuHandlers, mjob[h].calls # <<>>, Returned(h) \/ Ended(h)
        PROVE  MuTrying(u)' \subseteq MuTrying(u) \ {h}
    <3>1. /\ mjob[h].user \in MuUsers /\ mjob[h].known \in MuEra
          /\ mjob[h].calls \in Seq(MuCalls) /\ Owes(mjob[h].calls)
      BY JobIs DEF UserInv
    <3>2. /\ Tail(mjob[h].calls) \in Seq(MuCalls)
          /\ Tail(mjob[h].calls) # <<>> =>
               Head(Tail(mjob[h].calls)) \notin {"verify", "fail"}
      BY <2>r, <3>1, TailOwes
    <3>3. CASE Returned(h)
      BY <2>g, <3>1, <3>2, <3>3 DEF Returned
    <3>4. CASE Ended(h)
      <4>1. <<>> \in Seq(MuCalls)
        OBVIOUS
      <4>2. MuGoes(h, mjob[h].user, mjob[h].known, <<>>)
        BY <3>4 DEF Ended
      <4> QED
        BY <2>g, <3>1, <4>1, <4>2
    <3> QED
      BY <2>r, <3>3, <3>4
  <2>s. ASSUME NEW h \in MuHandlers, NEW v \in MuUsers, NEW calls \in Seq(MuCalls),
               Serves(h, v, calls),
               calls # <<>> => Head(calls) \notin {"verify", "fail"}
        PROVE  MuTrying(u)' \subseteq MuTrying(u)
    <3>1. muser[v].era \in MuEra
      BY DEF MuTypeOK, MuUser
    <3> QED
      BY <2>s, <2>g, <3>1 DEF Serves
  <2>1. ASSUME NEW v \in MuUsers, MuMinutePasses(v) PROVE Few(u)'
    <3>1. mfails'[u] <= mfails[u]
      BY <2>0, <2>1 DEF MuMinutePasses, MuTypeOK
    <3>2. MuTrying(u)' = MuTrying(u)
      BY <2>1 DEF MuMinutePasses, MuTrying, Calling
    <3> QED
      BY <2>k, <3>1, <3>2
  <2>2. ASSUME NEW t \in MuTokens, MuRefused(t) \/ MuLogout(t) \/ MuExpire(t) PROVE Few(u)'
    <3>1. MuTrying(u)' = MuTrying(u) /\ mfails'[u] = mfails[u]
      BY <2>2 DEF MuRefused, MuLogout, MuExpire, MuTrying, Calling
    <3> QED
      BY <2>0, <2>k, <3>1
  <2>3. ASSUME NEW h \in MuHandlers,
               \/ RevokeUser(h) \/ CallFails(h) \/ ForgetFailures(h)
               \/ \E c \in {"change", "reset", "disable", "enable"} : AccountCall(h, c)
               \/ \E t \in MuTokens : CreateSession(h, t)
        PROVE  Few(u)'
    <3>1. mfails'[u] <= mfails[u]
      <4>1. CASE ForgetFailures(h)
        <5>1. mfails' = [mfails EXCEPT ![mjob[h].user] = 0]
          BY <4>1 DEF ForgetFailures
        <5>2. mfails'[u] = 0 \/ mfails'[u] = mfails[u]
          BY <5>1 DEF MuTypeOK
        <5> QED
          BY <2>0, <5>2
      <4>2. CASE ~ForgetFailures(h)
        <5>1. mfails' = mfails
          BY <2>3, <4>2 DEF RevokeUser, CallFails, AccountCall, CreateSession
        <5> QED
          BY <2>0, <5>1
      <4> QED
        BY <4>1, <4>2
    <3>2. mjob[h].calls # <<>>
      BY <2>3 DEF RevokeUser, CallFails, ForgetFailures, AccountCall, CreateSession, Calling
    <3>3. CASE Returned(h) \/ Ended(h)
      BY <2>k, <2>r, <3>1, <3>2, <3>3
    <3>4. CASE AccountCall(h, "change")
      <4> DEFINE v == mjob[h].user
      <4>1. v \in MuUsers /\ muser[v] \in MuUser /\ mjob[h].calls \in Seq(MuCalls)
        BY JobIs DEF MuTypeOK
      <4>2. Change(h, v)
        BY <3>4 DEF AccountCall
      <4>3. CASE Ended(h)
        BY <3>3, <4>3
      <4>4. CASE ~Ended(h)
        <5>1. /\ muser[v].era.pass < MuMaxChanges
              /\ MuGoes(h, v, NewPassword(v), Tail(mjob[h].calls))
          BY <4>2, <4>4 DEF Change
        <5>2. NewPassword(v) \in MuEra
          BY <4>1, <5>1 DEF NewPassword, MuUser, MuEra
        <5>3. /\ Tail(mjob[h].calls) \in Seq(MuCalls)
              /\ Tail(mjob[h].calls) # <<>> =>
                   Head(Tail(mjob[h].calls)) \notin {"verify", "fail"}
          BY <3>2, <4>1, TailOwes DEF UserInv
        <5> QED
          BY <2>g, <2>k, <3>1, <4>1, <5>1, <5>2, <5>3
      <4> QED
        BY <4>3, <4>4
    <3>5. CASE ~AccountCall(h, "change") /\ ~(Returned(h) \/ Ended(h))
      BY <2>3, <3>5 DEF RevokeUser, CallFails, ForgetFailures, AccountCall, CreateSession,
                        Reset, Disable, Enable
    <3> QED
      BY <3>3, <3>4, <3>5
  <2>4. ASSUME NEW h \in MuHandlers, NEW t \in MuTokens, MuChangePassword(h, t)
        PROVE  Few(u)'
    <3>1. mlive[t].user \in MuUsers
      BY <2>4 DEF MuChangePassword, MuAdmitted, MuTypeOK, MuSession
    <3>2. MuTrying(u)' \subseteq MuTrying(u)
      BY <2>4, <2>s, <3>1, PlansOwe DEF MuChangePassword
    <3> QED
      BY <2>0, <2>4, <2>k, <3>2 DEF MuChangePassword
  <2>5. ASSUME NEW h \in MuHandlers, NEW v \in MuUsers, NEW r \in BOOLEAN,
               NEW e \in {"keep", "on", "off"}, MuPatch(h, v, r, e)
        PROVE  Few(u)'
    <3> DEFINE p == PatchCalls(r, e)
    <3>1. /\ p \in Seq(MuCalls)
          /\ \A i \in 1 .. Len(p) : p[i] \in {"reset", "revoke", "disable", "enable"}
      BY PlansOwe DEF Patches
    <3>2. Serves(h, v, p) /\ mfails' = mfails
      BY <2>5 DEF MuPatch
    <3> HIDE DEF p
    <3>3. p # <<>> => Head(p) \notin {"verify", "fail"}
      <4>1. p # <<>> => 1 \in 1 .. Len(p) /\ Head(p) = p[1]
        BY <3>1, EmptySeq
      <4> QED
        BY <3>1, <4>1
    <3> QED
      BY <2>0, <2>k, <2>s, <3>1, <3>2, <3>3
  <2>6. ASSUME NEW h \in MuHandlers, NEW v \in MuUsers, MuLogin(h, v) PROVE Few(u)'
    <3>2. /\ mfails'[u] = mfails[u] /\ Serves(h, v, <<"verify">>)
          /\ mfails[v] < MuAttempts
      BY <2>6 DEF MuLogin, MuMayTry
    <3>3. CASE v = u
      BY <1>f, <2>0, <3>2, <3>3
    <3>4. CASE v # u
      <4> DEFINE c == <<"verify">>
      <4>1. /\ muser[v].era \in MuEra /\ MuGoes(h, v, muser[v].era, c)
        BY <3>2 DEF Serves, MuTypeOK, MuUser
      <4>0. c \in Seq(MuCalls) /\ c # <<>>
        BY PlansOwe
      <4> HIDE DEF c
      <4>2. mjob'[h].user = v /\ \A g \in MuHandlers \ {h} : mjob'[g] = mjob[g]
        BY <4>0, <4>1, JobGoes
      <4>3. MuTrying(u)' \subseteq MuTrying(u)
        BY <3>4, <4>2 DEF MuTrying, Calling
      <4> QED
        BY <2>0, <2>k, <3>2, <4>3
    <3> QED
      BY <3>3, <3>4
  <2>7. ASSUME NEW h \in MuHandlers, MuVerify(h) PROVE Few(u)'
    <3> DEFINE v == mjob[h].user
    <3>1. /\ v \in MuUsers /\ muser[v].era \in MuEra /\ mjob[h].known \in MuEra
          /\ mfails' = mfails /\ Calling(h, "verify")
      BY <2>7, JobIs DEF MuVerify
    <3>2. CASE MuGoes(h, v, muser[v].era, <<"clear", "create">>)
      <4> DEFINE c == <<"clear", "create">>
      <4>1. c \in Seq(MuCalls) /\ Head(c) = "clear" /\ MuGoes(h, v, muser[v].era, c)
        BY <3>2, PlansOwe
      <4> HIDE DEF c
      <4>2. MuTrying(u)' \subseteq MuTrying(u)
        BY <2>g, <3>1, <4>1
      <4> QED
        BY <2>0, <2>k, <3>1, <4>2
    <3>3. CASE MuGoes(h, v, mjob[h].known, <<"fail">>)
      <4> DEFINE c == <<"fail">>
      <4>1. c \in Seq(MuCalls) /\ c # <<>> /\ MuGoes(h, v, mjob[h].known, c)
        BY <3>3, PlansOwe
      <4> HIDE DEF c
      <4>2. /\ mjob'[h].user = v /\ \A g \in MuHandlers \ {h} : mjob'[g] = mjob[g]
        BY <3>1, <4>1, JobGoes
      <4>3. MuTrying(u)' \subseteq MuTrying(u)
        BY <3>1, <4>2 DEF MuTrying, Calling
      <4> QED
        BY <2>0, <2>k, <3>1, <4>3
    <3> QED
      BY <2>7, <3>2, <3>3 DEF MuVerify
  <2>8. ASSUME NEW h \in MuHandlers, CountFailure(h) PROVE Few(u)'
    <3>1. /\ MuTrying(u)' \subseteq MuTrying(u) \ {h} /\ Calling(h, "fail")
          /\ mfails' = [mfails EXCEPT ![mjob[h].user] = @ + 1]
      BY <2>8, <2>r DEF CountFailure, Calling
    <3>2. CASE mjob[h].user # u
      <4>1. mfails'[u] = mfails[u]
        BY <3>1, <3>2 DEF MuTypeOK
      <4> QED
        BY <2>0, <2>k, <3>1, <4>1
    <3>3. CASE mjob[h].user = u
      <4>1. mfails'[u] = mfails[u] + 1 /\ h \in MuTrying(u)
        BY <3>1, <3>3 DEF MuTypeOK, MuTrying
      <4>2. /\ Cardinality(MuTrying(u) \ {h}) = Cardinality(MuTrying(u)) - 1
            /\ IsFiniteSet(MuTrying(u) \ {h})
        BY <1>f, <4>1, FS_RemoveElement
      <4>3. Cardinality(MuTrying(u)') <= Cardinality(MuTrying(u) \ {h})
        BY <3>1, <4>2, FS_Subset
      <4> QED
        BY <1>f, <2>0, <4>1, <4>2, <4>3
    <3> QED
      BY <3>2, <3>3
  <2>9. CASE MuRestart
    <3>1. MuTrying(u)' = {}
      BY <2>9 DEF MuRestart, MuIdle, MuTrying, Calling
    <3>2. mfails'[u] = 0
      BY <2>9 DEF MuRestart
    <3> QED
      BY <2>0, <2>k, <3>1, <3>2
  <2>10. CASE UNCHANGED muvars
    BY <2>10 DEF muvars, MuTrying, Calling
  <2> QED
    BY <2>1, <2>2, <2>3, <2>4, <2>5, <2>6, <2>7, <2>8, <2>9, <2>10 DEF MuNext
<1> QED
  BY <1>1, <1>2, UserStarts, UserStep, UserTyping, PTL DEF MuSpec

-----------------------------------------------------------------------------
(* AdminSessions.                                                           *)

(* The attempts that were admitted and that no list counts yet.            *)
Trying == {h \in AdHandlers : adstep[h].at \in {"allowed", "refused"}}

(* The failures, the sessions and the attempts keep their types.            *)
LEMMA AdminTyping == AdSpec => []AdTypeOK
<1> USE AdAssumption
<1>1. AdInit => AdTypeOK
  BY DEF AdInit, AdTypeOK, AdSteps
<1>2. AdTypeOK /\ [AdNext]_advars => AdTypeOK'
  <2> SUFFICES ASSUME AdTypeOK, [AdNext]_advars PROVE AdTypeOK'
    OBVIOUS
  <2>r. RecentFailures \in Seq(1 .. AdEnd)
    BY KeepType DEF RecentFailures, AdTypeOK
  <2>l. LiveSessions(adsessions) \in [AdHandlers -> Nat]
    BY DEF LiveSessions, AdTypeOK
  <2>g. ASSUME NEW h \in AdHandlers, NEW at, NEW to \in AdSteps, AdGoes(h, at, to)
        PROVE  adstep' \in [AdHandlers -> AdSteps]
    BY <2>g DEF AdGoes, AdTypeOK
  <2>s. /\ AdIdle \in AdSteps
        /\ \A p \in AdPasswords : /\ [at |-> "allowed", word |-> p] \in AdSteps
                                  /\ [at |-> "persist", word |-> p] \in AdSteps
                                  /\ [at |-> "replace", word |-> p] \in AdSteps
        /\ [at |-> "refused"] \in AdSteps /\ [at |-> "verified"] \in AdSteps
        /\ [at |-> "opened"] \in AdSteps /\ [at |-> "stored"] \in AdSteps
    BY DEF AdSteps
  <2>w. \A h \in AdHandlers :
          adstep[h].at \in {"persist", "replace"} => adstep[h].word \in AdPasswords
    <3>1. ASSUME NEW r \in AdSteps, r.at \in {"persist", "replace"}
          PROVE  r.word \in AdPasswords
      <4>1. CASE r \in {AdIdle} \cup [at : {"refused", "verified", "opened", "stored"}]
        BY <3>1, <4>1 DEF AdIdle
      <4>2. CASE r \in [at : {"allowed"}, word : AdPasswords]
        BY <4>2
      <4>3. CASE r \in [at : {"persist", "replace"}, word : AdPasswords]
        BY <4>3
      <4> QED
        BY <4>1, <4>2, <4>3 DEF AdSteps
    <3> QED
      BY <3>1 DEF AdTypeOK
  <2>e. <<>> \in Seq(1 .. AdEnd)
    OBVIOUS
  <2>1. CASE AdTick
    BY <2>1 DEF AdTick, AdTypeOK
  <2>2. CASE AdRestart
    BY <2>2, <2>s, <2>e DEF AdRestart, AdTypeOK
  <2>3. ASSUME NEW h \in AdHandlers, NEW p \in AdPasswords, LoginAllowed(h, p)
        PROVE  AdTypeOK'
    <3>1. \E to \in AdSteps : AdGoes(h, "idle", to)
      BY <2>3, <2>s DEF LoginAllowed
    <3> QED
      BY <2>3, <2>r, <2>l, <2>g, <3>1 DEF LoginAllowed, AdTypeOK
  <2>4. ASSUME NEW h \in AdHandlers, NEW p \in AdPasswords, NEW q \in AdPasswords,
               VerifyChange(h, p, q)
        PROVE  AdTypeOK'
    <3>1. \E to \in AdSteps : AdGoes(h, "idle", to)
      BY <2>4, <2>s DEF VerifyChange
    <3> QED
      BY <2>4, <2>r, <2>l, <2>g, <3>1 DEF VerifyChange, AdTypeOK
  <2>5. ASSUME NEW h \in AdHandlers, VerifyLogin(h) PROVE AdTypeOK'
    <3>1. \E to \in AdSteps : AdGoes(h, "allowed", to)
      BY <2>5, <2>s DEF VerifyLogin
    <3> QED
      BY <2>5, <2>g, <3>1 DEF VerifyLogin, AdTypeOK
  <2>6. ASSUME NEW h \in AdHandlers, RecordFailure(h) PROVE AdTypeOK'
    <3>1. adfailures' \in Seq(1 .. AdEnd)
      BY <2>6, <2>r DEF RecordFailure, AdTypeOK
    <3> QED
      BY <2>6, <2>s, <2>g, <2>l, <3>1 DEF RecordFailure, AdTypeOK
  <2>7. ASSUME NEW h \in AdHandlers, OpenSession(h) PROVE AdTypeOK'
    <3> DEFINE ss == [LiveSessions(adsessions) EXCEPT ![h] = adnow + AdTtl]
    <3>1. ss \in [AdHandlers -> Nat]
      BY <2>l DEF AdTypeOK
    <3>2. adsessions' = ss \/ \E g \in AdHandlers : adsessions' = [ss EXCEPT ![g] = 0]
      BY <2>7 DEF OpenSession
    <3> HIDE DEF ss
    <3>3. adsessions' \in [AdHandlers -> Nat]
      BY <3>1, <3>2
    <3> QED
      BY <2>7, <2>s, <2>g, <2>r, <3>3 DEF OpenSession, AdTypeOK
  <2>8. ASSUME NEW h \in AdHandlers, RecordSuccess(h) PROVE AdTypeOK'
    BY <2>8, <2>s, <2>g, <2>e DEF RecordSuccess, AdTypeOK
  <2>9. ASSUME NEW h \in AdHandlers, PersistPassword(h) PROVE AdTypeOK'
    <3>1. adstep[h].word \in AdPasswords
      BY <2>9, <2>w DEF PersistPassword, AdGoes
    <3> QED
      BY <2>9, <2>s, <2>g, <3>1 DEF PersistPassword, AdTypeOK
  <2>10. ASSUME NEW h \in AdHandlers, PersistFails(h) PROVE AdTypeOK'
    <3>1. adstep[h].word \in AdPasswords
      BY <2>10, <2>w DEF PersistFails, AdGoes
    <3> QED
      BY <2>10, <2>s, <2>g, <3>1 DEF PersistFails, AdTypeOK
  <2>11. ASSUME NEW h \in AdHandlers, ReplacePassword(h) PROVE AdTypeOK'
    <3>1. adstep[h].word \in AdPasswords
      BY <2>11, <2>w DEF ReplacePassword, AdGoes
    <3> QED
      BY <2>11, <2>s, <2>g, <3>1 DEF ReplacePassword, AdTypeOK
  <2>12. ASSUME NEW h \in AdHandlers, ForgetSessions(h) PROVE AdTypeOK'
    BY <2>12, <2>s, <2>g, <2>e DEF ForgetSessions, AdTypeOK
  <2>13. ASSUME NEW h \in AdHandlers, DropSession(h) PROVE AdTypeOK'
    BY <2>13, <2>r, <2>l DEF DropSession, AdTypeOK
  <2>14. CASE UNCHANGED advars
    BY <2>14 DEF advars, AdTypeOK
  <2> QED
    BY <2>1, <2>2, <2>3, <2>4, <2>5, <2>6, <2>7, <2>8, <2>9, <2>10, <2>11, <2>12,
       <2>13, <2>14 DEF AdNext
<1> QED
  BY <1>1, <1>2, PTL DEF AdSpec

(* Pruning what is pruned changes nothing, nor does a failure of now.       *)
LEMMA PrunedStays ==
  ASSUME AdTypeOK, adnow' = adnow
  PROVE  /\ adfailures' = RecentFailures => RecentFailures' = RecentFailures
         /\ adfailures' = Append(RecentFailures, adnow) =>
              RecentFailures' = Append(RecentFailures, adnow)
         /\ adfailures' = <<>> => RecentFailures' = <<>>
         /\ adfailures' = adfailures => RecentFailures' = RecentFailures
<1> DEFINE S == {t \in 1 .. AdEnd : t + AdWindow > adnow}
<1>1. RecentFailures = Keep(adfailures, S) /\ RecentFailures' = Keep(adfailures', S)
  BY DEF RecentFailures
<1>2. adfailures \in Seq(1 .. AdEnd) /\ adnow \in S /\ adnow \in 1 .. AdEnd
  BY AdAssumption DEF AdTypeOK
<1> DEFINE T == 1 .. AdEnd
<1> HIDE DEF S, T
<1>3. RecentFailures \in Seq(T) /\ adfailures \in Seq(T) /\ adnow \in T
  <2>1. adfailures \in Seq(T) /\ adnow \in T
    BY <1>2 DEF T
  <2>2. Keep(adfailures, S) \in Seq(T)
    BY ONLY <2>1, KeepType
  <2> QED
    BY <1>1, <2>1, <2>2
<1>4. S \cap S = S
  OBVIOUS
<1>5. Keep(RecentFailures, S) = RecentFailures
  BY <1>1, <1>3, <1>4, KeepKeep
<1>6. Keep(Append(RecentFailures, adnow), S) = Append(RecentFailures, adnow)
  <2>1. Keep(Append(RecentFailures, adnow), S) =
          IF adnow \in S THEN Append(Keep(RecentFailures, S), adnow)
                         ELSE Keep(RecentFailures, S)
    BY ONLY <1>3, KeepAppend
  <2> QED
    BY ONLY <1>2, <1>5, <2>1
<1> QED
  BY <1>1, <1>5, <1>6, KeepEmpty

(* The number of recent failures and attempts.                              *)
LEMMA TryingCount ==
  ASSUME AdTypeOK
  PROVE  /\ IsFiniteSet(AdHandlers) /\ IsFiniteSet(Trying)
         /\ Cardinality(Trying) \in Nat /\ Cardinality(AdHandlers) \in Nat
         /\ Cardinality(Trying) <= Cardinality(AdHandlers)
         /\ Len(RecentFailures) \in Nat
<1>1. IsFiniteSet(AdHandlers) /\ Trying \subseteq AdHandlers
  BY AdAssumption DEF Trying
<1>2. RecentFailures \in Seq(1 .. AdEnd)
  BY KeepType DEF RecentFailures, AdTypeOK
<1> QED
  BY <1>1, <1>2, FS_Subset, FS_CardinalityType

(* The limit on failures is overrun by at most the attempts that run at     *)
(* the same time: each was admitted below the limit, so that the recent     *)
(* failures and the attempts together stay below the limit and the number   *)
(* of threads.                                                              *)
THEOREM LimitHoldsUpToThreads == AdSpec => []GuessesBounded
<1> USE AdAssumption
<1> DEFINE I == Len(RecentFailures) + Cardinality(Trying) < AdLimit + Cardinality(AdHandlers)
<1>0. GuessesBounded <=> I
  BY DEF GuessesBounded, Trying
<1>1. AdInit => I
  <2> SUFFICES ASSUME AdInit PROVE I
    OBVIOUS
  <2>1. RecentFailures = <<>>
    BY KeepEmpty DEF AdInit, RecentFailures
  <2>2. Trying = {}
    BY DEF AdInit, AdIdle, Trying
  <2>3. Len(RecentFailures) = 0 /\ Cardinality(Trying) = 0
    BY <2>1, <2>2, FS_EmptySet
  <2>4. Cardinality(AdHandlers) \in Nat
    BY FS_CardinalityType
  <2> QED
    BY <2>3, <2>4
<1>2. AdTypeOK /\ AdTypeOK' /\ I /\ [AdNext]_advars => I'
  <2> SUFFICES ASSUME AdTypeOK, AdTypeOK', I, [AdNext]_advars PROVE I'
    OBVIOUS
  <2>0. /\ IsFiniteSet(AdHandlers) /\ IsFiniteSet(Trying) /\ IsFiniteSet(Trying')
        /\ Cardinality(Trying) \in Nat /\ Cardinality(AdHandlers) \in Nat
        /\ Cardinality(Trying') \in Nat
        /\ Cardinality(Trying) <= Cardinality(AdHandlers)
        /\ Cardinality(Trying') <= Cardinality(AdHandlers)
        /\ Len(RecentFailures) \in Nat /\ Len(RecentFailures') \in Nat
    <3>1. Trying' \subseteq AdHandlers
      BY DEF Trying
    <3>2. RecentFailures' \in Seq(1 .. AdEnd)
      BY KeepType DEF RecentFailures, AdTypeOK
    <3> QED
      BY <3>1, <3>2, TryingCount, FS_Subset, FS_CardinalityType
  (* Where nobody begins to try and no failure is remembered.               *)
  <2>k. ASSUME Trying' \subseteq Trying, Len(RecentFailures') <= Len(RecentFailures)
        PROVE  I'
    <3>1. Cardinality(Trying') <= Cardinality(Trying)
      BY <2>0, <2>k, FS_Subset
    <3> QED
      BY <2>0, <2>k, <3>1
  <2>g. ASSUME NEW h \in AdHandlers, NEW at, NEW to, AdGoes(h, at, to),
               to.at \notin {"allowed", "refused"}
        PROVE  Trying' \subseteq Trying /\ h \notin Trying'
    BY <2>g DEF AdGoes, Trying, AdTypeOK
  <2>1. CASE AdTick
    <3> DEFINE S == {t \in 1 .. AdEnd : t + AdWindow > adnow}
               R == {t \in 1 .. AdEnd : t + AdWindow > adnow'}
    <3>1. S \cap R = R
      BY <2>1 DEF AdTick, AdTypeOK
    <3>2. RecentFailures = Keep(adfailures, S) /\ RecentFailures' = Keep(adfailures, R)
      BY <2>1 DEF AdTick, RecentFailures
    <3>3. adfailures \in Seq(1 .. AdEnd) /\ RecentFailures \in Seq(1 .. AdEnd)
      BY KeepType DEF AdTypeOK, RecentFailures
    <3> HIDE DEF S, R
    <3>4. RecentFailures' = Keep(RecentFailures, R)
      BY <3>1, <3>2, <3>3, KeepKeep
    <3>5. Len(RecentFailures') <= Len(RecentFailures)
      BY <3>3, <3>4, KeepLength
    <3>6. Trying' = Trying
      BY <2>1 DEF AdTick, Trying
    <3> QED
      BY <2>k, <3>5, <3>6
  <2>2. CASE AdRestart
    <3>1. Trying' = {}
      BY <2>2 DEF AdRestart, Trying, AdIdle
    <3>2. RecentFailures' = <<>>
      BY <2>2, PrunedStays DEF AdRestart
    <3> QED
      BY <2>0, <2>k, <3>1, <3>2
  <2>3. ASSUME NEW h \in AdHandlers, NEW p \in AdPasswords, LoginAllowed(h, p)
        PROVE  I'
    <3>1. RecentFailures' = RecentFailures
      BY <2>3, PrunedStays DEF LoginAllowed
    <3>2. CASE MayTry(Len(RecentFailures))
      BY <2>0, <3>1, <3>2 DEF MayTry
    <3>3. CASE ~MayTry(Len(RecentFailures))
      <4>1. AdGoes(h, "idle", AdIdle)
        BY <2>3, <3>3 DEF LoginAllowed
      <4> QED
        BY <2>0, <2>g, <2>k, <3>1, <4>1 DEF AdIdle
    <3> QED
      BY <3>2, <3>3
  <2>4. ASSUME NEW h \in AdHandlers, NEW p \in AdPasswords, NEW q \in AdPasswords,
               VerifyChange(h, p, q)
        PROVE  I'
    <3>1. RecentFailures' = RecentFailures
      BY <2>4, PrunedStays DEF VerifyChange
    <3>2. \E to : AdGoes(h, "idle", to) /\ to.at \notin {"allowed", "refused"}
      BY <2>4 DEF VerifyChange, AdIdle
    <3> QED
      BY <2>0, <2>g, <2>k, <3>1, <3>2
  <2>5. ASSUME NEW h \in AdHandlers, VerifyLogin(h) PROVE I'
    <3>1. Trying' \subseteq Trying
      BY <2>5 DEF VerifyLogin, AdGoes, Trying, AdTypeOK
    <3>2. RecentFailures' = RecentFailures
      BY <2>5, PrunedStays DEF VerifyLogin
    <3> QED
      BY <2>0, <2>k, <3>1, <3>2
  <2>6. ASSUME NEW h \in AdHandlers, RecordFailure(h) PROVE I'
    <3>1. Len(RecentFailures') = Len(RecentFailures) + 1
      <4>1. RecentFailures' = Append(RecentFailures, adnow)
        BY <2>6, PrunedStays DEF RecordFailure
      <4>2. RecentFailures \in Seq(1 .. AdEnd)
        BY KeepType DEF RecentFailures, AdTypeOK
      <4> QED
        BY <4>1, <4>2
    <3>2. h \in Trying /\ Trying' \subseteq Trying \ {h}
      <4>1. AdGoes(h, "refused", AdIdle)
        BY <2>6 DEF RecordFailure
      <4> QED
        BY <4>1, <2>g DEF AdGoes, Trying, AdIdle
    <3>3. Cardinality(Trying \ {h}) = Cardinality(Trying) - 1 /\ IsFiniteSet(Trying \ {h})
      BY <2>0, <3>2, FS_RemoveElement
    <3>4. Cardinality(Trying') <= Cardinality(Trying \ {h})
      BY <3>2, <3>3, FS_Subset
    <3> QED
      BY <2>0, <3>1, <3>3, <3>4
  <2>7. ASSUME NEW h \in AdHandlers, OpenSession(h) PROVE I'
    <3>1. RecentFailures' = RecentFailures
      BY <2>7, PrunedStays DEF OpenSession
    <3>2. AdGoes(h, "verified", [at |-> "opened"])
      BY <2>7 DEF OpenSession
    <3> QED
      BY <2>0, <2>g, <2>k, <3>1, <3>2
  <2>8. ASSUME NEW h \in AdHandlers, RecordSuccess(h) \/ ForgetSessions(h) PROVE I'
    <3>1. RecentFailures' = <<>>
      BY <2>8, PrunedStays DEF RecordSuccess, ForgetSessions
    <3>2. Trying' \subseteq Trying
      BY <2>8, <2>g DEF RecordSuccess, ForgetSessions, AdIdle
    <3>3. Len(RecentFailures') = 0
      BY <3>1
    <3> QED
      BY <2>0, <2>k, <3>2, <3>3
  <2>9. ASSUME NEW h \in AdHandlers,
               PersistPassword(h) \/ PersistFails(h) \/ ReplacePassword(h)
        PROVE  I'
    <3>1. RecentFailures' = RecentFailures
      BY <2>9, PrunedStays DEF PersistPassword, PersistFails, ReplacePassword
    <3>2. Trying' \subseteq Trying
      BY <2>9, <2>g DEF PersistPassword, PersistFails, ReplacePassword, AdIdle
    <3> QED
      BY <2>0, <2>k, <3>1, <3>2
  <2>10. ASSUME NEW h \in AdHandlers, DropSession(h) PROVE I'
    <3>1. RecentFailures' = RecentFailures
      BY <2>10, PrunedStays DEF DropSession
    <3>2. Trying' = Trying
      BY <2>10 DEF DropSession, Trying
    <3> QED
      BY <2>0, <2>k, <3>1, <3>2
  <2>11. CASE UNCHANGED advars
    <3>1. RecentFailures' = RecentFailures
      BY <2>11, PrunedStays DEF advars
    <3>2. Trying' = Trying
      BY <2>11 DEF advars, Trying
    <3> QED
      BY <2>0, <2>k, <3>1, <3>2
  <2> QED
    BY <2>1, <2>2, <2>3, <2>4, <2>5, <2>6, <2>7, <2>8, <2>9, <2>10, <2>11 DEF AdNext
<1> QED
  BY <1>0, <1>1, <1>2, AdminTyping, PTL DEF AdSpec

-----------------------------------------------------------------------------
(* TaskEvents.                                                              *)

(* The ids of a list of events grow.                                       *)
Increasing(s) == \A i, j \in 1 .. Len(s) : i < j => s[i].id < s[j].id

(* Dropping events leaves the ids growing.                                  *)
LEMMA KeepIncreasing ==
  ASSUME NEW s \in Seq(EvEntry), NEW S, Increasing(s)
  PROVE  Increasing(Keep(s, S))
<1> DEFINE P == {q \in Seq(EvEntry) : Increasing(q) => Increasing(Keep(q, S))}
<1>1. <<>> \in P
  <2>1. Keep(<<>>, S) = <<>> /\ <<>> \in Seq(EvEntry)
    BY KeepEmpty
  <2> QED
    BY <2>1
<1>2. ASSUME NEW q \in Seq(EvEntry), NEW x \in EvEntry, q \in P
      PROVE  Append(q, x) \in P
  <2>1. Append(q, x) \in Seq(EvEntry)
    OBVIOUS
  <2>2. SUFFICES ASSUME Increasing(Append(q, x)) PROVE Increasing(Keep(Append(q, x), S))
    BY <2>1
  <2>3. Increasing(q) /\ \A i \in 1 .. Len(q) : q[i].id < x.id
    <3>1. /\ Len(Append(q, x)) = Len(q) + 1 /\ Append(q, x)[Len(q) + 1] = x
          /\ \A i \in 1 .. Len(q) : Append(q, x)[i] = q[i]
          /\ Len(q) \in Nat
      OBVIOUS
    <3> QED
      BY SMTT(30), <2>2, <3>1 DEF Increasing
  <2>4. Increasing(Keep(q, S))
    BY <1>2, <2>3
  <2>5. CASE x \in S
    <3> DEFINE k == Keep(q, S)
    <3>0. k \in Seq(EvEntry)
      BY KeepType
    <3>1. Keep(Append(q, x), S) = Append(k, x)
      BY <2>5, KeepAppend
    <3>2. \A y : Contains(k, y) => Contains(q, y)
      BY KeepContains
    <3> HIDE DEF k
    <3>3. /\ Len(Append(k, x)) = Len(k) + 1 /\ Append(k, x)[Len(k) + 1] = x
          /\ \A i \in 1 .. Len(k) : Append(k, x)[i] = k[i]
          /\ Len(k) \in Nat
      BY <3>0
    <3>4. \A i \in 1 .. Len(k) : k[i].id < x.id
      BY <2>3, <3>2 DEF Contains
    <3>5. Increasing(Append(k, x))
      BY <2>4, <3>3, <3>4 DEF Increasing, k
    <3> QED
      BY <3>1, <3>5
  <2>6. CASE x \notin S
    BY <2>4, <2>6, KeepAppend
  <2> QED
    BY <2>5, <2>6
<1>3. Seq(EvEntry) \subseteq P
  BY <1>1, <1>2, ListInduction
<1> QED
  BY <1>3

(* What a batch is.                                                         *)
LEMMA BatchFacts ==
  ASSUME EvTypeOK, Increasing(evlog), NEW c \in EvPages, NEW from \in 0 .. EvMaxId
  PROVE  LET b == BatchOf(c, from)
             to == CursorAfter(c, from)
         IN  /\ b \in Seq(EvIds) /\ to \in 0 .. EvMaxId
             /\ \A i, j \in 1 .. Len(b) : i < j => b[i] < b[j]
             /\ \A i \in 1 .. Len(b) : from < b[i] /\ b[i] <= to
             /\ from <= to /\ to \in {from} \cup {e.id : e \in ToSet(evlog)}
             /\ \A e \in ToSet(evlog) :
                  e.task = EvFollowed[c] /\ from < e.id /\ e.id <= to =>
                    \E i \in 1 .. Len(b) : b[i] = e.id
<1> DEFINE s == Following(c, from)
           n == Min({EvLimit, Len(s)})
           b == BatchOf(c, from)
           to == CursorAfter(c, from)
           ids == {from} \cup {e.id : e \in ToSet(evlog)}
<1>1. s \in Seq(EvEntry) /\ Increasing(s)
  BY KeepType, KeepIncreasing DEF Following, EvTypeOK
<1>2. /\ \A i \in 1 .. Len(s) : s[i] \in EvEntry /\ s[i].id > from /\ s[i] \in ToSet(evlog)
      /\ \A e \in ToSet(evlog) : e.task = EvFollowed[c] /\ from < e.id =>
           \E i \in 1 .. Len(s) : s[i] = e
  <2> DEFINE S == {e \in EvEntry : e.id > from /\ e.task = EvFollowed[c]}
  <2>1. \A y : Contains(s, y) <=> Contains(evlog, y) /\ y \in S
    BY KeepContains DEF Following, EvTypeOK
  <2>2. \A y : Contains(evlog, y) <=> y \in ToSet(evlog)
    BY DEF EvTypeOK, Contains, ToSet
  <2>3. \A i \in 1 .. Len(s) : Contains(s, s[i])
    BY <1>1 DEF Contains
  <2>4. ToSet(evlog) \subseteq EvEntry
    BY DEF EvTypeOK, ToSet
  <2>5. \A y : Contains(s, y) => \E i \in 1 .. Len(s) : s[i] = y
    BY <1>1 DEF Contains
  <2>6. \A e \in EvEntry : e.id \in Nat
    BY DEF EvEntry, EvIds
  <2> HIDE DEF s
  <2> QED
    BY <2>1, <2>2, <2>3, <2>4, <2>5, <2>6
<1>3. /\ n \in Nat /\ n <= Len(s) /\ n <= EvLimit /\ (n = EvLimit \/ n = Len(s))
  BY <1>1, MinOfPair, EvAssumption
<1>4. \A i \in 1 .. Len(s) : s[i].id \in EvIds
  BY <1>2 DEF EvEntry
<1>5. b = [i \in 1 .. n |-> s[i].id]
  BY DEF BatchOf
<1>6. /\ b \in Seq(EvIds) /\ Len(b) = n /\ \A i \in 1 .. n : b[i] = s[i].id
  <2> HIDE DEF s, n, b
  <2>1. b \in [1 .. n -> EvIds]
    BY <1>1, <1>3, <1>4, <1>5
  <2> QED
    BY <1>3, <1>5, <2>1
<1>7. /\ from \in ids /\ ids \subseteq 0 .. EvMaxId
      /\ \A e \in ToSet(evlog) : e.id \in ids
      /\ \A i \in 1 .. Len(s) : s[i].id \in ids
  <2>1. ToSet(evlog) \subseteq EvEntry
    BY DEF EvTypeOK, ToSet
  <2>2. \A e \in EvEntry : e.id \in 0 .. EvMaxId
    BY DEF EvEntry, EvIds
  <2> HIDE DEF s
  <2> QED
    BY <1>2, <2>1, <2>2
<1>b. to = IF Len(b) = EvLimit THEN b[EvLimit] ELSE Max(ids)
  BY DEF CursorAfter
<1> HIDE DEF s, n, b, to, ids
<1>8. to = IF n = EvLimit THEN s[EvLimit].id ELSE Max(ids)
  BY <1>b, <1>3, <1>6, EvAssumption
<1>9. Max(ids) \in ids /\ \A y \in ids : y <= Max(ids)
  BY <1>7, MaxOfBounded, EvAssumption
<1>10. /\ \A i, j \in 1 .. n : i < j => b[i] < b[j]
       /\ \A i \in 1 .. n : from < b[i]
  BY <1>1, <1>2, <1>3, <1>6 DEF Increasing
<1>11. to \in ids /\ from <= to
  <2>1. CASE n = EvLimit
    <3>1. n \in 1 .. Len(s) /\ to = s[n].id
      BY <1>1, <1>3, <1>8, <2>1, EvAssumption
    <3>2. s[n].id \in ids /\ s[n].id > from /\ s[n].id \in Nat
      BY <1>2, <1>4, <1>7, <3>1 DEF EvIds
    <3> QED
      BY <3>1, <3>2
  <2>2. CASE n # EvLimit
    BY <1>7, <1>8, <1>9, <2>2
  <2> QED
    BY <2>1, <2>2
<1>12. \A i \in 1 .. n : b[i] <= to
  <2> SUFFICES ASSUME NEW i \in 1 .. n PROVE b[i] <= to
    OBVIOUS
  <2>1. CASE n = EvLimit
    <3>1. i = n \/ b[i] < b[n]
      BY <1>3, <1>10
    <3>2. to = b[n] /\ b[n] \in Nat /\ b[i] \in Nat
      BY <1>3, <1>4, <1>6, <1>8, <2>1 DEF EvIds
    <3> QED
      BY <3>1, <3>2
  <2>2. CASE n # EvLimit
    BY <1>3, <1>6, <1>7, <1>8, <1>9, <2>2
  <2> QED
    BY <2>1, <2>2
<1>13. ASSUME NEW e \in ToSet(evlog), e.task = EvFollowed[c], from < e.id, e.id <= to
       PROVE  \E i \in 1 .. n : b[i] = e.id
  <2>1. PICK k \in 1 .. Len(s) : s[k] = e
    BY <1>2, <1>13
  <2>2. CASE n = Len(s)
    BY <1>6, <2>1, <2>2
  <2>3. CASE n = EvLimit /\ n # Len(s)
    <3>1. n \in 1 .. Len(s) /\ to = s[n].id
      BY <1>1, <1>3, <1>8, <2>3, EvAssumption
    <3>2. k > n => s[n].id < s[k].id
      BY <1>1, <3>1 DEF Increasing
    <3>3. s[n].id \in Nat /\ s[k].id \in Nat
      BY <1>4, <3>1 DEF EvIds
    <3>4. k \in 1 .. n
      BY <1>1, <1>13, <2>1, <3>1, <3>2, <3>3
    <3> QED
      BY <1>6, <2>1, <3>4
  <2> QED
    BY <1>3, <2>2, <2>3
<1>14. to \in 0 .. EvMaxId
  BY <1>7, <1>11
<1> QED
  BY <1>6, <1>10, <1>11, <1>12, <1>13, <1>14 DEF b, to, ids

(* The stream is in the order of its ids, and new ids are larger.           *)
Stream ==
  /\ Increasing(evlog)
  /\ \A i \in 1 .. Len(evlog) : evlog[i].id < evnext

(* What a page has been shown, what is on its way to it and what it will    *)
(* be sent when it reads on come in this order.                             *)
PageInv(c) ==
  /\ \A i \in evgot[c] : i <= evlast[c]
  /\ evlast[c] < evnext
  /\ \A e \in ToSet(evlog) :
       e.task = EvFollowed[c] /\ e.id <= PassedBy(c) =>
         e.id \in evgot[c] \cup OnItsWayTo(c)
  /\ evconn[c] # EvOff =>
       LET b == evconn[c].batch IN
       /\ evlast[c] <= evconn[c].cursor /\ evconn[c].cursor < evnext
       /\ \A i, j \in 1 .. Len(b) : i < j => b[i] < b[j]
       /\ \A i \in 1 .. Len(b) : evlast[c] < b[i] /\ b[i] <= evconn[c].cursor

(* The stream and the pages keep their types; ids grow along the stream.    *)
LEMMA StreamTyping == EvSpec => [](EvTypeOK /\ Stream)
<1> USE EvAssumption
<1>1. EvInit => EvTypeOK /\ Stream
  BY DEF EvInit, EvTypeOK, EvConnections, Stream, Increasing
<1>2. EvTypeOK /\ Stream /\ [EvNext]_evvars => EvTypeOK' /\ Stream'
  <2> SUFFICES ASSUME EvTypeOK, Stream, [EvNext]_evvars PROVE EvTypeOK' /\ Stream'
    OBVIOUS
  <2>c. \A c \in EvPages : evconn[c].step = "on" =>
          /\ evconn[c].cursor \in 0 .. EvMaxId
          /\ evconn[c].batch \in Seq(EvIds)
    BY DEF EvTypeOK, EvConnections, EvOff
  <2>n. \A k \in 0 .. EvMaxId, b \in Seq(EvIds) :
          [step |-> "on", cursor |-> k, batch |-> b] \in EvConnections
    BY DEF EvConnections
  <2>e. <<>> \in Seq(EvIds) /\ 0 \in 0 .. EvMaxId
    OBVIOUS
  <2>l. /\ evlog \in Seq(EvEntry) /\ Len(evlog) \in Nat
        /\ \A i \in 1 .. Len(evlog) : evlog[i].id \in Nat
    <3>1. evlog \in Seq(EvEntry) /\ \A i \in 1 .. Len(evlog) : evlog[i] \in EvEntry
      BY DEF EvTypeOK
    <3>2. \A e \in EvEntry : e.id \in Nat
      BY DEF EvEntry, EvIds
    <3> QED
      BY <3>1, <3>2
  <2>s. evlog' = evlog /\ evnext' = evnext => Stream'
    BY DEF Stream
  <2>1. CASE TrimEvents
    <3>1. PICK n \in 1 .. Len(evlog) - EvRetention : evlog' = SubSeq(evlog, n + 1, Len(evlog))
      BY <2>1 DEF TrimEvents
    <3>2. evlog' \in Seq(EvEntry)
      BY <3>1 DEF EvTypeOK
    <3>3. /\ Len(evlog') = Len(evlog) - n
          /\ \A i \in 1 .. Len(evlog) - n : evlog'[i] = evlog[i + n]
      BY <3>1, <2>l
    <3>4. Stream'
      <4>1. \A i, j \in 1 .. Len(evlog) - n : i < j => evlog[i + n].id < evlog[j + n].id
        BY <2>l DEF Stream, Increasing
      <4>2. Increasing(evlog')
        BY <3>3, <4>1 DEF Increasing
      <4>3. \A i \in 1 .. Len(evlog') : evlog'[i].id < evnext
        <5>1. \A i \in 1 .. Len(evlog) - n : i + n \in 1 .. Len(evlog)
          BY <2>l
        <5> QED
          BY <3>3, <5>1 DEF Stream
      <4> QED
        BY <2>1, <4>2, <4>3 DEF Stream, TrimEvents
    <3> QED
      BY <2>1, <3>2, <3>4 DEF TrimEvents, EvTypeOK
  <2>2. ASSUME NEW t \in EvTasks, Emit(t) PROVE EvTypeOK' /\ Stream'
    <3>1. [id |-> evnext, task |-> t] \in EvEntry
      BY <2>2 DEF Emit, EvTypeOK, EvEntry, EvIds
    <3>2. EvTypeOK'
      BY <2>2, <3>1 DEF Emit, EvTypeOK
    <3>3. /\ Len(evlog') = Len(evlog) + 1 /\ evlog'[Len(evlog) + 1].id = evnext
          /\ \A i \in 1 .. Len(evlog) : evlog'[i] = evlog[i]
          /\ evnext' = evnext + 1 /\ evnext \in Nat
      BY <2>2, <2>l, <3>1 DEF Emit, EvTypeOK
    <3>4. Stream'
      <4>1. \A i \in 1 .. Len(evlog') : i \in 1 .. Len(evlog) \/ i = Len(evlog) + 1
        BY <2>l, <3>3
      <4>2. \A i \in 1 .. Len(evlog') : evlog'[i].id < evnext'
        BY <2>l, <3>3, <4>1 DEF Stream
      <4>3. Increasing(evlog')
        <5> SUFFICES ASSUME NEW i \in 1 .. Len(evlog'), NEW j \in 1 .. Len(evlog'), i < j
                     PROVE  evlog'[i].id < evlog'[j].id
          BY DEF Increasing
        <5>1. i \in 1 .. Len(evlog)
          BY <2>l, <3>3
        <5>2. CASE j \in 1 .. Len(evlog)
          BY <3>3, <5>1, <5>2 DEF Stream, Increasing
        <5>3. CASE j = Len(evlog) + 1
          BY <3>3, <5>1, <5>3 DEF Stream
        <5> QED
          BY <4>1, <5>2, <5>3
      <4> QED
        BY <4>2, <4>3 DEF Stream
    <3> QED
      BY <3>2, <3>4
  <2>3. ASSUME NEW t \in EvTasks, RemoveEvents(t) PROVE EvTypeOK' /\ Stream'
    <3>1. /\ evlog' \in Seq(EvEntry) /\ Increasing(evlog')
          /\ \A y : Contains(evlog', y) => Contains(evlog, y)
      BY <2>3, <2>l, KeepType, KeepIncreasing, KeepContains DEF RemoveEvents, Stream
    <3>2. \A i \in 1 .. Len(evlog') : evlog'[i].id < evnext
      BY <3>1, <2>l DEF Contains, Stream
    <3> QED
      BY <2>3, <3>1, <3>2 DEF RemoveEvents, EvTypeOK, Stream
  <2>4. ASSUME NEW c \in EvPages, OpenPage(c) PROVE EvTypeOK' /\ Stream'
    <3>1. evconn' \in [EvPages -> EvConnections]
      BY <2>4, <2>n, <2>e DEF OpenPage, EvTypeOK
    <3>2. evlast' \in [EvPages -> 0 .. EvMaxId] /\ evgot' \in [EvPages -> SUBSET EvIds]
      BY <2>4, <2>e DEF OpenPage, EvTypeOK
    <3> QED
      BY <2>4, <2>s, <3>1, <3>2 DEF OpenPage, EvTypeOK
  <2>5. ASSUME NEW c \in EvPages, Reconnect(c) PROVE EvTypeOK' /\ Stream'
    <3>1. evlast[c] \in 0 .. EvMaxId
      BY DEF EvTypeOK
    <3>2. evconn' \in [EvPages -> EvConnections]
      BY <2>5, <2>n, <2>e, <3>1 DEF Reconnect, ReconnectCursor, EvTypeOK
    <3> QED
      BY <2>5, <2>s, <3>2 DEF Reconnect, EvTypeOK
  <2>6. ASSUME NEW c \in EvPages, ReadEvents(c) PROVE EvTypeOK' /\ Stream'
    <3> DEFINE from == evconn[c].cursor
    <3>1. from \in 0 .. EvMaxId
      BY <2>6, <2>c DEF ReadEvents
    <3>2. BatchOf(c, from) \in Seq(EvIds) /\ CursorAfter(c, from) \in 0 .. EvMaxId
      BY <3>1, BatchFacts DEF Stream
    <3>3. evconn' \in [EvPages -> EvConnections]
      BY <2>6, <2>n, <3>2 DEF ReadEvents, EvTypeOK
    <3> QED
      BY <2>6, <2>s, <3>3 DEF ReadEvents, EvTypeOK
  <2>7. ASSUME NEW c \in EvPages, YieldEvent(c) PROVE EvTypeOK' /\ Stream'
    <3> DEFINE b == evconn[c].batch
    <3>1. b \in Seq(EvIds) /\ b # <<>> /\ evconn[c].cursor \in 0 .. EvMaxId
      BY <2>7, <2>c DEF YieldEvent
    <3>2. Head(b) \in EvIds /\ Tail(b) \in Seq(EvIds)
      BY <3>1
    <3>3. evconn' = [evconn EXCEPT ![c] =
                       [step |-> "on", cursor |-> evconn[c].cursor, batch |-> Tail(b)]]
      <4>1. evconn[c] \in [step : {"on"}, cursor : 0 .. EvMaxId, batch : Seq(EvIds)]
        BY <2>7 DEF YieldEvent, EvTypeOK, EvConnections, EvOff
      <4>2. [evconn[c] EXCEPT !.batch = Tail(b)] =
              [step |-> "on", cursor |-> evconn[c].cursor, batch |-> Tail(b)]
        <5>1. \A r, x : r \in [step : {"on"}, cursor : 0 .. EvMaxId, batch : Seq(EvIds)] =>
                [r EXCEPT !.batch = x] = [step |-> "on", cursor |-> r.cursor, batch |-> x]
          OBVIOUS
        <5> QED
          BY <4>1, <5>1
      <4>3. evconn' = [evconn EXCEPT ![c] = [evconn[c] EXCEPT !.batch = Tail(b)]]
        BY <2>7 DEF YieldEvent, EvTypeOK
      <4> QED
        BY <4>2, <4>3
    <3> HIDE DEF b
    <3>4. evconn' \in [EvPages -> EvConnections]
      BY <2>n, <3>1, <3>2, <3>3 DEF EvTypeOK
    <3>5. /\ evlast' \in [EvPages -> 0 .. EvMaxId]
          /\ evgot' \in [EvPages -> SUBSET EvIds]
      BY <2>7, <3>2 DEF YieldEvent, EvTypeOK, EvIds, b
    <3> QED
      BY <2>7, <2>s, <3>4, <3>5 DEF YieldEvent, EvTypeOK
  <2>8. ASSUME NEW c \in EvPages, Disconnect(c) PROVE EvTypeOK' /\ Stream'
    <3>1. evconn' \in [EvPages -> EvConnections]
      BY <2>8 DEF Disconnect, EvTypeOK, EvConnections
    <3> QED
      BY <2>8, <2>s, <3>1 DEF Disconnect, EvTypeOK
  <2>9. CASE UNCHANGED evvars
    BY <2>9, <2>s DEF evvars, EvTypeOK
  <2> QED
    BY <2>1, <2>2, <2>3, <2>4, <2>5, <2>6, <2>7, <2>8, <2>9 DEF EvNext
<1> QED
  BY <1>1, <1>2, PTL DEF EvSpec

(* A page that reconnects with the last id it was shown misses no event     *)
(* of its task that the stream still has and sees none twice.               *)
THEOREM NoEventMissedOrRepeated == EvSpec => []EventsExactlyOnce
<1> USE EvAssumption
<1> DEFINE I == \A c \in EvPages : PageInv(c)
<1>1. EvInit => I
  BY DEF EvInit, PageInv, PassedBy, OnItsWayTo, ToSet
<1>2. EvTypeOK /\ Stream /\ EvTypeOK' /\ I /\ [EvNext]_evvars => I'
  <2> SUFFICES ASSUME EvTypeOK, Stream, EvTypeOK', I, [EvNext]_evvars,
                      NEW d \in EvPages
               PROVE  PageInv(d)'
    OBVIOUS
  <2>i. PageInv(d)
    OBVIOUS
  <2>t. /\ ToSet(evlog) \subseteq EvEntry
        /\ \A e \in ToSet(evlog) : e.id \in Nat /\ e.id > 0 /\ e.id < evnext
        /\ evnext \in Nat /\ evnext > 0
        /\ evlast[d] \in Nat /\ evgot[d] \subseteq Nat
    <3>1. /\ evlog \in Seq(EvEntry) /\ DOMAIN evlog = 1 .. Len(evlog)
          /\ \A i \in 1 .. Len(evlog) : evlog[i] \in EvEntry
      BY DEF EvTypeOK
    <3>2. \A e \in EvEntry : e.id \in Nat /\ e.id > 0
      BY DEF EvEntry, EvIds
    <3>3. \A e \in ToSet(evlog) : e \in EvEntry /\ e.id < evnext
      BY <3>1 DEF ToSet, Stream
    <3> QED
      BY <3>2, <3>3 DEF EvTypeOK, EvIds
  <2>c. evconn[d] # EvOff =>
          /\ evconn[d].step = "on" /\ evconn[d].cursor \in 0 .. EvMaxId
          /\ evconn[d].cursor \in Nat /\ evconn[d].batch \in Seq(EvIds)
    BY DEF EvTypeOK, EvConnections
  <2>o. evconn[d].step = "on" => evconn[d] # EvOff
    BY DEF EvOff
  (* A step that leaves the page alone.                                     *)
  <2>k. ASSUME evlast'[d] = evlast[d], evgot'[d] = evgot[d], evconn'[d] = evconn[d],
               evnext' >= evnext, evnext' \in Nat,
               \A e \in ToSet(evlog') : e \in ToSet(evlog) \/ e.id = evnext
        PROVE  PageInv(d)'
    <3>1. PassedBy(d)' = PassedBy(d) /\ OnItsWayTo(d)' = OnItsWayTo(d)
      BY <2>k DEF PassedBy, OnItsWayTo
    <3>2. PassedBy(d) < evnext /\ PassedBy(d) \in Nat
      BY <2>i, <2>t, <2>c DEF PassedBy, PageInv
    <3>3. \A e \in ToSet(evlog') : 
            e.task = EvFollowed[d] /\ e.id <= PassedBy(d) =>
              e.id \in evgot[d] \cup OnItsWayTo(d)
      BY <2>k, <2>i, <2>t, <3>2 DEF PageInv
    <3> QED
      BY <2>k, <2>i, <2>t, <2>c, <3>1, <3>3 DEF PageInv
  <2>1. CASE TrimEvents
    <3>1. PICK n \in 1 .. Len(evlog) - EvRetention : evlog' = SubSeq(evlog, n + 1, Len(evlog))
      BY <2>1 DEF TrimEvents
    <3>2. ASSUME NEW e \in ToSet(evlog') PROVE e \in ToSet(evlog)
      <4>1. evlog \in Seq(EvEntry)
        BY DEF EvTypeOK
      <4>2. PICK i \in DOMAIN evlog' : e = evlog'[i]
        BY ONLY <3>2 DEF ToSet
      <4>3. n + i \in DOMAIN evlog /\ e = evlog[n + i]
        <5>1. /\ Len(evlog') = Len(evlog) - n /\ i \in 1 .. Len(evlog')
              /\ evlog'[i] = evlog[(n + 1) + i - 1]
          BY ONLY <3>1, <4>1, <4>2, n \in 1 .. Len(evlog) - EvRetention, EvRetention \in Nat
        <5> QED
          BY ONLY <4>1, <4>2, <5>1, n \in 1 .. Len(evlog) - EvRetention, EvRetention \in Nat
      <4> QED
        BY ONLY <4>3 DEF ToSet
    <3> QED
      BY <2>1, <2>k, <2>t, <3>2 DEF TrimEvents
  <2>2. ASSUME NEW t \in EvTasks, Emit(t) PROVE PageInv(d)'
    <3>1. \A e \in ToSet(evlog') : e \in ToSet(evlog) \/ e.id = evnext
      <4>1. evlog' = Append(evlog, [id |-> evnext, task |-> t])
        BY <2>2 DEF Emit
      <4>2. evlog \in Seq(EvEntry)
        BY DEF EvTypeOK
      <4> QED
        BY <4>1, <4>2 DEF ToSet
    <3> QED
      BY <2>2, <2>k, <2>t, <3>1 DEF Emit
  <2>3. ASSUME NEW t \in EvTasks, RemoveEvents(t) PROVE PageInv(d)'
    <3>1. evlog \in Seq(EvEntry) /\ evlog' \in Seq(EvEntry)
      BY DEF EvTypeOK
    <3>2. \A y : Contains(evlog', y) => Contains(evlog, y)
      BY <2>3, <3>1, KeepContains DEF RemoveEvents
    <3>3. ASSUME NEW e \in ToSet(evlog') PROVE e \in ToSet(evlog)
      <4>1. Contains(evlog', e)
        BY ONLY <3>3 DEF Contains, ToSet
      <4>2. Contains(evlog, e)
        BY ONLY <3>2, <4>1
      <4> QED
        BY ONLY <4>2 DEF Contains, ToSet
    <3> QED
      BY <2>3, <2>k, <2>t, <3>3 DEF RemoveEvents
  <2>4. ASSUME NEW c \in EvPages, OpenPage(c) PROVE PageInv(d)'
    <3>1. CASE c = d
      <4>1. /\ evlast'[d] = 0 /\ evgot'[d] = {} /\ evlog' = evlog /\ evnext' = evnext
            /\ evconn'[d] = [step |-> "on", cursor |-> 0, batch |-> <<>>]
        BY <2>4, <3>1 DEF OpenPage, EvTypeOK
      <4>2. evconn'[d] # EvOff /\ PassedBy(d)' = 0 /\ OnItsWayTo(d)' = ToSet(<<>>)
        BY <4>1 DEF EvOff, PassedBy, OnItsWayTo
      <4>3. Len(<<>>) = 0
        OBVIOUS
      <4> QED
        BY <2>t, <4>1, <4>2, <4>3 DEF PageInv
    <3>2. CASE c # d
      BY <2>4, <2>k, <2>t, <3>2 DEF OpenPage, EvTypeOK
    <3> QED
      BY <3>1, <3>2
  <2>5. ASSUME NEW c \in EvPages, Reconnect(c) PROVE PageInv(d)'
    <3>1. CASE c = d
      <4>1. /\ evlast'[d] = evlast[d] /\ evgot'[d] = evgot[d]
            /\ evlog' = evlog /\ evnext' = evnext /\ evconn[d] = EvOff
            /\ evconn'[d] = [step |-> "on", cursor |-> evlast[d], batch |-> <<>>]
        BY <2>5, <3>1 DEF Reconnect, ReconnectCursor, EvTypeOK
      <4>2. /\ evconn'[d] # EvOff /\ PassedBy(d)' = evlast[d]
            /\ OnItsWayTo(d)' = ToSet(<<>>) /\ OnItsWayTo(d) = {} /\ PassedBy(d) = evlast[d]
        BY <4>1 DEF EvOff, PassedBy, OnItsWayTo
      <4>3. Len(<<>>) = 0
        OBVIOUS
      <4> QED
        BY <2>i, <2>t, <4>1, <4>2, <4>3 DEF PageInv
    <3>2. CASE c # d
      BY <2>5, <2>k, <2>t, <3>2 DEF Reconnect, EvTypeOK
    <3> QED
      BY <3>1, <3>2
  <2>6. ASSUME NEW c \in EvPages, ReadEvents(c) PROVE PageInv(d)'
    <3>1. CASE c = d
      <4> DEFINE from == evconn[d].cursor
                 b == BatchOf(d, from)
                 to == CursorAfter(d, from)
      <4>1. /\ evlast' = evlast /\ evgot' = evgot
            /\ evlog' = evlog /\ evnext' = evnext
            /\ evconn[d] # EvOff /\ evconn[d].batch = <<>>
            /\ evconn'[d] = [step |-> "on", cursor |-> to, batch |-> b]
        BY <2>6, <2>o, <3>1 DEF ReadEvents, EvTypeOK
      <4>2. from \in 0 .. EvMaxId
        BY <2>c, <4>1
      <4>3. /\ b \in Seq(EvIds) /\ to \in 0 .. EvMaxId
            /\ \A i, j \in 1 .. Len(b) : i < j => b[i] < b[j]
            /\ \A i \in 1 .. Len(b) : from < b[i] /\ b[i] <= to
            /\ from <= to /\ to \in {from} \cup {e.id : e \in ToSet(evlog)}
            /\ \A e \in ToSet(evlog) :
                 e.task = EvFollowed[d] /\ from < e.id /\ e.id <= to =>
                   \E i \in 1 .. Len(b) : b[i] = e.id
        BY <4>2, BatchFacts DEF Stream
      <4>4. from < evnext /\ evlast[d] <= from /\ from \in Nat
        BY <2>c, <2>i, <4>1 DEF PageInv
      <4> HIDE DEF from, b, to
      <4>5. /\ evconn'[d] # EvOff /\ PassedBy(d)' = to /\ OnItsWayTo(d)' = ToSet(b)
            /\ evconn'[d].cursor = to /\ evconn'[d].batch = b
        BY <4>1 DEF EvOff, PassedBy, OnItsWayTo
      <4>6. PassedBy(d) = from /\ OnItsWayTo(d) = {}
        BY <4>1 DEF PassedBy, OnItsWayTo, ToSet, from
      <4>7. to < evnext /\ to \in Nat
        BY <2>t, <4>3, <4>4
      <4>8. \A i \in 1 .. Len(b) : b[i] \in ToSet(b) /\ b[i] \in Nat
        BY <4>3 DEF ToSet, EvIds
      <4>9. \A e \in ToSet(evlog) : e.task = EvFollowed[d] /\ e.id <= to =>
              e.id \in evgot[d] \cup ToSet(b)
        BY <2>i, <2>t, <4>3, <4>4, <4>6, <4>8 DEF PageInv
      <4>10. \A i \in 1 .. Len(b) : evlast[d] < b[i]
        BY <2>t, <4>3, <4>4, <4>8
      <4>11. evlast[d] <= to
        BY <2>t, <4>3, <4>4, <4>7
      <4> QED
        BY <2>i, <2>t, <4>1, <4>3, <4>5, <4>7, <4>9, <4>10, <4>11 DEF PageInv
    <3>2. CASE c # d
      BY <2>6, <2>k, <2>t, <3>2 DEF ReadEvents, EvTypeOK
    <3> QED
      BY <3>1, <3>2
  <2>7. ASSUME NEW c \in EvPages, YieldEvent(c) PROVE PageInv(d)'
    <3>1. CASE c = d
      <4> DEFINE b == evconn[d].batch
                 id == Head(b)
      <4>1. /\ evlast'[d] = id /\ evgot'[d] = evgot[d] \cup {id}
            /\ evlog' = evlog /\ evnext' = evnext
            /\ evconn[d] # EvOff /\ b # <<>>
            /\ evconn'[d].step = "on"
            /\ evconn'[d].cursor = evconn[d].cursor /\ evconn'[d].batch = Tail(b)
        BY <2>7, <2>o, <3>1 DEF YieldEvent, EvTypeOK, EvConnections
      <4>2. b \in Seq(EvIds) /\ evconn[d].cursor \in Nat
        BY <2>c, <4>1
      <4>3. /\ Len(b) \in Nat \ {0} /\ id = b[1] /\ id \in Nat
            /\ Len(Tail(b)) = Len(b) - 1
            /\ \A i \in 1 .. Len(b) - 1 : Tail(b)[i] = b[i + 1]
            /\ \A i \in 1 .. Len(b) : b[i] \in Nat
        <5> HIDE DEF b
        <5>1. EvIds \subseteq Nat
          BY DEF EvIds
        <5>2. /\ Len(b) \in Nat \ {0} /\ \A i \in 1 .. Len(b) : b[i] \in EvIds
          BY <4>1, <4>2
        <5>3. /\ id = b[1] /\ Len(Tail(b)) = Len(b) - 1
              /\ \A i \in 1 .. Len(b) - 1 : Tail(b)[i] = b[i + 1]
          BY <4>1, <4>2
        <5>4. \A i \in 1 .. Len(b) : b[i] \in Nat
          BY ONLY <5>1, <5>2
        <5>5. 1 \in 1 .. Len(b)
          BY ONLY <5>2
        <5>6. id \in Nat
          BY ONLY <5>3, <5>4, <5>5
        <5> QED
          BY <5>2, <5>3, <5>4, <5>6
      <4>4. ToSet(b) \subseteq {id} \cup ToSet(Tail(b))
        <5>1. Tail(b) \in Seq(EvIds)
          BY <4>1, <4>2
        <5>2. \A i \in 1 .. Len(b) : i = 1 \/ (i - 1 \in 1 .. Len(b) - 1 /\ (i - 1) + 1 = i)
          BY <4>3
        <5>3. DOMAIN b = 1 .. Len(b) /\ DOMAIN Tail(b) = 1 .. Len(b) - 1
          BY <4>2, <4>3, <5>1
        <5>4. \A i \in 1 .. Len(b) : IF i = 1 THEN b[i] = id ELSE b[i] = Tail(b)[i - 1]
          BY <4>3, <5>2
        <5> HIDE DEF b, id
        <5>5. \A i \in 1 .. Len(b) : b[i] \in {id} \cup {Tail(b)[k] : k \in 1 .. Len(b) - 1}
          BY <5>2, <5>4
        <5> QED
          BY <5>3, <5>5 DEF ToSet
      <4>5. /\ evlast[d] < id /\ id <= evconn[d].cursor /\ evconn[d].cursor < evnext
            /\ \A i \in 1 .. Len(b) - 1 : id < b[i + 1] /\ b[i + 1] <= evconn[d].cursor
        BY <2>i, <4>1, <4>3 DEF PageInv
      <4>6. \A i, j \in 1 .. Len(b) : i < j => b[i] < b[j]
        BY <2>i, <4>1 DEF PageInv
      <4> HIDE DEF b, id
      <4>7. /\ evconn'[d] # EvOff
            /\ PassedBy(d)' = evconn[d].cursor /\ OnItsWayTo(d)' = ToSet(Tail(b))
            /\ PassedBy(d) = evconn[d].cursor /\ OnItsWayTo(d) = ToSet(b)
        BY <4>1 DEF EvOff, PassedBy, OnItsWayTo, b
      <4>8. \A e \in ToSet(evlog') : e.task = EvFollowed[d] /\ e.id <= PassedBy(d)' =>
              e.id \in evgot'[d] \cup OnItsWayTo(d)'
        BY <2>i, <4>1, <4>4, <4>7 DEF PageInv
      <4>9. \A i \in evgot'[d] : i <= evlast'[d]
        BY <2>i, <2>t, <4>1, <4>3, <4>5 DEF PageInv
      <4>10. \A i, j \in 1 .. Len(Tail(b)) : i < j => Tail(b)[i] < Tail(b)[j]
        BY <4>3, <4>6
      <4>11. \A i \in 1 .. Len(Tail(b)) :
               evlast'[d] < Tail(b)[i] /\ Tail(b)[i] <= evconn'[d].cursor
        BY <4>1, <4>3, <4>5
      <4> QED
        BY SMTT(30), <2>t, <4>1, <4>2, <4>3, <4>5, <4>8, <4>9, <4>10, <4>11 DEF PageInv
    <3>2. CASE c # d
      BY <2>7, <2>k, <2>t, <3>2 DEF YieldEvent, EvTypeOK
    <3> QED
      BY <3>1, <3>2
  <2>8. ASSUME NEW c \in EvPages, Disconnect(c) PROVE PageInv(d)'
    <3>1. CASE c = d
      <4>1. /\ evlast' = evlast /\ evgot' = evgot /\ evlog' = evlog /\ evnext' = evnext
            /\ evconn[d] # EvOff /\ evconn'[d] = EvOff
        BY <2>8, <2>o, <3>1 DEF Disconnect, EvTypeOK
      <4>2. /\ PassedBy(d)' = evlast[d] /\ OnItsWayTo(d)' = {}
            /\ PassedBy(d) = evconn[d].cursor /\ OnItsWayTo(d) = ToSet(evconn[d].batch)
        BY <4>1 DEF PassedBy, OnItsWayTo
      <4>3. \A i \in ToSet(evconn[d].batch) : evlast[d] < i /\ i \in Nat
        <5>1. \A k \in 1 .. Len(evconn[d].batch) :
                evlast[d] < evconn[d].batch[k] /\ evconn[d].batch[k] \in Nat
          BY <2>i, <2>c, <4>1 DEF PageInv, EvIds
        <5> QED
          BY ONLY <5>1 DEF ToSet
      <4>4. \A e \in ToSet(evlog) : e.task = EvFollowed[d] /\ e.id <= evlast[d] =>
              e.id \in evgot[d]
        BY <2>i, <2>t, <2>c, <4>1, <4>2, <4>3 DEF PageInv
      <4> QED
        BY <2>i, <2>t, <4>1, <4>2, <4>4 DEF PageInv
    <3>2. CASE c # d
      BY <2>8, <2>k, <2>t, <3>2 DEF Disconnect, EvTypeOK
    <3> QED
      BY <3>1, <3>2
  <2>9. CASE UNCHANGED evvars
    BY <2>9, <2>k, <2>t DEF evvars
  <2> QED
    BY <2>1, <2>2, <2>3, <2>4, <2>5, <2>6, <2>7, <2>8, <2>9 DEF EvNext
<1>3. EvTypeOK /\ I => EventsExactlyOnce
  <2> SUFFICES ASSUME EvTypeOK, I, NEW c \in EvPages
               PROVE  /\ \A e \in ToSet(evlog) :
                           e.task = EvFollowed[c] /\ e.id <= PassedBy(c) =>
                             e.id \in evgot[c] \cup OnItsWayTo(c)
                      /\ evgot[c] \cap OnItsWayTo(c) = {}
                      /\ \A i \in evgot[c] : i <= evlast[c]
    BY DEF EventsExactlyOnce
  <2>1. PageInv(c)
    OBVIOUS
  <2>2. \A i \in OnItsWayTo(c) : evlast[c] < i /\ i \in Nat
    <3>1. CASE evconn[c] = EvOff
      BY <3>1 DEF OnItsWayTo
    <3>2. CASE evconn[c] # EvOff
      <4> DEFINE b == evconn[c].batch
      <4>1. b \in Seq(EvIds)
        BY <3>2 DEF EvTypeOK, EvConnections
      <4>2. DOMAIN b = 1 .. Len(b) /\ \A i \in 1 .. Len(b) : b[i] \in Nat
        BY <4>1 DEF EvIds
      <4>3. \A i \in 1 .. Len(b) : evlast[c] < b[i]
        BY <2>1, <3>2 DEF PageInv
      <4> QED
        BY <3>2, <4>2, <4>3 DEF OnItsWayTo, ToSet
    <3> QED
      BY <3>1, <3>2
  <2>3. evlast[c] \in Nat /\ evgot[c] \subseteq Nat
    BY DEF EvTypeOK, EvIds
  <2> QED
    BY <2>1, <2>2, <2>3 DEF PageInv
<1> QED
  BY <1>1, <1>2, <1>3, StreamTyping, PTL DEF EvSpec

-----------------------------------------------------------------------------
(* FundFlow.                                                                *)

(* Every figure the outcome has was given after the tick.                   *)
Since(got, t) == \A f \in Figures(got) : got[f] + FfTtl > t

(* A row's figures are as young as its minute but for the client's interval, *)
(* those of the cache as young as their entry, and a copy under way is as    *)
(* young as the stamp of its round or reader.                                *)
RowInv ==
  \A s \in FfSymbols, m \in FfMinutes : frow[s][m] # FfNone =>
    MinuteOf(frow[s][m].captured) = m /\ Since(frow[s][m].got, FfMinute * m)
CacheInv ==
  \A s \in FfSymbols : fcache[s] # FfNone =>
    \A f \in Figures(fcache[s].got) : fcache[s].got[f] >= fcache[s].captured
PollInv ==
  \A s \in FfWatched : fmon[s] # FfNone =>
    /\ fmon[s].now <= ftime
    /\ fmon[s].got # FfNone => Since(fmon[s].got, fmon[s].now)
ReadInv ==
  /\ fread.step # "idle" => fread.now <= ftime
  /\ fread.step = "keep" => Since(fread.got, fread.now)
  /\ FundFlowIsFresh

FundInv == RowInv /\ CacheInv /\ PollInv /\ ReadInv

(* A row that is found is a row of the table.                               *)
LEMMA FoundRows ==
  ASSUME NEW s, NEW now
  PROVE  /\ Recent(s, now) # FfNone =>
              \E m \in FfMinutes :
                /\ Recent(s, now) = frow[s][m] /\ frow[s][m] # FfNone
                /\ ~(now > frow[s][m].captured + FfFresh)
         /\ LastSample(s) # FfNone =>
              \E m \in FfMinutes : LastSample(s) = frow[s][m] /\ frow[s][m] # FfNone
<1>0. FfEnd \div FfMinute \in Nat
  BY FfAssumption
<1>1. ASSUME NEW ms, ms # {}, ms \subseteq {m \in FfMinutes : frow[s][m] # FfNone}
      PROVE  Max(ms) \in FfMinutes /\ frow[s][Max(ms)] # FfNone
  <2>1. ms \subseteq 0 .. FfEnd \div FfMinute
    BY <1>1 DEF FfMinutes
  <2>2. Max(ms) \in ms
    BY <1>0, <1>1, <2>1, MaxOfBounded
  <2> QED
    BY <1>1, <2>2
<1>2. \A day : Complete(s, day) \subseteq {m \in FfMinutes : frow[s][m] # FfNone}
  BY DEF Complete
<1>3. ASSUME Recent(s, now) # FfNone
      PROVE  \E m \in FfMinutes :
               /\ Recent(s, now) = frow[s][m] /\ frow[s][m] # FfNone
               /\ ~(now > frow[s][m].captured + FfFresh)
  <2> DEFINE ms == {m \in Complete(s, DayOf(now)) : m <= MinuteOf(now)}
  <2>1. Recent(s, now) = IF ms = {} THEN FfNone
                         ELSE IF now > frow[s][Max(ms)].captured + FfFresh THEN FfNone
                         ELSE frow[s][Max(ms)]
    BY DEF Recent
  <2>2. ms \subseteq {m \in FfMinutes : frow[s][m] # FfNone}
    BY <1>2
  <2> HIDE DEF ms
  <2> QED
    BY <1>1, <1>3, <2>1, <2>2
<1>4. ASSUME LastSample(s) # FfNone
      PROVE  \E m \in FfMinutes : LastSample(s) = frow[s][m] /\ frow[s][m] # FfNone
  <2>1. PICK ms : /\ ms \subseteq {m \in FfMinutes : frow[s][m] # FfNone}
                  /\ LastSample(s) = IF ms = {} THEN FfNone ELSE frow[s][Max(ms)]
    <3> DEFINE days == {DayOf(m * FfMinute) : m \in {n \in FfMinutes : frow[s][n] # FfNone}}
               xs == IF days = {} THEN {} ELSE Complete(s, Max(days))
    <3>1. LastSample(s) = IF xs = {} THEN FfNone ELSE frow[s][Max(xs)]
      BY DEF LastSample
    <3>2. xs \subseteq {m \in FfMinutes : frow[s][m] # FfNone}
      BY <1>2
    <3> HIDE DEF xs
    <3> QED
      BY <3>1, <3>2
  <2> QED
    BY <1>1, <1>4, <2>1
<1> QED
  BY <1>3, <1>4

(* The rows, the cache, the round and the reader keep their types.          *)
LEMMA FundTyping == FfSpec => []FfTypeOK
<1> USE FfAssumption
<1>1. FfInit => FfTypeOK
  BY DEF FfInit, FfTypeOK, FfTicks, FfReader, FfIdle
<1>2. FfTypeOK /\ [FfNext]_ffvars => FfTypeOK'
  <2> SUFFICES ASSUME FfTypeOK, [FfNext]_ffvars PROVE FfTypeOK'
    OBVIOUS
  <2>0. ftime \in FfTicks /\ 0 \in FfTicks
    BY DEF FfTypeOK, FfTicks
  <2>i. FfIdle \in FfReader
    BY DEF FfIdle, FfReader
  <2>m. \A t \in FfTicks : MinuteOf(t) \in FfMinutes /\ DayOf(t) \in FfDays
    BY DEF FfTicks, FfMinutes, FfDays, MinuteOf, DayOf
  <2>w. \A s \in FfWatched : fmon[s] # FfNone =>
          fmon[s].now \in FfTicks /\ fmon[s].got \in FfOutcome \cup {FfNone}
    BY DEF FfTypeOK
  <2>r. fread.step # "idle" =>
          /\ fread \in [step : {"lookup", "fallback", "live", "keep", "done"},
                        symbol : FfSymbols, now : FfTicks, got : FfOutcome,
                        via : {"none", "history", "closed", "live"}]
          /\ fread.symbol \in FfSymbols /\ fread.now \in FfTicks
          /\ fread.got \in FfOutcome
    BY DEF FfTypeOK, FfReader
  <2>s. ASSUME NEW st \in {"lookup", "fallback", "live", "keep", "done"},
               NEW got \in FfOutcome, NEW via \in {"none", "history", "closed", "live"},
               fread.step # "idle"
        PROVE  /\ [fread EXCEPT !.step = st] \in FfReader
               /\ [fread EXCEPT !.step = st, !.got = got] \in FfReader
               /\ [fread EXCEPT !.step = st, !.got = got, !.via = via] \in FfReader
    BY <2>r, <2>s DEF FfReader
  <2>c. ASSUME NEW s \in FfSymbols, NEW got \in LiveOutcomes(s)
        PROVE  got \in FfOutcome
    <3>1. CASE Young(s)
      BY <3>1 DEF LiveOutcomes, Young, FfTypeOK, FfRow
    <3>2. CASE ~Young(s)
      BY <2>0, <3>2 DEF LiveOutcomes, FfOutcome
    <3> QED
      BY <3>1, <3>2
  <2>k. ASSUME NEW s \in FfSymbols, NEW got \in FfOutcome, Cached(s, got)
        PROVE  fcache' \in [FfSymbols -> FfRow \cup {FfNone}]
    <3>1. [got |-> got, captured |-> ftime] \in FfRow
      BY <2>0 DEF FfRow
    <3> QED
      BY <2>k, <3>1 DEF Cached, FfTypeOK
  <2>g. ASSUME NEW s \in FfSymbols, NEW now \in FfTicks, NEW got \in FfOutcome
        PROVE  Recorded(s, now, got) \in [FfSymbols -> [FfMinutes -> FfRow \cup {FfNone}]]
    <3> DEFINE m == MinuteOf(now)
               r == [got |-> Merged(s, m, got), captured |-> now]
    <3>1. m \in FfMinutes /\ frow[s][m] \in FfRow \cup {FfNone}
      BY <2>m DEF FfTypeOK
    <3>2. frow[s][m] # FfNone => frow[s][m].got \in FfOutcome
      BY <3>1 DEF FfRow
    <3>3. r \in FfRow
      BY <3>1, <3>2 DEF Merged, FfRow, FfOutcome
    <3>4. frow[s] \in [FfMinutes -> FfRow \cup {FfNone}]
      BY DEF FfTypeOK
    <3>5. Recorded(s, now, got) = [frow EXCEPT ![s] = [frow[s] EXCEPT ![m] = r]]
      BY DEF Recorded, FfTypeOK
    <3> HIDE DEF m, r
    <3>6. [frow[s] EXCEPT ![m] = r] \in [FfMinutes -> FfRow \cup {FfNone}]
      BY <3>1, <3>3, <3>4
    <3> QED
      BY <3>5, <3>6 DEF FfTypeOK
  <2>1. CASE FfTick
    BY <2>1 DEF FfTick, FfTypeOK, FfTicks
  <2>2. CASE PollBegin
    BY <2>2, <2>0 DEF PollBegin, FfTypeOK
  <2>3. CASE FfRestart
    BY <2>3, <2>i DEF FfRestart, FfTypeOK
  <2>4. ASSUME NEW s \in FfWatched, PollRead(s) PROVE FfTypeOK'
    <3>1. PICK got \in Polled(s) :
            /\ Cached(s, got)
            /\ fmon' = [fmon EXCEPT ![s] = IF Figures(got) = {} THEN FfNone
                                           ELSE [@ EXCEPT !.got = got]]
      BY <2>4 DEF PollRead
    <3>2. got \in FfOutcome /\ s \in FfSymbols
      BY <2>c DEF Polled
    <3>3. fmon[s] # FfNone
      BY <2>4 DEF PollRead
    <3>4. [fmon[s] EXCEPT !.got = got] \in [now : FfTicks, got : FfOutcome \cup {FfNone}]
      BY <3>2, <3>3 DEF FfTypeOK
    <3>5. fmon' \in [FfWatched ->
            {FfNone} \cup [now : FfTicks, got : FfOutcome \cup {FfNone}]]
      BY <3>1, <3>4 DEF FfTypeOK
    <3> QED
      BY <2>4, <2>k, <3>1, <3>2, <3>5 DEF PollRead, FfTypeOK
  <2>5. ASSUME NEW s \in FfWatched, PollFails(s) PROVE FfTypeOK'
    BY <2>5 DEF PollFails, FfTypeOK
  <2>6. ASSUME NEW s \in FfWatched, PollRecord(s) PROVE FfTypeOK'
    <3>1. fmon[s].now \in FfTicks /\ fmon[s].got \in FfOutcome /\ s \in FfSymbols
      BY <2>6, <2>w DEF PollRecord
    <3>2. frow' \in [FfSymbols -> [FfMinutes -> FfRow \cup {FfNone}]]
      BY <2>6, <2>g, <3>1 DEF PollRecord
    <3>3. fmon' = [fmon EXCEPT ![s] = FfNone]
      BY <2>6 DEF PollRecord
    <3> QED
      BY <2>6, <3>2, <3>3 DEF PollRecord, FfTypeOK
  <2>7. ASSUME NEW s \in FfSymbols, ReadBegin(s) PROVE FfTypeOK'
    <3>1. NoFigure \in FfOutcome
      BY DEF NoFigure, FfOutcome
    <3>2. fread' \in FfReader
      BY <2>7, <2>0, <3>1 DEF ReadBegin, FfReader
    <3> QED
      BY <2>7, <3>2 DEF ReadBegin, FfTypeOK
  <2>8. CASE ReadLookup
    <3>1. fread.step # "idle" /\ fread.symbol \in FfSymbols
      BY <2>8, <2>r DEF ReadLookup
    <3>2. \A s \in FfSymbols, m \in FfMinutes :
            frow[s][m] # FfNone => frow[s][m].got \in FfOutcome
      BY DEF FfTypeOK, FfRow
    <3>3. PICK row :
            /\ row = IF fread.symbol \notin FfWatched THEN FfNone
                     ELSE IF FfOpen THEN Recent(fread.symbol, fread.now)
                     ELSE LastSample(fread.symbol)
            /\ fread' = IF row = FfNone THEN [fread EXCEPT !.step = "fallback"]
                        ELSE Answered(row.got, IF FfOpen THEN "history" ELSE "closed")
      BY <2>8 DEF ReadLookup
    <3>4. row # FfNone => row.got \in FfOutcome
      <4>1. row # FfNone => \E m \in FfMinutes :
              row = frow[fread.symbol][m] /\ frow[fread.symbol][m] # FfNone
        BY <3>3, FoundRows
      <4> QED
        BY <3>1, <3>2, <4>1
    <3>5. fread' \in FfReader
      BY <2>s, <2>r, <3>1, <3>3, <3>4 DEF Answered
    <3> QED
      BY <2>8, <3>5 DEF ReadLookup, FfTypeOK
  <2>9. CASE ReadFallback
    <3>1. fread.step # "idle" /\ fread.symbol \in FfSymbols /\ DayOf(fread.now) \in FfDays
      BY <2>9, <2>r, <2>m DEF ReadFallback
    <3>2. ffall[fread.symbol][DayOf(fread.now)] \in FfOutcome \cup {FfNone}
      BY <3>1 DEF FfTypeOK
    <3>3. fread' \in FfReader
      BY <2>9, <2>s, <2>r, <3>1, <3>2 DEF ReadFallback, Answered
    <3> QED
      BY <2>9, <3>3 DEF ReadFallback, FfTypeOK
  <2>10. CASE ReadLive
    <3>1. fread.step # "idle" /\ fread.symbol \in FfSymbols
      BY <2>10, <2>r DEF ReadLive
    <3>2. PICK got \in LiveOutcomes(fread.symbol) :
            /\ Cached(fread.symbol, got)
            /\ fread' = [fread EXCEPT !.step = "keep", !.got = got]
      BY <2>10 DEF ReadLive
    <3>3. got \in FfOutcome
      BY <2>c, <3>1
    <3>4. fread' \in FfReader
      BY <2>s, <3>1, <3>2, <3>3
    <3>5. fcache' \in [FfSymbols -> FfRow \cup {FfNone}]
      BY <2>k, <3>1, <3>2, <3>3
    <3> QED
      BY <2>10, <3>4, <3>5 DEF ReadLive, FfTypeOK
  <2>11. CASE ReadFails \/ ReadEnd
    BY <2>11, <2>i DEF ReadFails, ReadEnd, FfTypeOK
  <2>12. CASE ReadKeep
    <3> DEFINE s == fread.symbol
    <3>1. /\ fread.step # "idle" /\ s \in FfSymbols /\ fread.now \in FfTicks
          /\ fread.got \in FfOutcome /\ DayOf(fread.now) \in FfDays
      BY <2>12, <2>r, <2>m DEF ReadKeep
    <3>2. frow' \in [FfSymbols -> [FfMinutes -> FfRow \cup {FfNone}]]
      BY <2>12, <2>g, <3>1 DEF ReadKeep, FfTypeOK
    <3>3. ffall' \in [FfSymbols -> [FfDays -> FfOutcome \cup {FfNone}]]
      <4>1. ffall[s] \in [FfDays -> FfOutcome \cup {FfNone}]
        BY <3>1 DEF FfTypeOK
      <4>2. [ffall[s] EXCEPT ![DayOf(fread.now)] = fread.got] \in
              [FfDays -> FfOutcome \cup {FfNone}]
        BY <3>1, <4>1
      <4>3. ffall' = ffall \/
            ffall' = [ffall EXCEPT ![s] = [ffall[s] EXCEPT ![DayOf(fread.now)] = fread.got]]
        BY <2>12, <3>1 DEF ReadKeep, FfTypeOK
      <4> QED
        BY <4>2, <4>3 DEF FfTypeOK
    <3>4. fread' \in FfReader
      BY <2>12, <2>s, <3>1 DEF ReadKeep, Answered
    <3> QED
      BY <2>12, <3>2, <3>3, <3>4 DEF ReadKeep, FfTypeOK
  <2>13. CASE UNCHANGED ffvars
    BY <2>13 DEF ffvars, FfTypeOK
  <2> QED
    BY <2>1, <2>2, <2>3, <2>4, <2>5, <2>6, <2>7, <2>8, <2>9, <2>10, <2>11, <2>12,
       <2>13 DEF FfNext
<1> QED
  BY <1>1, <1>2, PTL DEF FfSpec

(* A tick lies in its minute.                                               *)
LEMMA MinuteSpan ==
  ASSUME NEW t \in FfTicks
  PROVE  /\ MinuteOf(t) \in FfMinutes /\ MinuteOf(t) \in Nat
         /\ FfMinute * MinuteOf(t) <= t /\ t < FfMinute * MinuteOf(t) + FfMinute
BY FfAssumption DEF FfTicks, FfMinutes, MinuteOf

(* While the market is open an answer has no figure older than the          *)
(* freshness of a row, the minute it stands for and the life of the cache   *)
(* allow together.                                                          *)
THEOREM FundFlowStaysFresh == FfSpec => []FundFlowIsFresh
<1> USE FfAssumption
<1>1. FfInit => FundInv
  BY DEF FfInit, FundInv, RowInv, CacheInv, PollInv, ReadInv, FfIdle, FundFlowIsFresh
<1>2. FfTypeOK /\ FfTypeOK' /\ FundInv /\ [FfNext]_ffvars => FundInv'
  <2> SUFFICES ASSUME FfTypeOK, FfTypeOK', FundInv, [FfNext]_ffvars PROVE FundInv'
    OBVIOUS
  <2> USE DEF FundInv
  <2>0. ftime \in Nat /\ \A t \in FfTicks : t \in Nat
    BY DEF FfTypeOK, FfTicks
  <2>o. \A got \in FfOutcome, f \in FfFields : f \in Figures(got) =>
          got[f] \in FfTicks /\ got[f] \in Nat
    BY DEF FfOutcome, Figures, FfTicks
  <2>r. fread.step # "idle" =>
          /\ fread.symbol \in FfSymbols /\ fread.now \in FfTicks
          /\ fread.now \in Nat /\ fread.got \in FfOutcome
    BY DEF FfTypeOK, FfReader, FfTicks
  <2>w. \A s \in FfSymbols, m \in FfMinutes : frow[s][m] # FfNone =>
          frow[s][m].got \in FfOutcome /\ frow[s][m].captured \in FfTicks
    BY DEF FfTypeOK, FfRow
  <2>m. \A s \in FfWatched : fmon[s] # FfNone =>
          fmon[s].now \in FfTicks /\ fmon[s].got \in FfOutcome \cup {FfNone}
    BY DEF FfTypeOK
  (* What a read of the source brings.                                      *)
  <2>l. ASSUME NEW s \in FfSymbols, NEW got \in LiveOutcomes(s)
        PROVE  got \in FfOutcome /\ Since(got, ftime)
    <3>1. CASE Young(s)
      <4>1. /\ got = fcache[s].got /\ fcache[s] # FfNone
            /\ ftime < fcache[s].captured + FfTtl
        BY <3>1 DEF LiveOutcomes, Young
      <4>2. got \in FfOutcome /\ fcache[s].captured \in Nat
        BY <4>1, <2>0 DEF FfTypeOK, FfRow
      <4>3. \A f \in Figures(got) : got[f] >= fcache[s].captured /\ got[f] \in Nat
        BY <2>o, <4>1, <4>2 DEF CacheInv, Figures
      <4> QED
        BY <2>0, <4>1, <4>2, <4>3 DEF Since
    <3>2. CASE ~Young(s)
      <4>1. PICK gap \in FfGaps : got = [f \in FfFields |-> IF f \in gap THEN FfNone ELSE ftime]
        BY <3>2 DEF LiveOutcomes
      <4>2. got \in FfOutcome
        BY <4>1 DEF FfOutcome, FfTypeOK
      <4>3. \A f \in Figures(got) : got[f] = ftime
        BY <4>1 DEF Figures
      <4> QED
        BY <2>0, <4>2, <4>3 DEF Since
    <3> QED
      BY <3>1, <3>2
  <2>c. ASSUME NEW s \in FfSymbols, NEW got \in LiveOutcomes(s), Cached(s, got)
        PROVE  CacheInv'
    <3>1. CASE Young(s)
      BY <2>c, <3>1 DEF Cached, CacheInv, FfTypeOK
    <3>2. CASE ~Young(s)
      <4>1. PICK gap \in FfGaps : got = [f \in FfFields |-> IF f \in gap THEN FfNone ELSE ftime]
        BY <3>2, <2>c DEF LiveOutcomes
      <4>2. \A f \in Figures(got) : got[f] >= ftime
        BY <2>0, <4>1 DEF Figures
      <4>3. fcache' = [fcache EXCEPT ![s] = [got |-> got, captured |-> ftime]]
        BY <2>c, <3>2 DEF Cached
      <4> QED
        BY <4>2, <4>3 DEF CacheInv, FfTypeOK
    <3> QED
      BY <3>1, <3>2
  (* What is recorded is as young as its minute.                            *)
  <2>g. ASSUME NEW s \in FfSymbols, NEW now \in FfTicks, NEW got \in FfOutcome,
               Since(got, now), frow' = Recorded(s, now, got)
        PROVE  RowInv'
    <3> DEFINE k == MinuteOf(now)
               x == Merged(s, k, got)
               row == [got |-> x, captured |-> now]
    <3>1. /\ k \in FfMinutes /\ k \in Nat /\ FfMinute * k <= now
          /\ FfMinute * k \in Nat /\ now \in Nat
      BY <2>0, MinuteSpan
    <3>2. ASSUME NEW f \in Figures(x) PROVE x[f] + FfTtl > FfMinute * k
      <4>1. f \in FfFields /\ x[f] # FfNone
        BY DEF Figures
      <4>2. CASE got[f] = FfNone /\ frow[s][k] # FfNone
        <5>1. x[f] = frow[s][k].got[f] /\ f \in Figures(frow[s][k].got)
          BY <4>1, <4>2 DEF Merged, Figures
        <5> QED
          BY <3>1, <4>2, <5>1 DEF RowInv, Since
      <4>3. CASE ~(got[f] = FfNone /\ frow[s][k] # FfNone)
        <5>1. x[f] = got[f] /\ f \in Figures(got)
          BY <4>1, <4>3 DEF Merged, Figures
        <5>2. got[f] + FfTtl > now /\ got[f] \in Nat
          BY <2>g, <2>o, <4>1, <5>1 DEF Since
        <5> QED
          BY <3>1, <5>1, <5>2
      <4> QED
        BY <4>2, <4>3
    <3>3. frow' = [frow EXCEPT ![s] = [frow[s] EXCEPT ![k] = row]]
      BY <2>g DEF Recorded, FfTypeOK
    <3>4. frow[s] \in [FfMinutes -> FfRow \cup {FfNone}]
      BY DEF FfTypeOK
    <3>5. Since(x, FfMinute * k)
      BY <3>2 DEF Since
    <3> HIDE DEF x
    <3>6. MinuteOf(row.captured) = k /\ row.got = x /\ row.captured = now
      OBVIOUS
    <3> HIDE DEF k, row
    <3>7. /\ frow'[s][k] = row
          /\ \A m \in FfMinutes : m # k => frow'[s][m] = frow[s][m]
          /\ \A u \in FfSymbols : u # s => frow'[u] = frow[u]
      BY <3>1, <3>3, <3>4 DEF FfTypeOK
    <3> QED
      BY <3>5, <3>6, <3>7 DEF RowInv
  <2>1. CASE FfTick
    <3>1. ftime' = ftime + 1
      BY <2>1 DEF FfTick
    <3> QED
      BY <2>1, <2>0, <2>r, <2>m, <3>1
         DEF FfTick, RowInv, CacheInv, PollInv, ReadInv, FundFlowIsFresh
  <2>2. CASE PollBegin
    <3>1. \A s \in FfWatched : fmon'[s].now = ftime /\ fmon'[s].got = FfNone
      BY <2>2 DEF PollBegin
    <3> QED
      BY <2>2, <2>0, <3>1 DEF PollBegin, RowInv, CacheInv, PollInv, ReadInv, FundFlowIsFresh
  <2>3. CASE FfRestart
    BY <2>3 DEF FfRestart, RowInv, CacheInv, PollInv, ReadInv, FundFlowIsFresh, FfIdle
  <2>4. ASSUME NEW s \in FfWatched, PollRead(s) PROVE FundInv'
    <3>1. PICK got \in LiveOutcomes(s) :
            /\ Cached(s, got)
            /\ fmon' = [fmon EXCEPT ![s] = IF Figures(got) = {} THEN FfNone
                                           ELSE [@ EXCEPT !.got = got]]
      BY <2>4 DEF PollRead, Polled
    <3>2. s \in FfSymbols
      OBVIOUS
    <3>3. got \in FfOutcome /\ Since(got, ftime) /\ CacheInv'
      BY <2>l, <2>c, <3>1, <3>2
    <3>4. fmon[s] # FfNone /\ fmon[s].now <= ftime /\ fmon[s].now \in Nat
      BY <2>4, <2>m, <2>0 DEF PollRead, PollInv
    <3>5. Since(got, fmon[s].now)
      BY <2>0, <2>o, <3>3, <3>4 DEF Since, Figures
    <3>6. fmon[s] \in [now : FfTicks, got : FfOutcome \cup {FfNone}]
      BY <3>4 DEF FfTypeOK
    <3>7. fmon'[s] # FfNone => fmon'[s].now = fmon[s].now /\ fmon'[s].got = got
      BY <3>1, <3>6 DEF FfTypeOK
    <3>8. \A u \in FfWatched : u # s => fmon'[u] = fmon[u]
      BY <3>1 DEF FfTypeOK
    <3>9. ftime' = ftime /\ frow' = frow /\ fread' = fread
      BY <2>4 DEF PollRead
    <3>10. PollInv'
      BY <3>4, <3>5, <3>7, <3>8, <3>9 DEF PollInv
    <3> QED
      BY <3>3, <3>9, <3>10 DEF RowInv, ReadInv, FundFlowIsFresh
  <2>5. ASSUME NEW s \in FfWatched, PollFails(s) PROVE FundInv'
    BY <2>5 DEF PollFails, RowInv, CacheInv, PollInv, ReadInv, FundFlowIsFresh, FfTypeOK
  <2>6. ASSUME NEW s \in FfWatched, PollRecord(s) PROVE FundInv'
    <3>1. /\ fmon[s].now \in FfTicks /\ fmon[s].got \in FfOutcome /\ s \in FfSymbols
          /\ Since(fmon[s].got, fmon[s].now)
      BY <2>6, <2>m DEF PollRecord, PollInv
    <3>2. RowInv'
      BY <2>6, <2>g, <3>1 DEF PollRecord
    <3> QED
      BY <2>6, <3>2 DEF PollRecord, CacheInv, PollInv, ReadInv, FundFlowIsFresh, FfTypeOK
  <2>7. ASSUME NEW s \in FfSymbols, ReadBegin(s) PROVE FundInv'
    BY <2>7, <2>0 DEF ReadBegin, RowInv, CacheInv, PollInv, ReadInv, FundFlowIsFresh
  <2>k. UNCHANGED <<ftime, frow, fcache, fmon>> => RowInv' /\ CacheInv' /\ PollInv'
    BY DEF RowInv, CacheInv, PollInv
  <2>8. CASE ReadLookup
    <3> DEFINE s == fread.symbol
               now == fread.now
    <3>1. /\ fread.step # "idle" /\ s \in FfSymbols /\ now \in Nat /\ now <= ftime
          /\ fread.step = "lookup"
      BY <2>8, <2>r DEF ReadLookup, ReadInv
    <3>2. PICK row :
            /\ row = IF s \notin FfWatched THEN FfNone
                     ELSE IF FfOpen THEN Recent(s, now) ELSE LastSample(s)
            /\ fread' = IF row = FfNone THEN [fread EXCEPT !.step = "fallback"]
                        ELSE Answered(row.got, IF FfOpen THEN "history" ELSE "closed")
      BY <2>8 DEF ReadLookup
    <3>3. fread \in [step : {"lookup", "fallback", "live", "keep", "done"},
                     symbol : FfSymbols, now : FfTicks, got : FfOutcome,
                     via : {"none", "history", "closed", "live"}]
      BY <3>1 DEF FfTypeOK, FfReader
    <3>4. CASE row = FfNone \/ ~FfOpen
      BY <2>8, <2>k, <3>1, <3>2, <3>3, <3>4
         DEF ReadLookup, Answered, ReadInv, FundFlowIsFresh
    <3>5. CASE row # FfNone /\ FfOpen
      <4>1. row = Recent(s, now)
        BY <3>2, <3>5
      <4>2. PICK m \in FfMinutes : /\ row = frow[s][m] /\ frow[s][m] # FfNone
                                   /\ ~(now > frow[s][m].captured + FfFresh)
        BY <3>5, <4>1, FoundRows
      <4>3. /\ row.got \in FfOutcome /\ row.captured \in FfTicks
            /\ MinuteOf(row.captured) = m /\ Since(row.got, FfMinute * m)
        BY <2>w, <3>1, <4>2 DEF RowInv
      <4>4. row.captured < FfMinute * m + FfMinute /\ row.captured \in Nat
            /\ FfMinute * m \in Nat
        BY <2>0, <4>3, MinuteSpan
      <4>5. now <= row.captured + FfFresh
        BY <3>1, <4>2, <4>4
      <4>6. \A f \in Figures(row.got) : now < row.got[f] + FfFresh + FfMinute + FfTtl - 1
        <5> SUFFICES ASSUME NEW f \in Figures(row.got)
                     PROVE  now < row.got[f] + FfFresh + FfMinute + FfTtl - 1
          OBVIOUS
        <5>1. row.got[f] \in Nat /\ row.got[f] + FfTtl > FfMinute * m
          BY <2>o, <4>3 DEF Since, Figures
        <5> QED
          BY <3>1, <4>4, <4>5, <5>1
      <4>7. fread'.now = now /\ fread'.got = row.got /\ fread'.step = "done"
        BY <3>2, <3>3, <3>5 DEF Answered
      <4>8. ftime' = ftime
        BY <2>8 DEF ReadLookup
      <4>9. ReadInv'
        BY <3>1, <4>6, <4>7, <4>8 DEF ReadInv, FundFlowIsFresh
      <4> QED
        BY <2>8, <2>k, <4>9 DEF ReadLookup
    <3> QED
      BY <3>4, <3>5
  <2>9. CASE ReadFallback
    <3>1. fread \in [step : {"lookup", "fallback", "live", "keep", "done"},
                     symbol : FfSymbols, now : FfTicks, got : FfOutcome,
                     via : {"none", "history", "closed", "live"}]
      BY <2>9 DEF ReadFallback, FfTypeOK, FfReader
    <3>2. ReadInv'
      BY <2>9, <3>1 DEF ReadFallback, Answered, ReadInv, FundFlowIsFresh
    <3> QED
      BY <2>9, <2>k, <3>2 DEF ReadFallback
  <2>10. CASE ReadLive
    <3>1. /\ fread.symbol \in FfSymbols /\ fread.now <= ftime /\ fread.now \in Nat
          /\ fread.step = "live"
      BY <2>10, <2>r DEF ReadLive, ReadInv
    <3>2. PICK got \in LiveOutcomes(fread.symbol) :
            /\ Cached(fread.symbol, got)
            /\ fread' = [fread EXCEPT !.step = "keep", !.got = got]
      BY <2>10 DEF ReadLive
    <3>3. got \in FfOutcome /\ Since(got, ftime) /\ CacheInv'
      BY <2>l, <2>c, <3>1, <3>2
    <3>4. Since(got, fread.now)
      BY <2>0, <2>o, <3>1, <3>3 DEF Since, Figures
    <3>5. fread \in [step : {"lookup", "fallback", "live", "keep", "done"},
                     symbol : FfSymbols, now : FfTicks, got : FfOutcome,
                     via : {"none", "history", "closed", "live"}]
      BY <3>1 DEF FfTypeOK, FfReader
    <3>6. fread'.step = "keep" /\ fread'.got = got /\ fread'.now = fread.now
      BY <3>2, <3>5
    <3>7. ftime' = ftime /\ frow' = frow /\ fmon' = fmon
      BY <2>10 DEF ReadLive
    <3>8. ReadInv'
      BY <3>1, <3>4, <3>6, <3>7 DEF ReadInv, FundFlowIsFresh
    <3> QED
      BY <3>3, <3>7, <3>8 DEF RowInv, PollInv
  <2>11. CASE ReadFails \/ ReadEnd
    <3>1. ReadInv'
      BY <2>11 DEF ReadFails, ReadEnd, FfIdle, ReadInv, FundFlowIsFresh
    <3> QED
      BY <2>11, <2>k, <3>1 DEF ReadFails, ReadEnd
  <2>12. CASE ReadKeep
    <3>1. /\ fread.step = "keep" /\ fread.symbol \in FfSymbols /\ fread.now \in FfTicks
          /\ fread.now \in Nat /\ fread.got \in FfOutcome /\ Since(fread.got, fread.now)
          /\ fread.now <= ftime
      BY <2>12, <2>r DEF ReadKeep, ReadInv
    <3>2. RowInv'
      <4>1. frow' = frow => RowInv'
        BY DEF RowInv
      <4>2. frow' = frow \/ frow' = Recorded(fread.symbol, fread.now, fread.got)
        BY <2>12 DEF ReadKeep
      <4> QED
        BY <2>g, <3>1, <4>1, <4>2
    <3>3. fread \in [step : {"lookup", "fallback", "live", "keep", "done"},
                     symbol : FfSymbols, now : FfTicks, got : FfOutcome,
                     via : {"none", "history", "closed", "live"}]
      BY <3>1 DEF FfTypeOK, FfReader
    <3>4. fread'.step = "done" /\ fread'.now = fread.now /\ fread'.got = fread.got
      BY <2>12, <3>3 DEF ReadKeep, Answered
    <3>5. \A f \in Figures(fread.got) :
            fread.now < fread.got[f] + FfFresh + FfMinute + FfTtl - 1
      <4>1. \A f \in Figures(fread.got) :
              fread.got[f] \in Nat /\ fread.got[f] + FfTtl > fread.now
        BY <2>o, <3>1 DEF Since, Figures
      <4> QED
        BY <3>1, <4>1
    <3>6. ftime' = ftime /\ fcache' = fcache /\ fmon' = fmon
      BY <2>12 DEF ReadKeep
    <3>7. ReadInv'
      BY <3>1, <3>4, <3>5, <3>6 DEF ReadInv, FundFlowIsFresh
    <3> QED
      BY <3>2, <3>6, <3>7 DEF CacheInv, PollInv
  <2>13. CASE UNCHANGED ffvars
    <3>1. ReadInv'
      BY <2>13 DEF ffvars, ReadInv, FundFlowIsFresh
    <3> QED
      BY <2>13, <2>k, <3>1 DEF ffvars
  <2> QED
    BY <2>1, <2>2, <2>3, <2>4, <2>5, <2>6, <2>7, <2>8, <2>9, <2>10, <2>11, <2>12,
       <2>13 DEF FfNext
<1>3. FundInv => FundFlowIsFresh
  BY DEF FundInv, ReadInv
<1> QED
  BY <1>1, <1>2, <1>3, FundTyping, PTL DEF FfSpec

(* Watchlists: the places of an order without a hole or a tie.              *)

(* A shape of places: a number for every entry, WlGone for one not listed.  *)
LEMMA ListedIsFinite ==
  ASSUME NEW S, IsFiniteSet(S), S \subseteq Nat,
         NEW p \in [S -> {WlGone} \cup Nat]
  PROVE  /\ Listed(p) \subseteq S /\ IsFiniteSet(Listed(p))
         /\ Cardinality(Listed(p)) \in Nat
         /\ \A x \in Listed(p) : p[x] \in Nat
<1>1. Listed(p) \subseteq S /\ \A x \in Listed(p) : p[x] \in Nat
  BY DEF Listed
<1>2. IsFiniteSet(Listed(p))
  BY <1>1, FS_Subset
<1> QED
  BY <1>1, <1>2, FS_CardinalityType

(* The places of the listed entries run 0, 1, 2 ...                         *)
Dense(p) == {p[x] : x \in Listed(p)} = 0 .. Cardinality(Listed(p)) - 1

(* Places below the number of entries and without a tie leave no hole.      *)
LEMMA NoTieNoHole ==
  ASSUME NEW S, IsFiniteSet(S), S \subseteq Nat,
         NEW p \in [S -> {WlGone} \cup Nat],
         \A x \in Listed(p) : p[x] < Cardinality(Listed(p)),
         \A x, y \in Listed(p) : p[x] = p[y] => x = y
  PROVE  Dense(p)
<1> DEFINE L == Listed(p)
           n == Cardinality(L)
           f == [x \in L |-> p[x]]
<1>1. IsFiniteSet(L) /\ n \in Nat /\ \A x \in L : p[x] \in Nat
  BY ListedIsFinite
<1>2. \A x \in L : p[x] \in 0 .. n - 1
  BY <1>1
<1>3. f \in Injection(L, 0 .. n - 1)
  BY <1>2 DEF Injection, IsInjective
<1>4. IsFiniteSet(0 .. n - 1) /\ Cardinality(0 .. n - 1) = n
  <2>1. 0 \in Int /\ n - 1 \in Int /\ (0 > n - 1 => n = 0)
    BY <1>1
  <2>2. /\ IsFiniteSet(0 .. n - 1)
        /\ Cardinality(0 .. n - 1) = IF 0 > n - 1 THEN 0 ELSE n - 1 - 0 + 1
    BY <2>1, FS_Interval
  <2> QED
    BY <1>1, <2>1, <2>2
<1>5. f \in Surjection(L, 0 .. n - 1)
  BY <1>1, <1>3, <1>4, FS_Injection
<1>6. \A k \in 0 .. n - 1 : \E x \in L : p[x] = k
  BY <1>5 DEF Surjection
<1> QED
  BY <1>2, <1>6 DEF Dense

(* _normalize_item_order, _normalize_group_order: the ranks have no hole.   *)
LEMMA RanksAreDense ==
  ASSUME NEW S, IsFiniteSet(S), S \subseteq Nat,
         NEW p \in [S -> {WlGone} \cup Nat]
  PROVE  /\ Normalized(p) \in [S -> {WlGone} \cup Nat]
         /\ Listed(Normalized(p)) = Listed(p)
         /\ Dense(Normalized(p))
<1> DEFINE L == Listed(p)
           Before(x) == {y \in L : \/ p[y] < p[x]
                                   \/ p[y] = p[x] /\ y < x}
           q == Normalized(p)
<1>1. /\ L \subseteq S /\ IsFiniteSet(L) /\ Cardinality(L) \in Nat
      /\ \A x \in L : p[x] \in Nat /\ x \in Nat
  BY ListedIsFinite
<1>2. ASSUME NEW x \in L
      PROVE  IsFiniteSet(Before(x)) /\ Cardinality(Before(x)) \in Nat
  BY <1>1, FS_Subset, FS_CardinalityType
<1>3. ASSUME NEW x \in L PROVE Cardinality(Before(x)) < Cardinality(L)
  <2>1. Before(x) \subseteq L /\ x \notin Before(x)
    BY <1>1
  <2>2. Cardinality(Before(x)) <= Cardinality(L) /\ Cardinality(Before(x)) # Cardinality(L)
    BY <1>1, <2>1, FS_Subset
  <2> QED
    BY <1>1, <1>2, <2>2
<1>4. q = [x \in S |-> IF p[x] = WlGone THEN WlGone ELSE Cardinality(Before(x))]
  BY DEF Normalized
<1>5. ASSUME NEW x \in S PROVE q[x] = WlGone <=> p[x] = WlGone
  <2>1. CASE p[x] = WlGone
    BY <1>4, <2>1
  <2>2. CASE p[x] # WlGone
    <3>1. x \in L
      BY <2>2 DEF Listed
    <3>2. q[x] = Cardinality(Before(x)) /\ Cardinality(Before(x)) \in Nat
      BY <1>2, <1>4, <2>2, <3>1
    <3> QED
      BY <2>2, <3>2 DEF WlGone
  <2> QED
    BY <2>1, <2>2
<1>6. DOMAIN q = S /\ DOMAIN p = S
  BY <1>4
<1>7. Listed(q) = L
  BY <1>5, <1>6 DEF Listed
<1>8. \A x \in L : q[x] = Cardinality(Before(x)) /\ p[x] # WlGone
  BY <1>1, <1>4 DEF Listed
<1>9. q \in [S -> {WlGone} \cup Nat]
  <2>1. \A x \in S : q[x] \in {WlGone} \cup Nat
    BY <1>2, <1>4, <1>5, <1>6, <1>8 DEF Listed
  <2> QED
    BY <1>4, <2>1
<1>10. \A x \in Listed(q) : q[x] < Cardinality(Listed(q))
  BY <1>3, <1>7, <1>8
<1>11. ASSUME NEW x \in L, NEW y \in L,
              p[x] < p[y] \/ (p[x] = p[y] /\ x < y)
       PROVE  q[x] < q[y]
  <2>1. Before(x) \subseteq Before(y) /\ x \in Before(y) /\ x \notin Before(x)
    BY <1>1, <1>11
  <2>2. /\ Cardinality(Before(x)) <= Cardinality(Before(y))
        /\ Cardinality(Before(x)) # Cardinality(Before(y))
    BY <1>2, <2>1, FS_Subset
  <2>3. Cardinality(Before(x)) \in Nat /\ Cardinality(Before(y)) \in Nat
    BY <1>2
  <2>4. q[x] = Cardinality(Before(x)) /\ q[y] = Cardinality(Before(y))
    BY <1>8
  <2> HIDE DEF Before, q
  <2>5. q[x] < q[y]
    BY <2>2, <2>3, <2>4
  <2> QED
    BY <2>5
<1>12. ASSUME NEW x \in L, NEW y \in L, q[x] = q[y] PROVE x = y
  <2>1. q[x] \in Nat /\ q[y] \in Nat /\ x \in Nat /\ y \in Nat
        /\ p[x] \in Nat /\ p[y] \in Nat
    BY <1>1, <1>2, <1>8
  <2>2. ~(p[x] < p[y] \/ (p[x] = p[y] /\ x < y))
    BY <1>11, <1>12, <2>1
  <2>3. ~(p[y] < p[x] \/ (p[y] = p[x] /\ y < x))
    BY <1>11, <1>12, <2>1
  <2> QED
    BY <2>1, <2>2, <2>3
<1>13. Dense(q)
  BY <1>7, <1>9, <1>10, <1>12, NoTieNoHole
<1> QED
  BY <1>7, <1>9, <1>13

(* A reorder route accepts an order of the listed entries: no hole either.  *)
LEMMA OrdersAreDense ==
  ASSUME NEW S, IsFiniteSet(S), S \subseteq Nat,
         NEW p \in [S -> {WlGone} \cup Nat], NEW f \in Orders(p)
  PROVE  /\ f \in [S -> {WlGone} \cup Nat]
         /\ Listed(f) = Listed(p)
         /\ Dense(f)
<1>1. Cardinality(Listed(p)) \in Nat
  BY ListedIsFinite
<1>2. /\ f \in [S -> {WlGone} \cup 0 .. Cardinality(Listed(p)) - 1]
      /\ Listed(f) = Listed(p)
      /\ \A x, y \in Listed(f) : f[x] = f[y] => x = y
  BY DEF Orders
<1>3. f \in [S -> {WlGone} \cup Nat]
  BY <1>1, <1>2
<1>4. \A x \in Listed(f) : f[x] < Cardinality(Listed(f))
  BY <1>1, <1>2 DEF Listed
<1> QED
  BY <1>2, <1>3, <1>4, NoTieNoHole

(* The place after the last, when there is no hole: the number of entries.  *)
LEMMA NextIsCount ==
  ASSUME NEW S, IsFiniteSet(S), S \subseteq Nat,
         NEW p \in [S -> {WlGone} \cup Nat], Dense(p)
  PROVE  NextPlace(p) = Cardinality(Listed(p))
<1> DEFINE L == Listed(p)
           n == Cardinality(L)
<1>1. IsFiniteSet(L) /\ n \in Nat
  BY ListedIsFinite
<1>2. CASE L = {}
  BY <1>2, FS_EmptySet DEF NextPlace
<1>3. CASE L # {}
  <2>1. n # 0
    BY <1>1, <1>3, FS_EmptySet
  <2>2. n - 1 \in Nat /\ 0 .. n - 1 # {} /\ 0 .. n - 1 \subseteq 0 .. n - 1
    BY <1>1, <2>1
  <2>3. Max(0 .. n - 1) \in 0 .. n - 1 /\ \A y \in 0 .. n - 1 : y <= Max(0 .. n - 1)
    BY <2>2, MaxOfBounded
  <2>4. Max(0 .. n - 1) = n - 1
    <3>1. \A m \in 0 .. n - 1 : n - 1 <= m => m = n - 1
      BY <1>1
    <3>2. n - 1 \in 0 .. n - 1
      BY <2>2
    <3> QED
      BY <2>3, <3>1, <3>2
  <2>5. NextPlace(p) = Max(0 .. n - 1) + 1
    BY <1>3 DEF NextPlace, Dense
  <2> QED
    BY <1>1, <2>4, <2>5
<1> QED
  BY <1>2, <1>3

(* q is p with s in place k and the places from k on moved up by one.       *)
Inserts(S, p, q, s, k) ==
  /\ q[s] = k
  /\ \A x \in S \ {s} : q[x] = IF p[x] >= k THEN p[x] + 1 ELSE p[x]

(* An entry put into a place, the places from there on moved up by one      *)
(* (move_symbol; with the place after the last, add_symbol and              *)
(* create_group): still no hole and no tie.                                 *)
LEMMA InsertIsDense ==
  ASSUME NEW S, IsFiniteSet(S), S \subseteq Nat,
         NEW p \in [S -> {WlGone} \cup Nat], Dense(p),
         NEW s \in S, p[s] = WlGone,
         NEW k \in 0 .. Cardinality(Listed(p)),
         NEW q \in [S -> {WlGone} \cup Nat], Inserts(S, p, q, s, k)
  PROVE  Listed(q) = Listed(p) \cup {s} /\ Dense(q)
<1> DEFINE L == Listed(p)
           n == Cardinality(L)
<1>1. /\ L \subseteq S /\ IsFiniteSet(L) /\ n \in Nat /\ s \notin L
      /\ \A x \in L : p[x] \in Nat
  BY ListedIsFinite DEF Listed
<1>2. k \in Nat /\ k <= n
  BY <1>1
<1>i. /\ q[s] = k
      /\ \A x \in S \ {s} : q[x] = IF p[x] >= k THEN p[x] + 1 ELSE p[x]
  BY DEF Inserts
<1>3. \A x \in S \ {s} : q[x] = WlGone <=> p[x] = WlGone
  BY <1>2, <1>i DEF WlGone
<1>4. Listed(q) = L \cup {s}
  <2>1. DOMAIN q = S /\ DOMAIN p = S /\ q[s] # WlGone
    BY <1>2, <1>i DEF WlGone
  <2>2. ASSUME NEW x PROVE x \in Listed(q) <=> x \in L \cup {s}
    BY <1>1, <1>3, <2>1 DEF Listed
  <2> QED
    BY <2>2
<1>a. /\ \A x \in L : x # s /\ x \in S
      /\ \A x \in L : q[x] = IF p[x] >= k THEN p[x] + 1 ELSE p[x]
  BY <1>1, <1>i
<1>5. Cardinality(Listed(q)) = n + 1
  BY <1>1, <1>4, FS_AddElement
<1>6. \A v \in 0 .. n - 1 : \E x \in L : p[x] = v
  BY DEF Dense
<1>7. \A x \in L : p[x] \in 0 .. n - 1
  BY DEF Dense
<1>8. \A x \in Listed(q) : q[x] \in 0 .. n
  <2>1. q[s] \in 0 .. n
    BY <1>i
  <2>2. ASSUME NEW x \in L PROVE q[x] \in 0 .. n
    <3>1. p[x] \in 0 .. n - 1 /\ q[x] \in {p[x], p[x] + 1}
      BY <1>7, <1>a
    <3> QED
      BY <1>1, <3>1
  <2> QED
    BY <1>4, <2>1, <2>2
<1>9. ASSUME NEW v \in 0 .. n PROVE \E x \in Listed(q) : q[x] = v
  <2>1. CASE v = k
    BY <1>4, <1>i, <2>1
  <2>2. CASE v < k
    <3>1. PICK x \in L : p[x] = v
      BY <1>1, <1>2, <1>6, <2>2
    <3>2. ~(p[x] >= k) /\ q[x] = p[x]
      BY <1>2, <1>a, <2>2, <3>1
    <3> QED
      BY <1>4, <3>1, <3>2
  <2>3. CASE v > k
    <3>1. v - 1 \in 0 .. n - 1
      BY <1>1, <1>2, <2>3
    <3>2. PICK x \in L : p[x] = v - 1
      BY <1>6, <3>1
    <3>3. p[x] >= k /\ p[x] + 1 = v
      BY <1>2, <2>3, <3>2
    <3>4. q[x] = v
      BY <1>a, <3>3
    <3> QED
      BY <1>4, <3>4
  <2> QED
    BY <1>2, <2>1, <2>2, <2>3
<1>10. 0 .. Cardinality(Listed(q)) - 1 = 0 .. n
  BY <1>1, <1>5
<1>11. {q[x] : x \in Listed(q)} = 0 .. n
  BY <1>8, <1>9
<1> QED
  BY <1>4, <1>10, <1>11 DEF Dense

(* What the operations do to the places of one group.                       *)
Cleared(p, s) == [p EXCEPT ![s] = WlGone]
Extended(p, s) == [p EXCEPT ![s] = NextPlace(p)]
Moved(S, p, s, k) ==
  [[x \in S |-> IF p[x] >= k THEN p[x] + 1 ELSE p[x]] EXCEPT ![s] = k]

(* The places of a group of symbols, or of the groups: a number for each    *)
(* listed entry, without a hole or a tie.                                   *)
Ordered(S, p) == p \in [S -> {WlGone} \cup Nat] /\ Dense(p)

(* An entry appended in the place after the last: add_symbol in one group,  *)
(* create_group.                                                            *)
LEMMA AppendedIsOrdered ==
  ASSUME NEW S, IsFiniteSet(S), S \subseteq Nat,
         NEW p, Ordered(S, p), NEW s \in S, p[s] = WlGone
  PROVE  /\ Ordered(S, Extended(p, s))
         /\ Listed(Extended(p, s)) = Listed(p) \cup {s}
<1>0. p \in [S -> {WlGone} \cup Nat] /\ Dense(p)
  BY DEF Ordered
<1> DEFINE n == Cardinality(Listed(p))
           q == [p EXCEPT ![s] = NextPlace(p)]
<1>1. n \in Nat /\ NextPlace(p) = n
  BY <1>0, ListedIsFinite, NextIsCount
<1>2. q \in [S -> {WlGone} \cup Nat] /\ q[s] = n
  BY <1>0, <1>1
<1>3. \A x \in Listed(p) : p[x] \in 0 .. n - 1
  BY <1>0 DEF Dense
<1>4. ASSUME NEW x \in S \ {s}
      PROVE  q[x] = IF p[x] >= n THEN p[x] + 1 ELSE p[x]
  <2>1. q[x] = p[x]
    BY <1>0
  <2>2. CASE p[x] = WlGone
    BY <1>1, <2>1, <2>2 DEF WlGone
  <2>3. CASE p[x] # WlGone
    <3>1. x \in Listed(p)
      BY <1>0, <2>3 DEF Listed
    <3>2. p[x] \in 0 .. n - 1
      BY <1>3, <3>1
    <3>3. ~(p[x] >= n)
      BY <1>1, <3>2
    <3> QED
      BY <2>1, <3>3
  <2> QED
    BY <2>2, <2>3
<1>5. n \in 0 .. n
  BY <1>1
<1> HIDE DEF q
<1>6. Inserts(S, p, q, s, n)
  BY <1>2, <1>4 DEF Inserts
<1>7. Listed(q) = Listed(p) \cup {s} /\ Dense(q)
  BY ONLY IsFiniteSet(S), S \subseteq Nat, <1>0, s \in S, p[s] = WlGone,
     <1>2, <1>5, <1>6, InsertIsDense
<1> QED
  BY <1>2, <1>7 DEF q, Extended, Ordered

(* What PlacesAreDense and WatchlistBounded need to survive a step, with    *)
(* the types.                                                               *)
WatchInv ==
  /\ Ordered(WlGroups, wgroup)
  /\ witem = [g \in WlGroups |-> witem[g]]
  /\ \A g \in WlGroups : Ordered(WlSymbols, witem[g])
  /\ wmon \in [WlGroups -> [WlSymbols -> BOOLEAN]]
  /\ Cardinality(OfUser) <= WlLimit

(* A group without rows, as it is created and as delete_group leaves it.    *)
LEMMA EmptyIsOrdered ==
  ASSUME NEW S, NEW p, p = [x \in S |-> WlGone]
  PROVE  Ordered(S, p) /\ Listed(p) = {}
<1>1. p \in [S -> {WlGone} \cup Nat] /\ Listed(p) = {}
  BY DEF Listed
<1>2. 0 .. Cardinality(Listed(p)) - 1 = {}
  BY <1>1, FS_EmptySet
<1>3. {p[x] : x \in Listed(p)} = {}
  BY <1>1
<1> QED
  BY <1>1, <1>2, <1>3 DEF Ordered, Dense

(* remove_symbol in one group: the others close up.                         *)
LEMMA WithoutIsOrdered ==
  ASSUME NEW S, IsFiniteSet(S), S \subseteq Nat, NEW p, Ordered(S, p),
         NEW s \in S
  PROVE  /\ Ordered(S, Normalized(Cleared(p, s)))
         /\ Listed(Normalized(Cleared(p, s))) = Listed(p) \ {s}
<1> DEFINE q == [p EXCEPT ![s] = WlGone]
<1>0. q = Cleared(p, s)
  BY DEF Cleared
<1>1. p \in [S -> {WlGone} \cup Nat] /\ q \in [S -> {WlGone} \cup Nat]
  BY DEF Ordered
<1>2. Listed(q) = Listed(p) \ {s}
  <2>1. ASSUME NEW x PROVE x \in Listed(q) <=> x \in Listed(p) \ {s}
    BY <1>1 DEF Listed
  <2> QED
    BY <2>1
<1> HIDE DEF q
<1>3. /\ Normalized(q) \in [S -> {WlGone} \cup Nat] /\ Dense(Normalized(q))
      /\ Listed(Normalized(q)) = Listed(q)
  BY <1>1, RanksAreDense
<1>4. Ordered(S, Normalized(q)) /\ Listed(Normalized(q)) = Listed(p) \ {s}
  BY <1>2, <1>3 DEF Ordered
<1> QED
  BY <1>0, <1>4

(* move_symbol into another group: the rows from the asked place on move up *)
(* by one.                                                                  *)
LEMMA MovedIsOrdered ==
  ASSUME NEW S, IsFiniteSet(S), S \subseteq Nat, NEW p, Ordered(S, p),
         NEW s \in S, s \notin Listed(p), NEW k \in 0 .. Cardinality(Listed(p))
  PROVE  /\ Ordered(S, Moved(S, p, s, k))
         /\ Listed(Moved(S, p, s, k)) = Listed(p) \cup {s}
<1> DEFINE q == Moved(S, p, s, k)
<1>0. q = [[x \in S |-> IF p[x] >= k THEN p[x] + 1 ELSE p[x]] EXCEPT ![s] = k]
  BY DEF Moved
<1> HIDE DEF q
<1>1. p \in [S -> {WlGone} \cup Nat] /\ Dense(p)
  BY DEF Ordered
<1>2. p[s] = WlGone /\ k \in Nat
  BY <1>1, ListedIsFinite DEF Listed
<1>3. ASSUME NEW x \in S
      PROVE  (IF p[x] >= k THEN p[x] + 1 ELSE p[x]) \in {WlGone} \cup Nat
  BY <1>1, <1>2 DEF WlGone
<1>4. q \in [S -> {WlGone} \cup Nat] /\ Inserts(S, p, q, s, k)
  BY <1>0, <1>2, <1>3 DEF Inserts
<1>5. Listed(q) = Listed(p) \cup {s} /\ Dense(q)
  BY ONLY IsFiniteSet(S), S \subseteq Nat, s \in S, <1>1, <1>2, <1>4,
     k \in 0 .. Cardinality(Listed(p)), InsertIsDense
<1>6. Ordered(S, q)
  BY <1>4, <1>5 DEF Ordered
<1> QED
  BY <1>5, <1>6 DEF q

(* The routes that reorder.                                                 *)
LEMMA ReorderedIsOrdered ==
  ASSUME NEW S, IsFiniteSet(S), S \subseteq Nat, NEW p, Ordered(S, p),
         NEW f \in Orders(p)
  PROVE  Ordered(S, f) /\ Listed(f) = Listed(p)
  BY OrdersAreDense DEF Ordered

(* The codes of the user are codes, and a step that adds none keeps to the  *)
(* limit.                                                                   *)
LEMMA FewerCodes ==
  ASSUME WlAssumption, WatchInv, NEW T, T \subseteq OfUser
  PROVE  /\ OfUser \subseteq WlSymbols /\ IsFiniteSet(OfUser)
         /\ Cardinality(OfUser) \in Nat
         /\ IsFiniteSet(T) /\ Cardinality(T) <= WlLimit
<1>1. ASSUME NEW g \in WlGroups PROVE In(g) \subseteq WlSymbols
  BY DEF WatchInv, Ordered, In, Listed
<1>2. OfUser \subseteq WlSymbols
  BY <1>1 DEF OfUser
<1>3. IsFiniteSet(OfUser) /\ Cardinality(OfUser) \in Nat
  BY <1>2, FS_Subset, FS_CardinalityType DEF WlAssumption
<1>4. IsFiniteSet(T) /\ Cardinality(T) <= Cardinality(OfUser) /\ Cardinality(T) \in Nat
  BY <1>3, FS_Subset, FS_CardinalityType
<1>5. Cardinality(OfUser) <= WlLimit /\ WlLimit \in Nat
  BY DEF WatchInv, WlAssumption
<1> QED
  BY <1>2, <1>3, <1>4, <1>5

(* The rows after a step: each group's places in order, and no code of the  *)
(* user beside those it had.                                                *)
LEMMA RowsKept ==
  ASSUME WlAssumption, WatchInv,
         Ordered(WlGroups, wgroup'),
         wmon' \in [WlGroups -> [WlSymbols -> BOOLEAN]],
         NEW row, witem' = [g \in WlGroups |-> row[g]],
         \A g \in WlGroups : /\ Ordered(WlSymbols, row[g])
                             /\ Listed(row[g]) \subseteq OfUser
  PROVE  WatchInv'
<1>1. \A g \in WlGroups : witem'[g] = row[g]
  OBVIOUS
<1>2. witem' = [g \in WlGroups |-> witem'[g]]
  OBVIOUS
<1>3. OfUser' \subseteq OfUser
  BY <1>1 DEF OfUser, In
<1>4. Cardinality(OfUser') <= WlLimit
  BY <1>3, FewerCodes
<1> QED
  BY <1>1, <1>2, <1>4 DEF WatchInv

LEMMA WatchStarts ==
  ASSUME WlAssumption, WlInit PROVE WatchInv
<1>1. ASSUME NEW g \in WlGroups
      PROVE  Ordered(WlSymbols, witem[g]) /\ In(g) = {}
  <2>1. witem[g] = [s \in WlSymbols |-> WlGone]
    BY DEF WlInit
  <2> QED
    BY <2>1, EmptyIsOrdered DEF In
<1>2. OfUser = {}
  BY <1>1 DEF OfUser
<1>3. Cardinality(OfUser) <= WlLimit
  BY <1>2, FS_EmptySet DEF WlAssumption
<1>4. Ordered(WlGroups, wgroup)
  <2>1. wgroup \in [WlGroups -> {WlGone} \cup Nat] /\ Listed(wgroup) = {WlPrimary}
    BY DEF WlInit, WlAssumption, Listed, WlGone
  <2>2. Cardinality(Listed(wgroup)) = 1
    BY <2>1, FS_Singleton
  <2>3. {wgroup[g] : g \in Listed(wgroup)} = {0}
    BY <2>1 DEF WlInit, WlAssumption
  <2>4. 0 .. 1 - 1 = {0}
    OBVIOUS
  <2> QED
    BY <2>1, <2>2, <2>3, <2>4 DEF Ordered, Dense
<1>5. witem = [g \in WlGroups |-> witem[g]]
  BY DEF WlInit
<1>6. wmon \in [WlGroups -> [WlSymbols -> BOOLEAN]]
  BY DEF WlInit
<1> QED
  BY <1>1, <1>3, <1>4, <1>5, <1>6 DEF WatchInv

(* A step that touches only the flags of monitoring.                        *)
LEMMA FlagsOnly ==
  ASSUME WatchInv, UNCHANGED <<wgroup, witem>>,
         wmon' \in [WlGroups -> [WlSymbols -> BOOLEAN]]
  PROVE  WatchInv'
<1>1. OfUser' = OfUser
  BY DEF OfUser, In
<1> QED
  BY <1>1 DEF WatchInv

(* No step leaves a hole, a tie or more codes than the limit.               *)
LEMMA WatchStep ==
  ASSUME WlAssumption, WatchInv, [WlNext]_wvars PROVE WatchInv'
<1>1. /\ IsFiniteSet(WlGroups) /\ WlGroups \subseteq Nat /\ WlPrimary \in WlGroups
      /\ IsFiniteSet(WlSymbols) /\ WlSymbols \subseteq Nat /\ WlLimit \in Nat
  BY DEF WlAssumption
<1>2. /\ Ordered(WlGroups, wgroup)
      /\ witem = [g \in WlGroups |-> witem[g]]
      /\ \A g \in WlGroups : Ordered(WlSymbols, witem[g])
      /\ wmon \in [WlGroups -> [WlSymbols -> BOOLEAN]]
  BY DEF WatchInv
<1>w. ASSUME NEW g \in WlGroups, NEW s \in WlSymbols
      PROVE  /\ Ordered(WlSymbols, Without(g, s))
             /\ Listed(Without(g, s)) = Listed(witem[g]) \ {s}
  <2>1. Without(g, s) = Normalized(Cleared(witem[g], s))
    BY DEF Without, Cleared
  <2> QED
    BY <1>1, <1>2, <2>1, WithoutIsOrdered
<1>3. \A g \in WlGroups : Listed(witem[g]) \subseteq OfUser /\ In(g) = Listed(witem[g])
  BY DEF OfUser, In
<1>4. \A g \in WlGroups : witem[g] \in [WlSymbols -> {WlGone} \cup Nat]
  BY <1>2 DEF Ordered
<1>5. wgroup \in [WlGroups -> {WlGone} \cup Nat]
  BY <1>2 DEF Ordered
<1>6. ASSUME NEW g \in WlGroups, CreateGroup(g) PROVE WatchInv'
  <2>1. Ordered(WlGroups, wgroup')
    <3>1. wgroup[g] = WlGone /\ wgroup' = Extended(wgroup, g)
      BY <1>6 DEF CreateGroup, Extended
    <3> QED
      BY <1>1, <1>2, <3>1, AppendedIsOrdered
  <2>2. OfUser' = OfUser
    BY <1>6 DEF CreateGroup, OfUser, In
  <2> QED
    BY <1>6, <2>1, <2>2 DEF CreateGroup, WatchInv
<1>7. ASSUME NEW g \in WlGroups, DeleteGroup(g) PROVE WatchInv'
  <2>1. Ordered(WlGroups, wgroup')
    <3>1. wgroup' = Normalized(Cleared(wgroup, g))
      BY <1>7 DEF DeleteGroup, Cleared
    <3> QED
      BY <1>1, <1>2, <3>1, WithoutIsOrdered
  <2> DEFINE none == [s \in WlSymbols |-> WlGone]
             row == [h \in WlGroups |-> IF h = g THEN none ELSE witem[h]]
  <2>2. Ordered(WlSymbols, none) /\ Listed(none) = {}
    BY EmptyIsOrdered
  <2>3. witem' = [h \in WlGroups |-> row[h]]
    BY <1>2, <1>7 DEF DeleteGroup
  <2>4. ASSUME NEW h \in WlGroups
        PROVE  Ordered(WlSymbols, row[h]) /\ Listed(row[h]) \subseteq OfUser
    <3>1. row[h] = IF h = g THEN none ELSE witem[h]
      OBVIOUS
    <3> HIDE DEF none, row
    <3> QED
      BY <1>2, <1>3, <2>2, <3>1
  <2>5. wmon' \in [WlGroups -> [WlSymbols -> BOOLEAN]]
    BY <1>2, <1>7 DEF DeleteGroup
  <2> HIDE DEF none, row
  <2> QED
    BY <2>1, <2>3, <2>4, <2>5, RowsKept
<1>8. ASSUME NEW g \in WlGroups, ReorderSymbols(g) PROVE WatchInv'
  <2>1. PICK f \in Orders(witem[g]) : witem' = [witem EXCEPT ![g] = f]
    BY <1>8 DEF ReorderSymbols
  <2>2. Ordered(WlSymbols, f) /\ Listed(f) = Listed(witem[g])
    BY <1>1, <1>2, ReorderedIsOrdered
  <2> DEFINE row == [h \in WlGroups |-> IF h = g THEN f ELSE witem[h]]
  <2>3. witem' = [h \in WlGroups |-> row[h]]
    BY <1>2, <2>1
  <2>4. ASSUME NEW h \in WlGroups
        PROVE  Ordered(WlSymbols, row[h]) /\ Listed(row[h]) \subseteq OfUser
    <3>1. row[h] = IF h = g THEN f ELSE witem[h]
      OBVIOUS
    <3> HIDE DEF row
    <3> QED
      BY <1>2, <1>3, <2>2, <3>1
  <2>5. wgroup' = wgroup /\ wmon' = wmon
    BY <1>8 DEF ReorderSymbols
  <2> HIDE DEF row
  <2> QED
    BY <1>2, <2>3, <2>4, <2>5, RowsKept
<1>9. ASSUME ReorderGroups PROVE WatchInv'
  <2>1. Ordered(WlGroups, wgroup')
    BY <1>1, <1>2, <1>9, ReorderedIsOrdered DEF ReorderGroups
  <2>2. OfUser' = OfUser
    BY <1>9 DEF ReorderGroups, OfUser, In
  <2> QED
    BY <1>9, <2>1, <2>2 DEF ReorderGroups, WatchInv
<1>10. ASSUME NEW s \in WlSymbols, RemoveEverywhere(s) PROVE WatchInv'
  <2> DEFINE row == [g \in WlGroups |-> IF s \in In(g) THEN Without(g, s) ELSE witem[g]]
  <2>1. witem' = [g \in WlGroups |-> row[g]] /\ wgroup' = wgroup
    BY <1>10 DEF RemoveEverywhere
  <2>2. ASSUME NEW g \in WlGroups
        PROVE  Ordered(WlSymbols, row[g]) /\ Listed(row[g]) \subseteq OfUser
    <3>1. /\ Ordered(WlSymbols, Without(g, s))
          /\ Listed(Without(g, s)) = Listed(witem[g]) \ {s}
      BY <1>w
    <3>2. row[g] = Without(g, s) \/ row[g] = witem[g]
      OBVIOUS
    <3> HIDE DEF row
    <3> QED
      BY <1>2, <1>3, <3>1, <3>2
  <2>3. wmon' \in [WlGroups -> [WlSymbols -> BOOLEAN]]
    BY <1>2, <1>10 DEF RemoveEverywhere
  <2> HIDE DEF row
  <2> QED
    BY <1>2, <2>1, <2>2, <2>3, RowsKept
<1>11. ASSUME NEW s \in WlSymbols, NEW enabled \in BOOLEAN, SetMonitoring(s, enabled)
       PROVE  WatchInv'
  <2>1. wmon' \in [WlGroups -> [WlSymbols -> BOOLEAN]]
    BY <1>2, <1>11 DEF SetMonitoring
  <2> QED
    BY <1>11, <2>1, FlagsOnly DEF SetMonitoring
<1>12. ASSUME NEW g \in WlGroups, NEW s \in WlSymbols, RemoveSymbol(g, s)
       PROVE  WatchInv'
  <2> DEFINE row == [h \in WlGroups |-> IF h = g THEN Without(g, s) ELSE witem[h]]
  <2>1. witem' = [h \in WlGroups |-> row[h]] /\ wgroup' = wgroup
    BY <1>2, <1>12 DEF RemoveSymbol
  <2>2. /\ Ordered(WlSymbols, Without(g, s))
        /\ Listed(Without(g, s)) = Listed(witem[g]) \ {s}
    BY <1>w
  <2>3. ASSUME NEW h \in WlGroups
        PROVE  Ordered(WlSymbols, row[h]) /\ Listed(row[h]) \subseteq OfUser
    <3>1. row[h] = IF h = g THEN Without(g, s) ELSE witem[h]
      OBVIOUS
    <3> HIDE DEF row
    <3> QED
      BY <1>2, <1>3, <2>2, <3>1
  <2>4. wmon' \in [WlGroups -> [WlSymbols -> BOOLEAN]]
    BY <1>2, <1>12 DEF RemoveSymbol
  <2> HIDE DEF row
  <2> QED
    BY <1>2, <2>1, <2>3, <2>4, RowsKept
<1>13. ASSUME NEW g \in WlGroups, NEW s \in WlSymbols, AddSymbol(g, s)
       PROVE  WatchInv'
  <2> DEFINE added == {g} \cup {h \in {WlPrimary} : witem[h][s] = WlGone}
             more(h) == [witem[h] EXCEPT ![s] = NextPlace(witem[h])]
             row == [h \in WlGroups |-> IF h \in added THEN more(h) ELSE witem[h]]
  <2>1. /\ witem' = [h \in WlGroups |-> row[h]] /\ wgroup' = wgroup
        /\ RoomFor(s) /\ witem[g][s] = WlGone
    BY <1>13 DEF AddSymbol
  <2>2. ASSUME NEW h \in WlGroups, h \in added
        PROVE  /\ Ordered(WlSymbols, more(h))
               /\ Listed(more(h)) = Listed(witem[h]) \cup {s}
    <3>1. witem[h][s] = WlGone
      BY <2>1, <2>2
    <3>2. more(h) = Extended(witem[h], s)
      BY DEF Extended
    <3> HIDE DEF more
    <3> QED
      BY <1>1, <1>2, <3>1, <3>2, AppendedIsOrdered
  <2>3. ASSUME NEW h \in WlGroups
        PROVE  /\ Ordered(WlSymbols, row[h])
               /\ Listed(row[h]) \subseteq OfUser \cup {s}
    <3>1. row[h] = IF h \in added THEN more(h) ELSE witem[h]
      OBVIOUS
    <3> HIDE DEF row, added, more
    <3> QED
      BY <1>2, <1>3, <2>2, <3>1
  <2>4. wmon' \in [WlGroups -> [WlSymbols -> BOOLEAN]]
    <3>1. \A h \in WlGroups : wmon[h] \in [WlSymbols -> BOOLEAN]
      BY <1>2
    <3>2. \A h \in WlGroups : [wmon[h] EXCEPT ![s] = TRUE] \in [WlSymbols -> BOOLEAN]
      BY <3>1
    <3>3. wmon' = [h \in WlGroups |->
                     IF h \in added THEN [wmon[h] EXCEPT ![s] = TRUE] ELSE wmon[h]]
      BY <1>13 DEF AddSymbol
    <3> HIDE DEF added
    <3> QED
      BY <3>1, <3>2, <3>3
  <2> HIDE DEF row, added
  <2>5. \A h \in WlGroups : witem'[h] = row[h]
    BY <2>1
  <2>6. OfUser' \subseteq OfUser \cup {s}
    BY <2>3, <2>5 DEF OfUser, In
  <2>7. IsFiniteSet(OfUser) /\ Cardinality(OfUser) \in Nat /\ Cardinality(OfUser) <= WlLimit
    BY FewerCodes DEF WatchInv
  <2>8. /\ IsFiniteSet(OfUser \cup {s}) /\ Cardinality(OfUser \cup {s}) \in Nat
        /\ Cardinality(OfUser \cup {s}) <= WlLimit
    <3>1. /\ IsFiniteSet(OfUser \cup {s})
          /\ Cardinality(OfUser \cup {s}) =
               IF s \in OfUser THEN Cardinality(OfUser) ELSE Cardinality(OfUser) + 1
      BY <2>7, FS_AddElement
    <3>2. Cardinality(OfUser) < WlLimit \/ s \in OfUser
      BY <2>1 DEF RoomFor
    <3> QED
      BY <1>1, <2>7, <3>1, <3>2
  <2>9. Cardinality(OfUser') <= WlLimit
    <3>1. IsFiniteSet(OfUser') /\ Cardinality(OfUser') <= Cardinality(OfUser \cup {s})
      BY <2>6, <2>8, FS_Subset
    <3>2. Cardinality(OfUser') \in Nat
      BY <3>1, FS_CardinalityType
    <3> QED
      BY <1>1, <2>8, <3>1, <3>2
  <2>10. witem' = [h \in WlGroups |-> witem'[h]]
    BY <2>1
  <2> QED
    BY <1>2, <2>1, <2>3, <2>4, <2>5, <2>9, <2>10 DEF WatchInv
<1>14. ASSUME NEW from \in WlGroups, NEW to \in WlGroups, NEW s \in WlSymbols,
              NEW asked \in 0 .. Cardinality(WlSymbols), MoveSymbol(from, to, s, asked)
       PROVE  WatchInv'
  <2> DEFINE n == Cardinality(In(to))
             index == Min({asked, n})
             shifted == [x \in WlSymbols |->
                           IF witem[to][x] >= index THEN witem[to][x] + 1
                           ELSE witem[to][x]]
             moved == [shifted EXCEPT ![s] = index]
             row == [h \in WlGroups |-> IF h = to THEN moved
                                        ELSE IF h = from THEN Without(from, s)
                                        ELSE witem[h]]
  <2>1. /\ from # to /\ s \in In(from) /\ s \notin In(to) /\ wgroup' = wgroup
        /\ witem' = [witem EXCEPT ![from] = Without(from, s), ![to] = moved]
        /\ wmon' = [wmon EXCEPT ![from] = [@ EXCEPT ![s] = FALSE],
                                ![to] = [@ EXCEPT ![s] = wmon[from][s]]]
    BY <1>14 DEF MoveSymbol
  <2>2. witem' = [h \in WlGroups |-> row[h]]
    BY <1>2, <2>1
  <2>3. n \in Nat /\ In(to) = Listed(witem[to])
    BY <1>1, <1>3, <1>4, ListedIsFinite
  <2>4. index \in 0 .. Cardinality(Listed(witem[to]))
    <3>1. IsFiniteSet(WlSymbols) /\ Cardinality(WlSymbols) \in Nat /\ asked \in Nat
      BY <1>1, FS_CardinalityType
    <3>2. index = IF asked <= n THEN asked ELSE n
      BY <2>3, <3>1, MinOfPair
    <3> QED
      BY <2>3, <3>1, <3>2
  <2>5. Ordered(WlSymbols, moved) /\ Listed(moved) = Listed(witem[to]) \cup {s}
    <3>1. moved = Moved(WlSymbols, witem[to], s, index)
      BY DEF Moved
    <3> HIDE DEF index, moved
    <3> QED
      BY <1>1, <1>2, <2>1, <2>3, <2>4, <3>1, MovedIsOrdered
  <2>6. /\ Ordered(WlSymbols, Without(from, s))
        /\ Listed(Without(from, s)) = Listed(witem[from]) \ {s}
    BY <1>w
  <2>7. s \in OfUser
    BY <1>3, <2>1
  <2>8. ASSUME NEW h \in WlGroups
        PROVE  Ordered(WlSymbols, row[h]) /\ Listed(row[h]) \subseteq OfUser
    <3>1. row[h] = moved \/ row[h] = Without(from, s) \/ row[h] = witem[h]
      OBVIOUS
    <3> HIDE DEF row, moved
    <3> QED
      BY <1>2, <1>3, <2>5, <2>6, <2>7, <3>1
  <2>9. wmon' \in [WlGroups -> [WlSymbols -> BOOLEAN]]
    BY <1>2, <2>1
  <2> HIDE DEF row
  <2> QED
    BY <1>2, <2>1, <2>2, <2>8, <2>9, RowsKept
<1>15. CASE UNCHANGED wvars
  BY <1>2, <1>15, FlagsOnly DEF wvars
<1> QED
  BY <1>6, <1>7, <1>8, <1>9, <1>10, <1>11, <1>12, <1>13, <1>14, <1>15 DEF WlNext

(* The shape of the groups and of the places in them.                       *)
LEMMA WatchTyping == WlSpec => []WlTypeOK
<1>1. WlInit => WatchInv
  BY WlAssumption, WatchStarts
<1>2. WatchInv /\ [WlNext]_wvars => WatchInv'
  BY WlAssumption, WatchStep
<1>3. WatchInv => WlTypeOK
  <2> SUFFICES ASSUME WatchInv PROVE WlTypeOK
    OBVIOUS
  <2>1. wgroup \in [WlGroups -> {WlGone} \cup Nat]
    BY DEF WatchInv, Ordered
  <2>2. /\ witem = [g \in WlGroups |-> witem[g]]
        /\ \A g \in WlGroups : witem[g] \in [WlSymbols -> {WlGone} \cup Nat]
    BY DEF WatchInv, Ordered
  <2>3. witem \in [WlGroups -> [WlSymbols -> {WlGone} \cup Nat]]
    BY <2>2
  <2> QED
    BY <2>1, <2>3 DEF WatchInv, WlTypeOK
<1> QED
  BY <1>1, <1>2, <1>3, PTL DEF WlSpec

(* Watchlists: the groups and the codes of a user have the places 0, 1, 2   *)
(* ... whatever was added, removed, moved and reordered, and the user never *)
(* watches more codes than max_symbols_per_user (add_symbol, remove_symbol, *)
(* move_symbol, reorder_symbols, delete_group).                             *)
THEOREM WatchlistsStaySound == WlSpec => []WatchlistsSound
<1>1. WlInit => WatchInv
  BY WlAssumption, WatchStarts
<1>2. WatchInv /\ [WlNext]_wvars => WatchInv'
  BY WlAssumption, WatchStep
<1>3. WatchInv => WatchlistsSound
  BY DEF WatchInv, Ordered, Dense, In, WatchlistsSound, PlacesAreDense,
     WatchlistBounded
<1> QED
  BY <1>1, <1>2, <1>3, PTL DEF WlSpec

-----------------------------------------------------------------------------
(* The symbol catalog: what a refresh has read of a source that changes.     *)

LEMMA PlaceIsNat ==
  ASSUME NEW S, IsFiniteSet(S), NEW c
  PROVE  Place(S, c) \in Nat
<1>1. {d \in S : d < c} \in SUBSET S
  OBVIOUS
<1> QED
  BY <1>1, FS_Subset, FS_CardinalityType DEF Place

(* The places in a larger listing are not lower, and in one that lacks one   *)
(* code they are lower by at most one.                                       *)
LEMMA PlaceMoves ==
  ASSUME NEW S, IsFiniteSet(S), NEW T, IsFiniteSet(T), NEW c, NEW d
  PROVE  /\ S \subseteq T => Place(S, d) <= Place(T, d)
         /\ S \subseteq T \cup {c} => Place(S, d) <= Place(T, d) + 1
<1> DEFINE s == {e \in S : e < d}
           t == {e \in T : e < d}
<1>1. s \in SUBSET S /\ t \in SUBSET T
  OBVIOUS
<1>2. IsFiniteSet(s) /\ IsFiniteSet(t) /\ IsFiniteSet(t \cup {c})
  BY <1>1, FS_Subset, FS_AddElement
<1>3. /\ Cardinality(s) \in Nat /\ Cardinality(t) \in Nat
      /\ Cardinality(t \cup {c}) <= Cardinality(t) + 1
      /\ Cardinality(t \cup {c}) \in Nat
  <2> HIDE DEF s, t
  <2>1. Cardinality(s) \in Nat /\ Cardinality(t) \in Nat
    BY ONLY <1>2, FS_CardinalityType
  <2>2. Cardinality(t \cup {c}) =
          IF c \in t THEN Cardinality(t) ELSE Cardinality(t) + 1
    BY ONLY <1>2, FS_AddElement
  <2> QED
    BY <2>1, <2>2
<1>4. S \subseteq T => Cardinality(s) <= Cardinality(t)
  <2>1. S \subseteq T => s \in SUBSET t
    OBVIOUS
  <2> HIDE DEF s, t
  <2> QED
    BY <1>2, <2>1, FS_Subset
<1>5. S \subseteq T \cup {c} => Cardinality(s) <= Cardinality(t \cup {c})
  <2>1. S \subseteq T \cup {c} => s \in SUBSET (t \cup {c})
    OBVIOUS
  <2> HIDE DEF s, t
  <2> QED
    BY <1>2, <2>1, FS_Subset
<1>6. Place(S, d) = Cardinality(s) /\ Place(T, d) = Cardinality(t)
  BY DEF Place
<1> HIDE DEF s, t
<1> QED
  BY <1>3, <1>4, <1>5, <1>6

(* A code is before the ones that are greater.                               *)
LEMMA PlaceGrows ==
  ASSUME NEW S, IsFiniteSet(S), S \subseteq Nat, NEW c \in S, NEW d \in S, c < d
  PROVE  Place(S, c) < Place(S, d)
<1> DEFINE s == {e \in S : e < c}
           t == {e \in S : e < d}
<1>1. s \in SUBSET S /\ t \in SUBSET S /\ s \cup {c} \in SUBSET t /\ c \notin s
  <2>1. c \in Nat /\ d \in Nat /\ \A e \in S : e \in Nat
    OBVIOUS
  <2>2. \A e \in S : e < c => e < d
    BY <2>1
  <2>3. s \cup {c} \in SUBSET t
    BY <2>2
  <2>4. c \notin s
    BY <2>1
  <2> QED
    BY <2>3, <2>4
<1>2. Place(S, c) = Cardinality(s) /\ Place(S, d) = Cardinality(t)
  BY DEF Place
<1> HIDE DEF s, t
<1>3. IsFiniteSet(s) /\ IsFiniteSet(t)
  BY <1>1, FS_Subset
<1>4. Cardinality(s \cup {c}) = Cardinality(s) + 1
  BY <1>1, <1>3, FS_AddElement
<1>5. Cardinality(s \cup {c}) <= Cardinality(t)
  BY <1>1, <1>3, FS_Subset
<1>6. Cardinality(s) \in Nat /\ Cardinality(t) \in Nat
  BY <1>3, FS_CardinalityType
<1> QED
  BY <1>2, <1>4, <1>5, <1>6

(* The codes at n consecutive places are at most n.                          *)
AtPlaces(S, a, n) == {c \in S : a <= Place(S, c) /\ Place(S, c) < a + n}
LEMMA FewAtPlaces ==
  ASSUME NEW S, IsFiniteSet(S), S \subseteq Nat, NEW a \in Nat, NEW n \in Nat
  PROVE  /\ IsFiniteSet(AtPlaces(S, a, n))
         /\ Cardinality(AtPlaces(S, a, n)) \in Nat
         /\ Cardinality(AtPlaces(S, a, n)) <= n
<1> DEFINE A == AtPlaces(S, a, n)
           B == a .. a + n - 1
           f == [c \in A |-> Place(S, c)]
<1>1. A \in SUBSET S
  BY DEF AtPlaces
<1>2. IsFiniteSet(A) /\ Cardinality(A) \in Nat
  BY <1>1, FS_Subset, FS_CardinalityType
<1>3. IsFiniteSet(B) /\ Cardinality(B) = n
  <2>1. a \in Int /\ a + n - 1 \in Int /\ (a > a + n - 1 <=> n = 0)
    OBVIOUS
  <2>2. IsFiniteSet(B) /\ Cardinality(B) = IF a > a + n - 1 THEN 0 ELSE (a + n - 1) - a + 1
    BY <2>1, FS_Interval
  <2> QED
    BY <2>1, <2>2
<1>4. f \in [A -> B]
  <2>1. ASSUME NEW c \in A PROVE Place(S, c) \in B
    BY PlaceIsNat DEF AtPlaces
  <2> QED
    BY <2>1
<1>5. ASSUME NEW c \in A, NEW d \in A, f[c] = f[d] PROVE c = d
  <2>1. /\ c \in Nat /\ d \in Nat /\ c \in S /\ d \in S
        /\ Place(S, c) = Place(S, d) /\ Place(S, c) \in Nat
    BY <1>1, <1>5, PlaceIsNat
  <2> HIDE DEF A, B, f
  <2>2. ~(c < d)
    <3>1. c < d => Place(S, c) < Place(S, d)
      BY <2>1, PlaceGrows
    <3> QED
      BY <2>1, <3>1
  <2>3. ~(d < c)
    <3>1. d < c => Place(S, d) < Place(S, c)
      BY <2>1, PlaceGrows
    <3> QED
      BY <2>1, <3>1
  <2> QED
    BY <2>1, <2>2, <2>3
<1>6. f \in Injection(A, B)
  <2> HIDE DEF A, B, f
  <2> QED
    BY <1>4, <1>5 DEF Injection, IsInjective
<1> HIDE DEF A, B, f
<1>7. Cardinality(A) <= Cardinality(B)
  BY <1>3, <1>6, FS_Injection
<1> QED
  BY <1>2, <1>3, <1>7 DEF A

(* The codes from the k-th place on are those that k places leave.           *)
LEMMA FewFromPlace ==
  ASSUME NEW S, IsFiniteSet(S), S \subseteq Nat, NEW k \in Nat,
         NEW T, T \subseteq S, \A c \in T : Place(S, c) >= k
  PROVE  /\ IsFiniteSet(T) /\ Cardinality(T) \in Nat
         /\ k <= Cardinality(S) => Cardinality(T) + k <= Cardinality(S)
         /\ k > Cardinality(S) => Cardinality(T) = 0
<1>1. Cardinality(S) \in Nat /\ IsFiniteSet(T) /\ Cardinality(T) \in Nat
  BY FS_Subset, FS_CardinalityType
<1>2. ASSUME NEW c \in S PROVE Place(S, c) \in Nat /\ Place(S, c) < Cardinality(S)
  <2> DEFINE s == {e \in S : e < c}
  <2>1. s \in SUBSET S /\ s # S
    <3>1. c \notin s
      OBVIOUS
    <3> QED
      BY <3>1
  <2>2. Cardinality(s) <= Cardinality(S) /\ Cardinality(s) # Cardinality(S)
    <3> HIDE DEF s
    <3> QED
      BY <2>1, FS_Subset
  <2>3. Place(S, c) = Cardinality(s)
    BY DEF Place
  <2>4. Place(S, c) \in Nat
    BY PlaceIsNat
  <2> HIDE DEF s
  <2> QED
    BY <1>1, <2>2, <2>3, <2>4
<1>3. CASE k <= Cardinality(S)
  <2>1. PICK n \in Nat : k + n = Cardinality(S)
    <3>1. Cardinality(S) - k \in Nat /\ k + (Cardinality(S) - k) = Cardinality(S)
      BY <1>1, <1>3
    <3> QED
      BY <3>1
  <2>2. T \in SUBSET AtPlaces(S, k, n)
    BY <1>2, <2>1 DEF AtPlaces
  <2>3. /\ IsFiniteSet(AtPlaces(S, k, n)) /\ Cardinality(AtPlaces(S, k, n)) \in Nat
        /\ Cardinality(AtPlaces(S, k, n)) <= n
    BY FewAtPlaces
  <2>4. Cardinality(T) <= Cardinality(AtPlaces(S, k, n))
    BY <2>2, <2>3, FS_Subset
  <2> QED
    BY <1>1, <1>3, <2>1, <2>3, <2>4
<1>4. CASE k > Cardinality(S)
  <2>1. T = {}
    BY <1>1, <1>2, <1>4
  <2> QED
    BY <1>1, <1>4, <2>1, FS_EmptySet
<1> QED
  BY <1>1, <1>3, <1>4
(* The codes of a listing L in the k-th category.                            *)
InCategory(L, k) == {c \in L : CatNode[c] = CatNodes[k]}

(* The categories that have been read, and the strict ones of them.          *)
ReadSoFar(f) == IF f.step = "publish" THEN 1 .. Len(CatNodes) ELSE 1 .. f.node - 1
StrictAmong(K) == {k \in K : CatNodes[k] \notin CatTolerant}

(* The codes of strict categories that the refresh has passed without        *)
(* reading them: all of a category that has been read, and those before the  *)
(* offset of the next page.                                                  *)
LeftOut(f, L, c) ==
  \/ \E k \in ReadSoFar(f) : CatNodes[k] = CatNode[c]
  \/ /\ f.step = "pages" /\ CatNode[c] = CatNodes[f.node]
     /\ Place(InCategory(L, f.node), c) < f.seen
Passed(f, L) ==
  {c \in f.stayed \ (f.got \cup CatDropped) : CatNode[c] \notin CatTolerant /\ LeftOut(f, L, c)}

(* What the refresh may have passed: one code for a change and one for a     *)
(* strict category; and while it reads one, as many more as its listing has  *)
(* shrunk below the number that was announced.                               *)
Allowed(f) == f.changes + Cardinality(StrictAmong(ReadSoFar(f)))
FewPassed(f, L) ==
  /\ Cardinality(Passed(f, L)) <= Allowed(f)
  /\ f.step = "pages" /\ CatNodes[f.node] \notin CatTolerant =>
       Cardinality(Passed(f, L)) + Cardinality(InCategory(L, f.node))
         <= Allowed(f) + f.expected

RefreshSound(f, L, n) ==
  f # CatIdle =>
    /\ f.stayed \subseteq L /\ f.changes <= n
    /\ f.page # 0 /\ (f.step = "pages" => f.seen = (f.page - 1) * CatPage)
    /\ FewPassed(f, L)

Lacking(v) ==
  {c \in v.stayed \ (v.codes \cup CatDropped) : CatNode[c] \notin CatTolerant}
VersionSound(v) ==
  Cardinality(Lacking(v))
    <= v.changes + Cardinality(StrictAmong(1 .. Len(CatNodes)))


(* A refresh that is under way.                                              *)
Fetching ==
  [step : {"count", "pages", "publish"}, node : 1 .. Len(CatNodes),
   expected : Nat, seen : Nat, page : Nat, got : SUBSET CatCodes,
   stayed : SUBSET CatCodes, changes : 0 .. CatMaxChanges]

LEMMA FetchIs ==
  ASSUME NEW f
  PROVE  f \in Fetching <=> f \in CatFetches /\ f # CatIdle
<1>1. f \in Fetching => f.step # "idle"
  BY DEF Fetching
<1>2. CatIdle.step = "idle"
  BY DEF CatIdle
<1>3. f \in CatFetches <=> f = CatIdle \/ f \in Fetching
  BY ONLY DEF CatFetches, Fetching
<1> QED
  BY ONLY <1>1, <1>2, <1>3

LEMMA FetchFields ==
  ASSUME NEW f \in Fetching
  PROVE  /\ f.step \in {"count", "pages", "publish"}
         /\ f.node \in 1 .. Len(CatNodes) /\ f.node \in Nat
         /\ f.expected \in Nat /\ f.seen \in Nat /\ f.page \in Nat
         /\ f.got \subseteq CatCodes /\ f.stayed \subseteq CatCodes
         /\ f.changes \in Nat /\ f.changes <= CatMaxChanges
BY CatAssumption DEF Fetching

LEMMA ListingIsFinite ==
  ASSUME NEW L \in SUBSET CatCodes, NEW k
  PROVE  /\ IsFiniteSet(L) /\ InCategory(L, k) \subseteq L
         /\ IsFiniteSet(InCategory(L, k)) /\ InCategory(L, k) \subseteq Nat
         /\ Cardinality(InCategory(L, k)) \in Nat
<1>1. IsFiniteSet(L)
  BY CatAssumption, FS_Subset
<1>2. InCategory(L, k) \in SUBSET L
  BY DEF InCategory
<1>3. IsFiniteSet(InCategory(L, k))
  BY <1>1, <1>2, FS_Subset
<1> QED
  BY <1>1, <1>2, <1>3, CatAssumption, FS_CardinalityType

LEMMA StrictIsFinite ==
  ASSUME NEW K \in SUBSET (1 .. Len(CatNodes))
  PROVE  IsFiniteSet(StrictAmong(K)) /\ Cardinality(StrictAmong(K)) \in Nat
<1>1. Len(CatNodes) \in Nat
  BY CatAssumption
<1>2. IsFiniteSet(1 .. Len(CatNodes))
  BY <1>1, FS_Interval
<1>3. StrictAmong(K) \in SUBSET (1 .. Len(CatNodes))
  BY DEF StrictAmong
<1>4. IsFiniteSet(StrictAmong(K))
  BY <1>2, <1>3, FS_Subset
<1> QED
  BY <1>4, FS_CardinalityType

LEMMA PassedIsFinite ==
  ASSUME NEW f \in Fetching, NEW L
  PROVE  IsFiniteSet(Passed(f, L)) /\ Cardinality(Passed(f, L)) \in Nat
<1>1. Passed(f, L) \in SUBSET CatCodes
  BY FetchFields DEF Passed
<1>2. IsFiniteSet(Passed(f, L))
  BY ONLY <1>1, CatAssumption, FS_Subset
<1> QED
  BY ONLY <1>2, FS_CardinalityType

LEMMA AllowedIsNat ==
  ASSUME NEW f \in Fetching
  PROVE  /\ ReadSoFar(f) \subseteq 1 .. Len(CatNodes)
         /\ IsFiniteSet(StrictAmong(ReadSoFar(f)))
         /\ Cardinality(StrictAmong(ReadSoFar(f))) \in Nat
         /\ Allowed(f) \in Nat
<1>0. Len(CatNodes) \in Nat
  BY CatAssumption
<1>1. ReadSoFar(f) \in SUBSET (1 .. Len(CatNodes))
  BY <1>0, FetchFields DEF ReadSoFar
<1> QED
  BY <1>1, StrictIsFinite, FetchFields DEF Allowed

(* A change of the source makes the refresh pass at most one code more: the  *)
(* one that moves to the place before the offset.                            *)
LEMMA PassedAfterChange ==
  ASSUME NEW L \in SUBSET CatCodes, NEW M \in SUBSET CatCodes,
         NEW c \in CatCodes, M = L \ {c} \/ M = L \cup {c},
         NEW f \in Fetching, NEW g \in Fetching, f.stayed \subseteq L,
         g.step = f.step, g.node = f.node, g.seen = f.seen,
         g.expected = f.expected, g.got = f.got,
         g.stayed = f.stayed \ {c}, g.changes = f.changes + 1,
         FewPassed(f, L)
  PROVE  FewPassed(g, M)
<1> DEFINE S == InCategory(L, f.node)
           T == InCategory(M, f.node)
           P == Passed(f, L)
           Q == Passed(g, M)
           E == AtPlaces(S, f.seen, 1)
<1>1. /\ S \subseteq Nat /\ IsFiniteSet(S) /\ Cardinality(S) \in Nat
      /\ T \subseteq Nat /\ IsFiniteSet(T) /\ Cardinality(T) \in Nat
  BY ListingIsFinite
<1>2. /\ IsFiniteSet(P) /\ Cardinality(P) \in Nat
      /\ IsFiniteSet(Q) /\ Cardinality(Q) \in Nat
  BY PassedIsFinite
<1>3. IsFiniteSet(E) /\ Cardinality(E) \in Nat /\ Cardinality(E) <= 1
  <2>1. f.seen \in Nat /\ 1 \in Nat
    BY FetchFields
  <2> HIDE DEF S
  <2> QED
    BY <1>1, <2>1, FewAtPlaces
<1>4. Allowed(f) \in Nat /\ Allowed(g) = Allowed(f) + 1
  <2>1. ReadSoFar(g) = ReadSoFar(f)
    BY DEF ReadSoFar
  <2>2. Allowed(f) \in Nat /\ Cardinality(StrictAmong(ReadSoFar(f))) \in Nat
    BY AllowedIsNat
  <2> QED
    BY <2>1, <2>2, FetchFields DEF Allowed
<1>5. ReadSoFar(g) = ReadSoFar(f)
  BY DEF ReadSoFar
<1>6. S \subseteq T \cup {c} /\ T \subseteq S \cup {c}
  BY DEF InCategory
<1>7. ASSUME NEW d \in Q PROVE d \in P \/ d \in E
  <2>1. /\ d \in f.stayed \ (f.got \cup CatDropped) /\ CatNode[d] \notin CatTolerant
        /\ LeftOut(g, M, d)
    BY DEF Passed
  <2>2. CASE \E k \in ReadSoFar(f) : CatNodes[k] = CatNode[d]
    BY <2>1, <2>2 DEF Passed, LeftOut
  <2>3. CASE /\ f.step = "pages" /\ CatNode[d] = CatNodes[f.node]
             /\ Place(T, d) < f.seen
    <3>1. d \in S
      BY <2>1, <2>3 DEF InCategory
    <3>2. Place(S, d) <= Place(T, d) + 1
      <4> HIDE DEF S, T
      <4> QED
        BY <1>1, <1>6, PlaceMoves
    <3>3. Place(S, d) \in Nat /\ Place(T, d) \in Nat /\ f.seen \in Nat
      BY <1>1, PlaceIsNat, FetchFields
    <3>4. CASE Place(S, d) < f.seen
      BY <2>1, <2>3, <3>4 DEF Passed, LeftOut
    <3>5. CASE f.seen <= Place(S, d)
      <4>1. f.seen <= Place(S, d) /\ Place(S, d) < f.seen + 1
        <5> HIDE DEF S, T
        <5> QED
          BY <2>3, <3>2, <3>3, <3>5
      <4> QED
        BY <3>1, <4>1 DEF AtPlaces
    <3> QED
      BY <3>3, <3>4, <3>5
  <2> QED
    BY <1>5, <2>1, <2>2, <2>3 DEF LeftOut
<1>8. L \subseteq M => Q \subseteq P
  <2> SUFFICES ASSUME L \subseteq M, NEW d \in Q PROVE d \in P
    OBVIOUS
  <2>1. /\ d \in f.stayed \ (f.got \cup CatDropped) /\ CatNode[d] \notin CatTolerant
        /\ LeftOut(g, M, d)
    BY DEF Passed
  <2>2. Place(S, d) <= Place(T, d)
    <3>1. S \subseteq T
      BY DEF InCategory
    <3> HIDE DEF S, T
    <3> QED
      BY <1>1, <3>1, PlaceMoves
  <2>3. Place(S, d) \in Nat /\ Place(T, d) \in Nat /\ f.seen \in Nat
    BY <1>1, PlaceIsNat, FetchFields
  <2>4. Place(T, d) < f.seen => Place(S, d) < f.seen
    BY <2>2, <2>3
  <2> QED
    BY <1>5, <2>1, <2>4 DEF Passed, LeftOut
<1> HIDE DEF P, Q, E
<1>9. Cardinality(Q) <= Cardinality(P) + 1
  <2>1. IsFiniteSet(P \cup E) /\ Cardinality(P \cup E) \in Nat
    BY <1>2, <1>3, FS_Union, FS_CardinalityType
  <2>2. Cardinality(P \cup E) <= Cardinality(P) + Cardinality(E)
    <3>1. P \cap E \in SUBSET P
      OBVIOUS
    <3>2. IsFiniteSet(P \cap E) /\ Cardinality(P \cap E) \in Nat
      BY <1>2, <3>1, FS_Subset, FS_CardinalityType
    <3>3. Cardinality(P \cup E) =
            Cardinality(P) + Cardinality(E) - Cardinality(P \cap E)
      BY <1>2, <1>3, FS_Union
    <3> QED
      BY ONLY <1>2, <1>3, <3>2, <3>3
  <2>3. Q \in SUBSET (P \cup E)
    BY <1>7
  <2>4. Cardinality(Q) <= Cardinality(P \cup E)
    BY <2>1, <2>3, FS_Subset
  <2> QED
    BY ONLY <1>2, <1>3, <2>1, <2>2, <2>4
<1>10. L \subseteq M => Cardinality(Q) <= Cardinality(P)
  BY <1>2, <1>8, FS_Subset
<1>11. /\ Cardinality(T) <= Cardinality(S) + 1
       /\ ~(L \subseteq M) => Cardinality(T) <= Cardinality(S)
  <2>1. /\ IsFiniteSet(S \cup {c}) /\ Cardinality(S \cup {c}) \in Nat
        /\ Cardinality(S \cup {c}) <= Cardinality(S) + 1
    <3> HIDE DEF S
    <3>1. Cardinality(S \cup {c}) = IF c \in S THEN Cardinality(S) ELSE Cardinality(S) + 1
      BY ONLY <1>1, FS_AddElement
    <3>2. IsFiniteSet(S \cup {c})
      BY ONLY <1>1, FS_AddElement
    <3> QED
      BY <1>1, <3>1, <3>2
  <2>2. Cardinality(T) <= Cardinality(S \cup {c})
    <3> HIDE DEF S, T
    <3> QED
      BY <1>6, <2>1, FS_Subset
  <2>3. ~(L \subseteq M) => T \in SUBSET S
    BY DEF InCategory
  <2>4. ~(L \subseteq M) => Cardinality(T) <= Cardinality(S)
    <3> HIDE DEF S, T
    <3> QED
      BY <1>1, <2>3, FS_Subset
  <2> HIDE DEF S, T
  <2> QED
    BY <1>1, <2>1, <2>2, <2>4
<1>12. Cardinality(P) <= Allowed(f)
  BY DEF FewPassed, P
<1>13. Cardinality(Q) <= Allowed(g)
  <2> HIDE DEF S, T
  <2> QED
    BY <1>2, <1>4, <1>9, <1>12
<1>14. f.step = "pages" /\ CatNodes[f.node] \notin CatTolerant =>
         Cardinality(Q) + Cardinality(T) <= Allowed(g) + g.expected
  <2>1. f.step = "pages" /\ CatNodes[f.node] \notin CatTolerant =>
         Cardinality(P) + Cardinality(S) <= Allowed(f) + f.expected
    BY DEF FewPassed, P
  <2>2. f.expected \in Nat
    BY FetchFields
  <2> HIDE DEF S, T
  <2> QED
    BY <1>1, <1>2, <1>4, <1>9, <1>10, <1>11, <2>1, <2>2
<1> QED
  BY <1>13, <1>14 DEF FewPassed, Q

(* The end of a category.  R are its codes that no page has held and that    *)
(* were not passed before.                                                   *)
LEMMA PassedAtEnd ==
  ASSUME NEW L \in SUBSET CatCodes, NEW f \in Fetching, NEW g \in Fetching,
         FewPassed(f, L), f.stayed \subseteq L, f.step # "publish",
         g.step # "pages", g.stayed = f.stayed, g.changes = f.changes,
         f.got \subseteq g.got, ReadSoFar(g) = ReadSoFar(f) \cup {f.node},
         NEW R, R \subseteq InCategory(L, f.node),
         \A c \in InCategory(L, f.node) :
           c \in f.stayed \ (g.got \cup CatDropped) /\ CatNode[c] \notin CatTolerant =>
             c \in Passed(f, L) \cup R,
         CatNodes[f.node] \notin CatTolerant =>
           Cardinality(Passed(f, L)) + Cardinality(R) <= Allowed(f) + 1
  PROVE  FewPassed(g, L)
<1> DEFINE P == Passed(f, L)
           Q == Passed(g, L)
<1>1. /\ IsFiniteSet(P) /\ Cardinality(P) \in Nat
      /\ IsFiniteSet(Q) /\ Cardinality(Q) \in Nat
  BY PassedIsFinite
<1>2. IsFiniteSet(R) /\ Cardinality(R) \in Nat
  <2>1. IsFiniteSet(InCategory(L, f.node)) /\ R \in SUBSET InCategory(L, f.node)
    BY ListingIsFinite
  <2>2. IsFiniteSet(R)
    BY ONLY <2>1, FS_Subset
  <2> QED
    BY ONLY <2>2, FS_CardinalityType
<1>3. ASSUME NEW c \in Q 
        PROVE  c \in P \/ (c \in R /\ CatNodes[f.node] \notin CatTolerant)
  <2>1. /\ c \in f.stayed \ (g.got \cup CatDropped) /\ CatNode[c] \notin CatTolerant
        /\ \E k \in ReadSoFar(g) : CatNodes[k] = CatNode[c]
    BY DEF Passed, LeftOut
  <2>2. CASE \E k \in ReadSoFar(f) : CatNodes[k] = CatNode[c]
    <3>1. LeftOut(f, L, c)
      BY <2>2 DEF LeftOut
    <3>2. c \in f.stayed \ (f.got \cup CatDropped)
      BY <2>1
    <3>3. c \in Passed(f, L)
      BY ONLY <2>1, <3>1, <3>2 DEF Passed
    <3> QED
      BY <3>3
  <2>3. CASE CatNodes[f.node] = CatNode[c]
    <3>1. c \in InCategory(L, f.node)
      BY <2>1, <2>3 DEF InCategory
    <3> QED
      BY <2>1, <2>3, <3>1
  <2> QED
    BY <2>1, <2>2, <2>3
<1>4. /\ CatNodes[f.node] \in CatTolerant => Allowed(g) = Allowed(f)
      /\ CatNodes[f.node] \notin CatTolerant => Allowed(g) = Allowed(f) + 1
      /\ Allowed(f) \in Nat
  <2> DEFINE K == StrictAmong(ReadSoFar(f))
  <2>1. IsFiniteSet(K) /\ Cardinality(K) \in Nat /\ Allowed(f) \in Nat
    BY AllowedIsNat
  <2>2. f.node \notin K
    BY FetchFields DEF ReadSoFar, StrictAmong
  <2>3. /\ CatNodes[f.node] \in CatTolerant => StrictAmong(ReadSoFar(g)) = K
        /\ CatNodes[f.node] \notin CatTolerant =>
             StrictAmong(ReadSoFar(g)) = K \cup {f.node}
    BY DEF StrictAmong
  <2>4. f.changes \in Nat
    BY FetchFields
  <2>5. Allowed(f) = f.changes + Cardinality(K)
    BY DEF Allowed
  <2>6. Allowed(g) = f.changes + Cardinality(StrictAmong(ReadSoFar(g)))
    BY DEF Allowed
  <2> HIDE DEF K
  <2>7. Cardinality(K \cup {f.node}) = Cardinality(K) + 1
    <3>1. Cardinality(K \cup {f.node}) =
            IF f.node \in K THEN Cardinality(K) ELSE Cardinality(K) + 1
      BY ONLY <2>1, FS_AddElement
    <3> QED
      BY <2>2, <3>1
  <2>8. CASE CatNodes[f.node] \in CatTolerant
    <3>1. StrictAmong(ReadSoFar(g)) = K
      BY ONLY <2>3, <2>8
    <3>2. Allowed(g) = Allowed(f)
      BY ONLY <2>5, <2>6, <3>1
    <3> QED
      BY ONLY <2>1, <2>8, <3>2
  <2>9. CASE CatNodes[f.node] \notin CatTolerant
    <3>1. Cardinality(StrictAmong(ReadSoFar(g))) = Cardinality(K) + 1
      BY ONLY <2>3, <2>7, <2>9
    <3>2. Allowed(g) = Allowed(f) + 1
      BY ONLY <2>1, <2>4, <2>5, <2>6, <3>1
    <3> QED
      BY ONLY <2>1, <2>9, <3>2
  <2> QED
    BY <2>8, <2>9
<1>5. Cardinality(P) <= Allowed(f)
  BY DEF FewPassed
<1>6. CASE CatNodes[f.node] \in CatTolerant
  <2>1. Q \in SUBSET P
    BY <1>3, <1>6
  <2> HIDE DEF P, Q
  <2>2. Cardinality(Q) <= Cardinality(P)
    BY ONLY <1>1, <2>1, FS_Subset
  <2>3. Cardinality(Q) <= Allowed(g)
    BY <1>1, <1>4, <1>5, <1>6, <2>2
  <2> QED
    BY <2>3 DEF FewPassed, Q
<1>7. CASE CatNodes[f.node] \notin CatTolerant
  <2>1. Q \in SUBSET (P \cup R)
    BY <1>3
  <2>2. Cardinality(P) + Cardinality(R) <= Allowed(f) + 1
    BY <1>7
  <2> HIDE DEF P, Q
  <2>3. IsFiniteSet(P \cup R)
    BY ONLY <1>1, <1>2, FS_Union
  <2>4. Cardinality(P \cup R) \in Nat
    BY ONLY <2>3, FS_CardinalityType
  <2>5. Cardinality(Q) <= Cardinality(P \cup R)
    BY ONLY <2>1, <2>3, FS_Subset
  <2>6. Cardinality(P \cup R) <= Cardinality(P) + Cardinality(R)
    <3>1. P \cap R \in SUBSET P
      OBVIOUS
    <3>2. IsFiniteSet(P \cap R)
      BY ONLY <1>1, <3>1, FS_Subset
    <3>3. Cardinality(P \cap R) \in Nat
      BY ONLY <3>2, FS_CardinalityType
    <3>4. Cardinality(P \cup R) =
            Cardinality(P) + Cardinality(R) - Cardinality(P \cap R)
      BY ONLY <1>1, <1>2, FS_Union
    <3> QED
      BY ONLY <1>1, <1>2, <3>3, <3>4
  <2>7. Cardinality(Q) <= Allowed(g)
    BY ONLY <1>1, <1>2, <1>4, <1>7, <2>2, <2>4, <2>5, <2>6
  <2> QED
    BY <2>7 DEF FewPassed, Q
<1> QED
  BY <1>6, <1>7

LEMMA NodeEndsIs ==
  ASSUME NEW f \in Fetching, f.step # "publish"
  PROVE  /\ NodeEnds(f) \in Fetching
         /\ NodeEnds(f).step \in {"count", "publish"}
         /\ NodeEnds(f).stayed = f.stayed /\ NodeEnds(f).got = f.got
         /\ NodeEnds(f).changes = f.changes /\ NodeEnds(f).page = f.page
         /\ ReadSoFar(NodeEnds(f)) = ReadSoFar(f) \cup {f.node}
<1>1. Len(CatNodes) \in Nat /\ f.node \in 1 .. Len(CatNodes) /\ f.node \in Nat
  BY CatAssumption, FetchFields
<1>2. CASE f.node < Len(CatNodes)
  <2> DEFINE g == [f EXCEPT !.step = "count", !.node = @ + 1]
  <2>1. NodeEnds(f) = g
    BY <1>2 DEF NodeEnds
  <2>2. g \in Fetching
    <3>1. f.node + 1 \in 1 .. Len(CatNodes)
      BY ONLY <1>1, <1>2
    <3> QED
      BY ONLY <3>1, f \in Fetching DEF Fetching
  <2>3. /\ g.step = "count" /\ g.node = f.node + 1 /\ g.stayed = f.stayed
        /\ g.got = f.got /\ g.changes = f.changes /\ g.page = f.page
    BY DEF Fetching
  <2> HIDE DEF g
  <2>4. 1 .. (f.node + 1) - 1 = (1 .. f.node - 1) \cup {f.node}
    BY <1>1
  <2>5. ReadSoFar(g) = ReadSoFar(f) \cup {f.node}
    BY <2>3, <2>4 DEF ReadSoFar
  <2> QED
    BY <2>1, <2>2, <2>3, <2>5
<1>3. CASE ~(f.node < Len(CatNodes))
  <2> DEFINE g == [f EXCEPT !.step = "publish"]
  <2>1. NodeEnds(f) = g
    BY <1>3 DEF NodeEnds
  <2>2. g \in Fetching
    BY DEF Fetching
  <2>3. /\ g.step = "publish" /\ g.stayed = f.stayed
        /\ g.got = f.got /\ g.changes = f.changes /\ g.page = f.page
    BY DEF Fetching
  <2> HIDE DEF g
  <2>4. 1 .. Len(CatNodes) = (1 .. f.node - 1) \cup {f.node}
    BY <1>1, <1>3
  <2>5. ReadSoFar(g) = ReadSoFar(f) \cup {f.node}
    BY <2>3, <2>4 DEF ReadSoFar
  <2> QED
    BY <2>1, <2>2, <2>3, <2>5
<1> QED
  BY <1>2, <1>3

(* What a page holds: at most page_size rows, none from beyond the listing.  *)
LEMMA PageHolds ==
  ASSUME NEW L \in SUBSET CatCodes, NEW f \in Fetching,
         NEW n \in 0 .. Cardinality(AtPlaces(InCategory(L, f.node), f.seen, CatPage))
  PROVE  /\ n \in Nat /\ n <= CatPage
         /\ n # 0 => f.seen + n <= Cardinality(InCategory(L, f.node))
<1> DEFINE S == InCategory(L, f.node)
           T == AtPlaces(S, f.seen, CatPage)
<1>1. /\ S \subseteq Nat /\ IsFiniteSet(S) /\ Cardinality(S) \in Nat
      /\ f.seen \in Nat /\ CatPage \in Nat
  BY ListingIsFinite, FetchFields, CatAssumption
<1>2. T \subseteq S /\ \A c \in T : Place(S, c) >= f.seen
  <2>1. ASSUME NEW c \in T PROVE Place(S, c) >= f.seen
    <3>1. Place(S, c) \in Nat
      BY <1>1, PlaceIsNat
    <3> QED
      BY <1>1, <3>1 DEF AtPlaces
  <2> QED
    BY <2>1 DEF AtPlaces
<1> HIDE DEF S
<1>3. IsFiniteSet(T) /\ Cardinality(T) \in Nat /\ Cardinality(T) <= CatPage
  BY <1>1, FewAtPlaces
<1>4. n \in 0 .. Cardinality(T)
  BY DEF S
<1> HIDE DEF T
<1>5. /\ f.seen <= Cardinality(S) => Cardinality(T) + f.seen <= Cardinality(S)
      /\ f.seen > Cardinality(S) => Cardinality(T) = 0
  BY <1>1, <1>2, FewFromPlace
<1>6. n \in Nat /\ n <= CatPage /\ (n # 0 => f.seen + n <= Cardinality(S))
  BY <1>1, <1>3, <1>4, <1>5
<1> QED
  BY <1>6 DEF S

(* A page that does not end the listing too early: h is the refresh after it.*)
LEMMA PassedAfterPage ==
  ASSUME NEW L \in SUBSET CatCodes, NEW f \in Fetching, NEW h \in Fetching,
         f.step = "pages", f.stayed \subseteq L, FewPassed(f, L),
         NEW n \in 0 .. Cardinality(AtPlaces(InCategory(L, f.node), f.seen, CatPage)),
         ~EndsEarly(f, n),
         h.step = "pages", h.node = f.node, h.expected = f.expected,
         h.seen = f.seen + n, h.stayed = f.stayed, h.changes = f.changes,
         h.got = f.got \cup (AtPlaces(InCategory(L, f.node), f.seen, n) \ CatDropped)
  PROVE  /\ n < CatPage \/ h.seen >= h.expected => FewPassed(NodeEnds(h), L)
         /\ ~(n < CatPage) => FewPassed(h, L) /\ n = CatPage
<1> DEFINE S == InCategory(L, f.node)
           P == Passed(f, L)
           R == {c \in S : Place(S, c) >= f.seen + n}
<1>1. /\ S \subseteq Nat /\ IsFiniteSet(S) /\ Cardinality(S) \in Nat
      /\ f.seen \in Nat /\ f.expected \in Nat /\ CatPage \in Nat
  BY ListingIsFinite, FetchFields, CatAssumption
<1>2. n \in Nat /\ n <= CatPage /\ (n # 0 => f.seen + n <= Cardinality(S))
  BY PageHolds
<1>3. /\ IsFiniteSet(P) /\ Cardinality(P) \in Nat
      /\ Allowed(f) \in Nat /\ Allowed(h) = Allowed(f)
  BY PassedIsFinite, AllowedIsNat DEF Allowed, ReadSoFar
<1>4. ASSUME NEW c \in Passed(h, L) PROVE c \in P
  <2>1. /\ c \in f.stayed \ (f.got \cup CatDropped) /\ c \notin AtPlaces(S, f.seen, n)
        /\ CatNode[c] \notin CatTolerant /\ LeftOut(h, L, c)
    BY DEF Passed
  <2>2. CASE \E k \in ReadSoFar(h) : CatNodes[k] = CatNode[c]
    BY <2>1, <2>2 DEF Passed, LeftOut, ReadSoFar
  <2>3. CASE CatNode[c] = CatNodes[f.node] /\ Place(S, c) < f.seen + n
    <3>1. c \in S
      BY <2>1, <2>3 DEF InCategory
    <3>2. Place(S, c) \in Nat
      BY <1>1, PlaceIsNat
    <3>3. ~(f.seen <= Place(S, c))
      BY <2>1, <2>3, <3>1 DEF AtPlaces
    <3>4. Place(S, c) < f.seen
      <4> HIDE DEF S
      <4> QED
        BY <1>1, <3>2, <3>3
    <3> QED
      BY <2>1, <2>3, <3>4 DEF Passed, LeftOut
  <2> QED
    BY <2>1, <2>2, <2>3 DEF LeftOut
<1>5. Cardinality(Passed(h, L)) <= Cardinality(P) /\ Cardinality(Passed(h, L)) \in Nat
  <2>1. Passed(h, L) \in SUBSET P
    BY <1>4
  <2> HIDE DEF P
  <2>2. Cardinality(Passed(h, L)) <= Cardinality(P)
    BY ONLY <1>3, <2>1, FS_Subset
  <2> QED
    BY <2>2, PassedIsFinite
<1>6. /\ Cardinality(P) <= Allowed(f)
      /\ CatNodes[f.node] \notin CatTolerant =>
           Cardinality(P) + Cardinality(S) <= Allowed(f) + f.expected
  BY DEF FewPassed
<1>7. FewPassed(h, L)
  <2>1. Cardinality(Passed(h, L)) <= Allowed(h)
    <3> HIDE DEF P, S
    <3> QED
      BY ONLY <1>3, <1>5, <1>6
  <2>2. CatNodes[f.node] \notin CatTolerant =>
          Cardinality(Passed(h, L)) + Cardinality(S) <= Allowed(h) + f.expected
    <3> HIDE DEF P, S
    <3> QED
      BY ONLY <1>1, <1>3, <1>5, <1>6
  <2> QED
    BY <2>1, <2>2 DEF FewPassed
<1>8. ASSUME n < CatPage \/ h.seen >= h.expected PROVE FewPassed(NodeEnds(h), L)
  <2>1. ASSUME NEW c \in S, c \in h.stayed \ (h.got \cup CatDropped), CatNode[c] \notin CatTolerant
        PROVE  c \in Passed(h, L) \cup R
    <3>1. CatNode[c] = CatNodes[h.node]
      BY DEF InCategory
    <3>2. Place(S, c) \in Nat
      BY <1>1, PlaceIsNat
    <3>3. Place(S, c) >= f.seen + n \/ Place(S, c) < h.seen
      <4> HIDE DEF S
      <4> QED
        BY <1>1, <1>2, <3>2
    <3> QED
      BY <2>1, <3>1, <3>3 DEF Passed, LeftOut
  <2>2. ASSUME CatNodes[f.node] \notin CatTolerant
        PROVE  Cardinality(Passed(h, L)) + Cardinality(R) <= Allowed(h) + 1
    <3>1. n # 0 /\ (n < CatPage => f.expected <= f.seen + n + 1)
      BY <1>1, <1>2, <2>2 DEF EndsEarly
    <3>2. f.expected <= f.seen + n + 1
      BY <1>1, <1>2, <1>8, <3>1
    <3>3. R \subseteq S /\ (\A c \in R : Place(S, c) >= f.seen + n) /\ f.seen + n \in Nat
      BY <1>1, <1>2
    <3> HIDE DEF S, P, R
    <3>4. /\ Cardinality(R) \in Nat
          /\ f.seen + n <= Cardinality(S) =>
               Cardinality(R) + (f.seen + n) <= Cardinality(S)
      BY ONLY <1>1, <3>3, FewFromPlace
    <3>5. Cardinality(R) + (f.seen + n) <= Cardinality(S)
      BY ONLY <1>2, <3>1, <3>4
    <3>6. Cardinality(P) + Cardinality(S) <= Allowed(f) + f.expected
      BY ONLY <1>6, <2>2
    <3> QED
      BY ONLY <1>1, <1>2, <1>3, <1>5, <3>2, <3>4, <3>5, <3>6
  <2>3. /\ NodeEnds(h) \in Fetching /\ NodeEnds(h).step \in {"count", "publish"}
        /\ NodeEnds(h).stayed = h.stayed /\ NodeEnds(h).got = h.got
        /\ NodeEnds(h).changes = h.changes
        /\ ReadSoFar(NodeEnds(h)) = ReadSoFar(h) \cup {h.node}
    BY NodeEndsIs
  <2>4. R \subseteq InCategory(L, h.node)
    OBVIOUS
  <2>5. \A c \in InCategory(L, h.node) :
          c \in h.stayed \ (NodeEnds(h).got \cup CatDropped) /\ CatNode[c] \notin CatTolerant =>
            c \in Passed(h, L) \cup R
    BY <2>1, <2>3
  <2>6. CatNodes[h.node] \notin CatTolerant =>
          Cardinality(Passed(h, L)) + Cardinality(R) <= Allowed(h) + 1
    BY <2>2
  <2> HIDE DEF R
  <2> QED
    BY <1>7, <2>3, <2>4, <2>5, <2>6, PassedAtEnd
<1>9. ~(n < CatPage) => n = CatPage
  BY <1>1, <1>2
<1> QED
  BY <1>7, <1>8, <1>9

(* Publication: the new version has the greatest number, so it is kept.      *)
LEMMA NewVersionIsKept ==
  ASSUME NEW V, NEW w, \A v \in V : v.id < w.id,
         w.id \in Nat, \A v \in V : v.id \in Nat
  PROVE  w \in Newest(V \cup {w}) /\ Newest(V \cup {w}) \subseteq V \cup {w}
<1>1. {v \in V \cup {w} : v.id > w.id} = {}
  <2>1. ASSUME NEW v \in V \cup {w} PROVE ~(v.id > w.id)
    OBVIOUS
  <2> QED
    BY <2>1
<1>2. Cardinality({}) = 0 /\ 0 < CatKept
  BY FS_EmptySet, CatAssumption
<1> QED
  BY <1>1, <1>2 DEF Newest

CatInv ==
  /\ CatTypeOK
  /\ RefreshSound(catfetch, catlisted, catchanges)
  /\ \A v \in catversions : v.id < catnext /\ VersionSound(v)
  /\ catactive # 0 => \E v \in catversions : v.id = catactive

LEMMA CatStarts == CatInit => CatInv
<1> SUFFICES ASSUME CatInit PROVE CatInv
  OBVIOUS
<1>1. CatTypeOK
  BY CatAssumption DEF CatInit, CatTypeOK, CatFetches
<1>2. RefreshSound(catfetch, catlisted, catchanges)
  BY DEF CatInit, RefreshSound
<1> QED
  BY <1>1, <1>2 DEF CatInit, CatInv

(* A step that leaves the versions alone and moves the refresh only.         *)
LEMMA RefreshMoves ==
  ASSUME CatInv,
         UNCHANGED <<catlisted, catchanges, catversions, catactive, catnext, catage>>,
         catfetch' = CatIdle \/
           (catfetch' \in Fetching /\ RefreshSound(catfetch', catlisted, catchanges))
  PROVE  CatInv'
<1>1. catfetch' \in CatFetches
  <2>1. CatIdle \in CatFetches
    BY DEF CatFetches
  <2> QED
    BY <2>1, FetchIs
<1>2. RefreshSound(catfetch', catlisted', catchanges')
  BY DEF RefreshSound
<1>3. CatTypeOK'
  BY <1>1 DEF CatInv, CatTypeOK
<1> QED
  BY <1>2, <1>3 DEF CatInv, VersionSound

(* What the invariant says of a refresh that is under way.                   *)
LEMMA UnderWay ==
  ASSUME CatInv, catfetch # CatIdle
  PROVE  /\ catfetch \in Fetching /\ catlisted \in SUBSET CatCodes
         /\ catfetch.stayed \subseteq catlisted /\ catfetch.changes <= catchanges
         /\ catfetch.page # 0
         /\ catfetch.step = "pages" =>
              catfetch.seen = (catfetch.page - 1) * CatPage
         /\ FewPassed(catfetch, catlisted)
         /\ catchanges \in Nat
BY FetchIs DEF CatInv, CatTypeOK, RefreshSound

LEMMA ChangeKeeps ==
  ASSUME CatInv, NEW c \in CatCodes, SourceChanges(c)
  PROVE  CatInv'
<1>1. /\ catlisted \in SUBSET CatCodes /\ catchanges \in Nat
      /\ catchanges < CatMaxChanges /\ catchanges' = catchanges + 1
      /\ CatMaxChanges \in Nat
  BY CatAssumption DEF CatInv, CatTypeOK, SourceChanges
<1>2. /\ catlisted' = catlisted \ {c} \/ catlisted' = catlisted \cup {c}
      /\ catlisted' \in SUBSET CatCodes
  BY <1>1 DEF SourceChanges
<1>3. UNCHANGED <<catversions, catactive, catnext, catage>>
  BY DEF SourceChanges
<1>4. catfetch' \in CatFetches /\ RefreshSound(catfetch', catlisted', catchanges')
  <2>1. CASE catfetch = CatIdle
    BY <2>1 DEF SourceChanges, RefreshSound, CatFetches
  <2>2. CASE catfetch # CatIdle
    <3> DEFINE f == catfetch
               g == [f EXCEPT !.stayed = @ \ {c}, !.changes = @ + 1]
    <3>1. /\ f \in Fetching /\ f.stayed \subseteq catlisted
          /\ f.changes <= catchanges /\ FewPassed(f, catlisted) /\ f.page # 0
          /\ f.step = "pages" => f.seen = (f.page - 1) * CatPage
      BY <2>2, UnderWay
    <3>2. catfetch' = g
      BY <2>2 DEF SourceChanges
    <3>3. f.changes \in Nat /\ f.changes + 1 \in 0 .. CatMaxChanges
      BY <1>1, <3>1, FetchFields
    <3>4. g \in Fetching
      <4> HIDE DEF f
      <4> QED
        BY ONLY <3>1, <3>3 DEF Fetching
    <3>5. /\ g.step = f.step /\ g.node = f.node /\ g.seen = f.seen
          /\ g.expected = f.expected /\ g.got = f.got /\ g.page = f.page
          /\ g.stayed = f.stayed \ {c} /\ g.changes = f.changes + 1
      <4> HIDE DEF f
      <4> QED
        BY ONLY <3>1 DEF Fetching
    <3> HIDE DEF f, g
    <3>6. FewPassed(g, catlisted')
      BY <1>1, <1>2, <3>1, <3>4, <3>5, PassedAfterChange
    <3>7. g.stayed \subseteq catlisted'
      BY <1>2, <3>1, <3>5
    <3>8. g.changes <= catchanges'
      BY <1>1, <3>1, <3>3, <3>5
    <3>9. RefreshSound(g, catlisted', catchanges')
      BY <3>1, <3>5, <3>6, <3>7, <3>8 DEF RefreshSound
    <3> QED
      BY <3>2, <3>4, <3>9, FetchIs
  <2> QED
    BY <2>1, <2>2
<1>5. CatTypeOK'
  BY <1>1, <1>2, <1>3, <1>4 DEF CatInv, CatTypeOK
<1> QED
  BY <1>3, <1>4, <1>5 DEF CatInv, VersionSound

LEMMA BeginKeeps ==
  ASSUME CatInv, BeginRefresh
  PROVE  CatInv'
<1> DEFINE g == [step |-> "count", node |-> 1, expected |-> 0, seen |-> 0,
                 page |-> 1, got |-> {}, stayed |-> catlisted, changes |-> 0]
<1>1. catfetch' = g
  BY DEF BeginRefresh
<1>2. Len(CatNodes) \in Nat /\ 1 \in 1 .. Len(CatNodes)
  <2>1. CatNodes # <<>> /\ CatNodes \in Seq(Range(CatNode))
    BY CatAssumption
  <2> QED
    BY <2>1
<1>3. catlisted \in SUBSET CatCodes /\ catchanges \in Nat /\ CatMaxChanges \in Nat
  BY CatAssumption DEF CatInv, CatTypeOK
<1>4. g \in Fetching
  BY <1>2, <1>3 DEF Fetching
<1>5. /\ g.step = "count" /\ g.node = 1 /\ g.page = 1 /\ g.stayed = catlisted
      /\ g.changes = 0
  OBVIOUS
<1> HIDE DEF g
<1>6. Passed(g, catlisted) = {}
  <2>1. ReadSoFar(g) = {}
    BY <1>5 DEF ReadSoFar
  <2> QED
    BY <1>5, <2>1 DEF Passed, LeftOut
<1>7. Cardinality(Passed(g, catlisted)) = 0 /\ Allowed(g) \in Nat
  BY <1>4, <1>6, FS_EmptySet, AllowedIsNat
<1>8. FewPassed(g, catlisted)
  BY <1>5, <1>7 DEF FewPassed
<1>9. RefreshSound(g, catlisted, catchanges)
  BY <1>3, <1>5, <1>8 DEF RefreshSound
<1>10. UNCHANGED <<catlisted, catchanges, catversions, catactive, catnext, catage>>
  BY DEF BeginRefresh
<1> QED
  BY <1>1, <1>4, <1>9, <1>10, RefreshMoves

LEMMA CountKeeps ==
  ASSUME CatInv, FetchCount
  PROVE  CatInv'
<1> DEFINE f == catfetch
           L == catlisted
           S == InCategory(L, f.node)
           n == Cardinality(S)
           g == [f EXCEPT !.expected = n, !.seen = 0, !.page = 1]
           h == [g EXCEPT !.step = "pages"]
<1>1. f.step = "count" /\ f # CatIdle
  BY DEF FetchCount, CatIdle
<1>2. /\ f \in Fetching /\ L \in SUBSET CatCodes /\ f.stayed \subseteq L
      /\ f.changes <= catchanges /\ FewPassed(f, L)
  BY <1>1, UnderWay
<1>3. catfetch' = IF n = 0 THEN NodeEnds(g) ELSE h
  BY DEF FetchCount, ListedIn, InCategory
<1>4. IsFiniteSet(S) /\ n \in Nat
  BY <1>2, ListingIsFinite
<1>5. UNCHANGED <<catlisted, catchanges, catversions, catactive, catnext, catage>>
  BY DEF FetchCount
<1> HIDE DEF f, L, n
<1>6. g \in Fetching /\ h \in Fetching
  <2>1. g \in Fetching
    BY ONLY <1>2, <1>4 DEF Fetching
  <2>2. h \in Fetching
    <3> HIDE DEF g
    <3> QED
      BY ONLY <2>1 DEF Fetching
  <2> QED
    BY <2>1, <2>2
<1>7. /\ g.step = "count" /\ g.node = f.node /\ g.stayed = f.stayed
      /\ g.got = f.got /\ g.changes = f.changes /\ g.page = 1
      /\ g.expected = n /\ g.seen = 0
  BY ONLY <1>1, <1>2 DEF Fetching
<1>8. /\ h.step = "pages" /\ h.node = f.node /\ h.stayed = f.stayed
      /\ h.got = f.got /\ h.changes = f.changes /\ h.page = 1
      /\ h.expected = n /\ h.seen = 0
  <2> HIDE DEF g
  <2> QED
    BY ONLY <1>6, <1>7 DEF Fetching
<1> HIDE DEF g, h
<1>9. /\ ReadSoFar(g) = ReadSoFar(f) /\ ReadSoFar(h) = ReadSoFar(f)
      /\ Allowed(g) = Allowed(f) /\ Allowed(h) = Allowed(f)
  BY <1>1, <1>7, <1>8 DEF ReadSoFar, Allowed
<1>10. Passed(g, L) = Passed(f, L)
  BY <1>1, <1>7, <1>9 DEF Passed, LeftOut
<1>11. CASE n = 0
  <2>1. S = {}
    BY <1>4, <1>11, FS_EmptySet DEF n
  <2>2. FewPassed(g, L)
    BY <1>1, <1>2, <1>7, <1>9, <1>10 DEF FewPassed
  <2>3. /\ NodeEnds(g) \in Fetching /\ NodeEnds(g).step \in {"count", "publish"}
        /\ NodeEnds(g).stayed = g.stayed /\ NodeEnds(g).got = g.got
        /\ NodeEnds(g).changes = g.changes /\ NodeEnds(g).page = g.page
        /\ ReadSoFar(NodeEnds(g)) = ReadSoFar(g) \cup {g.node}
    BY <1>6, <1>7, NodeEndsIs
  <2>4. FewPassed(NodeEnds(g), L)
    <3>1. Cardinality(Passed(g, L)) + Cardinality({}) <= Allowed(g) + 1
      <4>1. Cardinality(Passed(g, L)) \in Nat /\ Allowed(g) \in Nat
        BY <1>6, PassedIsFinite, AllowedIsNat
      <4>2. Cardinality(Passed(g, L)) <= Allowed(g) /\ Cardinality({}) = 0
        BY <2>2, FS_EmptySet DEF FewPassed
      <4> QED
        BY ONLY <4>1, <4>2
    <3>2. InCategory(L, g.node) = {}
      BY <1>7, <2>1
    <3> QED
      BY <1>2, <1>6, <1>7, <2>2, <2>3, <3>1, <3>2, PassedAtEnd
  <2>5. RefreshSound(NodeEnds(g), L, catchanges)
    BY <1>2, <1>7, <2>3, <2>4 DEF RefreshSound
  <2> QED
    BY <1>3, <1>5, <1>11, <2>3, <2>5, RefreshMoves DEF L
<1>12. CASE n # 0
  <2>1. Passed(h, L) \subseteq Passed(f, L)
    <3>1. ASSUME NEW c \in Passed(h, L) PROVE c \in Passed(f, L)
      <4>1. ~(Place(InCategory(L, h.node), c) < h.seen)
        <5>1. Place(InCategory(L, h.node), c) \in Nat
          BY <1>4, <1>8, PlaceIsNat
        <5> QED
          BY <1>8, <5>1
      <4> QED
        BY <1>8, <1>9, <4>1 DEF Passed, LeftOut
    <3> QED
      BY <3>1
  <2>2. Cardinality(Passed(h, L)) <= Cardinality(Passed(f, L))
    BY <1>2, <2>1, PassedIsFinite, FS_Subset
  <2>3. /\ Cardinality(Passed(h, L)) \in Nat /\ Cardinality(Passed(f, L)) \in Nat
        /\ Allowed(f) \in Nat /\ Cardinality(Passed(f, L)) <= Allowed(f)
    BY <1>2, <1>6, PassedIsFinite, AllowedIsNat DEF FewPassed
  <2>4. Cardinality(Passed(h, L)) <= Allowed(h)
    BY ONLY <1>9, <2>2, <2>3
  <2>5. Cardinality(Passed(h, L)) + Cardinality(InCategory(L, h.node))
          <= Allowed(h) + h.expected
    <3>1. Cardinality(InCategory(L, h.node)) = h.expected
      BY <1>8 DEF n
    <3> QED
      BY ONLY <1>4, <1>8, <1>9, <2>2, <2>3, <3>1
  <2>6. FewPassed(h, L)
    BY <2>4, <2>5 DEF FewPassed
  <2>7. h.seen = (h.page - 1) * CatPage
    BY <1>8, CatAssumption
  <2>8. RefreshSound(h, L, catchanges)
    BY <1>2, <1>8, <2>6, <2>7 DEF RefreshSound
  <2> QED
    BY <1>3, <1>5, <1>6, <1>12, <2>8, RefreshMoves DEF L
<1> QED
  BY <1>11, <1>12

LEMMA PageKeeps ==
  ASSUME CatInv, FetchPage
  PROVE  CatInv'
<1> DEFINE f == catfetch
           L == catlisted
           S == InCategory(L, f.node)
<1>1. f.step = "pages" /\ f # CatIdle
  BY DEF FetchPage, CatIdle
<1>2. /\ f \in Fetching /\ L \in SUBSET CatCodes /\ f.stayed \subseteq L
      /\ f.changes <= catchanges /\ FewPassed(f, L) /\ f.page # 0
      /\ f.seen = (f.page - 1) * CatPage
  BY <1>1, UnderWay
<1>3. ASSUME NEW n PROVE RowsOf(f, n) = AtPlaces(S, f.seen, n)
  <2>1. ListedIn(f.node) = S
    BY DEF ListedIn, InCategory
  <2> HIDE DEF f, L, S
  <2> QED
    BY <1>2, <2>1 DEF RowsOf, AtPlaces
<1> DEFINE h(n) == [f EXCEPT !.seen = @ + n, !.page = @ + 1,
                             !.got = @ \cup (RowsOf(f, n) \ CatDropped)]
<1>4. PICK n \in 0 .. Cardinality(RowsOf(f, CatPage)) :
        catfetch' = CASE EndsEarly(f, n) -> CatIdle
                      [] ~EndsEarly(f, n) /\ (n < CatPage \/ h(n).seen >= f.expected) ->
                           NodeEnds(h(n))
                      [] OTHER -> h(n)
  <2>1. \E n \in 0 .. Cardinality(RowsOf(f, CatPage)) :
        catfetch' = CASE EndsEarly(f, n) -> CatIdle
                      [] ~EndsEarly(f, n) /\ (n < CatPage \/ h(n).seen >= h(n).expected) ->
                           NodeEnds(h(n))
                      [] OTHER -> h(n)
    BY DEF FetchPage
  <2>2. ASSUME NEW n PROVE h(n).expected = f.expected
    <3> HIDE DEF f
    <3> QED
      BY <1>2 DEF Fetching
  <2> HIDE DEF h, f
  <2> QED
    BY <2>1, <2>2
<1>5. UNCHANGED <<catlisted, catchanges, catversions, catactive, catnext, catage>>
  BY DEF FetchPage
<1> DEFINE g == h(n)
<1> HIDE DEF f, L
<1>6. n \in 0 .. Cardinality(AtPlaces(S, f.seen, CatPage))
  BY <1>3, <1>4
<1>7. n \in Nat /\ n <= CatPage
  BY <1>2, <1>6, PageHolds
<1>8. /\ g.step = "pages" /\ g.node = f.node /\ g.stayed = f.stayed
      /\ g.changes = f.changes /\ g.expected = f.expected
      /\ g.page = f.page + 1 /\ g.seen = f.seen + n
      /\ g.got = f.got \cup (RowsOf(f, n) \ CatDropped)
  BY ONLY <1>1, <1>2 DEF Fetching
<1>9. /\ f.seen + n \in Nat /\ f.page + 1 \in Nat
      /\ f.got \cup (RowsOf(f, n) \ CatDropped) \in SUBSET CatCodes
  <2>1. AtPlaces(S, f.seen, n) \subseteq CatCodes
    BY <1>2, ListingIsFinite DEF AtPlaces
  <2> QED
    BY <1>2, <1>3, <1>7, <2>1, FetchFields
<1>10. g \in Fetching
  BY ONLY <1>2, <1>9 DEF Fetching
<1> DEFINE over == n < CatPage \/ g.seen >= f.expected
<1>11. catfetch' = CASE EndsEarly(f, n) -> CatIdle
                     [] ~EndsEarly(f, n) /\ over -> NodeEnds(g)
                     [] OTHER -> g
  BY <1>4
<1> HIDE DEF h, g, S
<1>12. g.got = f.got \cup (AtPlaces(S, f.seen, n) \ CatDropped)
  BY <1>3, <1>8
<1>13. CASE EndsEarly(f, n)
  BY <1>5, <1>11, <1>13, RefreshMoves
<1>14. CASE ~EndsEarly(f, n)
  <2>1. /\ over => FewPassed(NodeEnds(g), L)
        /\ ~(n < CatPage) => FewPassed(g, L) /\ n = CatPage
    BY <1>1, <1>2, <1>6, <1>8, <1>10, <1>12, <1>14, PassedAfterPage DEF S
  <2>2. CASE over
    <3>1. catfetch' = NodeEnds(g)
      BY <1>11, <1>14, <2>2
    <3>2. /\ NodeEnds(g) \in Fetching /\ NodeEnds(g).step \in {"count", "publish"}
          /\ NodeEnds(g).stayed = g.stayed /\ NodeEnds(g).changes = g.changes
          /\ NodeEnds(g).page = g.page
      BY <1>8, <1>10, NodeEndsIs
    <3>3. f.page + 1 # 0
      BY <1>2, FetchFields
    <3>4. RefreshSound(NodeEnds(g), L, catchanges)
      BY <1>2, <1>8, <2>1, <2>2, <3>2, <3>3 DEF RefreshSound
    <3> QED
      BY <1>5, <3>1, <3>2, <3>4, RefreshMoves DEF L
  <2>3. CASE ~over
    <3>1. catfetch' = g /\ ~(n < CatPage)
      BY <1>11, <1>14, <2>3
    <3>2. FewPassed(g, L) /\ n = CatPage
      BY <2>1, <3>1
    <3>3. g.page # 0 /\ g.seen = (g.page - 1) * CatPage
      <4>1. f.page \in Nat /\ CatPage \in Nat
        BY <1>2, FetchFields, CatAssumption
      <4>2. (f.page - 1) * CatPage + CatPage = f.page * CatPage
        BY ONLY <4>1
      <4>3. g.page - 1 = f.page /\ g.page # 0
        BY <1>8, <4>1
      <4> QED
        BY <1>2, <1>8, <3>2, <4>2, <4>3
    <3>4. RefreshSound(g, L, catchanges)
      BY <1>2, <1>8, <3>2, <3>3 DEF RefreshSound
    <3> QED
      BY <1>5, <1>10, <3>1, <3>4, RefreshMoves DEF L
  <2> QED
    BY <2>2, <2>3
<1> QED
  BY <1>13, <1>14

(* What is published lacks only what the refresh has passed: every strict    *)
(* category has been read.                                                   *)
LEMMA PublishKeeps ==
  ASSUME CatInv, PublishVersion
  PROVE  CatInv'
<1> DEFINE f == catfetch
           w == [id |-> catnext, codes |-> f.got, stayed |-> f.stayed,
                 changes |-> f.changes]
<1>1. f.step = "publish" /\ f # CatIdle
  BY DEF PublishVersion, CatIdle
<1>2. f \in Fetching /\ FewPassed(f, catlisted)
  BY <1>1, UnderWay
<1>3. /\ catfetch' = CatIdle /\ catlisted' = catlisted /\ catchanges' = catchanges
      /\ catnext <= CatMaxVersions
  BY DEF PublishVersion
<1>4. CASE UNCHANGED <<catversions, catactive, catnext, catage>>
  BY <1>3, <1>4, RefreshMoves
<1>5. CASE /\ catversions' = Newest(catversions \cup {w})
           /\ catactive' = catnext /\ catnext' = catnext + 1 /\ catage' = 0
  <2>1. /\ catversions \subseteq CatVersion /\ catnext \in 1 .. CatMaxVersions + 1
        /\ \A v \in catversions : v.id < catnext /\ VersionSound(v)
        /\ CatMaxVersions \in Nat /\ CatStale \in Nat
    BY CatAssumption DEF CatInv, CatTypeOK
  <2>2. /\ w.id = catnext /\ w.codes = f.got /\ w.stayed = f.stayed
        /\ w.changes = f.changes
    OBVIOUS
  <2>3. w \in CatVersion
    <3>1. /\ catnext \in 1 .. CatMaxVersions
          /\ f.got \in SUBSET CatCodes /\ f.stayed \in SUBSET CatCodes
          /\ f.changes \in 0 .. CatMaxChanges
      BY <1>2, <1>3, <2>1 DEF Fetching
    <3> HIDE DEF f
    <3> QED
      BY ONLY <3>1 DEF CatVersion
  <2>4. VersionSound(w)
    <3>1. ASSUME NEW c \in Lacking(w) PROVE c \in Passed(f, catlisted)
      <4>1. c \in f.stayed \ (f.got \cup CatDropped) /\ CatNode[c] \notin CatTolerant
        BY DEF Lacking
      <4>2. \E k \in 1 .. Len(CatNodes) : CatNodes[k] = CatNode[c]
        <5>1. c \in DOMAIN CatNode
          BY <1>2, <4>1, FetchFields DEF CatCodes
        <5>2. CatNode[c] \in Range(CatNodes)
          BY <5>1, CatAssumption DEF Range
        <5> QED
          BY <5>2, CatAssumption DEF Range
      <4> QED
        BY <1>1, <4>1, <4>2 DEF Passed, LeftOut, ReadSoFar
    <3>2. ReadSoFar(f) = 1 .. Len(CatNodes)
      BY <1>1 DEF ReadSoFar
    <3> HIDE DEF f, w
    <3>3. IsFiniteSet(Passed(f, catlisted)) /\ Cardinality(Passed(f, catlisted)) \in Nat
      BY <1>2, PassedIsFinite
    <3>4. Lacking(w) \in SUBSET Passed(f, catlisted)
      BY <3>1
    <3>5. /\ Cardinality(Lacking(w)) <= Cardinality(Passed(f, catlisted))
          /\ IsFiniteSet(Lacking(w))
      BY ONLY <3>3, <3>4, FS_Subset
    <3>6. Cardinality(Lacking(w)) \in Nat
      BY ONLY <3>5, FS_CardinalityType
    <3>7. /\ Cardinality(Passed(f, catlisted)) <= Allowed(f) /\ Allowed(f) \in Nat
          /\ Allowed(f) = w.changes + Cardinality(StrictAmong(1 .. Len(CatNodes)))
      BY <1>2, <2>2, <3>2, AllowedIsNat DEF FewPassed, Allowed
    <3>8. Cardinality(Lacking(w)) <= Allowed(f)
      BY ONLY <3>3, <3>5, <3>6, <3>7
    <3> QED
      BY <3>7, <3>8 DEF VersionSound
  <2> HIDE DEF w, f
  <2>5. \A v \in catversions : v.id \in Nat /\ v.id < w.id
    BY <2>1, <2>2 DEF CatVersion
  <2>6. w.id \in Nat
    BY <2>1, <2>2
  <2>7. w \in catversions' /\ catversions' \subseteq catversions \cup {w}
    BY <1>5, <2>5, <2>6, NewVersionIsKept
  <2>8. \A v \in catversions' : v \in CatVersion /\ v.id < catnext' /\ VersionSound(v)
    <3>1. ASSUME NEW v \in catversions'
          PROVE  v \in CatVersion /\ v.id < catnext' /\ VersionSound(v)
      <4>1. CASE v = w
        BY <1>5, <2>1, <2>2, <2>3, <2>4, <4>1
      <4>2. CASE v \in catversions
        <5>1. v \in CatVersion /\ v.id < catnext /\ VersionSound(v) /\ v.id \in Nat
          BY <2>1, <2>5, <4>2
        <5> QED
          BY <1>5, <2>1, <5>1
      <4> QED
        BY <2>7, <4>1, <4>2
    <3> QED
      BY <3>1
  <2>9. \E v \in catversions' : v.id = catactive'
    BY <1>5, <2>2, <2>7
  <2>10. CatTypeOK'
    <3>1. CatIdle \in CatFetches
      BY DEF CatFetches
    <3>2. catactive' \in 0 .. CatMaxVersions /\ catnext' \in 1 .. CatMaxVersions + 1
      BY <1>3, <1>5, <2>1
    <3>3. catage' \in 0 .. CatStale + 1
      BY <1>5, <2>1
    <3>4. catversions' \subseteq CatVersion
      BY <2>8
    <3> QED
      BY <1>3, <3>1, <3>2, <3>3, <3>4 DEF CatInv, CatTypeOK
  <2>11. RefreshSound(catfetch', catlisted', catchanges')
    BY <1>3 DEF RefreshSound
  <2>12. /\ \A v \in catversions' : v.id < catnext' /\ VersionSound(v)
         /\ catactive' # 0 => \E v \in catversions' : v.id = catactive'
    BY <2>8, <2>9
  <2> QED
    BY <2>10, <2>11, <2>12 DEF CatInv, VersionSound, Lacking
<1> QED
  BY <1>4, <1>5 DEF PublishVersion

LEMMA CatStep == CatInv /\ [CatNext]_catvars => CatInv'
<1> SUFFICES ASSUME CatInv, [CatNext]_catvars PROVE CatInv'
  OBVIOUS
<1>1. ASSUME NEW c \in CatCodes, SourceChanges(c) PROVE CatInv'
  BY <1>1, ChangeKeeps
<1>2. CASE CatDayPasses
  <2>1. catage' \in 0 .. CatStale + 1
    <3>1. catage \in 0 .. CatStale + 1 /\ CatStale \in Nat
      BY CatAssumption DEF CatInv, CatTypeOK
    <3>2. catage <= CatStale /\ catage' = catage + 1
      BY <1>2 DEF CatDayPasses
    <3> QED
      BY ONLY <3>1, <3>2
  <2>2. UNCHANGED <<catlisted, catchanges, catfetch, catversions, catactive, catnext>>
    BY <1>2 DEF CatDayPasses
  <2> QED
    BY <2>1, <2>2 DEF CatInv, CatTypeOK, VersionSound
<1>3. CASE BeginRefresh
  BY <1>3, BeginKeeps
<1>4. CASE FetchCount
  BY <1>4, CountKeeps
<1>5. CASE FetchPage
  BY <1>5, PageKeeps
<1>6. CASE FetchFails
  BY <1>6, RefreshMoves DEF FetchFails
<1>7. CASE PublishVersion
  BY <1>7, PublishKeeps
<1>8. CASE CatRestart
  BY <1>8, RefreshMoves DEF CatRestart
<1>9. CASE UNCHANGED catvars
  BY <1>9 DEF catvars, CatInv, CatTypeOK, VersionSound
<1> QED
  BY <1>1, <1>2, <1>3, <1>4, <1>5, <1>6, <1>7, <1>8, <1>9 DEF CatNext

(* The shape of the source, the refresh and the stored versions.             *)
LEMMA CatTyping == CatSpec => []CatTypeOK
<1>1. CatInv => CatTypeOK
  BY DEF CatInv
<1> QED
  BY <1>1, CatStarts, CatStep, PTL DEF CatSpec

(* The symbol catalog: the pointer names a stored version, and a version     *)
(* lacks at most one readable code more of each strict category than the     *)
(* source changed while it was read, whatever the categories, the rows that  *)
(* are dropped, the size of a page and the moments of the changes            *)
(* (_fetch_node, SQLiteSymbolCatalog.refresh).                               *)
THEOREM CatalogLacksLittle == CatSpec => []CatalogNearlyComplete
<1>1. CatInv => CatalogNearlyComplete
  BY DEF CatInv, VersionSound, Lacking, StrictAmong, CatalogNearlyComplete
<1> QED
  BY <1>1, CatStarts, CatStep, PTL DEF CatSpec
==============================================================================
