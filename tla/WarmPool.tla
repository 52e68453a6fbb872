--------------------------------- MODULE WarmPool ---------------------------------
(***************************************************************************)
(* The pool of at most one authenticated connection to the quote server    *)
(* (Core9528WarmPool), the client that uses it (Core9528Client) and the    *)
(* administrator's refresh of the account session (api.py).                *)
(*                                                                         *)
(* A request, a prewarm, an invalidation and the shutdown hold the         *)
(* client's request lock; the refill threads do not.  A block under the    *)
(* pool's lock is one action, and a connection that it takes out of the    *)
(* pool without handing it on is closed by that action.                    *)
(***************************************************************************)
EXTENDS Integers, FiniteSets

CONSTANTS Conns,       (* connections                                       *)
          Refills,     (* refill threads that run at the same time          *)
          NoConn,      (* "absent" value                                    *)
          MaxSessions, (* bound: how often the account session changes      *)
          MaxGeneration, (* bound: generations of the pool                  *)
          MaxIssued    (* bound: how many connections are opened            *)

ASSUME PoolAssumption ==
  /\ NoConn \notin Conns
  /\ MaxSessions \in Nat \ {0}
  /\ {MaxGeneration, MaxIssued} \subseteq Nat

VARIABLES
  session,    (* the account session in the file, numbered                  *)
  rotation,   (* how far a refresh of the session is                        *)
  ready,      (* Core9528WarmPool._ready                                    *)
  fp,         (* _session_fingerprint; 0 for None                           *)
  refilling,  (* _refilling                                                 *)
  closed,     (* _closed                                                    *)
  generation, (* _generation                                                *)
  user,       (* who holds the client's request lock, and how far it is     *)
  refill,     (* the refill threads                                         *)
  conn,       (* the connections: whose session, and how often used         *)
  issued      (* how many connections were opened                           *)

poolVars == <<session, rotation, ready, fp, refilling, closed, generation,
              user, refill, conn, issued>>

Unopened == [ses |-> 0, uses |-> 0]
NoUser   == [pc |-> "free", ses |-> 0, gen |-> 0, conn |-> NoConn]
NoRefill == [pc |-> "idle", ses |-> 0, gen |-> 0, conn |-> NoConn]

Open(k) == conn[k].ses # 0

(* The connections in S are closed.                                         *)
Close(S) == conn' = [k \in Conns |-> IF k \in S THEN Unopened ELSE conn[k]]

-----------------------------------------------------------------------------
(* read_direct                                                              *)
BeginRead ==
  /\ user.pc = "free"
  /\ user' = [NoUser EXCEPT !.pc = "acquire", !.ses = session]
  /\ UNCHANGED <<session, rotation, ready, fp, refilling, closed, generation,
                 refill, conn, issued>>

(* acquire, up to the lookup of a connection that is ready: it is taken out *)
(* of the pool and used unless it belongs to another session or is too old. *)
Acquire ==
  /\ user.pc = "acquire"
  /\ ~closed
  /\ \E kept \in {ready, NoConn} :
       /\ kept # NoConn => fp = user.ses
       /\ Close({ready} \ {kept})
       /\ user' = [user EXCEPT !.pc = IF kept = NoConn THEN "auth" ELSE "check",
                               !.gen = generation
                                         + (IF fp = user.ses THEN 0 ELSE 1),
                               !.conn = kept]
  /\ ready' = NoConn
  /\ IF fp = user.ses
     THEN UNCHANGED <<fp, refilling, generation>>
     ELSE /\ generation < MaxGeneration
          /\ fp' = user.ses
          /\ refilling' = FALSE
          /\ generation' = generation + 1
  /\ UNCHANGED <<session, rotation, closed, refill, issued>>

AcquireRefused ==
  /\ user.pc = "acquire"
  /\ closed
  /\ user' = NoUser
  /\ UNCHANGED <<session, rotation, ready, fp, refilling, closed, generation,
                 refill, conn, issued>>

(* authenticate opens a connection for session ses.                         *)
Opens(k, ses) ==
  /\ issued < MaxIssued
  /\ ~Open(k)
  /\ conn' = [conn EXCEPT ![k] = [ses |-> ses, uses |-> 0]]
  /\ issued' = issued + 1

(* No connection was ready: the request opens one itself.                   *)
Authenticate(k) ==
  /\ user.pc = "auth"
  /\ Opens(k, user.ses)
  /\ user' = [user EXCEPT !.pc = "check", !.conn = k]
  /\ UNCHANGED <<session, rotation, ready, fp, refilling, closed, generation,
                 refill>>

(* A request that fails before it has a connection does not replenish.      *)
AuthenticateFails ==
  /\ user.pc = "auth"
  /\ user' = NoUser
  /\ UNCHANGED <<session, rotation, ready, fp, refilling, closed, generation,
                 refill, conn, issued>>

(* The second look at the pool.                                             *)
Check ==
  /\ user.pc = "check"
  /\ IF ~closed /\ user.gen = generation /\ fp = user.ses
     THEN user' = [user EXCEPT !.pc = "read"] /\ UNCHANGED conn
     ELSE user' = NoUser /\ Close({user.conn})
  /\ UNCHANGED <<session, rotation, ready, fp, refilling, closed, generation,
                 refill, issued>>

(* read_authenticated: the packets of one request go out ...                *)
Send ==
  /\ user.pc = "read"
  /\ conn' = [conn EXCEPT ![user.conn].uses = @ + 1]
  /\ user' = [user EXCEPT !.pc = "answer"]
  /\ UNCHANGED <<session, rotation, ready, fp, refilling, closed, generation,
                 refill, issued>>

(* ... and, answered or not, the connection is closed.  (A mutant ends in a *)
(* position the client does not have.)                                      *)
AnswerMutant ==
  /\ user.pc = "answer"
  /\ Close({user.conn})
  /\ user' = [user EXCEPT !.pc = "refill", !.conn = NoConn]
  /\ UNCHANGED <<session, rotation, ready, fp, refilling, closed, generation,
                 refill, issued>>

Answer ==
  /\ user.pc = "answer"
  /\ Close({user.conn})
  /\ user' = [user EXCEPT !.pc = "replenish", !.conn = NoConn]
  /\ UNCHANGED <<session, rotation, ready, fp, refilling, closed, generation,
                 refill, issued>>

-----------------------------------------------------------------------------
(* _schedule_refill, from replenish and prewarm: another session empties    *)
(* the pool; a thread is started unless there is a connection or a thread   *)
(* already.                                                                 *)
Schedule ==
  LET other == fp # user.ses
      start == other \/ (ready = NoConn /\ ~refilling)
      gen   == generation + (IF other THEN 1 ELSE 0)
  IN
  /\ user.pc = "replenish"
  /\ ~closed
  /\ gen <= MaxGeneration
  /\ generation' = gen
  /\ fp' = user.ses
  /\ ready' = IF other THEN NoConn ELSE ready
  /\ Close(IF other THEN {ready} ELSE {})
  /\ refilling' = (start \/ refilling)
  /\ user' = IF start THEN [user EXCEPT !.pc = "start", !.gen = gen] ELSE NoUser
  /\ UNCHANGED <<session, rotation, closed, refill, issued>>

ScheduleRefused ==
  /\ user.pc = "replenish"
  /\ closed
  /\ user' = NoUser
  /\ UNCHANGED <<session, rotation, ready, fp, refilling, closed, generation,
                 refill, conn, issued>>

StartRefill(t) ==
  /\ user.pc = "start"
  /\ refill[t].pc = "idle"
  /\ refill' = [refill EXCEPT ![t] = [NoRefill EXCEPT !.pc = "auth",
                                        !.ses = user.ses, !.gen = user.gen]]
  /\ user' = NoUser
  /\ UNCHANGED <<session, rotation, ready, fp, refilling, closed, generation,
                 conn, issued>>

(* The thread cannot be started.                                            *)
StartFails ==
  /\ user.pc = "start"
  /\ refilling' = FALSE
  /\ user' = NoUser
  /\ UNCHANGED <<session, rotation, ready, fp, closed, generation, refill,
                 conn, issued>>

(* _refill: authenticate, which may fail, ...                               *)
RefillOpens(t, k) ==
  /\ refill[t].pc = "auth"
  /\ Opens(k, refill[t].ses)
  /\ refill' = [refill EXCEPT ![t] = [@ EXCEPT !.pc = "store", !.conn = k]]
  /\ UNCHANGED <<session, rotation, ready, fp, refilling, closed, generation,
                 user>>

RefillFails(t) ==
  /\ refill[t].pc = "auth"
  /\ refill' = [refill EXCEPT ![t].pc = "store"]
  /\ UNCHANGED <<session, rotation, ready, fp, refilling, closed, generation,
                 user, conn, issued>>

(* ... and the block that stores the connection, or closes it when the pool *)
(* has moved on.  (A closed pool has moved on: close raises the generation.)*)
(* The mutants forget to close, do not look at the generation, or leave the *)
(* flag as it is when there is no connection.                               *)
Stores(t, stored, flag, dropped) ==
  /\ refill[t].pc = "store"
  /\ ready' = IF stored THEN refill[t].conn ELSE ready
  /\ refilling' = (refilling /\ flag)
  /\ Close(IF stored THEN {} ELSE dropped)
  /\ refill' = [refill EXCEPT ![t] = NoRefill]
  /\ UNCHANGED <<session, rotation, fp, closed, generation, user, issued>>

Fits(t) ==
  /\ refill[t].conn # NoConn
  /\ ~closed
  /\ fp = conn[refill[t].conn].ses
  /\ ready = NoConn

Current(t) == refill[t].gen = generation

RefillStoreMutant(t) == Stores(t, Current(t) /\ Fits(t), ~Current(t), {})

RefillStoreMutant2(t) ==
  Stores(t, refill[t].conn # NoConn /\ ready = NoConn, ~Current(t),
         {refill[t].conn})

RefillStoreMutant3(t) ==
  Stores(t, Current(t) /\ Fits(t), ~Current(t) \/ refill[t].conn = NoConn,
         {refill[t].conn})

RefillStore(t) ==
  Stores(t, Current(t) /\ Fits(t), ~Current(t), {refill[t].conn})

(* prewarm, which is skipped when the request lock is taken.                *)
Prewarm ==
  /\ user.pc = "free"
  /\ user' = [NoUser EXCEPT !.pc = "replenish", !.ses = session]
  /\ UNCHANGED <<session, rotation, ready, fp, refilling, closed, generation,
                 refill, conn, issued>>

-----------------------------------------------------------------------------
(* The route that refreshes the account session: put, invalidate, prewarm.  *)
PutSession ==
  /\ rotation = "none"
  /\ session < MaxSessions
  /\ session' = session + 1
  /\ rotation' = "put"
  /\ UNCHANGED <<ready, fp, refilling, closed, generation, user, refill, conn,
                 issued>>

(* What invalidate and close do to the pool.                                *)
EmptyPool ==
  /\ ready' = NoConn
  /\ Close({ready})
  /\ fp' = 0
  /\ generation' = generation + 1
  /\ refilling' = FALSE

Invalidate ==
  /\ rotation = "put"
  /\ user.pc = "free"
  /\ generation < MaxGeneration
  /\ EmptyPool
  /\ rotation' = "prewarm"
  /\ UNCHANGED <<session, closed, user, refill, issued>>

PrewarmSession ==
  /\ rotation = "prewarm"
  /\ rotation' = "none"
  /\ user' = IF user.pc = "free"
             THEN [NoUser EXCEPT !.pc = "replenish", !.ses = session]
             ELSE user
  /\ UNCHANGED <<session, ready, fp, refilling, closed, generation, refill,
                 conn, issued>>

(* The shutdown.  The mutant does not raise the generation.                 *)
ClosePoolMutant ==
  /\ ~closed
  /\ user.pc = "free"
  /\ closed' = TRUE
  /\ UNCHANGED <<session, rotation, ready, fp, refilling, generation, user,
                 refill, conn, issued>>

ClosePool ==
  /\ ~closed
  /\ user.pc = "free"
  /\ generation < MaxGeneration
  /\ EmptyPool
  /\ closed' = TRUE
  /\ UNCHANGED <<session, rotation, user, refill, issued>>

-----------------------------------------------------------------------------
PoolInit ==
  /\ session = 1
  /\ rotation = "none"
  /\ ready = NoConn
  /\ fp = 0
  /\ refilling = FALSE
  /\ closed = FALSE
  /\ generation = 0
  /\ user = NoUser
  /\ refill = [t \in Refills |-> NoRefill]
  /\ conn = [k \in Conns |-> Unopened]
  /\ issued = 0

UserNext ==
  \/ BeginRead \/ Acquire \/ AcquireRefused
  \/ \E k \in Conns : Authenticate(k)
  \/ AuthenticateFails \/ Check \/ Send \/ Answer
  \/ Schedule \/ ScheduleRefused
  \/ \E t \in Refills : StartRefill(t)
  \/ StartFails \/ Prewarm

RefillNext ==
  \E t \in Refills : \/ \E k \in Conns : RefillOpens(t, k)
                     \/ RefillFails(t) \/ RefillStore(t)

PoolNext ==
  UserNext \/ RefillNext \/ PutSession \/ Invalidate \/ PrewarmSession
  \/ ClosePool

PoolSpec == PoolInit /\ [][PoolNext]_poolVars

(* A thread that holds the request lock, or refills, comes to its end: every*)
(* wait for the network has a timeout.                                      *)
PoolFairness ==
  /\ WF_poolVars(user.pc # "free" /\ UserNext)
  /\ \A t \in Refills : WF_poolVars(RefillFails(t) \/ RefillStore(t))

PoolFairSpec == PoolSpec /\ PoolFairness

-----------------------------------------------------------------------------
Stock       == Conns \cup {NoConn}
UserState   == [pc : {"free", "acquire", "auth", "check", "read", "answer",
                      "replenish", "start"},
                ses : 0..MaxSessions, gen : 0..MaxGeneration, conn : Stock]
RefillState == [pc : {"idle", "auth", "store"},
                ses : 0..MaxSessions, gen : 0..MaxGeneration, conn : Stock]
ConnState   == [ses : 0..MaxSessions, uses : Nat]

(* The shape of the pool, its user, its threads and its connections.        *)
PoolTypeOK ==
  /\ session \in 1..MaxSessions
  /\ rotation \in {"none", "put", "prewarm"}
  /\ ready \in Stock
  /\ fp \in 0..MaxSessions
  /\ refilling \in BOOLEAN /\ closed \in BOOLEAN
  /\ generation \in 0..MaxGeneration
  /\ user \in UserState
  /\ refill \in [Refills -> RefillState]
  /\ conn \in [Conns -> ConnState]
  /\ issued \in 0..MaxIssued

(* Who answers for connection k: the pool, the request or a refill thread.  *)
Holders(k) ==
  {h \in {"pool"} : ready = k} \cup {h \in {"user"} : user.conn = k}
    \cup {t \in Refills : refill[t].conn = k}

(* "A 9528 connection is authenticated once, checked out once, and always   *)
(* closed": an open connection is in exactly one hand, so that nothing      *)
(* leaks and nobody uses what another still holds, and it carries at most   *)
(* one request; no closed connection is in anybody's hand.                  *)
SingleUse ==
  \A k \in Conns :
    /\ Cardinality(Holders(k)) = (IF Open(k) THEN 1 ELSE 0)
    /\ conn[k].uses <= 1
    /\ ready = k => conn[k].uses = 0

(* Once a refresh of the account session has emptied the pool, no           *)
(* connection of an earlier session is ready, whatever reads and refills    *)
(* were under way when the session changed.                                 *)
ReadyIsCurrent ==
  ready # NoConn /\ rotation # "put" => conn[ready].ses = session

(* The refilling flag tells the truth: it is set exactly while a refill of  *)
(* the current generation is under way.  If it stayed set the pool would    *)
(* never be filled again; if it were lost two threads would open            *)
(* connections for one place.                                               *)
RefillingIsTrue ==
  refilling <=> \/ user.pc = "start"
                \/ \E t \in Refills : refill[t].pc # "idle" /\ Current(t)

(* After the shutdown every connection gets closed.                         *)
ClosedInTheEnd == closed ~> \A k \in Conns : ~Open(k)
==============================================================================
