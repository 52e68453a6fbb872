------------------------------ MODULE MCServices ------------------------------
(***************************************************************************)
(* The parts of the service that share no state, checked together.  A      *)
(* behaviour chooses one part in its first state and only that part moves, *)
(* so a run explores the union of the state graphs of its parts.           *)
(***************************************************************************)
EXTENDS MCTaskStore, RunnerLoop, WarmPool, MemoryStore, Watchlists,
        MarketUsers, FundFlow, ResearchPush, TaskEvents, SymbolCatalog,
        AdminSessions

CONSTANT Parts  (* the parts a run checks *)

ASSUME PartsAssumption ==
  Parts \subseteq {"store", "loop", "pool", "memory", "watch", "users", "fund",
                   "push", "events", "catalog", "admin"}

VARIABLE part  (* the part that moves *)

others == <<vars, loopVars, poolVars, mvars, wvars, muvars, ffvars, rsvars,
            evvars, catvars, advars>>
servicesVars == <<part, others>>

(* A part that does not move starts in one fixed state.                      *)
ServicesInit ==
  /\ part \in Parts
  /\ Init /\ LoopInit /\ PoolInit /\ MemInit /\ WlInit /\ MuInit /\ FfInit
  /\ RsInit /\ EvInit /\ CatInit /\ AdInit
  /\ part # "store" => task = [t \in Ids |-> Absent] /\ lease = NoLease
  /\ part # "loop" => queue = 0 /\ ~frozen
  /\ part # "push" => rrules = {} /\ ~rchannel

ServicesNext ==
  /\ UNCHANGED part
  /\ \/ /\ part = "store" /\ Next
        /\ UNCHANGED <<loopVars, poolVars, mvars, wvars, muvars, ffvars, rsvars,
                       evvars, catvars, advars>>
     \/ /\ part = "loop" /\ LoopNext
        /\ UNCHANGED <<vars, poolVars, mvars, wvars, muvars, ffvars, rsvars,
                       evvars, catvars, advars>>
     \/ /\ part = "pool" /\ PoolNext
        /\ UNCHANGED <<vars, loopVars, mvars, wvars, muvars, ffvars, rsvars,
                       evvars, catvars, advars>>
     \/ /\ part = "memory" /\ MemNext
        /\ UNCHANGED <<vars, loopVars, poolVars, wvars, muvars, ffvars, rsvars,
                       evvars, catvars, advars>>
     \/ /\ part = "watch" /\ WlNext
        /\ UNCHANGED <<vars, loopVars, poolVars, mvars, muvars, ffvars, rsvars,
                       evvars, catvars, advars>>
     \/ /\ part = "users" /\ MuNext
        /\ UNCHANGED <<vars, loopVars, poolVars, mvars, wvars, ffvars, rsvars,
                       evvars, catvars, advars>>
     \/ /\ part = "fund" /\ FfNext
        /\ UNCHANGED <<vars, loopVars, poolVars, mvars, wvars, muvars, rsvars,
                       evvars, catvars, advars>>
     \/ /\ part = "push" /\ RsNext
        /\ UNCHANGED <<vars, loopVars, poolVars, mvars, wvars, muvars, ffvars,
                       evvars, catvars, advars>>
     \/ /\ part = "events" /\ EvNext
        /\ UNCHANGED <<vars, loopVars, poolVars, mvars, wvars, muvars, ffvars,
                       rsvars, catvars, advars>>
     \/ /\ part = "catalog" /\ CatNext
        /\ UNCHANGED <<vars, loopVars, poolVars, mvars, wvars, muvars, ffvars,
                       rsvars, evvars, advars>>
     \/ /\ part = "admin" /\ AdNext
        /\ UNCHANGED <<vars, loopVars, poolVars, mvars, wvars, muvars, ffvars,
                       rsvars, evvars, catvars>>

(* LoopFairness and PoolFairness, each of its own part: elsewhere their      *)
(* actions are not steps of the run.                                         *)
ServicesFairness ==
  /\ \A q \in Requests : /\ WF_loopVars(part = "loop" /\ Notify(q))
                         /\ WF_loopVars(part = "loop" /\ SetEvent(q))
  /\ WF_loopVars(part = "loop" /\ Clear)
  /\ WF_loopVars(part = "loop" /\ EndWork)
  /\ WF_loopVars(part = "loop" /\ BeginWait)
  /\ WF_loopVars(part = "loop" /\ Wake)
  /\ WF_loopVars(part = "loop" /\ (ClaimTask \/ NothingClaimed))
  /\ WF_poolVars(part = "pool" /\ user.pc # "free" /\ UserNext)
  /\ \A t \in Refills :
       WF_poolVars(part = "pool" /\ (RefillFails(t) \/ RefillStore(t)))

ServicesSpec ==
  ServicesInit /\ [][ServicesNext]_servicesVars /\ ServicesFairness

-----------------------------------------------------------------------------
(* Instances.                                                                *)
OnePage == [page \in {"page"} |-> "followed"]
FiveCodes == [c \in 1 .. 5 |-> IF c <= 4 THEN "hs_a" ELSE "lof"]
TwoCategories == <<"hs_a", "lof">>

(* The shape of the state of every part.                                     *)
ServicesTypeOK ==
  /\ TypeOK /\ LoopTypeOK /\ PoolTypeOK /\ MemTypeOK /\ WlTypeOK /\ MuTypeOK
  /\ FfTypeOK /\ RsTypeOK /\ EvTypeOK /\ CatTypeOK /\ AdTypeOK
=============================================================================
