--------------------------- MODULE CompositionProofs ---------------------------
(***************************************************************************)
(* What the runs of MCServices check of all parts at once, for every value *)
(* of the constants.  MCServices lets one part move in a behaviour and the *)
(* others stand still: nothing here is about parts that run at the same    *)
(* time.  They share no state, and each is proved about by itself.         *)
(***************************************************************************)
EXTENDS MCServices, TaskStoreProofs, ServicesProofs

(* A step of the composition is a step of the part that moves, and none of  *)
(* the others.                                                              *)
LEMMA OnePartMoves ==
  ASSUME [ServicesNext]_servicesVars
  PROVE  /\ [Next]_vars /\ [LoopNext]_loopVars /\ [PoolNext]_poolVars
         /\ [MemNext]_mvars /\ [WlNext]_wvars /\ [MuNext]_muvars
         /\ [FfNext]_ffvars /\ [RsNext]_rsvars /\ [EvNext]_evvars
         /\ [CatNext]_catvars /\ [AdNext]_advars
<1>1. CASE ServicesNext
  BY <1>1 DEF ServicesNext
<1>2. CASE UNCHANGED servicesVars
  BY <1>2 DEF servicesVars, others
<1> QED
  BY <1>1, <1>2

(* What the composition has for its parts are behaviours of them: the part  *)
(* that moves takes its own steps, and the others take none.                *)
LEMMA PartsRunAsSpecified ==
  ServicesSpec => /\ Spec /\ LoopSpec /\ PoolSpec /\ MemSpec /\ WlSpec
                  /\ MuSpec /\ FfSpec /\ RsSpec /\ EvSpec /\ CatSpec /\ AdSpec
<1>1. ServicesInit => /\ Init /\ LoopInit /\ PoolInit /\ MemInit /\ WlInit
                      /\ MuInit /\ FfInit /\ RsInit /\ EvInit /\ CatInit
                      /\ AdInit
  BY DEF ServicesInit
<1>2. [ServicesNext]_servicesVars =>
        /\ [Next]_vars /\ [LoopNext]_loopVars /\ [PoolNext]_poolVars
        /\ [MemNext]_mvars /\ [WlNext]_wvars /\ [MuNext]_muvars
        /\ [FfNext]_ffvars /\ [RsNext]_rsvars /\ [EvNext]_evvars
        /\ [CatNext]_catvars /\ [AdNext]_advars
  BY OnePartMoves
<1> QED
  BY <1>1, <1>2, PTL
     DEF ServicesSpec, Spec, LoopSpec, PoolSpec, MemSpec, WlSpec, MuSpec,
         FfSpec, RsSpec, EvSpec, CatSpec, AdSpec

(* The states the services runs reach keep the types of all parts, those of *)
(* the part that moves and of the parts in their first state.               *)
THEOREM ServicesTyping == ServicesSpec => []ServicesTypeOK
<1>1. ServicesSpec =>
        /\ []TypeOK /\ []LoopTypeOK /\ []PoolTypeOK /\ []MemTypeOK
        /\ []WlTypeOK /\ []MuTypeOK /\ []FfTypeOK /\ []RsTypeOK
        /\ [](EvTypeOK /\ Stream) /\ []CatTypeOK /\ []AdTypeOK
  BY PartsRunAsSpecified, StoreTyping, LoopTyping, PoolTyping, MemTyping,
     WatchTyping, UserTyping, FundTyping, PushTyping, StreamTyping,
     CatTyping, AdminTyping
<1>2. (/\ TypeOK /\ LoopTypeOK /\ PoolTypeOK /\ MemTypeOK
       /\ WlTypeOK /\ MuTypeOK /\ FfTypeOK /\ RsTypeOK
       /\ EvTypeOK /\ Stream /\ CatTypeOK /\ AdTypeOK)
        => ServicesTypeOK
  BY DEF ServicesTypeOK
<1> QED
  BY <1>1, <1>2, PTL
==============================================================================
