----------------------------- MODULE ResearchPush -----------------------------
(***************************************************************************)
(* Monitoring of one symbol and the pushes it makes (research_monitor.py,  *)
(* premium_monitor.py, research_store.py, research_push.py, the monitoring *)
(* routes of market_api.py).  The monitor's loop, an administrator's       *)
(* refresh and the backfills of users all record snapshots of the same     *)
(* source in the same table; the polls also push the markers of the rules  *)
(* at the minutes they changed.  A minute's row is "hit" when the enabled  *)
(* rules mark it and "miss" when they do not.                              *)
(***************************************************************************)
EXTENDS Naturals, FiniteSets, FiniteSetsExt

CONSTANTS RsMinutes,  (* minutes of the trading day, as numbers              *)
          RsRules,    (* ids of the replay rules                             *)
          RsPollers,  (* calls that may run at the same time                 *)
          RsSlots,    (* premium_push_slot: the push windows of the day      *)
          RsNone

ASSUME RsAssumption ==
  /\ RsMinutes \subseteq Nat
  /\ RsNone \notin RsRules \cup RsSlots

VARIABLES rsource,   (* what the source would answer about each minute      *)
          rrow,      (* research_points                                     *)
          rrules,    (* the enabled rules of the push configuration         *)
          rchannel,  (* is any push channel enabled?                        *)
          rslot,     (* the push window it is now; RsNone outside of them,  *)
           (* on other days and when premium pushes are off       *)
          rclaims,   (* research_push_events                                *)
          rsent,     (* how often send was called with the event, up to 2   *)
          rpoll      (* the calls under way                                 *)

rsvars == <<rsource, rrow, rrules, rchannel, rslot, rclaims, rsent, rpoll>>

RsValues == {"none", "miss", "hit"}
MarkerKeys == RsMinutes \X RsRules
RsKeys == MarkerKeys \cup RsSlots
RsIdle == [step |-> "idle"]
RsCalls ==
  {RsIdle}
  \cup [step : {"refreshed"}, push : BOOLEAN, snap : [RsMinutes -> RsValues]]
  \cup [step : {"changed"}, minutes : SUBSET RsMinutes]
  \cup [step : {"push"}, todo : SUBSET MarkerKeys, channel : BOOLEAN]
  \cup [step : {"claimed"}, key : RsKeys, todo : SUBSET MarkerKeys,
        channel : BOOLEAN]
  \cup [step : {"premium"}]

RsInit ==
  /\ rsource = [m \in RsMinutes |-> "none"] /\ rrow = rsource
  /\ rrules \in SUBSET RsRules /\ rchannel \in BOOLEAN
  /\ rslot = RsNone /\ rclaims = {} /\ rsent = [k \in RsKeys |-> 0]
  /\ rpoll = [p \in RsPollers |-> RsIdle]

(* The source learns of a minute or corrects it; time enters or leaves a    *)
(* push window; an administrator saves another configuration.               *)
SourceMoves ==
  /\ \E m \in RsMinutes, v \in {"miss", "hit"} :
       rsource' = [rsource EXCEPT ![m] = v]
  /\ UNCHANGED <<rrow, rrules, rchannel, rslot, rclaims, rsent, rpoll>>

SlotMoves ==
  /\ \E s \in RsSlots \cup {RsNone} : rslot' = s
  /\ UNCHANGED <<rsource, rrow, rrules, rchannel, rclaims, rsent, rpoll>>

SavePushConfig ==
  /\ rrules' \in SUBSET RsRules /\ rchannel' \in BOOLEAN
  /\ UNCHANGED <<rsource, rrow, rslot, rclaims, rsent, rpoll>>

Goes(p, call) == rpoll' = [rpoll EXCEPT ![p] = call]

(* broker.refresh with max_age_seconds=0: a poll (push) or a backfill.  A   *)
(* failed refresh ends the call and only writes last_error.                 *)
Refresh(p, push) ==
  /\ rpoll[p] = RsIdle
  /\ Goes(p, [step |-> "refreshed", push |-> push, snap |-> rsource])
  /\ UNCHANGED <<rsource, rrow, rrules, rchannel, rslot, rclaims, rsent>>

(* record_snapshot: values that are missing keep what is stored; the        *)
(* minutes that differ now are returned.                                    *)
Stored(snap) ==
  [m \in RsMinutes |-> IF snap[m] = "none" THEN rrow[m] ELSE snap[m]]
Changed(snap) == {m \in RsMinutes : Stored(snap)[m] # rrow[m]}

RecordSnapshot(p) ==
  /\ rpoll[p].step = "refreshed"
  /\ LET snap == rpoll[p].snap IN
     /\ rrow' = Stored(snap)
     /\ Goes(p, IF rpoll[p].push /\ Changed(snap) # {}
                THEN [step |-> "changed", minutes |-> Changed(snap)] ELSE RsIdle)
  /\ UNCHANGED <<rsource, rrules, rchannel, rslot, rclaims, rsent>>

After(todo, channel) ==
  IF todo = {} THEN RsIdle
  ELSE [step |-> "push", todo |-> todo, channel |-> channel]

(* _push_changed: the whole series is read again, then the configuration.   *)
Markers == {k \in RsMinutes \X rrules : rrow[k[1]] = "hit"}
BuildMarkers(p) ==
  /\ rpoll[p].step = "changed"
  /\ LET todo == {k \in Markers : k[1] \in rpoll[p].minutes} IN
     Goes(p, After(todo, rchannel))
  /\ UNCHANGED <<rsource, rrow, rrules, rchannel, rslot, rclaims, rsent>>

(* claim_push_event: INSERT OR IGNORE, told apart by its row count.         *)
ClaimsMutant(k) == TRUE

Claims(k) == k \notin rclaims

ClaimMarker(p) ==
  /\ rpoll[p].step = "push"
  /\ \E k \in rpoll[p].todo :
       /\ \A l \in rpoll[p].todo : k[1] <= l[1]
       /\ LET rest == rpoll[p].todo \ {k} IN
          Goes(p, IF Claims(k)
                  THEN [step |-> "claimed", key |-> k, todo |-> rest,
                        channel |-> rpoll[p].channel]
                  ELSE After(rest, rpoll[p].channel))
       /\ rclaims' = rclaims \cup {k}
  /\ UNCHANGED <<rsource, rrow, rrules, rchannel, rslot, rsent>>

(* dispatcher.send: a channel's failure is only reported, but without any   *)
(* channel it raises and the markers that were left are never pushed.       *)
SendPush(p) ==
  /\ rpoll[p].step = "claimed"
  /\ LET c == rpoll[p] IN
     /\ rsent' = [rsent EXCEPT ![c.key] = IF c.channel THEN Min({2, @ + 1}) ELSE @]
     /\ Goes(p, IF c.channel THEN After(c.todo, c.channel) ELSE RsIdle)
  /\ UNCHANGED <<rsource, rrow, rrules, rchannel, rslot, rclaims>>

(* PremiumMonitor.poll_once: fetch and save, then the window's only push.   *)
FetchPremium(p) ==
  /\ rpoll[p] = RsIdle
  /\ Goes(p, [step |-> "premium"])
  /\ UNCHANGED <<rsource, rrow, rrules, rchannel, rslot, rclaims, rsent>>

ClaimPremium(p) ==
  /\ rpoll[p].step = "premium"
  /\ IF rslot = RsNone THEN Goes(p, RsIdle) /\ UNCHANGED rclaims
     ELSE /\ Goes(p, IF Claims(rslot)
                     THEN [step |-> "claimed", key |-> rslot, todo |-> {},
                           channel |-> rchannel]
                     ELSE RsIdle)
          /\ rclaims' = rclaims \cup {rslot}
  /\ UNCHANGED <<rsource, rrow, rrules, rchannel, rslot, rsent>>

(* The service restarts, or a call is cancelled: the database remains.      *)
RsRestart ==
  /\ rpoll' = [p \in RsPollers |-> RsIdle]
  /\ UNCHANGED <<rsource, rrow, rrules, rchannel, rslot, rclaims, rsent>>

RsNext ==
  \/ SourceMoves \/ SlotMoves \/ SavePushConfig \/ RsRestart
  \/ \E p \in RsPollers :
       \/ \E push \in BOOLEAN : Refresh(p, push)
       \/ RecordSnapshot(p) \/ BuildMarkers(p) \/ ClaimMarker(p) \/ SendPush(p)
       \/ FetchPremium(p) \/ ClaimPremium(p)

RsSpec == RsInit /\ [][RsNext]_rsvars

-----------------------------------------------------------------------------
(* The shape of the research rows, claims and calls under way.              *)
RsTypeOK ==
  /\ {rsource, rrow} \subseteq [RsMinutes -> RsValues]
  /\ rrules \subseteq RsRules /\ rchannel \in BOOLEAN
  /\ rslot \in RsSlots \cup {RsNone} /\ rclaims \subseteq RsKeys
  /\ rsent \in [RsKeys -> 0 .. 2] /\ rpoll \in [RsPollers -> RsCalls]

(* No event is pushed twice, whichever polls overlap, whatever snapshots    *)
(* reach the table in which order (a minute may change back and forth), and *)
(* across restarts: the claim in the database comes before the send         *)
(* (_push_changed, PremiumMonitor.poll_once).                               *)
PushedOnce == \A k \in RsKeys : rsent[k] <= 1
=============================================================================
