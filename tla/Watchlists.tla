------------------------------- MODULE Watchlists -------------------------------
(***************************************************************************)
(* The grouped watchlist of one market user (market_accounts.py and the    *)
(* routes of market_api.py over it).  Every statement carries the user's   *)
(* id, so users share no row.  Each method is one SQLite transaction under *)
(* the store's lock.  A symbol added to a custom group is also written to  *)
(* the primary group, so the two are kept in step by hand, as are the      *)
(* places, which the table does not constrain.  Symbols are numbers: ties  *)
(* of a place are broken by the code.                                      *)
(***************************************************************************)
EXTENDS Integers, FiniteSets, FiniteSetsExt

CONSTANTS WlGroups,   (* ids of groups                                      *)
          WlPrimary,  (* the group created with the account                 *)
          WlSymbols,  (* stock codes                                        *)
          WlLimit     (* max_symbols_per_user                               *)

ASSUME WlAssumption ==
  /\ WlPrimary \in WlGroups /\ WlGroups \subseteq Nat /\ IsFiniteSet(WlGroups)
  /\ WlSymbols \subseteq Nat /\ IsFiniteSet(WlSymbols) /\ WlLimit \in Nat

VARIABLES wgroup,  (* the place of each group, WlGone when it does not exist *)
          witem,   (* the place of each symbol in each group, or WlGone      *)
          wmon     (* whether the row of a symbol in a group is monitored    *)

wvars == <<wgroup, witem, wmon>>

WlGone == -1
Listed(places) == {x \in DOMAIN places : places[x] # WlGone}
In(g) == Listed(witem[g])
OfUser == UNION {In(g) : g \in WlGroups}

WlInit ==
  /\ wgroup = [g \in WlGroups |-> IF g = WlPrimary THEN 0 ELSE WlGone]
  /\ witem = [g \in WlGroups |-> [s \in WlSymbols |-> WlGone]]
  /\ wmon = [g \in WlGroups |-> [s \in WlSymbols |-> FALSE]]

(* COALESCE(MAX(sort_order) + 1, 0)                                         *)
NextPlace(places) ==
  IF Listed(places) = {} THEN 0
  ELSE Max({places[x] : x \in Listed(places)}) + 1

NormalizedMutant(places) == places

(* _normalize_item_order and _normalize_group_order: the places in order of *)
(* place and then of the code or id.                                        *)
Normalized(places) ==
  [x \in DOMAIN places |->
     IF places[x] = WlGone THEN WlGone
     ELSE Cardinality({y \in Listed(places) :
                         \/ places[y] < places[x]
                         \/ places[y] = places[x] /\ y < x})]

(* Some order of the listed entries, each exactly once: what the reorder    *)
(* routes accept.                                                           *)
Orders(places) ==
  {f \in [DOMAIN places -> {WlGone} \cup 0 .. Cardinality(Listed(places)) - 1] :
     /\ Listed(f) = Listed(places)
     /\ \A x, y \in Listed(f) : f[x] = f[y] => x = y}

CreateGroup(g) ==
  /\ wgroup[g] = WlGone
  /\ wgroup' = [wgroup EXCEPT ![g] = NextPlace(wgroup)]
  /\ UNCHANGED <<witem, wmon>>

(* Rows of the group go with it; the primary group stays.                   *)
DeleteGroup(g) ==
  /\ wgroup[g] # WlGone
  /\ g # WlPrimary
  /\ wgroup' = Normalized([wgroup EXCEPT ![g] = WlGone])
  /\ witem' = [witem EXCEPT ![g] = [s \in WlSymbols |-> WlGone]]
  /\ wmon' = [wmon EXCEPT ![g] = [s \in WlSymbols |-> FALSE]]

ReorderGroups ==
  /\ wgroup' \in Orders(wgroup)
  /\ UNCHANGED <<witem, wmon>>

RoomForMutant(s) == Cardinality(In(WlPrimary)) < WlLimit \/ s \in OfUser

(* The limit counts codes, not rows; a known code may enter another group.  *)
RoomFor(s) == Cardinality(OfUser) < WlLimit \/ s \in OfUser

(* The row of the group, and the one of the primary group unless it has it: *)
(* an existing primary row keeps its place and its monitoring flag.         *)
AddSymbol(g, s) ==
  LET added == {g} \cup {h \in {WlPrimary} : witem[h][s] = WlGone}
  IN  /\ wgroup[g] # WlGone
      /\ RoomFor(s)
      /\ witem[g][s] = WlGone
      /\ witem' = [h \in WlGroups |->
                     IF h \in added
                     THEN [witem[h] EXCEPT ![s] = NextPlace(witem[h])]
                     ELSE witem[h]]
      /\ wmon' = [h \in WlGroups |->
                    IF h \in added THEN [wmon[h] EXCEPT ![s] = TRUE]
                    ELSE wmon[h]]
      /\ UNCHANGED wgroup

Without(g, s) == Normalized([witem[g] EXCEPT ![s] = WlGone])

RemoveSymbol(g, s) ==
  /\ s \in In(g)
  /\ witem' = [witem EXCEPT ![g] = Without(g, s)]
  /\ wmon' = [wmon EXCEPT ![g] = [@ EXCEPT ![s] = FALSE]]
  /\ UNCHANGED wgroup

RemoveEverywhere(s) ==
  /\ s \in OfUser
  /\ witem' = [g \in WlGroups |->
                 IF s \in In(g) THEN Without(g, s) ELSE witem[g]]
  /\ wmon' = [g \in WlGroups |-> [wmon[g] EXCEPT ![s] = FALSE]]
  /\ UNCHANGED wgroup

SetMonitoring(s, enabled) ==
  /\ s \in OfUser
  /\ wmon' = [g \in WlGroups |->
                IF s \in In(g) THEN [wmon[g] EXCEPT ![s] = enabled]
                ELSE wmon[g]]
  /\ UNCHANGED <<wgroup, witem>>

ReorderSymbols(g) ==
  /\ wgroup[g] # WlGone
  /\ \E f \in Orders(witem[g]) : witem' = [witem EXCEPT ![g] = f]
  /\ UNCHANGED <<wgroup, wmon>>

(* move_symbol between two groups: the rows after the asked place make room *)
(* by one, which leaves no hole only if the places had none.  (Inside one   *)
(* group it is a reorder.)                                                  *)
MoveSymbol(from, to, s, asked) ==
  LET index == Min({asked, Cardinality(In(to))})
      shifted == [x \in WlSymbols |->
                    IF witem[to][x] >= index THEN witem[to][x] + 1
                    ELSE witem[to][x]]
  IN  /\ from # to
      /\ wgroup[to] # WlGone
      /\ s \in In(from) \ In(to)
      /\ witem' = [witem EXCEPT ![from] = Without(from, s),
                                ![to] = [shifted EXCEPT ![s] = index]]
      /\ wmon' = [wmon EXCEPT ![from] = [@ EXCEPT ![s] = FALSE],
                              ![to] = [@ EXCEPT ![s] = wmon[from][s]]]
      /\ UNCHANGED wgroup

WlNext ==
  \/ \E g \in WlGroups : CreateGroup(g) \/ DeleteGroup(g) \/ ReorderSymbols(g)
  \/ ReorderGroups
  \/ \E s \in WlSymbols :
       \/ RemoveEverywhere(s)
       \/ \E enabled \in BOOLEAN : SetMonitoring(s, enabled)
       \/ \E g \in WlGroups :
            \/ AddSymbol(g, s) \/ RemoveSymbol(g, s)
            \/ \E h \in WlGroups, i \in 0 .. Cardinality(WlSymbols) :
                 MoveSymbol(g, h, s, i)

WlSpec == WlInit /\ [][WlNext]_wvars

(* The shape of the groups and of the places in them.                       *)
WlTypeOK ==
  /\ wgroup \in [WlGroups -> {WlGone} \cup Nat]
  /\ witem \in [WlGroups -> [WlSymbols -> {WlGone} \cup Nat]]
  /\ wmon \in [WlGroups -> [WlSymbols -> BOOLEAN]]

(* After any sequence of additions, removals, moves and reorders the places *)
(* of every group, and of the groups, run 0, 1, 2 ... without a hole or a   *)
(* tie: move_symbol inserts at an index by shifting places, so a hole or a  *)
(* tie left behind by another operation would put a code elsewhere than     *)
(* where the user dropped it.                                               *)
PlacesAreDense ==
  /\ \A g \in WlGroups :
       {witem[g][s] : s \in In(g)} = 0 .. Cardinality(In(g)) - 1
  /\ {wgroup[g] : g \in Listed(wgroup)} = 0 .. Cardinality(Listed(wgroup)) - 1

(* A user watches at most max_symbols_per_user codes, however they are      *)
(* spread over groups, moved out of the primary group or added twice.       *)
WatchlistBounded == Cardinality(OfUser) <= WlLimit

(* Both hold together: an operation that keeps to the limit may not leave a *)
(* hole where it moved codes from, nor the other way round                  *)
(* (add_symbol, remove_symbol, move_symbol, reorder_symbols).               *)
WatchlistsSound == PlacesAreDense /\ WatchlistBounded
==============================================================================
