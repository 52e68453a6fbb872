------------------------------- MODULE FundFlow -------------------------------
(***************************************************************************)
(* The fund-flow figures of a symbol (fund_flow_history.py,                *)
(* database_first_fund_flow.py, the fund-flow part of research_store.py    *)
(* and FundFlowHttpClient of direct_market.py).  A monitor reads the       *)
(* source of every watchlist symbol and records one row per minute; pages  *)
(* and tasks read the rows first and the source only when no complete      *)
(* sample is recent.  A figure is modelled by the time the source gave it, *)
(* so that its age can be told however often it was copied.                *)
(***************************************************************************)
EXTENDS Naturals, FiniteSets, FiniteSetsExt

CONSTANTS FfSymbols, FfWatched,  (* symbols read; those on some watchlist    *)
          FfFields,              (* periods and figures, all needed for VALID *)
          FfGaps,                (* bound: the figures an answer may lack     *)
          FfMinute,              (* ticks of a row's minute                   *)
          FfFresh,               (* freshness_seconds, in ticks               *)
          FfTtl,                 (* minimum_interval_seconds of the client    *)
          FfDay, FfOpenTicks,    (* ticks of a day; those the market is open  *)
          FfEnd,                 (* bound: the last tick of a run             *)
          FfNone

ASSUME FfAssumption ==
  /\ {FfMinute, FfFresh, FfTtl, FfDay, FfEnd} \subseteq Nat \ {0}
  /\ FfWatched \subseteq FfSymbols /\ FfGaps \subseteq SUBSET FfFields
  /\ FfDay % FfMinute = 0
  /\ FfOpenTicks \subseteq 0 .. FfDay - 1

VARIABLES ftime,
          frow,    (* the rows: symbol and minute to figures and captured_at *)
          fcache,  (* FundFlowHttpClient._cache                              *)
          ffall,   (* _closed_fallbacks, of a symbol and a calendar day      *)
          fmon,    (* the monitor's read of each watchlist symbol            *)
          fread    (* a page or a task that reads a symbol                   *)

ffvars == <<ftime, frow, fcache, ffall, fmon, fread>>

FfTicks == 0 .. FfEnd
FfMinutes == 0 .. FfEnd \div FfMinute
FfDays == 0 .. FfEnd \div FfDay
FfOutcome == [FfFields -> FfTicks \cup {FfNone}]
FfRow == [got : FfOutcome, captured : FfTicks]
NoFigure == [f \in FfFields |-> FfNone]
Figures(got) == {f \in FfFields : got[f] # FfNone}

DayOf(t) == t \div FfDay
MinuteOf(t) == t \div FfMinute
FfOpen == ftime % FfDay \in FfOpenTicks

FfReader == [step : {"idle"}]
  \cup [step : {"lookup", "fallback", "live", "keep", "done"},
        symbol : FfSymbols, now : FfTicks, got : FfOutcome,
        via : {"none", "history", "closed", "live"}]
FfIdle == [step |-> "idle"]

FfInit ==
  /\ ftime = 0
  /\ frow = [s \in FfSymbols |-> [m \in FfMinutes |-> FfNone]]
  /\ fcache = [s \in FfSymbols |-> FfNone]
  /\ ffall = [s \in FfSymbols |-> [d \in FfDays |-> FfNone]]
  /\ fmon = [s \in FfWatched |-> FfNone]
  /\ fread = FfIdle

FfTick ==
  /\ ftime < FfEnd /\ ftime' = ftime + 1
  /\ UNCHANGED <<frow, fcache, ffall, fmon, fread>>

(* FundFlowHttpClient.read_direct, under its lock: the cached outcome while  *)
(* it is young, else what the service answers now, figures missing or not.   *)
Young(s) == /\ fcache[s] # FfNone
            /\ ftime < fcache[s].captured + FfTtl
LiveOutcomes(s) ==
  IF Young(s) THEN {fcache[s].got}
  ELSE {[f \in FfFields |-> IF f \in gap THEN FfNone ELSE ftime] : gap \in FfGaps}
Cached(s, got) ==
  fcache' = [fcache EXCEPT ![s] =
               IF Young(s) THEN @ ELSE [got |-> got, captured |-> ftime]]

(* record_fund_flow: a missing figure keeps the one of the same minute.      *)
Merged(s, m, got) ==
  [f \in FfFields |->
     IF got[f] = FfNone /\ frow[s][m] # FfNone THEN frow[s][m].got[f]
     ELSE got[f]]
Recorded(s, now, got) ==
  LET m == MinuteOf(now) IN
  [frow EXCEPT ![s][m] = [got |-> Merged(s, m, got), captured |-> now]]

(* latest_fund_flow_snapshot: the newest minute whose sample is complete, of *)
(* the given day and not after now.                                          *)
Complete(s, day) ==
  {m \in FfMinutes : /\ frow[s][m] # FfNone
                     /\ Figures(frow[s][m].got) = FfFields
                     /\ DayOf(m * FfMinute) = day}
RecentMutant(s, now) ==
  LET ms == {m \in Complete(s, DayOf(now)) : m <= MinuteOf(now)} IN
  IF ms = {} THEN FfNone ELSE frow[s][Max(ms)]

Recent(s, now) ==
  LET ms == {m \in Complete(s, DayOf(now)) : m <= MinuteOf(now)} IN
  IF ms = {} THEN FfNone
  ELSE LET r == frow[s][Max(ms)] IN
       IF now > r.captured + FfFresh THEN FfNone ELSE r

(* A closed market shows the last day that has rows at all.                  *)
LastSample(s) ==
  LET days == {DayOf(m * FfMinute) :
                 m \in {n \in FfMinutes : frow[s][n] # FfNone}}
      ms == IF days = {} THEN {} ELSE Complete(s, Max(days))
  IN IF ms = {} THEN FfNone ELSE frow[s][Max(ms)]

(* poll_once: the stamp of the round is taken before the sources are read.   *)
Polling == \E s \in FfWatched : fmon[s] # FfNone
PollBegin ==
  /\ FfOpen /\ ~Polling
  /\ fmon' = [s \in FfWatched |-> [now |-> ftime, got |-> FfNone]]
  /\ UNCHANGED <<ftime, frow, fcache, ffall, fread>>

PolledMutant(s) ==
  IF Recent(s, ftime) # FfNone THEN {Recent(s, ftime).got} ELSE LiveOutcomes(s)

Polled(s) == LiveOutcomes(s)

PollRead(s) ==
  /\ fmon[s] # FfNone /\ fmon[s].got = FfNone
  /\ \E got \in Polled(s) :
       /\ Cached(s, got)
       /\ fmon' = [fmon EXCEPT ![s] = IF Figures(got) = {} THEN FfNone
                                      ELSE [@ EXCEPT !.got = got]]
  /\ UNCHANGED <<ftime, frow, ffall, fread>>

(* The source failed: record_fund_flow_error leaves the rows alone.          *)
PollFails(s) ==
  /\ fmon[s] # FfNone /\ fmon[s].got = FfNone
  /\ fmon' = [fmon EXCEPT ![s] = FfNone]
  /\ UNCHANGED <<ftime, frow, fcache, ffall, fread>>

PollRecord(s) ==
  /\ fmon[s] # FfNone /\ fmon[s].got # FfNone
  /\ frow' = Recorded(s, fmon[s].now, fmon[s].got)
  /\ fmon' = [fmon EXCEPT ![s] = FfNone]
  /\ UNCHANGED <<ftime, fcache, ffall, fread>>

(* read_direct of the database-first source.  The phase is asked again at    *)
(* every branch, so that it may change while one call runs.                  *)
ReadBegin(s) ==
  /\ fread.step = "idle"
  /\ fread' = [step |-> "lookup", symbol |-> s, now |-> ftime,
               got |-> NoFigure, via |-> "none"]
  /\ UNCHANGED <<ftime, frow, fcache, ffall, fmon>>

Answered(got, via) ==
  [fread EXCEPT !.step = "done", !.got = got, !.via = via]

ReadLookup ==
  /\ fread.step = "lookup"
  /\ LET s == fread.symbol
         row == IF s \notin FfWatched THEN FfNone
                ELSE IF FfOpen THEN Recent(s, fread.now) ELSE LastSample(s)
     IN fread' = IF row = FfNone THEN [fread EXCEPT !.step = "fallback"]
                 ELSE Answered(row.got, IF FfOpen THEN "history" ELSE "closed")
  /\ UNCHANGED <<ftime, frow, fcache, ffall, fmon>>

ReadFallback ==
  /\ fread.step = "fallback"
  /\ LET kept == ffall[fread.symbol][DayOf(fread.now)] IN
     fread' = IF ~FfOpen /\ kept # FfNone THEN Answered(kept, "closed")
              ELSE [fread EXCEPT !.step = "live"]
  /\ UNCHANGED <<ftime, frow, fcache, ffall, fmon>>

ReadLive ==
  /\ fread.step = "live"
  /\ \E got \in LiveOutcomes(fread.symbol) :
       /\ Cached(fread.symbol, got)
       /\ fread' = [fread EXCEPT !.step = "keep", !.got = got]
  /\ UNCHANGED <<ftime, frow, ffall, fmon>>

ReadFails ==
  /\ fread.step = "live" /\ fread' = FfIdle
  /\ UNCHANGED <<ftime, frow, fcache, ffall, fmon>>

(* An open market keeps what was read as a row, a closed one as the day's    *)
(* fallback.                                                                 *)
ReadKeep ==
  /\ fread.step = "keep"
  /\ LET s == fread.symbol IN
     /\ frow' = IF FfOpen /\ s \in FfWatched /\ Figures(fread.got) # {}
                THEN Recorded(s, fread.now, fread.got) ELSE frow
     /\ ffall' = IF FfOpen THEN ffall
                 ELSE [ffall EXCEPT ![s][DayOf(fread.now)] = fread.got]
  /\ fread' = Answered(fread.got, "live")
  /\ UNCHANGED <<ftime, fcache, fmon>>

ReadEnd ==
  /\ fread.step = "done" /\ fread' = FfIdle
  /\ UNCHANGED <<ftime, frow, fcache, ffall, fmon>>

(* The service restarts: the rows are in the database.                       *)
FfRestart ==
  /\ fcache' = [s \in FfSymbols |-> FfNone]
  /\ ffall' = [s \in FfSymbols |-> [d \in FfDays |-> FfNone]]
  /\ fmon' = [s \in FfWatched |-> FfNone]
  /\ fread' = FfIdle
  /\ UNCHANGED <<ftime, frow>>

FfNext ==
  \/ FfTick \/ PollBegin \/ FfRestart
  \/ \E s \in FfWatched : PollRead(s) \/ PollFails(s) \/ PollRecord(s)
  \/ \E s \in FfSymbols : ReadBegin(s)
  \/ ReadLookup \/ ReadFallback \/ ReadLive \/ ReadFails \/ ReadKeep \/ ReadEnd

FfSpec == FfInit /\ [][FfNext]_ffvars

-----------------------------------------------------------------------------
(* The shape of the rows, caches and readers of the fund-flow figures.       *)
FfTypeOK ==
  /\ ftime \in FfTicks
  /\ frow \in [FfSymbols -> [FfMinutes -> FfRow \cup {FfNone}]]
  /\ fcache \in [FfSymbols -> FfRow \cup {FfNone}]
  /\ ffall \in [FfSymbols -> [FfDays -> FfOutcome \cup {FfNone}]]
  /\ fmon \in [FfWatched ->
       {FfNone} \cup [now : FfTicks, got : FfOutcome \cup {FfNone}]]
  /\ fread \in FfReader

(* What an open market is shown is never older than freshness_seconds says,  *)
(* plus the client's interval and the minute a missing figure may be carried *)
(* through, whatever the monitor and the readers copied on the way: the      *)
(* monitor stamps rows with the time its round began and reads the source    *)
(* itself, so no row is recorded anew under a later stamp (read_direct and   *)
(* poll_once).                                                               *)
FundFlowIsFresh ==
  fread.step = "done" /\ fread.via \in {"history", "live"} =>
    \A f \in Figures(fread.got) :
      fread.now < fread.got[f] + FfFresh + FfMinute + FfTtl - 1
=============================================================================
