------------------------------ MODULE TaskEvents ------------------------------
(***************************************************************************)
(* The bounded stream of task events and the pages that follow one task of *)
(* it (queue.py: _persist_with_event, _trim_events, events_after_cursor;   *)
(* api.py: task_events).  A page names the last event it received when it  *)
(* connects again; the server reads batches after its own cursor, which    *)
(* also passes the events of other tasks.                                  *)
(***************************************************************************)
EXTENDS Naturals, Sequences, FiniteSets, FiniteSetsExt, SequencesExt, Selection

CONSTANTS EvTasks,      (* tasks that write events                          *)
          EvFollowed,   (* the task of each page: a function of the pages   *)
          EvRetention,  (* event_retention                                  *)
          EvLimit,      (* events of one batch                              *)
          EvMaxId       (* bound: events ever written; 0 is "no id yet"     *)

EvPages == DOMAIN EvFollowed

ASSUME EvAssumption ==
  /\ {EvRetention, EvLimit, EvMaxId} \subseteq Nat \ {0}
  /\ \A c \in EvPages : EvFollowed[c] \in EvTasks

VARIABLES evlog,   (* the stream: entries in the order of their ids         *)
          evnext,  (* the next id Redis gives                               *)
          evlast,  (* the page's Last-Event-ID                              *)
          evgot,   (* the ids the page received since it was opened         *)
          evconn   (* the server's side of the page's connection            *)

evvars == <<evlog, evnext, evlast, evgot, evconn>>

EvIds == 1 .. EvMaxId
EvEntry == [id : EvIds, task : EvTasks]
EvOff == [step |-> "off"]
EvConnections ==
  {EvOff} \cup [step : {"on"}, cursor : 0 .. EvMaxId, batch : Seq(EvIds)]

EvInit ==
  /\ evlog = <<>> /\ evnext = 1
  /\ evlast = [c \in EvPages |-> 0] /\ evgot = [c \in EvPages |-> {}]
  /\ evconn = [c \in EvPages |-> EvOff]

(* Every script that changes a task's status adds an entry to the stream.   *)
Emit(t) ==
  /\ evnext <= EvMaxId
  /\ evlog' = Append(evlog, [id |-> evnext, task |-> t])
  /\ evnext' = evnext + 1
  /\ UNCHANGED <<evlast, evgot, evconn>>

(* An approximate XTRIM removes the oldest entries, as many as it likes of  *)
(* those beyond the retention.                                              *)
TrimEvents ==
  /\ Len(evlog) > EvRetention
  /\ \E n \in 1 .. Len(evlog) - EvRetention :
       evlog' = SubSeq(evlog, n + 1, Len(evlog))
  /\ UNCHANGED <<evnext, evlast, evgot, evconn>>

(* A deployment's acceptance task leaves with all of its events.            *)
RemoveEvents(t) ==
  /\ evlog' = Keep(evlog, {e \in EvEntry : e.task # t})
  /\ UNCHANGED <<evnext, evlast, evgot, evconn>>

(* events_after_cursor: scan after the cursor until the batch is full; the  *)
(* next cursor is the last entry that was scanned, of whatever task.        *)
Following(c, from) ==
  Keep(evlog, {e \in EvEntry : e.id > from /\ e.task = EvFollowed[c]})
BatchOf(c, from) ==
  LET s == Following(c, from)
      n == Min({EvLimit, Len(s)})
  IN [i \in 1 .. n |-> s[i].id]

CursorAfterMutant(c, from) ==
  Max({from} \cup {e.id : e \in ToSet(evlog)})

CursorAfter(c, from) ==
  LET b == BatchOf(c, from) IN
  IF Len(b) = EvLimit THEN b[EvLimit]
  ELSE Max({from} \cup {e.id : e \in ToSet(evlog)})

(* A page is opened anew, or its browser reconnects with Last-Event-ID.     *)
OpenPage(c) ==
  /\ evconn[c] = EvOff
  /\ evlast' = [evlast EXCEPT ![c] = 0] /\ evgot' = [evgot EXCEPT ![c] = {}]
  /\ evconn' = [evconn EXCEPT ![c] = [step |-> "on", cursor |-> 0, batch |-> <<>>]]
  /\ UNCHANGED <<evlog, evnext>>

ReconnectCursorMutant(c) == evnext - 1

ReconnectCursor(c) == evlast[c]

Reconnect(c) ==
  /\ evconn[c] = EvOff
  /\ evconn' = [evconn EXCEPT ![c] =
                  [step |-> "on", cursor |-> ReconnectCursor(c), batch |-> <<>>]]
  /\ UNCHANGED <<evlog, evnext, evlast, evgot>>

ReadEvents(c) ==
  /\ evconn[c].step = "on" /\ evconn[c].batch = <<>>
  /\ LET from == evconn[c].cursor IN
     evconn' = [evconn EXCEPT ![c] = [step |-> "on", cursor |-> CursorAfter(c, from),
                                      batch |-> BatchOf(c, from)]]
  /\ UNCHANGED <<evlog, evnext, evlast, evgot>>

YieldEvent(c) ==
  /\ evconn[c].step = "on" /\ evconn[c].batch # <<>>
  /\ LET id == Head(evconn[c].batch) IN
     /\ evlast' = [evlast EXCEPT ![c] = id]
     /\ evgot' = [evgot EXCEPT ![c] = @ \cup {id}]
  /\ evconn' = [evconn EXCEPT ![c].batch = Tail(@)]
  /\ UNCHANGED <<evlog, evnext>>

(* The connection breaks, also in the middle of a batch, or the service     *)
(* restarts: what was not yielded is lost with the server's cursor.         *)
Disconnect(c) ==
  /\ evconn[c].step = "on"
  /\ evconn' = [evconn EXCEPT ![c] = EvOff]
  /\ UNCHANGED <<evlog, evnext, evlast, evgot>>

EvNext ==
  \/ TrimEvents
  \/ \E t \in EvTasks : Emit(t) \/ RemoveEvents(t)
  \/ \E c \in EvPages : \/ OpenPage(c) \/ Reconnect(c) \/ ReadEvents(c)
                        \/ YieldEvent(c) \/ Disconnect(c)

EvSpec == EvInit /\ [][EvNext]_evvars

-----------------------------------------------------------------------------
(* The shape of the stream, the pages and their connections.                *)
EvTypeOK ==
  /\ evlog \in Seq(EvEntry) /\ evnext \in 1 .. EvMaxId + 1
  /\ evlast \in [EvPages -> 0 .. EvMaxId]
  /\ evgot \in [EvPages -> SUBSET EvIds]
  /\ evconn \in [EvPages -> EvConnections]

OnItsWayTo(c) ==
  IF evconn[c] = EvOff THEN {} ELSE ToSet(evconn[c].batch)
PassedBy(c) ==
  IF evconn[c] = EvOff THEN evlast[c] ELSE evconn[c].cursor

(* A page misses no event that is still in the stream behind the point the  *)
(* reading has reached, and is shown none twice, through full batches,      *)
(* broken connections, trimming and the events of other tasks               *)
(* (events_after_cursor, task_events).                                      *)
EventsExactlyOnce ==
  \A c \in EvPages :
    /\ \A e \in ToSet(evlog) :
         e.task = EvFollowed[c] /\ e.id <= PassedBy(c) =>
           e.id \in evgot[c] \cup OnItsWayTo(c)
    /\ evgot[c] \cap OnItsWayTo(c) = {}
    /\ \A i \in evgot[c] : i <= evlast[c]
=============================================================================
