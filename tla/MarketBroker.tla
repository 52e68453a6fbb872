------------------------------- MODULE MarketBroker -------------------------------
(***************************************************************************)
(* The market data broker (MarketDataBroker) with the WebSocket handlers   *)
(* that subscribe to it, the market loop that polls it, and the other      *)
(* callers of refresh (REST routes, the research monitor).                 *)
(*                                                                         *)
(* Everything but the reads of the source runs on one event loop, so that  *)
(* what lies between two awaits is one action.  Times are left open: what  *)
(* an interval or a retry delay decides may happen either way.             *)
(***************************************************************************)
EXTENDS Integers, FiniteSets, Sequences, SequencesExt, Selection

CONSTANTS Clients,     (* WebSocket connections                             *)
          Codes,       (* stock codes                                       *)
          Readers,     (* other callers of refresh                          *)
          NoCode,      (* "absent" value                                    *)
          Batch,       (* does the source read many codes at once?          *)
          MaxSequence, (* bound: snapshots of one code                      *)
          MaxLocks,    (* bound: lock objects in use at a time              *)
          MaxQueue,    (* bound: keys in the queue of a client              *)
          MaxRequests, (* bound: subscription messages                      *)
          MaxFlips     (* bound: how often the market opens and closes      *)

ASSUME BrokerAssumption ==
  /\ NoCode \notin Codes
  /\ Clients \cap Readers = {} /\ (Clients \cup Readers) \cap Codes = {}
  /\ IsFiniteSet(Codes)
  /\ Batch \in BOOLEAN
  /\ {MaxSequence, MaxLocks, MaxQueue, MaxRequests, MaxFlips} \subseteq Nat

VARIABLES
  open,    (* is_market_open()                                              *)
  flips,   (* how often that changed                                        *)
  requests, (* how many subscription messages came in                        *)
  cache,   (* _cache with _cache_detail and _sequence, which go together    *)
  lockOf,  (* _refresh_locks, the lock object of each code; 0 for none      *)
  asked,   (* _closed_refresh_requests                                      *)
  calls,   (* the refreshes under way                                       *)
  poll,    (* the market loop inside poll_due                               *)
  socket,  (* the WebSocket handlers                                        *)
  sub,     (* _subscriptions                                                *)
  queue,   (* _queues                                                       *)
  pending, (* _pending_events, snapshots: their sequence; 0 for none        *)
  status,  (* _pending_events, source_status                                *)
  hand,    (* the event a handler's next_event task has taken               *)
  shown,   (* history: the last sequence sent to a client                   *)
  owed,    (* history: the last sequence published to a client              *)
  told,    (* history: the last refresh of a code failed, and was published *)
  lost,    (* history: the last snapshot published was taken and not sent   *)
  dropped  (* history: a lock object was dropped while somebody waited      *)

brokerVars == <<open, flips, requests, cache, lockOf, asked, calls, poll,
                socket, sub, queue, pending, status, hand, shown, owed, told,
                lost, dropped>>

Kinds   == {"snapshot", "source_status"}
Callers == Clients \cup Readers \cup Codes   (* a code: its refresh_one     *)

Nothing  == [seq |-> 0, full |-> FALSE]
NoCall   == [pc |-> "idle", code |-> NoCode, full |-> FALSE, lock |-> 0]
NoPoll   == [pc |-> "idle", due |-> {}, full |-> {}]
NoSub    == [watch |-> {}, detail |-> {}]
NoSocket == [pc |-> "listen", req |-> NoSub, todo |-> {}]
NoEvent  == [code |-> NoCode, seq |-> 0]

Wants(c)  == sub[c].watch \cup sub[c].detail
Wanted    == UNION {Wants(c) : c \in Clients}
Detailed  == UNION {sub[c].detail : c \in Clients}
Inside(f) == calls[f].pc = "read"
Held(l)   == \E f \in Callers : Inside(f) /\ calls[f].lock = l
Awaited(l) == \E f \in Callers : calls[f].pc = "wait" /\ calls[f].lock = l

-----------------------------------------------------------------------------
(* _publish(code, event) to every client that wants it, once per list entry *)
(* of news: a code with its new sequence, or with 0 for a failure.          *)
(* The mutants name the kind "event", or keep the event that is pending.     *)
KeyOfMutant(n) == <<n[1], "event">>

KeyOf(n) == <<n[1], IF n[2] = 0 THEN "source_status" ELSE "snapshot">>

IsPending(c, key) == IF key[2] = "snapshot" THEN pending[c][key[1]] # 0
                                            ELSE status[c][key[1]]

Sequences(news) == {n \in Range(news) : n[2] # 0}

PendingAfterMutant(c, s, seq) ==
  IF pending[c][s] # 0 THEN pending[c][s] ELSE seq

PendingAfter(c, s, seq) == seq

Heard(c, news) == Keep(news, {n \in Range(news) : n[1] \in Wants(c)})

(* The keys that are put on the queue of a client: they wait there once.    *)
NewKeys(c, news) ==
  LET added == Keep(Heard(c, news),
                    {n \in Range(news) : ~IsPending(c, KeyOf(n))})
  IN  [i \in 1..Len(added) |-> KeyOf(added[i])]

Publish(news) ==
  LET isNew(c, s) == \E n \in Sequences(Heard(c, news)) : n[1] = s
      newSeq(s)  == (CHOOSE n \in Sequences(news) : n[1] = s)[2]
  IN
  /\ \A c \in Clients : Len(queue[c]) + Len(NewKeys(c, news)) <= MaxQueue
  /\ queue' = [c \in Clients |-> queue[c] \o NewKeys(c, news)]
  /\ pending' = [c \in Clients |-> [s \in Codes |->
                   IF isNew(c, s) THEN PendingAfter(c, s, newSeq(s))
                   ELSE pending[c][s]]]
  /\ status' = [c \in Clients |-> [s \in Codes |->
                  status[c][s] \/ <<s, 0>> \in Range(Heard(c, news))]]
  /\ owed' = [c \in Clients |-> [s \in Codes |->
                IF isNew(c, s) THEN newSeq(s) ELSE owed[c][s]]]
  /\ lost' = [c \in Clients |-> {s \in lost[c] : ~isNew(c, s)}]

(* The snapshots of a list of codes enter the cache with the next sequence  *)
(* numbers and are published; for the codes in bad publish_failure is called *)
(* instead.                                                                 *)
Store(codes, bad, full) ==
  LET next(s) == cache[s].seq + 1
      stored  == Range(codes) \ bad
  IN
  /\ \A s \in stored : next(s) <= MaxSequence
  /\ cache' = [s \in Codes |->
                 IF s \in stored
                 THEN [seq |-> next(s), full |-> s \in full]
                 ELSE cache[s]]
  /\ told' = (told \cup (Range(codes) \cap bad)) \ stored
  /\ Publish([i \in DOMAIN codes |->
                <<codes[i], IF codes[i] \in bad THEN 0 ELSE next(codes[i])>>])

-----------------------------------------------------------------------------
(* refresh(code, detail, max_age_seconds)                                   *)

(* What a caller that has the lock does next: it returns the cached         *)
(* snapshot, or reads the source.  In an open market the poll always reads;  *)
(* the others may accept a recent snapshot (max_age_seconds).                *)
Entered(f, call) ==
  LET cached == cache[call.code].seq # 0
                /\ (call.full => cache[call.code].full)
      reading == [call EXCEPT !.pc = "read"]
  IN
  IF cached /\ ~open THEN {NoCall}
  ELSE IF cached /\ f \notin Codes THEN {NoCall, reading}
  ELSE {reading}

FreshLock(l) ==
  /\ \A s \in Codes : lockOf[s] # l
  /\ \A f \in Callers : calls[f].lock # l

(* The lock object of the code is looked up, or made.  A free lock that     *)
(* nobody waits for is taken at once.                                       *)
Begin(f, s, full) ==
  /\ calls[f].pc = "idle"
  /\ lockOf[s] = 0 => \E l \in 1..MaxLocks : FreshLock(l)
  /\ LET l == IF lockOf[s] # 0 THEN lockOf[s]
              ELSE CHOOSE l \in 1..MaxLocks : FreshLock(l)
         call == [pc |-> "wait", code |-> s, full |-> full, lock |-> l]
     IN
     /\ lockOf' = [lockOf EXCEPT ![s] = l]
     /\ \E next \in IF Held(l) \/ Awaited(l) THEN {call} ELSE Entered(f, call) :
          calls' = [calls EXCEPT ![f] = next]

(* A caller that waited gets the lock.                                      *)
Enter(f) ==
  /\ calls[f].pc = "wait"
  /\ ~Held(calls[f].lock)
  /\ \E next \in Entered(f, calls[f]) : calls' = [calls EXCEPT ![f] = next]
  /\ UNCHANGED <<open, flips, requests, cache, lockOf, asked, poll, socket, sub,
                 queue, pending, status, hand, shown, owed, told, lost, dropped>>

(* The thread has read the source, and the caller resumes with the snapshot. *)
Refreshed(f) ==
  LET call == calls[f] IN
  /\ call.pc = "read"
  /\ Store(<<call.code>>, {}, IF call.full THEN {call.code} ELSE {})
  /\ calls' = [calls EXCEPT ![f] = NoCall]
  /\ UNCHANGED <<open, flips, requests, lockOf, asked, poll, socket, sub, hand,
                 shown, dropped>>

(* The read fails or times out: the poll publishes a failure, a REST route  *)
(* answers with an error.  (A handler: see StreamFails.)                    *)
RefreshFails(f) ==
  /\ f \in Readers \cup Codes
  /\ calls[f].pc = "read"
  /\ IF f \in Codes THEN Store(<<f>>, {f}, {})
     ELSE UNCHANGED <<cache, told, queue, pending, status, owed, lost>>
  /\ calls' = [calls EXCEPT ![f] = NoCall]
  /\ UNCHANGED <<open, flips, requests, lockOf, asked, poll, socket, sub, hand,
                 shown, dropped>>

(* A REST route or the research monitor refreshes a code.                   *)
Request(f) ==
  /\ \E s \in Codes : Begin(f, s, TRUE)
  /\ UNCHANGED <<open, flips, requests, cache, asked, poll, socket, sub, queue,
                 pending, status, hand, shown, owed, told, lost, dropped>>

-----------------------------------------------------------------------------
(* poll_due                                                                 *)

(* An open market and a source that reads in batches: the codes that are    *)
(* due are read in a thread, without the refresh locks, ...                 *)
PollBatch ==
  /\ poll.pc = "idle"
  /\ open /\ Batch
  /\ asked' = {}
  /\ \E due \in SUBSET Wanted :
       poll' = IF due = {} THEN NoPoll
               ELSE [pc |-> "read", due |-> due, full |-> Detailed]
  /\ UNCHANGED <<open, flips, requests, cache, lockOf, calls, socket, sub,
                 queue, pending, status, hand, shown, owed, told, lost, dropped>>

(* ... and published, the ones without a snapshot as failures.              *)
PollPublish ==
  /\ poll.pc = "read"
  /\ \E codes \in SetToSeqs(poll.due), bad \in SUBSET poll.due :
       Store(codes, bad, poll.full)
  /\ poll' = NoPoll
  /\ UNCHANGED <<open, flips, requests, lockOf, asked, calls, socket, sub, hand,
                 shown, dropped>>

(* Otherwise the poll refreshes code by code: in a closed market those that *)
(* were asked for since the last time.                                      *)
PollTasks ==
  /\ poll.pc = "idle"
  /\ ~(open /\ Batch)
  /\ asked' = {}
  /\ \E due \in IF open THEN SUBSET Wanted ELSE {asked \cap Wanted} :
       poll' = IF due = {} THEN NoPoll
               ELSE [pc |-> "tasks", due |-> due, full |-> Detailed]
  /\ UNCHANGED <<open, flips, requests, cache, lockOf, calls, socket, sub,
                 queue, pending, status, hand, shown, owed, told, lost, dropped>>

PollTask(s) ==
  /\ poll.pc = "tasks"
  /\ s \in poll.due
  /\ Begin(s, s, s \in poll.full)
  /\ poll' = [poll EXCEPT !.due = @ \ {s}]
  /\ UNCHANGED <<open, flips, requests, cache, asked, socket, sub, queue,
                 pending, status, hand, shown, owed, told, lost, dropped>>

PollEnds ==
  /\ poll.pc = "tasks"
  /\ poll.due = {}
  /\ \A s \in Codes : calls[s].pc = "idle"
  /\ poll' = NoPoll
  /\ UNCHANGED <<open, flips, requests, cache, lockOf, asked, calls, socket,
                 sub, queue, pending, status, hand, shown, owed, told, lost, dropped>>

-----------------------------------------------------------------------------
(* The WebSocket handler, market_stream.  A client that disconnects is the   *)
(* next connection from then on, one that has not subscribed yet.            *)

(* The task that runs next_event takes the next key, and with it the event  *)
(* unless that was withdrawn.                                               *)
TakeKey(c) ==
  LET key == Head(queue[c]) IN
  /\ socket[c].pc = "listen"
  /\ hand[c] = NoEvent
  /\ queue[c] # <<>>
  /\ queue' = [queue EXCEPT ![c] = Tail(@)]
  /\ hand' = [hand EXCEPT ![c] =
                IF IsPending(c, key)
                THEN [code |-> key[1], seq |-> IF key[2] = "snapshot"
                                               THEN pending[c][key[1]] ELSE 0]
                ELSE NoEvent]
  /\ IF key[2] = "snapshot"
     THEN /\ pending' = [pending EXCEPT ![c][key[1]] = 0]
          /\ UNCHANGED status
     ELSE /\ status' = [status EXCEPT ![c][key[1]] = FALSE]
          /\ UNCHANGED pending
  /\ UNCHANGED <<open, flips, requests, cache, lockOf, asked, calls, poll,
                 socket, sub, shown, owed, told, lost, dropped>>

(* The handler resumes with the event and sends it.                         *)
SendEvent(c) ==
  /\ socket[c].pc = "listen"
  /\ hand[c] # NoEvent
  /\ shown' = IF hand[c].seq = 0 THEN shown
              ELSE [shown EXCEPT ![c][hand[c].code] = hand[c].seq]
  /\ hand' = [hand EXCEPT ![c] = NoEvent]
  /\ UNCHANGED <<open, flips, requests, cache, lockOf, asked, calls, poll,
                 socket, sub, queue, pending, status, owed, told, lost, dropped>>

(* The handler resumes with a subscription; when the event task is done as  *)
(* well, its event is ignored.                                              *)
Receive(c, watch, detail) ==
  /\ socket[c].pc = "listen"
  /\ requests < MaxRequests
  /\ requests' = requests + 1
  /\ socket' = [socket EXCEPT ![c] =
                  [@ EXCEPT !.pc = "ack",
                            !.req = [watch |-> watch, detail |-> detail]]]
  /\ hand' = [hand EXCEPT ![c] = NoEvent]
  /\ lost' = [lost EXCEPT ![c] =
                @ \cup {s \in Codes : hand[c].code = s /\ hand[c].seq # 0
                                     /\ hand[c].seq = owed[c][s]}]
  /\ UNCHANGED <<open, flips, cache, lockOf, asked, calls, poll, sub,
                 queue, pending, status, shown, owed, told, dropped>>

(* Once "subscribed" is sent, broker.subscribe: events of codes that are no *)
(* longer wanted are withdrawn (their keys stay); in a closed market the    *)
(* new codes of the watchlist are asked for; the new detail is refreshed by *)
(* the handler.  The mutant asks for no code that somebody wants already.   *)
AskedForMutant(c, req) == req.watch \ Wanted

AskedFor(c, req) == req.watch \ sub[c].watch

Subscribe(c) ==
  LET req  == socket[c].req
      want == req.watch \cup req.detail
      todo == req.detail \ sub[c].detail
      kept(f, zero) == [f EXCEPT ![c] = [s \in Codes |->
                          IF s \in want THEN f[c][s] ELSE zero]]
  IN
  /\ socket[c].pc = "ack"
  /\ sub' = [sub EXCEPT ![c] = req]
  /\ pending' = kept(pending, 0)
  /\ status' = kept(status, FALSE)
  /\ shown' = kept(shown, 0)
  /\ owed' = kept(owed, 0)
  /\ lost' = [lost EXCEPT ![c] = @ \cap want]
  /\ asked' = asked \cup (IF open THEN {} ELSE AskedFor(c, req) \ req.detail)
  /\ socket' = [socket EXCEPT ![c] =
                  [@ EXCEPT !.pc = IF todo = {} THEN "listen" ELSE "refresh",
                            !.todo = todo]]
  /\ UNCHANGED <<open, flips, requests, cache, lockOf, calls, poll, queue, hand,
                 told, dropped>>

RefreshDetail(c, s) ==
  /\ socket[c].pc = "refresh"
  /\ s \in socket[c].todo
  /\ Begin(c, s, TRUE)
  /\ socket' = [socket EXCEPT ![c].todo = @ \ {s}]
  /\ UNCHANGED <<open, flips, requests, cache, asked, poll, sub, queue, pending,
                 status, hand, shown, owed, told, lost, dropped>>

Listen(c) ==
  /\ socket[c].pc = "refresh"
  /\ socket[c].todo = {}
  /\ calls[c].pc = "idle"
  /\ socket' = [socket EXCEPT ![c].pc = "listen"]
  /\ UNCHANGED <<open, flips, requests, cache, lockOf, asked, calls, poll, sub,
                 queue, pending, status, hand, shown, owed, told, lost, dropped>>

(* unsubscribe: what only this client wanted is forgotten, and its lock     *)
(* object unless that is held; a call that failed has released its lock     *)
(* before.  The mutants forget what others want, or locks that are held.    *)
UnreferencedMutant(c) == {s \in Codes : cache[s].seq # 0 /\ s \in Wants(c)}

Unreferenced(c) ==
  {s \in Codes : cache[s].seq # 0 /\ \A d \in Clients \ {c} : s \notin Wants(d)}

FreeLocksMutant(S) == {s \in S : lockOf[s] # 0}

StillHeld(l) == \E f \in Callers : calls'[f].pc = "read" /\ calls'[f].lock = l

FreeLocks(S) == {s \in S : lockOf[s] # 0 /\ ~StillHeld(lockOf[s])}

Unsubscribe(c) ==
  LET gone == Unreferenced(c)
      reset(f, zero) == [f EXCEPT ![c] = [s \in Codes |-> zero]]
  IN
  /\ sub' = [sub EXCEPT ![c] = NoSub]
  /\ queue' = [queue EXCEPT ![c] = <<>>]
  /\ pending' = reset(pending, 0)
  /\ status' = reset(status, FALSE)
  /\ shown' = reset(shown, 0)
  /\ owed' = reset(owed, 0)
  /\ lost' = [lost EXCEPT ![c] = {}]
  /\ hand' = [hand EXCEPT ![c] = NoEvent]
  /\ cache' = [s \in Codes |-> IF s \in gone THEN Nothing ELSE cache[s]]
  /\ lockOf' = [s \in Codes |-> IF s \in FreeLocks(gone) THEN 0 ELSE lockOf[s]]
  /\ dropped' = (dropped \/ \E s \in gone : lockOf[s] # 0 /\ Awaited(lockOf[s])
                                            /\ ~StillHeld(lockOf[s]))
  /\ socket' = [socket EXCEPT ![c] = NoSocket]

Disconnect(c) ==
  /\ socket[c].pc \in {"listen", "ack"}
  /\ UNCHANGED <<open, flips, requests, asked, calls, poll, told>>
  /\ Unsubscribe(c)

(* A refresh that fails in the handler ends the stream.                     *)
StreamFails(c) ==
  /\ calls[c].pc = "read"
  /\ calls' = [calls EXCEPT ![c] = NoCall]
  /\ Unsubscribe(c)
  /\ UNCHANGED <<open, flips, requests, asked, poll, told>>

-----------------------------------------------------------------------------
MarketFlips ==
  /\ flips < MaxFlips
  /\ open' = ~open
  /\ flips' = flips + 1
  /\ UNCHANGED <<requests, cache, lockOf, asked, calls, poll, socket, sub, queue,
                 pending, status, hand, shown, owed, told, lost, dropped>>

BrokerInit ==
  /\ open \in BOOLEAN
  /\ flips = 0
  /\ requests = 0
  /\ cache = [s \in Codes |-> Nothing]
  /\ lockOf = [s \in Codes |-> 0]
  /\ asked = {}
  /\ calls = [f \in Callers |-> NoCall]
  /\ poll = NoPoll
  /\ socket = [c \in Clients |-> NoSocket]
  /\ sub = [c \in Clients |-> NoSub]
  /\ queue = [c \in Clients |-> <<>>]
  /\ pending = [c \in Clients |-> [s \in Codes |-> 0]]
  /\ status = [c \in Clients |-> [s \in Codes |-> FALSE]]
  /\ hand = [c \in Clients |-> NoEvent]
  /\ shown = [c \in Clients |-> [s \in Codes |-> 0]]
  /\ owed = [c \in Clients |-> [s \in Codes |-> 0]]
  /\ told = {}
  /\ lost = [c \in Clients |-> {}]
  /\ dropped = FALSE

BrokerNext ==
  \/ \E f \in Callers : Enter(f) \/ Refreshed(f) \/ RefreshFails(f)
  \/ \E f \in Readers : Request(f)
  \/ PollBatch \/ PollPublish \/ PollTasks \/ PollEnds
  \/ \E s \in Codes : PollTask(s)
  \/ \E c \in Clients :
       \/ TakeKey(c) \/ SendEvent(c)
       \/ \E watch \in SUBSET Codes, detail \in {{}} \cup {{s} : s \in Codes} :
            Receive(c, watch, detail)
       \/ Subscribe(c)
       \/ \E s \in Codes : RefreshDetail(c, s)
       \/ Listen(c) \/ Disconnect(c) \/ StreamFails(c)
  \/ MarketFlips

BrokerSpec == BrokerInit /\ [][BrokerNext]_brokerVars

-----------------------------------------------------------------------------
(* What every variable holds.                                               *)
PerCode(T) == [Clients -> [Codes -> T]]
Subs       == [watch : SUBSET Codes, detail : SUBSET Codes]
Refreshing == [pc : {"wait", "read"}, code : Codes, full : BOOLEAN,
               lock : 1..MaxLocks]

(* The shape of the broker, its refreshes and its clients.                  *)
BrokerTypeOK ==
  /\ open \in BOOLEAN /\ dropped \in BOOLEAN
  /\ flips \in 0..MaxFlips /\ requests \in 0..MaxRequests
  /\ cache \in [Codes -> [seq : 0..MaxSequence, full : BOOLEAN]]
  /\ lockOf \in [Codes -> 0..MaxLocks]
  /\ asked \in SUBSET Codes /\ told \in SUBSET Codes
  /\ calls \in [Callers -> {NoCall} \cup Refreshing]
  /\ poll \in [pc : {"idle", "read", "tasks"}, due : SUBSET Codes,
               full : SUBSET Codes]
  /\ socket \in [Clients ->
       [pc : {"listen", "ack", "refresh"}, req : Subs,
        todo : SUBSET Codes]]
  /\ sub \in [Clients -> Subs]
  /\ queue \in [Clients -> Seq(Codes \X Kinds)]
  /\ \A c \in Clients : Len(queue[c]) <= MaxQueue
  /\ {pending, shown, owed} \subseteq PerCode(0..MaxSequence)
  /\ status \in PerCode(BOOLEAN)
  /\ hand \in [Clients -> [code : Codes \cup {NoCode}, seq : 0..MaxSequence]]
  /\ lost \in [Clients -> SUBSET Codes]

(* The last snapshot of a code that was published to a client waits for it  *)
(* under its key, is in the hand of its handler or was sent.                *)
Reaches(c, s) ==
  \/ pending[c][s] = owed[c][s] /\ <<s, "snapshot">> \in Range(queue[c])
  \/ hand[c] = [code |-> s, seq |-> owed[c][s]]
  \/ shown[c][s] = owed[c][s]

(* The exception, lost, is an event that was taken while a subscription     *)
(* came in (market_api.py 1164: the event task is done and is ignored).     *)
(* Otherwise it reaches the client, whatever was published, withdrawn or    *)
(* subscribed in between.                                                   *)
OnItsWay == \A c \in Clients : \A s \in Codes \ lost[c] : Reaches(c, s)

(* While a client wants a code it never gets a snapshot with a lower        *)
(* sequence number than one it got before: the numbers of a code that       *)
(* somebody else stopped watching do not start again.                       *)
NeverOlder ==
  [][\A c \in Clients, s \in Codes :
       s \in Wants(c) /\ s \in Wants(c)' => shown'[c][s] >= shown[c][s]]_brokerVars

(* A code is refreshed by one caller at a time, although lock objects come  *)
(* and go with the subscribers, unless a lock was dropped in the moment     *)
(* between its release and the start of the caller that waited for it.      *)
SingleRefresh ==
  dropped \/ \A f, g \in Callers :
    Inside(f) /\ Inside(g) /\ calls[f].code = calls[g].code => f = g

(* In a market that stays closed nobody polls: a code that a client wants   *)
(* is known, was reported as failed, or one of the asynchronous parties is  *)
(* about to read it.                                                        *)
WillBeRead(s) ==
  \/ cache[s].seq # 0 \/ s \in told
  \/ s \in asked \/ s \in poll.due \/ calls[s].pc # "idle"
  \/ \E c \in Clients : s \in socket[c].todo \/ calls[c].code = s

ClosedIsRead == flips = 0 /\ ~open => \A s \in Wanted : WillBeRead(s)
==============================================================================
