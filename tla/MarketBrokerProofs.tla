--------------------------- MODULE MarketBrokerProofs ---------------------------
(***************************************************************************)
(* Proofs about the market data broker: what its variables hold, that a    *)
(* code is read by one caller at a time, and that every snapshot reaches   *)
(* the clients that want its code, in order.                               *)
(***************************************************************************)
EXTENDS MarketBroker, SelectionProofs

(* What a list holds, in the two notations.                                 *)
LEMMA RangeContains ==
  ASSUME NEW T, NEW s \in Seq(T)
  PROVE  /\ \A x : x \in Range(s) <=> Contains(s, x)
         /\ Range(s) \subseteq T
BY DEF Range, Contains

(* What is published of a list of codes: the new sequence number of a code, *)
(* or 0 for a failure.                                                      *)
NewsOf(codes, bad) ==
  [i \in DOMAIN codes |->
     <<codes[i], IF codes[i] \in bad THEN 0 ELSE cache[codes[i]].seq + 1>>]

(* What storing a list of codes does, client by client.                     *)
StoreShape(codes, bad, full) ==
  LET stored == Range(codes) \ bad IN
  /\ \A s \in stored : cache[s].seq + 1 \in 1..MaxSequence
  /\ cache' = [s \in Codes |->
                 IF s \in stored
                 THEN [seq |-> cache[s].seq + 1, full |-> s \in full]
                 ELSE cache[s]]
  /\ told' = (told \cup (Range(codes) \cap bad)) \ stored
  /\ pending' = [c \in Clients |-> [s \in Codes |->
                   IF s \in stored \cap Wants(c) THEN cache[s].seq + 1
                   ELSE pending[c][s]]]
  /\ owed' = [c \in Clients |-> [s \in Codes |->
                IF s \in stored \cap Wants(c) THEN cache[s].seq + 1
                ELSE owed[c][s]]]
  /\ lost' = [c \in Clients |-> {s \in lost[c] : s \notin stored \cap Wants(c)}]
  /\ status' \in PerCode(BOOLEAN)
  /\ \A c \in Clients :
       /\ queue'[c] \in Seq(Codes \X Kinds)
       /\ Len(queue'[c]) <= MaxQueue
       /\ \A k : Contains(queue[c], k) => Contains(queue'[c], k)
       /\ \A s \in stored \cap Wants(c) :
            pending[c][s] = 0 => Contains(queue'[c], <<s, "snapshot">>)
  /\ DOMAIN queue' = Clients

(* A client hears of the codes it wants, and of a code it has no snapshot   *)
(* of yet a key is queued.                                                  *)
LEMMA NewsFacts ==
  ASSUME BrokerTypeOK, NEW codes \in Seq(Codes), NEW bad,
         \A s \in Range(codes) \ bad : cache[s].seq + 1 <= MaxSequence,
         NEW c \in Clients
  PROVE  LET news == NewsOf(codes, bad) IN
         /\ news \in Seq(Codes \X Nat)
         /\ \A n : n \in Range(news) <=>
              \E s \in Range(codes) :
                n = <<s, IF s \in bad THEN 0 ELSE cache[s].seq + 1>>
         /\ \A n : n \in Range(Heard(c, news)) <=>
              n \in Range(news) /\ n[1] \in Wants(c)
         /\ NewKeys(c, news) \in Seq(Codes \X Kinds)
         /\ \A n \in Range(Heard(c, news)) :
              ~IsPending(c, KeyOf(n)) => Contains(NewKeys(c, news), KeyOf(n))
<1> DEFINE news == NewsOf(codes, bad)
           added == Keep(Heard(c, news),
                         {n \in Range(news) : ~IsPending(c, KeyOf(n))})
<1>0. cache \in [Codes -> [seq : 0..MaxSequence, full : BOOLEAN]] /\ MaxSequence \in Nat
  BY BrokerAssumption DEF BrokerTypeOK
<1>1. news \in Seq(Codes \X Nat) /\ Len(news) = Len(codes)
      /\ \A i \in 1..Len(codes) :
           news[i] = <<codes[i], IF codes[i] \in bad THEN 0 ELSE cache[codes[i]].seq + 1>>
  <2>1. DOMAIN codes = 1..Len(codes) /\ Len(codes) \in Nat
        /\ \A i \in 1..Len(codes) : codes[i] \in Codes
    OBVIOUS
  <2>2. \A s \in Codes : (IF s \in bad THEN 0 ELSE cache[s].seq + 1) \in Nat
    BY <1>0
  <2>3. news = [i \in 1..Len(codes) |->
          <<codes[i], IF codes[i] \in bad THEN 0 ELSE cache[codes[i]].seq + 1>>]
    BY <2>1 DEF NewsOf
  <2>4. news \in [1..Len(codes) -> Codes \X Nat]
    BY <2>1, <2>2, <2>3
  <2>5. \A i \in 1..Len(codes) :
           news[i] = <<codes[i], IF codes[i] \in bad THEN 0 ELSE cache[codes[i]].seq + 1>>
    BY <2>3
  <2> HIDE DEF news
  <2>6. news \in Seq(Codes \X Nat) /\ Len(news) = Len(codes)
    BY <2>1, <2>4
  <2> QED
    BY <2>5, <2>6
<1>2. \A n : n \in Range(news) <=>
        \E s \in Range(codes) :
          n = <<s, IF s \in bad THEN 0 ELSE cache[s].seq + 1>>
  <2>1. DOMAIN codes = 1..Len(codes) /\ DOMAIN news = 1..Len(codes)
    BY <1>1
  <2> HIDE DEF news
  <2> QED
    BY <2>1, <1>1 DEF Range
<1>3. /\ Heard(c, news) \in Seq(Codes \X Nat)
      /\ \A n : n \in Range(Heard(c, news)) <=>
              n \in Range(news) /\ n[1] \in Wants(c)
  <2>1. Heard(c, news) \in Seq(Codes \X Nat)
    BY <1>1, KeepType DEF Heard
  <2>2. \A n : Contains(Heard(c, news), n) <=>
               Contains(news, n) /\ n \in {m \in Range(news) : m[1] \in Wants(c)}
    BY <1>1, KeepContains DEF Heard
  <2>3. \A n : n \in Range(Heard(c, news)) <=> Contains(Heard(c, news), n)
    BY <2>1, RangeContains
  <2>4. \A n : n \in Range(news) <=> Contains(news, n)
    BY <1>1, RangeContains
  <2> QED
    BY <2>1, <2>2, <2>3, <2>4
<1>4. /\ added \in Seq(Codes \X Nat)
      /\ \A n : Contains(added, n) <=>
           Contains(Heard(c, news), n)
           /\ n \in {m \in Range(news) : ~IsPending(c, KeyOf(m))}
  BY <1>3, KeepType, KeepContains
<1>5. \A n \in Codes \X Nat : KeyOf(n) \in Codes \X Kinds
  BY DEF KeyOf, Kinds
<1>6. /\ NewKeys(c, news) \in Seq(Codes \X Kinds)
      /\ \A n : Contains(added, n) => Contains(NewKeys(c, news), KeyOf(n))
  <2> HIDE DEF added
  <2>1. NewKeys(c, news) = [i \in 1..Len(added) |-> KeyOf(added[i])]
    BY DEF NewKeys, added
  <2>2. NewKeys(c, news) \in Seq(Codes \X Kinds) /\ Len(NewKeys(c, news)) = Len(added)
    BY <2>1, <1>4, <1>5
  <2> QED
    BY <2>1, <2>2, <1>4 DEF Contains
<1>7. \A n \in Range(Heard(c, news)) :
        ~IsPending(c, KeyOf(n)) => Contains(NewKeys(c, news), KeyOf(n))
  <2>1. \A n : n \in Range(Heard(c, news)) <=> Contains(Heard(c, news), n)
    BY <1>3, RangeContains
  <2> QED
    BY <2>1, <1>3, <1>4, <1>6
<1> QED
  BY <1>1, <1>2, <1>3, <1>6, <1>7

(* Storing a list of codes has that shape.                                  *)
LEMMA StoreFacts ==
  ASSUME BrokerTypeOK, NEW codes \in Seq(Codes), NEW bad, NEW full,
         Store(codes, bad, full)
  PROVE  StoreShape(codes, bad, full)
<1> DEFINE news == NewsOf(codes, bad)
           stored == Range(codes) \ bad
<1>0. /\ cache \in [Codes -> [seq : 0..MaxSequence, full : BOOLEAN]]
      /\ MaxSequence \in Nat
      /\ queue \in [Clients -> Seq(Codes \X Kinds)]
      /\ status \in PerCode(BOOLEAN)
      /\ lost \in [Clients -> SUBSET Codes]
  BY BrokerAssumption DEF BrokerTypeOK
<1>1. Range(codes) \subseteq Codes
  BY RangeContains
<1>2. /\ \A s \in stored : cache[s].seq + 1 \in 1..MaxSequence
      /\ cache' = [s \in Codes |->
                 IF s \in stored
                 THEN [seq |-> cache[s].seq + 1, full |-> s \in full]
                 ELSE cache[s]]
      /\ told' = (told \cup (Range(codes) \cap bad)) \ stored
      /\ Publish(news)
  BY <1>0, <1>1 DEF Store, NewsOf
<1>3. ASSUME NEW c \in Clients
      PROVE  /\ news \in Seq(Codes \X Nat)
             /\ \A n : n \in Range(news) <=>
                  \E s \in Range(codes) :
                    n = <<s, IF s \in bad THEN 0 ELSE cache[s].seq + 1>>
             /\ \A n : n \in Range(Heard(c, news)) <=>
                  n \in Range(news) /\ n[1] \in Wants(c)
             /\ NewKeys(c, news) \in Seq(Codes \X Kinds)
             /\ \A n \in Range(Heard(c, news)) :
                  ~IsPending(c, KeyOf(n)) => Contains(NewKeys(c, news), KeyOf(n))
  BY <1>2, NewsFacts
<1> HIDE DEF news
<1>4. \A c \in Clients, s \in Codes :
        (\E n \in Sequences(Heard(c, news)) : n[1] = s) <=> s \in stored \cap Wants(c)
  <2> TAKE c \in Clients, s \in Codes
  <2>1. ASSUME NEW n \in Sequences(Heard(c, news)), n[1] = s
        PROVE  s \in stored \cap Wants(c)
    <3>1. n \in Range(news) /\ n[1] \in Wants(c) /\ n[2] # 0
      BY <2>1, <1>3 DEF Sequences
    <3>2. PICK r \in Range(codes) :
            n = <<r, IF r \in bad THEN 0 ELSE cache[r].seq + 1>>
      BY <3>1, <1>3
    <3> QED
      BY <2>1, <3>1, <3>2
  <2>2. ASSUME s \in stored \cap Wants(c)
        PROVE  \E n \in Sequences(Heard(c, news)) : n[1] = s
    <3>1. <<s, cache[s].seq + 1>> \in Range(Heard(c, news))
      BY <1>1, <1>3, <2>2
    <3>2. cache[s].seq + 1 # 0
      BY <1>0
    <3> QED
      BY <3>1, <3>2 DEF Sequences
  <2> QED
    BY <2>1, <2>2
<1>5. \A s \in stored : Clients # {} =>
        (CHOOSE n \in Sequences(news) : n[1] = s)[2] = cache[s].seq + 1
  <2> TAKE s \in stored
  <2> HAVE Clients # {}
  <2>1. <<s, cache[s].seq + 1>> \in Sequences(news)
    BY <1>0, <1>1, <1>3 DEF Sequences
  <2>2. \A n \in Sequences(news) : n[1] = s => n[2] = cache[s].seq + 1
    BY <1>0, <1>1, <1>3 DEF Sequences
  <2> DEFINE P(n) == n \in Sequences(news) /\ n[1] = s
  <2>3. P(CHOOSE n : P(n))
    <3>1. P(<<s, cache[s].seq + 1>>)
      BY <2>1
    <3> HIDE DEF P
    <3> QED
      BY <3>1
  <2> QED
    BY <2>2, <2>3
<1>6. pending' = [c \in Clients |-> [s \in Codes |->
                   IF s \in stored \cap Wants(c) THEN cache[s].seq + 1
                   ELSE pending[c][s]]]
  BY <1>2, <1>4, <1>5 DEF Publish, PendingAfter
<1>7. owed' = [c \in Clients |-> [s \in Codes |->
                IF s \in stored \cap Wants(c) THEN cache[s].seq + 1
                ELSE owed[c][s]]]
  BY <1>2, <1>4, <1>5 DEF Publish
<1>8. lost' = [c \in Clients |-> {s \in lost[c] : s \notin stored \cap Wants(c)}]
  BY <1>0, <1>2, <1>4 DEF Publish
<1>9. status' \in PerCode(BOOLEAN)
  BY <1>0, <1>2, Zenon DEF Publish, PerCode
<1>10. ASSUME NEW c \in Clients
       PROVE  /\ queue'[c] \in Seq(Codes \X Kinds)
              /\ Len(queue'[c]) <= MaxQueue
              /\ \A k : Contains(queue'[c], k) <=>
                   Contains(queue[c], k) \/ Contains(NewKeys(c, news), k)
  <2>1. /\ queue[c] \in Seq(Codes \X Kinds)
        /\ queue'[c] = queue[c] \o NewKeys(c, news)
        /\ Len(queue[c]) + Len(NewKeys(c, news)) <= MaxQueue
    BY <1>0, <1>2 DEF Publish
  <2>2. NewKeys(c, news) \in Seq(Codes \X Kinds)
    BY <1>3
  <2> QED
    BY <2>1, <2>2, ConcatFacts, ContainsConcat
<1>11. ASSUME NEW c \in Clients, NEW s \in stored \cap Wants(c), pending[c][s] = 0
       PROVE  Contains(queue'[c], <<s, "snapshot">>)
  <2>1. <<s, cache[s].seq + 1>> \in Range(Heard(c, news))
    BY <1>0, <1>1, <1>3
  <2>2. KeyOf(<<s, cache[s].seq + 1>>) = <<s, "snapshot">>
    BY <1>0, <1>1 DEF KeyOf
  <2>3. ~IsPending(c, <<s, "snapshot">>)
    BY <1>11 DEF IsPending
  <2> QED
    BY <1>3, <1>10, <2>1, <2>2, <2>3
<1>12. DOMAIN queue' = Clients
  BY <1>2 DEF Publish
<1> QED
  BY <1>2, <1>6, <1>7, <1>8, <1>9, <1>10, <1>11, <1>12 DEF StoreShape

-----------------------------------------------------------------------------
(* A caller that has the lock returns what is cached or reads.              *)
LEMMA EnteredType ==
  ASSUME NEW f, NEW call \in Refreshing, NEW next \in Entered(f, call)
  PROVE  \/ next = NoCall /\ cache[call.code].seq # 0
         \/ /\ next = [call EXCEPT !.pc = "read"]
            /\ next \in Refreshing
<1>1. [call EXCEPT !.pc = "read"] \in Refreshing
  BY DEF Refreshing
<1>2. \/ next = NoCall /\ cache[call.code].seq # 0
      \/ next = [call EXCEPT !.pc = "read"]
  BY DEF Entered
<1> QED
  BY <1>1, <1>2

(* What the start of a refresh does: the lock object of the code, with the  *)
(* call that waits for it, has it or has returned.                          *)
BeginShape(f, s, full, l) ==
  /\ calls[f].pc = "idle"
  /\ l \in 1..MaxLocks
  /\ \/ l = lockOf[s]
     \/ lockOf[s] = 0 /\ FreshLock(l)
  /\ lockOf' = [lockOf EXCEPT ![s] = l]
  /\ \E next \in {NoCall} \cup Refreshing :
       /\ calls' = [calls EXCEPT ![f] = next]
       /\ \/ next = [pc |-> "wait", code |-> s, full |-> full, lock |-> l]
          \/ /\ next = [pc |-> "read", code |-> s, full |-> full, lock |-> l]
             /\ ~Held(l)
          \/ next = NoCall /\ cache[s].seq # 0

(* Beginning a refresh has that shape.                                      *)
LEMMA BeginFacts ==
  ASSUME BrokerTypeOK, NEW f \in Callers, NEW s \in Codes, NEW full \in BOOLEAN,
         Begin(f, s, full)
  PROVE  \E l \in 1..MaxLocks : BeginShape(f, s, full, l)
<1>0. lockOf \in [Codes -> 0..MaxLocks] /\ MaxLocks \in Nat
  BY BrokerAssumption DEF BrokerTypeOK
<1> DEFINE l == IF lockOf[s] # 0 THEN lockOf[s]
                ELSE CHOOSE k \in 1..MaxLocks : FreshLock(k)
           call == [pc |-> "wait", code |-> s, full |-> full, lock |-> l]
<1>1. /\ calls[f].pc = "idle"
      /\ lockOf[s] = 0 => \E k \in 1..MaxLocks : FreshLock(k)
      /\ lockOf' = [lockOf EXCEPT ![s] = l]
      /\ \E next \in IF Held(l) \/ Awaited(l) THEN {call} ELSE Entered(f, call) :
           calls' = [calls EXCEPT ![f] = next]
  BY DEF Begin
<1>2. l \in 1..MaxLocks /\ (l = lockOf[s] \/ (lockOf[s] = 0 /\ FreshLock(l)))
  BY <1>0, <1>1
<1> HIDE DEF l
<1>3. call \in Refreshing
  BY <1>2, BrokerAssumption DEF Refreshing
<1>4. PICK next \in IF Held(l) \/ Awaited(l) THEN {call} ELSE Entered(f, call) :
        calls' = [calls EXCEPT ![f] = next]
  BY <1>1
<1>5. CASE Held(l) \/ Awaited(l)
  BY <1>1, <1>2, <1>3, <1>4, <1>5 DEF BeginShape
<1>6. CASE ~(Held(l) \/ Awaited(l))
  <2>1. next \in Entered(f, call)
    BY <1>4, <1>6
  <2>2. \/ next = NoCall /\ cache[call.code].seq # 0
        \/ /\ next = [call EXCEPT !.pc = "read"]
           /\ next \in Refreshing
    BY <2>1, <1>3, EnteredType
  <2> QED
    BY <1>1, <1>2, <1>4, <1>6, <2>2 DEF BeginShape
<1> QED
  BY <1>5, <1>6

(* The types hold at first.                                                 *)
LEMMA BrokerTypeInit == BrokerInit => BrokerTypeOK
<1> SUFFICES ASSUME BrokerInit PROVE BrokerTypeOK
  OBVIOUS
<1>1. /\ cache \in [Codes -> [seq : 0..MaxSequence, full : BOOLEAN]]
      /\ lockOf \in [Codes -> 0..MaxLocks]
      /\ calls \in [Callers -> {NoCall} \cup Refreshing]
      /\ flips \in 0..MaxFlips /\ requests \in 0..MaxRequests
  BY BrokerAssumption DEF BrokerInit, Nothing
<1>2. /\ poll \in [pc : {"idle", "read", "tasks"}, due : SUBSET Codes,
                   full : SUBSET Codes]
      /\ socket \in [Clients -> [pc : {"listen", "ack", "refresh"}, req : Subs,
                                todo : SUBSET Codes]]
      /\ sub \in [Clients -> Subs]
  BY DEF BrokerInit, NoPoll, NoSub, NoSocket, Subs
<1>3. /\ queue \in [Clients -> Seq(Codes \X Kinds)]
      /\ \A c \in Clients : Len(queue[c]) <= MaxQueue
      /\ status \in PerCode(BOOLEAN)
  BY BrokerAssumption DEF BrokerInit, PerCode
<1>4. pending \in PerCode(0..MaxSequence) /\ shown \in PerCode(0..MaxSequence)
      /\ owed \in PerCode(0..MaxSequence)
      /\ hand \in [Clients -> [code : Codes \cup {NoCode}, seq : 0..MaxSequence]]
  BY BrokerAssumption DEF BrokerInit, PerCode, NoEvent
<1> QED
  BY <1>1, <1>2, <1>3, <1>4 DEF BrokerInit, BrokerTypeOK

(* The shape of the broker, in the parts that steps change together.        *)
CallsType ==
  /\ lockOf \in [Codes -> 0..MaxLocks]
  /\ calls \in [Callers -> {NoCall} \cup Refreshing]
PollType ==
  /\ poll \in [pc : {"idle", "read", "tasks"}, due : SUBSET Codes,
               full : SUBSET Codes]
  /\ asked \in SUBSET Codes
SocketType ==
  /\ socket \in [Clients -> [pc : {"listen", "ack", "refresh"}, req : Subs,
                            todo : SUBSET Codes]]
  /\ sub \in [Clients -> Subs]
FlagType ==
  /\ open \in BOOLEAN /\ dropped \in BOOLEAN
  /\ flips \in 0..MaxFlips /\ requests \in 0..MaxRequests
HandType ==
  /\ hand \in [Clients -> [code : Codes \cup {NoCode}, seq : 0..MaxSequence]]
  /\ shown \in PerCode(0..MaxSequence)
NewsType ==
  /\ cache \in [Codes -> [seq : 0..MaxSequence, full : BOOLEAN]]
  /\ told \in SUBSET Codes
  /\ queue \in [Clients -> Seq(Codes \X Kinds)]
  /\ \A c \in Clients : Len(queue[c]) <= MaxQueue
  /\ pending \in PerCode(0..MaxSequence)
  /\ owed \in PerCode(0..MaxSequence)
  /\ status \in PerCode(BOOLEAN)
  /\ lost \in [Clients -> SUBSET Codes]

(* The parts make up the whole, before a step and after it.                 *)
LEMMA TypeParts ==
  /\ BrokerTypeOK <=> CallsType /\ PollType /\ SocketType /\ FlagType /\ HandType
                      /\ NewsType
  /\ BrokerTypeOK' <=> CallsType' /\ PollType' /\ SocketType' /\ FlagType'
                       /\ HandType' /\ NewsType'
BY DEF BrokerTypeOK, CallsType, PollType, SocketType, FlagType, HandType, NewsType
(* Every store of a list of codes keeps the types.                          *)
LEMMA StoreType ==
  ASSUME BrokerTypeOK, NEW codes \in Seq(Codes), NEW bad,
         NEW full, Store(codes, bad, full)
  PROVE  NewsType'
<1>1. StoreShape(codes, bad, full)
  BY StoreFacts
<1>2. Range(codes) \subseteq Codes
  BY RangeContains
<1>3. /\ cache \in [Codes -> [seq : 0..MaxSequence, full : BOOLEAN]]
      /\ MaxSequence \in Nat /\ told \subseteq Codes
      /\ pending \in PerCode(0..MaxSequence) /\ owed \in PerCode(0..MaxSequence)
      /\ lost \in [Clients -> SUBSET Codes]
  BY BrokerAssumption DEF BrokerTypeOK
<1>4. queue' \in [Clients -> Seq(Codes \X Kinds)]
  <2>1. queue' = [c \in Clients |-> queue[c] \o NewKeys(c, NewsOf(codes, bad))]
    BY DEF Store, Publish, NewsOf
  <2> QED
    BY <1>1, <2>1 DEF StoreShape
<1>5. cache' \in [Codes -> [seq : 0..MaxSequence, full : BOOLEAN]]
  BY <1>1, <1>2, <1>3 DEF StoreShape
<1>6. told' \in SUBSET Codes /\ lost' \in [Clients -> SUBSET Codes]
  BY <1>1, <1>2, <1>3 DEF StoreShape
<1>7. pending' \in PerCode(0..MaxSequence) /\ owed' \in PerCode(0..MaxSequence)
  BY <1>1, <1>2, <1>3 DEF StoreShape, PerCode
<1> QED
  BY <1>1, <1>4, <1>5, <1>6, <1>7 DEF StoreShape, NewsType

(* One entry of one client.                                                 *)
LEMMA PerCodeSet ==
  ASSUME NEW T, NEW f \in PerCode(T), NEW c, NEW s, NEW v \in T, NEW g,
         g = [f EXCEPT ![c] = [@ EXCEPT ![s] = v]]
  PROVE  g \in PerCode(T)
<1>1. \A d \in Clients : f[d] \in [Codes -> T]
  BY DEF PerCode
<1>2. \A d \in Clients : [f[d] EXCEPT ![s] = v] \in [Codes -> T]
  BY <1>1
<1> QED
  BY <1>1, <1>2 DEF PerCode

(* Beginning a refresh keeps the types of locks and calls.                  *)
LEMMA BeginType ==
  ASSUME BrokerTypeOK, NEW f \in Callers, NEW s \in Codes, NEW full \in BOOLEAN,
         Begin(f, s, full)
  PROVE  CallsType'
<1>1. PICK l \in 1..MaxLocks : BeginShape(f, s, full, l)
  BY BeginFacts
<1>2. CallsType /\ MaxLocks \in Nat
  BY TypeParts, BrokerAssumption
<1> QED
  BY <1>1, <1>2 DEF BeginShape, CallsType

(* A client that leaves, whatever becomes of its call.                      *)
LEMMA UnsubscribeType ==
  ASSUME BrokerTypeOK, NEW c \in Clients, Unsubscribe(c),
         calls' \in [Callers -> {NoCall} \cup Refreshing],
         UNCHANGED <<open, flips, requests, asked, poll, told>>
  PROVE  BrokerTypeOK'
<1> USE BrokerAssumption
<1>0. CallsType /\ PollType /\ SocketType /\ FlagType /\ HandType /\ NewsType
  BY TypeParts
<1>1. CallsType' /\ PollType'
  BY <1>0 DEF Unsubscribe, CallsType, PollType
<1>2. SocketType'
  BY <1>0 DEF Unsubscribe, SocketType, NoSocket, NoSub, Subs
<1>3. FlagType'
  <2>1. dropped' \in BOOLEAN
    BY <1>0, Zenon DEF Unsubscribe, FlagType
  <2> QED
    BY <1>0, <2>1 DEF FlagType
<1>4. HandType'
  BY <1>0 DEF Unsubscribe, HandType, NoEvent, PerCode
<1>5. NewsType'
  <2>1. cache' \in [Codes -> [seq : 0..MaxSequence, full : BOOLEAN]]
    BY <1>0 DEF Unsubscribe, NewsType, Nothing
  <2>2. /\ queue' \in [Clients -> Seq(Codes \X Kinds)]
        /\ \A d \in Clients : Len(queue'[d]) <= MaxQueue
    BY <1>0 DEF Unsubscribe, NewsType
  <2>3. /\ pending' \in PerCode(0..MaxSequence)
        /\ owed' \in PerCode(0..MaxSequence)
        /\ lost' \in [Clients -> SUBSET Codes]
    BY <1>0 DEF Unsubscribe, NewsType, PerCode
  <2>4. status' \in PerCode(BOOLEAN)
    BY <1>0 DEF Unsubscribe, NewsType, PerCode
  <2> QED
    BY <1>0, <2>1, <2>2, <2>3, <2>4 DEF NewsType
<1> QED
  BY <1>1, <1>2, <1>3, <1>4, <1>5, TypeParts

(* Every step keeps the types.                                              *)
LEMMA BrokerTypeStep ==
  ASSUME BrokerTypeOK, [BrokerNext]_brokerVars
  PROVE  BrokerTypeOK'
<1> USE BrokerAssumption
<1>0. CallsType /\ PollType /\ SocketType /\ FlagType /\ HandType /\ NewsType
  BY TypeParts
<1>a. /\ \A f \in Codes : f \in Callers
      /\ \A f \in Readers : f \in Callers
      /\ \A f \in Clients : f \in Callers
  BY DEF Callers
<1>b. /\ UNCHANGED <<lockOf, calls>> => CallsType'
      /\ UNCHANGED <<poll, asked>> => PollType'
      /\ UNCHANGED <<socket, sub>> => SocketType'
      /\ UNCHANGED <<open, flips, requests, dropped>> => FlagType'
      /\ UNCHANGED <<hand, shown>> => HandType'
      /\ UNCHANGED <<cache, told, queue, pending, owed, status, lost>> => NewsType'
  BY <1>0 DEF CallsType, PollType, SocketType, FlagType, HandType, NewsType
<1>c. \A f \in Callers : calls[f].pc # "idle" => calls[f] \in Refreshing
  BY <1>0 DEF CallsType, NoCall
<1>d. SUFFICES CallsType' /\ PollType' /\ SocketType' /\ FlagType' /\ HandType'
               /\ NewsType'
  BY TypeParts
<1>1. ASSUME NEW f \in Callers, Enter(f)
      PROVE  CallsType' /\ PollType' /\ SocketType' /\ FlagType' /\ HandType'
             /\ NewsType'
  <2>1. PICK next \in Entered(f, calls[f]) : calls' = [calls EXCEPT ![f] = next]
    BY <1>1 DEF Enter
  <2>2. next \in {NoCall} \cup Refreshing
    BY <1>c, <1>1, <2>1, EnteredType DEF Enter
  <2>3. CallsType'
    BY <1>0, <1>1, <2>1, <2>2 DEF Enter, CallsType
  <2> QED
    BY <1>b, <1>1, <2>3 DEF Enter
<1>2. ASSUME NEW f \in Callers, Refreshed(f)
      PROVE  CallsType' /\ PollType' /\ SocketType' /\ FlagType' /\ HandType'
             /\ NewsType'
  <2>1. calls[f] \in Refreshing
    BY <1>c, <1>2 DEF Refreshed
  <2>2. <<calls[f].code>> \in Seq(Codes)
    BY <2>1 DEF Refreshing
  <2>3. NewsType'
    BY <1>2, <2>2, StoreType DEF Refreshed
  <2>4. CallsType'
    BY <1>0, <1>2 DEF Refreshed, CallsType
  <2> QED
    BY <1>b, <1>2, <2>3, <2>4 DEF Refreshed
<1>3. ASSUME NEW f \in Callers, RefreshFails(f)
      PROVE  CallsType' /\ PollType' /\ SocketType' /\ FlagType' /\ HandType'
             /\ NewsType'
  <2>1. NewsType'
    <3>1. CASE f \in Codes
      <4>1. <<f>> \in Seq(Codes)
        BY <3>1
      <4> QED
        BY <1>3, <3>1, <4>1, StoreType DEF RefreshFails
    <3>2. CASE f \notin Codes
      BY <1>b, <1>3, <3>2 DEF RefreshFails
    <3> QED
      BY <3>1, <3>2
  <2>2. CallsType'
    BY <1>0, <1>3 DEF RefreshFails, CallsType
  <2> QED
    BY <1>b, <1>3, <2>1, <2>2 DEF RefreshFails
<1>4. ASSUME NEW f \in Readers, Request(f)
      PROVE  CallsType' /\ PollType' /\ SocketType' /\ FlagType' /\ HandType'
             /\ NewsType'
  <2>1. CallsType'
    BY <1>a, <1>4, BeginType DEF Request
  <2> QED
    BY <1>b, <1>4, <2>1 DEF Request
<1>5. ASSUME PollBatch \/ PollTasks
      PROVE  CallsType' /\ PollType' /\ SocketType' /\ FlagType' /\ HandType'
             /\ NewsType'
  <2>0. Wanted \subseteq Codes /\ Detailed \subseteq Codes
    BY <1>0 DEF Wanted, Wants, Detailed, SocketType, Subs
  <2>1. asked' = {} /\ \E due \in SUBSET Codes :
          poll' \in {NoPoll, [pc |-> "read", due |-> due, full |-> Detailed],
                     [pc |-> "tasks", due |-> due, full |-> Detailed]}
    BY <1>0, <1>5, <2>0 DEF PollBatch, PollTasks, PollType
  <2>2. PollType'
    BY <2>0, <2>1 DEF PollType, NoPoll
  <2> QED
    BY <1>b, <1>5, <2>2 DEF PollBatch, PollTasks
<1>6. ASSUME PollPublish
      PROVE  CallsType' /\ PollType' /\ SocketType' /\ FlagType' /\ HandType'
             /\ NewsType'
  <2>1. PICK codes \in SetToSeqs(poll.due), bad \in SUBSET poll.due :
          Store(codes, bad, poll.full)
    BY <1>6 DEF PollPublish
  <2>2. poll.due \subseteq Codes /\ IsFiniteSet(poll.due)
    BY <1>0, FS_Subset DEF PollType
  <2>3. codes \in Seq(poll.due)
    BY <2>1, <2>2, ListingHas
  <2>4. codes \in Seq(Codes)
    BY <2>2, <2>3
  <2>5. NewsType'
    BY <2>1, <2>4, StoreType
  <2>6. PollType'
    BY <1>0, <1>6 DEF PollPublish, PollType, NoPoll
  <2> QED
    BY <1>b, <1>6, <2>5, <2>6 DEF PollPublish
<1>7. ASSUME NEW s \in Codes, PollTask(s)
      PROVE  CallsType' /\ PollType' /\ SocketType' /\ FlagType' /\ HandType'
             /\ NewsType'
  <2>0. (s \in poll.full) \in BOOLEAN
    OBVIOUS
  <2>1. CallsType'
    BY <1>a, <1>7, <2>0, BeginType DEF PollTask
  <2>2. PollType'
    BY <1>0, <1>7 DEF PollTask, PollType
  <2> QED
    BY <1>b, <1>7, <2>1, <2>2 DEF PollTask
<1>8. ASSUME PollEnds
      PROVE  CallsType' /\ PollType' /\ SocketType' /\ FlagType' /\ HandType'
             /\ NewsType'
  <2>1. PollType'
    BY <1>0, <1>8 DEF PollEnds, PollType, NoPoll
  <2> QED
    BY <1>b, <1>8, <2>1 DEF PollEnds
<1>9. ASSUME NEW c \in Clients, TakeKey(c)
      PROVE  CallsType' /\ PollType' /\ SocketType' /\ FlagType' /\ HandType'
             /\ NewsType'
  <2>0. /\ queue[c] \in Seq(Codes \X Kinds) /\ queue[c] # <<>>
        /\ Len(queue[c]) <= MaxQueue
    BY <1>0, <1>9 DEF TakeKey, NewsType
  <2>1. /\ Head(queue[c]) \in Codes \X Kinds /\ Tail(queue[c]) \in Seq(Codes \X Kinds)
        /\ Len(Tail(queue[c])) <= MaxQueue
    BY <2>0
  <2>2. PICK s \in Codes, k \in Kinds : Head(queue[c]) = <<s, k>>
    BY <2>1
  <2>3. HandType'
    <3>1. /\ pending[c][s] \in 0..MaxSequence
          /\ [code |-> s, seq |-> pending[c][s]] \in
               [code : Codes \cup {NoCode}, seq : 0..MaxSequence]
          /\ [code |-> s, seq |-> 0] \in
               [code : Codes \cup {NoCode}, seq : 0..MaxSequence]
          /\ NoEvent \in [code : Codes \cup {NoCode}, seq : 0..MaxSequence]
      BY <1>0 DEF NewsType, PerCode, NoEvent
    <3>2. \E e \in {NoEvent, [code |-> s, seq |-> 0], [code |-> s, seq |-> pending[c][s]]} :
            hand' = [hand EXCEPT ![c] = e]
      <4>1. Head(queue[c])[1] = s /\ Head(queue[c])[2] = k
        BY <2>2
      <4>2. hand' = [hand EXCEPT ![c] =
                      IF IsPending(c, Head(queue[c]))
                      THEN [code |-> s, seq |-> IF k = "snapshot"
                                               THEN pending[c][s] ELSE 0]
                      ELSE NoEvent]
        BY <1>9, <4>1 DEF TakeKey
      <4> QED
        BY <4>2
    <3> QED
      BY <1>0, <1>9, <3>1, <3>2 DEF TakeKey, HandType
  <2>4. /\ queue' \in [Clients -> Seq(Codes \X Kinds)]
        /\ \A d \in Clients : Len(queue'[d]) <= MaxQueue
    BY <1>0, <1>9, <2>1 DEF TakeKey, NewsType
  <2>5. pending' \in PerCode(0..MaxSequence) /\ status' \in PerCode(BOOLEAN)
    <3>1. \/ pending' = pending
          \/ pending' = [pending EXCEPT ![c] = [@ EXCEPT ![s] = 0]]
      BY <1>9, <2>2 DEF TakeKey
    <3>2. \/ status' = status
          \/ status' = [status EXCEPT ![c] = [@ EXCEPT ![s] = FALSE]]
      BY <1>9, <2>2 DEF TakeKey
    <3> QED
      <4>1. 0 \in 0..MaxSequence /\ FALSE \in BOOLEAN
        OBVIOUS
      <4> QED
        <5>1. pending' \in PerCode(0..MaxSequence)
          BY <1>0, <3>1, <4>1, PerCodeSet DEF NewsType
        <5>2. status' \in PerCode(BOOLEAN)
          BY <1>0, <3>2, <4>1, PerCodeSet DEF NewsType
        <5> QED
          BY <5>1, <5>2
  <2>6. NewsType'
    BY <1>0, <1>9, <2>4, <2>5 DEF TakeKey, NewsType
  <2> QED
    BY <1>b, <1>9, <2>3, <2>6 DEF TakeKey
<1>10. ASSUME NEW c \in Clients, SendEvent(c)
      PROVE  CallsType' /\ PollType' /\ SocketType' /\ FlagType' /\ HandType'
             /\ NewsType'
  <2>1. HandType'
    <3>1. shown' \in PerCode(0..MaxSequence)
      <4>1. \/ shown' = shown
            \/ shown' = [shown EXCEPT ![c] = [@ EXCEPT ![hand[c].code] = hand[c].seq]]
        BY <1>10 DEF SendEvent
      <4>2. hand[c].seq \in 0..MaxSequence
        BY <1>0 DEF HandType
      <4> QED
        BY <1>0, <4>1, <4>2, PerCodeSet DEF HandType
    <3>2. hand' \in [Clients -> [code : Codes \cup {NoCode}, seq : 0..MaxSequence]]
      BY <1>0, <1>10 DEF SendEvent, HandType, NoEvent
    <3> QED
      BY <3>1, <3>2 DEF HandType
  <2> QED
    BY <1>b, <1>10, <2>1 DEF SendEvent
<1>11. ASSUME NEW c \in Clients, NEW watch \in SUBSET Codes,
              NEW detail \in {{}} \cup {{s} : s \in Codes}, Receive(c, watch, detail)
      PROVE  CallsType' /\ PollType' /\ SocketType' /\ FlagType' /\ HandType'
             /\ NewsType'
  <2>1. HandType'
    BY <1>0, <1>11 DEF Receive, HandType, NoEvent, PerCode
  <2>2. detail \subseteq Codes
    BY <1>11
  <2>3. SocketType'
    <3>1. [watch |-> watch, detail |-> detail] \in Subs
      BY <2>2 DEF Subs
    <3> QED
      BY <1>0, <1>11, <3>1 DEF Receive, SocketType
  <2>4. FlagType'
    BY <1>0, <1>11 DEF Receive, FlagType
  <2>5. NewsType'
    BY <1>0, <1>11 DEF Receive, NewsType
  <2> QED
    BY <1>b, <1>11, <2>1, <2>3, <2>4, <2>5 DEF Receive
<1>12. ASSUME NEW c \in Clients, Subscribe(c)
      PROVE  CallsType' /\ PollType' /\ SocketType' /\ FlagType' /\ HandType'
             /\ NewsType'
  <2>1. socket[c].req \in Subs
    BY <1>0 DEF SocketType
  <2>2. SocketType'
    <3>1. (socket[c].req.detail \ sub[c].detail) \in SUBSET Codes
      BY <2>1 DEF Subs
    <3> QED
      <4> DEFINE todo == socket[c].req.detail \ sub[c].detail
                 pc == IF todo = {} THEN "listen" ELSE "refresh"
      <4>1. socket' = [socket EXCEPT ![c] = [socket[c] EXCEPT !.pc = pc, !.todo = todo]]
        BY <1>12 DEF Subscribe
      <4>2. pc \in {"listen", "ack", "refresh"} /\ todo \in SUBSET Codes
        BY <3>1
      <4> HIDE DEF todo, pc
      <4>3. socket' \in [Clients -> [pc : {"listen", "ack", "refresh"}, req : Subs,
                                     todo : SUBSET Codes]]
        BY <1>0, <4>1, <4>2 DEF SocketType
      <4>4. sub' \in [Clients -> Subs]
        BY <1>0, <1>12, <2>1 DEF Subscribe, SocketType
      <4> QED
        BY <4>3, <4>4 DEF SocketType
  <2>3. PollType'
    BY <1>0, <1>12, <2>1 DEF Subscribe, AskedFor, PollType, Subs
  <2>4. HandType'
    BY <1>0, <1>12 DEF Subscribe, HandType, PerCode
  <2>5. pending' \in PerCode(0..MaxSequence) /\ owed' \in PerCode(0..MaxSequence)
        /\ lost' \in [Clients -> SUBSET Codes]
    BY <1>0, <1>12 DEF Subscribe, NewsType, PerCode
  <2>6. status' \in PerCode(BOOLEAN)
    BY <1>0, <1>12 DEF Subscribe, NewsType, PerCode
  <2>7. NewsType'
    BY <1>0, <1>12, <2>5, <2>6 DEF Subscribe, NewsType
  <2> QED
    BY <1>b, <1>12, <2>2, <2>3, <2>4, <2>7 DEF Subscribe
<1>13. ASSUME NEW c \in Clients, NEW s \in Codes, RefreshDetail(c, s)
      PROVE  CallsType' /\ PollType' /\ SocketType' /\ FlagType' /\ HandType'
             /\ NewsType'
  <2>1. CallsType'
    BY <1>a, <1>13, BeginType DEF RefreshDetail
  <2>2. SocketType'
    BY <1>0, <1>13 DEF RefreshDetail, SocketType
  <2> QED
    BY <1>b, <1>13, <2>1, <2>2 DEF RefreshDetail
<1>14. ASSUME NEW c \in Clients, Listen(c)
      PROVE  CallsType' /\ PollType' /\ SocketType' /\ FlagType' /\ HandType'
             /\ NewsType'
  <2>1. SocketType'
    BY <1>0, <1>14 DEF Listen, SocketType
  <2> QED
    BY <1>b, <1>14, <2>1 DEF Listen
<1>15. ASSUME NEW c \in Clients, Disconnect(c) \/ StreamFails(c)
      PROVE  CallsType' /\ PollType' /\ SocketType' /\ FlagType' /\ HandType'
             /\ NewsType'
  <2>1. calls' \in [Callers -> {NoCall} \cup Refreshing]
    BY <1>0, <1>15 DEF Disconnect, StreamFails, CallsType
  <2>2. BrokerTypeOK'
    BY <1>15, <2>1, UnsubscribeType DEF Disconnect, StreamFails
  <2> QED
    BY <2>2, TypeParts
<1>16. ASSUME MarketFlips
      PROVE  CallsType' /\ PollType' /\ SocketType' /\ FlagType' /\ HandType'
             /\ NewsType'
  <2>1. FlagType'
    BY <1>0, <1>16 DEF MarketFlips, FlagType
  <2> QED
    BY <1>b, <1>16, <2>1 DEF MarketFlips
<1>17. CASE UNCHANGED brokerVars
  BY <1>b, <1>17 DEF brokerVars
<1> QED
  BY <1>1, <1>2, <1>3, <1>4, <1>5, <1>6, <1>7, <1>8, <1>9, <1>10, <1>11, <1>12,
     <1>13, <1>14, <1>15, <1>16, <1>17 DEF BrokerNext

-----------------------------------------------------------------------------
(* The lock of a code: no two codes share one, a call keeps to the lock of  *)
(* its code and at most one holds it.  Until a lock object is dropped from   *)
(* under a caller that waits, every call uses the present one.              *)
Active(f) == calls[f].pc # "idle"

LockInv ==
  /\ \A s, r \in Codes : lockOf[s] = lockOf[r] /\ lockOf[s] # 0 => s = r
  /\ \A f \in Callers, s \in Codes :
       Active(f) /\ calls[f].lock = lockOf[s] => calls[f].code = s
  /\ \A f, g \in Callers :
       Active(f) /\ Active(g) /\ calls[f].lock = calls[g].lock =>
         calls[f].code = calls[g].code /\ (Inside(f) /\ Inside(g) => f = g)
  /\ ~dropped => \A f \in Callers : Active(f) => lockOf[calls[f].code] = calls[f].lock

(* The invariant says what the property says of two callers of one code.    *)
LEMMA LockInvImplies == ASSUME LockInv PROVE SingleRefresh
<1> SUFFICES ASSUME ~dropped, NEW f \in Callers, NEW g \in Callers,
                    Inside(f), Inside(g), calls[f].code = calls[g].code
             PROVE  f = g
  BY DEF SingleRefresh
<1>1. Active(f) /\ Active(g)
  BY DEF Active, Inside
<1>2. calls[f].lock = calls[g].lock
  BY <1>1 DEF LockInv
<1> QED
  BY <1>1, <1>2 DEF LockInv

(* A call that ends, and a step that changes no call and no lock.           *)
LEMMA LockEnds ==
  ASSUME CallsType, LockInv, NEW f \in Callers, UNCHANGED <<lockOf, dropped>>,
         calls' \in {calls, [calls EXCEPT ![f] = NoCall]}
  PROVE  LockInv'
<1>1. \A g \in Callers : Active(g)' => Active(g) /\ calls'[g] = calls[g]
  BY DEF CallsType, Active, NoCall
<1> QED
  BY <1>1 DEF LockInv, Active, Inside

(* A caller that waited enters only when nobody holds the lock.             *)
LEMMA LockEnter ==
  ASSUME CallsType, LockInv, NEW f \in Callers, Enter(f)
  PROVE  LockInv'
<1>1. calls[f] \in Refreshing
  BY DEF CallsType, Enter, NoCall
<1>2. PICK next \in Entered(f, calls[f]) : calls' = [calls EXCEPT ![f] = next]
  BY DEF Enter
<1>3. UNCHANGED <<lockOf, dropped>> /\ ~Held(calls[f].lock) /\ Active(f)
  BY DEF Enter, Active
<1>4. CASE next = NoCall
  BY <1>2, <1>3, <1>4, LockEnds
<1>5. CASE next # NoCall
  <2>1. next = [calls[f] EXCEPT !.pc = "read"]
    BY <1>1, <1>2, <1>5, EnteredType
  <2>2. calls'[f] = next /\ \A g \in Callers : g # f => calls'[g] = calls[g]
    BY <1>2 DEF CallsType
  <2>3. \A g \in Callers : /\ Active(g)' => Active(g)
                           /\ calls'[g].lock = calls[g].lock
                           /\ calls'[g].code = calls[g].code
                           /\ g # f => (Inside(g)' <=> Inside(g))
    BY <1>1, <1>3, <2>1, <2>2 DEF Active, Inside, Refreshing
  <2>4. \A g \in Callers : Inside(g) => calls[g].lock # calls[f].lock
    BY <1>3 DEF Held
  <2> QED
    BY <1>3, <2>3, <2>4 DEF LockInv
<1> QED
  BY <1>4, <1>5

(* A new lock object is one that no call and no code uses.                  *)
LEMMA LockBegin ==
  ASSUME CallsType, LockInv, NEW f \in Callers, NEW s \in Codes,
         NEW full \in BOOLEAN, NEW l \in 1..MaxLocks, BeginShape(f, s, full, l),
         dropped' = dropped
  PROVE  LockInv'
<1>0. MaxLocks \in Nat
  BY BrokerAssumption
<1>1. PICK next \in {NoCall} \cup Refreshing :
        /\ calls' = [calls EXCEPT ![f] = next]
        /\ \/ next = [pc |-> "wait", code |-> s, full |-> full, lock |-> l]
           \/ /\ next = [pc |-> "read", code |-> s, full |-> full, lock |-> l]
              /\ ~Held(l)
           \/ next = NoCall /\ cache[s].seq # 0
  BY DEF BeginShape
<1>2. /\ calls'[f] = next /\ \A g \in Callers : g # f => calls'[g] = calls[g]
      /\ lockOf'[s] = l /\ \A r \in Codes : r # s => lockOf'[r] = lockOf[r]
      /\ ~Active(f) /\ l # 0
      /\ \A g \in Callers : Active(g) => calls[g].code \in Codes
  BY <1>0, <1>1 DEF BeginShape, CallsType, Active, NoCall, Refreshing
<1>3. /\ \A r \in Codes : lockOf[r] = l => r = s
      /\ \A g \in Callers : Active(g) /\ calls[g].lock = l => calls[g].code = s
      /\ lockOf[s] # l =>
           lockOf[s] = 0 /\ \A g \in Callers : calls[g].lock # l
  BY <1>2 DEF BeginShape, LockInv, FreshLock
<1>4. Active(f)' => calls'[f].code = s /\ calls'[f].lock = l
                    /\ (Inside(f)' => ~Held(l))
  BY <1>1, <1>2 DEF Active, Inside, NoCall
<1>5. \A g \in Callers : g # f =>
        (Active(g)' <=> Active(g)) /\ (Inside(g)' <=> Inside(g))
  BY <1>2 DEF Active, Inside
<1>6. \A r, q \in Codes : lockOf'[r] = lockOf'[q] /\ lockOf'[r] # 0 => r = q
  BY <1>2, <1>3 DEF LockInv
<1>7. \A g \in Callers, r \in Codes :
        Active(g)' /\ calls'[g].lock = lockOf'[r] => calls'[g].code = r
  BY <1>2, <1>3, <1>4, <1>5 DEF LockInv
<1>8. \A g, h \in Callers :
        Active(g)' /\ Active(h)' /\ calls'[g].lock = calls'[h].lock =>
          calls'[g].code = calls'[h].code /\ (Inside(g)' /\ Inside(h)' => g = h)
  BY <1>2, <1>3, <1>4, <1>5 DEF LockInv, Held
<1>9. ASSUME ~dropped, NEW g \in Callers, Active(g)'
      PROVE  lockOf'[calls'[g].code] = calls'[g].lock
  <2>1. CASE g = f
    BY <1>2, <1>4, <1>9, <2>1
  <2>2. CASE g # f
    <3>1. Active(g) /\ calls'[g] = calls[g] /\ lockOf[calls[g].code] = calls[g].lock
      BY <1>2, <1>5, <1>9, <2>2 DEF LockInv
    <3>2. CASE calls[g].code = s
      <4>1. lockOf[s] = 0 => calls[g].lock # 0
        BY <1>0, <3>1 DEF CallsType, Active, NoCall, Refreshing
      <4> QED
        BY <1>2, <1>3, <3>1, <3>2, <4>1
    <3>3. CASE calls[g].code # s
      BY <1>2, <3>1, <3>3
    <3> QED
      BY <3>2, <3>3
  <2> QED
    BY <2>1, <2>2
<1> QED
  BY <1>6, <1>7, <1>8, <1>9 DEF LockInv

(* A client that leaves, with its call if it had one, drops only locks that *)
(* no call uses, or says so.                                                *)
LEMMA LockUnsubscribe ==
  ASSUME CallsType, LockInv, NEW c \in Clients, Unsubscribe(c),
         \/ calls' = calls
         \/ calls[c].pc = "read" /\ calls' = [calls EXCEPT ![c] = NoCall]
  PROVE  LockInv'
<1>0. MaxLocks \in Nat /\ c \in Callers
  BY BrokerAssumption DEF Callers
<1>1. \A g \in Callers : Active(g)' => Active(g) /\ calls'[g] = calls[g]
  BY <1>0 DEF CallsType, Active, NoCall
<1>2. \A s \in Codes : lockOf'[s] = 0 \/ lockOf'[s] = lockOf[s]
  BY <1>0 DEF Unsubscribe
<1>3. \A f \in Callers : Active(f) => calls[f].lock # 0 /\ calls[f].code \in Codes
                                      /\ calls[f].pc \in {"wait", "read"}
  BY <1>0 DEF CallsType, Active, NoCall, Refreshing
<1>4. ASSUME ~dropped', NEW f \in Callers, Active(f)'
      PROVE  lockOf'[calls'[f].code] = calls'[f].lock
  <2> DEFINE s == calls[f].code
  <2>1. ~dropped /\ Active(f) /\ calls'[f] = calls[f]
    BY <1>1, <1>4 DEF Unsubscribe
  <2>2. s \in Codes /\ lockOf[s] = calls[f].lock /\ lockOf[s] # 0
    BY <1>3, <2>1 DEF LockInv
  <2>3. lockOf'[s] = IF s \in FreeLocks(Unreferenced(c)) THEN 0 ELSE lockOf[s]
    BY <2>2 DEF Unsubscribe
  <2>4. ASSUME s \in FreeLocks(Unreferenced(c)) PROVE FALSE
    <3>1. s \in Unreferenced(c) /\ lockOf[s] # 0 /\ ~StillHeld(lockOf[s])
      BY <2>4 DEF FreeLocks
    <3>2. ~Awaited(lockOf[s])
      BY <1>4, <3>1 DEF Unsubscribe
    <3>3. calls[f].pc = "wait" \/ calls'[f].pc = "read"
      BY <1>3, <2>1
    <3> QED
      BY <2>1, <2>2, <3>1, <3>2, <3>3 DEF Awaited, StillHeld
  <2> QED
    BY <2>1, <2>2, <2>3, <2>4
<1>5. \A s, r \in Codes : lockOf'[s] = lockOf'[r] /\ lockOf'[s] # 0 => s = r
  BY <1>2 DEF LockInv
<1>6. \A f \in Callers, s \in Codes :
        Active(f)' /\ calls'[f].lock = lockOf'[s] => calls'[f].code = s
  BY <1>1, <1>2, <1>3 DEF LockInv
<1>7. \A f, g \in Callers :
        Active(f)' /\ Active(g)' /\ calls'[f].lock = calls'[g].lock =>
          calls'[f].code = calls'[g].code /\ (Inside(f)' /\ Inside(g)' => f = g)
  BY <1>1 DEF LockInv, Inside
<1> QED
  BY <1>4, <1>5, <1>6, <1>7 DEF LockInv

(* No step lets two calls hold a lock or two codes share one.               *)
LEMMA LockStep ==
  ASSUME BrokerTypeOK, LockInv, [BrokerNext]_brokerVars
  PROVE  LockInv'
<1>0. CallsType /\ CallsType'
  BY TypeParts, BrokerTypeStep
<1>a. /\ \A f \in Codes : f \in Callers
      /\ \A f \in Readers : f \in Callers
      /\ \A f \in Clients : f \in Callers
  BY DEF Callers
<1>b. ASSUME UNCHANGED <<lockOf, dropped, calls>> PROVE LockInv'
  BY <1>b DEF LockInv, Active, Inside
<1>c. ASSUME NEW f \in Callers, NEW s \in Codes, NEW full \in BOOLEAN,
             Begin(f, s, full), dropped' = dropped
      PROVE  LockInv'
  BY <1>0, <1>c, BeginFacts, LockBegin
<1>1. ASSUME NEW f \in Callers, Enter(f) PROVE LockInv'
  BY <1>0, <1>1, LockEnter
<1>2. ASSUME NEW f \in Callers, Refreshed(f) \/ RefreshFails(f) PROVE LockInv'
  BY <1>0, <1>2, LockEnds DEF Refreshed, RefreshFails
<1>3. ASSUME NEW f \in Readers, Request(f) PROVE LockInv'
  BY <1>a, <1>c, <1>3 DEF Request
<1>4. ASSUME NEW s \in Codes, PollTask(s) PROVE LockInv'
  <2>1. (s \in poll.full) \in BOOLEAN
    OBVIOUS
  <2> QED
    BY <1>a, <1>c, <1>4, <2>1 DEF PollTask
<1>5. ASSUME NEW c \in Clients, NEW s \in Codes, RefreshDetail(c, s) PROVE LockInv'
  BY <1>a, <1>c, <1>5 DEF RefreshDetail
<1>6. ASSUME NEW c \in Clients, Disconnect(c) \/ StreamFails(c) PROVE LockInv'
  BY <1>0, <1>6, LockUnsubscribe DEF Disconnect, StreamFails
<1>7. CASE PollBatch \/ PollPublish \/ PollTasks \/ PollEnds
  BY <1>b, <1>7 DEF PollBatch, PollPublish, PollTasks, PollEnds
<1>8. ASSUME NEW c \in Clients, \/ TakeKey(c) \/ SendEvent(c) \/ Subscribe(c) \/ Listen(c)
      PROVE  LockInv'
  BY <1>b, <1>8 DEF TakeKey, SendEvent, Subscribe, Listen
<1>9. ASSUME NEW c \in Clients, NEW watch \in SUBSET Codes,
             NEW detail \in {{}} \cup {{s} : s \in Codes}, Receive(c, watch, detail)
      PROVE  LockInv'
  BY <1>b, <1>9 DEF Receive
<1>10. CASE MarketFlips \/ UNCHANGED brokerVars
  BY <1>b, <1>10 DEF MarketFlips, brokerVars
<1> QED
  BY <1>1, <1>2, <1>3, <1>4, <1>5, <1>6, <1>7, <1>8, <1>9, <1>10 DEF BrokerNext

(* A code is read by one caller at a time: two calls inside the section of  *)
(* a code would hold the same lock, unless its lock object was dropped from *)
(* under a waiting caller (unsubscribe of market_data.py).                  *)
THEOREM OneReaderPerCode == BrokerSpec => []SingleRefresh
<1>1. BrokerInit => BrokerTypeOK /\ LockInv
  BY BrokerTypeInit DEF BrokerInit, LockInv, Active, NoCall, Inside
<1>2. BrokerTypeOK /\ LockInv /\ [BrokerNext]_brokerVars => (BrokerTypeOK /\ LockInv)'
  BY BrokerTypeStep, LockStep
<1>3. BrokerTypeOK /\ LockInv => SingleRefresh
  BY LockInvImplies
<1> QED
  BY <1>1, <1>2, <1>3, PTL DEF BrokerSpec

(* The shape of every variable of the broker is kept.                       *)
THEOREM BrokerTyping == BrokerSpec => []BrokerTypeOK
<1>1. BrokerTypeOK /\ [BrokerNext]_brokerVars => BrokerTypeOK'
  BY BrokerTypeStep
<1> QED
  BY <1>1, BrokerTypeInit, PTL DEF BrokerSpec

-----------------------------------------------------------------------------
(* One client and one code: a snapshot that waits is the last published one *)
(* and has its key queued, nothing is ahead of what was published, and only *)
(* what the client wants is on its way.                                     *)
Ordered(c, s) ==
  /\ s \notin Wants(c) => pending[c][s] = 0 /\ shown[c][s] = 0 /\ owed[c][s] = 0
  /\ pending[c][s] \in {0, owed[c][s]}
  /\ pending[c][s] # 0 => Contains(queue[c], <<s, "snapshot">>)
  /\ shown[c][s] <= owed[c][s] /\ owed[c][s] <= cache[s].seq
  /\ hand[c].code = s /\ hand[c].seq # 0 =>
       s \in Wants(c) /\ shown[c][s] <= hand[c].seq /\ hand[c].seq <= owed[c][s]

Delivered(c, s) ==
  \/ pending[c][s] = owed[c][s] \/ hand[c] = [code |-> s, seq |-> owed[c][s]]
  \/ shown[c][s] = owed[c][s]

FlowInv ==
  /\ \A c \in Clients, s \in Codes : Ordered(c, s)
  /\ \A c \in Clients : \A s \in Codes \ lost[c] : Delivered(c, s)
  /\ \A c \in Clients : socket[c].pc # "listen" => hand[c] = NoEvent

(* Delivered is what the property says, when its key is queued.             *)
LEMMA FlowInvImplies ==
  ASSUME BrokerTypeOK, FlowInv PROVE OnItsWay
<1>0. /\ queue \in [Clients -> Seq(Codes \X Kinds)]
      /\ shown \in PerCode(0..MaxSequence) /\ owed \in PerCode(0..MaxSequence)
      /\ MaxSequence \in Nat
  BY BrokerAssumption DEF BrokerTypeOK
<1> SUFFICES ASSUME NEW c \in Clients, NEW s \in Codes, s \notin lost[c]
             PROVE  Reaches(c, s)
  BY DEF OnItsWay
<1>1. \A x : x \in Range(queue[c]) <=> Contains(queue[c], x)
  BY <1>0, RangeContains
<1>2. shown[c][s] \in Nat /\ owed[c][s] \in Nat
  BY <1>0 DEF PerCode
<1>3. CASE pending[c][s] = owed[c][s] /\ owed[c][s] # 0
  BY <1>1, <1>3 DEF FlowInv, Ordered, Reaches
<1>4. CASE owed[c][s] = 0
  BY <1>2, <1>4 DEF FlowInv, Ordered, Reaches
<1>5. CASE ~(pending[c][s] = owed[c][s])
  BY <1>5 DEF FlowInv, Delivered, Reaches
<1> QED
  BY <1>3, <1>4, <1>5

(* Snapshots that are published overtake nothing.                           *)
LEMMA FlowStore ==
  ASSUME BrokerTypeOK, FlowInv, NEW codes \in Seq(Codes), NEW bad, NEW full,
         Store(codes, bad, full), UNCHANGED <<hand, shown, sub, socket>>
  PROVE  FlowInv'
<1> USE BrokerAssumption
<1>1. StoreShape(codes, bad, full)
  BY StoreFacts
<1>2. /\ cache \in [Codes -> [seq : 0..MaxSequence, full : BOOLEAN]]
      /\ pending \in PerCode(0..MaxSequence) /\ owed \in PerCode(0..MaxSequence)
      /\ shown \in PerCode(0..MaxSequence)
      /\ hand \in [Clients -> [code : Codes \cup {NoCode}, seq : 0..MaxSequence]]
      /\ lost \in [Clients -> SUBSET Codes]
  BY DEF BrokerTypeOK
<1>3. ASSUME NEW c \in Clients, NEW s \in Codes
      PROVE  Ordered(c, s)' /\ (s \notin lost'[c] => Delivered(c, s)')
  <2> DEFINE hit == s \in (Range(codes) \ bad) \cap Wants(c)
  <2>0. /\ pending[c][s] \in Nat /\ owed[c][s] \in Nat /\ shown[c][s] \in Nat
        /\ cache[s].seq \in Nat /\ hand[c].seq \in Nat
    BY <1>2 DEF PerCode
  <2>1. /\ pending'[c][s] = IF hit THEN cache[s].seq + 1 ELSE pending[c][s]
        /\ owed'[c][s] = IF hit THEN cache[s].seq + 1 ELSE owed[c][s]
        /\ s \in lost'[c] <=> s \in lost[c] /\ ~hit
    BY <1>1, <1>2 DEF StoreShape
  <2>2. /\ cache'[s].seq >= cache[s].seq
        /\ hit => cache'[s].seq = cache[s].seq + 1
    BY <1>1, <1>2, <2>0 DEF StoreShape
  <2>3. /\ hand'[c] = hand[c] /\ shown'[c] = shown[c]
        /\ s \in Wants(c)' <=> s \in Wants(c)
        /\ hit => s \in Wants(c)
    BY DEF Wants
  <2>4. /\ Contains(queue[c], <<s, "snapshot">>) => Contains(queue'[c], <<s, "snapshot">>)
        /\ hit /\ pending[c][s] = 0 => Contains(queue'[c], <<s, "snapshot">>)
    BY <1>1 DEF StoreShape
  <2>5. Ordered(c, s) /\ (s \notin lost[c] => Delivered(c, s))
    BY DEF FlowInv
  <2> HIDE DEF hit
  <2>6. CASE hit
    <3>1. /\ pending'[c][s] = cache[s].seq + 1 /\ owed'[c][s] = cache[s].seq + 1
          /\ cache'[s].seq = cache[s].seq + 1
          /\ shown'[c][s] = shown[c][s] /\ hand'[c] = hand[c]
          /\ s \in Wants(c)' /\ s \in Wants(c)
      BY <2>1, <2>2, <2>3, <2>6
    <3>2. Contains(queue'[c], <<s, "snapshot">>)
      BY <2>4, <2>5, <2>6 DEF Ordered
    <3>3. /\ shown[c][s] <= owed[c][s] /\ owed[c][s] <= cache[s].seq
          /\ hand[c].code = s /\ hand[c].seq # 0 =>
               shown[c][s] <= hand[c].seq /\ hand[c].seq <= owed[c][s]
      BY <2>5 DEF Ordered
    <3>4. Delivered(c, s)'
      BY <3>1 DEF Delivered
    <3>5. Ordered(c, s)'
      BY SMTT(30), <2>0, <3>1, <3>2, <3>3 DEF Ordered
    <3> QED
      BY <3>4, <3>5
  <2>7. CASE ~hit
    <3>1. /\ pending'[c][s] = pending[c][s] /\ owed'[c][s] = owed[c][s]
          /\ shown'[c][s] = shown[c][s] /\ hand'[c] = hand[c]
          /\ s \in lost'[c] <=> s \in lost[c]
      BY <2>1, <2>3, <2>7
    <3>2. cache'[s].seq \in Nat
      BY <1>1, <1>2 DEF StoreShape
    <3>3. Ordered(c, s)'
      BY <2>0, <2>2, <2>3, <2>4, <2>5, <3>1, <3>2 DEF Ordered
    <3>4. s \notin lost'[c] => Delivered(c, s)'
      BY <2>5, <3>1 DEF Delivered
    <3> QED
      BY <3>3, <3>4
  <2> QED
    BY <2>6, <2>7
<1>4. \A c \in Clients : socket'[c].pc # "listen" => hand'[c] = NoEvent
  BY DEF FlowInv
<1> QED
  BY <1>3, <1>4 DEF FlowInv

(* A key that is taken carries the last published snapshot or none.         *)
LEMMA FlowTake ==
  ASSUME BrokerTypeOK, FlowInv, NEW c \in Clients, TakeKey(c)
  PROVE  FlowInv'
<1> USE BrokerAssumption
<1>1. /\ queue \in [Clients -> Seq(Codes \X Kinds)] /\ queue[c] # <<>>
      /\ pending \in PerCode(0..MaxSequence) /\ owed \in PerCode(0..MaxSequence)
      /\ shown \in PerCode(0..MaxSequence)
      /\ hand \in [Clients -> [code : Codes \cup {NoCode}, seq : 0..MaxSequence]]
      /\ hand[c] = NoEvent /\ socket[c].pc = "listen"
      /\ UNCHANGED <<cache, socket, sub, shown, owed, lost>>
  BY DEF BrokerTypeOK, TakeKey
<1>2. PICK r \in Codes, k \in Kinds : Head(queue[c]) = <<r, k>>
  BY <1>1
<1>3. Head(queue[c])[1] = r /\ Head(queue[c])[2] = k
  BY <1>2
<1>4. /\ queue' = [queue EXCEPT ![c] = Tail(@)]
      /\ hand' = [hand EXCEPT ![c] =
                   IF IsPending(c, Head(queue[c]))
                   THEN [code |-> r, seq |-> IF k = "snapshot"
                                            THEN pending[c][r] ELSE 0]
                   ELSE NoEvent]
      /\ k = "snapshot" => /\ pending' = [pending EXCEPT ![c][r] = 0]
                           /\ IsPending(c, Head(queue[c])) <=> pending[c][r] # 0
      /\ k # "snapshot" => pending' = pending
  BY <1>3 DEF TakeKey, IsPending
<1>5. \A s \in Codes : <<s, "snapshot">> # <<r, k>> =>
        (Contains(queue[c], <<s, "snapshot">>) =>
           Contains(Tail(queue[c]), <<s, "snapshot">>))
  <2>1. /\ queue[c] \in Seq(Codes \X Kinds) /\ Len(queue[c]) >= 1
        /\ queue[c][1] = <<r, k>> /\ Len(Tail(queue[c])) = Len(queue[c]) - 1
        /\ \A i \in 1..Len(Tail(queue[c])) : Tail(queue[c])[i] = queue[c][i + 1]
    BY <1>1, <1>2
  <2>2. ASSUME NEW s \in Codes, <<s, "snapshot">> # <<r, k>>,
               NEW i \in 1..Len(queue[c]), queue[c][i] = <<s, "snapshot">>
        PROVE  \E j \in 1..Len(Tail(queue[c])) : Tail(queue[c])[j] = <<s, "snapshot">>
    <3>1. i # 1 /\ i - 1 \in 1..Len(Tail(queue[c])) /\ (i - 1) + 1 = i
      BY <2>1, <2>2
    <3> QED
      BY <2>1, <2>2, <3>1
  <2> QED
    BY <2>2 DEF Contains
<1>6. \A d \in Clients \ {c} : /\ queue'[d] = queue[d] /\ hand'[d] = hand[d]
                               /\ pending'[d] = pending[d]
  BY <1>1, <1>4 DEF PerCode
<1>7. ASSUME NEW d \in Clients \ {c}, NEW s \in Codes
      PROVE  Ordered(d, s)' /\ (s \notin lost'[d] => Delivered(d, s)')
  <2>1. Ordered(d, s) /\ (s \notin lost[d] => Delivered(d, s))
    BY DEF FlowInv
  <2> QED
    BY <1>1, <1>6, <2>1 DEF Ordered, Delivered, Wants
<1>8. ASSUME NEW s \in Codes
      PROVE  Ordered(c, s)' /\ (s \notin lost'[c] => Delivered(c, s)')
  <2>0. /\ pending[c][s] \in Nat /\ owed[c][s] \in Nat /\ shown[c][s] \in Nat
        /\ shown' = shown /\ owed' = owed /\ cache' = cache /\ lost' = lost
        /\ Wants(c)' = Wants(c)
    BY <1>1 DEF PerCode, Wants
  <2>1. Ordered(c, s) /\ (s \notin lost[c] => Delivered(c, s))
    BY DEF FlowInv
  <2>2. hand[c] # [code |-> s, seq |-> owed[c][s]]
    BY <1>1 DEF NoEvent
  <2>3. CASE k = "snapshot" /\ s = r
    <3>1. pending'[c][s] = 0 /\ hand'[c] = IF pending[c][s] # 0
            THEN [code |-> s, seq |-> pending[c][s]] ELSE NoEvent
      BY <1>1, <1>4, <2>3 DEF PerCode
    <3> QED
      BY <2>0, <2>1, <2>2, <3>1 DEF Ordered, Delivered, NoEvent
  <2>4. CASE ~(k = "snapshot" /\ s = r)
    <3>1. pending'[c][s] = pending[c][s]
      <4>1. pending' = pending \/ (k = "snapshot" /\ pending' = [pending EXCEPT ![c][r] = 0])
        BY <1>4
      <4> QED
        BY SMTT(30), <1>1, <2>4, <4>1 DEF PerCode
    <3>2. Contains(queue[c], <<s, "snapshot">>) => Contains(queue'[c], <<s, "snapshot">>)
      BY <1>1, <1>4, <1>5, <2>4
    <3>3. hand'[c].code = s => hand'[c].seq = 0
      BY <1>1, <1>4, <2>4 DEF NoEvent
    <3> QED
      BY <2>0, <2>1, <2>2, <3>1, <3>2, <3>3 DEF Ordered, Delivered
  <2> QED
    BY <2>3, <2>4
<1>9. \A d \in Clients : socket'[d].pc # "listen" => hand'[d] = NoEvent
  BY <1>1, <1>6 DEF FlowInv
<1> QED
  BY <1>7, <1>8, <1>9 DEF FlowInv

(* What is sent is the last published snapshot or one before it.            *)
LEMMA FlowSend ==
  ASSUME BrokerTypeOK, FlowInv, NEW c \in Clients, SendEvent(c)
  PROVE  FlowInv'
<1> USE BrokerAssumption
<1>1. /\ owed \in PerCode(0..MaxSequence) /\ shown \in PerCode(0..MaxSequence)
      /\ hand \in [Clients -> [code : Codes \cup {NoCode}, seq : 0..MaxSequence]]
      /\ socket[c].pc = "listen"
      /\ UNCHANGED <<cache, socket, sub, queue, pending, owed, lost>>
      /\ hand' = [hand EXCEPT ![c] = NoEvent]
      /\ shown' = IF hand[c].seq = 0 THEN shown
              ELSE [shown EXCEPT ![c][hand[c].code] = hand[c].seq]
  BY DEF BrokerTypeOK, SendEvent
<1>2. \A d \in Clients \ {c} : hand'[d] = hand[d] /\ shown'[d] = shown[d]
  BY <1>1 DEF PerCode
<1>3. ASSUME NEW d \in Clients \ {c}, NEW s \in Codes
      PROVE  Ordered(d, s)' /\ (s \notin lost'[d] => Delivered(d, s)')
  BY <1>1, <1>2 DEF FlowInv, Ordered, Delivered, Wants
<1>4. ASSUME NEW s \in Codes
      PROVE  Ordered(c, s)' /\ (s \notin lost'[c] => Delivered(c, s)')
  <2>0. /\ owed[c][s] \in Nat /\ shown[c][s] \in Nat /\ hand[c].seq \in Nat
        /\ owed' = owed /\ cache' = cache /\ lost' = lost /\ pending' = pending
        /\ queue' = queue /\ Wants(c)' = Wants(c)
    BY <1>1 DEF PerCode, Wants
  <2>1. Ordered(c, s) /\ (s \notin lost[c] => Delivered(c, s))
    BY DEF FlowInv
  <2>2. hand'[c] = NoEvent /\ hand'[c].code # s
    BY <1>1 DEF NoEvent
  <2>3. CASE hand[c].code = s /\ hand[c].seq # 0
    <3>1. shown'[c][s] = hand[c].seq
      BY <1>1, <2>3 DEF PerCode
    <3> QED
      BY <2>0, <2>1, <2>2, <2>3, <3>1 DEF Ordered, Delivered
  <2>4. CASE ~(hand[c].code = s /\ hand[c].seq # 0)
    <3>1. shown'[c][s] = shown[c][s]
      BY <1>1, <2>4 DEF PerCode
    <3>2. hand[c] = [code |-> s, seq |-> owed[c][s]] => owed[c][s] = 0
      BY <2>4
    <3> QED
      BY <2>0, <2>1, <2>2, <3>1, <3>2 DEF Ordered, Delivered
  <2> QED
    BY <2>3, <2>4
<1>5. \A d \in Clients : socket'[d].pc # "listen" => hand'[d] = NoEvent
  BY <1>1, <1>2 DEF FlowInv
<1> QED
  BY <1>3, <1>4, <1>5 DEF FlowInv

-----------------------------------------------------------------------------
(* A subscription may drop the event in the hand, which is then lost.       *)
LEMMA FlowReceive ==
  ASSUME BrokerTypeOK, FlowInv, NEW c \in Clients, NEW watch, NEW detail,
         Receive(c, watch, detail)
  PROVE  FlowInv'
<1> USE BrokerAssumption
<1>1. /\ owed \in PerCode(0..MaxSequence) /\ shown \in PerCode(0..MaxSequence)
      /\ hand \in [Clients -> [code : Codes \cup {NoCode}, seq : 0..MaxSequence]]
      /\ lost \in [Clients -> SUBSET Codes] /\ socket[c].pc = "listen"
      /\ UNCHANGED <<cache, sub, queue, pending, owed, shown>>
      /\ hand' = [hand EXCEPT ![c] = NoEvent]
      /\ lost' = [lost EXCEPT ![c] =
                @ \cup {s \in Codes : hand[c].code = s /\ hand[c].seq # 0
                                     /\ hand[c].seq = owed[c][s]}]
      /\ \A d \in Clients \ {c} : socket'[d] = socket[d]
  BY DEF BrokerTypeOK, Receive
<1>2. \A d \in Clients \ {c} : hand'[d] = hand[d] /\ lost'[d] = lost[d]
  BY <1>1
<1>3. ASSUME NEW d \in Clients \ {c}, NEW s \in Codes
      PROVE  Ordered(d, s)' /\ (s \notin lost'[d] => Delivered(d, s)')
  <2>1. Ordered(d, s) /\ (s \notin lost[d] => Delivered(d, s))
    BY DEF FlowInv
  <2> QED
    BY <1>1, <1>2, <2>1 DEF Ordered, Delivered, Wants
<1>4. ASSUME NEW s \in Codes
      PROVE  Ordered(c, s)' /\ (s \notin lost'[c] => Delivered(c, s)')
  <2>0. /\ owed[c][s] \in Nat /\ shown[c][s] \in Nat
        /\ owed' = owed /\ cache' = cache /\ shown' = shown /\ pending' = pending
        /\ queue' = queue /\ Wants(c)' = Wants(c)
    BY <1>1 DEF PerCode, Wants
  <2>1. Ordered(c, s) /\ (s \notin lost[c] => Delivered(c, s))
    BY DEF FlowInv
  <2>2. hand'[c].code # s
    BY <1>1 DEF NoEvent
  <2>3. Ordered(c, s)'
    BY <2>0, <2>1, <2>2 DEF Ordered
  <2>4. s \notin lost'[c] =>
          s \notin lost[c] /\ ~(hand[c].code = s /\ hand[c].seq # 0
                               /\ hand[c].seq = owed[c][s])
    BY <1>1
  <2>5. hand[c] = [code |-> s, seq |-> owed[c][s]] /\ s \notin lost'[c] =>
          owed[c][s] = 0
    BY <2>4
  <2> QED
    BY <2>0, <2>1, <2>3, <2>4, <2>5 DEF Ordered, Delivered
<1>5. \A d \in Clients : socket'[d].pc # "listen" => hand'[d] = NoEvent
  BY <1>1, <1>2 DEF FlowInv
<1> QED
  BY <1>3, <1>4, <1>5 DEF FlowInv

(* A subscription withdraws what is no longer wanted.                       *)
LEMMA FlowSubscribe ==
  ASSUME BrokerTypeOK, FlowInv, NEW c \in Clients, Subscribe(c)
  PROVE  FlowInv'
<1> USE BrokerAssumption
<1> DEFINE want == socket[c].req.watch \cup socket[c].req.detail
<1>1. /\ owed \in PerCode(0..MaxSequence) /\ shown \in PerCode(0..MaxSequence)
      /\ pending \in PerCode(0..MaxSequence)
      /\ cache \in [Codes -> [seq : 0..MaxSequence, full : BOOLEAN]]
      /\ socket \in [Clients -> [pc : {"listen", "ack", "refresh"}, req : Subs,
                               todo : SUBSET Codes]]
      /\ sub \in [Clients -> Subs]
      /\ lost \in [Clients -> SUBSET Codes] /\ socket[c].pc = "ack"
      /\ UNCHANGED <<cache, queue, hand>>
  BY DEF BrokerTypeOK, Subscribe
<1>2. /\ sub' = [sub EXCEPT ![c] = socket[c].req]
      /\ pending' = [pending EXCEPT ![c] = [s \in Codes |->
                       IF s \in want THEN pending[c][s] ELSE 0]]
      /\ shown' = [shown EXCEPT ![c] = [s \in Codes |->
                       IF s \in want THEN shown[c][s] ELSE 0]]
      /\ owed' = [owed EXCEPT ![c] = [s \in Codes |->
                       IF s \in want THEN owed[c][s] ELSE 0]]
      /\ lost' = [lost EXCEPT ![c] = @ \cap want]
  BY DEF Subscribe
<1>3. \A d \in Clients \ {c} :
        /\ pending'[d] = pending[d] /\ shown'[d] = shown[d] /\ owed'[d] = owed[d]
        /\ lost'[d] = lost[d] /\ sub'[d] = sub[d] /\ socket'[d] = socket[d]
  <2>1. \A d \in Clients \ {c} :
        /\ pending'[d] = pending[d] /\ shown'[d] = shown[d] /\ owed'[d] = owed[d]
        /\ lost'[d] = lost[d] /\ sub'[d] = sub[d]
    BY <1>1, <1>2 DEF PerCode
  <2>2. \A d \in Clients \ {c} : socket'[d] = socket[d]
    BY <1>1 DEF Subscribe
  <2> QED
    BY <2>1, <2>2
<1>4. ASSUME NEW d \in Clients \ {c}, NEW s \in Codes
      PROVE  Ordered(d, s)' /\ (s \notin lost'[d] => Delivered(d, s)')
  <2>1. Ordered(d, s) /\ (s \notin lost[d] => Delivered(d, s))
    BY DEF FlowInv
  <2> QED
    BY <1>1, <1>3, <2>1 DEF Ordered, Delivered, Wants
<1>5. ASSUME NEW s \in Codes
      PROVE  Ordered(c, s)' /\ (s \notin lost'[c] => Delivered(c, s)')
  <2>0. /\ owed[c][s] \in Nat /\ shown[c][s] \in Nat /\ pending[c][s] \in Nat
        /\ cache[s].seq \in Nat
        /\ cache' = cache /\ queue' = queue /\ hand'[c].code # s
    <3>1. hand[c] = NoEvent
      BY <1>1 DEF FlowInv
    <3> QED
      BY <1>1, <3>1 DEF PerCode, NoEvent
  <2>1. Ordered(c, s) /\ (s \notin lost[c] => Delivered(c, s))
    BY DEF FlowInv
  <2>2. s \in Wants(c)' <=> s \in want
    BY <1>1, <1>2 DEF Wants
  <2>3. /\ pending'[c][s] = IF s \in want THEN pending[c][s] ELSE 0
        /\ shown'[c][s] = IF s \in want THEN shown[c][s] ELSE 0
        /\ owed'[c][s] = IF s \in want THEN owed[c][s] ELSE 0
        /\ s \in lost'[c] <=> s \in lost[c] /\ s \in want
    BY <1>1, <1>2 DEF PerCode
  <2>4. hand[c] # [code |-> s, seq |-> owed[c][s]]
    BY <2>0, <1>1 DEF FlowInv, NoEvent
  <2>5. CASE s \in want
    BY <2>0, <2>1, <2>2, <2>3, <2>4, <2>5 DEF Ordered, Delivered
  <2>6. CASE s \notin want
    BY <2>0, <2>2, <2>3, <2>6 DEF Ordered, Delivered
  <2> QED
    BY <2>5, <2>6
<1>6. \A d \in Clients : socket'[d].pc # "listen" => hand'[d] = NoEvent
  BY <1>1, <1>3 DEF FlowInv
<1> QED
  BY <1>4, <1>5, <1>6 DEF FlowInv

(* A client that leaves takes nothing from the others.                      *)
LEMMA FlowUnsubscribe ==
  ASSUME BrokerTypeOK, FlowInv, NEW c \in Clients, Unsubscribe(c)
  PROVE  FlowInv'
<1> USE BrokerAssumption
<1>1. /\ owed \in PerCode(0..MaxSequence) /\ shown \in PerCode(0..MaxSequence)
      /\ pending \in PerCode(0..MaxSequence)
      /\ cache \in [Codes -> [seq : 0..MaxSequence, full : BOOLEAN]]
      /\ sub \in [Clients -> Subs] /\ queue \in [Clients -> Seq(Codes \X Kinds)]
      /\ hand \in [Clients -> [code : Codes \cup {NoCode}, seq : 0..MaxSequence]]
      /\ lost \in [Clients -> SUBSET Codes]
      /\ DOMAIN socket = Clients
  BY DEF BrokerTypeOK
<1>2. /\ sub' = [sub EXCEPT ![c] = NoSub]
      /\ queue' = [queue EXCEPT ![c] = <<>>]
      /\ pending' = [pending EXCEPT ![c] = [s \in Codes |-> 0]]
      /\ shown' = [shown EXCEPT ![c] = [s \in Codes |-> 0]]
      /\ owed' = [owed EXCEPT ![c] = [s \in Codes |-> 0]]
      /\ lost' = [lost EXCEPT ![c] = {}]
      /\ hand' = [hand EXCEPT ![c] = NoEvent]
      /\ cache' = [s \in Codes |-> IF s \in Unreferenced(c) THEN Nothing ELSE cache[s]]
      /\ socket' = [socket EXCEPT ![c] = NoSocket]
  BY DEF Unsubscribe
<1>3. ASSUME NEW d \in Clients \ {c}, NEW s \in Codes
      PROVE  Ordered(d, s)' /\ (s \notin lost'[d] => Delivered(d, s)')
  <2>0. /\ owed[d][s] \in Nat /\ shown[d][s] \in Nat /\ pending[d][s] \in Nat
        /\ cache[s].seq \in Nat /\ cache'[s].seq \in Nat
    BY <1>1, <1>2 DEF PerCode, Nothing
  <2>1. Ordered(d, s) /\ (s \notin lost[d] => Delivered(d, s))
    BY DEF FlowInv
  <2>2. /\ pending'[d] = pending[d] /\ shown'[d] = shown[d] /\ owed'[d] = owed[d]
        /\ lost'[d] = lost[d] /\ queue'[d] = queue[d] /\ hand'[d] = hand[d]
        /\ Wants(d)' = Wants(d)
    BY <1>1, <1>2 DEF PerCode, Wants
  <2>3. cache'[s].seq = cache[s].seq \/ s \notin Wants(d)
    BY <1>2 DEF Unreferenced
  <2>4. Ordered(d, s)'
    BY <2>0, <2>1, <2>2, <2>3 DEF Ordered
  <2>5. s \notin lost'[d] => Delivered(d, s)'
    BY <2>1, <2>2 DEF Delivered
  <2> QED
    BY <2>4, <2>5
<1>4. ASSUME NEW s \in Codes
      PROVE  Ordered(c, s)' /\ (s \notin lost'[c] => Delivered(c, s)')
  <2>1. /\ pending'[c][s] = 0 /\ shown'[c][s] = 0 /\ owed'[c][s] = 0
        /\ hand'[c].code # s /\ cache'[s].seq >= 0
    BY <1>1, <1>2 DEF PerCode, NoEvent, Nothing
  <2> QED
    BY <2>1 DEF Ordered, Delivered
<1>5. \A d \in Clients : socket'[d].pc # "listen" => hand'[d] = NoEvent
  BY <1>1, <1>2 DEF FlowInv, NoSocket
<1> QED
  BY <1>3, <1>4, <1>5 DEF FlowInv

(* No step breaks the order of snapshots or drops one.                      *)
LEMMA FlowStep ==
  ASSUME BrokerTypeOK, FlowInv, [BrokerNext]_brokerVars
  PROVE  FlowInv'
<1>0. CallsType /\ PollType /\ SocketType
  BY TypeParts
<1>a. ASSUME UNCHANGED <<cache, sub, queue, pending, hand, shown, owed, lost>>,
             \A c \in Clients : socket'[c].pc # "listen" => socket[c].pc # "listen"
      PROVE  FlowInv'
  <2>1. \A c \in Clients : Wants(c)' = Wants(c)
    BY <1>a DEF Wants
  <2>2. ASSUME NEW c \in Clients, NEW s \in Codes
        PROVE  Ordered(c, s)' /\ (s \notin lost'[c] => Delivered(c, s)')
    <3>1. Ordered(c, s) /\ (s \notin lost[c] => Delivered(c, s))
      BY DEF FlowInv
    <3> QED
      BY <1>a, <2>1, <3>1 DEF Ordered, Delivered
  <2> QED
    BY <1>a, <2>2 DEF FlowInv
<1>1. ASSUME NEW f \in Callers, Enter(f) PROVE FlowInv'
  BY <1>a, <1>1 DEF Enter
<1>2. ASSUME NEW f \in Callers, Refreshed(f) PROVE FlowInv'
  <2>1. calls[f] \in Refreshing
    BY <1>0, <1>2 DEF CallsType, Refreshed, NoCall
  <2>2. <<calls[f].code>> \in Seq(Codes)
    BY <2>1 DEF Refreshing
  <2> QED
    BY <1>2, <2>2, FlowStore DEF Refreshed
<1>3. ASSUME NEW f \in Callers, RefreshFails(f) PROVE FlowInv'
  <2>1. CASE f \in Codes
    <3>1. <<f>> \in Seq(Codes)
      BY <2>1
    <3> QED
      BY <1>3, <2>1, <3>1, FlowStore DEF RefreshFails
  <2>2. CASE f \notin Codes
    BY <1>a, <1>3, <2>2 DEF RefreshFails
  <2> QED
    BY <2>1, <2>2
<1>4. CASE PollPublish
  <2>1. PICK codes \in SetToSeqs(poll.due), bad \in SUBSET poll.due :
          Store(codes, bad, poll.full)
    BY <1>4 DEF PollPublish
  <2>2. poll.due \subseteq Codes /\ IsFiniteSet(poll.due)
    BY <1>0, BrokerAssumption, FS_Subset DEF PollType
  <2>3. codes \in Seq(poll.due)
    BY <2>1, <2>2, ListingHas
  <2>4. codes \in Seq(Codes)
    BY <2>2, <2>3
  <2> QED
    BY <1>4, <2>1, <2>4, FlowStore DEF PollPublish
<1>5. CASE \/ \E f \in Readers : Request(f)
           \/ PollBatch \/ PollTasks \/ PollEnds \/ MarketFlips
           \/ \E s \in Codes : PollTask(s)
           \/ UNCHANGED brokerVars
  BY <1>a, <1>5 DEF Request, PollBatch, PollTasks, PollEnds, MarketFlips, PollTask,
                    brokerVars
<1>6. ASSUME NEW c \in Clients, Listen(c) PROVE FlowInv'
  BY <1>0, <1>a, <1>6 DEF Listen, SocketType
<1>7. ASSUME NEW c \in Clients, NEW s \in Codes, RefreshDetail(c, s) PROVE FlowInv'
  BY <1>0, <1>a, <1>7 DEF RefreshDetail, SocketType
<1>8. ASSUME NEW c \in Clients, Disconnect(c) \/ StreamFails(c) PROVE FlowInv'
  BY <1>8, FlowUnsubscribe DEF Disconnect, StreamFails
<1>9. ASSUME NEW c \in Clients, TakeKey(c) \/ SendEvent(c) \/ Subscribe(c)
      PROVE  FlowInv'
  BY <1>9, FlowTake, FlowSend, FlowSubscribe
<1>10. ASSUME NEW c \in Clients, NEW watch \in SUBSET Codes,
              NEW detail \in {{}} \cup {{s} : s \in Codes}, Receive(c, watch, detail)
       PROVE  FlowInv'
  BY <1>10, FlowReceive
<1> QED
  BY <1>1, <1>2, <1>3, <1>4, <1>5, <1>6, <1>7, <1>8, <1>9, <1>10 DEF BrokerNext

(* The invariant of delivery holds at first and in every step.              *)
LEMMA FlowInvariance ==
  /\ BrokerInit => BrokerTypeOK /\ FlowInv
  /\ BrokerTypeOK /\ FlowInv /\ [BrokerNext]_brokerVars => (BrokerTypeOK /\ FlowInv)'
<1>1. ASSUME BrokerInit PROVE FlowInv
  BY <1>1, BrokerAssumption
     DEF BrokerInit, FlowInv, Ordered, Delivered, NoSocket, NoEvent, NoSub, Nothing
<1> QED
  BY <1>1, BrokerTypeInit, BrokerTypeStep, FlowStep

(* The last snapshot published of a code a client wants is pending with its *)
(* key queued, in the handler's hand or sent, whatever the clients ask for  *)
(* in between and however polls and refreshes interleave.                   *)
THEOREM SnapshotsArrive == BrokerSpec => []OnItsWay
<1>1. BrokerTypeOK /\ FlowInv => OnItsWay
  BY FlowInvImplies
<1> QED
  BY <1>1, FlowInvariance, PTL DEF BrokerSpec

(* A client that keeps wanting a code never sees its sequence go back.      *)
THEOREM NoSnapshotIsOlder == BrokerSpec => NeverOlder
<1>1. ASSUME BrokerTypeOK, FlowInv, BrokerNext, NEW c \in Clients, NEW s \in Codes,
             s \in Wants(c), s \in Wants(c)'
      PROVE  shown'[c][s] >= shown[c][s]
  <2>0. /\ shown \in PerCode(0..MaxSequence) /\ sub \in [Clients -> Subs]
        /\ shown[c][s] \in 0..MaxSequence /\ MaxSequence \in Nat
        /\ hand \in [Clients -> [code : Codes \cup {NoCode}, seq : 0..MaxSequence]]
    <3>1. /\ shown \in PerCode(0..MaxSequence) /\ sub \in [Clients -> Subs]
          /\ hand \in [Clients -> [code : Codes \cup {NoCode}, seq : 0..MaxSequence]]
      BY <1>1 DEF BrokerTypeOK
    <3> QED
      BY <3>1, BrokerAssumption DEF PerCode
  <2>1. CASE shown' = shown
    BY <2>0, <2>1
  <2>2. ASSUME NEW d \in Clients, SendEvent(d) PROVE shown'[c][s] >= shown[c][s]
    <3>1. shown' = IF hand[d].seq = 0 THEN shown
                   ELSE [shown EXCEPT ![d][hand[d].code] = hand[d].seq]
      BY <2>2 DEF SendEvent
    <3>2. CASE d = c /\ hand[c].code = s /\ hand[c].seq # 0
      <4>1. shown'[c][s] = hand[c].seq
        BY <2>0, <3>1, <3>2 DEF PerCode
      <4> QED
        BY <2>0, <3>2, <4>1, <1>1 DEF FlowInv, Ordered
    <3>3. CASE ~(d = c /\ hand[c].code = s /\ hand[c].seq # 0)
      BY <2>0, <3>1, <3>3 DEF PerCode
    <3> QED
      BY <3>2, <3>3
  <2>3. ASSUME NEW d \in Clients, Subscribe(d) PROVE shown'[c][s] >= shown[c][s]
    <3> DEFINE want == socket[d].req.watch \cup socket[d].req.detail
    <3>1. /\ shown' = [shown EXCEPT ![d] = [r \in Codes |->
                         IF r \in want THEN shown[d][r] ELSE 0]]
          /\ sub' = [sub EXCEPT ![d] = socket[d].req]
      BY <2>3 DEF Subscribe
    <3>2. d = c => s \in want
      BY <1>1, <2>0, <3>1 DEF Wants
    <3> QED
      BY <2>0, <3>1, <3>2 DEF PerCode
  <2>4. ASSUME NEW d \in Clients, Disconnect(d) \/ StreamFails(d)
        PROVE  shown'[c][s] >= shown[c][s]
    <3>1. /\ shown' = [shown EXCEPT ![d] = [r \in Codes |-> 0]]
          /\ sub' = [sub EXCEPT ![d] = NoSub]
      BY <2>4 DEF Disconnect, StreamFails, Unsubscribe
    <3>2. d # c
      BY <1>1, <2>0, <3>1 DEF Wants, NoSub
    <3> QED
      BY <2>0, <3>1, <3>2 DEF PerCode
  <2>5. CASE \/ \E f \in Callers : Enter(f) \/ Refreshed(f) \/ RefreshFails(f)
             \/ \E f \in Readers : Request(f)
             \/ PollBatch \/ PollPublish \/ PollTasks \/ PollEnds \/ MarketFlips
             \/ \E r \in Codes : PollTask(r)
             \/ \E d \in Clients :
                  \/ TakeKey(d) \/ Listen(d)
                  \/ \E watch \in SUBSET Codes, detail \in {{}} \cup {{r} : r \in Codes} :
                       Receive(d, watch, detail)
                  \/ \E r \in Codes : RefreshDetail(d, r)
    BY <2>1, <2>5 DEF Enter, Refreshed, RefreshFails, Request, PollBatch, PollPublish,
                      PollTasks, PollEnds, MarketFlips, PollTask, TakeKey, Listen,
                      Receive, RefreshDetail
  <2> QED
    BY <1>1, <2>2, <2>3, <2>4, <2>5 DEF BrokerNext
<1>2. BrokerTypeOK /\ FlowInv /\ [BrokerNext]_brokerVars =>
        [\A c \in Clients, s \in Codes :
           s \in Wants(c) /\ s \in Wants(c)' => shown'[c][s] >= shown[c][s]]_brokerVars
  BY <1>1
<1> QED
  BY <1>2, FlowInvariance, PTL DEF BrokerSpec, NeverOlder

-----------------------------------------------------------------------------
(* A code that a client wants is known, was reported as failed, or will be  *)
(* read by the poll or by that client itself.                               *)
Soon(c, s) ==
  \/ cache[s].seq # 0 \/ s \in told
  \/ s \in asked \/ s \in poll.due \/ Active(s)
  \/ s \in socket[c].todo \/ calls[c].code = s

Closed == flips = 0 /\ ~open

ClosedInv ==
  /\ \A s \in Codes : Active(s) => calls[s].code = s
  /\ \A c \in Clients : Active(c) => socket[c].pc = "refresh"
  /\ \A c \in Clients : socket[c].pc # "refresh" => socket[c].todo = {}
  /\ poll.pc = "idle" => poll.due = {}
  /\ Closed => poll.pc # "read"
  /\ Closed => \A c \in Clients : \A s \in Wants(c) : Soon(c, s)

(* What holds for every client holds for every wanted code.                 *)
LEMMA ClosedInvImplies == ASSUME ClosedInv PROVE ClosedIsRead
<1> SUFFICES ASSUME Closed, NEW s \in Wanted PROVE WillBeRead(s)
  BY DEF ClosedIsRead, Closed
<1>1. PICK c \in Clients : s \in Wants(c)
  BY DEF Wanted
<1>2. Soon(c, s)
  BY <1>1 DEF ClosedInv
<1> QED
  BY <1>2 DEF Soon, WillBeRead, Active

(* A refresh that begins reads its code, or found it cached.                *)
LEMMA ClosedBegin ==
  ASSUME BrokerTypeOK, ClosedInv, NEW f \in Callers, NEW s \in Codes,
         NEW full \in BOOLEAN, Begin(f, s, full)
  PROVE  /\ calls'[f] = NoCall => cache[s].seq # 0
         /\ calls'[f] # NoCall => calls'[f].pc # "idle" /\ calls'[f].code = s
         /\ \A g \in Callers : g # f => calls'[g] = calls[g]
         /\ calls[f] = NoCall /\ \A r \in Codes : calls[f].code # r
<1>1. PICK l \in 1..MaxLocks : BeginShape(f, s, full, l)
  BY BeginFacts
<1>2. calls \in [Callers -> {NoCall} \cup Refreshing]
  BY DEF BrokerTypeOK
<1>3. calls[f] = NoCall /\ \A r \in Codes : calls[f].code # r
  BY <1>1, <1>2, BrokerAssumption DEF BeginShape, Refreshing, NoCall
<1>4. PICK next \in {NoCall} \cup Refreshing :
        /\ calls' = [calls EXCEPT ![f] = next]
        /\ \/ next = [pc |-> "wait", code |-> s, full |-> full, lock |-> l]
           \/ next = [pc |-> "read", code |-> s, full |-> full, lock |-> l]
           \/ next = NoCall /\ cache[s].seq # 0
  BY <1>1 DEF BeginShape
<1>5. calls'[f] = next /\ \A g \in Callers : g # f => calls'[g] = calls[g]
  BY <1>2, <1>4
<1>6. next # NoCall => next.pc # "idle" /\ next.code = s
  BY <1>4
<1>7. next = NoCall => next.pc = "idle"
  BY DEF NoCall
<1>8. next = NoCall => cache[s].seq # 0
  BY <1>4, <1>7
<1> QED
  BY <1>3, <1>5, <1>6, <1>8

(* New codes of a subscription are asked for or refreshed.                  *)
LEMMA ClosedSubscribe ==
  ASSUME BrokerTypeOK, ClosedInv, NEW c \in Clients, Subscribe(c)
  PROVE  ClosedInv'
<1> DEFINE req == socket[c].req
           todo == req.detail \ sub[c].detail
<1>1. /\ socket \in [Clients -> [pc : {"listen", "ack", "refresh"}, req : Subs,
                               todo : SUBSET Codes]]
      /\ sub \in [Clients -> Subs]
      /\ calls \in [Callers -> {NoCall} \cup Refreshing]
      /\ c \in Callers
  BY DEF BrokerTypeOK, Callers
<1>2. /\ socket[c].pc = "ack"
      /\ sub' = [sub EXCEPT ![c] = req]
      /\ asked' = asked \cup (IF open THEN {} ELSE AskedFor(c, req) \ req.detail)
      /\ socket' = [socket EXCEPT ![c] =
                     [@ EXCEPT !.pc = IF todo = {} THEN "listen" ELSE "refresh",
                               !.todo = todo]]
      /\ UNCHANGED <<open, flips, cache, calls, poll, told>>
  BY DEF Subscribe
<1>3. /\ socket'[c].todo = todo
      /\ socket'[c].pc = IF todo = {} THEN "listen" ELSE "refresh"
      /\ \A d \in Clients \ {c} : socket'[d] = socket[d] /\ Wants(d)' = Wants(d)
      /\ Wants(c)' = req.watch \cup req.detail
      /\ req \in Subs /\ sub[c] \in Subs
  BY <1>1, <1>2 DEF Wants
<1>4. socket[c].todo = {} /\ ~Active(c)
  BY <1>2 DEF ClosedInv
<1>5. calls[c] = NoCall
  BY <1>1, <1>4 DEF Active, Refreshing
<1>6. ASSUME Closed', NEW d \in Clients, NEW s \in Wants(d)'
      PROVE  Soon(d, s)'
  <2>0. Closed
    BY <1>2, <1>6 DEF Closed
  <2>1. s \in Codes
    BY <1>1, <1>3 DEF Wants, Subs
  <2>2. CASE d # c
    <3>1. Soon(d, s)
      BY <1>3, <2>0, <2>2 DEF ClosedInv
    <3> QED
      BY <1>2, <1>3, <2>2, <3>1 DEF Soon, Active
  <2>3. CASE d = c /\ s \in Wants(c)
    <3>1. Soon(c, s)
      BY <2>0, <2>3 DEF ClosedInv
    <3>2. calls[c].code # s
      BY <1>5, <2>1, BrokerAssumption DEF NoCall
    <3> QED
      BY <1>2, <1>4, <2>3, <3>1, <3>2 DEF Soon, Active
  <2>4. CASE d = c /\ s \notin Wants(c)
    <3>1. s \in todo \/ (s \in req.watch /\ s \notin sub[c].watch /\ s \notin req.detail)
      BY <1>3, <2>4 DEF Wants
    <3>2. s \in socket'[c].todo \/ s \in asked'
      BY <1>2, <1>3, <2>0, <3>1 DEF AskedFor, Closed
    <3> QED
      BY <2>4, <3>2 DEF Soon
  <2> QED
    BY <2>2, <2>3, <2>4
<1>7. /\ \A s \in Codes : Active(s)' => calls'[s].code = s
      /\ poll'.pc = "idle" => poll'.due = {}
      /\ Closed' => poll'.pc # "read"
  BY <1>2 DEF ClosedInv, Active, Closed
<1>8. /\ \A d \in Clients : Active(d)' => socket'[d].pc = "refresh"
      /\ \A d \in Clients : socket'[d].pc # "refresh" => socket'[d].todo = {}
  BY <1>2, <1>3, <1>4 DEF ClosedInv, Active
<1> QED
  BY <1>6, <1>7, <1>8 DEF ClosedInv

(* A client that leaves forgets only what nobody else wants.                *)
LEMMA ClosedUnsubscribe ==
  ASSUME BrokerTypeOK, ClosedInv, NEW c \in Clients, Unsubscribe(c),
         UNCHANGED <<open, flips, asked, poll, told>>,
         \/ calls' = [calls EXCEPT ![c] = NoCall]
         \/ calls' = calls /\ ~Active(c)
  PROVE  ClosedInv'
<1>1. /\ DOMAIN socket = Clients /\ sub \in [Clients -> Subs]
      /\ calls \in [Callers -> {NoCall} \cup Refreshing]
      /\ c \in Callers /\ c \notin Codes
      /\ cache \in [Codes -> [seq : 0..MaxSequence, full : BOOLEAN]]
  BY BrokerAssumption DEF BrokerTypeOK, Callers
<1>2. /\ socket'[c] = NoSocket /\ ~Active(c)' /\ Wants(c)' = {}
      /\ \A d \in Clients \ {c} : socket'[d] = socket[d] /\ Wants(d)' = Wants(d)
      /\ \A g \in Callers : g # c => calls'[g] = calls[g]
      /\ cache' = [s \in Codes |-> IF s \in Unreferenced(c) THEN Nothing ELSE cache[s]]
  BY <1>1 DEF Unsubscribe, Wants, NoSub, Active, NoCall
<1>3. ASSUME NEW d \in Clients, NEW s \in Wants(d)', Soon(d, s), s \in Wants(d)
      PROVE  Soon(d, s)'
  <2>1. d # c /\ s \in Codes /\ d \in Callers /\ s \in Callers /\ s # c
    BY <1>1, <1>2, <1>3 DEF Wants, Subs, Callers
  <2>2. cache'[s] = cache[s]
    BY <1>2, <1>3, <2>1 DEF Unreferenced
  <2>3. calls'[d] = calls[d] /\ calls'[s] = calls[s] /\ socket'[d] = socket[d]
    BY <1>2, <2>1
  <2> QED
    BY <1>3, <2>2, <2>3 DEF Soon, Active
<1>4. \A s \in Codes : Active(s)' => calls'[s].code = s
  BY <1>1, <1>2 DEF ClosedInv, Active, Callers
<1>5. /\ \A d \in Clients : Active(d)' => socket'[d].pc = "refresh"
      /\ \A d \in Clients : socket'[d].pc # "refresh" => socket'[d].todo = {}
  BY <1>2 DEF ClosedInv, Active, Callers, NoSocket
<1>6. /\ \A d \in Clients : Wants(d)' = Wants(d) \/ Wants(d)' = {}
      /\ poll' = poll /\ (Closed' <=> Closed)
  BY <1>2 DEF Closed
<1> QED
  BY <1>3, <1>4, <1>5, <1>6 DEF ClosedInv
(* A refresh that begins: by a poll, a handler or another caller.           *)
LEMMA ClosedBegins ==
  ASSUME BrokerTypeOK, ClosedInv, NEW f \in Callers, NEW s \in Codes,
         NEW full \in BOOLEAN, Begin(f, s, full), f \in Codes => f = s,
         f \in Clients => socket[f].pc = "refresh",
         UNCHANGED <<open, flips, cache, asked, sub, told>>,
         \/ poll' = poll
         \/ f = s /\ poll.pc = "tasks" /\ poll' = [poll EXCEPT !.due = @ \ {s}],
         \/ socket' = socket
         \/ f \in Clients /\ socket' = [socket EXCEPT ![f].todo = @ \ {s}]
  PROVE  ClosedInv'
<1>1. /\ socket \in [Clients -> [pc : {"listen", "ack", "refresh"}, req : Subs,
                               todo : SUBSET Codes]]
      /\ poll \in [pc : {"idle", "read", "tasks"}, due : SUBSET Codes,
                   full : SUBSET Codes]
      /\ calls \in [Callers -> {NoCall} \cup Refreshing] /\ sub \in [Clients -> Subs]
      /\ \A g \in Codes : g \in Callers /\ g \notin Clients
      /\ \A g \in Clients : g \in Callers
  BY BrokerAssumption DEF BrokerTypeOK, Callers
<1>2. /\ calls'[f] = NoCall => cache[s].seq # 0
      /\ calls'[f] # NoCall => calls'[f].pc # "idle" /\ calls'[f].code = s
      /\ \A g \in Callers : g # f => calls'[g] = calls[g]
      /\ calls[f] = NoCall /\ \A r \in Codes : calls[f].code # r
  BY ClosedBegin
<1>3. /\ poll'.pc = poll.pc /\ poll'.due \in {poll.due, poll.due \ {s}}
      /\ f # s => poll'.due = poll.due
      /\ poll.pc = "idle" => poll' = poll
  BY <1>1
<1>4. \A c \in Clients :
        /\ socket'[c].pc = socket[c].pc
        /\ \A r \in socket[c].todo \ {s} : r \in socket'[c].todo
        /\ socket[c].todo = {} => socket'[c].todo = {}
        /\ f # c => socket'[c].todo = socket[c].todo
  BY <1>1
<1>5. \A c \in Clients : Wants(c)' = Wants(c) /\ Wants(c) \subseteq Codes
  BY <1>1 DEF Wants, Subs
<1>6. ASSUME NEW c \in Clients, NEW r \in Codes, Soon(c, r) PROVE Soon(c, r)'
  <2>1. CASE r # s
    <3>1. /\ r \in poll.due => r \in poll'.due
          /\ r \in socket[c].todo => r \in socket'[c].todo
      <4>1. r \in poll.due => r \in poll'.due
        BY <1>3, <2>1
      <4>2. r \in socket[c].todo => r \in socket'[c].todo
        BY <1>4, <2>1
      <4> QED
        BY <4>1, <4>2
    <3>2. Active(r) => Active(r)'
      BY <1>1, <1>2 DEF Active, NoCall
    <3>3. calls[c].code = r => calls'[c].code = r
      BY <1>1, <1>2
    <3> QED
      BY <1>6, <3>1, <3>2, <3>3 DEF Soon
  <2>2. CASE r = s /\ (f = s \/ f = c)
    BY <1>2, <2>2 DEF Soon, Active
  <2>3. CASE r = s /\ f # s /\ f # c
    <3>1. calls'[c] = calls[c] /\ calls'[s] = calls[s] /\ poll'.due = poll.due
          /\ socket'[c].todo = socket[c].todo
      BY <1>1, <1>2, <1>3, <1>4, <2>3
    <3> QED
      BY <1>6, <2>3, <3>1 DEF Soon, Active
  <2> QED
    BY <2>1, <2>2, <2>3
<1>7. \A r \in Codes : Active(r)' => calls'[r].code = r
  <2>1. ASSUME NEW r \in Codes, Active(r)' PROVE calls'[r].code = r
    <3>1. CASE r = f
      <4>1. calls'[f] # NoCall
        BY <2>1, <3>1 DEF Active, NoCall
      <4> QED
        BY <1>2, <3>1, <4>1
    <3>2. CASE r # f
      BY <1>1, <1>2, <2>1, <3>2 DEF Active, ClosedInv
    <3> QED
      BY <3>1, <3>2
  <2> QED
    BY <2>1
<1>8. /\ \A c \in Clients : Active(c)' => socket'[c].pc = "refresh"
      /\ \A c \in Clients : socket'[c].pc # "refresh" => socket'[c].todo = {}
  BY <1>1, <1>2, <1>4 DEF ClosedInv, Active
<1>9. /\ poll'.pc = "idle" => poll'.due = {}
      /\ Closed' <=> Closed
      /\ Closed => poll'.pc # "read"
  BY <1>3 DEF ClosedInv, Closed
<1> QED
  BY <1>5, <1>6, <1>7, <1>8, <1>9 DEF ClosedInv

(* A call that ends without or with an answer.                              *)
LEMMA ClosedEnds ==
  ASSUME BrokerTypeOK, ClosedInv, NEW f \in Callers, Active(f),
         \/ calls' = [calls EXCEPT ![f] = NoCall]
         \/ \E next : /\ calls' = [calls EXCEPT ![f] = next]
                     /\ next.pc # "idle" /\ next.code = calls[f].code,
         calls'[f] = NoCall => \/ cache'[calls[f].code].seq # 0
                              \/ calls[f].code \in told' \/ f \in Readers,
         UNCHANGED <<open, flips, asked, sub, poll, socket>>,
         \A s \in Codes : cache[s].seq # 0 => cache'[s].seq # 0,
         \A s \in Codes : s \in told => s \in told' \/ cache'[s].seq # 0
  PROVE  ClosedInv'
<1>1. /\ calls \in [Callers -> {NoCall} \cup Refreshing] /\ sub \in [Clients -> Subs]
      /\ \A g \in Codes : g \in Callers /\ g \notin Clients /\ g \notin Readers
      /\ \A g \in Clients : g \in Callers /\ g \notin Readers
      /\ calls[f] \in Refreshing
  BY BrokerAssumption DEF BrokerTypeOK, Callers, Active, NoCall
<1>2. /\ \A g \in Callers : g # f => calls'[g] = calls[g]
      /\ \/ calls'[f] = NoCall
         \/ calls'[f].pc # "idle" /\ calls'[f].code = calls[f].code
  BY <1>1
<1>3. \A c \in Clients : Wants(c)' = Wants(c) /\ Wants(c) \subseteq Codes
  BY <1>1 DEF Wants, Subs
<1>4. ASSUME NEW c \in Clients, NEW r \in Codes, Soon(c, r) PROVE Soon(c, r)'
  <2>1. CASE Active(r) /\ f = r
    <3>1. calls[f].code = r
      BY <2>1 DEF ClosedInv
    <3> QED
      BY <1>1, <1>2, <2>1, <3>1 DEF Soon, Active
  <2>2. CASE calls[c].code = r /\ f = c
    BY <1>1, <1>2, <2>2 DEF Soon
  <2>3. CASE Active(r) /\ f # r
    BY <1>1, <1>2, <2>3 DEF Soon, Active
  <2>4. CASE calls[c].code = r /\ f # c
    BY <1>1, <1>2, <2>4 DEF Soon
  <2>5. CASE ~Active(r) /\ calls[c].code # r
    BY <1>4, <2>5 DEF Soon
  <2> QED
    BY <2>1, <2>2, <2>3, <2>4, <2>5
<1>5. \A r \in Codes : Active(r)' => calls'[r].code = r
  BY <1>1, <1>2 DEF ClosedInv, Active, NoCall
<1>6. /\ \A c \in Clients : Active(c)' => socket'[c].pc = "refresh"
      /\ \A c \in Clients : socket'[c].pc # "refresh" => socket'[c].todo = {}
  BY <1>1, <1>2 DEF ClosedInv, Active
<1>7. /\ poll'.pc = "idle" => poll'.due = {}
      /\ Closed' <=> Closed
      /\ Closed => poll'.pc # "read"
  BY DEF ClosedInv, Closed
<1> QED
  BY <1>3, <1>4, <1>5, <1>6, <1>7 DEF ClosedInv

-----------------------------------------------------------------------------
(* A store of one code leaves it known or reported as failed.               *)
LEMMA ClosedStore ==
  ASSUME BrokerTypeOK, NEW s \in Codes, NEW bad, NEW full, Store(<<s>>, bad, full)
  PROVE  /\ s \notin bad => cache'[s].seq # 0
         /\ s \in bad => s \in told'
         /\ \A r \in Codes : cache[r].seq # 0 => cache'[r].seq # 0
         /\ \A r \in Codes : r \in told => r \in told' \/ cache'[r].seq # 0
<1>1. <<s>> \in Seq(Codes)
  OBVIOUS
<1>2. StoreShape(<<s>>, bad, full)
  BY <1>1, StoreFacts
<1>3. Range(<<s>>) = {s}
  BY DEF Range
<1>4. cache \in [Codes -> [seq : 0..MaxSequence, full : BOOLEAN]] /\ MaxSequence \in Nat
  BY BrokerAssumption DEF BrokerTypeOK
<1> QED
  BY <1>2, <1>3, <1>4 DEF StoreShape

(* No step in a closed market forgets a code somebody wants.                *)
LEMMA ClosedStep ==
  ASSUME BrokerTypeOK, ClosedInv, [BrokerNext]_brokerVars
  PROVE  ClosedInv'
<1>0. /\ socket \in [Clients -> [pc : {"listen", "ack", "refresh"}, req : Subs,
                               todo : SUBSET Codes]]
      /\ poll \in [pc : {"idle", "read", "tasks"}, due : SUBSET Codes,
                   full : SUBSET Codes]
      /\ calls \in [Callers -> {NoCall} \cup Refreshing] /\ sub \in [Clients -> Subs]
      /\ flips \in 0..MaxFlips /\ MaxFlips \in Nat
  BY BrokerAssumption DEF BrokerTypeOK
<1>a. /\ \A f \in Codes : f \in Callers /\ f \notin Clients
      /\ \A f \in Readers : f \in Callers /\ f \notin Codes /\ f \notin Clients
      /\ \A f \in Clients : f \in Callers /\ f \notin Codes
  BY BrokerAssumption DEF Callers
<1>b. \A f \in Callers : calls[f].pc # "idle" => calls[f] \in Refreshing
  BY <1>0 DEF NoCall
<1>c. ASSUME UNCHANGED <<open, flips, cache, asked, calls, poll, sub, told>>,
             \A c \in Clients : socket'[c].todo = socket[c].todo,
             \A c \in Clients : socket'[c].pc = socket[c].pc
               \/ (~Active(c) /\ socket[c].todo = {})
      PROVE  ClosedInv'
  BY <1>c DEF ClosedInv, Soon, Active, Wants, Closed
<1>1. ASSUME NEW f \in Callers, Enter(f) PROVE ClosedInv'
  <2>1. calls[f] \in Refreshing /\ Active(f)
    BY <1>b, <1>1 DEF Enter, Active
  <2>2. PICK next \in Entered(f, calls[f]) : calls' = [calls EXCEPT ![f] = next]
    BY <1>1 DEF Enter
  <2>3. \/ next = NoCall /\ cache[calls[f].code].seq # 0
        \/ /\ next = [calls[f] EXCEPT !.pc = "read"]
           /\ next \in Refreshing
    BY <2>1, <2>2, EnteredType
  <2>4. calls'[f] = next
    BY <1>0, <2>2
  <2>5. CASE next = NoCall
    <3>1. NoCall.pc = "idle"
      BY DEF NoCall
    <3>2. cache[calls[f].code].seq # 0
      BY <2>3, <2>5, <3>1 DEF Refreshing
    <3> QED
      BY <1>1, <2>1, <2>2, <2>5, <3>2, ClosedEnds DEF Enter
  <2>6. CASE next # NoCall
    <3>1. next.pc # "idle" /\ next.code = calls[f].code
      BY <2>1, <2>3, <2>6 DEF Refreshing
    <3> QED
      BY <1>1, <2>1, <2>2, <2>4, <2>6, <3>1, ClosedEnds DEF Enter
  <2> QED
    BY <2>5, <2>6
<1>2. ASSUME NEW f \in Callers, Refreshed(f) PROVE ClosedInv'
  <2>1. calls[f] \in Refreshing /\ Active(f)
    BY <1>b, <1>2 DEF Refreshed, Active
  <2>2. calls[f].code \in Codes
    BY <2>1 DEF Refreshing
  <2>3. /\ cache'[calls[f].code].seq # 0
        /\ \A r \in Codes : cache[r].seq # 0 => cache'[r].seq # 0
        /\ \A r \in Codes : r \in told => r \in told' \/ cache'[r].seq # 0
    BY <1>2, <2>2, ClosedStore DEF Refreshed
  <2> QED
    BY <1>2, <2>1, <2>3, ClosedEnds DEF Refreshed
<1>3. ASSUME NEW f \in Callers, RefreshFails(f) PROVE ClosedInv'
  <2>1. Active(f) /\ calls' = [calls EXCEPT ![f] = NoCall]
        /\ UNCHANGED <<open, flips, asked, sub, poll, socket>>
    BY <1>3 DEF RefreshFails, Active
  <2>2. CASE f \in Codes
    <3>1. calls[f].code = f
      BY <2>1, <2>2 DEF ClosedInv
    <3>2. /\ f \in told'
          /\ \A r \in Codes : cache[r].seq # 0 => cache'[r].seq # 0
          /\ \A r \in Codes : r \in told => r \in told' \/ cache'[r].seq # 0
      BY <1>3, <2>2, ClosedStore DEF RefreshFails
    <3> QED
      BY <2>1, <3>1, <3>2, ClosedEnds
  <2>3. CASE f \notin Codes
    <3>1. UNCHANGED <<cache, told>> /\ f \in Readers
      BY <1>3, <2>3 DEF RefreshFails
    <3> QED
      BY <2>1, <3>1, ClosedEnds
  <2> QED
    BY <2>2, <2>3
<1>4. ASSUME NEW f \in Readers, Request(f) PROVE ClosedInv'
  <2>1. PICK s \in Codes : Begin(f, s, TRUE)
    BY <1>4 DEF Request
  <2> QED
    BY <1>a, <1>4, <2>1, ClosedBegins DEF Request
<1>5. ASSUME NEW s \in Codes, PollTask(s) PROVE ClosedInv'
  <2>1. (s \in poll.full) \in BOOLEAN
    OBVIOUS
  <2> QED
    BY <1>a, <1>5, <2>1, ClosedBegins DEF PollTask
<1>6. ASSUME NEW c \in Clients, NEW s \in Codes, RefreshDetail(c, s) PROVE ClosedInv'
  <2>1. socket' = [socket EXCEPT ![c].todo = @ \ {s}]
    BY <1>0, <1>6 DEF RefreshDetail
  <2> QED
    BY <1>a, <1>6, <2>1, ClosedBegins DEF RefreshDetail
<1>7. ASSUME NEW c \in Clients, Subscribe(c) PROVE ClosedInv'
  BY <1>7, ClosedSubscribe
<1>8. ASSUME NEW c \in Clients, Disconnect(c) PROVE ClosedInv'
  <2>1. ~Active(c)
    BY <1>8 DEF Disconnect, ClosedInv
  <2> QED
    BY <1>8, <2>1, ClosedUnsubscribe DEF Disconnect
<1>9. ASSUME NEW c \in Clients, StreamFails(c) PROVE ClosedInv'
  BY <1>9, ClosedUnsubscribe DEF StreamFails
<1>10. ASSUME NEW c \in Clients, TakeKey(c) \/ SendEvent(c) PROVE ClosedInv'
  BY <1>10, <1>c DEF TakeKey, SendEvent
<1>11. ASSUME NEW c \in Clients, NEW watch \in SUBSET Codes,
              NEW detail \in {{}} \cup {{s} : s \in Codes}, Receive(c, watch, detail)
       PROVE  ClosedInv'
  <2>1. \A d \in Clients : socket'[d].todo = socket[d].todo
    BY <1>0, <1>11 DEF Receive
  <2>2. \A d \in Clients : d # c => socket'[d].pc = socket[d].pc
    BY <1>0, <1>11 DEF Receive
  <2>3. ~Active(c) /\ socket[c].todo = {}
    BY <1>11 DEF Receive, ClosedInv
  <2>4. socket'[c].pc = "ack"
    BY <1>0, <1>11 DEF Receive
  <2> QED
    BY <1>11, <1>c, <2>1, <2>2, <2>3 DEF Receive
<1>12. ASSUME NEW c \in Clients, Listen(c) PROVE ClosedInv'
  <2>1. \A d \in Clients : socket'[d].todo = socket[d].todo
    BY <1>0, <1>12 DEF Listen
  <2>2. \A d \in Clients : d # c => socket'[d].pc = socket[d].pc
    BY <1>0, <1>12 DEF Listen
  <2> QED
    BY <1>12, <1>c, <2>1, <2>2 DEF Listen, Active
<1>13. CASE PollPublish
  <2>1. ~Closed /\ UNCHANGED <<open, flips, calls, socket, sub>>
    BY <1>13 DEF PollPublish, ClosedInv
  <2>2. poll' = NoPoll
    BY <1>13 DEF PollPublish
  <2> QED
    BY <2>1, <2>2 DEF ClosedInv, NoPoll, Closed, Active
<1>14. CASE PollBatch
  <2>1. ~Closed /\ UNCHANGED <<open, flips, calls, socket, sub>>
    BY <1>14 DEF PollBatch, Closed
  <2>2. poll'.pc = "idle" => poll'.due = {}
    BY <1>14 DEF PollBatch, NoPoll
  <2> QED
    BY <2>1, <2>2 DEF ClosedInv, Closed, Active
<1>15. CASE PollTasks
  <2>1. poll.pc = "idle" /\ UNCHANGED <<open, flips, cache, calls, socket, sub, told>>
    BY <1>15 DEF PollTasks
  <2>2. PICK due \in IF open THEN SUBSET Wanted ELSE {asked \cap Wanted} :
          poll' = IF due = {} THEN NoPoll
                  ELSE [pc |-> "tasks", due |-> due, full |-> Detailed]
    BY <1>15 DEF PollTasks
  <2>3. /\ poll'.pc = "idle" => poll'.due = {}
        /\ poll'.pc # "read" /\ poll'.due = due
    BY <2>2 DEF NoPoll
  <2>4. ASSUME Closed, NEW c \in Clients, NEW s \in Wants(c) PROVE Soon(c, s)'
    <3>1. Soon(c, s) /\ poll.due = {} /\ due = asked \cap Wanted
      BY <2>1, <2>2, <2>4 DEF ClosedInv, Closed
    <3>2. s \in Wanted
      BY <2>4 DEF Wanted
    <3>3. s \in asked => s \in poll'.due
      BY <2>3, <3>1, <3>2
    <3> QED
      BY <2>1, <3>1, <3>3 DEF Soon, Active
  <2> QED
    BY <2>1, <2>3, <2>4 DEF ClosedInv, Closed, Active, Wants
<1>16. CASE PollEnds
  <2>1. poll' = NoPoll /\ poll.due = {}
        /\ UNCHANGED <<open, flips, cache, asked, calls, socket, sub, told>>
    BY <1>16 DEF PollEnds
  <2>2. poll'.due = {} /\ poll'.pc = "idle"
    BY <2>1 DEF NoPoll
  <2> QED
    BY <2>1, <2>2 DEF ClosedInv, Closed, Active, Wants, Soon
<1>17. CASE MarketFlips
  <2>1. ~Closed' /\ UNCHANGED <<cache, asked, calls, poll, socket, sub, told>>
    BY <1>0, <1>17 DEF MarketFlips, Closed
  <2> QED
    BY <2>1 DEF ClosedInv, Active
<1>18. CASE UNCHANGED brokerVars
  BY <1>c, <1>18 DEF brokerVars
<1> QED
  BY <1>1, <1>2, <1>3, <1>4, <1>5, <1>6, <1>7, <1>8, <1>9, <1>10, <1>11, <1>12,
     <1>13, <1>14, <1>15, <1>16, <1>17, <1>18 DEF BrokerNext

(* In a market that stays closed nobody waits for ever for a code: what a   *)
(* client wants is known, was reported as failed, or is about to be read    *)
(* for it; a client that leaves takes nothing along that another waits for. *)
THEOREM ClosedMarketIsRead == BrokerSpec => []ClosedIsRead
<1>1. BrokerInit => BrokerTypeOK /\ ClosedInv
  BY BrokerTypeInit, BrokerAssumption
     DEF BrokerInit, ClosedInv, NoSocket, NoSub, NoCall, NoPoll, Active, Wants, Callers
<1>2. BrokerTypeOK /\ ClosedInv /\ [BrokerNext]_brokerVars => (BrokerTypeOK /\ ClosedInv)'
  BY BrokerTypeStep, ClosedStep
<1>3. BrokerTypeOK /\ ClosedInv => ClosedIsRead
  BY ClosedInvImplies
<1> QED
  BY <1>1, <1>2, <1>3, PTL DEF BrokerSpec
===============================================================================
