------------------------------- MODULE ReadsProofs -------------------------------
(* What the ways the window reads a broker promise (MCReads), proved for any number of
   streams, messages, rules, connections and calls.  The page's part is proved in
   BrokerDataProofs. *)
EXTENDS MCReads, BrokerDataProofs, FiniteSetTheorems, FunctionTheorems, SequenceTheorems, TLAPS

--------------------------------------------------------------------------------
(* The live subscription. *)

(* An instance's operators on finite sets are the library's. *)
LEMMA SameCardinality == ASSUME NEW S PROVE Stream!Cardinality(S) = Cardinality(S)
BY Zenon DEF Stream!Cardinality, Cardinality

LEMMA Bounds ==
    /\ MaxStreams \in Nat /\ MaxMessages \in Nat /\ MaxCalls \in Nat \ {0} /\ Ring \in Nat /\ Keep \in Nat
BY StreamAssumption

BatchRecord == [cursor : 0..MaxMessages, dropped : 0..MaxMessages, rows : Seq(Stream!Row)]

(* A stream that has been started. *)
Started(id) == id \in Stream!Ids /\ received[id] >= 0

(* Every message up to a position has been on screen or has left the ring. *)
Covered(id, k) == \A n \in 1..k : <<id, n>> \in seen \/ n < Stream!Oldest(id)

(* ... or is in the batch a poll has been answered with. *)
Brings(c) ==
    \A n \in 1..c.batch.cursor :
        \/ <<c.id, n>> \in seen
        \/ n < Stream!Oldest(c.id)
        \/ \E i \in 1..Len(c.batch.rows) : c.batch.rows[i] = <<c.id, n>>

(* Only a panel that runs polls, and it runs with a stream. *)
Polled ==
    /\ running => subscription # 0
    /\ ~running => Stream!Of("poll") = {}
    /\ subscription # 0 => Started(subscription)
    /\ \A c \in bridgeCalls : c.kind # "list" \/ c.answer = "ok" => Started(c.id)

(* While the cursor is of the stream watched, every poll under way is too, and it was
   sent from a position that is covered. *)
Watching ==
    subscription # 0 /\ ~crossed =>
        /\ Covered(subscription, cursor)
        /\ \A c \in Stream!Of("poll") :
              /\ c.id = subscription /\ Covered(c.id, c.after)
              /\ c.answer = "ok" => Brings(c)

StreamInv == Stream!TypeOK /\ IsFiniteSet(bridgeCalls) /\ Polled /\ Watching

(* It says what the run checks: what can be missed has left the ring. *)
LEMMA StreamInvImplies == StreamInv => Stream!LossIsCounted
<1> SUFFICES ASSUME StreamInv, subscription # 0, ~crossed
             PROVE  Stream!Cardinality(Stream!Missed) <= Stream!Lost(subscription)
  BY DEF Stream!LossIsCounted
<1>1. received[subscription] \in 0..MaxMessages /\ cursor \in 0..MaxMessages
  BY Bounds DEF StreamInv, Polled, Started, Stream!TypeOK
<1> DEFINE old == Stream!Oldest(subscription)
<1>2. old \in Nat /\ old >= 1
  BY <1>1, Bounds DEF Stream!Oldest
<1> HIDE DEF old
<1>3. Stream!Missed \subseteq 1..(old - 1)
  <2>1. \A n \in 1..cursor : <<subscription, n>> \in seen \/ n < old
    BY DEF StreamInv, Watching, Covered, old
  <2>2. ASSUME NEW n \in Stream!Missed PROVE n \in 1..(old - 1)
    <3>1. /\ n \in 1..received[subscription] /\ <<subscription, n>> \notin seen
          /\ n <= cursor \/ n < old
      BY DEF Stream!Missed, old
    <3>2. n < old
      BY <1>1, <2>1, <3>1
    <3> QED BY <1>1, <1>2, <3>1, <3>2
  <2> QED BY <2>2
<1>4. IsFiniteSet(1..(old - 1)) /\ Cardinality(1..(old - 1)) = old - 1
  <2>1. 1 \in Int /\ old - 1 \in Int /\ (IF 1 > old - 1 THEN 0 ELSE old - 1 - 1 + 1) = old - 1
    BY <1>2
  <2>2. /\ IsFiniteSet(1..(old - 1))
        /\ Cardinality(1..(old - 1)) = IF 1 > old - 1 THEN 0 ELSE old - 1 - 1 + 1
    BY <2>1, FS_Interval
  <2> QED BY <2>1, <2>2
<1>5. Cardinality(Stream!Missed) <= old - 1
  BY <1>3, <1>4, FS_Subset
<1> QED BY <1>5, SameCardinality DEF old, Stream!Lost

LEMMA StreamInitInv == Stream!Init => StreamInv
<1> SUFFICES ASSUME Stream!Init PROVE StreamInv
  OBVIOUS
<1> USE DEF Stream!Init
<1>1. received \in [Stream!Ids -> -1..MaxMessages] /\ 0 \in 0..MaxStreams /\ 0 \in 0..MaxMessages
  BY Bounds
<1>2. messages \in Seq(Stream!Row) /\ Len(messages) = 0 /\ 0 <= Keep
  BY Bounds
<1>3. Stream!TypeOK
  BY <1>1, <1>2 DEF Stream!TypeOK
<1>4. IsFiniteSet(bridgeCalls)
  BY FS_EmptySet
<1> QED BY <1>3, <1>4 DEF StreamInv, Polled, Watching, Stream!Of

--------------------------------------------------------------------------------
(* The driver's side. *)

(* The ring only moves on. *)
LEMMA OldestGrows ==
    ASSUME Stream!TypeOK, Stream!TypeOK', NEW id \in Stream!Ids, received[id] <= received'[id]
    PROVE  /\ Stream!Oldest(id) \in Int /\ Stream!Oldest(id)' \in Int
           /\ Stream!Oldest(id) <= Stream!Oldest(id)'
<1>1. received[id] \in Int /\ received'[id] \in Int
  BY DEF Stream!TypeOK
<1> QED BY <1>1, Bounds DEF Stream!Oldest

(* What was covered stays so while the stream is watched. *)
LEMMA CoveredStays ==
    ASSUME Stream!TypeOK, Stream!TypeOK', NEW id \in Stream!Ids, received[id] <= received'[id],
           seen \subseteq seen'
    PROVE  /\ \A k \in Int : Covered(id, k) => Covered(id, k)'
           /\ \A c \in bridgeCalls : c.id = id /\ Brings(c) => Brings(c)'
<1>1. /\ Stream!Oldest(id) \in Int /\ Stream!Oldest(id)' \in Int
      /\ Stream!Oldest(id) <= Stream!Oldest(id)'
  BY OldestGrows
<1>2. \A n \in Int : n < Stream!Oldest(id) => n < Stream!Oldest(id)'
  BY <1>1
<1>3. ASSUME NEW k \in Int, Covered(id, k) PROVE Covered(id, k)'
  BY <1>2, <1>3 DEF Covered
<1>4. ASSUME NEW c \in bridgeCalls, c.id = id, Brings(c) PROVE Brings(c)'
  <2>1. c.batch.cursor \in Int
    BY DEF Stream!TypeOK, Stream!CallRecord
  <2>2. ASSUME NEW n \in 1..c.batch.cursor, n < Stream!Oldest(id) PROVE n < Stream!Oldest(id)'
    BY <1>1, <2>1, <2>2
  <2> QED BY <1>4, <2>2 DEF Brings
<1> QED BY <1>3, <1>4

(* What a call changes of the set of calls. *)
LEMMA CallsStayFinite ==
    ASSUME IsFiniteSet(bridgeCalls), NEW c, NEW d
    PROVE  /\ IsFiniteSet((bridgeCalls \ {c}) \cup {d}) /\ IsFiniteSet(bridgeCalls \ {c})
           /\ IsFiniteSet(bridgeCalls \cup {d})
<1>1. IsFiniteSet(bridgeCalls \ {c})
  BY FS_RemoveElement
<1>2. IsFiniteSet((bridgeCalls \ {c}) \cup {d}) /\ IsFiniteSet(bridgeCalls \cup {d})
  BY <1>1, FS_AddElement
<1> QED BY <1>1, <1>2

(* Calls that stay, calls that are not polls, and polls of the stream watched that were
   sent from where its panel is. *)
LEMMA CallsKeep ==
    ASSUME StreamInv, Stream!TypeOK', UNCHANGED <<subscription, cursor, running, seen, crossed>>,
           \A id \in Stream!Ids : received[id] <= received'[id],
           \A c \in bridgeCalls' :
              \/ c \in bridgeCalls
              \/ c.kind # "poll" /\ (c.kind # "list" \/ c.answer = "ok" => Started(c.id))
              \/ /\ c.kind = "poll" /\ running /\ Started(c.id)
                 /\ subscription # 0 /\ ~crossed => c.id = subscription /\ Covered(c.id, c.after)
                 /\ c.answer = "ok" /\ Covered(c.id, c.after) => Brings(c)'
    PROVE  Polled' /\ Watching'
<1>1. \A id \in Stream!Ids : Started(id) => Started(id)'
  <2>1. \A id \in Stream!Ids : received[id] \in Int /\ received'[id] \in Int
    BY DEF StreamInv, Stream!TypeOK
  <2> QED BY <2>1 DEF Started
<1>2. Polled'
  <2>1. subscription # 0 => Started(subscription)'
    BY <1>1 DEF StreamInv, Polled, Started
  <2>2. \A c \in bridgeCalls' : c.kind # "list" \/ c.answer = "ok" => Started(c.id)'
    BY <1>1 DEF StreamInv, Polled, Started
  <2>3. ~running => \A c \in bridgeCalls' : c.kind # "poll"
    BY DEF StreamInv, Polled, Stream!Of
  <2> QED BY <2>1, <2>2, <2>3 DEF StreamInv, Polled, Stream!Of
<1>3. ASSUME subscription # 0, ~crossed PROVE /\ Covered(subscription, cursor)'
         /\ \A c \in Stream!Of("poll")' : /\ c.id = subscription /\ Covered(c.id, c.after)'
                                          /\ c.answer = "ok" => Brings(c)'
  <2>1. /\ subscription \in Stream!Ids /\ seen \subseteq seen' /\ cursor \in Int
        /\ received[subscription] <= received'[subscription]
    BY <1>3 DEF StreamInv, Polled, Started, Stream!TypeOK
  <2>2. /\ \A k \in Int : Covered(subscription, k) => Covered(subscription, k)'
        /\ \A c \in bridgeCalls : c.id = subscription /\ Brings(c) => Brings(c)'
    BY <2>1, CoveredStays DEF StreamInv
  <2>3. Covered(subscription, cursor)'
    <3>1. Covered(subscription, cursor)
      BY <1>3 DEF StreamInv, Watching
    <3>2. \A k \in Int : cursor = k => Covered(subscription, k)'
      BY <2>2, <3>1
    <3> QED BY <2>1, <3>2 DEF Covered
  <2>4. ASSUME NEW c \in Stream!Of("poll")'
        PROVE  c.id = subscription /\ Covered(c.id, c.after)' /\ (c.answer = "ok" => Brings(c)')
    <3>1. c \in bridgeCalls' /\ c.kind = "poll" /\ c.after \in Int
      BY DEF Stream!Of, Stream!TypeOK, Stream!CallRecord
    <3>2. CASE c \in bridgeCalls
      <4>1. c.id = subscription /\ Covered(c.id, c.after) /\ (c.answer = "ok" => Brings(c))
        BY <1>3, <3>1, <3>2 DEF StreamInv, Watching, Stream!Of
      <4> QED BY <2>2, <3>1, <3>2, <4>1
    <3>3. CASE c \notin bridgeCalls
      <4>1. c.id = subscription /\ Covered(c.id, c.after) /\ (c.answer = "ok" => Brings(c)')
        BY <1>3, <3>1, <3>3
      <4> QED BY <2>2, <3>1, <4>1
    <3> QED BY <3>2, <3>3
  <2> QED BY <2>3, <2>4
<1>4. Watching'
  BY <1>3 DEF Watching
<1> QED BY <1>2, <1>4

(* What the driver answers a poll with, and that it leaves no hole. *)
LEMMA PollBrings ==
    ASSUME Stream!TypeOK, NEW id, Started(id), NEW after \in 0..MaxMessages
    PROVE  LET b == Stream!Poll(id, after) IN
           /\ b \in BatchRecord
           /\ Covered(id, after) =>
                 \A n \in 1..b.cursor : \/ <<id, n>> \in seen
                                        \/ n < Stream!Oldest(id)
                                        \/ \E i \in 1..Len(b.rows) : b.rows[i] = <<id, n>>
<1> DEFINE b == Stream!Poll(id, after)
           old == Stream!Oldest(id)
           first == IF after + 1 > old THEN after + 1 ELSE old
           last == IF first + Keep - 1 < received[id] THEN first + Keep - 1 ELSE received[id]
           size == IF first <= last THEN last - first + 1 ELSE 0
<1>1. id \in Stream!Ids /\ received[id] \in 0..MaxMessages
  BY Bounds DEF Stream!TypeOK, Started
<1>2. old \in 1..(received[id] + 1) /\ old - 1 \in 0..MaxMessages
  BY <1>1, Bounds DEF Stream!Oldest
<1>3. b = [cursor |-> IF first <= last THEN last ELSE after, dropped |-> old - 1,
           rows |-> [i \in 1..size |-> <<id, first + i - 1>>]]
  BY DEF Stream!Poll, Stream!Lost
<1> HIDE DEF old, b
<1>4. /\ first \in Nat /\ first >= 1 /\ first >= old /\ first >= after + 1 /\ first \in {after + 1, old}
      /\ last \in Int /\ last <= received[id]
  BY <1>1, <1>2, Bounds
<1> HIDE DEF first, last
<1>5. size \in Nat /\ \A i \in 1..size : first + i - 1 \in 1..MaxMessages
  BY <1>1, <1>4, Bounds
<1> DEFINE rows == [i \in 1..size |-> <<id, first + i - 1>>]
<1>6. rows \in Seq(Stream!Row) /\ Len(rows) = size
  <2> HIDE DEF size
  <2>1. rows \in [1..size -> Stream!Row]
    BY <1>1, <1>5 DEF Stream!Row
  <2> QED BY <1>5, <2>1, SeqDef
<1>7. /\ b.cursor \in 0..MaxMessages
      /\ \/ b.cursor = last /\ first <= last
         \/ b.cursor = after /\ first > last
  BY <1>1, <1>3, <1>4, Bounds
<1>8. b \in BatchRecord
  BY <1>2, <1>3, <1>6, <1>7 DEF BatchRecord
<1>9. ASSUME Covered(id, after), NEW n \in 1..b.cursor
      PROVE  <<id, n>> \in seen \/ n < old \/ \E i \in 1..Len(rows) : rows[i] = <<id, n>>
  <2>1. CASE n <= after
    BY <1>9, <2>1 DEF Covered, old
  <2>2. CASE n > after /\ n >= old
    <3>1. b.cursor = last /\ first <= last /\ n \in first..last
      BY <1>2, <1>4, <1>7, <1>9, <2>2
    <3>2. n - first + 1 \in 1..size /\ first + (n - first + 1) - 1 = n
      BY <1>4, <3>1
    <3> HIDE DEF size
    <3>3. rows[n - first + 1] = <<id, n>>
      BY <3>2
    <3> QED BY <1>6, <3>2, <3>3
  <2>3. n \in Int /\ old \in Int
    BY <1>2, <1>7
  <2>4. CASE n > after /\ n < old
    BY <2>4
  <2> HIDE DEF rows
  <2> QED BY <2>1, <2>2, <2>3, <2>4
<1> HIDE DEF rows
<1>10. b.rows = rows
  BY <1>3 DEF rows
<1> QED BY <1>8, <1>9, <1>10 DEF b, old

(* One call is answered. *)
LEMMA AnsweredKeeps ==
    ASSUME StreamInv, NEW c \in bridgeCalls, NEW d \in Stream!CallRecord,
           bridgeCalls' = (bridgeCalls \ {c}) \cup {d}, UNCHANGED received, UNCHANGED Stream!panel,
           open' \subseteq {id \in Stream!Ids : received[id] >= 0},
           \/ d.kind # "poll" /\ (d.kind # "list" \/ d.answer = "ok" => Started(d.id))
           \/ /\ d.kind = "poll" /\ c.kind = "poll" /\ d.id = c.id /\ d.after = c.after
              /\ d.answer = "ok" /\ Covered(d.id, d.after) => Brings(d)'
    PROVE  StreamInv'
<1>1. UNCHANGED <<received, mounted, subscription, cursor, running, messages, dropped, seen, crossed>>
  BY DEF Stream!panel
<1>2. Stream!TypeOK'
  BY <1>1 DEF StreamInv, Stream!TypeOK
<1>3. IsFiniteSet(bridgeCalls')
  BY CallsStayFinite DEF StreamInv
<1>4. \A id \in Stream!Ids : received[id] <= received'[id]
  BY <1>1 DEF StreamInv, Stream!TypeOK
<1>5. c.kind = "poll" => /\ running /\ Started(c.id)
                         /\ subscription # 0 /\ ~crossed => c.id = subscription /\ Covered(c.id, c.after)
  BY DEF StreamInv, Polled, Watching, Stream!Of
<1>6. Polled' /\ Watching'
  BY <1>1, <1>2, <1>4, <1>5, CallsKeep
<1> QED BY <1>2, <1>3, <1>6 DEF StreamInv

LEMMA DriverKeeps ==
    ASSUME StreamInv, NEW c \in bridgeCalls,
           Stream!DriverStart(c) \/ Stream!DriverPoll(c) \/ Stream!DriverList(c)
    PROVE  StreamInv'
<1>1. /\ c \in Stream!CallRecord /\ (c.kind # "list" \/ c.answer = "ok" => Started(c.id))
      /\ open \subseteq {id \in Stream!Ids : received[id] >= 0}
  BY DEF StreamInv, Polled, Stream!TypeOK
<1>2. Stream!NoBatch \in BatchRecord
  BY Bounds DEF Stream!NoBatch, BatchRecord
<1>3. \A answer_ \in {"ok", "failed", "none"}, batch_ \in BatchRecord :
         LET d == [c EXCEPT !.answer = answer_, !.batch = batch_] IN
         /\ d \in Stream!CallRecord /\ d.kind = c.kind /\ d.id = c.id /\ d.after = c.after
         /\ d.answer = answer_ /\ d.batch = batch_
  BY <1>1 DEF Stream!CallRecord, BatchRecord
<1>4. CASE Stream!DriverStart(c)
  <2>1. PICK answer_ \in {"ok", "failed"} :
           bridgeCalls' = (bridgeCalls \ {c}) \cup {[c EXCEPT !.answer = answer_, !.batch = Stream!NoBatch]}
    BY <1>4 DEF Stream!DriverStart, Stream!Answer
  <2>2. c.kind = "start" /\ Started(c.id) /\ open' \subseteq open \cup {c.id}
        /\ UNCHANGED received /\ UNCHANGED Stream!panel
    BY <1>1, <1>4 DEF Stream!DriverStart
  <2>3. open' \subseteq {id \in Stream!Ids : received[id] >= 0}
    BY <1>1, <2>2 DEF Started
  <2> DEFINE d == [c EXCEPT !.answer = answer_, !.batch = Stream!NoBatch]
  <2>4. d \in Stream!CallRecord /\ d.kind = "start" /\ d.id = c.id
    <3>1. answer_ \in {"ok", "failed", "none"}
      OBVIOUS
    <3>2. d \in Stream!CallRecord /\ d.kind = c.kind /\ d.id = c.id
      BY <1>1, <1>2, <3>1 DEF Stream!CallRecord, BatchRecord
    <3> QED BY <2>2, <3>2
  <2> HIDE DEF d
  <2>5. bridgeCalls' = (bridgeCalls \ {c}) \cup {d}
    BY <2>1 DEF d
  <2> QED BY <2>2, <2>3, <2>4, <2>5, AnsweredKeeps
<1>5. CASE Stream!DriverPoll(c)
  <2>1. /\ c.kind = "poll" /\ UNCHANGED <<received, open>> /\ UNCHANGED Stream!panel
        /\ Started(c.id) /\ c.after \in 0..MaxMessages
    BY <1>1, <1>5 DEF Stream!DriverPoll, Stream!CallRecord
  <2>2. PICK b \in BatchRecord :
           /\ b = Stream!Poll(c.id, c.after)
           /\ Covered(c.id, c.after) =>
                 \A n \in 1..b.cursor : \/ <<c.id, n>> \in seen
                                        \/ n < Stream!Oldest(c.id)
                                        \/ \E i \in 1..Len(b.rows) : b.rows[i] = <<c.id, n>>
    BY <2>1, PollBrings DEF StreamInv
  <2>3. CASE bridgeCalls' = (bridgeCalls \ {c}) \cup {[c EXCEPT !.answer = "ok", !.batch = b]}
    <3> DEFINE d == [c EXCEPT !.answer = "ok", !.batch = b]
    <3>1. /\ d \in Stream!CallRecord /\ d.kind = "poll" /\ d.id = c.id /\ d.after = c.after
          /\ d.batch = b
      BY <1>3, <2>1, <2>2
    <3> HIDE DEF d
    <3>2. bridgeCalls' = (bridgeCalls \ {c}) \cup {d}
      BY <2>3 DEF d
    <3>3. UNCHANGED seen /\ UNCHANGED received
      BY <2>1 DEF Stream!panel
    <3>4. ASSUME Covered(d.id, d.after) PROVE Brings(d)'
      <4>1. Stream!Oldest(c.id)' = Stream!Oldest(c.id) /\ Covered(c.id, c.after)
        BY <3>1, <3>3, <3>4 DEF Stream!Oldest
      <4> QED BY <2>2, <3>1, <3>3, <4>1 DEF Brings
    <3> QED BY <1>1, <2>1, <3>1, <3>2, <3>4, AnsweredKeeps
  <2>4. CASE bridgeCalls' = (bridgeCalls \ {c}) \cup {[c EXCEPT !.answer = "failed", !.batch = Stream!NoBatch]}
    <3> DEFINE d == [c EXCEPT !.answer = "failed", !.batch = Stream!NoBatch]
    <3>1. /\ d \in Stream!CallRecord /\ d.kind = "poll" /\ d.id = c.id /\ d.after = c.after
          /\ d.answer = "failed"
      BY <1>2, <1>3, <2>1
    <3> HIDE DEF d
    <3>2. bridgeCalls' = (bridgeCalls \ {c}) \cup {d}
      BY <2>4 DEF d
    <3> QED BY <1>1, <2>1, <3>1, <3>2, AnsweredKeeps
  <2> QED BY <1>5, <2>2, <2>3, <2>4 DEF Stream!DriverPoll, Stream!Answer
<1>6. CASE Stream!DriverList(c)
  <2>1. c.kind = "list" /\ UNCHANGED <<received, open>> /\ UNCHANGED Stream!panel
    BY <1>6 DEF Stream!DriverList
  <2>2. CASE bridgeCalls' = (bridgeCalls \ {c}) \cup {[c EXCEPT !.answer = "none", !.batch = Stream!NoBatch]}
    <3> DEFINE d == [c EXCEPT !.answer = "none", !.batch = Stream!NoBatch]
    <3>1. d \in Stream!CallRecord /\ d.kind = "list" /\ d.answer = "none"
      BY <1>2, <1>3, <2>1
    <3> HIDE DEF d
    <3>2. bridgeCalls' = (bridgeCalls \ {c}) \cup {d}
      BY <2>2 DEF d
    <3> QED BY <1>1, <2>1, <3>1, <3>2, AnsweredKeeps
  <2>3. ASSUME NEW id \in open, bridgeCalls' = (bridgeCalls \ {c}) \cup {[c EXCEPT !.answer = "ok", !.id = id]}
        PROVE  StreamInv'
    <3> DEFINE d == [c EXCEPT !.answer = "ok", !.id = id]
    <3>1. d \in Stream!CallRecord /\ d.kind = "list" /\ d.id = id
      <4>1. id \in 0..MaxStreams
        BY <1>1, <2>3 DEF Stream!Ids
      <4> QED BY <1>1, <2>1, <4>1 DEF Stream!CallRecord
    <3> HIDE DEF d
    <3>2. bridgeCalls' = (bridgeCalls \ {c}) \cup {d}
      BY <2>3 DEF d
    <3>3. Started(id)
      BY <1>1 DEF Started
    <3> QED BY <1>1, <2>1, <3>1, <3>2, <3>3, AnsweredKeeps
  <2> QED BY <1>6, <2>2, <2>3 DEF Stream!DriverList, Stream!Answer
<1> QED BY <1>4, <1>5, <1>6

LEMMA WorldKeeps == ASSUME StreamInv, Stream!World PROVE StreamInv'
<1>1. UNCHANGED <<mounted, subscription, cursor, running, messages, dropped, seen, crossed, bridgeCalls>>
  BY DEF Stream!World, Stream!CloseConnection, Stream!Deliver, Stream!panel
<1>2. /\ received' \in [Stream!Ids -> -1..MaxMessages]
      /\ \A id \in Stream!Ids : received[id] \in Int /\ received'[id] \in Int /\ received[id] <= received'[id]
      /\ open' \subseteq open
  <2>1. CASE Stream!CloseConnection
    BY <2>1 DEF Stream!CloseConnection, StreamInv, Stream!TypeOK
  <2>2. ASSUME NEW id \in Stream!Ids, Stream!Deliver(id)
        PROVE  /\ received' \in [Stream!Ids -> -1..MaxMessages] /\ open' = open
               /\ \A i \in Stream!Ids : received[i] \in Int /\ received'[i] \in Int /\ received[i] <= received'[i]
    <3>1. /\ received \in [Stream!Ids -> -1..MaxMessages] /\ received[id] < MaxMessages
          /\ received' = [received EXCEPT ![id] = received[id] + 1] /\ open' = open
      BY <2>2 DEF Stream!Deliver, StreamInv, Stream!TypeOK
    <3>2. received[id] + 1 \in -1..MaxMessages
      BY <3>1, Bounds
    <3> QED BY <3>1, <3>2
  <2> QED BY <2>1, <2>2 DEF Stream!World
<1>3. Stream!TypeOK'
  <2>1. open' \subseteq {id \in Stream!Ids : received'[id] >= 0}
    BY <1>2 DEF StreamInv, Stream!TypeOK
  <2> QED BY <1>1, <1>2, <2>1 DEF StreamInv, Stream!TypeOK
<1>4. Polled' /\ Watching'
  BY <1>1, <1>2, <1>3, CallsKeep
<1> QED BY <1>1, <1>3, <1>4 DEF StreamInv

--------------------------------------------------------------------------------
(* The panel's side. *)

(* A panel that no longer runs has no polls. *)
LEMMA QuietKeeps ==
    ASSUME StreamInv, Stream!TypeOK', running' = FALSE,
           \/ subscription' = 0 /\ (\A id \in Stream!Ids : Started(id) => Started(id)')
           \/ UNCHANGED <<subscription, cursor, seen, crossed, received>>,
           \A c \in bridgeCalls' :
              c.kind # "poll" /\ (c.kind # "list" \/ c.answer = "ok" => Started(c.id)')
    PROVE  Polled' /\ Watching'
<1>1. Stream!Of("poll")' = {}
  BY DEF Stream!Of
<1>2. CASE subscription' = 0
  BY <1>1, <1>2 DEF Polled, Watching
<1>3. CASE UNCHANGED <<subscription, cursor, seen, crossed, received>>
  <2>1. subscription # 0 => Started(subscription)'
    BY <1>3 DEF StreamInv, Polled, Started
  <2>2. subscription # 0 /\ ~crossed => Covered(subscription, cursor)'
    BY <1>3 DEF StreamInv, Watching, Covered, Stream!Oldest
  <2>3. Watching'
    BY <1>1, <1>3, <2>2 DEF Watching
  <2>4. Polled'
    BY <1>1, <1>3, <2>1 DEF Polled
  <2> QED BY <2>3, <2>4
<1> QED BY <1>2, <1>3

(* Taking up a stream: polls that are under way are of the one that was watched. *)
LEMMA WatchKeeps ==
    ASSUME StreamInv, NEW c \in bridgeCalls, Started(c.id), Stream!Watch(c.id), cursor' \in {cursor, 0},
           bridgeCalls' = bridgeCalls \ {c},
           UNCHANGED <<received, open, mounted, messages, dropped, seen>>
    PROVE  StreamInv'
<1>1. /\ subscription' = c.id /\ running' = TRUE /\ c.id \in Stream!Ids
      /\ crossed' = (crossed \/ subscription \notin {0, c.id} \/ cursor' # 0)
  BY DEF Stream!Watch, Started
<1>2. Stream!TypeOK'
  <2>1. 0 \in 0..MaxMessages /\ c.id \in 0..MaxStreams /\ crossed' \in BOOLEAN
    BY <1>1, Bounds DEF Stream!Ids
  <2> QED BY <1>1, <2>1 DEF StreamInv, Stream!TypeOK
<1>3. IsFiniteSet(bridgeCalls')
  BY CallsStayFinite DEF StreamInv
<1>4. Polled'
  <2>1. c.id # 0
    BY <1>1, Bounds DEF Stream!Ids
  <2> QED BY <1>1, <2>1 DEF StreamInv, Polled, Started, Stream!Of
<1>5. Watching'
  <2>1. SUFFICES ASSUME ~crossed' PROVE Covered(c.id, cursor)' /\ \A p \in Stream!Of("poll")' :
                       /\ p.id = c.id /\ Covered(p.id, p.after)'
                       /\ p.answer = "ok" => Brings(p)'
    BY <1>1 DEF Watching
  <2>2. ~crossed /\ subscription \in {0, c.id} /\ cursor' = 0
    BY <1>1, <2>1
  <2>3. Covered(c.id, cursor)'
    BY <2>2 DEF Covered
  <2>4. ASSUME NEW p \in Stream!Of("poll")'
        PROVE  p.id = c.id /\ Covered(p.id, p.after)' /\ (p.answer = "ok" => Brings(p)')
    <3>1. p \in Stream!Of("poll")
      BY DEF Stream!Of
    <3>2. subscription # 0
      BY <3>1 DEF StreamInv, Polled
    <3>3. p.id = c.id /\ Covered(p.id, p.after) /\ (p.answer = "ok" => Brings(p))
      BY <2>2, <3>1, <3>2 DEF StreamInv, Watching
    <3>4. Stream!Oldest(p.id)' = Stream!Oldest(p.id)
      BY DEF Stream!Oldest
    <3> QED BY <3>3, <3>4 DEF Covered, Brings
  <2> QED BY <2>3, <2>4
<1> QED BY <1>2, <1>3, <1>4, <1>5 DEF StreamInv

(* A subset of the calls is finite and typed. *)
LEMMA FewerCalls ==
    ASSUME StreamInv, bridgeCalls' \subseteq bridgeCalls
    PROVE  IsFiniteSet(bridgeCalls') /\ bridgeCalls' \subseteq Stream!CallRecord
BY FS_Subset DEF StreamInv, Stream!TypeOK

LEMMA StartReplyKeeps == ASSUME StreamInv, NEW c \in bridgeCalls, Stream!StartReply(c) PROVE StreamInv'
<1>1. /\ c.kind = "start" /\ UNCHANGED <<received, open>>
      /\ Started(c.id)
  BY DEF Stream!StartReply, StreamInv, Polled
<1>2. CASE ~mounted \/ c.no = 1
  <2>1. bridgeCalls' = bridgeCalls \ {c}
        /\ UNCHANGED <<mounted, subscription, cursor, running, messages, dropped, seen, crossed>>
    BY <1>2 DEF Stream!StartReply, Stream!panel
  <2>2. Stream!TypeOK' /\ IsFiniteSet(bridgeCalls')
    BY <1>1, <2>1, FewerCalls DEF StreamInv, Stream!TypeOK
  <2>3. \A id \in Stream!Ids : received[id] <= received'[id]
    BY <1>1 DEF StreamInv, Stream!TypeOK
  <2> QED BY <2>1, <2>2, <2>3, CallsKeep DEF StreamInv
<1>3. CASE ~(~mounted \/ c.no = 1) /\ c.answer = "ok"
  <2>1. /\ Stream!Watch(c.id) /\ bridgeCalls' = bridgeCalls \ {c}
        /\ UNCHANGED <<mounted, cursor, messages, dropped, seen>>
    BY <1>3 DEF Stream!StartReply
  <2> QED BY <1>1, <2>1, WatchKeeps
<1>4. CASE ~(~mounted \/ c.no = 1) /\ c.answer # "ok"
  <2>1. /\ running' = FALSE /\ bridgeCalls' = Stream!WithoutPolls(bridgeCalls \ {c})
        /\ UNCHANGED <<mounted, subscription, cursor, messages, dropped, seen, crossed>>
    BY <1>4 DEF Stream!StartReply
  <2>2. bridgeCalls' \subseteq bridgeCalls /\ \A d \in bridgeCalls' : d.kind # "poll"
    BY <2>1 DEF Stream!WithoutPolls
  <2>3. Stream!TypeOK' /\ IsFiniteSet(bridgeCalls')
    BY <1>1, <2>1, <2>2, FewerCalls DEF StreamInv, Stream!TypeOK
  <2>4. \A d \in bridgeCalls' : d.kind # "list" \/ d.answer = "ok" => Started(d.id)'
    BY <1>1, <2>2 DEF StreamInv, Polled, Started
  <2> QED BY <1>1, <2>1, <2>2, <2>3, <2>4, QuietKeeps DEF StreamInv
<1> QED BY <1>2, <1>3, <1>4

LEMMA AdoptKeeps == ASSUME StreamInv, NEW c \in bridgeCalls, Stream!Adopt(c) PROVE StreamInv'
<1>1. c.kind = "list" /\ UNCHANGED <<received, open>> /\ bridgeCalls' = bridgeCalls \ {c}
  BY DEF Stream!Adopt
<1>2. CASE c.answer = "ok"
  <2>1. /\ cursor' = 0 /\ Stream!Watch(c.id) /\ UNCHANGED <<mounted, messages, dropped, seen>>
        /\ Started(c.id)
    BY <1>2 DEF Stream!Adopt, StreamInv, Polled
  <2> QED BY <1>1, <2>1, WatchKeeps
<1>3. CASE c.answer # "ok"
  <2>1. UNCHANGED <<mounted, subscription, cursor, running, messages, dropped, seen, crossed>>
    BY <1>3 DEF Stream!Adopt, Stream!panel
  <2>2. Stream!TypeOK' /\ IsFiniteSet(bridgeCalls')
    BY <1>1, <2>1, FewerCalls DEF StreamInv, Stream!TypeOK
  <2>3. \A id \in Stream!Ids : received[id] <= received'[id]
    BY <1>1 DEF StreamInv, Stream!TypeOK
  <2> QED BY <1>1, <2>1, <2>2, <2>3, CallsKeep DEF StreamInv
<1> QED BY <1>2, <1>3

(* The buttons that end the polls. *)
LEMMA StopKeeps == ASSUME StreamInv, Stream!Stop PROVE StreamInv'
<1>1. /\ bridgeCalls' = Stream!WithoutPolls(bridgeCalls) /\ open' \subseteq open
      /\ subscription' = 0 /\ running' = FALSE
      /\ UNCHANGED <<received, mounted, cursor, messages, dropped, seen, crossed>>
  BY DEF Stream!Stop
<1>2. bridgeCalls' \subseteq bridgeCalls /\ \A d \in bridgeCalls' : d.kind # "poll"
  BY <1>1 DEF Stream!WithoutPolls
<1>3. Stream!TypeOK' /\ IsFiniteSet(bridgeCalls')
  <2>1. 0 \in 0..MaxStreams
    BY Bounds
  <2> QED BY <1>1, <1>2, <2>1, FewerCalls DEF StreamInv, Stream!TypeOK
<1>4. \A d \in bridgeCalls' : d.kind # "list" \/ d.answer = "ok" => Started(d.id)'
  BY <1>1, <1>2 DEF StreamInv, Polled, Started
<1>5. \A id \in Stream!Ids : Started(id) => Started(id)'
  BY <1>1 DEF Started
<1> QED BY <1>1, <1>2, <1>3, <1>4, <1>5, QuietKeeps DEF StreamInv

LEMMA ClearKeeps == ASSUME StreamInv, Stream!Clear PROVE StreamInv'
<1>1. /\ messages' = <<>>
      /\ UNCHANGED <<received, open, mounted, subscription, cursor, running, dropped, bridgeCalls, seen, crossed>>
  BY DEF Stream!Clear
<1>2. messages' \in Seq(Stream!Row) /\ Len(messages') = 0 /\ 0 <= Keep
  BY <1>1, Bounds
<1>3. Stream!TypeOK'
  BY <1>1, <1>2 DEF StreamInv, Stream!TypeOK
<1>4. \A id \in Stream!Ids : received[id] <= received'[id]
  BY <1>1 DEF StreamInv, Stream!TypeOK
<1> QED BY <1>1, <1>3, <1>4, CallsKeep DEF StreamInv

LEMMA UnmountKeeps == ASSUME StreamInv, Stream!Unmount PROVE StreamInv'
<1>1. /\ mounted' = FALSE /\ subscription' = 0 /\ cursor' = 0 /\ running' = FALSE
      /\ messages' = <<>> /\ dropped' = 0 /\ seen' = {} /\ crossed' = FALSE
      /\ bridgeCalls' = {[c EXCEPT !.no = 1] : c \in Stream!Of("start")}
      /\ UNCHANGED <<received, open>>
  BY DEF Stream!Unmount
<1>2. \A c \in Stream!Of("start") :
         /\ c \in Stream!CallRecord /\ c.kind = "start" /\ Started(c.id) /\ c \in bridgeCalls
  BY DEF Stream!Of, StreamInv, Stream!TypeOK, Polled
<1>3. \A c \in bridgeCalls' : c \in Stream!CallRecord /\ c.kind = "start" /\ Started(c.id)
  <2>1. \A c \in Stream!Of("start") :
           LET d == [c EXCEPT !.no = 1] IN d \in Stream!CallRecord /\ d.kind = "start" /\ d.id = c.id
    BY <1>2, Bounds DEF Stream!CallRecord
  <2> QED BY <1>1, <1>2, <2>1
<1>4. IsFiniteSet(bridgeCalls')
  <2> DEFINE S == Stream!Of("start")
             T == {[c EXCEPT !.no = 1] : c \in S}
             f == [c \in S |-> [c EXCEPT !.no = 1]]
  <2>1. IsFiniteSet(S)
    BY FS_Subset DEF StreamInv, Stream!Of
  <2> HIDE DEF S
  <2>2. f \in [S -> T] /\ \A t \in T : \E c \in S : f[c] = t
    OBVIOUS
  <2> HIDE DEF f, T
  <2>3. f \in Surjection(S, T)
    BY <2>2, Fun_IsSurj
  <2>4. IsFiniteSet(T)
    BY <2>1, <2>3, FS_Surjection
  <2> QED BY <1>1, <2>4 DEF T, S
<1>5. Stream!TypeOK'
  <2>1. messages' \in Seq(Stream!Row) /\ Len(messages') = 0 /\ 0 <= Keep /\ 0 \in 0..MaxMessages /\ 0 \in 0..MaxStreams
    BY <1>1, Bounds
  <2> QED BY <1>1, <1>3, <2>1 DEF StreamInv, Stream!TypeOK
<1>6. \A id \in Stream!Ids : Started(id) => Started(id)'
  BY <1>1 DEF Started
<1>7. \A c \in bridgeCalls' : c.kind # "poll" /\ Started(c.id)'
  BY <1>1, <1>3 DEF Started
<1> QED BY <1>1, <1>4, <1>5, <1>6, <1>7, QuietKeeps DEF StreamInv

LEMMA StartKeeps == ASSUME StreamInv, Stream!Start PROVE StreamInv'
<1>1. Stream!NextId \in Stream!Ids /\ received[Stream!NextId] = -1
  BY DEF Stream!Start, Stream!CanStart, Stream!NextId
<1>2. PICK id \in Stream!Ids : id = Stream!NextId /\ received[id] = -1
  BY <1>1
<1> DEFINE new == Stream!Call("start", id, 0, 0)
<1>3. /\ ~running /\ UNCHANGED <<mounted, running>>
      /\ received' = [received EXCEPT ![id] = 0] /\ bridgeCalls' = bridgeCalls \cup {new}
      /\ open' \subseteq open /\ subscription' = 0 /\ messages' = <<>> /\ dropped' = 0 /\ cursor' = 0
      /\ seen' = {} /\ crossed' = FALSE
  BY <1>2 DEF Stream!Start
<1>4. 0 \in 0..MaxMessages /\ 0 \in 0..MaxStreams /\ 0 \in -1..MaxMessages /\ 0 \in 0..MaxCalls /\ id \in 0..MaxStreams
  BY <1>2, Bounds DEF Stream!Ids
<1>5. received' \in [Stream!Ids -> -1..MaxMessages]
      /\ \A i \in Stream!Ids : Started(i) => Started(i)' /\ received'[i] = received[i]
  BY <1>2, <1>3, <1>4 DEF StreamInv, Stream!TypeOK, Started
<1>6. new \in Stream!CallRecord /\ new.kind = "start" /\ new.id = id
  <2>1. <<>> \in Seq(Stream!Row)
    OBVIOUS
  <2> QED BY <1>4, <2>1 DEF Stream!Call, Stream!CallRecord, Stream!NoBatch
<1> HIDE DEF new
<1>7. Started(id)'
  BY <1>2, <1>3, <1>5 DEF Started, StreamInv, Stream!TypeOK
<1>8. Stream!TypeOK'
  <2>1. messages' \in Seq(Stream!Row) /\ Len(messages') = 0 /\ 0 <= Keep
    BY <1>3, Bounds
  <2>2. open' \subseteq {i \in Stream!Ids : received'[i] >= 0}
    BY <1>3, <1>5 DEF StreamInv, Stream!TypeOK, Started
  <2> QED BY <1>3, <1>4, <1>5, <1>6, <2>1, <2>2 DEF StreamInv, Stream!TypeOK
<1>9. IsFiniteSet(bridgeCalls')
  BY <1>3, CallsStayFinite DEF StreamInv
<1>10. ASSUME NEW c \in bridgeCalls'
      PROVE  c.kind # "poll" /\ (c.kind # "list" \/ c.answer = "ok" => Started(c.id)')
  <2>1. CASE c \in bridgeCalls
    <3>1. c.kind # "list" \/ c.answer = "ok" => Started(c.id)
      BY <2>1 DEF StreamInv, Polled
    <3> QED BY <1>3, <1>5, <2>1, <3>1 DEF StreamInv, Polled, Stream!Of, Started
  <2>2. CASE c = new
    BY <1>6, <1>7, <2>2
  <2> QED BY <1>3, <2>1, <2>2
<1>11. running' = FALSE
  BY <1>3 DEF StreamInv, Stream!TypeOK
<1>12. Polled' /\ Watching'
  BY <1>3, <1>5, <1>8, <1>10, <1>11, QuietKeeps
<1> QED BY <1>8, <1>9, <1>12 DEF StreamInv

(* While there is room for a call, one of the numbers is free. *)
LEMMA NumberIsFree ==
    ASSUME StreamInv, Stream!Room
    PROVE  Stream!FreeNo \in 1..MaxCalls
<1> SUFFICES ASSUME \A no \in 1..MaxCalls : \E c \in Stream!Of("poll") : c.no = no PROVE FALSE
  BY DEF Stream!FreeNo
<1> DEFINE S == {c \in Stream!Of("poll") : c.no \in 1..MaxCalls}
           f == [c \in S |-> c.no]
<1>1. IsFiniteSet(S) /\ Cardinality(S) <= Cardinality(bridgeCalls)
  BY FS_Subset DEF StreamInv, Stream!Of
<1>2. f \in [S -> 1..MaxCalls] /\ \A no \in 1..MaxCalls : \E c \in S : f[c] = no
  OBVIOUS
<1> HIDE DEF S, f
<1>3. f \in Surjection(S, 1..MaxCalls)
  BY <1>2, Fun_IsSurj
<1>4. Cardinality(1..MaxCalls) <= Cardinality(S)
  BY <1>1, <1>3, FS_Surjection
<1>5. Cardinality(1..MaxCalls) = MaxCalls
  <2>1. 1 \in Int /\ MaxCalls \in Int /\ (IF 1 > MaxCalls THEN 0 ELSE MaxCalls - 1 + 1) = MaxCalls
    BY Bounds
  <2>2. Cardinality(1..MaxCalls) = IF 1 > MaxCalls THEN 0 ELSE MaxCalls - 1 + 1
    BY <2>1, FS_Interval
  <2> QED BY <2>1, <2>2
<1>6. Cardinality(bridgeCalls) < MaxCalls
  BY SameCardinality DEF Stream!Room
<1>7. Cardinality(S) \in Nat /\ Cardinality(bridgeCalls) \in Nat
  BY <1>1, FS_CardinalityType DEF StreamInv
<1> QED BY <1>1, <1>4, <1>5, <1>6, <1>7, Bounds

(* The calls that are sent. *)
LEMMA SentKeeps ==
    ASSUME StreamInv, NEW new \in Stream!CallRecord, bridgeCalls' = bridgeCalls \cup {new},
           UNCHANGED <<received, open, subscription, cursor, running, messages, dropped, seen, crossed>>,
           mounted' \in BOOLEAN, new.answer = "sent",
           \/ new.kind = "list"
           \/ new.kind = "poll" /\ running /\ subscription # 0 /\ new.id = subscription /\ new.after = cursor
    PROVE  StreamInv'
<1>1. Stream!TypeOK'
  BY DEF StreamInv, Stream!TypeOK
<1>2. IsFiniteSet(bridgeCalls')
  BY CallsStayFinite DEF StreamInv
<1>3. \A id \in Stream!Ids : received[id] <= received'[id]
  BY DEF StreamInv, Stream!TypeOK
<1>4. new.kind = "poll" =>
         /\ running /\ Started(new.id)
         /\ subscription # 0 /\ ~crossed => new.id = subscription /\ Covered(new.id, new.after)
  BY DEF StreamInv, Polled, Watching
<1>5. Polled' /\ Watching'
  BY <1>1, <1>3, <1>4, CallsKeep
<1> QED BY <1>1, <1>2, <1>5 DEF StreamInv

LEMMA SentIsTyped ==
    ASSUME NEW kind_ \in {"start", "poll", "list"}, NEW id \in 0..MaxStreams,
           NEW after_ \in 0..MaxMessages, NEW no_ \in 0..MaxCalls
    PROVE  /\ Stream!Call(kind_, id, after_, no_) \in Stream!CallRecord
           /\ Stream!Call(kind_, id, after_, no_).kind = kind_
           /\ Stream!Call(kind_, id, after_, no_).id = id
           /\ Stream!Call(kind_, id, after_, no_).after = after_
           /\ Stream!Call(kind_, id, after_, no_).answer = "sent"
<1>1. <<>> \in Seq(Stream!Row) /\ 0 \in 0..MaxMessages
  BY Bounds
<1> QED BY <1>1 DEF Stream!Call, Stream!CallRecord, Stream!NoBatch

LEMMA TickKeeps == ASSUME StreamInv, Stream!Tick PROVE StreamInv'
<1>1. /\ running /\ subscription # 0 /\ Stream!Room
      /\ bridgeCalls' = bridgeCalls \cup {Stream!Call("poll", subscription, cursor, Stream!FreeNo)}
      /\ UNCHANGED <<received, open, mounted, subscription, cursor, running, messages, dropped, seen, crossed>>
  BY DEF Stream!Tick, Stream!panel
<1>2. Stream!FreeNo \in 0..MaxCalls
  <2>1. \A k \in 1..MaxCalls : k \in 0..MaxCalls
    BY Bounds
  <2> QED BY <1>1, <2>1, NumberIsFree
<1>3. subscription \in 0..MaxStreams /\ cursor \in 0..MaxMessages /\ mounted \in BOOLEAN
  BY DEF StreamInv, Stream!TypeOK
<1>4. PICK new \in Stream!CallRecord :
         /\ new = Stream!Call("poll", subscription, cursor, Stream!FreeNo) /\ new.kind = "poll"
         /\ new.id = subscription /\ new.after = cursor /\ new.answer = "sent"
  BY <1>2, <1>3, SentIsTyped
<1> QED BY <1>1, <1>3, <1>4, SentKeeps

LEMMA MountKeeps == ASSUME StreamInv, Stream!Mount PROVE StreamInv'
<1>1. /\ bridgeCalls' = bridgeCalls \cup {Stream!Call("list", 0, 0, 0)} /\ mounted' = TRUE
      /\ UNCHANGED <<received, open, subscription, cursor, running, messages, dropped, seen, crossed>>
  BY DEF Stream!Mount
<1>2. PICK new \in Stream!CallRecord :
         new = Stream!Call("list", 0, 0, 0) /\ new.kind = "list" /\ new.answer = "sent"
  <2>1. 0 \in 0..MaxStreams /\ 0 \in 0..MaxMessages /\ 0 \in 0..MaxCalls
    BY Bounds
  <2> QED BY <2>1, SentIsTyped
<1> QED BY <1>1, <1>2, SentKeeps

(* The panel keeps the last rows. *)
LEMMA LastRowsFit ==
    ASSUME NEW s \in Seq(Stream!Row)
    PROVE  Stream!LastRows(s) \in Seq(Stream!Row) /\ Len(Stream!LastRows(s)) <= Keep
<1>1. Len(s) \in Nat /\ \A i \in 1..Len(s) : s[i] \in Stream!Row
  OBVIOUS
<1>2. CASE Len(s) > Keep
  <2> DEFINE m == Len(s) - Keep + 1
  <2>1. m \in Int /\ Len(s) \in Int /\ \A i \in m..Len(s) : i \in 1..Len(s)
    BY <1>1, <1>2, Bounds
  <2>2. \A i \in m..Len(s) : s[i] \in Stream!Row
    BY <1>1, <2>1
  <2> HIDE DEF m
  <2>3. /\ SubSeq(s, m, Len(s)) \in Seq(Stream!Row)
        /\ Len(SubSeq(s, m, Len(s))) = IF m <= Len(s) THEN Len(s) - m + 1 ELSE 0
    BY <2>1, <2>2, SubSeqProperties
  <2>4. (IF m <= Len(s) THEN Len(s) - m + 1 ELSE 0) <= Keep
    BY <1>1, <1>2, Bounds DEF m
  <2>5. Stream!LastRows(s) = SubSeq(s, m, Len(s))
    BY <1>2 DEF Stream!LastRows, m
  <2> QED BY <2>3, <2>4, <2>5
<1>3. CASE ~(Len(s) > Keep)
  BY <1>1, <1>3, Bounds DEF Stream!LastRows
<1> QED BY <1>2, <1>3

LEMMA PollReplyKeeps == ASSUME StreamInv, NEW c \in bridgeCalls, Stream!PollReply(c) PROVE StreamInv'
<1>1. /\ c.kind = "poll" /\ c \in Stream!Of("poll") /\ c \in Stream!CallRecord /\ running
      /\ subscription # 0 /\ UNCHANGED <<received, open>>
  BY DEF Stream!PollReply, StreamInv, Stream!TypeOK, Polled, Stream!Of
<1>2. CASE c.answer = "ok"
  <2> DEFINE batch_ == c.batch
  <2>1. /\ cursor' = batch_.cursor /\ dropped' = batch_.dropped
        /\ messages' = Stream!LastRows(messages \o batch_.rows)
        /\ seen' = seen \cup {batch_.rows[i] : i \in 1..Len(batch_.rows)}
        /\ bridgeCalls' = bridgeCalls \ {c} /\ UNCHANGED <<mounted, subscription, running, crossed>>
    BY <1>2 DEF Stream!PollReply
  <2>2. /\ batch_.cursor \in 0..MaxMessages /\ batch_.dropped \in 0..MaxMessages
        /\ batch_.rows \in Seq(Stream!Row)
    BY <1>1 DEF Stream!CallRecord
  <2>3. messages' \in Seq(Stream!Row) /\ Len(messages') <= Keep
    <3>1. messages \o batch_.rows \in Seq(Stream!Row)
      BY <2>2, ConcatProperties DEF StreamInv, Stream!TypeOK
    <3> QED BY <2>1, <3>1, LastRowsFit
  <2>4. seen \subseteq seen' /\ seen' \subseteq Stream!Row
    <3>1. \A i \in 1..Len(batch_.rows) : batch_.rows[i] \in Stream!Row
      BY <2>2
    <3> QED BY <2>1, <3>1 DEF StreamInv, Stream!TypeOK
  <2>5. Stream!TypeOK' /\ IsFiniteSet(bridgeCalls')
    BY <1>1, <2>1, <2>2, <2>3, <2>4, FewerCalls DEF StreamInv, Stream!TypeOK
  <2>6. Polled'
    BY <1>1, <2>1 DEF StreamInv, Polled, Started, Stream!Of
  <2>7. ASSUME ~crossed
        PROVE  /\ Covered(subscription, cursor)'
               /\ \A p \in Stream!Of("poll")' : /\ p.id = subscription /\ Covered(p.id, p.after)'
                                                /\ p.answer = "ok" => Brings(p)'
    <3>1. subscription \in Stream!Ids /\ received[subscription] <= received'[subscription]
      BY <1>1 DEF StreamInv, Polled, Started, Stream!TypeOK
    <3>2. /\ \A k \in Int : Covered(subscription, k) => Covered(subscription, k)'
          /\ \A p \in bridgeCalls : p.id = subscription /\ Brings(p) => Brings(p)'
      BY <2>1, <2>4, <2>5, <3>1, CoveredStays DEF StreamInv
    <3>3. c.id = subscription /\ Brings(c)
      BY <1>1, <1>2, <2>7 DEF StreamInv, Watching
    <3>4. Covered(subscription, cursor)'
      <4>1. Stream!Oldest(subscription)' = Stream!Oldest(subscription)
        BY <1>1, <2>1 DEF Stream!Oldest
      <4>2. \A n \in 1..batch_.cursor : <<subscription, n>> \in seen' \/ n < Stream!Oldest(subscription)
        BY <2>1, <3>3 DEF Brings
      <4> QED BY <2>1, <4>1, <4>2 DEF Covered
    <3>5. ASSUME NEW p \in Stream!Of("poll")'
          PROVE  p.id = subscription /\ Covered(p.id, p.after)' /\ (p.answer = "ok" => Brings(p)')
      <4>1. p \in Stream!Of("poll") /\ p \in bridgeCalls /\ p.after \in Int
        BY <2>1 DEF Stream!Of, StreamInv, Stream!TypeOK, Stream!CallRecord
      <4>2. p.id = subscription /\ Covered(p.id, p.after) /\ (p.answer = "ok" => Brings(p))
        BY <1>1, <2>7, <4>1 DEF StreamInv, Watching
      <4> QED BY <2>1, <3>2, <4>1, <4>2
    <3> QED BY <2>1, <3>4, <3>5
  <2>8. Watching'
    BY <2>1, <2>7 DEF Watching
  <2> QED BY <2>5, <2>6, <2>8 DEF StreamInv
<1>3. CASE c.answer # "ok"
  <2>1. /\ running' = FALSE /\ bridgeCalls' = Stream!WithoutPolls(bridgeCalls)
        /\ UNCHANGED <<mounted, subscription, cursor, messages, dropped, seen, crossed>>
    BY <1>3 DEF Stream!PollReply
  <2>2. bridgeCalls' \subseteq bridgeCalls /\ \A d \in bridgeCalls' : d.kind # "poll"
    BY <2>1 DEF Stream!WithoutPolls
  <2>3. Stream!TypeOK' /\ IsFiniteSet(bridgeCalls')
    BY <1>1, <2>1, <2>2, FewerCalls DEF StreamInv, Stream!TypeOK
  <2>4. \A d \in bridgeCalls' : d.kind # "list" \/ d.answer = "ok" => Started(d.id)'
    BY <1>1, <2>2 DEF StreamInv, Polled, Started
  <2> QED BY <1>1, <2>1, <2>2, <2>3, <2>4, QuietKeeps DEF StreamInv
<1> QED BY <1>2, <1>3

LEMMA StreamStep == ASSUME StreamInv, Stream!Next \/ UNCHANGED streamVars PROVE StreamInv'
<1>1. CASE Stream!Next
  BY <1>1, DriverKeeps, WorldKeeps, StartReplyKeeps, AdoptKeeps, PollReplyKeeps, TickKeeps,
     StartKeeps, StopKeeps, ClearKeeps, MountKeeps, UnmountKeeps
     DEF Stream!Next, Stream!DriverStep, Stream!Reply, Stream!User
<1>2. CASE UNCHANGED streamVars
  <2>1. UNCHANGED <<received, open, mounted, subscription, cursor, running, messages, dropped,
                    bridgeCalls, seen, crossed>>
    BY <1>2 DEF streamVars
  <2>2. Stream!TypeOK' /\ \A id \in Stream!Ids : received[id] <= received'[id]
    BY <2>1 DEF StreamInv, Stream!TypeOK
  <2> QED BY <2>1, <2>2, CallsKeep DEF StreamInv
<1> QED BY <1>1, <1>2

--------------------------------------------------------------------------------
(* The alert centre. *)

SweepRecord ==
    [no : 1..MaxSweeps, of : SUBSET Conns, waiting : SUBSET Conns, answers : [Conns -> Alerts!Answers]]
AlertRecord == [state : {"none", "firing", "recovered"}, read : BOOLEAN]

(* What was seen while firing is kept, and is still firing or was forgotten. *)
SeenIsKept == \A a \in acknowledged : a \in readIds /\ records[a].state # "recovered"

AlertInv == Alerts!TypeOK /\ Alerts!OffIsQuiet /\ SeenIsKept

(* No alert that was seen is announced by this step. *)
NoneAnnounced == \A a \in acknowledged : ~Alerts!Announced(a)

LEMMA AlertBounds == MaxSweeps \in Nat /\ 1 \in 1..MaxSweeps /\ MaxChanges \in Nat /\ 0 \in 0..MaxChanges
BY AlertAssumption

(* A sweep that is sent has its shape. *)
LEMMA SweepTyped ==
    ASSUME NEW no_ \in 1..MaxSweeps, NEW now_
    PROVE  Alerts!Sweep(no_, now_) \in SweepRecord /\ Alerts!Sweep(no_, now_).no = no_
<1>1. {{}} \in Alerts!Answers /\ {} \in Alerts!Answers
  BY DEF Alerts!Answers
<1>2. Alerts!Known(now_) \subseteq Conns /\ {c \in Conns : now_[c] = "online"} \subseteq Conns
  BY DEF Alerts!Known
<1>3. [c \in Conns |-> IF now_[c] = "offline" THEN {{}} ELSE {}] \in [Conns -> Alerts!Answers]
  BY <1>1
<1> QED BY <1>2, <1>3 DEF Alerts!Sweep, SweepRecord

LEMMA AlertInitInv == Alerts!Init => AlertInv
<1> SUFFICES ASSUME Alerts!Init PROVE AlertInv
  OBVIOUS
<1> USE DEF Alerts!Init
<1>1. sweeps \subseteq SweepRecord /\ \A s, t \in sweeps : s.no = t.no => s = t
  BY AlertBounds, SweepTyped
<1>2. facts \in [Conns -> Alerts!Answers]
  BY DEF Alerts!Answers
<1>3. records \in [Alerts!Alerts -> AlertRecord] /\ \A a \in Alerts!Alerts : records[a].state = "none"
  BY DEF Alerts!NoRecord, AlertRecord
<1>4. profiles \in [Conns -> {"absent", "online", "offline", "gone"}]
  OBVIOUS
<1>5. Alerts!TypeOK
  BY <1>1, <1>2, <1>3, <1>4, AlertBounds DEF Alerts!TypeOK, SweepRecord, AlertRecord
<1>6. Alerts!OffIsQuiet
  BY <1>3 DEF Alerts!OffIsQuiet
<1> QED BY <1>5, <1>6 DEF AlertInv, SeenIsKept

(* One record merged with an answer. *)
LEMMA RecordMerged ==
    ASSUME AlertInv, NEW a \in Alerts!Alerts, NEW answers_, NEW on_, NEW before_ \in AlertRecord
    PROVE  LET r == Alerts!Merged(before_, a, answers_, on_) IN
           /\ r \in AlertRecord
           /\ r.state = "firing" => a[2] \in on_ \/ answers_[a[1]] = {}
           /\ before_.state # "recovered" /\ a \in readIds =>
                 ~(r = [state |-> "firing", read |-> FALSE] /\ before_.state # "firing")
<1> DEFINE r == Alerts!Merged(before_, a, answers_, on_)
<1>1. CASE answers_[a[1]] = {}
  BY <1>1 DEF Alerts!Merged, AlertRecord
<1>2. CASE answers_[a[1]] # {} /\ a[2] \in Alerts!Derived(a[1], answers_, on_)
  <2>1. a[2] \in on_
    BY <1>2 DEF Alerts!Derived
  <2>2. CASE before_.state = "firing"
    <3>1. r = before_
      BY <1>2, <2>2 DEF Alerts!Merged
    <3> QED BY <2>1, <2>2, <3>1
  <2>3. CASE before_.state # "firing"
    <3>1. r = [state |-> "firing", read |-> before_.state = "none" /\ a \in readIds]
      BY <1>2, <2>3 DEF Alerts!Merged
    <3>2. r.state = "firing" /\ r.read = (before_.state = "none" /\ a \in readIds) /\ r \in AlertRecord
      BY <3>1 DEF AlertRecord
    <3>3. before_.state # "recovered" => before_.state = "none"
      BY <2>3 DEF AlertRecord
    <3>4. before_.state # "recovered" /\ a \in readIds => r.read = TRUE
      BY <3>2, <3>3
    <3>5. r = [state |-> "firing", read |-> FALSE] => r.read = FALSE
      OBVIOUS
    <3> HIDE DEF r
    <3>6. before_.state # "recovered" /\ a \in readIds => ~(r = [state |-> "firing", read |-> FALSE])
      BY <3>4, <3>5
    <3> USE DEF r
    <3> QED BY <2>1, <3>2, <3>6
  <2> QED BY <2>2, <2>3
<1>3. CASE answers_[a[1]] # {} /\ a[2] \notin Alerts!Derived(a[1], answers_, on_)
  <2>1. CASE before_.state = "firing"
    <3>1. r = [before_ EXCEPT !.state = "recovered"]
      BY <1>3, <2>1 DEF Alerts!Merged
    <3>2. r \in AlertRecord /\ r.state = "recovered"
      BY <3>1 DEF AlertRecord
    <3> QED BY <2>1, <3>2
  <2>2. CASE before_.state # "firing"
    <3>1. r = before_
      BY <1>3, <2>2 DEF Alerts!Merged
    <3> QED BY <2>2, <3>1
  <2> QED BY <2>1, <2>2
<1> QED BY <1>1, <1>2, <1>3

(* Everything merged: a rule that is off fires nothing that has an answer, and what was
   seen is not announced. *)
LEMMA MergeKeeps ==
    ASSUME AlertInv, NEW known_, Alerts!Merge(facts', enabled', known_), readIds' = readIds
    PROVE  /\ records' \in [Alerts!Alerts -> AlertRecord] /\ acknowledged' \subseteq Alerts!Alerts
           /\ Alerts!OffIsQuiet' /\ SeenIsKept' /\ NoneAnnounced
<1>1. PICK expired_ \in SUBSET Alerts!Recovered :
         records' = [a \in Alerts!Alerts |->
                        Alerts!Merged(Alerts!Kept(a, known_, expired_), a, facts', enabled')]
  BY DEF Alerts!Merge
<1>2. acknowledged' = {a \in acknowledged : a[1] \in known_ /\ records'[a].state # "recovered"}
  BY DEF Alerts!Merge
<1>3. \A a \in Alerts!Alerts : records[a] \in AlertRecord
  BY DEF AlertInv, Alerts!TypeOK, AlertRecord
<1>4. ASSUME NEW a \in Alerts!Alerts
      PROVE  LET k == Alerts!Kept(a, known_, expired_) IN
             k \in AlertRecord /\ (k = records[a] \/ k.state = "none")
  BY <1>3 DEF Alerts!Kept, Alerts!NoRecord, AlertRecord
<1>5. ASSUME NEW a \in Alerts!Alerts
      PROVE  /\ records'[a] \in AlertRecord
             /\ records'[a].state = "firing" => a[2] \in enabled' \/ facts'[a[1]] = {}
             /\ a \in acknowledged => ~Alerts!Announced(a)
  <2>1. PICK k \in AlertRecord : /\ k = Alerts!Kept(a, known_, expired_)
                                 /\ k = records[a] \/ k.state = "none"
    BY <1>4
  <2>2. records'[a] = Alerts!Merged(k, a, facts', enabled')
    BY <1>1, <2>1
  <2>3. /\ records'[a] \in AlertRecord
        /\ records'[a].state = "firing" => a[2] \in enabled' \/ facts'[a[1]] = {}
        /\ k.state # "recovered" /\ a \in readIds =>
              ~(records'[a] = [state |-> "firing", read |-> FALSE] /\ k.state # "firing")
    BY <2>2, RecordMerged
  <2>4. a \in acknowledged => a \in readIds /\ records[a].state # "recovered"
    BY DEF AlertInv, SeenIsKept
  <2>5. a \in acknowledged => ~Alerts!Announced(a)
    BY <2>1, <2>3, <2>4 DEF Alerts!Announced
  <2> QED BY <2>3, <2>5
<1>6. records' \in [Alerts!Alerts -> AlertRecord]
  BY <1>1, <1>5
<1>7. acknowledged' \subseteq acknowledged /\ acknowledged \subseteq Alerts!Alerts
  BY <1>2 DEF AlertInv, Alerts!TypeOK
<1>8. Alerts!OffIsQuiet'
  BY <1>5 DEF Alerts!OffIsQuiet
<1>9. SeenIsKept'
  BY <1>2, <1>7 DEF AlertInv, SeenIsKept
<1>10. NoneAnnounced
  BY <1>5, <1>7 DEF NoneAnnounced
<1> QED BY <1>6, <1>7, <1>8, <1>9, <1>10

(* What a step that merges leaves of the rest. *)
LEMMA MergingKeeps ==
    ASSUME AlertInv, NEW known_, Alerts!Merge(facts', enabled', known_), readIds' = readIds,
           profiles' \in [Conns -> {"absent", "online", "offline", "gone"}],
           firing' = firing, enabled' \subseteq Rules, facts' \in [Conns -> Alerts!Answers],
           changes' \in 0..MaxChanges, sweeps' \subseteq SweepRecord,
           \A s, t \in sweeps' : s.no = t.no => s = t
    PROVE  AlertInv' /\ NoneAnnounced
<1>1. /\ records' \in [Alerts!Alerts -> AlertRecord] /\ acknowledged' \subseteq Alerts!Alerts
      /\ Alerts!OffIsQuiet' /\ SeenIsKept' /\ NoneAnnounced
  BY MergeKeeps
<1>2. Alerts!TypeOK'
  BY <1>1 DEF AlertInv, Alerts!TypeOK, AlertRecord, SweepRecord
<1> QED BY <1>1, <1>2 DEF AlertInv

(* A step that changes no record announces nothing. *)
LEMMA SameRecords ==
    ASSUME AlertInv, UNCHANGED <<enabled, facts, records, readIds, acknowledged>>,
           profiles' = profiles, firing' \subseteq Alerts!Alerts, changes' \in 0..MaxChanges,
           sweeps' \subseteq SweepRecord, \A s, t \in sweeps' : s.no = t.no => s = t
    PROVE  AlertInv' /\ NoneAnnounced
<1>1. Alerts!TypeOK'
  BY DEF AlertInv, Alerts!TypeOK, SweepRecord
<1>2. Alerts!OffIsQuiet' /\ SeenIsKept'
  BY DEF AlertInv, Alerts!OffIsQuiet, SeenIsKept
<1>3. NoneAnnounced
  <2>1. \A a \in acknowledged : records'[a] = records[a]
    OBVIOUS
  <2>2. \A a \in acknowledged : Alerts!Announced(a) => records'[a].state = "firing" /\ records[a].state # "firing"
    BY DEF Alerts!Announced
  <2> QED BY <2>1, <2>2 DEF NoneAnnounced
<1> QED BY <1>1, <1>2, <1>3 DEF AlertInv

LEMMA SweepsTyped ==
    AlertInv => sweeps \subseteq SweepRecord /\ \A s, t \in sweeps : s.no = t.no => s = t
BY DEF AlertInv, Alerts!TypeOK, SweepRecord

LEMMA BeginKeeps ==
    ASSUME AlertInv, NEW now_, Alerts!Begin(now_)
    PROVE  sweeps' \subseteq SweepRecord /\ \A s, t \in sweeps' : s.no = t.no => s = t
<1>1. PICK no_ \in 1..MaxSweeps : /\ \A s \in sweeps : s.no # no_
                                  /\ sweeps' = sweeps \cup {Alerts!Sweep(no_, now_)}
  BY DEF Alerts!Begin
<1> DEFINE new == Alerts!Sweep(no_, now_)
<1>2. new \in SweepRecord /\ new.no = no_
  BY SweepTyped
<1> HIDE DEF new
<1>3. sweeps' = sweeps \cup {new}
  BY <1>1 DEF new
<1> QED BY <1>1, <1>2, <1>3, SweepsTyped

LEMMA ChangeIsBounded == ASSUME AlertInv, Alerts!Change PROVE changes' \in 0..MaxChanges
BY AlertBounds DEF AlertInv, Alerts!TypeOK, Alerts!Change

LEMMA AlertTypes ==
    AlertInv => /\ profiles \in [Conns -> {"absent", "online", "offline", "gone"}]
                /\ firing \subseteq Alerts!Alerts /\ enabled \subseteq Rules
                /\ facts \in [Conns -> Alerts!Answers] /\ changes \in 0..MaxChanges
                /\ records \in [Alerts!Alerts -> AlertRecord]
                /\ acknowledged \subseteq Alerts!Alerts /\ readIds \subseteq Alerts!Alerts
BY DEF AlertInv, Alerts!TypeOK, AlertRecord

(* Sweeps that are sent and answered. *)
LEMMA SweepsKeep ==
    ASSUME AlertInv, Alerts!Tick \/ \E s \in sweeps, c \in Conns : Alerts!Answer(s, c)
    PROVE  AlertInv' /\ NoneAnnounced
<1>1. CASE Alerts!Tick
  <2>1. Alerts!Begin(profiles)
        /\ UNCHANGED <<profiles, firing, enabled, facts, records, readIds, changes, acknowledged>>
    BY <1>1 DEF Alerts!Tick
  <2>2. sweeps' \subseteq SweepRecord /\ \A s, t \in sweeps' : s.no = t.no => s = t
    BY <2>1, BeginKeeps
  <2> QED BY <2>1, <2>2, AlertTypes, SameRecords
<1>2. ASSUME NEW s \in sweeps, NEW c \in Conns, Alerts!Answer(s, c) PROVE AlertInv' /\ NoneAnnounced
  <2>1. UNCHANGED <<profiles, firing, enabled, facts, records, readIds, acknowledged>>
        /\ changes' \in 0..MaxChanges
    BY <1>2, AlertTypes, ChangeIsBounded DEF Alerts!Answer
  <2>2. PICK answer_ \in Alerts!Answers :
           sweeps' = (sweeps \ {s}) \cup {[s EXCEPT !.waiting = @ \ {c}, !.answers[c] = answer_]}
    <3> DEFINE now == {r \in Rules : <<c, r>> \in firing}
    <3>1. {now} \in Alerts!Answers /\ {now \ Listed} \in Alerts!Answers /\ {} \in Alerts!Answers
      BY DEF Alerts!Answers
    <3> QED BY <1>2, <3>1 DEF Alerts!Answer
  <2> DEFINE d == [s EXCEPT !.waiting = @ \ {c}, !.answers[c] = answer_]
  <2>3. s \in SweepRecord
    BY SweepsTyped
  <2>4. d \in SweepRecord /\ d.no = s.no
    BY <2>3 DEF SweepRecord
  <2> HIDE DEF d
  <2>5. sweeps' = (sweeps \ {s}) \cup {d}
    BY <2>2 DEF d
  <2>6. sweeps' \subseteq SweepRecord /\ \A x, t \in sweeps' : x.no = t.no => x = t
    BY <2>4, <2>5, SweepsTyped
  <2> QED BY <2>1, <2>6, AlertTypes, SameRecords
<1> QED BY <1>1, <1>2

LEMMA LandKeeps == ASSUME AlertInv, NEW s \in sweeps, Alerts!Land(s) PROVE AlertInv' /\ NoneAnnounced
<1>1. /\ Alerts!Merge(facts', enabled, Alerts!Known(profiles))
      /\ UNCHANGED <<profiles, firing, enabled, readIds, changes>> /\ sweeps' = sweeps \ {s}
      /\ facts' = [c \in Conns |-> IF c \notin s.of THEN {}
                                   ELSE IF s.answers[c] # {} THEN s.answers[c] ELSE facts[c]]
  BY DEF Alerts!Land
<1>2. s.answers \in [Conns -> Alerts!Answers] /\ {} \in Alerts!Answers
  BY SweepsTyped DEF SweepRecord, Alerts!Answers
<1>3. facts' \in [Conns -> Alerts!Answers]
  BY <1>1, <1>2, AlertTypes
<1>4. sweeps' \subseteq SweepRecord /\ \A x, t \in sweeps' : x.no = t.no => x = t
  BY <1>1, SweepsTyped
<1> QED BY <1>1, <1>3, <1>4, AlertTypes, MergingKeeps

(* What happens around the sweeps. *)
LEMMA AroundKeeps ==
    ASSUME AlertInv,
           \/ \E a \in Alerts!Alerts : Alerts!Broker(a)
           \/ \E c \in Conns, status \in {"offline", "online", "gone"} : Alerts!SetStatus(c, status)
           \/ \E r \in Rules : Alerts!ToggleRule(r)
    PROVE  AlertInv' /\ NoneAnnounced
<1>1. changes' \in 0..MaxChanges
  BY ChangeIsBounded DEF Alerts!Broker, Alerts!SetStatus, Alerts!ToggleRule
<1>2. ASSUME NEW a \in Alerts!Alerts, Alerts!Broker(a) PROVE AlertInv' /\ NoneAnnounced
  <2>1. UNCHANGED <<profiles, enabled, facts, records, readIds, sweeps, acknowledged>>
        /\ firing' \subseteq Alerts!Alerts
    BY <1>2, AlertTypes DEF Alerts!Broker
  <2> QED BY <1>1, <2>1, SweepsTyped, SameRecords
<1>3. ASSUME NEW c \in Conns, NEW status \in {"offline", "online", "gone"}, Alerts!SetStatus(c, status)
      PROVE  AlertInv' /\ NoneAnnounced
  <2>1. /\ profiles' = [profiles EXCEPT ![c] = status] /\ Alerts!Begin(profiles')
        /\ Alerts!Merge(facts, enabled, Alerts!Known(profiles'))
        /\ UNCHANGED <<firing, enabled, facts, readIds>>
    BY <1>3 DEF Alerts!SetStatus
  <2>2. sweeps' \subseteq SweepRecord /\ \A s, t \in sweeps' : s.no = t.no => s = t
    <3>1. PICK now_ : now_ = profiles'
      OBVIOUS
    <3>2. Alerts!Begin(now_)
      BY <2>1, <3>1
    <3> QED BY <3>2, BeginKeeps
  <2>3. profiles' \in [Conns -> {"absent", "online", "offline", "gone"}]
    BY <2>1, AlertTypes
  <2>4. PICK known_ : known_ = Alerts!Known(profiles')
    OBVIOUS
  <2>5. Alerts!Merge(facts', enabled', known_)
    BY <2>1, <2>4
  <2> QED BY <1>1, <2>1, <2>2, <2>3, <2>5, AlertTypes, MergingKeeps
<1>4. ASSUME NEW r \in Rules, Alerts!ToggleRule(r) PROVE AlertInv' /\ NoneAnnounced
  <2>1. /\ enabled' \subseteq Rules /\ Alerts!Merge(facts, enabled', Alerts!Known(profiles))
        /\ UNCHANGED <<profiles, firing, facts, readIds, sweeps>>
    BY <1>4, AlertTypes DEF Alerts!ToggleRule
  <2> QED BY <1>1, <2>1, SweepsTyped, AlertTypes, MergingKeeps
<1> QED BY <1>2, <1>3, <1>4

(* What is marked was on the list. *)
LEMMA MarkKeeps ==
    ASSUME AlertInv, NEW marked_ \in SUBSET Alerts!Alerts, Alerts!Mark(marked_)
    PROVE  AlertInv' /\ NoneAnnounced
<1>1. /\ records' = [a \in Alerts!Alerts |-> IF a \in marked_ THEN [records[a] EXCEPT !.read = TRUE]
                                            ELSE records[a]]
      /\ readIds' = readIds \cup marked_
      /\ acknowledged' = acknowledged \cup {a \in marked_ : records[a].state = "firing"}
      /\ UNCHANGED <<profiles, firing, enabled, facts, sweeps, changes>>
  BY DEF Alerts!Mark
<1>2. \A a \in Alerts!Alerts : records'[a] \in AlertRecord /\ records'[a].state = records[a].state
  BY <1>1, AlertTypes DEF AlertRecord
<1>3. records' \in [Alerts!Alerts -> AlertRecord]
  BY <1>1, <1>2
<1>4. Alerts!TypeOK'
  BY <1>1, <1>3, AlertTypes DEF AlertInv, Alerts!TypeOK, AlertRecord
<1>5. Alerts!OffIsQuiet'
  BY <1>1, <1>2 DEF AlertInv, Alerts!OffIsQuiet
<1>6. SeenIsKept'
  BY <1>1, <1>2, AlertTypes DEF AlertInv, SeenIsKept
<1>7. NoneAnnounced
  <2>1. \A a \in acknowledged : Alerts!Announced(a) => records'[a].state = "firing" /\ records[a].state # "firing"
    BY DEF Alerts!Announced
  <2> QED BY <1>2, <2>1, AlertTypes DEF NoneAnnounced
<1> QED BY <1>4, <1>5, <1>6, <1>7 DEF AlertInv

LEMMA RestartKeeps == ASSUME AlertInv, Alerts!Restart PROVE AlertInv' /\ NoneAnnounced
<1>1. /\ facts' = [c \in Conns |-> {}] /\ records' = [a \in Alerts!Alerts |-> Alerts!NoRecord]
      /\ sweeps' = {Alerts!Sweep(1, profiles)} /\ changes' \in 0..MaxChanges
      /\ UNCHANGED <<profiles, firing, enabled, readIds, acknowledged>>
  BY ChangeIsBounded DEF Alerts!Restart
<1>2. sweeps' \subseteq SweepRecord /\ \A s, t \in sweeps' : s.no = t.no => s = t
  BY <1>1, AlertBounds, SweepTyped
<1>3. facts' \in [Conns -> Alerts!Answers]
  BY <1>1 DEF Alerts!Answers
<1>4. records' \in [Alerts!Alerts -> AlertRecord] /\ \A a \in Alerts!Alerts : records'[a].state = "none"
  BY <1>1 DEF Alerts!NoRecord, AlertRecord
<1>5. Alerts!TypeOK'
  BY <1>1, <1>2, <1>3, <1>4, AlertTypes DEF Alerts!TypeOK, SweepRecord, AlertRecord
<1>6. Alerts!OffIsQuiet'
  BY <1>4 DEF Alerts!OffIsQuiet
<1>7. SeenIsKept'
  BY <1>1, <1>4, AlertTypes DEF AlertInv, SeenIsKept
<1>8. NoneAnnounced
  <2>1. \A a \in acknowledged : Alerts!Announced(a) => records'[a].state = "firing"
    BY DEF Alerts!Announced
  <2> QED BY <1>4, <2>1, AlertTypes DEF NoneAnnounced
<1> QED BY <1>5, <1>6, <1>7, <1>8 DEF AlertInv

LEMMA AlertStep ==
    ASSUME AlertInv, Alerts!Next \/ UNCHANGED alertVars PROVE AlertInv' /\ NoneAnnounced
<1>1. CASE Alerts!Next
  <2>1. CASE Alerts!Restart
    BY <2>1, RestartKeeps
  <2>2. CASE Alerts!NotificationBell
    <3>1. Alerts!Unread \subseteq Alerts!Alerts
      BY DEF Alerts!Unread
    <3>2. CASE Alerts!MarkAllRead
      BY <3>1, <3>2, MarkKeeps DEF Alerts!MarkAllRead
    <3>3. ASSUME NEW a \in Alerts!Alerts, Alerts!MarkRead(a) PROVE AlertInv' /\ NoneAnnounced
      <4>1. {a} \cap Alerts!Unread \in SUBSET Alerts!Alerts
        BY <3>1
      <4> QED BY <3>3, <4>1, MarkKeeps DEF Alerts!MarkRead
    <3> QED BY <2>2, <3>2, <3>3 DEF Alerts!NotificationBell
  <2>3. CASE Alerts!Tick \/ \E s \in sweeps, c \in Conns : Alerts!Answer(s, c)
    BY <2>3, SweepsKeep
  <2>4. CASE \E s \in sweeps : Alerts!Land(s)
    BY <2>4, LandKeeps
  <2>5. CASE \/ \E a \in Alerts!Alerts : Alerts!Broker(a)
             \/ \E c \in Conns, status \in {"offline", "online", "gone"} : Alerts!SetStatus(c, status)
             \/ \E r \in Rules : Alerts!ToggleRule(r)
    BY <2>5, AroundKeeps
  <2> QED BY <1>1, <2>1, <2>2, <2>3, <2>4, <2>5 DEF Alerts!Next, Alerts!RulesPage
<1>2. CASE UNCHANGED alertVars
  <2>1. UNCHANGED <<profiles, firing, enabled, facts, records, readIds, sweeps, changes, acknowledged>>
    BY <1>2 DEF alertVars
  <2> QED BY <2>1, SweepsTyped, AlertTypes, SameRecords
<1> QED BY <1>1, <1>2

--------------------------------------------------------------------------------
(* The parts together: each keeps its invariant whether it runs or rests. *)

ReadsInv == Inv /\ StreamInv /\ AlertInv

LEMMA ReadsInitInv == ReadsInit => ReadsInv
BY InitInv, StreamInitInv, AlertInitInv DEF ReadsInit, ReadsInv

LEMMA ReadsStep == ReadsInv /\ [ReadsNext]_readsVars => ReadsInv' /\ NoneAnnounced
<1> SUFFICES ASSUME ReadsInv, [ReadsNext]_readsVars PROVE ReadsInv' /\ NoneAnnounced
  OBVIOUS
<1>1. /\ [Next]_vars
      /\ Stream!Next \/ UNCHANGED streamVars
      /\ Alerts!Next \/ UNCHANGED alertVars
  BY DEF ReadsNext, OnlyPage, OnlyStream, OnlyAlerts, readsVars
<1>2. Inv'
  BY <1>1, NextInv DEF ReadsInv
<1>3. StreamInv'
  BY <1>1, StreamStep DEF ReadsInv
<1>4. AlertInv' /\ NoneAnnounced
  BY <1>1, AlertStep DEF ReadsInv
<1> QED BY <1>2, <1>3, <1>4 DEF ReadsInv

LEMMA ReadsInvariant == ReadsInit /\ [][ReadsNext]_readsVars => []ReadsInv
<1>1. ReadsInv /\ [ReadsNext]_readsVars => ReadsInv'
  BY ReadsStep
<1> QED BY <1>1, ReadsInitInv, PTL

(* Nothing spins without a read, and nothing fires by a rule that is off. *)
THEOREM ReadsAreConsistent == ReadsSpec => []ReadsConsistent
<1>1. ReadsInv => ReadsConsistent
  BY DEF ReadsInv, Inv, StreamInv, AlertInv, ReadsConsistent
<1>2. ReadsSpec => ReadsInit /\ [][ReadsNext]_readsVars
  BY PTL DEF ReadsSpec
<1> QED BY <1>1, <1>2, ReadsInvariant, PTL

(* The driver's running total covers every message the panel will never show, whatever
   order polls are answered in. *)
THEOREM NoLossUncounted == ReadsSpec => []LossIsCounted
<1>1. ReadsInv => LossIsCounted
  BY StreamInvImplies DEF ReadsInv, LossIsCounted
<1>2. ReadsSpec => ReadsInit /\ [][ReadsNext]_readsVars
  BY PTL DEF ReadsSpec
<1> QED BY <1>1, <1>2, ReadsInvariant, PTL

(* An alert that was seen is announced again only after it was recorded as recovered,
   whatever sweeps overlap, fail or end with the launch. *)
THEOREM SeenIsNotAnnounced == ReadsSpec => SeenStaysQuiet
<1>1. ReadsInv /\ [ReadsNext]_readsVars => [\A a \in acknowledged : ~Alerts!Announced(a)]_(Alerts!vars)
  BY ReadsStep DEF NoneAnnounced
<1>2. ReadsSpec => ReadsInit /\ [][ReadsNext]_readsVars
  BY PTL DEF ReadsSpec
<1>3. ReadsSpec => [][\A a \in acknowledged : ~Alerts!Announced(a)]_(Alerts!vars)
  BY <1>1, <1>2, ReadsInvariant, PTL
<1> QED BY <1>3 DEF SeenStaysQuiet, Alerts!SeenStaysQuiet
================================================================================
