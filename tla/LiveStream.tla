------------------------------- MODULE LiveStream -------------------------------
(* A live subscription and the panel that watches it: the streams an MQTT
   connection holds (internal/driver/mqtt/subscribe.go) and the hook that starts,
   polls, stops and adopts them (frontend/src/hooks/useMqttStream.ts), as the
   buttons of the workbench drive it.

   Every bridge call takes two steps, the moment the driver answers it and the
   moment the reply reaches the window, so replies overtake each other.  A
   message is its sequence number. *)
EXTENDS Integers, Sequences, FiniteSets

CONSTANTS MaxStreams,  \* bound: the streams ever started
          MaxMessages, \* bound: the messages one stream receives
          MaxCalls,    \* bound: the bridge calls under way at once
          Ring,        \* the buffer behind a stream
          Keep         \* KEEP: what one poll asks for, and what the panel holds

VARIABLES received,     \* driver: messages taken in, by stream
          open,         \* driver: c.streams
          mounted,      \* the panel is on screen
          subscription, \* subscription.current, 0 for null
          cursor,       \* cursor.current
          running,      \* the state of the same name
          messages,     \* the rows on screen, <<stream, sequence number>>
          dropped,      \* the loss on screen
          calls,        \* bridge calls under way
          seen,         \* rows that were ever on screen for this subscription
          crossed       \* the cursor may count another stream's messages

vars == <<received, open, mounted, subscription, cursor, running, messages, dropped,
          calls, seen, crossed>>
panel == <<mounted, subscription, cursor, running, messages, dropped, seen, crossed>>

Ids == 1..MaxStreams
NoBatch == [cursor |-> 0, dropped |-> 0, rows |-> <<>>]

(* A call as the window sent it; "sent" until the driver answers. *)
Call(kind, id, after, no) ==
    [kind |-> kind, id |-> id, after |-> after, no |-> no, answer |-> "sent", batch |-> NoBatch]
Of(kind) == {c \in calls : c.kind = kind}
Room == Cardinality(calls) < MaxCalls

--------------------------------------------------------------------------------
(* The driver.  A stop is fire and forget and takes effect at once. *)

(* What the ring holds, and what has left it. *)
Oldest(id) == IF received[id] > Ring THEN received[id] - Ring + 1 ELSE 1

(* Mutant: what the ring overwrites is not counted. *)
LostUncounted(id) == 0

Lost(id) == Oldest(id) - 1

(* Mutant: the cursor stays where it was. *)
PollStuck(id, after) ==
    LET first == IF after + 1 > Oldest(id) THEN after + 1 ELSE Oldest(id)
        last == IF first + Keep - 1 < received[id] THEN first + Keep - 1 ELSE received[id]
    IN [cursor |-> after,
        dropped |-> Lost(id),
        rows |-> [i \in 1..(IF first <= last THEN last - first + 1 ELSE 0) |-> <<id, first + i - 1>>]]

(* The first Keep messages held after a sequence number, oldest first. *)
Poll(id, after) ==
    LET first == IF after + 1 > Oldest(id) THEN after + 1 ELSE Oldest(id)
        last == IF first + Keep - 1 < received[id] THEN first + Keep - 1 ELSE received[id]
    IN [cursor |-> IF first <= last THEN last ELSE after,
        dropped |-> Lost(id),
        rows |-> [i \in 1..(IF first <= last THEN last - first + 1 ELSE 0) |-> <<id, first + i - 1>>]]

Deliver(id) ==
    /\ id \in open
    /\ received[id] < MaxMessages
    /\ received' = [received EXCEPT ![id] = @ + 1]
    /\ UNCHANGED <<open, panel, calls>>

(* Closing the connection ends every stream on it. *)
CloseConnection ==
    /\ open # {}
    /\ open' = {}
    /\ UNCHANGED <<received, panel, calls>>

Answer(c, answer, batch) ==
    calls' = (calls \ {c}) \cup {[c EXCEPT !.answer = answer, !.batch = batch]}

(* c.streams holds the stream before the broker has answered the subscribe. *)
DriverStart(c) ==
    /\ c.kind = "start" /\ c.answer = "sent"
    /\ \/ Answer(c, "failed", NoBatch) /\ UNCHANGED open
       \/ c.id \notin open /\ open' = open \cup {c.id} /\ Answer(c, "ok", NoBatch)
    /\ UNCHANGED <<received, panel>>

DriverPoll(c) ==
    /\ c.kind = "poll" /\ c.answer = "sent"
    /\ IF c.id \in open
       THEN Answer(c, "ok", Poll(c.id, c.after))
       ELSE Answer(c, "failed", NoBatch)
    /\ UNCHANGED <<received, open, panel>>

(* The listing is sorted by a random id: any open stream may come first. *)
DriverList(c) ==
    /\ c.kind = "list" /\ c.answer = "sent"
    /\ IF open = {}
       THEN Answer(c, "none", NoBatch)
       ELSE \E id \in open :
               calls' = (calls \ {c}) \cup {[c EXCEPT !.answer = "ok", !.id = id]}
    /\ UNCHANGED <<received, open, panel>>

--------------------------------------------------------------------------------
(* The panel. *)

(* The panel takes up a stream.  Only Start and Adopt reset the cursor: a reply
   to Start keeps whatever the cursor has become since. *)
Watch(id) ==
    /\ subscription' = id
    /\ running' = TRUE
    /\ crossed' = (crossed \/ subscription \notin {0, id} \/ cursor' # 0)

(* The effect on [running] is torn down: its polls are cancelled. *)
WithoutPolls(cs) == {c \in cs : c.kind # "poll"}

Fresh(id) == \A c \in calls : c.id # id
NextId == CHOOSE id \in Ids : received[id] = -1 /\ Fresh(id)
CanStart == \E id \in Ids : received[id] = -1 /\ Fresh(id)

Start ==
    /\ mounted /\ ~running   \* the workbench draws the button
    /\ CanStart /\ Room
    /\ LET id == NextId IN
       /\ received' = [received EXCEPT ![id] = 0]
       /\ calls' = calls \cup {Call("start", id, 0, 0)}
    /\ open' = open \ {subscription}
    /\ subscription' = 0
    /\ messages' = <<>> /\ dropped' = 0 /\ cursor' = 0
    /\ seen' = {} /\ crossed' = FALSE
    /\ UNCHANGED <<mounted, running>>

StartReply(c) ==
    /\ c.kind = "start" /\ c.answer # "sent"
    /\ IF ~mounted \/ c.no = 1  \* a reply to a panel that has left the screen
       THEN calls' = calls \ {c} /\ UNCHANGED panel
       ELSE IF c.answer = "ok"
       THEN /\ UNCHANGED <<mounted, cursor, messages, dropped, seen>>
            /\ Watch(c.id)
            /\ calls' = calls \ {c}
       ELSE /\ running' = FALSE
            /\ calls' = WithoutPolls(calls \ {c})
            /\ UNCHANGED <<mounted, subscription, cursor, messages, dropped, seen, crossed>>
    /\ UNCHANGED <<received, open>>

Stop ==
    /\ mounted /\ running
    /\ calls' = WithoutPolls(calls)
    /\ open' = open \ {subscription}
    /\ subscription' = 0
    /\ running' = FALSE
    /\ UNCHANGED <<received, mounted, cursor, messages, dropped, seen, crossed>>

Clear ==
    /\ mounted /\ messages # <<>>
    /\ messages' = <<>>
    /\ UNCHANGED <<received, open, mounted, subscription, cursor, running, dropped, calls,
                   seen, crossed>>

FreeNo == CHOOSE no \in 1..MaxCalls : \A c \in Of("poll") : c.no # no

(* The interval fires whether or not the previous poll has been answered. *)
Tick ==
    /\ mounted /\ running /\ subscription # 0
    /\ Room
    /\ calls' = calls \cup {Call("poll", subscription, cursor, FreeNo)}
    /\ UNCHANGED <<received, open, panel>>

LastRows(rows) ==
    IF Len(rows) > Keep THEN SubSeq(rows, Len(rows) - Keep + 1, Len(rows)) ELSE rows

PollReply(c) ==
    /\ c.kind = "poll" /\ c.answer # "sent"
    /\ IF c.answer = "ok"
       THEN /\ cursor' = c.batch.cursor
            /\ dropped' = c.batch.dropped
            /\ messages' = LastRows(messages \o c.batch.rows)
            /\ seen' = seen \cup {c.batch.rows[i] : i \in 1..Len(c.batch.rows)}
            /\ calls' = calls \ {c}
            /\ UNCHANGED <<mounted, subscription, running, crossed>>
       ELSE /\ running' = FALSE
            /\ calls' = WithoutPolls(calls)
            /\ UNCHANGED <<mounted, subscription, cursor, messages, dropped, seen, crossed>>
    /\ UNCHANGED <<received, open>>

(* Leaving the page keeps the stream; the list and the polls are cancelled, and
   the replies still to come reach a panel that is gone. *)
Unmount ==
    /\ mounted
    /\ mounted' = FALSE
    /\ subscription' = 0 /\ cursor' = 0 /\ running' = FALSE
    /\ messages' = <<>> /\ dropped' = 0
    /\ seen' = {} /\ crossed' = FALSE
    /\ calls' = {[c EXCEPT !.no = 1] : c \in Of("start")}
    /\ UNCHANGED <<received, open>>

(* On mount the panel asks what is running. *)
Mount ==
    /\ ~mounted /\ Room
    /\ mounted' = TRUE
    /\ calls' = calls \cup {Call("list", 0, 0, 0)}
    /\ UNCHANGED <<received, open, subscription, cursor, running, messages, dropped, seen, crossed>>

(* ... and adopts the first it is told of. *)
Adopt(c) ==
    /\ c.kind = "list" /\ c.answer # "sent"
    /\ calls' = calls \ {c}
    /\ IF c.answer = "ok"
       THEN /\ cursor' = 0
            /\ Watch(c.id)
            /\ UNCHANGED <<mounted, messages, dropped, seen>>
       ELSE UNCHANGED panel
    /\ UNCHANGED <<received, open>>

--------------------------------------------------------------------------------
Init ==
    /\ received = [id \in Ids |-> -1]
    /\ open = {}
    /\ mounted = FALSE
    /\ subscription = 0 /\ cursor = 0 /\ running = FALSE
    /\ messages = <<>> /\ dropped = 0
    /\ calls = {} /\ seen = {} /\ crossed = FALSE

DriverStep == \E c \in calls : DriverStart(c) \/ DriverPoll(c) \/ DriverList(c)
Reply == \E c \in calls : StartReply(c) \/ PollReply(c) \/ Adopt(c)
User == Start \/ Stop \/ Clear \/ Mount \/ Unmount
World == CloseConnection \/ \E id \in Ids : Deliver(id)

Next == DriverStep \/ Reply \/ Tick \/ User \/ World

Spec == Init /\ [][Next]_vars

(* The interval fires, and a bridge call is answered. *)
LiveSpec ==
    /\ Spec
    /\ WF_vars(Tick)
    /\ \A kind \in {"start", "list"} :
          WF_vars(\E c \in Of(kind) : DriverStart(c) \/ DriverList(c) \/ StartReply(c) \/ Adopt(c))
    /\ \A no \in 1..MaxCalls :
          WF_vars(\E c \in Of("poll") : c.no = no /\ (DriverPoll(c) \/ PollReply(c)))

--------------------------------------------------------------------------------
(* Properties. *)

Row == Ids \X (1..MaxMessages)
CallRecord == [kind : {"start", "poll", "list"}, id : 0..MaxStreams,
               after : 0..MaxMessages, no : 0..MaxCalls, answer : {"sent", "ok", "failed", "none"},
               batch : [cursor : 0..MaxMessages, dropped : 0..MaxMessages, rows : Seq(Row)]]

(* The type of every variable. *)
TypeOK ==
    /\ received \in [Ids -> -1..MaxMessages]
    /\ open \subseteq {id \in Ids : received[id] >= 0}
    /\ mounted \in BOOLEAN /\ running \in BOOLEAN /\ crossed \in BOOLEAN
    /\ subscription \in 0..MaxStreams
    /\ cursor \in 0..MaxMessages /\ dropped \in 0..MaxMessages
    /\ messages \in Seq(Row) /\ Len(messages) <= Keep
    /\ seen \subseteq Row
    /\ calls \subseteq CallRecord

(* The messages of the stream being watched that can no longer reach the panel. *)
Missed ==
    {n \in 1..received[subscription] : <<subscription, n>> \notin seen /\ (n <= cursor \/ n < Oldest(subscription))}

(* No loss goes uncounted: whatever the ring overwrote, whatever order polls
   were answered in and however often the same batch came back, the driver's
   running total covers every message the panel will never show
   (useMqttStream.ts: "a stream that is quietly losing and one that is quiet are
   indistinguishable without it").  A panel whose cursor may be another
   stream's is excepted: the races of Start and Adopt leave it so. *)
LossIsCounted ==
    subscription # 0 /\ ~crossed => Cardinality(Missed) <= Lost(subscription)

(* A panel that shows a stream as running is not left so when the stream is gone:
   the next poll fails and says so. *)
GoneIsNoticed == (running /\ subscription \notin open) ~> ~(running /\ subscription \notin open)

(* A running panel catches up with its stream, whatever batches came back twice or
   out of order. *)
Behind == running /\ subscription \in open /\ cursor < received[subscription]
CatchesUp == Behind ~> ~Behind
================================================================================
