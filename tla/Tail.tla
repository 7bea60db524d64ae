---------------------------------- MODULE Tail ----------------------------------
(* Following a topic's newest messages (frontend/src/hooks/useMessageTail.ts).

   Every poll hands the cursor of the one before to the driver, which answers with
   what arrived since, how much aged out, and the next cursor.  A poll without a
   cursor starts at the end. *)
EXTENDS Integers, Sequences, FiniteSets

CONSTANTS Topics,
          MaxMessages, \* bound: the messages a topic ever holds
          MaxPolls,    \* bound: the polls under way at once
          Buffer       \* TAIL_BUFFER: the rows kept

VARIABLES topic,   \* the topic picked
          online,  \* the connection is
          running,
          cursor,  \* cursor.current, None for no position
          rows,    \* the rows on screen, newest first, <<topic, offset>>
          dropped, \* the loss on screen
          polls,   \* the polls under way
          seen,    \* rows that were ever on screen for this tail
          opened,  \* where this tail started
          length, oldest \* broker: the offsets a topic has handed out, and its oldest

vars == <<topic, online, running, cursor, rows, dropped, polls, seen, opened, length, oldest>>
broker == <<length, oldest>>

None == -1
NoBatch == [cursor |-> None, dropped |-> 0, first |-> 1, last |-> 0]
Greater(a, b) == IF a > b THEN a ELSE b

(* inFlight, which a torn down effect leaves set until the reply comes. *)
InFlight == polls # {}

(* clear: the tail starts over. *)
Cleared ==
    /\ cursor' = None /\ rows' = <<>> /\ dropped' = 0
    /\ seen' = {} /\ opened' = None

(* The effect on the topic, on running and on online is torn down, and with it the
   polls under way. *)
Cancelled == {[p EXCEPT !.cancelled = TRUE] : p \in polls}

(* The switch. *)
Start ==
    /\ ~running /\ online
    /\ running' = TRUE
    /\ Cleared
    /\ UNCHANGED <<topic, online, polls, broker>>

Stop ==
    /\ running /\ online
    /\ running' = FALSE
    /\ polls' = Cancelled
    /\ UNCHANGED <<topic, online, cursor, rows, dropped, seen, opened, broker>>

(* Picking a topic ends the tail. *)
Pick(t) ==
    /\ t # topic
    /\ topic' = t
    /\ running' = FALSE
    /\ polls' = Cancelled
    /\ Cleared
    /\ UNCHANGED <<online, broker>>

(* The connection goes and comes back; the tail resumes where it was. *)
GoOffline ==
    /\ online /\ online' = FALSE
    /\ polls' = Cancelled
    /\ UNCHANGED <<topic, running, cursor, rows, dropped, seen, opened, broker>>

ComeBack ==
    /\ ~online /\ online' = TRUE
    /\ UNCHANGED <<topic, running, cursor, rows, dropped, polls, seen, opened, broker>>

(* Mutant: the interval does not wait for the poll under way. *)
TickAnyway ==
    /\ running /\ online
    /\ Cardinality(polls) < MaxPolls
    /\ \E no \in 1..MaxPolls :
          /\ \A p \in polls : p.no # no
          /\ polls' = polls \cup {[no |-> no, topic |-> topic, after |-> cursor,
                                   stage |-> "sent", cancelled |-> FALSE, batch |-> NoBatch]}
    /\ UNCHANGED <<topic, online, running, cursor, rows, dropped, seen, opened, broker>>

(* One request at a time. *)
Tick ==
    /\ running /\ online /\ ~InFlight
    /\ Cardinality(polls) < MaxPolls
    /\ \E no \in 1..MaxPolls :
          /\ \A p \in polls : p.no # no
          /\ polls' = polls \cup {[no |-> no, topic |-> topic, after |-> cursor,
                                   stage |-> "sent", cancelled |-> FALSE, batch |-> NoBatch]}
    /\ UNCHANGED <<topic, online, running, cursor, rows, dropped, seen, opened, broker>>

(* What arrived after a position, and what aged out since. *)
Batch(t, after) ==
    IF after = None
    THEN [NoBatch EXCEPT !.cursor = length[t]]
    ELSE LET first == Greater(after + 1, oldest[t]) IN
         [cursor |-> Greater(after, length[t]), dropped |-> Greater(first - after - 1, 0),
          first |-> first, last |-> length[t]]

Answer(p) ==
    /\ p.stage = "sent"
    /\ \/ polls' = (polls \ {p}) \cup {[p EXCEPT !.stage = "ok", !.batch = Batch(p.topic, p.after)]}
       \/ polls' = (polls \ {p}) \cup {[p EXCEPT !.stage = "failed"]}
    /\ UNCHANGED <<topic, online, running, cursor, rows, dropped, seen, opened, broker>>

Arrived(p) ==
    [i \in 1..Greater(p.batch.last - p.batch.first + 1, 0) |-> <<p.topic, p.batch.last - i + 1>>]
FirstRows(s) == SubSeq(s, 1, IF Len(s) < Buffer THEN Len(s) ELSE Buffer)

Reply(p) ==
    /\ p.stage = "ok"
    /\ polls' = polls \ {p}
    /\ IF p.cancelled
       THEN UNCHANGED <<cursor, rows, dropped, seen, opened>>
       ELSE /\ cursor' = p.batch.cursor
            /\ dropped' = dropped + p.batch.dropped
            /\ rows' = FirstRows(Arrived(p) \o rows)
            /\ seen' = seen \cup {Arrived(p)[i] : i \in 1..Len(Arrived(p))}
            /\ opened' = IF opened = None THEN p.batch.cursor ELSE opened
    /\ UNCHANGED <<topic, online, running, broker>>

(* A failure shows its error; the next tick asks again. *)
Failure(p) ==
    /\ p.stage = "failed"
    /\ polls' = polls \ {p}
    /\ UNCHANGED <<topic, online, running, cursor, rows, dropped, seen, opened, broker>>

Produce(t) ==
    /\ length[t] < MaxMessages
    /\ length' = [length EXCEPT ![t] = @ + 1]
    /\ UNCHANGED <<topic, online, running, cursor, rows, dropped, polls, seen, opened, oldest>>

Retention(t) ==
    /\ oldest[t] <= length[t]
    /\ oldest' = [oldest EXCEPT ![t] = @ + 1]
    /\ UNCHANGED <<topic, online, running, cursor, rows, dropped, polls, seen, opened, length>>

Init ==
    /\ topic \in Topics /\ online = TRUE /\ running = FALSE
    /\ cursor = None /\ rows = <<>> /\ dropped = 0 /\ polls = {}
    /\ seen = {} /\ opened = None
    /\ length = [t \in Topics |-> 0] /\ oldest = [t \in Topics |-> 1]

Next ==
    \/ Start \/ Stop \/ Tick \/ GoOffline \/ ComeBack
    \/ \E t \in Topics : Pick(t) \/ Produce(t) \/ Retention(t)
    \/ \E p \in polls : Answer(p) \/ Reply(p) \/ Failure(p)

Spec == Init /\ [][Next]_vars

--------------------------------------------------------------------------------
(* Properties. *)

Row == Topics \X (1..MaxMessages)

(* The type of every variable. *)
TypeOK ==
    /\ topic \in Topics /\ online \in BOOLEAN /\ running \in BOOLEAN
    /\ cursor \in None..MaxMessages /\ opened \in None..MaxMessages /\ dropped \in Nat
    /\ rows \in Seq(Row) /\ Len(rows) <= Buffer
    /\ seen \subseteq Row
    /\ \A p \in polls : p.no \in 1..MaxPolls /\ p.after \in None..MaxMessages
    /\ Cardinality(polls) <= MaxPolls
    /\ length \in [Topics -> 0..MaxMessages] /\ oldest \in [Topics -> 1..(MaxMessages + 1)]

(* The tail accounts for every message between where its tail opened and its cursor:
   each was on screen once or is counted as dropped, whatever polls failed, were late
   or were cancelled ("a slow broker must not queue up polls that all arrive together
   and reorder the tail"). *)
TailIsWhole ==
    cursor # None => Cardinality(seen) + dropped = cursor - opened

(* The rows are the picked topic's, newest first, none of them twice. *)
TailInOrder ==
    /\ \A i \in 1..Len(rows) : rows[i][1] = topic
    /\ \A i, j \in 1..Len(rows) : i < j => rows[i][2] > rows[j][2]
================================================================================
