--------------------------------- MODULE Browse ---------------------------------
(* The pages that read messages when they are asked to, and act on what they read:
   the browse hooks (frontend/src/hooks) and the message and dead-letter pages
   (frontend/src/design/boards/messages, dlq).

   The user picks a source - a queue, a stream, a topic, a group - and reads it.  The
   rows stay on screen while another source is picked, and every button of a row
   works on the source that is picked. *)
EXTENDS Naturals, FiniteSets

CONSTANTS Sources, Ids,
          MaxReads \* bound: the reads of one page

(* A page: whether its button is off while a read is under way; whether picking a
   source reads it; whether only the newest read is shown; whether picking drops the
   rows; and what a row's button does. *)
Reader(row) ==
    [guarded |-> TRUE, picks |-> FALSE, newest |-> FALSE, clears |-> FALSE, row |-> row]

(* useServiceBusBrowse, useSqsBrowse and their like: read and show. *)
MessagesGooglePubSub == Reader("none")
MessagesIbmMq == Reader("none")
MessagesKinesis == Reader("none")
MessagesNats == Reader("none")
MessagesRabbitMQ == Reader("none")
MessagesSolace == Reader("none")
MessagesSqs == Reader("none")
(* The next read starts where the rows end. *)
MessagesAzureServiceBus == Reader("more")
(* A generation, and a button that is off as well. *)
MessagesKafka == [Reader("none") EXCEPT !.newest = TRUE]
(* The trace, a replay and a resend of a message. *)
MessagesRocketMQ == Reader("resend")
(* Enter reads whatever is under way. *)
MessagesRedis == [Reader("delete") EXCEPT !.guarded = FALSE]
(* Reads of useBrokerData: a question of its own for every source. *)
MessagesPulsar == [Reader("none") EXCEPT !.guarded = FALSE, !.newest = TRUE, !.clears = TRUE]
MessagesActiveMQ ==
    [Reader("none") EXCEPT !.newest = TRUE, !.clears = TRUE, !.picks = TRUE]
(* Dead letters, read as soon as their store is picked. *)
DlqAzureServiceBus == [Reader("putBack") EXCEPT !.guarded = FALSE, !.picks = TRUE]
DlqRocketMQ == [Reader("putBack") EXCEPT !.picks = TRUE]
(* A stream's shards, read as soon as it is picked. *)
ShardsKinesis == [Reader("none") EXCEPT !.picks = TRUE]

Readers ==
    {MessagesGooglePubSub, MessagesIbmMq, MessagesKinesis, MessagesNats, MessagesRabbitMQ,
     MessagesSolace, MessagesSqs, MessagesAzureServiceBus, MessagesKafka,
     MessagesRocketMQ, MessagesRedis, MessagesPulsar, MessagesActiveMQ,
     DlqAzureServiceBus, DlqRocketMQ, ShardsKinesis}

VARIABLES reader,  \* the page
          picked,  \* the source picked
          rows,    \* the answer on screen
          running, \* the spinner, and the button
          asked,   \* the reads asked for so far
          reads,   \* the reads under way
          act,     \* what a row's button was last pressed for
          held     \* broker: the messages

vars == <<reader, picked, rows, running, asked, reads, act, held>>

NoRows == [no |-> 0, src |-> CHOOSE s \in Sources : TRUE, ids |-> {}]
NoAct == [stage |-> "none"]

(* run, browse, query, read: the spinner, and a request. *)
Read(src, from) ==
    /\ asked < MaxReads
    /\ asked' = asked + 1
    /\ running' = TRUE
    /\ reads' = reads \cup {[no |-> asked + 1, src |-> src, from |-> from, stage |-> "sent", ids |-> {}]}

(* The source is picked; what was read of another stays, unless the page asks a
   question of its own for every source. *)
Pick(src) ==
    /\ src # picked
    /\ picked' = src
    /\ rows' = IF reader.clears THEN NoRows ELSE rows
    /\ IF reader.picks THEN Read(src, 0)
       ELSE IF reader.clears
       THEN asked < MaxReads /\ asked' = asked + 1 /\ running' = FALSE /\ UNCHANGED reads
       ELSE UNCHANGED <<asked, running, reads>>
    /\ UNCHANGED <<reader, act, held>>

(* Mutant: the button works while a read is under way. *)
RunAgain ==
    /\ Read(picked, 0)
    /\ rows' = IF reader.clears /\ ~reader.picks THEN NoRows ELSE rows
    /\ UNCHANGED <<reader, picked, act, held>>

(* The button. *)
Run ==
    /\ reader.guarded => ~running
    /\ Read(picked, 0)
    /\ rows' = IF reader.clears /\ ~reader.picks THEN NoRows ELSE rows
    /\ UNCHANGED <<reader, picked, act, held>>

(* More: from after the last row on screen, of the source picked now. *)
More ==
    /\ reader.row = "more" /\ ~running /\ rows.ids # {}
    /\ \E last \in rows.ids :
          /\ \A id \in rows.ids : id <= last
          /\ Read(picked, last + 1)
    /\ UNCHANGED <<reader, picked, rows, act, held>>

BrokerReads(r) ==
    /\ r.stage = "sent"
    /\ \/ reads' = (reads \ {r}) \cup
                   {[r EXCEPT !.stage = "read",
                              !.ids = {id \in Ids : id >= r.from /\ <<r.src, id>> \in held}]}
       \/ reads' = (reads \ {r}) \cup {[r EXCEPT !.stage = "failed"]}
    /\ UNCHANGED <<reader, picked, rows, running, asked, act, held>>

(* The answer replaces the rows, or a failure drops them. *)
Landed(r) ==
    /\ r.stage # "sent"
    /\ reads' = reads \ {r}
    /\ IF reader.newest /\ r.no # asked
       THEN UNCHANGED <<rows, running>>
       ELSE /\ rows' = IF r.stage = "read" THEN [no |-> r.no, src |-> r.src, ids |-> r.ids] ELSE NoRows
            /\ running' = FALSE
    /\ UNCHANGED <<reader, picked, asked, act, held>>

--------------------------------------------------------------------------------
(* A row's button.  It is sent with the source picked when it was pressed. *)

PressRow(id) ==
    /\ reader.row \in {"delete", "resend", "putBack"}
    /\ act.stage \in {"none", "told"}
    /\ id \in rows.ids
    /\ act' = [stage |-> "asked", target |-> picked, id |-> id]
    /\ UNCHANGED <<reader, picked, rows, running, asked, reads, held>>

(* The question is answered (a resend has its own dialog, which may be left). *)
Confirm ==
    /\ act.stage = "asked"
    /\ act' = [act EXCEPT !.stage = "sent"]
    /\ UNCHANGED <<reader, picked, rows, running, asked, reads, held>>

Leave ==
    /\ act.stage = "asked"
    /\ act' = NoAct
    /\ UNCHANGED <<reader, picked, rows, running, asked, reads, held>>

(* A delete and a put-back take the message, if it is there, from the source they
   name. *)
BrokerActs ==
    /\ act.stage = "sent"
    /\ \/ /\ act' = [act EXCEPT !.stage = "made"]
          /\ held' = IF reader.row = "resend" THEN held ELSE held \ {<<act.target, act.id>>}
       \/ /\ act' = [act EXCEPT !.stage = "refused"]
          /\ UNCHANGED held
    /\ UNCHANGED <<reader, picked, rows, running, asked, reads>>

(* A delete and a put-back are followed by a read of the same source. *)
Told ==
    /\ act.stage = "made"
    /\ act' = [act EXCEPT !.stage = "told"]
    /\ IF reader.row = "resend"
       THEN UNCHANGED <<running, asked, reads>>
       ELSE Read(act.target, 0)
    /\ UNCHANGED <<reader, picked, rows, held>>

Refused ==
    /\ act.stage = "refused"
    /\ act' = NoAct
    /\ UNCHANGED <<reader, picked, rows, running, asked, reads, held>>

(* A consumer takes a message. *)
Taken(src, id) ==
    /\ <<src, id>> \in held
    /\ held' = held \ {<<src, id>>}
    /\ UNCHANGED <<reader, picked, rows, running, asked, reads, act>>

--------------------------------------------------------------------------------
Init ==
    /\ reader \in Readers /\ picked \in Sources
    /\ rows = NoRows /\ running = FALSE /\ asked = 0 /\ reads = {}
    /\ act = NoAct
    /\ held = Sources \X Ids

Next ==
    \/ \E src \in Sources : Pick(src) \/ \E id \in Ids : Taken(src, id)
    \/ Run \/ More
    \/ \E r \in reads : BrokerReads(r) \/ Landed(r)
    \/ \E id \in Ids : PressRow(id)
    \/ Confirm \/ Leave \/ BrokerActs \/ Told \/ Refused

Spec == Init /\ [][Next]_vars

--------------------------------------------------------------------------------
(* Properties. *)

ReadRecord ==
    [no : 1..MaxReads, src : Sources, from : Nat, stage : {"sent", "read", "failed"}, ids : SUBSET Ids]
ActRecord ==
    [stage : {"asked", "sent", "made", "refused", "told"}, target : Sources, id : Ids]

(* The type of every variable. *)
TypeOK ==
    /\ reader \in Readers /\ picked \in Sources
    /\ rows \in [no : 0..MaxReads, src : Sources, ids : SUBSET Ids]
    /\ running \in BOOLEAN /\ asked \in 0..MaxReads
    /\ reads \subseteq ReadRecord
    /\ act \in ActRecord \cup {NoAct}
    /\ held \subseteq Sources \X Ids

(* The button is never off for good: a spinner has a read that takes it away, in
   whatever order reads are answered (the finally of every browse hook). *)
RunningHasRead == running => reads # {}

(* A page whose button is off while it reads, or that keeps a generation, shows the
   answer to what was asked last once nothing is under way: no late answer stays. *)
InOrder == reader.newest \/ (reader.guarded /\ ~reader.picks)
ShowsLastRead ==
    InOrder /\ reads = {} => rows.no \in {0, asked}

(* A page that asks a question of its own for every source never shows what was read
   of another (MessagesPulsar, MessagesActiveMQ). *)
RowsArePicked == reader.clears /\ rows.no # 0 => rows.src = picked
================================================================================
