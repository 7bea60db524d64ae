---------------------------------- MODULE Dock ----------------------------------
(* The conversation in the assistant's dock (frontend/src/hooks/useAssistant.ts,
   design/agent/conversation.ts) following the one Go holds (agent/assistant/session.go)
   through numbered events, and read whole when one of them is missed.

   An event says that the conversation is at its number; what an event adds to it is
   told by the number.  Events arrive in any order or not at all, and the answer to a
   call before or after them. *)
EXTENDS Naturals, FiniteSets

CONSTANTS Sessions, \* the conversations
          MaxSeq,   \* bound: the events of a conversation
          MaxCalls  \* bound: the calls under way at once

NoDock == [session |-> {}, seq |-> 0, shown |-> {}]
Opened(s, n) == [session |-> {s}, seq |-> n, shown |-> 1..n]

VARIABLES held,    \* Go: the conversations it holds
          seq,     \* Go: the number of each one's last event
          flight,  \* the events on their way to the window
          dock,    \* current.current: none or one
          reading, \* reading.current
          calls,   \* the window's calls to Go
          lost,    \* an event was lost or a call failed (for the properties)
          crossed  \* an event was passed over while an answer was on its way (for the properties)

vars == <<held, seq, flight, dock, reading, calls, lost, crossed>>

Shows(s) == dock.session = {s}
Gone == MaxSeq + 1
Fresh(no) == \A c \in calls : c.no # no
Call(kind, s) ==
    \E no \in 1..MaxCalls :
        /\ Fresh(no)
        /\ calls' = calls \cup {[no |-> no, kind |-> kind, session |-> s, at |-> "sent", seq |-> 0]}

--------------------------------------------------------------------------------
(* Go. *)

(* emitLocked.  Nothing is said in a conversation before the window knows of it. *)
Emit(s) ==
    /\ s \in held /\ seq[s] < MaxSeq
    /\ \A c \in calls : c.kind = "start" => c.session # s
    /\ seq' = [seq EXCEPT ![s] = @ + 1]
    /\ flight' = flight \cup {<<s, seq'[s]>>}
    /\ UNCHANGED <<held, dock, reading, calls, lost, crossed>>

(* Delete; the window is told under a number of its own. *)
Delete(s) ==
    /\ s \in held
    /\ held' = held \ {s}
    /\ flight' = flight \cup {<<s, Gone>>}
    /\ UNCHANGED <<seq, dock, reading, calls, lost, crossed>>

(* Start and Snapshot, as the calls of the window reach them. *)
Serve(c) ==
    /\ c.at = "sent"
    /\ LET Answered(n) == calls' = (calls \ {c}) \cup {[c EXCEPT !.at = "answered", !.seq = n]}
           Failed == calls' = (calls \ {c}) \cup {[c EXCEPT !.at = "failed"]} /\ lost' = TRUE
       IN \/ c.kind = "start" /\ held' = held \cup {c.session} /\ Answered(0) /\ UNCHANGED lost
          \/ c.kind # "start" /\ c.session \in held /\ Answered(seq[c.session]) /\ UNCHANGED <<held, lost>>
          \/ Failed /\ UNCHANGED held
    /\ UNCHANGED <<seq, flight, dock, reading, crossed>>

--------------------------------------------------------------------------------
(* onAgentEvent. *)

Applies(n) == n > dock.seq
(* Mutant: an event is taken for the next whenever it is new. *)
IsNew(n) == n > dock.seq
IsNext(n) == n = dock.seq + 1

Apply(n) ==
    /\ dock' = [dock EXCEPT !.seq = n, !.shown = @ \cup {n}]
    /\ UNCHANGED <<reading, calls>>

(* reread: one at a time, whichever conversation it is for. *)
Reread(s) ==
    /\ UNCHANGED dock
    /\ IF reading THEN UNCHANGED <<reading, calls>>
       ELSE reading' = TRUE /\ Call("reread", s)

(* An event passes an answer that does not have it, or finds a reread of another
   conversation under way. *)
Passes(s, n) ==
    \E c \in calls : \/ c.session = s /\ c.at = "answered" /\ c.seq < n
                     \/ c.session # s /\ c.kind = "reread" /\ Shows(s) /\ n > dock.seq + 1

Arrive(e) ==
    /\ flight' = flight \ {e}
    /\ LET s == e[1]  n == e[2] IN
       /\ crossed' = (crossed \/ Passes(s, n))
       /\ \/ ~Shows(s) /\ UNCHANGED <<dock, reading, calls>>
          \/ Shows(s) /\ n = Gone /\ dock' = NoDock /\ UNCHANGED <<reading, calls>>
          \/ Shows(s) /\ ~Applies(n) /\ UNCHANGED <<dock, reading, calls>>
          \/ Shows(s) /\ n # Gone /\ Applies(n) /\ IsNext(n) /\ Apply(n)
          \/ Shows(s) /\ n # Gone /\ Applies(n) /\ ~IsNext(n) /\ Reread(s)
    /\ UNCHANGED <<held, seq, lost>>

Lose(e) ==
    /\ flight' = flight \ {e}
    /\ lost' = TRUE
    /\ UNCHANGED <<held, seq, dock, reading, calls, crossed>>

--------------------------------------------------------------------------------
(* The window's calls. *)

(* A conversation picked from the history, which lists those something was said in. *)
Open(s) ==
    /\ s \in held /\ seq[s] > 0
    /\ Call("open", s)
    /\ UNCHANGED <<held, seq, flight, dock, reading, lost, crossed>>

(* send, with nothing in the dock. *)
Begin(s) ==
    /\ dock = NoDock /\ s \notin held /\ seq[s] = 0 /\ \A c \in calls : c.session # s
    /\ <<s, Gone>> \notin flight
    /\ Call("start", s)
    /\ UNCHANGED <<held, seq, flight, dock, reading, lost, crossed>>

StartOver ==
    /\ dock # NoDock
    /\ dock' = NoDock
    /\ UNCHANGED <<held, seq, flight, reading, calls, lost, crossed>>

(* The history's rows are opened and deleted. *)
History == \E s \in Sessions : Open(s) \/ Delete(s)

(* The dock's own button and its composer. *)
AgentDock == StartOver \/ \E s \in Sessions : Begin(s)

(* The answer goes into the dock, whatever was put there since; a reread's only where
   its conversation still is, and the start-up's only into an empty dock. *)
Reply(c) ==
    /\ c.at = "answered"
    /\ calls' = calls \ {c}
    /\ IF c.kind = "reread"
       THEN reading' = FALSE /\ dock' = IF Shows(c.session) THEN Opened(c.session, c.seq) ELSE dock
       ELSE /\ UNCHANGED reading
            /\ dock' = IF c.kind = "restore" /\ dock # NoDock THEN dock ELSE Opened(c.session, c.seq)
    /\ UNCHANGED <<held, seq, flight, lost, crossed>>

Failed(c) ==
    /\ c.at = "failed"
    /\ calls' = calls \ {c}
    /\ reading' = IF c.kind = "reread" THEN FALSE ELSE reading
    /\ UNCHANGED <<held, seq, flight, dock, lost, crossed>>

--------------------------------------------------------------------------------
(* A window that reloads finds the conversations Go still holds, and takes one up. *)
Init ==
    /\ held \in SUBSET Sessions
    /\ seq \in [Sessions -> 0..1] /\ \A s \in Sessions : seq[s] = 1 <=> s \in held
    /\ flight = {} /\ dock = NoDock /\ reading = FALSE
    /\ calls \in {{}} \cup {{[no |-> 1, kind |-> "restore", session |-> s, at |-> "sent", seq |-> 0]} : s \in held}
    /\ lost = FALSE /\ crossed = FALSE

Next ==
    \/ \E s \in Sessions : Emit(s)
    \/ History \/ AgentDock
    \/ \E e \in flight : Arrive(e) \/ Lose(e)
    \/ \E c \in calls : Serve(c) \/ Reply(c) \/ Failed(c)

Spec == Init /\ [][Next]_vars

--------------------------------------------------------------------------------
(* Properties. *)

(* The type of every variable. *)
TypeOK ==
    /\ held \subseteq Sessions /\ seq \in [Sessions -> 0..MaxSeq]
    /\ flight \subseteq Sessions \X (1..Gone)
    /\ dock \in [session : SUBSET Sessions, seq : 0..MaxSeq, shown : SUBSET (1..MaxSeq)]
    /\ calls \subseteq [no : 1..MaxCalls, kind : {"restore", "open", "start", "reread"}, session : Sessions,
                        at : {"sent", "answered", "failed"}, seq : 0..MaxSeq]
    /\ \A c, d \in calls : c.no = d.no => c = d
    /\ {reading, lost, crossed} \subseteq BOOLEAN

(* What the dock shows is the conversation up to its number with nothing missing and
   nothing Go has not sent, in whatever order events, losses and answers come ("Events
   are numbered per conversation from 1 and have to be applied in that order: a delta
   means nothing without the item it extends"). *)
ShownIsWhole ==
    /\ dock.shown = 1..dock.seq
    /\ \A s \in Sessions : Shows(s) => dock.seq <= seq[s]

(* The dock never stops reading again after a gap: while it will not, a read is out
   ("The next event finds the same gap and asks again"). *)
ReadingHasCall == reading => \E c \in calls : c.kind = "reread"

Rest == calls = {} /\ flight = {}
Current(s) == s \in held /\ dock.seq = seq[s]

(* With every event and answer in, the dock shows what Go holds, unless one was lost or
   an event and an answer crossed on their way. *)
BehindIsNoticed == Rest /\ ~lost /\ ~crossed => \A s \in Sessions : Shows(s) => Current(s)

(* "Go holds the conversation itself; this follows it through the numbered events, and
   reads it whole when one goes missing": with no event lost and no call failed, the
   dock of a conversation Go still holds ends up where Go is. *)
FollowsGo == Rest /\ ~lost => \A s \in held : Shows(s) => Current(s)
================================================================================
