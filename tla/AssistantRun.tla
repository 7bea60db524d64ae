------------------------------ MODULE AssistantRun ------------------------------
(***************************************************************************)
(* A run of the assistant (internal/agent/assistant/run.go, with the       *)
(* methods of session.go the window calls on it and the audit journal):    *)
(* the turns of the model, the tools it asks for, and the gate every write *)
(* passes.                                                                 *)
(*                                                                         *)
(* The run is a goroutine, at its step; Stop, Decide, a change of the      *)
(* settings and an edit of the connection happen at any moment.  One run   *)
(* goes at a time (readyLocked), so there is one here, in one              *)
(* conversation.  What a tool reads or answers, texts and usage are left   *)
(* out.  A connection is the broker its profile points at, and an edit is  *)
(* whole: what an edit does step by step is in Connections.                *)
(***************************************************************************)
EXTENDS Integers, Sequences

CONSTANTS Reads, Writes, Destroys, \* the names of the tools, by blast
          TurnSize,  \* bound: the calls one turn of the model asks for
          Limit,     \* m.limit: the calls one run may make
          MaxCalls,  \* bound: the writes ever asked for
          Brokers    \* where the connection can point

Nowhere == "nowhere" \* no broker: not asked about, or not sent

ASSUME ToolsAssumption ==
    /\ Reads \cap (Writes \cup Destroys) = {} /\ Writes \cap Destroys = {}
    /\ {TurnSize, Limit, MaxCalls} \subseteq Nat
    /\ Nowhere \notin Brokers

VARIABLES writesOn,   \* settings.Writes = WritesApprove
          profile,    \* the connection's profile
          at,         \* the step of the run
          stopped,    \* the run's context is cancelled
          allow,      \* setup.allow: whether this run offers writes
          turn,       \* the calls of this turn not yet made
          calls,      \* calls made by this run
          limited,    \* a call was skipped for the limit
          writes,     \* the writes asked for, by the number journal.Next gave them
          asking,     \* s.asks holds the last one's question
          answer,     \* the question's channel
          remembered  \* s.remembered

vars == <<writesOn, profile, at, stopped, allow, turn, calls, limited, writes, asking,
          answer, remembered>>

Tools == Reads \cup Writes \cup Destroys
Turns == UNION {[1..n -> Tools] : n \in 1..TurnSize}
Phases == {"asked", "started", "refused", "finished"}
Answers == {"no", "yes", "remember"}
Steps == {"idle", "prepare", "turn", "loop", "question", "waiting", "check", "start",
          "perform", "finish", "refuse", "end"}

(* A write: the broker its question was about, what the person answered, where
   it was sent, what the audit log holds of it, and whether the connection was
   edited once ChangedSince had let it through. *)
Write == [tool : Writes \cup Destroys, shown : Brokers \cup {Nowhere},
          given : Answers \cup {"none"}, sent : Brokers \cup {Nowhere},
          phases : SUBSET Phases, moved : BOOLEAN]

(* The types of the run's state and of the writes it made. *)
TypeOK ==
    /\ {writesOn, stopped, allow, limited, asking} \subseteq BOOLEAN
    /\ profile \in Brokers
    /\ at \in Steps
    /\ turn \in Turns \cup {<<>>}
    /\ calls \in 0..Limit
    /\ writes \in Seq(Write) /\ Len(writes) <= MaxCalls
    /\ answer \in Answers \cup {"none"}
    /\ remembered \subseteq Writes

--------------------------------------------------------------------------------
(* Helpers. *)

World == <<writesOn, profile>>
Budget == <<turn, calls, limited>>
Question == <<asking, answer>>
write == writes[Len(writes)] \* the one in progress
OnWrite(new) == [writes EXCEPT ![Len(writes)] = new]

(* Journal.Append: an error may come after the line was written. *)
Logged(phase, ok) ==
    {OnWrite([write EXCEPT !.phases = @ \cup kept]) :
        kept \in IF ok THEN {{phase}} ELSE {{}, {phase}}}

--------------------------------------------------------------------------------
(* Send and Continue. *)
Send ==
    /\ at = "idle"
    /\ at' = "prepare"
    /\ UNCHANGED <<World, stopped, allow, Budget, writes, Question, remembered>>

(* converse up to its loop. *)
Prepare ==
    /\ at = "prepare"
    /\ at' \in {"turn", "end"}
    /\ allow' = writesOn
    /\ UNCHANGED <<World, stopped, Budget, writes, Question, remembered>>

(* The model asks for tools. *)
TakeTurn(tools) ==
    /\ at = "turn"
    /\ turn' = tools
    /\ at' = "loop"
    /\ UNCHANGED <<World, stopped, allow, calls, limited, writes, Question, remembered>>

(* It answers, is cut short, fails, or the stop ended the request. *)
EndTurn ==
    /\ at = "turn"
    /\ at' = "end"
    /\ UNCHANGED <<World, stopped, allow, Budget, writes, Question, remembered>>

(* A call that is not run: after a stop, or over the limit. *)
SkipCall ==
    /\ at = "loop" /\ turn # <<>>
    /\ stopped \/ calls >= Limit
    /\ limited' = (limited \/ ~stopped)
    /\ turn' = Tail(turn)
    /\ UNCHANGED <<World, at, stopped, allow, calls, writes, Question, remembered>>

(* A read, or a call refused for its name or its arguments. *)
SettledCall ==
    /\ at = "loop" /\ turn # <<>>
    /\ ~stopped /\ calls < Limit
    /\ calls' = calls + 1
    /\ turn' = Tail(turn)
    /\ UNCHANGED <<World, at, stopped, allow, limited, writes, Question, remembered>>

(* Mutant: one remembered tool lets every write through. *)
FirstStepAny(tool) == IF remembered # {} THEN "check" ELSE "question"

FirstStep(tool) == IF tool \in remembered THEN "check" ELSE "question"

BeginWrite ==
    /\ at = "loop" /\ turn # <<>>
    /\ ~stopped /\ calls < Limit
    /\ Head(turn) \in Writes \cup Destroys /\ allow
    /\ Len(writes) < MaxCalls
    /\ calls' = calls + 1
    /\ writes' = Append(writes, [tool |-> Head(turn), shown |-> Nowhere, given |-> "none",
                                 sent |-> Nowhere, phases |-> {}, moved |-> FALSE])
    /\ at' = FirstStep(Head(turn))
    /\ turn' = Tail(turn)
    /\ UNCHANGED <<World, stopped, allow, limited, Question, remembered>>

LoopDone ==
    /\ at = "loop" /\ turn = <<>>
    /\ at' = IF stopped \/ limited THEN "end" ELSE "turn"
    /\ UNCHANGED <<World, stopped, allow, Budget, writes, Question, remembered>>

--------------------------------------------------------------------------------
(* write: the question.  A destruction's names the profile as it is now, and is
   recorded before it is put. *)
AskFailed ==
    /\ at = "question"
    /\ \/ UNCHANGED writes
       \/ write.tool \in Destroys /\ writes' \in Logged("asked", FALSE)
    /\ at' = "refuse"
    /\ UNCHANGED <<World, stopped, allow, Budget, Question, remembered>>

Ask ==
    /\ at = "question"
    /\ writes' = IF write.tool \in Destroys
                 THEN OnWrite([write EXCEPT !.phases = @ \cup {"asked"}, !.shown = profile])
                 ELSE writes
    /\ asking' = TRUE /\ answer' = "none"
    /\ at' = "waiting"
    /\ UNCHANGED <<World, stopped, allow, Budget, remembered>>

(* The person answers. *)
Decide(given) ==
    /\ asking
    /\ asking' = FALSE /\ answer' = given
    /\ writes' = OnWrite([write EXCEPT !.given = given])
    /\ UNCHANGED <<World, at, stopped, allow, Budget, remembered>>

Remembering(tool) == remembered \cup ({tool} \cap Writes)

(* The select in ask, which takes either case when both are ready. *)
WakeAnswered ==
    /\ at = "waiting"
    /\ answer # "none"
    /\ at' = IF answer = "no" THEN "refuse" ELSE "check"
    /\ remembered' = IF answer = "remember" THEN Remembering(write.tool) ELSE remembered
    /\ answer' = "none"
    /\ UNCHANGED <<World, stopped, allow, Budget, writes, asking>>

(* Mutant: only a question that was answered wakes up to a stop. *)
WakeStoppedUnasked ==
    /\ at = "waiting"
    /\ stopped /\ ~asking
    /\ asking' = FALSE /\ answer' = "none"
    /\ at' = "refuse"
    /\ UNCHANGED <<World, stopped, allow, Budget, writes, remembered>>

WakeStopped ==
    /\ at = "waiting"
    /\ stopped
    /\ asking' = FALSE /\ answer' = "none"
    /\ at' = "refuse"
    /\ UNCHANGED <<World, stopped, allow, Budget, writes, remembered>>

(* Mutant: the connection is not looked at again. *)
CheckSettingsOnly ==
    /\ at = "check"
    /\ \/ at' = "refuse"
       \/ writesOn /\ at' = "start"
    /\ UNCHANGED <<World, stopped, allow, Budget, writes, Question, remembered>>

(* Writes turned off, or the connection pointed elsewhere, while the person
   read; the settings may also be unreadable. *)
Check ==
    /\ at = "check"
    /\ \/ at' = "refuse"
       \/ /\ writesOn
          /\ write.shown # Nowhere => profile = write.shown
          /\ at' = "start"
    /\ UNCHANGED <<World, stopped, allow, Budget, writes, Question, remembered>>

(* Mutant: a write goes on although its record failed. *)
StartUnrecorded(ok) ==
    /\ at = "start"
    /\ writes' \in Logged("started", ok)
    /\ at' = "perform"
    /\ UNCHANGED <<World, stopped, allow, Budget, Question, remembered>>

(* journal.Before: without the record on disk the write is not made. *)
StartWrite(ok) ==
    /\ at = "start"
    /\ writes' \in Logged("started", ok)
    /\ at' = IF ok THEN "perform" ELSE "refuse"
    /\ UNCHANGED <<World, stopped, allow, Budget, Question, remembered>>

(* tool.Run, which a stop does not reach; one that fails may have acted or not. *)
Perform ==
    /\ at = "perform"
    /\ writes' \in {writes, OnWrite([write EXCEPT !.sent = profile])}
    /\ at' = "finish"
    /\ UNCHANGED <<World, stopped, allow, Budget, Question, remembered>>

(* The outcome is kept in the log, as far as the log can be written. *)
Finish(ok) ==
    /\ at = "finish"
    /\ writes' \in Logged("finished", ok)
    /\ at' = "loop"
    /\ UNCHANGED <<World, stopped, allow, Budget, Question, remembered>>

(* refuse: the reason is kept likewise, and the model told. *)
Refuse(ok) ==
    /\ at = "refuse"
    /\ writes' \in Logged("refused", ok)
    /\ at' = "loop"
    /\ UNCHANGED <<World, stopped, allow, Budget, Question, remembered>>

(* The end of run, which takes its own state with it. *)
EndRun ==
    /\ at = "end"
    /\ at' = "idle"
    /\ stopped' = FALSE /\ allow' = FALSE
    /\ turn' = <<>> /\ calls' = 0 /\ limited' = FALSE
    /\ UNCHANGED <<World, writes, Question, remembered>>

--------------------------------------------------------------------------------
(* Stop cancels the run's context, and nothing else. *)
Stop ==
    /\ at # "idle"
    /\ stopped' = TRUE
    /\ UNCHANGED <<World, at, allow, Budget, writes, Question, remembered>>

(* The settings and the connections, changed in the window meanwhile. *)
SetWrites ==
    /\ writesOn' = ~writesOn
    /\ UNCHANGED <<profile, at, stopped, allow, Budget, writes, Question, remembered>>

EditConnection(broker) ==
    /\ profile' = broker
    /\ writes' = IF at \in {"start", "perform"} /\ write.tool \in Destroys /\ broker # profile
                 THEN OnWrite([write EXCEPT !.moved = TRUE]) ELSE writes
    /\ UNCHANGED <<writesOn, at, stopped, allow, Budget, Question, remembered>>

(* The process ends; a conversation read back remembers nothing (fromRecord). *)
Restart ==
    /\ at' = "idle" /\ stopped' = FALSE /\ allow' = FALSE
    /\ turn' = <<>> /\ calls' = 0 /\ limited' = FALSE
    /\ asking' = FALSE /\ answer' = "none"
    /\ remembered' = {}
    /\ UNCHANGED <<World, writes>>

--------------------------------------------------------------------------------
Init ==
    /\ writesOn \in BOOLEAN /\ profile \in Brokers
    /\ at = "idle" /\ stopped = FALSE /\ allow = FALSE
    /\ turn = <<>> /\ calls = 0 /\ limited = FALSE
    /\ writes = <<>>
    /\ asking = FALSE /\ answer = "none"
    /\ remembered = {}

(* The goroutine of the run. *)
RunStep ==
    \/ Prepare \/ EndTurn \/ \E tools \in Turns : TakeTurn(tools)
    \/ SkipCall \/ SettledCall \/ BeginWrite \/ LoopDone
    \/ AskFailed \/ Ask \/ WakeAnswered \/ WakeStopped
    \/ Check \/ Perform \/ EndRun
    \/ \E ok \in BOOLEAN : StartWrite(ok) \/ Finish(ok) \/ Refuse(ok)

(* The window. *)
Person ==
    \/ Send \/ Stop \/ SetWrites
    \/ \E broker \in Brokers : EditConnection(broker)
    \/ \E given \in Answers : Decide(given)

Next == RunStep \/ Person \/ Restart

Spec == Init /\ [][Next]_vars

(* The goroutine runs on: a request to the model ends with the context it is
   given, and a call of the broker with its timeout. *)
LiveSpec == Spec /\ WF_vars(RunStep)

--------------------------------------------------------------------------------
(* Properties. *)

(* The person said yes to write i, or let its tool through before. *)
Agreed(i) ==
    \/ writes[i].given \in {"yes", "remember"}
    \/ /\ writes[i].tool \in Writes
       /\ \E j \in 1..(i - 1) : /\ writes[j].tool = writes[i].tool
                               /\ writes[j].given = "remember"

(* A write the broker was sent is one the person said yes to, or one of a tool
   they had let through for the rest of the conversation, which no destruction
   ever is (write, run.go:433-435; Decide, session.go:299-301). *)
AgreedToEach == \A i \in DOMAIN writes : writes[i].sent # Nowhere => Agreed(i)

(* The audit log tells what was done: it holds the start of every write the
   broker was sent, and the refusal of none, although any append may fail and
   the process may end anywhere (Journal.Before, audit.go:137-145). *)
JournalIsTrue ==
    \A i \in DOMAIN writes :
        writes[i].sent # Nowhere =>
            "started" \in writes[i].phases /\ "refused" \notin writes[i].phases

(* A destruction is sent to a broker other than the one its question was about
   only when the connection was edited after ChangedSince looked: an edit while
   the question was open is always caught (run.go:504-517). *)
EditIsCaught ==
    \A i \in DOMAIN writes :
        /\ writes[i].tool \in Destroys
        /\ writes[i].sent \notin {Nowhere, writes[i].shown}
        => writes[i].moved

(* A run that is stopped ends, whatever it was waiting for (Stop,
   session.go:283-297). *)
StopEnds == stopped /\ at # "idle" ~> at = "idle"

(* What ask says of the race of an answer with a stop (run.go:546): the answer
   loses. *)
AnswerLosesToStop == [][at = "waiting" /\ at' = "check" => ~stopped]_vars
================================================================================
