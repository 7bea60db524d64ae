---------------------------- MODULE AssistantProofs ----------------------------
(* Proofs about AssistantRun, for any tools, brokers and bounds. *)
EXTENDS AssistantRun, SequenceTheorems, TLAPS

WriteSteps == {"question", "waiting", "check", "start", "perform", "finish", "refuse"}
Unsent == WriteSteps \ {"finish"}
Unrefused == WriteSteps \ {"refuse"}

(* The types the argument needs. *)
Typed ==
    /\ profile \in Brokers
    /\ at \in Steps
    /\ writes \in Seq(Write)
    /\ answer \in Answers \cup {"none"}

(* What the run has established about the write in progress at each step. *)
WriteInv ==
    /\ at \in WriteSteps => Len(writes) > 0
    /\ at \in Unsent => write.sent = Nowhere
    /\ at \in Unrefused => "refused" \notin write.phases
    /\ at \in {"perform", "finish"} => "started" \in write.phases
    /\ at \in {"check", "start", "perform"} => Agreed(Len(writes))
    /\ at \in {"waiting", "check", "start", "perform"} /\ write.tool \in Destroys =>
          write.shown \in Brokers
    /\ at \in {"start", "perform"} /\ write.tool \in Destroys =>
          write.shown = profile \/ write.moved

(* A question and its answer belong to the write in progress. *)
AskInv ==
    /\ asking => at = "waiting" /\ answer = "none"
    /\ answer # "none" => at = "waiting" /\ write.given = answer
    /\ asking \/ at = "question" => write.given = "none"

(* The person asked for every tool that is remembered. *)
RememberInv ==
    \A t \in remembered :
        /\ t \in Writes
        /\ \E j \in DOMAIN writes : writes[j].tool = t /\ writes[j].given = "remember"

(* The inductive invariant. *)
IInv ==
    /\ Typed /\ WriteInv /\ AskInv /\ RememberInv
    /\ AgreedToEach /\ JournalIsTrue /\ EditIsCaught

--------------------------------------------------------------------------------
(* A change of the write in progress leaves the others as they were. *)
LEMMA OnWriteFacts ==
    ASSUME writes \in Seq(Write), Len(writes) > 0, NEW new \in Write, writes' = OnWrite(new)
    PROVE  /\ writes' \in Seq(Write)
           /\ Len(writes') = Len(writes)
           /\ DOMAIN writes' = DOMAIN writes
           /\ Len(writes) \in DOMAIN writes
           /\ write' = new
           /\ \A i \in DOMAIN writes : i # Len(writes) => writes'[i] = writes[i]
           /\ DOMAIN writes = 1..Len(writes) /\ Len(writes) \in Nat
BY DEF OnWrite, write

(* One that keeps the tool and the answer changes no agreement. *)
LEMMA AgreementKept ==
    ASSUME writes \in Seq(Write), Len(writes) > 0, NEW new \in Write, writes' = OnWrite(new),
           new.tool = write.tool, new.given = write.given
    PROVE  /\ \A i \in DOMAIN writes : Agreed(i) => Agreed(i)'
           /\ RememberInv /\ UNCHANGED remembered => RememberInv'
<1>1. \A i \in DOMAIN writes : /\ writes'[i].tool = writes[i].tool
                               /\ writes'[i].given = writes[i].given
  BY OnWriteFacts DEF write
<1>2. DOMAIN writes' = DOMAIN writes /\ DOMAIN writes = 1..Len(writes) /\ Len(writes) \in Nat
  BY OnWriteFacts
<1>3. \A i \in DOMAIN writes : \A j \in 1..(i - 1) : j \in DOMAIN writes
  BY <1>2
<1>4. \A i \in DOMAIN writes : Agreed(i) => Agreed(i)'
  BY <1>1, <1>3 DEF Agreed
<1>5. RememberInv /\ UNCHANGED remembered => RememberInv'
  BY <1>1, <1>2 DEF RememberInv
<1> QED BY <1>4, <1>5

(* A step that leaves the writes and the questions alone, and the write in
   progress where it was. *)
LEMMA QuietPreserves ==
    ASSUME IInv, UNCHANGED <<profile, writes, asking, answer>>,
           remembered' \subseteq remembered,
           at' \in Steps, at' = at \/ (at \notin WriteSteps /\ at' \notin WriteSteps)
    PROVE  IInv'
<1>1. Typed'
  BY DEF IInv, Typed
<1>2. \A i : Agreed(i)' = Agreed(i)
  BY DEF IInv, Agreed
<1>3. WriteInv'
  BY <1>2 DEF IInv, WriteInv, write, WriteSteps, Unsent, Unrefused
<1>4. AskInv'
  BY DEF IInv, AskInv, write, WriteSteps
<1>5. RememberInv'
  BY DEF IInv, RememberInv
<1>6. AgreedToEach' /\ JournalIsTrue' /\ EditIsCaught'
  BY <1>2 DEF IInv, AgreedToEach, JournalIsTrue, EditIsCaught
<1> QED BY <1>1, <1>3, <1>4, <1>5, <1>6 DEF IInv

(* A new write is the one in progress, and is agreed to if its tool is
   remembered. *)
LEMMA BeginPreserves ==
    ASSUME IInv, BeginWrite
    PROVE  IInv'
<1> DEFINE new == [tool |-> Head(turn), shown |-> Nowhere, given |-> "none",
                   sent |-> Nowhere, phases |-> {}, moved |-> FALSE]
           n == Len(writes) + 1
<1>1. /\ writes' = Append(writes, new)
      /\ at' = IF Head(turn) \in remembered THEN "check" ELSE "question"
      /\ UNCHANGED <<profile, asking, answer, remembered>>
      /\ at = "loop" /\ Head(turn) \in Writes \cup Destroys
  BY DEF BeginWrite, FirstStep, World, Question
<1>2. new \in Write
  BY <1>1 DEF Write
<1> HIDE DEF new
<1>3. /\ writes' \in Seq(Write) /\ Len(writes') = n
      /\ \A i \in DOMAIN writes : i \in DOMAIN writes' /\ writes'[i] = writes[i]
      /\ DOMAIN writes = 1..Len(writes) /\ DOMAIN writes' = 1..n /\ Len(writes) \in Nat
      /\ write' = new /\ writes'[n] = new
  BY <1>1, <1>2 DEF IInv, Typed, write
<1>4. \A i \in DOMAIN writes : Agreed(i) => Agreed(i)'
  <2>1. \A i \in DOMAIN writes : \A j \in 1..(i - 1) : j \in DOMAIN writes
    BY <1>3
  <2> QED BY <1>3, <2>1 DEF Agreed
<1>5. Typed'
  BY <1>1, <1>3 DEF IInv, Typed, Steps
<1>6. at' = "check" => new.tool \in Writes /\ Agreed(Len(writes))'
  <2>1. new.tool = Head(turn) /\ new.given = "none"
    BY DEF new
  <2> SUFFICES ASSUME at' = "check" PROVE new.tool \in Writes /\ Agreed(Len(writes))'
    OBVIOUS
  <2>2. new.tool \in remembered
    BY <1>1, <2>1
  <2>3. PICK j \in DOMAIN writes : writes[j].tool = new.tool /\ writes[j].given = "remember"
    BY <2>2 DEF IInv, RememberInv
  <2>4. j \in 1..(n - 1) /\ writes'[j] = writes[j]
    BY <1>3
  <2> QED BY <1>3, <2>2, <2>3, <2>4 DEF IInv, RememberInv, Agreed
<1>7. WriteInv'
  BY <1>1, <1>3, <1>6, ToolsAssumption DEF WriteInv, WriteSteps, Unsent, Unrefused, new
<1>8. AskInv'
  BY <1>1, <1>3 DEF IInv, AskInv, new
<1>9. RememberInv'
  BY <1>1, <1>3 DEF IInv, RememberInv
<1>10. AgreedToEach' /\ JournalIsTrue' /\ EditIsCaught'
  <2>1. \A i \in DOMAIN writes' : i \in DOMAIN writes \/ i = n
    BY <1>3
  <2>2. new.sent = Nowhere
    BY DEF new
  <2> QED BY <1>3, <1>4, <2>1, <2>2 DEF IInv, AgreedToEach, JournalIsTrue, EditIsCaught
<1> QED BY <1>5, <1>7, <1>8, <1>9, <1>10 DEF IInv

(* A record added to the log, or not. *)
LEMMA LoggedFacts ==
    ASSUME IInv, at \in WriteSteps, NEW phase \in Phases, NEW ok \in BOOLEAN,
           writes' \in Logged(phase, ok)
    PROVE  \E new \in Write :
              /\ writes' = OnWrite(new)
              /\ new.tool = write.tool /\ new.given = write.given /\ new.sent = write.sent
              /\ new.shown = write.shown /\ new.moved = write.moved
              /\ write.phases \subseteq new.phases
              /\ new.phases \subseteq write.phases \cup {phase}
              /\ ok => phase \in new.phases
<1>1. PICK kept \in {{}, {phase}} :
         /\ writes' = OnWrite([write EXCEPT !.phases = @ \cup kept])
         /\ ok => kept = {phase}
  BY DEF Logged
<1>2. write \in Write
  BY DEF IInv, Typed, WriteInv, write
<1>3. [write EXCEPT !.phases = @ \cup kept] \in Write
  BY <1>2 DEF Write
<1> QED BY <1>1, <1>2, <1>3 DEF Write

(* The last write keeps what was established of it when only its records and
   the step change. *)
LEMMA RecordPreserves ==
    ASSUME IInv, at \in WriteSteps, at' \in Steps, UNCHANGED <<profile, remembered>>,
           answer' \in Answers \cup {"none"},
           NEW new \in Write, writes' = OnWrite(new), WriteInv', AskInv',
           new.tool = write.tool, new.given = write.given,
           new.sent # Nowhere => /\ Agreed(Len(writes))
                                 /\ "started" \in new.phases /\ "refused" \notin new.phases
                                 /\ \/ new.tool \notin Destroys \/ new.sent = new.shown
                                    \/ new.moved
    PROVE  IInv'
<1>1. Len(writes) > 0 /\ writes \in Seq(Write)
  BY DEF IInv, Typed, WriteInv
<1>2. /\ writes' \in Seq(Write)
      /\ Len(writes') = Len(writes)
      /\ DOMAIN writes' = DOMAIN writes
      /\ Len(writes) \in DOMAIN writes
      /\ writes'[Len(writes)] = new
      /\ \A i \in DOMAIN writes : i # Len(writes) => writes'[i] = writes[i]
  BY <1>1, OnWriteFacts DEF write
<1>3. Typed'
  BY <1>2 DEF IInv, Typed
<1>4. (\A i \in DOMAIN writes : Agreed(i) => Agreed(i)') /\ RememberInv'
  BY <1>1, AgreementKept DEF IInv
<1>5. AgreedToEach'
  BY <1>2, <1>4 DEF IInv, AgreedToEach
<1>6. JournalIsTrue' /\ EditIsCaught'
  BY <1>2 DEF IInv, JournalIsTrue, EditIsCaught
<1> QED BY <1>3, <1>4, <1>5, <1>6 DEF IInv

(* A step that leaves the writes alone. *)
LEMMA MovePreserves ==
    ASSUME IInv, UNCHANGED writes, Typed', WriteInv', AskInv', RememberInv'
    PROVE  IInv'
<1>1. \A i : Agreed(i)' = Agreed(i)
  BY DEF IInv, Agreed
<1>2. AgreedToEach' /\ JournalIsTrue' /\ EditIsCaught'
  BY <1>1 DEF IInv, AgreedToEach, JournalIsTrue, EditIsCaught
<1> QED BY <1>2 DEF IInv

(* A refused question. *)
LEMMA AskFailedPreserves ==
    ASSUME IInv, AskFailed
    PROVE  IInv'
<1>1. /\ at = "question" /\ at' = "refuse"
      /\ UNCHANGED <<profile, asking, answer, remembered>>
  BY DEF AskFailed, World, Question
<1>2. CASE UNCHANGED writes
  <2>1. Typed' /\ WriteInv' /\ AskInv' /\ RememberInv'
    BY <1>1, <1>2 DEF IInv, Typed, WriteInv, AskInv, RememberInv, write, Steps, WriteSteps,
       Unsent, Unrefused
  <2> QED BY <1>2, <2>1, MovePreserves
<1>3. CASE writes' \in Logged("asked", FALSE)
  <2>1. PICK new \in Write :
           /\ writes' = OnWrite(new)
           /\ new.tool = write.tool /\ new.given = write.given /\ new.sent = write.sent
           /\ new.phases \subseteq write.phases \cup {"asked"}
    BY <1>1, <1>3, LoggedFacts DEF WriteSteps, Phases
  <2>2. write' = new /\ Len(writes') = Len(writes) /\ Len(writes) > 0
    BY <1>1, <2>1, OnWriteFacts DEF IInv, Typed, WriteInv, WriteSteps
  <2>3. WriteInv' /\ AskInv'
    BY <1>1, <2>1, <2>2 DEF IInv, WriteInv, AskInv, WriteSteps, Unsent, Unrefused
  <2>4. new.sent = Nowhere
    BY <1>1, <2>1 DEF IInv, WriteInv, Unsent, WriteSteps
  <2> QED BY <1>1, <2>1, <2>3, <2>4, RecordPreserves DEF IInv, Typed, Steps, WriteSteps
<1> QED BY <1>2, <1>3 DEF AskFailed

(* A question put: a destruction's names the broker. *)
LEMMA AskPreserves ==
    ASSUME IInv, Ask
    PROVE  IInv'
<1>1. /\ at = "question" /\ at' = "waiting" /\ asking' /\ answer' = "none"
      /\ UNCHANGED <<profile, remembered>>
      /\ writes' = IF write.tool \in Destroys
                   THEN OnWrite([write EXCEPT !.phases = @ \cup {"asked"}, !.shown = profile])
                   ELSE writes
  BY DEF Ask, World
<1>2. CASE write.tool \notin Destroys
  <2>1. Typed' /\ WriteInv' /\ AskInv' /\ RememberInv'
    BY <1>1, <1>2 DEF IInv, Typed, WriteInv, AskInv, RememberInv, write, Steps, WriteSteps,
       Unsent, Unrefused
  <2> QED BY <1>1, <1>2, <2>1, MovePreserves
<1>3. CASE write.tool \in Destroys
  <2> DEFINE new == [write EXCEPT !.phases = @ \cup {"asked"}, !.shown = profile]
  <2>0. write \in Write /\ Len(writes) > 0 /\ writes \in Seq(Write) /\ profile \in Brokers
    BY <1>1 DEF IInv, Typed, WriteInv, write, WriteSteps
  <2>1. /\ new \in Write
        /\ new.tool = write.tool /\ new.given = write.given /\ new.sent = write.sent
        /\ new.shown = profile /\ new.phases = write.phases \cup {"asked"}
    BY <2>0 DEF Write, Phases
  <2>2. writes' = OnWrite(new)
    BY <1>1, <1>3
  <2> HIDE DEF new
  <2>3. write' = new /\ Len(writes') = Len(writes)
    BY <2>0, <2>1, <2>2, OnWriteFacts
  <2>4. WriteInv' /\ AskInv'
    BY <1>1, <2>0, <2>1, <2>3 DEF IInv, WriteInv, AskInv, WriteSteps, Unsent, Unrefused
  <2>5. new.sent = Nowhere
    BY <1>1, <2>1 DEF IInv, WriteInv, Unsent, WriteSteps
  <2> QED BY <1>1, <2>1, <2>2, <2>4, <2>5, RecordPreserves DEF IInv, Typed, Steps, WriteSteps
<1> QED BY <1>2, <1>3

(* An answer: the write in progress was not sent yet, and was not what lets
   another one through. *)
LEMMA DecidePreserves ==
    ASSUME IInv, NEW given \in Answers, Decide(given)
    PROVE  IInv'
<1> DEFINE new == [write EXCEPT !.given = given]
           n == Len(writes)
<1>1. /\ asking /\ asking' = FALSE /\ answer' = given /\ writes' = OnWrite(new)
      /\ at = "waiting" /\ UNCHANGED <<profile, at, remembered>>
  BY DEF Decide, World, IInv, AskInv
<1>2. write \in Write /\ n > 0 /\ writes \in Seq(Write) /\ write.given = "none"
      /\ write.sent = Nowhere
  BY <1>1 DEF IInv, Typed, WriteInv, AskInv, write, WriteSteps, Unsent
<1>3. /\ new \in Write /\ new.given = given
      /\ new.tool = write.tool /\ new.sent = write.sent
      /\ new.shown = write.shown /\ new.phases = write.phases
  BY <1>2 DEF Write
<1> HIDE DEF new
<1>4. /\ writes' \in Seq(Write) /\ Len(writes') = n /\ DOMAIN writes' = DOMAIN writes
      /\ n \in DOMAIN writes /\ write' = new /\ writes'[n] = new /\ writes[n] = write
      /\ \A i \in DOMAIN writes : i # n => writes'[i] = writes[i]
      /\ DOMAIN writes = 1..n /\ n \in Nat
  BY <1>1, <1>2, <1>3, OnWriteFacts DEF write
<1>5. Typed'
  BY <1>1, <1>4 DEF IInv, Typed
<1>6. WriteInv'
  BY <1>1, <1>3, <1>4 DEF IInv, WriteInv, WriteSteps, Unsent, Unrefused
<1>7. AskInv'
  BY <1>1, <1>3, <1>4 DEF IInv, AskInv, Answers
<1>8. RememberInv'
  BY <1>1, <1>2, <1>4 DEF IInv, RememberInv
<1>9. AgreedToEach'
  <2>1. \A i \in DOMAIN writes : i # n /\ Agreed(i) => Agreed(i)'
    <3>1. \A i \in DOMAIN writes : i # n => \A j \in 1..(i - 1) : j \in DOMAIN writes /\ j # n
      <4>1. DOMAIN writes = 1..n /\ n \in Nat
        BY <1>4
      <4> HIDE DEF n
      <4> QED BY <4>1
    <3> QED BY <1>4, <3>1 DEF Agreed
  <2> QED BY <1>2, <1>3, <1>4, <2>1 DEF IInv, AgreedToEach
<1>10. JournalIsTrue' /\ EditIsCaught'
  BY <1>2, <1>3, <1>4 DEF IInv, JournalIsTrue, EditIsCaught
<1> QED BY <1>5, <1>6, <1>7, <1>8, <1>9, <1>10 DEF IInv

(* The answer is taken: a yes is an agreement, a remembered tool a write. *)
LEMMA WakeAnsweredPreserves ==
    ASSUME IInv, WakeAnswered
    PROVE  IInv'
<1>1. /\ at = "waiting" /\ answer # "none" /\ answer' = "none"
      /\ at' = IF answer = "no" THEN "refuse" ELSE "check"
      /\ remembered' = IF answer = "remember" THEN remembered \cup ({write.tool} \cap Writes)
                       ELSE remembered
      /\ UNCHANGED <<profile, writes, asking>>
  BY DEF WakeAnswered, Remembering, World
<1>2. ~asking /\ write.given = answer /\ answer \in Answers
  BY <1>1 DEF IInv, AskInv, Typed
<1>3. Typed'
  BY <1>1 DEF IInv, Typed, Steps
<1>4. at' = "check" => Agreed(Len(writes))'
  BY <1>1, <1>2 DEF Agreed, write, Answers
<1>5. Len(writes) > 0 /\ Len(writes) \in DOMAIN writes
  BY <1>1 DEF IInv, Typed, WriteInv, WriteSteps
<1>6. WriteInv'
  BY <1>1, <1>4 DEF IInv, WriteInv, write, WriteSteps, Unsent, Unrefused
<1>7. AskInv'
  BY <1>1, <1>2 DEF IInv, AskInv
<1>8. RememberInv'
  BY <1>1, <1>2, <1>5 DEF IInv, RememberInv, write
<1> QED BY <1>1, <1>3, <1>6, <1>7, <1>8, MovePreserves

(* The question is withdrawn. *)
LEMMA WakeStoppedPreserves ==
    ASSUME IInv, WakeStopped
    PROVE  IInv'
<1>1. /\ at = "waiting" /\ at' = "refuse" /\ asking' = FALSE /\ answer' = "none"
      /\ UNCHANGED <<profile, writes, remembered>>
  BY DEF WakeStopped, World
<1>2. Typed' /\ WriteInv' /\ AskInv' /\ RememberInv'
  BY <1>1 DEF IInv, Typed, WriteInv, AskInv, RememberInv, write, Steps, WriteSteps, Unsent,
     Unrefused
<1> QED BY <1>1, <1>2, MovePreserves

(* The check lets a destruction through only to the broker it named. *)
LEMMA CheckPreserves ==
    ASSUME IInv, Check
    PROVE  IInv'
<1>1. /\ at = "check"
      /\ at' = "refuse" \/ (at' = "start" /\ (write.shown # Nowhere => profile = write.shown))
      /\ UNCHANGED <<profile, writes, asking, answer, remembered>>
  <2>1. at = "check" /\ UNCHANGED <<profile, writes, asking, answer, remembered>>
    BY DEF Check, World, Question
  <2>2. at' = "refuse" \/ (at' = "start" /\ (write.shown # Nowhere => profile = write.shown))
    BY Zenon DEF Check
  <2> QED BY <2>1, <2>2
<1>2. \A i : Agreed(i)' = Agreed(i)
  BY <1>1 DEF Agreed
<1>3. Typed' /\ AskInv' /\ RememberInv'
  BY <1>1 DEF IInv, Typed, AskInv, RememberInv, write, Steps
<1>4. WriteInv'
  <2>1. CASE at' = "refuse"
    BY <1>1, <2>1 DEF IInv, WriteInv, write, WriteSteps, Unsent, Unrefused
  <2>2. CASE at' = "start" /\ (write.shown # Nowhere => profile = write.shown)
    <3>1. Agreed(Len(writes))'
      BY <1>1, <1>2 DEF IInv, WriteInv
    <3>2. write.tool \in Destroys => write.shown = profile
      BY <1>1, <2>2, ToolsAssumption DEF IInv, WriteInv
    <3> QED BY <1>1, <2>2, <3>1, <3>2 DEF IInv, WriteInv, write, WriteSteps, Unsent, Unrefused
  <2> QED BY <1>1, <2>1, <2>2
<1> QED BY <1>1, <1>3, <1>4, MovePreserves

(* The write is recorded before it is made, or is not made. *)
LEMMA StartPreserves ==
    ASSUME IInv, NEW ok \in BOOLEAN, StartWrite(ok)
    PROVE  IInv'
<1>1. /\ at = "start" /\ at' = IF ok THEN "perform" ELSE "refuse"
      /\ writes' \in Logged("started", ok)
      /\ UNCHANGED <<profile, asking, answer, remembered>>
  BY DEF StartWrite, World, Question
<1>2. PICK new \in Write :
         /\ writes' = OnWrite(new)
         /\ new.tool = write.tool /\ new.given = write.given /\ new.sent = write.sent
         /\ new.shown = write.shown /\ new.moved = write.moved
         /\ new.phases \subseteq write.phases \cup {"started"}
         /\ ok => "started" \in new.phases
  BY <1>1, LoggedFacts DEF WriteSteps, Phases
<1>3. /\ write' = new /\ Len(writes') = Len(writes) /\ Len(writes) > 0
      /\ Len(writes) \in DOMAIN writes /\ writes \in Seq(Write)
  BY <1>1, <1>2, OnWriteFacts DEF IInv, Typed, WriteInv, WriteSteps
<1>4. Agreed(Len(writes))'
  <2>1. Agreed(Len(writes))
    BY <1>1 DEF IInv, WriteInv
  <2>2. \A i \in DOMAIN writes : Agreed(i) => Agreed(i)'
    BY <1>2, <1>3, AgreementKept
  <2> QED BY <1>3, <2>1, <2>2 DEF Agreed
<1>5. new.sent = Nowhere /\ "refused" \notin new.phases
  BY <1>1, <1>2 DEF IInv, WriteInv, Unsent, Unrefused, WriteSteps
<1>6. WriteInv' /\ AskInv'
  BY <1>1, <1>2, <1>3, <1>4, <1>5 DEF IInv, WriteInv, AskInv, WriteSteps, Unsent, Unrefused
<1> QED BY <1>1, <1>2, <1>5, <1>6, RecordPreserves DEF IInv, Typed, Steps, WriteSteps

(* The broker is sent a write that was agreed to and recorded. *)
LEMMA PerformPreserves ==
    ASSUME IInv, Perform
    PROVE  IInv'
<1>1. /\ at = "perform" /\ at' = "finish"
      /\ UNCHANGED <<profile, asking, answer, remembered>>
  BY DEF Perform, World, Question
<1>2. CASE UNCHANGED writes
  <2>1. Typed' /\ WriteInv' /\ AskInv' /\ RememberInv'
    BY <1>1, <1>2 DEF IInv, Typed, WriteInv, AskInv, RememberInv, write, Steps, WriteSteps,
       Unsent, Unrefused
  <2> QED BY <1>2, <2>1, MovePreserves
<1>3. CASE writes' = OnWrite([write EXCEPT !.sent = profile])
  <2> DEFINE new == [write EXCEPT !.sent = profile]
  <2>1. write \in Write /\ Len(writes) > 0 /\ writes \in Seq(Write) /\ profile \in Brokers
    BY <1>1 DEF IInv, Typed, WriteInv, write, WriteSteps
  <2>2. /\ new \in Write /\ new.sent = profile
        /\ new.tool = write.tool /\ new.given = write.given
        /\ new.shown = write.shown /\ new.phases = write.phases /\ new.moved = write.moved
    BY <2>1 DEF Write
  <2>3. writes' = OnWrite(new)
    BY <1>3
  <2> HIDE DEF new
  <2>4. write' = new /\ Len(writes') = Len(writes)
    BY <2>1, <2>2, <2>3, OnWriteFacts
  <2>5. WriteInv' /\ AskInv'
    BY <1>1, <2>1, <2>2, <2>4 DEF IInv, WriteInv, AskInv, WriteSteps, Unsent, Unrefused
  <2>6. /\ Agreed(Len(writes)) /\ "started" \in new.phases /\ "refused" \notin new.phases
        /\ new.tool \notin Destroys \/ new.sent = new.shown \/ new.moved
    BY <1>1, <2>2 DEF IInv, WriteInv, WriteSteps, Unrefused
  <2> QED BY <1>1, <2>2, <2>3, <2>5, <2>6, RecordPreserves DEF IInv, Typed, Steps, WriteSteps
<1> QED BY <1>2, <1>3 DEF Perform

(* The outcome of a write is recorded, or not. *)
LEMMA FinishPreserves ==
    ASSUME IInv, NEW ok \in BOOLEAN, Finish(ok)
    PROVE  IInv'
<1>1. /\ at = "finish" /\ at' = "loop"
      /\ writes' \in Logged("finished", ok)
      /\ UNCHANGED <<profile, asking, answer, remembered>>
  BY DEF Finish, World, Question
<1>2. PICK new \in Write :
         /\ writes' = OnWrite(new)
         /\ new.tool = write.tool /\ new.given = write.given /\ new.sent = write.sent
         /\ new.shown = write.shown /\ new.moved = write.moved
         /\ write.phases \subseteq new.phases
         /\ new.phases \subseteq write.phases \cup {"finished"}
  BY <1>1, LoggedFacts DEF WriteSteps, Phases
<1>3. Len(writes) \in DOMAIN writes
  BY <1>1 DEF IInv, Typed, WriteInv, WriteSteps
<1>4. "started" \in new.phases /\ "refused" \notin new.phases
  BY <1>1, <1>2 DEF IInv, WriteInv, WriteSteps, Unrefused
<1>5. new.sent # Nowhere =>
         /\ Agreed(Len(writes))
         /\ new.tool \notin Destroys \/ new.sent = new.shown \/ new.moved
  BY <1>2, <1>3 DEF IInv, AgreedToEach, EditIsCaught, write
<1>6. WriteInv' /\ AskInv'
  BY <1>1 DEF IInv, WriteInv, AskInv, WriteSteps, Unsent, Unrefused
<1> QED BY <1>1, <1>2, <1>4, <1>5, <1>6, RecordPreserves DEF IInv, Typed, Steps, WriteSteps

(* A refusal is recorded, or not, of a write that was not sent. *)
LEMMA RefusePreserves ==
    ASSUME IInv, NEW ok \in BOOLEAN, Refuse(ok)
    PROVE  IInv'
<1>1. /\ at = "refuse" /\ at' = "loop"
      /\ writes' \in Logged("refused", ok)
      /\ UNCHANGED <<profile, asking, answer, remembered>>
  BY DEF Refuse, World, Question
<1>2. PICK new \in Write :
         /\ writes' = OnWrite(new)
         /\ new.tool = write.tool /\ new.given = write.given /\ new.sent = write.sent
  BY <1>1, LoggedFacts DEF WriteSteps, Phases
<1>3. new.sent = Nowhere
  BY <1>1, <1>2 DEF IInv, WriteInv, Unsent, WriteSteps
<1>4. WriteInv' /\ AskInv'
  BY <1>1 DEF IInv, WriteInv, AskInv, WriteSteps, Unsent, Unrefused
<1> QED BY <1>1, <1>2, <1>3, <1>4, RecordPreserves DEF IInv, Typed, Steps, WriteSteps

(* An edit of the connection is remembered against a destruction that has
   passed the check. *)
LEMMA EditPreserves ==
    ASSUME IInv, NEW broker \in Brokers, EditConnection(broker)
    PROVE  IInv'
<1> DEFINE late == at \in {"start", "perform"} /\ write.tool \in Destroys /\ broker # profile
           new == [write EXCEPT !.moved = TRUE]
<1>1. /\ profile' = broker /\ UNCHANGED <<at, asking, answer, remembered>>
      /\ writes' = IF late THEN OnWrite(new) ELSE writes
  BY DEF EditConnection, Question
<1>2. CASE ~late
  <2>1. UNCHANGED writes
    BY <1>1, <1>2
  <2>2. \A i : Agreed(i)' = Agreed(i)
    BY <2>1 DEF Agreed
  <2>3. Typed' /\ AskInv' /\ RememberInv'
    BY <1>1, <2>1 DEF IInv, Typed, AskInv, RememberInv, write
  <2>4. at \in {"start", "perform"} /\ write.tool \in Destroys =>
           write.shown = broker \/ write.moved
    BY <1>2 DEF IInv, WriteInv
  <2>5. WriteInv'
    BY <1>1, <2>1, <2>2, <2>4 DEF IInv, WriteInv, write, WriteSteps, Unsent, Unrefused
  <2> QED BY <2>1, <2>3, <2>5, MovePreserves
<1>3. CASE late
  <2>1. write \in Write /\ Len(writes) > 0 /\ writes \in Seq(Write) /\ write.sent = Nowhere
    BY <1>3 DEF IInv, Typed, WriteInv, write, WriteSteps, Unsent
  <2>2. /\ new \in Write /\ new.moved
        /\ new.tool = write.tool /\ new.given = write.given /\ new.sent = Nowhere
        /\ new.shown = write.shown /\ new.phases = write.phases
    BY <2>1 DEF Write
  <2>3. writes' = OnWrite(new)
    BY <1>1, <1>3
  <2> HIDE DEF new
  <2>4. /\ writes' \in Seq(Write)
        /\ Len(writes') = Len(writes)
        /\ DOMAIN writes' = DOMAIN writes
        /\ Len(writes) \in DOMAIN writes
        /\ write' = new /\ writes'[Len(writes)] = new
        /\ \A i \in DOMAIN writes : i # Len(writes) => writes'[i] = writes[i]
    BY <2>1, <2>2, <2>3, OnWriteFacts DEF write
  <2>5. (\A i \in DOMAIN writes : Agreed(i) => Agreed(i)') /\ RememberInv'
    BY <1>1, <2>1, <2>2, <2>3, AgreementKept DEF IInv
  <2>6. Typed'
    BY <1>1, <2>4 DEF IInv, Typed
  <2>7. Agreed(Len(writes))'
    BY <1>3, <2>4, <2>5 DEF IInv, WriteInv, Agreed
  <2>8. WriteInv'
    BY <1>1, <1>3, <2>1, <2>2, <2>4, <2>7 DEF IInv, WriteInv, WriteSteps, Unsent, Unrefused
  <2>9. AskInv'
    BY <1>1, <1>3, <2>2, <2>4 DEF IInv, AskInv
  <2>10. AgreedToEach' /\ JournalIsTrue' /\ EditIsCaught'
    BY <2>2, <2>4, <2>5 DEF IInv, AgreedToEach, JournalIsTrue, EditIsCaught
  <2> QED BY <2>5, <2>6, <2>8, <2>9, <2>10 DEF IInv
<1> QED BY <1>2, <1>3

(* A restart leaves what was done and what was recorded. *)
LEMMA RestartPreserves ==
    ASSUME IInv, Restart
    PROVE  IInv'
<1>1. /\ at' = "idle" /\ asking' = FALSE /\ answer' = "none" /\ remembered' = {}
      /\ UNCHANGED <<profile, writes>>
  BY DEF Restart, World
<1>2. Typed' /\ WriteInv' /\ AskInv' /\ RememberInv'
  BY <1>1 DEF IInv, Typed, WriteInv, AskInv, RememberInv, Steps, WriteSteps, Unsent, Unrefused
<1> QED BY <1>1, <1>2, MovePreserves

--------------------------------------------------------------------------------
(* The invariant holds before the first run. *)
LEMMA InitInv == Init => IInv
<1> SUFFICES ASSUME Init PROVE IInv
  OBVIOUS
<1>1. writes = <<>> /\ DOMAIN writes = {} /\ at = "idle" /\ answer = "none" /\ ~asking
      /\ remembered = {} /\ profile \in Brokers
  BY DEF Init
<1>2. Typed /\ WriteInv /\ AskInv /\ RememberInv
  BY <1>1 DEF Typed, WriteInv, AskInv, RememberInv, Steps, WriteSteps, Unsent, Unrefused
<1> QED BY <1>1, <1>2 DEF IInv, AgreedToEach, JournalIsTrue, EditIsCaught

(* Every step keeps it. *)
LEMMA NextInv == IInv /\ [Next]_vars => IInv'
<1> SUFFICES ASSUME IInv, [Next]_vars PROVE IInv'
  OBVIOUS
<1>0. at \in Steps
  BY DEF IInv, Typed
<1>1. CASE UNCHANGED vars
  <2>1. UNCHANGED <<profile, writes, asking, answer, remembered, at>>
    BY <1>1 DEF vars
  <2> QED BY <1>0, <2>1, QuietPreserves
<1> DEFINE Quiet == /\ UNCHANGED <<profile, writes, asking, answer, remembered>>
                    /\ at' \in Steps
                    /\ at' = at \/ (at \notin WriteSteps /\ at' \notin WriteSteps)
<1>2. CASE Prepare \/ EndTurn \/ (\E tools \in Turns : TakeTurn(tools)) \/ SkipCall
           \/ SettledCall \/ LoopDone \/ EndRun
  <2>1. Prepare => Quiet
    BY DEF Prepare, World, Question, WriteSteps, Steps
  <2>2. EndTurn => Quiet
    BY DEF EndTurn, World, Question, WriteSteps, Steps
  <2>3. \A tools \in Turns : TakeTurn(tools) => Quiet
    BY DEF TakeTurn, World, Question, WriteSteps, Steps
  <2>4. SkipCall => Quiet
    BY <1>0 DEF SkipCall, World, Question
  <2>5. SettledCall => Quiet
    BY <1>0 DEF SettledCall, World, Question
  <2>6. LoopDone => Quiet
    BY DEF LoopDone, World, Question, WriteSteps, Steps
  <2>7. EndRun => Quiet
    BY DEF EndRun, World, Question, WriteSteps, Steps
  <2>8. Quiet
    BY <1>2, <2>1, <2>2, <2>3, <2>4, <2>5, <2>6, <2>7
  <2> QED BY <2>8, QuietPreserves
<1>3. CASE Send \/ Stop \/ SetWrites
  <2>1. Send => Quiet
    BY DEF Send, World, Question, WriteSteps, Steps
  <2>2. Stop => Quiet
    BY <1>0 DEF Stop, World, Question
  <2>3. SetWrites => Quiet
    BY <1>0 DEF SetWrites, Question
  <2>4. Quiet
    BY <1>3, <2>1, <2>2, <2>3
  <2> QED BY <2>4, QuietPreserves
<1>4. CASE BeginWrite \/ AskFailed \/ Ask \/ WakeAnswered \/ WakeStopped \/ Check \/ Perform
  BY <1>4, BeginPreserves, AskFailedPreserves, AskPreserves, WakeAnsweredPreserves,
     WakeStoppedPreserves, CheckPreserves, PerformPreserves
<1>5. ASSUME NEW ok \in BOOLEAN, StartWrite(ok) \/ Finish(ok) \/ Refuse(ok)
      PROVE  IInv'
  BY <1>5, StartPreserves, FinishPreserves, RefusePreserves
<1>6. CASE \E broker \in Brokers : EditConnection(broker)
  BY <1>6, EditPreserves
<1>7. CASE \E given \in Answers : Decide(given)
  BY <1>7, DecidePreserves
<1>8. CASE Restart
  BY <1>8, RestartPreserves
<1> QED BY <1>1, <1>2, <1>3, <1>4, <1>5, <1>6, <1>7, <1>8 DEF Next, RunStep, Person

(* It holds in every reachable state. *)
LEMMA InductiveInv == Spec => []IInv
BY InitInv, NextInv, PTL DEF Spec

(* The bounds are numbers. *)
LEMMA Bounds == TurnSize \in Nat /\ Limit \in Nat /\ MaxCalls \in Nat
BY ToolsAssumption

(* The rest of a turn is a turn, or nothing. *)
LEMMA RestOfTurn ==
    ASSUME NEW t \in Turns
    PROVE  Tail(t) \in Turns \cup {<<>>}
<1>1. PICK n \in 1..TurnSize : t \in [1..n -> Tools]
  BY DEF Turns
<1>2. t \in Seq(Tools) /\ Len(t) = n
  BY <1>1
<1>3. Tail(t) \in Seq(Tools) /\ Len(Tail(t)) = n - 1
  BY <1>2
<1>4. CASE n = 1
  <2>1. Len(Tail(t)) = 0
    BY <1>3, <1>4
  <2> QED BY <1>3, <2>1, EmptySeq
<1>5. CASE n # 1
  <2>1. n - 1 \in 1..TurnSize
    BY <1>5, Bounds
  <2>2. Tail(t) \in [1..(n - 1) -> Tools]
    BY <1>3, LenProperties
  <2> QED BY <2>1, <2>2 DEF Turns
<1> QED BY <1>4, <1>5

(* The types that the argument above does without. *)
RunTyped ==
    /\ {writesOn, stopped, allow, limited, asking} \subseteq BOOLEAN
    /\ turn \in Turns \cup {<<>>}
    /\ calls \in 0..Limit
    /\ Len(writes) <= MaxCalls

(* A change of the last write adds none. *)
LEMMA NoMoreWrites ==
    ASSUME IInv, IInv', DOMAIN writes' = DOMAIN writes
    PROVE  Len(writes') = Len(writes)
<1>1. /\ DOMAIN writes = 1..Len(writes) /\ Len(writes) \in Nat
      /\ DOMAIN writes' = 1..Len(writes') /\ Len(writes') \in Nat
  BY DEF IInv, Typed
<1> QED BY <1>1

(* They are kept by every step that makes no write. *)
LEMMA RunTypedNext == IInv /\ IInv' /\ RunTyped /\ [Next]_vars => RunTyped'
<1> SUFFICES ASSUME IInv, IInv', RunTyped, [Next]_vars PROVE RunTyped'
  OBVIOUS
<1> USE DEF RunTyped, World, Budget, Question
<1>1. ASSUME DOMAIN writes' = DOMAIN writes,
             {writesOn', stopped', allow', limited', asking'} \subseteq BOOLEAN,
             UNCHANGED <<turn, calls>>
      PROVE  RunTyped'
  BY <1>1, NoMoreWrites
<1>2. CASE UNCHANGED vars
  BY <1>2 DEF vars
<1>3. CASE SkipCall \/ SettledCall
  <2>1. turn \in Turns /\ turn' = Tail(turn)
    BY <1>3 DEF SkipCall, SettledCall
  <2>2. calls' \in 0..Limit
    BY <1>3, Bounds DEF SkipCall, SettledCall
  <2>3. {writesOn', stopped', allow', limited', asking'} \subseteq BOOLEAN
    BY <1>3 DEF SkipCall, SettledCall
  <2>4. Len(writes') <= MaxCalls
    BY <1>3 DEF SkipCall, SettledCall
  <2> QED BY <2>1, <2>2, <2>3, <2>4, RestOfTurn
<1>4. CASE BeginWrite
  <2>1. Len(writes') = Len(writes) + 1 /\ Len(writes) < MaxCalls /\ Len(writes) \in Nat
    BY <1>4 DEF BeginWrite, IInv, Typed
  <2>2. Len(writes') <= MaxCalls
    BY <2>1, Bounds
  <2>3. turn \in Turns /\ turn' = Tail(turn)
    BY <1>4 DEF BeginWrite
  <2>4. calls' \in 0..Limit
    BY <1>4, Bounds DEF BeginWrite
  <2>5. {writesOn', stopped', allow', limited', asking'} \subseteq BOOLEAN
    BY <1>4 DEF BeginWrite
  <2> QED BY <2>2, <2>3, <2>4, <2>5, RestOfTurn
<1>5. CASE Prepare \/ EndTurn \/ LoopDone \/ (\E tools \in Turns : TakeTurn(tools))
  BY <1>5 DEF Prepare, EndTurn, LoopDone, TakeTurn
<1>6. CASE EndRun \/ Restart
  <2>1. turn' = <<>> /\ calls' = 0 /\ writes' = writes
    BY <1>6 DEF EndRun, Restart
  <2>2. {writesOn', stopped', allow', limited', asking'} \subseteq BOOLEAN
    BY <1>6 DEF EndRun, Restart
  <2> QED BY <2>1, <2>2, Bounds
<1>7. CASE AskFailed
  BY <1>1, <1>7 DEF AskFailed, Logged, OnWrite
<1>8. CASE Ask
  BY <1>1, <1>8 DEF Ask, OnWrite
<1>9. CASE WakeAnswered \/ WakeStopped \/ Check
  BY <1>1, <1>9 DEF WakeAnswered, WakeStopped, Check
<1>10. CASE Perform
  BY <1>1, <1>10 DEF Perform, OnWrite
<1>11. ASSUME NEW ok \in BOOLEAN, StartWrite(ok) \/ Finish(ok) \/ Refuse(ok)
       PROVE  RunTyped'
  BY <1>1, <1>11 DEF StartWrite, Finish, Refuse, Logged, OnWrite
<1>12. CASE Send \/ Stop \/ SetWrites
  BY <1>12 DEF Send, Stop, SetWrites
<1>13. ASSUME NEW broker \in Brokers, EditConnection(broker)
       PROVE  RunTyped'
  BY <1>1, <1>13 DEF EditConnection, OnWrite
<1>14. ASSUME NEW given \in Answers, Decide(given)
       PROVE  RunTyped'
  BY <1>1, <1>14 DEF Decide, OnWrite
<1> QED BY <1>2, <1>3, <1>4, <1>5, <1>6, <1>7, <1>8, <1>9, <1>10, <1>11, <1>12, <1>13, <1>14
        DEF Next, RunStep, Person

(* Every variable of a run keeps its type, for any tools and bounds. *)
THEOREM TypeCorrect == Spec => []TypeOK
<1>1. Init => RunTyped
  <2> SUFFICES ASSUME Init PROVE RunTyped
    OBVIOUS
  <2>1. Len(writes) = 0
    BY EmptySeq DEF Init
  <2>2. Len(writes) <= MaxCalls /\ calls \in 0..Limit
    BY <2>1, Bounds DEF Init
  <2> QED BY <2>2 DEF Init, RunTyped
<1>2. IInv /\ RunTyped => TypeOK
  BY DEF IInv, Typed, RunTyped, RememberInv, TypeOK
<1> QED BY <1>1, <1>2, RunTypedNext, InductiveInv, PTL DEF Spec

(* No write reaches the broker that the person did not agree to. *)
THEOREM NothingUnasked == Spec => []AgreedToEach
<1>1. IInv => AgreedToEach
  BY DEF IInv
<1> QED BY <1>1, InductiveInv, PTL

(* No write reaches the broker that the audit log does not hold, or holds as
   refused, whichever appends fail and wherever the process ends. *)
THEOREM AuditIsComplete == Spec => []JournalIsTrue
<1>1. IInv => JournalIsTrue
  BY DEF IInv
<1> QED BY <1>1, InductiveInv, PTL

(* Only an edit after the check sends a destruction to another broker. *)
THEOREM CheckCatchesEdits == Spec => []EditIsCaught
<1>1. IInv => EditIsCaught
  BY DEF IInv
<1> QED BY <1>1, InductiveInv, PTL
================================================================================
