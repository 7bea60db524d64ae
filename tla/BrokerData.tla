------------------------------- MODULE BrokerData -------------------------------
(* How a page reads one thing from its broker and keeps it current
   (frontend/src/hooks/useBrokerData.ts): a first read, a read every thirty
   seconds, one after every change the page makes, all racing, and a generation
   that decides which reply may be shown.

   A question is a connection and a load function.  A handler that is waiting for
   its own change holds the refresh of the render it was created in, and with it
   that render's question. *)
EXTENDS Naturals, FiniteSets

CONSTANTS Questions,
          MaxGeneration, \* bound: generations of one page
          MaxVersion     \* bound: changes to what a question asks about

ASSUME BrokerDataAssumption == Questions # {} /\ MaxGeneration \in Nat /\ MaxVersion \in Nat

VARIABLES question,   \* what the page asks now: connID and load
          active,     \* enabled && online && connID !== 0
          generation, \* generation.current
          data,       \* the state of the same name
          loading, refreshing, error,
          calls,      \* reads under way
          handlers,   \* the questions of the handlers waiting for their change
          version,    \* broker: changes made to what each question asks about
          wrote       \* the last version this page's handlers made and were told of

vars == <<question, active, generation, data, loading, refreshing, error, calls, handlers,
          version, wrote>>
broker == <<handlers, version, wrote>>

Versions == 0..MaxVersion
Unread == MaxVersion + 1 \* the broker has not answered
Failed == MaxVersion + 2 \* ... or the read failed
Read == [gen : 1..MaxGeneration, q : Questions, answer : 0..Failed]
Answers == [gen : 1..MaxGeneration, q : Questions, ver : Versions]
NoData == [gen |-> 0]

Newest(c) == c.gen = generation

(* Sends a read under a new generation. *)
Send(q, gen) ==
    /\ gen <= MaxGeneration
    /\ generation' = gen
    /\ calls' = calls \cup {[gen |-> gen, q |-> q, answer |-> Unread]}

(* run(true): the button, the interval, or a handler's refresh. *)
Refresh(q) ==
    /\ Send(q, generation + 1)
    /\ refreshing' = TRUE
    /\ UNCHANGED <<question, active, data, loading, error>>

(* Mutant: the switch leaves the spinner of the read it replaced. *)
EnterRefreshing(q, on) ==
    /\ <<q, on>> # <<question, active>>
    /\ question' = q /\ active' = on
    /\ data' = NoData /\ error' = FALSE
    /\ loading' = on
    /\ IF on
       THEN Send(q, generation + 2)
       ELSE /\ generation < MaxGeneration
            /\ generation' = generation + 1
            /\ UNCHANGED calls
    /\ UNCHANGED <<refreshing, broker>>

(* The effect on [active, refreshMs, run]: what is shown goes before the first
   read of what replaces it. *)
Enter(q, on) ==
    /\ <<q, on>> # <<question, active>>
    /\ question' = q /\ active' = on
    /\ data' = NoData /\ error' = FALSE /\ refreshing' = FALSE
    /\ loading' = on
    /\ IF on
       THEN Send(q, generation + 2)
       ELSE /\ generation < MaxGeneration
            /\ generation' = generation + 1
            /\ UNCHANGED calls
    /\ UNCHANGED broker

(* The button or the interval. *)
Tick == active /\ Refresh(question) /\ UNCHANGED broker

(* A handler sends a change to the broker ... *)
Begin ==
    /\ active /\ data # NoData /\ question \notin handlers
    /\ handlers' = handlers \cup {question}
    /\ UNCHANGED <<question, active, generation, data, loading, refreshing, error, calls,
                   version, wrote>>

(* ... which the broker makes, or not ... *)
Change(q) ==
    /\ version[q] < MaxVersion
    /\ version' = [version EXCEPT ![q] = @ + 1]
    /\ UNCHANGED <<question, active, generation, data, loading, refreshing, error, calls,
                   handlers, wrote>>

(* Mutant: a handler that does not read again. *)
DoneQuietly(q) ==
    /\ q \in handlers
    /\ handlers' = handlers \ {q}
    /\ wrote' = [wrote EXCEPT ![q] = version[q]]
    /\ UNCHANGED <<question, active, generation, data, loading, refreshing, error, calls, version>>

(* ... and once told so it refreshes the question it was created with. *)
Done(q) ==
    /\ q \in handlers
    /\ handlers' = handlers \ {q}
    /\ wrote' = [wrote EXCEPT ![q] = version[q]]
    /\ Refresh(q)
    /\ UNCHANGED version

(* A change that failed is told, and nothing is read. *)
Refused(q) ==
    /\ q \in handlers
    /\ handlers' = handlers \ {q}
    /\ UNCHANGED <<question, active, generation, data, loading, refreshing, error, calls,
                   version, wrote>>

Answer(c) ==
    /\ c.answer = Unread
    /\ \E a \in {version[c.q], Failed} : calls' = (calls \ {c}) \cup {[c EXCEPT !.answer = a]}
    /\ UNCHANGED <<question, active, generation, data, loading, refreshing, error, broker>>

(* Mutant: a reply is shown whatever was asked since. *)
AnyReply(c) ==
    /\ c.answer # Unread
    /\ calls' = calls \ {c}
    /\ IF c.answer = Failed
       THEN data' = NoData /\ error' = TRUE
       ELSE data' = [gen |-> c.gen, q |-> c.q, ver |-> c.answer] /\ error' = FALSE
    /\ loading' = FALSE /\ refreshing' = FALSE
    /\ UNCHANGED <<question, active, generation, broker>>

(* The reply reaches the page; only the newest generation's is shown. *)
Reply(c) ==
    /\ c.answer # Unread
    /\ calls' = calls \ {c}
    /\ IF ~Newest(c)
       THEN UNCHANGED <<data, loading, refreshing, error>>
       ELSE /\ IF c.answer = Failed
               THEN data' = NoData /\ error' = TRUE
               ELSE data' = [gen |-> c.gen, q |-> c.q, ver |-> c.answer] /\ error' = FALSE
            /\ loading' = FALSE /\ refreshing' = FALSE
    /\ UNCHANGED <<question, active, generation, broker>>

(* A page with nothing to ask yet. *)
Init ==
    /\ question \in Questions /\ active = FALSE
    /\ generation = 0 /\ data = NoData
    /\ loading = FALSE /\ refreshing = FALSE /\ error = FALSE
    /\ calls = {} /\ handlers = {}
    /\ version = [q \in Questions |-> 0] /\ wrote = [q \in Questions |-> 0]

Next ==
    \/ \E q \in Questions, on \in BOOLEAN : Enter(q, on)
    \/ Tick \/ Begin
    \/ \E q \in Questions : Change(q) \/ Done(q) \/ Refused(q)
    \/ \E c \in calls : Answer(c) \/ Reply(c)

Spec == Init /\ [][Next]_vars

(* The newest read is answered: not every read takes longer than the interval that
   replaces it.  A call of the bridge ends with its timeout. *)
LiveSpec ==
    /\ Spec
    /\ WF_vars(\E c \in calls : Newest(c) /\ Answer(c))
    /\ WF_vars(\E c \in calls : Newest(c) /\ Reply(c))

--------------------------------------------------------------------------------
(* Properties. *)

(* The type of every variable. *)
TypeOK ==
    /\ question \in Questions /\ active \in BOOLEAN
    /\ generation \in 0..MaxGeneration
    /\ data \in Answers \cup {NoData}
    /\ loading \in BOOLEAN /\ refreshing \in BOOLEAN /\ error \in BOOLEAN
    /\ calls \subseteq Read
    /\ handlers \subseteq Questions
    /\ version \in [Questions -> Versions] /\ wrote \in [Questions -> Versions]

(* The page never waits for nothing: a spinner, the first or the small one, is
   drawn only while the read that will take it away is under way, however reads,
   failures, switches and handlers are interleaved (useBrokerData.ts:65-70). *)
SpinnerHasRead == loading \/ refreshing => \E c \in calls : Newest(c)

(* A change the page made is on screen, or is being read: an answer from before
   it never stays (every handler awaits refresh after its call). *)
ChangeIsShown ==
    data # NoData /\ data.ver < wrote[data.q] => \E c \in calls : Newest(c)

(* What a page shows of one question never goes back in time, although reads of it
   overtake each other (useBrokerData.ts:44). *)
NeverOlder ==
    [][data # NoData /\ data' # NoData /\ data'.q = data.q => data'.ver >= data.ver]_vars

(* Only the newest request's answer may land: the page implements LatestAnswer. *)
Latest == INSTANCE LatestAnswer WITH asked <- generation, shown <- data.gen
ShowsTheLatest == Latest!Spec
================================================================================
