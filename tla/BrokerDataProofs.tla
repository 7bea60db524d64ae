---------------------------- MODULE BrokerDataProofs ----------------------------
(* For any number of questions, reads and changes: a page of BrokerData never waits for
   nothing, never goes back in time, shows the changes it made, and implements
   LatestAnswer.

   Every property rests on what the generations say about the reads under way, which
   Inv states: no two reads have the same one, none is newer than the page's, what is
   on screen came in under an older one than any read that may still land, and a read
   that may land was answered after everything the page knows of. *)
EXTENDS BrokerData, TLAPS

(* Generations number the reads. *)
Numbered ==
    /\ \A c \in calls : c.gen <= generation
    /\ \A c, d \in calls : c.gen = d.gen => c = d

(* What is on screen came in before any read that may still land was sent. *)
ShownBefore ==
    data # NoData =>
        /\ data.gen <= generation
        /\ data.ver <= version[data.q]
        /\ \A c \in calls : Newest(c) => data.gen < c.gen
        /\ \A c \in calls :
              Newest(c) /\ c.q = data.q /\ c.answer \in Versions => data.ver <= c.answer

(* A read that may land knows of every change the page was told of. *)
KnowsChanges ==
    /\ \A q \in Questions : wrote[q] <= version[q]
    /\ \A c \in calls : c.answer \in Versions => c.answer <= version[c.q]
    /\ \A c \in calls : Newest(c) /\ c.answer \in Versions => wrote[c.q] <= c.answer

Inv == TypeOK /\ Numbered /\ ShownBefore /\ KnowsChanges /\ SpinnerHasRead /\ ChangeIsShown

--------------------------------------------------------------------------------
(* Sending a read makes it the newest, and no other is. *)
LEMMA SendLemma ==
    ASSUME Inv, NEW q \in Questions, NEW gen \in Nat, gen > generation, Send(q, gen)
    PROVE  LET new == [gen |-> gen, q |-> q, answer |-> Unread]
           IN /\ generation' = gen /\ generation' \in 0..MaxGeneration
              /\ calls' = calls \cup {new} /\ new \in Read /\ calls' \subseteq Read
              /\ new \in calls' /\ new.gen = generation' /\ new.answer \notin Versions
              /\ \A c \in calls' : c.gen = generation' => c = new
              /\ \A c \in calls : c.gen < generation'
<1> DEFINE new == [gen |-> gen, q |-> q, answer |-> Unread]
<1>1. generation' = gen /\ calls' = calls \cup {new} /\ gen <= MaxGeneration
  BY DEF Send
<1>2. MaxGeneration \in Nat /\ MaxVersion \in Nat /\ generation \in Nat
  BY BrokerDataAssumption DEF Inv, TypeOK
<1>3. gen \in 1..MaxGeneration /\ Unread \in 0..Failed /\ Unread \notin Versions
  BY <1>1, <1>2 DEF Unread, Failed, Versions
<1>4. new \in Read
  BY <1>3 DEF Read
<1>5. \A c \in calls : c.gen < gen
  BY <1>2 DEF Inv, TypeOK, Numbered, Read
<1>6. calls \subseteq Read
  BY DEF Inv, TypeOK
<1>7. \A c \in calls' : c.gen = gen => c = new
  BY <1>1, <1>5, <1>6, <1>2 DEF Read
<1> QED BY <1>1, <1>2, <1>3, <1>4, <1>5, <1>6, <1>7

(* Whatever sends a read keeps the invariant: the answer on screen stays or goes, and
   what the page was told of is what the broker has made. *)
LEMMA SendKeepsInv ==
    ASSUME Inv, NEW q \in Questions, NEW gen \in Nat, gen > generation, Send(q, gen),
           data' \in {data, NoData}, version' = version,
           wrote' = wrote \/ \E p \in Questions : wrote' = [wrote EXCEPT ![p] = version[p]],
           question' \in Questions, handlers' \subseteq Questions,
           active' \in BOOLEAN, loading' \in BOOLEAN, refreshing' \in BOOLEAN, error' \in BOOLEAN
    PROVE  Inv'
<1> DEFINE new == [gen |-> gen, q |-> q, answer |-> Unread]
<1>1. /\ generation' = gen /\ generation' \in 0..MaxGeneration
      /\ calls' = calls \cup {new} /\ calls' \subseteq Read
      /\ new \in calls' /\ new.gen = generation' /\ new.answer \notin Versions
      /\ \A c \in calls' : c.gen = generation' => c = new
      /\ \A c \in calls : c.gen < generation'
  BY SendLemma
<1> HIDE DEF new
<1>2. generation \in Nat /\ MaxVersion \in Nat /\ MaxGeneration \in Nat /\ calls \subseteq Read
  BY BrokerDataAssumption DEF Inv, TypeOK
<1>3. wrote' \in [Questions -> Versions] /\ \A p \in Questions : wrote'[p] <= version'[p]
  BY <1>2 DEF Inv, TypeOK, KnowsChanges, Versions
<1>4. TypeOK'
  BY <1>1, <1>3 DEF Inv, TypeOK
<1>5. Numbered'
  <2>1. \A c \in calls' : c.gen <= generation'
    BY <1>1, <1>2 DEF Read
  <2>2. ASSUME NEW c \in calls', NEW d \in calls', c.gen = d.gen PROVE c = d
    BY <2>2, <1>1, <1>2 DEF Inv, Numbered, Read
  <2> QED BY <2>1, <2>2 DEF Numbered
<1>6. ShownBefore'
  <2> SUFFICES ASSUME data' # NoData PROVE ShownBefore'
    BY DEF ShownBefore
  <2>1. data' = data /\ data \in Answers
    BY DEF Inv, TypeOK
  <2>2. data.gen \in Nat /\ data.gen <= generation /\ data.ver <= version[data.q]
    BY <2>1 DEF Inv, ShownBefore, Answers
  <2>3. \A c \in calls' : Newest(c)' => c = new
    BY <1>1 DEF Newest
  <2> QED BY <1>1, <1>2, <2>1, <2>2, <2>3 DEF ShownBefore
<1>7. KnowsChanges'
  <2>1. \A c \in calls' : Newest(c)' => c = new
    BY <1>1 DEF Newest
  <2>2. \A c \in calls' : c.answer \in Versions => c \in calls
    BY <1>1
  <2> QED BY <1>1, <1>3, <2>1, <2>2 DEF Inv, KnowsChanges, Versions
<1>8. \E c \in calls' : Newest(c)'
  BY <1>1 DEF Newest
<1> QED BY <1>4, <1>5, <1>6, <1>7, <1>8 DEF Inv, SpinnerHasRead, ChangeIsShown

(* A page that has nothing to ask any more drops what it shows, and no read may land. *)
LEMMA LeaveKeepsInv ==
    ASSUME Inv, NEW q \in Questions, Enter(q, FALSE)
    PROVE  Inv'
<1>1. /\ question' = q /\ active' = FALSE /\ data' = NoData /\ error' = FALSE
      /\ refreshing' = FALSE /\ loading' = FALSE
      /\ generation' = generation + 1 /\ generation < MaxGeneration /\ calls' = calls
      /\ UNCHANGED <<handlers, version, wrote>>
  BY DEF Enter, broker
<1>2. generation \in Nat /\ MaxGeneration \in Nat /\ calls \subseteq Read
  BY BrokerDataAssumption DEF Inv, TypeOK
<1>3. generation' \in 0..MaxGeneration
  BY <1>1, <1>2
<1>4. TypeOK'
  BY <1>1, <1>3 DEF Inv, TypeOK
<1>5. Numbered' /\ \A c \in calls : ~Newest(c)'
  BY <1>1, <1>2 DEF Inv, Numbered, Newest, Read
<1> QED BY <1>1, <1>4, <1>5 DEF Inv, ShownBefore, KnowsChanges, SpinnerHasRead, ChangeIsShown

(* The broker makes a change: what it has only grows. *)
LEMMA ChangeKeepsInv ==
    ASSUME Inv, NEW q \in Questions, Change(q)
    PROVE  Inv'
<1>1. /\ version' = [version EXCEPT ![q] = @ + 1] /\ version[q] < MaxVersion
      /\ UNCHANGED <<question, active, generation, data, loading, refreshing, error, calls,
                     handlers, wrote>>
  BY DEF Change
<1>2. MaxVersion \in Nat /\ version \in [Questions -> Versions] /\ wrote \in [Questions -> Versions]
  BY BrokerDataAssumption DEF Inv, TypeOK
<1>3. version' \in [Questions -> Versions] /\ \A p \in Questions : version[p] <= version'[p]
  BY <1>1, <1>2 DEF Versions
<1>4. TypeOK'
  BY <1>1, <1>3 DEF Inv, TypeOK
<1>5. Numbered'
  BY <1>1 DEF Inv, Numbered
<1>6. ShownBefore'
  <2> SUFFICES ASSUME data # NoData PROVE ShownBefore'
    BY <1>1 DEF ShownBefore
  <2>1. data.q \in Questions /\ data.ver \in Nat
    BY <1>2 DEF Inv, TypeOK, Answers, Versions
  <2>2. data.ver <= version'[data.q]
    BY <2>1, <1>2, <1>3 DEF Inv, ShownBefore, Versions
  <2> QED BY <1>1, <2>2 DEF Inv, ShownBefore, Newest
<1>7. KnowsChanges'
  <2>1. \A p \in Questions : wrote[p] <= version'[p]
    BY <1>2, <1>3 DEF Inv, KnowsChanges, Versions
  <2>2. ASSUME NEW c \in calls, c.answer \in Versions PROVE c.answer <= version'[c.q]
    <3>1. c.q \in Questions
      BY DEF Inv, TypeOK, Read
    <3> QED BY <2>2, <3>1, <1>2, <1>3 DEF Inv, KnowsChanges, Versions
  <2> QED BY <1>1, <2>1, <2>2 DEF Inv, KnowsChanges, Newest
<1> QED BY <1>1, <1>4, <1>5, <1>6, <1>7 DEF Inv, SpinnerHasRead, ChangeIsShown, Newest

(* The broker answers with what it has at that moment. *)
LEMMA AnswerKeepsInv ==
    ASSUME Inv, NEW c \in calls, Answer(c)
    PROVE  Inv'
<1>1. PICK a \in {version[c.q], Failed} : calls' = (calls \ {c}) \cup {[c EXCEPT !.answer = a]}
  BY DEF Answer
<1> DEFINE told == [c EXCEPT !.answer = a]
<1>2. UNCHANGED <<question, active, generation, data, loading, refreshing, error, handlers,
                  version, wrote>>
  BY DEF Answer, broker
<1>3. MaxVersion \in Nat /\ version \in [Questions -> Versions] /\ wrote \in [Questions -> Versions]
  BY BrokerDataAssumption DEF Inv, TypeOK
<1>4. c \in Read /\ calls \subseteq Read
  BY DEF Inv, TypeOK
<1>5. a \in 0..Failed /\ (a \in Versions => a = version[c.q])
  BY <1>3, <1>4 DEF Read, Versions, Failed
<1>6. told \in Read /\ told.gen = c.gen /\ told.q = c.q /\ told.answer = a
  BY <1>4, <1>5 DEF Read
<1> HIDE DEF told
<1>7. calls' = (calls \ {c}) \cup {told}
  BY <1>1 DEF told
<1>8. TypeOK'
  BY <1>2, <1>4, <1>6, <1>7 DEF Inv, TypeOK
<1>9. Numbered'
  <2>1. \A d \in calls' : d.gen <= generation'
    BY <1>2, <1>6, <1>7 DEF Inv, Numbered
  <2>2. ASSUME NEW d \in calls', NEW e \in calls', d.gen = e.gen PROVE d = e
    BY <2>2, <1>6, <1>7 DEF Inv, Numbered
  <2> QED BY <2>1, <2>2 DEF Numbered
<1>10. ShownBefore'
  <2> SUFFICES ASSUME data # NoData PROVE ShownBefore'
    BY <1>2 DEF ShownBefore
  <2>1. \A d \in calls' : Newest(d)' => data.gen < d.gen
    BY <1>2, <1>6, <1>7 DEF Inv, ShownBefore, Newest
  <2>2. ASSUME NEW d \in calls', Newest(d)', d.q = data.q, d.answer \in Versions
        PROVE  data.ver <= d.answer
    BY <2>2, <1>2, <1>5, <1>6, <1>7 DEF Inv, ShownBefore, Newest
  <2> QED BY <1>2, <2>1, <2>2 DEF Inv, ShownBefore
<1>11. KnowsChanges'
  <2>1. c.q \in Questions /\ version[c.q] \in Nat /\ wrote[c.q] <= version[c.q]
    BY <1>3, <1>4 DEF Inv, KnowsChanges, Read, Versions
  <2>2. ASSUME NEW d \in calls', d.answer \in Versions
        PROVE  d.answer <= version[d.q] /\ (Newest(d)' => wrote[d.q] <= d.answer)
    BY <2>1, <2>2, <1>2, <1>5, <1>6, <1>7 DEF Inv, KnowsChanges, Newest
  <2> QED BY <1>2, <2>2 DEF Inv, KnowsChanges
<1>12. \A d \in calls : Newest(d) => \E e \in calls' : Newest(e)'
  BY <1>2, <1>6, <1>7 DEF Newest
<1> QED BY <1>2, <1>8, <1>9, <1>10, <1>11, <1>12 DEF Inv, SpinnerHasRead, ChangeIsShown

(* A reply: one that may land leaves no read that may. *)
LEMMA ReplyKeepsInv ==
    ASSUME Inv, NEW c \in calls, Reply(c)
    PROVE  Inv'
<1>1. /\ c.answer # Unread /\ calls' = calls \ {c}
      /\ UNCHANGED <<question, active, generation, handlers, version, wrote>>
  BY DEF Reply, broker
<1>2. MaxVersion \in Nat /\ c \in Read /\ wrote \in [Questions -> Versions]
  BY BrokerDataAssumption DEF Inv, TypeOK
<1>3. Numbered' /\ KnowsChanges'
  BY <1>1 DEF Inv, Numbered, KnowsChanges, Newest
<1>4. CASE ~Newest(c)
  <2>1. UNCHANGED <<data, loading, refreshing, error>>
    BY <1>4 DEF Reply
  <2>2. TypeOK' /\ ShownBefore'
    BY <1>1, <2>1 DEF Inv, TypeOK, ShownBefore, Newest
  <2>3. \A d \in calls : Newest(d) => d \in calls' /\ Newest(d)'
    BY <1>1, <1>4 DEF Newest
  <2> QED BY <1>1, <1>3, <2>1, <2>2, <2>3 DEF Inv, SpinnerHasRead, ChangeIsShown
<1>5. CASE Newest(c)
  <2>1. \A d \in calls' : ~Newest(d)'
    BY <1>1, <1>5 DEF Inv, Numbered, Newest
  <2>2. loading' = FALSE /\ refreshing' = FALSE
    BY <1>5 DEF Reply
  <2>3. CASE c.answer = Failed
    <3>1. data' = NoData /\ error' = TRUE
      BY <1>5, <2>3 DEF Reply
    <3>2. TypeOK'
      BY <1>1, <2>2, <3>1 DEF Inv, TypeOK
    <3> QED BY <1>3, <2>2, <3>1, <3>2 DEF Inv, ShownBefore, SpinnerHasRead, ChangeIsShown
  <2>4. CASE c.answer # Failed
    <3>1. data' = [gen |-> c.gen, q |-> c.q, ver |-> c.answer] /\ error' = FALSE
      BY <1>5, <2>4 DEF Reply
    <3>2. c.answer \in Versions
      BY <1>1, <1>2, <2>4 DEF Read, Unread, Failed, Versions
    <3>3. data' \in Answers /\ data'.gen = c.gen /\ data'.q = c.q /\ data'.ver = c.answer
      BY <1>2, <3>1, <3>2 DEF Read, Answers
    <3>4. TypeOK'
      BY <1>1, <2>2, <3>1, <3>3 DEF Inv, TypeOK
    <3>5. ShownBefore'
      BY <1>1, <2>1, <3>2, <3>3 DEF Inv, ShownBefore, Numbered, KnowsChanges
    <3>6. wrote'[data'.q] <= data'.ver
      BY <1>1, <1>5, <3>2, <3>3 DEF Inv, KnowsChanges
    <3>7. ~(data'.ver < wrote'[data'.q])
      BY <1>1, <1>2, <3>2, <3>3, <3>6 DEF Read, Versions
    <3> QED BY <1>3, <2>2, <3>4, <3>5, <3>7 DEF Inv, SpinnerHasRead, ChangeIsShown
  <2> QED BY <2>3, <2>4
<1> QED BY <1>4, <1>5

--------------------------------------------------------------------------------
LEMMA InitInv == Init => Inv
<1> SUFFICES ASSUME Init PROVE Inv
  OBVIOUS
<1>1. MaxGeneration \in Nat /\ MaxVersion \in Nat
  BY BrokerDataAssumption
<1>2. 0 \in 0..MaxGeneration /\ 0 \in Versions
  BY <1>1 DEF Versions
<1>3. version \in [Questions -> Versions] /\ wrote \in [Questions -> Versions]
  BY <1>2 DEF Init
<1>4. /\ active \in BOOLEAN /\ loading \in BOOLEAN /\ refreshing \in BOOLEAN /\ error \in BOOLEAN
      /\ calls \subseteq Read /\ handlers \subseteq Questions
  BY DEF Init
<1>5. TypeOK
  BY <1>2, <1>3, <1>4 DEF Init, TypeOK
<1> QED BY <1>5 DEF Init, Inv, Numbered, ShownBefore, KnowsChanges, SpinnerHasRead, ChangeIsShown

LEMMA NextInv == Inv /\ [Next]_vars => Inv'
<1> SUFFICES ASSUME Inv, [Next]_vars PROVE Inv'
  OBVIOUS
<1>1. generation \in Nat /\ question \in Questions /\ handlers \subseteq Questions
  BY BrokerDataAssumption DEF Inv, TypeOK
<1>2. ASSUME NEW q \in Questions, Enter(q, TRUE) PROVE Inv'
  <2>1. Send(q, generation + 2) /\ generation + 2 \in Nat /\ generation + 2 > generation
    BY <1>1, <1>2 DEF Enter
  <2>2. /\ question' = q /\ active' = TRUE /\ data' = NoData /\ error' = FALSE
        /\ refreshing' = FALSE /\ loading' = TRUE
        /\ UNCHANGED <<handlers, version, wrote>>
    BY <1>2 DEF Enter, broker
  <2> QED BY <1>1, <2>1, <2>2, SendKeepsInv
<1>3. ASSUME NEW q \in Questions, Enter(q, FALSE) PROVE Inv'
  BY <1>3, LeaveKeepsInv
<1>4. ASSUME NEW q \in Questions, Refresh(q), version' = version, handlers' \subseteq Questions,
             wrote' = wrote \/ \E p \in Questions : wrote' = [wrote EXCEPT ![p] = version[p]]
      PROVE  Inv'
  <2>1. Send(q, generation + 1) /\ generation + 1 \in Nat /\ generation + 1 > generation
    BY <1>1, <1>4 DEF Refresh
  <2>2. refreshing' = TRUE /\ UNCHANGED <<question, active, data, loading, error>>
    BY <1>4 DEF Refresh
  <2>3. active \in BOOLEAN /\ loading \in BOOLEAN /\ error \in BOOLEAN
    BY DEF Inv, TypeOK
  <2> QED BY <1>1, <1>4, <2>1, <2>2, <2>3, SendKeepsInv
<1>5. CASE Tick
  BY <1>1, <1>4, <1>5 DEF Tick, broker
<1>6. CASE Begin
  <2>1. /\ handlers' \subseteq Questions
        /\ UNCHANGED <<question, active, generation, data, loading, refreshing, error, calls,
                       version, wrote>>
    BY <1>1, <1>6 DEF Begin
  <2> QED BY <2>1 DEF Inv, TypeOK, Numbered, ShownBefore, KnowsChanges, SpinnerHasRead,
                     ChangeIsShown, Newest
<1>7. ASSUME NEW q \in Questions, Change(q) PROVE Inv'
  BY <1>7, ChangeKeepsInv
<1>8. ASSUME NEW q \in Questions, Done(q) PROVE Inv'
  BY <1>1, <1>4, <1>8 DEF Done
<1>9. ASSUME NEW q \in Questions, Refused(q) PROVE Inv'
  <2>1. /\ handlers' \subseteq Questions
        /\ UNCHANGED <<question, active, generation, data, loading, refreshing, error, calls,
                       version, wrote>>
    BY <1>1, <1>9 DEF Refused
  <2> QED BY <2>1 DEF Inv, TypeOK, Numbered, ShownBefore, KnowsChanges, SpinnerHasRead,
                     ChangeIsShown, Newest
<1>10. ASSUME NEW c \in calls, Answer(c) PROVE Inv'
  BY <1>10, AnswerKeepsInv
<1>11. ASSUME NEW c \in calls, Reply(c) PROVE Inv'
  BY <1>11, ReplyKeepsInv
<1>12. CASE UNCHANGED vars
  BY <1>12 DEF vars, Inv, TypeOK, Numbered, ShownBefore, KnowsChanges, SpinnerHasRead,
               ChangeIsShown, Newest
<1>13. ASSUME NEW q \in Questions, NEW on \in BOOLEAN, Enter(q, on) PROVE Inv'
  <2>1. CASE on = TRUE
    BY <1>2, <1>13, <2>1
  <2>2. CASE on = FALSE
    BY <1>3, <1>13, <2>2
  <2> QED BY <2>1, <2>2
<1> QED BY <1>5, <1>6, <1>7, <1>8, <1>9, <1>10, <1>11, <1>12, <1>13 DEF Next

THEOREM Invariance == Spec => []Inv
BY InitInv, NextInv, PTL DEF Spec

(* The type of every variable of useBrokerData. *)
THEOREM TypeCorrect == Spec => []TypeOK
<1>1. Inv => TypeOK
  BY DEF Inv
<1> QED BY <1>1, Invariance, PTL

(* A spinner has the read that will take it away. *)
THEOREM NeverWaitsForNothing == Spec => []SpinnerHasRead
<1>1. Inv => SpinnerHasRead
  BY DEF Inv
<1> QED BY <1>1, Invariance, PTL

(* What the page changed is on screen or being read. *)
THEOREM ChangesAreShown == Spec => []ChangeIsShown
<1>1. Inv => ChangeIsShown
  BY DEF Inv
<1> QED BY <1>1, Invariance, PTL

--------------------------------------------------------------------------------
(* What a page shows of one question never goes back in time: the answer that lands
   came in after the one on screen did. *)
LEMMA NeverOlderStep ==
    ASSUME Inv, [Next]_vars, data # NoData, data' # NoData, data'.q = data.q
    PROVE  data'.ver >= data.ver
<1>1. data \in Answers /\ data.ver \in Nat
  BY BrokerDataAssumption DEF Inv, TypeOK, Answers, Versions
<1>2. ASSUME NEW c \in calls, Reply(c) PROVE data'.ver >= data.ver
  <2>1. CASE data' = data
    BY <1>1, <2>1
  <2>2. CASE data' # data
    <3>1. Newest(c) /\ c.answer # Failed /\ c.answer # Unread
      BY <1>2, <2>2 DEF Reply
    <3>2. data' = [gen |-> c.gen, q |-> c.q, ver |-> c.answer]
      BY <1>2, <3>1 DEF Reply
    <3>3. c.answer \in Versions
      BY <3>1, BrokerDataAssumption DEF Inv, TypeOK, Read, Unread, Failed, Versions
    <3>4. c.q = data.q /\ data'.ver = c.answer
      BY <3>2
    <3>5. data.ver <= c.answer
      BY <3>1, <3>3, <3>4 DEF Inv, ShownBefore
    <3> QED BY <1>1, <3>3, <3>4, <3>5 DEF Versions
  <2> QED BY <2>1, <2>2
<1>3. ASSUME ~(\E c \in calls : Reply(c)) PROVE data' \in {data, NoData}
  BY <1>3 DEF Next, vars, Enter, Tick, Begin, Change, Done, Refused, Answer, Refresh
<1> QED BY <1>1, <1>2, <1>3

THEOREM NeverGoesBack == Spec => NeverOlder
<1>1. Inv /\ [Next]_vars =>
        [data # NoData /\ data' # NoData /\ data'.q = data.q => data'.ver >= data.ver]_vars
  BY NeverOlderStep
<1> QED BY <1>1, Invariance, PTL DEF Spec, NeverOlder

--------------------------------------------------------------------------------
(* The page implements LatestAnswer: a step of the page asks anew, lets the newest
   answer land, or is neither. *)
LEMMA LatestInit == Init => Latest!Init
BY DEF Init, Latest!Init, NoData

LEMMA LatestStep == Inv /\ [Next]_vars => [Latest!Next]_(Latest!vars)
<1> SUFFICES ASSUME Inv, [Next]_vars PROVE [Latest!Next]_(Latest!vars)
  OBVIOUS
<1>1. generation \in Nat /\ NoData.gen = 0
  BY DEF Inv, TypeOK, NoData
<1>2. ASSUME NEW q \in Questions, NEW on \in BOOLEAN, Enter(q, on) PROVE Latest!Ask
  <2>1. data' = NoData /\ generation' \in {generation + 1, generation + 2}
    BY <1>2 DEF Enter, Send
  <2> QED BY <1>1, <2>1 DEF Latest!Ask
<1>3. ASSUME NEW q \in Questions, Refresh(q) PROVE Latest!Ask
  BY <1>1, <1>3 DEF Refresh, Send, Latest!Ask
<1>4. ASSUME NEW c \in calls, Reply(c) PROVE Latest!Land \/ UNCHANGED Latest!vars
  <2>1. generation' = generation
    BY <1>4 DEF Reply
  <2>2. data' = data \/ (Newest(c) /\ data' \in {NoData, [gen |-> c.gen, q |-> c.q, ver |-> c.answer]})
    BY <1>4 DEF Reply
  <2>3. data' = data \/ data'.gen \in {generation, 0}
    BY <1>1, <2>2 DEF Newest
  <2> QED BY <2>1, <2>3 DEF Latest!Land, Latest!vars
<1>5. ASSUME \/ Begin \/ UNCHANGED vars
             \/ \E q \in Questions : Change(q) \/ Refused(q)
             \/ \E c \in calls : Answer(c)
      PROVE  UNCHANGED Latest!vars
  BY <1>5 DEF Begin, Change, Refused, Answer, vars, Latest!vars
<1>6. CASE Tick
  BY <1>3, <1>6 DEF Inv, TypeOK, Tick, Latest!Next
<1>7. ASSUME NEW q \in Questions, Done(q) PROVE Latest!Ask
  BY <1>3, <1>7 DEF Done
<1> QED BY <1>2, <1>4, <1>5, <1>6, <1>7 DEF Next, Latest!Next

THEOREM Refinement == Spec => ShowsTheLatest
BY LatestInit, LatestStep, Invariance, PTL DEF Spec, ShowsTheLatest, Latest!Spec
================================================================================
