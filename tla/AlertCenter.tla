------------------------------- MODULE AlertCenter -------------------------------
(* The bell's alerts (frontend/src/hooks/useAlertCenter.tsx): a sweep reads every
   connection once a minute, the rules that are on say what each answer means
   (lib/alertDerive.ts), and the records remember what started, what recovered and
   what was seen (lib/alertCenter.ts).

   Every connection is of the family whose rules also read one of unknown kind. *)
EXTENDS Naturals

CONSTANTS Conns,     \* the connections
          Rules,     \* the alert rules
          Listed,    \* the rules that read a listing, which may fail on its own
          MaxSweeps, \* bound: the sweeps under way at once
          MaxChanges \* bound: what changes outside the alert centre, failures included

Alerts == Conns \X Rules

VARIABLES profiles, \* the connections as the window knows them
          firing,   \* what is wrong with the brokers
          enabled,  \* the rules that are on
          facts,    \* what the last good answer of each connection said: none or one
          records,  \* the list under the bell
          readIds,  \* what has been seen, kept across launches
          sweeps,   \* the sweeps under way
          changes,  \* changes made so far
          seen      \* alerts seen while firing that have not recovered since (for the properties)

vars == <<profiles, firing, enabled, facts, records, readIds, sweeps, changes, seen>>

Known(now) == {c \in Conns : now[c] \in {"online", "offline"}}
NoRecord == [state |-> "none", read |-> FALSE]
Recovered == {a \in Alerts : records[a].state = "recovered"}
Change == changes < MaxChanges /\ changes' = changes + 1

--------------------------------------------------------------------------------
(* deriveAlerts and mergeAlerts.  Recoveries of half an hour ago are dropped. *)

Derived(c, answers, on) == (UNION answers[c]) \cap on

Kept(a, known, expired) == IF a[1] \in known /\ a \notin expired THEN records[a] ELSE NoRecord

Merged(before, a, answers, on) ==
    IF answers[a[1]] = {} THEN before
    ELSE IF a[2] \in Derived(a[1], answers, on)
    THEN IF before.state = "firing" THEN before
         ELSE [state |-> "firing", read |-> before.state = "none" /\ a \in readIds]
    ELSE IF before.state = "firing" THEN [before EXCEPT !.state = "recovered"] ELSE before

(* Whatever changes the answers, the rules or the profiles merges at once. *)
Merge(answers, on, known) ==
    /\ \E expired \in SUBSET Recovered :
          records' = [a \in Alerts |-> Merged(Kept(a, known, expired), a, answers, on)]
    /\ seen' = {a \in seen : a[1] \in known /\ records'[a].state # "recovered"}

--------------------------------------------------------------------------------
(* Sweeps. *)

(* Each connection is asked on its own; one that is offline answers that nothing fires. *)
Sweep(no, now) ==
    [no |-> no, of |-> Known(now),
     waiting |-> {c \in Conns : now[c] = "online"},
     answers |-> [c \in Conns |-> IF now[c] = "offline" THEN {{}} ELSE {}]]
Begin(now) ==
    \E no \in 1..MaxSweeps :
        /\ \A s \in sweeps : s.no # no
        /\ sweeps' = sweeps \cup {Sweep(no, now)}

(* refresh, by the timer or a button: also while the sweep before it is out. *)
Tick ==
    /\ Begin(profiles)
    /\ UNCHANGED <<profiles, firing, enabled, facts, records, readIds, changes, seen>>

(* A listing that fails is taken for an empty one; an answer that fails is none. *)
Answer(s, c) ==
    /\ c \in s.waiting
    /\ LET now == {r \in Rules : <<c, r>> \in firing}
           Answered(answer) ==
               sweeps' = (sweeps \ {s}) \cup {[s EXCEPT !.waiting = @ \ {c}, !.answers[c] = answer]}
       IN \/ profiles[c] = "online" /\ Answered({now}) /\ UNCHANGED changes
          \/ profiles[c] = "online" /\ now \cap Listed # {} /\ Change /\ Answered({now \ Listed})
          \/ profiles[c] = "online" /\ Change /\ Answered({})
          \/ profiles[c] # "online" /\ Answered({}) /\ UNCHANGED changes
    /\ UNCHANGED <<profiles, firing, enabled, facts, records, readIds, seen>>

(* Mutant: what a sweep did not ask for is kept. *)
LandKeepingAll(s) ==
    /\ s.waiting = {}
    /\ sweeps' = sweeps \ {s}
    /\ facts' = [c \in Conns |-> IF s.answers[c] # {} THEN s.answers[c] ELSE facts[c]]
    /\ Merge(facts', enabled, Known(profiles))
    /\ UNCHANGED <<profiles, firing, enabled, readIds, changes>>

(* A sweep is shown when all have answered: the last good answer stands in for one that
   failed, and a connection the sweep did not ask has none. *)
Land(s) ==
    /\ s.waiting = {}
    /\ sweeps' = sweeps \ {s}
    /\ facts' = [c \in Conns |-> IF c \notin s.of THEN {}
                                 ELSE IF s.answers[c] # {} THEN s.answers[c] ELSE facts[c]]
    /\ Merge(facts', enabled, Known(profiles))
    /\ UNCHANGED <<profiles, firing, enabled, readIds, changes>>

--------------------------------------------------------------------------------
(* What happens around it. *)

Broker(a) ==
    /\ Change
    /\ firing' = IF a \in firing THEN firing \ {a} ELSE firing \cup {a}
    /\ UNCHANGED <<profiles, enabled, facts, records, readIds, sweeps, seen>>

(* A connection opens, closes, is added or deleted: merged with what is known of it,
   and swept at once. *)
SetStatus(c, status) ==
    /\ <<profiles[c], status>> \in {<<"absent", "offline">>, <<"offline", "online">>,
                                    <<"online", "offline">>, <<"offline", "gone">>, <<"online", "gone">>}
    /\ Change
    /\ profiles' = [profiles EXCEPT ![c] = status]
    /\ Begin(profiles')
    /\ Merge(facts, enabled, Known(profiles'))
    /\ UNCHANGED <<firing, enabled, facts, readIds>>

ToggleRule(r) ==
    /\ Change
    /\ enabled' = IF r \in enabled THEN enabled \ {r} ELSE enabled \cup {r}
    /\ Merge(facts, enabled', Known(profiles))
    /\ UNCHANGED <<profiles, firing, facts, readIds, sweeps>>

(* The switches of the alerts page. *)
RulesPage == \E r \in Rules : ToggleRule(r)

(* Mutant: what is marked is not kept. *)
MarkUnkept(marked) ==
    /\ marked # {}
    /\ records' = [a \in Alerts |-> IF a \in marked THEN [records[a] EXCEPT !.read = TRUE] ELSE records[a]]
    /\ seen' = seen \cup {a \in marked : records[a].state = "firing"}
    /\ UNCHANGED <<profiles, firing, enabled, facts, readIds, sweeps, changes>>

Mark(marked) ==
    /\ marked # {}
    /\ records' = [a \in Alerts |-> IF a \in marked THEN [records[a] EXCEPT !.read = TRUE] ELSE records[a]]
    /\ readIds' = readIds \cup marked
    /\ seen' = seen \cup {a \in marked : records[a].state = "firing"}
    /\ UNCHANGED <<profiles, firing, enabled, facts, sweeps, changes>>

Unread == {a \in Alerts : records[a].state # "none" /\ ~records[a].read}
MarkRead(a) == Mark({a} \cap Unread)
MarkAllRead == Mark(Unread)

(* The bell's list: a row, or the button over all of them. *)
NotificationBell == MarkAllRead \/ \E a \in Alerts : MarkRead(a)

(* The window starts over; what was seen has been kept. *)
Restart ==
    /\ Change
    /\ facts' = [c \in Conns |-> {}]
    /\ records' = [a \in Alerts |-> NoRecord]
    /\ sweeps' = {Sweep(1, profiles)}
    /\ UNCHANGED <<profiles, firing, enabled, readIds, seen>>

--------------------------------------------------------------------------------
Init ==
    /\ profiles \in [Conns -> {"online", "absent"}]
    /\ firing = {} /\ enabled = Rules
    /\ facts = [c \in Conns |-> {}]
    /\ records = [a \in Alerts |-> NoRecord]
    /\ readIds = {} /\ seen = {} /\ changes = 0
    /\ sweeps = {Sweep(1, profiles)}

Next ==
    \/ Tick \/ Restart \/ RulesPage \/ NotificationBell
    \/ \E s \in sweeps : Land(s) \/ \E c \in Conns : Answer(s, c)
    \/ \E a \in Alerts : Broker(a)
    \/ \E c \in Conns, status \in {"offline", "online", "gone"} : SetStatus(c, status)

Spec == Init /\ [][Next]_vars

--------------------------------------------------------------------------------
(* Properties. *)

Answers == {{}} \cup {{answer} : answer \in SUBSET Rules}

(* The type of every variable. *)
TypeOK ==
    /\ profiles \in [Conns -> {"absent", "online", "offline", "gone"}]
    /\ firing \subseteq Alerts /\ enabled \subseteq Rules
    /\ facts \in [Conns -> Answers]
    /\ records \in [Alerts -> [state : {"none", "firing", "recovered"}, read : BOOLEAN]]
    /\ seen \subseteq Alerts /\ readIds \subseteq Alerts /\ changes \in 0..MaxChanges
    /\ sweeps \subseteq [no : 1..MaxSweeps, of : SUBSET Conns, waiting : SUBSET Conns,
                         answers : [Conns -> Answers]]
    /\ \A s, t \in sweeps : s.no = t.no => s = t

(* Whatever sweeps are out, nothing fires on the list by a rule that is off ("turning a
   rule off on the page must empty the bell in the same tick, not at the centre's next
   poll"), but for a connection added since, whose answer an older sweep has dropped. *)
OffIsQuiet ==
    \A a \in Alerts : records[a].state = "firing" => a[2] \in enabled \/ facts[a[1]] = {}

(* A standing alert that was seen is not announced again, across launches, failed
   sweeps and deleted connections, until it has been recorded as recovered ("so a
   standing alert does not re-announce itself on every launch"). *)
Announced(a) == records'[a] = [state |-> "firing", read |-> FALSE] /\ records[a].state # "firing"
SeenStaysQuiet == [][\A a \in seen : ~Announced(a)]_vars

(* Once brokers, connections, rules and failures have come to rest, the bell shows what
   fires, however sweeps overlapped, and nothing of a deleted connection ("Records of
   anything else are forgotten"). *)
BellIsTrue ==
    \A a \in Alerts :
        /\ records[a].state = "firing" <=>
              a \in firing /\ a[2] \in enabled /\ profiles[a[1]] = "online"
        /\ profiles[a[1]] = "gone" => records[a] = NoRecord
BellCatchesUp == <>[]BellIsTrue
================================================================================
