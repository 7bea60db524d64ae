--------------------------------- MODULE Boards ---------------------------------
(* One page at work: what its reads show while its buttons, its questions and its
   dialogs change the broker, for every page of BoardTable.

   A request takes three steps: the broker makes the change or not, the answer
   reaches the handler, and the handler has read again.  Reads are BrokerData's,
   reduced to whether what they show is from before a change. *)
EXTENDS BoardTable, Naturals, Bags

CONSTANT MaxCalls \* bound: the requests of a page under way at once

VARIABLES page,     \* the page on screen
          question, \* the act whose question is open: none or one
          dialog,   \* the act whose dialog is open: none or one
          saving,   \* the acts whose button is off because a request is under way
          calls,    \* the requests under way, a bag
          shown,    \* what each read shows
          unsure    \* reads still to show a change its handler was told had failed

vars == <<page, question, dialog, saving, calls, shown, unsure>>

Views == page.polled \cup page.once
Free == question = {} /\ dialog = {}
Room == BagCardinality(calls) < MaxCalls
UnderWay == BagToSet(calls)
InThePanel == {a \in page.acts : a.dialog.inPanel}

(* A read starts over; a change passes what is shown, or the read under way. *)
Reading(views, now) ==
    [v \in DOMAIN now |-> IF v \in views /\ now[v] # "closed" THEN "reading" ELSE now[v]]
Altered(views) ==
    [v \in Views |-> IF v \in views /\ shown[v] = "current" THEN "behind"
                     ELSE IF v \in views /\ shown[v] = "reading" THEN "readingOld"
                     ELSE shown[v]]
WithoutPanel == [v \in Views |-> IF v \in Panel THEN "closed" ELSE shown[v]]
Outdated(views, now) == {v \in views \cap DOMAIN now : now[v] \in {"behind", "readingOld"}}

--------------------------------------------------------------------------------
(* Reads. *)

(* The interval, or the page's own button for what it reads once. *)
Poll(v) ==
    /\ v \in page.polled \cup Second
    /\ shown[v] # "closed"
    /\ shown' = Reading({v}, shown)
    /\ unsure' = unsure \ {v}
    /\ UNCHANGED <<page, question, dialog, saving, calls>>

(* An answer replaces what was shown; a read that fails replaces it with its error.
   A dialog whose effect depends on what arrived is filled anew, also in the middle
   of a request. *)
Land(v) ==
    /\ shown[v] \in {"reading", "readingOld"}
    /\ \E old \in {shown[v] = "readingOld", FALSE} :
          shown' = [shown EXCEPT ![v] = IF old THEN "behind" ELSE "current"]
    /\ unsure' = Outdated(unsure, shown')
    /\ saving' = saving \ {a \in dialog : a.dialog.forgets /\ v \in a.dialog.follows}
    /\ UNCHANGED <<page, question, dialog, calls>>

(* Picking a row reads its panel; another row, or none, drops what it held. *)
Select ==
    /\ Free /\ Panel \subseteq Views
    /\ shown' = [shown EXCEPT !["panel"] = "reading"]
    /\ unsure' = unsure \ Panel
    /\ saving' = saving \ InThePanel
    /\ UNCHANGED <<page, question, dialog, calls>>

Dismiss ==
    /\ Free /\ Panel \subseteq Views /\ shown["panel"] # "closed"
    /\ shown' = WithoutPanel
    /\ unsure' = unsure \ Panel
    /\ saving' = saving \ InThePanel
    /\ UNCHANGED <<page, question, dialog, calls>>

--------------------------------------------------------------------------------
(* Buttons, questions and dialogs.  A question and a dialog cover the page. *)

Request(a) ==
    /\ Room
    /\ calls' = calls (+) SetToBag({[act |-> a, stage |-> "sent"]})
    /\ saving' = IF a.guarded THEN saving \cup {a} ELSE saving

Press(a) ==
    /\ Free /\ ~a.asks /\ ~a.form
    /\ a.guarded => a \notin saving
    /\ Request(a)
    /\ UNCHANGED <<page, question, dialog, shown, unsure>>

Ask(a) ==
    /\ Free /\ a.asks
    /\ a.guarded => a \notin saving
    /\ question' = {a}
    /\ UNCHANGED <<page, dialog, saving, calls, shown, unsure>>

AnswerYes(a) ==
    /\ a \in question
    /\ question' = {}
    /\ Request(a)
    /\ UNCHANGED <<page, dialog, shown, unsure>>

AnswerNo ==
    /\ question # {}
    /\ question' = {}
    /\ UNCHANGED <<page, dialog, saving, calls, shown, unsure>>

Open(a) ==
    /\ Free /\ a.form
    /\ a.dialog.inPanel => shown["panel"] # "closed"
    /\ dialog' = {a}
    /\ saving' = IF a.dialog.forgets THEN saving \ {a} ELSE saving
    /\ UNCHANGED <<page, question, calls, shown, unsure>>

(* A dialog can be left while its request is under way. *)
Cancel ==
    /\ dialog # {}
    /\ dialog' = {}
    /\ UNCHANGED <<page, question, saving, calls, shown, unsure>>

SubmitForm(a) ==
    /\ a \in dialog /\ a \notin saving
    /\ Request(a)
    /\ UNCHANGED <<page, question, dialog, shown, unsure>>

--------------------------------------------------------------------------------
(* Requests. *)

Over(c) == calls' = calls (-) SetToBag({c})
Step(c, stage) == calls' = calls (-) SetToBag({c}) (+) SetToBag({[c EXCEPT !.stage = stage]})

(* The change is made, or fails, or is made and reported failed. *)
Broker(c) ==
    /\ c.stage = "sent"
    /\ \/ Step(c, "made") /\ shown' = Altered(c.act.alters) /\ UNCHANGED unsure
       \/ Step(c, "failed") /\ UNCHANGED <<shown, unsure>>
       \/ Step(c, "failed") /\ shown' = Altered(c.act.alters) /\ unsure' = Outdated(unsure \cup c.act.alters, shown')
    /\ UNCHANGED <<page, question, dialog, saving>>

(* The dialog is closed: the one the request came from, or the one opened since. *)
CloseDialog(acts) == dialog' = dialog \ acts
Left(a) == IF a.dialog.stays THEN {} ELSE {a}

(* Mutant: a handler reads nothing again. *)
MadeQuietly(c) ==
    /\ shown' = IF c.act.closes /\ ~c.act.form THEN WithoutPanel ELSE shown
    /\ unsure' = Outdated(unsure, shown')
    /\ LET gone == IF c.act.closes THEN (IF c.act.form THEN {c.act} ELSE InThePanel) ELSE {} IN
       IF c.act.dialog.awaits
       THEN Step(c, "reading") /\ CloseDialog(gone) /\ saving' = saving \ (gone \cap InThePanel)
       ELSE Over(c) /\ CloseDialog(Left(c.act)) /\ saving' = saving \ {c.act}

(* The handler goes on: it closes what it closes first and reads again. *)
Made(c) ==
    /\ shown' = Reading(c.act.rereads, IF c.act.closes /\ ~c.act.form THEN WithoutPanel ELSE shown)
    /\ unsure' = Outdated(unsure \ c.act.rereads, shown')
    /\ LET gone == IF c.act.closes THEN (IF c.act.form THEN {c.act} ELSE InThePanel) ELSE {} IN
       IF c.act.dialog.awaits
       THEN Step(c, "reading") /\ CloseDialog(gone) /\ saving' = saving \ (gone \cap InThePanel)
       ELSE Over(c) /\ CloseDialog(Left(c.act)) /\ saving' = saving \ {c.act}

(* Mutant: a failure leaves the button off. *)
RefusedForGood(c) ==
    /\ Over(c)
    /\ UNCHANGED <<saving, dialog, shown, unsure>>

(* A failure is shown; the dialog stays. *)
Refused(c) ==
    /\ Over(c)
    /\ saving' = saving \ {c.act}
    /\ UNCHANGED <<dialog, shown, unsure>>

Reply(c) ==
    /\ \/ c.stage = "made" /\ Made(c)
       \/ c.stage = "failed" /\ Refused(c)
    /\ UNCHANGED <<page, question>>

(* What was awaited has been read, or a later read has replaced it. *)
Return(c) ==
    /\ c.stage = "reading"
    /\ Over(c)
    /\ shown' = Reading(c.act.later, shown)
    /\ unsure' = unsure \ c.act.later
    /\ saving' = saving \ {c.act}
    /\ CloseDialog(IF c.act.form THEN {c.act} ELSE {})
    /\ UNCHANGED <<page, question>>

--------------------------------------------------------------------------------
Init ==
    /\ page \in Pages
    /\ question = {} /\ dialog = {} /\ saving = {} /\ calls = EmptyBag
    /\ shown = [v \in Views |-> IF v \in Panel THEN "closed" ELSE "reading"]
    /\ unsure = {}

Next ==
    \/ \E v \in Views : Poll(v) \/ Land(v)
    \/ Select \/ Dismiss
    \/ \E a \in page.acts : Press(a) \/ Ask(a) \/ AnswerYes(a) \/ Open(a) \/ SubmitForm(a)
    \/ AnswerNo \/ Cancel
    \/ \E c \in UnderWay : Broker(c) \/ Reply(c) \/ Return(c)

Spec == Init /\ [][Next]_vars

--------------------------------------------------------------------------------
(* Properties. *)

Requests == [act : page.acts, stage : {"sent", "made", "failed", "reading"}]

(* The type of every variable. *)
TypeOK ==
    /\ page \in Pages
    /\ question \in SUBSET page.acts /\ dialog \in SUBSET page.acts
    /\ \A a, b \in question : a = b
    /\ \A a, b \in dialog : a = b
    /\ saving \subseteq {a \in page.acts : a.guarded}
    /\ UnderWay \subseteq Requests /\ IsABag(calls)
    /\ shown \in [Views -> {"closed", "current", "behind", "reading", "readingOld"}]
    /\ unsure = Outdated(unsure, shown)

(* A page never goes on showing what one of its own changes has replaced: whichever
   reads were under way and however requests overlap, a read left from before a
   change belongs to a request whose handler has still to read it again, or to one
   the handler was told had failed (every handler awaits refresh after its call).
   The pages of LeaveBehind do: their panel is not read again. *)
ChangeIsShown ==
    page \notin LeaveBehind =>
        \A v \in Views \ unsure :
            shown[v] = "behind" =>
                \E c \in UnderWay : \/ c.stage = "made" /\ v \in c.act.alters
                                    \/ c.stage = "reading" /\ v \in c.act.later

(* A button that is off has a request that will turn it on again, whatever failed,
   was cancelled, closed or reopened (the finally of every handler). *)
SavingHasCall == \A a \in saving : \E c \in UnderWay : c.act = a

(* A dialog that does not forget what it sent never has two requests under way,
   also when it was cancelled and opened again (`if (invalid != null || busy) return`). *)
OneRequestAtATime ==
    \A c, d \in UnderWay :
        /\ c.act = d.act /\ c.act.guarded
        /\ ~c.act.dialog.forgets /\ ~c.act.dialog.inPanel
        => c = d /\ calls[c] = 1
================================================================================
