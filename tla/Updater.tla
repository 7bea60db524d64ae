--------------------------------- MODULE Updater ---------------------------------
(* The window's half of the update lifecycle (frontend/src/hooks/useUpdater.ts, the
   update dialog and the card in the settings): the state it shows, and when it speaks.

   UpdateManager models the manager itself.  Here it is any sequence of states, each
   numbered; a pump emits the last one published, and answers to calls come on their
   own way.  A phase says whether a release on offer may be skipped; the dialog is left
   out. *)
EXTENDS Naturals, Sequences

CONSTANTS MaxVersion, \* bound: the newest release
          MaxStates,  \* bound: the states the manager goes through
          MaxCalls    \* bound: the calls under way at once

Phases == {"rest", "busy"}
State == [no : 0..MaxStates, phase : Phases, latest : 0..MaxVersion, skipped : 0..MaxVersion]
Unknown == [no |-> 0, phase |-> "rest", latest |-> 0, skipped |-> 0]

VARIABLES manager,   \* Go: m.state
          pending,   \* Go: m.pending, none or one
          wire,      \* update:state on its way
          state,     \* what the window shows
          checking,  \* a check the user waits for
          announced, \* announced.current
          standing,  \* announcement.current: the release it is about, while it is up
          replaced,  \* the releases that announcements still up are about which
                     \* announcement.current no longer names
          calls,     \* the window's calls to Go
          astray     \* a call failed or a state replaced a newer one (for the properties)

go == <<manager, pending, wire>>
notices == <<announced, standing, replaced>>
vars == <<go, state, checking, notices, calls, astray>>

hasUpdate(s) == s.latest # 0 /\ s.latest # s.skipped
Call(kind, v) ==
    \E no \in 1..MaxCalls :
        /\ \A c \in calls : c.no # no
        /\ calls' = calls \cup {[no |-> no, kind |-> kind, v |-> v, at |-> "sent", answer |-> Unknown]}

--------------------------------------------------------------------------------
(* Go. *)

(* publish, of the state a critical section leaves. *)
Publish(phase, latest, skipped) ==
    /\ manager.no < MaxStates
    /\ manager' = [no |-> manager.no + 1, phase |-> phase, latest |-> latest, skipped |-> skipped]
    /\ pending' = {manager'}
    /\ UNCHANGED wire

(* pump: states published in between are never emitted. *)
Pump ==
    /\ \E s \in pending : wire' = Append(wire, s)
    /\ pending' = {}
    /\ UNCHANGED <<manager, state, checking, notices, calls, astray>>

(* The schedule's checks, downloads, installs. *)
Moves(phase, latest) ==
    /\ Publish(phase, latest, manager.skipped)
    /\ UNCHANGED <<state, checking, notices, calls, astray>>

Step(c, step) == calls' = (calls \ {c}) \cup {[c EXCEPT !.at = step]}
Answered(c) == calls' = (calls \ {c}) \cup {[c EXCEPT !.at = "answered", !.answer = manager']}

(* State, Check and Skip of the bridge.  A busy manager answers a check with its state
   as it is; a check by hand takes its release off the skip list. *)
Serve(c) ==
    /\ \/ /\ c.at = "sent" /\ c.kind \in {"read", "check"}
          /\ UNCHANGED <<go, astray>> /\ Answered(c)
       \/ /\ c.at = "sent" /\ c.kind = "check"
          /\ Publish("busy", manager.latest, manager.skipped)
          /\ Step(c, "running") /\ UNCHANGED astray
       \/ /\ c.at = "running"
          /\ \E latest \in 0..MaxVersion, phase \in Phases :
                (latest = 0 => phase = "rest") /\ Publish(phase, latest, IF latest = manager.skipped THEN 0 ELSE manager.skipped)
          /\ Answered(c) /\ UNCHANGED astray
       \/ /\ c.at = "running"
          /\ Publish("rest", manager.latest, manager.skipped)
          /\ Step(c, "failed") /\ UNCHANGED astray
       \/ /\ c.at = "sent" /\ c.kind = "skip"
          /\ Publish(manager.phase, manager.latest, c.v)
          /\ Step(c, "answered") /\ UNCHANGED astray
       \/ /\ c.at = "sent" /\ UNCHANGED go /\ Step(c, "failed") /\ astray' = TRUE
    /\ UNCHANGED <<state, checking, notices>>

--------------------------------------------------------------------------------
(* What is shown, and when it is said. *)

(* A state is shown, and a release it offers announced once, which has
   announcement.current name the new toast: the one of before stays on the screen, as
   its duration is 0.  A state that offers nothing takes down the toast named (an effect
   of the window, taken to run with the state). *)
Announce(next) ==
    IF hasUpdate(next) /\ next.latest # announced
    THEN /\ announced' = next.latest /\ standing' = next.latest
         /\ replaced' = replaced \cup ({standing} \ {0})
    ELSE /\ standing' = (IF hasUpdate(next) THEN standing ELSE 0)
         /\ UNCHANGED <<announced, replaced>>

Show(next) == state' = next /\ astray' = (astray \/ next.no < state.no)

(* Mutant: only an offer is worth showing. *)
ArriveOffers ==
    /\ wire # <<>>
    /\ wire' = Tail(wire)
    /\ IF hasUpdate(Head(wire)) THEN Show(Head(wire)) /\ Announce(Head(wire))
       ELSE UNCHANGED <<state, astray, notices>>
    /\ UNCHANGED <<manager, pending, checking, calls>>

Arrive ==
    /\ wire # <<>>
    /\ wire' = Tail(wire)
    /\ Show(Head(wire))
    /\ Announce(Head(wire))
    /\ UNCHANGED <<manager, pending, checking, calls>>

(* The first read.  One that fails leaves the state unknown. *)
ReadReply(c) ==
    /\ c.kind = "read" /\ c.at \in {"answered", "failed"}
    /\ calls' = calls \ {c}
    /\ IF c.at = "answered" THEN Show(c.answer) /\ Announce(c.answer)
       ELSE UNCHANGED <<state, astray, notices>>
    /\ UNCHANGED <<go, checking>>

openDialog == standing' = 0 /\ UNCHANGED replaced

(* The palette's button, which works while a check is out too. *)
PressCheck ==
    /\ Call("check", 0)
    /\ checking' = TRUE
    /\ UNCHANGED <<go, state, notices, astray>>

(* check: a release found opens the dialog in place of an announcement. *)
CheckReply(c) ==
    /\ c.kind = "check" /\ c.at = "answered"
    /\ calls' = calls \ {c}
    /\ checking' = FALSE
    /\ Show(c.answer)
    /\ IF hasUpdate(c.answer) THEN openDialog /\ announced' = c.answer.latest
       ELSE Announce(c.answer)
    /\ UNCHANGED go

CheckFailed(c) ==
    /\ c.kind = "check" /\ c.at = "failed"
    /\ calls' = calls \ {c}
    /\ checking' = FALSE
    /\ UNCHANGED <<go, state, notices, astray>>

(* busy: the buttons are off while something is being done or waits to be installed. *)
Idle == state.phase = "rest" /\ ~checking
Offering == hasUpdate(state) /\ Idle

(* skip, shown at once. *)
Skip ==
    /\ Offering
    /\ Call("skip", state.latest)
    /\ state' = [state EXCEPT !.skipped = state.latest]
    /\ Announce(state')
    /\ UNCHANGED <<go, checking, astray>>

SkipReply(c) ==
    /\ c.kind = "skip" /\ c.at \in {"answered", "failed"}
    /\ calls' = calls \ {c}
    /\ UNCHANGED <<go, state, checking, notices, astray>>

--------------------------------------------------------------------------------
(* The buttons.  Downloads and installs change nothing in the window but by events. *)

(* The announcement's own opens the dialog or asks Go to install, the title bar's opens
   the dialog; either takes the announcement down. *)
PressUpdate ==
    /\ hasUpdate(state) /\ standing # 0
    /\ openDialog
    /\ UNCHANGED <<go, state, checking, announced, calls, astray>>

(* The user closes a toast that is not named any more, or presses its button: that opens
   the dialog, which takes the toast named down, or asks Go to install. *)
CloseReplaced ==
    /\ \E v \in replaced : replaced' = replaced \ {v}
    /\ standing' \in {standing, 0}
    /\ UNCHANGED <<go, state, checking, announced, calls, astray>>

(* A pending release is opened; with none the same button looks for one. *)
TitleBar == PressUpdate \/ (~hasUpdate(state) /\ PressCheck)

(* The card skips what it offers, and looks for more or again. *)
UpdateCard == Skip \/ (Idle /\ PressCheck)

--------------------------------------------------------------------------------
(* The window opens on a manager that has restored what it remembers. *)
Init ==
    /\ manager \in State /\ manager.no = 0
    /\ manager.phase = (IF manager.latest = 0 THEN "rest" ELSE "busy")
    /\ pending = {} /\ wire = <<>>
    /\ state = Unknown /\ checking = FALSE
    /\ announced = 0 /\ standing = 0 /\ replaced = {}
    /\ calls = {[no |-> 1, kind |-> "read", v |-> 0, at |-> "sent", answer |-> Unknown]}
    /\ astray = FALSE

Next ==
    \/ \E phase \in Phases, latest \in 0..MaxVersion : Moves(phase, latest)
    \/ Pump \/ Arrive
    \/ \E c \in calls : Serve(c) \/ ReadReply(c) \/ CheckReply(c) \/ CheckFailed(c) \/ SkipReply(c)
    \/ PressCheck \/ TitleBar \/ UpdateCard \/ CloseReplaced

Spec == Init /\ [][Next]_vars

--------------------------------------------------------------------------------
(* Properties. *)

(* The type of every variable. *)
TypeOK ==
    /\ manager \in State /\ state \in State /\ pending \subseteq State
    /\ \A i \in 1..Len(wire) : wire[i] \in State
    /\ {checking, astray} \subseteq BOOLEAN
    /\ announced \in 0..MaxVersion /\ standing \in 0..MaxVersion
    /\ replaced \subseteq 1..MaxVersion
    /\ calls \subseteq [no : 1..MaxCalls, kind : {"read", "check", "skip"}, v : 0..MaxVersion,
                        at : {"sent", "running", "answered", "failed"}, answer : State]

(* With every event and answer in, the window shows what Go last published, although
   states are skipped, checks answered beside the events and skips shown before Go has
   them - unless a call failed, or an answer replaced what a newer event had brought
   ("Go owns the state machine; this reads what it publishes"). *)
StateIsGos == wire = <<>> /\ pending = {} /\ calls = {} /\ ~astray => state = manager

(* The announcement the window keeps track of is about the release it offers: it is
   down once the release is skipped or gone, and another has taken its place once it is
   overtaken.  That says nothing of a toast whose place was taken: see NoToastOutlives. *)
StandingIsOffered == standing # 0 => hasUpdate(state) /\ standing = state.latest

(* What the comment at useUpdater.ts:154 says of every announcement on the screen:
   "Taken, skipped or overtaken: whatever the answer was, the standing toast has stopped
   being true and must not outlive it."  It does not hold: announce overwrites
   announcement.current, after which nothing in the window takes the old toast down. *)
NoToastOutlives ==
    \A v \in replaced \cup ({standing} \ {0}) : hasUpdate(state) /\ v = state.latest

(* A release on offer has been put in front of the user, by an announcement or by the
   dialog a check opened, whichever of event, answer and skip came first ("because any
   of them can be the first to carry a release"). *)
OfferWasAnnounced == hasUpdate(state) => announced = state.latest

(* The title bar's spinner has a check behind it that will take it away. *)
CheckingHasCall == checking => \E c \in calls : c.kind = "check"
================================================================================
