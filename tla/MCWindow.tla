-------------------------------- MODULE MCWindow --------------------------------
(* The window around its pages, for TLC: the connection list, the tabs with the stored
   session, the dialog that edits a connection, the settings, and the assistant's dock.
   They meet only through Go, so a behaviour of this instance runs one of them and
   leaves the others where they start. *)
EXTENDS Integers, FiniteSets

CONSTANTS MaxCalls,                                           \* calls of a part
          MaxID, MaxChanges, MaxManyChanges,                  \* connection list
          Tabs, NoTab,                                        \* tabs
          MaxEdits, MaxProbes, MaxSaves, MaxWrites, Followed, \* connection form
          Keys, MaxMade, MaxReads,                            \* settings
          Sessions, MaxSeq                                    \* dock

ASSUME DockAssumption == MaxSeq \in Nat \ {0} /\ MaxCalls \in Nat \ {0}

ASSUME TabsAssumption == IsFiniteSet(Tabs)
ASSUME FormAssumption == MaxEdits \in Nat
ASSUME ListAssumption == MaxID \in Nat \ {0}
ASSUME SettingsAssumption == MaxMade \in Nat \ {0} /\ MaxReads \in Nat \ {0}

VARIABLES part,
          go, nextID, version, elsewhere, list, listShown, missed, pending, listCalls, bulk,
          profiles, tabList, tabSeen, loading, loadFailed, tabCalls, tabs, active, restored,
          session,
          stored, listed, form, probes, saves, writes,
          kept, shown, made, due, chain, lastOk, reset, keys, tray, reads, events, failed,
          crossed,
          held, seq, flight, dock, reading, dockCalls, lost, passed

List == INSTANCE Profiles WITH shown <- listShown, calls <- listCalls
Shell == INSTANCE Shell WITH Connections <- Tabs, list <- tabList, seen <- tabSeen,
                             calls <- tabCalls
Form == INSTANCE ConnectionForm WITH dialog <- form
Settings == INSTANCE WindowSettings WITH go <- kept, pending <- due
Dock == INSTANCE Dock WITH calls <- dockCalls, crossed <- passed

ASSUME FollowedAssumption == Followed \subseteq Form!Protocols

listVars == <<go, nextID, version, elsewhere, list, listShown, missed, pending, listCalls, bulk>>
shellVars == <<profiles, tabList, tabSeen, loading, loadFailed, tabCalls, tabs, active,
               restored, session>>
formVars == <<stored, listed, form, probes, saves, writes>>
settingsVars == <<kept, shown, made, due, chain, lastOk, reset, keys, tray, reads, events,
                  failed, crossed>>
dockVars == <<held, seq, flight, dock, reading, dockCalls, lost, passed>>
vars == <<part, listVars, shellVars, formVars, settingsVars, dockVars>>

(* The parts that rest start in one state. *)
Init ==
    /\ part \in {"list", "shell", "form", "settings", "dock"}
    /\ List!Init /\ (part # "list" => nextID = 1)
    /\ Shell!Init /\ (part # "shell" => profiles = {} /\ session.tabs = <<>>)
    /\ Form!Init /\ (part # "form" => stored = {})
    /\ Settings!Init
    /\ Dock!Init /\ (part # "dock" => held = {})

OnlyList == part = "list" /\ UNCHANGED <<part, shellVars, formVars, settingsVars, dockVars>>
OnlyShell == part = "shell" /\ UNCHANGED <<part, listVars, formVars, settingsVars, dockVars>>
OnlyForm == part = "form" /\ UNCHANGED <<part, listVars, shellVars, settingsVars, dockVars>>
OnlySettings == part = "settings" /\ UNCHANGED <<part, listVars, shellVars, formVars, dockVars>>
OnlyDock == part = "dock" /\ UNCHANGED <<part, listVars, shellVars, formVars, settingsVars>>

(* Bound: while there is more than one profile or an action over several rows Go changes
   MaxManyChanges times, for the window's calls only; with one profile alone it changes
   MaxChanges times, for any reason. *)
Alone == bulk = List!NoBulk /\ \A id \in List!Ids \ {1} : go[id] = "absent" /\ list[id] = "absent"
ListBound == (version' <= MaxManyChanges /\ elsewhere' = -1) \/ Alone'

Next ==
    \/ OnlyList /\ List!Next /\ ListBound
    \/ OnlyShell /\ Shell!Next
    \/ OnlyForm /\ Form!Next
    \/ OnlySettings /\ Settings!Next
    \/ OnlyDock /\ Dock!Next

Spec == Init /\ [][Next]_vars

(* What the window says is under way is: a row, a test button or a dock that waits has
   the call it waits for, rows are worked on one at a time, and the tab in front is
   open.  The state of each part has its shape. *)
WindowConsistent ==
    /\ part = "list" => List!TypeOK /\ List!PendingHasCall /\ List!OneRowAtATime
    /\ part = "shell" => Shell!TypeOK /\ Shell!FrontIsOpen
    /\ part = "form" => Form!TypeOK /\ Form!ProbingHasProbe
    /\ part = "settings" => Settings!TypeOK
    /\ part = "dock" => Dock!TypeOK /\ Dock!ReadingHasCall

(* With no call under way the list shows what Go has, unless a reading of it was missed
   or Go has changed for another reason since the one shown. *)
ListIsFresh == part = "list" => List!ListIsFresh

(* A stored tab whose connection exists survives the start of the window. *)
StoredTabKept == Shell!StoredTabKept

(* A verdict on screen is about what saving the form would store. *)
VerdictIsOfTheForm == part = "form" => Form!VerdictIsOfTheForm

(* Saving a stored profile untouched stores what was there, and an anonymous connection
   keeps no secret, but in the five families that keep every blank (mqtt, nats, activemq,
   ibmmq, solace). *)
SecretsFollowTheForm == part = "form" => Form!UntouchedEditKeeps /\ Form!AnonymousHasNoSecret

(* At rest the window shows the settings Go stores. *)
ShownIsStored == part = "settings" => Settings!ShownIsStored

(* A save that was due when the reset was pressed reaches Go before the reset. *)
ResetIsAfterSaves == part = "settings" => Settings!ResetIsAfterSaves

(* The dock shows a conversation with nothing missing up to its number, and at rest it
   is where Go is, unless something was lost or crossed. *)
DockIsTrue == part = "dock" => Dock!ShownIsWhole /\ Dock!BehindIsNoticed
=================================================================================
