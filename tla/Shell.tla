---------------------------------- MODULE Shell ----------------------------------
(* The window's tabs and the session it stores of them (frontend/src/design/DesignApp.tsx,
   design/data/session.ts), over the list of profiles it reads
   (frontend/src/hooks/useConnectionProfiles.ts).

   A tab is one connection's.  What the calls on connections do, but for the tab they
   drop and the list they read again, is Profiles's; a tab's page, the view in front
   and the sidebar are left out. *)
EXTENDS Naturals, Sequences, SequencesExt

CONSTANTS
    Connections,  \* the profiles there may be
    MaxCalls,     \* bound: calls of the window under way at once
    NoTab

Slots == 1..MaxCalls

VARIABLES
    profiles,     \* the profiles Go has
    list,         \* the profiles the window has read
    seen,         \* a list was read (for the properties)
    loading, loadFailed,
    calls,        \* slot -> a call of the window that ends with a read of the list
    tabs, active,
    restored,     \* the stored session was taken up
    session       \* the tabs stored

listVars == <<list, seen, loading, loadFailed>>
tabVars == <<tabs, active, restored, session>>
vars == <<profiles, listVars, calls, tabVars>>

(* A call: working in Go, then reading the list, then with the list it read. *)
Rest == [op |-> "none", of |-> NoTab, at |-> "rest", snap |-> {}]
Sent(op, c) == [Rest EXCEPT !.op = op, !.of = c, !.at = "sent"]
Mount == [Rest EXCEPT !.op = "mount", !.at = "reading"]

First(keys) == IF keys = <<>> THEN NoTab ELSE Head(keys)

(* keys.filter: those of the keys that are kept, in their order (SelectSeq, by the rank
   each has among them). *)
Kept(keys, those) ==
    LET places == {i \in DOMAIN keys : keys[i] \in those}
        Rank(i) == Cardinality({j \in places : j <= i})
    IN [n \in 1..Cardinality(places) |-> keys[CHOOSE i \in places : Rank(i) = n]]
Without(keys, c) == Kept(keys, ToSet(keys) \ {c})

--------------------------------------------------------------------------------
(* Tabs. *)

(* The session is written after every change, once it has been restored. *)
Remember == session' = IF restored' THEN [tabs |-> tabs', active |-> active'] ELSE session

(* A row of the list, a tab of the strip, the palette, or the tray's menu, which knows
   Go's profiles and may name one before the list is here. *)
OpenTab(c) ==
    /\ c \in list \cup profiles
    /\ tabs' = IF c \in ToSet(tabs) THEN tabs ELSE Append(tabs, c)
    /\ active' = c
    /\ UNCHANGED <<profiles, listVars, calls, restored>>
    /\ Remember

CloseTab(c) ==
    /\ c \in ToSet(tabs) /\ c \in list
    /\ tabs' = Without(tabs, c)
    /\ active' = IF active = c THEN First(tabs') ELSE active
    /\ UNCHANGED <<profiles, listVars, calls, restored>>
    /\ Remember

Shown == [tabs |-> tabs, active |-> active]

(* dropTabs: a connection that is closed or gone loses its tab. *)
Dropped(c) ==
    [tabs |-> Without(tabs, c), active |-> IF active = c THEN NoTab ELSE active]

(* The stored session narrowed to the profiles that loaded; one that names none of
   them opens nothing. *)
RestoreSession(now) ==
    LET kept == Kept(session.tabs, list')
    IN IF kept = <<>> THEN now
       ELSE [tabs |-> kept,
             active |-> IF session.active \in ToSet(kept) THEN session.active ELSE Head(kept)]

Show(now) == tabs' = now.tabs /\ active' = now.active

(* Mutant: a list that could not be read is taken for an empty one. *)
RestoreAlways(now) ==
    IF loading' \/ restored THEN Show(now) /\ UNCHANGED restored /\ Remember
    ELSE restored' = TRUE /\ Show(RestoreSession(now)) /\ Remember

(* The effect that runs when the list or its state changed: once, on a list that was
   read. *)
Restore(now) ==
    IF loading' \/ loadFailed' \/ restored THEN Show(now) /\ UNCHANGED restored /\ Remember
    ELSE restored' = TRUE /\ Show(RestoreSession(now)) /\ Remember

--------------------------------------------------------------------------------
(* Calls on connections. *)

(* Disconnecting or deleting a row of the list, or a call that changes which profiles
   there are: a new connection or an import. *)
Begin(s, op, c) ==
    /\ calls[s] = Rest /\ \A t \in 1..(s - 1) : calls[t] # Rest
    /\ IF op = "change" THEN c = NoTab ELSE c \in list
    /\ calls' = [calls EXCEPT ![s] = Sent(op, c)]
    /\ UNCHANGED <<profiles, listVars, tabVars>>

(* Go worked; what it refuses changes nothing here. *)
Work(s) ==
    /\ calls[s].at = "sent"
    /\ profiles' \in CASE calls[s].op = "delete" -> {profiles \ {calls[s].of}}
                       [] calls[s].op = "change" -> SUBSET Connections
                       [] OTHER -> {profiles}
    /\ calls' = [calls EXCEPT ![s].at = "reading"]
    /\ UNCHANGED <<listVars, tabVars>>

Refuse(s) ==
    /\ calls[s].at = "sent"
    /\ calls' = [calls EXCEPT ![s] = Rest]
    /\ UNCHANGED <<profiles, listVars, tabVars>>

ReadList(s) ==
    /\ calls[s].at = "reading"
    /\ calls' = [calls EXCEPT ![s].at = "read", ![s].snap = profiles]
    /\ UNCHANGED <<profiles, listVars, tabVars>>

(* The list comes: a disconnected or deleted connection loses its tab. *)
ListArrives(s) ==
    /\ calls[s].at = "read"
    /\ list' = calls[s].snap
    /\ seen' = TRUE
    /\ loading' = (loading /\ calls[s].op # "mount")
    /\ loadFailed' = (loadFailed /\ calls[s].op = "mount")
    /\ calls' = [calls EXCEPT ![s] = Rest]
    /\ UNCHANGED profiles
    /\ Restore(IF calls[s].op \in {"disconnect", "delete"} THEN Dropped(calls[s].of) ELSE Shown)

(* It cannot be read: a deleted connection's tab stays, its call has failed. *)
ListFails(s) ==
    /\ calls[s].at \in {"reading", "read"}
    /\ loading' = (loading /\ calls[s].op # "mount")
    /\ loadFailed' = (loadFailed \/ calls[s].op = "mount")
    /\ calls' = [calls EXCEPT ![s] = Rest]
    /\ UNCHANGED <<profiles, list, seen>>
    /\ Restore(IF calls[s].op = "disconnect" THEN Dropped(calls[s].of) ELSE Shown)

--------------------------------------------------------------------------------
(* The window opens on the session an earlier one stored, whose profiles may be gone. *)
Init ==
    /\ profiles \in SUBSET Connections
    /\ list = {} /\ seen = FALSE /\ loading = TRUE /\ loadFailed = FALSE
    /\ calls = [s \in Slots |-> IF s = 1 THEN Mount ELSE Rest]
    /\ tabs = <<>> /\ active = NoTab /\ restored = FALSE
    /\ \E kept \in UNION {SetToSeqs(S) : S \in SUBSET Connections} :
          session = [tabs |-> kept, active |-> First(kept)]

Next ==
    \/ \E c \in Connections : OpenTab(c) \/ CloseTab(c)
    \/ \E s \in Slots :
          \/ Begin(s, "change", NoTab)
          \/ \E c \in Connections, op \in {"disconnect", "delete"} : Begin(s, op, c)
          \/ Work(s) \/ Refuse(s) \/ ReadList(s) \/ ListArrives(s) \/ ListFails(s)

Spec == Init /\ [][Next]_vars

--------------------------------------------------------------------------------
(* Properties. *)

TypeOK ==
    /\ profiles \subseteq Connections /\ list \subseteq Connections
    /\ \A s \in Slots : calls[s].at \in {"rest", "sent", "reading", "read"}
    /\ ToSet(tabs) \subseteq Connections /\ ToSet(session.tabs) \subseteq Connections
    /\ {seen, loading, loadFailed, restored} \subseteq BOOLEAN

(* A list that could not be read costs no stored tab: one leaves the session only from
   a window that has it open, or because its profile is not in a list that was read. *)
StoredTabKept ==
    [][\A c \in ToSet(session.tabs) \ ToSet(session'.tabs) :
          c \in ToSet(tabs) \/ (seen' /\ c \notin list')]_session

(* The tab in front is an open one, whatever closed the others in between; no tab is
   open twice. *)
FrontIsOpen ==
    /\ active # NoTab => active \in ToSet(tabs)
    /\ IsInjective(tabs)
================================================================================
