-------------------------------- MODULE Profiles --------------------------------
(* The list of connections the window shows and the calls it makes on them
   (frontend/src/hooks/useConnectionProfiles.ts, the handlers of design/DesignApp.tsx
   and the rows of boards/connections/ConnectionsList.tsx), and the action over several
   of them (boards/connections/useConnectionBulk.tsx).

   Go answers one call at a time; its answers and the reads of the list that follow
   each of them arrive in any order.  What else changes Go's profiles is no call of this
   list, and no reading of it follows: the settings page saves, clears and resets the
   global credentials, which closes every client, and imports a configuration.  Latencies and the texts of errors are left out,
   and so is the default profile: a delete may be refused, and the order of an action
   over several rows, the list's with the default last, is left open.  The window's tabs
   are Shell's.  Handlers read the newest state, as the refs they go through do. *)
EXTENDS Integers, FiniteSets

CONSTANTS
    MaxID,       \* bound: ids Go may give
    MaxCalls,    \* bound: calls of the window under way at once
    MaxChanges   \* bound: changes in Go

Ids == 1..MaxID
Slots == 1..MaxCalls
NoId == 0

Statuses == {"absent", "offline", "online"}
Dials == {"connect", "scope", "test", "disconnect"}
RowCalls == Dials \cup {"delete", "default", "update"}
Label(op) ==
    CASE op \in {"connect", "scope"} -> "connecting"
      [] op = "test" -> "testing"
      [] op = "disconnect" -> "disconnecting"
      [] OTHER -> "idle"

VARIABLES
    go,          \* Go's profiles: id -> status
    nextID,      \* the id the next profile gets
    version,     \* changes Go has made (for the properties)
    elsewhere,   \* the version of its latest change for another reason, -1 for none
    list,        \* the profiles shown
    shown,       \* the version they are of, -1 when none was read
    missed,      \* the list may differ from Go's until it is read again
    pending,     \* id -> what its row says is under way
    calls,       \* slot -> a call of the window
    bulk         \* the action over several rows

goVars == <<go, nextID, version, elsewhere>>
listVars == <<list, shown, missed>>
vars == <<goVars, listVars, pending, calls, bulk>>

(* A call: Go works on it ("sent"), has answered it ("answered"), the list is being
   read after it ("reading"), or read but not shown yet ("read"). *)
Rest == [op |-> "none", id |-> NoId, by |-> "row", at |-> "rest", ok |-> FALSE,
         snap |-> [id \in Ids |-> "absent"], of |-> -1]
Sent(op, id, by) == [Rest EXCEPT !.op = op, !.id = id, !.by = by, !.at = "sent"]
(* Reading the list: whose call it was no longer matters, but for a profile just
   created. *)
Reading(call) ==
    [Rest EXCEPT !.op = IF call.op = "create" THEN "create" ELSE "load",
                 !.id = IF call.op = "create" THEN call.id ELSE NoId,
                 !.by = call.by, !.at = "reading"]
Mount == Reading(Rest)

NoBulk == [at |-> "off", action |-> "none", queue |-> {}, stop |-> FALSE]

Known(id) == list[id] # "absent"
Queued(id) == bulk.at = "running" /\ id \in bulk.queue

--------------------------------------------------------------------------------
(* What a call does in Go, and whether Go says it worked: [ok, status of its id].
   A save that fails after a dial is reported although the status changed. *)
Result(worked, status) == [ok |-> worked, status |-> status]

Outcomes(op, status) ==
    IF op = "create" THEN {Result(TRUE, "offline"), Result(FALSE, "absent")}
    ELSE IF status = "absent" THEN {Result(FALSE, "absent")}
    ELSE
    CASE op = "connect" -> {Result(TRUE, "online"), Result(FALSE, "online"), Result(FALSE, status)}
      [] op = "disconnect" -> {Result(TRUE, "offline"), Result(FALSE, "offline")}
      [] op = "delete" -> {Result(TRUE, "absent"), Result(FALSE, status)}
      [] op \in {"scope", "update"} ->
            {Result(TRUE, status), Result(FALSE, status)}
                \cup (IF status = "online" THEN {Result(FALSE, "offline")} ELSE {})
      [] OTHER -> {Result(TRUE, status), Result(FALSE, status)}

Answer(s) ==
    /\ calls[s].at = "sent"
    /\ LET call == calls[s]
           id == IF call.op = "create" THEN nextID ELSE call.id
       IN \E r \in Outcomes(call.op, IF call.op = "create" THEN "absent" ELSE go[id]) :
             /\ call.op = "create" /\ r.ok => nextID <= MaxID
             /\ go' = IF r.ok \/ call.op # "create" THEN [go EXCEPT ![id] = r.status] ELSE go
             /\ nextID' = IF call.op = "create" /\ r.ok THEN nextID + 1 ELSE nextID
             /\ version' = IF go' = go THEN version ELSE version + 1
             /\ version' <= MaxChanges
             /\ calls' = [calls EXCEPT ![s].at = "answered", ![s].ok = r.ok, ![s].id = id]
    /\ UNCHANGED <<elsewhere, listVars, pending, bulk>>

(* Global credentials are saved, cleared or reset, or a configuration is imported: Go
   reads or is given its profiles anew, closes every client and opens at most the
   default's.  The settings page reads its settings again; nothing reads the list. *)
Elsewhere ==
    /\ version < MaxChanges
    /\ \E next \in [Ids -> Statuses], above \in 1..MaxID + 1 :
          /\ next # go /\ \A a, b \in Ids : next[a] = "online" /\ next[b] = "online" => a = b
          /\ \A id \in Ids : next[id] # "absent" => id < above
          /\ above > 1 => next[above - 1] # "absent"
          /\ go' = next /\ nextID' = above
    /\ version' = version + 1 /\ elsewhere' = version'
    /\ UNCHANGED <<listVars, pending, calls, bulk>>

(* getConnections, answered by Go. *)
ReadList(s) ==
    /\ calls[s].at = "reading"
    /\ calls' = [calls EXCEPT ![s].at = "read", ![s].snap = go, ![s].of = version]
    /\ UNCHANGED <<goVars, listVars, pending, bulk>>

--------------------------------------------------------------------------------
(* Calls. *)

Begin(s, op, id, by) ==
    /\ calls[s].at = "rest" /\ \A t \in 1..(s - 1) : calls[t].at # "rest"
    /\ calls' = [calls EXCEPT ![s] = Sent(op, id, by)]
    /\ pending' = IF op \in Dials THEN [pending EXCEPT ![id] = Label(op)] ELSE pending

(* What a row offers: its button, its menu, and the switcher of the tab in front. *)
Offered(op, id) ==
    /\ Known(id)
    /\ op = "connect" => list[id] = "offline" /\ pending[id] = "idle" /\ ~Queued(id)
    /\ op = "disconnect" => list[id] = "online"
    /\ op = "scope" => list[id] = "online" /\ pending[id] # "connecting"

RowCall(s, op, id) ==
    /\ Begin(s, op, id, "row")
    /\ Offered(op, id)
    /\ UNCHANGED <<goVars, listVars, bulk>>

(* Opening a tab from the list connects what is not online. *)
OpenConnectionTab(s, id) ==
    /\ Begin(s, "connect", id, "row")
    /\ list[id] = "offline" /\ pending[id] = "idle"
    /\ UNCHANGED <<goVars, listVars, bulk>>

Create(s) ==
    /\ nextID <= MaxID
    /\ Begin(s, "create", NoId, "row")
    /\ UNCHANGED <<goVars, listVars, bulk>>

(* Mutant: the row is released only when the call worked. *)
ContinueIfOk(s) ==
    /\ calls[s].at = "answered"
    /\ LET call == calls[s]
           reads == call.ok \/ call.op \in Dials
       IN /\ calls' = [calls EXCEPT ![s] = IF reads THEN Reading(call) ELSE Rest]
          /\ pending' = IF call.op \in Dials /\ call.ok
                        THEN [pending EXCEPT ![call.id] = "idle"] ELSE pending
          /\ missed' = (missed \/ (~reads /\ call.op = "update"))
    /\ UNCHANGED <<goVars, list, shown, bulk>>

(* Mutant: the list is read again only when the call worked. *)
ContinueReadingIfOk(s) ==
    /\ calls[s].at = "answered"
    /\ LET call == calls[s]
           reads == call.ok \/ call.op \in Dials
       IN /\ calls' = [calls EXCEPT ![s] =
                          IF reads /\ call.ok THEN Reading(call) ELSE Rest]
          /\ pending' = IF call.op \in Dials THEN [pending EXCEPT ![call.id] = "idle"] ELSE pending
          /\ missed' = (missed \/ (~reads /\ call.op = "update"))
    /\ UNCHANGED <<goVars, list, shown, bulk>>

(* The answer arrives: a dial clears its row whatever came of it and reads the list;
   another call that failed goes no further. *)
Continue(s) ==
    /\ calls[s].at = "answered"
    /\ LET call == calls[s]
           reads == call.ok \/ call.op \in Dials
       IN /\ calls' = [calls EXCEPT ![s] = IF reads THEN Reading(call) ELSE Rest]
          /\ pending' = IF call.op \in Dials THEN [pending EXCEPT ![call.id] = "idle"] ELSE pending
          /\ missed' = (missed \/ (~reads /\ call.op = "update"))
    /\ UNCHANGED <<goVars, list, shown, bulk>>

(* The call is over once the list has come, or could not be read; a profile that was
   created is dialled if the list came. *)
Finish(s, loaded) ==
    LET call == calls[s]
        dials == call.op = "create" /\ loaded
    IN /\ calls' = [calls EXCEPT ![s] = IF dials THEN Sent("connect", call.id, "row") ELSE Rest]
       /\ pending' = IF dials THEN [pending EXCEPT ![call.id] = "connecting"] ELSE pending

ListArrives(s) ==
    /\ calls[s].at = "read"
    /\ list' = calls[s].snap
    /\ shown' = calls[s].of
    /\ missed' = (calls[s].of # version /\ (missed \/ calls[s].of < shown))
    /\ Finish(s, TRUE)
    /\ UNCHANGED <<goVars, bulk>>

ListFails(s) ==
    /\ calls[s].at \in {"reading", "read"}
    /\ missed' = TRUE
    /\ Finish(s, FALSE)
    /\ UNCHANGED <<goVars, list, shown, bulk>>

--------------------------------------------------------------------------------
(* The action over several rows, one at a time. *)

BulkActions == {"connect", "disconnect", "test", "delete"}

Reached(action, id) ==
    /\ Known(id)
    /\ \/ action = "delete"
       \/ pending[id] = "idle" /\ (action = "connect" => list[id] = "offline")
                               /\ (action = "disconnect" => list[id] = "online")

StartBulk(action, selection) ==
    /\ bulk.at = "off"
    /\ LET queue == {id \in selection : Reached(action, id)}
       IN /\ queue # {}
          /\ bulk' = [at |-> IF action = "delete" THEN "asking" ELSE "running",
                      action |-> action, queue |-> queue, stop |-> FALSE]
    /\ UNCHANGED <<goVars, listVars, pending, calls>>

AnswerBulk(yes) ==
    /\ bulk.at = "asking"
    /\ bulk' = IF yes THEN [bulk EXCEPT !.at = "running"] ELSE NoBulk
    /\ UNCHANGED <<goVars, listVars, pending, calls>>

StopBulk ==
    /\ bulk.at = "running"
    /\ bulk' = [bulk EXCEPT !.stop = TRUE]
    /\ UNCHANGED <<goVars, listVars, pending, calls>>

BulkWaits == \E s \in Slots : calls[s].by = "bulk"

(* The loop's next turn: a row that is gone, or busy by now, is passed over. *)
BulkStep(s) ==
    /\ bulk.at = "running" /\ ~BulkWaits
    /\ IF bulk.stop \/ bulk.queue = {}
       THEN bulk' = NoBulk /\ UNCHANGED <<calls, pending>>
       ELSE \E id \in bulk.queue :
               /\ bulk' = [bulk EXCEPT !.queue = @ \ {id}]
               /\ IF Reached(bulk.action, id) THEN Begin(s, bulk.action, id, "bulk")
                                              ELSE UNCHANGED <<calls, pending>>
    /\ UNCHANGED <<goVars, listVars>>

--------------------------------------------------------------------------------
(* The program starts, with the profiles Go stored, none of them open, and the id above
   all of them for the next one. *)
Init ==
    /\ go \in [Ids -> {"absent", "offline"}]
    /\ nextID \in 1..MaxID + 1
    /\ \A id \in Ids : go[id] # "absent" => id < nextID
    /\ nextID > 1 => go[nextID - 1] # "absent"
    /\ version = 0 /\ elsewhere = -1
    /\ list = [id \in Ids |-> "absent"] /\ shown = -1 /\ missed = FALSE
    /\ pending = [id \in Ids |-> "idle"]
    /\ calls = [s \in Slots |-> IF s = 1 THEN Mount ELSE Rest]
    /\ bulk = NoBulk

Next ==
    \/ \E s \in Slots :
          \/ Answer(s) \/ ReadList(s) \/ Continue(s) \/ ListArrives(s) \/ ListFails(s)
          \/ Create(s) \/ BulkStep(s)
          \/ \E id \in Ids : OpenConnectionTab(s, id) \/ \E op \in RowCalls : RowCall(s, op, id)
    \/ \E action \in BulkActions, selection \in SUBSET Ids : StartBulk(action, selection)
    \/ \E yes \in BOOLEAN : AnswerBulk(yes)
    \/ StopBulk
    \/ Elsewhere

Spec == Init /\ [][Next]_vars

--------------------------------------------------------------------------------
(* Properties. *)

Busy == {s \in Slots : calls[s].at # "rest"}

TypeOK ==
    /\ go \in [Ids -> Statuses] /\ list \in [Ids -> Statuses]
    /\ pending \in [Ids -> {"idle", "connecting", "testing", "disconnecting"}]
    /\ \A s \in Slots : calls[s].at \in {"rest", "sent", "answered", "reading", "read"}
    /\ bulk.at \in {"off", "asking", "running"}

(* A row that says it is connecting, testing or disconnecting has a dial of its own
   under way: none is left turning by a failed dial, by another operation on the row
   or by a bulk action that was stopped. *)
PendingHasCall ==
    \A id \in Ids : pending[id] # "idle" =>
        \E s \in Slots : calls[s].id = id /\ calls[s].op \in Dials
                         /\ calls[s].at \in {"sent", "answered"}

(* Whatever the window's own calls did, and in whatever order their answers and readings
   came, the list is Go's once every call has returned.  Three things leave it behind
   (missed) until a newer reading is shown: a reading that failed, one that came in
   behind a later one, and an edit stored but reported as failed.  So does a change Go
   made for another reason, which nothing reads: the list is held to Go again by the
   first reading begun after it. *)
ListIsFresh == Busy = {} /\ ~missed /\ elsewhere <= shown => list = go

(* The action over several rows works on one row at a time. *)
OneRowAtATime ==
    Cardinality({s \in Slots : calls[s].by = "bulk"}) <= (IF bulk.at = "running" THEN 1 ELSE 0)
================================================================================
