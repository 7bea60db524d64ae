------------------------------ MODULE Connections ------------------------------
(***************************************************************************)
(* The connection service of the window process                            *)
(* (internal/service/connection), with the client registry it drives       *)
(* (internal/driver/registry.go, internal/app/runtime.go) and the profile  *)
(* file it saves.                                                          *)
(*                                                                         *)
(* The service has two locks.  runtimeMu is held by the one operation that *)
(* dials or closes clients; it is the variable op, the step that holder    *)
(* has reached.  mu guards the profiles and is released around every dial; *)
(* a critical section of mu is one action here.  AddConnection and         *)
(* SetDefaultConnection take mu alone, so they run between any two steps   *)
(* of a runtimeMu holder.                                                  *)
(*                                                                         *)
(* A profile's data is cut down to what a dial tells apart: addr stands    *)
(* for kind, endpoints, timeout and the credentials that are not the ACL   *)
(* key pair, opt for the options map, mech for the mechanism with its key  *)
(* pair ("own" is any mechanism but none and ACL).  Labels and the check   *)
(* time are left out.  A write of the file either replaces it whole or     *)
(* leaves it alone (atomicfile.Write), a missing file reads as an empty    *)
(* one, and any read of it may fail (unreadable, no JSON, a secret that    *)
(* does not decrypt).                                                      *)
(*                                                                         *)
(* A document is the list of records a file or an import holds: a function *)
(* from positions to records, in the order of the positions.  A list       *)
(* sorted by id has every record at the position of its id.  Id 0 stands   *)
(* for every id that is not positive.                                      *)
(***************************************************************************)
EXTENDS Integers

CONSTANTS Addresses,  \* what addr ranges over
          Options,    \* what opt ranges over
          Mechanisms, \* the mechanisms in use
          MaxID,      \* bound: AddConnection is not called once nextID passes it, and
                      \* a document that needs higher ids is not loaded
          NoDial      \* no resolved profile

ASSUME MaxIDAssumption == MaxID \in Nat
ASSUME MechanismsAssumption ==
    "none" \in Mechanisms /\ Mechanisms \subseteq {"none", "acl", "own"}

VARIABLES conns,           \* s.connections: id -> profile in memory
          nextID,          \* s.nextID
          file,            \* connections.json: a document
          unread,          \* this launch could not read the file, and has neither read
                           \* nor written it since
          client,          \* registry.conns: id -> the profile as it was dialled
          activeID,        \* registry.activeID
          reconnectReload, \* s.reconnectReload
          op,              \* the holder of runtimeMu
          globalKeys       \* settings: whether a global ACL key pair is set

vars == <<conns, nextID, file, unread, client, activeID, reconnectReload, op, globalKeys>>

Ids == 1..MaxID
Params == [addr : Addresses, opt : Options, mech : Mechanisms]
Profile == [par : Params, isDefault : BOOLEAN, online : BOOLEAN]
Record == [id : Ids \cup {0}, par : Params, isDefault : BOOLEAN]
Documents == UNION {[D -> Record] : D \in SUBSET Ids}
Dialled == [par : Params, global : BOOLEAN]

(* Steps of the runtimeMu holder: "redial" has stored new parameters and is
   to close the old client, "dial" is inside runtime.Connect, "mark" has the
   client and is to record it, "unmark" has closed the client and is to
   record that, "restore" is entering restoreRuntimeLocked. *)
Op == [at : {"idle", "redial", "dial", "mark", "unmark", "restore"},
       id : Ids \cup {0}, restoring : BOOLEAN, resolved : Dialled \cup {NoDial}]

Idle == [at |-> "idle", id |-> 0, restoring |-> FALSE, resolved |-> NoDial]
At(step, id) == [Idle EXCEPT !.at = step, !.id = id]

TypeOK ==
    /\ conns \in [DOMAIN conns -> Profile]  /\ DOMAIN conns \subseteq Ids
    /\ file \in Documents
    /\ unread \in BOOLEAN
    /\ client \in [DOMAIN client -> Dialled] /\ DOMAIN client \subseteq Ids
    /\ nextID \in 1..(MaxID + 1)
    /\ activeID \in Ids \cup {0}
    /\ reconnectReload \in BOOLEAN
    /\ globalKeys \in BOOLEAN
    /\ op \in Op

--------------------------------------------------------------------------------
(* Helpers. *)

With(f, k, v) == [x \in DOMAIN f \cup {k} |-> IF x = k THEN v ELSE f[x]]
Without(f, k) == [x \in DOMAIN f \ {k} |-> f[x]]
EmptyMap == [x \in {} |-> NoDial]

(* A map of profiles has one default exactly, unless it is empty. *)
OneDefaultIn(m) ==
    /\ \A i, j \in DOMAIN m : m[i].isDefault /\ m[j].isDefault => i = j
    /\ DOMAIN m # {} => \E i \in DOMAIN m : m[i].isDefault

(* encodeConnectionsForDisk of the sorted copy; the status it also writes is
   ignored by every load. *)
Written(c) ==
    [i \in DOMAIN c |-> [id |-> i, par |-> c[i].par, isDefault |-> c[i].isDefault]]

(* Mutant: the highest id itself. *)
NextAfterHighest(ids, n) ==
    /\ \A i \in ids : i <= n
    /\ n = 1 \/ n \in ids

(* The next id, once the records with these ids are in. *)
NextAfter(ids, n) ==
    /\ \A i \in ids : i < n
    /\ n = 1 \/ (n - 1) \in ids

(* buildConnectionState's loop, the ids: a record keeps the id it has, unless
   that is no id or is taken by an earlier record; then it gets the next one. *)
RepairedIds(doc) ==
    {ids \in [DOMAIN doc -> Ids] : \A k \in DOMAIN doc :
        LET taken == {ids[j] : j \in {j \in DOMAIN doc : j < k}}
        IN \/ doc[k].id \notin taken \cup {0} /\ ids[k] = doc[k].id
           \/ doc[k].id \in taken \cup {0} /\ NextAfter(taken, ids[k])}

(* Mutant: a document's flags are taken as they come. *)
KeepsEveryFlag(doc, ids, k) == doc[k].isDefault

(* buildConnectionState, the default: the first record flagged as it, or the
   lowest id when none is. *)
BecomesDefault(doc, ids, k) ==
    \/ doc[k].isDefault /\ \A j \in DOMAIN doc : doc[j].isDefault => k <= j
    \/ \A j \in DOMAIN doc : ~doc[j].isDefault /\ ids[k] <= ids[j]

(* The profiles buildConnectionState makes of a document: all come up offline. *)
Loaded(doc, ids) ==
    [i \in {ids[k] : k \in DOMAIN doc} |->
        LET k == CHOOSE k \in DOMAIN doc : ids[k] = i
        IN [par |-> doc[k].par, isDefault |-> BecomesDefault(doc, ids, k), online |-> FALSE]]

(* The profiles a document comes to: one map, as there is one way to repair
   it, or none, when that takes ids above the bound MaxID. *)
Loads(doc) == {Loaded(doc, ids) : ids \in RepairedIds(doc)}

Load(doc) ==
    /\ \E m \in Loads(doc) : conns' = m
    /\ \E n \in 1..(MaxID + 1) : NextAfter(DOMAIN conns', n) /\ nextID' = n
    /\ unread' = FALSE

(* resolveForDial: the global key pair fills in a profile that names no mechanism. *)
Resolve(p) == [par |-> p, global |-> globalKeys /\ p.mech = "none"]

(* prepareReplacement's SetACL: ACL stays, everything else becomes anonymous. *)
PreparedMech(mech) == IF mech = "acl" THEN "acl" ELSE "none"
Prepare(m) == [i \in DOMAIN m |-> [m[i] EXCEPT !.par.mech = PreparedMech(@)]]

Dialling(id, restoring) ==
    [at |-> "dial", id |-> id, restoring |-> restoring, resolved |-> Resolve(conns[id].par)]

(* Mutant: closing the active client leaves no active connection. *)
RemoveOnly(id) ==
    /\ client' = Without(client, id)
    /\ activeID' = IF activeID = id THEN 0 ELSE activeID

(* registryRuntime.Remove: close the client; when that leaves no active
   connection, the lowest open id becomes the active one. *)
Remove(id) ==
    /\ client' = Without(client, id)
    /\ \/ activeID \in DOMAIN client' /\ UNCHANGED activeID
       \/ activeID \notin DOMAIN client' /\ DOMAIN client' = {} /\ activeID' = 0
       \/ /\ activeID \notin DOMAIN client'
          /\ \E low \in DOMAIN client' :
                /\ \A i \in DOMAIN client' : low <= i
                /\ activeID' = low

CloseAll == client' = EmptyMap /\ activeID' = 0

(* saveConnectionsLocked as the last thing a critical section does. *)
Save(saved) ==
    /\ file' = IF saved THEN Written(conns') ELSE file
    /\ unread' = (unread /\ ~saved)

--------------------------------------------------------------------------------
(* Operations under mu alone. *)

AddConnection(p, saved) ==
    /\ nextID \in Ids
    /\ conns' = IF saved
                THEN With(conns, nextID, [par |-> p, isDefault |-> DOMAIN conns = {},
                                          online |-> FALSE])
                ELSE conns
    /\ nextID' = IF saved THEN nextID + 1 ELSE nextID
    /\ Save(saved)
    /\ UNCHANGED <<client, activeID, reconnectReload, op, globalKeys>>

(* Mutant: the defaults are not put back when the save fails. *)
SetDefaultNoUndo(id, saved) ==
    /\ id \in DOMAIN conns
    /\ ~conns[id].isDefault
    /\ conns' = [i \in DOMAIN conns |-> [conns[i] EXCEPT !.isDefault = (i = id)]]
    /\ Save(saved)
    /\ UNCHANGED <<nextID, client, activeID, reconnectReload, op, globalKeys>>

SetDefaultConnection(id, saved) ==
    /\ id \in DOMAIN conns
    /\ ~conns[id].isDefault
    /\ conns' = IF saved
                THEN [i \in DOMAIN conns |-> [conns[i] EXCEPT !.isDefault = (i = id)]]
                ELSE conns
    /\ Save(saved)
    /\ UNCHANGED <<nextID, client, activeID, reconnectReload, op, globalKeys>>

--------------------------------------------------------------------------------
(* Operations that hold runtimeMu. *)

Connect(id) ==
    /\ op = Idle
    /\ id \in DOMAIN conns
    /\ op' = Dialling(id, FALSE)
    /\ UNCHANGED <<conns, nextID, file, unread, client, activeID, reconnectReload, globalKeys>>

(* The id is read before runtimeMu is taken; a default that changes in
   between is an ordinary Connect of the old one. *)
ConnectDefault == \E id \in DOMAIN conns : conns[id].isDefault /\ Connect(id)

(* Registry.Open failed: what was open for the id stays open. *)
DialFailed ==
    /\ op.at = "dial"
    /\ op' = Idle
    /\ UNCHANGED <<conns, nextID, file, unread, client, activeID, reconnectReload, globalKeys>>

(* Registry.Open stored the client in place of the previous one, SetActive. *)
DialSucceeded ==
    /\ op.at = "dial"
    /\ client' = With(client, op.id, op.resolved)
    /\ activeID' = op.id
    /\ op' = [op EXCEPT !.at = "mark"]
    /\ UNCHANGED <<conns, nextID, file, unread, reconnectReload, globalKeys>>

(* The tail of connectRuntimeLocked.  A failed save is reported and nothing
   is undone; only a restore that went through clears the reconnect intent. *)
MarkOnline(saved) ==
    /\ op.at = "mark"
    /\ conns' = IF op.id \in DOMAIN conns THEN [conns EXCEPT ![op.id].online = TRUE] ELSE conns
    /\ Save(saved)
    /\ reconnectReload' = IF op.restoring /\ saved THEN FALSE ELSE reconnectReload
    /\ op' = Idle
    /\ UNCHANGED <<nextID, client, activeID, globalKeys>>

Disconnect(id) ==
    /\ op = Idle
    /\ id \in DOMAIN conns
    /\ Remove(id)
    /\ op' = At("unmark", id)
    /\ UNCHANGED <<conns, nextID, file, unread, reconnectReload, globalKeys>>

MarkOffline(saved) ==
    /\ op.at = "unmark"
    /\ conns' = IF op.id \in DOMAIN conns THEN [conns EXCEPT ![op.id].online = FALSE] ELSE conns
    /\ Save(saved)
    /\ op' = Idle
    /\ UNCHANGED <<nextID, client, activeID, reconnectReload, globalKeys>>

(* Mutant: dialParametersChanged does not look at the options. *)
StoreParamsAddrOnly(id, p, saved) ==
    LET old == conns[id]
        changed == p.addr # old.par.addr \/ p.mech # old.par.mech
    IN /\ conns' = IF saved
                   THEN [conns EXCEPT ![id].par = p, ![id].online = @ /\ ~changed]
                   ELSE conns
       /\ Save(saved)
       /\ op' = IF saved /\ changed /\ old.online THEN At("redial", id) ELSE Idle
       /\ UNCHANGED <<nextID, client, activeID, reconnectReload, globalKeys>>

(* Store new parameters; a failed save puts the previous profile back, and a
   profile that was online and changed goes on to be redialled. *)
StoreParams(id, p, saved) ==
    LET old == conns[id]
        changed == p # old.par
    IN /\ conns' = IF saved
                   THEN [conns EXCEPT ![id] =
                            [par |-> p, isDefault |-> old.isDefault,
                             online |-> old.online /\ ~changed]]
                   ELSE conns
       /\ Save(saved)
       /\ op' = IF saved /\ changed /\ old.online THEN At("redial", id) ELSE Idle
       /\ UNCHANGED <<nextID, client, activeID, reconnectReload, globalKeys>>

UpdateConnection(id, p, saved) ==
    /\ op = Idle
    /\ id \in DOMAIN conns
    /\ StoreParams(id, p, saved)

SetOption(id, o, saved) ==
    /\ op = Idle
    /\ id \in DOMAIN conns
    /\ o # conns[id].par.opt
    /\ StoreParams(id, [conns[id].par EXCEPT !.opt = o], saved)

Redial ==
    /\ op.at = "redial"
    /\ Remove(op.id)
    /\ op' = Dialling(op.id, FALSE)
    /\ UNCHANGED <<conns, nextID, file, unread, reconnectReload, globalKeys>>

(* Mutant: the client is not closed. *)
DeleteLeaksClient(id, saved) ==
    /\ op = Idle
    /\ id \in DOMAIN conns
    /\ conns[id].isDefault => DOMAIN conns = {id}
    /\ conns' = IF saved THEN Without(conns, id) ELSE conns
    /\ Save(saved)
    /\ UNCHANGED <<client, activeID, nextID, reconnectReload, op, globalKeys>>

(* Refused for the default while there are others, so no other profile has to
   become the default. *)
DeleteConnection(id, saved) ==
    /\ op = Idle
    /\ id \in DOMAIN conns
    /\ conns[id].isDefault => DOMAIN conns = {id}
    /\ conns' = IF saved THEN Without(conns, id) ELSE conns
    /\ Save(saved)
    /\ IF saved /\ conns[id].online THEN Remove(id) ELSE UNCHANGED <<client, activeID>>
    /\ UNCHANGED <<nextID, reconnectReload, op, globalKeys>>

(* reloadPlanLocked: something is online, or an earlier restore is still owed. *)
ShouldReconnect == reconnectReload \/ \E i \in DOMAIN conns : conns[i].online

(* Replace the profiles in memory and go on to restoreRuntimeLocked. *)
SwapProfiles(doc) ==
    /\ Load(doc)
    /\ reconnectReload' = ShouldReconnect
    /\ op' = [At("restore", 0) EXCEPT !.restoring = TRUE]

(* A file that cannot be read leaves everything as it was, the clients open. *)
Reload(read) ==
    /\ op = Idle
    /\ \/ read /\ SwapProfiles(file)
       \/ ~read /\ UNCHANGED <<conns, nextID, unread, reconnectReload, op>>
    /\ UNCHANGED <<file, client, activeID, globalKeys>>

(* prepareReplacement repairs the document and its sorted copy is written.
   The memory is built from that copy, a second repair with nothing left to
   do: that is what FileAgrees says of a file just written. *)
ReplaceConnections(input, saved) ==
    /\ op = Idle
    /\ \/ saved /\ SwapProfiles(Prepare(input)) /\ file' = Written(conns')
       \/ ~saved /\ UNCHANGED <<conns, nextID, file, unread, reconnectReload, op>>
    /\ UNCHANGED <<client, activeID, globalKeys>>

(* Mutant: the intent is cleared when the dial starts, not when it succeeds. *)
RestoreForgets ==
    /\ op.at = "restore"
    /\ CloseAll
    /\ reconnectReload' = FALSE
    /\ IF reconnectReload /\ \E id \in DOMAIN conns : conns[id].isDefault
       THEN \E id \in DOMAIN conns : conns[id].isDefault /\ op' = Dialling(id, TRUE)
       ELSE op' = Idle
    /\ UNCHANGED <<conns, nextID, file, unread, globalKeys>>

RestoreRuntime ==
    /\ op.at = "restore"
    /\ CloseAll
    /\ \/ /\ reconnectReload
          /\ \E id \in DOMAIN conns : conns[id].isDefault /\ op' = Dialling(id, TRUE)
          /\ UNCHANGED reconnectReload
       \/ /\ ~reconnectReload \/ ~\E id \in DOMAIN conns : conns[id].isDefault
          /\ op' = Idle
          /\ reconnectReload' = FALSE
    /\ UNCHANGED <<conns, nextID, file, unread, globalKeys>>

--------------------------------------------------------------------------------
(* The world around the service. *)

(* The settings service stores or clears the global key pair. *)
ChangeGlobalKeys ==
    /\ globalKeys' = ~globalKeys
    /\ UNCHANGED <<conns, nextID, file, unread, client, activeID, reconnectReload, op>>

(* The process ends at any point and the next launch runs New.  A file that
   cannot be read is logged, and the launch goes on without profiles. *)
Restart(read) ==
    /\ \/ read /\ Load(file)
       \/ ~read /\ conns' = EmptyMap /\ nextID' = 1 /\ unread' = TRUE
    /\ CloseAll
    /\ reconnectReload' = FALSE
    /\ op' = Idle
    /\ UNCHANGED <<file, globalKeys>>

--------------------------------------------------------------------------------
(* A launch that has not read its file, which may have been edited by hand;
   Restart is every other launch. *)
Init ==
    /\ conns = EmptyMap /\ client = EmptyMap
    /\ file \in Documents /\ unread = TRUE
    /\ nextID = 1 /\ activeID = 0
    /\ reconnectReload = FALSE
    /\ globalKeys = FALSE
    /\ op = Idle

(* The holder of runtimeMu takes its next step. *)
HolderStep ==
    \/ DialFailed \/ DialSucceeded \/ Redial \/ RestoreRuntime
    \/ \E saved \in BOOLEAN : MarkOnline(saved) \/ MarkOffline(saved)

(* Calls of the service's own methods by the window. *)
Call ==
    \/ ConnectDefault
    \/ \E saved \in BOOLEAN, p \in Params : AddConnection(p, saved)
    \/ \E id \in DOMAIN conns :
          \/ Connect(id) \/ Disconnect(id)
          \/ \E saved \in BOOLEAN :
                \/ SetDefaultConnection(id, saved) \/ DeleteConnection(id, saved)
                \/ \E p \in Params : UpdateConnection(id, p, saved)
                \/ \E o \in Options : SetOption(id, o, saved)

(* Calls made by the configuration service. *)
ConfigurationCall ==
    \/ ChangeGlobalKeys
    \/ \E read \in BOOLEAN : Reload(read)
    \/ \E saved \in BOOLEAN, input \in Documents : ReplaceConnections(input, saved)

Next == HolderStep \/ Call \/ ConfigurationCall \/ \E read \in BOOLEAN : Restart(read)

Spec == Init /\ [][Next]_vars

--------------------------------------------------------------------------------
(* Properties. *)

(* A profile says online exactly when the registry holds its client, and the
   registry holds no client without a profile: for every profile, at every
   moment, but the one the holder of runtimeMu is in the middle of changing.
   DeleteConnection and the reload plan read the status in place of the
   registry, so a status that lies leaks a client or forgets a reconnect. *)
OnlineIffOpen ==
    \A id \in Ids :
        \/ op.at = "restore"
        \/ op.at \in {"redial", "mark", "unmark"} /\ op.id = id
        \/ (id \in DOMAIN conns /\ conns[id].online) <=> id \in DOMAIN client

(* An open client was dialled with the parameters its profile has now: an edit
   never leaves a page talking to the broker the profile used to name. *)
ClientMatchesProfile ==
    \A id \in DOMAIN client :
        \/ op.at = "restore"
        \/ op.at = "redial" /\ op.id = id
        \/ /\ id \in DOMAIN conns
           /\ client[id].par = conns[id].par
           /\ client[id].global => conns[id].par.mech = "none"

(* Whenever mu is free a load of the file would bring back the profiles in
   memory, whichever saves failed and however the file was written: a restart
   neither loses a profile the user has nor brings back one that an operation
   rolled back.  The exception is a launch that could not read the file, until
   it reads it after all or its first save replaces what the file held. *)
FileAgrees ==
    unread \/ \E m \in Loads(file) : Written(m) = Written(conns)

(* There is one default, unless there is no profile, whatever a file or an
   import says of ids and defaults and whichever saves failed: ConnectDefault
   and restoreRuntimeLocked never have to guess. *)
OneDefault == OneDefaultIn(conns)

(* The id the next AddConnection uses is above every id in use, across loads,
   replacements and failed saves: an added profile never overwrites another. *)
NextIDFresh == \A id \in DOMAIN conns : id < nextID

(* The connection the collector samples is open, and there is one as long as
   anything is open. *)
ActiveIsOpen ==
    IF DOMAIN client = {} THEN activeID = 0 ELSE activeID \in DOMAIN client

(* A reconnect a reload or an import owes is only written off when a profile
   is back online, when there is no profile left, or with the process. *)
ReconnectOwed ==
    [][ reconnectReload /\ ~reconnectReload' =>
           \/ \E read \in BOOLEAN : Restart(read)
           \/ DOMAIN conns = {}
           \/ \E id \in DOMAIN conns' : conns'[id].online /\ id \in DOMAIN client' ]_vars
================================================================================
