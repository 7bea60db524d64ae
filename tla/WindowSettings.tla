------------------------------ MODULE WindowSettings ------------------------------
(* The settings as the window holds them (frontend/src/hooks/useSettings.ts) over the
   settings Go stores (bridge/settings.go) and the tray writes as well (main.go).

   A change is shown at once and saved as a whole document 300 ms later; saves form a
   chain, one request at a time; a reset and the global credentials go through Go on
   their own, after the saves that were due.  A setting's value is the number of the
   change that gave it, 0 its default. *)
EXTENDS Naturals, Sequences

CONSTANTS Keys,     \* the settings
          MaxMade,  \* bound: the changes and resets, by anyone, a stored one the first
          MaxReads  \* bound: the reads under way at once

Fields == Keys \cup {"credentials"}
Default == [f \in Fields |-> 0]
NoDoc == [made |-> 0, doc |-> Default]

VARIABLES go,      \* Go: the stored settings
          shown,   \* settingsRef.current
          made,    \* the changes made so far
          pending, \* pendingSettingsRef and its timer
          chain,   \* saveChainRef: the writes that are not over, the first in Go
          lastOk,  \* whether the chain ends in a promise that was kept
          reset,   \* resetAllSettings
          keys,    \* saveGlobalCredentials or clearGlobalCredentials
          tray,    \* what the tray is about to store
          reads,   \* getSettings under way
          events,  \* settings:changed on its way
          failed,  \* a request failed (for the properties)
          crossed  \* an answer replaced what was changed meanwhile (for the properties)

window == <<shown, made, pending, chain, lastOk, reset, keys, reads>>
vars == <<go, window, tray, events, failed, crossed>>

Write(doc, mode, no) == [doc |-> doc, mode |-> mode, made |-> no, at |-> "queued"]
Rest == [at |-> "rest", left |-> 0, since |-> 0, mode |-> "none", value |-> 0]
Due == pending # NoDoc
Saving == \E i \in 1..Len(chain) : chain[i].mode = "preserve"

--------------------------------------------------------------------------------
(* Changes and saves. *)

SetSetting(k) ==
    /\ made < MaxMade
    /\ made' = made + 1
    /\ shown' = [shown EXCEPT ![k] = made']
    /\ pending' = [made |-> made', doc |-> shown']
    /\ UNCHANGED <<go, chain, lastOk, reset, keys, reads, tray, events, failed, crossed>>

(* A control of the page; none waits for the save of another. *)
GeneralPanel == \E k \in Keys : SetSetting(k)

(* enqueueSave, of what is due. *)
Enqueue(queue) == IF Due THEN Append(queue, Write(pending.doc, "preserve", pending.made)) ELSE queue

(* The timer fires. *)
SaveToBackend ==
    /\ Due
    /\ chain' = Enqueue(chain)
    /\ pending' = NoDoc
    /\ UNCHANGED <<go, shown, made, lastOk, reset, keys, reads, tray, events, failed, crossed>>

(* Go resolves the credentials first and stores afterwards. *)
Resolve ==
    /\ chain # <<>> /\ Head(chain).at = "queued"
    /\ chain' = [chain EXCEPT ![1].at = "resolved",
                              ![1].doc["credentials"] = IF Head(chain).mode = "preserve"
                                                        THEN go["credentials"] ELSE @]
    /\ UNCHANGED <<go, shown, made, pending, lastOk, reset, keys, reads, tray, events, failed, crossed>>

(* New credentials may be stored and the connections fail to reload, which is told as
   a failure. *)
Store ==
    /\ chain # <<>> /\ Head(chain).at = "resolved"
    /\ \/ go' = Head(chain).doc /\ events' = events + 1
          /\ chain' = [chain EXCEPT ![1].at = "stored"] /\ UNCHANGED failed
       \/ go' = Head(chain).doc /\ events' = events + 1 /\ Head(chain).doc["credentials"] # go["credentials"]
          /\ chain' = [chain EXCEPT ![1].at = "failed"] /\ failed' = TRUE
       \/ UNCHANGED <<go, events>>
          /\ chain' = [chain EXCEPT ![1].at = "failed"] /\ failed' = TRUE
    /\ UNCHANGED <<shown, made, pending, lastOk, reset, keys, reads, tray, crossed>>

--------------------------------------------------------------------------------
(* settlePendingSaves: what is due is saved, and the chain waited for as it is then.
   It fails when the chain's last save failed, however long ago. *)

Settled(p, ok) ==
    IF p.at # "settling" THEN p
    ELSE IF p.left > 1 THEN [p EXCEPT !.left = @ - 1]
    ELSE IF ok THEN [p EXCEPT !.at = "sent", !.left = 0]
    ELSE Rest

(* The credentials go out with the settings shown by then, at the end of the chain. *)
WithKeys(queue, before, after) ==
    IF before.at = "settling" /\ after.at = "sent"
    THEN Append(queue, Write([shown EXCEPT !["credentials"] = after.value], after.mode, made))
    ELSE queue

(* Mutant: what is due is left to its timer. *)
SettleLater(p) ==
    /\ pending' = pending
    /\ LET now == IF chain = <<>> THEN Settled([p EXCEPT !.left = 1], lastOk)
                  ELSE [p EXCEPT !.left = Len(chain)]
       IN /\ IF p.mode = "reset" THEN reset' = now /\ UNCHANGED keys ELSE keys' = now /\ UNCHANGED reset
          /\ chain' = IF p.mode = "reset" THEN chain ELSE WithKeys(chain, p, now)

Settle(p) ==
    /\ pending' = NoDoc
    /\ LET queue == Enqueue(chain)
           now == IF queue = <<>> THEN Settled([p EXCEPT !.left = 1], lastOk)
                  ELSE [p EXCEPT !.left = Len(queue)]
       IN /\ IF p.mode = "reset" THEN reset' = now /\ UNCHANGED keys ELSE keys' = now /\ UNCHANGED reset
          /\ chain' = IF p.mode = "reset" THEN queue ELSE WithKeys(queue, p, now)

PressReset ==
    /\ reset = Rest /\ made < MaxMade
    /\ made' = made + 1
    /\ Settle([Rest EXCEPT !.at = "settling", !.since = made, !.mode = "reset"])
    /\ UNCHANGED <<go, shown, lastOk, reads, tray, events, failed, crossed>>

PressKeys(mode) ==
    /\ keys = Rest /\ made < MaxMade
    /\ made' = made + 1
    /\ Settle([Rest EXCEPT !.at = "settling", !.since = made, !.mode = mode,
                           !.value = IF mode = "replace" THEN made' ELSE 0])
    /\ UNCHANGED <<go, shown, lastOk, reads, tray, events, failed, crossed>>

(* A new pair, or, once it is confirmed, none. *)
CredentialsGroup == \E mode \in {"replace", "clear"} : PressKeys(mode)

(* The first write of the chain is over; whoever waited for it goes on. *)
WriteReply ==
    /\ chain # <<>> /\ Head(chain).at \in {"stored", "failed"}
    /\ LET w == Head(chain)
           ok == w.mode # "preserve" \/ w.at = "stored"
       IN /\ lastOk' = ok
          /\ reset' = Settled(reset, ok)
          /\ IF w.mode = "preserve"
             THEN /\ keys' = Settled(keys, ok)
                  /\ chain' = WithKeys(Tail(chain), keys, keys')
                  /\ UNCHANGED <<shown, crossed>>
             ELSE /\ keys' = Rest
                  /\ chain' = Tail(chain)
                  /\ shown' = IF w.at = "stored" THEN w.doc ELSE shown
                  /\ crossed' = (crossed \/ (w.at = "stored" /\ (Due \/ Tail(chain) # <<>> \/ w.doc # go)))
    /\ UNCHANGED <<go, made, pending, reads, tray, events, failed>>

ResetStored ==
    /\ reset.at = "sent"
    /\ \/ go' = Default /\ events' = events + 1
          /\ reset' = [reset EXCEPT !.at = "stored"] /\ UNCHANGED failed
       \/ go' = Default /\ events' = events + 1 /\ go["credentials"] # 0
          /\ reset' = [reset EXCEPT !.at = "failed"] /\ failed' = TRUE
       \/ UNCHANGED <<go, events>>
          /\ reset' = [reset EXCEPT !.at = "failed"] /\ failed' = TRUE
    /\ UNCHANGED <<shown, made, pending, chain, lastOk, keys, reads, tray, crossed>>

ResetReply ==
    /\ reset.at \in {"stored", "failed"}
    /\ reset' = Rest
    /\ shown' = IF reset.at = "stored" THEN Default ELSE shown
    /\ crossed' = (crossed \/ (reset.at = "stored" /\ (Due \/ chain # <<>> \/ go # Default)))
    /\ UNCHANGED <<go, made, pending, chain, lastOk, keys, reads, tray, events, failed>>

--------------------------------------------------------------------------------
(* What the tray writes, and how the window hears of it. *)

TrayReads(k) ==
    /\ tray = NoDoc /\ made < MaxMade
    /\ made' = made + 1
    /\ tray' = [made |-> made', doc |-> [go EXCEPT ![k] = made']]
    /\ UNCHANGED <<go, shown, pending, chain, lastOk, reset, keys, reads, events, failed, crossed>>

(* Mutant: the window is not told of what the tray stored. *)
TrayStoresQuietly ==
    /\ tray # NoDoc
    /\ tray' = NoDoc
    /\ go' \in {go, tray.doc}
    /\ UNCHANGED <<window, events, failed, crossed>>

TrayStores ==
    /\ tray # NoDoc
    /\ tray' = NoDoc
    /\ \/ go' = tray.doc /\ events' = events + 1
       \/ UNCHANGED <<go, events>>
    /\ UNCHANGED <<window, failed, crossed>>

FreeRead == CHOOSE no \in 1..MaxReads : \A r \in reads : r.no # no
ReadAgain == reads' = reads \cup {[no |-> FreeRead, at |-> "sent", doc |-> Default]}

(* onSettingsChanged: a change that is due or being saved keeps the window from
   reading.  Nothing is left to write what was skipped when the saves have all reached
   Go. *)
Changed ==
    /\ events > 0
    /\ events' = events - 1
    /\ IF Due \/ Saving
       THEN /\ crossed' = (crossed \/ (~Due /\ go # shown /\
                                       \A i \in 1..Len(chain) : chain[i].at \in {"stored", "failed"}))
            /\ UNCHANGED reads
       ELSE /\ \E no \in 1..MaxReads : \A r \in reads : r.no # no
            /\ ReadAgain
            /\ UNCHANGED crossed
    /\ UNCHANGED <<go, shown, made, pending, chain, lastOk, reset, keys, tray, failed>>

Answer(r) ==
    /\ r.at = "sent"
    /\ \/ reads' = (reads \ {r}) \cup {[r EXCEPT !.at = "read", !.doc = go]} /\ UNCHANGED failed
       \/ reads' = reads \ {r} /\ failed' = TRUE
    /\ UNCHANGED <<go, shown, made, pending, chain, lastOk, reset, keys, tray, events, crossed>>

(* The answer is shown, whatever was changed since it was asked for. *)
Land(r) ==
    /\ r.at = "read"
    /\ reads' = reads \ {r}
    /\ shown' = r.doc
    /\ crossed' = (crossed \/ Due \/ chain # <<>> \/ r.doc # go)
    /\ UNCHANGED <<go, made, pending, chain, lastOk, reset, keys, tray, events, failed>>

--------------------------------------------------------------------------------
(* The window shows the defaults until its first read is answered. *)
Init ==
    /\ go = [f \in Fields |-> 1] /\ made = 1
    /\ shown = Default
    /\ pending = NoDoc /\ chain = <<>> /\ lastOk = TRUE
    /\ reset = Rest /\ keys = Rest /\ tray = NoDoc
    /\ reads = {[no |-> 1, at |-> "sent", doc |-> Default]}
    /\ events = 0 /\ failed = FALSE /\ crossed = FALSE

Next ==
    \/ GeneralPanel \/ \E k \in Keys : TrayReads(k)
    \/ SaveToBackend \/ Resolve \/ Store \/ WriteReply
    \/ PressReset \/ ResetStored \/ ResetReply
    \/ CredentialsGroup
    \/ TrayStores \/ Changed
    \/ \E r \in reads : Answer(r) \/ Land(r)

Spec == Init /\ [][Next]_vars

--------------------------------------------------------------------------------
(* Properties. *)

Docs == [Fields -> 0..MaxMade]

(* The type of every variable.  Only the first write of the chain has reached Go
   ("Serialize all writes so an earlier request cannot finish later and overwrite newer
   settings"). *)
TypeOK ==
    /\ go \in Docs /\ shown \in Docs /\ made \in 1..MaxMade
    /\ pending \in [made : 0..MaxMade, doc : Docs] /\ tray \in [made : 0..MaxMade, doc : Docs]
    /\ \A i \in 1..Len(chain) :
          chain[i] \in [doc : Docs, mode : {"preserve", "replace", "clear"}, made : 0..MaxMade,
                        at : {"queued", "resolved", "stored", "failed"}]
    /\ \A i \in 2..Len(chain) : chain[i].at = "queued"
    /\ reads \subseteq [no : 1..MaxReads, at : {"sent", "read"}, doc : Docs]
    /\ events \in Nat /\ {lastOk, failed, crossed} \subseteq BOOLEAN

Quiet ==
    /\ ~Due /\ chain = <<>> /\ reads = {} /\ events = 0
    /\ reset = Rest /\ keys = Rest /\ tray = NoDoc

(* With nothing left to do the window shows what is stored, whichever changes, saves,
   resets, credentials, tray writes and reads overlapped, unless a request failed or an
   answer replaced a change made meanwhile ("The tray writes settings too, so what Go
   holds can move without this provider doing anything"). *)
ShownIsStored == Quiet /\ ~failed /\ ~crossed => shown = go

(* A save that was due when the reset was asked for reaches Go before it ("Ensure reset
   is the last write so a pending 300ms debounced save cannot restore old settings").
   A change made while the reset is under way still does. *)
ResetIsAfterSaves ==
    reset.at \in {"sent", "stored"} =>
        /\ Due => pending.made > reset.since
        /\ \A i \in 1..Len(chain) : chain[i].mode = "preserve" => chain[i].made > reset.since
================================================================================
