-------------------------- MODULE ConfigurationProofs --------------------------
(* Proofs about Configuration: whatever it does is something Connections allows, so what
   ConnectionsProofs proves holds under it too; and that no call returns with clients
   that hold credentials the settings do not. *)
EXTENDS Configuration, ConnectionsProofs

(* The steps at which a call waits for an answer of the connection service. *)
Waiting == {"reloading", "applying", "undoing"}

Steps == Returned \cup Waiting \cup {"reload", "apply", "undo settings", "undo connections"}

(* A document with every record at its id. *)
InOrder(doc) == \A k \in DOMAIN doc : doc[k].id = k

(* What a call has in hand can be stored, and the profiles of before are a
   list sorted by id. *)
CallData ==
    /\ cfg \in [at : Steps, included : BOOLEAN, settings : BOOLEAN,
                prevKeys : BOOLEAN, prevConns : Documents, failed : BOOLEAN]
    /\ torn \in BOOLEAN
    /\ InOrder(cfg.prevConns)

(* The holder of runtimeMu works for the call exactly while the call waits. *)
CallWaits ==
    /\ cfg.at \in Waiting <=> op.restoring
    /\ op.at = "restore" => op.restoring
    /\ op.at \in {"redial", "unmark"} => ~op.restoring

(* Every client, and the one being dialled, has the credentials of the settings. *)
FreshKeys ==
    /\ \A id \in DOMAIN client : client[id] = Resolve(client[id].par)
    /\ op.at = "dial" => op.resolved = Resolve(op.resolved.par)

(* Where they do not, a call is still to close them. *)
KeysInv ==
    \/ torn
    \/ FreshKeys
    \/ cfg.at \in {"reload", "apply", "undo settings", "undo connections"}
    \/ cfg.at \in Waiting /\ op.at = "restore"

(* What a rollback has put back by its later steps. *)
RollbackInv ==
    /\ cfg.at \in {"undo connections", "undoing"} /\ cfg.settings /\ ~cfg.failed =>
          globalKeys = cfg.prevKeys
    /\ cfg.at = "undoing" => DOMAIN cfg.prevConns \subseteq DOMAIN conns

CallInv == CallData /\ CallWaits /\ KeysInv /\ RollbackInv

(* The inductive invariant. *)
CfgInv == IInv /\ CallInv

--------------------------------------------------------------------------------
(* No profiles can be stored, and so can those in memory, which is what a
   rollback hands over. *)
LEMMA MemoryIsDocument ==
    ASSUME IInv
    PROVE  /\ EmptyMap \in Documents /\ InOrder(EmptyMap)
           /\ Written(conns) \in Documents /\ InOrder(Written(conns))
<1>1. EmptyMap \in [{} -> Record] /\ InOrder(EmptyMap)
  BY DEF EmptyMap, InOrder
<1>2. {} \in SUBSET Ids
  OBVIOUS
<1>3. EmptyMap \in Documents
  BY <1>1, <1>2 DEF Documents
<1>4. Written(conns) \in Documents /\ InOrder(Written(conns))
  BY WrittenType DEF IInv, TypeOK, InOrder
<1> QED BY <1>1, <1>3, <1>4

(* A list sorted by id is loaded without a repair of its ids. *)
LEMMA InOrderKeepsIds ==
    ASSUME NEW doc \in Documents, InOrder(doc), NEW ids \in RepairedIds(doc)
    PROVE  \A k \in DOMAIN doc : ids[k] = k
<1> DEFINE wrong == {k \in DOMAIN doc : ids[k] # k}
<1>1. DOMAIN doc \subseteq Ids
  BY RepairedApart
<1>2. wrong \subseteq Nat
  BY <1>1 DEF Ids
<1>3. SUFFICES ASSUME wrong # {} PROVE FALSE
  OBVIOUS
<1>4. PICK k \in wrong : \A j \in wrong : k <= j
  BY <1>2, <1>3, LeastElement
<1> DEFINE taken == {ids[j] : j \in {j \in DOMAIN doc : j < k}}
<1>5. \A j \in DOMAIN doc : j < k => ids[j] = j
  BY <1>1, <1>4 DEF Ids
<1>6. k \notin taken \cup {0}
  BY <1>1, <1>5 DEF Ids
<1>7. \/ doc[k].id \notin taken \cup {0} /\ ids[k] = doc[k].id
      \/ doc[k].id \in taken \cup {0} /\ NextAfter(taken, ids[k])
  BY DEF RepairedIds
<1>8. doc[k].id = k /\ ids[k] # k
  BY DEF InOrder
<1> HIDE DEF taken
<1> QED BY <1>6, <1>7, <1>8

(* An import that is rolled back to a list sorted by id has its ids again. *)
LEMMA PreparedLoads ==
    ASSUME NEW doc \in Documents, InOrder(doc), NEW m \in Loads(Prepare(doc))
    PROVE  DOMAIN m = DOMAIN doc
<1>1. Prepare(doc) \in Documents /\ DOMAIN Prepare(doc) = DOMAIN doc
  BY PreparedType DEF Prepare
<1>2. doc \in [DOMAIN doc -> Record]
  BY DEF Documents
<1>3. \A k \in DOMAIN doc : Prepare(doc)[k].id = doc[k].id
  BY <1>2 DEF Prepare, Record
<1>4. InOrder(Prepare(doc))
  BY <1>1, <1>3 DEF InOrder
<1>5. PICK ids \in RepairedIds(Prepare(doc)) : m = Loaded(Prepare(doc), ids)
  BY DEF Loads
<1>6. DOMAIN m = {ids[k] : k \in DOMAIN doc}
  BY <1>1, <1>5 DEF Loaded
<1>7. \A k \in DOMAIN doc : ids[k] = k
  BY <1>1, <1>4, InOrderKeepsIds
<1> QED BY <1>6, <1>7

(* What resolves is fresh until the keys change. *)
LEMMA ResolvedIsFresh ==
    ASSUME NEW p
    PROVE  Resolve(p) = Resolve(Resolve(p).par)
BY DEF Resolve

(* A window's call takes runtimeMu free or leaves it alone, opens no client, and dials
   with the keys of now. *)
LEMMA CallFacts ==
    ASSUME IInv, Call
    PROVE  /\ globalKeys' = globalKeys
           /\ \A id \in DOMAIN client' : id \in DOMAIN client /\ client'[id] = client[id]
           /\ \/ op' = op
              \/ /\ op = Idle
                 /\ op'.at \in {"idle", "redial", "dial", "unmark"}
                 /\ ~op'.restoring
                 /\ op'.at = "dial" => op'.resolved = Resolve(op'.resolved.par)
           /\ op # Idle => DOMAIN conns \subseteq DOMAIN conns'
<1> DEFINE Facts ==
       /\ globalKeys' = globalKeys
       /\ \A id \in DOMAIN client' : id \in DOMAIN client /\ client'[id] = client[id]
       /\ \/ op' = op
          \/ /\ op = Idle
             /\ op'.at \in {"idle", "redial", "dial", "unmark"}
             /\ ~op'.restoring
             /\ op'.at = "dial" => op'.resolved = Resolve(op'.resolved.par)
       /\ op # Idle => DOMAIN conns \subseteq DOMAIN conns'
<1>1. ASSUME NEW id \in DOMAIN conns, Connect(id)
      PROVE  Facts
  BY <1>1 DEF Connect, Dialling, Resolve
<1>2. ASSUME NEW id \in DOMAIN conns, Disconnect(id)
      PROVE  Facts
  BY <1>2 DEF Disconnect, Remove, Without, At, Idle
<1>3. ASSUME NEW id \in DOMAIN conns, NEW p, NEW saved \in BOOLEAN, op = Idle,
             StoreParams(id, p, saved)
      PROVE  Facts
  BY <1>3 DEF StoreParams, At, Idle
<1>4. ASSUME NEW id \in DOMAIN conns, NEW saved \in BOOLEAN, DeleteConnection(id, saved)
      PROVE  Facts
  BY <1>4 DEF DeleteConnection, Remove, Without
<1>5. ASSUME NEW id \in DOMAIN conns, NEW saved \in BOOLEAN, SetDefaultConnection(id, saved)
      PROVE  Facts
  BY <1>5 DEF SetDefaultConnection
<1>6. ASSUME NEW p, NEW saved \in BOOLEAN, AddConnection(p, saved)
      PROVE  Facts
  BY <1>6 DEF AddConnection, With
<1> HIDE DEF Facts
<1>7. Facts
  BY <1>1, <1>2, <1>3, <1>4, <1>5, <1>6 DEF Call, ConnectDefault, UpdateConnection, SetOption
<1> QED BY <1>7 DEF Facts

(* The holder's next step keeps every profile, keeps what it opens fresh, and never
   starts a restore. *)
LEMMA HolderFacts ==
    ASSUME IInv, CallWaits, HolderStep
    PROVE  /\ globalKeys' = globalKeys
           /\ DOMAIN conns' = DOMAIN conns
           /\ op'.at # "restore"
           /\ FreshKeys \/ op.at = "restore" => FreshKeys'
           /\ op' = Idle \/ op'.at \in {"dial", "mark"}
           /\ op'.restoring => op.restoring
           /\ op.restoring /\ op' # Idle => op'.restoring
           /\ op # Idle
<1> DEFINE Facts ==
       /\ globalKeys' = globalKeys
       /\ DOMAIN conns' = DOMAIN conns
       /\ op'.at # "restore"
       /\ FreshKeys \/ op.at = "restore" => FreshKeys'
       /\ op' = Idle \/ op'.at \in {"dial", "mark"}
       /\ op'.restoring => op.restoring
       /\ op.restoring /\ op' # Idle => op'.restoring
       /\ op # Idle
<1>1. ASSUME DialFailed PROVE Facts
  BY <1>1 DEF DialFailed, FreshKeys, Resolve, Idle
<1>2. ASSUME DialSucceeded PROVE Facts
  <2>1. op \in Op /\ op' = [op EXCEPT !.at = "mark"]
    BY <1>2 DEF DialSucceeded, IInv, TypeOK
  <2>2. op'.at = "mark" /\ op'.restoring = op.restoring
    BY <2>1 DEF Op
  <2>3. FreshKeys => FreshKeys'
    BY <1>2, <2>2 DEF DialSucceeded, FreshKeys, Resolve, With
  <2> QED BY <1>2, <2>2, <2>3 DEF DialSucceeded, Idle
<1>3. ASSUME Redial PROVE Facts
  BY <1>3 DEF CallWaits, Redial, Dialling, FreshKeys, Resolve, Remove, Without, Idle
<1>4. ASSUME RestoreRuntime PROVE Facts
  BY <1>4 DEF CallWaits, RestoreRuntime, CloseAll, EmptyMap, Dialling, FreshKeys, Resolve, Idle
<1>5. ASSUME NEW saved \in BOOLEAN, MarkOnline(saved) PROVE Facts
  BY <1>5 DEF MarkOnline, FreshKeys, Resolve, Idle
<1>6. ASSUME NEW saved \in BOOLEAN, MarkOffline(saved) PROVE Facts
  BY <1>6 DEF MarkOffline, FreshKeys, Resolve, Idle
<1> HIDE DEF Facts
<1>7. Facts
  BY <1>1, <1>2, <1>3, <1>4, <1>5, <1>6 DEF HolderStep
<1> QED BY <1>7 DEF Facts

(* Settings are stored with the same keys or with the others. *)
LEMMA StoreIsChange ==
    ASSUME IInv, NEW keys \in BOOLEAN, StoreSettings(keys)
    PROVE  [Next]_vars
BY DEF StoreSettings, Next, ConfigurationCall, ChangeGlobalKeys, IInv, TypeOK, vars

(* Every step under the configuration service is one of the connection service. *)
LEMMA StepsAreCalls ==
    ASSUME CfgInv, [ConfigNext]_allVars
    PROVE  [Next]_vars
<1> USE DEF CfgInv, CallInv
<1>1. globalKeys \in BOOLEAN
  BY DEF IInv, TypeOK
<1>2. ASSUME NEW keys \in BOOLEAN, NEW saved \in BOOLEAN, UpdateSettings(keys, saved)
      PROVE  [Next]_vars
  BY <1>1, <1>2, StoreIsChange DEF UpdateSettings
<1>3. ASSUME NEW included, NEW settings \in BOOLEAN, NEW keys \in BOOLEAN,
             NEW saved \in BOOLEAN, ImportAllConfig(included, settings, keys, saved)
      PROVE  [Next]_vars
  <2>1. \E k \in BOOLEAN : StoreSettings(k)
    BY <1>1, <1>3 DEF ImportAllConfig
  <2> QED BY <2>1, StoreIsChange
<1>4. ASSUME NEW ok \in BOOLEAN, StartReload(ok) PROVE [Next]_vars
  BY <1>4 DEF StartReload, Next, ConfigurationCall
<1>5. ASSUME NEW ok \in BOOLEAN, ApplyConnections(ok) PROVE [Next]_vars
  <2>1. Reload(ok) \/ \E input \in Documents : ReplaceConnections(input, ok)
    BY <1>5 DEF ApplyConnections, Imported
  <2> QED BY <2>1 DEF Next, ConfigurationCall
<1>6. ASSUME NEW saved \in BOOLEAN, UndoSettings(saved) PROVE [Next]_vars
  <2>1. cfg.prevKeys \in BOOLEAN
    BY DEF CallData
  <2>2. \E k \in BOOLEAN : StoreSettings(k)
    BY <1>1, <1>6, <2>1 DEF UndoSettings
  <2> QED BY <2>2, StoreIsChange
<1>7. ASSUME NEW saved \in BOOLEAN, UndoConnections(saved) PROVE [Next]_vars
  <2>1. cfg.prevConns \in Documents
    BY DEF CallData
  <2>2. ReplaceConnections(cfg.prevConns, saved)
    BY <1>7 DEF UndoConnections
  <2> QED BY <2>1, <2>2 DEF Next, ConfigurationCall
<1>8. ASSUME AnswerStep PROVE [Next]_vars
  BY <1>8 DEF AnswerStep, Next, HolderStep
<1>9. ASSUME WindowStep PROVE [Next]_vars
  BY <1>9 DEF WindowStep, Next
<1>10. ASSUME ConfigRestart PROVE [Next]_vars
  BY <1>10 DEF ConfigRestart, Next
<1>11. ASSUME UNCHANGED allVars PROVE [Next]_vars
  BY <1>11 DEF allVars
<1>12. ASSUME ConfigCall PROVE [Next]_vars
  BY <1>2, <1>3, <1>12 DEF ConfigCall, ResetSettings
<1>13. ASSUME ConfigStep PROVE [Next]_vars
  BY <1>4, <1>5, <1>6, <1>7, <1>8, <1>13 DEF ConfigStep
<1> QED BY <1>9, <1>10, <1>11, <1>12, <1>13 DEF ConfigNext

--------------------------------------------------------------------------------
(* Each step keeps CallInv. *)

(* What a call returns is a call with nothing in hand. *)
LEMMA ReturnFacts ==
    ASSUME IInv, NEW what \in Returned, Return(what)
    PROVE  /\ cfg' \in [at : Steps, included : BOOLEAN, settings : BOOLEAN,
                        prevKeys : BOOLEAN, prevConns : Documents, failed : BOOLEAN]
           /\ InOrder(cfg'.prevConns)
           /\ cfg'.at = what
BY MemoryIsDocument DEF Return, NoCall, Steps

(* A step on keeps what the call has in hand. *)
LEMMA GotoFacts ==
    ASSUME CallData, NEW step \in Steps, Goto(step)
    PROVE  /\ cfg' \in [at : Steps, included : BOOLEAN, settings : BOOLEAN,
                        prevKeys : BOOLEAN, prevConns : Documents, failed : BOOLEAN]
           /\ InOrder(cfg'.prevConns)
           /\ cfg'.at = step
           /\ \A f \in {"included", "settings", "prevKeys", "prevConns", "failed"} :
                 cfg'[f] = cfg[f]
BY DEF Goto, CallData

(* What the window does leaves the call where it is. *)
LEMMA WindowPreserves ==
    ASSUME CfgInv, WindowStep
    PROVE  CallInv'
<1> USE DEF CfgInv, CallInv, WindowStep
<1>1. cfg' = cfg /\ torn' = torn
  BY DEF cfgVars
<1>2. CASE Call
  <2>1. (op.restoring <=> op'.restoring) /\ (op'.at = "restore" <=> op.at = "restore")
    BY <1>2, CallFacts DEF Idle
  <2>2. CallWaits'
    BY <1>1, <1>2, <2>1, CallFacts DEF CallWaits
  <2>3. FreshKeys => FreshKeys'
    BY <1>2, CallFacts DEF FreshKeys, Resolve
  <2>4. KeysInv'
    BY <1>1, <2>1, <2>3 DEF KeysInv
  <2>5. cfg.at = "undoing" => op # Idle
    BY DEF CallWaits, Waiting, Idle
  <2>6. RollbackInv'
    BY <1>1, <1>2, <2>5, CallFacts DEF RollbackInv
  <2> QED BY <1>1, <2>2, <2>4, <2>6 DEF CallData, CallInv
<1>3. CASE HolderStep /\ ~op.restoring
  <2>1. ~op'.restoring /\ op'.at # "restore"
    BY <1>3, HolderFacts
  <2>2. CallWaits'
    BY <1>1, <1>3, <2>1 DEF CallWaits
  <2>3. KeysInv'
    BY <1>1, <1>3, <2>1, HolderFacts DEF KeysInv, CallWaits
  <2>4. RollbackInv'
    BY <1>1, <1>3, HolderFacts DEF RollbackInv
  <2> QED BY <1>1, <2>2, <2>3, <2>4 DEF CallData, CallInv
<1> QED BY <1>2, <1>3

(* An answer ends the wait, and what the holder does before it keeps the wait. *)
LEMMA AnswerPreserves ==
    ASSUME CfgInv, AnswerStep
    PROVE  CallInv'
<1> USE DEF CfgInv, CallInv
<1>1. HolderStep /\ op.restoring /\ cfg.at \in Waiting
  BY DEF AnswerStep, HolderStep, CallWaits
<1>2. FreshKeys' \/ torn'
  <2>1. CASE op.at = "restore"
    BY <1>1, <2>1, HolderFacts
  <2>2. CASE op.at # "restore"
    <3>1. torn' = torn
      BY <2>2 DEF AnswerStep, RestoreRuntime, cfgVars
    <3>2. torn \/ FreshKeys
      BY <1>1, <2>2 DEF KeysInv, Waiting
    <3> QED BY <1>1, <3>1, <3>2, HolderFacts
  <2> QED BY <2>1, <2>2
<1>3. CASE cfg' = cfg /\ op' # Idle /\ torn' \in BOOLEAN
  <2>1. CallWaits'
    BY <1>1, <1>3, HolderFacts DEF CallWaits
  <2> QED BY <1>1, <1>2, <1>3, <2>1, HolderFacts DEF CallInv, CallData, KeysInv, RollbackInv
<1>4. CASE op' = Idle /\ torn' \in BOOLEAN /\ \E ok \in BOOLEAN : Answered(ok)
  <2>1. PICK ok \in BOOLEAN : Answered(ok)
    BY <1>4
  <2>2. \/ \E what \in Returned : Return(what)
        \/ cfg.at = "applying" /\ Goto("undo settings")
    BY <2>1 DEF Answered, Returned
  <2>3. CallData' /\ cfg'.at \in Returned \cup {"undo settings"}
    BY <1>4, <2>2, ReturnFacts, GotoFacts DEF CallData, Steps
  <2>4. CallWaits'
    BY <1>4, <2>3 DEF CallWaits, Idle, Waiting, Returned
  <2>5. KeysInv' /\ RollbackInv'
    BY <1>2, <2>3 DEF KeysInv, RollbackInv, Returned
  <2> QED BY <2>3, <2>4, <2>5 DEF CallInv
<1>5. torn \in BOOLEAN
  BY DEF CallData
<1>6. CASE DialSucceeded /\ UNCHANGED cfgVars
  <2>1. op'.at = "mark"
    BY <1>6 DEF DialSucceeded, IInv, TypeOK, Op
  <2> QED BY <1>3, <1>5, <1>6, <2>1 DEF cfgVars, Idle
<1>7. CASE DialFailed /\ Answered(FALSE) /\ UNCHANGED torn
  BY <1>4, <1>5, <1>7 DEF DialFailed
<1>8. ASSUME NEW saved \in BOOLEAN, MarkOnline(saved), Answered(saved), UNCHANGED torn
      PROVE  CallInv'
  BY <1>4, <1>5, <1>8 DEF MarkOnline
<1>9. CASE RestoreRuntime /\ torn' = FALSE /\ IF op' = Idle THEN Answered(TRUE) ELSE UNCHANGED cfg
  BY <1>3, <1>4, <1>9
<1> QED BY <1>6, <1>7, <1>8, <1>9 DEF AnswerStep

(* What was fresh stays so while neither the clients nor the keys change. *)
LEMMA FreshKept ==
    ASSUME FreshKeys, client' = client, op' = op, globalKeys' = globalKeys
    PROVE  FreshKeys'
BY DEF FreshKeys, Resolve

(* A save of the settings is either without effect on the keys or followed by a reload. *)
LEMMA UpdatePreserves ==
    ASSUME CfgInv, NEW keys \in BOOLEAN, NEW saved \in BOOLEAN, UpdateSettings(keys, saved)
    PROVE  CallInv'
<1> USE DEF CfgInv, CallInv, UpdateSettings
<1>1. conns' = conns /\ client' = client /\ op' = op /\ torn' = torn
  BY DEF StoreSettings
<1>2. PICK what \in {"ok", "save failed", "reload"} : cfg' = [NoCall EXCEPT !.at = what]
  BY DEF Return
<1>3. CallData' /\ cfg'.at = what
  BY <1>1, <1>2, MemoryIsDocument DEF CallData, NoCall, Steps, Returned
<1>4. cfg.at \notin Waiting /\ cfg'.at \notin Waiting
  BY <1>3 DEF NoneRunning, Returned, Waiting
<1>5. CallWaits' /\ RollbackInv'
  BY <1>1, <1>3, <1>4 DEF CallWaits, RollbackInv
<1>6. KeysInv'
  <2>1. what # "reload" => globalKeys' = globalKeys
    BY <1>2 DEF Return, StoreSettings, NoCall
  <2>2. torn \/ FreshKeys
    BY <1>4 DEF KeysInv, NoneRunning, Returned
  <2>3. what # "reload" /\ FreshKeys => FreshKeys'
    BY <1>1, <2>1, FreshKept
  <2>4. torn' = torn /\ cfg'.at = what
    BY <1>1, <1>3
  <2> HIDE DEF UpdateSettings, CfgInv, CallInv
  <2> QED BY <2>2, <2>3, <2>4 DEF KeysInv
<1> QED BY <1>3, <1>5, <1>6 DEF CallInv

(* An import remembers both domains and goes on to apply what it changes. *)
LEMMA ImportPreserves ==
    ASSUME CfgInv, NEW included \in BOOLEAN, NEW settings \in BOOLEAN,
           NEW keys \in BOOLEAN, NEW saved \in BOOLEAN,
           ImportAllConfig(included, settings, keys, saved)
    PROVE  CallInv'
<1> USE DEF CfgInv, CallInv
<1>1. conns' = conns /\ client' = client /\ op' = op /\ torn' = torn
  BY DEF ImportAllConfig, StoreSettings
<1>2. globalKeys \in BOOLEAN
  BY DEF IInv, TypeOK
<1>3. \/ /\ \E what \in {"ok", "save failed"} : Return(what)
         /\ globalKeys' = globalKeys
      \/ cfg' = [at |-> "apply", included |-> included, settings |-> settings,
                 prevKeys |-> globalKeys, prevConns |-> Written(conns), failed |-> FALSE]
  BY DEF ImportAllConfig, StoreSettings
<1>5. cfg.at \notin Waiting
  BY DEF ImportAllConfig, NoneRunning, Returned, Waiting
<1>4. CASE \E what \in {"ok", "save failed"} : Return(what) /\ globalKeys' = globalKeys
  <2>1. CallData' /\ cfg'.at \in {"ok", "save failed"}
    BY <1>1, <1>4, ReturnFacts DEF CallData, Returned
  <2>2. torn \/ FreshKeys
    BY DEF KeysInv, ImportAllConfig, NoneRunning, Returned, Waiting
  <2>3. FreshKeys => FreshKeys'
    BY <1>1, <1>4, FreshKept
  <2>4. KeysInv'
    BY <1>1, <2>2, <2>3 DEF KeysInv
  <2>5. CallWaits' /\ RollbackInv'
    BY <1>1, <1>5, <2>1 DEF CallWaits, RollbackInv, Waiting
  <2> QED BY <2>1, <2>4, <2>5 DEF CallInv
<1>6. CASE cfg' = [at |-> "apply", included |-> included, settings |-> settings,
                   prevKeys |-> globalKeys, prevConns |-> Written(conns), failed |-> FALSE]
  <2>1. CallData' /\ cfg'.at = "apply"
    BY <1>1, <1>2, <1>6, MemoryIsDocument DEF CallData, Steps
  <2>2. CallWaits' /\ KeysInv' /\ RollbackInv'
    BY <1>1, <1>5, <2>1 DEF CallWaits, KeysInv, RollbackInv, Waiting
  <2> QED BY <2>1, <2>2 DEF CallInv
<1> QED BY <1>3, <1>4, <1>6

(* What a reload or a replacement starts is a restore. *)
LEMMA RestoreStarts ==
    ASSUME IInv, NEW input \in Documents,
           Reload(TRUE) \/ ReplaceConnections(input, TRUE)
    PROVE  /\ op'.at = "restore" /\ op'.restoring /\ globalKeys' = globalKeys
           /\ ReplaceConnections(input, TRUE) => conns' \in Loads(Prepare(input))
BY DEF Reload, ReplaceConnections, SwapProfiles, Load, At, Idle

(* A file that cannot be read or written changes nothing. *)
LEMMA Refused ==
    ASSUME NEW input, Reload(FALSE) \/ ReplaceConnections(input, FALSE)
    PROVE  UNCHANGED <<conns, client, op, globalKeys>> /\ op = Idle
BY DEF Reload, ReplaceConnections

(* A call that starts a restore waits for it; one that could not has said so. *)
LEMMA StartReloadPreserves ==
    ASSUME CfgInv, NEW read \in BOOLEAN, StartReload(read)
    PROVE  CallInv'
<1> USE DEF CfgInv, CallInv
<1>1. CASE read
  <2>1. Reload(TRUE) /\ Goto("reloading") /\ torn' = torn
    BY <1>1 DEF StartReload
  <2>2. op'.at = "restore" /\ op'.restoring
    BY <2>1, MemoryIsDocument, RestoreStarts
  <2>3. CallData' /\ cfg'.at = "reloading"
    BY <2>1, GotoFacts DEF CallData, Steps, Waiting
  <2>4. CallWaits' /\ KeysInv' /\ RollbackInv'
    BY <2>2, <2>3 DEF CallWaits, KeysInv, RollbackInv, Waiting
  <2> QED BY <2>3, <2>4 DEF CallInv
<1>2. CASE ~read
  <2>1. Reload(FALSE) /\ Return("reload failed") /\ torn' = TRUE /\ cfg.at = "reload"
    BY <1>2 DEF StartReload
  <2>2. op' = op
    BY <2>1, Refused
  <2>3. CallData' /\ cfg'.at = "reload failed"
    BY <2>1, ReturnFacts DEF CallData, Returned
  <2>4. CallWaits' /\ KeysInv' /\ RollbackInv'
    BY <2>1, <2>2, <2>3 DEF CallWaits, KeysInv, RollbackInv, Waiting
  <2> QED BY <2>3, <2>4 DEF CallInv
<1> QED BY <1>1, <1>2

(* An import that cannot replace the profiles, or reload them, goes on to undo. *)
LEMMA ApplyPreserves ==
    ASSUME CfgInv, NEW ok \in BOOLEAN, ApplyConnections(ok)
    PROVE  CallInv'
<1> USE DEF CfgInv, CallInv
<1>1. cfg.at \notin Waiting /\ torn' = torn
  BY DEF ApplyConnections, Waiting
<1>2. PICK input \in Documents : Reload(ok) \/ ReplaceConnections(input, ok)
  BY MemoryIsDocument DEF ApplyConnections, Imported
<1>3. CASE ok
  <2>1. op'.at = "restore" /\ op'.restoring
    BY <1>2, <1>3, RestoreStarts
  <2>2. CallData' /\ cfg'.at = "applying"
    BY <1>1, <1>3, GotoFacts DEF ApplyConnections, CallData, Steps, Waiting
  <2>3. CallWaits' /\ KeysInv' /\ RollbackInv'
    BY <2>1, <2>2 DEF CallWaits, KeysInv, RollbackInv, Waiting
  <2> QED BY <2>2, <2>3 DEF CallInv
<1>4. CASE ~ok
  <2>1. op' = op
    BY <1>2, <1>4, Refused
  <2>2. CallData' /\ cfg'.at = "undo settings"
    BY <1>1, <1>4, GotoFacts DEF ApplyConnections, CallData, Steps
  <2>3. CallWaits' /\ KeysInv' /\ RollbackInv'
    BY <1>1, <2>1, <2>2 DEF CallWaits, KeysInv, RollbackInv, Waiting
  <2> QED BY <2>2, <2>3 DEF CallInv
<1> QED BY <1>3, <1>4

(* Once the settings are back, or said not to be, the connections are next. *)
LEMMA UndoSettingsPreserves ==
    ASSUME CfgInv, NEW saved \in BOOLEAN, UndoSettings(saved)
    PROVE  CallInv'
<1> USE DEF CfgInv, CallInv
<1>1. op' = op /\ cfg.at \notin Waiting
  BY DEF UndoSettings, StoreSettings, Waiting
<1>2. /\ CallData' /\ cfg'.at = "undo connections" /\ cfg'.settings = cfg.settings
      /\ cfg'.prevKeys = cfg.prevKeys /\ cfg'.failed = (cfg.settings /\ ~saved)
  BY DEF UndoSettings, CallData, Steps
<1>3. CallWaits' /\ KeysInv'
  BY <1>1, <1>2 DEF CallWaits, KeysInv, Waiting
<1>4. RollbackInv'
  BY <1>2 DEF RollbackInv, UndoSettings, StoreSettings
<1> QED BY <1>2, <1>3, <1>4 DEF CallInv

(* The profiles of before are back in memory when the last wait begins. *)
LEMMA UndoConnectionsPreserves ==
    ASSUME CfgInv, NEW saved \in BOOLEAN, UndoConnections(saved)
    PROVE  CallInv'
<1> USE DEF CfgInv, CallInv
<1>1. cfg.prevConns \in Documents /\ InOrder(cfg.prevConns) /\ cfg.at = "undo connections"
  BY DEF CallData, UndoConnections
<1>2. CASE saved
  <2>1. ReplaceConnections(cfg.prevConns, TRUE) /\ Goto("undoing") /\ torn' = torn
    BY <1>2 DEF UndoConnections
  <2>2. /\ op'.at = "restore" /\ op'.restoring /\ globalKeys' = globalKeys
        /\ DOMAIN conns' = DOMAIN cfg.prevConns
    BY <1>1, <2>1, RestoreStarts, PreparedLoads
  <2>3. /\ CallData' /\ cfg'.at = "undoing" /\ cfg'.settings = cfg.settings
        /\ cfg'.prevKeys = cfg.prevKeys /\ cfg'.failed = cfg.failed
        /\ cfg'.prevConns = cfg.prevConns
    BY <2>1 DEF Goto, CallData, Steps, Waiting
  <2>4. CallWaits' /\ KeysInv'
    BY <2>2, <2>3 DEF CallWaits, KeysInv, Waiting
  <2>5. RollbackInv'
    BY <1>1, <2>2, <2>3 DEF RollbackInv
  <2> QED BY <2>3, <2>4, <2>5 DEF CallInv
<1>3. CASE ~saved
  <2>1. ReplaceConnections(cfg.prevConns, FALSE) /\ Return("rollback failed") /\ torn' = TRUE
    BY <1>3 DEF UndoConnections
  <2>2. op' = op
    BY <2>1, Refused
  <2>3. CallData' /\ cfg'.at = "rollback failed"
    BY <2>1, ReturnFacts DEF CallData, Returned
  <2>4. CallWaits' /\ KeysInv' /\ RollbackInv'
    BY <1>1, <2>1, <2>2, <2>3 DEF CallWaits, KeysInv, RollbackInv, Waiting
  <2> QED BY <2>3, <2>4 DEF CallInv
<1> QED BY <1>2, <1>3

(* The end of the process ends the call with everything closed. *)
LEMMA ConfigRestartPreserves ==
    ASSUME CfgInv, ConfigRestart
    PROVE  CallInv'
<1>1. op' = Idle /\ client' = EmptyMap /\ cfg' = NoCall /\ torn' = FALSE
  BY DEF ConfigRestart, Restart, CloseAll
<1>2. CallData'
  BY <1>1, MemoryIsDocument DEF CfgInv, CallInv, CallData, NoCall, Steps, Returned
<1>3. CallWaits' /\ KeysInv' /\ RollbackInv'
  BY <1>1 DEF CallWaits, KeysInv, RollbackInv, FreshKeys, Idle, NoCall, EmptyMap, Waiting
<1> QED BY <1>2, <1>3 DEF CallInv

--------------------------------------------------------------------------------
(* The program starts with everything closed and no call. *)
LEMMA ConfigInitInv == ConfigInit => CfgInv
<1> SUFFICES ASSUME ConfigInit PROVE CfgInv
  OBVIOUS
<1>1. IInv
  BY InitInv DEF ConfigInit
<1>2. CallData
  BY <1>1, MemoryIsDocument DEF ConfigInit, CallData, NoCall, Steps, Returned
<1>3. CallWaits /\ KeysInv /\ RollbackInv
  BY DEF ConfigInit, Init, CallWaits, KeysInv, RollbackInv, FreshKeys, Idle, NoCall, EmptyMap,
         Waiting
<1> QED BY <1>1, <1>2, <1>3 DEF CfgInv, CallInv

(* Every step keeps the invariant. *)
LEMMA ConfigNextInv == CfgInv /\ [ConfigNext]_allVars => CfgInv'
<1> SUFFICES ASSUME CfgInv, [ConfigNext]_allVars PROVE CfgInv'
  OBVIOUS
<1>1. IInv'
  BY StepsAreCalls, NextInv DEF CfgInv, CallInv
<1>2. ASSUME ConfigStep PROVE CallInv'
  BY <1>2, StartReloadPreserves, AnswerPreserves, ApplyPreserves, UndoSettingsPreserves,
     UndoConnectionsPreserves DEF ConfigStep
<1>3. ASSUME ConfigCall PROVE CallInv'
  BY <1>3, ImportPreserves, UpdatePreserves DEF ConfigCall, ResetSettings
<1>4. ASSUME WindowStep PROVE CallInv'
  BY <1>4, WindowPreserves
<1>5. ASSUME ConfigRestart PROVE CallInv'
  BY <1>5, ConfigRestartPreserves
<1>6. ASSUME UNCHANGED allVars PROVE CallInv'
  BY <1>6 DEF CfgInv, CallInv, CallData, CallWaits, KeysInv, RollbackInv, FreshKeys, Resolve,
             allVars, vars, cfgVars
<1>7. CallInv'
  BY <1>2, <1>3, <1>4, <1>5, <1>6 DEF ConfigNext
<1> QED BY <1>1, <1>7 DEF CfgInv, CallInv

(* The invariant holds in every behaviour. *)
LEMMA ConfigInductive == ConfigSpec => []CfgInv
BY ConfigInitInv, ConfigNextInv, PTL DEF ConfigSpec

(* Saving, resetting and importing settings do to the connections only what the
   connection service allows: every behaviour under the configuration service is one of
   Connections, so its invariants hold during an import and a rollback too. *)
THEOREM ImplementsConnections == ConfigSpec => Spec
<1>1. ConfigInit => Init
  BY DEF ConfigInit
<1>2. CfgInv /\ [ConfigNext]_allVars => [Next]_vars
  BY StepsAreCalls
<1> QED BY <1>1, <1>2, ConfigInductive, PTL DEF ConfigSpec, Spec

(* Every variable of a configuration call keeps its type. *)
THEOREM ConfigTypeCorrect == ConfigSpec => []ConfigTypeOK
<1>1. CfgInv => ConfigTypeOK
  BY DEF CfgInv, CallInv, CallData, ConfigTypeOK, IInv, Steps, Waiting
<1> QED BY <1>1, ConfigInductive, PTL

(* No configuration call returns with a client that has other credentials than the
   settings, whatever connects, edits and failing dials fall between the save of the
   settings and the reload (service.go's updateSettings); but for a call that has said
   it failed, with a rollback that could not write or a reload that could not read. *)
THEOREM CredentialsAreFresh == ConfigSpec => []NoStaleCredentials
<1>1. CfgInv => NoStaleCredentials
  BY DEF CfgInv, CallInv, KeysInv, FreshKeys, NoStaleCredentials, NoneRunning, Returned, Waiting
<1> QED BY <1>1, ConfigInductive, PTL

(* A failed import that reports itself rolled back (import.go's rollback) has put back
   the keys of before and a profile under every id of before. *)
THEOREM RollbackKeepsIds == ConfigSpec => RollbackRestoresIds
<1> DEFINE Restores ==
       cfg.at = "undoing" /\ cfg'.at = "rolled back" =>
          /\ cfg.settings => globalKeys' = cfg.prevKeys
          /\ DOMAIN cfg.prevConns \subseteq DOMAIN conns'
<1>1. CfgInv /\ [ConfigNext]_allVars => [Restores]_allVars
  <2> SUFFICES ASSUME CfgInv, ConfigNext, cfg.at = "undoing", cfg'.at = "rolled back"
               PROVE  /\ cfg.settings => globalKeys' = cfg.prevKeys
                      /\ DOMAIN cfg.prevConns \subseteq DOMAIN conns'
    OBVIOUS
  <2>1. AnswerStep
    <3>1. ~ConfigCall
      BY DEF ConfigCall, ResetSettings, UpdateSettings, ImportAllConfig, NoneRunning, Returned
    <3>2. ~\E ok \in BOOLEAN : \/ StartReload(ok) \/ ApplyConnections(ok)
                               \/ UndoSettings(ok) \/ UndoConnections(ok)
      BY DEF StartReload, ApplyConnections, UndoSettings, UndoConnections
    <3>3. ~WindowStep
      <4>1. cfg' # cfg
        OBVIOUS
      <4> QED BY <4>1 DEF WindowStep, cfgVars
    <3>4. ~ConfigRestart
      <4>1. NoCall.at = "none"
        BY DEF NoCall
      <4> QED BY <4>1 DEF ConfigRestart
    <3> QED BY <3>1, <3>2, <3>3, <3>4 DEF ConfigNext, ConfigStep
  <2>2. HolderStep
    BY <2>1 DEF AnswerStep, HolderStep
  <2>3. globalKeys' = globalKeys /\ DOMAIN conns' = DOMAIN conns
    BY <2>2, HolderFacts DEF CfgInv, CallInv
  <2>4. PICK ok \in BOOLEAN : Answered(ok)
    BY <2>1 DEF AnswerStep, cfgVars
  <2>5. ~cfg.failed
    BY <2>4 DEF Answered, Return, NoCall
  <2> QED BY <2>3, <2>5 DEF CfgInv, CallInv, RollbackInv
<1> QED BY <1>1, ConfigInductive, PTL DEF ConfigSpec, RollbackRestoresIds
================================================================================
