----------------------------- MODULE Configuration -----------------------------
(***************************************************************************)
(* The configuration service (internal/service/configuration) over the     *)
(* settings service and the connection service: saving settings, resetting *)
(* them, and importing an exported configuration with a rollback.          *)
(*                                                                         *)
(* The service's own mutex lets one call run at a time: cfg is that call.  *)
(* It takes no lock of the connection service between its steps, so the    *)
(* window's calls run between any two of them.  The only setting a         *)
(* connection depends on is the global key pair, globalKeys; settings      *)
(* that leave it alone are settings with the same globalKeys.              *)
(***************************************************************************)
EXTENDS Connections

CONSTANT ImportSize \* bound: the most profiles an imported file holds

VARIABLES cfg,  \* the configuration call under way, or what the last one returned
          torn  \* a call has failed and said so with the clients not closed, and
                \* they have not been closed since: a rollback that could not
                \* write, a reload that could not read

cfgVars == <<cfg, torn>>
allVars == <<vars, cfgVars>>

(* What a call returns; "none" before the first. *)
Returned == {"none", "ok", "save failed", "reload failed", "rolled back", "rollback failed"}

NoCall == [at |-> "none", included |-> FALSE, settings |-> FALSE,
           prevKeys |-> FALSE, prevConns |-> EmptyMap,
           failed |-> FALSE]

NoneRunning == cfg.at \in Returned

ConfigTypeOK ==
    /\ TypeOK
    /\ cfg.at \in Returned \cup {"reload", "reloading", "apply", "applying",
                                 "undo settings", "undo connections", "undoing"}
    /\ {cfg.included, cfg.settings, cfg.prevKeys, cfg.failed, torn} \subseteq BOOLEAN
    /\ cfg.prevConns \in Documents

ConfigInit == Init /\ cfg = NoCall /\ torn = FALSE

Return(what) == cfg' = [NoCall EXCEPT !.at = what]
Goto(step) == cfg' = [cfg EXCEPT !.at = step]

(* settings.UpdateSettings: in memory and on disk, or neither. *)
StoreSettings(keys) ==
    /\ globalKeys' = keys
    /\ UNCHANGED <<conns, nextID, file, unread, client, activeID, reconnectReload, op>>

--------------------------------------------------------------------------------
(* Mutant: the clients keep the credentials they were dialled with. *)
UpdateSettingsOnly(keys, saved) ==
    /\ NoneRunning
    /\ StoreSettings(IF saved THEN keys ELSE globalKeys)
    /\ Return(IF saved THEN "ok" ELSE "save failed")
    /\ UNCHANGED torn

(* UpdateSettings and ResetSettings: a change of the global key pair is
   followed by a reload, whose failure is reported and undoes nothing. *)
UpdateSettings(keys, saved) ==
    /\ NoneRunning
    /\ StoreSettings(IF saved THEN keys ELSE globalKeys)
    /\ \/ ~saved /\ Return("save failed")
       \/ saved /\ keys = globalKeys /\ Return("ok")
       \/ saved /\ keys # globalKeys /\ Return("reload")
    /\ UNCHANGED torn

ResetSettings(saved) == UpdateSettings(FALSE, saved)

(* The keys are saved by now; a reload that cannot read the file leaves the
   clients as they were dialled. *)
StartReload(read) ==
    /\ cfg.at = "reload"
    /\ Reload(read)
    /\ \/ read /\ Goto("reloading") /\ UNCHANGED torn
       \/ ~read /\ Return("reload failed") /\ torn' = TRUE

(* importConfig up to applyConnections: remember both domains, then save the
   imported settings if there are any.  included says whether the file holds
   connections; they are first used by applyConnections. *)
ImportAllConfig(included, settings, keys, saved) ==
    /\ NoneRunning
    /\ included \/ settings
    /\ LET stored == settings /\ saved
           changed == stored /\ keys # globalKeys
       IN /\ StoreSettings(IF stored THEN keys ELSE globalKeys)
          /\ \/ settings /\ ~saved /\ Return("save failed")
             \/ /\ settings => saved
                /\ ~included /\ ~changed
                /\ Return("ok")
             \/ /\ settings => saved
                /\ included \/ changed
                /\ cfg' = [at |-> "apply", included |-> included, settings |-> settings,
                           prevKeys |-> globalKeys, prevConns |-> Written(conns),
                           failed |-> FALSE]
    /\ UNCHANGED torn

(* What an import holds: any records, whatever their ids and defaults. *)
Imported == {doc \in Documents : \E n \in 0..ImportSize : DOMAIN doc = 1..n}

(* applyConnections: replace the connections, or reload them for the new
   keys; ok says whether the file could be written, or read. *)
ApplyConnections(ok) ==
    /\ cfg.at = "apply"
    /\ \/ cfg.included /\ \E input \in Imported : ReplaceConnections(input, ok)
       \/ ~cfg.included /\ Reload(ok)
    /\ Goto(IF ok THEN "applying" ELSE "undo settings")
    /\ UNCHANGED torn

(* Mutant: the imported settings stay. *)
KeepSettings(saved) ==
    /\ cfg.at = "undo settings"
    /\ StoreSettings(globalKeys)
    /\ Goto("undo connections")
    /\ UNCHANGED torn

(* rollback: both halves are tried whatever becomes of the other. *)
UndoSettings(saved) ==
    /\ cfg.at = "undo settings"
    /\ StoreSettings(IF cfg.settings /\ saved THEN cfg.prevKeys ELSE globalKeys)
    /\ LET failed == cfg.settings /\ ~saved
       IN /\ cfg' = [cfg EXCEPT !.at = "undo connections", !.failed = failed]
          /\ torn' = (torn \/ failed)

UndoConnections(saved) ==
    /\ cfg.at = "undo connections"
    /\ ReplaceConnections(cfg.prevConns, saved)
    /\ \/ saved /\ Goto("undoing") /\ UNCHANGED torn
       \/ ~saved /\ Return("rollback failed") /\ torn' = TRUE

(* Mutant: a rollback whose reconnect fails is rolled back again. *)
AnsweredAgain(ok) ==
    \/ cfg.at = "reloading" /\ Return(IF ok THEN "ok" ELSE "reload failed")
    \/ cfg.at \in {"applying", "undoing"} /\ ok /\ Return("ok")
    \/ cfg.at \in {"applying", "undoing"} /\ ~ok /\ Goto("undo settings")

(* The connection service answers the call. *)
Answered(ok) ==
    \/ cfg.at = "reloading" /\ Return(IF ok THEN "ok" ELSE "reload failed")
    \/ cfg.at = "applying" /\ ok /\ Return("ok")
    \/ cfg.at = "applying" /\ ~ok /\ Goto("undo settings")
    \/ cfg.at = "undoing" /\ Return(IF ok /\ ~cfg.failed THEN "rolled back" ELSE "rollback failed")

(* The steps of a Reload or ReplaceConnections this service is waiting for. *)
AnswerStep ==
    /\ op.restoring
    /\ \/ DialSucceeded /\ UNCHANGED cfgVars
       \/ DialFailed /\ Answered(FALSE) /\ UNCHANGED torn
       \/ \E saved \in BOOLEAN : MarkOnline(saved) /\ Answered(saved) /\ UNCHANGED torn
       \/ /\ RestoreRuntime
          /\ torn' = FALSE
          /\ IF op' = Idle THEN Answered(TRUE) ELSE UNCHANGED cfg

(* Everything the window does on its own. *)
WindowStep ==
    /\ Call \/ (HolderStep /\ ~op.restoring)
    /\ UNCHANGED cfgVars

ConfigRestart ==
    /\ \E read \in BOOLEAN : Restart(read)
    /\ cfg' = NoCall /\ torn' = FALSE

ConfigStep ==
    \/ AnswerStep
    \/ \E ok \in BOOLEAN :
          \/ StartReload(ok) \/ ApplyConnections(ok)
          \/ UndoSettings(ok) \/ UndoConnections(ok)

ConfigCall ==
    \E saved \in BOOLEAN :
       \/ ResetSettings(saved)
       \/ \E keys \in BOOLEAN :
             \/ UpdateSettings(keys, saved)
             \/ \E included, settings \in BOOLEAN :
                   ImportAllConfig(included, settings, keys, saved)

ConfigNext == ConfigStep \/ ConfigCall \/ WindowStep \/ ConfigRestart

ConfigSpec == ConfigInit /\ [][ConfigNext]_allVars

(* runtimeMu is a sync.Mutex, which does not starve a waiter, and its holder
   always moves on: every dial ends, by its own timeout at the latest. *)
ConfigLiveSpec ==
    /\ ConfigSpec
    /\ WF_allVars(WindowStep /\ HolderStep)
    /\ SF_allVars(ConfigStep)

--------------------------------------------------------------------------------
(* Properties. *)

(* Once a configuration call has returned, no open client is dialled with
   global credentials the settings no longer hold, or without ones they do:
   the save of the settings and the reload are two steps, and connects, edits
   and failing dials fall between them.  The exception is a call that has said
   it failed with the clients not closed, until something closes them: a
   rollback that could not write, and a change of the keys that was saved
   while connections.json could not be read.  Every other "reload failed",
   with the dial of the default failing after the clients are closed, is not
   excepted. *)
NoStaleCredentials ==
    NoneRunning /\ ~torn =>
        \A id \in DOMAIN client : client[id] = Resolve(client[id].par)

(* A failed import that reports itself rolled back has put the settings back
   and every profile of before under its id. *)
RollbackRestoresIds ==
    [][ cfg.at = "undoing" /\ cfg'.at = "rolled back" =>
           /\ cfg.settings => globalKeys' = cfg.prevKeys
           /\ DOMAIN cfg.prevConns \subseteq DOMAIN conns' ]_allVars

(* The same, with the profiles as they were: what the test "failed connection
   apply rolls back both domains" states of the connections. *)
RollsBackBothDomains ==
    [][ cfg.at = "undoing" /\ cfg'.at = "rolled back" =>
           \A id \in DOMAIN cfg.prevConns : conns'[id].par = cfg.prevConns[id].par ]_allVars

(* The configuration mutex and runtimeMu are never held across each other:
   every settings save and every import returns. *)
ConfigReturns == ~NoneRunning ~> NoneRunning
================================================================================
