------------------------------- MODULE MCProgress -------------------------------
(* What must end does end, for the three parts of the program that hold work of
   their own: updates, the assistant's run, and the configuration calls.  They
   share no state, so a behaviour of this instance runs one of them and leaves
   the others where they start. *)
EXTENDS UpdateManager

CONSTANTS Reads, Writes, Destroys, TurnSize, Limit, MaxCalls, Brokers,
          Addresses, Options, Mechanisms, MaxID, NoDial, ImportSize

VARIABLES part,
          writesOn, profile, at, stopped, allow, turn, calls, limited, writes, asking,
          answer, remembered,
          conns, nextID, file, unread, client, activeID, reconnectReload, op, globalKeys, cfg, torn

Assistant == INSTANCE AssistantRun
Config == INSTANCE Configuration

assistantVars == <<writesOn, profile, at, stopped, allow, turn, calls, limited, writes,
                   asking, answer, remembered>>
configVars == <<conns, nextID, file, unread, client, activeID, reconnectReload, op, globalKeys,
                cfg, torn>>
ProgressInit ==
    /\ part \in {"updates", "assistant", "configuration"}
    /\ Init /\ Assistant!Init /\ Config!ConfigInit
    (* The parts that rest start in one state. *)
    /\ part # "updates" => installable
    /\ part # "assistant" => writesOn /\ profile = CHOOSE b \in Brokers : TRUE
    /\ part # "configuration" => file = Config!EmptyMap

OnlyUpdates == part = "updates" /\ UNCHANGED <<part, assistantVars, configVars>>
OnlyAssistant == part = "assistant" /\ UNCHANGED <<part, vars, configVars>>
OnlyConfig == part = "configuration" /\ UNCHANGED <<part, vars, assistantVars>>

ProgressNext ==
    \/ OnlyUpdates /\ Next
    \/ OnlyAssistant /\ Assistant!Next
    \/ OnlyConfig /\ Config!ConfigNext

everything == <<part, vars, assistantVars, configVars>>

(* The fairness of each part, for the part that runs. *)
ProgressSpec ==
    /\ ProgressInit /\ [][ProgressNext]_everything
    /\ \A t \in Threads : WF_everything(OnlyUpdates /\ ThreadStep(t))
    /\ WF_everything(OnlyAssistant /\ Assistant!RunStep)
    /\ WF_everything(OnlyConfig /\ Config!WindowStep /\ Config!HolderStep)
    /\ SF_everything(OnlyConfig /\ Config!ConfigStep)

(* A stopped run ends, also from an open question. *)
StopEnds == Assistant!StopEnds
(* A configuration call returns, and with it whoever holds runtimeMu. *)
ConfigReturns == Config!ConfigReturns
================================================================================
