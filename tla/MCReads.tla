-------------------------------- MODULE MCReads ---------------------------------
(* The ways the window reads a broker, for TLC: a page's reads (BrokerData), a
   subscription's polls (LiveStream) and the alert sweeps (AlertCenter).  They share no
   state, so a behaviour of this instance runs one of them and leaves the others where
   they start. *)
EXTENDS BrokerData, Integers

CONSTANTS MaxStreams, MaxMessages, MaxCalls, Ring, Keep, \* subscription
          Conns, Rules, Listed, MaxSweeps, MaxChanges    \* alerts

ASSUME StreamAssumption ==
    {MaxStreams, MaxMessages, Ring, Keep} \subseteq Nat /\ MaxCalls \in Nat \ {0}
ASSUME AlertAssumption == MaxSweeps \in Nat \ {0} /\ MaxChanges \in Nat

VARIABLES part,
          received, open, mounted, subscription, cursor, running, messages, dropped,
          bridgeCalls, seen, crossed,
          profiles, firing, enabled, facts, records, readIds, sweeps, changes, acknowledged

Stream == INSTANCE LiveStream WITH calls <- bridgeCalls
Alerts == INSTANCE AlertCenter WITH seen <- acknowledged

streamVars == <<received, open, mounted, subscription, cursor, running, messages, dropped,
                bridgeCalls, seen, crossed>>
alertVars == <<profiles, firing, enabled, facts, records, readIds, sweeps, changes,
               acknowledged>>
readsVars == <<part, vars, streamVars, alertVars>>

(* The parts that rest start in one state. *)
ReadsInit ==
    /\ part \in {"page", "stream", "alerts"}
    /\ Init /\ (part # "page" => question = CHOOSE q \in Questions : TRUE)
    /\ Stream!Init
    /\ Alerts!Init /\ (part # "alerts" => \A c \in Conns : profiles[c] = "absent")

OnlyPage == part = "page" /\ UNCHANGED <<part, streamVars, alertVars>>
OnlyStream == part = "stream" /\ UNCHANGED <<part, vars, alertVars>>
OnlyAlerts == part = "alerts" /\ UNCHANGED <<part, vars, streamVars>>

ReadsNext ==
    \/ OnlyPage /\ Next
    \/ OnlyStream /\ Stream!Next
    \/ OnlyAlerts /\ Alerts!Next

(* The fairness of each, for the one that runs. *)
ReadsSpec ==
    /\ ReadsInit /\ [][ReadsNext]_readsVars
    /\ WF_readsVars(OnlyPage /\ \E c \in calls : Newest(c) /\ Answer(c))
    /\ WF_readsVars(OnlyPage /\ \E c \in calls : Newest(c) /\ Reply(c))
    /\ WF_readsVars(OnlyStream /\ Stream!Tick)
    /\ \A kind \in {"start", "list"} :
          WF_readsVars(OnlyStream /\ \E c \in Stream!Of(kind) :
              Stream!DriverStart(c) \/ Stream!DriverList(c) \/ Stream!StartReply(c) \/ Stream!Adopt(c))
    /\ \A no \in 1..MaxCalls :
          WF_readsVars(OnlyStream /\ \E c \in Stream!Of("poll") :
              c.no = no /\ (Stream!DriverPoll(c) \/ Stream!PollReply(c)))
    /\ WF_readsVars(OnlyAlerts /\ Alerts!Tick)
    /\ \A no \in 1..MaxSweeps :
          WF_readsVars(OnlyAlerts /\ \E s \in sweeps :
              s.no = no /\ (Alerts!Land(s) \/ \E c \in Conns : Alerts!Answer(s, c)))

(* A spinner has a read behind it, nothing fires by a rule that is off, and the state of
   each part has its shape. *)
ReadsConsistent ==
    /\ TypeOK /\ SpinnerHasRead
    /\ Stream!TypeOK
    /\ Alerts!TypeOK /\ Alerts!OffIsQuiet

(* No message is lost uncounted. *)
LossIsCounted == Stream!LossIsCounted

(* A panel notices that its stream is gone, and catches up with one that runs. *)
PanelCatchesUp == Stream!GoneIsNoticed /\ Stream!CatchesUp

(* An alert that was seen is not announced again before it has recovered. *)
SeenStaysQuiet == Alerts!SeenStaysQuiet

(* The bell catches up with the brokers. *)
BellCatchesUp == part = "alerts" => Alerts!BellCatchesUp
=================================================================================
