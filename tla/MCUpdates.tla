------------------------------- MODULE MCUpdates -------------------------------
(* The update manager and the window's half of it, for TLC.  What the manager does to
   the window is any sequence of states to Updater, so a behaviour of this instance runs
   one of the two and leaves the other where it starts.  The manager's threads are
   interchangeable. *)
EXTENDS UpdateManager, TLC

CONSTANTS MaxStates, MaxCalls

ASSUME WindowAssumption == MaxStates \in Nat /\ MaxCalls \in Nat \ {0}

VARIABLES part,
          manager, published, wire, state, checking, announced, standing, replaced,
          calls, astray

Window == INSTANCE Updater WITH pending <- published

windowVars == <<manager, published, wire, state, checking, announced, standing, replaced,
                calls, astray>>

(* The parts that rest start in one state. *)
UpdatesInit ==
    /\ part \in {"manager", "window"}
    /\ Init /\ (part # "manager" => installable)
    /\ Window!Init /\ (part # "window" => manager.latest = 0 /\ manager.skipped = 0)

UpdatesNext ==
    \/ part = "manager" /\ Next /\ UNCHANGED <<part, windowVars>>
    \/ part = "window" /\ Window!Next /\ UNCHANGED <<part, vars>>

UpdatesSpec == UpdatesInit /\ [][UpdatesNext]_<<part, vars, windowVars>>

ThreadPermutations == Permutations(Threads)

(* The window's half is true to the manager: it shows what was last published, the
   announcement it keeps track of is on offer and what is on offer was announced, and its
   spinner has a check that takes it away. *)
WindowFollows ==
    /\ Window!TypeOK
    /\ Window!StateIsGos
    /\ Window!StandingIsOffered
    /\ Window!OfferWasAnnounced
    /\ Window!CheckingHasCall

(* No announcement is left on the screen about a release that was taken, skipped or
   overtaken. *)
ToastsAreOnOffer == Window!NoToastOutlives
================================================================================
