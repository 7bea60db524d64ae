----------------------------- MODULE MCConnections -----------------------------
(* The connection service for TLC, alone and under the configuration service: a
   behaviour of this instance has the calls of the one, with profiles of many kinds, or
   those of both, with few. *)
EXTENDS Configuration

CONSTANTS AllAddresses, AllOptions, AllMechanisms \* the profiles' of the service alone

VARIABLE part

Service == INSTANCE Connections WITH Addresses <- AllAddresses, Options <- AllOptions,
                                     Mechanisms <- AllMechanisms

(* Alone, nothing closes the clients when the global keys change: torn says so. *)
ServicesInit ==
    /\ part \in {"connections", "configuration"}
    /\ IF part = "connections" THEN Service!Init ELSE Init /\ file \in Imported
    /\ cfg = NoCall /\ torn = (part = "connections")

ServicesNext ==
    /\ \/ part = "connections" /\ Service!Next /\ UNCHANGED cfgVars
       \/ part = "configuration" /\ ConfigNext
    /\ UNCHANGED part

ServicesSpec == ServicesInit /\ [][ServicesNext]_<<part, allVars>>
================================================================================
