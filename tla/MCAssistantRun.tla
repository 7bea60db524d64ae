---------------------------- MODULE MCAssistantRun ----------------------------
(* AssistantRun for TLC: the brokers are interchangeable. *)
EXTENDS AssistantRun, TLC

BrokerSymmetry == Permutations(Brokers)
================================================================================
