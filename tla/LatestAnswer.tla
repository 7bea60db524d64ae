------------------------------ MODULE LatestAnswer ------------------------------
(* What a page may show of a question it keeps asking: nothing, or the answer to
   a request that no later request had replaced when it landed.  Requests are
   numbered in the order they are made; 0 is no answer. *)
EXTENDS Naturals

VARIABLES asked, \* the newest request
          shown  \* the request whose answer is on screen

vars == <<asked, shown>>

Init == asked \in Nat /\ shown = 0

(* A new request; the screen keeps its answer or is cleared. *)
Ask == asked' \in Nat /\ asked' > asked /\ shown' \in {shown, 0}

(* The newest request is answered, or fails. *)
Land == shown' \in {asked, 0} /\ UNCHANGED asked

Next == Ask \/ Land

Spec == Init /\ [][Next]_vars
================================================================================
