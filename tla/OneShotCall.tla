---------------------------- MODULE OneShotCall -----------------------------
(* What an asynchronous call of the client promises its caller: each use of  *)
(* a request object is answered exactly once, its resources are released     *)
(* exactly once and after the answer, and the object is not used again       *)
(* before that. ProcessingPipeline implements it.                            *)
EXTENDS Naturals

CONSTANT Generations    \* how often the object is used

Gens == 1 .. Generations

VARIABLE phase

Init == phase = [g \in Gens |-> "idle"]

(* A use begins when every earlier one is over.                              *)
Open(g) ==
  /\ phase[g] = "idle"
  /\ \A h \in Gens : h < g => phase[h] = "closed"
  /\ phase' = [phase EXCEPT ![g] = "open"]

Answer(g) ==
  /\ phase[g] = "open"
  /\ phase' = [phase EXCEPT ![g] = "answered"]

Close(g) ==
  /\ phase[g] = "answered"
  /\ phase' = [phase EXCEPT ![g] = "closed"]

Next == \E g \in Gens : Open(g) \/ Answer(g) \/ Close(g)

SafeSpec == Init /\ [][Next]_phase

Spec == SafeSpec /\ \A g \in Gens : WF_phase(Answer(g)) /\ WF_phase(Close(g))
=============================================================================
