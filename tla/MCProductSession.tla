--------------------------- MODULE MCProductSession ---------------------------
(* ProductSession on small sets. *)
EXTENDS ProductSession, TLC

CONSTANT ok, bad, input

EnvelopesMC == {ok, bad}
GoodMC == {ok}
InputsMC == {input}
DigestMC == [t \in Tasks |-> input]
Symmetry == Permutations(Tasks) \cup Permutations(Pids)
=============================================================================
