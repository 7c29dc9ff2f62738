----------------------------- MODULE MCCaseIntake -----------------------------
(* CaseIntake with two paths, of which both are saved or only one is.      *)
EXTENDS CaseIntake

CONSTANTS a, b

Case(files, calls, claims) == [saved |-> files, calls |-> calls, claims |-> claims]
CasesVal ==
  {Case({a, b}, {"import"}, 3), Case({a}, {"import"}, 2),
   Case({a}, {"project", "create"}, 3), Case({a}, {"provenance"}, 4), Case({a}, {"time"}, 3)}
InputsVal == {Original} \cup 1..MaxStamps
=============================================================================
