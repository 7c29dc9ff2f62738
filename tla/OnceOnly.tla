------------------------------- MODULE OnceOnly -------------------------------
(***************************************************************************)
(* What the ledger promises of one external action (INV-16 in              *)
(* docs/M0-business-invariants.md): it is put on record before it is made, *)
(* at most once, and its result is decided at most once.  A task whose     *)
(* result is lost ends as unknown and is never sent again; a task that     *)
(* needs no external action is decided without one.                        *)
(***************************************************************************)
EXTENDS Naturals

CONSTANT Tasks

VARIABLES
  phase,    \* [Tasks -> "open", "inflight" or the verdict]
  sent      \* [Tasks -> external actions put on record]

Verdicts == {"succeeded", "failed", "outcome_unknown"}

(* A task may already be in flight when the observation starts. *)
Init ==
  /\ phase \in [Tasks -> {"open", "inflight"}]
  /\ sent = [t \in Tasks |-> IF phase[t] = "inflight" THEN 1 ELSE 0]

Send(t) ==
  /\ phase[t] = "open"
  /\ phase' = [phase EXCEPT ![t] = "inflight"]
  /\ sent' = [sent EXCEPT ![t] = @ + 1]

Decide(t, v) ==
  /\ \/ phase[t] = "inflight"
     \/ phase[t] = "open" /\ v # "failed"
  /\ phase' = [phase EXCEPT ![t] = v]
  /\ UNCHANGED sent

(* Several tasks in flight are given up in one step. *)
GiveUp(lost) ==
  /\ \A t \in lost : phase[t] = "inflight"
  /\ phase' = [t \in Tasks |-> IF t \in lost THEN "outcome_unknown" ELSE phase[t]]
  /\ UNCHANGED sent

Next ==
  \/ \E t \in Tasks : Send(t) \/ \E v \in Verdicts : Decide(t, v)
  \/ \E lost \in SUBSET Tasks : GiveUp(lost)

Spec == Init /\ [][Next]_<<phase, sent>>
=============================================================================
