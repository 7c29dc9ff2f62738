----------------------------- MODULE SealedResult -----------------------------
(***************************************************************************)
(* What the product session promises of one task handed to the host: the   *)
(* task is dispatched once, its returned envelope is sealed once and never *)
(* replaced, the ledger judges it at most once and never against the       *)
(* envelope, and only a sealed envelope is consumed.  A task whose process *)
(* was lost is judged unknown; its envelope may still arrive, be sealed    *)
(* and consumed, without changing that verdict.                            *)
(***************************************************************************)
CONSTANTS Tasks, Envelopes, Good, None

VARIABLES
  verdict,    \* "none", "sent", "succeeded", "failed" or "outcome_unknown"
  sealed,     \* the envelope sealed for a task
  used        \* the envelope consumed for a task

Init ==
  /\ verdict = [t \in Tasks |-> "none"]
  /\ sealed = [t \in Tasks |-> None]
  /\ used = [t \in Tasks |-> None]

Send(t) ==
  /\ verdict[t] = "none"
  /\ verdict' = [verdict EXCEPT ![t] = "sent"]
  /\ UNCHANGED <<sealed, used>>

Seal(t, e) ==
  /\ verdict[t] \in {"sent", "outcome_unknown"}
  /\ sealed[t] = None
  /\ sealed' = [sealed EXCEPT ![t] = e]
  /\ UNCHANGED <<verdict, used>>

Judge(t) ==
  /\ verdict[t] = "sent"
  /\ sealed[t] # None
  /\ verdict' = [verdict EXCEPT ![t] =
       IF sealed[t] \in Good THEN "succeeded" ELSE "failed"]
  /\ UNCHANGED <<sealed, used>>

GiveUp(lost) ==
  /\ \A t \in lost : verdict[t] = "sent"
  /\ verdict' = [t \in Tasks |-> IF t \in lost THEN "outcome_unknown" ELSE verdict[t]]
  /\ UNCHANGED <<sealed, used>>

Consume(t) ==
  /\ sealed[t] # None
  /\ used[t] = None
  /\ used' = [used EXCEPT ![t] = sealed[t]]
  /\ UNCHANGED <<verdict, sealed>>

Next ==
  \/ \E t \in Tasks : Send(t) \/ Judge(t) \/ Consume(t) \/ \E e \in Envelopes : Seal(t, e)
  \/ \E lost \in SUBSET Tasks : GiveUp(lost)

Spec == Init /\ [][Next]_<<verdict, sealed, used>>
=============================================================================
