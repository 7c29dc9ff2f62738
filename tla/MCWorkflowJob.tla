--------------------------- MODULE MCWorkflowJob ---------------------------
(* WorkflowJob with proposal requests, of which q1 may lead to a review,   *)
(* and two processes, which are interchangeable.                           *)
EXTENDS WorkflowJob, TLC

CONSTANTS q1, m1

MCCandidatesOf == [q \in Proposals |-> IF q = q1 THEN Reviews ELSE {}]
MCPublishTask == [r \in Reviews |-> m1]
MCInputDigest == [t \in Tasks |-> CHOOSE i \in Inputs : TRUE]

Symmetry == Permutations(Pids)
=============================================================================
