------------------------------ MODULE ReviewedJob ------------------------------
(***************************************************************************)
(* What a workflow job promises: proposal requests are answered and        *)
(* consumed once each, consumption opens review requests, the dimensions   *)
(* are evaluated only when every request is consumed and every review is   *)
(* published, and the result is frozen from all of them, once.             *)
(***************************************************************************)
CONSTANTS Proposals, Reviews, Dimensions

VARIABLES proposal, review, published, outputs, frozen

vars == <<proposal, review, published, outputs, frozen>>

Init ==
  /\ proposal = [q \in Proposals |-> "awaiting"]
  /\ review = [r \in Reviews |-> "absent"]
  /\ published = {}
  /\ outputs = {}
  /\ frozen = FALSE

SealProposal(q) ==
  /\ proposal[q] = "awaiting"
  /\ proposal' = [proposal EXCEPT ![q] = "sealed"]
  /\ UNCHANGED <<review, published, outputs, frozen>>

ConsumeProposal(q) ==
  /\ proposal[q] = "sealed"
  /\ proposal' = [proposal EXCEPT ![q] = "consumed"]
  /\ \E opened \in SUBSET {r \in Reviews : review[r] = "absent"} :
       review' = [r \in Reviews |-> IF r \in opened THEN "awaiting" ELSE review[r]]
  /\ UNCHANGED <<published, outputs, frozen>>

SealReview(r) ==
  /\ review[r] = "awaiting"
  /\ review' = [review EXCEPT ![r] = "sealed"]
  /\ UNCHANGED <<proposal, published, outputs, frozen>>

ConsumeReview(r) ==
  /\ review[r] = "sealed"
  /\ review' = [review EXCEPT ![r] = "consumed"]
  /\ UNCHANGED <<proposal, published, outputs, frozen>>

Publish(r) ==
  /\ review[r] = "consumed" /\ r \notin published
  /\ published' = published \cup {r}
  /\ UNCHANGED <<proposal, review, outputs, frozen>>

Closed ==
  /\ \A q \in Proposals : proposal[q] = "consumed"
  /\ \A r \in Reviews : review[r] = "absent" \/ r \in published
  /\ published # {}

Evaluate(d) ==
  /\ Closed
  /\ d \notin outputs
  /\ outputs' = outputs \cup {d}
  /\ UNCHANGED <<proposal, review, published, frozen>>

Freeze ==
  /\ outputs = Dimensions
  /\ ~frozen
  /\ frozen' = TRUE
  /\ UNCHANGED <<proposal, review, published, outputs>>

Next ==
  \/ \E q \in Proposals : SealProposal(q) \/ ConsumeProposal(q)
  \/ \E r \in Reviews : SealReview(r) \/ ConsumeReview(r) \/ Publish(r)
  \/ \E d \in Dimensions : Evaluate(d)
  \/ Freeze

Spec == Init /\ [][Next]_vars
=============================================================================
