------------------------------ MODULE WorkflowJob ------------------------------
(***************************************************************************)
(* One v2 workflow job (workflow.py, proposal_requests.py, review_queue.py *)
(* and the transactions of store.py they call).  Processes seal and        *)
(* consume responses to its proposal requests, which opens review          *)
(* requests, seal and consume the responses to those, and run the job:     *)
(* publish the reviews, evaluate the dimensions, freeze the artifacts.     *)
(* Consumption and publication are local tasks of the ledger (Journal).    *)
(* Every transaction is a step of its own, the job state is rewritten by   *)
(* most of them, and a process may exit between any two.                   *)
(*                                                                         *)
(* Abstracted: the job exists, its inputs and its catalog are valid and do *)
(* not change; a request and its response, written in one transaction,     *)
(* have one state; dimension results are functions of the frozen inputs.   *)
(* A call refused before its first write is no step.                       *)
(***************************************************************************)
EXTENDS Journal

CONSTANTS
  Proposals,    \* proposal requests of the job
  Reviews,      \* review requests the candidates may lead to
  Dimensions,   \* the six dimensions
  CandidatesOf, \* [Proposals -> SUBSET Reviews]
  PublishTask,  \* [Reviews -> Tasks]: the ledger task of its publication
  InputDigest,  \* [Tasks -> Inputs]
  Worker        \* the worker id of the callers

(* A proposal or review stands also for the task that consumes it. *)
ASSUME RequestsAssumption ==
  /\ Proposals \cup Reviews \subseteq Tasks
  /\ Proposals \cap Reviews = {}
  /\ PublishTask \in [Reviews -> Tasks \ (Proposals \cup Reviews)]
  /\ \A r, s \in Reviews : PublishTask[r] = PublishTask[s] => r = s
  /\ InputDigest \in [Tasks -> Inputs]
  /\ Worker \in Workers
ASSUME CandidatesAssumption ==
  /\ CandidatesOf \in [Proposals -> SUBSET Reviews]
  /\ \A q, u \in Proposals : q # u => CandidatesOf[q] \cap CandidatesOf[u] = {}

VARIABLES
  live,       \* the process ids in use
  job,        \* workflow_jobs.state
  proposal,   \* [Proposals -> state of the request and its response]
  review,     \* [Reviews -> state of the request and its response]
  published,  \* reviews with a dimension review and its sidecar
  outputs,    \* dimensions with a registered output
  frozen,     \* the job has a workflow_job_artifacts row
  call        \* [Pids -> the call the process is in]

storeVars == <<job, proposal, review, published, outputs, frozen>>
vars == <<tasks, attempts, lastToken, takeovers, live,
          job, proposal, review, published, outputs, frozen, call>>

JobStates ==
  {"awaiting_candidate_proposal", "proposal_response_sealed", "insufficient",
   "awaiting_authorized_analysis", "response_sealed", "consumed",
   "reviews_consumed", "evidence_materialized", "evaluating", "evaluated",
   "manifest_frozen", "completed", "failed"}

Idle == [pc |-> "idle"]

Init ==
  /\ Fresh /\ takeovers = <<>>
  /\ live = {}
  /\ job = "awaiting_candidate_proposal"
  /\ proposal = [q \in Proposals |-> "awaiting"]
  /\ review = [r \in Reviews |-> "absent"]
  /\ published = {} /\ outputs = {} /\ frozen = FALSE
  /\ call = [p \in Pids |-> Idle]

Goto(p, c) == call' = [call EXCEPT ![p] = c]
At(p, pc) == p \in live /\ call[p].pc = pc

(***************************************************************************)
(* Processes.  Nothing here is ever dispatched, so that opening a workflow *)
(* finds nothing to freeze.                                                *)
(***************************************************************************)
Start(p) ==
  /\ p \notin live
  /\ live' = live \cup {p}
  /\ UNCHANGED <<journalVars, storeVars, call>>

Exit(p) ==
  /\ p \in live
  /\ live' = live \ {p}
  /\ Goto(p, Idle)
  /\ UNCHANGED <<journalVars, storeVars>>

ReportedExited == SUBSET (Pids \ live)

(* A task of the ledger is made by whoever gets there first; the read that *)
(* follows ensure_task is part of the same step.                           *)
Ensured(t) == EnsureTask(t, InputDigest[t])
CommitTask(c) == \E o \in Outputs : Commit(c, o)
ClaimFor(p, t) == Claim(t, Worker, InputDigest[t], p)
NewClaim(t) == IssuedClaim(t, Worker, InputDigest[t])

(* set_workflow_job_state: unconditional.  A run goes on from the state it *)
(* has set; todo is what it has left to publish.                           *)
ToSet(p, state, todo) == Goto(p, [pc |-> "set", state |-> state, todo |-> todo])
ToFail(p) == ToSet(p, "failed", {})

(***************************************************************************)
(* Proposal requests: seal_response, consume_response                      *)
(***************************************************************************)
SealProposal(p) ==
  /\ At(p, "idle")
  /\ \E q \in Proposals :
       proposal[q] = "awaiting" /\ Goto(p, [pc |-> "sealProposal", of |-> q])
  /\ UNCHANGED <<journalVars, live, storeVars>>

(* add_proposal_response; another response may have come first. *)
AddProposalResponse(p) ==
  /\ At(p, "sealProposal")
  /\ LET q == call[p].of
     IN IF proposal[q] = "awaiting"
        THEN /\ proposal' = [proposal EXCEPT ![q] = "sealed"]
             /\ job' = IF \A u \in Proposals \ {q} : proposal[u] # "awaiting"
                       THEN "proposal_response_sealed" ELSE job
        ELSE UNCHANGED <<proposal, job>>
  /\ Goto(p, Idle)
  /\ UNCHANGED <<journalVars, live, review, published, outputs, frozen>>

(* A response already consumed has its ledger task completed. *)
ConsumeProposal(p) ==
  /\ At(p, "idle")
  /\ \E q \in Proposals :
       /\ Ensured(q)
       /\ \/ /\ proposal[q] = "sealed"
             /\ Goto(p, [pc |-> "consumeState", of |-> q])
          \/ /\ proposal[q] = "consumed"
             /\ Goto(p, [pc |-> "complete", of |-> q, todo |-> {}])
  /\ UNCHANGED <<live, storeVars>>

(* Only a planned task is consumed: nothing is taken over. *)
ConsumeState(p) ==
  /\ At(p, "consumeState")
  /\ IF tasks[call[p].of].state = "planned"
     THEN Goto(p, [pc |-> "consumeClaim", of |-> call[p].of])
     ELSE Goto(p, Idle)
  /\ UNCHANGED <<journalVars, live, storeVars>>

ConsumeClaim(p) ==
  /\ At(p, "consumeClaim")
  /\ LET q == call[p].of
     IN \/ /\ ClaimFor(p, q)
           /\ Goto(p, [pc |-> "materialize", claim |-> NewClaim(q)])
        \/ /\ ~CanClaim(q, InputDigest[q])
           /\ Goto(p, Idle)
           /\ UNCHANGED journalVars
  /\ UNCHANGED <<live, storeVars>>

(* Mutant: the request stays sealed when its response is consumed. *)
MaterializeResponseOnly(q) == UNCHANGED proposal

(* Both rows, if they are still sealed. *)
MarkConsumed(q) == proposal' = [proposal EXCEPT ![q] = "consumed"]

(* materialize_candidate_response_atomic: the qualified candidates open    *)
(* review requests, and the job state is derived from the other requests.  *)
Materialize(p) ==
  /\ At(p, "materialize")
  /\ LET q == call[p].claim.task
         others == {proposal[u] : u \in Proposals \ {q}}
     IN IF proposal[q] = "consumed"
        THEN UNCHANGED <<proposal, review, job>>
        ELSE \E qualified \in SUBSET CandidatesOf[q] :
          /\ MarkConsumed(q)
          /\ review' = [r \in Reviews |->
               IF r \in qualified /\ review[r] = "absent" THEN "awaiting"
               ELSE review[r]]
          /\ job' = IF "awaiting" \in others THEN "awaiting_candidate_proposal"
                    ELSE IF "sealed" \in others THEN "proposal_response_sealed"
                    ELSE IF qualified # {} THEN "awaiting_authorized_analysis"
                    ELSE "insufficient"
  /\ Goto(p, [pc |-> "consumeCommit", claim |-> call[p].claim])
  /\ UNCHANGED <<journalVars, live, published, outputs, frozen>>

(* A binding does not hold any more, or a write fails. *)
MaterializeFails(p) ==
  /\ At(p, "materialize")
  /\ RecordFailure(call[p].claim, "failed")
  /\ Goto(p, Idle)
  /\ UNCHANGED <<live, storeVars>>

ConsumeCommit(p) ==
  /\ At(p, "consumeCommit")
  /\ CommitTask(call[p].claim)
  /\ Goto(p, Idle)
  /\ UNCHANGED <<live, storeVars>>

(***************************************************************************)
(* complete_existing_local_task, for a consumed proposal or, in a run, for *)
(* a review published before                                               *)
(***************************************************************************)
Completed(p) ==
  IF call[p].todo = {} THEN Goto(p, Idle)
  ELSE Goto(p, [pc |-> "publish", todo |-> {r \in call[p].todo :
                                              PublishTask[r] # call[p].of}])
CompleteRefused(p) == IF call[p].todo = {} THEN Goto(p, Idle) ELSE ToFail(p)

CompleteRead(p) ==
  /\ At(p, "complete")
  /\ LET s == tasks[call[p].of].state
     IN \/ s = "succeeded" /\ Completed(p)
        \/ /\ s \in {"planned", "claimed"}
           /\ Goto(p, [pc |-> "acquire", of |-> call[p].of, todo |-> call[p].todo,
                       seen |-> s])
        \/ s = "failed" /\ CompleteRefused(p)
  /\ UNCHANGED <<journalVars, live, storeVars>>

CompleteAcquire(p) ==
  /\ At(p, "acquire")
  /\ LET t == call[p].of
         i == InputDigest[t]
     IN \/ /\ \/ call[p].seen = "planned" /\ ClaimFor(p, t)
              \/ /\ call[p].seen = "claimed"
                 /\ \E exited \in ReportedExited :
                      TakeoverStaleClaim(t, Worker, i, p, exited)
           /\ Goto(p, [pc |-> "completeCommit", claim |-> NewClaim(t), of |-> t,
                       todo |-> call[p].todo])
        \/ /\ call[p].seen = "planned" => ~CanClaim(t, i)
           /\ CompleteRefused(p)
           /\ UNCHANGED journalVars
  /\ UNCHANGED <<live, storeVars>>

CompleteCommit(p) ==
  /\ At(p, "completeCommit")
  /\ CommitTask(call[p].claim)
  /\ Completed(p)
  /\ UNCHANGED <<live, storeVars>>

(***************************************************************************)
(* Review requests: seal_response, consume_response                        *)
(***************************************************************************)
SealReview(p) ==
  /\ At(p, "idle")
  /\ \E r \in Reviews :
       review[r] = "awaiting" /\ Goto(p, [pc |-> "sealReview", of |-> r])
  /\ UNCHANGED <<journalVars, live, storeVars>>

(* add_review_response; when another one came first, an equal response     *)
(* goes on and a different one is refused.                                 *)
AddReviewResponse(p) ==
  /\ At(p, "sealReview")
  /\ LET r == call[p].of
     IN \/ /\ review' = IF review[r] = "awaiting"
                        THEN [review EXCEPT ![r] = "sealed"] ELSE review
           /\ Goto(p, [pc |-> "refresh", resume |-> FALSE])
        \/ /\ review[r] # "awaiting"
           /\ Goto(p, Idle)
           /\ UNCHANGED review
  /\ UNCHANGED <<journalVars, live, job, proposal, published, outputs, frozen>>

ConsumeReview(p) ==
  /\ At(p, "idle")
  /\ \E r \in Reviews :
       /\ review[r] = "sealed"
       /\ Ensured(r)
       /\ Goto(p, [pc |-> "reviewClaim", of |-> r])
  /\ UNCHANGED <<live, storeVars>>

(* A task that already succeeded only needs its mark. *)
ReviewClaim(p) ==
  /\ At(p, "reviewClaim")
  /\ LET r == call[p].of
     IN \/ /\ tasks[r].state = "succeeded"
           /\ Goto(p, [pc |-> "mark", of |-> r])
           /\ UNCHANGED journalVars
        \/ /\ ClaimFor(p, r)
           /\ Goto(p, [pc |-> "reviewCommit", claim |-> NewClaim(r)])
        \/ /\ tasks[r].state # "succeeded" /\ ~CanClaim(r, InputDigest[r])
           /\ Goto(p, Idle)
           /\ UNCHANGED journalVars
  /\ UNCHANGED <<live, storeVars>>

(* Mutant: the response is marked before its task is committed. *)
ReviewCommitLater(p) ==
  /\ At(p, "reviewCommit")
  /\ Goto(p, [pc |-> "mark", of |-> call[p].claim.task])
  /\ UNCHANGED <<journalVars, live, storeVars>>

ReviewCommit(p) ==
  /\ At(p, "reviewCommit")
  /\ CommitTask(call[p].claim)
  /\ Goto(p, [pc |-> "mark", of |-> call[p].claim.task])
  /\ UNCHANGED <<live, storeVars>>

(* mark_review_response_consumed *)
Mark(p) ==
  /\ At(p, "mark")
  /\ review' = [review EXCEPT ![call[p].of] =
                  IF @ = "sealed" THEN "consumed" ELSE @]
  /\ Goto(p, [pc |-> "refresh", resume |-> FALSE])
  /\ UNCHANGED <<journalVars, live, job, proposal, published, outputs, frozen>>

(***************************************************************************)
(* refresh_workflow_job_state: one transaction over the review requests    *)
(***************************************************************************)
Opened == {r \in Reviews : review[r] # "absent"}
Desired ==
  LET states == {review[r] : r \in Opened}
  IN IF "awaiting" \in states THEN "awaiting_authorized_analysis"
     ELSE IF "sealed" \in states THEN "response_sealed" ELSE "consumed"

(* Only these three are ranked. *)
Rank == [awaiting_authorized_analysis |-> 1, response_sealed |-> 2, consumed |-> 3]
Lowers(from, to) ==
  from \in DOMAIN Rank /\ to \in DOMAIN Rank /\ Rank[to] < Rank[from]

Refresh(p) ==
  /\ At(p, "refresh")
  /\ job' = IF \/ Opened = {}
               \/ job = "failed" /\ ~call[p].resume
               \/ Lowers(job, Desired)
            THEN job ELSE Desired
  /\ Goto(p, Idle)
  /\ UNCHANGED <<journalVars, live, proposal, review, published, outputs, frozen>>

(* status() reads the job and its proposal requests. *)
ProposalStates == {proposal[q] : q \in Proposals}

(* resume_failed_job reads the requests, then writes. *)
Resume(p) ==
  /\ At(p, "idle")
  /\ job = "failed"
  /\ IF "awaiting" \in ProposalStates
     THEN ToSet(p, "awaiting_candidate_proposal", {})
     ELSE IF "sealed" \in ProposalStates
     THEN ToSet(p, "proposal_response_sealed", {})
     ELSE IF Opened # {} THEN Goto(p, [pc |-> "refresh", resume |-> TRUE])
     ELSE ToSet(p, "insufficient", {})
  /\ UNCHANGED <<journalVars, live, storeVars>>

(***************************************************************************)
(* run_job                                                                 *)
(***************************************************************************)
RunJob(p) ==
  /\ At(p, "idle")
  /\ job # "failed"
  /\ "awaiting" \notin ProposalStates
  /\ IF "sealed" \in ProposalStates
     THEN ToSet(p, "proposal_response_sealed", {})
     ELSE Goto(p, [pc |-> "reviews"])
  /\ UNCHANGED <<journalVars, live, storeVars>>

RunReviews(p) ==
  /\ At(p, "reviews")
  /\ IF Opened = {} THEN Goto(p, Idle)
     ELSE IF Desired = "consumed" THEN ToSet(p, "reviews_consumed", Opened)
     ELSE ToSet(p, Desired, {})
  /\ UNCHANGED <<journalVars, live, storeVars>>

SetState(p) ==
  /\ At(p, "set")
  /\ job' = call[p].state
  /\ \/ call[p].state = "reviews_consumed"
        /\ Goto(p, [pc |-> "publish", todo |-> call[p].todo])
     \/ call[p].state = "evidence_materialized" /\ ToSet(p, "evaluating", {})
     \/ call[p].state = "evaluating"
        /\ Goto(p, [pc |-> "evaluate", todo |-> Dimensions])
     \/ call[p].state = "evaluated" /\ Goto(p, [pc |-> "artifacts"])
     \/ /\ call[p].state \notin {"reviews_consumed", "evidence_materialized",
                                 "evaluating", "evaluated"}
        /\ Goto(p, Idle)
  /\ UNCHANGED <<journalVars, live, proposal, review, published, outputs, frozen>>

(* materialize_consumed_response: a review already there is completed. *)
Publish(p) ==
  /\ At(p, "publish")
  /\ LET todo == call[p].todo
     IN IF todo = {}
        THEN ToSet(p, "evidence_materialized", {}) /\ UNCHANGED journalVars
        ELSE \E r \in todo :
          /\ Ensured(PublishTask[r])
          /\ IF r \in published
             THEN Goto(p, [pc |-> "complete", of |-> PublishTask[r], todo |-> todo])
             ELSE Goto(p, [pc |-> "publishClaim", of |-> r, todo |-> todo])
  /\ UNCHANGED <<live, storeVars>>

PublishClaim(p) ==
  /\ At(p, "publishClaim")
  /\ LET r == call[p].of
         t == PublishTask[r]
     IN \/ /\ ClaimFor(p, t)
           /\ Goto(p, [pc |-> "publishWrite", of |-> r, todo |-> call[p].todo,
                       claim |-> NewClaim(t)])
        \/ /\ ~CanClaim(t, InputDigest[t])
           /\ ToFail(p)
           /\ UNCHANGED journalVars
  /\ UNCHANGED <<live, storeVars>>

PublishWrite(p) ==
  /\ At(p, "publishWrite")
  /\ call[p].of \notin published
  /\ published' = published \cup {call[p].of}
  /\ Goto(p, [call[p] EXCEPT !.pc = "publishCommit"])
  /\ UNCHANGED <<journalVars, live, job, proposal, review, outputs, frozen>>

(* The review is there, or something fails: the task may be tried again. *)
PublishFails(p) ==
  /\ At(p, "publishWrite")
  /\ RecordFailure(call[p].claim, "failed")
  /\ ToFail(p)
  /\ UNCHANGED <<live, storeVars>>

PublishCommit(p) ==
  /\ At(p, "publishCommit")
  /\ CommitTask(call[p].claim)
  /\ Goto(p, [pc |-> "publish", todo |-> call[p].todo \ {call[p].of}])
  /\ UNCHANGED <<live, storeVars>>

(* Mutant: a dimension is skipped. *)
EvaluateSome(p) ==
  /\ At(p, "evaluate")
  /\ \/ \E d \in call[p].todo :
          /\ outputs' = outputs \cup {d}
          /\ Goto(p, [pc |-> "evaluate", todo |-> call[p].todo \ {d}])
     \/ ToSet(p, "evaluated", {}) /\ UNCHANGED outputs
  /\ UNCHANGED <<journalVars, live, job, proposal, review, published, frozen>>

(* One dimension after the other; a registered output is verified and kept *)
Evaluate(p) ==
  /\ At(p, "evaluate")
  /\ LET todo == call[p].todo
     IN IF todo = {}
        THEN ToSet(p, "evaluated", {}) /\ UNCHANGED outputs
        ELSE \E d \in todo :
          /\ outputs' = outputs \cup {d}
          /\ Goto(p, [pc |-> "evaluate", todo |-> todo \ {d}])
  /\ UNCHANGED <<journalVars, live, job, proposal, review, published, frozen>>

ReadArtifacts(p) ==
  /\ At(p, "artifacts")
  /\ IF frozen THEN ToSet(p, "completed", {}) ELSE Goto(p, [pc |-> "freeze"])
  /\ UNCHANGED <<journalVars, live, storeVars>>

(* freeze_workflow_job_artifacts: row and state in one transaction, from   *)
(* evaluated, or over equal artifacts from a later state; the artifacts    *)
(* are then verified again.                                                *)
Freeze(p) ==
  /\ At(p, "freeze")
  /\ \/ job = "evaluated"
     \/ frozen /\ job \in {"manifest_frozen", "completed"}
  /\ frozen' = TRUE
  /\ job' = IF job = "evaluated" THEN "manifest_frozen" ELSE job
  /\ Goto(p, [pc |-> "artifacts"])
  /\ UNCHANGED <<journalVars, live, proposal, review, published, outputs>>

(* The inputs, a sidecar, a runner, a rebuild or a write fails, or the     *)
(* state is not the expected one.                                          *)
RunFails(p) ==
  /\ p \in live
  /\ \/ call[p].pc \in {"publish", "evaluate", "artifacts", "freeze"}
     \/ call[p].pc = "set" /\ call[p].state = "evaluating"
  /\ ToFail(p)
  /\ UNCHANGED <<journalVars, live, storeVars>>

-----------------------------------------------------------------------------
Next ==
  \E p \in Pids :
    \/ Start(p) \/ Exit(p)
    \/ SealProposal(p) \/ AddProposalResponse(p)
    \/ ConsumeProposal(p) \/ ConsumeState(p) \/ ConsumeClaim(p) \/ Materialize(p)
    \/ MaterializeFails(p) \/ ConsumeCommit(p)
    \/ CompleteRead(p) \/ CompleteAcquire(p) \/ CompleteCommit(p)
    \/ SealReview(p) \/ AddReviewResponse(p)
    \/ ConsumeReview(p) \/ ReviewClaim(p) \/ ReviewCommit(p) \/ Mark(p)
    \/ Refresh(p) \/ Resume(p)
    \/ RunJob(p) \/ RunReviews(p) \/ SetState(p)
    \/ Publish(p) \/ PublishClaim(p) \/ PublishWrite(p) \/ PublishFails(p)
    \/ PublishCommit(p) \/ Evaluate(p) \/ ReadArtifacts(p) \/ Freeze(p)
    \/ RunFails(p)

Spec == Init /\ [][Next]_vars

-----------------------------------------------------------------------------
(* Every row, and every call in progress, is one the code can be in. *)
CallRecords ==
  {Idle, [pc |-> "reviews"], [pc |-> "artifacts"], [pc |-> "freeze"]}
  \cup [pc: {"sealProposal", "consumeState", "consumeClaim"}, of: Proposals]
  \cup [pc: {"sealReview", "reviewClaim", "mark"}, of: Reviews]
  \cup [pc: {"materialize", "consumeCommit", "reviewCommit"}, claim: Claims]
  \cup [pc: {"complete"}, of: Tasks, todo: SUBSET Reviews]
  \cup [pc: {"acquire"}, of: Tasks, todo: SUBSET Reviews, seen: {"planned", "claimed"}]
  \cup [pc: {"completeCommit"}, claim: Claims, of: Tasks, todo: SUBSET Reviews]
  \cup [pc: {"refresh"}, resume: BOOLEAN]
  \cup [pc: {"set"}, state: JobStates, todo: SUBSET Reviews]
  \cup [pc: {"publish"}, todo: SUBSET Reviews]
  \cup [pc: {"publishClaim"}, of: Reviews, todo: SUBSET Reviews]
  \cup [pc: {"publishWrite", "publishCommit"}, of: Reviews, todo: SUBSET Reviews,
        claim: Claims]
  \cup [pc: {"evaluate"}, todo: SUBSET Dimensions]

TypeOK ==
  /\ JournalTypeOK
  /\ live \subseteq Pids
  /\ job \in JobStates
  /\ proposal \in [Proposals -> {"awaiting", "sealed", "consumed"}]
  /\ review \in [Reviews -> {"absent", "awaiting", "sealed", "consumed"}]
  /\ published \subseteq Reviews
  /\ outputs \subseteq Dimensions
  /\ frozen \in BOOLEAN
  /\ call \in [Pids -> CallRecords]

(* The ledger and the records never disagree about what was done, though   *)
(* no transaction spans both: a consumption or publication whose task      *)
(* succeeded is on record, and one on record has its task claimed at least *)
(* (consume_response of both queues, materialize_consumed_response).       *)
ConsumptionOnRecord ==
  /\ \A q \in Proposals :
       /\ tasks[q].state = "succeeded" => proposal[q] = "consumed"
       /\ proposal[q] = "consumed" => tasks[q].state \in {"claimed", "succeeded"}
  /\ \A r \in Reviews :
       /\ review[r] = "consumed" => tasks[r].state = "succeeded"
       /\ tasks[PublishTask[r]].state = "succeeded" => r \in published
       /\ r \in published => review[r] = "consumed"

(* The job state claims no more than the facts, although every process     *)
(* writes it without looking at what the others wrote: a consumed job has   *)
(* every review consumed, one past that every proposal too, one past       *)
(* materialisation every review published, an evaluated one every          *)
(* dimension, and a frozen or completed one its artifacts (run_job).       *)
StateNeverAhead ==
  LET past(states) == job \in states
      finished == {"manifest_frozen", "completed"}
      evaluated == {"evaluated"} \cup finished
      materialized == {"evidence_materialized", "evaluating"} \cup evaluated
  IN /\ past({"proposal_response_sealed"}) => \A q \in Proposals : proposal[q] # "awaiting"
     /\ past({"consumed", "reviews_consumed"} \cup materialized) =>
          \A r \in Opened : review[r] = "consumed"
     /\ past({"reviews_consumed"} \cup materialized) =>
          \A q \in Proposals : proposal[q] = "consumed"
     /\ past(materialized) => Opened \subseteq published
     /\ past(evaluated) => outputs = Dimensions
     /\ past(finished) => frozen

(* Whatever the interleaving of calls, crashes, takeovers, failures,       *)
(* resumes and reruns, the job goes through the stages of ReviewedJob:     *)
(* nothing is sealed or consumed twice, dimensions are evaluated only over *)
(* the closed set of reviews, and the freeze covers all of them.           *)
Reviewed == INSTANCE ReviewedJob
ImplementsReviewedJob == Reviewed!Spec

(* refresh_workflow_job_state "updates the job state monotonically": one   *)
(* that does not resume never takes the job back to an earlier stage.      *)
Stage == [awaiting_candidate_proposal |-> 0, proposal_response_sealed |-> 1,
          awaiting_authorized_analysis |-> 2, response_sealed |-> 3,
          consumed |-> 4, reviews_consumed |-> 5, evidence_materialized |-> 6,
          evaluating |-> 7, evaluated |-> 8, manifest_frozen |-> 9,
          completed |-> 10]
RefreshStep ==
  \A p \in Pids :
    Refresh(p) /\ ~call[p].resume /\ {job, job'} \subseteq DOMAIN Stage
      => Stage[job'] >= Stage[job]
RefreshMonotone == [][RefreshStep]_vars
=============================================================================
