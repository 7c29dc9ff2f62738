-------------------------- MODULE WorkflowJobProofs --------------------------
(***************************************************************************)
(* Proofs about the job, for any number of requests, candidates,           *)
(* dimensions and processes.                                               *)
(*                                                                         *)
(* Who consumes or publishes owns the task (Owns), so each record has one  *)
(* writer.  Once every proposal is consumed no review opens any more, so   *)
(* what a run has seen of the reviews stays true (Publishing, Sets): a job *)
(* state may be written late, it is never ahead of the facts.              *)
(***************************************************************************)
EXTENDS WorkflowJob, JournalProofs

----------------------------------------------------------------------------
\* What a call relies on.

AllConsumed == \A q \in Proposals : proposal[q] = "consumed"

\* A run over the reviews, with todo left to publish.
Publishing(todo) ==
  /\ AllConsumed
  /\ Opened # {}
  /\ \A r \in Opened : review[r] = "consumed"
  /\ todo \subseteq Opened
  /\ Opened \subseteq published \cup todo

\* The state a call is about to write.
Sets(s, todo) ==
  /\ s \notin {"consumed", "manifest_frozen"}
  /\ s = "proposal_response_sealed" => \A q \in Proposals : proposal[q] # "awaiting"
  /\ s = "reviews_consumed" => Publishing(todo)
  /\ s \in {"evidence_materialized", "evaluating", "evaluated", "completed"} =>
       Publishing({})
  /\ s \in {"evaluated", "completed"} => outputs = Dimensions
  /\ s = "completed" => frozen

Owns(p, c) ==
  /\ Genuine(c) /\ Fenced(c)
  /\ tasks[c.task].state = "claimed" /\ tasks[c.task].pid = p

\* The task being completed: of a consumed proposal, or of a review of the run.
Completes(t, todo) ==
  \/ todo = {} /\ t \in Proposals /\ proposal[t] = "consumed"
  \/ Publishing(todo) /\ \E r \in todo : t = PublishTask[r] /\ r \in published

Owning == {"materialize", "consumeCommit", "reviewCommit", "completeCommit",
           "publishWrite", "publishCommit"}

SoundOwner(p, c) ==
  /\ p \notin live => c.pc = "idle"
  /\ c.pc \in Owning => Owns(p, c.claim)

SoundQueue(c) ==
  /\ c.pc \in {"consumeState", "consumeClaim"} => proposal[c.of] # "awaiting"
  /\ c.pc = "materialize" => c.claim.task \in Proposals /\ proposal[c.claim.task] = "sealed"
  /\ c.pc = "consumeCommit" =>
       c.claim.task \in Proposals /\ proposal[c.claim.task] = "consumed"
  /\ c.pc = "reviewCommit" => c.claim.task \in Reviews
  /\ c.pc = "mark" => tasks[c.of].state = "succeeded"
  /\ c.pc \in {"complete", "acquire", "completeCommit"} => Completes(c.of, c.todo)
  /\ c.pc = "completeCommit" => c.claim.task = c.of

SoundRun(c) ==
  /\ c.pc = "reviews" => AllConsumed
  /\ c.pc = "set" => Sets(c.state, c.todo)
  /\ c.pc \in {"publish", "publishClaim", "publishWrite", "publishCommit"} =>
       Publishing(c.todo)
  /\ c.pc \in {"publishClaim", "publishWrite", "publishCommit"} => c.of \in c.todo
  /\ c.pc \in {"publishWrite", "publishCommit"} => c.claim.task = PublishTask[c.of]
  /\ c.pc = "publishCommit" => c.of \in published
  /\ c.pc = "evaluate" => Publishing({}) /\ Dimensions \subseteq outputs \cup c.todo
  /\ c.pc \in {"artifacts", "freeze"} => Publishing({}) /\ outputs = Dimensions

Sound(p, c) == SoundOwner(p, c) /\ SoundQueue(c) /\ SoundRun(c)

IInv ==
  /\ JournalInv
  /\ TypeOK
  /\ ConsumptionOnRecord
  /\ StateNeverAhead
  /\ \A p \in Pids : Sound(p, call[p])

----------------------------------------------------------------------------
\* Calls.

\* What the place of a call says of its fields.
LEMMA CallShapes ==
  ASSUME NEW c \in CallRecords
  PROVE  /\ c.pc = "idle" => c = Idle
         /\ c.pc \in {"sealProposal", "consumeState", "consumeClaim"} => c.of \in Proposals
         /\ c.pc \in {"sealReview", "reviewClaim", "mark"} => c.of \in Reviews
         /\ c.pc \in Owning => c.claim \in Claims
         /\ c.pc \in {"complete", "acquire", "completeCommit"} =>
              c.of \in Tasks /\ c.todo \subseteq Reviews
         /\ c.pc = "acquire" => c.seen \in {"planned", "claimed"}
         /\ c.pc = "refresh" => c.resume \in BOOLEAN
         /\ c.pc = "set" => c.state \in JobStates /\ c.todo \subseteq Reviews
         /\ c.pc \in {"publish", "publishClaim", "publishWrite", "publishCommit"} =>
              c.todo \subseteq Reviews
         /\ c.pc \in {"publishClaim", "publishWrite", "publishCommit"} => c.of \in Reviews
         /\ c.pc \in {"publishWrite", "publishCommit"} =>
              c = [pc |-> c.pc, of |-> c.of, todo |-> c.todo, claim |-> c.claim]
         /\ c.pc = "evaluate" => c.todo \subseteq Dimensions
BY DEF CallRecords, Idle, Owning

\* The calls a step may leave behind.
LEMMA CallsMade ==
  /\ {Idle, [pc |-> "reviews"], [pc |-> "artifacts"], [pc |-> "freeze"]} \subseteq CallRecords
  /\ \A q \in Proposals, k \in {"sealProposal", "consumeState", "consumeClaim"} :
       [pc |-> k, of |-> q] \in CallRecords
  /\ \A r \in Reviews, k \in {"sealReview", "reviewClaim", "mark"} :
       [pc |-> k, of |-> r] \in CallRecords
  /\ \A c \in Claims, k \in {"materialize", "consumeCommit", "reviewCommit"} :
       [pc |-> k, claim |-> c] \in CallRecords
  /\ \A t \in Tasks, todo \in SUBSET Reviews :
       [pc |-> "complete", of |-> t, todo |-> todo] \in CallRecords
  /\ \A t \in Tasks, todo \in SUBSET Reviews, s \in {"planned", "claimed"} :
       [pc |-> "acquire", of |-> t, todo |-> todo, seen |-> s] \in CallRecords
  /\ \A t \in Tasks, todo \in SUBSET Reviews, c \in Claims :
       [pc |-> "completeCommit", claim |-> c, of |-> t, todo |-> todo] \in CallRecords
  /\ \A b \in BOOLEAN : [pc |-> "refresh", resume |-> b] \in CallRecords
  /\ \A s \in JobStates, todo \in SUBSET Reviews :
       [pc |-> "set", state |-> s, todo |-> todo] \in CallRecords
  /\ \A todo \in SUBSET Reviews : [pc |-> "publish", todo |-> todo] \in CallRecords
  /\ \A r \in Reviews, todo \in SUBSET Reviews :
       [pc |-> "publishClaim", of |-> r, todo |-> todo] \in CallRecords
  /\ \A r \in Reviews, todo \in SUBSET Reviews, c \in Claims, k \in {"publishWrite", "publishCommit"} :
       [pc |-> k, of |-> r, todo |-> todo, claim |-> c] \in CallRecords
  /\ \A todo \in SUBSET Dimensions : [pc |-> "evaluate", todo |-> todo] \in CallRecords
BY DEF CallRecords

\* A call that is somewhere belongs to a process.
LEMMA CallFacts ==
  ASSUME IInv, NEW p \in Pids
  PROVE  /\ call[p] \in CallRecords /\ DOMAIN call = Pids
         /\ SoundOwner(p, call[p]) /\ SoundQueue(call[p]) /\ SoundRun(call[p])
         /\ call[p].pc # "idle" => p \in live
BY DEF IInv, TypeOK, Sound, SoundOwner

LEMMA IdleSound == ASSUME NEW p \in Pids PROVE Sound(p, Idle)'
BY DEF Sound, SoundOwner, SoundQueue, SoundRun, Idle, Owning

----------------------------------------------------------------------------
\* A step of one process.

Moves(p, d) == Preserved /\ call' = [call EXCEPT ![p] = d]

\* A row claimed for another process that runs is not touched.
RowsKept(p) ==
  \A t \in Tasks :
    tasks[t].state = "claimed" /\ tasks[t].pid \in live \ {p} => tasks'[t] = tasks[t]

\* Nothing on record is taken back, only the owner of its task consumes a
\* proposal, and with the last one consumed the reviews are all there.
Grows(p) ==
  /\ \A q \in Proposals :
       /\ proposal[q] # "awaiting" => proposal'[q] # "awaiting"
       /\ proposal[q] = "consumed" => proposal'[q] = "consumed"
       /\ proposal[q] = "sealed" /\ proposal'[q] # "sealed" =>
            tasks[q].state = "claimed" /\ tasks[q].pid = p
  /\ \A r \in Reviews : review[r] = "consumed" => review'[r] = "consumed"
  /\ AllConsumed => Opened' = Opened
  /\ published \subseteq published'
  /\ outputs \subseteq outputs' /\ outputs' \subseteq Dimensions
  /\ frozen => frozen'

OthersRun(p) == \A r \in Pids \ {p} : r \in live => r \in live'

LEMMA PublishingStays ==
  ASSUME NEW p, Grows(p), NEW todo, Publishing(todo)
  PROVE  Publishing(todo)'
<1>1. AllConsumed' /\ Opened' = Opened
  BY DEF Publishing, Grows, AllConsumed
<1>2. Opened \subseteq Reviews
  BY DEF Opened
<1>3. \A r \in Opened : review'[r] = "consumed"
  BY <1>2 DEF Publishing, Grows
<1>4. Opened \subseteq published' \cup todo
  BY DEF Publishing, Grows
<1>5. Opened # {} /\ todo \subseteq Opened
  BY DEF Publishing
<1>6. QED
  BY <1>1, <1>3, <1>4, <1>5 DEF Publishing

LEMMA SetsStay ==
  ASSUME NEW p, Grows(p), NEW s, NEW todo, Sets(s, todo)
  PROVE  Sets(s, todo)'
<1>1. /\ Publishing(todo) => Publishing(todo)'
      /\ Publishing({}) => Publishing({})'
  BY PublishingStays
<1>2. /\ outputs = Dimensions => outputs' = Dimensions
      /\ frozen => frozen'
      /\ (\A q \in Proposals : proposal[q] # "awaiting") =>
            \A q \in Proposals : proposal'[q] # "awaiting"
  BY DEF Grows
<1>3. QED
  BY <1>1, <1>2 DEF Sets

LEMMA CompletesStays ==
  ASSUME NEW p, Grows(p), NEW t, NEW todo, Completes(t, todo)
  PROVE  Completes(t, todo)'
<1>1. Publishing(todo) => Publishing(todo)'
  BY PublishingStays
<1>2. QED
  BY <1>1 DEF Completes, Grows

\* A call in progress elsewhere stays what it was.
LEMMA OthersStay ==
  ASSUME IInv, NEW p \in Pids, NEW d, Moves(p, d), RowsKept(p), Grows(p), OthersRun(p),
         NEW r \in Pids, r # p
  PROVE  call'[r] = call[r] /\ Sound(r, call[r])'
<1>1. PICK c : c = call[r]
  OBVIOUS
<1>2. /\ call'[r] = c /\ c \in CallRecords
      /\ SoundOwner(r, c) /\ SoundQueue(c) /\ SoundRun(c)
      /\ c.pc # "idle" => r \in live
  BY <1>1, CallFacts DEF Moves
<1>3. Preserved /\ TerminalStep /\ AttemptsGrow
  BY DEF Moves, Preserved
<1>4. SoundOwner(r, c)'
  <2>1. ASSUME c.pc \in Owning
        PROVE  Owns(r, c.claim)'
    <3>1. Owns(r, c.claim) /\ r \in live /\ c.claim \in Claims
      BY <1>2, <2>1, CallShapes DEF SoundOwner, Owning
    <3>2. tasks'[c.claim.task] = tasks[c.claim.task]
      BY <3>1 DEF Owns, RowsKept, Claims
    <3>3. Genuine(c.claim)'
      BY <3>1, <1>3, GenuinePersists DEF Owns
    <3>4. QED
      BY <3>1, <3>2, <3>3 DEF Owns, Fenced
  <2>2. r \notin live' => c.pc = "idle"
    BY <1>2 DEF OthersRun
  <2>3. QED
    BY <2>1, <2>2 DEF SoundOwner
<1>5. SoundQueue(c)'
  <2>1. c.pc \in {"consumeState", "consumeClaim"} => proposal'[c.of] # "awaiting"
    BY <1>2, CallShapes DEF SoundQueue, Grows
  <2>2. ASSUME c.pc = "materialize"
        PROVE  c.claim.task \in Proposals /\ proposal'[c.claim.task] = "sealed"
    <3>1. /\ c.claim.task \in Proposals /\ proposal[c.claim.task] = "sealed"
          /\ tasks[c.claim.task].pid = r
      BY <1>2, <2>2 DEF SoundQueue, SoundOwner, Owns, Owning
    <3>2. QED
      BY <3>1 DEF Grows
  <2>3. c.pc = "consumeCommit" =>
          c.claim.task \in Proposals /\ proposal'[c.claim.task] = "consumed"
    BY <1>2 DEF SoundQueue, Grows
  <2>4. c.pc = "mark" => tasks'[c.of].state = "succeeded"
    BY <1>2, <1>3, CallShapes, RequestsAssumption DEF SoundQueue, TerminalStep, FinalRow
  <2>5. c.pc \in {"complete", "acquire", "completeCommit"} => Completes(c.of, c.todo)'
    BY <1>2, CompletesStays DEF SoundQueue
  <2>6. QED
    BY <1>2, <2>1, <2>2, <2>3, <2>4, <2>5 DEF SoundQueue
<1>6. SoundRun(c)'
  <2>1. c.pc = "reviews" => AllConsumed'
    BY <1>2 DEF SoundRun, Grows, AllConsumed
  <2>2. c.pc = "set" => Sets(c.state, c.todo)'
    BY <1>2, SetsStay DEF SoundRun
  <2>3. c.pc \in {"publish", "publishClaim", "publishWrite", "publishCommit"} =>
          Publishing(c.todo)'
    BY <1>2, PublishingStays DEF SoundRun
  <2>4. c.pc = "publishCommit" => c.of \in published'
    BY <1>2 DEF SoundRun, Grows
  <2>5. c.pc = "evaluate" => Publishing({})' /\ Dimensions \subseteq outputs' \cup c.todo
    BY <1>2, PublishingStays DEF SoundRun, Grows
  <2>6. c.pc \in {"artifacts", "freeze"} => Publishing({})' /\ outputs' = Dimensions
    BY <1>2, PublishingStays DEF SoundRun, Grows
  <2>7. QED
    BY <1>2, <2>1, <2>2, <2>3, <2>4, <2>5, <2>6 DEF SoundRun
<1>7. Sound(r, c)'
  BY <1>4, <1>5, <1>6 DEF Sound
<1>8. QED
  BY <1>1, <1>2, <1>7

StoreTyped ==
  /\ live \subseteq Pids
  /\ job \in JobStates
  /\ proposal \in [Proposals -> {"awaiting", "sealed", "consumed"}]
  /\ review \in [Reviews -> {"absent", "awaiting", "sealed", "consumed"}]
  /\ published \subseteq Reviews
  /\ outputs \subseteq Dimensions
  /\ frozen \in BOOLEAN

LEMMA Assemble ==
  ASSUME IInv, NEW p \in Pids, NEW d \in CallRecords, Moves(p, d), RowsKept(p), Grows(p),
         OthersRun(p), StoreTyped', ConsumptionOnRecord', StateNeverAhead',
         call'[p] = d => Sound(p, call[p])'
  PROVE  IInv'
<1>1. \A r \in Pids : r # p => call'[r] = call[r] /\ Sound(r, call[r])'
  BY OthersStay
<1>2. call'[p] = d /\ call' \in [Pids -> CallRecords]
  BY DEF Moves, IInv, TypeOK
<1>3. \A r \in Pids : Sound(r, call[r])'
  BY <1>1, <1>2
<1>4. JournalInv' /\ JournalTypeOK'
  BY DEF Moves, Preserved, JournalInv
<1>5. TypeOK'
  BY <1>2, <1>4 DEF StoreTyped, TypeOK
<1>6. QED
  BY <1>3, <1>4, <1>5 DEF IInv

----------------------------------------------------------------------------
\* The kinds of steps.

Stored == UNCHANGED <<live, job, proposal, review, published, outputs, frozen>>

LEMMA StoredFacts ==
  ASSUME IInv, NEW p, Stored
  PROVE  /\ Grows(p) /\ OthersRun(p) /\ StoreTyped' /\ StateNeverAhead'
         /\ live' = live /\ job' = job /\ proposal' = proposal /\ review' = review
         /\ published' = published /\ outputs' = outputs /\ frozen' = frozen
         /\ Opened' = Opened
<1>1. /\ live' = live /\ job' = job /\ proposal' = proposal /\ review' = review
      /\ published' = published /\ outputs' = outputs /\ frozen' = frozen
  BY DEF Stored
<1>2. Opened' = Opened
  BY <1>1 DEF Opened
<1>3. Grows(p) /\ OthersRun(p) /\ StoreTyped'
  BY <1>1, <1>2 DEF Grows, OthersRun, StoreTyped, IInv, TypeOK
<1>4. StateNeverAhead'
  BY <1>1, <1>2 DEF IInv, StateNeverAhead
<1>5. QED
  BY <1>1, <1>2, <1>3, <1>4

\* The ledger and the store as they were.
LEMMA CallMoves ==
  ASSUME IInv, NEW p \in Pids, NEW d \in CallRecords, call' = [call EXCEPT ![p] = d],
         UNCHANGED journalVars, Stored, call'[p] = d => Sound(p, call[p])'
  PROVE  IInv'
<1>1. Preserved /\ tasks' = tasks
  BY UnchangedPreserves DEF IInv, journalVars
<1>2. ConsumptionOnRecord'
  BY <1>1, StoredFacts DEF IInv, ConsumptionOnRecord
<1>3. RowsKept(p) /\ Moves(p, d)
  BY <1>1 DEF RowsKept, Moves
<1>4. QED
  BY <1>2, <1>3, StoredFacts, Assemble

\* What the row of a task must agree with when it changes.
Agrees(t) ==
  /\ t \in Proposals =>
       /\ tasks[t].state = "succeeded" => proposal[t] = "consumed"
       /\ proposal[t] = "consumed" => tasks[t].state \in {"claimed", "succeeded"}
  /\ \A r \in Reviews :
       PublishTask[r] = t /\ tasks[t].state = "succeeded" => r \in published

OnlyRow(t) == \A u \in Tasks : u # t => tasks'[u] = tasks[u]

\* One row of the ledger changes, which no other process owns.
LEMMA RowMoves ==
  ASSUME IInv, NEW p \in Pids, NEW d \in CallRecords, Moves(p, d), Stored,
         NEW t \in Tasks, OnlyRow(t), RowsKept(p), Agrees(t)',
         call'[p] = d => Sound(p, call[p])'
  PROVE  IInv'
<1>2. proposal' = proposal /\ review' = review /\ published' = published
  BY StoredFacts
<1>3. ConsumptionOnRecord'
  <2>1. ASSUME NEW q \in Proposals
        PROVE  /\ tasks'[q].state = "succeeded" => proposal'[q] = "consumed"
               /\ proposal'[q] = "consumed" => tasks'[q].state \in {"claimed", "succeeded"}
    BY <1>2, RequestsAssumption DEF IInv, ConsumptionOnRecord, Agrees, OnlyRow
  <2>2. ASSUME NEW r \in Reviews
        PROVE  /\ review'[r] = "consumed" => tasks'[r].state = "succeeded"
               /\ tasks'[PublishTask[r]].state = "succeeded" => r \in published'
               /\ r \in published' => review'[r] = "consumed"
    <3>1. r \in Tasks /\ PublishTask[r] \in Tasks
      BY RequestsAssumption
    <3>2. review'[r] = "consumed" => tasks'[r].state = "succeeded"
      BY <1>2, <3>1 DEF IInv, ConsumptionOnRecord, Preserved, TerminalStep, FinalRow,
                             Moves
    <3>3. tasks'[PublishTask[r]].state = "succeeded" => r \in published'
      BY <1>2, <3>1 DEF IInv, ConsumptionOnRecord, Agrees, OnlyRow
    <3>4. QED
      BY <1>2, <3>2, <3>3 DEF IInv, ConsumptionOnRecord
  <2>3. QED
    BY <2>1, <2>2 DEF ConsumptionOnRecord
<1>4. QED
  BY <1>3, StoredFacts, Assemble

\* ensure_task
LEMMA EnsureMoves ==
  ASSUME IInv, NEW p \in Pids, NEW d \in CallRecords, call' = [call EXCEPT ![p] = d],
         NEW t \in Tasks, Ensured(t), Stored, call'[p] = d => Sound(p, call[p])'
  PROVE  IInv'
<1>1. EnsureTask(t, InputDigest[t]) /\ InputDigest[t] \in Inputs
  BY RequestsAssumption DEF Ensured
<1>2. Preserved
  BY <1>1, EnsurePreserves DEF IInv
<1>3. /\ \A u \in Tasks : u # t => tasks'[u] = tasks[u]
      /\ tasks'[t] = RowOrPlanned(t, InputDigest[t])
  BY <1>1 DEF EnsureTask, IInv, JournalInv, JournalTypeOK
<1>4. \/ tasks'[t] = tasks[t]
      \/ tasks[t].state = "absent" /\ tasks'[t].state = "planned"
  BY <1>3 DEF RowOrPlanned, Planned
<1>5. Agrees(t)'
  BY <1>4, StoredFacts DEF IInv, ConsumptionOnRecord, Agrees
<1>6. Moves(p, d) /\ OnlyRow(t) /\ RowsKept(p)
  BY <1>2, <1>3, <1>4 DEF Moves, OnlyRow, RowsKept
<1>7. QED
  BY <1>5, <1>6, RowMoves

\* claim and takeover_stale_claim leave the row with a claim of the process.
LEMMA Acquired ==
  ASSUME IInv, NEW p \in live, NEW t \in Tasks,
         \/ ClaimFor(p, t)
         \/ \E exited \in ReportedExited :
              TakeoverStaleClaim(t, Worker, InputDigest[t], p, exited),
         NEW c, c = NewClaim(t)
  PROVE  /\ Preserved /\ c \in Claims /\ c.task = t /\ Owns(p, c)'
         /\ \A u \in Tasks : u # t => tasks'[u] = tasks[u]
         /\ tasks'[t].state = "claimed"
         /\ tasks[t].state = "claimed" => tasks[t].pid \notin live
         /\ ClaimFor(p, t) => tasks[t].state \in {"absent", "planned", "failed"}
<1>1. Worker \in Workers /\ InputDigest[t] \in Inputs /\ p \in Pids /\ JournalInv
  BY RequestsAssumption DEF IInv, TypeOK
<1>2. PICK row : /\ Issue(t, row, Worker, InputDigest[t], p) /\ row \in Row
                 /\ row.input = InputDigest[t]
  <2>1. CASE ClaimFor(p, t)
    <3>1. Planned(InputDigest[t]) \in Row
      BY <1>1, MaxTokensAssumption DEF Planned, Row, States
    <3>2. RowOrPlanned(t, InputDigest[t]) \in Row
      BY <1>1, <3>1, RowFacts DEF RowOrPlanned
    <3>3. QED
      BY <2>1, <3>2 DEF ClaimFor, Claim, CanClaim
  <2>2. CASE \E exited \in ReportedExited :
               TakeoverStaleClaim(t, Worker, InputDigest[t], p, exited)
    BY <1>1, <2>2, RowFacts DEF TakeoverStaleClaim, CanTakeOver
  <2>3. QED
    BY <2>1, <2>2
<1>3. Preserved
  BY <1>1, ClaimPreserves, TakeoverPreserves DEF ClaimFor
<1>4. Genuine(c)'
  BY <1>1, <1>2, IssuedGenuine DEF NewClaim
<1>5. /\ \A u \in Tasks : u # t => tasks'[u] = tasks[u]
      /\ tasks'[t].state = "claimed" /\ tasks'[t].token = lastToken + 1
      /\ tasks'[t].worker = Worker /\ tasks'[t].pid = p /\ tasks'[t].input = InputDigest[t]
  BY <1>1, <1>2 DEF Issue, JournalInv, JournalTypeOK, Row
<1>6. /\ c.task = t /\ c.token = lastToken + 1 /\ c.worker = Worker
      /\ c.input = InputDigest[t]
  BY DEF NewClaim, IssuedClaim
<1>7. Owns(p, c)' /\ c \in Claims
  BY <1>4, <1>5, <1>6 DEF Owns, Fenced, Genuine
<1>8. ClaimFor(p, t) => tasks[t].state \in {"absent", "planned", "failed"}
  BY DEF ClaimFor, Claim, CanClaim, RowOrPlanned, Claimable
<1>9. tasks[t].state = "claimed" => tasks[t].pid \notin live
  BY <1>8 DEF TakeoverStaleClaim, CanTakeOver, ReportedExited
<1>10. QED
  BY <1>3, <1>5, <1>6, <1>7, <1>8, <1>9

\* A task is acquired.
LEMMA AcquireMoves ==
  ASSUME IInv, NEW p \in live, NEW d \in CallRecords, call' = [call EXCEPT ![p] = d],
         NEW t \in Tasks,
         \/ ClaimFor(p, t)
         \/ \E exited \in ReportedExited :
              TakeoverStaleClaim(t, Worker, InputDigest[t], p, exited),
         Stored, call'[p] = d => Sound(p, call[p])'
  PROVE  IInv'
<1>1. PICK c : c = NewClaim(t)
  OBVIOUS
<1>2. /\ Preserved /\ p \in Pids
      /\ \A u \in Tasks : u # t => tasks'[u] = tasks[u]
      /\ tasks'[t].state = "claimed"
      /\ tasks[t].state = "claimed" => tasks[t].pid \notin live
  BY <1>1, Acquired DEF IInv, TypeOK
<1>3. Agrees(t)'
  BY <1>2 DEF Agrees
<1>4. Moves(p, d) /\ OnlyRow(t) /\ RowsKept(p)
  BY <1>2 DEF Moves, OnlyRow, RowsKept
<1>5. QED
  BY <1>2, <1>3, <1>4, RowMoves

\* The owner settles its task.
LEMMA Settled ==
  ASSUME IInv, NEW p \in Pids, NEW c, Owns(p, c),
         CommitTask(c) \/ RecordFailure(c, "failed")
  PROVE  /\ Preserved /\ c.task \in Tasks
         /\ \A u \in Tasks : u # c.task => tasks'[u] = tasks[u]
         /\ CommitTask(c) => tasks'[c.task].state = "succeeded"
         /\ RecordFailure(c, "failed") => tasks'[c.task].state = "failed"
         /\ tasks[c.task].state = "claimed" /\ tasks[c.task].pid = p
<1>1. JournalInv /\ Genuine(c) /\ c.task \in Tasks
  BY DEF IInv, Owns, Genuine, Claims
<1>2. Preserved
  BY <1>1, CommitPreserves, FailurePreserves DEF CommitTask
<1>3. tasks \in [Tasks -> Row]
  BY <1>1 DEF JournalInv, JournalTypeOK
<1>4. tasks[c.task].state = "claimed" /\ tasks[c.task].pid = p
  BY DEF Owns
<1>5. ASSUME CommitTask(c)
      PROVE  /\ \A u \in Tasks : u # c.task => tasks'[u] = tasks[u]
             /\ tasks'[c.task].state = "succeeded"
  <2>1. PICK o \in Outputs : tasks' = [tasks EXCEPT ![c.task] =
               [tasks[c.task] EXCEPT !.state = "succeeded", !.output = o]]
    BY <1>5 DEF CommitTask, Commit
  <2>2. QED
    BY <1>1, <1>3, <2>1 DEF Row
<1>6. ASSUME RecordFailure(c, "failed")
      PROVE  /\ \A u \in Tasks : u # c.task => tasks'[u] = tasks[u]
             /\ tasks'[c.task].state = "failed"
  BY <1>1, <1>3, <1>6 DEF RecordFailure, Row
<1>7. QED
  BY <1>1, <1>2, <1>4, <1>5, <1>6

\* While the store is as it was, so is what a run has seen of it.
LEMMA StoredStays ==
  ASSUME IInv, NEW p, Stored
  PROVE  /\ \A todo : Publishing(todo) => Publishing(todo)'
         /\ \A s, todo : Sets(s, todo) => Sets(s, todo)'
         /\ \A t, todo : Completes(t, todo) => Completes(t, todo)'
         /\ AllConsumed => AllConsumed'
<1>1. Grows(p) /\ proposal' = proposal
  BY StoredFacts
<1>2. \A todo : Publishing(todo) => Publishing(todo)'
  BY <1>1, PublishingStays
<1>3. \A s, todo : Sets(s, todo) => Sets(s, todo)'
  BY <1>1, SetsStay
<1>4. \A t, todo : Completes(t, todo) => Completes(t, todo)'
  BY <1>1, CompletesStays
<1>5. QED
  BY <1>1, <1>2, <1>3, <1>4 DEF AllConsumed

\* A process goes on, or gives up, without a write.
LEMMA GoMoves ==
  ASSUME IInv, NEW p \in live, NEW d \in CallRecords, Goto(p, d), UNCHANGED journalVars,
         Stored, d.pc \notin Owning, SoundQueue(d)', SoundRun(d)'
  PROVE  IInv'
<1>1. p \in Pids /\ call' = [call EXCEPT ![p] = d] /\ call'[p] = d /\ live' = live
  BY StoredFacts DEF IInv, TypeOK, Goto
<1>2. SoundOwner(p, d)'
  BY <1>1 DEF SoundOwner
<1>3. Sound(p, d)'
  BY <1>2 DEF Sound
<1>4. QED
  BY <1>1, <1>3, CallMoves

LEMMA LeaveMoves ==
  ASSUME IInv, NEW p \in live, Goto(p, Idle), UNCHANGED journalVars, Stored
  PROVE  IInv'
<1>1. PICK d : d = Idle
  OBVIOUS
<1>2. d \in CallRecords /\ d.pc = "idle"
  BY <1>1, CallsMade DEF Idle
<1>3. SoundQueue(d)' /\ SoundRun(d)' /\ d.pc \notin Owning
  BY <1>2 DEF SoundQueue, SoundRun, Owning
<1>4. QED
  BY <1>1, <1>2, <1>3, GoMoves

\* The call sets a state next.
LEMMA SetMoves ==
  ASSUME IInv, NEW p \in live, NEW s \in JobStates, NEW todo \in SUBSET Reviews,
         ToSet(p, s, todo), Sets(s, todo), UNCHANGED journalVars, Stored
  PROVE  IInv'
<1>1. PICK d : d = [pc |-> "set", state |-> s, todo |-> todo]
  OBVIOUS
<1>2. d \in CallRecords /\ d.pc = "set" /\ d.state = s /\ d.todo = todo /\ Goto(p, d)
  BY <1>1, CallsMade DEF ToSet
<1>3. Sets(s, todo)'
  BY StoredStays
<1>4. SoundQueue(d)' /\ SoundRun(d)' /\ d.pc \notin Owning
  BY <1>2, <1>3 DEF SoundQueue, SoundRun, Owning
<1>5. QED
  BY <1>2, <1>4, GoMoves

LEMMA FailMoves ==
  ASSUME IInv, NEW p \in live, ToFail(p), UNCHANGED journalVars, Stored
  PROVE  IInv'
<1>1. Sets("failed", {}) /\ "failed" \in JobStates
  BY DEF Sets, JobStates
<1>2. QED
  BY <1>1, SetMoves DEF ToFail

----------------------------------------------------------------------------
\* Processes.

LEMMA LifeStep ==
  ASSUME IInv, NEW p \in Pids, Start(p) \/ Exit(p)
  PROVE  IInv'
<1>1. PICK d : d = Idle
  OBVIOUS
<1>2. call' = [call EXCEPT ![p] = d]
  <2>1. CASE Start(p)
    <3>1. call[p].pc = "idle"
      BY <2>1, CallFacts DEF Start
    <3>2. call[p] = Idle
      BY <3>1, CallFacts, CallShapes
    <3>3. call' = call /\ call \in [Pids -> CallRecords]
      BY <2>1 DEF Start, IInv, TypeOK
    <3>4. QED
      BY <1>1, <3>2, <3>3
  <2>2. CASE Exit(p)
    BY <1>1, <2>2 DEF Exit, Goto
  <2>3. QED
    BY <2>1, <2>2
<1>3. /\ UNCHANGED journalVars /\ tasks' = tasks
      /\ job' = job /\ proposal' = proposal /\ review' = review
      /\ published' = published /\ outputs' = outputs /\ frozen' = frozen
      /\ live' \in {live \cup {p}, live \ {p}}
  BY DEF Start, Exit, storeVars, journalVars
<1>4. Opened' = Opened
  BY <1>3 DEF Opened
<1>5. Preserved
  BY <1>3, UnchangedPreserves DEF IInv
<1>6. Grows(p) /\ RowsKept(p) /\ OthersRun(p) /\ StoreTyped'
  BY <1>3, <1>4 DEF Grows, RowsKept, OthersRun, StoreTyped, IInv, TypeOK
<1>7. ConsumptionOnRecord' /\ StateNeverAhead'
  BY <1>3, <1>4 DEF IInv, ConsumptionOnRecord, StateNeverAhead
<1>8. d \in CallRecords /\ Sound(p, d)'
  BY <1>1, CallsMade, IdleSound
<1>9. QED
  BY <1>2, <1>5, <1>6, <1>7, <1>8, Assemble DEF Moves

----------------------------------------------------------------------------
\* Proposal requests.

LEMMA SealProposalStep ==
  ASSUME IInv, NEW p \in Pids, SealProposal(p)
  PROVE  IInv'
<1>1. PICK q \in Proposals : Goto(p, [pc |-> "sealProposal", of |-> q])
  BY DEF SealProposal
<1>2. PICK d : d = [pc |-> "sealProposal", of |-> q]
  OBVIOUS
<1>3. d \in CallRecords /\ d.pc = "sealProposal" /\ Goto(p, d)
  BY <1>1, <1>2, CallsMade
<1>4. SoundQueue(d)' /\ SoundRun(d)' /\ d.pc \notin Owning
  BY <1>3 DEF SoundQueue, SoundRun, Owning
<1>5. p \in live /\ UNCHANGED journalVars /\ Stored
  BY DEF SealProposal, At, Stored, storeVars
<1>6. QED
  BY <1>3, <1>4, <1>5, GoMoves

LEMMA AddProposalStep ==
  ASSUME IInv, NEW p \in Pids, AddProposalResponse(p)
  PROVE  IInv'
<1>1. PICK q : q = call[p].of
  OBVIOUS
<1>2. /\ p \in live /\ q \in Proposals /\ Goto(p, Idle)
      /\ UNCHANGED journalVars /\ tasks' = tasks /\ live' = live /\ review' = review
      /\ published' = published /\ outputs' = outputs /\ frozen' = frozen
  BY <1>1, CallFacts, CallShapes DEF AddProposalResponse, At, journalVars
<1>3. CASE proposal[q] # "awaiting"
  <2>1. Stored
    BY <1>1, <1>2, <1>3 DEF AddProposalResponse, Stored
  <2>2. QED
    BY <1>2, <2>1, LeaveMoves
<1>4. CASE proposal[q] = "awaiting"
  <2>1. /\ proposal' = [proposal EXCEPT ![q] = "sealed"]
        /\ \/ job' = job
           \/ job' = "proposal_response_sealed"
              /\ \A u \in Proposals \ {q} : proposal[u] # "awaiting"
    BY <1>1, <1>4 DEF AddProposalResponse
  <2>2. Opened' = Opened
    BY <1>2 DEF Opened
  <2>3. /\ proposal \in [Proposals -> {"awaiting", "sealed", "consumed"}]
        /\ proposal'[q] = "sealed" /\ \A u \in Proposals : u # q => proposal'[u] = proposal[u]
    BY <1>2, <2>1 DEF IInv, TypeOK
  <2>4. Grows(p) /\ RowsKept(p) /\ OthersRun(p)
    BY <1>2, <1>4, <2>2, <2>3 DEF Grows, RowsKept, OthersRun, IInv, TypeOK
  <2>5. StoreTyped'
    BY <1>2, <2>1, <2>3 DEF StoreTyped, IInv, TypeOK, JobStates
  <2>6. ConsumptionOnRecord'
    BY <1>2, <1>4, <2>3 DEF IInv, ConsumptionOnRecord
  <2>7. StateNeverAhead'
    <3>1. CASE job' = job
      BY <1>2, <1>4, <2>2, <2>3, <3>1 DEF IInv, StateNeverAhead
    <3>2. CASE job' = "proposal_response_sealed" /\ job' # job
      BY <2>1, <2>3, <3>2 DEF StateNeverAhead
    <3>3. QED
      BY <2>1, <3>1, <3>2
  <2>8. Preserved
    BY <1>2, UnchangedPreserves DEF IInv
  <2>9. PICK d : d = Idle
    OBVIOUS
  <2>10. d \in CallRecords /\ Sound(p, d)' /\ Moves(p, d)
    BY <1>2, <2>8, <2>9, CallsMade, IdleSound DEF Moves, Goto
  <2>11. QED
    BY <2>4, <2>5, <2>6, <2>7, <2>10, Assemble
<1>5. QED
  BY <1>3, <1>4

LEMMA ConsumeProposalStep ==
  ASSUME IInv, NEW p \in Pids, ConsumeProposal(p)
  PROVE  IInv'
<1>1. PICK q \in Proposals :
        /\ Ensured(q)
        /\ \/ proposal[q] = "sealed" /\ Goto(p, [pc |-> "consumeState", of |-> q])
           \/ /\ proposal[q] = "consumed"
              /\ Goto(p, [pc |-> "complete", of |-> q, todo |-> {}])
  BY DEF ConsumeProposal
<1>2. p \in live /\ Stored /\ q \in Tasks /\ proposal' = proposal /\ live' = live
  BY RequestsAssumption DEF ConsumeProposal, At, Stored, storeVars
<1>3. PICK d : /\ Goto(p, d)
               /\ \/ proposal[q] = "sealed" /\ d = [pc |-> "consumeState", of |-> q]
                  \/ proposal[q] = "consumed" /\ d = [pc |-> "complete", of |-> q, todo |-> {}]
  BY <1>1
<1>4. d \in CallRecords /\ d.pc \notin Owning
  <2>1. CASE d = [pc |-> "consumeState", of |-> q]
    BY <2>1, CallsMade DEF Owning
  <2>2. CASE d = [pc |-> "complete", of |-> q, todo |-> {}]
    BY <1>2, <2>2, CallsMade DEF Owning
  <2>3. QED
    BY <1>3, <2>1, <2>2
<1>5. SoundQueue(d)' /\ SoundRun(d)'
  BY <1>2, <1>3 DEF SoundQueue, SoundRun, Completes
<1>6. Sound(p, d)'
  BY <1>2, <1>4, <1>5 DEF Sound, SoundOwner
<1>7. call' = [call EXCEPT ![p] = d]
  BY <1>3 DEF Goto
<1>8. QED
  BY <1>1, <1>2, <1>4, <1>6, <1>7, EnsureMoves

LEMMA ConsumeStateStep ==
  ASSUME IInv, NEW p \in Pids, ConsumeState(p)
  PROVE  IInv'
<1>1. PICK q : q = call[p].of
  OBVIOUS
<1>2. /\ p \in live /\ Stored /\ UNCHANGED journalVars /\ q \in Proposals
      /\ proposal[q] # "awaiting" /\ proposal' = proposal
      /\ Goto(p, [pc |-> "consumeClaim", of |-> q]) \/ Goto(p, Idle)
  BY <1>1, CallFacts, CallShapes DEF ConsumeState, At, Stored, storeVars, SoundQueue
<1>3. CASE Goto(p, [pc |-> "consumeClaim", of |-> q])
  <2>1. PICK d : d = [pc |-> "consumeClaim", of |-> q]
    OBVIOUS
  <2>2. d \in CallRecords /\ d.pc = "consumeClaim" /\ d.of = q
    BY <1>2, <2>1, CallsMade
  <2>3. SoundQueue(d)' /\ SoundRun(d)' /\ d.pc \notin Owning
    BY <1>2, <2>2 DEF SoundQueue, SoundRun, Owning
  <2>4. QED
    BY <1>2, <1>3, <2>1, <2>2, <2>3, GoMoves
<1>4. QED
  BY <1>2, <1>3, LeaveMoves

LEMMA ConsumeClaimStep ==
  ASSUME IInv, NEW p \in Pids, ConsumeClaim(p)
  PROVE  IInv'
<1>1. PICK q : q = call[p].of
  OBVIOUS
<1>2. /\ p \in live /\ Stored /\ q \in Proposals /\ q \in Tasks /\ proposal' = proposal
      /\ live' = live
      /\ proposal[q] # "awaiting" /\ proposal[q] \in {"awaiting", "sealed", "consumed"}
      /\ \/ ClaimFor(p, q) /\ Goto(p, [pc |-> "materialize", claim |-> NewClaim(q)])
         \/ Goto(p, Idle) /\ UNCHANGED journalVars
  BY <1>1, CallFacts, CallShapes, RequestsAssumption
     DEF ConsumeClaim, At, Stored, storeVars, SoundQueue, IInv, TypeOK
<1>3. CASE ClaimFor(p, q) /\ Goto(p, [pc |-> "materialize", claim |-> NewClaim(q)])
  <2>1. PICK c : c = NewClaim(q)
    OBVIOUS
  <2>2. PICK d : d = [pc |-> "materialize", claim |-> c]
    OBVIOUS
  <2>3. /\ c \in Claims /\ c.task = q /\ Owns(p, c)'
        /\ tasks[q].state \in {"absent", "planned", "failed"}
    BY <1>2, <1>3, <2>1, Acquired
  <2>4. proposal[q] = "sealed"
    BY <1>2, <2>3 DEF IInv, ConsumptionOnRecord
  <2>5. d \in CallRecords /\ d.pc = "materialize" /\ d.claim = c
    BY <2>2, <2>3, CallsMade
  <2>6. SoundOwner(p, d)' /\ SoundQueue(d)' /\ SoundRun(d)'
    BY <1>2, <2>3, <2>4, <2>5 DEF SoundOwner, SoundQueue, SoundRun, Owning
  <2>7. Sound(p, d)' /\ call' = [call EXCEPT ![p] = d]
    BY <1>3, <2>1, <2>2, <2>6 DEF Sound, Goto
  <2>8. QED
    BY <1>2, <1>3, <2>5, <2>7, AcquireMoves
<1>4. QED
  BY <1>2, <1>3, LeaveMoves

LEMMA MaterializeStep ==
  ASSUME IInv, NEW p \in Pids, Materialize(p)
  PROVE  IInv'
<1>1. PICK c : c = call[p].claim
  OBVIOUS
<1>2. PICK q : q = c.task
  OBVIOUS
<1>3. /\ p \in live /\ c \in Claims /\ Owns(p, c) /\ q \in Proposals /\ q \in Tasks
      /\ proposal[q] = "sealed" /\ tasks[q].state = "claimed" /\ tasks[q].pid = p
      /\ Goto(p, [pc |-> "consumeCommit", claim |-> c])
      /\ UNCHANGED journalVars /\ tasks' = tasks /\ live' = live
      /\ published' = published /\ outputs' = outputs /\ frozen' = frozen
  BY <1>1, <1>2, CallFacts, CallShapes, RequestsAssumption
     DEF Materialize, At, journalVars, SoundQueue, SoundOwner, Owning, Owns
<1>4. PICK others : others = {proposal[u] : u \in Proposals \ {q}}
  OBVIOUS
<1>5. PICK qualified \in SUBSET CandidatesOf[q] :
        /\ MarkConsumed(q)
        /\ review' = [r \in Reviews |->
             IF r \in qualified /\ review[r] = "absent" THEN "awaiting" ELSE review[r]]
        /\ job' = IF "awaiting" \in others THEN "awaiting_candidate_proposal"
                  ELSE IF "sealed" \in others THEN "proposal_response_sealed"
                  ELSE IF qualified # {} THEN "awaiting_authorized_analysis"
                  ELSE "insufficient"
  BY <1>1, <1>2, <1>3, <1>4 DEF Materialize
<1>6. /\ proposal' \in [Proposals -> {"awaiting", "sealed", "consumed"}]
      /\ proposal'[q] = "consumed" /\ \A u \in Proposals : u # q => proposal'[u] = proposal[u]
  BY <1>3, <1>5 DEF MarkConsumed, IInv, TypeOK
<1>7. /\ review' \in [Reviews -> {"absent", "awaiting", "sealed", "consumed"}]
      /\ \A r \in Reviews : review[r] = "consumed" <=> review'[r] = "consumed"
  BY <1>5 DEF IInv, TypeOK
<1>8. ~AllConsumed
  BY <1>3 DEF AllConsumed
<1>9. Grows(p) /\ RowsKept(p) /\ OthersRun(p)
  BY <1>3, <1>6, <1>7, <1>8 DEF Grows, RowsKept, OthersRun, IInv, TypeOK
<1>10. job' \in {"awaiting_candidate_proposal", "proposal_response_sealed",
                 "awaiting_authorized_analysis", "insufficient"}
  BY <1>5
<1>11. StoreTyped'
  BY <1>3, <1>6, <1>7, <1>10 DEF StoreTyped, IInv, TypeOK, JobStates
<1>12. ConsumptionOnRecord'
  BY <1>3, <1>6, <1>7 DEF IInv, ConsumptionOnRecord
<1>13. StateNeverAhead'
  <2>1. ASSUME job' = "proposal_response_sealed", NEW u \in Proposals
        PROVE  proposal'[u] # "awaiting"
    <3>1. "awaiting" \notin others
      BY <1>5, <2>1
    <3>2. QED
      BY <1>4, <1>6, <3>1
  <2>2. QED
    BY <1>10, <2>1 DEF StateNeverAhead
<1>14. Preserved
  BY <1>3, UnchangedPreserves DEF IInv
<1>15. PICK d : d = [pc |-> "consumeCommit", claim |-> c]
  OBVIOUS
<1>16. d \in CallRecords /\ d.pc = "consumeCommit" /\ d.claim = c /\ Moves(p, d)
  BY <1>3, <1>14, <1>15, CallsMade DEF Moves, Goto
<1>17. Owns(p, c)'
  BY <1>3 DEF Owns, Fenced, Genuine, journalVars
<1>18. SoundOwner(p, d)' /\ SoundQueue(d)' /\ SoundRun(d)'
  BY <1>2, <1>3, <1>6, <1>16, <1>17 DEF SoundOwner, SoundQueue, SoundRun, Owning
<1>19. Sound(p, d)'
  BY <1>18 DEF Sound
<1>20. QED
  BY <1>9, <1>11, <1>12, <1>13, <1>16, <1>19, Assemble

\* The owner commits its task and goes on.
LEMMA CommitMoves ==
  ASSUME IInv, NEW p \in live, NEW d \in CallRecords, Goto(p, d), NEW c, Owns(p, c),
         CommitTask(c), Stored, d.pc \notin Owning, SoundQueue(d)', SoundRun(d)',
         c.task \in Proposals => proposal[c.task] = "consumed",
         \A r \in Reviews : PublishTask[r] = c.task => r \in published
  PROVE  IInv'
<1>1. p \in Pids /\ call' = [call EXCEPT ![p] = d] /\ live' = live
      /\ proposal' = proposal /\ published' = published
  BY StoredFacts DEF IInv, TypeOK, Goto
<1>2. Sound(p, d)'
  BY <1>1 DEF Sound, SoundOwner
<1>3. PICK t \in Tasks : t = c.task
  BY <1>1, Settled
<1>4. /\ Preserved /\ \A u \in Tasks : u # t => tasks'[u] = tasks[u]
      /\ tasks'[t].state = "succeeded"
      /\ tasks[t].state = "claimed" /\ tasks[t].pid = p
  BY <1>1, <1>3, Settled
<1>5. Agrees(t)'
  BY <1>1, <1>3, <1>4 DEF Agrees
<1>6. Moves(p, d) /\ OnlyRow(t) /\ RowsKept(p)
  BY <1>1, <1>4 DEF Moves, OnlyRow, RowsKept
<1>7. QED
  BY <1>1, <1>2, <1>5, <1>6, RowMoves

\* The owner records a failure and goes on.
LEMMA FailureMoves ==
  ASSUME IInv, NEW p \in live, NEW d \in CallRecords, Goto(p, d), NEW c, Owns(p, c),
         RecordFailure(c, "failed"), Stored, d.pc \notin Owning, SoundQueue(d)', SoundRun(d)',
         c.task \in Proposals => proposal[c.task] # "consumed"
  PROVE  IInv'
<1>1. p \in Pids /\ call' = [call EXCEPT ![p] = d] /\ live' = live
      /\ proposal' = proposal /\ published' = published
  BY StoredFacts DEF IInv, TypeOK, Goto
<1>2. Sound(p, d)'
  BY <1>1 DEF Sound, SoundOwner
<1>3. PICK t \in Tasks : t = c.task
  BY <1>1, Settled
<1>4. /\ Preserved /\ \A u \in Tasks : u # t => tasks'[u] = tasks[u]
      /\ tasks'[t].state = "failed"
      /\ tasks[t].state = "claimed" /\ tasks[t].pid = p
  BY <1>1, <1>3, Settled
<1>5. Agrees(t)'
  BY <1>1, <1>3, <1>4 DEF Agrees
<1>6. Moves(p, d) /\ OnlyRow(t) /\ RowsKept(p)
  BY <1>1, <1>4 DEF Moves, OnlyRow, RowsKept
<1>7. QED
  BY <1>1, <1>2, <1>5, <1>6, RowMoves

\* Nothing is asked of a call that is over.
LEMMA IdleCall ==
  ASSUME NEW d, d = Idle
  PROVE  d \in CallRecords /\ d.pc \notin Owning /\ SoundQueue(d)' /\ SoundRun(d)'
BY CallsMade DEF Idle, Owning, SoundQueue, SoundRun

LEMMA MaterializeFailsStep ==
  ASSUME IInv, NEW p \in Pids, MaterializeFails(p)
  PROVE  IInv'
<1>1. PICK c : c = call[p].claim
  OBVIOUS
<1>2. /\ p \in live /\ Owns(p, c) /\ proposal[c.task] = "sealed"
      /\ RecordFailure(c, "failed") /\ Goto(p, Idle) /\ Stored
  BY <1>1, CallFacts DEF MaterializeFails, At, SoundQueue, SoundOwner, Owning, Stored, storeVars
<1>3. QED
  BY <1>2, IdleCall, FailureMoves

LEMMA ConsumeCommitStep ==
  ASSUME IInv, NEW p \in Pids, ConsumeCommit(p)
  PROVE  IInv'
<1>1. PICK c : c = call[p].claim
  OBVIOUS
<1>2. /\ p \in live /\ Owns(p, c) /\ c.task \in Proposals /\ proposal[c.task] = "consumed"
      /\ CommitTask(c) /\ Goto(p, Idle) /\ Stored
  BY <1>1, CallFacts DEF ConsumeCommit, At, SoundQueue, SoundOwner, Owning, Stored, storeVars
<1>3. \A r \in Reviews : PublishTask[r] # c.task
  BY <1>2, RequestsAssumption
<1>4. QED
  BY <1>2, <1>3, IdleCall, CommitMoves

----------------------------------------------------------------------------
\* complete_existing_local_task

LEMMA AfterCompletion ==
  ASSUME NEW t, NEW todo, Completes(t, todo), todo # {}
  PROVE  Publishing({r \in todo : PublishTask[r] # t})
<1>1. Publishing(todo) /\ \E r \in todo : t = PublishTask[r] /\ r \in published
  BY DEF Completes
<1>2. PICK r \in todo : t = PublishTask[r] /\ r \in published
  BY <1>1
<1>3. todo \subseteq Reviews
  BY <1>1 DEF Publishing, Opened
<1>4. \A u \in todo : PublishTask[u] = t => u = r
  BY <1>2, <1>3, RequestsAssumption
<1>5. QED
  BY <1>1, <1>2, <1>4 DEF Publishing

\* Where a completed call goes on.
LEMMA CompletedCall ==
  ASSUME IInv, NEW p \in live, Completed(p), Stored, Completes(call[p].of, call[p].todo)
  PROVE  \E d \in CallRecords :
           Goto(p, d) /\ d.pc \notin Owning /\ SoundQueue(d)' /\ SoundRun(d)'
<1>1. PICK todo, t : todo = call[p].todo /\ t = call[p].of
  OBVIOUS
<1>2. CASE todo = {}
  <2>1. Goto(p, Idle)
    BY <1>1, <1>2 DEF Completed
  <2>2. QED
    BY <2>1, IdleCall
<1>3. CASE todo # {}
  <2>1. PICK rest : rest = {r \in todo : PublishTask[r] # t}
    OBVIOUS
  <2>2. Publishing(rest)' /\ Publishing(rest)
    BY <1>1, <1>3, <2>1, AfterCompletion, StoredStays
  <2>3. rest \in SUBSET Reviews
    BY <2>2 DEF Publishing, Opened
  <2>4. PICK d : d = [pc |-> "publish", todo |-> rest]
    OBVIOUS
  <2>5. d \in CallRecords /\ d.pc = "publish" /\ d.todo = rest
    BY <2>3, <2>4, CallsMade
  <2>6. Goto(p, d)
    BY <1>1, <1>3, <2>1, <2>4 DEF Completed
  <2>7. SoundQueue(d)' /\ SoundRun(d)' /\ d.pc \notin Owning
    BY <2>2, <2>5 DEF SoundQueue, SoundRun, Owning
  <2>8. QED
    BY <2>5, <2>6, <2>7
<1>4. QED
  BY <1>2, <1>3

LEMMA RefusedMoves ==
  ASSUME IInv, NEW p \in live, CompleteRefused(p), UNCHANGED journalVars, Stored
  PROVE  IInv'
BY LeaveMoves, FailMoves DEF CompleteRefused

LEMMA CompleteReadStep ==
  ASSUME IInv, NEW p \in Pids, CompleteRead(p)
  PROVE  IInv'
<1>1. PICK t, todo : t = call[p].of /\ todo = call[p].todo
  OBVIOUS
<1>2. /\ p \in live /\ Stored /\ UNCHANGED journalVars
      /\ t \in Tasks /\ todo \in SUBSET Reviews /\ Completes(t, todo)
  BY <1>1, CallFacts, CallShapes DEF CompleteRead, At, Stored, storeVars, SoundQueue
<1>3. CASE Completed(p)
  BY <1>1, <1>2, <1>3, CompletedCall, GoMoves
<1>4. CASE CompleteRefused(p)
  BY <1>2, <1>4, RefusedMoves
<1>5. ASSUME NEW s \in {"planned", "claimed"},
             Goto(p, [pc |-> "acquire", of |-> t, todo |-> todo, seen |-> s])
      PROVE  IInv'
  <2>1. PICK d : d = [pc |-> "acquire", of |-> t, todo |-> todo, seen |-> s]
    OBVIOUS
  <2>2. d \in CallRecords /\ d.pc = "acquire" /\ d.of = t /\ d.todo = todo
    BY <1>2, <2>1, CallsMade
  <2>3. Completes(t, todo)'
    BY <1>2, StoredStays
  <2>4. SoundQueue(d)' /\ SoundRun(d)' /\ d.pc \notin Owning
    BY <2>2, <2>3 DEF SoundQueue, SoundRun, Owning
  <2>5. QED
    BY <1>2, <1>5, <2>1, <2>2, <2>4, GoMoves
<1>6. QED
  BY <1>1, <1>3, <1>4, <1>5 DEF CompleteRead

LEMMA CompleteAcquireStep ==
  ASSUME IInv, NEW p \in Pids, CompleteAcquire(p)
  PROVE  IInv'
<1>1. PICK t, todo : t = call[p].of /\ todo = call[p].todo
  OBVIOUS
<1>2. /\ p \in live /\ Stored /\ live' = live
      /\ t \in Tasks /\ todo \in SUBSET Reviews /\ Completes(t, todo)
  BY <1>1, CallFacts, CallShapes DEF CompleteAcquire, At, Stored, storeVars, SoundQueue
<1>3. \/ /\ \/ ClaimFor(p, t)
            \/ \E exited \in ReportedExited :
                 TakeoverStaleClaim(t, Worker, InputDigest[t], p, exited)
         /\ Goto(p, [pc |-> "completeCommit", claim |-> NewClaim(t), of |-> t, todo |-> todo])
      \/ CompleteRefused(p) /\ UNCHANGED journalVars
  BY <1>1 DEF CompleteAcquire
<1>4. CASE CompleteRefused(p) /\ UNCHANGED journalVars
  BY <1>2, <1>4, RefusedMoves
<1>5. CASE /\ \/ ClaimFor(p, t)
              \/ \E exited \in ReportedExited :
                   TakeoverStaleClaim(t, Worker, InputDigest[t], p, exited)
           /\ Goto(p, [pc |-> "completeCommit", claim |-> NewClaim(t), of |-> t, todo |-> todo])
  <2>1. PICK c : c = NewClaim(t)
    OBVIOUS
  <2>2. PICK d : d = [pc |-> "completeCommit", claim |-> c, of |-> t, todo |-> todo]
    OBVIOUS
  <2>3. c \in Claims /\ c.task = t /\ Owns(p, c)'
    BY <1>2, <1>5, <2>1, Acquired
  <2>4. /\ d \in CallRecords /\ d.pc = "completeCommit" /\ d.claim = c /\ d.of = t
        /\ d.todo = todo
    BY <1>2, <2>2, <2>3, CallsMade
  <2>5. Completes(t, todo)'
    BY <1>2, StoredStays
  <2>6. SoundOwner(p, d)' /\ SoundQueue(d)' /\ SoundRun(d)'
    BY <1>2, <2>3, <2>4, <2>5 DEF SoundOwner, SoundQueue, SoundRun, Owning
  <2>7. Sound(p, d)' /\ call' = [call EXCEPT ![p] = d]
    BY <1>5, <2>1, <2>2, <2>6 DEF Sound, Goto
  <2>8. QED
    BY <1>2, <1>5, <2>4, <2>7, AcquireMoves
<1>6. QED
  BY <1>3, <1>4, <1>5

LEMMA CompleteCommitStep ==
  ASSUME IInv, NEW p \in Pids, CompleteCommit(p)
  PROVE  IInv'
<1>1. PICK c, t, todo : c = call[p].claim /\ t = call[p].of /\ todo = call[p].todo
  OBVIOUS
<1>2. /\ p \in live /\ Stored /\ CommitTask(c) /\ Completed(p)
      /\ Owns(p, c) /\ c.task = t /\ Completes(t, todo)
  BY <1>1, CallFacts DEF CompleteCommit, At, Stored, storeVars, SoundQueue, SoundOwner, Owning
<1>3. PICK d \in CallRecords :
        Goto(p, d) /\ d.pc \notin Owning /\ SoundQueue(d)' /\ SoundRun(d)'
  BY <1>1, <1>2, CompletedCall
<1>4. /\ t \in Proposals => proposal[t] = "consumed"
      /\ \A r \in Reviews : PublishTask[r] = t => r \in published
  <2>1. CASE todo = {} /\ t \in Proposals /\ proposal[t] = "consumed"
    BY <2>1, RequestsAssumption
  <2>2. ASSUME Publishing(todo), NEW r \in todo, t = PublishTask[r], r \in published
        PROVE  t \notin Proposals /\ \A u \in Reviews : PublishTask[u] = t => u \in published
    <3>1. r \in Reviews
      BY <2>2 DEF Publishing, Opened
    <3>2. QED
      BY <2>2, <3>1, RequestsAssumption
  <2>3. QED
    BY <1>2, <2>1, <2>2 DEF Completes
<1>5. QED
  BY <1>2, <1>3, <1>4, CommitMoves

----------------------------------------------------------------------------
\* Review requests.

\* A write to the store.
LEMMA StoreMoves ==
  ASSUME IInv, NEW p \in live, NEW d \in CallRecords, Goto(p, d), UNCHANGED journalVars,
         live' = live, Grows(p), StoreTyped', ConsumptionOnRecord', StateNeverAhead',
         d.pc \notin Owning, SoundQueue(d)', SoundRun(d)'
  PROVE  IInv'
<1>1. Preserved /\ tasks' = tasks /\ p \in Pids
  BY UnchangedPreserves DEF IInv, journalVars, TypeOK
<1>2. Moves(p, d) /\ RowsKept(p) /\ OthersRun(p)
  BY <1>1 DEF Moves, Goto, RowsKept, OthersRun
<1>3. Sound(p, d)'
  BY DEF Sound, SoundOwner
<1>4. QED
  BY <1>1, <1>2, <1>3, Assemble

LEMMA SealReviewStep ==
  ASSUME IInv, NEW p \in Pids, SealReview(p)
  PROVE  IInv'
<1>1. PICK r \in Reviews : Goto(p, [pc |-> "sealReview", of |-> r])
  BY DEF SealReview
<1>2. PICK d : d = [pc |-> "sealReview", of |-> r]
  OBVIOUS
<1>3. d \in CallRecords /\ d.pc = "sealReview" /\ Goto(p, d)
  BY <1>1, <1>2, CallsMade
<1>4. SoundQueue(d)' /\ SoundRun(d)' /\ d.pc \notin Owning
  BY <1>3 DEF SoundQueue, SoundRun, Owning
<1>5. p \in live /\ UNCHANGED journalVars /\ Stored
  BY DEF SealReview, At, Stored, storeVars
<1>6. QED
  BY <1>3, <1>4, <1>5, GoMoves

\* A call that refreshes the state next.
LEMMA RefreshCall ==
  ASSUME NEW b \in BOOLEAN, NEW d, d = [pc |-> "refresh", resume |-> b]
  PROVE  d \in CallRecords /\ d.pc \notin Owning /\ SoundQueue(d)' /\ SoundRun(d)'
BY CallsMade DEF Owning, SoundQueue, SoundRun

\* One review goes a step further.
LEMMA ReviewMoves ==
  ASSUME IInv, NEW p \in live, NEW r \in Reviews,
         \/ review[r] = "awaiting" /\ review' = [review EXCEPT ![r] = "sealed"]
         \/ review[r] = "sealed" /\ tasks[r].state = "succeeded"
            /\ review' = [review EXCEPT ![r] = "consumed"],
         Goto(p, [pc |-> "refresh", resume |-> FALSE]),
         UNCHANGED <<journalVars, live, job, proposal, published, outputs, frozen>>
  PROVE  IInv'
<1>1. /\ UNCHANGED journalVars /\ tasks' = tasks /\ live' = live /\ job' = job
      /\ proposal' = proposal /\ published' = published /\ outputs' = outputs
      /\ frozen' = frozen
  BY DEF journalVars
<1>2. /\ review' \in [Reviews -> {"absent", "awaiting", "sealed", "consumed"}]
      /\ \A u \in Reviews : u # r => review'[u] = review[u]
      /\ review[r] \in {"awaiting", "sealed"}
      /\ \/ review'[r] = "sealed"
         \/ review'[r] = "consumed" /\ tasks[r].state = "succeeded"
  BY DEF IInv, TypeOK
<1>3. Opened' = Opened /\ r \in Opened
  BY <1>2 DEF Opened
<1>4. Grows(p)
  BY <1>1, <1>2, <1>3 DEF Grows, IInv, TypeOK
<1>5. StoreTyped'
  BY <1>1, <1>2 DEF StoreTyped, IInv, TypeOK
<1>6. ConsumptionOnRecord'
  BY <1>1, <1>2 DEF IInv, ConsumptionOnRecord
<1>7. StateNeverAhead'
  BY <1>1, <1>2, <1>3 DEF IInv, StateNeverAhead
<1>8. PICK d : d = [pc |-> "refresh", resume |-> FALSE]
  OBVIOUS
<1>9. d \in CallRecords /\ d.pc \notin Owning /\ SoundQueue(d)' /\ SoundRun(d)' /\ Goto(p, d)
  BY <1>8, RefreshCall
<1>10. QED
  BY <1>1, <1>4, <1>5, <1>6, <1>7, <1>9, StoreMoves

\* The call only refreshes the state next.
LEMMA ToRefreshMoves ==
  ASSUME IInv, NEW p \in live, NEW b \in BOOLEAN,
         Goto(p, [pc |-> "refresh", resume |-> b]), UNCHANGED journalVars, Stored
  PROVE  IInv'
<1>1. PICK d : d = [pc |-> "refresh", resume |-> b]
  OBVIOUS
<1>2. d \in CallRecords /\ d.pc \notin Owning /\ SoundQueue(d)' /\ SoundRun(d)' /\ Goto(p, d)
  BY <1>1, RefreshCall
<1>3. QED
  BY <1>2, GoMoves

LEMMA AddReviewStep ==
  ASSUME IInv, NEW p \in Pids, AddReviewResponse(p)
  PROVE  IInv'
<1>1. PICK r : r = call[p].of
  OBVIOUS
<1>2. /\ p \in live /\ r \in Reviews
      /\ UNCHANGED <<journalVars, live, job, proposal, published, outputs, frozen>>
      /\ UNCHANGED journalVars
  BY <1>1, CallFacts, CallShapes DEF AddReviewResponse, At
<1>3. \/ /\ review[r] = "awaiting" /\ review' = [review EXCEPT ![r] = "sealed"]
         /\ Goto(p, [pc |-> "refresh", resume |-> FALSE])
      \/ review' = review /\ Goto(p, [pc |-> "refresh", resume |-> FALSE])
      \/ review' = review /\ Goto(p, Idle)
  BY <1>1 DEF AddReviewResponse
<1>4. review' = review => Stored
  BY <1>2 DEF Stored
<1>5. QED
  BY <1>2, <1>3, <1>4, ReviewMoves, ToRefreshMoves, LeaveMoves

LEMMA ConsumeReviewStep ==
  ASSUME IInv, NEW p \in Pids, ConsumeReview(p)
  PROVE  IInv'
<1>1. PICK r \in Reviews : Ensured(r) /\ Goto(p, [pc |-> "reviewClaim", of |-> r])
  BY DEF ConsumeReview
<1>2. p \in live /\ Stored /\ r \in Tasks /\ live' = live
  BY RequestsAssumption DEF ConsumeReview, At, Stored, storeVars
<1>3. PICK d : d = [pc |-> "reviewClaim", of |-> r]
  OBVIOUS
<1>4. d \in CallRecords /\ d.pc = "reviewClaim" /\ call' = [call EXCEPT ![p] = d]
  BY <1>1, <1>3, CallsMade DEF Goto
<1>5. Sound(p, d)'
  BY <1>2, <1>4 DEF Sound, SoundOwner, SoundQueue, SoundRun, Owning
<1>6. QED
  BY <1>1, <1>2, <1>4, <1>5, EnsureMoves

LEMMA ReviewClaimStep ==
  ASSUME IInv, NEW p \in Pids, ReviewClaim(p)
  PROVE  IInv'
<1>1. PICK r : r = call[p].of
  OBVIOUS
<1>2. /\ p \in live /\ Stored /\ live' = live /\ r \in Reviews /\ r \in Tasks
      /\ \/ /\ tasks[r].state = "succeeded" /\ UNCHANGED journalVars
            /\ Goto(p, [pc |-> "mark", of |-> r])
         \/ ClaimFor(p, r) /\ Goto(p, [pc |-> "reviewCommit", claim |-> NewClaim(r)])
         \/ Goto(p, Idle) /\ UNCHANGED journalVars
  BY <1>1, CallFacts, CallShapes, RequestsAssumption DEF ReviewClaim, At, Stored, storeVars
<1>3. CASE /\ tasks[r].state = "succeeded" /\ UNCHANGED journalVars
           /\ Goto(p, [pc |-> "mark", of |-> r])
  <2>1. PICK d : d = [pc |-> "mark", of |-> r]
    OBVIOUS
  <2>2. d \in CallRecords /\ d.pc = "mark" /\ d.of = r /\ Goto(p, d)
    BY <1>2, <1>3, <2>1, CallsMade
  <2>3. SoundQueue(d)' /\ SoundRun(d)' /\ d.pc \notin Owning
    BY <1>3, <2>2 DEF SoundQueue, SoundRun, Owning, journalVars
  <2>4. QED
    BY <1>2, <1>3, <2>2, <2>3, GoMoves
<1>4. CASE ClaimFor(p, r) /\ Goto(p, [pc |-> "reviewCommit", claim |-> NewClaim(r)])
  <2>1. PICK c : c = NewClaim(r)
    OBVIOUS
  <2>2. PICK d : d = [pc |-> "reviewCommit", claim |-> c]
    OBVIOUS
  <2>3. c \in Claims /\ c.task = r /\ Owns(p, c)'
    BY <1>2, <1>4, <2>1, Acquired
  <2>4. d \in CallRecords /\ d.pc = "reviewCommit" /\ d.claim = c
    BY <2>2, <2>3, CallsMade
  <2>5. SoundOwner(p, d)' /\ SoundQueue(d)' /\ SoundRun(d)'
    BY <1>2, <2>3, <2>4 DEF SoundOwner, SoundQueue, SoundRun, Owning
  <2>6. Sound(p, d)' /\ call' = [call EXCEPT ![p] = d]
    BY <1>4, <2>1, <2>2, <2>5 DEF Sound, Goto
  <2>7. QED
    BY <1>2, <1>4, <2>4, <2>6, AcquireMoves
<1>5. QED
  BY <1>2, <1>3, <1>4, LeaveMoves

LEMMA ReviewCommitStep ==
  ASSUME IInv, NEW p \in Pids, ReviewCommit(p)
  PROVE  IInv'
<1>1. PICK c, r : c = call[p].claim /\ r = c.task
  OBVIOUS
<1>2. /\ p \in live /\ Owns(p, c) /\ r \in Reviews /\ CommitTask(c)
      /\ Goto(p, [pc |-> "mark", of |-> r]) /\ Stored
  BY <1>1, CallFacts DEF ReviewCommit, At, SoundQueue, SoundOwner, Owning, Stored, storeVars
<1>3. r \notin Proposals /\ \A u \in Reviews : PublishTask[u] # r
  BY <1>2, RequestsAssumption
<1>4. tasks'[r].state = "succeeded"
  BY <1>1, <1>2, Settled DEF IInv, TypeOK
<1>5. PICK d : d = [pc |-> "mark", of |-> r]
  OBVIOUS
<1>6. d \in CallRecords /\ d.pc = "mark" /\ d.of = r /\ Goto(p, d)
  BY <1>2, <1>5, CallsMade
<1>7. SoundQueue(d)' /\ SoundRun(d)' /\ d.pc \notin Owning
  BY <1>4, <1>6 DEF SoundQueue, SoundRun, Owning
<1>8. QED
  BY <1>1, <1>2, <1>3, <1>6, <1>7, CommitMoves

LEMMA MarkStep ==
  ASSUME IInv, NEW p \in Pids, Mark(p)
  PROVE  IInv'
<1>1. PICK r : r = call[p].of
  OBVIOUS
<1>2. /\ p \in live /\ r \in Reviews /\ tasks[r].state = "succeeded"
      /\ Goto(p, [pc |-> "refresh", resume |-> FALSE])
      /\ UNCHANGED <<journalVars, live, job, proposal, published, outputs, frozen>>
      /\ UNCHANGED journalVars
      /\ review' = [review EXCEPT ![r] = IF @ = "sealed" THEN "consumed" ELSE @]
      /\ review \in [Reviews -> {"absent", "awaiting", "sealed", "consumed"}]
  BY <1>1, CallFacts, CallShapes DEF Mark, At, SoundQueue, IInv, TypeOK
<1>3. \/ review[r] = "sealed" /\ review' = [review EXCEPT ![r] = "consumed"]
      \/ review' = review
  BY <1>2
<1>4. review' = review => Stored
  BY <1>2 DEF Stored
<1>5. QED
  BY <1>2, <1>3, <1>4, ReviewMoves, ToRefreshMoves

LEMMA DesiredStates ==
  /\ Desired \in {"awaiting_authorized_analysis", "response_sealed", "consumed"}
  /\ TypeOK /\ Desired = "consumed" => \A r \in Opened : review[r] = "consumed"
BY DEF Desired, Opened, TypeOK

\* What is seen of the reviews stays when only the job state is written.
LEMMA JobMoves ==
  ASSUME IInv, NEW p \in live, NEW d \in CallRecords, Goto(p, d), job' \in JobStates,
         UNCHANGED <<journalVars, live, proposal, review, published, outputs, frozen>>,
         StateNeverAhead', d.pc \notin Owning,
         Grows(p) => SoundQueue(d)' /\ SoundRun(d)'
  PROVE  IInv'
<1>1. /\ UNCHANGED journalVars /\ tasks' = tasks /\ live' = live
      /\ proposal' = proposal /\ review' = review /\ published' = published
      /\ outputs' = outputs /\ frozen' = frozen
  BY DEF journalVars
<1>2. Grows(p)
  BY <1>1 DEF Grows, Opened, IInv, TypeOK
<1>3. StoreTyped' /\ ConsumptionOnRecord'
  BY <1>1 DEF StoreTyped, ConsumptionOnRecord, IInv, TypeOK
<1>4. QED
  BY <1>1, <1>2, <1>3, StoreMoves

LEMMA RefreshJobStep ==
  ASSUME IInv, NEW p \in Pids, Refresh(p)
  PROVE  IInv'
<1>1. /\ p \in live /\ Goto(p, Idle) /\ review' = review
      /\ UNCHANGED <<journalVars, live, proposal, review, published, outputs, frozen>>
      /\ UNCHANGED journalVars
      /\ job' = job \/ job' = Desired
  BY DEF Refresh, At
<1>2. CASE job' = job
  <2>1. Stored
    BY <1>1, <1>2 DEF Stored
  <2>2. QED
    BY <1>1, <2>1, LeaveMoves
<1>3. CASE job' = Desired
  <2>1. Opened' = Opened
    BY <1>1 DEF Opened
  <2>2. StateNeverAhead' /\ job' \in JobStates
    BY <1>1, <1>3, <2>1, DesiredStates DEF StateNeverAhead, JobStates, IInv
  <2>3. QED
    BY <1>1, <2>2, IdleCall, JobMoves
<1>4. QED
  BY <1>1, <1>2, <1>3

\* resume_failed_job
LEMMA ResumeStep ==
  ASSUME IInv, NEW p \in Pids, Resume(p)
  PROVE  IInv'
<1>1. p \in live /\ UNCHANGED journalVars /\ Stored
  BY DEF Resume, At, Stored, storeVars
<1>2. CASE ToSet(p, "awaiting_candidate_proposal", {}) \/ ToSet(p, "insufficient", {})
  <2>1. /\ Sets("awaiting_candidate_proposal", {}) /\ Sets("insufficient", {})
        /\ {"awaiting_candidate_proposal", "insufficient"} \subseteq JobStates
    BY DEF Sets, JobStates
  <2>2. QED
    BY <1>1, <1>2, <2>1, SetMoves
<1>3. CASE "awaiting" \notin ProposalStates /\ ToSet(p, "proposal_response_sealed", {})
  <2>1. Sets("proposal_response_sealed", {}) /\ "proposal_response_sealed" \in JobStates
    BY <1>3 DEF Sets, JobStates, ProposalStates
  <2>2. QED
    BY <1>1, <1>3, <2>1, SetMoves
<1>4. CASE Goto(p, [pc |-> "refresh", resume |-> TRUE])
  BY <1>1, <1>4, ToRefreshMoves
<1>5. QED
  BY <1>2, <1>3, <1>4 DEF Resume

----------------------------------------------------------------------------
\* run_job

LEMMA RunJobStep ==
  ASSUME IInv, NEW p \in Pids, RunJob(p)
  PROVE  IInv'
<1>1. p \in live /\ UNCHANGED journalVars /\ Stored /\ "awaiting" \notin ProposalStates
  BY DEF RunJob, At, Stored, storeVars
<1>2. CASE ToSet(p, "proposal_response_sealed", {})
  <2>1. Sets("proposal_response_sealed", {}) /\ "proposal_response_sealed" \in JobStates
    BY <1>1 DEF Sets, JobStates, ProposalStates
  <2>2. QED
    BY <1>1, <1>2, <2>1, SetMoves
<1>3. CASE "sealed" \notin ProposalStates /\ Goto(p, [pc |-> "reviews"])
  <2>1. AllConsumed
    BY <1>1, <1>3 DEF AllConsumed, ProposalStates, IInv, TypeOK
  <2>2. PICK d : d = [pc |-> "reviews"]
    OBVIOUS
  <2>3. d \in CallRecords /\ d.pc = "reviews"
    BY <2>2, CallsMade
  <2>4. SoundQueue(d)' /\ SoundRun(d)' /\ d.pc \notin Owning
    BY <1>1, <2>1, <2>3, StoredStays DEF SoundQueue, SoundRun, Owning
  <2>5. QED
    BY <1>1, <1>3, <2>2, <2>3, <2>4, GoMoves
<1>4. QED
  BY <1>2, <1>3 DEF RunJob

LEMMA RunReviewsStep ==
  ASSUME IInv, NEW p \in Pids, RunReviews(p)
  PROVE  IInv'
<1>1. p \in live /\ UNCHANGED journalVars /\ Stored /\ AllConsumed
  BY CallFacts DEF RunReviews, At, Stored, storeVars, SoundRun
<1>2. CASE Goto(p, Idle)
  BY <1>1, <1>2, LeaveMoves
<1>3. CASE Opened # {} /\ Desired = "consumed" /\ ToSet(p, "reviews_consumed", Opened)
  <2>1. Publishing(Opened)
    BY <1>1, <1>3, DesiredStates DEF Publishing, IInv
  <2>2. Sets("reviews_consumed", Opened) /\ "reviews_consumed" \in JobStates
    BY <2>1 DEF Sets, JobStates
  <2>3. PICK todo \in SUBSET Reviews : todo = Opened
    BY DEF Opened
  <2>4. Sets("reviews_consumed", todo) /\ ToSet(p, "reviews_consumed", todo)
    BY <1>3, <2>2, <2>3
  <2>5. QED
    BY <1>1, <2>2, <2>4, SetMoves
<1>4. CASE Desired # "consumed" /\ ToSet(p, Desired, {})
  <2>1. PICK s : s = Desired
    OBVIOUS
  <2>2. Sets(s, {}) /\ s \in JobStates /\ ToSet(p, s, {})
    BY <1>4, <2>1, DesiredStates DEF Sets, JobStates
  <2>3. QED
    BY <1>1, <2>2, SetMoves
<1>5. QED
  BY <1>2, <1>3, <1>4 DEF RunReviews

\* The state is written as it was decided, and its facts still hold.
LEMMA StateWritten ==
  ASSUME TypeOK, NEW s, NEW todo, Sets(s, todo), job' = s,
         UNCHANGED <<proposal, review, published, outputs, frozen>>
  PROVE  StateNeverAhead'
<1>1. /\ Opened' = Opened /\ proposal' = proposal /\ review' = review
      /\ published' = published /\ outputs' = outputs /\ frozen' = frozen
  BY DEF Opened
<1>2. CASE s \in {"reviews_consumed", "evidence_materialized", "evaluating", "evaluated",
                  "completed"}
  <2>1. /\ AllConsumed /\ \A r \in Opened : review[r] = "consumed"
        /\ s # "reviews_consumed" => Opened \subseteq published
    BY <1>2 DEF Sets, Publishing
  <2>2. QED
    BY <1>1, <1>2, <2>1 DEF StateNeverAhead, Sets, AllConsumed
<1>3. CASE s \notin {"reviews_consumed", "evidence_materialized", "evaluating", "evaluated",
                     "completed"}
  BY <1>1, <1>3 DEF StateNeverAhead, Sets
<1>4. QED
  BY <1>2, <1>3

LEMMA SetStateStep ==
  ASSUME IInv, NEW p \in Pids, SetState(p)
  PROVE  IInv'
<1>1. PICK s, todo : s = call[p].state /\ todo = call[p].todo
  OBVIOUS
<1>2. /\ p \in live /\ s \in JobStates /\ todo \in SUBSET Reviews /\ Sets(s, todo) /\ job' = s
      /\ UNCHANGED <<journalVars, live, proposal, review, published, outputs, frozen>>
      /\ UNCHANGED <<proposal, review, published, outputs, frozen>>
  BY <1>1, CallFacts, CallShapes DEF SetState, At, SoundRun
<1>3. StateNeverAhead'
  BY <1>2, StateWritten DEF IInv
<1>4. ASSUME NEW d \in CallRecords, Goto(p, d), d.pc \notin Owning,
             Grows(p) => SoundQueue(d)' /\ SoundRun(d)'
      PROVE  IInv'
  BY <1>2, <1>3, <1>4, JobMoves
<1>5. CASE s = "reviews_consumed" /\ Goto(p, [pc |-> "publish", todo |-> todo])
  <2>1. PICK d : d = [pc |-> "publish", todo |-> todo]
    OBVIOUS
  <2>2. d \in CallRecords /\ d.pc = "publish" /\ d.todo = todo
    BY <1>2, <2>1, CallsMade
  <2>3. Grows(p) => Publishing(todo)'
    BY <1>2, <1>5, PublishingStays DEF Sets
  <2>4. d.pc \notin Owning /\ (Grows(p) => SoundQueue(d)' /\ SoundRun(d)')
    BY <2>2, <2>3 DEF SoundQueue, SoundRun, Owning
  <2>5. QED
    BY <1>4, <1>5, <2>1, <2>2, <2>4
<1>6. CASE s = "evidence_materialized" /\ ToSet(p, "evaluating", {})
  <2>1. PICK d : d = [pc |-> "set", state |-> "evaluating", todo |-> {}]
    OBVIOUS
  <2>2. d \in CallRecords /\ d.pc = "set" /\ d.state = "evaluating" /\ d.todo = {}
    BY <2>1, CallsMade DEF JobStates
  <2>3. Grows(p) => Publishing({})'
    BY <1>2, <1>6, PublishingStays DEF Sets
  <2>4. Grows(p) => Sets(d.state, d.todo)'
    BY <2>2, <2>3 DEF Sets
  <2>5. d.pc \notin Owning /\ (Grows(p) => SoundQueue(d)' /\ SoundRun(d)')
    BY <2>2, <2>4 DEF SoundQueue, SoundRun, Owning
  <2>6. QED
    BY <1>4, <1>6, <2>1, <2>2, <2>5 DEF ToSet
<1>7. CASE s = "evaluating" /\ Goto(p, [pc |-> "evaluate", todo |-> Dimensions])
  <2>1. PICK d : d = [pc |-> "evaluate", todo |-> Dimensions]
    OBVIOUS
  <2>2. d \in CallRecords /\ d.pc = "evaluate" /\ d.todo = Dimensions
    BY <2>1, CallsMade
  <2>3. Grows(p) => Publishing({})'
    BY <1>2, <1>7, PublishingStays DEF Sets
  <2>4. d.pc \notin Owning /\ (Grows(p) => SoundQueue(d)' /\ SoundRun(d)')
    BY <2>2, <2>3 DEF SoundQueue, SoundRun, Owning
  <2>5. QED
    BY <1>4, <1>7, <2>1, <2>2, <2>4
<1>8. CASE s = "evaluated" /\ Goto(p, [pc |-> "artifacts"])
  <2>1. PICK d : d = [pc |-> "artifacts"]
    OBVIOUS
  <2>2. d \in CallRecords /\ d.pc = "artifacts"
    BY <2>1, CallsMade
  <2>3. Grows(p) => Publishing({})' /\ outputs' = Dimensions
    BY <1>2, <1>8, PublishingStays DEF Sets
  <2>4. d.pc \notin Owning /\ (Grows(p) => SoundQueue(d)' /\ SoundRun(d)')
    BY <2>2, <2>3 DEF SoundQueue, SoundRun, Owning
  <2>5. QED
    BY <1>4, <1>8, <2>1, <2>2, <2>4
<1>9. CASE Goto(p, Idle)
  BY <1>4, <1>9, IdleCall
<1>10. QED
  BY <1>1, <1>5, <1>6, <1>7, <1>8, <1>9 DEF SetState

LEMMA PublishStep ==
  ASSUME IInv, NEW p \in Pids, Publish(p)
  PROVE  IInv'
<1>1. PICK todo : todo = call[p].todo
  OBVIOUS
<1>2. /\ p \in live /\ Stored /\ todo \in SUBSET Reviews /\ Publishing(todo)
      /\ live' = live /\ published' = published /\ Publishing(todo)'
  BY <1>1, CallFacts, CallShapes, StoredStays, StoredFacts
     DEF Publish, At, SoundRun, Stored, storeVars
<1>3. CASE todo = {}
  <2>1. /\ Sets("evidence_materialized", {}) /\ "evidence_materialized" \in JobStates
    BY <1>2, <1>3 DEF Sets, JobStates
  <2>2. ToSet(p, "evidence_materialized", {}) /\ UNCHANGED journalVars
    BY <1>1, <1>3 DEF Publish
  <2>3. QED
    BY <1>2, <2>1, <2>2, SetMoves
<1>4. CASE todo # {}
  <2>1. PICK r \in todo :
          /\ Ensured(PublishTask[r])
          /\ IF r \in published
             THEN Goto(p, [pc |-> "complete", of |-> PublishTask[r], todo |-> todo])
             ELSE Goto(p, [pc |-> "publishClaim", of |-> r, todo |-> todo])
    BY <1>1, <1>4 DEF Publish
  <2>2. PICK t : t = PublishTask[r]
    OBVIOUS
  <2>3. t \in Tasks /\ r \in Reviews
    BY <1>2, <2>2, RequestsAssumption
  <2>4. ASSUME NEW d \in CallRecords, Goto(p, d), d.pc \notin Owning,
               SoundQueue(d)', SoundRun(d)'
        PROVE  IInv'
    <3>1. Sound(p, d)' /\ call' = [call EXCEPT ![p] = d]
      BY <1>2, <2>4 DEF Sound, SoundOwner, Goto
    <3>2. QED
      BY <1>2, <2>1, <2>2, <2>3, <3>1, EnsureMoves
  <2>5. CASE r \in published
    <3>1. PICK d : d = [pc |-> "complete", of |-> t, todo |-> todo]
      OBVIOUS
    <3>2. d \in CallRecords /\ d.pc = "complete" /\ d.of = t /\ d.todo = todo
      BY <1>2, <2>3, <3>1, CallsMade
    <3>3. Completes(t, todo)'
      BY <1>2, <2>2, <2>5 DEF Completes
    <3>4. SoundQueue(d)' /\ SoundRun(d)' /\ d.pc \notin Owning
      BY <3>2, <3>3 DEF SoundQueue, SoundRun, Owning
    <3>5. QED
      BY <2>1, <2>2, <2>4, <2>5, <3>1, <3>2, <3>4
  <2>6. CASE r \notin published
    <3>1. PICK d : d = [pc |-> "publishClaim", of |-> r, todo |-> todo]
      OBVIOUS
    <3>2. d \in CallRecords /\ d.pc = "publishClaim" /\ d.of = r /\ d.todo = todo
      BY <1>2, <2>3, <3>1, CallsMade
    <3>3. SoundQueue(d)' /\ SoundRun(d)' /\ d.pc \notin Owning
      BY <1>2, <2>1, <3>2 DEF SoundQueue, SoundRun, Owning
    <3>4. QED
      BY <2>1, <2>4, <2>6, <3>1, <3>2, <3>3
  <2>7. QED
    BY <2>5, <2>6
<1>5. QED
  BY <1>3, <1>4

LEMMA PublishClaimStep ==
  ASSUME IInv, NEW p \in Pids, PublishClaim(p)
  PROVE  IInv'
<1>1. PICK r, todo, t : r = call[p].of /\ todo = call[p].todo /\ t = PublishTask[r]
  OBVIOUS
<1>2. /\ p \in live /\ Stored /\ live' = live /\ r \in Reviews /\ t \in Tasks
      /\ todo \in SUBSET Reviews /\ r \in todo /\ Publishing(todo)'
      /\ \/ /\ ClaimFor(p, t)
            /\ Goto(p, [pc |-> "publishWrite", of |-> r, todo |-> todo, claim |-> NewClaim(t)])
         \/ ToFail(p) /\ UNCHANGED journalVars
  BY <1>1, CallFacts, CallShapes, StoredStays, RequestsAssumption
     DEF PublishClaim, At, Stored, storeVars, SoundRun
<1>3. CASE /\ ClaimFor(p, t)
           /\ Goto(p, [pc |-> "publishWrite", of |-> r, todo |-> todo, claim |-> NewClaim(t)])
  <2>1. PICK c : c = NewClaim(t)
    OBVIOUS
  <2>2. PICK d : d = [pc |-> "publishWrite", of |-> r, todo |-> todo, claim |-> c]
    OBVIOUS
  <2>3. c \in Claims /\ c.task = t /\ Owns(p, c)'
    BY <1>2, <1>3, <2>1, Acquired
  <2>4. /\ d \in CallRecords /\ d.pc = "publishWrite" /\ d.claim = c /\ d.of = r
        /\ d.todo = todo
    BY <1>2, <2>2, <2>3, CallsMade
  <2>5. SoundOwner(p, d)' /\ SoundQueue(d)' /\ SoundRun(d)'
    BY <1>1, <1>2, <2>3, <2>4 DEF SoundOwner, SoundQueue, SoundRun, Owning
  <2>6. Sound(p, d)' /\ call' = [call EXCEPT ![p] = d]
    BY <1>3, <2>1, <2>2, <2>5 DEF Sound, Goto
  <2>7. QED
    BY <1>2, <1>3, <2>4, <2>6, AcquireMoves
<1>4. QED
  BY <1>2, <1>3, FailMoves

LEMMA PublishWriteStep ==
  ASSUME IInv, NEW p \in Pids, PublishWrite(p)
  PROVE  IInv'
<1>1. PICK c, r, todo : c = call[p].claim /\ r = call[p].of /\ todo = call[p].todo
  OBVIOUS
<1>2. /\ p \in live /\ r \in Reviews /\ todo \in SUBSET Reviews /\ c \in Claims
      /\ Owns(p, c) /\ c.task = PublishTask[r] /\ r \in todo /\ Publishing(todo)
      /\ call[p] = [pc |-> "publishWrite", of |-> r, todo |-> todo, claim |-> c]
  BY <1>1, CallFacts, CallShapes DEF PublishWrite, At, SoundOwner, SoundRun, Owning
<1>3. /\ UNCHANGED journalVars /\ tasks' = tasks /\ live' = live /\ job' = job
      /\ proposal' = proposal /\ review' = review /\ outputs' = outputs /\ frozen' = frozen
      /\ published' = published \cup {r}
      /\ Goto(p, [call[p] EXCEPT !.pc = "publishCommit"])
  BY <1>1 DEF PublishWrite, journalVars
<1>4. PICK d : d = [pc |-> "publishCommit", of |-> r, todo |-> todo, claim |-> c]
  OBVIOUS
<1>5. /\ d \in CallRecords /\ d.pc = "publishCommit" /\ d.of = r /\ d.todo = todo
      /\ d.claim = c /\ Goto(p, d)
  BY <1>2, <1>3, <1>4, CallsMade
<1>6. review[r] = "consumed"
  BY <1>2 DEF Publishing
<1>7. Opened' = Opened
  BY <1>3 DEF Opened
<1>8. Grows(p) /\ RowsKept(p) /\ OthersRun(p) /\ StoreTyped'
  BY <1>2, <1>3, <1>7 DEF Grows, RowsKept, OthersRun, StoreTyped, IInv, TypeOK
<1>9. ConsumptionOnRecord'
  BY <1>3, <1>6 DEF IInv, ConsumptionOnRecord
<1>10. StateNeverAhead'
  BY <1>3, <1>7 DEF IInv, StateNeverAhead
<1>11. Publishing(todo)'
  BY <1>2, <1>8, PublishingStays
<1>12. Owns(p, c)'
  BY <1>2, <1>3 DEF Owns, Fenced, Genuine, journalVars
<1>13. SoundOwner(p, d)' /\ SoundQueue(d)' /\ SoundRun(d)'
  BY <1>2, <1>3, <1>5, <1>11, <1>12 DEF SoundOwner, SoundQueue, SoundRun, Owning
<1>14. Sound(p, d)'
  BY <1>13 DEF Sound
<1>15. Preserved
  BY <1>3, UnchangedPreserves DEF IInv
<1>16. Moves(p, d)
  BY <1>5, <1>15 DEF Moves, Goto
<1>17. QED
  BY <1>5, <1>8, <1>9, <1>10, <1>14, <1>16, Assemble

LEMMA PublishFailsStep ==
  ASSUME IInv, NEW p \in Pids, PublishFails(p)
  PROVE  IInv'
<1>1. PICK c : c = call[p].claim
  OBVIOUS
<1>2. /\ p \in live /\ Owns(p, c) /\ c.task \notin Proposals
      /\ RecordFailure(c, "failed") /\ ToFail(p) /\ Stored
  BY <1>1, CallFacts, CallShapes, RequestsAssumption
     DEF PublishFails, At, SoundRun, SoundOwner, Owning, Stored, storeVars
<1>3. PICK d : d = [pc |-> "set", state |-> "failed", todo |-> {}]
  OBVIOUS
<1>4. d \in CallRecords /\ d.pc = "set" /\ d.state = "failed" /\ Goto(p, d)
  BY <1>2, <1>3, CallsMade DEF ToFail, ToSet, JobStates
<1>5. SoundQueue(d)' /\ SoundRun(d)' /\ d.pc \notin Owning
  BY <1>4 DEF SoundQueue, SoundRun, Owning, Sets
<1>6. QED
  BY <1>2, <1>4, <1>5, FailureMoves

LEMMA PublishCommitStep ==
  ASSUME IInv, NEW p \in Pids, PublishCommit(p)
  PROVE  IInv'
<1>1. PICK c, r, todo : c = call[p].claim /\ r = call[p].of /\ todo = call[p].todo
  OBVIOUS
<1>2. /\ p \in live /\ Owns(p, c) /\ r \in Reviews /\ todo \in SUBSET Reviews
      /\ c.task = PublishTask[r] /\ r \in published /\ r \in todo /\ Publishing(todo)
      /\ CommitTask(c) /\ Goto(p, [pc |-> "publish", todo |-> todo \ {r}]) /\ Stored
  BY <1>1, CallFacts, CallShapes
     DEF PublishCommit, At, SoundRun, SoundOwner, Owning, Stored, storeVars
<1>3. /\ c.task \notin Proposals
      /\ \A u \in Reviews : PublishTask[u] = c.task => u \in published
  BY <1>2, RequestsAssumption
<1>4. PICK rest \in SUBSET Reviews : rest = todo \ {r}
  BY <1>2
<1>5. Publishing(rest)
  BY <1>2, <1>4 DEF Publishing
<1>6. Publishing(rest)'
  BY <1>2, <1>5, StoredStays
<1>7. PICK d : d = [pc |-> "publish", todo |-> rest]
  OBVIOUS
<1>8. d \in CallRecords /\ d.pc = "publish" /\ d.todo = rest /\ Goto(p, d)
  BY <1>2, <1>4, <1>7, CallsMade
<1>9. SoundQueue(d)' /\ SoundRun(d)' /\ d.pc \notin Owning
  BY <1>6, <1>8 DEF SoundQueue, SoundRun, Owning
<1>10. QED
  BY <1>2, <1>3, <1>8, <1>9, CommitMoves

LEMMA EvaluateStep ==
  ASSUME IInv, NEW p \in Pids, Evaluate(p)
  PROVE  IInv'
<1>1. PICK todo : todo = call[p].todo
  OBVIOUS
<1>2. /\ p \in live /\ todo \in SUBSET Dimensions /\ Publishing({})
      /\ Dimensions \subseteq outputs \cup todo /\ outputs \subseteq Dimensions
      /\ UNCHANGED journalVars /\ tasks' = tasks /\ live' = live /\ job' = job
      /\ proposal' = proposal /\ review' = review /\ published' = published
      /\ frozen' = frozen
  BY <1>1, CallFacts, CallShapes DEF Evaluate, At, SoundRun, journalVars, IInv, TypeOK
<1>3. CASE todo = {}
  <2>1. ToSet(p, "evaluated", {}) /\ outputs' = outputs
    BY <1>1, <1>3 DEF Evaluate
  <2>2. Sets("evaluated", {}) /\ "evaluated" \in JobStates
    BY <1>2, <1>3 DEF Sets, JobStates
  <2>3. Stored
    BY <1>2, <2>1 DEF Stored
  <2>4. QED
    BY <1>2, <2>1, <2>2, <2>3, SetMoves
<1>4. CASE todo # {}
  <2>1. PICK e \in todo :
          outputs' = outputs \cup {e} /\ Goto(p, [pc |-> "evaluate", todo |-> todo \ {e}])
    BY <1>1, <1>4 DEF Evaluate
  <2>2. PICK rest \in SUBSET Dimensions : rest = todo \ {e}
    BY <1>2
  <2>3. PICK d : d = [pc |-> "evaluate", todo |-> rest]
    OBVIOUS
  <2>4. d \in CallRecords /\ d.pc = "evaluate" /\ d.todo = rest /\ Goto(p, d)
    BY <2>1, <2>2, <2>3, CallsMade
  <2>5. Opened' = Opened
    BY <1>2 DEF Opened
  <2>6. Grows(p) /\ StoreTyped'
    BY <1>2, <2>1, <2>5 DEF Grows, StoreTyped, IInv, TypeOK
  <2>7. ConsumptionOnRecord' /\ StateNeverAhead'
    BY <1>2, <2>1, <2>5 DEF IInv, ConsumptionOnRecord, StateNeverAhead
  <2>8. Publishing({})' /\ Dimensions \subseteq outputs' \cup rest
    BY <1>2, <2>1, <2>2, <2>6, PublishingStays
  <2>9. SoundQueue(d)' /\ SoundRun(d)' /\ d.pc \notin Owning
    BY <2>4, <2>8 DEF SoundQueue, SoundRun, Owning
  <2>10. QED
    BY <1>2, <2>4, <2>6, <2>7, <2>9, StoreMoves
<1>5. QED
  BY <1>3, <1>4

LEMMA ReadArtifactsStep ==
  ASSUME IInv, NEW p \in Pids, ReadArtifacts(p)
  PROVE  IInv'
<1>1. /\ p \in live /\ Stored /\ UNCHANGED journalVars /\ Publishing({})
      /\ outputs = Dimensions /\ outputs' = outputs
  BY CallFacts DEF ReadArtifacts, At, SoundRun, Stored, storeVars
<1>2. CASE frozen /\ ToSet(p, "completed", {})
  <2>1. Sets("completed", {}) /\ "completed" \in JobStates
    BY <1>1, <1>2 DEF Sets, JobStates
  <2>2. QED
    BY <1>1, <1>2, <2>1, SetMoves
<1>3. CASE Goto(p, [pc |-> "freeze"])
  <2>1. PICK d : d = [pc |-> "freeze"]
    OBVIOUS
  <2>2. d \in CallRecords /\ d.pc = "freeze"
    BY <2>1, CallsMade
  <2>3. SoundQueue(d)' /\ SoundRun(d)' /\ d.pc \notin Owning
    BY <1>1, <2>2, StoredStays DEF SoundQueue, SoundRun, Owning
  <2>4. QED
    BY <1>1, <1>3, <2>1, <2>2, <2>3, GoMoves
<1>4. QED
  BY <1>2, <1>3 DEF ReadArtifacts

LEMMA FreezeStep ==
  ASSUME IInv, NEW p \in Pids, Freeze(p)
  PROVE  IInv'
<1>1. /\ p \in live /\ Publishing({}) /\ outputs = Dimensions
      /\ UNCHANGED journalVars /\ tasks' = tasks /\ live' = live
      /\ proposal' = proposal /\ review' = review /\ published' = published
      /\ outputs' = outputs /\ frozen' = TRUE /\ Goto(p, [pc |-> "artifacts"])
      /\ job' \in {"manifest_frozen", "completed"}
  BY CallFacts DEF Freeze, At, SoundRun, journalVars
<1>2. Opened' = Opened
  BY <1>1 DEF Opened
<1>3. Grows(p) /\ StoreTyped'
  BY <1>1, <1>2 DEF Grows, StoreTyped, IInv, TypeOK, JobStates
<1>4. ConsumptionOnRecord' /\ StateNeverAhead'
  BY <1>1, <1>2 DEF IInv, ConsumptionOnRecord, StateNeverAhead, Publishing, AllConsumed
<1>5. PICK d : d = [pc |-> "artifacts"]
  OBVIOUS
<1>6. d \in CallRecords /\ d.pc = "artifacts" /\ Goto(p, d)
  BY <1>1, <1>5, CallsMade
<1>7. Publishing({})'
  BY <1>1, <1>3, PublishingStays
<1>8. SoundQueue(d)' /\ SoundRun(d)' /\ d.pc \notin Owning
  BY <1>1, <1>6, <1>7 DEF SoundQueue, SoundRun, Owning
<1>9. QED
  BY <1>1, <1>3, <1>4, <1>6, <1>8, StoreMoves

LEMMA RunFailsStep ==
  ASSUME IInv, NEW p \in Pids, RunFails(p)
  PROVE  IInv'
<1>1. p \in live /\ ToFail(p) /\ UNCHANGED journalVars /\ Stored
  BY DEF RunFails, Stored, storeVars
<1>2. QED
  BY <1>1, FailMoves

----------------------------------------------------------------------------
\* The invariant holds at the start and in every step.

LEMMA InitInv == Init => IInv
<1> SUFFICES ASSUME Init PROVE IInv
  OBVIOUS
<1>1. JournalInv
  BY InitEstablishes DEF Init, JournalInit
<1>2. /\ tasks = [t \in Tasks |-> NoRow] /\ live = {} /\ job = "awaiting_candidate_proposal"
      /\ proposal = [q \in Proposals |-> "awaiting"]
      /\ review = [r \in Reviews |-> "absent"]
      /\ published = {} /\ outputs = {} /\ frozen = FALSE
      /\ call = [p \in Pids |-> Idle]
  BY DEF Init, Fresh
<1>3. TypeOK
  <2>1. call \in [Pids -> CallRecords]
    BY <1>2, CallsMade
  <2>2. QED
    BY <1>1, <1>2, <2>1 DEF TypeOK, JobStates, JournalInv
<1>4. ConsumptionOnRecord
  BY <1>2, RequestsAssumption DEF ConsumptionOnRecord, NoRow
<1>5. StateNeverAhead
  BY <1>2 DEF StateNeverAhead
<1>6. ASSUME NEW p \in Pids
      PROVE  Sound(p, call[p])
  <2>1. call[p] = Idle /\ Idle.pc = "idle"
    BY <1>2 DEF Idle
  <2>2. QED
    BY <2>1 DEF Sound, SoundOwner, SoundQueue, SoundRun, Owning
<1>7. QED
  BY <1>1, <1>3, <1>4, <1>5, <1>6 DEF IInv

LEMMA StutterInv == ASSUME IInv, UNCHANGED vars PROVE IInv'
<1>1. /\ UNCHANGED journalVars /\ tasks' = tasks /\ attempts' = attempts /\ live' = live
      /\ job' = job /\ proposal' = proposal /\ review' = review /\ published' = published
      /\ outputs' = outputs /\ frozen' = frozen /\ call' = call
  BY DEF vars, journalVars
<1>2. JournalInv'
  BY <1>1, UnchangedPreserves DEF IInv, Preserved
<1>3. Stored
  BY <1>1 DEF Stored
<1>4. TypeOK' /\ ConsumptionOnRecord' /\ StateNeverAhead'
  BY <1>1, <1>2, <1>3, StoredFacts DEF IInv, TypeOK, ConsumptionOnRecord, JournalInv
<1>5. ASSUME NEW p \in Pids
      PROVE  Sound(p, call[p])'
  <2>1. PICK c : c = call[p]
    OBVIOUS
  <2>2. SoundOwner(p, c) /\ SoundQueue(c) /\ SoundRun(c)
    BY <2>1, CallFacts
  <2>3. SoundOwner(p, c)'
    BY <1>1, <2>2 DEF SoundOwner, Owns, Genuine, Fenced
  <2>4. SoundQueue(c)'
    BY <1>1, <1>3, <2>2, StoredStays DEF SoundQueue
  <2>5. SoundRun(c)'
    BY <1>1, <1>3, <2>2, StoredStays DEF SoundRun
  <2>6. Sound(p, c)' /\ call'[p] = c
    BY <1>1, <2>1, <2>3, <2>4, <2>5 DEF Sound
  <2>7. QED
    BY <2>6
<1>6. QED
  BY <1>2, <1>4, <1>5 DEF IInv

LEMMA StepInv == IInv /\ [Next]_vars => IInv'
<1> SUFFICES ASSUME IInv, [Next]_vars PROVE IInv'
  OBVIOUS
<1>1. CASE UNCHANGED vars
  BY <1>1, StutterInv
<1>2. ASSUME NEW p \in Pids,
             \/ Start(p) \/ Exit(p)
             \/ SealProposal(p) \/ AddProposalResponse(p)
             \/ ConsumeProposal(p) \/ ConsumeState(p) \/ ConsumeClaim(p) \/ Materialize(p)
             \/ MaterializeFails(p) \/ ConsumeCommit(p)
             \/ CompleteRead(p) \/ CompleteAcquire(p) \/ CompleteCommit(p)
      PROVE  IInv'
  BY <1>2, LifeStep, SealProposalStep, AddProposalStep, ConsumeProposalStep,
     ConsumeStateStep, ConsumeClaimStep, MaterializeStep, MaterializeFailsStep,
     ConsumeCommitStep, CompleteReadStep, CompleteAcquireStep, CompleteCommitStep
<1>3. ASSUME NEW p \in Pids,
             \/ SealReview(p) \/ AddReviewResponse(p)
             \/ ConsumeReview(p) \/ ReviewClaim(p) \/ ReviewCommit(p) \/ Mark(p)
             \/ Refresh(p) \/ Resume(p)
      PROVE  IInv'
  BY <1>3, SealReviewStep, AddReviewStep, ConsumeReviewStep, ReviewClaimStep,
     ReviewCommitStep, MarkStep, RefreshJobStep, ResumeStep
<1>4. ASSUME NEW p \in Pids,
             \/ RunJob(p) \/ RunReviews(p) \/ SetState(p)
             \/ Publish(p) \/ PublishClaim(p) \/ PublishWrite(p) \/ PublishFails(p)
             \/ PublishCommit(p) \/ Evaluate(p) \/ ReadArtifacts(p) \/ Freeze(p)
             \/ RunFails(p)
      PROVE  IInv'
  BY <1>4, RunJobStep, RunReviewsStep, SetStateStep, PublishStep, PublishClaimStep,
     PublishWriteStep, PublishFailsStep, PublishCommitStep, EvaluateStep,
     ReadArtifactsStep, FreezeStep, RunFailsStep
<1>5. QED
  BY <1>1, <1>2, <1>3, <1>4, Zenon DEF Next

LEMMA Inductive == Spec => []IInv
BY InitInv, StepInv, PTL DEF Spec

----------------------------------------------------------------------------
\* Types hold for any number of requests, dimensions and processes.
THEOREM TypeCorrect == Spec => []TypeOK
<1>1. IInv => TypeOK
  BY DEF IInv
<1>2. QED
  BY <1>1, Inductive, PTL

\* The ledger and the records agree although no transaction spans both: the
\* owner of a task is the only one to write its record, writes it before it
\* commits, and never fails a task whose record is there.
THEOREM RecordsAgree == Spec => []ConsumptionOnRecord
<1>1. IInv => ConsumptionOnRecord
  BY DEF IInv
<1>2. QED
  BY <1>1, Inductive, PTL

\* The job state is never ahead of the facts, for any number of processes that
\* write it blindly: what a run has seen of the requests cannot change any more
\* once every proposal is consumed.
THEOREM StateJustified == Spec => []StateNeverAhead
<1>1. IInv => StateNeverAhead
  BY DEF IInv
<1>2. QED
  BY <1>1, Inductive, PTL

----------------------------------------------------------------------------
\* Every step is one of ReviewedJob, or changes nothing it tells of.

LEMMA InitMaps == Init => Reviewed!Init
BY DEF Init, Reviewed!Init

LEMMA SealProposalMaps ==
  ASSUME IInv, NEW p \in Pids, AddProposalResponse(p)
  PROVE  Reviewed!Next \/ UNCHANGED Reviewed!vars
<1>1. PICK q : q = call[p].of
  OBVIOUS
<1>2. /\ q \in Proposals
      /\ review' = review /\ published' = published /\ outputs' = outputs /\ frozen' = frozen
      /\ \/ proposal[q] = "awaiting" /\ proposal' = [proposal EXCEPT ![q] = "sealed"]
         \/ proposal' = proposal
  BY <1>1, CallFacts, CallShapes DEF AddProposalResponse, At
<1>3. CASE proposal[q] = "awaiting" /\ proposal' = [proposal EXCEPT ![q] = "sealed"]
  <2>1. Reviewed!SealProposal(q)
    BY <1>2, <1>3 DEF Reviewed!SealProposal
  <2>2. QED
    BY <1>2, <2>1 DEF Reviewed!Next
<1>4. QED
  BY <1>2, <1>3 DEF Reviewed!vars

LEMMA ConsumeProposalMaps ==
  ASSUME IInv, NEW p \in Pids, Materialize(p)
  PROVE  Reviewed!Next
<1>1. PICK q : q = call[p].claim.task
  OBVIOUS
<1>2. q \in Proposals /\ proposal[q] = "sealed"
  BY <1>1, CallFacts DEF Materialize, At, SoundQueue
<1>3. /\ published' = published /\ outputs' = outputs /\ frozen' = frozen
      /\ \E qualified \in SUBSET CandidatesOf[q] :
           /\ proposal' = [proposal EXCEPT ![q] = "consumed"]
           /\ review' = [r \in Reviews |->
                IF r \in qualified /\ review[r] = "absent" THEN "awaiting" ELSE review[r]]
  BY <1>1, <1>2 DEF Materialize, MarkConsumed
<1>4. PICK qualified \in SUBSET CandidatesOf[q] :
        /\ proposal' = [proposal EXCEPT ![q] = "consumed"]
        /\ review' = [r \in Reviews |->
             IF r \in qualified /\ review[r] = "absent" THEN "awaiting" ELSE review[r]]
  BY <1>3
<1>5. PICK opened : opened = {r \in qualified : review[r] = "absent"}
  OBVIOUS
<1>6. opened \in SUBSET {r \in Reviews : review[r] = "absent"}
  BY <1>2, <1>5, CandidatesAssumption
<1>7. review' = [r \in Reviews |-> IF r \in opened THEN "awaiting" ELSE review[r]]
  BY <1>4, <1>5
<1>8. Reviewed!ConsumeProposal(q)
  BY <1>2, <1>3, <1>4, <1>6, <1>7 DEF Reviewed!ConsumeProposal
<1>9. QED
  BY <1>2, <1>8 DEF Reviewed!Next

LEMMA SealReviewMaps ==
  ASSUME IInv, NEW p \in Pids, AddReviewResponse(p)
  PROVE  Reviewed!Next \/ UNCHANGED Reviewed!vars
<1>1. PICK r : r = call[p].of
  OBVIOUS
<1>2. /\ r \in Reviews
      /\ proposal' = proposal /\ published' = published /\ outputs' = outputs /\ frozen' = frozen
      /\ \/ review[r] = "awaiting" /\ review' = [review EXCEPT ![r] = "sealed"]
         \/ review' = review
  BY <1>1, CallFacts, CallShapes DEF AddReviewResponse, At
<1>3. CASE review[r] = "awaiting" /\ review' = [review EXCEPT ![r] = "sealed"]
  <2>1. Reviewed!SealReview(r)
    BY <1>2, <1>3 DEF Reviewed!SealReview
  <2>2. QED
    BY <1>2, <2>1 DEF Reviewed!Next
<1>4. QED
  BY <1>2, <1>3 DEF Reviewed!vars

LEMMA ConsumeReviewMaps ==
  ASSUME IInv, NEW p \in Pids, Mark(p)
  PROVE  Reviewed!Next \/ UNCHANGED Reviewed!vars
<1>1. PICK r : r = call[p].of
  OBVIOUS
<1>2. /\ r \in Reviews
      /\ proposal' = proposal /\ published' = published /\ outputs' = outputs /\ frozen' = frozen
      /\ review' = [review EXCEPT ![r] = IF @ = "sealed" THEN "consumed" ELSE @]
      /\ review \in [Reviews -> {"absent", "awaiting", "sealed", "consumed"}]
  BY <1>1, CallFacts, CallShapes DEF Mark, At, IInv, TypeOK
<1>3. CASE review[r] = "sealed"
  <2>1. Reviewed!ConsumeReview(r)
    BY <1>2, <1>3 DEF Reviewed!ConsumeReview
  <2>2. QED
    BY <1>2, <2>1 DEF Reviewed!Next
<1>4. CASE review[r] # "sealed"
  <2>1. review' = review
    BY <1>2, <1>4
  <2>2. QED
    BY <1>2, <2>1 DEF Reviewed!vars
<1>5. QED
  BY <1>3, <1>4

LEMMA PublishMaps ==
  ASSUME IInv, NEW p \in Pids, PublishWrite(p)
  PROVE  Reviewed!Next
<1>1. PICK r : r = call[p].of
  OBVIOUS
<1>2. /\ r \in Reviews /\ review[r] = "consumed" /\ r \notin published
      /\ published' = published \cup {r}
      /\ proposal' = proposal /\ review' = review /\ outputs' = outputs /\ frozen' = frozen
  BY <1>1, CallFacts, CallShapes DEF PublishWrite, At, SoundRun, Publishing
<1>3. Reviewed!Publish(r)
  BY <1>2 DEF Reviewed!Publish
<1>4. QED
  BY <1>2, <1>3 DEF Reviewed!Next

LEMMA EvaluateMaps ==
  ASSUME IInv, NEW p \in Pids, Evaluate(p)
  PROVE  Reviewed!Next \/ UNCHANGED Reviewed!vars
<1>1. /\ Publishing({}) /\ call[p].todo \subseteq Dimensions
      /\ proposal' = proposal /\ review' = review /\ published' = published /\ frozen' = frozen
      /\ outputs' = outputs \/ \E d \in call[p].todo : outputs' = outputs \cup {d}
  BY CallFacts, CallShapes DEF Evaluate, At, SoundRun
<1>2. CASE outputs' = outputs
  BY <1>1, <1>2 DEF Reviewed!vars
<1>3. ASSUME NEW d \in Dimensions, outputs' = outputs \cup {d}, d \notin outputs
      PROVE  Reviewed!Next
  <2>1. Reviewed!Closed
    BY <1>1 DEF Reviewed!Closed, Publishing, AllConsumed, Opened
  <2>2. Reviewed!Evaluate(d)
    BY <1>1, <1>3, <2>1 DEF Reviewed!Evaluate
  <2>3. QED
    BY <2>2 DEF Reviewed!Next
<1>4. QED
  BY <1>1, <1>2, <1>3

LEMMA FreezeMaps ==
  ASSUME IInv, NEW p \in Pids, Freeze(p)
  PROVE  Reviewed!Next \/ UNCHANGED Reviewed!vars
<1>1. /\ outputs = Dimensions /\ frozen' = TRUE /\ frozen \in BOOLEAN
      /\ proposal' = proposal /\ review' = review /\ published' = published
      /\ outputs' = outputs
  BY CallFacts DEF Freeze, At, SoundRun, IInv, TypeOK
<1>2. CASE frozen
  BY <1>1, <1>2 DEF Reviewed!vars
<1>3. CASE ~frozen
  <2>1. Reviewed!Freeze
    BY <1>1, <1>3 DEF Reviewed!Freeze
  <2>2. QED
    BY <2>1 DEF Reviewed!Next
<1>4. QED
  BY <1>2, <1>3

\* The calls that write none of the records of the job.
LEMMA QueueStutters ==
  ASSUME NEW p \in Pids,
         \/ Start(p) \/ Exit(p) \/ SealProposal(p) \/ ConsumeProposal(p)
         \/ ConsumeState(p) \/ ConsumeClaim(p) \/ MaterializeFails(p) \/ ConsumeCommit(p)
         \/ CompleteRead(p) \/ CompleteAcquire(p) \/ CompleteCommit(p)
         \/ SealReview(p) \/ ConsumeReview(p) \/ ReviewClaim(p) \/ ReviewCommit(p)
  PROVE  UNCHANGED Reviewed!vars
BY DEF Reviewed!vars, storeVars, Start, Exit, SealProposal, ConsumeProposal, ConsumeState,
       ConsumeClaim, MaterializeFails, ConsumeCommit, CompleteRead, CompleteAcquire,
       CompleteCommit, SealReview, ConsumeReview, ReviewClaim, ReviewCommit

LEMMA RunStutters ==
  ASSUME NEW p \in Pids,
         \/ Refresh(p) \/ Resume(p) \/ RunJob(p) \/ RunReviews(p) \/ SetState(p)
         \/ Publish(p) \/ PublishClaim(p) \/ PublishFails(p) \/ PublishCommit(p)
         \/ ReadArtifacts(p) \/ RunFails(p)
  PROVE  UNCHANGED Reviewed!vars
BY DEF Reviewed!vars, storeVars, Refresh, Resume, RunJob, RunReviews, SetState, Publish,
       PublishClaim, PublishFails, PublishCommit, ReadArtifacts, RunFails

LEMMA StepMaps == IInv /\ [Next]_vars => [Reviewed!Next]_(Reviewed!vars)
<1> SUFFICES ASSUME IInv, [Next]_vars
             PROVE  Reviewed!Next \/ UNCHANGED Reviewed!vars
  OBVIOUS
<1>1. CASE UNCHANGED vars
  BY <1>1 DEF vars, Reviewed!vars
<1>2. ASSUME NEW p \in Pids,
             \/ AddProposalResponse(p) \/ Materialize(p) \/ AddReviewResponse(p) \/ Mark(p)
             \/ PublishWrite(p) \/ Evaluate(p) \/ Freeze(p)
      PROVE  Reviewed!Next \/ UNCHANGED Reviewed!vars
  BY <1>2, SealProposalMaps, ConsumeProposalMaps, SealReviewMaps, ConsumeReviewMaps,
     PublishMaps, EvaluateMaps, FreezeMaps
<1>3. QED
  BY <1>1, <1>2, QueueStutters, RunStutters, Zenon DEF Next

\* The job goes through the stages of ReviewedJob, for any number of requests,
\* reviews, dimensions and processes: nothing is sealed, consumed or published
\* twice, dimensions are evaluated over the closed set of reviews, and the freeze
\* covers all of them.
THEOREM Implements == Spec => ImplementsReviewedJob
BY Inductive, InitMaps, StepMaps, PTL DEF Spec, ImplementsReviewedJob, Reviewed!Spec
=============================================================================
