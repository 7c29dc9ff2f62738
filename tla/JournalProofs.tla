---------------------------- MODULE JournalProofs ----------------------------
(***************************************************************************)
(* Every transaction of the ledger preserves the ledger's invariant,       *)
(* whatever process calls it, and moves no final state.  The lemmas are    *)
(* stated per transaction so that every module that composes the ledger    *)
(* with its callers can cite them.                                         *)
(***************************************************************************)
EXTENDS JournalWorkers, SequenceTheorems, TLAPS

(* A task that has attempts names the newest of them.                      *)
AttemptsOwned ==
  \A n \in DOMAIN attempts : n <= tasks[attempts[n].task].token

(* A registered row has an input identity (NOT NULL in the schema).        *)
InputKnown ==
  \A t \in Tasks : tasks[t].state # "absent" => tasks[t].input \in Inputs

JournalInv ==
  /\ JournalTypeOK
  /\ TokensNumberAttempts
  /\ RowMatchesAttempt
  /\ DispatchedOnce
  /\ SupersededNeverDispatched
  /\ AttemptsOwned
  /\ InputKnown

(* A claim that the ledger really issued. *)
Genuine(c) ==
  /\ c \in Claims
  /\ c.attempt \in DOMAIN attempts
  /\ attempts[c.attempt].token = c.token
  /\ attempts[c.attempt].task = c.task
  /\ attempts[c.attempt].worker = c.worker
  /\ attempts[c.attempt].input = c.input

(* Attempt rows are only appended, and only their outcome is ever updated. *)
AttemptsGrow ==
  /\ Len(attempts) <= Len(attempts')
  /\ \A n \in DOMAIN attempts :
       /\ n \in DOMAIN attempts'
       /\ attempts'[n].task = attempts[n].task
       /\ attempts'[n].token = attempts[n].token
       /\ attempts'[n].worker = attempts[n].worker
       /\ attempts'[n].pid = attempts[n].pid
       /\ attempts'[n].input = attempts[n].input

(* The invariant, what a step may not touch, and the growth of the log. *)
Preserved == JournalInv' /\ TerminalStep /\ AttemptsGrow

(* A new ledger, or one with a single pre-lease task, satisfies the        *)
(* invariant.                                                              *)
LEMMA InitEstablishes == JournalInit => JournalInv
<1> SUFFICES ASSUME JournalInit PROVE JournalInv
  OBVIOUS
<1> USE DEF JournalInv, JournalTypeOK, TokensNumberAttempts, RowMatchesAttempt,
            DispatchedOnce, SupersededNeverDispatched, AttemptsOwned, InputKnown,
            Row, Attempt, NoRow, States, Outcomes, Active
<1>1. CASE Fresh
  BY <1>1, MaxTokensAssumption DEF Fresh
<1>2. CASE Legacy
  <2>1. PICK t \in Tasks, w \in Workers, i \in Inputs, s \in Active :
          /\ MaxTokens > 0
          /\ tasks = [u \in Tasks |->
               IF u = t
               THEN [NoRow EXCEPT !.state = s, !.token = 1, !.worker = w,
                                  !.input = i,
                                  !.ext = IF s = "claimed" THEN 0 ELSE 1]
               ELSE NoRow]
          /\ attempts = <<[task |-> t, token |-> 1, worker |-> w, pid |-> None,
                           input |-> i, outcome |-> s]>>
          /\ lastToken = 1
    BY <1>2 DEF Legacy
  <2>2. /\ Len(attempts) = 1
        /\ DOMAIN attempts = {1}
        /\ attempts[1] = [task |-> t, token |-> 1, worker |-> w, pid |-> None,
                          input |-> i, outcome |-> s]
    BY <2>1
  <2>3. /\ tasks[t].state = s
        /\ tasks[t].token = 1
        /\ tasks[t].worker = w
        /\ tasks[t].pid = None
        /\ tasks[t].input = i
        /\ tasks[t].ext = IF s = "claimed" THEN 0 ELSE 1
    BY <2>1
  <2>4. \A u \in Tasks : u # t => tasks[u] = NoRow
    BY <2>1
  <2>5. JournalTypeOK
    <3>1. tasks \in [Tasks -> Row]
      <4>1. NoRow \in Row
        BY MaxTokensAssumption
      <4>2. tasks[t] = [state |-> s, token |-> 1, worker |-> w, pid |-> None,
                        input |-> i, output |-> None,
                        ext |-> IF s = "claimed" THEN 0 ELSE 1]
        BY <2>1
      <4>3. tasks[t] \in Row
        BY <4>2, <2>1, MaxTokensAssumption
      <4>4. QED
        BY <4>1, <4>3, <2>1, <2>4
    <3>2. attempts \in Seq(Attempt)
      BY <2>1, MaxTokensAssumption
    <3>3. QED
      BY <3>1, <3>2, <2>1, MaxTokensAssumption
  <2>6. TokensNumberAttempts
    BY <2>1, <2>2
  <2>7. RowMatchesAttempt
    BY <2>2, <2>3, <2>4
  <2>8. DispatchedOnce
    BY <2>3, <2>4
  <2>9. SupersededNeverDispatched
    BY <2>2, <2>3
  <2>10. AttemptsOwned
    BY <2>2, <2>3
  <2>11. InputKnown
    BY <2>1, <2>3, <2>4
  <2>12. QED
    BY <2>5, <2>6, <2>7, <2>8, <2>9, <2>10, <2>11
<1>3. QED
  BY <1>1, <1>2 DEF JournalInit

-----------------------------------------------------------------------------
(* What the invariant says of one row and one attempt.                     *)
LEMMA RowFacts ==
  ASSUME JournalInv
  PROVE  /\ DOMAIN attempts = 1..Len(attempts)
         /\ Len(attempts) \in Nat
         /\ \A n \in DOMAIN attempts : attempts[n] \in Attempt
         /\ \A t \in Tasks : tasks[t] \in Row
         /\ \A t \in Tasks :
              tasks[t].state \in {"absent", "planned"} => tasks[t].token = 0
<1> USE DEF JournalInv
<1>1. /\ DOMAIN attempts = 1..Len(attempts)
      /\ Len(attempts) \in Nat
      /\ \A n \in DOMAIN attempts : attempts[n] \in Attempt
      /\ \A t \in Tasks : tasks[t] \in Row
  BY DEF JournalTypeOK
<1>2. ASSUME NEW t \in Tasks, tasks[t].state \in {"absent", "planned"},
             tasks[t].token # 0
      PROVE  FALSE
  <2>1. /\ tasks[t].token \in DOMAIN attempts
        /\ attempts[tasks[t].token].outcome = tasks[t].state
    BY <1>2 DEF RowMatchesAttempt
  <2>2. attempts[tasks[t].token].outcome \in Outcomes
    BY <2>1, <1>1 DEF Attempt
  <2>3. QED
    BY <1>2, <2>1, <2>2 DEF Outcomes
<1>3. QED
  BY <1>1, <1>2

(* Inserting a missing row as planned preserves the invariant.             *)
LEMMA EnsurePreserves ==
  ASSUME JournalInv, NEW t \in Tasks, NEW i \in Inputs, EnsureTask(t, i)
  PROVE  Preserved
<1> USE DEF JournalInv
<1>1. /\ attempts' = attempts
      /\ lastToken' = lastToken
      /\ \A u \in Tasks : u # t => tasks'[u] = tasks[u]
      /\ tasks'[t] = RowOrPlanned(t, i)
  BY DEF EnsureTask, JournalTypeOK
<1>2. Planned(i) = [state |-> "planned", token |-> 0, worker |-> None,
                    pid |-> None, input |-> i, output |-> None, ext |-> 0]
  BY DEF Planned
<1>3. Planned(i) \in Row
  BY <1>2, MaxTokensAssumption DEF Row, States
<1>4. JournalTypeOK'
  BY <1>1, <1>3 DEF EnsureTask, JournalTypeOK, RowOrPlanned
<1>5. \A u \in Tasks : tasks[u].state # "absent" => tasks'[u] = tasks[u]
  BY <1>1 DEF RowOrPlanned
<1>6. \A u \in Tasks : tasks[u].state = "absent" =>
        tasks'[u] = tasks[u] \/ tasks'[u] = Planned(i)
  BY <1>1 DEF RowOrPlanned
<1>7. \A u \in Tasks : tasks[u].state = "absent" => tasks[u].token = 0
  BY RowFacts
<1>8. TokensNumberAttempts'
  BY <1>1 DEF TokensNumberAttempts
<1>9. RowMatchesAttempt'
  BY <1>1, <1>2, <1>5, <1>6 DEF RowMatchesAttempt
<1>10. DispatchedOnce'
  BY <1>1, <1>2, <1>5, <1>6 DEF DispatchedOnce
<1>11. SupersededNeverDispatched' /\ AttemptsOwned'
  <2>1. \A u \in Tasks : tasks'[u].token = tasks[u].token
    BY <1>2, <1>5, <1>6, <1>7
  <2>2. \A n \in DOMAIN attempts : attempts[n].task \in Tasks
    BY RowFacts DEF Attempt
  <2>3. QED
    BY <1>1, <2>1, <2>2 DEF SupersededNeverDispatched, AttemptsOwned
<1>12. InputKnown'
  BY <1>2, <1>5, <1>6 DEF InputKnown
<1>13. TerminalStep
  BY <1>1, <1>5 DEF TerminalStep, FinalRow
<1>14. AttemptsGrow
  BY <1>1 DEF AttemptsGrow, JournalTypeOK
<1>15. QED
  BY <1>4, <1>8, <1>9, <1>10, <1>11, <1>12, <1>13, <1>14 DEF Preserved

-----------------------------------------------------------------------------
(* Issuing a token: the row t, ready for it, becomes claimed, and its old  *)
(* attempt, if any, is superseded having dispatched nothing.               *)
LEMMA IssuePreserves ==
  ASSUME JournalInv, NEW t \in Tasks, NEW row \in Row, NEW w \in Workers,
         NEW i \in Inputs, NEW p \in Pids,
         row.token = tasks[t].token, row.input = i, row.ext = 0,
         ~FinalRow(tasks[t]),
         tasks[t].token # 0 => tasks[t].state \in {"claimed", "failed"},
         Issue(t, row, w, i, p)
  PROVE  Preserved
<1> USE DEF JournalInv
<1> DEFINE k == lastToken + 1
           a == [task |-> t, token |-> k, worker |-> w, pid |-> p,
                 input |-> i, outcome |-> "claimed"]
<1>r. PICK r : r = [row EXCEPT !.state = "claimed", !.token = lastToken + 1,
                               !.worker = w, !.pid = p]
  OBVIOUS
<1>0. /\ lastToken \in Nat /\ k \in 1..MaxTokens /\ k = Len(attempts) + 1
      /\ lastToken' = k
  BY MaxTokensAssumption DEF Issue, JournalTypeOK, TokensNumberAttempts
<1>1. /\ r \in Row /\ r.state = "claimed" /\ r.token = k /\ r.worker = w
      /\ r.pid = p /\ r.input = i /\ r.ext = 0
  <2>1. r = [state |-> "claimed", token |-> k, worker |-> w, pid |-> p,
             input |-> row.input, output |-> row.output, ext |-> row.ext]
    BY <1>r DEF Row
  <2>2. QED
    BY <2>1, <1>0, MaxTokensAssumption DEF Row, States
<1>2. a \in Attempt
  BY <1>0 DEF Attempt, Outcomes
<1>3. /\ attempts' = Append(attempts, a)
      /\ DOMAIN attempts' = 1..k
      /\ Len(attempts') = k
      /\ attempts'[k] = a
      /\ \A n \in DOMAIN attempts : n \in DOMAIN attempts' /\ attempts'[n] = attempts[n]
      /\ \A n \in DOMAIN attempts' : n = k \/ n \in DOMAIN attempts
  <2>1. attempts \in Seq(Attempt) /\ attempts' = Append(attempts, a)
    BY DEF Issue, JournalTypeOK
  <2>2. QED
    BY <2>1, <1>0, <1>2
<1>4. /\ tasks' = [tasks EXCEPT ![t] = r]
      /\ tasks'[t] = r
      /\ \A u \in Tasks : u # t => tasks'[u] = tasks[u]
  BY <1>r DEF Issue, JournalTypeOK
<1> HIDE DEF k, a
<1>5. JournalTypeOK'
  <2>1. attempts' \in Seq(Attempt)
    BY <1>2, <1>3 DEF JournalTypeOK
  <2>2. QED
    BY <1>0, <1>1, <1>4, <2>1 DEF JournalTypeOK
<1>6. TokensNumberAttempts'
  <2>1. \A n \in DOMAIN attempts' : attempts'[n].token = n
    BY <1>3 DEF TokensNumberAttempts, a
  <2>2. QED
    BY <2>1, <1>0, <1>3 DEF TokensNumberAttempts
<1>7. RowMatchesAttempt'
  <2>1. ASSUME NEW u \in Tasks, tasks'[u].token # 0, u # t
        PROVE  LET n == tasks'[u].token IN
               /\ n \in DOMAIN attempts'
               /\ attempts'[n].task = u
               /\ attempts'[n].outcome = tasks'[u].state
               /\ attempts'[n].worker = tasks'[u].worker
               /\ attempts'[n].pid = tasks'[u].pid
               /\ attempts'[n].input = tasks'[u].input
               /\ \A m \in DOMAIN attempts' : attempts'[m].task = u => m <= n
    BY <2>1, <1>3, <1>4 DEF RowMatchesAttempt, a
  <2>2. /\ k \in DOMAIN attempts'
        /\ attempts'[k].task = t
        /\ attempts'[k].outcome = tasks'[t].state
        /\ attempts'[k].worker = tasks'[t].worker
        /\ attempts'[k].pid = tasks'[t].pid
        /\ attempts'[k].input = tasks'[t].input
        /\ \A m \in DOMAIN attempts' : m <= k
    BY <1>0, <1>1, <1>3, <1>4 DEF a
  <2>3. QED
    BY <2>1, <2>2, <1>1, <1>4 DEF RowMatchesAttempt
<1>8. DispatchedOnce'
  BY <1>1, <1>4 DEF DispatchedOnce
<1>9. SupersededNeverDispatched'
  <2>1. ASSUME NEW n \in DOMAIN attempts', n # tasks'[attempts'[n].task].token
        PROVE  attempts'[n].outcome \in {"claimed", "failed"}
    <3>1. n \in DOMAIN attempts /\ attempts'[n] = attempts[n]
      BY <2>1, <1>1, <1>3, <1>4 DEF a
    <3>2. CASE attempts[n].task # t
      BY <3>1, <3>2, <2>1, <1>4, RowFacts DEF SupersededNeverDispatched, Attempt
    <3>3. CASE attempts[n].task = t /\ n = tasks[t].token
      <4>1. n # 0 /\ attempts[n].outcome = tasks[t].state
        BY <3>1, <3>3, RowFacts DEF RowMatchesAttempt
      <4>2. QED
        BY <4>1, <3>1, <3>3
    <3>4. CASE attempts[n].task = t /\ n # tasks[t].token
      BY <3>1, <3>4 DEF SupersededNeverDispatched
    <3>5. QED
      BY <3>2, <3>3, <3>4
  <2>2. QED
    BY <2>1 DEF SupersededNeverDispatched
<1>10. AttemptsOwned'
  <2>1. ASSUME NEW n \in DOMAIN attempts'
        PROVE  n <= tasks'[attempts'[n].task].token
    <3>1. n <= k
      BY <1>0, <1>3
    <3>2. CASE attempts'[n].task = t
      BY <3>1, <3>2, <1>1, <1>4
    <3>3. CASE attempts'[n].task # t
      <4>1. n \in DOMAIN attempts /\ attempts'[n] = attempts[n]
        BY <3>3, <1>3 DEF a
      <4>2. attempts[n].task \in Tasks
        BY <4>1, RowFacts DEF Attempt
      <4>3. QED
        BY <4>1, <4>2, <3>3, <1>4 DEF AttemptsOwned
    <3>4. QED
      BY <3>2, <3>3
  <2>2. QED
    BY <2>1 DEF AttemptsOwned
<1>11. InputKnown'
  BY <1>1, <1>4 DEF InputKnown
<1>12. TerminalStep
  BY <1>3, <1>4 DEF TerminalStep
<1>13. AttemptsGrow
  BY <1>0, <1>3 DEF AttemptsGrow
<1>14. QED
  BY <1>5, <1>6, <1>7, <1>8, <1>9, <1>10, <1>11, <1>12, <1>13 DEF Preserved

(* claim() preserves the invariant.                                        *)
LEMMA ClaimPreserves ==
  ASSUME JournalInv, NEW t \in Tasks, NEW w \in Workers, NEW i \in Inputs,
         NEW p \in Pids, Claim(t, w, i, p)
  PROVE  Preserved
<1>1. Planned(i) \in Row /\ Planned(i).token = 0
  BY MaxTokensAssumption DEF Planned, Row, States
<1>2. RowOrPlanned(t, i) \in Row
  BY <1>1, RowFacts DEF RowOrPlanned
<1>3. /\ RowOrPlanned(t, i).ext = 0
      /\ RowOrPlanned(t, i).input = i
      /\ RowOrPlanned(t, i).token = tasks[t].token
  BY <1>1, RowFacts DEF RowOrPlanned, Claim, CanClaim
<1>4. tasks[t].state \in {"absent", "planned", "failed"}
  BY DEF RowOrPlanned, Claim, CanClaim, Claimable
<1>5. ~FinalRow(tasks[t])
  BY <1>4 DEF FinalRow, RowOrPlanned, Claim, CanClaim
<1>6. tasks[t].token # 0 => tasks[t].state \in {"claimed", "failed"}
  BY <1>4, RowFacts
<1>7. Issue(t, RowOrPlanned(t, i), w, i, p)
  BY DEF Claim
<1>8. QED
  BY <1>2, <1>3, <1>5, <1>6, <1>7, IssuePreserves

(* takeover_stale_claim() preserves the invariant.                         *)
LEMMA TakeoverPreserves ==
  ASSUME JournalInv, NEW t \in Tasks, NEW w \in Workers, NEW i \in Inputs,
         NEW p \in Pids, NEW exited, TakeoverStaleClaim(t, w, i, p, exited)
  PROVE  Preserved
<1>1. /\ tasks[t] \in Row
      /\ tasks[t].ext = 0
      /\ tasks[t].input = i
      /\ tasks[t].state = "claimed"
      /\ Issue(t, tasks[t], w, i, p)
  BY RowFacts DEF TakeoverStaleClaim, CanTakeOver
<1>2. ~FinalRow(tasks[t])
  BY <1>1 DEF FinalRow
<1>3. QED
  BY <1>1, <1>2, IssuePreserves

-----------------------------------------------------------------------------
(* A genuine claim that passes the WHERE clause names the current attempt. *)
LEMMA FencedFacts ==
  ASSUME JournalInv, NEW c, Genuine(c), Fenced(c)
  PROVE  /\ c.task \in Tasks
         /\ c.attempt = c.token
         /\ c.attempt = tasks[c.task].token
         /\ c.attempt \in DOMAIN attempts
         /\ attempts[c.attempt].task = c.task
         /\ attempts[c.attempt].outcome = tasks[c.task].state
         /\ c.attempt # 0
<1> USE DEF JournalInv
<1>1. /\ c.task \in Tasks /\ c.token \in 1..MaxTokens
      /\ c.attempt \in DOMAIN attempts
      /\ attempts[c.attempt].token = c.token
      /\ attempts[c.attempt].task = c.task
  BY DEF Genuine, Claims
<1>2. c.attempt = c.token
  BY <1>1 DEF TokensNumberAttempts
<1>3. c.attempt = tasks[c.task].token /\ c.attempt # 0
  BY <1>1, <1>2, MaxTokensAssumption DEF Fenced
<1>4. attempts[c.attempt].outcome = tasks[c.task].state
  BY <1>1, <1>3 DEF RowMatchesAttempt
<1>5. QED
  BY <1>1, <1>2, <1>3, <1>4

(* A claim-fenced update that moves the row and its current attempt to the *)
(* same state s, dispatching at most the first action of the task.         *)
LEMMA MovePreserves ==
  ASSUME JournalInv, NEW c, Genuine(c), Fenced(c),
         tasks[c.task].state \in Active,
         NEW s \in Outcomes \ {"claimed"}, NEW r \in Row,
         r.state = s, r.token = tasks[c.task].token,
         r.worker = tasks[c.task].worker, r.pid = tasks[c.task].pid,
         r.input = tasks[c.task].input, r.ext \in {0, 1},
         s = "dispatch_recorded" => r.ext = 1,
         tasks' = [tasks EXCEPT ![c.task] = r],
         attempts' = [attempts EXCEPT ![c.attempt].outcome = s],
         lastToken' = lastToken
  PROVE  Preserved
<1> USE DEF JournalInv
<1> DEFINE t == c.task
           n == c.attempt
<1>1. /\ t \in Tasks /\ n = tasks[t].token /\ n \in DOMAIN attempts /\ n # 0
      /\ attempts[n].task = t /\ attempts[n].outcome = tasks[t].state
  BY FencedFacts
<1>2. /\ tasks'[t] = r
      /\ \A u \in Tasks : u # t => tasks'[u] = tasks[u]
  BY <1>1 DEF JournalTypeOK
<1>3. /\ attempts' \in Seq(Attempt)
      /\ Len(attempts') = Len(attempts)
      /\ DOMAIN attempts' = DOMAIN attempts
      /\ \A m \in DOMAIN attempts : m # n => attempts'[m] = attempts[m]
      /\ attempts'[n] = [attempts[n] EXCEPT !.outcome = s]
  <2>1. PICK b : b = [attempts[n] EXCEPT !.outcome = s]
    OBVIOUS
  <2>2. attempts[n] \in Attempt
    BY <1>1, RowFacts
  <2>3. b = [task |-> attempts[n].task, token |-> attempts[n].token,
             worker |-> attempts[n].worker, pid |-> attempts[n].pid,
             input |-> attempts[n].input, outcome |-> s]
    BY <2>1, <2>2 DEF Attempt
  <2>4. b \in Attempt
    BY <2>2, <2>3 DEF Attempt
  <2>5. attempts' = [attempts EXCEPT ![n] = b]
    BY <2>1
  <2>6. attempts \in Seq(Attempt)
    BY DEF JournalTypeOK
  <2> HIDE DEF n
  <2>7. /\ attempts' \in Seq(Attempt)
        /\ Len(attempts') = Len(attempts)
        /\ DOMAIN attempts' = DOMAIN attempts
        /\ \A m \in DOMAIN attempts : m # n => attempts'[m] = attempts[m]
        /\ attempts'[n] = b
    <3>1. n \in 1..Len(attempts) /\ DOMAIN attempts = 1..Len(attempts)
      BY <1>1, RowFacts
    <3>2. /\ attempts' \in Seq(Attempt)
          /\ Len(attempts') = Len(attempts)
          /\ \A m \in 1..Len(attempts) :
               attempts'[m] = IF m = n THEN b ELSE attempts[m]
      <4>1. /\ [attempts EXCEPT ![n] = b] \in Seq(Attempt)
            /\ Len([attempts EXCEPT ![n] = b]) = Len(attempts)
            /\ \A m \in 1..Len(attempts) :
                 [attempts EXCEPT ![n] = b][m] = IF m = n THEN b ELSE attempts[m]
        BY ONLY <3>1, <2>4, <2>6, ExceptSeq
      <4>2. QED
        BY ONLY <4>1, <2>5
    <3>3. DOMAIN attempts' = 1..Len(attempts')
      BY <3>2
    <3>4. QED
      BY <3>1, <3>2, <3>3
  <2>8. QED
    BY <2>1, <2>7
<1>4. /\ attempts'[n].outcome = s
      /\ attempts'[n].task = t
      /\ attempts'[n].token = attempts[n].token
      /\ attempts'[n].worker = attempts[n].worker
      /\ attempts'[n].pid = attempts[n].pid
      /\ attempts'[n].input = attempts[n].input
  BY <1>1, <1>3, RowFacts DEF Attempt
<1>5. \A m \in DOMAIN attempts :
        attempts'[m].task = attempts[m].task /\ attempts'[m].token = attempts[m].token
  BY <1>1, <1>3, <1>4
<1> HIDE DEF t, n
<1>6. JournalTypeOK'
  <2>1. tasks' \in [Tasks -> Row]
    BY DEF JournalTypeOK
  <2>2. QED
    BY <2>1, <1>3 DEF JournalTypeOK
<1>7. TokensNumberAttempts'
  BY <1>3, <1>5 DEF TokensNumberAttempts
<1>8. RowMatchesAttempt'
  <2>1. ASSUME NEW u \in Tasks, tasks'[u].token # 0
        PROVE  LET k == tasks'[u].token IN
               /\ k \in DOMAIN attempts'
               /\ attempts'[k].task = u
               /\ attempts'[k].outcome = tasks'[u].state
               /\ attempts'[k].worker = tasks'[u].worker
               /\ attempts'[k].pid = tasks'[u].pid
               /\ attempts'[k].input = tasks'[u].input
               /\ \A m \in DOMAIN attempts' : attempts'[m].task = u => m <= k
    <3>1. CASE u = t
      <4>1. tasks'[u] = r /\ r.token = n
        BY <3>1, <1>1, <1>2 DEF t
      <4>2. /\ attempts[n].worker = r.worker /\ attempts[n].pid = r.pid
            /\ attempts[n].input = r.input
            /\ \A m \in DOMAIN attempts : attempts[m].task = t => m <= n
        BY <1>1 DEF RowMatchesAttempt, t
      <4>3. \A m \in DOMAIN attempts' : attempts'[m].task = u => m <= n
        BY <3>1, <4>2, <1>3, <1>5
      <4>4. /\ n \in DOMAIN attempts'
            /\ attempts'[n].task = u
            /\ attempts'[n].outcome = r.state
            /\ attempts'[n].worker = r.worker
            /\ attempts'[n].pid = r.pid
            /\ attempts'[n].input = r.input
        BY <3>1, <4>2, <1>1, <1>3, <1>4
      <4>5. /\ tasks'[u].token = n
            /\ tasks'[u].state = r.state
            /\ tasks'[u].worker = r.worker
            /\ tasks'[u].pid = r.pid
            /\ tasks'[u].input = r.input
        BY <4>1
      <4>6. QED
        BY ONLY <4>3, <4>4, <4>5
    <3>2. CASE u # t
      <4>1. tasks'[u] = tasks[u] /\ tasks[u].token \in DOMAIN attempts
            /\ attempts[tasks[u].token].task = u
        BY <3>2, <2>1, <1>2 DEF RowMatchesAttempt
      <4>2. tasks[u].token # n
        BY <4>1, <3>2, <1>1
      <4>3. attempts'[tasks[u].token] = attempts[tasks[u].token]
        BY <4>1, <4>2, <1>3
      <4>4. /\ attempts[tasks[u].token].outcome = tasks[u].state
            /\ attempts[tasks[u].token].worker = tasks[u].worker
            /\ attempts[tasks[u].token].pid = tasks[u].pid
            /\ attempts[tasks[u].token].input = tasks[u].input
            /\ \A m \in DOMAIN attempts :
                 attempts[m].task = u => m <= tasks[u].token
        BY <2>1, <4>1 DEF RowMatchesAttempt
      <4>5. \A m \in DOMAIN attempts' :
              attempts'[m].task = u => m <= tasks[u].token
        BY ONLY <4>4, <1>3, <1>5
      <4>6. QED
        BY ONLY <4>1, <4>3, <4>4, <4>5, <1>3
    <3>3. QED
      BY <3>1, <3>2
  <2>2. QED
    BY <2>1 DEF RowMatchesAttempt
<1>9. DispatchedOnce'
  BY <1>2 DEF DispatchedOnce, Outcomes, t
<1>10. SupersededNeverDispatched'
  <2>1. ASSUME NEW m \in DOMAIN attempts', m # tasks'[attempts'[m].task].token
        PROVE  attempts'[m].outcome \in {"claimed", "failed"}
    <3>1. m \in DOMAIN attempts /\ attempts'[m].task = attempts[m].task
          /\ attempts[m].task \in Tasks
      BY <1>3, <1>5, RowFacts DEF Attempt
    <3>2. tasks'[attempts[m].task].token = tasks[attempts[m].task].token
      BY <3>1, <1>2 DEF t
    <3>3. m # n
      BY <2>1, <3>1, <3>2, <1>1
    <3>4. QED
      BY <2>1, <3>1, <3>2, <3>3, <1>3 DEF SupersededNeverDispatched
  <2>2. QED
    BY <2>1 DEF SupersededNeverDispatched
<1>11. AttemptsOwned'
  <2>1. ASSUME NEW m \in DOMAIN attempts'
        PROVE  m <= tasks'[attempts'[m].task].token
    <3>1. m \in DOMAIN attempts /\ attempts'[m].task = attempts[m].task
          /\ attempts[m].task \in Tasks
      BY <1>3, <1>5, RowFacts DEF Attempt
    <3>2. tasks'[attempts[m].task].token = tasks[attempts[m].task].token
      BY <3>1, <1>2 DEF t
    <3>3. QED
      BY <3>1, <3>2 DEF AttemptsOwned
  <2>2. QED
    BY <2>1 DEF AttemptsOwned
<1>12. InputKnown'
  BY <1>1, <1>2 DEF InputKnown, Active, t
<1>13. TerminalStep
  <2>1. ~FinalRow(tasks[t])
    BY DEF FinalRow, Active, t
  <2>2. attempts[n].outcome \in Active
    BY <1>1 DEF t
  <2>3. QED
    BY <2>1, <2>2, <1>2, <1>3 DEF TerminalStep, Active
<1>14. AttemptsGrow
  BY <1>3, <1>4, <1>1, RowFacts DEF AttemptsGrow
<1>15. QED
  BY <1>6, <1>7, <1>8, <1>9, <1>10, <1>11, <1>12, <1>13, <1>14 DEF Preserved

(* record_dispatch() preserves the invariant: the first dispatch of the    *)
(* task is also its last.                                                  *)
LEMMA DispatchPreserves ==
  ASSUME JournalInv, NEW c, Genuine(c), RecordDispatch(c)
  PROVE  Preserved
<1>1. /\ Fenced(c) /\ tasks[c.task].state = "claimed" /\ c.task \in Tasks
      /\ attempts[c.attempt].outcome = "claimed" /\ c.attempt \in DOMAIN attempts
  BY FencedFacts DEF RecordDispatch
<1>2. PICK r : r = [tasks[c.task] EXCEPT !.state = "dispatch_recorded",
                                         !.ext = tasks[c.task].ext + 1]
  OBVIOUS
<1>3. tasks[c.task] \in Row /\ tasks[c.task].ext = 0
  BY <1>1, RowFacts DEF DispatchedOnce, JournalInv
<1>4. r = [state |-> "dispatch_recorded", token |-> tasks[c.task].token,
           worker |-> tasks[c.task].worker, pid |-> tasks[c.task].pid,
           input |-> tasks[c.task].input, output |-> tasks[c.task].output,
           ext |-> tasks[c.task].ext + 1]
  BY <1>2, <1>3 DEF Row
<1>5. r \in Row
  BY <1>3, <1>4 DEF Row, States
<1>6. tasks' = [tasks EXCEPT ![c.task] = r]
  BY <1>1, <1>2, <1>3 DEF RecordDispatch, JournalInv, JournalTypeOK
<1>7. attempts' = [attempts EXCEPT ![c.attempt].outcome = "dispatch_recorded"]
  BY <1>1 DEF RecordDispatch, SetOutcome
<1>8. lastToken' = lastToken
  BY DEF RecordDispatch
<1>9. /\ r.state = "dispatch_recorded" /\ r.token = tasks[c.task].token
      /\ r.worker = tasks[c.task].worker /\ r.pid = tasks[c.task].pid
      /\ r.input = tasks[c.task].input /\ r.ext = 1
  BY <1>3, <1>4
<1>10. QED
  BY <1>1, <1>5, <1>6, <1>7, <1>8, <1>9, MovePreserves DEF Active, Outcomes

(* commit() preserves the invariant.                                       *)
LEMMA CommitPreserves ==
  ASSUME JournalInv, NEW c, Genuine(c), NEW o \in Outputs, Commit(c, o)
  PROVE  Preserved
<1>1. /\ Fenced(c) /\ tasks[c.task].state \in Active /\ c.task \in Tasks
      /\ attempts[c.attempt].outcome \in Active /\ c.attempt \in DOMAIN attempts
  BY FencedFacts DEF Commit
<1>2. PICK r : r = [tasks[c.task] EXCEPT !.state = "succeeded", !.output = o]
  OBVIOUS
<1>3. tasks[c.task] \in Row /\ tasks[c.task].ext \in {0, 1}
  BY <1>1, RowFacts DEF DispatchedOnce, JournalInv
<1>4. r = [state |-> "succeeded", token |-> tasks[c.task].token,
           worker |-> tasks[c.task].worker, pid |-> tasks[c.task].pid,
           input |-> tasks[c.task].input, output |-> o,
           ext |-> tasks[c.task].ext]
  BY <1>2, <1>3 DEF Row
<1>5. r \in Row
  BY <1>3, <1>4 DEF Row, States
<1>6. tasks' = [tasks EXCEPT ![c.task] = r]
  BY <1>1, <1>2 DEF Commit, JournalInv, JournalTypeOK
<1>7. attempts' = [attempts EXCEPT ![c.attempt].outcome = "succeeded"]
  BY <1>1 DEF Commit, SetOutcome
<1>8. lastToken' = lastToken
  BY DEF Commit
<1>9. /\ r.state = "succeeded" /\ r.token = tasks[c.task].token
      /\ r.worker = tasks[c.task].worker /\ r.pid = tasks[c.task].pid
      /\ r.input = tasks[c.task].input /\ r.ext = tasks[c.task].ext
  BY <1>4
<1>10. QED
  BY <1>1, <1>3, <1>5, <1>6, <1>7, <1>8, <1>9, MovePreserves DEF Outcomes

(* record_failure() preserves the invariant.                               *)
LEMMA FailurePreserves ==
  ASSUME JournalInv, NEW c, Genuine(c), NEW s, RecordFailure(c, s)
  PROVE  Preserved
<1>1. /\ Fenced(c) /\ tasks[c.task].state \in Active /\ c.task \in Tasks
      /\ attempts[c.attempt].outcome \in Active /\ c.attempt \in DOMAIN attempts
      /\ s \in {"failed", "outcome_unknown"}
  BY FencedFacts DEF RecordFailure
<1>2. PICK r : r = [tasks[c.task] EXCEPT !.state = s]
  OBVIOUS
<1>3. tasks[c.task] \in Row /\ tasks[c.task].ext \in {0, 1}
  BY <1>1, RowFacts DEF DispatchedOnce, JournalInv
<1>4. r = [state |-> s, token |-> tasks[c.task].token,
           worker |-> tasks[c.task].worker, pid |-> tasks[c.task].pid,
           input |-> tasks[c.task].input, output |-> tasks[c.task].output,
           ext |-> tasks[c.task].ext]
  BY <1>2, <1>3 DEF Row
<1>5. r \in Row
  BY <1>1, <1>3, <1>4 DEF Row, States
<1>6. tasks' = [tasks EXCEPT ![c.task] = r]
  BY <1>1, <1>2 DEF RecordFailure, JournalInv, JournalTypeOK
<1>7. attempts' = [attempts EXCEPT ![c.attempt].outcome = s]
  BY <1>1 DEF RecordFailure, SetOutcome
<1>8. lastToken' = lastToken
  BY DEF RecordFailure
<1>9. /\ r.state = s /\ r.token = tasks[c.task].token
      /\ r.worker = tasks[c.task].worker /\ r.pid = tasks[c.task].pid
      /\ r.input = tasks[c.task].input /\ r.ext = tasks[c.task].ext
  BY <1>4
<1>10. QED
  BY <1>1, <1>3, <1>5, <1>6, <1>7, <1>8, <1>9, MovePreserves DEF Outcomes

(* recover_dispatched_unknown() preserves the invariant.                   *)
LEMMA RecoverPreserves ==
  ASSUME JournalInv, NEW scope \in SUBSET Tasks, NEW exited, NEW manual,
         RecoverDispatchedUnknown(scope, exited, manual)
  PROVE  Preserved
<1> USE DEF JournalInv
<1> DEFINE lost == Recoverable(scope, exited, manual)
           Hit(n) == /\ attempts[n].task \in lost
                     /\ attempts[n].outcome = "dispatch_recorded"
<1>1. \A t \in lost : t \in Tasks /\ tasks[t].state = "dispatch_recorded"
  BY DEF Recoverable
<1>2. /\ tasks' = [t \in Tasks |->
           IF t \in lost THEN [tasks[t] EXCEPT !.state = "outcome_unknown"]
                         ELSE tasks[t]]
      /\ attempts' = [n \in DOMAIN attempts |->
           IF Hit(n) THEN [attempts[n] EXCEPT !.outcome = "outcome_unknown"]
                     ELSE attempts[n]]
      /\ lastToken' = lastToken
  BY DEF RecoverDispatchedUnknown
<1> HIDE DEF lost, Hit
<1>3. \A t \in Tasks :
        /\ tasks'[t] \in Row
        /\ tasks'[t].token = tasks[t].token /\ tasks'[t].ext = tasks[t].ext
        /\ tasks'[t].worker = tasks[t].worker /\ tasks'[t].pid = tasks[t].pid
        /\ tasks'[t].input = tasks[t].input
        /\ t \in lost => tasks'[t].state = "outcome_unknown"
        /\ t \notin lost => tasks'[t] = tasks[t]
  <2> SUFFICES ASSUME NEW t \in Tasks
               PROVE  /\ tasks'[t] \in Row
                      /\ tasks'[t].token = tasks[t].token
                      /\ tasks'[t].ext = tasks[t].ext
                      /\ tasks'[t].worker = tasks[t].worker
                      /\ tasks'[t].pid = tasks[t].pid
                      /\ tasks'[t].input = tasks[t].input
                      /\ t \in lost => tasks'[t].state = "outcome_unknown"
                      /\ t \notin lost => tasks'[t] = tasks[t]
    OBVIOUS
  <2>1. tasks[t] \in Row
    BY RowFacts
  <2>2. CASE t \notin lost
    BY <1>2, <2>1, <2>2
  <2>3. CASE t \in lost
    <3>1. PICK r : r = [tasks[t] EXCEPT !.state = "outcome_unknown"]
      OBVIOUS
    <3>2. tasks'[t] = r
      BY <1>2, <2>3, <3>1
    <3>3. r = [state |-> "outcome_unknown", token |-> tasks[t].token,
               worker |-> tasks[t].worker, pid |-> tasks[t].pid,
               input |-> tasks[t].input, output |-> tasks[t].output,
               ext |-> tasks[t].ext]
      BY <3>1, <2>1 DEF Row
    <3>4. QED
      BY <3>2, <3>3, <2>1, <2>3 DEF Row, States
  <2>4. QED
    BY <2>2, <2>3
<1>4. \A n \in DOMAIN attempts :
        /\ attempts'[n] \in Attempt
        /\ attempts'[n].task = attempts[n].task
        /\ attempts'[n].token = attempts[n].token
        /\ attempts'[n].worker = attempts[n].worker
        /\ attempts'[n].pid = attempts[n].pid
        /\ attempts'[n].input = attempts[n].input
        /\ Hit(n) => attempts'[n].outcome = "outcome_unknown"
        /\ ~Hit(n) => attempts'[n] = attempts[n]
  <2> SUFFICES ASSUME NEW n \in DOMAIN attempts
               PROVE  /\ attempts'[n] \in Attempt
                      /\ attempts'[n].task = attempts[n].task
                      /\ attempts'[n].token = attempts[n].token
                      /\ attempts'[n].worker = attempts[n].worker
                      /\ attempts'[n].pid = attempts[n].pid
                      /\ attempts'[n].input = attempts[n].input
                      /\ Hit(n) => attempts'[n].outcome = "outcome_unknown"
                      /\ ~Hit(n) => attempts'[n] = attempts[n]
    OBVIOUS
  <2>1. attempts[n] \in Attempt
    BY RowFacts
  <2>2. CASE ~Hit(n)
    BY <1>2, <2>1, <2>2
  <2>3. CASE Hit(n)
    <3>1. PICK b : b = [attempts[n] EXCEPT !.outcome = "outcome_unknown"]
      OBVIOUS
    <3>2. attempts'[n] = b
      BY <1>2, <2>3, <3>1
    <3>3. b = [task |-> attempts[n].task, token |-> attempts[n].token,
               worker |-> attempts[n].worker, pid |-> attempts[n].pid,
               input |-> attempts[n].input, outcome |-> "outcome_unknown"]
      BY <3>1, <2>1 DEF Attempt
    <3>4. QED
      BY <3>2, <3>3, <2>1, <2>3 DEF Attempt, Outcomes
  <2>4. QED
    BY <2>2, <2>3
<1>5. /\ DOMAIN attempts' = DOMAIN attempts
      /\ Len(attempts') = Len(attempts)
      /\ attempts' \in Seq(Attempt)
  <2>1. /\ DOMAIN attempts = 1..Len(attempts) /\ Len(attempts) \in Nat
        /\ DOMAIN attempts' = DOMAIN attempts
    BY <1>2, RowFacts
  <2>2. attempts' = [n \in 1..Len(attempts) |-> attempts'[n]]
    BY <1>2, <2>1
  <2>3. attempts' \in Seq(Attempt)
    BY <2>1, <2>2, <1>4
  <2>4. QED
    BY <2>1, <2>3
<1>6. JournalTypeOK'
  BY <1>2, <1>3, <1>5 DEF JournalTypeOK
<1>7. TokensNumberAttempts'
  BY <1>2, <1>4, <1>5 DEF TokensNumberAttempts
<1>8. RowMatchesAttempt'
  <2> SUFFICES ASSUME NEW t \in Tasks, NEW k, k = tasks[t].token, k # 0
               PROVE  /\ k \in DOMAIN attempts'
                      /\ attempts'[k].task = t
                      /\ attempts'[k].outcome = tasks'[t].state
                      /\ attempts'[k].worker = tasks'[t].worker
                      /\ attempts'[k].pid = tasks'[t].pid
                      /\ attempts'[k].input = tasks'[t].input
                      /\ \A m \in DOMAIN attempts' : attempts'[m].task = t => m <= k
    BY <1>3 DEF RowMatchesAttempt
  <2>1. /\ k \in DOMAIN attempts
        /\ attempts[k].task = t
        /\ attempts[k].outcome = tasks[t].state
        /\ attempts[k].worker = tasks[t].worker
        /\ attempts[k].pid = tasks[t].pid
        /\ attempts[k].input = tasks[t].input
        /\ \A m \in DOMAIN attempts : attempts[m].task = t => m <= k
    BY DEF RowMatchesAttempt
  <2>2. attempts'[k].outcome = tasks'[t].state
    <3>1. CASE t \in lost
      BY <3>1, <2>1, <1>1, <1>3, <1>4 DEF Hit
    <3>2. CASE t \notin lost
      BY <3>2, <2>1, <1>3, <1>4 DEF Hit
    <3>3. QED
      BY <3>1, <3>2
  <2>3. \A m \in DOMAIN attempts' : attempts'[m].task = t => m <= k
    BY <2>1, <1>4, <1>5
  <2>4. QED
    BY <2>1, <2>2, <2>3, <1>3, <1>4, <1>5
<1>9. DispatchedOnce'
  BY <1>3 DEF DispatchedOnce
<1>10. SupersededNeverDispatched'
  <2>1. ASSUME NEW n \in DOMAIN attempts', n # tasks'[attempts'[n].task].token
        PROVE  attempts'[n].outcome \in {"claimed", "failed"}
    <3>1. /\ n \in DOMAIN attempts /\ attempts[n].task \in Tasks
          /\ n # tasks[attempts[n].task].token
      BY <2>1, <1>3, <1>4, <1>5, RowFacts DEF Attempt
    <3>2. attempts[n].outcome \in {"claimed", "failed"}
      BY <3>1 DEF SupersededNeverDispatched
    <3>3. ~Hit(n)
      BY <3>2 DEF Hit
    <3>4. QED
      BY <3>1, <3>2, <3>3, <1>4
  <2>2. QED
    BY <2>1 DEF SupersededNeverDispatched
<1>11. AttemptsOwned'
  <2>1. ASSUME NEW n \in DOMAIN attempts'
        PROVE  n <= tasks'[attempts'[n].task].token
    <3>1. n \in DOMAIN attempts /\ attempts[n].task \in Tasks
      BY <1>5, RowFacts DEF Attempt
    <3>2. QED
      BY <3>1, <1>3, <1>4 DEF AttemptsOwned
  <2>2. QED
    BY <2>1 DEF AttemptsOwned
<1>12. InputKnown'
  BY <1>1, <1>3 DEF InputKnown
<1>13. TerminalStep
  <2>1. \A t \in Tasks : FinalRow(tasks[t]) => tasks'[t] = tasks[t]
    BY <1>1, <1>3 DEF FinalRow
  <2>2. \A n \in DOMAIN attempts :
          attempts[n].outcome \in {"succeeded", "failed", "outcome_unknown"}
            => attempts'[n] = attempts[n]
    BY <1>4 DEF Hit
  <2>3. QED
    BY <2>1, <2>2, <1>5 DEF TerminalStep
<1>14. AttemptsGrow
  BY <1>4, <1>5, RowFacts DEF AttemptsGrow
<1>15. QED
  BY <1>6, <1>7, <1>8, <1>9, <1>10, <1>11, <1>12, <1>13, <1>14 DEF Preserved

(* A step of a caller that writes none of the ledger's tables.             *)
LEMMA UnchangedPreserves ==
  ASSUME JournalInv, UNCHANGED journalVars
  PROVE  Preserved
<1>1. JournalInv'
  BY DEF journalVars, JournalInv, JournalTypeOK, TokensNumberAttempts,
         RowMatchesAttempt, DispatchedOnce, SupersededNeverDispatched,
         AttemptsOwned, InputKnown
<1>2. TerminalStep /\ AttemptsGrow
  BY RowFacts DEF journalVars, TerminalStep, AttemptsGrow
<1>3. QED
  BY <1>1, <1>2 DEF Preserved

(* A genuine claim stays genuine.                                          *)
LEMMA GenuinePersists ==
  ASSUME NEW c, Genuine(c), AttemptsGrow
  PROVE  Genuine(c)'
BY DEF Genuine, AttemptsGrow

(* The claim a step issues is genuine once the step is taken.              *)
LEMMA IssuedGenuine ==
  ASSUME JournalInv, NEW t \in Tasks, NEW row, NEW w \in Workers,
         NEW i \in Inputs, NEW p \in Pids, Issue(t, row, w, i, p),
         NEW c, c = IssuedClaim(t, w, i)
  PROVE  Genuine(c)'
<1> DEFINE k == lastToken + 1
           a == [task |-> t, token |-> k, worker |-> w, pid |-> p,
                 input |-> i, outcome |-> "claimed"]
<1>1. /\ lastToken \in Nat /\ k \in 1..MaxTokens /\ k = Len(attempts) + 1
      /\ attempts \in Seq(Attempt)
  BY MaxTokensAssumption DEF Issue, JournalInv, JournalTypeOK, TokensNumberAttempts
<1>2. a \in Attempt
  BY <1>1 DEF Attempt, Outcomes
<1>3. attempts' = Append(attempts, a)
  BY DEF Issue
<1>4. DOMAIN attempts' = 1..k /\ attempts'[k] = a
  BY <1>1, <1>2, <1>3
<1>5. c = [task |-> t, token |-> k, worker |-> w, input |-> i, attempt |-> k]
  BY <1>1 DEF IssuedClaim
<1>6. QED
  BY <1>1, <1>4, <1>5 DEF Claims, Genuine

-----------------------------------------------------------------------------
(***************************************************************************)
(* The ledger with the processes of JournalWorkers.                        *)
(***************************************************************************)

(* Whoever holds a claim was really given it by the ledger, as the process *)
(* that still runs under that id.                                          *)
ClaimsGenuine ==
  \A p \in Pids : \A c \in ClaimsOf(p) :
    Genuine(c) /\ attempts[c.attempt].pid = p

(* A process that is not running holds nothing.                            *)
DeadHoldNothing == \A p \in Pids \ running : held[p] = {} /\ local[p] = NoLocalCall

(* The claim names the newest attempt of its task.                         *)
Newest(c) == \A m \in DOMAIN attempts : attempts[m].task = c.task => m <= c.attempt

OpenClaimsNewest ==
  \A p \in Pids : \A c \in ClaimsOf(p) :
    attempts[c.attempt].outcome \in Active => Newest(c)

(* The claim a local completion works with is its own: it is still only    *)
(* claimed, and no other call of the process was given it.                 *)
LocalUntouched ==
  \A p \in Pids : local[p].pc = "commit" =>
    /\ attempts[local[p].claim.attempt].outcome = "claimed"
    /\ \A d \in held[p] : d.attempt # local[p].claim.attempt

WorkersInv ==
  /\ JournalInv
  /\ ProcTypeOK
  /\ ClaimsGenuine
  /\ DeadHoldNothing
  /\ OpenClaimsNewest
  /\ LocalUntouched

-----------------------------------------------------------------------------
(* Registration, dispatch, commit, failure and recovery append no attempt; *)
(* only the attempt of the claim presented, or one whose dispatch is lost, *)
(* changes its outcome.                                                    *)
LEMMA MoveTouchesOne ==
  ASSUME JournalInv, NEW c, Genuine(c),
         \/ RecordDispatch(c)
         \/ \E o \in Outputs : Commit(c, o)
         \/ \E s \in {"failed", "outcome_unknown"} : RecordFailure(c, s)
  PROVE  /\ Preserved
         /\ DOMAIN attempts' = DOMAIN attempts
         /\ \A m \in DOMAIN attempts : m # c.attempt => attempts'[m] = attempts[m]
<1>1. Preserved
  BY DispatchPreserves, CommitPreserves, FailurePreserves
<1>2. attempts \in Seq(Attempt) /\ c.attempt \in DOMAIN attempts
  BY DEF JournalInv, JournalTypeOK, Genuine
<1>3. \E from, to : attempts' = SetOutcome(c.attempt, from, to)
  BY DEF RecordDispatch, Commit, RecordFailure
<1>4. /\ DOMAIN attempts' = DOMAIN attempts
      /\ \A m \in DOMAIN attempts : m # c.attempt => attempts'[m] = attempts[m]
  BY <1>2, <1>3 DEF SetOutcome
<1>5. QED
  BY <1>1, <1>4

LEMMA RecoverTouchesLost ==
  ASSUME JournalInv, NEW scope \in SUBSET Tasks, NEW exited, NEW manual,
         RecoverDispatchedUnknown(scope, exited, manual)
  PROVE  /\ Preserved
         /\ DOMAIN attempts' = DOMAIN attempts
         /\ \A m \in DOMAIN attempts :
              attempts[m].outcome # "dispatch_recorded" => attempts'[m] = attempts[m]
BY RecoverPreserves DEF RecoverDispatchedUnknown

(* An outcome that is open after a step was open before it.                *)
LEMMA OpenWasOpen ==
  ASSUME JournalInv, Preserved, NEW n \in DOMAIN attempts,
         attempts'[n].outcome \in Active
  PROVE  attempts[n].outcome \in Active
<1>1. attempts[n].outcome \in Outcomes
  BY RowFacts DEF Attempt
<1>2. QED
  BY <1>1 DEF Preserved, TerminalStep, Active, Outcomes

(* The newest attempt of a task is the one its row names.                  *)
LEMMA NewestIsCurrent ==
  ASSUME JournalInv, NEW c, Genuine(c), Newest(c)
  PROVE  /\ c.task \in Tasks
         /\ c.attempt = c.token
         /\ tasks[c.task].token = c.attempt
         /\ attempts[c.attempt].outcome = tasks[c.task].state
         /\ attempts[c.attempt].worker = tasks[c.task].worker
         /\ attempts[c.attempt].pid = tasks[c.task].pid
         /\ attempts[c.attempt].input = tasks[c.task].input
<1>1. /\ c.task \in Tasks /\ c.attempt \in DOMAIN attempts
      /\ attempts[c.attempt].task = c.task /\ attempts[c.attempt].token = c.token
      /\ c.attempt \in Nat \ {0}
  BY RowFacts DEF Genuine, Claims
<1>2. c.attempt = c.token
  BY <1>1 DEF JournalInv, TokensNumberAttempts
<1>3. c.attempt <= tasks[c.task].token /\ tasks[c.task].token \in Nat
  BY <1>1, RowFacts, MaxTokensAssumption DEF JournalInv, AttemptsOwned, Row
<1>4. /\ tasks[c.task].token \in DOMAIN attempts
      /\ attempts[tasks[c.task].token].task = c.task
      /\ attempts[tasks[c.task].token].outcome = tasks[c.task].state
      /\ attempts[tasks[c.task].token].worker = tasks[c.task].worker
      /\ attempts[tasks[c.task].token].pid = tasks[c.task].pid
      /\ attempts[tasks[c.task].token].input = tasks[c.task].input
  BY <1>1, <1>3 DEF JournalInv, RowMatchesAttempt
<1>5. tasks[c.task].token = c.attempt
  BY <1>1, <1>3, <1>4 DEF Newest
<1>6. QED
  BY <1>1, <1>2, <1>4, <1>5

(* A step that leaves the processes alone and appends no attempt.          *)
LEMMA QuietStep ==
  ASSUME WorkersInv, Preserved, DOMAIN attempts' = DOMAIN attempts,
         UNCHANGED procVars,
         \A p \in Pids : local[p].pc = "commit" =>
           attempts'[local[p].claim.attempt].outcome = "claimed"
  PROVE  WorkersInv'
<1>1. /\ running' = running /\ held' = held /\ local' = local
      /\ \A p \in Pids : ClaimsOf(p)' = ClaimsOf(p)
  BY DEF procVars, ClaimsOf
<1>2. JournalInv' /\ AttemptsGrow
  BY DEF Preserved
<1>3. ProcTypeOK' /\ DeadHoldNothing'
  BY <1>1 DEF WorkersInv, ProcTypeOK, DeadHoldNothing
<1>4. ClaimsGenuine'
  <2> SUFFICES ASSUME NEW p \in Pids, NEW c \in ClaimsOf(p)
               PROVE  Genuine(c)' /\ attempts'[c.attempt].pid = p
    BY <1>1 DEF ClaimsGenuine
  <2>1. Genuine(c) /\ attempts[c.attempt].pid = p
    BY DEF WorkersInv, ClaimsGenuine
  <2>2. QED
    BY <2>1, <1>2, GenuinePersists DEF Genuine, AttemptsGrow
<1>5. OpenClaimsNewest'
  <2> SUFFICES ASSUME NEW p \in Pids, NEW c \in ClaimsOf(p),
                      attempts'[c.attempt].outcome \in Active
               PROVE  Newest(c)'
    BY <1>1 DEF OpenClaimsNewest
  <2>1. c.attempt \in DOMAIN attempts
    BY DEF WorkersInv, ClaimsGenuine, Genuine
  <2>2. attempts[c.attempt].outcome \in Active
    BY <2>1, OpenWasOpen DEF WorkersInv
  <2>3. Newest(c)
    BY <2>2 DEF WorkersInv, OpenClaimsNewest
  <2>4. QED
    BY <2>3, <1>2 DEF Newest, AttemptsGrow
<1>6. LocalUntouched'
  BY <1>1 DEF WorkersInv, LocalUntouched
<1>7. QED
  BY <1>2, <1>3, <1>4, <1>5, <1>6 DEF WorkersInv

(* The call of a process that still holds only its own claim.              *)
LEMMA OwnMove ==
  ASSUME WorkersInv, NEW p \in Pids, NEW c \in held[p], UNCHANGED procVars,
         \/ RecordDispatch(c)
         \/ \E o \in Outputs : Commit(c, o)
         \/ \E s \in {"failed", "outcome_unknown"} : RecordFailure(c, s)
  PROVE  WorkersInv'
<1>1. c \in ClaimsOf(p) /\ Genuine(c) /\ attempts[c.attempt].pid = p
  BY DEF WorkersInv, ClaimsGenuine, ClaimsOf
<1>2. /\ Preserved
      /\ DOMAIN attempts' = DOMAIN attempts
      /\ \A m \in DOMAIN attempts : m # c.attempt => attempts'[m] = attempts[m]
  BY <1>1, MoveTouchesOne DEF WorkersInv
<1>3. ASSUME NEW q \in Pids, local[q].pc = "commit"
      PROVE  attempts'[local[q].claim.attempt].outcome = "claimed"
  <2> DEFINE d == local[q].claim
  <2>1. d \in ClaimsOf(q) /\ Genuine(d) /\ attempts[d.attempt].pid = q
    BY <1>3 DEF WorkersInv, ClaimsGenuine, ClaimsOf
  <2>2. attempts[d.attempt].outcome = "claimed"
    BY <1>3 DEF WorkersInv, LocalUntouched
  <2>3. d.attempt # c.attempt
    <3>1. CASE q = p
      BY <3>1, <1>3 DEF WorkersInv, LocalUntouched
    <3>2. CASE q # p
      BY <3>2, <1>1, <2>1
    <3>3. QED
      BY <3>1, <3>2
  <2>4. d.attempt \in DOMAIN attempts
    BY <2>1 DEF Genuine
  <2>5. QED
    BY <2>2, <2>3, <2>4, <1>2
<1>4. QED
  BY <1>2, <1>3, QuietStep

(* A task that can be claimed, or taken over from a process that exited,   *)
(* leaves no running process with an open claim on it.                     *)
LEMMA NoOpenClaim ==
  ASSUME WorkersInv, NEW t \in Tasks, NEW i \in Inputs,
         \/ CanClaim(t, i)
         \/ \E exited \in SeenExited : CanTakeOver(t, i, exited),
         NEW q \in Pids, NEW d \in ClaimsOf(q), d.task = t
  PROVE  attempts[d.attempt].outcome \notin Active
<1> SUFFICES ASSUME attempts[d.attempt].outcome \in Active PROVE FALSE
  OBVIOUS
<1>1. Genuine(d) /\ attempts[d.attempt].pid = q /\ Newest(d)
  BY DEF WorkersInv, ClaimsGenuine, OpenClaimsNewest
<1>2. /\ attempts[d.attempt].outcome = tasks[t].state
      /\ attempts[d.attempt].pid = tasks[t].pid
  BY <1>1, NewestIsCurrent DEF WorkersInv
<1>3. q \in running
  <2>1. ClaimsOf(q) # {}
    OBVIOUS
  <2>2. q \notin running => held[q] = {} /\ local[q] = NoLocalCall
    BY DEF WorkersInv, DeadHoldNothing
  <2>3. QED
    BY <2>1, <2>2 DEF ClaimsOf, NoLocalCall
<1>4. CASE CanClaim(t, i)
  BY <1>2, <1>4 DEF CanClaim, RowOrPlanned, Claimable, Active
<1>5. CASE \E exited \in SeenExited : CanTakeOver(t, i, exited)
  BY <1>1, <1>2, <1>3, <1>5 DEF CanTakeOver, SeenExited
<1>6. QED
  BY <1>4, <1>5

(* Issuing a claim to process p: what is known of every process's claims.  *)
LEMMA IssueStep ==
  ASSUME WorkersInv, NEW p \in running, NEW t \in Tasks, NEW w \in Workers,
         NEW i \in Inputs, NEW row, NEW c, c = IssuedClaim(t, w, i),
         \/ CanClaim(t, i)
         \/ \E exited \in SeenExited : CanTakeOver(t, i, exited),
         Issue(t, row, w, i, p), Preserved, UNCHANGED running,
         \A q \in Pids : \A d \in ClaimsOf(q)' : d \in ClaimsOf(q) \/ (q = p /\ d = c)
  PROVE  /\ ClaimsGenuine' /\ OpenClaimsNewest'
         /\ c \in Claims /\ c.attempt \notin DOMAIN attempts
         /\ attempts'[c.attempt].outcome = "claimed"
         /\ \A m \in DOMAIN attempts : attempts'[m] = attempts[m]
<1> DEFINE k == lastToken + 1
           a == [task |-> t, token |-> k, worker |-> w, pid |-> p,
                 input |-> i, outcome |-> "claimed"]
<1>1. JournalInv /\ ProcTypeOK /\ p \in Pids
  BY DEF WorkersInv, ProcTypeOK
<1>2. /\ lastToken \in Nat /\ k \in 1..MaxTokens /\ k = Len(attempts) + 1
      /\ attempts \in Seq(Attempt)
  BY <1>1, MaxTokensAssumption
     DEF Issue, JournalInv, JournalTypeOK, TokensNumberAttempts
<1>3. a \in Attempt
  BY <1>1, <1>2 DEF Attempt, Outcomes
<1>4. attempts' = Append(attempts, a)
  BY DEF Issue
<1>5. /\ DOMAIN attempts' = 1..k /\ DOMAIN attempts = 1..Len(attempts)
      /\ attempts'[k] = a
      /\ \A m \in DOMAIN attempts : attempts'[m] = attempts[m]
  BY <1>2, <1>3, <1>4
<1>6. c = [task |-> t, token |-> k, worker |-> w, input |-> i, attempt |-> k]
  BY <1>2 DEF IssuedClaim
<1>7. /\ c \in Claims /\ c.attempt = k /\ c.task = t
      /\ c.attempt \notin DOMAIN attempts
      /\ attempts'[c.attempt].outcome = "claimed"
      /\ attempts'[c.attempt].pid = p
  BY <1>2, <1>5, <1>6 DEF Claims
<1>8. Genuine(c)'
  BY <1>1, IssuedGenuine
<1> HIDE DEF a, k
<1>9. ClaimsGenuine'
  <2> SUFFICES ASSUME NEW q \in Pids, NEW d \in ClaimsOf(q)'
               PROVE  Genuine(d)' /\ attempts'[d.attempt].pid = q
    BY DEF ClaimsGenuine
  <2>1. CASE q = p /\ d = c
    BY <2>1, <1>7, <1>8
  <2>2. CASE d \in ClaimsOf(q)
    <3>1. Genuine(d) /\ attempts[d.attempt].pid = q
      BY <2>2 DEF WorkersInv, ClaimsGenuine
    <3>2. QED
      BY <3>1, GenuinePersists DEF Preserved, Genuine, AttemptsGrow
  <2>3. QED
    BY <2>1, <2>2
<1>10. OpenClaimsNewest'
  <2> SUFFICES ASSUME NEW q \in Pids, NEW d \in ClaimsOf(q)',
                      attempts'[d.attempt].outcome \in Active
               PROVE  Newest(d)'
    BY DEF OpenClaimsNewest
  <2>1. CASE d = c
    BY <2>1, <1>2, <1>5, <1>7 DEF Newest
  <2>2. CASE d \in ClaimsOf(q)
    <3>1. d.attempt \in DOMAIN attempts
      BY <2>2 DEF WorkersInv, ClaimsGenuine, Genuine
    <3>2. attempts[d.attempt].outcome \in Active
      BY <3>1, <1>5
    <3>3. d.task # t
      BY <2>2, <3>2, NoOpenClaim
    <3>4. Newest(d)
      BY <2>2, <3>2 DEF WorkersInv, OpenClaimsNewest
    <3>5. attempts'[k].task = t
      BY <1>5 DEF a
    <3>6. \A m \in DOMAIN attempts' : m = k \/ m \in DOMAIN attempts
      BY <1>2, <1>5
    <3>7. QED
      BY <3>3, <3>4, <3>5, <3>6, <1>5 DEF Newest
  <2>3. QED
    BY <2>1, <2>2
<1>11. QED
  BY <1>5, <1>7, <1>9, <1>10

(* A claim handed to a method call of process p and kept by it.            *)
LEMMA KeepStep ==
  ASSUME WorkersInv, NEW p \in running, NEW t \in Tasks, NEW w \in Workers,
         NEW i \in Inputs, NEW row,
         \/ CanClaim(t, i)
         \/ \E exited \in SeenExited : CanTakeOver(t, i, exited),
         Issue(t, row, w, i, p), Preserved,
         Keep(p, IssuedClaim(t, w, i)), UNCHANGED <<running, local>>
  PROVE  WorkersInv'
<1>1. PICK c : c = IssuedClaim(t, w, i)
  OBVIOUS
<1>2. /\ ProcTypeOK /\ p \in Pids
      /\ held' = [held EXCEPT ![p] = @ \cup {c}]
  BY <1>1 DEF WorkersInv, ProcTypeOK, Keep
<1>3. \A q \in Pids : held'[q] = IF q = p THEN held[p] \cup {c} ELSE held[q]
  BY <1>2 DEF ProcTypeOK
<1>4. \A q \in Pids : \A d \in ClaimsOf(q)' : d \in ClaimsOf(q) \/ (q = p /\ d = c)
  BY <1>3 DEF ClaimsOf
<1>5. /\ ClaimsGenuine' /\ OpenClaimsNewest'
      /\ c \in Claims /\ c.attempt \notin DOMAIN attempts
      /\ attempts'[c.attempt].outcome = "claimed"
      /\ \A m \in DOMAIN attempts : attempts'[m] = attempts[m]
  BY <1>1, <1>4, IssueStep
<1>6. ProcTypeOK'
  BY <1>2, <1>3, <1>5 DEF ProcTypeOK
<1>7. DeadHoldNothing'
  BY <1>2, <1>3 DEF WorkersInv, DeadHoldNothing
<1>8. LocalUntouched'
  <2> SUFFICES ASSUME NEW q \in Pids, local[q].pc = "commit"
               PROVE  /\ attempts'[local[q].claim.attempt].outcome = "claimed"
                      /\ \A d \in held'[q] : d.attempt # local[q].claim.attempt
    BY DEF LocalUntouched
  <2>1. /\ attempts[local[q].claim.attempt].outcome = "claimed"
        /\ \A d \in held[q] : d.attempt # local[q].claim.attempt
    BY DEF WorkersInv, LocalUntouched
  <2>2. local[q].claim \in ClaimsOf(q)
    BY DEF ClaimsOf
  <2>3. local[q].claim.attempt \in DOMAIN attempts
    BY <2>2 DEF WorkersInv, ClaimsGenuine, Genuine
  <2>4. QED
    BY <2>1, <2>3, <1>3, <1>5
<1>9. QED
  BY <1>5, <1>6, <1>7, <1>8 DEF WorkersInv, Preserved

-----------------------------------------------------------------------------
LEMMA WorkersInitInv == WorkersInit => WorkersInv
<1> SUFFICES ASSUME WorkersInit PROVE WorkersInv
  OBVIOUS
<1>1. JournalInv
  BY InitEstablishes DEF WorkersInit
<1>2. \A p \in Pids : held[p] = {} /\ local[p] = NoLocalCall /\ ClaimsOf(p) = {}
  BY DEF WorkersInit, ClaimsOf, NoLocalCall
<1>3. ProcTypeOK
  BY DEF WorkersInit, ProcTypeOK, NoLocalCall
<1>4. ClaimsGenuine /\ DeadHoldNothing /\ OpenClaimsNewest
  BY <1>2 DEF ClaimsGenuine, DeadHoldNothing, OpenClaimsNewest
<1>5. LocalUntouched
  BY <1>2 DEF LocalUntouched, NoLocalCall
<1>6. QED
  BY <1>1, <1>3, <1>4, <1>5 DEF WorkersInv

(* Every step preserves the invariant, and moves no final state.           *)
LEMMA WorkersStepInv == WorkersInv /\ [WorkersNext]_workersVars => WorkersInv' /\ Preserved
<1> SUFFICES ASSUME WorkersInv, [WorkersNext]_workersVars PROVE WorkersInv' /\ Preserved
  OBVIOUS
<1>0. JournalInv /\ ProcTypeOK /\ running \subseteq Pids
  BY DEF WorkersInv, ProcTypeOK
<1>1. ASSUME NEW p \in Pids, WorkerStart(p) PROVE WorkersInv' /\ Preserved
  <2>1. Preserved
    BY <1>0, <1>1, UnchangedPreserves DEF WorkerStart
  <2>2. /\ UNCHANGED <<tasks, attempts, lastToken, takeovers, held, local>>
        /\ running' = running \cup {p}
    BY <1>1 DEF WorkerStart, journalVars
  <2>3. \A q \in Pids : ClaimsOf(q)' = ClaimsOf(q)
    BY <2>2 DEF ClaimsOf
  <2>4. ClaimsGenuine' /\ OpenClaimsNewest' /\ LocalUntouched'
    BY <2>2, <2>3 DEF WorkersInv, ClaimsGenuine, Genuine, OpenClaimsNewest, Newest,
                      LocalUntouched
  <2>5. ProcTypeOK' /\ DeadHoldNothing'
    BY <2>2 DEF WorkersInv, ProcTypeOK, DeadHoldNothing
  <2>6. QED
    BY <2>1, <2>4, <2>5 DEF WorkersInv, Preserved
<1>2. ASSUME NEW p \in Pids, WorkerExit(p) PROVE WorkersInv' /\ Preserved
  <2>1. Preserved
    BY <1>0, <1>2, UnchangedPreserves DEF WorkerExit
  <2>2. /\ UNCHANGED <<tasks, attempts, lastToken, takeovers>>
        /\ running' = running \ {p}
        /\ held'[p] = {} /\ local'[p] = NoLocalCall
        /\ \A q \in Pids : q # p => held'[q] = held[q] /\ local'[q] = local[q]
    BY <1>0, <1>2 DEF WorkerExit, journalVars, ProcTypeOK
  <2>3. \A q \in Pids : ClaimsOf(q)' \subseteq ClaimsOf(q)
    BY <2>2 DEF ClaimsOf, NoLocalCall
  <2>4. ClaimsGenuine' /\ OpenClaimsNewest'
    BY <2>2, <2>3 DEF WorkersInv, ClaimsGenuine, Genuine, OpenClaimsNewest, Newest
  <2>5. LocalUntouched'
    <3> SUFFICES ASSUME NEW q \in Pids, local'[q].pc = "commit"
                 PROVE  /\ attempts'[local'[q].claim.attempt].outcome = "claimed"
                        /\ \A d \in held'[q] : d.attempt # local'[q].claim.attempt
      BY DEF LocalUntouched
    <3>1. q # p
      BY <2>2 DEF NoLocalCall
    <3>2. QED
      BY <2>2, <3>1 DEF WorkersInv, LocalUntouched
  <2>6. ProcTypeOK'
    BY <1>0, <1>2 DEF WorkerExit, ProcTypeOK
  <2>7. DeadHoldNothing'
    BY <2>2 DEF WorkersInv, DeadHoldNothing
  <2>8. QED
    BY <2>1, <2>4, <2>5, <2>6, <2>7 DEF WorkersInv, Preserved
<1>3. ASSUME NEW p \in Pids, CallEnsure(p) PROVE WorkersInv' /\ Preserved
  <2>1. PICK t \in Tasks, i \in Inputs : EnsureTask(t, i)
    BY <1>3 DEF CallEnsure
  <2>2. Preserved /\ attempts' = attempts
    BY <1>0, <2>1, EnsurePreserves DEF EnsureTask
  <2>3. QED
    BY <1>3, <2>2, QuietStep DEF CallEnsure, WorkersInv, LocalUntouched
<1>4. ASSUME NEW p \in Pids, CallClaim(p) PROVE WorkersInv' /\ Preserved
  <2>1. PICK t \in Tasks, w \in Workers, i \in Inputs :
          Claim(t, w, i, p) /\ Keep(p, IssuedClaim(t, w, i))
    BY <1>4 DEF CallClaim
  <2>2. Preserved
    BY <1>0, <2>1, ClaimPreserves
  <2>3. CanClaim(t, i) /\ Issue(t, RowOrPlanned(t, i), w, i, p)
    BY <2>1 DEF Claim
  <2>4. p \in running /\ UNCHANGED <<running, local>>
    BY <1>4 DEF CallClaim
  <2>5. QED
    BY <2>1, <2>2, <2>3, <2>4, KeepStep
<1>5. ASSUME NEW p \in Pids, CallTakeover(p) PROVE WorkersInv' /\ Preserved
  <2>1. PICK t \in Tasks, w \in Workers, i \in Inputs, exited \in SeenExited :
          TakeoverStaleClaim(t, w, i, p, exited) /\ Keep(p, IssuedClaim(t, w, i))
    BY <1>5 DEF CallTakeover
  <2>2. Preserved
    BY <1>0, <2>1, TakeoverPreserves
  <2>3. CanTakeOver(t, i, exited) /\ Issue(t, tasks[t], w, i, p)
    BY <2>1 DEF TakeoverStaleClaim
  <2>4. p \in running /\ UNCHANGED <<running, local>>
    BY <1>5 DEF CallTakeover
  <2>5. QED
    BY <2>1, <2>2, <2>3, <2>4, KeepStep
<1>6. ASSUME NEW p \in Pids, CallDispatch(p) \/ CallCommit(p) \/ CallFailure(p)
      PROVE  WorkersInv' /\ Preserved
  <2>1. PICK c \in held[p] :
          \/ RecordDispatch(c)
          \/ \E o \in Outputs : Commit(c, o)
          \/ \E s \in {"failed", "outcome_unknown"} : RecordFailure(c, s)
    BY <1>6 DEF CallDispatch, CallCommit, CallFailure
  <2>2. UNCHANGED procVars
    BY <1>6 DEF CallDispatch, CallCommit, CallFailure
  <2>3. Genuine(c)
    BY DEF WorkersInv, ClaimsGenuine, ClaimsOf
  <2>4. Preserved
    BY <1>0, <2>1, <2>3, MoveTouchesOne
  <2>5. QED
    BY <2>1, <2>2, <2>4, OwnMove
<1>7. ASSUME NEW p \in Pids, CallRecover(p) PROVE WorkersInv' /\ Preserved
  <2>1. PICK scope \in {{t} : t \in Tasks} \cup {Tasks},
             exited \in SeenExited, manual \in BOOLEAN :
          RecoverDispatchedUnknown(scope, exited, manual)
    BY <1>7 DEF CallRecover
  <2>2. scope \in SUBSET Tasks
    OBVIOUS
  <2>3. /\ Preserved
        /\ DOMAIN attempts' = DOMAIN attempts
        /\ \A m \in DOMAIN attempts :
             attempts[m].outcome # "dispatch_recorded" => attempts'[m] = attempts[m]
    BY <1>0, <2>1, <2>2, RecoverTouchesLost
  <2>4. ASSUME NEW q \in Pids, local[q].pc = "commit"
        PROVE  attempts'[local[q].claim.attempt].outcome = "claimed"
    <3>1. local[q].claim \in ClaimsOf(q)
      BY <2>4 DEF ClaimsOf
    <3>2. local[q].claim.attempt \in DOMAIN attempts
      BY <3>1 DEF WorkersInv, ClaimsGenuine, Genuine
    <3>3. QED
      BY <2>3, <2>4, <3>2 DEF WorkersInv, LocalUntouched
  <2>5. QED
    BY <1>7, <2>3, <2>4, QuietStep DEF CallRecover
<1>8. ASSUME NEW p \in Pids, LocalRead(p) \/ LocalRefused(p) PROVE WorkersInv' /\ Preserved
  <2>1. Preserved
    BY <1>0, <1>8, UnchangedPreserves DEF LocalRead, LocalRefused
  <2>2. /\ UNCHANGED <<tasks, attempts, lastToken, takeovers, running, held>>
        /\ p \in running
        /\ \E l \in LocalCalls \cup {NoLocalCall} :
             l.pc # "commit" /\ local' = [local EXCEPT ![p] = l]
    <3>1. CASE LocalRead(p)
      <4>1. PICK t \in Tasks, w \in Workers, o \in Outputs, allow \in BOOLEAN :
              /\ tasks[t].state \in
                   {"planned", "claimed"} \cup IF allow THEN {"failed"} ELSE {}
              /\ local' = [local EXCEPT ![p] =
                   [pc |-> "acquire", task |-> t, input |-> tasks[t].input,
                    output |-> o, worker |-> w, seen |-> tasks[t].state]]
        BY <3>1 DEF LocalRead
      <4>2. tasks[t].state \in {"planned", "claimed", "failed"}
        BY <4>1
      <4>3. tasks[t].input \in Inputs
        BY <1>0, <4>2 DEF JournalInv, InputKnown
      <4>4. [pc |-> "acquire", task |-> t, input |-> tasks[t].input,
             output |-> o, worker |-> w, seen |-> tasks[t].state] \in LocalCalls
        BY <4>2, <4>3 DEF LocalCalls
      <4>5. QED
        BY <3>1, <4>1, <4>4 DEF LocalRead, journalVars
    <3>2. CASE LocalRefused(p)
      BY <3>2 DEF LocalRefused, journalVars, NoLocalCall
    <3>3. QED
      BY <1>8, <3>1, <3>2
  <2>3. PICK l \in LocalCalls \cup {NoLocalCall} :
          l.pc # "commit" /\ local' = [local EXCEPT ![p] = l]
    BY <2>2
  <2>4. \A q \in Pids : local'[q] = IF q = p THEN l ELSE local[q]
    BY <1>0, <2>3 DEF ProcTypeOK
  <2>5. \A q \in Pids : ClaimsOf(q)' \subseteq ClaimsOf(q)
    BY <2>2, <2>3, <2>4 DEF ClaimsOf
  <2>6. ClaimsGenuine' /\ OpenClaimsNewest'
    BY <2>2, <2>5 DEF WorkersInv, ClaimsGenuine, Genuine, OpenClaimsNewest, Newest
  <2>7. LocalUntouched'
    BY <2>2, <2>3, <2>4 DEF WorkersInv, LocalUntouched
  <2>8. ProcTypeOK'
    BY <1>0, <2>2, <2>3 DEF ProcTypeOK
  <2>9. DeadHoldNothing'
    BY <2>2, <2>4 DEF WorkersInv, DeadHoldNothing
  <2>10. QED
    BY <2>1, <2>6, <2>7, <2>8, <2>9 DEF WorkersInv, Preserved
<1>9. ASSUME NEW p \in Pids, LocalAcquire(p) PROVE WorkersInv' /\ Preserved
  <2> DEFINE l == local[p]
  <2>1. /\ l \in [pc: {"acquire"}, task: Tasks, input: Inputs, output: Outputs,
                  worker: Workers, seen: {"planned", "claimed", "failed"}]
        /\ p \in running
    BY <1>0, <1>9 DEF LocalAcquire, ProcTypeOK, LocalCalls, NoLocalCall
  <2>2. PICK c : c = IssuedClaim(l.task, l.worker, l.input)
    OBVIOUS
  <2>3. /\ UNCHANGED <<running, held>>
        /\ local' = [local EXCEPT ![p] =
             [pc |-> "commit", output |-> l.output, claim |-> c]]
    BY <1>9, <2>2 DEF LocalAcquire
  <2>4. PICK row : Issue(l.task, row, l.worker, l.input, p)
    BY <1>9 DEF LocalAcquire, Claim, TakeoverStaleClaim
  <2>5. \/ CanClaim(l.task, l.input)
        \/ \E exited \in SeenExited : CanTakeOver(l.task, l.input, exited)
    BY <1>9 DEF LocalAcquire, Claim, TakeoverStaleClaim
  <2>6. Preserved
    BY <1>0, <1>9, <2>1, ClaimPreserves, TakeoverPreserves DEF LocalAcquire
  <2>7. \A q \in Pids : /\ q = p => /\ local'[q].pc = "commit"
                                    /\ local'[q].claim = c
                        /\ q # p => local'[q] = local[q]
    BY <1>0, <2>3 DEF ProcTypeOK
  <2>8. \A q \in Pids : \A d \in ClaimsOf(q)' : d \in ClaimsOf(q) \/ (q = p /\ d = c)
    BY <2>3, <2>7 DEF ClaimsOf
  <2>9. /\ ClaimsGenuine' /\ OpenClaimsNewest'
        /\ c \in Claims /\ c.attempt \notin DOMAIN attempts
        /\ attempts'[c.attempt].outcome = "claimed"
        /\ \A m \in DOMAIN attempts : attempts'[m] = attempts[m]
    <3>1. l.task \in Tasks /\ l.worker \in Workers /\ l.input \in Inputs
      BY <2>1
    <3> HIDE DEF l
    <3>2. QED
      BY <2>1, <2>2, <2>3, <2>4, <2>5, <2>6, <2>8, <3>1, IssueStep
  <2>10. ProcTypeOK'
    <3>1. [pc |-> "commit", output |-> l.output, claim |-> c] \in LocalCalls
      BY <2>1, <2>9 DEF LocalCalls
    <3>2. QED
      BY <1>0, <2>3, <3>1 DEF ProcTypeOK
  <2>11. DeadHoldNothing'
    BY <2>1, <2>3, <2>7 DEF WorkersInv, DeadHoldNothing
  <2>12. LocalUntouched'
    <3> SUFFICES ASSUME NEW q \in Pids, local'[q].pc = "commit"
                 PROVE  /\ attempts'[local'[q].claim.attempt].outcome = "claimed"
                        /\ \A d \in held'[q] : d.attempt # local'[q].claim.attempt
      BY DEF LocalUntouched
    <3>1. CASE q = p
      <4>1. \A d \in held[p] : d.attempt \in DOMAIN attempts
        BY <1>0, <2>1 DEF WorkersInv, ClaimsGenuine, Genuine, ClaimsOf
      <4>2. QED
        BY <3>1, <4>1, <2>3, <2>7, <2>9
    <3>2. CASE q # p
      <4>1. local'[q] = local[q] /\ held'[q] = held[q]
        BY <3>2, <2>3, <2>7
      <4>2. /\ attempts[local[q].claim.attempt].outcome = "claimed"
            /\ \A d \in held[q] : d.attempt # local[q].claim.attempt
            /\ local[q].claim \in ClaimsOf(q)
        BY <4>1 DEF WorkersInv, LocalUntouched, ClaimsOf
      <4>3. local[q].claim.attempt \in DOMAIN attempts
        BY <4>2 DEF WorkersInv, ClaimsGenuine, Genuine
      <4>4. QED
        BY <4>1, <4>2, <4>3, <2>9
    <3>3. QED
      BY <3>1, <3>2
  <2>13. QED
    BY <2>6, <2>9, <2>10, <2>11, <2>12 DEF WorkersInv, Preserved
<1>10. ASSUME NEW p \in Pids, LocalCommit(p) PROVE WorkersInv' /\ Preserved
  <2> DEFINE c == local[p].claim
  <2>1. /\ p \in running /\ local[p].pc = "commit" /\ Commit(c, local[p].output)
        /\ local' = [local EXCEPT ![p] = NoLocalCall] /\ UNCHANGED <<running, held>>
    BY <1>10 DEF LocalCommit
  <2>2. local[p].output \in Outputs
    BY <1>0, <2>1 DEF ProcTypeOK, LocalCalls, NoLocalCall
  <2>3. c \in ClaimsOf(p) /\ Genuine(c) /\ attempts[c.attempt].pid = p
    BY <2>1 DEF WorkersInv, ClaimsGenuine, ClaimsOf
  <2>4. /\ Preserved
        /\ DOMAIN attempts' = DOMAIN attempts
        /\ \A m \in DOMAIN attempts : m # c.attempt => attempts'[m] = attempts[m]
    BY <1>0, <2>1, <2>2, <2>3, MoveTouchesOne
  <2>5. \A q \in Pids : local'[q] = IF q = p THEN NoLocalCall ELSE local[q]
    BY <1>0, <2>1 DEF ProcTypeOK
  <2>6. \A q \in Pids : ClaimsOf(q)' \subseteq ClaimsOf(q)
    BY <2>1, <2>5 DEF ClaimsOf, NoLocalCall
  <2>7. ProcTypeOK'
    BY <1>0, <2>1 DEF ProcTypeOK
  <2>8. DeadHoldNothing'
    BY <2>1, <2>5 DEF WorkersInv, DeadHoldNothing
  <2>9. ClaimsGenuine'
    <3> SUFFICES ASSUME NEW q \in Pids, NEW d \in ClaimsOf(q)
                 PROVE  Genuine(d)' /\ attempts'[d.attempt].pid = q
      BY <2>6 DEF ClaimsGenuine
    <3>1. Genuine(d) /\ attempts[d.attempt].pid = q
      BY DEF WorkersInv, ClaimsGenuine
    <3>2. QED
      BY <3>1, <2>4, GenuinePersists DEF Genuine, AttemptsGrow, Preserved
  <2>10. OpenClaimsNewest'
    <3> SUFFICES ASSUME NEW q \in Pids, NEW d \in ClaimsOf(q),
                        attempts'[d.attempt].outcome \in Active
                 PROVE  Newest(d)'
      BY <2>6 DEF OpenClaimsNewest
    <3>1. d.attempt \in DOMAIN attempts
      BY DEF WorkersInv, ClaimsGenuine, Genuine
    <3>2. Newest(d)
      BY <1>0, <2>4, <3>1, OpenWasOpen DEF WorkersInv, OpenClaimsNewest
    <3>3. QED
      BY <3>2, <2>4 DEF Newest, Preserved, AttemptsGrow
  <2>11. LocalUntouched'
    <3> SUFFICES ASSUME NEW q \in Pids, q # p, local[q].pc = "commit"
                 PROVE  /\ attempts'[local[q].claim.attempt].outcome = "claimed"
                        /\ \A d \in held[q] : d.attempt # local[q].claim.attempt
      BY <2>1, <2>5 DEF LocalUntouched, NoLocalCall
    <3>1. /\ attempts[local[q].claim.attempt].outcome = "claimed"
          /\ \A d \in held[q] : d.attempt # local[q].claim.attempt
      BY DEF WorkersInv, LocalUntouched
    <3>2. /\ local[q].claim.attempt \in DOMAIN attempts
          /\ attempts[local[q].claim.attempt].pid = q
      BY DEF WorkersInv, ClaimsGenuine, Genuine, ClaimsOf
    <3>3. local[q].claim.attempt # c.attempt
      BY <2>3, <3>2
    <3>4. QED
      BY <2>4, <3>1, <3>2, <3>3
  <2>12. QED
    BY <2>4, <2>7, <2>8, <2>9, <2>10, <2>11 DEF WorkersInv, Preserved
<1>11. CASE UNCHANGED workersVars
  <2>1. UNCHANGED journalVars /\ UNCHANGED procVars
    BY <1>11 DEF workersVars, journalVars, procVars
  <2>2. Preserved
    BY <1>0, <2>1, UnchangedPreserves
  <2>3. QED
    BY <2>1, <2>2, QuietStep DEF journalVars, WorkersInv, LocalUntouched
<1>12. QED
  BY <1>1, <1>2, <1>3, <1>4, <1>5, <1>6, <1>7, <1>8, <1>9, <1>10, <1>11
     DEF WorkersNext, ProcessStep

(* The invariant holds in every reachable state.                           *)
THEOREM WorkersInductive == WorkersSpec => []WorkersInv
<1>1. WorkersInv /\ [WorkersNext]_workersVars => WorkersInv'
  BY WorkersStepInv
<1>2. QED
  BY WorkersInitInv, <1>1, PTL DEF WorkersSpec

(* Every column, token and process record keeps its type.                  *)
THEOREM WorkersTypeCorrect == WorkersSpec => []WorkersTypeOK
<1>1. WorkersInv => WorkersTypeOK
  BY DEF WorkersInv, JournalInv, WorkersTypeOK
<1>2. QED
  BY WorkersInductive, <1>1, PTL

(* Whatever the processes do, token and attempt numbers agree, the row     *)
(* agrees with its current attempt, a task dispatches at most once, and a  *)
(* superseded attempt never dispatched.                                    *)
THEOREM LedgerSafe ==
  WorkersSpec => [](/\ TokensNumberAttempts
             /\ RowMatchesAttempt
             /\ DispatchedOnce
             /\ SupersededNeverDispatched)
<1>1. WorkersInv => /\ TokensNumberAttempts
              /\ RowMatchesAttempt
              /\ DispatchedOnce
              /\ SupersededNeverDispatched
  BY DEF WorkersInv, JournalInv
<1>2. QED
  BY WorkersInductive, <1>1, PTL

(* A running process is never fenced out of a claim it has not finished.   *)
THEOREM LiveHolderSafe == WorkersSpec => []LiveHolderNotFenced
<1>1. WorkersInv => LiveHolderNotFenced
  <2> SUFFICES ASSUME WorkersInv, NEW p \in running, NEW c \in ClaimsOf(p),
                      attempts[c.attempt].outcome \in Active
               PROVE  /\ tasks[c.task].token = c.token
                      /\ tasks[c.task].state \in Active
    BY DEF LiveHolderNotFenced
  <2>1. p \in Pids
    BY DEF WorkersInv, ProcTypeOK
  <2>2. Genuine(c) /\ Newest(c)
    BY <2>1 DEF WorkersInv, ClaimsGenuine, OpenClaimsNewest
  <2>3. QED
    BY <2>2, NewestIsCurrent DEF WorkersInv
<1>2. QED
  BY WorkersInductive, <1>1, PTL

(* complete_existing_local_task is never refused its own commit.           *)
THEOREM LocalCompletionSafe == WorkersSpec => []LocalCommitAccepted
<1>1. WorkersInv => LocalCommitAccepted
  <2> SUFFICES ASSUME WorkersInv, NEW p \in Pids, local[p].pc = "commit",
                      NEW c, c = local[p].claim
               PROVE  Fenced(c) /\ tasks[c.task].state = "claimed"
    BY DEF LocalCommitAccepted
  <2>1. c \in ClaimsOf(p) /\ attempts[c.attempt].outcome = "claimed"
    BY DEF WorkersInv, LocalUntouched, ClaimsOf
  <2>2. Genuine(c) /\ Newest(c)
    BY <2>1 DEF WorkersInv, ClaimsGenuine, OpenClaimsNewest, Active
  <2>3. QED
    BY <2>1, <2>2, NewestIsCurrent DEF WorkersInv, Fenced, Genuine
<1>2. QED
  BY WorkersInductive, <1>1, PTL

(* No step moves a final row or a closed attempt.                          *)
THEOREM FinalStays == WorkersSpec => TerminalImmutable
<1>1. WorkersInv /\ [WorkersNext]_workersVars => [TerminalStep]_journalVars
  BY WorkersStepInv DEF Preserved
<1>2. QED
  BY WorkersInductive, <1>1, PTL DEF WorkersSpec, TerminalImmutable
-----------------------------------------------------------------------------
(* The ledger implements OnceOnly.                                         *)

phaseBar == [t \in Tasks |-> Phase(tasks[t])]
sentBar == [t \in Tasks |-> tasks[t].ext]

(* A step that leaves the phase and the dispatch count of every task.      *)
LEMMA PhaseKept ==
  ASSUME \A t \in Tasks : /\ Phase(tasks'[t]) = Phase(tasks[t])
                          /\ tasks'[t].ext = tasks[t].ext
  PROVE  phaseBar' = phaseBar /\ sentBar' = sentBar
BY DEF phaseBar, sentBar, Phase

(* Issuing a token leaves the task open.                                   *)
LEMMA IssueKeepsPhase ==
  ASSUME JournalInv, NEW t \in Tasks, NEW row \in Row, NEW w \in Workers,
         NEW i \in Inputs, NEW p \in Pids, row.ext = 0, tasks[t].ext = 0,
         Phase(tasks[t]) = "open", Issue(t, row, w, i, p)
  PROVE  phaseBar' = phaseBar /\ sentBar' = sentBar
<1>1. PICK r : r = [row EXCEPT !.state = "claimed", !.token = lastToken + 1,
                               !.worker = w, !.pid = p]
  OBVIOUS
<1>2. r.state = "claimed" /\ r.ext = 0
  BY <1>1 DEF Row
<1>3. \A u \in Tasks : tasks'[u] = IF u = t THEN r ELSE tasks[u]
  BY <1>1 DEF Issue, JournalInv, JournalTypeOK
<1>4. QED
  BY <1>2, <1>3, PhaseKept DEF Phase

(* Replacing one row replaces one phase and one count.                     *)
LEMMA RowPhase ==
  ASSUME JournalInv, NEW t \in Tasks, NEW r, tasks' = [tasks EXCEPT ![t] = r]
  PROVE  /\ phaseBar' = [phaseBar EXCEPT ![t] = Phase(r)]
         /\ sentBar' = [sentBar EXCEPT ![t] = r.ext]
         /\ r.ext = tasks[t].ext => sentBar' = sentBar
         /\ Phase(r) = Phase(tasks[t]) => phaseBar' = phaseBar
         /\ phaseBar[t] = Phase(tasks[t]) /\ sentBar[t] = tasks[t].ext
<1>1. \A u \in Tasks : tasks'[u] = IF u = t THEN r ELSE tasks[u]
  BY DEF JournalInv, JournalTypeOK
<1>2. /\ phaseBar = [u \in Tasks |-> phaseBar[u]]
      /\ phaseBar' = [u \in Tasks |-> phaseBar'[u]]
      /\ sentBar = [u \in Tasks |-> sentBar[u]]
      /\ sentBar' = [u \in Tasks |-> sentBar'[u]]
  BY DEF phaseBar, sentBar
<1>3. \A u \in Tasks : /\ phaseBar[u] = Phase(tasks[u])
                        /\ sentBar[u] = tasks[u].ext
                        /\ sentBar'[u] = tasks'[u].ext
  BY DEF phaseBar, sentBar
<1>4. \A u \in Tasks : phaseBar'[u] = Phase(tasks'[u])
  BY DEF phaseBar, Phase
<1>5. \A u \in Tasks :
        /\ phaseBar'[u] = IF u = t THEN Phase(r) ELSE phaseBar[u]
        /\ sentBar'[u] = IF u = t THEN r.ext ELSE sentBar[u]
  BY <1>1, <1>3, <1>4
<1>6. QED
  BY <1>2, <1>3, <1>5

(* A claim-fenced move of one task sends, decides, or leaves it open.      *)
LEMMA MovePhase ==
  ASSUME JournalInv, NEW c, Genuine(c),
         \/ RecordDispatch(c)
         \/ \E o \in Outputs : Commit(c, o)
         \/ \E s \in {"failed", "outcome_unknown"} : RecordFailure(c, s)
  PROVE  \/ Abstract!Send(c.task)
         \/ \E v \in Abstract!Verdicts : Abstract!Decide(c.task, v)
         \/ phaseBar' = phaseBar /\ sentBar' = sentBar
<1>1. PICK t : t = c.task
  OBVIOUS
<1>2. /\ t \in Tasks /\ tasks[t] \in Row
      /\ tasks[t].state = "claimed" => tasks[t].ext = 0
      /\ tasks[t].state = "dispatch_recorded" => tasks[t].ext = 1
  <2>1. Fenced(c)
    BY DEF RecordDispatch, Commit, RecordFailure
  <2>2. QED
    BY <1>1, <2>1, FencedFacts, RowFacts DEF JournalInv, DispatchedOnce
<1>3. CASE RecordDispatch(c)
  <2>1. PICK r : r = [tasks[t] EXCEPT !.state = "dispatch_recorded",
                                      !.ext = tasks[t].ext + 1]
    OBVIOUS
  <2>2. r.state = "dispatch_recorded" /\ r.ext = tasks[t].ext + 1
    BY <1>2, <2>1 DEF Row
  <2>3. tasks' = [tasks EXCEPT ![t] = r] /\ tasks[t].state = "claimed"
    BY <1>1, <1>3, <2>1 DEF RecordDispatch
  <2>4. Phase(r) = "inflight" /\ Phase(tasks[t]) = "open"
    BY <2>2, <2>3 DEF Phase
  <2>5. /\ phaseBar[t] = "open"
        /\ phaseBar' = [phaseBar EXCEPT ![t] = "inflight"]
        /\ sentBar' = [sentBar EXCEPT ![t] = sentBar[t] + 1]
    <3>1. /\ phaseBar' = [phaseBar EXCEPT ![t] = Phase(r)]
          /\ sentBar' = [sentBar EXCEPT ![t] = r.ext]
          /\ phaseBar[t] = Phase(tasks[t]) /\ sentBar[t] = tasks[t].ext
      BY <1>2, <2>3, RowPhase, Zenon
    <3>2. QED
      BY <2>2, <2>4, <3>1
  <2>6. QED
    BY <1>1, <2>5 DEF Abstract!Send, phaseBar, sentBar
<1>4. ASSUME NEW v \in {"succeeded", "failed", "outcome_unknown"}, NEW r,
             tasks' = [tasks EXCEPT ![t] = r], r.state = v,
             r.ext = tasks[t].ext, tasks[t].state \in Active
      PROVE  Abstract!Decide(t, v) \/ (phaseBar' = phaseBar /\ sentBar' = sentBar)
  <2>1. /\ phaseBar' = [phaseBar EXCEPT ![t] = Phase(r)]
        /\ r.ext = tasks[t].ext => sentBar' = sentBar
        /\ Phase(r) = Phase(tasks[t]) => phaseBar' = phaseBar
        /\ phaseBar[t] = Phase(tasks[t])
    <3>1. t \in Tasks /\ tasks' = [tasks EXCEPT ![t] = r]
      BY <1>2, <1>4
    <3>2. QED
      BY <3>1, RowPhase, Zenon
  <2>2. CASE tasks[t].state = "claimed" /\ v = "failed"
    <3>1. Phase(r) = "open" /\ Phase(tasks[t]) = "open"
      BY <1>2, <1>4, <2>2 DEF Phase
    <3>2. QED
      BY <1>4, <2>1, <3>1
  <2>3. CASE tasks[t].state = "dispatch_recorded" \/ v # "failed"
    <3>1. /\ Phase(r) = v
          /\ \/ Phase(tasks[t]) = "inflight"
             \/ Phase(tasks[t]) = "open" /\ v # "failed"
      BY <1>2, <1>4, <2>3 DEF Phase, Active
    <3>2. /\ phaseBar' = [phaseBar EXCEPT ![t] = v]
          /\ phaseBar[t] = Phase(tasks[t])
      BY <2>1, <3>1
    <3>3. QED
      BY <1>4, <2>1, <3>1, <3>2 DEF Abstract!Decide, phaseBar, sentBar
  <2>4. QED
    BY <1>4, <2>2, <2>3 DEF Active
<1>5. ASSUME NEW o \in Outputs, Commit(c, o)
      PROVE  Abstract!Decide(t, "succeeded")
             \/ (phaseBar' = phaseBar /\ sentBar' = sentBar)
  <2>1. PICK r : r = [tasks[t] EXCEPT !.state = "succeeded", !.output = o]
    OBVIOUS
  <2>2. r.state = "succeeded" /\ r.ext = tasks[t].ext
    BY <1>2, <2>1 DEF Row
  <2>3. tasks' = [tasks EXCEPT ![t] = r] /\ tasks[t].state \in Active
    BY <1>1, <1>5, <2>1 DEF Commit
  <2>4. QED
    BY <1>4, <2>2, <2>3
<1>6. ASSUME NEW s \in {"failed", "outcome_unknown"}, RecordFailure(c, s)
      PROVE  Abstract!Decide(t, s) \/ (phaseBar' = phaseBar /\ sentBar' = sentBar)
  <2>1. PICK r : r = [tasks[t] EXCEPT !.state = s]
    OBVIOUS
  <2>2. r.state = s /\ r.ext = tasks[t].ext
    BY <1>2, <2>1 DEF Row
  <2>3. tasks' = [tasks EXCEPT ![t] = r] /\ tasks[t].state \in Active
    BY <1>1, <1>6, <2>1 DEF RecordFailure
  <2>4. QED
    BY <1>4, <2>2, <2>3
<1>7. QED
  BY <1>1, <1>3, <1>5, <1>6 DEF Abstract!Verdicts

(* A recovery pass gives up exactly the tasks it freezes.                  *)
LEMMA RecoverPhase ==
  ASSUME JournalInv, NEW scope \in SUBSET Tasks, NEW exited, NEW manual,
         RecoverDispatchedUnknown(scope, exited, manual)
  PROVE  \E lost \in SUBSET Tasks : Abstract!GiveUp(lost)
<1>1. PICK lost : lost = Recoverable(scope, exited, manual)
  OBVIOUS
<1>2. /\ lost \in SUBSET Tasks
      /\ \A t \in lost : tasks[t].state = "dispatch_recorded"
  BY <1>1 DEF Recoverable
<1>3. \A t \in Tasks :
        tasks'[t] = IF t \in lost THEN [tasks[t] EXCEPT !.state = "outcome_unknown"]
                                  ELSE tasks[t]
  BY <1>1 DEF RecoverDispatchedUnknown
<1>4. \A t \in Tasks :
        /\ Phase(tasks'[t]) = IF t \in lost THEN "outcome_unknown"
                                            ELSE Phase(tasks[t])
        /\ tasks'[t].ext = tasks[t].ext
  <2> SUFFICES ASSUME NEW t \in Tasks
               PROVE  /\ Phase(tasks'[t]) = IF t \in lost THEN "outcome_unknown"
                                                          ELSE Phase(tasks[t])
                      /\ tasks'[t].ext = tasks[t].ext
    OBVIOUS
  <2>1. PICK r : r = [tasks[t] EXCEPT !.state = "outcome_unknown"]
    OBVIOUS
  <2>2. r.state = "outcome_unknown" /\ r.ext = tasks[t].ext
    BY <2>1, RowFacts DEF Row
  <2>3. tasks'[t] = IF t \in lost THEN r ELSE tasks[t]
    BY <1>3, <2>1
  <2>4. QED
    BY <2>2, <2>3 DEF Phase
<1>5. /\ phaseBar' = [t \in Tasks |->
           IF t \in lost THEN "outcome_unknown" ELSE phaseBar[t]]
      /\ sentBar' = sentBar
  BY <1>4 DEF phaseBar, sentBar
<1>6. \A t \in lost : phaseBar[t] = "inflight"
  BY <1>2 DEF phaseBar, Phase
<1>7. Abstract!GiveUp(lost)
  BY <1>5, <1>6 DEF Abstract!GiveUp, phaseBar, sentBar
<1>8. QED
  BY <1>2, <1>7

(* A claim keeps its task open.                                            *)
LEMMA ClaimKeepsPhase ==
  ASSUME JournalInv, NEW t \in Tasks, NEW w \in Workers, NEW i \in Inputs,
         NEW p \in Pids, Claim(t, w, i, p)
  PROVE  phaseBar' = phaseBar /\ sentBar' = sentBar
<1>1. Planned(i) \in Row
  BY MaxTokensAssumption DEF Planned, Row, States
<1>2. RowOrPlanned(t, i) \in Row /\ RowOrPlanned(t, i).ext = 0
  BY <1>1, RowFacts DEF RowOrPlanned, Claim, CanClaim
<1>3. tasks[t].ext = 0 /\ Phase(tasks[t]) = "open"
  <2>1. tasks[t].state = "absent" => tasks[t].ext = 0
    BY DEF JournalInv, DispatchedOnce
  <2>2. tasks[t].state \in {"absent", "planned", "failed"}
    BY DEF Claim, CanClaim, RowOrPlanned, Claimable
  <2>3. tasks[t].state # "absent" => tasks[t].ext = 0
    BY DEF Claim, CanClaim, RowOrPlanned
  <2>4. QED
    BY <2>1, <2>2, <2>3 DEF Phase
<1>4. Issue(t, RowOrPlanned(t, i), w, i, p)
  BY DEF Claim
<1>5. QED
  BY <1>2, <1>3, <1>4, IssueKeepsPhase

(* So does a takeover.                                                     *)
LEMMA TakeoverKeepsPhase ==
  ASSUME JournalInv, NEW t \in Tasks, NEW w \in Workers, NEW i \in Inputs,
         NEW p \in Pids, NEW exited, TakeoverStaleClaim(t, w, i, p, exited)
  PROVE  phaseBar' = phaseBar /\ sentBar' = sentBar
<1>1. /\ tasks[t] \in Row /\ tasks[t].ext = 0 /\ tasks[t].state = "claimed"
      /\ Issue(t, tasks[t], w, i, p)
  BY RowFacts DEF TakeoverStaleClaim, CanTakeOver
<1>2. Phase(tasks[t]) = "open"
  BY <1>1 DEF Phase
<1>3. QED
  BY <1>1, <1>2, IssueKeepsPhase

(* Every step of the ledger maps to a step of OnceOnly or to a stutter.    *)
LEMMA WorkersStepMaps ==
  WorkersInv /\ [WorkersNext]_workersVars => [Abstract!Next]_<<phaseBar, sentBar>>
<1> SUFFICES ASSUME WorkersInv, [WorkersNext]_workersVars
             PROVE  \/ Abstract!Next
                    \/ phaseBar' = phaseBar /\ sentBar' = sentBar
  OBVIOUS
<1>0. JournalInv /\ ProcTypeOK /\ running \subseteq Pids
  BY DEF WorkersInv, ProcTypeOK
<1>1. CASE UNCHANGED tasks
  BY <1>1, PhaseKept DEF Phase
<1>2. ASSUME NEW p \in Pids, CallEnsure(p)
      PROVE  phaseBar' = phaseBar /\ sentBar' = sentBar
  <2>1. PICK t \in Tasks, i \in Inputs : EnsureTask(t, i)
    BY <1>2 DEF CallEnsure
  <2>2. \A u \in Tasks :
          \/ tasks'[u] = tasks[u]
          \/ u = t /\ tasks[t].state = "absent" /\ tasks'[u] = Planned(i)
    BY <1>0, <2>1 DEF EnsureTask, RowOrPlanned, JournalInv, JournalTypeOK
  <2>3. Phase(Planned(i)) = "open" /\ Planned(i).ext = 0
    BY DEF Phase, Planned
  <2>4. tasks[t].state = "absent" => Phase(tasks[t]) = "open" /\ tasks[t].ext = 0
    BY <1>0 DEF Phase, JournalInv, DispatchedOnce
  <2>5. \A u \in Tasks : /\ Phase(tasks'[u]) = Phase(tasks[u])
                          /\ tasks'[u].ext = tasks[u].ext
    BY <2>2, <2>3, <2>4
  <2>6. QED
    BY <2>5, PhaseKept
<1>3. ASSUME NEW p \in Pids, CallClaim(p)
      PROVE  phaseBar' = phaseBar /\ sentBar' = sentBar
  BY <1>0, <1>3, ClaimKeepsPhase DEF CallClaim
<1>4. ASSUME NEW p \in Pids, CallTakeover(p)
      PROVE  phaseBar' = phaseBar /\ sentBar' = sentBar
  BY <1>0, <1>4, TakeoverKeepsPhase DEF CallTakeover
<1>5. ASSUME NEW c, Genuine(c),
             \/ RecordDispatch(c)
             \/ \E o \in Outputs : Commit(c, o)
             \/ \E s \in {"failed", "outcome_unknown"} : RecordFailure(c, s)
      PROVE  Abstract!Next \/ (phaseBar' = phaseBar /\ sentBar' = sentBar)
  <2>1. c.task \in Tasks
    BY <1>0, <1>5, FencedFacts DEF RecordDispatch, Commit, RecordFailure
  <2>2. QED
    BY <1>0, <1>5, <2>1, MovePhase DEF Abstract!Next
<1>6. ASSUME NEW p \in Pids, CallDispatch(p) \/ CallCommit(p) \/ CallFailure(p)
      PROVE  Abstract!Next \/ (phaseBar' = phaseBar /\ sentBar' = sentBar)
  <2>1. PICK c \in held[p] :
          \/ RecordDispatch(c)
          \/ \E o \in Outputs : Commit(c, o)
          \/ \E s \in {"failed", "outcome_unknown"} : RecordFailure(c, s)
    BY <1>6 DEF CallDispatch, CallCommit, CallFailure
  <2>2. Genuine(c)
    BY DEF WorkersInv, ClaimsGenuine, ClaimsOf
  <2>3. QED
    BY <1>5, <2>1, <2>2
<1>7. ASSUME NEW p \in Pids, LocalCommit(p)
      PROVE  Abstract!Next \/ (phaseBar' = phaseBar /\ sentBar' = sentBar)
  <2>1. /\ local[p].pc = "commit"
        /\ Commit(local[p].claim, local[p].output)
    BY <1>7 DEF LocalCommit
  <2>2. local[p].output \in Outputs
    BY <1>0, <2>1 DEF ProcTypeOK, LocalCalls, NoLocalCall
  <2>3. Genuine(local[p].claim)
    BY <2>1 DEF WorkersInv, ClaimsGenuine, ClaimsOf
  <2>4. QED
    BY <1>5, <2>1, <2>2, <2>3
<1>8. ASSUME NEW p \in Pids, LocalAcquire(p)
      PROVE  phaseBar' = phaseBar /\ sentBar' = sentBar
  <2>1. /\ local[p].task \in Tasks /\ local[p].worker \in Workers
        /\ local[p].input \in Inputs
    BY <1>0, <1>8 DEF LocalAcquire, ProcTypeOK, LocalCalls, NoLocalCall
  <2>2. \/ Claim(local[p].task, local[p].worker, local[p].input, p)
        \/ \E exited \in SeenExited :
             TakeoverStaleClaim(local[p].task, local[p].worker, local[p].input,
                                p, exited)
    BY <1>8 DEF LocalAcquire
  <2>3. QED
    BY <1>0, <2>1, <2>2, ClaimKeepsPhase, TakeoverKeepsPhase
<1>9. ASSUME NEW p \in Pids, CallRecover(p) PROVE Abstract!Next
  <2>1. PICK scope \in {{t} : t \in Tasks} \cup {Tasks},
             exited \in SeenExited, manual \in BOOLEAN :
          RecoverDispatchedUnknown(scope, exited, manual)
    BY <1>9 DEF CallRecover
  <2>2. scope \in SUBSET Tasks
    OBVIOUS
  <2>3. QED
    BY <1>0, <2>1, <2>2, RecoverPhase DEF Abstract!Next
<1>10. ASSUME NEW p \in Pids,
              WorkerStart(p) \/ WorkerExit(p) \/ LocalRead(p) \/ LocalRefused(p)
       PROVE  UNCHANGED tasks
  BY <1>10 DEF WorkerStart, WorkerExit, LocalRead, LocalRefused, journalVars
<1>11. QED
  BY <1>1, <1>2, <1>3, <1>4, <1>6, <1>7, <1>8, <1>9, <1>10
     DEF WorkersNext, ProcessStep, workersVars

(* Initial states map to initial states.                                   *)
LEMMA WorkersInitMaps == WorkersInit => Abstract!Init
<1> SUFFICES ASSUME WorkersInit PROVE Abstract!Init
  OBVIOUS
<1>1. \A t \in Tasks :
        /\ tasks[t].state \in {"absent", "claimed", "dispatch_recorded"}
        /\ tasks[t].ext = IF tasks[t].state = "dispatch_recorded" THEN 1 ELSE 0
  <2>1. CASE Fresh
    BY <2>1 DEF Fresh, NoRow
  <2>2. CASE Legacy
    <3>1. PICK t \in Tasks, w \in Workers, i \in Inputs, s \in Active :
            /\ MaxTokens > 0
            /\ tasks = [u \in Tasks |->
                 IF u = t
                 THEN [NoRow EXCEPT !.state = s, !.token = 1, !.worker = w,
                                    !.input = i,
                                    !.ext = IF s = "claimed" THEN 0 ELSE 1]
                 ELSE NoRow]
            /\ attempts = <<[task |-> t, token |-> 1, worker |-> w, pid |-> None,
                             input |-> i, outcome |-> s]>>
            /\ lastToken = 1
      BY <2>2 DEF Legacy
    <3>2. \A u \in Tasks :
            /\ u # t => tasks[u] = NoRow
            /\ u = t => /\ tasks[u].state = s
                       /\ tasks[u].ext = IF s = "claimed" THEN 0 ELSE 1
      BY <3>1 DEF NoRow
    <3>3. QED
      BY <3>2 DEF NoRow, Active
  <2>3. QED
    BY <2>1, <2>2 DEF WorkersInit, JournalInit
<1>2. \A t \in Tasks :
        /\ Phase(tasks[t]) \in {"open", "inflight"}
        /\ tasks[t].ext = IF Phase(tasks[t]) = "inflight" THEN 1 ELSE 0
  BY <1>1 DEF Phase
<1>3. QED
  BY <1>2 DEF Abstract!Init

(* The ledger with its processes implements the exactly-once promise: at   *)
(* most one external action per task, put on record before it is made, and *)
(* at most one verdict.                                                    *)
THEOREM Refines == WorkersSpec => ImplementsOnceOnly
<1>1. WorkersInit => Abstract!Init
  BY WorkersInitMaps
<1>2. WorkersInv /\ [WorkersNext]_workersVars => [Abstract!Next]_<<phaseBar, sentBar>>
  BY WorkersStepMaps
<1>3. QED
  BY WorkersInductive, <1>1, <1>2, PTL
     DEF WorkersSpec, ImplementsOnceOnly, Abstract!Spec, phaseBar, sentBar
=============================================================================
