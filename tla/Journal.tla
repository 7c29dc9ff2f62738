------------------------------- MODULE Journal -------------------------------
(***************************************************************************)
(* The task ledger (journal.py): the tables tasks, task_attempts,          *)
(* token_sequence and takeover_events, and one action per write            *)
(* transaction of class Journal.  Every transaction is BEGIN IMMEDIATE, so *)
(* it is one atomic step; a rejected one rolls back and is no step at all. *)
(*                                                                         *)
(* The module has no processes: a transaction takes as arguments the claim *)
(* its caller holds and the process ids the operating system reports as    *)
(* exited.  JournalWorkers, ProductSession and ProviderGateway bring the   *)
(* callers.                                                                *)
(***************************************************************************)
EXTENDS Integers, Sequences

CONSTANTS
  Tasks,       \* task keys
  Workers,     \* worker ids
  Pids,        \* operating-system process ids
  Inputs,      \* input identities (digests)
  Outputs,     \* output references
  None,        \* SQL NULL
  MaxTokens    \* bound: tokens ever issued

ASSUME NoneAssumption ==
  None \notin Workers \cup Pids \cup Inputs \cup Outputs
ASSUME MaxTokensAssumption == MaxTokens \in Nat

VARIABLES
  tasks,       \* [Tasks -> row]; state "absent" is a missing row
  attempts,    \* the task_attempts rows, attempt_no is the index
  lastToken,   \* token_sequence
  takeovers    \* the takeover_events rows, in order

journalVars == <<tasks, attempts, lastToken, takeovers>>

States == {"absent", "planned", "claimed", "dispatch_recorded",
           "succeeded", "failed", "outcome_unknown"}
Claimable == {"planned", "failed"}
Active    == {"claimed", "dispatch_recorded"}
Outcomes  == {"claimed", "dispatch_recorded",
              "succeeded", "failed", "outcome_unknown"}

Row == [state: States, token: 0..MaxTokens, worker: Workers \cup {None},
        pid: Pids \cup {None}, input: Inputs \cup {None},
        output: Outputs \cup {None}, ext: Nat]

Attempt == [task: Tasks, token: 1..MaxTokens, worker: Workers,
            pid: Pids \cup {None}, input: Inputs, outcome: Outcomes]

(* What claim() returns and every later call presents. *)
Claims == [task: Tasks, token: 1..MaxTokens, worker: Workers,
           input: Inputs, attempt: 1..MaxTokens]

NoRow == [state |-> "absent", token |-> 0, worker |-> None, pid |-> None,
          input |-> None, output |-> None, ext |-> 0]
Planned(i) ==
  [state |-> "planned", token |-> 0, worker |-> None, pid |-> None,
   input |-> i, output |-> None, ext |-> 0]

RowOrPlanned(t, i) == IF tasks[t].state = "absent" THEN Planned(i) ELSE tasks[t]

(***************************************************************************)
(* A case directory starts empty, or holds one task written before the     *)
(* lease columns existed: its owner_pid and claimed_at are NULL.  Those    *)
(* two columns are always written together, so pid = None stands for both. *)
(***************************************************************************)
Fresh ==
  /\ tasks = [t \in Tasks |-> NoRow]
  /\ attempts = <<>>
  /\ lastToken = 0

Legacy ==
  \E t \in Tasks, w \in Workers, i \in Inputs, s \in Active :
    /\ MaxTokens > 0
    /\ tasks = [u \in Tasks |->
         IF u = t
         THEN [NoRow EXCEPT !.state = s, !.token = 1, !.worker = w, !.input = i,
                            !.ext = IF s = "claimed" THEN 0 ELSE 1]
         ELSE NoRow]
    /\ attempts = <<[task |-> t, token |-> 1, worker |-> w, pid |-> None,
                     input |-> i, outcome |-> s]>>
    /\ lastToken = 1

JournalInit == (Fresh \/ Legacy) /\ takeovers = <<>>

-----------------------------------------------------------------------------
(* Writes shared by the transactions. *)

SetOutcome(n, from, to) ==
  IF n \in DOMAIN attempts /\ attempts[n].outcome \in from
  THEN [attempts EXCEPT ![n].outcome = to]
  ELSE attempts

(* A new token, the row that now belongs to it, and its attempt row. *)
Issue(t, row, w, i, p) ==
  /\ lastToken < MaxTokens
  /\ lastToken' = lastToken + 1
  /\ tasks' = [tasks EXCEPT ![t] =
       [row EXCEPT !.state = "claimed", !.token = lastToken + 1,
                   !.worker = w, !.pid = p]]
  /\ attempts' = Append(attempts,
       [task |-> t, token |-> lastToken + 1, worker |-> w, pid |-> p,
        input |-> i, outcome |-> "claimed"])

(* Mutant: the claim carries the token read before the update. *)
IssuedStaleToken(t, w, i) ==
  [task |-> t, token |-> lastToken, worker |-> w, input |-> i,
   attempt |-> Len(attempts) + 1]

(* The claim object returned by the step that issues it. *)
IssuedClaim(t, w, i) ==
  [task |-> t, token |-> lastToken + 1, worker |-> w, input |-> i,
   attempt |-> Len(attempts) + 1]

(* Mutant: worker and input identify the claim, the token is not compared. *)
FencedWithoutToken(c) ==
  /\ tasks[c.task].worker = c.worker
  /\ tasks[c.task].input = c.input

(* The WHERE clause of every conditional update made with a claim. *)
Fenced(c) ==
  /\ tasks[c.task].token = c.token
  /\ tasks[c.task].worker = c.worker
  /\ tasks[c.task].input = c.input

-----------------------------------------------------------------------------
(* The transactions. *)

EnsureTask(t, i) ==
  /\ tasks' = [tasks EXCEPT ![t] = RowOrPlanned(t, i)]
  /\ UNCHANGED <<attempts, lastToken, takeovers>>

(* Mutant: the state of the row is not checked. *)
CanClaimAnyState(t, i) ==
  LET row == RowOrPlanned(t, i) IN
  /\ row.ext = 0
  /\ row.input = i

CanClaim(t, i) ==
  LET row == RowOrPlanned(t, i) IN
  /\ row.state \in Claimable
  /\ row.ext = 0
  /\ row.input = i

Claim(t, w, i, p) ==
  /\ CanClaim(t, i)
  /\ Issue(t, RowOrPlanned(t, i), w, i, p)
  /\ UNCHANGED takeovers

(* Mutant: a dispatch already on record may be recorded again. *)
RecordDispatchAgain(c) ==
  /\ Fenced(c)
  /\ tasks[c.task].state \in Active
  /\ tasks' = [tasks EXCEPT ![c.task] =
       [tasks[c.task] EXCEPT !.state = "dispatch_recorded",
                             !.ext = tasks[c.task].ext + 1]]
  /\ attempts' = SetOutcome(c.attempt, {"claimed"}, "dispatch_recorded")
  /\ UNCHANGED <<lastToken, takeovers>>

RecordDispatch(c) ==
  /\ Fenced(c)
  /\ tasks[c.task].state = "claimed"
  /\ tasks' = [tasks EXCEPT ![c.task] =
       [tasks[c.task] EXCEPT !.state = "dispatch_recorded",
                             !.ext = tasks[c.task].ext + 1]]
  /\ attempts' = SetOutcome(c.attempt, {"claimed"}, "dispatch_recorded")
  /\ UNCHANGED <<lastToken, takeovers>>

(* Mutant: a late commit with the right token overwrites a final state. *)
CommitLate(c, o) ==
  /\ Fenced(c)
  /\ tasks' = [tasks EXCEPT ![c.task] =
       [tasks[c.task] EXCEPT !.state = "succeeded", !.output = o]]
  /\ attempts' = SetOutcome(c.attempt, Outcomes, "succeeded")
  /\ UNCHANGED <<lastToken, takeovers>>

Commit(c, o) ==
  /\ Fenced(c)
  /\ tasks[c.task].state \in Active
  /\ tasks' = [tasks EXCEPT ![c.task] =
       [tasks[c.task] EXCEPT !.state = "succeeded", !.output = o]]
  /\ attempts' = SetOutcome(c.attempt, Active, "succeeded")
  /\ UNCHANGED <<lastToken, takeovers>>

(* s is "failed", or "outcome_unknown" when the caller cannot tell. *)
RecordFailure(c, s) ==
  /\ s \in {"failed", "outcome_unknown"}
  /\ Fenced(c)
  /\ tasks[c.task].state \in Active
  /\ tasks' = [tasks EXCEPT ![c.task].state = s]
  /\ attempts' = SetOutcome(c.attempt, Active, s)
  /\ UNCHANGED <<lastToken, takeovers>>

(* Mutant: written evidence is enough, the owner's process is not looked up. *)
CanTakeOverOnEvidence(t, i, exited) ==
  /\ tasks[t].input = i
  /\ tasks[t].state = "claimed"
  /\ tasks[t].ext = 0

(* Only an undispatched claim of a process reported as exited. *)
CanTakeOver(t, i, exited) ==
  /\ tasks[t].input = i
  /\ tasks[t].state = "claimed"
  /\ tasks[t].ext = 0
  /\ tasks[t].pid \in exited

TakeoverStaleClaim(t, w, i, p, exited) ==
  /\ CanTakeOver(t, i, exited)
  /\ Issue(t, tasks[t], w, i, p)
  /\ takeovers' = Append(takeovers,
       [task |-> t, attempt |-> Len(attempts) + 1, worker |-> w,
        previousPid |-> tasks[t].pid])

(* Mutant: the pass does not look at the state of the row. *)
RecoverableAnyState(scope, exited, manual) ==
  {t \in scope : \/ tasks[t].pid \in exited
                 \/ manual /\ tasks[t].pid = None}

(* The rows a recovery pass over the tasks in scope freezes: the owner is  *)
(* reported exited, or there is no owner and the caller brings evidence.   *)
Recoverable(scope, exited, manual) ==
  {t \in scope : /\ tasks[t].state = "dispatch_recorded"
                 /\ \/ tasks[t].pid \in exited
                    \/ manual /\ tasks[t].pid = None}

RecoverDispatchedUnknown(scope, exited, manual) ==
  LET lost == Recoverable(scope, exited, manual) IN
  /\ tasks' = [t \in Tasks |->
       IF t \in lost THEN [tasks[t] EXCEPT !.state = "outcome_unknown"]
                     ELSE tasks[t]]
  /\ attempts' = [n \in DOMAIN attempts |->
       IF attempts[n].task \in lost /\ attempts[n].outcome = "dispatch_recorded"
       THEN [attempts[n] EXCEPT !.outcome = "outcome_unknown"]
       ELSE attempts[n]]
  /\ UNCHANGED <<lastToken, takeovers>>

-----------------------------------------------------------------------------
(***************************************************************************)
(* What the ledger promises, whoever calls it.                             *)
(***************************************************************************)

(* The columns hold what the schema lets them hold; a token number never   *)
(* exceeds the sequence that issues it.                                    *)
JournalTypeOK ==
  /\ tasks \in [Tasks -> Row]
  /\ attempts \in Seq(Attempt)
  /\ lastToken \in 0..MaxTokens

(* The token sequence and the autoincremented attempt number advance in    *)
(* the same transaction, so the two numberings never drift: attempt n      *)
(* carries token n, and no two attempts share a token (journal.py          *)
(* _next_token with the INSERT of claim and takeover).                     *)
TokensNumberAttempts ==
  /\ lastToken = Len(attempts)
  /\ \A n \in DOMAIN attempts : attempts[n].token = n

(* The task row and the attempt its token names always agree on outcome,   *)
(* worker, owner and input, and that attempt is the newest of the task: a  *)
(* superseded worker's late call never shows up in the current attempt     *)
(* (readers such as ProductSession._ticket rely on it).                    *)
RowMatchesAttempt ==
  \A t \in Tasks : tasks[t].token # 0 =>
    LET n == tasks[t].token IN
    /\ n \in DOMAIN attempts
    /\ attempts[n].task = t
    /\ attempts[n].outcome = tasks[t].state
    /\ attempts[n].worker = tasks[t].worker
    /\ attempts[n].pid = tasks[t].pid
    /\ attempts[n].input = tasks[t].input
    /\ \A m \in DOMAIN attempts : attempts[m].task = t => m <= n

(* The external action of a task is dispatched at most once, and a task    *)
(* that ever dispatched is never claimable or claimed again: a failure     *)
(* after dispatch, a crash, a takeover and a new claim never lead to a     *)
(* second one (INV-16: never resend).                                      *)
DispatchedOnce ==
  \A t \in Tasks :
    /\ tasks[t].ext \in {0, 1}
    /\ tasks[t].ext = 1 => tasks[t].state \notin {"absent", "planned", "claimed"}
    /\ tasks[t].state = "dispatch_recorded" => tasks[t].ext = 1

(* Every superseded attempt ended without any external action: it was      *)
(* taken over while only claimed, or it failed locally.                    *)
SupersededNeverDispatched ==
  \A n \in DOMAIN attempts :
    n # tasks[attempts[n].task].token => attempts[n].outcome \in {"claimed", "failed"}

(* succeeded and outcome_unknown are final, and so is failed once a        *)
(* dispatch is on record; an attempt row that closed never changes, so a   *)
(* failed attempt is never turned into a success (module docstring).       *)
FinalRow(row) == \/ row.state \in {"succeeded", "outcome_unknown"}
                 \/ row.state = "failed" /\ row.ext > 0

TerminalStep ==
  /\ \A t \in Tasks : FinalRow(tasks[t]) => tasks'[t] = tasks[t]
  /\ \A n \in DOMAIN attempts :
       attempts[n].outcome \in {"succeeded", "failed", "outcome_unknown"}
         => n \in DOMAIN attempts' /\ attempts'[n] = attempts[n]

TerminalImmutable == [][TerminalStep]_journalVars
=============================================================================
