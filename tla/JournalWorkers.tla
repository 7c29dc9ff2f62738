---------------------------- MODULE JournalWorkers ----------------------------
(***************************************************************************)
(* Operating-system processes that share one Journal.  A process keeps the *)
(* claims it was given in memory; it exits or crashes between any two      *)
(* transactions and loses them; its process id may come back as another    *)
(* process.  A process may call any method of Journal at any time, with    *)
(* any claim it was ever given, however late.                              *)
(*                                                                         *)
(* complete_existing_local_task is the one method made of several          *)
(* transactions: a read, then a claim or a takeover, then a commit, with   *)
(* the other processes free to run in between.                             *)
(***************************************************************************)
EXTENDS Journal

VARIABLES
  running,        \* the process ids in use
  held,        \* [Pids -> claims the process has been given]
  local        \* [Pids -> its call of complete_existing_local_task]

procVars == <<running, held, local>>
workersVars == <<tasks, attempts, lastToken, takeovers, running, held, local>>

NoLocalCall == [pc |-> "idle"]

(* "acquire": the row was read in state `seen`; "commit": a claim is held. *)
LocalCalls ==
  [pc: {"acquire"}, task: Tasks, input: Inputs, output: Outputs,
   worker: Workers, seen: {"planned", "claimed", "failed"}]
  \cup [pc: {"commit"}, claim: Claims, output: Outputs]

WorkersInit ==
  /\ JournalInit
  /\ running = {}
  /\ held = [p \in Pids |-> {}]
  /\ local = [p \in Pids |-> NoLocalCall]

(***************************************************************************)
(* Processes.  An exited id may be handed out again.                       *)
(***************************************************************************)
WorkerStart(p) ==
  /\ p \notin running
  /\ running' = running \cup {p}
  /\ UNCHANGED <<journalVars, held, local>>

WorkerExit(p) ==
  /\ p \in running
  /\ running' = running \ {p}
  /\ held' = [held EXCEPT ![p] = {}]
  /\ local' = [local EXCEPT ![p] = NoLocalCall]
  /\ UNCHANGED journalVars

(***************************************************************************)
(* Journal._owner_pid_exited: an id in use is never reported exited, and   *)
(* the caller's own never either; an exited one may still be reported as   *)
(* in use (permission and platform errors), so `exited` is any subset.     *)
(***************************************************************************)
SeenExited == SUBSET (Pids \ running)

(***************************************************************************)
(* One transaction of a running process                                     *)
(***************************************************************************)
CallEnsure(p) ==
  /\ p \in running
  /\ \E t \in Tasks, i \in Inputs : EnsureTask(t, i)
  /\ UNCHANGED procVars

Keep(p, c) == held' = [held EXCEPT ![p] = @ \cup {c}]

CallClaim(p) ==
  /\ p \in running
  /\ \E t \in Tasks, w \in Workers, i \in Inputs :
       /\ Claim(t, w, i, p)
       /\ Keep(p, IssuedClaim(t, w, i))
  /\ UNCHANGED <<running, local>>

CallTakeover(p) ==
  /\ p \in running
  /\ \E t \in Tasks, w \in Workers, i \in Inputs, exited \in SeenExited :
       /\ TakeoverStaleClaim(t, w, i, p, exited)
       /\ Keep(p, IssuedClaim(t, w, i))
  /\ UNCHANGED <<running, local>>

CallDispatch(p) ==
  /\ p \in running
  /\ \E c \in held[p] : RecordDispatch(c)
  /\ UNCHANGED procVars

CallCommit(p) ==
  /\ p \in running
  /\ \E c \in held[p], o \in Outputs : Commit(c, o)
  /\ UNCHANGED procVars

CallFailure(p) ==
  /\ p \in running
  /\ \E c \in held[p], s \in {"failed", "outcome_unknown"} : RecordFailure(c, s)
  /\ UNCHANGED procVars

CallRecover(p) ==
  /\ p \in running
  /\ \E scope \in {{t} : t \in Tasks} \cup {Tasks},
        exited \in SeenExited, manual \in BOOLEAN :
       /\ Recoverable(scope, exited, manual) # {}
       /\ RecoverDispatchedUnknown(scope, exited, manual)
  /\ UNCHANGED procVars

(***************************************************************************)
(* complete_existing_local_task.  A call that finds the task succeeded, or *)
(* that is refused, returns or raises without a step.                      *)
(***************************************************************************)
LocalRead(p) ==
  /\ p \in running
  /\ local[p].pc = "idle"
  /\ \E t \in Tasks, w \in Workers, o \in Outputs, allowFailed \in BOOLEAN :
       /\ tasks[t].ext = 0
       /\ tasks[t].state \in
            {"planned", "claimed"} \cup IF allowFailed THEN {"failed"} ELSE {}
       /\ local' = [local EXCEPT ![p] =
            [pc |-> "acquire", task |-> t, input |-> tasks[t].input,
             output |-> o, worker |-> w, seen |-> tasks[t].state]]
  /\ UNCHANGED <<journalVars, running, held>>

LocalAcquire(p) ==
  /\ p \in running
  /\ local[p].pc = "acquire"
  /\ LET l == local[p] IN
       /\ \/ /\ l.seen = "claimed"
             /\ \E exited \in SeenExited :
                  TakeoverStaleClaim(l.task, l.worker, l.input, p, exited)
          \/ /\ l.seen # "claimed"
             /\ Claim(l.task, l.worker, l.input, p)
       /\ local' = [local EXCEPT ![p] =
            [pc |-> "commit", output |-> l.output,
             claim |-> IssuedClaim(l.task, l.worker, l.input)]]
  /\ UNCHANGED <<running, held>>

(* The row changed since it was read, or its owner is not known to have    *)
(* exited: the call raises.                                                *)
LocalRefused(p) ==
  /\ p \in running
  /\ local[p].pc = "acquire"
  /\ LET l == local[p] IN
       \/ l.seen = "claimed"
       \/ l.seen # "claimed" /\ ~CanClaim(l.task, l.input)
  /\ local' = [local EXCEPT ![p] = NoLocalCall]
  /\ UNCHANGED <<journalVars, running, held>>

LocalCommit(p) ==
  /\ p \in running
  /\ local[p].pc = "commit"
  /\ Commit(local[p].claim, local[p].output)
  /\ local' = [local EXCEPT ![p] = NoLocalCall]
  /\ UNCHANGED <<running, held>>

-----------------------------------------------------------------------------
ProcessStep(p) ==
  \/ CallEnsure(p)   \/ CallClaim(p)   \/ CallTakeover(p)
  \/ CallDispatch(p) \/ CallCommit(p)  \/ CallFailure(p) \/ CallRecover(p)
  \/ LocalRead(p)    \/ LocalAcquire(p) \/ LocalRefused(p) \/ LocalCommit(p)

WorkersNext == \E p \in Pids : WorkerStart(p) \/ WorkerExit(p) \/ ProcessStep(p)

WorkersSpec == WorkersInit /\ [][WorkersNext]_workersVars

-----------------------------------------------------------------------------
ProcTypeOK ==
  /\ running \subseteq Pids
  /\ held \in [Pids -> SUBSET Claims]
  /\ local \in [Pids -> LocalCalls \cup {NoLocalCall}]

WorkersTypeOK == JournalTypeOK /\ ProcTypeOK

ClaimsOf(p) ==
  held[p] \cup IF local[p].pc = "commit" THEN {local[p].claim} ELSE {}

(* A claim whose attempt is still open and whose process still runs is the *)
(* current claim of its task: takeover, recovery and id reuse never fence  *)
(* out a worker that is alive, so what it does next is not refused         *)
(* (takeover_stale_claim, _owner_pid_exited).                              *)
LiveHolderNotFenced ==
  \A p \in running : \A c \in ClaimsOf(p) :
    attempts[c.attempt].outcome \in Active =>
      /\ tasks[c.task].token = c.token
      /\ tasks[c.task].state \in Active

(* complete_existing_local_task never loses the race for its own commit:   *)
(* once it has its claim, the commit is accepted, whatever the other       *)
(* processes did in between (the method has no handler for a refusal).     *)
LocalCommitAccepted ==
  \A p \in Pids : local[p].pc = "commit" =>
    LET c == local[p].claim IN Fenced(c) /\ tasks[c.task].state = "claimed"

(***************************************************************************)
(* The ledger implements OnceOnly.                                         *)
(***************************************************************************)
Phase(row) ==
  IF \/ row.state \in {"absent", "planned", "claimed"}
     \/ row.state = "failed" /\ row.ext = 0
  THEN "open"
  ELSE IF row.state = "dispatch_recorded" THEN "inflight" ELSE row.state

Abstract == INSTANCE OnceOnly WITH
  phase <- [t \in Tasks |-> Phase(tasks[t])],
  sent  <- [t \in Tasks |-> tasks[t].ext]

(* Every behaviour of the ledger and its processes is one of OnceOnly.     *)
ImplementsOnceOnly == Abstract!Spec
=============================================================================
