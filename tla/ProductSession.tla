---------------------------- MODULE ProductSession ----------------------------
(***************************************************************************)
(* ProductSession (product_session.py): operating-system processes open a  *)
(* session on one case directory and run prepare_task, begin_task,         *)
(* submit_host_result, advance and status on the tasks of a run.  The      *)
(* product objects (task, ticket, sealed response, consumption) are rows   *)
(* written once, each in a transaction of its own; the ledger is Journal.  *)
(* A call is a sequence of reads and transactions: other processes run in  *)
(* between, and the process may exit or crash after any of them.           *)
(*                                                                         *)
(* Abstracted: the run, its frozen materials and its scope are valid and   *)
(* do not change; an envelope is one that validate_result accepts for the  *)
(* ticket.  A call that is refused before its first write is no step.      *)
(***************************************************************************)
EXTENDS Journal

CONSTANTS
  InputDigest,    \* [Tasks -> Inputs]: a task's identity and its input agree
  Good            \* the envelopes with execution_status = succeeded

ASSUME InputDigestAssumption == InputDigest \in [Tasks -> Inputs]
ASSUME GoodAssumption == Good \subseteq Outputs
ASSUME TicketAssumption == None \notin Claims

Envelopes == Outputs

VARIABLES
  live,        \* the process ids in use
  registered,  \* tasks with a product task object
  ticket,      \* [Tasks -> the DISPATCH object, or None]
  blobs,       \* [Tasks -> envelopes in the blob store]
  response,    \* [Tasks -> the envelope the RESPONSE object names, or None]
  consumed,    \* [Tasks -> the envelope the CONSUMED object names, or None]
  call         \* [Pids -> the call the process is in]

objectVars == <<registered, ticket, blobs, response, consumed>>
vars == <<tasks, attempts, lastToken, takeovers, live,
          registered, ticket, blobs, response, consumed, call>>

Closed == [pc |-> "closed"]
Idle   == [pc |-> "idle"]
Alarm(check) == [pc |-> "alarm", check |-> check]
Checks == {"ticket", "sealed", "consumed", "inventory"}

Calls ==
  {Closed, Idle} \cup {Alarm(check) : check \in Checks}
  \cup [pc: {"ensure", "response"}, task: Tasks]
  \cup [pc: {"claim"}, task: Tasks, context: Workers]
  \cup [pc: {"ticket", "dispatch"}, claim: Claims]
  \cup [pc: {"read", "consume"}, task: Tasks, envelope: Envelopes]
  \cup [pc: {"put", "settle"}, task: Tasks, envelope: Envelopes,
        seen: {"dispatch_recorded", "outcome_unknown"}]
  \cup [pc: {"attempts"}, task: Tasks, seen: States]
  \cup [pc: {"state", "consumed"}, task: Tasks, sealed: Envelopes \cup {None}]
  \cup [pc: {"rows"}, objects: SUBSET Tasks, related: SUBSET Tasks]
  \cup [pc: {"parents"}, objects: SUBSET Tasks, related: SUBSET Tasks,
        rows: SUBSET Tasks]

Init ==
  /\ Fresh
  /\ takeovers = <<>>
  /\ live = {}
  /\ registered = {}
  /\ ticket = [t \in Tasks |-> None]
  /\ blobs = [t \in Tasks |-> {}]
  /\ response = [t \in Tasks |-> None]
  /\ consumed = [t \in Tasks |-> None]
  /\ call = [p \in Pids |-> Closed]

Goto(p, c) == call' = [call EXCEPT ![p] = c]
At(p, pc) == p \in live /\ call[p].pc = pc

(***************************************************************************)
(* Processes and sessions.  Opening a session constructs a LocalWorkflow,  *)
(* whose constructor freezes every dispatched task of an exited owner.     *)
(***************************************************************************)
Start(p) ==
  /\ p \notin live
  /\ live' = live \cup {p}
  /\ Goto(p, Closed)
  /\ UNCHANGED <<journalVars, objectVars>>

Exit(p) ==
  /\ p \in live
  /\ live' = live \ {p}
  /\ Goto(p, Closed)
  /\ UNCHANGED <<journalVars, objectVars>>

(* The exited processes as _owner_pid_exited reports them: never a live    *)
(* one, and an exited one may go unreported.                               *)
ReportedExited == SUBSET (Pids \ live)

Open(p) ==
  /\ At(p, "closed")
  /\ \E exited \in ReportedExited :
       RecoverDispatchedUnknown(Tasks, exited, FALSE)
  /\ Goto(p, Idle)
  /\ UNCHANGED <<live, objectVars>>

(***************************************************************************)
(* prepare_task: the task object, then its ledger row                      *)
(***************************************************************************)
PrepareTask(p) ==
  /\ At(p, "idle")
  /\ \E t \in Tasks :
       /\ registered' = registered \cup {t}
       /\ Goto(p, [pc |-> "ensure", task |-> t])
  /\ UNCHANGED <<journalVars, live, ticket, blobs, response, consumed>>

PrepareEnsure(p) ==
  /\ At(p, "ensure")
  /\ EnsureTask(call[p].task, InputDigest[call[p].task])
  /\ Goto(p, Idle)
  /\ UNCHANGED <<live, objectVars>>

(***************************************************************************)
(* begin_task: read the state, claim, write the ticket, record dispatch    *)
(***************************************************************************)
BeginTask(p) ==
  /\ At(p, "idle")
  /\ \E t \in registered, w \in Workers :
       /\ tasks[t].state = "planned"
       /\ Goto(p, [pc |-> "claim", task |-> t, context |-> w])
  /\ UNCHANGED <<journalVars, live, objectVars>>

BeginClaim(p) ==
  /\ At(p, "claim")
  /\ LET t == call[p].task
         w == call[p].context
     IN /\ Claim(t, w, InputDigest[t], p)
        /\ Goto(p, [pc |-> "ticket", claim |-> IssuedClaim(t, w, InputDigest[t])])
  /\ UNCHANGED <<live, objectVars>>

(* Another process claimed first: already_dispatched. *)
BeginRefused(p) ==
  /\ At(p, "claim")
  /\ ~CanClaim(call[p].task, InputDigest[call[p].task])
  /\ Goto(p, Idle)
  /\ UNCHANGED <<journalVars, live, objectVars>>

(* Mutant: a later body replaces the first one. *)
PutReplaces(object, t, body) == object' = [object EXCEPT ![t] = body]

(* put_product_object: the first writer's body stays, a different one is   *)
(* refused.                                                                *)
Put(object, t, body) ==
  /\ object[t] \in {None, body}
  /\ object' = [object EXCEPT ![t] = body]

BeginTicket(p) ==
  /\ At(p, "ticket")
  /\ LET c == call[p].claim
     IN Put(ticket, c.task, c) /\ Goto(p, [pc |-> "dispatch", claim |-> c])
  /\ UNCHANGED <<journalVars, live, registered, blobs, response, consumed>>

BeginDispatch(p) ==
  /\ At(p, "dispatch")
  /\ RecordDispatch(call[p].claim)
  /\ Goto(p, Idle)
  /\ UNCHANGED <<live, objectVars>>

(***************************************************************************)
(* submit_host_result: the host returns an envelope for a ticket           *)
(***************************************************************************)
(* A task already sealed is answered from the seal, and not written again. *)
SubmitResult(p) ==
  /\ At(p, "idle")
  /\ \E t \in registered, e \in Envelopes :
       /\ ticket[t] # None
       /\ response[t] = None
       /\ Goto(p, [pc |-> "read", task |-> t, envelope |-> e])
  /\ UNCHANGED <<journalVars, live, objectVars>>

(* _sealed found no response; the state is read after it.  The envelope    *)
(* goes to the blob store before any row names it.                         *)
SubmitRead(p) ==
  /\ At(p, "read")
  /\ LET t == call[p].task
         e == call[p].envelope
         s == tasks[t].state
     IN \/ /\ s \in {"dispatch_recorded", "outcome_unknown"}
           /\ tasks[t].token = ticket[t].token
           /\ blobs' = [blobs EXCEPT ![t] = @ \cup {e}]
           /\ Goto(p, [pc |-> "put", task |-> t, envelope |-> e, seen |-> s])
        \/ /\ s \notin {"dispatch_recorded", "outcome_unknown"}
           /\ Goto(p, Idle)
           /\ UNCHANGED blobs
  /\ UNCHANGED <<journalVars, live, registered, ticket, response, consumed>>

SubmitPut(p) ==
  /\ At(p, "put")
  /\ LET t == call[p].task
         e == call[p].envelope
     IN \/ /\ Put(response, t, e)
           /\ Goto(p, [call[p] EXCEPT !.pc = "settle"])
        \/ /\ response[t] \notin {None, e}
           /\ Goto(p, Idle)
           /\ UNCHANGED response
  /\ UNCHANGED <<journalVars, live, registered, ticket, blobs, consumed>>

(* Mutant: a failed or cancelled execution is committed like a success. *)
JudgeAlwaysCommits(c, e, seen) == seen = "dispatch_recorded" /\ Commit(c, e)

(* A task read as unknown keeps its state; otherwise the envelope decides. *)
Judge(c, e, seen) ==
  /\ seen = "dispatch_recorded"
  /\ IF e \in Good THEN Commit(c, e) ELSE RecordFailure(c, "failed")

(* The ledger is left alone: nothing to decide, or the decision is refused *)
(* because a recovery or another submitter came first.                     *)
SubmitSettle(p) ==
  /\ At(p, "settle")
  /\ LET t == call[p].task
         c == ticket[t]
     IN \/ Judge(c, call[p].envelope, call[p].seen)
        \/ /\ \/ call[p].seen = "outcome_unknown"
              \/ ~Fenced(c)
              \/ tasks[t].state \notin Active
           /\ UNCHANGED journalVars
  /\ Goto(p, Idle)
  /\ UNCHANGED <<live, objectVars>>

(***************************************************************************)
(* advance: every sealed task of the run is consumed, one by one           *)
(***************************************************************************)
AdvanceRead(p) ==
  /\ At(p, "idle")
  /\ \E t \in registered :
       /\ response[t] # None
       /\ Goto(p, [pc |-> "consume", task |-> t, envelope |-> response[t]])
  /\ UNCHANGED <<journalVars, live, objectVars>>

AdvancePut(p) ==
  /\ At(p, "consume")
  /\ Put(consumed, call[p].task, call[p].envelope)
  /\ Goto(p, Idle)
  /\ UNCHANGED <<journalVars, live, registered, ticket, blobs, response>>

(***************************************************************************)
(* status: _ticket and _sealed read the ledger and the objects one row at  *)
(* a time; what does not fit together raises an integrity failure.         *)
(***************************************************************************)
Raise(p, check) == Goto(p, Alarm(check))

(* _ticket reads the ticket and the task row. *)
StatusTicket(p) ==
  /\ At(p, "idle")
  /\ \E t \in registered :
       IF ticket[t] = None
       THEN /\ tasks[t].ext = 0
            /\ Goto(p, [pc |-> "response", task |-> t])
       ELSE /\ tasks[t].token = ticket[t].token
            /\ Goto(p, [pc |-> "attempts", task |-> t, seen |-> tasks[t].state])
  /\ UNCHANGED <<journalVars, live, objectVars>>

(* _ticket then looks for an attempt whose outcome is the state it read. *)
StatusAttempts(p) ==
  /\ At(p, "attempts")
  /\ LET t == call[p].task
     IN IF attempts[ticket[t].attempt].outcome = call[p].seen
        THEN Goto(p, [pc |-> "response", task |-> t])
        ELSE Raise(p, "ticket")
  /\ UNCHANGED <<journalVars, live, objectVars>>

StatusResponse(p) ==
  /\ At(p, "response")
  /\ LET t == call[p].task
     IN Goto(p, [pc |-> "state", task |-> t, sealed |-> response[t]])
  /\ UNCHANGED <<journalVars, live, objectVars>>

(* The row _sealed accepts for the response it found, or did not find. *)
SealFits(row, e) ==
  IF e = None
  THEN ~(row.state \in {"succeeded", "failed"} /\ row.ext > 0)
  ELSE /\ row.ext = 1
       /\ row.state \in {"dispatch_recorded", "outcome_unknown",
                         "succeeded", "failed"}
       /\ row.state = "failed" => e \notin Good
       /\ row.state = "succeeded" => row.output = e /\ e \in Good

StatusState(p) ==
  /\ At(p, "state")
  /\ IF SealFits(tasks[call[p].task], call[p].sealed)
     THEN Goto(p, [call[p] EXCEPT !.pc = "consumed"])
     ELSE Raise(p, "sealed")
  /\ UNCHANGED <<journalVars, live, objectVars>>

StatusConsumed(p) ==
  /\ At(p, "consumed")
  /\ IF consumed[call[p].task] \in {None, call[p].sealed}
     THEN Goto(p, Idle)
     ELSE Raise(p, "consumed")
  /\ UNCHANGED <<journalVars, live, objectVars>>

(***************************************************************************)
(* assert_product_task_inventory, run at the head of the calls above,      *)
(* reads the objects, the ledger rows and the attempts in three queries.   *)
(***************************************************************************)
Related == {t \in Tasks : ticket[t] # None \/ response[t] # None \/ consumed[t] # None}
Rows == {t \in Tasks : tasks[t].state # "absent"}
Attempted == {attempts[n].task : n \in DOMAIN attempts}

InventoryFits(objects, related, rows, attempted) ==
  /\ related \subseteq objects
  /\ attempted \subseteq objects
  /\ rows \subseteq objects
  /\ attempted \cup related \subseteq rows

InventoryObjects(p) ==
  /\ At(p, "idle")
  /\ Goto(p, [pc |-> "rows", objects |-> registered, related |-> Related])
  /\ UNCHANGED <<journalVars, live, objectVars>>

InventoryRows(p) ==
  /\ At(p, "rows")
  /\ Goto(p, [pc |-> "parents", objects |-> call[p].objects,
              related |-> call[p].related, rows |-> Rows])
  /\ UNCHANGED <<journalVars, live, objectVars>>

InventoryAttempts(p) ==
  /\ At(p, "parents")
  /\ IF InventoryFits(call[p].objects, call[p].related, call[p].rows, Attempted)
     THEN Goto(p, Idle)
     ELSE Raise(p, "inventory")
  /\ UNCHANGED <<journalVars, live, objectVars>>

(* The failure is reported and the call is over. *)
Report(p) ==
  /\ At(p, "alarm")
  /\ Goto(p, Idle)
  /\ UNCHANGED <<journalVars, live, objectVars>>

-----------------------------------------------------------------------------
(* A step of a call that has begun. *)
Continue(p) ==
  \/ PrepareEnsure(p)
  \/ BeginClaim(p) \/ BeginRefused(p) \/ BeginTicket(p) \/ BeginDispatch(p)
  \/ SubmitRead(p) \/ SubmitPut(p) \/ SubmitSettle(p)
  \/ AdvancePut(p)
  \/ StatusAttempts(p) \/ StatusResponse(p) \/ StatusState(p) \/ StatusConsumed(p)
  \/ InventoryRows(p) \/ InventoryAttempts(p) \/ Report(p)

(* A call, or a session, begins. *)
Enter(p) ==
  \/ Open(p) \/ PrepareTask(p) \/ BeginTask(p) \/ SubmitResult(p)
  \/ AdvanceRead(p) \/ StatusTicket(p) \/ InventoryObjects(p)

Next == \E p \in Pids : Start(p) \/ Exit(p) \/ Enter(p) \/ Continue(p)

Spec == Init /\ [][Next]_vars

-----------------------------------------------------------------------------
TypeOK ==
  /\ JournalTypeOK
  /\ live \subseteq Pids
  /\ registered \subseteq Tasks
  /\ ticket \in [Tasks -> Claims \cup {None}]
  /\ blobs \in [Tasks -> SUBSET Envelopes]
  /\ response \in [Tasks -> Envelopes \cup {None}]
  /\ consumed \in [Tasks -> Envelopes \cup {None}]
  /\ call \in [Pids -> Calls]

(* The ticket names the current attempt of its task, and whatever was      *)
(* dispatched has one: no second begin, no crash and no recovery separates *)
(* the ticket the host answers from the row it is checked against          *)
(* (begin_task writes the two in different transactions).                  *)
TicketIsCurrent ==
  \A t \in Tasks :
    /\ ticket[t] # None =>
         /\ ticket[t].attempt = tasks[t].token
         /\ Fenced(ticket[t])
         /\ tasks[t].state \notin {"absent", "planned"}
    /\ tasks[t].ext > 0 => ticket[t] # None

(* In every state, whoever crashed between the blob, the response and the  *)
(* ledger: the response, the verdict and the output agree, a verdict has   *)
(* its response, and the response has its bytes (_sealed).                 *)
SealedAgrees ==
  \A t \in Tasks :
    /\ SealFits(tasks[t], response[t])
    /\ response[t] # None => response[t] \in blobs[t]
    /\ consumed[t] \in {None, response[t]}

(* The objects, the rows and the attempts of a state never lack a parent   *)
(* (assert_product_task_inventory on one read view).                       *)
InventoryWhole == InventoryFits(registered, Related, Rows, Attempted)

(* A submitter about to settle holds the envelope that is sealed: a        *)
(* refused commit is always answered from the seal (the CommitRejected     *)
(* handler never meets another envelope).                                  *)
SettlesTheSealed ==
  \A p \in Pids : call[p].pc = "settle" =>
    response[call[p].task] = call[p].envelope

(* "The ledger is final but the required sealed response is missing" is    *)
(* said only when it is missing.  SealedAgrees: it never is.               *)
NoFalseSealAlarm == \A p \in Pids : call[p] # Alarm("sealed")

(***************************************************************************)
(* The session implements SealedResult.                                    *)
(***************************************************************************)
Verdict(row) ==
  CASE row.state \in {"absent", "planned", "claimed"} -> "none"
    [] row.state = "dispatch_recorded" -> "sent"
    [] OTHER -> row.state

Promise == INSTANCE SealedResult WITH
  verdict <- [t \in Tasks |-> Verdict(tasks[t])],
  sealed  <- response,
  used    <- consumed

(* Every behaviour of the sessions is one of SealedResult.                 *)
ImplementsSealedResult == Promise!Spec
=============================================================================
