--------------------------- MODULE ProviderGateway ----------------------------
(***************************************************************************)
(* ProviderDispatcher (provider_gateway.py) with the usage ledger of the   *)
(* case store (store.py reserve_provider_usage, settle_provider_usage):    *)
(* processes send queue requests to a paid provider under an authorisation *)
(* that caps the requests and the tokens they may use.  A dispatch reads   *)
(* the past, reserves its upper bound in one transaction, goes through the *)
(* task ledger (Journal), calls the provider and settles what it used.     *)
(* Every read and every transaction is a step; a process may exit between  *)
(* any two.                                                                *)
(*                                                                         *)
(* Abstracted: the request is covered by the purposes, providers, material *)
(* and window of the authorisation, and the credential is there; a call    *)
(* refused before its first read of the ledgers is no step.                *)
(***************************************************************************)
EXTENDS Journal, FiniteSetsExt

CONSTANTS
  InputDigest,  \* [Tasks -> Inputs]: request_input_digest
  Gateway,      \* the worker id "provider-gateway"
  Tokens,       \* what is counted: input and output tokens
  Usages,       \* what one provider call may use
  Scopes,       \* budget scopes
  Auths,        \* authorisations in force while the model runs
  History       \* missions dispatched by earlier versions, in order

ASSUME TasksAssumption == IsFiniteSet(Tasks)
ASSUME InputDigestAssumption == InputDigest \in [Tasks -> Inputs]
ASSUME GatewayAssumption == Gateway \in Workers
ASSUME UsagesAssumption == Usages \subseteq [Tokens -> Nat]

(* scope: _budget_scope(); mapped: the lineage and the own digest;         *)
(* bounds: the declared input bound with any max_output_tokens; prior: the *)
(* reconciled missions of prior_consumption.                               *)
ASSUME AuthsAssumption ==
  \A a \in Auths :
    /\ a.scope \in Scopes /\ a.mapped \subseteq Scopes
    /\ a.requestCap \in Nat /\ a.caps \in [Tokens -> Nat]
    /\ a.bounds \subseteq [Tokens -> Nat]
    /\ a.prior \in [Tasks -> [Tokens -> Nat] \cup {None}]

(* scope = None: a mission older than the usage ledger itself. *)
Missions ==
  [task: Tasks, outcome: {"succeeded", "failed", "outcome_unknown"},
   usage: [Tokens -> Nat] \cup {None}, spent: [Tokens -> Nat],
   scope: Scopes \cup {None}, reserved: [Tokens -> Nat]]
ASSUME HistoryAssumption ==
  /\ History \in Seq(Missions)
  /\ \A m, n \in DOMAIN History : History[m].task = History[n].task => m = n
ASSUME TokensSuffice == Len(History) <= MaxTokens

VARIABLES
  live,     \* the process ids in use
  ledger,   \* [Tasks -> the provider_usage_ledger row, or None]
  kept,     \* [Tasks -> the usage in the blob the task ledger names, or None]
  marked,   \* tasks whose sealed artifact carries cap_exceeded
  spent,    \* [Tasks -> what the provider really used], seen by no process
  call      \* [Pids -> the call the process is in]

vars == <<tasks, attempts, lastToken, takeovers, live, ledger, kept, marked,
          spent, call>>

Statuses == {"reserved", "succeeded", "failed", "outcome_unknown"}
Amounts == [Tokens -> Nat]
LedgerRow == [status: Statuses, scope: Scopes, reserved: Amounts,
              usage: Amounts \cup {None}]

ASSUME NullAssumption == None \notin LedgerRow \cup Amounts

Zero == [q \in Tokens |-> 0]
Total(amounts) ==
  [q \in Tokens |-> MapThenSumSet(LAMBDA t : amounts[t][q], DOMAIN amounts)]
Plus(x, y) == [q \in Tokens |-> x[q] + y[q]]
Within(x, y) == \A q \in Tokens : x[q] <= y[q]

Closed == [pc |-> "closed"]
Idle(a) == [pc |-> "idle", auth |-> a]

Init ==
  LET Past(t) == {n \in DOMAIN History : History[n].task = t}
      Of(t) == CHOOSE n \in Past(t) : TRUE
  IN
  /\ tasks = [t \in Tasks |->
       IF Past(t) = {} THEN NoRow
       ELSE [state |-> History[Of(t)].outcome, token |-> Of(t),
             worker |-> Gateway, pid |-> None, input |-> InputDigest[t],
             output |-> None, ext |-> 1]]
  /\ attempts = [n \in DOMAIN History |->
       [task |-> History[n].task, token |-> n, worker |-> Gateway, pid |-> None,
        input |-> InputDigest[History[n].task], outcome |-> History[n].outcome]]
  /\ lastToken = Len(History)
  /\ takeovers = <<>>
  /\ live = {}
  /\ ledger = [t \in Tasks |->
       IF \A n \in Past(t) : History[n].scope = None THEN None
       ELSE LET h == History[Of(t)] IN
            [status |-> h.outcome, scope |-> h.scope, reserved |-> h.reserved,
             usage |-> h.usage]]
  /\ kept = [t \in Tasks |-> IF Past(t) = {} THEN None ELSE History[Of(t)].usage]
  /\ marked = {}
  /\ spent = [t \in Tasks |-> IF Past(t) = {} THEN Zero ELSE History[Of(t)].spent]
  /\ call = [p \in Pids |-> Closed]

Goto(p, c) == call' = [call EXCEPT ![p] = c]
At(p, pc) == p \in live /\ call[p].pc = pc
Auth(p) == call[p].auth

(***************************************************************************)
(* Processes; opening a workflow freezes the dispatches of exited owners.  *)
(***************************************************************************)
Start(p) ==
  /\ p \notin live
  /\ live' = live \cup {p}
  /\ Goto(p, Closed)
  /\ UNCHANGED <<journalVars, ledger, kept, marked, spent>>

Exit(p) ==
  /\ p \in live
  /\ live' = live \ {p}
  /\ Goto(p, Closed)
  /\ UNCHANGED <<journalVars, ledger, kept, marked, spent>>

ReportedExited == SUBSET (Pids \ live)

Open(p) ==
  /\ At(p, "closed")
  /\ \E exited \in ReportedExited :
       RecoverDispatchedUnknown(Tasks, exited, FALSE)
  /\ \E a \in Auths : Goto(p, Idle(a))
  /\ UNCHANGED <<live, ledger, kept, marked, spent>>

(***************************************************************************)
(* The usage ledger                                                        *)
(***************************************************************************)
InLedger == {t \in Tasks : ledger[t] # None}
InScope(s) == {t \in InLedger : ledger[t].scope = s}
MappedRows(a) == {t \in InLedger : ledger[t].scope \in a.mapped \ {a.scope}}
NoOrphans(a) == \A t \in InLedger : ledger[t].scope \in a.mapped \cup {a.scope}

(* Mutant: a row without usage counts as nothing. *)
ChargeKnownOnly(t) == IF ledger[t].usage # None THEN ledger[t].usage ELSE Zero

(* A row counts as its usage, or as its reservation while that is unknown. *)
Charge(t) ==
  IF ledger[t].usage # None THEN ledger[t].usage ELSE ledger[t].reserved
Charged(rows) == Total([t \in rows |-> Charge(t)])

(* The three caps, on the rows as they stand and the history carried along. *)
Fits(a, bound, historic) ==
  /\ Cardinality(InScope(a.scope)) + historic.requests + 1 <= a.requestCap
  /\ Within(Plus(Plus(Charged(InScope(a.scope)), historic.tokens), bound),
            a.caps)

(* Mutant: a reservation of the same key is replaced. *)
ReserveAgain(a, t, bound, historic) ==
  /\ Fits(a, bound, historic)
  /\ ledger' = [ledger EXCEPT ![t] =
       [status |-> "reserved", scope |-> a.scope, reserved |-> bound,
        usage |-> None]]

(* Mutant: the scope column is left out of the INSERT. *)
ReserveWithoutScope(a, t, bound, historic) ==
  /\ ledger[t] = None
  /\ Fits(a, bound, historic)
  /\ ledger' = [ledger EXCEPT ![t] =
       [status |-> "reserved", scope |-> None, reserved |-> bound,
        usage |-> None]]

(* reserve_provider_usage: one transaction, or a refusal without a write. *)
Reserve(a, t, bound, historic) ==
  /\ ledger[t] = None
  /\ Fits(a, bound, historic)
  /\ ledger' = [ledger EXCEPT ![t] =
       [status |-> "reserved", scope |-> a.scope, reserved |-> bound,
        usage |-> None]]

(* settle_provider_usage: only a row still reserved. *)
Settle(t, status, usage) ==
  /\ ledger[t] # None /\ ledger[t].status = "reserved"
  /\ ledger' = [ledger EXCEPT ![t] =
       [ledger[t] EXCEPT !.status = status, !.usage = usage]]

(***************************************************************************)
(* _historic_usage_items: three reads, none in the reserving transaction.  *)
(***************************************************************************)
(* Missions the task ledger saw dispatched. *)
Dispatched ==
  {t \in Tasks : \E n \in DOMAIN attempts :
     /\ attempts[n].task = t
     /\ \/ attempts[n].outcome \in {"dispatch_recorded", "succeeded",
                                    "outcome_unknown"}
        \/ attempts[n].outcome = "failed" /\ tasks[t].ext > 0}

(* Those among them whose use is neither kept nor reconciled. *)
Unproven(a, missions) ==
  {t \in missions : kept[t] = None /\ a.prior[t] = None}

(* dispatch, _check_ready: what is used so far can be accounted for. *)
Dispatch(p) ==
  /\ At(p, "idle")
  /\ NoOrphans(Auth(p))
  /\ Unproven(Auth(p), Dispatched \ InLedger) = {}
  /\ \E t \in Tasks, bound \in Auth(p).bounds :
       Goto(p, [pc |-> "keys", auth |-> Auth(p), task |-> t, bound |-> bound])
  /\ UNCHANGED <<journalVars, live, ledger, kept, marked, spent>>

ReadKeys(p) ==
  /\ At(p, "keys")
  /\ Goto(p, [pc |-> "missions", auth |-> Auth(p), task |-> call[p].task,
              bound |-> call[p].bound, keys |-> InLedger])
  /\ UNCHANGED <<journalVars, live, ledger, kept, marked, spent>>

(* Every dispatched mission without a row known to the first read is an    *)
(* item; one that cannot be accounted for refuses the dispatch.            *)
ReadMissions(p) ==
  /\ At(p, "missions")
  /\ LET a == Auth(p)
         found == Dispatched \ call[p].keys
         reconciled == {t \in Tasks : a.prior[t] # None}
         items == [t \in found \cup reconciled |->
                     IF t \in found /\ kept[t] # None THEN kept[t] ELSE a.prior[t]]
     IN IF Unproven(a, found) # {}
        THEN Goto(p, Idle(a))
        ELSE Goto(p, [pc |-> "mapped", auth |-> a, task |-> call[p].task,
                      bound |-> call[p].bound,
                      historic |->
                        [requests |-> Cardinality(DOMAIN items), tokens |-> Total(items)]])
  /\ UNCHANGED <<journalVars, live, ledger, kept, marked, spent>>

(* Mutant: rows of an earlier scope are not carried along. *)
ReadMappedNothing(p) ==
  /\ At(p, "mapped")
  /\ Goto(p, [call[p] EXCEPT !.pc = "reserve"])
  /\ UNCHANGED <<journalVars, live, ledger, kept, marked, spent>>

ReadMapped(p) ==
  /\ At(p, "mapped")
  /\ LET rows == MappedRows(Auth(p))
         old == call[p].historic
     IN Goto(p, [call[p] EXCEPT
          !.pc = "reserve",
          !.historic = [requests |-> old.requests + Cardinality(rows),
                        tokens |-> Plus(old.tokens, Charged(rows))]])
  /\ UNCHANGED <<journalVars, live, ledger, kept, marked, spent>>

(***************************************************************************)
(* dispatch: reserve, claim, record the dispatch, call the provider        *)
(***************************************************************************)
ReserveBudget(p) ==
  /\ At(p, "reserve")
  /\ LET a == Auth(p)
         t == call[p].task
     IN \/ /\ Reserve(a, t, call[p].bound, call[p].historic)
           /\ Goto(p, [pc |-> "ensure", auth |-> a, task |-> t])
        \/ /\ ledger[t] # None \/ ~Fits(a, call[p].bound, call[p].historic)
           /\ Goto(p, Idle(a))
           /\ UNCHANGED ledger
  /\ UNCHANGED <<journalVars, live, kept, marked, spent>>

Ensure(p) ==
  /\ At(p, "ensure")
  /\ EnsureTask(call[p].task, InputDigest[call[p].task])
  /\ Goto(p, [call[p] EXCEPT !.pc = "claim"])
  /\ UNCHANGED <<live, ledger, kept, marked, spent>>

(* A refused claim leaves the reservation behind. *)
ClaimTask(p) ==
  /\ At(p, "claim")
  /\ LET t == call[p].task
         i == InputDigest[t]
     IN \/ /\ Claim(t, Gateway, i, p)
           /\ Goto(p, [pc |-> "dispatch", auth |-> Auth(p),
                       claim |-> IssuedClaim(t, Gateway, i)])
        \/ /\ ~CanClaim(t, i)
           /\ Goto(p, Idle(Auth(p)))
           /\ UNCHANGED journalVars
  /\ UNCHANGED <<live, ledger, kept, marked, spent>>

(* Mutant: the dispatch goes on record after the call, if at all. *)
SendUnrecorded(p) ==
  /\ At(p, "dispatch")
  /\ Goto(p, [call[p] EXCEPT !.pc = "sent"])
  /\ UNCHANGED <<journalVars, live, ledger, kept, marked, spent>>

Send(p) ==
  /\ At(p, "dispatch")
  /\ RecordDispatch(call[p].claim)
  /\ Goto(p, [call[p] EXCEPT !.pc = "sent"])
  /\ UNCHANGED <<live, ledger, kept, marked, spent>>

(* The provider works, or never sees the request; the answer is a timeout, *)
(* a reply with or without its usage, good or to be rejected.              *)
Transport(p) ==
  /\ At(p, "sent")
  /\ LET t == call[p].claim.task
         Reply(pc, usage) == Goto(p, [pc |-> pc, auth |-> Auth(p),
                                      claim |-> call[p].claim, usage |-> usage])
     IN \E u \in Usages \cup {Zero} :
          /\ spent' = [spent EXCEPT ![t] = u]
          /\ \/ Reply("timeout", None)
             \/ \E usage \in {u, None} : Reply("reject", usage)
             \/ u # Zero /\ \E usage \in {u, None} : Reply("used", usage)
  /\ UNCHANGED <<journalVars, live, ledger, kept, marked>>

(* What a call settles when it is done with the task ledger. *)
ToSettle(p, status, usage) ==
  Goto(p, [pc |-> "settle", auth |-> Auth(p), task |-> call[p].claim.task,
           status |-> status, usage |-> usage])

RecordTimeout(p) ==
  /\ At(p, "timeout")
  /\ RecordFailure(call[p].claim, "outcome_unknown")
  /\ ToSettle(p, "outcome_unknown", None)
  /\ UNCHANGED <<live, ledger, kept, marked, spent>>

(* The failure blob keeps the raw response and so its usage. *)
RecordReject(p) ==
  /\ At(p, "reject")
  /\ RecordFailure(call[p].claim, "failed")
  /\ kept' = [kept EXCEPT ![call[p].claim.task] = call[p].usage]
  /\ ToSettle(p, "failed", call[p].usage)
  /\ UNCHANGED <<live, ledger, marked, spent>>

(***************************************************************************)
(* _seal_success: usage() reads the two ledgers, then the artifact says    *)
(* whether the caps are exceeded and the result is committed.              *)
(***************************************************************************)
SealLedger(p) ==
  /\ At(p, "used")
  /\ LET known == {t \in InLedger : ledger[t].usage # None}
     IN Goto(p, [pc |-> "seal", auth |-> Auth(p), claim |-> call[p].claim,
                 usage |-> call[p].usage, keys |-> InLedger,
                 known |-> Charged(known)])
  /\ UNCHANGED <<journalVars, live, ledger, kept, marked, spent>>

(* Only the use that is known is added up. *)
SealMissions(p) ==
  /\ At(p, "seal")
  /\ LET old == {t \in Dispatched \ call[p].keys : kept[t] # None}
         used == Plus(call[p].known, Total([t \in old |-> kept[t]]))
     IN Goto(p, [pc |-> "commit", auth |-> Auth(p), claim |-> call[p].claim,
                 usage |-> call[p].usage,
                 exceeded |-> /\ call[p].usage # None
                              /\ ~Within(Plus(used, call[p].usage), Auth(p).caps)])
  /\ UNCHANGED <<journalVars, live, ledger, kept, marked, spent>>

SealCommit(p) ==
  /\ At(p, "commit")
  /\ LET t == call[p].claim.task
     IN /\ \E o \in Outputs : Commit(call[p].claim, o)
        /\ kept' = [kept EXCEPT ![t] = call[p].usage]
        /\ marked' = IF call[p].exceeded THEN marked \cup {t} ELSE marked
  /\ ToSettle(p, "succeeded", call[p].usage)
  /\ UNCHANGED <<live, ledger, spent>>

SettleUsage(p) ==
  /\ At(p, "settle")
  /\ Settle(call[p].task, call[p].status, call[p].usage)
  /\ Goto(p, Idle(Auth(p)))
  /\ UNCHANGED <<journalVars, live, kept, marked, spent>>

(* Anything else that goes wrong once the dispatch is on record (a write   *)
(* that fails, a transport that raises another error).                     *)
Unexpected(p) ==
  /\ p \in live
  /\ call[p].pc \in {"sent", "timeout", "reject", "used", "seal", "commit", "settle"}
  /\ Goto(p, [pc |-> "unexpected", auth |-> Auth(p),
              task |-> IF call[p].pc = "settle" THEN call[p].task
                       ELSE call[p].claim.task])
  /\ UNCHANGED <<journalVars, live, ledger, kept, marked, spent>>

(* Mutant: what an unexpected error leaves is settled as nothing used. *)
SettleUnexpectedAsZero(p) ==
  /\ At(p, "unexpected")
  /\ \/ Settle(call[p].task, "failed", Zero)
     \/ UNCHANGED ledger
  /\ Goto(p, Idle(Auth(p)))
  /\ UNCHANGED <<journalVars, live, kept, marked, spent>>

(* It is settled as failed with its use unknown; if that fails too the row *)
(* stays reserved.                                                         *)
SettleUnexpected(p) ==
  /\ At(p, "unexpected")
  /\ \/ Settle(call[p].task, "failed", None)
     \/ UNCHANGED ledger
  /\ Goto(p, Idle(Auth(p)))
  /\ UNCHANGED <<journalVars, live, kept, marked, spent>>

Next ==
  \E p \in Pids :
    \/ Start(p) \/ Exit(p) \/ Open(p)
    \/ Dispatch(p) \/ ReadKeys(p) \/ ReadMissions(p) \/ ReadMapped(p)
    \/ ReserveBudget(p) \/ Ensure(p) \/ ClaimTask(p) \/ Send(p) \/ Transport(p)
    \/ RecordTimeout(p) \/ RecordReject(p)
    \/ SealLedger(p) \/ SealMissions(p) \/ SealCommit(p) \/ SettleUsage(p)
    \/ Unexpected(p) \/ SettleUnexpected(p)

Spec == Init /\ [][Next]_vars

-----------------------------------------------------------------------------
Historic == [requests: Nat, tokens: Amounts]
Calls ==
  {Closed} \cup [pc: {"idle"}, auth: Auths]
  \cup [pc: {"keys"}, auth: Auths, task: Tasks, bound: Amounts]
  \cup [pc: {"missions"}, auth: Auths, task: Tasks, bound: Amounts,
        keys: SUBSET Tasks]
  \cup [pc: {"mapped", "reserve"}, auth: Auths, task: Tasks, bound: Amounts,
        historic: Historic]
  \cup [pc: {"ensure", "claim", "unexpected"}, auth: Auths, task: Tasks]
  \cup [pc: {"dispatch", "sent"}, auth: Auths, claim: Claims]
  \cup [pc: {"timeout", "reject", "used"}, auth: Auths, claim: Claims,
        usage: Amounts \cup {None}]
  \cup [pc: {"seal"}, auth: Auths, claim: Claims, usage: Amounts \cup {None},
        keys: SUBSET Tasks, known: Amounts]
  \cup [pc: {"commit"}, auth: Auths, claim: Claims, usage: Amounts \cup {None},
        exceeded: BOOLEAN]
  \cup [pc: {"settle"}, auth: Auths, task: Tasks, status: Statuses,
        usage: Amounts \cup {None}]

TypeOK ==
  /\ JournalTypeOK
  /\ live \subseteq Pids
  /\ ledger \in [Tasks -> LedgerRow \cup {None}]
  /\ kept \in [Tasks -> Amounts \cup {None}]
  /\ marked \subseteq Tasks
  /\ spent \in [Tasks -> Amounts]
  /\ call \in [Pids -> Calls]

(* The provider is asked only under a reservation and a dispatch on        *)
(* record, whatever crashes or runs in between; only missions of earlier   *)
(* versions have none (dispatch reserves, claims and records first).       *)
Old == {History[n].task : n \in DOMAIN History}
AskedUnderReservation ==
  \A t \in Tasks \ Old :
    spent[t] # Zero => ledger[t] # None /\ tasks[t].ext = 1

(* A settled row says what the task ledger says: a success is committed,   *)
(* an unknown is frozen, and a known use is the one kept in the sealed     *)
(* blob; the two ledgers are written in different transactions, and a      *)
(* crash, a recovery or a failing write falls between them.                *)
LedgerFollowsJournal ==
  \A t \in InLedger :
    /\ ledger[t].status = "succeeded" => tasks[t].state = "succeeded"
    /\ ledger[t].status = "outcome_unknown" => tasks[t].state = "outcome_unknown"
    /\ ledger[t].status \in {"succeeded", "failed", "outcome_unknown"}
         => tasks[t].ext = 1
    /\ ledger[t].usage # None => kept[t] = ledger[t].usage

(* The point of the gateway: what the provider really used, reported or    *)
(* not, stays within the caps of the authorisation, and so does the number *)
(* of requests, as long as no single call uses more than its reservation.  *)
Overran == {t \in InLedger : ~Within(spent[t], ledger[t].reserved)}
SpendWithinCaps ==
  \A a \in Auths :
    /\ Overran = {} => Within(Total(spent), a.caps)
    /\ Cardinality({t \in Tasks : tasks[t].ext > 0}) <= a.requestCap

(* A new reservation fits the caps together with the reconciled missions   *)
(* and all the rows of its scopes as they stand in that transaction        *)
(* (comment at provider_gateway.py:548: the balance is recomputed from the *)
(* ledger in the reserving transaction only, own scope, digest, lineage).  *)
ReservationStep ==
  \A p \in Pids :
    At(p, "reserve") /\ call'[p].pc = "ensure"
      => LET a == Auth(p)
             rows == InScope(a.scope) \cup MappedRows(a)
             reconciled == {u \in Tasks \ InLedger : a.prior[u] # None}
             used == Plus(Charged(rows), Total([u \in reconciled |-> a.prior[u]]))
         IN Within(Plus(used, call[p].bound), a.caps)
FitsTheLedger == [][ReservationStep]_vars

(* A row is written once and settled once: it never disappears, never      *)
(* changes scope or bound, and what is settled stays.                      *)
SettleOnceStep ==
  \A t \in InLedger :
    /\ ledger'[t] # None
    /\ ledger'[t].scope = ledger[t].scope
    /\ ledger'[t].reserved = ledger[t].reserved
    /\ ledger[t].status # "reserved" => ledger'[t] = ledger[t]
RowsSettleOnce == [][SettleOnceStep]_vars
=============================================================================
