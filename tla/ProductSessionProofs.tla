------------------------- MODULE ProductSessionProofs -------------------------
(***************************************************************************)
(* Proofs about the product session, for any number of processes, tasks    *)
(* and envelopes.                                                          *)
(*                                                                         *)
(* A task is claimed once, as nothing takes a claim over and what fails    *)
(* has been dispatched; so between its claim and its dispatch a task       *)
(* belongs to one call, and the ticket this call writes is never replaced  *)
(* (TaskSound, Sound).  Envelopes are sealed once, so what a submitter or  *)
(* a consumer carries is what is sealed.                                   *)
(***************************************************************************)
EXTENDS ProductSession, JournalProofs

\* What the objects of a task and its row owe to each other.
TaskSound(t) ==
  /\ ticket[t] # None =>
       /\ Genuine(ticket[t]) /\ ticket[t].task = t /\ Fenced(ticket[t])
       /\ tasks[t].state \notin {"absent", "planned"}
  /\ tasks[t].ext = 1 => ticket[t] # None
  /\ tasks[t].state \notin {"absent", "planned", "claimed"} => tasks[t].ext = 1
  /\ SealFits(tasks[t], response[t])
  /\ response[t] # None => response[t] \in blobs[t]
  /\ consumed[t] \in {None, response[t]}
  /\ tasks[t].state # "absent" => t \in registered

\* What a call knows.
Sound(p, c) ==
  /\ c \in Calls /\ (p \notin live => c = Closed)
  /\ c.pc \in {"ensure", "claim", "read", "put", "settle", "consume"} => c.task \in registered
  /\ c.pc = "claim" => tasks[c.task].state # "absent"
  /\ c.pc \in {"ticket", "dispatch"} =>
       /\ Genuine(c.claim) /\ Fenced(c.claim)
       /\ tasks[c.claim.task].state = "claimed" /\ tasks[c.claim.task].pid = p
  /\ c.pc = "dispatch" => ticket[c.claim.task] = c.claim
  /\ c.pc \in {"put", "settle"} =>
       tasks[c.task].ext = 1 /\ c.envelope \in blobs[c.task]
  /\ c.pc \in {"settle", "consume"} => response[c.task] = c.envelope

Typed ==
  /\ live \subseteq Pids /\ registered \subseteq Tasks
  /\ ticket \in [Tasks -> Claims \cup {None}]
  /\ blobs \in [Tasks -> SUBSET Envelopes]
  /\ response \in [Tasks -> Envelopes \cup {None}]
  /\ consumed \in [Tasks -> Envelopes \cup {None}]
  /\ call = [p \in Pids |-> call[p]]

IInv ==
  /\ JournalInv /\ Typed
  /\ \A t \in Tasks : TaskSound(t)
  /\ \A p \in Pids : Sound(p, call[p])

-----------------------------------------------------------------------------
\* Calls.

HasTask == {"ensure", "response", "claim", "read", "consume", "put", "settle", "attempts",
            "state", "consumed"}
HasEnvelope == {"read", "consume", "put", "settle"}

LEMMA CallShapes ==
  ASSUME NEW c \in Calls
  PROVE  /\ c.pc \in HasTask => c.task \in Tasks
         /\ c.pc = "claim" => c.context \in Workers
         /\ c.pc \in {"ticket", "dispatch"} => c.claim \in Claims
         /\ c.pc \in HasEnvelope => c.envelope \in Envelopes
         /\ c.pc \in {"put", "settle"} => c.seen \in {"dispatch_recorded", "outcome_unknown"}
         /\ c.pc \in {"state", "consumed"} => c.sealed \in Envelopes \cup {None}
         /\ c.pc \in {"rows", "parents"} => c.objects \subseteq Tasks /\ c.related \subseteq Tasks
BY DEF Calls, Closed, Idle, Alarm, HasTask, HasEnvelope

LEMMA Nulls == None \notin Envelopes /\ None \notin Claims
BY NoneAssumption, TicketAssumption DEF Envelopes

\* Nothing that a call relies on is taken back.
Grows(p) ==
  /\ AttemptsGrow /\ registered \subseteq registered'
  /\ \A t \in Tasks :
       /\ tasks[t].state # "absent" => tasks'[t].state # "absent"
       /\ tasks[t].ext = 1 => tasks'[t].ext = 1
       /\ ticket[t] # None => ticket'[t] = ticket[t]
       /\ blobs[t] \subseteq blobs'[t]
       /\ response[t] # None => response'[t] = response[t]
  /\ \A r \in Pids \ {p} :
       /\ r \in live => r \in live'
       /\ call[r].pc \in {"ticket", "dispatch"} =>
            tasks'[call[r].claim.task] = tasks[call[r].claim.task]

LEMMA OthersStay ==
  ASSUME IInv, NEW p \in Pids, NEW d, call' = [call EXCEPT ![p] = d], Grows(p),
         NEW r \in Pids, r # p
  PROVE  Sound(r, call[r])'
<1> DEFINE c == call[r]
<1>1. call'[r] = c
  BY DEF IInv, Typed
<1>2. Sound(r, c) /\ c \in Calls
  BY DEF IInv, Sound
<1>3. c.pc \in {"ensure", "claim", "read", "put", "settle", "consume"} =>
        c.task \in Tasks /\ c.task \in registered'
  BY <1>2, CallShapes DEF Sound, Grows, HasTask
<1>4. c.pc \in {"ticket", "dispatch"} =>
        /\ Genuine(c.claim)' /\ Fenced(c.claim)'
        /\ tasks'[c.claim.task].state = "claimed" /\ tasks'[c.claim.task].pid = r
  <2> SUFFICES ASSUME c.pc \in {"ticket", "dispatch"}
               PROVE  /\ Genuine(c.claim)' /\ Fenced(c.claim)'
                      /\ tasks'[c.claim.task].state = "claimed" /\ tasks'[c.claim.task].pid = r
    OBVIOUS
  <2>1. /\ Genuine(c.claim) /\ Fenced(c.claim)
        /\ tasks[c.claim.task].state = "claimed" /\ tasks[c.claim.task].pid = r
        /\ tasks'[c.claim.task] = tasks[c.claim.task]
    BY <1>2 DEF Sound, Grows
  <2>2. QED
    BY <1>1, <2>1 DEF Genuine, Fenced, Grows, AttemptsGrow
<1>5. c.pc = "dispatch" => ticket'[c.claim.task] = c.claim
  <2> SUFFICES ASSUME c.pc = "dispatch" PROVE ticket'[c.claim.task] = c.claim
    OBVIOUS
  <2>1. c.claim \in Claims /\ c.claim.task \in Tasks
    BY <1>2, CallShapes DEF Claims
  <2>2. ticket[c.claim.task] = c.claim
    BY <1>2 DEF Sound
  <2>3. QED
    BY <2>1, <2>2, Nulls DEF Grows
<1>6. c.pc \in {"put", "settle"} => tasks'[c.task].ext = 1 /\ c.envelope \in blobs'[c.task]
  BY <1>2, <1>3 DEF Sound, Grows
<1>7. c.pc \in {"settle", "consume"} => response'[c.task] = c.envelope
  BY <1>2, <1>3, CallShapes, Nulls DEF Sound, Grows, HasEnvelope
<1>8. c.pc = "claim" => tasks'[c.task].state # "absent"
  BY <1>2, <1>3 DEF Sound, Grows
<1>9. c \in Calls /\ (r \notin live' => c = Closed)
  BY <1>2 DEF Sound, Grows
<1>10. QED
  BY <1>1, <1>3, <1>4, <1>5, <1>6, <1>7, <1>8, <1>9 DEF Sound

LEMMA Assemble ==
  ASSUME IInv, NEW p \in Pids, NEW d, call' = [call EXCEPT ![p] = d], JournalInv', Grows(p),
         Typed', \A t \in Tasks : TaskSound(t)', call'[p] = d => Sound(p, call[p])'
  PROVE  IInv'
<1>1. call'[p] = d
  BY DEF IInv, Typed
<1>2. QED
  BY <1>1, OthersStay DEF IInv

-----------------------------------------------------------------------------
\* Steps that write nothing.

LEMMA IdleSound ==
  ASSUME NEW p \in Pids, NEW c,
         c = Closed \/ (p \in live' /\ (c = Idle \/ \E check \in Checks : c = Alarm(check)))
  PROVE  Sound(p, c)'
<1>1. c \in Calls /\ c.pc \in {"closed", "idle", "alarm"}
  BY DEF Calls, Closed, Idle, Alarm
<1>2. QED
  BY <1>1 DEF Sound

LEMMA Reads ==
  ASSUME IInv, NEW p \in Pids, NEW d, call' = [call EXCEPT ![p] = d],
         UNCHANGED <<journalVars, objectVars>>, live' \subseteq Pids,
         \A r \in Pids \ {p} : r \in live => r \in live',
         call'[p] = d => Sound(p, call[p])'
  PROVE  IInv'
<1>1. /\ tasks' = tasks /\ attempts' = attempts /\ registered' = registered
      /\ ticket' = ticket /\ blobs' = blobs /\ response' = response /\ consumed' = consumed
      /\ UNCHANGED journalVars
  BY DEF journalVars, objectVars
<1>2. JournalInv' /\ AttemptsGrow
  BY <1>1, UnchangedPreserves DEF IInv, Preserved
<1>3. Grows(p)
  BY <1>1, <1>2 DEF Grows
<1>4. Typed'
  BY <1>1 DEF IInv, Typed
<1>5. \A t \in Tasks : TaskSound(t)'
  BY <1>1 DEF IInv, TaskSound, Genuine, Fenced, SealFits
<1>6. QED
  BY <1>2, <1>3, <1>4, <1>5, Assemble

LEMMA Ends ==
  ASSUME IInv, NEW p \in Pids, NEW d, call' = [call EXCEPT ![p] = d],
         UNCHANGED <<journalVars, objectVars>>,
         \/ d = Closed /\ live' \in {live \cup {p}, live \ {p}}
         \/ p \in live /\ live' = live /\ (d = Idle \/ \E check \in Checks : d = Alarm(check))
  PROVE  IInv'
<1>1. live' \subseteq Pids /\ \A r \in Pids \ {p} : r \in live => r \in live'
  BY DEF IInv, Typed
<1>2. Sound(p, d)'
  BY IdleSound
<1>3. QED
  BY <1>1, <1>2, Reads

LEMMA ReadsPreserve ==
  ASSUME IInv, NEW p \in Pids,
         \/ Start(p) \/ Exit(p) \/ BeginTask(p) \/ BeginRefused(p) \/ SubmitResult(p)
         \/ AdvanceRead(p) \/ StatusTicket(p) \/ StatusAttempts(p) \/ StatusResponse(p)
         \/ StatusState(p) \/ StatusConsumed(p) \/ InventoryObjects(p) \/ InventoryRows(p)
         \/ InventoryAttempts(p) \/ Report(p)
  PROVE  IInv'
<1> USE DEF Goto, At, Raise
<1>0. Typed /\ JournalTypeOK /\ call[p] \in Calls
  BY DEF IInv, JournalInv, Sound
<1>1. CASE Start(p) \/ Exit(p)
  BY <1>1, Ends DEF Start, Exit
<1>2. CASE BeginRefused(p) \/ Report(p)
  BY <1>2, Ends DEF BeginRefused, Report
<1>3. CASE BeginTask(p)
  <2>1. PICK t \in registered, w \in Workers :
          /\ tasks[t].state = "planned"
          /\ call' = [call EXCEPT ![p] = [pc |-> "claim", task |-> t, context |-> w]]
    BY <1>3 DEF BeginTask
  <2>2. /\ p \in live' /\ t \in Tasks /\ t \in registered' /\ tasks'[t].state # "absent"
        /\ UNCHANGED <<journalVars, objectVars>> /\ live' = live
    BY <1>0, <1>3, <2>1 DEF BeginTask, Typed, journalVars, objectVars
  <2>3. Sound(p, [pc |-> "claim", task |-> t, context |-> w])'
    BY <2>2 DEF Sound, Calls
  <2>4. QED
    BY <1>0, <2>1, <2>2, <2>3, Reads DEF Typed
<1>4. CASE SubmitResult(p)
  <2>1. PICK t \in registered, e \in Envelopes :
          call' = [call EXCEPT ![p] = [pc |-> "read", task |-> t, envelope |-> e]]
    BY <1>4 DEF SubmitResult
  <2>2. /\ p \in live' /\ t \in Tasks /\ t \in registered'
        /\ UNCHANGED <<journalVars, objectVars>> /\ live' = live
    BY <1>0, <1>4 DEF SubmitResult, Typed, objectVars
  <2>3. Sound(p, [pc |-> "read", task |-> t, envelope |-> e])'
    BY <2>2 DEF Sound, Calls
  <2>4. QED
    BY <1>0, <2>1, <2>2, <2>3, Reads DEF Typed
<1>5. CASE AdvanceRead(p)
  <2>1. PICK t \in registered :
          /\ response[t] # None
          /\ call' = [call EXCEPT ![p] =
               [pc |-> "consume", task |-> t, envelope |-> response[t]]]
    BY <1>5 DEF AdvanceRead
  <2>2. /\ p \in live' /\ t \in Tasks /\ t \in registered' /\ response[t] \in Envelopes
        /\ response'[t] = response[t]
        /\ UNCHANGED <<journalVars, objectVars>> /\ live' = live
    BY <1>0, <1>5, <2>1 DEF AdvanceRead, Typed, objectVars
  <2>3. Sound(p, [pc |-> "consume", task |-> t, envelope |-> response[t]])'
    BY <2>2 DEF Sound, Calls
  <2>4. QED
    BY <1>0, <2>1, <2>2, <2>3, Reads DEF Typed
<1>6. ASSUME NEW d, call' = [call EXCEPT ![p] = d], p \in live,
             UNCHANGED <<journalVars, live, objectVars>>, d \in Calls,
             d.pc \in {"attempts", "response", "state", "consumed", "rows", "parents"}
      PROVE  IInv'
  <2>1. Sound(p, d)'
    BY <1>6 DEF Sound
  <2>2. live' = live /\ UNCHANGED <<journalVars, objectVars>>
    BY <1>6
  <2>3. QED
    BY <1>0, <1>6, <2>1, <2>2, Reads DEF Typed
<1>7. CASE StatusTicket(p)
  <2>1. PICK t \in registered :
          \/ call' = [call EXCEPT ![p] = [pc |-> "response", task |-> t]]
          \/ call' = [call EXCEPT ![p] =
               [pc |-> "attempts", task |-> t, seen |-> tasks[t].state]]
    BY <1>7 DEF StatusTicket
  <2>2. t \in Tasks /\ tasks[t].state \in States
    BY <1>0 DEF Typed, JournalTypeOK, Row
  <2>3. /\ [pc |-> "response", task |-> t] \in Calls
        /\ [pc |-> "attempts", task |-> t, seen |-> tasks[t].state] \in Calls
    BY <2>2 DEF Calls
  <2>4. p \in live /\ UNCHANGED <<journalVars, live, objectVars>>
    BY <1>7 DEF StatusTicket
  <2>5. CASE call' = [call EXCEPT ![p] = [pc |-> "response", task |-> t]]
    BY <1>6, <2>3, <2>4, <2>5
  <2>6. CASE call' = [call EXCEPT ![p] =
               [pc |-> "attempts", task |-> t, seen |-> tasks[t].state]]
    BY <1>6, <2>3, <2>4, <2>6
  <2>7. QED
    BY <2>1, <2>5, <2>6
<1>8. CASE StatusAttempts(p)
  <2>1. call[p].pc = "attempts" /\ p \in live /\ UNCHANGED <<journalVars, live, objectVars>>
    BY <1>8 DEF StatusAttempts
  <2>2. [pc |-> "response", task |-> call[p].task] \in Calls
    BY <1>0, <2>1, CallShapes DEF HasTask, Calls
  <2>3. \/ call' = [call EXCEPT ![p] = [pc |-> "response", task |-> call[p].task]]
        \/ call' = [call EXCEPT ![p] = Alarm("ticket")]
    BY <1>8 DEF StatusAttempts
  <2>4. CASE call' = [call EXCEPT ![p] = [pc |-> "response", task |-> call[p].task]]
    BY <1>6, <2>1, <2>2, <2>4
  <2>5. CASE call' = [call EXCEPT ![p] = Alarm("ticket")]
    BY <2>1, <2>5, Ends DEF Checks
  <2>6. QED
    BY <2>3, <2>4, <2>5
<1>9. CASE StatusResponse(p)
  <2>1. /\ call[p].pc = "response" /\ p \in live
        /\ UNCHANGED <<journalVars, live, objectVars>>
        /\ call' = [call EXCEPT ![p] =
             [pc |-> "state", task |-> call[p].task, sealed |-> response[call[p].task]]]
    BY <1>9 DEF StatusResponse
  <2>2. call[p].task \in Tasks /\ response[call[p].task] \in Envelopes \cup {None}
    BY <1>0, <2>1, CallShapes DEF HasTask, Typed
  <2>3. [pc |-> "state", task |-> call[p].task, sealed |-> response[call[p].task]] \in Calls
    BY <2>2 DEF Calls
  <2>4. QED
    BY <1>6, <2>1, <2>3
<1>10. CASE StatusState(p)
  <2>1. call[p].pc = "state" /\ p \in live /\ UNCHANGED <<journalVars, live, objectVars>>
    BY <1>10 DEF StatusState
  <2>2. PICK d : d = [call[p] EXCEPT !.pc = "consumed"]
    OBVIOUS
  <2>3. call[p] \in [pc: {"state", "consumed"}, task: Tasks, sealed: Envelopes \cup {None}]
    BY <1>0, <2>1 DEF Calls, Closed, Idle, Alarm
  <2>4. d \in Calls /\ d.pc = "consumed"
    BY <2>2, <2>3 DEF Calls
  <2>5. call' = [call EXCEPT ![p] = d] \/ call' = [call EXCEPT ![p] = Alarm("sealed")]
    BY <1>10, <2>2 DEF StatusState
  <2>6. CASE call' = [call EXCEPT ![p] = d]
    BY <1>6, <2>1, <2>4, <2>6
  <2>7. CASE call' = [call EXCEPT ![p] = Alarm("sealed")]
    BY <2>1, <2>7, Ends DEF Checks
  <2>8. QED
    BY <2>5, <2>6, <2>7
<1>11. CASE StatusConsumed(p)
  <2>1. p \in live /\ UNCHANGED <<journalVars, live, objectVars>>
    BY <1>11 DEF StatusConsumed
  <2>2. \/ call' = [call EXCEPT ![p] = Idle]
        \/ call' = [call EXCEPT ![p] = Alarm("consumed")]
    BY <1>11 DEF StatusConsumed
  <2>3. QED
    BY <2>1, <2>2, Ends DEF Checks
<1>12. CASE InventoryObjects(p)
  <2>1. /\ p \in live /\ UNCHANGED <<journalVars, live, objectVars>>
        /\ call' = [call EXCEPT ![p] =
             [pc |-> "rows", objects |-> registered, related |-> Related]]
    BY <1>12 DEF InventoryObjects
  <2>2. [pc |-> "rows", objects |-> registered, related |-> Related] \in Calls
    BY <1>0 DEF Typed, Related, Calls
  <2>3. QED
    BY <1>6, <2>1, <2>2
<1>13. CASE InventoryRows(p)
  <2>1. /\ p \in live /\ UNCHANGED <<journalVars, live, objectVars>>
        /\ call[p].pc = "rows"
        /\ call' = [call EXCEPT ![p] =
             [pc |-> "parents", objects |-> call[p].objects,
              related |-> call[p].related, rows |-> Rows]]
    BY <1>13 DEF InventoryRows
  <2>2. [pc |-> "parents", objects |-> call[p].objects,
         related |-> call[p].related, rows |-> Rows] \in Calls
    BY <1>0, <2>1, CallShapes DEF Rows, Calls
  <2>3. QED
    BY <1>6, <2>1, <2>2
<1>14. CASE InventoryAttempts(p)
  <2>1. p \in live /\ UNCHANGED <<journalVars, live, objectVars>>
    BY <1>14 DEF InventoryAttempts
  <2>2. \/ call' = [call EXCEPT ![p] = Idle]
        \/ call' = [call EXCEPT ![p] = Alarm("inventory")]
    BY <1>14 DEF InventoryAttempts
  <2>3. QED
    BY <2>1, <2>2, Ends DEF Checks
<1>15. QED
  BY <1>1, <1>2, <1>3, <1>4, <1>5, <1>7, <1>8, <1>9, <1>10, <1>11, <1>12, <1>13, <1>14

-----------------------------------------------------------------------------
\* Steps that write an object.

LEMMA TaskStays ==
  ASSUME IInv, AttemptsGrow, NEW t \in Tasks, tasks'[t] = tasks[t],
         registered \subseteq registered', ticket'[t] = ticket[t],
         blobs[t] \subseteq blobs'[t], response'[t] = response[t], consumed'[t] = consumed[t]
  PROVE  TaskSound(t)'
<1>1. TaskSound(t)
  BY DEF IInv
<1>2. ticket[t] # None => Genuine(ticket[t])' /\ Fenced(ticket[t])'
  <2> SUFFICES ASSUME ticket[t] # None
               PROVE  Genuine(ticket[t])' /\ Fenced(ticket[t])'
    OBVIOUS
  <2>1. Genuine(ticket[t]) /\ Fenced(ticket[t]) /\ ticket[t].task = t
    BY <1>1 DEF TaskSound
  <2>2. QED
    BY <2>1 DEF Genuine, Fenced, AttemptsGrow
<1>3. SealFits(tasks'[t], response'[t])
  BY <1>1 DEF TaskSound
<1>4. QED
  BY <1>1, <1>2, <1>3 DEF TaskSound, SealFits

LEMMA ObjectStep ==
  ASSUME IInv, NEW p \in Pids, NEW d, call' = [call EXCEPT ![p] = d],
         UNCHANGED <<journalVars, live>>, Typed', registered \subseteq registered',
         NEW t \in Tasks,
         \A u \in Tasks \ {t} :
           /\ ticket'[u] = ticket[u] /\ blobs'[u] = blobs[u]
           /\ response'[u] = response[u] /\ consumed'[u] = consumed[u],
         ticket[t] # None => ticket'[t] = ticket[t], blobs[t] \subseteq blobs'[t],
         response[t] # None => response'[t] = response[t],
         TaskSound(t)', call'[p] = d => Sound(p, call[p])'
  PROVE  IInv'
<1>1. tasks' = tasks /\ live' = live /\ UNCHANGED journalVars
  BY DEF journalVars
<1>2. JournalInv' /\ AttemptsGrow
  BY <1>1, UnchangedPreserves DEF IInv, Preserved
<1>3. Grows(p)
  BY <1>1, <1>2 DEF Grows
<1>4. \A u \in Tasks : TaskSound(u)'
  BY <1>1, <1>2, TaskStays
<1>5. QED
  BY <1>2, <1>3, <1>4, Assemble

LEMMA PrepareTaskPreserves ==
  ASSUME IInv, NEW p \in Pids, PrepareTask(p)
  PROVE  IInv'
<1>1. PICK t \in Tasks :
        /\ registered' = registered \cup {t}
        /\ call' = [call EXCEPT ![p] = [pc |-> "ensure", task |-> t]]
  BY DEF PrepareTask, Goto
<1>2. /\ UNCHANGED <<journalVars, live>> /\ tasks' = tasks /\ p \in live'
      /\ ticket' = ticket /\ blobs' = blobs /\ response' = response /\ consumed' = consumed
  BY DEF PrepareTask, At, journalVars
<1>3. Typed' /\ registered \subseteq registered'
  BY <1>1, <1>2 DEF IInv, Typed
<1>4. AttemptsGrow
  BY <1>2, UnchangedPreserves DEF IInv, Preserved
<1>5. TaskSound(t)'
  BY <1>2, <1>3, <1>4, TaskStays
<1>6. Sound(p, [pc |-> "ensure", task |-> t])'
  BY <1>1, <1>2 DEF Sound, Calls
<1>7. QED
  BY <1>1, <1>2, <1>3, <1>5, <1>6, ObjectStep

LEMMA TicketPreserves ==
  ASSUME IInv, NEW p \in Pids, BeginTicket(p)
  PROVE  IInv'
<1>0. PICK c, t : c = call[p].claim /\ t = c.task
  OBVIOUS
<1>1. /\ p \in live /\ call[p].pc = "ticket" /\ ticket[t] \in {None, c}
      /\ ticket' = [ticket EXCEPT ![t] = c]
      /\ call' = [call EXCEPT ![p] = [pc |-> "dispatch", claim |-> c]]
  BY <1>0 DEF BeginTicket, At, Put, Goto
<1>2. /\ UNCHANGED <<journalVars, live>> /\ tasks' = tasks /\ p \in live' /\ attempts' = attempts
      /\ registered' = registered
      /\ blobs' = blobs /\ response' = response /\ consumed' = consumed
  BY DEF BeginTicket, At, journalVars
<1>3. /\ c \in Claims /\ t \in Tasks /\ Genuine(c) /\ Fenced(c)
      /\ tasks[t].state = "claimed" /\ tasks[t].pid = p
  BY <1>0, <1>1, CallShapes DEF IInv, Sound, Claims
<1>4. /\ ticket'[t] = c /\ \A u \in Tasks \ {t} : ticket'[u] = ticket[u]
      /\ ticket' \in [Tasks -> Claims \cup {None}]
  BY <1>1, <1>3 DEF IInv, Typed
<1>5. Typed'
  BY <1>1, <1>2, <1>4 DEF IInv, Typed
<1>6. Genuine(c)' /\ Fenced(c)'
  BY <1>2, <1>3 DEF Genuine, Fenced
<1>7. TaskSound(t)'
  <2>1. TaskSound(t)
    BY <1>3 DEF IInv
  <2>2. c # None
    BY <1>3, Nulls
  <2>3. ticket'[t] # None =>
          /\ Genuine(ticket[t])' /\ ticket'[t].task = t /\ Fenced(ticket[t])'
          /\ tasks'[t].state \notin {"absent", "planned"}
    BY <1>0, <1>2, <1>3, <1>4 DEF Genuine, Fenced
  <2>4. QED
    BY <1>2, <1>4, <2>1, <2>2, <2>3 DEF TaskSound, SealFits
<1>8. Sound(p, [pc |-> "dispatch", claim |-> c])'
  <2>1. [pc |-> "dispatch", claim |-> c] \in Calls
    BY <1>3 DEF Calls
  <2>2. QED
    BY <1>0, <1>2, <1>3, <1>4, <1>6, <2>1 DEF Sound
<1>9. QED
  BY <1>1, <1>2, <1>3, <1>4, <1>5, <1>7, <1>8, ObjectStep

LEMMA BlobPreserves ==
  ASSUME IInv, NEW p \in Pids, SubmitRead(p)
  PROVE  IInv'
<1>0. PICK t, e, s : t = call[p].task /\ e = call[p].envelope /\ s = tasks[t].state
  OBVIOUS
<1>1. /\ p \in live /\ call[p].pc = "read" /\ UNCHANGED <<journalVars, live>>
      /\ registered' = registered /\ ticket' = ticket /\ response' = response
      /\ consumed' = consumed /\ p \in live' /\ tasks' = tasks /\ live' = live
  BY DEF SubmitRead, At, journalVars
<1>2. /\ Typed /\ JournalInv /\ call[p] \in Calls /\ t \in Tasks /\ e \in Envelopes
      /\ t \in registered /\ TaskSound(t)
  BY <1>0, <1>1, CallShapes DEF IInv, Sound, HasTask, HasEnvelope
<1>3. CASE /\ s \notin {"dispatch_recorded", "outcome_unknown"}
           /\ Goto(p, Idle)
           /\ UNCHANGED blobs
  <2>1. UNCHANGED <<journalVars, objectVars>>
    BY <1>1, <1>3 DEF objectVars
  <2>2. QED
    BY <1>1, <1>3, <2>1, Ends DEF Goto
<1>4. CASE /\ s \in {"dispatch_recorded", "outcome_unknown"}
           /\ blobs' = [blobs EXCEPT ![t] = @ \cup {e}]
           /\ Goto(p, [pc |-> "put", task |-> t, envelope |-> e, seen |-> s])
  <2>1. /\ blobs'[t] = blobs[t] \cup {e} /\ \A u \in Tasks \ {t} : blobs'[u] = blobs[u]
        /\ blobs' \in [Tasks -> SUBSET Envelopes]
    BY <1>2, <1>4 DEF Typed
  <2>2. call' = [call EXCEPT ![p] = [pc |-> "put", task |-> t, envelope |-> e, seen |-> s]]
    BY <1>4 DEF Goto
  <2>3. Typed'
    BY <1>1, <1>2, <2>1, <2>2 DEF Typed
  <2>4. AttemptsGrow
    BY <1>1, <1>2, UnchangedPreserves DEF Preserved
  <2>5. TaskSound(t)'
    BY <1>1, <1>2, <2>1, <2>4, TaskStays
  <2>6. tasks'[t].ext = 1
    BY <1>0, <1>1, <1>2, <1>4 DEF TaskSound
  <2>7. [pc |-> "put", task |-> t, envelope |-> e, seen |-> s] \in Calls
    BY <1>2, <1>4 DEF Calls
  <2>8. Sound(p, [pc |-> "put", task |-> t, envelope |-> e, seen |-> s])'
    BY <1>1, <1>2, <2>1, <2>6, <2>7 DEF Sound
  <2>9. QED
    BY <1>1, <1>2, <2>1, <2>2, <2>3, <2>5, <2>8, ObjectStep
<1>5. QED
  BY <1>0, <1>3, <1>4 DEF SubmitRead

LEMMA SealPreserves ==
  ASSUME IInv, NEW p \in Pids, SubmitPut(p)
  PROVE  IInv'
<1>0. PICK t, e : t = call[p].task /\ e = call[p].envelope
  OBVIOUS
<1>1. /\ p \in live /\ call[p].pc = "put" /\ UNCHANGED <<journalVars, live>>
      /\ registered' = registered /\ ticket' = ticket /\ blobs' = blobs
      /\ consumed' = consumed /\ p \in live' /\ tasks' = tasks /\ attempts' = attempts
      /\ live' = live
  BY DEF SubmitPut, At, journalVars
<1>2. /\ Typed /\ JournalInv /\ call[p] \in Calls /\ t \in Tasks /\ e \in Envelopes
      /\ t \in registered /\ TaskSound(t) /\ tasks[t].ext = 1 /\ e \in blobs[t]
  BY <1>0, <1>1, CallShapes DEF IInv, Sound, HasTask, HasEnvelope
<1>3. CASE Goto(p, Idle) /\ UNCHANGED response
  <2>1. UNCHANGED <<journalVars, objectVars>>
    BY <1>1, <1>3 DEF objectVars
  <2>2. QED
    BY <1>1, <1>3, <2>1, Ends DEF Goto
<1>4. CASE Put(response, t, e) /\ Goto(p, [call[p] EXCEPT !.pc = "settle"])
  <2>1. PICK d : d = [call[p] EXCEPT !.pc = "settle"]
    OBVIOUS
  <2>2. call[p] \in [pc: {"put", "settle"}, task: Tasks, envelope: Envelopes,
                     seen: {"dispatch_recorded", "outcome_unknown"}]
    BY <1>1, <1>2 DEF Calls, Closed, Idle, Alarm
  <2>3. /\ d = [pc |-> "settle", task |-> t, envelope |-> e, seen |-> call[p].seen]
        /\ d \in Calls
    <3>1. d = [pc |-> "settle", task |-> t, envelope |-> e, seen |-> call[p].seen]
      BY <1>0, <2>1, <2>2
    <3>2. QED
      BY <1>2, <2>2, <3>1 DEF Calls
  <2>4. /\ response[t] \in {None, e} /\ response'[t] = e /\ e # None
        /\ \A u \in Tasks \ {t} : response'[u] = response[u]
        /\ response' \in [Tasks -> Envelopes \cup {None}]
    BY <1>2, <1>4, Nulls DEF Put, Typed
  <2>5. call' = [call EXCEPT ![p] = d]
    BY <1>4, <2>1 DEF Goto
  <2>6. Typed'
    BY <1>1, <1>2, <2>4, <2>5 DEF Typed
  <2>7. AttemptsGrow
    BY <1>1, <1>2, UnchangedPreserves DEF Preserved
  <2>8. TaskSound(t)'
    <3>1. CASE response[t] = e
      BY <1>1, <1>2, <2>4, <2>7, <3>1, TaskStays
    <3>2. CASE response[t] = None
      <4>1. tasks[t].state \in States /\ ~(tasks[t].state \in {"succeeded", "failed"})
        BY <1>2, <3>2 DEF TaskSound, SealFits, JournalInv, JournalTypeOK, Row
      <4>2. tasks[t].state \in {"dispatch_recorded", "outcome_unknown"}
        BY <1>2, <4>1 DEF JournalInv, DispatchedOnce, States
      <4>3. SealFits(tasks'[t], response'[t])
        BY <1>1, <1>2, <2>4, <4>2 DEF SealFits
      <4>4. consumed'[t] = None
        BY <1>1, <1>2, <3>2 DEF TaskSound
      <4>5. ticket'[t] # None => Genuine(ticket[t])' /\ Fenced(ticket[t])'
        BY <1>1, <1>2 DEF TaskSound, Genuine, Fenced
      <4>6. QED
        BY <1>1, <1>2, <2>4, <4>3, <4>4, <4>5 DEF TaskSound, SealFits
    <3>3. QED
      BY <2>4, <3>1, <3>2
  <2>9. Sound(p, d)'
    BY <1>1, <1>2, <2>3, <2>4 DEF Sound
  <2>10. QED
    BY <1>1, <1>2, <2>4, <2>5, <2>6, <2>8, <2>9, ObjectStep
<1>5. QED
  BY <1>0, <1>3, <1>4 DEF SubmitPut

LEMMA ConsumePreserves ==
  ASSUME IInv, NEW p \in Pids, AdvancePut(p)
  PROVE  IInv'
<1>0. PICK t, e : t = call[p].task /\ e = call[p].envelope
  OBVIOUS
<1>1. /\ p \in live /\ call[p].pc = "consume" /\ UNCHANGED <<journalVars, live>>
      /\ registered' = registered /\ ticket' = ticket /\ blobs' = blobs
      /\ response' = response /\ tasks' = tasks /\ attempts' = attempts /\ p \in live'
      /\ consumed' = [consumed EXCEPT ![t] = e] /\ call' = [call EXCEPT ![p] = Idle]
  BY <1>0 DEF AdvancePut, At, Put, Goto, journalVars
<1>2. /\ Typed /\ JournalInv /\ t \in Tasks /\ e \in Envelopes
      /\ TaskSound(t) /\ response[t] = e
  BY <1>0, <1>1, CallShapes DEF IInv, Sound, HasTask, HasEnvelope
<1>3. /\ consumed'[t] = e /\ \A u \in Tasks \ {t} : consumed'[u] = consumed[u]
      /\ consumed' \in [Tasks -> Envelopes \cup {None}]
  BY <1>1, <1>2 DEF Typed
<1>4. Typed'
  BY <1>1, <1>2, <1>3 DEF Typed
<1>5. ticket'[t] # None => Genuine(ticket[t])' /\ Fenced(ticket[t])'
  BY <1>1, <1>2 DEF TaskSound, Genuine, Fenced
<1>6. TaskSound(t)'
  BY <1>1, <1>2, <1>3, <1>5 DEF TaskSound, SealFits
<1>7. PICK d : d = Idle
  OBVIOUS
<1>8. call' = [call EXCEPT ![p] = d] /\ Sound(p, d)'
  BY <1>1, <1>7, IdleSound
<1>9. call'[p] = d => Sound(p, call[p])'
  BY <1>8
<1>10. /\ \A u \in Tasks \ {t} :
            /\ ticket'[u] = ticket[u] /\ blobs'[u] = blobs[u]
            /\ response'[u] = response[u] /\ consumed'[u] = consumed[u]
       /\ ticket[t] # None => ticket'[t] = ticket[t]
       /\ blobs[t] \subseteq blobs'[t]
       /\ response[t] # None => response'[t] = response[t]
       /\ registered \subseteq registered' /\ UNCHANGED <<journalVars, live>> /\ t \in Tasks
  BY <1>1, <1>2, <1>3
<1>11. QED
  BY <1>4, <1>6, <1>8, <1>9, <1>10, ObjectStep

-----------------------------------------------------------------------------
\* Steps of the ledger.

LEMMA RowStep ==
  ASSUME IInv, NEW p \in Pids, NEW d, call' = [call EXCEPT ![p] = d], Preserved,
         UNCHANGED <<live, objectVars>>, NEW t \in Tasks,
         \A u \in Tasks \ {t} : tasks'[u] = tasks[u],
         tasks'[t] = tasks[t] \/ tasks[t].state # "claimed" \/ tasks[t].pid = p,
         tasks'[t].state # "absent", tasks[t].ext = 1 => tasks'[t].ext = 1,
         TaskSound(t)', call'[p] = d => Sound(p, call[p])'
  PROVE  IInv'
<1>1. /\ live' = live /\ registered' = registered /\ ticket' = ticket /\ blobs' = blobs
      /\ response' = response /\ consumed' = consumed /\ JournalInv' /\ AttemptsGrow
  BY DEF objectVars, Preserved
<1>2. ASSUME NEW r \in Pids \ {p}, call[r].pc \in {"ticket", "dispatch"}
      PROVE  tasks'[call[r].claim.task] = tasks[call[r].claim.task]
  <2>1. /\ call[r].claim.task \in Tasks
        /\ tasks[call[r].claim.task].state = "claimed" /\ tasks[call[r].claim.task].pid = r
    BY <1>2, CallShapes DEF IInv, Sound, Claims
  <2>2. QED
    BY <2>1
<1>3. Grows(p)
  BY <1>1, <1>2 DEF Grows
<1>4. \A u \in Tasks : TaskSound(u)'
  BY <1>1, TaskStays
<1>5. Typed'
  BY <1>1 DEF IInv, Typed
<1>6. QED
  BY <1>1, <1>3, <1>4, <1>5, Assemble

LEMMA OpenPreserves ==
  ASSUME IInv, NEW p \in Pids, Open(p)
  PROVE  IInv'
<1>1. PICK exited \in ReportedExited : RecoverDispatchedUnknown(Tasks, exited, FALSE)
  BY DEF Open
<1>2. /\ p \in live /\ call' = [call EXCEPT ![p] = Idle]
      /\ live' = live /\ registered' = registered /\ ticket' = ticket /\ blobs' = blobs
      /\ response' = response /\ consumed' = consumed
  BY DEF Open, At, Goto, objectVars
<1>3. JournalInv' /\ AttemptsGrow /\ JournalInv
  BY <1>1, RecoverPreserves DEF IInv, Preserved
<1>4. ASSUME NEW t \in Tasks, tasks'[t] # tasks[t]
      PROVE  /\ tasks[t].state = "dispatch_recorded" /\ tasks'[t].state = "outcome_unknown"
             /\ tasks'[t].ext = tasks[t].ext /\ tasks'[t].token = tasks[t].token
             /\ tasks'[t].worker = tasks[t].worker /\ tasks'[t].input = tasks[t].input
  <2>1. /\ tasks'[t] = [tasks[t] EXCEPT !.state = "outcome_unknown"]
        /\ t \in Recoverable(Tasks, exited, FALSE)
    BY <1>1, <1>4 DEF RecoverDispatchedUnknown
  <2>2. tasks[t] \in Row /\ tasks[t].state = "dispatch_recorded"
    BY <1>3, <2>1 DEF Recoverable, JournalInv, JournalTypeOK
  <2>3. QED
    BY <2>1, <2>2 DEF Row
<1>5. ASSUME NEW t \in Tasks PROVE TaskSound(t)'
  <2>1. CASE tasks'[t] = tasks[t]
    BY <1>2, <1>3, <2>1, TaskStays
  <2>2. CASE tasks'[t] # tasks[t]
    <3>1. /\ tasks[t].state = "dispatch_recorded" /\ tasks'[t].state = "outcome_unknown"
          /\ tasks'[t].ext = tasks[t].ext /\ tasks'[t].token = tasks[t].token
          /\ tasks'[t].worker = tasks[t].worker /\ tasks'[t].input = tasks[t].input
          /\ TaskSound(t)
      BY <1>4, <2>2 DEF IInv
    <3>2. ticket[t] # None => Genuine(ticket[t])' /\ Fenced(ticket[t])'
      <4> SUFFICES ASSUME ticket[t] # None PROVE Genuine(ticket[t])' /\ Fenced(ticket[t])'
        OBVIOUS
      <4>1. Genuine(ticket[t]) /\ Fenced(ticket[t]) /\ ticket[t].task = t
        BY <3>1 DEF TaskSound
      <4>2. QED
        BY <1>2, <1>3, <3>1, <4>1 DEF Genuine, Fenced, AttemptsGrow
    <3>3. SealFits(tasks'[t], response'[t])
      BY <1>2, <3>1 DEF TaskSound, SealFits
    <3>4. QED
      BY <1>2, <3>1, <3>2, <3>3 DEF TaskSound, SealFits
  <2>3. QED
    BY <2>1, <2>2
<1>6. ASSUME NEW r \in Pids \ {p}, call[r].pc \in {"ticket", "dispatch"}
      PROVE  tasks'[call[r].claim.task] = tasks[call[r].claim.task]
  <2>1. /\ call[r].claim.task \in Tasks
        /\ tasks[call[r].claim.task].state = "claimed"
    BY <1>6, CallShapes DEF IInv, Sound, Claims
  <2>2. QED
    BY <1>4, <2>1
<1>7. Grows(p)
  <2>1. \A t \in Tasks :
          /\ tasks[t].state # "absent" => tasks'[t].state # "absent"
          /\ tasks[t].ext = 1 => tasks'[t].ext = 1
    BY <1>4
  <2>2. QED
    BY <1>2, <1>3, <1>6, <2>1 DEF Grows
<1>8. Typed'
  BY <1>2 DEF IInv, Typed
<1>9. PICK d : d = Idle
  OBVIOUS
<1>10. call' = [call EXCEPT ![p] = d] /\ Sound(p, d)'
  BY <1>2, <1>9, IdleSound
<1>11. QED
  BY <1>3, <1>5, <1>7, <1>8, <1>10, Assemble

LEMMA PrepareEnsurePreserves ==
  ASSUME IInv, NEW p \in Pids, PrepareEnsure(p)
  PROVE  IInv'
<1>0. PICK t : t = call[p].task
  OBVIOUS
<1>1. /\ p \in live /\ call[p].pc = "ensure" /\ EnsureTask(t, InputDigest[t])
      /\ call' = [call EXCEPT ![p] = Idle] /\ UNCHANGED <<live, objectVars>>
      /\ live' = live /\ registered' = registered /\ ticket' = ticket /\ blobs' = blobs
      /\ response' = response /\ consumed' = consumed
  BY <1>0 DEF PrepareEnsure, At, Goto, objectVars
<1>2. /\ JournalInv /\ t \in Tasks /\ t \in registered /\ TaskSound(t)
      /\ InputDigest[t] \in Inputs
  BY <1>0, <1>1, CallShapes, InputDigestAssumption DEF IInv, Sound, HasTask
<1>3. Preserved /\ AttemptsGrow
  BY <1>1, <1>2, EnsurePreserves DEF Preserved
<1>4. /\ \A u \in Tasks \ {t} : tasks'[u] = tasks[u]
      /\ tasks[t].state # "absent" => tasks'[t] = tasks[t]
      /\ tasks[t].state = "absent" => tasks'[t] = Planned(InputDigest[t])
  BY <1>1, <1>2 DEF EnsureTask, RowOrPlanned, JournalInv, JournalTypeOK
<1>5. TaskSound(t)'
  <2>1. CASE tasks[t].state # "absent"
    BY <1>1, <1>2, <1>3, <1>4, <2>1, TaskStays
  <2>2. CASE tasks[t].state = "absent"
    <3>1. ticket[t] = None /\ response[t] = None /\ consumed[t] = None
      BY <1>2, <2>2 DEF TaskSound, SealFits
    <3>2. tasks'[t].state = "planned" /\ tasks'[t].ext = 0
      BY <1>4, <2>2 DEF Planned
    <3>3. QED
      BY <1>1, <1>2, <3>1, <3>2 DEF TaskSound, SealFits
  <2>3. QED
    BY <2>1, <2>2
<1>6. PICK d : d = Idle
  OBVIOUS
<1>7. call' = [call EXCEPT ![p] = d] /\ Sound(p, d)'
  BY <1>1, <1>6, IdleSound
<1>8. /\ tasks'[t] = tasks[t] \/ tasks[t].state # "claimed" \/ tasks[t].pid = p
      /\ tasks'[t].state # "absent" /\ (tasks[t].ext = 1 => tasks'[t].ext = 1)
  <2>1. tasks[t].state = "absent" => tasks[t].ext # 1 /\ tasks'[t].state # "absent"
    BY <1>2, <1>4 DEF JournalInv, DispatchedOnce, Planned
  <2>2. QED
    BY <1>4, <2>1
<1>9. QED
  BY <1>1, <1>2, <1>3, <1>4, <1>5, <1>7, <1>8, RowStep

LEMMA BeginClaimPreserves ==
  ASSUME IInv, NEW p \in Pids, BeginClaim(p)
  PROVE  IInv'
<1>0. PICK t, w, i, c : /\ t = call[p].task /\ w = call[p].context
                        /\ i = InputDigest[t] /\ c = IssuedClaim(t, w, i)
  OBVIOUS
<1>1. /\ p \in live /\ call[p].pc = "claim" /\ Claim(t, w, i, p)
      /\ call' = [call EXCEPT ![p] = [pc |-> "ticket", claim |-> c]]
      /\ UNCHANGED <<live, objectVars>>
      /\ live' = live /\ registered' = registered /\ ticket' = ticket /\ blobs' = blobs
      /\ response' = response /\ consumed' = consumed
  BY <1>0 DEF BeginClaim, At, Goto, objectVars
<1>2. /\ JournalInv /\ t \in Tasks /\ t \in registered /\ TaskSound(t)
      /\ w \in Workers /\ i \in Inputs /\ tasks[t].state # "absent"
  BY <1>0, <1>1, CallShapes, InputDigestAssumption DEF IInv, Sound, HasTask
<1>3. Preserved /\ AttemptsGrow
  BY <1>1, <1>2, ClaimPreserves DEF Preserved
<1>4. /\ tasks[t].state \in {"planned", "failed"} /\ tasks[t].ext = 0
      /\ RowOrPlanned(t, i) = tasks[t] /\ tasks[t].input = i
  BY <1>1, <1>2 DEF Claim, CanClaim, RowOrPlanned, Claimable
<1>5. tasks[t].state = "planned" /\ ticket[t] = None
  BY <1>2, <1>4 DEF TaskSound
<1>6. response[t] = None /\ consumed[t] = None
  BY <1>2, <1>5 DEF TaskSound, SealFits
<1>7. PICK r : r = [tasks[t] EXCEPT !.state = "claimed", !.token = lastToken + 1,
                                    !.worker = w, !.pid = p]
  OBVIOUS
<1>8. /\ r.state = "claimed" /\ r.token = lastToken + 1 /\ r.worker = w /\ r.pid = p
      /\ r.ext = 0 /\ r.input = i
  <2>1. tasks[t] \in Row
    BY <1>2 DEF JournalInv, JournalTypeOK
  <2>2. QED
    BY <1>4, <1>7, <2>1 DEF Row
<1>9. tasks'[t] = r /\ \A u \in Tasks \ {t} : tasks'[u] = tasks[u]
  BY <1>1, <1>2, <1>4, <1>7 DEF Claim, Issue, JournalInv, JournalTypeOK
<1>10. Genuine(c)' /\ c.task = t /\ c.token = lastToken + 1 /\ c.worker = w /\ c.input = i
  <2>1. Issue(t, tasks[t], w, i, p)
    BY <1>1, <1>4 DEF Claim
  <2>2. Genuine(c)'
    BY <1>0, <1>2, <2>1, IssuedGenuine
  <2>3. QED
    BY <1>0, <2>2 DEF IssuedClaim
<1>11. Fenced(c)'
  BY <1>8, <1>9, <1>10 DEF Fenced
<1>12. TaskSound(t)'
  BY <1>1, <1>2, <1>5, <1>6, <1>8, <1>9 DEF TaskSound, SealFits
<1>13. Sound(p, [pc |-> "ticket", claim |-> c])'
  <2>1. [pc |-> "ticket", claim |-> c] \in Calls
    BY <1>10 DEF Genuine, Calls
  <2>2. QED
    BY <1>1, <1>8, <1>9, <1>10, <1>11, <2>1 DEF Sound
<1>14. /\ tasks'[t] = tasks[t] \/ tasks[t].state # "claimed" \/ tasks[t].pid = p
       /\ tasks'[t].state # "absent" /\ (tasks[t].ext = 1 => tasks'[t].ext = 1)
  BY <1>4, <1>5, <1>8, <1>9
<1>15. QED
  BY <1>1, <1>2, <1>3, <1>9, <1>12, <1>13, <1>14, RowStep

\* A step that settles row t on the claim of its ticket, or on the one being dispatched.
LEMMA MoveStep ==
  ASSUME IInv, NEW p \in Pids, call' = [call EXCEPT ![p] = Idle], p \in live,
         UNCHANGED <<live, objectVars>>, Preserved,
         NEW t \in Tasks, ticket[t] # None, NEW r, tasks' = [tasks EXCEPT ![t] = r],
         r.token = tasks[t].token, r.worker = tasks[t].worker, r.input = tasks[t].input,
         r.ext = 1, r.state \notin {"absent", "planned"}, SealFits(r, response[t]),
         tasks[t].state # "claimed" \/ tasks[t].pid = p
  PROVE  IInv'
<1>1. /\ live' = live /\ registered' = registered /\ ticket' = ticket /\ blobs' = blobs
      /\ response' = response /\ consumed' = consumed /\ AttemptsGrow /\ JournalInv
      /\ TaskSound(t)
  BY DEF objectVars, Preserved, IInv
<1>2. tasks'[t] = r /\ \A u \in Tasks \ {t} : tasks'[u] = tasks[u]
  BY <1>1 DEF JournalInv, JournalTypeOK
<1>3. Genuine(ticket[t])' /\ Fenced(ticket[t])' /\ ticket[t].task = t
  <2>1. Genuine(ticket[t]) /\ Fenced(ticket[t]) /\ ticket[t].task = t
    BY <1>1 DEF TaskSound
  <2>2. QED
    BY <1>1, <1>2, <2>1 DEF Genuine, Fenced, AttemptsGrow
<1>4. t \in registered
  BY <1>1 DEF TaskSound
<1>5. TaskSound(t)'
  BY <1>1, <1>2, <1>3, <1>4 DEF TaskSound, SealFits
<1>6. PICK d : d = Idle
  OBVIOUS
<1>7. call' = [call EXCEPT ![p] = d] /\ Sound(p, d)'
  BY <1>1, <1>6, IdleSound
<1>8. /\ tasks'[t] = tasks[t] \/ tasks[t].state # "claimed" \/ tasks[t].pid = p
      /\ tasks'[t].state # "absent" /\ (tasks[t].ext = 1 => tasks'[t].ext = 1)
  BY <1>2
<1>9. QED
  BY <1>2, <1>5, <1>7, <1>8, RowStep

LEMMA BeginDispatchPreserves ==
  ASSUME IInv, NEW p \in Pids, BeginDispatch(p)
  PROVE  IInv'
<1>0. PICK c, t : c = call[p].claim /\ t = c.task
  OBVIOUS
<1>1. /\ p \in live /\ call[p].pc = "dispatch" /\ RecordDispatch(c)
      /\ call' = [call EXCEPT ![p] = Idle] /\ UNCHANGED <<live, objectVars>>
  BY <1>0 DEF BeginDispatch, At, Goto
<1>2. /\ JournalInv /\ c \in Claims /\ t \in Tasks /\ Genuine(c) /\ TaskSound(t)
      /\ tasks[t].state = "claimed" /\ tasks[t].pid = p /\ ticket[t] = c /\ ticket[t] # None
  BY <1>0, <1>1, CallShapes, Nulls DEF IInv, Sound, Claims
<1>3. Preserved
  BY <1>1, <1>2, DispatchPreserves
<1>4. PICK r : r = [tasks[t] EXCEPT !.state = "dispatch_recorded", !.ext = tasks[t].ext + 1]
  OBVIOUS
<1>5. tasks' = [tasks EXCEPT ![t] = r]
  BY <1>0, <1>1, <1>4 DEF RecordDispatch
<1>6. tasks[t] \in Row /\ tasks[t].ext = 0
  BY <1>2 DEF JournalInv, JournalTypeOK, DispatchedOnce
<1>7. /\ r.token = tasks[t].token /\ r.worker = tasks[t].worker /\ r.input = tasks[t].input
      /\ r.ext = 1 /\ r.state = "dispatch_recorded"
  BY <1>4, <1>6 DEF Row
<1>8. response[t] = None
  BY <1>2 DEF TaskSound, SealFits
<1>9. SealFits(r, response[t])
  BY <1>7, <1>8 DEF SealFits
<1>10. QED
  BY <1>1, <1>2, <1>3, <1>5, <1>7, <1>9, MoveStep

LEMMA SubmitSettlePreserves ==
  ASSUME IInv, NEW p \in Pids, SubmitSettle(p)
  PROVE  IInv'
<1>0. PICK t, e, c : t = call[p].task /\ e = call[p].envelope /\ c = ticket[t]
  OBVIOUS
<1>1. /\ p \in live /\ call[p].pc = "settle"
      /\ (Judge(c, e, call[p].seen) \/ UNCHANGED journalVars)
      /\ call' = [call EXCEPT ![p] = Idle] /\ UNCHANGED <<live, objectVars>>
  BY <1>0 DEF SubmitSettle, At, Goto
<1>2. /\ JournalInv /\ t \in Tasks /\ e \in Envelopes /\ TaskSound(t)
      /\ tasks[t].ext = 1 /\ response[t] = e
  BY <1>0, <1>1, CallShapes DEF IInv, Sound, HasTask, HasEnvelope
<1>3. ticket[t] # None /\ Genuine(c) /\ c.task = t /\ tasks[t] \in Row /\ e # None
  BY <1>0, <1>2, Nulls DEF TaskSound, JournalInv, JournalTypeOK
<1>4. tasks[t].state # "claimed"
  BY <1>2 DEF JournalInv, DispatchedOnce
<1>5. CASE UNCHANGED journalVars
  <2>1. UNCHANGED <<journalVars, objectVars>> /\ live' = live
    BY <1>1, <1>5
  <2>2. QED
    BY <1>1, <2>1, Ends
<1>6. CASE e \in Good /\ Commit(c, e)
  <2>1. PICK r : r = [tasks[t] EXCEPT !.state = "succeeded", !.output = e]
    OBVIOUS
  <2>2. tasks' = [tasks EXCEPT ![t] = r]
    BY <1>3, <1>6, <2>1 DEF Commit
  <2>3. /\ r.token = tasks[t].token /\ r.worker = tasks[t].worker /\ r.input = tasks[t].input
        /\ r.ext = 1 /\ r.state = "succeeded" /\ r.output = e
    BY <1>2, <1>3, <2>1 DEF Row
  <2>4. SealFits(r, response[t])
    BY <1>2, <1>3, <1>6, <2>3 DEF SealFits
  <2>5. Preserved
    BY <1>2, <1>3, <1>6, CommitPreserves DEF Envelopes
  <2>6. QED
    BY <1>1, <1>2, <1>3, <1>4, <2>2, <2>3, <2>4, <2>5, MoveStep
<1>7. CASE e \notin Good /\ RecordFailure(c, "failed")
  <2>1. PICK r : r = [tasks[t] EXCEPT !.state = "failed"]
    OBVIOUS
  <2>2. tasks' = [tasks EXCEPT ![t] = r]
    BY <1>3, <1>7, <2>1 DEF RecordFailure
  <2>3. /\ r.token = tasks[t].token /\ r.worker = tasks[t].worker /\ r.input = tasks[t].input
        /\ r.ext = 1 /\ r.state = "failed"
    BY <1>2, <1>3, <2>1 DEF Row
  <2>4. SealFits(r, response[t])
    BY <1>2, <1>3, <1>7, <2>3 DEF SealFits
  <2>5. Preserved
    BY <1>2, <1>3, <1>7, FailurePreserves
  <2>6. QED
    BY <1>1, <1>2, <1>3, <1>4, <2>2, <2>3, <2>4, <2>5, MoveStep
<1>8. QED
  BY <1>1, <1>5, <1>6, <1>7 DEF Judge

-----------------------------------------------------------------------------
LEMMA InitInv == Init => IInv
<1> SUFFICES ASSUME Init PROVE IInv
  OBVIOUS
<1>1. JournalInv
  BY InitEstablishes DEF Init, JournalInit
<1>2. Typed
  BY DEF Init, Typed
<1>3. \A t \in Tasks : tasks[t] = NoRow
  BY DEF Init, Fresh
<1>4. ASSUME NEW t \in Tasks PROVE TaskSound(t)
  <2>1. tasks[t].state = "absent" /\ tasks[t].ext = 0
    BY <1>3 DEF NoRow
  <2>2. ticket[t] = None /\ response[t] = None /\ consumed[t] = None
    BY DEF Init
  <2>3. QED
    BY <2>1, <2>2 DEF TaskSound, SealFits
<1>5. ASSUME NEW p \in Pids PROVE Sound(p, call[p])
  BY DEF Init, Sound, Closed, Calls
<1>6. QED
  BY <1>1, <1>2, <1>4, <1>5 DEF IInv

LEMMA StepInv == IInv /\ [Next]_vars => IInv'
<1> SUFFICES ASSUME IInv, [Next]_vars PROVE IInv'
  OBVIOUS
<1>1. CASE UNCHANGED vars
  <2>1. /\ UNCHANGED journalVars /\ call' = call
        /\ live' = live /\ registered' = registered /\ ticket' = ticket /\ blobs' = blobs
        /\ response' = response /\ consumed' = consumed /\ tasks' = tasks
        /\ attempts' = attempts
    BY <1>1 DEF vars, journalVars
  <2>2. JournalInv'
    BY <2>1, UnchangedPreserves DEF IInv, Preserved
  <2>3. Typed'
    BY <2>1 DEF IInv, Typed
  <2>4. \A t \in Tasks : TaskSound(t)'
    BY <2>1 DEF IInv, TaskSound, Genuine, Fenced, SealFits
  <2>5. \A p \in Pids : Sound(p, call[p])'
    BY <2>1 DEF IInv, Sound, Genuine, Fenced
  <2>6. QED
    BY <2>2, <2>3, <2>4, <2>5 DEF IInv
<1>2. ASSUME NEW p \in Pids, Start(p) \/ Exit(p) \/ Enter(p) \/ Continue(p) PROVE IInv'
  <2>1. \/ \/ Start(p) \/ Exit(p) \/ BeginTask(p) \/ BeginRefused(p) \/ SubmitResult(p)
           \/ AdvanceRead(p) \/ StatusTicket(p) \/ StatusAttempts(p) \/ StatusResponse(p)
           \/ StatusState(p) \/ StatusConsumed(p) \/ InventoryObjects(p) \/ InventoryRows(p)
           \/ InventoryAttempts(p) \/ Report(p)
        \/ PrepareTask(p) \/ BeginTicket(p) \/ SubmitRead(p) \/ SubmitPut(p) \/ AdvancePut(p)
        \/ Open(p) \/ PrepareEnsure(p) \/ BeginClaim(p) \/ BeginDispatch(p) \/ SubmitSettle(p)
    BY <1>2, Zenon DEF Enter, Continue
  <2>2. QED
    BY <2>1, ReadsPreserve, PrepareTaskPreserves, TicketPreserves, BlobPreserves,
       SealPreserves, ConsumePreserves, OpenPreserves, PrepareEnsurePreserves,
       BeginClaimPreserves, BeginDispatchPreserves, SubmitSettlePreserves
<1>3. QED
  BY <1>1, <1>2 DEF Next

LEMMA Inductive == Spec => []IInv
<1>1. Init => IInv
  BY InitInv
<1>2. IInv /\ [Next]_vars => IInv'
  BY StepInv
<1>3. QED
  BY <1>1, <1>2, PTL DEF Spec

(* In every reachable state each variable has its type, whatever calls the *)
(* sessions are in (the rows of journal.py and the product objects).       *)
THEOREM TypeCorrect == Spec => []TypeOK
<1>1. IInv => TypeOK
  <2> SUFFICES ASSUME IInv PROVE TypeOK
    OBVIOUS
  <2>1. JournalTypeOK /\ Typed /\ \A p \in Pids : call[p] \in Calls
    BY DEF IInv, JournalInv, Sound
  <2>2. call \in [Pids -> Calls]
    BY <2>1 DEF Typed
  <2>3. QED
    BY <2>1, <2>2 DEF TypeOK, Typed
<1>2. QED
  BY <1>1, Inductive, PTL

(* The ticket that begin_task wrote in one transaction and the row it      *)
(* dispatched in another always name the same attempt, and nothing is ever *)
(* dispatched without a ticket, whoever else begins, recovers or crashes.  *)
THEOREM TicketCurrent == Spec => []TicketIsCurrent
<1>1. IInv => TicketIsCurrent
  <2> SUFFICES ASSUME IInv, NEW t \in Tasks
               PROVE  /\ ticket[t] # None =>
                           /\ ticket[t].attempt = tasks[t].token
                           /\ Fenced(ticket[t])
                           /\ tasks[t].state \notin {"absent", "planned"}
                      /\ tasks[t].ext > 0 => ticket[t] # None
    BY DEF TicketIsCurrent
  <2>1. TaskSound(t) /\ JournalInv /\ tasks[t].ext \in {0, 1}
    BY DEF IInv, JournalInv, DispatchedOnce
  <2>2. ticket[t] # None => ticket[t].attempt = tasks[t].token
    BY <2>1, FencedFacts DEF TaskSound
  <2>3. QED
    BY <2>1, <2>2 DEF TaskSound
<1>2. QED
  BY <1>1, Inductive, PTL

(* The response, the verdict and the output agree, a verdict has its       *)
(* response and the response its bytes, although submit_host_result writes *)
(* them one after the other and _sealed reads them in any state between.   *)
THEOREM Sealed == Spec => []SealedAgrees
<1>1. IInv => SealedAgrees
  BY DEF IInv, TaskSound, SealedAgrees
<1>2. QED
  BY <1>1, Inductive, PTL

(* Taken in one read view, the objects, rows and attempts never lack a     *)
(* parent: assert_product_task_inventory reports no case that the sessions *)
(* themselves wrote.                                                       *)
THEOREM Inventory == Spec => []InventoryWhole
<1>1. IInv => InventoryWhole
  <2> SUFFICES ASSUME IInv PROVE InventoryWhole
    OBVIOUS
  <2>0. JournalInv /\ Typed /\ \A t \in Tasks : TaskSound(t)
    BY DEF IInv
  <2>1. Rows \subseteq registered
    BY <2>0 DEF Rows, TaskSound
  <2>2. Related \subseteq Rows
    <3> SUFFICES ASSUME NEW t \in Tasks,
                        ticket[t] # None \/ response[t] # None \/ consumed[t] # None
                 PROVE  tasks[t].state # "absent"
      BY DEF Related, Rows
    <3>1. TaskSound(t)
      BY <2>0
    <3>2. CASE ticket[t] # None
      BY <3>1, <3>2 DEF TaskSound
    <3>3. CASE response[t] # None \/ consumed[t] # None
      BY <3>1, <3>3 DEF TaskSound, SealFits
    <3>4. QED
      BY <3>2, <3>3
  <2>3. Attempted \subseteq Rows
    <3> SUFFICES ASSUME NEW n \in DOMAIN attempts
                 PROVE  /\ attempts[n].task \in Tasks
                        /\ tasks[attempts[n].task].state # "absent"
      BY DEF Attempted, Rows
    <3>1. /\ DOMAIN attempts = 1..Len(attempts) /\ Len(attempts) \in Nat
          /\ attempts[n].task \in Tasks
      BY <2>0, RowFacts DEF Attempt
    <3>2. n <= tasks[attempts[n].task].token
      BY <2>0 DEF JournalInv, AttemptsOwned
    <3>3. tasks[attempts[n].task].state = "absent" => tasks[attempts[n].task].token = 0
      BY <2>0, <3>1, RowFacts
    <3>4. QED
      BY <3>1, <3>2, <3>3
  <2>4. QED
    BY <2>1, <2>2, <2>3 DEF InventoryWhole, InventoryFits
<1>2. QED
  BY <1>1, Inductive, PTL

(* Whoever is about to settle a task carries the envelope that is sealed,  *)
(* however many submitters raced for the seal (submit_host_result between  *)
(* put_product_object and commit).                                         *)
THEOREM SettlesSealed == Spec => []SettlesTheSealed
<1>1. IInv => SettlesTheSealed
  BY DEF IInv, Sound, SettlesTheSealed
<1>2. QED
  BY <1>1, Inductive, PTL

-----------------------------------------------------------------------------
\* Refinement.

verdictBar == [t \in Tasks |-> Verdict(tasks[t])]

LEMMA Verdicts ==
  ASSUME NEW row
  PROVE  /\ row.state \in {"absent", "planned", "claimed"} => Verdict(row) = "none"
         /\ row.state = "dispatch_recorded" => Verdict(row) = "sent"
         /\ row.state \in {"succeeded", "failed", "outcome_unknown"} =>
              Verdict(row) = row.state
BY DEF Verdict

LEMMA VerdictKept ==
  ASSUME \A t \in Tasks : Verdict(tasks'[t]) = Verdict(tasks[t])
  PROVE  verdictBar' = verdictBar
BY DEF verdictBar

LEMMA VerdictMoves ==
  ASSUME NEW t \in Tasks, NEW v, Verdict(tasks'[t]) = v,
         \A u \in Tasks \ {t} : tasks'[u] = tasks[u]
  PROVE  verdictBar' = [verdictBar EXCEPT ![t] = v]
BY DEF verdictBar

LEMMA ObjectsMap ==
  ASSUME IInv, NEW p \in Pids,
         \/ Start(p) \/ Exit(p) \/ BeginTask(p) \/ BeginRefused(p) \/ SubmitResult(p)
         \/ AdvanceRead(p) \/ StatusTicket(p) \/ StatusAttempts(p) \/ StatusResponse(p)
         \/ StatusState(p) \/ StatusConsumed(p) \/ InventoryObjects(p) \/ InventoryRows(p)
         \/ InventoryAttempts(p) \/ Report(p)
         \/ PrepareTask(p) \/ BeginTicket(p) \/ SubmitRead(p)
  PROVE  verdictBar' = verdictBar /\ response' = response /\ consumed' = consumed
<1> USE DEF journalVars, objectVars
<1>1. CASE Start(p) \/ Exit(p) \/ BeginTask(p) \/ BeginRefused(p) \/ SubmitResult(p)
  BY <1>1 DEF Start, Exit, BeginTask, BeginRefused, SubmitResult, verdictBar
<1>2. CASE AdvanceRead(p) \/ StatusTicket(p) \/ StatusAttempts(p) \/ StatusResponse(p)
  BY <1>2 DEF AdvanceRead, StatusTicket, StatusAttempts, StatusResponse, verdictBar
<1>3. CASE StatusState(p) \/ StatusConsumed(p) \/ InventoryObjects(p) \/ InventoryRows(p)
  BY <1>3 DEF StatusState, StatusConsumed, InventoryObjects, InventoryRows, verdictBar
<1>4. CASE InventoryAttempts(p) \/ Report(p) \/ PrepareTask(p) \/ BeginTicket(p) \/ SubmitRead(p)
  BY <1>4 DEF InventoryAttempts, Report, PrepareTask, BeginTicket, SubmitRead, verdictBar
<1>5. QED
  BY <1>1, <1>2, <1>3, <1>4

(* The seal is a Seal, or repeats the envelope already sealed.             *)
LEMMA SealMaps ==
  ASSUME IInv, NEW p \in Pids, SubmitPut(p)
  PROVE  \/ Promise!Next
         \/ verdictBar' = verdictBar /\ response' = response /\ consumed' = consumed
<1>0. PICK t, e : t = call[p].task /\ e = call[p].envelope
  OBVIOUS
<1>1. /\ call[p].pc = "put" /\ tasks' = tasks /\ consumed' = consumed
      /\ \/ Put(response, t, e)
         \/ UNCHANGED response
  BY <1>0 DEF SubmitPut, At, journalVars
<1>2. /\ Typed /\ JournalInv /\ t \in Tasks /\ e \in Envelopes
      /\ TaskSound(t) /\ tasks[t].ext = 1 /\ verdictBar' = verdictBar
  BY <1>0, <1>1, CallShapes DEF IInv, Sound, HasTask, HasEnvelope, verdictBar
<1>3. CASE response[t] = None /\ Put(response, t, e)
  <2>1. tasks[t].state \in {"dispatch_recorded", "outcome_unknown"}
    <3>1. tasks[t].state \in States /\ ~(tasks[t].state \in {"succeeded", "failed"})
      BY <1>2, <1>3 DEF TaskSound, SealFits, JournalInv, JournalTypeOK, Row
    <3>2. QED
      BY <1>2, <3>1 DEF JournalInv, DispatchedOnce, States
  <2>2. verdictBar[t] \in {"sent", "outcome_unknown"}
    BY <1>2, <2>1, Verdicts DEF verdictBar
  <2>3. Promise!Seal(t, e)
    BY <1>1, <1>2, <1>3, <2>2 DEF Promise!Seal, Put, verdictBar
  <2>4. QED
    BY <1>2, <2>3 DEF Promise!Next
<1>4. CASE response[t] = e /\ Put(response, t, e)
  <2>1. response' = response
    BY <1>2, <1>4 DEF Put, Typed
  <2>2. QED
    BY <1>1, <1>2, <2>1
<1>5. QED
  BY <1>1, <1>2, <1>3, <1>4 DEF Put

(* What advance consumes is what is sealed.                                *)
LEMMA ConsumeMaps ==
  ASSUME IInv, NEW p \in Pids, AdvancePut(p)
  PROVE  \/ Promise!Next
         \/ verdictBar' = verdictBar /\ response' = response /\ consumed' = consumed
<1>0. PICK t, e : t = call[p].task /\ e = call[p].envelope
  OBVIOUS
<1>1. /\ call[p].pc = "consume" /\ tasks' = tasks /\ response' = response
      /\ consumed[t] \in {None, e} /\ consumed' = [consumed EXCEPT ![t] = e]
  BY <1>0 DEF AdvancePut, At, Put, journalVars
<1>2. /\ Typed /\ t \in Tasks /\ e \in Envelopes /\ response[t] = e /\ e # None
      /\ verdictBar' = verdictBar
  BY <1>0, <1>1, CallShapes, Nulls DEF IInv, Sound, HasTask, HasEnvelope, verdictBar
<1>3. CASE consumed[t] = None
  <2>1. Promise!Consume(t)
    BY <1>1, <1>2, <1>3 DEF Promise!Consume, verdictBar
  <2>2. QED
    BY <1>2, <2>1 DEF Promise!Next
<1>4. CASE consumed[t] = e
  BY <1>1, <1>2, <1>4 DEF Typed
<1>5. QED
  BY <1>1, <1>3, <1>4

(* A recovery pass gives up dispatched tasks.                              *)
LEMMA OpenMaps ==
  ASSUME IInv, NEW p \in Pids, Open(p)
  PROVE  Promise!Next
<1>1. PICK exited \in ReportedExited : RecoverDispatchedUnknown(Tasks, exited, FALSE)
  BY DEF Open
<1>2. response' = response /\ consumed' = consumed /\ tasks \in [Tasks -> Row]
  BY DEF Open, objectVars, IInv, JournalInv, JournalTypeOK
<1>3. PICK lost : lost = Recoverable(Tasks, exited, FALSE)
  OBVIOUS
<1>4. lost \in SUBSET Tasks /\ \A t \in lost : verdictBar[t] = "sent"
  BY <1>3, Verdicts DEF Recoverable, verdictBar
<1>5. \A t \in Tasks :
        /\ t \notin lost => tasks'[t] = tasks[t]
        /\ t \in lost => tasks'[t] = [tasks[t] EXCEPT !.state = "outcome_unknown"]
  BY <1>1, <1>3 DEF RecoverDispatchedUnknown
<1>6. \A t \in lost : tasks'[t].state = "outcome_unknown"
  BY <1>2, <1>4, <1>5 DEF Row
<1>7. \A t \in lost : Verdict(tasks'[t]) = "outcome_unknown"
  BY <1>6, Verdicts
<1>8. verdictBar' = [t \in Tasks |->
        IF t \in lost THEN "outcome_unknown" ELSE verdictBar[t]]
  BY <1>5, <1>7 DEF verdictBar
<1>9. Promise!GiveUp(lost)
  BY <1>2, <1>4, <1>8 DEF Promise!GiveUp, verdictBar
<1>10. QED
  BY <1>4, <1>9 DEF Promise!Next

(* Registering and claiming say nothing.                                   *)
LEMMA ClaimMaps ==
  ASSUME IInv, NEW p \in Pids, PrepareEnsure(p) \/ BeginClaim(p)
  PROVE  verdictBar' = verdictBar /\ response' = response /\ consumed' = consumed
<1>0. PICK t, w, i : t = call[p].task /\ w = call[p].context /\ i = InputDigest[t]
  OBVIOUS
<1>1. response' = response /\ consumed' = consumed
  BY DEF PrepareEnsure, BeginClaim, objectVars
<1>2. call[p].pc \in {"ensure", "claim"}
  BY DEF PrepareEnsure, BeginClaim, At
<1>3. t \in Tasks /\ tasks \in [Tasks -> Row] /\ TaskSound(t)
  BY <1>0, <1>2, CallShapes DEF IInv, Sound, HasTask, JournalInv, JournalTypeOK
<1>4. CASE PrepareEnsure(p)
  <2>1. EnsureTask(t, i)
    BY <1>0, <1>4 DEF PrepareEnsure
  <2>2. \A u \in Tasks :
          \/ tasks'[u] = tasks[u]
          \/ u = t /\ tasks[t].state = "absent" /\ tasks'[u] = Planned(i)
    BY <1>3, <2>1 DEF EnsureTask, RowOrPlanned
  <2>3. Planned(i).state = "planned"
    BY DEF Planned
  <2>4. \A u \in Tasks : Verdict(tasks'[u]) = Verdict(tasks[u])
    BY <2>2, <2>3, Verdicts
  <2>5. QED
    BY <1>1, <2>4, VerdictKept
<1>5. CASE BeginClaim(p)
  <2>1. Claim(t, w, i, p)
    BY <1>0, <1>5 DEF BeginClaim
  <2>2. tasks[t].state = "planned" /\ RowOrPlanned(t, i) = tasks[t]
    <3>1. tasks[t].state # "absent"
      BY <1>0, <1>5 DEF IInv, Sound, BeginClaim, At
    <3>2. QED
      BY <1>3, <2>1, <3>1 DEF Claim, CanClaim, RowOrPlanned, Claimable, TaskSound
  <2>3. PICK r : r = [tasks[t] EXCEPT !.state = "claimed", !.token = lastToken + 1,
                                      !.worker = w, !.pid = p]
    OBVIOUS
  <2>4. r.state = "claimed"
    BY <1>3, <2>3 DEF Row
  <2>5. tasks'[t] = r /\ \A u \in Tasks \ {t} : tasks'[u] = tasks[u]
    BY <1>3, <2>1, <2>2, <2>3 DEF Claim, Issue
  <2>6. Verdict(tasks'[t]) = Verdict(tasks[t])
    BY <2>2, <2>4, <2>5, Verdicts
  <2>7. QED
    BY <1>1, <2>5, <2>6, VerdictKept
<1>6. QED
  BY <1>4, <1>5

(* A recorded dispatch is the only Send.                                   *)
LEMMA SendMaps ==
  ASSUME IInv, NEW p \in Pids, BeginDispatch(p)
  PROVE  Promise!Next
<1>0. PICK c, t : c = call[p].claim /\ t = c.task
  OBVIOUS
<1>1. /\ call[p].pc = "dispatch" /\ RecordDispatch(c)
      /\ response' = response /\ consumed' = consumed
  BY <1>0 DEF BeginDispatch, At, objectVars
<1>2. /\ t \in Tasks /\ tasks[t].state = "claimed" /\ tasks \in [Tasks -> Row]
  BY <1>0, <1>1, CallShapes DEF IInv, Sound, Claims, JournalInv, JournalTypeOK
<1>3. PICK r : r = [tasks[t] EXCEPT !.state = "dispatch_recorded", !.ext = tasks[t].ext + 1]
  OBVIOUS
<1>4. r.state = "dispatch_recorded"
  BY <1>2, <1>3 DEF Row
<1>5. tasks'[t] = r /\ \A u \in Tasks \ {t} : tasks'[u] = tasks[u]
  BY <1>0, <1>1, <1>2, <1>3 DEF RecordDispatch
<1>6. verdictBar' = [verdictBar EXCEPT ![t] = "sent"] /\ verdictBar[t] = "none"
  BY <1>2, <1>4, <1>5, Verdicts, VerdictMoves DEF verdictBar
<1>7. Promise!Send(t)
  BY <1>1, <1>2, <1>6 DEF Promise!Send, verdictBar
<1>8. QED
  BY <1>2, <1>7 DEF Promise!Next

(* The verdict is the one the sealed envelope calls for.                   *)
LEMMA SettleMaps ==
  ASSUME IInv, NEW p \in Pids, SubmitSettle(p)
  PROVE  \/ Promise!Next
         \/ verdictBar' = verdictBar /\ response' = response /\ consumed' = consumed
<1>0. PICK t, e, c : t = call[p].task /\ e = call[p].envelope /\ c = ticket[t]
  OBVIOUS
<1>1. /\ call[p].pc = "settle" /\ (Judge(c, e, call[p].seen) \/ UNCHANGED journalVars)
      /\ response' = response /\ consumed' = consumed
  BY <1>0 DEF SubmitSettle, At, objectVars
<1>2. /\ JournalInv /\ t \in Tasks /\ e \in Envelopes /\ TaskSound(t)
      /\ tasks[t].ext = 1 /\ response[t] = e
  BY <1>0, <1>1, CallShapes DEF IInv, Sound, HasTask, HasEnvelope
<1>3. c.task = t /\ tasks \in [Tasks -> Row] /\ e # None
  BY <1>0, <1>2, Nulls DEF TaskSound, JournalInv, JournalTypeOK
<1>4. CASE UNCHANGED journalVars
  BY <1>1, <1>4 DEF journalVars, verdictBar
<1>5. CASE Judge(c, e, call[p].seen)
  <2>1. PICK r, s : /\ s = IF e \in Good THEN "succeeded" ELSE "failed"
                    /\ r = IF e \in Good
                           THEN [tasks[t] EXCEPT !.state = "succeeded", !.output = e]
                           ELSE [tasks[t] EXCEPT !.state = "failed"]
    OBVIOUS
  <2>2. r.state = s /\ s \in {"succeeded", "failed"}
    BY <1>2, <1>3, <2>1 DEF Row
  <2>3. tasks[t].state \in Active /\ tasks' = [tasks EXCEPT ![t] = r]
    <3>1. CASE e \in Good
      BY <1>3, <1>5, <2>1, <3>1 DEF Judge, Commit
    <3>2. CASE e \notin Good
      BY <1>3, <1>5, <2>1, <3>2 DEF Judge, RecordFailure
    <3>3. QED
      BY <3>1, <3>2
  <2>4. tasks[t].state = "dispatch_recorded"
    BY <1>2, <2>3 DEF Active, JournalInv, DispatchedOnce
  <2>5. tasks'[t] = r /\ \A u \in Tasks \ {t} : tasks'[u] = tasks[u]
    BY <1>2, <1>3, <2>3
  <2>6. verdictBar' = [verdictBar EXCEPT ![t] = s] /\ verdictBar[t] = "sent"
    <3>1. Verdict(tasks'[t]) = s
      BY <2>2, <2>5, Verdicts
    <3>2. QED
      BY <1>2, <2>4, <2>5, <3>1, Verdicts, VerdictMoves DEF verdictBar
  <2>7. Promise!Judge(t)
    BY <1>1, <1>2, <1>3, <2>1, <2>6 DEF Promise!Judge, verdictBar
  <2>8. QED
    BY <1>2, <2>7 DEF Promise!Next
<1>6. QED
  BY <1>1, <1>4, <1>5

LEMMA StepMaps ==
  IInv /\ [Next]_vars => [Promise!Next]_<<verdictBar, response, consumed>>
<1> SUFFICES ASSUME IInv, [Next]_vars
             PROVE  \/ Promise!Next
                    \/ verdictBar' = verdictBar /\ response' = response /\ consumed' = consumed
  OBVIOUS
<1>1. CASE UNCHANGED vars
  BY <1>1 DEF vars, verdictBar
<1>2. ASSUME NEW p \in Pids, Start(p) \/ Exit(p) \/ Enter(p) \/ Continue(p)
      PROVE  \/ Promise!Next
             \/ verdictBar' = verdictBar /\ response' = response /\ consumed' = consumed
  <2>1. \/ \/ Start(p) \/ Exit(p) \/ BeginTask(p) \/ BeginRefused(p) \/ SubmitResult(p)
           \/ AdvanceRead(p) \/ StatusTicket(p) \/ StatusAttempts(p) \/ StatusResponse(p)
           \/ StatusState(p) \/ StatusConsumed(p) \/ InventoryObjects(p) \/ InventoryRows(p)
           \/ InventoryAttempts(p) \/ Report(p)
           \/ PrepareTask(p) \/ BeginTicket(p) \/ SubmitRead(p)
        \/ SubmitPut(p) \/ AdvancePut(p)
        \/ Open(p) \/ PrepareEnsure(p) \/ BeginClaim(p) \/ BeginDispatch(p) \/ SubmitSettle(p)
    BY <1>2, Zenon DEF Enter, Continue
  <2>2. QED
    BY <2>1, ObjectsMap, SealMaps, ConsumeMaps, OpenMaps, ClaimMaps, SendMaps, SettleMaps
<1>3. QED
  BY <1>1, <1>2 DEF Next

LEMMA InitMaps == Init => Promise!Init
<1> SUFFICES ASSUME Init PROVE Promise!Init
  OBVIOUS
<1>1. \A t \in Tasks : tasks[t].state = "absent"
  BY DEF Init, Fresh, NoRow
<1>2. \A t \in Tasks : Verdict(tasks[t]) = "none"
  BY <1>1, Verdicts
<1>3. QED
  BY <1>2 DEF Init, Promise!Init

(* The session keeps the promise of SealedResult: one dispatch, one seal   *)
(* never replaced, at most one verdict and never against the seal, and     *)
(* only what is sealed is consumed, for every number of processes racing   *)
(* and crashing between the transactions of a call.                        *)
THEOREM KeepsPromise == Spec => ImplementsSealedResult
<1>1. Init => Promise!Init
  BY InitMaps
<1>2. IInv /\ [Next]_vars => [Promise!Next]_<<verdictBar, response, consumed>>
  BY StepMaps
<1>3. QED
  BY Inductive, <1>1, <1>2, PTL DEF Spec, ImplementsSealedResult, Promise!Spec, verdictBar
=============================================================================
