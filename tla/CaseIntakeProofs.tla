--------------------------- MODULE CaseIntakeProofs ---------------------------
(***************************************************************************)
(* Proofs about import, projection, creation and registration, for any     *)
(* number of paths, processes, claims and registrations.                   *)
(*                                                                         *)
(* A call that writes owns its task: the row is claimed, by its process    *)
(* and with its claim, and no other call can move it (Owned).  So the      *)
(* records of a task have one writer at a time, and what this writer has   *)
(* seen of them is still so when it writes (Staged, Timely); the records   *)
(* themselves only grow (Grows).                                           *)
(***************************************************************************)
EXTENDS CaseIntake, JournalProofs

----------------------------------------------------------------------------
\* What is true of a call.

Fields == {"at", "task", "input", "seen", "claim", "found", "repeat", "audit"}
Importing == {"audit", "insert", "source", "add_source", "canonical", "alias"}
Holding == Importing \cup {"record", "commit", "fail"}
Is(c, kind) == c.at # "idle" /\ c.task[1] = kind

Shaped(c) ==
  /\ DOMAIN c = Fields /\ c.at \in Stages
  /\ c.at # "idle" => c.task \in Tasks /\ c.input \in Inputs
  /\ c.at \notin Holding => c.claim = None
  /\ c.at \in Importing \cup {"verify"} => Is(c, "import")
  /\ c.at = "record" => ~Is(c, "import")
  /\ c.repeat => Is(c, "import") /\ c.at \in {"acquire", "commit"}

\* The task of a call that writes is its own.
Owned(p, c) == c.at \in Holding =>
  /\ Genuine(c.claim) /\ Fenced(c.claim)
  /\ c.claim.task = c.task /\ c.claim.input = c.input
  /\ tasks[c.task].state = "claimed" /\ tasks[c.task].pid = p

\* What an import and the other calls have read and written so far.
StagedImport(c) == Is(c, "import") =>
  /\ c.at = "insert" => \A n \in DOMAIN audits : audits[n] # c.task[2]
  /\ c.at \in {"source", "add_source", "canonical", "alias"} =>
       c.audit \in DOMAIN audits /\ audits[c.audit] = c.task[2]
  /\ c.at \in {"source", "add_source"} => c.task[2] \in saved
  /\ c.at \in {"canonical", "alias"} /\ c.task[2] \in saved => source # 0
  /\ c.at = "alias" => attachment # "none"
  /\ c.at \in {"verify", "commit"} \/ c.repeat => aliases[c.task[2]] # 0

StagedOther(c) ==
  /\ Is(c, "project") /\ c.at = "commit" => projected
  /\ Is(c, "create") /\ c.at = "commit" => job
  /\ Is(c, "subject") => tasks[Provenance].state = "succeeded"
  /\ Is(c, "subject") /\ c.at = "commit" => subject
  /\ Is(c, "provenance") /\ c.at \in Holding =>
       declarations = IF c.at = "commit" THEN 1 ELSE 0

Timely(c) == Is(c, "time") =>
  /\ c.task[2] <= Len(times) /\ c.input \in 1..stamp
  /\ IF c.at = "commit" THEN \E n \in DOMAIN times : times[n] = c.input
     ELSE \A n \in DOMAIN times : times[n] # c.input

Sound(p, c) ==
  /\ Shaped(c) /\ Owned(p, c) /\ StagedImport(c) /\ StagedOther(c) /\ Timely(c)
  /\ p \notin live => c = Idle

\* Two registrations under way were given different stamps.
Apart(c, d) == Is(c, "time") /\ Is(d, "time") => c.input # d.input

----------------------------------------------------------------------------
\* What is true of the records.

Typed ==
  /\ live \subseteq Pids /\ given \in Cases /\ DOMAIN call = Pids
  /\ audits \in Seq(Paths) /\ source \in 0..Len(audits)
  /\ attachment \in {"none", "unsourced", "sourced"}
  /\ aliases \in [Paths -> 0..Len(audits)]
  /\ projected \in BOOLEAN /\ job \in BOOLEAN /\ subject \in BOOLEAN
  /\ declarations \in {0, 1}
  /\ times \in Seq(1..MaxStamps) /\ Len(times) <= MaxTimes /\ stamp \in 0..MaxStamps

AuditedOnce == \A m, n \in DOMAIN audits : audits[m] = audits[n] => m = n

\* An alias is written last.
AliasesLast == \A q \in Paths : aliases[q] # 0 =>
  /\ audits[aliases[q]] = q /\ attachment # "none"
  /\ q \in saved => source # 0

Succeeded(t) == tasks[t].state = "succeeded"

Stored ==
  /\ \A q \in Paths : Succeeded(Import(q)) => aliases[q] # 0
  /\ Succeeded(Projection) => projected
  /\ Succeeded(Creation) => job
  /\ Succeeded(Provenance) => declarations = 1
  /\ Succeeded(Subject) => subject /\ Succeeded(Provenance)
  /\ \A n \in 0..(MaxTimes - 1) : Succeeded(Time(n)) =>
       \E m \in DOMAIN times : times[m] = tasks[Time(n)].input

\* The n-th time evidence is the one the n-th task was registered for.
Numbered == \A n \in DOMAIN times :
  /\ times[n] \in 1..stamp
  /\ tasks[Time(n - 1)].state # "absent" /\ tasks[Time(n - 1)].input = times[n]

Declared == declarations = 1 => tasks[Provenance].state \in {"claimed", "succeeded"}

Records == AuditedOnce /\ AliasesLast /\ Stored /\ Numbered /\ Declared

IInv ==
  /\ JournalInv /\ Typed /\ Records
  /\ \A p \in Pids : Sound(p, call[p])
  /\ \A p, r \in Pids : p # r => Apart(call[p], call[r])

----------------------------------------------------------------------------
\* The tasks.

LEMMA TaskShapes ==
  /\ \A q \in Paths : Import(q) \in Tasks /\ Import(q)[1] = "import" /\ Import(q)[2] = q
  /\ Projection \in Tasks /\ Projection[1] = "project"
  /\ Creation \in Tasks /\ Creation[1] = "create"
  /\ Provenance \in Tasks /\ Provenance[1] = "provenance"
  /\ Subject \in Tasks /\ Subject[1] = "subject"
  /\ \A n \in 0..(MaxTimes - 1) : Time(n) \in Tasks /\ Time(n)[1] = "time" /\ Time(n)[2] = n
BY IntakeAssumption DEF IntakeTasks, Import, Projection, Creation, Provenance, Subject, Time

LEMMA TaskKinds ==
  ASSUME NEW t \in Tasks
  PROVE  /\ t[1] \in {"import", "project", "create", "provenance", "subject", "time"}
         /\ t[1] = "import" => t[2] \in Paths /\ t = Import(t[2])
         /\ t[1] = "project" => t = Projection
         /\ t[1] = "create" => t = Creation
         /\ t[1] = "provenance" => t = Provenance
         /\ t[1] = "subject" => t = Subject
         /\ t[1] = "time" => t[2] \in 0..(MaxTimes - 1) /\ t = Time(t[2])
<1>1. \/ \E q \in Paths : t = Import(q)
      \/ t \in {Projection, Provenance, Subject, Creation}
      \/ \E n \in 0..(MaxTimes - 1) : t = Time(n)
  BY IntakeAssumption DEF IntakeTasks
<1>2. QED
  BY <1>1, TaskShapes

----------------------------------------------------------------------------
\* A step of one process.

Moves(p, d) == Preserved /\ call' = [call EXCEPT ![p] = d] /\ given' = given

\* A row keeps its input, and moves only for the process that owns it.
RowsKept(p) ==
  /\ \A t \in Tasks : tasks[t].state # "absent" =>
       tasks'[t].state # "absent" /\ tasks'[t].input = tasks[t].input
  /\ \A r \in Pids \ {p} : call[r].at \in Holding => tasks'[call[r].task] = tasks[call[r].task]

\* Records are never taken back.
Grows ==
  /\ \A n \in DOMAIN audits : n \in DOMAIN audits' /\ audits'[n] = audits[n]
  /\ source # 0 => source' = source
  /\ attachment # "none" => attachment' # "none"
  /\ \A q \in Paths : aliases[q] # 0 => aliases'[q] = aliases[q]
  /\ projected => projected'
  /\ job => job'
  /\ subject => subject'
  /\ Len(times) <= Len(times')
  /\ \A n \in DOMAIN times : n \in DOMAIN times' /\ times'[n] = times[n]

\* Nor are those written that another call has found missing.
Undisturbed(p) ==
  \A r \in Pids \ {p} :
    /\ Is(call[r], "import") /\ call[r].at = "insert" =>
         \A n \in DOMAIN audits' : audits'[n] # call[r].task[2]
    /\ Is(call[r], "provenance") /\ call[r].at \in Holding => declarations' = declarations
    /\ Is(call[r], "time") /\ call[r].at # "commit" =>
         \A n \in DOMAIN times' : times'[n] # call[r].input

Elsewhere(p) ==
  /\ \A r \in Pids \ {p} : r \in live => r \in live'
  /\ stamp \in Nat /\ stamp' \in Nat /\ stamp <= stamp'

\* The other calls stay what they were.
LEMMA OthersStay ==
  ASSUME IInv, NEW p \in Pids, NEW d, Moves(p, d), RowsKept(p), Grows, Undisturbed(p),
         Elsewhere(p), NEW r \in Pids, r # p
  PROVE  call'[r] = call[r] /\ Sound(r, call[r])'
<1> DEFINE c == call[r]
<1>1. call'[r] = c
  BY DEF Moves, IInv, Typed
<1>2. Sound(r, c) /\ AttemptsGrow /\ TerminalStep /\ given' = given
  BY DEF IInv, Moves, Preserved
<1>t. c.at # "idle" => c.task \in Tasks
  BY <1>2 DEF Sound, Shaped
<1>p. Is(c, "import") => c.task[2] \in Paths
  BY <1>t, TaskKinds DEF Is
<1>3. Owned(r, c)'
  <2> SUFFICES ASSUME c.at \in Holding
               PROVE  Owned(r, c)'
    BY <1>1 DEF Owned
  <2>1. /\ Genuine(c.claim) /\ Fenced(c.claim)
        /\ c.claim.task = c.task /\ c.claim.input = c.input
        /\ tasks[c.task].state = "claimed" /\ tasks[c.task].pid = r
    BY <1>2 DEF Sound, Owned
  <2>2. tasks'[c.task] = tasks[c.task]
    BY DEF RowsKept
  <2>3. Genuine(c.claim)'
    BY <2>1, <1>1, <1>2 DEF Genuine, AttemptsGrow
  <2>4. QED
    BY <2>1, <2>2, <2>3, <1>1 DEF Owned, Fenced
<1>4. StagedImport(c)'
  BY <1>1, <1>2, <1>p DEF Sound, StagedImport, Grows, Undisturbed, Is, saved, IInv, Typed
<1>5. StagedOther(c)'
  BY <1>1, <1>2, TaskShapes DEF Sound, StagedOther, Grows, Undisturbed, Is, TerminalStep, FinalRow
<1>6. Timely(c)'
  BY <1>1, <1>2, <1>t, TaskKinds DEF Sound, Timely, Grows, Undisturbed, Is, Elsewhere, IInv, Typed
<1>7. Shaped(c)' /\ (r \notin live' => call'[r] = Idle)
  BY <1>1, <1>2 DEF Sound, Shaped, Elsewhere, Is
<1>8. QED
  BY <1>1, <1>3, <1>4, <1>5, <1>6, <1>7 DEF Sound

LEMMA Assemble ==
  ASSUME IInv, NEW p \in Pids, NEW d, Moves(p, d), RowsKept(p), Grows, Undisturbed(p),
         Elsewhere(p), Typed', Records', call'[p] = d => Sound(p, call[p])',
         \A r \in Pids \ {p} : Apart(d, call[r])
  PROVE  IInv'
<1>1. \A r \in Pids : r # p => call'[r] = call[r] /\ Sound(r, call[r])'
  BY OthersStay
<1>2. call'[p] = d
  BY DEF Moves, IInv, Typed
<1>3. \A q, r \in Pids : q # r => Apart(call[q], call[r])'
  BY <1>1, <1>2 DEF IInv, Apart
<1>4. QED
  BY <1>1, <1>2, <1>3 DEF IInv, Moves, Preserved

----------------------------------------------------------------------------
\* The steps that write to the ledger.

\* What a call knows of itself.
LEMMA CallFacts ==
  ASSUME IInv, NEW p \in Pids, call[p].at # "idle"
  PROVE  /\ Sound(p, call[p]) /\ p \in live
         /\ call[p].task \in Tasks /\ call[p].input \in Inputs
         /\ DOMAIN call = Pids /\ DOMAIN call[p] = Fields
<1>1. Sound(p, call[p]) /\ DOMAIN call = Pids
  BY DEF IInv, Typed
<1>2. Idle.at = "idle"
  BY DEF Idle
<1>3. QED
  BY <1>1, <1>2 DEF Sound, Shaped

\* A writer runs, and its task is claimed for it.
LEMMA WriterFacts ==
  ASSUME IInv, NEW r \in Pids, call[r].at \in Holding
  PROVE  /\ r \in live /\ call[r].task \in Tasks
         /\ tasks[call[r].task].state = "claimed" /\ tasks[call[r].task].pid = r
<1>1. call[r].at # "idle"
  BY DEF Holding, Importing
<1>2. QED
  BY <1>1, CallFacts DEF Sound, Owned

LEMMA IdleSound ==
  ASSUME NEW p \in Pids, NEW c, c = Idle
  PROVE  Sound(p, c)'
<1>1. Idle.at = "idle" /\ DOMAIN Idle = Fields /\ Idle.claim = None /\ Idle.repeat = FALSE
  BY DEF Idle, Fields
<1>2. QED
  BY <1>1 DEF Sound, Shaped, Owned, StagedImport, StagedOther, Timely, Is, Holding, Importing, Stages

LEMMA IdleApart == ASSUME NEW c PROVE Apart(Idle, c)
BY DEF Idle, Apart, Is

\* Records and processes as they were, every other row as it was, and nothing
\* newly succeeded or failed but what is accounted for.
LEMMA LedgerMoves ==
  ASSUME IInv, NEW p \in Pids, NEW d, Moves(p, d), RowsKept(p),
         UNCHANGED records, UNCHANGED <<live, stamp>>, Stored', Declared',
         call'[p] = d => Sound(p, call[p])', \A r \in Pids \ {p} : Apart(d, call[r])
  PROVE  IInv'
<1>1. /\ audits' = audits /\ source' = source /\ attachment' = attachment /\ aliases' = aliases
      /\ projected' = projected /\ job' = job /\ declarations' = declarations
      /\ subject' = subject /\ times' = times
      /\ live' = live /\ stamp' = stamp /\ given' = given
  BY DEF records, importVars, registryVars, Moves
<1>2. \A r \in Pids : Sound(r, call[r])
  BY DEF IInv
<1>3. Grows
  BY <1>1 DEF Grows, IInv, Typed
<1>4. Undisturbed(p)
  BY <1>1, <1>2 DEF Undisturbed, Sound, StagedImport, Timely
<1>5. Elsewhere(p)
  BY <1>1 DEF Elsewhere, IInv, Typed
<1>6. Typed'
  BY <1>1 DEF IInv, Typed, Moves
<1>7. AuditedOnce' /\ AliasesLast'
  BY <1>1 DEF IInv, Records, AuditedOnce, AliasesLast, saved
<1>8. Numbered'
  <2> SUFFICES ASSUME NEW n \in DOMAIN times
               PROVE  /\ times[n] \in 1..stamp
                      /\ tasks'[Time(n - 1)].state # "absent"
                      /\ tasks'[Time(n - 1)].input = times[n]
    BY <1>1 DEF Numbered, Time
  <2>1. n - 1 \in 0..(MaxTimes - 1)
    BY IntakeAssumption DEF IInv, Typed
  <2>2. QED
    BY <2>1, TaskShapes DEF IInv, Records, Numbered, RowsKept
<1>9. Records'
  BY <1>7, <1>8 DEF Records
<1>10. QED
  BY <1>3, <1>4, <1>5, <1>6, <1>9, Assemble

LEMMA StoredStays ==
  ASSUME IInv, NEW p \in Pids, RowsKept(p), Preserved, UNCHANGED records, given' = given,
         \A t \in Tasks : tasks'[t].state = "succeeded" => tasks[t].state = "succeeded"
  PROVE  Stored'
<1>1. /\ aliases' = aliases /\ projected' = projected /\ job' = job
      /\ declarations' = declarations /\ subject' = subject /\ times' = times
  BY DEF records, importVars, registryVars
<1>2. Stored
  BY DEF IInv, Records
<1>3. \A t \in Tasks : tasks[t].state = "succeeded" => tasks'[t] = tasks[t]
  BY DEF Preserved, TerminalStep, FinalRow
<1>4. \A t \in Tasks : Succeeded(t)' => Succeeded(t)
  BY DEF Succeeded
<1>5. (\A q \in Paths : Succeeded(Import(q)) => aliases[q] # 0)'
  BY <1>1, <1>2, <1>4, TaskShapes DEF Stored, Import
<1>6. /\ Succeeded(Projection)' => projected'
      /\ Succeeded(Creation)' => job'
      /\ Succeeded(Provenance)' => declarations' = 1
      /\ Succeeded(Subject)' => subject' /\ Succeeded(Provenance)'
  BY <1>1, <1>2, <1>3, <1>4, TaskShapes DEF Stored, Succeeded
<1>7. (\A n \in 0..(MaxTimes - 1) : Succeeded(Time(n)) =>
         \E m \in DOMAIN times : times[m] = tasks[Time(n)].input)'
  <2> SUFFICES ASSUME NEW n \in 0..(MaxTimes - 1), tasks'[Time(n)].state = "succeeded"
               PROVE  \E m \in DOMAIN times : times[m] = tasks'[Time(n)].input
    BY <1>1 DEF Succeeded, Time
  <2>1. Time(n) \in Tasks
    BY TaskShapes
  <2>2. QED
    BY <1>2, <1>3, <2>1 DEF Stored, Succeeded
<1>8. QED
  BY <1>5, <1>6, <1>7 DEF Stored, Projection, Creation, Provenance, Subject

\* A transaction on one row, which is kept if another call owns it.
LEMMA OneRow ==
  ASSUME NEW p \in Pids, NEW t \in Tasks,
         \A u \in Tasks : u # t => tasks'[u] = tasks[u],
         tasks[t].state # "absent" =>
           tasks'[t].state # "absent" /\ tasks'[t].input = tasks[t].input,
         IInv,
         tasks[t].state = "claimed" /\ tasks[t].pid \in live \ {p} => tasks'[t] = tasks[t]
  PROVE  RowsKept(p)
BY WriterFacts DEF RowsKept

\* Stamps and inputs of registrations differ as long as their calls are the same.
LEMMA SameApart ==
  ASSUME IInv, NEW p \in Pids, NEW d, d.task = call[p].task, d.input = call[p].input,
         d.at # "idle" => call[p].at # "idle"
  PROVE  \A r \in Pids \ {p} : Apart(d, call[r])
BY DEF IInv, Apart, Is

LEMMA RegisterDeclared ==
  ASSUME IInv, UNCHANGED records,
         tasks[Provenance].state \in {"claimed", "succeeded"} =>
           tasks'[Provenance].state \in {"claimed", "succeeded"}
  PROVE  Declared'
BY DEF IInv, Records, Declared, records, registryVars, Provenance

LEMMA EnsureStep ==
  ASSUME IInv, NEW p \in Pids, Ensure(p)
  PROVE  IInv'
<1> DEFINE c == call[p]
           t == c.task
           i == c.input
<1>1. /\ c.at = "ensure" /\ Sound(p, c) /\ t \in Tasks /\ i \in Inputs
      /\ DOMAIN call = Pids /\ DOMAIN c = Fields /\ EnsureTask(t, i)
      /\ UNCHANGED records /\ live' = live /\ given' = given /\ stamp' = stamp
  BY CallFacts DEF Ensure, At, Quiet
<1>2. Preserved
  BY <1>1, EnsurePreserves DEF IInv
<1>3. /\ \A u \in Tasks : u # t => tasks'[u] = tasks[u]
      /\ tasks'[t] = RowOrPlanned(t, i)
  BY <1>1 DEF EnsureTask, IInv, JournalInv, JournalTypeOK
<1>4. /\ tasks[t].state # "absent" => tasks'[t] = tasks[t]
      /\ tasks[t].state = "absent" => tasks'[t].state = "planned"
  BY <1>3 DEF RowOrPlanned, Planned
<1>5. RowsKept(p)
  BY <1>1, <1>3, <1>4, OneRow
<1>6. Stored'
  <2>1. \A u \in Tasks : tasks'[u].state = "succeeded" => tasks[u].state = "succeeded"
    BY <1>3, <1>4
  <2>2. QED
    BY <2>1, <1>1, <1>2, <1>5, StoredStays
<1>7. Declared'
  BY <1>1, <1>3, <1>4, TaskShapes, RegisterDeclared
<1>8. PICK d : /\ call' = [call EXCEPT ![p] = d]
               /\ d = Idle \/ \E s : d = [c EXCEPT !.at = "acquire", !.seen = s]
  BY DEF Ensure, Goto
<1>9. CASE d = Idle
  <2>1. Sound(p, d)' /\ call'[p] = d
    BY <1>1, <1>8, <1>9, IdleSound DEF Idle
  <2>2. QED
    BY <1>1, <1>2, <1>5, <1>6, <1>7, <1>8, <1>9, <2>1, IdleApart, LedgerMoves DEF Moves
<1>10. CASE \E s : d = [c EXCEPT !.at = "acquire", !.seen = s]
  <2>1. /\ DOMAIN d = Fields /\ d.at = "acquire" /\ d.task = t /\ d.input = i
        /\ d.claim = c.claim /\ d.repeat = c.repeat
    BY <1>1, <1>10 DEF Fields
  <2>2. Shaped(d) /\ ~d.repeat /\ call'[p] = d
    BY <1>1, <1>8, <2>1 DEF Sound, Shaped, Is, Holding, Importing, Stages
  <2>3. StagedOther(d)'
    BY <1>1, <1>2, <2>1, <2>2, TaskShapes
       DEF Sound, StagedOther, Is, Holding, Importing, Preserved, TerminalStep, FinalRow
  <2>4. StagedImport(d)' /\ Owned(p, d)'
    BY <2>1, <2>2 DEF StagedImport, Owned, Is, Holding, Importing
  <2>5. Timely(d)'
    BY <1>1, <2>1 DEF Sound, Timely, Is, records, registryVars
  <2>6. p \in live'
    BY <1>1, CallFacts
  <2>7. Sound(p, d)'
    BY <2>2, <2>3, <2>4, <2>5, <2>6 DEF Sound, Shaped, Is
  <2>8. \A r \in Pids \ {p} : Apart(d, call[r])
    BY <1>1, <2>1, SameApart
  <2>9. QED
    BY <1>1, <1>2, <1>5, <1>6, <1>7, <1>8, <2>2, <2>7, <2>8, LedgerMoves DEF Moves
<1>11. QED
  BY <1>8, <1>9, <1>10

LEMMA AcquireStep ==
  ASSUME IInv, NEW p \in Pids, Acquire(p)
  PROVE  IInv'
<1> DEFINE c == call[p]
           t == c.task
           i == c.input
<1>0. PICK k, d : /\ k = IssuedClaim(t, Local, i)
                  /\ d = [c EXCEPT !.at = FirstWrite(p), !.seen = None, !.claim = k]
  OBVIOUS
<1>1. /\ c.at = "acquire" /\ Sound(p, c) /\ t \in Tasks /\ i \in Inputs
      /\ DOMAIN call = Pids /\ DOMAIN c = Fields
      /\ call' = [call EXCEPT ![p] = d] /\ p \in live
      /\ UNCHANGED records /\ live' = live /\ given' = given /\ stamp' = stamp
  BY <1>0, CallFacts DEF Acquire, At, Quiet, Goto
<1>2. \/ /\ TakesOver(p)
         /\ \E exited \in SUBSET (Pids \ live) : TakeoverStaleClaim(t, Local, i, p, exited)
      \/ ~TakesOver(p) /\ Claim(t, Local, i, p)
  BY DEF Acquire
<1>3. Preserved
  BY <1>1, <1>2, IntakeAssumption, ClaimPreserves, TakeoverPreserves DEF IInv
<1>4. RowOrPlanned(t, i) \in Row /\ tasks[t] \in Row
  BY <1>1, RowFacts, MaxTokensAssumption DEF RowOrPlanned, Planned, Row, States, IInv
<1>5. PICK row \in Row :
        /\ Issue(t, row, Local, i, p) /\ row.input = i
        /\ tasks[t].state # "absent" => row = tasks[t]
        /\ \/ CanClaim(t, i)
           \/ tasks[t].state = "claimed" /\ tasks[t].pid \notin live /\ TakesOver(p)
  BY <1>2, <1>4 DEF Claim, CanClaim, TakeoverStaleClaim, CanTakeOver, RowOrPlanned
<1>6. /\ \A u \in Tasks : u # t => tasks'[u] = tasks[u]
      /\ tasks'[t].state = "claimed" /\ tasks'[t].token = lastToken + 1
      /\ tasks'[t].worker = Local /\ tasks'[t].pid = p /\ tasks'[t].input = i
  BY <1>1, <1>5 DEF Issue, IInv, JournalInv, JournalTypeOK, Row
<1>7. /\ tasks[t].state \in {"absent", "planned", "failed"} \/ TakesOver(p)
      /\ tasks[t].state = "claimed" => tasks[t].pid \notin live
  BY <1>5 DEF CanClaim, RowOrPlanned, Planned, Claimable
<1>8. RowsKept(p)
  BY <1>1, <1>5, <1>6, <1>7, OneRow
<1>9. Stored'
  BY <1>1, <1>3, <1>6, <1>8, StoredStays
<1>10. Declared'
  BY <1>1, <1>6, TaskShapes, RegisterDeclared
<1>11. /\ DOMAIN d = Fields /\ d.at = FirstWrite(p) /\ d.task = t /\ d.input = i
       /\ d.claim = k /\ d.repeat = c.repeat /\ call'[p] = d
  BY <1>0, <1>1 DEF Fields
<1>12. \/ d.at = "commit" /\ Is(d, "import") /\ d.repeat
       \/ d.at = "audit" /\ Is(d, "import") /\ ~d.repeat
       \/ d.at = "record" /\ ~Is(d, "import") /\ ~d.repeat
  <2>1. CASE c.repeat
    BY <1>1, <1>11, <2>1 DEF FirstWrite, Is, Sound, Shaped
  <2>2. CASE ~c.repeat /\ t[1] = "import"
    BY <1>1, <1>11, <2>2 DEF FirstWrite, Kind, Is
  <2>3. CASE ~c.repeat /\ t[1] # "import"
    BY <1>1, <1>11, <2>3 DEF FirstWrite, Kind, Is
  <2>4. QED
    BY <2>1, <2>2, <2>3
<1>13. Shaped(d)'
  BY <1>1, <1>11, <1>12 DEF Shaped, Is, Holding, Importing, Stages
<1>14. Owned(p, d)'
  <2>1. Genuine(k)'
    BY <1>0, <1>1, <1>5, IntakeAssumption, IssuedGenuine DEF IInv
  <2>2. k.task = t /\ k.input = i /\ k.token = lastToken + 1 /\ k.worker = Local
    BY <1>0 DEF IssuedClaim
  <2>3. Fenced(k)'
    BY <1>6, <2>2 DEF Fenced
  <2>4. QED
    BY <1>1, <1>6, <1>11, <2>1, <2>2, <2>3 DEF Owned, Genuine, Fenced
<1>15. StagedImport(d)'
  BY <1>1, <1>11, <1>12 DEF Sound, StagedImport, Is, records, importVars
<1>16. StagedOther(d)'
  <2>1. t = Provenance => declarations = 0
    <3>1. t = Provenance => ~TakesOver(p)
      BY TaskShapes DEF TakesOver, Kind
    <3>2. QED
      BY <1>7, <3>1 DEF IInv, Records, Declared, Typed
  <2>2. Is(d, "provenance") => t = Provenance
    BY <1>1, <1>11, TaskKinds DEF Is
  <2>3. Is(d, "subject") => tasks'[Provenance].state = "succeeded"
    BY <1>1, <1>3, <1>11, TaskShapes
       DEF Sound, StagedOther, Is, Preserved, TerminalStep, FinalRow
  <2>4. QED
    BY <1>1, <1>12, <2>1, <2>2, <2>3 DEF StagedOther, records, registryVars, Is, Provenance
<1>17. Timely(d)'
  BY <1>1, <1>11, <1>12 DEF Sound, Timely, Is, records, registryVars
<1>18. Sound(p, d)'
  BY <1>1, <1>13, <1>14, <1>15, <1>16, <1>17 DEF Sound
<1>19. \A r \in Pids \ {p} : Apart(d, call[r])
  BY <1>1, <1>11, SameApart
<1>20. QED
  BY <1>1, <1>3, <1>8, <1>9, <1>10, <1>11, <1>18, <1>19, LedgerMoves DEF Moves

\* The claim of a writer holds, so its transaction goes through.
LEMMA WriterHolds ==
  ASSUME IInv, NEW p \in Pids, call[p].at \in Holding
  PROVE  /\ Holds(call[p].claim) /\ Genuine(call[p].claim)
         /\ call[p].claim.task = call[p].task
         /\ tasks[call[p].task].input = call[p].input
<1>1. Owned(p, call[p])
  BY DEF IInv, Sound
<1>2. QED
  BY <1>1 DEF Owned, Holds, Fenced, Active

LEMMA CommitStep ==
  ASSUME IInv, NEW p \in Pids, CommitTask(p)
  PROVE  IInv'
<1> DEFINE c == call[p]
           t == c.task
<1>1. /\ c.at = "commit" /\ Sound(p, c) /\ t \in Tasks /\ p \in live
      /\ DOMAIN call = Pids
      /\ UNCHANGED records /\ live' = live /\ given' = given /\ stamp' = stamp
  BY CallFacts DEF CommitTask, At, Quiet
<1>2. /\ Holds(c.claim) /\ Genuine(c.claim) /\ c.claim.task = t
      /\ tasks[t].input = c.input /\ tasks[t].state = "claimed" /\ tasks[t].pid = p
  BY <1>1, WriterHolds, WriterFacts DEF Holding
<1>3. Commit(c.claim, Done)
  BY <1>2 DEF CommitTask
<1>4. Preserved
  BY <1>2, <1>3, IntakeAssumption, CommitPreserves DEF IInv
<1>5. /\ \A u \in Tasks : u # t => tasks'[u] = tasks[u]
      /\ tasks'[t].state = "succeeded" /\ tasks'[t].input = c.input
  BY <1>1, <1>2, <1>3 DEF Commit, IInv, JournalInv, JournalTypeOK, Row
<1>6. RowsKept(p)
  BY <1>1, <1>2, <1>5, OneRow
<1>7. Stored'
  <2>1. /\ aliases' = aliases /\ projected' = projected /\ job' = job
        /\ declarations' = declarations /\ subject' = subject /\ times' = times
    BY <1>1 DEF records, importVars, registryVars
  <2>2. Stored
    BY DEF IInv, Records
  <2>3. ASSUME NEW q \in Paths, tasks'[Import(q)].state = "succeeded"
        PROVE  aliases[q] # 0
    <3>1. CASE t = Import(q)
      BY <1>1, <3>1, TaskShapes DEF Sound, StagedImport, Is
    <3>2. CASE t # Import(q)
      BY <1>5, <2>2, <2>3, <3>2, TaskShapes DEF Stored, Succeeded
    <3>3. QED
      BY <3>1, <3>2
  <2>4. tasks'[Projection].state = "succeeded" => projected
    BY <1>1, <1>5, <2>2, TaskShapes DEF Sound, StagedOther, Is, Stored, Succeeded
  <2>5. tasks'[Creation].state = "succeeded" => job
    BY <1>1, <1>5, <2>2, TaskShapes DEF Sound, StagedOther, Is, Stored, Succeeded
  <2>6. tasks'[Provenance].state = "succeeded" => declarations = 1
    BY <1>1, <1>5, <2>2, TaskShapes DEF Sound, StagedOther, Is, Stored, Succeeded, Holding
  <2>7. tasks'[Subject].state = "succeeded" => subject /\ tasks'[Provenance].state = "succeeded"
    BY <1>1, <1>5, <2>2, TaskShapes DEF Sound, StagedOther, Is, Stored, Succeeded
  <2>8. ASSUME NEW n \in 0..(MaxTimes - 1), tasks'[Time(n)].state = "succeeded"
        PROVE  \E m \in DOMAIN times : times[m] = tasks'[Time(n)].input
    <3>1. CASE t = Time(n)
      BY <1>1, <1>5, <3>1, TaskShapes DEF Sound, Timely, Is
    <3>2. CASE t # Time(n)
      BY <1>5, <2>2, <2>8, <3>2, TaskShapes DEF Stored, Succeeded
    <3>3. QED
      BY <3>1, <3>2
  <2>9. QED
    BY <2>1, <2>3, <2>4, <2>5, <2>6, <2>7, <2>8
       DEF Stored, Succeeded, Import, Projection, Creation, Provenance, Subject, Time
<1>8. Declared'
  BY <1>1, <1>5, TaskShapes, RegisterDeclared
<1>9. PICK d : /\ call' = [call EXCEPT ![p] = d]
               /\ d = Idle \/ (t[1] = "provenance" /\ d = Calling(Subject, Original))
  BY <1>2 DEF CommitTask, Goto, Kind
<1>10. CASE d = Idle
  BY <1>1, <1>4, <1>6, <1>7, <1>8, <1>9, <1>10, IdleSound, IdleApart, LedgerMoves DEF Moves
<1>11. CASE t[1] = "provenance" /\ d = Calling(Subject, Original)
  <2>1. /\ DOMAIN d = Fields /\ d.at = "ensure" /\ d.task = Subject /\ d.input = Original
        /\ d.claim = None /\ ~d.repeat
    BY <1>11 DEF Calling, Idle, Fields
  <2>2. tasks'[Provenance].state = "succeeded" /\ Original \in Inputs
    BY <1>1, <1>5, <1>11, TaskKinds, IntakeAssumption
  <2>3. Is(d, "subject") /\ \A k \in {"import", "project", "create", "provenance", "time"} : ~Is(d, k)
    BY <2>1, TaskShapes DEF Is
  <2>4. Shaped(d)
    BY <2>1, <2>2, <2>3, TaskShapes DEF Shaped, Holding, Importing, Stages
  <2>5. StagedOther(d)'
    BY <2>1, <2>2, <2>3 DEF StagedOther, Is, Provenance
  <2>6. Owned(p, d)' /\ StagedImport(d)' /\ Timely(d)'
    BY <2>1, <2>3 DEF Owned, StagedImport, Timely, Holding, Importing, Is
  <2>7. Sound(p, d)'
    BY <1>1, <2>4, <2>5, <2>6 DEF Sound, Shaped, Is
  <2>8. \A r \in Pids \ {p} : Apart(d, call[r])
    BY <2>3 DEF Apart
  <2>9. call'[p] = d
    BY <1>1, <1>9
  <2>10. QED
    BY <1>1, <1>4, <1>6, <1>7, <1>8, <1>9, <2>7, <2>8, <2>9, LedgerMoves DEF Moves
<1>12. QED
  BY <1>9, <1>10, <1>11

LEMMA FailStep ==
  ASSUME IInv, NEW p \in Pids, FailTask(p)
  PROVE  IInv'
<1> DEFINE c == call[p]
           t == c.task
<1>1. /\ c.at = "fail" /\ Sound(p, c) /\ t \in Tasks /\ p \in live
      /\ DOMAIN call = Pids /\ call' = [call EXCEPT ![p] = Idle]
      /\ UNCHANGED records /\ live' = live /\ given' = given /\ stamp' = stamp
  BY CallFacts DEF FailTask, At, Quiet, Goto
<1>2. /\ Holds(c.claim) /\ Genuine(c.claim) /\ c.claim.task = t
      /\ tasks[t].input = c.input /\ tasks[t].state = "claimed" /\ tasks[t].pid = p
  BY <1>1, WriterHolds, WriterFacts DEF Holding
<1>3. RecordFailure(c.claim, "failed")
  BY <1>2 DEF FailTask
<1>4. Preserved
  BY <1>2, <1>3, FailurePreserves DEF IInv
<1>5. /\ \A u \in Tasks : u # t => tasks'[u] = tasks[u]
      /\ tasks'[t].state = "failed" /\ tasks'[t].input = c.input
  BY <1>1, <1>2, <1>3 DEF RecordFailure, IInv, JournalInv, JournalTypeOK, Row
<1>6. RowsKept(p)
  BY <1>1, <1>2, <1>5, OneRow
<1>7. Stored'
  BY <1>1, <1>4, <1>5, <1>6, StoredStays
<1>8. Declared'
  <2>1. CASE t = Provenance
    <3>1. declarations = 0
      BY <1>1, <2>1, TaskShapes DEF Sound, StagedOther, Is, Holding
    <3>2. QED
      BY <1>1, <3>1 DEF Declared, records, registryVars
  <2>2. CASE t # Provenance
    BY <1>1, <1>5, <2>2, TaskShapes, RegisterDeclared
  <2>3. QED
    BY <2>1, <2>2
<1>9. QED
  BY <1>1, <1>4, <1>6, <1>7, <1>8, IdleSound, IdleApart, LedgerMoves DEF Moves

----------------------------------------------------------------------------
\* The steps that only move a call: beginnings, reads, refusals, faults, exits.

LEMMA CallMoves ==
  ASSUME IInv, NEW p \in Pids, NEW d, call' = [call EXCEPT ![p] = d],
         UNCHANGED <<journalVars, given, records>>,
         live' \subseteq Pids, \A r \in Pids \ {p} : r \in live => r \in live',
         stamp' \in {stamp, stamp + 1}, stamp' <= MaxStamps,
         call'[p] = d => Sound(p, call[p])', \A r \in Pids \ {p} : Apart(d, call[r])
  PROVE  IInv'
<1>1. /\ audits' = audits /\ source' = source /\ attachment' = attachment /\ aliases' = aliases
      /\ projected' = projected /\ job' = job /\ declarations' = declarations
      /\ subject' = subject /\ times' = times /\ given' = given
      /\ tasks' = tasks /\ UNCHANGED journalVars
  BY DEF records, importVars, registryVars, journalVars
<1>2. \A r \in Pids : Sound(r, call[r])
  BY DEF IInv
<1>3. Moves(p, d)
  BY <1>1, UnchangedPreserves DEF Moves, IInv
<1>4. RowsKept(p) /\ Grows
  BY <1>1 DEF RowsKept, Grows, IInv, Typed
<1>5. Undisturbed(p)
  BY <1>1, <1>2 DEF Undisturbed, Sound, StagedImport, Timely
<1>6. stamp \in Nat /\ stamp' \in 0..MaxStamps /\ stamp <= stamp'
  BY IntakeAssumption DEF IInv, Typed
<1>7. Elsewhere(p)
  BY <1>6 DEF Elsewhere
<1>8. Typed'
  BY <1>1, <1>6 DEF IInv, Typed
<1>9. AuditedOnce' /\ AliasesLast' /\ Stored' /\ Declared'
  BY <1>1 DEF IInv, Records, AuditedOnce, AliasesLast, saved, Stored, Declared, Succeeded,
              Import, Projection, Creation, Provenance, Subject, Time
<1>10. Numbered'
  <2> SUFFICES ASSUME NEW n \in DOMAIN times
               PROVE  /\ times[n] \in 1..stamp'
                      /\ tasks[Time(n - 1)].state # "absent"
                      /\ tasks[Time(n - 1)].input = times[n]
    BY <1>1 DEF Numbered, Time
  <2>1. /\ times[n] \in 1..stamp /\ tasks[Time(n - 1)].state # "absent"
        /\ tasks[Time(n - 1)].input = times[n]
    BY DEF IInv, Records, Numbered
  <2>2. QED
    BY <1>6, <2>1
<1>11. Records'
  BY <1>9, <1>10 DEF Records
<1>12. QED
  BY <1>3, <1>4, <1>5, <1>7, <1>8, <1>11, Assemble

\* A call that ends, or whose process exits.
LEMMA CallEnds ==
  ASSUME IInv, NEW p \in Pids, call' = [call EXCEPT ![p] = Idle],
         UNCHANGED <<journalVars, given, records, stamp>>, live' \in {live, live \ {p}}
  PROVE  IInv'
<1>1. stamp \in 0..MaxStamps /\ live \subseteq Pids
  BY DEF IInv, Typed
<1>2. stamp <= MaxStamps
  BY <1>1, IntakeAssumption
<1>3. QED
  BY <1>1, <1>2, IdleSound, IdleApart, CallMoves

\* A call that begins.
LEMMA Begun ==
  ASSUME NEW p \in Pids, NEW d, p \in live',
         DOMAIN d = Fields, d.at \in {"ensure", "verify"}, d.task \in Tasks, d.input \in Inputs,
         d.claim = None, ~d.repeat,
         d.task[1] \in {"import", "project", "create", "provenance"},
         d.at = "verify" => d.task[1] = "import" /\ aliases'[d.task[2]] # 0
  PROVE  Sound(p, d)' /\ \A c : Apart(d, c)
<1>1. Shaped(d)
  BY DEF Shaped, Is, Holding, Importing, Stages
<1>2. StagedImport(d)' /\ StagedOther(d)' /\ Timely(d)' /\ Owned(p, d)'
  BY DEF StagedImport, StagedOther, Timely, Owned, Is, Holding, Importing
<1>3. \A c : Apart(d, c)
  BY DEF Apart, Is
<1>4. QED
  BY <1>1, <1>2, <1>3 DEF Sound, Shaped, Is

LEMMA CallingFacts ==
  ASSUME NEW t, NEW i, NEW d, d = Calling(t, i)
  PROVE  /\ DOMAIN d = Fields /\ d.at = "ensure" /\ d.task = t /\ d.input = i
         /\ d.claim = None /\ ~d.repeat
BY DEF Calling, Idle, Fields

LEMMA BeginStep ==
  ASSUME IInv, NEW p \in Pids, Begin(p)
  PROVE  IInv'
<1>0. /\ stamp \in 0..MaxStamps /\ live \subseteq Pids /\ DOMAIN call = Pids
      /\ stamp <= MaxStamps /\ Original \in Inputs
  BY IntakeAssumption DEF IInv, Typed
<1>1. ASSUME NEW q \in Paths, BeginImport(p, q)
      PROVE  IInv'
  <2>1. PICK d : d = [Calling(Import(q), Original) EXCEPT
                        !.found = (attachment # "none"),
                        !.at = IF aliases[q] = 0 THEN "ensure" ELSE "verify"]
    OBVIOUS
  <2>2. /\ DOMAIN d = Fields /\ d.task = Import(q) /\ d.input = Original
        /\ d.claim = None /\ ~d.repeat
        /\ d.at = IF aliases[q] = 0 THEN "ensure" ELSE "verify"
    BY <2>1 DEF Calling, Idle, Fields
  <2>3. /\ call' = [call EXCEPT ![p] = d] /\ live' = live \cup {p} /\ aliases' = aliases
        /\ UNCHANGED <<journalVars, given, records, stamp>>
    BY <1>1, <2>1 DEF BeginImport, Asked, Goto, records, importVars
  <2>4. Sound(p, d)' /\ \A c : Apart(d, c)
    BY <1>0, <2>2, <2>3, TaskShapes, Begun
  <2>5. QED
    BY <1>0, <2>3, <2>4, CallMoves
<1>2. ASSUME NEW t \in {Projection, Creation, Provenance}, NEW d,
             DOMAIN d = Fields, d.at = "ensure", d.task = t, d.input = Original,
             d.claim = None, ~d.repeat,
             call' = [call EXCEPT ![p] = d], live' = live \cup {p},
             UNCHANGED <<journalVars, given, records, stamp>>
      PROVE  IInv'
  <2>1. Sound(p, d)' /\ \A c : Apart(d, c)
    BY <1>0, <1>2, TaskShapes, Begun
  <2>2. stamp' = stamp /\ live' \subseteq Pids
    BY <1>0, <1>2
  <2>3. QED
    BY <1>0, <1>2, <2>1, <2>2, CallMoves
<1>3. CASE BeginProjection(p) \/ BeginDeclaration(p)
  <2>1. PICK t \in {Projection, Provenance} :
          /\ call' = [call EXCEPT ![p] = Calling(t, Original)]
          /\ live' = live \cup {p} /\ UNCHANGED <<journalVars, given, records, stamp>>
    BY <1>3 DEF BeginProjection, BeginDeclaration, Asked, Goto
  <2>2. QED
    BY <1>2, <2>1, CallingFacts
<1>4. ASSUME NEW resume \in BOOLEAN, BeginCreation(p, resume)
      PROVE  IInv'
  <2>1. PICK d :
          /\ d = [Calling(Creation, Original) EXCEPT !.found = resume]
          /\ call' = [call EXCEPT ![p] = d]
          /\ live' = live \cup {p} /\ UNCHANGED <<journalVars, given, records, stamp>>
    BY <1>4 DEF BeginCreation, Asked, Goto
  <2>2. /\ DOMAIN d = Fields /\ d.at = "ensure" /\ d.task = Creation /\ d.input = Original
        /\ d.claim = None /\ ~d.repeat
    BY <2>1 DEF Calling, Idle, Fields
  <2>3. QED
    BY <1>2, <2>1, <2>2
<1>5. CASE BeginTime(p)
  <2>1. PICK d : d = Calling(Time(Len(times)), stamp + 1)
    OBVIOUS
  <2>2. /\ call' = [call EXCEPT ![p] = d] /\ live' = live \cup {p} /\ stamp' = stamp + 1
        /\ UNCHANGED <<journalVars, given, records>> /\ times' = times
        /\ Len(times) < MaxTimes /\ stamp < MaxStamps
    BY <1>5, <2>1 DEF BeginTime, Asked, Goto, records, registryVars
  <2>3. /\ Len(times) \in 0..(MaxTimes - 1) /\ stamp + 1 \in 1..MaxStamps
        /\ Time(Len(times)) \in Tasks /\ stamp + 1 \in Inputs
    <3>1. Len(times) \in Nat
      BY DEF IInv, Typed
    <3>2. MaxTimes \in Nat /\ MaxStamps \in Nat /\ 1..MaxStamps \subseteq Inputs
      BY IntakeAssumption
    <3>3. Len(times) \in 0..(MaxTimes - 1) /\ stamp + 1 \in 1..MaxStamps
      BY <1>0, <2>2, <3>1, <3>2
    <3>4. QED
      BY <3>2, <3>3, TaskShapes
  <2>4. /\ DOMAIN d = Fields /\ d.at = "ensure" /\ d.task[1] = "time"
        /\ d.task \in Tasks /\ d.task[2] = Len(times)
        /\ d.input = stamp + 1 /\ d.claim = None /\ ~d.repeat
    BY <2>1, <2>3, CallingFacts, TaskShapes
  <2>5. Shaped(d) /\ Owned(p, d)' /\ StagedImport(d)' /\ StagedOther(d)'
    BY <2>3, <2>4
       DEF Shaped, Owned, StagedImport, StagedOther, Is, Holding, Importing, Stages
  <2>6. \A n \in DOMAIN times : times[n] # stamp + 1
    BY <1>0, IntakeAssumption DEF IInv, Records, Numbered
  <2>7. Timely(d)'
    BY <1>0, <2>2, <2>3, <2>4, <2>6 DEF Timely
  <2>8. Sound(p, d)'
    BY <2>2, <2>5, <2>7 DEF Sound, Shaped, Is
  <2>9. \A r \in Pids \ {p} : Apart(d, call[r])
    <3> SUFFICES ASSUME NEW r \in Pids, Is(call[r], "time")
                 PROVE  d.input # call[r].input
      BY DEF Apart
    <3>1. call[r].input \in 1..stamp
      BY DEF IInv, Sound, Timely
    <3>2. QED
      BY <1>0, <2>4, <3>1, IntakeAssumption
  <2>10. QED
    <3>1. stamp' \in {stamp, stamp + 1} /\ stamp' <= MaxStamps
      BY <2>2, <2>3
    <3>2. QED
      BY <1>0, <2>2, <2>8, <2>9, <3>1, CallMoves
<1>6. QED
  BY <1>1, <1>3, <1>4, <1>5 DEF Begin

\* A writer goes on to another of its stages, in the ledger as it was.
LEMMA WriterGoesOn ==
  ASSUME IInv, NEW p \in Pids, call[p].at \in Holding, UNCHANGED journalVars, NEW d,
         DOMAIN d = Fields, d.task = call[p].task, d.input = call[p].input,
         d.claim = call[p].claim, d.repeat = call[p].repeat, d.at \in Holding,
         d.at \in Importing => Is(call[p], "import"), d.at = "record" => ~Is(call[p], "import"),
         call[p].repeat => d.at = "commit"
  PROVE  /\ Shaped(d) /\ Owned(p, d)' /\ \A r \in Pids \ {p} : Apart(d, call[r])
         /\ \A k : Is(d, k) <=> Is(call[p], k)
<1>1. /\ Sound(p, call[p]) /\ call[p].at # "idle" /\ d.at # "idle"
      /\ call[p].task \in Tasks /\ call[p].input \in Inputs
  BY CallFacts DEF Holding, Importing
<1>2. \A k : Is(d, k) <=> Is(call[p], k)
  BY <1>1 DEF Is
<1>3. Shaped(d)
  BY <1>1, <1>2 DEF Sound, Shaped, Holding, Importing, Stages
<1>4. Owned(p, d)'
  BY <1>1 DEF Sound, Owned, Genuine, Fenced, journalVars
<1>5. \A r \in Pids \ {p} : Apart(d, call[r])
  BY <1>1, SameApart
<1>6. QED
  BY <1>2, <1>3, <1>4, <1>5

LEMMA VerifyStep ==
  ASSUME IInv, NEW p \in Pids, Verify(p)
  PROVE  IInv'
<1>1. /\ call[p].at = "verify" /\ Sound(p, call[p]) /\ p \in live /\ DOMAIN call = Pids
      /\ call[p].task \in Tasks /\ call[p].input \in Inputs /\ DOMAIN call[p] = Fields
      /\ UNCHANGED <<journalVars, records>> /\ live' = live /\ given' = given /\ stamp' = stamp
      /\ aliases' = aliases /\ live \subseteq Pids /\ stamp <= MaxStamps
  BY CallFacts, IntakeAssumption DEF Verify, At, Quiet, records, importVars, IInv, Typed
<1>2. PICK d : /\ call' = [call EXCEPT ![p] = d]
               /\ d = Idle \/ \E s : d = [call[p] EXCEPT !.at = "acquire", !.seen = s,
                                                         !.repeat = TRUE]
  BY DEF Verify, Goto
<1>3. CASE d = Idle
  BY <1>1, <1>2, <1>3, CallEnds
<1>4. CASE \E s : d = [call[p] EXCEPT !.at = "acquire", !.seen = s, !.repeat = TRUE]
  <2>1. /\ DOMAIN d = Fields /\ d.at = "acquire" /\ d.task = call[p].task
        /\ d.input = call[p].input /\ d.claim = call[p].claim /\ d.repeat
    BY <1>1, <1>4 DEF Fields
  <2>2. /\ Is(d, "import") /\ ~Is(d, "time") /\ ~Is(d, "subject") /\ ~Is(d, "provenance")
        /\ aliases[d.task[2]] # 0 /\ d.claim = None
    BY <1>1, <2>1 DEF Sound, Shaped, StagedImport, Is, Importing, Holding
  <2>3. Shaped(d)
    BY <1>1, <2>1, <2>2 DEF Shaped, Holding, Importing, Stages
  <2>4. Owned(p, d)' /\ StagedImport(d)' /\ StagedOther(d)' /\ Timely(d)'
    BY <1>1, <2>1, <2>2 DEF Owned, StagedImport, StagedOther, Timely, Is, Holding, Importing
  <2>5. Sound(p, d)' /\ \A r \in Pids \ {p} : Apart(d, call[r])
    BY <1>1, <2>2, <2>3, <2>4 DEF Sound, Shaped, Is, Apart
  <2>6. QED
    BY <1>1, <1>2, <2>5, CallMoves
<1>5. QED
  BY <1>2, <1>3, <1>4

\* What the reads of an import find is so when it goes on.
LEMMA FindStep ==
  ASSUME IInv, NEW p \in Pids, FindImportRecord(p) \/ FindSource(p)
  PROVE  IInv'
<1> DEFINE c == call[p]
           q == Path(p)
<1>1. /\ c.at \in {"audit", "source"} /\ Sound(p, c) /\ p \in live /\ DOMAIN call = Pids
      /\ DOMAIN c = Fields /\ live' = live /\ given' = given /\ stamp' = stamp
      /\ UNCHANGED <<journalVars, records>> /\ live \subseteq Pids /\ stamp <= MaxStamps
      /\ audits' = audits /\ source' = source /\ attachment' = attachment /\ aliases' = aliases
  BY CallFacts, IntakeAssumption
     DEF FindImportRecord, FindSource, At, Quiet, records, importVars, IInv, Typed
<1>2. Is(c, "import") /\ c.task[2] = q /\ q \in Paths /\ c.at \in Holding /\ ~c.repeat
  BY <1>1, CallFacts, TaskKinds DEF Sound, Shaped, Importing, Holding, Path, Is
<1>3. ASSUME NEW n \in DOMAIN audits, audits[n] = q
      PROVE  FirstAudit(q) \in DOMAIN audits /\ audits[FirstAudit(q)] = q
  <2>1. \A m \in 1..(n - 1) : m \in DOMAIN audits /\ m # n
    BY DEF IInv, Typed
  <2>2. \A m \in 1..(n - 1) : audits[m] # q
    BY <1>3, <2>1 DEF IInv, Records, AuditedOnce
  <2>3. QED
    BY <1>3, <2>2 DEF FirstAudit
<1>4. PICK d :
        /\ call' = [call EXCEPT ![p] = d]
        /\ \/ /\ c.at = "audit" /\ \E n \in DOMAIN audits : audits[n] = q
              /\ d = [c EXCEPT !.at = AfterAudit(p), !.audit = FirstAudit(q)]
           \/ /\ c.at = "audit" /\ \A n \in DOMAIN audits : audits[n] # q
              /\ d = [c EXCEPT !.at = "insert"]
           \/ /\ c.at = "source"
              /\ d = [c EXCEPT !.at = IF source = 0 THEN "add_source" ELSE "canonical"]
  BY <1>1 DEF FindImportRecord, FindSource, At, Go, Goto
<1>5. /\ DOMAIN d = Fields /\ d.task = c.task /\ d.input = c.input /\ d.claim = c.claim
      /\ d.repeat = c.repeat
      /\ \/ /\ d.at = AfterAudit(p) /\ d.audit \in DOMAIN audits /\ audits[d.audit] = q
         \/ /\ d.at = "insert" /\ \A n \in DOMAIN audits : audits[n] # q
         \/ /\ c.at = "source" /\ d.audit = c.audit
            /\ d.at = IF source = 0 THEN "add_source" ELSE "canonical"
  BY <1>1, <1>3, <1>4 DEF Fields
<1>6. d.at \in {"insert", "source", "add_source", "canonical"}
  BY <1>5 DEF AfterAudit
<1>7. d.at \in Holding /\ d.at \in Importing
  BY <1>6 DEF Holding, Importing
<1>8. /\ Shaped(d) /\ Owned(p, d)' /\ \A r \in Pids \ {p} : Apart(d, call[r])
      /\ \A k : Is(d, k) <=> Is(c, k)
  BY <1>1, <1>2, <1>5, <1>6, <1>7, WriterGoesOn
<1>9. c.at = "source" => q \in saved /\ c.audit \in DOMAIN audits /\ audits[c.audit] = q
  BY <1>1, <1>2 DEF Sound, StagedImport
<1>10. StagedImport(d)'
  BY <1>1, <1>2, <1>5, <1>6, <1>9 DEF StagedImport, AfterAudit, SavedPath, saved
<1>11. StagedOther(d)' /\ Timely(d)'
  BY <1>2, <1>8 DEF StagedOther, Timely, Is
<1>12. Sound(p, d)'
  BY <1>1, <1>8, <1>10, <1>11 DEF Sound, Shaped, Is
<1>13. QED
  BY <1>1, <1>4, <1>8, <1>12, CallMoves

LEMMA FaultStep ==
  ASSUME IInv, NEW p \in Pids, Fault(p)
  PROVE  IInv'
<1> DEFINE c == call[p]
<1>1. /\ c.at # "idle" /\ Sound(p, c) /\ p \in live /\ DOMAIN call = Pids /\ DOMAIN c = Fields
      /\ UNCHANGED <<journalVars, records>> /\ live' = live /\ given' = given /\ stamp' = stamp
      /\ live \subseteq Pids /\ stamp <= MaxStamps
      /\ declarations' = declarations /\ times' = times
  BY CallFacts, IntakeAssumption DEF Fault, Quiet, records, registryVars, IInv, Typed
<1>2. CASE ~Guarded(p)
  BY <1>1, <1>2, CallEnds DEF Fault, Goto
<1>3. CASE Guarded(p)
  <2>1. c.at \in Holding /\ ~c.repeat
    BY <1>1, <1>3 DEF Guarded, Sound, Shaped
  <2>2. PICK d : call' = [call EXCEPT ![p] = d] /\ d = [c EXCEPT !.at = "fail"]
    BY <1>3 DEF Fault, Go, Goto
  <2>3. /\ DOMAIN d = Fields /\ d.at = "fail" /\ d.task = c.task /\ d.input = c.input
        /\ d.claim = c.claim /\ d.repeat = c.repeat
    BY <1>1, <2>2 DEF Fields
  <2>4. /\ Shaped(d) /\ Owned(p, d)' /\ \A r \in Pids \ {p} : Apart(d, call[r])
        /\ \A k : Is(d, k) <=> Is(c, k)
    BY <1>1, <2>1, <2>3, WriterGoesOn DEF Holding, Importing
  <2>5. Is(c, "provenance") \/ Is(c, "subject") \/ Is(c, "time") => c.at = "record"
    BY <1>3 DEF Guarded, ReadsState, Kind, Is
  <2>6. StagedImport(d)'
    BY <2>1, <2>3 DEF StagedImport
  <2>7. StagedOther(d)'
    BY <1>1, <2>1, <2>3, <2>4, <2>5
       DEF Sound, StagedOther, Holding, journalVars, Provenance
  <2>8. Timely(d)'
    BY <1>1, <2>3, <2>4, <2>5 DEF Sound, Timely
  <2>9. Sound(p, d)'
    BY <1>1, <2>4, <2>6, <2>7, <2>8 DEF Sound, Shaped, Is
  <2>10. QED
    BY <1>1, <2>2, <2>4, <2>9, CallMoves
<1>4. QED
  BY <1>2, <1>3

LEMMA EndStep ==
  ASSUME IInv, NEW p \in Pids, Refused(p) \/ Exit(p)
  PROVE  IInv'
BY CallEnds DEF Refused, Exit, Goto, Quiet

----------------------------------------------------------------------------
\* The steps that write records.

\* A writer d that has written what it should, in the ledger as it was.
Wrote(p, d) ==
  /\ call' = [call EXCEPT ![p] = d]
  /\ DOMAIN d = Fields /\ d.task = call[p].task /\ d.input = call[p].input
  /\ d.claim = call[p].claim /\ d.repeat = call[p].repeat /\ d.at \in Holding
  /\ d.at \in Importing => Is(call[p], "import")
  /\ d.at # "record"
  /\ UNCHANGED <<journalVars, live, given, stamp>>

LEMMA RecordMoves ==
  ASSUME IInv, NEW p \in Pids, NEW d, call[p].at \in Holding \ {"commit"}, Wrote(p, d),
         Grows, Undisturbed(p), Typed', AuditedOnce', AliasesLast', Numbered', Declared',
         tasks[Provenance].state = "succeeded" => declarations' = declarations,
         call'[p] = d => StagedImport(d)' /\ StagedOther(d)' /\ Timely(d)'
  PROVE  IInv'
<1>1. /\ call'[p] = d /\ live' = live /\ given' = given /\ stamp' = stamp
      /\ tasks' = tasks /\ UNCHANGED journalVars
      /\ Sound(p, call[p]) /\ p \in live /\ ~call[p].repeat
  BY CallFacts DEF Wrote, IInv, Typed, journalVars, Sound, Shaped, Holding, Importing
<1>2. Moves(p, d)
  BY <1>1, UnchangedPreserves DEF Moves, Wrote, IInv
<1>3. RowsKept(p) /\ Elsewhere(p)
  BY <1>1, IntakeAssumption DEF RowsKept, Elsewhere, IInv, Typed
<1>4. Stored'
  <2>1. Stored
    BY DEF IInv, Records
  <2>2. (\A q \in Paths : Succeeded(Import(q)) => aliases[q] # 0)'
    BY <1>1, <2>1 DEF Stored, Succeeded, Import, Grows
  <2>3. (\A n \in 0..(MaxTimes - 1) : Succeeded(Time(n)) =>
           \E m \in DOMAIN times : times[m] = tasks[Time(n)].input)'
    BY <1>1, <2>1 DEF Stored, Succeeded, Time, Grows
  <2>4. QED
    BY <1>1, <2>1, <2>2, <2>3
       DEF Stored, Succeeded, Grows, Projection, Creation, Provenance, Subject
<1>5. Records'
  BY <1>4 DEF Records
<1>6. Shaped(d) /\ Owned(p, d)' /\ \A r \in Pids \ {p} : Apart(d, call[r])
  BY <1>1, WriterGoesOn DEF Wrote
<1>7. Sound(p, d)'
  BY <1>1, <1>6 DEF Sound, Shaped, Is
<1>8. QED
  BY <1>1, <1>2, <1>3, <1>5, <1>6, <1>7, Assemble

\* What an import that writes knows.
LEMMA ImporterFacts ==
  ASSUME IInv, NEW p \in Pids, call[p].at \in Importing
  PROVE  LET c == call[p]
         IN  /\ Is(c, "import") /\ Path(p) = c.task[2] /\ Path(p) \in Paths
             /\ c.task = Import(Path(p)) /\ c.task \in Tasks
             /\ c.at \in Holding \ {"commit"} /\ DOMAIN c = Fields
             /\ Sound(p, c) /\ ~c.repeat /\ tasks[c.task].pid = p /\ DOMAIN call = Pids
             /\ \A k \in {"project", "create", "provenance", "subject", "time"} : ~Is(c, k)
<1>1. call[p].at \in Holding \ {"commit"} /\ call[p].at # "idle"
  BY DEF Importing, Holding
<1>2. QED
  BY <1>1, CallFacts, WriterFacts, TaskKinds DEF Sound, Shaped, Path, Is, Importing

\* An importer at its next stage.
LEMMA ImporterWrote ==
  ASSUME IInv, NEW p \in Pids, call[p].at \in Importing, NEW d,
         call' = [call EXCEPT ![p] = d], Quiet, UNCHANGED journalVars,
         DOMAIN d = Fields, d.task = call[p].task, d.input = call[p].input,
         d.claim = call[p].claim, d.repeat = call[p].repeat,
         d.at \in {"source", "canonical", "alias", "commit", "fail"}
  PROVE  /\ Wrote(p, d) /\ d.task[2] = Path(p) /\ ~d.repeat
         /\ StagedOther(d)' /\ Timely(d)'
<1>1. d.at \in Holding /\ d.at # "record" /\ d.at # "idle"
  BY DEF Holding, Importing
<1>2. /\ Is(call[p], "import") /\ Path(p) = call[p].task[2] /\ ~call[p].repeat
      /\ \A k \in {"project", "create", "provenance", "subject", "time"} : ~Is(call[p], k)
  BY ImporterFacts
<1>3. \A k \in {"project", "create", "provenance", "subject", "time"} : ~Is(d, k)
  BY <1>2 DEF Is
<1>4. StagedOther(d)' /\ Timely(d)'
  BY <1>3 DEF StagedOther, Timely, Is
<1>5. QED
  BY <1>1, <1>2, <1>4 DEF Wrote, Quiet

\* Nothing but records of attachments changes.
LEMMA OnlyImports ==
  ASSUME IInv, UNCHANGED <<journalVars, registryVars>>, Quiet
  PROVE  Numbered' /\ Declared'
BY DEF IInv, Records, Numbered, Declared, registryVars, journalVars, Quiet, Time, Provenance

LEMMA AuditStep ==
  ASSUME IInv, NEW p \in Pids, EnsureImportRecord(p)
  PROVE  IInv'
<1> DEFINE c == call[p]
           q == Path(p)
<1>1. /\ c.at = "insert" /\ audits' = Append(audits, q) /\ Quiet
      /\ UNCHANGED <<journalVars, registryVars>>
      /\ source' = source /\ attachment' = attachment /\ aliases' = aliases
      /\ c.at \in Importing
  BY DEF EnsureImportRecord, At, Importing
<1>2. /\ Is(c, "import") /\ q \in Paths /\ c.task[2] = q /\ c.task = Import(q)
      /\ Sound(p, c) /\ tasks[c.task].pid = p /\ DOMAIN c = Fields
      /\ c.at \in Holding \ {"commit"}
  BY <1>1, ImporterFacts
<1>3. PICK d : call' = [call EXCEPT ![p] = d]
               /\ d = [c EXCEPT !.at = AfterAudit(p), !.audit = Len(audits) + 1]
  BY DEF EnsureImportRecord, Goto
<1>4. /\ DOMAIN d = Fields /\ d.task = c.task /\ d.input = c.input /\ d.claim = c.claim
      /\ d.repeat = c.repeat /\ d.at = AfterAudit(p) /\ d.audit = Len(audits) + 1
  BY <1>2, <1>3 DEF Fields
<1>5. d.at \in {"source", "canonical"} /\ (d.at = "source" <=> q \in saved)
  BY <1>4 DEF AfterAudit, SavedPath
<1>6. Wrote(p, d) /\ d.task[2] = q /\ ~d.repeat /\ StagedOther(d)' /\ Timely(d)'
  BY <1>1, <1>3, <1>4, <1>5, ImporterWrote
<1>7. /\ audits \in Seq(Paths) /\ Len(audits) \in Nat /\ DOMAIN audits = 1..Len(audits)
      /\ audits' \in Seq(Paths) /\ Len(audits') = Len(audits) + 1
      /\ DOMAIN audits' = 1..(Len(audits) + 1) /\ audits'[Len(audits) + 1] = q
      /\ \A n \in 1..Len(audits) : audits'[n] = audits[n]
  BY <1>1, <1>2 DEF IInv, Typed
<1>8. \A n \in DOMAIN audits : audits[n] # q
  BY <1>1, <1>2 DEF Sound, StagedImport
<1>9. Grows
  BY <1>1, <1>7 DEF Grows, registryVars, IInv, Typed
<1>10. Undisturbed(p)
  <2> SUFFICES ASSUME NEW r \in Pids \ {p}, Is(call[r], "import"), call[r].at = "insert"
               PROVE  \A n \in DOMAIN audits' : audits'[n] # call[r].task[2]
    BY <1>1 DEF Undisturbed, registryVars, IInv, Sound, Timely
  <2>1. \A n \in DOMAIN audits : audits[n] # call[r].task[2]
    BY DEF IInv, Sound, StagedImport
  <2>2. call[r].at \in Importing
    BY DEF Importing
  <2>3. call[r].task[2] # q
    BY <1>2, <2>2, ImporterFacts
  <2>4. QED
    BY <1>7, <2>1, <2>3
<1>11. Typed'
  <2>1. source' \in 0..Len(audits') /\ aliases' \in [Paths -> 0..Len(audits')]
    BY <1>1, <1>7 DEF IInv, Typed
  <2>2. QED
    BY <1>1, <1>3, <1>7, <2>1 DEF IInv, Typed, Quiet, registryVars
<1>12. AuditedOnce'
  BY <1>7, <1>8 DEF AuditedOnce, IInv, Records
<1>13. AliasesLast'
  <2>1. \A u \in Paths : aliases[u] # 0 => aliases[u] \in 1..Len(audits)
    BY <1>7 DEF IInv, Typed
  <2>2. QED
    BY <1>1, <1>7, <2>1 DEF AliasesLast, IInv, Records, saved, Quiet
<1>14. StagedImport(d)'
  BY <1>1, <1>4, <1>5, <1>6, <1>7 DEF StagedImport, saved, Quiet
<1>15. QED
  BY <1>1, <1>2, <1>6, <1>9, <1>10, <1>11, <1>12, <1>13, <1>14, OnlyImports, RecordMoves
     DEF registryVars

LEMMA ImportUndisturbed ==
  ASSUME IInv, NEW p \in Pids, audits' = audits, UNCHANGED registryVars
  PROVE  Undisturbed(p)
BY DEF Undisturbed, registryVars, IInv, Sound, StagedImport, Timely

LEMMA SourceStep ==
  ASSUME IInv, NEW p \in Pids, AddSource(p)
  PROVE  IInv'
<1> DEFINE c == call[p]
           q == Path(p)
<1>1. /\ c.at = "add_source" /\ source' = (IF source = 0 THEN c.audit ELSE source)
      /\ Quiet /\ UNCHANGED <<journalVars, registryVars>>
      /\ audits' = audits /\ attachment' = attachment /\ aliases' = aliases
      /\ c.at \in Importing
  BY DEF AddSource, At, Importing
<1>2. /\ c.task[2] = q /\ Sound(p, c) /\ DOMAIN c = Fields /\ c.at \in Holding \ {"commit"}
      /\ Is(c, "import")
  BY <1>1, ImporterFacts
<1>3. PICK d : /\ call' = [call EXCEPT ![p] = d]
               /\ d = [c EXCEPT !.at = IF source = 0 THEN "canonical" ELSE "fail"]
  BY DEF AddSource, Go, Goto
<1>4. /\ DOMAIN d = Fields /\ d.task = c.task /\ d.input = c.input /\ d.claim = c.claim
      /\ d.repeat = c.repeat /\ d.at \in {"canonical", "fail"} /\ d.audit = c.audit
  BY <1>2, <1>3 DEF Fields
<1>5. Wrote(p, d) /\ d.task[2] = q /\ ~d.repeat /\ StagedOther(d)' /\ Timely(d)'
  BY <1>1, <1>3, <1>4, ImporterWrote
<1>6. c.audit \in DOMAIN audits /\ audits[c.audit] = q /\ DOMAIN audits = 1..Len(audits)
  BY <1>1, <1>2 DEF Sound, StagedImport, IInv, Typed
<1>7. source' # 0 /\ source' \in 0..Len(audits) /\ (source # 0 => source' = source)
  BY <1>1, <1>6 DEF IInv, Typed
<1>8. Grows /\ Undisturbed(p)
  BY <1>1, <1>7, ImportUndisturbed DEF Grows, registryVars, IInv, Typed
<1>9. Typed'
  BY <1>1, <1>3, <1>7 DEF IInv, Typed, Quiet, registryVars
<1>10. AuditedOnce' /\ AliasesLast'
  BY <1>1, <1>7 DEF AuditedOnce, AliasesLast, IInv, Records, saved, Quiet
<1>11. StagedImport(d)'
  BY <1>1, <1>4, <1>5, <1>6, <1>7 DEF StagedImport, saved, Quiet
<1>12. QED
  BY <1>1, <1>2, <1>5, <1>8, <1>9, <1>10, <1>11, OnlyImports, RecordMoves DEF registryVars

LEMMA AttachmentStep ==
  ASSUME IInv, NEW p \in Pids, AddAttachment(p)
  PROVE  IInv'
<1> DEFINE c == call[p]
           q == Path(p)
<1>1. /\ c.at = "canonical" /\ Quiet /\ UNCHANGED <<journalVars, registryVars>>
      /\ attachment' \in {"none", "unsourced", "sourced"} /\ attachment' # "none"
      /\ audits' = audits /\ source' = source /\ aliases' = aliases
      /\ c.at \in Importing
  BY DEF AddAttachment, At, Importing, IInv, Typed
<1>2. /\ c.task[2] = q /\ Sound(p, c) /\ DOMAIN c = Fields /\ c.at \in Holding \ {"commit"}
      /\ Is(c, "import")
  BY <1>1, ImporterFacts
<1>3. PICK d : call' = [call EXCEPT ![p] = d] /\ d = [c EXCEPT !.at = "alias"]
  BY DEF AddAttachment, Go, Goto
<1>4. /\ DOMAIN d = Fields /\ d.task = c.task /\ d.input = c.input /\ d.claim = c.claim
      /\ d.repeat = c.repeat /\ d.at = "alias" /\ d.audit = c.audit
  BY <1>2, <1>3 DEF Fields
<1>5. Wrote(p, d) /\ d.task[2] = q /\ ~d.repeat /\ StagedOther(d)' /\ Timely(d)'
  BY <1>1, <1>3, <1>4, ImporterWrote
<1>6. Grows /\ Undisturbed(p)
  BY <1>1, ImportUndisturbed DEF Grows, registryVars, IInv, Typed
<1>7. Typed'
  BY <1>1, <1>3 DEF IInv, Typed, Quiet, registryVars
<1>8. AuditedOnce' /\ AliasesLast'
  BY <1>1 DEF AuditedOnce, AliasesLast, IInv, Records, saved, Quiet
<1>9. StagedImport(d)'
  BY <1>1, <1>2, <1>4, <1>5 DEF Sound, StagedImport, saved, Quiet
<1>10. QED
  BY <1>1, <1>2, <1>5, <1>6, <1>7, <1>8, <1>9, OnlyImports, RecordMoves DEF registryVars

LEMMA AliasStep ==
  ASSUME IInv, NEW p \in Pids, AddAlias(p)
  PROVE  IInv'
<1> DEFINE c == call[p]
           q == Path(p)
<1>1. /\ c.at = "alias" /\ Quiet /\ UNCHANGED <<journalVars, registryVars>>
      /\ aliases' = [aliases EXCEPT ![q] = IF aliases[q] = 0 THEN c.audit ELSE aliases[q]]
      /\ audits' = audits /\ source' = source /\ attachment' = attachment
      /\ c.at \in Importing
  BY DEF AddAlias, At, Importing
<1>2. /\ c.task[2] = q /\ q \in Paths /\ Sound(p, c) /\ DOMAIN c = Fields
      /\ c.at \in Holding \ {"commit"} /\ Is(c, "import")
  BY <1>1, ImporterFacts
<1>3. PICK d : /\ call' = [call EXCEPT ![p] = d]
               /\ d = [c EXCEPT !.at = "commit", !.found = FALSE, !.audit = 0]
  BY DEF AddAlias, Goto
<1>4. /\ DOMAIN d = Fields /\ d.task = c.task /\ d.input = c.input /\ d.claim = c.claim
      /\ d.repeat = c.repeat /\ d.at = "commit"
  BY <1>2, <1>3 DEF Fields
<1>5. Wrote(p, d) /\ d.task[2] = q /\ ~d.repeat /\ StagedOther(d)' /\ Timely(d)'
  BY <1>1, <1>3, <1>4, ImporterWrote
<1>6. /\ c.audit \in 1..Len(audits) /\ audits[c.audit] = q /\ attachment # "none"
      /\ q \in saved => source # 0
  BY <1>1, <1>2 DEF Sound, StagedImport, IInv, Typed
<1>7. /\ aliases' \in [Paths -> 0..Len(audits)] /\ aliases'[q] # 0
      /\ aliases'[q] = IF aliases[q] = 0 THEN c.audit ELSE aliases[q]
      /\ \A u \in Paths : u # q => aliases'[u] = aliases[u]
  <2>1. aliases \in [Paths -> 0..Len(audits)] /\ c.audit \in 0..Len(audits) /\ c.audit # 0
    BY <1>6 DEF IInv, Typed
  <2>2. QED
    BY <1>1, <1>2, <2>1
<1>8. Grows /\ Undisturbed(p)
  BY <1>1, <1>7, ImportUndisturbed DEF Grows, registryVars, IInv, Typed
<1>9. Typed'
  BY <1>1, <1>3, <1>7 DEF IInv, Typed, Quiet, registryVars
<1>10. AuditedOnce'
  BY <1>1 DEF AuditedOnce, IInv, Records
<1>11. AliasesLast'
  BY <1>1, <1>6, <1>7 DEF AliasesLast, IInv, Records, saved, Quiet
<1>12. StagedImport(d)'
  BY <1>1, <1>4, <1>5, <1>7 DEF StagedImport, saved, Quiet
<1>13. QED
  BY <1>1, <1>2, <1>5, <1>8, <1>9, <1>10, <1>11, <1>12, OnlyImports, RecordMoves DEF registryVars

----------------------------------------------------------------------------
\* The one record of the other calls.

LEMMA RecorderFacts ==
  ASSUME IInv, NEW p \in Pids, call[p].at = "record"
  PROVE  LET c == call[p]
         IN  /\ Sound(p, c) /\ ~c.repeat /\ ~Is(c, "import") /\ c.at \in Holding \ {"commit"}
             /\ DOMAIN c = Fields /\ c.task \in Tasks
             /\ tasks[c.task].state = "claimed" /\ tasks[c.task].pid = p
             /\ tasks[c.task].input = c.input
             /\ \A k : Is(c, k) <=> Kind(p) = k
<1>1. call[p].at \in Holding \ {"commit"} /\ call[p].at # "idle"
  BY DEF Holding
<1>2. QED
  BY <1>1, CallFacts, WriterFacts, WriterHolds DEF Sound, Shaped, Kind, Is

LEMMA RecorderWrote ==
  ASSUME IInv, NEW p \in Pids, call[p].at = "record", NEW to \in {"commit", "fail"},
         Go(p, to), Quiet, UNCHANGED <<journalVars, importVars>>
  PROVE  \E d : /\ Wrote(p, d) /\ d.at = to /\ ~d.repeat
                /\ \A k : Is(d, k) <=> Kind(p) = k
                /\ ~Is(d, "import") /\ AuditedOnce' /\ AliasesLast'
<1>1. /\ ~call[p].repeat /\ ~Is(call[p], "import") /\ DOMAIN call[p] = Fields
      /\ \A k : Is(call[p], k) <=> Kind(p) = k
  BY RecorderFacts
<1>2. PICK d : call' = [call EXCEPT ![p] = d] /\ d = [call[p] EXCEPT !.at = to]
  BY DEF Go, Goto
<1>3. /\ DOMAIN d = Fields /\ d.task = call[p].task /\ d.input = call[p].input
      /\ d.claim = call[p].claim /\ d.repeat = call[p].repeat /\ d.at = to
  BY <1>1, <1>2 DEF Fields
<1>4. Wrote(p, d)
  BY <1>2, <1>3 DEF Wrote, Quiet, Holding, Importing
<1>5. AuditedOnce' /\ AliasesLast'
  BY DEF AuditedOnce, AliasesLast, IInv, Records, importVars, saved, Quiet
<1>6. QED
  BY <1>1, <1>3, <1>4, <1>5 DEF Is

\* The records of one call change, and no others.
LEMMA FlagStep ==
  ASSUME IInv, NEW p \in Pids, RecordProjection(p) \/ RecordJob(p) \/ RecordSubject(p)
  PROVE  IInv'
<1> DEFINE c == call[p]
<1>1. /\ c.at = "record" /\ Quiet /\ UNCHANGED <<journalVars, importVars>>
      /\ declarations' = declarations /\ times' = times /\ audits' = audits
      /\ source' = source /\ attachment' = attachment /\ aliases' = aliases
      /\ projected' \in BOOLEAN /\ job' \in BOOLEAN /\ subject' \in BOOLEAN
      /\ (projected => projected') /\ (job => job') /\ (subject => subject')
  BY DEF RecordProjection, RecordJob, RecordSubject, At, importVars, IInv, Typed
<1>2. PICK to \in {"commit", "fail"} :
        /\ Go(p, to)
        /\ \/ Kind(p) = "project" /\ projected'
           \/ Kind(p) = "create" /\ job'
           \/ Kind(p) = "subject" /\ subject'
  BY DEF RecordProjection, RecordJob, RecordSubject
<1>3. PICK d : /\ Wrote(p, d) /\ d.at = to /\ ~d.repeat
               /\ \A k : Is(d, k) <=> Kind(p) = k
               /\ ~Is(d, "import") /\ AuditedOnce' /\ AliasesLast'
  BY <1>1, <1>2, RecorderWrote
<1>4. Grows
  BY <1>1 DEF Grows, IInv, Typed
<1>5. Undisturbed(p)
  BY <1>1 DEF Undisturbed, IInv, Sound, StagedImport, Timely
<1>6. Typed'
  BY <1>1, <1>3 DEF IInv, Typed, Wrote
<1>7. Numbered' /\ Declared'
  BY <1>1 DEF IInv, Records, Numbered, Declared, journalVars, Quiet, Time, Provenance
<1>8. StagedImport(d)' /\ Timely(d)'
  BY <1>2, <1>3 DEF StagedImport, Timely, Is
<1>9. StagedOther(d)'
  <2>1. Is(d, "subject") => tasks[Provenance].state = "succeeded"
    BY <1>1, <1>3, RecorderFacts DEF Sound, StagedOther
  <2>2. Is(d, "subject") => tasks'[Provenance].state = "succeeded"
    BY <1>1, <2>1 DEF journalVars
  <2>3. ~Is(d, "provenance")
    BY <1>2, <1>3
  <2>4. QED
    BY <1>2, <1>3, <2>2, <2>3 DEF StagedOther, Is, Provenance
<1>10. c.at \in Holding \ {"commit"}
  BY <1>1, RecorderFacts
<1>11. QED
  BY <1>1, <1>3, <1>4, <1>5, <1>6, <1>7, <1>8, <1>9, <1>10, RecordMoves

LEMMA DeclarationStep ==
  ASSUME IInv, NEW p \in Pids, RecordDeclaration(p)
  PROVE  IInv'
<1> DEFINE c == call[p]
<1>1. /\ c.at = "record" /\ Quiet /\ UNCHANGED <<journalVars, importVars>>
      /\ Kind(p) = "provenance" /\ Go(p, "commit")
      /\ declarations' = declarations + 1 /\ times' = times /\ audits' = audits
      /\ source' = source /\ attachment' = attachment /\ aliases' = aliases
      /\ projected' = projected /\ job' = job /\ subject' = subject
  BY DEF RecordDeclaration, At, importVars
<1>2. /\ Sound(p, c) /\ Is(c, "provenance") /\ c.task \in Tasks
      /\ tasks[c.task].state = "claimed" /\ tasks[c.task].pid = p
      /\ c.at \in Holding \ {"commit"}
  BY <1>1, RecorderFacts
<1>3. PICK d : /\ Wrote(p, d) /\ d.at = "commit" /\ ~d.repeat
               /\ \A k : Is(d, k) <=> Kind(p) = k
               /\ ~Is(d, "import") /\ AuditedOnce' /\ AliasesLast'
  BY <1>1, RecorderWrote
<1>4. c.task = Provenance
  BY <1>2, TaskKinds DEF Is
<1>5. declarations' = 1
  BY <1>1, <1>2 DEF Sound, StagedOther
<1>6. Grows
  BY <1>1 DEF Grows, IInv, Typed
<1>7. Undisturbed(p)
  <2> SUFFICES ASSUME NEW r \in Pids \ {p}, Is(call[r], "provenance"), call[r].at \in Holding
               PROVE  FALSE
    BY <1>1 DEF Undisturbed, IInv, Sound, StagedImport, Timely
  <2>1. call[r].task = Provenance /\ tasks[call[r].task].pid = r
    BY WriterFacts, TaskKinds DEF Is
  <2>2. QED
    BY <1>2, <1>4, <2>1
<1>8. Typed'
  BY <1>1, <1>3, <1>5 DEF IInv, Typed, Wrote
<1>9. Numbered'
  BY <1>1 DEF IInv, Records, Numbered, journalVars, Quiet, Time
<1>10. Declared'
  BY <1>1, <1>2, <1>4 DEF Declared, journalVars, Provenance
<1>11. StagedImport(d)' /\ Timely(d)' /\ StagedOther(d)'
  BY <1>1, <1>3, <1>5 DEF StagedImport, Timely, StagedOther, Is
<1>12. QED
  BY <1>2, <1>3, <1>4, <1>6, <1>7, <1>8, <1>9, <1>10, <1>11, RecordMoves

\* The n-th evidence is appended for the n-th task: its owner came before the
\* history had grown, or it has its evidence already.
LEMMA TimeStep ==
  ASSUME IInv, NEW p \in Pids, RecordTime(p)
  PROVE  IInv'
<1> DEFINE c == call[p]
           k == Len(times)
<1>1. /\ c.at = "record" /\ Quiet /\ UNCHANGED <<journalVars, importVars>>
      /\ Kind(p) = "time" /\ Go(p, "commit")
      /\ times' = Append(times, c.input) /\ declarations' = declarations /\ audits' = audits
      /\ source' = source /\ attachment' = attachment /\ aliases' = aliases
      /\ projected' = projected /\ job' = job /\ subject' = subject
  BY DEF RecordTime, At, importVars
<1>2. /\ Sound(p, c) /\ Is(c, "time") /\ c.task \in Tasks
      /\ tasks[c.task].state = "claimed" /\ tasks[c.task].pid = p
      /\ tasks[c.task].input = c.input /\ c.at \in Holding \ {"commit"}
  BY <1>1, RecorderFacts
<1>3. PICK d : /\ Wrote(p, d) /\ d.at = "commit" /\ ~d.repeat
               /\ \A kind : Is(d, kind) <=> Kind(p) = kind
               /\ ~Is(d, "import") /\ AuditedOnce' /\ AliasesLast'
  BY <1>1, RecorderWrote
<1>4. /\ c.task[2] \in 0..(MaxTimes - 1) /\ c.task = Time(c.task[2])
      /\ c.task[2] <= k /\ c.input \in 1..stamp /\ \A n \in DOMAIN times : times[n] # c.input
  BY <1>1, <1>2, TaskKinds DEF Is, Sound, Timely
<1>5. /\ stamp \in 0..MaxStamps /\ MaxStamps \in Nat /\ MaxTimes \in Nat /\ k \in Nat
      /\ times \in Seq(1..MaxStamps) /\ DOMAIN times = 1..k
  BY IntakeAssumption DEF IInv, Typed
<1>6. c.task[2] = k
  <2> SUFFICES ASSUME c.task[2] < k PROVE FALSE
    BY <1>4, <1>5
  <2>1. c.task[2] + 1 \in DOMAIN times /\ (c.task[2] + 1) - 1 = c.task[2]
    BY <1>4, <1>5
  <2>2. times[c.task[2] + 1] = c.input
    BY <1>2, <1>4, <2>1 DEF IInv, Records, Numbered
  <2>3. QED
    BY <1>4, <2>1, <2>2
<1>7. /\ c.input \in 1..MaxStamps /\ k + 1 <= MaxTimes
  BY <1>4, <1>5, <1>6
<1>8. /\ times' \in Seq(1..MaxStamps) /\ Len(times') = k + 1 /\ DOMAIN times' = 1..(k + 1)
      /\ times'[k + 1] = c.input /\ \A n \in 1..k : times'[n] = times[n]
  BY <1>1, <1>5, <1>7
<1>9. Grows
  BY <1>1, <1>5, <1>8 DEF Grows, IInv, Typed
<1>10. Undisturbed(p)
  <2> SUFFICES ASSUME NEW r \in Pids \ {p}, Is(call[r], "time"), call[r].at # "commit"
               PROVE  \A n \in DOMAIN times' : times'[n] # call[r].input
    BY <1>1 DEF Undisturbed, IInv, Sound, StagedImport
  <2>1. call[r].input # c.input
    BY <1>2 DEF IInv, Apart
  <2>2. \A n \in DOMAIN times : times[n] # call[r].input
    BY DEF IInv, Sound, Timely
  <2>3. QED
    BY <1>5, <1>8, <2>1, <2>2
<1>11. Typed'
  BY <1>1, <1>3, <1>7, <1>8 DEF IInv, Typed, Wrote
<1>12. Numbered'
  <2> SUFFICES ASSUME NEW n \in 1..(k + 1)
               PROVE  /\ times'[n] \in 1..stamp
                      /\ tasks[Time(n - 1)].state # "absent"
                      /\ tasks[Time(n - 1)].input = times'[n]
    BY <1>1, <1>8 DEF Numbered, journalVars, Quiet, Time
  <2>1. CASE n \in 1..k
    BY <1>5, <1>8, <2>1 DEF IInv, Records, Numbered
  <2>2. CASE n = k + 1
    <3>1. Time(n - 1) = c.task
      BY <1>4, <1>5, <1>6, <2>2
    <3>2. QED
      BY <1>2, <1>4, <1>8, <2>2, <3>1
  <2>3. QED
    BY <1>5, <2>1, <2>2
<1>13. Declared'
  BY <1>1 DEF IInv, Records, Declared, journalVars, Provenance
<1>14. Timely(d)'
  <2>1. d.task = c.task /\ d.input = c.input /\ stamp' = stamp
    BY <1>3 DEF Wrote
  <2>2. k + 1 \in DOMAIN times' /\ times'[k + 1] = d.input
    BY <1>5, <1>8, <2>1
  <2>3. d.task[2] <= Len(times') /\ d.input \in 1..stamp'
    BY <1>4, <1>5, <1>8, <2>1
  <2>4. QED
    BY <1>3, <2>2, <2>3 DEF Timely
<1>15. StagedImport(d)' /\ StagedOther(d)'
  BY <1>1, <1>3 DEF StagedImport, StagedOther, Is
<1>16. QED
  BY <1>1, <1>2, <1>3, <1>9, <1>10, <1>11, <1>12, <1>13, <1>14, <1>15, RecordMoves

----------------------------------------------------------------------------
\* The invariant holds at the start and in every step.

LEMMA InitInv == Init => IInv
<1> SUFFICES ASSUME Init PROVE IInv
  OBVIOUS
<1>1. JournalInv
  BY InitEstablishes DEF Init, JournalInit
<1>2. /\ tasks = [t \in Tasks |-> NoRow] /\ live = {} /\ stamp = 0 /\ given \in Cases
      /\ call = [p \in Pids |-> Idle] /\ times = <<>> /\ declarations = 0
      /\ job = FALSE /\ subject = FALSE /\ projected \in BOOLEAN
  BY DEF Init, Fresh, Empty, Migrated
<1>3. saved \subseteq Paths
  BY <1>2, IntakeAssumption DEF saved
<1>4. \/ /\ audits = <<>> /\ source = 0 /\ attachment = "none"
         /\ aliases = [q \in Paths |-> 0]
      \/ \E q \in saved :
           /\ audits = <<q>> /\ source = 1 /\ attachment = "sourced"
           /\ aliases = [u \in Paths |-> IF u = q THEN 1 ELSE 0]
  BY DEF Init, Empty, Migrated
<1>5. audits \in Seq(Paths) /\ source \in 0..Len(audits) /\ aliases \in [Paths -> 0..Len(audits)]
  <2>1. CASE audits = <<>> /\ source = 0 /\ aliases = [q \in Paths |-> 0]
    BY <2>1
  <2>2. ASSUME NEW q \in saved, audits = <<q>>, source = 1,
               aliases = [u \in Paths |-> IF u = q THEN 1 ELSE 0]
        PROVE  audits \in Seq(Paths) /\ Len(audits) = 1 /\ source \in 0..1
               /\ aliases \in [Paths -> 0..1]
    BY <1>3, <2>2
  <2>3. QED
    BY <1>4, <2>1, <2>2
<1>6. AuditedOnce /\ AliasesLast
  BY <1>3, <1>4 DEF AuditedOnce, AliasesLast
<1>7. Typed
  <2>1. /\ times \in Seq(1..MaxStamps) /\ Len(times) <= MaxTimes /\ stamp \in 0..MaxStamps
        /\ attachment \in {"none", "unsourced", "sourced"} /\ DOMAIN call = Pids
    BY <1>2, <1>4, IntakeAssumption
  <2>2. QED
    BY <1>2, <1>5, <2>1 DEF Typed
<1>8. \A t \in Tasks : ~Succeeded(t)
  BY <1>2 DEF Succeeded, NoRow
<1>9. Stored
  BY <1>8, TaskShapes DEF Stored
<1>10. Records
  BY <1>2, <1>6, <1>9 DEF Records, Numbered, Declared
<1>11. \A p \in Pids : call[p] = Idle
  BY <1>2
<1>13. ASSUME NEW p \in Pids
       PROVE  Sound(p, call[p])
  <2>1. call[p] = Idle /\ Idle.at = "idle" /\ DOMAIN Idle = Fields /\ Idle.claim = None
        /\ ~Idle.repeat
    BY <1>11 DEF Idle, Fields
  <2>2. QED
    BY <2>1 DEF Sound, Shaped, Owned, StagedImport, StagedOther, Timely, Is, Holding,
                Importing, Stages
<1>14. \A p, r \in Pids : p # r => Apart(call[p], call[r])
  BY <1>11 DEF Apart, Is, Idle
<1>15. QED
  BY <1>1, <1>7, <1>10, <1>13, <1>14 DEF IInv

LEMMA StepInv == IInv /\ [Next]_vars => IInv'
<1> SUFFICES ASSUME IInv, [Next]_vars PROVE IInv'
  OBVIOUS
<1>1. CASE UNCHANGED vars
  <2>1. /\ UNCHANGED journalVars /\ tasks' = tasks /\ attempts' = attempts
        /\ live' = live /\ call' = call /\ given' = given /\ stamp' = stamp
        /\ audits' = audits /\ source' = source /\ attachment' = attachment
        /\ aliases' = aliases /\ projected' = projected /\ job' = job
        /\ declarations' = declarations /\ subject' = subject /\ times' = times
    BY <1>1 DEF vars, records, importVars, registryVars, journalVars
  <2>2. JournalInv'
    BY <2>1, UnchangedPreserves DEF IInv, Preserved
  <2>3. Typed' /\ Records'
    BY <2>1 DEF IInv, Typed, Records, AuditedOnce, AliasesLast, Stored, Succeeded, Numbered,
                Declared, saved, Import, Projection, Creation, Provenance, Subject, Time
  <2>4. ASSUME NEW p \in Pids
        PROVE  Sound(p, call[p])'
    <3>1. Sound(p, call[p])
      BY DEF IInv
    <3>2. QED
      BY <2>1, <3>1 DEF Sound, Shaped, Owned, Genuine, Fenced, StagedImport, StagedOther,
                        Timely, Is, saved, Provenance
  <2>5. \A p, r \in Pids : p # r => Apart(call[p], call[r])'
    BY <2>1 DEF IInv, Apart, Is
  <2>6. QED
    BY <2>2, <2>3, <2>4, <2>5 DEF IInv
<1>2. ASSUME NEW p \in Pids, Exit(p) \/ Begin(p) \/ Fault(p)
      PROVE  IInv'
  BY <1>2, EndStep, BeginStep, FaultStep
<1>3. ASSUME NEW p \in Pids, Continue(p)
      PROVE  IInv'
  BY <1>3, EnsureStep, VerifyStep, AcquireStep, EndStep, FindStep, AuditStep, SourceStep,
     AttachmentStep, AliasStep, FlagStep, DeclarationStep, TimeStep, CommitStep, FailStep
     DEF Continue
<1>4. QED
  BY <1>1, <1>2, <1>3 DEF Next

LEMMA Inductive == Spec => []IInv
BY InitInv, StepInv, PTL DEF Spec

----------------------------------------------------------------------------
\* Types hold for any number of paths, processes and calls, and only a call that
\* holds a claim of the ledger writes records.
THEOREM TypeCorrect == Spec => []TypeOK
<1>1. IInv => TypeOK
  <2> SUFFICES ASSUME IInv PROVE TypeOK
    OBVIOUS
  <2>1. JournalTypeOK
    BY DEF IInv, JournalInv
  <2>2. ASSUME NEW p \in Pids
        PROVE  /\ call[p].at \in Stages /\ (p \notin live => call[p] = Idle)
               /\ call[p].at \notin {"idle", "ensure", "verify", "acquire"} =>
                    call[p].claim \in Claims
    <3>1. Sound(p, call[p])
      BY DEF IInv
    <3>2. call[p].at \notin {"idle", "ensure", "verify", "acquire"} => call[p].at \in Holding
      BY <3>1 DEF Sound, Shaped, Stages, Holding, Importing
    <3>3. QED
      BY <3>1, <3>2 DEF Sound, Shaped, Owned, Genuine
  <2>3. QED
    BY <2>1, <2>2 DEF IInv, Typed, TypeOK
<1>2. QED
  BY <1>1, Inductive, PTL

\* A task that succeeded has its records, in whatever order calls crash, fail,
\* are taken over and are repeated: whoever commits a task owns it, and has
\* written or found everything before.
THEOREM SuccessIsStored == Spec => []SucceededIsStored
<1>1. IInv => SucceededIsStored
  <2> SUFFICES ASSUME IInv PROVE SucceededIsStored
    OBVIOUS
  <2>1. Stored /\ AliasesLast
    BY DEF IInv, Records
  <2>2. ASSUME NEW n \in 0..(MaxTimes - 1), tasks[Time(n)].state = "succeeded"
        PROVE  tasks[Time(n)].input \in Range(times)
    BY <2>1, <2>2 DEF Stored, Succeeded, Range
  <2>3. QED
    BY <2>1, <2>2 DEF Stored, AliasesLast, Succeeded, SucceededIsStored
<1>2. QED
  BY <1>1, Inductive, PTL

\* Nothing is recorded twice: a row that was found missing is still missing when
\* it is inserted, as no other call owns the task meanwhile.
THEOREM RecordsUnique == Spec => []RecordedOnce
<1>1. IInv => RecordedOnce
  BY DEF IInv, Records, AuditedOnce, Numbered, Typed, RecordedOnce, IsInjective
<1>2. QED
  BY <1>1, Inductive, PTL

\* The closure of an import stays verifiable, for any number of paths with the
\* same bytes: the audit of a path is its only one, and whoever brought the
\* source names it in its alias, if it has one.
THEOREM RepetitionAccepted == Spec => []RepeatAccepted
<1>1. IInv => RepeatAccepted
  <2> SUFFICES ASSUME IInv, NEW q \in Paths, aliases[q] # 0
               PROVE  \/ Closure(q)
                      \/ /\ q \in saved /\ source # 0
                         /\ aliases[audits[source]] = 0
                         /\ tasks[Import(audits[source])].state # "succeeded"
    BY DEF RepeatAccepted
  <2>1. /\ AuditedOnce /\ AliasesLast /\ Stored
        /\ audits \in Seq(Paths) /\ source \in 0..Len(audits)
        /\ aliases \in [Paths -> 0..Len(audits)]
    BY DEF IInv, Records, Typed
  <2>2. aliases[q] \in DOMAIN audits /\ audits[aliases[q]] = q /\ (q \in saved => source # 0)
    BY <2>1 DEF AliasesLast
  <2>3. \A m, n \in DOMAIN audits : audits[m] = q /\ audits[n] = q => m = n
    BY <2>1 DEF AuditedOnce
  <2>4. FirstAudit(q) = aliases[q]
    <3>1. \A m \in 1..(aliases[q] - 1) : audits[m] # q
      BY <2>1, <2>2, <2>3
    <3>2. \A n \in DOMAIN audits : audits[n] = q => n = aliases[q]
      BY <2>2, <2>3
    <3>3. QED
      BY <2>2, <3>1, <3>2 DEF FirstAudit
  <2>5. CASE q \in saved => aliases[audits[source]] = source
    BY <2>2, <2>3, <2>4, <2>5 DEF Closure
  <2>6. CASE q \in saved /\ aliases[audits[source]] # source
    <3>1. source \in DOMAIN audits /\ audits[source] \in Paths
      BY <2>1, <2>2, <2>6
    <3>2. aliases[audits[source]] = 0
      <4> SUFFICES ASSUME aliases[audits[source]] # 0 PROVE FALSE
        OBVIOUS
      <4>1. /\ aliases[audits[source]] \in DOMAIN audits
            /\ audits[aliases[audits[source]]] = audits[source]
        BY <2>1, <3>1 DEF AliasesLast
      <4>2. QED
        BY <2>1, <2>6, <3>1, <4>1 DEF AuditedOnce
    <3>3. tasks[Import(audits[source])].state # "succeeded"
      BY <2>1, <3>1, <3>2 DEF Stored, Succeeded
    <3>4. QED
      BY <2>2, <2>6, <3>2, <3>3
  <2>7. QED
    BY <2>5, <2>6
<1>2. QED
  BY <1>1, Inductive, PTL
=============================================================================
