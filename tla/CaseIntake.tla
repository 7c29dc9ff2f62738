------------------------------ MODULE CaseIntake ------------------------------
(***************************************************************************)
(* What brings material into a case before and beside its jobs: import and *)
(* projection of attachments and the creation of the v2 job (workflow.py), *)
(* the declaration of a document's subject and the registration of time    *)
(* evidence (controlled_registration.py).                                  *)
(*                                                                         *)
(* Each is a local task of the ledger (Journal): ensure the task, read its *)
(* state, claim it or take it over, write the records one transaction at a *)
(* time, commit.  Where the store reads before it inserts, the two are two *)
(* steps: its connection opens a transaction only with the first write.    *)
(*                                                                         *)
(* One original lies at several paths, and all bookkeeping is per original. *)
(* Blobs are content-addressed and written before every row that names     *)
(* them.  Its text projection depends on the tool, of which there is one.  *)
(***************************************************************************)
EXTENDS Journal, Functions

CONSTANTS
  Paths,        \* files with the bytes of the original
  Cases,        \* the paths whose name makes them a saved attachment; bounds: the kinds
                \* of calls users make, and how many claims they get
  Original,     \* the digest of the original, input of most tasks
  Local,        \* the worker id
  Done,         \* the output reference of a task
  MaxTimes,     \* bound: time evidence
  MaxStamps     \* bound: registrations begun

Import(q)  == <<"import", q>>
Projection == <<"project", None>>
Provenance == <<"provenance", None>>
Subject    == <<"subject", None>>
Creation   == <<"create", None>>
Time(n)    == <<"time", n>>

IntakeTasks ==
  {Import(q) : q \in Paths} \cup {Projection, Provenance, Subject, Creation}
  \cup {Time(n) : n \in 0..(MaxTimes - 1)}

ASSUME IntakeAssumption ==
  /\ Tasks = IntakeTasks
  /\ \A g \in Cases : g.saved \subseteq Paths /\ g.claims \in 0..MaxTokens
  /\ MaxTimes \in Nat /\ MaxStamps \in Nat
  /\ {Original} \cup 1..MaxStamps \subseteq Inputs /\ Original \notin Nat
  /\ Local \in Workers /\ Done \in Outputs

VARIABLES
  live,        \* the process ids in use
  call,        \* process -> the call it is in
  given,       \* which of the cases this is
  audits,      \* import_records of the original: the path of each, in order
  source,      \* the audit the source row came with, 0 when there is none
  attachment,  \* attachment_imports: "none", "unsourced" or "sourced"
  aliases,     \* path -> the audit its alias names, 0 when there is none
  projected,   \* text_projections holds the batch
  job,         \* workflow_jobs holds the job and its requests
  declarations,\* provenance rows of the subject declaration
  subject,     \* the source row has its document subject
  times,       \* source_time_evidence, as the stamps of the registrations
  stamp        \* registrations begun: each one seals another record

importVars == <<audits, source, attachment, aliases>>
registryVars == <<projected, job, declarations, subject, times>>
records == <<importVars, registryVars>>
saved == given.saved  \* inspect_attachment says "saved"
vars == <<tasks, attempts, lastToken, takeovers, live, call, given, records, stamp>>

Idle == [at |-> "idle", task |-> None, input |-> None, seen |-> None, claim |-> None,
         found |-> FALSE, repeat |-> FALSE, audit |-> 0]

Empty ==
  /\ audits = <<>> /\ source = 0 /\ attachment = "none"
  /\ aliases = [q \in Paths |-> 0]
  /\ projected = FALSE

\* A migrated case has the records of an attachment and no task for them.
Migrated ==
  \E q \in saved :
    /\ audits = <<q>> /\ source = 1 /\ attachment = "sourced"
    /\ aliases = [u \in Paths |-> IF u = q THEN 1 ELSE 0]
    /\ projected \in BOOLEAN

Init ==
  /\ Fresh /\ takeovers = <<>>
  /\ live = {}
  /\ call = [p \in Pids |-> Idle]
  /\ given \in Cases
  /\ Empty \/ Migrated
  /\ job = FALSE /\ declarations = 0 /\ subject = FALSE /\ times = <<>>
  /\ stamp = 0

At(p, stage) == call[p].at = stage
Goto(p, c) == call' = [call EXCEPT ![p] = c]
Go(p, stage) == Goto(p, [call[p] EXCEPT !.at = stage])
Task(p) == call[p].task
Kind(p) == call[p].task[1]
Path(p) == call[p].task[2]

----------------------------------------------------------------------------
\* A process starts with its first call and may exit at any time; its id may be
\* used again.

Exit(p) ==
  /\ p \in live
  /\ live' = live \ {p}
  /\ Goto(p, Idle)
  /\ UNCHANGED <<journalVars, given, records, stamp>>

Quiet == UNCHANGED <<live, given, stamp>>

----------------------------------------------------------------------------
\* Calls begin with reads.  A call that is refused by them, or finds nothing
\* left to do, is no step; none begins when the bound on claims is reached.

Asked(p, kind) ==
  /\ At(p, "idle") /\ kind \in given.calls /\ lastToken < given.claims
  /\ live' = live \cup {p}

Calling(t, i) == [Idle EXCEPT !.at = "ensure", !.task = t, !.input = i]

\* import_attachments: the canonical row and the alias of the path; a path with
\* an alias and a task is verified and its task completed (a migrated alias
\* without one is only verified).
BeginImport(p, q) ==
  /\ Asked(p, "import")
  /\ aliases[q] # 0 => tasks[Import(q)].state # "absent"
  /\ Goto(p, [Calling(Import(q), Original) EXCEPT
                !.found = (attachment # "none"),
                !.at = IF aliases[q] = 0 THEN "ensure" ELSE "verify"])
  /\ UNCHANGED <<journalVars, given, records, stamp>>

\* project_sources
BeginProjection(p) ==
  /\ Asked(p, "project") /\ source # 0
  /\ Goto(p, Calling(Projection, Original))
  /\ UNCHANGED <<journalVars, given, records, stamp>>

\* create_candidate_job: over the projections, if there is no such job yet;
\* found stands for resume_failed_creation.
BeginCreation(p, resume) ==
  /\ Asked(p, "create") /\ projected /\ ~job
  /\ Goto(p, [Calling(Creation, Original) EXCEPT !.found = resume])
  /\ UNCHANGED <<journalVars, given, records, stamp>>

\* declare_document_subject: of a projected source without a subject, if the
\* declaration was never imported (import_provenance_document).
BeginDeclaration(p) ==
  /\ Asked(p, "provenance") /\ projected /\ ~subject /\ declarations = 0
  /\ Goto(p, Calling(Provenance, Original))
  /\ UNCHANGED <<journalVars, given, records, stamp>>

\* register_time_evidence: the sealed record holds the time of the call, the
\* task is numbered by the length of the history.
BeginTime(p) ==
  /\ Asked(p, "time") /\ source # 0
  /\ Len(times) < MaxTimes /\ stamp < MaxStamps
  /\ stamp' = stamp + 1
  /\ Goto(p, Calling(Time(Len(times)), stamp + 1))
  /\ UNCHANGED <<journalVars, given, records>>

----------------------------------------------------------------------------
\* Getting hold of the task.

ReadsState == {"import", "project", "create"}

\* The state is read after the task was ensured; a change in between is one
\* before both.  A projection that succeeded is returned, a creation that failed
\* asks for resume.
Ensure(p) ==
  LET c == call[p]
      s == RowOrPlanned(c.task, c.input).state
      over == \/ Kind(p) = "project" /\ s = "succeeded"
              \/ Kind(p) = "create" /\ s = "failed" /\ ~c.found
  IN /\ At(p, "ensure")
     /\ EnsureTask(c.task, c.input)
     /\ Goto(p, IF over THEN Idle ELSE [c EXCEPT !.at = "acquire",
                  !.seen = IF Kind(p) \in ReadsState THEN s ELSE None])
     /\ UNCHANGED records /\ Quiet

FirstAudit(q) == CHOOSE n \in DOMAIN audits :
  audits[n] = q /\ \A m \in 1..(n - 1) : audits[m] # q

\* _verify_existing_attachment_alias_closure: one audit of the path, named by
\* its alias; the source a saved alias names has an alias of its own, with the
\* audit it came with.
Closure(q) ==
  /\ \E n \in DOMAIN audits : audits[n] = q
  /\ \A m, n \in DOMAIN audits : audits[m] = q /\ audits[n] = q => m = n
  /\ aliases[q] = FirstAudit(q)
  /\ q \in saved => source # 0 /\ aliases[audits[source]] = source

\* The repeated import, and complete_existing_local_task: what succeeded is
\* returned, what failed is refused.
Verify(p) ==
  LET s == tasks[Task(p)].state
  IN /\ At(p, "verify")
     /\ Goto(p, IF Closure(Path(p)) /\ s = "claimed"
                THEN [call[p] EXCEPT !.at = "acquire", !.seen = s, !.repeat = TRUE]
                ELSE Idle)
     /\ UNCHANGED <<journalVars, records>> /\ Quiet

\* Imports and projections take over what an exited process had claimed; the
\* other calls never do.
TakesOver(p) == call[p].seen = "claimed" /\ Kind(p) \in {"import", "project"}

(* Mutant: what was taken over counts as stored. *)
FirstWriteTakenOver(p) ==
  IF call[p].repeat \/ call[p].seen = "claimed" THEN "commit"
  ELSE IF Kind(p) = "import" THEN "audit" ELSE "record"

FirstWrite(p) ==
  IF call[p].repeat THEN "commit"
  ELSE IF Kind(p) = "import" THEN "audit" ELSE "record"

\* An exited owner may not be known to have (_owner_pid_exited).
Acquire(p) ==
  LET c == call[p]
  IN /\ At(p, "acquire") /\ lastToken < given.claims
     /\ IF TakesOver(p)
        THEN \E exited \in SUBSET (Pids \ live) :
               TakeoverStaleClaim(c.task, Local, c.input, p, exited)
        ELSE Claim(c.task, Local, c.input, p)
     /\ Goto(p, [c EXCEPT !.at = FirstWrite(p), !.seen = None,
                           !.claim = IssuedClaim(c.task, Local, c.input)])
     /\ UNCHANGED records /\ Quiet

(* Mutant: a refused import goes on with what it finds. *)
RefusedGoesOn(p) ==
  /\ At(p, "acquire")
  /\ TakesOver(p) \/ ~CanClaim(Task(p), call[p].input) \/ lastToken = given.claims
  /\ Go(p, FirstWrite(p))
  /\ UNCHANGED <<journalVars, records>> /\ Quiet

(* Mutant: a takeover waits for the owner to exit. *)
RefusedNotTakeover(p) ==
  /\ At(p, "acquire")
  /\ (~TakesOver(p) /\ ~CanClaim(Task(p), call[p].input)) \/ lastToken = given.claims
  /\ Goto(p, Idle)
  /\ UNCHANGED <<journalVars, records>> /\ Quiet

\* The ledger refuses, or the bound on claims does: the call raises.
Refused(p) ==
  /\ At(p, "acquire")
  /\ TakesOver(p) \/ ~CanClaim(Task(p), call[p].input) \/ lastToken = given.claims
  /\ Goto(p, Idle)
  /\ UNCHANGED <<journalVars, records>> /\ Quiet

----------------------------------------------------------------------------
\* The records of an import.

SavedPath(p) == Path(p) \in saved
AfterAudit(p) == IF SavedPath(p) THEN "source" ELSE "canonical"

\* ensure_import_record looks for the row, and inserts it if there was none.
FindImportRecord(p) ==
  /\ At(p, "audit")
  /\ IF \E n \in DOMAIN audits : audits[n] = Path(p)
     THEN Goto(p, [call[p] EXCEPT !.at = AfterAudit(p), !.audit = FirstAudit(Path(p))])
     ELSE Go(p, "insert")
  /\ UNCHANGED <<journalVars, records>> /\ Quiet

EnsureImportRecord(p) ==
  /\ At(p, "insert")
  /\ audits' = Append(audits, Path(p))
  /\ Goto(p, [call[p] EXCEPT !.at = AfterAudit(p), !.audit = Len(audits) + 1])
  /\ UNCHANGED <<journalVars, source, attachment, aliases, registryVars>> /\ Quiet

FindSource(p) ==
  /\ At(p, "source")
  /\ Go(p, IF source = 0 THEN "add_source" ELSE "canonical")
  /\ UNCHANGED <<journalVars, records>> /\ Quiet

\* Another path may have brought the source meanwhile: its key is taken.
AddSource(p) ==
  /\ At(p, "add_source")
  /\ source' = IF source = 0 THEN call[p].audit ELSE source
  /\ Go(p, IF source = 0 THEN "canonical" ELSE "fail")
  /\ UNCHANGED <<journalVars, audits, attachment, aliases, registryVars>> /\ Quiet

\* add_attachment_import ignores a row that is there; one that the call had
\* found is promoted, once it has a source (promote_attachment_source).
AddAttachment(p) ==
  /\ At(p, "canonical")
  /\ attachment' = IF attachment = "none" \/ (call[p].found /\ SavedPath(p))
                   THEN IF SavedPath(p) THEN "sourced" ELSE "unsourced"
                   ELSE attachment
  /\ Go(p, "alias")
  /\ UNCHANGED <<journalVars, audits, source, aliases, registryVars>> /\ Quiet

(* Mutant: the alias names the audit the source came with. *)
AddAliasOfSource(p) ==
  /\ At(p, "alias")
  /\ aliases' = [aliases EXCEPT ![Path(p)] = IF SavedPath(p) THEN source ELSE call[p].audit]
  /\ Go(p, "commit")
  /\ UNCHANGED <<journalVars, audits, source, attachment, registryVars>> /\ Quiet

AddAlias(p) ==
  /\ At(p, "alias")
  /\ aliases' = [aliases EXCEPT ![Path(p)] = IF @ = 0 THEN call[p].audit ELSE @]
  /\ Goto(p, [call[p] EXCEPT !.at = "commit", !.found = FALSE, !.audit = 0])
  /\ UNCHANGED <<journalVars, audits, source, attachment, registryVars>> /\ Quiet

----------------------------------------------------------------------------
\* The one record of every other call.

\* replace_text_projections_atomic
RecordProjection(p) ==
  /\ At(p, "record") /\ Kind(p) = "project"
  /\ projected' = TRUE
  /\ Go(p, "commit")
  /\ UNCHANGED <<journalVars, importVars, job, declarations, subject, times>> /\ Quiet

\* add_candidate_workflow_bundle: the job's key may be taken, as the call that
\* failed after it had written the job is resumed.
RecordJob(p) ==
  /\ At(p, "record") /\ Kind(p) = "create"
  /\ job' = TRUE
  /\ Go(p, IF job THEN "fail" ELSE "commit")
  /\ UNCHANGED <<journalVars, importVars, projected, declarations, subject, times>> /\ Quiet

\* add_import_record of the declaration
RecordDeclaration(p) ==
  /\ At(p, "record") /\ Kind(p) = "provenance"
  /\ declarations' = declarations + 1
  /\ Go(p, "commit")
  /\ UNCHANGED <<journalVars, importVars, projected, job, subject, times>> /\ Quiet

\* The conditional update of the source row.
RecordSubject(p) ==
  /\ At(p, "record") /\ Kind(p) = "subject"
  /\ subject' = TRUE
  /\ Go(p, IF subject THEN "fail" ELSE "commit")
  /\ UNCHANGED <<journalVars, importVars, projected, job, declarations, times>> /\ Quiet

\* append_time_evidence
RecordTime(p) ==
  /\ At(p, "record") /\ Kind(p) = "time"
  /\ times' = Append(times, call[p].input)
  /\ Go(p, "commit")
  /\ UNCHANGED <<journalVars, importVars, projected, job, declarations, subject>> /\ Quiet

----------------------------------------------------------------------------
\* The end of a call.

Holds(c) == Fenced(c) /\ tasks[c.task].state \in Active

\* A declaration goes on to the subject; a refused commit raises.
CommitTask(p) ==
  LET c == call[p]
  IN /\ At(p, "commit")
     /\ IF Holds(c.claim) THEN Commit(c.claim, Done) ELSE UNCHANGED journalVars
     /\ Goto(p, IF Holds(c.claim) /\ Kind(p) = "provenance"
                THEN Calling(Subject, Original) ELSE Idle)
     /\ UNCHANGED records /\ Quiet

FailTask(p) ==
  LET c == call[p].claim
  IN /\ At(p, "fail")
     /\ IF Holds(c) THEN RecordFailure(c, "failed") ELSE UNCHANGED journalVars
     /\ Goto(p, Idle)
     /\ UNCHANGED records /\ Quiet

\* The writes whose errors are recorded as the failure of the task: the others
\* leave it as it is.
Guarded(p) ==
  /\ call[p].claim # None /\ ~call[p].repeat
  /\ call[p].at # "fail"
  /\ Kind(p) \in ReadsState \/ call[p].at = "record"

\* Any access to the database or the blob store may raise.
Fault(p) ==
  /\ call[p].at # "idle"
  /\ IF Guarded(p) THEN Go(p, "fail") ELSE Goto(p, Idle)
  /\ UNCHANGED <<journalVars, records>> /\ Quiet

Begin(p) ==
  \/ \E q \in Paths : BeginImport(p, q)
  \/ BeginProjection(p)
  \/ \E resume \in BOOLEAN : BeginCreation(p, resume)
  \/ BeginDeclaration(p)
  \/ BeginTime(p)

Continue(p) ==
  \/ Ensure(p) \/ Verify(p) \/ Acquire(p) \/ Refused(p)
  \/ FindImportRecord(p) \/ EnsureImportRecord(p) \/ FindSource(p) \/ AddSource(p)
  \/ AddAttachment(p) \/ AddAlias(p)
  \/ RecordProjection(p) \/ RecordJob(p) \/ RecordDeclaration(p) \/ RecordSubject(p)
  \/ RecordTime(p)
  \/ CommitTask(p) \/ FailTask(p)

Next == \E p \in Pids : Exit(p) \/ Begin(p) \/ Continue(p) \/ Fault(p)

Spec == Init /\ [][Next]_vars

\* A running call goes on unless its process exits or an access raises.
FairSpec == Spec /\ \A p \in Pids : WF_vars(Continue(p))

----------------------------------------------------------------------------
(***************************************************************************)
(* Properties.                                                             *)
(***************************************************************************)

Stages == {"idle", "ensure", "verify", "acquire", "audit", "insert", "source",
           "add_source", "canonical", "alias", "record", "commit", "fail"}

\* Types.  Only a call that holds a claim writes.
TypeOK ==
  /\ JournalTypeOK
  /\ live \subseteq Pids /\ given \in Cases
  /\ audits \in Seq(Paths) /\ source \in 0..Len(audits)
  /\ attachment \in {"none", "unsourced", "sourced"}
  /\ aliases \in [Paths -> 0..Len(audits)]
  /\ projected \in BOOLEAN /\ job \in BOOLEAN /\ subject \in BOOLEAN
  /\ declarations \in Nat /\ times \in Seq(1..MaxStamps) /\ Len(times) <= MaxTimes
  /\ \A p \in Pids :
       /\ call[p].at \in Stages /\ p \notin live => call[p] = Idle
       /\ call[p].at \notin {"idle", "ensure", "verify", "acquire"} =>
            call[p].claim \in Claims

\* A task that succeeded has its records, all of them and of its own: an import
\* the alias with the audit of its path, the canonical row and a source if the
\* path is one that is saved (import_attachments).  No order of crashes, faults,
\* takeovers and repetitions closes a task over a record that is missing.
SucceededIsStored ==
  LET done(t) == tasks[t].state = "succeeded"
  IN /\ \A q \in Paths : done(Import(q)) =>
          /\ aliases[q] # 0 /\ audits[aliases[q]] = q /\ attachment # "none"
          /\ q \in saved => source # 0
     /\ done(Projection) => projected
     /\ done(Creation) => job
     /\ done(Provenance) => declarations = 1
     /\ done(Subject) => subject /\ done(Provenance)
     /\ \A n \in 0..(MaxTimes - 1) : done(Time(n)) => tasks[Time(n)].input \in Range(times)

\* Nothing is recorded twice, though the store looks for a row and inserts it in
\* two steps (ensure_import_record) and a registration reads the history before
\* it is claimed: a path has one audit, without which its closure is refused for
\* ever, there is one declaration, and the n-th time evidence is the one of the
\* n-th task.
RecordedOnce ==
  /\ IsInjective(audits)
  /\ declarations <= 1
  /\ \A n \in DOMAIN times : times[n] = tasks[Time(n - 1)].input

\* A path that has its alias passes the verification of its closure when it is
\* imported again (test_attachment_import_is_idempotent_by_path_and_content),
\* whatever other imports of the same bytes did before, between and after its own
\* writes.  It is refused in one case: its source was brought by another path, whose
\* import has not come as far as its alias.
RepeatAccepted ==
  \A q \in Paths : aliases[q] # 0 =>
    \/ Closure(q)
    \/ /\ q \in saved /\ source # 0
       /\ aliases[audits[source]] = 0 /\ tasks[Import(audits[source])].state # "succeeded"

\* Every call that begins returns or raises, or its process exits, whatever the
\* other process claims, takes over or writes meanwhile.
CallsReturn == \A p \in Pids : call[p].at # "idle" ~> call[p].at = "idle"
=============================================================================
