----------------------------- MODULE CriterionRun -----------------------------
(***************************************************************************)
(* run_criterion_slice (runner.py) of one source, with the verification of *)
(* result bindings it shares with the audit trace (audit.py) and the       *)
(* tables of the case store it writes.                                     *)
(*                                                                         *)
(* Several processes run criteria over the same case.  Each step of a run  *)
(* is one action: it reads committed rows and commits at most one row, so  *)
(* other processes, imports, reviews and crashes interleave between steps; *)
(* only the verification and the insertion of a result share one immediate *)
(* transaction.                                                            *)
(***************************************************************************)
EXTENDS Qualification

CONSTANTS
  Processes,
  Requests,     \* calls: claim, criterion, basis, content, quote, review, na
  Sources,      \* the source rows a case may start with
  Files,        \* provenance files that may be imported
  Imported,     \* the files imported at the start
  Evidence,     \* time evidence that may be appended
  ReviewForms,  \* mapping reviews that may be registered
  MaxTimes,     \* bound: time evidence revisions
  MaxBodies,    \* bound: sources with the same body
  MaxVersions,  \* bound: case basis versions
  MaxMappings   \* bound: mapping rows of a claim and criterion

VARIABLES
  source,         \* the source row
  readable,       \* the sealed original can be read back
  imports,        \* case_provenance import records, oldest first
  basisVersions,  \* case_basis_versions
  times,          \* source_time_evidence of the source
  bodies,         \* sources with the same blob
  reviews,        \* mapping_reviews
  claims,         \* claim -> its content
  mappings,       \* <<claim, criterion>> -> claim_criterion_mappings
  quals,          \* claim -> the stored qualification
  gaps,           \* claims with a gap row
  results,        \* <<claim, criterion>> -> the published result
  run             \* process -> the run it is in

store == <<claims, mappings, quals, gaps, results>>
surroundings == <<readable, imports, times, bodies, reviews>>
vars == <<source, surroundings, basisVersions, store, run>>

Claims == {r.claim : r \in Requests}
Keys == {<<r.claim, r.criterion>> : r \in Requests}

ASSUME CriterionRunAssumption ==
  /\ \A r \in Requests : r.criterion \in DOMAIN NaPolicy /\ r.content # None
  /\ Imported \in Seq(Files) /\ IsInjective(Imported)
  /\ {MaxTimes, MaxBodies, MaxVersions, MaxMappings} \subseteq Nat /\ MaxBodies >= 1
  /\ \A s \in Sources : s.published # None => DOMAIN s.publishedText \subseteq Nat
  /\ \A e \in Evidence \cup ({s.column : s \in Sources} \ {None}) :
       e.kind = "document_self_date" => DOMAIN e.located \subseteq Nat

Idle == [at |-> "idle", request |-> None, version |-> 0, revision |-> 0, proofs |-> None,
         mapping |-> None, outcome |-> None, frozen |-> None]

Init ==
  /\ source \in Sources
  /\ readable = TRUE
  /\ imports = Imported
  /\ basisVersions = <<>>
  /\ times = <<>>
  /\ bodies = 1
  /\ reviews = {}
  /\ claims = [c \in Claims |-> None]
  /\ mappings = [k \in Keys |-> <<>>]
  /\ quals = [c \in Claims |-> None]
  /\ gaps = {}
  /\ results = [k \in Keys |-> None]
  /\ run = [p \in Processes |-> Idle]

----------------------------------------------------------------------------
\* What else happens in the case: evidence, imports and reviews are only ever
\* appended; the basis is revised by another entry of the workflow.

Outside == UNCHANGED <<source, store, run>>

\* append_time_evidence (controlled registration, intake)
AppendTime(e) ==
  /\ Len(times) < MaxTimes
  /\ times' = Append(times, e)
  /\ Outside /\ UNCHANGED <<readable, imports, bodies, reviews, basisVersions>>

\* add_source of a file with the same bytes
ImportBody ==
  /\ bodies < MaxBodies
  /\ bodies' = bodies + 1
  /\ Outside /\ UNCHANGED <<readable, imports, times, reviews, basisVersions>>

(* Mutant: an import that was recorded is recorded again. *)
ImportProvenanceAgain(f) ==
  /\ imports' = Append(imports, f)
  /\ Outside /\ UNCHANGED <<readable, times, bodies, reviews, basisVersions>>

\* ensure_import_record: a file is recorded once
ImportProvenance(f) ==
  /\ \A i \in DOMAIN imports : imports[i] # f
  /\ imports' = Append(imports, f)
  /\ Outside /\ UNCHANGED <<readable, times, bodies, reviews, basisVersions>>

\* add_mapping_review, with review_id as its key
RegisterReview(w) ==
  /\ \A v \in reviews : v.id # w.id
  /\ reviews' = reviews \cup {w}
  /\ Outside /\ UNCHANGED <<readable, imports, times, bodies, basisVersions>>

Damage ==
  /\ readable
  /\ readable' = FALSE
  /\ Outside /\ UNCHANGED <<imports, times, bodies, reviews, basisVersions>>

\* set_case_basis_if_changed (initialize_case)
ReviseBasis(b) ==
  /\ Len(basisVersions) < MaxVersions
  /\ basisVersions # <<>> => basisVersions[Len(basisVersions)] # b
  /\ basisVersions' = Append(basisVersions, b)
  /\ Outside /\ UNCHANGED surroundings

----------------------------------------------------------------------------
\* Steps of a run.

Stage(p, stage) == run[p].at = stage
Step(p, to) ==
  /\ run' = [run EXCEPT ![p] = to]
  /\ UNCHANGED <<source, surroundings>>

Local(p) == run[p]
Request(p) == run[p].request

\* _effective_case_basis: the first basis of a case is the caller's; afterwards
\* the caller's must equal the latest version.
Start(p, r) ==
  /\ Stage(p, "idle")
  /\ basisVersions # <<>> => basisVersions[Len(basisVersions)] = r.basis
  /\ Step(p,
          [Idle EXCEPT !.at = IF basisVersions = <<>> THEN "set_basis" ELSE "prove_basis",
                       !.request = r, !.version = Len(basisVersions)])
  /\ UNCHANGED <<basisVersions, store>>

\* set_case_basis appends, whatever was committed since the read
SetBasis(p) ==
  /\ Stage(p, "set_basis")
  /\ Len(basisVersions) < MaxVersions
  /\ basisVersions' = Append(basisVersions, Request(p).basis)
  /\ Step(p, [Local(p) EXCEPT !.at = "prove_basis", !.version = Len(basisVersions) + 1])
  /\ UNCHANGED store

Basis(p) == basisVersions[run[p].version]

ProveBasis(p) ==
  LET proof == BasisProof(imports, Basis(p))
  IN /\ Stage(p, "prove_basis")
     /\ proof # None
     /\ Step(p,
             [Local(p) EXCEPT !.at = "read_source", !.proofs = [basis |-> proof, document |-> None, zone |-> None]])
     /\ UNCHANGED <<basisVersions, store>>

NoEvidence == [kind |-> "none", rule |-> None]

\* The frozen revision of the time evidence, or the column of the source row.
EvidenceAt(revision) ==
  IF revision > 0 THEN times[revision]
  ELSE IF source.column # None THEN source.column ELSE NoEvidence

\* The latest revision, the proofs of what it and the source claim, and the
\* sealed excerpt: an empty original has none.
ReadSource(p) ==
  LET evidence == EvidenceAt(Len(times))
      proofs   == [Local(p).proofs EXCEPT
        !.document = DocumentProofFor(imports, source, Local(p).proofs.basis.names),
        !.zone     = TimezoneRule(imports, source, evidence)]
  IN /\ Stage(p, "read_source")
     /\ readable /\ source.body # "empty"
     /\ Step(p,
             [Local(p) EXCEPT !.at = "claim", !.revision = Len(times), !.proofs = proofs])
     /\ UNCHANGED <<basisVersions, store>>

\* A claim is stored once, with a locator the table knows; the same name with
\* another content is refused.
ClaimRow(p) ==
  LET r == Request(p)
  IN /\ Stage(p, "claim")
     /\ claims[r.claim] \in {None, r.content} /\ r.content.locator \in Locators
     /\ claims' = [claims EXCEPT ![r.claim] = r.content]
     /\ Step(p, [Local(p) EXCEPT !.at = "map"])
     /\ UNCHANGED <<basisVersions, mappings, quals, gaps, results>>

QuoteHash(quote) == IF quote # None /\ quote.verbatim THEN quote.id ELSE None

\* _controlled_mapping_review: the named review, if it is registered for this
\* very basis version, claim, criterion and quote, and confirms.
ControlledReviews(version, r) ==
  {w \in reviews : /\ w.id = r.review
                   /\ w.version = version /\ w.claim = r.claim /\ w.criterion = r.criterion
                   /\ w.quote = QuoteHash(r.quote)
                   /\ w.decision = "confirmed"}

Mapping(version, r) ==
  LET candidate == IF r.quote = None THEN "unmapped" ELSE CandidateMapping(r.quote)
      found     == ControlledReviews(version, r)
      review    == IF found = {} THEN None ELSE CHOOSE w \in found : TRUE
      status    == ConfirmMapping(candidate, review, r.content.negated)
  IN [status |-> status, quote |-> QuoteHash(r.quote),
      review |-> IF status = "confirmed" THEN review ELSE None]

\* Every run appends a mapping row, confirmed or not.
AddMapping(p) ==
  LET r   == Request(p)
      key == <<r.claim, r.criterion>>
      m   == Mapping(Local(p).version, r)
  IN /\ Stage(p, "map")
     /\ Len(mappings[key]) < MaxMappings
     /\ mappings' = [mappings EXCEPT ![key] = Append(@, m)]
     /\ Step(p, [Local(p) EXCEPT !.at = "qualify", !.mapping = m])
     /\ UNCHANGED <<basisVersions, claims, quals, gaps, results>>

Names(basis) == {basis.subject} \cup VerifiedAliases(imports, basis)

(* Mutant: the latest revision is judged, the one read earlier is frozen. *)
QualifyLatestRevision(p) ==
  LET r == Request(p)
      outcome == QualifyClaim(imports, readable, source, EvidenceAt(Len(times)),
                              r.content, Names(Basis(p)), bodies)
  IN /\ Stage(p, "qualify")
     /\ Step(p, [Local(p) EXCEPT !.at = "store", !.outcome = outcome])
     /\ UNCHANGED <<basisVersions, store>>

\* qualify_claim reads the original, the provenance and the number of sources
\* with this body again, but the time evidence of its earlier read.
Qualify(p) ==
  LET r == Request(p)
      outcome == QualifyClaim(imports, readable, source, EvidenceAt(Local(p).revision),
                              r.content, Names(Basis(p)), bodies)
  IN /\ Stage(p, "qualify")
     /\ Step(p, [Local(p) EXCEPT !.at = "store", !.outcome = outcome])
     /\ UNCHANGED <<basisVersions, store>>

\* A gap row for what cannot be judged, otherwise the qualification, unless one
\* is stored already: then the stored one stays.
StoreQualification(p) ==
  LET c   == Request(p).claim
      gap == Local(p).outcome.status = "gap"
  IN /\ Stage(p, "store")
     /\ gaps' = IF gap THEN gaps \cup {c} ELSE gaps
     /\ quals' = IF gap \/ quals[c] # None THEN quals ELSE [quals EXCEPT ![c] = Local(p).outcome]
     /\ Step(p, [Local(p) EXCEPT !.at = "evaluate"])
     /\ UNCHANGED <<basisVersions, claims, mappings, results>>

----------------------------------------------------------------------------
\* What a result freezes, and what identifies its input.

NaBindings(na) == IF na = None THEN None ELSE [k \in NaRefs |-> Resolve(imports, na[k])]

Frozen(p) ==
  LET r == Request(p)
  IN [version |-> Local(p).version, basis |-> Basis(p), content |-> r.content,
      mapping |-> Local(p).mapping, revision |-> Local(p).revision,
      qualification |-> IF Local(p).outcome.status = "gap" THEN None ELSE quals[r.claim],
      na |-> r.na, naBindings |-> NaBindings(r.na), proofs |-> Local(p).proofs]

\* run_input_digest_v3: neither the version of the basis nor the proofs of the
\* source are part of it.
Digest(f) == [f EXCEPT !.version = 0, !.proofs = None]

Status(p) ==
  LET r == Request(p)
  IN EvaluateCriterion(imports, r.criterion, r.na, Basis(p).subject, Local(p).outcome, r.content,
                       Local(p).mapping.status)

\* A result of the same name must be the same computation; the run ends there.
Evaluate(p) ==
  LET r     == Request(p)
      known == results[<<r.claim, r.criterion>>]
      same  == known # None /\ Digest(known.frozen) = Digest(Frozen(p)) /\ known.status = Status(p)
  IN /\ Stage(p, "evaluate")
     /\ known = None \/ same
     /\ Step(p,
             IF same THEN Idle
             ELSE [Idle EXCEPT !.at = "publish", !.request = r,
                               !.frozen = [input |-> Frozen(p), status |-> Status(p)]])
     /\ UNCHANGED <<basisVersions, store>>

----------------------------------------------------------------------------
\* verify_result_bindings, by the numbers of its comments.

OriginalHolds(f) == readable /\ source.body # "empty" /\ f.content.locator \in Locators

\* 3, 4: time evidence of the column alone has no revision to freeze.
TimeHolds(f) ==
  /\ f.revision = 0 => source.column = None
  /\ f.revision <= Len(times)

(* Mutant: only the content of the stored row is compared, not its status. *)
QualificationHoldsAnyStatus(key, f, status) ==
  quals[key[1]] # None /\ (status = "succeeded" => quals[key[1]] = f.qualification)

\* 5: a success stands on the stored qualification, as it was frozen.
QualificationHolds(key, f, status) ==
  /\ f.qualification # None /\ quals[key[1]] # None
  /\ status = "succeeded" => /\ quals[key[1]].status = "qualified"
                             /\ quals[key[1]] = f.qualification

\* 6: the last mapping row has the frozen quote, and the review is registered.
MappingHolds(key, f, status) ==
  f.mapping.status \in {"candidate", "confirmed"} =>
    LET rows == mappings[key]
    IN /\ rows # <<>> /\ rows[Len(rows)].quote = f.mapping.quote
       /\ status = "succeeded" => f.mapping.status = "confirmed"
       /\ f.mapping.review # None => f.mapping.review \in reviews

\* 7, 8, 9: the basis version and every proof resolve to what was frozen.
ProofsHold(f) ==
  LET proof == BasisProof(imports, f.basis)
  IN /\ f.version <= Len(basisVersions) /\ basisVersions[f.version] = f.basis
     /\ ResolvesTo(imports, f.basis.subjectRef, f.basis.subject)
     /\ proof.subject = f.proofs.basis.subject
     /\ f.proofs.basis.aliases # None => proof.aliases = f.proofs.basis.aliases
     /\ f.proofs.document # None =>
          DocumentProofFor(imports, source, proof.names) = f.proofs.document
     /\ f.proofs.zone # None =>
          f.revision # 0 /\ TimezoneRule(imports, source, times[f.revision]) = f.proofs.zone

\* 10: what was resolved of an N/A proposal resolves to the same fields, and
\* three resolved fields are one record.
NaHolds(f) ==
  f.na # None =>
    /\ \A k \in NaRefs : f.naBindings[k] # None => Resolve(imports, f.na[k]) = f.naBindings[k]
    /\ (\A k \in NaRefs : f.naBindings[k] # None) => SameRecord({f.naBindings[k] : k \in NaRefs})

Verifies(key, f, status) ==
  /\ claims[key[1]] = f.content
  /\ OriginalHolds(f) /\ TimeHolds(f) /\ QualificationHolds(key, f, status)
  /\ MappingHolds(key, f, status) /\ ProofsHold(f) /\ NaHolds(f)

\* The publication: one immediate transaction verifies what was computed and
\* inserts it, or inserts a failed candidate.
Publish(p) ==
  LET r   == Request(p)
      key == <<r.claim, r.criterion>>
      f   == Local(p).frozen
  IN /\ Stage(p, "publish")
     /\ results[key] = None
     /\ results' = [results EXCEPT ![key] =
          [frozen |-> f.input,
           status |-> IF Verifies(key, f.input, f.status) THEN f.status ELSE "execution_failed"]]
     /\ Step(p, Idle)
     /\ UNCHANGED <<basisVersions, claims, mappings, quals, gaps>>

\* A check raises, a key is already taken, or the process ends: committed rows
\* stay, the run is over.
Fail(p) ==
  /\ run[p].at # "idle"
  /\ run' = [run EXCEPT ![p] = Idle]
  /\ UNCHANGED <<source, surroundings, basisVersions, store>>

Next ==
  \/ \E e \in Evidence : AppendTime(e)
  \/ ImportBody
  \/ \E f \in Files : ImportProvenance(f)
  \/ \E w \in ReviewForms : RegisterReview(w)
  \/ Damage
  \/ \E r \in Requests : ReviseBasis(r.basis)
  \/ \E p \in Processes :
       \/ \E r \in Requests : Start(p, r)
       \/ SetBasis(p) \/ ProveBasis(p) \/ ReadSource(p) \/ ClaimRow(p) \/ AddMapping(p)
       \/ Qualify(p) \/ StoreQualification(p) \/ Evaluate(p) \/ Publish(p) \/ Fail(p)

Spec == Init /\ [][Next]_vars

----------------------------------------------------------------------------
(***************************************************************************)
(* Properties.                                                             *)
(***************************************************************************)

Stages == {"idle", "set_basis", "prove_basis", "read_source", "claim", "map", "qualify", "store",
           "evaluate", "publish"}

\* Types.  A run that reads the basis has one, and a file is imported once
\* (ensure_import_record, store.py 3294).
TypeOK ==
  /\ source \in Sources /\ readable \in BOOLEAN
  /\ imports \in Seq(Files) /\ IsInjective(imports)
  /\ basisVersions \in Seq({r.basis : r \in Requests}) /\ Len(basisVersions) <= MaxVersions
  /\ times \in Seq(Evidence) /\ Len(times) <= MaxTimes
  /\ bodies \in 1..MaxBodies /\ reviews \subseteq ReviewForms
  /\ gaps \subseteq Claims /\ DOMAIN claims = Claims /\ DOMAIN quals = Claims
  /\ \A k \in Keys : Len(mappings[k]) <= MaxMappings
  /\ \A k \in Keys : results[k] # None =>
       results[k].status \in {"succeeded", "insufficient", "method_unsupported", "execution_failed"}
  /\ \A p \in Processes :
       /\ run[p].at \in Stages /\ run[p].revision \in 0..Len(times)
       /\ run[p].at \notin {"idle", "set_basis", "publish"} =>
            run[p].version \in 1..Len(basisVersions)

Succeeded(key) == results[key] # None /\ results[key].status = "succeeded"

\* A published success stands on the stored qualification of its claim, on the
\* very row it froze, and either on a registered review that confirms this
\* quote for this claim, criterion and basis version, or on a legal N/A, though
\* another run may have stored the qualification and others appended mappings
\* in between (run_criterion_slice, verify_result_bindings).
SucceededIsSupported ==
  \A k \in Keys : Succeeded(k) =>
    LET f == results[k].frozen
        w == f.mapping.review
    IN /\ f.qualification = quals[k[1]] /\ f.qualification.status = "qualified"
       /\ \/ f.na # None /\ NaLegal(imports, k[2], f.na, f.basis.subject)
          \/ /\ f.mapping.status = "confirmed" /\ w \in reviews
             /\ w.decision = "confirmed" /\ w.version = f.version
             /\ <<w.claim, w.criterion>> = k /\ w.quote = f.mapping.quote

\* Whatever was imported, registered or revised since, the judgments over what
\* a success froze, with the original as the only source of its body, give a
\* success again: nothing outside the frozen inputs decided it.
Reproducible ==
  \A k \in Keys : Succeeded(k) =>
    LET f == results[k].frozen
        outcome == QualifyClaim(imports, TRUE, source, EvidenceAt(f.revision), f.content,
                                Names(f.basis), 1)
    IN EvaluateCriterion(imports, k[2], f.na, f.basis.subject, outcome, f.content,
                         f.mapping.status) = "succeeded"

\* A published result goes on passing the verification of its bindings: later
\* revisions, imports, reviews, bases and runs do not break it.  Only damage to
\* the original does, and a later mapping row with another quote, which a run
\* refused at its evaluation leaves behind.
PublishedKeepsVerifying ==
  \A k \in Keys :
    LET r == results[k]
        rows == mappings[k]
    IN r # None /\ r.status # "execution_failed" /\ readable
         /\ rows[Len(rows)].quote = r.frozen.mapping.quote
       => Verifies(k, r.frozen, r.status)

\* The digest is the digest of the complete input (run_input_digest_v3): a run
\* whose inputs have the digest of a published result computes its status.
EqualDigestEqualStatus ==
  \A p \in Processes : run[p].at = "evaluate" =>
    LET r == Request(p)
        known == results[<<r.claim, r.criterion>>]
    IN known # None /\ known.status # "execution_failed" /\ Digest(known.frozen) = Digest(Frozen(p))
       => known.status = Status(p)
=============================================================================
