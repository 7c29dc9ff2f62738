------------------------------ MODULE DimensionRun ------------------------------
(***************************************************************************)
(* The dimension slices (run_crl_dimension_slice, run_frl_dimension_slice  *)
(* and _run_assessment_unit_dimension_slice in runner.py) of one source,   *)
(* with the validation of dimension payloads they share with the trace     *)
(* (audit.py) and the tables of the case store they read and write.        *)
(*                                                                         *)
(* A slice reads the basis, then binds every selected review, validates    *)
(* and inserts in one immediate transaction, and writes its output file    *)
(* after the commit.  The originals lie outside the transaction: they can  *)
(* be damaged between the binding (Judge) and the validation (Publish).    *)
(*                                                                         *)
(* A review is registered by hand, or materialised from an authorization   *)
(* the proposal queue gave for a claim it had qualified.  The authorization *)
(* carries the view it was given on, and is checked against the case again *)
(* whenever it is used: at materialisation, at the binding, at publication *)
(* and by every trace (proposal_requests.py, review_queue.py).             *)
(*                                                                         *)
(* A result is its frozen inputs: its digest identifies them, and the      *)
(* level the kernels derive from the accepted reviews (DimensionRules) is  *)
(* a function of them.  Only whether it is a failure is kept beside them.  *)
(***************************************************************************)
EXTENDS Qualification

CONSTANTS
  Processes,
  Source,        \* the source row
  Content,       \* claim -> scope, mentions, locator, negated, excerpt
  Criteria,      \* dimension -> its registered criteria
  Requests,      \* calls: dimension, basis, unit, applicability, allowed, approved
  Files, Imported, \* provenance files that may be, and that are, imported
  Evidence,      \* time evidence that may be appended
  ReviewForms,   \* dimension reviews that may be registered by hand
  Candidates,    \* claims proposed to a criterion: claim, dimension, criterion, version,
                 \* use, scopeId, inputs (the bundles of its evaluation inputs)
  Responses,     \* their reviews: id, candidate, decision, people
  OverlayForms,  \* identity overlays that may be registered
  MaxTimes, MaxBodies, MaxVersions, \* bounds: time revisions, equal bodies, basis versions
  MaxResults     \* bound: results at the start of a slice

VARIABLES
  readable,       \* the sealed original can be read back
  imports,        \* case_provenance import records, oldest first
  basisVersions,  \* case_basis_versions
  times,          \* source_time_evidence of the source
  bodies,         \* sources with the same blob
  quals,          \* qualified claim -> its stored qualification
  reviews,        \* crl_evidence_reviews, dimension_evidence_reviews with their sidecars
  authorizations, \* review_authorizations: candidate, view, proofs of the inputs
  sealed,         \* candidates whose text and responses can be read back
  overlays,       \* tmrl_identity_overlays
  results,        \* dimension results: the set of their frozen inputs
  output,         \* dimension -> the result in its output file
  run             \* process -> the slice it is in

evidence == <<imports, times, bodies, quals, overlays>>
workflow == <<authorizations, sealed>>
vars == <<readable, evidence, basisVersions, reviews, workflow, results, output, run>>

Claims == DOMAIN Content
Dimensions == DOMAIN Criteria

ASSUME DimensionRunAssumption ==
  /\ \A r \in Requests : r.dimension \in Dimensions
  /\ Imported \in Seq(Files) /\ IsInjective(Imported)
  /\ \A w \in ReviewForms :
       {"mode", "claim", "sidecar"} \subseteq DOMAIN w /\ w.claim \in Claims /\ w.sidecar = None
  /\ \A c \in Candidates :
       /\ c # None /\ c.claim \in Claims /\ c.dimension \in Dimensions \ {"CRL"}
       /\ Content[c.claim].locator \in {"pdf_page", "zip_member"}
  /\ \A o \in Responses : o.candidate \in Candidates
  /\ {MaxTimes, MaxBodies, MaxVersions, MaxResults} \subseteq Nat /\ MaxBodies >= 1
  /\ Source.published # None => DOMAIN Source.publishedText \subseteq Nat
  /\ \A e \in Evidence \cup ({Source.column} \ {None}) :
       e.kind = "document_self_date" => DOMAIN e.located \subseteq Nat

Idle == [at |-> "idle", request |-> None, version |-> 0, frozen |-> None]

Init ==
  /\ readable = TRUE
  /\ imports = Imported
  /\ basisVersions = <<>>
  /\ times = <<>>
  /\ bodies = 1
  /\ quals = [c \in {} |-> None]
  /\ reviews = {}
  /\ authorizations = {}
  /\ sealed = Candidates
  /\ overlays = {}
  /\ results = {}
  /\ output = [d \in Dimensions |-> None]
  /\ run = [p \in Processes |-> Idle]

(* Mutant: a deferred transaction lets others write until it writes itself. *)
UnlockedAlways == TRUE

\* Nobody else writes while a slice holds its immediate transaction.
Unlocked == \A p \in Processes : run[p].at # "publish"

----------------------------------------------------------------------------
\* What else happens in the case.  Every table is append-only.

Outside == Unlocked /\ UNCHANGED <<workflow, results, output, run>>

AppendTime(e) ==
  /\ Len(times) < MaxTimes
  /\ times' = Append(times, e)
  /\ Outside /\ UNCHANGED <<readable, imports, basisVersions, bodies, quals, reviews, overlays>>

ImportBody ==
  /\ bodies < MaxBodies
  /\ bodies' = bodies + 1
  /\ Outside /\ UNCHANGED <<readable, imports, basisVersions, times, quals, reviews, overlays>>

ImportProvenance(f) ==
  /\ \A i \in DOMAIN imports : imports[i] # f
  /\ imports' = Append(imports, f)
  /\ Outside /\ UNCHANGED <<readable, basisVersions, times, bodies, quals, reviews, overlays>>

\* set_case_basis_if_changed (initialize_case)
ReviseBasis(b) ==
  /\ Len(basisVersions) < MaxVersions
  /\ basisVersions # <<>> => basisVersions[Len(basisVersions)] # b
  /\ basisVersions' = Append(basisVersions, b)
  /\ Outside /\ UNCHANGED <<readable, evidence, reviews>>

\* The sidecars a review is registered with decide its permission mode.
PermissionMode(w) ==
  IF w.permission # None THEN "license_v2"
  ELSE IF w.sidecar # None THEN "workflow_authorization_v1" ELSE "legacy_unbound"

\* add_crl_evidence_review, add_dimension_evidence_review: the review and its
\* permission in one transaction; neither the claim nor the version is checked.
RegisterReview(w) ==
  /\ \A v \in reviews : v.id # w.id
  /\ reviews' = reviews \cup {[w EXCEPT !.mode = PermissionMode(w)]}
  /\ Outside /\ UNCHANGED <<readable, evidence, basisVersions>>

\* add_tmrl_identity_overlay: one for each version, scope and subject
RegisterOverlay(o) ==
  /\ \A v \in overlays :
       <<v.version, v.scopeId, v.subject>> # <<o.version, o.scopeId, o.subject>>
  /\ overlays' = overlays \cup {o}
  /\ Outside /\ UNCHANGED <<readable, imports, basisVersions, times, bodies, quals, reviews>>

\* The blob store is no part of the transaction.
Damage ==
  /\ readable
  /\ readable' = FALSE
  /\ UNCHANGED <<evidence, basisVersions, reviews, workflow, results, output, run>>

DamageResponse(c) ==
  /\ c \in sealed
  /\ sealed' = sealed \ {c}
  /\ UNCHANGED <<readable, evidence, basisVersions, reviews, authorizations, results, output, run>>

----------------------------------------------------------------------------
\* The qualification input view (build_qualification_input_view).

\* _time_evidence_selection: the named revision, or the column of the source row.
EvidenceAt(revision) ==
  IF revision > 0 THEN times[revision]
  ELSE IF Source.column # None THEN Source.column ELSE [kind |-> "none", rule |-> None]

Names(b) == {b.subject} \cup VerifiedAliases(imports, b)
Outcome(c, revision, same, names) ==
  QualifyClaim(imports, readable, Source, EvidenceAt(revision), Content[c], names, same)

\* The row of an outcome: its verdicts and what is held against it.
Row(outcome, caveat) ==
  [status |-> outcome.status, uses |-> outcome.uses, identity |-> outcome.identity,
   caveat |-> caveat]

Stored(c, row) == [d \in DOMAIN quals \cup {c} |-> IF d = c THEN row ELSE quals[d]]

\* Another run has judged the claim with what it had read until then
\* (run_criterion_slice, consume_response; the first qualification stays).
StoreQualification(c, version, revision, same) ==
  LET b == basisVersions[version]
      outcome == Outcome(c, revision, same, Names(b))
  IN /\ c \notin DOMAIN quals
     /\ BasisProof(imports, b) # None
     /\ outcome.status # "gap"
     /\ quals' = Stored(c, Row(outcome, AliasCaveat(imports, Source, Content[c], b, Names(b))))
     /\ Outside /\ UNCHANGED <<readable, imports, basisVersions, times, bodies, reviews, overlays>>

\* _registration_proof_binding: the record is about this very original.
RegistrationProof(e) ==
  IF e.kind = "registered_at" THEN IF e.proof.document = Source.blob THEN e.proof ELSE None
  ELSE None

View(c, row, revision, same, b, proof) ==
  LET e == EvidenceAt(revision)
  IN [claim |-> c, revision |-> revision, bodies |-> same, qualification |-> row,
      outcome      |-> Outcome(c, revision, same, proof.names),
      caveat       |-> AliasCaveat(imports, Source, Content[c], b, proof.names),
      basis        |-> proof,
      document     |-> DocumentProofFor(imports, Source, proof.names),
      zone         |-> TimezoneRule(imports, Source, e),
      registration |-> RegistrationProof(e)]

\* What the outcome rests on is proved, and a registration record named beside
\* a good time must be one of this original even if the time rests on another.
ViewErrors(v) ==
  LET e == EvidenceAt(v.revision)
  IN \/ "company_self_statement" \in v.outcome.uses /\ v.document = None
     \/ /\ e.kind = "registered_at" /\ v.registration = None
        /\ TimeJudgment(imports, Source, e) = "ok"

(* Mutant: the view is rebuilt with the latest time evidence. *)
ViewHoldsLatest(v, b, proof) ==
  /\ proof # None /\ v.claim \in DOMAIN quals
  /\ View(v.claim, quals[v.claim], Len(times), v.bodies, b, proof) = [v EXCEPT !.revision = Len(times)]

\* verify_qualification_input_view: rebuilt from the frozen revision and count.
ViewHolds(v, b, proof) ==
  /\ proof # None /\ v.claim \in DOMAIN quals
  /\ v.revision <= Len(times)
  /\ View(v.claim, quals[v.claim], v.revision, v.bodies, b, proof) = v

----------------------------------------------------------------------------
\* Bundles of references (_resolve_reference_bundle): every field has its
\* expected value and all are of one record.  A bundle is a set of pairs
\* <<reference, expected value>>; a frozen one maps each pair to its binding.

BundleHolds(bundle) ==
  /\ \A e \in bundle : ResolvesTo(imports, e[1], e[2])
  /\ SameRecord({Resolve(imports, e[1]) : e \in bundle})

ResolveBundle(bundle) ==
  IF BundleHolds(bundle) THEN [e \in bundle |-> Resolve(imports, e[1])] ELSE None

\* _verify_reference_bundle: nothing to verify where nothing was proved.
VerifyBundle(saved) == saved # None => ResolveBundle(DOMAIN saved) = saved

\* _resolve_tmrl_identity_overlays: the record of each person, proved.
OverlayOf(version, scopeId, person) ==
  {o \in overlays : o.version = version /\ o.scopeId = scopeId /\ o.subject = person}
OverlayBundle(o) ==
  {<<o.subjectRef, o.subject>>, <<o.statusRef, o.status>>, <<o.scopeRef, o.scopeId>>}
OverlaysResolve(version, scopeId, people) ==
  /\ people # {}
  /\ \A person \in people :
       \E o \in OverlayOf(version, scopeId, person) : BundleHolds(OverlayBundle(o))
FrozenOverlays(version, scopeId, people) ==
  {[record |-> o, proof |-> ResolveBundle(OverlayBundle(o))] :
     o \in UNION {OverlayOf(version, scopeId, person) : person \in people}}

----------------------------------------------------------------------------
\* Authorizations and the reviews materialised from them.

(* Mutant: what was authorized once is not checked against the case again. *)
TrustedOnce(a) ==
  LET c == a.candidate
  IN /\ a \in authorizations /\ c \in sealed /\ readable
     /\ c.claim \in DOMAIN quals /\ quals[c.claim] = a.view.qualification

\* validate_authorization_trusted: the authorization is one of this case, its
\* blobs can be read, and the proofs of its basis, its own view and the bundles
\* of its inputs come out today as they were frozen.
Trusted(a) ==
  LET c == a.candidate
      b == basisVersions[c.version]
      proof == BasisProof(imports, b)
  IN /\ a \in authorizations /\ c \in sealed /\ readable
     /\ c.claim \in DOMAIN quals /\ quals[c.claim] = a.view.qualification
     /\ proof = a.view.basis /\ ViewHolds(a.view, b, proof)
     /\ \A i \in DOMAIN a.inputs : BundleHolds(i) /\ ResolveBundle(i) = a.inputs[i]

\* consume_response of the proposal queue, for a candidate it authorizes: the
\* claim is judged with the revision and the bodies read before the transaction
\* that stores the qualification, unless an equal one is stored, and the
\* authorization.  A response is consumed once.  (StoreQualification is the one
\* that does not qualify.)
Authorize(c, revision, same) ==
  LET b     == basisVersions[c.version]
      proof == BasisProof(imports, b)
      row   == Row(Outcome(c.claim, revision, same, proof.names),
                   AliasCaveat(imports, Source, Content[c.claim], b, proof.names))
      view  == View(c.claim, row, revision, same, b, proof)
  IN /\ c \in sealed /\ \A a \in authorizations : a.candidate # c
     /\ c.version \in DOMAIN basisVersions /\ proof # None
     /\ \A i \in c.inputs : BundleHolds(i)
     /\ c.claim \in DOMAIN quals => quals[c.claim] = row
     /\ row.status = "qualified" /\ c.use \in row.uses /\ ~ViewErrors(view)
     /\ quals' = Stored(c.claim, row)
     /\ authorizations' = authorizations \cup
          {[candidate |-> c, view |-> view, inputs |-> [i \in c.inputs |-> ResolveBundle(i)]]}
     /\ Unlocked /\ UNCHANGED <<readable, imports, basisVersions, times, bodies, reviews>>
     /\ UNCHANGED <<sealed, overlays, results, output, run>>

\* _build_workflow_materialization: the review of a response, and its sidecar.
Materialized(o, a) ==
  LET c == o.candidate
      w == [id |-> o.id, dimension |-> c.dimension, version |-> c.version, claim |-> c.claim,
            criterion |-> c.criterion, quote |-> Content[c.claim].excerpt,
            decision |-> o.decision, subject |-> Content[c.claim].scope,
            scopeId |-> c.scopeId, people |-> o.people, permission |-> None,
            sidecar |-> a, mode |-> None]
  IN [w EXCEPT !.mode = PermissionMode(w)]

\* materialize_consumed_response: the authorization is checked inside the
\* transaction that writes the review; a candidate has one response.
Materialize(o) ==
  /\ \A v \in reviews : v.id # o.id
  /\ \A v \in reviews : v.sidecar # None => v.sidecar.candidate # o.candidate
  /\ \E a \in authorizations :
       /\ a.candidate = o.candidate /\ Trusted(a)
       /\ reviews' = reviews \cup {Materialized(o, a)}
  /\ Outside /\ UNCHANGED <<readable, evidence, basisVersions>>

\* validate_workflow_materialization_trusted
Authorized(w) ==
  /\ Trusted(w.sidecar)
  /\ \E o \in Responses :
       o.candidate = w.sidecar.candidate /\ w = Materialized(o, w.sidecar)

----------------------------------------------------------------------------
\* Which reviews a slice binds (_bind_dimension_review).

ScopeId(r) == IF r.unit = None THEN None ELSE r.unit.scopeId

\* The reviews of this dimension, basis version and scope, as far as the
\* workflow selects them.
Selected(r, version) ==
  {w \in reviews : /\ w.dimension = r.dimension /\ w.version = version
                   /\ w.scopeId = ScopeId(r)
                   /\ r.allowed # None => w.id \in r.allowed}

\* What a permission was given for.
ReviewTarget(w) ==
  [dimension |-> w.dimension, criterion |-> w.criterion, claim |-> w.claim,
   quote |-> w.quote, scopeId |-> w.scopeId, decision |-> w.decision]

SidecarHolds(w) ==
  CASE w.mode = "license_v2" -> w.permission = ReviewTarget(w) /\ w.sidecar = None
    [] w.mode = "workflow_authorization_v1" ->
         w.permission = None /\ w.sidecar # None /\ Authorized(w)
    [] OTHER -> w.permission = None /\ w.sidecar = None

(* Mutant: the stored qualification is trusted. *)
RequalifiedOnce(v) == v.qualification.status = "qualified"

\* The claim is judged again, with today's evidence.
Requalified(v) == v.outcome.status = "qualified" /\ ~ViewErrors(v)

Binds(r, version, proof, w) ==
  /\ proof # None
  /\ r.unit # None => BundleHolds(r.unit.bundle)
  /\ w.subject = r.basis.subject /\ w.criterion \in Criteria[r.dimension]
  /\ w.claim \in DOMAIN quals /\ quals[w.claim].status = "qualified"
  /\ readable /\ Source.body # "empty" /\ Content[w.claim].locator \in Locators
  /\ w.quote = Content[w.claim].excerpt
  /\ Requalified(View(w.claim, quals[w.claim], Len(times), bodies, r.basis, proof))
  /\ r.dimension # "CRL" => SidecarHolds(w)
  /\ r.dimension = "TMRL" => OverlaysResolve(version, ScopeId(r), w.people)

----------------------------------------------------------------------------
\* A slice.

Stage(p, stage) == run[p].at = stage
Step(p, to) == run' = [run EXCEPT ![p] = to]
Tables == UNCHANGED <<readable, evidence, reviews, workflow>>

\* _effective_case_basis: the first basis is the caller's, afterwards the
\* caller's must equal the latest version.
Start(p, r) ==
  /\ Stage(p, "idle") /\ Cardinality(results) < MaxResults
  /\ basisVersions # <<>> => basisVersions[Len(basisVersions)] = r.basis
  /\ Step(p, [Idle EXCEPT !.at = IF basisVersions = <<>> THEN "set_basis" ELSE "judge",
                          !.request = r, !.version = Len(basisVersions)])
  /\ Tables /\ UNCHANGED <<basisVersions, results, output>>

SetBasis(p) ==
  /\ Stage(p, "set_basis") /\ Unlocked
  /\ Len(basisVersions) < MaxVersions
  /\ basisVersions' = Append(basisVersions, run[p].request.basis)
  /\ Step(p, [run[p] EXCEPT !.at = "judge", !.version = Len(basisVersions) + 1])
  /\ Tables /\ UNCHANGED <<results, output>>

\* FRL: what the case states on external financing, if it is stated.
ApplicabilityError(r) == r.applicability # None /\ ~BundleHolds(r.applicability)

(* Mutant: a review that does not bind is left out, and the rest is evaluated. *)
RejectedQuietly(r, version, proof) ==
  (IF proof = None THEN {"case_basis"} ELSE {})
  \cup (IF r.unit # None /\ ~BundleHolds(r.unit.bundle) THEN {"unit"} ELSE {})
  \cup (IF ApplicabilityError(r) THEN {"applicability"} ELSE {})

\* Whatever does not hold is recorded, and fails the dimension as a whole.
Rejected(r, version, proof) ==
  (IF proof = None THEN {"case_basis"} ELSE {})
  \cup (IF r.unit # None /\ ~BundleHolds(r.unit.bundle) THEN {"unit"} ELSE {})
  \cup (IF ApplicabilityError(r) THEN {"applicability"} ELSE {})
  \cup {w.id : w \in {v \in Selected(r, version) : ~Binds(r, version, proof, v)}}

Frozen(r, version) ==
  LET proof == BasisProof(imports, basisVersions[version])
      bound == {w \in Selected(r, version) : Binds(r, version, proof, w)}
  IN [dimension |-> r.dimension, approved |-> r.approved, version |-> version,
      basis |-> r.basis, proofs |-> proof, scopeId |-> ScopeId(r), allowed |-> r.allowed,
      reviews |-> bound, rejected |-> Rejected(r, version, proof),
      views |-> {View(w.claim, quals[w.claim], Len(times), bodies, r.basis, proof) : w \in bound},
      unit |-> IF r.unit = None THEN None ELSE ResolveBundle(r.unit.bundle),
      applicability |-> IF r.applicability = None THEN None ELSE ResolveBundle(r.applicability),
      overlays |-> IF r.dimension = "TMRL"
                   THEN FrozenOverlays(version, ScopeId(r), UNION {w.people : w \in bound})
                   ELSE {},
      broken |-> FALSE]

Judge(p) ==
  /\ Stage(p, "judge") /\ Unlocked
  /\ Step(p, [run[p] EXCEPT !.at = "publish", !.frozen = Frozen(run[p].request, run[p].version)])
  /\ Tables /\ UNCHANGED <<basisVersions, results, output>>

\* validate_crl_dimension_payload, validate_dimension_payload
Validates(f) ==
  LET proof == BasisProof(imports, f.basis)
  IN /\ f.approved
     /\ f.version <= Len(basisVersions) /\ basisVersions[f.version] = f.basis
     /\ proof # None /\ proof = f.proofs
     /\ VerifyBundle(f.unit) /\ VerifyBundle(f.applicability)
     /\ \A o \in f.overlays :
          o.record \in overlays /\ ResolveBundle(OverlayBundle(o.record)) = o.proof
     /\ f.reviews \subseteq reviews
     /\ \A w \in f.reviews : w.sidecar # None => Authorized(w)
     /\ \A v \in f.views : ViewHolds(v, f.basis, proof)

\* _execution_failed_dimension: no disposition and no level
Failed(f) == f.rejected # {} \/ f.broken

(* Mutant: a row of the same dimension and scope counts as this one. *)
PublishPerScope(p) ==
  LET f == run[p].frozen
      g == [f EXCEPT !.broken = ~Failed(f) /\ ~Validates(f)]
  IN /\ Stage(p, "publish")
     /\ results' = IF \E h \in results : h.dimension = g.dimension /\ h.scopeId = g.scopeId
                   THEN results ELSE results \cup {g}
     /\ Step(p, [run[p] EXCEPT !.at = "write", !.frozen = g])
     /\ Tables /\ UNCHANGED <<basisVersions, output>>

\* What does not validate is published as failed, under the digest that includes
\* the errors; an equal digest is there already.
Publish(p) ==
  LET f == run[p].frozen
      g == [f EXCEPT !.broken = ~Failed(f) /\ ~Validates(f)]
  IN /\ Stage(p, "publish")
     /\ results' = results \cup {g}
     /\ Step(p, [run[p] EXCEPT !.at = "write", !.frozen = g])
     /\ Tables /\ UNCHANGED <<basisVersions, output>>

\* The output file holds what the last writer wrote.
Write(p) ==
  /\ Stage(p, "write")
  /\ output' = [output EXCEPT ![run[p].request.dimension] = run[p].frozen]
  /\ Step(p, Idle)
  /\ Tables /\ UNCHANGED <<basisVersions, results>>

\* A call raises or its process ends; an open transaction is rolled back.
Fail(p) ==
  /\ run[p].at # "idle"
  /\ Step(p, Idle)
  /\ Tables /\ UNCHANGED <<basisVersions, results, output>>

Next ==
  \/ \E e \in Evidence : AppendTime(e)
  \/ ImportBody
  \/ \E f \in Files : ImportProvenance(f)
  \/ \E r \in Requests : ReviseBasis(r.basis)
  \/ \E w \in ReviewForms : RegisterReview(w)
  \/ \E o \in OverlayForms : RegisterOverlay(o)
  \/ \E c \in Claims, v \in DOMAIN basisVersions, t \in 0..Len(times), n \in 1..bodies :
       StoreQualification(c, v, t, n)
  \/ \E c \in Candidates, t \in 0..Len(times), n \in 1..bodies : Authorize(c, t, n)
  \/ \E o \in Responses : Materialize(o)
  \/ Damage
  \/ \E c \in Candidates : DamageResponse(c)
  \/ \E p \in Processes :
       \/ \E r \in Requests : Start(p, r)
       \/ SetBasis(p) \/ Judge(p) \/ Publish(p) \/ Write(p) \/ Fail(p)

Spec == Init /\ [][Next]_vars

----------------------------------------------------------------------------
(***************************************************************************)
(* Properties.                                                             *)
(***************************************************************************)

\* Types.  A slice that has judged knows a basis version, and one slice at a
\* time holds the immediate transaction.
TypeOK ==
  /\ readable \in BOOLEAN
  /\ imports \in Seq(Files) /\ IsInjective(imports)
  /\ basisVersions \in Seq({r.basis : r \in Requests}) /\ Len(basisVersions) <= MaxVersions
  /\ times \in Seq(Evidence) /\ Len(times) <= MaxTimes
  /\ bodies \in 1..MaxBodies
  /\ DOMAIN quals \subseteq Claims /\ DOMAIN output = Dimensions
  /\ overlays \subseteq OverlayForms
  /\ \A w \in reviews : w.mode \in {"license_v2", "workflow_authorization_v1", "legacy_unbound"}
  /\ sealed \subseteq Candidates
  /\ \A a \in authorizations :
       /\ a.candidate \in Candidates /\ a.candidate.version \in DOMAIN basisVersions
       /\ a.view.revision \in 0..Len(times) /\ a.view.bodies \in 1..bodies
  /\ \A w \in reviews : w.sidecar # None => w.sidecar \in authorizations
  /\ \A p \in Processes :
       /\ run[p].at \in {"idle", "set_basis", "judge", "publish", "write"}
       /\ run[p].at \in {"judge", "publish", "write"} => run[p].version \in DOMAIN basisVersions
  /\ \A p, q \in Processes : Stage(p, "publish") /\ Stage(q, "publish") => p = q

\* A level is only ever published over all reviews recorded for its dimension,
\* basis version and scope, as far as they were selected: none is dropped because
\* it does not bind, and none arrives between the reading and the publication
\* (rejected_reviews, the immediate transaction of the slices).
LevelHearsEveryReview ==
  [][\A f \in results' \ results : ~Failed(f) =>
       f.reviews = {w \in reviews' : /\ w.dimension = f.dimension /\ w.version = f.version
                                     /\ w.scopeId = f.scopeId
                                     /\ f.allowed # None => w.id \in f.allowed}]_vars

\* A published level rests on reviews of its own subject whose claims are
\* qualified twice: by the stored row, and judged again from the frozen revision
\* and count with the aliases of the frozen basis.  Evidence that turned against
\* a claim before the slice began cannot be outlived by an older qualification
\* (the requalification in _bind_dimension_review).
LevelIsRequalified ==
  \A f \in results : ~Failed(f) => \A w \in f.reviews :
    LET b == basisVersions[f.version]
    IN /\ w.subject = b.subject
       /\ w.claim \in DOMAIN quals /\ quals[w.claim].status = "qualified"
       /\ \E v \in f.views :
            /\ v.claim = w.claim
            /\ QualifyClaim(imports, TRUE, Source, EvidenceAt(v.revision), Content[w.claim],
                            {b.subject} \cup VerifiedAliases(imports, b), v.bodies).status
                 = "qualified"

\* What was unproved is unproved still, and aliases for the same reason: of the
\* reasons only that a file is not sealed yet can go away.
StillMissing(error) ==
  error.why = "unsealed" => Unsealed(imports, error.ref)

StillUnproved(b, proofs, views) ==
  /\ proofs.aliases = None => AliasesProof(imports, b) = None
  /\ StillMissing(proofs.error)
  /\ \A v \in views :
       /\ StillMissing(v.caveat)
       /\ v.document = None => DocumentProofFor(imports, Source, v.basis.names) = None
       /\ v.zone = None => TimezoneRule(imports, Source, EvidenceAt(v.revision)) = None

Sidecars(f) == {w.sidecar : w \in {v \in f.reviews : v.sidecar # None}}
Views(f) == f.views \cup {a.view : a \in Sidecars(f)}

\* A published level goes on tracing while its originals can be read: no later
\* revision, import, basis, review, overlay, qualification or authorization breaks
\* a binding, of the level or of the authorizations its reviews came from.  Only
\* an import does that proves what one of them was made without, or seals a file
\* whose aliases it was made without, as the proofs are rebuilt and compared whole
\* (trace_crl_dimension, trace_dimension_result).
PublishedKeepsTracing ==
  \A f \in results :
    /\ ~Failed(f)
    /\ readable /\ \A a \in Sidecars(f) : a.candidate \in sealed
    /\ StillUnproved(f.basis, f.proofs, Views(f))
    => Validates(f)

\* An authorization stays trusted under the same conditions, whatever becomes of
\* the case between the qualification, the review of it and the slice that binds
\* the review (validate_authorization_trusted).
AuthorizationStaysTrusted ==
  \A a \in authorizations :
    /\ readable /\ a.candidate \in sealed
    /\ StillUnproved(basisVersions[a.candidate.version], a.view.basis, {a.view})
    => Trusted(a)

\* Between an authorization and the publication of a level that rests on it, the
\* proofs of the basis may change: no level mixes the two, its reviews were
\* authorized on the very proofs it is published with.
AuthorizedAsPublished ==
  \A f \in results : ~Failed(f) => \A a \in Sidecars(f) : a.view.basis = f.proofs

\* The output file never shows a result that is not on record, whatever crashes
\* and however slices overlap: not the one before its validation, and not one
\* whose transaction was rolled back (the slices write it after the commit).
OutputIsOnRecord ==
  \A d \in Dimensions : output[d] # None => output[d] \in results
=============================================================================
