---------------------------- MODULE Qualification ----------------------------
(***************************************************************************)
(* qualification.py and the judgments around it in kernels/__init__.py and *)
(* dimensions.py: from a claim, its source, the case basis and the sealed  *)
(* provenance files to four verdicts, a qualification, the status of the   *)
(* mapping to a criterion and the evaluation of that criterion.            *)
(*                                                                         *)
(* An instant is a number of half days, a located time is a day with or    *)
(* without a half and with or without an offset in half days.  A field     *)
(* reference is <<file name, record, field>>.                              *)
(***************************************************************************)
EXTENDS Integers, Sequences, FiniteSetsExt, Functions

CONSTANTS
  FileName,   \* imported file -> the name references find it by
  Fields,     \* imported file -> [<<record, field>> -> value]
  Cutoff,     \* the instant of evidence_cutoff
  Offset,     \* timezone rule -> its offset in half days
  NaPolicy,   \* criterion -> "never" or "explicit_no_external_financing_only"
  Supported,  \* the criteria whose level the registry supports
  Acceptable, \* implemented criterion -> the uses its rule accepts
  None

----------------------------------------------------------------------------
\* References into the sealed provenance files (resolve_case_field_reference_binding):
\* the first import of that name decides, whatever is imported later.

(* Mutant: the last import of the name decides. *)
ResolveLatest(imports, ref) ==
  LET named == {i \in DOMAIN imports : FileName[imports[i]] = ref[1]}
      file  == imports[Max(named)]
  IN IF named = {} THEN None
     ELSE IF <<ref[2], ref[3]>> \notin DOMAIN Fields[file] THEN None
     ELSE [file |-> file, record |-> ref[2], value |-> Fields[file][<<ref[2], ref[3]>>]]

Resolve(imports, ref) ==
  LET named == {i \in DOMAIN imports : FileName[imports[i]] = ref[1]}
      file  == imports[Min(named)]
  IN IF named = {} THEN None
     ELSE IF <<ref[2], ref[3]>> \notin DOMAIN Fields[file] THEN None
     ELSE [file |-> file, record |-> ref[2], value |-> Fields[file][<<ref[2], ref[3]>>]]

ResolvesTo(imports, ref, value) ==
  Resolve(imports, ref) # None /\ Resolve(imports, ref).value = value

\* Fields of one sealed record: relations are not spliced from several.
SameRecord(bindings) ==
  \A a, b \in bindings : a.file = b.file /\ a.record = b.record

\* No file of that name is sealed yet.
Unsealed(imports, ref) == \A i \in DOMAIN imports : FileName[imports[i]] # ref[1]

\* Aliases are sealed in a record of the subject; the declared ones among them
\* count.  What is wrong with them names the reference or the value it is about.
\* A field that is no list of names is sealed as None.
Wrong(why, ref, value) == [why |-> why, ref |-> ref, value |-> value]
NoError == Wrong("none", None, None)

ReferenceError(imports, ref) ==
  Wrong(IF Unsealed(imports, ref) THEN "unsealed" ELSE "no_field", ref, None)

AliasesError(imports, basis) ==
  LET sealed  == Resolve(imports, basis.aliasesRef)
      subject == Resolve(imports, basis.aliasesSubjectRef)
  IN IF basis.aliasesRef = None
     THEN IF basis.aliases = {} THEN NoError ELSE Wrong("no_path", None, None)
     ELSE IF basis.aliasesSubjectRef = None THEN Wrong("no_subject_path", None, None)
     ELSE IF sealed = None THEN ReferenceError(imports, basis.aliasesRef)
     ELSE IF sealed.value = None THEN Wrong("no_list", None, None)
     ELSE IF subject = None THEN ReferenceError(imports, basis.aliasesSubjectRef)
     ELSE IF subject.value # basis.subject THEN Wrong("other_value", None, subject.value)
     ELSE IF ~SameRecord({sealed, subject}) THEN Wrong("relation", None, None)
     ELSE NoError

AliasesProof(imports, basis) ==
  IF basis.aliasesRef # None /\ AliasesError(imports, basis) = NoError
  THEN [aliases |-> Resolve(imports, basis.aliasesRef),
        subject |-> Resolve(imports, basis.aliasesSubjectRef)]
  ELSE None

VerifiedAliases(imports, basis) ==
  LET proof == AliasesProof(imports, basis)
  IN IF proof = None THEN {} ELSE basis.aliases \cap proof.aliases.value

\* The proof bindings of the basis, None when the subject itself is unproved.
\* Why declared aliases are unproved is part of them.
BasisProof(imports, basis) ==
  IF ResolvesTo(imports, basis.subjectRef, basis.subject)
  THEN [subject |-> Resolve(imports, basis.subjectRef),
        aliases |-> AliasesProof(imports, basis),
        error   |-> IF basis.aliases = {} THEN NoError ELSE AliasesError(imports, basis),
        names   |-> {basis.subject} \cup VerifiedAliases(imports, basis)]
  ELSE None

\* A sealed record binds the document's own subject and the hash of this very
\* original; a declaration is bound to the projected text it quotes as well.
DocumentSubjectProof(imports, source) ==
  LET subject == Resolve(imports, source.subjectRef)
      hash    == Resolve(imports, source.hashRef)
  IN IF /\ subject # None /\ hash # None
        /\ subject.value = source.documentSubject
        /\ SameRecord({subject, hash})
        /\ hash.value = source.blob
        /\ source.anchored
     THEN [subject |-> subject, hash |-> hash] ELSE None

DocumentProofFor(imports, source, names) ==
  IF source.documentSubject \in names THEN DocumentSubjectProof(imports, source) ELSE None

\* The rule and the source family it applies to, of one record.
TimezoneRule(imports, source, evidence) ==
  LET rule  == Resolve(imports, evidence.ruleRef)
      scope == Resolve(imports, evidence.scopeRef)
  IN IF /\ evidence.rule # None
        /\ rule # None /\ scope # None
        /\ rule.value = evidence.rule /\ scope.value = source.family
        /\ SameRecord({rule, scope})
     THEN [rule |-> rule, offset |-> Offset[evidence.rule]] ELSE None

----------------------------------------------------------------------------
\* The four judgments.

DiscoveryFamilies == {"search_summary", "aggregator_snippet"}
FirstPartyFamilies == {"owner_attachment", "company-official"}
KnownFamilies == FirstPartyFamilies \cup
  {"news-media", "gov-agency", "academic", "public_original_page", "patent-office"}

FailedCapture(source) == source.body = "empty" \/ source.capture = "blocked"

SourceJudgment(source) ==
  CASE source.family \in DiscoveryFamilies -> "fail"
    [] source.family \notin KnownFamilies  -> "unknown"
    [] OTHER                               -> "ok"

\* Owner material is the subject's own word only with the proof; any other
\* source must name the subject.
IdentityJudgment(imports, source, claim, names) ==
  IF source.family \in FirstPartyFamilies
  THEN IF DocumentProofFor(imports, source, names) # None THEN "ok" ELSE "unknown"
  ELSE IF claim.mentions \cap names # {} THEN "ok"
  ELSE IF claim.scope \in names THEN "fail" ELSE "unknown"

Day(instant) == instant \div 2
At(value, offset) == 2 * value.day + value.half - offset

\* The declared time is the located one, never a more favourable reading of it.
Matches(declared, value, zone) ==
  IF declared.half = None
  THEN (IF value.offset = None \/ value.half = None THEN value.day
        ELSE Day(At(value, value.offset))) = declared.day
  ELSE /\ value.half # None
       /\ CASE value.offset # None ->
                 At(value, value.offset) =
                   At(declared, IF declared.offset = None THEN 0 ELSE declared.offset)
            [] value.offset = None /\ declared.offset # None ->
                 zone # None /\ At(value, zone.offset) = At(declared, declared.offset)
            [] OTHER -> value.day = declared.day /\ value.half = declared.half

\* _judged_from_located_text: the first located value that matches is compared
\* with the cutoff, as precisely as it was written.
LocatedTimeJudgment(declared, located, zone, ruleGiven) ==
  LET hits  == {i \in DOMAIN located : Matches(declared, located[i], zone)}
      value == located[Min(hits)]
      sourced == value.offset = None /\ declared.half # None /\ declared.offset # None
      instant == At(value, IF value.offset # None THEN value.offset ELSE zone.offset)
  IN IF declared = None \/ located = <<>> THEN "fail"
     ELSE IF hits = {} THEN IF ruleGiven /\ zone = None THEN "unknown" ELSE "fail"
     ELSE IF value.half = None
     THEN IF value.day > Day(Cutoff) THEN "fail"
          ELSE IF value.day = Day(Cutoff) THEN "unknown" ELSE "ok"
     ELSE IF value.offset = None /\ ~sourced THEN "unknown"
     ELSE IF instant > Cutoff THEN "fail" ELSE "ok"

\* classify_time_registration: the sealed schema and the outer marker together
\* decide; a record of the new schema is never read the old way.
RegistrationMode(marker, schema) ==
  CASE schema = "unreadable"                      -> "reject"
    [] schema = "v1" /\ marker \in {None, "v1"}   -> "verify"
    [] schema = None /\ marker = None             -> "legacy"
    [] OTHER                                      -> "reject"

\* verify_time_registration_contract: the upstream file still holds this time
\* and this original, in one record.
ContractHolds(imports, source, proof) ==
  LET time     == Resolve(imports, proof.timeRef)
      document == Resolve(imports, proof.documentRef)
  IN /\ time # None /\ document # None
     /\ SameRecord({time, document})
     /\ time.value = proof.recorded
     /\ document.value = source.blob

RegisteredJudgment(imports, source, evidence) ==
  LET proof == evidence.proof
      mode  == RegistrationMode(proof.marker, proof.schema)
  IN IF /\ proof.document = source.blob
        /\ mode # "reject"
        /\ mode = "verify" => ContractHolds(imports, source, proof)
        /\ evidence.declared # None
        /\ proof.recorded = evidence.declared
        /\ evidence.declared <= Cutoff
     THEN "ok" ELSE "fail"

\* A publication date is judged before any other evidence; a date taken from a
\* file name proves nothing; the capture clock only speaks when nothing else does.
TimeJudgment(imports, source, evidence) ==
  LET zone == TimezoneRule(imports, source, evidence)
  IN IF source.published # None
     THEN LocatedTimeJudgment(source.published, source.publishedText, zone,
                              evidence.rule # None)
     ELSE IF evidence.kind = "document_self_date"
     THEN LocatedTimeJudgment(evidence.declared, evidence.located, zone, evidence.rule # None)
     ELSE IF evidence.kind = "filename_derived_date" THEN "unknown"
     ELSE IF evidence.kind = "registered_at" THEN RegisteredJudgment(imports, source, evidence)
     ELSE IF source.retrieved = None THEN "unknown"
     ELSE IF source.retrieved > Cutoff THEN "fail" ELSE "ok"

IndependenceJudgment(bodies) == IF bodies > 1 THEN "unknown" ELSE "ok"

----------------------------------------------------------------------------
\* qualify_claim.

Locators == {"byte_range", "pdf_page", "zip_member"}

\* The original can no longer be read, or the claim does not say where it stands.
IsGap(readable, source, claim) ==
  ~readable \/ (~FailedCapture(source) /\ claim.locator \notin Locators)

Verdict(verdicts) ==
  IF "fail" \in verdicts THEN "rejected"
  ELSE IF "unknown" \in verdicts THEN "needs_review" ELSE "qualified"

AllowedUses(imports, source, evidence, claim, names) ==
  (IF source.family \in DiscoveryFamilies THEN {"source_discovery"} ELSE {})
  \cup (IF IdentityJudgment(imports, source, claim, names) = "ok"
        THEN IF source.family \in FirstPartyFamilies THEN {"company_self_statement"}
             ELSE {"third_party_reported_fact"}
        ELSE {})
  \cup (IF /\ source.published = None /\ evidence.kind = "document_self_date"
           /\ TimeJudgment(imports, source, evidence) = "ok"
        THEN {"document_dated_statement"} ELSE {})

QualifyClaim(imports, readable, source, evidence, claim, names, bodies) ==
  IF IsGap(readable, source, claim) THEN [status |-> "gap", uses |-> {}, identity |-> "unknown"]
  ELSE IF FailedCapture(source)
  THEN [status |-> "rejected", uses |-> {}, identity |-> "unknown"]
  ELSE LET identity == IdentityJudgment(imports, source, claim, names)
       IN [status |-> Verdict({SourceJudgment(source), identity,
                               TimeJudgment(imports, source, evidence),
                               IndependenceJudgment(bodies)}),
           uses |-> AllowedUses(imports, source, evidence, claim, names),
           identity |-> identity]

\* What is wrong with the aliases is also held against a claim of another source,
\* declared or not (cannot_prove): of what an outcome says beside its verdicts, the
\* one entry a later import can change without proving anything.
AliasCaveat(imports, source, claim, basis, names) ==
  IF \/ FailedCapture(source) \/ source.family \in FirstPartyFamilies
     \/ (claim.mentions \cup {claim.scope}) \cap names = {}
  THEN NoError ELSE AliasesError(imports, basis)

----------------------------------------------------------------------------
\* The mapping of a claim to a criterion: words find a candidate, only a
\* registered review confirms it, and a negation bars it.

CandidateMapping(quote) ==
  IF quote.verbatim /\ ~quote.negated /\ quote.onTopic THEN "candidate" ELSE "unmapped"

ConfirmMapping(candidate, review, negated) ==
  IF candidate # "candidate" THEN candidate
  ELSE IF negated THEN "unmapped_negated"
  ELSE IF review # None THEN "confirmed" ELSE candidate

\* check_na_legality over the three references, resolved into one sealed record.
NaRefs == {"applicability", "flag", "subject"}

NaLegal(imports, criterion, na, subject) ==
  LET bound == [k \in NaRefs |-> Resolve(imports, na[k])]
  IN /\ NaPolicy[criterion] = "explicit_no_external_financing_only"
     /\ \A k \in NaRefs : bound[k] # None
     /\ SameRecord({bound[k] : k \in NaRefs})
     /\ bound["applicability"].value = "no_external_financing"
     /\ bound["subject"].value = subject
     /\ bound["flag"].value = "true"

\* A team criterion needs an identified subject and a bounded scope.
TmrlIdentityOk(criterion, outcome, claim) ==
  criterion[1] = "TMRL" => outcome.identity = "ok" /\ claim.scope \notin {None, "all"}

\* evaluate_criterion: identity and method come first, then the legal N/A, then
\* the rule's own evidence.
EvaluateCriterion(imports, criterion, na, subject, outcome, claim, mapping) ==
  IF criterion \notin Supported THEN "method_unsupported"
  ELSE IF na # None /\ NaLegal(imports, criterion, na, subject) THEN "succeeded"
  ELSE IF criterion \notin DOMAIN Acceptable THEN "method_unsupported"
  ELSE IF /\ outcome.status = "qualified"
          /\ TmrlIdentityOk(criterion, outcome, claim)
          /\ outcome.uses \cap Acceptable[criterion] # {}
          /\ mapping = "confirmed"
  THEN "succeeded" ELSE "insufficient"
=============================================================================
