-------------------------- MODULE CriterionRunProofs --------------------------
(***************************************************************************)
(* Proofs about the criterion slices, for any number of processes,         *)
(* requests, reviews, revisions and imports.                               *)
(*                                                                         *)
(* Every table is append-only (Later): what a run has read is still there  *)
(* when it publishes, and what a result was verified against is still      *)
(* there ever after.  So the invariant only says what a run carries        *)
(* (RunSound) and what a published result rests on (Published), and every  *)
(* step keeps both by the lemmas that say what is stable.                  *)
(***************************************************************************)
EXTENDS CriterionRun, JudgmentProofs

----------------------------------------------------------------------------
\* Types.

IsRun(x) ==
  DOMAIN x = {"at", "request", "version", "revision", "proofs", "mapping", "outcome", "frozen"}

TablesTyped ==
  /\ source \in Sources /\ readable \in BOOLEAN
  /\ imports \in Seq(Files) /\ IsInjective(imports)
  /\ basisVersions \in Seq({r.basis : r \in Requests}) /\ Len(basisVersions) <= MaxVersions
  /\ times \in Seq(Evidence) /\ Len(times) <= MaxTimes
  /\ bodies \in 1..MaxBodies /\ reviews \subseteq ReviewForms
  /\ gaps \subseteq Claims /\ DOMAIN claims = Claims /\ DOMAIN quals = Claims
  /\ DOMAIN mappings = Keys /\ DOMAIN results = Keys
  /\ \A k \in Keys : /\ \E S : mappings[k] \in Seq(S)
                      /\ Len(mappings[k]) <= MaxMappings

\* The shape of a run: what it is asked, and where it reads.
RunTyped(x) ==
  /\ IsRun(x) /\ x.at \in Stages
  /\ x.at # "idle" => x.request \in Requests
  /\ x.revision \in 0..Len(times)
  /\ x.at \notin {"idle", "set_basis", "publish"} => x.version \in 1..Len(basisVersions)

----------------------------------------------------------------------------
\* What a run carries and what is published.

\* A registered review confirms this quote for this claim, criterion and version.
Confirmed(k, m, version) ==
  /\ m.status = "confirmed" /\ m.review \in reviews
  /\ m.review.decision = "confirmed" /\ m.review.version = version
  /\ <<m.review.claim, m.review.criterion>> = k /\ m.review.quote = m.quote

\* What a success stands on, beside its qualification.
Support(k, f) ==
  \/ f.na # None /\ NaLegal(imports, k[2], f.na, f.basis.subject)
  \/ Confirmed(k, f.mapping, f.version)

KeyOf(x) == <<x.request.claim, x.request.criterion>>
Statuses == {"succeeded", "insufficient", "method_unsupported"}

\* A confirmed mapping has its review; a success about to be published has its
\* support.
RunSound(x) ==
  /\ x.at \in {"qualify", "store", "evaluate"} /\ x.mapping.status = "confirmed" =>
       Confirmed(KeyOf(x), x.mapping, x.version)
  /\ x.at = "publish" =>
       /\ x.frozen.status \in Statuses
       /\ x.frozen.input.revision \in Nat /\ x.frozen.input.version \in Nat \ {0}
       /\ x.frozen.input.content # None
       /\ x.frozen.status = "succeeded" => Support(KeyOf(x), x.frozen.input)

Runs ==
  /\ DOMAIN run = Processes
  /\ \A p \in Processes : RunTyped(run[p]) /\ RunSound(run[p])

\* Verification, without what damage and a later mapping row may take away.
Holding(k, f, status) ==
  /\ claims[k[1]] = f.content /\ f.content # None
  /\ source.body # "empty" /\ f.content.locator \in Locators
  /\ f.revision \in Nat /\ f.version \in Nat \ {0} /\ TimeHolds(f)
  /\ QualificationHolds(k, f, status)
  /\ f.mapping.status \in {"candidate", "confirmed"} =>
       /\ mappings[k] # <<>>
       /\ status = "succeeded" => f.mapping.status = "confirmed"
       /\ f.mapping.review # None => f.mapping.review \in reviews
  /\ ProofsHold(f) /\ NaHolds(f)

Published ==
  \A k \in Keys : results[k] # None =>
    /\ results[k].status \in Statuses \cup {"execution_failed"}
    /\ results[k].status # "execution_failed" =>
         Holding(k, results[k].frozen, results[k].status)
    /\ results[k].status = "succeeded" => Support(k, results[k].frozen)

IInv == TablesTyped /\ Runs /\ Published

LEMMA InitInv == Init => IInv
<1> SUFFICES ASSUME Init PROVE IInv
  OBVIOUS
<1>1. TablesTyped
  <2>1. \A k \in Keys : mappings[k] = <<>>
    BY DEF Init
  <2>2. <<>> \in Seq({}) /\ Len(<<>>) = 0
    OBVIOUS
  <2>3. ASSUME NEW k \in Keys
        PROVE  (\E S : mappings[k] \in Seq(S)) /\ Len(mappings[k]) <= MaxMappings
    <3>1. mappings[k] \in Seq({}) /\ Len(mappings[k]) = 0
      BY <2>1, <2>2
    <3> QED BY <3>1, CriterionRunAssumption
  <2> QED BY <2>3, CriterionRunAssumption DEF Init, TablesTyped
<1>2. RunTyped(Idle) /\ RunSound(Idle)
  BY DEF Init, RunTyped, RunSound, Idle, IsRun, Stages
<1>3. Runs
  BY <1>2 DEF Init, Runs
<1>4. Published
  BY DEF Init, Published
<1> QED BY <1>1, <1>3, <1>4 DEF IInv

----------------------------------------------------------------------------
\* Every table is append-only.

\* What is on record stays on record, as it is.
Later ==
  /\ source' = source
  /\ Extends(imports', imports)
  /\ Len(times) <= Len(times') /\ \A i \in 1..Len(times) : times'[i] = times[i]
  /\ Len(basisVersions) <= Len(basisVersions')
  /\ \A i \in 1..Len(basisVersions) : basisVersions'[i] = basisVersions[i]
  /\ reviews \subseteq reviews'
  /\ \A c \in Claims : claims[c] # None => claims'[c] = claims[c]
  /\ \A c \in Claims : quals[c] # None => quals'[c] = quals[c]
  /\ \A k \in Keys : mappings[k] # <<>> => mappings'[k] # <<>>
  /\ TablesTyped'

LEMMA StepLater ==
  ASSUME IInv, [Next]_vars
  PROVE  Later
<1> USE DEF IInv
<1>0. /\ Extends(imports, imports)
      /\ Len(times) \in Nat /\ Len(basisVersions) \in Nat
      /\ {MaxTimes, MaxBodies, MaxVersions, MaxMappings} \subseteq Nat
  BY CriterionRunAssumption DEF TablesTyped, Extends
<1>1. ASSUME NEW e \in Evidence, AppendTime(e) PROVE Later
  BY <1>0, <1>1 DEF AppendTime, Outside, store, TablesTyped, Later
<1>2. CASE ImportBody
  BY <1>0, <1>2 DEF ImportBody, Outside, store, TablesTyped, Later
<1>3. ASSUME NEW f \in Files, ImportProvenance(f) PROVE Later
  <2>1. imports' = Append(imports, f) /\ \A i \in DOMAIN imports : imports[i] # f
    BY <1>3 DEF ImportProvenance
  <2>2. imports' \in Seq(Files) /\ IsInjective(imports') /\ Extends(imports', imports)
    BY <2>1 DEF TablesTyped, IsInjective, Extends
  <2> QED BY <1>0, <1>3, <2>2 DEF ImportProvenance, Outside, store, TablesTyped, Later
<1>4. ASSUME NEW w \in ReviewForms, RegisterReview(w) PROVE Later
  BY <1>0, <1>4 DEF RegisterReview, Outside, store, TablesTyped, Later
<1>5. CASE Damage
  <2>1. readable' \in BOOLEAN
    BY <1>5 DEF Damage
  <2>2. UNCHANGED <<source, imports, times, bodies, reviews, basisVersions, store>>
    BY <1>5 DEF Damage, Outside
  <2> QED BY <1>0, <2>1, <2>2 DEF store, TablesTyped, Later
<1>6. ASSUME NEW r \in Requests, ReviseBasis(r.basis) PROVE Later
  BY <1>0, <1>6 DEF ReviseBasis, Outside, store, surroundings, TablesTyped, Later
<1>7. ASSUME NEW p \in Processes, SetBasis(p) PROVE Later
  <2>1. run[p].request \in Requests
    BY <1>7 DEF SetBasis, Stage, Runs, RunTyped
  <2> QED BY <1>0, <1>7, <2>1 DEF SetBasis, Request, Step, store, surroundings, TablesTyped, Later
<1>8. ASSUME NEW p \in Processes, ClaimRow(p) PROVE Later
  <2>1. /\ claims' = [claims EXCEPT ![run[p].request.claim] = run[p].request.content]
        /\ claims[run[p].request.claim] \in {None, run[p].request.content}
        /\ UNCHANGED <<source, surroundings, basisVersions, mappings, quals, gaps, results>>
    BY <1>8 DEF ClaimRow, Request, Step
  <2> QED BY <1>0, <2>1 DEF surroundings, TablesTyped, Later
<1>9. ASSUME NEW p \in Processes, AddMapping(p) PROVE Later
  <2> DEFINE key == <<run[p].request.claim, run[p].request.criterion>>
             m == Mapping(run[p].version, run[p].request)
  <2>1. /\ mappings' = [mappings EXCEPT ![key] = Append(mappings[key], m)]
        /\ Len(mappings[key]) < MaxMappings
        /\ UNCHANGED <<source, surroundings, basisVersions, claims, quals, gaps, results>>
    BY <1>9 DEF AddMapping, Request, Local, Step
  <2> HIDE DEF key, m
  <2>2. ASSUME NEW k \in Keys
        PROVE  /\ \E S : mappings'[k] \in Seq(S)
               /\ Len(mappings'[k]) <= MaxMappings
               /\ mappings[k] # <<>> => mappings'[k] # <<>>
    <3>1. PICK S : mappings[k] \in Seq(S)
      BY DEF TablesTyped
    <3>2. CASE k # key
      BY <2>1, <3>2 DEF TablesTyped
    <3>3. CASE k = key
      <4>1. mappings'[k] = Append(mappings[k], m)
        BY <2>1, <3>3 DEF TablesTyped
      <4>2. Append(mappings[k], m) \in Seq(S \cup {m})
        BY <3>1
      <4>3. Len(mappings'[k]) = Len(mappings[k]) + 1 /\ Len(mappings[k]) \in Nat
        BY <3>1, <4>1
      <4>4. mappings'[k] # <<>> /\ Len(mappings'[k]) <= MaxMappings
        BY <1>0, <2>1, <3>3, <4>3
      <4> QED BY <4>1, <4>2, <4>4
    <3> QED BY <3>2, <3>3
  <2>3. DOMAIN mappings' = Keys
    BY <2>1 DEF TablesTyped
  <2>4. \A k \in Keys : (\E S : mappings'[k] \in Seq(S)) /\ Len(mappings'[k]) <= MaxMappings
    BY <2>2
  <2>5. TablesTyped'
    BY <2>1, <2>3, <2>4 DEF surroundings, TablesTyped
  <2> QED BY <1>0, <2>1, <2>2, <2>5 DEF surroundings, Later
<1>10. ASSUME NEW p \in Processes, StoreQualification(p) PROVE Later
  <2>1. run[p].request.claim \in Claims
    BY <1>10 DEF StoreQualification, Stage, Runs, RunTyped, Claims
  <2>2. /\ gaps' \subseteq gaps \cup {run[p].request.claim}
        /\ DOMAIN quals' = Claims
        /\ \A c \in Claims : quals[c] # None => quals'[c] = quals[c]
        /\ UNCHANGED <<source, surroundings, basisVersions, claims, mappings, results>>
    BY <1>10 DEF StoreQualification, Request, Local, Step, TablesTyped
  <2> QED BY <1>0, <2>1, <2>2 DEF surroundings, TablesTyped, Later
<1>11. ASSUME NEW p \in Processes, Publish(p) PROVE Later
  <2>1. /\ DOMAIN results' = Keys
        /\ UNCHANGED <<source, surroundings, basisVersions, claims, mappings, quals, gaps>>
    BY <1>11 DEF Publish, Step, TablesTyped
  <2> QED BY <1>0, <2>1 DEF surroundings, TablesTyped, Later
<1>12. ASSUME UNCHANGED <<source, surroundings, basisVersions, store>> PROVE Later
  BY <1>0, <1>12 DEF surroundings, store, TablesTyped, Later
<1>13. ASSUME NEW p \in Processes,
              \/ \E r \in Requests : Start(p, r)
              \/ ProveBasis(p) \/ ReadSource(p) \/ Qualify(p) \/ Evaluate(p) \/ Fail(p)
       PROVE  Later
  <2>1. UNCHANGED <<source, surroundings, basisVersions, store>>
    BY <1>13 DEF Start, ProveBasis, ReadSource, Qualify, Evaluate, Fail, Step
  <2> QED BY <1>12, <2>1
<1>14. CASE UNCHANGED vars
  BY <1>12, <1>14 DEF vars
<1> QED BY <1>1, <1>2, <1>3, <1>4, <1>5, <1>6, <1>7, <1>8, <1>9, <1>10, <1>11, <1>13, <1>14
        DEF Next

----------------------------------------------------------------------------
\* What holds of a run or of a result goes on holding.

LEMMA SupportStays ==
  ASSUME Later, NEW k, NEW f, Support(k, f)
  PROVE  Support(k, f)'
<1>1. CASE f.na # None /\ NaLegal(imports, k[2], f.na, f.basis.subject)
  <2>1. Extends(imports', imports)
    BY DEF Later
  <2>2. NaLegal(imports', k[2], f.na, f.basis.subject)
    BY <1>1, <2>1, NaStable
  <2> QED BY <1>1, <2>2 DEF Support
<1>2. CASE Confirmed(k, f.mapping, f.version)
  BY <1>2 DEF Support, Confirmed, Later
<1> QED BY <1>1, <1>2 DEF Support

LEMMA RunStays ==
  ASSUME TablesTyped, Later, NEW x, RunTyped(x), RunSound(x)
  PROVE  RunTyped(x)' /\ RunSound(x)'
<1>1. /\ Len(times) \in Nat /\ Len(times') \in Nat /\ Len(times) <= Len(times')
      /\ Len(basisVersions) \in Nat /\ Len(basisVersions') \in Nat
      /\ Len(basisVersions) <= Len(basisVersions') /\ reviews \subseteq reviews'
  BY DEF TablesTyped, Later
<1>2. RunTyped(x)'
  BY <1>1 DEF RunTyped, IsRun
<1>3. \A k, m, v : Confirmed(k, m, v) => Confirmed(k, m, v)'
  BY <1>1 DEF Confirmed
<1>4. ASSUME x.at = "publish" PROVE RunSound(x)'
  <2>1. ASSUME Support(KeyOf(x), x.frozen.input) PROVE Support(KeyOf(x), x.frozen.input)'
    <3> DEFINE k == KeyOf(x)  f == x.frozen.input
    <3>1. Support(k, f)
      BY <2>1
    <3> HIDE DEF k, f
    <3>2. Support(k, f)'
      BY <3>1, SupportStays
    <3> QED BY <3>2 DEF k, f
  <2> QED BY <1>4, <2>1 DEF RunSound, KeyOf
<1>5. ASSUME x.at # "publish" PROVE RunSound(x)'
  BY <1>3, <1>5 DEF RunSound, KeyOf
<1> QED BY <1>2, <1>4, <1>5

LEMMA ProofsStay ==
  ASSUME TablesTyped, Later, NEW f, ProofsHold(f), TimeHolds(f),
         f.revision \in Nat, f.version \in Nat \ {0}
  PROVE  ProofsHold(f)'
<1> DEFINE early == BasisProof(imports, f.basis)
           late  == BasisProof(imports', f.basis)
<1>1. Extends(imports', imports)
  BY DEF Later
<1>2. /\ f.version <= Len(basisVersions) /\ basisVersions[f.version] = f.basis
      /\ ResolvesTo(imports, f.basis.subjectRef, f.basis.subject)
      /\ early.subject = f.proofs.basis.subject
      /\ f.proofs.basis.aliases # None => early.aliases = f.proofs.basis.aliases
      /\ f.proofs.document # None =>
           DocumentProofFor(imports, source, early.names) = f.proofs.document
      /\ f.proofs.zone # None =>
           f.revision # 0 /\ TimezoneRule(imports, source, times[f.revision]) = f.proofs.zone
  BY DEF ProofsHold
<1>3. /\ ResolvesTo(imports', f.basis.subjectRef, f.basis.subject)
      /\ late.subject = early.subject
      /\ early.aliases # None => late.aliases = early.aliases
      /\ early.names \subseteq late.names
  BY <1>1, <1>2, BasisStable
<1>4. f.proofs.basis.aliases # None => late.aliases = f.proofs.basis.aliases
  BY <1>2, <1>3
<1>5. ASSUME f.proofs.document # None
      PROVE  DocumentProofFor(imports', source', late.names) = f.proofs.document
  <2>1. source' = source
    BY DEF Later
  <2> HIDE DEF early, late
  <2> QED BY <1>1, <1>2, <1>3, <1>5, <2>1, DocumentStable
<1>6. ASSUME f.proofs.zone # None
      PROVE  f.revision # 0 /\ TimezoneRule(imports', source', times'[f.revision]) = f.proofs.zone
  <2>1. f.revision \in 1..Len(times) /\ source' = source
    BY <1>2, <1>6 DEF TimeHolds, Later
  <2>2. times'[f.revision] = times[f.revision]
    BY <2>1 DEF Later
  <2> QED BY <1>1, <1>2, <1>6, <2>1, <2>2, ZoneStable
<1>7. f.version <= Len(basisVersions') /\ basisVersions'[f.version] = f.basis
  <2>1. f.version \in 1..Len(basisVersions)
    BY <1>2 DEF TablesTyped
  <2> QED BY <1>2, <2>1 DEF TablesTyped, Later
<1> HIDE DEF early
<1> QED BY <1>2, <1>3, <1>4, <1>5, <1>6, <1>7 DEF ProofsHold

LEMMA NaStays ==
  ASSUME Later, NEW f, NaHolds(f)
  PROVE  NaHolds(f)'
<1>1. Extends(imports', imports)
  BY DEF Later
<1>2. ASSUME f.na # None, NEW k \in NaRefs, f.naBindings[k] # None
      PROVE  Resolve(imports', f.na[k]) = f.naBindings[k]
  <2>1. Resolve(imports, f.na[k]) = f.naBindings[k]
    BY <1>2 DEF NaHolds
  <2> QED BY <1>1, <1>2, <2>1, ResolveStable
<1> QED BY <1>2 DEF NaHolds

LEMMA HoldingStays ==
  ASSUME TablesTyped, Later, NEW k \in Keys, NEW f, NEW status, Holding(k, f, status)
  PROVE  Holding(k, f, status)'
<1>1. k[1] \in Claims
  BY DEF Keys, Claims
<1>2. claims'[k[1]] = f.content
  BY <1>1 DEF Holding, Later
<1>3. TimeHolds(f)'
  <2>1. /\ Len(times) \in Nat /\ Len(times') \in Nat /\ Len(times) <= Len(times')
        /\ source' = source
    BY DEF TablesTyped, Later
  <2> QED BY <2>1 DEF Holding, TimeHolds
<1>4. QualificationHolds(k, f, status)'
  BY <1>1 DEF Holding, QualificationHolds, Later
<1>5. ProofsHold(f)' /\ NaHolds(f)'
  BY ProofsStay, NaStays DEF Holding
<1>6. source' = source /\ reviews \subseteq reviews' /\ (mappings[k] # <<>> => mappings'[k] # <<>>)
  BY DEF Later
<1> QED BY <1>2, <1>3, <1>4, <1>5, <1>6 DEF Holding

----------------------------------------------------------------------------
\* The steps of a run.

LEMMA RunsUpdate ==
  ASSUME TablesTyped, Runs, Later, NEW p \in Processes, NEW x, run' = [run EXCEPT ![p] = x],
         RunTyped(x)', RunSound(x)'
  PROVE  Runs'
<1>1. \A q \in Processes : run'[q] = IF q = p THEN x ELSE run[q]
  BY DEF Runs
<1>2. DOMAIN run' = Processes
  BY DEF Runs
<1>3. ASSUME NEW q \in Processes
      PROVE  (RunTyped(run[q]) /\ RunSound(run[q]))'
  <2>1. PICK y : y = run'[q]
    OBVIOUS
  <2>2. CASE q = p
    BY <1>1, <2>1, <2>2
  <2>3. CASE q # p
    <3>1. RunTyped(y) /\ RunSound(y)
      BY <1>1, <2>1, <2>3 DEF Runs
    <3>2. RunTyped(y)' /\ RunSound(y)'
      BY <3>1, RunStays
    <3> QED BY <2>1, <3>2
  <2> QED BY <2>2, <2>3
<1> QED BY <1>2, <1>3 DEF Runs

LEMMA IdleRun ==
  ASSUME TablesTyped
  PROVE  RunTyped(Idle) /\ RunSound(Idle)
BY DEF TablesTyped, RunTyped, RunSound, Idle, IsRun, Stages

\* A confirmed mapping was confirmed by the review it keeps.
LEMMA MappingConfirmed ==
  ASSUME NEW version, NEW r, NEW m, m = Mapping(version, r), m.status = "confirmed"
  PROVE  Confirmed(<<r.claim, r.criterion>>, m, version)
<1> DEFINE found  == ControlledReviews(version, r)
           review == IF found = {} THEN None ELSE CHOOSE w \in found : TRUE
<1>1. /\ m.status = ConfirmMapping(IF r.quote = None THEN "unmapped" ELSE CandidateMapping(r.quote),
                                   review, r.content.negated)
      /\ m.quote = QuoteHash(r.quote)
      /\ m.review = review
  BY DEF Mapping
<1>2. review # None
  <2> HIDE DEF review
  <2> QED BY <1>1 DEF ConfirmMapping, CandidateMapping
<1>3. review \in found
  BY <1>2
<1> HIDE DEF review
<1> QED BY <1>1, <1>3 DEF ControlledReviews, Confirmed

LEMMA StartMoves ==
  ASSUME TablesTyped, NEW p \in Processes, NEW r \in Requests, Start(p, r)
  PROVE  \E x : run' = [run EXCEPT ![p] = x] /\ RunTyped(x)' /\ RunSound(x)'
<1> DEFINE stage == IF basisVersions = <<>> THEN "set_basis" ELSE "prove_basis"
<1>1. PICK x : x = [Idle EXCEPT !.at = stage, !.request = r, !.version = Len(basisVersions)]
  OBVIOUS
<1>2. run' = [run EXCEPT ![p] = x] /\ UNCHANGED <<times, basisVersions>>
  BY <1>1 DEF Start, Step, surroundings
<1>3. stage = "prove_basis" => Len(basisVersions) \in 1..Len(basisVersions)
  BY DEF TablesTyped
<1>4. stage \in {"set_basis", "prove_basis"}
  OBVIOUS
<1> HIDE DEF stage
<1>5. IsRun(x) /\ x.at = stage /\ x.request = r /\ x.version = Len(basisVersions) /\ x.revision = 0
  BY <1>1 DEF Idle, IsRun
<1>6. Len(times) \in Nat
  BY DEF TablesTyped
<1>7. RunTyped(x)'
  BY <1>2, <1>3, <1>4, <1>5, <1>6 DEF RunTyped, IsRun, Stages
<1>8. RunSound(x)'
  BY <1>4, <1>5 DEF RunSound
<1> QED BY <1>2, <1>7, <1>8

LEMMA SetBasisMoves ==
  ASSUME TablesTyped, Runs, NEW p \in Processes, SetBasis(p)
  PROVE  \E x : run' = [run EXCEPT ![p] = x] /\ RunTyped(x)' /\ RunSound(x)'
<1>1. PICK x : x = [run[p] EXCEPT !.at = "prove_basis", !.version = Len(basisVersions) + 1]
  OBVIOUS
<1>2. /\ run' = [run EXCEPT ![p] = x] /\ times' = times
      /\ basisVersions' = Append(basisVersions, run[p].request.basis)
  BY <1>1 DEF SetBasis, Step, Local, Request, surroundings
<1>3. /\ IsRun(run[p]) /\ run[p].request \in Requests
      /\ run[p].revision \in 0..Len(times)
  BY DEF SetBasis, Stage, Runs, RunTyped
<1>4. /\ IsRun(x) /\ x.at = "prove_basis" /\ x.request = run[p].request
      /\ x.version = Len(basisVersions) + 1 /\ x.revision = run[p].revision
  BY <1>1, <1>3 DEF IsRun
<1>5. Len(basisVersions) + 1 \in 1..Len(basisVersions')
  BY <1>2, <1>3 DEF TablesTyped
<1>6. RunTyped(x)'
  BY <1>2, <1>3, <1>4, <1>5 DEF RunTyped, IsRun, Stages
<1>7. RunSound(x)'
  BY <1>4 DEF RunSound
<1> QED BY <1>2, <1>6, <1>7

\* A step that goes on with the same request, version and, but for the reading of
\* the source, revision.
LEMMA GoesOn ==
  ASSUME TablesTyped, Runs, NEW p \in Processes,
         run[p].at \in {"prove_basis", "read_source", "claim", "map", "qualify", "store"},
         UNCHANGED <<times, basisVersions>>,
         NEW x, IsRun(x), x.request = run[p].request, x.version = run[p].version,
         x.revision \in {run[p].revision, Len(times)},
         x.at \in {"read_source", "claim", "map", "qualify", "store", "evaluate"}
  PROVE  RunTyped(x)'
<1>1. /\ run[p].request \in Requests /\ run[p].revision \in 0..Len(times)
      /\ run[p].version \in 1..Len(basisVersions)
  BY DEF Runs, RunTyped
<1>2. Len(times) \in Nat
  BY DEF TablesTyped
<1> QED BY <1>1, <1>2 DEF RunTyped, IsRun, Stages

LEMMA ProveBasisMoves ==
  ASSUME TablesTyped, Runs, NEW p \in Processes, ProveBasis(p)
  PROVE  \E x : run' = [run EXCEPT ![p] = x] /\ RunTyped(x)' /\ RunSound(x)'
<1>1. PICK proofs : run' = [run EXCEPT ![p] = [run[p] EXCEPT !.at = "read_source", !.proofs = proofs]]
  BY DEF ProveBasis, Step, Local
<1>2. PICK x : x = [run[p] EXCEPT !.at = "read_source", !.proofs = proofs]
  OBVIOUS
<1>3. run[p].at = "prove_basis" /\ UNCHANGED <<times, basisVersions>> /\ IsRun(run[p])
  BY DEF ProveBasis, Stage, Step, surroundings, Runs, RunTyped
<1>4. /\ IsRun(x) /\ x.at = "read_source" /\ x.request = run[p].request
      /\ x.version = run[p].version /\ x.revision = run[p].revision
  BY <1>2, <1>3 DEF IsRun
<1>5. RunTyped(x)'
  BY <1>3, <1>4, GoesOn
<1>6. RunSound(x)'
  BY <1>4 DEF RunSound
<1> QED BY <1>1, <1>2, <1>5, <1>6

LEMMA ReadSourceMoves ==
  ASSUME TablesTyped, Runs, NEW p \in Processes, ReadSource(p)
  PROVE  \E x : run' = [run EXCEPT ![p] = x] /\ RunTyped(x)' /\ RunSound(x)'
<1>1. PICK proofs :
        run' = [run EXCEPT ![p] =
                 [run[p] EXCEPT !.at = "claim", !.revision = Len(times), !.proofs = proofs]]
  BY DEF ReadSource, Step, Local
<1>2. PICK x : x = [run[p] EXCEPT !.at = "claim", !.revision = Len(times), !.proofs = proofs]
  OBVIOUS
<1>3. run[p].at = "read_source" /\ UNCHANGED <<times, basisVersions>> /\ IsRun(run[p])
  BY DEF ReadSource, Stage, Step, surroundings, Runs, RunTyped
<1>4. /\ IsRun(x) /\ x.at = "claim" /\ x.request = run[p].request
      /\ x.version = run[p].version /\ x.revision = Len(times)
  BY <1>2, <1>3 DEF IsRun
<1>5. RunTyped(x)'
  BY <1>3, <1>4, GoesOn
<1>6. RunSound(x)'
  BY <1>4 DEF RunSound
<1> QED BY <1>1, <1>2, <1>5, <1>6

LEMMA ClaimRowMoves ==
  ASSUME TablesTyped, Runs, NEW p \in Processes, ClaimRow(p)
  PROVE  \E x : run' = [run EXCEPT ![p] = x] /\ RunTyped(x)' /\ RunSound(x)'
<1>1. PICK x : x = [run[p] EXCEPT !.at = "map"]
  OBVIOUS
<1>2. /\ run' = [run EXCEPT ![p] = x]
      /\ run[p].at = "claim" /\ UNCHANGED <<times, basisVersions>> /\ IsRun(run[p])
  BY <1>1 DEF ClaimRow, Stage, Step, Local, surroundings, Runs, RunTyped
<1>3. /\ IsRun(x) /\ x.at = "map" /\ x.request = run[p].request
      /\ x.version = run[p].version /\ x.revision = run[p].revision
  BY <1>1, <1>2 DEF IsRun
<1>4. RunTyped(x)'
  BY <1>2, <1>3, GoesOn
<1>5. RunSound(x)'
  BY <1>3 DEF RunSound
<1> QED BY <1>2, <1>4, <1>5

LEMMA AddMappingMoves ==
  ASSUME TablesTyped, Runs, NEW p \in Processes, AddMapping(p)
  PROVE  \E x : run' = [run EXCEPT ![p] = x] /\ RunTyped(x)' /\ RunSound(x)'
<1>1. PICK m : m = Mapping(run[p].version, run[p].request)
  OBVIOUS
<1>2. PICK x : x = [run[p] EXCEPT !.at = "qualify", !.mapping = m]
  OBVIOUS
<1>3. /\ run' = [run EXCEPT ![p] = x]
      /\ run[p].at = "map" /\ UNCHANGED <<times, basisVersions, reviews>> /\ IsRun(run[p])
  BY <1>1, <1>2 DEF AddMapping, Request, Stage, Step, Local, surroundings, Runs, RunTyped
<1>4. /\ IsRun(x) /\ x.at = "qualify" /\ x.request = run[p].request
      /\ x.version = run[p].version /\ x.revision = run[p].revision /\ x.mapping = m
  BY <1>2, <1>3 DEF IsRun
<1>5. RunTyped(x)'
  BY <1>3, <1>4, GoesOn
<1>6. PICK r : r = run[p].request
  OBVIOUS
<1>7. PICK version : version = run[p].version
  OBVIOUS
<1>8. m.status = "confirmed" => Confirmed(<<r.claim, r.criterion>>, m, version)
  BY <1>1, <1>6, <1>7, MappingConfirmed
<1>9. RunSound(x)'
  BY <1>3, <1>4, <1>6, <1>7, <1>8 DEF RunSound, KeyOf, Confirmed
<1> QED BY <1>3, <1>5, <1>9

LEMMA QualifyMoves ==
  ASSUME TablesTyped, Runs, NEW p \in Processes, Qualify(p)
  PROVE  \E x : run' = [run EXCEPT ![p] = x] /\ RunTyped(x)' /\ RunSound(x)'
<1>1. PICK outcome : run' = [run EXCEPT ![p] = [run[p] EXCEPT !.at = "store", !.outcome = outcome]]
  BY DEF Qualify, Step, Local
<1>2. PICK x : x = [run[p] EXCEPT !.at = "store", !.outcome = outcome]
  OBVIOUS
<1>3. /\ run[p].at = "qualify" /\ UNCHANGED <<times, basisVersions, reviews>>
      /\ IsRun(run[p]) /\ RunSound(run[p])
  BY DEF Qualify, Stage, Step, surroundings, Runs, RunTyped
<1>4. /\ IsRun(x) /\ x.at = "store" /\ x.request = run[p].request
      /\ x.version = run[p].version /\ x.revision = run[p].revision /\ x.mapping = run[p].mapping
  BY <1>2, <1>3 DEF IsRun
<1>5. RunTyped(x)'
  BY <1>3, <1>4, GoesOn
<1>6. RunSound(x)'
  BY <1>3, <1>4 DEF RunSound, KeyOf, Confirmed
<1> QED BY <1>1, <1>2, <1>5, <1>6

LEMMA StoreQualificationMoves ==
  ASSUME TablesTyped, Runs, NEW p \in Processes, StoreQualification(p)
  PROVE  \E x : run' = [run EXCEPT ![p] = x] /\ RunTyped(x)' /\ RunSound(x)'
<1>1. PICK x : x = [run[p] EXCEPT !.at = "evaluate"]
  OBVIOUS
<1>2. /\ run' = [run EXCEPT ![p] = x]
      /\ run[p].at = "store" /\ UNCHANGED <<times, basisVersions, reviews>>
      /\ IsRun(run[p]) /\ RunSound(run[p])
  BY <1>1 DEF StoreQualification, Stage, Step, Local, surroundings, Runs, RunTyped
<1>3. /\ IsRun(x) /\ x.at = "evaluate" /\ x.request = run[p].request
      /\ x.version = run[p].version /\ x.revision = run[p].revision /\ x.mapping = run[p].mapping
  BY <1>1, <1>2 DEF IsRun
<1>4. RunTyped(x)'
  BY <1>2, <1>3, GoesOn
<1>5. RunSound(x)'
  BY <1>2, <1>3 DEF RunSound, KeyOf, Confirmed
<1> QED BY <1>2, <1>4, <1>5

\* What a run has computed, before it publishes it.
LEMMA Computed ==
  ASSUME TablesTyped, Runs, NEW p \in Processes, run[p].at = "evaluate"
  PROVE  /\ Status(p) \in Statuses
         /\ Frozen(p).revision \in Nat /\ Frozen(p).version \in Nat \ {0}
         /\ Frozen(p).content # None
         /\ Status(p) = "succeeded" => Support(KeyOf(run[p]), Frozen(p))
<1> DEFINE r == run[p].request
           f == Frozen(p)
<1>1. /\ r \in Requests /\ run[p].revision \in 0..Len(times)
      /\ run[p].version \in 1..Len(basisVersions) /\ RunSound(run[p])
  BY DEF Runs, RunTyped
<1>2. /\ f.revision = run[p].revision /\ f.version = run[p].version
      /\ f.content = r.content /\ f.na = r.na /\ f.basis = Basis(p)
      /\ f.mapping = run[p].mapping
  BY DEF Frozen, Request, Local
<1>3. f.revision \in Nat /\ f.version \in Nat \ {0}
  BY <1>1, <1>2 DEF TablesTyped
<1>4. f.content # None
  BY <1>1, <1>2, CriterionRunAssumption
<1>5. Status(p) \in Statuses
  BY DEF Status, EvaluateCriterion, Statuses
<1>6. ASSUME Status(p) = "succeeded"
      PROVE  \/ r.na # None /\ NaLegal(imports, r.criterion, r.na, Basis(p).subject)
             \/ run[p].mapping.status = "confirmed"
  BY <1>6 DEF Status, EvaluateCriterion, Request, Local
<1>7. ASSUME Status(p) = "succeeded" PROVE Support(KeyOf(run[p]), f)
  <2> HIDE DEF f
  <2>1. KeyOf(run[p])[2] = r.criterion
    BY DEF KeyOf
  <2>2. CASE r.na # None /\ NaLegal(imports, r.criterion, r.na, Basis(p).subject)
    BY <1>2, <2>1, <2>2 DEF Support
  <2>3. CASE run[p].mapping.status = "confirmed"
    BY <1>1, <1>2, <2>3 DEF RunSound, Support
  <2> QED BY <1>6, <1>7, <2>2, <2>3
<1> QED BY <1>3, <1>4, <1>5, <1>7

LEMMA EvaluateMoves ==
  ASSUME TablesTyped, Runs, NEW p \in Processes, Evaluate(p)
  PROVE  \E x : run' = [run EXCEPT ![p] = x] /\ RunTyped(x)' /\ RunSound(x)'
<1>1. /\ run[p].at = "evaluate" /\ run[p].request \in Requests
      /\ UNCHANGED <<times, basisVersions, reviews, imports>>
  BY DEF Evaluate, Stage, Step, surroundings, Runs, RunTyped
<1>2. CASE run' = [run EXCEPT ![p] = Idle]
  <2>1. (RunTyped(Idle) /\ RunSound(Idle))'
    BY <1>1 DEF TablesTyped, RunTyped, RunSound, Idle, IsRun, Stages
  <2>2. PICK x : x = Idle
    OBVIOUS
  <2>3. RunTyped(x)' /\ RunSound(x)'
    BY <2>1, <2>2 DEF Idle
  <2> QED BY <1>2, <2>2, <2>3
<1>3. PICK f : f = Frozen(p)
  OBVIOUS
<1>4. PICK status : status = Status(p)
  OBVIOUS
<1>5. PICK r : r = run[p].request
  OBVIOUS
<1>6. CASE run' = [run EXCEPT ![p] = [Idle EXCEPT !.at = "publish", !.request = r,
                                        !.frozen = [input |-> f, status |-> status]]]
  <2>1. PICK frozen : frozen = [input |-> f, status |-> status]
    OBVIOUS
  <2>2. PICK x : x = [Idle EXCEPT !.at = "publish", !.request = r, !.frozen = frozen]
    OBVIOUS
  <2>3. /\ IsRun(x) /\ x.at = "publish" /\ x.request = r /\ x.revision = 0
        /\ x.frozen = frozen
    BY <2>2 DEF Idle, IsRun
  <2>4. frozen.input = f /\ frozen.status = status
    BY <2>1
  <2>5. Len(times) \in Nat
    BY DEF TablesTyped
  <2>6. RunTyped(x)'
    BY <1>1, <1>5, <2>3, <2>5 DEF RunTyped, IsRun, Stages
  <2>7. /\ status \in Statuses /\ f.revision \in Nat /\ f.version \in Nat \ {0}
        /\ f.content # None
        /\ status = "succeeded" => Support(KeyOf(run[p]), f)
    BY <1>1, <1>3, <1>4, Computed
  <2>8. KeyOf(x) = KeyOf(run[p])
    BY <1>5, <2>3 DEF KeyOf
  <2>9. PICK k : k = KeyOf(x)
    OBVIOUS
  <2>10. status = "succeeded" => Support(k, f)'
    BY <1>1, <2>7, <2>8, <2>9 DEF Support, Confirmed
  <2>11. RunSound(x)'
    BY <2>3, <2>4, <2>7, <2>9, <2>10 DEF RunSound, KeyOf
  <2> QED BY <1>6, <2>1, <2>2, <2>6, <2>11
<1> QED BY <1>2, <1>3, <1>4, <1>5, <1>6 DEF Evaluate, Step, Request

LEMMA EndMoves ==
  ASSUME TablesTyped, NEW p \in Processes, Publish(p) \/ Fail(p)
  PROVE  \E x : run' = [run EXCEPT ![p] = x] /\ RunTyped(x)' /\ RunSound(x)'
<1>1. run' = [run EXCEPT ![p] = Idle] /\ UNCHANGED <<times, basisVersions>>
  BY DEF Publish, Fail, Step, surroundings
<1>2. (RunTyped(Idle) /\ RunSound(Idle))'
  BY <1>1 DEF TablesTyped, RunTyped, RunSound, Idle, IsRun, Stages
<1>3. PICK x : x = Idle
  OBVIOUS
<1>4. RunTyped(x)' /\ RunSound(x)'
  BY <1>2, <1>3 DEF Idle
<1> QED BY <1>1, <1>3, <1>4

\* A published result goes on being what it was verified to be.
LEMMA ResultStays ==
  ASSUME IInv, Later, NEW k \in Keys, results[k] # None, results'[k] = results[k]
  PROVE  (/\ results[k].status \in Statuses \cup {"execution_failed"}
          /\ results[k].status # "execution_failed" =>
               Holding(k, results[k].frozen, results[k].status)
          /\ results[k].status = "succeeded" => Support(k, results[k].frozen))'
<1>1. PICK f : f = results[k].frozen
  OBVIOUS
<1>2. PICK status : status = results[k].status
  OBVIOUS
<1>3. /\ status \in Statuses \cup {"execution_failed"}
      /\ status # "execution_failed" => Holding(k, f, status)
      /\ status = "succeeded" => Support(k, f)
  BY <1>1, <1>2 DEF IInv, Published
<1>4. /\ status # "execution_failed" => Holding(k, f, status)'
      /\ status = "succeeded" => Support(k, f)'
  BY <1>3, HoldingStays, SupportStays DEF IInv
<1> QED BY <1>1, <1>2, <1>3, <1>4

LEMMA RunsUnchanged ==
  ASSUME TablesTyped, Runs, Later, run' = run
  PROVE  Runs'
<1>1. ASSUME NEW q \in Processes PROVE (RunTyped(run[q]) /\ RunSound(run[q]))'
  <2>1. PICK y : y = run[q]
    OBVIOUS
  <2>2. RunTyped(y) /\ RunSound(y)
    BY <2>1 DEF Runs
  <2>3. RunTyped(y)' /\ RunSound(y)'
    BY <2>2, RunStays
  <2> QED BY <2>1, <2>3
<1> QED BY <1>1 DEF Runs

LEMMA ResultsUnchanged ==
  ASSUME [Next]_vars, \A p \in Processes : ~Publish(p)
  PROVE  results' = results
<1>1. CASE \/ \E e \in Evidence : AppendTime(e)
           \/ ImportBody
           \/ \E f \in Files : ImportProvenance(f)
           \/ \E w \in ReviewForms : RegisterReview(w)
           \/ Damage
           \/ \E r \in Requests : ReviseBasis(r.basis)
           \/ UNCHANGED vars
  BY <1>1 DEF AppendTime, ImportBody, ImportProvenance, RegisterReview, Damage, ReviseBasis,
              Outside, vars, store
<1>2. ASSUME NEW p \in Processes,
             \/ \E r \in Requests : Start(p, r)
             \/ SetBasis(p) \/ ProveBasis(p) \/ ReadSource(p) \/ ClaimRow(p) \/ AddMapping(p)
             \/ Qualify(p) \/ StoreQualification(p) \/ Evaluate(p) \/ Fail(p)
      PROVE  results' = results
  BY <1>2 DEF Start, SetBasis, ProveBasis, ReadSource, ClaimRow, AddMapping, Qualify,
              StoreQualification, Evaluate, Fail, store
<1> QED BY <1>1, <1>2, Zenon DEF Next

\* The publication inserts what verifies at this moment, or a failed candidate.
LEMMA PublishPublishes ==
  ASSUME IInv, Later, NEW p \in Processes, Publish(p)
  PROVE  Published'
<1> USE DEF IInv
<1>1. PICK f : f = run[p].frozen.input
  OBVIOUS
<1>2. PICK key : key = KeyOf(run[p])
  OBVIOUS
<1>3. PICK status : status = IF Verifies(key, f, run[p].frozen.status) THEN run[p].frozen.status
                             ELSE "execution_failed"
  OBVIOUS
<1>4. /\ results' = [results EXCEPT ![key] = [frozen |-> f, status |-> status]]
      /\ results[key] = None /\ run[p].at = "publish"
  BY <1>1, <1>2, <1>3 DEF Publish, Stage, Request, Local, KeyOf
<1>5. /\ key \in Keys /\ RunSound(run[p])
  BY <1>2, <1>4 DEF Runs, RunTyped, KeyOf, Keys
<1>6. /\ run[p].frozen.status \in Statuses
      /\ f.revision \in Nat /\ f.version \in Nat \ {0} /\ f.content # None
      /\ run[p].frozen.status = "succeeded" => Support(key, f)
  BY <1>1, <1>2, <1>4, <1>5 DEF RunSound
<1>7. /\ status \in Statuses \cup {"execution_failed"}
      /\ status = "succeeded" => Support(key, f)
  BY <1>3, <1>6 DEF Statuses
<1>8. ASSUME status # "execution_failed" PROVE Holding(key, f, status)
  <2>1. Verifies(key, f, status)
    BY <1>3, <1>8
  <2> QED BY <1>6, <2>1 DEF Verifies, Holding, OriginalHolds, MappingHolds
<1>9. /\ status # "execution_failed" => Holding(key, f, status)'
      /\ status = "succeeded" => Support(key, f)'
  BY <1>5, <1>7, <1>8, HoldingStays, SupportStays
<1>10. ASSUME NEW k \in Keys, results'[k] # None
       PROVE  (/\ results[k].status \in Statuses \cup {"execution_failed"}
               /\ results[k].status # "execution_failed" =>
                    Holding(k, results[k].frozen, results[k].status)
               /\ results[k].status = "succeeded" => Support(k, results[k].frozen))'
  <2>1. CASE k = key
    <3>1. results'[k].frozen = f /\ results'[k].status = status
      BY <1>4, <1>5, <2>1 DEF TablesTyped
    <3> QED BY <1>7, <1>9, <2>1, <3>1
  <2>2. CASE k # key
    <3>1. results'[k] = results[k]
      BY <1>4, <2>2 DEF TablesTyped
    <3> QED BY <1>10, <3>1, ResultStays
  <2> QED BY <2>1, <2>2
<1> QED BY <1>10 DEF Published

LEMMA OthersPublishNothing ==
  ASSUME IInv, Later, results' = results
  PROVE  Published'
BY ResultStays DEF Published, IInv

LEMMA StepInv ==
  ASSUME IInv, [Next]_vars
  PROVE  IInv'
<1>1. Later
  BY StepLater
<1>2. TablesTyped'
  BY <1>1 DEF Later
<1>3. Runs'
  <2>1. ASSUME NEW p \in Processes,
               \E x : run' = [run EXCEPT ![p] = x] /\ RunTyped(x)' /\ RunSound(x)'
        PROVE  Runs'
    BY <1>1, <2>1, RunsUpdate DEF IInv
  <2>2. ASSUME NEW p \in Processes,
               \/ \E r \in Requests : Start(p, r)
               \/ SetBasis(p) \/ ProveBasis(p) \/ ReadSource(p) \/ ClaimRow(p) \/ AddMapping(p)
               \/ Qualify(p) \/ StoreQualification(p) \/ Evaluate(p) \/ Publish(p) \/ Fail(p)
        PROVE  Runs'
    BY <2>1, <2>2, StartMoves, SetBasisMoves, ProveBasisMoves, ReadSourceMoves, ClaimRowMoves,
       AddMappingMoves, QualifyMoves, StoreQualificationMoves, EvaluateMoves, EndMoves DEF IInv
  <2>3. CASE run' = run
    BY <1>1, <2>3, RunsUnchanged DEF IInv
  <2>4. CASE \/ \E e \in Evidence : AppendTime(e)
             \/ ImportBody
             \/ \E f \in Files : ImportProvenance(f)
             \/ \E w \in ReviewForms : RegisterReview(w)
             \/ Damage
             \/ \E r \in Requests : ReviseBasis(r.basis)
             \/ UNCHANGED vars
    <3>1. run' = run
      BY <2>4 DEF AppendTime, ImportBody, ImportProvenance, RegisterReview, Damage, ReviseBasis,
                  Outside, vars
    <3> QED BY <2>3, <3>1
  <2> QED BY <2>2, <2>4 DEF Next
<1>4. Published'
  <2>1. ASSUME NEW p \in Processes, Publish(p) PROVE Published'
    BY <1>1, <2>1, PublishPublishes
  <2>2. CASE \A p \in Processes : ~Publish(p)
    <3>1. results' = results
      BY <2>2, ResultsUnchanged
    <3> QED BY <1>1, <3>1, OthersPublishNothing
  <2> QED BY <2>1, <2>2
<1> QED BY <1>2, <1>3, <1>4 DEF IInv

LEMMA Inductive == Spec => []IInv
BY InitInv, StepInv, PTL DEF Spec

----------------------------------------------------------------------------
\* Types hold whatever number of processes run criteria, and whatever they find.
THEOREM TypeCorrect == Spec => []TypeOK
<1>1. IInv => TypeOK
  <2> SUFFICES ASSUME IInv PROVE TypeOK
    OBVIOUS
  <2>1. \A k \in Keys : results[k] # None =>
          results[k].status \in {"succeeded", "insufficient", "method_unsupported", "execution_failed"}
    BY DEF IInv, Published, Statuses
  <2>2. \A p \in Processes :
          /\ run[p].at \in Stages /\ run[p].revision \in 0..Len(times)
          /\ run[p].at \notin {"idle", "set_basis", "publish"} =>
               run[p].version \in 1..Len(basisVersions)
    BY DEF IInv, Runs, RunTyped
  <2>3. TablesTyped
    BY DEF IInv
  <2> QED BY <2>1, <2>2, <2>3 DEF TablesTyped, TypeOK
<1> QED BY <1>1, Inductive, PTL

\* A published success stands on the stored, qualified row it froze and on a
\* registered review or a legal N/A, for any number of processes and however
\* runs, reviews, revisions and imports interleave.
THEOREM SuccessIsSupported == Spec => []SucceededIsSupported
<1>1. IInv => SucceededIsSupported
  <2> SUFFICES ASSUME IInv, NEW k \in Keys, Succeeded(k)
               PROVE  LET f == results[k].frozen
                          w == f.mapping.review
                      IN /\ f.qualification = quals[k[1]] /\ f.qualification.status = "qualified"
                         /\ \/ f.na # None /\ NaLegal(imports, k[2], f.na, f.basis.subject)
                            \/ /\ f.mapping.status = "confirmed" /\ w \in reviews
                               /\ w.decision = "confirmed" /\ w.version = f.version
                               /\ <<w.claim, w.criterion>> = k /\ w.quote = f.mapping.quote
    BY DEF SucceededIsSupported
  <2>1. results[k] # None /\ results[k].status = "succeeded"
    BY DEF Succeeded
  <2>2. QualificationHolds(k, results[k].frozen, "succeeded") /\ Support(k, results[k].frozen)
    BY <2>1 DEF IInv, Published, Holding
  <2> QED BY <2>2 DEF QualificationHolds, Support, Confirmed
<1> QED BY <1>1, Inductive, PTL

\* A published result goes on passing the verification it was published under:
\* nothing that is appended to the case breaks it but a mapping row with another
\* quote.
THEOREM PublishedVerifies == Spec => []PublishedKeepsVerifying
<1>1. IInv => PublishedKeepsVerifying
  <2> SUFFICES ASSUME IInv, NEW k \in Keys, results[k] # None,
                      results[k].status # "execution_failed", readable,
                      mappings[k][Len(mappings[k])].quote = results[k].frozen.mapping.quote
               PROVE  Verifies(k, results[k].frozen, results[k].status)
    BY DEF PublishedKeepsVerifying
  <2>1. Holding(k, results[k].frozen, results[k].status)
    BY DEF IInv, Published
  <2> QED BY <2>1 DEF Holding, Verifies, OriginalHolds, MappingHolds
<1> QED BY <1>1, Inductive, PTL

----------------------------------------------------------------------------
\* A success can be computed again from what it froze.

\* The judgment of a claim by a frozen basis and revision, with what is
\* imported by now.
Again(content, basis, revision) ==
  QualifyClaim(imports, TRUE, source, EvidenceAt(revision), content, Names(basis), 1)

Repeats(k, f) ==
  /\ f.revision \in 0..Len(times)
  /\ EvaluateCriterion(imports, k[2], f.na, f.basis.subject,
                       Again(f.content, f.basis, f.revision), f.content, f.mapping.status)
       = "succeeded"

\* A qualified outcome a run carries, and a success it is about to publish.
RunRepeats(x) ==
  /\ x.at \in {"store", "evaluate"} /\ x.outcome.status = "qualified" =>
       x.outcome = Again(x.request.content, basisVersions[x.version], x.revision)
  /\ x.at = "publish" /\ x.frozen.status = "succeeded" =>
       Repeats(KeyOf(x), x.frozen.input)

RepeatInv ==
  /\ IInv
  /\ \A p \in Processes : RunRepeats(run[p])
  /\ \A k \in Keys : Succeeded(k) => Repeats(k, results[k].frozen)

\* Located texts are sequences, of the source and of every evidence.
LEMMA EvidenceIndexed ==
  ASSUME TablesTyped, NEW revision \in 0..Len(times)
  PROVE  Indexed(source, EvidenceAt(revision))
<1> DEFINE e == EvidenceAt(revision)
<1>1. source \in Sources /\ times \in Seq(Evidence)
  BY DEF TablesTyped
<1>2. CASE revision > 0
  <2>1. times[revision] \in Evidence
    BY <1>1, <1>2
  <2>2. e = times[revision]
    BY <1>2 DEF EvidenceAt
  <2>3. e.kind = "document_self_date" => DOMAIN e.located \subseteq Nat
    BY <2>1, <2>2, CriterionRunAssumption
  <2> QED BY <1>1, <2>3, CriterionRunAssumption DEF Indexed
<1>3. CASE ~(revision > 0)
  <2>1. CASE source.column # None
    <3>1. e \in Evidence \cup ({s.column : s \in Sources} \ {None})
      BY <1>1, <1>3, <2>1 DEF EvidenceAt
    <3> QED BY <1>1, <3>1, CriterionRunAssumption DEF Indexed
  <2>2. CASE source.column = None
    BY <1>1, <1>3, <2>2, CriterionRunAssumption DEF Indexed, EvidenceAt, NoEvidence
  <2> QED BY <2>1, <2>2
<1> QED BY <1>2, <1>3

LEMMA AgainStays ==
  ASSUME TablesTyped, Later, NEW content, NEW basis, NEW revision \in 0..Len(times),
         Again(content, basis, revision).status = "qualified"
  PROVE  Again(content, basis, revision)' = Again(content, basis, revision)
<1> DEFINE e == EvidenceAt(revision)
           names == Names(basis)
           more == {basis.subject} \cup VerifiedAliases(imports', basis)
<1>1. EvidenceAt(revision)' = e
  <2>1. Len(times) \in Nat
    BY DEF TablesTyped
  <2>2. source' = source /\ \A i \in 1..Len(times) : times'[i] = times[i]
    BY DEF Later
  <2>3. revision > 0 => times'[revision] = times[revision]
    BY <2>1, <2>2
  <2> QED BY <2>2, <2>3 DEF EvidenceAt
<1>2. Extends(imports', imports)
  BY DEF Later
<1>3. names \subseteq more
  BY <1>2, NamesGrow DEF Names
<1>4. Indexed(source, e)
  BY EvidenceIndexed
<1>0. PICK yes : yes = TRUE
  OBVIOUS
<1>5. QualifyClaim(imports, yes, source, e, content, names, 1).status = "qualified"
  BY <1>0 DEF Again
<1> HIDE DEF e, names, more
<1>6. QualifyClaim(imports', yes, source, e, content, more, 1)
        = QualifyClaim(imports, yes, source, e, content, names, 1)
  <2>1. IndependenceJudgment(1) = "ok" /\ ~IsGap(yes, source, content)
    BY <1>0, <1>5, QualifiedIsNoGap
  <2> QED BY <1>2, <1>3, <1>4, <1>5, <2>1, QualifiedStays
<1>7. Again(content, basis, revision)'
        = QualifyClaim(imports', yes, source, e, content, more, 1)
  BY <1>0, <1>1 DEF Again, Names, Later, more
<1> QED BY <1>0, <1>6, <1>7 DEF Again, e, names

\* A success is a legal N/A or rests on a qualified outcome.
LEMMA WhySucceeded ==
  ASSUME NEW imp, NEW criterion, NEW na, NEW subject, NEW outcome, NEW content, NEW mapping,
         EvaluateCriterion(imp, criterion, na, subject, outcome, content, mapping) = "succeeded"
  PROVE  \/ na # None /\ NaLegal(imp, criterion, na, subject)
         \/ outcome.status = "qualified"
BY DEF EvaluateCriterion

\* A legal N/A succeeds whatever the claim is worth, and a success by evidence
\* stays one when the N/A becomes legal.
LEMMA SuccessStays ==
  ASSUME NEW early, NEW late, Extends(late, early), NEW criterion, NEW na, NEW subject,
         NEW outcome, NEW again, NEW content, NEW mapping,
         EvaluateCriterion(early, criterion, na, subject, outcome, content, mapping)
           = "succeeded",
         outcome.status = "qualified" => again = outcome
  PROVE  EvaluateCriterion(late, criterion, na, subject, again, content, mapping) = "succeeded"
<1>1. CASE na # None /\ NaLegal(early, criterion, na, subject)
  <2>1. NaLegal(late, criterion, na, subject)
    BY <1>1, NaStable
  <2> QED BY <1>1, <2>1 DEF EvaluateCriterion
<1>2. CASE ~(na # None /\ NaLegal(early, criterion, na, subject))
  <2>1. outcome.status = "qualified"
    BY <1>2, WhySucceeded
  <2> QED BY <1>2, <2>1 DEF EvaluateCriterion
<1> QED BY <1>1, <1>2

LEMMA RepeatsStays ==
  ASSUME TablesTyped, Later, NEW k, NEW f, Repeats(k, f)
  PROVE  Repeats(k, f)'
<1>1. f.revision \in 0..Len(times) /\ Extends(imports', imports)
  BY DEF Repeats, Later
<1>2. f.revision \in 0..Len(times')
  BY <1>1 DEF TablesTyped, Later
<1>3. PICK now : now = Again(f.content, f.basis, f.revision)
  OBVIOUS
<1>4. PICK then : then = Again(f.content, f.basis, f.revision)'
  OBVIOUS
<1>5. now.status = "qualified" => then = now
  BY <1>1, <1>3, <1>4, AgainStays
<1>6. EvaluateCriterion(imports, k[2], f.na, f.basis.subject, now, f.content, f.mapping.status)
        = "succeeded"
  BY <1>3 DEF Repeats
<1>7. EvaluateCriterion(imports', k[2], f.na, f.basis.subject, then, f.content, f.mapping.status)
        = "succeeded"
  BY <1>1, <1>5, <1>6, SuccessStays
<1> QED BY <1>2, <1>4, <1>7 DEF Repeats

LEMMA RunRepeatsStays ==
  ASSUME TablesTyped, Later, NEW x, RunTyped(x), RunRepeats(x)
  PROVE  RunRepeats(x)'
<1>1. ASSUME x.at \in {"store", "evaluate"}, x.outcome.status = "qualified"
      PROVE  (x.outcome = Again(x.request.content, basisVersions[x.version], x.revision))'
  <2>1. x.version \in 1..Len(basisVersions) /\ x.revision \in 0..Len(times)
    BY <1>1 DEF RunTyped
  <2>2. PICK b : b = basisVersions[x.version]
    OBVIOUS
  <2>3. basisVersions'[x.version] = b
    BY <2>1, <2>2 DEF Later
  <2>4. x.outcome = Again(x.request.content, b, x.revision)
    BY <1>1, <2>2 DEF RunRepeats
  <2>5. Again(x.request.content, b, x.revision)' = x.outcome
    BY <1>1, <2>1, <2>4, AgainStays
  <2> QED BY <2>3, <2>5 DEF Again
<1>2. ASSUME x.at = "publish", x.frozen.status = "succeeded"
      PROVE  Repeats(KeyOf(x), x.frozen.input)'
  <2>1. PICK k : k = KeyOf(x)
    OBVIOUS
  <2>2. Repeats(k, x.frozen.input)
    BY <1>2, <2>1 DEF RunRepeats
  <2>3. Repeats(k, x.frozen.input)'
    BY <2>2, RepeatsStays
  <2> QED BY <2>1, <2>3 DEF KeyOf
<1> QED BY <1>1, <1>2 DEF RunRepeats

\* Only three steps bring a run to where it carries a judgment.
LEMMA Elsewhere ==
  ASSUME IInv, [Next]_vars, NEW q \in Processes
  PROVE  \/ run'[q] = run[q]
         \/ run'[q].at \notin {"store", "evaluate", "publish"}
         \/ Qualify(q) \/ StoreQualification(q) \/ Evaluate(q)
<1>1. DOMAIN run = Processes /\ IsRun(run[q])
  BY DEF IInv, Runs, RunTyped
<1>2. CASE run' = run
  BY <1>2
<1>3. ASSUME NEW p \in Processes, p # q, \E x : Step(p, x) PROVE run'[q] = run[q]
  BY <1>1, <1>3 DEF Step
<1>4. ASSUME NEW r \in Requests, Start(q, r)
      PROVE  run'[q].at \notin {"store", "evaluate", "publish"}
  BY <1>1, <1>4 DEF Start, Step, Idle
<1>5. ASSUME \/ SetBasis(q) \/ ProveBasis(q) \/ ReadSource(q) \/ ClaimRow(q) \/ AddMapping(q)
             \/ Publish(q) \/ Fail(q)
      PROVE  run'[q].at \notin {"store", "evaluate", "publish"}
  <2>1. \A x : Step(q, x) => run'[q] = x
    BY <1>1 DEF Step
  <2>2. CASE \/ SetBasis(q) \/ ProveBasis(q)
    BY <1>1, <2>1, <2>2 DEF SetBasis, ProveBasis, Local, IsRun
  <2>3. CASE ReadSource(q)
    BY <1>1, <2>1, <2>3 DEF ReadSource, Local, IsRun
  <2>4. CASE ClaimRow(q)
    BY <1>1, <2>1, <2>4 DEF ClaimRow, Local, IsRun
  <2>5. CASE AddMapping(q)
    BY <1>1, <2>1, <2>5 DEF AddMapping, Local, IsRun
  <2>6. CASE Publish(q) \/ Fail(q)
    <3>1. run'[q] = Idle
      BY <1>1, <2>6 DEF Publish, Fail, Step
    <3> QED BY <3>1 DEF Idle
  <2> QED BY <1>5, <2>2, <2>3, <2>4, <2>5, <2>6
<1>6. ASSUME NEW p \in Processes,
             \/ \E r \in Requests : Start(p, r)
             \/ SetBasis(p) \/ ProveBasis(p) \/ ReadSource(p) \/ ClaimRow(p) \/ AddMapping(p)
             \/ Qualify(p) \/ StoreQualification(p) \/ Evaluate(p) \/ Publish(p) \/ Fail(p)
      PROVE  \/ run'[q] = run[q]
             \/ run'[q].at \notin {"store", "evaluate", "publish"}
             \/ Qualify(q) \/ StoreQualification(q) \/ Evaluate(q)
  <2>1. CASE p = q
    BY <1>4, <1>5, <1>6, <2>1, Zenon
  <2>2. CASE p # q
    <3>1. run'[q] = run[q]
      BY <1>1, <1>6, <2>2 DEF Start, SetBasis, ProveBasis, ReadSource, ClaimRow, AddMapping, Qualify,
           StoreQualification, Evaluate, Publish, Fail, Step
    <3> QED BY <3>1
  <2> QED BY <2>1, <2>2
<1>7. CASE \/ \E e \in Evidence : AppendTime(e)
           \/ ImportBody
           \/ \E f \in Files : ImportProvenance(f)
           \/ \E w \in ReviewForms : RegisterReview(w)
           \/ Damage
           \/ \E r \in Requests : ReviseBasis(r.basis)
           \/ UNCHANGED vars
  BY <1>2, <1>7 DEF AppendTime, ImportBody, ImportProvenance, RegisterReview, Damage, ReviseBasis,
              Outside, vars
<1> QED BY <1>6, <1>7, Zenon DEF Next

\* A qualified outcome is the one any later judgment of the frozen evidence gives.
LEMMA QualifyRepeats ==
  ASSUME IInv, NEW q \in Processes, Qualify(q), NEW y, y = run'[q]
  PROVE  RunRepeats(y)'
<1>1. /\ TablesTyped /\ DOMAIN run = Processes /\ IsRun(run[q]) /\ run[q].at = "qualify"
      /\ run[q].revision \in 0..Len(times)
  BY DEF IInv, Runs, RunTyped, Qualify, Stage
<1>2. PICK outcome : outcome = QualifyClaim(imports, readable, source, EvidenceAt(run[q].revision),
                                 run[q].request.content, Names(Basis(q)), bodies)
  OBVIOUS
<1>3. /\ y = [run[q] EXCEPT !.at = "store", !.outcome = outcome]
      /\ UNCHANGED <<source, times, imports, basisVersions>>
  BY <1>1, <1>2 DEF Qualify, Step, Local, Request, surroundings
<1>4. /\ y.at = "store" /\ y.outcome = outcome /\ y.request = run[q].request
      /\ y.version = run[q].version /\ y.revision = run[q].revision
  BY <1>1, <1>3 DEF IsRun
<1>5. ASSUME outcome.status = "qualified"
      PROVE  outcome = Again(run[q].request.content, Basis(q), run[q].revision)
  <2> DEFINE e == EvidenceAt(run[q].revision)
             names == Names(Basis(q))
             content == run[q].request.content
  <2>1. PICK yes : yes = TRUE
    OBVIOUS
  <2>2. QualifyClaim(imports, readable, source, e, content, names, bodies).status = "qualified"
    BY <1>2, <1>5
  <2>3. IndependenceJudgment(1) = "ok" /\ ~IsGap(yes, source, content)
    <3> HIDE DEF e, names, content
    <3>1. ~IsGap(TRUE, source, content)
      BY <2>2, QualifiedIsNoGap
    <3>2. IndependenceJudgment(1) = "ok"
      BY DEF IndependenceJudgment
    <3> QED BY <2>1, <3>1, <3>2 DEF IsGap
  <2>4. Extends(imports, imports)
    BY <1>1 DEF TablesTyped, Extends
  <2>5. Indexed(source, e)
    BY <1>1, EvidenceIndexed
  <2>6. names \subseteq names
    OBVIOUS
  <2>7. QualifyClaim(imports, yes, source, e, content, names, 1)
          = QualifyClaim(imports, readable, source, e, content, names, bodies)
    <3> HIDE DEF e, names, content
    <3> QED BY <2>2, <2>3, <2>4, <2>5, <2>6, QualifiedStays
  <2> QED BY <1>2, <2>1, <2>7 DEF Again
<1>6. ASSUME outcome.status = "qualified"
      PROVE  outcome = Again(y.request.content, basisVersions[y.version], y.revision)'
  BY <1>3, <1>4, <1>5, <1>6 DEF Again, Basis, EvidenceAt, Names
<1> QED BY <1>4, <1>6 DEF RunRepeats

LEMMA StoreRepeats ==
  ASSUME IInv, NEW q \in Processes, RunRepeats(run[q]), StoreQualification(q), NEW y, y = run'[q]
  PROVE  RunRepeats(y)'
<1>1. DOMAIN run = Processes /\ IsRun(run[q]) /\ run[q].at = "store"
  BY DEF IInv, Runs, RunTyped, StoreQualification, Stage
<1>2. /\ y = [run[q] EXCEPT !.at = "evaluate"]
      /\ UNCHANGED <<source, times, imports, basisVersions>>
  BY <1>1 DEF StoreQualification, Step, Local, surroundings
<1>3. /\ y.at = "evaluate" /\ y.outcome = run[q].outcome /\ y.request = run[q].request
      /\ y.version = run[q].version /\ y.revision = run[q].revision
  BY <1>1, <1>2 DEF IsRun
<1> QED BY <1>1, <1>2, <1>3 DEF RunRepeats, Again, EvidenceAt, Names

\* A run that computes success can compute it again from what it froze.
LEMMA ComputedRepeats ==
  ASSUME IInv, NEW p \in Processes, run[p].at = "evaluate", RunRepeats(run[p]),
         Status(p) = "succeeded"
  PROVE  Repeats(KeyOf(run[p]), Frozen(p))
<1> DEFINE f == Frozen(p)
<1>1. /\ run[p].revision \in 0..Len(times) /\ TablesTyped
  BY DEF IInv, Runs, RunTyped
<1>2. /\ f.revision = run[p].revision /\ f.basis = Basis(p) /\ f.na = run[p].request.na
      /\ f.content = run[p].request.content /\ f.mapping = run[p].mapping
  BY DEF Frozen, Request, Local
<1> HIDE DEF f
<1>3. PICK outcome : outcome = run[p].outcome
  OBVIOUS
<1>4. PICK again : again = Again(f.content, f.basis, f.revision)
  OBVIOUS
<1>5. outcome.status = "qualified" => again = outcome
  BY <1>2, <1>3, <1>4 DEF RunRepeats, Basis
<1>6. EvaluateCriterion(imports, run[p].request.criterion, f.na, f.basis.subject, outcome,
                        f.content, f.mapping.status) = "succeeded"
  BY <1>2, <1>3 DEF Status, Request, Local
<1>7. Extends(imports, imports)
  BY <1>1 DEF TablesTyped, Extends
<1>8. EvaluateCriterion(imports, run[p].request.criterion, f.na, f.basis.subject, again,
                        f.content, f.mapping.status) = "succeeded"
  BY <1>5, <1>6, <1>7, SuccessStays
<1>9. KeyOf(run[p])[2] = run[p].request.criterion
  BY DEF KeyOf
<1>10. Repeats(KeyOf(run[p]), f)
  BY <1>1, <1>2, <1>4, <1>8, <1>9 DEF Repeats
<1> QED BY <1>10 DEF f

LEMMA EvaluateRepeats ==
  ASSUME IInv, NEW q \in Processes, RunRepeats(run[q]), Evaluate(q), NEW y, y = run'[q]
  PROVE  RunRepeats(y)'
<1>1. /\ DOMAIN run = Processes /\ run[q].at = "evaluate"
      /\ UNCHANGED <<source, times, imports, basisVersions>>
  BY DEF IInv, Runs, Evaluate, Stage, Step, surroundings
<1>2. PICK f : f = Frozen(q)
  OBVIOUS
<1>3. PICK status : status = Status(q)
  OBVIOUS
<1>4. PICK r : r = run[q].request
  OBVIOUS
<1>5. \/ y = Idle
      \/ y = [Idle EXCEPT !.at = "publish", !.request = r, !.frozen = [input |-> f, status |-> status]]
  BY <1>1, <1>2, <1>3, <1>4 DEF Evaluate, Step, Request
<1>6. CASE y = Idle
  BY <1>6 DEF RunRepeats, Idle
<1>7. CASE y = [Idle EXCEPT !.at = "publish", !.request = r, !.frozen = [input |-> f, status |-> status]]
  <2>1. /\ y.at = "publish" /\ y.request = r
        /\ y.frozen.input = f /\ y.frozen.status = status
    BY <1>7 DEF Idle
  <2>2. PICK k : k = KeyOf(y)
    OBVIOUS
  <2>3. k = KeyOf(run[q])
    BY <1>4, <2>1, <2>2 DEF KeyOf
  <2>4. status = "succeeded" => Repeats(k, f)
    BY <1>1, <1>2, <1>3, <2>3, ComputedRepeats
  <2>5. status = "succeeded" => Repeats(k, f)'
    BY <1>1, <2>4 DEF Repeats, Again, EvidenceAt, Names
  <2> QED BY <2>1, <2>2, <2>5 DEF RunRepeats, KeyOf
<1> QED BY <1>5, <1>6, <1>7

LEMMA StepRepeats ==
  ASSUME RepeatInv, [Next]_vars
  PROVE  RepeatInv'
<1>1. IInv /\ TablesTyped /\ IInv' /\ Later
  BY StepInv, StepLater DEF RepeatInv, IInv
<1>2. ASSUME NEW q \in Processes PROVE RunRepeats(run[q])'
  <2>1. PICK y : y = run'[q]
    OBVIOUS
  <2>2. RunRepeats(run[q])
    BY DEF RepeatInv
  <2>3. CASE run'[q] = run[q]
    <3>1. RunTyped(y) /\ RunRepeats(y)
      BY <1>1, <2>1, <2>2, <2>3 DEF IInv, Runs
    <3>2. RunRepeats(y)'
      BY <1>1, <3>1, RunRepeatsStays
    <3> QED BY <2>1, <3>2
  <2>4. CASE run'[q].at \notin {"store", "evaluate", "publish"}
    BY <2>4 DEF RunRepeats
  <2>5. CASE Qualify(q) \/ StoreQualification(q) \/ Evaluate(q)
    <3>1. RunRepeats(y)'
      BY <1>1, <2>1, <2>2, <2>5, QualifyRepeats, StoreRepeats, EvaluateRepeats
    <3> QED BY <2>1, <3>1
  <2> QED BY <1>1, <2>3, <2>4, <2>5, Elsewhere
<1>3. ASSUME NEW k \in Keys, Succeeded(k)' PROVE Repeats(k, results[k].frozen)'
  <2>1. PICK g : g = results'[k].frozen
    OBVIOUS
  <2>2. CASE results'[k] = results[k]
    <3>1. Repeats(k, g)
      BY <1>3, <2>1, <2>2 DEF RepeatInv, Succeeded
    <3>2. Repeats(k, g)'
      BY <1>1, <3>1, RepeatsStays
    <3> QED BY <2>1, <3>2
  <2>3. ASSUME NEW p \in Processes, Publish(p), results'[k] # results[k]
        PROVE  Repeats(k, results[k].frozen)'
    <3>1. /\ run[p].at = "publish" /\ k = KeyOf(run[p]) /\ DOMAIN results = Keys
          /\ results'[k].frozen = run[p].frozen.input
          /\ results'[k].status \in {run[p].frozen.status, "execution_failed"}
      BY <1>1, <2>3 DEF Publish, Stage, Request, Local, KeyOf, TablesTyped
    <3>2. run[p].frozen.status = "succeeded"
      BY <1>3, <3>1 DEF Succeeded
    <3>3. RunRepeats(run[p])
      BY DEF RepeatInv
    <3>4. Repeats(k, g)
      BY <2>1, <3>1, <3>2, <3>3 DEF RunRepeats
    <3>5. Repeats(k, g)'
      BY <1>1, <3>4, RepeatsStays
    <3> QED BY <2>1, <3>5
  <2>4. CASE \A p \in Processes : ~Publish(p)
    BY <2>2, <2>4, ResultsUnchanged
  <2> QED BY <2>2, <2>3, <2>4
<1> QED BY <1>1, <1>2, <1>3 DEF RepeatInv

\* Every published success can be computed again from what it froze, with
\* whatever has been imported since: a name or a time zone that is proved later
\* never turns a judgment that was good.
THEOREM SuccessIsReproducible == Spec => []Reproducible
<1>1. Init => RepeatInv
  <2> SUFFICES ASSUME Init PROVE RepeatInv
    OBVIOUS
  <2>1. \A p \in Processes : run[p] = Idle
    BY DEF Init
  <2>2. \A p \in Processes : RunRepeats(run[p])
    BY <2>1 DEF RunRepeats, Idle
  <2>3. \A k \in Keys : ~Succeeded(k)
    BY DEF Init, Succeeded
  <2> QED BY <2>2, <2>3, InitInv DEF RepeatInv
<1>2. RepeatInv => Reproducible
  <2> SUFFICES ASSUME RepeatInv, NEW k \in Keys, Succeeded(k)
               PROVE  LET f == results[k].frozen
                          outcome == QualifyClaim(imports, TRUE, source, EvidenceAt(f.revision),
                                                  f.content, Names(f.basis), 1)
                      IN EvaluateCriterion(imports, k[2], f.na, f.basis.subject, outcome,
                                           f.content, f.mapping.status) = "succeeded"
    BY DEF Reproducible
  <2>1. Repeats(k, results[k].frozen)
    BY DEF RepeatInv
  <2> QED BY <2>1 DEF Repeats, Again
<1> QED BY <1>1, <1>2, StepRepeats, PTL DEF Spec
=============================================================================
