-------------------------- MODULE DimensionRunProofs --------------------------
(***************************************************************************)
(* Proofs about the dimension slices, for any number of processes,         *)
(* requests, reviews and imports.                                          *)
(*                                                                         *)
(* A slice between its judgment and its publication keeps every other      *)
(* writer out, so that what it has bound is still what is on record when   *)
(* it publishes (Heard); whatever is handed on to the output file has been *)
(* inserted (Kept).  So far the judgments are not opened: the argument is  *)
(* about who reads and writes what, and when.  The second half opens them. *)
(***************************************************************************)
EXTENDS DimensionRun, JudgmentProofs

Stages == {"idle", "set_basis", "judge", "publish", "write"}

\* The fields of a run and of what a slice has frozen.
IsRun(x) == DOMAIN x = {"at", "request", "version", "frozen"}

IsFrozen(f) ==
  DOMAIN f = {"dimension", "approved", "version", "basis", "proofs", "scopeId", "allowed",
              "reviews", "rejected", "views", "unit", "applicability", "overlays", "broken"}

Runs ==
  /\ DOMAIN run = Processes
  /\ \A p \in Processes :
       /\ IsRun(run[p]) /\ run[p].at \in Stages
       /\ run[p].at # "idle" => run[p].request \in Requests
       /\ run[p].at \in {"judge", "publish", "write"} => run[p].version \in DOMAIN basisVersions

\* One slice at a time holds the immediate transaction.
OneHolder == \A p, q \in Processes : Stage(p, "publish") /\ Stage(q, "publish") => p = q

Typed ==
  /\ readable \in BOOLEAN
  /\ imports \in Seq(Files) /\ IsInjective(imports)
  /\ basisVersions \in Seq({r.basis : r \in Requests}) /\ Len(basisVersions) <= MaxVersions
  /\ times \in Seq(Evidence) /\ Len(times) <= MaxTimes
  /\ bodies \in 1..MaxBodies
  /\ DOMAIN quals \subseteq Claims /\ DOMAIN output = Dimensions
  /\ overlays \subseteq OverlayForms
  /\ \A w \in reviews : w.mode \in {"license_v2", "workflow_authorization_v1", "legacy_unbound"}

LEMMA InitTables == Init => Typed
  BY DimensionRunAssumption DEF Init, Typed

LEMMA InitRuns == Init => Runs /\ OneHolder
  BY DEF Init, Runs, OneHolder, Stage, Idle, IsRun, Stages

----------------------------------------------------------------------------
\* What each action leaves alone.

\* Evidence, imports and reviews arrive only while no slice holds the
\* transaction; damage alone does not wait for it.
Arrival ==
  \/ \E e \in Evidence : AppendTime(e)
  \/ ImportBody
  \/ \E f \in Files : ImportProvenance(f)
  \/ \E r \in Requests : ReviseBasis(r.basis)
  \/ \E w \in ReviewForms : RegisterReview(w)
  \/ \E o \in OverlayForms : RegisterOverlay(o)
  \/ \E c \in Claims, v \in DOMAIN basisVersions, t \in 0..Len(times), n \in 1..bodies :
       StoreQualification(c, v, t, n)
  \/ \E c \in Candidates, t \in 0..Len(times), n \in 1..bodies : Authorize(c, t, n)
  \/ \E o \in Responses : Materialize(o)

LEMMA ArrivalIs ==
  ASSUME Arrival
  PROVE  Unlocked /\ UNCHANGED <<results, output, run>>
BY DEF Arrival, AppendTime, ImportBody, ImportProvenance, ReviseBasis, RegisterReview,
       RegisterOverlay, StoreQualification, Authorize, Materialize, Outside

Damaged == Damage \/ \E c \in Candidates : DamageResponse(c)

LEMMA DamagedIs ==
  ASSUME Damaged
  PROVE  UNCHANGED <<evidence, basisVersions, reviews, authorizations, results, output, run>>
BY DEF Damaged, Damage, DamageResponse, workflow

\* The steps of a slice change its own run, and insert at most one result.
LEMMA SliceIs ==
  ASSUME NEW p \in Processes,
         \/ \E r \in Requests : Start(p, r)
         \/ SetBasis(p) \/ Judge(p) \/ Publish(p) \/ Write(p) \/ Fail(p)
  PROVE  /\ UNCHANGED <<readable, evidence, reviews, workflow>>
         /\ \E x : run' = [run EXCEPT ![p] = x]
BY DEF Start, SetBasis, Judge, Publish, Write, Fail, Tables, Step

----------------------------------------------------------------------------
\* Types.

LEMMA ReviewTyped ==
  ASSUME NEW w \in ReviewForms
  PROVE  [w EXCEPT !.mode = PermissionMode(w)].mode
           \in {"license_v2", "workflow_authorization_v1", "legacy_unbound"}
<1>1. "mode" \in DOMAIN w
  BY DimensionRunAssumption
<1>2. [w EXCEPT !.mode = PermissionMode(w)].mode = PermissionMode(w)
  BY <1>1
<1> QED BY <1>2 DEF PermissionMode

LEMMA MaterializedIs ==
  ASSUME NEW o, NEW a
  PROVE  /\ Materialized(o, a).sidecar = a
         /\ Materialized(o, a).mode
              \in {"license_v2", "workflow_authorization_v1", "legacy_unbound"}
         /\ Materialized(o, a).claim = o.candidate.claim
         /\ Materialized(o, a).version = o.candidate.version
BY DEF Materialized, PermissionMode

LEMMA BasisAppended ==
  ASSUME Typed, NEW r \in Requests, Len(basisVersions) < MaxVersions,
         basisVersions' = Append(basisVersions, r.basis)
  PROVE  /\ basisVersions' \in Seq({q.basis : q \in Requests}) /\ Len(basisVersions') <= MaxVersions
         /\ DOMAIN basisVersions \subseteq DOMAIN basisVersions'
         /\ Len(basisVersions) + 1 \in DOMAIN basisVersions'
<1>1. MaxVersions \in Nat /\ r.basis \in {q.basis : q \in Requests}
  BY DimensionRunAssumption
<1> QED BY <1>1 DEF Typed

LEMMA StepTyped ==
  ASSUME Typed, Runs, [Next]_vars
  PROVE  Typed' /\ DOMAIN basisVersions \subseteq DOMAIN basisVersions'
<1>1. ASSUME NEW e \in Evidence, AppendTime(e)
      PROVE  Typed' /\ DOMAIN basisVersions \subseteq DOMAIN basisVersions'
  BY <1>1, DimensionRunAssumption DEF AppendTime, Outside, Typed
<1>2. CASE ImportBody
  BY <1>2, DimensionRunAssumption DEF ImportBody, Outside, Typed
<1>3. ASSUME NEW f \in Files, ImportProvenance(f)
      PROVE  Typed' /\ DOMAIN basisVersions \subseteq DOMAIN basisVersions'
  <2>1. imports' = Append(imports, f) /\ \A i \in DOMAIN imports : imports[i] # f
    BY <1>3 DEF ImportProvenance
  <2>2. imports' \in Seq(Files) /\ IsInjective(imports')
    BY <2>1 DEF Typed, IsInjective
  <2> QED BY <1>3, <2>2 DEF ImportProvenance, Outside, Typed
<1>4. ASSUME NEW r \in Requests, ReviseBasis(r.basis)
      PROVE  Typed' /\ DOMAIN basisVersions \subseteq DOMAIN basisVersions'
  BY <1>4, BasisAppended DEF ReviseBasis, Outside, evidence, Typed
<1>5. ASSUME NEW w \in ReviewForms, RegisterReview(w)
      PROVE  Typed' /\ DOMAIN basisVersions \subseteq DOMAIN basisVersions'
  BY <1>5, ReviewTyped DEF RegisterReview, Outside, evidence, Typed
<1>6. ASSUME NEW o \in OverlayForms, RegisterOverlay(o)
      PROVE  Typed' /\ DOMAIN basisVersions \subseteq DOMAIN basisVersions'
  BY <1>6 DEF RegisterOverlay, Outside, Typed
<1>7. ASSUME NEW c \in Claims, NEW v, NEW t, NEW n, StoreQualification(c, v, t, n)
      PROVE  Typed' /\ DOMAIN basisVersions \subseteq DOMAIN basisVersions'
  <2>1. DOMAIN quals' \subseteq Claims
    BY <1>7 DEF StoreQualification, Stored, Typed
  <2> QED BY <1>7, <2>1 DEF StoreQualification, Outside, Typed
<1>8. CASE Damaged
  <2>1. readable' \in BOOLEAN
    BY <1>8 DEF Damaged, Damage, DamageResponse, Typed
  <2> QED BY <1>8, <2>1, DamagedIs DEF evidence, Typed
<1>13. ASSUME NEW c \in Candidates, NEW t, NEW n, Authorize(c, t, n)
       PROVE  Typed' /\ DOMAIN basisVersions \subseteq DOMAIN basisVersions'
  <2>1. PICK row : quals' = Stored(c.claim, row)
    BY <1>13 DEF Authorize
  <2>2. DOMAIN quals' \subseteq Claims
    BY <2>1, DimensionRunAssumption DEF Stored, Typed
  <2>3. UNCHANGED <<readable, imports, basisVersions, times, bodies, reviews, overlays, output>>
    BY <1>13 DEF Authorize
  <2> QED BY <2>2, <2>3 DEF Typed
<1>14. ASSUME NEW o \in Responses, Materialize(o)
       PROVE  Typed' /\ DOMAIN basisVersions \subseteq DOMAIN basisVersions'
  <2>1. PICK a \in authorizations : reviews' = reviews \cup {Materialized(o, a)}
    BY <1>14 DEF Materialize
  <2>2. UNCHANGED <<readable, evidence, basisVersions, output>>
    BY <1>14 DEF Materialize, Outside
  <2> QED BY <2>1, <2>2, MaterializedIs DEF evidence, Typed
<1>9. ASSUME NEW p \in Processes, SetBasis(p)
      PROVE  Typed' /\ DOMAIN basisVersions \subseteq DOMAIN basisVersions'
  <2>1. run[p].request \in Requests
    BY <1>9 DEF SetBasis, Stage, Runs
  <2> QED BY <1>9, <2>1, BasisAppended DEF SetBasis, Tables, evidence, Typed
<1>10. ASSUME NEW p \in Processes, Write(p)
       PROVE  Typed' /\ DOMAIN basisVersions \subseteq DOMAIN basisVersions'
  <2>1. DOMAIN output' = Dimensions
    BY <1>10 DEF Write, Typed
  <2> QED BY <1>10, <2>1 DEF Write, Tables, evidence, Typed
<1>11. ASSUME NEW p \in Processes,
              (\E r \in Requests : Start(p, r)) \/ Judge(p) \/ Publish(p) \/ Fail(p)
       PROVE  Typed' /\ DOMAIN basisVersions \subseteq DOMAIN basisVersions'
  <2>1. UNCHANGED <<readable, evidence, reviews, basisVersions, output>>
    BY <1>11 DEF Start, Judge, Publish, Fail, Tables
  <2> QED BY <2>1 DEF evidence, Typed
<1>12. CASE UNCHANGED vars
  BY <1>12 DEF vars, evidence, Typed
<1> QED BY <1>1, <1>2, <1>3, <1>4, <1>5, <1>6, <1>7, <1>8, <1>9, <1>10, <1>11, <1>12, <1>13,
           <1>14 DEF Next, Damaged

\* Evidence only grows.
LEMMA StepGrows ==
  ASSUME Typed, Runs, [Next]_vars
  PROVE  0..Len(times) \subseteq 0..Len(times') /\ 1..bodies \subseteq 1..bodies'
<1>0. Len(times) \in Nat /\ bodies \in Nat
  BY DimensionRunAssumption DEF Typed
<1>1. ASSUME NEW e \in Evidence, AppendTime(e)
      PROVE  0..Len(times) \subseteq 0..Len(times') /\ bodies' = bodies
  BY <1>0, <1>1 DEF AppendTime, Typed
<1>2. CASE ImportBody
  BY <1>0, <1>2 DEF ImportBody
<1>3. CASE Arrival /\ ~ImportBody /\ ~(\E e \in Evidence : AppendTime(e))
  <2>1. UNCHANGED <<times, bodies>>
    BY <1>3 DEF Arrival, ImportProvenance, ReviseBasis, RegisterReview, RegisterOverlay,
                StoreQualification, Authorize, Materialize, evidence
  <2> QED BY <2>1
<1>4. CASE Damaged \/ UNCHANGED vars
  BY <1>4, DamagedIs DEF vars, evidence
<1>5. CASE \E p \in Processes :
             \/ \E r \in Requests : Start(p, r)
             \/ SetBasis(p) \/ Judge(p) \/ Publish(p) \/ Write(p) \/ Fail(p)
  BY <1>5, SliceIs DEF evidence
<1>6. CASE Next
  BY <1>1, <1>2, <1>3, <1>4, <1>5, <1>6, Zenon DEF Next, Arrival, Damaged
<1> QED BY <1>4, <1>6

----------------------------------------------------------------------------
\* Authorizations, and the reviews materialised from them.

Filed ==
  /\ sealed \subseteq Candidates
  /\ \A a \in authorizations :
       /\ a.candidate \in Candidates /\ a.candidate.version \in DOMAIN basisVersions
       /\ a.view.revision \in 0..Len(times) /\ a.view.bodies \in 1..bodies
  /\ \A w \in reviews : w.sidecar # None => w.sidecar \in authorizations

\* What is given for a candidate, in one piece.
LEMMA GrantIs ==
  ASSUME NEW c, NEW t, NEW n, Authorize(c, t, n)
  PROVE  \E a, b, proof, row :
           /\ authorizations' = authorizations \cup {a} /\ a.candidate = c
           /\ c.version \in DOMAIN basisVersions /\ b = basisVersions[c.version]
           /\ proof = BasisProof(imports, b) /\ proof # None
           /\ a.view = View(c.claim, row, t, n, b, proof)
           /\ row.status = "qualified" /\ row.status = Outcome(c.claim, t, n, proof.names).status
           /\ quals' = Stored(c.claim, row) /\ (c.claim \in DOMAIN quals => quals[c.claim] = row)
           /\ \A i \in DOMAIN a.inputs : BundleHolds(i) /\ ResolveBundle(i) = a.inputs[i]
<1> DEFINE b == basisVersions[c.version]
           proof == BasisProof(imports, b)
           outcome == Outcome(c.claim, t, n, proof.names)
           row == Row(outcome, AliasCaveat(imports, Source, Content[c.claim], b, proof.names))
           view == View(c.claim, row, t, n, b, proof)
           inputs == [i \in c.inputs |-> ResolveBundle(i)]
<1>1. row.status = outcome.status
  BY DEF Row
<1>2. /\ authorizations' = authorizations \cup {[candidate |-> c, view |-> view, inputs |-> inputs]}
      /\ c.version \in DOMAIN basisVersions /\ proof # None /\ row.status = "qualified"
      /\ quals' = Stored(c.claim, row) /\ (c.claim \in DOMAIN quals => quals[c.claim] = row)
      /\ \A i \in c.inputs : BundleHolds(i)
  BY DEF Authorize
<1>3. DOMAIN inputs = c.inputs /\ \A i \in c.inputs : inputs[i] = ResolveBundle(i)
  OBVIOUS
<1>4. /\ b = basisVersions[c.version] /\ proof = BasisProof(imports, b)
      /\ outcome = Outcome(c.claim, t, n, proof.names) /\ view = View(c.claim, row, t, n, b, proof)
  OBVIOUS
<1> HIDE DEF b, proof, outcome, row, view, inputs
<1>5. PICK a : a = [candidate |-> c, view |-> view, inputs |-> inputs]
  OBVIOUS
<1>6. a.candidate = c /\ a.view = view /\ a.inputs = inputs
  BY <1>5
<1>7. \A i \in DOMAIN a.inputs : BundleHolds(i) /\ ResolveBundle(i) = a.inputs[i]
  BY <1>2, <1>3, <1>6
<1>8. authorizations' = authorizations \cup {a}
  BY <1>2, <1>5
<1> WITNESS a, b, proof, row
<1> QED BY <1>1, <1>2, <1>4, <1>6, <1>7, <1>8

LEMMA StepFiled ==
  ASSUME Typed, Runs, Filed, [Next]_vars
  PROVE  Filed'
<1>0. /\ DOMAIN basisVersions \subseteq DOMAIN basisVersions'
      /\ 0..Len(times) \subseteq 0..Len(times') /\ 1..bodies \subseteq 1..bodies'
  BY StepTyped, StepGrows
<1>1. ASSUME UNCHANGED <<reviews, authorizations>>, sealed' \subseteq sealed PROVE Filed'
  BY <1>0, <1>1 DEF Filed
<1>2. ASSUME NEW w \in ReviewForms, RegisterReview(w) PROVE Filed'
  <2>1. PICK x : x = [w EXCEPT !.mode = PermissionMode(w)]
    OBVIOUS
  <2>2. x.sidecar = None
    BY <2>1, DimensionRunAssumption
  <2>3. reviews' = reviews \cup {x} /\ UNCHANGED workflow
    BY <1>2, <2>1 DEF RegisterReview, Outside
  <2> QED BY <1>0, <2>2, <2>3 DEF Filed, workflow
<1>3. ASSUME NEW c \in Candidates, NEW t \in 0..Len(times), NEW n \in 1..bodies, Authorize(c, t, n)
      PROVE  Filed'
  <2>1. PICK a, row, b, proof : /\ authorizations' = authorizations \cup {a} /\ a.candidate = c
                                /\ c.version \in DOMAIN basisVersions
                                /\ a.view = View(c.claim, row, t, n, b, proof)
    BY <1>3, GrantIs
  <2>2. a.view.revision = t /\ a.view.bodies = n
    BY <2>1 DEF View
  <2>3. UNCHANGED <<reviews, sealed>>
    BY <1>3 DEF Authorize
  <2> QED BY <1>0, <2>1, <2>2, <2>3 DEF Filed
<1>4. ASSUME NEW o \in Responses, Materialize(o) PROVE Filed'
  <2>1. PICK a \in authorizations : reviews' = reviews \cup {Materialized(o, a)}
    BY <1>4 DEF Materialize
  <2>2. UNCHANGED workflow
    BY <1>4 DEF Materialize, Outside
  <2> QED BY <1>0, <2>1, <2>2, MaterializedIs DEF Filed, workflow
<1>5. CASE Damaged \/ UNCHANGED vars
  <2>1. sealed' \subseteq sealed
    BY <1>5 DEF Damaged, Damage, DamageResponse, vars, workflow
  <2> QED BY <1>1, <1>5, <2>1, DamagedIs DEF vars, workflow
<1>6. CASE \E p \in Processes :
             \/ \E r \in Requests : Start(p, r)
             \/ SetBasis(p) \/ Judge(p) \/ Publish(p) \/ Write(p) \/ Fail(p)
  BY <1>1, <1>6, SliceIs DEF workflow
<1>7. CASE \/ \E e \in Evidence : AppendTime(e)
           \/ ImportBody
           \/ \E f \in Files : ImportProvenance(f)
           \/ \E r \in Requests : ReviseBasis(r.basis)
           \/ \E o \in OverlayForms : RegisterOverlay(o)
           \/ \E c \in Claims, v \in DOMAIN basisVersions, t \in 0..Len(times), n \in 1..bodies :
                StoreQualification(c, v, t, n)
  <2>1. UNCHANGED <<reviews, workflow>>
    BY <1>7 DEF AppendTime, ImportBody, ImportProvenance, ReviseBasis, RegisterOverlay,
                StoreQualification, Outside
  <2> QED BY <1>1, <2>1 DEF workflow
<1>8. CASE Next
  BY <1>2, <1>3, <1>4, <1>5, <1>6, <1>7, <1>8, Zenon DEF Next, Damaged
<1> QED BY <1>5, <1>8

----------------------------------------------------------------------------
\* Runs.

LEMMA RunsUpdate ==
  ASSUME Runs, DOMAIN basisVersions \subseteq DOMAIN basisVersions',
         NEW p \in Processes, NEW x, run' = [run EXCEPT ![p] = x],
         IsRun(x), x.at \in Stages, x.at # "idle" => x.request \in Requests,
         x.at \in {"judge", "publish", "write"} => x.version \in DOMAIN basisVersions'
  PROVE  Runs'
<1>1. \A q \in Processes : run'[q] = IF q = p THEN x ELSE run[q]
  BY DEF Runs
<1>2. DOMAIN run' = Processes
  BY DEF Runs
<1>3. ASSUME NEW q \in Processes
      PROVE  /\ IsRun(run'[q]) /\ run'[q].at \in Stages
             /\ run'[q].at # "idle" => run'[q].request \in Requests
             /\ run'[q].at \in {"judge", "publish", "write"} =>
                  run'[q].version \in DOMAIN basisVersions'
  BY <1>1 DEF Runs
<1> QED BY <1>2, <1>3 DEF Runs, IsRun

\* Where a slice goes with its next step.
LEMMA StartMoves ==
  ASSUME Typed, Runs, NEW p \in Processes, \E r \in Requests : Start(p, r)
  PROVE  \E x : /\ IsRun(x) /\ (x.at = "set_basis" \/ x.at = "judge") /\ x.request \in Requests
                /\ x.at = "judge" => x.version \in DOMAIN basisVersions
                /\ run' = [run EXCEPT ![p] = x]
<1>0. PICK r \in Requests : Start(p, r)
  OBVIOUS
<1> DEFINE stage == IF basisVersions = <<>> THEN "set_basis" ELSE "judge"
           x == [Idle EXCEPT !.at = stage, !.request = r, !.version = Len(basisVersions)]
<1>1. run' = [run EXCEPT ![p] = x]
  BY <1>0 DEF Start, Step
<1> HIDE DEF stage
<1>2. IsRun(x) /\ x.at = stage /\ x.request = r /\ x.version = Len(basisVersions)
  BY DEF Idle, IsRun
<1>3. x.at = "judge" => x.version \in DOMAIN basisVersions
  <2>1. x.at = "judge" => basisVersions # <<>>
    BY <1>2 DEF stage
  <2>2. basisVersions # <<>> => Len(basisVersions) \in DOMAIN basisVersions
    BY DEF Typed
  <2> QED BY <1>2, <2>1, <2>2
<1>4. (x.at = "set_basis" \/ x.at = "judge") /\ x.request \in Requests
  BY <1>2 DEF stage
<1> HIDE DEF x
<1> QED BY <1>1, <1>2, <1>3, <1>4

LEMMA SetBasisMoves ==
  ASSUME Typed, Runs, NEW p \in Processes, SetBasis(p)
  PROVE  \E x : /\ IsRun(x) /\ x.at = "judge" /\ x.request \in Requests
                /\ x.version \in DOMAIN basisVersions'
                /\ run' = [run EXCEPT ![p] = x]
<1> DEFINE x == [run[p] EXCEPT !.at = "judge", !.version = Len(basisVersions) + 1]
<1>1. run' = [run EXCEPT ![p] = x]
  BY DEF SetBasis, Step
<1>2. run[p].request \in Requests /\ IsRun(run[p])
  BY DEF SetBasis, Stage, Runs
<1>3. IsRun(x) /\ x.at = "judge" /\ x.request \in Requests /\ x.version = Len(basisVersions) + 1
  BY <1>2 DEF IsRun
<1>4. Len(basisVersions) + 1 \in DOMAIN basisVersions'
  BY <1>2, BasisAppended DEF SetBasis
<1> HIDE DEF x
<1> QED BY <1>1, <1>3, <1>4

LEMMA JudgeMoves ==
  ASSUME Typed, Runs, NEW p \in Processes, Judge(p)
  PROVE  \E x : /\ IsRun(x) /\ x.at = "publish" /\ x.request \in Requests
                /\ x.version \in DOMAIN basisVersions
                /\ x.frozen = Frozen(run[p].request, run[p].version)
                /\ run' = [run EXCEPT ![p] = x]
<1> DEFINE x == [run[p] EXCEPT !.at = "publish", !.frozen = Frozen(run[p].request, run[p].version)]
<1>1. run' = [run EXCEPT ![p] = x]
  BY DEF Judge, Step
<1>2. /\ run[p].request \in Requests /\ IsRun(run[p])
      /\ run[p].version \in DOMAIN basisVersions
  BY DEF Judge, Stage, Runs
<1>3. /\ IsRun(x) /\ x.at = "publish" /\ x.request \in Requests
      /\ x.version \in DOMAIN basisVersions
      /\ x.frozen = Frozen(run[p].request, run[p].version)
  BY <1>2 DEF IsRun
<1> HIDE DEF x
<1> QED BY <1>1, <1>3

LEMMA PublishMoves ==
  ASSUME Typed, Runs, NEW p \in Processes, Publish(p)
  PROVE  \E x, broken : /\ IsRun(x) /\ x.at = "write" /\ x.request \in Requests
                        /\ x.version \in DOMAIN basisVersions
                        /\ x.frozen = [run[p].frozen EXCEPT !.broken = broken]
                        /\ results' = results \cup {x.frozen}
                        /\ run' = [run EXCEPT ![p] = x]
<1> DEFINE f == run[p].frozen
           broken == ~Failed(f) /\ ~Validates(f)
           g == [f EXCEPT !.broken = broken]
           x == [run[p] EXCEPT !.at = "write", !.frozen = g]
<1>1. run' = [run EXCEPT ![p] = x] /\ results' = results \cup {g}
  BY DEF Publish, Step
<1>2. /\ run[p].request \in Requests /\ IsRun(run[p])
      /\ run[p].version \in DOMAIN basisVersions
  BY DEF Publish, Stage, Runs
<1>3. /\ IsRun(x) /\ x.at = "write" /\ x.request \in Requests
      /\ x.version \in DOMAIN basisVersions /\ x.frozen = g
  <2> HIDE DEF g
  <2> QED BY <1>2 DEF IsRun
<1>4. x.frozen = [run[p].frozen EXCEPT !.broken = broken]
  BY <1>3
<1> HIDE DEF x, broken
<1> QED BY <1>1, <1>3, <1>4

LEMMA EndMoves ==
  ASSUME NEW p \in Processes, Write(p) \/ Fail(p)
  PROVE  run' = [run EXCEPT ![p] = Idle]
BY DEF Write, Fail, Step

LEMMA StepRuns ==
  ASSUME Typed, Runs, OneHolder, [Next]_vars
  PROVE  Runs' /\ OneHolder'
<1>0. DOMAIN basisVersions \subseteq DOMAIN basisVersions'
  BY StepTyped
<1>1. ASSUME run' = run PROVE Runs' /\ OneHolder'
  BY <1>0, <1>1 DEF Runs, OneHolder, Stage, IsRun
<1>2. ASSUME NEW p \in Processes, NEW x, run' = [run EXCEPT ![p] = x],
             IsRun(x), x.at \in Stages, x.at # "idle" => x.request \in Requests,
             x.at \in {"judge", "publish", "write"} => x.version \in DOMAIN basisVersions',
             x.at = "publish" => Unlocked
      PROVE  Runs' /\ OneHolder'
  <2>1. Runs'
    BY <1>0, <1>2, RunsUpdate
  <2>2. \A q \in Processes : run'[q] = IF q = p THEN x ELSE run[q]
    BY <1>2 DEF Runs
  <2>3. OneHolder'
    BY <1>2, <2>2 DEF OneHolder, Stage, Unlocked
  <2> QED BY <2>1, <2>3
<1>3. ASSUME NEW p \in Processes, NEW r \in Requests, Start(p, r)
      PROVE  Runs' /\ OneHolder'
  <2>1. PICK x : /\ IsRun(x) /\ (x.at = "set_basis" \/ x.at = "judge") /\ x.request \in Requests
                 /\ x.at = "judge" => x.version \in DOMAIN basisVersions
                 /\ run' = [run EXCEPT ![p] = x]
    BY <1>3, StartMoves
  <2> QED BY <1>0, <1>2, <2>1 DEF Stages
<1>4. ASSUME NEW p \in Processes, SetBasis(p) PROVE Runs' /\ OneHolder'
  <2>1. PICK x : /\ IsRun(x) /\ x.at = "judge" /\ x.request \in Requests
                 /\ x.version \in DOMAIN basisVersions'
                 /\ run' = [run EXCEPT ![p] = x]
    BY <1>4, SetBasisMoves
  <2> QED BY <1>2, <2>1 DEF Stages
<1>5. ASSUME NEW p \in Processes, Judge(p) PROVE Runs' /\ OneHolder'
  <2>1. PICK x : /\ IsRun(x) /\ x.at = "publish" /\ x.request \in Requests
                 /\ x.version \in DOMAIN basisVersions
                 /\ run' = [run EXCEPT ![p] = x]
    BY <1>5, JudgeMoves
  <2>2. Unlocked
    BY <1>5 DEF Judge
  <2> QED BY <1>0, <1>2, <2>1, <2>2 DEF Stages
<1>6. ASSUME NEW p \in Processes, Publish(p) PROVE Runs' /\ OneHolder'
  <2>1. PICK x : /\ IsRun(x) /\ x.at = "write" /\ x.request \in Requests
                 /\ x.version \in DOMAIN basisVersions
                 /\ run' = [run EXCEPT ![p] = x]
    BY <1>6, PublishMoves
  <2> QED BY <1>0, <1>2, <2>1 DEF Stages
<1>7. ASSUME NEW p \in Processes, Write(p) \/ Fail(p) PROVE Runs' /\ OneHolder'
  <2>1. IsRun(Idle) /\ Idle.at = "idle"
    BY DEF Idle, IsRun
  <2>2. run' = [run EXCEPT ![p] = Idle]
    BY <1>7, EndMoves
  <2> QED BY <1>2, <2>1, <2>2 DEF Stages
<1>8. CASE UNCHANGED vars \/ Damaged
  BY <1>1, <1>8, DamagedIs DEF vars
<1>9. CASE Arrival
  BY <1>1, <1>9, ArrivalIs
<1> QED BY <1>3, <1>4, <1>5, <1>6, <1>7, <1>8, <1>9, Zenon DEF Next, Arrival, Damaged

----------------------------------------------------------------------------
\* What a slice holds.

\* Every review on record for what a result is about.
OnRecord(f) ==
  {w \in reviews : /\ w.dimension = f.dimension /\ w.version = f.version
                   /\ w.scopeId = f.scopeId
                   /\ f.allowed # None => w.id \in f.allowed}

Hears(f) == IsFrozen(f) /\ (f.rejected = {} => f.reviews = OnRecord(f))

\* While it holds the transaction, it has heard every review on record.
Heard == \A p \in Processes : Stage(p, "publish") => Hears(run[p].frozen)

\* What it is about to write to the output file has been inserted.
Kept ==
  /\ \A p \in Processes : Stage(p, "write") => run[p].frozen \in results
  /\ \A d \in Dimensions : output[d] # None => output[d] \in results

IInv == Typed /\ Runs /\ OneHolder /\ Filed /\ Heard /\ Kept

\* A judgment that rejects nothing has bound everything that was selected.
LEMMA JudgedHears ==
  ASSUME NEW r, NEW version, NEW f, f = Frozen(r, version)
  PROVE  Hears(f)
<1> DEFINE proof == BasisProof(imports, basisVersions[version])
<1>1. /\ IsFrozen(f) /\ f.dimension = r.dimension /\ f.version = version
      /\ f.scopeId = ScopeId(r) /\ f.allowed = r.allowed
      /\ f.rejected = Rejected(r, version, proof)
      /\ f.reviews = {w \in Selected(r, version) : Binds(r, version, proof, w)}
  BY DEF Frozen, IsFrozen
<1>2. OnRecord(f) = Selected(r, version)
  BY <1>1 DEF OnRecord, Selected
<1>3. ASSUME f.rejected = {}, NEW w \in Selected(r, version)
      PROVE  Binds(r, version, proof, w)
  <2>1. ~Binds(r, version, proof, w) => w.id \in Rejected(r, version, proof)
    BY DEF Rejected
  <2> QED BY <1>1, <1>3, <2>1
<1>4. f.rejected = {} => f.reviews = OnRecord(f)
  BY <1>1, <1>2, <1>3
<1> QED BY <1>1, <1>4 DEF Hears

\* Whether it validates changes nothing it has heard.
LEMMA PublishedHears ==
  ASSUME NEW f, Hears(f), NEW b, NEW g, g = [f EXCEPT !.broken = b]
  PROVE  Hears(g) /\ (~Failed(g) => g.reviews = OnRecord(g))
<1>1. /\ IsFrozen(g) /\ g.dimension = f.dimension /\ g.version = f.version
      /\ g.scopeId = f.scopeId /\ g.allowed = f.allowed
      /\ g.rejected = f.rejected /\ g.reviews = f.reviews
  BY DEF IsFrozen, Hears
<1>2. OnRecord(g) = OnRecord(f)
  BY <1>1 DEF OnRecord
<1> QED BY <1>1, <1>2 DEF Hears, Failed

\* The publication of a slice, in one piece.
LEMMA Publication ==
  ASSUME Typed, Runs, Heard, NEW p \in Processes, Publish(p)
  PROVE  \E g : /\ results' = results \cup {g}
                /\ ~Failed(g) => g.reviews = OnRecord(g)
                /\ \A q \in Processes : run'[q].at = "write" =>
                    run'[q].frozen = g \/ (Stage(q, "write") /\ run'[q] = run[q])
                /\ \A q \in Processes : run'[q].at = "publish" => run'[q] = run[q]
<1>1. PICK x, b : /\ x.at = "write"
                  /\ x.frozen = [run[p].frozen EXCEPT !.broken = b]
                  /\ results' = results \cup {x.frozen}
                  /\ run' = [run EXCEPT ![p] = x]
  BY PublishMoves
<1> DEFINE g == x.frozen
<1>2. Hears(run[p].frozen)
  BY DEF Publish, Heard
<1>3. ~Failed(g) => g.reviews = OnRecord(g)
  <2>1. g = [run[p].frozen EXCEPT !.broken = b]
    BY <1>1
  <2> HIDE DEF g
  <2> QED BY <1>2, <2>1, PublishedHears
<1>4. \A q \in Processes : run'[q] = IF q = p THEN x ELSE run[q]
  BY <1>1 DEF Runs
<1>5. /\ \A q \in Processes : run'[q].at = "write" =>
           run'[q].frozen = g \/ (Stage(q, "write") /\ run'[q] = run[q])
      /\ \A q \in Processes : run'[q].at = "publish" => run'[q] = run[q]
  BY <1>1, <1>4 DEF Stage
<1>6. results' = results \cup {g}
  BY <1>1
<1> HIDE DEF g
<1> QED BY <1>3, <1>5, <1>6

\* Every other step inserts nothing; a slice enters its transaction by judging.
LEMMA OtherSteps ==
  ASSUME Typed, Runs, [Next]_vars, \A p \in Processes : ~Publish(p)
  PROVE  /\ results' = results
         /\ \/ run' = run
            \/ \E p \in Processes : \E x :
                 /\ run' = [run EXCEPT ![p] = x] /\ reviews' = reviews
                 /\ x.at # "write"
                 /\ x.at = "publish" => Hears(x.frozen)
         /\ \/ output' = output
            \/ \E p \in Processes : \E d : /\ Stage(p, "write")
                                           /\ output' = [output EXCEPT ![d] = run[p].frozen]
<1>1. ASSUME NEW p \in Processes, NEW r \in Requests, Start(p, r)
      PROVE  /\ UNCHANGED <<results, output, reviews>>
             /\ \E x : /\ run' = [run EXCEPT ![p] = x] /\ x.at # "write"
                       /\ x.at = "publish" => Hears(x.frozen)
  <2>1. PICK x : (x.at = "set_basis" \/ x.at = "judge") /\ run' = [run EXCEPT ![p] = x]
    BY <1>1, StartMoves
  <2> QED BY <1>1, <2>1 DEF Start, Tables
<1>2. ASSUME NEW p \in Processes, SetBasis(p)
      PROVE  /\ UNCHANGED <<results, output, reviews>>
             /\ \E x : /\ run' = [run EXCEPT ![p] = x] /\ x.at # "write"
                       /\ x.at = "publish" => Hears(x.frozen)
  <2>1. PICK x : x.at = "judge" /\ run' = [run EXCEPT ![p] = x]
    BY <1>2, SetBasisMoves
  <2> QED BY <1>2, <2>1 DEF SetBasis, Tables
<1>3. ASSUME NEW p \in Processes, Judge(p)
      PROVE  /\ UNCHANGED <<results, output, reviews>>
             /\ \E x : /\ run' = [run EXCEPT ![p] = x] /\ x.at # "write"
                       /\ x.at = "publish" => Hears(x.frozen)
  <2>1. PICK x : /\ x.at = "publish" /\ run' = [run EXCEPT ![p] = x]
                 /\ x.frozen = Frozen(run[p].request, run[p].version)
    BY <1>3, JudgeMoves
  <2>2. Hears(x.frozen)
    BY <2>1, JudgedHears
  <2> QED BY <1>3, <2>1, <2>2 DEF Judge, Tables
<1>4. ASSUME NEW p \in Processes, Write(p) \/ Fail(p)
      PROVE  /\ UNCHANGED <<results, reviews>>
             /\ output' = output \/
                  (Stage(p, "write") /\ \E d : output' = [output EXCEPT ![d] = run[p].frozen])
             /\ \E x : /\ run' = [run EXCEPT ![p] = x] /\ x.at # "write"
                       /\ x.at = "publish" => Hears(x.frozen)
  <2>1. Idle.at = "idle"
    BY DEF Idle
  <2>2. run' = [run EXCEPT ![p] = Idle]
    BY <1>4, EndMoves
  <2>3. /\ UNCHANGED <<results, reviews>>
        /\ output' = output \/
             (Stage(p, "write") /\ \E d : output' = [output EXCEPT ![d] = run[p].frozen])
    BY <1>4 DEF Write, Fail, Tables
  <2> QED BY <2>1, <2>2, <2>3
<1>5. CASE UNCHANGED vars \/ Damaged
  BY <1>5, DamagedIs DEF vars
<1>6. ASSUME NEW p \in Processes,
             \/ \E r \in Requests : Start(p, r)
             \/ SetBasis(p) \/ Judge(p) \/ Write(p) \/ Fail(p)
      PROVE  /\ UNCHANGED <<results, reviews>>
             /\ output' = output \/
                  (Stage(p, "write") /\ \E d : output' = [output EXCEPT ![d] = run[p].frozen])
             /\ \E x : /\ run' = [run EXCEPT ![p] = x] /\ x.at # "write"
                       /\ x.at = "publish" => Hears(x.frozen)
  BY <1>1, <1>2, <1>3, <1>4, <1>6
<1>7. ASSUME NEW p \in Processes,
             \/ \E r \in Requests : Start(p, r)
             \/ SetBasis(p) \/ Judge(p) \/ Write(p) \/ Fail(p)
      PROVE  /\ results' = results
             /\ \E q \in Processes : \E x :
                  /\ run' = [run EXCEPT ![q] = x] /\ reviews' = reviews
                  /\ x.at # "write"
                  /\ x.at = "publish" => Hears(x.frozen)
             /\ \/ output' = output
                \/ \E q \in Processes : \E d : /\ Stage(q, "write")
                                               /\ output' = [output EXCEPT ![d] = run[q].frozen]
  BY <1>6, <1>7
<1>8. CASE \E p \in Processes :
             \/ \E r \in Requests : Start(p, r)
             \/ SetBasis(p) \/ Judge(p) \/ Write(p) \/ Fail(p)
  BY <1>7, <1>8
<1>9. CASE Arrival
  BY <1>9, ArrivalIs, Zenon
<1> QED
  <2>1. \A p \in Processes : ~Publish(p)
    OBVIOUS
  <2>2. Next \/ UNCHANGED vars
    OBVIOUS
  <2>3. CASE UNCHANGED vars
    BY <1>5, <2>3
  <2>4. CASE Next
    BY <1>5, <1>8, <1>9, <2>1, <2>4, Zenon DEF Next, Arrival, Damaged
  <2> QED BY <2>2, <2>3, <2>4

\* A review is registered only while no slice holds the transaction.
LEMMA UnchangedOrUnlocked ==
  ASSUME [Next]_vars
  PROVE  reviews' = reviews \/ Unlocked
<1>1. CASE Arrival
  BY <1>1, ArrivalIs, Zenon
<1>2. CASE \E p \in Processes :
             \/ \E r \in Requests : Start(p, r)
             \/ SetBasis(p) \/ Judge(p) \/ Publish(p) \/ Write(p) \/ Fail(p)
  BY <1>2, SliceIs
<1>3. CASE UNCHANGED vars \/ Damaged
  BY <1>3, DamagedIs DEF vars
<1> QED BY <1>1, <1>2, <1>3, Zenon DEF Next, Arrival, Damaged

LEMMA StepHeard ==
  ASSUME IInv, [Next]_vars
  PROVE  Heard' /\ Kept'
<1> USE DEF IInv
<1>1. ASSUME NEW p \in Processes, Publish(p) PROVE Heard' /\ Kept'
  <2>1. PICK g : /\ results' = results \cup {g}
                 /\ \A q \in Processes : run'[q].at = "write" =>
                      run'[q].frozen = g \/ (Stage(q, "write") /\ run'[q] = run[q])
                 /\ \A q \in Processes : run'[q].at = "publish" => run'[q] = run[q]
    BY <1>1, Publication
  <2>2. UNCHANGED <<reviews, output>>
    BY <1>1 DEF Publish, Tables
  <2>3. \A f : Hears(f)' <=> Hears(f)
    BY <2>2 DEF Hears, IsFrozen, OnRecord
  <2>4. Heard'
    BY <2>1, <2>3 DEF Heard, Stage
  <2>5. Kept'
    BY <2>1, <2>2 DEF Kept, Stage
  <2> QED BY <2>4, <2>5
<1>2. CASE \A p \in Processes : ~Publish(p)
  <2>1. results' = results
    BY <1>2, OtherSteps
  <2>2. \A d \in Dimensions : output'[d] # None => output'[d] \in results
    <3>1. CASE output' = output
      BY <3>1 DEF Kept
    <3>2. ASSUME NEW p \in Processes, NEW e, Stage(p, "write"),
                 output' = [output EXCEPT ![e] = run[p].frozen]
          PROVE  \A d \in Dimensions : output'[d] # None => output'[d] \in results
      BY <3>2 DEF Kept, Typed
    <3> QED BY <1>2, <3>1, <3>2, OtherSteps
  <2>3. CASE run' = run
    <3>1. Kept'
      BY <2>1, <2>2, <2>3 DEF Kept, Stage
    <3>2. Heard'
      BY <1>2, <2>3, UnchangedOrUnlocked DEF Heard, Stage, Hears, IsFrozen, OnRecord, Unlocked
    <3> QED BY <3>1, <3>2
  <2>4. ASSUME NEW p \in Processes, NEW x, run' = [run EXCEPT ![p] = x], reviews' = reviews,
               x.at # "write", x.at = "publish" => Hears(x.frozen)
        PROVE  Heard' /\ Kept'
    <3>1. \A q \in Processes : run'[q] = IF q = p THEN x ELSE run[q]
      BY <2>4 DEF Runs
    <3>2. \A f : Hears(f)' <=> Hears(f)
      BY <2>4 DEF Hears, IsFrozen, OnRecord
    <3>3. Heard'
      BY <2>4, <3>1, <3>2 DEF Heard, Stage
    <3>4. Kept'
      BY <2>1, <2>2, <2>4, <3>1 DEF Kept, Stage
    <3> QED BY <3>3, <3>4
  <2> QED BY <1>2, <2>3, <2>4, OtherSteps
<1> QED BY <1>1, <1>2

LEMMA Inductive == Spec => []IInv
<1>1. Init => IInv
  <2>1. Init => Filed /\ Heard /\ Kept
    BY DEF Init, Filed, Heard, Kept, Stage, Idle
  <2> QED BY <2>1, InitTables, InitRuns DEF IInv
<1>2. IInv /\ [Next]_vars => IInv'
  BY StepTyped, StepRuns, StepFiled, StepHeard DEF IInv
<1> QED BY <1>1, <1>2, PTL DEF Spec

----------------------------------------------------------------------------
\* Types hold, and one slice at a time holds the immediate transaction,
\* whatever number of processes run slices and however they overlap.
THEOREM TypeCorrect == Spec => []TypeOK
<1>1. IInv => TypeOK
  BY DEF IInv, Typed, Runs, OneHolder, Filed, Stages, TypeOK
<1> QED BY <1>1, Inductive, PTL

\* The output file never shows a result that is not on record: a slice hands
\* its result on only after the insertion, a slice that fails hands on nothing,
\* and no result is ever deleted.
THEOREM OutputOnRecord == Spec => []OutputIsOnRecord
<1>1. IInv => OutputIsOnRecord
  BY DEF IInv, Kept, OutputIsOnRecord
<1> QED BY <1>1, Inductive, PTL

\* A level is published over all reviews on record at that moment for what it
\* is about: a review that does not bind fails the dimension, and none is
\* registered between the reading and the publication of a slice.
THEOREM EveryReviewHeard == Spec => LevelHearsEveryReview
<1> DEFINE Hearing ==
      \A f \in results' \ results : ~Failed(f) =>
        f.reviews = {w \in reviews' : /\ w.dimension = f.dimension /\ w.version = f.version
                                      /\ w.scopeId = f.scopeId
                                      /\ f.allowed # None => w.id \in f.allowed}
<1>1. IInv /\ [Next]_vars => [Hearing]_vars
  <2> SUFFICES ASSUME IInv, [Next]_vars PROVE Hearing
    OBVIOUS
  <2>1. ASSUME NEW p \in Processes, Publish(p) PROVE Hearing
    <3>1. PICK g : results' = results \cup {g} /\ (~Failed(g) => g.reviews = OnRecord(g))
      BY <2>1, Publication DEF IInv
    <3>2. reviews' = reviews
      BY <2>1 DEF Publish, Tables
    <3> QED BY <3>1, <3>2 DEF OnRecord
  <2>2. CASE \A p \in Processes : ~Publish(p)
    BY <2>2, OtherSteps DEF IInv
  <2> QED BY <2>1, <2>2
<1>2. []IInv /\ [][Next]_vars => [][Hearing]_vars
  <2> HIDE DEF Hearing
  <2> QED BY <1>1, PTL
<1> QED BY <1>2, Inductive, PTL DEF Spec, LevelHearsEveryReview

----------------------------------------------------------------------------
(***************************************************************************)
(* A published level stays what it was validated to be, and an             *)
(* authorization what it was given on: every table is append-only (Later), *)
(* the first import of a name and the first qualification of a claim       *)
(* decide for ever, and a claim that is judged qualified stays so on later *)
(* imports (JudgmentProofs).                                               *)
(*                                                                         *)
(* Ready is what the judgment of a slice guarantees of its frozen inputs,  *)
(* Holds and Given what then stays true of a result and an authorization   *)
(* whatever is appended, and Proved what stays true of their proofs as     *)
(* long as what is unproved is still unproved for the same reason.         *)
(***************************************************************************)

\* Every table is append-only.

\* What is on record stays on record, as it is; the claims of reviews are
\* claims, a review with an authorization was materialised from it, and a
\* person has one overlay for each version and scope.
Recorded ==
  /\ \A w \in reviews : w.claim \in Claims
  /\ \A w \in reviews : w.sidecar # None =>
       \E o \in Responses : o.candidate = w.sidecar.candidate /\ w = Materialized(o, w.sidecar)
  /\ \A o, u \in overlays :
       <<o.version, o.scopeId, o.subject>> = <<u.version, u.scopeId, u.subject>> => o = u

Later ==
  /\ Extends(imports', imports)
  /\ Len(times') \in Nat /\ Len(times) <= Len(times') /\ \A i \in 1..Len(times) : times'[i] = times[i]
  /\ Len(basisVersions') \in Nat /\ Len(basisVersions) <= Len(basisVersions')
  /\ \A i \in 1..Len(basisVersions) : basisVersions'[i] = basisVersions[i]
  /\ reviews \subseteq reviews' /\ overlays \subseteq overlays'
  /\ authorizations \subseteq authorizations'
  /\ \A c \in DOMAIN quals : c \in DOMAIN quals' /\ quals'[c] = quals[c]

LEMMA StepLater ==
  ASSUME Typed, Runs, Recorded, [Next]_vars
  PROVE  Later /\ Recorded'
<1>0. /\ Extends(imports, imports)
      /\ Len(times) \in Nat /\ Len(basisVersions) \in Nat
  BY DEF Typed, Extends
<1> DEFINE tables == <<imports, times, basisVersions, reviews, overlays, quals, authorizations>>
<1>17. ASSUME UNCHANGED <<reviews, overlays>> PROVE Recorded'
  BY <1>17 DEF Recorded, Materialized, PermissionMode
<1>1. ASSUME NEW e \in Evidence, AppendTime(e) PROVE Later /\ Recorded'
  <2>1. UNCHANGED <<imports, basisVersions, reviews, overlays, quals, authorizations>>
    BY <1>1 DEF AppendTime, Outside, workflow
  <2>2. /\ Len(times') \in Nat /\ Len(times) <= Len(times')
        /\ \A i \in 1..Len(times) : times'[i] = times[i]
    BY <1>1 DEF AppendTime, Typed
  <2> QED BY <1>0, <1>17, <2>1, <2>2 DEF Later
<1>2. ASSUME NEW f \in Files, ImportProvenance(f) PROVE Later /\ Recorded'
  <2>1. Extends(imports', imports)
    BY <1>2 DEF ImportProvenance, Typed, Extends
  <2>2. UNCHANGED <<times, basisVersions, reviews, overlays, quals, authorizations>>
    BY <1>2 DEF ImportProvenance, Outside, workflow
  <2> QED BY <1>0, <1>17, <2>1, <2>2 DEF Later
<1>3. ASSUME NEW r \in Requests, basisVersions' = Append(basisVersions, r.basis),
             UNCHANGED <<imports, times, reviews, overlays, quals, authorizations>>
      PROVE  Later /\ Recorded'
  <2>1. /\ Len(basisVersions') \in Nat /\ Len(basisVersions) <= Len(basisVersions')
        /\ \A i \in 1..Len(basisVersions) : basisVersions'[i] = basisVersions[i]
    BY <1>3 DEF Typed
  <2> QED BY <1>0, <1>3, <1>17, <2>1 DEF Later
<1>4. ASSUME NEW w \in ReviewForms, RegisterReview(w) PROVE Later /\ Recorded'
  <2>1. PICK x : x = [w EXCEPT !.mode = PermissionMode(w)]
    OBVIOUS
  <2>2. x.claim \in Claims /\ x.sidecar = None
    BY <2>1, DimensionRunAssumption
  <2>3. /\ reviews' = reviews \cup {x}
        /\ UNCHANGED <<imports, times, basisVersions, overlays, quals, authorizations>>
    BY <1>4, <2>1 DEF RegisterReview, Outside, evidence, workflow
  <2>4. \A v \in reviews' : v.sidecar # None =>
          \E u \in Responses : u.candidate = v.sidecar.candidate /\ v = Materialized(u, v.sidecar)
    BY <2>2, <2>3 DEF Recorded
  <2>5. Recorded'
    BY <2>2, <2>3, <2>4 DEF Recorded, Materialized, PermissionMode
  <2> QED BY <1>0, <2>3, <2>5 DEF Later
<1>12. ASSUME NEW o \in Responses, Materialize(o) PROVE Later /\ Recorded'
  <2>1. PICK a \in authorizations : /\ a.candidate = o.candidate
                                    /\ reviews' = reviews \cup {Materialized(o, a)}
    BY <1>12 DEF Materialize
  <2>2. UNCHANGED <<imports, times, basisVersions, overlays, quals, authorizations>>
    BY <1>12 DEF Materialize, Outside, evidence, workflow
  <2>3. PICK x : x = Materialized(o, a)
    OBVIOUS
  <2>4. x.claim \in Claims /\ x.sidecar = a
    BY <2>3, MaterializedIs, DimensionRunAssumption
  <2>5. \A w \in reviews' : w.sidecar # None =>
          \E u \in Responses : u.candidate = w.sidecar.candidate /\ w = Materialized(u, w.sidecar)
    BY <2>1, <2>3, <2>4 DEF Recorded
  <2>6. Recorded'
    BY <2>1, <2>2, <2>3, <2>4, <2>5 DEF Recorded, Materialized, PermissionMode
  <2> QED BY <1>0, <2>1, <2>2, <2>6 DEF Later
<1>5. ASSUME NEW o \in OverlayForms, RegisterOverlay(o) PROVE Later /\ Recorded'
  <2>1. UNCHANGED <<imports, times, basisVersions, reviews, quals, authorizations>>
    BY <1>5 DEF RegisterOverlay, Outside, workflow
  <2>2. /\ overlays' = overlays \cup {o}
        /\ \A v \in overlays :
             <<v.version, v.scopeId, v.subject>> # <<o.version, o.scopeId, o.subject>>
    BY <1>5 DEF RegisterOverlay
  <2>3. \A v, u \in overlays' :
          <<v.version, v.scopeId, v.subject>> = <<u.version, u.scopeId, u.subject>> => v = u
    BY <2>2 DEF Recorded
  <2>4. Recorded'
    BY <2>1, <2>3 DEF Recorded, Materialized, PermissionMode
  <2> QED BY <1>0, <2>1, <2>2, <2>4 DEF Later
<1>15. ASSUME NEW c, NEW row, quals' = Stored(c, row), c \in DOMAIN quals => quals[c] = row
       PROVE  \A d \in DOMAIN quals : d \in DOMAIN quals' /\ quals'[d] = quals[d]
  BY <1>15 DEF Stored
<1>6. ASSUME NEW c \in Claims, NEW v, NEW t, NEW n, StoreQualification(c, v, t, n)
      PROVE  Later /\ Recorded'
  <2>1. PICK row : c \notin DOMAIN quals /\ quals' = Stored(c, row)
    BY <1>6 DEF StoreQualification
  <2>2. UNCHANGED <<imports, times, basisVersions, reviews, overlays, authorizations>>
    BY <1>6 DEF StoreQualification, Outside, workflow
  <2>3. \A d \in DOMAIN quals : d \in DOMAIN quals' /\ quals'[d] = quals[d]
    BY <1>15, <2>1
  <2> QED BY <1>0, <1>17, <2>2, <2>3 DEF Later
<1>13. ASSUME NEW c \in Candidates, NEW t, NEW n, Authorize(c, t, n) PROVE Later /\ Recorded'
  <2>1. PICK a, row : /\ authorizations' = authorizations \cup {a}
                      /\ quals' = Stored(c.claim, row)
                      /\ c.claim \in DOMAIN quals => quals[c.claim] = row
    BY <1>13, GrantIs
  <2>2. UNCHANGED <<imports, times, basisVersions, reviews, overlays>>
    BY <1>13 DEF Authorize
  <2>3. \A d \in DOMAIN quals : d \in DOMAIN quals' /\ quals'[d] = quals[d]
    BY <1>15, <2>1
  <2> QED BY <1>0, <1>17, <2>1, <2>2, <2>3 DEF Later
<1>7. ASSUME UNCHANGED tables PROVE Later /\ Recorded'
  BY <1>0, <1>7, <1>17 DEF Later
<1>8. ASSUME NEW p \in Processes, SetBasis(p) PROVE Later /\ Recorded'
  <2>1. run[p].request \in Requests
    BY <1>8 DEF SetBasis, Stage, Runs
  <2> QED BY <1>3, <1>8, <2>1 DEF SetBasis, Tables, evidence, workflow
<1>9. ASSUME NEW r \in Requests, ReviseBasis(r.basis) PROVE Later /\ Recorded'
  BY <1>3, <1>9 DEF ReviseBasis, Outside, evidence, workflow
<1>10. CASE ImportBody
  BY <1>7, <1>10 DEF ImportBody, Outside, workflow
<1>14. CASE Damaged \/ UNCHANGED vars
  BY <1>7, <1>14, DamagedIs DEF evidence, workflow, vars
<1>11. ASSUME NEW p \in Processes,
              (\E r \in Requests : Start(p, r)) \/ Judge(p) \/ Publish(p) \/ Write(p) \/ Fail(p)
       PROVE  Later /\ Recorded'
  <2>1. UNCHANGED <<evidence, reviews, workflow, basisVersions>>
    BY <1>11 DEF Start, Judge, Publish, Write, Fail, Tables
  <2> QED BY <1>7, <2>1 DEF evidence, workflow
<1>16. CASE Next
  BY <1>1, <1>2, <1>4, <1>5, <1>6, <1>8, <1>9, <1>10, <1>11, <1>12, <1>13, <1>14, <1>16, Zenon
    DEF Next, Damaged
<1> QED BY <1>14, <1>16

----------------------------------------------------------------------------
\* What is guaranteed of frozen inputs and of authorizations.

\* The judgment of a view again, with what is proved by now.
Again(v, b) ==
  QualifyClaim(imports, TRUE, Source, EvidenceAt(v.revision), Content[v.claim],
               {b.subject} \cup VerifiedAliases(imports, b), v.bodies)

ViewReady(v) ==
  /\ v.claim \in Claims /\ v.revision \in 0..Len(times)
  /\ v.qualification.status = "qualified" /\ v.outcome.status = "qualified"

ViewHeld(v, b) ==
  v.claim \in DOMAIN quals /\ quals[v.claim] = v.qualification /\ Again(v, b) = v.outcome

Ready(f) ==
  /\ IsFrozen(f) /\ f.version \in Nat \ {0}
  /\ f.rejected = {} =>
       /\ \A w \in f.reviews : /\ w.subject = f.basis.subject /\ w.version = f.version
                              /\ \E v \in f.views : v.claim = w.claim
       /\ \A v \in f.views : ViewReady(v)
       /\ \A o \in f.overlays : BundleHolds(OverlayBundle(o.record))

Holds(f) ==
  /\ f.approved
  /\ f.version \in 1..Len(basisVersions) /\ basisVersions[f.version] = f.basis
  /\ ResolvesTo(imports, f.basis.subjectRef, f.basis.subject)
  /\ VerifyBundle(f.unit) /\ VerifyBundle(f.applicability)
  /\ \A o \in f.overlays :
       o.record \in overlays /\ ResolveBundle(OverlayBundle(o.record)) = o.proof
  /\ f.reviews \subseteq reviews
  /\ \A v \in f.views : ViewHeld(v, f.basis)
  /\ \A a \in Sidecars(f) : a.view.basis = f.proofs

\* The basis an authorization was given for.
Basis(a) == basisVersions[a.candidate.version]

Given(a) ==
  /\ a.candidate.version \in 1..Len(basisVersions) /\ a.view.claim = a.candidate.claim
  /\ ResolvesTo(imports, Basis(a).subjectRef, Basis(a).subject)
  /\ ViewReady(a.view) /\ ViewHeld(a.view, Basis(a))
  /\ \A i \in DOMAIN a.inputs : BundleHolds(i) /\ ResolveBundle(i) = a.inputs[i]

\* A view with its proofs as they are found now.
Shown(v, b, proof) ==
  [claim |-> v.claim, revision |-> v.revision, bodies |-> v.bodies,
   qualification |-> v.qualification, outcome |-> v.outcome,
   caveat       |-> AliasCaveat(imports, Source, Content[v.claim], b, proof.names),
   basis        |-> proof,
   document     |-> DocumentProofFor(imports, Source, proof.names),
   zone         |-> TimezoneRule(imports, Source, EvidenceAt(v.revision)),
   registration |-> RegistrationProof(EvidenceAt(v.revision))]

Proved(b, proofs, views) ==
  /\ proofs # None /\ BasisProof(imports, b) = proofs
  /\ \A v \in views : v = Shown(v, b, proofs)

TraceInv ==
  /\ IInv /\ Recorded
  /\ \A p \in Processes : Stage(p, "publish") =>
       Ready(run[p].frozen) /\ run[p].frozen.broken = FALSE
  /\ \A f \in results : ~Failed(f) =>
       /\ Ready(f) /\ Holds(f)
       /\ StillUnproved(f.basis, f.proofs, f.views) => Proved(f.basis, f.proofs, f.views)
  /\ \A a \in authorizations :
       /\ Given(a)
       /\ StillUnproved(Basis(a), a.view.basis, {a.view}) => Proved(Basis(a), a.view.basis, {a.view})

----------------------------------------------------------------------------
\* Nothing that is appended takes them away.

LEMMA EvidenceStays ==
  ASSUME Typed, Later, NEW revision \in 0..Len(times)
  PROVE  EvidenceAt(revision)' = EvidenceAt(revision)
<1>1. Len(times) \in Nat
  BY DEF Typed
<1>2. \A i \in 1..Len(times) : times'[i] = times[i]
  BY DEF Later
<1> QED BY <1>1, <1>2 DEF EvidenceAt

LEMMA EvidenceIndexed ==
  ASSUME Typed, NEW revision \in 0..Len(times)
  PROVE  Indexed(Source, EvidenceAt(revision))
<1> DEFINE e == EvidenceAt(revision)
<1>1. times \in Seq(Evidence)
  BY DEF Typed
<1>2. CASE revision > 0
  <2>1. times[revision] \in Evidence /\ e = times[revision]
    BY <1>1, <1>2 DEF EvidenceAt
  <2> QED BY <2>1, DimensionRunAssumption DEF Indexed
<1>3. CASE ~(revision > 0) /\ Source.column # None
  <2>1. e \in Evidence \cup ({Source.column} \ {None})
    BY <1>3 DEF EvidenceAt
  <2> QED BY <2>1, DimensionRunAssumption DEF Indexed
<1>4. CASE ~(revision > 0) /\ Source.column = None
  BY <1>4, DimensionRunAssumption DEF Indexed, EvidenceAt
<1> QED BY <1>2, <1>3, <1>4

LEMMA BundleStays ==
  ASSUME Later, NEW bundle, BundleHolds(bundle)
  PROVE  BundleHolds(bundle)' /\ ResolveBundle(bundle)' = ResolveBundle(bundle)
<1>1. Extends(imports', imports) /\ BundleHolds(bundle)
  BY DEF Later
<1>2. \A e \in bundle : Resolve(imports', e[1]) = Resolve(imports, e[1])
  BY <1>1, ResolveStable DEF BundleHolds, ResolvesTo
<1>3. BundleHolds(bundle)'
  <2>1. {Resolve(imports', e[1]) : e \in bundle} = {Resolve(imports, e[1]) : e \in bundle}
    BY <1>2
  <2> QED BY <1>1, <1>2, <2>1 DEF BundleHolds, ResolvesTo
<1> QED BY <1>1, <1>2, <1>3 DEF ResolveBundle

LEMMA VerifiedStays ==
  ASSUME Later, NEW saved, VerifyBundle(saved)
  PROVE  VerifyBundle(saved)'
<1> SUFFICES ASSUME saved # None PROVE ResolveBundle(DOMAIN saved)' = saved
  BY DEF VerifyBundle
<1>1. PICK bundle : bundle = DOMAIN saved
  OBVIOUS
<1>2. ResolveBundle(bundle) = saved
  BY <1>1 DEF VerifyBundle
<1>3. BundleHolds(bundle)
  BY <1>2 DEF ResolveBundle
<1>4. ResolveBundle(bundle)' = saved
  BY <1>2, <1>3, BundleStays
<1> QED BY <1>1, <1>4 DEF ResolveBundle, BundleHolds

LEMMA AgainStays ==
  ASSUME Typed, Later, NEW v, NEW b, v.revision \in 0..Len(times),
         Again(v, b).status = "qualified"
  PROVE  Again(v, b)' = Again(v, b)
<1> DEFINE e == EvidenceAt(v.revision)
           names == {b.subject} \cup VerifiedAliases(imports, b)
           more == {b.subject} \cup VerifiedAliases(imports', b)
           c == Content[v.claim]
<1>1. EvidenceAt(v.revision)' = e
  BY EvidenceStays
<1>2. Extends(imports', imports)
  BY DEF Later
<1>3. names \subseteq more
  BY <1>2, NamesGrow
<1>4. Indexed(Source, e)
  BY EvidenceIndexed
<1>5. PICK yes : yes = TRUE
  OBVIOUS
<1>6. QualifyClaim(imports, yes, Source, e, c, names, v.bodies).status = "qualified"
  BY <1>5 DEF Again
<1> HIDE DEF e, names, more, c
<1>7. IndependenceJudgment(v.bodies) = "ok" /\ ~IsGap(yes, Source, c)
  BY <1>5, <1>6, QualifiedIsNoGap
<1>8. QualifyClaim(imports', yes, Source, e, c, more, v.bodies)
        = QualifyClaim(imports, yes, Source, e, c, names, v.bodies)
  BY <1>2, <1>3, <1>4, <1>6, <1>7, QualifiedStays
<1>9. Again(v, b)' = QualifyClaim(imports', yes, Source, e, c, more, v.bodies)
  BY <1>1, <1>5 DEF Again, more, c
<1> QED BY <1>5, <1>8, <1>9 DEF Again, e, names, c

LEMMA ViewStays ==
  ASSUME Typed, Later, NEW v, ViewReady(v)
  PROVE  ViewReady(v)' /\ \A b : ViewHeld(v, b) => ViewHeld(v, b)'
<1>1. Len(times) \in Nat /\ Len(times') \in Nat /\ Len(times) <= Len(times')
  BY DEF Typed, Later
<1>2. ViewReady(v)'
  BY <1>1 DEF ViewReady
<1>3. ASSUME NEW b, ViewHeld(v, b) PROVE ViewHeld(v, b)'
  <2>1. v.revision \in 0..Len(times) /\ Again(v, b).status = "qualified"
    BY <1>3 DEF ViewReady, ViewHeld
  <2>2. Again(v, b)' = v.outcome
    BY <1>3, <2>1, AgainStays DEF ViewHeld
  <2>3. v.claim \in DOMAIN quals' /\ quals'[v.claim] = v.qualification
    BY <1>3 DEF ViewHeld, Later
  <2> QED BY <2>2, <2>3 DEF ViewHeld
<1> QED BY <1>2, <1>3

LEMMA ReadyStays ==
  ASSUME Typed, Later, NEW f, Ready(f)
  PROVE  Ready(f)'
<1>1. ASSUME NEW v, ViewReady(v) PROVE ViewReady(v)'
  BY <1>1, ViewStays
<1>2. ASSUME NEW o, BundleHolds(OverlayBundle(o.record)) PROVE BundleHolds(OverlayBundle(o.record))'
  <2>1. PICK bundle : bundle = OverlayBundle(o.record)
    OBVIOUS
  <2>2. BundleHolds(bundle)'
    BY <1>2, <2>1, BundleStays
  <2> QED BY <2>1, <2>2 DEF OverlayBundle
<1> QED BY <1>1, <1>2 DEF Ready, IsFrozen

LEMMA HoldsStays ==
  ASSUME Typed, Later, NEW f, Ready(f), f.rejected = {}, Holds(f)
  PROVE  Holds(f)'
<1>1. Extends(imports', imports)
  BY DEF Later
<1>2. f.version \in 1..Len(basisVersions') /\ basisVersions'[f.version] = f.basis
  BY DEF Typed, Later, Holds
<1>3. ResolvesTo(imports', f.basis.subjectRef, f.basis.subject)
  BY <1>1, BasisStable DEF Holds
<1>4. VerifyBundle(f.unit)' /\ VerifyBundle(f.applicability)'
  BY VerifiedStays DEF Holds
<1>5. ASSUME NEW o \in f.overlays
      PROVE  o.record \in overlays' /\ ResolveBundle(OverlayBundle(o.record))' = o.proof
  <2>1. PICK bundle : bundle = OverlayBundle(o.record)
    OBVIOUS
  <2>2. BundleHolds(bundle) /\ ResolveBundle(bundle) = o.proof /\ o.record \in overlays
    BY <2>1 DEF Ready, Holds
  <2>3. ResolveBundle(bundle)' = o.proof
    BY <2>2, BundleStays
  <2> QED BY <2>1, <2>2, <2>3 DEF Later, OverlayBundle
<1>6. ASSUME NEW v \in f.views PROVE ViewHeld(v, f.basis)'
  <2>1. ViewReady(v) /\ ViewHeld(v, f.basis)
    BY DEF Ready, Holds
  <2> QED BY <2>1, ViewStays
<1>7. f.approved /\ f.reviews \subseteq reviews'
  BY DEF Holds, Later
<1>8. (\A a \in Sidecars(f) : a.view.basis = f.proofs)'
  BY DEF Holds, Sidecars
<1> QED BY <1>2, <1>3, <1>4, <1>5, <1>6, <1>7, <1>8 DEF Holds

LEMMA GivenStays ==
  ASSUME Typed, Later, NEW a, Given(a)
  PROVE  Given(a)' /\ Basis(a)' = Basis(a)
<1>1. PICK b : b = Basis(a)
  OBVIOUS
<1>2. Extends(imports', imports)
  BY DEF Later
<1>3. a.candidate.version \in 1..Len(basisVersions') /\ Basis(a)' = b
  BY <1>1 DEF Typed, Later, Given, Basis
<1>4. ResolvesTo(imports', b.subjectRef, b.subject)
  BY <1>1, <1>2, BasisStable DEF Given
<1>5. ViewReady(a.view)' /\ ViewHeld(a.view, b)'
  <2>1. PICK v : v = a.view
    OBVIOUS
  <2>2. ViewReady(v) /\ ViewHeld(v, b)
    BY <1>1, <2>1 DEF Given
  <2>3. ViewReady(v)' /\ ViewHeld(v, b)'
    BY <2>2, ViewStays
  <2> QED BY <2>1, <2>3
<1>6. ASSUME NEW i \in DOMAIN a.inputs
      PROVE  BundleHolds(i)' /\ ResolveBundle(i)' = a.inputs[i]
  BY BundleStays DEF Given
<1>7. ViewHeld(a.view, Basis(a))'
  BY <1>3, <1>5 DEF ViewHeld, Again
<1> QED BY <1>1, <1>3, <1>4, <1>5, <1>6, <1>7 DEF Given

----------------------------------------------------------------------------
\* Proofs and their gaps.

\* What is unproved now was unproved before.
LEMMA WasUnproved ==
  ASSUME Typed, Later, NEW b, NEW proofs, NEW views,
         \A v \in views : v.revision \in 0..Len(times), StillUnproved(b, proofs, views)'
  PROVE  StillUnproved(b, proofs, views)
<1>1. Extends(imports', imports)
  BY DEF Later
<1>2. proofs.aliases = None => AliasesProof(imports, b) = None
  BY <1>1, AliasesStable DEF StillUnproved
<1>3. ASSUME NEW error, StillMissing(error)' PROVE StillMissing(error)
  BY <1>1, <1>3 DEF StillMissing, Unsealed, Extends
<1>4. ASSUME NEW v \in views, v.document = None
      PROVE  DocumentProofFor(imports, Source, v.basis.names) = None
  <2>1. DocumentProofFor(imports', Source, v.basis.names) = None
    BY <1>4 DEF StillUnproved
  <2>2. v.basis.names \subseteq v.basis.names
    OBVIOUS
  <2> QED BY <1>1, <2>1, <2>2, DocumentStable
<1>5. ASSUME NEW v \in views, v.zone = None
      PROVE  TimezoneRule(imports, Source, EvidenceAt(v.revision)) = None
  <2>1. EvidenceAt(v.revision)' = EvidenceAt(v.revision)
    BY EvidenceStays
  <2>2. TimezoneRule(imports', Source, EvidenceAt(v.revision)) = None
    BY <1>5, <2>1 DEF StillUnproved
  <2> QED BY <1>1, <2>2, ZoneStable
<1>6. StillMissing(proofs.error)
  <2>1. PICK error : error = proofs.error
    OBVIOUS
  <2>2. StillMissing(error)'
    BY <2>1 DEF StillUnproved, StillMissing
  <2> QED BY <1>3, <2>1, <2>2
<1>7. ASSUME NEW v \in views PROVE StillMissing(v.caveat)
  <2>1. PICK error : error = v.caveat
    OBVIOUS
  <2>2. StillMissing(error)'
    BY <2>1 DEF StillUnproved, StillMissing
  <2> QED BY <1>3, <2>1, <2>2
<1> QED BY <1>2, <1>4, <1>5, <1>6, <1>7 DEF StillUnproved

LEMMA CaveatStable ==
  ASSUME NEW early, NEW late, Extends(late, early), NEW s, NEW c, NEW b, NEW names,
         AliasCaveat(early, s, c, b, names).why = "unsealed" =>
           Unsealed(late, AliasCaveat(early, s, c, b, names).ref)
  PROVE  AliasCaveat(late, s, c, b, names) = AliasCaveat(early, s, c, b, names)
<1>1. CASE \/ FailedCapture(s) \/ s.family \in FirstPartyFamilies
           \/ (c.mentions \cup {c.scope}) \cap names = {}
  BY <1>1 DEF AliasCaveat
<1>2. CASE ~(\/ FailedCapture(s) \/ s.family \in FirstPartyFamilies
             \/ (c.mentions \cup {c.scope}) \cap names = {})
  <2>1. AliasCaveat(early, s, c, b, names) = AliasesError(early, b)
    BY <1>2 DEF AliasCaveat
  <2>2. AliasCaveat(late, s, c, b, names) = AliasesError(late, b)
    BY <1>2 DEF AliasCaveat
  <2> QED BY <2>1, <2>2, ErrorStable
<1> QED BY <1>1, <1>2

LEMMA ProvedStays ==
  ASSUME Typed, Later, NEW b, NEW proofs, NEW views,
         \A v \in views : v.revision \in 0..Len(times),
         ResolvesTo(imports, b.subjectRef, b.subject),
         Proved(b, proofs, views), StillUnproved(b, proofs, views)'
  PROVE  Proved(b, proofs, views)'
<1>1. Extends(imports', imports)
  BY DEF Later
<1>2. ResolvesTo(imports', b.subjectRef, b.subject)
  BY <1>1, BasisStable
<1>3. proofs = [subject |-> Resolve(imports, b.subjectRef), aliases |-> AliasesProof(imports, b),
                error |-> IF b.aliases = {} THEN NoError ELSE AliasesError(imports, b),
                names |-> {b.subject} \cup VerifiedAliases(imports, b)]
  BY DEF Proved, BasisProof
<1>4. AliasesProof(imports', b) = AliasesProof(imports, b)
  <2>1. CASE AliasesProof(imports, b) # None
    BY <1>1, <2>1, AliasesStable
  <2>2. CASE AliasesProof(imports, b) = None
    BY <1>3, <2>2 DEF StillUnproved
  <2> QED BY <2>1, <2>2
<1>5. Resolve(imports', b.subjectRef) = Resolve(imports, b.subjectRef)
  BY <1>1, ResolveStable DEF ResolvesTo
<1>6. b.aliases # {} => AliasesError(imports', b) = AliasesError(imports, b)
  <2> SUFFICES ASSUME b.aliases # {} PROVE AliasesError(imports', b) = AliasesError(imports, b)
    OBVIOUS
  <2>1. proofs.error = AliasesError(imports, b)
    BY <1>3
  <2>2. proofs.error.why = "unsealed" => Unsealed(imports', proofs.error.ref)
    BY DEF StillUnproved, StillMissing
  <2> QED BY <1>1, <2>1, <2>2, ErrorStable
<1>7. BasisProof(imports', b) = proofs
  <2>1. VerifiedAliases(imports', b) = VerifiedAliases(imports, b)
    BY <1>4 DEF VerifiedAliases
  <2> QED BY <1>2, <1>3, <1>4, <1>5, <1>6, <2>1 DEF BasisProof
<1>8. ASSUME NEW v \in views PROVE v = Shown(v, b, proofs)'
  <2> DEFINE e == EvidenceAt(v.revision)
  <2>1. v = Shown(v, b, proofs)
    BY DEF Proved
  <2>2. EvidenceAt(v.revision)' = e
    BY EvidenceStays
  <2>3. /\ v.basis = proofs /\ v.document = DocumentProofFor(imports, Source, proofs.names)
        /\ v.zone = TimezoneRule(imports, Source, e)
        /\ v.caveat = AliasCaveat(imports, Source, Content[v.claim], b, proofs.names)
    BY <2>1 DEF Shown
  <2>4. DocumentProofFor(imports', Source, proofs.names) = v.document
    <3>1. CASE v.document = None
      BY <2>3, <3>1 DEF StillUnproved
    <3>2. CASE v.document # None
      <4>1. proofs.names \subseteq proofs.names
        OBVIOUS
      <4> QED BY <1>1, <2>3, <3>2, <4>1, DocumentStable
    <3> QED BY <3>1, <3>2
  <2> HIDE DEF e
  <2>5. TimezoneRule(imports', Source, e) = v.zone
    <3>1. CASE v.zone = None
      BY <2>2, <3>1 DEF StillUnproved
    <3>2. CASE v.zone # None
      BY <1>1, <2>3, <3>2, ZoneStable
    <3> QED BY <3>1, <3>2
  <2>6. AliasCaveat(imports', Source, Content[v.claim], b, proofs.names) = v.caveat
    <3>1. v.caveat.why = "unsealed" => Unsealed(imports', v.caveat.ref)
      BY DEF StillUnproved, StillMissing
    <3> QED BY <1>1, <2>3, <3>1, CaveatStable
  <2>7. Shown(v, b, proofs)' = Shown(v, b, proofs)
    BY <2>2, <2>3, <2>4, <2>5, <2>6 DEF Shown, RegistrationProof, e
  <2> QED BY <2>1, <2>7
<1>9. proofs # None
  BY DEF Proved
<1> QED BY <1>7, <1>8, <1>9 DEF Proved

\* A view that holds is held and shown with its proofs, and the other way round.
LEMMA HeldAndShown ==
  ASSUME Typed, NEW v, NEW b, NEW proof, proof = BasisProof(imports, b), proof # None,
         v.outcome.status = "qualified", ViewHolds(v, b, proof)
  PROVE  ViewHeld(v, b) /\ v = Shown(v, b, proof)
<1> DEFINE e == EvidenceAt(v.revision)
           c == Content[v.claim]
<1>1. proof.names = {b.subject} \cup VerifiedAliases(imports, b)
  BY DEF BasisProof
<1>2. /\ v.claim \in DOMAIN quals
      /\ v = [claim |-> v.claim, revision |-> v.revision, bodies |-> v.bodies,
              qualification |-> quals[v.claim],
              outcome |-> QualifyClaim(imports, readable, Source, e, c, proof.names, v.bodies),
              caveat |-> AliasCaveat(imports, Source, c, b, proof.names),
              basis |-> proof, document |-> DocumentProofFor(imports, Source, proof.names),
              zone |-> TimezoneRule(imports, Source, e), registration |-> RegistrationProof(e)]
  BY DEF ViewHolds, View, Outcome
<1> HIDE DEF e, c
<1>3. /\ v.qualification = quals[v.claim]
      /\ v.outcome = QualifyClaim(imports, readable, Source, e, c, proof.names, v.bodies)
      /\ v.caveat = AliasCaveat(imports, Source, c, b, proof.names)
      /\ v.basis = proof /\ v.document = DocumentProofFor(imports, Source, proof.names)
      /\ v.zone = TimezoneRule(imports, Source, e) /\ v.registration = RegistrationProof(e)
  BY <1>2
<1>4. readable = TRUE
  <2>1. ASSUME ~readable PROVE FALSE
    <3>1. IsGap(readable, Source, c)
      BY <2>1 DEF IsGap
    <3>2. v.outcome.status = "gap"
      BY <1>3, <3>1 DEF QualifyClaim
    <3> QED BY <3>2
  <2> QED BY <2>1 DEF Typed
<1>5. Again(v, b) = v.outcome
  BY <1>1, <1>3, <1>4 DEF Again, e, c
<1>6. v = Shown(v, b, proof)
  BY <1>2, <1>3 DEF Shown, e, c
<1> QED BY <1>2, <1>3, <1>5, <1>6 DEF ViewHeld

LEMMA ShownHolds ==
  ASSUME Typed, readable, NEW v, NEW b, NEW proof, proof = BasisProof(imports, b), proof # None,
         ViewReady(v), ViewHeld(v, b), v = Shown(v, b, proof)
  PROVE  ViewHolds(v, b, proof)
<1> DEFINE e == EvidenceAt(v.revision)
<1>1. proof.names = {b.subject} \cup VerifiedAliases(imports, b)
  BY DEF BasisProof
<1>2. v.revision <= Len(times)
  BY DEF ViewReady, Typed
<1>3. readable = TRUE
  BY DEF Typed
<1>4. /\ v.claim \in DOMAIN quals /\ quals[v.claim] = v.qualification
      /\ Outcome(v.claim, v.revision, v.bodies, proof.names) = v.outcome
  BY <1>1, <1>3 DEF ViewHeld, Again, Outcome
<1> HIDE DEF e
<1>5. View(v.claim, quals[v.claim], v.revision, v.bodies, b, proof) = Shown(v, b, proof)
  BY <1>4 DEF View, Shown, e
<1> QED BY <1>2, <1>4, <1>5 DEF ViewHolds

----------------------------------------------------------------------------
\* The judgment of a slice, and an authorization.

\* What it freezes is ready to be published, if nothing was rejected.
LEMMA JudgedReady ==
  ASSUME Typed, Recorded, NEW r, NEW version \in DOMAIN basisVersions, NEW f,
         f = Frozen(r, version)
  PROVE  Ready(f) /\ f.broken = FALSE
<1> DEFINE proof == BasisProof(imports, basisVersions[version])
           bound == {w \in Selected(r, version) : Binds(r, version, proof, w)}
           view(w) == View(w.claim, quals[w.claim], Len(times), bodies, r.basis, proof)
<1>0. version \in Nat \ {0}
  BY DEF Typed
<1>1. /\ IsFrozen(f) /\ f.broken = FALSE /\ f.basis = r.basis /\ f.reviews = bound
      /\ f.version = version /\ f.views = {view(w) : w \in bound}
      /\ f.overlays = IF r.dimension = "TMRL"
                      THEN FrozenOverlays(version, ScopeId(r), UNION {w.people : w \in bound})
                      ELSE {}
  BY DEF Frozen, IsFrozen
<1>2. ASSUME NEW w \in bound
      PROVE  /\ w \in reviews /\ w.claim \in Claims /\ w.subject = r.basis.subject
             /\ w.version = version /\ quals[w.claim].status = "qualified"
             /\ Requalified(view(w))
             /\ r.dimension = "TMRL" => OverlaysResolve(version, ScopeId(r), w.people)
  BY DEF Selected, Binds, Recorded
<1>6. ASSUME NEW w
      PROVE  /\ view(w).claim = w.claim /\ view(w).revision = Len(times)
             /\ view(w).qualification = quals[w.claim]
  BY DEF View
<1> HIDE DEF bound, proof, view
<1>3. ASSUME NEW w \in f.reviews
      PROVE  /\ w.subject = f.basis.subject /\ w.version = f.version
             /\ \E v \in f.views : v.claim = w.claim
  BY <1>1, <1>2, <1>3, <1>6
<1>4. ASSUME NEW v \in f.views PROVE ViewReady(v)
  <2>1. PICK w \in bound : v = view(w)
    BY <1>1, <1>4
  <2>2. v.claim = w.claim /\ v.revision = Len(times) /\ v.qualification = quals[w.claim]
    BY <1>6, <2>1
  <2>3. v.outcome.status = "qualified"
    BY <1>2, <2>1 DEF Requalified
  <2>4. Len(times) \in 0..Len(times)
    BY DEF Typed
  <2> QED BY <1>2, <2>2, <2>3, <2>4 DEF ViewReady
<1>5. ASSUME NEW o \in f.overlays PROVE BundleHolds(OverlayBundle(o.record))
  <2>1. r.dimension = "TMRL"
    BY <1>1, <1>5
  <2>2. PICK w \in bound : \E person \in w.people : o.record \in OverlayOf(version, ScopeId(r), person)
    BY <1>1, <1>5, <2>1 DEF FrozenOverlays
  <2>3. PICK person \in w.people : o.record \in OverlayOf(version, ScopeId(r), person)
    BY <2>2
  <2>4. PICK u \in OverlayOf(version, ScopeId(r), person) : BundleHolds(OverlayBundle(u))
    BY <1>2, <2>1 DEF OverlaysResolve
  <2>5. u = o.record
    BY <2>3 DEF OverlayOf, Recorded
  <2> QED BY <2>4, <2>5
<1> QED BY <1>0, <1>1, <1>3, <1>4, <1>5 DEF Ready

\* What validates holds and is proved.
LEMMA Validated ==
  ASSUME IInv, NEW f, Ready(f), f.rejected = {}, Validates(f)
  PROVE  Holds(f) /\ Proved(f.basis, f.proofs, f.views)
<1> DEFINE proof == BasisProof(imports, f.basis)
<1>1. /\ f.approved
      /\ f.version <= Len(basisVersions) /\ basisVersions[f.version] = f.basis
      /\ proof # None /\ proof = f.proofs
      /\ VerifyBundle(f.unit) /\ VerifyBundle(f.applicability)
      /\ \A o \in f.overlays :
           o.record \in overlays /\ ResolveBundle(OverlayBundle(o.record)) = o.proof
      /\ f.reviews \subseteq reviews
      /\ \A w \in f.reviews : w.sidecar # None => Authorized(w)
      /\ \A v \in f.views : ViewHolds(v, f.basis, proof)
  BY DEF Validates
<1>2. ResolvesTo(imports, f.basis.subjectRef, f.basis.subject)
  BY <1>1 DEF BasisProof
<1>0. Typed
  BY DEF IInv
<1>3. ASSUME NEW v \in f.views PROVE ViewHeld(v, f.basis) /\ v = Shown(v, f.basis, f.proofs)
  <2>1. v.outcome.status = "qualified"
    BY DEF Ready, ViewReady
  <2> QED BY <1>0, <1>1, <2>1, HeldAndShown
<1>4. f.version \in 1..Len(basisVersions)
  BY <1>0, <1>1 DEF Ready, Typed
<1>5. ASSUME NEW a \in Sidecars(f) PROVE a.view.basis = f.proofs
  <2>1. PICK w \in f.reviews : w.sidecar # None /\ w.sidecar = a
    BY DEF Sidecars
  <2>2. Trusted(a) /\ \E o \in Responses : o.candidate = a.candidate /\ w = Materialized(o, a)
    BY <1>1, <2>1 DEF Authorized
  <2>3. w.version = a.candidate.version
    BY <2>2, MaterializedIs
  <2>4. w.version = f.version
    BY DEF Ready
  <2>5. BasisProof(imports, basisVersions[a.candidate.version]) = a.view.basis
    BY <2>2 DEF Trusted
  <2> QED BY <1>1, <2>3, <2>4, <2>5
<1> HIDE DEF proof
<1>6. Holds(f)
  BY <1>1, <1>2, <1>3, <1>4, <1>5 DEF Holds
<1>7. Proved(f.basis, f.proofs, f.views)
  BY <1>1, <1>3 DEF Proved, proof
<1> QED BY <1>6, <1>7

\* What is given is given on what is proved.
LEMMA GrantedGiven ==
  ASSUME Typed, NEW c \in Candidates, NEW t \in 0..Len(times), NEW n, Authorize(c, t, n)
  PROVE  \E a : /\ authorizations' = authorizations \cup {a}
                /\ Given(a)' /\ Proved(Basis(a), a.view.basis, {a.view})'
<1>1. PICK a, b, proof, row :
        /\ authorizations' = authorizations \cup {a} /\ a.candidate = c
        /\ c.version \in DOMAIN basisVersions /\ b = basisVersions[c.version]
        /\ proof = BasisProof(imports, b) /\ proof # None
        /\ a.view = View(c.claim, row, t, n, b, proof)
        /\ row.status = "qualified" /\ row.status = Outcome(c.claim, t, n, proof.names).status
        /\ quals' = Stored(c.claim, row)
        /\ \A i \in DOMAIN a.inputs : BundleHolds(i) /\ ResolveBundle(i) = a.inputs[i]
  BY GrantIs
<1>2. UNCHANGED <<readable, imports, basisVersions, times>>
  BY DEF Authorize
<1>3. PICK v : v = a.view
  OBVIOUS
<1>4. /\ v = [claim |-> c.claim, revision |-> t, bodies |-> n, qualification |-> row,
              outcome |-> Outcome(c.claim, t, n, proof.names),
              caveat |-> AliasCaveat(imports, Source, Content[c.claim], b, proof.names),
              basis |-> proof, document |-> DocumentProofFor(imports, Source, proof.names),
              zone |-> TimezoneRule(imports, Source, EvidenceAt(t)),
              registration |-> RegistrationProof(EvidenceAt(t))]
  BY <1>1, <1>3 DEF View
<1>5. /\ v.claim = c.claim /\ v.revision = t /\ v.bodies = n /\ v.qualification = row
      /\ v.outcome = Outcome(c.claim, t, n, proof.names) /\ v.basis = proof
      /\ v.caveat = AliasCaveat(imports, Source, Content[c.claim], b, proof.names)
      /\ v.document = DocumentProofFor(imports, Source, proof.names)
      /\ v.zone = TimezoneRule(imports, Source, EvidenceAt(t))
      /\ v.registration = RegistrationProof(EvidenceAt(t))
  BY <1>4
<1>6. v.outcome.status = "qualified"
  BY <1>1, <1>5
<1>7. readable = TRUE
  <2>1. ASSUME ~readable PROVE FALSE
    <3>1. IsGap(readable, Source, Content[c.claim])
      BY <2>1 DEF IsGap
    <3>2. v.outcome.status = "gap"
      BY <1>5, <3>1 DEF Outcome, QualifyClaim
    <3> QED BY <1>6, <3>2
  <2> QED BY <2>1 DEF Typed
<1>8. /\ ResolvesTo(imports, b.subjectRef, b.subject)
      /\ proof.names = {b.subject} \cup VerifiedAliases(imports, b)
  BY <1>1 DEF BasisProof
<1>9. Again(v, b) = v.outcome
  BY <1>5, <1>7, <1>8 DEF Again, Outcome
<1>10. Basis(a)' = b /\ c.version \in 1..Len(basisVersions')
  BY <1>1, <1>2 DEF Basis, Typed
<1>11. ViewReady(v)'
  BY <1>1, <1>2, <1>5, <1>6, DimensionRunAssumption DEF ViewReady
<1>12. v.claim \in DOMAIN quals' /\ quals'[v.claim] = v.qualification
  BY <1>1, <1>5 DEF Stored
<1>13. EvidenceAt(v.revision)' = EvidenceAt(v.revision)
  BY <1>2 DEF EvidenceAt
<1>14. ViewHeld(v, b)'
  BY <1>2, <1>9, <1>12, <1>13 DEF ViewHeld, Again
<1>15. ASSUME NEW i \in DOMAIN a.inputs
       PROVE  BundleHolds(i)' /\ ResolveBundle(i)' = a.inputs[i]
  <2>1. BundleHolds(i) /\ ResolveBundle(i) = a.inputs[i]
    BY <1>1
  <2> QED BY <1>2, <2>1 DEF BundleHolds, ResolveBundle
<1>16. Given(a)'
  <2>1. a.candidate.version \in 1..Len(basisVersions') /\ a.view.claim = a.candidate.claim
    BY <1>1, <1>3, <1>5, <1>10
  <2>2. (ResolvesTo(imports, Basis(a).subjectRef, Basis(a).subject))'
    BY <1>2, <1>8, <1>10
  <2>3. ViewReady(a.view)'
    BY <1>3, <1>11
  <2>4. ViewHeld(a.view, Basis(a))'
    BY <1>3, <1>10, <1>14 DEF ViewHeld, Again
  <2> QED BY <1>15, <2>1, <2>2, <2>3, <2>4 DEF Given
<1>17. v = Shown(v, b, proof)'
  <2>1. Shown(v, b, proof) = v
    BY <1>4, <1>5 DEF Shown
  <2>2. Shown(v, b, proof)' = Shown(v, b, proof)
    BY <1>2, <1>13 DEF Shown, RegistrationProof
  <2> QED BY <2>1, <2>2
<1>18. Proved(Basis(a), a.view.basis, {a.view})'
  <2>1. Proved(b, proof, {v})'
    BY <1>1, <1>2, <1>17 DEF Proved
  <2> QED BY <1>3, <1>5, <1>10, <2>1 DEF Proved, Shown
<1> QED BY <1>1, <1>16, <1>18

----------------------------------------------------------------------------
\* The steps.

\* A slice comes to its publication by judging.
LEMMA WhoPublishes ==
  ASSUME Typed, Runs, [Next]_vars, NEW q \in Processes, run'[q].at = "publish"
  PROVE  run'[q] = run[q] \/ (Judge(q) /\ run'[q].frozen = Frozen(run[q].request, run[q].version))
<1>1. ASSUME NEW p \in Processes, NEW x, run' = [run EXCEPT ![p] = x], x.at # "publish"
      PROVE  run'[q] = run[q]
  BY <1>1 DEF Runs
<1>2. ASSUME NEW p \in Processes, \E r \in Requests : Start(p, r) PROVE run'[q] = run[q]
  <2>1. PICK x : (x.at = "set_basis" \/ x.at = "judge") /\ run' = [run EXCEPT ![p] = x]
    BY <1>2, StartMoves
  <2> QED BY <1>1, <2>1
<1>3. ASSUME NEW p \in Processes, SetBasis(p) PROVE run'[q] = run[q]
  <2>1. PICK x : x.at = "judge" /\ run' = [run EXCEPT ![p] = x]
    BY <1>3, SetBasisMoves
  <2> QED BY <1>1, <2>1
<1>4. ASSUME NEW p \in Processes, Publish(p) PROVE run'[q] = run[q]
  <2>1. PICK x, broken : x.at = "write" /\ run' = [run EXCEPT ![p] = x]
    BY <1>4, PublishMoves
  <2> QED BY <1>1, <2>1
<1>5. ASSUME NEW p \in Processes, Write(p) \/ Fail(p) PROVE run'[q] = run[q]
  <2>1. PICK x : x = Idle
    OBVIOUS
  <2>2. run' = [run EXCEPT ![p] = x] /\ x.at # "publish"
    BY <1>5, <2>1, EndMoves DEF Idle
  <2> QED BY <1>1, <2>2
<1>6. ASSUME NEW p \in Processes, Judge(p)
      PROVE  run'[q] = run[q] \/ (Judge(q) /\ run'[q].frozen = Frozen(run[q].request, run[q].version))
  <2>1. PICK x : /\ x.frozen = Frozen(run[p].request, run[p].version)
                 /\ run' = [run EXCEPT ![p] = x]
    BY <1>6, JudgeMoves
  <2>2. run'[q] = IF q = p THEN x ELSE run[q]
    BY <2>1 DEF Runs
  <2> QED BY <1>6, <2>1, <2>2
<1>7. CASE Arrival
  <2>1. run' = run
    BY <1>7, ArrivalIs, Zenon
  <2> QED BY <2>1
<1>8. CASE Damaged \/ UNCHANGED vars
  BY <1>8, DamagedIs DEF vars
<1> QED BY <1>2, <1>3, <1>4, <1>5, <1>6, <1>7, <1>8, Zenon DEF Next, Arrival, Damaged

\* A level that is published holds and is proved.
LEMMA PublicationTraces ==
  ASSUME TraceInv, NEW p \in Processes, Publish(p)
  PROVE  \E g : /\ results' = results \cup {g}
                /\ ~Failed(g) => Ready(g) /\ Holds(g) /\ Proved(g.basis, g.proofs, g.views)
<1>1. PICK f : f = run[p].frozen
  OBVIOUS
<1>2. PICK broken : broken = (~Failed(f) /\ ~Validates(f))
  OBVIOUS
<1>3. PICK g : g = [f EXCEPT !.broken = broken]
  OBVIOUS
<1>4. results' = results \cup {g} /\ Ready(f) /\ f.broken = FALSE
  BY <1>1, <1>2, <1>3 DEF TraceInv, Publish
<1>5. /\ IsFrozen(g) /\ g.version = f.version /\ g.basis = f.basis /\ g.approved = f.approved
      /\ g.proofs = f.proofs /\ g.reviews = f.reviews /\ g.rejected = f.rejected
      /\ g.views = f.views /\ g.unit = f.unit /\ g.applicability = f.applicability
      /\ g.overlays = f.overlays /\ g.broken = broken
  BY <1>3, <1>4 DEF Ready, IsFrozen
<1>6. ASSUME ~Failed(g) PROVE Ready(g) /\ Holds(g) /\ Proved(g.basis, g.proofs, g.views)
  <2>1. f.rejected = {} /\ ~broken
    BY <1>5, <1>6 DEF Failed
  <2>2. Validates(f)
    BY <1>2, <1>4, <2>1 DEF Failed
  <2>3. Holds(f) /\ Proved(f.basis, f.proofs, f.views)
    BY <1>4, <2>1, <2>2, Validated DEF TraceInv
  <2>4. Ready(g)
    BY <1>4, <1>5 DEF Ready
  <2>5. Holds(g)
    BY <1>5, <2>3 DEF Holds, Sidecars
  <2> QED BY <1>5, <2>3, <2>4, <2>5
<1> QED BY <1>4, <1>6

\* Where authorizations come from.
LEMMA WhoAuthorizes ==
  ASSUME [Next]_vars
  PROVE  \/ authorizations' = authorizations
         \/ \E c \in Candidates, t \in 0..Len(times), n \in 1..bodies : Authorize(c, t, n)
<1>1. CASE \/ \E e \in Evidence : AppendTime(e)
           \/ ImportBody
           \/ \E f \in Files : ImportProvenance(f)
           \/ \E r \in Requests : ReviseBasis(r.basis)
           \/ \E w \in ReviewForms : RegisterReview(w)
           \/ \E o \in OverlayForms : RegisterOverlay(o)
           \/ \E c \in Claims, v \in DOMAIN basisVersions, t \in 0..Len(times), n \in 1..bodies :
                StoreQualification(c, v, t, n)
           \/ \E o \in Responses : Materialize(o)
  BY <1>1 DEF AppendTime, ImportBody, ImportProvenance, ReviseBasis, RegisterReview,
              RegisterOverlay, StoreQualification, Materialize, Outside, workflow
<1>2. CASE Damaged \/ UNCHANGED vars
  BY <1>2, DamagedIs DEF vars, workflow
<1>3. CASE \E p \in Processes :
             \/ \E r \in Requests : Start(p, r)
             \/ SetBasis(p) \/ Judge(p) \/ Publish(p) \/ Write(p) \/ Fail(p)
  BY <1>3, SliceIs DEF workflow
<1>4. CASE Next
  BY <1>1, <1>2, <1>3, <1>4, Zenon DEF Next, Damaged
<1> QED BY <1>2, <1>4

LEMMA StepTraces ==
  ASSUME TraceInv, [Next]_vars
  PROVE  TraceInv'
<1>1. Typed /\ Runs /\ Later /\ Recorded'
  BY StepLater DEF TraceInv, IInv
<1>2. IInv'
  BY StepTyped, StepRuns, StepFiled, StepHeard DEF TraceInv, IInv
<1>3. ASSUME NEW q \in Processes, run'[q].at = "publish"
      PROVE  Ready(run[q].frozen)' /\ run'[q].frozen.broken = FALSE
  <2>1. PICK f : f = run'[q].frozen
    OBVIOUS
  <2>2. Ready(f) /\ f.broken = FALSE
    <3>1. CASE run'[q] = run[q]
      BY <1>3, <2>1, <3>1 DEF TraceInv, Stage
    <3>2. CASE Judge(q) /\ f = Frozen(run[q].request, run[q].version)
      <4>1. run[q].version \in DOMAIN basisVersions
        BY <1>1, <3>2 DEF Judge, Stage, Runs
      <4> QED BY <1>1, <3>2, <4>1, JudgedReady DEF TraceInv
    <3> QED BY <1>1, <1>3, <2>1, <3>1, <3>2, WhoPublishes
  <2>3. Ready(f)'
    BY <1>1, <2>2, ReadyStays
  <2> QED BY <2>1, <2>2, <2>3
<1>4. ASSUME NEW b, NEW proofs, NEW views, \A v \in views : v.revision \in 0..Len(times),
             ResolvesTo(imports, b.subjectRef, b.subject),
             StillUnproved(b, proofs, views) => Proved(b, proofs, views)
      PROVE  (StillUnproved(b, proofs, views) => Proved(b, proofs, views))'
  BY <1>1, <1>4, WasUnproved, ProvedStays
<1>5. ASSUME NEW f \in results', ~Failed(f)
      PROVE  /\ Ready(f)' /\ Holds(f)'
             /\ (StillUnproved(f.basis, f.proofs, f.views) => Proved(f.basis, f.proofs, f.views))'
  <2>1. /\ Ready(f) /\ Holds(f)
        /\ StillUnproved(f.basis, f.proofs, f.views) => Proved(f.basis, f.proofs, f.views)
    <3>1. CASE f \in results
      BY <1>5, <3>1 DEF TraceInv
    <3>2. ASSUME NEW p \in Processes, Publish(p)
          PROVE  /\ Ready(f) /\ Holds(f)
                 /\ StillUnproved(f.basis, f.proofs, f.views) => Proved(f.basis, f.proofs, f.views)
      BY <1>5, <3>1, <3>2, PublicationTraces
    <3>3. CASE \A p \in Processes : ~Publish(p)
      <4>1. results' = results
        BY <1>1, <3>3, OtherSteps
      <4> QED BY <1>5, <3>1, <4>1
    <3> QED BY <3>2, <3>3
  <2>2. f.rejected = {}
    BY <1>5 DEF Failed
  <2>3. \A v \in f.views : v.revision \in 0..Len(times)
    BY <2>1, <2>2 DEF Ready, ViewReady
  <2>4. ResolvesTo(imports, f.basis.subjectRef, f.basis.subject)
    BY <2>1 DEF Holds
  <2>5. (StillUnproved(f.basis, f.proofs, f.views) => Proved(f.basis, f.proofs, f.views))'
    BY <1>4, <2>1, <2>3, <2>4
  <2> QED BY <1>1, <2>1, <2>2, <2>5, ReadyStays, HoldsStays
<1>6. ASSUME NEW a \in authorizations'
      PROVE  /\ Given(a)'
             /\ (StillUnproved(Basis(a), a.view.basis, {a.view}) =>
                   Proved(Basis(a), a.view.basis, {a.view}))'
  <2>1. CASE a \in authorizations
    <3>1. /\ Given(a)
          /\ StillUnproved(Basis(a), a.view.basis, {a.view}) =>
               Proved(Basis(a), a.view.basis, {a.view})
      BY <2>1 DEF TraceInv
    <3>2. PICK b : b = Basis(a)
      OBVIOUS
    <3>3. Given(a)' /\ Basis(a)' = b
      BY <1>1, <3>1, <3>2, GivenStays
    <3>4. \A v \in {a.view} : v.revision \in 0..Len(times)
      BY <3>1 DEF Given, ViewReady
    <3>5. ResolvesTo(imports, b.subjectRef, b.subject)
      BY <3>1, <3>2 DEF Given
    <3>6. (StillUnproved(b, a.view.basis, {a.view}) => Proved(b, a.view.basis, {a.view}))'
      BY <1>4, <3>1, <3>2, <3>4, <3>5
    <3>7. /\ StillUnproved(Basis(a), a.view.basis, {a.view})'
               => StillUnproved(b, a.view.basis, {a.view})'
          /\ Proved(b, a.view.basis, {a.view})' => Proved(Basis(a), a.view.basis, {a.view})'
      BY <3>3 DEF StillUnproved, Proved, Shown
    <3> QED BY <3>3, <3>6, <3>7
  <2>2. CASE a \notin authorizations
    <3>1. PICK c \in Candidates, t \in 0..Len(times), n \in 1..bodies : Authorize(c, t, n)
      BY <1>6, <2>2, WhoAuthorizes
    <3>2. PICK x : /\ authorizations' = authorizations \cup {x}
                   /\ Given(x)' /\ Proved(Basis(x), x.view.basis, {x.view})'
      BY <1>1, <3>1, GrantedGiven
    <3>3. x = a
      BY <1>6, <2>2, <3>2
    <3> QED BY <3>2, <3>3
  <2> QED BY <2>1, <2>2
<1>7. \A f : Failed(f)' <=> Failed(f)
  BY DEF Failed
<1> QED BY <1>1, <1>2, <1>3, <1>5, <1>6, <1>7 DEF TraceInv, Stage

LEMMA TraceInductive == Spec => []TraceInv
<1>1. Init => TraceInv
  <2>1. Init => Filed /\ Heard /\ Kept /\ Recorded
    BY DEF Init, Filed, Heard, Kept, Stage, Idle, Recorded
  <2> QED BY <2>1, InitTables, InitRuns DEF Init, IInv, TraceInv, Stage, Idle
<1> QED BY <1>1, StepTraces, PTL DEF Spec

----------------------------------------------------------------------------
\* Every claim behind a published level is qualified by its stored row and
\* judged qualified again, for ever: no import, however many names it proves,
\* turns the judgment of the frozen evidence.
THEOREM LevelRequalified == Spec => []LevelIsRequalified
<1>1. TraceInv => LevelIsRequalified
  <2> SUFFICES ASSUME TraceInv, NEW f \in results, ~Failed(f), NEW w \in f.reviews
               PROVE  LET b == basisVersions[f.version]
                      IN /\ w.subject = b.subject
                         /\ w.claim \in DOMAIN quals /\ quals[w.claim].status = "qualified"
                         /\ \E v \in f.views :
                              /\ v.claim = w.claim
                              /\ QualifyClaim(imports, TRUE, Source, EvidenceAt(v.revision),
                                   Content[w.claim], {b.subject} \cup VerifiedAliases(imports, b),
                                   v.bodies).status = "qualified"
    BY DEF LevelIsRequalified
  <2>1. Ready(f) /\ Holds(f) /\ f.rejected = {}
    BY DEF TraceInv, Failed
  <2>2. basisVersions[f.version] = f.basis
    BY <2>1 DEF Holds
  <2>3. PICK v \in f.views : v.claim = w.claim
    BY <2>1 DEF Ready
  <2>4. /\ v.claim \in DOMAIN quals /\ quals[v.claim] = v.qualification
        /\ v.qualification.status = "qualified"
        /\ Again(v, f.basis) = v.outcome /\ v.outcome.status = "qualified"
    BY <2>1 DEF Ready, Holds, ViewReady, ViewHeld
  <2>5. w.subject = f.basis.subject
    BY <2>1 DEF Ready
  <2> QED BY <2>2, <2>3, <2>4, <2>5 DEF Again
<1> QED BY <1>1, TraceInductive, PTL

LEMMA TrustStays ==
  ASSUME TraceInv
  PROVE  AuthorizationStaysTrusted
<1> SUFFICES ASSUME NEW a \in authorizations, readable, a.candidate \in sealed,
                    StillUnproved(basisVersions[a.candidate.version], a.view.basis, {a.view})
             PROVE  Trusted(a)
  BY DEF AuthorizationStaysTrusted
<1>1. PICK b : b = basisVersions[a.candidate.version]
  OBVIOUS
<1>2. PICK v : v = a.view
  OBVIOUS
<1>3. /\ Given(a) /\ Basis(a) = b
      /\ Proved(b, a.view.basis, {a.view})
  BY <1>1 DEF TraceInv, Basis
<1>4. /\ v.claim = a.candidate.claim /\ ViewReady(v) /\ ViewHeld(v, b)
      /\ \A i \in DOMAIN a.inputs : BundleHolds(i) /\ ResolveBundle(i) = a.inputs[i]
  BY <1>2, <1>3 DEF Given
<1>5. /\ BasisProof(imports, b) = v.basis /\ v.basis # None /\ v = Shown(v, b, v.basis)
  BY <1>2, <1>3 DEF Proved
<1>6. Typed
  BY DEF TraceInv, IInv
<1>7. ViewHolds(v, b, v.basis)
  BY <1>4, <1>5, <1>6, ShownHolds
<1>8. v.claim \in DOMAIN quals /\ quals[v.claim] = v.qualification
  BY <1>4 DEF ViewHeld
<1> QED BY <1>1, <1>2, <1>4, <1>5, <1>7, <1>8 DEF Trusted

\* An authorization stays trusted for as long as its blobs can be read and what
\* it was given without is unproved still, for the same reason: every table it
\* is checked against is append-only, and of every name the first import decides.
THEOREM AuthorizationTrusted == Spec => []AuthorizationStaysTrusted
BY TraceInductive, TrustStays, PTL

\* No level is published on other proofs than its reviews were authorized with:
\* the publication rebuilds both.
THEOREM AuthorizedPublished == Spec => []AuthorizedAsPublished
<1>1. TraceInv => AuthorizedAsPublished
  BY DEF TraceInv, Holds, AuthorizedAsPublished
<1> QED BY <1>1, TraceInductive, PTL

\* A published level goes on tracing, and so do the authorizations its reviews
\* came from, while its originals can be read and what they were made without
\* is unproved still, for the same reason.
THEOREM PublishedTraces == Spec => []PublishedKeepsTracing
<1>1. TraceInv => PublishedKeepsTracing
  <2> SUFFICES ASSUME TraceInv, NEW f \in results, ~Failed(f), readable,
                      \A a \in Sidecars(f) : a.candidate \in sealed,
                      StillUnproved(f.basis, f.proofs, Views(f))
               PROVE  Validates(f)
    BY DEF PublishedKeepsTracing
  <2>0. StillUnproved(f.basis, f.proofs, f.views)
    BY DEF StillUnproved, Views
  <2>1. Ready(f) /\ Holds(f) /\ Proved(f.basis, f.proofs, f.views) /\ f.rejected = {}
    BY <2>0 DEF TraceInv, Failed
  <2> DEFINE proof == BasisProof(imports, f.basis)
  <2>2. proof = f.proofs /\ proof # None
    BY <2>1 DEF Proved
  <2> HIDE DEF proof
  <2>3. ASSUME NEW v \in f.views PROVE ViewHolds(v, f.basis, proof)
    <3>1. ViewReady(v) /\ ViewHeld(v, f.basis) /\ v = Shown(v, f.basis, proof)
      BY <2>1, <2>2 DEF Ready, Holds, Proved
    <3>2. Typed
      BY DEF TraceInv, IInv
    <3> QED BY <2>2, <3>1, <3>2, ShownHolds DEF proof
  <2>4. f.version <= Len(basisVersions)
    BY <2>1 DEF Holds, TraceInv, IInv, Typed
  <2>5. ASSUME NEW w \in f.reviews, w.sidecar # None PROVE Authorized(w)
    <3>1. PICK a : a = w.sidecar
      OBVIOUS
    <3>2. a \in Sidecars(f)
      BY <2>5, <3>1 DEF Sidecars
    <3>3. w \in reviews
      BY <2>1 DEF Holds
    <3>4. a \in authorizations
      BY <2>5, <3>1, <3>3 DEF TraceInv, IInv, Filed
    <3>5. PICK o \in Responses : o.candidate = a.candidate /\ w = Materialized(o, a)
      BY <2>5, <3>1, <3>3 DEF TraceInv, Recorded
    <3>6. basisVersions[a.candidate.version] = f.basis
      <4>1. w.version = a.candidate.version
        BY <3>5, MaterializedIs
      <4>2. w.version = f.version
        BY <2>1 DEF Ready
      <4> QED BY <2>1, <4>1, <4>2 DEF Holds
    <3>7. StillUnproved(basisVersions[a.candidate.version], a.view.basis, {a.view})
      <4>1. a.view.basis = f.proofs
        BY <2>1, <3>2 DEF Holds
      <4>2. a.view \in Views(f)
        BY <3>2 DEF Views
      <4>3. StillUnproved(f.basis, f.proofs, {a.view})
        BY <4>2 DEF StillUnproved
      <4> QED BY <3>6, <4>1, <4>3
    <3>8. Trusted(a)
      BY <3>2, <3>4, <3>7, TrustStays DEF AuthorizationStaysTrusted
    <3> QED BY <3>1, <3>5, <3>8 DEF Authorized
  <2> QED BY <2>1, <2>2, <2>3, <2>4, <2>5 DEF Holds, Validates, proof
<1> QED BY <1>1, TraceInductive, PTL
=============================================================================
