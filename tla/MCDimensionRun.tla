--------------------------- MODULE MCDimensionRun ----------------------------
(***************************************************************************)
(* A news report with a claim about the company, a team unit and an entity *)
(* that plans no external financing.  f1 proves all of it but the alias:    *)
(* f2 seals it for one of the bases, and for the other lacks the field.     *)
(* The claim may be proposed, authorized and reviewed by the workflow, and  *)
(* reviewed by hand.                                                       *)
(***************************************************************************)
EXTENDS DimensionRun, TLC

CONSTANTS acme, alias, blob1, f1, f2, c1, unit, ann

Ref(record, field) == <<"case.json", record, field>>

FileNameVal == f1 :> "case.json" @@ f2 :> "late.json"
Sealed ==
  (<<"case", "subject">> :> acme @@ <<"case", "aliases">> :> {alias} @@
   <<"page", "subject">> :> alias @@ <<"page", "hash">> :> blob1 @@
   <<"zone", "rule">> :> "cst" @@ <<"zone", "family">> :> "news-media" @@
   <<"unit", "id">> :> unit @@ <<"unit", "subject">> :> acme @@
   <<"finance", "planned">> :> "false" @@ <<"finance", "entity">> :> unit @@
   <<"finance", "subject">> :> acme @@
   <<"ann", "id">> :> ann @@ <<"ann", "status">> :> "verified" @@ <<"ann", "scope">> :> unit)
FieldsVal ==
  f1 :> Sealed @@
  f2 :> (<<"case", "subject">> :> acme @@ <<"case", "aliases">> :> {alias})
CutoffVal == 20
OffsetVal == "cst" :> 1
ImportedVal == <<f1>>

\* Published at a local time, under the zone the source row was recorded with.
Zoned ==
  [kind |-> "zone", rule |-> "cst", ruleRef |-> Ref("zone", "rule"), scopeRef |-> Ref("zone", "family")]
SourceVal ==
  [family |-> "news-media", body |-> "text", capture |-> "ok", blob |-> blob1,
   documentSubject |-> alias, subjectRef |-> Ref("page", "subject"),
   hashRef |-> Ref("page", "hash"), anchored |-> TRUE,
   published |-> [day |-> 9, half |-> 0, offset |-> 0],
   publishedText |-> <<[day |-> 9, half |-> 1, offset |-> None]>>, retrieved |-> 21,
   column |-> Zoned]
\* Later evidence without the zone.
EvidenceVal == {[Zoned EXCEPT !.kind = "filename_derived_date", !.rule = None]}

ContentVal == [c \in {c1} |->
  [scope |-> acme, mentions |-> {acme}, locator |-> "pdf_page", negated |-> FALSE,
   excerpt |-> "q1"]]
CriteriaVal == [d \in {"CRL", "FRL", "TMRL"} |-> {"C1"}]

Named ==
  [subject |-> acme, aliases |-> {alias}, subjectRef |-> Ref("case", "subject"),
   aliasesRef |-> Ref("case", "aliases"), aliasesSubjectRef |-> Ref("case", "subject")]
Late ==
  [Named EXCEPT !.aliasesRef = <<"late.json", "case", "aliases">>,
                 !.aliasesSubjectRef = <<"late.json", "case", "subject">>]
\* A reference into a field the late file lacks.
Former == [Late EXCEPT !.aliasesRef = <<"late.json", "case", "former">>]
Unit == [scopeId |-> unit, bundle |-> {<<Ref("unit", "id"), unit>>, <<Ref("unit", "subject"), acme>>}]
Team ==
  [dimension |-> "TMRL", basis |-> Late, unit |-> Unit, applicability |-> None,
   allowed |-> None, approved |-> TRUE]
NoFinancing ==
  {<<Ref("finance", "planned"), "false">>, <<Ref("finance", "entity"), unit>>,
   <<Ref("finance", "subject"), acme>>}
RequestsVal ==
  {Team, [Team EXCEPT !.basis = Former, !.allowed = {"w1"}],
   [Team EXCEPT !.basis = Named, !.dimension = "FRL", !.applicability = NoFinancing],
   [Team EXCEPT !.basis = Named, !.dimension = "CRL", !.unit = None, !.approved = FALSE]}

\* A review by hand, with the permission for it.
Opposes ==
  [id |-> "w2", dimension |-> "TMRL", version |-> 1, claim |-> c1, criterion |-> "C1", quote |-> "q1",
   decision |-> "does_not_support", subject |-> acme, scopeId |-> unit,
   people |-> {ann}, permission |-> None, sidecar |-> None, mode |-> None]
ReviewFormsVal == {[Opposes EXCEPT !.permission = ReviewTarget(Opposes)]}

\* The claim proposed to the team criterion, and the response that supports it.
Proposed ==
  [claim |-> c1, dimension |-> "TMRL", criterion |-> "C1", version |-> 1,
   use |-> "third_party_reported_fact", scopeId |-> unit, inputs |-> {Unit.bundle, NoFinancing}]
CandidatesVal == {Proposed}
ResponsesVal == {[id |-> "w1", candidate |-> Proposed, decision |-> "supports", people |-> {ann}]}

Person(status) ==
  [version |-> 1, scopeId |-> unit, subject |-> ann, status |-> status,
   subjectRef |-> Ref("ann", "id"), statusRef |-> Ref("ann", "status"),
   scopeRef |-> Ref("ann", "scope")]
OverlayFormsVal == {Person("verified")}
Symmetry == Permutations(Processes)
=============================================================================
