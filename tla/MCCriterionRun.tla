--------------------------- MODULE MCCriterionRun ----------------------------
(***************************************************************************)
(* A media report that names the company and a page of the company itself. *)
(* The provenance file f1 proves the subject, its alias, the page and the  *)
(* evidence; f2, another file of the same name, says otherwise.            *)
(***************************************************************************)
EXTENDS CriterionRun, TLC

CONSTANTS acme, alias, other, blob1, blob2, f1, f2, c1

Ref(record, field) == <<"case.json", record, field>>
NoRef == <<None, None, None>>

FileNameVal == [f \in {f1, f2} |-> "case.json"]
Sealed(subject, blob) ==
  (<<"case", "subject">> :> subject @@ <<"case", "aliases">> :> {alias} @@
   <<"page", "subject">> :> alias @@ <<"page", "hash">> :> blob @@
   <<"page", "time">> :> 18 @@
   <<"zone", "rule">> :> "cst" @@ <<"zone", "family">> :> "company-official" @@
   <<"finance", "policy">> :> "no_external_financing" @@ <<"finance", "flag">> :> "true" @@
   <<"finance", "subject">> :> subject)
FieldsVal == f1 :> Sealed(acme, blob1) @@ f2 :> Sealed(other, blob2)
CutoffVal == 20
OffsetVal == "cst" :> 1

Market == <<"CRL", 1, "C1">>
Pitch == <<"FRL", 4, "PITCH">>
NaPolicyVal == Market :> "never" @@ Pitch :> "explicit_no_external_financing_only"
SupportedVal == {Market, Pitch}
ImportedVal == <<f1>>
AcceptableVal ==
  Market :> {"company_self_statement", "document_dated_statement", "third_party_reported_fact"}

(* The report is retrieved after the cutoff: it needs time evidence.  The  *)
(* page is published at a local time: it needs the rule of its zone.       *)
Report ==
  [family |-> "news-media", body |-> "text", capture |-> "ok", blob |-> blob1,
   documentSubject |-> None, subjectRef |-> NoRef, hashRef |-> NoRef, anchored |-> FALSE,
   published |-> None, publishedText |-> <<>>, retrieved |-> 21, column |-> None]
Page ==
  [Report EXCEPT !.family = "company-official", !.documentSubject = alias,
     !.subjectRef = Ref("page", "subject"), !.hashRef = Ref("page", "hash"), !.anchored = TRUE,
     !.published = [day |-> 9, half |-> 0, offset |-> 0],
     !.publishedText = <<[day |-> 9, half |-> 1, offset |-> None]>>]
SourcesVal == {Report, Page}
SourcesRace == {Report}

Dated ==
  [kind |-> "document_self_date", rule |-> None, declared |-> [day |-> 9, half |-> None, offset |-> None],
   located |-> <<[day |-> 9, half |-> None, offset |-> None]>>]
Zoned ==
  [kind |-> "zone", rule |-> "cst", ruleRef |-> Ref("zone", "rule"), scopeRef |-> Ref("zone", "family")]
Registered ==
  [kind |-> "registered_at", rule |-> None, declared |-> 18,
   proof |-> [document |-> blob1, marker |-> "v1", schema |-> "v1", recorded |-> 18,
              timeRef |-> Ref("page", "time"), documentRef |-> Ref("page", "hash")]]
EvidenceVal == {Zoned, Registered}
EvidenceRace == {Dated, Zoned}

Named(aliases) ==
  [subject |-> acme, aliases |-> aliases, subjectRef |-> Ref("case", "subject"),
   aliasesRef |-> Ref("case", "aliases"), aliasesSubjectRef |-> Ref("case", "subject")]
Content == [scope |-> acme, mentions |-> {acme}, locator |-> "byte_range", negated |-> FALSE]
Quote(id) == [id |-> id, verbatim |-> TRUE, negated |-> FALSE, onTopic |-> TRUE]
First ==
  [claim |-> c1, criterion |-> Market, basis |-> Named({alias}), content |-> Content,
   quote |-> Quote("q1"), review |-> "w1", na |-> None]
Second == [First EXCEPT !.basis = Named({}), !.quote = Quote("q2")]
NotApplicable ==
  [First EXCEPT !.criterion = Pitch, !.quote = None, !.review = None,
     !.na = [applicability |-> Ref("finance", "policy"), flag |-> Ref("finance", "flag"),
             subject |-> Ref("finance", "subject")]]
RequestsVal == {First, Second, NotApplicable}
RequestsRace == {First, Second}

Confirms(id, version, quote) ==
  [id |-> id, version |-> version, claim |-> c1, criterion |-> Market, quote |-> quote,
   decision |-> "confirmed"]
ReviewFormsVal == {Confirms("w1", 1, "q1")}
Symmetry == Permutations(Processes)
=============================================================================
