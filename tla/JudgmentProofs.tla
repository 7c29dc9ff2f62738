---------------------------- MODULE JudgmentProofs ----------------------------
(***************************************************************************)
(* Proofs about what is decided without any process: the judgments of      *)
(* Qualification and the six kernels of DimensionRules.                    *)
(*                                                                         *)
(* Qualification: what was proved by imports stays proved, by the same     *)
(* bindings, however many are appended, and a claim that was qualified     *)
(* once is qualified on every later reading of the same evidence.          *)
(*                                                                         *)
(* Kernels, for every registry, every set of reviews and every case        *)
(* policy: RowsRead says, once for all dimensions, when a row is met,      *)
(* undecided or blocks, by what the recorded reviews show: no valid review *)
(* opposes and enough of them support.  ReachedIs says that the level is   *)
(* the highest one with no blocked criterion at it or below.  The          *)
(* properties follow from how a new review changes the first, through the  *)
(* second.                                                                 *)
(***************************************************************************)
EXTENDS Qualification, DimensionRules, FiniteSetTheorems, WellFoundedInduction,
        TLAPS

----------------------------------------------------------------------------
\* A non-empty set of numbers has a least element.
LEMMA LeastExists ==
  ASSUME NEW S \in SUBSET Nat, S # {}
  PROVE  \E l \in S : \A k \in S : l <= k
<1> DEFINE R == {ss \in Nat \X Nat : ss[1] < ss[2]}
<1>1. IsWellFoundedOn(R, Nat)
  BY NatLessThanWellFounded DEF OpToRel
<1>2. \E x \in S : \A y \in S : ~ (<<y, x>> \in R)
  <2> HIDE DEF R
  <2> QED BY <1>1, WFMin
<1>3. PICK x \in S : \A y \in S : <<y, x>> \notin R
  BY <1>2
<1>4. ASSUME NEW y \in S PROVE x <= y
  <2>1. <<y, x>> \notin R
    BY <1>3
  <2>2. ~(y < x)
    BY <2>1
  <2> QED BY <2>2
<1> QED BY <1>4

----------------------------------------------------------------------------
\* References into append-only imports.

\* imports is later what it was, or longer.
Extends(later, earlier) ==
  /\ Len(earlier) \in Nat /\ Len(later) \in Nat /\ Len(earlier) <= Len(later)
  /\ DOMAIN earlier = 1..Len(earlier) /\ DOMAIN later = 1..Len(later)
  /\ \A i \in 1..Len(earlier) : later[i] = earlier[i]

\* The first import of a name stays the first, with the field or without it.
LEMMA FirstStays ==
  ASSUME NEW early, NEW late, Extends(late, early), NEW ref, ~Unsealed(early, ref)
  PROVE  Resolve(late, ref) = Resolve(early, ref)
<1> DEFINE before == {i \in DOMAIN early : FileName[early[i]] = ref[1]}
           after  == {i \in DOMAIN late : FileName[late[i]] = ref[1]}
<1>1. before # {}
  BY DEF Unsealed
<1>2. /\ before \subseteq after
      /\ before \subseteq 1..Len(early) /\ after \subseteq 1..Len(late)
      /\ \A i \in after : i \notin before => i > Len(early)
  BY DEF Extends
<1>3. before \subseteq Nat /\ after \subseteq Nat /\ Len(early) \in Nat
  BY <1>2 DEF Extends
<1>4. PICK l \in before : \A k \in before : l <= k
  <2> HIDE DEF before
  <2> QED BY <1>1, <1>3, LeastExists
<1>5. \A k \in after : l <= k
  BY <1>2, <1>3, <1>4
<1>6. Min(before) = l /\ Min(after) = l
  <2>1. Min(before) \in before /\ \A k \in before : Min(before) <= k
    BY <1>4 DEF Min
  <2>2. Min(after) \in after /\ \A k \in after : Min(after) <= k
    BY <1>2, <1>4, <1>5 DEF Min
  <2>3. \A m, n \in Nat : m <= n /\ n <= m => m = n
    OBVIOUS
  <2> HIDE DEF before, after
  <2> QED BY <1>2, <1>3, <1>4, <1>5, <2>1, <2>2, <2>3
<1>7. early[l] = late[l] /\ after # {}
  BY <1>2, <1>4 DEF Extends
<1> HIDE DEF before, after
<1>8. Resolve(early, ref) =
        IF <<ref[2], ref[3]>> \notin DOMAIN Fields[early[l]] THEN None
        ELSE [file |-> early[l], record |-> ref[2], value |-> Fields[early[l]][<<ref[2], ref[3]>>]]
  BY <1>1, <1>6 DEF Resolve, before
<1>9. Resolve(late, ref) =
        IF <<ref[2], ref[3]>> \notin DOMAIN Fields[late[l]] THEN None
        ELSE [file |-> late[l], record |-> ref[2], value |-> Fields[late[l]][<<ref[2], ref[3]>>]]
  BY <1>6, <1>7 DEF Resolve, after
<1> QED BY <1>7, <1>8, <1>9

LEMMA ResolveStable ==
  ASSUME NEW early, NEW late, Extends(late, early), NEW ref, Resolve(early, ref) # None
  PROVE  Resolve(late, ref) = Resolve(early, ref)
<1>1. ~Unsealed(early, ref)
  BY DEF Resolve, Unsealed
<1> QED BY <1>1, FirstStays

\* What is proved stays proved, by the same bindings.
LEMMA AliasesStable ==
  ASSUME NEW early, NEW late, Extends(late, early), NEW basis,
         AliasesProof(early, basis) # None
  PROVE  AliasesProof(late, basis) = AliasesProof(early, basis)
<1>1. basis.aliasesRef # None /\ AliasesError(early, basis) = NoError
  BY DEF AliasesProof
<1>2. Resolve(early, basis.aliasesRef) # None /\ Resolve(early, basis.aliasesSubjectRef) # None
  BY <1>1 DEF AliasesError, ReferenceError, Wrong, NoError
<1>3. /\ Resolve(late, basis.aliasesRef) = Resolve(early, basis.aliasesRef)
      /\ Resolve(late, basis.aliasesSubjectRef) = Resolve(early, basis.aliasesSubjectRef)
  BY <1>2, ResolveStable
<1>4. AliasesError(late, basis) = AliasesError(early, basis)
  BY <1>2, <1>3 DEF AliasesError
<1> QED BY <1>1, <1>3, <1>4 DEF AliasesProof

\* What is wrong with aliases stays, as long as a file that was not sealed is not.
LEMMA ErrorStable ==
  ASSUME NEW early, NEW late, Extends(late, early), NEW basis,
         AliasesError(early, basis).why = "unsealed" =>
           Unsealed(late, AliasesError(early, basis).ref)
  PROVE  AliasesError(late, basis) = AliasesError(early, basis)
<1>1. ASSUME NEW ref, Resolve(early, ref) = None,
             ReferenceError(early, ref).why = "unsealed" => Unsealed(late, ref)
      PROVE  Resolve(late, ref) = None /\ ReferenceError(late, ref) = ReferenceError(early, ref)
  <2>1. CASE Unsealed(early, ref)
    <3>1. Unsealed(late, ref)
      BY <1>1, <2>1 DEF ReferenceError, Wrong
    <3> QED BY <2>1, <3>1 DEF Resolve, Unsealed, ReferenceError
  <2>2. CASE ~Unsealed(early, ref)
    <3>1. ~Unsealed(late, ref)
      BY <2>2 DEF Unsealed, Extends
    <3>2. Resolve(late, ref) = None
      BY <1>1, <2>2, FirstStays
    <3> QED BY <2>2, <3>1, <3>2 DEF ReferenceError
  <2> QED BY <2>1, <2>2
<1> DEFINE sealed(imp)  == Resolve(imp, basis.aliasesRef)
           subject(imp) == Resolve(imp, basis.aliasesSubjectRef)
<1>2. CASE basis.aliasesRef = None \/ basis.aliasesSubjectRef = None
  BY <1>2 DEF AliasesError
<1>3. CASE basis.aliasesRef # None /\ basis.aliasesSubjectRef # None /\ sealed(early) = None
  <2>1. AliasesError(early, basis) = ReferenceError(early, basis.aliasesRef)
    BY <1>3 DEF AliasesError
  <2>2. ReferenceError(early, basis.aliasesRef).ref = basis.aliasesRef
    BY DEF ReferenceError, Wrong
  <2>3. /\ sealed(late) = None
        /\ ReferenceError(late, basis.aliasesRef) = ReferenceError(early, basis.aliasesRef)
    BY <1>1, <1>3, <2>1, <2>2
  <2> QED BY <1>3, <2>1, <2>3 DEF AliasesError
<1>4. CASE basis.aliasesRef # None /\ basis.aliasesSubjectRef # None /\ sealed(early) # None
  <2>1. sealed(late) = sealed(early)
    BY <1>4, ResolveStable
  <2>2. CASE sealed(early).value = None
    BY <1>4, <2>1, <2>2 DEF AliasesError
  <2>3. CASE sealed(early).value # None /\ subject(early) = None
    <3>1. AliasesError(early, basis) = ReferenceError(early, basis.aliasesSubjectRef)
      BY <1>4, <2>3 DEF AliasesError
    <3>2. ReferenceError(early, basis.aliasesSubjectRef).ref = basis.aliasesSubjectRef
      BY DEF ReferenceError, Wrong
    <3>3. /\ subject(late) = None
          /\ ReferenceError(late, basis.aliasesSubjectRef) =
               ReferenceError(early, basis.aliasesSubjectRef)
      BY <1>1, <2>3, <3>1, <3>2
    <3> QED BY <1>4, <2>1, <2>3, <3>1, <3>3 DEF AliasesError
  <2>4. CASE sealed(early).value # None /\ subject(early) # None
    <3>1. subject(late) = subject(early)
      BY <2>4, ResolveStable
    <3> QED BY <1>4, <2>1, <2>4, <3>1 DEF AliasesError
  <2> QED BY <2>2, <2>3, <2>4
<1> QED BY <1>2, <1>3, <1>4

LEMMA NamesGrow ==
  ASSUME NEW early, NEW late, Extends(late, early), NEW basis
  PROVE  VerifiedAliases(early, basis) \subseteq VerifiedAliases(late, basis)
<1>1. CASE AliasesProof(early, basis) = None
  BY <1>1 DEF VerifiedAliases
<1>2. CASE AliasesProof(early, basis) # None
  BY <1>2, AliasesStable DEF VerifiedAliases
<1> QED BY <1>1, <1>2

LEMMA BasisStable ==
  ASSUME NEW early, NEW late, Extends(late, early), NEW basis,
         ResolvesTo(early, basis.subjectRef, basis.subject)
  PROVE  /\ ResolvesTo(late, basis.subjectRef, basis.subject)
         /\ BasisProof(late, basis).subject = BasisProof(early, basis).subject
         /\ BasisProof(early, basis).aliases # None =>
              BasisProof(late, basis).aliases = BasisProof(early, basis).aliases
         /\ BasisProof(early, basis).names \subseteq BasisProof(late, basis).names
<1> DEFINE proof(imp) ==
      [subject |-> Resolve(imp, basis.subjectRef),
       aliases |-> AliasesProof(imp, basis),
       error   |-> IF basis.aliases = {} THEN NoError ELSE AliasesError(imp, basis),
       names   |-> {basis.subject} \cup VerifiedAliases(imp, basis)]
<1>1. Resolve(late, basis.subjectRef) = Resolve(early, basis.subjectRef)
  BY ResolveStable DEF ResolvesTo
<1>2. ResolvesTo(late, basis.subjectRef, basis.subject)
  BY <1>1 DEF ResolvesTo
<1>4. BasisProof(late, basis) = proof(late) /\ BasisProof(early, basis) = proof(early)
  BY <1>2 DEF BasisProof
<1>6. proof(early).aliases # None => proof(late).aliases = proof(early).aliases
  BY AliasesStable
<1>7. proof(early).names \subseteq proof(late).names
  BY NamesGrow
<1> QED BY <1>1, <1>2, <1>4, <1>6, <1>7

LEMMA DocumentStable ==
  ASSUME NEW early, NEW late, Extends(late, early), NEW s, NEW names, NEW more,
         names \subseteq more, DocumentProofFor(early, s, names) # None
  PROVE  DocumentProofFor(late, s, more) = DocumentProofFor(early, s, names)
<1>1. s.documentSubject \in names /\ DocumentSubjectProof(early, s) # None
  BY DEF DocumentProofFor
<1>2. Resolve(early, s.subjectRef) # None /\ Resolve(early, s.hashRef) # None
  BY <1>1 DEF DocumentSubjectProof
<1>3. /\ Resolve(late, s.subjectRef) = Resolve(early, s.subjectRef)
      /\ Resolve(late, s.hashRef) = Resolve(early, s.hashRef)
  BY <1>2, ResolveStable
<1>4. DocumentSubjectProof(late, s) = DocumentSubjectProof(early, s)
  BY <1>3 DEF DocumentSubjectProof
<1> QED BY <1>1, <1>4 DEF DocumentProofFor

LEMMA ZoneStable ==
  ASSUME NEW early, NEW late, Extends(late, early), NEW s, NEW e,
         TimezoneRule(early, s, e) # None
  PROVE  TimezoneRule(late, s, e) = TimezoneRule(early, s, e)
<1>1. Resolve(early, e.ruleRef) # None /\ Resolve(early, e.scopeRef) # None
  BY DEF TimezoneRule
<1>2. /\ Resolve(late, e.ruleRef) = Resolve(early, e.ruleRef)
      /\ Resolve(late, e.scopeRef) = Resolve(early, e.scopeRef)
  BY <1>1, ResolveStable
<1> QED BY <1>2 DEF TimezoneRule

LEMMA NaStable ==
  ASSUME NEW early, NEW late, Extends(late, early), NEW criterion, NEW na, NEW subject,
         NaLegal(early, criterion, na, subject)
  PROVE  NaLegal(late, criterion, na, subject)
<1>1. \A k \in NaRefs : Resolve(early, na[k]) # None
  BY DEF NaLegal
<1>2. \A k \in NaRefs : Resolve(late, na[k]) = Resolve(early, na[k])
  BY <1>1, ResolveStable
<1>3. [k \in NaRefs |-> Resolve(late, na[k])] = [k \in NaRefs |-> Resolve(early, na[k])]
  BY <1>2
<1> QED BY <1>3 DEF NaLegal

----------------------------------------------------------------------------
\* Judgments that were "ok" stay "ok".

LEMMA MatchesStays ==
  ASSUME NEW declared, NEW value, NEW zone, Matches(declared, value, None)
  PROVE  Matches(declared, value, zone)
BY DEF Matches

\* A zone proved later may make an earlier located time the one that matches,
\* but that time is then the same instant.
LEMMA LocatedStays ==
  ASSUME NEW declared, NEW located, DOMAIN located \subseteq Nat, NEW zone, NEW ruleGiven,
         LocatedTimeJudgment(declared, located, None, ruleGiven) = "ok"
  PROVE  LocatedTimeJudgment(declared, located, zone, ruleGiven) = "ok"
<1> DEFINE early == {i \in DOMAIN located : Matches(declared, located[i], None)}
           late  == {i \in DOMAIN located : Matches(declared, located[i], zone)}
<1>1. declared # None /\ located # <<>> /\ early # {}
  <2>1. ASSUME declared = None \/ located = <<>>
        PROVE  LocatedTimeJudgment(declared, located, None, ruleGiven) = "fail"
    BY <2>1 DEF LocatedTimeJudgment
  <2>2. ASSUME ~(declared = None \/ located = <<>>), early = {}
        PROVE  LocatedTimeJudgment(declared, located, None, ruleGiven) \in {"unknown", "fail"}
    BY <2>2 DEF LocatedTimeJudgment
  <2> QED BY <2>1, <2>2
<1>2. early \subseteq late /\ early \subseteq Nat /\ late \subseteq Nat /\ late # {}
  BY <1>1, MatchesStays
<1>3. \A S \in SUBSET Nat : S # {} => Min(S) \in S /\ \A i \in S : Min(S) <= i
  <2> SUFFICES ASSUME NEW S \in SUBSET Nat, S # {}
               PROVE  Min(S) \in S /\ \A i \in S : Min(S) <= i
    OBVIOUS
  <2>1. \E l \in S : \A k \in S : l <= k
    BY LeastExists
  <2> QED BY <2>1 DEF Min
<1>4. /\ Min(early) \in early /\ Min(late) \in late
      /\ \A i \in late : Min(late) <= i
      /\ \A i \in early : Min(early) <= i
  BY <1>1, <1>2, <1>3
<1>5. Min(late) \in early => Min(late) = Min(early)
  <2>1. \A m, n \in Nat : m <= n /\ n <= m => m = n
    OBVIOUS
  <2> QED BY <1>2, <1>4, <2>1
<1>6. PICK v : v = located[Min(early)]
  OBVIOUS
<1>7. PICK w : w = located[Min(late)]
  OBVIOUS
<1>8. Matches(declared, v, None) /\ Matches(declared, w, zone)
  BY <1>4, <1>6, <1>7
<1>9. Matches(declared, w, None) => w = v
  BY <1>4, <1>5, <1>6, <1>7
<1> HIDE DEF early, late
<1> DEFINE
      sourced(u) == u.offset = None /\ declared.half # None /\ declared.offset # None
      instant(u, z) == At(u, IF u.offset # None THEN u.offset ELSE z.offset)
      judged(u, z) ==
        IF u.half = None
        THEN IF u.day > Day(Cutoff) THEN "fail"
             ELSE IF u.day = Day(Cutoff) THEN "unknown" ELSE "ok"
        ELSE IF u.offset = None /\ ~sourced(u) THEN "unknown"
        ELSE IF instant(u, z) > Cutoff THEN "fail" ELSE "ok"
<1>10. LocatedTimeJudgment(declared, located, None, ruleGiven) = judged(v, None)
  BY <1>1, <1>6 DEF LocatedTimeJudgment, early
<1>11. LocatedTimeJudgment(declared, located, zone, ruleGiven) = judged(w, zone)
  BY <1>1, <1>2, <1>7 DEF LocatedTimeJudgment, late
<1>12. judged(v, None) = "ok"
  BY <1>10
<1>13. CASE declared.half = None
  <2>1. w = v
    BY <1>8, <1>9, <1>13 DEF Matches
  <2>2. v.half # None => v.offset # None
    BY <1>12, <1>13
  <2>3. judged(v, zone) = judged(v, None)
    <3>1. CASE v.half = None
      BY <3>1
    <3>2. CASE v.half # None /\ v.offset # None
      BY <2>2, <3>2
    <3> QED BY <2>2, <3>1, <3>2
  <2> QED BY <1>11, <1>12, <2>1, <2>3
<1>14. CASE declared.half # None
  <2>1. v.half # None /\ w.half # None
    BY <1>8, <1>14 DEF Matches
  <2>2. v.offset # None
    BY <1>8, <1>12, <1>14, <2>1 DEF Matches
  <2> DEFINE same == At(declared, IF declared.offset = None THEN 0 ELSE declared.offset)
  <2>3. instant(v, None) = same
    BY <1>8, <1>14, <2>1, <2>2 DEF Matches
  <2>4. ~(same > Cutoff)
    BY <1>12, <2>1, <2>2, <2>3
  <2>5. CASE w.offset # None
    <3>1. instant(w, zone) = same
      BY <1>8, <1>14, <2>1, <2>5 DEF Matches
    <3> QED BY <1>11, <2>1, <2>4, <2>5, <3>1
  <2>6. CASE w.offset = None /\ declared.offset # None
    <3>1. instant(w, zone) = same
      BY <1>8, <1>14, <2>1, <2>6 DEF Matches
    <3> QED BY <1>11, <1>14, <2>1, <2>4, <2>6, <3>1
  <2>7. CASE w.offset = None /\ declared.offset = None
    <3>1. Matches(declared, w, None)
      BY <1>8, <1>14, <2>7 DEF Matches
    <3> QED BY <1>9, <2>2, <2>7, <3>1
  <2> QED BY <2>5, <2>6, <2>7
<1> QED BY <1>13, <1>14

LEMMA RegistrationStays ==
  ASSUME NEW early, NEW late, Extends(late, early), NEW s, NEW e,
         RegisteredJudgment(early, s, e) = "ok"
  PROVE  RegisteredJudgment(late, s, e) = "ok"
<1>1. ASSUME ContractHolds(early, s, e.proof) PROVE ContractHolds(late, s, e.proof)
  <2>1. Resolve(early, e.proof.timeRef) # None /\ Resolve(early, e.proof.documentRef) # None
    BY <1>1 DEF ContractHolds
  <2>2. /\ Resolve(late, e.proof.timeRef) = Resolve(early, e.proof.timeRef)
        /\ Resolve(late, e.proof.documentRef) = Resolve(early, e.proof.documentRef)
    BY <2>1, ResolveStable
  <2> QED BY <1>1, <2>2 DEF ContractHolds
<1> QED BY <1>1 DEF RegisteredJudgment

\* Located texts are indexed by numbers.
Indexed(s, e) ==
  /\ s.published # None => DOMAIN s.publishedText \subseteq Nat
  /\ e.kind = "document_self_date" => DOMAIN e.located \subseteq Nat

LEMMA TimeStays ==
  ASSUME NEW early, NEW late, Extends(late, early), NEW s, NEW e, Indexed(s, e),
         TimeJudgment(early, s, e) = "ok"
  PROVE  TimeJudgment(late, s, e) = "ok"
<1> DEFINE zone(imp) == TimezoneRule(imp, s, e)
<1>1. CASE zone(early) # None
  <2>1. zone(late) = zone(early)
    BY <1>1, ZoneStable
  <2> QED BY <2>1, RegistrationStays DEF TimeJudgment
<1>2. CASE zone(early) = None
  <2>1. CASE s.published # None
    <3>1. LocatedTimeJudgment(s.published, s.publishedText, None, e.rule # None) = "ok"
      BY <1>2, <2>1 DEF TimeJudgment
    <3>2. LocatedTimeJudgment(s.published, s.publishedText, zone(late), e.rule # None) = "ok"
      BY <2>1, <3>1, LocatedStays DEF Indexed
    <3> QED BY <2>1, <3>2 DEF TimeJudgment
  <2>2. CASE s.published = None /\ e.kind = "document_self_date"
    <3>1. LocatedTimeJudgment(e.declared, e.located, None, e.rule # None) = "ok"
      BY <1>2, <2>2 DEF TimeJudgment
    <3>2. LocatedTimeJudgment(e.declared, e.located, zone(late), e.rule # None) = "ok"
      BY <2>2, <3>1, LocatedStays DEF Indexed
    <3> QED BY <2>2, <3>2 DEF TimeJudgment
  <2>3. CASE s.published = None /\ e.kind # "document_self_date"
    BY <2>3, RegistrationStays DEF TimeJudgment
  <2> QED BY <2>1, <2>2, <2>3
<1> QED BY <1>1, <1>2

\* More names never take an identity away: a name that is missing only ever
\* leaves a judgment open or fails it.
LEMMA IdentityStays ==
  ASSUME NEW early, NEW late, Extends(late, early), NEW s, NEW c, NEW names, NEW more,
         names \subseteq more, IdentityJudgment(early, s, c, names) = "ok"
  PROVE  IdentityJudgment(late, s, c, more) = "ok"
<1>1. CASE s.family \in FirstPartyFamilies
  <2>1. DocumentProofFor(early, s, names) # None
    BY <1>1 DEF IdentityJudgment
  <2>2. DocumentProofFor(late, s, more) # None
    BY <2>1, DocumentStable
  <2> QED BY <1>1, <2>2 DEF IdentityJudgment
<1>2. CASE s.family \notin FirstPartyFamilies
  <2>1. c.mentions \cap names # {}
    BY <1>2 DEF IdentityJudgment
  <2>2. c.mentions \cap more # {}
    BY <2>1
  <2> QED BY <1>2, <2>2 DEF IdentityJudgment
<1> QED BY <1>1, <1>2

\* What qualifies can be read back and says where it stands.
LEMMA QualifiedIsNoGap ==
  ASSUME NEW imp, NEW r, NEW s, NEW e, NEW c, NEW names, NEW bodies,
         QualifyClaim(imp, r, s, e, c, names, bodies).status = "qualified"
  PROVE  ~IsGap(TRUE, s, c) /\ IndependenceJudgment(bodies) = "ok"
BY DEF QualifyClaim, IsGap, Verdict, IndependenceJudgment

\* A claim that was qualified is qualified with the same outcome on any later
\* reading of the same evidence, by as many names or more.
LEMMA QualifiedStays ==
  ASSUME NEW early, NEW late, Extends(late, early), NEW r, NEW again,
         NEW s, NEW e, Indexed(s, e), NEW c, NEW names, NEW more, names \subseteq more,
         NEW bodies, NEW same, IndependenceJudgment(same) = "ok", ~IsGap(again, s, c),
         QualifyClaim(early, r, s, e, c, names, bodies).status = "qualified"
  PROVE  QualifyClaim(late, again, s, e, c, more, same)
           = QualifyClaim(early, r, s, e, c, names, bodies)
<1> DEFINE identity(imp, n) == IdentityJudgment(imp, s, c, n)
           time(imp)        == TimeJudgment(imp, s, e)
           verdicts(imp, n, b) ==
             {SourceJudgment(s), identity(imp, n), time(imp), IndependenceJudgment(b)}
           outcome(imp, n, b) ==
             [status |-> Verdict(verdicts(imp, n, b)), uses |-> AllowedUses(imp, s, e, c, n),
              identity |-> identity(imp, n)]
<1>1. ~IsGap(r, s, c) /\ ~FailedCapture(s)
  BY DEF QualifyClaim
<1>3. QualifyClaim(early, r, s, e, c, names, bodies) = outcome(early, names, bodies)
  BY <1>1 DEF QualifyClaim
<1>4. QualifyClaim(late, again, s, e, c, more, same) = outcome(late, more, same)
  BY <1>1 DEF QualifyClaim
<1>5. Verdict(verdicts(early, names, bodies)) = "qualified"
  BY <1>3
<1>6. /\ "fail" \notin verdicts(early, names, bodies)
      /\ "unknown" \notin verdicts(early, names, bodies)
  BY <1>5 DEF Verdict
<1>7. SourceJudgment(s) = "ok" /\ IndependenceJudgment(bodies) = "ok"
  BY <1>6 DEF SourceJudgment, IndependenceJudgment
<1>8. identity(early, names) = "ok"
  BY <1>6 DEF IdentityJudgment
<1>9. time(early) = "ok"
  BY <1>6 DEF TimeJudgment, LocatedTimeJudgment, RegisteredJudgment
<1>10. identity(late, more) = "ok" /\ time(late) = "ok"
  BY <1>8, <1>9, IdentityStays, TimeStays
<1>11. AllowedUses(late, s, e, c, more) = AllowedUses(early, s, e, c, names)
  BY <1>8, <1>9, <1>10 DEF AllowedUses
<1>12. verdicts(late, more, same) = verdicts(early, names, bodies)
  BY <1>7, <1>8, <1>9, <1>10
<1> QED BY <1>3, <1>4, <1>8, <1>10, <1>11, <1>12

-----------------------------------------------------------------------------
(***************************************************************************)
(* The six kernels.                                                        *)
(***************************************************************************)

\* The level of a set of blocked levels.

Reached(top, unmet) == IF unmet = {} THEN top ELSE Lowest(unmet) - 1

\* The loop over the levels ends at the highest level below every blocked one.
LEMMA ReachedIs ==
  ASSUME NEW top \in Nat, NEW unmet \in SUBSET (1..top)
  PROVE  /\ Reached(top, unmet) \in 0..top
         /\ \A l \in unmet : Reached(top, unmet) < l
         /\ \A n \in 0..top : (\A l \in unmet : n < l) => n <= Reached(top, unmet)
<1>1. CASE unmet = {}
  BY <1>1 DEF Reached
<1>2. CASE unmet # {}
  <2>1. \E l \in unmet : \A k \in unmet : l <= k
    BY <1>2, LeastExists
  <2>2. /\ Lowest(unmet) \in unmet
        /\ \A k \in unmet : Lowest(unmet) <= k
    BY <2>1 DEF Lowest
  <2>3. Reached(top, unmet) = Lowest(unmet) - 1
    BY <1>2 DEF Reached
  <2>4. Lowest(unmet) \in 1..top
    BY <2>2
  <2> QED BY <2>2, <2>3, <2>4
<1> QED BY <1>1, <1>2

\* Fewer blocked levels never mean a lower level.
LEMMA ReachedAntitone ==
  ASSUME NEW top \in Nat, NEW low \in SUBSET (1..top), NEW high \in SUBSET low
  PROVE  Reached(top, low) <= Reached(top, high)
<1>1. Reached(top, low) \in 0..top /\ \A l \in high : Reached(top, low) < l
  BY ReachedIs
<1>2. \A n \in 0..top : (\A l \in high : n < l) => n <= Reached(top, high)
  BY ReachedIs
<1> QED BY <1>1, <1>2

Unmet == {Level(c) : c \in {k \in Registry[dim] : Blocks(k)}}

LevelRead ==
  dim \in Kernels =>
    /\ Top[dim] \in Nat /\ Unmet \in SUBSET (1..Top[dim])
    /\ Attained = Reached(Top[dim], Unmet)

LEMMA LevelReads == LevelRead
<1>1. dim \in Kernels => Top[dim] \in Nat /\ Unmet \in SUBSET (1..Top[dim])
  BY RulesAssumption DEF Unmet
<1>2. Attained = Reached(Top[dim], Unmet)
  BY DEF Attained, Reached, Unmet
<1> QED BY <1>1, <1>2 DEF LevelRead

----------------------------------------------------------------------------
\* The rows.

IsValid(d, c, r) ==
  CASE d = "CRL"  -> CrlValid(r)
    [] d = "BRL"  -> BrlValid(c, r)
    [] d = "FRL"  -> FrlValid(c, r)
    [] d = "TRL"  -> TrlValid(c, r)
    [] d = "IPRL" -> IprlValid(c, r)
    [] d = "TMRL" -> TmrlValid(c, r)

Suffices(d, c, r) ==
  CASE d = "BRL"  -> BrlSupport(c, r)
    [] d = "FRL"  -> FrlSupport(c, r)
    [] d = "TRL"  -> TrlSupport(c, r)
    [] d = "IPRL" -> IprlSupport(c, r)
    [] d = "TMRL" -> TmrlSupport(c, r)

ValidSupport(d, c, R) == {r \in R : IsValid(d, c, r) /\ r.decision = "supports"}

Unopposed(d, c, R) == \A r \in R : IsValid(d, c, r) => r.decision # "does_not_support"

Enough(d, c, R) ==
  IF d = "CRL" THEN CrlRequirementsMet(c, ValidSupport(d, c, R))
  ELSE \E r \in ValidSupport(d, c, R) : Suffices(d, c, r)

Applies(c) == dim = "FRL" => ~NotApplicable(c)
Met(c) == Unopposed(dim, c, recorded[c]) /\ Enough(dim, c, recorded[c])

\* A group of IPRL criteria blocks as one.
Stops(c) ==
  IF dim # "IPRL" THEN Applies(c) /\ ~Met(c)
  ELSE \/ Gate[c] = "required" /\ ~Met(c)
       \/ /\ Gate[c] \notin {"required", "optional"}
          /\ \A m \in Registry["IPRL"] : Gate[m] = Gate[c] /\ Level(m) <= Level(c) => ~Met(m)

RowsRead ==
  dim \in Kernels => \A c \in Registry[dim] :
    /\ Blocks(c) <=> Stops(c)
    /\ Native(c) = "insufficient" <=>
         /\ Applies(c) /\ Unopposed(dim, c, recorded[c])
         /\ ~Enough(dim, c, recorded[c])

\* What the branches of a row make of their three inputs.
LEMMA Branches ==
  ASSUME NEW support, NEW negatives, NEW sufficient \in BOOLEAN
  PROVE  /\ Disposition(support, negatives, sufficient) = "met" <=> negatives = {} /\ sufficient
         /\ Disposition(support, negatives, sufficient) = "insufficient"
              <=> negatives = {} /\ ~sufficient
         /\ Disposition(support, negatives, sufficient) # "not_applicable"
  BY DEF Disposition

LEMMA RowsReads == RowsRead
<1> SUFFICES ASSUME dim \in Kernels, NEW c \in Registry[dim]
             PROVE  /\ Blocks(c) <=> Stops(c)
                    /\ Native(c) = "insufficient" <=>
                         /\ Applies(c) /\ Unopposed(dim, c, recorded[c])
                         /\ ~Enough(dim, c, recorded[c])
  BY DEF RowsRead
<1>1. CASE dim = "CRL"
  <2> DEFINE valid == {r \in recorded[c] : CrlValid(r)}
  <2>1. Supporting(valid) = ValidSupport(dim, c, recorded[c])
    BY <1>1 DEF Supporting, ValidSupport, IsValid
  <2>2. Opposing(valid) = {} <=> Unopposed(dim, c, recorded[c])
    BY <1>1 DEF Opposing, Unopposed, IsValid
  <2>3. CrlRequirementsMet(c, Supporting(valid)) \in BOOLEAN
    BY DEF CrlRequirementsMet
  <2>4. CrlRequirementsMet(c, Supporting(valid)) <=> Enough(dim, c, recorded[c])
    BY <1>1, <2>1 DEF Enough
  <2>5. /\ CrlNative(c) = "met" <=> Met(c)
        /\ CrlNative(c) = "insufficient" <=>
             Unopposed(dim, c, recorded[c]) /\ ~Enough(dim, c, recorded[c])
    BY <2>2, <2>3, <2>4, Branches DEF CrlNative, Met
  <2> QED BY <1>1, <2>5 DEF Blocks, Native, CrlBlocks, Stops, Applies
<1>2. CASE dim = "BRL"
  <2> DEFINE valid   == {r \in recorded[c] : BrlValid(c, r)}
             support == {r \in Supporting(valid) : BrlSupport(c, r)}
  <2>1. support # {} <=> Enough(dim, c, recorded[c])
    BY <1>2 DEF Supporting, ValidSupport, IsValid, Suffices, Enough
  <2>2. Opposing(valid) = {} <=> Unopposed(dim, c, recorded[c])
    BY <1>2 DEF Opposing, Unopposed, IsValid
  <2>3. /\ BrlNative(c) = "met" <=> Met(c)
        /\ BrlNative(c) = "insufficient" <=>
             Unopposed(dim, c, recorded[c]) /\ ~Enough(dim, c, recorded[c])
    BY <2>1, <2>2, Branches DEF BrlNative, Met
  <2> QED BY <1>2, <2>3 DEF Blocks, Native, BrlBlocks, Stops, Applies
<1>3. CASE dim = "FRL"
  <2> DEFINE valid   == {r \in recorded[c] : FrlValid(c, r)}
             support == {r \in Supporting(valid) : FrlSupport(c, r)}
  <2>1. support # {} <=> Enough(dim, c, recorded[c])
    BY <1>3 DEF Supporting, ValidSupport, IsValid, Suffices, Enough
  <2>2. Opposing(valid) = {} <=> Unopposed(dim, c, recorded[c])
    BY <1>3 DEF Opposing, Unopposed, IsValid
  <2>3. CASE NotApplicable(c)
    BY <1>3, <2>3 DEF Blocks, Native, FrlBlocks, FrlNative, Stops, Applies
  <2>4. CASE ~NotApplicable(c)
    <3>1. FrlNative(c) = Disposition(support, Opposing(valid), support # {})
      BY <2>4 DEF FrlNative
    <3>2. /\ FrlNative(c) = "met" <=> Met(c)
          /\ FrlNative(c) = "insufficient" <=>
               Unopposed(dim, c, recorded[c]) /\ ~Enough(dim, c, recorded[c])
          /\ FrlNative(c) # "not_applicable"
      BY <2>1, <2>2, <3>1, Branches DEF Met
    <3> QED BY <1>3, <2>4, <3>2 DEF Blocks, Native, FrlBlocks, Stops, Applies
  <2> QED BY <2>3, <2>4
<1>4. CASE dim = "TRL"
  <2> DEFINE valid   == {r \in recorded[c] : TrlValid(c, r)}
             support == {r \in Supporting(valid) : TrlSupport(c, r)}
  <2>1. support # {} <=> Enough(dim, c, recorded[c])
    BY <1>4 DEF Supporting, ValidSupport, IsValid, Suffices, Enough
  <2>2. Opposing(valid) = {} <=> Unopposed(dim, c, recorded[c])
    BY <1>4 DEF Opposing, Unopposed, IsValid
  <2>3. /\ TrlNative(c) = "met" <=> Met(c)
        /\ TrlNative(c) = "insufficient" <=>
             Unopposed(dim, c, recorded[c]) /\ ~Enough(dim, c, recorded[c])
    BY <2>1, <2>2, Branches DEF TrlNative, Met
  <2> QED BY <1>4, <2>3 DEF Blocks, Native, TrlBlocks, Stops, Applies
<1>5. CASE dim = "IPRL"
  <2>1. ASSUME NEW m \in Registry["IPRL"]
        PROVE  /\ IprlNative(m) = "met" <=> Met(m)
               /\ IprlNative(m) = "insufficient" <=>
                    Unopposed(dim, m, recorded[m]) /\ ~Enough(dim, m, recorded[m])
    <3> DEFINE valid   == {r \in recorded[m] : IprlValid(m, r)}
               support == {r \in Supporting(valid) : IprlSupport(m, r)}
    <3>1. support # {} <=> Enough(dim, m, recorded[m])
      BY <1>5 DEF Supporting, ValidSupport, IsValid, Suffices, Enough
    <3>2. Opposing(valid) = {} <=> Unopposed(dim, m, recorded[m])
      BY <1>5 DEF Opposing, Unopposed, IsValid
    <3> QED BY <3>1, <3>2, Branches DEF IprlNative, Met
  <2>2. IprlBlocks(c) <=> Stops(c)
    BY <1>5, <2>1 DEF IprlBlocks, Stops
  <2> QED BY <1>5, <2>1, <2>2 DEF Blocks, Native, Applies
<1>6. CASE dim = "TMRL"
  <2> DEFINE valid   == {r \in recorded[c] : TmrlValid(c, r)}
             support == {r \in Supporting(valid) : TmrlSupport(c, r)}
  <2>1. support # {} <=> Enough(dim, c, recorded[c])
    BY <1>6 DEF Supporting, ValidSupport, IsValid, Suffices, Enough
  <2>2. Opposing(valid) = {} <=> Unopposed(dim, c, recorded[c])
    BY <1>6 DEF Opposing, Unopposed, IsValid
  <2>3. /\ TmrlNative(c) = "met" <=> Met(c)
        /\ TmrlNative(c) = "insufficient" <=>
             Unopposed(dim, c, recorded[c]) /\ ~Enough(dim, c, recorded[c])
    BY <2>1, <2>2, Branches DEF TmrlNative, Met
  <2> QED BY <1>6, <2>3 DEF Blocks, Native, TmrlBlocks, Stops, Applies
<1> QED BY <1>1, <1>2, <1>3, <1>4, <1>5, <1>6 DEF Kernels

----------------------------------------------------------------------------
\* The invariant: types, and finitely many reviews of each criterion, so that
\* the contacts of the reviews can be counted.

Finite == \A c \in Registry[dim] : IsFiniteSet(recorded[c])

RulesInv == RulesTypeOK /\ Finite

LEMMA RulesInitInv == RulesInit => RulesInv
<1> SUFFICES ASSUME RulesInit PROVE RulesInv
  OBVIOUS
<1>1. policy.planned \in BOOLEAN
  <2>1. CASE dim = "FRL"
    BY <2>1 DEF RulesInit
  <2>2. CASE dim # "FRL"
    <3>1. policy = NoPolicy
      BY <2>2 DEF RulesInit
    <3> QED BY <3>1 DEF NoPolicy
  <2> QED BY <2>1, <2>2
<1>2. recorded \in [Registry[dim] -> SUBSET Review] /\ Finite
  BY RulesAssumption DEF RulesInit, Finite
<1> QED BY <1>1, <1>2 DEF RulesInit, RulesInv, RulesTypeOK

\* A step records one review, or none.
LEMMA StepIs ==
  ASSUME RulesInv, [RulesNext]_rulesVars
  PROVE  /\ dim' = dim /\ policy' = policy
         /\ \/ recorded' = recorded
            \/ \E c \in Registry[dim] : \E r \in Review :
                 recorded' = [recorded EXCEPT ![c] = @ \cup {r}]
<1>1. CASE RulesNext
  <2>1. PICK c \in Registry[dim] : \E r \in Offered[c] : Record(c, r)
    BY <1>1 DEF RulesNext
  <2>2. PICK r \in Offered[c] : Record(c, r)
    BY <2>1
  <2>3. r \in Review
    BY <2>1, RulesAssumption DEF RulesInv, RulesTypeOK
  <2> QED BY <2>2, <2>3 DEF Record
<1>2. CASE UNCHANGED rulesVars
  BY <1>2 DEF rulesVars
<1> QED BY <1>1, <1>2

LEMMA RulesStepInv ==
  ASSUME RulesInv, [RulesNext]_rulesVars
  PROVE  /\ RulesInv'
         /\ \A k \in Registry[dim] : recorded[k] \subseteq recorded'[k]
<1>1. CASE recorded' = recorded
  BY <1>1, StepIs DEF RulesInv, RulesTypeOK, Finite
<1>2. ASSUME NEW c \in Registry[dim], NEW r \in Review,
             recorded' = [recorded EXCEPT ![c] = @ \cup {r}]
      PROVE  /\ RulesInv'
             /\ \A k \in Registry[dim] : recorded[k] \subseteq recorded'[k]
  <2>1. dim' = dim /\ policy' = policy
    BY StepIs
  <2>2. recorded' \in [Registry[dim] -> SUBSET Review]
    BY <1>2 DEF RulesInv, RulesTypeOK
  <2>3. \A k \in Registry[dim] : recorded'[k] = IF k = c THEN recorded[k] \cup {r} ELSE recorded[k]
    BY <1>2 DEF RulesInv, RulesTypeOK
  <2>4. IsFiniteSet(recorded[c] \cup {r})
    BY FS_AddElement DEF RulesInv, Finite
  <2>5. Finite'
    BY <2>1, <2>3, <2>4 DEF RulesInv, Finite
  <2> QED BY <2>1, <2>2, <2>3, <2>5 DEF RulesInv, RulesTypeOK
<1> QED BY <1>1, <1>2, StepIs

LEMMA Invariance == RulesSpec => []RulesInv
<1>1. RulesInv /\ [RulesNext]_rulesVars => RulesInv'
  BY RulesStepInv
<1> QED BY <1>1, RulesInitInv, PTL DEF RulesSpec

\* The level read off the records: no criterion at it or below is stopped, and one
\* just above it is, unless it is the top.
LevelIsHighest ==
  /\ Attained \in 0..Top[dim]
  /\ \A c \in Registry[dim] : Stops(c) => Attained < Level(c)
  /\ Attained < Top[dim] => \E c \in Registry[dim] : Stops(c) /\ Level(c) = Attained + 1

\* Whatever is recorded, the level a dimension comes out at is in its range, and
\* it is the highest one below the first criterion that is stopped: by a valid
\* opposing review, or for want of enough valid support (the branches of the six
\* kernels' rows, with the cumulative loop over the levels).
THEOREM LevelIsReadOff == RulesSpec => []LevelIsHighest
<1>1. ASSUME RulesInv PROVE LevelIsHighest
  <2>1. dim \in Kernels
    BY <1>1 DEF RulesInv, RulesTypeOK
  <2>2. Top[dim] \in Nat /\ Unmet \in SUBSET (1..Top[dim]) /\ Attained = Reached(Top[dim], Unmet)
    BY <2>1, LevelReads DEF LevelRead
  <2>3. Unmet = {Level(c) : c \in {k \in Registry[dim] : Stops(k)}}
    BY <2>1, RowsReads DEF RowsRead, Unmet
  <2>4. Attained \in 0..Top[dim] /\ \A l \in Unmet : Attained < l
    BY <2>2, ReachedIs
  <2>5. Attained < Top[dim] => Attained + 1 \in Unmet
    <3> SUFFICES ASSUME Attained < Top[dim], Attained + 1 \notin Unmet
                 PROVE  FALSE
      OBVIOUS
    <3>1. \A l \in Unmet : Attained + 1 < l
      BY <2>2, <2>4
    <3>2. Attained + 1 \in 0..Top[dim]
      BY <2>2, <2>4
    <3>3. Attained + 1 <= Attained
      BY <2>2, <3>1, <3>2, ReachedIs
    <3> QED BY <2>2, <2>4, <3>3
  <2> QED BY <2>3, <2>4, <2>5 DEF LevelIsHighest
<1> QED BY <1>1, Invariance, PTL

----------------------------------------------------------------------------
\* Opposition.

LEMMA OppositionCapsState == RulesTypeOK => OppositionCaps
<1> SUFFICES ASSUME dim \in Kernels,
                    NEW c \in Registry[dim],
                    dim = "IPRL" => Gate[c] = "required",
                    dim = "FRL" => ~NotApplicable(c),
                    NEW r \in recorded[c], Valid(c, r), r.decision = "does_not_support"
             PROVE  Attained < Level(c)
  BY DEF OppositionCaps, RulesTypeOK
<1>1. Valid(c, r) <=> IsValid(dim, c, r)
  BY DEF Valid, IsValid
<1>2. ~Met(c)
  BY <1>1 DEF Met, Unopposed
<1>3. Blocks(c)
  <2>1. Stops(c)
    BY <1>2 DEF Stops, Applies
  <2> QED BY <2>1, RowsReads DEF RowsRead
<1>4. Level(c) \in Unmet
  BY <1>3 DEF Unmet
<1> QED BY <1>4, LevelReads, ReachedIs DEF LevelRead

\* No valid opposing review is ever outvoted: the level stays below the
\* criterion it stands against (the rows and cumulative loops of all kernels).
THEOREM OppositionIsNeverOutvoted == RulesSpec => []OppositionCaps
<1>1. RulesInv => OppositionCaps
  BY OppositionCapsState DEF RulesInv
<1> QED BY <1>1, Invariance, PTL

----------------------------------------------------------------------------
\* How the rows change with a step.

\* What RowsRead and LevelRead say holds after a step as well.
LEMMA ReadAfter ==
  ASSUME RulesInv, [RulesNext]_rulesVars
  PROVE  /\ RowsRead /\ RowsRead' /\ LevelRead /\ LevelRead'
         /\ dim' = dim /\ dim \in Kernels
         /\ \A c : Applies(c)' <=> Applies(c)
<1>1. RowsRead' /\ LevelRead'
  BY RowsReads, LevelReads, PTL
<1>2. dim' = dim /\ policy' = policy
  BY StepIs
<1>3. \A c : Applies(c)' <=> Applies(c)
  BY <1>2 DEF Applies, NotApplicable, LegalNoExternalPolicy
<1> QED BY <1>1, <1>2, <1>3, RowsReads, LevelReads DEF RulesInv, RulesTypeOK

\* Rows that stay met keep the level; rows that become unmet never raise it.
LEMMA MoreMet ==
  ASSUME RulesInv, [RulesNext]_rulesVars, \A c \in Registry[dim] : Met(c) => Met(c)'
  PROVE  Attained' >= Attained
<1>1. \A c \in Registry[dim] : Stops(c)' => Stops(c)
  BY ReadAfter DEF Stops
<1>2. Unmet' \subseteq Unmet
  BY <1>1, ReadAfter DEF Unmet, RowsRead
<1>3. /\ Top[dim] \in Nat /\ Unmet \in SUBSET (1..Top[dim])
      /\ Attained = Reached(Top[dim], Unmet)
      /\ Attained' = Reached(Top[dim], Unmet')
  BY ReadAfter DEF LevelRead
<1>4. Reached(Top[dim], Unmet) <= Reached(Top[dim], Unmet')
  BY <1>2, <1>3, ReachedAntitone
<1> QED BY <1>2, <1>3, <1>4, ReachedIs

LEMMA FewerMet ==
  ASSUME RulesInv, [RulesNext]_rulesVars, \A c \in Registry[dim] : Met(c)' => Met(c)
  PROVE  Attained' <= Attained
<1>1. \A c \in Registry[dim] : Stops(c) => Stops(c)'
  BY ReadAfter DEF Stops
<1>2. Unmet \subseteq Unmet'
  BY <1>1, ReadAfter DEF Unmet, RowsRead
<1>3. /\ Top[dim] \in Nat /\ Unmet' \in SUBSET (1..Top[dim])
      /\ Attained = Reached(Top[dim], Unmet)
      /\ Attained' = Reached(Top[dim], Unmet')
  BY ReadAfter DEF LevelRead
<1>4. Reached(Top[dim], Unmet') <= Reached(Top[dim], Unmet)
  BY <1>2, <1>3, ReachedAntitone
<1> QED BY <1>4, <1>3

\* A finite number of reviews names finitely many contacts.
LEMMA ContactsFinite ==
  ASSUME NEW R \in SUBSET Review, IsFiniteSet(R), NEW S \in SUBSET R
  PROVE  IsFiniteSet(Contacts(S))
<1> DEFINE f == [r \in S |-> r.parties]
           T == {r.parties : r \in S}
<1>1. IsFiniteSet(S)
  BY FS_Subset
<1>2. f \in Surjection(S, T)
  BY DEF Surjection
<1>3. \A x \in T : IsFiniteSet(x)
  BY RulesAssumption
<1>4. IsFiniteSet(T)
  <2> HIDE DEF f, T
  <2> QED BY <1>1, <1>2, FS_Surjection
<1> QED BY <1>3, <1>4, FS_UNION DEF Contacts

\* Findings and contacts of more valid reviews are findings and contacts of them.
LEMMA EnoughGrows ==
  ASSUME NEW d \in Kernels, NEW c, NEW R \in SUBSET Review, NEW Q \in SUBSET Review,
         IsFiniteSet(Q),
         ValidSupport(d, c, R) \subseteq ValidSupport(d, c, Q),
         Enough(d, c, R)
  PROVE  Enough(d, c, Q)
<1>1. CASE d # "CRL"
  BY <1>1 DEF Enough
<1>2. CASE d = "CRL"
  <2> DEFINE small == ValidSupport(d, c, R)
             large == ValidSupport(d, c, Q)
  <2>1. CrlRequirementsMet(c, small)
    BY <1>2 DEF Enough
  <2>2. IsFiniteSet(Contacts(large))
    BY ContactsFinite DEF ValidSupport
  <2>3. Contacts(small) \subseteq Contacts(large)
    BY DEF Contacts
  <2>4. /\ Cardinality(Contacts(small)) <= Cardinality(Contacts(large))
        /\ Cardinality(Contacts(small)) \in Nat /\ Cardinality(Contacts(large)) \in Nat
    BY <2>2, <2>3, FS_Subset, FS_CardinalityType
  <2>5. UNION {r.facts : r \in small} \subseteq UNION {r.facts : r \in large}
    OBVIOUS
  <2>6. small # {} => large # {}
    OBVIOUS
  <2>7. CrlRequirementsMet(c, large)
    <3> HIDE DEF small, large
    <3> QED BY <2>1, <2>4, <2>5, <2>6 DEF CrlRequirementsMet
  <2> QED BY <1>2, <2>7 DEF Enough
<1> QED BY <1>1, <1>2

----------------------------------------------------------------------------
\* Reviews that are not valid.

LEMMA ForeignStep ==
  ASSUME RulesInv, [RulesNext]_rulesVars,
         \A c \in Registry[dim] : \A r \in Arrived(c) : ~Valid(c, r)
  PROVE  Attained' = Attained /\ ProductStatus' = ProductStatus
<1>1. ASSUME NEW c \in Registry[dim]
      PROVE  /\ Unopposed(dim, c, recorded'[c]) <=> Unopposed(dim, c, recorded[c])
             /\ Enough(dim, c, recorded'[c]) <=> Enough(dim, c, recorded[c])
  <2>1. recorded[c] \subseteq recorded'[c]
    BY RulesStepInv
  <2>2. \A r \in recorded'[c] : IsValid(dim, c, r) => r \in recorded[c]
    BY DEF Arrived, Valid, IsValid
  <2>3. ValidSupport(dim, c, recorded'[c]) = ValidSupport(dim, c, recorded[c])
    BY <2>1, <2>2 DEF ValidSupport
  <2>4. Enough(dim, c, recorded'[c]) <=> Enough(dim, c, recorded[c])
    BY <2>3 DEF Enough
  <2> QED BY <2>1, <2>2, <2>4 DEF Unopposed
<1>2. \A c \in Registry[dim] : Met(c)' <=> Met(c)
  BY <1>1, ReadAfter DEF Met
<1>3. Attained' = Attained
  <2>1. Attained' >= Attained /\ Attained' <= Attained
    BY <1>2, MoreMet, FewerMet
  <2>2. Attained \in Int /\ Attained' \in Int
    BY ReadAfter, ReachedIs DEF LevelRead
  <2> QED BY <2>1, <2>2
<1>4. \A c \in Registry[dim] : Native(c)' = "insufficient" <=> Native(c) = "insufficient"
  BY <1>1, ReadAfter DEF RowsRead
<1> QED BY <1>3, <1>4, ReadAfter DEF ProductStatus

\* What is incomplete, of another scope or of an ineligible class counts
\* neither for nor against (the _valid functions of all kernels).
THEOREM ForeignNeverCounts == RulesSpec => ForeignReviewsInert
<1>1. RulesInv /\ [RulesNext]_rulesVars =>
        [(\A c \in Registry[dim] : \A r \in Arrived(c) : ~Valid(c, r))
           => Attained' = Attained /\ ProductStatus' = ProductStatus]_rulesVars
  BY ForeignStep
<1> QED BY <1>1, Invariance, PTL DEF RulesSpec, ForeignReviewsInert

----------------------------------------------------------------------------
\* Reviews on one side.

LEMMA SupportStep ==
  ASSUME RulesInv, [RulesNext]_rulesVars,
         \A c \in Registry[dim] : \A r \in Arrived(c) : r.decision # "does_not_support"
  PROVE  Attained' >= Attained
<1>1. ASSUME NEW c \in Registry[dim], Met(c)
      PROVE  Met(c)'
  <2>1. recorded[c] \subseteq recorded'[c] /\ recorded'[c] \in SUBSET Review
        /\ IsFiniteSet(recorded'[c]) /\ recorded[c] \in SUBSET Review
    BY RulesStepInv, ReadAfter DEF RulesInv, RulesTypeOK, Finite
  <2>2. Unopposed(dim, c, recorded'[c])
    BY <1>1, <2>1 DEF Met, Unopposed, Arrived
  <2>3. ValidSupport(dim, c, recorded[c]) \subseteq ValidSupport(dim, c, recorded'[c])
    BY <2>1 DEF ValidSupport
  <2>4. Enough(dim, c, recorded'[c])
    BY <1>1, <2>1, <2>3, EnoughGrows, ReadAfter DEF Met
  <2> QED BY <2>2, <2>4, ReadAfter DEF Met
<1> QED BY <1>1, MoreMet

LEMMA OppositionStep ==
  ASSUME RulesInv, [RulesNext]_rulesVars,
         \A c \in Registry[dim] : \A r \in Arrived(c) : r.decision # "supports"
  PROVE  Attained' <= Attained
<1>1. ASSUME NEW c \in Registry[dim], Met(c)'
      PROVE  Met(c)
  <2>1. recorded[c] \subseteq recorded'[c]
    BY RulesStepInv
  <2>2. Unopposed(dim, c, recorded'[c]) /\ Enough(dim, c, recorded'[c])
    BY <1>1, ReadAfter DEF Met
  <2>3. ValidSupport(dim, c, recorded'[c]) = ValidSupport(dim, c, recorded[c])
    BY <2>1 DEF ValidSupport, Arrived
  <2>4. Enough(dim, c, recorded[c])
    BY <2>2, <2>3 DEF Enough
  <2> QED BY <2>1, <2>2, <2>4 DEF Met, Unopposed
<1> QED BY <1>1, FewerMet

\* Support never lowers and opposition never raises a level, whatever came
\* before (the merged findings of CRL and the precedence of all rows).
THEOREM LevelsFollowEvidence == RulesSpec => LevelFollowsEvidence
<1>1. RulesInv /\ [RulesNext]_rulesVars =>
        [/\ (\A c \in Registry[dim] : \A r \in Arrived(c) : r.decision # "does_not_support")
               => Attained' >= Attained
         /\ (\A c \in Registry[dim] : \A r \in Arrived(c) : r.decision # "supports")
               => Attained' <= Attained]_rulesVars
  BY SupportStep, OppositionStep
<1> QED BY <1>1, Invariance, PTL DEF RulesSpec, LevelFollowsEvidence

----------------------------------------------------------------------------
\* What a level says of the evidence behind it.

\* A criterion at or below the level that blocks by itself has enough support.
LEMMA AttainedIsMet ==
  ASSUME RulesTypeOK, NEW c \in Registry[dim], Applies(c), Level(c) <= Attained,
         dim = "IPRL" => Gate[c] = "required"
  PROVE  Enough(dim, c, recorded[c])
<1>1. Top[dim] \in Nat /\ Unmet \in SUBSET (1..Top[dim]) /\ Attained = Reached(Top[dim], Unmet)
  BY LevelReads DEF LevelRead, RulesTypeOK
<1>2. Attained \in Int /\ \A l \in Unmet : Attained < l /\ l \in Int
  BY <1>1, ReachedIs
<1>3. ~Blocks(c)
  BY <1>2 DEF Unmet
<1>4. ~Stops(c)
  BY <1>3, RowsReads DEF RowsRead, RulesTypeOK
<1> QED BY <1>4 DEF Stops, Met

LEMMA LevelMeansStrengthState == RulesInv => LevelMeansStrength
<1> SUFFICES ASSUME RulesInv PROVE LevelMeansStrength
  OBVIOUS
<1>1. ASSUME dim = "CRL", Attained >= 4
      PROVE  Cardinality(Contacts({r \in recorded[<<"CRL", 4, "C1">>] : r.complete})) >= 2
  <2> DEFINE c == <<"CRL", 4, "C1">>
             shown == Contacts(ValidSupport(dim, c, recorded[c]))
             all == Contacts({r \in recorded[c] : r.complete})
  <2>1. c \in Registry[dim] /\ Level(c) = 4 /\ Applies(c)
    BY <1>1, RegistryAssumption DEF Level, Applies
  <2>2. CrlRequirementsMet(c, ValidSupport(dim, c, recorded[c]))
    BY <1>1, <2>1, AttainedIsMet DEF RulesInv, Enough
  <2>3. Cardinality(shown) >= 2
    BY <2>2 DEF CrlRequirementsMet, CrlRequirements
  <2>4. shown \subseteq all
    BY <1>1 DEF Contacts, ValidSupport, IsValid, CrlValid
  <2>5. IsFiniteSet(all)
    BY <2>1, ContactsFinite DEF RulesInv, RulesTypeOK, Finite
  <2> HIDE DEF shown, all
  <2>6. Cardinality(shown) <= Cardinality(all) /\ Cardinality(all) \in Nat
        /\ Cardinality(shown) \in Nat
    BY <2>4, <2>5, FS_Subset, FS_CardinalityType
  <2>7. Cardinality(all) >= 2
    BY <2>3, <2>6
  <2> QED BY <2>7 DEF all
<1>2. ASSUME dim = "BRL", Attained >= 7
      PROVE  \E r \in recorded[<<"BRL", 7, "BM">>] :
               /\ r.complete /\ r.scope = ThisScope
               /\ {"delivered", "fulfilled"} \subseteq r.facts /\ Cardinality(r.parties) >= 2
  <2> DEFINE c == <<"BRL", 7, "BM">>
  <2>1. c \in Registry[dim] /\ Level(c) = 7 /\ Applies(c)
    BY <1>2, RegistryAssumption DEF Level, Applies
  <2>2. PICK r \in ValidSupport(dim, c, recorded[c]) : Suffices(dim, c, r)
    BY <1>2, <2>1, AttainedIsMet DEF RulesInv, Enough
  <2>3. BrlSupport(c, r) /\ r \in recorded[c] /\ r.complete /\ r.scope = ThisScope
    BY <1>2, <2>2 DEF Suffices, ValidSupport, IsValid, BrlValid, InScope
  <2> QED BY <2>3 DEF BrlSupport
<1>3. ASSUME dim = "FRL", Attained >= 8
      PROVE  \E r \in recorded[<<"FRL", 8, "STATUS">>] :
               /\ r.complete /\ r.scope = ThisScope
               /\ {"cash_now"} \subseteq r.facts \/ {"closed_or_drawable"} \subseteq r.facts
               /\ Cardinality(r.parties) >= 0
  <2> DEFINE c == <<"FRL", 8, "STATUS">>
  <2>1. c \in Registry[dim] /\ Level(c) = 8 /\ Applies(c)
    BY <1>3, RegistryAssumption DEF Level, Applies, NotApplicable
  <2>2. PICK r \in ValidSupport(dim, c, recorded[c]) : Suffices(dim, c, r)
    BY <1>3, <2>1, AttainedIsMet DEF RulesInv, Enough
  <2>3. FrlSupport(c, r) /\ r \in recorded[c] /\ r.complete /\ r.scope = ThisScope
    BY <1>3, <2>2 DEF Suffices, ValidSupport, IsValid, FrlValid, InScope
  <2>4. Cardinality(r.parties) \in Nat
    BY <2>1, <2>3, RulesAssumption, FS_CardinalityType DEF RulesInv, RulesTypeOK
  <2>5. StatusBuckets(c) = {"cash_now", "closed_or_drawable"}
    BY DEF StatusBuckets, Level
  <2>6. r.facts \cap {"cash_now", "closed_or_drawable"} # {}
    BY <2>3, <2>5 DEF FrlSupport
  <2> QED BY <2>3, <2>4, <2>6
<1>4. ASSUME dim = "TRL", Attained >= 9
      PROVE  \E r \in recorded[<<"TRL", 9, "C1">>] :
               /\ r.complete /\ r.scope = ThisScope
               /\ {"project_specific", "longitudinal_period"} \subseteq r.facts
               /\ Cardinality(r.parties) >= 2
  <2> DEFINE c == <<"TRL", 9, "C1">>
  <2>1. c \in Registry[dim] /\ Level(c) = 9 /\ Applies(c)
    BY <1>4, RegistryAssumption DEF Level, Applies
  <2>2. PICK r \in ValidSupport(dim, c, recorded[c]) : Suffices(dim, c, r)
    BY <1>4, <2>1, AttainedIsMet DEF RulesInv, Enough
  <2>3. TrlSupport(c, r) /\ r \in recorded[c] /\ r.complete /\ r.scope = ThisScope
        /\ r.class \in OperationClasses
    BY <1>4, <2>2, RegistryAssumption DEF Suffices, ValidSupport, IsValid, TrlValid, InScope
  <2>4. TrlStrength(c, r) /\ "project_specific" \in r.facts
    BY <2>3 DEF TrlSupport
  <2>5. Cardinality(r.parties) >= 2 /\ "longitudinal_period" \in r.facts
    BY <2>3, <2>4 DEF TrlStrength, OperationClasses
  <2> QED BY <2>3, <2>4, <2>5
<1>5. ASSUME dim = "IPRL", Attained >= 9
      PROVE  \E r \in recorded[<<"IPRL", 9, "C2">>] :
               /\ r.complete /\ r.scope = ThisScope
               /\ {"held_by_subject", "in_force"} \subseteq r.facts /\ Cardinality(r.parties) >= 2
  <2> DEFINE c == <<"IPRL", 9, "C2">>
  <2>1. c \in Registry[dim] /\ Level(c) = 9 /\ Applies(c) /\ Gate[c] = "required"
    BY <1>5, RegistryAssumption DEF Level, Applies
  <2>2. PICK r \in ValidSupport(dim, c, recorded[c]) : Suffices(dim, c, r)
    BY <1>5, <2>1, AttainedIsMet DEF RulesInv, Enough
  <2>3. IprlSupport(c, r) /\ r \in recorded[c] /\ r.complete /\ r.scope = ThisScope
    BY <1>5, <2>2 DEF Suffices, ValidSupport, IsValid, IprlValid, InScope
  <2>4. "held_by_subject" \in r.facts
    BY <2>3 DEF IprlSupport, RightsCriteria
  <2>5. "in_force" \in r.facts /\ Cardinality(r.parties) >= 2
    BY <2>3 DEF IprlSupport
  <2> QED BY <2>3, <2>4, <2>5
<1>6. ASSUME dim = "TMRL", NEW c \in Registry[dim], Level(c) <= Attained
      PROVE  \E r \in recorded[c] : r.scope = ThisScope /\ r.parties # {} /\
               (\A p \in r.parties : IdentityOverlaySupports(p))
  <2>1. Applies(c)
    BY <1>6 DEF Applies
  <2>2. PICK r \in ValidSupport(dim, c, recorded[c]) : Suffices(dim, c, r)
    BY <1>6, <2>1, AttainedIsMet DEF RulesInv, Enough
  <2>3. TmrlSupport(c, r) /\ r \in recorded[c] /\ r.scope = ThisScope
    BY <1>6, <2>2 DEF Suffices, ValidSupport, IsValid, TmrlValid, InScope
  <2> QED BY <2>3 DEF TmrlSupport
<1> QED BY <1>1, <1>2, <1>3, <1>4, <1>5, <1>6, Zenon DEF LevelMeansStrength

\* No level without the strength of evidence its criteria ask for: two contacts,
\* a fulfilled sale, money at hand, independent users, a right held and in
\* force, confirmed members (_support of all kernels).
THEOREM LevelsMeanStrength == RulesSpec => []LevelMeansStrength
BY Invariance, LevelMeansStrengthState, PTL
=============================================================================
