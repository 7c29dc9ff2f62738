--------------------------- MODULE DimensionRules ---------------------------
(***************************************************************************)
(* The six dimension kernels (kernels/crl.py, brl.py, frl.py, trl.py,      *)
(* iprl.py, tmrl.py): from the controlled reviews of one dimension and one *)
(* scope to a disposition per criterion and a cumulative level.            *)
(*                                                                         *)
(* A criterion is a triple <<dimension, level, tag>>, "TRL5-C4" being      *)
(* <<"TRL", 5, "C4">>.  A review keeps what the kernels read of it: whether *)
(* its record has every field (complete) and no empty identity (named),    *)
(* the scope it is bound to, its decision, its evidence class, the         *)
(* findings that hold (facts; an enumerated finding is the fact that it    *)
(* has that value) and the distinct parties its lists name (contacts,      *)
(* customers, users, jurisdictions, team subjects).  For every kernel:     *)
(* which reviews are valid, which support suffices, the disposition of a   *)
(* row, and when a criterion blocks the loop over the levels.              *)
(***************************************************************************)
EXTENDS Naturals, FiniteSets

CONSTANTS
  Registry,   \* the criteria of each dimension, as the catalog registers them
  Top,        \* the highest level of each dimension: 4 for CRL, 9 otherwise
  Gate,       \* IPRL criterion -> "required", "optional" or the name of a one_of group
  NaAllowed,  \* criterion -> "never" or "explicit_no_external_financing_only"
  Eligible,   \* criterion -> the evidence classes the registry accepts
  Review,     \* the reviews that may be recorded
  Offered,    \* criterion -> the reviews that may arrive for it
  AtStart,    \* dimension -> criterion -> the reviews recorded at the start
  ThisScope,  \* the assessment unit or financing entity being evaluated
  Overlay,    \* team subject -> its identity overlay: the scope, the resolution
              \* status and whether the frozen proofs carry the same values
  MaxReviews  \* bound: distinct reviews that arrive

VARIABLES
  dim,      \* the dimension evaluated
  policy,   \* what the case states on external financing: for which entity it is
            \* proved and whether it is planned; NoPolicy when nothing is stated
  recorded  \* criterion -> the controlled reviews recorded for it

rulesVars == <<dim, policy, recorded>>

NoPolicy == [entity |-> "none", planned |-> TRUE]

Kernels == {"CRL", "BRL", "FRL", "TRL", "IPRL", "TMRL"}
Level(c) == c[2]

ASSUME RulesAssumption ==
  /\ \A d \in Kernels : Top[d] \in Nat
  /\ \A d \in Kernels : \A c \in Registry[d] : c[1] = d /\ Level(c) \in 1..Top[d]
  /\ \A d \in Kernels : AtStart[d] \in [Registry[d] -> SUBSET Review]
  /\ \A d \in Kernels : \A c \in Registry[d] : IsFiniteSet(AtStart[d][c])
  /\ \A r \in Review : IsFiniteSet(r.parties)
  /\ \A d \in Kernels : \A c \in Registry[d] :
       /\ Offered[c] \subseteq Review
       /\ NaAllowed[c] \in {"never", "explicit_no_external_financing_only"}

----------------------------------------------------------------------------
Decided(r) == r.decision \in {"supports", "does_not_support"}
InScope(c, r) == r.scope = ThisScope /\ r.class \in Eligible[c]
Opposing(R) == {r \in R : r.decision = "does_not_support"}
Supporting(R) == {r \in R : r.decision = "supports"}

(* Mutant: sufficient support decides before opposition is looked at. *)
DispositionSupportFirst(support, negatives, sufficient) ==
  IF sufficient THEN "met"
  ELSE IF negatives # {} THEN "not_met" ELSE "insufficient"

\* The branches every row goes through, in their order: opposition is looked at
\* before support.
Disposition(support, negatives, sufficient) ==
  IF negatives # {} THEN IF support # {} THEN "partial" ELSE "not_met"
  ELSE IF sufficient THEN "met" ELSE "insufficient"

----------------------------------------------------------------------------
\* CRL: structure only, no scope and no evidence class; the findings of all
\* supporting reviews are merged, and every valid one counts against opposition.

CrlValid(r) == r.complete /\ r.named /\ Decided(r)

CrlRequirements(c) ==
  CASE c = <<"CRL", 3, "C1">> -> {"contacts"}
    [] c = <<"CRL", 4, "C1">> -> {"contacts", "importance_confirmed"}
    [] c = <<"CRL", 4, "C4">> -> {"contacts", "positioning"}
    [] OTHER                  -> {"requirement"}

Contacts(R) == UNION {r.parties : r \in R}

(* Mutant: every review must show all findings itself. *)
CrlRequirementsMetByEach(c, R) ==
  R # {} /\ \A r \in R : CrlRequirements(c) \ {"contacts"} \subseteq r.facts

CrlRequirementsMet(c, R) ==
  /\ R # {}
  /\ "contacts" \in CrlRequirements(c) =>
       Cardinality(Contacts(R)) >= (IF c = <<"CRL", 4, "C1">> THEN 2 ELSE 1)
  /\ CrlRequirements(c) \ {"contacts"} \subseteq UNION {r.facts : r \in R}

CrlNative(c) ==
  LET valid == {r \in recorded[c] : CrlValid(r)}
  IN Disposition(Supporting(valid), Opposing(valid), CrlRequirementsMet(c, Supporting(valid)))

CrlBlocks(c) == CrlNative(c) # "met"

----------------------------------------------------------------------------
\* TRL: project-specific findings, then what the evidence class asks for.

TrlValid(c, r) == r.complete /\ r.named /\ Decided(r) /\ InScope(c, r)

TestClasses == {"lab_test", "test_record", "independent_test", "relevant_environment_test",
                "operational_demonstration", "actual_operation",
                "independent_operation_record", "longitudinal_operation"}
OperationClasses == {"actual_operation", "independent_operation_record", "longitudinal_operation"}

TestEnvironment(level) ==
  CASE level <= 4     -> "laboratory"
    [] level \in 5..6 -> "relevant"
    [] level = 7      -> "operational"
    [] OTHER          -> "actual_operation"

TrlStrength(c, r) ==
  CASE r.class = "r_and_d_record" -> "active" \in r.facts
    [] r.class = "requirements_record" ->
         /\ "requirements_documented" \in r.facts
         /\ c = <<"TRL", 5, "C4">> => "user_feedback_bound" \in r.facts
         /\ c = <<"TRL", 7, "C3">> => "complete_requirements" \in r.facts
    [] r.class = "manufacturing_record" -> "manufacturing_results" \in r.facts
    [] r.class = "continuous_improvement_record" ->
         {"improvement_period", "improvement_actions"} \subseteq r.facts
    [] OTHER ->
         /\ r.class \in TestClasses /\ Level(c) >= 3 =>
              {"test_described", TestEnvironment(Level(c))} \subseteq r.facts
         /\ Level(c) >= 4 /\ "component_only" \in r.facts =>
              "complete_system_boundary" \in r.facts
         /\ r.class \in OperationClasses => r.parties # {}
         /\ c = <<"TRL", 8, "C4">> => "day_to_day_operation" \in r.facts
         /\ c = <<"TRL", 9, "C1">> =>
              Cardinality(r.parties) >= 2 /\ "longitudinal_period" \in r.facts

(* Mutant: what the evidence class asks for is not looked at. *)
TrlSupportAnyStrength(c, r) ==
  {"requirement", "project_specific", "configuration", "system_boundary"} \subseteq r.facts

TrlSupport(c, r) ==
  /\ {"requirement", "project_specific", "configuration", "system_boundary"} \subseteq r.facts
  /\ TrlStrength(c, r)

(* Mutant: opposition is taken from every recorded review, valid or not. *)
TrlNative(c) ==
  LET valid   == {r \in recorded[c] : TrlValid(c, r)}
      support == {r \in Supporting(valid) : TrlSupport(c, r)}
  IN Disposition(support, Opposing(valid), support # {})

TrlBlocks(c) == TrlNative(c) # "met"

----------------------------------------------------------------------------
\* BRL: the commitment a price or sale must show grows with the level.

BrlValid(c, r) == r.complete /\ r.named /\ Decided(r) /\ InScope(c, r)

TransactionClasses ==
  {"qualified_pricing_test", "qualified_preorder", "pilot_or_test_sale", "commercial_sale"}

Commitments(level) ==
  {"delivered_sale", "repeat_sale"}
    \cup (IF level < 7 THEN {"non_refundable_deposit", "paid_preorder"} ELSE {})
    \cup (IF level < 6 THEN {"incentive_compatible_price_test"} ELSE {})

PreorderFacts == {"amount_qualified", "refundability_visible", "intended_price_bridge",
                  "fulfillment_status_visible", "buyer_status_qualified", "denominator_visible",
                  "not_refundable"}

BrlSupport(c, r) ==
  /\ "requirement" \in r.facts
  /\ c[3] = "BM" /\ Level(c) >= 5 /\ r.class \in TransactionClasses =>
       r.facts \cap Commitments(Level(c)) # {}
  /\ c = <<"BRL", 6, "BM">> =>
       /\ r.class = "qualified_preorder" => PreorderFacts \subseteq r.facts
       /\ r.class \in {"pilot_or_test_sale", "commercial_sale"} => "fulfilled" \in r.facts
  /\ c = <<"BRL", 7, "BM">> =>
       /\ {"commercial_terms", "delivered", "fulfilled"} \subseteq r.facts
       /\ Cardinality(r.parties) >= 2
  /\ c \in {<<"BRL", 8, "BM">>, <<"BRL", 9, "BM">>} =>
       {"operating_period", "metric_denominator", "profit_on_target", "growth_on_target"}
         \cup (IF Level(c) = 9 THEN {"scalability_on_target"} ELSE {}) \subseteq r.facts

BrlNative(c) ==
  LET valid   == {r \in recorded[c] : BrlValid(c, r)}
      support == {r \in Supporting(valid) : BrlSupport(c, r)}
  IN Disposition(support, Opposing(valid), support # {})

BrlBlocks(c) == BrlNative(c) # "met"

----------------------------------------------------------------------------
\* FRL: the bucket of funds a status criterion accepts.

FrlValid(c, r) == r.complete /\ r.named /\ Decided(r) /\ InScope(c, r)

StatusBuckets(c) ==
  IF c[3] # "STATUS" THEN {}
  ELSE CASE Level(c) \in {3, 4, 8} -> {"cash_now", "closed_or_drawable"}
         [] Level(c) = 5           -> {"binding_conditional", "closed_or_drawable"}
         [] Level(c) \in {6, 9}    -> {"soft_or_nonbinding", "binding_conditional"}
         [] Level(c) = 7           -> {"soft_or_nonbinding"}
         [] OTHER                  -> {}

FrlSupport(c, r) ==
  /\ "requirement" \in r.facts
  /\ StatusBuckets(c) # {} => r.facts \cap StatusBuckets(c) # {}
  /\ "preorder_cash" \in r.facts => "delivery_refund_obligations_visible" \in r.facts

\* A sourced policy of this very entity that plans no external financing.
LegalNoExternalPolicy == policy.entity = ThisScope /\ ~policy.planned

NotApplicable(c) ==
  LegalNoExternalPolicy /\ NaAllowed[c] = "explicit_no_external_financing_only"

FrlNative(c) ==
  LET valid   == {r \in recorded[c] : FrlValid(c, r)}
      support == {r \in Supporting(valid) : FrlSupport(c, r)}
  IN IF NotApplicable(c) THEN "not_applicable"
     ELSE Disposition(support, Opposing(valid), support # {})

FrlBlocks(c) == FrlNative(c) \notin {"met", "not_applicable"}

----------------------------------------------------------------------------
\* IPRL: the record must be of the kind its class claims; rights and freedom
\* to operate are bound to the subject and the product.

IprlValid(c, r) == r.complete /\ Decided(r) /\ InScope(c, r)

OfficialClasses == {"early_filing", "formal_application", "office_action_record",
                    "positive_authority_response", "national_regional_phase_record",
                    "granted_right", "maintained_right", "complementary_filing"}
AgreementClasses == {"executed_assignment", "founder_employee_contractor_agreement",
                     "license_agreement", "ownership_agreement", "external_ip_access_agreement"}
ProfessionalClasses == {"professional_analysis", "professional_search",
                        "professional_protectability_analysis", "professional_ip_strategy",
                        "professional_response_analysis", "fto_assessment"}
RightsCriteria == {<<"IPRL", 2, "C3">>, <<"IPRL", 5, "C3">>, <<"IPRL", 8, "C2">>,
                   <<"IPRL", 9, "C2">>, <<"IPRL", 9, "C3">>}
FtoCriteria == {<<"IPRL", 6, "C3">>, <<"IPRL", 7, "C2">>}

IprlSupport(c, r) ==
  /\ {"requirement", "ip_specific", "asset"} \subseteq r.facts
  /\ r.class \in OfficialClasses => "official_registry_record" \in r.facts
  /\ r.class \in AgreementClasses => "executed_agreement" \in r.facts
  /\ r.class \in ProfessionalClasses => "professional_analysis" \in r.facts
  /\ c \in RightsCriteria => {"project_right_binding", "held_by_subject"} \subseteq r.facts
  /\ c \in FtoCriteria => {"product_and_jurisdiction", "professional_scope"} \subseteq r.facts
  /\ c = <<"IPRL", 8, "C2">> => {"granted", "claim_scope_recorded", "jurisdiction"} \subseteq r.facts
  /\ c \in {<<"IPRL", 8, "C2">>, <<"IPRL", 9, "C2">>} => "in_force" \in r.facts
  /\ c = <<"IPRL", 9, "C2">> =>
       Cardinality(r.parties) >= 2 /\ "maintenance_verified" \in r.facts

IprlNative(c) ==
  LET valid   == {r \in recorded[c] : IprlValid(c, r)}
      support == {r \in Supporting(valid) : IprlSupport(c, r)}
  IN Disposition(support, Opposing(valid), support # {})

\* Only required criteria block by themselves; a member of a one_of group blocks
\* when no member up to its level is met.
IprlBlocks(c) ==
  \/ Gate[c] = "required" /\ IprlNative(c) # "met"
  \/ /\ Gate[c] \notin {"required", "optional"}
     /\ \A m \in Registry["IPRL"] :
          Gate[m] = Gate[c] /\ Level(m) <= Level(c) => IprlNative(m) # "met"

----------------------------------------------------------------------------
\* TMRL: every named subject needs a supporting identity overlay of the scope;
\* biographies and relations alone are no team record.

TmrlValid(c, r) == r.complete /\ Decided(r) /\ InScope(c, r)

OperatingClasses == {"accountability_operating_record", "board_advisor_operating_record",
                     "founder_team_operating_record", "learning_performance_record",
                     "management_continuity_record", "organization_performance_record",
                     "team_operating_record"}

DocumentedClasses == {"team_needs_hypothesis", "competency_gap_record", "project_goal_record",
                      "execution_route_record", "organization_charter"}

\* What the record of an evidence class must show; a class without a rule shows
\* nothing that counts.
TmrlRecord(c, r) ==
  CASE r.class \in {"executed_ownership_agreement", "executed_role_commitment_record"} ->
         {"executed_agreement"}
    [] r.class \in OperatingClasses -> {"operating_record", "operating_period", "actual_behaviors"}
    [] r.class \in {"team_capability_snapshot", "team_capability_matrix"} ->
         {"verified_current", "work_evidence"}
           \cup (IF c = <<"TMRL", 6, "C2">> THEN {"ceo"} ELSE {})
    [] r.class = "hiring_or_access_plan" ->
         IF c = <<"TMRL", 4, "C4">> THEN {"initiated"} ELSE {"planned"}
    [] r.class = "champion_commitment_record" -> {"committed", "verified_current"}
    [] r.class = "team_alignment_record" -> {"documented", "committed"}
    [] r.class = "executive_role_record" -> {"active", "ceo"}
    [] r.class = "management_team_record" -> {"active", "ceo"}
    [] r.class \in {"recruitment_execution_record", "board_advisor_record"} ->
         {"active", "actual_actions"}
    [] r.class \in {"knowledge_system_record", "team_risk_management_record",
                    "learning_development_process", "continuous_improvement_record",
                    "hr_policy_process"} -> {"operating", "actual_use"}
    [] r.class = "organization_growth_plan" -> {"documented", "two_year_horizon"}
    [] r.class \in {"training_motivation_record", "incentive_alignment_record"} ->
         {"executed_or_verified", "population"}
    [] r.class \in DocumentedClasses -> {"documented"}
    [] OTHER -> {"no rule for the class"}

\* The overlay of a subject supports this scope, and its proofs carry its values.
IdentityOverlaySupports(p) ==
  /\ p \in DOMAIN Overlay
  /\ Overlay[p].scope = ThisScope
  /\ Overlay[p].status \in {"verified", "probable", "ok"}
  /\ Overlay[p].proved

TmrlSupport(c, r) ==
  /\ {"requirement", "team_specific", "current_period"} \subseteq r.facts
  /\ r.parties # {} /\ (\A p \in r.parties : IdentityOverlaySupports(p))
  /\ {"biography_only", "public_claim_only", "identity_only"} \cap r.facts = {}
  /\ "relationship_only" \in r.facts => "causal_execution_effect" \in r.facts
  /\ TmrlRecord(c, r) \subseteq r.facts

TmrlNative(c) ==
  LET valid   == {r \in recorded[c] : TmrlValid(c, r)}
      support == {r \in Supporting(valid) : TmrlSupport(c, r)}
  IN Disposition(support, Opposing(valid), support # {})

TmrlBlocks(c) == TmrlNative(c) # "met"

----------------------------------------------------------------------------
\* A dimension: its rows, and the level below the first blocked one.

Valid(c, r) ==
  CASE dim = "CRL"  -> CrlValid(r)
    [] dim = "BRL"  -> BrlValid(c, r)
    [] dim = "FRL"  -> FrlValid(c, r)
    [] dim = "TRL"  -> TrlValid(c, r)
    [] dim = "IPRL" -> IprlValid(c, r)
    [] dim = "TMRL" -> TmrlValid(c, r)

Native(c) ==
  CASE dim = "CRL"  -> CrlNative(c)
    [] dim = "BRL"  -> BrlNative(c)
    [] dim = "FRL"  -> FrlNative(c)
    [] dim = "TRL"  -> TrlNative(c)
    [] dim = "IPRL" -> IprlNative(c)
    [] dim = "TMRL" -> TmrlNative(c)

Blocks(c) ==
  CASE dim = "CRL"  -> CrlBlocks(c)
    [] dim = "BRL"  -> BrlBlocks(c)
    [] dim = "FRL"  -> FrlBlocks(c)
    [] dim = "TRL"  -> TrlBlocks(c)
    [] dim = "IPRL" -> IprlBlocks(c)
    [] dim = "TMRL" -> TmrlBlocks(c)

\* The loop over the levels stops below the first blocked one.
Lowest(S) == CHOOSE l \in S : \A k \in S : l <= k

Attained ==
  LET unmet == {Level(c) : c \in {k \in Registry[dim] : Blocks(k)}}
  IN IF unmet = {} THEN Top[dim] ELSE Lowest(unmet) - 1

\* CRL succeeds when its top level is attained, the others when every row is
\* decided either way.
ProductStatus ==
  IF dim = "CRL" THEN IF Attained = Top[dim] THEN "succeeded" ELSE "insufficient"
  ELSE IF \A c \in Registry[dim] : Native(c) # "insufficient" THEN "succeeded"
  ELSE "insufficient"

----------------------------------------------------------------------------
RulesInit ==
  /\ dim \in Kernels
  /\ policy \in IF dim = "FRL" THEN [entity : {ThisScope, "other"}, planned : BOOLEAN]
               ELSE {NoPolicy}
  /\ recorded = AtStart[dim]

\* A controlled review is recorded; reviews are never changed or removed.
Record(c, r) ==
  /\ r \in Offered[c] \ recorded[c]
  /\ Cardinality(UNION {recorded[k] \ AtStart[dim][k] : k \in Registry[dim]}) < MaxReviews
  /\ recorded' = [recorded EXCEPT ![c] = @ \cup {r}]
  /\ UNCHANGED <<dim, policy>>

RulesNext == \E c \in Registry[dim] : \E r \in Offered[c] : Record(c, r)

RulesSpec == RulesInit /\ [][RulesNext]_rulesVars

----------------------------------------------------------------------------
\* What the approved registries say of the criteria LevelMeansStrength names.
ASSUME RegistryAssumption ==
  /\ \A c \in {<<"CRL", 4, "C1">>, <<"BRL", 7, "BM">>, <<"FRL", 8, "STATUS">>, <<"TRL", 9, "C1">>,
               <<"IPRL", 9, "C2">>} : c \in Registry[c[1]]
  /\ NaAllowed[<<"FRL", 8, "STATUS">>] = "never"
  /\ Eligible[<<"TRL", 9, "C1">>] \subseteq OperationClasses
  /\ Gate[<<"IPRL", 9, "C2">>] = "required"

----------------------------------------------------------------------------
\* Properties.

\* The recorded reviews are reviews, grouped by the criteria of the dimension
\* (by_criterion in every kernel).
RulesTypeOK ==
  /\ dim \in Kernels
  /\ policy.planned \in BOOLEAN
  /\ recorded \in [Registry[dim] -> SUBSET Review]

\* No amount of support outvotes a valid opposing review: while one stands
\* against a required criterion that applies, the level of that criterion is
\* not attained (the rows' partial and not_met, and the cumulative loops).
OppositionCaps ==
  \A c \in Registry[dim] :
    /\ dim = "IPRL" => Gate[c] = "required"
    /\ dim = "FRL" => ~NotApplicable(c)
    /\ \E r \in recorded[c] : Valid(c, r) /\ r.decision = "does_not_support"
    => Attained < Level(c)

\* What a level promises of the evidence behind it, through validity, support
\* rules, rows and the cumulative loop: two distinct contacts (CRL 4), a sale
\* fulfilled to two customers (BRL 7), money at hand (FRL 8), two independent
\* users over a period (TRL 9), a right held by the subject and kept in two
\* countries (IPRL 9), only confirmed members (TMRL, every level).
LevelMeansStrength ==
  LET shown(c, facts, parties) ==
        \E r \in recorded[c] : /\ r.complete /\ r.scope = ThisScope
                              /\ facts \subseteq r.facts /\ Cardinality(r.parties) >= parties
  IN /\ dim = "CRL" /\ Attained >= 4 =>
          Cardinality(Contacts({r \in recorded[<<"CRL", 4, "C1">>] : r.complete})) >= 2
     /\ dim = "BRL" /\ Attained >= 7 =>
          shown(<<"BRL", 7, "BM">>, {"delivered", "fulfilled"}, 2)
     /\ dim = "FRL" /\ Attained >= 8 =>
          \/ shown(<<"FRL", 8, "STATUS">>, {"cash_now"}, 0)
          \/ shown(<<"FRL", 8, "STATUS">>, {"closed_or_drawable"}, 0)
     /\ dim = "TRL" /\ Attained >= 9 =>
          shown(<<"TRL", 9, "C1">>, {"project_specific", "longitudinal_period"}, 2)
     /\ dim = "IPRL" /\ Attained >= 9 =>
          shown(<<"IPRL", 9, "C2">>, {"held_by_subject", "in_force"}, 2)
     /\ dim = "TMRL" => \A c \in Registry[dim] : Level(c) <= Attained =>
          \E r \in recorded[c] : r.scope = ThisScope /\ r.parties # {} /\ (\A p \in r.parties : IdentityOverlaySupports(p))

Arrived(c) == recorded'[c] \ recorded[c]

\* A review that is incomplete, of another scope or of an ineligible class
\* changes neither the level nor the status (the _valid functions).
ForeignReviewsInert ==
  [][(\A c \in Registry[dim] : \A r \in Arrived(c) : ~Valid(c, r))
       => Attained' = Attained /\ ProductStatus' = ProductStatus]_rulesVars

\* More support never lowers the level, more opposition never raises it,
\* whatever was recorded before (the precedence of the rows' branches).
LevelFollowsEvidence ==
  [][/\ (\A c \in Registry[dim] : \A r \in Arrived(c) : r.decision # "does_not_support")
          => Attained' >= Attained
     /\ (\A c \in Registry[dim] : \A r \in Arrived(c) : r.decision # "supports")
          => Attained' <= Attained]_rulesVars
=============================================================================
