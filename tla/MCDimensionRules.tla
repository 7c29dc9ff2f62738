------------------------- MODULE MCDimensionRules -------------------------
(***************************************************************************)
(* The approved registries with their real levels, gates and N/A policies. *)
(* Every criterion but one has a sufficient review at the start; reviews   *)
(* of every quality arrive for it and for one settled criterion.           *)
(***************************************************************************)
EXTENDS DimensionRules, TLC, Sequences

Tag == <<"C1", "C2", "C3", "C4", "C5">>
Numbered(d, counts) ==
  UNION {{<<d, l, Tag[i]>> : i \in 1..counts[l]} : l \in 1..Len(counts)}
Crossed(d, tags) == {<<d, l, t>> : l \in 1..9, t \in tags}

RegistryVal == [d \in Kernels |->
  CASE d = "CRL"  -> Numbered(d, <<3, 3, 3, 4>>)
    [] d = "TRL"  -> Numbered(d, <<2, 2, 3, 2, 4, 3, 3, 4, 2>>)
    [] d = "IPRL" -> Numbered(d, <<5, 4, 4, 3, 3, 5, 2, 3, 3>>)
    [] d = "TMRL" -> Numbered(d, <<2, 3, 3, 5, 5, 5, 5, 5, 5>>)
    [] d = "BRL"  -> Crossed(d, {"BM", "MO", "CO", "SU"})
    [] d = "FRL"  -> Crossed(d, {"NEED", "OPTIONS", "STATUS", "PITCH"})]
TopVal == [d \in Kernels |-> IF d = "CRL" THEN 4 ELSE 9]
All == UNION {RegistryVal[d] : d \in Kernels}
GateVal == [c \in RegistryVal["IPRL"] |->
  CASE c \in {<<"IPRL", 3, "C4">>, <<"IPRL", 4, "C3">>} -> "optional"
    [] c \in {<<"IPRL", 6, "C4">>, <<"IPRL", 6, "C5">>} -> "application_response_resolution"
    [] OTHER -> "required"]
NaVal == [c \in All |->
  IF c \in {<<"FRL", l, "PITCH">> : l \in 4..9} \cup {<<"FRL", l, "STATUS">> : l \in {6, 7, 9}}
  THEN "explicit_no_external_financing_only" ELSE "never"]

\* The best fact sets of the focused criteria, and the class they come with.
Focus == [c \in {<<"CRL", 4, "C1">>, <<"CRL", 2, "C1">>, <<"TRL", 9, "C1">>, <<"TRL", 5, "C4">>,
                 <<"BRL", 7, "BM">>, <<"BRL", 6, "BM">>, <<"FRL", 8, "STATUS">>,
                 <<"FRL", 6, "STATUS">>, <<"IPRL", 9, "C2">>, <<"IPRL", 6, "C4">>,
                 <<"TMRL", 6, "C2">>, <<"TMRL", 4, "C2">>} |->
  CASE c = <<"CRL", 4, "C1">> -> <<"none", {"importance_confirmed"}, {}>>
    [] c = <<"CRL", 2, "C1">> -> <<"none", {"requirement"}, {}>>
    [] c = <<"TRL", 9, "C1">> -> <<"longitudinal_operation",
         {"requirement", "project_specific", "configuration", "system_boundary",
          "test_described", "actual_operation", "longitudinal_period"}, {"component_only"}>>
    [] c = <<"TRL", 5, "C4">> -> <<"requirements_record",
         {"requirement", "project_specific", "configuration", "system_boundary",
          "requirements_documented", "user_feedback_bound"}, {}>>
    [] c = <<"BRL", 7, "BM">> -> <<"commercial_sale",
         {"requirement", "delivered_sale", "commercial_terms", "delivered", "fulfilled"}, {}>>
    [] c = <<"BRL", 6, "BM">> -> <<"qualified_preorder",
         PreorderFacts \cup {"requirement", "paid_preorder"}, {}>>
    [] c = <<"FRL", 8, "STATUS">> -> <<"drawable_facility", {"requirement", "closed_or_drawable"},
         {"preorder_cash"}>>
    [] c = <<"FRL", 6, "STATUS">> -> <<"funder_discussion_record",
         {"requirement", "soft_or_nonbinding"}, {}>>
    [] c = <<"IPRL", 9, "C2">> -> <<"maintained_right",
         {"requirement", "ip_specific", "asset", "official_registry_record",
          "project_right_binding", "held_by_subject", "in_force", "maintenance_verified"}, {}>>
    [] c = <<"IPRL", 6, "C4">> -> <<"office_action_record",
         {"requirement", "ip_specific", "asset", "official_registry_record"}, {}>>
    [] c = <<"TMRL", 6, "C2">> -> <<"team_capability_matrix",
         {"requirement", "team_specific", "current_period", "verified_current", "work_evidence",
          "ceo"}, {"identity_only", "relationship_only"}>>
    [] c = <<"TMRL", 4, "C2">> -> <<"champion_commitment_record",
         {"requirement", "team_specific", "current_period", "committed", "verified_current"}, {}>>]

Two == {"p1", "p2"}
OverlayVal == [p \in Two \cup {"stranger"} |->
  [scope |-> "unit", status |-> IF p = "stranger" THEN "unresolved" ELSE "probable",
   proved |-> TRUE]]
Made(complete, scope, decision, class, facts, parties) ==
  [complete |-> complete, named |-> TRUE, scope |-> scope, decision |-> decision, class |-> class,
   facts |-> facts, parties |-> parties]

\* For a focused criterion: its best review, one with a finding missing or a
\* disqualifying one added, one with fewer or other parties, one of another
\* scope, class or structure, and the opposing ones.
Arriving(c) ==
  LET class == Focus[c][1]
      full  == Focus[c][2]
      bad   == Focus[c][3]
      yes(facts, parties) == Made(TRUE, "unit", "supports", class, facts, parties)
  IN {yes(full, Two), yes(full, {"p1"}), yes(full, {"p1", "stranger"}), yes({}, Two)}
       \cup {yes(full \ {f}, Two) : f \in full}
       \cup {yes(full \cup {f}, Two) : f \in bad}
       \cup {Made(TRUE, "other", d, class, full, Two) : d \in {"supports", "does_not_support"}}
       \cup {Made(FALSE, "unit", d, class, full, Two) : d \in {"supports", "does_not_support"}}
       \cup {[Made(TRUE, "unit", "does_not_support", class, full, Two) EXCEPT !.named = FALSE]}
       \cup {Made(TRUE, "unit", d, "ineligible", full, Two) : d \in {"supports", "does_not_support"}}
       \cup {Made(TRUE, "unit", "does_not_support", class, {}, {})}

OfferedVal == [c \in All |-> IF c \in DOMAIN Focus THEN Arriving(c) ELSE {}]

\* One review with every finding a class may ask for settles the other criteria.
Everything == Made(TRUE, "unit", "supports", "registered",
  {"requirement", "positioning", "project_specific", "configuration", "system_boundary",
   "operating_period", "metric_denominator", "profit_on_target", "growth_on_target",
   "scalability_on_target", "cash_now", "closed_or_drawable", "binding_conditional",
   "soft_or_nonbinding", "ip_specific", "asset", "project_right_binding", "held_by_subject",
   "product_and_jurisdiction", "professional_scope", "granted", "claim_scope_recorded",
   "jurisdiction", "in_force", "maintenance_verified", "team_specific", "current_period",
   "day_to_day_operation"}, Two)
Settling(c) ==
  IF c \in DOMAIN Focus THEN Made(TRUE, "unit", "supports", Focus[c][1], Focus[c][2], Two)
  ELSE IF c[1] = "TMRL" THEN [Everything EXCEPT !.class = "team_needs_hypothesis",
                                                        !.facts = @ \cup {"documented"}]
               ELSE Everything
Open == {<<"CRL", 4, "C1">>, <<"TRL", 9, "C1">>, <<"BRL", 7, "BM">>, <<"FRL", 8, "STATUS">>,
         <<"IPRL", 9, "C2">>, <<"TMRL", 6, "C2">>}
AtStartVal == [d \in Kernels |->
  [c \in RegistryVal[d] |-> IF c \in Open THEN {} ELSE {Settling(c)}]]
EligibleVal == [c \in All |->
  {Settling(c).class} \cup (IF c \in DOMAIN Focus THEN {Focus[c][1]} ELSE {})]
ReviewVal == UNION {OfferedVal[c] : c \in All} \cup {Settling(c) : c \in All}
============================================================================
