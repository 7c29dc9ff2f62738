-------------------------- MODULE MCProviderGateway ---------------------------
(* ProviderGateway on small sets, one authorisation or a revised one. *)
EXTENDS ProviderGateway, TLC

CONSTANT m0, m1, t1, t2, input, artifact

InputsMC == {input}
OutputsMC == {artifact}
DigestMC == [t \in Tasks |-> input]
TokensMC == {"input", "output"}
ScopesMC == {"digest0", "scope1", "scope2"}
Amount(i, o) == [input |-> i, output |-> o]
NoPrior == [t \in Tasks |-> None]

(* Two output tokens are reserved; the provider uses as many, or one less  *)
(* or one more.                                                            *)
BoundsMC == {Amount(1, 2)}
UsagesMC == {Amount(1, n) : n \in 1..3}
Symmetry == Permutations({t1, t2}) \cup Permutations(Pids)

(* m0 is older than the usage ledger and its use is lost; m1 is a row      *)
(* migrated under the digest of its authorisation.                         *)
HistoryMC ==
  << [task |-> m0, outcome |-> "outcome_unknown", usage |-> None,
      spent |-> Amount(1, 1), scope |-> None, reserved |-> Amount(0, 0)],
     [task |-> m1, outcome |-> "succeeded", usage |-> Amount(1, 1),
      spent |-> Amount(1, 1), scope |-> "digest0", reserved |-> Amount(1, 2)] >>
AuthMC ==
  [scope |-> "scope1", mapped |-> {"digest0"}, requestCap |-> 4,
   caps |-> Amount(4, 5), bounds |-> BoundsMC,
   prior |-> [NoPrior EXCEPT ![m0] = Amount(1, 1)]]
AuthsMC == {AuthMC}

(* A young case: no history, and an authorisation that is revised into a   *)
(* new scope with the old one as its lineage.                              *)
NoHistory == << >>
SmallAuth ==
  [scope |-> "scope1", mapped |-> {}, requestCap |-> 4, caps |-> Amount(9, 3),
   bounds |-> BoundsMC, prior |-> NoPrior]
Revised == {SmallAuth, [SmallAuth EXCEPT !.scope = "scope2", !.mapped = {"scope1"}]}
=============================================================================
