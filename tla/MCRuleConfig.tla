---------------------------- MODULE MCRuleConfig ----------------------------
(* Instances of RuleConfig.                                                *)
EXTENDS RuleConfig, TLC
CONSTANTS c1, c2
TwoClis == {c1, c2}
Symm == Permutations(TwoClis)
TwoRules == <<{[f \in {"protocol"} |-> 1], [f \in {"protocol", "srcip"} |-> 2]}, {AnyRule, [f \in {"key"} |-> 1]}>>
(* Set 2 also with a rule that has no key.                                 *)
CamRules == <<{[f \in {"protocol"} |-> 1]}, {AnyRule, [f \in {"key"} |-> 1]}>>
OneRule == <<{[f \in {"protocol", "srcip"} |-> 1]}, {[f \in {"key"} |-> 1]}>>
=============================================================================
