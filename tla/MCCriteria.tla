----------------------------- MODULE MCCriteria ------------------------------
(* Three standards, two rules, at most three mappings of each standard and *)
(* room for three criteria.  As in the shipped catalogue, a rule's         *)
(* mappings follow the order of the standards and only the first standard  *)
(* has direct controls.                                                    *)
EXTENDS Criteria

Order == <<"sw49", "cwe", "owasp">>

Block(standard, kind, count) ==
  [n \in 1..count |-> [standard |-> standard, id |-> n, kind |-> kind]]

MappingsOf(counts) ==
  Block("sw49", "direct_control", counts[1]) \o Block("cwe", "related_category", counts[2])
    \o Block("owasp", "related_category", counts[3])

Rules == <<"r1", "r2">>

AllCatalogues ==
  {[r \in {"r1", "r2"} |-> IF r = "r1" THEN MappingsOf(a) ELSE MappingsOf(b)] :
     a \in [1..3 -> 0..3], b \in [1..3 -> {0, 2}]}
=============================================================================
