------------------------------ MODULE Criteria -------------------------------
(***************************************************************************)
(* The standards criteria attached to findings and guidance items, and the *)
(* references of the standards they cite.  A mapping is a record           *)
(* [standard, id, kind]; a rule's mappings are a sequence of them, in the  *)
(* catalogue's order.                                                      *)
(***************************************************************************)
EXTENDS Naturals, Sequences, FiniteSets, SequencesExt

CONSTANTS
  STANDARD_ORDER, \* the supported standards, in the catalogue's order
  MaxCriteria,    \* MAX_CRITERIA_PER_RULE
  MaxItems,       \* how many rules a guidance response carries (8)
  GUIDANCE_RULE_IDS, \* the rules guidance draws from, in order
  Catalogues         \* the values of RULE_STANDARD_MAPPINGS to look at

Standards  == ToSet(STANDARD_ORDER)
Selectable == Standards \cup {"all"}

GuidanceRules == ToSet(GUIDANCE_RULE_IDS)

Kinds == {"direct_control", "related_category"}

(* The mappings of a rule: none is there twice.                            *)
IsMappings(seq) ==
  /\ seq \in Seq(ToSet(seq))
  /\ IsInjective(seq)
  /\ \A n \in 1..Len(seq) : seq[n].standard \in Standards /\ seq[n].kind \in Kinds

ASSUME CriteriaAssumption ==
  /\ STANDARD_ORDER \in Seq(Standards)
  /\ IsInjective(STANDARD_ORDER)
  /\ "all" \notin Standards
  /\ MaxCriteria \in Nat \ {0}
  /\ MaxItems \in Nat \ {0}
  /\ GUIDANCE_RULE_IDS \in Seq(GuidanceRules)
  /\ \A c \in Catalogues : /\ IsFiniteSet(DOMAIN c)
                           /\ GuidanceRules \subseteq DOMAIN c
                           /\ \A rule \in DOMAIN c : IsMappings(c[rule])

(* A comprehension with a condition: the items wanted, in their order.     *)
Keep(kept, x) == IF x.wanted THEN Append(kept, x.item) ELSE kept

Among(seq, S) == FoldLeft(Keep, <<>>, [n \in 1..Len(seq) |-> [item |-> seq[n], wanted |-> seq[n] \in S]])

FirstOf(seq, n) == SubSeq(seq, 1, IF Len(seq) < n THEN Len(seq) ELSE n)

StandardsOf(seq) == {seq[n].standard : n \in 1..Len(seq)}

(* Mutant: the room is checked after a place was taken.                    *)
OnePerStandardTooMany(chosen, mappings) ==
  FoldLeft(LAMBDA acc, item :
             IF Len(acc) <= MaxCriteria /\ item.standard \notin StandardsOf(acc)
             THEN Append(acc, item) ELSE acc,
           chosen, mappings)

(* The loop that gives every other standard one place while there is room. *)
TakeNew(acc, item) ==
  IF Len(acc) < MaxCriteria /\ item.standard \notin StandardsOf(acc)
  THEN Append(acc, item) ELSE acc

WithOnePerStandard(chosen, mappings) == FoldLeft(TakeNew, chosen, mappings)

(* What room is left goes to the mappings not taken yet.                   *)
Filled(chosen, mappings) ==
  chosen \o FirstOf(Among(mappings, ToSet(mappings) \ ToSet(chosen)), MaxCriteria - Len(chosen))

CriteriaForRule(mappings, selected) ==
  IF selected = "all"
  THEN [criteria |-> mappings, truncated |-> FALSE]
  ELSE LET own      == Among(mappings, {item \in ToSet(mappings) : item.standard = selected})
           criteria == Filled(WithOnePerStandard(FirstOf(own, MaxCriteria), mappings), mappings)
       IN  [criteria |-> criteria, truncated |-> Len(mappings) > Len(criteria)]

RuleMatchesStandard(mappings, selected) ==
  selected = "all" \/ selected \in StandardsOf(mappings)

(* Mutant: only the caller's standard is described.                        *)
ReferencesOfCaller(rules, selected) ==
  IF selected = "all" THEN STANDARD_ORDER ELSE <<selected>>

(* Mutant: "all" is taken for the name of a standard.                      *)
ReferencesOfAll(rules, selected) ==
  <<selected>> \o Among(STANDARD_ORDER, Standards \ {selected})

(* _standard_references_for_rules, for the mappings of the rules given.    *)
References(rules, selected) ==
  IF selected = "all"
  THEN STANDARD_ORDER
  ELSE LET cited == {selected} \cup
                    UNION {StandardsOf(CriteriaForRule(m, selected).criteria) : m \in rules}
       IN  Among(<<selected>> \o Among(STANDARD_ORDER, Standards \ {selected}), cited)

-----------------------------------------------------------------------------
(* One catalogue and one call of either tool against it.                   *)

VARIABLES
  catalogue, \* RULE_STANDARD_MAPPINGS: rule -> mappings
  selected,  \* the caller's standard
  mentioned, \* the rules one of whose _GUIDANCE_TERMS is in task_summary
  tool,      \* the tool called; "none" once it has answered
  items,     \* the guidance items, or the findings: a rule and its criteria
  references \* standard_references of the response

vars == <<catalogue, selected, mentioned, tool, items, references>>

Init ==
  /\ catalogue \in Catalogues
  /\ selected \in Selectable
  /\ mentioned \in SUBSET GuidanceRules
  /\ tool \in {"guidance", "scan"}
  /\ items = <<>>
  /\ references = <<>>

Candidates ==
  Among(GUIDANCE_RULE_IDS, {r \in GuidanceRules : RuleMatchesStandard(catalogue[r], selected)})

(* Mutant: without a rule the summary names, nothing is returned.          *)
SelectedByName == Among(Candidates, mentioned)

(* A summary that names no candidate gets them all.                        *)
Selected ==
  LET named == Among(Candidates, mentioned)
  IN  IF named = <<>> THEN Candidates ELSE named

Item(r) ==
  LET chosen == CriteriaForRule(catalogue[r], selected)
  IN  [rule |-> r, criteria |-> chosen.criteria, truncated |-> chosen.truncated]

Answer(rules) ==
  /\ items' = [n \in 1..Len(rules) |-> Item(rules[n])]
  /\ references' = References({catalogue[r] : r \in ToSet(rules)}, selected)
  /\ tool' = "none"
  /\ UNCHANGED <<catalogue, selected, mentioned>>

GetSecurityGuidance ==
  /\ tool = "guidance"
  /\ Answer(FirstOf(Selected, MaxItems))

(* The worker drops the findings of other standards and attaches criteria  *)
(* to the rest; the server computes the references from the rules.         *)
ReportFindings ==
  /\ tool = "scan"
  /\ \E found \in SUBSET DOMAIN catalogue :
       Answer(SetToSeq({r \in found : RuleMatchesStandard(catalogue[r], selected)}))

Answered == tool = "none" /\ UNCHANGED vars

Next == GetSecurityGuidance \/ ReportFindings \/ Answered

Spec == Init /\ [][Next]_vars

-----------------------------------------------------------------------------
(* Properties.                                                             *)

(* Every variable keeps to the values the code can give it.                *)
TypeOK ==
  /\ GuidanceRules \subseteq DOMAIN catalogue
  /\ selected \in Selectable
  /\ mentioned \subseteq GuidanceRules
  /\ tool \in {"guidance", "scan", "none"}
  /\ \A n \in 1..Len(items) :
       /\ items[n].rule \in DOMAIN catalogue
       /\ items[n].truncated \in BOOLEAN
       /\ \A k \in 1..Len(items[n].criteria) :
            /\ items[n].criteria[k].standard \in Standards
            /\ items[n].criteria[k].kind \in Kinds
  /\ references \in Seq(Standards)

Mappings(item) == catalogue[item.rule]

(* What a bounded selection of a rule's mappings has to be, said of the    *)
(* result and not of the loops: no mapping twice; the caller's standard    *)
(* first and never short while room went elsewhere; no second mapping of   *)
(* another standard while a standard goes without; a place left empty only *)
(* when nothing is left; and "truncated" exactly when something is.        *)
WellSelected(all, criteria, truncated) ==
  LET taken   == ToSet(criteria)
      left    == ToSet(all) \ taken
      Of(s)   == {x \in taken : x.standard = s}
  IN  /\ IsInjective(criteria)
      /\ taken \subseteq ToSet(all)
      /\ Len(criteria) <= MaxCriteria
      /\ \A m, n \in 1..Len(criteria) :
           m < n /\ criteria[n].standard = selected => criteria[m].standard = selected
      /\ \A x \in left :
           /\ Len(criteria) = MaxCriteria
           /\ x.standard = selected => taken = Of(selected)
           /\ Of(x.standard) = {} =>
                \A s \in Standards \ {selected} : Cardinality(Of(s)) <= 1
      /\ truncated <=> left # {}

(* Every item's criteria are a well made selection of its rule's mappings; *)
(* "all" gives every mapping.                                              *)
CriteriaWellSelected ==
  \A n \in 1..Len(items) :
    IF selected = "all"
    THEN items[n].criteria = Mappings(items[n]) /\ ~items[n].truncated
    ELSE WellSelected(Mappings(items[n]), items[n].criteria, items[n].truncated)

(* The response describes every standard that one of its criteria cites,   *)
(* none twice, and the caller's first: the references are computed from    *)
(* the rules again, not from the criteria that were sent.                  *)
ReferencesCover ==
  tool = "none" =>
    /\ UNION {StandardsOf(items[n].criteria) : n \in 1..Len(items)} \subseteq ToSet(references)
    /\ IsInjective(references)
    /\ selected # "all" => references[1] = selected

(* Guidance is never shorter than what the task summary named, nor empty    *)
(* while some rule of the standard can be asked about: a summary that only  *)
(* names rules of other standards counts as one that names none.            *)
GuidanceGiven ==
  LET given   == {items'[n].rule : n \in 1..Len(items')}
      on      == {r \in GuidanceRules : RuleMatchesStandard(catalogue[r], selected)}
      named   == on \cap mentioned
      missing == named \ given
  IN  /\ given \subseteq (IF named = {} THEN on ELSE named)
      /\ missing # {} => Len(items') = MaxItems
      /\ items' = <<>> => on = {}

GuidanceAnswers == [][GetSecurityGuidance => GuidanceGiven]_vars

(* The inductive invariant: nothing is said before the answer, and in it   *)
(* every item and the references are computed from the rules' mappings.    *)
InputsStand ==
  /\ catalogue \in Catalogues
  /\ selected \in Selectable
  /\ mentioned \subseteq GuidanceRules
  /\ tool \in {"guidance", "scan", "none"}

Computed ==
  IF tool = "none"
  THEN LET rules == {items[n].rule : n \in 1..Len(items)}
       IN  /\ rules \subseteq DOMAIN catalogue
           /\ \A n \in 1..Len(items) : items[n] = Item(items[n].rule)
           /\ references = References({catalogue[r] : r \in rules}, selected)
  ELSE items = <<>> /\ references = <<>>

IInv == InputsStand /\ Computed

(* contracts.py: "Mapped criteria ordered with direct controls first".     *)
DirectControlsFirst ==
  \A n \in 1..Len(items) : \A j, k \in 1..Len(items[n].criteria) :
    j < k /\ items[n].criteria[k].kind = "direct_control"
      => items[n].criteria[j].kind = "direct_control"
=============================================================================
