CONSTANTS
  STANDARD_ORDER <- Order
  MaxCriteria = 3
  MaxItems = 1
  GUIDANCE_RULE_IDS <- Rules
  Catalogues <- AllCatalogues
SPECIFICATION Spec
INVARIANTS
  TypeOK
  CriteriaWellSelected
  ReferencesCover
PROPERTY GuidanceAnswers
