\* An evaluation beside another, or beside a change of facts, rules or the ontology.
SPECIFICATION Spec
CONSTANTS
  math = math
  art = art
  exactMath = exactMath
  exactArt = exactArt
  any = any
  v1 = v1
  v2 = v2
  e1 = e1
  c1 = c1
  NoRule = NoRule
  Props <- TwoProps
  Selectors <- MCSelectors
  Rules <- MCRules
  Condition <- MCCondition
  Exception <- MCException
  Effect <- MCEffect
  InScope <- MCRules
  Replaces <- MCReplaces
  OntologyOf <- MCOntologyOf
  Evaluators <- TwoRequests
  Changers <- OneChanger
  MaxFacts = 1
  MaxOntology = 2
  MaxRows = 2
  MaxNodes = 2
INVARIANTS
  RowsHaveTheirEdges
  TypeOK
  FreshUnlessRaced
  RetiredUnlessRaced
PROPERTY
  InvalidationIsTargeted
