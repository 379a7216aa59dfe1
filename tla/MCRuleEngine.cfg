\* Every admissible catalog of up to three rules over every state of the knowledge.
SPECIFICATION Spec
CONSTANTS
  base = base
  floor = floor
  extra = extra
  again = again
  above = above
  grant = grant
  deny = deny
  open = open
  shut = shut
  broken = broken
  elsewhere = elsewhere
  hollow = hollow
  Rules <- MCRules
  Priority <- MCPriority
  Scope <- MCScope
  Condition <- MCCondition
  Exceptions <- MCExceptions
  Effects <- MCEffects
  Context <- MCContext
  Query <- MCQuery
  Knowledge <- MCKnowledge
  CodeOrder <- MCCodeOrder
  Orders <- MCOrders
  MaxDepth = 30
  Data <- MCData
  Evaluate <- MCEvaluate
  Valid <- MCValid
  Expressions <- MCExpressions
  MaxRules = 3
INVARIANTS
  TypeOK
  ResultIsDeclared
  NoContradictionApplies
  ValidIsEvaluable
  ChangeIsNoticed
CHECK_DEADLOCK FALSE
