\* Two reviewers activate two contradictory rules at the same time.
SPECIFICATION Spec
CONSTANTS
  v1 = v1
  v2 = v2
  v3 = v3
  other = other
  key = key
  otherKey = otherKey
  e1 = e1
  a1 = a1
  a2 = a2
  w1 = w1
  w2 = w2
  NoRule = NoRule
  Rules <- TwoRules
  Key <- MCKey
  Replaces <- NoReplacement
  Declares <- NothingDeclared
  Valid <- TwoRules
  Tested <- TwoRules
  Passing <- TwoRules
  Sourced <- TwoRules
  Clash <- MCClash
  Authors <- NoAuthors
  Editors <- OneEditor
  Reviewers <- TwoReviewers
  Existing <- TwoRules
  MaxRow <- TwoRulesMaxRow
INVARIANT
  NoEffectiveContradiction
