\* One activation at a time, with requests by editors in between.
SPECIFICATION Spec
CONSTANTS
  v1 = v1
  v2 = v2
  v3 = v3
  other = other
  key = key
  otherKey = otherKey
  e1 = e1
  a1 = a1
  a2 = a2
  w1 = w1
  w2 = w2
  NoRule = NoRule
  Rules <- MCRules
  Key <- MCKey
  Replaces <- MCReplaces
  Declares <- MCDeclares
  Valid <- MCRules
  Tested <- MCRules
  Passing <- MCRules
  Sourced <- MCRules
  Clash <- MCClash
  Authors <- TwoAuthors
  Editors <- OneEditor
  Reviewers <- OneReviewer
  Existing <- MCExisting
  MaxRow <- MCMaxRow
SYMMETRY Symmetric
INVARIANTS
  TypeOK
  OneEffectivePerKey
  NoEffectiveContradiction
  BlockIsReviewed
  ActiveIsQualified
  ReplacedIsOut
