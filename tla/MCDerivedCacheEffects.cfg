\* The value of an effect is read from a fact no condition mentions.
SPECIFICATION Spec
CONSTANTS
  math = math
  art = art
  exactMath = exactMath
  exactArt = exactArt
  any = any
  v1 = v1
  v2 = v2
  e1 = e1
  c1 = c1
  NoRule = NoRule
  Props <- TwoProps
  Selectors <- MCSelectors
  Rules <- OneRule
  Condition <- OneCondition
  Exception <- NoExceptions
  Effect <- EffectOnly
  InScope <- OneRule
  Replaces <- NoReplacement
  OntologyOf <- OneOntologyOf
  Evaluators <- OneEvaluator
  Changers <- OneChanger
  MaxFacts = 1
  MaxOntology = 1
  MaxRows = 2
  MaxNodes = 2
INVARIANT
  ValuesAreFresh
