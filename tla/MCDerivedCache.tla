--------------------------- MODULE MCDerivedCache ---------------------------
(***************************************************************************)
(* Two properties under one wildcard.  The minimum rule reads one of them  *)
(* and has an exception about the other; its successor reads the wildcard, *)
(* and a value of its effect comes from the second property.               *)
(***************************************************************************)
EXTENDS DerivedCache, TLC

CONSTANTS math, art,           \* properties
          exactMath, exactArt, any,  \* selectors
          v1, v2,     \* rules
          e1, c1           \* requests

TwoProps == {math, art}
MCSelectors == math :> {exactMath, any} @@ art :> {exactArt, any}
MCRules == {v1, v2}
MCCondition == v1 :> {exactMath} @@ v2 :> {any}
MCException == v1 :> {exactArt} @@ v2 :> {}
MCEffect == v1 :> {} @@ v2 :> {exactArt}
MCReplaces == v1 :> NoRule @@ v2 :> v1
MCOntologyOf == v1 :> 1 @@ v2 :> 1
OneEvaluator == {e1}
OneChanger == {c1}

\* Two requests: one evaluates, one does anything.
TwoRequests == {e1, c1}

\* A rule whose effect reads what its condition does not.
OneRule == {v1}
EffectOnly == v1 :> {exactArt}
NoExceptions == v1 :> {}
OneCondition == v1 :> {exactMath}
NoReplacement == v1 :> NoRule
OneOntologyOf == v1 :> 1
=============================================================================
