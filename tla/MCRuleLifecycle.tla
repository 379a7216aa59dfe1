-------------------------- MODULE MCRuleLifecycle --------------------------
(***************************************************************************)
(* Four rules: v1 and other contradict each other, are of two keys and     *)
(* exist.  v2 and v3 are further versions of the key of v1.  v3 is to      *)
(* replace v1 and declares a conflict with other; v2 is to replace other,  *)
(* the rule of the other key.                                              *)
(***************************************************************************)
EXTENDS RuleLifecycle, TLC

CONSTANTS v1, v2, v3, other,   \* rules
          key, otherKey,       \* logical keys
          a1, a2,              \* requests to create
          e1,                  \* a request to validate or test
          w1, w2               \* reviewers' requests

MCRules == {v1, v2, v3, other}
MCKey == v1 :> key @@ v2 :> key @@ v3 :> key @@ other :> otherKey
MCReplaces == v1 :> NoRule @@ v2 :> other @@ v3 :> v1 @@ other :> NoRule
MCExisting == {v1, other}
MCMaxRow == v1 :> 3 @@ v2 :> 3 @@ v3 :> 3 @@ other :> 4
MCClash == {<<v1, other>>, <<other, v1>>}
MCDeclares ==
  v1 :> {} @@ v2 :> {} @@ v3 :> {<<"CONFLICTS_WITH", other>>, <<"OVERRIDES", v1>>} @@ other :> {}
TwoAuthors == {a1, a2}
OneEditor == {e1}
OneReviewer == {w1}
TwoReviewers == {w1, w2}

\* Only the two rules that contradict each other.
TwoRules == {v1, other}
NoReplacement == v1 :> NoRule @@ other :> NoRule
TwoRulesMaxRow == v1 :> 4 @@ other :> 3
NothingDeclared == [r \in TwoRules |-> {}]
NoAuthors == {}

Symmetric == Permutations(TwoAuthors)
=============================================================================
