---------------------------- MODULE MCRuleEngine ----------------------------
(***************************************************************************)
(* Two properties under one wildcard, one of them known of two subjects,   *)
(* and a relation.  The rules use every kind of expression and effect; one *)
(* of them is invalid.                                                     *)
(***************************************************************************)
EXTENDS RuleEngine, TLC

CONSTANTS base, floor, extra, again, above, grant, deny, open, shut, broken, elsewhere, hollow

Math == <<"score", "math">>
Art == <<"score", "art">>
Offers == <<"offers">>
Fact(code, subject, n) == [kind |-> "fact", code |-> code, subject |-> subject, value |-> Num(n)]

Relation == [kind |-> "relation", code |-> Offers, subject |-> "s1", value |-> Related("s1")]

MCKnowledge ==
  {Fact(Math, "s1", n) : n \in {0, 1}} \cup {Fact(Math, "s2", 1), Fact(Art, "s1", 0), Relation}
MCCodeOrder == Art :> 1 @@ Math :> 2 @@ Offers :> 3

\* The row of s2 before, between and after the two of s1, which are never both current.
MCOrders ==
  {<<Fact(Art, "s1", 0)>> \o facts \o <<Relation>> :
     facts \in {<<Fact(Math, "s2", 1), Fact(Math, "s1", 0), Fact(Math, "s1", 1)>>,
                <<Fact(Math, "s1", 0), Fact(Math, "s2", 1), Fact(Math, "s1", 1)>>,
                <<Fact(Math, "s1", 0), Fact(Math, "s1", 1), Fact(Math, "s2", 1)>>}}

Lit(v) == [kind |-> "literal", value |-> v]
Ref(of, selector, subject, all) ==
  [kind |-> "reference", of |-> of, selector |-> selector, subject |-> subject, all |-> all]
Op(kind, operator, args) == [kind |-> kind, operator |-> operator, args |-> args]
Is(kind, target) == [kind |-> kind, args |-> <<target>>]
OneMath == Ref("fact", Exactly(Math), "", FALSE)
AllScores == Ref("fact", Below(<<"score">>), "", TRUE)
ArtOf(s) == Ref("fact", Exactly(Art), s, FALSE)
Grade == [kind |-> "query", path |-> "grade"]

MCRules == {base, floor, extra, again, above, grant, deny, open, shut, broken, elsewhere, hollow}
MCPriority ==
  base :> 2 @@ floor :> 1 @@ extra :> 0 @@ again :> 0 @@ above :> 3 @@ grant :> 2 @@ deny :> 2
    @@ open :> 2 @@ shut :> 1 @@ broken :> 1 @@ elsewhere :> 3 @@ hollow :> 0

NoScope == [k \in {} |-> None]
MCScope ==
  grant :> ("program" :> List(<<Num(1), Num(2)>>)) @@ deny :> ("program" :> List(<<Num(1)>>))
    @@ open :> ("program" :> Num(1)) @@ elsewhere :> ("program" :> Num(2)) @@ [r \in MCRules |-> NoScope]

MCCondition ==
  base :> Op("comparison", ">=", <<Op("aggregation", "sum", <<AllScores>>), Grade>>)
    @@ floor :> Is("not_exists", ArtOf("s1"))
    @@ extra :> Op("comparison", ">", <<OneMath, Lit(Num(0))>>)
    @@ again :> [kind |-> "quantifier", operator |-> "at_least", count |-> 1,
                 args |-> <<Is("exists", OneMath), Is("exists", ArtOf("s2"))>>]
    @@ above :> Op("membership", "in", <<Lit(Num(1)), AllScores>>)
    @@ grant :> Is("exists", Ref("relation", Exactly(Offers), "", FALSE))
    @@ deny :> Op("logical", "or", <<Op("comparison", "==", <<OneMath, Lit(None)>>), Lit(Bool(TRUE))>>)
    @@ open :> Op("logical", "not", <<Is("exists", Ref("fact", Below(<<"score">>), "s2", TRUE))>>)
    @@ shut :> Lit(Bool(TRUE)) @@ elsewhere :> Lit(Bool(TRUE))
    @@ hollow :> Lit(Bool(TRUE))
    @@ broken :> Op("comparison", "<", <<Ref("relation", Exactly(Offers), "", FALSE), Lit(Num(1))>>)
MCExceptions ==
  grant :> <<Op("comparison", "==", <<OneMath, Lit(Num(0))>>), Is("exists", ArtOf(""))>>
    @@ [r \in MCRules |-> <<>>]

Effect(type, target, value) == [type |-> type, target |-> target, value |-> value]
MCEffects ==
  base :> <<Effect("SET", "score", Lit(Num(5))), Effect("EMIT_DERIVED", "note", OneMath)>>
    @@ floor :> <<Effect("SET", "score", Lit(Num(3)))>>
    @@ extra :> <<Effect("ADD", "score", OneMath)>>
    @@ again :> <<Effect("ADD", "score", OneMath), Effect("SUBTRACT", "fee", Lit(Num(1)))>>
    @@ above :> <<Effect("ADD", "score", Lit(Num(2)))>>
    @@ grant :> <<Effect("GRANT", "dorm", Lit(None))>>
    @@ deny :> <<Effect("DENY", "dorm", Lit(None))>>
    @@ open :> <<Effect("MARK_ELIGIBLE", "eligible", Lit(None))>>
    @@ shut :> <<Effect("MARK_INELIGIBLE", "eligible", Lit(None))>>
    @@ broken :> <<Effect("ADD", "fee", AllScores)>>
    @@ elsewhere :> <<Effect("SET", "score", Lit(Num(9)))>>
    @@ hollow :> <<Effect("GRANT", "dorm", Op("comparison", "<", <<Lit(Num(1))>>))>>

\* Every node over every operator, known or not, of up to two atoms, and what an
\* operator makes of such a node.
Atoms == {Lit(Num(1)), Lit(None), AllScores}
Args == {<<>>} \cup {<<x>> : x \in Atoms} \cup {<<x, y>> : x, y \in Atoms}
Quantifier(operator, count, args) ==
  [kind |-> "quantifier", operator |-> operator, count |-> count, args |-> args]
Nodes ==
  {Op("logical", o, a) : o \in {"and", "or", "not", "=="}, a \in Args}
    \cup {Op("comparison", o, a) : o \in {"==", "!=", ">", "<=", "in"}, a \in Args}
    \cup {Op("membership", o, a) : o \in {"in", "not_in", "=="}, a \in Args}
    \cup {Op("aggregation", o, a) : o \in {"count", "sum", "min", "max", "any"}, a \in Args}
    \cup {Quantifier(o, n, a) : o \in {"any", "all", "none", "at_least", "sum"}, n \in {-1, 2}, a \in Args}
    \cup {Op(k, "", a) : k \in {"exists", "not_exists", "list", "lambda"}, a \in Args}
RECURSIVE Parts(_)
Parts(node) ==
  {node} \cup IF node.kind \in Leaves THEN {} ELSE UNION {Parts(x) : x \in ToSet(node.args)}
OfRules ==
  UNION {{MCCondition[r]} \cup ToSet(MCExceptions[r]) \cup {e.value : e \in ToSet(MCEffects[r])} : r \in MCRules}
MCExpressions ==
  Atoms \cup Nodes \cup {Op("logical", "not", <<n>>) : n \in Nodes}
    \cup {Op("comparison", "<", <<n, Lit(Num(1))>>) : n \in Nodes}
    \cup UNION {Parts(node) : node \in OfRules}

MCContext == "program" :> Num(1) @@ "fee" :> Num(4)
MCQuery == "grade" :> Num(1)
MCData == {None, Related("s1"), Bool(TRUE)} \cup {Num(n) : n \in {0, 1, 2, 3, 4, 5, 9}}

Dsl == INSTANCE RuleExpressions
MCEvaluate(node, x) == Dsl!EvaluateNode(node, x, MCQuery)
MCValid(node, levels) == Dsl!ValidateNode(node, levels)

\* What the theorems ask of the rules is so of these.
ASSUME RulesFit == OneEffectPerTarget /\ MarksOfOneTarget /\ UniformScopes
=============================================================================
