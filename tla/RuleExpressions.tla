-------------------------- MODULE RuleExpressions --------------------------
(***************************************************************************)
(* The two traversals of an expression, each on its own: evaluate          *)
(* (domain/dsl/evaluator.py) and validate_dsl (domain/dsl/ast.py).         *)
(***************************************************************************)
EXTENDS RuleDsl

RECURSIVE EvaluateNode(_, _, _)
EvaluateNode(node, reading, query) ==
  IF node.kind \in Leaves \cup {"list"} THEN Leaf(node, reading, query)
  ELSE Combined(node, [i \in DOMAIN node.args |-> EvaluateNode(node.args[i], reading, query)])

\* Validation, with the nesting that is left.
RECURSIVE ValidateNode(_, _)
ValidateNode(node, levels) ==
  /\ levels >= 0 /\ WellFormed(node)
  /\ node.kind \notin Leaves => \A i \in DOMAIN node.args : ValidateNode(node.args[i], levels - 1)
=============================================================================
