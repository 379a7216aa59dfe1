------------------------------ MODULE RuleDsl ------------------------------
(***************************************************************************)
(* The expressions of the Rule DSL, what they evaluate to and which        *)
(* dependencies an evaluation records (domain/dsl/evaluator.py).           *)
(*                                                                         *)
(* An expression is a record.  A leaf is a literal, a value of the query   *)
(* (context and applicant) or a reference to fact or relation rows; every  *)
(* other kind has its operands in args, a missing operand being a shorter  *)
(* args.  A literal stands for a bare value and a list is a bare list.     *)
(* Text, dates and nested objects do not occur as values, nor a boolean    *)
(* where a number is meant, nor an order of lists.                         *)
(*                                                                         *)
(* This module has what one node makes of its operands; RuleExpressions    *)
(* has the two traversals, evaluation and validation.                      *)
(***************************************************************************)
EXTENDS Integers, SequencesExt

None == [type |-> "none"]
Num(n) == [type |-> "number", n |-> n]
Bool(b) == [type |-> "bool", b |-> b]
List(s) == [type |-> "list", s |-> s]
Related(to) == [type |-> "relation", to |-> to]    \* the value of a relation row
Node == [type |-> "node"]      \* an expression taken for a value
Error == [type |-> "error"]    \* DSL_TYPE_MISMATCH: the evaluation raises

\* The evaluation meets what it does not know, or lacks: INVALID_DSL, KeyError or
\* IndexError.
Malformed == [type |-> "malformed"]

\* bool(value)
Truthy(v) ==
  \/ v.type = "number" /\ v.n # 0
  \/ v.type = "bool" /\ v.b
  \/ v.type = "list" /\ v.s # <<>>
  \/ v.type \in {"relation", "node"}

-----------------------------------------------------------------------------
(* Codes, such as score.math, are sequences of segments.  A selector names *)
(* one code, or all that continue a prefix: score.* selects score.math.    *)

Exactly(code) == [code |-> code, wild |-> FALSE]
Below(prefix) == [code |-> prefix, wild |-> TRUE]

SelectsCode(selector, code) ==
  IF selector.wild THEN IsStrictPrefix(selector.code, code) ELSE selector.code = code

\* The selectors that are invalidated when a fact of this code is accepted.
PropertySelectors(code) ==
  {Exactly(code)} \cup {Below(SubSeq(code, 1, n)) : n \in 1 .. Len(code) - 1}

\* What is read: the current rows, and the order in which list_facts gives rows.
\* The rows of S in that order: the n-th is the one with n of them up to it.
Places(S, order) == {i \in DOMAIN order : order[i] \in S}
Place(places, n) == CHOOSE i \in places : Cardinality({j \in places : j <= i}) = n
Listed(S, order) ==
  [n \in 1 .. Cardinality(Places(S, order)) |-> order[Place(Places(S, order), n)]]

\* The rows of a reference.  The filter on the object of a relation is left out.
Found(node, rows) ==
  {row \in rows :
    /\ row.kind = node.of
    /\ SelectsCode(node.selector, row.code)
    /\ node.subject # "" => row.subject = node.subject}

\* A single fact is the first found, or None; a single relation that is not
\* found is the empty list.
ReferenceValue(node, found) ==
  IF ~node.all /\ found # <<>> THEN Head(found).value
  ELSE IF ~node.all /\ node.of = "fact" THEN None
  ELSE List([i \in DOMAIN found |-> found[i].value])

\* The selector is a dependency also when no row is found.
Reference(node, reading) ==
  [value |-> ReferenceValue(node, Listed(Found(node, reading.rows), reading.order)),
   dependencies |-> ({"row"} \X Found(node, reading.rows)) \cup {<<node.of, node.selector>>}]

-----------------------------------------------------------------------------

Members(v) == IF v.type = "list" THEN v.s ELSE <<v>>

Compare(operator, l, r) ==
  IF operator = "==" THEN Bool(l = r)
  ELSE IF operator = "!=" THEN Bool(l # r)
  ELSE IF None \in {l, r} THEN Bool(FALSE)
  ELSE IF operator \notin {">", ">=", "<", "<="} THEN Malformed
  ELSE IF l.type # "number" \/ r.type # "number" THEN Error
  ELSE Bool(CASE operator = ">"  -> l.n > r.n
              [] operator = ">=" -> l.n >= r.n
              [] operator = "<"  -> l.n < r.n
              [] operator = "<=" -> l.n <= r.n)

\* The sum of the integers f[x], counted in units.
Units(f) == UNION {{x} \X (1 .. f[x]) : x \in DOMAIN f}
Total(f) == Cardinality(Units(f)) - Cardinality(Units([x \in DOMAIN f |-> -f[x]]))

Aggregate(operator, v) ==
  LET values == IF v = None THEN <<>> ELSE Members(v)
      numbers == {values[i].n : i \in DOMAIN values}
  IN  IF operator = "count" THEN Num(Len(values))
      ELSE IF values = <<>> THEN None
      ELSE IF operator \notin {"sum", "min", "max"} THEN Malformed
      ELSE IF operator # "sum" /\ Len(values) = 1 THEN values[1]
      ELSE IF \E i \in DOMAIN values : values[i].type # "number" THEN Error
      ELSE Num(CASE operator = "min" -> Min(numbers)
                 [] operator = "max" -> Max(numbers)
                 [] operator = "sum" -> Total([i \in DOMAIN values |-> values[i].n]))

Quantified(operator, yes, of, count) ==
  CASE operator = "any" -> Bool(yes > 0)
    [] operator = "all" -> Bool(yes = of)
    [] operator = "none" -> Bool(yes = 0)
    [] operator = "at_least" -> Bool(yes >= count)
    [] OTHER -> Malformed

\* Any operator but and and or is taken for not.
Logical(operator, yes, of) ==
  IF operator = "and" THEN Bool(yes = 1 .. of)
  ELSE IF operator = "or" THEN Bool(yes # {})
  ELSE IF of = 0 THEN Malformed ELSE Bool(1 \notin yes)

\* The operands that are read by name.
Operands(node) ==
  CASE node.kind \in {"comparison", "membership"} -> 2
    [] node.kind \in {"exists", "not_exists", "aggregation"} -> 1
    [] OTHER -> 0

\* What a node makes of the values of its operands.
Operation(node, values) ==
  LET yes == {i \in DOMAIN values : Truthy(values[i])}
  IN  IF Malformed \in ToSet(values) \/ Len(values) < Operands(node) THEN Malformed
      ELSE IF Error \in ToSet(values) THEN Error
      ELSE CASE node.kind = "logical" -> Logical(node.operator, yes, Len(values))
             [] node.kind = "comparison" -> Compare(node.operator, values[1], values[2])
             [] node.kind = "exists" -> Bool(values[1] \notin {None, List(<<>>)})
             [] node.kind = "not_exists" -> Bool(values[1] \in {None, List(<<>>)})
             [] node.kind = "membership" ->
                  Bool((node.operator # "not_in") = (values[1] \in ToSet(Members(values[2]))))
             [] node.kind = "aggregation" -> Aggregate(node.operator, values[1])
             [] node.kind = "quantifier" ->
                  Quantified(node.operator, Cardinality(yes), Len(values), node.count)
             [] OTHER -> Malformed

Leaves == {"literal", "query", "reference"}

\* What is evaluated without operands.  A bare list is its own value: the
\* expressions in it are not evaluated.
Leaf(node, reading, query) ==
  CASE node.kind = "literal" -> [value |-> node.value, dependencies |-> {}]
    [] node.kind = "query" ->
         [value |-> IF node.path \in DOMAIN query THEN query[node.path] ELSE None,
          dependencies |-> {<<"query", node.path>>}]
    [] node.kind = "reference" -> Reference(node, reading)
    [] node.kind = "list" ->
         [value |-> List([i \in DOMAIN node.args |->
                            IF node.args[i].kind = "literal" THEN node.args[i].value ELSE Node]),
          dependencies |-> {}]

\* Every operand is evaluated, whatever the others gave: there is no short cut,
\* and the dependencies are those of all of them.
Combined(node, traces) ==
  [value |-> Operation(node, [i \in DOMAIN traces |-> traces[i].value]),
   dependencies |-> UNION {traces[i].dependencies : i \in DOMAIN traces}]

-----------------------------------------------------------------------------
(* Validation (domain/dsl/ast.py).                                         *)

Operators ==
  [logical |-> {"and", "or", "not"},
   comparison |-> {"==", "!=", ">", ">=", "<", "<="},
   membership |-> {"in", "not_in"},
   aggregation |-> {"count", "sum", "min", "max"},
   quantifier |-> {"any", "all", "none", "at_least"}]
Kinds == DOMAIN Operators \cup {"exists", "not_exists", "list"} \cup Leaves

\* A fault: only the first operand is required.
HasFirst(node) == node.kind \in Leaves \cup {"list"} \/ node.args # <<>>

HasOperands(node) ==
  CASE node.kind = "logical" ->
         IF node.operator = "not" THEN Len(node.args) = 1 ELSE node.args # <<>>
    [] node.kind = "quantifier" -> node.args # <<>>
    [] OTHER -> Operands(node) # 0 => Len(node.args) = Operands(node)

\* One node, without its operands.
WellFormed(node) ==
  /\ node.kind \in Kinds
  /\ node.kind \in DOMAIN Operators => node.operator \in Operators[node.kind]
  /\ HasOperands(node)
  /\ node.kind = "quantifier" /\ node.operator = "at_least" => node.count >= 0
=============================================================================
