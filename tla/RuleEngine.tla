----------------------------- MODULE RuleEngine -----------------------------
(***************************************************************************)
(* One evaluation of a catalog of rules by RuleEngine.evaluate, the policy *)
(* by which activation keeps invalid and contradictory rules out of the    *)
(* catalog (validate_rule_payload, effect_conflicts), and the way accepted *)
(* knowledge is matched with the dependencies of a stored result.          *)
(*                                                                         *)
(* Rules are taken by descending priority.  Rules of one priority come in  *)
(* the order of their logical keys, which carry no meaning: the model      *)
(* takes them in any order.  An evaluation is pure, so its steps are the   *)
(* iterations of the loop over the rules, and of that over the effects of  *)
(* a rule that matches.                                                    *)
(*                                                                         *)
(* The two traversals of an expression are constants, of which the         *)
(* assumptions say what they make of a node and its operands.              *)
(***************************************************************************)
EXTENDS RuleDsl

CONSTANTS
  Rules,        \* each of a logical key of its own
  Priority,     \* Priority[r]: an integer
  Scope,        \* Scope[r]: key -> what the context must have there
  Condition,    \* Condition[r]: an expression
  Exceptions,   \* Exceptions[r]: a sequence of expressions
  Effects,      \* Effects[r]: a sequence of effects
  Context,      \* the query context: key -> value
  Query,        \* the values of the query: path -> value
  Knowledge,    \* the rows that may be current
  CodeOrder,    \* CodeOrder[c]: the rank of code c in the order of list_facts
  Orders,       \* the orders in which their codes and random ids may put the rows
  MaxDepth,     \* how deep validation lets an expression nest
  Expressions,  \* whatever may be proposed as a condition, valid or not
  Data,         \* the values of rows, of literals, of the query and the context
  Evaluate(_, _),  \* Evaluate(node, reading): its value and its dependencies
  Valid(_, _),     \* Valid(node, levels): whether validation accepts it
  MaxRules      \* bound on the rules in the catalog

ASSUME OrdersAssumption ==
  Orders \subseteq
    {s \in SetToSeqs(Knowledge) :
       \A i, j \in DOMAIN s : i < j => CodeOrder[s[i].code] <= CodeOrder[s[j].code]}

Readings == [rows : SUBSET Knowledge, order : Orders]

ASSUME DataAssumption ==
  /\ \A v \in Data :
       \/ v.type \in {"none", "bool", "relation"}
       \/ v.type = "number" /\ v.n \in Int
       \/ v.type = "list" /\ v.s \in Seq(Data)
  /\ IsFiniteSet(Knowledge)
  /\ {row.value : row \in Knowledge} \cup ToSet(Query) \cup ToSet(Context) \subseteq Data

\* Wildcards are for facts, and follow a segment.
ASSUME ExpressionsAssumption ==
  /\ \A row \in Knowledge : row.code \in Seq(STRING)
  /\ \A node \in Expressions :
       /\ node.kind = "literal" => node.value \in Data
       /\ node.kind = "reference" =>
            LET code == node.selector.code
            IN  /\ code \in Seq(STRING) \ {<<>>}
                /\ node.selector \in {Exactly(code)} \cup (IF node.of = "fact" THEN {Below(code)} ELSE {})
       /\ node.kind \notin Leaves => node.args \in Seq(Expressions)

ASSUME RulesAssumption ==
  /\ IsFiniteSet(Rules) /\ Priority \in [Rules -> Int]
  /\ Condition \in [Rules -> Expressions] /\ Exceptions \in [Rules -> Seq(Expressions)]
  /\ Effects \in [Rules -> Seq([type : STRING, target : STRING, value : Expressions])]

ASSUME TraversalAssumption ==
  /\ MaxDepth \in Nat
  /\ \A node \in Expressions, levels \in 0 .. MaxDepth :
       Valid(node, levels) <=>
         /\ WellFormed(node)
         /\ node.kind \notin Leaves =>
              \A i \in DOMAIN node.args : levels > 0 /\ Valid(node.args[i], levels - 1)
  /\ \A x \in Readings : \A node \in Expressions :
       Evaluate(node, x) =
         IF node.kind \in Leaves \cup {"list"} THEN Leaf(node, x, Query)
         ELSE Combined(node, [i \in DOMAIN node.args |-> Evaluate(node.args[i], x)])

VARIABLES
  reading,       \* the current facts and relations, as read
  catalog,       \* the active rules, as read
  todo,          \* the rules not yet done with
  status,        \* rule -> its status in the trace
  applied,       \* how many effects of the matched rule in hand have been applied
  dependencies,  \* what the evaluation depends on
  result         \* the accumulator

vars == <<reading, catalog, todo, status, applied, dependencies, result>>
input == <<reading, catalog>>

-----------------------------------------------------------------------------
(* The scopes and the contradictions of rules.                             *)

Actual(key) == IF key \in DOMAIN Context THEN Context[key] ELSE None

\* An expectation is a value, or a list of the values that will do.
ScopeMatches(r) == \A key \in DOMAIN Scope[r] : Actual(key) \in ToSet(Members(Scope[r][key]))

\* A fault: lists are compared as values are.
ScopesEqual(r, q) ==
  \A key \in DOMAIN Scope[r] \cap DOMAIN Scope[q] : Scope[r][key] = Scope[q][key]

\* Two lists overlap if they share a value, anything else if it is equal.
ScopesOverlap(r, q) ==
  \A key \in DOMAIN Scope[r] \cap DOMAIN Scope[q] :
    LET left == Scope[r][key]
        right == Scope[q][key]
    IN  IF left.type = "list" /\ right.type = "list" THEN ToSet(left.s) \cap ToSet(right.s) # {}
        ELSE left = right

Marks == {"MARK_ELIGIBLE", "MARK_INELIGIBLE"}
RecordTypes == {"GRANT", "DENY", "EMIT_DERIVED"}
EffectTypes == {"SET", "ADD", "SUBTRACT"} \cup RecordTypes \cup Marks
TargetsOf(r) == {Effects[r][i].target : i \in DOMAIN Effects[r]}

\* _effect_map: the last effect on each target.
EffectMap(r) ==
  [t \in TargetsOf(r) |->
     Effects[r][CHOOSE i \in DOMAIN Effects[r] :
                  /\ Effects[r][i].target = t
                  /\ \A j \in DOMAIN Effects[r] : j > i => Effects[r][j].target # t]]

EffectConflicts(r, q) ==
  /\ Priority[r] = Priority[q]
  /\ ScopesOverlap(r, q)
  /\ \E t \in TargetsOf(r) \cap TargetsOf(q) : EffectMap(r)[t] # EffectMap(q)[t]

\* A bare list is not looked into.
ValidEffect(e) ==
  /\ e.type \in EffectTypes
  /\ e.value.kind # "list" => Valid(e.value, MaxDepth)

\* validate_rule_payload
ValidRule(r) ==
  /\ Valid(Condition[r], MaxDepth)
  /\ \A exception \in ToSet(Exceptions[r]) : Valid(exception, MaxDepth)
  /\ Effects[r] # <<>> /\ \A e \in ToSet(Effects[r]) : ValidEffect(e)

\* The catalogs that activations, one at a time, let come about.
Admissible(C) ==
  /\ Cardinality(C) <= MaxRules
  /\ \A r \in C : ValidRule(r)
  /\ \A r, q \in C : r # q => ~EffectConflicts(r, q)

-----------------------------------------------------------------------------
(* The effects.                                                            *)

Targets == UNION {TargetsOf(r) : r \in Rules}
Unset == [type |-> "unset"]

Start == [scalars |-> [t \in Targets |-> Unset], claimed |-> {}, records |-> <<>>,
          eligible |-> None]

\* _numeric: neither None nor a boolean is an error.
Numeric(v) == IF v.type = "number" THEN v.n ELSE 0
NotNumeric(v) == v.type \in {"list", "relation", "node"}

InitialValue(t, acc) ==
  IF acc.scalars[t] # Unset THEN acc.scalars[t]
  ELSE IF t \in DOMAIN Context THEN Context[t] ELSE Num(0)

ValueOf(e) == Evaluate(e.value, reading).value

\* A fault: a SET does not look whether its target was claimed.
SetAnyway(acc, e) ==
  [acc EXCEPT !.scalars[e.target] = ValueOf(e), !.claimed = @ \cup {e.target}]

\* The first SET of a target, which is of the highest priority, claims it.
SetScalar(acc, e) ==
  IF e.target \in acc.claimed THEN acc
  ELSE [acc EXCEPT !.scalars[e.target] = ValueOf(e), !.claimed = @ \cup {e.target}]

Amount(e) == IF e.type = "ADD" THEN Numeric(ValueOf(e)) ELSE -Numeric(ValueOf(e))

\* A fault: the mark is the effect, not its meaning.
MarkEffect(acc, e) == [acc EXCEPT !.eligible = e]
Mark(acc, e) == [acc EXCEPT !.eligible = Bool(e.type = "MARK_ELIGIBLE")]

\* GRANT, DENY and EMIT_DERIVED only add to the lists of the result.
Record(e) == [type |-> e.type, target |-> e.target, value |-> ValueOf(e)]

Apply(acc, e) ==
  CASE e.type = "SET" -> SetScalar(acc, e)
    [] e.type \in {"ADD", "SUBTRACT"} ->
         [acc EXCEPT !.scalars[e.target] = Num(Numeric(InitialValue(e.target, acc)) + Amount(e))]
    [] e.type \in Marks -> Mark(acc, e)
    [] e.type \in RecordTypes ->
         [acc EXCEPT !.records = Append(@, Record(e))]

\* A mark never looks at a value, nor does a SET that is overridden.
LooksAtValue(acc, e) == e.type \notin Marks /\ (e.type = "SET" => e.target \notin acc.claimed)

Failures == {Error, Malformed}

\* A value may raise; so does ADD or SUBTRACT of, or to, what is no number.
Raises(acc, e) ==
  \/ LooksAtValue(acc, e) /\ ValueOf(e) \in Failures
  \/ /\ e.type \in {"ADD", "SUBTRACT"}
     /\ NotNumeric(ValueOf(e)) \/ NotNumeric(InitialValue(e.target, acc))

-----------------------------------------------------------------------------
(* The rules.                                                              *)

\* evaluate: validated once more.
Checked(node, x) ==
  IF Valid(node, MaxDepth) THEN Evaluate(node, x) ELSE [value |-> Malformed, dependencies |-> {}]

ConditionOf(r, x) == Checked(Condition[r], x)

\* Exceptions are evaluated in turn, up to the first that holds or raises.
Ends(trace) == Truthy(trace.value) \/ trace.value \in Failures
Reached(r, x) ==
  {i \in DOMAIN Exceptions[r] : \A j \in 1 .. i - 1 : ~Ends(Checked(Exceptions[r][j], x))}
ExceptionsOf(r, x) == {Checked(Exceptions[r][i], x) : i \in Reached(r, x)}

\* What becomes of a rule, before its effects.
Outcome(r, x) ==
  IF ~ScopeMatches(r) THEN "SCOPE_MISMATCH"
  ELSE IF ConditionOf(r, x).value \in Failures THEN "RAISED"
  ELSE IF ~Truthy(ConditionOf(r, x).value) THEN "NOT_MATCHED"
  ELSE IF \E trace \in ExceptionsOf(r, x) : trace.value \in Failures THEN "RAISED"
  ELSE IF \E trace \in ExceptionsOf(r, x) : Truthy(trace.value) THEN "EXCEPTION"
  ELSE "MATCHED"

Statuses == {"INACTIVE", "PENDING", "SCOPE_MISMATCH", "RAISED", "NOT_MATCHED", "EXCEPTION", "MATCHED"}

\* What a value can be, unless the evaluation fails.
Values ==
  Data \cup {None, Node} \cup [type : {"number"}, n : Int] \cup [type : {"bool"}, b : BOOLEAN]
    \cup [type : {"list"}, s : Seq(Data \cup {Node})]
Results ==
  [scalars : [Targets -> Values \cup {Unset}], claimed : SUBSET Targets, eligible : {None, Bool(TRUE), Bool(FALSE)},
   records : Seq([type : STRING, target : STRING, value : Values])]

TypeOK ==
  /\ reading \in Readings
  /\ todo \subseteq catalog /\ catalog \subseteq Rules
  /\ status \in [Rules -> Statuses]
  /\ \A r \in Rules : status[r] = "INACTIVE" <=> r \notin catalog
  /\ applied \in Nat
  /\ result \in Results

\* Of a subject at most one fact of a property and one relation of a predicate are
\* current: several objects, and values for several periods, are left out.
SameSlot(x, y) == x.kind = y.kind /\ x.code = y.code /\ x.subject = y.subject

Init ==
  /\ reading \in {x \in Readings : \A y, z \in x.rows : SameSlot(y, z) => y = z}
  /\ catalog \in {C \in SUBSET Rules : Admissible(C)}
  /\ todo = catalog
  /\ status = [r \in Rules |-> IF r \in catalog THEN "PENDING" ELSE "INACTIVE"]
  /\ applied = 0
  /\ dependencies = {}
  /\ result = Start

\* _ordered_rules
IsNext(r) == \A q \in todo : status[q] = "PENDING" /\ Priority[q] <= Priority[r]

Takes(r, outcome) ==
  /\ IsNext(r) /\ Outcome(r, reading) = outcome
  /\ status' = [status EXCEPT ![r] = outcome]
  /\ UNCHANGED <<input, applied, result>>

Depends(on) == dependencies' = dependencies \cup on

\* A rule out of scope is no dependency of the result.
Skip(r) == Takes(r, "SCOPE_MISMATCH") /\ todo' = todo \ {r} /\ UNCHANGED dependencies

\* A fault: only rules that match leave their dependencies.
RejectUntracked(r) == Takes(r, "NOT_MATCHED") /\ todo' = todo \ {r} /\ UNCHANGED dependencies

Reject(r) ==
  Takes(r, "NOT_MATCHED") /\ todo' = todo \ {r} /\ Depends(ConditionOf(r, reading).dependencies)

Tracked(r) ==
  ConditionOf(r, reading).dependencies \cup UNION {trace.dependencies : trace \in ExceptionsOf(r, reading)}

Except(r) == Takes(r, "EXCEPTION") /\ todo' = todo \ {r} /\ Depends(Tracked(r))

\* The rule is in hand until its last effect.
Match(r) == Takes(r, "MATCHED") /\ UNCHANGED todo /\ Depends(Tracked(r))

NextEffect(r) == Effects[r][applied + 1]

ApplyNext(r) ==
  /\ status[r] = "MATCHED" /\ ~Raises(result, NextEffect(r))
  /\ result' = Apply(result, NextEffect(r))
  /\ IF applied + 1 < Len(Effects[r])
     THEN applied' = applied + 1 /\ UNCHANGED todo
     ELSE applied' = 0 /\ todo' = todo \ {r}
  /\ UNCHANGED <<input, status, dependencies>>

\* DSL_TYPE_MISMATCH, or INVALID_DSL: the request fails, there is no result and none is stored.
Raise(r) == Takes(r, "RAISED") /\ todo' = {} /\ UNCHANGED dependencies

RaiseInEffect(r) ==
  /\ status[r] = "MATCHED" /\ Raises(result, NextEffect(r))
  /\ status' = [status EXCEPT ![r] = "RAISED"]
  /\ todo' = {}
  /\ UNCHANGED <<input, applied, dependencies, result>>

Next ==
  \E r \in todo :
    Skip(r) \/ Reject(r) \/ Except(r) \/ Match(r) \/ ApplyNext(r) \/ Raise(r) \/ RaiseInEffect(r)

Spec == Init /\ [][Next]_vars

-----------------------------------------------------------------------------
(* What the result is, said without an order.                              *)

Matched == {r \in Rules : status[r] = "MATCHED"}
Undisturbed == \A r \in Rules : status[r] # "RAISED"
Answered == todo = {} /\ Undisturbed

\* The effects that have been applied: each a rule and an index.
Applied ==
  UNION {{r} \X (IF r \in todo THEN 1 .. applied ELSE DOMAIN Effects[r]) : r \in Matched}
EffectAt(p) == Effects[p[1]][p[2]]
Rank(p) == Priority[p[1]]
OfTypes(A, types) == {p \in A : EffectAt(p).type \in types}
On(A, t, types) == {p \in OfTypes(A, types) : EffectAt(p).target = t}

\* The SETs of the highest priority decide; amounts of lower priority are added,
\* those of a higher one are lost.
Deciding(A, t) ==
  {p \in On(A, t, {"SET"}) : \A q \in On(A, t, {"SET"}) : Rank(q) <= Rank(p)}
Counted(A, t) ==
  {p \in On(A, t, {"ADD", "SUBTRACT"}) : \A q \in Deciding(A, t) : Rank(p) < Rank(q)}
Before(A, t) ==
  IF Deciding(A, t) # {} THEN ValueOf(EffectAt(CHOOSE p \in Deciding(A, t) : TRUE))
  ELSE IF t \in DOMAIN Context THEN Context[t] ELSE Num(0)
DeclaredScalar(A, t) ==
  IF Counted(A, t) # {}
  THEN Num(Numeric(Before(A, t)) + Total([p \in Counted(A, t) |-> Amount(EffectAt(p))]))
  ELSE IF Deciding(A, t) # {} THEN Before(A, t) ELSE Unset

\* The marks of the lowest priority are the last.
LastMarks(A) == {p \in OfTypes(A, Marks) : \A q \in OfTypes(A, Marks) : Rank(p) <= Rank(q)}
DeclaredMark(A) ==
  IF LastMarks(A) = {} THEN None
  ELSE Bool(\E p \in LastMarks(A) : EffectAt(p).type = "MARK_ELIGIBLE")

\* The effects that leave the record x.
Recording(A, x) == {p \in OfTypes(A, RecordTypes) : Record(EffectAt(p)) = x}
Occurrences(x, s) == Cardinality({i \in DOMAIN s : s[i] = x})

-----------------------------------------------------------------------------
(* Properties.                                                             *)

\* No target has two effects in one rule, marks are of one target, and of two rules
\* that could contradict each other none scopes a key to a list, the other to a value.
OneEffectPerTarget ==
  \A r \in Rules : \A i, j \in DOMAIN Effects[r] :
    Effects[r][i].target = Effects[r][j].target => i = j
MarksOfOneTarget ==
  \A r, q \in Rules : \A e \in ToSet(Effects[r]), f \in ToSet(Effects[q]) :
    e.type \in Marks /\ f.type \in Marks => e.target = f.target
UniformScopes ==
  \A r, q \in Rules : Priority[r] = Priority[q] /\ TargetsOf(r) \cap TargetsOf(q) # {} =>
    \A key \in DOMAIN Scope[r] \cap DOMAIN Scope[q] :
      Scope[r][key].type = "list" <=> Scope[q][key].type = "list"

\* The result does not hang on the order in which rules of one priority come,
\* that is on the names of their logical keys: in any catalog that activation
\* lets come about it is, after every effect, what the effects applied so far
\* declare together.  It is so for rules with one effect on each target and for
\* marks of one target, which are all that the check at activation compares.
ResultIsDeclared ==
  Undisturbed =>
    /\ \A t \in Targets : result.scalars[t] = DeclaredScalar(Applied, t)
    /\ result.eligible = DeclaredMark(Applied)
    /\ \A x \in ToSet(result.records) \cup {Record(EffectAt(p)) : p \in OfTypes(Applied, RecordTypes)} :
         Occurrences(x, result.records) = Cardinality(Recording(Applied, x))

\* Two rules of one priority that say different things of one target never both
\* take effect: the check at activation covers whatever the engine would apply.
NoContradictionApplies ==
  \A r, q \in Matched : Priority[r] = Priority[q] =>
    \A e \in ToSet(Effects[r]), f \in ToSet(Effects[q]) : e.target = f.target => e = f

\* What validation lets through, evaluation can take: whatever is proposed, as a
\* condition or in a rule, if it is valid then its evaluation, a traversal of its
\* own, meets no operator it does not know and no operand that is missing, over any
\* knowledge.
ValidIsEvaluable ==
  /\ catalog = {} =>
       \A node \in Expressions :
         Valid(node, MaxDepth) => Evaluate(node, reading).value # Malformed
  /\ \A r \in catalog : \A e \in ToSet(Effects[r]) : ValueOf(e) # Malformed

\* The ways in which one accepted fact or relation changes what is current, and
\* the nodes whose dependents are invalidated with it.
Replaced(new) == {old \in reading.rows : SameSlot(old, new)}
Changes == {new \in Knowledge \ reading.rows : new.kind = "relation" => Replaced(new) = {}}
With(new) == [reading EXCEPT !.rows = (@ \ Replaced(new)) \cup {new}]
SourcesOf(new) ==
  ({"row"} \X Replaced(new)) \cup
    ({new.kind} \X (IF new.kind = "fact" THEN PropertySelectors(new.code) ELSE {Exactly(new.code)}))

\* Whatever is accepted next, if it makes any rule of the catalog match that did
\* not, or the reverse, it meets a dependency of the result, absent rows and
\* wildcards included: a stored result is never silently outdated by a condition.
ChangeIsNoticed ==
  Answered =>
    \A new \in Changes : SourcesOf(new) \cap dependencies = {} =>
      \A r \in catalog : Outcome(r, With(new)) = status[r]
=============================================================================
