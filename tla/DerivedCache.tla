---------------------------- MODULE DerivedCache ----------------------------
(***************************************************************************)
(* The materialized results of one query, the dependency edges that lead   *)
(* to them, and what invalidates them: ComputationService.evaluate with    *)
(* persist, DependencyService.invalidate, and the requests that call it    *)
(* when a fact, a rule or the ontology changes.                            *)
(*                                                                         *)
(* A result is stored under a key made of the query, the ontology and the  *)
(* active rules, not of the facts: that a stored result is current rests   *)
(* on the edges alone.  Every request is one READ COMMITTED transaction;   *)
(* its reads are steps and its writes take effect at its commit.           *)
(*                                                                         *)
(* A fact slot is the number of its open version (FactLedger has the rows  *)
(* behind it), a rule is the selectors it mentions, each tested for        *)
(* existence.  Relations behave as facts do, with relation types for       *)
(* selectors.  The row-version guards of rules and ontologies only refuse  *)
(* commits and are left to RuleLifecycle.                                  *)
(***************************************************************************)
EXTENDS Naturals, FiniteSets

CONSTANTS
  Props,        \* the property codes that facts are about
  Selectors,    \* Selectors[q]: what matches q, itself and the wildcards above it
  Rules,
  Condition,    \* Condition[r]: the selectors r's condition mentions
  Exception,    \* Exception[r]: those its exception mentions, if it has one
  Effect,       \* Effect[r]: those the values of its effects mention
  InScope,      \* the rules whose scope matches the query
  Replaces,     \* Replaces[r]: the rule an activation of r supersedes
  NoRule,
  OntologyOf,   \* OntologyOf[r]: the ontology r was created under
  Evaluators,   \* requests that may evaluate
  Changers,     \* requests that may change canonical knowledge or invalidate
  MaxFacts,     \* bound on the versions of a slot
  MaxOntology,  \* bound on the ontologies, numbered as they become active
  MaxRows,      \* bound on the results stored
  MaxNodes      \* the traversal's limit, 10000 in the code

ASSUME CacheAssumption ==
  /\ NoRule \notin Rules
  /\ Replaces \in [Rules -> Rules \cup {NoRule}]
  /\ \A r \in Rules : Replaces[r] # r
  /\ OntologyOf \in [Rules -> 1 .. MaxOntology]
  /\ MaxFacts \in Nat /\ MaxRows \in Nat /\ MaxNodes \in Nat
  /\ MaxOntology \in Nat \ {0}

VARIABLES
  facts,        \* property -> the number of its open version, 0 when it has none
  catalog,      \* the rules active_rules returns
  superseded,   \* the rules that another has replaced
  ontology,     \* the active ontology
  derived,      \* key -> derived_values row: status, and the facts it was computed from
  edges,        \* dependency edges <<source, key>>
  request,      \* the requests in flight
  raced         \* history: the evaluations in flight that a change overlapped with
                \* and the keys such evaluations stored; no guard reads it

vars == <<facts, catalog, superseded, ontology, derived, edges, request, raced>>
inputs == <<facts, catalog, superseded, ontology>>
store == <<derived, edges>>

Ontologies == 1 .. MaxOntology

\* The part of result_key that changes: the ontology and the active rules.
Keys == [ontology : Ontologies, rules : SUBSET Rules]
Snapshot == [Props -> Nat]
Requests == Evaluators \cup Changers

\* raced holds both.
ASSUME RequestsAreNotKeys == Requests \cap Keys = {}

-----------------------------------------------------------------------------
(* What the engine reads, given a snapshot of the facts.                   *)

Matching(s) == {q \in Props : s \in Selectors[q]}
Present(s, f) == \E q \in Matching(s) : f[q] # 0

Matches(r, f) == \A s \in Condition[r] : Present(s, f)
Excepted(r, f) == Exception[r] # {} /\ \A s \in Exception[r] : Present(s, f)

\* The selectors whose dependencies the engine records: those of every
\* condition in scope, and of the exceptions of the rules that match.
Tracked(k, f) ==
  UNION {Condition[r] \cup (IF Matches(r, f) THEN Exception[r] ELSE {}) : r \in k.rules \cap InScope}

\* What the result was made from: also the values of the effects that ran,
\* which the engine resolves without keeping their dependencies.
Used(k, f) ==
  Tracked(k, f) \cup
  UNION {Effect[r] : r \in {x \in k.rules \cap InScope : Matches(x, f) /\ ~Excepted(x, f)}}

PropsOf(selectors) == UNION {Matching(s) : s \in selectors}

\* The sources evaluate registers an edge from.
Dependencies(k, f) ==
  {<<"fact", q, f[q]>> : q \in {x \in PropsOf(Tracked(k, f)) : f[x] # 0}}
  \cup {<<"fact_property", s>> : s \in Tracked(k, f)}
  \cup {<<"rule", r>> : r \in k.rules \cap InScope}
  \cup {<<"ontology", k.ontology>>, <<"rule_catalog", k.ontology>>}

\* A fault: everything that is stored is taken to depend on everything.
Everything(node) == {k \in Keys : \E e \in edges : e[2] = k}

\* The rows an edge from a source leads to.  No edge leaves a derived row, so
\* the breadth-first traversal ends there.
Dependents(node) == {k \in Keys : <<node, k>> \in edges}

-----------------------------------------------------------------------------

Idle == [op |-> "none"]

\* A fault: the wildcards above a property are forgotten.
ExactSources(q) ==
  {<<"fact", q, n>> : n \in {facts[q]} \ {0}}
  \cup {<<"fact_property", s>> : s \in {x \in Selectors[q] : Matching(x) = {q}}}

\* A fault: the edges of the new version are followed, not those of the old.
NewRuleSources(r) ==
  IF Replaces[r] # NoRule THEN {<<"rule", r>>} ELSE {<<"rule_catalog", OntologyOf[r]>>}

\* The source nodes of the invalidations that a change makes.
FactSources(q) ==
  {<<"fact", q, n>> : n \in {facts[q]} \ {0}} \cup {<<"fact_property", s>> : s \in Selectors[q]}
RuleSources(r) ==
  IF Replaces[r] # NoRule THEN {<<"rule", Replaces[r]>>} ELSE {<<"rule_catalog", OntologyOf[r]>>}

\* Every node that has edges or that some invalidation starts from.
Nodes ==
  ({"fact"} \X Props \X Nat)
  \cup ({"fact_property"} \X UNION {Selectors[q] : q \in Props})
  \cup ({"rule"} \X Rules)
  \cup ({"rule_catalog", "ontology"} \X Ontologies)
  \cup ({"derived"} \X Keys)

Reading   == [op : {"rules", "facts"}, key : Keys]
Computing == [op : {"find", "insert", "rebuild"}, key : Keys, from : Snapshot]
ChangeOf(op, S) ==
  [op : {op}, what : S, seen : Nat, todo : SUBSET Nodes, affected : SUBSET Keys]
Changing  == ChangeOf("fact", Props) \cup ChangeOf("rule", Rules)
               \cup ChangeOf("ontology", Ontologies) \cup ChangeOf("admin", Keys)

TypeOK ==
  /\ facts \in Snapshot
  /\ catalog \subseteq Rules
  /\ superseded \subseteq Rules
  /\ ontology \in Ontologies
  /\ derived \in [Keys -> [status : {"NONE", "VALID", "INVALIDATED"}, from : Snapshot]]
  /\ \A e \in edges : e[2] \in Keys
  /\ request \in [Requests -> {Idle} \cup Reading \cup Computing \cup Changing]
  /\ raced \subseteq Evaluators \cup Keys

Init ==
  /\ facts = [q \in Props |-> 0]
  /\ catalog = {}
  /\ superseded = {}
  /\ ontology = 1
  /\ derived = [k \in Keys |-> [status |-> "NONE", from |-> [q \in Props |-> 0]]]
  /\ edges = {}
  /\ request = [p \in Requests |-> Idle]
  /\ raced = {}

Is(p, op) == request[p].op = op
Goes(p, to) == request' = [request EXCEPT ![p] = to] /\ UNCHANGED <<inputs, store, raced>>
Ends(p) == request' = [request EXCEPT ![p] = Idle]
Stops(p) == Ends(p) /\ raced' = raced \ {p} /\ UNCHANGED <<inputs, store>>
Changes(p) == request[p].op \in {"fact", "rule", "ontology", "admin"}
Evaluates(p) == request[p].op \in {"rules", "facts", "find", "insert", "rebuild"}

-----------------------------------------------------------------------------
(* evaluate                                                                *)

\* get_active_ontology.
BeginEvaluate(p) ==
  /\ Is(p, "none")
  /\ Goes(p, [op |-> "rules", key |-> [ontology |-> ontology, rules |-> {}]])

\* A fault: the row is looked for before the facts are read.
ReadRulesOnly(p) ==
  /\ Is(p, "rules")
  /\ Goes(p, [op |-> "find", key |-> [request[p].key EXCEPT !.rules = catalog]])

\* active_rules.
ReadRules(p) ==
  /\ Is(p, "rules")
  /\ Goes(p, [op |-> "facts", key |-> [request[p].key EXCEPT !.rules = catalog]])

\* list_facts.
ReadFacts(p) ==
  /\ Is(p, "facts")
  /\ Goes(p, [op |-> "find", key |-> request[p].key, from |-> facts])

\* find_derived_by_key: a VALID row is served, otherwise the engine runs.
ServeRow(p) ==
  /\ Is(p, "find")
  /\ derived[request[p].key].status = "VALID"
  /\ Stops(p)

FindRow(p) ==
  /\ Is(p, "find")
  /\ \E found \in {"NONE", "INVALIDATED"} :
       /\ derived[request[p].key].status = found
       /\ Goes(p, [request[p] EXCEPT !.op = IF found = "NONE" THEN "insert" ELSE "rebuild"])

\* A fault: the edges of an evaluation that lost the race are kept.
ConflictKeepsEdges(p) ==
  /\ Is(p, "insert")
  /\ derived[request[p].key].status # "NONE"
  /\ edges' = edges \cup (Dependencies(request[p].key, request[p].from) \X {request[p].key})
  /\ Ends(p)
  /\ UNCHANGED <<inputs, derived, raced>>

\* create_derived and its edges, in one commit.  result_key is unique: the
\* loser of a race for it fails.
Insert(p) ==
  /\ Is(p, "insert")
  /\ LET k == request[p].key
         f == request[p].from
     IN  /\ derived[k].status = "NONE"
         /\ Cardinality({x \in Keys : derived[x].status # "NONE"}) < MaxRows
         /\ derived' = [derived EXCEPT ![k] = [status |-> "VALID", from |-> f]]
         /\ edges' = edges \cup (Dependencies(k, f) \X {k})
         /\ raced' = (raced \ {p}) \cup
              {x \in {k} : p \in raced \/ \E w \in Changers : Changes(w)}
  /\ Ends(p)
  /\ UNCHANGED inputs

InsertConflict(p) ==
  Is(p, "insert") /\ derived[request[p].key].status # "NONE" /\ Stops(p)

\* update_derived names updated_at and row_version twice in the values of its
\* UPDATE, which is a TypeError: the request fails and nothing is written.
Rebuild(p) == Is(p, "rebuild") /\ Stops(p)

-----------------------------------------------------------------------------
(* Changes of canonical knowledge, and invalidate                          *)

Change(op, what, seen, todo) ==
  [op |-> op, what |-> what, seen |-> seen, todo |-> todo, affected |-> {}]

\* accept_observation or create_fact, with a value the slot does not have.
BeginFact(p, q) ==
  /\ Is(p, "none")
  /\ facts[q] < MaxFacts
  /\ Goes(p, Change("fact", q, facts[q], FactSources(q)))

\* RuleService.activate, past its checks.
BeginRule(p, r) ==
  /\ Is(p, "none")
  /\ r \notin superseded
  /\ Goes(p, Change("rule", r, 0, RuleSources(r)))

\* OntologyService.activate of a draft.
BeginOntology(p) ==
  /\ Is(p, "none")
  /\ ontology < MaxOntology
  /\ Goes(p, Change("ontology", ontology + 1, ontology, {<<"ontology", ontology>>}))

\* The administrator's invalidation of one result.
BeginAdmin(p, k) ==
  /\ Is(p, "none")
  /\ derived[k].status # "NONE"
  /\ Goes(p, Change("admin", k, 0, {<<"derived", k>>}))

\* invalidate reads the edges from one of its sources, the replaced fact first.
Traverse(p, node) ==
  /\ (\E d \in request[p].todo : d[1] = "fact") => node[1] = "fact"
  /\ Cardinality(Dependents(node)) < MaxNodes
  /\ Goes(p, [request[p] EXCEPT !.todo = @ \ {node}, !.affected = @ \cup Dependents(node)])

\* More nodes than the traversal allows: the whole request fails.
TooWide(p, node) ==
  /\ Cardinality(Dependents(node)) >= MaxNodes
  /\ Stops(p)

\* invalidate_derived: UPDATE ... WHERE id IN (affected) AND status = VALID.
InvalidateDerived(affected) ==
  derived' = [k \in Keys |-> IF k \in affected /\ derived[k].status = "VALID"
                             THEN [derived[k] EXCEPT !.status = "INVALIDATED"] ELSE derived[k]]

\* What every commit of a change does: its UPDATE of the affected rows.
Commits(p) ==
  /\ request[p].todo = {}
  /\ InvalidateDerived(request[p].affected)
  /\ raced' = raced \cup {e \in Evaluators : Evaluates(e)}
  /\ Ends(p)
  /\ UNCHANGED edges

\* The replaced fact must still be open.
CommitFact(p) ==
  /\ Is(p, "fact")
  /\ facts[request[p].what] = request[p].seen
  /\ facts' = [facts EXCEPT ![request[p].what] = @ + 1]
  /\ Commits(p)
  /\ UNCHANGED <<catalog, superseded, ontology>>

CommitRule(p) ==
  /\ Is(p, "rule")
  /\ LET r == request[p].what
         old == {Replaces[r]} \ {NoRule}
     IN  /\ catalog' = (catalog \ old) \cup ({r} \ superseded)
         /\ superseded' = superseded \cup old
  /\ Commits(p)
  /\ UNCHANGED <<facts, ontology>>

CommitOntology(p) ==
  /\ Is(p, "ontology")
  /\ ontology = request[p].seen
  /\ ontology' = request[p].what
  /\ Commits(p)
  /\ UNCHANGED <<facts, catalog, superseded>>

CommitAdmin(p) == Is(p, "admin") /\ Commits(p) /\ UNCHANGED inputs

\* An editor validates or tests an active rule, which takes it out of the
\* catalog (see RuleLifecycle) and invalidates nothing.
Demote(p, r) ==
  /\ Is(p, "none")
  /\ r \in catalog
  /\ catalog' = catalog \ {r}
  /\ raced' = raced \cup {e \in Evaluators : Evaluates(e)}
  /\ UNCHANGED <<facts, superseded, ontology, store, request>>

\* Any error, a disconnect or a crash: the transaction rolls back.
Abort(p) == ~Is(p, "none") /\ Stops(p)

-----------------------------------------------------------------------------

Evaluate(p) ==
  \/ BeginEvaluate(p) \/ ReadRules(p) \/ ReadFacts(p) \/ ServeRow(p) \/ FindRow(p)
  \/ Insert(p) \/ InsertConflict(p) \/ Rebuild(p)

ChangeInput(p) ==
  \/ \E q \in Props : BeginFact(p, q)
  \/ \E r \in Rules : BeginRule(p, r) \/ Demote(p, r)
  \/ BeginOntology(p)
  \/ \E k \in Keys : BeginAdmin(p, k)
  \/ Changes(p) /\ \E node \in request[p].todo : Traverse(p, node) \/ TooWide(p, node)
  \/ CommitFact(p) \/ CommitRule(p) \/ CommitOntology(p) \/ CommitAdmin(p)

Next ==
  \/ \E p \in Evaluators : Evaluate(p)
  \/ \E p \in Changers : ChangeInput(p)
  \/ \E p \in Requests : Abort(p)

Spec == Init /\ [][Next]_vars

\* The query is asked again and again, and the connection does not fail every
\* time an evaluation gets as far as some step.
LiveSpec ==
  /\ Spec
  /\ \A p \in Evaluators :
       /\ WF_vars(BeginEvaluate(p)) /\ SF_vars(ReadRules(p)) /\ SF_vars(ReadFacts(p))
       /\ SF_vars(ServeRow(p) \/ FindRow(p)) /\ SF_vars(Insert(p)) /\ SF_vars(Rebuild(p))

-----------------------------------------------------------------------------
(* Properties.                                                             *)

IsValid(k) == derived[k].status = "VALID"
Current(selectors, f) == \A q \in PropsOf(selectors) : f[q] = facts[q]

\* A VALID row agrees with the facts its conditions and exceptions read, the
\* absent ones included, unless it was evaluated while a change was in flight:
\* then a change can miss the edges and the evaluation the change.
FreshUnlessRaced ==
  \A k \in Keys : IsValid(k) /\ k \notin raced =>
    Current(Tracked(k, derived[k].from), derived[k].from)

\* No VALID row outlives the ontology it was interpreted in, nor the
\* supersession of a rule it executed, with the same exception.
RetiredUnlessRaced ==
  \A k \in Keys : IsValid(k) /\ k \notin raced =>
    k.ontology = ontology /\ k.rules \cap InScope \cap superseded = {}

\* Rows and edges are written together: every row, of whatever evaluation, has
\* exactly the edges from what it was computed from.
RowsHaveTheirEdges ==
  \A k \in Keys :
    {e[1] : e \in {x \in edges : x[2] = k}} =
      IF derived[k].status = "NONE" THEN {} ELSE Dependencies(k, derived[k].from)

\* Invalidation is targeted: a commit that changes a fact leaves alone every
\* row that did not look for facts of its property.
InvalidationIsTargeted ==
  [][\A k \in Keys, q \in Props :
       IsValid(k) /\ derived'[k].status = "INVALIDATED" /\ facts'[q] # facts[q] =>
         q \in PropsOf(Tracked(k, derived[k].from))]_vars

\* What the documentation of the cache promises: a VALID row agrees with every
\* fact it was made from, if nothing changed while it was computed.
ValuesAreFresh ==
  \A k \in Keys : IsValid(k) /\ k \notin raced => Current(Used(k, derived[k].from), derived[k].from)

\* An invalidated result that is still asked for is reconstructed.
InvalidatedIsRebuilt ==
  \A k \in Keys :
    []<>~(derived[k].status = "INVALIDATED" /\ k = [ontology |-> ontology, rules |-> catalog])
=============================================================================
