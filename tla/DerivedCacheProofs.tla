-------------------------- MODULE DerivedCacheProofs --------------------------
(***************************************************************************)
(* Proofs about the cache and its invalidation, for any properties, rules, *)
(* selectors, evaluators and changes.  What a stored row agrees with hangs  *)
(* on its edges alone, so the argument is about them: a change that is     *)
(* about to commit has followed every edge from what it replaces, those of *)
(* rows that were stored beside it excepted.                               *)
(***************************************************************************)
EXTENDS DerivedCache, TLAPS

\* The nodes that the invalidations of a change start from.
SourcesOf(c) ==
  CASE c.op = "fact" ->
         {<<"fact", c.what, n>> : n \in {c.seen} \ {0}}
           \cup {<<"fact_property", s>> : s \in Selectors[c.what]}
    [] c.op = "rule" -> RuleSources(c.what)
    [] c.op = "ontology" -> {<<"ontology", c.seen>>}
    [] c.op = "admin" -> {<<"derived", c.what>>}

IsChange(c) == c.op \in {"fact", "rule", "ontology", "admin"}

\* A traversal has followed the edges from the sources that are no longer to be
\* visited, and no others.  Rows stored beside it are raced.
Traversing(c) ==
  IsChange(c) =>
    /\ c.todo \subseteq SourcesOf(c)
    /\ \A k \in c.affected : \E node \in SourcesOf(c) : <<node, k>> \in edges
    /\ \A node \in SourcesOf(c), k \in Keys \ raced :
         <<node, k>> \in edges => node \in c.todo \/ k \in c.affected

\* What an evaluation that no change overlapped with has read is still so.
EvaluationIsCurrent(c) ==
  /\ c.op \in {"rules", "facts", "find", "insert", "rebuild"} => c.key.ontology = ontology
  /\ c.op \in {"facts", "find", "insert", "rebuild"} => c.key.rules = catalog
  /\ c.op \in {"find", "insert", "rebuild"} => c.from = facts

EdgesArePairs == \A e \in edges : e = <<e[1], e[2]>>

SupersededAreOut == catalog \cap superseded = {}

RowsInv == TypeOK /\ EdgesArePairs /\ RowsHaveTheirEdges

RequestsInv ==
  /\ \A p \in Evaluators \ raced : EvaluationIsCurrent(request[p])
  /\ \A p \in Changers : Traversing(request[p])

CacheInv ==
  /\ RowsInv
  /\ SupersededAreOut
  /\ RequestsInv
  /\ FreshUnlessRaced
  /\ RetiredUnlessRaced

-----------------------------------------------------------------------------
(* Type correctness.                                                       *)

\* The operation of a request tells what else it holds.
LEMMA RequestFields ==
  ASSUME TypeOK, NEW p \in Requests
  PROVE  /\ request[p].op \in {"rules", "facts"} => request[p] \in Reading
         /\ request[p].op \in {"find", "insert", "rebuild"} => request[p] \in Computing
         /\ request[p].op = "fact" => request[p] \in ChangeOf("fact", Props)
         /\ request[p].op = "rule" => request[p] \in ChangeOf("rule", Rules)
         /\ request[p].op = "ontology" => request[p] \in ChangeOf("ontology", Ontologies)
         /\ request[p].op = "admin" => request[p] \in ChangeOf("admin", Keys)
<1>1. request[p] \in {Idle} \cup Reading \cup Computing \cup Changing
  BY DEF TypeOK
<1> QED
  BY <1>1 DEF Idle, Reading, Computing, Changing, ChangeOf

LEMMA GoesTyped ==
  ASSUME TypeOK, NEW p \in Requests, NEW c \in {Idle} \cup Reading \cup Computing \cup Changing,
         Goes(p, c)
  PROVE  TypeOK'
BY DEF TypeOK, Goes, inputs, store

LEMMA StopsTyped ==
  ASSUME TypeOK, NEW p \in Requests, Stops(p)
  PROVE  TypeOK'
BY DEF TypeOK, Stops, Ends, inputs, store

LEMMA EvaluateTyped ==
  ASSUME TypeOK, NEW p \in Evaluators, Evaluate(p)
  PROVE  TypeOK'
<1>0. p \in Requests
  BY DEF Requests
<1>1. CASE BeginEvaluate(p)
  <2>1. [op |-> "rules", key |-> [ontology |-> ontology, rules |-> {}]] \in Reading
    BY DEF TypeOK, Reading, Keys
  <2> QED
    BY <1>0, <1>1, <2>1, GoesTyped DEF BeginEvaluate
<1>2. CASE ReadRules(p)
  <2>1. request[p].key \in Keys
    BY <1>0, <1>2, RequestFields DEF ReadRules, Is, Reading
  <2>2. [op |-> "facts", key |-> [request[p].key EXCEPT !.rules = catalog]] \in Reading
    BY <2>1 DEF TypeOK, Reading, Keys
  <2> QED
    BY <1>0, <1>2, <2>2, GoesTyped DEF ReadRules
<1>3. CASE ReadFacts(p)
  <2>1. request[p].key \in Keys
    BY <1>0, <1>3, RequestFields DEF ReadFacts, Is, Reading
  <2>2. [op |-> "find", key |-> request[p].key, from |-> facts] \in Computing
    BY <2>1 DEF TypeOK, Computing
  <2> QED
    BY <1>0, <1>3, <2>2, GoesTyped DEF ReadFacts
<1>4. CASE ServeRow(p) \/ InsertConflict(p) \/ Rebuild(p)
  BY <1>0, <1>4, StopsTyped DEF ServeRow, InsertConflict, Rebuild
<1>5. CASE FindRow(p)
  <2>1. request[p] \in Computing
    BY <1>0, <1>5, RequestFields DEF FindRow, Is
  <2>2. PICK op \in {"insert", "rebuild"} : Goes(p, [request[p] EXCEPT !.op = op])
    BY <1>5 DEF FindRow
  <2>3. [request[p] EXCEPT !.op = op] \in Computing
    BY <2>1, <2>2 DEF Computing
  <2> QED
    BY <1>0, <2>2, <2>3, GoesTyped
<1>6. CASE Insert(p)
  <2> DEFINE k == request[p].key
             f == request[p].from
  <2>1. k \in Keys /\ f \in Snapshot
    BY <1>0, <1>6, RequestFields DEF Insert, Is, Computing
  <2>2. /\ derived' = [derived EXCEPT ![k] = [status |-> "VALID", from |-> f]]
        /\ edges' = edges \cup (Dependencies(k, f) \X {k})
        /\ raced' \subseteq raced \cup {k}
        /\ request' = [request EXCEPT ![p] = Idle]
        /\ UNCHANGED <<facts, catalog, superseded, ontology>>
    BY <1>6 DEF Insert, Ends, inputs
  <2>3. \A e \in edges' : e[2] \in Keys
    BY <2>1, <2>2 DEF TypeOK
  <2> HIDE DEF k, f
  <2>4. derived' \in [Keys -> [status : {"NONE", "VALID", "INVALIDATED"}, from : Snapshot]]
    BY <2>1, <2>2 DEF TypeOK
  <2> QED
    BY <1>0, <2>1, <2>2, <2>3, <2>4 DEF TypeOK
<1> QED
  BY <1>1, <1>2, <1>3, <1>4, <1>5, <1>6 DEF Evaluate

\* What the UPDATE of a commit does to rows.
LEMMA InvalidateTyped ==
  ASSUME TypeOK, NEW affected, InvalidateDerived(affected)
  PROVE  /\ derived' \in [Keys -> [status : {"NONE", "VALID", "INVALIDATED"}, from : Snapshot]]
         /\ \A k \in Keys :
              /\ derived'[k].from = derived[k].from
              /\ derived'[k].status = "NONE" <=> derived[k].status = "NONE"
              /\ derived'[k].status = "VALID" <=> derived[k].status = "VALID" /\ k \notin affected
BY DEF TypeOK, InvalidateDerived

\* A begun change, with the sources of its invalidations.
LEMMA ChangeTyped ==
  ASSUME NEW op, NEW S, NEW what \in S, NEW seen \in Nat, NEW todo \in SUBSET Nodes
  PROVE  Change(op, what, seen, todo) \in ChangeOf(op, S)
BY DEF Change, ChangeOf

LEMMA ChangeInputTyped ==
  ASSUME TypeOK, NEW p \in Changers, ChangeInput(p)
  PROVE  TypeOK'
<1>0. p \in Requests
  BY DEF Requests
<1>1. ASSUME NEW q \in Props, BeginFact(p, q)
      PROVE  TypeOK'
  <2>1. FactSources(q) \in SUBSET Nodes /\ facts[q] \in Nat
    BY DEF FactSources, Nodes, TypeOK, Snapshot
  <2>2. Change("fact", q, facts[q], FactSources(q)) \in ChangeOf("fact", Props)
    BY <2>1, ChangeTyped
  <2>3. Change("fact", q, facts[q], FactSources(q)) \in Changing
    BY <2>2 DEF Changing
  <2> QED
    BY <1>0, <1>1, <2>3, GoesTyped DEF BeginFact
<1>2. ASSUME NEW r \in Rules, BeginRule(p, r)
      PROVE  TypeOK'
  <2>1. RuleSources(r) \in SUBSET Nodes
    BY CacheAssumption DEF RuleSources, Nodes, Ontologies
  <2>2. Change("rule", r, 0, RuleSources(r)) \in ChangeOf("rule", Rules)
    BY <2>1, ChangeTyped
  <2>3. Change("rule", r, 0, RuleSources(r)) \in Changing
    BY <2>2 DEF Changing
  <2> QED
    BY <1>0, <1>2, <2>3, GoesTyped DEF BeginRule
<1>3. ASSUME NEW r \in Rules, Demote(p, r)
      PROVE  TypeOK'
  BY <1>3 DEF Demote, TypeOK, store
<1>4. CASE BeginOntology(p)
  <2>1. ontology \in Nat /\ ontology + 1 \in Ontologies /\ {<<"ontology", ontology>>} \in SUBSET Nodes
    BY <1>4, CacheAssumption DEF BeginOntology, TypeOK, Ontologies, Nodes
  <2>2. Change("ontology", ontology + 1, ontology, {<<"ontology", ontology>>})
          \in ChangeOf("ontology", Ontologies)
    BY <2>1, ChangeTyped
  <2>3. Change("ontology", ontology + 1, ontology, {<<"ontology", ontology>>}) \in Changing
    BY <2>2 DEF Changing
  <2> QED
    BY <1>0, <1>4, <2>3, GoesTyped DEF BeginOntology
<1>5. ASSUME NEW k \in Keys, BeginAdmin(p, k)
      PROVE  TypeOK'
  <2>1. {<<"derived", k>>} \in SUBSET Nodes
    BY DEF Nodes
  <2>2. Change("admin", k, 0, {<<"derived", k>>}) \in ChangeOf("admin", Keys)
    BY <2>1, ChangeTyped
  <2>3. Change("admin", k, 0, {<<"derived", k>>}) \in Changing
    BY <2>2 DEF Changing
  <2> QED
    BY <1>0, <1>5, <2>3, GoesTyped DEF BeginAdmin
<1>6. ASSUME Changes(p), NEW node \in request[p].todo, Traverse(p, node)
      PROVE  TypeOK'
  <2>1. Dependents(node) \in SUBSET Keys
    BY DEF Dependents
  <2>2. [request[p] EXCEPT !.todo = @ \ {node}, !.affected = @ \cup Dependents(node)] \in Changing
    <3> DEFINE c == [request[p] EXCEPT !.todo = @ \ {node}, !.affected = @ \cup Dependents(node)]
    <3>1. ASSUME NEW op, NEW S, request[p] \in ChangeOf(op, S)
          PROVE  c \in ChangeOf(op, S)
      BY <2>1, <3>1 DEF ChangeOf
    <3> QED
      BY <1>0, <1>6, <3>1, RequestFields DEF Changes, Changing
  <2> QED
    BY <1>0, <1>6, <2>2, GoesTyped DEF Traverse
<1>7. ASSUME NEW node \in request[p].todo, TooWide(p, node)
      PROVE  TypeOK'
  BY <1>0, <1>7, StopsTyped DEF TooWide
<1>8. ASSUME Commits(p), facts' \in Snapshot, catalog' \subseteq Rules, superseded' \subseteq Rules,
             ontology' \in Ontologies
      PROVE  TypeOK'
  <2>1. derived' \in [Keys -> [status : {"NONE", "VALID", "INVALIDATED"}, from : Snapshot]]
    BY <1>8, InvalidateTyped DEF Commits
  <2> QED
    BY <1>0, <1>8, <2>1 DEF Commits, Ends, TypeOK
<1>9. CASE CommitFact(p)
  <2>1. request[p].what \in Props
    BY <1>0, <1>9, RequestFields DEF CommitFact, Is, ChangeOf
  <2>2. facts' \in Snapshot
    BY <1>9, <2>1 DEF CommitFact, TypeOK, Snapshot
  <2> QED
    BY <1>8, <1>9, <2>2 DEF CommitFact, TypeOK
<1>10. CASE CommitRule(p)
  <2>1. request[p].what \in Rules
    BY <1>0, <1>10, RequestFields DEF CommitRule, Is, ChangeOf
  <2>2. catalog' \subseteq Rules /\ superseded' \subseteq Rules
    BY <1>10, <2>1, CacheAssumption DEF CommitRule, TypeOK
  <2> QED
    BY <1>8, <1>10, <2>2 DEF CommitRule, TypeOK
<1>11. CASE CommitOntology(p)
  <2>1. request[p].what \in Ontologies
    BY <1>0, <1>11, RequestFields DEF CommitOntology, Is, ChangeOf
  <2> QED
    BY <1>8, <1>11, <2>1 DEF CommitOntology, TypeOK
<1>12. CASE CommitAdmin(p)
  BY <1>8, <1>12 DEF CommitAdmin, TypeOK, inputs
<1> QED
  BY <1>1, <1>2, <1>3, <1>4, <1>5, <1>6, <1>7, <1>9, <1>10, <1>11, <1>12 DEF ChangeInput

LEMMA StepTyped ==
  ASSUME TypeOK, [Next]_vars
  PROVE  TypeOK'
<1>1. ASSUME NEW p \in Requests, Abort(p)
      PROVE  TypeOK'
  BY <1>1, StopsTyped DEF Abort
<1>2. CASE UNCHANGED vars
  BY <1>2 DEF vars, TypeOK
<1> QED
  BY <1>1, <1>2, EvaluateTyped, ChangeInputTyped DEF Next

LEMMA InitTyped ==
  ASSUME Init
  PROVE  TypeOK
BY CacheAssumption DEF Init, TypeOK, Snapshot, Ontologies

-----------------------------------------------------------------------------
(* Rows and their edges.                                                   *)

LEMMA EdgeMeaning ==
  ASSUME RowsInv, NEW k \in Keys, NEW node
  PROVE  <<node, k>> \in edges <=>
           derived[k].status # "NONE" /\ node \in Dependencies(k, derived[k].from)
<1> DEFINE S == {e[1] : e \in {x \in edges : x[2] = k}}
<1>1. S = IF derived[k].status = "NONE" THEN {} ELSE Dependencies(k, derived[k].from)
  BY DEF RowsInv, RowsHaveTheirEdges
<1>2. <<node, k>> \in edges <=> node \in S
  BY DEF RowsInv, EdgesArePairs
<1> QED
  BY <1>1, <1>2

\* Every selector that an evaluation tracks is registered.
LEMMA TrackedAreRegistered ==
  ASSUME NEW k, NEW f, NEW s \in Tracked(k, f)
  PROVE  <<"fact_property", s>> \in Dependencies(k, f)
<1>1. <<"fact_property", s>> \in {<<"fact_property", x>> : x \in Tracked(k, f)}
  OBVIOUS
<1> QED
  BY <1>1 DEF Dependencies

\* The insertion of a row, with what it leaves of other rows and edges.
LEMMA InsertEffect ==
  ASSUME RowsInv, NEW p \in Evaluators, Insert(p)
  PROVE  /\ request[p] \in Computing /\ request[p].key \in Keys
         /\ derived[request[p].key].status = "NONE"
         /\ derived'[request[p].key].status = "VALID"
         /\ derived'[request[p].key].from = request[p].from
         /\ \A k \in Keys \ {request[p].key} : derived'[k] = derived[k]
         /\ edges' = edges \cup (Dependencies(request[p].key, request[p].from) \X {request[p].key})
         /\ raced' = (raced \ {p}) \cup {x \in {request[p].key} :
                                          p \in raced \/ \E w \in Changers : Changes(w)}
         /\ request' = [request EXCEPT ![p] = Idle]
         /\ UNCHANGED <<facts, catalog, superseded, ontology>>
<1>1. request[p] \in Computing
  BY RequestFields DEF RowsInv, Insert, Is, Requests
<1>2. request[p].key \in Keys
  BY <1>1 DEF Computing
<1>3. derived' = [derived EXCEPT ![request[p].key] =
                    [status |-> "VALID", from |-> request[p].from]]
  BY DEF Insert
<1>4. derived'[request[p].key] = [status |-> "VALID", from |-> request[p].from]
  BY <1>2, <1>3 DEF RowsInv, TypeOK
<1>5. \A k \in Keys \ {request[p].key} : derived'[k] = derived[k]
  BY <1>3 DEF RowsInv, TypeOK
<1> QED
  BY <1>1, <1>2, <1>4, <1>5 DEF Insert, Ends, inputs

\* A row that is inserted has no edges before, and those it comes with after.
LEMMA InsertKeepsRows ==
  ASSUME RowsInv, NEW p \in Evaluators, Insert(p)
  PROVE  EdgesArePairs' /\ RowsHaveTheirEdges'
<1> DEFINE k == request[p].key
           D == Dependencies(k, request[p].from)
<1>1. /\ k \in Keys /\ derived[k].status = "NONE" /\ derived'[k].status = "VALID"
      /\ derived'[k].from = request[p].from
      /\ \A x \in Keys \ {k} : derived'[x] = derived[x]
      /\ edges' = edges \cup (D \X {k})
  BY InsertEffect
<1>2. EdgesArePairs'
  BY <1>1 DEF RowsInv, EdgesArePairs
<1>3. {e[1] : e \in {x \in edges : x[2] = k}} = {}
  BY <1>1 DEF RowsInv, RowsHaveTheirEdges
<1>4. {e[1] : e \in {x \in edges' : x[2] = k}} = D
  <2> HIDE DEF D
  <2>1. \A e \in edges : e[2] # k
    BY <1>3
  <2>2. {x \in edges' : x[2] = k} = D \X {k}
    BY <1>1, <2>1
  <2>3. \A d \in D : \E e \in D \X {k} : e[1] = d
    <3>1. \A d \in D : <<d, k>> \in D \X {k} /\ <<d, k>>[1] = d
      OBVIOUS
    <3> QED
      BY <3>1
  <2> QED
    BY <2>2, <2>3
<1>5. ASSUME NEW x \in Keys \ {k}
      PROVE  {e[1] : e \in {y \in edges' : y[2] = x}} = {e[1] : e \in {y \in edges : y[2] = x}}
  BY <1>1
<1> HIDE DEF k, D
<1>6. D = Dependencies(k, request[p].from)
  BY DEF D
<1> QED
  BY <1>1, <1>2, <1>4, <1>5, <1>6 DEF RowsInv, RowsHaveTheirEdges

\* Only insertions and commits of changes write rows.
LEMMA StoreSteps ==
  ASSUME [Next]_vars
  PROVE  \/ UNCHANGED store
         \/ \E p \in Evaluators : Insert(p)
         \/ \E p \in Changers : Commits(p)
<1>1. ASSUME NEW p \in Evaluators, Evaluate(p), ~Insert(p)
      PROVE  UNCHANGED store
  BY <1>1 DEF Evaluate, BeginEvaluate, ReadRules, ReadFacts, ServeRow, FindRow, InsertConflict,
              Rebuild, Goes, Stops
<1>2. ASSUME NEW p \in Changers, ChangeInput(p), ~Commits(p)
      PROVE  UNCHANGED store
  BY <1>2 DEF ChangeInput, BeginFact, BeginRule, BeginOntology, BeginAdmin, Traverse, TooWide,
              CommitFact, CommitRule, CommitOntology, CommitAdmin, Demote, Goes, Stops
<1>3. ASSUME NEW p \in Requests, Abort(p)
      PROVE  UNCHANGED store
  BY <1>3 DEF Abort, Stops
<1> QED
  BY <1>1, <1>2, <1>3 DEF Next, vars, store

LEMMA RowsStep ==
  ASSUME RowsInv, [Next]_vars
  PROVE  RowsInv'
<1>1. TypeOK'
  BY StepTyped DEF RowsInv
<1>2. CASE UNCHANGED store
  BY <1>1, <1>2 DEF RowsInv, EdgesArePairs, RowsHaveTheirEdges, store
<1>3. ASSUME NEW p \in Evaluators, Insert(p)
      PROVE  RowsInv'
  BY <1>1, <1>3, InsertKeepsRows DEF RowsInv
<1>4. ASSUME NEW p \in Changers, Commits(p)
      PROVE  RowsInv'
  <2>1. edges' = edges
    BY <1>4 DEF Commits
  <2>2. \A k \in Keys : /\ derived'[k].from = derived[k].from
                        /\ derived'[k].status = "NONE" <=> derived[k].status = "NONE"
    BY <1>4, InvalidateTyped DEF Commits, RowsInv
  <2>3. RowsHaveTheirEdges'
    BY <2>1, <2>2 DEF RowsInv, RowsHaveTheirEdges
  <2> QED
    BY <1>1, <2>1, <2>3 DEF RowsInv, EdgesArePairs
<1> QED
  BY <1>2, <1>3, <1>4, StoreSteps

LEMMA InitRows ==
  ASSUME Init
  PROVE  RowsInv
BY InitTyped DEF Init, RowsInv, EdgesArePairs, RowsHaveTheirEdges

LEMMA RowsInvariant == Spec => []RowsInv
<1> QED
  BY InitRows, RowsStep, PTL DEF Spec

-----------------------------------------------------------------------------
(* Requests in flight.                                                     *)

\* A step of one request that writes nothing.
LEMMA GoesKeeps ==
  ASSUME CacheInv, TypeOK', NEW p \in Requests, NEW c, Goes(p, c),
         Traversing(c), EvaluationIsCurrent(c) \/ p \in raced
  PROVE  CacheInv'
<1>1. /\ request' = [request EXCEPT ![p] = c]
      /\ UNCHANGED <<facts, catalog, superseded, ontology, derived, edges, raced>>
  BY DEF Goes, inputs, store
<1>2. RowsInv' /\ SupersededAreOut' /\ FreshUnlessRaced' /\ RetiredUnlessRaced'
  BY <1>1 DEF CacheInv, RowsInv, EdgesArePairs, RowsHaveTheirEdges, SupersededAreOut,
              FreshUnlessRaced, RetiredUnlessRaced, IsValid, Current
<1>3. \A q \in Requests : request'[q] = IF q = p THEN c ELSE request[q]
  BY <1>1 DEF CacheInv, RowsInv, TypeOK
<1>4. ASSUME NEW q \in Evaluators \ raced'
      PROVE  EvaluationIsCurrent(request[q])'
  <2>1. EvaluationIsCurrent(request'[q])
    BY <1>1, <1>3 DEF CacheInv, RequestsInv, Requests
  <2> QED
    BY <1>1, <2>1 DEF EvaluationIsCurrent
<1>5. ASSUME NEW q \in Changers
      PROVE  Traversing(request[q])'
  <2>1. Traversing(request'[q])
    BY <1>3 DEF CacheInv, RequestsInv, Requests
  <2> QED
    BY <1>1, <2>1 DEF Traversing
<1> QED
  BY <1>2, <1>4, <1>5 DEF CacheInv, RequestsInv

\* The end of a request that writes nothing.
LEMMA StopsKeeps ==
  ASSUME CacheInv, TypeOK', NEW p \in Requests, Stops(p)
  PROVE  CacheInv'
<1>1. /\ request' = [request EXCEPT ![p] = Idle] /\ raced' = raced \ {p}
      /\ UNCHANGED <<facts, catalog, superseded, ontology, derived, edges>>
  BY DEF Stops, Ends, inputs, store
<1>2. \A k \in Keys : k \in raced' <=> k \in raced
  BY <1>1, RequestsAreNotKeys
<1>3. RowsInv' /\ SupersededAreOut' /\ FreshUnlessRaced' /\ RetiredUnlessRaced'
  BY <1>1, <1>2 DEF CacheInv, RowsInv, EdgesArePairs, RowsHaveTheirEdges, SupersededAreOut,
                    FreshUnlessRaced, RetiredUnlessRaced, IsValid, Current
<1>4. \A q \in Requests : request'[q] = IF q = p THEN Idle ELSE request[q]
  BY <1>1 DEF CacheInv, RowsInv, TypeOK
<1>5. ASSUME NEW q \in Evaluators \ raced'
      PROVE  EvaluationIsCurrent(request[q])'
  <2>1. EvaluationIsCurrent(request'[q])
    BY <1>1, <1>4 DEF CacheInv, RequestsInv, Requests, Idle, EvaluationIsCurrent
  <2> QED
    BY <1>1, <2>1 DEF EvaluationIsCurrent
<1>6. ASSUME NEW q \in Changers
      PROVE  Traversing(request[q])'
  <2>1. Traversing(Idle)
    BY DEF Idle, Traversing, IsChange
  <2>2. Traversing(request'[q])
    BY <1>4, <2>1 DEF CacheInv, RequestsInv, Requests
  <2> QED
    BY <1>1, <1>2, <2>2 DEF Traversing
<1> QED
  BY <1>3, <1>5, <1>6 DEF CacheInv, RequestsInv

\* What a request begins with: nothing of it is followed yet.
LEMMA BegunTraversing ==
  ASSUME NEW op \in {"fact", "rule", "ontology", "admin"}, NEW what, NEW seen, NEW todo,
         todo = SourcesOf(Change(op, what, seen, todo))
  PROVE  /\ Traversing(Change(op, what, seen, todo))
         /\ EvaluationIsCurrent(Change(op, what, seen, todo))
<1> DEFINE c == Change(op, what, seen, todo)
<1>1. c.op = op /\ c.todo = SourcesOf(c) /\ c.affected = {}
  BY DEF Change
<1> HIDE DEF c
<1>2. Traversing(c) /\ EvaluationIsCurrent(c)
  BY <1>1 DEF Traversing, EvaluationIsCurrent
<1> QED
  BY <1>2 DEF c

\* A traversal of one more source.
LEMMA TraverseKeeps ==
  ASSUME CacheInv, TypeOK', NEW p \in Changers, Changes(p),
         NEW node \in request[p].todo, Traverse(p, node)
  PROVE  CacheInv'
<1> DEFINE old == request[p]
           c == [old EXCEPT !.todo = @ \ {node}, !.affected = @ \cup Dependents(node)]
<1>1. /\ c.op = old.op /\ c.what = old.what /\ c.seen = old.seen
      /\ c.todo = old.todo \ {node} /\ c.affected = old.affected \cup Dependents(node)
  <2>1. ASSUME NEW op, NEW S, old \in ChangeOf(op, S)
        PROVE  /\ c.op = old.op /\ c.what = old.what /\ c.seen = old.seen
               /\ c.todo = old.todo \ {node} /\ c.affected = old.affected \cup Dependents(node)
    BY <2>1 DEF ChangeOf
  <2> QED
    BY <2>1, RequestFields DEF CacheInv, RowsInv, Changes, Requests
<1>2. Goes(p, c) /\ Changes(p) /\ p \in Requests
  BY DEF Traverse, Requests
<1>3. Traversing(old) /\ IsChange(old)
  BY DEF CacheInv, RequestsInv, Changes, IsChange
<1> HIDE DEF c, old
<1>4. SourcesOf(c) = SourcesOf(old)
  BY <1>1 DEF SourcesOf
<1>5. node \in SourcesOf(old)
  BY <1>3 DEF Traversing, old
<1>6. \A k \in Dependents(node) : <<node, k>> \in edges
  BY DEF Dependents
<1>7. \A k \in Keys : <<node, k>> \in edges => k \in Dependents(node)
  BY DEF Dependents
<1>8. Traversing(c)
  BY <1>1, <1>3, <1>4, <1>5, <1>6, <1>7 DEF Traversing
<1>9. EvaluationIsCurrent(c)
  BY <1>1, <1>3 DEF EvaluationIsCurrent, IsChange
<1> QED
  BY <1>2, <1>8, <1>9, GoesKeeps

LEMMA EvaluateKeeps ==
  ASSUME CacheInv, TypeOK', NEW p \in Evaluators, Evaluate(p), ~Insert(p)
  PROVE  CacheInv'
<1>0. p \in Requests /\ TypeOK /\ (EvaluationIsCurrent(request[p]) \/ p \in raced)
  BY DEF Requests, CacheInv, RowsInv, RequestsInv
<1>1. CASE BeginEvaluate(p)
  <2> DEFINE c == [op |-> "rules", key |-> [ontology |-> ontology, rules |-> {}]]
  <2>1. Traversing(c) /\ EvaluationIsCurrent(c)
    BY DEF Traversing, IsChange, EvaluationIsCurrent
  <2> QED
    BY <1>0, <1>1, <2>1, GoesKeeps DEF BeginEvaluate
<1>2. CASE ReadRules(p)
  <2> DEFINE c == [op |-> "facts", key |-> [request[p].key EXCEPT !.rules = catalog]]
  <2>1. request[p].key \in Keys /\ request[p].op = "rules"
    BY <1>0, <1>2, RequestFields DEF ReadRules, Is, Reading
  <2>2. c.op = "facts" /\ c.key.ontology = request[p].key.ontology /\ c.key.rules = catalog
    BY <2>1 DEF Keys
  <2>3. Traversing(c) /\ (EvaluationIsCurrent(c) \/ p \in raced)
    BY <1>0, <2>1, <2>2 DEF Traversing, IsChange, EvaluationIsCurrent
  <2> QED
    BY <1>0, <1>2, <2>3, GoesKeeps DEF ReadRules
<1>3. CASE ReadFacts(p)
  <2> DEFINE c == [op |-> "find", key |-> request[p].key, from |-> facts]
  <2>1. Traversing(c) /\ (EvaluationIsCurrent(c) \/ p \in raced)
    BY <1>0, <1>3 DEF ReadFacts, Is, Traversing, IsChange, EvaluationIsCurrent
  <2> QED
    BY <1>0, <1>3, <2>1, GoesKeeps DEF ReadFacts
<1>4. CASE ServeRow(p) \/ InsertConflict(p) \/ Rebuild(p)
  BY <1>0, <1>4, StopsKeeps DEF ServeRow, InsertConflict, Rebuild
<1>5. CASE FindRow(p)
  <2>1. request[p] \in Computing /\ request[p].op = "find"
    BY <1>0, <1>5, RequestFields DEF FindRow, Is
  <2>2. PICK op \in {"insert", "rebuild"} : Goes(p, [request[p] EXCEPT !.op = op])
    BY <1>5 DEF FindRow
  <2> DEFINE c == [request[p] EXCEPT !.op = op]
  <2>3. c.op = op /\ c.key = request[p].key /\ c.from = request[p].from
    BY <2>1 DEF Computing
  <2>4. Traversing(c) /\ (EvaluationIsCurrent(c) \/ p \in raced)
    BY <1>0, <2>1, <2>2, <2>3 DEF Traversing, IsChange, EvaluationIsCurrent
  <2> QED
    BY <1>0, <2>2, <2>4, GoesKeeps
<1> QED
  BY <1>1, <1>2, <1>3, <1>4, <1>5 DEF Evaluate

\* What a change begins with are the sources of its invalidations.
LEMMA BeginsKeep ==
  ASSUME CacheInv, TypeOK', NEW p \in Changers,
         \/ \E q \in Props : BeginFact(p, q)
         \/ \E r \in Rules : BeginRule(p, r)
         \/ BeginOntology(p)
         \/ \E k \in Keys : BeginAdmin(p, k)
  PROVE  CacheInv'
<1>0. p \in Requests
  BY DEF Requests
<1>1. ASSUME NEW q \in Props, BeginFact(p, q)
      PROVE  CacheInv'
  <2>1. FactSources(q) = SourcesOf(Change("fact", q, facts[q], FactSources(q)))
    BY DEF FactSources, SourcesOf, Change
  <2> QED
    BY <1>0, <1>1, <2>1, BegunTraversing, GoesKeeps DEF BeginFact
<1>2. ASSUME NEW r \in Rules, BeginRule(p, r)
      PROVE  CacheInv'
  <2>1. RuleSources(r) = SourcesOf(Change("rule", r, 0, RuleSources(r)))
    BY DEF SourcesOf, Change
  <2> QED
    BY <1>0, <1>2, <2>1, BegunTraversing, GoesKeeps DEF BeginRule
<1>3. CASE BeginOntology(p)
  <2> DEFINE todo == {<<"ontology", ontology>>}
  <2>1. todo = SourcesOf(Change("ontology", ontology + 1, ontology, todo))
    BY DEF SourcesOf, Change
  <2> QED
    BY <1>0, <1>3, <2>1, BegunTraversing, GoesKeeps DEF BeginOntology
<1>4. ASSUME NEW k \in Keys, BeginAdmin(p, k)
      PROVE  CacheInv'
  <2>1. {<<"derived", k>>} = SourcesOf(Change("admin", k, 0, {<<"derived", k>>}))
    BY DEF SourcesOf, Change
  <2> QED
    BY <1>0, <1>4, <2>1, BegunTraversing, GoesKeeps DEF BeginAdmin
<1> QED
  BY <1>1, <1>2, <1>3, <1>4

-----------------------------------------------------------------------------
(* The steps that write.                                                   *)

\* A row that nothing overlapped with is made from what is current; a row that a
\* change overlapped with is raced, so no traversal need know of it.
LEMMA InsertKeeps ==
  ASSUME CacheInv, TypeOK', NEW p \in Evaluators, Insert(p)
  PROVE  CacheInv'
<1> DEFINE k == request[p].key
           f == request[p].from
<1>1. /\ request[p] \in Computing /\ k \in Keys /\ derived[k].status = "NONE"
      /\ derived'[k].status = "VALID" /\ derived'[k].from = f
      /\ \A x \in Keys \ {k} : derived'[x] = derived[x]
      /\ edges' = edges \cup (Dependencies(k, f) \X {k})
      /\ raced' = (raced \ {p}) \cup {x \in {k} : p \in raced \/ \E w \in Changers : Changes(w)}
      /\ request' = [request EXCEPT ![p] = Idle]
      /\ UNCHANGED <<facts, catalog, superseded, ontology>>
  BY InsertEffect DEF CacheInv
<1>2. p \in Requests /\ request[p].op = "insert"
  BY DEF Requests, Insert, Is
<1> HIDE DEF k, f
<1>3. RowsInv'
  BY InsertKeepsRows DEF CacheInv, RowsInv
<1>4. \A q \in Requests : request'[q] = IF q = p THEN Idle ELSE request[q]
  BY <1>1 DEF CacheInv, RowsInv, TypeOK
<1>5. \A x \in Keys \ {k} : x \in raced' <=> x \in raced
  BY <1>1, <1>2, RequestsAreNotKeys
<1>6. k \notin raced' => p \notin raced /\ \A w \in Changers : ~Changes(w)
  BY <1>1
<1>7. k \notin raced' => k.ontology = ontology /\ k.rules = catalog /\ f = facts
  BY <1>2, <1>6 DEF CacheInv, RequestsInv, EvaluationIsCurrent, k, f
<1>8. FreshUnlessRaced'
  <2> SUFFICES ASSUME NEW x \in Keys, derived'[x].status = "VALID", x \notin raced'
               PROVE  \A q \in PropsOf(Tracked(x, derived'[x].from)) : derived'[x].from[q] = facts[q]
    BY <1>1 DEF FreshUnlessRaced, IsValid, Current
  <2>1. CASE x = k
    BY <1>1, <1>7, <2>1
  <2>2. CASE x # k
    BY <1>1, <1>5, <2>2 DEF CacheInv, FreshUnlessRaced, IsValid, Current
  <2> QED
    BY <2>1, <2>2
<1>9. RetiredUnlessRaced'
  BY <1>1, <1>5, <1>7 DEF CacheInv, RetiredUnlessRaced, SupersededAreOut, IsValid
<1>10. ASSUME NEW q \in Evaluators \ raced'
       PROVE  EvaluationIsCurrent(request[q])'
  <2>1. EvaluationIsCurrent(Idle)
    BY DEF EvaluationIsCurrent, Idle
  <2>2. EvaluationIsCurrent(request'[q])
    BY <1>1, <1>4, <2>1 DEF CacheInv, RequestsInv, Requests
  <2> QED
    BY <1>1, <2>2 DEF EvaluationIsCurrent
<1>11. ASSUME NEW w \in Changers
       PROVE  Traversing(request[w])'
  <2>1. CASE w = p
    <3>1. request'[w].op = "none"
      BY <1>2, <1>4, <2>1 DEF Idle
    <3> QED
      BY <3>1 DEF Traversing, IsChange
  <2>2. CASE w # p /\ ~Changes(w)
    <3>1. request'[w] = request[w]
      BY <1>4, <2>2 DEF Requests
    <3> QED
      BY <2>2, <3>1 DEF Traversing, IsChange, Changes
  <2>3. CASE w # p /\ Changes(w)
    <3>1. request'[w] = request[w] /\ k \in raced'
      BY <1>4, <1>6, <2>3 DEF Requests
    <3>2. \A node, x : x \in Keys \ raced' =>
            x \in Keys \ raced /\ (<<node, x>> \in edges' => <<node, x>> \in edges)
      BY <1>1, <1>5, <3>1
    <3>3. Traversing(request[w])
      BY DEF CacheInv, RequestsInv
    <3> QED
      BY <1>1, <3>1, <3>2, <3>3 DEF Traversing
  <2> QED
    BY <2>1, <2>2, <2>3
<1> QED
  BY <1>1, <1>3, <1>8, <1>9, <1>10, <1>11 DEF CacheInv, SupersededAreOut, RequestsInv

\* What any commit of a change does to rows and requests.
LEMMA CommitEffect ==
  ASSUME CacheInv, TypeOK', NEW p \in Changers, Commits(p), Changes(p)
  PROVE  /\ RowsInv' /\ RequestsInv'
         /\ \A k \in Keys \ raced' : derived'[k].status = "VALID" =>
              /\ k \notin raced /\ derived[k].status = "VALID" /\ derived'[k].from = derived[k].from
              /\ SourcesOf(request[p]) \cap Dependencies(k, derived[k].from) = {}
<1>1. /\ request[p].todo = {} /\ edges' = edges
      /\ raced' = raced \cup {e \in Evaluators : Evaluates(e)}
      /\ request' = [request EXCEPT ![p] = Idle]
      /\ InvalidateDerived(request[p].affected)
  BY DEF Commits, Ends
<1>2. \A k \in Keys :
        /\ derived'[k].from = derived[k].from
        /\ derived'[k].status = "NONE" <=> derived[k].status = "NONE"
        /\ derived'[k].status = "VALID" <=> derived[k].status = "VALID" /\ k \notin request[p].affected
  BY <1>1, InvalidateTyped DEF CacheInv, RowsInv
<1>3. RowsInv'
  BY <1>1, <1>2 DEF CacheInv, RowsInv, EdgesArePairs, RowsHaveTheirEdges
<1>4. \A q \in Requests : request'[q] = IF q = p THEN Idle ELSE request[q]
  BY <1>1 DEF CacheInv, RowsInv, TypeOK
<1>5. ASSUME NEW q \in Evaluators \ raced'
      PROVE  EvaluationIsCurrent(request[q])'
  <2>1. ~Evaluates(q)
    BY <1>1
  <2>2. request'[q].op \notin {"rules", "facts", "find", "insert", "rebuild"}
    BY <1>4, <2>1 DEF Evaluates, Idle, Requests
  <2> QED
    BY <2>2 DEF EvaluationIsCurrent
<1>6. ASSUME NEW w \in Changers
      PROVE  Traversing(request[w])'
  <2>1. CASE w = p
    <3>1. request'[w].op = "none"
      BY <1>4, <2>1 DEF Idle, Requests
    <3> QED
      BY <3>1 DEF Traversing, IsChange
  <2>2. CASE w # p
    <3>1. request'[w] = request[w] /\ Traversing(request[w])
      BY <1>4, <2>2 DEF Requests, CacheInv, RequestsInv
    <3>2. Keys \ raced' \subseteq Keys \ raced
      BY <1>1
    <3> QED
      BY <1>1, <3>1, <3>2 DEF Traversing
  <2> QED
    BY <2>1, <2>2
<1>7. ASSUME NEW k \in Keys \ raced', derived'[k].status = "VALID"
      PROVE  /\ k \notin raced /\ derived[k].status = "VALID" /\ derived'[k].from = derived[k].from
             /\ SourcesOf(request[p]) \cap Dependencies(k, derived[k].from) = {}
  <2>1. k \notin raced /\ derived[k].status = "VALID" /\ k \notin request[p].affected
    BY <1>1, <1>2, <1>7
  <2>2. \A node \in SourcesOf(request[p]) : <<node, k>> \notin edges
    BY <1>1, <2>1 DEF CacheInv, RequestsInv, Traversing, IsChange, Changes
  <2>3. \A node \in SourcesOf(request[p]) : node \notin Dependencies(k, derived[k].from)
    BY <2>1, <2>2, EdgeMeaning DEF CacheInv
  <2> QED
    BY <1>2, <2>1, <2>3
<1> QED
  BY <1>3, <1>5, <1>6, <1>7 DEF RequestsInv

\* A commit has followed the edges from what it replaces.
LEMMA CommitKeeps ==
  ASSUME CacheInv, TypeOK', NEW p \in Changers,
         CommitFact(p) \/ CommitRule(p) \/ CommitOntology(p) \/ CommitAdmin(p)
  PROVE  CacheInv'
<1>0. p \in Requests /\ TypeOK
  BY DEF Requests, CacheInv, RowsInv
<1>1. Commits(p) /\ Changes(p)
  BY DEF CommitFact, CommitRule, CommitOntology, CommitAdmin, Is, Changes
<1>2. /\ RowsInv' /\ RequestsInv'
      /\ \A k \in Keys \ raced' : derived'[k].status = "VALID" =>
           /\ k \notin raced /\ derived[k].status = "VALID" /\ derived'[k].from = derived[k].from
           /\ SourcesOf(request[p]) \cap Dependencies(k, derived[k].from) = {}
  BY <1>1, CommitEffect
<1>3. ASSUME NEW k \in Keys \ raced', derived'[k].status = "VALID"
      PROVE  /\ k.ontology = ontology /\ k.rules \cap InScope \cap superseded = {}
             /\ \A q \in PropsOf(Tracked(k, derived[k].from)) : derived[k].from[q] = facts[q]
  BY <1>2, <1>3 DEF CacheInv, FreshUnlessRaced, RetiredUnlessRaced, IsValid, Current
<1>4. CASE CommitFact(p)
  <2>1. request[p] \in ChangeOf("fact", Props)
    BY <1>0, <1>4, RequestFields DEF CommitFact, Is
  <2> DEFINE q == request[p].what
  <2>2. /\ q \in Props /\ request[p].op = "fact"
        /\ facts' = [facts EXCEPT ![q] = @ + 1]
        /\ UNCHANGED <<catalog, superseded, ontology>>
    BY <1>4, <2>1 DEF CommitFact, ChangeOf
  <2>3. \A x \in Props \ {q} : facts'[x] = facts[x]
    BY <1>0, <2>2 DEF TypeOK, Snapshot
  <2>4. \A s \in Selectors[q] : <<"fact_property", s>> \in SourcesOf(request[p])
    BY <2>2 DEF SourcesOf
  <2> HIDE DEF q
  <2>5. ASSUME NEW k \in Keys \ raced', derived'[k].status = "VALID"
        PROVE  q \notin PropsOf(Tracked(k, derived[k].from))
    <3>1. SourcesOf(request[p]) \cap Dependencies(k, derived[k].from) = {}
      BY <1>2, <2>5
    <3>2. \A s \in Tracked(k, derived[k].from) : s \notin Selectors[q]
      BY <2>4, <3>1, TrackedAreRegistered
    <3> QED
      BY <3>2 DEF PropsOf, Matching
  <2>6. FreshUnlessRaced'
    <3> SUFFICES ASSUME NEW k \in Keys \ raced', derived'[k].status = "VALID",
                        NEW x \in PropsOf(Tracked(k, derived'[k].from))
                 PROVE  derived'[k].from[x] = facts'[x]
      BY DEF FreshUnlessRaced, IsValid, Current
    <3>1. derived'[k].from = derived[k].from
      BY <1>2
    <3>2. x \in Props
      BY DEF PropsOf, Matching
    <3> QED
      BY <1>3, <2>3, <2>5, <3>1, <3>2
  <2>7. RetiredUnlessRaced'
    BY <1>3, <2>2 DEF RetiredUnlessRaced, IsValid
  <2> QED
    BY <1>2, <2>2, <2>6, <2>7 DEF CacheInv, SupersededAreOut
<1>5. CASE CommitRule(p)
  <2> DEFINE r == request[p].what
  <2>1. r \in Rules /\ request[p].op = "rule"
    BY <1>0, <1>5, RequestFields DEF CommitRule, Is, ChangeOf
  <2>2. /\ catalog' = (catalog \ ({Replaces[r]} \ {NoRule})) \cup ({r} \ superseded)
        /\ superseded' = superseded \cup ({Replaces[r]} \ {NoRule})
        /\ UNCHANGED <<facts, ontology>>
    BY <1>5 DEF CommitRule
  <2>3. Replaces[r] # r
    BY <2>1, CacheAssumption
  <2>4. Replaces[r] # NoRule => <<"rule", Replaces[r]>> \in SourcesOf(request[p])
    BY <2>1 DEF SourcesOf, RuleSources
  <2> HIDE DEF r
  <2>5. SupersededAreOut'
    BY <2>2, <2>3 DEF CacheInv, SupersededAreOut
  <2>6. ASSUME NEW k \in Keys \ raced', derived'[k].status = "VALID", Replaces[r] # NoRule
        PROVE  Replaces[r] \notin k.rules \cap InScope
    BY <1>2, <2>4, <2>6 DEF Dependencies
  <2>7. RetiredUnlessRaced'
    BY <1>3, <2>2, <2>6 DEF RetiredUnlessRaced, IsValid
  <2>8. FreshUnlessRaced'
    BY <1>2, <1>3, <2>2 DEF FreshUnlessRaced, IsValid, Current
  <2> QED
    BY <1>2, <2>5, <2>7, <2>8 DEF CacheInv
<1>6. CASE CommitOntology(p)
  <2>1. /\ request[p].op = "ontology" /\ request[p].seen = ontology
        /\ UNCHANGED <<facts, catalog, superseded>>
    BY <1>6 DEF CommitOntology, Is
  <2>2. <<"ontology", ontology>> \in SourcesOf(request[p])
    BY <2>1 DEF SourcesOf
  <2>3. ASSUME NEW k \in Keys \ raced', derived'[k].status = "VALID"
        PROVE  FALSE
    <3>1. k.ontology = ontology
      BY <1>3, <2>3
    <3>2. <<"ontology", ontology>> \in Dependencies(k, derived[k].from)
      BY <3>1 DEF Dependencies
    <3> QED
      BY <1>2, <2>2, <2>3, <3>2
  <2>4. FreshUnlessRaced' /\ RetiredUnlessRaced'
    BY <2>3 DEF FreshUnlessRaced, RetiredUnlessRaced, IsValid
  <2> QED
    BY <1>2, <2>1, <2>4 DEF CacheInv, SupersededAreOut
<1>7. CASE CommitAdmin(p)
  <2>1. UNCHANGED <<facts, catalog, superseded, ontology>>
    BY <1>7 DEF CommitAdmin, inputs
  <2>2. FreshUnlessRaced' /\ RetiredUnlessRaced'
    BY <1>2, <1>3, <2>1 DEF FreshUnlessRaced, RetiredUnlessRaced, IsValid, Current
  <2> QED
    BY <1>2, <2>1, <2>2 DEF CacheInv, SupersededAreOut
<1> QED
  BY <1>4, <1>5, <1>6, <1>7

\* A rule that leaves the catalog is a change without an invalidation.
LEMMA DemoteKeeps ==
  ASSUME CacheInv, TypeOK', NEW p \in Changers, NEW r \in Rules, Demote(p, r)
  PROVE  CacheInv'
<1>1. /\ raced' = raced \cup {e \in Evaluators : Evaluates(e)}
      /\ catalog' = catalog \ {r}
      /\ UNCHANGED <<facts, superseded, ontology, derived, edges, request>>
  BY DEF Demote, store
<1>2. RowsInv' /\ SupersededAreOut'
  BY <1>1 DEF CacheInv, RowsInv, EdgesArePairs, RowsHaveTheirEdges, SupersededAreOut
<1>3. FreshUnlessRaced' /\ RetiredUnlessRaced'
  BY <1>1 DEF CacheInv, FreshUnlessRaced, RetiredUnlessRaced, IsValid, Current
<1>4. ASSUME NEW q \in Evaluators \ raced'
      PROVE  EvaluationIsCurrent(request[q])'
  BY <1>1 DEF EvaluationIsCurrent, Evaluates
<1>5. ASSUME NEW w \in Changers
      PROVE  Traversing(request[w])'
  <2>1. Traversing(request[w]) /\ Keys \ raced' \subseteq Keys \ raced
    BY <1>1 DEF CacheInv, RequestsInv
  <2> QED
    BY <1>1, <2>1 DEF Traversing
<1> QED
  BY <1>2, <1>3, <1>4, <1>5 DEF CacheInv, RequestsInv

LEMMA CacheStep ==
  ASSUME CacheInv, [Next]_vars
  PROVE  CacheInv'
<1>0. TypeOK'
  BY StepTyped DEF CacheInv, RowsInv
<1>1. ASSUME NEW p \in Evaluators, Evaluate(p)
      PROVE  CacheInv'
  BY <1>0, <1>1, EvaluateKeeps, InsertKeeps
<1>2. ASSUME NEW p \in Changers, ChangeInput(p)
      PROVE  CacheInv'
  <2>1. ASSUME NEW node \in request[p].todo, TooWide(p, node)
        PROVE  CacheInv'
    BY <1>0, <2>1, StopsKeeps DEF TooWide, Requests
  <2> QED
    BY <1>0, <1>2, <2>1, BeginsKeep, TraverseKeeps, CommitKeeps, DemoteKeeps DEF ChangeInput
<1>3. ASSUME NEW p \in Requests, Abort(p)
      PROVE  CacheInv'
  BY <1>0, <1>3, StopsKeeps DEF Abort
<1>4. CASE UNCHANGED vars
  <2>1. UNCHANGED <<facts, catalog, superseded, ontology, derived, edges, request, raced>>
    BY <1>4 DEF vars
  <2>2. RowsInv' /\ SupersededAreOut' /\ FreshUnlessRaced' /\ RetiredUnlessRaced'
    BY <2>1 DEF CacheInv, RowsInv, TypeOK, EdgesArePairs, RowsHaveTheirEdges, SupersededAreOut,
                FreshUnlessRaced, RetiredUnlessRaced, IsValid, Current
  <2>3. RequestsInv'
    BY <2>1 DEF CacheInv, RequestsInv, EvaluationIsCurrent, Traversing
  <2> QED
    BY <2>2, <2>3 DEF CacheInv
<1> QED
  BY <1>1, <1>2, <1>3, <1>4 DEF Next

LEMMA InitCache ==
  ASSUME Init
  PROVE  CacheInv
<1>1. RowsInv
  BY InitRows
<1>2. SupersededAreOut /\ FreshUnlessRaced /\ RetiredUnlessRaced
  BY DEF Init, SupersededAreOut, FreshUnlessRaced, RetiredUnlessRaced, IsValid
<1>3. \A p \in Requests : request[p].op = "none"
  BY DEF Init, Idle
<1>4. RequestsInv
  BY <1>3 DEF RequestsInv, EvaluationIsCurrent, Traversing, IsChange, Requests
<1> QED
  BY <1>1, <1>2, <1>4 DEF CacheInv

\* A commit that changes a fact invalidates only rows with an edge from it.
LEMMA TargetedStep ==
  ASSUME CacheInv, [Next]_vars,
         NEW k \in Keys, NEW q \in Props,
         IsValid(k), derived'[k].status = "INVALIDATED", facts'[q] # facts[q]
  PROVE  q \in PropsOf(Tracked(k, derived[k].from))
<1>1. PICK p \in Changers : CommitFact(p)
  BY DEF Next, vars, Evaluate, ChangeInput, BeginEvaluate, ReadRules, ReadFacts, ServeRow, FindRow,
         Insert, InsertConflict, Rebuild, BeginFact, BeginRule, Demote, BeginOntology, BeginAdmin,
         Traverse, TooWide, CommitRule, CommitOntology, CommitAdmin, Abort, Goes, Stops, inputs
<1>2. request[p] \in ChangeOf("fact", Props)
  BY <1>1, RequestFields DEF CommitFact, Is, CacheInv, RowsInv, Requests
<1>3. /\ request[p].op = "fact" /\ request[p].what = q /\ request[p].seen = facts[q]
      /\ Commits(p)
  BY <1>1, <1>2 DEF CommitFact, Is, ChangeOf, CacheInv, RowsInv, TypeOK, Snapshot
<1>4. k \in request[p].affected
  BY <1>3, InvalidateTyped DEF Commits, IsValid, CacheInv, RowsInv
<1>5. PICK node \in SourcesOf(request[p]) : <<node, k>> \in edges
  BY <1>3, <1>4 DEF CacheInv, RequestsInv, Traversing, IsChange
<1>6. node \in Dependencies(k, derived[k].from)
  BY <1>5, EdgeMeaning DEF CacheInv
<1>7. node = <<"fact", q, facts[q]>> \/ \E s \in Selectors[q] : node = <<"fact_property", s>>
  BY <1>3, <1>5 DEF SourcesOf
<1>8. CASE node = <<"fact", q, facts[q]>>
  <2> DEFINE t == Tracked(k, derived[k].from)
  <2> HIDE DEF t
  <2>1. node \in {<<"fact", x, derived[k].from[x]>> : x \in {y \in PropsOf(t) : derived[k].from[y] # 0}}
    BY <1>6, <1>8 DEF Dependencies, t
  <2>2. PICK x \in PropsOf(t) : node = <<"fact", x, derived[k].from[x]>>
    BY <2>1
  <2> QED
    BY <1>8, <2>2 DEF t
<1>9. ASSUME NEW s \in Selectors[q], node = <<"fact_property", s>>
      PROVE  q \in PropsOf(Tracked(k, derived[k].from))
  <2> DEFINE t == Tracked(k, derived[k].from)
  <2> HIDE DEF t
  <2>1. node \in {<<"fact_property", x>> : x \in t}
    BY <1>6, <1>9 DEF Dependencies, t
  <2>2. s \in t
    BY <1>9, <2>1
  <2> QED
    BY <2>2 DEF t, PropsOf, Matching
<1> QED
  BY <1>7, <1>8, <1>9

-----------------------------------------------------------------------------
(* Theorems.                                                               *)

\* evaluate and invalidate: rows, edges and every request in flight have their
\* types, for any constants.
THEOREM TypeCorrect == Spec => []TypeOK
<1> QED
  BY InitTyped, StepTyped, PTL DEF Spec

\* The inductive invariant: a change in flight has followed every edge from the sources
\* it has visited, except to rows stored beside it, and an evaluation no change
\* overlapped with has read what is current.
THEOREM CacheInvariant == Spec => []CacheInv
<1> QED
  BY InitCache, CacheStep, PTL DEF Spec

\* create_derived and its edges: every row has the edges from exactly what it was
\* computed from, whatever evaluates, changes and fails beside it.
THEOREM EdgesWithRows == Spec => []RowsHaveTheirEdges
<1>1. CacheInv => RowsHaveTheirEdges
  BY DEF CacheInv, RowsInv
<1> QED
  BY <1>1, CacheInvariant, PTL

\* invalidate: a row evaluated while no change was in flight agrees, as long as it is
\* VALID, with every fact its conditions and exceptions read, for any number of requests.
THEOREM Fresh == Spec => []FreshUnlessRaced
<1>1. CacheInv => FreshUnlessRaced
  BY DEF CacheInv
<1> QED
  BY <1>1, CacheInvariant, PTL

\* activate, of a rule or an ontology: such a row does not outlive its ontology or a
\* rule it executed.
THEOREM Retired == Spec => []RetiredUnlessRaced
<1>1. CacheInv => RetiredUnlessRaced
  BY DEF CacheInv
<1> QED
  BY <1>1, CacheInvariant, PTL

\* invalidate_derived: a changed fact leaves alone the rows that never looked for
\* facts of its property, raced rows included.
THEOREM Targeted == Spec => InvalidationIsTargeted
<1>1. CacheInv /\ [Next]_vars =>
        [\A k \in Keys, q \in Props :
           IsValid(k) /\ derived'[k].status = "INVALIDATED" /\ facts'[q] # facts[q] =>
             q \in PropsOf(Tracked(k, derived[k].from))]_vars
  BY TargetedStep
<1> QED
  BY <1>1, CacheInvariant, PTL DEF Spec, InvalidationIsTargeted

\* The promise of the documentation holds under a condition on the rules: if no value of
\* an effect reads what neither the condition nor the exception of its rule mentions, rows
\* agree with everything they were made from.
THEOREM FreshValues ==
  ASSUME \A r \in Rules : Effect[r] \subseteq Condition[r] \cup Exception[r]
  PROVE  Spec => []ValuesAreFresh
<1>1. ASSUME NEW k \in Keys, NEW f
      PROVE  Used(k, f) = Tracked(k, f)
  <2>1. ASSUME NEW r \in k.rules \cap InScope, Matches(r, f)
        PROVE  Effect[r] \subseteq Tracked(k, f)
    <3>1. r \in Rules
      BY DEF Keys
    <3> QED
      BY <2>1, <3>1 DEF Tracked
  <2> QED
    BY <2>1 DEF Used
<1>2. TypeOK /\ FreshUnlessRaced => ValuesAreFresh
  BY <1>1 DEF TypeOK, FreshUnlessRaced, ValuesAreFresh
<1> QED
  BY <1>2, TypeCorrect, Fresh, PTL
===============================================================================
