# Andromeda Knowledge Core: models and proofs

TLA+ models of the part of Andromeda that decides what is known, what is in
effect and what is still valid, TLC configurations that check them on small
instances, and TLAPS proofs of what matters most for every instance. Paths
below are relative to `src/src/andromeda_core/` of the repository unless they
begin with `docs/`, `README.md` or `tests/`.

## 1. The system

Andromeda is a FastAPI backend over one PostgreSQL database. There is no
background worker and no queue: everything happens in HTTP requests, and what
runs concurrently is requests. `presentation/api/dependencies.py` gives each of
them one session, that is one READ COMMITTED transaction that the service
commits and any exception rolls back. So every hard behaviour of the system has
one shape: a request reads rows, decides, and writes at its commit, while others
commit in between. The code's defences are `UPDATE ... WHERE row_version = ?`,
`UPDATE ... WHERE transaction_to IS NULL` and unique indexes.

### Inventory

| Component (source) | State | Operations | What makes it correct |
|---|---|---|---|
| Canonical fact ledger (`application/knowledge_service.py`) | `facts` with `transaction_from/to`, change log | `create_fact`, `accept_observation`, queries at `known_at` | one current value per slot, a history without forks or holes, every closure accounted for, an accepted observation is current |
| Registry (same file) | `sources`, `knowledge_objects`, `relations` | `create_source`, `create_object`, `create_relation` | one row per identity; the ends of a relation have types its relation type allows |
| Observation intake (same file) | `observations`, `review_items` | `create_observation`, `accept_observation` | what is held has a review; what is accepted is within the active ontology |
| Ontology versions (`application/ontology_service.py`) | `ontology_versions`, definitions, proposals | `create_version`, `add_definition`, `activate`, `create_unknown_concept_proposal` | exactly one version is active |
| Review decisions (`application/review_service.py`) | `review_items` | `decide` | a review is decided once, together with what it decides |
| Rule lifecycle (`application/rule_service.py`) | `rules`, `rule_relations`, `rule_tests`, reviews | `create`, `validate`, `test`, `activate` | no contradictory rules and no two versions of a key in effect; only qualified rules in effect |
| Rule policy (`domain/rules.py`) | none | `validate_rule_payload`, `scope_matches`, `effect_conflicts` | the conflict check covers whatever the engine would apply |
| Rule DSL (`domain/dsl/`) | none | `validate_dsl`, `evaluate` | what validates can be evaluated; all that decides is a recorded dependency |
| Rule engine (`domain/engine.py`) | accumulator of one evaluation | `evaluate` | the result does not hang on the order of rules of one priority |
| Derived cache (`application/computation_service.py`) | `derived_values`, `dependencies` | `evaluate` | a VALID row is current |
| Dependency invalidation (`application/dependency_service.py`) | the same | `invalidate` | reaches every row concerned and no other |
| Ingestion pipeline (`application/ingestion_pipeline.py`) | `ingestion_pipeline_runs` | `run`, its stages, failure handlers | payloads of one attempt belong together, saved stages survive a stop, only what was delivered ends |
| Repositories (`infrastructure/db/`) | all tables | guarded updates, queries | the guards above |
| Demonstration seed (`scripts/seed_demo.py` of the repository) | none of its own | `seed_demo` and its `_ensure_...` steps | can be stopped, repeated and run twice at once, and leaves the demonstration once |
| Dependency graph (`domain/dependencies.py`) | in-memory graph | `add`, `has_path`, `affected` | acyclic; used by unit tests only |
| Explanation, semantic queries, audit, HTTP, adapters, configuration | none of their own, or append-only | reads, serialization, external I/O | not modelled, see section 8 |

Interactions: accepting a fact, activating a rule and activating an ontology all
end in `DependencyService.invalidate` in their own transaction; `evaluate` reads
rules, facts and the ontology and records edges from them; a review decision calls
`accept_observation`, which commits by itself before the review is decided;
`create_observation` commits a proposal before its observation; a blocked rule
activation commits its review and then raises. The seed calls nearly all of these services
in one session, looks for each thing before it asks for it, and commits with each of them.

## 2. Modules

| Module | Models | Composed with |
|---|---|---|
| `FactLedger` | the facts table under overlapping corrections | |
| `BitemporalHistory` | what the ledger promises: answers about instants that have settled never change | abstract |
| `FactLedgerRefinement` | the refinement mapping | extends `FactLedger`, instantiates `BitemporalHistory` |
| `RuleLifecycle` | the rules table under overlapping authors, editors and reviewers | |
| `OntologyVersions` | versions and definitions under overlapping activations | |
| `ReviewWorkflow` | observations, proposals and reviews | extends `OntologyVersions` and shares its requests |
| `RuleDsl` | what evaluation and validation make of one node of an expression, as operators | |
| `RuleExpressions` | the two recursions over an expression | extends `RuleDsl` |
| `RuleEngine` | one evaluation of a catalog, the admission policy, the match between changes and dependencies | extends `RuleDsl`; `MCRuleEngine` gives it the recursions of `RuleExpressions` |
| `DerivedCache` | stored results, edges, invalidation | |
| `IngestionPipeline` | the attempts of one stream | |
| `Registry` | sources, objects and relations under overlapping registrations | |
| `DemoSeed` | the demonstration script beside clients of the API | extends `Registry` and shares its requests |
| `MC...` | the instances TLC checks | |
| `...Proofs` | theorems | |

### How a request is modelled

A request in flight is a record: the operation it has reached and what it has read.
`BeginX` starts it, each further SELECT that later code depends on is one action,
and the action named `Commit`, `Promote`, `Switch`, `Close`, ... performs all writes of
the transaction and evaluates the guards of its UPDATEs and the unique indexes.
Writing at the commit is exact for this code: a guarded UPDATE holds its row locked
until the commit, so a second writer waits and then finds the row it must refuse;
the same goes for a unique key. `Abort` may happen at every step; a refused guard, an
exception and a process that dies are all rollbacks. Where an operation commits
twice (a concept's proposal and then the observation, an acceptance and then its
review) the two commits are two actions, and `Abort` in between leaves the first.

The session's identity map holds its objects weakly and the services keep only
serialized dictionaries, so a `get` after a `get` really reads the row again: the
models read again exactly where the code does.

### FactLedger

A slot is subject, property and the moment `valid_from` names; a fact is a slot, a value
and a spelling of that moment, because `identity_hash` takes the text and
`_same_moment` the moment. `transactionFrom` and `transactionTo` are the columns,
`clock` the wall clock, `request` the reads of requests: `find_fact_by_identity`
(`FindIdentity`), `list_facts` with `_find_replaced_fact` (`ListCurrent`), `utc_now`
(`Stamp`), and `Commit`, whose guard `MayCommit` is the UPDATE of
`close_fact_transaction` and `uq_fact_identity_key`.

### BitemporalHistory and FactLedgerRefinement

The abstract specification has, for each slot, the facts ever recorded, those known now, and the
final answers about past instants. A step accepts one fact, which may replace one that is
current, and may settle more instants; it never withdraws an answer that is final. In a slot that has
exactly one fact at every instant (`Single`) each answer is one fact. The mapping takes the answers of
`list_facts` as they are. The instants that are final (`Final`) lie before the clock and before the stamp of every
request in flight: `transaction_from` is stamped before the commit, so a `known_at` query for an
instant in between answers differently before and after that commit.

### RuleLifecycle

`status`, `rowVersion`, `version` and `closed` are the columns of a rule, `passed` the
recorded outcome of its tests, `relations` and `reviews` what a blocked activation leaves.
The content of a rule never changes after its creation, so `Valid`, `Tested`,
`Passing`, `Sourced`, `Clash` (the pairs of `effect_conflicts`) and `Declares` (the relationships
its payload names, of any type and to any rule that exists, `CONFLICTS_WITH` included) are constants.
`CheckTests`, `CheckCatalog`, then `Block` or `ReadPrevious` and `Promote` are the path of
`activate`; `RunTests` and `SaveTest` keep the code's habit of testing the row first
read and guarding the update with the version of the row read again.

### OntologyVersions and ReviewWorkflow

`ontology` holds each version's status, `row_version` and property codes; `activate` is
`BeginActivate`, `ReadActive`, `Switch`. `Expecting` says whether clients send
`expected_version`, which is an optional query parameter of the endpoint.
`observation` and `factOf` are the observation rows and the ontology of the fact made of
each; `reviews` are the reviews in order, each with the proposal created with it.
`Intake` is `create_observation`, `Decide` is `ReviewService.decide`.

### RuleDsl, RuleExpressions and RuleEngine

An expression is a record. `Leaf` and `Combined` say what the value and the dependencies of a
node are, given those of its operands, `WellFormed` what validation asks of one node. Evaluation never stops
early: both operands of an `or` are evaluated and
tracked. A bare list is its own value, so expressions in it are validated and never
evaluated. The recursions, `EvaluateNode` (`_evaluate`) and `ValidateNode` (`validate_dsl`), are in `RuleExpressions`.
`RuleEngine` takes them as constants, `Evaluate` and `Valid`: its `TraversalAssumption` says that each gives of a node what `Leaf`, `Combined` and
`WellFormed` make of it and of its operands. TLC evaluates that assumption for the recursions themselves.

`RuleEngine` takes one rule per step, by descending priority, and then each effect of a rule that matches (`ApplyNext`); rules
of one priority are ordered by their logical keys in the code and in any order in the model,
so a property of the model is a property for all namings. `reading` is what the evaluation was given, the
rows and the order in which `list_facts` puts them, by code and then by random id (`Orders`). `Admissible` catalogs are those that
activations, one at a time, can bring about: valid rules, no conflict.

### DerivedCache

Facts are reduced to the number of the open version of each property, a rule to the
selectors its condition, exception and effects mention. `Tracked` is what the engine records,
`Used` what the result was made from. A key is the ontology and the set of active rules,
as `result_key` is; the facts are not in it, so that a stored row is current rests on
`edges` alone. `Traverse` reads the edges of one source, `Commits` is the UPDATE of the
affected rows. `raced` is a history variable: the evaluations that a change
overlapped and the rows they stored.

### IngestionPipeline

`attempts` are the rows in the order of `created_at`; every `_create_pipeline` and
`_update_pipeline` is a commit and one action. `Stop` is a crash between any two, `StageFails` an
exception of a port, `MarkFailed` its handler, once for every stage the run is inside of.
Fetcher, extractor and publisher are ports (the repository has adapters for the
first two and none for the publisher): each may fail, and a publication also after
the Core has taken it. `ProposalsOf` is what the extractor finds; an extraction that finds nothing is stored as
`NoProposals`, the empty list, and differs from `NoDoc`, no extraction. `HasProposals` is the code's test for an
extraction, which takes both for none. `shared` is a
history variable: attempts that two runs have worked on at once.

### Registry and DemoSeed

`rows` holds the three tables in the order of their insertion, so a row's position is its id;
`request` is what a client's request has found. `Begin` and its three callers are the checks of
`create_source`, `create_object` and `create_relation`, `Find` is the SELECT of the upsert, `Insert` the INSERT and
commit, with `MayInsert` for the unique indexes: none covers a source's checksum. The types a relation type
allows (`From`, `To`) are the same in every version. A new relation invalidates the
results that asked for its relation type; that is `DerivedCache`, where a selector
is a property or a relation type.

`DemoSeed` takes the script one commit per action: `Start`, `ReadDefinitions`, `AddDefinition` and
`ActivateOntology` for the ontology, `Ask` and `Await` for the registry, `EnsureFact` and `AcceptFact` for the
campaign fact, `EnsureRelation`, `EnsureRule` and `WorkOnRule`. `seed[s].status` is the ontology's status as `Start` read
it. `WorkOnRule` is one commit each for the validation, the tests and the activation of a rule. `Stop` is a crash after any of them; a refused commit is one as well. The clients register, activate a
version, create and activate another, and enter the campaign fact. History variables: `touched` are the runs
that saw a commit of another client, `changes` counts the commits of clients, `abandoned` are the
rules whose run was stopped before it activated them.

## 3. Runs

| Run | Configuration | Instance | States | What it shows |
|---|---|---|---|---|
| `fact_ledger` | `MCFactLedger.cfg` | 2 requests, a held slot with 3 values, an empty slot with 2, 1 observation | 182 thousand | `SnapshotUnique`, `ClosuresAreLogged`, `AcceptedIsRecorded`, `HistoryIsAppendOnly`, `SlotNeverEmpties`, and that the ledger implements `BitemporalHistory` (`ImplementsHistory`) |
| `rule_lifecycle` | `MCRuleLifecycle.cfg` | 4 rules of 2 keys, 2 authors, 1 editor, 1 reviewer | 2.1 million | `OneEffectivePerKey`, `NoEffectiveContradiction`, `ActiveIsQualified`, `BlockIsReviewed`, `ReplacedIsOut` |
| `derived_cache` | `MCDerivedCache.cfg` | 2 properties under a wildcard, a rule and its successor, 2 ontologies, 2 requests that evaluate, one of which also changes | 1.8 million | `RowsHaveTheirEdges`, `FreshUnlessRaced`, `RetiredUnlessRaced`, `InvalidationIsTargeted` |
| `rule_engine` | `MCRuleEngine.cfg` | every admissible catalog of up to 3 of 12 rules over every state of 5 rows; some 800 expressions | 96 thousand | `ResultIsDeclared`, `NoContradictionApplies`, `ValidIsEvaluable`, `ChangeIsNoticed` |
| `review_workflow` | `MCReviewWorkflow.cfg` | 3 versions, 2 observations, 2 requests of every kind, 2 reviews | 1.7 million | `OneActiveOntology`, `ProposalAgreesWithReview`, `HeldIsExplained`, `ApprovedIsAccepted`, `AcceptedWithinOntology`, `DecidedOnce` |
| `demo_seed` | `MCDemoSeed.cfg` | 2 runs of the script with 2 objects and 1 rule, 1 client, 2 versions, 2 sources | 0.7 million | `RelationsConform`, `SeedIsRepeatable`, `SeedIsComplete` |
| `ingestion` | `MCIngestionPipeline.cfg` | 2 runs, a document with proposals and one without | 1.4 million | `PayloadsMatch`, `TerminalWasDelivered`, `SavedStagesAreKept`, `FinishedIsFinal` |

The five runs of section 6 are expected to end in a violation. Every property is paired in
`PROJECT.json` with a plausible fault of the code (the definitions marked "A fault")
under which TLC finds it violated in the same run.

## 4. Bounds, and why they are enough

- **Requests.** Two of every kind that can interfere: the races of this code are
  between a request that has read and one that commits, and a third request would
  repeat the role of the second. In `rule_lifecycle` one request at a time activates
  (`ReviewsAreSerial`), because `rule_race` shows what happens otherwise; two
  authors and an editor overlap with it. Interchangeable requests are a symmetry set
  in the runs without liveness.
- **`fact_ledger`.** The held slot has three values, so that a correction of a correction
  and a return to an earlier value both happen; each slot has one spelling of
  its moment. A fact's identity has one row, so the history is finite without a counter.
- **`rule_lifecycle`.** `v1` and `other`, of two keys, contradict each other. `v3` replaces `v1`; it declares a conflict with `other`, as
  authors may. `v2` is a version of the same key that replaces `other`: versions of a key that replace nothing of it
  meet, and a rule of another key is replaced, which the check of versions does not see. `MaxRow` bounds `row_version`: 4 for `other`,
  which is superseded when it is in effect, or as a draft and is then tested and activated; 3 for the others (tested, activated).
  With 4 for `v1` as well the run has 4.7 million states and takes too long beside others; it then
  finds no violation either. Every rule of the instance is valid, sourced and passing, so that each can reach the catalog, and a fifth rule
  does not fit the time of a run. What the run sees of `ActiveIsQualified` is that rules without a recorded pass are kept out; that invalid, unsourced
  and failing ones are is proved (`ActiveQualified`).
- **`derived_cache`.** `MaxFacts` is one version of each property, so that a row found none or one,
  `MaxOntology` is 2, `MaxRows` is 2 because a key is never stored twice,
  `MaxNodes` stands for the 10000 nodes of a traversal, and is 2 so that `TooWide` happens.
- **`rule_engine`.** Up to `MaxRules` = 3 rules meet: two can contradict, the third sees what
  the two left. `MaxDepth` is the code's default of 30. `Knowledge` is five rows, of which every
  state is tried. `Orders` has three of the orders of their ids: a row of one subject before, between and after the two of another. `CHECK_DEADLOCK FALSE`, because an evaluation ends; no other run says so.
- **`review_workflow`.** `MaxVersions` 3: the active version, a draft, and one to be
  created and activated while an activation is in flight. `MaxReviews` 2: one of an
  observation and one of a proposal. `Expecting` is TRUE and `Breaking` empty: see section 6.
- **`demo_seed`.** `MaxChanges` 1: one commit of a client at any moment; two did not fit the time of a
  run (3 million states without a violation when it was stopped). A run can be stopped between two definitions of a kind, two kinds and two objects: there are four definitions of three
  kinds and two objects. There is one rule, because each is worked on as the one before, after it; two quadruple the
  time. The second source is one without an external
  identifier, which is looked for by its checksum. Two runs of the script are a symmetry set.
- **`ingestion`.** One stream, two runs, a document with proposals and one without; a row per
  document, as the unique key on stream and checksum has it.

Some properties exclude what does not hold, by a history variable that no guard reads or
by a condition on the slots:
`FreshUnlessRaced` and `RetiredUnlessRaced` exclude rows of evaluations that a
change overlapped (`raced`); the properties of `ingestion` exclude attempts that two
runs worked on at once (`shared`), and `SavedStagesAreKept` an extraction that is stored and empty; `BlockIsReviewed` excludes the
conflicts that authors declare; `SnapshotUnique` speaks of the slots that already held
a fact at the start and whose moment has one spelling (`Settled`); in the others `ImplementsHistory` allows an answer of several facts.
`SeedIsRepeatable` speaks of runs during which nobody else committed anything (`touched`), in states that no
run can get over excepted (`Obstructed`); `SeedIsComplete` excepts rules whose creation was interrupted
(`abandoned`) or is going on. Section 6 says what happens
in the excluded cases.

## 5. Fairness

Only `cache_rebuild` uses any, in `LiveSpec`: an idle evaluator eventually asks its query again
(weak fairness of `BeginEvaluate`), and each step of an evaluation that is enabled again and
again is eventually taken (strong fairness, because `Abort` competes with every step: the
connection does not fail every time). The other runs check safety only and
hold for requests that stop anywhere. Nothing in the code schedules work by itself, so
there is nothing else it promises to do eventually.

## 6. Where the code and its documents differ

### Shown by a run

- `fact_revert`, `knowledge_service.py:186`: `accept_observation` finds an identity among all
  rows, closed ones included. A value corrected from a to b and then observed as a again gives an
  ACCEPTED observation and a change log entry, while the current fact stays b
  (`docs/temporal-model.md:30`).
- `rule_race`, `rule_service.py:166`: two overlapping activations of contradictory rules
  both read a catalog without the other and both commit (`README.md:128-129`).
- `cache_rebuild`, `infrastructure/db/repositories.py:500`: `update_derived` passes `updated_at` and
  `row_version` twice, a `TypeError`, so an INVALIDATED row is never stored again
  (`README.md:141`, `docs/dependency-graph.md:19`).
- `cache_effects`, `domain/engine.py:228`: the facts that effect values resolve leave no
  edge, so their correction invalidates nothing (`docs/dependency-graph.md:30`).
- `ingestion_revert`, `ingestion_pipeline.py:197`: a source that returns to an earlier
  document is reported unchanged while the Core keeps the other one
  (`docs/ingestion.md:25-26`).

### Met while modelling, without a run of their own

Facts and observations

- `known_at` is repeatable only for instants before the stamp of every request in flight; a query about the
  last moments can be answered differently a little later.
- Two first facts of an empty slot, inserted at the same time, both become
  current: there is no row whose closure could be guarded.
- Two spellings of one `valid_from` give one statement two identities, both current;
  with two members in `Texts` the model shows it.
- The review of an ACCEPTED observation can end REJECTED: the acceptance commits before the
  decision, and a second reviewer or a stop fits in between.
- An observation held for an unknown concept is never released, and two
  overlapping intakes can open two proposals for one concept.

Ontology

- `expected_version` is optional (`presentation/api/admin/ontology.py`). Without it three overlapping
  activations make two versions ACTIVE: `MCReviewWorkflow` with `Expecting = FALSE`. The same
  happens with two drafts when no version is active yet.
- A definition can enter a version that was activated after `add_definition` read it as
  a draft (`ontology_service.py:55`), although `docs/ontology.md:4` calls an active version immutable: `BeginDefine`, an activation,
  `Define`.
- A BREAKING version can never be activated: it has to be MIGRATING, which nothing sets.

Rules

- `validate` and `test` ask for no status (`rule_service.py:127`, `:149`): an editor takes an ACTIVE rule out of effect by validating it, and brings a
  SUPERSEDED one back to REVIEW, which the lifecycle of `docs/rule-dsl.md:51-52` has no arrow for. The latter can be activated again and is then ACTIVE, but
  it stays closed and is not in effect. A rule that was superseded and closed itself can in this way supersede
  its predecessor, and neither of the two is in effect.
- The author of a rule can give it a CONFLICTS_WITH relation to any rule, one it does not contradict included, and
  nobody reviews it.
- Scopes overlap by equality or shared list members (`domain/rules.py:119`), and match by membership (`:88`): of two contradictory rules of one
  priority, one scoped to programs 1 and 2 and one to program 1, both are activated and both apply
  (`docs/rule-dsl.md:39-40`, `README.md:128-129`). The properties of `RuleEngine` leave such pairs out (`UniformScopes`), and
  TLC finds `NoContradictionApplies` violated with one in the catalog. Nested scopes are alike.
- Overlapping activations of one contradictory rule both find no open review and open one each.
- Of two effects of one rule on one target only the last is compared; `MARK_*`
  effects on different targets are not compared at all, and the mark applied last wins.
- A SET of lower priority overwrites what an ADD of higher priority left.
- ADD and SUBTRACT turn a missing reference into 0 (`docs/rule-dsl.md`: "not silently
  converted to zero").
- Expressions in a bare list are validated and then neither evaluated nor tracked, a bare
  list as the value of an effect is not validated, and a condition that is a
  non-empty list always holds.

Cache and dependencies

- An evaluation that a correction overlaps stores a row that is VALID and stale. It reads the facts (`computation_service.py:39`) and does not look at
  them again. When it stores its row between the traversal and the commit of a request that enters a first fact, a result made from the absence of that fact
  stays VALID, which `docs/dependency-graph.md:30-32` excludes.
- The administrative invalidation starts from the derived node itself, which has no
  outgoing edge: it reports success and invalidates nothing (`dependency_service.py:36`).
- Edges are never removed, and a traversal over 10000 nodes rolls its request back: a
  fact or rule used that much can no longer be changed.

Registry and seed

- `create_source` and `create_object` answer with the row they find, whatever else the payload
  says: a client that registers a key with another type gets an object of the first type, with status 201.
- Sources without an external identifier are found by their checksum, which no index makes unique:
  overlapping requests can register one twice. Where an index does refuse the second row, the request
  ends in an unhandled IntegrityError instead of the row that exists.
- `create_object` and `create_relation` take the ontology version that a payload names in any status, drafts
  and superseded versions included.
- The script commits with every service call, where its plan says "Seed runs in a transaction and rolls
  back on failure" (`.ai-factory/plans/andromeda-knowledge-core/phase-09-demo-docs-ci.md:53`). A run that is stopped between
  the creation and the activation of a rule leaves a DRAFT or a rule in REVIEW, and every later run takes it as existing
  (`abandoned`): it reports success and the rule is not in effect.
- Once the campaign fact has been corrected after its observation was accepted, every further run fails with a
  KeyError: `accept_observation` answers about an accepted observation without a `"fact"`. A version v1 that was superseded, or
  activated by hand before it was complete, another version that came first, and an object registered by hand with another
  type also stop every further run (`Obstructed`).
- `_ensure_rule_provenance` takes the provenance of whatever rule comes first, also of one that has
  nothing to do with the demonstration.

Ingestion

- An extraction that found nothing is stored as an empty list, and `_continue` tests the truth of the column
  (`ingestion_pipeline.py:220`): when its publication failed, the next run asks the extractor again, where `docs/ingestion.md:28-30` says that a
  saved extraction is published without calling the AI adapter again. `SavedStagesAreKept` excepts this case (`HasProposals`).
- Two runs of one stream overwrite each other's columns: the rows have no version.
- A stop between the creation of an attempt and the storing of its content leaves a row that holds
  a checksum without content; the stream waits until the source changes.

## 7. Proofs

The theorems hold for every value of the constants that satisfies the `ASSUME`s of
the module they are about, which name what the code guarantees: what a claim is, that `NoRule` is no
rule, that contradiction is symmetric, that drafts at the start are first versions. They
bound neither rules, facts, versions nor requests.

- **`FactLedgerProofs`.** `TypeCorrect`; then the inductive `LedgerInv`, from which
  `HistoryUnique`, `ClosuresLogged`, `AcceptedRecorded`, `HistoryAppendOnly` and `SlotsStayFilled`
  follow. `SnapshotUnique` is not inductive: that a correction leaves no overlap hangs on what
  its request has read. `LedgerInv` therefore adds that stamps are not in the future
  (`StampsArePast`), that a settled slot has a version at every instant
  (`SettledCovered`) and never two (`SettledDisjoint`), and what of a request's reads still
  holds (`ReadsAreSound`): the fact to be replaced is of the same slot and stamped before, and a
  request that found nothing to replace in a settled slot came with a value that is recorded. The one step that changes
  the table is `Commit`; `CommitInv` is its lemma, `TableUnchanged` that of all others.
  The second part of the module proves `Implements`: `FactLedger` implements `BitemporalHistory`. The step
  simulation rests on `LedgerInv`. `FinalGrows`: the final instants only grow, because a new stamp is the clock's and
  final instants lie before it. `FinalAnswersStand`: an answer about a final instant does not change, because the one step that
  changes the table opens and closes as of the stamp of its request, which lies after every
  final instant. `CommitAccepts`: what is current changes by one fact, which takes the place of the fact that the
  request has read, since the guarded closure lets only the first of two replacements through.
- **`DemoSeedProofs`.** `TypeCorrect` for the registry and the script, and `RelationsAlwaysConform`, for any clients and
  runs. The types of a relation's ends are checked in one step and it is inserted in a later one; the
  strengthening `RequestsConform` says that the relation of a request in flight conforms, and every step keeps it
  because rows are only added and never changed. `RunsInPlace` says where in its lists a run may be.
  `Complete` proves `SeedIsComplete`, for any number of overlapping and interrupted runs. A run's last step says
  nothing of what it ensured many steps earlier; `CompleteInv` therefore says for each stage and each position what a run
  has behind it (`Behind`), that its request in flight asks for what it is about to ensure (`AsksFor`), that the
  unique indexes leave one row of an identity (`RowsUnique`), and that a created rule is in effect, abandoned or worked
  on (`RulesAccounted`). `Growth` is why none of it is lost: rows, recorded values and created rules stay.
  `Repeatable` proves `SeedIsRepeatable`. `RepeatInv` says how far runs have brought the version whoever
  interferes (`Advanced`, from `Evolution`: what any step can do to the versions), that an observation awaits a review only when
  no run gets over it (`ObservationJustified`), and of a run during which nobody else committed, that what it read
  is still so (`Undisturbed`): what it lacks is not defined, what it is about to insert is not there. `Barred` is `Obstructed`
  without the time before the first version, which a run does get over; in contrast to `Obstructed`, no step undoes it
  (`BarredStays`). Both rest on the `ASSUME` `DemoFits` about the constants: the demonstration's source has an external
  identifier, its definitions include the property of its fact, and its relation type allows the types of its ends.
- **`RuleLifecycleProofs`.** `TypeCorrect`; `RowInvariant` for single rows, under any number of
  overlapping requests: a rule with a recorded pass does pass, and what an activation in flight has
  checked of its rule still holds (`ActivationIsSound`, `TestIsSound`). From it
  `ActiveQualified` and `BlockReviewed`. `SerialCatalog` proves `OneEffectivePerKey` and
  `NoEffectiveContradiction` under the assumption that at most one request activates
  (`ReviewsAreSerial`), which `rule_race` shows to be necessary: `CatalogInv` adds that what an
  activation has read of the catalog is still clear, because authors and editors
  can only take rules out of effect.
  `OnePerKey` is its half about versions of one key. `BlockReviewed` holds whatever relationships rules are created with: a
  CONFLICTS_WITH relation that its rule does not declare was written by a blocked activation, with its review. `ReplacedOut` proves `ReplacedIsOut` for
  overlapping activations too, from the invariant `ReplacedIsClosed`: the rule that an ACTIVE rule replaces is closed. It holds
  because a promotion closes the replaced row in whatever status it is, and nothing opens a row again.
- **`OntologyVersionsProofs`.** `OntologyInvariant` and `OneActive`: exactly one version is active,
  if one is at the start and clients send `expected_version` (both assumptions of the theorem).
  The argument is that `row_version` grows with every change of status, so a row found as it was read has
  the status it had (`Read`); an activation that passes its two guarded updates
  therefore supersedes the only active version.
- **`ReviewWorkflowProofs`.** `ReviewInvariant`, and from it `ProposalAgrees`, `HeldExplained`,
  `ApprovedAccepted`, `AcceptedWithin` and `Once`. None of these is inductive: what a decision writes rests on
  rows read in earlier steps, and an approval of an observation commits twice. `ReviewInv` adds what a request in flight
  knows (`Knows`): the review it is about to close is open as long as its `row_version` is the one read (`ReadReview`),
  the version it accepts by was activated, and the observation it approves is accepted. `Respects` says
  what no step undoes (reviews keep their entity and their `row_version` grows with every change, acceptances and
  activations are final, definitions only grow); `KnowledgeIsKept` derives from it that nobody else's step takes
  away what a request knows, so that each action has only its own request to look at.
  `OneActiveBesideReviews` carries `OneActive` over to the composed specification, with the same two assumptions:
  a version is active at the start (`Seed # <<>>`) and clients send `expected_version` (`Expecting`).
- **`DerivedCacheProofs`.** `CacheInvariant`, and from it `EdgesWithRows`, `Fresh`, `Retired` and
  `Targeted`. That a VALID row is current (`FreshUnlessRaced`) is not inductive, because a change reads the edges of one
  source at a time and commits later. `Traversing` says how far a change has come: for each of its sources it has either yet to
  read the edges or has every row with an edge from it among those it will invalidate, rows stored beside it (`raced`) excepted.
  `EvaluationIsCurrent` says that what an evaluation without such a change has read is still so. The commit of the change then
  invalidates every row that a selector of the changed property reaches, by `RowsHaveTheirEdges`.
  `FreshValues` proves `ValuesAreFresh`, which `cache_effects` shows violated, for rules whose effects read nothing
  that their conditions and exceptions do not: the missing edges of effect references are the only way in which it fails.
  Two assumptions on the constants were added for these proofs: no rule replaces itself
  (an id is drawn for a rule after `replaces_rule_id` was given), and a request is not a key, two kinds of names that only meet in `raced`.
- **`IngestionPipelineProofs`.** `PipelineInvariant`, and from it `PayloadsBelong`, `FinishedWasDelivered`, `StagesAreKept` and
  `FinishedStaysFinished`, for any documents and any number of runs that stop, fail and take over from one another. `StagesAreKept` has an
  attempt fetched only if no content is stored, and extracted only if the stored extraction is missing or empty; that the exception is
  needed is said in section 6. `Extracted` says what an extraction may hold: what the document yields, the empty list included.
  `PayloadsMatch` is not inductive: a run writes the columns it holds in memory (`mine`) over those of the row. `PipelineInv`
  therefore has two layers. `Sound` is what every run keeps whatever others do to its attempt: it has a row with a
  checksum where its stage needs one. `Alone` is what holds until a second run takes up the attempt: the
  columns in memory are those stored, and each stage knows which payloads are there (`Knows`). `Doubled \subseteq shared` ties
  the two to the history variable: two runs on one attempt have made it `shared`, so a run whose attempt is not shared is alone with it.

- **`RuleEngineProofs`.** `TypeCorrect`, `ValidEvaluates`, `ContradictionsAreKeptOut`, `ChangesAreNoticed` and `ResultsAreDeclared`:
  the five properties of `rule_engine`, for any rules, expressions, knowledge, query and context. Three inductive invariants carry them.
  `Inv` adds to the types where an evaluation stands (`InTurn`): one rule at a time is in hand, a rule that is done with has the status
  of its `Outcome`, and none that matched comes, by priority, after one that is waiting. `Recorded` says that what the status of each rule hangs on
  is among the dependencies; since a row in none of them changes no value (`EvaluationStays`), no change goes unnoticed. `Declared` is
  the result after each effect: the accumulator is what the set of the effects applied declares (`Declares`). It is kept because the next effect comes
  after all of them by priority and agrees with those of its own (`ComesAfter`): a SET finds its target
  claimed and is lost (`LaterSetIsLost`) or decides it and loses the amounts before it, and an amount is added to what is there (`AmountIsDeclared`).
  A set has no order, so the result has none either. `EvaluationIsValue` and `EvaluationStays` are about every
  expression that `Valid` accepts; they go by the nesting that is left and not by induction over expressions.
  `ContradictionsAreKeptOut` and `ResultsAreDeclared` are about catalogs in which no rule has two effects on one
  target (`OneEffectPerTarget`) and no key is scoped to a list by one of two rules that may contradict each other and to a value by
  the other (`UniformScopes`), `ResultsAreDeclared` also about marks of one target (`MarksOfOneTarget`). The check at activation compares nothing
  else, and without each of them the properties are false of the code: section 6 has the three cases. The instance of
  the run `rule_engine` satisfies all three (`RulesFit`).

Only model-checked: liveness and ENABLED (`InvalidatedIsRebuilt`), which are out of the prover's reach, and that the recursions of `RuleExpressions`
satisfy `TraversalAssumption`, which TLC evaluates over the expressions of the run: tlapm takes no
recursive operator. Every property of a passing run is proved. The properties of
the runs that end in a violation are false in general and stay with TLC, `ValuesAreFresh` under the condition above excepted.

## 8. What is not modelled

- `domain/dependencies.py`: a pure graph that only unit tests use; the service has a traversal of
  its own, which is modelled.
- Explanation, semantic and simulation queries: they read and keep no state.
- The audit trail: rows appended in the transaction of what they describe, read by no decision.
- HTTP routing, schemas, error mapping; only the session of a request is modelled.
- Fetchers, extractors and publishers: external, inputs of `IngestionPipeline`.
- Configuration, logging, migrations and benchmarks.
- Observations of relations: they are recorded, and nothing accepts them.
- The subject of an accepted observation, which the acceptance creates when it is absent
  (`knowledge_service.py:155-174`): no other decision of a review reads it.
- Several relations of one type from one subject, and several facts of one subject and property, in an evaluation: `RuleEngine` has one
  current row of each, and the filter on the object of a relation (`domain/dsl/evaluator.py:111`) is left out.
- Rules of clients beside the demonstration script. An ACTIVE rule of a client that contradicts one of the script's would
  block its activation and stop the run, and belongs to what `Obstructed` describes. The script's relations have
  one `valid_from`, which is part of their identity.
- Columns that decide nothing: confidence beyond its threshold, descriptions, metadata, paging.

## 9. What comes next

1. `domain/dependencies.py` as operators checked against a reference definition, once something uses it.
