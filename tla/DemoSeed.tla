------------------------------ MODULE DemoSeed ------------------------------
(***************************************************************************)
(* scripts/seed_demo.py beside the clients of the API: the script looks for *)
(* each thing the demonstration needs and calls the service that creates   *)
(* it, which commits.  It is run by hand and may be stopped after any      *)
(* commit, run again, and run twice at once.                               *)
(*                                                                         *)
(* Sources, objects and relations are the Registry's requests.  The other  *)
(* services are taken as one step for each of their commits: what happens  *)
(* inside them is the subject of OntologyVersions, ReviewWorkflow,         *)
(* FactLedger and RuleLifecycle, and a unique index or a guard that        *)
(* refuses such a step ends the script as Stop does.  Rules of clients are *)
(* left out: none contradicts a rule of the script.  Relations are all     *)
(* valid from one moment, which is part of their identity.                 *)
(***************************************************************************)
EXTENDS Registry

CONSTANTS
  Seeds,         \* the clients that are runs of the script; the others use the API
  DemoVersion,   \* version "v1"
  DemoCodes,     \* the codes it defines, one set for each kind of definition
  Campaign,      \* the property of the campaign fact
  DemoSource,
  DemoObjects,   \* the objects it registers, in order
  DemoRelation,  \* subject and object are stable keys
  DemoProgram,   \* the stable key of the campaign fact's subject
  DemoRules,     \* logical keys, in order
  MaxChanges     \* bound on the commits of clients of the API

ASSUME DemoAssumption ==
  /\ Seeds \subseteq Clients
  /\ DemoVersion \in Versions
  /\ DemoCodes \in Seq(SUBSET Codes) /\ DemoCodes # <<>>
  /\ Campaign \in Codes
  /\ DemoSource \in Sources
  /\ DemoObjects \in Seq(Object) /\ DemoObjects # <<>>
  /\ DemoRelation \in [subject : Keys, predicate : Predicates, object : Keys]
  /\ DemoProgram \in Keys
  /\ DemoRules \in Seq(STRING) /\ DemoRules # <<>>
  /\ MaxChanges \in Nat

VARIABLES
  observation,  \* status of the observation under the seed's idempotency key
  facts,        \* the values ever recorded for the campaign fact; the last is current
  rules,        \* logical key -> status of its version 1
  seed,         \* run of the script -> where it is
  touched,      \* history: the runs during which another client committed something
  changes,      \* history: how many commits clients of the API have made
  abandoned     \* history: the rules whose run was stopped before it activated them

demoVars == <<observation, facts, rules>>
vars == <<registryVars, demoVars, seed, touched, changes, abandoned>>

AllDemoCodes == UNION {DemoCodes[i] : i \in DOMAIN DemoCodes}
Rules == {DemoRules[i] : i \in DOMAIN DemoRules}
Values == {"demo", "other"}

\* The demonstration fits together: its source has an external identifier, and what it
\* defines allows its fact and its relation.
ASSUME DemoFits ==
  /\ DemoSource.external # NULL
  /\ Campaign \in AllDemoCodes
  /\ \E n, m \in DOMAIN DemoObjects :
       /\ DemoObjects[n].key = DemoRelation.subject
       /\ DemoObjects[m].key = DemoRelation.object
       /\ Allows(DemoRelation.predicate, DemoObjects[n].type, DemoObjects[m].type)

\* The script's stages: n counts the definitions' kinds, the objects, the rules.
Ended   == {"idle", "done", "failed"}
OfRule  == {"validate", "test", "activate rule"}
Stages  == Ended \cup OfRule \cup
  {"define", "add", "activate", "source", "objects", "fact", "accept", "relation",
   "rules"}
Run == [at : Stages, n : Nat, status : {NULL, "DRAFT", "ACTIVE", "SUPERSEDED"},
        missing : SUBSET Codes]

TypeOK ==
  /\ RegistryTypeOK
  /\ observation \in {NULL, "RAW", "MAPPED", "NEEDS_REVIEW", "ACCEPTED"}
  /\ facts \in Seq(Values)
  /\ rules \in [Rules -> {NULL, "DRAFT", "REVIEW", "ACTIVE"}]
  /\ seed \in [Seeds -> Run]
  /\ touched \subseteq Seeds
  /\ changes \in 0 .. MaxChanges
  /\ abandoned \subseteq Rules

RunAt(stage, status) == [at |-> stage, n |-> 1, status |-> status, missing |-> {}]

Init ==
  /\ RegistryInit
  /\ observation = NULL
  /\ facts = <<>>
  /\ rules = [r \in Rules |-> NULL]
  /\ seed = [s \in Seeds |-> RunAt("idle", NULL)]
  /\ touched = {}
  /\ changes = 0
  /\ abandoned = {}

Demo == ontology[DemoVersion]
Recorded(value) == \E i \in DOMAIN facts : facts[i] = value
CurrentFact == IF facts = <<>> THEN NULL ELSE facts[Len(facts)]
ObjectOf(key) == {i \in DOMAIN rows["object"] : rows["object"][i].key = key}
Offers == {i \in DOMAIN rows["relation"] :
  /\ rows["relation"][i].predicate = DemoRelation.predicate
  /\ rows["relation"][i].subject \in ObjectOf(DemoRelation.subject)
  /\ rows["relation"][i].object \in ObjectOf(DemoRelation.object)}

-----------------------------------------------------------------------------
(* The script                                                              *)

At(s, stage) == seed[s].at = stage
Goto(s, stage) == seed' = [seed EXCEPT ![s] = RunAt(stage, NULL)]
Repeat(s, stage) == seed' = [seed EXCEPT ![s].at = stage, ![s].n = @ + 1]
Fail(s) == Goto(s, "failed")

\* The script begins with _ensure_ontology: a first version needs no previous one, a
\* later one does.
Start(s) ==
  /\ seed[s].at \in Ended
  /\ \/ /\ Demo.status # "NONE"
        /\ seed' = [seed EXCEPT ![s] = RunAt("define", Demo.status)]
        /\ UNCHANGED ontology
     \/ /\ \A v \in Versions : ontology[v].status = "NONE"
        /\ ontology' = [ontology EXCEPT ![DemoVersion].status = "DRAFT"]
        /\ seed' = [seed EXCEPT ![s] = RunAt("define", "DRAFT")]
     \/ /\ Demo.status = "NONE" /\ \E v \in Versions : ontology[v].status # "NONE"
        /\ Fail(s)
        /\ UNCHANGED ontology
  /\ UNCHANGED <<rows, request, demoVars>>

\* On to the next definition of the kind, the next kind, or the activation.
Defining(run, missing) ==
  CASE missing # {} -> [run EXCEPT !.at = "add", !.missing = missing]
    [] missing = {} /\ run.n < Len(DemoCodes) ->
         [run EXCEPT !.at = "define", !.n = @ + 1, !.missing = {}]
    [] missing = {} /\ run.n >= Len(DemoCodes) ->
         [run EXCEPT !.at = "activate", !.n = 1, !.missing = {}]

\* A fault: what the version defines is not looked at.
ReadNoDefinitions(s) ==
  /\ At(s, "define")
  /\ seed' = [seed EXCEPT ![s] = Defining(@, DemoCodes[@.n])]
  /\ UNCHANGED <<registryVars, demoVars>>

\* _ensure_definitions reads what the version defines anew for every kind.
ReadDefinitions(s) ==
  /\ At(s, "define")
  /\ seed' = [seed EXCEPT ![s] = Defining(@, DemoCodes[@.n] \ Demo.codes)]
  /\ UNCHANGED <<registryVars, demoVars>>

\* add_definition: an active version is immutable, a code is unique in it.
AddDefinition(s) ==
  /\ At(s, "add")
  /\ \E code \in seed[s].missing :
         IF Demo.status # "ACTIVE" /\ code \notin Demo.codes
           THEN /\ ontology' = [ontology EXCEPT ![DemoVersion].codes = @ \cup {code}]
                /\ seed' = [seed EXCEPT ![s] = Defining(@, @.missing \ {code})]
           ELSE Fail(s) /\ UNCHANGED ontology
  /\ UNCHANGED <<rows, request, demoVars>>

Activated(v) ==
  [w \in Versions |->
    CASE w = v -> [ontology[w] EXCEPT !.status = "ACTIVE"]
      [] w # v /\ w \in Active -> [ontology[w] EXCEPT !.status = "SUPERSEDED"]
      [] OTHER -> ontology[w]]

\* Nothing if the version was active when the script began; a version that has
\* been superseded cannot be activated again.
ActivateOntology(s) ==
  /\ At(s, "activate")
  /\ \/ /\ seed[s].status = "ACTIVE" \/ Demo.status = "ACTIVE"
        /\ Goto(s, "source")
        /\ UNCHANGED ontology
     \/ /\ seed[s].status # "ACTIVE" /\ Demo.status = "DRAFT"
        /\ ontology' = Activated(DemoVersion)
        /\ Goto(s, "source")
     \/ /\ seed[s].status # "ACTIVE" /\ Demo.status = "SUPERSEDED"
        /\ Fail(s)
        /\ UNCHANGED ontology
  /\ UNCHANGED <<rows, request, demoVars>>

\* create_source, create_object for each object, create_relation if list_relations
\* finds none.
Ask(s) ==
  /\ request[s].step = "idle"
  /\ \/ At(s, "source") /\ CreateSource(s, DemoSource)
     \/ /\ At(s, "objects")
        /\ LET new == DemoObjects[seed[s].n] IN CreateObject(s, new.key, new.type, DemoVersion)
     \/ /\ At(s, "relation") /\ Offers = {}
        /\ \E subject \in ObjectOf(DemoRelation.subject), object \in ObjectOf(DemoRelation.object) :
             CreateRelation(s, subject, DemoRelation.predicate, object, DemoVersion)
  /\ UNCHANGED <<seed, demoVars>>

AfterAnswer(s) ==
  \/ At(s, "source") /\ Goto(s, "objects")
  \/ At(s, "objects") /\ seed[s].n < Len(DemoObjects) /\ Repeat(s, "objects")
  \/ At(s, "objects") /\ seed[s].n >= Len(DemoObjects) /\ Goto(s, "fact")
  \/ At(s, "relation") /\ Goto(s, "rules")

\* The request goes on, is answered, or is refused by a unique index.
Await(s) ==
  /\ \/ Find(s) /\ IF request'[s] = Idle THEN AfterAnswer(s) ELSE UNCHANGED seed
     \/ Insert(s) /\ IF MayInsert(s) THEN AfterAnswer(s) ELSE Fail(s)
  /\ UNCHANGED demoVars

\* _ensure_relation, if the relation exists or the types of its ends forbid it.
EnsureRelation(s) ==
  /\ At(s, "relation") /\ request[s].step = "idle"
  /\ \/ Offers # {} /\ Goto(s, "rules")
     \/ /\ Offers = {}
        /\ \E subject \in ObjectOf(DemoRelation.subject), object \in ObjectOf(DemoRelation.object) :
             ~Allows(DemoRelation.predicate, TypeOf(subject), TypeOf(object))
        /\ Fail(s)
  /\ UNCHANGED <<registryVars, demoVars>>

\* create_observation under a fixed idempotency key, judged by the active version.
Intake ==
  CASE observation # NULL -> observation
    [] observation = NULL /\ Active = {} -> "RAW"
    [] observation = NULL /\ \E v \in Active : Campaign \in ontology[v].codes -> "MAPPED"
    [] observation = NULL /\ \E v \in Active : Campaign \notin ontology[v].codes -> "NEEDS_REVIEW"

\* _ensure_campaign_fact: list_facts without known_at, then the observation.
EnsureFact(s) ==
  /\ At(s, "fact")
  /\ \/ CurrentFact = "demo" /\ Goto(s, "relation") /\ UNCHANGED observation
     \/ CurrentFact # "demo" /\ Goto(s, "accept") /\ observation' = Intake
  /\ UNCHANGED <<registryVars, facts, rules>>

Accepts == observation \in {"RAW", "MAPPED"} /\ \E v \in Active : Campaign \in ontology[v].codes

\* A recorded value is found by its identity, also when it is no longer current.
Record(value) == facts' = IF Recorded(value) THEN facts ELSE Append(facts, value)

\* accept_observation; the answer about an observation accepted before has no
\* "fact", which the script asks it for.
AcceptFact(s) ==
  /\ At(s, "accept")
  /\ IF Accepts
       THEN Record("demo") /\ observation' = "ACCEPTED" /\ Goto(s, "relation")
       ELSE Fail(s) /\ UNCHANGED <<facts, observation>>
  /\ UNCHANGED <<registryVars, rules>>

NextRule(s) == IF seed[s].n < Len(DemoRules) THEN Repeat(s, "rules") ELSE Goto(s, "done")
RuleOf(s) == DemoRules[seed[s].n]

\* _ensure_..._rule: version 1 of the logical key, whatever its status.
RuleExists(s) == rules[RuleOf(s)] # NULL

\* list_rules, then create.
EnsureRule(s) ==
  /\ At(s, "rules")
  /\ IF RuleExists(s)
       THEN NextRule(s) /\ UNCHANGED rules
       ELSE /\ rules' = [rules EXCEPT ![RuleOf(s)] = "DRAFT"]
            /\ seed' = [seed EXCEPT ![s].at = "validate"]
  /\ UNCHANGED <<registryVars, observation, facts>>

\* validate and test of the rule just created, then activate: it is valid and passes
\* its tests, and the rules of the script do not contradict each other.
WorkOnRule(s) ==
  /\ \/ At(s, "validate") /\ rules' = [rules EXCEPT ![RuleOf(s)] = "REVIEW"]
                          /\ seed' = [seed EXCEPT ![s].at = "test"]
     \/ At(s, "test") /\ rules' = [rules EXCEPT ![RuleOf(s)] = "REVIEW"]
                      /\ seed' = [seed EXCEPT ![s].at = "activate rule"]
     \/ At(s, "activate rule") /\ rules' = [rules EXCEPT ![RuleOf(s)] = "ACTIVE"] /\ NextRule(s)
  /\ UNCHANGED <<registryVars, observation, facts>>

Work(s) ==
  \/ Start(s) \/ ReadDefinitions(s) \/ AddDefinition(s) \/ ActivateOntology(s)
  \/ Ask(s) \/ Await(s) \/ EnsureFact(s) \/ AcceptFact(s) \/ EnsureRelation(s)
  \/ EnsureRule(s) \/ WorkOnRule(s)

\* The script is stopped, its connection lost or its commit refused.
Stop(s) ==
  /\ seed[s].at \notin Ended
  /\ Goto(s, "idle")
  /\ request' = [request EXCEPT ![s] = Idle]
  /\ abandoned' = IF seed[s].at \in OfRule THEN abandoned \cup {RuleOf(s)} ELSE abandoned
  /\ UNCHANGED <<ontology, rows, demoVars>>

-----------------------------------------------------------------------------
(* The clients of the API                                                  *)

Register(c) ==
  /\ \/ \E source \in Sources : CreateSource(c, source)
     \/ \E object \in Object, v \in Versions \cup {NULL} :
          CreateObject(c, object.key, object.type, v)
     \/ \E i, j \in DOMAIN rows["object"], p \in Predicates, v \in Versions \cup {NULL} :
          CreateRelation(c, i, p, j, v)
     \/ Find(c) \/ Insert(c) \/ Abort(c)
  /\ UNCHANGED <<seed, demoVars>>

\* Another version is created, defined and activated, empty or with everything the
\* demonstration needs.
SwitchVersion(v) ==
  /\ v # DemoVersion /\ ontology[v].status = "NONE"
  /\ \E codes \in {{}, AllDemoCodes} :
       ontology' = [Activated(v) EXCEPT ![v].codes = codes]
  /\ UNCHANGED <<rows, request, seed, demoVars>>

\* The draft of the script is activated by hand.
ActivateVersion ==
  /\ Demo.status = "DRAFT"
  /\ ontology' = Activated(DemoVersion)
  /\ UNCHANGED <<rows, request, seed, demoVars>>

\* create_fact: the campaign fact is entered or corrected by hand.
EnterFact(value) ==
  /\ ObjectOf(DemoProgram) # {}
  /\ \E v \in Versions : Campaign \in ontology[v].codes
  /\ Record(value)
  /\ UNCHANGED <<registryVars, seed, observation, rules>>

Others ==
  \/ \E c \in Clients \ Seeds : Register(c)
  \/ ActivateVersion \/ \E v \in Versions : SwitchVersion(v)
  \/ \E value \in Values : EnterFact(value)

\* What commits change, and whose run saw one of another.
Tables == <<ontology, rows, demoVars>>
Touch(by) == touched' =
  LET running == {s \in Seeds \ by : seed[s].at \notin Ended}
      seen    == IF Tables' = Tables THEN touched ELSE touched \cup running
  IN  {s \in seen : seed'[s].at \notin {"idle", "done"}}

Next ==
  \/ /\ \E s \in Seeds :
          \/ Work(s) /\ Touch({s}) /\ UNCHANGED abandoned
          \/ Stop(s) /\ Touch({s})
     /\ UNCHANGED changes
  \/ /\ Others /\ Touch({})
     /\ changes < MaxChanges
     /\ changes' = IF Tables' = Tables THEN changes ELSE changes + 1
     /\ UNCHANGED abandoned

Spec == Init /\ [][Next]_vars
-----------------------------------------------------------------------------

\* What no run of the script can get over: version v1 superseded, preceded by another
\* or activated by hand before it was complete, an object registered by hand with
\* another type, or the campaign fact corrected after its observation was accepted.
Obstructed ==
  \/ Demo.status \in {"NONE", "SUPERSEDED"}
  \/ Demo.status = "ACTIVE" /\ ~(AllDemoCodes \subseteq Demo.codes)
  \/ \E i \in DOMAIN DemoObjects : \E id \in ObjectOf(DemoObjects[i].key) :
       TypeOf(id) # DemoObjects[i].type
  \/ observation = "ACCEPTED" /\ CurrentFact # "demo"

\* The script can be repeated: a run that nobody interferes with gets over whatever
\* earlier runs left, wherever they were stopped and whatever overlapped.
SeedIsRepeatable ==
  \A s \in Seeds : At(s, "failed") /\ s \notin touched => Obstructed

\* A run that ends without an error leaves the demonstration, once: each object and the
\* source, the relation, the fact, and every rule in effect, unless a run was stopped
\* while it created it, or another is just creating it.
SeedIsComplete ==
  \A s \in Seeds : At(s, "done") =>
    /\ \E i \in DOMAIN rows["source"] : Found("source", DemoSource) = {i}
    /\ \A n \in DOMAIN DemoObjects :
         \E i \in DOMAIN rows["object"] : ObjectOf(DemoObjects[n].key) = {i}
    /\ \E i \in DOMAIN rows["relation"] : Offers = {i}
    /\ Recorded("demo")
    /\ \A r \in Rules :
         \/ rules[r] = "ACTIVE"
         \/ rules[r] # NULL /\ r \in abandoned
         \/ rules[r] # NULL /\ \E t \in Seeds : seed[t].at \in OfRule /\ RuleOf(t) = r
=============================================================================
