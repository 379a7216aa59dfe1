--------------------------- MODULE DemoSeedProofs ---------------------------
(***************************************************************************)
(* Proofs about the registry beside the script and its clients, and about  *)
(* the script itself, for any clients, runs, versions, types and sources.   *)
(***************************************************************************)
EXTENDS DemoSeed, SequenceTheorems, TLAPS

\* Where a run of the script may be in its lists.
PlaceOf(run) ==
  /\ run.at \in {"define", "add"} => run.n \in DOMAIN DemoCodes
  /\ run.at = "objects" => run.n \in DOMAIN DemoObjects
  /\ run.at \in OfRule \cup {"rules"} => run.n \in DOMAIN DemoRules

RunsInPlace == \A s \in Seeds : PlaceOf(seed[s])

SeedsTyped == seed \in [Seeds -> Run] /\ RunsInPlace

DemoTyped ==
  /\ observation \in {NULL, "RAW", "MAPPED", "NEEDS_REVIEW", "ACCEPTED"}
  /\ facts \in Seq(Values)
  /\ rules \in [Rules -> {NULL, "DRAFT", "REVIEW", "ACTIVE"}]

\* A relation that is about to be inserted conforms already.
RequestsConform ==
  \A c \in Clients :
    request[c].step # "idle" /\ request[c].kind = "relation" => Conforms(request[c].row)

RegistryInv == RegistryTypeOK /\ RelationsConform /\ RequestsConform 

Inv == RegistryInv /\ SeedsTyped /\ DemoTyped

-----------------------------------------------------------------------------
(* The registry's own steps.                                               *)

\* Only an insertion changes a table, and it changes one at its end.
LEMMA BeginTyped ==
  ASSUME RegistryTypeOK, NEW c \in Clients, NEW kind, NEW row, Begin(c, kind, row),
         [kind |-> kind, row |-> row] \in
           [kind : {"source"}, row : Sources] \cup [kind : {"object"}, row : Object] \cup
           [kind : {"relation"}, row : Relation]
  PROVE  RegistryTypeOK'
<1>1. [step |-> "find", kind |-> kind, row |-> row] \in Looking({"find", "insert"})
  BY DEF Looking
<1>2. QED
  BY <1>1 DEF RegistryTypeOK, Begin

LEMMA FindTyped ==
  ASSUME RegistryTypeOK, NEW c \in Clients, Find(c)
  PROVE  RegistryTypeOK'
<1>1. request[c] \in Looking({"find", "insert"})
  BY DEF RegistryTypeOK, Find, Idle
<1>2. [request[c] EXCEPT !.step = "insert"] \in Looking({"find", "insert"})
  BY <1>1 DEF Looking
<1>3. QED
  BY <1>2 DEF RegistryTypeOK, Find

\* The row that a request inserts is one of its table.
LEMMA InsertTyped ==
  ASSUME RegistryTypeOK, NEW c \in Clients, Insert(c)
  PROVE  RegistryTypeOK'
<1>1. request[c] \in Looking({"find", "insert"})
  BY DEF RegistryTypeOK, Insert, Idle
<1>2. request' \in [Clients -> {Idle} \cup Looking({"find", "insert"})]
  BY DEF RegistryTypeOK, Insert
<1>3. CASE MayInsert(c)
  <2>1. DOMAIN rows' = {"source", "object", "relation"}
    BY <1>3 DEF RegistryTypeOK, Insert
  <2>2. \A kind \in {"source", "object", "relation"} :
          rows'[kind] = IF kind = request[c].kind THEN Append(rows[kind], request[c].row) ELSE rows[kind]
    BY <1>3 DEF RegistryTypeOK, Insert
  <2>3. /\ request[c].kind = "source" => request[c].row \in Sources
        /\ request[c].kind = "object" => request[c].row \in Object
        /\ request[c].kind = "relation" => request[c].row \in Relation
    BY <1>1 DEF Looking
  <2>4. rows'["source"] \in Seq(Sources)
    <3>1. CASE request[c].kind = "source"
      <4>1. rows'["source"] = Append(rows["source"], request[c].row)
        BY <2>2, <3>1
      <4>2. rows["source"] \in Seq(Sources) /\ request[c].row \in Sources
        BY <2>3, <3>1 DEF RegistryTypeOK
      <4>3. QED
        BY <4>1, <4>2, AppendProperties
    <3>2. CASE request[c].kind # "source"
      BY <2>2, <3>2 DEF RegistryTypeOK
    <3>3. QED
      BY <3>1, <3>2
  <2>5. rows'["object"] \in Seq(Object)
    <3>1. CASE request[c].kind = "object"
      <4>1. rows'["object"] = Append(rows["object"], request[c].row)
        BY <2>2, <3>1
      <4>2. rows["object"] \in Seq(Object) /\ request[c].row \in Object
        BY <2>3, <3>1 DEF RegistryTypeOK
      <4>3. QED
        BY <4>1, <4>2, AppendProperties
    <3>2. CASE request[c].kind # "object"
      BY <2>2, <3>2 DEF RegistryTypeOK
    <3>3. QED
      BY <3>1, <3>2
  <2>6. rows'["relation"] \in Seq(Relation)
    <3>1. CASE request[c].kind = "relation"
      <4>1. rows'["relation"] = Append(rows["relation"], request[c].row)
        BY <2>2, <3>1
      <4>2. rows["relation"] \in Seq(Relation) /\ request[c].row \in Relation
        BY <2>3, <3>1 DEF RegistryTypeOK
      <4>3. QED
        BY <4>1, <4>2, AppendProperties
    <3>2. CASE request[c].kind # "relation"
      BY <2>2, <3>2 DEF RegistryTypeOK
    <3>3. QED
      BY <3>1, <3>2
  <2>7. QED
    BY <1>2, <2>1, <2>4, <2>5, <2>6 DEF RegistryTypeOK, Insert
<1>4. CASE ~MayInsert(c)
  BY <1>2, <1>4 DEF RegistryTypeOK, Insert
<1>5. QED
  BY <1>3, <1>4

-----------------------------------------------------------------------------
(* What holds of the tables.                                               *)

\* A step that does not touch the tables leaves what they say.
LEMMA TablesUntouched ==
  ASSUME RelationsConform, rows' = rows
  PROVE  RelationsConform'
BY DEF RelationsConform, Conforms, Allows, TypeOf

LEMMA ConformsUntouched ==
  ASSUME NEW r, Conforms(r), rows' = rows
  PROVE  Conforms(r)'
BY DEF Conforms, Allows, TypeOf

\* If it drops requests besides, it keeps the invariant.
LEMMA RegistryUntouched ==
  ASSUME RegistryInv, rows' = rows,
         \A c \in Clients : request'[c] = request[c] \/ request'[c] = Idle
  PROVE  (RelationsConform /\ RequestsConform)'
<1>1. RequestsConform'
  BY ConformsUntouched DEF RegistryInv, RequestsConform, Idle
<1>2. QED
  BY <1>1, TablesUntouched DEF RegistryInv

LEMMA BeginConforms ==
  ASSUME RegistryInv, NEW c \in Clients, NEW kind, NEW row, Begin(c, kind, row),
         kind = "relation" => Conforms(row)
  PROVE  (RelationsConform /\ RequestsConform)'
<1>1. rows' = rows
  BY DEF Begin
<1>2. RequestsConform'
  <2> SUFFICES ASSUME NEW d \in Clients, request'[d].step # "idle", request'[d].kind = "relation"
               PROVE  Conforms(request[d].row)'
    BY DEF RequestsConform
  <2>1. CASE d = c
    <3>1. request'[c] = [step |-> "find", kind |-> kind, row |-> row]
      BY DEF RegistryInv, RegistryTypeOK, Begin
    <3>2. kind = "relation" /\ request'[d].row = row
      BY <2>1, <3>1
    <3>3. Conforms(row)'
      BY <1>1, <3>2, ConformsUntouched
    <3>4. QED
      BY <3>2, <3>3 DEF Conforms
  <2>2. CASE d # c
    <3>1. request'[d] = request[d]
      BY <2>2 DEF RegistryInv, RegistryTypeOK, Begin
    <3>2. Conforms(request[d].row)
      BY <3>1 DEF RegistryInv, RequestsConform
    <3>3. QED
      BY <1>1, <3>1, <3>2 DEF Conforms, Allows, TypeOf
  <2>3. QED
    BY <2>1, <2>2
<1>3. QED
  BY <1>1, <1>2, TablesUntouched DEF RegistryInv

LEMMA FindConforms ==
  ASSUME RegistryInv, NEW c \in Clients, Find(c)
  PROVE  (RelationsConform /\ RequestsConform)'
<1>1. rows' = rows
  BY DEF Find
<1>2. RequestsConform'
  <2> SUFFICES ASSUME NEW d \in Clients, request'[d].step # "idle", request'[d].kind = "relation"
               PROVE  Conforms(request[d].row)'
    BY DEF RequestsConform
  <2>1. request[c] \in Looking({"find", "insert"})
    BY DEF RegistryInv, RegistryTypeOK, Find, Idle
  <2>2. \/ request'[d] = request[d] \/ request'[d] = Idle
        \/ d = c /\ request'[d] = [request[c] EXCEPT !.step = "insert"]
    BY DEF RegistryInv, RegistryTypeOK, Find
  <2>3. request'[d].kind = request[d].kind /\ request'[d].row = request[d].row
        /\ request[d].step # "idle"
    BY <2>1, <2>2 DEF Looking, Idle
  <2>4. Conforms(request[d].row)
    BY <2>3 DEF RegistryInv, RequestsConform
  <2>5. QED
    BY <1>1, <2>3, <2>4 DEF Conforms, Allows, TypeOf
<1>3. QED
  BY <1>1, <1>2, TablesUntouched DEF RegistryInv

\* An insertion leaves the rows that are there.
LEMMA InsertKeepsRows ==
  ASSUME RegistryTypeOK, NEW c \in Clients, Insert(c), NEW kind \in {"source", "object", "relation"}
  PROVE  \/ rows'[kind] = rows[kind]
         \/ /\ kind = request[c].kind
            /\ MayInsert(c)
            /\ DOMAIN rows'[kind] = DOMAIN rows[kind] \cup {Len(rows[kind]) + 1}
            /\ \A i \in DOMAIN rows[kind] : rows'[kind][i] = rows[kind][i]
            /\ rows'[kind][Len(rows[kind]) + 1] = request[c].row
<1>1. CASE ~MayInsert(c)
  BY <1>1 DEF Insert
<1>2. CASE MayInsert(c) /\ kind # request[c].kind
  BY <1>2 DEF RegistryTypeOK, Insert
<1>3. CASE MayInsert(c) /\ kind = request[c].kind
  <2>1. rows'[kind] = Append(rows[kind], request[c].row)
    BY <1>3 DEF RegistryTypeOK, Insert
  <2>2. PICK S : rows[kind] \in Seq(S)
    BY DEF RegistryTypeOK
  <2>3. /\ DOMAIN rows[kind] = 1 .. Len(rows[kind])
        /\ DOMAIN Append(rows[kind], request[c].row) = 1 .. Len(rows[kind]) + 1
        /\ Len(rows[kind]) \in Nat
        /\ \A i \in 1 .. Len(rows[kind]) : Append(rows[kind], request[c].row)[i] = rows[kind][i]
        /\ Append(rows[kind], request[c].row)[Len(rows[kind]) + 1] = request[c].row
    BY <2>2
  <2>4. QED
    BY <1>3, <2>1, <2>3
<1>4. QED
  BY <1>1, <1>2, <1>3

LEMMA InsertKeepsConforming ==
  ASSUME RegistryTypeOK, NEW c \in Clients, Insert(c), NEW r, Conforms(r)
  PROVE  Conforms(r)'
<1>1. /\ DOMAIN rows["object"] \subseteq DOMAIN rows'["object"]
      /\ \A i \in DOMAIN rows["object"] : rows'["object"][i] = rows["object"][i]
  BY InsertKeepsRows
<1>2. QED
  BY <1>1 DEF Conforms, Allows, TypeOf

\* A relation that is inserted was checked when it was asked for.
LEMMA InsertConforms ==
  ASSUME RegistryInv, NEW c \in Clients, Insert(c)
  PROVE  (RelationsConform /\ RequestsConform)'
<1>1. RelationsConform'
  <2> SUFFICES ASSUME NEW i \in DOMAIN rows'["relation"]
               PROVE  Conforms(rows["relation"][i])'
    BY DEF RelationsConform
  <2>1. CASE i \in DOMAIN rows["relation"] /\ rows'["relation"][i] = rows["relation"][i]
    <3>1. Conforms(rows["relation"][i])
      BY <2>1 DEF RegistryInv, RelationsConform
    <3>2. QED
      BY <2>1, <3>1, InsertKeepsConforming DEF RegistryInv
  <2>2. CASE rows'["relation"][i] = request[c].row /\ request[c].kind = "relation"
    <3>1. Conforms(request[c].row)
      BY <2>2 DEF RegistryInv, RequestsConform, Insert
    <3>2. QED
      BY <2>2, <3>1, InsertKeepsConforming DEF RegistryInv
  <2>3. QED
    BY <2>1, <2>2, InsertKeepsRows DEF RegistryInv
<1>2. RequestsConform'
  <2> SUFFICES ASSUME NEW d \in Clients, request'[d].step # "idle", request'[d].kind = "relation"
               PROVE  Conforms(request[d].row)'
    BY DEF RequestsConform
  <2>1. request'[d] = request[d]
    BY DEF RegistryInv, RegistryTypeOK, Insert, Idle
  <2>2. Conforms(request[d].row)
    BY <2>1 DEF RegistryInv, RequestsConform
  <2>3. QED
    BY <2>1, <2>2, InsertKeepsConforming DEF RegistryInv
<1>3. QED
  BY <1>1, <1>2

\* Each step of a request keeps the registry's invariant.
LEMMA InsertKeeps ==
  ASSUME RegistryInv, NEW c \in Clients, Insert(c)
  PROVE  RegistryInv'
BY InsertTyped, InsertConforms DEF RegistryInv

LEMMA FindKeeps ==
  ASSUME RegistryInv, NEW c \in Clients, Find(c)
  PROVE  RegistryInv'
BY FindTyped, FindConforms DEF RegistryInv

LEMMA CreateSourceKeeps ==
  ASSUME RegistryInv, NEW c \in Clients, NEW source \in Sources, CreateSource(c, source)
  PROVE  RegistryInv'
<1>1. Begin(c, "source", source)
  BY DEF CreateSource
<1>2. QED
  BY <1>1, BeginTyped, BeginConforms DEF RegistryInv

LEMMA CreateObjectKeeps ==
  ASSUME RegistryInv, NEW c \in Clients, NEW key \in Keys, NEW type \in Types, NEW v,
         CreateObject(c, key, type, v)
  PROVE  RegistryInv'
<1>1. Begin(c, "object", [key |-> key, type |-> type])
  BY DEF CreateObject
<1>2. [key |-> key, type |-> type] \in Object
  BY DEF Object
<1>3. RegistryTypeOK'
  BY <1>1, <1>2, BeginTyped DEF RegistryInv
<1>4. QED
  BY <1>1, <1>3, BeginConforms DEF RegistryInv

LEMMA CreateRelationKeeps ==
  ASSUME RegistryInv, NEW c \in Clients, NEW p \in Predicates, NEW v,
         NEW i \in DOMAIN rows["object"], NEW j \in DOMAIN rows["object"],
         CreateRelation(c, i, p, j, v)
  PROVE  RegistryInv'
<1> DEFINE row == [subject |-> i, predicate |-> p, object |-> j]
<1>1. Begin(c, "relation", row)
  BY DEF CreateRelation
<1>2. row \in Relation
  BY DEF RegistryInv, RegistryTypeOK, Relation
<1>3. Conforms(row)
  BY DEF CreateRelation, Conforms
<1> HIDE DEF row
<1>4. RegistryTypeOK'
  BY <1>1, <1>2, BeginTyped DEF RegistryInv
<1>5. QED
  BY <1>1, <1>3, <1>4, BeginConforms DEF RegistryInv

LEMMA DropKeeps ==
  ASSUME RegistryInv, NEW c \in Clients, request' = [request EXCEPT ![c] = Idle],
         UNCHANGED <<ontology, rows>>
  PROVE  RegistryInv'
<1>1. RegistryTypeOK'
  BY DEF RegistryInv, RegistryTypeOK
<1>2. QED
  BY <1>1, RegistryUntouched DEF RegistryInv, RegistryTypeOK

\* So does a step that changes the ontology only.
LEMMA OntologyKeeps ==
  ASSUME RegistryInv, UNCHANGED <<rows, request>>,
         ontology' \in [Versions ->
           [status : {"NONE", "DRAFT", "ACTIVE", "SUPERSEDED"}, codes : SUBSET Codes]]
  PROVE  RegistryInv'
<1>1. RegistryTypeOK'
  BY DEF RegistryInv, RegistryTypeOK
<1>2. QED
  BY <1>1, RegistryUntouched DEF RegistryInv

LEMMA UnchangedKeeps ==
  ASSUME RegistryInv, UNCHANGED registryVars
  PROVE  RegistryInv'
BY OntologyKeeps DEF registryVars, RegistryInv, RegistryTypeOK

-----------------------------------------------------------------------------
(* Where the runs of the script are.                                       *)

\* A run that begins one of its stages.
LEMMA RunAtPlaces ==
  ASSUME NEW stage \in Stages, NEW status \in {NULL, "DRAFT", "ACTIVE", "SUPERSEDED"}
  PROVE  RunAt(stage, status) \in Run /\ PlaceOf(RunAt(stage, status))
<1>1. 1 \in DOMAIN DemoCodes /\ 1 \in DOMAIN DemoObjects /\ 1 \in DOMAIN DemoRules
  BY DemoAssumption
<1>2. QED
  BY <1>1 DEF RunAt, Run, PlaceOf

\* A run whose record is replaced by another in its place.
LEMMA MovePlaces ==
  ASSUME SeedsTyped, NEW s \in Seeds, NEW run \in Run, PlaceOf(run),
         seed' = [seed EXCEPT ![s] = run]
  PROVE  SeedsTyped'
BY DEF SeedsTyped, RunsInPlace

LEMMA GotoPlaces ==
  ASSUME SeedsTyped, NEW s \in Seeds, NEW stage \in Stages, Goto(s, stage)
  PROVE  SeedsTyped'
BY RunAtPlaces, MovePlaces DEF Goto

LEMMA DefiningPlaces ==
  ASSUME NEW run \in Run, PlaceOf(run), run.at \in {"define", "add"}, NEW missing \in SUBSET Codes
  PROVE  Defining(run, missing) \in Run /\ PlaceOf(Defining(run, missing))
<1>1. run.n \in Nat /\ run.n \in DOMAIN DemoCodes /\ DOMAIN DemoCodes = 1 .. Len(DemoCodes)
      /\ Len(DemoCodes) \in Nat
  BY DemoAssumption DEF PlaceOf, Run
<1>2. CASE missing # {}
  <2> DEFINE next == [at |-> "add", n |-> run.n, status |-> run.status, missing |-> missing]
  <2>1. Defining(run, missing) = next
    BY <1>1, <1>2 DEF Defining, Run
  <2>2. next \in Run
    BY <1>1 DEF Run, Stages
  <2>3. PlaceOf(next)
    BY <1>1, <1>2 DEF PlaceOf, OfRule
  <2>4. QED
    BY <2>1, <2>2, <2>3
<1>3. CASE missing = {} /\ run.n < Len(DemoCodes)
  <2> DEFINE next == [at |-> "define", n |-> run.n + 1, status |-> run.status, missing |-> {}]
  <2>1. Defining(run, missing) = next
    <3>1. ~(run.n >= Len(DemoCodes))
      BY <1>1, <1>3
    <3>2. Defining(run, missing) = [run EXCEPT !.at = "define", !.n = @ + 1, !.missing = {}]
      BY <1>3, <3>1, Zenon DEF Defining
    <3>3. QED
      BY <3>2 DEF Run
  <2>2. next \in Run
    BY <1>1 DEF Run, Stages
  <2>3. PlaceOf(next)
    <3>1. run.n + 1 \in DOMAIN DemoCodes
      BY <1>1, <1>3
    <3>2. QED
      BY <3>1 DEF PlaceOf, OfRule
  <2>4. QED
    BY <2>1, <2>2, <2>3
<1>4. CASE missing = {} /\ run.n >= Len(DemoCodes)
  <2> DEFINE next == [at |-> "activate", n |-> 1, status |-> run.status, missing |-> {}]
  <2>1. Defining(run, missing) = next
    <3>1. ~(run.n < Len(DemoCodes))
      BY <1>1, <1>4
    <3>2. Defining(run, missing) = [run EXCEPT !.at = "activate", !.n = 1, !.missing = {}]
      BY <1>4, <3>1, Zenon DEF Defining
    <3>3. QED
      BY <3>2 DEF Run
  <2>2. next \in Run
    BY <1>1 DEF Run, Stages
  <2>3. PlaceOf(next)
    BY <1>1, <1>4 DEF PlaceOf, OfRule
  <2>4. QED
    BY <2>1, <2>2, <2>3
<1>5. QED
  BY <1>1, <1>2, <1>3, <1>4

\* The next item of a list, or another step for the same one.
LEMMA RepeatPlaces ==
  ASSUME SeedsTyped, NEW s \in Seeds, At(s, "objects"), seed[s].n < Len(DemoObjects),
         Repeat(s, "objects")
  PROVE  SeedsTyped'
<1> DEFINE run == [at |-> "objects", n |-> seed[s].n + 1, status |-> seed[s].status,
                   missing |-> seed[s].missing]
<1>1. seed[s] \in Run /\ PlaceOf(seed[s])
  BY DEF SeedsTyped, RunsInPlace
<1>2. seed' = [seed EXCEPT ![s] = run]
  BY <1>1 DEF Repeat, SeedsTyped, Run
<1>3. seed[s].n + 1 \in DOMAIN DemoObjects /\ seed[s].n + 1 \in Nat
  BY <1>1, DemoAssumption DEF PlaceOf, At, Run
<1>4. run \in Run
  BY <1>1, <1>3 DEF Run, Stages
<1>5. PlaceOf(run)
  BY <1>3 DEF PlaceOf, OfRule
<1> HIDE DEF run
<1>6. QED
  BY <1>2, <1>4, <1>5, MovePlaces

LEMMA NextRulePlaces ==
  ASSUME SeedsTyped, NEW s \in Seeds, seed[s].at \in OfRule \cup {"rules"}, NextRule(s)
  PROVE  SeedsTyped'
<1> DEFINE run == [at |-> "rules", n |-> seed[s].n + 1, status |-> seed[s].status,
                   missing |-> seed[s].missing]
<1>1. seed[s] \in Run /\ PlaceOf(seed[s])
  BY DEF SeedsTyped, RunsInPlace
<1>2. CASE seed[s].n < Len(DemoRules)
  <2>1. seed' = [seed EXCEPT ![s] = run]
    BY <1>1, <1>2 DEF NextRule, Repeat, SeedsTyped, Run
  <2>2. seed[s].n + 1 \in DOMAIN DemoRules /\ seed[s].n + 1 \in Nat
    BY <1>1, <1>2, DemoAssumption DEF PlaceOf, Run
  <2>3. run \in Run
    BY <1>1, <2>2 DEF Run, Stages
  <2>4. PlaceOf(run)
    BY <2>2 DEF PlaceOf, OfRule
  <2> HIDE DEF run
  <2>5. QED
    BY <2>1, <2>3, <2>4, MovePlaces
<1>3. CASE ~(seed[s].n < Len(DemoRules))
  BY <1>3, GotoPlaces DEF NextRule, Stages, Ended
<1>4. QED
  BY <1>2, <1>3

LEMMA StagePlaces ==
  ASSUME SeedsTyped, NEW s \in Seeds, NEW stage \in OfRule,
         seed[s].at \in OfRule \cup {"rules"}, seed' = [seed EXCEPT ![s].at = stage]
  PROVE  SeedsTyped'
<1> DEFINE run == [at |-> stage, n |-> seed[s].n, status |-> seed[s].status,
                   missing |-> seed[s].missing]
<1>1. seed[s] \in Run /\ PlaceOf(seed[s])
  BY DEF SeedsTyped, RunsInPlace
<1>2. seed' = [seed EXCEPT ![s] = run]
  <2>1. [seed[s] EXCEPT !.at = stage] = run
    BY <1>1 DEF Run
  <2>2. seed' = [seed EXCEPT ![s] = [seed[s] EXCEPT !.at = stage]]
    BY DEF SeedsTyped
  <2>3. QED
    BY <2>1, <2>2
<1>3. run \in Run
  BY <1>1 DEF Run, Stages
<1>4. PlaceOf(run)
  BY <1>1 DEF PlaceOf, OfRule
<1> HIDE DEF run
<1>5. QED
  BY <1>2, <1>3, <1>4, MovePlaces

-----------------------------------------------------------------------------
(* The steps of the script.                                                *)

LEMMA StartKeeps ==
  ASSUME Inv, NEW s \in Seeds, Start(s)
  PROVE  Inv'
<1>1. DemoTyped'
  BY DEF Inv, DemoTyped, Start, demoVars
<1>2. CASE /\ Demo.status # "NONE"
           /\ seed' = [seed EXCEPT ![s] = RunAt("define", Demo.status)]
           /\ UNCHANGED ontology
  <2>1. Demo.status \in {"DRAFT", "ACTIVE", "SUPERSEDED"}
    BY <1>2, DemoAssumption DEF Inv, RegistryInv, RegistryTypeOK, Demo
  <2>2. SeedsTyped'
    BY <1>2, <2>1, RunAtPlaces, MovePlaces DEF Inv, Stages
  <2>3. RegistryInv'
    BY <1>2, UnchangedKeeps DEF Inv, Start, registryVars
  <2>4. QED
    BY <1>1, <2>2, <2>3 DEF Inv
<1>3. CASE /\ ontology' = [ontology EXCEPT ![DemoVersion].status = "DRAFT"]
           /\ seed' = [seed EXCEPT ![s] = RunAt("define", "DRAFT")]
  <2>1. SeedsTyped'
    BY <1>3, RunAtPlaces, MovePlaces DEF Inv, Stages
  <2>2. RegistryInv'
    BY <1>3, OntologyKeeps, DemoAssumption DEF Inv, Start, RegistryInv, RegistryTypeOK
  <2>3. QED
    BY <1>1, <2>1, <2>2 DEF Inv
<1>4. CASE Fail(s) /\ UNCHANGED ontology
  <2>1. SeedsTyped'
    BY <1>4, GotoPlaces DEF Inv, Fail, Stages, Ended
  <2>2. RegistryInv'
    BY <1>4, UnchangedKeeps DEF Inv, Start, registryVars
  <2>3. QED
    BY <1>1, <2>1, <2>2 DEF Inv
<1>5. QED
  BY <1>2, <1>3, <1>4 DEF Start

LEMMA ReadDefinitionsKeeps ==
  ASSUME Inv, NEW s \in Seeds, ReadDefinitions(s)
  PROVE  Inv'
<1> DEFINE missing == DemoCodes[seed[s].n] \ Demo.codes
<1>1. seed[s] \in Run /\ PlaceOf(seed[s]) /\ seed[s].at = "define"
  BY DEF Inv, SeedsTyped, RunsInPlace, ReadDefinitions, At
<1>2. seed[s].n \in DOMAIN DemoCodes
  BY <1>1 DEF PlaceOf
<1>3. missing \in SUBSET Codes
  BY <1>2, DemoAssumption
<1>4. seed' = [seed EXCEPT ![s] = Defining(seed[s], missing)]
  BY DEF ReadDefinitions, Inv, SeedsTyped
<1> HIDE DEF missing
<1>5. SeedsTyped'
  BY <1>1, <1>3, <1>4, DefiningPlaces, MovePlaces DEF Inv
<1>6. RegistryInv' /\ DemoTyped'
  BY UnchangedKeeps DEF Inv, DemoTyped, ReadDefinitions, demoVars
<1>7. QED
  BY <1>5, <1>6 DEF Inv

LEMMA AddDefinitionKeeps ==
  ASSUME Inv, NEW s \in Seeds, AddDefinition(s)
  PROVE  Inv'
<1>1. seed[s] \in Run /\ PlaceOf(seed[s]) /\ seed[s].at = "add"
  BY DEF Inv, SeedsTyped, RunsInPlace, AddDefinition, At
<1>2. PICK code \in seed[s].missing :
        \/ /\ ontology' = [ontology EXCEPT ![DemoVersion].codes = @ \cup {code}]
           /\ seed' = [seed EXCEPT ![s] = Defining(@, @.missing \ {code})]
        \/ Fail(s) /\ UNCHANGED ontology
  BY DEF AddDefinition
<1>3. code \in Codes /\ seed[s].missing \ {code} \in SUBSET Codes
  BY <1>1 DEF Run
<1>4. DemoTyped'
  BY DEF Inv, DemoTyped, AddDefinition, demoVars
<1>5. CASE /\ ontology' = [ontology EXCEPT ![DemoVersion].codes = @ \cup {code}]
           /\ seed' = [seed EXCEPT ![s] = Defining(@, @.missing \ {code})]
  <2>1. seed' = [seed EXCEPT ![s] = Defining(seed[s], seed[s].missing \ {code})]
    BY <1>5 DEF Inv, SeedsTyped
  <2>2. SeedsTyped'
    BY <1>1, <1>3, <2>1, DefiningPlaces, MovePlaces DEF Inv
  <2>3. RegistryInv'
    BY <1>3, <1>5, OntologyKeeps, DemoAssumption
       DEF Inv, AddDefinition, RegistryInv, RegistryTypeOK
  <2>4. QED
    BY <1>4, <2>2, <2>3 DEF Inv
<1>6. CASE Fail(s) /\ UNCHANGED ontology
  <2>1. SeedsTyped'
    BY <1>6, GotoPlaces DEF Inv, Fail, Stages, Ended
  <2>2. RegistryInv'
    BY <1>6, UnchangedKeeps DEF Inv, AddDefinition, registryVars
  <2>3. QED
    BY <1>4, <2>1, <2>2 DEF Inv
<1>7. QED
  BY <1>2, <1>5, <1>6

LEMMA ActivatedTyped ==
  ASSUME RegistryTypeOK, NEW v \in Versions
  PROVE  Activated(v) \in [Versions ->
           [status : {"NONE", "DRAFT", "ACTIVE", "SUPERSEDED"}, codes : SUBSET Codes]]
BY DEF RegistryTypeOK, Activated

LEMMA ActivateOntologyKeeps ==
  ASSUME Inv, NEW s \in Seeds, ActivateOntology(s)
  PROVE  Inv'
<1>1. DemoTyped'
  BY DEF Inv, DemoTyped, ActivateOntology, demoVars
<1>2. SeedsTyped'
  BY GotoPlaces DEF Inv, ActivateOntology, Fail, Stages, Ended
<1>3. RegistryInv'
  <2>1. CASE UNCHANGED ontology
    BY <2>1, UnchangedKeeps DEF Inv, ActivateOntology, registryVars
  <2>2. CASE ontology' = Activated(DemoVersion)
    BY <2>2, OntologyKeeps, ActivatedTyped, DemoAssumption DEF Inv, ActivateOntology, RegistryInv
  <2>3. QED
    BY <2>1, <2>2 DEF ActivateOntology
<1>4. QED
  BY <1>1, <1>2, <1>3 DEF Inv

LEMMA AskKeeps ==
  ASSUME Inv, NEW s \in Seeds, Ask(s)
  PROVE  Inv'
<1>1. SeedsTyped' /\ DemoTyped'
  BY DEF Inv, SeedsTyped, RunsInPlace, DemoTyped, Ask, demoVars
<1>2. RegistryInv /\ s \in Clients
  BY DemoAssumption DEF Inv
<1>3. CASE CreateSource(s, DemoSource)
  BY <1>1, <1>2, <1>3, CreateSourceKeeps, DemoAssumption DEF Inv
<1>4. CASE /\ At(s, "objects")
           /\ LET new == DemoObjects[seed[s].n] IN CreateObject(s, new.key, new.type, DemoVersion)
  <2> DEFINE new == DemoObjects[seed[s].n]
  <2>1. seed[s].n \in DOMAIN DemoObjects
    BY <1>4 DEF Inv, SeedsTyped, RunsInPlace, PlaceOf, At
  <2>2. new \in Object
    BY <2>1, DemoAssumption
  <2>3. new.key \in Keys /\ new.type \in Types
    BY <2>2 DEF Object
  <2>4. CreateObject(s, new.key, new.type, DemoVersion)
    BY <1>4
  <2> HIDE DEF new
  <2>5. RegistryInv'
    BY <1>2, <2>3, <2>4, CreateObjectKeeps
  <2>6. QED
    BY <1>1, <2>5 DEF Inv
<1>5. CASE \E subject \in ObjectOf(DemoRelation.subject), object \in ObjectOf(DemoRelation.object) :
             CreateRelation(s, subject, DemoRelation.predicate, object, DemoVersion)
  <2>1. DemoRelation.predicate \in Predicates
    BY DemoAssumption
  <2>2. PICK subject \in DOMAIN rows["object"], object \in DOMAIN rows["object"] :
          CreateRelation(s, subject, DemoRelation.predicate, object, DemoVersion)
    BY <1>5 DEF ObjectOf
  <2>3. RegistryInv'
    BY <1>2, <2>1, <2>2, CreateRelationKeeps
  <2>4. QED
    BY <1>1, <2>3 DEF Inv
<1>6. QED
  BY <1>3, <1>4, <1>5 DEF Ask

LEMMA AfterAnswerPlaces ==
  ASSUME SeedsTyped, NEW s \in Seeds, AfterAnswer(s)
  PROVE  SeedsTyped'
<1>1. CASE At(s, "objects") /\ seed[s].n < Len(DemoObjects) /\ Repeat(s, "objects")
  BY <1>1, RepeatPlaces
<1>2. CASE \E stage \in {"objects", "fact", "rules"} : Goto(s, stage)
  BY <1>2, GotoPlaces DEF Stages
<1>3. QED
  BY <1>1, <1>2 DEF AfterAnswer

LEMMA AwaitKeeps ==
  ASSUME Inv, NEW s \in Seeds, Await(s)
  PROVE  Inv'
<1>1. RegistryInv /\ SeedsTyped /\ s \in Clients
  BY DemoAssumption DEF Inv
<1>2. DemoTyped'
  BY DEF Inv, DemoTyped, Await, demoVars
<1>3. RegistryInv'
  BY <1>1, FindKeeps, InsertKeeps DEF Await
<1>4. SeedsTyped'
  <2>1. CASE UNCHANGED seed
    BY <1>1, <2>1 DEF SeedsTyped, RunsInPlace
  <2>2. CASE AfterAnswer(s)
    BY <1>1, <2>2, AfterAnswerPlaces
  <2>3. CASE Fail(s)
    BY <1>1, <2>3, GotoPlaces DEF Fail, Stages, Ended
  <2>4. QED
    BY <2>1, <2>2, <2>3 DEF Await
<1>5. QED
  BY <1>2, <1>3, <1>4 DEF Inv

\* The steps that leave the registry alone.
LEMMA EnsureRelationKeeps ==
  ASSUME Inv, NEW s \in Seeds, EnsureRelation(s)
  PROVE  Inv'
<1>1. RegistryInv' /\ DemoTyped'
  BY UnchangedKeeps DEF Inv, DemoTyped, EnsureRelation, demoVars
<1>2. SeedsTyped'
  BY GotoPlaces DEF Inv, EnsureRelation, Fail, Stages, Ended
<1>3. QED
  BY <1>1, <1>2 DEF Inv

LEMMA RecordTyped ==
  ASSUME facts \in Seq(Values), NEW value \in Values, Record(value)
  PROVE  facts' \in Seq(Values)
BY AppendProperties DEF Record

LEMMA EnsureFactKeeps ==
  ASSUME Inv, NEW s \in Seeds, EnsureFact(s)
  PROVE  Inv'
<1>1. RegistryInv'
  BY UnchangedKeeps DEF Inv, EnsureFact
<1>2. SeedsTyped'
  BY GotoPlaces DEF Inv, EnsureFact, Stages
<1>3. Intake \in {NULL, "RAW", "MAPPED", "NEEDS_REVIEW", "ACCEPTED"}
  BY Zenon DEF Inv, DemoTyped, Intake
<1>4. DemoTyped'
  BY <1>3 DEF Inv, DemoTyped, EnsureFact
<1>5. QED
  BY <1>1, <1>2, <1>4 DEF Inv

LEMMA AcceptFactKeeps ==
  ASSUME Inv, NEW s \in Seeds, AcceptFact(s)
  PROVE  Inv'
<1>1. RegistryInv'
  BY UnchangedKeeps DEF Inv, AcceptFact
<1>2. SeedsTyped'
  BY GotoPlaces DEF Inv, AcceptFact, Fail, Stages, Ended
<1>3. DemoTyped'
  BY RecordTyped, "demo" \in Values DEF Inv, DemoTyped, AcceptFact, Values
<1>4. QED
  BY <1>1, <1>2, <1>3 DEF Inv

LEMMA EnsureRuleKeeps ==
  ASSUME Inv, NEW s \in Seeds, EnsureRule(s)
  PROVE  Inv'
<1>1. RegistryInv'
  BY UnchangedKeeps DEF Inv, EnsureRule
<1>2. DemoTyped'
  BY DEF Inv, DemoTyped, EnsureRule
<1>3. SeedsTyped'
  <2>1. CASE NextRule(s)
    BY <2>1, NextRulePlaces DEF Inv, EnsureRule, At
  <2>2. CASE seed' = [seed EXCEPT ![s].at = "validate"]
    BY <2>2, StagePlaces DEF Inv, EnsureRule, At, OfRule
  <2>3. QED
    BY <2>1, <2>2 DEF EnsureRule
<1>4. QED
  BY <1>1, <1>2, <1>3 DEF Inv

LEMMA WorkOnRuleKeeps ==
  ASSUME Inv, NEW s \in Seeds, WorkOnRule(s)
  PROVE  Inv'
<1>1. RegistryInv'
  BY UnchangedKeeps DEF Inv, WorkOnRule
<1>2. DemoTyped'
  BY DEF Inv, DemoTyped, WorkOnRule
<1>3. SeedsTyped'
  <2>1. CASE At(s, "activate rule") /\ NextRule(s)
    BY <2>1, NextRulePlaces DEF Inv, At, OfRule
  <2>2. CASE At(s, "test") /\ seed' = [seed EXCEPT ![s].at = "activate rule"]
    BY <2>2, StagePlaces DEF Inv, At, OfRule
  <2>3. CASE At(s, "validate") /\ seed' = [seed EXCEPT ![s].at = "test"]
    BY <2>3, StagePlaces DEF Inv, At, OfRule
  <2>4. QED
    BY <2>1, <2>2, <2>3 DEF WorkOnRule
<1>4. QED
  BY <1>1, <1>2, <1>3 DEF Inv

LEMMA WorkKeeps ==
  ASSUME Inv, NEW s \in Seeds, Work(s)
  PROVE  Inv'
BY StartKeeps, ReadDefinitionsKeeps, AddDefinitionKeeps, ActivateOntologyKeeps, AskKeeps,
   AwaitKeeps, EnsureFactKeeps, AcceptFactKeeps, EnsureRelationKeeps, EnsureRuleKeeps,
   WorkOnRuleKeeps DEF Work

\* A run that is stopped while it created a rule is noted with the rule.
LEMMA StopKeeps ==
  ASSUME Inv, abandoned \subseteq Rules, NEW s \in Seeds, Stop(s)
  PROVE  Inv' /\ abandoned' \subseteq Rules
<1>1. RegistryInv'
  BY DropKeeps, DemoAssumption DEF Inv, Stop
<1>2. SeedsTyped' /\ DemoTyped'
  BY GotoPlaces DEF Inv, Stop, DemoTyped, demoVars, Stages, Ended
<1>3. seed[s].at \in OfRule => RuleOf(s) \in Rules
  BY DEF Inv, SeedsTyped, RunsInPlace, PlaceOf, RuleOf, Rules
<1>4. QED
  BY <1>1, <1>2, <1>3 DEF Inv, Stop

-----------------------------------------------------------------------------
(* The clients of the API.                                                 *)

LEMMA RegisterKeeps ==
  ASSUME Inv, NEW c \in Clients, Register(c)
  PROVE  Inv'
<1>1. SeedsTyped' /\ DemoTyped'
  BY DEF Inv, SeedsTyped, RunsInPlace, DemoTyped, Register, demoVars
<1>2. CASE \E source \in Sources : CreateSource(c, source)
  BY <1>1, <1>2, CreateSourceKeeps DEF Inv
<1>3. CASE \E object \in Object, v \in Versions \cup {NULL} :
             CreateObject(c, object.key, object.type, v)
  BY <1>1, <1>3, CreateObjectKeeps DEF Inv, Object
<1>4. CASE \E i, j \in DOMAIN rows["object"], p \in Predicates, v \in Versions \cup {NULL} :
             CreateRelation(c, i, p, j, v)
  BY <1>1, <1>4, CreateRelationKeeps DEF Inv
<1>5. CASE Find(c) \/ Insert(c)
  BY <1>1, <1>5, FindKeeps, InsertKeeps DEF Inv
<1>6. CASE Abort(c)
  BY <1>1, <1>6, DropKeeps DEF Inv, Abort
<1>7. QED
  BY <1>2, <1>3, <1>4, <1>5, <1>6 DEF Register

LEMMA OthersKeep ==
  ASSUME Inv, Others
  PROVE  Inv'
<1>1. CASE \E c \in Clients \ Seeds : Register(c)
  BY <1>1, RegisterKeeps
<1>2. CASE ActivateVersion
  <2>1. RegistryInv'
    BY <1>2, OntologyKeeps, ActivatedTyped, DemoAssumption DEF Inv, RegistryInv, ActivateVersion
  <2>2. SeedsTyped' /\ DemoTyped'
    BY <1>2 DEF Inv, SeedsTyped, RunsInPlace, DemoTyped, ActivateVersion, demoVars
  <2>3. QED
    BY <2>1, <2>2 DEF Inv
<1>3. CASE \E v \in Versions : SwitchVersion(v)
  <2>1. PICK v \in Versions, codes \in {{}, AllDemoCodes} :
          ontology' = [Activated(v) EXCEPT ![v].codes = codes]
    BY <1>3 DEF SwitchVersion
  <2>2. codes \in SUBSET Codes
    BY DemoAssumption DEF AllDemoCodes
  <2>3. ontology' \in [Versions ->
          [status : {"NONE", "DRAFT", "ACTIVE", "SUPERSEDED"}, codes : SUBSET Codes]]
    <3> DEFINE Version == [status : {"NONE", "DRAFT", "ACTIVE", "SUPERSEDED"}, codes : SUBSET Codes]
    <3>1. Activated(v) \in [Versions -> Version]
      BY ActivatedTyped DEF Inv, RegistryInv
    <3>2. [Activated(v)[v] EXCEPT !.codes = codes] \in Version
      BY <2>2, <3>1
    <3>3. ontology' = [Activated(v) EXCEPT ![v] = [Activated(v)[v] EXCEPT !.codes = codes]]
      BY <2>1, <3>1
    <3> HIDE DEF Version
    <3>4. ontology' \in [Versions -> Version]
      BY <3>1, <3>2, <3>3
    <3>5. QED
      BY <3>4 DEF Version
  <2>4. RegistryInv'
    BY <1>3, <2>3, OntologyKeeps DEF Inv, SwitchVersion
  <2>5. SeedsTyped' /\ DemoTyped'
    BY <1>3 DEF Inv, SeedsTyped, RunsInPlace, DemoTyped, SwitchVersion, demoVars
  <2>6. QED
    BY <2>4, <2>5 DEF Inv
<1>4. CASE \E value \in Values : EnterFact(value)
  <2>1. RegistryInv'
    BY <1>4, UnchangedKeeps DEF Inv, EnterFact
  <2>2. SeedsTyped' /\ DemoTyped'
    BY <1>4, RecordTyped DEF Inv, SeedsTyped, RunsInPlace, DemoTyped, EnterFact
  <2>3. QED
    BY <2>1, <2>2 DEF Inv
<1>5. QED
  BY <1>1, <1>2, <1>3, <1>4 DEF Others

-----------------------------------------------------------------------------
(* The whole system.                                                       *)

HistoryTyped == touched \subseteq Seeds /\ changes \in 0 .. MaxChanges /\ abandoned \subseteq Rules

LEMMA InitHolds == Init => Inv /\ HistoryTyped
<1> SUFFICES ASSUME Init PROVE Inv /\ HistoryTyped
  OBVIOUS
<1>1. RegistryTypeOK
  BY DEF Init, RegistryInit, RegistryTypeOK
<1>2. RelationsConform /\ RequestsConform 
  BY DEF Init, RegistryInit, RelationsConform, RequestsConform, Idle
<1>3. SeedsTyped
  BY RunAtPlaces DEF Init, SeedsTyped, RunsInPlace, Stages, Ended
<1>4. DemoTyped
  BY DEF Init, DemoTyped, NULL
<1>5. HistoryTyped
  BY DemoAssumption DEF Init, HistoryTyped
<1>6. QED
  BY <1>1, <1>2, <1>3, <1>4, <1>5 DEF Inv, RegistryInv

LEMMA StepKeeps == Inv /\ HistoryTyped /\ [Next]_vars => Inv' /\ HistoryTyped'
<1> SUFFICES ASSUME Inv, HistoryTyped, [Next]_vars PROVE Inv' /\ HistoryTyped'
  OBVIOUS
<1>1. CASE \E s \in Seeds : Work(s) /\ Touch({s}) /\ UNCHANGED <<abandoned, changes>>
  BY <1>1, WorkKeeps DEF Touch, HistoryTyped
<1>2. CASE \E s \in Seeds : Stop(s) /\ Touch({s}) /\ UNCHANGED changes
  BY <1>2, StopKeeps DEF Touch, HistoryTyped
<1>3. CASE /\ Others /\ Touch({})
           /\ changes < MaxChanges
           /\ changes' = IF Tables' = Tables THEN changes ELSE changes + 1
           /\ UNCHANGED abandoned
  <2>1. changes' \in 0 .. MaxChanges
    BY <1>3, DemoAssumption DEF HistoryTyped
  <2>2. QED
    BY <1>3, <2>1, OthersKeep DEF Touch, HistoryTyped
<1>4. CASE UNCHANGED vars
  <2>1. RegistryInv'
    BY <1>4, UnchangedKeeps DEF Inv, vars
  <2>2. SeedsTyped' /\ DemoTyped' /\ HistoryTyped'
    BY <1>4 DEF Inv, SeedsTyped, RunsInPlace, DemoTyped, vars, demoVars, HistoryTyped
  <2>3. QED
    BY <2>1, <2>2 DEF Inv
<1>5. QED
  BY <1>1, <1>2, <1>3, <1>4 DEF Next

LEMMA AlwaysInv == Spec => [](Inv /\ HistoryTyped)
BY InitHolds, StepKeeps, PTL DEF Spec

\* Type correctness of the registry and the script.
THEOREM TypeCorrect == Spec => []TypeOK
<1>1. Inv /\ HistoryTyped => TypeOK
  BY DEF Inv, HistoryTyped, RegistryInv, SeedsTyped, DemoTyped, TypeOK
<1>2. QED
  BY <1>1, AlwaysInv, PTL

\* create_relation checks the types of both ends in one transaction and inserts the
\* relation in another step; the types still conform then and ever after.
THEOREM RelationsAlwaysConform == Spec => []RelationsConform
<1>1. Inv => RelationsConform
  BY DEF Inv, RegistryInv
<1>2. QED
  BY <1>1, AlwaysInv, PTL
-----------------------------------------------------------------------------
(* What no step takes away.                                                *)

Kinds == {"source", "object", "relation"}

\* Rows, recorded values and created rules stay; rows stay as they are.
Growing ==
  /\ \A kind \in Kinds :
       /\ DOMAIN rows[kind] \subseteq DOMAIN rows'[kind]
       /\ \A i \in DOMAIN rows[kind] : rows'[kind][i] = rows[kind][i]
  /\ \A value : Recorded(value) => Recorded(value)'
  /\ \A r \in Rules : rules[r] # NULL => rules'[r] # NULL

LEMMA RecordGrows ==
  ASSUME facts \in Seq(Values), NEW v, Record(v)
  PROVE  /\ \A value : Recorded(value) => Recorded(value)'
         /\ Recorded(v)'
<1>1. CASE Recorded(v)
  BY <1>1 DEF Record, Recorded
<1>2. CASE ~Recorded(v)
  <2>1. facts' = Append(facts, v)
    BY <1>2 DEF Record
  <2>2. /\ DOMAIN facts = 1 .. Len(facts) /\ Len(facts) \in Nat
        /\ DOMAIN Append(facts, v) = 1 .. Len(facts) + 1
        /\ \A i \in 1 .. Len(facts) : Append(facts, v)[i] = facts[i]
        /\ Append(facts, v)[Len(facts) + 1] = v
    OBVIOUS
  <2>3. QED
    BY <2>1, <2>2 DEF Recorded
<1>3. QED
  BY <1>1, <1>2

\* The rows of the registry change by insertions alone.
LEMMA RowsMove ==
  ASSUME Inv, [Next]_vars
  PROVE  rows' = rows \/ \E c \in Clients : Insert(c)
<1>1. CASE \E s \in Seeds : Work(s)
  BY <1>1, DemoAssumption
     DEF Work, Start, ReadDefinitions, AddDefinition, ActivateOntology, Ask, Await, EnsureFact, AcceptFact,
         EnsureRelation, EnsureRule, WorkOnRule, registryVars, CreateSource, CreateObject,
         CreateRelation, Begin, Find
<1>2. CASE \E s \in Seeds : Stop(s)
  BY <1>2 DEF Stop
<1>3. CASE Others
  BY <1>3 DEF Others, Register, ActivateVersion, SwitchVersion, EnterFact, registryVars, CreateSource,
              CreateObject, CreateRelation, Begin, Find, Abort
<1>4. QED
  BY <1>1, <1>2, <1>3 DEF Next, vars, registryVars

LEMMA FactsMove ==
  ASSUME Inv, [Next]_vars
  PROVE  facts' = facts \/ \E value \in Values : Record(value)
<1>1. CASE \E s \in Seeds : Work(s)
  BY <1>1 DEF Work, Start, ReadDefinitions, AddDefinition, ActivateOntology, Ask, Await, EnsureFact, AcceptFact,
              EnsureRelation, EnsureRule, WorkOnRule, demoVars, Values
<1>2. CASE \E s \in Seeds : Stop(s)
  BY <1>2 DEF Stop, demoVars
<1>3. CASE Others
  BY <1>3 DEF Others, Register, ActivateVersion, SwitchVersion, EnterFact, demoVars
<1>4. QED
  BY <1>1, <1>2, <1>3 DEF Next, vars, demoVars

LEMMA RulesMove ==
  ASSUME Inv, [Next]_vars
  PROVE  \/ rules' = rules
         \/ \E s \in Seeds : EnsureRule(s) \/ WorkOnRule(s)
<1>1. CASE \E s \in Seeds : Work(s)
  BY <1>1 DEF Work, Start, ReadDefinitions, AddDefinition, ActivateOntology, Ask, Await, EnsureFact, AcceptFact,
              EnsureRelation, demoVars
<1>2. CASE \E s \in Seeds : Stop(s)
  BY <1>2 DEF Stop, demoVars
<1>3. CASE Others
  BY <1>3 DEF Others, Register, ActivateVersion, SwitchVersion, EnterFact, demoVars
<1>4. QED
  BY <1>1, <1>2, <1>3 DEF Next, vars, demoVars

LEMMA Growth ==
  ASSUME Inv, [Next]_vars
  PROVE  Growing
<1>1. ASSUME NEW kind \in Kinds
      PROVE  /\ DOMAIN rows[kind] \subseteq DOMAIN rows'[kind]
             /\ \A i \in DOMAIN rows[kind] : rows'[kind][i] = rows[kind][i]
  BY RowsMove, InsertKeepsRows DEF Inv, RegistryInv, Kinds
<1>2. \A value : Recorded(value) => Recorded(value)'
  <2>1. CASE facts' = facts
    BY <2>1 DEF Recorded
  <2>2. CASE \E value \in Values : Record(value)
    BY <2>2, RecordGrows DEF Inv, DemoTyped
  <2>3. QED
    BY <2>1, <2>2, FactsMove
<1>3. ASSUME NEW r \in Rules, rules[r] # NULL
      PROVE  rules'[r] # NULL
  <2>1. ASSUME NEW s \in Seeds, EnsureRule(s) \/ WorkOnRule(s)
        PROVE  rules'[r] # NULL
    BY <1>3, <2>1 DEF EnsureRule, WorkOnRule, Inv, DemoTyped, NULL
  <2>2. QED
    BY <1>3, <2>1, RulesMove
<1>4. QED
  BY <1>1, <1>2, <1>3 DEF Growing

\* A step of one run leaves the others where they are, and a step of a client all of them.
LEMMA RunsApart ==
  ASSUME Inv, NEW s \in Seeds, Work(s) \/ Stop(s), NEW t \in Seeds, t # s
  PROVE  seed'[t] = seed[t] /\ request'[t] = request[t]
<1>1. seed'[t] = seed[t]
  BY DEF Inv, SeedsTyped, Work, Start, ReadDefinitions, AddDefinition, ActivateOntology, Ask, Await,
         AfterAnswer, EnsureFact, AcceptFact, EnsureRelation, EnsureRule, WorkOnRule, NextRule, Stop,
         Fail, Goto, Repeat
<1>2. request'[t] = request[t]
  BY DemoAssumption
     DEF Inv, RegistryInv, RegistryTypeOK, Work, Start, ReadDefinitions, AddDefinition,
         ActivateOntology, Ask, Await, EnsureFact, AcceptFact, EnsureRelation, EnsureRule, WorkOnRule,
         Stop, registryVars, CreateSource, CreateObject, CreateRelation, Begin, Find, Insert
<1>3. QED
  BY <1>1, <1>2

LEMMA ClientsApart ==
  ASSUME Inv, Others, NEW t \in Seeds
  PROVE  seed' = seed /\ request'[t] = request[t]
BY DemoAssumption
   DEF Inv, RegistryInv, RegistryTypeOK, Others, Register, ActivateVersion, SwitchVersion, EnterFact,
       registryVars, CreateSource, CreateObject, CreateRelation, Begin, Find, Insert, Abort

-----------------------------------------------------------------------------
(* What a run that has come this far has behind it.                        *)

AfterRelation == OfRule \cup {"rules", "done"}
AfterFact     == AfterRelation \cup {"relation"}
AfterObjects  == AfterFact \cup {"fact", "accept"}
AfterSource   == AfterObjects \cup {"objects"}

Behind(run) ==
  /\ run.at \in AfterSource => Found("source", DemoSource) # {}
  /\ run.at = "objects" => \A n \in 1 .. run.n - 1 : ObjectOf(DemoObjects[n].key) # {}
  /\ run.at \in AfterObjects => \A n \in DOMAIN DemoObjects : ObjectOf(DemoObjects[n].key) # {}
  /\ run.at \in AfterFact => Recorded("demo")
  /\ run.at \in AfterRelation => Offers # {}
  /\ run.at \in OfRule \cup {"rules"} => \A n \in 1 .. run.n - 1 : rules[DemoRules[n]] # NULL
  /\ run.at = "done" => \A r \in Rules : rules[r] # NULL

\* A run's request in flight is for what the run is about to ensure.
AsksFor(run, c) == c.step # "idle" =>
  \/ run.at = "source" /\ c.kind = "source" /\ c.row = DemoSource
  \/ run.at = "objects" /\ c.kind = "object" /\ c.row.key = DemoObjects[run.n].key
  \/ /\ run.at = "relation" /\ c.kind = "relation"
     /\ c.row.predicate = DemoRelation.predicate
     /\ c.row.subject \in ObjectOf(DemoRelation.subject)
     /\ c.row.object \in ObjectOf(DemoRelation.object)

\* The unique indexes: no identity has two rows, sources without an external identifier excepted.
RowsUnique ==
  /\ \A i, j \in DOMAIN rows["source"] :
       rows["source"][i].external = rows["source"][j].external /\ rows["source"][i].external # NULL => i = j
  /\ \A i, j \in DOMAIN rows["object"] : rows["object"][i].key = rows["object"][j].key => i = j
  /\ \A i, j \in DOMAIN rows["relation"] : rows["relation"][i] = rows["relation"][j] => i = j

WorkedOn(r) == \E t \in Seeds : seed[t].at \in OfRule /\ RuleOf(t) = r

\* A rule that was created is in effect, or a run has left it or is working on it.
RulesAccounted ==
  \A r \in Rules : rules[r] # NULL => rules[r] = "ACTIVE" \/ r \in abandoned \/ WorkedOn(r)

RunsAsk == \A s \in Seeds : AsksFor(seed[s], request[s])
RunsHaveBehind == \A s \in Seeds : Behind(seed[s])

CompleteInv == RowsUnique /\ RulesAccounted /\ RunsAsk /\ RunsHaveBehind

\* What a run has behind it stays behind it.
LEMMA BehindStays ==
  ASSUME Growing, NEW run \in Run, PlaceOf(run), Behind(run)
  PROVE  Behind(run)'
<1>1. /\ DOMAIN rows["source"] \subseteq DOMAIN rows'["source"]
      /\ \A i \in DOMAIN rows["source"] : rows'["source"][i] = rows["source"][i]
      /\ DOMAIN rows["object"] \subseteq DOMAIN rows'["object"]
      /\ \A i \in DOMAIN rows["object"] : rows'["object"][i] = rows["object"][i]
      /\ DOMAIN rows["relation"] \subseteq DOMAIN rows'["relation"]
      /\ \A i \in DOMAIN rows["relation"] : rows'["relation"][i] = rows["relation"][i]
  BY DEF Growing, Kinds
<1>2. Found("source", DemoSource) \subseteq Found("source", DemoSource)'
  BY <1>1 DEF Found, Same
<1>3. \A k : ObjectOf(k) \subseteq ObjectOf(k)'
  BY <1>1 DEF ObjectOf
<1>4. Offers \subseteq Offers'
  BY <1>1, <1>3 DEF Offers
<1>5. \A r \in Rules : rules[r] # NULL => rules'[r] # NULL
  BY DEF Growing
<1>6. run.at \in OfRule \cup {"rules"} => \A n \in 1 .. run.n - 1 : rules'[DemoRules[n]] # NULL
  <2> SUFFICES ASSUME run.at \in OfRule \cup {"rules"}, NEW n \in 1 .. run.n - 1
               PROVE  rules'[DemoRules[n]] # NULL
    OBVIOUS
  <2>1. n \in DOMAIN DemoRules
    BY DemoAssumption DEF PlaceOf, Run
  <2>2. rules[DemoRules[n]] # NULL
    BY DEF Behind
  <2>3. QED
    BY <1>5, <2>1, <2>2 DEF Rules
<1>7. QED
  BY <1>2, <1>3, <1>4, <1>5, <1>6 DEF Behind, Growing

LEMMA AsksStays ==
  ASSUME Growing, NEW run, NEW c, AsksFor(run, c)
  PROVE  AsksFor(run, c)'
<1>1. \A k : ObjectOf(k) \subseteq ObjectOf(k)'
  BY DEF Growing, Kinds, ObjectOf
<1>2. QED
  BY <1>1 DEF AsksFor

\* The indexes refuse a second row, whatever was inserted since the first was looked for.
LEMMA UniqueStays ==
  ASSUME Inv, [Next]_vars, RowsUnique
  PROVE  RowsUnique'
<1>1. CASE rows' = rows
  BY <1>1 DEF RowsUnique
<1>2. ASSUME NEW c \in Clients, Insert(c)
      PROVE  RowsUnique'
  <2>1. RegistryTypeOK
    BY DEF Inv, RegistryInv
  <2>2. /\ rows["source"] \in Seq(Sources) /\ rows["object"] \in Seq(Object)
        /\ rows["relation"] \in Seq(Relation)
    BY <2>1 DEF RegistryTypeOK
  <2>3. \A i, j \in DOMAIN rows'["source"] :
          rows'["source"][i].external = rows'["source"][j].external /\ rows'["source"][i].external # NULL => i = j
    <3>1. CASE rows'["source"] = rows["source"]
      BY <3>1 DEF RowsUnique
    <3>2. CASE rows'["source"] # rows["source"]
      <4>1. /\ request[c].kind = "source" /\ MayInsert(c)
            /\ DOMAIN rows'["source"] = DOMAIN rows["source"] \cup {Len(rows["source"]) + 1}
            /\ \A i \in DOMAIN rows["source"] : rows'["source"][i] = rows["source"][i]
            /\ rows'["source"][Len(rows["source"]) + 1] = request[c].row
        BY <1>2, <2>1, <3>2, InsertKeepsRows
      <4>2. request[c].row.external # NULL =>
              \A i \in DOMAIN rows["source"] : rows["source"][i].external # request[c].row.external
        BY <4>1 DEF MayInsert, Taken, Found, Same, SameSource
      <4>3. QED
        BY <4>1, <4>2 DEF RowsUnique
    <3>3. QED
      BY <3>1, <3>2
  <2>4. \A i, j \in DOMAIN rows'["object"] : rows'["object"][i].key = rows'["object"][j].key => i = j
    <3>1. CASE rows'["object"] = rows["object"]
      BY <3>1 DEF RowsUnique
    <3>2. CASE rows'["object"] # rows["object"]
      <4>1. /\ request[c].kind = "object" /\ MayInsert(c)
            /\ DOMAIN rows'["object"] = DOMAIN rows["object"] \cup {Len(rows["object"]) + 1}
            /\ \A i \in DOMAIN rows["object"] : rows'["object"][i] = rows["object"][i]
            /\ rows'["object"][Len(rows["object"]) + 1] = request[c].row
        BY <1>2, <2>1, <3>2, InsertKeepsRows
      <4>2. \A i \in DOMAIN rows["object"] : rows["object"][i].key # request[c].row.key
        BY <4>1 DEF MayInsert, Taken, Found, Same
      <4>3. QED
        BY <4>1, <4>2 DEF RowsUnique
    <3>3. QED
      BY <3>1, <3>2
  <2>5. \A i, j \in DOMAIN rows'["relation"] : rows'["relation"][i] = rows'["relation"][j] => i = j
    <3>1. CASE rows'["relation"] = rows["relation"]
      BY <3>1 DEF RowsUnique
    <3>2. CASE rows'["relation"] # rows["relation"]
      <4>1. /\ request[c].kind = "relation" /\ MayInsert(c)
            /\ DOMAIN rows'["relation"] = DOMAIN rows["relation"] \cup {Len(rows["relation"]) + 1}
            /\ \A i \in DOMAIN rows["relation"] : rows'["relation"][i] = rows["relation"][i]
            /\ rows'["relation"][Len(rows["relation"]) + 1] = request[c].row
        BY <1>2, <2>1, <3>2, InsertKeepsRows
      <4>2. \A i \in DOMAIN rows["relation"] : rows["relation"][i] # request[c].row
        BY <4>1 DEF MayInsert, Taken, Found, Same
      <4>3. QED
        BY <4>1, <4>2 DEF RowsUnique
    <3>3. QED
      BY <3>1, <3>2
  <2>6. QED
    BY <2>3, <2>4, <2>5 DEF RowsUnique
<1>3. QED
  BY <1>1, <1>2, RowsMove

\* A request that is answered leaves the row it asked for, found or inserted.
LEMMA Answered ==
  ASSUME Inv, Growing, NEW s \in Seeds, AsksFor(seed[s], request[s]),
         \/ Find(s) /\ request'[s] = Idle
         \/ Insert(s) /\ MayInsert(s)
  PROVE  /\ At(s, "source") => Found("source", DemoSource)' # {}
         /\ At(s, "objects") => \A n : n = seed[s].n => ObjectOf(DemoObjects[n].key)' # {}
         /\ At(s, "relation") => Offers' # {}
<1>1. s \in Clients /\ RegistryTypeOK /\ request[s].step # "idle"
  BY DemoAssumption DEF Inv, RegistryInv, Find, Insert
<1>2. PICK c : c = request[s]
  OBVIOUS
<1>3. c \in Looking({"find", "insert"}) /\ c.kind \in Kinds
  BY <1>1, <1>2 DEF RegistryTypeOK, Looking, Idle, Kinds
<1>4. Same(c.kind, c.row, c.row)
  BY <1>1, <1>2, <1>3, DemoFits DEF AsksFor, Same, SameSource
<1>5. \E i \in DOMAIN rows'[c.kind] : Same(c.kind, rows'[c.kind][i], c.row)
  <2>1. CASE Find(s) /\ request'[s] = Idle
    <3>1. [c EXCEPT !.step = "insert"] # Idle
      BY <1>3 DEF Idle, Looking
    <3>2. Found(c.kind, c.row) # {}
      BY <1>1, <1>2, <2>1, <3>1 DEF Find, RegistryTypeOK
    <3>3. PICK i \in DOMAIN rows[c.kind] : Same(c.kind, rows[c.kind][i], c.row)
      BY <3>2 DEF Found
    <3>4. QED
      BY <2>1, <3>3 DEF Find
  <2>2. CASE Insert(s) /\ MayInsert(s)
    <3>1. rows'[c.kind] = Append(rows[c.kind], c.row)
      BY <1>1, <1>2, <1>3, <2>2 DEF Insert, RegistryTypeOK, Kinds
    <3>2. PICK S : rows[c.kind] \in Seq(S)
      BY <1>1, <1>3 DEF RegistryTypeOK, Kinds
    <3>3. /\ Len(rows[c.kind]) + 1 \in DOMAIN Append(rows[c.kind], c.row)
          /\ Append(rows[c.kind], c.row)[Len(rows[c.kind]) + 1] = c.row
      BY <3>2
    <3>4. QED
      BY <1>4, <3>1, <3>3
  <2>3. QED
    BY <2>1, <2>2
<1>6. At(s, "source") => Found("source", DemoSource)' # {}
  BY <1>1, <1>2, <1>5 DEF AsksFor, At, Found, Same
<1>7. At(s, "objects") => \A n : n = seed[s].n => ObjectOf(DemoObjects[n].key)' # {}
  BY <1>1, <1>2, <1>5 DEF AsksFor, At, ObjectOf, Same
<1>8. At(s, "relation") => Offers' # {}
  <2> SUFFICES ASSUME At(s, "relation") PROVE Offers' # {}
    OBVIOUS
  <2>1. \A k : ObjectOf(k) \subseteq ObjectOf(k)'
    BY DEF Growing, Kinds, ObjectOf
  <2>2. /\ c.kind = "relation" /\ c.row.predicate = DemoRelation.predicate
        /\ c.row.subject \in ObjectOf(DemoRelation.subject)'
        /\ c.row.object \in ObjectOf(DemoRelation.object)'
    BY <1>1, <1>2, <2>1 DEF AsksFor, At
  <2>3. PICK i \in DOMAIN rows'["relation"] : rows'["relation"][i] = c.row
    BY <1>5, <2>2 DEF Same
  <2>4. i \in Offers'
    BY <2>2, <2>3 DEF Offers
  <2>5. QED
    BY <2>4
<1>9. QED
  BY <1>6, <1>7, <1>8

\* A run that moves on has ensured what it leaves behind.
LEMMA NextRuleBehind ==
  ASSUME Inv, NEW s \in Seeds, NEW run \in Run, run = seed[s], PlaceOf(run),
         run.at \in OfRule \cup {"rules"}, Behind(run)', NextRule(s),
         rules'[DemoRules[run.n]] # NULL, NEW new, new = seed'[s]
  PROVE  Behind(new)'
<1>1. /\ DemoRules \in Seq(STRING) /\ run.n \in 1 .. Len(DemoRules)
      /\ DOMAIN DemoRules = 1 .. Len(DemoRules) /\ Len(DemoRules) \in Nat
  BY DemoAssumption DEF PlaceOf
<1>2. \A n \in 1 .. run.n : rules'[DemoRules[n]] # NULL
  BY <1>1 DEF Behind
<1>3. CASE run.n < Len(DemoRules)
  <2>1. new.at = "rules" /\ new.n = run.n + 1
    BY <1>3 DEF NextRule, Repeat, Inv, SeedsTyped, Run
  <2>2. \A n \in 1 .. new.n - 1 : rules'[DemoRules[n]] # NULL
    BY <1>1, <1>2, <2>1
  <2>3. QED
    BY <2>1, <2>2 DEF Behind, AfterSource, AfterObjects, AfterFact, AfterRelation, OfRule
<1>4. CASE ~(run.n < Len(DemoRules))
  <2>1. new.at = "done"
    BY <1>4 DEF NextRule, Goto, RunAt, Inv, SeedsTyped
  <2>2. \A r \in Rules : rules'[r] # NULL
    BY <1>1, <1>2, <1>4 DEF Rules
  <2>3. QED
    BY <2>1, <2>2 DEF Behind, AfterSource, AfterObjects, AfterFact, AfterRelation, OfRule
<1>5. QED
  BY <1>3, <1>4

LEMMA AnswerBehind ==
  ASSUME Inv, Growing, NEW s \in Seeds, NEW run \in Run, run = seed[s],
         PlaceOf(run), Behind(run)', AsksFor(seed[s], request[s]), AfterAnswer(s),
         \/ Find(s) /\ request'[s] = Idle
         \/ Insert(s) /\ MayInsert(s),
         NEW new, new = seed'[s]
  PROVE  Behind(new)'
<1> USE DEF AfterSource, AfterObjects, AfterFact, AfterRelation, OfRule
<1>1. /\ run.at = "source" => Found("source", DemoSource)' # {}
      /\ run.at = "objects" => ObjectOf(DemoObjects[run.n].key)' # {}
      /\ run.at = "relation" => Offers' # {}
  BY Answered DEF At
<1>2. CASE At(s, "source") /\ Goto(s, "objects")
  <2>1. new.at = "objects" /\ new.n = 1
    BY <1>2 DEF Goto, RunAt, Inv, SeedsTyped
  <2>2. QED
    BY <1>1, <1>2, <2>1 DEF Behind, At
<1>3. CASE At(s, "objects") /\ seed[s].n < Len(DemoObjects) /\ Repeat(s, "objects")
  <2>1. new.at = "objects" /\ new.n = run.n + 1 /\ run.n \in Nat
    BY <1>3 DEF Repeat, Inv, SeedsTyped, Run
  <2>2. \A n \in 1 .. new.n - 1 : ObjectOf(DemoObjects[n].key)' # {}
    <3>1. \A n \in 1 .. run.n - 1 : ObjectOf(DemoObjects[n].key)' # {}
      BY <1>3 DEF Behind, At
    <3>2. \A n \in 1 .. new.n - 1 : n \in 1 .. run.n - 1 \/ n = run.n
      BY <2>1
    <3>3. QED
      BY <1>1, <1>3, <3>1, <3>2 DEF At
  <2>3. QED
    BY <1>3, <2>1, <2>2 DEF Behind, At
<1>4. CASE At(s, "objects") /\ seed[s].n >= Len(DemoObjects) /\ Goto(s, "fact")
  <2>1. new.at = "fact"
    BY <1>4 DEF Goto, RunAt, Inv, SeedsTyped
  <2>2. \A n \in DOMAIN DemoObjects : ObjectOf(DemoObjects[n].key)' # {}
    <3>1. \A n \in 1 .. run.n - 1 : ObjectOf(DemoObjects[n].key)' # {}
      BY <1>4 DEF Behind, At
    <3>2. \A n \in DOMAIN DemoObjects : n \in 1 .. run.n - 1 \/ n = run.n
      BY <1>4, DemoAssumption DEF PlaceOf, At
    <3>3. QED
      BY <1>1, <1>4, <3>1, <3>2 DEF At
  <2>3. QED
    BY <1>4, <2>1, <2>2 DEF Behind, At
<1>5. CASE At(s, "relation") /\ Goto(s, "rules")
  <2>1. new.at = "rules" /\ new.n = 1
    BY <1>5 DEF Goto, RunAt, Inv, SeedsTyped
  <2>2. QED
    BY <1>1, <1>5, <2>1 DEF Behind, At
<1>6. QED
  BY <1>2, <1>3, <1>4, <1>5 DEF AfterAnswer

LEMMA ScriptBehind ==
  ASSUME Inv, Growing, NEW s \in Seeds, Work(s) \/ Stop(s),
         Behind(seed[s]), AsksFor(seed[s], request[s]), NEW new, new = seed'[s]
  PROVE  Behind(new)'
<1> USE DEF AfterSource, AfterObjects, AfterFact, AfterRelation, OfRule
<1>1. PICK run \in Run : run = seed[s] /\ PlaceOf(run) /\ Behind(run)
  BY DEF Inv, SeedsTyped, RunsInPlace
<1>2. Behind(run)'
  BY <1>1, BehindStays
<1>3. CASE new.at \in {"idle", "failed", "define", "add", "activate", "source"}
  BY <1>3 DEF Behind
<1>4. CASE new = run
  BY <1>2, <1>4
<1>5. CASE Await(s)
  <2>1. CASE Insert(s) /\ ~MayInsert(s)
    <3>1. new.at = "failed"
      BY <1>5, <2>1 DEF Await, Find, Insert, Fail, Goto, RunAt, Inv, SeedsTyped
    <3>2. QED
      BY <1>3, <3>1
  <2>2. CASE Find(s) /\ request'[s] # Idle
    BY <1>1, <1>4, <1>5, <2>2 DEF Await, Find, Insert
  <2>3. CASE \/ Find(s) /\ request'[s] = Idle
             \/ Insert(s) /\ MayInsert(s)
    <3>1. AfterAnswer(s)
      BY <1>5, <2>3 DEF Await, Find, Insert
    <3>2. QED
      BY <1>1, <1>2, <2>3, <3>1, AnswerBehind
  <2>4. QED
    BY <1>5, <2>1, <2>2, <2>3 DEF Await
<1>6. CASE EnsureFact(s) \/ AcceptFact(s)
  <2>1. CASE Fail(s)
    <3>1. new.at = "failed"
      BY <2>1 DEF Fail, Goto, RunAt, Inv, SeedsTyped
    <3>2. QED
      BY <1>3, <3>1
  <2>2. CASE EnsureFact(s) /\ Goto(s, "accept")
    <3>1. new.at = "accept"
      BY <2>2 DEF Goto, RunAt, Inv, SeedsTyped
    <3>2. QED
      BY <1>1, <1>2, <2>2, <3>1 DEF Behind, EnsureFact, At
  <2>3. CASE Goto(s, "relation") /\ Recorded("demo")'
    <3>1. new.at = "relation"
      BY <2>3 DEF Goto, RunAt, Inv, SeedsTyped
    <3>2. QED
      BY <1>1, <1>2, <1>6, <2>3, <3>1 DEF Behind, EnsureFact, AcceptFact, At
  <2>4. CASE EnsureFact(s) /\ CurrentFact = "demo" /\ Goto(s, "relation")
    <3>1. Recorded("demo")
      <4>1. facts # <<>> /\ facts[Len(facts)] = "demo"
        BY <2>4 DEF CurrentFact, NULL
      <4>2. Len(facts) \in DOMAIN facts
        BY <4>1 DEF Inv, DemoTyped
      <4>3. QED
        BY <4>1, <4>2 DEF Recorded
    <3>2. QED
      BY <2>3, <2>4, <3>1 DEF Growing
  <2>5. CASE AcceptFact(s) /\ ~Fail(s)
    <3>1. Record("demo") /\ Goto(s, "relation")
      BY <2>5 DEF AcceptFact
    <3>2. QED
      BY <2>3, <3>1, RecordGrows DEF Inv, DemoTyped
  <2>6. QED
    BY <1>6, <2>1, <2>2, <2>4, <2>5 DEF EnsureFact
<1>7. CASE EnsureRelation(s)
  <2>1. CASE Fail(s)
    <3>1. new.at = "failed"
      BY <2>1 DEF Fail, Goto, RunAt, Inv, SeedsTyped
    <3>2. QED
      BY <1>3, <3>1
  <2>2. CASE Offers # {} /\ Goto(s, "rules")
    <3>1. new.at = "rules" /\ new.n = 1
      BY <2>2 DEF Goto, RunAt, Inv, SeedsTyped
    <3>2. Offers' # {}
      BY <1>7, <2>2 DEF EnsureRelation, registryVars, Offers, ObjectOf
    <3>3. QED
      BY <1>1, <1>2, <1>7, <3>1, <3>2 DEF Behind, EnsureRelation, At
  <2>3. QED
    BY <1>7, <2>1, <2>2 DEF EnsureRelation
<1>8. CASE EnsureRule(s) \/ WorkOnRule(s)
  <2>1. run.at \in OfRule \cup {"rules"} /\ run.n \in DOMAIN DemoRules
    BY <1>1, <1>8 DEF EnsureRule, WorkOnRule, At, PlaceOf
  <2>2. DemoRules[run.n] \in Rules /\ RuleOf(s) = DemoRules[run.n]
    BY <1>1, <2>1 DEF Rules, RuleOf
  <2>3. rules'[DemoRules[run.n]] # NULL
    BY <1>8, <2>2 DEF EnsureRule, WorkOnRule, RuleExists, Inv, DemoTyped, NULL
  <2>4. CASE NextRule(s)
    BY <1>1, <1>2, <2>1, <2>3, <2>4, NextRuleBehind
  <2>5. CASE \E stage \in OfRule : seed' = [seed EXCEPT ![s].at = stage]
    <3>1. new.at \in OfRule /\ new.n = run.n
      BY <1>1, <2>5 DEF Inv, SeedsTyped, Run
    <3>2. QED
      BY <1>2, <2>1, <3>1 DEF Behind
  <2>6. QED
    BY <1>8, <2>4, <2>5 DEF EnsureRule, WorkOnRule
<1>9. CASE Start(s) \/ ReadDefinitions(s) \/ AddDefinition(s) \/ ActivateOntology(s) \/ Stop(s)
  <2>1. CASE Start(s) \/ ActivateOntology(s) \/ Stop(s)
    <3>1. PICK stage \in {"idle", "failed", "define", "source"} :
            \E status : seed' = [seed EXCEPT ![s] = RunAt(stage, status)]
      BY <2>1, Zenon DEF Start, ActivateOntology, Stop, Fail, Goto
    <3>2. new.at = stage
      BY <3>1 DEF RunAt, Inv, SeedsTyped
    <3>3. QED
      BY <1>3, <3>2
  <2>2. \A missing : Defining(run, missing).at \in {"define", "add", "activate"}
    <3> SUFFICES ASSUME NEW missing
                 PROVE  Defining(run, missing).at \in {"define", "add", "activate"}
      OBVIOUS
    <3>1. run.n \in Nat /\ Len(DemoCodes) \in Nat
      BY <1>1, DemoAssumption DEF Run
    <3>2. CASE missing # {}
      BY <3>2 DEF Defining, Run
    <3>3. CASE missing = {} /\ run.n < Len(DemoCodes)
      BY <3>1, <3>3 DEF Defining, Run
    <3>4. CASE missing = {} /\ run.n >= Len(DemoCodes)
      BY <3>1, <3>4 DEF Defining, Run
    <3>5. QED
      BY <3>1, <3>2, <3>3, <3>4
  <2>3. CASE ReadDefinitions(s)
    <3>1. \E missing : new = Defining(run, missing)
      BY <1>1, <2>3 DEF ReadDefinitions, Inv, SeedsTyped
    <3>2. QED
      BY <1>3, <2>2, <3>1
  <2>4. CASE AddDefinition(s)
    <3>1. Fail(s) \/ \E missing : seed' = [seed EXCEPT ![s] = Defining(@, missing)]
      BY <2>4 DEF AddDefinition, Inv, SeedsTyped
    <3>2. new.at = "failed" \/ \E missing : new = Defining(run, missing)
      BY <1>1, <3>1 DEF Fail, Goto, RunAt, Inv, SeedsTyped
    <3>3. QED
      BY <1>3, <2>2, <3>2
  <2>5. QED
    BY <1>9, <2>1, <2>3, <2>4
<1>10. CASE Ask(s)
  BY <1>1, <1>4, <1>10 DEF Ask
<1>11. QED
  BY <1>5, <1>6, <1>7, <1>8, <1>9, <1>10 DEF Work

LEMMA ScriptAsks ==
  ASSUME Inv, Growing, NEW s \in Seeds, Work(s) \/ Stop(s), AsksFor(seed[s], request[s]),
         NEW new, new = seed'[s], NEW c, c = request'[s]
  PROVE  AsksFor(new, c)'
<1>1. PICK run \in Run : run = seed[s] /\ PlaceOf(run)
  BY DEF Inv, SeedsTyped, RunsInPlace
<1>2. PICK d : d = request[s]
  OBVIOUS
<1>3. AsksFor(run, d) /\ AsksFor(run, d)'
  BY <1>1, <1>2, AsksStays
<1>4. s \in Clients /\ RegistryTypeOK
  BY DemoAssumption DEF Inv, RegistryInv
<1>5. CASE c.step = "idle"
  BY <1>5 DEF AsksFor
<1>6. CASE Ask(s)
  <2>1. new = run
    BY <1>1, <1>6 DEF Ask
  <2>2. CASE At(s, "source") /\ CreateSource(s, DemoSource)
    <3>1. c = [step |-> "find", kind |-> "source", row |-> DemoSource]
      BY <1>4, <2>2 DEF CreateSource, Begin, RegistryTypeOK
    <3>2. QED
      BY <1>1, <2>1, <2>2, <3>1 DEF AsksFor, At
  <2>3. CASE /\ At(s, "objects")
             /\ LET object == DemoObjects[seed[s].n]
                IN  CreateObject(s, object.key, object.type, DemoVersion)
    <3>1. c = [step |-> "find", kind |-> "object",
               row |-> [key |-> DemoObjects[run.n].key, type |-> DemoObjects[run.n].type]]
      BY <1>1, <1>4, <2>3 DEF CreateObject, Begin, RegistryTypeOK
    <3>2. QED
      BY <1>1, <2>1, <2>3, <3>1 DEF AsksFor, At
  <2>4. CASE /\ At(s, "relation")
             /\ \E subject \in ObjectOf(DemoRelation.subject), object \in ObjectOf(DemoRelation.object) :
                  CreateRelation(s, subject, DemoRelation.predicate, object, DemoVersion)
    <3>1. PICK subject \in ObjectOf(DemoRelation.subject), object \in ObjectOf(DemoRelation.object) :
            CreateRelation(s, subject, DemoRelation.predicate, object, DemoVersion)
      BY <2>4
    <3>2. c = [step |-> "find", kind |-> "relation",
               row |-> [subject |-> subject, predicate |-> DemoRelation.predicate, object |-> object]]
      BY <1>4, <3>1 DEF CreateRelation, Begin, RegistryTypeOK
    <3>3. subject \in ObjectOf(DemoRelation.subject)' /\ object \in ObjectOf(DemoRelation.object)'
      BY <3>1 DEF CreateRelation, Begin, ObjectOf
    <3>4. QED
      BY <1>1, <2>1, <2>4, <3>2, <3>3 DEF AsksFor, At
  <2>5. QED
    BY <1>6, <2>2, <2>3, <2>4 DEF Ask
<1>7. CASE Await(s)
  <2>1. CASE Insert(s)
    <3>1. c.step = "idle"
      BY <1>4, <2>1 DEF Insert, RegistryTypeOK, Idle
    <3>2. QED
      BY <1>5, <3>1
  <2>2. CASE Find(s) /\ c # Idle
    <3>1. new = run
      BY <1>1, <1>7, <2>2 DEF Await, Find, Insert
    <3>2. d \in Looking({"find", "insert"})
      BY <1>2, <1>4, <2>2 DEF RegistryTypeOK, Find, Idle
    <3>3. c = [d EXCEPT !.step = "insert"]
      BY <1>2, <1>4, <2>2 DEF Find, RegistryTypeOK
    <3>4. c.kind = d.kind /\ c.row = d.row /\ d.step # "idle"
      BY <3>2, <3>3 DEF Looking
    <3>5. QED
      BY <1>3, <3>1, <3>4 DEF AsksFor
  <2>3. CASE c = Idle
    BY <1>5, <2>3 DEF Idle
  <2>4. QED
    BY <1>7, <2>1, <2>2, <2>3 DEF Await
<1>8. CASE Stop(s)
  BY <1>4, <1>5, <1>8 DEF Stop, Idle, RegistryTypeOK
<1>9. CASE ~Ask(s) /\ ~Await(s) /\ Work(s)
  <2>1. run.at \notin {"source", "objects", "relation"} \/ d.step = "idle"
    BY <1>1, <1>2, <1>9
       DEF Work, Start, ReadDefinitions, AddDefinition, ActivateOntology, EnsureFact, AcceptFact,
           EnsureRelation, EnsureRule, WorkOnRule, At, Ended
  <2>2. c = d
    BY <1>2, <1>9
       DEF Work, Start, ReadDefinitions, AddDefinition, ActivateOntology, EnsureFact, AcceptFact,
           EnsureRelation, EnsureRule, WorkOnRule, registryVars
  <2>3. c.step = "idle"
    BY <1>3, <2>1, <2>2 DEF AsksFor
  <2>4. QED
    BY <1>5, <2>3
<1>10. QED
  BY <1>6, <1>7, <1>8, <1>9

LEMMA RunsKeepAsking ==
  ASSUME Inv, [Next]_vars, RunsAsk
  PROVE  RunsAsk'
<1>1. Growing
  BY Growth
<1> SUFFICES ASSUME NEW t \in Seeds PROVE AsksFor(seed[t], request[t])'
  BY DEF RunsAsk
<1>2. PICK new : new = seed'[t]
  OBVIOUS
<1>3. PICK c : c = request'[t]
  OBVIOUS
<1>4. AsksFor(new, c)'
  <2>1. CASE seed'[t] = seed[t] /\ request'[t] = request[t]
    BY <1>1, <1>2, <1>3, <2>1, AsksStays DEF RunsAsk
  <2>2. CASE Work(t) \/ Stop(t)
    BY <1>1, <1>2, <1>3, <2>2, ScriptAsks DEF RunsAsk
  <2>3. QED
    BY <2>1, <2>2, RunsApart, ClientsApart DEF Next, vars, registryVars
<1>5. QED
  BY <1>2, <1>3, <1>4 DEF AsksFor

LEMMA RunsStayBehind ==
  ASSUME Inv, Inv', [Next]_vars, RunsAsk, RunsHaveBehind
  PROVE  RunsHaveBehind'
<1>1. Growing
  BY Growth
<1> SUFFICES ASSUME NEW t \in Seeds PROVE Behind(seed[t])'
  BY DEF RunsHaveBehind
<1>2. PICK new : new = seed'[t]
  OBVIOUS
<1>3. Behind(new)'
  <2>1. CASE seed'[t] = seed[t]
    <3>1. new \in Run /\ PlaceOf(new) /\ Behind(new)
      BY <1>2, <2>1 DEF RunsHaveBehind, Inv, SeedsTyped, RunsInPlace
    <3>2. QED
      BY <1>1, <3>1, BehindStays
  <2>2. CASE Work(t) \/ Stop(t)
    BY <1>1, <1>2, <2>2, ScriptBehind DEF RunsAsk, RunsHaveBehind
  <2>3. QED
    BY <2>1, <2>2, RunsApart, ClientsApart DEF Next, vars
<1>4. QED
  BY <1>2, <1>3 DEF Behind

\* Only who works on a rule changes it, and who leaves it is noted.
LEMMA RulesStayAccounted ==
  ASSUME Inv, [Next]_vars, RulesAccounted, RunsAsk
  PROVE  RulesAccounted'
<1> SUFFICES ASSUME NEW r \in Rules, rules'[r] # NULL
             PROVE  rules'[r] = "ACTIVE" \/ r \in abandoned' \/ WorkedOn(r)'
  BY DEF RulesAccounted
<1>1. ASSUME NEW t \in Seeds, seed[t].at \in OfRule, RuleOf(t) = r, seed'[t] = seed[t]
      PROVE  WorkedOn(r)'
  BY <1>1 DEF WorkedOn, RuleOf
<1>2. abandoned \subseteq abandoned'
  BY DEF Next, Stop, vars
<1>3. ASSUME NEW s \in Seeds, EnsureRule(s) \/ WorkOnRule(s)
      PROVE  rules'[r] = "ACTIVE" \/ r \in abandoned' \/ WorkedOn(r)'
  <2>1. PICK run \in Run : run = seed[s] /\ PlaceOf(run) /\ run.at \in OfRule \cup {"rules"}
    BY <1>3 DEF Inv, SeedsTyped, RunsInPlace, EnsureRule, WorkOnRule, At, OfRule
  <2>2. RuleOf(s) \in Rules
    BY <2>1 DEF PlaceOf, RuleOf, Rules
  <2>3. CASE r = RuleOf(s) /\ rules' # rules
    <3>1. CASE rules'[r] = "ACTIVE"
      BY <3>1
    <3>2. CASE \E stage \in OfRule : seed' = [seed EXCEPT ![s].at = stage]
      <4>1. seed'[s].at \in OfRule /\ seed'[s].n = seed[s].n
        BY <2>1, <3>2 DEF Inv, SeedsTyped, Run
      <4>2. QED
        BY <2>3, <4>1 DEF WorkedOn, RuleOf
    <3>3. QED
      BY <1>3, <2>2, <2>3, <3>1, <3>2 DEF EnsureRule, WorkOnRule, OfRule, Inv, DemoTyped
  <2>4. CASE r # RuleOf(s) \/ rules' = rules
    <3>1. rules'[r] = rules[r]
      BY <1>3, <2>2, <2>4 DEF EnsureRule, WorkOnRule, Inv, DemoTyped
    <3>2. CASE rules[r] = "ACTIVE" \/ r \in abandoned
      BY <1>2, <3>1, <3>2
    <3>3. ASSUME NEW t \in Seeds, seed[t].at \in OfRule, RuleOf(t) = r
          PROVE  rules'[r] = "ACTIVE" \/ r \in abandoned' \/ WorkedOn(r)'
      <4>1. CASE t # s
        BY <1>1, <1>3, <3>3, <4>1, RunsApart DEF Work
      <4>2. CASE t = s
        <5>1. r = RuleOf(s) /\ rules' = rules /\ WorkOnRule(s)
          BY <1>3, <2>4, <3>3, <4>2 DEF EnsureRule, At, OfRule
        <5>2. CASE At(s, "activate rule")
          <6>1. rules'[r] = "ACTIVE"
            BY <2>2, <5>1, <5>2 DEF WorkOnRule, At, Inv, DemoTyped
          <6>2. QED
            BY <6>1
        <5>3. CASE At(s, "validate") \/ At(s, "test")
          <6>1. \E stage \in {"test", "activate rule"} : seed' = [seed EXCEPT ![s].at = stage]
            BY <5>1, <5>3 DEF WorkOnRule, At
          <6>2. seed'[s].at \in OfRule /\ seed'[s].n = seed[s].n
            BY <2>1, <6>1 DEF Inv, SeedsTyped, Run, OfRule
          <6>3. QED
            BY <5>1, <6>2 DEF WorkedOn, RuleOf
        <5>4. QED
          BY <5>1, <5>2, <5>3 DEF WorkOnRule
      <4>3. QED
        BY <4>1, <4>2
    <3>4. QED
      BY <3>1, <3>2, <3>3 DEF RulesAccounted, WorkedOn
  <2>5. QED
    BY <2>3, <2>4
<1>4. CASE rules' = rules /\ \A s \in Seeds : ~EnsureRule(s) /\ ~WorkOnRule(s)
  <2>1. CASE rules[r] = "ACTIVE" \/ r \in abandoned
    BY <1>2, <1>4, <2>1
  <2>2. ASSUME NEW t \in Seeds, seed[t].at \in OfRule, RuleOf(t) = r
        PROVE  r \in abandoned' \/ WorkedOn(r)'
    <3>1. CASE Stop(t)
      <4>1. abandoned' = abandoned \cup {RuleOf(t)} \/ seed'[t] = seed[t]
        BY <2>2, <3>1 DEF Stop
      <4>2. QED
        BY <1>1, <2>2, <4>1
    <3>2. CASE Work(t)
      <4>1. ~Await(t)
        BY <2>2 DEF RunsAsk, AsksFor, OfRule, Await, Find, Insert
      <4>2. Ask(t)
        BY <1>4, <2>2, <3>2, <4>1
           DEF Work, Start, ReadDefinitions, AddDefinition, ActivateOntology, EnsureFact, AcceptFact,
               EnsureRelation, At, OfRule, Ended
      <4>3. seed'[t] = seed[t]
        BY <4>2 DEF Ask
      <4>4. QED
        BY <1>1, <2>2, <4>3
    <3>3. CASE ~Work(t) /\ ~Stop(t)
      <4>1. seed'[t] = seed[t]
        BY <3>3, RunsApart, ClientsApart DEF Next, vars
      <4>2. QED
        BY <1>1, <2>2, <4>1
    <3>4. QED
      BY <3>1, <3>2, <3>3
  <2>3. QED
    BY <1>4, <2>1, <2>2 DEF RulesAccounted, WorkedOn
<1>5. QED
  BY <1>3, <1>4, RulesMove

\* _ensure_...: whatever runs overlap, are stopped and start again, a run that ends without
\* an error leaves each thing of the demonstration there, and there once.  The demonstration's
\* source has an external identifier: of a source without one nothing keeps a second row away.
THEOREM Complete == Spec => []SeedIsComplete
<1>1. Init => CompleteInv
  <2> SUFFICES ASSUME Init PROVE CompleteInv
    OBVIOUS
  <2>1. RowsUnique
    BY DEF Init, RegistryInit, RowsUnique
  <2>2. RulesAccounted
    BY DEF Init, RulesAccounted
  <2>3. ASSUME NEW s \in Seeds
        PROVE  Behind(seed[s]) /\ AsksFor(seed[s], request[s])
    <3>1. seed[s].at = "idle" /\ request[s].step = "idle"
      BY DemoAssumption DEF Init, RegistryInit, RunAt, Idle
    <3>2. QED
      BY <3>1 DEF Behind, AsksFor, AfterSource, AfterObjects, AfterFact, AfterRelation, OfRule
  <2>4. QED
    BY <2>1, <2>2, <2>3 DEF CompleteInv, RunsAsk, RunsHaveBehind
<1>2. CompleteInv /\ Inv /\ Inv' /\ [Next]_vars => CompleteInv'
  BY UniqueStays, RulesStayAccounted, RunsKeepAsking, RunsStayBehind DEF CompleteInv
<1>3. CompleteInv /\ Inv => SeedIsComplete
  <2> SUFFICES ASSUME CompleteInv, Inv, NEW s \in Seeds, At(s, "done")
               PROVE  /\ \E i \in DOMAIN rows["source"] : Found("source", DemoSource) = {i}
                      /\ \A n \in DOMAIN DemoObjects :
                           \E i \in DOMAIN rows["object"] : ObjectOf(DemoObjects[n].key) = {i}
                      /\ \E i \in DOMAIN rows["relation"] : Offers = {i}
                      /\ Recorded("demo")
                      /\ \A r \in Rules :
                           \/ rules[r] = "ACTIVE"
                           \/ rules[r] # NULL /\ r \in abandoned
                           \/ rules[r] # NULL /\ WorkedOn(r)
    BY Zenon DEF SeedIsComplete, WorkedOn
  <2>1. /\ Found("source", DemoSource) # {}
        /\ \A n \in DOMAIN DemoObjects : ObjectOf(DemoObjects[n].key) # {}
        /\ Recorded("demo") /\ Offers # {}
        /\ \A r \in Rules : rules[r] # NULL
    BY DEF CompleteInv, RunsHaveBehind, Behind, At, AfterSource, AfterObjects, AfterFact,
           AfterRelation
  <2>2. \E i \in DOMAIN rows["source"] : Found("source", DemoSource) = {i}
    <3>1. PICK i \in DOMAIN rows["source"] : i \in Found("source", DemoSource)
      BY <2>1 DEF Found
    <3>2. \A j \in Found("source", DemoSource) : j = i
      BY <3>1, DemoFits DEF Found, Same, SameSource, CompleteInv, RowsUnique
    <3>3. QED
      BY <3>1, <3>2
  <2>3. ASSUME NEW key, ObjectOf(key) # {}
        PROVE  \E i \in DOMAIN rows["object"] : ObjectOf(key) = {i}
    <3>1. PICK i \in DOMAIN rows["object"] : i \in ObjectOf(key)
      BY <2>3 DEF ObjectOf
    <3>2. \A j \in ObjectOf(key) : j = i
      BY <3>1 DEF ObjectOf, CompleteInv, RowsUnique
    <3>3. QED
      BY <3>1, <3>2
  <2>4. \E i \in DOMAIN rows["relation"] : Offers = {i}
    <3>1. PICK i \in DOMAIN rows["relation"] : i \in Offers
      BY <2>1 DEF Offers
    <3>2. ASSUME NEW j \in Offers
          PROVE  j = i
      <4>1. /\ j \in DOMAIN rows["relation"]
            /\ rows["relation"][i] \in Relation /\ rows["relation"][j] \in Relation
        BY <3>1 DEF Offers, Inv, RegistryInv, RegistryTypeOK
      <4>2. /\ rows["relation"][i].subject = rows["relation"][j].subject
            /\ rows["relation"][i].object = rows["relation"][j].object
            /\ rows["relation"][i].predicate = rows["relation"][j].predicate
        BY <2>3, <3>1 DEF Offers
      <4>3. rows["relation"][i] = rows["relation"][j]
        BY <4>1, <4>2 DEF Relation
      <4>4. QED
        BY <3>1, <4>1, <4>3 DEF CompleteInv, RowsUnique
    <3>3. QED
      BY <3>1, <3>2
  <2>5. QED
    BY <2>1, <2>2, <2>3, <2>4 DEF CompleteInv, RulesAccounted
<1>4. QED
  BY <1>1, <1>2, <1>3, AlwaysInv, PTL DEF Spec

-----------------------------------------------------------------------------
(* What stands in the way of a run.                                        *)

BeforeActive == {"define", "add", "activate"}

\* Obstructed, but for the time before there is any version: a run gets over that.
Barred ==
  \/ Demo.status = "NONE" /\ \E v \in Versions : ontology[v].status # "NONE"
  \/ Demo.status # "NONE" /\ Obstructed

OneActive == \A v, w \in Active : v = w

\* How far a run has brought the version of the demonstration, whoever interferes.
Advanced(run) ==
  /\ run.at \notin Ended => Demo.status # "NONE"
  /\ run.status = "ACTIVE" \/ run.at \notin Ended \cup BeforeActive =>
       Demo.status \in {"ACTIVE", "SUPERSEDED"}
  /\ run.at = "add" => run.missing \subseteq AllDemoCodes

\* What a run still can rely on if nobody else has committed anything since it began.
Undisturbed(run, c) ==
  /\ run.at = "failed" => Barred
  /\ run.at = "add" => run.missing \cap Demo.codes = {}
  /\ c.step = "insert" => Found(c.kind, c.row) = {}
  /\ run.at = "accept" => Barred \/ observation \in {"RAW", "MAPPED"}

\* An observation that waits for a review was made when the demonstration's version was
\* superseded or activated unfinished.
ObservationJustified ==
  /\ observation = "NEEDS_REVIEW" => Barred
  /\ observation = "ACCEPTED" => Recorded("demo")

RepeatInv ==
  /\ OneActive
  /\ ObservationJustified
  /\ RunsAsk
  /\ \A s \in Seeds : Advanced(seed[s])
  /\ \A s \in Seeds \ touched : Undisturbed(seed[s], request[s])

\* What steps do to the versions.
Evolves ==
  \/ ontology' = ontology
  \/ /\ \A v \in Versions : ontology[v].status = "NONE"
     /\ ontology' = [ontology EXCEPT ![DemoVersion].status = "DRAFT"]
  \/ /\ Demo.status \notin {"NONE", "ACTIVE"}
     /\ \E code : ontology' = [ontology EXCEPT ![DemoVersion].codes = @ \cup {code}]
  \/ Demo.status = "DRAFT" /\ ontology' = Activated(DemoVersion)
  \/ \E v \in Versions : \E codes \in SUBSET Codes :
       /\ v # DemoVersion /\ ontology[v].status = "NONE"
       /\ ontology' = [Activated(v) EXCEPT ![v].codes = codes]

LEMMA VersionsMove ==
  ASSUME Inv, [Next]_vars, \A s \in Seeds : Advanced(seed[s])
  PROVE  Evolves
<1>1. ASSUME NEW s \in Seeds, Work(s)
      PROVE  Evolves
  <2>1. CASE AddDefinition(s)
    BY <2>1 DEF AddDefinition, Evolves, Advanced, At, Ended
  <2>2. CASE Start(s) \/ ActivateOntology(s)
    BY <2>2 DEF Start, ActivateOntology, Evolves
  <2>3. CASE ontology' = ontology
    BY <2>3 DEF Evolves
  <2>4. QED
    BY <1>1, <2>1, <2>2, <2>3
       DEF Work, ReadDefinitions, Ask, Await, EnsureFact, AcceptFact, EnsureRelation, EnsureRule,
           WorkOnRule, registryVars, CreateSource, CreateObject, CreateRelation, Begin, Find, Insert
<1>2. CASE \E s \in Seeds : Stop(s)
  BY <1>2 DEF Stop, Evolves
<1>3. CASE Others
  <2>1. CASE ActivateVersion
    BY <2>1 DEF ActivateVersion, Evolves
  <2>2. ASSUME NEW v \in Versions, SwitchVersion(v)
        PROVE  Evolves
    <3>1. {} \in SUBSET Codes /\ AllDemoCodes \in SUBSET Codes
      BY DemoAssumption DEF AllDemoCodes
    <3>2. PICK codes \in SUBSET Codes :
            /\ v # DemoVersion /\ ontology[v].status = "NONE"
            /\ ontology' = [Activated(v) EXCEPT ![v].codes = codes]
      BY <2>2, <3>1 DEF SwitchVersion
    <3>3. QED
      BY <3>2 DEF Evolves
  <2>3. CASE ontology' = ontology
    BY <2>3 DEF Evolves
  <2>4. QED
    BY <1>3, <2>1, <2>2, <2>3
       DEF Others, Register, EnterFact, registryVars, CreateSource, CreateObject, CreateRelation, Begin,
           Find, Insert, Abort
<1>4. QED
  BY <1>1, <1>2, <1>3 DEF Next, vars, registryVars, Evolves

\* One version is active at most; the demonstration's goes from none over a draft to active
\* and superseded, and keeps what it defines.
LEMMA Evolution ==
  ASSUME Inv, Evolves, OneActive
  PROVE  /\ OneActive'
         /\ Demo.status # "NONE" => Demo'.status # "NONE"
         /\ Demo.status \in {"ACTIVE", "SUPERSEDED"} => Demo'.status \in {"ACTIVE", "SUPERSEDED"}
         /\ Demo.status = "SUPERSEDED" => Demo'.status = "SUPERSEDED"
         /\ Demo.status = "ACTIVE" => Demo'.codes = Demo.codes
         /\ Demo.status = "NONE" /\ (\E v \in Versions : ontology[v].status # "NONE") =>
              Demo'.status = "NONE" /\ \E v \in Versions : ontology'[v].status # "NONE"
<1> USE DemoAssumption DEF Demo, OneActive, Active
<1>1. ontology \in [Versions ->
        [status : {"NONE", "DRAFT", "ACTIVE", "SUPERSEDED"}, codes : SUBSET Codes]]
  BY DEF Inv, RegistryInv, RegistryTypeOK
<1>2. CASE ontology' = ontology
  BY <1>2
<1>3. CASE /\ \A v \in Versions : ontology[v].status = "NONE"
           /\ ontology' = [ontology EXCEPT ![DemoVersion].status = "DRAFT"]
  BY <1>1, <1>3
<1>4. CASE /\ Demo.status \notin {"NONE", "ACTIVE"}
           /\ \E code : ontology' = [ontology EXCEPT ![DemoVersion].codes = @ \cup {code}]
  <2>1. PICK code : ontology' = [ontology EXCEPT ![DemoVersion].codes = @ \cup {code}]
    BY <1>4
  <2>2. \A v \in Versions : ontology'[v].status = ontology[v].status
    BY <1>1, <2>1
  <2>3. QED
    BY <1>4, <2>2
<1>5. ASSUME NEW v \in Versions
      PROVE  /\ Activated(v)[v].status = "ACTIVE" /\ Activated(v)[v].codes = ontology[v].codes
             /\ \A w \in Versions \ {v} :
                  /\ ontology[w].status = "ACTIVE" => Activated(v)[w].status = "SUPERSEDED"
                  /\ ontology[w].status # "ACTIVE" => Activated(v)[w] = ontology[w]
                  /\ Activated(v)[w].codes = ontology[w].codes
  BY <1>1 DEF Activated
<1>6. CASE Demo.status = "DRAFT" /\ ontology' = Activated(DemoVersion)
  BY <1>5, <1>6
<1>7. ASSUME NEW v \in Versions, NEW codes, v # DemoVersion, ontology[v].status = "NONE",
             ontology' = [Activated(v) EXCEPT ![v].codes = codes]
      PROVE  /\ OneActive'
             /\ Demo.status = "ACTIVE" => Demo'.status = "SUPERSEDED"
             /\ Demo.status # "ACTIVE" => Demo' = Demo
             /\ Demo'.codes = Demo.codes
             /\ \E w \in Versions : ontology'[w].status # "NONE"
  <2>1. PICK f : f = Activated(v)
    OBVIOUS
  <2>2. f \in [Versions -> [status : {"NONE", "DRAFT", "ACTIVE", "SUPERSEDED"}, codes : SUBSET Codes]]
    BY <2>1, ActivatedTyped DEF Inv, RegistryInv
  <2>3. ontology' = [f EXCEPT ![v].codes = codes]
    BY <1>7, <2>1
  <2>4. /\ ontology'[v].status = f[v].status
        /\ \A w \in Versions \ {v} : ontology'[w] = f[w]
    BY <2>2, <2>3
  <2>5. /\ f[v].status = "ACTIVE"
        /\ \A w \in Versions \ {v} :
             /\ ontology[w].status = "ACTIVE" => f[w].status = "SUPERSEDED"
             /\ ontology[w].status # "ACTIVE" => f[w] = ontology[w]
             /\ f[w].codes = ontology[w].codes
    BY <1>5, <2>1
  <2>6. /\ ontology'[v].status = "ACTIVE"
        /\ \A w \in Versions \ {v} :
             /\ ontology[w].status = "ACTIVE" => ontology'[w].status = "SUPERSEDED"
             /\ ontology[w].status # "ACTIVE" => ontology'[w] = ontology[w]
             /\ ontology'[w].codes = ontology[w].codes
    BY <2>4, <2>5
  <2>7. OneActive'
    BY <2>6
  <2>8. QED
    BY <1>7, <2>6, <2>7
<1>8. QED
  BY <1>2, <1>3, <1>4, <1>6, <1>7 DEF Evolves

LEMMA ObservationMoves ==
  ASSUME Inv, [Next]_vars
  PROVE  observation' = observation \/ \E s \in Seeds : EnsureFact(s) \/ AcceptFact(s)
<1>1. CASE \E s \in Seeds : Work(s)
  BY <1>1 DEF Work, Start, ReadDefinitions, AddDefinition, ActivateOntology, Ask, Await, EnsureRelation,
              EnsureRule, WorkOnRule, demoVars
<1>2. CASE \E s \in Seeds : Stop(s)
  BY <1>2 DEF Stop, demoVars
<1>3. CASE Others
  BY <1>3 DEF Others, Register, ActivateVersion, SwitchVersion, EnterFact, demoVars
<1>4. QED
  BY <1>1, <1>2, <1>3 DEF Next, vars, demoVars

\* create_observation when the version has been active: only a version that is superseded or
\* unfinished leaves the observation to a review.
LEMMA IntakeIsJustified ==
  ASSUME Inv, OneActive, ObservationJustified, Demo.status \in {"ACTIVE", "SUPERSEDED"},
         CurrentFact # "demo"
  PROVE  /\ Barred \/ Intake \in {"RAW", "MAPPED"}
         /\ Intake = "ACCEPTED" => observation = "ACCEPTED"
<1>1. CASE observation # NULL
  <2>1. Intake = observation
    BY <1>1, Zenon DEF Intake
  <2>2. observation \in {"RAW", "MAPPED", "NEEDS_REVIEW", "ACCEPTED"}
    BY <1>1 DEF Inv, DemoTyped
  <2>3. observation = "ACCEPTED" => Barred
    BY DEF Barred, Obstructed
  <2>4. QED
    BY <2>1, <2>2, <2>3 DEF ObservationJustified
<1>2. CASE observation = NULL /\ Active = {}
  <2>1. Intake = "RAW"
    BY <1>2, Zenon DEF Intake
  <2>2. QED
    BY <2>1
<1>3. CASE observation = NULL /\ \E v \in Active : Campaign \in ontology[v].codes
  <2>1. Active # {} /\ \A v \in Active : Campaign \in ontology[v].codes
    BY <1>3 DEF OneActive
  <2>2. Intake = "MAPPED"
    BY <1>3, <2>1, Zenon DEF Intake
  <2>3. QED
    BY <2>2
<1>4. CASE observation = NULL /\ Active # {} /\ \A v \in Active : Campaign \notin ontology[v].codes
  <2>1. Intake = "NEEDS_REVIEW"
    BY <1>4, Zenon DEF Intake
  <2>2. CASE Demo.status = "ACTIVE"
    <3>1. Campaign \notin Demo.codes
      BY <1>4, <2>2, DemoAssumption DEF Active, Demo
    <3>2. QED
      BY <2>1, <2>2, <3>1, DemoFits DEF Barred, Obstructed
  <2>3. CASE Demo.status = "SUPERSEDED"
    BY <2>1, <2>3 DEF Barred, Obstructed
  <2>4. QED
    BY <2>2, <2>3
<1>5. QED
  BY <1>1, <1>2, <1>3, <1>4

\* What bars the runs bars them for good.
LEMMA BarredStays ==
  ASSUME Inv, [Next]_vars, Evolves, OneActive, ObservationJustified, Barred
  PROVE  Barred'
<1> USE DEF Barred, Obstructed
<1>1. /\ Demo.status # "NONE" => Demo'.status # "NONE"
      /\ Demo.status = "ACTIVE" => Demo'.status \in {"ACTIVE", "SUPERSEDED"} /\ Demo'.codes = Demo.codes
      /\ Demo.status = "SUPERSEDED" => Demo'.status = "SUPERSEDED"
  BY Evolution
<1>2. CASE Demo.status = "NONE" /\ \E v \in Versions : ontology[v].status # "NONE"
  BY <1>2, Evolution
<1>3. CASE Demo.status = "SUPERSEDED"
  BY <1>1, <1>3
<1>4. CASE Demo.status = "ACTIVE" /\ ~(AllDemoCodes \subseteq Demo.codes)
  BY <1>1, <1>4
<1>5. CASE /\ Demo.status # "NONE"
           /\ \E i \in DOMAIN DemoObjects : \E id \in ObjectOf(DemoObjects[i].key) :
                TypeOf(id) # DemoObjects[i].type
  <2>1. PICK i \in DOMAIN DemoObjects, id \in DOMAIN rows["object"] :
          rows["object"][id].key = DemoObjects[i].key /\ rows["object"][id].type # DemoObjects[i].type
    BY <1>5 DEF ObjectOf, TypeOf
  <2>2. id \in DOMAIN rows'["object"] /\ rows'["object"][id] = rows["object"][id]
    BY Growth DEF Growing, Kinds
  <2>3. id \in ObjectOf(DemoObjects[i].key)' /\ TypeOf(id)' # DemoObjects[i].type
    BY <2>1, <2>2 DEF ObjectOf, TypeOf
  <2>4. QED
    BY <1>1, <1>5, <2>3
<1>6. CASE Demo.status # "NONE" /\ observation = "ACCEPTED" /\ CurrentFact # "demo"
  <2>1. observation' = "ACCEPTED"
    <3>1. ASSUME NEW s \in Seeds, EnsureFact(s)
          PROVE  observation' = "ACCEPTED"
      <4>1. Intake = observation
        BY <1>6, Zenon DEF Intake, NULL
      <4>2. QED
        BY <1>6, <3>1, <4>1 DEF EnsureFact
    <3>2. ASSUME NEW s \in Seeds, AcceptFact(s)
          PROVE  observation' = "ACCEPTED"
      BY <1>6, <3>2 DEF AcceptFact, Accepts
    <3>3. QED
      BY <1>6, <3>1, <3>2, ObservationMoves
  <2>2. CurrentFact' # "demo"
    <3>1. ASSUME NEW value \in Values, Record(value), facts' # facts
          PROVE  CurrentFact' # "demo"
      <4>1. facts' = Append(facts, value) /\ value # "demo"
        BY <1>6, <3>1 DEF Record, ObservationJustified
      <4>2. PICK f \in Seq(Values) : f = facts
        BY DEF Inv, DemoTyped
      <4>3. /\ Append(f, value) # <<>>
            /\ Append(f, value)[Len(Append(f, value))] = value
        BY <4>2
      <4>4. QED
        BY <4>1, <4>2, <4>3 DEF CurrentFact
    <3>2. QED
      BY <1>6, <3>1, FactsMove DEF CurrentFact
  <2>3. QED
    BY <1>1, <1>6, <2>1, <2>2
<1>7. QED
  BY <1>2, <1>3, <1>4, <1>5, <1>6

\* What _ensure_definitions makes of what is missing.
LEMMA DefiningRun ==
  ASSUME NEW run \in Run, NEW missing
  PROVE  /\ Defining(run, missing).at \in BeforeActive
         /\ Defining(run, missing).status = run.status
         /\ Defining(run, missing).at = "add" => Defining(run, missing).missing = missing
<1>1. run.n \in Nat /\ Len(DemoCodes) \in Nat
  BY DemoAssumption DEF Run
<1>2. CASE missing # {}
  <2>1. Defining(run, missing) = [run EXCEPT !.at = "add", !.missing = missing]
    BY <1>2, Zenon DEF Defining
  <2>2. QED
    BY <2>1 DEF Run, BeforeActive
<1>3. CASE missing = {} /\ run.n < Len(DemoCodes)
  <2>1. ~(run.n >= Len(DemoCodes))
    BY <1>1, <1>3
  <2>2. Defining(run, missing) = [run EXCEPT !.at = "define", !.n = @ + 1, !.missing = {}]
    BY <1>3, <2>1, Zenon DEF Defining
  <2>3. QED
    BY <2>2 DEF Run, BeforeActive
<1>4. CASE missing = {} /\ run.n >= Len(DemoCodes)
  <2>1. ~(run.n < Len(DemoCodes))
    BY <1>1, <1>4
  <2>2. Defining(run, missing) = [run EXCEPT !.at = "activate", !.n = 1, !.missing = {}]
    BY <1>4, <2>1, Zenon DEF Defining
  <2>3. QED
    BY <2>2 DEF Run, BeforeActive
<1>5. QED
  BY <1>1, <1>2, <1>3, <1>4

\* A run that is past the activation never defines anything more.
LEMMA PastActivation ==
  ASSUME Inv, NEW s \in Seeds, Work(s), seed[s].at \notin Ended \cup BeforeActive,
         NEW new, new = seed'[s]
  PROVE  new.at # "add"
<1>1. PICK run \in Run : run = seed[s] /\ seed \in [Seeds -> Run]
  BY DEF Inv, SeedsTyped
<1>2. CASE \E stage \in Stages \ {"add"} : Goto(s, stage) \/ Repeat(s, stage)
  BY <1>1, <1>2 DEF Goto, Repeat, RunAt, Run
<1>3. CASE \E stage \in OfRule : seed' = [seed EXCEPT ![s].at = stage]
  BY <1>1, <1>3 DEF OfRule, Run
<1>4. CASE seed' = seed
  BY <1>4 DEF BeforeActive
<1>5. CASE Await(s)
  BY <1>2, <1>4, <1>5 DEF Await, AfterAnswer, Fail, Stages, Ended
<1>6. CASE EnsureRule(s) \/ WorkOnRule(s)
  BY <1>2, <1>3, <1>6 DEF EnsureRule, WorkOnRule, NextRule, OfRule, Stages, Ended
<1>7. CASE EnsureFact(s) \/ AcceptFact(s) \/ EnsureRelation(s) \/ Ask(s)
  BY <1>2, <1>4, <1>7 DEF EnsureFact, AcceptFact, EnsureRelation, Ask, Fail, Stages, Ended
<1>8. QED
  BY <1>5, <1>6, <1>7
     DEF Work, Start, ReadDefinitions, AddDefinition, ActivateOntology, At, Ended, BeforeActive

LEMMA AdvancedStays ==
  ASSUME Inv, Evolves, OneActive, NEW run, Advanced(run)
  PROVE  Advanced(run)'
BY Evolution DEF Advanced

LEMMA ScriptAdvances ==
  ASSUME Inv, Evolves, OneActive, NEW s \in Seeds, Work(s) \/ Stop(s), Advanced(seed[s]),
         AsksFor(seed[s], request[s]), NEW new, new = seed'[s]
  PROVE  Advanced(new)'
<1>1. PICK run \in Run : run = seed[s] /\ seed \in [Seeds -> Run] /\ Advanced(run)
  BY DEF Inv, SeedsTyped
<1>2. Advanced(run)'
  BY <1>1, AdvancedStays
<1>3. CASE Stop(s)
  BY <1>1, <1>3 DEF Stop, Goto, RunAt, Advanced, NULL, Ended
<1>4. CASE Start(s)
  <2>1. CASE Fail(s)
    BY <1>1, <2>1 DEF Fail, Goto, RunAt, Advanced, NULL, Ended
  <2>2. CASE /\ Demo.status # "NONE" /\ ontology' = ontology
             /\ seed' = [seed EXCEPT ![s] = RunAt("define", Demo.status)]
    <3>1. new.at = "define" /\ new.status = Demo.status /\ Demo'.status = Demo.status
      BY <1>1, <2>2 DEF RunAt, Demo
    <3>2. QED
      BY <2>2, <3>1 DEF Advanced, BeforeActive
  <2>3. CASE /\ ontology' = [ontology EXCEPT ![DemoVersion].status = "DRAFT"]
             /\ seed' = [seed EXCEPT ![s] = RunAt("define", "DRAFT")]
    <3>1. new.at = "define" /\ new.status = "DRAFT"
      BY <1>1, <2>3 DEF RunAt
    <3>2. Demo'.status = "DRAFT"
      BY <2>3, DemoAssumption DEF Demo, Inv, RegistryInv, RegistryTypeOK
    <3>3. QED
      BY <3>1, <3>2 DEF Advanced, BeforeActive
  <2>4. QED
    BY <1>4, <2>1, <2>2, <2>3 DEF Start
<1>5. CASE ReadDefinitions(s)
  <2>1. At(s, "define") /\ new = Defining(run, DemoCodes[run.n] \ Demo.codes)
    BY <1>1, <1>5 DEF ReadDefinitions
  <2>2. run.n \in DOMAIN DemoCodes
    BY <1>1, <2>1 DEF At, Inv, SeedsTyped, RunsInPlace, PlaceOf
  <2>3. DemoCodes[run.n] \ Demo.codes \subseteq AllDemoCodes
    BY <2>2 DEF AllDemoCodes
  <2>4. /\ new.at \in BeforeActive /\ new.status = run.status
        /\ new.at = "add" => new.missing \subseteq AllDemoCodes
    BY <2>1, <2>3, DefiningRun
  <2>5. QED
    BY <1>1, <1>2, <2>1, <2>4 DEF Advanced, At, BeforeActive, Ended
<1>6. CASE AddDefinition(s)
  <2>1. CASE Fail(s)
    BY <1>1, <2>1 DEF Fail, Goto, RunAt, Advanced, NULL, Ended
  <2>2. CASE \E code \in seed[s].missing : seed' = [seed EXCEPT ![s] = Defining(@, @.missing \ {code})]
    <3>1. PICK code : new = Defining(run, run.missing \ {code})
      BY <1>1, <2>2
    <3>2. run.at = "add" /\ run.missing \ {code} \subseteq AllDemoCodes
      BY <1>1, <1>6 DEF AddDefinition, At, Advanced
    <3>3. /\ new.at \in BeforeActive /\ new.status = run.status
          /\ new.at = "add" => new.missing \subseteq AllDemoCodes
      BY <3>1, <3>2, DefiningRun
    <3>4. QED
      BY <1>2, <3>2, <3>3 DEF Advanced, BeforeActive, Ended
  <2>3. QED
    BY <1>6, <2>1, <2>2 DEF AddDefinition
<1>7. CASE ActivateOntology(s)
  <2>1. CASE Fail(s)
    BY <1>1, <2>1 DEF Fail, Goto, RunAt, Advanced, NULL, Ended
  <2>2. CASE Goto(s, "source") /\ (seed[s].status = "ACTIVE" \/ Demo.status = "ACTIVE")
    <3>1. new.at = "source"
      BY <1>1, <2>2 DEF Goto, RunAt
    <3>2. Demo'.status \in {"ACTIVE", "SUPERSEDED"}
      BY <1>1, <2>2, Evolution DEF Advanced
    <3>3. QED
      BY <3>1, <3>2 DEF Advanced
  <2>3. CASE Goto(s, "source") /\ ontology' = Activated(DemoVersion)
    <3>1. new.at = "source"
      BY <1>1, <2>3 DEF Goto, RunAt
    <3>2. Demo'.status = "ACTIVE"
      BY <2>3, DemoAssumption DEF Demo, Activated, Inv, RegistryInv, RegistryTypeOK
    <3>3. QED
      BY <3>1, <3>2 DEF Advanced
  <2>4. QED
    BY <1>7, <2>1, <2>2, <2>3 DEF ActivateOntology
<1>8. CASE Work(s) /\ run.at \notin Ended \cup BeforeActive
  <2>1. new.at # "add"
    BY <1>1, <1>8, PastActivation
  <2>2. Demo'.status \in {"ACTIVE", "SUPERSEDED"}
    BY <1>2, <1>8 DEF Advanced
  <2>3. QED
    BY <2>1, <2>2 DEF Advanced
<1>9. QED
  <2>1. CASE Work(s) /\ run.at \in Ended \cup BeforeActive
    <3>1. request[s].step = "idle"
      BY <1>1, <2>1 DEF AsksFor, Ended, BeforeActive
    <3>2. ~Ask(s) /\ ~Await(s)
      BY <1>1, <2>1, <3>1 DEF Ask, Await, Find, Insert, At, Ended, BeforeActive
    <3>3. ~EnsureFact(s) /\ ~AcceptFact(s) /\ ~EnsureRelation(s)
      BY <1>1, <2>1 DEF EnsureFact, AcceptFact, EnsureRelation, At, Ended, BeforeActive
    <3>4. ~EnsureRule(s) /\ ~WorkOnRule(s)
      BY <1>1, <2>1 DEF EnsureRule, WorkOnRule, At, Ended, BeforeActive
    <3>5. QED
      BY <1>4, <1>5, <1>6, <1>7, <2>1, <3>2, <3>3, <3>4 DEF Work
  <2>2. QED
    BY <1>1, <1>3, <1>8, <2>1

\* The observation is justified by what was the case when it was made.
LEMMA ObservationStaysJustified ==
  ASSUME Inv, [Next]_vars, RepeatInv
  PROVE  ObservationJustified'
<1>1. Evolves /\ OneActive /\ ObservationJustified
  BY VersionsMove DEF RepeatInv
<1>2. Barred => Barred'
  BY <1>1, BarredStays
<1>3. Recorded("demo") => Recorded("demo")'
  BY Growth DEF Growing
<1>4. CASE observation' = observation
  BY <1>1, <1>2, <1>3, <1>4 DEF ObservationJustified
<1>5. ASSUME NEW s \in Seeds, EnsureFact(s), observation' # observation
      PROVE  ObservationJustified'
  <2>1. CurrentFact # "demo" /\ observation' = Intake /\ At(s, "fact")
    BY <1>5 DEF EnsureFact
  <2>2. Demo.status \in {"ACTIVE", "SUPERSEDED"}
    BY <2>1 DEF RepeatInv, Advanced, At, Ended, BeforeActive
  <2>3. /\ Barred \/ Intake \in {"RAW", "MAPPED"}
        /\ Intake = "ACCEPTED" => observation = "ACCEPTED"
    BY <1>1, <2>1, <2>2, IntakeIsJustified
  <2>4. QED
    BY <1>1, <1>2, <1>3, <1>5, <2>1, <2>3 DEF ObservationJustified
<1>6. ASSUME NEW s \in Seeds, AcceptFact(s), observation' # observation
      PROVE  ObservationJustified'
  <2>1. Record("demo") /\ observation' = "ACCEPTED"
    BY <1>6 DEF AcceptFact
  <2>2. Recorded("demo")'
    BY <2>1, RecordGrows DEF Inv, DemoTyped
  <2>3. QED
    BY <2>1, <2>2 DEF ObservationJustified
<1>7. QED
  BY <1>4, <1>5, <1>6, ObservationMoves

\* Who is not touched had no commit of another during its run.
LEMMA NotTouched ==
  ASSUME NEW t \in Seeds, NEW by, Touch(by), t \notin touched', seed'[t].at \notin {"idle", "done"}
  PROVE  /\ t \notin touched
         /\ t \in by \/ seed[t].at \in Ended \/ Tables' = Tables
BY DEF Touch

\* A run that stands still is not disturbed by what others read, and a run that has ended
\* not even by what they commit.
LEMMA UndisturbedElsewhere ==
  ASSUME Inv, [Next]_vars, RepeatInv, NEW t \in Seeds,
         NEW run, run = seed[t], run = seed'[t], NEW c, c = request[t], c = request'[t],
         run.at \notin {"idle", "done"} => t \notin touched /\ (run.at \in Ended \/ Tables' = Tables)
  PROVE  Undisturbed(run, c)'
<1>1. AsksFor(run, c)
  BY DEF RepeatInv, RunsAsk
<1>2. CASE run.at \in {"idle", "done"}
  BY <1>1, <1>2 DEF AsksFor, Undisturbed
<1>3. CASE run.at = "failed"
  <2>1. Barred
    BY <1>3 DEF RepeatInv, Undisturbed
  <2>2. Barred'
    BY <2>1, BarredStays, VersionsMove DEF RepeatInv
  <2>3. QED
    BY <1>1, <1>3, <2>2 DEF AsksFor, Undisturbed
<1>4. CASE run.at \notin Ended /\ Tables' = Tables
  <2>1. Undisturbed(run, c)
    BY <1>4 DEF RepeatInv, Ended
  <2>2. ontology' = ontology /\ rows' = rows /\ observation' = observation /\ facts' = facts
    BY <1>4 DEF Tables, demoVars
  <2>3. Barred => Barred'
    BY <2>2 DEF Barred, Demo, Obstructed, ObjectOf, TypeOf, CurrentFact
  <2>4. Found(c.kind, c.row)' = Found(c.kind, c.row)
    BY <2>2 DEF Found
  <2>5. QED
    BY <2>1, <2>2, <2>3, <2>4 DEF Undisturbed, Demo
<1>5. QED
  BY <1>2, <1>3, <1>4 DEF Ended

\* A request that is about to insert has found nothing.
LEMMA LookedFor ==
  ASSUME Inv, NEW s \in Seeds, Work(s) \/ Stop(s), NEW d, d = request[s], NEW c, c = request'[s],
         d.step = "insert" => Found(d.kind, d.row) = {}, c.step = "insert"
  PROVE  Found(c.kind, c.row)' = {}
<1>1. s \in Clients /\ request \in [Clients -> {Idle} \cup Looking({"find", "insert"})]
  BY DemoAssumption DEF Inv, RegistryInv, RegistryTypeOK
<1>2. CASE c = d /\ rows' = rows
  BY <1>2 DEF Found
<1>3. CASE Stop(s) \/ Insert(s)
  BY <1>1, <1>3 DEF Stop, Insert, Idle
<1>4. CASE \E kind, row : Begin(s, kind, row)
  BY <1>1, <1>4 DEF Begin
<1>5. CASE Find(s)
  <2>1. rows' = rows
    BY <1>5 DEF Find
  <2>2. d \in Looking({"find", "insert"})
    BY <1>1, <1>5 DEF Find, Idle
  <2>3. Found(d.kind, d.row) = {} /\ c = [d EXCEPT !.step = "insert"]
    BY <1>1, <1>5 DEF Find, Idle
  <2>4. c.kind = d.kind /\ c.row = d.row
    BY <2>2, <2>3 DEF Looking
  <2>5. QED
    BY <2>1, <2>3, <2>4 DEF Found
<1>6. QED
  BY <1>2, <1>3, <1>4, <1>5
     DEF Work, Start, ReadDefinitions, AddDefinition, ActivateOntology, Ask, Await, EnsureFact,
         AcceptFact, EnsureRelation, EnsureRule, WorkOnRule, registryVars, CreateSource, CreateObject,
         CreateRelation

\* A run fails of itself only when it is barred.
LEMMA DefiningUndisturbed ==
  ASSUME Inv, [Next]_vars, RepeatInv, NEW s \in Seeds \ touched,
         Start(s) \/ ReadDefinitions(s) \/ AddDefinition(s) \/ ActivateOntology(s),
         NEW new, new = seed'[s]
  PROVE  /\ new.at = "failed" => Barred'
         /\ new.at = "add" => new.missing \cap Demo'.codes = {}
         /\ new.at # "accept"
<1>1. PICK run \in Run : run = seed[s] /\ seed \in [Seeds -> Run] /\ Advanced(run)
  BY DEF Inv, SeedsTyped, RepeatInv
<1>2. Barred => Barred'
  BY BarredStays, VersionsMove DEF RepeatInv
<1>3. ASSUME NEW stage \in Stages, NEW status, seed' = [seed EXCEPT ![s] = RunAt(stage, status)]
      PROVE  new.at = stage
  BY <1>1, <1>3 DEF RunAt
<1>4. CASE Start(s)
  <2>1. new.at \in {"define", "failed"}
    BY <1>1, <1>4 DEF Start, Fail, Goto, RunAt
  <2>2. ASSUME new.at = "failed"
        PROVE  Barred
    BY <1>1, <1>4, <2>2 DEF Start, RunAt, Barred
  <2>3. QED
    BY <1>2, <2>1, <2>2
<1>5. CASE ReadDefinitions(s)
  <2>1. new = Defining(run, DemoCodes[run.n] \ Demo.codes) /\ Demo' = Demo
    BY <1>1, <1>5 DEF ReadDefinitions, registryVars, Demo
  <2>2. /\ new.at \in BeforeActive
        /\ new.at = "add" => new.missing = DemoCodes[run.n] \ Demo.codes
    BY <2>1, DefiningRun
  <2>3. QED
    BY <2>1, <2>2 DEF BeforeActive
<1>6. CASE AddDefinition(s)
  <2>1. run.at = "add" /\ run.missing \cap Demo.codes = {} /\ run.missing \subseteq AllDemoCodes
    BY <1>1, <1>6 DEF AddDefinition, At, RepeatInv, Undisturbed, Advanced
  <2>2. PICK code \in run.missing :
          \/ /\ Demo.status # "ACTIVE"
             /\ ontology' = [ontology EXCEPT ![DemoVersion].codes = @ \cup {code}]
             /\ seed' = [seed EXCEPT ![s] = Defining(@, @.missing \ {code})]
          \/ /\ Demo.status = "ACTIVE" \/ code \in Demo.codes
             /\ Fail(s)
    BY <1>1, <1>6 DEF AddDefinition
  <2>3. CASE Fail(s) /\ Demo.status = "ACTIVE"
    <3>1. ~(AllDemoCodes \subseteq Demo.codes)
      BY <2>1, <2>2
    <3>2. Barred /\ new.at = "failed"
      BY <1>1, <2>3, <3>1 DEF Barred, Obstructed, Fail, Goto, RunAt
    <3>3. QED
      BY <1>2, <3>2
  <2>4. CASE /\ ontology' = [ontology EXCEPT ![DemoVersion].codes = @ \cup {code}]
             /\ seed' = [seed EXCEPT ![s] = Defining(@, @.missing \ {code})]
    <3>1. new = Defining(run, run.missing \ {code})
      BY <1>1, <2>4
    <3>2. Demo'.codes = Demo.codes \cup {code}
      BY <2>4, DemoAssumption DEF Demo, Inv, RegistryInv, RegistryTypeOK
    <3>3. new.at \in BeforeActive /\ (new.at = "add" => new.missing = run.missing \ {code})
      BY <3>1, DefiningRun
    <3>4. QED
      BY <2>1, <3>2, <3>3 DEF BeforeActive
  <2>5. QED
    BY <2>1, <2>2, <2>3, <2>4
<1>7. CASE ActivateOntology(s)
  <2>1. new.at \in {"source", "failed"}
    BY <1>1, <1>7 DEF ActivateOntology, Fail, Goto, RunAt
  <2>2. ASSUME new.at = "failed"
        PROVE  Barred
    BY <1>1, <1>7, <2>2 DEF ActivateOntology, Goto, RunAt, Barred, Obstructed
  <2>3. QED
    BY <1>2, <2>1, <2>2
<1>8. QED
  BY <1>4, <1>5, <1>6, <1>7

\* create_observation and accept_observation.
LEMMA FactUndisturbed ==
  ASSUME Inv, [Next]_vars, RepeatInv, NEW s \in Seeds \ touched,
         EnsureFact(s) \/ AcceptFact(s), NEW new, new = seed'[s]
  PROVE  /\ new.at = "failed" => Barred'
         /\ new.at # "add"
         /\ new.at = "accept" => Barred' \/ observation' \in {"RAW", "MAPPED"}
<1>1. seed \in [Seeds -> Run] /\ Demo.status \in {"ACTIVE", "SUPERSEDED"}
  BY DEF Inv, SeedsTyped, RepeatInv, Advanced, EnsureFact, AcceptFact, At, Ended, BeforeActive
<1>2. Barred => Barred'
  BY BarredStays, VersionsMove DEF RepeatInv
<1>3. CASE EnsureFact(s)
  <2>1. CASE Goto(s, "relation")
    BY <1>1, <2>1 DEF Goto, RunAt
  <2>2. CASE CurrentFact # "demo" /\ Goto(s, "accept") /\ observation' = Intake
    <3>1. Barred \/ Intake \in {"RAW", "MAPPED"}
      BY <1>1, <2>2, IntakeIsJustified DEF RepeatInv
    <3>2. new.at = "accept"
      BY <1>1, <2>2 DEF Goto, RunAt
    <3>3. QED
      BY <1>2, <2>2, <3>1, <3>2
  <2>3. QED
    BY <1>3, <2>1, <2>2 DEF EnsureFact
<1>4. CASE AcceptFact(s)
  <2>1. CASE Goto(s, "relation")
    BY <1>1, <2>1 DEF Goto, RunAt
  <2>2. CASE ~Accepts /\ Fail(s)
    <3>1. new.at = "failed"
      BY <1>1, <2>2 DEF Fail, Goto, RunAt
    <3>2. Barred \/ observation \in {"RAW", "MAPPED"}
      BY <1>4 DEF AcceptFact, At, RepeatInv, Undisturbed
    <3>3. ASSUME observation \in {"RAW", "MAPPED"}, Demo.status = "ACTIVE"
          PROVE  Barred
      <4>1. Campaign \notin Demo.codes
        BY <2>2, <3>3, DemoAssumption DEF Accepts, Active, Demo
      <4>2. QED
        BY <3>3, <4>1, DemoFits DEF Barred, Obstructed
    <3>4. ASSUME Demo.status = "SUPERSEDED"
          PROVE  Barred
      BY <3>4 DEF Barred, Obstructed
    <3>5. Barred
      BY <1>1, <3>2, <3>3, <3>4
    <3>6. QED
      BY <1>2, <3>1, <3>5
  <2>3. QED
    BY <1>4, <2>1, <2>2 DEF AcceptFact
<1>5. QED
  BY <1>3, <1>4

\* The registry's requests, and the relation whose ends have other types.
LEMMA RegistryUndisturbed ==
  ASSUME Inv, [Next]_vars, RepeatInv, NEW s \in Seeds \ touched,
         Ask(s) \/ Await(s) \/ EnsureRelation(s), NEW new, new = seed'[s]
  PROVE  /\ new.at = "failed" => Barred'
         /\ new.at \notin {"add", "accept"}
<1>1. PICK run \in Run : run = seed[s] /\ seed \in [Seeds -> Run] /\ Advanced(run)
  BY DEF Inv, SeedsTyped, RepeatInv
<1>2. Barred => Barred'
  BY BarredStays, VersionsMove DEF RepeatInv
<1>3. Undisturbed(run, request[s]) /\ AsksFor(run, request[s])
  BY <1>1 DEF RepeatInv, RunsAsk
<1>4. CASE EnsureRelation(s) /\ Fail(s) /\ Offers = {}
  <2>1. PICK subject \in ObjectOf(DemoRelation.subject), object \in ObjectOf(DemoRelation.object) :
          ~Allows(DemoRelation.predicate, TypeOf(subject), TypeOf(object))
    BY <1>1, <1>4 DEF EnsureRelation, Goto, Fail, RunAt
  <2>2. PICK n, m \in DOMAIN DemoObjects :
          /\ DemoObjects[n].key = DemoRelation.subject
          /\ DemoObjects[m].key = DemoRelation.object
          /\ Allows(DemoRelation.predicate, DemoObjects[n].type, DemoObjects[m].type)
    BY DemoFits
  <2>3. TypeOf(subject) # DemoObjects[n].type \/ TypeOf(object) # DemoObjects[m].type
    BY <2>1, <2>2
  <2>4. Demo.status # "NONE"
    BY <1>1, <1>4 DEF EnsureRelation, At, Advanced, Ended
  <2>5. Barred
    BY <2>2, <2>3, <2>4 DEF Barred, Obstructed
  <2>6. new.at = "failed"
    BY <1>1, <1>4 DEF Fail, Goto, RunAt
  <2>7. QED
    BY <1>2, <2>5, <2>6
<1>5. CASE EnsureRelation(s) /\ Goto(s, "rules")
  BY <1>1, <1>5 DEF Goto, RunAt
<1>6. CASE seed' = seed /\ (Ask(s) \/ Find(s))
  <2>1. run.at \in {"source", "objects", "relation"}
    BY <1>1, <1>3, <1>6 DEF Ask, At, AsksFor, Find
  <2>2. QED
    BY <1>1, <1>6, <2>1
<1>7. CASE AfterAnswer(s)
  BY <1>1, <1>7 DEF AfterAnswer, Goto, Repeat, RunAt, At, Run
<1>8. CASE Insert(s)
  <2>1. Found(request[s].kind, request[s].row) = {}
    BY <1>3, <1>8 DEF Insert, Undisturbed
  <2>2. MayInsert(s)
    BY <2>1 DEF MayInsert, Taken
  <2>3. CASE Await(s)
    BY <1>7, <1>8, <2>2, <2>3 DEF Await, Find, Insert
  <2>4. QED
    BY <1>4, <1>5, <1>8, <2>3 DEF EnsureRelation, Ask, Insert
<1>9. QED
  BY <1>4, <1>5, <1>6, <1>7, <1>8 DEF Ask, Await, EnsureRelation

LEMMA ScriptUndisturbed ==
  ASSUME Inv, [Next]_vars, RepeatInv, NEW s \in Seeds \ touched, Work(s) \/ Stop(s),
         NEW new, new = seed'[s], NEW c, c = request'[s]
  PROVE  Undisturbed(new, c)'
<1>1. seed \in [Seeds -> Run]
  BY DEF Inv, SeedsTyped
<1>2. c.step = "insert" => Found(c.kind, c.row)' = {}
  <2>1. PICK d : d = request[s]
    OBVIOUS
  <2>2. d.step = "insert" => Found(d.kind, d.row) = {}
    BY <2>1 DEF RepeatInv, Undisturbed
  <2>3. QED
    BY <2>1, <2>2, LookedFor
<1>3. CASE Start(s) \/ ReadDefinitions(s) \/ AddDefinition(s) \/ ActivateOntology(s)
  BY <1>2, <1>3, DefiningUndisturbed DEF Undisturbed
<1>4. CASE EnsureFact(s) \/ AcceptFact(s)
  BY <1>2, <1>4, FactUndisturbed DEF Undisturbed
<1>5. CASE Ask(s) \/ Await(s) \/ EnsureRelation(s)
  BY <1>2, <1>5, RegistryUndisturbed DEF Undisturbed
<1>6. CASE EnsureRule(s) \/ WorkOnRule(s) \/ Stop(s)
  <2>1. CASE \E stage \in {"idle", "rules", "done"} : Goto(s, stage) \/ Repeat(s, stage)
    BY <1>1, <1>2, <2>1 DEF Goto, Repeat, RunAt, Run, Undisturbed
  <2>2. CASE \E stage \in OfRule : seed' = [seed EXCEPT ![s].at = stage]
    BY <1>1, <1>2, <2>2 DEF OfRule, Run, Undisturbed
  <2>3. QED
    BY <1>6, <2>1, <2>2 DEF EnsureRule, WorkOnRule, NextRule, Stop, OfRule
<1>7. QED
  BY <1>3, <1>4, <1>5, <1>6 DEF Work

\* What runs rely on, whoever commits what: a run that somebody committed something beside is
\* touched, and of one that is not, what it found is still so.
LEMMA RepeatStays ==
  ASSUME Inv, [Next]_vars, RepeatInv
  PROVE  RepeatInv'
<1>1. Evolves /\ OneActive
  BY VersionsMove DEF RepeatInv
<1>2. OneActive'
  BY <1>1, Evolution
<1>3. ObservationJustified' /\ RunsAsk'
  BY ObservationStaysJustified, RunsKeepAsking DEF RepeatInv
<1>4. ASSUME NEW t \in Seeds
      PROVE  Advanced(seed[t])' /\ (t \notin touched' => Undisturbed(seed[t], request[t])')
  <2>1. PICK new : new = seed'[t]
    OBVIOUS
  <2>2. PICK c : c = request'[t]
    OBVIOUS
  <2>3. Advanced(new)' /\ (t \notin touched' => Undisturbed(new, c)')
    <3>1. CASE UNCHANGED vars
      <4>1. /\ seed'[t] = seed[t] /\ request'[t] = request[t] /\ touched' = touched /\ Tables' = Tables
        BY <3>1 DEF vars, registryVars, Tables
      <4>2. Advanced(new)'
        BY <1>1, <2>1, <4>1, AdvancedStays DEF RepeatInv
      <4>3. QED
        BY <2>1, <2>2, <4>1, <4>2, UndisturbedElsewhere
    <3>2. ASSUME NEW s \in Seeds, Work(s) \/ Stop(s), Touch({s})
          PROVE  Advanced(new)' /\ (t \notin touched' => Undisturbed(new, c)')
      <4>1. CASE t = s
        <5>1. Advanced(new)'
          BY <1>1, <2>1, <3>2, <4>1, ScriptAdvances DEF RepeatInv, RunsAsk
        <5>2. CASE t \notin touched
          BY <2>1, <2>2, <3>2, <4>1, <5>1, <5>2, ScriptUndisturbed
        <5>3. CASE new.at \in {"idle", "done"}
          BY <1>3, <2>1, <2>2, <5>1, <5>3 DEF RunsAsk, AsksFor, Undisturbed
        <5>4. QED
          BY <2>1, <3>2, <5>1, <5>2, <5>3, NotTouched
      <4>2. CASE t # s
        <5>1. seed'[t] = seed[t] /\ request'[t] = request[t]
          BY <3>2, <4>2, RunsApart
        <5>2. Advanced(new)'
          BY <1>1, <2>1, <5>1, AdvancedStays DEF RepeatInv
        <5>3. t \notin touched' =>
                (new.at \notin {"idle", "done"} => t \notin touched /\ (new.at \in Ended \/ Tables' = Tables))
          BY <2>1, <3>2, <4>2, <5>1, NotTouched
        <5>4. QED
          BY <2>1, <2>2, <5>1, <5>2, <5>3, UndisturbedElsewhere
      <4>3. QED
        BY <4>1, <4>2
    <3>3. ASSUME Others, Touch({})
          PROVE  Advanced(new)' /\ (t \notin touched' => Undisturbed(new, c)')
      <4>1. seed'[t] = seed[t] /\ request'[t] = request[t]
        BY <3>3, ClientsApart
      <4>2. Advanced(new)'
        BY <1>1, <2>1, <4>1, AdvancedStays DEF RepeatInv
      <4>3. t \notin touched' =>
              (new.at \notin {"idle", "done"} => t \notin touched /\ (new.at \in Ended \/ Tables' = Tables))
        BY <2>1, <3>3, <4>1, NotTouched
      <4>4. QED
        BY <2>1, <2>2, <4>1, <4>2, <4>3, UndisturbedElsewhere
    <3>4. QED
      BY <3>1, <3>2, <3>3 DEF Next
  <2>4. QED
    BY <2>1, <2>2, <2>3 DEF Advanced, Undisturbed
<1>5. QED
  BY <1>2, <1>3, <1>4 DEF RepeatInv

\* The script can be repeated: a run in which nobody else commits anything gets over whatever
\* was left before, or is obstructed by what no run gets over.
THEOREM Repeatable == Spec => []SeedIsRepeatable
<1>1. Init => RepeatInv
  <2> SUFFICES ASSUME Init PROVE RepeatInv
    OBVIOUS
  <2>1. OneActive
    BY DEF Init, RegistryInit, OneActive, Active
  <2>2. ObservationJustified
    BY DEF Init, ObservationJustified, NULL
  <2>3. ASSUME NEW s \in Seeds
        PROVE  /\ AsksFor(seed[s], request[s])
               /\ Advanced(seed[s])
               /\ Undisturbed(seed[s], request[s])
    <3>1. seed[s] = RunAt("idle", NULL) /\ request[s].step = "idle"
      BY DemoAssumption DEF Init, RegistryInit, Idle
    <3>2. QED
      BY <3>1 DEF RunAt, NULL, AsksFor, Advanced, Undisturbed, Ended
  <2>4. QED
    BY <2>1, <2>2, <2>3 DEF RepeatInv, RunsAsk
<1>2. RepeatInv /\ Inv /\ [Next]_vars => RepeatInv'
  BY RepeatStays
<1>3. RepeatInv => SeedIsRepeatable
  BY DEF RepeatInv, Undisturbed, SeedIsRepeatable, At, Barred, Obstructed
<1>4. QED
  BY <1>1, <1>2, <1>3, AlwaysInv, PTL DEF Spec
=============================================================================
