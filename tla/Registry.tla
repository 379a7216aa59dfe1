------------------------------ MODULE Registry ------------------------------
(***************************************************************************)
(* Sources, objects and relations, the rows that observations and facts    *)
(* hang on: KnowledgeService's create_source, create_object and            *)
(* create_relation.                                                        *)
(*                                                                         *)
(* All three look for a row of the same natural identity, answer with it   *)
(* if there is one, and otherwise insert their own; the SELECT and the     *)
(* INSERT are two steps of one READ COMMITTED transaction, and what other  *)
(* requests commit in between only the unique indexes notice.  A row's id  *)
(* is its position.  Of a source there are the two columns it is found by  *)
(* (source types are alike), of a relation one valid_from; provenance is   *)
(* inserted with the relation that cites it.  A new relation invalidates   *)
(* the results that asked for its relation type as a new fact does those   *)
(* that asked for its property: DerivedCache.                              *)
(***************************************************************************)
EXTENDS Naturals, Sequences

CONSTANTS
  Clients,
  Versions,    \* ontology versions
  Codes,       \* what a version may define
  Types,       \* the object types among them
  Predicates,  \* the relation types among them
  From, To,    \* From[p], To[p]: allowed_source_types, allowed_target_types
  Keys,        \* stable keys
  Sources      \* what is known of a source when it is registered

ASSUME RegistryAssumption ==
  /\ Types \subseteq Codes /\ Predicates \subseteq Codes
  /\ From \in [Predicates -> SUBSET Types]
  /\ To \in [Predicates -> SUBSET Types]

VARIABLES
  ontology,  \* version -> its status and the codes it defines
  rows,      \* kind -> the rows of its table, in the order of their insertion
  request    \* client -> its request in flight and what it has read

registryVars == <<ontology, rows, request>>

NULL == "null"

Object   == [key : Keys, type : Types]
Relation == [subject : Nat \ {0}, predicate : Predicates, object : Nat \ {0}]

Idle == [step |-> "idle"]
Looking(steps) ==
  [step : steps, kind : {"source"}, row : Sources] \cup
  [step : steps, kind : {"object"}, row : Object] \cup
  [step : steps, kind : {"relation"}, row : Relation]

RegistryTypeOK ==
  /\ ontology \in [Versions ->
       [status : {"NONE", "DRAFT", "ACTIVE", "SUPERSEDED"}, codes : SUBSET Codes]]
  /\ DOMAIN rows = {"source", "object", "relation"}
  /\ rows["source"] \in Seq(Sources)
  /\ rows["object"] \in Seq(Object)
  /\ rows["relation"] \in Seq(Relation)
  /\ request \in [Clients -> {Idle} \cup Looking({"find", "insert"})]

RegistryInit ==
  /\ ontology = [v \in Versions |-> [status |-> "NONE", codes |-> {}]]
  /\ rows = [kind \in {"source", "object", "relation"} |-> <<>>]
  /\ request = [c \in Clients |-> Idle]

-----------------------------------------------------------------------------
(* Queries and the policy of the ontology.                                 *)

Active == {v \in Versions : ontology[v].status = "ACTIVE"}

\* The version a payload names, or the active one.
Selected(v) == IF v = NULL THEN Active ELSE {v} \cap {w \in Versions : ontology[w].status # "NONE"}

\* An empty allowlist allows every type.
Allows(p, from, to) ==
  /\ From[p] = {} \/ from \in From[p]
  /\ To[p] = {} \/ to \in To[p]

TypeOf(id) == rows["object"][id].type

\* find_source_by_identity looks at the checksum only if there is no external
\* identifier, and finds nothing if there is neither.
SameSource(row, new) ==
  \/ new.external # NULL /\ row.external = new.external
  \/ new.external = NULL /\ new.checksum # NULL /\ row.checksum = new.checksum

Same(kind, row, new) ==
  \/ kind = "source" /\ SameSource(row, new)
  \/ kind = "object" /\ row.key = new.key
  \/ kind = "relation" /\ row = new

Found(kind, new) == {i \in DOMAIN rows[kind] : Same(kind, rows[kind][i], new)}

\* The unique indexes, which cover no checksum.
Taken(kind, new) == Found(kind, new) # {} /\ (kind = "source" => new.external # NULL)

-----------------------------------------------------------------------------
(* The steps of a request.                                                 *)

Begin(c, kind, row) ==
  /\ request[c].step = "idle"
  /\ request' = [request EXCEPT ![c] = [step |-> "find", kind |-> kind, row |-> row]]
  /\ UNCHANGED <<ontology, rows>>

CreateSource(c, source) == Begin(c, "source", source)

\* The type must be defined by the version named, whatever its status, or else
\* by the active one.
CreateObject(c, key, type, v) ==
  /\ \E w \in Selected(v) : type \in ontology[w].codes
  /\ Begin(c, "object", [key |-> key, type |-> type])

\* A fault: the ends are named by their stable keys.
CreateRelationOfKeys(c, subject, p, object, v) ==
  /\ \E w \in Selected(v) : p \in ontology[w].codes
  /\ Allows(p, TypeOf(subject), TypeOf(object))
  /\ Begin(c, "relation", [subject |-> rows["object"][subject].key, predicate |-> p,
                           object |-> rows["object"][object].key])

\* Both ends exist and their types are the ones the relation type allows.
CreateRelation(c, subject, p, object, v) ==
  /\ \E w \in Selected(v) : p \in ontology[w].codes
  /\ Allows(p, TypeOf(subject), TypeOf(object))
  /\ Begin(c, "relation", [subject |-> subject, predicate |-> p, object |-> object])

\* A fault: an upsert that brings the row it finds up to date.
FindAndUpdate(c) ==
  /\ request[c].step = "find"
  /\ LET kind == request[c].kind
         new  == request[c].row
     IN  /\ rows' = [rows EXCEPT ![kind] =
              [i \in DOMAIN @ |-> IF i \in Found(kind, new) THEN new ELSE @[i]]]
         /\ request' = [request EXCEPT ![c] =
              IF Found(kind, new) # {} THEN Idle ELSE [@ EXCEPT !.step = "insert"]]
  /\ UNCHANGED ontology

\* upsert_source, upsert_object, find_relation_by_identity: a row that exists is
\* the answer as it stands, whatever else the payload says.
Find(c) ==
  /\ request[c].step = "find"
  /\ request' = [request EXCEPT ![c] =
       IF Found(@.kind, @.row) # {} THEN Idle ELSE [@ EXCEPT !.step = "insert"]]
  /\ UNCHANGED <<ontology, rows>>

\* A fault: the table has no unique index.
MayInsertUnchecked(c) == TRUE

MayInsert(c) == ~Taken(request[c].kind, request[c].row)

\* The INSERT with its audit row, and the commit; a refused one is rolled back.
Insert(c) ==
  /\ request[c].step = "insert"
  /\ IF MayInsert(c)
       THEN rows' = [rows EXCEPT ![request[c].kind] = Append(@, request[c].row)]
       ELSE UNCHANGED rows
  /\ request' = [request EXCEPT ![c] = Idle]
  /\ UNCHANGED ontology

\* The client, its connection or the process goes away: rollback.
Abort(c) ==
  /\ request[c].step # "idle"
  /\ request' = [request EXCEPT ![c] = Idle]
  /\ UNCHANGED <<ontology, rows>>

-----------------------------------------------------------------------------

Conforms(r) ==
  /\ {r.subject, r.object} \subseteq DOMAIN rows["object"]
  /\ Allows(r.predicate, TypeOf(r.subject), TypeOf(r.object))

\* The ends of every relation have types its relation type allows.  They were
\* checked when it was created; an object can be registered again, with another
\* type, before and after.
RelationsConform ==
  \A i \in DOMAIN rows["relation"] : Conforms(rows["relation"][i])
=============================================================================
