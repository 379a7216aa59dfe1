-------------------------- MODULE OntologyVersions --------------------------
(***************************************************************************)
(* The versions of the ontology: OntologyService.create_version,           *)
(* add_definition and activate over the ontology_versions table and the    *)
(* definitions that belong to a version.                                   *)
(*                                                                         *)
(* A request is one READ COMMITTED transaction: a SELECT that the rest     *)
(* depends on is a step, the writes take effect at the commit, and each    *)
(* guarded UPDATE must still find the row_version it was given.  Of the    *)
(* definitions only the property codes are kept.  VALIDATING and MIGRATING *)
(* do not occur: no operation sets them.                                   *)
(***************************************************************************)
EXTENDS Naturals, FiniteSets, Sequences

CONSTANTS
  MaxVersions,  \* bound on the versions, which are numbered as they are created
  Breaking,     \* the versions with change_type BREAKING
  Properties,   \* property codes
  Seed,         \* Seed[v]: the properties of the versions there are at the start
  Requests,     \* the requests that may be in flight at one time
  Expecting     \* whether clients send the row_version they saw (expected_version)

Versions == 1 .. MaxVersions

ASSUME OntologyAssumption ==
  /\ MaxVersions \in Nat
  /\ Breaking \subseteq Versions
  /\ Seed \in Seq(SUBSET Properties) /\ Len(Seed) <= MaxVersions
  /\ Expecting \in BOOLEAN

VARIABLES
  ontology,  \* version -> its row and its definitions
  call       \* the requests in flight and what they have read

ontologyVars == <<ontology, call>>

Status == {"NONE", "DRAFT", "ACTIVE", "SUPERSEDED"}
Idle == [op |-> "none"]

Defining   == [op : {"define"}, version : Versions]
Activating == [op : {"activate"}, version : Versions, expected : Nat]
Switching  == [op : {"switch"}, version : Versions, expected : Nat,
               active : 0 .. MaxVersions, activeRow : Nat]
OntologyCalls == {Idle} \cup Defining \cup Activating \cup Switching

OntologyTypeOK ==
  ontology \in [Versions -> [status : Status, row : Nat, properties : SUBSET Properties]]

OntologyInit ==
  /\ ontology = [v \in Versions |->
       [status |-> IF v = 1 /\ v \in DOMAIN Seed THEN "ACTIVE"
                   ELSE IF v \in DOMAIN Seed THEN "DRAFT" ELSE "NONE",
        row |-> IF v \in DOMAIN Seed THEN 1 ELSE 0,
        properties |-> IF v \in DOMAIN Seed THEN Seed[v] ELSE {}]]
  /\ call = [r \in Requests |-> Idle]

Active == {v \in Versions : ontology[v].status = "ACTIVE"}

\* get_active_ontology: the newest of the active versions; 0 is none.
ActiveOntology == IF Active = {} THEN 0 ELSE CHOOSE v \in Active : \A u \in Active : u <= v

Begins(r, c) == call[r] = Idle /\ call' = [call EXCEPT ![r] = c]
Continues(r, c) == call' = [call EXCEPT ![r] = c]
Ends(r) == call' = [call EXCEPT ![r] = Idle]

\* A refused guard, an exception or a process that dies: get_session rolls back.
Abort(r) == call[r] # Idle /\ Ends(r) /\ UNCHANGED ontology

-----------------------------------------------------------------------------

\* version_code is unique, so of two requests for one code one is refused.
CreateVersion(v) ==
  /\ ontology[v].status = "NONE" /\ \A u \in 1 .. v - 1 : ontology[u].status # "NONE"
  /\ ontology' = [ontology EXCEPT ![v] = [status |-> "DRAFT", row |-> 1, properties |-> {}]]
  /\ UNCHANGED call

BeginDefine(r, v) ==
  /\ ontology[v].status \notin {"NONE", "ACTIVE"}
  /\ Begins(r, [op |-> "define", version |-> v])
  /\ UNCHANGED ontology

\* The status is not looked at again.  uq_property_version_code refuses a second
\* definition of one code.
Define(r, p) ==
  /\ call[r].op = "define" /\ p \notin ontology[call[r].version].properties
  /\ ontology' = [ontology EXCEPT ![call[r].version].properties = @ \cup {p}]
  /\ Ends(r)

\* expected_version, as the client saw it; 0 is none.  A stale one is refused.
Expectations(v) == {ontology[v].row} \cup (IF Expecting THEN {} ELSE {0})

\* A BREAKING version would have to be MIGRATING.
BeginActivate(r, v) ==
  /\ ontology[v].status = "DRAFT" /\ v \notin Breaking
  /\ \E expected \in Expectations(v) :
       Begins(r, [op |-> "activate", version |-> v, expected |-> expected])
  /\ UNCHANGED ontology

ReadActive(r) ==
  /\ call[r].op = "activate"
  /\ Continues(r, [op |-> "switch", version |-> call[r].version, expected |-> call[r].expected,
                   active |-> ActiveOntology,
                   activeRow |-> IF ActiveOntology = 0 THEN 0 ELSE ontology[ActiveOntology].row])
  /\ UNCHANGED ontology

\* The version to be superseded, if it is not the one to be activated.
Superseded(c) == {c.active} \ {0, c.version}

\* update_ontology: each row as the request expects it.
MayUpdate(v, expected) == expected = 0 \/ ontology[v].row = expected

\* A fault: the version that is superseded is taken as it is found.
MaySwitchUnchecked(c) == MayUpdate(c.version, c.expected)

MaySwitch(c) ==
  /\ MayUpdate(c.version, c.expected)
  /\ \A v \in Superseded(c) : MayUpdate(v, c.activeRow)

Becomes(v, status) ==
  [status |-> status, row |-> ontology[v].row + 1, properties |-> ontology[v].properties]

\* The UPDATE of the version does not look at its status.
Switch(r) ==
  /\ call[r].op = "switch" /\ MaySwitch(call[r])
  /\ ontology' = [v \in Versions |->
       IF v = call[r].version THEN Becomes(v, "ACTIVE")
       ELSE IF v \in Superseded(call[r]) THEN Becomes(v, "SUPERSEDED") ELSE ontology[v]]
  /\ Ends(r)

-----------------------------------------------------------------------------

OntologyStep(r) ==
  \/ \E v \in Versions : BeginDefine(r, v) \/ BeginActivate(r, v)
  \/ \E p \in Properties : Define(r, p)
  \/ ReadActive(r) \/ Switch(r)

OntologyNext ==
  \/ \E v \in Versions : CreateVersion(v)
  \/ \E r \in Requests : OntologyStep(r) \/ Abort(r)

OntologySpec == OntologyInit /\ [][OntologyNext]_ontologyVars

\* At every moment one version, once there is one, says what observations and
\* facts may mean: however activations overlap, each supersedes the version that
\* is active when it commits.  It needs clients that send expected_version.
OneActiveOntology == Seed # <<>> => Cardinality(Active) = 1
=============================================================================
