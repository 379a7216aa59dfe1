------------------------ MODULE OntologyVersionsProofs ------------------------
(***************************************************************************)
(* However many requests overlap, exactly one version is active, provided  *)
(* that clients send expected_version.  The argument rests on row_version: *)
(* it grows with every change of status, so a row that a request finds as  *)
(* it read it still has the status it had then.                            *)
(***************************************************************************)
EXTENDS OntologyVersions, FiniteSetTheorems, TLAPS

\* Version v has had this row_version, and if it has it still, that status.
Read(v, row, status) ==
  /\ v \in Versions /\ ontology[v].status # "NONE"
  /\ row \in Nat \ {0} /\ row <= ontology[v].row
  /\ ontology[v].row = row => ontology[v].status = status

\* What an activation in flight knows.
CallOK(c) ==
  /\ c.op \in {"activate", "switch"} => Read(c.version, c.expected, "DRAFT")
  /\ c.op = "switch" => /\ Read(c.active, c.activeRow, "ACTIVE")
                        /\ c.active = c.version => c.expected < c.activeRow
  /\ c.op = "define" => c.version \in Versions

\* The rows of versions that exist count from 1, one of them is active, and the
\* requests in flight know what they have read.
OntologyInv ==
  /\ OntologyTypeOK
  /\ \A v \in Versions : ontology[v].status # "NONE" => ontology[v].row # 0
  /\ \E a \in Versions : Active = {a}
  /\ DOMAIN call = Requests
  /\ \A r \in Requests : CallOK(call[r])

-----------------------------------------------------------------------------

\* The query for the active version returns the one there is.
LEMMA ActiveIsFound ==
  ASSUME NEW a \in Versions, Active = {a}
  PROVE  ActiveOntology = a
<1>1. a \in Nat
  BY DEF Versions
<1>2. \A u \in Active : u <= a
  BY <1>1
<1> QED
  BY <1>1, <1>2 DEF ActiveOntology

\* What was read stays known while rows of existing versions only change together
\* with a greater row_version.
LEMMA ReadIsStable ==
  ASSUME OntologyTypeOK, NEW v, NEW row, NEW status, Read(v, row, status),
         ontology' \in [Versions -> [status : Status, row : Nat, properties : SUBSET Properties]],
         ontology'[v].status # "NONE",
         \/ ontology'[v].row > ontology[v].row
         \/ ontology'[v].row = ontology[v].row /\ ontology'[v].status = ontology[v].status
  PROVE  Read(v, row, status)'
<1>1. ontology[v].row \in Nat /\ ontology'[v].row \in Nat /\ row \in Nat
  BY DEF OntologyTypeOK, Read
<1> QED
  BY <1>1 DEF Read

\* A step that leaves what requests have read known, and puts one of them at most
\* somewhere else, leaves all of them knowing what they know.
LEMMA CallsStayOK ==
  ASSUME NEW r \in Requests, NEW c,
         DOMAIN call = Requests, \A x \in Requests : CallOK(call[x]),
         call' = [call EXCEPT ![r] = c],
         CallOK(c)',
         \A v, row, status : Read(v, row, status) => Read(v, row, status)'
  PROVE  DOMAIN call' = Requests /\ \A x \in Requests : CallOK(call[x])'
<1>1. DOMAIN call' = Requests
  OBVIOUS
<1>2. ASSUME NEW x \in Requests PROVE CallOK(call[x])'
  <2>1. CASE x = r
    <3>1. call'[x] = c
      BY <2>1
    <3> QED
      BY <3>1 DEF CallOK
  <2>2. CASE x # r
    <3>1. call'[x] = call[x]
      BY <2>2
    <3> QED
      BY <3>1 DEF CallOK
  <2> QED
    BY <2>1, <2>2
<1> QED
  BY <1>1, <1>2

\* A step that leaves the ontology alone leaves everything read as it was.
LEMMA ReadWithoutChange ==
  ASSUME ontology' = ontology, NEW v, NEW row, NEW status, Read(v, row, status)
  PROVE  Read(v, row, status)'
  BY DEF Read

-----------------------------------------------------------------------------
(* The initial states and the steps.                                       *)

LEMMA InitInv ==
  ASSUME OntologyInit, Seed # <<>>
  PROVE  OntologyInv
<1>1. /\ MaxVersions \in Nat /\ Seed \in Seq(SUBSET Properties) /\ Len(Seed) <= MaxVersions
      /\ Len(Seed) \in Nat \ {0} /\ DOMAIN Seed = 1 .. Len(Seed)
  BY OntologyAssumption
<1>2. 1 \in Versions /\ 1 \in DOMAIN Seed
  BY <1>1 DEF Versions
<1>3. \A v \in DOMAIN Seed : Seed[v] \in SUBSET Properties
  BY <1>1
<1>4. OntologyTypeOK
  BY <1>3 DEF OntologyInit, OntologyTypeOK, Status
<1>5. \A v \in Versions : ontology[v].status # "NONE" => ontology[v].row # 0
  BY DEF OntologyInit
<1>6. Active = {1}
  BY <1>2 DEF OntologyInit, Active
<1>7. DOMAIN call = Requests /\ \A r \in Requests : CallOK(call[r])
  BY DEF OntologyInit, Idle, CallOK
<1> QED
  BY <1>2, <1>4, <1>5, <1>6, <1>7 DEF OntologyInv

\* An activation that passes its guards finds the version still a draft and the
\* version it supersedes still active: it is the one active version.
LEMMA SwitchIsCurrent ==
  ASSUME OntologyInv, NEW r \in Requests, call[r].op = "switch", MaySwitch(call[r])
  PROVE  /\ call[r].version \in Versions /\ ontology[call[r].version].status = "DRAFT"
         /\ Active = {call[r].active} /\ Superseded(call[r]) = {call[r].active}
<1> DEFINE c == call[r]
<1>1. Read(c.version, c.expected, "DRAFT") /\ Read(c.active, c.activeRow, "ACTIVE")
  BY DEF OntologyInv, CallOK
<1>2. c.expected # 0 /\ c.activeRow # 0
  BY <1>1 DEF Read
<1>3. ontology[c.version].status = "DRAFT"
  BY <1>1, <1>2 DEF MaySwitch, MayUpdate, Read
<1>4. c.active \in Versions /\ c.active # 0
  BY <1>1, OntologyAssumption DEF Read, Versions
<1>5. ASSUME c.active # c.version PROVE ontology[c.active].status = "ACTIVE"
  BY <1>1, <1>2, <1>4, <1>5 DEF MaySwitch, MayUpdate, Superseded, Read
<1>6. c.active # c.version
  <2> SUFFICES ASSUME c.active = c.version PROVE FALSE
    OBVIOUS
  <2>1. ontology[c.version].row = c.expected
    BY <1>2 DEF MaySwitch, MayUpdate
  <2>2. c.expected < c.activeRow
    BY DEF OntologyInv, CallOK
  <2>3. c.expected \in Nat /\ c.activeRow \in Nat /\ c.activeRow <= ontology[c.version].row
    BY <1>1 DEF Read
  <2> QED
    BY <2>1, <2>2, <2>3
<1> QED
  BY <1>1, <1>3, <1>4, <1>5, <1>6 DEF Superseded, Active, OntologyInv, Read

LEMMA StepInv ==
  ASSUME OntologyInv, OntologyNext, Expecting
  PROVE  OntologyInv'
<1> USE DEF OntologyInv
<1>1. ASSUME NEW v \in Versions, CreateVersion(v)
      PROVE  OntologyInv'
  <2>1. /\ ontology' = [ontology EXCEPT ![v] = [status |-> "DRAFT", row |-> 1, properties |-> {}]]
        /\ ontology[v].status = "NONE" /\ call' = call
    BY <1>1 DEF CreateVersion
  <2>2. OntologyTypeOK'
    BY <2>1 DEF OntologyTypeOK, Status
  <2>3. \A u \in Versions : ontology'[u].status # "NONE" => ontology'[u].row # 0
    BY <2>1 DEF OntologyTypeOK
  <2>4. Active' = Active
    BY <2>1 DEF Active, OntologyTypeOK
  <2>5. ASSUME NEW u, NEW row, NEW status, Read(u, row, status)
        PROVE  Read(u, row, status)'
    <3>1. ontology'[u] = ontology[u]
      BY <2>1, <2>5 DEF Read, OntologyTypeOK
    <3> QED
      BY <2>5, <3>1 DEF Read
  <2>6. \A r \in Requests : CallOK(call[r])'
    BY <2>1, <2>5 DEF CallOK
  <2> QED
    BY <2>1, <2>2, <2>3, <2>4, <2>6
<1>2. ASSUME NEW r \in Requests, Abort(r)
      PROVE  OntologyInv'
  <2>1. ontology' = ontology /\ call' = [call EXCEPT ![r] = Idle]
    BY <1>2 DEF Abort, Ends
  <2>2. CallOK(Idle)'
    BY DEF CallOK, Idle
  <2>3. DOMAIN call' = Requests /\ \A x \in Requests : CallOK(call[x])'
    BY <2>1, <2>2, CallsStayOK, ReadWithoutChange
  <2> QED
    BY <2>1, <2>3 DEF OntologyTypeOK, Active
<1>3. ASSUME NEW r \in Requests, NEW v \in Versions, BeginDefine(r, v)
      PROVE  OntologyInv'
  <2> DEFINE c == [op |-> "define", version |-> v]
  <2>1. ontology' = ontology /\ call' = [call EXCEPT ![r] = c]
    BY <1>3 DEF BeginDefine, Begins
  <2>2. CallOK(c)'
    BY DEF CallOK
  <2>3. DOMAIN call' = Requests /\ \A x \in Requests : CallOK(call[x])'
    BY <2>1, <2>2, CallsStayOK, ReadWithoutChange
  <2> QED
    BY <2>1, <2>3 DEF OntologyTypeOK, Active
<1>4. ASSUME NEW r \in Requests, NEW v \in Versions, BeginActivate(r, v)
      PROVE  OntologyInv'
  <2>1. PICK expected \in Expectations(v) :
          Begins(r, [op |-> "activate", version |-> v, expected |-> expected])
    BY <1>4 DEF BeginActivate
  <2> DEFINE c == [op |-> "activate", version |-> v, expected |-> expected]
  <2>2. ontology' = ontology /\ call' = [call EXCEPT ![r] = c]
    BY <1>4, <2>1 DEF BeginActivate, Begins
  <2>3. expected = ontology[v].row /\ ontology[v].status = "DRAFT"
    BY <1>4 DEF BeginActivate, Expectations
  <2>4. Read(v, expected, "DRAFT")
    BY <2>3 DEF Read, OntologyTypeOK
  <2>5. CallOK(c)'
    BY <2>2, <2>4, ReadWithoutChange DEF CallOK
  <2>6. DOMAIN call' = Requests /\ \A x \in Requests : CallOK(call[x])'
    BY <2>2, <2>5, CallsStayOK, ReadWithoutChange
  <2> QED
    BY <2>2, <2>6 DEF OntologyTypeOK, Active
<1>5. ASSUME NEW r \in Requests, NEW p \in Properties, Define(r, p)
      PROVE  OntologyInv'
  <2> DEFINE v == call[r].version
  <2>1. /\ ontology' = [ontology EXCEPT ![v].properties = @ \cup {p}]
        /\ call' = [call EXCEPT ![r] = Idle]
        /\ v \in Versions
    BY <1>5 DEF Define, Ends, CallOK
  <2>2. OntologyTypeOK'
    BY <2>1 DEF OntologyTypeOK
  <2>3. \A u \in Versions : ontology'[u].status = ontology[u].status /\ ontology'[u].row = ontology[u].row
    BY <2>1 DEF OntologyTypeOK
  <2>4. Active' = Active
    BY <2>3 DEF Active
  <2>5. \A u, row, status : Read(u, row, status) => Read(u, row, status)'
    BY <2>3 DEF Read
  <2>6. CallOK(Idle)'
    BY DEF CallOK, Idle
  <2>7. DOMAIN call' = Requests /\ \A x \in Requests : CallOK(call[x])'
    BY <2>1, <2>5, <2>6, CallsStayOK
  <2> QED
    BY <2>2, <2>3, <2>4, <2>7
<1>6. ASSUME NEW r \in Requests, ReadActive(r)
      PROVE  OntologyInv'
  <2>1. PICK a \in Versions : Active = {a}
    OBVIOUS
  <2>2. ActiveOntology = a /\ a # 0 /\ ontology[a].status = "ACTIVE"
    BY <2>1, ActiveIsFound, OntologyAssumption DEF Versions, Active
  <2> DEFINE c == [op |-> "switch", version |-> call[r].version, expected |-> call[r].expected,
                   active |-> a, activeRow |-> ontology[a].row]
  <2>3. ontology' = ontology /\ call' = [call EXCEPT ![r] = c]
    BY <1>6, <2>2 DEF ReadActive, Continues
  <2>4. Read(call[r].version, call[r].expected, "DRAFT")
    BY <1>6 DEF ReadActive, CallOK
  <2>5. Read(a, ontology[a].row, "ACTIVE")
    BY <2>2 DEF Read, OntologyTypeOK
  <2>6. a = call[r].version => call[r].expected < ontology[a].row
    BY <2>2, <2>4 DEF Read, OntologyTypeOK
  <2>7. CallOK(c)'
    BY <2>3, <2>4, <2>5, <2>6, ReadWithoutChange DEF CallOK
  <2>8. DOMAIN call' = Requests /\ \A x \in Requests : CallOK(call[x])'
    BY <2>3, <2>7, CallsStayOK, ReadWithoutChange
  <2> QED
    BY <2>3, <2>8 DEF OntologyTypeOK, Active
<1>7. ASSUME NEW r \in Requests, Switch(r)
      PROVE  OntologyInv'
  <2> DEFINE v == call[r].version
             a == call[r].active
  <2>1. /\ v \in Versions /\ ontology[v].status = "DRAFT"
        /\ Active = {a} /\ Superseded(call[r]) = {a}
    BY <1>7, SwitchIsCurrent DEF Switch
  <2>2. a \in Versions /\ a # v /\ ontology[a].status = "ACTIVE"
    BY <2>1 DEF Active
  <2>3. /\ ontology' = [u \in Versions |->
             IF u = v THEN Becomes(u, "ACTIVE")
             ELSE IF u = a THEN Becomes(u, "SUPERSEDED") ELSE ontology[u]]
        /\ call' = [call EXCEPT ![r] = Idle]
    BY <1>7, <2>1 DEF Switch, Ends
  <2>4. OntologyTypeOK'
    BY <2>3 DEF OntologyTypeOK, Status, Becomes
  <2>5. \A u \in Versions :
          /\ ontology'[u].status =
               IF u = v THEN "ACTIVE" ELSE IF u = a THEN "SUPERSEDED" ELSE ontology[u].status
          /\ ontology'[u].row = IF u \in {v, a} THEN ontology[u].row + 1 ELSE ontology[u].row
    BY <2>3 DEF Becomes
  <2>6. \A u \in Versions : ontology'[u].status # "NONE" => ontology'[u].row # 0
    BY <2>5 DEF OntologyTypeOK
  <2>7. Active' = {v}
    BY <2>1, <2>2, <2>5 DEF Active
  <2>8. ASSUME NEW u, NEW row, NEW status, Read(u, row, status)
        PROVE  Read(u, row, status)'
    <3>1. u \in Versions /\ ontology[u].row \in Nat
      BY <2>8 DEF Read, OntologyTypeOK
    <3>2. ontology'[u].status # "NONE"
      BY <2>5, <2>8, <3>1 DEF Read
    <3>3. \/ ontology'[u].row > ontology[u].row
          \/ ontology'[u].row = ontology[u].row /\ ontology'[u].status = ontology[u].status
      BY <2>5, <3>1
    <3> QED
      BY <2>4, <2>8, <3>2, <3>3, ReadIsStable DEF OntologyTypeOK
  <2>9. CallOK(Idle)'
    BY DEF CallOK, Idle
  <2>10. DOMAIN call' = Requests /\ \A x \in Requests : CallOK(call[x])'
    BY <2>3, <2>8, <2>9, CallsStayOK
  <2> QED
    BY <2>1, <2>4, <2>6, <2>7, <2>10
<1> QED
  BY <1>1, <1>2, <1>3, <1>4, <1>5, <1>6, <1>7 DEF OntologyNext, OntologyStep

-----------------------------------------------------------------------------
(* Theorems.                                                               *)

\* The versions and their definitions have their types, and what an activation in
\* flight has read is what it will find unless the row_version has grown.
THEOREM OntologyInvariant ==
  ASSUME Seed # <<>>, Expecting
  PROVE  OntologySpec => []OntologyInv
<1>1. OntologyInit => OntologyInv
  BY InitInv
<1>2. ASSUME OntologyInv, [OntologyNext]_ontologyVars
      PROVE  OntologyInv'
  <2>1. CASE OntologyNext
    BY <1>2, <2>1, StepInv
  <2>2. CASE UNCHANGED ontologyVars
    <3>1. ontology' = ontology /\ call' = call
      BY <2>2 DEF ontologyVars
    <3>2. \A r \in Requests : CallOK(call[r])'
      BY <1>2, <3>1, ReadWithoutChange DEF OntologyInv, CallOK
    <3> QED
      BY <1>2, <3>1, <3>2 DEF OntologyInv, OntologyTypeOK, Active
  <2> QED
    BY <1>2, <2>1, <2>2
<1> QED
  BY <1>1, <1>2, PTL DEF OntologySpec

\* activate: with any number of overlapping activations, definitions and aborts,
\* any number of versions and clients that send expected_version, there is one
\* active version at every moment.
THEOREM OneActive ==
  ASSUME Seed # <<>>, Expecting
  PROVE  OntologySpec => []OneActiveOntology
<1>1. OntologyInv => OneActiveOntology
  BY FS_Singleton DEF OntologyInv, OneActiveOntology
<1> QED
  BY <1>1, OntologyInvariant, PTL
===============================================================================
