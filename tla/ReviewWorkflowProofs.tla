------------------------- MODULE ReviewWorkflowProofs -------------------------
(***************************************************************************)
(* Proofs about observations, reviews and proposals, for any observations, *)
(* versions and requests.  Most of what a decision relies on was read in   *)
(* an earlier step, and an approval of an observation commits twice: the   *)
(* argument is that what a request has read can only grow, or is refused   *)
(* by the row_version it was read with.                                    *)
(***************************************************************************)
EXTENDS ReviewWorkflow, OntologyVersionsProofs, WellFoundedInduction, SequenceTheorems

Activated(v) == v \in Versions /\ ontology[v].status \in {"ACTIVE", "SUPERSEDED"}

ReviewRow ==
  [entity : Observations \cup Properties, status : {"NEEDS_REVIEW"} \cup Decided, row : Nat,
   proposal : {"NONE", "PROPOSED"} \cup Decided, proposalRow : Nat]

\* Review i has had this row_version, and if it has it still, it is open.
ReadReview(i, row) ==
  /\ i \in DOMAIN reviews
  /\ row \in Nat /\ row <= reviews[i].row
  /\ reviews[i].row = row => Open(i)

OfObservation(i) == reviews[i].entity \in Observations

\* What a request in flight knows.
Knows(c) ==
  /\ c.op \in {"intake", "propose", "insert"} =>
       c.observation \in Observations /\ (c.active = 0 \/ Activated(c.active))
  /\ c.op = "insert" /\ c.proposed =>
       \E i \in DOMAIN reviews : reviews[i].entity = PropertyOf[c.observation]
  /\ c.op = "accept" =>
       /\ c.observation \in Observations /\ Activated(c.active)
       /\ c.review # 0 =>
            ReadReview(c.review, c.row) /\ reviews[c.review].entity = c.observation
  /\ c.op \in {"decide", "proposal", "close"} => ReadReview(c.review, c.row) /\ c.action \in Actions
  /\ c.op = "decide" /\ OfObservation(c.review) => c.action = "approve"
  /\ c.op = "proposal" => ~OfObservation(c.review)
  /\ c.op = "close" =>
       /\ OfObservation(c.review)
       /\ c.action = "approve" => observation[reviews[c.review].entity] = "ACCEPTED"

RequestsKnow == DOMAIN call = Requests /\ \A r \in Requests : Knows(call[r])

FactsWithinOntology ==
  \A o \in Observations :
    /\ factOf[o] # 0 => Activated(factOf[o]) /\ Known(o, factOf[o])
    /\ observation[o] = "ACCEPTED" => factOf[o] # 0

ReviewInv ==
  /\ TypeOK
  /\ reviews \in Seq(ReviewRow)
  /\ RequestsKnow
  /\ ProposalAgreesWithReview
  /\ HeldIsExplained
  /\ ApprovedIsAccepted
  /\ FactsWithinOntology

\* What every step of the workflow respects: reviews stay and keep what they are about,
\* an acceptance and an activation are final, and what a version defines stays.
Respects ==
  /\ \A i \in DOMAIN reviews :
       /\ i \in DOMAIN reviews' /\ reviews'[i].entity = reviews[i].entity
       /\ reviews'[i] = reviews[i] \/ reviews'[i].row > reviews[i].row
  /\ \A o \in Observations : observation[o] = "ACCEPTED" => observation'[o] = "ACCEPTED"
  /\ \A v \in Versions : Activated(v) =>
       Activated(v)' /\ ontology[v].properties \subseteq ontology'[v].properties

-----------------------------------------------------------------------------
(* What requests know.                                                     *)

LEMMA ReadIsKept ==
  ASSUME reviews \in Seq(ReviewRow), reviews' \in Seq(ReviewRow), Respects,
         NEW i, NEW row, ReadReview(i, row)
  PROVE  ReadReview(i, row)' /\ (OfObservation(i) <=> OfObservation(i)')
<1>1. /\ i \in DOMAIN reviews /\ i \in DOMAIN reviews' /\ row \in Nat
      /\ reviews'[i].entity = reviews[i].entity
      /\ reviews'[i] = reviews[i] \/ reviews'[i].row > reviews[i].row
  BY DEF ReadReview, Respects
<1>2. reviews[i] \in ReviewRow /\ reviews'[i] \in ReviewRow
  BY <1>1, ElementOfSeq
<1>3. reviews[i].row \in Nat /\ reviews'[i].row \in Nat
  BY <1>2 DEF ReviewRow
<1> QED
  BY <1>1, <1>3 DEF ReadReview, Open, OfObservation

LEMMA KnowledgeIsKept ==
  ASSUME reviews \in Seq(ReviewRow), reviews' \in Seq(ReviewRow), Respects, NEW c, Knows(c)
  PROVE  Knows(c)'
<1>1. c.op \in {"intake", "propose", "insert"} =>
        c.observation \in Observations /\ (c.active = 0 \/ Activated(c.active)')
  BY DEF Knows, Respects, Activated
<1>2. ASSUME c.op = "insert", c.proposed
      PROVE  \E i \in DOMAIN reviews' : reviews'[i].entity = PropertyOf[c.observation]
  BY <1>2 DEF Knows, Respects
<1>3. ASSUME c.op = "accept"
      PROVE  /\ c.observation \in Observations /\ Activated(c.active)'
             /\ c.review # 0 =>
                  ReadReview(c.review, c.row)' /\ reviews'[c.review].entity = c.observation
  <2>1. c.observation \in Observations /\ Activated(c.active)'
    BY <1>3 DEF Knows, Respects, Activated
  <2>2. ASSUME c.review # 0
        PROVE  ReadReview(c.review, c.row)' /\ reviews'[c.review].entity = c.observation
    <3>1. ReadReview(c.review, c.row) /\ reviews[c.review].entity = c.observation
      BY <1>3, <2>2 DEF Knows
    <3> QED
      BY <3>1, ReadIsKept DEF ReadReview, Respects
  <2> QED
    BY <2>1, <2>2
<1>4. ASSUME c.op \in {"decide", "proposal", "close"}
      PROVE  /\ ReadReview(c.review, c.row)' /\ c.action \in Actions
             /\ OfObservation(c.review) <=> OfObservation(c.review)'
  BY <1>4, ReadIsKept DEF Knows
<1>5. ASSUME c.op = "close", c.action = "approve"
      PROVE  observation'[reviews'[c.review].entity] = "ACCEPTED"
  BY <1>5 DEF Knows, Respects, ReadReview, OfObservation
<1> QED
  BY <1>1, <1>2, <1>3, <1>4, <1>5 DEF Knows

\* A step of one request leaves all of them knowing what they know.
LEMMA RequestsStayKnowing ==
  ASSUME reviews \in Seq(ReviewRow), reviews' \in Seq(ReviewRow), Respects, RequestsKnow,
         NEW r \in Requests, NEW c, call' = [call EXCEPT ![r] = c], Knows(c)'
  PROVE  RequestsKnow'
<1>1. DOMAIN call' = Requests
  BY DEF RequestsKnow
<1>2. ASSUME NEW x \in Requests
      PROVE  Knows(call[x])'
  <2>1. CASE x = r
    <3>1. call'[x] = c
      BY <2>1 DEF RequestsKnow
    <3> QED
      BY <3>1 DEF Knows
  <2>2. CASE x # r
    <3>1. call'[x] = call[x] /\ Knows(call[x])
      BY <2>2 DEF RequestsKnow
    <3>2. \A y : y = call[x] => Knows(y)'
      BY <3>1, KnowledgeIsKept
    <3> QED
      BY <3>1, <3>2 DEF Knows
  <2> QED
    BY <2>1, <2>2
<1> QED
  BY <1>1, <1>2 DEF RequestsKnow

-----------------------------------------------------------------------------
(* The ontology beside the reviews.                                        *)

\* What get_active_ontology returns is a version that was activated, or none.
LEMMA ActiveIsActivated == ActiveOntology = 0 \/ Activated(ActiveOntology)
<1> SUFFICES ASSUME Active # {} PROVE Activated(ActiveOntology)
  BY DEF ActiveOntology
<1>1. MaxVersions \in Nat /\ \A v \in Active : v \in Nat /\ v <= MaxVersions
  BY OntologyAssumption DEF Active, Versions
<1> DEFINE S == {MaxVersions - v : v \in Active}
<1>2. S \in SUBSET Nat /\ S # {}
  BY <1>1
<1>3. \E m \in S : \A k \in S : m <= k
  <2> HIDE DEF S
  <2>1. PICK m \in S : \A k \in S : <<k, m>> \notin OpToRel(<, Nat)
    BY <1>2, NatLessThanWellFounded, WFMin
  <2>2. \A k \in S : ~ (k < m)
    BY <1>2, <2>1 DEF OpToRel
  <2> QED
    BY <1>2, <2>2
<1>4. PICK v \in Active : \A k \in S : MaxVersions - v <= k
  BY <1>3
<1>5. ASSUME NEW u \in Active
      PROVE  u <= v
  <2>1. MaxVersions - u \in S
    OBVIOUS
  <2>2. MaxVersions - v <= MaxVersions - u
    BY <1>4, <2>1
  <2> HIDE DEF S
  <2> QED
    BY <1>1, <2>2
<1>6. ActiveOntology \in Active
  BY <1>5 DEF ActiveOntology
<1> QED
  BY <1>6 DEF Active, Activated

\* Versions are never left once activated, and definitions are only added.
LEMMA OntologyGrows ==
  ASSUME OntologyTypeOK, OntologyNext
  PROVE  /\ OntologyTypeOK'
         /\ \A v \in Versions : Activated(v) =>
              Activated(v)' /\ ontology[v].properties \subseteq ontology'[v].properties
<1>1. ASSUME NEW v \in Versions, CreateVersion(v)
      PROVE  /\ OntologyTypeOK'
             /\ \A u \in Versions : Activated(u) =>
                  Activated(u)' /\ ontology[u].properties \subseteq ontology'[u].properties
  BY <1>1 DEF CreateVersion, OntologyTypeOK, Activated, Status
<1>2. ASSUME NEW r \in Requests, Switch(r)
      PROVE  /\ OntologyTypeOK'
             /\ \A u \in Versions : Activated(u) =>
                  Activated(u)' /\ ontology[u].properties \subseteq ontology'[u].properties
  BY <1>2 DEF Switch, Becomes, OntologyTypeOK, Activated, Status
<1>3. ASSUME NEW r \in Requests, NEW p \in Properties, Define(r, p)
      PROVE  /\ OntologyTypeOK'
             /\ \A u \in Versions : Activated(u) =>
                  Activated(u)' /\ ontology[u].properties \subseteq ontology'[u].properties
  <2> DEFINE v == call[r].version
  <2>1. ontology' = [ontology EXCEPT ![v].properties = @ \cup {p}]
    BY <1>3 DEF Define
  <2> HIDE DEF v
  <2>2. OntologyTypeOK'
    BY <2>1 DEF OntologyTypeOK
  <2>3. \A u \in Versions : /\ ontology'[u].status = ontology[u].status
                            /\ ontology[u].properties \subseteq ontology'[u].properties
    BY <2>1 DEF OntologyTypeOK
  <2> QED
    BY <2>2, <2>3 DEF Activated
<1>4. CASE UNCHANGED ontology
  BY <1>4 DEF OntologyTypeOK, Activated
<1> QED
  BY <1>1, <1>2, <1>3, <1>4 DEF OntologyNext, OntologyStep, Abort, BeginDefine, BeginActivate, ReadActive

\* A request to the ontology says nothing of reviews.
LEMMA OntologyRequests ==
  ASSUME OntologyNext
  PROVE  call' = call \/ \E r \in Requests : \E c :
           call' = [call EXCEPT ![r] = c] /\ c.op \in {"none", "define", "activate", "switch"}
<1> DEFINE Ops == {"none", "define", "activate", "switch"}
           Asks(r) == \E c : call' = [call EXCEPT ![r] = c] /\ c.op \in Ops
<1>1. ASSUME NEW r \in Requests, Ends(r)
      PROVE  Asks(r)
  <2>1. call' = [call EXCEPT ![r] = Idle] /\ Idle.op \in Ops
    BY <1>1 DEF Ends, Idle
  <2> QED
    BY <2>1
<1>2. ASSUME NEW r \in Requests, NEW v \in Versions, BeginDefine(r, v)
      PROVE  Asks(r)
  <2> DEFINE c == [op |-> "define", version |-> v]
  <2>1. call' = [call EXCEPT ![r] = c] /\ c.op \in Ops
    BY <1>2 DEF BeginDefine, Begins
  <2> HIDE DEF c
  <2> QED
    BY <2>1
<1>3. ASSUME NEW r \in Requests, NEW v \in Versions, BeginActivate(r, v)
      PROVE  Asks(r)
  <2>1. PICK expected \in Expectations(v) :
          Begins(r, [op |-> "activate", version |-> v, expected |-> expected])
    BY <1>3 DEF BeginActivate
  <2> DEFINE c == [op |-> "activate", version |-> v, expected |-> expected]
  <2>2. call' = [call EXCEPT ![r] = c] /\ c.op \in Ops
    BY <2>1 DEF Begins
  <2> HIDE DEF c
  <2> QED
    BY <2>2
<1>4. ASSUME NEW r \in Requests, ReadActive(r)
      PROVE  Asks(r)
  <2> DEFINE c == [op |-> "switch", version |-> call[r].version, expected |-> call[r].expected,
                   active |-> ActiveOntology,
                   activeRow |-> IF ActiveOntology = 0 THEN 0 ELSE ontology[ActiveOntology].row]
  <2>1. call' = [call EXCEPT ![r] = c] /\ c.op \in Ops
    BY <1>4 DEF ReadActive, Continues
  <2> HIDE DEF c
  <2> QED
    BY <2>1
<1> HIDE DEF Asks
<1>5. call' = call \/ \E r \in Requests : Asks(r)
  BY <1>1, <1>2, <1>3, <1>4 DEF OntologyNext, OntologyStep, CreateVersion, Abort, Define, Switch
<1> QED
  BY <1>5 DEF Asks

-----------------------------------------------------------------------------
(* Steps.                                                                  *)

\* A step of the ontology.
LEMMA OntologyKeepsReviews ==
  ASSUME ReviewInv, OntologyNext, UNCHANGED reviewVars
  PROVE  ReviewInv'
<1>1. UNCHANGED <<observation, factOf, reviews>>
  BY DEF reviewVars
<1>2. /\ OntologyTypeOK'
      /\ \A v \in Versions : Activated(v) =>
           Activated(v)' /\ ontology[v].properties \subseteq ontology'[v].properties
  BY OntologyGrows DEF ReviewInv, TypeOK
<1>3. TypeOK'
  BY <1>1, <1>2 DEF ReviewInv, TypeOK
<1>4. Respects
  BY <1>1, <1>2 DEF Respects
<1>5. RequestsKnow'
  <2>1. CASE call' = call
    <3>1. \A y : Knows(y) => Knows(y)'
      BY <1>1, <1>4, KnowledgeIsKept DEF ReviewInv
    <3> QED
      BY <2>1, <3>1 DEF ReviewInv, RequestsKnow, Knows
  <2>2. ASSUME NEW r \in Requests, NEW c, call' = [call EXCEPT ![r] = c],
               c.op \in {"none", "define", "activate", "switch"}
        PROVE  RequestsKnow'
    <3>1. Knows(c)'
      BY <2>2 DEF Knows
    <3> QED
      BY <1>1, <1>4, <2>2, <3>1, RequestsStayKnowing DEF ReviewInv
  <2> QED
    BY <2>1, <2>2, OntologyRequests
<1>6. FactsWithinOntology'
  <2> SUFFICES ASSUME NEW o \in Observations
               PROVE  /\ factOf[o] # 0 => Activated(factOf[o])' /\ Known(o, factOf[o])'
                      /\ observation[o] = "ACCEPTED" => factOf[o] # 0
    BY <1>1 DEF FactsWithinOntology, Activated, Known
  <2>1. observation[o] = "ACCEPTED" => factOf[o] # 0
    BY DEF ReviewInv, FactsWithinOntology
  <2>2. ASSUME factOf[o] # 0
        PROVE  Activated(factOf[o])' /\ Known(o, factOf[o])'
    <3>1. Activated(factOf[o]) /\ Known(o, factOf[o])
      BY <2>2 DEF ReviewInv, FactsWithinOntology
    <3>2. factOf[o] \in Versions /\ factOf'[o] = factOf[o]
      BY <1>1, <3>1 DEF Activated
    <3>3. /\ factOf[o] \in Versions /\ ontology'[factOf[o]].status \in {"ACTIVE", "SUPERSEDED"}
          /\ ontology[factOf[o]].properties \subseteq ontology'[factOf[o]].properties
      BY <1>2, <3>1, <3>2 DEF Activated
    <3> QED
      BY <3>1, <3>2, <3>3 DEF Activated, Known
  <2> QED
    BY <2>1, <2>2
<1>7. ProposalAgreesWithReview' /\ HeldIsExplained' /\ ApprovedIsAccepted'
  BY <1>1 DEF ReviewInv, ProposalAgreesWithReview, HeldIsExplained, ApprovedIsAccepted, Open
<1> QED
  BY <1>1, <1>3, <1>5, <1>6, <1>7 DEF ReviewInv

\* A step in which a request reads, or ends.
LEMMA ReadingKeeps ==
  ASSUME ReviewInv, NEW r \in Requests, NEW c, Knows(c), call' = [call EXCEPT ![r] = c],
         UNCHANGED <<ontology, observation, factOf, reviews>>
  PROVE  ReviewInv'
<1>1. Respects
  BY DEF Respects, Activated
<1>2. Knows(c)'
  BY <1>1, KnowledgeIsKept DEF ReviewInv
<1>3. RequestsKnow'
  BY <1>1, <1>2, RequestsStayKnowing DEF ReviewInv
<1>4. TypeOK' /\ FactsWithinOntology'
  BY DEF ReviewInv, TypeOK, OntologyTypeOK, FactsWithinOntology, Activated, Known
<1>5. ProposalAgreesWithReview' /\ HeldIsExplained' /\ ApprovedIsAccepted'
  BY DEF ReviewInv, ProposalAgreesWithReview, HeldIsExplained, ApprovedIsAccepted, Open
<1> QED
  BY <1>3, <1>4, <1>5 DEF ReviewInv

\* A request begins, and reads the active version or the review it is about.
LEMMA BeginningKeeps ==
  ASSUME ReviewInv, NEW r \in Requests
  PROVE  /\ \A o \in Observations : BeginIntake(r, o) \/ BeginAccept(r, o) => ReviewInv'
         /\ \A i \in DOMAIN reviews, action \in Actions : BeginDecide(r, i, action) => ReviewInv'
<1>1. ASSUME NEW o \in Observations, BeginIntake(r, o)
      PROVE  ReviewInv'
  <2> DEFINE c == [op |-> "intake", observation |-> o, active |-> ActiveOntology]
  <2>1. Knows(c)
    BY ActiveIsActivated DEF Knows
  <2>2. call' = [call EXCEPT ![r] = c] /\ UNCHANGED <<ontology, observation, factOf, reviews>>
    BY <1>1 DEF BeginIntake, Begins, reviewVars
  <2> HIDE DEF c
  <2> QED
    BY <2>1, <2>2, ReadingKeeps
<1>2. ASSUME NEW o \in Observations, BeginAccept(r, o)
      PROVE  ReviewInv'
  <2> DEFINE c == Accepting(o, 0, 0)
  <2>1. Knows(c)
    BY <1>2, ActiveIsActivated DEF Knows, Accepting, BeginAccept
  <2>2. call' = [call EXCEPT ![r] = c] /\ UNCHANGED <<ontology, observation, factOf, reviews>>
    BY <1>2 DEF BeginAccept, Begins, reviewVars
  <2> HIDE DEF c
  <2> QED
    BY <2>1, <2>2, ReadingKeeps
<1>3. ASSUME NEW i \in DOMAIN reviews, NEW action \in Actions, BeginDecide(r, i, action)
      PROVE  ReviewInv'
  <2> DEFINE alone == reviews[i].proposal = "NONE" /\ action # "approve"
             c == [op |-> IF alone THEN "close" ELSE "decide",
                   review |-> i, row |-> reviews[i].row, action |-> action]
  <2>1. reviews[i].row \in Nat
    <3>1. reviews[i] \in ReviewRow
      BY ElementOfSeq DEF ReviewInv
    <3> QED
      BY <3>1 DEF ReviewRow
  <2>2. ReadReview(i, reviews[i].row)
    BY <1>3, <2>1 DEF ReadReview, BeginDecide
  <2>3. reviews[i].proposal = "NONE" <=> OfObservation(i)
    BY DEF ReviewInv, TypeOK, OfObservation
  <2>4. Knows(c)
    BY <2>2, <2>3 DEF Knows
  <2>5. call' = [call EXCEPT ![r] = c] /\ UNCHANGED <<ontology, observation, factOf, reviews>>
    BY <1>3 DEF BeginDecide, Begins, reviewVars
  <2> HIDE DEF c
  <2> QED
    BY <2>4, <2>5, ReadingKeeps
<1> QED
  BY <1>1, <1>2, <1>3

\* A request in flight reads on: is the property known, is there an open proposal,
\* has another approval accepted the observation.
LEMMA ReadingOnKeeps ==
  ASSUME ReviewInv, NEW r \in Requests
  PROVE  Map(r) \/ FindProposal(r) \/ ReadObservation(r) \/ ReadProposal(r) => ReviewInv'
<1>0. Knows(call[r])
  BY DEF ReviewInv, RequestsKnow
<1>1. ASSUME Map(r) PROVE ReviewInv'
  <2> DEFINE c == Inserting(call[r], FALSE)
  <2>1. Knows(c)
    BY <1>0, <1>1 DEF Knows, Inserting, Map
  <2>2. call' = [call EXCEPT ![r] = c] /\ UNCHANGED <<ontology, observation, factOf, reviews>>
    BY <1>1 DEF Map, Continues, reviewVars
  <2> HIDE DEF c
  <2> QED
    BY <2>1, <2>2, ReadingKeeps
<1>2. ASSUME FindProposal(r) PROVE ReviewInv'
  <2> DEFINE Found == OpenProposals(PropertyOf[call[r].observation])
             d == Inserting(call[r], TRUE)
             e == [call[r] EXCEPT !.op = "propose"]
             c == IF Found # {} THEN d ELSE e
  <2>1. /\ call[r].op = "intake" /\ call[r].observation \in Observations
        /\ call[r].active = 0 \/ Activated(call[r].active)
    BY <1>0, <1>2 DEF Knows, FindProposal
  <2>2. ASSUME Found # {} PROVE Knows(d)
    BY <2>1, <2>2 DEF Knows, Inserting, OpenProposals
  <2>3. /\ e.op \in {"propose", call[r].op} /\ e.op # "none"
        /\ e.observation = call[r].observation /\ e.active = call[r].active
    BY <2>1
  <2>4. Knows(e)
    BY <2>1, <2>3 DEF Knows
  <2>5. Knows(c)
    BY <2>2, <2>4
  <2>6. call' = [call EXCEPT ![r] = c] /\ UNCHANGED <<ontology, observation, factOf, reviews>>
    BY <1>2 DEF FindProposal, Continues, reviewVars
  <2> HIDE DEF c
  <2> QED
    BY <2>5, <2>6, ReadingKeeps
<1>3. ASSUME ReadObservation(r) PROVE ReviewInv'
  <2> DEFINE i == call[r].review
             o == reviews[i].entity
  <2>1. ReadReview(i, call[r].row) /\ call[r].op = "decide" /\ call[r].action \in Actions
    BY <1>0, <1>3 DEF Knows, ReadObservation
  <2>2. i \in DOMAIN reviews /\ reviews[i].proposal = "NONE"
    BY <1>3, <2>1 DEF ReadReview, ReadObservation
  <2>3. OfObservation(i) /\ o \in Observations
    BY <2>2 DEF ReviewInv, TypeOK, OfObservation
  <2>4. call[r].action = "approve"
    BY <1>0, <2>1, <2>3 DEF Knows
  <2>5. UNCHANGED <<ontology, observation, factOf, reviews>>
    BY <1>3 DEF ReadObservation, reviewVars
  <2>6. ASSUME observation[o] = "ACCEPTED", NEW c, c = [call[r] EXCEPT !.op = "close"],
               call' = [call EXCEPT ![r] = c]
        PROVE  ReviewInv'
    <3>1. /\ c.op \in {"close", call[r].op} /\ c.review = i /\ c.row = call[r].row
          /\ c.action = call[r].action
      BY <2>6
    <3>2. Knows(c)
      BY <2>1, <2>3, <2>4, <2>6, <3>1 DEF Knows
    <3> QED
      BY <2>5, <2>6, <3>2, ReadingKeeps
  <2>7. ASSUME ActiveOntology # 0, NEW c, c = Accepting(o, i, call[r].row),
               call' = [call EXCEPT ![r] = c]
        PROVE  ReviewInv'
    <3>1. Knows(c)
      BY <2>1, <2>3, <2>7, ActiveIsActivated DEF Knows, Accepting
    <3> QED
      BY <2>5, <2>7, <3>1, ReadingKeeps
  <2> QED
    BY <1>3, <2>6, <2>7 DEF ReadObservation, Continues
<1>4. ASSUME ReadProposal(r) PROVE ReviewInv'
  <2> DEFINE i == call[r].review
             c == [op |-> "proposal", review |-> i, row |-> call[r].row,
                   action |-> call[r].action, proposalRow |-> reviews[i].proposalRow]
  <2>1. ReadReview(i, call[r].row) /\ call[r].action \in Actions /\ reviews[i].proposal # "NONE"
    BY <1>0, <1>4 DEF Knows, ReadProposal
  <2>2. ~OfObservation(i)
    BY <2>1 DEF ReadReview, ReviewInv, TypeOK, OfObservation
  <2>3. Knows(c)
    BY <2>1, <2>2 DEF Knows
  <2>4. call' = [call EXCEPT ![r] = c] /\ UNCHANGED <<ontology, observation, factOf, reviews>>
    BY <1>4 DEF ReadProposal, Continues, reviewVars
  <2> HIDE DEF c
  <2> QED
    BY <2>3, <2>4, ReadingKeeps
<1> QED
  BY <1>1, <1>2, <1>3, <1>4

-----------------------------------------------------------------------------
(* Steps that create a review.                                             *)

\* The properties of the rows of reviews, each by itself.
RowsOK ==
  /\ reviews \in Seq(ReviewRow)
  /\ \A i \in DOMAIN reviews : reviews[i].proposal = "NONE" <=> OfObservation(i)
  /\ ProposalAgreesWithReview
  /\ ApprovedIsAccepted

LEMMA RowsTyped ==
  ASSUME reviews \in Seq(ReviewRow), NEW i \in DOMAIN reviews
  PROVE  /\ reviews[i] \in ReviewRow /\ reviews[i].entity \in Observations \cup Properties
         /\ reviews[i].status \in {"NEEDS_REVIEW"} \cup Decided
         /\ reviews[i].proposal \in {"NONE", "PROPOSED"} \cup Decided
         /\ reviews[i].row \in Nat /\ reviews[i].proposalRow \in Nat
<1>1. reviews[i] \in ReviewRow
  BY ElementOfSeq
<1> QED
  BY <1>1 DEF ReviewRow

RowsInRange ==
  \A i \in DOMAIN reviews :
    /\ reviews[i].entity \in Observations \cup Properties
    /\ reviews[i].status \in {"NEEDS_REVIEW"} \cup Decided
    /\ reviews[i].proposal \in {"NONE", "PROPOSED"} \cup Decided
    /\ reviews[i].proposal = "NONE" <=> reviews[i].entity \in Observations

LEMMA ReviewInvHasRows == ReviewInv => RowsOK
  BY DEF ReviewInv, RowsOK, TypeOK, OfObservation

LEMMA RowsOKInRange == RowsOK => RowsInRange
<1> SUFFICES ASSUME RowsOK, NEW i \in DOMAIN reviews
             PROVE  /\ reviews[i].entity \in Observations \cup Properties
                    /\ reviews[i].status \in {"NEEDS_REVIEW"} \cup Decided
                    /\ reviews[i].proposal \in {"NONE", "PROPOSED"} \cup Decided
                    /\ reviews[i].proposal = "NONE" <=> reviews[i].entity \in Observations
  BY DEF RowsInRange
<1>1. reviews \in Seq(ReviewRow)
  BY DEF RowsOK
<1> QED
  BY <1>1, RowsTyped DEF RowsOK, OfObservation

LEMMA RowsStayInRange == RowsOK' => RowsInRange'
  BY RowsOKInRange, PTL

\* A review is added behind those there are, open and with its proposal open.
LEMMA NewReview ==
  ASSUME ReviewInv, NEW entity, NEW proposal,
         \/ entity \in Observations /\ proposal = "NONE"
         \/ entity \in Properties /\ proposal = "PROPOSED",
         reviews' = Append(reviews, ReviewOf(entity, proposal)),
         ontology' = ontology,
         \A o \in Observations : observation[o] = "ACCEPTED" => observation'[o] = "ACCEPTED"
  PROVE  Respects /\ RowsOK' /\ \E i \in DOMAIN reviews' : reviews'[i].entity = entity
<1> DEFINE new == ReviewOf(entity, proposal)
           n == Len(reviews) + 1
<1>1. new \in ReviewRow
  BY DEF ReviewOf, ReviewRow
<1>2. /\ reviews \in Seq(ReviewRow) /\ reviews' \in Seq(ReviewRow) /\ Len(reviews) \in Nat
      /\ DOMAIN reviews = 1 .. Len(reviews) /\ DOMAIN reviews' = 1 .. n
      /\ \A i \in 1 .. Len(reviews) : reviews'[i] = reviews[i]
      /\ reviews'[n] = new
  <2>1. reviews \in Seq(ReviewRow)
    BY DEF ReviewInv
  <2>2. reviews' = Append(reviews, new)
    OBVIOUS
  <2> HIDE DEF new
  <2> QED
    BY <1>1, <2>1, <2>2, AppendProperties, LenProperties
<1>3. \A i \in DOMAIN reviews' : \/ i \in DOMAIN reviews /\ reviews'[i] = reviews[i]
                               \/ reviews'[i] = new
  BY <1>2
<1>4. /\ new.entity = entity /\ new.status = "NEEDS_REVIEW" /\ new.proposal = proposal
      /\ entity \in Observations <=> proposal = "NONE"
  BY ReviewAssumption DEF ReviewOf
<1> HIDE DEF new, n
<1>5. Respects
  BY <1>2 DEF Respects, Activated, n
<1>6. RowsOK
  BY ReviewInvHasRows
<1>7. \A i \in DOMAIN reviews' : reviews'[i].proposal = "NONE" <=> OfObservation(i)'
  BY <1>3, <1>4, <1>6 DEF RowsOK, OfObservation
<1>8. ProposalAgreesWithReview'
  BY <1>3, <1>4, <1>6 DEF RowsOK, ProposalAgreesWithReview, Open
<1>9. ApprovedIsAccepted'
  BY <1>3, <1>4, <1>6 DEF RowsOK, ApprovedIsAccepted
<1>10. n \in DOMAIN reviews' /\ reviews'[n].entity = entity
  BY <1>2, <1>4 DEF n
<1> QED
  BY <1>2, <1>5, <1>7, <1>8, <1>9, <1>10 DEF RowsOK

\* The parts of the invariant that a step of the workflow leaves to be shown.
LEMMA StepKeeps ==
  ASSUME ReviewInv, Respects, RowsOK', ontology' = ontology,
         NEW r \in Requests, NEW c, call' = [call EXCEPT ![r] = c], Knows(c)',
         observation' \in [Observations -> {"NONE", "RAW", "MAPPED", "NEEDS_REVIEW", "ACCEPTED"}],
         factOf' \in [Observations -> 0 .. MaxVersions],
         FactsWithinOntology',
         \A o \in Observations : observation'[o] = "NEEDS_REVIEW" =>
           \/ observation[o] = "NEEDS_REVIEW"
           \/ \E i \in DOMAIN reviews' : reviews'[i].entity \in {o, PropertyOf[o]}
  PROVE  ReviewInv'
<1>1. TypeOK'
  <2>1. OntologyTypeOK'
    BY DEF ReviewInv, TypeOK, OntologyTypeOK
  <2>2. RowsInRange'
    BY RowsStayInRange
  <2> QED
    BY <2>1, <2>2 DEF TypeOK, RowsInRange
<1>2. RequestsKnow'
  BY RequestsStayKnowing DEF ReviewInv, RowsOK
<1>3. HeldIsExplained'
  <2>1. \A i \in DOMAIN reviews : i \in DOMAIN reviews' /\ reviews'[i].entity = reviews[i].entity
    BY DEF Respects
  <2> QED
    BY <2>1 DEF ReviewInv, HeldIsExplained
<1> QED
  BY <1>1, <1>2, <1>3 DEF ReviewInv, RowsOK

\* The proposal of an unknown concept, in a commit of its own.
LEMMA ProposeKeeps ==
  ASSUME ReviewInv, NEW r \in Requests, Propose(r)
  PROVE  ReviewInv'
<1>c. PICK c : c = Inserting(call[r], TRUE)
  OBVIOUS
<1>o. PICK o : o = call[r].observation
  OBVIOUS
<1>0. Knows(call[r])
  BY DEF ReviewInv, RequestsKnow
<1>1. /\ o \in Observations /\ PropertyOf[o] \in Properties
      /\ call[r].active = 0 \/ Activated(call[r].active)
  BY <1>0, <1>o, ReviewAssumption DEF Propose, Knows
<1>2. /\ reviews' = Append(reviews, ReviewOf(PropertyOf[o], "PROPOSED"))
      /\ UNCHANGED <<ontology, observation, factOf>>
      /\ call' = [call EXCEPT ![r] = c]
  BY <1>c, <1>o DEF Propose, Continues
<1>3. Respects /\ RowsOK' /\ \E i \in DOMAIN reviews' : reviews'[i].entity = PropertyOf[o]
  BY <1>1, <1>2, NewReview
<1>4. c.op = "insert" /\ c.observation = o /\ c.active = call[r].active
  BY <1>c, <1>o DEF Inserting
<1>5. Knows(c)'
  BY <1>1, <1>2, <1>3, <1>4 DEF Knows, Activated
<1>6. FactsWithinOntology'
  BY <1>2 DEF ReviewInv, FactsWithinOntology, Activated, Known
<1>7. /\ observation \in [Observations -> {"NONE", "RAW", "MAPPED", "NEEDS_REVIEW", "ACCEPTED"}]
      /\ factOf \in [Observations -> 0 .. MaxVersions]
  BY DEF ReviewInv, TypeOK
<1> QED
  BY <1>2, <1>3, <1>5, <1>6, <1>7, StepKeeps

\* The observation, with the review it needs in the same commit: held, it has the
\* review of the proposal that was found or made, or its own.
LEMMA InsertKeeps ==
  ASSUME ReviewInv, NEW r \in Requests, Insert(r)
  PROVE  ReviewInv'
<1> DEFINE o == call[r].observation
           status == InitialStatus(call[r])
           own == NeedsOwnReview(call[r])
<1>0. Knows(call[r]) /\ call[r].op = "insert"
  BY DEF ReviewInv, RequestsKnow, Insert, Inserts
<1>1. o \in Observations
  BY <1>0 DEF Knows
<1>2. /\ observation[o] = "NONE" /\ observation' = [observation EXCEPT ![o] = status]
      /\ UNCHANGED <<ontology, factOf>>
      /\ call' = [call EXCEPT ![r] = Idle]
      /\ reviews' = IF own THEN Append(reviews, ReviewOf(o, "NONE")) ELSE reviews
  BY DEF Insert, Inserts, Ends
<1>3. /\ status \in {"RAW", "MAPPED", "NEEDS_REVIEW"}
      /\ status = "NEEDS_REVIEW" => call[r].proposed \/ own
  BY DEF InitialStatus, NeedsOwnReview
<1>4. /\ observation \in [Observations -> {"NONE", "RAW", "MAPPED", "NEEDS_REVIEW", "ACCEPTED"}]
      /\ factOf \in [Observations -> 0 .. MaxVersions]
  BY DEF ReviewInv, TypeOK
<1> HIDE DEF status, own, o
<1>5. /\ observation' \in [Observations -> {"NONE", "RAW", "MAPPED", "NEEDS_REVIEW", "ACCEPTED"}]
      /\ \A x \in Observations : observation'[x] = IF x = o THEN status ELSE observation[x]
  BY <1>2, <1>3, <1>4
<1>6. \A x \in Observations : observation[x] = "ACCEPTED" <=> observation'[x] = "ACCEPTED"
  BY <1>2, <1>3, <1>5
<1>7. /\ Respects /\ RowsOK'
      /\ own => \E i \in DOMAIN reviews' : reviews'[i].entity = o
  <2>1. CASE own
    BY <1>1, <1>2, <1>6, <2>1, NewReview
  <2>2. CASE ~own
    <3>1. reviews' = reviews
      BY <1>2, <2>2
    <3>2. Respects
      BY <1>2, <1>6, <3>1 DEF Respects, Activated
    <3>3. RowsOK
      BY ReviewInvHasRows
    <3>4. RowsOK'
      BY <1>6, <3>1, <3>3 DEF RowsOK, OfObservation, ProposalAgreesWithReview, ApprovedIsAccepted, Open
    <3> QED
      BY <2>2, <3>2, <3>4
  <2> QED
    BY <2>1, <2>2
<1>8. ASSUME NEW x \in Observations, observation'[x] = "NEEDS_REVIEW"
      PROVE  \/ observation[x] = "NEEDS_REVIEW"
             \/ \E i \in DOMAIN reviews' : reviews'[i].entity \in {x, PropertyOf[x]}
  <2>1. CASE x # o
    BY <1>5, <1>8, <2>1
  <2>2. CASE x = o /\ own
    BY <1>7, <2>2
  <2>3. CASE x = o /\ ~own
    <3>1. call[r].proposed
      BY <1>3, <1>5, <1>8, <2>3
    <3>2. PICK i \in DOMAIN reviews : reviews[i].entity = PropertyOf[o]
      BY <1>0, <3>1 DEF Knows, o
    <3>3. i \in DOMAIN reviews' /\ reviews'[i].entity = PropertyOf[o]
      BY <1>7, <3>2 DEF Respects
    <3> QED
      BY <2>3, <3>3
  <2> QED
    BY <2>1, <2>2, <2>3
<1>9. FactsWithinOntology'
  BY <1>2, <1>6 DEF ReviewInv, FactsWithinOntology, Activated, Known
<1>10. Knows(Idle)'
  BY DEF Knows, Idle
<1> QED
  BY <1>2, <1>4, <1>5, <1>7, <1>8, <1>9, <1>10, StepKeeps

-----------------------------------------------------------------------------
(* Acceptance and decision.                                                *)

\* The property is in the version that was read, which is or was the active one.
LEMMA AcceptKeeps ==
  ASSUME ReviewInv, NEW r \in Requests, Accept(r)
  PROVE  ReviewInv'
<1>a. PICK o, v, i, row : /\ o = call[r].observation /\ v = call[r].active
                           /\ i = call[r].review /\ row = call[r].row
  OBVIOUS
<1>c. PICK c : c = IF i = 0 THEN Idle
                   ELSE [op |-> "close", review |-> i, row |-> row, action |-> "approve"]
  OBVIOUS
<1>1. /\ o \in Observations /\ Activated(v) /\ Known(o, v)
      /\ i # 0 => ReadReview(i, row) /\ reviews[i].entity = o
  BY <1>a DEF ReviewInv, RequestsKnow, Knows, Accept, MayAccept
<1>2. v \in 0 .. MaxVersions /\ v # 0
  BY <1>1, OntologyAssumption DEF Activated, Versions
<1>3. /\ observation \in [Observations -> {"NONE", "RAW", "MAPPED", "NEEDS_REVIEW", "ACCEPTED"}]
      /\ factOf \in [Observations -> 0 .. MaxVersions]
  BY DEF ReviewInv, TypeOK
<1>4. /\ UNCHANGED <<ontology, reviews>> /\ call' = [call EXCEPT ![r] = c]
      /\ observation' = [observation EXCEPT ![o] = "ACCEPTED"]
      /\ factOf' = [factOf EXCEPT ![o] = IF @ = 0 THEN v ELSE @]
  BY <1>a, <1>c DEF Accept, Ends, Continues
<1>5. \A x \in Observations :
        /\ observation'[x] = IF x = o THEN "ACCEPTED" ELSE observation[x]
        /\ factOf'[x] = IF x = o /\ factOf[o] = 0 THEN v ELSE factOf[x]
  BY <1>1, <1>3, <1>4
<1>6. Respects
  BY <1>4, <1>5 DEF Respects, Activated
<1>7. RowsOK'
  <2>1. RowsOK
    BY ReviewInvHasRows
  <2>2. ApprovedIsAccepted'
    BY <1>4, <1>5, <2>1 DEF RowsOK, ApprovedIsAccepted
  <2> QED
    BY <1>4, <2>1, <2>2 DEF RowsOK, OfObservation, ProposalAgreesWithReview, Open
<1>8. Knows(c)'
  <2>1. CASE i = 0
    <3>1. c.op = "none"
      BY <1>c, <2>1 DEF Idle
    <3> QED
      BY <3>1 DEF Knows
  <2>2. CASE i # 0
    <3>1. ReadReview(i, row)' /\ reviews'[i].entity = o
      BY <1>1, <1>4, <2>2 DEF ReadReview, Open
    <3>2. observation'[o] = "ACCEPTED"
      BY <1>1, <1>5
    <3>3. /\ c.op = "close" /\ c.review = i /\ c.row = row /\ c.action = "approve"
          /\ c.action \in Actions
      BY <1>c, <2>2 DEF Actions
    <3> QED
      BY <1>1, <3>1, <3>2, <3>3 DEF Knows, OfObservation
  <2> QED
    BY <2>1, <2>2
<1>9. FactsWithinOntology'
  <2> SUFFICES ASSUME NEW x \in Observations
               PROVE  /\ factOf'[x] # 0 => Activated(factOf'[x]) /\ Known(x, factOf'[x])
                      /\ observation'[x] = "ACCEPTED" => factOf'[x] # 0
    BY <1>4 DEF FactsWithinOntology, Activated, Known
  <2>1. /\ factOf[x] # 0 => Activated(factOf[x]) /\ Known(x, factOf[x])
        /\ observation[x] = "ACCEPTED" => factOf[x] # 0
    BY DEF ReviewInv, FactsWithinOntology
  <2> QED
    BY <1>1, <1>2, <1>5, <2>1
<1>10. /\ observation' \in [Observations -> {"NONE", "RAW", "MAPPED", "NEEDS_REVIEW", "ACCEPTED"}]
       /\ factOf' \in [Observations -> 0 .. MaxVersions]
  BY <1>2, <1>3, <1>4
<1>11. \A x \in Observations : observation'[x] = "NEEDS_REVIEW" => observation[x] = "NEEDS_REVIEW"
  BY <1>5
<1> QED
  BY <1>4, <1>6, <1>7, <1>8, <1>9, <1>10, <1>11, StepKeeps

\* A decision writes one row, which is still as the request read it: open.
LEMMA DecisionKeeps ==
  ASSUME ReviewInv, NEW r \in Requests, NEW i \in DOMAIN reviews, NEW row \in ReviewRow,
         reviews' = [reviews EXCEPT ![i] = row],
         row.entity = reviews[i].entity, row.row = reviews[i].row + 1,
         row.proposal = "NONE" <=> reviews[i].proposal = "NONE",
         row.status \in Decided, row.proposal # "NONE" => row.proposal = row.status,
         OfObservation(i) /\ row.status = "APPROVED" => observation[row.entity] = "ACCEPTED",
         UNCHANGED <<ontology, observation, factOf>>, call' = [call EXCEPT ![r] = Idle]
  PROVE  ReviewInv'
<1>1. reviews \in Seq(ReviewRow) /\ RowsOK
  BY ReviewInvHasRows DEF ReviewInv
<1>2. /\ reviews' \in Seq(ReviewRow) /\ DOMAIN reviews' = DOMAIN reviews
      /\ \A j \in DOMAIN reviews : reviews'[j] = IF j = i THEN row ELSE reviews[j]
  BY <1>1, ExceptSeq
<1>3. reviews[i].row \in Nat
  BY <1>1, RowsTyped
<1>4. Respects
  <2>1. \A j \in DOMAIN reviews :
          /\ j \in DOMAIN reviews' /\ reviews'[j].entity = reviews[j].entity
          /\ reviews'[j] = reviews[j] \/ reviews'[j].row > reviews[j].row
    BY <1>2, <1>3
  <2> QED
    BY <2>1 DEF Respects, Activated
<1>5. \A j \in DOMAIN reviews' : reviews'[j].proposal = "NONE" <=> OfObservation(j)'
  BY <1>1, <1>2 DEF RowsOK, OfObservation
<1>6. ProposalAgreesWithReview'
  BY <1>1, <1>2 DEF RowsOK, ProposalAgreesWithReview, Open, Decided
<1>7. ApprovedIsAccepted'
  BY <1>1, <1>2 DEF RowsOK, ApprovedIsAccepted, OfObservation
<1>8. RowsOK'
  BY <1>2, <1>5, <1>6, <1>7 DEF RowsOK
<1>9. Knows(Idle)'
  BY DEF Knows, Idle
<1>10. FactsWithinOntology'
  BY DEF ReviewInv, FactsWithinOntology, Activated, Known
<1>11. /\ observation \in [Observations -> {"NONE", "RAW", "MAPPED", "NEEDS_REVIEW", "ACCEPTED"}]
       /\ factOf \in [Observations -> 0 .. MaxVersions]
  BY DEF ReviewInv, TypeOK
<1> QED
  BY <1>4, <1>8, <1>9, <1>10, <1>11, StepKeeps

LEMMA CloseKeeps ==
  ASSUME ReviewInv, NEW r \in Requests, Close(r)
  PROVE  ReviewInv'
<1> DEFINE i == call[r].review
           action == call[r].action
           row == [reviews[i] EXCEPT !.status = Decision(action), !.row = @ + 1]
<1>1. /\ i \in DOMAIN reviews /\ OfObservation(i) /\ action \in Actions
      /\ action = "approve" => observation[reviews[i].entity] = "ACCEPTED"
  BY DEF ReviewInv, RequestsKnow, Knows, Close, ReadReview
<1>2. /\ reviews[i] \in ReviewRow /\ reviews[i].row \in Nat /\ reviews[i].proposalRow \in Nat
      /\ reviews[i].proposal = "NONE"
  BY <1>1, RowsTyped, ReviewInvHasRows DEF RowsOK
<1>3. Decision(action) \in Decided /\ (Decision(action) = "APPROVED" => action = "approve")
  BY <1>1 DEF Decision, Decided, Actions
<1>4. /\ reviews' = [reviews EXCEPT ![i] = row]
      /\ UNCHANGED <<ontology, observation, factOf>> /\ call' = [call EXCEPT ![r] = Idle]
  BY DEF Close, Ends
<1>5. /\ row \in ReviewRow /\ row.entity = reviews[i].entity /\ row.row = reviews[i].row + 1
      /\ row.proposal = "NONE" /\ row.status = Decision(action)
  <2>1. PICK old, d, n, m : /\ old = reviews[i] /\ d = Decision(action)
                            /\ n = old.row + 1 /\ m = old.proposalRow + 1
    OBVIOUS
  <2>2. PICK new : new = [old EXCEPT !.status = d, !.row = n]
    OBVIOUS
  <2>3. /\ old \in ReviewRow /\ n \in Nat /\ m \in Nat /\ d \in {"NEEDS_REVIEW"} \cup Decided
        /\ d \in {"NONE", "PROPOSED"} \cup Decided
    BY <1>2, <1>3, <2>1
  <2>4. /\ new \in ReviewRow /\ new.entity = old.entity /\ new.row = n
        /\ new.proposal = old.proposal /\ new.status = d
    BY <2>2, <2>3 DEF ReviewRow
  <2>5. row = new
    BY <2>1, <2>2
  <2> HIDE DEF row
  <2> QED
    BY <1>2, <2>1, <2>4, <2>5
<1> HIDE DEF row
<1> QED
  BY <1>1, <1>2, <1>3, <1>4, <1>5, DecisionKeeps

LEMMA DecideProposalKeeps ==
  ASSUME ReviewInv, NEW r \in Requests, DecideProposal(r)
  PROVE  ReviewInv'
<1> DEFINE i == call[r].review
           action == call[r].action
           row == [reviews[i] EXCEPT !.proposal = Decision(action), !.proposalRow = @ + 1,
                                     !.status = Decision(action), !.row = @ + 1]
<1>1. i \in DOMAIN reviews /\ ~OfObservation(i) /\ action \in Actions
  BY DEF ReviewInv, RequestsKnow, Knows, DecideProposal, ReadReview
<1>2. /\ reviews[i] \in ReviewRow /\ reviews[i].row \in Nat /\ reviews[i].proposalRow \in Nat
      /\ reviews[i].proposal # "NONE"
  BY <1>1, RowsTyped, ReviewInvHasRows DEF RowsOK
<1>3. Decision(action) \in Decided /\ Decision(action) # "NONE"
  BY <1>1 DEF Decision, Decided, Actions
<1>4. /\ reviews' = [reviews EXCEPT ![i] = row]
      /\ UNCHANGED <<ontology, observation, factOf>> /\ call' = [call EXCEPT ![r] = Idle]
  BY DEF DecideProposal, Ends
<1>5. /\ row \in ReviewRow /\ row.entity = reviews[i].entity /\ row.row = reviews[i].row + 1
      /\ row.proposal = Decision(action) /\ row.status = Decision(action)
  <2>1. PICK old, d, n, m : /\ old = reviews[i] /\ d = Decision(action)
                            /\ n = old.row + 1 /\ m = old.proposalRow + 1
    OBVIOUS
  <2>2. PICK new : new = [old EXCEPT !.proposal = d, !.proposalRow = m,
                                                             !.status = d, !.row = n]
    OBVIOUS
  <2>3. /\ old \in ReviewRow /\ n \in Nat /\ m \in Nat /\ d \in {"NEEDS_REVIEW"} \cup Decided
        /\ d \in {"NONE", "PROPOSED"} \cup Decided
    BY <1>2, <1>3, <2>1
  <2>4. /\ new \in ReviewRow /\ new.entity = old.entity /\ new.row = n
        /\ new.proposal = d /\ new.status = d
    BY <2>2, <2>3 DEF ReviewRow
  <2>5. row = new
    BY <2>1, <2>2
  <2> HIDE DEF row
  <2> QED
    BY <1>2, <2>1, <2>4, <2>5
<1> HIDE DEF row
<1> QED
  BY <1>1, <1>2, <1>3, <1>4, <1>5, DecisionKeeps

-----------------------------------------------------------------------------
(* The steps together.                                                     *)

LEMMA InitReviewInv ==
  ASSUME Init
  PROVE  ReviewInv
<1>1. reviews = <<>> /\ reviews \in Seq(ReviewRow) /\ DOMAIN reviews = {}
  BY DEF Init
<1>2. OntologyTypeOK
  <2>1. \A v \in DOMAIN Seed : Seed[v] \in SUBSET Properties
    BY OntologyAssumption
  <2> QED
    BY <2>1 DEF Init, OntologyInit, OntologyTypeOK, Status
<1>3. TypeOK
  BY <1>1, <1>2, OntologyAssumption DEF Init, TypeOK
<1>4. RequestsKnow
  BY DEF Init, OntologyInit, RequestsKnow, Knows, Idle
<1>5. ProposalAgreesWithReview /\ HeldIsExplained /\ ApprovedIsAccepted /\ FactsWithinOntology
  BY <1>1 DEF Init, ProposalAgreesWithReview, HeldIsExplained, ApprovedIsAccepted, FactsWithinOntology
<1> QED
  BY <1>1, <1>3, <1>4, <1>5 DEF ReviewInv

LEMMA NextReviewInv ==
  ASSUME ReviewInv, [Next]_vars
  PROVE  ReviewInv'
<1>1. CASE OntologyNext /\ UNCHANGED reviewVars
  BY <1>1, OntologyKeepsReviews
<1>2. ASSUME NEW r \in Requests, Intake(r)
      PROVE  ReviewInv'
  BY <1>2, BeginningKeeps, ReadingOnKeeps, ProposeKeeps, InsertKeeps DEF Intake
<1>3. ASSUME NEW r \in Requests, NEW o \in Observations, BeginAccept(r, o)
      PROVE  ReviewInv'
  BY <1>3, BeginningKeeps
<1>4. ASSUME NEW r \in Requests, Accept(r)
      PROVE  ReviewInv'
  BY <1>4, AcceptKeeps
<1>5. ASSUME NEW r \in Requests, Decide(r)
      PROVE  ReviewInv'
  BY <1>5, BeginningKeeps, ReadingOnKeeps, CloseKeeps, DecideProposalKeeps DEF Decide
<1>6. CASE UNCHANGED vars
  <2>1. UNCHANGED <<ontology, call, observation, factOf, reviews>>
    BY <1>6 DEF vars, ontologyVars, reviewVars
  <2>2. Respects
    BY <2>1 DEF Respects, Activated
  <2>3. \A y : Knows(y) => Knows(y)'
    BY <2>1, <2>2, KnowledgeIsKept DEF ReviewInv
  <2>4. RequestsKnow'
    BY <2>1, <2>3 DEF ReviewInv, RequestsKnow
  <2>5. TypeOK' /\ FactsWithinOntology'
    BY <2>1 DEF ReviewInv, TypeOK, OntologyTypeOK, FactsWithinOntology, Activated, Known
  <2>6. ProposalAgreesWithReview' /\ HeldIsExplained' /\ ApprovedIsAccepted'
    BY <2>1 DEF ReviewInv, ProposalAgreesWithReview, HeldIsExplained, ApprovedIsAccepted, Open
  <2> QED
    BY <2>1, <2>4, <2>5, <2>6 DEF ReviewInv
<1> QED
  BY <1>1, <1>2, <1>3, <1>4, <1>5, <1>6 DEF Next

\* A request that carries out a decision finds the review open: had it been decided
\* since the request read it, its row_version would have grown.
LEMMA WrittenWasOpen ==
  ASSUME ReviewInv, NEW r \in Requests, Close(r) \/ DecideProposal(r)
  PROVE  /\ call[r].review \in DOMAIN reviews /\ Open(call[r].review)
         /\ DOMAIN reviews' = DOMAIN reviews
         /\ \A j \in DOMAIN reviews : j # call[r].review => reviews'[j] = reviews[j]
<1>1. call[r].op \in {"close", "proposal"} /\ MayUpdateReview(call[r])
  BY DEF Close, DecideProposal
<1>2. ReadReview(call[r].review, call[r].row)
  BY <1>1 DEF ReviewInv, RequestsKnow, Knows
<1>3. reviews \in Seq(ReviewRow)
  BY DEF ReviewInv
<1>4. /\ DOMAIN reviews' = DOMAIN reviews
      /\ \A j \in DOMAIN reviews : j # call[r].review => reviews'[j] = reviews[j]
  BY DEF Close, DecideProposal
<1> QED
  BY <1>1, <1>2, <1>4 DEF ReadReview, MayUpdateReview

LEMMA DecidedStays ==
  ASSUME ReviewInv, [Next]_vars, NEW i \in DOMAIN reviews, ~Open(i)
  PROVE  i \in DOMAIN reviews' /\ reviews'[i] = reviews[i]
<1>1. CASE reviews' = reviews
  BY <1>1
<1>2. ASSUME NEW entity, NEW proposal, reviews' = Append(reviews, ReviewOf(entity, proposal))
      PROVE  i \in DOMAIN reviews' /\ reviews'[i] = reviews[i]
  <2>1. reviews \in Seq(ReviewRow) /\ Len(reviews) \in Nat /\ DOMAIN reviews = 1 .. Len(reviews)
    BY LenProperties DEF ReviewInv
  <2>2. PICK new : new = ReviewOf(entity, proposal)
    OBVIOUS
  <2> QED
    BY <1>2, <2>1, <2>2
<1>3. ASSUME NEW r \in Requests, Close(r) \/ DecideProposal(r)
      PROVE  i \in DOMAIN reviews' /\ reviews'[i] = reviews[i]
  BY <1>3, WrittenWasOpen
<1> QED
  <2>1. ASSUME NEW r \in Requests, Intake(r)
        PROVE  \/ reviews' = reviews
               \/ \E entity, proposal : reviews' = Append(reviews, ReviewOf(entity, proposal))
    BY <2>1 DEF Intake, BeginIntake, Map, FindProposal, Propose, Insert, reviewVars
  <2>2. ASSUME NEW r \in Requests, Decide(r)
        PROVE  reviews' = reviews \/ Close(r) \/ DecideProposal(r)
    BY <2>2 DEF Decide, BeginDecide, ReadObservation, ReadProposal, reviewVars
  <2>3. ASSUME NEW r \in Requests, (\E o \in Observations : BeginAccept(r, o)) \/ Accept(r)
        PROVE  reviews' = reviews
    BY <2>3 DEF BeginAccept, Accept, reviewVars
  <2> QED
    BY <1>1, <1>2, <1>3, <2>1, <2>2, <2>3 DEF Next, vars, reviewVars

\* A step of the workflow that is not one of the ontology's leaves the ontology, and
\* the request it is of does not become one to the ontology.
LEMMA ReviewRequests ==
  ASSUME NEW r \in Requests,
         Intake(r) \/ (\E o \in Observations : BeginAccept(r, o)) \/ Accept(r) \/ Decide(r)
  PROVE  ontology' = ontology /\ \E c : call' = [call EXCEPT ![r] = c] /\ (OntologyInv => CallOK(c))
<1> DEFINE Other(c) == c.op \notin {"activate", "switch", "define"}
           Asks == \E c : call' = [call EXCEPT ![r] = c] /\ Other(c)
<1>1. ASSUME Ends(r) PROVE Asks
  <2>1. call' = [call EXCEPT ![r] = Idle] /\ Other(Idle)
    BY <1>1 DEF Ends, Idle
  <2> QED
    BY <2>1
<1>2. ASSUME NEW c, Begins(r, c) \/ Continues(r, c), Other(c) PROVE Asks
  BY <1>2 DEF Begins, Continues
<1> HIDE DEF Asks
<1>3. ASSUME Intake(r) PROVE ontology' = ontology /\ Asks
  <2>1. ASSUME NEW o \in Observations, BeginIntake(r, o) PROVE ontology' = ontology /\ Asks
    <3> DEFINE c == [op |-> "intake", observation |-> o, active |-> ActiveOntology]
    <3>1. Begins(r, c) /\ Other(c) /\ ontology' = ontology
      BY <2>1 DEF BeginIntake
    <3> HIDE DEF c
    <3> QED
      BY <3>1, <1>2
  <2>2. \A known : Other(Inserting(call[r], known))
    BY DEF Inserting
  <2>3. ASSUME FindProposal(r) PROVE ontology' = ontology /\ Asks
    <3> DEFINE d == [call[r] EXCEPT !.op = "propose"]
    <3>1. call[r].op = "intake" /\ d.op \in {"propose", call[r].op}
      BY <2>3 DEF FindProposal
    <3>2. Other(d)
      BY <3>1
    <3>3. ontology' = ontology /\ (Continues(r, Inserting(call[r], TRUE)) \/ Continues(r, d))
      BY <2>3 DEF FindProposal
    <3> HIDE DEF d
    <3> QED
      BY <2>2, <3>2, <3>3, <1>2
  <2>4. ASSUME Map(r) \/ Propose(r) PROVE ontology' = ontology /\ Asks
    BY <2>2, <2>4, <1>2 DEF Map, Propose
  <2>5. ASSUME Insert(r) PROVE ontology' = ontology /\ Asks
    BY <2>5, <1>1 DEF Insert, Inserts
  <2> QED
    BY <1>3, <2>1, <2>3, <2>4, <2>5 DEF Intake
<1>4. ASSUME NEW o \in Observations, BeginAccept(r, o) PROVE ontology' = ontology /\ Asks
  <2>1. Other(Accepting(o, 0, 0))
    BY DEF Accepting
  <2> QED
    BY <1>2, <1>4, <2>1 DEF BeginAccept
<1>5. ASSUME Accept(r) PROVE ontology' = ontology /\ Asks
  <2> DEFINE c == [op |-> "close", review |-> call[r].review, row |-> call[r].row, action |-> "approve"]
  <2>1. Other(c) /\ ontology' = ontology /\ (Ends(r) \/ Continues(r, c))
    BY <1>5 DEF Accept
  <2> HIDE DEF c
  <2> QED
    BY <1>1, <1>2, <2>1
<1>6. ASSUME Decide(r) PROVE ontology' = ontology /\ Asks
  <2>1. ASSUME NEW i \in DOMAIN reviews, NEW action \in Actions, BeginDecide(r, i, action)
        PROVE  ontology' = ontology /\ Asks
    <3> DEFINE c == [op |-> IF reviews[i].proposal = "NONE" /\ action # "approve" THEN "close" ELSE "decide",
                     review |-> i, row |-> reviews[i].row, action |-> action]
    <3>1. Begins(r, c) /\ Other(c) /\ ontology' = ontology
      BY <2>1 DEF BeginDecide
    <3> HIDE DEF c
    <3> QED
      BY <3>1, <1>2
  <2>2. ASSUME ReadObservation(r) PROVE ontology' = ontology /\ Asks
    <3> DEFINE c == [call[r] EXCEPT !.op = "close"]
               d == Accepting(reviews[call[r].review].entity, call[r].review, call[r].row)
    <3>1. call[r].op = "decide" /\ c.op \in {"close", call[r].op} /\ d.op = "accept"
      BY <2>2 DEF ReadObservation, Accepting
    <3>2. Other(c) /\ Other(d)
      BY <3>1
    <3>3. ontology' = ontology /\ (Continues(r, c) \/ Continues(r, d))
      BY <2>2 DEF ReadObservation
    <3> HIDE DEF c, d
    <3> QED
      BY <3>2, <3>3, <1>2
  <2>3. ASSUME ReadProposal(r) PROVE ontology' = ontology /\ Asks
    <3> DEFINE c == [op |-> "proposal", review |-> call[r].review, row |-> call[r].row,
                     action |-> call[r].action, proposalRow |-> reviews[call[r].review].proposalRow]
    <3>1. Continues(r, c) /\ Other(c) /\ ontology' = ontology
      BY <2>3 DEF ReadProposal
    <3> HIDE DEF c
    <3> QED
      BY <3>1, <1>2
  <2>4. ASSUME Close(r) \/ DecideProposal(r) PROVE ontology' = ontology /\ Asks
    BY <2>4, <1>1 DEF Close, DecideProposal
  <2> QED
    BY <1>6, <2>1, <2>2, <2>3, <2>4 DEF Decide
<1>7. ontology' = ontology /\ Asks
  BY <1>3, <1>4, <1>5, <1>6
<1> QED
  BY <1>7 DEF Asks, CallOK

LEMMA OntologyInvIsKept ==
  ASSUME OntologyInv, [Next]_vars, Expecting
  PROVE  OntologyInv'
<1>1. CASE OntologyNext
  BY <1>1, StepInv
<1>2. ASSUME NEW r \in Requests,
             Intake(r) \/ (\E o \in Observations : BeginAccept(r, o)) \/ Accept(r) \/ Decide(r)
      PROVE  OntologyInv'
  <2>1. PICK c : ontology' = ontology /\ call' = [call EXCEPT ![r] = c] /\ CallOK(c)
    BY <1>2, ReviewRequests
  <2>2. CallOK(c)'
    BY <2>1, ReadWithoutChange DEF CallOK
  <2>3. DOMAIN call' = Requests /\ \A x \in Requests : CallOK(call[x])'
    BY <2>1, <2>2, CallsStayOK, ReadWithoutChange DEF OntologyInv
  <2> QED
    BY <2>1, <2>3 DEF OntologyInv, OntologyTypeOK, Active
<1>3. CASE UNCHANGED vars
  <2>1. ontology' = ontology /\ call' = call
    BY <1>3 DEF vars, ontologyVars
  <2>2. \A r \in Requests : CallOK(call[r])'
    BY <2>1, ReadWithoutChange DEF OntologyInv, CallOK
  <2> QED
    BY <2>1, <2>2 DEF OntologyInv, OntologyTypeOK, Active
<1> QED
  BY <1>1, <1>2, <1>3 DEF Next

-----------------------------------------------------------------------------
(* Theorems.                                                               *)

\* Every request in flight knows what it relies on, wherever the others are: the
\* review it will close is open while its row_version is the one it read, the version
\* it accepts by was activated, and the observation it approves is accepted.
THEOREM ReviewInvariant == Spec => []ReviewInv
<1>1. Init => ReviewInv
  BY InitReviewInv
<1>2. ReviewInv /\ [Next]_vars => ReviewInv'
  BY NextReviewInv
<1> QED
  BY <1>1, <1>2, PTL DEF Spec

\* The rows of versions, observations and reviews have their types, and a review has
\* a proposal unless it is of an observation.
THEOREM TypeCorrect == Spec => []TypeOK
<1>1. ReviewInv => TypeOK
  BY DEF ReviewInv
<1> QED
  BY <1>1, ReviewInvariant, PTL

\* ReviewService.decide: a proposal and its review say the same at every moment.
THEOREM ProposalAgrees == Spec => []ProposalAgreesWithReview
<1>1. ReviewInv => ProposalAgreesWithReview
  BY DEF ReviewInv
<1> QED
  BY <1>1, ReviewInvariant, PTL

\* create_observation: wherever a request stopped, an observation that is held has a
\* review that a human can find it by.
THEOREM HeldExplained == Spec => []HeldIsExplained
<1>1. ReviewInv => HeldIsExplained
  BY DEF ReviewInv
<1> QED
  BY <1>1, ReviewInvariant, PTL

\* ReviewService.decide commits the acceptance and then the review: no interleaving
\* and no crash between the two leaves an approval without its acceptance.
THEOREM ApprovedAccepted == Spec => []ApprovedIsAccepted
<1>1. ReviewInv => ApprovedIsAccepted
  BY DEF ReviewInv
<1> QED
  BY <1>1, ReviewInvariant, PTL

\* accept_observation: the fact is of a version that was activated and defines the
\* property, however many versions were activated meanwhile.
THEOREM AcceptedWithin == Spec => []AcceptedWithinOntology
<1>1. ReviewInv => AcceptedWithinOntology
  BY DEF ReviewInv, FactsWithinOntology, AcceptedWithinOntology, Activated
<1> QED
  BY <1>1, ReviewInvariant, PTL

\* ReviewService.decide: of any number of overlapping decisions one takes effect.
THEOREM Once == Spec => DecidedOnce
<1>1. ReviewInv /\ [Next]_vars =>
        [\A i \in DOMAIN reviews : ~Open(i) => i \in DOMAIN reviews' /\ reviews'[i] = reviews[i]]_vars
  BY DecidedStays
<1> QED
  BY <1>1, ReviewInvariant, PTL DEF Spec, DecidedOnce

\* Requests about observations and reviews, which share the sessions and the reads of
\* the active version with those to the ontology, leave one version active.
THEOREM OneActiveBesideReviews ==
  ASSUME Seed # <<>>, Expecting
  PROVE  Spec => []OneActiveOntology
<1>1. Init => OntologyInv
  BY InitInv DEF Init
<1>2. OntologyInv /\ [Next]_vars => OntologyInv'
  BY OntologyInvIsKept
<1>3. OntologyInv => OneActiveOntology
  BY FS_Singleton DEF OntologyInv, OneActiveOntology
<1> QED
  BY <1>1, <1>2, <1>3, PTL DEF Spec
===============================================================================
