--------------------------- MODULE ReviewWorkflow ---------------------------
(***************************************************************************)
(* Observations on their way to acceptance, the reviews that hold them,    *)
(* and the proposals of unknown concepts: KnowledgeService's               *)
(* create_observation and accept_observation, OntologyService's            *)
(* create_unknown_concept_proposal and ReviewService.decide, beside the    *)
(* versions of the ontology they are judged by.                            *)
(*                                                                         *)
(* Requests are modelled as in OntologyVersions, except that two of them   *)
(* commit twice: the proposal of a concept before the observation that     *)
(* needs it, and an acceptance before the review that approved it.  What   *)
(* an acceptance does to the facts is FactLedger's.  Every observation     *)
(* has a property candidate, and its subject and value are well typed.     *)
(***************************************************************************)
EXTENDS OntologyVersions

CONSTANTS
  Observations,   \* one for each idempotency key
  PropertyOf,     \* PropertyOf[o]: property_candidate
  LowConfidence,  \* the observations below confidence_review_threshold
  MaxReviews      \* bound on the reviews

ASSUME ReviewAssumption ==
  /\ PropertyOf \in [Observations -> Properties]
  /\ LowConfidence \subseteq Observations
  /\ Observations \cap Properties = {}

VARIABLES
  observation,  \* observation -> its status
  factOf,       \* observation -> the ontology version of the fact made of it, or 0
  reviews       \* the reviews in the order of their creation, each with its proposal

reviewVars == <<observation, factOf, reviews>>
vars == <<ontologyVars, reviewVars>>

\* A review of an observation, or of the proposal created with it.
ReviewOf(entity, proposal) ==
  [entity |-> entity, status |-> "NEEDS_REVIEW", row |-> 1, proposal |-> proposal,
   proposalRow |-> IF proposal = "NONE" THEN 0 ELSE 1]

Open(i) == reviews[i].status = "NEEDS_REVIEW"

\* update_review, update_proposal: each row as it was read.
MayUpdateReview(c) == reviews[c.review].row = c.row
MayUpdateProposal(c) == reviews[c.review].proposalRow = c.proposalRow

\* A fault: the action is stored as the status.
DecisionAsGiven(action) == action

\* The status of a review, and of a proposal, after a decision.
Decision(action) ==
  CASE action = "approve" -> "APPROVED" [] action = "reject" -> "REJECTED" [] action = "modify" -> "MODIFIED"

Actions == {"approve", "reject", "modify"}
Decided == {"APPROVED", "REJECTED", "MODIFIED"}

TypeOK ==
  /\ OntologyTypeOK
  /\ observation \in [Observations -> {"NONE", "RAW", "MAPPED", "NEEDS_REVIEW", "ACCEPTED"}]
  /\ factOf \in [Observations -> 0 .. MaxVersions]
  /\ \A i \in DOMAIN reviews :
       /\ reviews[i].entity \in Observations \cup Properties
       /\ reviews[i].status \in {"NEEDS_REVIEW"} \cup Decided
       /\ reviews[i].proposal \in {"NONE", "PROPOSED"} \cup Decided
       /\ reviews[i].proposal = "NONE" <=> reviews[i].entity \in Observations

Init ==
  /\ OntologyInit
  /\ observation = [o \in Observations |-> "NONE"]
  /\ factOf = [o \in Observations |-> 0]
  /\ reviews = <<>>

Known(o, version) == PropertyOf[o] \in ontology[version].properties

-----------------------------------------------------------------------------
(* create_observation                                                      *)

\* find_observation_by_key finds none; then the active version is read.
BeginIntake(r, o) ==
  /\ observation[o] = "NONE"
  /\ Begins(r, [op |-> "intake", observation |-> o, active |-> ActiveOntology])
  /\ UNCHANGED <<ontology, reviewVars>>

Inserting(c, proposed) ==
  [op |-> "insert", observation |-> c.observation, active |-> c.active, proposed |-> proposed]

\* Also without an active ontology.
Map(r) ==
  /\ call[r].op = "intake"
  /\ call[r].active = 0 \/ Known(call[r].observation, call[r].active)
  /\ Continues(r, Inserting(call[r], FALSE))
  /\ UNCHANGED <<ontology, reviewVars>>

OpenProposals(p) == {i \in DOMAIN reviews : reviews[i].entity = p /\ Open(i)}

\* create_unknown_concept_proposal: an open proposal of the concept will do.
FindProposal(r) ==
  /\ call[r].op = "intake"
  /\ call[r].active # 0 /\ ~Known(call[r].observation, call[r].active)
  /\ Continues(r, IF OpenProposals(PropertyOf[call[r].observation]) # {}
                  THEN Inserting(call[r], TRUE)
                  ELSE [call[r] EXCEPT !.op = "propose"])
  /\ UNCHANGED <<ontology, reviewVars>>

\* A commit of its own.
Propose(r) ==
  /\ call[r].op = "propose" /\ Len(reviews) < MaxReviews
  /\ reviews' = Append(reviews, ReviewOf(PropertyOf[call[r].observation], "PROPOSED"))
  /\ Continues(r, Inserting(call[r], TRUE))
  /\ UNCHANGED <<ontology, observation, factOf>>

\* LOW_CONFIDENCE, unless a proposal already asks for a human.
NeedsOwnReview(c) == c.observation \in LowConfidence /\ ~c.proposed

InitialStatus(c) ==
  IF c.proposed \/ c.observation \in LowConfidence THEN "NEEDS_REVIEW"
  ELSE IF c.active = 0 THEN "RAW" ELSE "MAPPED"

\* uq_observation_idempotency_key refuses a second row.
Inserts(r) ==
  /\ call[r].op = "insert" /\ observation[call[r].observation] = "NONE"
  /\ observation' = [observation EXCEPT ![call[r].observation] = InitialStatus(call[r])]
  /\ UNCHANGED <<ontology, factOf>>

\* A fault: the observation is committed, and then its review.
InsertInTwo(r) ==
  \/ Inserts(r) /\ Continues(r, [call[r] EXCEPT !.op = "review"]) /\ UNCHANGED reviews
  \/ /\ call[r].op = "review" /\ Len(reviews) < MaxReviews /\ Ends(r)
     /\ reviews' = IF NeedsOwnReview(call[r])
                   THEN Append(reviews, ReviewOf(call[r].observation, "NONE")) ELSE reviews
     /\ UNCHANGED <<ontology, observation, factOf>>

Insert(r) ==
  /\ Inserts(r)
  /\ Ends(r)
  /\ NeedsOwnReview(call[r]) => Len(reviews) < MaxReviews
  /\ reviews' = IF NeedsOwnReview(call[r])
                THEN Append(reviews, ReviewOf(call[r].observation, "NONE")) ELSE reviews

-----------------------------------------------------------------------------
(* accept_observation, by itself (review 0) or for a review                *)

\* The definitions of the version are read at the commit: they only grow.
Accepting(o, review, row) ==
  [op |-> "accept", observation |-> o, active |-> ActiveOntology, review |-> review, row |-> row]

BeginAccept(r, o) ==
  /\ observation[o] \in {"RAW", "MAPPED"} /\ ActiveOntology # 0
  /\ Begins(r, Accepting(o, 0, 0))
  /\ UNCHANGED <<ontology, reviewVars>>

\* A fault: what was MAPPED once is taken to be known.
MayAcceptMapped(c) == TRUE
MayAccept(c) == Known(c.observation, c.active)

\* UNKNOWN_CONCEPT if the property is not in the version.  update_observation
\* does not look at the status.  The subject, created with the fact if it is absent,
\* is left out.
Accept(r) ==
  /\ call[r].op = "accept" /\ MayAccept(call[r])
  /\ observation' = [observation EXCEPT ![call[r].observation] = "ACCEPTED"]
  /\ factOf' = [factOf EXCEPT ![call[r].observation] = IF @ = 0 THEN call[r].active ELSE @]
  /\ IF call[r].review = 0 THEN Ends(r)
     ELSE Continues(r, [op |-> "close", review |-> call[r].review, row |-> call[r].row,
                        action |-> "approve"])
  /\ UNCHANGED <<ontology, reviews>>

-----------------------------------------------------------------------------
(* ReviewService.decide                                                    *)

BeginDecide(r, i, action) ==
  /\ Open(i)
  /\ Begins(r, [op |-> IF reviews[i].proposal = "NONE" /\ action # "approve" THEN "close" ELSE "decide",
                review |-> i, row |-> reviews[i].row, action |-> action])
  /\ UNCHANGED <<ontology, reviewVars>>

\* A fault: the review is closed before the observation is accepted.
ReadObservationLate(r) ==
  /\ call[r].op = "decide" /\ reviews[call[r].review].proposal = "NONE"
  /\ reviews[call[r].review].row = call[r].row /\ ActiveOntology # 0
  /\ reviews' = [reviews EXCEPT ![call[r].review].status = "APPROVED", ![call[r].review].row = @ + 1]
  /\ Continues(r, Accepting(reviews[call[r].review].entity, 0, 0))
  /\ UNCHANGED <<ontology, observation, factOf>>

\* Within this transaction the observation is VALIDATED before it is accepted.
\* One that another approval has accepted meanwhile is left as it is.
ReadObservation(r) ==
  /\ call[r].op = "decide" /\ reviews[call[r].review].proposal = "NONE"
  /\ LET o == reviews[call[r].review].entity
     IN  \/ /\ observation[o] = "ACCEPTED"
            /\ Continues(r, [call[r] EXCEPT !.op = "close"])
         \/ /\ observation[o] # "ACCEPTED" /\ ActiveOntology # 0
            /\ Continues(r, Accepting(o, call[r].review, call[r].row))
  /\ UNCHANGED <<ontology, reviewVars>>

ReadProposal(r) ==
  /\ call[r].op = "decide" /\ reviews[call[r].review].proposal # "NONE"
  /\ Continues(r, [op |-> "proposal", review |-> call[r].review, row |-> call[r].row,
                   action |-> call[r].action, proposalRow |-> reviews[call[r].review].proposalRow])
  /\ UNCHANGED <<ontology, reviewVars>>

\* A fault: update_review takes the row as it finds it.
CloseUnchecked(r) ==
  /\ call[r].op = "close"
  /\ reviews' = [reviews EXCEPT ![call[r].review].status = Decision(call[r].action),
                                ![call[r].review].row = @ + 1]
  /\ Ends(r)
  /\ UNCHANGED <<ontology, observation, factOf>>

Close(r) ==
  /\ call[r].op = "close" /\ MayUpdateReview(call[r])
  /\ reviews' = [reviews EXCEPT ![call[r].review].status = Decision(call[r].action),
                                ![call[r].review].row = @ + 1]
  /\ Ends(r)
  /\ UNCHANGED <<ontology, observation, factOf>>

\* A fault: the proposal is committed before its review.
DecideProposalAlone(r) ==
  /\ call[r].op = "proposal" /\ MayUpdateProposal(call[r])
  /\ reviews' = [reviews EXCEPT ![call[r].review].proposal = Decision(call[r].action),
                                ![call[r].review].proposalRow = @ + 1]
  /\ Continues(r, [op |-> "close", review |-> call[r].review, row |-> call[r].row,
                   action |-> call[r].action])
  /\ UNCHANGED <<ontology, observation, factOf>>

\* The proposal and its review, in one commit.
DecideProposal(r) ==
  /\ call[r].op = "proposal" /\ MayUpdateProposal(call[r]) /\ MayUpdateReview(call[r])
  /\ reviews' = [reviews EXCEPT
       ![call[r].review].proposal = Decision(call[r].action), ![call[r].review].proposalRow = @ + 1,
       ![call[r].review].status = Decision(call[r].action), ![call[r].review].row = @ + 1]
  /\ Ends(r)
  /\ UNCHANGED <<ontology, observation, factOf>>

-----------------------------------------------------------------------------

Intake(r) ==
  \/ \E o \in Observations : BeginIntake(r, o)
  \/ Map(r) \/ FindProposal(r) \/ Propose(r) \/ Insert(r)

Decide(r) ==
  \/ \E i \in DOMAIN reviews, action \in Actions : BeginDecide(r, i, action)
  \/ ReadObservation(r) \/ ReadProposal(r) \/ Close(r) \/ DecideProposal(r)

Next ==
  \/ OntologyNext /\ UNCHANGED reviewVars
  \/ \E r \in Requests :
       Intake(r) \/ (\E o \in Observations : BeginAccept(r, o)) \/ Accept(r) \/ Decide(r)

Spec == Init /\ [][Next]_vars

-----------------------------------------------------------------------------
(* Properties.                                                             *)

\* A proposal and the review of it always say the same, whoever else decides.
ProposalAgreesWithReview ==
  \A i \in DOMAIN reviews : reviews[i].proposal # "NONE" =>
    reviews[i].proposal = IF Open(i) THEN "PROPOSED" ELSE reviews[i].status

\* Whatever overlaps, a review and its proposal are decided once.
DecidedOnce ==
  [][\A i \in DOMAIN reviews : ~Open(i) => i \in DOMAIN reviews' /\ reviews'[i] = reviews[i]]_vars

\* An observation held for a review has one, its own or that of a proposal of its
\* concept, wherever a request stopped: there is something for a human to see.
HeldIsExplained ==
  \A o \in Observations : observation[o] = "NEEDS_REVIEW" =>
    \E i \in DOMAIN reviews : reviews[i].entity \in {o, PropertyOf[o]}

\* The approval of an observation never outlives its acceptance: although they are
\* two commits, no review is APPROVED for an observation that is not ACCEPTED.
ApprovedIsAccepted ==
  \A i \in DOMAIN reviews :
    reviews[i].entity \in Observations /\ reviews[i].status = "APPROVED" =>
      observation[reviews[i].entity] = "ACCEPTED"

\* A fact made of an observation is of a version that was activated and that
\* defines its property, whatever the ontology was when it was observed.
AcceptedWithinOntology ==
  \A o \in Observations : observation[o] = "ACCEPTED" =>
    /\ factOf[o] # 0 /\ Known(o, factOf[o])
    /\ ontology[factOf[o]].status \in {"ACTIVE", "SUPERSEDED"}
=============================================================================
