--------------------------- MODULE RuleLifecycle ---------------------------
(***************************************************************************)
(* The life of a rule version: RuleService.create, validate, test and      *)
(* activate over the rules table, and the decision of the reviews that a   *)
(* blocked activation opens.                                               *)
(*                                                                         *)
(* A rule's content never changes after its creation, so whether its AST   *)
(* is valid, whether its test cases pass, which rules it contradicts and   *)
(* which relationships it declares are constants.  What changes is its     *)
(* row: status, row_version, transaction_to and the recorded outcome of    *)
(* its tests.                                                              *)
(*                                                                         *)
(* Every request is one READ COMMITTED transaction: each SELECT is a step, *)
(* and the writes take effect together at the commit, where each guarded   *)
(* UPDATE (WHERE row_version = ...) must still find the row version it     *)
(* was given.  Change records, audit records and the invalidation of       *)
(* derived values do not feed back into this state and are left out.       *)
(***************************************************************************)
EXTENDS Naturals, FiniteSets

CONSTANTS
  Rules,      \* the rule versions that may be created
  Key,        \* Key[r]: the logical key
  Replaces,   \* Replaces[r]: replaces_rule_id
  NoRule,     \* no replaces_rule_id
  Declares,   \* Declares[r]: the relationships r is created with, <<type, target>>
  Valid,      \* the rules validate_rule_payload accepts
  Tested,     \* the rules created with test cases
  Passing,    \* the rules whose test cases all pass
  Sourced,    \* the rules with provenance
  Clash,      \* the pairs effect_conflicts holds of
  Authors,    \* requests by editors that create rules
  Editors,    \* requests by editors that validate and test them
  Reviewers,  \* requests by reviewers: activate, decide a review
  Existing,   \* the rules already created, as drafts, at the start
  MaxRow      \* MaxRow[r]: bound on row_version

RelationTypes == {"REPLACES", "OVERRIDES", "EXCLUDES", "CONFLICTS_WITH"}

ASSUME RulesAssumption ==
  /\ Replaces \in [Rules -> Rules \cup {NoRule}]
  /\ Declares \in [Rules -> SUBSET (RelationTypes \X Rules)]
  /\ NoRule \notin Rules
  /\ Authors \cap Editors = {} /\ Authors \cap Reviewers = {} /\ Editors \cap Reviewers = {}
  /\ MaxRow \in [Rules -> Nat]

\* The drafts at the start are the first versions of their keys, and declare
\* relationships to each other only.
ASSUME ExistingAssumption ==
  /\ Existing \subseteq Rules
  /\ \A r \in Existing : Replaces[r] = NoRule
  /\ \A r \in Existing : \A d \in Declares[r] : d[2] \in Existing
  /\ \A r, q \in Existing : Key[r] = Key[q] => r = q

ASSUME ClashAssumption ==
  /\ Clash \subseteq Rules \X Rules
  /\ \A r, q \in Rules : <<r, q>> \in Clash => <<q, r>> \in Clash

VARIABLES
  status,         \* rule -> RuleStatus, "NONE" before its creation
  rowVersion,     \* rule -> row_version, the optimistic lock
  version,        \* rule -> version within its logical key
  closed,         \* the rules whose transaction_to is set
  passed,         \* the rules whose test rows all record a pass
  relations,      \* rule_relations: <<source, type, target>>
  reviews,        \* rule -> its RULE_CONFLICT reviews: how many are open, was one decided
  request         \* the requests in flight and what they have read

vars == <<status, rowVersion, version, closed, passed, relations, reviews, request>>
rules == <<status, rowVersion, version, closed, passed, relations, reviews>>

Status == {"NONE", "DRAFT", "VALIDATING", "TESTING", "REVIEW", "ACTIVE", "SUPERSEDED"}

Requests == Authors \cup Editors \cup Reviewers

-----------------------------------------------------------------------------
(* What the queries return.                                                *)

Exists(r) == status[r] # "NONE"

\* active_rules without known_at: ACTIVE and transaction_to IS NULL.
Effective(r) == status[r] = "ACTIVE" /\ r \notin closed
ActiveRules == {r \in Rules : Effective(r)}

Versions(r) == {version[q] : q \in {x \in Rules : Exists(x) /\ Key[x] = Key[r]}}

\* The version create computes when the payload gives none: one more than the
\* greatest of the key, or 1.
IsNextVersion(r, n) ==
  /\ \A m \in Versions(r) : m < n
  /\ n = 1 \/ n - 1 \in Versions(r)

\* A fault: only a rule that is ACTIVE is superseded.
SupersededIfActive(r) == {q \in Rules : q = Replaces[r] /\ status[q] = "ACTIVE"}

\* The rule that an activation of r supersedes, if there is one.
Superseded(r) == {Replaces[r]} \ {NoRule}

\* Of the effective rules an activation has read: the other versions of its
\* key that it does not replace, and the rules it contradicts.
SameKey(r, read) == {q \in read : q # r /\ Key[q] = Key[r] /\ q # Replaces[r]}
Conflicts(r, read) ==
  {q \in read : q # r /\ q # Replaces[r] /\ Key[q] # Key[r] /\ <<r, q>> \in Clash}

\* The rows that creating the rules of S writes for the relationships they declare.
DeclaredBy(S) == {t \in S \X RelationTypes \X Rules : <<t[2], t[3]>> \in Declares[t[1]]}

-----------------------------------------------------------------------------

Idle == [op |-> "none"]

Creating   == [op : {"create"}, rule : Rules, version : Nat]
Validating == [op : {"validate"}, rule : Rules, seen : Nat]
Testing    == [op : {"run", "save"}, rule : Rules, seen : Nat]
Activating == [op : {"tests", "catalog"}, rule : Rules, seen : Nat]
Blocking   == [op : {"block"}, rule : Rules, against : SUBSET Rules, found : BOOLEAN]
Promoting  == [op : {"previous", "promote"}, rule : Rules, seen : Nat, previous : Nat]

TypeOK ==
  /\ status \in [Rules -> Status]
  /\ rowVersion \in [Rules -> Nat]
  /\ version \in [Rules -> Nat]
  /\ closed \subseteq Rules
  /\ passed \subseteq Rules
  /\ relations \subseteq Rules \X RelationTypes \X Rules
  /\ reviews \in [Rules -> [open : Nat, decided : BOOLEAN]]
  /\ request \in [Requests -> {Idle} \cup Creating \cup Validating \cup Testing
                                \cup Activating \cup Blocking \cup Promoting]

Init ==
  /\ status = [r \in Rules |-> IF r \in Existing THEN "DRAFT" ELSE "NONE"]
  /\ rowVersion = [r \in Rules |-> IF r \in Existing THEN 1 ELSE 0]
  /\ version = [r \in Rules |-> IF r \in Existing THEN 1 ELSE 0]
  /\ closed = {}
  /\ passed = {}
  /\ relations = DeclaredBy(Existing)
  /\ reviews = [r \in Rules |-> [open |-> 0, decided |-> FALSE]]
  /\ request = [p \in Requests |-> Idle]

Is(p, op) == request[p].op = op
Goes(p, to) == request' = [request EXCEPT ![p] = to] /\ UNCHANGED rules
Ends(p) == request' = [request EXCEPT ![p] = Idle]

\* The guarded UPDATE of update_rule: the row still has the version given.
MayUpdate(r, seen) == rowVersion[r] = seen /\ rowVersion[r] < MaxRow[r]

-----------------------------------------------------------------------------
(* create                                                                  *)

\* The replaced rule and the targets of the relationships exist, and list_rules
\* gives the next version; r is the id this request draws for its row.
BeginCreate(p, r) ==
  /\ Is(p, "none")
  /\ ~Exists(r)
  /\ \A q \in Authors : Is(q, "create") => request[q].rule # r
  /\ Replaces[r] # NoRule => Exists(Replaces[r])
  /\ \A d \in Declares[r] : Exists(d[2])
  /\ \E n \in 1 .. Cardinality(Rules) : IsNextVersion(r, n) /\
       Goes(p, [op |-> "create", rule |-> r, version |-> n])

\* (logical_key, version) is unique: a request that lost the race for its
\* version is answered RULE_CREATE_CONFLICT.
VersionTaken(p) == request[p].version \in Versions(request[p].rule)

Create(p) ==
  /\ Is(p, "create")
  /\ ~VersionTaken(p)
  /\ LET r == request[p].rule
     IN  /\ status' = [status EXCEPT ![r] = "DRAFT"]
         /\ rowVersion' = [rowVersion EXCEPT ![r] = 1]
         /\ version' = [version EXCEPT ![r] = request[p].version]
         /\ relations' = relations \cup ({r} \X {"REPLACES"} \X Superseded(r)) \cup DeclaredBy({r})
  /\ Ends(p)
  /\ UNCHANGED <<closed, passed, reviews>>

CreateConflict(p) == Is(p, "create") /\ VersionTaken(p) /\ Goes(p, Idle)

-----------------------------------------------------------------------------
(* validate: no status is asked for, the row version read is the guard     *)

BeginValidate(p, r) ==
  /\ Is(p, "none")
  /\ Exists(r)
  /\ Goes(p, [op |-> "validate", rule |-> r, seen |-> rowVersion[r]])

SetStatus(r, to) ==
  /\ status' = [status EXCEPT ![r] = to]
  /\ rowVersion' = [rowVersion EXCEPT ![r] = @ + 1]

Validate(p) ==
  /\ Is(p, "validate")
  /\ MayUpdate(request[p].rule, request[p].seen)
  /\ SetStatus(request[p].rule, IF request[p].rule \in Valid THEN "REVIEW" ELSE "VALIDATING")
  /\ Ends(p)
  /\ UNCHANGED <<version, closed, passed, relations, reviews>>

-----------------------------------------------------------------------------
(* test                                                                    *)

BeginTest(p, r) ==
  /\ Is(p, "none")
  /\ Exists(r)
  /\ r \in Valid => r \in Tested    \* otherwise an ActivationError, nothing written
  /\ Goes(p, [op |-> IF r \in Valid THEN "run" ELSE "save", rule |-> r,
              seen |-> rowVersion[r]])

\* The test cases run against the rule as first read, and the row is then read
\* again: its version, not the one first read, guards the update.
RunTests(p) ==
  /\ Is(p, "run")
  /\ Goes(p, [request[p] EXCEPT !.op = "save", !.seen = rowVersion[request[p].rule]])

TestVerdict(r) ==
  IF r \notin Valid THEN "VALIDATING" ELSE IF r \in Passing THEN "REVIEW" ELSE "TESTING"

SaveTest(p) ==
  /\ Is(p, "save")
  /\ MayUpdate(request[p].rule, request[p].seen)
  /\ SetStatus(request[p].rule, TestVerdict(request[p].rule))
  /\ passed' = passed \cup ({request[p].rule} \cap Valid \cap Passing)
  /\ Ends(p)
  /\ UNCHANGED <<version, closed, relations, reviews>>

-----------------------------------------------------------------------------
(* activate                                                                *)

\* get_rule, validation, provenance.  The guard of the update is the version read,
\* or the one the client expects: if that is not the version of the row now, the
\* update can only be refused, for row versions never go back.
BeginActivate(p, r) ==
  /\ Is(p, "none")
  /\ Exists(r)
  /\ r \in Valid \cap Sourced
  /\ Goes(p, [op |-> "tests", rule |-> r, seen |-> rowVersion[r]])

\* A fault: the recorded outcomes are not looked at.
CheckNoTests(p) == Is(p, "tests") /\ Goes(p, [request[p] EXCEPT !.op = "catalog"])

\* list_rule_tests: every test case has a recorded pass.
CheckTests(p) ==
  /\ Is(p, "tests")
  /\ Goes(p, IF request[p].rule \in passed THEN [request[p] EXCEPT !.op = "catalog"] ELSE Idle)

\* A fault: versions of one key are not compared.
CheckContradictions(p) ==
  /\ Is(p, "catalog")
  /\ LET r == request[p].rule
         against == Conflicts(r, ActiveRules)
     IN  Goes(p,
           IF against # {} THEN [op |-> "block", rule |-> r, against |-> against,
                                 found |-> reviews[r].open > 0]
           ELSE [op |-> IF Replaces[r] = NoRule THEN "promote" ELSE "previous",
                 rule |-> r, seen |-> request[p].seen, previous |-> 0])

\* A fault: a decided review lets the contradiction pass.
CheckUndecided(p) ==
  /\ Is(p, "catalog")
  /\ LET r == request[p].rule
         against == Conflicts(r, ActiveRules)
     IN  Goes(p,
           IF SameKey(r, ActiveRules) # {} THEN Idle
           ELSE IF against # {} /\ ~reviews[r].decided
           THEN [op |-> "block", rule |-> r, against |-> against, found |-> reviews[r].open > 0]
           ELSE [op |-> IF Replaces[r] = NoRule THEN "promote" ELSE "previous",
                 rule |-> r, seen |-> request[p].seen, previous |-> 0])

\* active_rules: refuse a second version of the key, block on contradictions.
\* find_open_review follows at once when there are some.
CheckCatalog(p) ==
  /\ Is(p, "catalog")
  /\ LET r == request[p].rule
         against == Conflicts(r, ActiveRules)
     IN  Goes(p,
           IF SameKey(r, ActiveRules) # {} THEN Idle
           ELSE IF against # {} THEN [op |-> "block", rule |-> r, against |-> against,
                                        found |-> reviews[r].open > 0]
           ELSE [op |-> IF Replaces[r] = NoRule THEN "promote" ELSE "previous",
                 rule |-> r, seen |-> request[p].seen, previous |-> 0])

\* A fault: the review is lost with the error that follows.
BlockUnreviewed(p) ==
  /\ Is(p, "block")
  /\ relations' = relations \cup ({request[p].rule} \X {"CONFLICTS_WITH"} \X request[p].against)
  /\ Ends(p)
  /\ UNCHANGED <<status, rowVersion, version, closed, passed, reviews>>

\* A blocked activation commits its relations, and a review unless it found one
\* open, and only then raises RULE_CONFLICT.
Block(p) ==
  /\ Is(p, "block")
  /\ relations' = relations \cup ({request[p].rule} \X {"CONFLICTS_WITH"} \X request[p].against)
  /\ reviews' = [reviews EXCEPT ![request[p].rule].open =
                  IF request[p].found THEN @ ELSE @ + 1]
  /\ Ends(p)
  /\ UNCHANGED <<status, rowVersion, version, closed, passed>>

\* get_rule of the rule to be replaced, whatever its status is.
ReadPrevious(p) ==
  /\ Is(p, "previous")
  /\ \E q \in Rules :
       /\ q = Replaces[request[p].rule]
       /\ Goes(p, [request[p] EXCEPT !.op = "promote", !.previous = rowVersion[q]])

MayPromote(p) ==
  LET r == request[p].rule
  IN  /\ MayUpdate(r, request[p].seen)
      /\ Replaces[r] # NoRule => MayUpdate(Replaces[r], request[p].previous)

\* The replaced rule is superseded and closed, the new one made ACTIVE.  Its own
\* transaction_to is not touched.
Promote(p) ==
  /\ Is(p, "promote")
  /\ MayPromote(p)
  /\ LET r == request[p].rule
         old == Superseded(r)
     IN  /\ status' = [q \in Rules |-> IF q = r THEN "ACTIVE"
                                       ELSE IF q \in old THEN "SUPERSEDED" ELSE status[q]]
         /\ rowVersion' = [q \in Rules |-> IF q \in old \cup {r} THEN rowVersion[q] + 1
                                                             ELSE rowVersion[q]]
         /\ closed' = closed \cup old
         /\ relations' = relations \cup ({r} \X {"REPLACES"} \X old)
  /\ Ends(p)
  /\ UNCHANGED <<version, passed, reviews>>

-----------------------------------------------------------------------------

\* A fault: a review is decided again.
DecideAgain(p, r) ==
  /\ Is(p, "none")
  /\ reviews[r].open > 0 \/ reviews[r].decided
  /\ reviews' = [reviews EXCEPT ![r] = [open |-> @.open - 1, decided |-> TRUE]]
  /\ UNCHANGED <<status, rowVersion, version, closed, passed, relations, request>>

\* A review of a rule conflict is decided; the decision changes no rule.
DecideReview(p, r) ==
  /\ Is(p, "none")
  /\ reviews[r].open > 0
  /\ reviews' = [reviews EXCEPT ![r] = [open |-> @.open - 1, decided |-> TRUE]]
  /\ UNCHANGED <<status, rowVersion, version, closed, passed, relations, request>>

\* CONCURRENT_MODIFICATION, a disconnect or a crash: the transaction rolls back.
Abort(p) == ~Is(p, "none") /\ Goes(p, Idle)

Author(p) == (\E r \in Rules : BeginCreate(p, r)) \/ Create(p) \/ CreateConflict(p)

Edit(p) ==
  \/ \E r \in Rules : BeginValidate(p, r) \/ BeginTest(p, r)
  \/ Validate(p) \/ RunTests(p) \/ SaveTest(p)

Review(p) ==
  \/ \E r \in Rules : BeginActivate(p, r) \/ DecideReview(p, r)
  \/ CheckTests(p) \/ CheckCatalog(p) \/ Block(p) \/ ReadPrevious(p) \/ Promote(p)

Next ==
  \/ \E p \in Authors : Author(p)
  \/ \E p \in Editors : Edit(p)
  \/ \E p \in Reviewers : Review(p)
  \/ \E p \in Requests : Abort(p)

Spec == Init /\ [][Next]_vars

-----------------------------------------------------------------------------
(* Properties.                                                             *)

\* At most one request activates at a time.
ReviewsAreSerial == \A p, q \in Reviewers : p = q

\* Two versions of one logical key are never in effect together, whatever the
\* editors do to rows that an activation has already read.
OneEffectivePerKey ==
  \A r, q \in ActiveRules : Key[r] = Key[q] => r = q

\* Two contradictory rules of equal priority are never in effect together: the
\* second one to be activated is blocked, or replaces the first.
NoEffectiveContradiction ==
  \A r, q \in ActiveRules : Key[r] # Key[q] => <<r, q>> \notin Clash

\* A rule that is ACTIVE is valid, has provenance and has a recorded pass for
\* tests that do pass, however validations and test runs of the same row
\* overlapped with its activation.
ActiveIsQualified ==
  \A r \in Rules : status[r] = "ACTIVE" => r \in Valid \cap Sourced \cap Tested \cap Passing \cap passed

\* A conflict that the author of a rule did not declare was found by an activation
\* and is explained by a review, open or decided: what a blocked activation leaves
\* behind is committed as a whole though its request fails.
BlockIsReviewed ==
  \A r, q \in Rules :
    <<r, "CONFLICTS_WITH", q>> \in relations /\ <<"CONFLICTS_WITH", q>> \notin Declares[r] =>
      /\ <<r, q>> \in Clash
      /\ reviews[r].open > 0 \/ reviews[r].decided

\* No rule is in effect together with the rule it replaces.  The catalog check does
\* not see to it: it never looks at the rule that a candidate replaces, which may be
\* a draft at that time, or come back through validation, tests and an activation of
\* its own.
ReplacedIsOut ==
  \A r \in ActiveRules : Replaces[r] \notin ActiveRules
=============================================================================
