------------------------ MODULE RuleLifecycleProofs ------------------------
(***************************************************************************)
(* Proofs about the rule lifecycle, for any rules, contradictions and      *)
(* requests.  What holds of the catalog as a whole (one version of a key,  *)
(* no contradiction) holds under ReviewsAreSerial, which the code does not *)
(* enforce; what holds of one rule holds however requests overlap.         *)
(***************************************************************************)
EXTENDS RuleLifecycle, TLAPS

-----------------------------------------------------------------------------
(* Types.                                                                  *)

\* A request's operation tells which fields it has.
LEMMA RequestFields ==
  ASSUME TypeOK, NEW p \in Requests
  PROVE  /\ request[p].op # "none" => request[p].rule \in Rules
         /\ Is(p, "create") => request[p] \in Creating
         /\ Is(p, "validate") => request[p] \in Validating
         /\ request[p].op \in {"run", "save"} => request[p] \in Testing
         /\ request[p].op \in {"tests", "catalog"} => request[p] \in Activating
         /\ Is(p, "block") => request[p] \in Blocking
         /\ request[p].op \in {"previous", "promote"} => request[p] \in Promoting
<1>1. request[p] \in {Idle} \cup Creating \cup Validating \cup Testing
                       \cup Activating \cup Blocking \cup Promoting
  BY DEF TypeOK
<1> USE DEF Is, Idle, Creating, Validating, Testing, Activating, Blocking, Promoting
<1>2. CASE request[p] = Idle
  BY <1>2
<1>3. CASE request[p] \in Creating
  BY <1>3
<1>4. CASE request[p] \in Validating
  BY <1>4
<1>5. CASE request[p] \in Testing
  BY <1>5
<1>6. CASE request[p] \in Activating
  BY <1>6
<1>7. CASE request[p] \in Blocking
  BY <1>7
<1>8. CASE request[p] \in Promoting
  BY <1>8
<1>9. QED
  BY <1>1, <1>2, <1>3, <1>4, <1>5, <1>6, <1>7, <1>8

\* The step of a request that only reads keeps the types if its new record does.
LEMMA ReadingTypes ==
  ASSUME TypeOK, NEW p \in Requests, NEW to, Goes(p, to),
         to \in {Idle} \cup Creating \cup Validating \cup Testing
                 \cup Activating \cup Blocking \cup Promoting
  PROVE  TypeOK'
BY DEF TypeOK, Goes, rules

\* So does a step that writes rows and ends the request.
LEMMA WritingTypes ==
  ASSUME TypeOK, NEW p \in Requests, Ends(p),
         status' \in [Rules -> Status], rowVersion' \in [Rules -> Nat],
         version' \in [Rules -> Nat], closed' \subseteq Rules, passed' \subseteq Rules,
         relations' \subseteq Rules \X RelationTypes \X Rules,
         reviews' \in [Rules -> [open : Nat, decided : BOOLEAN]]
  PROVE  TypeOK'
BY DEF TypeOK, Ends

\* What a rule supersedes is a rule.
LEMMA SupersededTypes ==
  ASSUME NEW r \in Rules
  PROVE  Superseded(r) \subseteq Rules
BY RulesAssumption DEF Superseded

\* Every step of every request keeps the rows and the requests well typed.
LEMMA AuthorTypes ==
  ASSUME TypeOK, NEW p \in Authors, Author(p)
  PROVE  TypeOK'
<1>1. p \in Requests
  BY DEF Requests
<1>2. ASSUME NEW r \in Rules, BeginCreate(p, r)
      PROVE  TypeOK'
  <2>1. PICK n \in 1 .. Cardinality(Rules) :
          Goes(p, [op |-> "create", rule |-> r, version |-> n])
    BY <1>2 DEF BeginCreate
  <2>2. [op |-> "create", rule |-> r, version |-> n] \in Creating
    BY DEF Creating
  <2>3. QED
    BY <1>1, <2>1, <2>2, ReadingTypes
<1>3. CASE Create(p)
  <2>1. /\ request[p].rule \in Rules /\ request[p].version \in Nat
        /\ status' = [status EXCEPT ![request[p].rule] = "DRAFT"]
        /\ rowVersion' = [rowVersion EXCEPT ![request[p].rule] = 1]
        /\ version' = [version EXCEPT ![request[p].rule] = request[p].version]
    BY <1>1, <1>3, RequestFields DEF Create, Creating
  <2>2. relations' \subseteq Rules \X RelationTypes \X Rules
    <3>1. PICK r \in Rules : r = request[p].rule
      BY <2>1
    <3>2. DeclaredBy({r}) \subseteq Rules \X RelationTypes \X Rules
      BY DEF DeclaredBy
    <3>3. {r} \X {"REPLACES"} \X Superseded(r) \subseteq Rules \X RelationTypes \X Rules
      BY SupersededTypes DEF RelationTypes
    <3>4. relations' = relations \cup ({r} \X {"REPLACES"} \X Superseded(r)) \cup DeclaredBy({r})
      BY <1>3, <3>1 DEF Create
    <3>5. QED
      BY <3>2, <3>3, <3>4 DEF TypeOK
  <2>3. /\ status' \in [Rules -> Status] /\ rowVersion' \in [Rules -> Nat]
        /\ version' \in [Rules -> Nat]
    BY <2>1 DEF TypeOK, Status
  <2>4. Ends(p) /\ UNCHANGED <<closed, passed, reviews>>
    BY <1>3 DEF Create
  <2>5. QED
    BY <1>1, <2>2, <2>3, <2>4, WritingTypes DEF TypeOK
<1>4. CASE CreateConflict(p)
  BY <1>1, <1>4, ReadingTypes DEF CreateConflict
<1>5. QED
  BY <1>2, <1>3, <1>4 DEF Author

LEMMA EditTypes ==
  ASSUME TypeOK, NEW p \in Editors, Edit(p)
  PROVE  TypeOK'
<1>1. p \in Requests
  BY DEF Requests
<1>2. ASSUME NEW r \in Rules, BeginValidate(p, r)
      PROVE  TypeOK'
  <2>1. [op |-> "validate", rule |-> r, seen |-> rowVersion[r]] \in Validating
    BY DEF Validating, TypeOK
  <2>2. QED
    BY <1>1, <1>2, <2>1, ReadingTypes DEF BeginValidate
<1>3. ASSUME NEW r \in Rules, BeginTest(p, r)
      PROVE  TypeOK'
  <2>1. [op |-> IF r \in Valid THEN "run" ELSE "save", rule |-> r, seen |-> rowVersion[r]]
          \in Testing
    BY DEF Testing, TypeOK
  <2>2. QED
    BY <1>1, <1>3, <2>1, ReadingTypes DEF BeginTest
<1>4. CASE RunTests(p)
  <2>1. request[p] \in Testing
    BY <1>1, <1>4, RequestFields DEF RunTests, Is
  <2>2. [request[p] EXCEPT !.op = "save", !.seen = rowVersion[request[p].rule]] \in Testing
    BY <2>1 DEF Testing, TypeOK
  <2>3. QED
    BY <1>1, <1>4, <2>2, ReadingTypes DEF RunTests
<1>5. ASSUME NEW r \in Rules, NEW to \in Status, SetStatus(r, to)
      PROVE  status' \in [Rules -> Status] /\ rowVersion' \in [Rules -> Nat]
  BY <1>5 DEF SetStatus, TypeOK
<1>6. CASE Validate(p)
  <2>1. request[p].rule \in Rules
    BY <1>1, <1>6, RequestFields DEF Validate, Is
  <2>2. status' \in [Rules -> Status] /\ rowVersion' \in [Rules -> Nat]
    BY <1>5, <1>6, <2>1 DEF Validate, Status
  <2>3. QED
    BY <1>1, <1>6, <2>2, WritingTypes DEF Validate, TypeOK
<1>7. CASE SaveTest(p)
  <2>1. request[p].rule \in Rules
    BY <1>1, <1>7, RequestFields DEF SaveTest, Is
  <2>2. status' \in [Rules -> Status] /\ rowVersion' \in [Rules -> Nat]
    BY <1>5, <1>7, <2>1 DEF SaveTest, Status, TestVerdict
  <2>3. QED
    BY <1>1, <1>7, <2>1, <2>2, WritingTypes DEF SaveTest, TypeOK
<1>8. QED
  BY <1>2, <1>3, <1>4, <1>6, <1>7 DEF Edit

LEMMA ReviewTypes ==
  ASSUME TypeOK, NEW p \in Reviewers, Review(p)
  PROVE  TypeOK'
<1>1. p \in Requests
  BY DEF Requests
<1>2. ASSUME NEW r \in Rules, BeginActivate(p, r)
      PROVE  TypeOK'
  <2>1. [op |-> "tests", rule |-> r, seen |-> rowVersion[r]] \in Activating
    BY DEF Activating, TypeOK
  <2>2. QED
    BY <1>1, <1>2, <2>1, ReadingTypes DEF BeginActivate
<1>3. CASE CheckTests(p)
  <2>1. request[p] \in Activating
    BY <1>1, <1>3, RequestFields DEF CheckTests, Is
  <2>2. [request[p] EXCEPT !.op = "catalog"] \in Activating
    BY <2>1 DEF Activating
  <2>3. QED
    BY <1>1, <1>3, <2>2, ReadingTypes DEF CheckTests
<1>4. CASE CheckCatalog(p)
  <2>1. request[p].rule \in Rules /\ request[p].seen \in Nat
    BY <1>1, <1>4, RequestFields DEF CheckCatalog, Is, Activating
  <2>2. [op |-> "block", rule |-> request[p].rule,
         against |-> Conflicts(request[p].rule, ActiveRules),
         found |-> reviews[request[p].rule].open > 0] \in Blocking
    BY <2>1 DEF Blocking, Conflicts, ActiveRules
  <2>3. [op |-> IF Replaces[request[p].rule] = NoRule THEN "promote" ELSE "previous",
         rule |-> request[p].rule, seen |-> request[p].seen, previous |-> 0] \in Promoting
    BY <2>1 DEF Promoting
  <2>4. QED
    BY <1>1, <1>4, <2>2, <2>3, ReadingTypes DEF CheckCatalog
<1>5. CASE Block(p)
  <2>1. request[p] \in Blocking
    BY <1>1, <1>5, RequestFields DEF Block
  <2>2. relations' \subseteq Rules \X RelationTypes \X Rules
    BY <1>5, <2>1 DEF Block, Blocking, TypeOK, RelationTypes
  <2>3. reviews' \in [Rules -> [open : Nat, decided : BOOLEAN]]
    BY <1>5, <2>1 DEF Block, Blocking, TypeOK
  <2>4. QED
    BY <1>1, <1>5, <2>2, <2>3, WritingTypes DEF Block, TypeOK
<1>6. CASE ReadPrevious(p)
  <2>1. request[p] \in Promoting
    BY <1>1, <1>6, RequestFields DEF ReadPrevious, Is
  <2>2. PICK q \in Rules :
          Goes(p, [request[p] EXCEPT !.op = "promote", !.previous = rowVersion[q]])
    BY <1>6 DEF ReadPrevious
  <2>3. [request[p] EXCEPT !.op = "promote", !.previous = rowVersion[q]] \in Promoting
    BY <2>1 DEF Promoting, TypeOK
  <2>4. QED
    BY <1>1, <2>2, <2>3, ReadingTypes
<1>7. CASE Promote(p)
  <2>1. request[p].rule \in Rules
    BY <1>1, <1>7, RequestFields DEF Promote, Is
  <2>2. PICK r \in Rules : r = request[p].rule /\ Superseded(r) \subseteq Rules
    BY <2>1, SupersededTypes
  <2>3. relations' \subseteq Rules \X RelationTypes \X Rules /\ closed' \subseteq Rules
    BY <1>7, <2>2 DEF Promote, TypeOK, RelationTypes
  <2>4. status' \in [Rules -> Status] /\ rowVersion' \in [Rules -> Nat]
    BY <1>7, <2>2 DEF Promote, TypeOK, Status
  <2>5. QED
    BY <1>1, <1>7, <2>3, <2>4, WritingTypes DEF Promote, TypeOK
<1>8. ASSUME NEW r \in Rules, DecideReview(p, r)
      PROVE  TypeOK'
  BY <1>8 DEF DecideReview, TypeOK
<1>9. QED
  BY <1>2, <1>3, <1>4, <1>5, <1>6, <1>7, <1>8 DEF Review

LEMMA InitTypes == Init => TypeOK
BY ExistingAssumption DEF Init, TypeOK, Status, DeclaredBy

\* Rows and requests are always well typed.
THEOREM TypeCorrect == Spec => []TypeOK
<1>1. Init => TypeOK
  BY InitTypes
<1>2. TypeOK /\ [Next]_vars => TypeOK'
  <2> SUFFICES ASSUME TypeOK, [Next]_vars PROVE TypeOK'
    OBVIOUS
  <2>1. ASSUME NEW p \in Requests, Abort(p)
        PROVE  TypeOK'
    BY <2>1, ReadingTypes DEF Abort
  <2>2. CASE UNCHANGED vars
    BY <2>2 DEF vars, TypeOK
  <2>3. QED
    BY <2>1, <2>2, AuthorTypes, EditTypes, ReviewTypes DEF Next
<1>3. QED
  BY <1>1, <1>2, PTL DEF Spec

-----------------------------------------------------------------------------
(* What one rule's row and the reviews about it can rely on.               *)

Reviewed(r) == reviews[r].open > 0 \/ reviews[r].decided

\* What an activation has checked still holds when it writes.
ActivationIsSound(p) ==
  /\ request[p].op \in {"tests", "catalog", "previous", "promote"} =>
       request[p].rule \in Valid \cap Sourced
  /\ request[p].op \in {"catalog", "previous", "promote"} => request[p].rule \in passed
  /\ request[p].op = "block" =>
       /\ \A q \in request[p].against : <<request[p].rule, q>> \in Clash
       /\ request[p].found => Reviewed(request[p].rule)

\* A test run of a valid rule has test cases.
TestIsSound(p) ==
  request[p].op \in {"run", "save"} /\ request[p].rule \in Valid => request[p].rule \in Tested

RowInv ==
  /\ TypeOK
  /\ passed \subseteq Valid \cap Tested \cap Passing
  /\ ActiveIsQualified
  /\ BlockIsReviewed
  /\ \A p \in Reviewers : ActivationIsSound(p)
  /\ \A p \in Editors : TestIsSound(p)

\* What was checked of a request stays true while the recorded passes and the
\* reviews only grow and the request itself stands still.
LEMMA SoundnessIsStable ==
  ASSUME RowInv, TypeOK', passed \subseteq passed', \A r \in Rules : Reviewed(r) => Reviewed(r)'
  PROVE  /\ \A p \in Reviewers : request'[p] = request[p] => ActivationIsSound(p)'
         /\ \A p \in Editors : request'[p] = request[p] => TestIsSound(p)'
<1>1. ASSUME NEW p \in Reviewers, request'[p] = request[p]
      PROVE  ActivationIsSound(p)'
  <2>1. request[p].op # "none" => request[p].rule \in Rules
    BY RequestFields DEF RowInv, Requests
  <2>2. ActivationIsSound(p)
    BY DEF RowInv
  <2>3. ASSUME NEW r \in Rules, r = request[p].rule, request[p].op = "block", request[p].found
        PROVE  Reviewed(r)'
    BY <2>2, <2>3 DEF ActivationIsSound
  <2>4. request'[p].op = "block" /\ request'[p].found =>
          reviews'[request'[p].rule].open > 0 \/ reviews'[request'[p].rule].decided
    BY <1>1, <2>1, <2>3 DEF Reviewed
  <2>5. QED
    BY <1>1, <2>2, <2>4 DEF ActivationIsSound, Reviewed
<1>2. ASSUME NEW p \in Editors, request'[p] = request[p]
      PROVE  TestIsSound(p)'
  BY <1>2 DEF RowInv, TestIsSound
<1>3. QED
  BY <1>1, <1>2

\* A step that changes no row: only the reader's own record needs checking.
LEMMA ReadingKeepsRowInv ==
  ASSUME RowInv, TypeOK', NEW p \in Requests, NEW to, Goes(p, to),
         p \in Reviewers => ActivationIsSound(p)',
         p \in Editors => TestIsSound(p)'
  PROVE  RowInv'
<1>1. /\ passed' = passed /\ status' = status /\ reviews' = reviews /\ relations' = relations
      /\ \A q \in Requests : q # p => request'[q] = request[q]
  BY DEF Goes, rules, RowInv, TypeOK
<1>2. \A r \in Rules : Reviewed(r) => Reviewed(r)'
  BY <1>1 DEF Reviewed
<1>3. ActiveIsQualified' /\ BlockIsReviewed'
  BY <1>1 DEF RowInv, ActiveIsQualified, BlockIsReviewed
<1>4. /\ \A q \in Reviewers : ActivationIsSound(q)'
      /\ \A q \in Editors : TestIsSound(q)'
  BY <1>1, <1>2, SoundnessIsStable DEF Requests
<1>5. QED
  BY <1>1, <1>3, <1>4 DEF RowInv

\* A request that ends has nothing left to check.
LEMMA IdleIsSound ==
  ASSUME TypeOK, NEW p \in Requests, Ends(p)
  PROVE  /\ ActivationIsSound(p)' /\ TestIsSound(p)'
         /\ \A q \in Requests : q # p => request'[q] = request[q]
BY DEF Ends, ActivationIsSound, TestIsSound, Idle, TypeOK

LEMMA AuthorRowInv ==
  ASSUME RowInv, TypeOK', NEW p \in Authors, Author(p)
  PROVE  RowInv'
<1>1. p \in Requests /\ p \notin Reviewers /\ p \notin Editors
  BY RulesAssumption DEF Requests
<1>2. CASE Create(p)
  <2>1. request[p].rule \in Rules
    BY <1>1, <1>2, RequestFields DEF Create, Is, RowInv
  <2>2. ActiveIsQualified'
    BY <1>2, <2>1 DEF Create, ActiveIsQualified, RowInv, TypeOK
  <2>3. BlockIsReviewed'
    <3>1. PICK c \in Rules : c = request[p].rule
      BY <2>1
    <3>2. ASSUME NEW r \in Rules, NEW q \in Rules, <<r, "CONFLICTS_WITH", q>> \in relations'
          PROVE  \/ <<r, "CONFLICTS_WITH", q>> \in relations
                 \/ <<"CONFLICTS_WITH", q>> \in Declares[r]
      BY <1>2, <3>1, <3>2 DEF Create, DeclaredBy
    <3>3. reviews' = reviews
      BY <1>2 DEF Create
    <3>4. QED
      BY <3>2, <3>3 DEF BlockIsReviewed, RowInv
  <2>4. /\ passed' = passed /\ \A r \in Rules : Reviewed(r) => Reviewed(r)'
        /\ \A q \in Requests : q # p => request'[q] = request[q]
    BY <1>1, <1>2, IdleIsSound DEF Create, Reviewed, RowInv
  <2>5. /\ \A q \in Reviewers : ActivationIsSound(q)'
        /\ \A q \in Editors : TestIsSound(q)'
    BY <1>1, <2>4, SoundnessIsStable DEF Requests
  <2>6. QED
    BY <2>2, <2>3, <2>4, <2>5 DEF RowInv
<1>3. QED
  BY <1>1, <1>2, ReadingKeepsRowInv DEF Author, BeginCreate, CreateConflict

LEMMA EditRowInv ==
  ASSUME RowInv, TypeOK', NEW p \in Editors, Edit(p)
  PROVE  RowInv'
<1>1. p \in Requests /\ p \notin Reviewers
  BY RulesAssumption DEF Requests
<1>2. ASSUME NEW r \in Rules, BeginValidate(p, r)
      PROVE  RowInv'
  <2>1. TestIsSound(p)'
    BY <1>1, <1>2 DEF BeginValidate, Goes, TestIsSound, RowInv, TypeOK
  <2>2. QED
    BY <1>1, <1>2, <2>1, ReadingKeepsRowInv DEF BeginValidate
<1>3. ASSUME NEW r \in Rules, BeginTest(p, r)
      PROVE  RowInv'
  <2>1. TestIsSound(p)'
    BY <1>1, <1>3 DEF BeginTest, Goes, TestIsSound, RowInv, TypeOK
  <2>2. QED
    BY <1>1, <1>3, <2>1, ReadingKeepsRowInv DEF BeginTest
<1>4. CASE RunTests(p)
  <2>1. request[p] \in Testing /\ TestIsSound(p)
    BY <1>1, <1>4, RequestFields DEF RunTests, Is, RowInv
  <2>2. request'[p].rule = request[p].rule
    BY <1>1, <1>4, <2>1 DEF RunTests, Goes, RowInv, TypeOK, Testing
  <2>3. TestIsSound(p)'
    BY <1>4, <2>1, <2>2 DEF RunTests, Is, TestIsSound
  <2>4. QED
    BY <1>1, <1>4, <2>3, ReadingKeepsRowInv DEF RunTests
<1>5. CASE Validate(p) \/ SaveTest(p)
  <2>1. request[p].rule \in Rules
    BY <1>1, <1>5, RequestFields DEF Validate, SaveTest, Is, RowInv
  <2>2. passed \subseteq passed' /\ passed' \subseteq Valid \cap Tested \cap Passing
    BY <1>5 DEF Validate, SaveTest, Is, RowInv, TestIsSound
  <2>3. \A r \in Rules : status'[r] = "ACTIVE" => status[r] = "ACTIVE"
    BY <1>5, <2>1 DEF Validate, SaveTest, SetStatus, TestVerdict, RowInv, TypeOK
  <2>4. ActiveIsQualified'
    BY <2>2, <2>3 DEF ActiveIsQualified, RowInv
  <2>5. relations' = relations /\ reviews' = reviews
    BY <1>5 DEF Validate, SaveTest
  <2>6. BlockIsReviewed' /\ \A r \in Rules : Reviewed(r) => Reviewed(r)'
    BY <2>5 DEF BlockIsReviewed, RowInv, Reviewed
  <2>7. TestIsSound(p)' /\ \A q \in Requests : q # p => request'[q] = request[q]
    BY <1>1, <1>5, IdleIsSound DEF Validate, SaveTest, RowInv
  <2>8. /\ \A q \in Reviewers : ActivationIsSound(q)'
        /\ \A q \in Editors : TestIsSound(q)'
    BY <1>1, <2>2, <2>6, <2>7, SoundnessIsStable DEF Requests
  <2>9. QED
    BY <2>2, <2>4, <2>6, <2>8 DEF RowInv
<1>6. QED
  BY <1>2, <1>3, <1>4, <1>5 DEF Edit

LEMMA ReviewRowInv ==
  ASSUME RowInv, TypeOK', NEW p \in Reviewers, Review(p)
  PROVE  RowInv'
<1>1. p \in Requests /\ p \notin Editors /\ ActivationIsSound(p)
  BY RulesAssumption DEF Requests, RowInv
<1>2. ASSUME NEW r \in Rules, BeginActivate(p, r)
      PROVE  RowInv'
  <2>1. ActivationIsSound(p)'
    BY <1>1, <1>2 DEF BeginActivate, Goes, ActivationIsSound, RowInv, TypeOK
  <2>2. QED
    BY <1>1, <1>2, <2>1, ReadingKeepsRowInv DEF BeginActivate
<1>3. CASE CheckTests(p)
  <2>1. request[p] \in Activating
    BY <1>1, <1>3, RequestFields DEF CheckTests, Is, RowInv
  <2>2. /\ request'[p].op # "none" =>
             request'[p].rule = request[p].rule /\ request[p].rule \in passed
        /\ request'[p].op \in {"none", "catalog"} /\ passed' = passed
    BY <1>1, <1>3, <2>1 DEF CheckTests, Goes, rules, RowInv, TypeOK, Activating, Idle
  <2>3. ActivationIsSound(p)'
    BY <1>1, <1>3, <2>2 DEF CheckTests, Is, ActivationIsSound
  <2>4. QED
    BY <1>1, <1>3, <2>3, ReadingKeepsRowInv DEF CheckTests
<1>4. CASE CheckCatalog(p)
  <2>1. PICK r \in Rules : r = request[p].rule /\ r \in passed /\ r \in Valid \cap Sourced
    BY <1>1, <1>4, RequestFields DEF CheckCatalog, Is, RowInv, ActivationIsSound
  <2>2. CASE request'[p] = Idle
    BY <1>1, <1>4, <2>2, ReadingKeepsRowInv DEF CheckCatalog, ActivationIsSound, Idle
  <2>3. CASE request'[p] = [op |-> "block", rule |-> r, against |-> Conflicts(r, ActiveRules),
                            found |-> reviews[r].open > 0]
    <3>1. \A q \in Conflicts(r, ActiveRules) : <<r, q>> \in Clash
      BY DEF Conflicts
    <3>2. /\ request'[p].op = "block" /\ request'[p].rule = r
          /\ request'[p].against = Conflicts(r, ActiveRules)
          /\ request'[p].found = (reviews[r].open > 0)
      BY <2>3
    <3>3. request'[p].found => reviews'[request'[p].rule].open > 0
      BY <1>4, <3>2 DEF CheckCatalog, Goes, rules
    <3>4. ActivationIsSound(p)'
      BY <3>1, <3>2, <3>3 DEF ActivationIsSound, Reviewed
    <3>5. QED
      BY <1>1, <1>4, <3>4, ReadingKeepsRowInv DEF CheckCatalog
  <2>4. CASE request'[p] = [op |-> IF Replaces[r] = NoRule THEN "promote" ELSE "previous",
                            rule |-> r, seen |-> request[p].seen, previous |-> 0]
    <3>1. ActivationIsSound(p)'
      BY <1>4, <2>1, <2>4 DEF CheckCatalog, Goes, rules, ActivationIsSound
    <3>2. QED
      BY <1>1, <1>4, <3>1, ReadingKeepsRowInv DEF CheckCatalog
  <2>5. QED
    BY <1>1, <1>4, <2>1, <2>2, <2>3, <2>4 DEF CheckCatalog, Goes, RowInv, TypeOK
<1>5. CASE Block(p)
  <2>1. PICK r \in Rules : r = request[p].rule
    BY <1>1, <1>5, RequestFields DEF Block, Is, RowInv
  <2>2. /\ \A q \in request[p].against : <<r, q>> \in Clash
        /\ request[p].found => Reviewed(r)
        /\ request[p].found \in BOOLEAN
    BY <1>1, <1>5, <2>1, RequestFields DEF Block, Is, Blocking, RowInv, ActivationIsSound
  <2>3. Reviewed(r)'
    BY <1>5, <2>1, <2>2 DEF Block, Reviewed, RowInv, TypeOK
  <2>4. \A q \in Rules : Reviewed(q) => Reviewed(q)'
    BY <1>5, <2>1, <2>3 DEF Block, Reviewed, RowInv, TypeOK
  <2>5. BlockIsReviewed'
    <3> SUFFICES ASSUME NEW x \in Rules, NEW y \in Rules,
                        <<x, "CONFLICTS_WITH", y>> \in relations',
                        <<"CONFLICTS_WITH", y>> \notin Declares[x]
                 PROVE  <<x, y>> \in Clash /\ Reviewed(x)'
      BY DEF BlockIsReviewed, Reviewed
    <3>1. CASE <<x, "CONFLICTS_WITH", y>> \in relations
      BY <2>4, <3>1 DEF RowInv, BlockIsReviewed, Reviewed
    <3>2. CASE x = r /\ y \in request[p].against
      BY <2>2, <2>3, <3>2
    <3>3. QED
      BY <1>5, <2>1, <3>1, <3>2 DEF Block
  <2>6. ActivationIsSound(p)' /\ \A q \in Requests : q # p => request'[q] = request[q]
    BY <1>1, <1>5, IdleIsSound DEF Block, RowInv
  <2>7. passed' = passed /\ ActiveIsQualified'
    BY <1>5 DEF Block, ActiveIsQualified, RowInv
  <2>8. /\ \A q \in Reviewers : ActivationIsSound(q)'
        /\ \A q \in Editors : TestIsSound(q)'
    BY <1>1, <2>4, <2>6, <2>7, SoundnessIsStable DEF Requests
  <2>9. QED
    BY <2>5, <2>7, <2>8 DEF RowInv
<1>6. CASE ReadPrevious(p)
  <2>1. request[p] \in Promoting
    BY <1>1, <1>6, RequestFields DEF ReadPrevious, Is, RowInv
  <2>2. request'[p].op = "promote" /\ request'[p].rule = request[p].rule /\ passed' = passed
    BY <1>1, <1>6, <2>1 DEF ReadPrevious, Goes, rules, RowInv, TypeOK, Promoting
  <2>3. ActivationIsSound(p)'
    BY <1>1, <1>6, <2>2 DEF ReadPrevious, Is, ActivationIsSound
  <2>4. QED
    BY <1>1, <1>6, <2>3, ReadingKeepsRowInv DEF ReadPrevious
<1>7. CASE Promote(p)
  <2>1. PICK r \in Rules : r = request[p].rule /\ r \in passed /\ r \in Valid \cap Sourced
    BY <1>1, <1>7, RequestFields DEF Promote, Is, RowInv, ActivationIsSound
  <2>2. \A q \in Rules : status'[q] = "ACTIVE" => q = r \/ status[q] = "ACTIVE"
    BY <1>7, <2>1 DEF Promote
  <2>3. passed' = passed /\ reviews' = reviews
    BY <1>7 DEF Promote
  <2>4. ActiveIsQualified'
    BY <2>1, <2>2, <2>3 DEF ActiveIsQualified, RowInv
  <2>5. BlockIsReviewed'
    <3>1. \A x, y \in Rules : <<x, "CONFLICTS_WITH", y>> \in relations' =>
                                <<x, "CONFLICTS_WITH", y>> \in relations
      BY <1>7 DEF Promote
    <3>2. QED
      BY <2>3, <3>1 DEF BlockIsReviewed, RowInv
  <2>6. ActivationIsSound(p)' /\ \A q \in Requests : q # p => request'[q] = request[q]
    BY <1>1, <1>7, IdleIsSound DEF Promote, RowInv
  <2>7. /\ \A q \in Reviewers : ActivationIsSound(q)'
        /\ \A q \in Editors : TestIsSound(q)'
    BY <1>1, <2>3, <2>6, SoundnessIsStable DEF Requests, Reviewed
  <2>8. QED
    BY <2>3, <2>4, <2>5, <2>7 DEF RowInv
<1>8. ASSUME NEW r \in Rules, DecideReview(p, r)
      PROVE  RowInv'
  <2>1. \A q \in Rules : Reviewed(q) => Reviewed(q)'
    BY <1>8 DEF DecideReview, Reviewed, RowInv, TypeOK
  <2>2. passed' = passed /\ status' = status /\ relations' = relations /\ request' = request
    BY <1>8 DEF DecideReview
  <2>3. BlockIsReviewed'
    BY <2>1, <2>2 DEF BlockIsReviewed, Reviewed, RowInv
  <2>4. /\ \A q \in Reviewers : ActivationIsSound(q)'
        /\ \A q \in Editors : TestIsSound(q)'
    BY <2>1, <2>2, SoundnessIsStable
  <2>5. QED
    BY <2>2, <2>3, <2>4 DEF RowInv, ActiveIsQualified
<1>9. QED
  BY <1>2, <1>3, <1>4, <1>5, <1>6, <1>7, <1>8 DEF Review

THEOREM RowInvariant == Spec => []RowInv
<1>1. Init => RowInv
  <2> SUFFICES ASSUME Init PROVE RowInv
    OBVIOUS
  <2>1. TypeOK
    BY InitTypes
  <2>2. \A r, q \in Rules : <<r, "CONFLICTS_WITH", q>> \in relations =>
                            <<"CONFLICTS_WITH", q>> \in Declares[r]
    BY DEF Init, DeclaredBy
  <2>3. QED
    BY <2>1, <2>2 DEF Init, RowInv, ActiveIsQualified, BlockIsReviewed, ActivationIsSound,
                TestIsSound, Requests, Idle
<1>2. RowInv /\ TypeOK' /\ [Next]_vars => RowInv'
  <2> SUFFICES ASSUME RowInv, TypeOK', [Next]_vars PROVE RowInv'
    OBVIOUS
  <2>1. ASSUME NEW p \in Requests, Abort(p)
        PROVE  RowInv'
    <3>1. ActivationIsSound(p)' /\ TestIsSound(p)'
      BY <2>1 DEF Abort, Goes, ActivationIsSound, TestIsSound, Idle, RowInv, TypeOK
    <3>2. QED
      BY <2>1, <3>1, ReadingKeepsRowInv DEF Abort
  <2>2. CASE UNCHANGED vars
    BY <2>2 DEF vars, RowInv, ActiveIsQualified, BlockIsReviewed, ActivationIsSound,
                TestIsSound, Reviewed
  <2>3. QED
    BY <2>1, <2>2, AuthorRowInv, EditRowInv, ReviewRowInv DEF Next
<1>3. QED
  BY <1>1, <1>2, TypeCorrect, PTL DEF Spec

\* An ACTIVE rule is valid, sourced, tested and passing.
THEOREM ActiveQualified == Spec => []ActiveIsQualified
BY RowInvariant, PTL DEF RowInv

\* A conflict that an activation recorded, not the author of the rule, is a
\* contradiction and has its review.
THEOREM BlockReviewed == Spec => []BlockIsReviewed
BY RowInvariant, PTL DEF RowInv

-----------------------------------------------------------------------------
(* The catalog, when one request activates at a time.                      *)

\* Between its reading of the catalog and its commit, an activation can count
\* on what it read: every other step only takes rules out of effect.
CatalogIsClear(p) ==
  request[p].op \in {"previous", "promote"} =>
    SameKey(request[p].rule, ActiveRules) = {} /\ Conflicts(request[p].rule, ActiveRules) = {}

CatalogInv ==
  /\ TypeOK
  /\ OneEffectivePerKey
  /\ NoEffectiveContradiction
  /\ \A p \in Reviewers : CatalogIsClear(p)

\* A step that puts no rule into effect keeps all three, if the requests that
\* are past the catalog check were past it before, for the same rule.
LEMMA ShrinkingKeepsCatalog ==
  ASSUME CatalogInv, TypeOK', ActiveRules' \subseteq ActiveRules,
         \A p \in Reviewers : request'[p].op \in {"previous", "promote"} =>
           /\ request[p].op \in {"previous", "promote"}
           /\ request'[p].rule = request[p].rule
  PROVE  CatalogInv'
<1>1. OneEffectivePerKey' /\ NoEffectiveContradiction'
  BY DEF CatalogInv, OneEffectivePerKey, NoEffectiveContradiction
<1>2. ASSUME NEW p \in Reviewers
      PROVE  CatalogIsClear(p)'
  BY DEF CatalogInv, CatalogIsClear, SameKey, Conflicts
<1>3. QED
  BY <1>1, <1>2 DEF CatalogInv

\* What editors and authors do to rows never puts a rule into effect.
LEMMA EditsOnlyShrink ==
  ASSUME TypeOK, NEW p \in Requests, Author(p) \/ Edit(p)
  PROVE  ActiveRules' \subseteq ActiveRules
<1>1. CASE UNCHANGED rules
  BY <1>1 DEF rules, ActiveRules, Effective
<1>2. CASE Create(p)
  BY <1>2, RequestFields DEF Create, Is, ActiveRules, Effective, TypeOK
<1>3. CASE Validate(p) \/ SaveTest(p)
  BY <1>3, RequestFields DEF Validate, SaveTest, SetStatus, TestVerdict, Is,
                             ActiveRules, Effective, TypeOK
<1>4. QED
  BY <1>1, <1>2, <1>3 DEF Author, Edit, BeginCreate, CreateConflict, BeginValidate,
                          BeginTest, RunTests, Goes

\* Nobody but p touches the requests of others.
LEMMA OthersStand ==
  ASSUME TypeOK, NEW p \in Requests, Author(p) \/ Edit(p) \/ Review(p) \/ Abort(p)
  PROVE  \A q \in Requests \ {p} : request'[q] = request[q]
BY DEF TypeOK, Author, Edit, Review, Abort, Goes, Ends, BeginCreate, Create, CreateConflict,
       BeginValidate, BeginTest, Validate, RunTests, SaveTest, BeginActivate, CheckTests,
       CheckCatalog, Block, ReadPrevious, Promote, DecideReview

LEMMA ReviewKeepsCatalog ==
  ASSUME CatalogInv, TypeOK', ReviewsAreSerial, NEW p \in Reviewers, Review(p)
  PROVE  CatalogInv'
<1>1. /\ p \in Requests /\ TypeOK
      /\ \A q \in Reviewers : q = p
  BY DEF Requests, CatalogInv, ReviewsAreSerial
<1>2. CASE CheckCatalog(p) /\ request'[p].op \in {"previous", "promote"}
  <2>1. PICK r \in Rules : r = request[p].rule
    BY <1>1, <1>2, RequestFields DEF CheckCatalog, Is
  <2>2. request'[p].rule = r /\ SameKey(r, ActiveRules) = {} /\ Conflicts(r, ActiveRules) = {}
    BY <1>1, <1>2, <2>1 DEF CheckCatalog, Goes, TypeOK, Idle
  <2>3. UNCHANGED rules
    BY <1>2 DEF CheckCatalog, Goes
  <2>4. ActiveRules' = ActiveRules
    BY <2>3 DEF rules, ActiveRules, Effective
  <2>5. CatalogIsClear(p)'
    BY <2>2, <2>4 DEF CatalogIsClear, SameKey, Conflicts
  <2>6. OneEffectivePerKey' /\ NoEffectiveContradiction'
    BY <2>4 DEF CatalogInv, OneEffectivePerKey, NoEffectiveContradiction
  <2>7. QED
    BY <1>1, <2>5, <2>6 DEF CatalogInv
<1>3. CASE Promote(p)
  <2>1. PICK r \in Rules : r = request[p].rule
    BY <1>1, <1>3, RequestFields DEF Promote, Is
  <2>2. SameKey(r, ActiveRules) = {} /\ Conflicts(r, ActiveRules) = {}
    BY <1>3, <2>1 DEF CatalogInv, CatalogIsClear, Promote, Is
  <2>3. request'[p].op = "none"
    BY <1>1, <1>3 DEF Promote, Ends, Idle, TypeOK
  <2>4. ASSUME NEW q \in ActiveRules', q # r
        PROVE  q \in ActiveRules /\ q # Replaces[r]
    <3>1. status'[q] = "ACTIVE" /\ q \notin closed' /\ q \in Rules
      BY DEF ActiveRules, Effective
    <3>2. q \notin Superseded(r)
      BY <1>3, <2>1, <3>1 DEF Promote
    <3>3. QED
      BY <1>3, <2>1, <2>4, <3>1, <3>2, RulesAssumption
         DEF Promote, ActiveRules, Effective, Superseded
  <2>5. \A q \in ActiveRules' : q # r => Key[q] # Key[r] /\ <<r, q>> \notin Clash
    BY <2>2, <2>4 DEF SameKey, Conflicts
  <2>6. \A q \in ActiveRules' : q \in Rules
    BY DEF ActiveRules
  <2>7. OneEffectivePerKey'
    BY <2>4, <2>5 DEF OneEffectivePerKey, CatalogInv
  <2>8. NoEffectiveContradiction'
    BY <2>4, <2>5, <2>6, ClashAssumption DEF NoEffectiveContradiction, CatalogInv
  <2>9. QED
    BY <1>1, <2>3, <2>7, <2>8 DEF CatalogInv, CatalogIsClear
<1>4. CASE ~Promote(p) /\ ~(CheckCatalog(p) /\ request'[p].op \in {"previous", "promote"})
  <2>1. ActiveRules' = ActiveRules
    <3>1. status' = status /\ closed' = closed
      BY <1>4 DEF Review, BeginActivate, CheckTests, CheckCatalog, Block, ReadPrevious,
                  DecideReview, Goes, rules
    <3>2. QED
      BY <3>1 DEF ActiveRules, Effective
  <2>2. request'[p].op \in {"previous", "promote"} =>
          /\ request[p].op \in {"previous", "promote"}
          /\ request'[p].rule = request[p].rule
    <3>1. CASE ReadPrevious(p)
      <4>1. request[p] \in Promoting
        BY <1>1, <3>1, RequestFields DEF ReadPrevious, Is
      <4>2. QED
        BY <1>1, <3>1, <4>1 DEF ReadPrevious, Is, Goes, TypeOK, Promoting
    <3>2. CASE CheckTests(p)
      <4>1. request[p] \in Activating
        BY <1>1, <3>2, RequestFields DEF CheckTests, Is
      <4>2. QED
        BY <1>1, <3>2, <4>1 DEF CheckTests, Goes, TypeOK, Activating, Idle
    <3>3. CASE ~ReadPrevious(p) /\ ~CheckTests(p)
      BY <1>1, <1>4, <3>3 DEF Review, BeginActivate, CheckCatalog, Block, DecideReview,
                              Goes, Ends, TypeOK, Idle
    <3>4. QED
      BY <3>1, <3>2, <3>3
  <2>3. QED
    BY <1>1, <2>1, <2>2, ShrinkingKeepsCatalog
<1>5. QED
  BY <1>2, <1>3, <1>4

\* Under serial activations the effective rules of the catalog never hold two
\* versions of a key, nor two contradictory rules, whatever the editors do to
\* the rows an activation has read.
THEOREM SerialCatalog ==
  ASSUME ReviewsAreSerial
  PROVE  Spec => [](OneEffectivePerKey /\ NoEffectiveContradiction)
<1>1. Init => CatalogInv
  <2> SUFFICES ASSUME Init PROVE CatalogInv
    OBVIOUS
  <2>1. TypeOK
    BY InitTypes
  <2>2. ActiveRules = {}
    BY DEF Init, ActiveRules, Effective
  <2>3. QED
    BY <2>1, <2>2 DEF Init, CatalogInv, OneEffectivePerKey, NoEffectiveContradiction,
                      CatalogIsClear, SameKey, Conflicts
<1>2. CatalogInv /\ TypeOK' /\ [Next]_vars => CatalogInv'
  <2> SUFFICES ASSUME CatalogInv, TypeOK', [Next]_vars PROVE CatalogInv'
    OBVIOUS
  <2>1. ASSUME NEW p \in Requests, Author(p) \/ Edit(p), p \notin Reviewers
        PROVE  CatalogInv'
    <3>1. \A q \in Reviewers : request'[q] = request[q]
      BY <2>1, OthersStand DEF CatalogInv, Requests
    <3>2. QED
      BY <2>1, <3>1, EditsOnlyShrink, ShrinkingKeepsCatalog DEF CatalogInv
  <2>2. ASSUME NEW p \in Requests, Abort(p)
        PROVE  CatalogInv'
    <3>1. ActiveRules' = ActiveRules
      BY <2>2 DEF Abort, Goes, rules, ActiveRules, Effective
    <3>2. \A q \in Reviewers : request'[q] = request[q] \/ request'[q].op = "none"
      BY <2>2 DEF Abort, Goes, Idle, CatalogInv, TypeOK, Requests
    <3>3. QED
      BY <3>1, <3>2, ShrinkingKeepsCatalog
  <2>3. CASE UNCHANGED vars
    <3>1. ActiveRules' = ActiveRules /\ request' = request
      BY <2>3 DEF vars, ActiveRules, Effective
    <3>2. QED
      BY <3>1, ShrinkingKeepsCatalog
  <2>4. QED
    BY <2>1, <2>2, <2>3, ReviewKeepsCatalog, RulesAssumption DEF Next, Requests
<1>3. QED
  BY <1>1, <1>2, TypeCorrect, PTL DEF Spec, CatalogInv

\* The half of it about versions of one key: it is never split between two rules.
THEOREM OnePerKey ==
  ASSUME ReviewsAreSerial
  PROVE  Spec => []OneEffectivePerKey
BY SerialCatalog, PTL

-----------------------------------------------------------------------------
(* Replacement.                                                            *)

\* What an ACTIVE rule supersedes has its transaction_to set, and nothing takes
\* that back, whatever becomes of its status.
ReplacedIsClosed == \A r \in Rules : status[r] = "ACTIVE" => Superseded(r) \subseteq closed

LEMMA ReplacedStaysClosed ==
  ASSUME TypeOK, ReplacedIsClosed, [Next]_vars
  PROVE  ReplacedIsClosed'
<1>1. CASE UNCHANGED <<status, closed>>
  BY <1>1 DEF ReplacedIsClosed, Superseded
<1>2. ASSUME NEW p \in Requests, Create(p) \/ Validate(p) \/ SaveTest(p)
      PROVE  ReplacedIsClosed'
  <2>1. PICK c \in Rules : c = request[p].rule
    BY <1>2, RequestFields DEF Create, Validate, SaveTest, Is
  <2>2. closed' = closed
    BY <1>2 DEF Create, Validate, SaveTest
  <2>3. \A r \in Rules : status'[r] = "ACTIVE" => status[r] = "ACTIVE"
    BY <1>2, <2>1 DEF Create, Validate, SaveTest, SetStatus, TestVerdict, TypeOK
  <2>4. QED
    BY <2>2, <2>3 DEF ReplacedIsClosed, Superseded
<1>3. ASSUME NEW p \in Requests, Promote(p)
      PROVE  ReplacedIsClosed'
  <2>1. PICK c \in Rules : c = request[p].rule
    BY <1>3, RequestFields DEF Promote, Is
  <2>2. closed' = closed \cup Superseded(c)
    BY <1>3, <2>1 DEF Promote
  <2>3. \A r \in Rules : status'[r] = "ACTIVE" => r = c \/ status[r] = "ACTIVE"
    BY <1>3, <2>1 DEF Promote
  <2>4. QED
    BY <2>2, <2>3 DEF ReplacedIsClosed, Superseded
<1>4. QED
  BY <1>1, <1>2, <1>3
     DEF Next, vars, rules, Requests, Author, Edit, Review, Abort, Goes, BeginCreate,
         CreateConflict, BeginValidate, BeginTest, RunTests, BeginActivate, CheckTests,
         CheckCatalog, Block, ReadPrevious, DecideReview

\* No rule is in effect together with the rule it replaces, whatever status that
\* rule had when it was replaced and however it came back since, with any number
\* of overlapping activations.
THEOREM ReplacedOut == Spec => []ReplacedIsOut
<1>1. Init => ReplacedIsClosed
  BY DEF Init, ReplacedIsClosed
<1>2. ReplacedIsClosed => ReplacedIsOut
  BY RulesAssumption DEF ReplacedIsClosed, ReplacedIsOut, Superseded, ActiveRules, Effective
<1>3. QED
  BY <1>1, <1>2, ReplacedStaysClosed, TypeCorrect, PTL DEF Spec
=============================================================================
