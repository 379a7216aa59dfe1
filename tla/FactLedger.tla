----------------------------- MODULE FactLedger -----------------------------
(***************************************************************************)
(* Canonical facts and their transaction-time history, as kept by          *)
(* KnowledgeService.create_fact and KnowledgeService.accept_observation    *)
(* over the facts table.                                                   *)
(*                                                                         *)
(* A slot is what a correction looks up: a subject, a property and the     *)
(* moment valid_from names.  A fact row is identified by its identity key, *)
(* the hash of subject, property, value and the TEXT of valid_from: two    *)
(* texts may spell one moment (two UTC offsets), so one slot and one value *)
(* may have several identities.                                            *)
(*                                                                         *)
(* Every HTTP request runs in one READ COMMITTED transaction.  Its SELECTs *)
(* are steps of their own that remember what they read; its writes become  *)
(* visible at its commit, where the guarded UPDATE that closes a fact and  *)
(* the unique index on the identity key decide whether it commits at all   *)
(* (both hold their row or key locked from the statement to the commit).   *)
(* Subject, ontology and provenance are taken as already validated.        *)
(***************************************************************************)
EXTENDS Naturals, FiniteSets

CONSTANTS
  Requests,      \* HTTP requests that may be in flight at the same time
  Slots,         \* (subject, property, moment of valid_from)
  Values,        \* Values[s]: the values claimed of slot s
  Texts,         \* Texts[s]: the spellings of valid_from that name slot s
  Observations,  \* observations extracted from documents
  Claim,         \* Claim[o]: the fact observation o asserts
  Seed,          \* the facts the ledger starts with, all open
  NoFact,        \* the Python None of "before"
  Direct         \* the source of a request to POST /facts: no observation

Identity == UNION {{s} \X Values[s] \X Texts[s] : s \in Slots}

SlotOf(i)  == i[1]
ValueOf(i) == i[2]

ASSUME NoFactAssumption == NoFact \notin Identity
ASSUME DirectAssumption == Direct \notin Observations
ASSUME ClaimsAreFacts == Claim \in [Observations -> Identity]
ASSUME SeedsAreFacts ==
  /\ Seed \subseteq Identity
  /\ \A i, j \in Seed : SlotOf(i) = SlotOf(j) => i = j

VARIABLES
  transactionFrom,  \* fact -> when the row was stamped; NULL if there is no row
  transactionTo,    \* fact -> when the row was closed; NULL while it is current
  observation,      \* observation -> its status
  changes,          \* the change log: what a fact replaced
  clock,            \* the wall clock
  request           \* the requests in flight and what they have read

vars == <<transactionFrom, transactionTo, observation, changes, clock, request>>

NULL == 0

-----------------------------------------------------------------------------
(* What the repository's queries return.                                   *)

\* find_fact_by_identity: the row exists, closed or not.
Recorded(i) == transactionFrom[i] # NULL

Open(i) == Recorded(i) /\ transactionTo[i] = NULL

\* list_facts without known_at: the rows whose transaction_to is NULL.
Current(s) == {i \in Identity : SlotOf(i) = s /\ Open(i)}

\* The row's half-open interval [transaction_from, transaction_to) holds t.
Covers(i, t) ==
  /\ Recorded(i)
  /\ transactionFrom[i] <= t
  /\ transactionTo[i] = NULL \/ t < transactionTo[i]

\* list_facts with known_at.
KnownAt(s, t) == {i \in Identity : SlotOf(i) = s /\ Covers(i, t)}

\* _find_replaced_fact: a current fact of the slot with another value.  Rows
\* come in the order of their random ids, so any of several may be first.
Replaceable(i) == {j \in Current(SlotOf(i)) : ValueOf(j) # ValueOf(i)}

-----------------------------------------------------------------------------

Idle == [step |-> "idle"]

Pending == [step : {"find", "relabel"}, fact : Identity, by : Observations \cup {Direct}]
Listing == [step : {"list"}, fact : Identity, by : Observations \cup {Direct}]
Stamping == [step : {"stamp"}, fact : Identity, by : Observations \cup {Direct},
             before : Identity \cup {NoFact}]
Writing == [step : {"write"}, fact : Identity, by : Observations \cup {Direct},
            before : Identity \cup {NoFact}, at : Nat]

Change == [before : Identity \cup {NoFact}, after : Identity]

TypeOK ==
  /\ transactionFrom \in [Identity -> Nat]
  /\ transactionTo \in [Identity -> Nat]
  /\ observation \in [Observations -> {"MAPPED", "ACCEPTED"}]
  /\ changes \subseteq Change
  /\ clock \in Nat
  /\ request \in [Requests -> {Idle} \cup Pending \cup Listing \cup Stamping \cup Writing]

Init ==
  /\ transactionFrom = [i \in Identity |-> IF i \in Seed THEN 1 ELSE NULL]
  /\ transactionTo = [i \in Identity |-> NULL]
  /\ observation = [o \in Observations |-> "MAPPED"]
  /\ changes = [before : {NoFact}, after : Seed]
  /\ clock = 2
  /\ request = [r \in Requests |-> Idle]

-----------------------------------------------------------------------------
(* The steps of a request.                                                 *)

\* POST /facts: the payload passes validation; nothing has been read yet.
CreateFact(r, i) ==
  /\ request[r].step = "idle"
  /\ request' = [request EXCEPT ![r] = [step |-> "find", fact |-> i, by |-> Direct]]
  /\ UNCHANGED <<transactionFrom, transactionTo, observation, changes, clock>>

\* A fault: the observation is labelled in a commit of its own, first.
LabelFirst(r, o) ==
  /\ request[r].step = "idle"
  /\ observation[o] # "ACCEPTED"
  /\ observation' = [observation EXCEPT ![o] = "ACCEPTED"]
  /\ request' = [request EXCEPT ![r] = [step |-> "find", fact |-> Claim[o], by |-> o]]
  /\ UNCHANGED <<transactionFrom, transactionTo, changes, clock>>

\* accept_observation reads the observation; one already ACCEPTED is returned.
AcceptObservation(r, o) ==
  /\ request[r].step = "idle"
  /\ observation[o] # "ACCEPTED"
  /\ request' = [request EXCEPT ![r] = [step |-> "find", fact |-> Claim[o], by |-> o]]
  /\ UNCHANGED <<transactionFrom, transactionTo, observation, changes, clock>>

\* A fault: a new fact is written without looking for the one it replaces.
FindAndWrite(r) ==
  /\ request[r].step = "find"
  /\ request' = [request EXCEPT ![r] =
       IF Recorded(@.fact) THEN Idle ELSE [@ EXCEPT !.step = "write"]]
  /\ UNCHANGED <<transactionFrom, transactionTo, observation, changes, clock>>

\* find_fact_by_identity.  A recorded fact, even a closed one, is the answer:
\* create_fact returns it, accept_observation goes on to label the observation.
FindIdentity(r) ==
  /\ request[r].step = "find"
  /\ request' = [request EXCEPT ![r] =
       IF ~Recorded(@.fact) THEN [@ EXCEPT !.step = "list"]
       ELSE IF @.by = Direct THEN Idle
       ELSE [@ EXCEPT !.step = "relabel"]]
  /\ UNCHANGED <<transactionFrom, transactionTo, observation, changes, clock>>

\* accept_observation of a fact that is already recorded: before is None.
Relabel(r) ==
  /\ request[r].step = "relabel"
  /\ observation' = [observation EXCEPT ![request[r].by] = "ACCEPTED"]
  /\ changes' = changes \cup {[before |-> NoFact, after |-> request[r].fact]}
  /\ request' = [request EXCEPT ![r] = Idle]
  /\ UNCHANGED <<transactionFrom, transactionTo, clock>>

\* list_facts and _find_replaced_fact.
ListCurrent(r) ==
  /\ request[r].step = "list"
  /\ \E b \in Identity \cup {NoFact} :
       /\ IF Replaceable(request[r].fact) = {} THEN b = NoFact
                                               ELSE b \in Replaceable(request[r].fact)
       /\ request' = [request EXCEPT ![r] =
            [step |-> "stamp", fact |-> @.fact, by |-> @.by, before |-> b]]
  /\ UNCHANGED <<transactionFrom, transactionTo, observation, changes, clock>>

\* transaction_time = utc_now().
Stamp(r) ==
  /\ request[r].step = "stamp"
  /\ request' = [request EXCEPT ![r] =
       [step |-> "write", fact |-> @.fact, by |-> @.by, before |-> @.before, at |-> clock]]
  /\ UNCHANGED <<transactionFrom, transactionTo, observation, changes, clock>>

\* A fault: the row count of close_fact_transaction is not looked at.
MayCommitUnchecked(r) == ~Recorded(request[r].fact)

\* close_fact_transaction updates no row unless the fact is still current, and
\* the identity key is unique.
MayCommit(r) ==
  /\ ~Recorded(request[r].fact)
  /\ request[r].before # NoFact => Open(request[r].before)

\* A fault: the change is logged as that of a new fact.
CommitAsNew(r) ==
  /\ request[r].step = "write"
  /\ MayCommit(r)
  /\ transactionFrom' = [transactionFrom EXCEPT ![request[r].fact] = request[r].at]
  /\ transactionTo' = [i \in Identity |->
       IF i = request[r].before THEN request[r].at ELSE transactionTo[i]]
  /\ observation' = [o \in Observations |->
       IF o = request[r].by THEN "ACCEPTED" ELSE observation[o]]
  /\ changes' = changes \cup {[before |-> NoFact, after |-> request[r].fact]}
  /\ clock' = clock + 1
  /\ request' = [request EXCEPT ![r] = Idle]

\* A fault: a correction rewrites the row of the fact it replaces.
CommitInPlace(r) ==
  /\ request[r].step = "write"
  /\ MayCommit(r)
  /\ transactionFrom' = [i \in Identity |->
       IF i = request[r].fact THEN request[r].at
       ELSE IF i = request[r].before THEN NULL ELSE transactionFrom[i]]
  /\ observation' = [o \in Observations |->
       IF o = request[r].by THEN "ACCEPTED" ELSE observation[o]]
  /\ changes' = changes \cup {[before |-> request[r].before, after |-> request[r].fact]}
  /\ clock' = clock + 1
  /\ request' = [request EXCEPT ![r] = Idle]
  /\ UNCHANGED transactionTo

\* The fact replaced is closed and the new one opened at one stamp, the
\* observation labelled and the change logged.  Time passes before any later
\* statement runs, which is all the clock stands for.
Commit(r) ==
  /\ request[r].step = "write"
  /\ MayCommit(r)
  /\ transactionFrom' = [transactionFrom EXCEPT ![request[r].fact] = request[r].at]
  /\ transactionTo' = [i \in Identity |->
       IF i = request[r].fact THEN NULL
       ELSE IF i = request[r].before THEN request[r].at
       ELSE transactionTo[i]]
  /\ observation' = [o \in Observations |->
       IF o = request[r].by THEN "ACCEPTED" ELSE observation[o]]
  /\ changes' = changes \cup {[before |-> request[r].before, after |-> request[r].fact]}
  /\ clock' = clock + 1
  /\ request' = [request EXCEPT ![r] = Idle]

\* A fault: the closure was committed before the refused insertion.
RefuseHalf(r) ==
  /\ request[r].step = "write"
  /\ ~MayCommit(r)
  /\ transactionTo' = [i \in Identity |->
       IF i = request[r].before THEN request[r].at ELSE transactionTo[i]]
  /\ request' = [request EXCEPT ![r] = Idle]
  /\ UNCHANGED <<transactionFrom, observation, changes, clock>>

\* CONCURRENT_MODIFICATION or a unique violation: the transaction rolls back.
Refuse(r) ==
  /\ request[r].step = "write"
  /\ ~MayCommit(r)
  /\ request' = [request EXCEPT ![r] = Idle]
  /\ UNCHANGED <<transactionFrom, transactionTo, observation, changes, clock>>

\* The client disconnects, the process dies or the database drops the session:
\* whatever the request has not committed is gone.
Abort(r) ==
  /\ request[r].step # "idle"
  /\ request' = [request EXCEPT ![r] = Idle]
  /\ UNCHANGED <<transactionFrom, transactionTo, observation, changes, clock>>

Handle(r) ==
  FindIdentity(r) \/ Relabel(r) \/ ListCurrent(r) \/ Stamp(r) \/ Commit(r) \/ Refuse(r)

Next == \E r \in Requests :
  \/ \E i \in Identity : CreateFact(r, i)
  \/ \E o \in Observations : AcceptObservation(r, o)
  \/ Handle(r)
  \/ Abort(r)

Spec == Init /\ [][Next]_vars

-----------------------------------------------------------------------------
(* Properties.                                                             *)

\* The slots that already hold a fact and whose moment has one spelling (every
\* fact accepted from an observation has none: its valid_from is None).
Settled == {s \in Slots :
  /\ \E i \in Seed : SlotOf(i) = s
  /\ \A t, u \in Texts[s] : t = u}

\* A settled slot has, at every instant since it was first recorded, exactly
\* one version: corrections by requests that overlap in any order neither fork
\* the history (list_facts would return two values for one property) nor leave
\* an instant without a value.
SnapshotUnique ==
  \A s \in Settled : \A t \in 1 .. clock : \E i \in KnownAt(s, t) : KnownAt(s, t) = {i}

\* Every fact of the history that is closed was closed by a logged correction
\* of the same slot that opened the fact it was replaced by at the very instant
\* the old one ended: the change log accounts for the whole history, whichever
\* requests aborted or were refused on the way.
ClosuresAreLogged ==
  \A i \in Identity : transactionTo[i] # NULL =>
    \E c \in changes :
      /\ c.before = i
      /\ SlotOf(c.after) = SlotOf(i)
      /\ transactionFrom[c.after] = transactionTo[i]

\* The label of an observation and its fact are committed together: an
\* observation is never ACCEPTED without a recorded fact that bears its claim,
\* even if the request that accepted it died half way.
AcceptedIsRecorded ==
  \A o \in Observations : observation[o] = "ACCEPTED" => Recorded(Claim[o])

\* Historical rows are retained: a closed fact is never deleted, reopened,
\* restamped or closed again, and a current one is never restamped.
HistoryIsAppendOnly ==
  [][\A i \in Identity : Recorded(i) =>
       /\ transactionFrom'[i] = transactionFrom[i]
       /\ transactionTo[i] # NULL => transactionTo'[i] = transactionTo[i]]_vars

\* Once a slot has a current value it always has one, settled or not: no
\* interleaving of corrections, refusals and aborts closes the last one without
\* opening its successor.
SlotNeverEmpties ==
  [][\A s \in Slots : Current(s) # {} => Current(s)' # {}]_vars

\* Accepting an observation makes its claim the canonical current fact.
AcceptanceIsCurrent ==
  [][\A o \in Observations :
       observation[o] # "ACCEPTED" /\ observation'[o] = "ACCEPTED"
         => (Claim[o] \in Current(SlotOf(Claim[o])))']_vars
=============================================================================
