-------------------------- MODULE FactLedgerProofs --------------------------
(***************************************************************************)
(* Proofs about the ledger, for any requests, slots, values, texts and     *)
(* observations.  The inductive invariant is LedgerInv: what a request in  *)
(* flight has read is old, and LedgerInv says which part of it still       *)
(* holds when the request commits.                                         *)
(***************************************************************************)
EXTENDS FactLedgerRefinement, TLAPS

\* A fact ends no later than another begins.
EndsBefore(i, j) == transactionTo[i] # NULL /\ transactionTo[i] <= transactionFrom[j]

\* Everything in the table was stamped before now.
StampsArePast ==
  \A i \in Identity : transactionFrom[i] < clock /\ transactionTo[i] < clock

\* At every instant a settled slot has a version ...
SettledCovered ==
  \A s \in Settled : \A t \in 1 .. clock : \E i \in Identity : SlotOf(i) = s /\ Covers(i, t)

\* ... and two of its versions never overlap.
SettledDisjoint ==
  \A i, j \in Identity :
    SlotOf(i) \in Settled /\ SlotOf(i) = SlotOf(j) /\ Recorded(i) /\ Recorded(j) /\ i # j
      => EndsBefore(i, j) \/ EndsBefore(j, i)

\* What a request has read, as far as it can rely on it.
Listed(r) == request[r].step \in {"stamp", "write"}
ReadIsSound(r) ==
  /\ Listed(r) /\ request[r].before # NoFact =>
       /\ Recorded(request[r].before)
       /\ SlotOf(request[r].before) = SlotOf(request[r].fact)
       /\ request[r].step = "write" => transactionFrom[request[r].before] < request[r].at
  /\ Listed(r) /\ request[r].before = NoFact /\ SlotOf(request[r].fact) \in Settled
       => Recorded(request[r].fact)
  /\ request[r].step = "write" => request[r].at \in 1 .. clock
  /\ request[r].step = "relabel" => Recorded(request[r].fact) /\ request[r].by # Direct
  /\ request[r].step # "idle" /\ request[r].by # Direct
       => request[r].fact = Claim[request[r].by]

ReadsAreSound == \A r \in Requests : ReadIsSound(r)

LedgerInv ==
  /\ TypeOK
  /\ StampsArePast
  /\ SettledCovered
  /\ SettledDisjoint
  /\ ReadsAreSound

-----------------------------------------------------------------------------
(* The shape of the data.                                                  *)

\* A fact is its slot, its value and its text.
LEMMA IdentityParts ==
  ASSUME NEW i \in Identity
  PROVE  /\ SlotOf(i) \in Slots
         /\ i[3] \in Texts[SlotOf(i)]
         /\ i = <<SlotOf(i), ValueOf(i), i[3]>>
<1>1. PICK s \in Slots : i \in {s} \X Values[s] \X Texts[s]
  BY DEF Identity
<1>2. QED
  BY <1>1 DEF SlotOf, ValueOf

\* A request's step tells which fields it has.
LEMMA RequestFields ==
  ASSUME TypeOK, NEW r \in Requests
  PROVE  /\ request[r].step \in {"idle", "find", "relabel", "list", "stamp", "write"}
         /\ request[r].step # "idle" =>
              request[r].fact \in Identity /\ request[r].by \in Observations \cup {Direct}
         /\ request[r].step \in {"stamp", "write"} =>
              request[r].before \in Identity \cup {NoFact}
         /\ request[r].step = "write" => request[r].at \in Nat
<1>1. request[r] \in {Idle} \cup Pending \cup Listing \cup Stamping \cup Writing
  BY DEF TypeOK
<1>2. CASE request[r] = Idle
  BY <1>2 DEF Idle
<1>3. CASE request[r] \in Pending
  BY <1>3 DEF Pending
<1>4. CASE request[r] \in Listing
  BY <1>4 DEF Listing
<1>5. CASE request[r] \in Stamping
  BY <1>5 DEF Stamping
<1>6. CASE request[r] \in Writing
  BY <1>6 DEF Writing
<1>7. QED
  BY <1>1, <1>2, <1>3, <1>4, <1>5, <1>6

-----------------------------------------------------------------------------
(* Types.                                                                  *)

\* Every step of every handler keeps the tables and the requests well typed.
THEOREM TypeCorrect == Spec => []TypeOK
<1> USE DEF Change
<1>1. Init => TypeOK
  BY SeedsAreFacts DEF Init, TypeOK, NULL
<1>2. TypeOK /\ [Next]_vars => TypeOK'
  <2> SUFFICES ASSUME TypeOK, [Next]_vars PROVE TypeOK'
    OBVIOUS
  <2>1. ASSUME NEW r \in Requests, NEW i \in Identity, CreateFact(r, i)
        PROVE  TypeOK'
    <3>1. [step |-> "find", fact |-> i, by |-> Direct] \in Pending
      BY DEF Pending
    <3>2. QED
      BY <2>1, <3>1 DEF CreateFact, TypeOK
  <2>2. ASSUME NEW r \in Requests, NEW o \in Observations, AcceptObservation(r, o)
        PROVE  TypeOK'
    <3>1. [step |-> "find", fact |-> Claim[o], by |-> o] \in Pending
      BY ClaimsAreFacts DEF Pending
    <3>2. QED
      BY <2>2, <3>1 DEF AcceptObservation, TypeOK
  <2>3. ASSUME NEW r \in Requests, FindIdentity(r)
        PROVE  TypeOK'
    <3>1. request[r] \in Pending
      BY <2>3 DEF FindIdentity, TypeOK, Idle, Pending, Listing, Stamping, Writing
    <3>2. [request[r] EXCEPT !.step = "list"] \in Listing
      BY <3>1 DEF Pending, Listing
    <3>3. [request[r] EXCEPT !.step = "relabel"] \in Pending
      BY <3>1 DEF Pending
    <3>4. QED
      BY <2>3, <3>2, <3>3 DEF FindIdentity, TypeOK
  <2>4. ASSUME NEW r \in Requests, Relabel(r)
        PROVE  TypeOK'
    <3>1. request[r].fact \in Identity
      BY <2>4, RequestFields DEF Relabel
    <3>2. changes' \subseteq Change
      BY <2>4, <3>1 DEF Relabel, TypeOK
    <3>3. QED
      BY <2>4, <3>2 DEF Relabel, TypeOK
  <2>5. ASSUME NEW r \in Requests, ListCurrent(r)
        PROVE  TypeOK'
    <3>1. PICK b \in Identity \cup {NoFact} :
            request' = [request EXCEPT ![r] = [step |-> "stamp", fact |-> request[r].fact,
                                               by |-> request[r].by, before |-> b]]
      BY <2>5 DEF ListCurrent
    <3>2. [step |-> "stamp", fact |-> request[r].fact, by |-> request[r].by, before |-> b]
            \in Stamping
      BY <2>5, RequestFields DEF ListCurrent, Stamping
    <3>3. QED
      BY <2>5, <3>1, <3>2 DEF ListCurrent, TypeOK
  <2>6. ASSUME NEW r \in Requests, Stamp(r)
        PROVE  TypeOK'
    <3>1. [step |-> "write", fact |-> request[r].fact, by |-> request[r].by,
           before |-> request[r].before, at |-> clock] \in Writing
      BY <2>6, RequestFields DEF Stamp, Writing, TypeOK
    <3>2. QED
      BY <2>6, <3>1 DEF Stamp, TypeOK
  <2>7. ASSUME NEW r \in Requests, Commit(r)
        PROVE  TypeOK'
    <3>1. /\ request[r].fact \in Identity
          /\ request[r].before \in Identity \cup {NoFact}
          /\ request[r].at \in Nat
      BY <2>7, RequestFields DEF Commit
    <3>2. changes' \subseteq Change
      BY <2>7, <3>1 DEF Commit, TypeOK
    <3>3. QED
      BY <2>7, <3>1, <3>2 DEF Commit, TypeOK, NULL
  <2>8. ASSUME NEW r \in Requests, Refuse(r) \/ Abort(r)
        PROVE  TypeOK'
    BY <2>8 DEF Refuse, Abort, TypeOK
  <2>9. CASE UNCHANGED vars
    BY <2>9 DEF vars, TypeOK
  <2>10. QED
    BY <2>1, <2>2, <2>3, <2>4, <2>5, <2>6, <2>7, <2>8, <2>9 DEF Next, Handle
<1>3. QED
  BY <1>1, <1>2, PTL DEF Spec

-----------------------------------------------------------------------------
(* The inductive invariant.                                                *)

\* A step that leaves the facts table and the clock alone leaves the history as
\* it was, and what the other requests have read as sound as it was.
LEMMA TableUnchanged ==
  ASSUME LedgerInv, UNCHANGED <<transactionFrom, transactionTo, clock>>
  PROVE  /\ StampsArePast' /\ SettledCovered' /\ SettledDisjoint'
         /\ \A r \in Requests : request'[r] = request[r] => ReadIsSound(r)'
<1>1. \A i, t : Covers(i, t)' = Covers(i, t)
  BY DEF Covers, Recorded
<1>2. SettledCovered'
  BY <1>1 DEF LedgerInv, SettledCovered
<1>3. StampsArePast' /\ SettledDisjoint'
  BY DEF LedgerInv, StampsArePast, SettledDisjoint, EndsBefore, Recorded
<1>4. ASSUME NEW r \in Requests, request'[r] = request[r]
      PROVE  ReadIsSound(r)'
  BY <1>4 DEF LedgerInv, ReadsAreSound, ReadIsSound, Listed, Recorded
<1>5. QED
  BY <1>2, <1>3, <1>4

\* A settled slot has a current fact.
LEMMA SettledHasCurrent ==
  ASSUME LedgerInv, NEW s \in Settled
  PROVE  \E i \in Current(s) : TRUE
<1>1. clock \in 1 .. clock
  <2>1. \E i \in Seed : SlotOf(i) = s
    BY DEF Settled
  <2>2. clock \in Nat /\ clock > 0
    BY <2>1, SeedsAreFacts DEF LedgerInv, TypeOK, StampsArePast
  <2>3. QED
    BY <2>2
<1>2. PICK i \in Identity : SlotOf(i) = s /\ Covers(i, clock)
  BY <1>1 DEF LedgerInv, SettledCovered
<1>3. ~(clock < transactionTo[i])
  BY <1>2 DEF LedgerInv, StampsArePast, TypeOK
<1>4. QED
  BY <1>2, <1>3 DEF Current, Open, Covers

\* In a settled slot, a request that finds nothing to replace finds its own fact
\* recorded: the slot's current value is the value it came to write.
LEMMA NothingToReplace ==
  ASSUME LedgerInv, NEW f \in Identity, SlotOf(f) \in Settled, Replaceable(f) = {}
  PROVE  Recorded(f)
<1>1. PICK i \in Current(SlotOf(f)) : TRUE
  BY SettledHasCurrent
<1>2. i \in Identity /\ SlotOf(i) = SlotOf(f) /\ Recorded(i)
  BY DEF Current, Open
<1>3. ValueOf(i) = ValueOf(f)
  BY DEF Replaceable
<1>4. i[3] = f[3]
  BY <1>2, IdentityParts DEF Settled
<1>5. i = f
  BY <1>2, <1>3, <1>4, IdentityParts
<1>6. QED
  BY <1>2, <1>5

\* The table the ledger starts with has one open fact in each seeded slot.
LEMMA InitInv == Init => LedgerInv
<1> SUFFICES ASSUME Init PROVE LedgerInv
  OBVIOUS
<1>1. TypeOK
  BY SeedsAreFacts DEF Init, TypeOK, NULL, Change
<1>2. StampsArePast
  BY DEF Init, StampsArePast, NULL
<1>3. SettledCovered
  <2> SUFFICES ASSUME NEW s \in Settled, NEW t \in 1 .. clock
               PROVE  \E i \in Identity : SlotOf(i) = s /\ Covers(i, t)
    BY DEF SettledCovered
  <2>1. PICK i \in Seed : SlotOf(i) = s
    BY DEF Settled
  <2>2. i \in Identity
    BY SeedsAreFacts
  <2>3. Covers(i, t)
    BY <2>2 DEF Init, Covers, Recorded, NULL
  <2>4. QED
    BY <2>1, <2>2, <2>3
<1>4. SettledDisjoint
  BY SeedsAreFacts DEF Init, SettledDisjoint, Recorded, NULL
<1>5. ReadsAreSound
  BY DEF Init, ReadsAreSound, ReadIsSound, Listed, Idle
<1>6. QED
  BY <1>1, <1>2, <1>3, <1>4, <1>5 DEF LedgerInv

\* The commit of a correction: the one step that changes the table.
LEMMA CommitInv ==
  ASSUME LedgerInv, TypeOK', NEW r \in Requests, Commit(r)
  PROVE  LedgerInv'
<1>0. PICK f, b, at : f = request[r].fact /\ b = request[r].before /\ at = request[r].at
  OBVIOUS
<1>a. /\ request[r].step = "write" /\ ReadIsSound(r) /\ Listed(r)
      /\ ~Recorded(f) /\ (b # NoFact => Open(b))
      /\ clock \in Nat
  BY <1>0 DEF LedgerInv, Commit, MayCommit, ReadsAreSound, Listed, TypeOK
<1>b. f \in Identity /\ b \in Identity \cup {NoFact}
  BY <1>0, <1>a, RequestFields DEF LedgerInv
<1>1. /\ at \in 1 .. clock
      /\ b # NoFact => SlotOf(b) = SlotOf(f) /\ transactionFrom[b] < at
      /\ b = NoFact => SlotOf(f) \notin Settled
      /\ b # f
  BY <1>0, <1>a, <1>b, NoFactAssumption DEF ReadIsSound, Open
<1>2. /\ transactionFrom \in [Identity -> Nat] /\ transactionTo \in [Identity -> Nat]
      /\ transactionFrom' = [transactionFrom EXCEPT ![f] = at]
      /\ transactionTo' = [i \in Identity |->
            IF i = f THEN NULL ELSE IF i = b THEN at ELSE transactionTo[i]]
      /\ clock' = clock + 1
  BY <1>0 DEF LedgerInv, TypeOK, Commit
<1>3. \A i \in Identity : i # f => Recorded(i)' = Recorded(i)
  BY <1>a, <1>b, <1>1, <1>2 DEF Recorded
<1>4. Recorded(f)' /\ transactionFrom'[f] = at /\ transactionTo'[f] = NULL
  BY <1>a, <1>b, <1>1, <1>2 DEF Recorded, NULL
<1>5. StampsArePast'
  BY <1>a, <1>b, <1>1, <1>2 DEF LedgerInv, StampsArePast, NULL
<1>6. SettledDisjoint'
  <2> SUFFICES ASSUME NEW i \in Identity, NEW j \in Identity,
                      SlotOf(i) \in Settled, SlotOf(i) = SlotOf(j),
                      Recorded(i)', Recorded(j)', i # j
               PROVE  EndsBefore(i, j)' \/ EndsBefore(j, i)'
    BY DEF SettledDisjoint
  <2>1. ASSUME NEW k \in Identity, k # f, Recorded(k), SlotOf(k) = SlotOf(f),
               SlotOf(f) \in Settled
        PROVE  EndsBefore(k, f)'
    <3>1. b \in Identity /\ Open(b)
      BY <2>1, <1>a, <1>b, <1>1
    <3>2. CASE k = b
      BY <3>1, <3>2, <1>a, <1>b, <1>1, <1>2, <1>4 DEF EndsBefore, NULL
    <3>3. CASE k # b
      <4>1. EndsBefore(k, b) \/ EndsBefore(b, k)
        BY <2>1, <3>1, <3>3, <1>a, <1>b, <1>1 DEF LedgerInv, SettledDisjoint, Open
      <4>2. EndsBefore(k, b)
        BY <4>1, <3>1 DEF EndsBefore, Open
      <4>3. QED
        BY <4>2, <2>1, <3>1, <3>3, <1>a, <1>b, <1>1, <1>2, <1>4 DEF EndsBefore
    <3>4. QED
      BY <3>2, <3>3
  <2>2. CASE i = f
    BY <2>1, <2>2, <1>3
  <2>3. CASE j = f
    BY <2>1, <2>3, <1>3
  <2>4. CASE i # f /\ j # f
    <3>1. ASSUME NEW k \in Identity, NEW l \in Identity, k # f, l # f, EndsBefore(k, l)
          PROVE  EndsBefore(k, l)'
      BY <3>1, <1>a, <1>b, <1>1, <1>2, NoFactAssumption DEF EndsBefore, Open
    <3>2. EndsBefore(i, j) \/ EndsBefore(j, i)
      BY <2>4, <1>3 DEF LedgerInv, SettledDisjoint
    <3>3. QED
      BY <2>4, <3>1, <3>2
  <2>5. QED
    BY <2>2, <2>3, <2>4
<1>7. SettledCovered'
  <2> SUFFICES ASSUME NEW s \in Settled, NEW t \in 1 .. clock + 1
               PROVE  \E i \in Identity : SlotOf(i) = s /\ Covers(i, t)'
    BY <1>2 DEF SettledCovered
  <2>1. CASE SlotOf(f) = s /\ at <= t
    BY <2>1, <1>a, <1>b, <1>1, <1>4 DEF Covers
  <2>2. CASE SlotOf(f) = s /\ t < at
    <3>1. t \in 1 .. clock
      BY <2>2, <1>a, <1>b, <1>1
    <3>2. PICK i \in Identity : SlotOf(i) = s /\ Covers(i, t)
      BY <3>1 DEF LedgerInv, SettledCovered
    <3>3. i # f /\ Recorded(i)' /\ transactionFrom'[i] = transactionFrom[i]
      BY <3>2, <1>a, <1>b, <1>1, <1>2, <1>3 DEF Covers
    <3>4. transactionTo'[i] = transactionTo[i] \/ transactionTo'[i] = at
      BY <3>3, <1>2
    <3>5. QED
      BY <3>2, <3>3, <3>4, <2>2 DEF Covers
  <2>3. CASE SlotOf(f) # s
    <3>1. PICK u \in 1 .. clock : u = t \/ (u = clock /\ t = clock + 1)
      BY <1>a, <1>b, <1>1
    <3>2. PICK i \in Identity : SlotOf(i) = s /\ Covers(i, u)
      BY DEF LedgerInv, SettledCovered
    <3>3. /\ i # f /\ i # b /\ Recorded(i)'
          /\ transactionFrom'[i] = transactionFrom[i]
          /\ transactionTo'[i] = transactionTo[i]
      BY <3>2, <2>3, <1>a, <1>b, <1>1, <1>2, <1>3, NoFactAssumption DEF Covers
    <3>4. transactionTo[i] < clock /\ transactionFrom[i] \in Nat /\ transactionTo[i] \in Nat
      BY <1>2 DEF LedgerInv, StampsArePast
    <3>5. Covers(i, t)
      BY <3>1, <3>2, <3>4, <1>a, <1>b, <1>1 DEF Covers
    <3>6. QED
      BY <3>2, <3>3, <3>5 DEF Covers
  <2>4. QED
    BY <2>1, <2>2, <2>3, <1>a, <1>b, <1>1
<1>8. ReadsAreSound'
  <2> SUFFICES ASSUME NEW q \in Requests PROVE ReadIsSound(q)'
    BY DEF ReadsAreSound
  <2>1. CASE q = r
    BY <2>1 DEF Commit, ReadIsSound, Listed, Idle, LedgerInv, TypeOK
  <2>2. CASE q # r
    <3>1. request'[q] = request[q] /\ ReadIsSound(q)
      BY <2>2 DEF Commit, ReadsAreSound, LedgerInv, TypeOK
    <3>2. \A i \in Identity : Recorded(i) =>
            Recorded(i)' /\ transactionFrom'[i] = transactionFrom[i]
      BY <1>a, <1>b, <1>1, <1>2, <1>3
    <3>3. request[q].step # "idle" => request[q].fact \in Identity
      BY RequestFields DEF LedgerInv
    <3>4. Listed(q) => request[q].before \in Identity \cup {NoFact}
      BY RequestFields DEF LedgerInv, Listed
    <3>5. request[q].step = "write" => request[q].at \in 1 .. clock'
      BY <3>1, <1>a, <1>b, <1>1, <1>2 DEF ReadIsSound
    <3>6. QED
      BY <3>1, <3>2, <3>3, <3>4, <3>5 DEF ReadIsSound, Listed
  <2>3. QED
    BY <2>1, <2>2
<1>9. QED
  BY <1>5, <1>6, <1>7, <1>8 DEF LedgerInv

\* Every step keeps the invariant.
LEMMA NextInv == LedgerInv /\ TypeOK' /\ [Next]_vars => LedgerInv'
<1> SUFFICES ASSUME LedgerInv, TypeOK', [Next]_vars PROVE LedgerInv'
  OBVIOUS
<1>1. ASSUME NEW r \in Requests,
             UNCHANGED <<transactionFrom, transactionTo, clock>>,
             \A q \in Requests : q # r => request'[q] = request[q],
             ReadIsSound(r)'
      PROVE  LedgerInv'
  BY <1>1, TableUnchanged DEF LedgerInv, ReadsAreSound
<1>2. ASSUME NEW r \in Requests, NEW i \in Identity, CreateFact(r, i)
      PROVE  LedgerInv'
  <2>1. ReadIsSound(r)'
    BY <1>2 DEF CreateFact, ReadIsSound, Listed, LedgerInv, TypeOK
  <2>2. QED
    BY <1>1, <1>2, <2>1 DEF CreateFact, LedgerInv, TypeOK
<1>3. ASSUME NEW r \in Requests, NEW o \in Observations, AcceptObservation(r, o)
      PROVE  LedgerInv'
  <2>1. ReadIsSound(r)'
    BY <1>3 DEF AcceptObservation, ReadIsSound, Listed, LedgerInv, TypeOK
  <2>2. QED
    BY <1>1, <1>3, <2>1 DEF AcceptObservation, LedgerInv, TypeOK
<1>4. ASSUME NEW r \in Requests, FindIdentity(r)
      PROVE  LedgerInv'
  <2>1. request[r] \in Pending /\ ReadIsSound(r)
    BY <1>4 DEF FindIdentity, LedgerInv, TypeOK, ReadsAreSound,
                Idle, Pending, Listing, Stamping, Writing
  <2>2. /\ request'[r].step \in {"idle", "list", "relabel"}
        /\ request'[r].step # "idle" =>
             request'[r].fact = request[r].fact /\ request'[r].by = request[r].by
        /\ request'[r].step = "relabel" =>
             Recorded(request[r].fact) /\ request[r].by # Direct
    BY <1>4, <2>1 DEF FindIdentity, LedgerInv, TypeOK, Idle, Pending
  <2>3. ReadIsSound(r)'
    BY <1>4, <2>1, <2>2 DEF FindIdentity, ReadIsSound, Listed, Recorded, Pending
  <2>4. QED
    BY <1>1, <1>4, <2>3 DEF FindIdentity, LedgerInv, TypeOK
<1>5. ASSUME NEW r \in Requests, Relabel(r) \/ Refuse(r) \/ Abort(r)
      PROVE  LedgerInv'
  <2>1. ReadIsSound(r)'
    BY <1>5 DEF Relabel, Refuse, Abort, ReadIsSound, Listed, Idle, LedgerInv, TypeOK
  <2>2. QED
    BY <1>1, <1>5, <2>1 DEF Relabel, Refuse, Abort, LedgerInv, TypeOK
<1>6. ASSUME NEW r \in Requests, ListCurrent(r)
      PROVE  LedgerInv'
  <2>1. PICK c \in Identity \cup {NoFact} :
          /\ IF Replaceable(request[r].fact) = {} THEN c = NoFact
                                                  ELSE c \in Replaceable(request[r].fact)
          /\ request' = [request EXCEPT ![r] = [step |-> "stamp", fact |-> request[r].fact,
                                                by |-> request[r].by, before |-> c]]
    BY <1>6 DEF ListCurrent
  <2>2. request[r].step = "list" /\ request[r].fact \in Identity /\ ReadIsSound(r)
    BY <1>6, RequestFields DEF ListCurrent, LedgerInv, ReadsAreSound
  <2>3. c # NoFact => Recorded(c) /\ SlotOf(c) = SlotOf(request[r].fact)
    BY <2>1 DEF Replaceable, Current, Open
  <2>4. c = NoFact /\ SlotOf(request[r].fact) \in Settled => Recorded(request[r].fact)
    BY <2>1, <2>2, NothingToReplace, NoFactAssumption DEF Replaceable, Current
  <2>5. /\ request'[r].step = "stamp" /\ request'[r].before = c
        /\ request'[r].fact = request[r].fact /\ request'[r].by = request[r].by
    BY <2>1 DEF LedgerInv, TypeOK
  <2>6. ReadIsSound(r)'
    BY <1>6, <2>2, <2>3, <2>4, <2>5 DEF ListCurrent, ReadIsSound, Listed, Recorded
  <2>7. QED
    BY <1>1, <1>6, <2>6 DEF ListCurrent, LedgerInv, TypeOK
<1>7. ASSUME NEW r \in Requests, Stamp(r)
      PROVE  LedgerInv'
  <2>1. /\ request[r].step = "stamp" /\ ReadIsSound(r)
        /\ request[r].fact \in Identity /\ request[r].before \in Identity \cup {NoFact}
    BY <1>7, RequestFields DEF Stamp, LedgerInv, ReadsAreSound
  <2>2. /\ request'[r].step = "write" /\ request'[r].at = clock
        /\ request'[r].before = request[r].before
        /\ request'[r].fact = request[r].fact /\ request'[r].by = request[r].by
    BY <1>7 DEF Stamp, LedgerInv, TypeOK
  <2>3. clock \in 1 .. clock
    BY <2>1 DEF LedgerInv, StampsArePast, TypeOK
  <2>4. request[r].before # NoFact => transactionFrom[request[r].before] < clock
    BY <2>1 DEF LedgerInv, StampsArePast
  <2>5. ReadIsSound(r)'
    BY <1>7, <2>1, <2>2, <2>3, <2>4 DEF Stamp, ReadIsSound, Listed, Recorded
  <2>6. QED
    BY <1>1, <1>7, <2>5 DEF Stamp, LedgerInv, TypeOK
<1>8. ASSUME NEW r \in Requests, Commit(r)
      PROVE  LedgerInv'
  BY <1>8, CommitInv
<1>9. CASE UNCHANGED vars
  BY <1>9, TableUnchanged DEF vars, LedgerInv, ReadsAreSound
<1>10. QED
  BY <1>2, <1>3, <1>4, <1>5, <1>6, <1>7, <1>8, <1>9 DEF Next, Handle

\* The history of a settled slot has exactly one version at every instant, for
\* any number of overlapping corrections and acceptances.
THEOREM HistoryUnique == Spec => []SnapshotUnique
<1>1. LedgerInv => SnapshotUnique
  <2> SUFFICES ASSUME LedgerInv, NEW s \in Settled, NEW t \in 1 .. clock
               PROVE  \E i \in KnownAt(s, t) : KnownAt(s, t) = {i}
    BY DEF SnapshotUnique
  <2>1. PICK i \in Identity : SlotOf(i) = s /\ Covers(i, t)
    BY DEF LedgerInv, SettledCovered
  <2>2. ASSUME NEW j \in KnownAt(s, t), j # i
        PROVE  FALSE
    <3>1. j \in Identity /\ SlotOf(j) = s /\ Covers(j, t)
      BY <2>2 DEF KnownAt
    <3>2. EndsBefore(i, j) \/ EndsBefore(j, i)
      BY <2>1, <2>2, <3>1 DEF LedgerInv, SettledDisjoint, Covers
    <3>3. QED
      BY <2>1, <3>1, <3>2 DEF EndsBefore, Covers, LedgerInv, TypeOK
  <2>3. QED
    BY <2>1, <2>2 DEF KnownAt
<1>2. QED
  BY <1>1, InitInv, NextInv, TypeCorrect, PTL DEF Spec

\* The inductive invariant holds of every behaviour.
THEOREM LedgerInvariant == Spec => []LedgerInv
BY InitInv, NextInv, TypeCorrect, PTL DEF Spec

-----------------------------------------------------------------------------
(* What follows from it.                                                   *)

\* A request about to commit writes a fact that has no row, and replaces, if
\* anything, a current fact of the same slot.
LEMMA CommitReplacesCurrent ==
  ASSUME LedgerInv, NEW r \in Requests, Commit(r)
  PROVE  \E f \in Identity, b \in Identity \cup {NoFact}, at \in Nat \ {0} :
           /\ f = request[r].fact /\ b = request[r].before /\ at = request[r].at
           /\ ~Recorded(f)
           /\ b # NoFact => Open(b) /\ SlotOf(b) = SlotOf(f) /\ b # f
           /\ request[r].by # Direct => f = Claim[request[r].by]
<1>1. /\ request[r].step = "write" /\ ReadIsSound(r) /\ Listed(r)
      /\ ~Recorded(request[r].fact) /\ clock \in Nat
      /\ request[r].before # NoFact => Open(request[r].before)
  BY DEF LedgerInv, Commit, MayCommit, ReadsAreSound, Listed, TypeOK
<1>2. /\ request[r].fact \in Identity
      /\ request[r].before \in Identity \cup {NoFact}
  BY <1>1, RequestFields DEF LedgerInv
<1>3. request[r].at \in Nat \ {0}
  BY <1>1 DEF ReadIsSound
<1>4. QED
  BY <1>1, <1>2, <1>3 DEF ReadIsSound, Open

\* Every closed fact has its logged correction.
THEOREM ClosuresLogged == Spec => []ClosuresAreLogged
<1>1. Init => ClosuresAreLogged
  BY DEF Init, ClosuresAreLogged
<1>2. LedgerInv /\ ClosuresAreLogged /\ [Next]_vars => ClosuresAreLogged'
  <2> SUFFICES ASSUME LedgerInv, ClosuresAreLogged, [Next]_vars PROVE ClosuresAreLogged'
    OBVIOUS
  <2>1. ASSUME UNCHANGED <<transactionFrom, transactionTo>>, changes \subseteq changes'
        PROVE  ClosuresAreLogged'
    BY <2>1 DEF ClosuresAreLogged
  <2>2. ASSUME NEW r \in Requests, Commit(r)
        PROVE  ClosuresAreLogged'
    <3>1. PICK f \in Identity, b \in Identity \cup {NoFact}, at \in Nat \ {0} :
            /\ f = request[r].fact /\ b = request[r].before /\ at = request[r].at
            /\ ~Recorded(f)
            /\ b # NoFact => Open(b) /\ SlotOf(b) = SlotOf(f) /\ b # f
      BY <2>2, CommitReplacesCurrent
    <3>2. /\ transactionFrom \in [Identity -> Nat] /\ transactionTo \in [Identity -> Nat]
          /\ transactionFrom' = [transactionFrom EXCEPT ![f] = at]
          /\ transactionTo' = [i \in Identity |->
                IF i = f THEN NULL ELSE IF i = b THEN at ELSE transactionTo[i]]
          /\ changes' = changes \cup {[before |-> b, after |-> f]}
      BY <2>2, <3>1 DEF Commit, LedgerInv, TypeOK
    <3>3. ASSUME NEW i \in Identity, transactionTo'[i] # NULL
          PROVE  \E c \in changes' : /\ c.before = i
                                     /\ SlotOf(c.after) = SlotOf(i)
                                     /\ transactionFrom'[c.after] = transactionTo'[i]
      <4>1. CASE i = b
        <5>1. [before |-> b, after |-> f] \in changes'
          BY <3>2
        <5>2. b \in Identity /\ SlotOf(b) = SlotOf(f) /\ b # f
          BY <4>1, <3>1, NoFactAssumption
        <5>3. transactionFrom'[f] = transactionTo'[b]
          BY <5>2, <3>2
        <5>4. QED
          BY <4>1, <5>1, <5>2, <5>3
      <4>2. CASE i # b
        <5>1. transactionTo'[i] = transactionTo[i]
          BY <3>2, <3>3, <4>2
        <5>2. PICK c \in changes : /\ c.before = i
                                   /\ SlotOf(c.after) = SlotOf(i)
                                   /\ transactionFrom[c.after] = transactionTo[i]
          BY <3>3, <5>1 DEF ClosuresAreLogged
        <5>3. c.after # f
          BY <3>1, <3>3, <5>1, <5>2 DEF Recorded
        <5>4. c \in Change /\ c.after \in Identity
          BY DEF LedgerInv, TypeOK, Change
        <5>5. QED
          BY <3>2, <5>1, <5>2, <5>3, <5>4
      <4>3. QED
        BY <4>1, <4>2
    <3>4. QED
      BY <3>3 DEF ClosuresAreLogged
  <2>3. QED
    BY <2>1, <2>2 DEF Next, Handle, CreateFact, AcceptObservation, FindIdentity, Relabel,
       ListCurrent, Stamp, Refuse, Abort, vars
<1>3. QED
  BY <1>1, <1>2, LedgerInvariant, PTL DEF Spec

\* An observation is ACCEPTED only together with its recorded fact.
THEOREM AcceptedRecorded == Spec => []AcceptedIsRecorded
<1>1. Init => AcceptedIsRecorded
  BY DEF Init, AcceptedIsRecorded
<1>2. LedgerInv /\ AcceptedIsRecorded /\ [Next]_vars => AcceptedIsRecorded'
  <2> SUFFICES ASSUME LedgerInv, AcceptedIsRecorded, [Next]_vars PROVE AcceptedIsRecorded'
    OBVIOUS
  <2>1. ASSUME UNCHANGED <<transactionFrom, observation>>
        PROVE  AcceptedIsRecorded'
    BY <2>1 DEF AcceptedIsRecorded, Recorded
  <2>2. ASSUME NEW r \in Requests, Relabel(r)
        PROVE  AcceptedIsRecorded'
    <3>1. ReadIsSound(r) /\ request[r].step = "relabel"
      BY <2>2 DEF Relabel, LedgerInv, ReadsAreSound
    <3>2. request[r].fact = Claim[request[r].by] /\ Recorded(request[r].fact)
      BY <3>1 DEF ReadIsSound
    <3>3. QED
      BY <2>2, <3>2 DEF Relabel, AcceptedIsRecorded, Recorded, LedgerInv, TypeOK
  <2>3. ASSUME NEW r \in Requests, Commit(r)
        PROVE  AcceptedIsRecorded'
    <3>1. PICK f \in Identity, at \in Nat \ {0} :
            /\ f = request[r].fact /\ at = request[r].at
            /\ request[r].by # Direct => f = Claim[request[r].by]
      BY <2>3, CommitReplacesCurrent
    <3>2. /\ transactionFrom \in [Identity -> Nat]
          /\ transactionFrom' = [transactionFrom EXCEPT ![f] = at]
          /\ observation' = [o \in Observations |->
                IF o = request[r].by THEN "ACCEPTED" ELSE observation[o]]
      BY <2>3, <3>1 DEF Commit, LedgerInv, TypeOK
    <3>3. \A i \in Identity : Recorded(i) \/ i = f => Recorded(i)'
      BY <3>2 DEF Recorded, NULL
    <3>4. \A o \in Observations : o = request[r].by => Claim[o] = f
      BY <3>1, DirectAssumption
    <3>5. QED
      BY <3>2, <3>3, <3>4, ClaimsAreFacts DEF AcceptedIsRecorded
  <2>4. QED
    BY <2>1, <2>2, <2>3 DEF Next, Handle, CreateFact, AcceptObservation, FindIdentity,
       ListCurrent, Stamp, Refuse, Abort, vars
<1>3. QED
  BY <1>1, <1>2, LedgerInvariant, PTL DEF Spec

\* No step rewrites the history.
THEOREM HistoryAppendOnly == Spec => HistoryIsAppendOnly
<1>1. ASSUME LedgerInv, [Next]_vars, NEW i \in Identity, Recorded(i)
      PROVE  /\ transactionFrom'[i] = transactionFrom[i]
             /\ transactionTo[i] # NULL => transactionTo'[i] = transactionTo[i]
  <2>1. ASSUME NEW r \in Requests, Commit(r)
        PROVE  /\ transactionFrom'[i] = transactionFrom[i]
               /\ transactionTo[i] # NULL => transactionTo'[i] = transactionTo[i]
    <3>1. i # request[r].fact /\ (i = request[r].before => transactionTo[i] = NULL)
      BY <1>1, <2>1, CommitReplacesCurrent, NoFactAssumption DEF Open
    <3>2. QED
      BY <2>1, <3>1 DEF Commit
  <2>2. QED
    BY <1>1, <2>1 DEF Next, Handle, CreateFact, AcceptObservation, FindIdentity, Relabel,
       ListCurrent, Stamp, Refuse, Abort, vars
<1>2. LedgerInv /\ [Next]_vars =>
        [\A i \in Identity : Recorded(i) =>
           /\ transactionFrom'[i] = transactionFrom[i]
           /\ transactionTo[i] # NULL => transactionTo'[i] = transactionTo[i]]_vars
  BY <1>1
<1>3. QED
  BY <1>2, LedgerInvariant, PTL DEF Spec, HistoryIsAppendOnly

\* No step takes a slot's last current fact away.
THEOREM SlotsStayFilled == Spec => SlotNeverEmpties
<1>1. ASSUME LedgerInv, [Next]_vars, NEW s \in Slots, Current(s) # {}
      PROVE  Current(s)' # {}
  <2>1. PICK i \in Identity : SlotOf(i) = s /\ Open(i)
    BY <1>1 DEF Current
  <2>2. ASSUME NEW r \in Requests, Commit(r)
        PROVE  Current(s)' # {}
    <3>1. PICK f \in Identity, b \in Identity \cup {NoFact}, at \in Nat \ {0} :
            /\ f = request[r].fact /\ b = request[r].before /\ at = request[r].at
            /\ ~Recorded(f)
            /\ b # NoFact => Open(b) /\ SlotOf(b) = SlotOf(f) /\ b # f
      BY <1>1, <2>2, CommitReplacesCurrent
    <3>2. /\ transactionFrom \in [Identity -> Nat] /\ transactionTo \in [Identity -> Nat]
          /\ transactionFrom' = [transactionFrom EXCEPT ![f] = at]
          /\ transactionTo' = [j \in Identity |->
                IF j = f THEN NULL ELSE IF j = b THEN at ELSE transactionTo[j]]
      BY <1>1, <2>2, <3>1 DEF Commit, LedgerInv, TypeOK
    <3>3. CASE i = b
      <4>1. Open(f)' /\ SlotOf(f) = s
        BY <2>1, <3>1, <3>2, <3>3, NoFactAssumption DEF Open, Recorded, NULL
      <4>2. QED
        BY <4>1 DEF Current
    <3>4. CASE i # b
      <4>1. Open(i)'
        BY <2>1, <3>1, <3>2, <3>4 DEF Open, Recorded
      <4>2. QED
        BY <2>1, <4>1 DEF Current
    <3>5. QED
      BY <3>3, <3>4
  <2>3. ASSUME UNCHANGED <<transactionFrom, transactionTo>>
        PROVE  Current(s)' # {}
    BY <2>1, <2>3 DEF Current, Open, Recorded
  <2>4. QED
    BY <1>1, <2>2, <2>3 DEF Next, Handle, CreateFact, AcceptObservation, FindIdentity, Relabel,
       ListCurrent, Stamp, Refuse, Abort, vars
<1>2. LedgerInv /\ [Next]_vars =>
        [\A s \in Slots : Current(s) # {} => Current(s)' # {}]_vars
  BY <1>1
<1>3. QED
  BY <1>2, LedgerInvariant, PTL DEF Spec, SlotNeverEmpties

-----------------------------------------------------------------------------
(***************************************************************************)
(* The ledger implements the bitemporal history, for any requests, slots,  *)
(* values, texts and observations.  Two facts carry the proof: an instant  *)
(* that is final stays final, because a new stamp is taken from the clock; *)
(* and what was known at it stays known, because a commit opens and closes *)
(* facts at its stamp, which lies above every final instant.               *)
(***************************************************************************)

\* An instant before one moment is before every later one.
LEMMA InstantsGrow ==
  ASSUME NEW m \in Nat, NEW n \in Nat, m <= n, NEW t \in 1 .. m - 1
  PROVE  t \in 1 .. n - 1
OBVIOUS

LEMMA InstantsBelow ==
  ASSUME NEW n \in Nat, NEW t \in 1 .. n - 1
  PROVE  t \in 1 .. n
OBVIOUS

\* The ledger begins with a history of one instant.
LEMMA InitialHistory == Init => History!Init
<1> SUFFICES ASSUME Init PROVE History!Init
  OBVIOUS
<1>1. TypeOK /\ StampsArePast
  BY InitInv DEF LedgerInv
<1>2. Final = {1}
  BY DEF Final, Init, Idle
<1>3. ASSUME NEW s \in Slots PROVE KnownAt(s, 1) = Current(s)
  BY SeedsAreFacts DEF Init, KnownAt, Current, Covers, Open, Recorded, NULL
<1>4. ASSUME NEW s \in Slots PROVE Current(s) \in History!Answers(s)
  <2>1. Current(s) = {i \in Seed : SlotOf(i) = s}
    BY SeedsAreFacts DEF Init, Current, Open, Recorded, NULL
  <2>2. CASE s \in Settled
    <3>1. PICK i \in Seed : SlotOf(i) = s
      BY <2>2 DEF Settled
    <3>2. Current(s) = {i}
      BY <2>1, <3>1, SeedsAreFacts
    <3>3. QED
      BY <2>2, <3>1, <3>2, SeedsAreFacts DEF History!Answers, FactsAbout
  <2>3. CASE s \notin Settled
    BY <2>3 DEF History!Answers, FactsAbout, Current
  <2>4. QED
    BY <2>2, <2>3
<1>5. \A s \in Slots : KnownNow[s] \in History!Answers(s)
  BY <1>4 DEF KnownNow
<1>6. EverRecorded = KnownNow
  BY DEF EverRecorded, KnownNow, Current, Open, Init, Recorded, NULL
<1>7. \A s \in Slots : FinalAnswers[s] = [t \in {1} |-> KnownNow[s]]
  BY <1>2, <1>3 DEF FinalAnswers, KnownNow
<1>8. QED
  BY <1>5, <1>6, <1>7 DEF History!Init

-----------------------------------------------------------------------------
(* One step.                                                               *)

\* A final instant stays final: a stamp is taken from the clock, above it.
LEMMA FinalGrows ==
  ASSUME TypeOK, Next
  PROVE  Final \subseteq Final'
<1> SUFFICES ASSUME NEW t \in Final PROVE t \in Final'
  OBVIOUS
<1>1. t \in 1 .. clock - 1 /\ \A r \in Requests : request[r].step = "write" => t < request[r].at
  BY DEF Final
<1>2. PICK r \in Requests :
        \/ \E i \in Identity : CreateFact(r, i)
        \/ \E o \in Observations : AcceptObservation(r, o)
        \/ Handle(r) \/ Abort(r)
  BY DEF Next
<1>3. clock' \in Nat /\ clock <= clock'
  BY <1>2 DEF CreateFact, AcceptObservation, Handle, Abort, FindIdentity, Relabel, ListCurrent,
              Stamp, Commit, Refuse, TypeOK
<1>4. \A q \in Requests \ {r} : request'[q] = request[q]
  BY <1>2 DEF CreateFact, AcceptObservation, Handle, Abort, FindIdentity, Relabel, ListCurrent,
              Stamp, Commit, Refuse, TypeOK
<1>5. request'[r].step = "write" => t < request'[r].at
  <2>1. CASE Stamp(r)
    BY <1>1, <2>1 DEF Stamp, TypeOK
  <2>2. CASE FindIdentity(r)
    BY <2>2, RequestFields DEF FindIdentity, TypeOK, Idle, Pending, Listing, Stamping, Writing
  <2>3. ASSUME NEW i \in Identity, CreateFact(r, i) PROVE request'[r].step # "write"
    BY <2>3 DEF CreateFact, TypeOK
  <2>4. ASSUME NEW o \in Observations, AcceptObservation(r, o) PROVE request'[r].step # "write"
    BY <2>4 DEF AcceptObservation, TypeOK
  <2>5. CASE ListCurrent(r)
    BY <2>5 DEF ListCurrent, TypeOK
  <2>6. CASE Relabel(r) \/ Commit(r) \/ Refuse(r) \/ Abort(r)
    BY <2>6 DEF Relabel, Commit, Refuse, Abort, TypeOK, Idle
  <2>7. QED
    BY <1>2, <2>1, <2>2, <2>3, <2>4, <2>5, <2>6 DEF Handle
<1>6. t \in 1 .. clock' - 1
  <2>1. clock \in Nat /\ t \in 1 .. clock - 1
    BY DEF TypeOK, Final
  <2>2. QED
    BY <1>3, <2>1, InstantsGrow
<1>7. QED
  BY <1>1, <1>4, <1>5, <1>6 DEF Final

\* What was known at a final instant stays known at it, and nothing else.
LEMMA FinalAnswersStand ==
  ASSUME LedgerInv, Next, NEW t \in Final, NEW i \in Identity
  PROVE  Covers(i, t)' <=> Covers(i, t)
<1>1. PICK r \in Requests :
        \/ \E j \in Identity : CreateFact(r, j)
        \/ \E o \in Observations : AcceptObservation(r, o)
        \/ Handle(r) \/ Abort(r)
  BY DEF Next
<1>2. CASE UNCHANGED <<transactionFrom, transactionTo>>
  BY <1>2 DEF Covers, Recorded
<1>3. CASE Commit(r)
  <2>1. /\ request[r].step = "write" /\ MayCommit(r)
        /\ transactionFrom' = [transactionFrom EXCEPT ![request[r].fact] = request[r].at]
        /\ transactionTo' = [j \in Identity |->
             IF j = request[r].fact THEN NULL
             ELSE IF j = request[r].before THEN request[r].at ELSE transactionTo[j]]
    BY <1>3 DEF Commit
  <2>2. /\ t < request[r].at /\ t \in Nat
        /\ request[r].at \in Nat
    BY <2>1, RequestFields DEF LedgerInv, TypeOK, Final
  <2>3. TypeOK /\ request[r].fact \in Identity
    BY <2>1, RequestFields DEF LedgerInv
  <2>4. CASE i = request[r].fact
    BY <2>1, <2>2, <2>3, <2>4 DEF MayCommit, Covers, Recorded, TypeOK, NULL
  <2>5. CASE i # request[r].fact /\ i = request[r].before
    <3>1. Open(i)
      BY <2>1, <2>5, NoFactAssumption DEF MayCommit
    <3>2. QED
      BY <2>1, <2>2, <2>3, <2>5, <3>1 DEF Open, Covers, Recorded, TypeOK, NULL
  <2>6. CASE i # request[r].fact /\ i # request[r].before
    BY <2>1, <2>3, <2>6 DEF Covers, Recorded, TypeOK
  <2>7. QED
    BY <2>4, <2>5, <2>6
<1>4. QED
  BY <1>1, <1>2, <1>3 DEF CreateFact, AcceptObservation, Handle, Abort, FindIdentity, Relabel,
                          ListCurrent, Stamp, Refuse

\* Final answers are added, none is changed.
LEMMA HistorySettles ==
  ASSUME LedgerInv, Next, SnapshotUnique', TypeOK'
  PROVE  History!Settle
<1> SUFFICES ASSUME NEW s \in Slots
             PROVE  /\ DOMAIN FinalAnswers[s] \subseteq DOMAIN FinalAnswers'[s]
                    /\ \A t \in DOMAIN FinalAnswers[s] : FinalAnswers'[s][t] = FinalAnswers[s][t]
                    /\ \A t \in DOMAIN FinalAnswers'[s] \ DOMAIN FinalAnswers[s] :
                         /\ FinalAnswers'[s][t] \in History!Answers(s)
                         /\ FinalAnswers'[s][t] \subseteq EverRecorded'[s]
  BY DEF History!Settle
<1>1. /\ FinalAnswers[s] = [t \in Final |-> KnownAt(s, t)]
      /\ FinalAnswers'[s] = [t \in Final' |-> KnownAt(s, t)']
      /\ EverRecorded'[s] = {i \in Identity : SlotOf(i) = s /\ Recorded(i)'}
  BY DEF FinalAnswers, EverRecorded
<1>2. Final \subseteq Final'
  BY FinalGrows DEF LedgerInv
<1>3. ASSUME NEW t \in Final PROVE KnownAt(s, t)' = KnownAt(s, t)
  BY FinalAnswersStand DEF KnownAt
<1>4. ASSUME NEW t \in Final' PROVE KnownAt(s, t)' \in History!Answers(s)
  <2>1. t \in 1 .. clock'
    <3>1. clock' \in Nat /\ t \in 1 .. clock' - 1
      BY DEF Final, TypeOK
    <3>2. QED
      BY <3>1, InstantsBelow
  <2>2. KnownAt(s, t)' \subseteq FactsAbout[s]
    BY DEF KnownAt, FactsAbout
  <2>3. CASE s \in Settled
    <3>1. PICK i \in KnownAt(s, t)' : KnownAt(s, t)' = {i}
      BY <2>1, <2>3 DEF SnapshotUnique
    <3>2. QED
      BY <2>2, <2>3, <3>1 DEF History!Answers
  <2>4. CASE s \notin Settled
    BY <2>2, <2>4 DEF History!Answers
  <2>5. QED
    BY <2>3, <2>4
<1>5. ASSUME NEW t \in Final' PROVE KnownAt(s, t)' \subseteq EverRecorded'[s]
  BY <1>1 DEF KnownAt, Covers
<1>6. QED
  BY <1>1, <1>2, <1>3, <1>4, <1>5

\* A commit is the acceptance of one new fact.
LEMMA CommitAccepts ==
  ASSUME LedgerInv, LedgerInv', SnapshotUnique', NEW r \in Requests, Commit(r),
         NEW f, f = request[r].fact, NEW s, s = SlotOf(f)
  PROVE  History!Accept(s, f)
<1>0. PICK b : b = request[r].before
  OBVIOUS
<1>1. /\ request[r].step = "write" /\ MayCommit(r)
      /\ transactionFrom' = [transactionFrom EXCEPT ![f] = request[r].at]
      /\ transactionTo' = [j \in Identity |->
           IF j = f THEN NULL ELSE IF j = b THEN request[r].at ELSE transactionTo[j]]
  BY <1>0 DEF Commit
<1>2. /\ f \in Identity /\ b \in Identity \cup {NoFact} /\ request[r].at \in Nat \ {NULL}
      /\ s \in Slots
  BY <1>0, <1>1, RequestFields, IdentityParts DEF LedgerInv, ReadsAreSound, ReadIsSound, NULL
<1>3. b # NoFact => b \in Current(s)
  BY <1>0, <1>1, <1>2 DEF MayCommit, LedgerInv, ReadsAreSound, ReadIsSound, Listed, Current
<1>4. ASSUME NEW i \in Identity
      PROVE  /\ Recorded(i)' <=> Recorded(i) \/ i = f
             /\ Open(i)' <=> (Open(i) /\ i # b) \/ i = f
  <2>1. transactionFrom \in [Identity -> Nat] /\ ~Recorded(f)
    BY <1>1 DEF LedgerInv, TypeOK, MayCommit
  <2>2. Recorded(i)' <=> Recorded(i) \/ i = f
    BY <1>1, <1>2, <2>1 DEF Recorded
  <2>3. CASE i = f
    BY <1>1, <2>2, <2>3 DEF Open
  <2>4. CASE i # f /\ i = b
    BY <1>1, <1>2, <2>2, <2>4 DEF Open
  <2>5. CASE i # f /\ i # b
    BY <1>1, <2>2, <2>5 DEF Open
  <2>6. QED
    BY <2>2, <2>3, <2>4, <2>5
<1>5. f \in FactsAbout[s] \ EverRecorded[s]
  BY <1>1, <1>2 DEF FactsAbout, EverRecorded, MayCommit
<1>6. EverRecorded' = [EverRecorded EXCEPT ![s] = @ \cup {f}]
  <2>1. ASSUME NEW q \in Slots
        PROVE  EverRecorded'[q] = IF q = s THEN EverRecorded[q] \cup {f} ELSE EverRecorded[q]
    BY <1>2, <1>4 DEF EverRecorded
  <2>2. EverRecorded' = [q \in Slots |-> EverRecorded'[q]]
    BY DEF EverRecorded
  <2>3. EverRecorded = [q \in Slots |-> EverRecorded[q]]
    BY DEF EverRecorded
  <2>4. QED
    BY <2>1, <2>2, <2>3
<1>7. PICK old \in {{}} \cup {{j} : j \in KnownNow[s]} :
        ((b = NoFact /\ old = {}) \/ (b # NoFact /\ old = {b}))
  BY <1>2, <1>3 DEF KnownNow
<1>8. KnownNow' = [KnownNow EXCEPT ![s] = (@ \ old) \cup {f}]
  <2>1. ASSUME NEW q \in Slots
        PROVE  Current(q)' = IF q = s THEN (Current(q) \ old) \cup {f} ELSE Current(q)
    <3>1. b \in Identity => (SlotOf(b) = q => q = s)
      BY <1>2, <1>3, NoFactAssumption DEF Current
    <3>2. ASSUME NEW i \in Identity, SlotOf(i) = q
          PROVE  Open(i)' <=> i \in (IF q = s THEN (Current(q) \ old) \cup {f} ELSE Current(q))
      BY <1>2, <1>3, <1>4, <1>7, <3>1, <3>2, NoFactAssumption DEF Current
    <3>3. QED
      BY <1>2, <3>2 DEF Current
  <2>2. KnownNow' = [q \in Slots |-> Current(q)']
    BY DEF KnownNow
  <2>3. KnownNow = [q \in Slots |-> Current(q)]
    BY DEF KnownNow
  <2>4. QED
    BY <1>2, <2>1, <2>2, <2>3
<1>9. KnownNow'[s] \in History!Answers(s)
  <2>1. KnownAt(s, clock)' = Current(s)'
    <3>1. ASSUME NEW i \in Identity PROVE Covers(i, clock)' <=> Open(i)'
      BY DEF LedgerInv, TypeOK, StampsArePast, Covers, Open, Recorded
    <3>2. QED
      BY <3>1 DEF KnownAt, Current
  <2>2. clock' \in 1 .. clock'
    BY <1>2 DEF LedgerInv, TypeOK, StampsArePast
  <2>3. CASE s \in Settled
    <3>1. PICK i \in KnownAt(s, clock)' : KnownAt(s, clock)' = {i}
      BY <2>2, <2>3 DEF SnapshotUnique
    <3>2. i \in FactsAbout[s]
      BY <1>2, <3>1 DEF KnownAt, FactsAbout
    <3>3. QED
      BY <1>2, <2>1, <2>3, <3>1, <3>2 DEF KnownNow, History!Answers
  <2>4. CASE s \notin Settled
    BY <1>2, <2>4 DEF KnownNow, History!Answers, Current, FactsAbout
  <2>5. QED
    BY <2>3, <2>4
<1>10. QED
  BY <1>5, <1>6, <1>7, <1>8, <1>9 DEF History!Accept

\* The other steps leave what is recorded and what is current alone.
LEMMA OthersAccept ==
  ASSUME UNCHANGED <<transactionFrom, transactionTo>>
  PROVE  UNCHANGED <<EverRecorded, KnownNow>>
BY DEF EverRecorded, KnownNow, Current, Open, Recorded

\* Every step of a request is a step of the history, or none.
LEMMA StepImplements ==
  ASSUME LedgerInv, LedgerInv', SnapshotUnique', [Next]_vars
  PROVE  [History!Next]_(History!vars)
<1>1. CASE UNCHANGED vars
  BY <1>1 DEF vars, History!vars, EverRecorded, KnownNow, FinalAnswers, Final, KnownAt, Covers,
              Current, Open, Recorded
<1>2. CASE Next
  <2>1. History!Settle
    BY <1>2, HistorySettles DEF LedgerInv
  <2>2. PICK r \in Requests :
          \/ \E i \in Identity : CreateFact(r, i)
          \/ \E o \in Observations : AcceptObservation(r, o)
          \/ Handle(r) \/ Abort(r)
    BY <1>2 DEF Next
  <2>3. CASE Commit(r)
    <3>1. PICK f, s : f = request[r].fact /\ s = SlotOf(f)
      OBVIOUS
    <3>2. History!Accept(s, f)
      BY <2>3, <3>1, CommitAccepts
    <3>3. f \in Identity
      BY <2>3, <3>1, RequestFields DEF Commit, LedgerInv
    <3>4. s \in Slots /\ f \in FactsAbout[s]
      BY <3>1, <3>3, IdentityParts DEF FactsAbout
    <3>5. QED
      BY <2>1, <3>2, <3>4 DEF History!Next
  <2>4. CASE UNCHANGED <<transactionFrom, transactionTo>>
    BY <2>1, <2>4, OthersAccept DEF History!Next
  <2>5. QED
    BY <2>2, <2>3, <2>4 DEF CreateFact, AcceptObservation, Handle, Abort, FindIdentity, Relabel,
                            ListCurrent, Stamp, Refuse
<1>3. QED
  BY <1>1, <1>2

\* The ledger implements the bitemporal history: answers about the past are
\* repeatable below the oldest stamp in flight, whatever overlaps, is refused
\* or is abandoned.
THEOREM Implements == Spec => ImplementsHistory
<1>1. LedgerInv /\ LedgerInv' /\ SnapshotUnique' /\ [Next]_vars => [History!Next]_(History!vars)
  BY StepImplements
<1>2. QED
  BY <1>1, InitialHistory, LedgerInvariant, HistoryUnique, PTL
     DEF Spec, ImplementsHistory, History!Spec
=============================================================================
