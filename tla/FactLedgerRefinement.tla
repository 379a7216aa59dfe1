------------------------ MODULE FactLedgerRefinement ------------------------
(***************************************************************************)
(* The fact ledger implements the bitemporal history.  The horizon is the  *)
(* oldest stamp of a request that has not ended: such a request may still  *)
(* open and close facts as of its stamp, none can before it.               *)
(***************************************************************************)
EXTENDS FactLedger

\* The instants whose answers are final.
Final == {t \in 1 .. clock - 1 :
  \A r \in Requests : request[r].step = "write" => t < request[r].at}

FactsAbout   == [s \in Slots |-> {i \in Identity : SlotOf(i) = s}]
EverRecorded == [s \in Slots |-> {i \in Identity : SlotOf(i) = s /\ Recorded(i)}]
KnownNow     == [s \in Slots |-> Current(s)]
FinalAnswers == [s \in Slots |-> [t \in Final |-> KnownAt(s, t)]]

History == INSTANCE BitemporalHistory WITH
  FactsOf  <- FactsAbout,
  Single   <- Settled,
  recorded <- EverRecorded,
  current  <- KnownNow,
  past     <- FinalAnswers

\* list_facts with known_at is repeatable below the oldest stamp in flight, and
\* a corrected fact is replaced in one step: however the requests overlap,
\* whichever are refused or abandoned, what a reader saw of a final instant is
\* what every later reader sees, and of a settled slot it is one fact.
ImplementsHistory == History!Spec
=============================================================================
