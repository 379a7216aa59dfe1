-------------------------- MODULE BitemporalHistory --------------------------
(***************************************************************************)
(* What a ledger of facts with a transaction time promises to its readers. *)
(*                                                                         *)
(* A slot has the facts that answer a query about the present, and for     *)
(* every instant up to some horizon the facts that answer a query about    *)
(* what was known at that instant.  An answer about an instant below the   *)
(* horizon is final: asking again, however much later, returns it again.   *)
(* The answers about the instants above it may still change, because a     *)
(* fact is stamped before it can be read.                                  *)
(***************************************************************************)
EXTENDS Naturals

CONSTANTS
  Slots,
  FactsOf,  \* FactsOf[s]: the facts that may be recorded of slot s
  Single    \* the slots that have exactly one fact at every instant

VARIABLES
  recorded,  \* slot -> every fact ever recorded of it
  current,   \* slot -> the facts known now
  past       \* slot -> the final answers, one for each instant 1, 2, ...

vars == <<recorded, current, past>>

\* What a query about one instant may return.
Answers(s) == IF s \in Single THEN {{i} : i \in FactsOf[s]} ELSE SUBSET FactsOf[s]

Init ==
  /\ \A s \in Slots : current[s] \in Answers(s)
  /\ recorded = current
  /\ \A s \in Slots : past[s] = [t \in {1} |-> current[s]]

\* A fact never recorded before becomes current; it replaces at most one other
\* and, in a slot that has exactly one, that one.
Accept(s, i) ==
  /\ i \in FactsOf[s] \ recorded[s]
  /\ recorded' = [recorded EXCEPT ![s] = @ \cup {i}]
  /\ \E old \in {{}} \cup {{j} : j \in current[s]} :
       current' = [current EXCEPT ![s] = (@ \ old) \cup {i}]
  /\ current'[s] \in Answers(s)

\* The horizon moves on: new answers become final, none that was is withdrawn.
Settle ==
  \A s \in Slots :
    LET before == past[s]
        after  == past'[s]
    IN  /\ DOMAIN before \subseteq DOMAIN after
        /\ \A t \in DOMAIN before : after[t] = before[t]
        /\ \A t \in DOMAIN after \ DOMAIN before :
             after[t] \in Answers(s) /\ after[t] \subseteq recorded'[s]

Next ==
  /\ \/ UNCHANGED <<recorded, current>>
     \/ \E s \in Slots : \E i \in FactsOf[s] : Accept(s, i)
  /\ Settle

Spec == Init /\ [][Next]_vars
=============================================================================
