--------------------------- MODULE MCFactLedger ---------------------------
(***************************************************************************)
(* Two overlapping requests on two slots: one that already holds a fact    *)
(* and one that is still empty, with an observation about the first.       *)
(***************************************************************************)
EXTENDS FactLedgerRefinement, TLC

CONSTANTS r1, r2,            \* requests
          held, empty,       \* slots
          a, b, c,           \* values
          noText,            \* valid_from is None
          oHeld, oBack       \* observations

MCRequests == {r1, r2}
MCSlots == {held, empty}
MCValues == held :> {a, b, c} @@ empty :> {a, b}
MCTexts == [s \in MCSlots |-> {noText}]
MCObservations == {oHeld}
MCClaim == oHeld :> <<held, b, noText>>
MCSeed == {<<held, a, noText>>}

\* One request at a time.
OneRequest == {r1}

\* The held slot has its value corrected and then corrected back.
BothObservations == {oHeld, oBack}
OneSlot == {held}
OneSlotValues == held :> {a, b}
OneSlotTexts == held :> {noText}
RevertClaim == oHeld :> <<held, b, noText>> @@ oBack :> <<held, a, noText>>

\* Requests are interchangeable.
Symmetric == Permutations(MCRequests)
=============================================================================
