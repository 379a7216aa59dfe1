\* One request after another: an observation brings back a value that was corrected.
SPECIFICATION Spec
CONSTANTS
  r1 = r1
  r2 = r2
  held = held
  empty = empty
  a = a
  b = b
  c = c
  noText = noText
  oHeld = oHeld
  oBack = oBack
  NoFact = NoFact
  Direct = Direct
  Requests <- OneRequest
  Slots <- OneSlot
  Values <- OneSlotValues
  Texts <- OneSlotTexts
  Observations <- BothObservations
  Claim <- RevertClaim
  Seed <- MCSeed
PROPERTY
  AcceptanceIsCurrent
