\* Overlapping corrections of a slot that holds a fact and of one that does not.
SPECIFICATION Spec
CONSTANTS
  r1 = r1
  r2 = r2
  held = held
  empty = empty
  a = a
  b = b
  c = c
  noText = noText
  oHeld = oHeld
  oBack = oBack
  NoFact = NoFact
  Direct = Direct
  Requests <- MCRequests
  Slots <- MCSlots
  Values <- MCValues
  Texts <- MCTexts
  Observations <- MCObservations
  Claim <- MCClaim
  Seed <- MCSeed
SYMMETRY Symmetric
INVARIANTS
  TypeOK
  SnapshotUnique
  ClosuresAreLogged
  AcceptedIsRecorded
PROPERTIES
  HistoryIsAppendOnly
  SlotNeverEmpties
  ImplementsHistory
