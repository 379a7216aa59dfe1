\* Two runs of one stream, beside a source that changes.
SPECIFICATION Spec
CONSTANTS
  a = a
  b = b
  empty = empty
  r1 = r1
  r2 = r2
  NoDoc = NoDoc
  NoProposals = NoProposals
  Docs <- MCDocs
  Barren <- MCBarren
  Runs <- TwoRuns
SYMMETRY Symmetric
INVARIANTS
  TypeOK
  PayloadsMatch
  TerminalWasDelivered
PROPERTIES
  SavedStagesAreKept
  FinishedIsFinal
