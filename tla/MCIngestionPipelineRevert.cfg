\* One run at a time: a source returns to a document it served before.
SPECIFICATION Spec
CONSTANTS
  a = a
  b = b
  empty = empty
  r1 = r1
  r2 = r2
  NoDoc = NoDoc
  NoProposals = NoProposals
  Docs <- TwoDocs
  Barren <- NoneBarren
  Runs <- OneRun
INVARIANT
  SkippedIsCurrent
