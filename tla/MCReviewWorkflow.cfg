\* Two overlapping requests of every kind.
SPECIFICATION Spec
CONSTANTS
  p = p
  oSure = oSure
  oLow = oLow
  r1 = r1
  r2 = r2
  MaxVersions = 3
  Breaking = {}
  Properties <- MCProperties
  Seed <- MCSeed
  Requests <- MCRequests
  Expecting = TRUE
  Observations <- MCObservations
  PropertyOf <- MCPropertyOf
  LowConfidence = {oLow}
  MaxReviews = 2
SYMMETRY Symmetric
INVARIANTS
  TypeOK
  OneActiveOntology
  ProposalAgreesWithReview
  HeldIsExplained
  ApprovedIsAccepted
  AcceptedWithinOntology
PROPERTY
  DecidedOnce
