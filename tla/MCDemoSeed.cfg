\* The demonstration script, stopped and repeated, beside clients of the API.
SPECIFICATION Spec
CONSTANTS
  s1 = s1
  s2 = s2
  editor = editor
  University = University
  Program = Program
  OFFERS = OFFERS
  campaignProperty = campaignProperty
  bmstu = bmstu
  programA = programA
  v1 = v1
  v2 = v2
  Clients <- MCClients
  Seeds <- MCSeeds
  Versions <- MCVersions
  Codes <- MCCodes
  Types <- MCTypes
  Predicates <- MCPredicates
  From <- MCFrom
  To <- MCTo
  Keys <- MCKeys
  Sources <- MCSources
  DemoVersion = v1
  DemoCodes <- MCDemoCodes
  Campaign = campaignProperty
  DemoSource <- Admission
  DemoObjects <- MCDemoObjects
  DemoRelation <- MCDemoRelation
  DemoProgram = programA
  DemoRules <- MCDemoRules
  MaxChanges = 1
SYMMETRY Symmetric
INVARIANTS
  TypeOK
  RelationsConform
  SeedIsRepeatable
  SeedIsComplete
