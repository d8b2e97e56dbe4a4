SPECIFICATION FairSpec
CONSTANTS
  a1 = a1
  a2 = a2
  a3 = a3
  a4 = a4
  NoClass = NoClass
  NoActor = NoActor
  NoStructure = NoStructure
  NoJob = NoJob
  Classes <- AllClasses
  Loadable <- MapClasses
  Blueprints <- PairOnly
  Options <- RecoveryOptions
  Actors <- ThreeActors
  Builds <- NoBuilds
  MaxPastes = 2
  Events = {"destroy", "reload", "save", "crash", "disk"}
INVARIANTS
  RecordLocates
CHECK_DEADLOCK FALSE
PROPERTIES
  PasteEnds
  UndoTakesAll
