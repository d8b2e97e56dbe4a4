SPECIFICATION Spec
CONSTANTS
  a1 = a1
  a2 = a2
  a3 = a3
  a4 = a4
  NoClass = NoClass
  NoActor = NoActor
  NoStructure = NoStructure
  NoJob = NoJob
  Classes <- AllClasses
  Loadable <- MapClasses
  Blueprints <- PairOnly
  Options <- UndoOptions
  Actors <- FourActors
  Builds <- NoBuilds
  MaxPastes = 2
  Events = {"cancel"}
CHECK_DEADLOCK FALSE
INVARIANTS
  UndoTakesLatest
