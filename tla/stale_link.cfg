SPECIFICATION Spec
CONSTANTS
  a1 = a1
  a2 = a2
  a3 = a3
  a4 = a4
  NoClass = NoClass
  NoActor = NoActor
  NoStructure = NoStructure
  NoJob = NoJob
  Classes <- AllClasses
  Loadable <- MapClasses
  Blueprints <- CoreBlueprints
  Options <- OneOption
  Actors <- FourActors
  Builds <- NoBuilds
  MaxPastes = 1
  Events = {"destroy"}
CHECK_DEADLOCK FALSE
INVARIANTS
  NeighboursExist
