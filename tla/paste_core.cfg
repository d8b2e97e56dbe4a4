SPECIFICATION Spec
CONSTANTS
  a1 = a1
  a2 = a2
  a3 = a3
  a4 = a4
  NoClass = NoClass
  NoActor = NoActor
  NoStructure = NoStructure
  NoJob = NoJob
  Classes <- AllClasses
  Loadable <- MapClasses
  Blueprints <- CoreBlueprints
  Options <- CoreOptions
  Actors <- FourActors
  Builds <- Neighbours
  MaxPastes = 1
  Events = {"null_spawn", "destroy", "build", "cancel", "no_world"}
SYMMETRY Symmetry
INVARIANTS
  TypeOK
  Accounted
  ReplyIsTrue
  LinkedSoFar
  MountedOnItsFloor
