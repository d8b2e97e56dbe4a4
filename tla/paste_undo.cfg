SPECIFICATION Spec
CONSTANTS
  a1 = a1
  a2 = a2
  a3 = a3
  a4 = a4
  NoClass = NoClass
  NoActor = NoActor
  NoStructure = NoStructure
  NoJob = NoJob
  Classes <- AllClasses
  Loadable <- MapClasses
  Blueprints <- PairOnly
  Options <- UndoOptions
  Actors <- ThreeActors
  Builds <- Neighbours
  MaxPastes = 2
  Events = {"destroy", "build", "cancel", "reload", "save", "crash", "stasis"}
CHECK_DEADLOCK FALSE
SYMMETRY Symmetry
INVARIANTS
  UndoSurvivesReload
PROPERTIES
  KeepsPromise
  UndoSparesPlayers
