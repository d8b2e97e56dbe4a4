SPECIFICATION PluginSpec
CONSTANTS
  a1 = a1
  a2 = a2
  a3 = a3
  a4 = a4
  NoClass = NoClass
  NoActor = NoActor
  NoStructure = NoStructure
  NoJob = NoJob
  NoPending = NoPending
  Classes <- PluginClasses
  Loadable <- PluginMap
  Blueprints <- Beacons
  Options <- UndoOptions
  Actors <- ThreeActors
  Builds <- Torches
  Admins = {1, 2}
  Corners = {3}
  MarkerCandidates <- Torch
  MaxPastes = 1
  Events = {"destroy", "build", "cancel", "reload", "no_world", "crash"}
SYMMETRY Symmetry
INVARIANTS
  MarkersPending
  PluginTypeOK
PROPERTIES
  ClearSparesOthers
  ConfirmAtMarkers
