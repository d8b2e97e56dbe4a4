SPECIFICATION Spec
CONSTANTS
  Poses = {1, 2, 3}
  Paths = {"none", "wall", "box", "turret", "bullet", "sword"}
  Kind <- ThreeKinds
  MaxStack <- StackSizes
  Scenes <- Bases
  OldFiles <- FormerFiles
  StackArgs = {0, 2}
  Missing = {{}, {"sword", "wall"}, {"bullet", "box"}}
  Events = {"refused", "null_spawn", "no_inventory"}
  StatSlots = 2
  NoClass = "none"
  NoItem = NoItem
  NoInventory = NoInventory
  NoFile = NoFile
  NoJob = NoJob
  NoReply = NoReply
INVARIANTS
  HoldsWhatWasSaved
  StacksAsTold
  DevicesAsCaptured
  LoadedAsSaved
PROPERTIES
  FillAsTold
  FillFits
CHECK_DEADLOCK FALSE
