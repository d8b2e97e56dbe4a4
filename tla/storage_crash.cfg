SPECIFICATION Spec
CONSTANTS
  base = base
  tower = tower
  b1 = b1
  b2 = b2
  b3 = b3
  Absent = Absent
  Torn = Torn
  NoSave = NoSave
  Refused = Refused
  Names <- TwoNames
  Blueprints <- ThreeBlueprints
  Newer <- OneNewer
  Events <- Detected
INVARIANT LibraryAsTold
PROPERTY KeepsLibrary
