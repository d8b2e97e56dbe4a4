SPECIFICATION Spec
CONSTANTS
  s1 = s1
  s2 = s2
  s3 = s3
  NoPath = NoPath
  NoFloor = NoFloor
  NoCorner = NoCorner
  Structures <- ThreeStructures
  Classes <- CaptureClasses
  Corners <- BoxCorners
  Scenes <- CaptureScenes
  Margin = 150
INVARIANTS
  TypeOK
  WiredLikeTheScene
  PlacedLikeTheScene
  LossesShown
  NearMissesCounted
  LinksAddUp
