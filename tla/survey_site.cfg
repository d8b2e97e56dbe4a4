SPECIFICATION CoverageSpec
CONSTANTS
  NoReport = NoReport
  Blueprints <- OneTower
  Options <- Flat
  Terrains <- Grounds
  Structures <- Emplaced
  Ranges <- Reach
  Admins <- OneAdmin
  Spans = {1200}
  Asked <- AboveOrNot
  kGrid = 5
INVARIANTS
  BurialForetold
  RestsOnTheGround
  HighestBuriesNothing
  CoverIsReal
PROPERTY ClearMeansClear
