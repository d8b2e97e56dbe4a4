SPECIFICATION FairSpec
CONSTANTS
  Order <- TwoPlugins
  Ids <- OwnIds
  Builds = {1, 2}
  ReloadSeconds = 2
  Events = {"load_fails", "copy_fails", "slow_copy", "crash"}
INVARIANTS
  LoadedCodeOnly
  ServesWhatIsListed
PROPERTIES
  SavedBeforeUnload
  StagedIsTaken
