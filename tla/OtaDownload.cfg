CONSTANTS
  Blocks = 4
  SaveRate = 1
  Versions = {1, 2}
  PageBlocks = 3
  DownloadErrorThreshold = 2
  UpgradeWaitThreshold = 2
  Builds = {"blocks", "spaced pages"}
  DisturbedBuilds = {"blocks"}
  MaxMishaps = 2
  MaxReboots = 1
SPECIFICATION Spec
INVARIANTS
  WholeImage
PROPERTY Upgraded
