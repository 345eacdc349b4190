CONSTANTS
  Channels = {1, 2, 3}
  Echo <- MCEcho
  PanIds = {1, 2, 3}
  Candidates = 2
  MaxNetworks = 2
  Mask = {1, 2, 3}
  Networks <- MCNetworks
  Byte = 4
  MoveLimits = {2, 3}
  Builds = {"soc coordinator", "soc end device", "host coordinator", "host end device"}
  MaxSearches = 2
  MaxDowns = 1
  MaxMishaps = 2
SPECIFICATION FindSpec
INVARIANTS
  TrueChannel
  NoneSkipped
  PanIdUnused
PROPERTY FindEnds
CHECK_DEADLOCK FALSE
