CONSTANTS
  MaxConfigs = 4
  MaxRegions = 2
  CPUs = {1, 3, 4}
  IPs <- MCIPs
  SSDs = {49, 120}
  MinScratch = 0
SPECIFICATION Spec
INVARIANTS
  EveryConfigOnce
  Balanced
  RegionWithinQuota
  HomeFirst
  SharedOnlyIfFull
CHECK_DEADLOCK FALSE
