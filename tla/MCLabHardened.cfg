\* The multi-vendor lab built again after R1 was hardened.
CONSTANTS
  Topologies <- MCTopologies
  Originals <- MCOriginals
  Names <- MCNames
  Stray = "Stray"
  Sets <- MCSets
  Hardenable = {"R1"}
  MaxRuns = 2
  MaxFaults = 0
  MaxHands = 1
SPECIFICATION FairSpec
PROPERTIES Converges
CHECK_DEADLOCK FALSE
