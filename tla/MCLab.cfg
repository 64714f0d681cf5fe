\* The labs built, cut off, edited, powered off, hardened (the single switch)
\* and built again: three runs, two faults, one thing done by hand.
CONSTANTS
  Topologies <- MCTopologies
  Originals <- MCOriginals
  Names <- MCNames
  Stray = "Stray"
  Sets <- MCSets
  Hardenable = {"S1"}
  MaxRuns = 3
  MaxFaults = 2
  MaxHands = 1
SPECIFICATION FairSpec
INVARIANTS
  TypeOK
  NoDuplicates
  StraysAccounted
  SavedBoots
PROPERTIES
  AdaptersChangedStopped
  LinksAtDeclaredCount
  VerifiedIsBuilt
  Converges
CHECK_DEADLOCK FALSE
