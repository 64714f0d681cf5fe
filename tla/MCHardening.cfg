SPECIFICATION Spec
CONSTANTS
  Port <- MCPort
  FastPort = {"fast"}
  Vlan <- MCVlan
  Inventory <- MCInventory
  Book = "ios-xe"
  Start <- MCStart
  MaxRuns = 3
  MaxFaults = 1
INVARIANTS
  TypeOK
  HardenedPasses
PROPERTIES
  NothingUnfixed
  UplinksKeepTheirTrunk
  ServiceKept
  VlansCarried
  ChecklistIsTrue
CHECK_DEADLOCK FALSE
