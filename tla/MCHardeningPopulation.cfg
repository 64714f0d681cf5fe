SPECIFICATION Spec
CONSTANTS
  Port <- MCPort
  FastPort = {"fast"}
  Vlan <- MCVlan
  Inventory <- MCInventory
  Book = "ios-xe"
  Start <- MCStart
  MaxRuns = 1
  MaxFaults = 0
PROPERTIES
  OnePopulation
CHECK_DEADLOCK FALSE
