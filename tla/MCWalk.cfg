SPECIFICATION FairSpec
CONSTANTS
  Session <- MCSession
  Key = {"k1", "k2"}
  Base = {"sw1"}
  Hosts = {"h1"}
  HostOf <- MCHostOf
  KeyOf <- MCKeyOf
  BasesOf <- MCBasesOf
  Modes = {TRUE, FALSE}
  MaxCopies = 2
  MaxRuns = 3
  MaxDeletes = 1
  MaxFaults = 1
  NoKey = NoKey
  NoBase = NoBase
  NoHost = NoHost
  Merged = Merged
INVARIANTS
  TypeOK
  LogIsCensus
  CollectionKept
  IndexTellsTruth
PROPERTIES
  ImplementsShelf
  NothingEndsTheWalk
CHECK_DEADLOCK FALSE
