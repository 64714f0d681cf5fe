SPECIFICATION Spec
CONSTANTS
  Session <- MCSession
  Key = {"k1", "k2"}
  Base = {"sw1"}
  Hosts = {"h1"}
  HostOf <- MCHostOf
  KeyOf <- MCKeyOf
  BasesOf <- MCBasesOf
  Modes = {TRUE, FALSE}
  MaxCopies = 2
  MaxRuns = 3
  MaxDeletes = 1
  MaxFaults = 0
  NoKey = NoKey
  NoBase = NoBase
  NoHost = NoHost
  Merged = Merged
PROPERTIES
  SkippedHaveOwn
CHECK_DEADLOCK FALSE
