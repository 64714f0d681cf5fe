SPECIFICATION Spec
CONSTANTS
  Host = {"h1", "h2"}
  NoHost = "none"
  Platform = {"switch"}
  Rejectable = {}
INVARIANTS
  DenyChangesNothing
