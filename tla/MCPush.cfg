SPECIFICATION Spec
CONSTANTS
  Host = {"h1", "h2"}
  NoHost = "none"
  Platform = {"switch", "router", "nexus"}
  Rejectable <- MCRejectable
INVARIANTS
  TypeOK
  EscapeHatch
  SecretFirst
PROPERTIES
  SafetyNetHolds
  CreatingShutsNobodyOut
