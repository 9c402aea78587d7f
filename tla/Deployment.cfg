SPECIFICATION Spec
CONSTANTS
  Hosts <- MCHosts
  L3_NUM_CORES = 2
  MaxInvocations = 2
INVARIANTS StartsClean RequestPath AckRoute ResendsReachLive
PROPERTY ManagerCompletes
CHECK_DEADLOCK FALSE
