SPECIFICATION Spec
CONSTANTS
  w1 = w1
  w2 = w2
  Keys <- MCKeys
  DummyKey <- MCDummyKey
  Traces <- MCTraces
  FakeId <- MCFakeId
  Configs <- MCConfigs
  PUT_BATCH = 3
  Initial = 0
  PHASES = 3
  BLOCK_SIZE = 2
  MAX_BLOCK_SIZE = 2
INVARIANTS Smooth Resolvable NoLookupFails DequeueFinds ReadsAreFresh ClosedLoop PutsInOrder SettledAnswered
CHECK_DEADLOCK FALSE
