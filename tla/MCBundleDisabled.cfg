SPECIFICATION Spec
CONSTANTS
  Bundles = {src, clone}
  Source = src
  Disks <- DisabledLemmatizer
  Options <- SomeOptions
  MaxCalls = 2
  MaxLost = 1
CHECK_DEADLOCK FALSE
INVARIANTS DisabledNeverRun
