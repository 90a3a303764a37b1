SPECIFICATION Spec
CONSTANTS
  Bundles = {src, clone}
  Source = src
  Disks <- OneFault
  Options <- SomeOptions
  MaxCalls = 2
  MaxLost = 1
CHECK_DEADLOCK FALSE
INVARIANTS UnloadedModelsNeverRun CallsAgree ClonesAgree
