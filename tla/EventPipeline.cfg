CONSTANTS
  Keys <- SomeKeys
  Values <- SomeValues
  GroupNames = {"company"}
  MaxOps = 2
  Setups <- SomeSetups
  Stacks <- SomeStacks
  PanicStacks <- SomePanicStacks
  Policies <- SomePolicies
  Contexts <- SomeContexts
  Depths = {0, 3}
  MaxFrames = 3
  MaxSources = 3
  PrefixScan = 8
  PanicScan = 6
  Modules <- SomeModules
SPECIFICATION Spec
INVARIANTS
  WireFaithful
  BuildsAgree
  ReportSound
