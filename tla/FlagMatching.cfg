CONSTANTS
  Scale = 20480
  Top = 21280
  Round <- Doubles
  Error = 40
  Width = 8
  Definitions <- MCDefinitions
  Cohorts <- MCCohorts
  GroupTypes <- MCGroupTypes
  Groups <- MCGroups
  DistinctId = "me"
  Truths <- MCTruths
  Hashes <- MCHashes
  Rollouts = {10240}
  None = None
SPECIFICATION Spec
INVARIANTS
  DependencyAgrees
  VariantShares
PROPERTIES
  EnabledStays
  DisabledStays
CHECK_DEADLOCK FALSE
