SPECIFICATION Spec
CONSTANTS
  small = small
  large = large
  other = other
  NoModel = NoModel
  NoRoute = NoRoute
  Models <- MCModels
  Routes <- MCRoutes
  ItemIds <- MCItemIds
  Profiles <- MCProfiles
  WorkItems <- SwitchMislabelled
  StrictRoutes = TRUE
  MaxForeignLoads = 0
  MaxFailedReads = 1
  Footprint <- MCFootprint
  BaseMb = 1
  GuardrailMb = 1
  RouterMb = 1
  TransientMb = 1
INVARIANTS
  SerializedResidency
  PeakMemoryBound
  NoFalseAlarm
PROPERTY
  Serialized
