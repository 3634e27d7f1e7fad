SPECIFICATION FairOpenSpec
CONSTANTS
  small = small
  large = large
  other = other
  NoModel = NoModel
  NoRoute = NoRoute
  Models <- ProfiledModels
  Routes <- MCRoutes
  ItemIds <- MCItemIds
  Profiles <- MCProfiles
  WorkItems <- Switch
  StrictRoutes = TRUE
  MaxForeignLoads = 1
  MaxFailedReads = 0
  Footprint <- MCFootprint
  BaseMb = 1
  GuardrailMb = 1
  RouterMb = 1
  TransientMb = 1
INVARIANTS
  TypeOK
  NoUnloadInFlight
  VerdictGrounded
  ArtifactsAgree
  CleanExitTrusted
  StragglerBounded
PROPERTIES
  FinalOverlapCaught
  Termination
