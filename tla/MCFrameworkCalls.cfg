SPECIFICATION Spec
CONSTANTS
  Keys <- MCKeys
  MaxPasses = 3
INVARIANTS
  ScreenedDespiteFailure
  RefusalStands
