SPECIFICATION HookSpec
CONSTANTS
  Texts <- MCTexts
  Found <- MCFound
  Origins = {"text", "ocr"}
  HookScores <- MCHookScores
  Signs <- MCSigns
  Numbers = {0, 34, 50, 65, 100, 8500}
  Thresholds = {10, 35, 50, 65, 90}
INVARIANTS
  ScanFindsWorth
  NoAnswerUnblocks
  VerdictsAgree
PROPERTY
  Returns
