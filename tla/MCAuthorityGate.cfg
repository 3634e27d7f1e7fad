SPECIFICATION AdapterSpec
CONSTANTS
  Callers = {guard, app}
  Guards = {guard}
  Calls <- MCCalls
  MaxReceipts = 2
  words = words
  Texts <- MCTexts
  BLOCKED_DESC = BLOCKED_DESC
  BLOCKED_RESULT = BLOCKED_RESULT
INVARIANTS
  TypeOK
  ReceiptsTellDecision
  LogKeepsLaterReceipts
  GrantsEarned
  ReportTellsGate
PROPERTY
  Mediated
