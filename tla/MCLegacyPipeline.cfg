SPECIFICATION Spec
CONSTANTS
  Contents <- MCContents
  ContentTypes <- MCContentTypes
  Joined <- MCJoined
  Authorities = {"developer", "retrieved_external"}
  HookScores = {50, 100}
  Requests <- MCRequests
  NoHook = NoHook
  HookRaises = HookRaises
  MaxScreened = 2
INVARIANTS
  NeverBare
  RefusedStaysRefused
  ToolUseBlocked
  PackageIsStricter
