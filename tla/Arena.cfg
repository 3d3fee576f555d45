CONSTANTS
  Scopes <- AllScopes
  Members = {0, 2}
  MaxWord = 63
  DepthLimit = 1
  InlineSlots = 2
SPECIFICATION Spec
INVARIANTS ViewsRoundTrip ProbesAgree TokensFound MissingReturnSound JumpPathRight
CHECK_DEADLOCK FALSE
