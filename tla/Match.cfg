CONSTANTS
  a = a
  b = b
  Binder = {a, b}
  Skip = Skip
  None = None
  Matches <- Examples
  MaxArms = 4
SPECIFICATION Spec
INVARIANTS FirstMatchRuns BindsNamedFields JoinHasResult RefusedForReason
