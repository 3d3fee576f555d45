CONSTANTS
  x = x
  i = i
  Name = {x, i}
  Outer = {x}
  Low <- Least
  High = 1
  NoRange = NoRange
  Text <- LoopJumps
  MaxLen = 6
  MaxDepth = 2
SPECIFICATION Spec
ACTION_CONSTRAINT ScopedFors
INVARIANT FactsHold
