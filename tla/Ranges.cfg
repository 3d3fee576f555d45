CONSTANTS
  x = x
  i = i
  Name = {x, i}
  Outer = {x}
  Low <- Least
  High = 1
  NoRange = NoRange
  Text <- RangeText
  MaxLen = 6
  MaxDepth = 2
SPECIFICATION Spec
INVARIANTS FactsHold GuardsKept NamesResolved
ACTION_CONSTRAINT CalmFors
