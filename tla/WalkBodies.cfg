CONSTANTS
  Outer = {x}
  Inner = {d}
  MoveParam = {s}
  BorrowParam = {b}
  InoutParam = {q}
  Fresh = Fresh
  NoOwner = NoOwner
  MaxLen = 7
  MaxDepth = 3
  MaxCalls = 4
  Text <- AllText
SPECIFICATION BodiesSpec
CONSTRAINT BodiesInBounds
INVARIANTS TypeOK NoUseAfterMove DisplacesLiveValue TransfersLogged CallerKeepsItsValues ExclusiveArguments
PROPERTIES EntryAscends WalkTerminates
