CONSTANTS
  x = x
  q = q
  p = p
  Outer = {}
  Inner = {x}
  MoveParam = {p}
  BorrowParam = {}
  InoutParam = {q}
  Fresh = Fresh
  NoOwner = NoOwner
  MaxLen = 8
  MaxLoops = 7
  MaxLine = 6
  MaxDepth = 2
  MaxBuffers = 4
  Text <- AllText
SPECIFICATION SpecChecked
ACTION_CONSTRAINT Bodies
INVARIANTS ReleasedOnce ReadsAlive LeakSound SchedulesValidate
