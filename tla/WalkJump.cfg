CONSTANTS
  Outer = {x}
  Inner = {}
  MoveParam = {}
  BorrowParam = {}
  InoutParam = {}
  Fresh = Fresh
  NoOwner = NoOwner
  MaxLen = 8
  MaxDepth = 2
  MaxCalls = 4
  Text <- JumpText
SPECIFICATION Spec
INVARIANTS NoUseAfterMove
