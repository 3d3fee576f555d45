\* Files of four lines, three levels deep, one of them broken or out of place.
SPECIFICATION FrontSpec
CONSTANTS
  Word = {Plain, Store, Return, Fn, If, Elif, Else, While, For1, Struct, Field, Colon, Bad}
  Plain = Plain
  Store = Store
  Return = Return
  Fn = Fn
  If = If
  Elif = Elif
  Else = Else
  While = While
  For1 = For1
  Struct = Struct
  Field = Field
  Colon = Colon
  Bad = Bad
  Spaces = Spaces
  INDENT = INDENT
  DEDENT = DEDENT
  MaxTabs = 3
  MaxLoose = 4
  MaxLines = 4
INVARIANTS BlocksAsIndented ParsesAsIndented
