\* Two threads, lines that make the buffer grow twice, short reads and one fault.
SPECIFICATION FairSpec
CONSTANTS
  NoProc = NoProc
  NL = NL
  Chunk = 2
  Proc = {p1, p2}
  Letter = {a}
  MaxInput = 8
  MaxCalls = 2
  MaxFaults = 1
INVARIANT ReadInvariant
PROPERTIES ReadsLines EveryCallReturns
