CONSTANTS
  Proc = {p1, p2, p3}
  NoProc = NoProc
  Layouts = {"nested", "flat", "nozig"}
  MaxFaults = 3
SPECIFICATION FairSpec
INVARIANTS InstallInvariant
PROPERTIES NeverReplaced KeepsPromise EventuallyInstalled
