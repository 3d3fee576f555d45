CONSTANTS
  p1 = p1
  p2 = p2
  p3 = p3
  h1 = h1
  h2 = h2
  Proc = {p1, p2, p3}
  NoProc = NoProc
  Hash = {h1, h2, h3, h4}
  HashOf <- ThreeBuilds
  MaxArchives = 2
  MaxTime = 1
  MaxFaults = 2
SPECIFICATION Spec
INVARIANTS CacheInvariant CacheBounded
PROPERTIES NewestKept
