CONSTANTS
  p1 = p1
  p2 = p2
  p3 = p3
  s1 = s1
  s2 = s2
  s3 = s3
  h1 = h1
  h2 = h2
  Proc = {p1, p2, p3}
  NoProc = NoProc
  Source = {s1, s2, s3}
  SourceOf <- OwnSources
  KeepObj = {p2}
  Hash = {h1, h2}
  HashOf <- TwoVersions
  MaxArchives = 1
  MaxTime = 0
  Layouts = {"nested", "nozig"}
  MaxFaults = 2
SPECIFICATION FairSpec
INVARIANTS LinksWholeInputs OwnObjectUntilLinked
PROPERTIES EveryBuildEnds
