-------------------------------- MODULE MCBuild --------------------------------
(* Builds of two or three sources by compilers of two versions. *)
EXTENDS Build, TLC
CONSTANTS p1, p2, p3, s1, s2, s3, h1, h2
OwnSources == (p1 :> s1 @@ p2 :> s2 @@ p3 :> s3)
TwoVersions == (p1 :> h1 @@ p2 :> h2 @@ p3 :> h1)
=============================================================================
