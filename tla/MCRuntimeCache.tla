---------------------------- MODULE MCRuntimeCache ----------------------------
(* Three compilers: two of one version, one of another; two older archives. *)
EXTENDS RuntimeCache, TLC
CONSTANTS p1, p2, p3, h1, h2
ThreeBuilds == p1 :> h1 @@ p2 :> h1 @@ p3 :> h2
=============================================================================
