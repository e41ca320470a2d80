----------------------------- MODULE MC_NMFiles -----------------------------
EXTENDS NMFiles, TLC

CONSTANTS c1, c2, c3, u1, u2, k1, k2, k3

\* Connections c1 and c2 belong to different users; c3 is a second
\* connection of u1.
MCUserOf == (c1 :> u1) @@ (c2 :> u2) @@ (c3 :> u1)

MCUserOfTwo == (c1 :> u1) @@ (c2 :> u2)

MCUserOfOne == (c1 :> u1)

\* Two connections of one user: placement and the SS list do not depend
\* on who is asking.
MCUserOfSame == (c1 :> u1) @@ (c2 :> u1)

\* The storage servers are interchangeable, and so are socket descriptors.
MCSymmetry == Permutations(SSes) \cup Permutations(Socks)
=============================================================================
