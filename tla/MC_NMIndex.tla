----------------------------- MODULE MC_NMIndex -----------------------------
\* Filenames for TLC, as ASCII codes.  "a" and "wj" share bucket 518 of
\* the 1024-bucket table; "ab" and "ac" share the trie node of "a".
EXTENDS NMIndex, TLC

CONSTANTS c1, c2, u1, u2

NameA  == <<97>>
NameWJ == <<119, 106>>
NameAB == <<97, 98>>
NameAC == <<97, 99>>

\* A chain of two colliding names plus a name whose trie path runs
\* through another's node.
MCKeysTable == {NameA, NameWJ, NameAB}

\* Two names below a node that is not itself a name.
MCKeysTrie == {NameAB, NameAC}

\* One name.
MCKeysOne == {NameA}
====
