---------------------------- MODULE MC_NMPersist ----------------------------
\* Instances of NMPersist for TLC: two filenames, walked in a fixed
\* bucket order.
EXTENDS NMPersist, TLC

CONSTANTS c1, c2, n1, n2, u1, u2

MCNameOrder == <<n1, n2>>

====
