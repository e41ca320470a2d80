---------------------------- MODULE MC_WriteWire ----------------------------
\* Instance of WriteWire: an update, an update whose content has a space,
\* a line the loop skips, and ETIRW.
EXTENDS WriteWire

\* A line typed by the user, as its bytes.
Bytes(str) == [i \in 1..Len(str) |-> SubSeq(str, i, i)]

MCLines == {ETIRW, <<"a">>, <<"0", " ", "a">>, <<"1", " ", "a", " ", "b">>}

====
