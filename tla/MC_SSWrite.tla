---------------------------- MODULE MC_SSWrite ----------------------------
\* Instantiates SSWrite for TLC: two or three worker threads, one file of
\* one or two sentences, sentence numbers from -1 (atoi of a negative) up.
EXTENDS SSWrite, TLC

MCReqIdx == -1..2

\* In-range requests only, for the liveness run (out-of-range ones end
\* with 400 before any lock wait).
MCReqIdxLive == 0..1

\* The storage server with no CREATE/DELETE from the NM for its files.
SpecWorkersOnly == Init /\ [][WorkerNext]_vars

\* The same, with the SS process crashing and restarting at any point.
SpecWorkersRestart == Init /\ [][WorkerNext \/ SSRestart]_vars

\* Worker threads are interchangeable (safety runs only).
MCSymmetry == Permutations(Workers)

=============================================================================
