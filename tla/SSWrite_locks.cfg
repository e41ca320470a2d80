CONSTANTS
  Workers = {w1, w2}
  Files = {f1}
  None = None
  Absent = Absent
  InitLen = 1
  ReqIdx <- MCReqIdxLive
  MaxUpdates = 1
  MaxLog = 1
SPECIFICATION Spec
PROPERTY CommitCompletes
INVARIANT TypeOK
INVARIANT LockTableMatchesSessions
