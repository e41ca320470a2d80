CONSTANTS
  Workers = {w1, w2}
  Files = {f1}
  None = None
  Absent = Absent
  InitLen = 2
  ReqIdx <- MCReqIdx
  MaxUpdates = 1
  MaxLog = 1
SPECIFICATION SpecWorkersOnly
SYMMETRY MCSymmetry
PROPERTY LogSumMatchesCount
