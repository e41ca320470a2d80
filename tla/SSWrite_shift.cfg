CONSTANTS
  Workers = {w1, w2, w3}
  Files = {f1}
  None = None
  Absent = Absent
  InitLen = 2
  ReqIdx <- MCReqIdx
  MaxUpdates = 1
  MaxLog = 2
SPECIFICATION Spec
SYMMETRY MCSymmetry
INVARIANT ShiftCorrect
