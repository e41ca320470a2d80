CONSTANTS
  Absent = Absent
  Chars <- MCCharsFF
  InitLen = 3
  MaxLen = 5
  WordIdx <- MCWordIdx
  Contents <- MCContents
  MaxUpdates = 1
SPECIFICATION Spec
INVARIANT StreamCoversFile
