CONSTANTS
  Absent = Absent
  Chars <- MCChars
  InitLen = 3
  MaxLen = 5
  WordIdx <- MCWordIdx
  Contents <- MCContents
  MaxUpdates = 1
SPECIFICATION Spec
INVARIANT InfoWordsAsSpec
