CONSTANTS
  Absent = Absent
  Chars <- MCChars
  InitLen = 5
  MaxLen = 7
  WordIdx <- MCWordIdx
  Contents <- MCContents
  MaxUpdates = 1
SPECIFICATION Spec
INVARIANT AbstractionSound
INVARIANT CommitNormalizes
INVARIANT RoundTrip
