\* End of standard input in the middle of a session.
CONSTANTS
  Lines <- MCLines
  MaxLines = 3
  Coalesce = FALSE
SPECIFICATION Spec
PROPERTIES
  SessionEnds
