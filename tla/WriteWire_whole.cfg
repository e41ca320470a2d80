\* Whole sends per recv (spec section 2): the end of every session.
CONSTANTS
  Lines <- MCLines
  MaxLines = 3
  Coalesce = FALSE
SPECIFICATION Spec
PROPERTIES
  SessionEndsAfterETIRW
