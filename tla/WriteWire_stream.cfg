\* recv_message on a byte stream: sends coalesce or split.
CONSTANTS
  Lines <- MCLines
  MaxLines = 3
  Coalesce = TRUE
SPECIFICATION Spec
PROPERTIES
  SessionEndsAfterETIRW
