\* A script whose output may start with an error code.
CONSTANTS
  OutLines = {"out", "code"}
  MaxOut = 2
  MaxCmds = 3
SPECIFICATION Spec
PROPERTY RepliesMatchCommands
CHECK_DEADLOCK FALSE
