\* Commands on one NM connection, EXEC with every outcome; the user
\* stops after MaxCmds commands, so the connection then idles.
CONSTANTS
  OutLines = {"out", "code"}
  MaxOut = 2
  MaxCmds = 3
SPECIFICATION Spec
PROPERTY CommandCompletes
CHECK_DEADLOCK FALSE
