\* Two handler threads; the NM may be killed and restarted at any step.
CONSTANTS
  c1 = c1
  c2 = c2
  n1 = n1
  n2 = n2
  u1 = u1
  u2 = u2
  Clients = {c1, c2}
  Names = {n1, n2}
  NameOrder <- MCNameOrder
  Users = {u1, u2}
  MaxVer = 12
SPECIFICATION Spec
INVARIANT UsersUnique
