SPECIFICATION Spec
CONSTANTS
  Clients = {c1, c2}
  Keys <- MCKeysOne
  HTSize = 1024
  Users = {u1, u2}
  Owner = u1
  MaxId = 3
  NoMeta = NoMeta
  c1 = c1
  c2 = c2
  u1 = u1
  u2 = u2
INVARIANT TrieMatchesTable
