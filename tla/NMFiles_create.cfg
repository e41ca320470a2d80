CONSTANTS
  Clients = {c1, c2}
  Users = {u1, u2}
  UserOf <- MCUserOfTwo
  Names = {f1}
  SSes = {s1, s2}
  NoMeta = NoMeta
  NoSS = NoSS
  MaxGen = 2
  Socks = {k1, k2, k3}
  NoSock = NoSock
  k1 = k1
  k2 = k2
  k3 = k3
  c1 = c1
  c2 = c2
  c3 = c3
  u1 = u1
  u2 = u2
SPECIFICATION Spec
SYMMETRY MCSymmetry
PROPERTY CreateReplyMeansCreated
