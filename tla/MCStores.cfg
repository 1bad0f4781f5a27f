SPECIFICATION StoresSpec
CONSTANTS
  a = a
  b = b
  c = c
  secret = secret
  x1 = x1
  e1 = e1
  h1 = h1
  Servers = {a, b, c}
  Hosts = {h1}
  Secrets = {secret}
  Editors = {e1}
  Sessions = {x1}
  None = None
  Keep = Keep
  Owners = {s1, s2}
  Slots = {password, sudo}
  SecretValues = {old, new}
  Passwords = {p1, p2}
  Platforms = {TRUE, FALSE}
  Nil = Nil
  Unmentioned = Unmentioned
  MaxSalts = 3
SYMMETRY Symmetry
INVARIANTS BastionsAreSound NoSecretWithoutServer SessionsAreCurrent MemoryMatchesFile
PROPERTY ImplementsDurable
CHECK_DEADLOCK FALSE
