CONSTANTS
  Owners = {s1, s2}
  Slots = {password, sudo}
  SecretValues = {old, new}
  Passwords = {p1, p2}
  Platforms = {TRUE, FALSE}
  Nil = Nil
  Unmentioned = Unmentioned
  MaxSalts = 3
SPECIFICATION VaultSpec
PROPERTY WritesAreAtomic
