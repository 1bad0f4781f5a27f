SPECIFICATION TrustSpec
CONSTANTS
  c1 = c1
  c2 = c2
  target = target
  plain = plain
  bastion = bastion
  k1 = k1
  k2 = k2
  Commands = {c1, c2}
  Addresses = {target, plain, bastion}
  Keys = {k1, k2}
  PlainOf <- MCPlainOf
  Chains <- MCApart
  FirstKeys <- MCFirstKeys
  FirstLines <- MCFirstLines
  MaxKeyChanges = 0
  MaxOthers = 0
SYMMETRY Commanders
INVARIANT TrustIsReviewed
CHECK_DEADLOCK FALSE
