SPECIFICATION SessionsSpec
CONSTANTS
  j1 = j1
  j2 = j2
  file1 = file1
  link1 = link1
  Jobs = {j1, j2}
  Entries <- MCEntries
  Links = {link1}
  Chunks = 2
  Scenarios <- MCScenarios
  Nobody = Nobody
  c1 = c1
  c2 = c2
  target = target
  plain = plain
  bastion = bastion
  k1 = k1
  k2 = k2
  Commands = {c1, c2}
  Addresses = {target, plain, bastion}
  Keys = {k1, k2}
  PlainOf <- MCPlainOf
  Chains <- MCChains
  FirstKeys <- MCFirstKeys
  FirstLines <- MCFirstLines
  MaxKeyChanges = 1
  MaxOthers = 1
  s1 = s1
  s2 = s2
  s3 = s3
  Streams = {s1, s2, s3}
  Outputs <- MCOutputs
  LogHosts <- MCLogHosts
  MaxEvents = 2
  NoStream = NoStream
SYMMETRY Interchangeable
INVARIANTS NeverTorn FailureCleansUp OkIsComplete TrustIsGranted LinesSurvive NoOrphanStream ShowsWhatWasSaid
 
CHECK_DEADLOCK FALSE
