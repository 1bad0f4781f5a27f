SPECIFICATION Spec
CONSTANTS
  c1 = c1
  c2 = c2
  backup = backup
  report = report
  comment = comment
  other = other
  p1 = p1
  p2 = p2
  secret = secret
  Clients = {c1, c2}
  Texts <- MCTexts
  Comments = {comment}
  Payload <- MCPayload
  Password = secret
  MaxOutput = 1
  DefaultLimit = 2
  Produced = 3
  OtherText = other
  Scenarios <- MCScenarios
INVARIANTS PasswordStaysApart CronLinesKept
PROPERTIES OkIsWhole CancelEnds
CHECK_DEADLOCK FALSE
