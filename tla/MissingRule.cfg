\* One request, to delete a rule that is not there.
SPECIFICATION ConfigSpec
CONSTANTS
  TenantIds = {}
  RuleIds = {u1}
  Values = {v1}
  AdminRequests = {r1}
  MaxTime = 0
  MaxHups = 0
  Keep = Keep
  Bad = Bad
  NoRow = NoRow
  AnswersAsAsked = FALSE
PROPERTY MissingRuleNotFound
CHECK_DEADLOCK FALSE
