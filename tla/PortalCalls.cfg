CONSTANTS
  INT64_MAX = 3
  Versions = {4, 5}
  Calls <- MCCalls
  Payloads <- MCPayloads
  Converted <- ToVariant
  Means <- SameMeaning
  MaxCalls = 2
  MaxRestarts = 1
  MaxActions = 2
  MaxLength = 4
SPECIFICATION Spec
CHECK_DEADLOCK FALSE
INVARIANTS TypeOK AnswersAreThePortals FailuresAreReported ActionsArrive ConversionIsFaithful SchemesFollowRFC
