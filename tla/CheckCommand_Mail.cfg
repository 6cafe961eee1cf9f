CONSTANTS
  Rules <- TwoRules
  NoRule = NoRule
  EmailTo <- Addresses
  GlobalEmail <- Global
  MailNoViolations = FALSE
  Findings <- SomeFindings
  Checks <- SomeChecks
  MaxErrors = 1
SPECIFICATION CheckSpec
PROPERTY MailFailureKeepsReport
CHECK_DEADLOCK FALSE
