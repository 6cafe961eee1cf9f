CONSTANTS
  Rules <- TwoRules
  NoRule = NoRule
  EmailTo <- Addresses
  GlobalEmail <- Global
  MailNoViolations = FALSE
  Findings <- SomeFindings
  Checks <- SomeChecks
  MaxErrors = 1
SPECIFICATION InteractiveSpec
INVARIANTS ErrorsUnderTheirRule StatusTellsReport QuietMeansTold EditAsMarked
PROPERTY CheckEnds
CHECK_DEADLOCK FALSE
