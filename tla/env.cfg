CONSTANTS
  CredKeys <- MCCredKeys
  PlainKeys <- MCPlainKeys
  DefaultedKeys <- MCPlainKeys
  Values <- MCValues
  LinkKeys <- MCLinkKeys
  LongValue = "v256"
  TooLong = "v257"
  ApiKey = "API_KEY"
  Default = "v1"
  MaxCommands = 2
  MaxCrashes = 2
SPECIFICATION Spec
CHECK_DEADLOCK FALSE
INVARIANTS EnvInv RegistrationMatches
PROPERTY AnsweredIsBack
