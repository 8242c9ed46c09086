SPECIFICATION Spec
CONSTANTS
  Rules <- MCRules
  Reserved = {0}
  AllowReserved = FALSE
  AddressBits = 2
  Answers <- MCAnswers
  Blank = ""
  DigitTokens = {"1", "2"}
  VersionTokens = {}
  IdTokens = {"1", "2"}
  MaxPerEndpoint = 0
  MaxTotal = 0
  MaxFormFields = 0
  MaxJSONDepth = 0
  MaxJSONFields = 0
  MaxPathSegments = 0
  NoAddress = NoAddress
  EmptyObject = EmptyObject
  NullValue = NullValue
  Tokens = {3}
  Sensitive = {3}
  NoOrigin = NoOrigin
  Unparsable <- MCUnparsable
  AuthProfiles <- MCAuthProfiles
  Identities <- MCIdentities
  MaxIdentities = 0
  Environment <- MCEnvironment
  Unset = Unset
  Nowhere = Nowhere
  CrawlerEnabled = TRUE
  CrawlerMaxDepth = 1
  CrawlerMaxPages = 5
  Commands <- MCCommands
  ConfigStart <- MCConfigStart
  Service <- MCService
  Sites <- MCMergedSites
  ObjectNames <- MCObjectNames
  CommandNames <- MCCommandNames
INVARIANTS
  FieldsGoToTheirForm
