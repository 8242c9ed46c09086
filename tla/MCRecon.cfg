SPECIFICATION FairSpec
CONSTANTS
  Rules <- MCRules
  Reserved <- MCReserved
  AllowReserved = FALSE
  AddressBits = 3
  Answers <- MCAnswers
  StoreMayFail = TRUE
  HasDeadline = TRUE
  Jobs <- MCJobs
  Candidates <- MCCandidates
  Spells <- MCSpells
  MaxCIDRHosts = 2
  DNSRecords = TRUE
  Ports <- MCPorts
  Listening <- MCListening
  PortWorkers = 2
  Locations <- MCLocations
  MaxDiscoveryPages = 2
  MaxRedirects = 1
  CrawlEnabled = TRUE
  MaxDepth = 1
  MaxPages = 3
  StartPath <- Root
  Site <- MCSite
  Routes <- MCLocations
  Blank = ""
  DigitTokens = {"1", "2"}
  VersionTokens = {}
  IdTokens = {"1", "2"}
  MaxPerEndpoint = 2
  MaxTotal = 0
  MaxFormFields = 0
  MaxJSONDepth = 0
  MaxJSONFields = 2
  MaxPathSegments = 0
INVARIANTS
  ConnectionsInScope
  SessionStaysHome
  OncePerName
  NothingDroppedSilently
  CompletedCovers
  CrawlIsTraversal
  InputsAccountedFor



PROPERTY
  EverythingEnds
