SPECIFICATION Spec
CONSTANTS
  MaxGroups = 2
  MaxItems = 2
  Digest <- MCDigest
  Size <- MCSize
  IdDigest <- MCIdDigest
  MaxPackaged = 3
  Reading <- MCReading
  EvidenceDigest <- MCEvidenceDigest
  Wordy = {5}
  MaxViews = 4
  MaxRelations = 4
  MaxChainLength = 2
  MaxCandidates = 1
  MaxFrequency = 2
  Mentions <- MCMentions
  Identifiers = {40}
  Tokens = {50}
  LongHosts = {2}
  ChainDigest <- MCChainDigest
  Scenarios <- MCScenarios
  MaxFindings = 2
CHECK_DEADLOCK FALSE
INVARIANTS
  InjectionLeaksFlow
