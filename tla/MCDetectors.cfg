SPECIFICATION Spec
CONSTANTS
  Detectors <- MCDetectors_
  Servers <- MCServers
  Targets <- MCTargets
  Cases <- MCCases
  Contexts <- MCContexts
  Internal = TRUE
  CompareIdentity = "second"
INVARIANT InertNeverReported
INVARIANT HighConfidenceShowsProof
INVARIANT ReactionIsReported
CHECK_DEADLOCK FALSE
