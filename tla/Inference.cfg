SPECIFICATION InferenceSpec
CONSTANTS
  Alphabet <- MCAlphabet
  TextOf = 1
  Subtags <- MCSubtags
  afExprMaxDepth = 3
  RuleLimit = 3
  MaxCalls = 2
  Cases <- MCCases
  Literals <- MCLiterals
  BNodes <- MCBNodes
  Rank <- MCRank
  Inputs <- MCInputs
  Regimes <- MCRegimes
  RuleSet <- MCSets
  RoundLimit = 3
INVARIANTS ShaclReportExact ExpansionExact ResultStable
PROPERTIES ShaclRulesExact ExpansionTerminates
CHECK_DEADLOCK FALSE
