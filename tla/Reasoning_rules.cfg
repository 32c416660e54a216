SPECIFICATION ExpansionSpec
CONSTANTS
  Alphabet <- MCAlphabet
  TextOf = 1
  Subtags <- MCSubtags
  afExprMaxDepth = 3
  RuleLimit = 3
  MaxCalls = 2
  Cases <- MCCases
  Literals <- MCLiterals
  BNodes <- MCBNodes
  Rank <- MCRank
  Inputs <- MCInputs
  Regimes <- MCRegimes
  RuleSet <- MCSets
  RoundLimit = 3
INVARIANT DocumentedRules
CHECK_DEADLOCK FALSE
