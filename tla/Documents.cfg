SPECIFICATION DocumentsSpec
CONSTANTS
  Cases <- MCCases
  MaxHops = 2
  MaxNestDepth = 2
  MaxDepth = 6
  BadPrefixes = {"-"}
  BadLocals = {"+", "|", "^A"}
  BadPieces = {"|", "^A"}
  NotXMLChars = {"^A"}
  BadLabels = {3}
  OddLabels = {9}
  Kinds = {"good", "blank", "bad", "long", "inconvertible"}
  MaxLines = 4
  nodeBatchSize = 2
  MaxRoom = 4
INVARIANTS SyntaxRoundTrip ParseStopsAtFailure NodesKept StopDelivers
