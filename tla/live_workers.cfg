SPECIFICATION Spec
CONSTANTS
  Workers = {w1, w2}
  Setups <- NobodyDies
  Refs = {"r1"}
  Amount <- MCAmount
  Requests <- MCRequests
  RefOf <- MCRefOf
  Events <- MCEvents
PROPERTY TerminalStaysTerminal
