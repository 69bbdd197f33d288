SPECIFICATION Spec
CONSTANTS
  Workers = {w1}
  Setups <- OneWorkerDies
  Refs = {"r1"}
  Amount <- MCAmount
  Requests <- MCRequests
  RefOf <- MCRefOf
  Events <- MCEvents
INVARIANT AlreadyAppliedIsTrue
