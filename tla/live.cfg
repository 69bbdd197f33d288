SPECIFICATION FairSpec
CONSTANTS
  Workers = {w1, w2}
  Setups <- MCSetups
  Refs = {"r1"}
  Amount <- MCAmount
  Requests <- MCRequests
  RefOf <- MCRefOf
  Events <- MCEvents
INVARIANTS TypeOK RecordedMeansApplied OneReceiptBooked WaitingHasLink NothingBookedTwice
PROPERTIES StaysTerminalUnraced QueueDrains
