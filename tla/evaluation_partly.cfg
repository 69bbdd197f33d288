SPECIFICATION Spec
CONSTANTS
  Refs <- MCRefs
  Amount <- MCAmount
  Shares <- MCShares
  Strata = 2
  Text <- MCText
  MinPurity = 80
  MinSupport = 2
  MinMass = 50
  Stream <- MCStream
  Window = 60
  MinFailures = 2
  SpikeLift = 2
  Case <- MCCase
  Queue <- MCQueue
  Resolved <- MCResolved
  MaxHistory = 4
  Trained <- MCTrained
  Affordable = 1
INVARIANT ReportComes
\* A history of MaxHistory exemplars that is not in Trained goes no further.
CHECK_DEADLOCK FALSE
