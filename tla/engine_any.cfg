SPECIFICATION FairSpec
CONSTANTS
  Day = 3
  Policy <- MCPolicy
  Episodes <- MCEpisodes
  DiagnosesOf <- MCDiagnoses
  TokensOf <- MCTokens
  Strategy <- MCStrategy
  Price <- MCPrice
  PartPayments <- MCPartPayments
  MaxSteps = 5
  ObservationWindow = 48
INVARIANTS TypeOK CapsHold SpendBounded RollingCaps ContactSpacing RungsWithinContacts CreditedOnce ForbiddenOnlyByMisdiagnosis EndsSettled
PROPERTIES RetriesSpaced ActsOnlyBeforeSelfRecovery NoWorkAfterVerdict WorkStopsNearHorizon Closes
