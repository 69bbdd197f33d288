SPECIFICATION FairSpec
CONSTANTS
  Day <- D
  Hour <- H
  Rupee = 100
  Policy <- ShippedPolicyBundle
  Episodes <- ShippedEpisodes
  DiagnosesOf <- ShippedDiagnoses
  TokensOf <- ShippedTokens
  Strategy <- NextAction
  Price <- ShippedPrice
  PartPayments <- ShippedPartPayments
  MaxSteps = 24
  ObservationWindow = 2880
INVARIANTS QuietHoursRespected ScenariosContained
PROPERTIES VerifiedBeforeRetry RefinesRecoveryEpisode
