SPECIFICATION Spec
CONSTANTS
  Questions <- MCQuestions
  Reading <- MCReading
  RiskSeen <- MCRiskSeen
  RulesSay <- MCRulesSay
  Candidates <- MCCandidates
  Ladder <- MCLadder
  MaxRetries = 1
  Attempts = 2
  Replies <- MCReplies
  Rate <- MCRate
  Tokens = {1, 2}
  MaxTokens = 2
  Unit = 3
  Budget = 4
  MaxEpisodes = 3
  MaxRuns = 2
INVARIANTS TypeOK CallsBounded BudgetHeld BookedOnce AnswersKept
PROPERTY Answered
