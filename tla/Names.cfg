SPECIFICATION FairSpec
CONSTANTS
  SntpAttempts = 2
  SntpTimeout = 2
  MaxRetries = 2
  Timeout = 1
  DnsAnswers <- MCAnswers
  SntpReplies <- MCReplies
  Late = 1
  MaxTime = 26
INVARIANT RequestOwned
INVARIANT OneAnswer
INVARIANT DatagramsReadBack
PROPERTY AnswerComes
CHECK_DEADLOCK FALSE
