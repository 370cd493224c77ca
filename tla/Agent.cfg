SPECIFICATION FairSpec
CONSTANTS
  MaxTokens = 3
  TailLength = 2
  NoticeSize = 1
  MaxAttempts = 2
  Adapter = "gemini"
  a1 = a1
  a2 = a2
  Agents <- TwoAgents
  MaxIterations = 2
  Budget = 1
  MaxCost = 1
  MaxCalls <- CallsOf
  EarlierSpend = {0}
  Remembering = {a1}
INVARIANTS
  OvershootBounded
  EveryCallIsAnswered
  PadFollowsConversation
PROPERTIES
  AgentEnds
CHECK_DEADLOCK FALSE
