\* Weights up to four for up to three tiers; the tree and the weights of the code.
CONSTANTS
  MAX_TIERS = 3
  MaxWeight = 4
  Rounds = 2
  LEAVES = 16
  ROUND_WEIGHT <- CodeWeights
  PlayedOut <- SomeSides
SPECIFICATION RulesSpec
INVARIANTS
  SelectsByInterval
  AcceptsExactlyThePlayable
  ScoreByReach
CHECK_DEADLOCK FALSE
