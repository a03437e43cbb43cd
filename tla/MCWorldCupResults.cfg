\* Two entrants and a fair schedule: everything the admin could post, in every order.
CONSTANTS
  adm = adm  ann = ann  bob = bob  out = out
  Wallets = {adm, ann, bob, out}
  Admins = {adm}
  Entrants = {ann, bob}
  Givers = {}
  LockTimes = {1}
  MaxTime = 1
  Entries <- TwoEntries
  Outcomes <- AnyOutcome
  GoalTotals = {0, 2}
  Endowment <- Rich
  LEAVES = 4
  ROUND_WEIGHT <- SmallWeights
  ENTRY_FEE = 3
  RentFloor = 1
  BracketRent = 2
  SetupRent = 1
  U16_MAX = 2
  U32_MAX = 3
SPECIFICATION FairSpec
INVARIANTS
  ResultsPlayable
  OracleNeverStuck
PROPERTIES
  FairPlay
  NeverStalls
CHECK_DEADLOCK FALSE
