\* Three entrants of all kinds, lamports from outside: the tally, its winner and
\* the pot.
CONSTANTS
  adm = adm  ann = ann  bob = bob  out = out
  Wallets = {adm, ann, bob, out}
  Admins = {adm}
  Entrants = {adm, ann, bob}
  Givers = {out}
  LockTimes = {1}
  MaxTime = 1
  Entries <- EntriesTried
  Outcomes <- MixedTruth
  GoalTotals = {0, 2}
  Endowment <- OneGift
  LEAVES = 4
  ROUND_WEIGHT <- SmallWeights
  ENTRY_FEE = 3
  RentFloor = 1
  BracketRent = 2
  SetupRent = 1
  U16_MAX = 2
  U32_MAX = 3
SPECIFICATION Spec
INVARIANTS
  TypeOK
  WinnerRanksFirst
  TallyDecides
  StakesKept
PROPERTIES
  ImplementsContest
CHECK_DEADLOCK FALSE
