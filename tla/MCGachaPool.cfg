SPECIFICATION Spec
CONSTANTS
  a1 = a1
  a2 = a2
  b1 = b1
  op = op
  MAX_TIERS = 2
  Wallets <- OnePoolWallets
  Admins <- OnePoolAdmins
  Buyers <- OnePoolBuyers
  Operators <- OnePoolOperators
  PoolConfigs <- OnePoolConfigs
  Betas = {0, 2}
  Givers <- OneGiver
  Endowment <- OnePoolEndowment
  RentFloor = 1
  PoolRent = 1
  PullRent = 1
  MaxSlot = 2
  MaxPulls = 2
INVARIANTS
  TypeOK
  AccountsAddUp
  RevealMatchesRegistry
  OnePrizePerClaim
  OverdueIsRefundable
PROPERTIES
  PullNeverRegresses
CHECK_DEADLOCK FALSE
