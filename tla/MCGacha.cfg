SPECIFICATION FairSpec
CONSTANTS
  a1 = a1
  a2 = a2
  b1 = b1
  op = op
  MAX_TIERS = 2
  Wallets <- TwoPoolWallets
  Admins <- TwoPoolAdmins
  Buyers <- TwoPoolBuyers
  Operators <- TwoPoolOperators
  PoolConfigs <- TwoPoolConfigs
  Betas = {2}
  Givers <- NoGivers
  Endowment <- TwoPoolEndowment
  RentFloor = 1
  PoolRent = 1
  PullRent = 2
  MaxSlot = 2
  MaxPulls = 1
INVARIANTS
  VaultSolvent
  OnlyRevenueWithdrawn
PROPERTIES
  ImplementsEscrow
  ImplementsEscrowProgress
CHECK_DEADLOCK FALSE
