CONSTANTS
  mak = mak  tak = tak  tokA = tokA  tokB = tokB
  Programs = {"Anchor", "Native", "Pinocchio"}
  Wallets = {mak, tak}
  Makers = {mak}
  Ids = {0}
  Bumps = {254, 255}
  CANONICAL = 255
  Mints = {tokA, tokB}
  Terms <- TermsTried
  Fresh <- OfOffers
  Prefunded <- Funded
  Givers = {tak}
  Holding <- Start
  Endowment <- Purses
  OfferRent = 1
  MaxLamports = 1
  MaxTokens = 2
  TokenRent = 2
  RentFloor = 1
SPECIFICATION Spec
INVARIANTS
  AccountsAddUp
  MakerCanRefund
  OpenToTakers
PROPERTIES
  ImplementsSwap
CHECK_DEADLOCK FALSE
