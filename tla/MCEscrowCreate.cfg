\* What the native take_offer's comments say of the accounts that receive.
CONSTANTS
  mak = mak  tak = tak  tokA = tokA  tokB = tokB
  Programs = {"Native"}
  Wallets = {mak, tak}
  Makers = {mak}
  Ids = {0}
  Bumps = {254, 255}
  CANONICAL = 255
  Mints = {tokA, tokB}
  Terms <- TermsTried
  Fresh <- OfOffers
  Prefunded <- Funded
  Givers = {tak}
  Holding <- Start
  Endowment <- Purses
  OfferRent = 1
  MaxLamports = 1
  MaxTokens = 2
  TokenRent = 2
  RentFloor = 1
SPECIFICATION Spec
INVARIANTS
  CreatedIfNeeded
CHECK_DEADLOCK FALSE
