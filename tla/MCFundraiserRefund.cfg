CONSTANTS
  x = x  y = y  ann = ann  bob = bob  tokA = tokA  tokB = tokB
  u1 = u1  u2 = u2  k1 = k1  k2 = k2  acc1 = acc1  acc2 = acc2  accOut = accOut
  Amms = {}
  Pools = {}
  Traders = {}
  Givers = {}
  MINIMUM_LIQUIDITY = 2
  Fees = {0, 5000, 10000}
  Amounts = {1, 4}
  MinOutputs = {0, 2}
  Holdings = 5
  MaxReserve = 7
  Contributors = {ann, bob}
  RaisedMints = {tokA, tokB}
  Decimals <- DecimalsUsed
  Targets = {2, 4}
  Durations = {0, 1, 3}
  Contributions = {0, 1, 2, 3}
  Savings = 3
  SECONDS_TO_DAYS = 2
  U16 = 4
  MAX_CONTRIBUTION_PERCENTAGE = 50
  MaxSeconds = 8
  Claimers = {}
  Snapshots <- SnapshotsUsed
  AirdropAmounts = {0, 3, 4, 9}
  MaxIndex = 9
  UserAccounts = {u1, u2}
  Authorities = {}
  EthKeys = {k1, k2}
  DelegateAccounts = {acc1, acc2, accOut}
  OwnerOf <- Owners
  Deposited <- Deposits
  Signable <- SignableUsed
  SignedAmounts = {1}
  MaxNonce = 2
  FeePayers = {}
  FeeHolders = {ann, bob}
  FeeRates = {3}
  MaximumFees = {1, 4}
  FeeDecimals = {0}
  FEE_WHOLE = 4
  INITIAL_FEE = 1
  UPDATED_FEE = 2
  FeeAmounts = {1, 3}
  MaxIssued = 3
  MaxEpoch = 4
  MaxNotices = 3
SPECIFICATION Spec
INVARIANTS
  RefundsAreOwn
CHECK_DEADLOCK FALSE
