CONSTANTS
  amy = amy  ben = ben  guy = guy  a1 = a1  a2 = a2  a3 = a3  m1 = m1  m2 = m2  k = k
  TokenAccounts = {a1, a2, a3}
  Wallets = {amy, ben, guy}
  ImmutableOwner = {a1, a2}
  InitialOwner <- Owners
  InitialTokens <- Tokens
  PermanentDelegates <- PermanentUsed
  TransferAmounts = {1, 2}
  Approvals <- ApprovalsUsed
  NewOwners <- NewOwnersUsed
  ListAuthorities = {amy, guy}
  Keypairs = {k}
  ForeignCounts = {0, 1}
  ConfigRent = 1
  TransferHookAuthority = guy
  WalletBlockRent = 1
  EmptyRent = 1
  SourceRent = 2
  BothRent = 3
  Purse = 4
  ConfigPayers = {amy}
  UpdateAuthority = guy
  Thresholds = {1, 2}
  Marked = {amy, ben}
  FirstMetadata <- MetadataUsed
  FirstAdmins = {amy, ben}
  ListMints = {m1, m2}
  Hooked = m1
  ListPayers = {amy, ben}
  WrappedSol <- WrappedUsed
  Allowances = {0, 2}
SPECIFICATION Spec
INVARIANTS
  RecordsAgree
  DecodesAsConfigured
PROPERTIES
  MovesPermitted
CHECK_DEADLOCK FALSE
