CONSTANTS
  ann = ann  bob = bob  key = key  oak = oak  elm = elm  nft1 = nft1
  t1 = t1  t2 = t2  vault = vault  burger = burger
  m1 = m1  pm = pm  c1 = c1  c2 = c2  c3 = c3
  Players = {ann, bob}
  SessionKeys = {key}
  Levels = {oak, elm}
  GameMints = {nft1}
  MAX_ENERGY = 2
  TIME_TO_REFILL_ENERGY = 2
  MAX_WOOD_PER_TREE = 2
  MaxTime = 5
  MaxWood = 3
  Trees = {t1, t2}
  Wallets = {ann}
  Vault = vault
  Metadata = {burger}
  Capacity = 2
  BufferSize = 1
  MaxChanges = 4
  Holders = {ann, bob}
  TokenMints = {m1}
  PdaMint = pm
  CollectionMints = {c1, c2, c3}
  MintDecimals = {0, 1}
  AnchorDecimals = 1
  Scale <- ScaleUsed
  MintedAmounts = {1}
  U64_MAX = 3
SPECIFICATION Spec
INVARIANTS
  CountsAgree
  ProofsHold
  OneOfEach
PROPERTIES
  EnergyByTheSecond
  ImplementsLedger
CHECK_DEADLOCK FALSE
