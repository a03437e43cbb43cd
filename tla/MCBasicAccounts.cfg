CONSTANTS
  Users = {ann, bob}
  Keypairs = {k1, k2}
  Bumps = {254, 255}
  CANONICAL = 255
  RENT_BASE = 2
  LEN = 2
  ENHANCED_LEN = 3
  WORK_LEN = 2
  Lengths = {1, 2, 3}
  Funds = {1, 2}
  Endowment = 6
SPECIFICATION BasicSpec
INVARIANTS
  RentsKept
  
CHECK_DEADLOCK FALSE
