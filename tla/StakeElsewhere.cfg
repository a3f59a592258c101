SPECIFICATION MirrorSpec
CONSTANTS
  r1 = r1
  r2 = r2
  pay = pay
  stake = stake
  topup = topup
  unstake = unstake
  close = close
  a1 = a1
  a2 = a2
  n1 = n1
  n2 = n2
  w1 = w1
  w2 = w2
  Requests = {r1, r2}
  Transfers = {pay, stake, topup, unstake, close}
  Kind <- KindOf
  Amount <- AmountOf
  Unit = 10
  Packs <- PacksSold
  Pubkeys = {w1, w2}
  Nodes = {n1, n2}
  Holder <- HolderOf
  MaxStarts = 1
  MaxFaults = 0
  Accounts = {a1, a2}
  Wallets = {w1, w2}
  Owner <- OwnerIs
  NoAccount = NoAccount
  Minimum <- TheMinimum
  MaxU64 = 1000
  Supply = 600
  Executes <- ExecutesOf
  OtherAmounts = {120}
  MaxOther = 1
SYMMETRY Interchangeable
INVARIANTS
  OnlyOwnerCounts
CHECK_DEADLOCK FALSE
