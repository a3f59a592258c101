SPECIFICATION FairSpec
CONSTANTS
  r1 = r1
  r2 = r2
  r3 = r3
  pay = pay
  stake = stake
  unstake = unstake
  n1 = n1
  w1 = w1
  w2 = w2
  Requests = {r1, r2}
  Transfers = {pay, stake, unstake}
  Kind <- KindOf
  Amount <- AmountOf
  Unit = 10
  Packs <- PacksSold
  Pubkeys = {w1, w2}
  Nodes = {n1}
  Holder <- HolderOf
  MaxStarts = 4
  MaxFaults = 1
INVARIANTS
  CreditedOnce
  OnlyFailureLosesCredit
  StakedMeansRecorded
PROPERTIES
  PaymentCredited
CHECK_DEADLOCK FALSE
