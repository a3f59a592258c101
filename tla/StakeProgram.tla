---------------------------- MODULE StakeProgram ----------------------------
(***************************************************************************)
(* The Anchor program of the node accounts (program/lib.rs): one account   *)
(* per wallet and email with its rewards and its stake, the staking vault  *)
(* and the treasury.  An instruction is atomic: when a check, a checked    *)
(* addition or the token transfer at its end fails, nothing has changed,   *)
(* so each is one action and its checks are its guard.                     *)
(*                                                                         *)
(* Who signs is not state: the owner an address was derived from must sign *)
(* to open the account, to withdraw and to close it, the backend to add a  *)
(* reward; to stake into it whoever pays signs, and to claim a reward      *)
(* nobody.  So every instruction takes the wallet w it pays or is paid by, *)
(* any wallet.  The other token accounts passed are the program's vault    *)
(* and treasury.  unstake_request_at is set to 0 and to nothing else and   *)
(* is left out.                                                            *)
(* Operators named Bug... are mutants of the definition after them.        *)
(***************************************************************************)
EXTENDS Integers, FiniteSets, Functions

CONSTANTS
  Accounts,      \* addresses of node accounts
  Wallets,       \* token accounts of users
  NoAccount,     \* an address with no account, or a closed one
  Minimum,       \* MINIMUM_VALIDATOR_STAKE
  MaxU64,        \* the largest u64
  Supply         \* tokens a wallet begins with

ASSUME AccountsAssumption == IsFiniteSet(Accounts)
ASSUME PoolAssumption == "vault" \notin Wallets /\ "treasury" \notin Wallets
ASSUME AmountAssumption ==
  /\ MaxU64 \in Nat /\ Supply \in 0..MaxU64 /\ Minimum \in 1..MaxU64

U64 == 0..MaxU64
Account == [reward : U64, staked : U64, validator : BOOLEAN]

ASSUME NoAccountAssumption == NoAccount \notin Account

VARIABLES
  account,     \* account[a]: reward_balance, staked_amount, is_validator
  tokens,      \* token balances of the wallets, the vault and the treasury
  granted,     \* history: rewards ever added to an address
  claimed      \* history: rewards ever paid out of it

chainVars == <<account, tokens, granted, claimed>>
histories == <<granted, claimed>>

Fresh == [reward |-> 0, staked |-> 0, validator |-> FALSE]
Open(a) == account[a] # NoAccount

ChainInit ==
  /\ account = [a \in Accounts |-> NoAccount]
  /\ tokens = [p \in Wallets \cup {"vault", "treasury"} |-> IF p \in Wallets THEN Supply ELSE 0]
  /\ granted = [a \in Accounts |-> 0] /\ claimed = [a \in Accounts |-> 0]

(* token::transfer.                                                        *)
Transfer(from, to, amount) ==
  /\ tokens[from] >= amount
  /\ tokens' = [tokens EXCEPT ![from] = @ - amount, ![to] = @ + amount]

-----------------------------------------------------------------------------
InitNode(a) ==
  /\ ~Open(a) /\ account' = [account EXCEPT ![a] = Fresh]
  /\ UNCHANGED <<tokens, granted, claimed>>

AddReward(a, amount) ==
  /\ Open(a) /\ account[a].reward + amount \in U64
  /\ account' = [account EXCEPT ![a].reward = @ + amount]
  /\ granted' = [granted EXCEPT ![a] = @ + amount]
  /\ UNCHANGED <<tokens, claimed>>

BugClaimReward(a, w, amount) ==
  /\ Open(a) /\ amount > 0 /\ account[a].reward >= amount
  /\ Transfer("treasury", w, amount)
  /\ claimed' = [claimed EXCEPT ![a] = @ + amount]
  /\ UNCHANGED <<account, granted>>

(* To the token account the transaction names.                             *)
ClaimReward(a, w, amount) ==
  /\ Open(a) /\ amount > 0 /\ account[a].reward >= amount
  /\ account' = [account EXCEPT ![a].reward = @ - amount]
  /\ Transfer("treasury", w, amount)
  /\ claimed' = [claimed EXCEPT ![a] = @ + amount]
  /\ UNCHANGED granted

BuyProduct(w, amount) ==
  /\ amount > 0 /\ Transfer(w, "treasury", amount)
  /\ UNCHANGED <<account, granted, claimed>>

(* To the admin's token account, which is outside of the model.            *)
WithdrawTreasury(amount) ==
  /\ tokens["treasury"] >= amount
  /\ tokens' = [tokens EXCEPT !["treasury"] = @ - amount]
  /\ UNCHANGED <<account, granted, claimed>>

(* A first stake must reach the minimum.  Any wallet may pay it.           *)
StakeTokens(a, w, amount) ==
  LET total == account[a].staked + amount
  IN  /\ Open(a) /\ ~account[a].validator
      /\ total \in U64 /\ total >= Minimum
      /\ account' = [account EXCEPT ![a].staked = total, ![a].validator = TRUE]
      /\ Transfer(w, "vault", amount)
      /\ UNCHANGED histories

(* A top-up need not.                                                      *)
AddStake(a, w, amount) ==
  LET total == account[a].staked + amount
  IN  /\ Open(a) /\ total \in U64
      /\ account' = [account EXCEPT ![a].staked = total,
                                    ![a].validator = @ \/ total >= Minimum]
      /\ Transfer(w, "vault", amount)
      /\ UNCHANGED histories

BugWithdrawStake(a, w, amount) ==
  LET rest == account[a].staked - amount
  IN  /\ Open(a) /\ rest >= 0
      /\ account' = [account EXCEPT ![a].staked = rest, ![a].validator = @ /\ rest > 0]
      /\ Transfer("vault", w, amount)
      /\ UNCHANGED histories

(* All of the stake, or as much as leaves the minimum.                     *)
WithdrawStake(a, w, amount) ==
  LET rest == account[a].staked - amount
  IN  /\ Open(a) /\ rest >= 0
      /\ rest > 0 => rest >= Minimum
      /\ account' = [account EXCEPT ![a].staked = rest, ![a].validator = @ /\ rest > 0]
      /\ Transfer("vault", w, amount)
      /\ UNCHANGED histories

BugDeleteAccount(a, w, amount) ==
  /\ Open(a) /\ account[a].reward = 0
  /\ account' = [account EXCEPT ![a] = NoAccount]
  /\ Transfer("vault", w, amount)
  /\ UNCHANGED histories

(* Pays the whole stake back and closes the account.                       *)
DeleteAccount(a, w, amount) ==
  /\ Open(a) /\ account[a].reward = 0 /\ account[a].staked = amount
  /\ account' = [account EXCEPT ![a] = NoAccount]
  /\ Transfer("vault", w, amount)
  /\ UNCHANGED histories

(* The instructions that move no stake, and those that do.                 *)
Earning(amounts) ==
  \/ \E a \in Accounts : InitNode(a)
  \/ \E n \in amounts :
       \/ WithdrawTreasury(n) \/ \E w \in Wallets : BuyProduct(w, n)
       \/ \E a \in Accounts : AddReward(a, n) \/ \E w \in Wallets : ClaimReward(a, w, n)

Staking(accounts, amounts) ==
  \E a \in accounts, w \in Wallets, n \in amounts :
    \/ StakeTokens(a, w, n) \/ AddStake(a, w, n)
    \/ WithdrawStake(a, w, n) \/ DeleteAccount(a, w, n)

ChainNext == Earning(U64) \/ Staking(Accounts, U64)
ChainSpec == ChainInit /\ [][ChainNext]_chainVars

-----------------------------------------------------------------------------
(* The shape of the state.                                                 *)
ChainTypeOK ==
  /\ account \in [Accounts -> Account \cup {NoAccount}]
  /\ tokens \in [Wallets \cup {"vault", "treasury"} -> Nat]
  /\ granted \in [Accounts -> Nat] /\ claimed \in [Accounts -> Nat]

StakeOf(a) == IF Open(a) THEN account[a].staked ELSE 0
RewardOf(a) == IF Open(a) THEN account[a].reward ELSE 0

(* The vault holds exactly the stakes of the open accounts, so each can    *)
(* always be paid back, whoever stakes into which account, withdraws or    *)
(* closes one.                                                             *)
VaultBacked == tokens["vault"] = SumFunction([a \in Accounts |-> StakeOf(a)])

(* An account is a validator exactly while its stake reaches the minimum,  *)
(* whichever of the two staking instructions and withdrawals led there.    *)
ValidatorHasMinimum ==
  \A a \in Accounts : Open(a) => (account[a].validator <=> account[a].staked >= Minimum)

(* No reward is paid twice or lost, closing and reopening included.        *)
RewardsKept == \A a \in Accounts : granted[a] = claimed[a] + RewardOf(a)
=============================================================================
