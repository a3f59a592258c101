--------------------------- MODULE MCStakeMirror ---------------------------
(***************************************************************************)
(* Small instances of StakeMirror for TLC.                                 *)
(***************************************************************************)
EXTENDS StakeMirror, TLC

CONSTANTS r1, r2, pay, stake, topup, unstake, close, a1, a2, n1, n2, w1, w2

(* A stake above the minimum, a top-up, a withdrawal that leaves exactly   *)
(* the minimum after the top-up and too little before it, and the closing  *)
(* of the account with what was staked first.                              *)
KindOf == [t \in {pay, stake, topup, unstake, close} |->
  CASE t = pay -> "payment" [] t \in {stake, topup} -> "stake" [] OTHER -> "unstake"]
AmountOf == (pay :> 120) @@ (stake :> 21 * Unit) @@ (topup :> Unit) @@ (unstake :> 2 * Unit)
              @@ (close :> 21 * Unit)

(* All on the account of the first wallet; another wallet pays the top-up. *)
OnAccount(name, w) == [instruction |-> name, account |-> a1, wallet |-> w]
ExecutesOf ==
  (pay :> OnAccount("buy_product", w1)) @@ (stake :> OnAccount("stake_tokens", w1))
    @@ (topup :> OnAccount("add_stake", w2)) @@ (unstake :> OnAccount("withdraw_stake", w1))
    @@ (close :> OnAccount("delete_account", w1))

(* Two wallets with an account and a row each.                             *)
OwnerIs == (a1 :> w1) @@ (a2 :> w2)
HolderOf == (n1 :> w1) @@ (n2 :> w2)
TheMinimum == MinimumValidatorStake

PacksSold == {[amount |-> 120, credits |-> 1]}

Interchangeable == Permutations(Requests)
=============================================================================
