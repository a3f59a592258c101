----------------------------- MODULE MCPayments -----------------------------
(***************************************************************************)
(* Small instances of Payments for TLC.                                    *)
(***************************************************************************)
EXTENDS Payments, TLC

CONSTANTS r1, r2, r3, pay, stake, unstake, n1, w1, w2

KindOf == (pay :> "payment") @@ (stake :> "stake") @@ (unstake :> "unstake")

(* Exactly the minimum staked, one token of it withdrawn.                  *)
AmountOf == (pay :> 2) @@ (stake :> 20 * Unit) @@ (unstake :> Unit)

(* A single token, far from the minimum.                                   *)
SmallAmountOf == (pay :> 2) @@ (stake :> 3 * Unit) @@ (unstake :> Unit)

(* The pack that was paid for, one that costs more than was paid, and one  *)
(* whose credits are taken away.                                           *)
PacksSold == {[amount |-> 2, credits |-> 1], [amount |-> 3, credits |-> 2],
              [amount |-> 2, credits |-> -1]}

(* One wallet has a row, the other has none.                               *)
HolderOf == n1 :> w1
=============================================================================
