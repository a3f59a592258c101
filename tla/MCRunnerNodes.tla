--------------------------- MODULE MCRunnerNodes ---------------------------
(***************************************************************************)
(* Small instances of RunnerNodes for TLC.                                 *)
(***************************************************************************)
EXTENDS RunnerNodes

CONSTANTS e1, e2, w1, w2, n1, n2

Claim(e, o, n) == [email |-> e, owner |-> o, node |-> n]

(* An account with two nodes, one of which another account registers for   *)
(* its own wallet, before or after the first account does: rows move       *)
(* between the wallets, and a wallet may hold rows of both accounts.       *)
TakenNode == {Claim(e1, w1, n1), Claim(e1, w1, n2), Claim(e2, w2, n1)}

(* One account registers its node again from another wallet.               *)
MovedNode == {Claim(e1, w1, n1), Claim(e1, w2, n1)}
=============================================================================
