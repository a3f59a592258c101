--------------------------- MODULE MCCreditGate ---------------------------
(***************************************************************************)
(* Small instances of CreditGate for TLC.                                  *)
(***************************************************************************)
EXTENDS CreditGate, TLC

CONSTANTS c1, c2, u1, m1

OneOwner == [m \in Monitors |-> u1]

(* A pack, and a request that names a negative number of credits.          *)
SignedPacks == {1, -1}
=============================================================================
