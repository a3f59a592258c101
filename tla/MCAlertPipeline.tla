-------------------------- MODULE MCAlertPipeline --------------------------
(***************************************************************************)
(* Small instances of AlertPipeline for TLC.                               *)
(***************************************************************************)
EXTENDS AlertPipeline, TLC

CONSTANTS c1, c2, m1, m2, u1

Fails(m) == [mid |-> m, job |-> m, ok |-> FALSE]
Passes(m) == [mid |-> m, job |-> m, ok |-> TRUE]

(* Outages that begin and end within a batch and across batches.           *)
OutageBodies == {<<Fails(m1)>>, <<Fails(m1), Fails(m1)>>, <<Passes(m1)>>,
                 <<Fails(m1), Fails(m1), Passes(m1), Fails(m2)>>}

SoleOwner == [m \in Monitors |-> u1]
=============================================================================
