-------------------------- MODULE MCAlertConsumer --------------------------
(***************************************************************************)
(* Small instances of AlertConsumer for TLC.                               *)
(***************************************************************************)
EXTENDS AlertConsumer

CONSTANTS c1, c2, m1, m2

Fails(m) == [mid |-> m, job |-> m, ok |-> FALSE]
Passes(m) == [mid |-> m, job |-> m, ok |-> TRUE]
ByJob(m, k) == [mid |-> NoMonitor, job |-> m, ok |-> k]

(* Every shape handleDelivery tells apart: not JSON, empty, a result known *)
(* only by its job, one that names nothing, and batches about one monitor  *)
(* and about two.                                                          *)
ShapeBodies ==
  {Malformed, << >>, <<ByJob(m1, FALSE)>>, <<ByJob(NoMonitor, TRUE), Passes(m1)>>,
   <<Fails(m1), Fails(m2)>>, <<Fails(m2), Passes(m1), Fails(m2)>>}

(* A failing and a passing check of one monitor, a body that is not JSON,  *)
(* and a batch whose first result can never be looked up.                  *)
FaultBodies ==
  {Malformed, <<Fails(m1)>>, <<Passes(m1)>>, <<Fails(m2), Passes(m1)>>}

(* A batch about two monitors, so that one result can fail alone.          *)
MixedBodies == {<<Fails(m1), Passes(m2)>>, <<Passes(m1)>>}
=============================================================================
