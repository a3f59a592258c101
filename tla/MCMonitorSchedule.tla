------------------------- MODULE MCMonitorSchedule -------------------------
(* Four monitors of two owners, three of them on one host.                 *)
EXTENDS MonitorSchedule, TLC

CONSTANTS m1, m2, m3, m4, o1, o2, d1, d2

OwnerOf == m1 :> o1 @@ m2 :> o1 @@ m3 :> o2 @@ m4 :> o2
DomainOf == m1 :> d1 @@ m2 :> d1 @@ m3 :> d1 @@ m4 :> d2

Interchangeable == Permutations(Nodes) \cup Permutations(Handlers)
=============================================================================
