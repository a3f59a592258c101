---------------------------- MODULE TwoPacketRule ----------------------------
(***************************************************************************)
(* What the alert consumer promises to the owner of a monitor, without     *)
(* queues, rows or workers: the checks reported for the monitor are judged *)
(* once each and in order, the monitor is declared down exactly while the  *)
(* last two of them failed, and each change of that verdict, nothing else, *)
(* is notified once before the next check is judged.                       *)
(***************************************************************************)
EXTENDS Naturals

CONSTANT Monitors

(* A check is named by the batch that reported it and its place in it.     *)
VARIABLES
  reported,   \* reported[m]: the outcome of each check reported so far
  judged,     \* judged[m]: those of them that have been judged
  declared,   \* declared[m]: the monitor is declared down
  notice      \* notice[m]: the alert being sent, if any

vars == <<reported, judged, declared, notice>>

Before(x, y) == x[1] < y[1] \/ (x[1] = y[1] /\ x[2] < y[2])

Unjudged(m) == DOMAIN reported[m] \ judged[m]

FailedLast(m) ==
  \E x \in judged[m] :
    ~reported[m][x] /\ \A y \in judged[m] : y = x \/ Before(y, x)

Change(was, is) == IF was = is THEN "none" ELSE IF is THEN "down" ELSE "restored"

Init ==
  /\ reported = [m \in Monitors |-> [x \in {} |-> TRUE]]
  /\ judged = [m \in Monitors |-> {}]
  /\ declared = [m \in Monitors |-> FALSE]
  /\ notice = [m \in Monitors |-> "none"]

(* One batch may report several checks of several monitors.                *)
Report ==
  /\ \A m \in Monitors :
       /\ \A x \in DOMAIN reported[m] :
            x \in DOMAIN reported'[m] /\ reported'[m][x] = reported[m][x]
       /\ \A x \in DOMAIN reported[m], y \in DOMAIN reported'[m] \ DOMAIN reported[m] :
            Before(x, y)
  /\ UNCHANGED <<judged, declared, notice>>

Judge(m) ==
  \E x \in Unjudged(m) :
    LET down == ~reported[m][x] /\ FailedLast(m)
    IN  /\ \A y \in Unjudged(m) : y = x \/ Before(x, y)
        /\ notice[m] = "none"
        /\ judged' = [judged EXCEPT ![m] = @ \cup {x}]
        /\ declared' = [declared EXCEPT ![m] = down]
        /\ notice' = [notice EXCEPT ![m] = Change(declared[m], down)]
        /\ UNCHANGED reported

Notify(m) ==
  /\ notice[m] # "none"
  /\ notice' = [notice EXCEPT ![m] = "none"]
  /\ UNCHANGED <<reported, judged, declared>>

Next == Report \/ \E m \in Monitors : Judge(m) \/ Notify(m)

SafeSpec == Init /\ [][Next]_vars

Spec == SafeSpec /\ \A m \in Monitors : WF_vars(Judge(m)) /\ WF_vars(Notify(m))
=============================================================================
