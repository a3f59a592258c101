-------------------------- MODULE CreditGateProofs --------------------------
(***************************************************************************)
(* Proofs about CreditGate: for any number of callers, users, monitors and *)
(* days, any faults and purchases of any number of credits, negative ones  *)
(* included, the ledger keeps its shape, credits are conserved,            *)
(* no day's window gives more than the free quota, the window never moves  *)
(* back, and every charge is a sent alert, a lost one or one under way.    *)
(***************************************************************************)
EXTENDS CreditGate, FiniteSetTheorems, TLAPS

USE OwnerAssumption, CreditAssumption

(* What deduct_telegram_credit does to a row, for the date its transaction *)
(* began on: the window moves forward or stays, the quota of the window    *)
(* and the balance are charged at most once.                               *)
LEMMA DeductEffect ==
  ASSUME TypeOK, NEW u \in Users, NEW today \in 0..day
  PROVE  /\ DeductOf(u, today).row \in Row
         /\ DeductOf(u, today).type \in {"free", "purchased", "no_credits"}
         /\ DeductOf(u, today).row.resetDay =
              IF ledger[u].resetDay < today THEN today ELSE ledger[u].resetDay
         /\ DeductOf(u, today).row.used =
              (IF ledger[u].resetDay < today THEN 0 ELSE ledger[u].used)
                + (IF DeductOf(u, today).type = "free" THEN 1 ELSE 0)
         /\ DeductOf(u, today).row.purchased =
              ledger[u].purchased - (IF DeductOf(u, today).type = "purchased" THEN 1 ELSE 0)
<1> DEFINE reset == DailyReset(ledger[u], today)
<1>1. ledger[u] \in Row /\ day \in Nat /\ today <= day
  BY DEF TypeOK, MoneyOK, WorldOK
<1>2. /\ reset \in Row /\ reset.purchased = ledger[u].purchased
      /\ reset.resetDay = IF ledger[u].resetDay < today THEN today ELSE ledger[u].resetDay
      /\ reset.used = IF ledger[u].resetDay < today THEN 0 ELSE ledger[u].used
  <2>1. CASE ledger[u].resetDay < today
    <3>1. reset = [ledger[u] EXCEPT !.used = 0, !.resetDay = today]
      BY <2>1 DEF DailyReset
    <3>2. 0 \in 0..FreePerDay /\ today \in 0..day
      BY <1>1
    <3> HIDE DEF reset
    <3> QED BY <1>1, <2>1, <3>1, <3>2 DEF Row
  <2>2. CASE ~(ledger[u].resetDay < today)
    BY <1>1, <2>2 DEF DailyReset
  <2> QED BY <2>1, <2>2
<1>3. /\ Charge(reset).row \in Row
      /\ Charge(reset).type \in {"free", "purchased", "no_credits"}
      /\ Charge(reset).row.resetDay = reset.resetDay
      /\ Charge(reset).row.used = reset.used + (IF Charge(reset).type = "free" THEN 1 ELSE 0)
      /\ Charge(reset).row.purchased =
           reset.purchased - (IF Charge(reset).type = "purchased" THEN 1 ELSE 0)
  <2> HIDE DEF reset
  <2>1. CASE reset.used < FreePerDay
    <3>1. /\ Charge(reset).type = "free"
          /\ Charge(reset).row = [reset EXCEPT !.used = @ + 1]
      BY <2>1 DEF Charge
    <3> QED BY <1>2, <2>1, <3>1 DEF Row
  <2>2. CASE ~(reset.used < FreePerDay) /\ reset.purchased > 0
    <3>1. /\ Charge(reset).type = "purchased"
          /\ Charge(reset).row = [reset EXCEPT !.purchased = @ - 1]
      BY <2>2 DEF Charge
    <3> QED BY <1>2, <2>2, <3>1 DEF Row
  <2>3. CASE ~(reset.used < FreePerDay) /\ ~(reset.purchased > 0)
    <3>1. Charge(reset).type = "no_credits" /\ Charge(reset).row = reset
      BY <2>3 DEF Charge
    <3> QED BY <1>2, <3>1 DEF Row
  <2> QED BY <2>1, <2>2, <2>3
<1> HIDE DEF reset
<1>4. DeductOf(u, today) = Charge(reset)
  BY DEF DeductOf, reset
<1> QED BY <1>2, <1>3, <1>4

-----------------------------------------------------------------------------
(* Type correctness.                                                       *)

(* A caller that moves on, or leaves, keeps the gates in shape.            *)
LEMMA GoToType ==
  ASSUME GateOK, NEW c \in Callers, NEW pc \in GatePCs, gate[c].pc # "off", GoTo(c, pc),
         day' = day
  PROVE  GateOK'
<1>1. gate' = [gate EXCEPT ![c].pc = pc] /\ gate \in [Callers -> Gated]
  BY DEF GoTo, GateOK
<1>2. gate' \in [Callers -> Gated]
  BY <1>1 DEF Gated
<1>3. \A d \in Callers : gate'[d].mon = gate[d].mon
  BY <1>1 DEF Gated
<1>4. \A d \in Callers : gate'[d].pc # "off" => gate[d].pc # "off"
  BY <1>1
<1>5. Gated' = Gated
  BY DEF Gated
<1> QED BY <1>2, <1>3, <1>4, <1>5 DEF GateOK

LEMMA LeaveType ==
  ASSUME GateOK, day \in Nat, NEW c \in Callers, Leave(c), day' = day
  PROVE  GateOK'
<1>1. gate' = [gate EXCEPT ![c] = Off] /\ gate \in [Callers -> Gated]
  BY DEF Leave, GateOK
<1>2. Off \in Gated /\ Off.pc = "off"
  BY DEF Off, Gated, GatePCs
<1>3. gate' \in [Callers -> Gated]
  BY <1>1, <1>2
<1>4. \A d \in Callers : gate'[d].pc # "off" => gate'[d] = gate[d]
  BY <1>1, <1>2
<1>5. Gated' = Gated
  BY DEF Gated
<1> QED BY <1>3, <1>4, <1>5 DEF GateOK

(* Booking a charge keeps the money in shape.                              *)
LEMMA BookType ==
  ASSUME TypeOK, NEW u \in Users, NEW today \in 0..day, Book(u, DeductOf(u, today)), day' = day
  PROVE  MoneyOK'
<1> DEFINE d == DeductOf(u, today)
<1>1. /\ d.row \in Row /\ d.type \in {"free", "purchased", "no_credits"}
      /\ d.row.resetDay \in 0..MaxDay
  <2>1. d.row \in Row /\ d.type \in {"free", "purchased", "no_credits"}
    BY DeductEffect
  <2> HIDE DEF d
  <2>2. day \in 0..MaxDay
    BY DEF TypeOK, WorldOK
  <2> QED BY <2>1, <2>2 DEF Row
<1>2. Book(u, d)
  OBVIOUS
<1> HIDE DEF d
<1>3. ledger' \in [Users -> Row]
  BY <1>1, <1>2 DEF Book, TypeOK, MoneyOK
<1>4. freeOn' \in [Users -> [0..MaxDay -> Nat]]
  <2>1. freeOn \in [Users -> [0..MaxDay -> Nat]]
    BY DEF TypeOK, MoneyOK
  <2>2. CASE d.type = "free"
    <3>1. freeOn' = [freeOn EXCEPT ![u][d.row.resetDay] = @ + 1]
      BY <1>2, <2>2 DEF Book
    <3> QED BY <1>1, <2>1, <3>1
  <2>3. CASE d.type # "free"
    BY <1>2, <2>1, <2>3 DEF Book
  <2> QED BY <2>2, <2>3
<1>5. /\ spent' \in Tally /\ charged' \in Tally /\ gained' \in Tally
      /\ bought' \in [Users -> Int]
  BY <1>2 DEF Book, Add, Tally, TypeOK, MoneyOK
<1>6. Row' = Row /\ Tally' = Tally
  BY DEF Row, Tally
<1> QED BY <1>3, <1>4, <1>5, <1>6 DEF MoneyOK

LEMMA MoneyFrame ==
  ASSUME MoneyOK, UNCHANGED moneyVars, day \in Nat, day' \in Nat, day <= day'
  PROVE  MoneyOK'
<1>1. \A r \in Row : r \in Row'
  BY DEF Row
<1> QED BY <1>1 DEF MoneyOK, moneyVars, Tally

(* A step of caller c inside the gate: it moves on or leaves, the date     *)
(* stands still.                                                           *)
GateMove(c) ==
  day' = day /\ (Leave(c) \/ \E pc \in GatePCs : gate[c].pc # "off" /\ GoTo(c, pc))

LEMMA MoveType ==
  ASSUME TypeOK, NEW c \in Callers, GateMove(c)
  PROVE  GateOK'
<1>1. GateOK /\ day \in Nat
  BY DEF TypeOK, WorldOK
<1>2. CASE Leave(c)
  BY <1>1, <1>2, LeaveType DEF GateMove
<1>3. ASSUME NEW pc \in GatePCs, gate[c].pc # "off", GoTo(c, pc) PROVE GateOK'
  BY <1>1, <1>3, GoToType DEF GateMove
<1> QED BY <1>2, <1>3 DEF GateMove

(* Every step of the gate is a move of its caller or takes the date, and   *)
(* only the two that deduct touch the money.                               *)
Charges(c) == gate[c].pc = "lock" /\ Book(User(c), DeductOf(User(c), gate[c].today))

LEMMA StepShape ==
  ASSUME NEW c \in Callers, Step(c)
  PROVE  \/ BeginDeduct(c)
         \/ GateMove(c) /\ (UNCHANGED moneyVars \/ Charges(c))
<1>1. CASE CheckEnabled(c)
  BY <1>1 DEF CheckEnabled, GateMove, At, settingVars, GatePCs
<1>2. CASE FindOwner(c)
  BY <1>2 DEF FindOwner, GateMove, At, settingVars, GatePCs
<1>3. CASE BeginDeduct(c)
  BY <1>3
<1>4. CASE Deduct(c)
  BY <1>4 DEF Deduct, Charges, GateMove, At, settingVars, GatePCs
<1>5. CASE DeductUnanswered(c)
  BY <1>5 DEF DeductUnanswered, Charges, GateMove, At, settingVars, GatePCs
<1>6. CASE Send(c) \/ SendFails(c)
  BY <1>6 DEF Send, SendFails, GateMove, At, settingVars, GatePCs
<1>7. CASE Ask(c) \/ Nudge(c) \/ NudgeFails(c) \/ Mark(c)
  BY <1>7 DEF Ask, Nudge, NudgeFails, Mark, GateMove, At, settingVars, GatePCs
<1>8. CASE CallFails(c)
  BY <1>8 DEF CallFails, GateMove, settingVars
<1> QED BY <1>1, <1>2, <1>3, <1>4, <1>5, <1>6, <1>7, <1>8 DEF Step

(* The caller of an alert under way acts for a user, by a date that has    *)
(* come.                                                                   *)
LEMMA UserType ==
  ASSUME TypeOK, NEW c \in Callers
  PROVE  /\ gate[c].today \in 0..day
         /\ gate[c].pc # "off" => gate[c].mon \in Monitors /\ User(c) \in Users
  BY DEF TypeOK, GateOK, Gated, User

LEMMA AddType ==
  ASSUME NEW f \in Tally, NEW u \in Users, NEW n \in Nat
  PROVE  Add(f, u, n) \in Tally
  BY DEF Tally, Add

(* What the steps of the gate do outside the money.                        *)
LEMMA StepWorld ==
  ASSUME TypeOK, NEW c \in Callers, Step(c)
  PROVE  WorldOK' /\ day' = day
<1>1. /\ faults \in Nat /\ reminded \in [Users -> BOOLEAN]
      /\ sent \in Tally /\ lost \in Tally /\ nudges \in Tally
      /\ gate[c].pc # "off" => User(c) \in Users
  BY UserType DEF TypeOK, WorldOK
<1>2. faults' \in Nat /\ UNCHANGED settingVars
  <2> USE DEF Fault, NoFault, Works, Breaks
  <2>1. CASE CheckEnabled(c) \/ FindOwner(c) \/ BeginDeduct(c) \/ Deduct(c) \/ DeductUnanswered(c)
    BY <1>1, <2>1 DEF CheckEnabled, FindOwner, BeginDeduct, Deduct, DeductUnanswered
  <2>2. CASE Send(c) \/ SendFails(c) \/ Ask(c) \/ Nudge(c) \/ NudgeFails(c) \/ Mark(c)
    BY <1>1, <2>2 DEF Send, SendFails, Ask, Nudge, NudgeFails, Mark
  <2>3. CASE CallFails(c)
    BY <1>1, <2>3 DEF CallFails
  <2> QED BY <2>1, <2>2, <2>3 DEF Step
<1>3. /\ sent' = sent \/ sent' = Add(sent, User(c), 1)
      /\ lost' = lost \/ lost' = Add(lost, User(c), 1)
      /\ nudges' = nudges \/ nudges' = Add(nudges, User(c), 1)
      /\ reminded' = reminded \/ reminded' = [reminded EXCEPT ![User(c)] = TRUE]
  <2>1. CASE CheckEnabled(c) \/ FindOwner(c) \/ BeginDeduct(c) \/ Deduct(c)
    BY <2>1 DEF CheckEnabled, FindOwner, BeginDeduct, Deduct, outVars
  <2>2. CASE DeductUnanswered(c) \/ Send(c) \/ SendFails(c)
    BY <2>2 DEF DeductUnanswered, Send, SendFails
  <2>3. CASE Ask(c) \/ Nudge(c) \/ NudgeFails(c) \/ Mark(c) \/ CallFails(c)
    BY <2>3 DEF Ask, Nudge, NudgeFails, Mark, CallFails, outVars
  <2> QED BY <2>1, <2>2, <2>3 DEF Step
<1>4. gate[c].pc # "off"
  BY DEF Step, At, CheckEnabled, FindOwner, BeginDeduct, Deduct, DeductUnanswered, Send,
         SendFails, Ask, Nudge, NudgeFails, Mark, CallFails
<1>5. User(c) \in Users
  BY <1>1, <1>4
<1>6. Add(sent, User(c), 1) \in Tally
  BY <1>1, <1>5, AddType
<1>7. Add(lost, User(c), 1) \in Tally
  BY <1>1, <1>5, AddType
<1>8. Add(nudges, User(c), 1) \in Tally
  BY <1>1, <1>5, AddType
<1>9. sent' \in Tally /\ lost' \in Tally /\ nudges' \in Tally
  BY <1>1, <1>3, <1>6, <1>7, <1>8
<1>10. reminded' \in [Users -> BOOLEAN]
  BY <1>1, <1>3
<1> QED BY <1>2, <1>9, <1>10 DEF TypeOK, WorldOK, settingVars, Tally

LEMMA StepType ==
  ASSUME TypeOK, NEW c \in Callers, Step(c)
  PROVE  TypeOK'
<1>1. WorldOK' /\ day' = day /\ day \in Nat
  BY StepWorld DEF TypeOK, WorldOK
<1>2. CASE BeginDeduct(c)
  <2>1. gate' = [gate EXCEPT ![c].pc = "lock", ![c].today = day] /\ UNCHANGED moneyVars
    BY <1>2 DEF BeginDeduct
  <2>2. gate \in [Callers -> Gated] /\ day \in 0..day
    BY <1>1 DEF TypeOK, GateOK
  <2>3. gate' \in [Callers -> Gated]
    BY <2>1, <2>2 DEF Gated, GatePCs
  <2>4. \A d \in Callers : gate'[d].mon = gate[d].mon /\ (d # c => gate'[d].pc = gate[d].pc)
    BY <2>1, <2>2 DEF Gated
  <2>5. gate[c].pc # "off" /\ Gated' = Gated
    BY <1>1, <1>2 DEF BeginDeduct, At, Gated
  <2>6. GateOK'
    BY <2>3, <2>4, <2>5 DEF TypeOK, GateOK
  <2> QED BY <1>1, <2>1, <2>6, MoneyFrame DEF TypeOK
<1>3. CASE GateMove(c) /\ UNCHANGED moneyVars
  BY <1>1, <1>3, MoveType, MoneyFrame DEF TypeOK
<1>4. CASE GateMove(c) /\ Charges(c)
  BY <1>1, <1>4, MoveType, BookType, UserType DEF TypeOK, Charges
<1> QED BY <1>2, <1>3, <1>4, StepShape

(* The rest of the world: the date, the settings, purchases.               *)
LEMMA WorldType ==
  ASSUME TypeOK, World
  PROVE  TypeOK' /\ day <= day'
<1>1. /\ WorldOK /\ MoneyOK /\ GateOK /\ day \in 0..MaxDay /\ Tally' = Tally
  BY DEF TypeOK, WorldOK, Tally
<1>2. CASE NextDay
  <2>1. UNCHANGED moneyVars /\ day' = day + 1 /\ gate' = gate
    BY <1>2 DEF NextDay, gateVars
  <2>2. MoneyOK' /\ WorldOK'
    BY <1>1, <1>2, <2>1, MoneyFrame DEF NextDay, outVars, WorldOK
  <2>3. \A g \in Gated : g \in Gated'
    BY <1>1, <2>1 DEF Gated
  <2> QED BY <1>1, <2>1, <2>2, <2>3 DEF TypeOK, GateOK
<1>3. ASSUME NEW u \in Users, WeekPasses(u) PROVE TypeOK' /\ day' = day
  <2>1. UNCHANGED moneyVars /\ day' = day /\ gate' = gate
    BY <1>3 DEF WeekPasses
  <2>2. nudges' \in Tally /\ reminded' \in [Users -> BOOLEAN]
    BY <1>1, <1>3 DEF WeekPasses, WorldOK, Tally
  <2>3. count' \in [alerts : Nat, buys : Nat, edits : Nat]
    BY <1>1, <1>3 DEF WeekPasses, WorldOK
  <2>4. UNCHANGED <<sent, lost, muted, reachable, day, faults>>
    BY <1>3 DEF WeekPasses
  <2>5. WorldOK'
    BY <1>1, <2>2, <2>3, <2>4 DEF WorldOK, Tally
  <2> QED BY <1>1, <2>1, <2>5, MoneyFrame DEF TypeOK, GateOK, Gated
<1>4. ASSUME NEW m \in Monitors, ToggleMute(m) \/ ChangeReach(m) PROVE TypeOK' /\ day' = day
  <2>1. UNCHANGED moneyVars /\ day' = day /\ gate' = gate
    BY <1>4 DEF ToggleMute, ChangeReach
  <2>2. count' \in [alerts : Nat, buys : Nat, edits : Nat]
    BY <1>1, <1>4 DEF ToggleMute, ChangeReach, WorldOK
  <2>3. muted' = muted \/ muted' = [muted EXCEPT ![m] = ~muted[m]]
    BY <1>4 DEF ToggleMute, ChangeReach
  <2>4. reachable' = reachable \/ reachable' = [reachable EXCEPT ![m] = ~reachable[m]]
    BY <1>4 DEF ToggleMute, ChangeReach
  <2>5. muted' \in [Monitors -> BOOLEAN] /\ reachable' \in [Monitors -> BOOLEAN]
    BY <1>1, <2>3, <2>4 DEF WorldOK
  <2>6. UNCHANGED <<reminded, sent, lost, nudges, day, faults>>
    BY <1>4 DEF ToggleMute, ChangeReach, outVars
  <2>7. WorldOK'
    BY <1>1, <2>2, <2>5, <2>6 DEF WorldOK, Tally
  <2> QED BY <1>1, <2>1, <2>7, MoneyFrame DEF TypeOK, GateOK, Gated
<1>5. ASSUME NEW u \in Users, NEW n \in Packs, Buy(u, n) PROVE TypeOK' /\ day' = day
  <2> n \in Int
    OBVIOUS
  <2>1. day' = day /\ gate' = gate /\ bought' \in [Users -> Int] /\ gained' \in Tally
    <3>1. bought' = [bought EXCEPT ![u] = @ + n] /\ bought \in [Users -> Int]
      BY <1>1, <1>5 DEF Buy, Add, MoneyOK
    <3>2. gained' \in Tally
      BY <1>1, <1>5, AddType DEF Buy, MoneyOK
    <3> QED BY <1>5, <3>1, <3>2 DEF Buy
  <2>2. WorldOK'
    BY <1>1, <1>5 DEF Buy, outVars, WorldOK
  <2>3. ledger' \in [Users -> Row]
    <3>1. ledger' = [ledger EXCEPT ![u].purchased = @ + n] /\ ledger \in [Users -> Row]
      BY <1>1, <1>5 DEF Buy, MoneyOK
    <3> QED BY <3>1 DEF Row
  <2>4. MoneyOK'
    BY <1>1, <1>5, <2>1, <2>3 DEF Buy, MoneyOK, Row
  <2> QED BY <1>1, <2>1, <2>2, <2>4 DEF TypeOK, GateOK, Gated
<1> QED BY <1>1, <1>2, <1>3, <1>4, <1>5 DEF World, NextDay

(* The shape of the state is an invariant, for every number of callers,    *)
(* users, monitors and days and every fault.                               *)
THEOREM TypeCorrect == Spec => []TypeOK
<1>1. Init => TypeOK
  <2> SUFFICES ASSUME Init PROVE TypeOK
    OBVIOUS
  <2>1. GateOK
    BY DEF Init, GateOK, Gated, GatePCs, Off
  <2>2. MoneyOK
    BY DEF Init, MoneyOK, Row, Tally
  <2>3. WorldOK
    BY DEF Init, WorldOK, Tally
  <2> QED BY <2>1, <2>2, <2>3 DEF TypeOK
<1>2. TypeOK /\ [Next]_gateVars => TypeOK'
  <2> SUFFICES ASSUME TypeOK, [Next]_gateVars PROVE TypeOK'
    OBVIOUS
  <2>1. ASSUME NEW c \in Callers, Step(c) PROVE TypeOK'
    BY <2>1, StepType
  <2>2. ASSUME NEW c \in Callers, Late(c) PROVE TypeOK'
    <3>1. gate' = [gate EXCEPT ![c].late = TRUE] /\ UNCHANGED <<moneyVars, reminded>>
          /\ UNCHANGED outVars /\ UNCHANGED settingVars /\ faults' = faults + 1
      BY <2>2 DEF Late, Expired, Fault
    <3>2. GateOK'
      BY <3>1 DEF TypeOK, GateOK, Gated, settingVars
    <3>3. WorldOK'
      BY <3>1 DEF TypeOK, WorldOK, Tally, settingVars, outVars
    <3>4. MoneyOK'
      BY <3>1, MoneyFrame DEF TypeOK, WorldOK, settingVars
    <3> QED BY <3>2, <3>3, <3>4 DEF TypeOK
  <2>3. ASSUME NEW c \in Callers, Die(c) PROVE TypeOK'
    <3>1. /\ GateMove(c) /\ UNCHANGED moneyVars /\ UNCHANGED <<reminded, sent, nudges>>
          /\ UNCHANGED settingVars /\ faults' = faults + 1
          /\ lost' = lost \/ lost' = Add(lost, User(c), 1)
      BY <2>3 DEF Die, Abandon, Fault, GateMove, settingVars
    <3>2. Add(lost, User(c), 1) \in Tally
      BY <2>3, UserType, AddType DEF Die, TypeOK, WorldOK
    <3>3. WorldOK'
      BY <3>1, <3>2 DEF TypeOK, WorldOK, Tally, settingVars
    <3>4. MoneyOK'
      BY <3>1, MoneyFrame DEF TypeOK, WorldOK, settingVars
    <3> QED BY <3>1, <3>3, <3>4, MoveType DEF TypeOK
  <2>4. ASSUME NEW c \in Callers, NEW m \in Monitors, Begin(c, m, "down", FALSE) PROVE TypeOK'
    <3> DEFINE alert == [Off EXCEPT !.pc = "enabled", !.mon = m, !.kind = "down", !.late = FALSE]
    <3>1. /\ gate' = [gate EXCEPT ![c] = alert] /\ count' = [count EXCEPT !.alerts = @ + 1]
          /\ UNCHANGED moneyVars /\ UNCHANGED outVars
          /\ UNCHANGED <<reminded, muted, reachable, day, faults>>
      BY <2>4 DEF Begin
    <3>2. alert \in Gated /\ alert.mon = m
      <4>1. /\ alert.pc = "enabled" /\ alert.mon = m /\ alert.kind = "down"
            /\ alert.today = 0 /\ alert.late = FALSE
        BY DEF Off
      <4>2. Off \in Gated /\ "enabled" \in GatePCs
        BY DEF TypeOK, WorldOK, GatePCs, Gated, Off
      <4>3. alert \in Gated
        BY <4>2 DEF Gated
      <4> QED BY <4>1, <4>3
    <3> HIDE DEF alert
    <3>3. gate' \in [Callers -> Gated]
      BY <3>1, <3>2 DEF TypeOK, GateOK
    <3>4. \A d \in Callers : gate'[d] = IF d = c THEN alert ELSE gate[d]
      BY <3>1 DEF TypeOK, GateOK
    <3>5. GateOK'
      BY <3>1, <3>2, <3>3, <3>4 DEF TypeOK, GateOK, Gated
    <3>6. WorldOK'
      BY <3>1 DEF TypeOK, WorldOK, Tally, outVars
    <3>7. MoneyOK'
      BY <3>1, MoneyFrame DEF TypeOK, WorldOK
    <3> QED BY <3>5, <3>6, <3>7 DEF TypeOK
  <2>5. CASE World
    BY <2>5, WorldType
  <2>6. CASE UNCHANGED gateVars
    <3>1. UNCHANGED moneyVars /\ UNCHANGED outVars /\ UNCHANGED settingVars
          /\ UNCHANGED <<gate, reminded, faults>>
      BY <2>6 DEF gateVars
    <3>2. MoneyOK'
      BY <3>1, MoneyFrame DEF TypeOK, WorldOK, settingVars
    <3> QED BY <3>1, <3>2 DEF TypeOK, GateOK, Gated, WorldOK, Tally, settingVars, outVars
  <2> QED
    BY <2>1, <2>2, <2>3, <2>4, <2>5, <2>6 DEF Next
<1> QED BY <1>1, <1>2, PTL DEF Spec

-----------------------------------------------------------------------------
(* The money.                                                              *)

(* The ledger changes by one charge of one row, by one purchase, or not.   *)
LEMMA MoneyStep ==
  ASSUME TypeOK, [Next]_gateVars
  PROVE  \/ UNCHANGED moneyVars
         \/ \E u \in Users : \E today \in 0..day : Book(u, DeductOf(u, today))
         \/ \E u \in Users, n \in Packs : Buy(u, n)
<1>1. ASSUME NEW c \in Callers, Step(c)
      PROVE  \/ UNCHANGED moneyVars
             \/ \E u \in Users : \E today \in 0..day : Book(u, DeductOf(u, today))
  <2>1. CASE BeginDeduct(c)
    BY <2>1 DEF BeginDeduct
  <2>2. CASE Charges(c)
    BY <2>2, UserType DEF Charges
  <2> QED BY <1>1, <2>1, <2>2, StepShape
<1>2. ASSUME NEW c \in Callers, Late(c) \/ Die(c) PROVE UNCHANGED moneyVars
  BY <1>2 DEF Late, Expired, Die, Abandon
<1>3. ASSUME NEW c \in Callers, NEW m \in Monitors, Begin(c, m, "down", FALSE)
      PROVE  UNCHANGED moneyVars
  BY <1>3 DEF Begin
<1>4. CASE World
  BY <1>4 DEF World, NextDay, WeekPasses, ToggleMute, ChangeReach
<1>5. CASE UNCHANGED gateVars
  BY <1>5 DEF gateVars
<1> QED BY <1>1, <1>2, <1>3, <1>4, <1>5 DEF Next

(* Purchases that lower the balance are not counted as gains, so the total *)
(* is never above the gains: a charge finds a credit only where the gains  *)
(* exceed what was charged before.                                         *)
CreditInv ==
  \A u \in Users :
    /\ ledger[u].purchased + spent[u] = bought[u]
    /\ bought[u] <= gained[u] /\ spent[u] <= gained[u]

LEMMA ChargeFound ==
  ASSUME NEW u \in Users, NEW today \in 0..day, TypeOK,
         DeductOf(u, today).type = "purchased"
  PROVE  ledger[u].purchased > 0
  BY DEF DeductOf, Charge, DailyReset, TypeOK, MoneyOK, Row

(* Credits are conserved, and no more are charged than purchases brought   *)
(* in, whoever deducts and buys at the same time, whatever fails between   *)
(* and whatever the sign of a purchase.                                    *)
THEOREM CreditsAreConserved == Spec => []CreditsConserved
<1>1. Init => CreditInv
  BY DEF Init, CreditInv
<1>2. TypeOK /\ CreditInv /\ [Next]_gateVars => CreditInv'
  <2> SUFFICES ASSUME TypeOK, CreditInv, [Next]_gateVars PROVE CreditInv'
    OBVIOUS
  <2>1. /\ ledger \in [Users -> Row] /\ bought \in [Users -> Int]
        /\ spent \in [Users -> Nat] /\ gained \in [Users -> Nat]
    BY DEF TypeOK, MoneyOK, Tally
  <2>2. CASE UNCHANGED moneyVars
    BY <2>2 DEF moneyVars, CreditInv
  <2>3. ASSUME NEW u \in Users, NEW today \in 0..day, Book(u, DeductOf(u, today))
        PROVE  CreditInv'
    <3> DEFINE d == DeductOf(u, today)
    <3>1. /\ d.row \in Row
          /\ d.row.purchased = ledger[u].purchased - (IF d.type = "purchased" THEN 1 ELSE 0)
          /\ d.type = "purchased" => ledger[u].purchased > 0
      BY DeductEffect, ChargeFound
    <3>2. /\ ledger' = [ledger EXCEPT ![u] = d.row] /\ bought' = bought /\ gained' = gained
          /\ spent' = IF d.type = "purchased" THEN [spent EXCEPT ![u] = @ + 1] ELSE spent
      BY <2>3 DEF Book, Add
    <3> HIDE DEF d
    <3>3. ASSUME NEW v \in Users
          PROVE  /\ ledger'[v].purchased + spent'[v] = bought'[v]
                 /\ bought'[v] <= gained'[v] /\ spent'[v] <= gained'[v]
      <4>1. /\ ledger[v].purchased + spent[v] = bought[v]
            /\ bought[v] <= gained[v] /\ spent[v] <= gained[v]
        BY DEF CreditInv
      <4>2. CASE v # u
        <5>1. ledger'[v] = ledger[v] /\ spent'[v] = spent[v]
          BY <2>1, <3>2, <4>2
        <5> QED BY <3>2, <4>1, <5>1
      <4>3. CASE v = u
        <5>1. /\ ledger'[v] = d.row /\ ledger[v] \in Row
              /\ spent[v] \in Nat /\ bought[v] \in Int /\ gained[v] \in Nat
          BY <2>1, <3>2, <4>3
        <5>2. spent'[v] = spent[v] + (IF d.type = "purchased" THEN 1 ELSE 0)
          BY <2>1, <3>2, <4>3
        <5>3. ledger[v].purchased \in Int /\ bought'[v] = bought[v] /\ gained'[v] = gained[v]
          BY <3>2, <5>1 DEF Row
        <5> QED BY <3>1, <4>1, <4>3, <5>1, <5>2, <5>3
      <4> QED BY <4>2, <4>3
    <3> QED BY <3>3 DEF CreditInv
  <2>4. ASSUME NEW u \in Users, NEW n \in Packs, Buy(u, n) PROVE CreditInv'
    <3>1. /\ ledger' = [ledger EXCEPT ![u].purchased = @ + n] /\ spent' = spent
          /\ bought' = [bought EXCEPT ![u] = @ + n] /\ n \in Int
          /\ gained' = [gained EXCEPT ![u] = @ + (IF n > 0 THEN n ELSE 0)]
      BY <2>4 DEF Buy, Add
    <3>2. ASSUME NEW v \in Users
          PROVE  /\ ledger'[v].purchased + spent'[v] = bought'[v]
                 /\ bought'[v] <= gained'[v] /\ spent'[v] <= gained'[v]
      <4>1. /\ ledger[v].purchased + spent[v] = bought[v] /\ ledger[v].purchased \in Int
            /\ bought[v] <= gained[v] /\ spent[v] <= gained[v]
        BY <2>1 DEF CreditInv, Row
      <4>2. ledger'[v].purchased = ledger[v].purchased + (IF v = u THEN n ELSE 0)
        BY <2>1, <3>1, <4>1 DEF Row
      <4>3. /\ bought'[v] = bought[v] + (IF v = u THEN n ELSE 0)
            /\ gained'[v] = gained[v] + (IF v = u /\ n > 0 THEN n ELSE 0)
            /\ spent[v] \in Nat /\ bought[v] \in Int /\ gained[v] \in Nat
        BY <2>1, <3>1
      <4> QED BY <3>1, <4>1, <4>2, <4>3
    <3> QED BY <3>2 DEF CreditInv
  <2> QED BY <2>2, <2>3, <2>4, MoneyStep
<1>3. CreditInv => CreditsConserved
  BY DEF CreditInv, CreditsConserved
<1> QED BY <1>1, <1>2, <1>3, TypeCorrect, PTL DEF Spec

(* The window of a row moves forward or stays: a transaction that began    *)
(* before midnight does not reopen the day it began on.                    *)
THEOREM WindowMovesForward == Spec => WindowForward
<1>1. TypeOK /\ [Next]_gateVars =>
        [\A u \in Users : ledger'[u].resetDay >= ledger[u].resetDay]_ledger
  <2> SUFFICES ASSUME TypeOK, [Next]_gateVars, NEW v \in Users, ledger' # ledger
               PROVE  ledger'[v].resetDay >= ledger[v].resetDay
    OBVIOUS
  <2>1. ledger \in [Users -> Row] /\ ledger[v].resetDay \in Nat /\ day \in Nat
    BY DEF TypeOK, MoneyOK, WorldOK, Row
  <2>2. CASE UNCHANGED moneyVars
    BY <2>2 DEF moneyVars
  <2>3. ASSUME NEW u \in Users, NEW today \in 0..day, Book(u, DeductOf(u, today))
        PROVE  ledger'[v].resetDay >= ledger[v].resetDay
    <3>1. ledger' = [ledger EXCEPT ![u] = DeductOf(u, today).row]
      BY <2>3 DEF Book
    <3>2. DeductOf(u, today).row.resetDay =
            IF ledger[u].resetDay < today THEN today ELSE ledger[u].resetDay
      BY DeductEffect
    <3>3. CASE v = u
      BY <2>1, <3>1, <3>2, <3>3
    <3>4. CASE v # u
      BY <2>1, <3>1, <3>4
    <3> QED BY <3>3, <3>4
  <2>4. ASSUME NEW u \in Users, NEW n \in Packs, Buy(u, n) PROVE ledger'[v].resetDay >= ledger[v].resetDay
    <3>1. ledger'[v].resetDay = ledger[v].resetDay
      BY <2>1, <2>4 DEF Buy, Row
    <3> QED BY <2>1, <3>1
  <2> QED BY <2>2, <2>3, <2>4, MoneyStep
<1> QED BY <1>1, TypeCorrect, PTL DEF Spec, WindowForward

-----------------------------------------------------------------------------
(* The free quota.  The row counts what went free in its window, and no    *)
(* window ahead of it has been opened.                                     *)

QuotaInv ==
  \A u \in Users :
    /\ freeOn[u][ledger[u].resetDay] = ledger[u].used
    /\ \A d \in 0..MaxDay : /\ d > ledger[u].resetDay => freeOn[u][d] = 0
                            /\ freeOn[u][d] <= FreePerDay

(* No day gives a user more than the free quota, however many callers      *)
(* deduct around midnight.                                                 *)
THEOREM QuotaHolds == Spec => []FreeQuota
<1>1. Init => QuotaInv
  BY DEF Init, QuotaInv
<1>2. TypeOK /\ QuotaInv /\ [Next]_gateVars => QuotaInv'
  <2> SUFFICES ASSUME TypeOK, QuotaInv, [Next]_gateVars PROVE QuotaInv'
    OBVIOUS
  <2>1. /\ ledger \in [Users -> Row] /\ freeOn \in [Users -> [0..MaxDay -> Nat]]
        /\ day \in 0..MaxDay
    BY DEF TypeOK, MoneyOK, WorldOK
  <2>2. CASE UNCHANGED moneyVars
    BY <2>2 DEF moneyVars, QuotaInv
  <2>3. ASSUME NEW u \in Users, NEW today \in 0..day, Book(u, DeductOf(u, today)) PROVE QuotaInv'
    <3> DEFINE r == DeductOf(u, today).row
               free == DeductOf(u, today).type = "free"
               w == IF ledger[u].resetDay < today THEN today ELSE ledger[u].resetDay
               n == IF ledger[u].resetDay < today THEN 0 ELSE ledger[u].used
    <3>1. r \in Row /\ r.resetDay = w /\ r.used = n + (IF free THEN 1 ELSE 0)
      BY DeductEffect
    <3>2. ledger' = [ledger EXCEPT ![u] = r]
      BY <2>3 DEF Book
    <3>3. freeOn' = IF free THEN [freeOn EXCEPT ![u][w] = @ + 1] ELSE freeOn
      BY <2>3, <3>1 DEF Book
    <3> HIDE DEF r, free
    <3>4. ledger[u] \in Row /\ w \in 0..MaxDay /\ w >= ledger[u].resetDay
      BY <2>1 DEF Row
    <3>5. freeOn[u][w] = n /\ n \in Nat
      BY <2>1, <3>4 DEF QuotaInv, Row
    <3> HIDE DEF w, n
    <3>6. \A d \in 0..MaxDay : freeOn'[u][d] = IF free /\ d = w THEN n + 1 ELSE freeOn[u][d]
      BY <2>1, <3>3, <3>4, <3>5
    <3>7. \A v \in Users : v # u => ledger'[v] = ledger[v] /\ freeOn'[v] = freeOn[v]
      BY <2>1, <3>2, <3>3
    <3>8. ledger'[u] = r /\ r.used <= FreePerDay
      BY <2>1, <3>1, <3>2 DEF Row
    <3>9. /\ freeOn'[u][ledger'[u].resetDay] = ledger'[u].used
          /\ \A d \in 0..MaxDay : /\ d > ledger'[u].resetDay => freeOn'[u][d] = 0
                                  /\ freeOn'[u][d] <= FreePerDay
      <4>1. freeOn'[u][w] = r.used
        <5>1. CASE free
          BY <3>1, <3>4, <3>6, <5>1
        <5>2. CASE ~free
          BY <3>1, <3>4, <3>5, <3>6, <5>2
        <5> QED BY <5>1, <5>2
      <4>2. ASSUME NEW d \in 0..MaxDay
            PROVE  (d > w => freeOn'[u][d] = 0) /\ freeOn'[u][d] <= FreePerDay
        <5>1. CASE d = w
          BY <3>4, <3>8, <4>1, <5>1
        <5>2. CASE d # w
          <6>1. freeOn'[u][d] = freeOn[u][d]
            BY <3>6, <5>2
          <6>2. d > w => d > ledger[u].resetDay
            BY <3>4 DEF Row
          <6> QED BY <6>1, <6>2 DEF QuotaInv
        <5> QED BY <5>1, <5>2
      <4> QED BY <3>1, <3>8, <4>1, <4>2
    <3> QED BY <3>7, <3>9 DEF QuotaInv
  <2>4. ASSUME NEW u \in Users, NEW n \in Packs, Buy(u, n) PROVE QuotaInv'
    <3>1. freeOn' = freeOn
      BY <2>4 DEF Buy
    <3>2. \A v \in Users : ledger'[v].resetDay = ledger[v].resetDay /\ ledger'[v].used = ledger[v].used
      BY <2>1, <2>4 DEF Buy, Row
    <3> QED BY <3>1, <3>2 DEF QuotaInv
  <2> QED BY <2>2, <2>3, <2>4, MoneyStep
<1>3. QuotaInv => FreeQuota
  BY DEF QuotaInv, FreeQuota
<1> QED BY <1>1, <1>2, <1>3, TypeCorrect, PTL DEF Spec
-----------------------------------------------------------------------------
(* Charges and alerts.  The callers about to send are counted, so the      *)
(* invariant also says that they are finitely many: none at first, and     *)
(* each step adds or removes one.                                          *)

PaidInv ==
  \A u \in Users :
    IsFiniteSet(InFlight(u)) /\ charged[u] = sent[u] + lost[u] + Cardinality(InFlight(u))

(* Only caller c moves, and it is not about to send before or after.       *)
LEMMA FlightStays ==
  ASSUME NEW c \in Callers, \A d \in Callers \ {c} : gate'[d] = gate[d],
         gate[c].pc # "send", gate'[c].pc # "send"
  PROVE  \A u \in Users : InFlight(u)' = InFlight(u)
  BY DEF InFlight, At, User

(* A step that changes no set of callers about to send, and charges as     *)
(* much as it sends or loses, preserves the invariant.                     *)
LEMMA PaidFrame ==
  ASSUME PaidInv, \A u \in Users : InFlight(u)' = InFlight(u),
         UNCHANGED <<charged, sent, lost>>
  PROVE  PaidInv'
  BY DEF PaidInv

(* Booking a charge counts it for the user, and touches nobody else's.     *)
LEMMA BookCharges ==
  ASSUME TypeOK, NEW u \in Users, NEW d, Book(u, d)
  PROVE  /\ charged'[u] = charged[u] + (IF d.type = "no_credits" THEN 0 ELSE 1)
         /\ \A v \in Users \ {u} : charged'[v] = charged[v]
<1>1. charged \in [Users -> Nat]
  BY DEF TypeOK, MoneyOK, Tally
<1>2. charged' = IF d.type = "no_credits" THEN charged ELSE [charged EXCEPT ![u] = @ + 1]
  BY DEF Book, Add
<1>3. CASE d.type = "no_credits"
  BY <1>1, <1>2, <1>3
<1>4. CASE d.type # "no_credits"
  BY <1>1, <1>2, <1>4
<1> QED BY <1>3, <1>4

(* A charged caller goes on to send; an unpaid one does not.               *)
LEMMA DeductPaid ==
  ASSUME TypeOK, PaidInv, NEW c \in Callers, Deduct(c)
  PROVE  PaidInv'
<1> DEFINE d == DeductOf(User(c), gate[c].today)
<1>0. PICK u \in Users : u = User(c) /\ gate[c].pc = "lock"
  BY UserType DEF Deduct, DeductUnanswered, At
<1>1. /\ gate[c].pc = "lock" /\ Book(u, d) /\ sent' = sent /\ lost' = lost
      /\ GoTo(c, IF d.type = "no_credits" THEN "ask" ELSE "send")
  BY <1>0 DEF Deduct, outVars
<1>2. /\ gate \in [Callers -> Gated]
      /\ charged \in [Users -> Nat] /\ sent \in [Users -> Nat] /\ lost \in [Users -> Nat]
  BY DEF TypeOK, GateOK, MoneyOK, WorldOK, Tally
<1> HIDE DEF d
<1>3. /\ charged'[u] = charged[u] + (IF d.type = "no_credits" THEN 0 ELSE 1)
      /\ \A v \in Users \ {u} : charged'[v] = charged[v]
  BY <1>1, BookCharges
<1>4. \A e \in Callers \ {c} : gate'[e] = gate[e]
  BY <1>1, <1>2 DEF GoTo
<1>5. /\ gate'[c].pc = (IF d.type = "no_credits" THEN "ask" ELSE "send")
      /\ gate'[c].mon = gate[c].mon
  BY <1>1, <1>2 DEF GoTo, Gated
<1>6. CASE d.type = "no_credits"
  <2>1. \A v \in Users : InFlight(v)' = InFlight(v)
    BY <1>1, <1>4, <1>5, <1>6, FlightStays
  <2>2. \A v \in Users : charged'[v] = charged[v]
    BY <1>1, <1>2, <1>3, <1>6
  <2> QED BY <1>1, <2>1, <2>2 DEF PaidInv
<1>7. CASE d.type # "no_credits"
  <2>1. InFlight(u)' = InFlight(u) \cup {c} /\ c \notin InFlight(u)
    BY <1>0, <1>1, <1>4, <1>5, <1>7 DEF InFlight, At, User
  <2>2. \A v \in Users \ {u} : InFlight(v)' = InFlight(v)
    BY <1>0, <1>1, <1>4, <1>5 DEF InFlight, At, User
  <2>3. IsFiniteSet(InFlight(u)) /\ Cardinality(InFlight(u)) \in Nat
    BY <1>1, FS_CardinalityType DEF PaidInv
  <2>4. /\ IsFiniteSet(InFlight(u) \cup {c})
        /\ Cardinality(InFlight(u) \cup {c}) = Cardinality(InFlight(u)) + 1
    BY <2>1, <2>3, FS_AddElement
  <2>5. charged[u] = sent[u] + lost[u] + Cardinality(InFlight(u))
    BY <1>1 DEF PaidInv
  <2>6. charged'[u] = sent'[u] + lost'[u] + Cardinality(InFlight(u)')
    BY <1>1, <1>2, <1>3, <1>7, <2>1, <2>3, <2>4, <2>5
  <2>7. \A v \in Users \ {u} :
          IsFiniteSet(InFlight(v)') /\ charged'[v] = sent'[v] + lost'[v] + Cardinality(InFlight(v)')
    BY <1>1, <1>3, <2>2 DEF PaidInv
  <2> QED BY <2>1, <2>4, <2>6, <2>7 DEF PaidInv
<1> QED BY <1>6, <1>7

(* A charge whose answer is lost is a lost alert.                          *)
LEMMA UnansweredPaid ==
  ASSUME TypeOK, PaidInv, NEW c \in Callers, DeductUnanswered(c)
  PROVE  PaidInv'
<1> DEFINE d == DeductOf(User(c), gate[c].today)
<1>0. PICK u \in Users : u = User(c) /\ gate[c].pc = "lock"
  BY UserType DEF Deduct, DeductUnanswered, At
<1>1. /\ gate[c].pc = "lock" /\ Book(u, d) /\ sent' = sent /\ Leave(c)
      /\ lost' = IF d.type = "no_credits" THEN lost ELSE [lost EXCEPT ![u] = @ + 1]
  BY <1>0 DEF DeductUnanswered, Add
<1>2. /\ gate \in [Callers -> Gated]
      /\ charged \in [Users -> Nat] /\ sent \in [Users -> Nat] /\ lost \in [Users -> Nat]
  BY DEF TypeOK, GateOK, MoneyOK, WorldOK, Tally
<1> HIDE DEF d
<1>3. /\ charged'[u] = charged[u] + (IF d.type = "no_credits" THEN 0 ELSE 1)
      /\ \A v \in Users \ {u} : charged'[v] = charged[v]
  BY <1>1, BookCharges
<1>4. /\ lost'[u] = lost[u] + (IF d.type = "no_credits" THEN 0 ELSE 1)
      /\ \A v \in Users \ {u} : lost'[v] = lost[v]
  <2>1. CASE d.type = "no_credits"
    BY <1>1, <1>2, <2>1
  <2>2. CASE d.type # "no_credits"
    BY <1>1, <1>2, <2>2
  <2> QED BY <2>1, <2>2
<1>5. (\A e \in Callers \ {c} : gate'[e] = gate[e]) /\ gate'[c].pc = "off"
  BY <1>1, <1>2 DEF Leave, Off
<1>6. \A v \in Users : InFlight(v)' = InFlight(v)
  BY <1>1, <1>5, FlightStays
<1>7. \A v \in Users \ {u} :
        IsFiniteSet(InFlight(v)') /\ charged'[v] = sent'[v] + lost'[v] + Cardinality(InFlight(v)')
  BY <1>1, <1>3, <1>4, <1>6 DEF PaidInv
<1>8. IsFiniteSet(InFlight(u)) /\ Cardinality(InFlight(u)) \in Nat
  BY <1>1, FS_CardinalityType DEF PaidInv
<1>9. charged[u] = sent[u] + lost[u] + Cardinality(InFlight(u))
  BY <1>1 DEF PaidInv
<1>10. charged'[u] = sent'[u] + lost'[u] + Cardinality(InFlight(u)')
  BY <1>1, <1>2, <1>3, <1>4, <1>6, <1>8, <1>9
<1> QED BY <1>1, <1>6, <1>7, <1>8, <1>10 DEF PaidInv

(* A caller that leaves while it is about to send has sent or lost its     *)
(* alert: Telegram took it, Telegram refused it, or the process died.      *)
LEMMA LandedPaid ==
  ASSUME TypeOK, PaidInv, NEW c \in Callers, At(c, "send"), Leave(c), charged' = charged,
         \/ sent' = Add(sent, User(c), 1) /\ lost' = lost
         \/ lost' = Add(lost, User(c), 1) /\ sent' = sent
  PROVE  PaidInv'
<1>0. PICK u \in Users : u = User(c)
  BY UserType DEF At
<1>1. /\ gate[c].pc = "send"
      /\ \/ sent' = [sent EXCEPT ![u] = @ + 1] /\ lost' = lost
         \/ lost' = [lost EXCEPT ![u] = @ + 1] /\ sent' = sent
  BY <1>0 DEF At, Add
<1>2. /\ gate \in [Callers -> Gated]
      /\ charged \in [Users -> Nat] /\ sent \in [Users -> Nat] /\ lost \in [Users -> Nat]
  BY DEF TypeOK, GateOK, MoneyOK, WorldOK, Tally
<1>3. (\A e \in Callers \ {c} : gate'[e] = gate[e]) /\ gate'[c].pc = "off"
  BY <1>2 DEF Leave, Off
<1>4. InFlight(u)' = InFlight(u) \ {c} /\ c \in InFlight(u)
  BY <1>0, <1>1, <1>3 DEF InFlight, At, User
<1>5. \A v \in Users \ {u} : InFlight(v)' = InFlight(v)
  BY <1>0, <1>1, <1>3 DEF InFlight, At, User
<1>6. /\ IsFiniteSet(InFlight(u))
      /\ charged[u] = sent[u] + lost[u] + Cardinality(InFlight(u))
  BY <1>1 DEF PaidInv
<1>7. Cardinality(InFlight(u)) \in Nat
  BY <1>6, FS_CardinalityType
<1>8. /\ IsFiniteSet(InFlight(u) \ {c})
      /\ Cardinality(InFlight(u) \ {c}) = Cardinality(InFlight(u)) - 1
  BY <1>4, <1>6, FS_RemoveElement
<1>9. sent'[u] + lost'[u] = sent[u] + lost[u] + 1
  BY <1>1, <1>2
<1>10. \A v \in Users \ {u} : sent'[v] = sent[v] /\ lost'[v] = lost[v]
  BY <1>1, <1>2
<1>11. sent'[u] \in Nat /\ lost'[u] \in Nat /\ sent[u] \in Nat /\ lost[u] \in Nat
  BY <1>1, <1>2
<1>12. charged'[u] = sent'[u] + lost'[u] + Cardinality(InFlight(u)')
  <2>1. Cardinality(InFlight(u)') = Cardinality(InFlight(u)) - 1
    BY <1>4, <1>8
  <2>2. charged'[u] = sent[u] + lost[u] + Cardinality(InFlight(u))
    BY <1>6
  <2> QED BY <1>7, <1>9, <1>11, <2>1, <2>2
<1>13. \A v \in Users \ {u} :
         IsFiniteSet(InFlight(v)') /\ charged'[v] = sent'[v] + lost'[v] + Cardinality(InFlight(v)')
  BY <1>5, <1>10 DEF PaidInv
<1> QED BY <1>4, <1>8, <1>12, <1>13 DEF PaidInv

(* Every other step of a caller neither charges nor sends, and neither     *)
(* brings the caller to where it sends nor takes it away from there.       *)
LEMMA QuietPaid ==
  ASSUME TypeOK, PaidInv, NEW c \in Callers, NEW pc \in GatePCs, gate[c].pc # "send",
         GoTo(c, pc) \/ Leave(c), pc # "send", UNCHANGED <<charged, sent, lost>>
  PROVE  PaidInv'
<1>1. gate \in [Callers -> Gated]
  BY DEF TypeOK, GateOK
<1>2. \A e \in Callers \ {c} : gate'[e] = gate[e]
  BY <1>1 DEF GoTo, Leave
<1>3. gate'[c].pc # "send"
  BY <1>1 DEF GoTo, Leave, Off, Gated
<1> QED BY <1>2, <1>3, FlightStays, PaidFrame

(* Every alert that reaches Telegram was paid for once and every charge is *)
(* accounted for, for any number of callers and users, whatever fails,     *)
(* whoever dies and whatever the owner changes meanwhile.                  *)
THEOREM ChargesAccounted == Spec => []PaidOnce
<1>1. Init => PaidInv
  <2> SUFFICES ASSUME Init, NEW u \in Users
               PROVE  /\ IsFiniteSet(InFlight(u))
                      /\ charged[u] = sent[u] + lost[u] + Cardinality(InFlight(u))
    BY DEF PaidInv
  <2>1. InFlight(u) = {}
    BY DEF Init, InFlight, At, Off
  <2>2. charged[u] = 0 /\ sent[u] = 0 /\ lost[u] = 0
    BY DEF Init
  <2> QED BY <2>1, <2>2, FS_EmptySet
<1>2. TypeOK /\ PaidInv /\ [Next]_gateVars => PaidInv'
  <2> SUFFICES ASSUME TypeOK, PaidInv, [Next]_gateVars PROVE PaidInv'
    OBVIOUS
  <2> USE DEF At, moneyVars, outVars, GatePCs
  <2>1. gate \in [Callers -> Gated]
    BY DEF TypeOK, GateOK
  <2>2. ASSUME NEW c \in Callers, Step(c) PROVE PaidInv'
    <3>1. CASE CheckEnabled(c) \/ FindOwner(c) \/ Ask(c) \/ Nudge(c) \/ NudgeFails(c)
      BY <3>1, QuietPaid DEF CheckEnabled, FindOwner, Ask, Nudge, NudgeFails
    <3>2. CASE BeginDeduct(c)
      <4>1. /\ \A e \in Callers \ {c} : gate'[e] = gate[e]
            /\ gate[c].pc = "begin" /\ gate'[c].pc = "lock"
            /\ UNCHANGED <<charged, sent, lost>>
        BY <2>1, <3>2 DEF BeginDeduct, Gated
      <4> QED BY <4>1, FlightStays, PaidFrame
    <3>3. CASE Deduct(c)
      BY <3>3, DeductPaid
    <3>4. CASE DeductUnanswered(c)
      BY <3>4, UnansweredPaid
    <3>5. CASE Send(c) \/ SendFails(c)
      BY <3>5, LandedPaid DEF Send, SendFails
    <3>6. CASE Mark(c) \/ CallFails(c)
      BY <3>6, QuietPaid DEF Mark, CallFails
    <3> QED BY <2>2, <3>1, <3>2, <3>3, <3>4, <3>5, <3>6 DEF Step
  <2>3. ASSUME NEW c \in Callers, Late(c) PROVE PaidInv'
    <3>1. /\ \A e \in Callers : gate'[e].pc = gate[e].pc /\ gate'[e].mon = gate[e].mon
          /\ UNCHANGED <<charged, sent, lost>>
      BY <2>1, <2>3 DEF Late, Expired, Gated
    <3>2. \A u \in Users : InFlight(u)' = InFlight(u)
      BY <3>1 DEF InFlight, User
    <3> QED BY <3>1, <3>2, PaidFrame
  <2>4. ASSUME NEW c \in Callers, Die(c) PROVE PaidInv'
    <3>1. CASE gate[c].pc = "send"
      BY <2>4, <3>1, LandedPaid DEF Die, Abandon
    <3>2. CASE gate[c].pc # "send"
      BY <2>4, <3>2, QuietPaid DEF Die, Abandon
    <3> QED BY <3>1, <3>2
  <2>5. ASSUME NEW c \in Callers, NEW m \in Monitors, Begin(c, m, "down", FALSE) PROVE PaidInv'
    <3>1. /\ \A e \in Callers \ {c} : gate'[e] = gate[e]
          /\ gate[c].pc = "off" /\ gate'[c].pc = "enabled"
          /\ UNCHANGED <<charged, sent, lost>>
      BY <2>1, <2>5 DEF Begin, Off
    <3> QED BY <3>1, FlightStays, PaidFrame
  <2>6. CASE World
    <3>1. UNCHANGED <<gate, charged, sent, lost>>
      BY <2>6 DEF World, NextDay, WeekPasses, Buy, ToggleMute, ChangeReach
    <3> QED BY <3>1, PaidFrame DEF InFlight, User
  <2>7. CASE UNCHANGED gateVars
    <3>1. UNCHANGED <<gate, charged, sent, lost>>
      BY <2>7 DEF gateVars
    <3> QED BY <3>1, PaidFrame DEF InFlight, User
  <2> QED BY <2>2, <2>3, <2>4, <2>5, <2>6, <2>7 DEF Next
<1>3. PaidInv => PaidOnce
  BY DEF PaidInv, PaidOnce
<1> QED BY <1>1, <1>2, <1>3, TypeCorrect, PTL DEF Spec
=============================================================================
