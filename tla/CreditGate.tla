----------------------------- MODULE CreditGate -----------------------------
(***************************************************************************)
(* The gate between a decided alert and the user's Telegram chat:          *)
(* dispatchAlert and sendCreditReminder of services/alert_service.go, over *)
(* the credit ledger of db/telegram.sql.  Each call is one or more         *)
(* database round trips; several callers, the dashboard, the payment       *)
(* endpoint and midnight run between them.                                 *)
(*                                                                         *)
(* A ledger row that does not exist yet behaves as a row with nothing used *)
(* and nothing bought, because deduct_telegram_credit and                  *)
(* add_purchased_credits insert exactly that row; so every user has one.   *)
(* The credits of a purchase are the number the client's request names,    *)
(* which nobody checks for its sign: a purchase may lower the balance.     *)
(* Operators named Bug... are mutants of the definition after them.        *)
(***************************************************************************)
EXTENDS Integers, FiniteSets

CONSTANTS
  Callers,      \* goroutines that call dispatchAlert
  Users,
  Monitors,
  Owner,        \* Owner[m]: the user who owns monitor m
  FreePerDay,   \* free alerts a day (3 in the code)
  Packs,        \* credits one purchase may bring
  MaxAlerts,    \* bound: alerts in a behaviour
  MaxBuys,      \* bound: purchases in a behaviour
  MaxDay,       \* bound: midnights in a behaviour
  MaxEdits,     \* bound: mute toggles and link changes in a behaviour
  Faults,       \* kinds of fault: "enabled", "owner", "deduct", "ask" and "mark" (the
                \* database call fails), "reply", "send", "timeout" and "crash"
  MaxFaults     \* bound: faults in a behaviour

ASSUME OwnerAssumption == Owner \in [Monitors -> Users]
ASSUME CreditAssumption ==
  /\ FreePerDay \in Nat /\ Packs \subseteq Int /\ MaxDay \in Nat /\ MaxFaults \in Nat
  /\ MaxAlerts \in Nat /\ MaxBuys \in Nat /\ MaxEdits \in Nat

VARIABLES
  gate,       \* gate[c]: where dispatchAlert called by c is
  ledger,     \* telegram_credits
  muted,      \* telegram_subscriptions: notifications of the monitor are off
  reachable,  \* the monitor exists and its owner has a verified chat
  reminded,   \* last_reminded_at is less than seven days old
  day,        \* CURRENT_DATE
  faults,
  count,      \* bounds: alerts, purchases and edits so far
  freeOn,     \* history: freeOn[u][d] free charges made in the window of day d
  spent,      \* history: purchased credits charged
  charged,    \* history: all charges
  bought,     \* total_purchased_ever
  gained,     \* history: what the purchases that raised the balance brought
  sent,       \* history: alerts handed to Telegram
  lost,       \* history: charges whose alert did not reach Telegram
  nudges      \* history: reminders sent since the last one aged seven days

moneyVars == <<ledger, freeOn, spent, charged, bought, gained>>
outVars == <<sent, lost, nudges>>
settingVars == <<muted, reachable, day, count>>
gateVars == <<gate, moneyVars, reminded, outVars, settingVars, faults>>

Off == [pc |-> "off", mon |-> "none", kind |-> "none", today |-> 0, late |-> FALSE]
User(c) == Owner[gate[c].mon]

Init ==
  /\ gate = [c \in Callers |-> Off]
  /\ ledger = [u \in Users |-> [used |-> 0, resetDay |-> 0, purchased |-> 0]]
  /\ muted = [m \in Monitors |-> FALSE] /\ reachable = [m \in Monitors |-> TRUE]
  /\ reminded = [u \in Users |-> FALSE]
  /\ day = 0 /\ faults = 0 /\ count = [alerts |-> 0, buys |-> 0, edits |-> 0]
  /\ freeOn = [u \in Users |-> [d \in 0..MaxDay |-> 0]]
  /\ spent = [u \in Users |-> 0] /\ charged = [u \in Users |-> 0] /\ bought = [u \in Users |-> 0]
  /\ gained = [u \in Users |-> 0]
  /\ sent = [u \in Users |-> 0] /\ lost = [u \in Users |-> 0]
  /\ nudges = [u \in Users |-> 0]

Add(f, u, n) == [f EXCEPT ![u] = @ + n]

At(c, pc) == gate[c].pc = pc
GoTo(c, pc) == gate' = [gate EXCEPT ![c].pc = pc]
Leave(c) == gate' = [gate EXCEPT ![c] = Off]

Fault(kind) == kind \in Faults /\ faults < MaxFaults /\ faults' = faults + 1
NoFault == faults' = faults

(* A database call works only before the deadline of the batch.            *)
Works(c) == ~gate[c].late /\ NoFault
Breaks(c, kind) == IF gate[c].late THEN NoFault ELSE Fault(kind)

-----------------------------------------------------------------------------
(* deduct_telegram_credit on a locked row, with the date its transaction   *)
(* began on.                                                               *)

BugDailyReset(row, today) ==
  IF row.resetDay # today THEN [row EXCEPT !.used = 0, !.resetDay = today] ELSE row

DailyReset(row, today) ==
  IF row.resetDay < today THEN [row EXCEPT !.used = 0, !.resetDay = today] ELSE row

BugCharge(row) ==
  IF row.used < FreePerDay THEN [row |-> [row EXCEPT !.used = @ + 1], type |-> "free"]
  ELSE IF row.purchased >= 0 THEN [row |-> [row EXCEPT !.purchased = @ - 1], type |-> "purchased"]
  ELSE [row |-> row, type |-> "no_credits"]

Charge(row) ==
  IF row.used < FreePerDay THEN [row |-> [row EXCEPT !.used = @ + 1], type |-> "free"]
  ELSE IF row.purchased > 0 THEN [row |-> [row EXCEPT !.purchased = @ - 1], type |-> "purchased"]
  ELSE [row |-> row, type |-> "no_credits"]

DeductOf(u, today) == Charge(DailyReset(ledger[u], today))

Book(u, d) ==
  /\ ledger' = [ledger EXCEPT ![u] = d.row]
  /\ freeOn' = IF d.type = "free" THEN [freeOn EXCEPT ![u][d.row.resetDay] = @ + 1] ELSE freeOn
  /\ spent' = IF d.type = "purchased" THEN Add(spent, u, 1) ELSE spent
  /\ charged' = IF d.type = "no_credits" THEN charged ELSE Add(charged, u, 1)
  /\ UNCHANGED <<bought, gained>>

-----------------------------------------------------------------------------
(* dispatchAlert                                                           *)

Begin(c, m, kind, late) ==
  /\ At(c, "off") /\ count.alerts < MaxAlerts
  /\ count' = [count EXCEPT !.alerts = @ + 1]
  /\ gate' = [gate EXCEPT ![c] = [Off EXCEPT !.pc = "enabled", !.mon = m, !.kind = kind,
                                             !.late = late]]
  /\ UNCHANGED <<moneyVars, reminded, outVars, muted, reachable, day, faults>>

(* IsNotificationEnabled; no subscription row means enabled.               *)
CheckEnabled(c) ==
  /\ At(c, "enabled") /\ Works(c)
  /\ IF muted[gate[c].mon] THEN Leave(c) ELSE GoTo(c, "owner")
  /\ UNCHANGED <<moneyVars, reminded, outVars, settingVars>>

(* GetMonitorOwnerChatID; no verified chat ends the alert silently.        *)
FindOwner(c) ==
  /\ At(c, "owner") /\ Works(c)
  /\ IF reachable[gate[c].mon] THEN GoTo(c, "begin") ELSE Leave(c)
  /\ UNCHANGED <<moneyVars, reminded, outVars, settingVars>>

(* DeductCredit opens its transaction: CURRENT_DATE is fixed here, the row *)
(* is locked later.                                                        *)
BeginDeduct(c) ==
  /\ At(c, "begin") /\ Works(c)
  /\ gate' = [gate EXCEPT ![c].pc = "lock", ![c].today = day]
  /\ UNCHANGED <<moneyVars, reminded, outVars, settingVars>>

BugDeduct(c) ==
  LET d == DeductOf(User(c), gate[c].today)
  IN  /\ At(c, "lock") /\ Works(c)
      /\ Book(User(c), d)
      /\ GoTo(c, "send")
      /\ UNCHANGED <<reminded, outVars, settingVars>>

Deduct(c) ==
  LET d == DeductOf(User(c), gate[c].today)
  IN  /\ At(c, "lock") /\ Works(c)
      /\ Book(User(c), d)
      /\ GoTo(c, IF d.type = "no_credits" THEN "ask" ELSE "send")
      /\ UNCHANGED <<reminded, outVars, settingVars>>

(* The transaction commits and its answer is lost: DeductCredit returns an *)
(* error and the alert is not sent.                                        *)
DeductUnanswered(c) ==
  LET d == DeductOf(User(c), gate[c].today)
  IN  /\ At(c, "lock") /\ ~gate[c].late /\ Fault("reply")
      /\ Book(User(c), d)
      /\ lost' = IF d.type = "no_credits" THEN lost ELSE Add(lost, User(c), 1)
      /\ Leave(c)
      /\ UNCHANGED <<reminded, sent, nudges, settingVars>>

Send(c) ==
  /\ At(c, "send") /\ NoFault
  /\ sent' = Add(sent, User(c), 1)
  /\ Leave(c)
  /\ UNCHANGED <<moneyVars, reminded, lost, nudges, settingVars>>

(* Telegram refuses the message: the credit is not given back.             *)
SendFails(c) ==
  /\ At(c, "send") /\ Fault("send")
  /\ lost' = Add(lost, User(c), 1)
  /\ Leave(c)
  /\ UNCHANGED <<moneyVars, reminded, sent, nudges, settingVars>>

-----------------------------------------------------------------------------
(* sendCreditReminder                                                      *)

BugAsk(c) ==
  /\ At(c, "ask") /\ Works(c)
  /\ GoTo(c, IF reminded[User(c)] THEN "ask" ELSE "nudge")
  /\ UNCHANGED <<moneyVars, reminded, outVars, settingVars>>

Ask(c) ==
  /\ At(c, "ask") /\ Works(c)
  /\ IF reminded[User(c)] THEN Leave(c) ELSE GoTo(c, "nudge")
  /\ UNCHANGED <<moneyVars, reminded, outVars, settingVars>>

Nudge(c) ==
  /\ At(c, "nudge") /\ NoFault
  /\ nudges' = Add(nudges, User(c), 1)
  /\ GoTo(c, "mark")
  /\ UNCHANGED <<moneyVars, reminded, sent, lost, settingVars>>

NudgeFails(c) ==
  /\ At(c, "nudge") /\ Fault("send")
  /\ Leave(c)
  /\ UNCHANGED <<moneyVars, reminded, outVars, settingVars>>

BugMark(c) ==
  /\ At(c, "mark") /\ Works(c)
  /\ Leave(c)
  /\ UNCHANGED <<moneyVars, reminded, outVars, settingVars>>

Mark(c) ==
  /\ At(c, "mark") /\ Works(c)
  /\ reminded' = [reminded EXCEPT ![User(c)] = TRUE]
  /\ Leave(c)
  /\ UNCHANGED <<moneyVars, outVars, settingVars>>

(* A database call of dispatchAlert fails; the error is only logged.       *)
CallFails(c) ==
  /\ \/ At(c, "enabled") /\ Breaks(c, "enabled")
     \/ At(c, "owner") /\ Breaks(c, "owner")
     \/ gate[c].pc \in {"begin", "lock"} /\ Breaks(c, "deduct")
     \/ At(c, "ask") /\ Breaks(c, "ask")
     \/ At(c, "mark") /\ Breaks(c, "mark")
  /\ Leave(c)
  /\ UNCHANGED <<moneyVars, reminded, outVars, settingVars>>

(* The deadline of the batch passes while the alert is under way.          *)
Expired(c) ==
  /\ gate' = [gate EXCEPT ![c].late = TRUE]
  /\ UNCHANGED <<moneyVars, reminded, outVars, settingVars>>

Late(c) == gate[c].pc # "off" /\ ~gate[c].late /\ Fault("timeout") /\ Expired(c)

(* The process of c dies: a charge not yet sent is lost.                   *)
Abandon(c) ==
  /\ lost' = IF At(c, "send") THEN Add(lost, User(c), 1) ELSE lost
  /\ Leave(c)
  /\ UNCHANGED <<moneyVars, reminded, sent, nudges, settingVars>>

Die(c) == gate[c].pc # "off" /\ Fault("crash") /\ Abandon(c)

Step(c) ==
  \/ CheckEnabled(c) \/ FindOwner(c) \/ BeginDeduct(c) \/ Deduct(c) \/ DeductUnanswered(c)
  \/ Send(c) \/ SendFails(c) \/ Ask(c) \/ Nudge(c) \/ NudgeFails(c) \/ Mark(c) \/ CallFails(c)

-----------------------------------------------------------------------------
(* The rest of the world.                                                  *)

NextDay ==
  /\ day < MaxDay /\ day' = day + 1
  /\ UNCHANGED <<gate, moneyVars, reminded, outVars, muted, reachable, count, faults>>

(* Seven days pass since the last recorded reminder of u.                  *)
WeekPasses(u) ==
  /\ reminded[u] /\ count.edits < MaxEdits
  /\ count' = [count EXCEPT !.edits = @ + 1]
  /\ reminded' = [reminded EXCEPT ![u] = FALSE]
  /\ nudges' = [nudges EXCEPT ![u] = 0]
  /\ UNCHANGED <<gate, moneyVars, sent, lost, muted, reachable, day, faults>>

(* ToggleNotification by the bot's button: UpsertSubscription.             *)
ToggleMute(m) ==
  /\ count.edits < MaxEdits /\ count' = [count EXCEPT !.edits = @ + 1]
  /\ muted' = [muted EXCEPT ![m] = ~@]
  /\ UNCHANGED <<gate, moneyVars, reminded, outVars, reachable, day, faults>>

(* The owner links or relinks the account, or the monitor is deleted.      *)
ChangeReach(m) ==
  /\ count.edits < MaxEdits /\ count' = [count EXCEPT !.edits = @ + 1]
  /\ reachable' = [reachable EXCEPT ![m] = ~@]
  /\ UNCHANGED <<gate, moneyVars, reminded, outVars, muted, day, faults>>

(* add_purchased_credits, one atomic upsert, by any number of credits.     *)
Buy(u, n) ==
  /\ count.buys < MaxBuys /\ count' = [count EXCEPT !.buys = @ + 1]
  /\ ledger' = [ledger EXCEPT ![u].purchased = @ + n]
  /\ bought' = Add(bought, u, n)
  /\ gained' = Add(gained, u, IF n > 0 THEN n ELSE 0)
  /\ UNCHANGED <<gate, freeOn, spent, charged, reminded, outVars, muted, reachable, day, faults>>

World ==
  NextDay \/ (\E u \in Users : WeekPasses(u) \/ \E n \in Packs : Buy(u, n))
  \/ (\E m \in Monitors : ToggleMute(m) \/ ChangeReach(m))

Next ==
  \/ \E c \in Callers : Step(c) \/ Late(c) \/ Die(c)
  \/ \E c \in Callers, m \in Monitors : Begin(c, m, "down", FALSE)
  \/ World

Spec == Init /\ [][Next]_gateVars
FairSpec == Spec /\ \A c \in Callers : WF_gateVars(Step(c))

-----------------------------------------------------------------------------
GatePCs == {"off", "enabled", "owner", "begin", "lock", "send", "ask", "nudge", "mark"}

Gated == [pc : GatePCs, mon : Monitors \cup {"none"}, kind : {"none", "down", "restored"},
          today : 0..day, late : BOOLEAN]
Row == [used : 0..FreePerDay, resetDay : 0..day, purchased : Int]
Tally == [Users -> Nat]

GateOK ==
  /\ gate \in [Callers -> Gated]
  /\ \A c \in Callers : gate[c].pc # "off" => gate[c].mon \in Monitors
MoneyOK ==
  /\ ledger \in [Users -> Row]
  /\ freeOn \in [Users -> [0..MaxDay -> Nat]]
  /\ spent \in Tally /\ charged \in Tally /\ gained \in Tally /\ bought \in [Users -> Int]
WorldOK ==
  /\ muted \in [Monitors -> BOOLEAN] /\ reachable \in [Monitors -> BOOLEAN]
  /\ reminded \in [Users -> BOOLEAN] /\ day \in 0..MaxDay /\ faults \in Nat
  /\ count \in [alerts : Nat, buys : Nat, edits : Nat]
  /\ sent \in Tally /\ lost \in Tally /\ nudges \in Tally

(* The shape of the state: no row and no transaction is ahead of the date, *)
(* no row has more used than is free.                                      *)
TypeOK == GateOK /\ MoneyOK /\ WorldOK

(* In the window of any one day at most FreePerDay alerts go free, however *)
(* many callers deduct across midnight and in whatever order their         *)
(* transactions get the row (README.md:316, db/telegram.sql:110-126).      *)
FreeQuota == \A u \in Users : \A d \in 0..MaxDay : freeOn[u][d] <= FreePerDay

(* The window never moves back: a transaction that began before midnight   *)
(* and runs after the reset of the new day does not reopen the old day.    *)
WindowForward == [][\A u \in Users : ledger'[u].resetDay >= ledger[u].resetDay]_ledger

(* Credits are conserved: total_purchased_ever is in the balance or was    *)
(* charged, and alerts are never charged more credits than purchases       *)
(* brought in, however callers overlap and also after a purchase of a      *)
(* negative number, which alone takes the balance below zero.              *)
CreditsConserved ==
  \A u \in Users :
    ledger[u].purchased + spent[u] = bought[u] /\ spent[u] <= gained[u]

InFlight(u) == {c \in Callers : At(c, "send") /\ User(c) = u}

(* Every alert that reaches Telegram was paid for by a charge of its own,  *)
(* and every charge is a sent alert, a lost one or one about to be sent.   *)
PaidOnce == \A u \in Users : charged[u] = sent[u] + lost[u] + Cardinality(InFlight(u))

(* At most one reminder in seven days (README.md:349).                     *)
OneReminder == \A u \in Users : nudges[u] <= 1

(* dispatchAlert always returns, so the batch behind it goes on.           *)
GateReturns == \A c \in Callers : (gate[c].pc # "off") ~> (gate[c].pc = "off")

(* GetCreditStatus: what the dashboard shows as free credits left ...      *)
ShownFree(u) == FreePerDay - ledger[u].used

(* ... is what the next alerts of today will be given (dto/telegram.go:24).*)
ShownFreeIsFree ==
  \A u \in Users : ShownFree(u) = FreePerDay - DailyReset(ledger[u], day).used
=============================================================================
