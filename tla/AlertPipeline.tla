--------------------------- MODULE AlertPipeline ---------------------------
(***************************************************************************)
(* The notification pipeline from the queue to the chat: AlertConsumer     *)
(* with its Dispatch step opened up into the credit gate, one gate per     *)
(* consumer goroutine.  The two parts meet in four places: the worker      *)
(* enters the gate with the alert it decided, leaves it when dispatchAlert *)
(* returns, shares its deadline with it and takes it down when it crashes. *)
(* Operators named Bug... are mutants of the definition after them.        *)
(***************************************************************************)
EXTENDS AlertConsumer

CONSTANTS
  Users, Owner, FreePerDay, Packs,
  MaxAlerts, MaxBuys, MaxDay, MaxEdits,   \* bounds of CreditGate
  GateFaults, MaxGateFaults               \* fault kinds and bound inside the gate

VARIABLES
  gate, ledger, muted, reachable, reminded, day, count, gateFaults,
  freeOn, spent, charged, bought, gained, sent, lost, nudges,   \* as in CreditGate
  inbox,    \* history: the last alert about the monitor that reached the chat
  news,     \* history: the row changed its verdict and no alert went out for it yet
  unmarked  \* history: credit reminders sent whose mark was never written

Gate == INSTANCE CreditGate WITH
  Callers <- Consumers, Faults <- GateFaults, MaxFaults <- MaxGateFaults, faults <- gateFaults

gateSide == <<gate, ledger, muted, reachable, reminded, day, count, gateFaults,
              freeOn, spent, charged, bought, gained, sent, lost, nudges>>
chatVars == <<inbox, news, unmarked>>
pipelineVars == <<vars, gateSide, chatVars>>

PipelineInit ==
  /\ Init /\ Gate!Init
  /\ inbox = [m \in Monitors |-> "none"]
  /\ news = [m \in Monitors |-> FALSE]
  /\ unmarked = [u \in Users |-> 0]

(* Every step of the consumer but Dispatch.  The history `news' notes a    *)
(* written row with another verdict.                                       *)
ConsumerStep(c) ==
  /\ Consume(c)
  /\ news' = [m \in Monitors |-> news[m] \/ health'[m].isDown # health[m].isDown]
  /\ UNCHANGED <<gateSide, inbox, unmarked>>

(* The worker calls dispatchAlert ...                                      *)
EnterGate(c) ==
  /\ worker[c].pc = "dispatch"
  /\ Gate!Begin(c, MonitorOf(Current(c)), worker[c].alert, worker[c].expired)
  /\ UNCHANGED <<vars, chatVars>>

Unmark(c) == [unmarked EXCEPT ![Owner[gate[c].mon]] = @ + 1]

BugGateStep(c) ==
  /\ Gate!Step(c)
  /\ IF gate'[c].pc # "off" THEN UNCHANGED vars
     ELSE IF Gate!SendFails(c)
     THEN Move(c, SkipResult(worker[c])) /\ UNCHANGED <<brokerVars, health, faults, historyVars>>
     ELSE Dispatch(c)
  /\ inbox' = IF Gate!Send(c) THEN [inbox EXCEPT ![gate[c].mon] = gate[c].kind] ELSE inbox
  /\ news' = IF Gate!Send(c) THEN [news EXCEPT ![gate[c].mon] = FALSE] ELSE news
  /\ unmarked' = IF gate[c].pc = "mark" /\ Gate!CallFails(c) THEN Unmark(c) ELSE unmarked

(* ... which runs its steps and, when it returns, lets the worker go on.   *)
GateStep(c) ==
  /\ Gate!Step(c)
  /\ IF gate'[c].pc = "off" THEN Dispatch(c) ELSE UNCHANGED vars
  /\ inbox' = IF Gate!Send(c) THEN [inbox EXCEPT ![gate[c].mon] = gate[c].kind] ELSE inbox
  /\ news' = IF Gate!Send(c) THEN [news EXCEPT ![gate[c].mon] = FALSE] ELSE news
  /\ unmarked' = IF gate[c].pc = "mark" /\ Gate!CallFails(c) THEN Unmark(c) ELSE unmarked

BugPipelineExpire(c) ==
  /\ Expire(c) /\ UNCHANGED <<gateSide, chatVars>>

PipelineExpire(c) ==
  /\ Expire(c)
  /\ IF gate[c].pc = "off" THEN UNCHANGED gateSide
     ELSE Gate!Expired(c) /\ UNCHANGED gateFaults
  /\ UNCHANGED chatVars

PipelineCrash(c) ==
  /\ Crash(c) /\ Gate!Abandon(c)
  /\ unmarked' = IF gate[c].pc = "mark" THEN Unmark(c) ELSE unmarked
  /\ UNCHANGED <<gateFaults, inbox, news>>

ProcessWork(c) == ConsumerStep(c) \/ EnterGate(c) \/ GateStep(c)

GateIdles == UNCHANGED <<gateSide, chatVars>>

PipelineNext ==
  \/ Publish /\ GateIdles
  \/ \E c \in Consumers : ProcessWork(c) \/ PipelineExpire(c) \/ PipelineCrash(c)
                          \/ ((Close(c) \/ Restart(c)) /\ GateIdles)
  \/ Gate!World /\ UNCHANGED <<vars, chatVars>>

PipelineSpec == PipelineInit /\ [][PipelineNext]_pipelineVars

FairPipeline ==
  PipelineSpec /\ \A c \in Consumers :
    WF_pipelineVars(ProcessWork(c)) /\ WF_pipelineVars(Restart(c) /\ GateIdles)

-----------------------------------------------------------------------------
(* The gate is open only while its worker dispatches, for the monitor and  *)
(* the alert the worker decided, under the same deadline.                  *)
GateFollowsWorker ==
  \A c \in Consumers : gate[c].pc # "off" =>
    /\ worker[c].pc = "dispatch"
    /\ gate[c].mon = MonitorOf(Current(c)) /\ gate[c].kind = worker[c].alert
    /\ gate[c].late = worker[c].expired

(* The pipeline implements the consumer in which dispatching is one step,  *)
(* so what is checked and proved of AlertConsumer holds of it; under       *)
(* fairness the gate never holds the batch up for good.                    *)
ImplementsConsumer == FairSpec

(* An alert that is about to be sent tells of a change of the row no alert *)
(* has told of yet: redelivered batches, crashes and failed sends repeat   *)
(* no alert (README.md:252, "already down, no repeat").                    *)
AlertIsNews ==
  \A c \in Consumers : gate[c].pc = "send" => news[gate[c].mon]

(* At most one credit reminder in seven days (README.md:349): one instance *)
(* sends another only for a reminder whose mark was lost to a failed call, *)
(* the deadline or a crash between sending and marking it.                 *)
OneReminder == \A u \in Users : nudges[u] <= 1 + unmarked[u]

(* RESTORED is sent only after a DOWN alert was sent (README.md:257).      *)
RestoredAfterDown ==
  \A c \in Consumers :
    gate[c].pc = "send" /\ gate[c].kind = "restored" => inbox[gate[c].mon] = "down"
=============================================================================
