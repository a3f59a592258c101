--------------------------- MODULE AlertConsumer ---------------------------
(***************************************************************************)
(* The alert consumer: RabbitMQ's telegram_queue, the consumer goroutine   *)
(* of each running instance of the service (services/consumer_service.go)  *)
(* and the two-packet health rows it maintains (services/alert_service.go).*)
(*                                                                         *)
(* A message carries a batch of ping results.  A consumer holds one        *)
(* unacknowledged message at a time (Qos prefetch 1) and, for each result, *)
(* reads the monitor's health row, writes the new row and dispatches an    *)
(* alert: three database round trips between which other instances run,    *)
(* the process may die, the channel may close and the 30 s deadline may    *)
(* pass.                                                                   *)
(*                                                                         *)
(* Operators named Bug... are mutants of the definition after them: no     *)
(* specification uses one, and a run must fail when one takes its place.   *)
(***************************************************************************)
EXTENDS Integers, Sequences, FiniteSets

CONSTANTS
  Consumers,    \* running instances of the service, one consumer goroutine each
  Monitors,     \* monitor ids a result can name
  NoMonitor,    \* the empty monitor id
  Poison,       \* ids that are no UUID: every lookup of their row fails
  Malformed,    \* a body that is not JSON
  Bodies,       \* the message bodies the ping pipeline publishes
  MaxPublish,   \* bound: messages published in a behaviour
  Faults,       \* kinds of fault: "lookup", "upsert" (the database call fails), "timeout",
                \* "crash" and "close" (of the channel)
  MaxFaults     \* bound: faults in a behaviour

(* A result names its monitor, or only a job "<monitor>:<n>"; `job' is the *)
(* part before the colon.                                                  *)
Result == [mid : Monitors \cup {NoMonitor}, job : Monitors \cup {NoMonitor},
           ok : BOOLEAN]

ASSUME MonitorsAssumption == NoMonitor \notin Monitors /\ Poison \subseteq Monitors
ASSUME BodiesAssumption == \A b \in Bodies : b = Malformed \/ b \in Seq(Result)
ASSUME BoundsAssumption ==
  MaxPublish \in Nat /\ MaxFaults \in Nat

VARIABLES
  log,      \* bodies in the order they were published; a message is an index
  queue,    \* ready messages, head first
  open,     \* open[c]: the broker has a channel to consumer c
  worker,   \* worker[c]: where handleDelivery of consumer c is
  health,   \* monitor_health_state
  acked, dropped,   \* messages settled for good
  faults,   \* faults so far
  judged,   \* history: checks <<message, index>> that a lookup succeeded for
  saved,    \* history: checks whose new row was written
  failing,  \* history: distinct failed checks counted since the last success
  nacked    \* history: messages requeued after an error

brokerVars == <<log, queue, open, acked, dropped>>
historyVars == <<judged, saved, failing, nacked>>
vars == <<brokerVars, worker, health, faults, historyVars>>

Messages == DOMAIN log
Health == [isDown : BOOLEAN, cf : Nat, alertSent : BOOLEAN]
Healthy == [isDown |-> FALSE, cf |-> 0, alertSent |-> FALSE]
Idle == [pc |-> "idle", msg |-> 0, idx |-> 1, failed |-> FALSE, expired |-> FALSE,
         st |-> Healthy, alert |-> "none"]

-----------------------------------------------------------------------------
(* ProcessPingResult: the two-packet rule on one row.                      *)

BugDownThreshold == 1
DownThreshold == 2

OnFailure(h) ==
  LET goesDown == h.cf + 1 >= DownThreshold /\ ~h.isDown
  IN  [isDown |-> h.isDown \/ goesDown, cf |-> h.cf + 1,
       alertSent |-> h.alertSent \/ goesDown]

BugOnSuccess(h) == [h EXCEPT !.isDown = FALSE, !.cf = 0]
OnSuccess(h) == Healthy

NextHealth(h, ok) == IF ok THEN OnSuccess(h) ELSE OnFailure(h)

BugAlertFor(h, ok) ==
  IF ok THEN IF h.isDown /\ h.alertSent THEN "restored" ELSE "none"
  ELSE IF h.cf + 1 >= DownThreshold THEN "down" ELSE "none"

AlertFor(h, ok) ==
  IF ok THEN IF h.isDown /\ h.alertSent THEN "restored" ELSE "none"
  ELSE IF h.cf + 1 >= DownThreshold /\ ~h.isDown THEN "down" ELSE "none"

MonitorOf(r) == IF r.mid = NoMonitor THEN r.job ELSE r.mid

-----------------------------------------------------------------------------
Body(c) == log[worker[c].msg]
Current(c) == Body(c)[worker[c].idx]
Check(c) == <<worker[c].msg, worker[c].idx>>
Holds(c) == IF open[c] THEN worker[c].msg ELSE 0    \* unacknowledged at the broker

Move(c, w) == worker' = [worker EXCEPT ![c] = w]
BugNextResult(w) == [w EXCEPT !.pc = "check", !.idx = @ + 2, !.alert = "none", !.st = Healthy]
NextResult(w) == [w EXCEPT !.pc = "check", !.idx = @ + 1, !.alert = "none", !.st = Healthy]
BugSkipResult(w) == NextResult(w)
SkipResult(w) == [NextResult(w) EXCEPT !.failed = TRUE]

BugDone(w) == [Idle EXCEPT !.expired = w.expired]
Done(w) == Idle    \* handleDelivery returns; each delivery has a deadline of its own

MayFail(kind) == kind \in Faults /\ faults < MaxFaults
Fail(kind) == MayFail(kind) /\ faults' = faults + 1
NoFault == faults' = faults

(* The database call of step `kind' fails: the deadline has passed, or it  *)
(* is one of the bounded faults.                                           *)
CallFails(c, kind) == \/ worker[c].expired /\ NoFault
                      \/ ~worker[c].expired /\ Fail(kind)

Requeue(c) == IF Holds(c) = 0 THEN queue ELSE <<Holds(c)>> \o queue

-----------------------------------------------------------------------------
Init ==
  /\ log = << >> /\ queue = << >>
  /\ open = [c \in Consumers |-> TRUE]
  /\ worker = [c \in Consumers |-> Idle]
  /\ health = [m \in Monitors |-> Healthy]
  /\ acked = {} /\ dropped = {} /\ faults = 0
  /\ judged = {} /\ saved = {} /\ failing = [m \in Monitors |-> {}] /\ nacked = {}

(* The ping pipeline publishes to exchange monitor_updates.                *)
Publish ==
  /\ Len(log) < MaxPublish
  /\ \E b \in Bodies : log' = Append(log, b)
  /\ queue' = Append(queue, Len(log'))
  /\ UNCHANGED <<open, acked, dropped, worker, health, faults, historyVars>>

(* The select loop of Start takes a delivery.                              *)
Receive(c) ==
  /\ open[c] /\ worker[c].pc = "idle" /\ queue # << >>
  /\ Move(c, [worker[c] EXCEPT !.pc = "check", !.msg = Head(queue)])
  /\ queue' = Tail(queue)
  /\ UNCHANGED <<log, open, acked, dropped, health, faults, historyVars>>

(* A body that does not parse is rejected without requeue.                 *)
Discard(c) ==
  /\ worker[c].pc = "check" /\ Body(c) = Malformed
  /\ dropped' = IF open[c] THEN dropped \cup {worker[c].msg} ELSE dropped
  /\ Move(c, Done(worker[c]))
  /\ UNCHANGED <<log, queue, open, acked, health, faults, historyVars>>

AtResult(c) ==
  /\ worker[c].pc = "check" /\ Body(c) # Malformed
  /\ worker[c].idx <= Len(Body(c))

(* A result that names no monitor is accepted without a lookup.            *)
Ignore(c) ==
  /\ AtResult(c) /\ MonitorOf(Current(c)) = NoMonitor
  /\ Move(c, NextResult(worker[c]))
  /\ UNCHANGED <<brokerVars, health, faults, historyVars>>

(* GetHealthState, and the decision taken on the row it returned.          *)
Judge(c) ==
  LET m == MonitorOf(Current(c))
      ok == Current(c).ok
  IN  /\ AtResult(c) /\ m \notin Poison \cup {NoMonitor}
      /\ ~worker[c].expired
      /\ Move(c, [worker[c] EXCEPT !.pc = "upsert", !.st = NextHealth(health[m], ok),
                                   !.alert = AlertFor(health[m], ok)])
      /\ judged' = judged \cup {Check(c)}
      /\ failing' = [failing EXCEPT ![m] = IF ok THEN {} ELSE @ \cup {Check(c)}]
      /\ UNCHANGED <<brokerVars, health, faults, saved, nacked>>

(* GetHealthState fails: lastErr is set and the batch goes on.             *)
JudgeFails(c) ==
  /\ AtResult(c) /\ MonitorOf(Current(c)) # NoMonitor
  /\ \/ MonitorOf(Current(c)) \in Poison /\ NoFault
     \/ MonitorOf(Current(c)) \notin Poison /\ CallFails(c, "lookup")
  /\ Move(c, SkipResult(worker[c]))
  /\ UNCHANGED <<brokerVars, health, historyVars>>

AfterUpsert(w) == IF w.alert = "none" THEN NextResult(w) ELSE [w EXCEPT !.pc = "dispatch"]

(* UpsertHealthState writes the whole row; its error is only logged.       *)
Upsert(c) ==
  /\ worker[c].pc = "upsert" /\ ~worker[c].expired
  /\ health' = [health EXCEPT ![MonitorOf(Current(c))] = worker[c].st]
  /\ saved' = saved \cup {Check(c)}
  /\ Move(c, AfterUpsert(worker[c]))
  /\ UNCHANGED <<brokerVars, faults, judged, failing, nacked>>

UpsertFails(c) ==
  /\ worker[c].pc = "upsert" /\ CallFails(c, "upsert")
  /\ Move(c, AfterUpsert(worker[c]))
  /\ UNCHANGED <<brokerVars, health, historyVars>>

(* dispatchAlert, in one step here; AlertPipeline opens it up.             *)
Dispatch(c) ==
  /\ worker[c].pc = "dispatch"
  /\ Move(c, NextResult(worker[c]))
  /\ UNCHANGED <<brokerVars, health, faults, historyVars>>

BatchDone(c) ==
  /\ worker[c].pc = "check" /\ Body(c) # Malformed
  /\ worker[c].idx > Len(Body(c))

(* The whole batch was processed: Ack.  An empty batch is acknowledged     *)
(* the same way.  On a closed channel the call has no effect.              *)
Ack(c) ==
  /\ BatchDone(c) /\ ~worker[c].failed
  /\ acked' = IF open[c] THEN acked \cup {worker[c].msg} ELSE acked
  /\ Move(c, Done(worker[c]))
  /\ UNCHANGED <<log, queue, open, dropped, health, faults, historyVars>>

BugRequeueFailed(c) ==
  /\ BatchDone(c) /\ worker[c].failed
  /\ nacked' = IF open[c] THEN nacked \cup {worker[c].msg} ELSE nacked
  /\ Move(c, Done(worker[c]))
  /\ UNCHANGED <<log, queue, open, acked, dropped, health, faults, judged, saved, failing>>

(* Some result failed: Nack with requeue, and RabbitMQ puts the message    *)
(* back where it was taken from, the head of the queue.                    *)
RequeueFailed(c) ==
  /\ BatchDone(c) /\ worker[c].failed
  /\ queue' = Requeue(c)
  /\ nacked' = IF open[c] THEN nacked \cup {worker[c].msg} ELSE nacked
  /\ Move(c, Done(worker[c]))
  /\ UNCHANGED <<log, open, acked, dropped, health, faults, judged, saved, failing>>

(* The 30 s deadline of the batch passes.                                  *)
Expire(c) ==
  /\ worker[c].pc \in {"check", "upsert", "dispatch"} /\ ~worker[c].expired
  /\ Fail("timeout")
  /\ Move(c, [worker[c] EXCEPT !.expired = TRUE])
  /\ UNCHANGED <<brokerVars, health, historyVars>>

(* The channel closes (connection lost, or Stop).  The broker requeues the *)
(* message at once; handleDelivery runs on and notices nothing.            *)
Close(c) ==
  /\ open[c] /\ Fail("close")
  /\ open' = [open EXCEPT ![c] = FALSE]
  /\ queue' = Requeue(c)
  /\ UNCHANGED <<log, acked, dropped, worker, health, historyVars>>

(* Start finds its delivery channel closed and returns; nothing in the     *)
(* process starts it again.                                                *)
StopConsuming(c) ==
  /\ worker[c].pc = "idle" /\ ~open[c]
  /\ Move(c, [Idle EXCEPT !.pc = "stopped"])
  /\ UNCHANGED <<brokerVars, health, faults, historyVars>>

(* The process dies; the broker requeues what it held.                     *)
Crash(c) ==
  /\ worker[c].pc # "dead" /\ Fail("crash")
  /\ open' = [open EXCEPT ![c] = FALSE]
  /\ queue' = Requeue(c)
  /\ Move(c, [Idle EXCEPT !.pc = "dead"])
  /\ UNCHANGED <<log, acked, dropped, health, historyVars>>

(* The container comes back (docker-compose: restart: always).             *)
Restart(c) ==
  /\ worker[c].pc = "dead"
  /\ open' = [open EXCEPT ![c] = TRUE]
  /\ Move(c, Idle)
  /\ UNCHANGED <<log, queue, acked, dropped, health, faults, historyVars>>

(* The steps of the consumer goroutine itself.                             *)
Settle(c) == Discard(c) \/ Ack(c) \/ RequeueFailed(c)
Consume(c) == Receive(c) \/ Ignore(c) \/ Judge(c) \/ JudgeFails(c) \/ Upsert(c)
              \/ UpsertFails(c) \/ Settle(c) \/ StopConsuming(c)
Work(c) == Consume(c) \/ Dispatch(c)

Next ==
  \/ Publish
  \/ \E c \in Consumers : Work(c) \/ Expire(c) \/ Close(c) \/ Crash(c) \/ Restart(c)

Spec == Init /\ [][Next]_vars

(* The goroutine is scheduled and the container is restarted; publishing   *)
(* and faults are never obliged to happen.                                 *)
FairSpec == Spec /\ \A c \in Consumers : WF_vars(Work(c)) /\ WF_vars(Restart(c))

-----------------------------------------------------------------------------
PCs == {"idle", "check", "upsert", "dispatch", "stopped", "dead"}
Busy(c) == worker[c].pc \in {"check", "upsert", "dispatch"}
Worker == [pc : PCs, msg : Nat, idx : Nat \ {0}, failed : BOOLEAN, expired : BOOLEAN,
           st : Health, alert : {"none", "down", "restored"}]

(* A busy worker has a published message and stands at one of its results  *)
(* or just past the last; the others stand before a batch.                 *)
Placed(c) ==
  IF Busy(c)
  THEN /\ worker[c].msg \in Messages
       /\ Body(c) = Malformed => worker[c].pc = "check"
       /\ Body(c) # Malformed => worker[c].idx <= Len(Body(c)) + 1
       /\ worker[c].pc # "check" =>
            worker[c].idx <= Len(Body(c)) /\ MonitorOf(Current(c)) \in Monitors
  ELSE worker[c].msg = 0 /\ worker[c].idx = 1 /\ ~worker[c].failed

(* The shape of the state.                                                 *)
TypeOK ==
  /\ log \in Seq(Bodies)
  /\ queue \in Seq(Messages)
  /\ open \in [Consumers -> BOOLEAN]
  /\ worker \in [Consumers -> Worker]
  /\ health \in [Monitors -> Health]
  /\ acked \subseteq Messages /\ dropped \subseteq Messages /\ nacked \subseteq Messages
  /\ faults \in Nat
  /\ judged \subseteq Nat \X Nat /\ saved \subseteq Nat \X Nat
  /\ failing \in [Monitors -> SUBSET (Nat \X Nat)]
  /\ \A c \in Consumers : Placed(c)

Consistent(h) == (h.isDown <=> h.alertSent) /\ (h.isDown <=> h.cf >= 2)

(* A row never holds a half-made decision: it is down exactly when it      *)
(* counts two failures and exactly when it says that a DOWN alert went     *)
(* out, whatever crashes, lost writes and overlapping read-modify-writes   *)
(* of several instances did to it (ProcessPingResult and UpsertHealthState *)
(* always write the three fields together).                                *)
HealthConsistent == \A m \in Monitors : Consistent(health[m])

QueueIsSet == \A i, j \in 1..Len(queue) : queue[i] = queue[j] => i = j
Queued == {queue[i] : i \in 1..Len(queue)}
Held == {Holds(c) : c \in Consumers} \ {0}

(* Every published message is at exactly one place: ready, held by one     *)
(* consumer, acknowledged or rejected.  Nothing is lost and nothing is     *)
(* handed to two consumers that could both settle it.                      *)
OnePlace ==
  /\ QueueIsSet
  /\ \A c, d \in Consumers : Holds(c) = Holds(d) /\ Holds(c) # 0 => c = d
  /\ Messages = Queued \cup Held \cup acked \cup dropped
  /\ Queued \cap (Held \cup acked \cup dropped) = {}
  /\ Held \cap (acked \cup dropped) = {} /\ acked \cap dropped = {}

(* An acknowledged message had every one of its checks judged against the  *)
(* stored row: an error on one result of the batch, however many results   *)
(* succeed after it, keeps the message from being acknowledged.            *)
AckedMeansJudged ==
  \A id \in acked : \A i \in 1..Len(log[id]) :
    MonitorOf(log[id][i]) # NoMonitor => <<id, i>> \in judged

(* A monitor is declared down only after two distinct failed checks        *)
(* (README.md:247); a check delivered twice is one check.                  *)
TwoChecks ==
  \A c \in Consumers :
    worker[c].alert = "down" => Cardinality(failing[MonitorOf(Current(c))]) >= 2

(* A message is acknowledged only after its checks are processed, their    *)
(* effect on the row included (README.md:586).                             *)
AckedMeansSaved ==
  \A id \in acked : \A i \in 1..Len(log[id]) :
    MonitorOf(log[id][i]) # NoMonitor => <<id, i>> \in saved

(* A message is requeued at most once after an error (README.md:586).      *)
RequeuedOnce ==
  \A c \in Consumers :
    Busy(c) /\ BatchDone(c) /\ worker[c].failed /\ open[c] => worker[c].msg \notin nacked

NoneConsumes == \A c \in Consumers : worker[c].pc = "stopped"

(* Every published message is eventually acknowledged or rejected, through *)
(* lookup errors, timeouts, closed channels and crashes, as long as these  *)
(* stop, unless every instance has lost its channel for good: nothing in   *)
(* the process starts a consumer again.                                    *)
EventuallySettled ==
  \A id \in 1..MaxPublish :
    (id \in Messages) ~> (id \in acked \cup dropped \/ NoneConsumes)

-----------------------------------------------------------------------------
(* The refinement mapping to TwoPacketRule, for one consumer and no fault. *)
(* A check is judged when its row is written.                              *)

ChecksOf(m) ==
  UNION {{id} \X {i \in DOMAIN log[id] : MonitorOf(log[id][i]) = m} :
           id \in {k \in Messages : log[k] # Malformed}}

OutcomesOf(m) == [x \in ChecksOf(m) |-> log[x[1]][x[2]].ok]
JudgedOf(m) == ChecksOf(m) \cap saved

Telling(m) == {c \in Consumers : worker[c].pc = "dispatch" /\ MonitorOf(Current(c)) = m}
NoticeOf(m) ==
  IF Telling(m) = {} THEN "none" ELSE worker[CHOOSE c \in Telling(m) : TRUE].alert

Rule == INSTANCE TwoPacketRule WITH
  reported <- [m \in Monitors |-> OutcomesOf(m)],
  judged <- [m \in Monitors |-> JudgedOf(m)],
  declared <- [m \in Monitors |-> health[m].isDown],
  notice <- [m \in Monitors |-> NoticeOf(m)]

(* One consumer in the absence of faults implements the two-packet rule:   *)
(* every check is judged once, in order, against the last two outcomes,    *)
(* and every change of the verdict leads to exactly one alert.             *)
ImplementsRule == Rule!Spec
=============================================================================
