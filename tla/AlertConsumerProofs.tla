------------------------ MODULE AlertConsumerProofs ------------------------
(***************************************************************************)
(* Theorems about AlertConsumer for every set of consumers and monitors,   *)
(* every set of bodies, every fault kind and every bound.                  *)
(* For one consumer and no fault, that it implements TwoPacketRule.        *)
(***************************************************************************)
EXTENDS AlertConsumer, FiniteSetTheorems, TLAPS

(* What each step of a worker leaves of its record.                        *)
LEMMA ResultStep ==
  ASSUME NEW w \in Worker
  PROVE  /\ NextResult(w) \in Worker
         /\ SkipResult(w) \in Worker
         /\ NextResult(w).pc = "check" /\ NextResult(w).msg = w.msg
         /\ NextResult(w).idx = w.idx + 1 /\ NextResult(w).failed = w.failed
         /\ NextResult(w).st = Healthy
         /\ SkipResult(w).pc = "check" /\ SkipResult(w).msg = w.msg
         /\ SkipResult(w).idx = w.idx + 1 /\ SkipResult(w).failed = TRUE
         /\ SkipResult(w).st = Healthy
  <1>1. Healthy \in Health /\ w.idx + 1 \in Nat \ {0}
    BY DEF Healthy, Health, Worker
  <1>2. NextResult(w) \in Worker
    BY <1>1 DEF NextResult, Worker, PCs
  <1>3. /\ NextResult(w).pc = "check" /\ NextResult(w).msg = w.msg
        /\ NextResult(w).idx = w.idx + 1 /\ NextResult(w).failed = w.failed
        /\ NextResult(w).st = Healthy
    BY DEF NextResult, Worker
  <1>4. SkipResult(w) \in Worker
    BY <1>2 DEF SkipResult, Worker
  <1>5. /\ SkipResult(w).pc = "check" /\ SkipResult(w).msg = w.msg
        /\ SkipResult(w).idx = w.idx + 1 /\ SkipResult(w).failed = TRUE
        /\ SkipResult(w).st = Healthy
    BY <1>2, <1>3 DEF SkipResult, Worker
  <1> QED
    BY <1>2, <1>3, <1>4, <1>5

(* The idle record, and the two it is left for.                            *)
LEMMA IdleType ==
  /\ Idle \in Worker /\ Idle.pc = "idle" /\ Idle.st = Healthy
  /\ Idle.msg = 0 /\ Idle.idx = 1 /\ ~Idle.failed
  /\ [Idle EXCEPT !.pc = "stopped"] \in Worker
  /\ [Idle EXCEPT !.pc = "dead"] \in Worker
  /\ Healthy \in Health
  <1>1. Healthy \in Health
    BY DEF Healthy, Health
  <1>2. Idle \in Worker
    BY <1>1 DEF Idle, Worker, PCs
  <1>3. /\ Idle.pc = "idle" /\ Idle.st = Healthy
        /\ Idle.msg = 0 /\ Idle.idx = 1 /\ ~Idle.failed
    BY DEF Idle
  <1>4. [Idle EXCEPT !.pc = "stopped"] \in Worker /\ [Idle EXCEPT !.pc = "dead"] \in Worker
    BY <1>2 DEF Worker, PCs
  <1> QED
    BY <1>1, <1>2, <1>3, <1>4

(* The two-packet rule maps rows to rows.                                  *)
LEMMA NextHealthType ==
  ASSUME NEW h \in Health, NEW ok \in BOOLEAN
  PROVE  NextHealth(h, ok) \in Health
  BY DEF NextHealth, OnFailure, OnSuccess, Health, Healthy, DownThreshold

(* A published body is not JSON or a sequence of results.                  *)
LEMMA BodyType ==
  ASSUME TypeOK, NEW id \in Messages
  PROVE  log[id] = Malformed \/ log[id] \in Seq(Result)
  BY BodiesAssumption DEF TypeOK, Messages

(* The result a worker stands at is one of its body.                       *)
LEMMA CurrentType ==
  ASSUME TypeOK, NEW c \in Consumers, AtResult(c)
  PROVE  /\ worker[c].msg \in Messages
         /\ Current(c) \in Result /\ MonitorOf(Current(c)) \in Monitors \cup {NoMonitor}
  <1>1. worker[c] \in Worker /\ Busy(c) /\ Placed(c)
    BY DEF TypeOK, AtResult, Busy
  <1>2. worker[c].msg \in Messages
    BY <1>1 DEF Placed
  <1>3. Body(c) \in Seq(Result) /\ worker[c].idx \in 1..Len(Body(c))
    BY <1>1, <1>2, BodyType DEF AtResult, Body, Worker
  <1>4. Current(c) \in Result
    BY <1>3 DEF Current
  <1> QED
    BY <1>2, <1>4 DEF MonitorOf, Result

(* A worker that does not move stays placed while the log stands still.    *)
LEMMA PlacedFrame ==
  ASSUME NEW d \in Consumers, Placed(d), log' = log, worker'[d] = worker[d]
  PROVE  Placed(d)'
  BY DEF Placed, Busy, Body, Current, Messages

-----------------------------------------------------------------------------
(* Type correctness.                                                       *)

LEMMA InitTypeOK == Init => TypeOK
  <1> SUFFICES ASSUME Init PROVE TypeOK
    OBVIOUS
  <1>1. worker \in [Consumers -> Worker] /\ health \in [Monitors -> Health]
    BY IdleType DEF Init
  <1>2. \A c \in Consumers : Placed(c)
    BY IdleType DEF Init, Placed, Busy
  <1> QED
    BY <1>1, <1>2 DEF Init, TypeOK, Messages

(* A step that moves only worker c, to a placed record, keeps TypeOK if it *)
(* keeps the type of whatever else it changes.                             *)
LEMMA MoveTypeOK ==
  ASSUME TypeOK, NEW c \in Consumers, NEW w \in Worker, Move(c, w),
         log' = log, Placed(c)',
         queue' \in Seq(Messages), open' \in [Consumers -> BOOLEAN],
         health' \in [Monitors -> Health],
         acked' \subseteq Messages, dropped' \subseteq Messages, nacked' \subseteq Messages,
         faults' \in Nat, judged' \subseteq Nat \X Nat, saved' \subseteq Nat \X Nat,
         failing' \in [Monitors -> SUBSET (Nat \X Nat)]
  PROVE  TypeOK'
  <1>1. worker' \in [Consumers -> Worker]
    BY DEF TypeOK, Move
  <1>2. ASSUME NEW d \in Consumers, d # c PROVE Placed(d)'
    BY <1>2, PlacedFrame DEF TypeOK, Move
  <1>3. Messages' = Messages
    BY DEF Messages
  <1> QED
    BY <1>1, <1>2, <1>3 DEF TypeOK

(* What Move leaves.                                                       *)
LEMMA Moved ==
  ASSUME worker \in [Consumers -> Worker], NEW c \in Consumers, NEW w, Move(c, w)
  PROVE  worker'[c] = w /\ \A d \in Consumers : d # c => worker'[d] = worker[d]
  BY DEF Move

(* Requeueing puts a message of the log back, or nothing.                  *)
LEMMA RequeueType ==
  ASSUME TypeOK, NEW c \in Consumers
  PROVE  Requeue(c) \in Seq(Messages)
  <1>1. Holds(c) # 0 => Holds(c) \in Messages
    BY DEF TypeOK, Placed, Holds
  <1> QED
    BY <1>1 DEF Requeue, TypeOK

(* A worker between two deliveries is placed.                              *)
LEMMA RestingPlaced ==
  ASSUME NEW c \in Consumers,
         worker'[c].msg = 0, worker'[c].idx = 1, ~worker'[c].failed,
         worker'[c].pc \notin {"check", "upsert", "dispatch"}
  PROVE  Placed(c)'
  BY DEF Placed, Busy

(* Moving on from result idx leaves the worker placed.                     *)
LEMMA NextPlaced ==
  ASSUME TypeOK, NEW c \in Consumers, NEW w, log' = log, worker'[c] = w,
         Body(c) # Malformed, worker[c].msg \in Messages, worker[c].idx <= Len(Body(c)),
         w.pc = "check", w.msg = worker[c].msg, w.idx = worker[c].idx + 1
  PROVE  Placed(c)'
  <1>1. worker[c].idx \in Nat /\ Len(Body(c)) \in Nat
    BY BodyType DEF TypeOK, Worker, Body
  <1>2. w.idx <= Len(Body(c)) + 1
    BY <1>1
  <1> QED
    BY <1>2 DEF Placed, Busy, Body, Messages

LEMMA PublishTypeOK == TypeOK /\ Publish => TypeOK'
  <1> SUFFICES ASSUME TypeOK, Publish PROVE TypeOK'
    OBVIOUS
  <1>1. PICK b \in Bodies : log' = Append(log, b)
    BY DEF Publish
  <1>2. /\ log' \in Seq(Bodies) /\ Len(log') = Len(log) + 1
        /\ \A id \in Messages : log'[id] = log[id]
        /\ Messages' = 1..Len(log') /\ Messages = 1..Len(log)
    BY <1>1 DEF TypeOK, Messages
  <1>3. queue' \in Seq(Messages')
    <2>1. Len(log') \in Messages' /\ Messages \subseteq Messages'
      BY <1>2 DEF TypeOK
    <2>2. queue \in Seq(Messages')
      BY <2>1 DEF TypeOK
    <2> QED
      BY <2>1, <2>2 DEF Publish
  <1>4. ASSUME NEW c \in Consumers PROVE Placed(c)'
    <2>1. Placed(c) /\ worker' = worker
      BY DEF TypeOK, Publish
    <2>2. worker[c].msg \in Messages => Body(c)' = Body(c) /\ worker[c].msg \in Messages'
      BY <2>1, <1>2 DEF TypeOK, Body
    <2> QED
      BY <2>1, <2>2 DEF Placed, Busy, Current
  <1> QED
    BY <1>2, <1>3, <1>4 DEF TypeOK, Publish, historyVars

LEMMA ReceiveTypeOK ==
  ASSUME TypeOK, NEW c \in Consumers, Receive(c)
  PROVE  TypeOK'
  <1> DEFINE w == [worker[c] EXCEPT !.pc = "check", !.msg = Head(queue)]
  <1>1. /\ worker[c] \in Worker /\ Head(queue) \in Messages /\ queue' \in Seq(Messages)
        /\ worker[c].idx = 1
    BY DEF TypeOK, Receive, Placed, Busy
  <1>2. Head(queue) \in Nat
    BY <1>1 DEF TypeOK, Messages
  <1>3. w \in Worker /\ w.pc = "check" /\ w.msg = Head(queue) /\ w.idx = 1
    BY <1>1, <1>2 DEF Worker, PCs
  <1>4. Move(c, w) /\ worker'[c] = w /\ log' = log
    BY Moved DEF Receive, TypeOK
  <1> HIDE DEF w
  <1>5. log[w.msg] # Malformed => 1 <= Len(log[w.msg]) + 1
    BY <1>1, <1>3, BodyType
  <1>6. Placed(c)'
    BY <1>1, <1>3, <1>4, <1>5 DEF Placed, Busy, Body, Messages
  <1> QED
    BY <1>1, <1>3, <1>4, <1>6, MoveTypeOK DEF TypeOK, Receive, historyVars

(* The steps after which the worker stands before another delivery, or no  *)
(* delivery any more.                                                      *)
LEMMA LeaveTypeOK ==
  ASSUME TypeOK, NEW c \in Consumers,
         Discard(c) \/ Ack(c) \/ RequeueFailed(c) \/ StopConsuming(c) \/ Crash(c) \/ Restart(c)
  PROVE  TypeOK'
  <1>1. PICK w \in {Idle, [Idle EXCEPT !.pc = "stopped"], [Idle EXCEPT !.pc = "dead"]} : Move(c, w)
    BY DEF Discard, Ack, RequeueFailed, StopConsuming, Crash, Restart, Done
  <1>2. /\ w \in Worker /\ w.msg = 0 /\ w.idx = 1 /\ ~w.failed
        /\ w.pc \notin {"check", "upsert", "dispatch"}
    BY IdleType DEF Worker, PCs
  <1>3. worker'[c] = w
    BY <1>1, Moved DEF TypeOK
  <1>4. Placed(c)'
    BY <1>2, <1>3, RestingPlaced
  <1>5. log' = log /\ queue' \in Seq(Messages) /\ open' \in [Consumers -> BOOLEAN]
    BY RequeueType
    DEF Discard, Ack, RequeueFailed, StopConsuming, Crash, Restart, TypeOK, brokerVars
  <1>6. Discard(c) \/ Ack(c) \/ RequeueFailed(c) => worker[c].msg \in Messages
    BY DEF Discard, Ack, RequeueFailed, BatchDone, TypeOK, Placed, Busy
  <1>7. acked' \subseteq Messages /\ dropped' \subseteq Messages /\ nacked' \subseteq Messages
    BY <1>6
    DEF Discard, Ack, RequeueFailed, StopConsuming, Crash, Restart, TypeOK, brokerVars, historyVars
  <1>8. health' = health /\ faults' \in Nat /\ judged' = judged /\ saved' = saved
        /\ failing' = failing
    BY DEF Discard, Ack, RequeueFailed, StopConsuming, Crash, Restart, TypeOK, historyVars, Fail
  <1> QED
    BY <1>1, <1>2, <1>4, <1>5, <1>7, <1>8, MoveTypeOK DEF TypeOK

(* The steps that finish a result: the worker moves on to the next one.    *)
LEMMA AdvanceTypeOK ==
  ASSUME TypeOK, NEW c \in Consumers, NEW w \in Worker, Move(c, w),
         w \in {NextResult(worker[c]), SkipResult(worker[c])},
         worker[c].msg \in Messages, Body(c) # Malformed, worker[c].idx <= Len(Body(c)),
         UNCHANGED brokerVars, health' \in [Monitors -> Health], faults' \in Nat,
         judged' = judged, failing' = failing, nacked' = nacked,
         saved' \subseteq Nat \X Nat
  PROVE  TypeOK'
  <1>1. w.pc = "check" /\ w.msg = worker[c].msg /\ w.idx = worker[c].idx + 1
    <2>1. worker[c] \in Worker
      BY DEF TypeOK
    <2>2. CASE w = NextResult(worker[c])
      BY <2>1, <2>2, ResultStep
    <2>3. CASE w = SkipResult(worker[c])
      BY <2>1, <2>3, ResultStep
    <2> QED
      BY <2>2, <2>3
  <1>2. log' = log /\ worker'[c] = w
    BY Moved DEF TypeOK, brokerVars
  <1>3. Placed(c)'
    BY <1>1, <1>2, NextPlaced
  <1> QED
    BY <1>2, <1>3, MoveTypeOK DEF TypeOK, brokerVars

(* A worker that keeps its place in the batch keeps TypeOK.                *)
LEMMA StayTypeOK ==
  ASSUME TypeOK, NEW c \in Consumers, NEW w \in Worker, Move(c, w),
         worker[c].msg \in Messages, w.msg = worker[c].msg, w.idx = worker[c].idx,
         w.pc \in {"check", "upsert", "dispatch"},
         Body(c) = Malformed => w.pc = "check",
         Body(c) # Malformed => w.idx <= Len(Body(c)) + 1,
         w.pc # "check" => w.idx <= Len(Body(c)) /\ MonitorOf(Current(c)) \in Monitors,
         UNCHANGED brokerVars, health' \in [Monitors -> Health], faults' \in Nat,
         failing' \in [Monitors -> SUBSET (Nat \X Nat)], nacked' = nacked,
         judged' \subseteq Nat \X Nat, saved' \subseteq Nat \X Nat
  PROVE  TypeOK'
  <1>1. log' = log /\ worker'[c] = w
    BY Moved DEF TypeOK, brokerVars
  <1>2. Placed(c)'
    BY <1>1 DEF Placed, Busy, Body, Current, Messages
  <1> QED
    BY <1>1, <1>2, MoveTypeOK DEF TypeOK, brokerVars

LEMMA JudgeTypeOK ==
  ASSUME TypeOK, NEW c \in Consumers, Judge(c)
  PROVE  TypeOK'
  <1> DEFINE m == MonitorOf(Current(c))
             ok == Current(c).ok
             w == [worker[c] EXCEPT !.pc = "upsert", !.st = NextHealth(health[m], ok),
                                    !.alert = AlertFor(health[m], ok)]
  <1>1. AtResult(c) /\ worker[c] \in Worker /\ Move(c, w)
    BY DEF Judge, TypeOK
  <1>2. worker[c].msg \in Messages /\ m \in Monitors /\ ok \in BOOLEAN
    BY <1>1, CurrentType DEF Judge, Result
  <1>3. NextHealth(health[m], ok) \in Health
    BY <1>2, NextHealthType DEF TypeOK
  <1>4. AlertFor(health[m], ok) \in {"none", "down", "restored"}
    BY DEF AlertFor
  <1>5. w \in Worker /\ w.pc = "upsert" /\ w.msg = worker[c].msg /\ w.idx = worker[c].idx
    BY <1>1, <1>3, <1>4 DEF Worker, PCs
  <1>6. Check(c) \in Nat \X Nat
    BY <1>1 DEF Check, Worker
  <1>7. judged' \subseteq Nat \X Nat /\ saved' = saved /\ nacked' = nacked
    BY <1>6 DEF Judge, TypeOK
  <1>8. failing' \in [Monitors -> SUBSET (Nat \X Nat)]
    BY <1>2, <1>6 DEF Judge, TypeOK
  <1>9. UNCHANGED brokerVars /\ health' = health /\ faults' = faults
    BY DEF Judge
  <1>10. Body(c) # Malformed /\ worker[c].idx <= Len(Body(c))
    BY <1>1 DEF AtResult
  <1>11. worker[c].idx <= Len(Body(c)) + 1
    BY <1>1, <1>2, <1>10, BodyType DEF Body, Worker
  <1> HIDE DEF w, ok
  <1> QED
    BY <1>1, <1>2, <1>5, <1>7, <1>8, <1>9, <1>10, <1>11, StayTypeOK DEF TypeOK

(* Upsert and UpsertFails: the worker goes on to the alert or the next     *)
(* result.                                                                 *)
LEMMA UpsertTypeOK ==
  ASSUME TypeOK, NEW c \in Consumers, Upsert(c) \/ UpsertFails(c)
  PROVE  TypeOK'
  <1>1. /\ worker[c] \in Worker /\ Placed(c) /\ worker[c].pc = "upsert"
        /\ Move(c, AfterUpsert(worker[c])) /\ UNCHANGED brokerVars
        /\ judged' = judged /\ failing' = failing /\ nacked' = nacked
    BY DEF TypeOK, Upsert, UpsertFails, historyVars
  <1>2. /\ worker[c].msg \in Messages /\ Body(c) # Malformed
        /\ worker[c].idx <= Len(Body(c)) /\ MonitorOf(Current(c)) \in Monitors
    BY <1>1 DEF Placed, Busy
  <1>3. health' \in [Monitors -> Health] /\ faults' \in Nat /\ saved' \subseteq Nat \X Nat
    <2>1. Check(c) \in Nat \X Nat /\ worker[c].st \in Health
      BY <1>1 DEF Check, Worker
    <2>2. CASE Upsert(c)
      BY <1>2, <2>1, <2>2 DEF Upsert, TypeOK
    <2>3. CASE UpsertFails(c)
      BY <2>3 DEF UpsertFails, TypeOK, CallFails, NoFault, Fail, historyVars
    <2> QED
      BY <2>2, <2>3
  <1>4. CASE worker[c].alert = "none"
    BY <1>1, <1>2, <1>3, <1>4, ResultStep, AdvanceTypeOK DEF AfterUpsert
  <1>5. CASE worker[c].alert # "none"
    <2> DEFINE w == [worker[c] EXCEPT !.pc = "dispatch"]
    <2>1. w \in Worker /\ w.pc = "dispatch" /\ w.msg = worker[c].msg /\ w.idx = worker[c].idx
      BY <1>1 DEF Worker, PCs
    <2>2. Move(c, w)
      BY <1>1, <1>5 DEF AfterUpsert
    <2>3. worker[c].idx <= Len(Body(c)) + 1
      BY <1>1, <1>2, BodyType DEF Body, Worker
    <2> HIDE DEF w
    <2> QED
      BY <1>1, <1>2, <1>3, <2>1, <2>2, <2>3, StayTypeOK DEF TypeOK
  <1> QED
    BY <1>4, <1>5

(* The other steps inside a batch.                                         *)
LEMMA BatchTypeOK ==
  ASSUME TypeOK, NEW c \in Consumers, Ignore(c) \/ JudgeFails(c) \/ Dispatch(c)
  PROVE  TypeOK'
  <1>1. PICK w \in {NextResult(worker[c]), SkipResult(worker[c])} : Move(c, w)
    BY DEF Ignore, JudgeFails, Dispatch
  <1>2. w \in Worker
    BY ResultStep DEF TypeOK
  <1>3. worker[c].msg \in Messages /\ Body(c) # Malformed /\ worker[c].idx <= Len(Body(c))
    BY CurrentType DEF Ignore, JudgeFails, Dispatch, AtResult, TypeOK, Placed, Busy
  <1>4. /\ UNCHANGED brokerVars /\ health' = health /\ faults' \in Nat
        /\ judged' = judged /\ failing' = failing /\ nacked' = nacked /\ saved' = saved
    BY DEF Ignore, JudgeFails, Dispatch, TypeOK, CallFails, NoFault, Fail, historyVars
  <1> QED
    BY <1>1, <1>2, <1>3, <1>4, AdvanceTypeOK DEF TypeOK

LEMMA ExpireTypeOK ==
  ASSUME TypeOK, NEW c \in Consumers, Expire(c)
  PROVE  TypeOK'
  <1> DEFINE w == [worker[c] EXCEPT !.expired = TRUE]
  <1>1. worker[c] \in Worker /\ Placed(c) /\ Busy(c)
    BY DEF TypeOK, Expire, Busy
  <1>2. w \in Worker /\ w.pc = worker[c].pc /\ w.msg = worker[c].msg /\ w.idx = worker[c].idx
    BY <1>1 DEF Worker
  <1>3. Move(c, w) /\ UNCHANGED <<brokerVars, health, historyVars>> /\ faults' \in Nat
    BY DEF Expire, Fail, TypeOK
  <1> HIDE DEF w
  <1> QED
    BY <1>1, <1>2, <1>3, StayTypeOK DEF TypeOK, Placed, Busy, historyVars

LEMMA CloseTypeOK ==
  ASSUME TypeOK, NEW c \in Consumers, Close(c)
  PROVE  TypeOK'
  <1>1. Requeue(c) \in Seq(Messages)
    BY RequeueType
  <1>2. \A d \in Consumers : Placed(d)'
    BY PlacedFrame DEF TypeOK, Close
  <1> QED
    BY <1>1, <1>2 DEF TypeOK, Close, Fail, historyVars, Messages

(* Every step of the system keeps the type invariant.                      *)
LEMMA NextTypeOK == TypeOK /\ [Next]_vars => TypeOK'
  <1> SUFFICES ASSUME TypeOK, [Next]_vars PROVE TypeOK'
    OBVIOUS
  <1>1. CASE Publish
    BY <1>1, PublishTypeOK
  <1>2. ASSUME NEW c \in Consumers, Work(c) \/ Expire(c) \/ Close(c) \/ Crash(c) \/ Restart(c)
        PROVE  TypeOK'
    BY <1>2, ReceiveTypeOK, LeaveTypeOK, BatchTypeOK, JudgeTypeOK, UpsertTypeOK, ExpireTypeOK,
       CloseTypeOK DEF Work, Consume, Settle
  <1>3. CASE UNCHANGED vars
    BY <1>3 DEF TypeOK, vars, brokerVars, historyVars, Messages, Placed, Busy, Body, Current
  <1> QED
    BY <1>1, <1>2, <1>3 DEF Next

(* The state keeps its shape: queue, acked and dropped name published      *)
(* messages, and a worker always stands inside the batch it holds.         *)
THEOREM TypeCorrect == Spec => []TypeOK
  BY InitTypeOK, NextTypeOK, PTL DEF Spec

-----------------------------------------------------------------------------
(* The health rows.                                                        *)

(* The two-packet rule keeps a row consistent.                             *)
LEMMA RuleConsistent ==
  ASSUME NEW h \in Health, Consistent(h), NEW ok \in BOOLEAN
  PROVE  Consistent(NextHealth(h, ok))
  <1>1. Consistent(Healthy)
    BY DEF Consistent, Healthy
  <1>2. h.cf \in Nat /\ h.isDown \in BOOLEAN /\ h.alertSent \in BOOLEAN
    BY DEF Health
  <1>3. Consistent(OnFailure(h))
    <2>1. OnFailure(h).cf = h.cf + 1
      BY DEF OnFailure
    <2>2. CASE h.isDown
      <3>1. OnFailure(h).isDown /\ OnFailure(h).alertSent
        BY <2>2 DEF OnFailure, Consistent
      <3> QED
        BY <1>2, <2>1, <2>2, <3>1 DEF Consistent
    <2>3. CASE ~h.isDown /\ h.cf + 1 >= 2
      <3>1. OnFailure(h).isDown /\ OnFailure(h).alertSent
        BY <2>3 DEF OnFailure, DownThreshold
      <3> QED
        BY <2>1, <2>3, <3>1 DEF Consistent
    <2>4. CASE ~h.isDown /\ ~(h.cf + 1 >= 2)
      <3>1. ~OnFailure(h).isDown /\ ~OnFailure(h).alertSent
        BY <2>4 DEF OnFailure, DownThreshold, Consistent
      <3> QED
        BY <2>1, <2>4, <3>1 DEF Consistent
    <2> QED
      BY <2>2, <2>3, <2>4
  <1> QED
    BY <1>1, <1>3 DEF NextHealth, OnSuccess

(* Inductive: the row a worker is about to write is consistent as well,    *)
(* however stale the row it was computed from.                             *)
HealthInv == TypeOK /\ HealthConsistent /\ \A c \in Consumers : Consistent(worker[c].st)

LEMMA InitHealth == Init => HealthInv
  <1> SUFFICES ASSUME Init PROVE HealthInv
    OBVIOUS
  <1>1. Consistent(Healthy)
    BY DEF Consistent, Healthy
  <1> QED
    BY <1>1, InitTypeOK, IdleType DEF Init, HealthInv, HealthConsistent

LEMMA NextHealthInv == HealthInv /\ [Next]_vars => HealthInv'
  <1> SUFFICES ASSUME HealthInv, [Next]_vars PROVE HealthInv'
    OBVIOUS
  <1> USE DEF HealthInv
  <1>1. TypeOK' /\ worker \in [Consumers -> Worker] /\ Consistent(Healthy)
    BY NextTypeOK DEF TypeOK, Consistent, Healthy
  <1>2. ASSUME UNCHANGED worker, UNCHANGED health PROVE HealthInv'
    BY <1>1, <1>2 DEF HealthConsistent
  <1>3. ASSUME NEW c \in Consumers, NEW w, Move(c, w), Consistent(w.st), UNCHANGED health
        PROVE  HealthInv'
    BY <1>1, <1>3, Moved DEF HealthConsistent
  <1>4. ASSUME NEW c \in Consumers, NEW w, Move(c, w), w.st \in {Healthy, worker[c].st}
        PROVE  Consistent(w.st)
    BY <1>1, <1>4
  <1>5. ASSUME NEW c \in Consumers, Receive(c) \/ Expire(c)
        PROVE  HealthInv'
    <2>1. worker[c] \in Worker
      BY <1>1
    <2>2. /\ [worker[c] EXCEPT !.pc = "check", !.msg = Head(queue)].st = worker[c].st
          /\ [worker[c] EXCEPT !.expired = TRUE].st = worker[c].st
      BY <2>1 DEF Worker
    <2> QED
      BY <1>3, <1>5, <2>2 DEF Receive, Expire
  <1>6. ASSUME NEW c \in Consumers,
               Ignore(c) \/ JudgeFails(c) \/ Dispatch(c) \/ Settle(c) \/ StopConsuming(c)
               \/ Crash(c) \/ Restart(c)
        PROVE  HealthInv'
    <2>1. /\ NextResult(worker[c]).st = Healthy /\ SkipResult(worker[c]).st = Healthy
          /\ Idle.st = Healthy
          /\ [Idle EXCEPT !.pc = "stopped"].st = Healthy
          /\ [Idle EXCEPT !.pc = "dead"].st = Healthy
      BY <1>1, ResultStep, IdleType DEF Idle
    <2>2. PICK w : Move(c, w) /\ w.st = Healthy
      BY <1>6, <2>1
      DEF Ignore, JudgeFails, Dispatch, Settle, Discard, Ack, RequeueFailed, StopConsuming, Crash,
          Restart, Done
    <2> QED
      BY <1>1, <1>3, <1>6, <2>2
      DEF Ignore, JudgeFails, Dispatch, Settle, Discard, Ack, RequeueFailed, StopConsuming, Crash,
          Restart
  <1>7. ASSUME NEW c \in Consumers, Judge(c)
        PROVE  HealthInv'
    <2> DEFINE h == NextHealth(health[MonitorOf(Current(c))], Current(c).ok)
               w == [worker[c] EXCEPT !.pc = "upsert", !.st = h,
                        !.alert = AlertFor(health[MonitorOf(Current(c))], Current(c).ok)]
    <2>1. MonitorOf(Current(c)) \in Monitors /\ Current(c).ok \in BOOLEAN
      BY <1>7, CurrentType DEF Judge, Result
    <2>2. Consistent(h)
      BY <2>1, RuleConsistent DEF HealthConsistent, TypeOK
    <2>3. w.st = h
      BY <1>1 DEF Worker
    <2>4. Move(c, w) /\ UNCHANGED health
      BY <1>7 DEF Judge
    <2> HIDE DEF w, h
    <2> QED
      BY <1>3, <2>2, <2>3, <2>4
  <1>8. ASSUME NEW c \in Consumers, Upsert(c) \/ UpsertFails(c)
        PROVE  HealthInv'
    <2> DEFINE w == AfterUpsert(worker[c])
    <2>1. Move(c, w) /\ w.st \in {Healthy, worker[c].st}
      <3>1. worker[c] \in Worker /\ Move(c, w)
        BY <1>1, <1>8 DEF Upsert, UpsertFails
      <3>2. [worker[c] EXCEPT !.pc = "dispatch"].st = worker[c].st
        BY <3>1 DEF Worker
      <3> QED
        BY <3>1, <3>2, ResultStep DEF AfterUpsert
    <2> HIDE DEF w
    <2>2. \A d \in Consumers : Consistent(worker'[d].st)
      BY <1>1, <2>1, Moved
    <2>3. \A m \in Monitors : health'[m] = health[m] \/ health'[m] = worker[c].st
      BY <1>8 DEF Upsert, UpsertFails, TypeOK
    <2> QED
      BY <1>1, <2>2, <2>3 DEF HealthConsistent
  <1>9. ASSUME NEW c \in Consumers, Close(c) PROVE HealthInv'
    BY <1>2, <1>9 DEF Close
  <1>10. CASE Publish
    BY <1>2, <1>10 DEF Publish
  <1>11. CASE UNCHANGED vars
    BY <1>2, <1>11 DEF vars
  <1> QED
    BY <1>5, <1>6, <1>7, <1>8, <1>9, <1>10, <1>11 DEF Next, Work, Consume

(* Whatever lost writes, overlapping instances and crashes do, a health    *)
(* row is never half-decided: down, "alert sent" and "two failures" agree. *)
THEOREM RowsConsistent == Spec => []HealthConsistent
  <1>1. HealthInv => HealthConsistent
    BY DEF HealthInv
  <1> QED
    BY <1>1, InitHealth, NextHealthInv, PTL DEF Spec

-----------------------------------------------------------------------------
(* Acknowledged messages.                                                  *)

Judged(id, i) == MonitorOf(log[id][i]) # NoMonitor => <<id, i>> \in judged

(* Inductive: a batch in which nothing has failed yet was judged up to the *)
(* result the worker stands at.                                            *)
JudgedSoFar(c) ==
  Busy(c) /\ Body(c) # Malformed /\ ~worker[c].failed =>
    \A i \in 1..Len(Body(c)) :
      i < worker[c].idx \/ (i = worker[c].idx /\ worker[c].pc # "check")
        => Judged(worker[c].msg, i)

JudgedInv == TypeOK /\ AckedMeansJudged /\ \A c \in Consumers : JudgedSoFar(c)

LEMMA InitJudged == Init => JudgedInv
  <1> SUFFICES ASSUME Init PROVE JudgedInv
    OBVIOUS
  <1>1. \A c \in Consumers : ~Busy(c)
    BY IdleType DEF Init, Busy
  <1> QED
    BY <1>1, InitTypeOK DEF JudgedInv, AckedMeansJudged, JudgedSoFar, Init

(* What was judged stays judged while the log keeps its messages.          *)
LEMMA JudgedFrame ==
  ASSUME NEW c \in Consumers, JudgedSoFar(c), worker'[c] = worker[c],
         Busy(c) => log'[worker[c].msg] = log[worker[c].msg], judged \subseteq judged'
  PROVE  JudgedSoFar(c)'
  BY DEF JudgedSoFar, Busy, Body, Judged

LEMMA NextJudgedInv == JudgedInv /\ [Next]_vars => JudgedInv'
  <1> SUFFICES ASSUME JudgedInv, [Next]_vars PROVE JudgedInv'
    OBVIOUS
  <1> USE DEF JudgedInv
  <1>1. /\ TypeOK' /\ worker \in [Consumers -> Worker] /\ acked \subseteq Messages
        /\ \A d \in Consumers : Busy(d) => worker[d].msg \in Messages
    BY NextTypeOK DEF TypeOK, Placed
  <1>2. ASSUME UNCHANGED worker, \A id \in Messages : log'[id] = log[id],
               judged' = judged, acked' = acked
        PROVE  JudgedInv'
    <2>1. \A d \in Consumers : JudgedSoFar(d)'
      BY <1>1, <1>2, JudgedFrame
    <2>2. AckedMeansJudged'
      BY <1>1, <1>2 DEF AckedMeansJudged
    <2> QED
      BY <1>1, <2>1, <2>2
  <1>3. ASSUME NEW c \in Consumers, NEW w, Move(c, w), log' = log, judged \subseteq judged',
               acked' = acked, JudgedSoFar(c)'
        PROVE  JudgedInv'
    <2>1. \A d \in Consumers : JudgedSoFar(d)'
      BY <1>1, <1>3, JudgedFrame, Moved
    <2>2. AckedMeansJudged'
      BY <1>3 DEF AckedMeansJudged
    <2> QED
      BY <1>1, <2>1, <2>2
  <1>4. ASSUME NEW c \in Consumers, worker'[c].pc \notin {"check", "upsert", "dispatch"}
        PROVE  JudgedSoFar(c)'
    BY <1>4 DEF JudgedSoFar, Busy
  <1>5. ASSUME NEW c \in Consumers, Receive(c) PROVE JudgedInv'
    <2> DEFINE w == [worker[c] EXCEPT !.pc = "check", !.msg = Head(queue)]
    <2>1. worker[c] \in Worker /\ worker[c].idx = 1
      BY <1>5, <1>1 DEF TypeOK, Placed, Busy, Receive
    <2>2. w.pc = "check" /\ w.idx = 1
      BY <2>1 DEF Worker
    <2>3. Move(c, w) /\ log' = log /\ judged' = judged /\ acked' = acked
      BY <1>5 DEF Receive, historyVars
    <2> HIDE DEF w
    <2>4. worker'[c] = w
      BY <1>1, <2>3, Moved
    <2>5. JudgedSoFar(c)'
      BY <2>2, <2>4 DEF JudgedSoFar
    <2> QED
      BY <1>3, <2>3, <2>5
  <1>6. ASSUME NEW c \in Consumers, Discard(c) \/ RequeueFailed(c) \/ StopConsuming(c)
                                   \/ Crash(c) \/ Restart(c)
        PROVE  JudgedInv'
    <2>1. PICK w \in {Idle, [Idle EXCEPT !.pc = "stopped"], [Idle EXCEPT !.pc = "dead"]} : Move(c, w)
      BY <1>6 DEF Discard, RequeueFailed, StopConsuming, Crash, Restart, Done
    <2>2. w.pc \notin {"check", "upsert", "dispatch"}
      BY IdleType DEF Worker, PCs
    <2>3. log' = log /\ judged' = judged /\ acked' = acked
      BY <1>6 DEF Discard, RequeueFailed, StopConsuming, Crash, Restart, brokerVars, historyVars
    <2> QED
      BY <1>1, <1>3, <1>4, <2>1, <2>2, <2>3, Moved
  <1>7. ASSUME NEW c \in Consumers, Ack(c) PROVE JudgedInv'
    <2>1. Move(c, Idle) /\ log' = log /\ judged' = judged /\ worker'[c] = Idle
      BY <1>1, <1>7, Moved DEF Ack, Done, historyVars
    <2>2. \A d \in Consumers : JudgedSoFar(d)'
      BY <1>1, <1>4, <2>1, JudgedFrame, Moved, IdleType
    <2>3. \A i \in 1..Len(Body(c)) : Judged(worker[c].msg, i)
      <3>1. Body(c) # Malformed /\ worker[c].msg \in Messages /\ worker[c].idx > Len(Body(c))
        BY <1>1, <1>7 DEF Ack, BatchDone, Busy
      <3>2. Len(Body(c)) \in Nat /\ worker[c].idx \in Nat
        BY <1>1, <3>1, BodyType DEF Body, Worker
      <3> QED
        BY <1>7, <3>1, <3>2 DEF Ack, BatchDone, JudgedSoFar, Busy
    <2>4. acked' \subseteq acked \cup {worker[c].msg}
      BY <1>7 DEF Ack
    <2>5. AckedMeansJudged'
      BY <2>1, <2>3, <2>4 DEF AckedMeansJudged, Judged, Body
    <2> QED
      BY <1>1, <2>2, <2>5
  <1>8. ASSUME NEW c \in Consumers, Ignore(c) \/ Upsert(c) \/ UpsertFails(c) \/ Dispatch(c)
        PROVE  JudgedInv'
    <2>1. /\ worker[c] \in Worker /\ Busy(c) /\ Body(c) # Malformed
          /\ worker[c].msg \in Messages /\ worker[c].idx \in Nat
      BY <1>1, <1>8, CurrentType
      DEF Ignore, Upsert, UpsertFails, Dispatch, AtResult, Busy, Worker, TypeOK, Placed
    <2>2. log' = log /\ judged' = judged /\ acked' = acked
      BY <1>8 DEF Ignore, Upsert, UpsertFails, Dispatch, brokerVars, historyVars
    <2>3. Ignore(c) => ~(MonitorOf(Body(c)[worker[c].idx]) # NoMonitor)
      BY DEF Ignore, Current
    <2>4. ~Ignore(c) => worker[c].pc # "check"
      BY <1>8 DEF Upsert, UpsertFails, Dispatch
    <2>5. CASE Move(c, NextResult(worker[c]))
      <3> DEFINE w == NextResult(worker[c])
      <3>1. /\ w.pc = "check" /\ w.msg = worker[c].msg /\ w.idx = worker[c].idx + 1
            /\ w.failed = worker[c].failed /\ worker'[c] = w
        BY <1>1, <2>1, <2>5, Moved, ResultStep
      <3> HIDE DEF w
      <3>2. \A i \in 1..Len(Body(c)) : i < w.idx => i < worker[c].idx \/ i = worker[c].idx
        BY <2>1, <3>1
      <3>3. ~worker[c].failed =>
              \A i \in 1..Len(Body(c)) : i < w.idx => Judged(worker[c].msg, i)
        BY <2>1, <2>3, <2>4, <3>2 DEF JudgedSoFar, Judged, Body
      <3>4. JudgedSoFar(c)'
        BY <2>2, <3>1, <3>3 DEF JudgedSoFar, Judged, Body
      <3> QED
        BY <1>3, <2>2, <2>5, <3>4
    <2>6. CASE Move(c, [worker[c] EXCEPT !.pc = "dispatch"]) /\ worker[c].pc = "upsert"
      <3> DEFINE w == [worker[c] EXCEPT !.pc = "dispatch"]
      <3>1. /\ w.pc = "dispatch" /\ w.msg = worker[c].msg /\ w.idx = worker[c].idx
            /\ w.failed = worker[c].failed
        BY <2>1 DEF Worker
      <3>2. worker'[c] = w
        BY <1>1, <2>6, Moved
      <3> HIDE DEF w
      <3>3. JudgedSoFar(c)'
        BY <2>1, <2>2, <2>6, <3>1, <3>2 DEF JudgedSoFar, Judged, Body
      <3> QED
        BY <1>3, <2>2, <2>6, <3>3 DEF w
    <2> QED
      BY <1>8, <2>5, <2>6 DEF Ignore, Upsert, UpsertFails, Dispatch, AfterUpsert
  <1>9. ASSUME NEW c \in Consumers, JudgeFails(c) PROVE JudgedInv'
    <2>1. Move(c, SkipResult(worker[c])) /\ UNCHANGED <<brokerVars, historyVars>>
      BY <1>9 DEF JudgeFails
    <2>2. worker'[c].failed = TRUE
      <3>1. worker[c] \in Worker /\ worker'[c] = SkipResult(worker[c])
        BY <1>1, <2>1, Moved
      <3> QED
        BY <3>1, ResultStep
    <2>3. JudgedSoFar(c)'
      BY <2>2 DEF JudgedSoFar
    <2> QED
      BY <1>3, <2>1, <2>3 DEF brokerVars, historyVars
  <1>10. ASSUME NEW c \in Consumers, Judge(c) PROVE JudgedInv'
    <2> DEFINE m == MonitorOf(Current(c))
               w == [worker[c] EXCEPT !.pc = "upsert", !.st = NextHealth(health[m], Current(c).ok),
                                      !.alert = AlertFor(health[m], Current(c).ok)]
    <2>1. /\ worker[c] \in Worker /\ Busy(c) /\ Body(c) # Malformed /\ worker[c].pc = "check"
          /\ worker[c].idx \in Nat
      BY <1>1, <1>10 DEF Judge, AtResult, Busy, Worker
    <2>2. /\ Move(c, w) /\ log' = log /\ acked' = acked
          /\ judged' = judged \cup {<<worker[c].msg, worker[c].idx>>}
      BY <1>10 DEF Judge, brokerVars, Check
    <2>3. /\ w.pc = "upsert" /\ w.msg = worker[c].msg /\ w.idx = worker[c].idx
          /\ w.failed = worker[c].failed
      BY <2>1 DEF Worker
    <2> HIDE DEF w
    <2>4. worker'[c] = w
      BY <1>1, <2>2, Moved
    <2>5. JudgedSoFar(c)'
      BY <2>1, <2>2, <2>3, <2>4 DEF JudgedSoFar, Judged, Body
    <2> QED
      BY <1>3, <2>2, <2>5
  <1>11. ASSUME NEW c \in Consumers, Expire(c) PROVE JudgedInv'
    <2> DEFINE w == [worker[c] EXCEPT !.expired = TRUE]
    <2>1. worker[c] \in Worker /\ Busy(c)
      BY <1>1, <1>11 DEF Expire, Busy
    <2>2. Move(c, w) /\ log' = log /\ judged' = judged /\ acked' = acked
      BY <1>11 DEF Expire, brokerVars, historyVars
    <2>3. /\ w.pc = worker[c].pc /\ w.msg = worker[c].msg /\ w.idx = worker[c].idx
          /\ w.failed = worker[c].failed
      BY <2>1 DEF Worker
    <2> HIDE DEF w
    <2>4. worker'[c] = w
      BY <1>1, <2>2, Moved
    <2>5. JudgedSoFar(c)'
      BY <2>1, <2>2, <2>3, <2>4 DEF JudgedSoFar, Judged, Body, Busy
    <2> QED
      BY <1>3, <2>2, <2>5
  <1>12. ASSUME NEW c \in Consumers, Close(c) PROVE JudgedInv'
    BY <1>2, <1>12 DEF Close, historyVars
  <1>13. CASE Publish
    <2>1. \A id \in Messages : log'[id] = log[id]
      BY <1>13 DEF Publish, TypeOK, Messages
    <2> QED
      BY <1>2, <1>13, <2>1 DEF Publish, historyVars
  <1>14. CASE UNCHANGED vars
    BY <1>2, <1>14 DEF vars, brokerVars, historyVars
  <1> QED
    BY <1>5, <1>6, <1>7, <1>8, <1>9, <1>10, <1>11, <1>12, <1>13, <1>14 DEF Next, Work, Consume, Settle

(* An acknowledged message was judged in full: no error on one result of a *)
(* batch is lost behind the results that follow it.                        *)
THEOREM AckedJudged == Spec => []AckedMeansJudged
  <1>1. JudgedInv => AckedMeansJudged
    BY DEF JudgedInv
  <1> QED
    BY <1>1, InitJudged, NextJudgedInv, PTL DEF Spec

-----------------------------------------------------------------------------
(* Every message is at one place.                                          *)

Elems(q) == {q[i] : i \in 1..Len(q)}
Distinct(q) == \A i, j \in 1..Len(q) : q[i] = q[j] => i = j

LEMMA AppendElems ==
  ASSUME NEW S, NEW q \in Seq(S), NEW x, x \notin Elems(q), Distinct(q)
  PROVE  Elems(Append(q, x)) = Elems(q) \cup {x} /\ Distinct(Append(q, x))
  <1>1. /\ Len(q) \in Nat /\ Len(Append(q, x)) = Len(q) + 1
        /\ Append(q, x)[Len(q) + 1] = x
        /\ \A i \in 1..Len(q) : Append(q, x)[i] = q[i]
    OBVIOUS
  <1> QED
    BY <1>1 DEF Elems, Distinct

LEMMA TailElems ==
  ASSUME NEW S, NEW q \in Seq(S), q # << >>, Distinct(q)
  PROVE  /\ Elems(Tail(q)) = Elems(q) \ {Head(q)} /\ Distinct(Tail(q))
         /\ Head(q) \in Elems(q)
  <1>1. /\ Len(q) \in Nat \ {0} /\ Len(Tail(q)) = Len(q) - 1 /\ Head(q) = q[1]
        /\ \A i \in 1..Len(Tail(q)) : Tail(q)[i] = q[i + 1]
    OBVIOUS
  <1>2. \A i \in 1..Len(Tail(q)) : i + 1 \in 1..Len(q)
    BY <1>1
  <1>3. \A i \in 2..Len(q) : i - 1 \in 1..Len(Tail(q)) /\ Tail(q)[i - 1] = q[i]
    BY <1>1
  <1>4. Distinct(Tail(q))
    BY <1>1, <1>2 DEF Distinct
  <1>5. Elems(Tail(q)) \subseteq Elems(q) \ {Head(q)}
    BY <1>1, <1>2 DEF Elems, Distinct
  <1>6. Elems(q) \ {Head(q)} \subseteq Elems(Tail(q))
    <2> SUFFICES ASSUME NEW i \in 1..Len(q), q[i] # Head(q) PROVE q[i] \in Elems(Tail(q))
      BY DEF Elems
    <2>1. i \in 2..Len(q)
      BY <1>1
    <2> QED
      BY <1>3, <2>1 DEF Elems
  <1>7. Head(q) \in Elems(q)
    BY <1>1 DEF Elems
  <1> QED
    BY <1>4, <1>5, <1>6, <1>7

LEMMA ConsElems ==
  ASSUME NEW S, NEW q \in Seq(S), NEW x \in S, x \notin Elems(q), Distinct(q)
  PROVE  Elems(<<x>> \o q) = Elems(q) \cup {x} /\ Distinct(<<x>> \o q)
  <1> DEFINE r == <<x>> \o q
  <1>1. /\ Len(q) \in Nat /\ Len(r) = Len(q) + 1 /\ r[1] = x
        /\ \A i \in 2..Len(r) : r[i] = q[i - 1]
    OBVIOUS
  <1> HIDE DEF r
  <1>2. \A i \in 2..Len(r) : i - 1 \in 1..Len(q)
    BY <1>1
  <1>3. \A i \in 1..Len(q) : i + 1 \in 2..Len(r) /\ r[i + 1] = q[i]
    BY <1>1
  <1>4. Elems(q) \cup {x} \subseteq Elems(r)
    BY <1>1, <1>3 DEF Elems
  <1>5. Elems(r) \subseteq Elems(q) \cup {x}
    <2> SUFFICES ASSUME NEW i \in 1..Len(r) PROVE r[i] \in Elems(q) \cup {x}
      BY DEF Elems
    <2>1. i = 1 \/ i \in 2..Len(r)
      BY <1>1
    <2> QED
      BY <1>1, <1>2, <2>1 DEF Elems
  <1>6. Distinct(r)
    <2> SUFFICES ASSUME NEW i \in 1..Len(r), NEW j \in 1..Len(r), r[i] = r[j] PROVE i = j
      BY DEF Distinct
    <2>1. /\ i = 1 \/ i \in 2..Len(r)
          /\ j = 1 \/ j \in 2..Len(r)
      BY <1>1
    <2>2. \A k \in 2..Len(r) : r[k] # x
      BY <1>1, <1>2 DEF Elems
    <2>3. CASE i \in 2..Len(r) /\ j \in 2..Len(r)
      <3>1. i - 1 \in 1..Len(q) /\ j - 1 \in 1..Len(q) /\ q[i - 1] = q[j - 1]
        BY <1>1, <1>2, <2>3
      <3>2. i - 1 = j - 1
        BY <3>1 DEF Distinct
      <3> QED
        BY <1>1, <2>3, <3>2
    <2> QED
      BY <1>1, <2>1, <2>2, <2>3
  <1> QED
    BY <1>4, <1>5, <1>6 DEF r

LEMMA QueueElems == Queued = Elems(queue) /\ (QueueIsSet <=> Distinct(queue))
  BY DEF Queued, Elems, QueueIsSet, Distinct

(* Only published messages are at any of the places.                       *)
LEMMA QueuedAreMessages ==
  ASSUME TypeOK, OnePlace
  PROVE  /\ Queued \subseteq Messages /\ Held \subseteq Messages
         /\ acked \subseteq Messages /\ dropped \subseteq Messages /\ 0 \notin Messages
  BY DEF OnePlace, TypeOK, Messages

(* Consumer c alone lets go of what it holds.                              *)
Releases(c) ==
  Holds(c)' = 0 /\ \A d \in Consumers : d # c => Holds(d)' = Holds(d)

LEMMA ReleaseHeld ==
  ASSUME OnePlace, NEW c \in Consumers, Releases(c)
  PROVE  /\ Held' = Held \ {Holds(c)}
         /\ \A d, e \in Consumers : Holds(d)' = Holds(e)' /\ Holds(d)' # 0 => d = e
  BY DEF OnePlace, Releases, Held

(* What it held goes back to the queue.                                    *)
LEMMA ReturnOnePlace ==
  ASSUME TypeOK, OnePlace, NEW c \in Consumers, Releases(c),
         queue' = Requeue(c), log' = log, acked' = acked, dropped' = dropped
  PROVE  OnePlace'
  <1>1. Messages' = Messages
    BY DEF Messages
  <1>2. Elems(queue') = Queued \cup ({Holds(c)} \ {0}) /\ Distinct(queue')
    <2>1. CASE Holds(c) = 0
      BY <2>1, QueueElems DEF OnePlace, Requeue
    <2>2. CASE Holds(c) # 0
      <3>1. Holds(c) \in Messages /\ Holds(c) \notin Elems(queue)
        BY <2>2, QueueElems, QueuedAreMessages DEF OnePlace, Held
      <3>2. Elems(<<Holds(c)>> \o queue) = Elems(queue) \cup {Holds(c)}
            /\ Distinct(<<Holds(c)>> \o queue)
        BY <3>1, ConsElems, QueueElems DEF OnePlace, TypeOK
      <3> QED
        BY <2>2, <3>2, QueueElems DEF Requeue
    <2> QED
      BY <2>1, <2>2
  <1>3. Queued' = Elems(queue') /\ (QueueIsSet' <=> Distinct(queue'))
    BY DEF Queued, Elems, QueueIsSet, Distinct
  <1>4. Holds(c) # 0 => Holds(c) \in Held
    BY DEF Held
  <1> QED
    BY <1>1, <1>2, <1>3, <1>4, ReleaseHeld, QueuedAreMessages DEF OnePlace

(* What it held is settled.                                                *)
LEMMA SettleOnePlace ==
  ASSUME TypeOK, OnePlace, NEW c \in Consumers, Releases(c), queue' = queue, log' = log,
         \/ acked' = acked \cup ({Holds(c)} \ {0}) /\ dropped' = dropped
         \/ dropped' = dropped \cup ({Holds(c)} \ {0}) /\ acked' = acked
  PROVE  OnePlace'
  <1>1. Messages' = Messages /\ Queued' = Queued /\ (QueueIsSet' <=> QueueIsSet)
    BY DEF Messages, Queued, QueueIsSet
  <1> DEFINE released == {Holds(c)} \ {0}
  <1>2. released \subseteq Held /\ Held' = Held \ released
    BY ReleaseHeld DEF Held
  <1>3. \A d, e \in Consumers : Holds(d)' = Holds(e)' /\ Holds(d)' # 0 => d = e
    BY ReleaseHeld
  <1>4. \/ acked' = acked \cup released /\ dropped' = dropped
        \/ dropped' = dropped \cup released /\ acked' = acked
    OBVIOUS
  <1> HIDE DEF released
  <1> QED
    BY <1>1, <1>2, <1>3, <1>4 DEF OnePlace

(* Nothing moves.                                                          *)
LEMMA SameOnePlace ==
  ASSUME OnePlace, \A d \in Consumers : Holds(d)' = Holds(d),
         queue' = queue, log' = log, acked' = acked, dropped' = dropped
  PROVE  OnePlace'
  <1>1. Messages' = Messages /\ Queued' = Queued /\ (QueueIsSet' <=> QueueIsSet)
    BY DEF Messages, Queued, QueueIsSet
  <1>2. Held' = Held
    BY DEF Held
  <1> QED
    BY <1>1, <1>2 DEF OnePlace

LEMMA PublishOnePlace ==
  ASSUME TypeOK, OnePlace, Publish
  PROVE  OnePlace'
  <1> DEFINE x == Len(log')
  <1>1. x = Len(log) + 1 /\ Messages' = Messages \cup {x} /\ x \notin Messages
    BY DEF Publish, TypeOK, Messages
  <1>2. Elems(queue') = Elems(queue) \cup {x} /\ Distinct(queue')
    BY <1>1, AppendElems, QueueElems, QueuedAreMessages DEF Publish, OnePlace, TypeOK
  <1>3. Queued' = Elems(queue') /\ (QueueIsSet' <=> Distinct(queue'))
    BY DEF Queued, Elems, QueueIsSet, Distinct
  <1>4. Held' = Held /\ \A d \in Consumers : Holds(d)' = Holds(d)
    BY DEF Publish, Held, Holds
  <1>5. acked' = acked /\ dropped' = dropped
    BY DEF Publish
  <1> QED
    BY <1>1, <1>2, <1>3, <1>4, <1>5, QueueElems, QueuedAreMessages DEF OnePlace

LEMMA ReceiveOnePlace ==
  ASSUME TypeOK, OnePlace, NEW c \in Consumers, Receive(c)
  PROVE  OnePlace'
  <1> DEFINE x == Head(queue)
  <1>1. worker[c] \in Worker /\ worker[c].msg = 0 /\ worker'[c].msg = x
    <2> DEFINE w == [worker[c] EXCEPT !.pc = "check", !.msg = x]
    <2>1. worker[c] \in Worker /\ worker[c].msg = 0
      BY DEF TypeOK, Receive, Placed, Busy
    <2>2. w.msg = x
      BY <2>1 DEF Worker
    <2>3. worker'[c] = w
      BY Moved DEF TypeOK, Receive
    <2> QED
      BY <2>1, <2>2, <2>3
  <1>2. Holds(c) = 0 /\ Holds(c)' = x /\ \A d \in Consumers : d # c => Holds(d)' = Holds(d)
    BY <1>1, Moved DEF Holds, Receive, TypeOK
  <1>3. /\ Elems(queue') = Queued \ {x} /\ Distinct(queue') /\ x \in Queued
    BY TailElems, QueueElems DEF Receive, TypeOK, OnePlace
  <1>4. Queued' = Elems(queue') /\ (QueueIsSet' <=> Distinct(queue'))
    BY DEF Queued, Elems, QueueIsSet, Distinct
  <1>5. Held' = Held \cup {x} /\ x \notin Held /\ x # 0
    BY <1>2, <1>3, QueuedAreMessages DEF Held, OnePlace
  <1>6. \A d, e \in Consumers : Holds(d)' = Holds(e)' /\ Holds(d)' # 0 => d = e
    BY <1>2, <1>5 DEF OnePlace, Held
  <1>7. Messages' = Messages /\ acked' = acked /\ dropped' = dropped
    BY DEF Receive, Messages
  <1> QED
    BY <1>3, <1>4, <1>5, <1>6, <1>7 DEF OnePlace

PlaceInv == TypeOK /\ OnePlace

LEMMA NextPlaceInv == PlaceInv /\ [Next]_vars => PlaceInv'
  <1> SUFFICES ASSUME PlaceInv, [Next]_vars PROVE PlaceInv'
    OBVIOUS
  <1> USE DEF PlaceInv
  <1>1. TypeOK' /\ worker \in [Consumers -> Worker]
    BY NextTypeOK DEF TypeOK
  <1>2. ASSUME NEW c \in Consumers, NEW w, Move(c, w), w.msg = 0, UNCHANGED open
        PROVE  Releases(c)
    BY <1>1, <1>2, Moved DEF Releases, Holds
  <1>3. ASSUME NEW c \in Consumers, Discard(c) \/ Ack(c) PROVE OnePlace'
    <2>1. Releases(c)
      BY <1>1, <1>2, <1>3, IdleType DEF Discard, Ack, Done
    <2>2. Holds(c) # 0 <=> open[c]
      BY <1>3, QueuedAreMessages DEF Discard, Ack, BatchDone, Holds, TypeOK, Placed, Busy, Messages
    <2>3. /\ queue' = queue /\ log' = log
          /\ \/ acked' = acked \cup ({Holds(c)} \ {0}) /\ dropped' = dropped
             \/ dropped' = dropped \cup ({Holds(c)} \ {0}) /\ acked' = acked
      BY <1>3, <2>2 DEF Discard, Ack, Holds
    <2> QED
      BY <2>1, <2>3, SettleOnePlace
  <1>4. ASSUME NEW c \in Consumers, RequeueFailed(c) PROVE OnePlace'
    <2>1. Releases(c)
      BY <1>1, <1>2, <1>4, IdleType DEF RequeueFailed, Done
    <2> QED
      BY <1>4, <2>1, ReturnOnePlace DEF RequeueFailed
  <1>5. ASSUME NEW c \in Consumers, Close(c) \/ Crash(c) PROVE OnePlace'
    <2>1. open'[c] = FALSE /\ \A d \in Consumers : d # c => open'[d] = open[d]
      BY <1>5 DEF Close, Crash, TypeOK
    <2>2. \A d \in Consumers : d # c => worker'[d] = worker[d]
      BY <1>1, <1>5, Moved DEF Close, Crash
    <2>3. Releases(c)
      BY <2>1, <2>2 DEF Releases, Holds
    <2> QED
      BY <1>5, <2>3, ReturnOnePlace DEF Close, Crash
  <1>6. ASSUME NEW c \in Consumers, StopConsuming(c) \/ Restart(c) PROVE OnePlace'
    <2>1. worker[c].msg = 0 /\ worker'[c].msg = 0
      <3>1. [Idle EXCEPT !.pc = "stopped"].msg = 0 /\ Idle.msg = 0
        BY DEF Idle
      <3> QED
        BY <1>1, <1>6, <3>1, Moved DEF StopConsuming, Restart, TypeOK, Placed, Busy
    <2>2. \A d \in Consumers : d # c => worker'[d] = worker[d] /\ open'[d] = open[d]
      BY <1>1, <1>6, Moved DEF StopConsuming, Restart, TypeOK, brokerVars
    <2>3. \A d \in Consumers : Holds(d)' = Holds(d)
      BY <2>1, <2>2 DEF Holds
    <2> QED
      BY <1>6, <2>3, SameOnePlace DEF StopConsuming, Restart, brokerVars
  <1>7. ASSUME NEW c \in Consumers,
               Ignore(c) \/ Judge(c) \/ JudgeFails(c) \/ Upsert(c) \/ UpsertFails(c)
               \/ Dispatch(c) \/ Expire(c)
        PROVE  OnePlace'
    <2>1. UNCHANGED brokerVars
      BY <1>7 DEF Ignore, Judge, JudgeFails, Upsert, UpsertFails, Dispatch, Expire
    <2>2. worker'[c].msg = worker[c].msg /\ \A d \in Consumers : d # c => worker'[d] = worker[d]
      <3>1. worker[c] \in Worker
        BY <1>1
      <3>2. \A st, a :
              [worker[c] EXCEPT !.pc = "upsert", !.st = st, !.alert = a].msg = worker[c].msg
        BY <3>1 DEF Worker
      <3>3. /\ [worker[c] EXCEPT !.pc = "dispatch"].msg = worker[c].msg
            /\ [worker[c] EXCEPT !.expired = TRUE].msg = worker[c].msg
        BY <3>1 DEF Worker
      <3>4. PICK w : Move(c, w) /\ w.msg = worker[c].msg
        <4>1. NextResult(worker[c]).msg = worker[c].msg /\ SkipResult(worker[c]).msg = worker[c].msg
          BY <3>1, ResultStep
        <4>2. CASE Judge(c)
          BY <4>2, <3>2 DEF Judge
        <4>3. CASE Upsert(c) \/ UpsertFails(c)
          BY <4>1, <4>3, <3>3 DEF Upsert, UpsertFails, AfterUpsert
        <4> QED
          BY <1>7, <4>1, <4>2, <4>3, <3>3 DEF Ignore, JudgeFails, Dispatch, Expire
      <3> QED
        BY <1>1, <3>4, Moved
    <2>3. \A d \in Consumers : Holds(d)' = Holds(d)
      BY <2>1, <2>2 DEF Holds, brokerVars
    <2> QED
      BY <2>1, <2>3, SameOnePlace DEF brokerVars
  <1>8. CASE UNCHANGED vars
    <2>1. \A d \in Consumers : Holds(d)' = Holds(d)
      BY <1>8 DEF vars, brokerVars, Holds
    <2> QED
      BY <1>1, <1>8, <2>1, SameOnePlace DEF vars, brokerVars
  <1> QED
    BY <1>1, <1>3, <1>4, <1>5, <1>6, <1>7, <1>8, PublishOnePlace, ReceiveOnePlace
    DEF Next, Work, Consume, Settle

(* A published message is never lost, duplicated or held twice: it is      *)
(* ready, held by one consumer, acknowledged or rejected.                  *)
THEOREM MessagesPlaced == Spec => []OnePlace
  <1>1. Init => PlaceInv
    <2> SUFFICES ASSUME Init PROVE OnePlace
      BY InitTypeOK DEF PlaceInv
    <2>1. Held = {} /\ \A c \in Consumers : Holds(c) = 0
      BY IdleType DEF Init, Held, Holds
    <2> QED
      BY <2>1 DEF Init, OnePlace, QueueIsSet, Queued, Messages
  <1> QED
    BY <1>1, NextPlaceInv, PTL DEF Spec, PlaceInv

-----------------------------------------------------------------------------
(* TwoChecks, for one consumer to which nothing happens.  A second one, or *)
(* a batch that is judged again after a fault, makes one failed check      *)
(* count twice.                                                            *)

OneConsumer == \A c, d \in Consumers : c = d
Undisturbed == OneConsumer /\ Faults = {} /\ Poison = {}

Decided(c) == worker[c].pc \in {"upsert", "dispatch"}

(* No fault leaves a trace.                                                *)
Calm(c) ==
  /\ open[c] /\ ~worker[c].failed /\ ~worker[c].expired
  /\ worker[c].pc \notin {"stopped", "dead"}
  /\ ~Decided(c) => worker[c].alert = "none"

(* No check is judged that is still to come: not one of a ready message,   *)
(* nor a later one of the batch in hand.                                   *)
BehindUs(x) ==
  /\ x[1] \in Messages \ Queued
  /\ \A c \in Consumers : x[1] = worker[c].msg =>
       x[2] < worker[c].idx \/ (x[2] = worker[c].idx /\ Decided(c))

(* The row, or the one about to be written, counts the failed checks since *)
(* the last success.                                                       *)
CountOf(c, m) ==
  IF worker[c].pc = "upsert" /\ MonitorOf(Current(c)) = m THEN worker[c].st.cf ELSE health[m].cf

Counted(m) ==
  /\ failing[m] \subseteq judged /\ IsFiniteSet(failing[m])
  /\ \A c \in Consumers : Cardinality(failing[m]) = CountOf(c, m)

Warned(c) ==
  worker[c].alert = "down" =>
    /\ worker[c].pc = "upsert" => worker[c].st.cf >= 2
    /\ worker[c].pc = "dispatch" => Cardinality(failing[MonitorOf(Current(c))]) >= 2

RuleInv ==
  /\ \A c \in Consumers : Calm(c) /\ Warned(c)
  /\ \A x \in judged : BehindUs(x)
  /\ \A m \in Monitors : Counted(m)

CountInv == PlaceInv /\ RuleInv

(* What is left of Next.                                                   *)
LEMMA UndisturbedSteps ==
  ASSUME Undisturbed, CountInv, [Next]_vars
  PROVE  \/ UNCHANGED vars \/ Publish
         \/ \E c \in Consumers : \/ Receive(c) \/ Ignore(c) \/ Judge(c) \/ Upsert(c)
                                 \/ Dispatch(c) \/ Discard(c) \/ Ack(c)
  <1>1. \A kind : ~Fail(kind)
    BY DEF Undisturbed, Fail, MayFail
  <1>2. \A c \in Consumers : ~JudgeFails(c)
    BY <1>1 DEF Undisturbed, JudgeFails, CallFails, CountInv, RuleInv, Calm
  <1>3. \A c \in Consumers : ~UpsertFails(c) /\ ~Expire(c) /\ ~Close(c) /\ ~Crash(c)
    BY <1>1 DEF UpsertFails, CallFails, Expire, Close, Crash, CountInv, RuleInv, Calm
  <1>4. \A c \in Consumers : ~StopConsuming(c) /\ ~Restart(c) /\ ~RequeueFailed(c)
    BY DEF StopConsuming, Restart, RequeueFailed, CountInv, RuleInv, Calm
  <1> QED
    BY <1>2, <1>3, <1>4 DEF Next, Work, Consume, Settle

(* A step of the one consumer that judges nothing and writes no row.       *)
LEMMA MoveOnCounts ==
  ASSUME OneConsumer, RuleInv, NEW c \in Consumers,
         worker'[c].pc \notin {"upsert", "dispatch"}, worker[c].pc # "upsert",
         Calm(c)', health' = health, judged' = judged, failing' = failing,
         \A x \in judged : /\ x[1] \in Messages' \ Queued'
                           /\ x[1] = worker'[c].msg => x[2] < worker'[c].idx
  PROVE  RuleInv'
  <1>1. \A d \in Consumers : d = c
    BY DEF OneConsumer
  <1>2. Warned(c)'
    BY DEF Warned, Calm, Decided
  <1>3. \A x \in judged' : BehindUs(x)'
    BY <1>1 DEF BehindUs
  <1>4. ASSUME NEW m \in Monitors PROVE Counted(m)'
    <2>1. Counted(m) /\ CountOf(c, m) = health[m].cf /\ CountOf(c, m)' = health[m].cf
      BY DEF RuleInv, CountOf
    <2> QED
      BY <1>1, <2>1 DEF Counted
  <1> QED
    BY <1>1, <1>2, <1>3, <1>4 DEF RuleInv

LEMMA PublishCounts ==
  ASSUME CountInv, Publish
  PROVE  RuleInv'
  <1>1. TypeOK /\ OnePlace /\ RuleInv
    BY DEF CountInv, PlaceInv
  <1> DEFINE n == Len(log')
  <1>2. n = Len(log) + 1 /\ Messages' = Messages \cup {n} /\ n \notin Messages
    BY <1>1 DEF Publish, TypeOK, Messages
  <1>3. Elems(queue') = Elems(queue) \cup {n}
    BY <1>1, <1>2, AppendElems, QueueElems, QueuedAreMessages DEF Publish, OnePlace, TypeOK
  <1>4. Queued' = Queued \cup {n}
    BY <1>3, QueueElems DEF Queued, Elems
  <1>5. UNCHANGED <<worker, health, judged, failing, open>>
    BY DEF Publish, historyVars
  <1>6. ASSUME NEW c \in Consumers, Decided(c)
        PROVE  MonitorOf(Current(c))' = MonitorOf(Current(c))
    <2>1. PICK b \in Bodies : log' = Append(log, b)
      BY DEF Publish
    <2>2. worker[c].msg \in Messages /\ log \in Seq(Bodies)
      BY <1>1, <1>6 DEF TypeOK, Placed, Busy, Decided
    <2>3. log'[worker[c].msg] = log[worker[c].msg]
      BY <2>1, <2>2 DEF Messages
    <2> QED
      BY <1>5, <2>3 DEF Current, Body
  <1>7. ASSUME NEW c \in Consumers PROVE Calm(c)' /\ Warned(c)'
    BY <1>1, <1>5, <1>6 DEF RuleInv, Calm, Warned, Decided
  <1>8. ASSUME NEW x \in judged PROVE BehindUs(x)'
    BY <1>1, <1>2, <1>4, <1>5 DEF RuleInv, BehindUs, Decided
  <1>9. ASSUME NEW m \in Monitors PROVE Counted(m)'
    <2>1. \A c \in Consumers : CountOf(c, m)' = CountOf(c, m)
      BY <1>5, <1>6 DEF CountOf, Decided
    <2> QED
      BY <1>1, <1>5, <2>1 DEF RuleInv, Counted
  <1> QED
    BY <1>5, <1>7, <1>8, <1>9 DEF RuleInv

LEMMA ReceiveCounts ==
  ASSUME Undisturbed, CountInv, NEW c \in Consumers, Receive(c)
  PROVE  RuleInv'
  <1>1. TypeOK /\ OnePlace /\ RuleInv /\ OneConsumer /\ Calm(c)
    BY DEF CountInv, PlaceInv, Undisturbed, RuleInv
  <1> DEFINE w == [worker[c] EXCEPT !.pc = "check", !.msg = Head(queue)]
  <1>2. worker[c] \in Worker /\ worker[c].pc = "idle" /\ Move(c, w)
    BY <1>1 DEF Receive, TypeOK
  <1>3. /\ w.pc = "check" /\ w.msg = Head(queue) /\ w.failed = worker[c].failed
        /\ w.expired = worker[c].expired /\ w.alert = worker[c].alert
    BY <1>2 DEF Worker
  <1>4. worker'[c] = w
    BY <1>1, <1>2, Moved DEF TypeOK
  <1> HIDE DEF w
  <1>5. Calm(c)'
    BY <1>1, <1>2, <1>3, <1>4 DEF Calm, Decided, Receive
  <1>6. Elems(queue') = Queued \ {Head(queue)} /\ Head(queue) \in Queued
    BY <1>1, TailElems, QueueElems DEF Receive, TypeOK, OnePlace
  <1>7. Queued' = Elems(queue') /\ Messages' = Messages
    BY DEF Queued, Elems, Receive, Messages
  <1>8. \A x \in judged : x[1] \in Messages' \ Queued' /\ x[1] # worker'[c].msg
    BY <1>1, <1>3, <1>4, <1>6, <1>7 DEF RuleInv, BehindUs
  <1>9. UNCHANGED <<health, judged, failing>>
    BY DEF Receive, historyVars
  <1> QED
    BY <1>1, <1>2, <1>3, <1>4, <1>5, <1>8, <1>9, MoveOnCounts

(* The result is done, or the batch.                                       *)
LEMMA PassCounts ==
  ASSUME Undisturbed, CountInv, NEW c \in Consumers,
         Ignore(c) \/ Dispatch(c) \/ Discard(c) \/ Ack(c)
  PROVE  RuleInv'
  <1>1. TypeOK /\ RuleInv /\ OneConsumer /\ Calm(c) /\ worker[c] \in Worker
    BY DEF CountInv, PlaceInv, Undisturbed, RuleInv, TypeOK
  <1>2. /\ UNCHANGED <<log, queue, open, health, judged, failing>>
        /\ worker[c].pc \in {"check", "dispatch"}
    BY DEF Ignore, Dispatch, Discard, Ack, AtResult, BatchDone, brokerVars, historyVars
  <1>3. Messages' = Messages /\ Queued' = Queued
    BY <1>2 DEF Messages, Queued
  <1>4. \A x \in judged : BehindUs(x) /\ x[1] \in Messages' \ Queued'
    BY <1>1, <1>3 DEF RuleInv, BehindUs
  <1>5. CASE Ignore(c) \/ Dispatch(c)
    <2>1. worker'[c] = NextResult(worker[c])
      BY <1>1, <1>5, Moved DEF Ignore, Dispatch, TypeOK
    <2>2. /\ worker'[c].pc = "check" /\ worker'[c].msg = worker[c].msg
          /\ worker'[c].idx = worker[c].idx + 1 /\ worker'[c].failed = worker[c].failed
      BY <1>1, <2>1, ResultStep
    <2>3. worker'[c].expired = worker[c].expired /\ worker'[c].alert = "none"
      BY <1>1, <2>1 DEF NextResult, Worker
    <2>4. Calm(c)'
      BY <1>1, <1>2, <2>2, <2>3 DEF Calm
    <2>5. ASSUME NEW x \in judged, x[1] = worker[c].msg PROVE x[2] < worker[c].idx + 1
      <3>1. x[2] < worker[c].idx \/ x[2] = worker[c].idx
        BY <1>4, <2>5 DEF BehindUs
      <3>2. judged \subseteq Nat \X Nat /\ worker[c].idx \in Nat
        BY <1>1 DEF TypeOK, Worker
      <3>3. x[2] \in Nat
        BY <3>2
      <3> QED
        BY <3>1, <3>2, <3>3
    <2> QED
      BY <1>1, <1>2, <1>4, <2>2, <2>4, <2>5, MoveOnCounts
  <1>6. CASE Discard(c) \/ Ack(c)
    <2>1. worker'[c] = Idle
      BY <1>1, <1>6, Moved DEF Discard, Ack, TypeOK, Done
    <2>2. Idle.alert = "none" /\ ~Idle.expired
      BY DEF Idle
    <2>3. Calm(c)'
      BY <1>1, <1>2, <2>1, <2>2, IdleType DEF Calm
    <2>4. \A x \in judged : x[1] # worker'[c].msg
      BY <1>1, <1>4, <2>1, IdleType DEF BehindUs, Messages, TypeOK
    <2> QED
      BY <1>1, <1>2, <1>4, <2>1, <2>3, <2>4, IdleType, MoveOnCounts
  <1> QED
    BY <1>5, <1>6

(* A judged check is a new one: the count and the set grow together.       *)
LEMMA JudgeCounts ==
  ASSUME Undisturbed, CountInv, NEW c \in Consumers, Judge(c)
  PROVE  RuleInv'
  <1> DEFINE m == MonitorOf(Current(c))
             ok == Current(c).ok
             w == [worker[c] EXCEPT !.pc = "upsert", !.st = NextHealth(health[m], ok),
                                    !.alert = AlertFor(health[m], ok)]
             x == Check(c)
  <1>1. /\ TypeOK /\ OnePlace /\ RuleInv /\ Calm(c) /\ \A d \in Consumers : d = c
        /\ worker[c] \in Worker /\ worker[c].idx \in Nat
    BY DEF CountInv, PlaceInv, Undisturbed, RuleInv, TypeOK, OneConsumer, Worker
  <1>2. /\ AtResult(c) /\ Move(c, w) /\ UNCHANGED <<log, queue, open, health>>
        /\ judged' = judged \cup {x}
        /\ failing' = [failing EXCEPT ![m] = IF ok THEN {} ELSE @ \cup {x}]
    BY DEF Judge, brokerVars
  <1>3. /\ m \in Monitors /\ ok \in BOOLEAN /\ worker[c].pc = "check"
        /\ worker[c].msg \in Messages
    BY <1>1, <1>2, CurrentType DEF Judge, Result, AtResult
  <1>4. /\ w.pc = "upsert" /\ w.msg = worker[c].msg /\ w.idx = worker[c].idx
        /\ w.st = NextHealth(health[m], ok) /\ w.alert = AlertFor(health[m], ok)
        /\ w.failed = worker[c].failed /\ w.expired = worker[c].expired
    BY <1>1 DEF Worker
  <1>5. worker'[c] = w
    BY <1>1, <1>2, Moved DEF TypeOK
  <1> HIDE DEF w
  <1>6. /\ MonitorOf(Current(c))' = m /\ Messages' = Messages /\ Queued' = Queued
    BY <1>2, <1>4, <1>5 DEF Current, Body, Messages, Queued
  <1>7. x[1] = worker[c].msg /\ x[2] = worker[c].idx
    BY DEF Check
  <1>8. health[m] \in Health
    BY <1>1, <1>3 DEF TypeOK
  <1>9. x \notin judged
    <2> SUFFICES ASSUME x \in judged PROVE FALSE
      OBVIOUS
    <2>1. x[2] < worker[c].idx
      BY <1>1, <1>3, <1>7 DEF RuleInv, BehindUs, Decided
    <2> QED
      BY <1>1, <1>7, <2>1
  <1>10. x[1] \in Messages \ Queued
    <2>1. Holds(c) = worker[c].msg /\ worker[c].msg # 0
      BY <1>1, <1>3 DEF Holds, Calm, TypeOK, Messages
    <2>2. worker[c].msg \in Held
      BY <2>1 DEF Held
    <2> QED
      BY <1>1, <1>3, <1>7, <2>2 DEF OnePlace
  <1>11. ASSUME NEW y \in judged' PROVE BehindUs(y)'
    <2>1. CASE y = x
      BY <1>1, <1>4, <1>5, <1>6, <1>7, <1>10, <2>1 DEF BehindUs, Decided
    <2>2. CASE y \in judged
      <3>1. BehindUs(y)
        BY <1>1, <2>2 DEF RuleInv
      <3> QED
        BY <1>1, <1>3, <1>4, <1>5, <1>6, <3>1 DEF BehindUs, Decided
    <2> QED
      BY <1>2, <2>1, <2>2
  <1>12. Calm(c)'
    BY <1>1, <1>2, <1>4, <1>5 DEF Calm, Decided
  <1>13. Warned(c)'
    <2>1. AlertFor(health[m], ok) = "down" => NextHealth(health[m], ok).cf >= 2
      BY <1>8 DEF AlertFor, NextHealth, OnFailure, DownThreshold, Health
    <2> QED
      BY <1>4, <1>5, <2>1 DEF Warned
  <1>14. ASSUME NEW k \in Monitors PROVE Counted(k)'
    <2>1. /\ failing[k] \subseteq judged /\ IsFiniteSet(failing[k])
          /\ Cardinality(failing[k]) = health[k].cf
      BY <1>1, <1>3 DEF RuleInv, Counted, CountOf
    <2>2. CASE k # m
      <3>1. failing'[k] = failing[k] /\ CountOf(c, k)' = health[k].cf
        BY <1>1, <1>2, <1>6, <2>2 DEF CountOf, TypeOK
      <3> QED
        BY <1>1, <1>2, <2>1, <3>1 DEF Counted
    <2>3. CASE k = m
      <3>1. CountOf(c, k)' = NextHealth(health[m], ok).cf
        BY <1>4, <1>5, <1>6, <2>3 DEF CountOf
      <3>2. failing'[k] = IF ok THEN {} ELSE failing[k] \cup {x}
        BY <1>1, <1>2, <2>3 DEF TypeOK
      <3>3. CASE ok
        <4>1. CountOf(c, k)' = 0
          BY <3>1, <3>3 DEF NextHealth, OnSuccess, Healthy
        <4>2. failing'[k] = {}
          BY <3>2, <3>3
        <4>3. IsFiniteSet({}) /\ Cardinality({}) = 0
          BY FS_EmptySet
        <4> QED
          BY <1>1, <4>1, <4>2, <4>3 DEF Counted
      <3>4. CASE ~ok
        <4>1. CountOf(c, k)' = health[k].cf + 1
          BY <1>8, <2>3, <3>1, <3>4 DEF NextHealth, OnFailure, Health
        <4>2. IsFiniteSet(failing[k] \cup {x})
              /\ Cardinality(failing[k] \cup {x}) = Cardinality(failing[k]) + 1
          BY <1>9, <2>1, FS_AddElement
        <4>3. failing'[k] = failing[k] \cup {x}
          BY <3>2, <3>4
        <4> HIDE DEF x
        <4>4. failing'[k] \subseteq judged' /\ IsFiniteSet(failing'[k])
          BY <1>2, <2>1, <4>2, <4>3
        <4>5. Cardinality(failing'[k]) = CountOf(c, k)'
          BY <2>1, <4>1, <4>2, <4>3
        <4> QED
          BY <1>1, <4>4, <4>5 DEF Counted
      <3> QED
        BY <3>3, <3>4
    <2> QED
      BY <2>2, <2>3
  <1> QED
    BY <1>1, <1>11, <1>12, <1>13, <1>14 DEF RuleInv

LEMMA UpsertCounts ==
  ASSUME Undisturbed, CountInv, NEW c \in Consumers, Upsert(c)
  PROVE  RuleInv'
  <1> DEFINE m == MonitorOf(Current(c))
  <1>1. /\ TypeOK /\ RuleInv /\ Calm(c) /\ Warned(c) /\ \A d \in Consumers : d = c
        /\ worker[c] \in Worker /\ worker[c].idx \in Nat
    BY DEF CountInv, PlaceInv, Undisturbed, RuleInv, TypeOK, OneConsumer, Worker
  <1>2. /\ worker[c].pc = "upsert" /\ UNCHANGED <<log, queue, open, judged, failing>>
        /\ health' = [health EXCEPT ![m] = worker[c].st]
        /\ worker'[c] = AfterUpsert(worker[c])
    BY <1>1, Moved DEF Upsert, brokerVars, TypeOK
  <1>3. m \in Monitors /\ Messages' = Messages /\ Queued' = Queued
    BY <1>1, <1>2 DEF TypeOK, Placed, Busy, Messages, Queued
  <1>4. \A k \in Monitors : health'[k] = IF k = m THEN worker[c].st ELSE health[k]
    BY <1>1, <1>2, <1>3 DEF TypeOK
  <1>5. /\ worker'[c].pc \in {"check", "dispatch"} /\ worker'[c].msg = worker[c].msg
        /\ worker'[c].failed = worker[c].failed /\ worker'[c].expired = worker[c].expired
        /\ worker'[c].pc = "check" =>
             worker'[c].alert = "none" /\ worker'[c].idx = worker[c].idx + 1
        /\ worker'[c].pc = "dispatch" =>
             worker'[c].alert = worker[c].alert /\ worker'[c].idx = worker[c].idx
    <2>1. CASE worker[c].alert = "none"
      BY <1>1, <1>2, <2>1 DEF AfterUpsert, NextResult, Worker
    <2>2. CASE worker[c].alert # "none"
      BY <1>1, <1>2, <2>2 DEF AfterUpsert, Worker
    <2> QED
      BY <2>1, <2>2
  <1>6. ASSUME NEW k \in Monitors PROVE Counted(k)'
    <2>1. CountOf(c, k) = IF k = m THEN worker[c].st.cf ELSE health[k].cf
      BY <1>2 DEF CountOf
    <2>2. CountOf(c, k)' = health'[k].cf
      BY <1>5 DEF CountOf
    <2>3. CountOf(c, k)' = CountOf(c, k)
      BY <1>4, <2>1, <2>2
    <2> QED
      BY <1>1, <1>2, <2>3 DEF RuleInv, Counted
  <1>7. Warned(c)'
    <2> SUFFICES ASSUME worker'[c].pc = "dispatch", worker[c].alert = "down"
                 PROVE  Cardinality(failing'[MonitorOf(Current(c))']) >= 2
      BY <1>5 DEF Warned
    <2>1. MonitorOf(Current(c))' = m
      BY <1>2, <1>5 DEF Current, Body
    <2>2. Cardinality(failing[m]) = worker[c].st.cf /\ worker[c].st.cf >= 2
      BY <1>1, <1>2, <1>3 DEF RuleInv, Counted, CountOf, Warned
    <2> QED
      BY <1>2, <2>1, <2>2
  <1>8. Calm(c)'
    BY <1>1, <1>2, <1>5 DEF Calm, Decided
  <1>9. ASSUME NEW x \in judged PROVE BehindUs(x)'
    <2>1. x[1] \in Messages \ Queued
          /\ (x[1] = worker[c].msg => x[2] < worker[c].idx \/ x[2] = worker[c].idx)
      BY <1>1 DEF RuleInv, BehindUs
    <2>2. x[2] \in Nat
      BY <1>1 DEF TypeOK
    <2>3. x[1] = worker[c].msg => x[2] < worker[c].idx + 1
      BY <1>1, <2>1, <2>2
    <2> QED
      BY <1>1, <1>3, <1>5, <2>1, <2>3 DEF BehindUs, Decided
  <1> QED
    BY <1>1, <1>2, <1>6, <1>7, <1>8, <1>9 DEF RuleInv

LEMMA CountInvariant ==
  ASSUME Undisturbed
  PROVE  Spec => []CountInv
  <1>1. Init => RuleInv
    <2> SUFFICES ASSUME Init PROVE RuleInv
      OBVIOUS
    <2>1. Idle.alert = "none" /\ ~Idle.expired /\ Healthy.cf = 0
      BY DEF Idle, Healthy
    <2>2. \A c \in Consumers : Calm(c) /\ Warned(c)
      BY <2>1, IdleType DEF Init, Calm, Warned, Decided
    <2>3. \A m \in Monitors : Counted(m)
      BY <2>1, IdleType, FS_EmptySet DEF Init, Counted, CountOf
    <2> QED
      BY <2>2, <2>3 DEF Init, RuleInv
  <1>2. CountInv /\ [Next]_vars => RuleInv'
    <2> SUFFICES ASSUME CountInv, [Next]_vars PROVE RuleInv'
      OBVIOUS
    <2>1. CASE UNCHANGED vars
      BY <2>1 DEF CountInv, RuleInv, vars, brokerVars, historyVars, Calm, Warned, BehindUs, Counted,
         CountOf, Decided, Messages, Queued, Current, Body
    <2> QED
      BY <2>1, UndisturbedSteps, PublishCounts, ReceiveCounts, PassCounts, JudgeCounts, UpsertCounts
  <1> QED
    BY <1>1, <1>2, TypeCorrect, MessagesPlaced, PTL DEF Spec, CountInv, PlaceInv

(* For one consumer to which nothing happens, a monitor is declared down   *)
(* only after two distinct failed checks since its last success.           *)
THEOREM DownAfterTwoChecks ==
  ASSUME Undisturbed
  PROVE  Spec => []TwoChecks
  <1>1. CountInv => TwoChecks
    BY DEF CountInv, RuleInv, Calm, Warned, TwoChecks, Counted, CountOf, Decided, PlaceInv, TypeOK,
       Placed, Busy
  <1> QED
    BY <1>1, CountInvariant, PTL

-----------------------------------------------------------------------------
(* The two-packet rule.  For one consumer and no fault the messages are    *)
(* taken one after the other, so that what was judged are the checks in    *)
(* front of the one in hand.                                               *)

Taken == Len(log) - Len(queue)

(* The queue holds the messages after the last one taken.                  *)
OrderInv ==
  /\ Len(queue) <= Len(log)
  /\ \A i \in 1..Len(queue) : queue[i] = Taken + i
  /\ \A c \in Consumers : Busy(c) => worker[c].msg = Taken

(* Consumer c has written the row for place i of the batch in hand.        *)
Behind(c, i) ==
  Busy(c) => i < worker[c].idx \/ (i = worker[c].idx /\ worker[c].pc = "dispatch")

Past(x) == x[1] < Taken \/ (x[1] = Taken /\ \A c \in Consumers : Behind(c, x[2]))

SavedInv ==
  /\ \A m \in Monitors : \A x \in ChecksOf(m) : x \in saved <=> Past(x)
  /\ \A x \in saved : x[1] <= Taken

(* The row remembers of the checks what the rule asks of the last one.     *)
LastFailed(m) ==
  \E x \in JudgedOf(m) :
    ~log[x[1]][x[2]].ok /\ \A y \in JudgedOf(m) : y = x \/ Rule!Before(y, x)

LastInv == \A m \in Monitors : health[m].cf >= 1 <=> LastFailed(m)

(* What is decided but not yet written was decided on the row as it is.    *)
Fresh(c) ==
  LET m == MonitorOf(Current(c))
      ok == Current(c).ok
  IN  /\ worker[c].pc = "upsert" =>
           /\ worker[c].st = NextHealth(health[m], ok)
           /\ worker[c].alert = AlertFor(health[m], ok)
      /\ worker[c].pc = "dispatch" => worker[c].alert # "none"

OrderlyInv == OrderInv /\ SavedInv /\ LastInv /\ \A c \in Consumers : Fresh(c)

(* A check is a place in a published batch.                                *)
LEMMA CheckShape ==
  ASSUME TypeOK, NEW m \in Monitors, NEW x \in ChecksOf(m)
  PROVE  /\ x = <<x[1], x[2]>> /\ x[1] \in Messages /\ x[1] \in Nat \ {0}
         /\ log[x[1]] # Malformed /\ log[x[1]] \in Seq(Result)
         /\ x[2] \in 1..Len(log[x[1]]) /\ x[2] \in Nat \ {0}
         /\ MonitorOf(log[x[1]][x[2]]) = m
  <1>1. PICK id \in Messages :
          log[id] # Malformed /\ x \in {id} \X {i \in DOMAIN log[id] : MonitorOf(log[id][i]) = m}
    BY DEF ChecksOf
  <1>2. log[id] \in Seq(Result)
    BY <1>1, BodyType
  <1>3. DOMAIN log[id] = 1..Len(log[id]) /\ Len(log[id]) \in Nat
    BY <1>2
  <1>4. PICK i \in DOMAIN log[id] : x = <<id, i>> /\ MonitorOf(log[id][i]) = m
    BY <1>1
  <1>5. x[1] = id /\ x[2] = i /\ id \in Nat \ {0} /\ i \in Nat \ {0}
    BY <1>3, <1>4 DEF TypeOK, Messages
  <1> QED
    BY <1>1, <1>2, <1>3, <1>4, <1>5

LEMMA CheckIntro ==
  ASSUME TypeOK, NEW id \in Messages, log[id] # Malformed, NEW i \in 1..Len(log[id])
  PROVE  <<id, i>> \in ChecksOf(MonitorOf(log[id][i]))
  <1>1. log[id] \in Seq(Result)
    BY BodyType
  <1>2. i \in DOMAIN log[id]
    BY <1>1
  <1> QED
    BY <1>2 DEF ChecksOf

(* One consumer has at most one alert in hand.                             *)
LEMMA TheNotice ==
  ASSUME OneConsumer, NEW c \in Consumers, NEW m
  PROVE  NoticeOf(m) =
           IF worker[c].pc = "dispatch" /\ MonitorOf(Current(c)) = m THEN worker[c].alert ELSE "none"
  <1>1. \A d \in Consumers : d = c
    BY DEF OneConsumer
  <1>2. CASE worker[c].pc = "dispatch" /\ MonitorOf(Current(c)) = m
    <2>1. Telling(m) = {c}
      BY <1>1, <1>2 DEF Telling
    <2> QED
      BY <1>2, <2>1 DEF NoticeOf
  <1>3. CASE ~(worker[c].pc = "dispatch" /\ MonitorOf(Current(c)) = m)
    <2>1. Telling(m) = {}
      BY <1>1, <1>3 DEF Telling
    <2> QED
      BY <1>3, <2>1 DEF NoticeOf
  <1> QED
    BY <1>2, <1>3

LEMMA NextNotice ==
  ASSUME OneConsumer, NEW c \in Consumers, NEW m
  PROVE  NoticeOf(m)' =
           IF worker'[c].pc = "dispatch" /\ MonitorOf(Current(c))' = m
           THEN worker'[c].alert ELSE "none"
  <1>1. \A d \in Consumers : d = c
    BY DEF OneConsumer
  <1>2. CASE worker'[c].pc = "dispatch" /\ MonitorOf(Current(c))' = m
    <2>1. Telling(m)' = {c}
      BY <1>1, <1>2 DEF Telling
    <2> QED
      BY <1>2, <2>1 DEF NoticeOf
  <1>3. CASE ~(worker'[c].pc = "dispatch" /\ MonitorOf(Current(c))' = m)
    <2>1. Telling(m)' = {}
      BY <1>1, <1>3 DEF Telling
    <2> QED
      BY <1>3, <2>1 DEF NoticeOf
  <1> QED
    BY <1>2, <1>3

(* As long as no row is written and nothing published, the checks and      *)
(* their outcomes are what they were.                                      *)
LEMMA SameChecks ==
  ASSUME UNCHANGED <<log, saved>>, NEW m
  PROVE  /\ ChecksOf(m)' = ChecksOf(m) /\ OutcomesOf(m)' = OutcomesOf(m)
         /\ JudgedOf(m)' = JudgedOf(m) /\ (LastFailed(m)' <=> LastFailed(m))
  <1>1. ChecksOf(m)' = ChecksOf(m)
    BY DEF ChecksOf, Messages
  <1>2. OutcomesOf(m)' = OutcomesOf(m) /\ JudgedOf(m)' = JudgedOf(m)
    BY <1>1 DEF OutcomesOf, JudgedOf
  <1> QED
    BY <1>1, <1>2 DEF LastFailed, Rule!Before

LEMMA StepsAside ==
  ASSUME OneConsumer, NEW c \in Consumers, UNCHANGED <<log, saved, health>>,
         worker[c].pc # "dispatch", worker'[c].pc # "dispatch"
  PROVE  UNCHANGED Rule!vars
  <1>1. \A m \in Monitors : NoticeOf(m)' = NoticeOf(m)
    BY TheNotice, NextNotice
  <1> QED
    BY <1>1, SameChecks DEF Rule!vars

(* A step that walks on through the batch, or to the next one, without     *)
(* passing a check or writing a row.                                       *)
LEMMA WalksOn ==
  ASSUME OneConsumer, OrderlyInv, NEW c \in Consumers, UNCHANGED <<log, saved, health>>,
         OrderInv', Fresh(c)', Taken' >= Taken, Taken \in Int, Taken' \in Int,
         \A x \in saved : x[1] \in Int,
         \A m \in Monitors : \A x \in ChecksOf(m) : Past(x)' <=> Past(x)
  PROVE  OrderlyInv'
  <1>1. SavedInv'
    <2>1. \A x \in saved' : x[1] <= Taken'
      BY DEF OrderlyInv, SavedInv
    <2>2. \A m \in Monitors : \A x \in ChecksOf(m)' : x \in saved' <=> Past(x)'
      BY SameChecks DEF OrderlyInv, SavedInv
    <2> QED
      BY <2>1, <2>2 DEF SavedInv
  <1>2. LastInv'
    BY SameChecks DEF OrderlyInv, LastInv
  <1> QED
    BY <1>1, <1>2 DEF OrderlyInv, OneConsumer

(* What the proofs about one step share.                                   *)
LEMMA StepFacts ==
  ASSUME Undisturbed, CountInv, HealthInv, OrderlyInv, NEW c \in Consumers
  PROVE  /\ TypeOK /\ OneConsumer /\ \A d \in Consumers : d = c
         /\ worker[c] \in Worker /\ worker[c].idx \in Nat \ {0}
         /\ Len(log) \in Nat /\ Len(queue) \in Nat /\ Taken \in Nat
         /\ \A x \in saved : x[1] \in Nat
         /\ Busy(c) => worker[c].msg = Taken /\ worker[c].msg \in Messages
  <1>1. TypeOK
    BY DEF CountInv, PlaceInv
  <1>2. Len(log) \in Nat /\ Len(queue) \in Nat /\ worker[c] \in Worker /\ saved \subseteq Nat \X Nat
    BY <1>1 DEF TypeOK
  <1>3. Taken \in Nat
    BY <1>2 DEF OrderlyInv, OrderInv, Taken
  <1>4. \A x \in saved : x[1] \in Nat
    BY <1>2
  <1>5. worker[c].idx \in Nat \ {0}
    BY <1>2 DEF Worker
  <1>6. Busy(c) => worker[c].msg = Taken /\ worker[c].msg \in Messages
    BY <1>1 DEF TypeOK, Placed, OrderlyInv, OrderInv
  <1> QED
    BY <1>1, <1>2, <1>3, <1>4, <1>5, <1>6 DEF Undisturbed, OneConsumer

(* The queue stands still.                                                 *)
LEMMA SameOrder ==
  ASSUME OneConsumer, OrderInv, NEW c \in Consumers, UNCHANGED <<log, queue>>,
         Busy(c)' => Busy(c) /\ worker'[c].msg = worker[c].msg
  PROVE  OrderInv' /\ Taken' = Taken
  BY DEF OrderInv, Taken, OneConsumer

LEMMA ReceiveOrderly ==
  ASSUME Undisturbed, CountInv, HealthInv, OrderlyInv, NEW c \in Consumers, Receive(c)
  PROVE  UNCHANGED Rule!vars /\ OrderlyInv'
  <1> DEFINE w == [worker[c] EXCEPT !.pc = "check", !.msg = Head(queue)]
  <1>1. /\ TypeOK /\ OneConsumer /\ \A d \in Consumers : d = c
        /\ worker[c] \in Worker /\ Taken \in Nat /\ \A x \in saved : x[1] \in Nat
    BY StepFacts
  <1>2. /\ worker[c].pc = "idle" /\ queue # << >> /\ queue' = Tail(queue)
        /\ UNCHANGED <<log, saved, health>> /\ worker'[c] = w
    BY <1>1, Moved DEF Receive, historyVars, TypeOK
  <1>3. /\ w.pc = "check" /\ w.msg = Head(queue) /\ w.idx = worker[c].idx
    BY <1>1 DEF Worker
  <1> HIDE DEF w
  <1>4. worker[c].idx = 1
    BY <1>1, <1>2 DEF TypeOK, Placed, Busy
  <1>5. /\ Len(queue) \in Nat \ {0} /\ Len(queue') = Len(queue) - 1 /\ Head(queue) = queue[1]
        /\ \A i \in 1..Len(queue') : queue'[i] = queue[i + 1]
    BY <1>1, <1>2 DEF TypeOK
  <1>6. Taken' = Taken + 1 /\ Len(log) \in Nat
    BY <1>1, <1>2, <1>5 DEF Taken, TypeOK
  <1>7. OrderInv'
    <2>1. \A i \in 1..Len(queue') : queue'[i] = Taken' + i
      BY <1>1, <1>5, <1>6 DEF OrderlyInv, OrderInv
    <2>2. worker'[c].msg = Taken'
      BY <1>1, <1>2, <1>3, <1>5, <1>6 DEF OrderlyInv, OrderInv
    <2> QED
      BY <1>1, <1>2, <1>5, <1>6, <2>1, <2>2 DEF OrderlyInv, OrderInv
  <1>8. ASSUME NEW m \in Monitors, NEW x \in ChecksOf(m) PROVE Past(x)' <=> Past(x)
    <2>1. x[1] \in Nat /\ x[2] \in Nat \ {0}
      BY <1>1, CheckShape
    <2>2. Behind(c, x[2]) /\ ~Behind(c, x[2])'
      BY <1>2, <1>3, <1>4, <2>1 DEF Behind, Busy
    <2> QED
      BY <1>1, <1>6, <2>1, <2>2 DEF Past
  <1>9. Fresh(c)'
    BY <1>2, <1>3 DEF Fresh
  <1> QED
    BY <1>1, <1>2, <1>3, <1>6, <1>7, <1>8, <1>9, StepsAside, WalksOn

(* A result is passed over, or a decision is taken and not yet written.    *)
LEMMA PassOrderly ==
  ASSUME Undisturbed, CountInv, HealthInv, OrderlyInv, NEW c \in Consumers,
         Ignore(c) \/ Judge(c) \/ Discard(c) \/ Ack(c)
  PROVE  UNCHANGED Rule!vars /\ OrderlyInv'
  <1>1. /\ TypeOK /\ OneConsumer /\ \A d \in Consumers : d = c
        /\ worker[c] \in Worker /\ worker[c].idx \in Nat \ {0}
        /\ Taken \in Nat /\ \A x \in saved : x[1] \in Nat
        /\ Busy(c) => worker[c].msg = Taken /\ worker[c].msg \in Messages
    BY StepFacts
  <1>2. /\ worker[c].pc = "check" /\ UNCHANGED <<log, queue, saved, health>>
    BY DEF Ignore, Judge, Discard, Ack, AtResult, BatchDone, brokerVars, historyVars
  <1>3. Busy(c) /\ worker[c].msg = Taken
    BY <1>1, <1>2 DEF Busy
  <1>4. CASE Ignore(c)
    <2>1. worker'[c] = NextResult(worker[c]) /\ MonitorOf(Current(c)) = NoMonitor
      BY <1>1, <1>4, Moved DEF Ignore, TypeOK
    <2>2. /\ worker'[c].pc = "check" /\ worker'[c].msg = worker[c].msg
          /\ worker'[c].idx = worker[c].idx + 1
      BY <1>1, <2>1, ResultStep
    <2>3. OrderInv' /\ Taken' = Taken
      BY <1>1, <1>2, <1>3, <2>2, SameOrder DEF OrderlyInv
    <2>4. ASSUME NEW m \in Monitors, NEW x \in ChecksOf(m) PROVE Past(x)' <=> Past(x)
      <3>1. x[1] \in Nat /\ x[2] \in Nat \ {0} /\ MonitorOf(log[x[1]][x[2]]) = m
        BY <1>1, CheckShape
      <3>2. x[1] = Taken => x[2] # worker[c].idx
        BY <1>3, <2>1, <3>1, MonitorsAssumption DEF Current, Body
      <3>3. x[1] = Taken => (Behind(c, x[2])' <=> Behind(c, x[2]))
        BY <1>1, <1>2, <1>3, <2>2, <3>1, <3>2 DEF Behind, Busy
      <3> QED
        BY <1>1, <2>3, <3>3 DEF Past
    <2>5. Fresh(c)'
      BY <2>2 DEF Fresh
    <2> QED
      BY <1>1, <1>2, <2>2, <2>3, <2>4, <2>5, StepsAside, WalksOn
  <1>5. CASE Judge(c)
    <2> DEFINE m == MonitorOf(Current(c))
               ok == Current(c).ok
               w == [worker[c] EXCEPT !.pc = "upsert", !.st = NextHealth(health[m], ok),
                                      !.alert = AlertFor(health[m], ok)]
    <2>1. worker'[c] = w
      BY <1>1, <1>5, Moved DEF Judge, TypeOK
    <2>2. /\ w.pc = "upsert" /\ w.msg = worker[c].msg /\ w.idx = worker[c].idx
          /\ w.st = NextHealth(health[m], ok) /\ w.alert = AlertFor(health[m], ok)
      BY <1>1 DEF Worker
    <2> HIDE DEF w
    <2>3. OrderInv' /\ Taken' = Taken
      BY <1>1, <1>2, <1>3, <2>1, <2>2, SameOrder DEF OrderlyInv
    <2>4. \A x : Past(x)' <=> Past(x)
      BY <1>1, <1>2, <1>3, <2>1, <2>2, <2>3 DEF Past, Behind, Busy
    <2>5. Current(c)' = Current(c)
      BY <1>2, <2>1, <2>2 DEF Current, Body
    <2>6. Fresh(c)'
      BY <1>2, <2>1, <2>2, <2>5 DEF Fresh
    <2> QED
      BY <1>1, <1>2, <2>1, <2>2, <2>3, <2>4, <2>6, StepsAside, WalksOn
  <1>6. CASE Discard(c) \/ Ack(c)
    <2>1. worker'[c] = Idle
      BY <1>1, <1>6, Moved DEF Discard, Ack, TypeOK, Done
    <2>2. worker'[c].pc = "idle" /\ ~Busy(c)'
      BY <2>1, IdleType DEF Busy
    <2>3. OrderInv' /\ Taken' = Taken
      BY <1>1, <1>2, <2>2, SameOrder DEF OrderlyInv
    <2>4. ASSUME NEW m \in Monitors, NEW x \in ChecksOf(m) PROVE Past(x)' <=> Past(x)
      <3>1. /\ x[1] \in Nat /\ x[2] \in Nat /\ log[x[1]] # Malformed
            /\ log[x[1]] \in Seq(Result) /\ x[2] \in 1..Len(log[x[1]])
        BY <1>1, CheckShape
      <3>2. x[1] = Taken => worker[c].idx > Len(log[x[1]])
        BY <1>3, <1>6, <3>1 DEF Discard, Ack, BatchDone, Body
      <3>3. Len(log[x[1]]) \in Nat
        BY <3>1
      <3>4. x[1] = Taken => x[2] < worker[c].idx
        BY <1>1, <3>1, <3>2, <3>3
      <3>5. x[1] = Taken => Behind(c, x[2])' /\ Behind(c, x[2])
        BY <2>2, <3>4 DEF Behind
      <3> QED
        BY <1>1, <2>3, <3>5 DEF Past
    <2>5. Fresh(c)'
      BY <2>2 DEF Fresh
    <2> QED
      BY <1>1, <1>2, <2>2, <2>3, <2>4, <2>5, StepsAside, WalksOn
  <1> QED
    BY <1>4, <1>5, <1>6

(* The alert goes out: the rule notifies.                                  *)
LEMMA DispatchNotifies ==
  ASSUME Undisturbed, CountInv, HealthInv, OrderlyInv, NEW c \in Consumers, Dispatch(c)
  PROVE  (\E m \in Monitors : Rule!Notify(m)) /\ OrderlyInv'
  <1> DEFINE m == MonitorOf(Current(c))
  <1>1. /\ TypeOK /\ OneConsumer /\ \A d \in Consumers : d = c
        /\ worker[c] \in Worker /\ worker[c].idx \in Nat \ {0}
        /\ Taken \in Nat /\ \A x \in saved : x[1] \in Nat
    BY StepFacts
  <1>2. /\ worker[c].pc = "dispatch" /\ UNCHANGED <<log, queue, saved, health>>
        /\ worker'[c] = NextResult(worker[c])
    BY <1>1, Moved DEF Dispatch, brokerVars, historyVars, TypeOK
  <1>3. /\ worker'[c].pc = "check" /\ worker'[c].msg = worker[c].msg
        /\ worker'[c].idx = worker[c].idx + 1
    BY <1>1, <1>2, ResultStep
  <1>4. m \in Monitors
    BY <1>1, <1>2 DEF TypeOK, Placed, Busy
  <1>5. worker[c].alert # "none"
    BY <1>2 DEF OrderlyInv, Fresh
  <1>6. OrderInv' /\ Taken' = Taken
    BY <1>1, <1>2, <1>3, SameOrder DEF OrderlyInv, Busy
  <1>7. ASSUME NEW k \in Monitors, NEW x \in ChecksOf(k) PROVE Past(x)' <=> Past(x)
    <2>1. x[2] \in Nat
      BY <1>1, CheckShape
    <2>2. Behind(c, x[2])' <=> Behind(c, x[2])
      BY <1>1, <1>2, <1>3, <2>1 DEF Behind, Busy
    <2> QED
      BY <1>1, <1>6, <2>2 DEF Past
  <1>8. OrderlyInv'
    <2>1. Fresh(c)'
      BY <1>3 DEF Fresh
    <2> QED
      BY <1>1, <1>2, <1>6, <1>7, <2>1, WalksOn
  <1>9. Rule!Notify(m)
    <2>1. \A k : NoticeOf(k)' = "none" /\ (k # m => NoticeOf(k) = "none")
      BY <1>1, <1>3, TheNotice, NextNotice
    <2>2. NoticeOf(m) # "none"
      BY <1>1, <1>2, <1>5, TheNotice
    <2>3. \A k \in Monitors : OutcomesOf(k)' = OutcomesOf(k) /\ JudgedOf(k)' = JudgedOf(k)
      BY <1>2, SameChecks
    <2> HIDE DEF m
    <2> QED
      BY <1>2, <1>4, <2>1, <2>2, <2>3 DEF Rule!Notify
  <1> QED
    BY <1>4, <1>8, <1>9

(* On a consistent row the code's decision is the rule's.                  *)
LEMMA RuleDecides ==
  ASSUME NEW h \in Health, Consistent(h), NEW ok \in BOOLEAN
  PROVE  LET down == ~ok /\ h.cf >= 1
         IN  /\ NextHealth(h, ok).isDown = down
             /\ NextHealth(h, ok).cf >= 1 <=> ~ok
             /\ AlertFor(h, ok) = Rule!Change(h.isDown, down)
  <1>1. h.isDown \in BOOLEAN /\ h.cf \in Nat /\ h.alertSent \in BOOLEAN
    BY DEF Health
  <1>2. CASE ok
    <2>1. NextHealth(h, ok).isDown = FALSE /\ NextHealth(h, ok).cf = 0
      BY <1>2 DEF NextHealth, OnSuccess, Healthy
    <2>2. AlertFor(h, ok) = IF h.isDown /\ h.alertSent THEN "restored" ELSE "none"
      BY <1>2 DEF AlertFor
    <2>3. AlertFor(h, ok) = Rule!Change(h.isDown, ~ok /\ h.cf >= 1)
      BY <1>1, <1>2, <2>2 DEF Rule!Change, Consistent
    <2>4. NextHealth(h, ok).isDown = (~ok /\ h.cf >= 1)
      BY <1>2, <2>1
    <2>5. ~(NextHealth(h, ok).cf >= 1)
      BY <2>1
    <2> QED
      BY <1>2, <2>3, <2>4, <2>5
  <1>3. CASE ~ok
    <2>1. NextHealth(h, ok).cf = h.cf + 1
      BY <1>3 DEF NextHealth, OnFailure
    <2>2. NextHealth(h, ok).isDown = (h.isDown \/ (h.cf + 1 >= 2 /\ ~h.isDown))
      BY <1>3 DEF NextHealth, OnFailure, DownThreshold
    <2>3. NextHealth(h, ok).isDown = (h.cf >= 1)
      BY <1>1, <2>2 DEF Consistent
    <2>4. AlertFor(h, ok) = IF h.cf + 1 >= 2 /\ ~h.isDown THEN "down" ELSE "none"
      BY <1>3 DEF AlertFor, DownThreshold
    <2>5. AlertFor(h, ok) = Rule!Change(h.isDown, h.cf >= 1)
      BY <1>1, <2>4 DEF Consistent, Rule!Change
    <2> QED
      BY <1>1, <1>3, <2>1, <2>3, <2>5
  <1> QED
    BY <1>2, <1>3

(* The row is written: the rule judges the check in hand.                  *)
LEMMA UpsertJudges ==
  ASSUME Undisturbed, CountInv, HealthInv, OrderlyInv, NEW c \in Consumers, Upsert(c)
  PROVE  (\E m \in Monitors : Rule!Judge(m)) /\ OrderlyInv'
  <1> DEFINE ok == Current(c).ok
             x == Check(c)
  <1>1. /\ TypeOK /\ OneConsumer /\ \A d \in Consumers : d = c
        /\ worker[c] \in Worker /\ worker[c].idx \in Nat \ {0}
        /\ Taken \in Nat /\ \A y \in saved : y[1] \in Nat
    BY StepFacts
  <1>2. /\ worker[c].pc = "upsert" /\ UNCHANGED <<log, queue>>
        /\ health' = [health EXCEPT ![MonitorOf(Current(c))] = worker[c].st]
        /\ saved' = saved \cup {x} /\ worker'[c] = AfterUpsert(worker[c])
    BY <1>1, Moved DEF Upsert, brokerVars, TypeOK
  <1>3. /\ Busy(c) /\ worker[c].msg = Taken /\ worker[c].msg \in Messages
        /\ MonitorOf(Current(c)) \in Monitors
        /\ Body(c) # Malformed /\ worker[c].idx \in 1..Len(Body(c))
    <2>1. Busy(c) /\ worker[c].msg = Taken /\ worker[c].msg \in Messages
      BY <1>2, StepFacts DEF Busy
    <2>2. /\ MonitorOf(Current(c)) \in Monitors /\ Body(c) # Malformed
          /\ worker[c].idx <= Len(Body(c))
      BY <1>1, <1>2, <2>1 DEF TypeOK, Placed
    <2>3. Len(Body(c)) \in Nat
      BY <1>1, <2>1, <2>2, BodyType DEF Body
    <2> QED
      BY <1>1, <2>1, <2>2, <2>3
  <1> PICK m \in Monitors : m = MonitorOf(Current(c))
    BY <1>3
  <1>4. x \in ChecksOf(m) /\ x[1] = Taken /\ x[2] = worker[c].idx /\ ok = log[x[1]][x[2]].ok
    BY <1>1, <1>3, CheckIntro DEF Check, Current, Body
  <1>5. ok \in BOOLEAN
    <2>1. log[x[1]] \in Seq(Result) /\ x[2] \in 1..Len(log[x[1]])
      BY <1>1, <1>3, <1>4, CheckShape
    <2>2. log[x[1]][x[2]] \in Result
      BY <2>1
    <2> QED
      BY <1>4, <2>2 DEF Result
  <1>6. /\ worker[c].st = NextHealth(health[m], ok) /\ worker[c].alert = AlertFor(health[m], ok)
        /\ health[m] \in Health /\ Consistent(health[m])
    BY <1>1, <1>2, <1>3 DEF OrderlyInv, Fresh, HealthInv, HealthConsistent, TypeOK
  <1>7. /\ worker'[c].pc = (IF worker[c].alert = "none" THEN "check" ELSE "dispatch")
        /\ worker'[c].msg = worker[c].msg
        /\ worker[c].alert = "none" => worker'[c].idx = worker[c].idx + 1
        /\ worker[c].alert # "none" =>
             worker'[c].idx = worker[c].idx /\ worker'[c].alert = worker[c].alert
    <2>1. CASE worker[c].alert = "none"
      BY <1>1, <1>2, <2>1 DEF AfterUpsert, NextResult, Worker
    <2>2. CASE worker[c].alert # "none"
      BY <1>1, <1>2, <2>2 DEF AfterUpsert, Worker
    <2> QED
      BY <2>1, <2>2
  <1>8. \A k \in Monitors : health'[k] = IF k = m THEN worker[c].st ELSE health[k]
    BY <1>1, <1>2, <1>3 DEF TypeOK
  <1>9. \A k : ChecksOf(k)' = ChecksOf(k) /\ OutcomesOf(k)' = OutcomesOf(k)
    BY <1>2 DEF ChecksOf, OutcomesOf, Messages
  <1>10. \A k \in Monitors : k # m => x \notin ChecksOf(k)
    BY <1>1, <1>3, <1>4, CheckShape
  <1>11. \A k \in Monitors : JudgedOf(k)' = IF k = m THEN JudgedOf(m) \cup {x} ELSE JudgedOf(k)
    BY <1>2, <1>4, <1>9, <1>10 DEF JudgedOf
  <1> HIDE DEF ok, x
  (* Where the check stands among the others.                              *)
  <1>12. ASSUME NEW k \in Monitors, NEW y \in ChecksOf(k)
         PROVE  /\ Past(y) <=> Rule!Before(y, x)
                /\ Past(y) \/ y = x \/ Rule!Before(x, y)
                /\ Past(y)' <=> Past(y) \/ y = x
    <2>1. y = <<y[1], y[2]>> /\ y[1] \in Nat /\ y[2] \in Nat
      BY <1>1, CheckShape
    <2>2. x = <<Taken, worker[c].idx>>
      BY <1>3 DEF x, Check
    <2>3. Taken' = Taken
      BY <1>2 DEF Taken
    <2>4. /\ Behind(c, y[2]) <=> y[2] < worker[c].idx
          /\ Behind(c, y[2])' <=> y[2] <= worker[c].idx
      BY <1>1, <1>2, <1>3, <1>7, <2>1 DEF Behind, Busy
    <2>5. /\ Past(y) <=> y[1] < Taken \/ (y[1] = Taken /\ y[2] < worker[c].idx)
          /\ Past(y)' <=> y[1] < Taken \/ (y[1] = Taken /\ y[2] <= worker[c].idx)
      BY <1>1, <2>3, <2>4 DEF Past
    <2>6. y = x <=> y[1] = Taken /\ y[2] = worker[c].idx
      BY <2>1, <2>2
    <2> QED
      BY <1>1, <1>4, <2>1, <2>5, <2>6 DEF Rule!Before
  <1>13. x \notin saved /\ ~Past(x)
    BY <1>1, <1>3, <1>4, <1>12 DEF OrderlyInv, SavedInv, Rule!Before
  <1>14. \A y \in JudgedOf(m) : y \in ChecksOf(m) /\ Rule!Before(y, x)
    BY <1>3, <1>12 DEF JudgedOf, OrderlyInv, SavedInv
  <1>15. health[m].cf >= 1 <=> LastFailed(m)
    BY <1>3 DEF OrderlyInv, LastInv
  <1>16. LastFailed(m)' <=> ~ok
    <2>1. \A y \in JudgedOf(m)' : y = x \/ Rule!Before(y, x)
      BY <1>3, <1>11, <1>14
    <2>2. \A y \in JudgedOf(m) : ~(x = y \/ Rule!Before(x, y))
      <3> SUFFICES ASSUME NEW y \in JudgedOf(m) PROVE ~(x = y \/ Rule!Before(x, y))
        OBVIOUS
      <3>1. y \in ChecksOf(m) /\ Rule!Before(y, x)
        BY <1>14
      <3>2. y[1] \in Nat /\ y[2] \in Nat
        BY <1>1, <1>3, <3>1, CheckShape
      <3> QED
        BY <1>1, <1>4, <3>1, <3>2 DEF Rule!Before
    <2>3. x \in JudgedOf(m)' /\ log' = log
      BY <1>2, <1>3, <1>11
    <2>4. ~ok => LastFailed(m)'
      BY <1>4, <2>1, <2>3 DEF LastFailed, Rule!Before
    <2>5. ASSUME LastFailed(m)' PROVE ~ok
      <3>1. PICK y \in JudgedOf(m)' : /\ ~log[y[1]][y[2]].ok
                                      /\ \A z \in JudgedOf(m)' : z = y \/ Rule!Before(z, y)
        BY <2>3, <2>5 DEF LastFailed, Rule!Before
      <3>2. y = x
        BY <1>3, <1>11, <2>2, <2>3, <3>1
      <3> QED
        BY <1>4, <3>1, <3>2
    <2> QED
      BY <2>4, <2>5
  <1>17. OrderlyInv'
    <2>1. OrderInv' /\ Taken' = Taken
      BY <1>1, <1>2, <1>3, <1>7, SameOrder DEF OrderlyInv
    <2>2. SavedInv'
      <3>1. \A y \in saved' : y[1] <= Taken'
        BY <1>1, <1>2, <1>4, <2>1 DEF OrderlyInv, SavedInv
      <3>2. \A k \in Monitors : \A y \in ChecksOf(k)' : y \in saved' <=> Past(y)'
        BY <1>2, <1>9, <1>12 DEF OrderlyInv, SavedInv
      <3> QED
        BY <3>1, <3>2 DEF SavedInv
    <2>3. LastInv'
      <3> SUFFICES ASSUME NEW k \in Monitors PROVE health'[k].cf >= 1 <=> LastFailed(k)'
        BY DEF LastInv
      <3>1. CASE k = m
        BY <1>5, <1>6, <1>8, <1>16, <3>1, RuleDecides
      <3>2. CASE k # m
        <4>1. JudgedOf(k)' = JudgedOf(k) /\ health'[k] = health[k] /\ log' = log
          BY <1>2, <1>8, <1>11, <3>2
        <4>2. LastFailed(k)' <=> LastFailed(k)
          BY <4>1 DEF LastFailed, Rule!Before
        <4> QED
          BY <4>1, <4>2 DEF OrderlyInv, LastInv
      <3> QED
        BY <3>1, <3>2
    <2>4. Fresh(c)'
      BY <1>7 DEF Fresh
    <2> QED
      BY <1>1, <2>1, <2>2, <2>3, <2>4 DEF OrderlyInv
  <1>18. Rule!Judge(m)
    <2> DEFINE down == ~ok /\ LastFailed(m)
    <2>1. x \in ChecksOf(m) \ JudgedOf(m) /\ OutcomesOf(m)[x] = ok
      BY <1>4, <1>13 DEF JudgedOf, OutcomesOf
    <2>2. \A y \in ChecksOf(m) \ JudgedOf(m) : y = x \/ Rule!Before(x, y)
      BY <1>3, <1>12 DEF JudgedOf, OrderlyInv, SavedInv
    <2>3. DOMAIN OutcomesOf(m) = ChecksOf(m)
      BY DEF OutcomesOf
    <2>4. Rule!FailedLast(m) <=> LastFailed(m)
      <3>1. \A y \in JudgedOf(m) : OutcomesOf(m)[y] = log[y[1]][y[2]].ok
        BY DEF OutcomesOf, JudgedOf
      <3> QED
        BY <1>3, <3>1 DEF Rule!FailedLast, LastFailed
    <2>5. /\ worker[c].st.isDown = down
          /\ worker[c].alert = Rule!Change(health[m].isDown, down)
      BY <1>5, <1>6, <1>15, RuleDecides
    <2>6. \A k : NoticeOf(k) = "none"
      BY <1>1, <1>2, TheNotice
    <2>7. Current(c)' = Current(c) \/ worker[c].alert = "none"
      BY <1>2, <1>7 DEF Current, Body
    <2>8. \A k : NoticeOf(k)' = IF k = m THEN worker[c].alert ELSE "none"
      BY <1>1, <1>7, <2>7, NextNotice
    <2> HIDE DEF down
    <2>9. /\ [k \in Monitors |-> JudgedOf(k)]'
               = [[k \in Monitors |-> JudgedOf(k)] EXCEPT ![m] = @ \cup {x}]
          /\ [k \in Monitors |-> health[k].isDown]'
               = [[k \in Monitors |-> health[k].isDown] EXCEPT ![m] = down]
          /\ [k \in Monitors |-> NoticeOf(k)]'
               = [[k \in Monitors |-> NoticeOf(k)] EXCEPT
                    ![m] = Rule!Change(health[m].isDown, down)]
          /\ [k \in Monitors |-> OutcomesOf(k)]' = [k \in Monitors |-> OutcomesOf(k)]
      BY <1>3, <1>8, <1>9, <1>11, <2>5, <2>6, <2>8
    <2>10. x \in Rule!Unjudged(m) /\ \A y \in Rule!Unjudged(m) : y = x \/ Rule!Before(x, y)
      BY <1>3, <2>1, <2>2, <2>3 DEF Rule!Unjudged
    <2>11. (~ok /\ Rule!FailedLast(m)) = down
      BY <2>4 DEF down
    <2> QED
      BY <1>3, <2>1, <2>6, <2>9, <2>10, <2>11 DEF Rule!Judge
  <1> QED
    BY <1>3, <1>17, <1>18

(* A message is published: the rule is reported its checks.                *)
LEMMA PublishReports ==
  ASSUME Undisturbed, CountInv, HealthInv, OrderlyInv, Publish
  PROVE  Rule!Report /\ OrderlyInv'
  <1> DEFINE n == Len(log) + 1
  <1>1. /\ TypeOK /\ OneConsumer /\ log \in Seq(Bodies) /\ queue \in Seq(Messages)
        /\ Len(log) \in Nat /\ Len(queue) \in Nat /\ Messages = 1..Len(log)
    BY DEF CountInv, PlaceInv, TypeOK, Messages, Undisturbed
  <1>2. PICK b \in Bodies : log' = Append(log, b)
    BY DEF Publish
  <1>3. /\ Len(log') = n /\ Messages' = 1..n /\ \A id \in Messages : log'[id] = log[id]
    BY <1>1, <1>2 DEF Messages
  <1>4. UNCHANGED <<worker, health, saved>> /\ queue' = Append(queue, n)
    BY <1>3 DEF Publish, historyVars
  <1>5. /\ Len(queue') = Len(queue) + 1
        /\ \A i \in 1..Len(queue') : queue'[i] = IF i = Len(queue) + 1 THEN n ELSE queue[i]
    BY <1>1, <1>4
  <1>6. Taken' = Taken /\ Taken \in Nat /\ Taken <= Len(log)
    BY <1>1, <1>3, <1>5 DEF Taken, OrderlyInv, OrderInv
  <1>7. OrderInv'
    <2>1. ASSUME NEW i \in 1..Len(queue') PROVE queue'[i] = Taken' + i
      <3>1. CASE i = Len(queue) + 1
        <4>1. n = Taken + i
          BY <1>1, <3>1 DEF Taken
        <4> QED
          BY <1>5, <1>6, <3>1, <4>1
      <3>2. CASE i # Len(queue) + 1
        <4>1. i \in 1..Len(queue) /\ queue'[i] = queue[i]
          BY <1>1, <1>5, <3>2
        <4> QED
          BY <1>6, <4>1 DEF OrderlyInv, OrderInv
      <3> QED
        BY <3>1, <3>2
    <2> QED
      BY <1>1, <1>3, <1>4, <1>5, <1>6, <2>1 DEF OrderlyInv, OrderInv, Busy
  <1>8. TypeOK'
    BY <1>1, PublishTypeOK
  (* The old checks are there as before, the new ones are behind them.     *)
  <1>9. ASSUME NEW m \in Monitors, NEW x \in ChecksOf(m)
        PROVE  /\ x \in ChecksOf(m)' /\ log'[x[1]] = log[x[1]] /\ x[1] \in Nat /\ x[1] < n
    <2>1. /\ x = <<x[1], x[2]>> /\ x[1] \in Messages /\ log[x[1]] # Malformed
          /\ x[2] \in 1..Len(log[x[1]]) /\ MonitorOf(log[x[1]][x[2]]) = m
          /\ log[x[1]] \in Seq(Result)
      BY <1>1, CheckShape
    <2>2. log'[x[1]] = log[x[1]] /\ x[1] \in Messages' /\ x[1] \in Nat /\ x[1] < n
      BY <1>1, <1>3, <2>1
    <2>3. x[2] \in DOMAIN log'[x[1]]
      BY <2>1, <2>2
    <2>4. x \in {x[1]} \X {i \in DOMAIN log'[x[1]] : MonitorOf(log'[x[1]][i]) = m}
      BY <2>1, <2>2, <2>3
    <2> QED
      BY <2>1, <2>2, <2>4 DEF ChecksOf
  <1>10. ASSUME NEW m \in Monitors, NEW x, x \in ChecksOf(m)', x \notin ChecksOf(m)
         PROVE  x[1] = n
    <2>1. PICK id \in Messages' :
            /\ log'[id] # Malformed
            /\ x \in {id} \X {i \in DOMAIN log'[id] : MonitorOf(log'[id][i]) = m}
      BY <1>10 DEF ChecksOf
    <2>2. CASE id \in Messages
      <3>1. log'[id] = log[id]
        BY <1>3, <2>2
      <3> QED
        BY <1>10, <2>1, <2>2, <3>1 DEF ChecksOf
    <2>3. CASE id \notin Messages
      <3>1. id = n
        BY <1>1, <1>3, <2>1, <2>3
      <3> QED
        BY <2>1, <3>1
    <2> QED
      BY <2>2, <2>3
  <1>11. \A x \in saved : x[1] <= Taken
    BY DEF OrderlyInv, SavedInv
  <1>12. ASSUME NEW m \in Monitors PROVE JudgedOf(m)' = JudgedOf(m)
    <2>1. ASSUME NEW x \in JudgedOf(m)' PROVE x \in JudgedOf(m)
      <3>1. x \in ChecksOf(m)' /\ x \in saved
        BY <1>4, <2>1 DEF JudgedOf
      <3>2. x[1] # n
        BY <1>1, <1>6, <1>11, <3>1
      <3> QED
        BY <1>10, <3>1, <3>2 DEF JudgedOf
    <2>2. ASSUME NEW x \in JudgedOf(m) PROVE x \in JudgedOf(m)'
      BY <1>4, <1>9, <2>2 DEF JudgedOf
    <2> QED
      BY <2>1, <2>2
  <1>13. \A x : Past(x)' <=> Past(x)
    BY <1>4, <1>6 DEF Past, Behind, Busy
  <1>14. SavedInv'
    <2>1. \A x \in saved' : x[1] <= Taken'
      BY <1>4, <1>6, <1>11
    <2>2. ASSUME NEW m \in Monitors, NEW x \in ChecksOf(m)' PROVE x \in saved' <=> Past(x)'
      <3>1. CASE x \in ChecksOf(m)
        BY <1>4, <1>13, <3>1 DEF OrderlyInv, SavedInv
      <3>2. CASE x \notin ChecksOf(m)
        <4>1. x[1] = n
          BY <1>10, <2>2, <3>2
        <4>2. ~(x[1] <= Taken) /\ ~(x[1] < Taken) /\ x[1] # Taken
          BY <1>1, <1>6, <4>1
        <4> QED
          BY <1>4, <1>11, <1>13, <4>2 DEF Past
      <3> QED
        BY <3>1, <3>2
    <2> QED
      BY <2>1, <2>2 DEF SavedInv
  <1>15. LastInv'
    <2> SUFFICES ASSUME NEW m \in Monitors PROVE health'[m].cf >= 1 <=> LastFailed(m)'
      BY DEF LastInv
    <2>1. \A x \in JudgedOf(m) : log'[x[1]] = log[x[1]]
      BY <1>9 DEF JudgedOf
    <2>2. LastFailed(m)' <=> LastFailed(m)
      BY <1>12, <2>1 DEF LastFailed, Rule!Before
    <2> QED
      BY <1>4, <2>2 DEF OrderlyInv, LastInv
  <1>16. ASSUME NEW c \in Consumers, worker[c].pc \in {"upsert", "dispatch"}
         PROVE  Current(c)' = Current(c)
    <2>1. worker[c].msg \in Messages
      BY <1>1, <1>16 DEF TypeOK, Placed, Busy
    <2> QED
      BY <1>3, <1>4, <2>1 DEF Current, Body
  <1>17. OrderlyInv'
    <2>1. \A c \in Consumers : Fresh(c)'
      BY <1>4, <1>16 DEF OrderlyInv, Fresh
    <2> QED
      BY <1>7, <1>14, <1>15, <2>1 DEF OrderlyInv
  <1>18. \A m \in Monitors : NoticeOf(m)' = NoticeOf(m)
    <2> SUFFICES ASSUME NEW m \in Monitors PROVE NoticeOf(m)' = NoticeOf(m)
      OBVIOUS
    <2>1. Telling(m)' = Telling(m)
      BY <1>4, <1>16 DEF Telling
    <2> QED
      BY <1>4, <2>1 DEF NoticeOf
  <1>19. Rule!Report
    <2>1. ASSUME NEW m \in Monitors
          PROVE  /\ DOMAIN OutcomesOf(m) = ChecksOf(m) /\ DOMAIN OutcomesOf(m)' = ChecksOf(m)'
                 /\ \A x \in ChecksOf(m) : x \in ChecksOf(m)' /\ OutcomesOf(m)'[x] = OutcomesOf(m)[x]
      BY <1>9 DEF OutcomesOf
    <2>2. ASSUME NEW m \in Monitors, NEW x \in ChecksOf(m), NEW y \in ChecksOf(m)' \ ChecksOf(m)
          PROVE  Rule!Before(x, y)
      BY <1>9, <1>10, <2>2 DEF Rule!Before
    <2>3. [m \in Monitors |-> health[m].isDown]' = [m \in Monitors |-> health[m].isDown]
      BY <1>4
    <2> QED
      BY <1>12, <1>18, <2>1, <2>2, <2>3 DEF Rule!Report
  <1> QED
    BY <1>17, <1>19

LEMMA NextOrderly ==
  ASSUME Undisturbed, CountInv, HealthInv, OrderlyInv, [Next]_vars
  PROVE  [Rule!Next]_(Rule!vars) /\ OrderlyInv'
  <1>1. CASE UNCHANGED vars
    <2>1. OrderlyInv'
      <3>1. \A m : LastFailed(m)' <=> LastFailed(m)
        BY <1>1, SameChecks DEF vars, brokerVars, historyVars
      <3>2. \A m : ChecksOf(m)' = ChecksOf(m)
        BY <1>1, SameChecks DEF vars, brokerVars, historyVars
      <3>3. \A x : Past(x)' <=> Past(x)
        BY <1>1 DEF Past, Behind, Busy, Taken, vars, brokerVars
      <3>4. OrderInv' /\ SavedInv'
        BY <1>1, <3>2, <3>3 DEF OrderlyInv, OrderInv, SavedInv, Busy, Taken, vars, brokerVars,
           historyVars
      <3>5. LastInv' /\ \A c \in Consumers : Fresh(c)'
        BY <1>1, <3>1 DEF OrderlyInv, LastInv, Fresh, Current, Body, vars, brokerVars
      <3> QED
        BY <3>4, <3>5 DEF OrderlyInv
    <2>2. \A m : OutcomesOf(m)' = OutcomesOf(m) /\ JudgedOf(m)' = JudgedOf(m)
      BY <1>1, SameChecks DEF vars, brokerVars, historyVars
    <2>3. \A m : NoticeOf(m)' = NoticeOf(m)
      BY <1>1 DEF NoticeOf, Telling, Current, Body, vars, brokerVars
    <2>4. UNCHANGED Rule!vars
      BY <1>1, <2>2, <2>3 DEF Rule!vars, vars
    <2> QED
      BY <2>1, <2>4
  <1>2. CASE Publish
    BY <1>2, PublishReports DEF Rule!Next
  <1>3. ASSUME NEW c \in Consumers, Receive(c) \/ Ignore(c) \/ Judge(c) \/ Discard(c) \/ Ack(c)
        PROVE  [Rule!Next]_(Rule!vars) /\ OrderlyInv'
    BY <1>3, ReceiveOrderly, PassOrderly
  <1>4. ASSUME NEW c \in Consumers, Upsert(c) \/ Dispatch(c)
        PROVE  [Rule!Next]_(Rule!vars) /\ OrderlyInv'
    BY <1>4, UpsertJudges, DispatchNotifies DEF Rule!Next
  <1> QED
    BY <1>1, <1>2, <1>3, <1>4, UndisturbedSteps

LEMMA InitOrderly == Init => Rule!Init /\ OrderlyInv
  <1> SUFFICES ASSUME Init PROVE Rule!Init /\ OrderlyInv
    OBVIOUS
  <1>1. /\ Messages = {} /\ Len(log) = 0 /\ Len(queue) = 0 /\ saved = {}
        /\ \A c \in Consumers : worker[c].pc = "idle"
    BY IdleType DEF Init, Messages
  <1>2. \A m : ChecksOf(m) = {} /\ JudgedOf(m) = {} /\ NoticeOf(m) = "none"
    BY <1>1 DEF ChecksOf, JudgedOf, NoticeOf, Telling
  <1>3. \A m \in Monitors : ~health[m].isDown /\ health[m].isDown = FALSE /\ health[m].cf = 0
    BY DEF Init, Healthy
  <1>4. OrderlyInv
    BY <1>1, <1>2, <1>3 DEF OrderlyInv, OrderInv, SavedInv, LastInv, LastFailed, Fresh, Busy, Taken
  <1>5. \A m : OutcomesOf(m) = [x \in {} |-> TRUE]
    BY <1>2 DEF OutcomesOf
  <1> QED
    BY <1>2, <1>3, <1>4, <1>5 DEF Rule!Init

(* One consumer in the absence of faults implements the two-packet rule:   *)
(* each check is judged once and in order, a monitor is declared down      *)
(* exactly while its last two failed, and each change is told once.  That  *)
(* it does so in the end is left to the runs.                              *)
THEOREM ConsumerKeepsRule ==
  ASSUME Undisturbed
  PROVE  Spec => Rule!SafeSpec
  <1>1. Spec => []HealthInv
    BY InitHealth, NextHealthInv, PTL DEF Spec
  <1>2. CountInv /\ HealthInv /\ OrderlyInv /\ [Next]_vars => [Rule!Next]_(Rule!vars) /\ OrderlyInv'
    BY NextOrderly
  <1> QED
    BY <1>1, <1>2, InitOrderly, CountInvariant, PTL DEF Spec, Rule!SafeSpec
=============================================================================
