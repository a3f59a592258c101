------------------------- MODULE AlertPipelineProofs -------------------------
(***************************************************************************)
(* Proofs about the notification pipeline: it refines the alert consumer,  *)
(* so what is proved of the consumer holds of the composition, and the     *)
(* gate serves the alert its worker decided.  What only one instance of    *)
(* the service promises, that an alert is news and a reminder is the only  *)
(* one in seven days, is proved for one consumer.                          *)
(***************************************************************************)
EXTENDS AlertPipeline, AlertConsumerProofs

-----------------------------------------------------------------------------
(* Safety refinement.                                                      *)

LEMMA StepRefines == [PipelineNext]_pipelineVars => [Next]_vars
<1> SUFFICES ASSUME [PipelineNext]_pipelineVars PROVE [Next]_vars
  OBVIOUS
<1>1. CASE UNCHANGED pipelineVars
  BY <1>1 DEF pipelineVars
<1>2. CASE Publish /\ GateIdles
  BY <1>2 DEF Next
<1>3. ASSUME NEW c \in Consumers, ConsumerStep(c) PROVE [Next]_vars
  BY <1>3 DEF ConsumerStep, Next, Work
<1>4. ASSUME NEW c \in Consumers, EnterGate(c) PROVE [Next]_vars
  BY <1>4 DEF EnterGate
<1>5. ASSUME NEW c \in Consumers, GateStep(c) PROVE [Next]_vars
  BY <1>5 DEF GateStep, Next, Work
<1>6. ASSUME NEW c \in Consumers, PipelineExpire(c) \/ PipelineCrash(c) PROVE [Next]_vars
  BY <1>6 DEF PipelineExpire, PipelineCrash, Next
<1>7. ASSUME NEW c \in Consumers, (Close(c) \/ Restart(c)) /\ GateIdles PROVE [Next]_vars
  BY <1>7 DEF Next
<1>8. CASE Gate!World /\ UNCHANGED <<vars, chatVars>>
  BY <1>8
<1> QED
  BY <1>1, <1>2, <1>3, <1>4, <1>5, <1>6, <1>7, <1>8 DEF PipelineNext, ProcessWork

(* The pipeline implements the consumer whose dispatch is one step: the    *)
(* steps inside the gate are stutters, its return is the dispatch.         *)
THEOREM PipelineRefinesConsumer == PipelineSpec => Spec
<1>1. PipelineInit => Init
  BY DEF PipelineInit
<1> QED BY <1>1, StepRefines, PTL DEF PipelineSpec, Spec

(* What is proved of the consumer holds of the pipeline: no row with half  *)
(* of a decision, no message lost or settled twice, and nothing            *)
(* acknowledged that was not judged.                                       *)
THEOREM PipelineKeepsConsumer ==
  PipelineSpec => [](TypeOK /\ HealthConsistent /\ OnePlace /\ AckedMeansJudged)
BY PipelineRefinesConsumer, TypeCorrect, RowsConsistent, MessagesPlaced, AckedJudged, PTL

(* With one instance and no fault of the consumer, the pipeline keeps the  *)
(* two-packet rule, whatever fails inside the gate.                        *)
THEOREM PipelineKeepsRule ==
  ASSUME Undisturbed
  PROVE  PipelineSpec => Rule!SafeSpec
BY PipelineRefinesConsumer, ConsumerKeepsRule, PTL

-----------------------------------------------------------------------------
(* GateFollowsWorker: worker and gate stay together.                       *)

Call == [pc : Gate!GatePCs, mon : Monitors \cup {"none"}, kind : {"none", "down", "restored"},
         today : Nat, late : BOOLEAN]

GateTyped == gate \in [Consumers -> Call] /\ day \in Nat

FollowInv == TypeOK /\ GateTyped /\ GateFollowsWorker

LEMMA OffTyped == Gate!Off \in Call /\ Gate!Off.pc = "off"
  BY DEF Gate!Off, Call, Gate!GatePCs

(* A step of the gate leaves it or goes on with the same call.             *)
GoesOn(c, g) ==
  /\ gate' = [gate EXCEPT ![c] = g] /\ day' = day
  /\ \/ g = Gate!Off
     \/ g.pc # "off" /\ g.mon = gate[c].mon /\ g.kind = gate[c].kind /\ g.late = gate[c].late

LEMMA GateMoves ==
  ASSUME GateTyped, NEW c \in Consumers, Gate!Step(c)
  PROVE  \E g \in Call : GoesOn(c, g)
<1>1. gate \in [Consumers -> Call] /\ gate[c] \in Call /\ day \in Nat
  BY DEF GateTyped
<1>2. ASSUME Gate!Leave(c), day' = day PROVE \E g \in Call : GoesOn(c, g)
  BY <1>2, OffTyped DEF Gate!Leave, GoesOn
<1>3. ASSUME NEW pc \in Gate!GatePCs \ {"off"}, Gate!GoTo(c, pc), day' = day
      PROVE  \E g \in Call : GoesOn(c, g)
  <2> DEFINE g == [gate[c] EXCEPT !.pc = pc]
  <2>1. /\ g \in Call /\ g.pc # "off" /\ g.mon = gate[c].mon /\ g.kind = gate[c].kind
        /\ g.late = gate[c].late
    BY <1>1 DEF Call
  <2>2. gate' = [gate EXCEPT ![c] = g]
    BY <1>3 DEF Gate!GoTo
  <2> HIDE DEF g
  <2> QED BY <1>3, <2>1, <2>2 DEF GoesOn
<1>4. {"owner", "begin", "send", "ask", "nudge", "mark"} \subseteq Gate!GatePCs \ {"off"}
  BY DEF Gate!GatePCs
<1>5. CASE Gate!CheckEnabled(c) \/ Gate!FindOwner(c) \/ Gate!Ask(c)
  <2>1. Gate!Leave(c) \/ \E pc \in {"owner", "begin", "nudge"} : Gate!GoTo(c, pc)
    BY <1>5 DEF Gate!CheckEnabled, Gate!FindOwner, Gate!Ask
  <2>2. day' = day
    BY <1>5 DEF Gate!CheckEnabled, Gate!FindOwner, Gate!Ask, Gate!settingVars
  <2> QED BY <1>2, <1>3, <1>4, <2>1, <2>2
<1>6. CASE Gate!BeginDeduct(c)
  <2> DEFINE g == [gate[c] EXCEPT !.pc = "lock", !.today = day]
  <2>1. /\ g \in Call /\ g.pc # "off" /\ g.mon = gate[c].mon /\ g.kind = gate[c].kind
        /\ g.late = gate[c].late
    BY <1>1 DEF Call, Gate!GatePCs
  <2>2. gate' = [gate EXCEPT ![c] = g] /\ day' = day
    BY <1>6 DEF Gate!BeginDeduct, Gate!settingVars
  <2> HIDE DEF g
  <2> QED BY <2>1, <2>2 DEF GoesOn
<1>7. CASE Gate!Deduct(c)
  <2>1. day' = day /\ \E pc \in {"ask", "send"} : Gate!GoTo(c, pc)
    BY <1>7 DEF Gate!Deduct, Gate!settingVars
  <2> QED BY <1>3, <1>4, <2>1
<1>8. CASE Gate!Nudge(c)
  <2>1. day' = day /\ Gate!GoTo(c, "mark")
    BY <1>8 DEF Gate!Nudge, Gate!settingVars
  <2> QED BY <1>3, <1>4, <2>1
<1>9. CASE \/ Gate!DeductUnanswered(c) \/ Gate!Send(c) \/ Gate!SendFails(c)
           \/ Gate!NudgeFails(c) \/ Gate!Mark(c) \/ Gate!CallFails(c)
  <2>1. day' = day /\ Gate!Leave(c)
    BY <1>9 DEF Gate!DeductUnanswered, Gate!Send, Gate!SendFails, Gate!NudgeFails, Gate!Mark,
       Gate!CallFails, Gate!settingVars
  <2> QED BY <1>2, <2>1
<1> QED BY <1>5, <1>6, <1>7, <1>8, <1>9 DEF Gate!Step

(* What the gate reads of a worker.                                        *)
SameCall(d) ==
  /\ worker'[d].pc = worker[d].pc /\ worker'[d].alert = worker[d].alert
  /\ worker'[d].expired = worker[d].expired
  /\ MonitorOf(Current(d))' = MonitorOf(Current(d))

Follows(c) ==
  gate[c].pc # "off" =>
    /\ worker[c].pc = "dispatch"
    /\ gate[c].mon = MonitorOf(Current(c)) /\ gate[c].kind = worker[c].alert
    /\ gate[c].late = worker[c].expired

LEMMA FollowFrame ==
  ASSUME NEW d \in Consumers, Follows(d), SameCall(d), gate'[d] = gate[d]
  PROVE  Follows(d)'
  BY DEF Follows, SameCall

LEMMA SameWorker ==
  ASSUME TypeOK, NEW d \in Consumers, worker'[d] = worker[d], log' = log
  PROVE  SameCall(d)
  BY DEF SameCall, Current, Body

(* Each action of the consumer moves one worker and leaves the log alone.  *)
LEMMA WorkMovesOne ==
  ASSUME TypeOK, NEW c \in Consumers,
         Work(c) \/ Expire(c) \/ Close(c) \/ Crash(c) \/ Restart(c)
  PROVE  log' = log /\ \A d \in Consumers : d # c => worker'[d] = worker[d]
<1>1. worker \in [Consumers -> Worker]
  BY DEF TypeOK
<1>2. log' = log
  BY DEF Work, Consume, Receive, Ignore, Judge, JudgeFails, Upsert, UpsertFails, Settle,
     Discard, Ack, RequeueFailed, StopConsuming, Dispatch, Expire, Close, Crash, Restart,
     brokerVars
<1>3. worker' = worker \/ \E w : Move(c, w)
  BY DEF Work, Consume, Receive, Ignore, Judge, JudgeFails, Upsert, UpsertFails, Settle,
     Discard, Ack, RequeueFailed, StopConsuming, Dispatch, Expire, Close, Crash, Restart
<1> QED BY <1>1, <1>2, <1>3, Moved

(* The steps of the pipeline at which one consumer is at work.             *)
Acts(c) ==
  \/ ConsumerStep(c) \/ EnterGate(c) \/ GateStep(c) \/ PipelineExpire(c) \/ PipelineCrash(c)
  \/ (Close(c) \/ Restart(c)) /\ GateIdles

LEMMA PipelineSteps ==
  ASSUME [PipelineNext]_pipelineVars
  PROVE  \/ UNCHANGED pipelineVars
         \/ Publish /\ GateIdles
         \/ \E c \in Consumers : Acts(c)
         \/ Gate!World /\ UNCHANGED <<vars, chatVars>>
  BY DEF PipelineNext, ProcessWork, Acts

(* What a consumer's step does to its own call, and to the date.           *)
LEMMA ActsOnCall ==
  ASSUME FollowInv, NEW c \in Consumers, Acts(c)
  PROVE  /\ day' = day /\ Follows(c)'
         /\ gate' = gate \/ \E g \in Call : gate' = [gate EXCEPT ![c] = g]
<1> DEFINE Kept ==
      /\ day' = day /\ Follows(c)'
      /\ gate' = gate \/ \E g \in Call : gate' = [gate EXCEPT ![c] = g]
<1>1. /\ gate \in [Consumers -> Call] /\ gate[c] \in Call /\ worker[c] \in Worker
      /\ worker \in [Consumers -> Worker] /\ Follows(c) /\ TypeOK /\ GateTyped
  BY DEF FollowInv, GateTyped, TypeOK, GateFollowsWorker, Follows
<1>2. CASE ConsumerStep(c)
  <2>1. worker[c].pc # "dispatch"
    BY <1>2 DEF ConsumerStep, Consume, Receive, Ignore, Judge, JudgeFails, Upsert, UpsertFails,
       Settle, Discard, Ack, RequeueFailed, StopConsuming, AtResult, BatchDone
  <2>2. gate' = gate /\ day' = day
    BY <1>2 DEF ConsumerStep, gateSide
  <2> QED BY <1>1, <2>1, <2>2 DEF Follows
<1>3. CASE EnterGate(c)
  <2> DEFINE m == MonitorOf(Current(c))
             g == [Gate!Off EXCEPT !.pc = "enabled", !.mon = m, !.kind = worker[c].alert,
                                   !.late = worker[c].expired]
  <2>1. gate' = [gate EXCEPT ![c] = g] /\ day' = day /\ UNCHANGED vars
        /\ worker[c].pc = "dispatch"
    BY <1>3 DEF EnterGate, Gate!Begin
  <2>2. m \in Monitors
    BY <1>1, <2>1 DEF TypeOK, Placed, Busy
  <2> HIDE DEF m
  <2>3. g \in Call /\ g.mon = m /\ g.kind = worker[c].alert /\ g.late = worker[c].expired
    BY <1>1, <2>2, OffTyped DEF Call, Worker, Gate!GatePCs
  <2> HIDE DEF g
  <2>4. gate'[c] = g
    BY <1>1, <2>1
  <2>5. SameCall(c)
    BY <1>1, <2>1, SameWorker DEF vars, brokerVars
  <2> QED BY <2>1, <2>3, <2>4, <2>5 DEF Follows, SameCall, m
<1>4. CASE GateStep(c)
  <2>1. PICK g \in Call : GoesOn(c, g)
    BY <1>1, <1>4, GateMoves DEF GateStep
  <2>2. gate' = [gate EXCEPT ![c] = g] /\ day' = day /\ gate'[c] = g
    BY <1>1, <2>1 DEF GoesOn
  <2>3. CASE g = Gate!Off
    BY <2>2, <2>3, OffTyped DEF Follows
  <2>4. CASE g # Gate!Off
    <3>1. /\ g.pc # "off" /\ g.mon = gate[c].mon /\ g.kind = gate[c].kind
          /\ g.late = gate[c].late /\ gate[c].pc # "off"
      <4>1. gate[c].pc # "off"
        BY <1>4 DEF GateStep, Gate!Step, Gate!CheckEnabled, Gate!FindOwner, Gate!BeginDeduct,
           Gate!Deduct, Gate!DeductUnanswered, Gate!Send, Gate!SendFails, Gate!Ask, Gate!Nudge,
           Gate!NudgeFails, Gate!Mark, Gate!CallFails, Gate!At
      <4> QED BY <2>1, <2>4, <4>1 DEF GoesOn
    <3>2. UNCHANGED vars
      BY <1>4, <2>2, <3>1 DEF GateStep
    <3>3. SameCall(c)
      BY <1>1, <3>2, SameWorker DEF vars, brokerVars
    <3> QED BY <1>1, <2>2, <3>1, <3>3 DEF Follows, SameCall
  <2> QED BY <2>3, <2>4
<1>5. CASE PipelineExpire(c)
  <2>1. /\ log' = log /\ worker'[c].pc = worker[c].pc /\ worker'[c].alert = worker[c].alert
        /\ worker'[c].msg = worker[c].msg /\ worker'[c].idx = worker[c].idx
        /\ worker'[c].expired = TRUE
    BY <1>1, <1>5 DEF PipelineExpire, Expire, Move, Worker, brokerVars
  <2>2. MonitorOf(Current(c))' = MonitorOf(Current(c))
    BY <2>1 DEF Current, Body
  <2>3. CASE gate[c].pc = "off"
    BY <1>5, <2>3 DEF PipelineExpire, gateSide, Follows
  <2>4. CASE gate[c].pc # "off"
    <3> DEFINE g == [gate[c] EXCEPT !.late = TRUE]
    <3>1. /\ g \in Call /\ g.pc = gate[c].pc /\ g.mon = gate[c].mon /\ g.kind = gate[c].kind
          /\ g.late = TRUE
      BY <1>1 DEF Call
    <3>2. gate' = [gate EXCEPT ![c] = g] /\ day' = day
      BY <1>5, <2>4 DEF PipelineExpire, Gate!Expired, Gate!settingVars
    <3> HIDE DEF g
    <3>3. gate'[c] = g
      BY <1>1, <3>2
    <3> QED BY <1>1, <2>1, <2>2, <2>4, <3>1, <3>2, <3>3 DEF Follows
  <2> QED BY <2>3, <2>4
<1>6. CASE PipelineCrash(c)
  <2>1. gate' = [gate EXCEPT ![c] = Gate!Off] /\ day' = day
    BY <1>6 DEF PipelineCrash, Gate!Abandon, Gate!Leave, Gate!settingVars
  <2> QED BY <1>1, <2>1, OffTyped DEF Follows
<1>7. CASE Close(c) /\ GateIdles
  <2>1. worker' = worker /\ log' = log /\ gate' = gate /\ day' = day
    BY <1>7 DEF Close, GateIdles, gateSide
  <2> QED BY <1>1, <2>1, SameWorker, FollowFrame
<1>8. CASE Restart(c) /\ GateIdles
  <2>1. worker[c].pc = "dead" /\ gate' = gate /\ day' = day
    BY <1>8 DEF Restart, GateIdles, gateSide
  <2> QED BY <1>1, <2>1 DEF Follows
<1> QED BY <1>2, <1>3, <1>4, <1>5, <1>6, <1>7, <1>8 DEF Acts

LEMMA ActsMoveOne ==
  ASSUME TypeOK, NEW c \in Consumers, Acts(c)
  PROVE  log' = log /\ \A d \in Consumers : d # c => worker'[d] = worker[d]
<1>1. CASE UNCHANGED vars
  BY <1>1 DEF vars, brokerVars
<1>2. CASE Work(c) \/ Expire(c) \/ Close(c) \/ Crash(c) \/ Restart(c)
  BY <1>2, WorkMovesOne
<1> QED
  BY <1>1, <1>2 DEF Acts, ConsumerStep, EnterGate, GateStep, PipelineExpire, PipelineCrash, Work

(* A published message does not change the batch a worker holds.           *)
LEMMA PublishKeepsCall ==
  ASSUME TypeOK, Publish, NEW d \in Consumers, Busy(d)
  PROVE  SameCall(d)
<1>1. PICK b \in Bodies : log' = Append(log, b)
  BY DEF Publish
<1>2. worker' = worker /\ worker[d].msg \in Messages /\ log \in Seq(Bodies)
  BY DEF Publish, TypeOK, Placed, Busy
<1>3. Body(d)' = Body(d)
  BY <1>1, <1>2 DEF Body, Messages
<1> QED BY <1>2, <1>3 DEF SameCall, Current

LEMMA FollowKept ==
  ASSUME FollowInv, [PipelineNext]_pipelineVars
  PROVE  GateTyped' /\ GateFollowsWorker'
<1>1. /\ TypeOK /\ GateTyped /\ \A d \in Consumers : Follows(d)
      /\ gate \in [Consumers -> Call] /\ day \in Nat
  BY DEF FollowInv, GateFollowsWorker, Follows, GateTyped
<1> SUFFICES GateTyped' /\ \A d \in Consumers : Follows(d)'
  BY DEF GateFollowsWorker, Follows
<1> DEFINE Kept == GateTyped' /\ \A d \in Consumers : Follows(d)'
<1>2. CASE UNCHANGED pipelineVars
  <2>1. worker' = worker /\ log' = log /\ gate' = gate /\ day' = day
    BY <1>2 DEF pipelineVars, vars, brokerVars, gateSide
  <2> QED BY <1>1, <2>1, SameWorker, FollowFrame DEF GateTyped
<1>3. CASE Publish /\ GateIdles
  <2>1. worker' = worker /\ gate' = gate /\ day' = day
    BY <1>3 DEF Publish, GateIdles, gateSide
  <2>2. ASSUME NEW d \in Consumers PROVE Follows(d)'
    <3>1. CASE gate[d].pc = "off"
      BY <2>1, <3>1 DEF Follows
    <3>2. CASE gate[d].pc # "off"
      <4>1. SameCall(d)
        BY <1>1, <1>3, <3>2, PublishKeepsCall DEF Follows, Busy
      <4> QED BY <1>1, <2>1, <4>1, FollowFrame
    <3> QED BY <3>1, <3>2
  <2> QED BY <1>1, <2>1, <2>2 DEF GateTyped
<1>4. ASSUME NEW c \in Consumers, Acts(c) PROVE Kept
  <2>1. /\ day' = day /\ Follows(c)'
        /\ gate' = gate \/ \E g \in Call : gate' = [gate EXCEPT ![c] = g]
    BY <1>4, ActsOnCall
  <2>2. log' = log /\ \A d \in Consumers : d # c => worker'[d] = worker[d]
    BY <1>1, <1>4, ActsMoveOne
  <2>3. gate' \in [Consumers -> Call] /\ \A d \in Consumers : d # c => gate'[d] = gate[d]
    BY <1>1, <2>1
  <2>4. ASSUME NEW d \in Consumers, d # c PROVE Follows(d)'
    BY <1>1, <2>2, <2>3, <2>4, SameWorker, FollowFrame
  <2> QED BY <1>1, <2>1, <2>3, <2>4 DEF GateTyped
<1>5. CASE Gate!World /\ UNCHANGED <<vars, chatVars>>
  <2>1. gate' = gate /\ (day' = day \/ day' = day + 1)
    BY <1>5 DEF Gate!World, Gate!NextDay, Gate!WeekPasses, Gate!Buy, Gate!ToggleMute,
       Gate!ChangeReach
  <2>2. worker' = worker /\ log' = log
    BY <1>5 DEF vars, brokerVars
  <2> QED BY <1>1, <2>1, <2>2, SameWorker, FollowFrame DEF GateTyped
<1> QED BY <1>2, <1>3, <1>4, <1>5, PipelineSteps

LEMMA FollowInvariant == PipelineSpec => []FollowInv
<1>1. PipelineInit => GateTyped /\ GateFollowsWorker
  BY OffTyped DEF PipelineInit, Gate!Init, GateTyped, GateFollowsWorker
<1>2. FollowInv /\ [PipelineNext]_pipelineVars => GateTyped' /\ GateFollowsWorker'
  BY FollowKept
<1> QED BY <1>1, <1>2, PipelineKeepsConsumer, PTL DEF PipelineSpec, FollowInv

(* The gate is open only while its worker dispatches, for the monitor and  *)
(* the alert the worker decided, under the same deadline.                  *)
THEOREM GateFollows == PipelineSpec => []GateFollowsWorker
BY FollowInvariant, PTL DEF FollowInv

-----------------------------------------------------------------------------
(* AlertIsNews, for one instance whose upserts do not fail of themselves.  *)
(* A second instance judges on a row it has read before the first wrote    *)
(* it, and an upsert that failed leaves the row what it was: either would  *)
(* tell of a change twice.                                                 *)

(* What is decided but not yet written still differs from the row.         *)
RowFresh(c) ==
  worker[c].pc = "upsert" /\ worker[c].alert # "none" =>
    worker[c].st.isDown # health[MonitorOf(Current(c))].isDown

(* What is dispatched is news, or its row was not written in time, and     *)
(* then its call gets nowhere.                                             *)
NewsAhead(c) ==
  worker[c].pc = "dispatch" =>
    \/ news[MonitorOf(Current(c))]
    \/ worker[c].expired /\ gate[c].pc \in {"off", "enabled"}

NewsInv == news \in [Monitors -> BOOLEAN] /\ \A c \in Consumers : RowFresh(c) /\ NewsAhead(c)

(* A decision is an alert only if it changes the verdict.                  *)
LEMMA AlertChangesVerdict ==
  ASSUME NEW h \in Health, NEW ok \in BOOLEAN, AlertFor(h, ok) # "none"
  PROVE  NextHealth(h, ok).isDown # h.isDown
  BY DEF AlertFor, NextHealth, OnFailure, OnSuccess, Healthy, Health, DownThreshold

LEMMA NewsTyped ==
  ASSUME news \in [Monitors -> BOOLEAN], [PipelineNext]_pipelineVars
  PROVE  news' \in [Monitors -> BOOLEAN]
<1>1. ASSUME NEW c \in Consumers, ConsumerStep(c) PROVE news' \in [Monitors -> BOOLEAN]
  BY <1>1 DEF ConsumerStep
<1>2. ASSUME NEW c \in Consumers, GateStep(c) PROVE news' \in [Monitors -> BOOLEAN]
  BY <1>2 DEF GateStep
<1>3. CASE news' = news
  BY <1>3
<1> QED
  BY <1>1, <1>2, <1>3, PipelineSteps
  DEF Acts, EnterGate, PipelineExpire, PipelineCrash, GateIdles, chatVars, pipelineVars

LEMMA ConsumerStepNews ==
  ASSUME FollowInv, NewsInv, "upsert" \notin Faults, NEW c \in Consumers, ConsumerStep(c)
  PROVE  RowFresh(c)' /\ NewsAhead(c)'
<1> DEFINE Kept == RowFresh(c)' /\ NewsAhead(c)'
<1>1. /\ worker \in [Consumers -> Worker] /\ worker[c] \in Worker /\ TypeOK
      /\ health \in [Monitors -> Health] /\ RowFresh(c)
  BY DEF FollowInv, TypeOK, NewsInv
<1>2. ASSUME worker'[c].pc \notin {"upsert", "dispatch"} PROVE Kept
  BY <1>2 DEF RowFresh, NewsAhead
<1>3. NextResult(worker[c]).pc = "check" /\ SkipResult(worker[c]).pc = "check"
  BY <1>1, ResultStep
<1>4. CASE Receive(c) \/ Ignore(c) \/ JudgeFails(c)
  <2>1. [worker[c] EXCEPT !.pc = "check", !.msg = Head(queue)].pc = "check"
    BY <1>1 DEF Worker
  <2>2. \E w : Move(c, w) /\ w.pc = "check"
    BY <1>3, <1>4, <2>1 DEF Receive, Ignore, JudgeFails
  <2> QED BY <1>1, <1>2, <2>2, Moved
<1>5. CASE Settle(c) \/ StopConsuming(c)
  <2>1. PICK w \in {Idle, [Idle EXCEPT !.pc = "stopped"]} : Move(c, w)
    BY <1>5 DEF Settle, Discard, Ack, RequeueFailed, StopConsuming, Done
  <2>2. w.pc \in {"idle", "stopped"}
    BY IdleType DEF Worker
  <2> QED BY <1>1, <1>2, <2>1, <2>2, Moved
<1>6. CASE Judge(c)
  <2> DEFINE m == MonitorOf(Current(c))
             ok == Current(c).ok
             w == [worker[c] EXCEPT !.pc = "upsert", !.st = NextHealth(health[m], ok),
                                    !.alert = AlertFor(health[m], ok)]
  <2>1. AtResult(c) /\ Move(c, w) /\ log' = log /\ health' = health
    BY <1>6 DEF Judge, brokerVars
  <2>2. m \in Monitors /\ ok \in BOOLEAN
    BY <1>1, <1>6, <2>1, CurrentType DEF Judge, Result
  <2>3. /\ w.pc = "upsert" /\ w.msg = worker[c].msg /\ w.idx = worker[c].idx
        /\ w.st = NextHealth(health[m], ok) /\ w.alert = AlertFor(health[m], ok)
    BY <1>1 DEF Worker
  <2>4. worker'[c] = w
    BY <1>1, <2>1, Moved
  <2> HIDE DEF w
  <2>5. MonitorOf(Current(c))' = m
    BY <2>1, <2>3, <2>4 DEF Current, Body
  <2>6. AlertFor(health[m], ok) # "none" =>
          NextHealth(health[m], ok).isDown # health[m].isDown
    BY <1>1, <2>2, AlertChangesVerdict
  <2> HIDE DEF m, ok
  <2> QED BY <2>1, <2>3, <2>4, <2>5, <2>6 DEF RowFresh, NewsAhead
<1>7. CASE Upsert(c) \/ UpsertFails(c)
  <2> DEFINE m == MonitorOf(Current(c))
  <2>1. worker[c].pc = "upsert" /\ Move(c, AfterUpsert(worker[c])) /\ log' = log
    BY <1>7 DEF Upsert, UpsertFails, brokerVars
  <2>2. m \in Monitors
    BY <1>1, <2>1 DEF TypeOK, Placed, Busy
  <2>3. CASE worker[c].alert = "none"
    <3>1. worker'[c].pc = "check"
      BY <1>1, <1>3, <2>1, <2>3, Moved DEF AfterUpsert
    <3> QED BY <1>2, <3>1
  <2>4. CASE worker[c].alert # "none"
    <3>1. /\ worker'[c].pc = "dispatch" /\ worker'[c].expired = worker[c].expired
          /\ worker'[c].msg = worker[c].msg /\ worker'[c].idx = worker[c].idx
      BY <1>1, <2>1, <2>4, Moved DEF AfterUpsert, Worker
    <3>2. MonitorOf(Current(c))' = m
      BY <2>1, <3>1 DEF Current, Body
    <3>3. CASE Upsert(c)
      <4>1. health'[m] = worker[c].st
        BY <1>1, <2>2, <3>3 DEF Upsert
      <4>2. worker[c].st.isDown # health[m].isDown
        BY <1>1, <2>1, <2>4 DEF RowFresh
      <4>3. news'[m]
        BY <2>2, <4>1, <4>2 DEF ConsumerStep
      <4> HIDE DEF m
      <4> QED BY <3>1, <3>2, <4>3 DEF RowFresh, NewsAhead
    <3>4. CASE UpsertFails(c)
      <4>1. worker[c].expired
        BY <3>4 DEF UpsertFails, CallFails, Fail, MayFail
      <4>2. gate'[c].pc = "off"
        BY <2>1 DEF FollowInv, GateFollowsWorker, ConsumerStep, gateSide
      <4> QED BY <3>1, <4>1, <4>2 DEF RowFresh, NewsAhead
    <3> QED BY <1>7, <3>3, <3>4
  <2> QED BY <2>3, <2>4
<1> QED BY <1>4, <1>5, <1>6, <1>7 DEF ConsumerStep, Consume

LEMMA GateStepNews ==
  ASSUME FollowInv, NewsInv, NEW c \in Consumers, GateStep(c)
  PROVE  RowFresh(c)' /\ NewsAhead(c)'
<1>1. /\ worker \in [Consumers -> Worker] /\ worker[c] \in Worker /\ TypeOK /\ GateTyped
      /\ gate \in [Consumers -> Call] /\ gate[c] \in Call /\ NewsAhead(c) /\ RowFresh(c)
  BY DEF FollowInv, TypeOK, NewsInv, GateTyped
<1>2. CASE gate'[c].pc = "off"
  <2>1. worker'[c] = NextResult(worker[c])
    BY <1>1, <1>2, Moved DEF GateStep, Dispatch
  <2>2. worker'[c].pc = "check"
    BY <1>1, <2>1, ResultStep
  <2> QED BY <2>2 DEF RowFresh, NewsAhead
<1>3. CASE gate'[c].pc # "off"
  <2>1. UNCHANGED vars /\ UNCHANGED <<worker, log, health>>
    BY <1>3 DEF GateStep, vars, brokerVars
  <2>2. MonitorOf(Current(c))' = MonitorOf(Current(c))
    BY <2>1 DEF Current, Body
  <2>3. ~Gate!Leave(c)
    BY <1>1, <1>3, OffTyped DEF Gate!Leave
  <2>4. news' = news
    BY <2>3 DEF GateStep, Gate!Send
  <2>5. gate[c].pc # "off"
    BY <1>1, <2>3 DEF GateStep, Gate!Step, Gate!CheckEnabled, Gate!FindOwner, Gate!BeginDeduct,
       Gate!Deduct, Gate!DeductUnanswered, Gate!Send, Gate!SendFails, Gate!Ask, Gate!Nudge,
       Gate!NudgeFails, Gate!Mark, Gate!CallFails, Gate!At
  <2>6. ~(gate[c].pc = "enabled" /\ worker[c].expired)
    <3> SUFFICES ASSUME gate[c].pc = "enabled", worker[c].expired PROVE FALSE
      OBVIOUS
    <3>1. gate[c].late
      BY DEF FollowInv, GateFollowsWorker
    <3>2. Gate!CheckEnabled(c)
      BY <2>3 DEF GateStep, Gate!Step, Gate!FindOwner, Gate!BeginDeduct, Gate!Deduct,
         Gate!DeductUnanswered, Gate!Send, Gate!SendFails, Gate!Ask, Gate!Nudge,
         Gate!NudgeFails, Gate!Mark, Gate!CallFails, Gate!At
    <3> QED BY <3>1, <3>2 DEF Gate!CheckEnabled, Gate!Works
  <2>7. NewsAhead(c)'
    BY <1>1, <2>1, <2>2, <2>4, <2>5, <2>6 DEF NewsAhead
  <2>8. RowFresh(c)'
    BY <1>1, <2>1, <2>2 DEF RowFresh
  <2> QED BY <2>7, <2>8
<1> QED BY <1>2, <1>3

LEMMA ActsNews ==
  ASSUME FollowInv, NewsInv, "upsert" \notin Faults, NEW c \in Consumers, Acts(c)
  PROVE  RowFresh(c)' /\ NewsAhead(c)'
<1>1. /\ worker \in [Consumers -> Worker] /\ worker[c] \in Worker
      /\ gate \in [Consumers -> Call] /\ gate[c] \in Call /\ NewsAhead(c) /\ RowFresh(c)
  BY DEF FollowInv, TypeOK, NewsInv, GateTyped
<1>2. CASE EnterGate(c)
  <2>1. UNCHANGED <<worker, log, health, news>>
    BY <1>2 DEF EnterGate, vars, brokerVars, chatVars
  <2>2. [Gate!Off EXCEPT !.pc = "enabled", !.mon = MonitorOf(Current(c)),
            !.kind = worker[c].alert, !.late = worker[c].expired].pc = "enabled"
    BY DEF Gate!Off
  <2>3. gate'[c].pc = "enabled"
    BY <1>1, <1>2, <2>2 DEF EnterGate, Gate!Begin
  <2>4. MonitorOf(Current(c))' = MonitorOf(Current(c))
    BY <2>1 DEF Current, Body
  <2> QED BY <1>1, <2>1, <2>3, <2>4 DEF RowFresh, NewsAhead
<1>3. CASE PipelineExpire(c)
  <2>1. /\ UNCHANGED <<log, health, news>> /\ worker'[c].pc = worker[c].pc
        /\ worker'[c].alert = worker[c].alert /\ worker'[c].st = worker[c].st
        /\ worker'[c].msg = worker[c].msg /\ worker'[c].idx = worker[c].idx
        /\ worker'[c].expired = TRUE
    BY <1>1, <1>3 DEF PipelineExpire, Expire, Move, Worker, brokerVars, chatVars
  <2>2. MonitorOf(Current(c))' = MonitorOf(Current(c))
    BY <2>1 DEF Current, Body
  <2>3. gate'[c].pc = gate[c].pc
    BY <1>1, <1>3 DEF PipelineExpire, gateSide, Gate!Expired, Call
  <2> QED BY <1>1, <2>1, <2>2, <2>3 DEF RowFresh, NewsAhead
<1>4. CASE PipelineCrash(c) \/ (Restart(c) /\ GateIdles)
  <2>1. \E w \in {Idle, [Idle EXCEPT !.pc = "dead"]} : Move(c, w)
    BY <1>4 DEF PipelineCrash, Crash, Restart
  <2>2. \A w \in {Idle, [Idle EXCEPT !.pc = "dead"]} : w.pc \in {"idle", "dead"}
    BY IdleType DEF Worker
  <2>3. worker'[c].pc \in {"idle", "dead"}
    BY <1>1, <2>1, <2>2, Moved
  <2> QED BY <2>3 DEF RowFresh, NewsAhead
<1>5. CASE Close(c) /\ GateIdles
  <2>1. UNCHANGED <<worker, log, health, news, gate>>
    BY <1>5 DEF Close, GateIdles, gateSide, chatVars
  <2>2. MonitorOf(Current(c))' = MonitorOf(Current(c))
    BY <2>1 DEF Current, Body
  <2> QED BY <1>1, <2>1, <2>2 DEF RowFresh, NewsAhead
<1>6. CASE ConsumerStep(c)
  BY <1>6, ConsumerStepNews
<1>7. CASE GateStep(c)
  BY <1>7, GateStepNews
<1> QED BY <1>2, <1>3, <1>4, <1>5, <1>6, <1>7 DEF Acts

LEMMA NewsKept ==
  ASSUME OneConsumer, "upsert" \notin Faults, FollowInv, NewsInv,
         [PipelineNext]_pipelineVars
  PROVE  NewsInv'
<1>1. news' \in [Monitors -> BOOLEAN]
  BY NewsTyped DEF NewsInv
<1> SUFFICES ASSUME NEW c \in Consumers PROVE RowFresh(c)' /\ NewsAhead(c)'
  BY <1>1 DEF NewsInv
<1>2. RowFresh(c) /\ NewsAhead(c) /\ TypeOK
  BY DEF NewsInv, FollowInv
<1>3. ASSUME UNCHANGED <<worker, log, health, news, gate>>
      PROVE  RowFresh(c)' /\ NewsAhead(c)'
  <2>1. MonitorOf(Current(c))' = MonitorOf(Current(c))
    BY <1>3 DEF Current, Body
  <2> QED BY <1>2, <1>3, <2>1 DEF RowFresh, NewsAhead
<1>4. CASE UNCHANGED pipelineVars
  BY <1>3, <1>4 DEF pipelineVars, vars, brokerVars, gateSide, chatVars
<1>5. CASE Publish /\ GateIdles
  <2>1. UNCHANGED <<worker, health, news, gate>>
    BY <1>5 DEF Publish, GateIdles, gateSide, chatVars
  <2>2. Busy(c) => MonitorOf(Current(c))' = MonitorOf(Current(c))
    BY <1>2, <1>5, PublishKeepsCall DEF SameCall
  <2> QED BY <1>2, <2>1, <2>2 DEF RowFresh, NewsAhead, Busy
<1>6. ASSUME NEW d \in Consumers, Acts(d) PROVE RowFresh(c)' /\ NewsAhead(c)'
  <2>1. d = c
    BY DEF OneConsumer
  <2> QED BY <1>6, <2>1, ActsNews
<1>7. CASE Gate!World /\ UNCHANGED <<vars, chatVars>>
  <2>1. gate' = gate
    BY <1>7 DEF Gate!World, Gate!NextDay, Gate!WeekPasses, Gate!Buy, Gate!ToggleMute,
       Gate!ChangeReach
  <2> QED BY <1>3, <1>7, <2>1 DEF vars, brokerVars, chatVars
<1> QED BY <1>4, <1>5, <1>6, <1>7, PipelineSteps

(* With one instance, and unless the write of the row fails before its     *)
(* deadline, an alert about to be sent tells of a change no alert has told *)
(* of: redelivery, crashes, deadlines and failed sends repeat none.        *)
THEOREM AlertsAreNews ==
  ASSUME OneConsumer, "upsert" \notin Faults
  PROVE  PipelineSpec => []AlertIsNews
<1>1. PipelineInit => NewsInv
  BY IdleType DEF PipelineInit, Init, NewsInv, RowFresh, NewsAhead
<1>2. FollowInv /\ NewsInv /\ [PipelineNext]_pipelineVars => NewsInv'
  BY NewsKept
<1>3. FollowInv /\ NewsInv => AlertIsNews
  BY DEF FollowInv, GateFollowsWorker, NewsInv, NewsAhead, AlertIsNews
<1> QED BY <1>1, <1>2, <1>3, FollowInvariant, PTL DEF PipelineSpec

-----------------------------------------------------------------------------
(* OneReminder, for one instance.  Two of them may both find that no       *)
(* reminder is marked and both send one.                                   *)

(* The call of c reminds u: asked and about to send, or sent and about to  *)
(* be marked.                                                              *)
Reminds(c, u, pc) == gate[c].pc = pc /\ Owner[gate[c].mon] = u

NudgeInv ==
  /\ nudges \in [Users -> Nat] /\ unmarked \in [Users -> Nat]
  /\ reminded \in [Users -> BOOLEAN]
  /\ \A u \in Users :
       /\ nudges[u] <= unmarked[u] + 1
       /\ ~reminded[u] /\ (\A c \in Consumers : ~Reminds(c, u, "mark"))
            => nudges[u] <= unmarked[u]
       /\ \A c \in Consumers : Reminds(c, u, "nudge") \/ Reminds(c, u, "mark") => ~reminded[u]

reminderVars == <<nudges, unmarked, reminded>>

(* No reminder starts or ends, and none is booked.                         *)
LEMMA NudgeFrame ==
  ASSUME NudgeInv, UNCHANGED reminderVars,
         \A c \in Consumers, u \in Users :
           /\ Reminds(c, u, "mark")' <=> Reminds(c, u, "mark")
           /\ Reminds(c, u, "nudge")' => Reminds(c, u, "nudge")
  PROVE  NudgeInv'
BY DEF NudgeInv, reminderVars

(* What each step of the gate is to the reminders.                         *)
Quietly(c) == UNCHANGED reminderVars /\ gate[c].pc # "mark" /\ gate'[c].pc \notin {"nudge", "mark"}

LEMMA GateReminds ==
  ASSUME GateTyped, NEW c \in Consumers, GateStep(c)
  PROVE  \/ Quietly(c)
         \/ /\ UNCHANGED reminderVars /\ gate[c].pc # "mark" /\ gate'[c].pc = "nudge"
            /\ gate'[c].mon = gate[c].mon /\ ~reminded[Owner[gate[c].mon]]
         \/ /\ gate[c].pc = "nudge" /\ gate'[c].pc = "mark" /\ gate'[c].mon = gate[c].mon
            /\ nudges' = Gate!Add(nudges, Owner[gate[c].mon], 1)
            /\ UNCHANGED <<unmarked, reminded>>
         \/ /\ gate[c].pc = "mark" /\ gate'[c].pc = "off"
            /\ reminded' = [reminded EXCEPT ![Owner[gate[c].mon]] = TRUE]
            /\ UNCHANGED <<nudges, unmarked>>
         \/ /\ gate[c].pc = "mark" /\ gate'[c].pc = "off" /\ unmarked' = Unmark(c)
            /\ UNCHANGED <<nudges, reminded>>
<1>1. gate \in [Consumers -> Call] /\ gate[c] \in Call
  BY DEF GateTyped
<1>2. Gate!Leave(c) => gate'[c].pc = "off"
  BY <1>1, OffTyped DEF Gate!Leave
<1>3. \A pc : Gate!GoTo(c, pc) => gate'[c].pc = pc /\ gate'[c].mon = gate[c].mon
  BY <1>1 DEF Gate!GoTo, Call
<1>4. gate[c].pc # "mark" => unmarked' = unmarked
  BY DEF GateStep
<1>5. CASE Gate!CheckEnabled(c) \/ Gate!FindOwner(c)
  <2>1. gate[c].pc # "mark" /\ UNCHANGED <<nudges, reminded>>
    BY <1>5 DEF Gate!CheckEnabled, Gate!FindOwner, Gate!At, Gate!outVars
  <2>2. gate'[c].pc \in {"off", "owner", "begin"}
    BY <1>2, <1>3, <1>5 DEF Gate!CheckEnabled, Gate!FindOwner
  <2> QED BY <1>4, <2>1, <2>2 DEF Quietly, reminderVars
<1>6. CASE Gate!BeginDeduct(c) \/ Gate!Deduct(c)
  <2>1. gate[c].pc # "mark" /\ UNCHANGED <<nudges, reminded>>
    BY <1>6 DEF Gate!BeginDeduct, Gate!Deduct, Gate!At, Gate!outVars
  <2>2. CASE Gate!BeginDeduct(c)
    <3>1. gate'[c].pc = "lock"
      BY <1>1, <2>2 DEF Gate!BeginDeduct, Call
    <3> QED BY <1>4, <2>1, <3>1 DEF Quietly, reminderVars
  <2>3. CASE Gate!Deduct(c)
    <3>1. \E pc \in {"ask", "send"} : Gate!GoTo(c, pc)
      BY <2>3 DEF Gate!Deduct
    <3>2. gate'[c].pc \in {"ask", "send"}
      BY <1>3, <3>1
    <3> QED BY <1>4, <2>1, <3>2 DEF Quietly, reminderVars
  <2> QED BY <1>6, <2>2, <2>3
<1>7. CASE Gate!DeductUnanswered(c) \/ Gate!Send(c) \/ Gate!SendFails(c) \/ Gate!NudgeFails(c)
  <2>1. gate[c].pc # "mark" /\ UNCHANGED <<nudges, reminded>> /\ Gate!Leave(c)
    BY <1>7 DEF Gate!DeductUnanswered, Gate!Send, Gate!SendFails, Gate!NudgeFails, Gate!At,
       Gate!outVars
  <2> QED BY <1>2, <1>4, <2>1 DEF Quietly, reminderVars
<1>8. CASE Gate!Ask(c)
  <2>1. gate[c].pc = "ask" /\ UNCHANGED <<nudges, reminded>>
    BY <1>8 DEF Gate!Ask, Gate!At, Gate!outVars
  <2>2. \/ gate'[c].pc = "off"
        \/ /\ gate'[c].pc = "nudge" /\ gate'[c].mon = gate[c].mon
           /\ ~reminded[Owner[gate[c].mon]]
    BY <1>2, <1>3, <1>8 DEF Gate!Ask, Gate!User
  <2> QED BY <1>4, <2>1, <2>2 DEF Quietly, reminderVars
<1>9. CASE Gate!Nudge(c)
  <2>1. /\ gate[c].pc = "nudge" /\ Gate!GoTo(c, "mark") /\ reminded' = reminded
        /\ nudges' = Gate!Add(nudges, Owner[gate[c].mon], 1)
    BY <1>9 DEF Gate!Nudge, Gate!At, Gate!User
  <2> QED BY <1>3, <1>4, <2>1
<1>10. CASE Gate!Mark(c)
  <2>1. /\ gate[c].pc = "mark" /\ Gate!Leave(c) /\ nudges' = nudges /\ Gate!Works(c)
        /\ reminded' = [reminded EXCEPT ![Owner[gate[c].mon]] = TRUE]
    BY <1>10 DEF Gate!Mark, Gate!At, Gate!User, Gate!outVars
  <2>2. CASE Gate!CallFails(c)
    <3>1. UNCHANGED <<nudges, reminded>> /\ unmarked' = Unmark(c)
      BY <1>10, <2>1, <2>2 DEF Gate!CallFails, GateStep, Gate!outVars
    <3> QED BY <1>2, <2>1, <3>1
  <2>3. CASE ~Gate!CallFails(c)
    <3>1. unmarked' = unmarked
      BY <2>3 DEF GateStep
    <3> QED BY <1>2, <2>1, <3>1
  <2> QED BY <2>2, <2>3
<1>11. CASE Gate!CallFails(c)
  <2>1. UNCHANGED <<nudges, reminded>> /\ Gate!Leave(c)
    BY <1>11 DEF Gate!CallFails, Gate!outVars
  <2>2. gate[c].pc = "mark" => unmarked' = Unmark(c)
    BY <1>11 DEF GateStep
  <2> QED BY <1>2, <1>4, <2>1, <2>2 DEF Quietly, reminderVars
<1> QED
  BY <1>5, <1>6, <1>7, <1>8, <1>9, <1>10, <1>11 DEF GateStep, Gate!Step

LEMMA OneMore ==
  ASSUME NEW f \in [Users -> Nat], NEW v
  PROVE  /\ [f EXCEPT ![v] = @ + 1] \in [Users -> Nat]
         /\ \A u \in Users : [f EXCEPT ![v] = @ + 1][u] = IF u = v THEN f[u] + 1 ELSE f[u]
<1>1. CASE v \in Users
  BY <1>1
<1>2. CASE v \notin Users
  <2>1. [f EXCEPT ![v] = @ + 1] = f
    BY <1>2
  <2> QED BY <1>2, <2>1
<1> QED BY <1>1, <1>2

(* The steps of the gate, with the only consumer there is.                 *)
LEMMA GateStepReminders ==
  ASSUME OneConsumer, GateTyped, NudgeInv, NEW c \in Consumers, GateStep(c)
  PROVE  NudgeInv'
<1>0. /\ nudges \in [Users -> Nat] /\ unmarked \in [Users -> Nat]
      /\ reminded \in [Users -> BOOLEAN] /\ \A d \in Consumers : d = c
  BY DEF NudgeInv, OneConsumer
<1> DEFINE Fine(u) ==
             /\ nudges'[u] <= unmarked'[u] + 1
             /\ ~reminded'[u] /\ ~Reminds(c, u, "mark")' => nudges'[u] <= unmarked'[u]
             /\ Reminds(c, u, "nudge")' \/ Reminds(c, u, "mark")' => ~reminded'[u]
<1>1. \A u \in Users :
        /\ nudges[u] \in Nat /\ unmarked[u] \in Nat /\ nudges[u] <= unmarked[u] + 1
        /\ ~reminded[u] /\ ~Reminds(c, u, "mark") => nudges[u] <= unmarked[u]
        /\ Reminds(c, u, "nudge") \/ Reminds(c, u, "mark") => ~reminded[u]
  BY <1>0 DEF NudgeInv
<1>2. ASSUME /\ nudges' \in [Users -> Nat] /\ unmarked' \in [Users -> Nat]
             /\ reminded' \in [Users -> BOOLEAN] /\ \A u \in Users : Fine(u)
      PROVE  NudgeInv'
  BY <1>0, <1>2 DEF NudgeInv
<1>3. CASE Quietly(c)
  <2>1. UNCHANGED reminderVars /\ \A u \in Users : Fine(u)
    BY <1>1, <1>3 DEF Quietly, reminderVars, Reminds
  <2> QED BY <1>0, <1>2, <2>1 DEF reminderVars
<1>4. CASE /\ UNCHANGED reminderVars /\ gate[c].pc # "mark" /\ gate'[c].pc = "nudge"
           /\ gate'[c].mon = gate[c].mon /\ ~reminded[Owner[gate[c].mon]]
  <2>1. \A u \in Users : Fine(u)
    BY <1>1, <1>4 DEF reminderVars, Reminds
  <2> QED BY <1>0, <1>2, <1>4, <2>1 DEF reminderVars
<1>5. CASE /\ gate[c].pc = "nudge" /\ gate'[c].pc = "mark" /\ gate'[c].mon = gate[c].mon
           /\ nudges' = Gate!Add(nudges, Owner[gate[c].mon], 1)
           /\ UNCHANGED <<unmarked, reminded>>
  <2>1. \A u \in Users :
          nudges'[u] = IF u = Owner[gate[c].mon] THEN nudges[u] + 1 ELSE nudges[u]
    BY <1>0, <1>5 DEF Gate!Add
  <2>2. nudges' \in [Users -> Nat]
    BY <1>0, <1>5, OneMore DEF Gate!Add
  <2>3. ASSUME NEW u \in Users PROVE Fine(u)
    <3>1. CASE u = Owner[gate[c].mon]
      <4>1. ~reminded[u] /\ nudges[u] <= unmarked[u]
        BY <1>1, <1>5, <3>1 DEF Reminds
      <4>2. nudges'[u] <= unmarked'[u] + 1
        BY <1>1, <1>5, <2>1, <3>1, <4>1
      <4>3. Reminds(c, u, "mark")' /\ ~reminded'[u]
        BY <1>5, <3>1, <4>1 DEF Reminds
      <4> QED BY <4>2, <4>3
    <3>2. CASE u # Owner[gate[c].mon]
      BY <1>1, <1>5, <2>1, <3>2 DEF Reminds
    <3> QED BY <3>1, <3>2
  <2> QED BY <1>0, <1>2, <1>5, <2>2, <2>3
<1>6. CASE /\ gate[c].pc = "mark" /\ gate'[c].pc = "off"
           /\ reminded' = [reminded EXCEPT ![Owner[gate[c].mon]] = TRUE]
           /\ UNCHANGED <<nudges, unmarked>>
  <2>1. \A u \in Users : reminded'[u] = IF u = Owner[gate[c].mon] THEN TRUE ELSE reminded[u]
    BY <1>0, <1>6
  <2>2. \A u \in Users : Fine(u)
    BY <1>1, <1>6, <2>1 DEF Reminds
  <2> QED BY <1>0, <1>2, <1>6, <2>2
<1>7. CASE /\ gate[c].pc = "mark" /\ gate'[c].pc = "off" /\ unmarked' = Unmark(c)
           /\ UNCHANGED <<nudges, reminded>>
  <2>1. \A u \in Users :
          unmarked'[u] = IF u = Owner[gate[c].mon] THEN unmarked[u] + 1 ELSE unmarked[u]
    BY <1>0, <1>7 DEF Unmark
  <2>2. unmarked' \in [Users -> Nat]
    BY <1>0, <1>7, OneMore DEF Unmark
  <2>3. \A u \in Users : Fine(u)
    BY <1>1, <1>7, <2>1 DEF Reminds
  <2> QED BY <1>0, <1>2, <1>7, <2>2, <2>3
<1> QED BY <1>3, <1>4, <1>5, <1>6, <1>7, GateReminds

(* A crash between sending and marking loses the mark.                     *)
LEMMA CrashReminders ==
  ASSUME OneConsumer, GateTyped, NudgeInv, NEW c \in Consumers, PipelineCrash(c)
  PROVE  NudgeInv'
<1>0. /\ nudges \in [Users -> Nat] /\ unmarked \in [Users -> Nat]
      /\ reminded \in [Users -> BOOLEAN] /\ \A d \in Consumers : d = c
  BY DEF NudgeInv, OneConsumer
<1>1. \A u \in Users :
        /\ nudges[u] \in Nat /\ unmarked[u] \in Nat /\ nudges[u] <= unmarked[u] + 1
        /\ ~reminded[u] /\ ~Reminds(c, u, "mark") => nudges[u] <= unmarked[u]
  BY <1>0 DEF NudgeInv
<1>2. /\ gate'[c].pc = "off" /\ UNCHANGED <<nudges, reminded>>
      /\ unmarked' = IF gate[c].pc = "mark" THEN Unmark(c) ELSE unmarked
  BY OffTyped DEF PipelineCrash, Gate!Abandon, Gate!Leave, GateTyped
<1>3. unmarked' \in [Users -> Nat]
  BY <1>0, <1>2, OneMore DEF Unmark
<1>4. \A u \in Users : unmarked'[u] = IF Reminds(c, u, "mark") THEN unmarked[u] + 1
                                      ELSE unmarked[u]
  BY <1>0, <1>2 DEF Unmark, Reminds
<1>5. \A u \in Users : ~Reminds(c, u, "nudge")' /\ ~Reminds(c, u, "mark")'
  BY <1>2 DEF Reminds
<1>6. \A u \in Users :
        /\ nudges'[u] <= unmarked'[u] + 1
        /\ ~reminded'[u] => nudges'[u] <= unmarked'[u]
  BY <1>1, <1>2, <1>4
<1> QED BY <1>0, <1>2, <1>3, <1>5, <1>6 DEF NudgeInv

(* What the world does of it: seven days pass, and the count starts anew.  *)
LEMMA WorldReminders ==
  ASSUME NudgeInv, Gate!World, UNCHANGED chatVars
  PROVE  NudgeInv'
<1>1. gate' = gate /\ unmarked' = unmarked
  BY DEF chatVars, Gate!World, Gate!NextDay, Gate!WeekPasses, Gate!Buy, Gate!ToggleMute,
     Gate!ChangeReach
<1>2. CASE UNCHANGED <<nudges, reminded>>
  BY <1>1, <1>2, NudgeFrame DEF reminderVars, Reminds
<1>3. ASSUME NEW w \in Users, Gate!WeekPasses(w) PROVE NudgeInv'
  <2>1. reminded' = [reminded EXCEPT ![w] = FALSE] /\ nudges' = [nudges EXCEPT ![w] = 0]
    BY <1>3 DEF Gate!WeekPasses
  <2>2. /\ nudges \in [Users -> Nat] /\ unmarked \in [Users -> Nat]
        /\ reminded \in [Users -> BOOLEAN]
    BY DEF NudgeInv
  <2>3. /\ nudges' \in [Users -> Nat] /\ reminded' \in [Users -> BOOLEAN]
        /\ \A u \in Users : nudges'[u] = IF u = w THEN 0 ELSE nudges[u]
        /\ \A u \in Users : reminded'[u] = IF u = w THEN FALSE ELSE reminded[u]
    BY <2>1, <2>2
  <2>4. \A u \in Users, d \in Consumers :
          /\ Reminds(d, u, "mark")' <=> Reminds(d, u, "mark")
          /\ Reminds(d, u, "nudge")' <=> Reminds(d, u, "nudge")
    BY <1>1 DEF Reminds
  <2>5. ASSUME NEW u \in Users
        PROVE  /\ nudges'[u] <= unmarked'[u] + 1
               /\ ~reminded'[u] /\ (\A c \in Consumers : ~Reminds(c, u, "mark")')
                    => nudges'[u] <= unmarked'[u]
               /\ \A c \in Consumers :
                    Reminds(c, u, "nudge")' \/ Reminds(c, u, "mark")' => ~reminded'[u]
    <3>1. /\ nudges[u] <= unmarked[u] + 1 /\ unmarked[u] \in Nat /\ nudges[u] \in Nat
          /\ ~reminded[u] /\ (\A c \in Consumers : ~Reminds(c, u, "mark"))
               => nudges[u] <= unmarked[u]
          /\ \A c \in Consumers : Reminds(c, u, "nudge") \/ Reminds(c, u, "mark") => ~reminded[u]
      BY <2>2 DEF NudgeInv
    <3>2. CASE u = w
      <4>1. nudges'[u] = 0 /\ unmarked'[u] \in Nat
        BY <1>1, <2>3, <3>1, <3>2
      <4>2. reminded'[u] = FALSE
        BY <2>3, <3>2, Zenon
      <4> QED BY <4>1, <4>2
    <3>3. CASE u # w
      <4>1. nudges'[u] = nudges[u] /\ reminded'[u] = reminded[u]
        BY <2>3, <3>3
      <4> QED BY <1>1, <2>4, <3>1, <4>1
    <3> QED BY <3>2, <3>3
  <2> QED BY <1>1, <2>2, <2>3, <2>5 DEF NudgeInv
<1> QED
  BY <1>2, <1>3
  DEF Gate!World, Gate!NextDay, Gate!Buy, Gate!ToggleMute, Gate!ChangeReach, Gate!outVars

LEMMA RemindersKept ==
  ASSUME OneConsumer, FollowInv, NudgeInv, [PipelineNext]_pipelineVars
  PROVE  NudgeInv'
<1>1. gate \in [Consumers -> Call] /\ GateTyped
  BY DEF FollowInv, GateTyped
<1>2. CASE UNCHANGED <<gate, reminderVars>>
  BY <1>2, NudgeFrame DEF Reminds
<1>3. ASSUME NEW c \in Consumers, Acts(c) PROVE NudgeInv'
  <2>1. CASE ConsumerStep(c) \/ ((Close(c) \/ Restart(c)) /\ GateIdles)
    BY <1>2, <2>1 DEF ConsumerStep, GateIdles, gateSide, chatVars, reminderVars
  <2>2. CASE EnterGate(c)
    <3>1. UNCHANGED reminderVars
      BY <2>2 DEF EnterGate, Gate!Begin, Gate!outVars, chatVars, reminderVars
    <3>2. gate[c].pc = "off"
      BY <2>2 DEF EnterGate, Gate!Begin, Gate!At
    <3>3. [Gate!Off EXCEPT !.pc = "enabled", !.mon = MonitorOf(Current(c)),
              !.kind = worker[c].alert, !.late = worker[c].expired].pc = "enabled"
      BY DEF Gate!Off
    <3>4. gate'[c].pc = "enabled" /\ \A d \in Consumers : d # c => gate'[d] = gate[d]
      BY <1>1, <2>2, <3>3 DEF EnterGate, Gate!Begin
    <3> QED BY <3>1, <3>2, <3>4, NudgeFrame DEF Reminds
  <2>3. CASE GateStep(c)
    BY <1>1, <2>3, GateStepReminders
  <2>4. CASE PipelineExpire(c)
    <3>1. UNCHANGED reminderVars
      BY <2>4 DEF PipelineExpire, gateSide, chatVars, Gate!Expired, Gate!outVars, reminderVars
    <3>2. \A d \in Consumers : gate'[d].pc = gate[d].pc /\ gate'[d].mon = gate[d].mon
      BY <1>1, <2>4 DEF PipelineExpire, gateSide, Gate!Expired, Call
    <3> QED BY <3>1, <3>2, NudgeFrame DEF Reminds
  <2>5. CASE PipelineCrash(c)
    BY <1>1, <2>5, CrashReminders
  <2> QED BY <1>3, <2>1, <2>2, <2>3, <2>4, <2>5 DEF Acts
<1>4. CASE UNCHANGED pipelineVars \/ (Publish /\ GateIdles)
  BY <1>2, <1>4 DEF pipelineVars, GateIdles, gateSide, chatVars, reminderVars
<1>5. CASE Gate!World /\ UNCHANGED <<vars, chatVars>>
  BY <1>5, WorldReminders
<1> QED BY <1>3, <1>4, <1>5, PipelineSteps

(* One instance sends a second reminder within seven days only for one     *)
(* whose mark was lost.                                                    *)
THEOREM RemindersAreRare ==
  ASSUME OneConsumer
  PROVE  PipelineSpec => []OneReminder
<1>1. PipelineInit => NudgeInv
  BY OffTyped DEF PipelineInit, Gate!Init, NudgeInv, Reminds
<1>2. FollowInv /\ NudgeInv /\ [PipelineNext]_pipelineVars => NudgeInv'
  BY RemindersKept
<1>3. NudgeInv => OneReminder
  <2> SUFFICES ASSUME NudgeInv, NEW u \in Users PROVE nudges[u] <= 1 + unmarked[u]
    BY DEF OneReminder
  <2>1. nudges[u] \in Nat /\ unmarked[u] \in Nat /\ nudges[u] <= unmarked[u] + 1
    BY DEF NudgeInv
  <2> QED BY <2>1
<1> QED BY <1>1, <1>2, <1>3, FollowInvariant, PTL DEF PipelineSpec

=============================================================================
