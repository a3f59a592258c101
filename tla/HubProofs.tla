------------------------------ MODULE HubProofs ------------------------------
(***************************************************************************)
(* Proofs about Hub: for any number of connections and updates, any        *)
(* capacity of the channel and any peers, no connection misses, repeats or *)
(* reorders an update while it is registered, and Run only ever writes to  *)
(* connections whose ServeWs is there.                                     *)
(***************************************************************************)
EXTENDS Hub, TLAPS

USE HubAssumption

-----------------------------------------------------------------------------
(* The inductive invariant.                                                *)

(* Broadcast holds the updates piped but not taken, in their order.        *)
QueueInv ==
  /\ Len(broadcast) <= piped
  /\ \A i \in 1..Len(broadcast) : broadcast[i] = Taken + i

(* Run writes the update it took last, and between two updates it has      *)
(* nobody left to write to.                                                *)
RunInv ==
  /\ run.pc = "write" => run.msg = Taken /\ run.msg # 0
  /\ run.pc = "select" => run.left = {}

Served(c) == serve[c] \in {"read", "unregister"}

(* The map holds the connections that registered and have not unregistered *)
(* yet; a snapshot is a part of it, because nobody unregisters while Run   *)
(* writes; a connection is closed once it is out of the map, and nothing   *)
(* is written before it is in.                                             *)
ClientInv ==
  \A c \in Conns : /\ c \in clients <=> Served(c)
                   /\ c \in run.left => c \in clients
                   /\ c \in closed => serve[c] = "returned"
                   /\ serve[c] \in {"none", "register"} => written[c] = << >>

HubInv == TypeOK /\ QueueInv /\ RunInv /\ ClientInv /\ NoGaps /\ NoLag

-----------------------------------------------------------------------------
(* Sequences.                                                              *)

LEMMA AppendFacts ==
  ASSUME NEW S, NEW q \in Seq(S), NEW x \in S
  PROVE  /\ Append(q, x) \in Seq(S) /\ Len(Append(q, x)) = Len(q) + 1
         /\ \A i \in 1..Len(q) + 1 : Append(q, x)[i] = IF i = Len(q) + 1 THEN x ELSE q[i]
  OBVIOUS

LEMMA TailFacts ==
  ASSUME NEW S, NEW q \in Seq(S), q # << >>
  PROVE  /\ Tail(q) \in Seq(S) /\ Len(Tail(q)) = Len(q) - 1 /\ Len(q) \in Nat \ {0}
         /\ Head(q) \in S /\ Head(q) = q[1]
         /\ \A i \in 1..Len(q) - 1 : Tail(q)[i] = q[i + 1]
  OBVIOUS

-----------------------------------------------------------------------------
(* What the actions leave alone.                                           *)

(* The broker, the connections and the peers touch neither Run nor what it *)
(* has taken and written.                                                  *)
Outside(c) == Upgrade(c) \/ ReadFails(c) \/ Leave(c) \/ Stall(c) \/ Resume(c)

LEMMA OutsideFrame ==
  ASSUME NEW c \in Conns, Outside(c)
  PROVE  UNCHANGED <<updates, piped, broadcast, clients, run, closed, written, joined>>
  BY DEF Outside, Upgrade, ReadFails, Leave, Stall, Resume, bridgeVars

(* How ServeWs of c goes on outside Run.                                   *)
LEMMA OutsideServe ==
  ASSUME TypeOK, NEW c \in Conns, Outside(c)
  PROVE  \/ serve' = serve
         \/ serve[c] = "none" /\ serve' = [serve EXCEPT ![c] = "register"]
         \/ serve[c] = "read" /\ serve' = [serve EXCEPT ![c] = "unregister"]
  BY DEF Outside, Upgrade, ReadFails, Leave, Stall, Resume

(* A step of the system is one of these.                                   *)
LEMMA Steps ==
  ASSUME [Next]_vars
  PROVE  \/ Arrive \/ Pipe \/ Take \/ WriteDone \/ UNCHANGED vars
         \/ \E c \in Conns : Write(c) \/ WriteFails(c) \/ Outside(c) \/ Register(c) \/ Unregister(c)
  BY DEF Next, Run, Outside

-----------------------------------------------------------------------------
(* Type correctness, with the numbers of the updates in the channel.       *)

LEMMA NextType == TypeOK /\ QueueInv /\ RunInv /\ [Next]_vars => TypeOK'
<1> SUFFICES ASSUME TypeOK, QueueInv, RunInv, [Next]_vars PROVE TypeOK'
  OBVIOUS
<1>0. /\ updates \in 0..MaxUpdates /\ piped \in 0..updates
      /\ broadcast \in Seq(1..MaxUpdates) /\ Len(broadcast) \in Nat
      /\ run \in [pc : {"select", "write", "self-unregister"}, msg : 0..MaxUpdates,
                  left : SUBSET Conns]
      /\ serve \in [Conns -> {"none", "register", "read", "unregister", "returned"}]
      /\ peer \in [Conns -> {"live", "stalled", "gone"}]
      /\ written \in [Conns -> Seq(1..MaxUpdates)] /\ joined \in [Conns -> 0..MaxUpdates]
  BY DEF TypeOK
<1>1. CASE Arrive
  BY <1>0, <1>1 DEF TypeOK, Arrive, connVars
<1>2. CASE Pipe
  <2>1. piped' = piped + 1 /\ piped' \in 1..MaxUpdates /\ piped' \in 0..updates
    BY <1>0, <1>2 DEF Pipe
  <2>2. broadcast' \in Seq(1..MaxUpdates) /\ Len(broadcast') = Len(broadcast) + 1
    BY <1>0, <1>2, <2>1, AppendFacts DEF Pipe
  <2>3. Len(broadcast') <= BroadcastCap
    BY <1>0, <1>2, <2>2 DEF Pipe
  <2> QED BY <1>2, <2>1, <2>2, <2>3 DEF TypeOK, Pipe, connVars
<1>3. CASE Take
  <2>1. /\ broadcast' \in Seq(1..MaxUpdates) /\ Len(broadcast') = Len(broadcast) - 1
        /\ Head(broadcast) \in 1..MaxUpdates
    BY <1>0, <1>3, TailFacts DEF Take
  <2>2. Len(broadcast') <= BroadcastCap
    BY <1>0, <2>1 DEF TypeOK
  <2>3. run' \in [pc : {"select", "write", "self-unregister"}, msg : 0..MaxUpdates,
                  left : SUBSET Conns]
    BY <1>0, <1>3, <2>1 DEF Take, TypeOK
  <2> QED BY <1>3, <2>1, <2>2, <2>3 DEF TypeOK, Take, connVars, bridgeVars
<1>4. CASE WriteDone
  BY <1>0, <1>4 DEF TypeOK, WriteDone, AtSelect, connVars, bridgeVars
<1>5. CASE UNCHANGED vars
  BY <1>5 DEF TypeOK, vars, connVars, bridgeVars
<1>6. ASSUME NEW c \in Conns, Write(c) PROVE TypeOK'
  <2>1. run.msg \in 1..MaxUpdates
    BY <1>0, <1>6 DEF Write, RunInv
  <2>2. written' = [written EXCEPT ![c] = Append(@, run.msg)]
    BY <1>6 DEF Write
  <2>3. Append(written[c], run.msg) \in Seq(1..MaxUpdates)
    BY <1>0, <2>1, AppendFacts
  <2>4. written' \in [Conns -> Seq(1..MaxUpdates)]
    BY <1>0, <2>2, <2>3
  <2>5. run' \in [pc : {"select", "write", "self-unregister"}, msg : 0..MaxUpdates,
                  left : SUBSET Conns]
    BY <1>0, <1>6 DEF Write, Written
  <2> QED BY <1>6, <2>4, <2>5 DEF TypeOK, Write, connVars, bridgeVars
<1>7. ASSUME NEW c \in Conns, WriteFails(c) PROVE TypeOK'
  <2>1. run' \in [pc : {"select", "write", "self-unregister"}, msg : 0..MaxUpdates,
                  left : SUBSET Conns]
    BY <1>0, <1>7 DEF WriteFails
  <2> QED BY <1>7, <2>1 DEF TypeOK, WriteFails, connVars, bridgeVars
<1>8. ASSUME NEW c \in Conns, Outside(c) PROVE TypeOK'
  <2>1. serve' \in [Conns -> {"none", "register", "read", "unregister", "returned"}]
    BY <1>0, <1>8, OutsideServe
  <2>2. peer' \in [Conns -> {"live", "stalled", "gone"}]
    BY <1>0, <1>8 DEF Outside, Upgrade, ReadFails, Leave, Stall, Resume
  <2> QED BY <1>8, <2>1, <2>2, OutsideFrame DEF TypeOK
<1>9. ASSUME NEW c \in Conns, Register(c) PROVE TypeOK'
  <2>1. Taken \in 0..MaxUpdates
    BY <1>0 DEF Taken, QueueInv
  <2> QED BY <1>0, <1>9, <2>1 DEF TypeOK, Register, bridgeVars
<1>10. ASSUME NEW c \in Conns, Unregister(c) PROVE TypeOK'
  BY <1>0, <1>10 DEF TypeOK, Unregister, bridgeVars
<1> QED BY <1>1, <1>2, <1>3, <1>4, <1>5, <1>6, <1>7, <1>8, <1>9, <1>10, Steps

(* The channel holds what was piped last, and Run writes what it took.     *)
LEMMA NextQueue ==
  TypeOK /\ QueueInv /\ RunInv /\ [Next]_vars =>
    QueueInv' /\ RunInv' /\ Taken' = (IF Take THEN Taken + 1 ELSE Taken)
<1> SUFFICES ASSUME TypeOK, QueueInv, RunInv, [Next]_vars
             PROVE  QueueInv' /\ RunInv' /\ Taken' = (IF Take THEN Taken + 1 ELSE Taken)
  OBVIOUS
<1>0. /\ piped \in Nat /\ broadcast \in Seq(1..MaxUpdates) /\ Len(broadcast) \in Nat
      /\ Len(broadcast) <= piped /\ Taken = piped - Len(broadcast)
      /\ \A i \in 1..Len(broadcast) : broadcast[i] = Taken + i
      /\ run \in [pc : {"select", "write", "self-unregister"}, msg : 0..MaxUpdates,
                  left : SUBSET Conns]
  BY DEF TypeOK, QueueInv, Taken
<1>1. CASE Pipe
  <2>1. piped + 1 \in 1..MaxUpdates
    BY <1>1 DEF Pipe, TypeOK
  <2>2. /\ Len(broadcast') = Len(broadcast) + 1 /\ piped' = piped + 1
        /\ \A i \in 1..Len(broadcast) + 1 :
              broadcast'[i] = IF i = Len(broadcast) + 1 THEN piped + 1 ELSE broadcast[i]
    BY <1>0, <1>1, <2>1, AppendFacts DEF Pipe
  <2>3. Taken' = Taken
    BY <1>0, <2>2 DEF Taken
  <2>4. ASSUME NEW i \in 1..Len(broadcast') PROVE broadcast'[i] = Taken + i
    <3>1. i \in 1..Len(broadcast) + 1
      BY <2>2
    <3>2. CASE i = Len(broadcast) + 1
      BY <1>0, <2>2, <3>1, <3>2
    <3>3. CASE i # Len(broadcast) + 1
      <4>1. i \in 1..Len(broadcast) /\ broadcast'[i] = broadcast[i]
        BY <1>0, <2>2, <3>1, <3>3
      <4> QED BY <1>0, <4>1
    <3> QED BY <3>2, <3>3
  <2>5. ~Take
    BY <1>0, <1>1, <2>2 DEF Take, bridgeVars
  <2> QED BY <1>0, <1>1, <2>2, <2>3, <2>4, <2>5 DEF Pipe, QueueInv, RunInv
<1>2. CASE Take
  <2>1. /\ Len(broadcast') = Len(broadcast) - 1 /\ piped' = piped /\ Len(broadcast) > 0
        /\ Head(broadcast) = broadcast[1]
        /\ \A i \in 1..Len(broadcast) - 1 : broadcast'[i] = broadcast[i + 1]
    BY <1>0, <1>2, TailFacts DEF Take, bridgeVars
  <2>2. Taken' = Taken + 1
    BY <1>0, <2>1 DEF Taken
  <2>3. ASSUME NEW i \in 1..Len(broadcast') PROVE broadcast'[i] = Taken + 1 + i
    <3>1. i + 1 \in 1..Len(broadcast) /\ i \in 1..Len(broadcast) - 1
      BY <1>0, <2>1
    <3>2. broadcast'[i] = Taken + (i + 1)
      BY <1>0, <2>1, <3>1
    <3> QED BY <1>0, <3>1, <3>2
  <2>4. run'.pc = "write" /\ run'.msg = Taken + 1
    BY <1>0, <1>2, <2>1 DEF Take
  <2>5. RunInv'
    BY <1>0, <2>2, <2>4 DEF RunInv
  <2>6. QueueInv'
    BY <1>0, <2>1, <2>2, <2>3 DEF QueueInv
  <2> QED BY <1>2, <2>2, <2>5, <2>6
<1>3. CASE UNCHANGED <<piped, broadcast>> /\ RunInv'
  <2>1. Taken' = Taken /\ QueueInv'
    BY <1>3 DEF Taken, QueueInv
  <2>2. ~Take
    <3>1. Take => Len(broadcast') = Len(broadcast) - 1
      BY <1>0, TailFacts DEF Take
    <3> QED BY <1>0, <1>3, <3>1
  <2> QED BY <1>3, <2>1, <2>2
<1>4. CASE Arrive \/ UNCHANGED vars \/ \E c \in Conns : Outside(c) \/ Register(c) \/ Unregister(c)
  <2>1. UNCHANGED <<piped, broadcast, run>>
    BY <1>4, OutsideFrame DEF Arrive, Register, Unregister, vars, bridgeVars
  <2>2. RunInv'
    BY <2>1 DEF RunInv, Taken
  <2> QED BY <1>3, <2>1, <2>2
<1>5. CASE WriteDone
  <2>1. UNCHANGED <<piped, broadcast>> /\ run' = AtSelect
    BY <1>5 DEF WriteDone, bridgeVars
  <2>2. RunInv'
    BY <2>1 DEF RunInv, AtSelect
  <2> QED BY <1>3, <2>1, <2>2
<1>6. ASSUME NEW c \in Conns, Write(c) \/ WriteFails(c)
      PROVE  QueueInv' /\ RunInv' /\ Taken' = (IF Take THEN Taken + 1 ELSE Taken)
  <2>1. /\ UNCHANGED <<piped, broadcast>> /\ run.pc = "write" /\ run'.msg = run.msg
        /\ run'.pc \in {"write", "self-unregister"}
    BY <1>0, <1>6 DEF Write, Written, WriteFails, bridgeVars
  <2>2. RunInv'
    BY <2>1 DEF RunInv, Taken
  <2> QED BY <1>3, <2>1, <2>2
<1> QED BY <1>1, <1>2, <1>4, <1>5, <1>6, Steps

-----------------------------------------------------------------------------
(* The map, the snapshot and the closed connections.                       *)

LEMMA NextClient == TypeOK /\ RunInv /\ ClientInv /\ [Next]_vars => ClientInv'
<1> SUFFICES ASSUME TypeOK, RunInv, ClientInv, [Next]_vars, NEW d \in Conns
             PROVE  /\ d \in clients' <=> Served(d)'
                    /\ d \in run'.left => d \in clients'
                    /\ d \in closed' => serve'[d] = "returned"
                    /\ serve'[d] \in {"none", "register"} => written'[d] = << >>
  BY DEF ClientInv
<1> DEFINE Kept == /\ d \in clients' <=> Served(d)'
                   /\ d \in run'.left => d \in clients'
                   /\ d \in closed' => serve'[d] = "returned"
                   /\ serve'[d] \in {"none", "register"} => written'[d] = << >>
<1>0. /\ d \in clients <=> Served(d)
      /\ d \in run.left => d \in clients
      /\ d \in closed => serve[d] = "returned"
      /\ serve[d] \in {"none", "register"} => written[d] = << >>
      /\ run.pc = "select" => run.left = {}
      /\ serve \in [Conns -> {"none", "register", "read", "unregister", "returned"}]
      /\ written \in [Conns -> Seq(1..MaxUpdates)]
      /\ run \in [pc : {"select", "write", "self-unregister"}, msg : 0..MaxUpdates,
                  left : SUBSET Conns]
  BY DEF TypeOK, ClientInv, RunInv
<1>1. CASE Arrive \/ Pipe \/ Take \/ WriteDone \/ UNCHANGED vars
  <2>1. UNCHANGED <<clients, closed, serve, written>>
        /\ (run'.left = run.left \/ run'.left = clients \/ run'.left = {})
    BY <1>1 DEF Arrive, Pipe, Take, WriteDone, AtSelect, vars, connVars
  <2> QED BY <1>0, <2>1 DEF Served
<1>2. ASSUME NEW c \in Conns, Write(c) PROVE Kept
  <2>1. /\ UNCHANGED <<clients, closed, serve>> /\ run'.left = run.left \ {c} /\ c \in run.left
        /\ (d # c => written'[d] = written[d])
    BY <1>0, <1>2 DEF Write, Written, connVars
  <2>2. d = c => Served(d)
    BY <2>1 DEF ClientInv
  <2> QED BY <1>0, <2>1, <2>2 DEF Served
<1>3. ASSUME NEW c \in Conns, WriteFails(c) PROVE Kept
  <2>1. UNCHANGED <<clients, closed, serve, written>> /\ run'.left = run.left \ {c}
    BY <1>0, <1>3 DEF WriteFails, connVars
  <2> QED BY <1>0, <2>1 DEF Served
<1>4. ASSUME NEW c \in Conns, Outside(c) PROVE Kept
  <2>1. \/ serve'[d] = serve[d]
        \/ serve[d] = "none" /\ serve'[d] = "register"
        \/ serve[d] = "read" /\ serve'[d] = "unregister"
    BY <1>0, <1>4, OutsideServe
  <2>2. UNCHANGED <<clients, run, closed, written>>
    BY <1>4, OutsideFrame
  <2> QED BY <1>0, <2>1, <2>2 DEF Served
<1>5. ASSUME NEW c \in Conns, Register(c) PROVE Kept
  <2>1. /\ UNCHANGED <<run, closed, written>> /\ clients' = clients \cup {c}
        /\ serve[c] = "register" /\ serve'[d] = IF d = c THEN "read" ELSE serve[d]
    BY <1>0, <1>5 DEF Register
  <2> QED BY <1>0, <2>1 DEF Served
<1>6. ASSUME NEW c \in Conns, Unregister(c) PROVE Kept
  <2>1. /\ UNCHANGED <<run, written>> /\ clients' = clients \ {c} /\ run.pc = "select"
        /\ closed' = closed \cup ({c} \cap clients)
        /\ serve'[d] = IF d = c THEN "returned" ELSE serve[d]
    BY <1>0, <1>6 DEF Unregister
  <2> QED BY <1>0, <2>1 DEF Served
<1> QED BY <1>1, <1>2, <1>3, <1>4, <1>5, <1>6, Steps

-----------------------------------------------------------------------------
(* What a connection has been written.                                     *)

(* The steps that write nothing and let nobody join.                       *)
LEMMA Unwritten ==
  ASSUME [Next]_vars
  PROVE  \/ UNCHANGED <<written, joined>>
         \/ \E c \in Conns : Write(c) \/ Register(c)
  BY Steps, OutsideFrame
     DEF Arrive, Pipe, Take, WriteDone, WriteFails, Unregister, vars

LEMMA NextNoGaps == HubInv /\ [Next]_vars => NoGaps'
<1> SUFFICES ASSUME HubInv, [Next]_vars, NEW d \in Conns
             PROVE  written'[d] = [i \in DOMAIN written'[d] |-> joined'[d] + i]
  BY DEF NoGaps
<1> DEFINE Gapless == written'[d] = [i \in DOMAIN written'[d] |-> joined'[d] + i]
<1>0. /\ written \in [Conns -> Seq(1..MaxUpdates)] /\ joined \in [Conns -> 0..MaxUpdates]
      /\ piped \in Nat /\ broadcast \in Seq(1..MaxUpdates) /\ Len(broadcast) \in Nat
      /\ Taken = piped - Len(broadcast)
  BY DEF HubInv, TypeOK, Taken
<1>1. written[d] = [i \in DOMAIN written[d] |-> joined[d] + i]
  BY DEF HubInv, NoGaps
<1>2. CASE UNCHANGED <<written, joined>>
  BY <1>1, <1>2
<1>3. ASSUME NEW c \in Conns, Register(c) PROVE Gapless
  <2>1. written' = written /\ (d # c => joined'[d] = joined[d])
    BY <1>0, <1>3 DEF Register
  <2>2. d = c => written[d] = << >>
    BY <1>3 DEF Register, HubInv, ClientInv
  <2>3. CASE d # c
    BY <1>1, <2>1, <2>3
  <2>4. CASE d = c
    <3>1. written'[d] = << >> /\ DOMAIN written'[d] = {}
      BY <2>1, <2>2, <2>4
    <3> QED BY <3>1
  <2> QED BY <2>3, <2>4
<1>4. ASSUME NEW c \in Conns, Write(c) PROVE Gapless
  <2>1. joined' = joined /\ written' = [written EXCEPT ![c] = Append(@, run.msg)]
    BY <1>4 DEF Write
  <2>2. CASE d # c
    <3>1. written'[d] = written[d]
      BY <1>0, <2>1, <2>2
    <3> QED BY <1>1, <2>1, <3>1
  <2>3. CASE d = c
    <3> DEFINE w == written[d]
               n == Len(written[d])
    <3>1. /\ run.pc = "write" /\ d \in run.left /\ Served(d) /\ run.msg = Taken
          /\ run.msg \in 1..MaxUpdates
      BY <1>4, <2>3 DEF Write, HubInv, ClientInv, RunInv, TypeOK
    <3>2. w \in Seq(1..MaxUpdates) /\ n \in Nat /\ DOMAIN w = 1..n /\ joined[d] \in Nat
      BY <1>0
    <3>3. joined[d] + n = Taken - 1
      BY <3>1 DEF HubInv, NoLag, Served
    <3>4. written'[d] = Append(w, run.msg)
      BY <1>0, <2>1, <2>3
    <3> HIDE DEF w, n
    <3>5. run.msg = joined[d] + (n + 1)
      <4>1. run.msg \in Nat /\ joined[d] + n = run.msg - 1
        BY <3>1, <3>3
      <4> QED BY <3>2, <4>1
    <3>6. \A i \in 1..n : w[i] = joined[d] + i
      BY <1>1, <3>2 DEF w
    <3>7. Len(w) = n
      BY DEF w, n
    <3>8. /\ Append(w, run.msg) \in Seq(1..MaxUpdates) /\ Len(Append(w, run.msg)) = n + 1
          /\ \A i \in 1..n + 1 :
                Append(w, run.msg)[i] = IF i = n + 1 THEN run.msg ELSE w[i]
      BY <3>1, <3>2, <3>7, AppendFacts
    <3>9. \A i \in 1..n + 1 : Append(w, run.msg)[i] = joined[d] + i
      <4> TAKE i \in 1..n + 1
      <4>1. CASE i = n + 1
        BY <3>5, <3>8, <4>1
      <4>2. CASE i # n + 1
        <5>1. i \in 1..n
          BY <3>2, <4>2
        <5> QED BY <3>6, <3>8, <4>2, <5>1
      <4> QED BY <4>1, <4>2
    <3>10. Append(w, run.msg) = [i \in 1..n + 1 |-> joined[d] + i]
      BY <3>2, <3>8, <3>9
    <3> QED BY <2>1, <3>2, <3>4, <3>8, <3>10
  <2> QED BY <2>2, <2>3
<1> QED BY <1>2, <1>3, <1>4, Unwritten

LEMMA NextNoLag == HubInv /\ [Next]_vars => NoLag'
<1> SUFFICES ASSUME HubInv, [Next]_vars, run'.pc # "self-unregister",
                    NEW d \in Conns, Served(d)'
             PROVE  joined'[d] + Len(written'[d]) = IF d \in run'.left THEN Taken' - 1 ELSE Taken'
  BY DEF NoLag, Served
<1> DEFINE InStep ==
      joined'[d] + Len(written'[d]) = IF d \in run'.left THEN Taken' - 1 ELSE Taken'
<1>0. /\ written \in [Conns -> Seq(1..MaxUpdates)] /\ joined \in [Conns -> 0..MaxUpdates]
      /\ Len(written[d]) \in Nat /\ joined[d] \in Nat
      /\ serve \in [Conns -> {"none", "register", "read", "unregister", "returned"}]
      /\ run \in [pc : {"select", "write", "self-unregister"}, msg : 0..MaxUpdates,
                  left : SUBSET Conns]
      /\ Taken \in Int
  BY DEF HubInv, TypeOK, Taken
<1>1. Taken' = IF Take THEN Taken + 1 ELSE Taken
  BY NextQueue DEF HubInv
<1>2. /\ run.pc # "self-unregister" /\ Served(d) =>
           joined[d] + Len(written[d]) = IF d \in run.left THEN Taken - 1 ELSE Taken
      /\ d \in clients <=> Served(d)
      /\ run.pc = "select" => run.left = {}
      /\ d \in run.left => d \in clients
      /\ serve[d] \in {"none", "register"} => written[d] = << >>
  BY DEF HubInv, NoLag, ClientInv, RunInv, Served
<1>3. CASE Take
  <2>1. /\ run.pc = "select" /\ run'.left = clients
        /\ UNCHANGED <<serve, written, joined>>
    BY <1>3 DEF Take, connVars
  <2>2. Served(d) /\ Taken' = Taken + 1
    BY <1>1, <1>3, <2>1 DEF Served
  <2> QED BY <1>0, <1>2, <2>1, <2>2
<1>4. CASE Arrive \/ Pipe \/ UNCHANGED vars
  <2>1. UNCHANGED <<run, serve, written, joined>>
    BY <1>4 DEF Arrive, Pipe, vars, connVars
  <2>2. Take => run'.pc = "write" /\ run.pc = "select"
    BY DEF Take
  <2>3. Served(d) /\ Taken' = Taken
    BY <1>1, <2>1, <2>2 DEF Served
  <2> QED BY <1>2, <2>1, <2>3
<1>5. CASE WriteDone
  <2>1. /\ run.pc = "write" /\ run.left = {} /\ run' = AtSelect
        /\ UNCHANGED <<serve, written, joined>>
    BY <1>5 DEF WriteDone, connVars
  <2>2. ~Take /\ Served(d) /\ run'.left = {}
    BY <2>1 DEF Take, AtSelect, Served
  <2> QED BY <1>1, <1>2, <2>1, <2>2
<1>6. ASSUME NEW c \in Conns, Write(c) PROVE InStep
  <2>1. /\ run.pc = "write" /\ c \in run.left /\ run'.left = run.left \ {c}
        /\ written' = [written EXCEPT ![c] = Append(@, run.msg)]
        /\ UNCHANGED <<serve, joined>> /\ ~Take
    BY <1>0, <1>6 DEF Write, Written, connVars, Take
  <2>2. joined[d] + Len(written[d]) = IF d \in run.left THEN Taken - 1 ELSE Taken
    BY <1>2, <2>1 DEF Served
  <2>3. CASE d = c
    <3>1. run.msg \in 1..MaxUpdates
      BY <2>1 DEF HubInv, RunInv, TypeOK
    <3>2. Len(written'[d]) = Len(written[d]) + 1
      BY <1>0, <2>1, <2>3, <3>1, AppendFacts
    <3>3. d \notin run'.left /\ Taken' = Taken
      BY <1>1, <2>1, <2>3
    <3>4. joined'[d] + Len(written'[d]) = Taken
      <4>1. joined'[d] = joined[d] /\ joined[d] + Len(written[d]) = Taken - 1
        BY <2>1, <2>2, <2>3
      <4>2. Len(written[d]) \in Nat /\ joined[d] \in Nat /\ Taken \in Int
        BY <1>0
      <4> QED BY <3>2, <4>1, <4>2
    <3> QED BY <3>3, <3>4
  <2>4. CASE d # c
    <3>1. written'[d] = written[d]
      BY <1>0, <2>1, <2>4
    <3> QED BY <1>1, <2>1, <2>2, <2>4, <3>1
  <2> QED BY <2>3, <2>4
<1>7. ASSUME NEW c \in Conns, WriteFails(c) PROVE InStep
  BY <1>0, <1>7 DEF WriteFails
<1>8. ASSUME NEW c \in Conns, Outside(c) PROVE InStep
  <2>1. UNCHANGED <<run, broadcast, piped, written, joined>>
    BY <1>8, OutsideFrame
  <2>2. Served(d)
    BY <1>0, <1>8, OutsideServe DEF Served, HubInv
  <2>3. Taken' = Taken
    BY <2>1 DEF Taken
  <2> QED BY <1>2, <2>1, <2>2, <2>3
<1>9. ASSUME NEW c \in Conns, Register(c) PROVE InStep
  <2>1. /\ run.pc = "select" /\ UNCHANGED <<run, broadcast, piped, written>>
        /\ serve[c] = "register" /\ serve' = [serve EXCEPT ![c] = "read"]
        /\ joined' = [joined EXCEPT ![c] = Taken]
    BY <1>9 DEF Register, bridgeVars
  <2>2. Taken' = Taken
    BY <2>1 DEF Taken
  <2>3. CASE d = c
    <3>1. joined'[d] = Taken /\ written'[d] = << >> /\ run'.left = {}
      BY <1>0, <1>2, <2>1, <2>3
    <3>2. Len(written'[d]) = 0
      BY <3>1
    <3>3. d \notin run'.left
      BY <3>1
    <3>4. joined'[d] + Len(written'[d]) = Taken
      BY <1>0, <3>1, <3>2
    <3> QED BY <2>2, <3>3, <3>4
  <2>4. CASE d # c
    <3>1. joined'[d] = joined[d] /\ serve'[d] = serve[d]
      BY <1>0, <2>1, <2>4
    <3> QED BY <1>2, <2>1, <2>2, <3>1 DEF Served
  <2> QED BY <2>3, <2>4
<1>10. ASSUME NEW c \in Conns, Unregister(c) PROVE InStep
  <2>1. /\ UNCHANGED <<run, broadcast, piped, written, joined>>
        /\ serve' = [serve EXCEPT ![c] = "returned"]
    BY <1>10 DEF Unregister, bridgeVars
  <2>2. Taken' = Taken
    BY <2>1 DEF Taken
  <2>3. serve'[d] = IF d = c THEN "returned" ELSE serve[d]
    BY <1>0, <2>1
  <2>4. Served(d)
    BY <2>3 DEF Served
  <2> QED BY <1>2, <2>1, <2>2, <2>4
<1> QED BY <1>3, <1>4, <1>5, <1>6, <1>7, <1>8, <1>9, <1>10, Steps

-----------------------------------------------------------------------------
(* The theorems.                                                           *)

(* HubInv is an invariant.                                                 *)
LEMMA HubFollowed == Spec => []HubInv
<1>1. Init => HubInv
  <2> SUFFICES ASSUME Init PROVE HubInv
    OBVIOUS
  <2>1. TypeOK
    BY DEF Init, TypeOK, AtSelect
  <2>2. Len(broadcast) = 0 /\ piped = 0 /\ Taken = 0
    <3>1. broadcast = << >> /\ piped = 0
      BY DEF Init
    <3>2. Len(broadcast) = 0
      BY <3>1
    <3>3. Taken = 0 - 0
      BY <3>1, <3>2 DEF Taken
    <3> QED BY <3>1, <3>2, <3>3
  <2>3. QueueInv
    BY <2>2 DEF QueueInv
  <2>4. RunInv /\ ClientInv /\ NoLag
    BY DEF Init, RunInv, ClientInv, NoLag, AtSelect, Served
  <2>5. NoGaps
    BY DEF Init, NoGaps
  <2> QED BY <2>1, <2>3, <2>4, <2>5 DEF HubInv
<1>2. HubInv /\ [Next]_vars => HubInv'
  BY NextType, NextQueue, NextClient, NextNoGaps, NextNoLag DEF HubInv
<1> QED BY <1>1, <1>2, PTL DEF Spec

(* The shape of the state is an invariant, for any number of connections.  *)
THEOREM TypeCorrect == Spec => []TypeOK
<1>1. HubInv => TypeOK
  BY DEF HubInv
<1> QED BY <1>1, HubFollowed, PTL

(* What a connection has been written is a gapless, ordered run of the     *)
(* updates from the one after it joined on, whoever joins, leaves, stalls  *)
(* or fails meanwhile.                                                     *)
THEOREM UpdatesGapless == Spec => []NoGaps
<1>1. HubInv => NoGaps
  BY DEF HubInv
<1> QED BY <1>1, HubFollowed, PTL

(* Run leaves no registered connection behind: until a write fails, each   *)
(* has been written all that was taken since it joined, but for the update *)
(* in hand.                                                                *)
THEOREM NobodyLags == Spec => []NoLag
<1>1. HubInv => NoLag
  BY DEF HubInv
<1> QED BY <1>1, HubFollowed, PTL

(* Run has no connection in its map or its snapshot whose ServeWs never    *)
(* registered it or has returned, and writes to no closed one.             *)
THEOREM OnlyServedWritten == Spec => []ClientsServed
<1>1. HubInv => ClientsServed
  <2> SUFFICES ASSUME HubInv, NEW c \in clients \cup run.left
               PROVE  Served(c) /\ c \notin closed
    BY DEF ClientsServed, Served
  <2>1. c \in Conns
    BY DEF HubInv, TypeOK
  <2> QED BY <2>1 DEF HubInv, ClientInv, Served
<1> QED BY <1>1, HubFollowed, PTL
=============================================================================
