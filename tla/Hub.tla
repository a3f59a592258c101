-------------------------------- MODULE Hub --------------------------------
(***************************************************************************)
(* The live-update hub of one instance of the service (ws/hub.go,          *)
(* ws/bridge.go): the bridge goroutine pipes updates of the broker into a  *)
(* buffered channel, Hub.Run takes them out and writes each to every       *)
(* registered WebSocket, and one ServeWs goroutine per connection          *)
(* registers it, reads until the peer is gone and unregisters it.          *)
(*                                                                         *)
(* Register and Unregister are unbuffered channels: the goroutine that     *)
(* sends waits until Run receives, one step of both.  Run is one goroutine *)
(* and receives only in its select.                                        *)
(* Operators named Bug... are mutants of the definition after them.        *)
(***************************************************************************)
EXTENDS Integers, Sequences, FiniteSets

CONSTANTS
  Conns,          \* WebSocket connections, each opened once
  BroadcastCap,   \* capacity of the Broadcast channel (256 in the code)
  MaxUpdates,     \* bound: updates published in a behaviour
  Peers           \* what the peers do: "leave", "stall", and "fail" (a write to a peer that
                  \* has left may return an error)

ASSUME HubAssumption == BroadcastCap \in Nat /\ MaxUpdates \in Nat

VARIABLES
  updates,    \* number of updates the broker has sent this instance; an update is its index
  piped,      \* number of updates the bridge has put into Broadcast
  broadcast,  \* the Broadcast channel
  clients,    \* Hub.Clients
  run,        \* Hub.Run: where it is, the update in hand and the snapshot left to write
  serve,      \* serve[c]: where ServeWs of connection c is
  peer,       \* peer[c]: "live", "stalled" (reads nothing) or "gone"
  closed,     \* connections Run has closed
  written,    \* written[c]: updates written to c without error
  joined      \* history: the last update taken from Broadcast before c registered

bridgeVars == <<updates, piped>>
connVars == <<serve, peer, closed>>
vars == <<bridgeVars, broadcast, clients, run, connVars, written, joined>>

AtSelect == [pc |-> "select", msg |-> 0, left |-> {}]

Init ==
  /\ updates = 0 /\ piped = 0 /\ broadcast = << >>
  /\ clients = {} /\ run = AtSelect
  /\ serve = [c \in Conns |-> "none"] /\ peer = [c \in Conns |-> "live"]
  /\ closed = {} /\ written = [c \in Conns |-> << >>] /\ joined = [c \in Conns |-> 0]

Taken == piped - Len(broadcast)    \* updates Run has taken from Broadcast

-----------------------------------------------------------------------------
(* The broker's fanout exchange hands the exclusive queue another update.  *)
Arrive ==
  /\ updates < MaxUpdates /\ updates' = updates + 1
  /\ UNCHANGED <<piped, broadcast, clients, run, connVars, written, joined>>

BugPipeUnbounded ==
  /\ piped < updates /\ piped' = piped + 1
  /\ broadcast' = Append(broadcast, piped')
  /\ UNCHANGED <<updates, clients, run, connVars, written, joined>>

BugPipe ==
  /\ piped < updates /\ piped' = piped + 1
  /\ broadcast' = IF Len(broadcast) < BroadcastCap THEN Append(broadcast, piped') ELSE broadcast
  /\ UNCHANGED <<updates, clients, run, connVars, written, joined>>

(* hub.Broadcast <- d.Body waits while the channel is full.                *)
Pipe ==
  /\ piped < updates /\ Len(broadcast) < BroadcastCap
  /\ piped' = piped + 1
  /\ broadcast' = Append(broadcast, piped')
  /\ UNCHANGED <<updates, clients, run, connVars, written, joined>>

-----------------------------------------------------------------------------
(* ServeWs                                                                 *)

(* The connection is upgraded and waits to register.                       *)
Upgrade(c) ==
  /\ serve[c] = "none" /\ serve' = [serve EXCEPT ![c] = "register"]
  /\ UNCHANGED <<bridgeVars, broadcast, clients, run, peer, closed, written, joined>>

(* ReadMessage fails: the peer is gone or Run has closed the socket.       *)
ReadFails(c) ==
  /\ serve[c] = "read" /\ (peer[c] = "gone" \/ c \in closed)
  /\ serve' = [serve EXCEPT ![c] = "unregister"]
  /\ UNCHANGED <<bridgeVars, broadcast, clients, run, peer, closed, written, joined>>

-----------------------------------------------------------------------------
(* Run                                                                     *)

BugRegister(c) ==
  /\ run.pc = "select" /\ serve[c] = "register"
  /\ clients' = {c}
  /\ serve' = [serve EXCEPT ![c] = "read"]
  /\ joined' = [joined EXCEPT ![c] = Taken]
  /\ UNCHANGED <<bridgeVars, broadcast, run, peer, closed, written>>

Register(c) ==
  /\ run.pc = "select" /\ serve[c] = "register"
  /\ clients' = clients \cup {c}
  /\ serve' = [serve EXCEPT ![c] = "read"]
  /\ joined' = [joined EXCEPT ![c] = Taken]
  /\ UNCHANGED <<bridgeVars, broadcast, run, peer, closed, written>>

BugUnregister(c) ==
  /\ run.pc = "select" /\ serve[c] = "unregister"
  /\ closed' = closed \cup ({c} \cap clients)
  /\ serve' = [serve EXCEPT ![c] = "returned"]
  /\ UNCHANGED <<bridgeVars, clients, broadcast, run, peer, written, joined>>

Unregister(c) ==
  /\ run.pc = "select" /\ serve[c] = "unregister"
  /\ clients' = clients \ {c}
  /\ closed' = closed \cup ({c} \cap clients)
  /\ serve' = [serve EXCEPT ![c] = "returned"]
  /\ UNCHANGED <<bridgeVars, broadcast, run, peer, written, joined>>

(* An update is taken and the clients of this moment are copied.           *)
Take ==
  /\ run.pc = "select" /\ broadcast # << >>
  /\ broadcast' = Tail(broadcast)
  /\ run' = [pc |-> "write", msg |-> Head(broadcast), left |-> clients]
  /\ UNCHANGED <<bridgeVars, clients, connVars, written, joined>>

Written(c) == run' = [run EXCEPT !.left = @ \ {c}]

(* WriteMessage returns nil: the peer reads it, or the socket of a peer    *)
(* that has left still takes it.  Map iteration fixes no order.            *)
Write(c) ==
  /\ run.pc = "write" /\ c \in run.left /\ c \notin closed
  /\ peer[c] # "stalled"
  /\ Written(c)
  /\ written' = [written EXCEPT ![c] = Append(@, run.msg)]
  /\ UNCHANGED <<bridgeVars, broadcast, clients, connVars, joined>>

(* WriteMessage returns an error, and Run sends on h.Unregister, which     *)
(* only Run itself receives from.                                          *)
WriteFails(c) ==
  /\ run.pc = "write" /\ c \in run.left
  /\ c \in closed \/ (peer[c] = "gone" /\ "fail" \in Peers)
  /\ run' = [run EXCEPT !.pc = "self-unregister", !.left = @ \ {c}]
  /\ UNCHANGED <<bridgeVars, broadcast, clients, connVars, written, joined>>

(* Every client of the snapshot was written to.                            *)
WriteDone ==
  /\ run.pc = "write" /\ run.left = {}
  /\ run' = AtSelect
  /\ UNCHANGED <<bridgeVars, broadcast, clients, connVars, written, joined>>

-----------------------------------------------------------------------------
(* The peers.  A write to a peer that does not read blocks: the code sets  *)
(* no write deadline.                                                      *)
Leave(c) ==
  /\ "leave" \in Peers /\ serve[c] # "none" /\ peer[c] # "gone"
  /\ peer' = [peer EXCEPT ![c] = "gone"]
  /\ UNCHANGED <<bridgeVars, broadcast, clients, run, serve, closed, written, joined>>

Stall(c) ==
  /\ "stall" \in Peers /\ serve[c] # "none" /\ peer[c] = "live"
  /\ peer' = [peer EXCEPT ![c] = "stalled"]
  /\ UNCHANGED <<bridgeVars, broadcast, clients, run, serve, closed, written, joined>>

Resume(c) ==
  /\ peer[c] = "stalled" /\ peer' = [peer EXCEPT ![c] = "live"]
  /\ UNCHANGED <<bridgeVars, broadcast, clients, run, serve, closed, written, joined>>

Run == Take \/ WriteDone \/ \E c \in Conns : Write(c) \/ WriteFails(c)

Next ==
  \/ Arrive \/ Pipe \/ Run
  \/ \E c \in Conns : \/ Upgrade(c) \/ ReadFails(c) \/ Register(c) \/ Unregister(c)
                      \/ Leave(c) \/ Stall(c) \/ Resume(c)

Spec == Init /\ [][Next]_vars

(* Goroutines are scheduled, and select picks among its ready cases at     *)
(* random, so a case that is ready again and again is taken in the end:    *)
(* strong fairness, because no case is taken while Run writes.  A stalled  *)
(* peer resumes, and a blocked write returns once the peer reads again.    *)
(* Peers owe nothing else.                                                 *)
FairSpec ==
  /\ Spec /\ WF_vars(Pipe) /\ SF_vars(Take) /\ WF_vars(WriteDone)
  /\ \A c \in Conns :
       /\ SF_vars(Write(c)) /\ WF_vars(WriteFails(c)) /\ WF_vars(ReadFails(c))
       /\ SF_vars(Register(c)) /\ SF_vars(Unregister(c)) /\ WF_vars(Resume(c))

-----------------------------------------------------------------------------
(* The shape of the state.                                                 *)
TypeOK ==
  /\ updates \in 0..MaxUpdates /\ piped \in 0..updates
  /\ broadcast \in Seq(1..MaxUpdates) /\ Len(broadcast) <= BroadcastCap
  /\ clients \subseteq Conns /\ closed \subseteq Conns
  /\ run \in [pc : {"select", "write", "self-unregister"}, msg : 0..MaxUpdates,
              left : SUBSET Conns]
  /\ serve \in [Conns -> {"none", "register", "read", "unregister", "returned"}]
  /\ peer \in [Conns -> {"live", "stalled", "gone"}]
  /\ written \in [Conns -> Seq(1..MaxUpdates)] /\ joined \in [Conns -> 0..MaxUpdates]

(* What a connection has been written is a gapless run of the updates, in  *)
(* their order, from the one after it registered on: joining, leaving and  *)
(* slow connections of others, a full channel and the random order of the  *)
(* writes neither lose, repeat nor reorder an update for it.               *)
NoGaps ==
  \A c \in Conns : written[c] = [i \in DOMAIN written[c] |-> joined[c] + i]

(* Run drops no registered connection from a broadcast: each one has been  *)
(* written all that was taken since it registered, but for the update in   *)
(* hand, until a write fails.                                              *)
NoLag ==
  run.pc # "self-unregister" => \A c \in Conns : serve[c] \in {"read", "unregister"} =>
    joined[c] + Len(written[c]) = IF c \in run.left THEN Taken - 1 ELSE Taken

(* Run never has a connection in its map or snapshot whose ServeWs has     *)
(* returned or never registered, so no entry outlives its connection and   *)
(* no write goes to a closed one.                                          *)
ClientsServed ==
  \A c \in clients \cup run.left : serve[c] \in {"read", "unregister"} /\ c \notin closed

(* Broadcasting does not block the hub (ws/hub.go:54): Run always gets     *)
(* back to its select.                                                     *)
HubReturns == (run.pc # "select") ~> (run.pc = "select")

(* Every update reaches every connection registered before it was          *)
(* published, unless the connection leaves or the hub blocks for good.     *)
UpdatesArrive ==
  \A c \in Conns, n \in 1..MaxUpdates :
    (c \in clients /\ updates = n /\ joined[c] < n)
      ~> (joined[c] + Len(written[c]) >= n \/ peer[c] = "gone" \/ run.pc = "self-unregister")

(* A connection whose peer is gone leaves the map and its ServeWs returns, *)
(* unless the hub blocks for good.                                         *)
GoneIsForgotten ==
  \A c \in Conns :
    (peer[c] = "gone")
      ~> ((serve[c] = "returned" /\ c \notin clients) \/ run.pc = "self-unregister")
=============================================================================
