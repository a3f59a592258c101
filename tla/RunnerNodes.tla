---------------------------- MODULE RunnerNodes ----------------------------
(***************************************************************************)
(* The node runners of one instance of the service: the rows of            *)
(* runner_nodes (db/repositories/noderunner_repo.go), the endpoints that   *)
(* move an account from registering over activating and staking to its     *)
(* dashboard (controllers/noderunner.go, services/noderunner_service.go)   *)
(* and the registry in memory of the nodes that sent a heartbeat in the    *)
(* last five minutes (services/registry.go).                               *)
(*                                                                         *)
(* A row is found by its unique node key when it is registered, and by the *)
(* wallet of its owner ever after: any account may register a known key    *)
(* for any wallet, which moves the row there.  A heartbeat is three steps  *)
(* (mark the rows, read one, put it into memory); every other endpoint     *)
(* changes the rows by one statement.  Times are ages, counted up to       *)
(* Window + 1.                                                             *)
(* Operators named Bug... are mutants of the definition after them.        *)
(***************************************************************************)
EXTENDS Integers, FiniteSets

CONSTANTS
  Accounts,     \* emails of signed-in accounts
  Owners,       \* wallets
  Nodes,        \* node keys
  Claims,       \* what clients register: the account, the wallet and the node key
  Places,       \* region and coordinates
  NoRow, NoPda, NoEntry,
  Handlers,     \* goroutines that serve heartbeats
  Window,       \* ticks in five minutes
  MaxChanges    \* bound: changes of the rows in a behaviour

ASSUME ClaimAssumption == Claims \subseteq [email : Accounts, owner : Owners, node : Nodes]
ASSUME WindowAssumption == Window \in Nat /\ MaxChanges \in Nat
ASSUME NoneAssumption ==
  /\ NoPda \notin Owners \X Accounts
  /\ NoRow \notin [email : Accounts, owner : Owners, place : Places,
                   pda : (Owners \X Accounts) \cup {NoPda}, validator : BOOLEAN,
                   age : 0..Window + 1, born : Nat, moved : BOOLEAN]
  /\ NoEntry \notin [email : Accounts, place : Places, age : 0..Window + 1,
                     began : 0..Window + 1]

VARIABLES
  row,        \* runner_nodes, by node key; `age' is that of last_seen_timestamp, and
              \* `moved' (history) says that the row went to another wallet after its
              \* address was written
  memory,     \* MemoryRegistry.nodes, by wallet; `age' is that of LastSeen, and `began'
              \* (history) the age of the heartbeat that put the entry there
  beat,       \* beat[h]: where Heartbeat served by h is
  changes,    \* changes of the rows so far
  tracked     \* history: the age of the last tracked heartbeat of a wallet

vars == <<row, memory, beat, changes, tracked>>

Ages == 0..Window + 1
Older(age) == IF age > Window THEN age ELSE age + 1
Never == Window + 1

Quiet == [pc |-> "idle", owner |-> "none", began |-> 0, email |-> "none", place |-> "none"]

Init ==
  /\ row = [k \in Nodes |-> NoRow]
  /\ memory = [o \in Owners |-> NoEntry]
  /\ beat = [h \in Handlers |-> Quiet]
  /\ changes = 0 /\ tracked = [o \in Owners |-> Never]

RowsOf(o) == {k \in Nodes : row[k] # NoRow /\ row[k].owner = o}
OwnRows(e, o) == {k \in RowsOf(o) : row[k].email = e}

(* DeriveNodePDA: the address the program gives the node of a wallet and   *)
(* an email; another pair has another address.                             *)
Derive(o, e) == <<o, e>>

-----------------------------------------------------------------------------
(* The endpoints that change rows.                                         *)

Change == changes < MaxChanges /\ changes' = changes + 1
Update(keys, F(_)) == row' = [k \in Nodes |-> IF k \in keys THEN F(row[k]) ELSE row[k]]

NewRow(c, place) ==
  [email |-> c.email, owner |-> c.owner, place |-> place, pda |-> NoPda,
   validator |-> FALSE, age |-> 0, born |-> changes, moved |-> FALSE]

Replaced(r, c, place) ==
  [r EXCEPT !.owner = c.owner, !.place = place, !.age = 0, !.moved = @ \/ r.owner # c.owner]

BugRegister(c, place) ==
  /\ Change /\ row' = [row EXCEPT ![c.node] = NewRow(c, place)]
  /\ UNCHANGED <<memory, beat, tracked>>

(* Register inserts the row of a node key, or moves the row there is to    *)
(* the wallet and place of the request; email, address and stake stay.     *)
Register(c, place) ==
  /\ Change
  /\ row' = [row EXCEPT ![c.node] =
       IF @ = NoRow THEN NewRow(c, place)
       ELSE Replaced(@, c, place)]
  /\ UNCHANGED <<memory, beat, tracked>>

BugActivate(e, o) ==
  /\ Change /\ OwnRows(e, o) # {}
  /\ Update(RowsOf(o), LAMBDA r : [r EXCEPT !.pda = Derive(o, e)])
  /\ UNCHANGED <<memory, beat, tracked>>

(* ActivateNode: the address must be the derived one, and is written to    *)
(* every row of the wallet and the email; none is an error.                *)
Activate(e, o) ==
  /\ Change /\ OwnRows(e, o) # {}
  /\ Update(OwnRows(e, o), LAMBDA r : [r EXCEPT !.pda = Derive(o, e), !.moved = FALSE])
  /\ UNCHANGED <<memory, beat, tracked>>

(* UpdateStake and UpdateUnstake, as far as is_validator goes: it is       *)
(* computed for each row of the wallet from the stake of that row, which   *)
(* depends on when the row was registered and moved; any of them come out  *)
(* as validators.                                                          *)
SetValidator(o, valid) ==
  /\ Change /\ RowsOf(o) # {}
  /\ row' = [k \in Nodes |->
       IF k \in RowsOf(o) THEN [row[k] EXCEPT !.validator = k \in valid] ELSE row[k]]
  /\ UNCHANGED <<memory, beat, tracked>>

(* CompletelyDeleteNode: a DELETE of all rows of the wallet.               *)
Delete(o) ==
  /\ Change /\ RowsOf(o) # {}
  /\ Update(RowsOf(o), LAMBDA r : NoRow)
  /\ UNCHANGED <<memory, beat, tracked>>

-----------------------------------------------------------------------------
(* Heartbeat.                                                              *)

Beat(h, o) ==
  /\ beat[h].pc = "idle"
  /\ beat' = [beat EXCEPT ![h] = [Quiet EXCEPT !.pc = "update", !.owner = o]]
  /\ UNCHANGED <<row, memory, changes, tracked>>

BugUpdateHeartbeat(h) ==
  /\ beat[h].pc = "update" /\ beat' = [beat EXCEPT ![h].pc = "find"]
  /\ UNCHANGED <<row, memory, changes, tracked>>

(* UpdateHeartbeat marks every row of the wallet; that there is none is no *)
(* error.                                                                  *)
UpdateHeartbeat(h) ==
  /\ beat[h].pc = "update"
  /\ Update(RowsOf(beat[h].owner), LAMBDA r : [r EXCEPT !.age = 0])
  /\ beat' = [beat EXCEPT ![h].pc = "find"]
  /\ UNCHANGED <<memory, changes, tracked>>

BugFindByPubkey(h) ==
  LET found == RowsOf(beat[h].owner)
  IN  /\ beat[h].pc = "find"
      /\ IF found = {} THEN beat' = [beat EXCEPT ![h].pc = "track"]
         ELSE \E k \in found :
           beat' = [beat EXCEPT ![h].pc = "track", ![h].email = row[k].email,
                                ![h].place = row[k].place]
      /\ UNCHANGED <<row, memory, changes, tracked>>

(* FindByPubkey reads the first of the rows; none ends the heartbeat.      *)
FindByPubkey(h) ==
  LET found == RowsOf(beat[h].owner)
  IN  /\ beat[h].pc = "find"
      /\ IF found = {} THEN beat' = [beat EXCEPT ![h] = Quiet]
         ELSE \E k \in found :
           beat' = [beat EXCEPT ![h].pc = "track", ![h].email = row[k].email,
                                ![h].place = row[k].place]
      /\ UNCHANGED <<row, memory, changes, tracked>>

(* TrackHeartbeat writes the whole entry, under the registry's lock.       *)
TrackHeartbeat(h) ==
  /\ beat[h].pc = "track"
  /\ memory' = [memory EXCEPT ![beat[h].owner] =
       [email |-> beat[h].email, place |-> beat[h].place, age |-> 0, began |-> beat[h].began]]
  /\ tracked' = [tracked EXCEPT ![beat[h].owner] = 0]
  /\ beat' = [beat EXCEPT ![h] = Quiet]
  /\ UNCHANGED <<row, changes>>

(* A database call of the heartbeat fails.                                 *)
BeatFails(h) ==
  /\ beat[h].pc \in {"update", "find"} /\ beat' = [beat EXCEPT ![h] = Quiet]
  /\ UNCHANGED <<row, memory, changes, tracked>>

-----------------------------------------------------------------------------
(* The registry.                                                           *)

BugStale(o) == memory[o] # NoEntry /\ memory[o].age >= Window
Stale(o) == memory[o] # NoEntry /\ memory[o].age > Window

(* One pass of startEvictionLoop.                                          *)
Evict ==
  /\ \E o \in Owners : Stale(o)
  /\ memory' = [o \in Owners |-> IF Stale(o) THEN NoEntry ELSE memory[o]]
  /\ UNCHANGED <<row, beat, changes, tracked>>

(* GetOnlineNodes.                                                         *)
Online == {o \in Owners : memory[o] # NoEntry /\ memory[o].age <= Window}

(* The process dies and comes back with an empty registry.                 *)
Restart ==
  /\ memory' = [o \in Owners |-> NoEntry]
  /\ beat' = [h \in Handlers |-> Quiet]
  /\ tracked' = [o \in Owners |-> Never]
  /\ UNCHANGED <<row, changes>>

Tick ==
  /\ row' = [k \in Nodes |-> IF row[k] = NoRow THEN NoRow ELSE [row[k] EXCEPT !.age = Older(@)]]
  /\ memory' = [o \in Owners |->
       IF memory[o] = NoEntry THEN NoEntry
       ELSE [memory[o] EXCEPT !.age = Older(@), !.began = Older(@)]]
  /\ beat' = [h \in Handlers |->
       IF beat[h].pc = "idle" THEN beat[h] ELSE [beat[h] EXCEPT !.began = Older(@)]]
  /\ tracked' = [o \in Owners |-> Older(tracked[o])]
  /\ UNCHANGED changes

Serve(h) == UpdateHeartbeat(h) \/ FindByPubkey(h) \/ TrackHeartbeat(h)

Next ==
  \/ \E c \in Claims, place \in Places : Register(c, place)
  \/ \E o \in Owners : Delete(o) \/ (\E e \in Accounts : Activate(e, o))
                       \/ (\E valid \in SUBSET RowsOf(o) : SetValidator(o, valid))
  \/ \E h \in Handlers : Serve(h) \/ BeatFails(h) \/ (\E o \in Owners : Beat(h, o))
  \/ Evict \/ Restart \/ Tick

Spec == Init /\ [][Next]_vars

(* Time passes, heartbeats that began go on, the eviction loop runs.       *)
FairSpec == Spec /\ WF_vars(Tick) /\ WF_vars(Evict) /\ \A h \in Handlers : WF_vars(Serve(h))

-----------------------------------------------------------------------------
(* Me: the page an account is shown for a wallet, by its newest row.       *)

Newest(e, o) == CHOOSE k \in OwnRows(e, o) : \A j \in OwnRows(e, o) : row[j].born <= row[k].born

View(e, o) ==
  IF OwnRows(e, o) = {} THEN "register"
  ELSE IF row[Newest(e, o)].pda = NoPda THEN "activate"
  ELSE IF ~row[Newest(e, o)].validator THEN "stake" ELSE "dashboard"

Rank(view) ==
  CASE view = "register" -> 0 [] view = "activate" -> 1
    [] view = "stake" -> 2 [] view = "dashboard" -> 3

-----------------------------------------------------------------------------
Row == [email : Accounts, owner : Owners, place : Places,
        pda : (Owners \X Accounts) \cup {NoPda}, validator : BOOLEAN, age : Ages, born : Nat,
        moved : BOOLEAN]
Entry == [email : Accounts, place : Places, age : Ages, began : Ages]
Session == [pc : {"idle", "update", "find", "track"}, owner : Owners \cup {"none"}, began : Ages,
            email : Accounts \cup {"none"}, place : Places \cup {"none"}]

PlacedBeat(h) ==
  /\ beat[h].pc # "idle" => beat[h].owner \in Owners
  /\ beat[h].pc = "track" => beat[h].email \in Accounts /\ beat[h].place \in Places

(* The shape of the state.                                                 *)
TypeOK ==
  /\ row \in [Nodes -> Row \cup {NoRow}]
  /\ memory \in [Owners -> Entry \cup {NoEntry}]
  /\ beat \in [Handlers -> Session] /\ \A h \in Handlers : PlacedBeat(h)
  /\ changes \in Nat /\ tracked \in [Owners -> Ages]

(* A wallet is online exactly when one of its heartbeats was tracked in    *)
(* the last five minutes since the process started, whenever the eviction  *)
(* loop runs and however heartbeats overlap.                               *)
OnlineIsRecent == \A o \in Owners : o \in Online <=> tracked[o] <= Window

(* The database is never behind the registry: a row of a wallet that is in *)
(* memory was marked as seen no earlier than the heartbeat that put the    *)
(* wallet there began, whatever was registered or deleted meanwhile.       *)
DatabaseFirst ==
  \A o \in Owners : memory[o] # NoEntry =>
    \A k \in RowsOf(o) : row[k].age <= memory[o].began

(* An activated row carries the address of its own wallet and email, which *)
(* ActivateNode derives and compares (services/noderunner_service.go:76),  *)
(* unless its node key was registered for another wallet after that:       *)
(* nobody shares an address by sharing a wallet, and activating again      *)
(* after a move makes it fit again.                                        *)
PdaFits ==
  \A k \in Nodes : row[k] # NoRow /\ row[k].pda # NoPda =>
    row[k].moved \/ row[k].pda = Derive(row[k].owner, row[k].email)

(* The address fits also where the node key moved: the code never promises *)
(* it, and it does not.                                                    *)
PdaAlwaysFits ==
  \A k \in Nodes :
    row[k] # NoRow /\ row[k].pda # NoPda => row[k].pda = Derive(row[k].owner, row[k].email)

(* What takes an account back: its wallet's rows are deleted, the stake of *)
(* the node it is shown is withdrawn, or another node of it is newer.      *)
Fallback(e, o, w) ==
  \/ row[Newest(e, o)].validator /\ ~row'[Newest(e, o)].validator
  \/ Newest(e, w)' # Newest(e, o)

(* Nothing else does, whoever causes it: the node an account is shown      *)
(* stays its own and keeps its activation and its stake when any account   *)
(* registers its key again, activates or deletes other rows, or a          *)
(* heartbeat marks it.  A registration for another wallet w takes the row  *)
(* there: the account sees its progress by asking for w, and for o it is   *)
(* sent back to register.                                                  *)
ProgressKept ==
  [][\A e \in Accounts, o \in Owners : OwnRows(e, o) # {} =>
       \/ RowsOf(o)' = {} /\ row'[Newest(e, o)] = NoRow
       \/ \E w \in Owners :
            /\ Newest(e, o) \in OwnRows(e, w)'
            /\ Fallback(e, o, w) \/ Rank(View(e, w)') >= Rank(View(e, o))]_vars

(* A wallet whose rows are deleted goes offline, heartbeats it still sends *)
(* and the one that raced the delete notwithstanding.                      *)
DeletedGoesOffline ==
  \A o \in Owners : (RowsOf(o) = {}) ~> (o \notin Online \/ RowsOf(o) # {})
=============================================================================
