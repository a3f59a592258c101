-------------------------- MODULE RunnerNodesProofs --------------------------
(***************************************************************************)
(* Proofs about RunnerNodes: for any number of accounts, wallets, nodes,   *)
(* places and handlers and any length of the window, the registry tells    *)
(* who sent a heartbeat lately and is never ahead of the database, and     *)
(* activated and staked nodes keep their address and their progress,       *)
(* whichever accounts register which node keys for which wallets.          *)
(***************************************************************************)
EXTENDS RunnerNodes, WellFoundedInduction, TLAPS

USE WindowAssumption

-----------------------------------------------------------------------------
(* The inductive invariants.                                               *)

(* The age of an entry is that of the last tracked heartbeat, and only     *)
(* wallets without a recent one have no entry.                             *)
ClockInv ==
  \A o \in Owners :
    IF memory[o] = NoEntry THEN tracked[o] > Window ELSE memory[o].age = tracked[o]

(* The rows of a wallet are no older than a heartbeat that is past its     *)
(* UPDATE.                                                                 *)
BeatInv ==
  \A h \in Handlers : beat[h].pc \in {"find", "track"} =>
    \A k \in RowsOf(beat[h].owner) : row[k].age <= beat[h].began

SeenInv == BeatInv /\ DatabaseFirst

(* Rows are numbered by the changes made before them.                      *)
BornInv == \A k \in Nodes : row[k] # NoRow => row[k].born < changes

-----------------------------------------------------------------------------
(* Rows, entries and ages.                                                 *)

LEMMA NoneFacts ==
  NoRow \notin Row /\ NoEntry \notin Entry /\ NoPda \notin Owners \X Accounts
  BY NoneAssumption DEF Row, Entry, Ages

LEMMA RowTyped ==
  ASSUME TypeOK, NEW k \in Nodes, row[k] # NoRow
  PROVE  row[k] \in Row
  BY DEF TypeOK

LEMMA EntryTyped ==
  ASSUME TypeOK, NEW o \in Owners, memory[o] # NoEntry
  PROVE  memory[o] \in Entry
  BY DEF TypeOK

LEMMA OlderFacts ==
  /\ \A a \in Ages : Older(a) \in Ages /\ (Older(a) <= Window => a <= Window)
  /\ \A a, b \in Ages : a <= b => Older(a) <= Older(b)
  /\ \A a \in Ages : a > Window => Older(a) > Window
  BY DEF Ages, Older

-----------------------------------------------------------------------------
(* What each action does to the rows, key by key.                          *)

Registered(c, place, k) ==
  IF row[k] = NoRow THEN NewRow(c, place)
  ELSE Replaced(row[k], c, place)

(* Another wallet, place and time of an existing row.                      *)
LEMMA ReplacedEffect ==
  ASSUME NEW r \in Row, NEW c \in Claims, NEW place \in Places
  PROVE  /\ Replaced(r, c, place) \in Row
         /\ Replaced(r, c, place).owner = c.owner /\ Replaced(r, c, place).email = r.email
         /\ Replaced(r, c, place).born = r.born /\ Replaced(r, c, place).pda = r.pda
         /\ Replaced(r, c, place).age = 0
         /\ Replaced(r, c, place).moved = (r.moved \/ r.owner # c.owner)
<1>1. PICK m \in BOOLEAN : m = (r.moved \/ r.owner # c.owner)
  OBVIOUS
<1>2. Replaced(r, c, place) =
        [r EXCEPT !.owner = c.owner, !.place = place, !.age = 0, !.moved = m]
  BY <1>1, Zenon DEF Replaced
<1>3. c.owner \in Owners /\ 0 \in Ages
  BY ClaimAssumption DEF Ages
<1> HIDE DEF Replaced
<1> QED BY <1>1, <1>2, <1>3 DEF Row

LEMMA RegisterEffect ==
  ASSUME TypeOK, NEW c \in Claims, NEW place \in Places, Register(c, place)
  PROVE  /\ \A k \in Nodes :
              row'[k] = IF k = c.node THEN Registered(c, place, k) ELSE row[k]
         /\ row' \in [Nodes -> Row \cup {NoRow}] /\ c.node \in Nodes
<1>1. c.email \in Accounts /\ c.owner \in Owners /\ c.node \in Nodes
  BY ClaimAssumption
<1>2. row \in [Nodes -> Row \cup {NoRow}] /\ changes \in Nat
  BY DEF TypeOK
<1>3. row' = [row EXCEPT ![c.node] = Registered(c, place, c.node)]
  BY DEF Register, Registered
<1>4. Registered(c, place, c.node) \in Row
  <2>1. CASE row[c.node] = NoRow
    BY <1>1, <1>2, <2>1 DEF Registered, NewRow, Row, Ages
  <2>2. CASE row[c.node] # NoRow
    <3>1. row[c.node] \in Row
      BY <1>1, <1>2, <2>2
    <3> QED BY <2>2, <3>1, ReplacedEffect DEF Registered
  <2> QED BY <2>1, <2>2
<1> HIDE DEF Registered
<1> QED BY <1>1, <1>2, <1>3, <1>4

LEMMA ActivateEffect ==
  ASSUME TypeOK, NEW e \in Accounts, NEW o \in Owners, Activate(e, o)
  PROVE  /\ \A k \in Nodes : row'[k] = IF k \in OwnRows(e, o)
              THEN [row[k] EXCEPT !.pda = Derive(o, e), !.moved = FALSE] ELSE row[k]
         /\ row' \in [Nodes -> Row \cup {NoRow}]
<1>1. row \in [Nodes -> Row \cup {NoRow}]
  BY DEF TypeOK
<1>2. row' = [k \in Nodes |-> IF k \in OwnRows(e, o)
                THEN [row[k] EXCEPT !.pda = Derive(o, e), !.moved = FALSE] ELSE row[k]]
  BY DEF Activate, Update
<1>3. \A k \in OwnRows(e, o) : row[k] \in Row
  BY <1>1 DEF OwnRows, RowsOf
<1>4. \A k \in OwnRows(e, o) : [row[k] EXCEPT !.pda = Derive(o, e), !.moved = FALSE] \in Row
  BY <1>3 DEF Row, Derive
<1> QED BY <1>1, <1>2, <1>4

LEMMA ValidatorEffect ==
  ASSUME TypeOK, NEW o \in Owners, NEW valid \in SUBSET RowsOf(o), SetValidator(o, valid)
  PROVE  /\ \A k \in Nodes : row'[k] = IF k \in RowsOf(o)
              THEN [row[k] EXCEPT !.validator = k \in valid] ELSE row[k]
         /\ \A k \in RowsOf(o) : row'[k] \in Row
         /\ row' \in [Nodes -> Row \cup {NoRow}]
<1>1. row \in [Nodes -> Row \cup {NoRow}]
  BY DEF TypeOK
<1>2. row' = [k \in Nodes |-> IF k \in RowsOf(o)
                THEN [row[k] EXCEPT !.validator = k \in valid] ELSE row[k]]
  BY DEF SetValidator
<1>3. \A k \in RowsOf(o) : row[k] \in Row
  BY <1>1 DEF RowsOf
<1>4. ASSUME NEW k \in RowsOf(o) PROVE [row[k] EXCEPT !.validator = k \in valid] \in Row
  <2>1. PICK is \in BOOLEAN : is = (k \in valid)
    <3>1. CASE k \in valid
      <4>1. TRUE = (k \in valid)
        BY <3>1
      <4> QED BY <4>1, Zenon
    <3>2. CASE k \notin valid
      <4>1. FALSE = (k \in valid)
        BY <3>2
      <4> QED BY <4>1, Zenon
    <3> QED BY <3>1, <3>2
  <2>2. [row[k] EXCEPT !.validator = is] \in Row
    BY <1>3 DEF Row
  <2> QED BY <2>1, <2>2, Zenon
<1>5. RowsOf(o) \subseteq Nodes
  BY DEF RowsOf
<1> QED BY <1>1, <1>2, <1>4, <1>5

LEMMA DeleteEffect ==
  ASSUME TypeOK, NEW o \in Owners, Delete(o)
  PROVE  /\ \A k \in Nodes : row'[k] = IF k \in RowsOf(o) THEN NoRow ELSE row[k]
         /\ row' \in [Nodes -> Row \cup {NoRow}]
<1>1. row' = [k \in Nodes |-> IF k \in RowsOf(o) THEN NoRow ELSE row[k]]
  BY DEF Delete, Update
<1> QED BY <1>1 DEF TypeOK

LEMMA HeartbeatEffect ==
  ASSUME TypeOK, NEW h \in Handlers, UpdateHeartbeat(h)
  PROVE  /\ \A k \in Nodes : row'[k] = IF k \in RowsOf(beat[h].owner)
              THEN [row[k] EXCEPT !.age = 0] ELSE row[k]
         /\ row' \in [Nodes -> Row \cup {NoRow}]
<1>1. row \in [Nodes -> Row \cup {NoRow}] /\ 0 \in Ages
  BY DEF TypeOK, Ages
<1>2. row' = [k \in Nodes |-> IF k \in RowsOf(beat[h].owner)
                THEN [row[k] EXCEPT !.age = 0] ELSE row[k]]
  BY DEF UpdateHeartbeat, Update
<1>3. \A k \in RowsOf(beat[h].owner) : row[k] \in Row
  BY <1>1 DEF RowsOf
<1>4. \A k \in RowsOf(beat[h].owner) : [row[k] EXCEPT !.age = 0] \in Row
  BY <1>1, <1>3 DEF Row
<1> QED BY <1>1, <1>2, <1>4

LEMMA TickEffect ==
  ASSUME TypeOK, Tick
  PROVE  /\ \A k \in Nodes : row'[k] =
              IF row[k] = NoRow THEN NoRow ELSE [row[k] EXCEPT !.age = Older(@)]
         /\ row' \in [Nodes -> Row \cup {NoRow}]
<1>1. row \in [Nodes -> Row \cup {NoRow}]
  BY DEF TypeOK
<1>2. \A k \in Nodes : row[k] # NoRow => [row[k] EXCEPT !.age = Older(@)] \in Row
  BY <1>1, OlderFacts DEF Row
<1> QED BY <1>1, <1>2 DEF Tick

(* Every other step leaves the rows alone.                                 *)
LEMMA RowSteps ==
  ASSUME [Next]_vars
  PROVE  \/ row' = row \/ Tick
         \/ \E c \in Claims, place \in Places : Register(c, place)
         \/ \E o \in Owners : \/ Delete(o)
                              \/ \E e \in Accounts : Activate(e, o)
                              \/ \E valid \in SUBSET RowsOf(o) : SetValidator(o, valid)
         \/ \E h \in Handlers : UpdateHeartbeat(h)
  BY DEF Next, vars, Serve, FindByPubkey, TrackHeartbeat, BeatFails, Beat, Evict, Restart

-----------------------------------------------------------------------------
(* Type correctness.                                                       *)

BeatOK == beat \in [Handlers -> Session] /\ \A h \in Handlers : PlacedBeat(h)

LEMMA QuietType == Quiet \in Session /\ Quiet.pc = "idle"
  BY DEF Quiet, Session, Ages

(* A heartbeat that goes to a state in shape keeps them all in shape.      *)
LEMMA BeatMoves ==
  ASSUME TypeOK, NEW h \in Handlers, NEW b \in Session,
         beat' = [beat EXCEPT ![h] = b],
         b.pc # "idle" => b.owner \in Owners,
         b.pc = "track" => b.email \in Accounts /\ b.place \in Places
  PROVE  BeatOK'
<1>1. beat \in [Handlers -> Session] /\ \A g \in Handlers : PlacedBeat(g)
  BY DEF TypeOK
<1>2. \A g \in Handlers : beat'[g] = IF g = h THEN b ELSE beat[g]
  BY <1>1
<1>3. beat' \in [Handlers -> Session]
  BY <1>1
<1>4. ASSUME NEW g \in Handlers PROVE PlacedBeat(g)'
  <2>1. CASE g = h
    BY <1>2, <2>1 DEF PlacedBeat
  <2>2. CASE g # h
    BY <1>1, <1>2, <2>2 DEF PlacedBeat
  <2> QED BY <2>1, <2>2
<1> QED BY <1>3, <1>4 DEF BeatOK, Session

LEMMA RowsTyped ==
  ASSUME TypeOK, [Next]_vars
  PROVE  row' \in [Nodes -> Row \cup {NoRow}]
<1>1. CASE row' = row
  BY <1>1 DEF TypeOK
<1>2. CASE Tick
  BY <1>2, TickEffect
<1>3. ASSUME NEW c \in Claims, NEW place \in Places, Register(c, place)
      PROVE  row' \in [Nodes -> Row \cup {NoRow}]
  BY <1>3, RegisterEffect
<1>4. ASSUME NEW o \in Owners,
             Delete(o) \/ (\E e \in Accounts : Activate(e, o))
             \/ (\E valid \in SUBSET RowsOf(o) : SetValidator(o, valid))
      PROVE  row' \in [Nodes -> Row \cup {NoRow}]
  BY <1>4, DeleteEffect, ActivateEffect, ValidatorEffect
<1>5. ASSUME NEW h \in Handlers, UpdateHeartbeat(h)
      PROVE  row' \in [Nodes -> Row \cup {NoRow}]
  BY <1>5, HeartbeatEffect
<1> QED BY RowSteps, <1>1, <1>2, <1>3, <1>4, <1>5

(* What a handler does to its own heartbeat.                               *)
LEMMA HandlerTyped ==
  ASSUME TypeOK, NEW h \in Handlers,
         Serve(h) \/ BeatFails(h) \/ (\E o \in Owners : Beat(h, o))
  PROVE  BeatOK'
<1>1. beat \in [Handlers -> Session] /\ beat[h] \in Session /\ PlacedBeat(h)
  BY DEF TypeOK
<1>2. ASSUME beat' = [beat EXCEPT ![h] = Quiet] PROVE BeatOK'
  BY <1>2, QuietType, BeatMoves
<1>3. CASE TrackHeartbeat(h) \/ BeatFails(h)
  BY <1>2, <1>3 DEF TrackHeartbeat, BeatFails
<1>4. ASSUME NEW o \in Owners, Beat(h, o) PROVE BeatOK'
  <2> DEFINE b == [Quiet EXCEPT !.pc = "update", !.owner = o]
  <2>1. b \in Session /\ b.pc = "update" /\ b.owner \in Owners
    BY QuietType DEF Session
  <2>2. beat' = [beat EXCEPT ![h] = b]
    BY <1>4 DEF Beat
  <2> HIDE DEF b
  <2> QED BY <2>1, <2>2, BeatMoves
<1>5. CASE UpdateHeartbeat(h)
  <2> DEFINE b == [beat[h] EXCEPT !.pc = "find"]
  <2>1. b \in Session /\ b.pc = "find" /\ b.owner \in Owners
    BY <1>1, <1>5 DEF Session, UpdateHeartbeat, PlacedBeat
  <2>2. beat' = [beat EXCEPT ![h] = b]
    BY <1>5 DEF UpdateHeartbeat
  <2> HIDE DEF b
  <2> QED BY <2>1, <2>2, BeatMoves
<1>6. CASE FindByPubkey(h)
  <2>1. CASE RowsOf(beat[h].owner) = {}
    BY <1>2, <1>6, <2>1 DEF FindByPubkey
  <2>2. CASE RowsOf(beat[h].owner) # {}
    <3>1. PICK k \in RowsOf(beat[h].owner) :
            beat' = [beat EXCEPT ![h].pc = "track", ![h].email = row[k].email,
                                 ![h].place = row[k].place]
      BY <1>6, <2>2 DEF FindByPubkey
    <3>2. row[k].email \in Accounts /\ row[k].place \in Places
      BY RowTyped DEF RowsOf, Row
    <3> DEFINE b == [beat[h] EXCEPT !.pc = "track", !.email = row[k].email,
                                    !.place = row[k].place]
    <3>3. b \in Session /\ b.pc = "track" /\ b.owner \in Owners
          /\ b.email \in Accounts /\ b.place \in Places
      BY <1>1, <1>6, <3>2 DEF Session, FindByPubkey, PlacedBeat
    <3>4. beat' = [beat EXCEPT ![h] = b]
      BY <1>1, <3>1
    <3> HIDE DEF b
    <3> QED BY <3>3, <3>4, BeatMoves
  <2> QED BY <2>1, <2>2
<1> QED BY <1>3, <1>4, <1>5, <1>6 DEF Serve

LEMMA BeatsTyped ==
  ASSUME TypeOK, [Next]_vars
  PROVE  BeatOK'
<1>1. CASE \E h \in Handlers : Serve(h) \/ BeatFails(h) \/ (\E o \in Owners : Beat(h, o))
  BY <1>1, HandlerTyped
<1>2. CASE Restart
  BY <1>2, QuietType DEF Restart, BeatOK, PlacedBeat
<1>3. CASE Tick
  <2>1. beat \in [Handlers -> Session] /\ \A h \in Handlers : PlacedBeat(h)
    BY DEF TypeOK
  <2>2. beat' = [h \in Handlers |-> IF beat[h].pc = "idle" THEN beat[h]
                   ELSE [beat[h] EXCEPT !.began = Older(@)]]
    BY <1>3 DEF Tick
  <2>3. ASSUME NEW h \in Handlers
        PROVE  /\ beat'[h] \in Session /\ beat'[h].pc = beat[h].pc
               /\ beat'[h].owner = beat[h].owner /\ beat'[h].email = beat[h].email
               /\ beat'[h].place = beat[h].place
    <3>1. beat[h] \in Session /\ Older(beat[h].began) \in Ages
      BY <2>1, OlderFacts DEF Session
    <3>2. CASE beat[h].pc = "idle"
      BY <2>2, <3>1, <3>2
    <3>3. CASE beat[h].pc # "idle"
      BY <2>2, <3>1, <3>3 DEF Session
    <3> QED BY <3>2, <3>3
  <2>4. beat' \in [Handlers -> Session]
    BY <2>2, <2>3
  <2> QED BY <2>1, <2>3, <2>4 DEF BeatOK, PlacedBeat
<1>4. CASE UNCHANGED beat
  BY <1>4 DEF TypeOK, BeatOK, PlacedBeat
<1>5. ASSUME NEW o \in Owners, \/ Delete(o) \/ (\E e \in Accounts : Activate(e, o))
                              \/ (\E valid \in SUBSET RowsOf(o) : SetValidator(o, valid))
      PROVE  UNCHANGED beat
  BY <1>5 DEF Delete, Activate, SetValidator
<1> QED BY <1>1, <1>2, <1>3, <1>4, <1>5 DEF Next, vars, Register, Evict

(* Only a tracked heartbeat, the eviction loop, a restart and time change  *)
(* the registry.                                                           *)
LEMMA MemorySteps ==
  ASSUME [Next]_vars
  PROVE  \/ UNCHANGED <<memory, tracked>> \/ Evict \/ Restart \/ Tick
         \/ \E h \in Handlers : TrackHeartbeat(h)
<1>1. ASSUME NEW o \in Owners, \/ Delete(o) \/ (\E e \in Accounts : Activate(e, o))
                              \/ (\E valid \in SUBSET RowsOf(o) : SetValidator(o, valid))
      PROVE  UNCHANGED <<memory, tracked>>
  BY <1>1 DEF Delete, Activate, SetValidator
<1>2. ASSUME NEW h \in Handlers,
             UpdateHeartbeat(h) \/ FindByPubkey(h) \/ BeatFails(h)
             \/ (\E o \in Owners : Beat(h, o))
      PROVE  UNCHANGED <<memory, tracked>>
  BY <1>2 DEF UpdateHeartbeat, FindByPubkey, BeatFails, Beat
<1>3. ASSUME NEW c \in Claims, NEW place \in Places, Register(c, place)
      PROVE  UNCHANGED <<memory, tracked>>
  BY <1>3 DEF Register
<1> QED BY <1>1, <1>2, <1>3 DEF Next, vars, Serve

LEMMA MemoryTyped ==
  ASSUME TypeOK, [Next]_vars
  PROVE  memory' \in [Owners -> Entry \cup {NoEntry}] /\ tracked' \in [Owners -> Ages]
<1>1. memory \in [Owners -> Entry \cup {NoEntry}] /\ tracked \in [Owners -> Ages]
  BY DEF TypeOK
<1>2. CASE UNCHANGED <<memory, tracked>>
  BY <1>1, <1>2
<1>3. ASSUME NEW h \in Handlers, TrackHeartbeat(h)
      PROVE  memory' \in [Owners -> Entry \cup {NoEntry}] /\ tracked' \in [Owners -> Ages]
  <2>1. beat[h].owner \in Owners /\ beat[h].email \in Accounts /\ beat[h].place \in Places
        /\ beat[h].began \in Ages /\ 0 \in Ages
    BY <1>3 DEF TypeOK, TrackHeartbeat, PlacedBeat, Session, Ages
  <2> DEFINE fresh == [email |-> beat[h].email, place |-> beat[h].place, age |-> 0,
                       began |-> beat[h].began]
  <2>2. fresh \in Entry
    BY <2>1 DEF Entry
  <2>3. memory' = [memory EXCEPT ![beat[h].owner] = fresh]
        /\ tracked' = [tracked EXCEPT ![beat[h].owner] = 0]
    BY <1>3 DEF TrackHeartbeat
  <2> HIDE DEF fresh
  <2> QED BY <1>1, <2>1, <2>2, <2>3
<1>4. CASE Evict \/ Restart
  BY <1>1, <1>4 DEF Evict, Restart, Never, Ages
<1>5. CASE Tick
  <2>1. \A o \in Owners : memory[o] # NoEntry =>
          [memory[o] EXCEPT !.age = Older(@), !.began = Older(@)] \in Entry
    BY <1>1, OlderFacts DEF Entry
  <2>2. \A o \in Owners : Older(tracked[o]) \in Ages
    BY <1>1, OlderFacts
  <2> QED BY <1>1, <1>5, <2>1, <2>2 DEF Tick
<1> QED BY MemorySteps, <1>2, <1>3, <1>4, <1>5

LEMMA ChangesMove ==
  ASSUME TypeOK, [Next]_vars
  PROVE  changes' \in {changes, changes + 1}
<1>1. UNCHANGED changes \/ Change
  BY DEF Next, vars, Register, Delete, Activate, SetValidator, Serve,
     UpdateHeartbeat, FindByPubkey, TrackHeartbeat, BeatFails, Beat, Evict, Restart, Tick
<1> QED BY <1>1 DEF Change

(* The variables keep their types.                                         *)
THEOREM TypeCorrect == Spec => []TypeOK
<1>1. Init => TypeOK
  BY QuietType DEF Init, TypeOK, PlacedBeat, Never, Ages
<1>2. TypeOK /\ [Next]_vars => TypeOK'
  BY RowsTyped, BeatsTyped, MemoryTyped, ChangesMove DEF TypeOK, BeatOK
<1> QED BY <1>1, <1>2, PTL DEF Spec

-----------------------------------------------------------------------------
(* Online: the registry has the age of the last tracked heartbeat.         *)

LEMMA ClockKept ==
  ASSUME TypeOK, ClockInv, [Next]_vars
  PROVE  ClockInv'
<1>0. /\ memory \in [Owners -> Entry \cup {NoEntry}] /\ tracked \in [Owners -> Ages]
      /\ memory' \in [Owners -> Entry \cup {NoEntry}] /\ NoEntry \notin Entry
  BY MemoryTyped, NoneFacts DEF TypeOK
<1> SUFFICES ASSUME NEW o \in Owners
             PROVE  IF memory'[o] = NoEntry THEN tracked'[o] > Window
                    ELSE memory'[o].age = tracked'[o]
  BY DEF ClockInv
<1> DEFINE Kept == IF memory'[o] = NoEntry THEN tracked'[o] > Window
                   ELSE memory'[o].age = tracked'[o]
<1>1. IF memory[o] = NoEntry THEN tracked[o] > Window ELSE memory[o].age = tracked[o]
  BY DEF ClockInv
<1>2. CASE UNCHANGED <<memory, tracked>>
  BY <1>1, <1>2
<1>3. CASE Evict
  <2>1. tracked' = tracked /\ memory'[o] = IF Stale(o) THEN NoEntry ELSE memory[o]
    BY <1>3 DEF Evict
  <2> QED BY <1>1, <2>1 DEF Stale
<1>4. CASE Restart
  BY <1>4 DEF Restart, Never
<1>5. CASE Tick
  <2>1. tracked'[o] = Older(tracked[o])
        /\ memory'[o] = IF memory[o] = NoEntry THEN NoEntry
             ELSE [memory[o] EXCEPT !.age = Older(@), !.began = Older(@)]
    BY <1>5 DEF Tick
  <2>2. CASE memory[o] = NoEntry
    BY <1>0, <1>1, <2>1, <2>2, OlderFacts
  <2>3. CASE memory[o] # NoEntry
    <3>1. memory[o] \in Entry
      BY <1>0, <2>3
    <3>2. memory'[o].age = Older(memory[o].age) /\ memory'[o] # NoEntry
      <4>1. [memory[o] EXCEPT !.age = Older(@), !.began = Older(@)] \in Entry
        BY <3>1, OlderFacts DEF Entry
      <4> QED BY <1>0, <2>1, <2>3, <3>1, <4>1 DEF Entry
    <3> QED BY <1>1, <2>1, <2>3, <3>2
  <2> QED BY <2>2, <2>3
<1>6. ASSUME NEW h \in Handlers, TrackHeartbeat(h) PROVE Kept
  <2> DEFINE fresh == [email |-> beat[h].email, place |-> beat[h].place, age |-> 0,
                       began |-> beat[h].began]
  <2>1. memory'[o] = IF o = beat[h].owner THEN fresh ELSE memory[o]
    BY <1>0, <1>6 DEF TrackHeartbeat
  <2>2. tracked'[o] = IF o = beat[h].owner THEN 0 ELSE tracked[o]
    BY <1>0, <1>6 DEF TrackHeartbeat
  <2>3. fresh.age = 0 /\ fresh \in Entry
    BY <1>6 DEF TypeOK, TrackHeartbeat, PlacedBeat, Session, Ages, Entry
  <2> HIDE DEF fresh
  <2> QED BY <1>0, <1>1, <2>1, <2>2, <2>3
<1> QED BY MemorySteps, <1>2, <1>3, <1>4, <1>5, <1>6

(* A wallet is online exactly when one of its heartbeats was tracked in    *)
(* the last five minutes.                                                  *)
THEOREM OnlineMeansRecent == Spec => []OnlineIsRecent
<1>1. Init => ClockInv
  BY DEF Init, ClockInv, Never
<1>2. TypeOK /\ ClockInv /\ [Next]_vars => ClockInv'
  BY ClockKept
<1>3. TypeOK /\ ClockInv => OnlineIsRecent
  <2> SUFFICES ASSUME TypeOK, ClockInv, NEW o \in Owners
               PROVE  o \in Online <=> tracked[o] <= Window
    BY DEF OnlineIsRecent
  <2>1. tracked[o] \in Nat
    BY DEF TypeOK, Ages
  <2> QED BY <2>1 DEF ClockInv, Online
<1> QED BY <1>1, <1>2, <1>3, TypeCorrect, PTL DEF Spec

-----------------------------------------------------------------------------
(* DatabaseFirst: the UPDATE of a heartbeat comes before its entry.        *)

(* Until time passes, a row is marked as seen just now, or stays with its  *)
(* wallet and its age.                                                     *)
LEMMA RowsStayOrMarked ==
  ASSUME TypeOK, [Next]_vars, ~Tick, NEW k \in Nodes, row'[k] # NoRow
  PROVE  \/ row'[k].age = 0
         \/ row[k] # NoRow /\ row'[k].owner = row[k].owner /\ row'[k].age = row[k].age
<1> DEFINE Kept == \/ row'[k].age = 0
                   \/ row[k] # NoRow /\ row'[k].owner = row[k].owner
                      /\ row'[k].age = row[k].age
<1>1. row[k] # NoRow => row[k] \in Row
  BY DEF TypeOK
<1>2. CASE row' = row
  BY <1>2
<1>3. ASSUME NEW c \in Claims, NEW place \in Places, Register(c, place) PROVE Kept
  <2>1. row'[k] = IF k = c.node THEN Registered(c, place, k) ELSE row[k]
    BY <1>3, RegisterEffect
  <2>2. Registered(c, place, k).age = 0
    <3>1. row[k] # NoRow => Replaced(row[k], c, place).age = 0
      BY <1>1, ReplacedEffect
    <3> QED BY <3>1 DEF Registered, NewRow
  <2> QED BY <2>1, <2>2
<1>4. ASSUME NEW o \in Owners, Delete(o) PROVE Kept
  BY <1>4, DeleteEffect
<1>5. ASSUME NEW o \in Owners, NEW e \in Accounts, Activate(e, o) PROVE Kept
  <2>1. row'[k] = IF k \in OwnRows(e, o)
                  THEN [row[k] EXCEPT !.pda = Derive(o, e), !.moved = FALSE] ELSE row[k]
    BY <1>5, ActivateEffect
  <2>2. k \in OwnRows(e, o) => row[k] # NoRow
    BY DEF OwnRows, RowsOf
  <2> QED BY <1>1, <2>1, <2>2 DEF Row
<1>6. ASSUME NEW o \in Owners, NEW valid \in SUBSET RowsOf(o), SetValidator(o, valid) PROVE Kept
  <2>1. row'[k] = IF k \in RowsOf(o) THEN [row[k] EXCEPT !.validator = k \in valid] ELSE row[k]
    BY <1>6, ValidatorEffect
  <2>2. k \in RowsOf(o) => row[k] # NoRow
    BY DEF RowsOf
  <2> QED BY <1>1, <2>1, <2>2 DEF Row
<1>7. ASSUME NEW h \in Handlers, UpdateHeartbeat(h) PROVE Kept
  <2>1. row'[k] = IF k \in RowsOf(beat[h].owner) THEN [row[k] EXCEPT !.age = 0] ELSE row[k]
    BY <1>7, HeartbeatEffect
  <2>2. k \in RowsOf(beat[h].owner) => row[k] # NoRow
    BY DEF RowsOf
  <2> QED BY <1>1, <2>1, <2>2 DEF Row
<1> QED BY RowSteps, <1>2, <1>3, <1>4, <1>5, <1>6, <1>7

(* After its UPDATE a heartbeat finds every row of the wallet just marked. *)
LEMMA UpdateMarksAll ==
  ASSUME TypeOK, NEW h \in Handlers, UpdateHeartbeat(h), NEW k \in Nodes,
         row'[k] # NoRow, row'[k].owner = beat[h].owner
  PROVE  row'[k].age = 0
<1>1. row'[k] = IF k \in RowsOf(beat[h].owner) THEN [row[k] EXCEPT !.age = 0] ELSE row[k]
  BY HeartbeatEffect
<1>2. k \in RowsOf(beat[h].owner)
  BY <1>1 DEF RowsOf
<1>3. row[k] \in Row
  BY <1>2 DEF TypeOK, RowsOf
<1> QED BY <1>1, <1>2, <1>3 DEF Row

(* A heartbeat past its UPDATE has just done it, or was there before.      *)
LEMMA BeatSteps ==
  ASSUME TypeOK, [Next]_vars, ~Tick, NEW h \in Handlers, beat'[h].pc \in {"find", "track"}
  PROVE  \/ beat[h].pc \in {"find", "track"} /\ beat'[h].owner = beat[h].owner
            /\ beat'[h].began = beat[h].began
         \/ UpdateHeartbeat(h) /\ beat'[h].owner = beat[h].owner
<1> DEFINE Kept == \/ beat[h].pc \in {"find", "track"} /\ beat'[h].owner = beat[h].owner
                      /\ beat'[h].began = beat[h].began
                   \/ UpdateHeartbeat(h) /\ beat'[h].owner = beat[h].owner
<1>1. beat \in [Handlers -> Session] /\ \A g \in Handlers : beat[g] \in Session
  BY DEF TypeOK
<1>2. CASE UNCHANGED beat
  BY <1>2
<1>3. ASSUME NEW g \in Handlers, beat' = [beat EXCEPT ![g] = Quiet] PROVE Kept
  <2>1. beat'[h] = IF h = g THEN Quiet ELSE beat[h]
    BY <1>1, <1>3
  <2> QED BY <2>1, QuietType
<1>4. ASSUME NEW g \in Handlers, UpdateHeartbeat(g) PROVE Kept
  <2>1. beat'[h] = IF h = g THEN [beat[g] EXCEPT !.pc = "find"] ELSE beat[h]
    BY <1>1, <1>4 DEF UpdateHeartbeat
  <2>2. [beat[g] EXCEPT !.pc = "find"].owner = beat[g].owner
    BY <1>1 DEF Session
  <2> QED BY <1>4, <2>1, <2>2
<1>5. ASSUME NEW g \in Handlers, FindByPubkey(g) PROVE Kept
  <2>1. CASE RowsOf(beat[g].owner) = {}
    BY <1>3, <1>5, <2>1 DEF FindByPubkey
  <2>2. CASE RowsOf(beat[g].owner) # {}
    <3>1. PICK k \in RowsOf(beat[g].owner) :
            beat' = [beat EXCEPT ![g].pc = "track", ![g].email = row[k].email,
                                 ![g].place = row[k].place]
      BY <1>5, <2>2 DEF FindByPubkey
    <3> DEFINE b == [beat[g] EXCEPT !.pc = "track", !.email = row[k].email,
                                    !.place = row[k].place]
    <3>2. beat'[h] = IF h = g THEN b ELSE beat[h]
      BY <1>1, <3>1
    <3>3. b.owner = beat[g].owner /\ b.began = beat[g].began
      BY <1>1 DEF Session
    <3>4. beat[g].pc = "find"
      BY <1>5 DEF FindByPubkey
    <3> HIDE DEF b
    <3> QED BY <3>2, <3>3, <3>4
  <2> QED BY <2>1, <2>2
<1>6. ASSUME NEW g \in Handlers, NEW o \in Owners, Beat(g, o) PROVE Kept
  <2> DEFINE b == [Quiet EXCEPT !.pc = "update", !.owner = o]
  <2>1. b.pc = "update"
    BY QuietType DEF Session
  <2>2. beat'[h] = IF h = g THEN b ELSE beat[h]
    BY <1>1, <1>6 DEF Beat
  <2> HIDE DEF b
  <2> QED BY <2>1, <2>2
<1>7. ASSUME NEW g \in Handlers, TrackHeartbeat(g) \/ BeatFails(g) PROVE Kept
  BY <1>3, <1>7 DEF TrackHeartbeat, BeatFails
<1>8. CASE Restart
  BY <1>8, QuietType DEF Restart
<1>9. ASSUME NEW o \in Owners, \/ Delete(o) \/ (\E e \in Accounts : Activate(e, o))
                              \/ (\E valid \in SUBSET RowsOf(o) : SetValidator(o, valid))
      PROVE  UNCHANGED beat
  BY <1>9 DEF Delete, Activate, SetValidator
<1> QED BY <1>2, <1>4, <1>5, <1>6, <1>7, <1>8, <1>9 DEF Next, vars, Serve, Register, Evict

LEMMA BeatInvKept ==
  ASSUME TypeOK, BeatInv, [Next]_vars, ~Tick
  PROVE  BeatInv'
<1> SUFFICES ASSUME NEW h \in Handlers, beat'[h].pc \in {"find", "track"},
                    NEW k \in Nodes, row'[k] # NoRow, row'[k].owner = beat'[h].owner
             PROVE  row'[k].age <= beat'[h].began
  BY DEF BeatInv, RowsOf
<1>1. beat'[h].began \in Nat
  BY BeatsTyped DEF BeatOK, Session, Ages
<1>2. row'[k].age = 0 => row'[k].age <= beat'[h].began
  BY <1>1
<1>3. CASE UpdateHeartbeat(h) /\ beat'[h].owner = beat[h].owner
  BY <1>2, <1>3, UpdateMarksAll
<1>4. CASE beat[h].pc \in {"find", "track"} /\ beat'[h].owner = beat[h].owner
           /\ beat'[h].began = beat[h].began
  <2>1. CASE row[k] # NoRow /\ row'[k].owner = row[k].owner /\ row'[k].age = row[k].age
    <3>1. k \in RowsOf(beat[h].owner)
      BY <1>4, <2>1 DEF RowsOf
    <3>2. row[k].age <= beat[h].began
      BY <1>4, <3>1 DEF BeatInv
    <3> QED BY <1>4, <2>1, <3>2
  <2> QED BY <1>2, <2>1, RowsStayOrMarked
<1> QED BY <1>3, <1>4, BeatSteps

LEMMA DatabaseFirstKept ==
  ASSUME TypeOK, SeenInv, [Next]_vars, ~Tick
  PROVE  DatabaseFirst'
<1> SUFFICES ASSUME NEW o \in Owners, memory'[o] # NoEntry,
                    NEW k \in Nodes, row'[k] # NoRow, row'[k].owner = o
             PROVE  row'[k].age <= memory'[o].began
  BY DEF DatabaseFirst, RowsOf
<1> DEFINE Kept == row'[k].age <= memory'[o].began
<1>1. memory \in [Owners -> Entry \cup {NoEntry}] /\ memory'[o] \in Entry
  BY MemoryTyped DEF TypeOK
<1>2. memory'[o].began \in Nat
  BY <1>1 DEF Entry, Ages
<1>3. CASE memory'[o] = memory[o]
  <2>1. CASE row[k] # NoRow /\ row'[k].owner = row[k].owner /\ row'[k].age = row[k].age
    <3>1. k \in RowsOf(o)
      BY <2>1 DEF RowsOf
    <3>2. row[k].age <= memory[o].began
      BY <1>3, <3>1 DEF SeenInv, DatabaseFirst
    <3> QED BY <1>3, <2>1, <3>2
  <2>2. CASE row'[k].age = 0
    BY <1>2, <2>2
  <2> QED BY <2>1, <2>2, RowsStayOrMarked
<1>4. CASE Evict \/ Restart
  <2>1. memory'[o] \in {memory[o], NoEntry}
    BY <1>4 DEF Evict, Restart
  <2> QED BY <1>3, <2>1
<1>5. ASSUME NEW h \in Handlers, TrackHeartbeat(h), o = beat[h].owner PROVE Kept
  <2>1. row' = row /\ beat[h].pc = "track"
    BY <1>5 DEF TrackHeartbeat
  <2>2. row[k].age <= beat[h].began
    BY <1>5, <2>1 DEF SeenInv, BeatInv, RowsOf
  <2>3. memory'[o].began = beat[h].began
    BY <1>1, <1>5 DEF TrackHeartbeat
  <2> QED BY <2>1, <2>2, <2>3
<1>6. ASSUME NEW h \in Handlers, TrackHeartbeat(h), o # beat[h].owner PROVE Kept
  BY <1>1, <1>3, <1>6 DEF TrackHeartbeat
<1> QED BY MemorySteps, <1>3, <1>4, <1>5, <1>6

(* Time makes a row, an entry and a heartbeat older alike.                 *)
LEMMA SeenInvAges ==
  ASSUME TypeOK, SeenInv, Tick
  PROVE  SeenInv'
<1>1. ASSUME NEW k \in Nodes, row'[k] # NoRow
      PROVE  /\ row[k] # NoRow /\ row'[k].owner = row[k].owner
             /\ row'[k].age = Older(row[k].age) /\ row[k].age \in Ages
  <2>1. row'[k] = IF row[k] = NoRow THEN NoRow ELSE [row[k] EXCEPT !.age = Older(@)]
    BY TickEffect
  <2>2. row[k] # NoRow /\ row[k] \in Row
    BY <1>1, <2>1 DEF TypeOK
  <2> QED BY <2>1, <2>2 DEF Row
<1>2. BeatInv'
  <2> SUFFICES ASSUME NEW h \in Handlers, beat'[h].pc \in {"find", "track"},
                      NEW k \in Nodes, row'[k] # NoRow, row'[k].owner = beat'[h].owner
               PROVE  row'[k].age <= beat'[h].began
    BY DEF BeatInv, RowsOf
  <2>1. beat[h] \in Session
        /\ beat'[h] = IF beat[h].pc = "idle" THEN beat[h]
                      ELSE [beat[h] EXCEPT !.began = Older(@)]
    BY DEF Tick, TypeOK
  <2>2. /\ beat[h].pc \in {"find", "track"} /\ beat'[h].owner = beat[h].owner
        /\ beat'[h].began = Older(beat[h].began) /\ beat[h].began \in Ages
    BY <2>1 DEF Session
  <2>3. row[k].age <= beat[h].began
    BY <1>1, <2>2 DEF SeenInv, BeatInv, RowsOf
  <2> QED BY <1>1, <2>2, <2>3, OlderFacts
<1>3. DatabaseFirst'
  <2> SUFFICES ASSUME NEW o \in Owners, memory'[o] # NoEntry,
                      NEW k \in Nodes, row'[k] # NoRow, row'[k].owner = o
               PROVE  row'[k].age <= memory'[o].began
    BY DEF DatabaseFirst, RowsOf
  <2>1. memory'[o] = IF memory[o] = NoEntry THEN NoEntry
          ELSE [memory[o] EXCEPT !.age = Older(@), !.began = Older(@)]
    BY DEF Tick
  <2>2. memory[o] # NoEntry /\ memory[o] \in Entry
    BY <2>1 DEF TypeOK
  <2>3. memory'[o].began = Older(memory[o].began) /\ memory[o].began \in Ages
    BY <2>1, <2>2 DEF Entry
  <2>4. row[k].age <= memory[o].began
    BY <1>1, <2>2 DEF SeenInv, DatabaseFirst, RowsOf
  <2> QED BY <1>1, <2>3, <2>4, OlderFacts
<1> QED BY <1>2, <1>3 DEF SeenInv

(* A row of a wallet in memory was marked no earlier than the heartbeat    *)
(* that put the wallet there began.                                        *)
THEOREM DatabaseIsFirst == Spec => []DatabaseFirst
<1>1. Init => SeenInv
  BY QuietType DEF Init, SeenInv, BeatInv, DatabaseFirst
<1>2. TypeOK /\ SeenInv /\ [Next]_vars => SeenInv'
  BY BeatInvKept, DatabaseFirstKept, SeenInvAges DEF SeenInv
<1>3. SeenInv => DatabaseFirst
  BY DEF SeenInv
<1> QED BY <1>1, <1>2, <1>3, TypeCorrect, PTL DEF Spec

-----------------------------------------------------------------------------
(* Addresses.                                                              *)

(* What a step leaves of a row: its email and its number stay, and its     *)
(* address stays or is written anew, for the wallet it then belongs to.    *)
KeepsAddress(k) ==
  /\ row'[k].pda = row[k].pda
  /\ row'[k].moved \/ (~row[k].moved /\ row'[k].owner = row[k].owner)
WritesAddress(k) ==
  row'[k].owner = row[k].owner /\ row'[k].pda = Derive(row[k].owner, row[k].email)

Successor(k) ==
  \/ /\ row[k] # NoRow /\ row'[k].email = row[k].email /\ row'[k].born = row[k].born
     /\ KeepsAddress(k) \/ WritesAddress(k)
  \/ row[k] = NoRow /\ Change /\ row'[k].pda = NoPda /\ row'[k].born = changes

LEMMA RowSuccessor ==
  ASSUME TypeOK, [Next]_vars, NEW k \in Nodes, row'[k] # NoRow
  PROVE  Successor(k)
<1> DEFINE Same ==
      /\ row[k] # NoRow /\ row'[k].owner = row[k].owner /\ row'[k].email = row[k].email
      /\ row'[k].born = row[k].born /\ row'[k].pda = row[k].pda
      /\ row'[k].moved = row[k].moved
<1>0. Same => Successor(k)
  BY DEF Successor, KeepsAddress
<1>1. row[k] # NoRow => row[k] \in Row
  BY DEF TypeOK
<1>2. CASE row'[k] = row[k]
  BY <1>0, <1>2
<1> HIDE DEF Same
<1>3. CASE Tick
  <2>1. row'[k] = IF row[k] = NoRow THEN NoRow ELSE [row[k] EXCEPT !.age = Older(@)]
    BY <1>3, TickEffect
  <2>2. Same
    BY <1>1, <2>1 DEF Row, Same
  <2> QED BY <1>0, <2>2
<1>4. ASSUME NEW c \in Claims, NEW place \in Places, Register(c, place)
      PROVE  Successor(k)
  <2>1. row'[k] = IF k = c.node THEN Registered(c, place, k) ELSE row[k]
    BY <1>4, RegisterEffect
  <2>2. CASE k = c.node /\ row[k] = NoRow
    BY <1>4, <2>1, <2>2 DEF Registered, NewRow, Successor, Register
  <2>3. CASE k = c.node /\ row[k] # NoRow
    <3>1. row'[k] = Replaced(row[k], c, place)
      BY <2>1, <2>3 DEF Registered
    <3>2. /\ row'[k].owner = c.owner /\ row'[k].email = row[k].email
          /\ row'[k].born = row[k].born /\ row'[k].pda = row[k].pda
          /\ row'[k].moved = (row[k].moved \/ row[k].owner # c.owner)
      BY <1>1, <2>3, <3>1, ReplacedEffect
    <3> QED BY <2>3, <3>2 DEF Successor, KeepsAddress
  <2> QED BY <1>2, <2>1, <2>2, <2>3
<1>5. ASSUME NEW o \in Owners, Delete(o) PROVE Successor(k)
  BY <1>2, <1>5, DeleteEffect
<1>6. ASSUME NEW o \in Owners, NEW e \in Accounts, Activate(e, o) PROVE Successor(k)
  <2>1. row'[k] = IF k \in OwnRows(e, o) THEN [row[k] EXCEPT !.pda = Derive(o, e), !.moved = FALSE]
                  ELSE row[k]
    BY <1>6, ActivateEffect
  <2>2. CASE k \in OwnRows(e, o)
    <3>1. row[k] # NoRow /\ row[k].owner = o /\ row[k].email = e
      BY <2>2 DEF OwnRows, RowsOf
    <3>2. /\ row'[k].owner = row[k].owner /\ row'[k].email = row[k].email
          /\ row'[k].born = row[k].born /\ row'[k].pda = Derive(o, e)
      BY <1>1, <2>1, <2>2, <3>1 DEF Row
    <3> QED BY <3>1, <3>2 DEF Successor, WritesAddress
  <2> QED BY <1>2, <2>1, <2>2
<1>7. ASSUME NEW o \in Owners, NEW valid \in SUBSET RowsOf(o), SetValidator(o, valid)
      PROVE  Successor(k)
  <2>1. row'[k] = IF k \in RowsOf(o) THEN [row[k] EXCEPT !.validator = k \in valid] ELSE row[k]
    BY <1>7, ValidatorEffect
  <2>2. CASE k \in RowsOf(o)
    <3>1. row[k] # NoRow /\ row[k].owner = o
      BY <2>2 DEF RowsOf
    <3>2. Same
      BY <1>1, <2>1, <2>2, <3>1 DEF Row, Same
    <3> QED BY <1>0, <3>2
  <2> QED BY <1>2, <2>1, <2>2
<1>8. ASSUME NEW h \in Handlers, UpdateHeartbeat(h) PROVE Successor(k)
  <2>1. row'[k] = IF k \in RowsOf(beat[h].owner) THEN [row[k] EXCEPT !.age = 0] ELSE row[k]
    BY <1>8, HeartbeatEffect
  <2>2. CASE k \in RowsOf(beat[h].owner)
    <3>1. row[k] # NoRow
      BY <2>2 DEF RowsOf
    <3>2. Same
      BY <1>1, <2>1, <2>2, <3>1 DEF Row, Same
    <3> QED BY <1>0, <3>2
  <2> QED BY <1>2, <2>1, <2>2
<1> QED BY RowSteps, <1>2, <1>3, <1>4, <1>5, <1>6, <1>7, <1>8

LEMMA PdaKept ==
  ASSUME TypeOK, PdaFits, [Next]_vars
  PROVE  PdaFits'
<1> SUFFICES ASSUME NEW k \in Nodes, row'[k] # NoRow, row'[k].pda # NoPda
             PROVE  row'[k].moved \/ row'[k].pda = Derive(row'[k].owner, row'[k].email)
  BY DEF PdaFits
<1>1. CASE row[k] = NoRow
  BY <1>1, RowSuccessor DEF Successor
<1>2. CASE row[k] # NoRow /\ row'[k].email = row[k].email /\ KeepsAddress(k)
  BY <1>2 DEF PdaFits, KeepsAddress
<1>3. CASE row[k] # NoRow /\ row'[k].email = row[k].email /\ WritesAddress(k)
  BY <1>3 DEF WritesAddress
<1> QED BY <1>1, <1>2, <1>3, RowSuccessor DEF Successor

(* Whoever registers which node key for which wallet, an activated row has *)
(* the address of its own wallet and email until its key goes to another   *)
(* wallet, and has it again once it is activated there.                    *)
THEOREM AddressFits == Spec => []PdaFits
<1>1. Init => PdaFits
  BY DEF Init, PdaFits
<1> QED BY <1>1, PdaKept, TypeCorrect, PTL DEF Spec

-----------------------------------------------------------------------------
(* ProgressKept: the row an account is shown keeps its progress.           *)

LEMMA BornKept ==
  ASSUME TypeOK, BornInv, [Next]_vars
  PROVE  BornInv'
<1> SUFFICES ASSUME NEW k \in Nodes, row'[k] # NoRow
             PROVE  row'[k].born < changes'
  BY DEF BornInv
<1>1. changes \in Nat /\ (changes' = changes \/ changes' = changes + 1)
  BY ChangesMove DEF TypeOK
<1>2. CASE row[k] # NoRow
  <2>1. row'[k].born = row[k].born /\ row[k].born \in Nat
    BY <1>2, RowTyped, RowSuccessor DEF Successor, Row
  <2>2. row[k].born < changes
    BY <1>2 DEF BornInv
  <2> QED BY <1>1, <2>1, <2>2
<1>3. CASE row[k] = NoRow
  <2>1. row'[k].born = changes /\ changes' = changes + 1
    BY <1>3, RowSuccessor DEF Successor, Change
  <2> QED BY <1>1, <2>1
<1> QED BY <1>2, <1>3

LEMMA LeastNatural ==
  ASSUME NEW T \in SUBSET Nat, T # {}
  PROVE  \E n \in T : \A m \in T : n <= m
<1>1. IsWellFoundedOn(OpToRel(<, Nat), Nat)
  BY NatLessThanWellFounded
<1>2. \E x \in T : \A y \in T : ~(<<y, x>> \in OpToRel(<, Nat))
  BY <1>1, WFMin
<1>3. \A x, y \in Nat : y < x => <<y, x>> \in OpToRel(<, Nat)
  BY Zenon DEF OpToRel
<1>4. \E x \in T : \A y \in T : ~(y < x)
  BY <1>2, <1>3, Zenon
<1> QED BY <1>4

(* An account with rows has a newest one.                                  *)
LEMMA NewestExists ==
  ASSUME TypeOK, BornInv, NEW e, NEW o, OwnRows(e, o) # {}
  PROVE  Newest(e, o) \in OwnRows(e, o)
<1>1. \A k \in OwnRows(e, o) : row[k].born \in Nat /\ row[k].born < changes
  BY RowTyped DEF OwnRows, RowsOf, Row, BornInv
<1>2. changes \in Nat
  BY DEF TypeOK
<1> DEFINE T == {changes - row[k].born : k \in OwnRows(e, o)}
<1>3. T \in SUBSET Nat /\ T # {}
  BY <1>1, <1>2
<1>4. PICK n \in T : \A m \in T : n <= m
  BY <1>3, LeastNatural
<1>5. PICK k \in OwnRows(e, o) : n = changes - row[k].born
  BY <1>4
<1>6. \A j \in OwnRows(e, o) : changes - row[k].born <= changes - row[j].born
  BY <1>4, <1>5
<1>7. \A j \in OwnRows(e, o) : row[j].born <= row[k].born
  BY <1>1, <1>2, <1>6
<1> QED BY <1>7 DEF Newest

(* Only a DELETE takes a row away, and it takes all of the wallet.         *)
LEMMA OnlyDeleted ==
  ASSUME TypeOK, [Next]_vars, NEW k \in Nodes, NEW w, row[k] # NoRow,
         row[k].owner = w, row'[k] = NoRow
  PROVE  RowsOf(w)' = {}
<1>1. row' \in [Nodes -> Row \cup {NoRow}] /\ row[k] \in Row /\ NoRow \notin Row
  BY RowsTyped, RowTyped, NoneFacts
<1>2. ASSUME NEW o \in Owners, Delete(o) PROVE RowsOf(w)' = {}
  <2>1. \A j \in Nodes : row'[j] = IF j \in RowsOf(o) THEN NoRow ELSE row[j]
    BY <1>2, DeleteEffect
  <2>2. w = o
    BY <2>1 DEF RowsOf
  <2> QED BY <2>1, <2>2 DEF RowsOf
<1>3. CASE Tick
  <2>1. [row[k] EXCEPT !.age = Older(@)] \in Row
    BY <1>1, OlderFacts DEF Row
  <2> QED BY <1>1, <1>3, <2>1, TickEffect
<1>4. ASSUME NEW c \in Claims, NEW place \in Places, Register(c, place) PROVE FALSE
  <2>1. row'[k] = IF k = c.node THEN Registered(c, place, k) ELSE row[k]
    BY <1>4, RegisterEffect
  <2>2. Registered(c, place, k) \in Row
    BY <1>1, ReplacedEffect DEF Registered
  <2> QED BY <1>1, <2>1, <2>2
<1>5. ASSUME NEW o \in Owners, NEW e \in Accounts, Activate(e, o) PROVE FALSE
  <2>1. row'[k] = IF k \in OwnRows(e, o)
                  THEN [row[k] EXCEPT !.pda = Derive(o, e), !.moved = FALSE] ELSE row[k]
    BY <1>5, ActivateEffect
  <2>2. [row[k] EXCEPT !.pda = Derive(o, e), !.moved = FALSE] \in Row
    BY <1>1 DEF Derive, Row
  <2> QED BY <1>1, <2>1, <2>2
<1>6. ASSUME NEW o \in Owners, NEW valid \in SUBSET RowsOf(o), SetValidator(o, valid) PROVE FALSE
  <2>1. row'[k] = IF k \in RowsOf(o) THEN [row[k] EXCEPT !.validator = k \in valid] ELSE row[k]
    BY <1>6, ValidatorEffect
  <2>2. k \in RowsOf(o) => row'[k] \in Row
    BY <1>6, ValidatorEffect
  <2> QED BY <1>1, <2>1, <2>2
<1>7. ASSUME NEW h \in Handlers, UpdateHeartbeat(h) PROVE FALSE
  <2>1. row'[k] = IF k \in RowsOf(beat[h].owner) THEN [row[k] EXCEPT !.age = 0] ELSE row[k]
    BY <1>7, HeartbeatEffect
  <2>2. [row[k] EXCEPT !.age = 0] \in Row
    BY <1>1 DEF Row, Ages
  <2> QED BY <1>1, <2>1, <2>2
<1> QED BY RowSteps, <1>2, <1>3, <1>4, <1>5, <1>6, <1>7

(* The row an account is shown for wallet o goes with the wallet's other   *)
(* rows, or is shown to the account for the wallet it then belongs to,     *)
(* with no less progress.                                                  *)
LEMMA PageKept ==
  ASSUME TypeOK, BornInv, [Next]_vars, NEW e \in Accounts, NEW o \in Owners,
         OwnRows(e, o) # {}
  PROVE  \/ RowsOf(o)' = {} /\ row'[Newest(e, o)] = NoRow
         \/ \E w \in Owners :
              /\ Newest(e, o) \in OwnRows(e, w)'
              /\ Fallback(e, o, w) \/ Rank(View(e, w)') >= Rank(View(e, o))
<1>1. PICK n \in OwnRows(e, o) : n = Newest(e, o)
  BY NewestExists
<1>2. n \in Nodes /\ row[n] # NoRow /\ row[n].owner = o /\ row[n].email = e
  BY DEF OwnRows, RowsOf
<1>3. CASE row'[n] = NoRow
  BY <1>1, <1>2, <1>3, OnlyDeleted
<1>4. CASE row'[n] # NoRow
  <2>1. PICK w \in Owners : w = row'[n].owner
    BY <1>2, <1>4, RowsTyped DEF Row
  <2>2. row'[n].email = e /\ (KeepsAddress(n) \/ WritesAddress(n))
    BY <1>2, <1>4, RowSuccessor DEF Successor
  <2>3. n \in RowsOf(w)' /\ n \in OwnRows(e, w)'
    BY <1>2, <1>4, <2>1, <2>2 DEF OwnRows, RowsOf
  <2>4. CASE Fallback(e, o, w)
    BY <1>1, <2>3, <2>4
  <2>5. CASE ~Fallback(e, o, w)
    <3>1. Newest(e, w)' = n /\ (row[n].validator => row'[n].validator)
      BY <1>1, <2>5 DEF Fallback
    <3>2. row'[n].pda = NoPda => row[n].pda = NoPda
      <4>1. Derive(row[n].owner, row[n].email) # NoPda
        BY <1>2, NoneFacts DEF Derive
      <4> QED BY <2>2, <4>1 DEF KeepsAddress, WritesAddress
    <3>3. View(e, o) = IF row[n].pda = NoPda THEN "activate"
                       ELSE IF ~row[n].validator THEN "stake" ELSE "dashboard"
      BY <1>1 DEF View
    <3>4. View(e, w)' = IF row'[n].pda = NoPda THEN "activate"
                        ELSE IF ~row'[n].validator THEN "stake" ELSE "dashboard"
      BY <2>3, <3>1 DEF View
    <3>5. Rank(View(e, w)') >= Rank(View(e, o))
      BY <3>1, <3>2, <3>3, <3>4 DEF Rank
    <3> QED BY <1>1, <2>3, <3>5
  <2> QED BY <2>4, <2>5
<1> QED BY <1>3, <1>4

(* Whatever any account registers, activates, stakes or deletes, an        *)
(* account keeps the progress of the node it is shown, by the wallet that  *)
(* node then belongs to, until the node is deleted, its stake withdrawn or *)
(* another node of the account is newer.                                   *)
THEOREM ProgressIsKept == Spec => ProgressKept
<1>1. Init => BornInv
  BY DEF Init, BornInv
<1>2. TypeOK /\ BornInv /\ [Next]_vars => BornInv'
  BY BornKept
<1>3. TypeOK /\ BornInv /\ [Next]_vars
      => [\A e \in Accounts, o \in Owners : OwnRows(e, o) # {} =>
            \/ RowsOf(o)' = {} /\ row'[Newest(e, o)] = NoRow
            \/ \E w \in Owners :
                 /\ Newest(e, o) \in OwnRows(e, w)'
                 /\ Fallback(e, o, w) \/ Rank(View(e, w)') >= Rank(View(e, o))]_vars
  BY PageKept
<1> QED BY <1>1, <1>2, <1>3, TypeCorrect, PTL DEF Spec, ProgressKept
=============================================================================
