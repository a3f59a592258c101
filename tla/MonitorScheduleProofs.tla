------------------------ MODULE MonitorScheduleProofs ------------------------
(***************************************************************************)
(* The cached list of active monitors is never wrong without a reason, for *)
(* any number of monitors, owners and handlers (MonitorSchedule).          *)
(*                                                                         *)
(* CacheExplained is not inductive: a key may be set from a list that was  *)
(* read long ago.  It takes that no list is on its way while the key is    *)
(* there, so that the list being set replaces nothing.                     *)
(*                                                                         *)
(* MatchBatch gives every domain its share and no node a domain twice in a *)
(* row, for lists of any length: the fold it is has a value for each       *)
(* length, since there is no least length for which it has none, and its   *)
(* step keeps an invariant.                                                *)
(***************************************************************************)
EXTENDS MonitorSchedule, FiniteSetTheorems, TLAPS

CacheInv ==
  /\ TypeOK
  /\ cache = NoList \/ fill = NoList
  /\ CacheExplained

LEMMA CacheInvInit == Init => CacheInv
<1> SUFFICES ASSUME Init PROVE CacheInv
  OBVIOUS
<1>1. TypeOK
  BY MonitorsAssumption DEF Init, TypeOK
<1> QED
  BY <1>1 DEF Init, CacheInv, CacheExplained

(* A change of one row only moves its monitor in or out of the list.       *)
LEMMA WriteMoves ==
  ASSUME TypeOK, NEW m \in Monitors, NEW status, row' = [row EXCEPT ![m] = status],
         UNCHANGED funded, NEW list
  PROVE  (Mistaken(list))' \subseteq Mistaken(list) \cup {i \in {m} : row[i] # status}
BY DEF TypeOK, Mistaken, FindActive, Live

LEMMA WriteKeeps ==
  ASSUME CacheInv, NEW h \in Handlers, NEW m \in Monitors,
         NEW status \in {"none", "active", "paused", "deleted"},
         NEW next \in {"del", "del-arm"}, Write(h, m, status, next)
  PROVE  CacheInv'
<1> USE DEF CacheInv
<1>1. TypeOK'
  BY DEF Write, Changed, TypeOK, Hand, redisVars
<1>2. Deleting' = Deleting \cup {m}
  BY DEF Write, TypeOK, Deleting, Hand, Idle
<1>3. fill' = fill /\ cache' = cache
  BY DEF Write, redisVars
<1>4. \A list : Mistaken(list)' \subseteq Mistaken(list) \cup {i \in {m} : row[i] # status}
  BY WriteMoves DEF Write
<1>5. fill' # NoList => Mistaken(fill)' \subseteq behind'
  BY <1>3, <1>4 DEF Write, Changed, CacheExplained, Mistaken, FindActive, Live
<1>6. cache' # NoList => Mistaken(cache)' \subseteq behind' \cup Deleting'
  BY <1>2, <1>3, <1>4 DEF Write, Changed, CacheExplained, Mistaken, FindActive, Live
<1> QED
  BY <1>1, <1>3, <1>5, <1>6 DEF CacheExplained
(* A command after the row's leaves table and list as they are; a monitor  *)
(* that it takes from Deleting had its key deleted, or goes to behind.     *)
LEMMA CommandKeeps ==
  ASSUME CacheInv, NEW h \in Handlers, Serve(h)
  PROVE  CacheInv'
<1> USE DEF CacheInv
<1>1. UNCHANGED tableVars /\ fill' = fill /\ cache' \in {cache, NoList}
  BY DEF Serve, Del, DelFails, Arm, EndEarly, redisVars
<1>2. hand[h] \in Hand
  BY DEF Serve, Del, DelFails, Arm, EndEarly, TypeOK, Idle
<1>3. PICK next \in Hand \cup {Idle} : hand' = [hand EXCEPT ![h] = next]
  <2>1. hand[h].pc \in {"del", "del-arm"} => AfterDel(h) \in Hand \cup {Idle}
    BY <1>2 DEF AfterDel, Hand
  <2> QED
    BY <2>1 DEF Serve, Del, DelFails, Arm, EndEarly
<1>4. behind \subseteq behind' /\ behind' \subseteq Monitors
  BY <1>2 DEF Serve, Del, DelFails, Arm, EndEarly, TypeOK, Hand
<1>5. due' \subseteq Monitors
  BY <1>2 DEF Serve, Del, DelFails, Arm, EndEarly, TypeOK, Hand, redisVars
<1>6. TypeOK'
  BY <1>1, <1>3, <1>4, <1>5 DEF TypeOK, tableVars
<1>7. Mistaken(fill)' = Mistaken(fill)
  BY <1>1 DEF tableVars, Mistaken, FindActive, Live
<1>8. ASSUME cache' # NoList
      PROVE  Mistaken(cache)' = Mistaken(cache) /\ Deleting \subseteq behind' \cup Deleting'
  <2>1. cache' = cache /\ ~Del(h)
    BY <1>1, <1>8 DEF Del
  <2>2. hand[h].pc = "arm" \/ hand[h].monitor \in behind'
    BY <1>2, <2>1 DEF Serve, DelFails, Arm, EndEarly, Hand
  <2>3. Deleting \subseteq behind' \cup Deleting'
    BY <1>3, <2>2 DEF Deleting, TypeOK
  <2> QED
    BY <1>1, <2>1, <2>3 DEF tableVars, Mistaken, FindActive, Live
<1> QED
  BY <1>1, <1>4, <1>6, <1>7, <1>8 DEF CacheExplained

(* The list read from the table is right when it is read; setting the key  *)
(* from it brings nothing new, as the key was absent.                      *)
LEMMA ReaderKeeps ==
  ASSUME CacheInv, ReadTable \/ SetKey
  PROVE  CacheInv'
BY DEF CacheInv, ReadTable, SetKey, CacheExplained, TypeOK, tableVars, matchVars,
       Mistaken, FindActive, Live, Deleting

LEMMA FundKeeps ==
  ASSUME CacheInv, NEW o \in Owners, Fund(o)
  PROVE  CacheInv'
<1> USE DEF CacheInv
<1>1. TypeOK'
  BY DEF Fund, TypeOK, redisVars
<1>2. \A list : Mistaken(list)' \subseteq Mistaken(list) \cup {m \in Monitors : Owner[m] = o}
  BY DEF Fund, Mistaken, FindActive, Live
<1> QED
  BY <1>1, <1>2 DEF Fund, CacheExplained, Deleting, redisVars, Mistaken, FindActive, Live

LEMMA CacheInvStep == CacheInv /\ [Next]_vars => CacheInv'
<1> SUFFICES ASSUME CacheInv, [Next]_vars PROVE CacheInv'
  OBVIOUS
<1>1. ASSUME NEW h \in Handlers, NEW m \in Monitors, Create(h, m) PROVE CacheInv'
  BY <1>1, WriteKeeps DEF Create
<1>2. ASSUME NEW h \in Handlers, NEW m \in Monitors, NEW status \in {"active", "paused"},
             UpdateActive(h, m, status)
      PROVE  CacheInv'
  BY <1>2, WriteKeeps DEF UpdateActive
<1>3. ASSUME NEW h \in Handlers, NEW m \in Monitors, NEW o \in Owners, Delete(h, m, o)
      PROVE  CacheInv'
  <2>1. row[m] \in {"none", "active", "paused", "deleted"}
    BY DEF CacheInv, TypeOK
  <2> QED
    BY <1>3, <2>1, WriteKeeps DEF Delete
<1>4. ASSUME UNCHANGED <<tableVars, redisVars, hand, behind>> PROVE CacheInv'
  BY <1>4 DEF CacheInv, CacheExplained, TypeOK, tableVars, redisVars, Mistaken,
              FindActive, Live, Deleting
<1>5. CASE Dispatch
  BY <1>4, <1>5 DEF Dispatch
<1>6. CASE UNCHANGED vars
  BY <1>4, <1>6 DEF vars
<1> QED
  BY <1>1, <1>2, <1>3, <1>5, <1>6, CommandKeeps, ReaderKeeps, FundKeeps DEF Next

(* The state keeps its shape.                                              *)
THEOREM TypeCorrect == Spec => []TypeOK
<1>1. CacheInv => TypeOK
  BY DEF CacheInv
<1> QED
  BY <1>1, CacheInvInit, CacheInvStep, PTL DEF Spec

(* Whatever requests, failures, purchases and readers do, and however they *)
(* interleave, the list is wrong only about a monitor whose deletion of the*)
(* key is under way, was lost, or was overtaken by a reader or a purchase. *)
THEOREM CacheIsExplained == Spec => []CacheExplained
<1>1. CacheInv => CacheExplained
  BY DEF CacheInv
<1> QED
  BY <1>1, CacheInvInit, CacheInvStep, PTL DEF Spec

-----------------------------------------------------------------------------
(* A batch, monitor by monitor.  MatchBatch folds Match over the positions *)
(* of the list; the table of the fold exists for sets of positions of any  *)
(* size, as there is no smallest size for which it does not.               *)

LEMMA LeastNatural ==
  ASSUME NEW T \in SUBSET Nat, T # {}
  PROVE  \E n \in T : \A m \in T : n <= m
<1>1. IsWellFoundedOn(OpToRel(<, Nat), Nat)
  BY NatLessThanWellFounded
<1>2. \E x \in T : \A y \in T : ~(<<y, x>> \in OpToRel(<, Nat))
  BY <1>1, WFMin
<1>3. \A x, y \in Nat : y < x => <<y, x>> \in OpToRel(<, Nat)
  BY Zenon DEF OpToRel
<1>4. \E x \in T : \A y \in T : ~(y < x)
  BY <1>2, <1>3, Zenon
<1> QED BY <1>4

LEMMA MaxFacts ==
  ASSUME NEW n \in Nat, NEW s \in SUBSET (1..n), s # {}
  PROVE  Max(s) \in s /\ \A i \in s : i <= Max(s)
<1> DEFINE T == {n - i : i \in s}
<1>1. T \in SUBSET Nat /\ T # {}
  <2>1. \A i \in s : n - i \in Nat
    OBVIOUS
  <2> QED BY <2>1
<1>2. PICK d \in T : \A e \in T : d <= e
  BY <1>1, LeastNatural
<1>3. PICK i \in s : d = n - i
  BY <1>2
<1>4. \A j \in s : n - i <= n - j
  BY <1>2, <1>3
<1>5. \A j \in s : i >= j
  BY <1>4
<1>6. \A j \in s : j \in Int
  OBVIOUS
<1> QED BY <1>5, <1>6 DEF Max

LEMMA MinFacts ==
  ASSUME NEW n \in Nat, NEW s \in SUBSET (1..n), s # {}
  PROVE  Min(s) \in s /\ \A i \in s : Min(s) <= i
<1>1. PICK i \in s : \A j \in s : i <= j
  BY LeastNatural
<1> QED BY <1>1 DEF Min

(* The table of the fold over the positions in S.                          *)
MatchStep(f, list, order, s) ==
  IF s = {} THEN Begin ELSE Match(f[s \ {Max(s)}], list[Max(s)], order)

Folds(f, list, order, S) == f = [s \in SUBSET S |-> MatchStep(f, list, order, s)]

LEMMA MatchBatchDef ==
  ASSUME NEW list, NEW order
  PROVE  MatchBatch(list, order)
           = (CHOOSE f : Folds(f, list, order, DOMAIN list))[DOMAIN list]
  BY DEF MatchBatch, FoldLeft, MapThenFoldSet, Folds, MatchStep

UpTo(S, n) == {s \in SUBSET S : Cardinality(s) <= n}

LEMMA WithoutLast ==
  ASSUME NEW n \in Nat, NEW s \in SUBSET (1..n), s # {}
  PROVE  /\ Max(s) \in s /\ s \ {Max(s)} \in SUBSET (1..n)
         /\ Cardinality(s) \in Nat /\ Cardinality(s \ {Max(s)}) = Cardinality(s) - 1
<1>1. IsFiniteSet(1..n)
  BY FS_Interval
<1>2. IsFiniteSet(s)
  BY <1>1, FS_Subset
<1> QED BY <1>2, MaxFacts, FS_RemoveElement, FS_CardinalityType

LEMMA FoldsExist ==
  ASSUME NEW N \in Nat, NEW list, NEW order
  PROVE  \E f : Folds(f, list, order, 1..N)
<1> DEFINE S == 1..N
<1> DEFINE Step(f, s) == MatchStep(f, list, order, s)
<1> DEFINE Table(f, n) == f = [s \in UpTo(S, n) |-> Step(f, s)]
<1> DEFINE T == {n \in Nat : ~ \E f : Table(f, n)}
<1>0. IsFiniteSet(S)
  BY FS_Interval
<1>1. \E f : Table(f, 0)
  <2> DEFINE f == [s \in UpTo(S, 0) |-> Begin]
  <2>1. ASSUME NEW s \in UpTo(S, 0) PROVE s = {}
    <3> HIDE DEF S
    <3>1. s \in SUBSET S /\ Cardinality(s) <= 0
      BY DEF UpTo
    <3>2. IsFiniteSet(s)
      BY <1>0, <3>1, FS_Subset
    <3>3. Cardinality(s) = 0
      BY <3>1, <3>2, FS_CardinalityType
    <3> QED BY <3>2, <3>3, FS_EmptySet
  <2>2. \A s \in UpTo(S, 0) : Step(f, s) = Begin
    BY <2>1 DEF MatchStep
  <2>3. f = [s \in UpTo(S, 0) |-> Step(f, s)]
    BY <2>2
  <2> HIDE DEF f
  <2> QED BY <2>3
<1>2. ASSUME NEW n \in Nat, n # 0, NEW f, Table(f, n - 1) PROVE \E e : Table(e, n)
  <2> DEFINE e == [s \in UpTo(S, n) |-> Step(f, s)]
  <2>1. \A s \in UpTo(S, n) : s # {} => s \ {Max(s)} \in UpTo(S, n - 1)
    <3> SUFFICES ASSUME NEW s \in UpTo(S, n), s # {} PROVE s \ {Max(s)} \in UpTo(S, n - 1)
      OBVIOUS
    <3>1. s \in SUBSET S /\ Cardinality(s) <= n
      BY DEF UpTo
    <3> QED BY <3>1, WithoutLast DEF UpTo
  <2>2. \A s \in UpTo(S, n - 1) : s \in UpTo(S, n) /\ f[s] = Step(f, s)
    <3> SUFFICES ASSUME NEW s \in UpTo(S, n - 1) PROVE s \in UpTo(S, n) /\ f[s] = Step(f, s)
      OBVIOUS
    <3>1. s \in SUBSET S /\ Cardinality(s) <= n - 1 /\ Cardinality(s) \in Nat
      BY <1>0, FS_Subset, FS_CardinalityType DEF UpTo
    <3>2. s \in UpTo(S, n)
      BY <3>1 DEF UpTo
    <3>3. f = [t \in UpTo(S, n - 1) |-> Step(f, t)]
      BY <1>2
    <3> HIDE DEF Step
    <3> QED BY <3>2, <3>3
  <2>3. \A s \in UpTo(S, n - 1) : e[s] = f[s]
    BY <2>2
  <2>4. \A s \in UpTo(S, n) : Step(e, s) = Step(f, s)
    <3> HIDE DEF e, S
    <3> QED BY <2>1, <2>3 DEF MatchStep
  <2>5. e = [s \in UpTo(S, n) |-> Step(e, s)]
    BY <2>4
  <2> HIDE DEF e
  <2> QED BY <2>5
<1>3. T = {}
  <2> SUFFICES ASSUME T # {} PROVE FALSE
    OBVIOUS
  <2>1. PICK n \in T : \A m \in T : n <= m
    BY LeastNatural
  <2>2. n \in Nat /\ ~ \E f : Table(f, n)
    OBVIOUS
  <2>3. n # 0
    BY <2>2, <1>1
  <2>4. n - 1 \in Nat /\ n - 1 \notin T
    <3> HIDE DEF T
    <3> QED BY <2>1, <2>2, <2>3
  <2>5. \E f : Table(f, n - 1)
    BY <2>4
  <2> HIDE DEF Table
  <2> QED BY <2>2, <2>3, <2>5, <1>2
<1>4. Cardinality(S) \in Nat /\ UpTo(S, Cardinality(S)) = SUBSET S
  BY <1>0, FS_CardinalityType, FS_Subset DEF UpTo
<1>5. PICK f : Table(f, Cardinality(S))
  BY <1>3, <1>4
<1>6. f = [s \in SUBSET S |-> Step(f, s)]
  BY <1>4, <1>5
<1> QED BY <1>6 DEF Folds

(* What MatchBatch does, as the states after each monitor of the list.     *)
Runs(run, list, order, N) ==
  /\ run[0] = Begin
  /\ \A k \in 1..N : run[k] = Match(run[k - 1], list[k], order)

LEMMA BatchRuns ==
  ASSUME NEW N \in Nat, NEW list, DOMAIN list = 1..N, NEW order
  PROVE  \E run : Runs(run, list, order, N) /\ MatchBatch(list, order) = run[N]
<1>1. PICK f : Folds(f, list, order, 1..N) /\ MatchBatch(list, order) = f[1..N]
  BY FoldsExist, MatchBatchDef
<1> DEFINE run == [k \in 0..N |-> f[1..k]]
<1>2. run[0] = Begin
  <2>1. 1..0 = {}
    OBVIOUS
  <2>2. f[{}] = Begin
    BY <1>1 DEF Folds, MatchStep
  <2> QED BY <2>1, <2>2
<1>3. ASSUME NEW k \in 1..N PROVE run[k] = Match(run[k - 1], list[k], order)
  <2>0. k \in Nat /\ 1 <= k /\ k <= N
    OBVIOUS
  <2>1. 1..k \in SUBSET (1..N) /\ 1..k # {} /\ k \in 1..k
    BY <2>0
  <2>2. Max(1..k) = k
    <3>1. Max(1..k) \in 1..k /\ k <= Max(1..k)
      BY <2>1, MaxFacts
    <3> QED BY <3>1
  <2>3. (1..k) \ {k} = 1..(k - 1)
    OBVIOUS
  <2>4. f[1..k] = Match(f[1..(k - 1)], list[k], order)
    BY <1>1, <2>1, <2>2, <2>3 DEF Folds, MatchStep
  <2>5. k \in 0..N /\ k - 1 \in 0..N
    OBVIOUS
  <2> QED BY <2>4, <2>5
<1>4. MatchBatch(list, order) = run[N]
  BY <1>1
<1> HIDE DEF run
<1> QED BY <1>2, <1>3, <1>4 DEF Runs

-----------------------------------------------------------------------------
(* The invariant of the loop of MatchBatch, after k monitors of the list.  *)

MatchState == [given : [Nodes -> Monitors \cup {NoMonitor}], count : [Domains -> Nat],
               last : [Domains -> Nodes \cup {NoNode}]]

On(order) == {order[i] : i \in DOMAIN order}
Busy(given) == {n \in Nodes : given[n] # NoMonitor}
BusyWith(given, d) == {n \in Busy(given) : Domain[given[n]] = d}

ChecksUpTo(k, list, given, d) ==
  {i \in 1..k : Domain[list[i]] = d /\ Given(given, list[i]) # {}}

(* Who has a monitor was online, and no two have the same.                 *)
GivenOnce(s, list, order, k) ==
  /\ Busy(s.given) \subseteq On(order)
  /\ \A n \in Busy(s.given) : \E i \in 1..k : s.given[n] = list[i]
  /\ \A n, o \in Busy(s.given) : s.given[n] = s.given[o] => n = o

Counted(s) ==
  \A d \in Domains :
    s.count[d] = Cardinality(BusyWith(s.given, d)) /\ s.count[d] <= PerDomain

(* What was left out had its share, or no node but one was idle.           *)
LeftOut(s, list, order, k) ==
  \A i \in 1..k :
    Given(s.given, list[i]) = {}
      => \/ s.count[Domain[list[i]]] >= PerDomain
         \/ \E x : On(order) \ Busy(s.given) \subseteq {x}

(* The scheduler's last node of a domain has the last check so far, and    *)
(* who has the first one is not who had the domain before the batch.       *)
Turns(s, list, k) ==
  \A d \in Domains :
    LET checks == ChecksUpTo(k, list, s.given, d)
    IN  /\ checks = {} => s.last[d] = lastUsed[d]
        /\ \A i \in checks :
             (\A j \in checks : j <= i) => s.last[d] \in Given(s.given, list[i])
        /\ \A i \in checks :
             (\A j \in checks : i <= j) => lastUsed[d] \notin Given(s.given, list[i])

LoopInv(s, list, order, k) ==
  /\ s \in MatchState
  /\ GivenOnce(s, list, order, k) /\ Counted(s)
  /\ LeftOut(s, list, order, k) /\ Turns(s, list, k)

(* A list of monitors and one of nodes, without repetitions.               *)
Listed(list, N) ==
  list \in [1..N -> Monitors] /\ \A i, j \in 1..N : i # j => list[i] # list[j]

Ordered(order) == \E n \in Nat : order \in [1..n -> Nodes]

LEMMA LoopBegins ==
  ASSUME NEW list, NEW order, lastUsed \in [Domains -> Nodes \cup {NoNode}]
  PROVE  LoopInv(Begin, list, order, 0)
<1>1. Begin \in MatchState
  BY DEF Begin, MatchState
<1>2. Busy(Begin.given) = {}
  BY DEF Begin, Busy
<1>3. GivenOnce(Begin, list, order, 0)
  BY <1>2 DEF GivenOnce
<1>4. Counted(Begin)
  <2>1. \A d \in Domains : BusyWith(Begin.given, d) = {}
    BY <1>2 DEF BusyWith
  <2>2. \A d \in Domains : Begin.count[d] = 0
    BY DEF Begin
  <2> QED BY <2>1, <2>2, FS_EmptySet, BoundsAssumption DEF Counted
<1>5. 1..0 = {}
  OBVIOUS
<1>6. LeftOut(Begin, list, order, 0)
  BY <1>5 DEF LeftOut
<1>7. Turns(Begin, list, 0)
  <2>1. \A d \in Domains : ChecksUpTo(0, list, Begin.given, d) = {}
    BY <1>5 DEF ChecksUpTo
  <2> QED BY <2>1 DEF Turns, Begin
<1> QED BY <1>1, <1>3, <1>4, <1>6, <1>7 DEF LoopInv

(* A monitor is left out, or goes to an idle node that did not have its    *)
(* domain last.                                                            *)
LEMMA MatchEffect ==
  ASSUME NEW s \in MatchState, NEW m \in Monitors, NEW order, Ordered(order)
  PROVE  \/ /\ Match(s, m, order) = s
            /\ \/ s.count[Domain[m]] >= PerDomain
               \/ On(order) \ Busy(s.given) \subseteq {s.last[Domain[m]]}
         \/ /\ s.count[Domain[m]] < PerDomain
            /\ \E n \in Nodes \cap On(order) :
                 /\ s.given[n] = NoMonitor /\ n # s.last[Domain[m]]
                 /\ Match(s, m, order) = Assign(s, m, n)
<1> DEFINE places == Eligible(s, Domain[m], order)
<1>1. Domain[m] \in Domains /\ s.count[Domain[m]] \in Nat /\ PerDomain \in Nat
  BY MonitorsAssumption, BoundsAssumption DEF MatchState
<1>2. PICK n \in Nat : order \in [1..n -> Nodes]
  BY DEF Ordered
<1>3. CASE s.count[Domain[m]] >= PerDomain
  BY <1>3 DEF Match
<1>4. CASE places = {}
  <2>1. \A i \in DOMAIN order : s.given[order[i]] = NoMonitor => order[i] = s.last[Domain[m]]
    BY <1>4 DEF Eligible
  <2>2. On(order) \ Busy(s.given) \subseteq {s.last[Domain[m]]}
    BY <1>2, <2>1 DEF On, Busy
  <2> QED BY <1>4, <2>2 DEF Match
<1>5. CASE s.count[Domain[m]] < PerDomain /\ places # {}
  <2>1. places \in SUBSET (1..n)
    BY <1>2 DEF Eligible
  <2>2. Min(places) \in places
    BY <1>5, <2>1, MinFacts
  <2>3. order[Min(places)] \in Nodes \cap On(order)
        /\ s.given[order[Min(places)]] = NoMonitor /\ order[Min(places)] # s.last[Domain[m]]
    BY <1>2, <2>2 DEF Eligible, On
  <2>4. Match(s, m, order) = Assign(s, m, order[Min(places)])
    BY <1>1, <1>5 DEF Match
  <2> QED BY <1>5, <2>3, <2>4
<1> QED BY <1>1, <1>3, <1>4, <1>5

(* A monitor that was left out.                                            *)
LEMMA SkipKeeps ==
  ASSUME NEW N \in Nat, NEW list, Listed(list, N), NEW order, NEW k \in 1..N,
         NEW s, LoopInv(s, list, order, k - 1),
         \/ s.count[Domain[list[k]]] >= PerDomain
         \/ On(order) \ Busy(s.given) \subseteq {s.last[Domain[list[k]]]}
  PROVE  LoopInv(s, list, order, k)
<1>0. k \in Nat /\ 1 <= k /\ k <= N /\ \A i \in 1..k : i \in 1..(k - 1) \/ i = k
  OBVIOUS
<1>1. Given(s.given, list[k]) = {}
  <2> SUFFICES ASSUME NEW n \in Nodes, s.given[n] = list[k] PROVE FALSE
    BY DEF Given
  <2>1. list[k] \in Monitors
    BY DEF Listed
  <2>2. n \in Busy(s.given)
    BY <2>1, MonitorsAssumption DEF Busy
  <2>3. PICK i \in 1..(k - 1) : list[i] = list[k]
    BY <2>2 DEF LoopInv, GivenOnce
  <2>4. i \in 1..N /\ i # k
    BY <1>0
  <2> QED BY <2>3, <2>4 DEF Listed
<1>2. GivenOnce(s, list, order, k)
  <2>1. \A i \in 1..(k - 1) : i \in 1..k
    BY <1>0
  <2> QED BY <2>1 DEF LoopInv, GivenOnce
<1>3. LeftOut(s, list, order, k)
  BY <1>0 DEF LoopInv, LeftOut
<1>4. Turns(s, list, k)
  <2>1. \A d : ChecksUpTo(k, list, s.given, d) = ChecksUpTo(k - 1, list, s.given, d)
    BY <1>0, <1>1 DEF ChecksUpTo
  <2> QED BY <2>1 DEF LoopInv, Turns
<1> QED BY <1>2, <1>3, <1>4 DEF LoopInv

(* What giving monitor k of the list to an idle node n changes.            *)
Assigned(t, s, list, k, n) ==
  /\ t \in MatchState /\ list[k] \in Monitors /\ Domain[list[k]] \in Domains
  /\ \A o \in Nodes : t.given[o] = IF o = n THEN list[k] ELSE s.given[o]
  /\ \A d \in Domains :
       /\ t.count[d] = IF d = Domain[list[k]] THEN s.count[d] + 1 ELSE s.count[d]
       /\ t.last[d] = IF d = Domain[list[k]] THEN n ELSE s.last[d]
  /\ Busy(t.given) = Busy(s.given) \cup {n} /\ n \notin Busy(s.given)
  /\ \A i \in 1..(k - 1) : Given(t.given, list[i]) = Given(s.given, list[i])
  /\ Given(t.given, list[k]) = {n}

LEMMA AssignEffect ==
  ASSUME NEW N \in Nat, NEW list, Listed(list, N), NEW order, NEW k \in 1..N,
         NEW s, LoopInv(s, list, order, k - 1),
         NEW n \in Nodes, s.given[n] = NoMonitor, NEW t, t = Assign(s, list[k], n)
  PROVE  Assigned(t, s, list, k, n)
<1>1. list[k] \in Monitors /\ list[k] # NoMonitor /\ Domain[list[k]] \in Domains
  BY MonitorsAssumption DEF Listed
<1>2. s \in MatchState
  BY DEF LoopInv
<1>3. /\ t.given = [s.given EXCEPT ![n] = list[k]]
      /\ t.count = [s.count EXCEPT ![Domain[list[k]]] = @ + 1]
      /\ t.last = [s.last EXCEPT ![Domain[list[k]]] = n]
  BY DEF Assign
<1>4. t \in MatchState
  <2>1. t.given \in [Nodes -> Monitors \cup {NoMonitor}]
    BY <1>1, <1>2, <1>3 DEF MatchState
  <2>2. t.count \in [Domains -> Nat]
    BY <1>1, <1>2, <1>3 DEF MatchState
  <2>3. t.last \in [Domains -> Nodes \cup {NoNode}]
    BY <1>1, <1>2, <1>3 DEF MatchState
  <2> QED BY <2>1, <2>2, <2>3 DEF MatchState, Assign
<1>5. \A o \in Nodes : t.given[o] = IF o = n THEN list[k] ELSE s.given[o]
  BY <1>2, <1>3 DEF MatchState
<1>6. \A d \in Domains :
        /\ t.count[d] = IF d = Domain[list[k]] THEN s.count[d] + 1 ELSE s.count[d]
        /\ t.last[d] = IF d = Domain[list[k]] THEN n ELSE s.last[d]
  BY <1>2, <1>3 DEF MatchState
<1>7. Busy(t.given) = Busy(s.given) \cup {n} /\ n \notin Busy(s.given)
  BY <1>1, <1>5 DEF Busy
<1>8. ASSUME NEW i \in 1..(k - 1) PROVE Given(t.given, list[i]) = Given(s.given, list[i])
  <2>1. i \in 1..N /\ i # k
    OBVIOUS
  <2>2. list[i] # list[k] /\ list[i] # NoMonitor
    BY <2>1, MonitorsAssumption DEF Listed
  <2> QED BY <1>5, <2>2 DEF Given
<1>9. Given(t.given, list[k]) = {n}
  <2>1. ASSUME NEW o \in Nodes, s.given[o] = list[k] PROVE FALSE
    <3>1. o \in Busy(s.given)
      BY <1>1, <2>1 DEF Busy
    <3>2. PICK i \in 1..(k - 1) : list[i] = list[k]
      BY <2>1, <3>1 DEF LoopInv, GivenOnce
    <3>3. i \in 1..N /\ i # k
      OBVIOUS
    <3> QED BY <3>2, <3>3 DEF Listed
  <2> QED BY <1>5, <2>1 DEF Given
<1> QED BY <1>1, <1>4, <1>5, <1>6, <1>7, <1>8, <1>9 DEF Assigned

LEMMA AssignKeeps ==
  ASSUME NEW N \in Nat, NEW list, Listed(list, N), NEW order, NEW k \in 1..N,
         NEW s, LoopInv(s, list, order, k - 1),
         NEW n \in Nodes \cap On(order), s.given[n] = NoMonitor,
         n # s.last[Domain[list[k]]], s.count[Domain[list[k]]] < PerDomain,
         NEW t, t = Assign(s, list[k], n)
  PROVE  LoopInv(t, list, order, k)
<1> DEFINE dk == Domain[list[k]]
<1>0. /\ k \in Nat /\ 1 <= k /\ k <= N /\ k \in 1..k /\ k \notin 1..(k - 1)
      /\ \A i \in 1..k : i \in 1..(k - 1) \/ i = k
      /\ \A i \in 1..(k - 1) : i \in 1..k /\ i \in 1..N /\ i <= k /\ ~(k <= i)
  OBVIOUS
<1>1. /\ t \in MatchState /\ list[k] \in Monitors /\ dk \in Domains
      /\ \A o \in Nodes : t.given[o] = IF o = n THEN list[k] ELSE s.given[o]
      /\ \A d \in Domains :
           /\ t.count[d] = IF d = dk THEN s.count[d] + 1 ELSE s.count[d]
           /\ t.last[d] = IF d = dk THEN n ELSE s.last[d]
      /\ Busy(t.given) = Busy(s.given) \cup {n} /\ n \notin Busy(s.given)
      /\ \A i \in 1..(k - 1) : Given(t.given, list[i]) = Given(s.given, list[i])
      /\ Given(t.given, list[k]) = {n}
  <2>1. n \in Nodes
    OBVIOUS
  <2>2. Assigned(t, s, list, k, n)
    BY <2>1, AssignEffect
  <2> QED BY <2>2 DEF Assigned
<1> HIDE DEF dk
<1>2. s \in MatchState /\ GivenOnce(s, list, order, k - 1) /\ Counted(s)
      /\ LeftOut(s, list, order, k - 1) /\ Turns(s, list, k - 1)
  BY DEF LoopInv
<1>3. GivenOnce(t, list, order, k)
  <2>1. Busy(t.given) \subseteq On(order)
    BY <1>1, <1>2 DEF GivenOnce
  <2>2. ASSUME NEW o \in Busy(t.given) PROVE \E i \in 1..k : t.given[o] = list[i]
    <3>1. CASE o = n
      BY <1>0, <1>1, <3>1
    <3>2. CASE o # n
      <4>1. o \in Busy(s.given) /\ t.given[o] = s.given[o]
        BY <1>1, <2>2, <3>2 DEF Busy
      <4>2. PICK i \in 1..(k - 1) : s.given[o] = list[i]
        BY <1>2, <4>1 DEF GivenOnce
      <4> QED BY <1>0, <4>1, <4>2
    <3> QED BY <3>1, <3>2
  <2>3. ASSUME NEW o \in Busy(t.given), NEW p \in Busy(t.given), t.given[o] = t.given[p]
        PROVE  o = p
    <3>1. CASE t.given[o] = list[k]
      <4>1. o \in Given(t.given, list[k]) /\ p \in Given(t.given, list[k])
        BY <2>3, <3>1 DEF Given, Busy
      <4> QED BY <1>1, <4>1
    <3>2. CASE t.given[o] # list[k]
      <4>1. o # n /\ p # n /\ o \in Nodes /\ p \in Nodes
        BY <1>1, <2>3, <3>2 DEF Busy
      <4>2. o \in Busy(s.given) /\ p \in Busy(s.given) /\ s.given[o] = s.given[p]
        BY <1>1, <2>3, <4>1
      <4> QED BY <1>2, <4>2 DEF GivenOnce
    <3> QED BY <3>1, <3>2
  <2> QED BY <2>1, <2>2, <2>3 DEF GivenOnce
<1>4. ASSUME NEW d \in Domains
      PROVE  t.count[d] = Cardinality(BusyWith(t.given, d)) /\ t.count[d] <= PerDomain
  <2>1. IsFiniteSet(BusyWith(s.given, d))
    <3>1. BusyWith(s.given, d) \in SUBSET Nodes
      BY DEF BusyWith, Busy
    <3> QED BY <3>1, FiniteAssumption, FS_Subset
  <2>2. s.count[d] = Cardinality(BusyWith(s.given, d)) /\ s.count[d] <= PerDomain
        /\ s.count[d] \in Nat /\ PerDomain \in Nat
    BY <1>2, BoundsAssumption DEF Counted, MatchState
  <2>3. CASE d = dk
    <3>1. BusyWith(t.given, d) = BusyWith(s.given, d) \cup {n} /\ n \notin BusyWith(s.given, d)
      BY <1>1, <2>3 DEF BusyWith, Busy, dk
    <3>2. Cardinality(BusyWith(t.given, d)) = Cardinality(BusyWith(s.given, d)) + 1
      BY <2>1, <3>1, FS_AddElement
    <3> QED BY <1>1, <2>2, <2>3, <3>2 DEF dk
  <2>4. CASE d # dk
    <3>1. BusyWith(t.given, d) = BusyWith(s.given, d)
      BY <1>1, <2>4 DEF BusyWith, Busy, dk
    <3> QED BY <1>1, <2>2, <2>4, <3>1
  <2> QED BY <2>3, <2>4
<1>5. ASSUME NEW i \in 1..k, Given(t.given, list[i]) = {}
      PROVE  \/ t.count[Domain[list[i]]] >= PerDomain
             \/ \E x : On(order) \ Busy(t.given) \subseteq {x}
  <2>1. i \in 1..(k - 1)
    BY <1>0, <1>1, <1>5
  <2>2. Given(s.given, list[i]) = {}
    BY <1>1, <1>5, <2>1
  <2>3. Domain[list[i]] \in Domains
    BY <1>0, <2>1, MonitorsAssumption DEF Listed
  <2>4. CASE s.count[Domain[list[i]]] >= PerDomain
    <3>1. s.count[Domain[list[i]]] \in Nat /\ PerDomain \in Nat
      BY <1>2, <2>3, BoundsAssumption DEF MatchState
    <3>2. t.count[Domain[list[i]]] \in {s.count[Domain[list[i]]], s.count[Domain[list[i]]] + 1}
      BY <1>1, <2>3
    <3> QED BY <2>4, <3>1, <3>2
  <2>5. CASE \E x : On(order) \ Busy(s.given) \subseteq {x}
    BY <1>1, <2>5
  <2> QED BY <1>2, <2>1, <2>2, <2>4, <2>5 DEF LeftOut
<1>6. ASSUME NEW d \in Domains, NEW checks, checks = ChecksUpTo(k, list, t.given, d)
      PROVE  /\ checks = {} => t.last[d] = lastUsed[d]
             /\ \A i \in checks :
                  (\A j \in checks : j <= i) => t.last[d] \in Given(t.given, list[i])
             /\ \A i \in checks :
                  (\A j \in checks : i <= j) => lastUsed[d] \notin Given(t.given, list[i])
  <2> DEFINE before == ChecksUpTo(k - 1, list, s.given, d)
  <2>1. /\ before = {} => s.last[d] = lastUsed[d]
        /\ \A i \in before :
             (\A j \in before : j <= i) => s.last[d] \in Given(s.given, list[i])
        /\ \A i \in before :
             (\A j \in before : i <= j) => lastUsed[d] \notin Given(s.given, list[i])
    BY <1>2 DEF Turns
  <2>2. \A i \in before : i \in 1..(k - 1) /\ Given(t.given, list[i]) = Given(s.given, list[i])
    BY <1>1 DEF ChecksUpTo
  <2>3. CASE d = dk
    <3>1. checks = before \cup {k}
      BY <1>0, <1>1, <1>6, <2>3 DEF ChecksUpTo, dk
    <3>2. t.last[d] = n /\ n # s.last[d]
      BY <1>1, <2>3 DEF dk
    <3>3. ASSUME NEW i \in checks, \A j \in checks : j <= i PROVE i = k
      BY <1>0, <2>2, <3>1, <3>3
    <3>4. ASSUME NEW i \in checks, \A j \in checks : i <= j
          PROVE  lastUsed[d] \notin Given(t.given, list[i])
      <4>1. CASE before = {}
        <5>1. i = k /\ n # lastUsed[d]
          BY <2>1, <3>1, <3>2, <4>1
        <5> QED BY <1>1, <5>1
      <4>2. CASE before # {}
        <5>1. PICK j \in before : TRUE
          BY <4>2
        <5>2. i # k
          BY <1>0, <2>2, <3>1, <3>4, <5>1
        <5>3. i \in before /\ \A l \in before : i <= l
          BY <3>1, <3>4, <5>2
        <5> QED BY <2>1, <2>2, <5>3
      <4> QED BY <4>1, <4>2
    <3> HIDE DEF before
    <3> QED BY <1>1, <3>1, <3>2, <3>3, <3>4
  <2>4. CASE d # dk
    <3>1. checks = before
      BY <1>0, <1>1, <1>6, <2>4 DEF ChecksUpTo, dk
    <3>2. t.last[d] = s.last[d]
      BY <1>1, <2>4
    <3> HIDE DEF before
    <3> QED BY <2>1, <2>2, <3>1, <3>2
  <2> QED BY <2>3, <2>4
<1>7. Counted(t)
  BY <1>4 DEF Counted
<1>8. LeftOut(t, list, order, k)
  BY <1>5 DEF LeftOut
<1>9. Turns(t, list, k)
  BY <1>6 DEF Turns
<1> QED BY <1>1, <1>3, <1>7, <1>8, <1>9 DEF LoopInv

LEMMA LoopKeeps ==
  ASSUME NEW N \in Nat, NEW list, Listed(list, N), NEW order, Ordered(order), NEW k \in 1..N,
         NEW s, LoopInv(s, list, order, k - 1)
  PROVE  LoopInv(Match(s, list[k], order), list, order, k)
<1>1. s \in MatchState /\ list[k] \in Monitors
  BY DEF LoopInv, Listed
<1>2. CASE /\ Match(s, list[k], order) = s
           /\ \/ s.count[Domain[list[k]]] >= PerDomain
              \/ On(order) \ Busy(s.given) \subseteq {s.last[Domain[list[k]]]}
  BY <1>2, SkipKeeps
<1>3. ASSUME s.count[Domain[list[k]]] < PerDomain, NEW n \in Nodes \cap On(order),
             s.given[n] = NoMonitor, n # s.last[Domain[list[k]]],
             Match(s, list[k], order) = Assign(s, list[k], n)
      PROVE  LoopInv(Match(s, list[k], order), list, order, k)
  BY <1>3, AssignKeeps
<1> QED BY <1>1, <1>2, <1>3, MatchEffect

LEMMA BatchLoop ==
  ASSUME NEW N \in Nat, NEW list, Listed(list, N), NEW order, Ordered(order),
         lastUsed \in [Domains -> Nodes \cup {NoNode}]
  PROVE  LoopInv(MatchBatch(list, order), list, order, N)
<1>1. DOMAIN list = 1..N
  BY DEF Listed
<1>2. PICK run : Runs(run, list, order, N) /\ MatchBatch(list, order) = run[N]
  BY <1>1, BatchRuns
<1> DEFINE T == {k \in 0..N : ~LoopInv(run[k], list, order, k)}
<1>3. T = {}
  <2> SUFFICES ASSUME T # {} PROVE FALSE
    OBVIOUS
  <2>1. T \in SUBSET Nat
    OBVIOUS
  <2>2. PICK k \in T : \A i \in T : k <= i
    BY <2>1, LeastNatural
  <2>3. k \in 0..N /\ ~LoopInv(run[k], list, order, k)
    OBVIOUS
  <2>4. k # 0
    BY <1>2, <2>3, LoopBegins DEF Runs
  <2>5. k \in 1..N /\ k - 1 \in 0..N /\ ~(k <= k - 1)
    BY <2>3, <2>4
  <2>6. LoopInv(run[k - 1], list, order, k - 1)
    BY <2>2, <2>5
  <2>7. run[k] = Match(run[k - 1], list[k], order)
    BY <1>2, <2>5 DEF Runs
  <2> QED BY <2>3, <2>5, <2>6, <2>7, LoopKeeps
<1>4. N \in 0..N
  OBVIOUS
<1> QED BY <1>2, <1>3, <1>4

(* The lists a batch is made of.                                           *)
LEMMA ListsListed ==
  ASSUME TypeOK, NEW list \in Lists
  PROVE  \E N \in Nat : Listed(list, N) /\ DOMAIN list = 1..N
<1>1. FindMany(due) \in SUBSET Monitors
  BY DEF TypeOK, FindMany
<1>2. Cardinality(FindMany(due)) \in Nat
  BY <1>1, FiniteAssumption, FS_Subset, FS_CardinalityType
<1>3. list \in [1..Cardinality(FindMany(due)) -> FindMany(due)]
      /\ \A i, j \in 1..Cardinality(FindMany(due)) : i # j => list[i] # list[j]
  BY DEF Lists, SetToSeqs
<1> QED BY <1>1, <1>2, <1>3 DEF Listed

LEMMA OrdersOrdered ==
  ASSUME NEW order \in Orders
  PROVE  Ordered(order)
<1>1. PICK on \in SUBSET Nodes : order \in SetToSeqs(on)
  BY DEF Orders
<1>2. Cardinality(on) \in Nat
  BY FiniteAssumption, FS_Subset, FS_CardinalityType
<1>3. order \in [1..Cardinality(on) -> on]
  BY <1>1 DEF SetToSeqs
<1> QED BY <1>2, <1>3 DEF Ordered

ServedInv == served = lastUsed /\ lastUsed \in [Domains -> Nodes \cup {NoNode}]

(* A check is done by one node.                                            *)
LEMMA OneNode ==
  ASSUME NEW s, NEW list, NEW order, NEW k, GivenOnce(s, list, order, k),
         NEW m \in Monitors, NEW n \in Given(s.given, m), NEW o \in Given(s.given, m)
  PROVE  n = o
  BY MonitorsAssumption DEF GivenOnce, Given, Busy

LEMMA NodeOfGiven ==
  ASSUME NEW list, NEW given, NEW i, Given(given, list[i]) # {}
  PROVE  NodeOf(list, given, i) \in Given(given, list[i])
  BY DEF NodeOf, Given

(* What the scheduler remembers is who checked last.                       *)
LEMMA ServedKept ==
  ASSUME TypeOK, ServedInv, [Next]_vars
  PROVE  ServedInv'
<1>1. ASSUME NEW list \in Lists, NEW order \in Orders,
             NEW batch, batch = MatchBatch(list, order),
             lastUsed' = batch.last,
             served' = [d \in Domains |->
               IF ChecksOf(list, batch.given, d) = {} THEN served[d]
               ELSE NodeOf(list, batch.given, Max(ChecksOf(list, batch.given, d)))]
      PROVE  ServedInv'
  <2>1. PICK N \in Nat : Listed(list, N) /\ DOMAIN list = 1..N
    BY ListsListed
  <2>2. LoopInv(batch, list, order, N)
    BY <1>1, <2>1, OrdersOrdered, BatchLoop DEF ServedInv
  <2>3. lastUsed' \in [Domains -> Nodes \cup {NoNode}]
    BY <1>1, <2>2 DEF LoopInv, MatchState
  <2>4. ASSUME NEW d \in Domains PROVE served'[d] = lastUsed'[d]
    <3> DEFINE checks == ChecksOf(list, batch.given, d)
    <3>1. checks = ChecksUpTo(N, list, batch.given, d) /\ checks \in SUBSET (1..N)
      BY <2>1 DEF ChecksOf, ChecksUpTo
    <3>2. CASE checks = {}
      <4>1. batch.last[d] = lastUsed[d]
        BY <2>2, <3>1, <3>2 DEF LoopInv, Turns
      <4> QED BY <1>1, <3>2, <4>1 DEF ServedInv
    <3>3. CASE checks # {}
      <4>1. Max(checks) \in checks /\ \A j \in checks : j <= Max(checks)
        BY <3>1, <3>3, MaxFacts
      <4>2. batch.last[d] \in Given(batch.given, list[Max(checks)])
        BY <2>2, <3>1, <4>1 DEF LoopInv, Turns
      <4>3. NodeOf(list, batch.given, Max(checks)) \in Given(batch.given, list[Max(checks)])
        BY <4>2, NodeOfGiven
      <4>4. list[Max(checks)] \in Monitors
        BY <2>1, <3>1, <4>1 DEF Listed
      <4>5. NodeOf(list, batch.given, Max(checks)) = batch.last[d]
        BY <2>2, <4>2, <4>3, <4>4, OneNode DEF LoopInv
      <4> QED BY <1>1, <3>3, <4>5
    <3> QED BY <3>2, <3>3
  <2>5. served' = lastUsed'
    <3>1. served' = [d \in Domains |-> served'[d]]
      BY <1>1
    <3> QED BY <2>3, <2>4, <3>1
  <2> QED BY <2>3, <2>5 DEF ServedInv
<1>2. CASE Dispatch
  BY <1>1, <1>2 DEF Dispatch
<1>3. CASE UNCHANGED matchVars
  BY <1>3 DEF ServedInv, matchVars
<1> QED
  BY <1>2, <1>3 DEF Next, Serve, Del, DelFails, Arm, EndEarly, Create, Delete, UpdateActive,
                    Write, Fund, ReadTable, SetKey, vars

LEMMA RotationFollows == TypeOK /\ ServedInv => Rotation
<1> SUFFICES ASSUME TypeOK, ServedInv, NEW list \in Lists, NEW order \in Orders,
                    NEW d \in Domains, NEW batch, batch = MatchBatch(list, order),
                    NEW checks, checks = ChecksOf(list, batch.given, d), checks # {}
             PROVE  NodeOf(list, batch.given, Min(checks)) # served[d]
  BY DEF Rotation
<1>1. PICK N \in Nat : Listed(list, N) /\ DOMAIN list = 1..N
  BY ListsListed
<1>2. LoopInv(batch, list, order, N)
  BY <1>1, OrdersOrdered, BatchLoop DEF ServedInv
<1>3. checks = ChecksUpTo(N, list, batch.given, d) /\ checks \in SUBSET (1..N)
  BY <1>1 DEF ChecksOf, ChecksUpTo
<1>4. Min(checks) \in checks /\ \A j \in checks : Min(checks) <= j
  BY <1>3, MinFacts
<1>5. lastUsed[d] \notin Given(batch.given, list[Min(checks)])
  BY <1>2, <1>3, <1>4 DEF LoopInv, Turns
<1>6. NodeOf(list, batch.given, Min(checks)) \in Given(batch.given, list[Min(checks)])
  BY <1>4, NodeOfGiven DEF ChecksOf
<1> QED BY <1>5, <1>6 DEF ServedInv

(* No node checks a domain twice in a row, whatever the batches before and *)
(* after, whichever nodes are online and in whatever order they are asked  *)
(* (services/registry.go:134-140).                                         *)
THEOREM NodesRotate == Spec => []Rotation
<1>1. Init => ServedInv
  BY DEF Init, ServedInv
<1>2. TypeOK /\ ServedInv /\ [Next]_vars => ServedInv'
  BY ServedKept
<1> QED
  BY <1>1, <1>2, RotationFollows, TypeCorrect, PTL DEF Spec

(* What BatchIsFull says of one batch.                                     *)
Full(given, list, order) ==
  /\ Busy(given) \subseteq On(order)
  /\ \A m \in Monitors : Cardinality(Given(given, m)) <= 1
  /\ \A d \in Domains : Cardinality(BusyWith(given, d)) <= PerDomain
  /\ (\E i \in DOMAIN list :
        Given(given, list[i]) = {} /\ Cardinality(BusyWith(given, Domain[list[i]])) < PerDomain)
       => Cardinality(On(order) \ Busy(given)) <= 1

LEMMA FullFollows ==
  ASSUME TypeOK, ServedInv, NEW list \in Lists, NEW order \in Orders,
         NEW batch, batch = MatchBatch(list, order)
  PROVE  Full(batch.given, list, order)
<1>1. PICK N \in Nat : Listed(list, N) /\ DOMAIN list = 1..N
  BY ListsListed
<1>2. LoopInv(batch, list, order, N)
  BY <1>1, OrdersOrdered, BatchLoop DEF ServedInv
<1>3. \A S, x : S \subseteq {x} => Cardinality(S) <= 1
  <2> SUFFICES ASSUME NEW S, NEW x, S \subseteq {x} PROVE Cardinality(S) <= 1
    OBVIOUS
  <2>1. S = {} \/ S = {x}
    OBVIOUS
  <2>2. CASE S = {}
    BY <2>2, FS_EmptySet
  <2>3. CASE S = {x}
    BY <2>3, FS_Singleton
  <2> QED BY <2>1, <2>2, <2>3
<1>4. ASSUME NEW m \in Monitors PROVE Cardinality(Given(batch.given, m)) <= 1
  <2>1. \E x : Given(batch.given, m) \subseteq {x}
    <3>1. CASE Given(batch.given, m) = {}
      BY <3>1
    <3>2. CASE Given(batch.given, m) # {}
      <4>1. PICK n \in Given(batch.given, m) : TRUE
        BY <3>2
      <4>2. \A o \in Given(batch.given, m) : o = n
        BY <1>2, <4>1, OneNode DEF LoopInv
      <4> QED BY <4>2
    <3> QED BY <3>1, <3>2
  <2> QED BY <1>3, <2>1
<1>5. ASSUME NEW i \in DOMAIN list, Given(batch.given, list[i]) = {},
             Cardinality(BusyWith(batch.given, Domain[list[i]])) < PerDomain
      PROVE  Cardinality(On(order) \ Busy(batch.given)) <= 1
  <2>1. Domain[list[i]] \in Domains /\ i \in 1..N
    BY <1>1, MonitorsAssumption DEF Listed
  <2>2. batch.count[Domain[list[i]]] = Cardinality(BusyWith(batch.given, Domain[list[i]]))
        /\ batch.count[Domain[list[i]]] \in Nat
    BY <1>2, <2>1 DEF LoopInv, Counted, MatchState
  <2>3. \E x : On(order) \ Busy(batch.given) \subseteq {x}
    BY <1>2, <1>5, <2>1, <2>2, BoundsAssumption DEF LoopInv, LeftOut
  <2> QED BY <1>3, <2>3
<1>6. Busy(batch.given) \subseteq On(order)
  BY <1>2 DEF LoopInv, GivenOnce
<1>7. \A d \in Domains : Cardinality(BusyWith(batch.given, d)) <= PerDomain
  BY <1>2 DEF LoopInv, Counted
<1> QED BY <1>4, <1>5, <1>6, <1>7 DEF Full

(* A batch gives a monitor to one online node at most and a domain no more *)
(* than its share, and leaves monitors waiting only with one node idle, for*)
(* any number of monitors, domains and nodes (services/registry.go:108-145).*)
THEOREM BatchesAreFull == Spec => []BatchIsFull
<1>1. Init => ServedInv
  BY DEF Init, ServedInv
<1>2. TypeOK /\ ServedInv /\ [Next]_vars => ServedInv'
  BY ServedKept
<1>3. TypeOK /\ ServedInv => BatchIsFull
  <2>1. TypeOK /\ ServedInv =>
          \A list \in Lists, order \in Orders : Full(MatchBatch(list, order).given, list, order)
    BY FullFollows
  <2> QED BY <2>1 DEF BatchIsFull, Full, Busy, On, BusyWith
<1> QED
  BY <1>1, <1>2, <1>3, TypeCorrect, PTL DEF Spec
=============================================================================
