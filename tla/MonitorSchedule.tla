--------------------------- MODULE MonitorSchedule ---------------------------
(***************************************************************************)
(* Monitors, what Redis holds of them for the scheduler, and the matching  *)
(* of due monitors to online nodes (services/monitor_service.go,           *)
(* db/repositories/monitor_repo.go, SmartScheduler in services/registry.go).*)
(*                                                                         *)
(* An endpoint writes the row of the table and then the keys in Redis, as  *)
(* steps of its handler; an error of a Redis command is ignored or logged, *)
(* and a handler may end between two steps.  The cached list is filled by  *)
(* its reader, who is not part of the service: it reads the table when the *)
(* key is absent, and sets the key afterwards.                             *)
(* Operators named Bug... are mutants of the definition after them.        *)
(***************************************************************************)
EXTENDS Integers, FiniteSets, SequencesExt

CONSTANTS
  Monitors,
  Existing,      \* monitors created before the process began
  Owners, Owner, \* Owner[m]: the user monitor m belongs to
  Domains, Domain, \* Domain[m]: the host of its target
  Nodes,         \* public keys of nodes that may be online
  Handlers,      \* request goroutines
  PerDomain,     \* checks of one domain in a batch: 5 in the code
  NoList, NoNode, NoMonitor,
  MaxChanges,    \* bound: requests, and changes of an owner's balance
  MaxFaults      \* bound: Redis commands that fail or are never sent

ASSUME FiniteAssumption == IsFiniteSet(Monitors) /\ IsFiniteSet(Nodes)
ASSUME MonitorsAssumption ==
  /\ Existing \subseteq Monitors /\ NoMonitor \notin Monitors /\ NoNode \notin Nodes
  /\ Owner \in [Monitors -> Owners] /\ Domain \in [Monitors -> Domains]
ASSUME NoListAssumption == \A list \in SUBSET Monitors : list # NoList
ASSUME BoundsAssumption == PerDomain \in Nat /\ MaxChanges \in Nat /\ MaxFaults \in Nat

VARIABLES
  row,         \* row[m]: "none", "active", "paused", "deleted"
  funded,      \* owners whose users.credit_balance is positive
  cache,       \* cache:active_monitors, NoList when the key is absent
  fill,        \* the list its reader has read and not yet set
  due,         \* members of scheduler:due
  hand,        \* hand[h]: next Redis command of handler h, and its monitor
  lastUsed,    \* the scheduler's node last assigned per domain
  changes, faults,
  behind,      \* history: monitors whose last change no deletion of the key followed
  served       \* history: the node that checked each domain last

tableVars == <<row, funded>>
redisVars == <<cache, fill, due>>
matchVars == <<lastUsed, served>>
vars == <<tableVars, redisVars, matchVars, hand, changes, faults, behind>>

Idle == [pc |-> "idle", monitor |-> NoMonitor]

Init ==
  /\ row = [m \in Monitors |-> IF m \in Existing THEN "active" ELSE "none"]
  /\ funded = Owners
  /\ cache = NoList /\ fill = NoList /\ due = Existing
  /\ hand = [h \in Handlers |-> Idle]
  /\ lastUsed = [d \in Domains |-> NoNode] /\ served = lastUsed
  /\ changes = 0 /\ faults = 0 /\ behind = {}

-----------------------------------------------------------------------------
(* The endpoints.                                                          *)

Change == changes < MaxChanges /\ changes' = changes + 1

(* A change while the reader holds a list may be missing from the list.    *)
Changed(monitors) == behind' = IF fill = NoList THEN behind ELSE behind \cup monitors

BugWrite(h, m, status, next) ==
  /\ hand[h] = Idle /\ Change
  /\ row' = [row EXCEPT ![m] = status] /\ Changed({i \in {m} : row[i] # status})
  /\ UNCHANGED <<funded, redisVars, matchVars, hand, faults>>

(* The row is written first.                                               *)
Write(h, m, status, next) ==
  /\ hand[h] = Idle /\ Change
  /\ row' = [row EXCEPT ![m] = status] /\ Changed({i \in {m} : row[i] # status})
  /\ hand' = [hand EXCEPT ![h] = [pc |-> next, monitor |-> m]]
  /\ UNCHANGED <<funded, redisVars, matchVars, faults>>

Create(h, m) == row[m] = "none" /\ Write(h, m, "active", "del-arm")

(* UPDATE ... WHERE deleted_at IS NULL: of a deleted monitor, no row.      *)
UpdateActive(h, m, status) ==
  row[m] # "none" /\ Write(h, m, IF row[m] = "deleted" THEN "deleted" ELSE status, "del")

(* WHERE owner_id: of another user's monitor, no row.                      *)
Delete(h, m, o) ==
  row[m] # "none" /\ Write(h, m, IF Owner[m] = o THEN "deleted" ELSE row[m], "del")

(* The commands after it.                                                  *)
AfterDel(h) == IF hand[h].pc = "del-arm" THEN [hand[h] EXCEPT !.pc = "arm"] ELSE Idle

Del(h) ==
  /\ hand[h].pc \in {"del", "del-arm"}
  /\ cache' = NoList
  /\ hand' = [hand EXCEPT ![h] = AfterDel(h)]
  /\ UNCHANGED <<tableVars, fill, due, matchVars, changes, faults, behind>>

DelFails(h) ==
  /\ hand[h].pc \in {"del", "del-arm"} /\ faults < MaxFaults /\ faults' = faults + 1
  /\ behind' = behind \cup {hand[h].monitor}
  /\ hand' = [hand EXCEPT ![h] = AfterDel(h)]
  /\ UNCHANGED <<tableVars, redisVars, matchVars, changes>>

(* ZADD scheduler:due 0 sched:monitor:<id>.                                *)
Arm(h) ==
  /\ hand[h].pc = "arm"
  /\ due' = due \cup {hand[h].monitor}
  /\ hand' = [hand EXCEPT ![h] = Idle]
  /\ UNCHANGED <<tableVars, cache, fill, matchVars, changes, faults, behind>>

(* The command fails, or the process ends before it.                       *)
EndEarly(h) ==
  /\ hand[h] # Idle /\ faults < MaxFaults /\ faults' = faults + 1
  /\ behind' = IF hand[h].pc = "arm" THEN behind ELSE behind \cup {hand[h].monitor}
  /\ hand' = [hand EXCEPT ![h] = Idle]
  /\ UNCHANGED <<tableVars, redisVars, matchVars, changes>>

-----------------------------------------------------------------------------
(* Around the service.                                                     *)

Live(m) == row[m] = "active" /\ Owner[m] \in funded
FindActive == {m \in Monitors : Live(m)}

(* A purchase, or the settlement of checks: no deletion of the key follows.*)
Fund(o) ==
  /\ Change
  /\ funded' = IF o \in funded THEN funded \ {o} ELSE funded \cup {o}
  /\ behind' = behind \cup {m \in Monitors : Owner[m] = o}
  /\ UNCHANGED <<row, redisVars, matchVars, hand, faults>>

ReadTable ==
  /\ cache = NoList /\ fill = NoList
  /\ fill' = FindActive /\ behind' = {}
  /\ UNCHANGED <<tableVars, cache, due, matchVars, hand, changes, faults>>

SetKey ==
  /\ fill # NoList /\ cache' = fill /\ fill' = NoList
  /\ UNCHANGED <<tableVars, due, matchVars, hand, changes, faults, behind>>

-----------------------------------------------------------------------------
(* MatchBatch: each monitor in turn gets the first online node that has    *)
(* none yet and did not have its domain last.                              *)

FindMany(ids) == {m \in ids : Live(m)}

BugEligible(s, d, order) == {i \in DOMAIN order : s.given[order[i]] = NoMonitor}

(* Where in the list of online nodes those are.                            *)
Eligible(s, d, order) ==
  {i \in DOMAIN order : s.given[order[i]] = NoMonitor /\ order[i] # s.last[d]}

Assign(s, m, n) ==
  [given |-> [s.given EXCEPT ![n] = m],
   count |-> [s.count EXCEPT ![Domain[m]] = @ + 1],
   last |-> [s.last EXCEPT ![Domain[m]] = n]]

BugMatch(s, m, order) ==
  LET places == Eligible(s, Domain[m], order)
  IN  IF places = {} THEN s ELSE Assign(s, m, order[Min(places)])

Match(s, m, order) ==
  LET places == Eligible(s, Domain[m], order)
  IN  IF s.count[Domain[m]] >= PerDomain \/ places = {} THEN s
      ELSE Assign(s, m, order[Min(places)])

Begin == [given |-> [n \in Nodes |-> NoMonitor], count |-> [d \in Domains |-> 0],
          last |-> lastUsed]

MatchBatch(list, order) == FoldLeft(LAMBDA s, m : Match(s, m, order), Begin, list)

(* The tables give the monitors, and a map of the registry the nodes, in   *)
(* no order of their own.                                                  *)
Lists == SetToSeqs(FindMany(due))
Orders == UNION {SetToSeqs(on) : on \in SUBSET Nodes}

Given(given, m) == {n \in Nodes : given[n] = m}

(* Where in the list the checks of domain d are, and who does one.         *)
ChecksOf(list, given, d) ==
  {i \in DOMAIN list : Domain[list[i]] = d /\ Given(given, list[i]) # {}}

NodeOf(list, given, i) == CHOOSE n \in Nodes : given[n] = list[i]

Dispatch ==
  \E list \in Lists, order \in Orders :
    LET batch == MatchBatch(list, order)
        checks(d) == ChecksOf(list, batch.given, d)
    IN  /\ lastUsed' = batch.last
        /\ served' = [d \in Domains |->
             IF checks(d) = {} THEN served[d] ELSE NodeOf(list, batch.given, Max(checks(d)))]
        /\ UNCHANGED <<tableVars, redisVars, hand, changes, faults, behind>>

-----------------------------------------------------------------------------
Serve(h) == Del(h) \/ DelFails(h) \/ Arm(h) \/ EndEarly(h)

Next ==
  \/ \E h \in Handlers :
       \/ Serve(h)
       \/ \E m \in Monitors :
            \/ Create(h, m)
            \/ \E o \in Owners : Delete(h, m, o)
            \/ \E status \in {"active", "paused"} : UpdateActive(h, m, status)
  \/ \E o \in Owners : Fund(o)
  \/ ReadTable \/ SetKey \/ Dispatch

Spec == Init /\ [][Next]_vars

-----------------------------------------------------------------------------
Hand == [pc : {"del", "del-arm", "arm"}, monitor : Monitors]

(* The shape of the table and of what concerns Redis.                      *)
TypeOK ==
  /\ row \in [Monitors -> {"none", "active", "paused", "deleted"}]
  /\ funded \subseteq Owners /\ due \subseteq Monitors /\ behind \subseteq Monitors
  /\ {cache, fill} \subseteq (SUBSET Monitors) \cup {NoList}
  /\ hand \in [Handlers -> Hand \cup {Idle}]

Deleting == {hand[h].monitor : h \in {i \in Handlers : hand[i].pc \in {"del", "del-arm"}}}

Mistaken(list) == (list \ FindActive) \cup (FindActive \ list)

(* The cached list of active monitors is wrong only about a monitor whose  *)
(* handler has yet to delete the key, whose deletion was lost, that        *)
(* changed while the list was on its way, or whose owner's balance changed.*)
CacheExplained ==
  /\ fill # NoList => Mistaken(fill) \subseteq behind
  /\ cache # NoList => Mistaken(cache) \subseteq behind \cup Deleting

(* No node checks a domain twice in a row, across batches, whichever nodes *)
(* and monitors come and go in between.                                    *)
Rotation ==
  \A list \in Lists, order \in Orders, d \in Domains :
    LET given == MatchBatch(list, order).given
        checks == ChecksOf(list, given, d)
    IN  checks # {} => NodeOf(list, given, Min(checks)) # served[d]

(* A batch gives each monitor to at most one online node and a domain no   *)
(* more than its share, and at most one online node stays idle while a     *)
(* monitor of a domain below its share is left out.                        *)
BatchIsFull ==
  \A list \in Lists, order \in Orders :
    LET given == MatchBatch(list, order).given
        online == {order[i] : i \in DOMAIN order}
        busy == {n \in Nodes : given[n] # NoMonitor}
        Share(d) == Cardinality({n \in busy : Domain[given[n]] = d})
    IN  /\ busy \subseteq online
        /\ \A m \in Monitors : Cardinality(Given(given, m)) <= 1
        /\ \A d \in Domains : Share(d) <= PerDomain
        /\ (\E i \in DOMAIN list :
              Given(given, list[i]) = {} /\ Share(Domain[list[i]]) < PerDomain)
             => Cardinality(online \ busy) <= 1
=============================================================================
