-------------------------- MODULE StakeMirrorProofs --------------------------
(***************************************************************************)
(* Proofs about the three modules of money.  Payments: a payment is        *)
(* credited at most once and, unless one of its handlers ends early, at    *)
(* least once, and an applied stake is recorded, for any number of         *)
(* handlers, transfers, retries and failures.  StakeProgram: the program   *)
(* keeps its promises about rewards, validators and the vault for any      *)
(* finite set of accounts and any amounts.  StakeMirror: the service with  *)
(* the chain refines both, so what is proved of a part holds of the whole, *)
(* and the row of a wallet shows what the program holds for it.            *)
(***************************************************************************)
EXTENDS StakeMirror, FiniteSetTheorems, TLAPS

-----------------------------------------------------------------------------
(* Sums over finite sets.  SumFunction takes one element of a set at a     *)
(* time; the table of its values exists for sets of any size, since there  *)
(* is no smallest size for which it does not.                              *)

First(s) == CHOOSE x \in s : TRUE

SumStep(f, g, s) == IF s = {} THEN 0 ELSE g[First(s)] + f[s \ {First(s)}]

(* f is the table of the sums of g over the sets of its arguments.         *)
SumsUp(f, g) == f = [s \in SUBSET DOMAIN g |-> SumStep(f, g, s)]

LEMMA SumFunctionDef ==
  ASSUME NEW g
  PROVE  SumFunction(g) = (CHOOSE f : SumsUp(f, g))[DOMAIN g]
  BY DEF SumFunction, SumFunctionOnSet, FoldFunctionOnSet, MapThenFoldSet, SumsUp, SumStep, First

(* Induction in the form of the smallest counterexample.                   *)
LEMMA LeastNatural ==
  ASSUME NEW T \in SUBSET Nat, T # {}
  PROVE  \E n \in T : \A m \in T : n <= m
<1>1. IsWellFoundedOn(OpToRel(<, Nat), Nat)
  BY NatLessThanWellFounded
<1>2. \E x \in T : \A y \in T : ~(<<y, x>> \in OpToRel(<, Nat))
  BY <1>1, WFMin
<1>3. \A x, y \in Nat : y < x => <<y, x>> \in OpToRel(<, Nat)
  BY Zenon DEF OpToRel
<1>4. \E x \in T : \A y \in T : ~(y < x)
  BY <1>2, <1>3, Zenon
<1> QED BY <1>4

(* Among subsets of a finite set one is smallest.                          *)
LEMMA LeastSubset ==
  ASSUME NEW S, IsFiniteSet(S), NEW P \in SUBSET SUBSET S, P # {}
  PROVE  \E s \in P : \A t \in P : Cardinality(s) <= Cardinality(t)
<1> DEFINE T == {Cardinality(s) : s \in P}
<1>1. \A s \in P : Cardinality(s) \in Nat
  BY FS_Subset, FS_CardinalityType
<1>2. T \in SUBSET Nat /\ T # {}
  BY <1>1
<1>3. PICK n \in T : \A m \in T : n <= m
  BY <1>2, LeastNatural
<1> QED BY <1>3

(* Without its first element, a set has one element less.                  *)
LEMMA WithoutFirst ==
  ASSUME NEW S, IsFiniteSet(S), NEW s \in SUBSET S, s # {}
  PROVE  /\ First(s) \in s /\ s \ {First(s)} \in SUBSET S
         /\ Cardinality(s) \in Nat /\ Cardinality(s \ {First(s)}) = Cardinality(s) - 1
<1>1. First(s) \in s
  BY DEF First
<1>2. IsFiniteSet(s)
  BY FS_Subset
<1> QED BY <1>1, <1>2, FS_RemoveElement, FS_CardinalityType

UpTo(S, n) == {s \in SUBSET S : Cardinality(s) <= n}

(* The table exists for the subsets of any size, and so for all.           *)
LEMMA SumsExist ==
  ASSUME NEW S, IsFiniteSet(S), NEW g \in [S -> Int]
  PROVE  \E f : SumsUp(f, g)
<1> DEFINE Table(f, n) == f = [s \in UpTo(S, n) |-> SumStep(f, g, s)]
<1> DEFINE T == {n \in Nat : ~ \E f : Table(f, n)}
<1>1. \E f : Table(f, 0)
  <2> DEFINE f == [s \in UpTo(S, 0) |-> 0]
  <2>1. \A s \in UpTo(S, 0) : s = {}
    BY FS_Subset, FS_EmptySet, FS_CardinalityType DEF UpTo
  <2>2. \A s \in UpTo(S, 0) : SumStep(f, g, s) = 0
    BY <2>1 DEF SumStep
  <2>3. f = [s \in UpTo(S, 0) |-> SumStep(f, g, s)]
    BY <2>2
  <2> HIDE DEF f
  <2> QED BY <2>3
<1>2. ASSUME NEW n \in Nat, n # 0, NEW f, Table(f, n - 1) PROVE \E e : Table(e, n)
  <2> DEFINE e == [s \in UpTo(S, n) |-> SumStep(f, g, s)]
  <2>1. \A s \in UpTo(S, n) : s # {} => s \ {First(s)} \in UpTo(S, n - 1)
    <3> SUFFICES ASSUME NEW s \in UpTo(S, n), s # {} PROVE s \ {First(s)} \in UpTo(S, n - 1)
      OBVIOUS
    <3>1. s \in SUBSET S /\ Cardinality(s) <= n
      BY DEF UpTo
    <3> QED BY <3>1, WithoutFirst DEF UpTo
  <2>2. \A s \in UpTo(S, n - 1) : s \in UpTo(S, n) /\ f[s] = SumStep(f, g, s)
    <3> SUFFICES ASSUME NEW s \in UpTo(S, n - 1) PROVE s \in UpTo(S, n) /\ f[s] = SumStep(f, g, s)
      OBVIOUS
    <3>1. s \in SUBSET S /\ Cardinality(s) <= n - 1 /\ Cardinality(s) \in Nat
      BY FS_Subset, FS_CardinalityType DEF UpTo
    <3>2. s \in UpTo(S, n)
      BY <3>1 DEF UpTo
    <3>3. f = [t \in UpTo(S, n - 1) |-> SumStep(f, g, t)]
      BY <1>2
    <3> QED BY <3>2, <3>3
  <2>3. \A s \in UpTo(S, n - 1) : e[s] = f[s]
    BY <2>2
  <2>4. \A s \in UpTo(S, n) : SumStep(e, g, s) = SumStep(f, g, s)
    <3> HIDE DEF e
    <3> QED BY <2>1, <2>3 DEF SumStep
  <2>5. e = [s \in UpTo(S, n) |-> SumStep(e, g, s)]
    BY <2>4
  <2> HIDE DEF e
  <2> QED BY <2>5
<1>3. T = {}
  <2> SUFFICES ASSUME T # {} PROVE FALSE
    OBVIOUS
  <2>1. PICK n \in T : \A m \in T : n <= m
    BY LeastNatural
  <2>2. n \in Nat /\ ~ \E f : Table(f, n)
    OBVIOUS
  <2>3. n # 0
    BY <2>2, <1>1
  <2>4. n - 1 \in Nat /\ n - 1 \notin T
    <3> HIDE DEF T
    <3> QED BY <2>1, <2>2, <2>3
  <2>5. \E f : Table(f, n - 1)
    BY <2>4
  <2> HIDE DEF Table
  <2> QED BY <2>2, <2>3, <2>5, <1>2
<1>4. Cardinality(S) \in Nat /\ UpTo(S, Cardinality(S)) = SUBSET S
  BY FS_CardinalityType, FS_Subset DEF UpTo
<1>5. PICK f : Table(f, Cardinality(S))
  BY <1>3, <1>4
<1>6. f = [s \in SUBSET S |-> SumStep(f, g, s)]
  BY <1>4, <1>5
<1>7. DOMAIN g = S
  OBVIOUS
<1> QED BY <1>6, <1>7 DEF SumsUp

(* The table has a number for every subset.                                *)
LEMMA SumsTyped ==
  ASSUME NEW S, IsFiniteSet(S), NEW g \in [S -> Int], NEW f, SumsUp(f, g)
  PROVE  \A s \in SUBSET S : f[s] \in Int
<1> DEFINE P == {s \in SUBSET S : f[s] \notin Int}
<1> SUFFICES ASSUME P # {} PROVE FALSE
  OBVIOUS
<1>1. PICK s \in P : \A t \in P : Cardinality(s) <= Cardinality(t)
  BY LeastSubset
<1>2. s \in SUBSET S /\ f[s] \notin Int /\ f[s] = SumStep(f, g, s)
  BY DEF SumsUp
<1>3. s # {}
  BY <1>2 DEF SumStep
<1>4. /\ First(s) \in s /\ s \ {First(s)} \in SUBSET S
      /\ Cardinality(s) \in Nat /\ Cardinality(s \ {First(s)}) = Cardinality(s) - 1
  BY <1>2, <1>3, WithoutFirst
<1>5. s \ {First(s)} \notin P
  <2> HIDE DEF P
  <2> QED BY <1>1, <1>4
<1>6. f[s \ {First(s)}] \in Int /\ g[First(s)] \in Int
  BY <1>2, <1>4, <1>5
<1> QED BY <1>2, <1>3, <1>6 DEF SumStep

(* Where g and h differ at one argument only, the sums of the sets that    *)
(* hold it differ by as much.                                              *)
LEMMA SumsDiffer ==
  ASSUME NEW S, IsFiniteSet(S), NEW g \in [S -> Int], NEW h \in [S -> Int], NEW a \in S,
         \A b \in S \ {a} : h[b] = g[b],
         NEW f, SumsUp(f, g), NEW e, SumsUp(e, h)
  PROVE  \A s \in SUBSET S : e[s] = IF a \in s THEN f[s] - g[a] + h[a] ELSE f[s]
<1> DEFINE Right(s) == e[s] = IF a \in s THEN f[s] - g[a] + h[a] ELSE f[s]
<1> DEFINE P == {s \in SUBSET S : ~Right(s)}
<1> SUFFICES ASSUME P # {} PROVE FALSE
  OBVIOUS
<1>1. PICK s \in P : \A t \in P : Cardinality(s) <= Cardinality(t)
  BY LeastSubset
<1>2. s \in SUBSET S /\ ~Right(s)
  OBVIOUS
<1>3. f[s] = SumStep(f, g, s) /\ e[s] = SumStep(e, h, s)
  BY <1>2 DEF SumsUp
<1>4. s # {}
  BY <1>2, <1>3 DEF SumStep
<1>5. /\ First(s) \in s /\ s \ {First(s)} \in SUBSET S
      /\ Cardinality(s) \in Nat /\ Cardinality(s \ {First(s)}) = Cardinality(s) - 1
  BY <1>2, <1>4, WithoutFirst
<1>6. s \ {First(s)} \notin P
  <2> HIDE DEF P
  <2> QED BY <1>1, <1>5
<1>7. Right(s \ {First(s)})
  BY <1>5, <1>6
<1>8. f[s] = g[First(s)] + f[s \ {First(s)}] /\ e[s] = h[First(s)] + e[s \ {First(s)}]
  BY <1>3, <1>4 DEF SumStep
<1>9. f[s \ {First(s)}] \in Int /\ e[s \ {First(s)}] \in Int
  BY <1>5, SumsTyped
<1>10. g[First(s)] \in Int /\ h[First(s)] \in Int /\ g[a] \in Int /\ h[a] \in Int
  BY <1>2, <1>5
<1>11. CASE a \notin s
  BY <1>2, <1>5, <1>7, <1>8, <1>11
<1>12. CASE a = First(s)
  <2>1. e[s \ {First(s)}] = f[s \ {First(s)}]
    BY <1>7, <1>12
  <2>2. e[s] = f[s] - g[a] + h[a]
    BY <2>1, <1>8, <1>9, <1>10, <1>12
  <2> QED BY <2>2, <1>2, <1>5, <1>12
<1>13. CASE a \in s /\ a # First(s)
  <2>1. e[s \ {First(s)}] = f[s \ {First(s)}] - g[a] + h[a]
    BY <1>7, <1>13
  <2>2. h[First(s)] = g[First(s)]
    BY <1>2, <1>5, <1>13
  <2>3. e[s] = f[s] - g[a] + h[a]
    BY <2>1, <2>2, <1>8, <1>9, <1>10
  <2> QED BY <2>3, <1>2, <1>13
<1> QED BY <1>11, <1>12, <1>13

LEMMA TableOfSum ==
  ASSUME NEW S, IsFiniteSet(S), NEW g \in [S -> Int]
  PROVE  \E f : SumsUp(f, g) /\ SumFunction(g) = f[S]
<1>1. SumsUp(CHOOSE f : SumsUp(f, g), g)
  BY SumsExist
<1>2. DOMAIN g = S
  OBVIOUS
<1> QED BY <1>1, <1>2, SumFunctionDef

LEMMA SumTyped ==
  ASSUME NEW S, IsFiniteSet(S), NEW g \in [S -> Int]
  PROVE  SumFunction(g) \in Int
  BY TableOfSum, SumsTyped

(* What one argument changes by, the sum changes by.                       *)
LEMMA SumChanges ==
  ASSUME NEW S, IsFiniteSet(S), NEW g \in [S -> Int], NEW h \in [S -> Int], NEW a \in S,
         \A b \in S \ {a} : h[b] = g[b]
  PROVE  SumFunction(h) = SumFunction(g) - g[a] + h[a]
<1>1. PICK f : SumsUp(f, g) /\ SumFunction(g) = f[S]
  BY TableOfSum
<1>2. PICK e : SumsUp(e, h) /\ SumFunction(h) = e[S]
  BY TableOfSum
<1>3. \A s \in SUBSET S : e[s] = IF a \in s THEN f[s] - g[a] + h[a] ELSE f[s]
  BY <1>1, <1>2, SumsDiffer
<1> QED BY <1>1, <1>2, <1>3

LEMMA SumOfZeros ==
  ASSUME NEW S, IsFiniteSet(S)
  PROVE  SumFunction([s \in S |-> 0]) = 0
<1> DEFINE g == [s \in S |-> 0]
<1>1. g \in [S -> Int]
  OBVIOUS
<1>2. PICK f : SumsUp(f, g) /\ SumFunction(g) = f[S]
  BY <1>1, TableOfSum
<1> DEFINE P == {s \in SUBSET S : f[s] # 0}
<1>3. ASSUME P # {} PROVE FALSE
  <2>1. PICK s \in P : \A t \in P : Cardinality(s) <= Cardinality(t)
    BY <1>3, LeastSubset
  <2>2. s \in SUBSET S /\ f[s] # 0 /\ f[s] = SumStep(f, g, s)
    BY <1>2 DEF SumsUp
  <2>3. s # {}
    BY <2>2 DEF SumStep
  <2>4. /\ First(s) \in s /\ s \ {First(s)} \in SUBSET S
        /\ Cardinality(s) \in Nat /\ Cardinality(s \ {First(s)}) = Cardinality(s) - 1
    BY <2>2, <2>3, WithoutFirst
  <2>5. s \ {First(s)} \notin P
    <3> HIDE DEF P
    <3> QED BY <2>1, <2>4
  <2>6. f[s \ {First(s)}] = 0 /\ g[First(s)] = 0
    BY <2>2, <2>4, <2>5
  <2> QED BY <2>2, <2>3, <2>6 DEF SumStep
<1> QED BY <1>2, <1>3

-----------------------------------------------------------------------------
(* Payments: the shape of the state.  Most steps leave the money alone.    *)
USE DEF moneyVars

(* A handler that moves on to a step its flow and its transfer allow keeps *)
(* every handler in its place.                                             *)
LEMMA GoToTyped ==
  ASSUME TypeOK, NEW r \in Requests, NEW pc \in Steps, GoTo(r, pc), ~At(r, "idle"),
         pc = "credit" => req[r].flow \in CreditFlows,
         pc \in {"update", "user"} => req[r].flow \in StakeFlows,
         pc \in {"update", "user", "record", "credit"} => Fits(req[r].flow, req[r].tx),
         pc = "check" /\ req[r].flow \in StakeFlows => Fits(req[r].flow, req[r].tx)
  PROVE  req' \in [Requests -> Request] /\ \A s \in Requests : Placed(s)'
<1>1. req \in [Requests -> Request] /\ \A s \in Requests : Placed(s)
  BY DEF TypeOK
<1>2. req' = [req EXCEPT ![r].pc = pc]
  BY DEF GoTo
<1>3. req' \in [Requests -> Request]
  BY <1>1, <1>2 DEF Request
<1>4. ASSUME NEW s \in Requests PROVE Placed(s)'
  <2>1. CASE s = r
    <3>1. /\ req'[r].pc = pc /\ req'[r].flow = req[r].flow /\ req'[r].tx = req[r].tx
          /\ req'[r].pubkey = req[r].pubkey
      BY <1>1, <1>2 DEF Request
    <3>2. /\ req[r].flow \in Flows /\ req[r].tx \in Transfers
          /\ req[r].flow \in StakeFlows => req[r].pubkey \in Pubkeys
      BY <1>1 DEF Placed
    <3> QED BY <2>1, <3>1, <3>2 DEF Placed, At, Fits
  <2>2. CASE s # r
    <3>1. req'[s] = req[s]
      BY <1>1, <1>2, <2>2
    <3> QED BY <1>1, <3>1 DEF Placed, At, Fits
  <2> QED BY <2>1, <2>2
<1> QED BY <1>3, <1>4

(* A handler that answers is idle, and the others stay where they are.     *)
LEMMA AnswerTyped ==
  ASSUME TypeOK, NEW r \in Requests, Answer(r)
  PROVE  req' \in [Requests -> Request] /\ \A s \in Requests : Placed(s)'
<1>1. req \in [Requests -> Request] /\ \A s \in Requests : Placed(s)
  BY DEF TypeOK
<1>2. req' = [req EXCEPT ![r] = Idle]
  BY DEF Answer
<1>3. Idle \in Request
  BY DEF Idle, NoPack, Request, Steps
<1>4. req' \in [Requests -> Request]
  BY <1>1, <1>2, <1>3
<1>5. ASSUME NEW s \in Requests PROVE Placed(s)'
  <2>1. CASE s = r
    BY <1>1, <1>2, <2>1 DEF Placed, At, Idle, StakeFlows
  <2>2. CASE s # r
    <3>1. req'[s] = req[s]
      BY <1>1, <1>2, <2>2
    <3> QED BY <1>1, <3>1 DEF Placed, At, Fits
  <2> QED BY <2>1, <2>2
<1> QED BY <1>4, <1>5

(* The shape of the state is an invariant, whatever handlers overlap.      *)
THEOREM TypeCorrect == Spec => []TypeOK
<1>1. Init => TypeOK
  <2> SUFFICES ASSUME Init PROVE TypeOK
    OBVIOUS
  <2>1. req \in [Requests -> Request] /\ \A r \in Requests : Placed(r)
    BY DEF Init, Idle, NoPack, Request, Steps, Placed, At, StakeFlows
  <2> QED BY <2>1 DEF Init, TypeOK
<1>2. TypeOK /\ [Next]_vars => TypeOK'
  <2> SUFFICES ASSUME TypeOK, [Next]_vars PROVE TypeOK'
    OBVIOUS
  <2> DEFINE Reqs == req' \in [Requests -> Request] /\ \A s \in Requests : Placed(s)'
             Rest == /\ processed' \subseteq Transfers
                     /\ balance' \in [CreditFlows -> Int]
                     /\ node' \in [Nodes -> [staked : Int, validator : BOOLEAN]]
                     /\ started' \in Nat /\ faults' \in Nat /\ cut' \subseteq Transfers
                     /\ applied' \in [Transfers -> Nat]
                     /\ counted' \in [Transfers -> [Pubkeys -> Nat]]
  <2> SUFFICES Reqs /\ Rest
    BY DEF TypeOK
  <2> USE TransferAssumption, BoundsAssumption
  <2>1. req \in [Requests -> Request] /\ \A s \in Requests : Placed(s)
    BY DEF TypeOK
  <2>2. ASSUME NEW r \in Requests, NEW flow \in Flows, NEW t \in Transfers,
               NEW pack \in PacksOf(flow), NEW pubkey \in PubkeysOf(flow),
               Start(r, flow, t, pack, pubkey)
        PROVE  Reqs /\ Rest
    <3>1. [pc |-> FirstStep(flow), flow |-> flow, tx |-> t, pack |-> pack, pubkey |-> pubkey]
            \in Request
      BY DEF Request, Steps, FirstStep, PacksOf, PubkeysOf
    <3>2. Reqs
      <4>1. req' \in [Requests -> Request]
        BY <2>1, <2>2, <3>1 DEF Start
      <4>2. ASSUME NEW s \in Requests PROVE Placed(s)'
        <5>1. CASE s = r
          <6>1. req'[r] = [pc |-> FirstStep(flow), flow |-> flow, tx |-> t, pack |-> pack,
                           pubkey |-> pubkey]
            BY <2>1, <2>2 DEF Start
          <6>2. /\ req'[r].pc = FirstStep(flow) /\ req'[r].flow = flow /\ req'[r].tx = t
                /\ req'[r].pubkey = pubkey
            BY <6>1
          <6>3. /\ flow \in CreditFlows => flow \notin StakeFlows
                /\ flow \in StakeFlows => pubkey \in Pubkeys
            BY DEF CreditFlows, StakeFlows, PubkeysOf
          <6> QED BY <5>1, <6>2, <6>3 DEF Placed, At, FirstStep
        <5>2. CASE s # r
          <6>1. req'[s] = req[s]
            BY <2>1, <2>2, <5>2 DEF Start
          <6> QED BY <2>1, <6>1 DEF Placed, At, Fits
        <5> QED BY <5>1, <5>2
      <4> QED BY <4>1, <4>2
    <3> QED BY <2>2, <3>2 DEF Start, TypeOK
  <2>3. ASSUME NEW r \in Requests, Check(r) PROVE Reqs /\ Rest
    <3>1. CASE req[r].tx \in processed
      BY <2>3, <3>1, AnswerTyped DEF Check, TypeOK
    <3>2. CASE req[r].tx \notin processed
      <4>1. CASE req[r].flow \in CreditFlows
        BY <2>3, <3>2, <4>1, GoToTyped DEF Check, AfterCheck, Steps, At, TypeOK
      <4>2. CASE req[r].flow \notin CreditFlows
        <5>1. req[r].flow \in StakeFlows /\ Fits(req[r].flow, req[r].tx)
          BY <2>1, <2>3, <4>2 DEF Check, Placed, At, Flows
        <5>2. GoTo(r, "update") /\ ~At(r, "idle")
          BY <2>3, <3>2, <4>2 DEF Check, AfterCheck, At
        <5>3. Reqs
          BY <5>1, <5>2, GoToTyped DEF Steps
        <5> QED BY <2>3, <5>3 DEF Check, TypeOK
      <4> QED BY <4>1, <4>2
    <3> QED BY <3>1, <3>2
  <2>4. ASSUME NEW r \in Requests, Verify(r) PROVE Reqs /\ Rest
    <3>1. CASE ~(Fits(req[r].flow, req[r].tx) /\ Claimed(req[r]))
      BY <2>4, <3>1, AnswerTyped DEF Verify, TypeOK
    <3>2. CASE Fits(req[r].flow, req[r].tx) /\ Claimed(req[r])
      <4>1. CASE req[r].flow \in CreditFlows
        BY <2>4, <3>2, <4>1, GoToTyped DEF Verify, AfterVerify, Steps, At, TypeOK
      <4>2. CASE req[r].flow \notin CreditFlows
        <5>1. GoTo(r, "check") /\ ~At(r, "idle")
          BY <2>4, <3>2, <4>2 DEF Verify, AfterVerify, At
        <5>2. Reqs
          BY <3>2, <5>1, GoToTyped DEF Steps
        <5> QED BY <2>4, <5>2 DEF Verify, TypeOK
      <4> QED BY <4>1, <4>2
    <3> QED BY <3>1, <3>2
  <2>5. ASSUME NEW r \in Requests, Record(r) PROVE Reqs /\ Rest
    <3>1. Fits(req[r].flow, req[r].tx) /\ req[r].tx \in Transfers /\ ~At(r, "idle")
      BY <2>1, <2>5 DEF Record, Placed, At
    <3>2. CASE req[r].flow \in CreditFlows /\ req[r].tx \notin processed
      <4>1. Reqs
        BY <2>5, <3>1, <3>2, GoToTyped DEF Record, Steps
      <4> QED BY <2>5, <3>1, <4>1 DEF Record, TypeOK
    <3>3. CASE ~(req[r].flow \in CreditFlows /\ req[r].tx \notin processed)
      <4>1. Reqs
        BY <2>5, <3>3, AnswerTyped DEF Record
      <4> QED BY <2>5, <3>1, <4>1 DEF Record, TypeOK
    <3> QED BY <3>2, <3>3
  <2>6. ASSUME NEW r \in Requests, Credit(r) PROVE Reqs /\ Rest
    <3>1. req[r].pack.credits \in Int /\ req[r].flow \in CreditFlows
      BY <2>1, <2>6, PackAssumption DEF Credit, Placed, At, Request, NoPack
    <3>2. /\ balance \in [CreditFlows -> Int] /\ applied \in [Transfers -> Nat]
          /\ req[r].tx \in Transfers
      BY <2>1, <2>6 DEF Credit, Placed, At, TypeOK
    <3>3. /\ balance' = [balance EXCEPT ![req[r].flow] = @ + req[r].pack.credits]
          /\ applied' = [applied EXCEPT ![req[r].tx] = @ + 1]
      BY <2>6 DEF Credit, Apply
    <3>4. balance[req[r].flow] + req[r].pack.credits \in Int /\ applied[req[r].tx] + 1 \in Nat
      BY <3>1, <3>2
    <3>5. balance' \in [CreditFlows -> Int] /\ applied' \in [Transfers -> Nat]
      BY <3>2, <3>3, <3>4
    <3> QED BY <2>6, <3>5, AnswerTyped DEF Credit, TypeOK
  <2>7. ASSUME NEW r \in Requests, UpdateStake(r) PROVE Reqs /\ Rest
    <3>1. /\ Amount[req[r].tx] \in Nat /\ req[r].flow \in StakeFlows
          /\ Fits(req[r].flow, req[r].tx) /\ ~At(r, "idle") /\ GoTo(r, "user")
      BY <2>1, <2>7 DEF UpdateStake, Placed, At
    <3>2. Reqs
      BY <3>1, GoToTyped DEF Steps
    <3>3. node' \in [Nodes -> [staked : Int, validator : BOOLEAN]]
      <4>1. \A n \in Nodes :
              /\ Staked(node[n], Amount[req[r].tx]) \in [staked : Int, validator : BOOLEAN]
              /\ Unstaked(node[n], Amount[req[r].tx]) \in [staked : Int, validator : BOOLEAN]
        BY <3>1 DEF Staked, Unstaked, TypeOK
      <4> QED BY <2>7, <4>1 DEF UpdateStake, TypeOK
    <3>4. applied' \in [Transfers -> Nat]
      <4>1. applied \in [Transfers -> Nat] /\ req[r].tx \in Transfers
        BY <2>1, <3>1 DEF Placed, TypeOK
      <4>2. applied[req[r].tx] + 1 \in Nat
        BY <4>1
      <4> QED BY <2>7, <4>1, <4>2 DEF UpdateStake, Apply
    <3>5. counted' \in [Transfers -> [Pubkeys -> Nat]]
      <4>1. /\ counted \in [Transfers -> [Pubkeys -> Nat]]
            /\ req[r].tx \in Transfers /\ req[r].pubkey \in Pubkeys
        BY <2>1, <3>1 DEF Placed, TypeOK
      <4>2. counted' = [counted EXCEPT ![req[r].tx][req[r].pubkey] = @ + 1]
        BY <2>7 DEF UpdateStake
      <4> QED BY <4>1, <4>2
    <3> QED BY <2>7, <3>2, <3>3, <3>4, <3>5 DEF UpdateStake, TypeOK
  <2>8. ASSUME NEW r \in Requests, FindUser(r) PROVE Reqs /\ Rest
    <3>1. Fits(req[r].flow, req[r].tx) /\ ~At(r, "idle") /\ GoTo(r, "record")
      BY <2>1, <2>8 DEF FindUser, Placed, At
    <3>2. Reqs
      BY <3>1, GoToTyped DEF Steps
    <3> QED BY <2>8, <3>2 DEF FindUser, TypeOK
  <2>9. ASSUME NEW r \in Requests, EndEarly(r) PROVE Reqs /\ Rest
    <3>1. req[r].tx \in Transfers
      BY <2>1, <2>9 DEF EndEarly, Placed, At
    <3> QED BY <2>9, <3>1, AnswerTyped DEF EndEarly, TypeOK
  <2>10. CASE UNCHANGED vars
    <3>1. \A s \in Requests : Placed(s)'
      BY <2>1, <2>10 DEF vars, Placed, At, Fits
    <3> QED BY <2>10, <3>1 DEF vars, TypeOK
  <2> QED
    BY <2>2, <2>3, <2>4, <2>5, <2>6, <2>7, <2>8, <2>9, <2>10 DEF Next, Serve
<1> QED BY <1>1, <1>2, PTL DEF Spec
-----------------------------------------------------------------------------
(* At most one credit.  The invariant follows a payment from its record to *)
(* its credit: until it is recorded nobody credits it, at most one handler *)
(* is about to, and once it is credited nobody is.                         *)

CreditInv ==
  \A t \in Transfers : Kind[t] = "payment" =>
    /\ applied[t] <= 1
    /\ t \notin processed => applied[t] = 0 /\ Crediting(t) = {}
    /\ applied[t] = 1 => Crediting(t) = {}
    /\ \A r, s \in Crediting(t) : r = s

(* A step that credits nothing and whose handlers at "credit" were there   *)
(* before preserves it.                                                    *)
LEMMA CreditFrame ==
  ASSUME CreditInv, applied' = applied, processed \subseteq processed',
         \A t \in Transfers : Crediting(t)' \subseteq Crediting(t)
  PROVE  CreditInv'
  BY DEF CreditInv

(* CreditInv is an invariant.                                              *)
LEMMA CreditFollowed == Spec => []CreditInv
<1>1. Init => CreditInv
  BY DEF Init, CreditInv, Crediting, At, Idle
<1>2. TypeOK /\ CreditInv /\ [Next]_vars => CreditInv'
  <2> SUFFICES ASSUME TypeOK, CreditInv, [Next]_vars PROVE CreditInv'
    OBVIOUS
  <2>1. /\ req \in [Requests -> Request] /\ applied \in [Transfers -> Nat]
        /\ \A r \in Requests : Placed(r)
    BY DEF TypeOK
  <2>2. ASSUME NEW r \in Requests, NEW flow \in Flows, NEW t \in Transfers,
               NEW pack \in PacksOf(flow), NEW pubkey \in PubkeysOf(flow),
               Start(r, flow, t, pack, pubkey)
        PROVE  CreditInv'
    <3>1. \A u \in Transfers : Crediting(u)' \subseteq Crediting(u)
      BY <2>1, <2>2 DEF Start, Crediting, At, FirstStep
    <3> QED BY <2>2, <3>1, CreditFrame DEF Start
  <2>3. ASSUME NEW r \in Requests, NEW pc, pc # "credit", GoTo(r, pc)
        PROVE  \A u \in Transfers : Crediting(u)' \subseteq Crediting(u) \ {r}
    <3>1. ASSUME NEW s \in Requests, s # r PROVE req'[s] = req[s]
      BY <2>1, <2>3, <3>1 DEF GoTo
    <3>2. req'[r].pc # "credit"
      BY <2>1, <2>3 DEF GoTo, Request
    <3> QED BY <3>1, <3>2 DEF Crediting, At
  <2>4. ASSUME NEW r \in Requests, Answer(r)
         PROVE  \A u \in Transfers : Crediting(u)' \subseteq Crediting(u) \ {r}
    <3>1. ASSUME NEW s \in Requests, s # r PROVE req'[s] = req[s]
      BY <2>1, <2>4, <3>1 DEF Answer
    <3>2. req'[r].pc # "credit"
      BY <2>1, <2>4 DEF Answer, Idle
    <3> QED BY <3>1, <3>2 DEF Crediting, At
  <2>5. ASSUME NEW r \in Requests, Check(r) PROVE CreditInv'
    <3>1. AfterCheck(req[r].flow) # "credit"
      BY DEF AfterCheck
    <3> QED BY <2>3, <2>4, <2>5, <3>1, CreditFrame DEF Check
  <2>6. ASSUME NEW r \in Requests, Verify(r) PROVE CreditInv'
    <3>1. AfterVerify(req[r].flow) # "credit"
      BY DEF AfterVerify
    <3> QED BY <2>3, <2>4, <2>6, <3>1, CreditFrame DEF Verify
  <2>7. ASSUME NEW r \in Requests, Record(r) PROVE CreditInv'
    <3>1. CASE ~(req[r].flow \in CreditFlows /\ req[r].tx \notin processed)
      <4>1. Answer(r) /\ applied' = applied /\ processed \subseteq processed'
        BY <2>7, <3>1 DEF Record
      <4>2. \A u \in Transfers : Crediting(u)' \subseteq Crediting(u) \ {r}
        BY <2>4, <4>1
      <4> QED BY <4>1, <4>2, CreditFrame
    <3>2. CASE req[r].flow \in CreditFlows /\ req[r].tx \notin processed
      <4>1. /\ GoTo(r, "credit") /\ applied' = applied
            /\ processed' = processed \cup {req[r].tx}
        BY <2>7, <3>2 DEF Record
      <4>2. \A u \in Transfers :
              Crediting(u)' = IF u = req[r].tx THEN Crediting(u) \cup {r} ELSE Crediting(u) \ {r}
        <5>1. ASSUME NEW s \in Requests, s # r PROVE req'[s] = req[s]
          BY <2>1, <4>1, <5>1 DEF GoTo
        <5>2. req'[r].pc = "credit" /\ req'[r].tx = req[r].tx
          BY <2>1, <4>1 DEF GoTo, Request
        <5> QED BY <5>1, <5>2 DEF Crediting, At
      <4>3. ASSUME NEW u \in Transfers, Kind[u] = "payment"
            PROVE  /\ applied'[u] <= 1
                   /\ u \notin processed' => applied'[u] = 0 /\ Crediting(u)' = {}
                   /\ applied'[u] = 1 => Crediting(u)' = {}
                   /\ \A x, y \in Crediting(u)' : x = y
        <5>1. /\ applied[u] <= 1
              /\ u \notin processed => applied[u] = 0 /\ Crediting(u) = {}
              /\ applied[u] = 1 => Crediting(u) = {}
              /\ \A x, y \in Crediting(u) : x = y
          BY <4>3 DEF CreditInv
        <5>2. CASE u = req[r].tx
          <6>1. applied'[u] = 0 /\ u \in processed' /\ Crediting(u)' = {r}
            BY <3>2, <4>1, <4>2, <5>1, <5>2
          <6> QED BY <6>1
        <5>3. CASE u # req[r].tx
          BY <4>1, <4>2, <5>1, <5>3
        <5> QED BY <5>2, <5>3
      <4> QED BY <4>3 DEF CreditInv
    <3> QED BY <3>1, <3>2
  <2>8. ASSUME NEW r \in Requests, Credit(r) PROVE CreditInv'
    <3>1. /\ Answer(r) /\ processed' = processed /\ r \in Crediting(req[r].tx)
          /\ req[r].tx \in Transfers
          /\ applied' = [applied EXCEPT ![req[r].tx] = @ + 1]
      BY <2>1, <2>8 DEF Credit, Apply, Crediting, Placed, At
    <3>2. \A u \in Transfers : Crediting(u)' \subseteq Crediting(u) \ {r}
      BY <2>4, <3>1
    <3>3. ASSUME NEW u \in Transfers, Kind[u] = "payment"
          PROVE  /\ applied'[u] <= 1
                 /\ u \notin processed' => applied'[u] = 0 /\ Crediting(u)' = {}
                 /\ applied'[u] = 1 => Crediting(u)' = {}
                 /\ \A x, y \in Crediting(u)' : x = y
      <4>1. /\ applied[u] <= 1 /\ applied[u] \in Nat
            /\ u \notin processed => applied[u] = 0 /\ Crediting(u) = {}
            /\ applied[u] = 1 => Crediting(u) = {}
            /\ \A x, y \in Crediting(u) : x = y
        BY <2>1, <3>3 DEF CreditInv
      <4>2. CASE u = req[r].tx
        <5>1. applied[u] = 0 /\ applied'[u] = 1 /\ Crediting(u) = {r} /\ u \in processed
          BY <2>1, <3>1, <4>1, <4>2
        <5> QED BY <3>1, <3>2, <5>1
      <4>3. CASE u # req[r].tx
        <5>1. applied'[u] = applied[u] /\ Crediting(u)' \subseteq Crediting(u)
          BY <2>1, <3>1, <3>2, <4>3
        <5> QED BY <3>1, <4>1, <5>1
      <4> QED BY <4>2, <4>3
    <3> QED BY <3>3 DEF CreditInv
  <2>9. ASSUME NEW r \in Requests, UpdateStake(r) PROVE CreditInv'
    <3>1. /\ GoTo(r, "user") /\ processed' = processed
          /\ applied' = [applied EXCEPT ![req[r].tx] = @ + 1]
          /\ req[r].tx \in Transfers /\ Kind[req[r].tx] # "payment"
      BY <2>1, <2>9 DEF UpdateStake, Apply, Placed, At, Fits, StakeFlows, CreditFlows
    <3>2. \A u \in Transfers : Crediting(u)' \subseteq Crediting(u) \ {r}
      BY <2>3, <3>1
    <3>3. \A u \in Transfers : Kind[u] = "payment" => applied'[u] = applied[u]
      BY <2>1, <3>1
    <3> QED BY <3>1, <3>2, <3>3 DEF CreditInv
  <2>10. ASSUME NEW r \in Requests, FindUser(r) PROVE CreditInv'
    <3>1. GoTo(r, "record") /\ applied' = applied /\ processed' = processed
      BY <2>10 DEF FindUser
    <3>2. \A u \in Transfers : Crediting(u)' \subseteq Crediting(u) \ {r}
      BY <2>3, <3>1
    <3> QED BY <3>1, <3>2, CreditFrame
  <2>11. ASSUME NEW r \in Requests, EndEarly(r) PROVE CreditInv'
    <3>1. Answer(r) /\ applied' = applied /\ processed' = processed
      BY <2>11 DEF EndEarly
    <3>2. \A u \in Transfers : Crediting(u)' \subseteq Crediting(u) \ {r}
      BY <2>4, <3>1
    <3> QED BY <3>1, <3>2, CreditFrame
  <2>12. CASE UNCHANGED vars
    BY <2>12, CreditFrame DEF vars, Crediting, At
  <2> QED
    BY <2>2, <2>5, <2>6, <2>7, <2>8, <2>9, <2>10, <2>11, <2>12 DEF Next, Serve
<1> QED BY <1>1, <1>2, TypeCorrect, PTL DEF Spec

(* A payment is credited at most once, for any number of handlers, starts  *)
(* and failures: Payments relies on the primary key alone, not on the      *)
(* early check.                                                            *)
THEOREM PaymentCreditedOnce == Spec => []CreditedOnce
<1>1. CreditInv => CreditedOnce
  BY DEF CreditInv, CreditedOnce
<1> QED BY <1>1, CreditFollowed, PTL
-----------------------------------------------------------------------------
(* At least one credit.  No step but Credit and an early end takes a       *)
(* payment out of the hands of the handler that is about to credit it.     *)

(* A step that leaves the record alone and takes no payment from a handler *)
(* about to credit it preserves the property.                              *)
LEMMA KeptFrame ==
  ASSUME OnlyFailureLosesCredit, TypeOK, processed' = processed, applied' = applied,
         cut \subseteq cut',
         \A t \in Transfers : Crediting(t) \subseteq Crediting(t)' \/ t \in cut'
  PROVE  OnlyFailureLosesCredit'
<1>1. processed \subseteq Transfers
  BY DEF TypeOK
<1> QED BY <1>1 DEF OnlyFailureLosesCredit

(* A handler that is not about to credit takes no payment from another.    *)
LEMMA OthersKeep ==
  ASSUME TypeOK, NEW r \in Requests, ~At(r, "credit"),
         \A s \in Requests \ {r} : req'[s] = req[s]
  PROVE  \A t \in Transfers : Crediting(t) \subseteq Crediting(t)'
  BY DEF Crediting, At

(* A recorded payment is credited or about to be, unless one of its        *)
(* handlers ended early: whatever overlaps and is retried, only a failure  *)
(* between the record and the credit loses a paid credit.                  *)
THEOREM OnlyFailureLoses == Spec => []OnlyFailureLosesCredit
<1>1. Init => OnlyFailureLosesCredit
  BY DEF Init, OnlyFailureLosesCredit
<1>2. TypeOK /\ CreditInv /\ OnlyFailureLosesCredit /\ [Next]_vars => OnlyFailureLosesCredit'
  <2> SUFFICES ASSUME TypeOK, CreditInv, OnlyFailureLosesCredit, [Next]_vars
               PROVE  OnlyFailureLosesCredit'
    OBVIOUS
  <2>1. /\ req \in [Requests -> Request] /\ applied \in [Transfers -> Nat]
        /\ \A r \in Requests : Placed(r) /\ processed \subseteq Transfers
    BY DEF TypeOK
  <2>2. ASSUME NEW r \in Requests, NEW flow \in Flows, NEW t \in Transfers,
               NEW pack \in PacksOf(flow), NEW pubkey \in PubkeysOf(flow),
               Start(r, flow, t, pack, pubkey)
        PROVE  OnlyFailureLosesCredit'
    <3>1. ~At(r, "credit") /\ \A s \in Requests \ {r} : req'[s] = req[s]
      BY <2>1, <2>2 DEF Start, At
    <3> QED BY <2>2, <3>1, OthersKeep, KeptFrame DEF Start
  <2>3. ASSUME NEW r \in Requests, Check(r) \/ Verify(r) \/ FindUser(r)
        PROVE  OnlyFailureLosesCredit'
    <3>1. ~At(r, "credit") /\ \A s \in Requests \ {r} : req'[s] = req[s]
      BY <2>1, <2>3 DEF Check, Verify, FindUser, At, GoTo, Answer
    <3> QED BY <2>3, <3>1, OthersKeep, KeptFrame DEF Check, Verify, FindUser
  <2>4. ASSUME NEW r \in Requests, Record(r) PROVE OnlyFailureLosesCredit'
    <3>1. /\ processed' = processed \cup {req[r].tx} /\ applied' = applied /\ cut' = cut
          /\ Fits(req[r].flow, req[r].tx) /\ req[r].flow \in Flows
      BY <2>1, <2>4 DEF Record, Placed, At
    <3>2. ~At(r, "credit") /\ \A s \in Requests \ {r} : req'[s] = req[s]
      BY <2>1, <2>4 DEF Record, At, GoTo, Answer
    <3>3. \A t \in Transfers : Crediting(t) \subseteq Crediting(t)'
      BY <3>2, OthersKeep
    <3>4. ASSUME NEW t \in processed', Kind[t] = "payment"
          PROVE  applied'[t] = 1 \/ Crediting(t)' # {} \/ t \in cut'
      <4>1. CASE t \in processed
        BY <2>1, <3>1, <3>3, <3>4, <4>1 DEF OnlyFailureLosesCredit
      <4>2. CASE t \notin processed
        <5>1. t = req[r].tx /\ req[r].flow \in CreditFlows
          BY <3>1, <3>4, <4>2 DEF Fits, Flows, CreditFlows, StakeFlows
        <5>2. GoTo(r, "credit")
          BY <2>4, <4>2, <5>1 DEF Record
        <5>3. req'[r].pc = "credit" /\ req'[r].tx = t
          BY <2>1, <5>1, <5>2 DEF GoTo, Request
        <5>4. r \in Crediting(t)'
          BY <5>3 DEF Crediting, At
        <5> QED BY <5>4
      <4> QED BY <4>1, <4>2
    <3> QED BY <3>4 DEF OnlyFailureLosesCredit
  <2>5. ASSUME NEW r \in Requests, Credit(r) PROVE OnlyFailureLosesCredit'
    <3>1. /\ processed' = processed /\ cut' = cut /\ req[r].tx \in Transfers
          /\ applied' = [applied EXCEPT ![req[r].tx] = @ + 1]
          /\ r \in Crediting(req[r].tx)
          /\ \A s \in Requests \ {r} : req'[s] = req[s]
      BY <2>1, <2>5 DEF Credit, Apply, Answer, Crediting, Placed, At
    <3>2. ASSUME NEW t \in processed', Kind[t] = "payment"
          PROVE  applied'[t] = 1 \/ Crediting(t)' # {} \/ t \in cut'
      <4>1. t \in processed /\ t \in Transfers
        BY <2>1, <3>1, <3>2
      <4>2. CASE t = req[r].tx
        <5>1. applied[t] \in Nat /\ applied[t] <= 1 /\ applied[t] # 1
          BY <2>1, <3>1, <3>2, <4>1, <4>2 DEF CreditInv
        <5>2. applied'[t] = applied[t] + 1
          BY <2>1, <3>1, <4>2
        <5> QED BY <5>1, <5>2
      <4>3. CASE t # req[r].tx
        <5>1. applied'[t] = applied[t]
          BY <2>1, <3>1, <4>1, <4>3
        <5>2. Crediting(t) \subseteq Crediting(t)'
          BY <3>1, <4>3 DEF Crediting, At
        <5> QED BY <3>1, <3>2, <4>1, <5>1, <5>2 DEF OnlyFailureLosesCredit
      <4> QED BY <4>2, <4>3
    <3> QED BY <3>2 DEF OnlyFailureLosesCredit
  <2>6. ASSUME NEW r \in Requests, UpdateStake(r) PROVE OnlyFailureLosesCredit'
    <3>1. ~At(r, "credit") /\ \A s \in Requests \ {r} : req'[s] = req[s]
      BY <2>1, <2>6 DEF UpdateStake, At, GoTo
    <3>2. \A t \in Transfers : Crediting(t) \subseteq Crediting(t)'
      BY <3>1, OthersKeep
    <3>3. /\ applied' = [applied EXCEPT ![req[r].tx] = @ + 1]
          /\ processed' = processed /\ cut' = cut
          /\ Kind[req[r].tx] # "payment"
      BY <2>1, <2>6 DEF UpdateStake, Apply, Placed, At, Fits, StakeFlows, CreditFlows
    <3>4. \A t \in Transfers : Kind[t] = "payment" => applied'[t] = applied[t]
      BY <2>1, <3>3
    <3> QED BY <2>1, <3>2, <3>3, <3>4 DEF OnlyFailureLosesCredit
  <2>7. ASSUME NEW r \in Requests, EndEarly(r) PROVE OnlyFailureLosesCredit'
    <3>1. /\ cut' = cut \cup {req[r].tx} /\ processed' = processed /\ applied' = applied
          /\ \A s \in Requests \ {r} : req'[s] = req[s]
      BY <2>1, <2>7 DEF EndEarly, Answer
    <3>2. \A t \in Transfers : Crediting(t) \subseteq Crediting(t)' \/ t \in cut'
      BY <3>1 DEF Crediting, At
    <3> QED BY <3>1, <3>2, KeptFrame
  <2>8. CASE UNCHANGED vars
    BY <2>8, KeptFrame DEF vars, Crediting, At
  <2> QED
    BY <2>2, <2>3, <2>4, <2>5, <2>6, <2>7, <2>8 DEF Next, Serve
<1> QED BY <1>1, <1>2, TypeCorrect, CreditFollowed, PTL DEF Spec
-----------------------------------------------------------------------------
(* The record of a stake transfer.  Between the change of the stake and    *)
(* the record a handler stands at "user" or "record", and only an early    *)
(* end takes it away from there without the record.                        *)

Recording(t) == {r \in Requests : req[r].pc \in {"user", "record"} /\ req[r].tx = t}

StakeInv ==
  \A t \in Transfers \ cut :
    Kind[t] \in StakeFlows /\ applied[t] > 0 => t \in processed \/ Recording(t) # {}

(* A step that applies no stake transfer and takes none out of the hands   *)
(* of a handler about to record it preserves the invariant.                *)
LEMMA StakeFrame ==
  ASSUME StakeInv, cut \subseteq cut', processed \subseteq processed',
         \A t \in Transfers : Kind[t] \in StakeFlows => applied'[t] = applied[t],
         \A t \in Transfers :
           Recording(t) \subseteq Recording(t)' \/ t \in cut' \/ t \in processed'
  PROVE  StakeInv'
  BY DEF StakeInv

(* A handler that is not about to record takes no transfer from another.   *)
LEMMA OthersRecord ==
  ASSUME NEW r \in Requests, req[r].pc \notin {"user", "record"},
         \A s \in Requests \ {r} : req'[s] = req[s]
  PROVE  \A t \in Transfers : Recording(t) \subseteq Recording(t)'
  BY DEF Recording

(* A stake transfer that changed the stake is recorded once its handlers   *)
(* are through, so that a retry is refused, unless one of them ended       *)
(* early: however they overlap, no handler leaves between the two writes.  *)
THEOREM StakeIsRecorded == Spec => []StakedMeansRecorded
<1>1. Init => StakeInv
  BY DEF Init, StakeInv
<1>2. TypeOK /\ StakeInv /\ [Next]_vars => StakeInv'
  <2> SUFFICES ASSUME TypeOK, StakeInv, [Next]_vars PROVE StakeInv'
    OBVIOUS
  <2>1. /\ req \in [Requests -> Request] /\ applied \in [Transfers -> Nat]
        /\ \A r \in Requests : Placed(r)
    BY DEF TypeOK
  <2>2. ASSUME NEW r \in Requests, NEW flow \in Flows, NEW t \in Transfers,
               NEW pack \in PacksOf(flow), NEW pubkey \in PubkeysOf(flow),
               Start(r, flow, t, pack, pubkey)
        PROVE  StakeInv'
    <3>1. /\ req[r].pc \notin {"user", "record"}
          /\ \A s \in Requests \ {r} : req'[s] = req[s]
      BY <2>1, <2>2 DEF Start, At
    <3> QED BY <2>2, <3>1, OthersRecord, StakeFrame DEF Start
  <2>3. ASSUME NEW r \in Requests, Check(r) \/ Verify(r) PROVE StakeInv'
    <3>1. /\ req[r].pc \notin {"user", "record"}
          /\ \A s \in Requests \ {r} : req'[s] = req[s]
      BY <2>1, <2>3 DEF Check, Verify, At, GoTo, Answer
    <3> QED BY <2>3, <3>1, OthersRecord, StakeFrame DEF Check, Verify
  <2>4. ASSUME NEW r \in Requests, Credit(r) PROVE StakeInv'
    <3>1. /\ req[r].pc \notin {"user", "record"}
          /\ \A s \in Requests \ {r} : req'[s] = req[s]
      BY <2>1, <2>4 DEF Credit, At, Answer
    <3>2. Kind[req[r].tx] \notin StakeFlows
      BY <2>1, <2>4 DEF Credit, Placed, At, Fits, StakeFlows
    <3>3. applied' = [applied EXCEPT ![req[r].tx] = @ + 1]
      BY <2>4 DEF Credit, Apply
    <3>4. \A t \in Transfers : Kind[t] \in StakeFlows => applied'[t] = applied[t]
      BY <2>1, <3>2, <3>3
    <3> QED BY <2>4, <3>1, <3>4, OthersRecord, StakeFrame DEF Credit
  <2>5. ASSUME NEW r \in Requests, UpdateStake(r) PROVE StakeInv'
    <3>1. /\ applied' = [applied EXCEPT ![req[r].tx] = @ + 1]
          /\ processed' = processed /\ cut' = cut
          /\ req'[r].pc = "user" /\ req'[r].tx = req[r].tx
          /\ \A s \in Requests \ {r} : req'[s] = req[s]
      BY <2>1, <2>5 DEF UpdateStake, Apply, GoTo, Request
    <3>2. req[r].pc \notin {"user", "record"}
      BY <2>5 DEF UpdateStake, At
    <3>3. ASSUME NEW t \in Transfers \ cut', Kind[t] \in StakeFlows, applied'[t] > 0
          PROVE  t \in processed' \/ Recording(t)' # {}
      <4>1. CASE t = req[r].tx
        <5>1. r \in Recording(t)'
          BY <3>1, <4>1 DEF Recording
        <5> QED BY <5>1
      <4>2. CASE t # req[r].tx
        <5>1. applied'[t] = applied[t] /\ Recording(t) \subseteq Recording(t)'
          BY <2>1, <3>1, <3>2, <4>2, OthersRecord
        <5> QED BY <3>1, <3>3, <5>1 DEF StakeInv
      <4> QED BY <4>1, <4>2
    <3> QED BY <3>3 DEF StakeInv
  <2>6. ASSUME NEW r \in Requests, FindUser(r) PROVE StakeInv'
    <3>1. /\ req'[r].pc = "record" /\ req'[r].tx = req[r].tx
          /\ \A s \in Requests \ {r} : req'[s] = req[s]
      BY <2>1, <2>6 DEF FindUser, GoTo, Request
    <3>2. \A t \in Transfers : Recording(t) \subseteq Recording(t)'
      BY <3>1 DEF Recording
    <3> QED BY <2>6, <3>2, StakeFrame DEF FindUser
  <2>7. ASSUME NEW r \in Requests, Record(r) \/ EndEarly(r) PROVE StakeInv'
    <3>1. /\ applied' = applied /\ cut \subseteq cut' /\ processed \subseteq processed'
          /\ req[r].tx \in processed' \/ req[r].tx \in cut'
          /\ \A s \in Requests \ {r} : req'[s] = req[s]
      BY <2>1, <2>7 DEF Record, EndEarly, GoTo, Answer
    <3>2. \A t \in Transfers :
            Recording(t) \subseteq Recording(t)' \/ t \in cut' \/ t \in processed'
      BY <3>1 DEF Recording
    <3> QED BY <3>1, <3>2, StakeFrame
  <2>8. CASE UNCHANGED vars
    BY <2>8, StakeFrame DEF vars, Recording
  <2> QED
    BY <2>2, <2>3, <2>4, <2>5, <2>6, <2>7, <2>8 DEF Next, Serve
<1>3. StakeInv => StakedMeansRecorded
  BY DEF StakeInv, StakedMeansRecorded, Recording
<1> QED BY <1>1, <1>2, <1>3, TypeCorrect, PTL DEF Spec

-----------------------------------------------------------------------------
(* StakeProgram.                                                           *)


ChainInv == ChainTypeOK /\ ValidatorHasMinimum /\ RewardsKept

-----------------------------------------------------------------------------
(* A transfer leaves every balance a natural number.                       *)
LEMMA TransferTyped ==
  ASSUME tokens \in [Wallets \cup {"vault", "treasury"} -> Nat],
         NEW from \in Wallets \cup {"vault", "treasury"},
         NEW to \in Wallets \cup {"vault", "treasury"}, from # to,
         NEW amount \in U64, Transfer(from, to, amount)
  PROVE  tokens' \in [Wallets \cup {"vault", "treasury"} -> Nat]
<1>1. amount \in Nat
  BY AmountAssumption DEF U64
<1>2. tokens[from] - amount \in Nat /\ tokens[to] + amount \in Nat
  BY <1>1 DEF Transfer
<1> QED
  BY <1>2 DEF Transfer

LEMMA Pools ==
  ASSUME NEW w \in Wallets
  PROVE  w # "vault" /\ w # "treasury"
BY PoolAssumption

(* What an instruction has to show about the one account it changes.       *)
LEMMA OneAccount ==
  ASSUME ChainInv, NEW a \in Accounts, NEW next \in Account \cup {NoAccount},
         account' = [account EXCEPT ![a] = next],
         tokens' \in [Wallets \cup {"vault", "treasury"} -> Nat],
         NEW given \in Nat, NEW taken \in Nat,
         granted' = [granted EXCEPT ![a] = @ + given],
         claimed' = [claimed EXCEPT ![a] = @ + taken],
         next # NoAccount => (next.validator <=> next.staked >= Minimum),
         granted[a] + given
           = claimed[a] + taken + (IF next = NoAccount THEN 0 ELSE next.reward)
  PROVE  ChainInv'
<1>1. ChainTypeOK'
  BY DEF ChainInv, ChainTypeOK
<1>2. \A b \in Accounts : account'[b] = IF b = a THEN next ELSE account[b]
  BY DEF ChainInv, ChainTypeOK
<1>3. ValidatorHasMinimum'
  BY <1>2 DEF ChainInv, ValidatorHasMinimum, Open
<1>4. ASSUME NEW b \in Accounts PROVE granted'[b] = claimed'[b] + RewardOf(b)'
  <2>1. CASE b = a
    BY <1>2, <2>1 DEF ChainInv, ChainTypeOK, RewardOf, Open
  <2>2. CASE b # a
    BY <1>2, <2>2 DEF ChainInv, ChainTypeOK, RewardsKept, RewardOf, Open
  <2> QED
    BY <2>1, <2>2
<1> QED
  BY <1>1, <1>3, <1>4 DEF ChainInv, RewardsKept
LEMMA FreshTyped == Fresh \in Account /\ (Fresh.validator <=> Fresh.staked >= Minimum)
BY AmountAssumption DEF Fresh, Account, U64

(* Opening an account: nothing is owed at an address without one.          *)
LEMMA InitNodeKeeps ==
  ASSUME ChainInv, NEW a \in Accounts, InitNode(a)
  PROVE  ChainInv'
<1>1. granted[a] = claimed[a] /\ claimed[a] \in Nat
  BY DEF InitNode, Open, ChainInv, ChainTypeOK, RewardsKept, RewardOf
<1>2. granted' = [granted EXCEPT ![a] = @ + 0] /\ claimed' = [claimed EXCEPT ![a] = @ + 0]
  BY DEF InitNode, ChainInv, ChainTypeOK
<1>3. tokens' \in [Wallets \cup {"vault", "treasury"} -> Nat]
  BY DEF InitNode, ChainInv, ChainTypeOK
<1>4. granted[a] + 0 = claimed[a] + 0 + Fresh.reward
  BY <1>1 DEF Fresh
<1>5. Fresh # NoAccount
  BY FreshTyped, NoAccountAssumption
<1> QED
  BY <1>2, <1>3, <1>4, <1>5, FreshTyped, OneAccount DEF InitNode

(* Instructions on rewards.                                                *)
LEMMA RewardKeeps ==
  ASSUME ChainInv, NEW a \in Accounts, NEW amount \in U64,
         AddReward(a, amount) \/ \E w \in Wallets : ClaimReward(a, w, amount)
  PROVE  ChainInv'
<1>1. account[a] \in Account /\ amount \in Nat /\ Open(a)
  BY AmountAssumption DEF AddReward, ClaimReward, ChainInv, ChainTypeOK, Open, U64
<1>2. granted[a] = claimed[a] + account[a].reward /\ claimed[a] \in Nat
      /\ (account[a].validator <=> account[a].staked >= Minimum)
  BY <1>1 DEF ChainInv, ChainTypeOK, ValidatorHasMinimum, RewardsKept, RewardOf
<1>3. CASE AddReward(a, amount)
  <2> DEFINE next == [account[a] EXCEPT !.reward = @ + amount]
  <2>1. next \in Account /\ next.reward = account[a].reward + amount
        /\ next.validator = account[a].validator /\ next.staked = account[a].staked
    BY <1>1, <1>3 DEF AddReward, Account
  <2>2. account' = [account EXCEPT ![a] = next]
    BY <1>3 DEF AddReward
  <2>3. granted' = [granted EXCEPT ![a] = @ + amount] /\ claimed' = [claimed EXCEPT ![a] = @ + 0]
        /\ tokens' \in [Wallets \cup {"vault", "treasury"} -> Nat]
    BY <1>3 DEF AddReward, ChainInv, ChainTypeOK
  <2>4. account[a].reward \in Nat
    BY <1>1 DEF Account, U64
  <2>5. granted[a] + amount = claimed[a] + 0 + next.reward
    BY <1>1, <1>2, <2>1, <2>4
  <2>6. next # NoAccount
    BY <2>1, NoAccountAssumption
  <2> HIDE DEF next
  <2> QED
    BY <1>1, <1>2, <2>1, <2>2, <2>3, <2>5, <2>6, OneAccount
<1>4. ASSUME NEW w \in Wallets, ClaimReward(a, w, amount) PROVE ChainInv'
  <2> DEFINE next == [account[a] EXCEPT !.reward = @ - amount]
  <2>1. next \in Account /\ next.reward = account[a].reward - amount
        /\ next.validator = account[a].validator /\ next.staked = account[a].staked
    BY <1>1, <1>4, AmountAssumption DEF ClaimReward, Account, U64
  <2>2. account' = [account EXCEPT ![a] = next]
    BY <1>4 DEF ClaimReward
  <2>3. granted' = [granted EXCEPT ![a] = @ + 0] /\ claimed' = [claimed EXCEPT ![a] = @ + amount]
    BY <1>4 DEF ClaimReward, ChainInv, ChainTypeOK
  <2>4. tokens' \in [Wallets \cup {"vault", "treasury"} -> Nat]
    BY <1>4, Pools, TransferTyped DEF ClaimReward, ChainInv, ChainTypeOK
  <2>5. account[a].reward \in Nat
    BY <1>1 DEF Account, U64
  <2>6. granted[a] + 0 = claimed[a] + amount + next.reward
    BY <1>1, <1>2, <2>1, <2>5
  <2>7. next # NoAccount
    BY <2>1, NoAccountAssumption
  <2> HIDE DEF next
  <2> QED
    BY <1>1, <1>2, <2>1, <2>2, <2>3, <2>4, <2>6, <2>7, OneAccount
<1> QED
  BY <1>3, <1>4

(* Instructions that leave the accounts alone.                             *)
LEMMA TreasuryKeeps ==
  ASSUME ChainInv, NEW amount \in U64,
         WithdrawTreasury(amount) \/ \E w \in Wallets : BuyProduct(w, amount)
  PROVE  ChainInv'
<1>1. tokens' \in [Wallets \cup {"vault", "treasury"} -> Nat]
  <2>1. CASE WithdrawTreasury(amount)
    BY <2>1, AmountAssumption DEF WithdrawTreasury, ChainInv, ChainTypeOK, U64
  <2>2. ASSUME NEW w \in Wallets, BuyProduct(w, amount)
        PROVE  tokens' \in [Wallets \cup {"vault", "treasury"} -> Nat]
    BY <2>2, PoolAssumption, TransferTyped DEF BuyProduct, ChainInv, ChainTypeOK
  <2> QED
    BY <2>1, <2>2
<1>2. UNCHANGED <<account, granted, claimed>>
  BY DEF WithdrawTreasury, BuyProduct
<1> QED
  BY <1>1, <1>2 DEF ChainInv, ChainTypeOK, ValidatorHasMinimum, RewardsKept, RewardOf, Open

(* Instructions on the stake.                                              *)
LEMMA StakeKeeps ==
  ASSUME ChainInv, NEW a \in Accounts, NEW w \in Wallets, NEW amount \in U64,
         \/ StakeTokens(a, w, amount) \/ AddStake(a, w, amount)
         \/ WithdrawStake(a, w, amount) \/ DeleteAccount(a, w, amount)
  PROVE  ChainInv'
<1>1. account[a] \in Account /\ amount \in Nat /\ Open(a) /\ Minimum \in Nat \ {0}
  BY AmountAssumption DEF StakeTokens, AddStake, WithdrawStake, DeleteAccount, ChainInv,
                          ChainTypeOK, Open, U64
<1>2. granted[a] = claimed[a] + account[a].reward /\ claimed[a] \in Nat
      /\ (account[a].validator <=> account[a].staked >= Minimum)
  BY <1>1 DEF ChainInv, ChainTypeOK, ValidatorHasMinimum, RewardsKept, RewardOf
<1>3. granted' = [granted EXCEPT ![a] = @ + 0] /\ claimed' = [claimed EXCEPT ![a] = @ + 0]
  BY DEF StakeTokens, AddStake, WithdrawStake, DeleteAccount, histories, ChainInv, ChainTypeOK
<1>4. tokens' \in [Wallets \cup {"vault", "treasury"} -> Nat]
  <2>1. Transfer(w, "vault", amount) \/ Transfer("vault", w, amount)
    BY DEF StakeTokens, AddStake, WithdrawStake, DeleteAccount
  <2> QED
    BY <2>1, Pools, TransferTyped DEF ChainInv, ChainTypeOK
<1>5. ASSUME NEW total \in U64, NEW status \in BOOLEAN, status <=> total >= Minimum,
             account' = [account EXCEPT ![a].staked = total, ![a].validator = status]
      PROVE  ChainInv'
  <2> DEFINE next == [account[a] EXCEPT !.staked = total, !.validator = status]
  <2>1. next \in Account /\ next.reward = account[a].reward /\ next.staked = total
        /\ next.validator = status
    BY <1>1 DEF Account
  <2>2. account' = [account EXCEPT ![a] = next]
    BY <1>5 DEF ChainInv, ChainTypeOK
  <2>3. next # NoAccount
    BY <2>1, NoAccountAssumption
  <2>4. granted[a] + 0 = claimed[a] + 0 + next.reward
    BY <1>1, <1>2, <2>1 DEF Account, U64
  <2>5. next.validator <=> next.staked >= Minimum
    BY <1>5, <2>1
  <2> HIDE DEF next
  <2> QED
    BY <1>3, <1>4, <2>1, <2>2, <2>3, <2>4, <2>5, OneAccount
<1>6. account[a].staked \in Nat /\ account[a].validator \in BOOLEAN
  BY <1>1 DEF Account, U64
<1>7. CASE StakeTokens(a, w, amount)
  BY <1>5, <1>7 DEF StakeTokens
<1>8. CASE AddStake(a, w, amount)
  <2> DEFINE total == account[a].staked + amount
  <2>1. (account[a].validator \/ total >= Minimum) <=> total >= Minimum
    BY <1>1, <1>2, <1>6
  <2> QED
    BY <1>5, <1>8, <2>1 DEF AddStake
<1>9. CASE WithdrawStake(a, w, amount)
  <2> DEFINE rest == account[a].staked - amount
  <2>1. rest \in U64
    BY <1>1, <1>9, AmountAssumption DEF WithdrawStake, Account, U64
  <2>2. (account[a].validator /\ rest > 0) <=> rest >= Minimum
    BY <1>1, <1>2, <1>6, <1>9 DEF WithdrawStake
  <2> QED
    BY <1>5, <1>9, <2>1, <2>2 DEF WithdrawStake
<1>10. CASE DeleteAccount(a, w, amount)
  <2> DEFINE next == NoAccount
  <2>1. granted[a] + 0 = claimed[a] + 0 + (IF next = NoAccount THEN 0 ELSE next.reward)
    BY <1>2, <1>10 DEF DeleteAccount
  <2>2. account' = [account EXCEPT ![a] = next] /\ next \in Account \cup {NoAccount}
        /\ (next # NoAccount => (next.validator <=> next.staked >= Minimum))
    BY <1>10 DEF DeleteAccount
  <2> HIDE DEF next
  <2> QED
    BY <1>3, <1>4, <2>1, <2>2, OneAccount
<1> QED
  BY <1>7, <1>8, <1>9, <1>10
LEMMA ChainInvInit == ChainInit => ChainInv
BY AmountAssumption DEF ChainInit, ChainInv, ChainTypeOK, ValidatorHasMinimum, RewardsKept,
                        RewardOf, Open

LEMMA ChainInvStep == ChainInv /\ [ChainNext]_chainVars => ChainInv'
<1> SUFFICES ASSUME ChainInv, [ChainNext]_chainVars PROVE ChainInv'
  OBVIOUS
<1>1. CASE Earning(U64)
  BY <1>1, InitNodeKeeps, RewardKeeps, TreasuryKeeps DEF Earning
<1>2. CASE Staking(Accounts, U64)
  BY <1>2, StakeKeeps DEF Staking
<1>3. CASE UNCHANGED chainVars
  BY <1>3 DEF chainVars, ChainInv, ChainTypeOK, ValidatorHasMinimum, RewardsKept, RewardOf, Open
<1> QED
  BY <1>1, <1>2, <1>3 DEF ChainNext

-----------------------------------------------------------------------------
(* The state of the program keeps its shape: no amount leaves u64, no      *)
(* balance becomes negative.                                               *)
THEOREM ChainTypeCorrect == ChainSpec => []ChainTypeOK
<1>1. ChainInv => ChainTypeOK
  BY DEF ChainInv
<1> QED
  BY <1>1, ChainInvInit, ChainInvStep, PTL DEF ChainSpec

(* An account is a validator exactly while its stake reaches the minimum,  *)
(* by whichever instructions (program/lib.rs:188-262).                     *)
THEOREM ValidatorsHaveMinimum == ChainSpec => []ValidatorHasMinimum
<1>1. ChainInv => ValidatorHasMinimum
  BY DEF ChainInv
<1> QED
  BY <1>1, ChainInvInit, ChainInvStep, PTL DEF ChainSpec

(* What was added to an address and not yet paid out is in its account, an *)
(* account closed and opened again included.                               *)
THEOREM RewardsAreKept == ChainSpec => []RewardsKept
<1>1. ChainInv => RewardsKept
  BY DEF ChainInv
<1> QED
  BY <1>1, ChainInvInit, ChainInvStep, PTL DEF ChainSpec

-----------------------------------------------------------------------------
(* The vault.                                                              *)

Stakes == [a \in Accounts |-> StakeOf(a)]

LEMMA StakeTyped ==
  ASSUME ChainTypeOK, NEW a \in Accounts
  PROVE  StakeOf(a) \in Nat
  BY AmountAssumption DEF ChainTypeOK, StakeOf, Open, Account, U64

(* The one account an instruction changes, and the vault with it.          *)
LEMMA VaultFrame ==
  ASSUME ChainTypeOK, ChainTypeOK', VaultBacked, NEW a \in Accounts,
         \A b \in Accounts \ {a} : account'[b] = account[b],
         tokens'["vault"] = tokens["vault"] - StakeOf(a) + StakeOf(a)'
  PROVE  VaultBacked'
<1> DEFINE g == Stakes
<1>1. PICK h : h = Stakes'
  OBVIOUS
<1>2. g \in [Accounts -> Int] /\ h \in [Accounts -> Int]
  <2>1. \A b \in Accounts : StakeOf(b) \in Int /\ StakeOf(b)' \in Int
    BY StakeTyped DEF ChainTypeOK, StakeOf, Open, Account, U64
  <2> QED BY <1>1, <2>1 DEF Stakes
<1>3. \A b \in Accounts \ {a} : h[b] = g[b]
  BY <1>1 DEF Stakes, StakeOf, Open
<1>4. g[a] = StakeOf(a) /\ h[a] = StakeOf(a)'
  BY <1>1 DEF Stakes
<1> HIDE DEF g
<1>5. SumFunction(h) = SumFunction(g) - g[a] + h[a]
  BY <1>2, <1>3, AccountsAssumption, SumChanges
<1>6. tokens["vault"] = SumFunction(g)
  BY DEF VaultBacked, g, Stakes
<1>7. tokens'["vault"] = SumFunction(h)
  BY <1>4, <1>5, <1>6
<1> QED BY <1>1, <1>7 DEF VaultBacked, Stakes

(* What a step changes of stakes and vault when it is none of staking.     *)
LEMMA VaultUntouched ==
  ASSUME ChainTypeOK, VaultBacked, tokens'["vault"] = tokens["vault"],
         \A b \in Accounts : StakeOf(b)' = StakeOf(b)
  PROVE  VaultBacked'
<1>1. PICK h : h = Stakes'
  OBVIOUS
<1>2. h = Stakes
  BY <1>1 DEF Stakes
<1> QED BY <1>1, <1>2 DEF VaultBacked, Stakes

(* Rewards and the treasury leave every stake as it is.                    *)
LEMMA EarningKeepsStakes ==
  ASSUME ChainTypeOK, NEW amounts \in SUBSET U64, Earning(amounts)
  PROVE  /\ \A b \in Accounts : StakeOf(b)' = StakeOf(b)
         /\ tokens'["vault"] = tokens["vault"]
<1>1. account \in [Accounts -> Account \cup {NoAccount}]
      /\ tokens \in [Wallets \cup {"vault", "treasury"} -> Nat]
  BY DEF ChainTypeOK
<1>2. ASSUME NEW a \in Accounts, InitNode(a)
      PROVE  /\ \A b \in Accounts : StakeOf(b)' = StakeOf(b)
             /\ tokens'["vault"] = tokens["vault"]
  BY <1>1, <1>2, FreshTyped, NoAccountAssumption DEF InitNode, StakeOf, Open, Fresh
<1>3. ASSUME NEW a \in Accounts, NEW n \in U64,
             AddReward(a, n) \/ \E w \in Wallets : ClaimReward(a, w, n)
      PROVE  /\ \A b \in Accounts : StakeOf(b)' = StakeOf(b)
             /\ tokens'["vault"] = tokens["vault"]
  <2>1. Open(a) /\ account[a] \in Account
    BY <1>1, <1>3 DEF AddReward, ClaimReward, Open
  <2>2. PICK value \in Int : account' = [account EXCEPT ![a].reward = value] /\ value \in U64
    BY <2>1, <1>3, AmountAssumption DEF AddReward, ClaimReward, Account, U64
  <2>3. /\ \A b \in Accounts \ {a} : account'[b] = account[b]
        /\ account'[a] = [account[a] EXCEPT !.reward = value]
    BY <1>1, <2>2
  <2>4. account'[a] \in Account /\ account'[a].staked = account[a].staked
    BY <2>1, <2>2, <2>3 DEF Account
  <2>5. \A b \in Accounts : StakeOf(b)' = StakeOf(b)
    BY <2>1, <2>3, <2>4, NoAccountAssumption DEF StakeOf, Open
  <2>6. tokens'["vault"] = tokens["vault"]
    BY <1>1, <1>3, Pools DEF AddReward, ClaimReward, Transfer
  <2> QED BY <2>5, <2>6
<1>4. ASSUME NEW n \in U64, WithdrawTreasury(n) \/ \E w \in Wallets : BuyProduct(w, n)
      PROVE  /\ \A b \in Accounts : StakeOf(b)' = StakeOf(b)
             /\ tokens'["vault"] = tokens["vault"]
  <2>1. account' = account
    BY <1>4 DEF WithdrawTreasury, BuyProduct
  <2>2. tokens'["vault"] = tokens["vault"]
    BY <1>1, <1>4, PoolAssumption DEF WithdrawTreasury, BuyProduct, Transfer
  <2> QED BY <2>1, <2>2 DEF StakeOf, Open
<1> QED BY <1>2, <1>3, <1>4 DEF Earning

(* A staking instruction on a moves as much in the vault as in a's stake.  *)
LEMMA StakingMoves ==
  ASSUME ChainTypeOK, NEW a \in Accounts, NEW w \in Wallets, NEW n \in U64,
         \/ StakeTokens(a, w, n) \/ AddStake(a, w, n)
         \/ WithdrawStake(a, w, n) \/ DeleteAccount(a, w, n)
  PROVE  /\ \A b \in Accounts \ {a} : account'[b] = account[b]
         /\ StakeTokens(a, w, n) \/ AddStake(a, w, n) => StakeOf(a)' = StakeOf(a) + n
         /\ WithdrawStake(a, w, n) \/ DeleteAccount(a, w, n) => StakeOf(a)' = StakeOf(a) - n
         /\ tokens'["vault"] = tokens["vault"] - StakeOf(a) + StakeOf(a)'
<1>1. account \in [Accounts -> Account \cup {NoAccount}]
      /\ tokens \in [Wallets \cup {"vault", "treasury"} -> Nat] /\ n \in Nat
  BY AmountAssumption DEF ChainTypeOK, U64
<1>2. Open(a) /\ account[a] \in Account /\ StakeOf(a) = account[a].staked
      /\ account[a].staked \in Nat
  BY <1>1, AmountAssumption
     DEF StakeTokens, AddStake, WithdrawStake, DeleteAccount, Open, StakeOf, Account, U64
<1>3. \A b \in Accounts \ {a} : account'[b] = account[b]
  BY <1>1 DEF StakeTokens, AddStake, WithdrawStake, DeleteAccount
<1>4. ASSUME NEW total \in U64, NEW status \in BOOLEAN,
             account' = [account EXCEPT ![a].staked = total, ![a].validator = status]
      PROVE  StakeOf(a)' = total
  <2>1. account'[a] = [account[a] EXCEPT !.staked = total, !.validator = status]
    BY <1>1, <1>4
  <2>2. account'[a] \in Account /\ account'[a].staked = total
    BY <1>2, <1>4, <2>1 DEF Account
  <2> QED BY <2>2, NoAccountAssumption DEF StakeOf, Open
<1>5. CASE StakeTokens(a, w, n) \/ AddStake(a, w, n)
  <2>1. StakeOf(a)' = account[a].staked + n
    BY <1>2, <1>4, <1>5 DEF StakeTokens, AddStake, Account
  <2>2. tokens'["vault"] = tokens["vault"] + n
    BY <1>1, <1>5, Pools DEF StakeTokens, AddStake, Transfer
  <2>3. (~WithdrawStake(a, w, n) /\ ~DeleteAccount(a, w, n)) \/ n = 0
    <3>1. CASE WithdrawStake(a, w, n) \/ DeleteAccount(a, w, n)
      <4>1. tokens'["vault"] = tokens["vault"] - n
        BY <1>1, <3>1, Pools DEF WithdrawStake, DeleteAccount, Transfer
      <4> QED BY <1>1, <2>2, <4>1
    <3> QED BY <3>1
  <2> QED BY <1>1, <1>2, <1>3, <2>1, <2>2, <2>3
<1>6. CASE WithdrawStake(a, w, n)
  <2>1. account[a].staked - n \in U64
    BY <1>1, <1>2, <1>6, AmountAssumption DEF WithdrawStake, Account, U64
  <2>2. StakeOf(a)' = account[a].staked - n
    BY <1>2, <1>4, <1>6, <2>1 DEF WithdrawStake, Account
  <2>3. tokens'["vault"] = tokens["vault"] - n
    BY <1>1, <1>6, Pools DEF WithdrawStake, Transfer
  <2> QED BY <1>1, <1>2, <1>3, <1>5, <2>2, <2>3
<1>7. CASE DeleteAccount(a, w, n)
  <2>1. StakeOf(a)' = 0 /\ account[a].staked = n
    BY <1>1, <1>7 DEF DeleteAccount, StakeOf, Open
  <2>2. tokens'["vault"] = tokens["vault"] - n
    BY <1>1, <1>7, Pools DEF DeleteAccount, Transfer
  <2> QED BY <1>1, <1>2, <1>3, <1>5, <2>1, <2>2
<1> QED BY <1>5, <1>6, <1>7

(* The vault holds the sum of the stakes of all accounts, for any number   *)
(* of accounts, wallets and amounts, whoever stakes into which account:    *)
(* each can be paid back at any time (program/lib.rs:188-290).             *)
THEOREM VaultIsBacked == ChainSpec => []VaultBacked
<1>1. ChainInit => VaultBacked
  <2> SUFFICES ASSUME ChainInit PROVE VaultBacked
    OBVIOUS
  <2>1. [a \in Accounts |-> StakeOf(a)] = [a \in Accounts |-> 0]
    BY DEF ChainInit, StakeOf, Open
  <2>2. tokens["vault"] = 0
    BY PoolAssumption DEF ChainInit
  <2> QED BY <2>1, <2>2, AccountsAssumption, SumOfZeros DEF VaultBacked
<1>2. ChainTypeOK /\ ChainTypeOK' /\ VaultBacked /\ [ChainNext]_chainVars => VaultBacked'
  <2> SUFFICES ASSUME ChainTypeOK, ChainTypeOK', VaultBacked, [ChainNext]_chainVars
               PROVE  VaultBacked'
    OBVIOUS
  <2>1. CASE Earning(U64)
    BY <2>1, EarningKeepsStakes, VaultUntouched
  <2>2. CASE Staking(Accounts, U64)
    BY <2>2, StakingMoves, VaultFrame DEF Staking
  <2>3. CASE UNCHANGED chainVars
    BY <2>3, VaultUntouched DEF chainVars, StakeOf, Open
  <2> QED BY <2>1, <2>2, <2>3 DEF ChainNext
<1> QED BY <1>1, <1>2, ChainTypeCorrect, PTL DEF ChainSpec

-----------------------------------------------------------------------------
LEMMA ExecuteIsInstruction ==
  ASSUME NEW t \in Transfers, Execute(t)
  PROVE  ChainNext
<1>1. Executes[t].account \in Accounts /\ Amount[t] \in U64
  BY ExecutesAssumption, U64Assumption
<1>2. Executes[t].wallet \in Wallets
  BY ExecutesAssumption
<1> QED
  BY <1>1, <1>2 DEF Execute, ChainNext, Earning, Staking

LEMMA ElsewhereIsInstruction == Elsewhere => ChainNext
BY U64Assumption DEF Elsewhere, ChainNext, Earning, Staking

(* The program inside the whole: an execution of a confirmed transfer and  *)
(* an instruction no client confirms are instructions, a handler's step is *)
(* a stutter of the chain.                                                 *)
THEOREM MirrorRefinesProgram == MirrorSpec => ChainSpec
<1>1. MirrorInit => ChainInit
  BY DEF MirrorInit
<1>2. [MirrorNext]_mirrorVars => [ChainNext]_chainVars
  BY ExecuteIsInstruction, ElsewhereIsInstruction
     DEF MirrorNext, Confirm, mirrorVars, chainVars
<1> QED
  BY <1>1, <1>2, PTL DEF MirrorSpec, ChainSpec

(* The endpoints inside the whole: a handler's step is one of Payments, an *)
(* instruction is a stutter of the service.                                *)
THEOREM MirrorRefinesPayments == MirrorSpec => Spec
<1>1. MirrorInit => Init
  BY DEF MirrorInit
<1>2. ASSUME NEW r \in Requests, Confirm(r), executed \subseteq Transfers PROVE Next
  BY <1>2 DEF Confirm, Next
<1>3. MirrorInit => executed \subseteq Transfers
  BY DEF MirrorInit
<1>4. executed \subseteq Transfers /\ [MirrorNext]_mirrorVars => (executed \subseteq Transfers)'
  BY DEF MirrorNext, Execute, Elsewhere, Confirm, mirrorVars
<1>5. executed \subseteq Transfers /\ [MirrorNext]_mirrorVars => [Next]_vars
  BY <1>2 DEF MirrorNext, Execute, Elsewhere, mirrorVars
<1> QED
  BY <1>1, <1>3, <1>4, <1>5, PTL DEF MirrorSpec, Spec

(* So with the chain, as without it, a payment is credited at most once.   *)
THEOREM MirrorCreditsOnce == MirrorSpec => []CreditedOnce
BY MirrorRefinesPayments, PaymentCreditedOnce, PTL

(* And with the service, as without it, the vault holds all stakes.        *)
THEOREM MirrorVaultBacked == MirrorSpec => []VaultBacked
BY MirrorRefinesProgram, VaultIsBacked, PTL

-----------------------------------------------------------------------------
(* The rows mirror the stake.  What the chain executed on the accounts of  *)
(* a wallet and what the service counted for it are sums over the same     *)
(* transfers.                                                              *)

Signed(t) ==
  IF Kind[t] = "stake" THEN Amount[t] ELSE IF Kind[t] = "unstake" THEN - Amount[t] ELSE 0

MirroredStakes(w) == [a \in MirroredFor(w) |-> StakeOf(a)]
OnChain(w) ==
  [t \in Transfers |-> IF t \in executed /\ OwnerOf(t) = w THEN Signed(t) ELSE 0]
InService(w) == [t \in Transfers |-> counted[t][w] * Signed(t)]

(* Only transfers on the chain are confirmed.                              *)
ConfirmInv ==
  /\ executed \subseteq Transfers
  /\ \A r \in Requests : ~At(r, "idle") => req[r].tx \in executed
  /\ \A t \in Transfers \ executed, w \in Pubkeys : counted[t][w] = 0

ChainSum(w) == SumFunction(MirroredStakes(w)) = SumFunction(OnChain(w))
ServiceSum(n) == node[n].staked = SumFunction(InService(Holder[n]))

SumInv == (\A w \in Pubkeys : ChainSum(w)) /\ (\A n \in Nodes : ServiceSum(n))

LEMMA SignedTyped ==
  ASSUME NEW t \in Transfers
  PROVE  Signed(t) \in Int /\ (Kind[t] \notin StakeFlows => Signed(t) = 0)
  BY TransferAssumption DEF Signed, StakeFlows

LEMMA MirroredFinite ==
  ASSUME NEW w
  PROVE  MirroredFor(w) \subseteq Accounts /\ IsFiniteSet(MirroredFor(w))
<1>1. MirroredFor(w) \subseteq Accounts
  BY ExecutesAssumption DEF MirroredFor, Mirrored
<1> QED BY <1>1, AccountsAssumption, FS_Subset

LEMMA SumsOfMirrorTyped ==
  ASSUME ChainTypeOK, TypeOK, NEW w \in Pubkeys
  PROVE  /\ MirroredStakes(w) \in [MirroredFor(w) -> Int]
         /\ OnChain(w) \in [Transfers -> Int] /\ InService(w) \in [Transfers -> Int]
<1>1. \A t \in Transfers : counted[t][w] * Signed(t) \in Int
  BY SignedTyped DEF TypeOK
<1>2. \A a \in MirroredFor(w) : StakeOf(a) \in Int
  BY MirroredFinite, StakeTyped
<1> QED BY <1>1, <1>2, SignedTyped DEF MirroredStakes, OnChain, InService

(* A handler's steps: who is busy works on an executed transfer.           *)
LEMMA ConfirmKept ==
  ASSUME TypeOK, ConfirmInv, [MirrorNext]_mirrorVars
  PROVE  ConfirmInv'
<1>1. /\ req \in [Requests -> Request] /\ counted \in [Transfers -> [Pubkeys -> Nat]]
      /\ \A r \in Requests : Placed(r)
  BY DEF TypeOK
<1>2. ASSUME NEW t \in Transfers, Execute(t) PROVE ConfirmInv'
  BY <1>2 DEF ConfirmInv, Execute, vars, At
<1>3. CASE Elsewhere \/ UNCHANGED mirrorVars
  BY <1>3 DEF ConfirmInv, Elsewhere, mirrorVars, vars, At
<1>4. ASSUME NEW r \in Requests, NEW flow \in Flows, NEW t \in executed,
             NEW pack \in PacksOf(flow), NEW pubkey \in PubkeysOf(flow),
             Start(r, flow, t, pack, pubkey), executed' = executed
      PROVE  ConfirmInv'
  <2>1. \A s \in Requests : req'[s] = IF s = r THEN req'[r] ELSE req[s]
    BY <1>1, <1>4 DEF Start
  <2>2. req'[r].tx = t
    BY <1>1, <1>4 DEF Start
  <2> QED BY <1>4, <2>1, <2>2 DEF ConfirmInv, Start, At
<1>5. ASSUME NEW r \in Requests, Serve(r) \/ EndEarly(r), executed' = executed
      PROVE  ConfirmInv'
  <2>1. \A s \in Requests \ {r} : req'[s] = req[s]
    BY <1>1, <1>5 DEF Serve, EndEarly, Check, Verify, Record, Credit, UpdateStake, FindUser,
                     GoTo, Answer
  <2>2. ~At(r, "idle") /\ req[r].tx \in executed
    BY <1>5 DEF Serve, EndEarly, Check, Verify, Record, Credit, UpdateStake, FindUser, At,
               ConfirmInv
  <2>3. req'[r].tx = req[r].tx \/ At(r, "idle")'
    BY <1>1, <1>5 DEF Serve, EndEarly, Check, Verify, Record, Credit, UpdateStake, FindUser,
                     GoTo, Answer, At, Idle, Request
  <2>4. \A t \in Transfers \ {req[r].tx} : counted'[t] = counted[t]
    BY <1>1, <1>5 DEF Serve, EndEarly, Check, Verify, Record, Credit, UpdateStake, FindUser
  <2> QED BY <1>5, <2>1, <2>2, <2>3, <2>4 DEF ConfirmInv, At
<1> QED BY <1>2, <1>3, <1>4, <1>5 DEF MirrorNext, Confirm

(* An executed transfer changes one stake by its amount.                   *)
LEMMA ExecutedStake ==
  ASSUME ChainTypeOK, NEW t \in Transfers, Execute(t)
  PROVE  /\ Executes[t].account \in Mirrored
         /\ \A b \in Accounts \ {Executes[t].account} : StakeOf(b)' = StakeOf(b)
         /\ StakeOf(Executes[t].account)' = StakeOf(Executes[t].account) + Signed(t)
<1> DEFINE a == Executes[t].account
           w == Executes[t].wallet
<1>1. a \in Mirrored /\ a \in Accounts /\ w \in Wallets /\ Amount[t] \in U64 /\ Amount[t] \in Nat
      /\ Kind[t] = Instructions[Executes[t].instruction]
  BY ExecutesAssumption, U64Assumption, TransferAssumption DEF Mirrored
<1>2. /\ \A b \in Accounts \ {a} : StakeOf(b)' = StakeOf(b)
      /\ StakeOf(a)' = StakeOf(a) + Signed(t)
  <2>0. StakeOf(a) \in Nat
    BY <1>1, StakeTyped
  <2>1. CASE Executes[t].instruction = "buy_product"
    <3>1. Kind[t] = "payment" /\ account' = account
      BY <1>1, <2>1 DEF Execute, BuyProduct, Instructions
    <3> QED BY <3>1, <2>0 DEF Signed, StakeOf, Open
  <2>2. CASE Executes[t].instruction \in {"stake_tokens", "add_stake"}
    <3>1. Kind[t] = "stake" /\ (StakeTokens(a, w, Amount[t]) \/ AddStake(a, w, Amount[t]))
      BY <1>1, <2>2 DEF Execute, Instructions
    <3> QED BY <1>1, <3>1, StakingMoves DEF Signed, StakeOf, Open
  <2>3. CASE Executes[t].instruction \in {"withdraw_stake", "delete_account"}
    <3>1. Kind[t] = "unstake" /\ (WithdrawStake(a, w, Amount[t]) \/ DeleteAccount(a, w, Amount[t]))
      BY <1>1, <2>3 DEF Execute, Instructions
    <3>2. Signed(t) = - Amount[t]
      BY <3>1 DEF Signed
    <3>3. StakeOf(a)' = StakeOf(a) - Amount[t] /\ \A b \in Accounts \ {a} : account'[b] = account[b]
      BY <1>1, <3>1, StakingMoves
    <3> QED BY <1>1, <2>0, <3>2, <3>3 DEF StakeOf, Open
  <2>4. Executes[t].instruction \in DOMAIN Instructions
    BY ExecutesAssumption
  <2> QED BY <2>1, <2>2, <2>3, <2>4 DEF Instructions
<1> QED BY <1>1, <1>2

(* So for the wallet of that account the sums over its stakes and over     *)
(* what was executed change alike, and for the others neither does.        *)
LEMMA ChainSumKept ==
  ASSUME ChainTypeOK, ChainTypeOK', NEW w \in Pubkeys, ChainSum(w), TypeOK, TypeOK',
         NEW t \in Transfers, Execute(t)
  PROVE  ChainSum(w)'
<1> DEFINE a == Executes[t].account
<1>1. /\ a \in Mirrored
      /\ \A b \in Accounts \ {a} : StakeOf(b)' = StakeOf(b)
      /\ StakeOf(a)' = StakeOf(a) + Signed(t)
  BY ExecutedStake
<1>2. PICK g, h, e, f :
        g = MirroredStakes(w) /\ h = MirroredStakes(w)' /\ e = OnChain(w) /\ f = OnChain(w)'
  OBVIOUS
<1>3. CASE Owner[a] # w
  <2>1. h = g
    BY <1>1, <1>2, <1>3, MirroredFinite DEF MirroredStakes, MirroredFor
  <2>2. f = e
    BY <1>2, <1>3 DEF OnChain, OwnerOf, Execute
  <2> QED BY <1>2, <2>1, <2>2 DEF ChainSum
<1>4. CASE Owner[a] = w
  <2>1. a \in MirroredFor(w)
    BY <1>1, <1>4 DEF MirroredFor
  <2>2. /\ g \in [MirroredFor(w) -> Int] /\ h \in [MirroredFor(w) -> Int]
        /\ e \in [Transfers -> Int] /\ f \in [Transfers -> Int]
    <3>1. g \in [MirroredFor(w) -> Int] /\ e \in [Transfers -> Int]
      BY <1>2, SumsOfMirrorTyped
    <3>2. \A b \in MirroredFor(w) : StakeOf(b)' \in Int
      BY MirroredFinite, AmountAssumption DEF ChainTypeOK, StakeOf, Open, Account, U64
    <3> QED BY <1>2, <3>1, <3>2, SignedTyped DEF MirroredStakes, OnChain
  <2>3. SumFunction(h) = SumFunction(g) - g[a] + h[a]
    <3>1. \A b \in MirroredFor(w) \ {a} : h[b] = g[b]
      BY <1>1, <1>2, MirroredFinite DEF MirroredStakes
    <3> QED BY <2>1, <2>2, <3>1, MirroredFinite, SumChanges
  <2>4. SumFunction(f) = SumFunction(e) - e[t] + f[t]
    <3>1. \A u \in Transfers \ {t} : f[u] = e[u]
      BY <1>2 DEF OnChain, Execute
    <3> QED BY <2>2, <3>1, FiniteAssumption, SumChanges
  <2>5. e[t] = 0 /\ f[t] = Signed(t)
    BY <1>2, <1>4 DEF OnChain, OwnerOf, Execute
  <2>6. h[a] = g[a] + Signed(t)
    BY <1>1, <1>2, <2>1 DEF MirroredStakes
  <2>7. /\ SumFunction(g) \in Int /\ SumFunction(e) \in Int
        /\ g[a] \in Int /\ Signed(t) \in Int /\ SumFunction(g) = SumFunction(e)
    BY <1>2, <2>1, <2>2, MirroredFinite, FiniteAssumption, SumTyped, SignedTyped DEF ChainSum
  <2>8. SumFunction(h) = SumFunction(f)
    BY <2>3, <2>4, <2>5, <2>6, <2>7
  <2> QED BY <1>2, <2>8 DEF ChainSum
<1> QED BY <1>3, <1>4

(* An instruction no client confirms touches no mirrored stake.            *)
LEMMA ElsewhereKeepsSum ==
  ASSUME ChainTypeOK, Elsewhere, NEW w \in Pubkeys, ChainSum(w)
  PROVE  ChainSum(w)'
<1>0. MirroredFor(w) \subseteq Accounts /\ MirroredFor(w) \subseteq Mirrored
  BY MirroredFinite DEF MirroredFor
<1>1. \A a \in MirroredFor(w) : StakeOf(a)' = StakeOf(a)
  <2>1. CASE Earning(OtherAmounts)
    BY <1>0, <2>1, EarningKeepsStakes, U64Assumption
  <2>2. ASSUME NEW b \in Accounts \ Mirrored, NEW v \in Wallets, NEW n \in OtherAmounts,
               \/ StakeTokens(b, v, n) \/ AddStake(b, v, n)
               \/ WithdrawStake(b, v, n) \/ DeleteAccount(b, v, n)
        PROVE  \A a \in MirroredFor(w) : StakeOf(a)' = StakeOf(a)
    <3>1. \A a \in Accounts \ {b} : account'[a] = account[a]
      BY <2>2, StakingMoves, U64Assumption
    <3> QED BY <1>0, <2>2, <3>1 DEF StakeOf, Open
  <2> QED BY <2>1, <2>2 DEF Elsewhere, Staking
<1>2. PICK h, f : h = MirroredStakes(w)' /\ f = OnChain(w)'
  OBVIOUS
<1>3. h = MirroredStakes(w) /\ f = OnChain(w)
  BY <1>1, <1>2 DEF MirroredStakes, OnChain, Elsewhere
<1> QED BY <1>2, <1>3 DEF ChainSum

(* A handler that changes stakes changes the rows of the wallet its        *)
(* request names, and what was counted of its transfer for it, alike.      *)
LEMMA ServiceSumKept ==
  ASSUME TypeOK, TypeOK', [Next]_vars, NEW n \in Nodes, ServiceSum(n)
  PROVE  ServiceSum(n)'
<1> DEFINE w == Holder[n]
<1>1. /\ req \in [Requests -> Request] /\ counted \in [Transfers -> [Pubkeys -> Nat]]
      /\ node \in [Nodes -> [staked : Int, validator : BOOLEAN]]
      /\ (\A r \in Requests : Placed(r)) /\ w \in Pubkeys
  BY HolderAssumption DEF TypeOK
<1>2. PICK g, h : g = InService(w) /\ h = InService(w)'
  OBVIOUS
<1>3. g \in [Transfers -> Int] /\ h \in [Transfers -> Int]
  <2>1. \A t \in Transfers :
          counted[t][w] * Signed(t) \in Int /\ counted'[t][w] * Signed(t) \in Int
    BY <1>1, SignedTyped DEF TypeOK
  <2> QED BY <1>2, <2>1 DEF InService
<1>4. CASE node'[n] = node[n] /\ \A t \in Transfers : counted'[t][w] = counted[t][w]
  <2>1. h = g
    BY <1>2, <1>4 DEF InService
  <2> QED BY <1>2, <1>4, <2>1 DEF ServiceSum
<1>5. ASSUME NEW r \in Requests, UpdateStake(r) PROVE ServiceSum(n)'
  <2>1. PICK u \in Transfers : u = req[r].tx
    BY <1>1, <1>5 DEF UpdateStake, Placed, At
  <2>2. /\ req[r].flow \in StakeFlows /\ Kind[u] = req[r].flow /\ req[r].pubkey \in Pubkeys
    BY <1>1, <1>5, <2>1 DEF UpdateStake, Placed, At, Fits, StakeFlows, CreditFlows
  <2>3. \A v \in Transfers :
          counted'[v][w] = IF v = u /\ req[r].pubkey = w THEN counted[v][w] + 1
                           ELSE counted[v][w]
    BY <1>1, <1>5, <2>1, <2>2 DEF UpdateStake
  <2>4. CASE req[r].pubkey # w
    <3>1. node'[n] = node[n]
      BY <1>5, <2>4 DEF UpdateStake, RowsOf
    <3> QED BY <1>4, <2>3, <2>4, <3>1
  <2>5. CASE req[r].pubkey = w
    <3>1. node'[n].staked = node[n].staked + Signed(u)
      <4>1. Amount[u] \in Nat
        BY TransferAssumption
      <4>2. CASE req[r].flow = "stake"
        BY <1>1, <1>5, <2>1, <2>2, <2>5, <4>1, <4>2 DEF UpdateStake, Staked, Signed, RowsOf
      <4>3. CASE req[r].flow = "unstake"
        BY <1>1, <1>5, <2>1, <2>2, <2>5, <4>1, <4>3 DEF UpdateStake, Unstaked, Signed, RowsOf
      <4> QED BY <2>2, <4>2, <4>3 DEF StakeFlows
    <3>2. \A v \in Transfers \ {u} : h[v] = g[v]
      BY <1>2, <2>3 DEF InService
    <3>3. SumFunction(h) = SumFunction(g) - g[u] + h[u]
      BY <1>3, <3>2, FiniteAssumption, SumChanges
    <3>4. counted[u][w] \in Int /\ Signed(u) \in Int /\ counted'[u][w] = counted[u][w] + 1
      BY <1>1, <2>3, <2>5, SignedTyped
    <3>5. g[u] = counted[u][w] * Signed(u) /\ h[u] = (counted[u][w] + 1) * Signed(u)
      BY <1>2, <3>4 DEF InService
    <3>6. h[u] = g[u] + Signed(u)
      BY <3>4, <3>5
    <3>7. SumFunction(g) \in Int /\ g[u] \in Int
      BY <1>3, FiniteAssumption, SumTyped
    <3>8. SumFunction(h) = SumFunction(g) + Signed(u)
      BY <3>3, <3>4, <3>6, <3>7
    <3> QED BY <1>2, <3>1, <3>8 DEF ServiceSum
  <2> QED BY <2>4, <2>5
<1>6. CASE node' = node /\ counted' = counted
  BY <1>4, <1>6
<1>7. (node' = node /\ counted' = counted) \/ \E r \in Requests : UpdateStake(r)
  BY DEF Next, Serve, Start, Check, Verify, Record, Credit, FindUser, EndEarly, vars
<1> QED BY <1>5, <1>6, <1>7

(* Once each staking transfer of a wallet's accounts was confirmed once    *)
(* for the wallet, and no other for it, its rows show the stake the        *)
(* program holds for it, for any number of wallets, rows, accounts,        *)
(* transfers and handlers, in whatever order, overlap and repetition       *)
(* transfers were executed and confirmed, whoever paid them and whatever   *)
(* was confirmed for other wallets.                                        *)
THEOREM RowMirrorsStake == MirrorSpec => []MirrorsStake
<1>1. MirrorInit => ConfirmInv /\ SumInv
  <2> SUFFICES ASSUME MirrorInit PROVE ConfirmInv /\ SumInv
    OBVIOUS
  <2>1. ConfirmInv
    BY DEF MirrorInit, Init, ConfirmInv, At, Idle
  <2>2. ASSUME NEW w \in Pubkeys PROVE ChainSum(w)
    <3>1. MirroredStakes(w) = [a \in MirroredFor(w) |-> 0]
      BY MirroredFinite DEF MirrorInit, ChainInit, MirroredStakes, StakeOf, Open
    <3>2. OnChain(w) = [t \in Transfers |-> 0]
      BY DEF MirrorInit, OnChain
    <3> QED BY <3>1, <3>2, MirroredFinite, FiniteAssumption, SumOfZeros DEF ChainSum
  <2>3. ASSUME NEW n \in Nodes PROVE ServiceSum(n)
    <3>1. InService(Holder[n]) = [t \in Transfers |-> 0]
      <4>1. \A t \in Transfers : 0 * Signed(t) = 0
        BY SignedTyped
      <4> QED BY <4>1, HolderAssumption DEF MirrorInit, Init, InService
    <3>2. node[n].staked = 0
      BY DEF MirrorInit, Init
    <3> QED BY <3>1, <3>2, FiniteAssumption, SumOfZeros DEF ServiceSum
  <2> QED BY <2>1, <2>2, <2>3 DEF SumInv
<1>2. /\ TypeOK /\ TypeOK' /\ ChainTypeOK /\ ChainTypeOK'
      /\ ConfirmInv /\ SumInv /\ [MirrorNext]_mirrorVars /\ [Next]_vars
      => ConfirmInv' /\ SumInv'
  <2> SUFFICES ASSUME TypeOK, TypeOK', ChainTypeOK, ChainTypeOK', ConfirmInv, SumInv,
                      [MirrorNext]_mirrorVars, [Next]_vars
               PROVE  ConfirmInv' /\ SumInv'
    OBVIOUS
  <2>1. ASSUME NEW w \in Pubkeys PROVE ChainSum(w)'
    <3>0. ChainSum(w)
      BY DEF SumInv
    <3>1. ASSUME NEW t \in Transfers, Execute(t) PROVE ChainSum(w)'
      BY <3>0, <3>1, ChainSumKept
    <3>2. CASE Elsewhere
      BY <3>0, <3>2, ElsewhereKeepsSum
    <3>3. CASE UNCHANGED <<account, executed>>
      BY <3>0, <3>3 DEF ChainSum, MirroredStakes, OnChain, StakeOf, Open
    <3> QED BY <3>1, <3>2, <3>3 DEF MirrorNext, Confirm, mirrorVars, chainVars
  <2>2. ASSUME NEW n \in Nodes PROVE ServiceSum(n)'
    BY ServiceSumKept DEF SumInv
  <2> QED BY <2>1, <2>2, ConfirmKept DEF SumInv
<1>3. TypeOK /\ ConfirmInv /\ SumInv => MirrorsStake
  <2> SUFFICES ASSUME TypeOK, ConfirmInv, SumInv, NEW w \in Pubkeys, CountedForOwner(w),
                      NEW n \in RowsOf(w)
               PROVE  node[n].staked = SumFunction([a \in MirroredFor(w) |-> StakeOf(a)])
    BY DEF MirrorsStake
  <2>1. ASSUME NEW t \in Transfers
        PROVE  counted[t][w] * Signed(t)
                 = IF t \in executed /\ OwnerOf(t) = w THEN Signed(t) ELSE 0
    <3>1. counted[t][w] \in Int /\ Signed(t) \in Int
      BY SignedTyped DEF TypeOK
    <3>2. CASE Signed(t) = 0
      BY <3>1, <3>2
    <3>3. CASE t \notin executed
      <4>1. counted[t][w] = 0
        BY <3>3 DEF ConfirmInv
      <4> QED BY <3>1, <3>3, <4>1
    <3>4. CASE t \in executed /\ Signed(t) # 0
      <4>1. counted[t][w] = IF OwnerOf(t) = w THEN 1 ELSE 0
        BY <3>4, SignedTyped DEF CountedForOwner
      <4> QED BY <3>1, <3>4, <4>1
    <3> QED BY <3>2, <3>3, <3>4
  <2>2. InService(w) = OnChain(w)
    BY <2>1 DEF InService, OnChain
  <2>3. n \in Nodes /\ Holder[n] = w
    BY DEF RowsOf
  <2> QED BY <2>2, <2>3 DEF SumInv, ChainSum, ServiceSum, MirroredStakes
<1> QED
  BY <1>1, <1>2, <1>3, MirrorRefinesPayments, MirrorRefinesProgram, TypeCorrect,
     ChainTypeCorrect, PTL DEF MirrorSpec, Spec
=============================================================================
