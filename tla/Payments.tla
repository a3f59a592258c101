------------------------------ MODULE Payments ------------------------------
(***************************************************************************)
(* The four endpoints that turn a confirmed Solana transfer into a change  *)
(* of the database: Telegram credits, monitor credits, stake and unstake   *)
(* (controllers, services/telegram_service.go, services/user_service.go,   *)
(* services/noderunner_service.go), over one table of processed            *)
(* signatures.  Handlers of one signature overlap when a client retries or *)
(* a page is submitted twice; each database call is a step of its own and  *)
(* a handler may end after any of them (an error, a cancelled request      *)
(* context, a crash).                                                      *)
(*                                                                         *)
(* Whose rows a stake transfer changes is what the request says: nothing   *)
(* compares its pubkey with the parties of the transfer or with the        *)
(* account that is signed in.  The rows are those registered before the    *)
(* first request and stay with their wallet (RunnerNodes has the others).  *)
(* Operators named Bug... are mutants of the definition after them.        *)
(***************************************************************************)
EXTENDS Integers, FiniteSets

CONSTANTS
  Requests,      \* handler goroutines
  Transfers,     \* transaction signatures
  Kind,          \* Kind[t]: what the chain says the transfer was
  Amount,        \* Amount[t]: raw token units moved
  Unit,          \* raw units of a token (10^9 on the chain)
  Packs,         \* what a request claims to have bought: an amount the handler
                 \* compares with the transfer's, and credits of either sign
  Pubkeys,       \* the wallets a request to stake or unstake may name
  Nodes, Holder, \* rows of runner_nodes and their owner_pubkey
  MaxStarts,     \* bound: requests in a behaviour
  MaxFaults      \* bound: handlers that end early

CreditFlows == {"telegram", "monitor"}
StakeFlows == {"stake", "unstake"}
Flows == CreditFlows \cup StakeFlows

ASSUME TransferAssumption ==
  /\ Kind \in [Transfers -> {"payment", "stake", "unstake", "other"}]
  /\ Amount \in [Transfers -> Nat \ {0}]
ASSUME PackAssumption == Packs \subseteq [amount : Nat, credits : Int]
ASSUME HolderAssumption == Holder \in [Nodes -> Pubkeys]
ASSUME BoundsAssumption == Unit \in Nat \ {0} /\ MaxStarts \in Nat /\ MaxFaults \in Nat

VARIABLES
  req,         \* req[r]: flow, transfer, pack, pubkey and next step of handler r
  processed,   \* processed_transactions, by primary key
  balance,     \* telegram_credits.purchased_credits, users.credit_balance
  node,        \* runner_nodes: staked_amount and is_validator of each row
  started, faults,
  cut,         \* history: transfers of which some handler ended early
  applied,     \* history: how often a transfer changed a balance or stake
  counted      \* history: how often a transfer changed the rows of a wallet

moneyVars == <<balance, node, applied, counted>>
vars == <<req, processed, moneyVars, started, faults, cut>>

NoPack == [amount |-> 0, credits |-> 0]
Idle == [pc |-> "idle", flow |-> "none", tx |-> "none", pack |-> NoPack, pubkey |-> "none"]

(* The credit endpoints are sent an amount and a number of credits, the    *)
(* others a pubkey.                                                        *)
PacksOf(flow) == IF flow \in CreditFlows THEN Packs ELSE {NoPack}
PubkeysOf(flow) == IF flow \in CreditFlows THEN {"none"} ELSE Pubkeys

(* GetTransferInfo reads the chain, which does not change; the handler     *)
(* compares its receiver or sender with what the flow requires, and a      *)
(* credit flow the amount with the request's.                              *)
Fits(flow, t) == Kind[t] = (IF flow \in CreditFlows THEN "payment" ELSE flow)
Claimed(q) == q.flow \in CreditFlows => q.pack.amount = Amount[q.tx]

FirstStep(flow) == IF flow \in CreditFlows THEN "check" ELSE "verify"
AfterVerify(flow) == IF flow \in CreditFlows THEN "record" ELSE "check"
AfterCheck(flow) == IF flow \in CreditFlows THEN "verify" ELSE "update"

At(r, pc) == req[r].pc = pc
GoTo(r, pc) == req' = [req EXCEPT ![r].pc = pc]
Answer(r) == req' = [req EXCEPT ![r] = Idle]

Init ==
  /\ req = [r \in Requests |-> Idle]
  /\ processed = {} /\ balance = [f \in CreditFlows |-> 0]
  /\ node = [n \in Nodes |-> [staked |-> 0, validator |-> FALSE]]
  /\ started = 0 /\ faults = 0 /\ cut = {}
  /\ applied = [t \in Transfers |-> 0] /\ counted = [t \in Transfers |-> [p \in Pubkeys |-> 0]]

Start(r, flow, t, pack, pubkey) ==
  /\ At(r, "idle") /\ started < MaxStarts /\ started' = started + 1
  /\ req' = [req EXCEPT
       ![r] = [pc |-> FirstStep(flow), flow |-> flow, tx |-> t, pack |-> pack,
               pubkey |-> pubkey]]
  /\ UNCHANGED <<processed, moneyVars, faults, cut>>

(* IsTxProcessed.                                                          *)
Check(r) ==
  /\ At(r, "check")
  /\ IF req[r].tx \in processed THEN Answer(r) ELSE GoTo(r, AfterCheck(req[r].flow))
  /\ UNCHANGED <<processed, moneyVars, started, faults, cut>>

BugVerify(r) ==
  /\ At(r, "verify") /\ GoTo(r, AfterVerify(req[r].flow))
  /\ UNCHANGED <<processed, moneyVars, started, faults, cut>>

Verify(r) ==
  /\ At(r, "verify")
  /\ IF Fits(req[r].flow, req[r].tx) /\ Claimed(req[r])
     THEN GoTo(r, AfterVerify(req[r].flow)) ELSE Answer(r)
  /\ UNCHANGED <<processed, moneyVars, started, faults, cut>>

BugRecord(r) ==
  /\ At(r, "record")
  /\ processed' = processed \cup {req[r].tx}
  /\ IF req[r].flow \in CreditFlows THEN GoTo(r, "credit") ELSE Answer(r)
  /\ UNCHANGED <<moneyVars, started, faults, cut>>

(* ProcessPayment: one INSERT, refused by the primary key when the         *)
(* signature is already there.                                             *)
Record(r) ==
  /\ At(r, "record")
  /\ processed' = processed \cup {req[r].tx}
  /\ IF req[r].flow \in CreditFlows /\ req[r].tx \notin processed
     THEN GoTo(r, "credit") ELSE Answer(r)
  /\ UNCHANGED <<moneyVars, started, faults, cut>>

Apply(t) == applied' = [applied EXCEPT ![t] = @ + 1]

BugCredit(r) ==
  /\ At(r, "credit") /\ Answer(r)
  /\ UNCHANGED <<processed, moneyVars, started, faults, cut>>

(* AddPurchasedCredits and AddMonitorPurchasedCredits: one atomic UPDATE,  *)
(* by the credits the request names, whatever their number and sign.       *)
Credit(r) ==
  /\ At(r, "credit")
  /\ balance' = [balance EXCEPT ![req[r].flow] = @ + req[r].pack.credits]
  /\ Apply(req[r].tx)
  /\ Answer(r)
  /\ UNCHANGED <<processed, node, counted, started, faults, cut>>

(* UpdateStake and UpdateUnstake: one UPDATE of every row of the wallet    *)
(* the request names, with its own threshold each; that there is no such   *)
(* row is no error.                                                        *)
BugStaked(n, amount) == [staked |-> amount, validator |-> amount >= 20]
Staked(n, amount) == [staked |-> n.staked + amount, validator |-> n.staked + amount >= 20]
Unstaked(n, amount) ==
  [staked |-> n.staked - amount, validator |-> n.staked - amount >= 20 * Unit]

RowsOf(pubkey) == {n \in Nodes : Holder[n] = pubkey}

UpdateStake(r) ==
  LET t == req[r].tx
      changed(n) == IF req[r].flow = "stake" THEN Staked(node[n], Amount[t])
                    ELSE Unstaked(node[n], Amount[t])
  IN  /\ At(r, "update")
      /\ node' = [n \in Nodes |-> IF n \in RowsOf(req[r].pubkey) THEN changed(n) ELSE node[n]]
      /\ Apply(t) /\ counted' = [counted EXCEPT ![t][req[r].pubkey] = @ + 1]
      /\ GoTo(r, "user")
      /\ UNCHANGED <<processed, balance, started, faults, cut>>

BugFindUser(r) ==
  /\ At(r, "user") /\ Answer(r)
  /\ UNCHANGED <<processed, moneyVars, started, faults, cut>>

(* GetUserByEmail, for the user id ProcessPayment records.                 *)
FindUser(r) ==
  /\ At(r, "user") /\ GoTo(r, "record")
  /\ UNCHANGED <<processed, moneyVars, started, faults, cut>>

(* The handler ends before its next step: the step's call fails, the       *)
(* request is cancelled, the user row is gone, the process dies.           *)
EndEarly(r) ==
  /\ req[r].pc # "idle" /\ faults < MaxFaults /\ faults' = faults + 1
  /\ cut' = cut \cup {req[r].tx}
  /\ Answer(r)
  /\ UNCHANGED <<processed, moneyVars, started>>

Serve(r) ==
  Check(r) \/ Verify(r) \/ Record(r) \/ Credit(r) \/ UpdateStake(r) \/ FindUser(r)

Next ==
  \E r \in Requests :
    \/ Serve(r) \/ EndEarly(r)
    \/ \E flow \in Flows, t \in Transfers :
         \E pack \in PacksOf(flow), pubkey \in PubkeysOf(flow) : Start(r, flow, t, pack, pubkey)

Spec == Init /\ [][Next]_vars
FairSpec == Spec /\ \A r \in Requests : WF_vars(Serve(r))

-----------------------------------------------------------------------------
Steps == {"idle", "check", "verify", "record", "credit", "update", "user"}

Request == [pc : Steps, flow : Flows \cup {"none"}, tx : Transfers \cup {"none"},
            pack : Packs \cup {NoPack}, pubkey : Pubkeys \cup {"none"}]

(* Each flow keeps to its own steps, and only a transfer the chain         *)
(* confirmed for the flow gets as far as a write.                          *)
Placed(r) ==
  /\ ~At(r, "idle") => req[r].flow \in Flows /\ req[r].tx \in Transfers
  /\ At(r, "credit") => req[r].flow \in CreditFlows
  /\ req[r].pc \in {"update", "user"} => req[r].flow \in StakeFlows
  /\ req[r].flow \in StakeFlows => req[r].pubkey \in Pubkeys
  /\ req[r].pc \in {"update", "user", "record", "credit"} => Fits(req[r].flow, req[r].tx)
  /\ At(r, "check") /\ req[r].flow \in StakeFlows => Fits(req[r].flow, req[r].tx)

(* The shape of the state.                                                 *)
TypeOK ==
  /\ req \in [Requests -> Request]
  /\ \A r \in Requests : Placed(r)
  /\ processed \subseteq Transfers
  /\ balance \in [CreditFlows -> Int]
  /\ node \in [Nodes -> [staked : Int, validator : BOOLEAN]]
  /\ started \in Nat /\ faults \in Nat /\ cut \subseteq Transfers
  /\ applied \in [Transfers -> Nat] /\ counted \in [Transfers -> [Pubkeys -> Nat]]

(* A payment is credited at most once, to one of the two balances, however *)
(* its confirmations overlap and are retried: the early check alone does   *)
(* not ensure it, the primary key does.                                    *)
CreditedOnce == \A t \in Transfers : Kind[t] = "payment" => applied[t] <= 1

Crediting(t) == {r \in Requests : At(r, "credit") /\ req[r].tx = t}

(* ProcessPayment "atomically updates balance and marks tx as processed"   *)
(* (db/repositories/tx_repo.go:10): a payment that is recorded is credited *)
(* or the handler that recorded it is about to.                            *)
RecordedMeansCredited ==
  \A t \in processed : Kind[t] = "payment" => applied[t] = 1 \/ Crediting(t) # {}

(* A recorded payment whose credit is neither made nor under way is one a  *)
(* handler of which ended early: overlap and retries alone never leave a   *)
(* payment recorded, and so refused from then on, without its credit.      *)
OnlyFailureLosesCredit ==
  \A t \in processed :
    Kind[t] = "payment" => applied[t] = 1 \/ Crediting(t) # {} \/ t \in cut

(* A stake transfer counts once: the staking endpoints are "REPLAY         *)
(* PROTECTED" (services/noderunner_service.go:135).                        *)
StakedOnce == \A t \in Transfers : Kind[t] \in StakeFlows => applied[t] <= 1

(* A stake transfer whose handlers are through is recorded, so that a      *)
(* later retry is refused, unless one of them ended early.                 *)
StakedMeansRecorded ==
  \A t \in Transfers \ cut :
    Kind[t] \in StakeFlows /\ applied[t] > 0 /\ (\A r \in Requests : req[r].tx # t)
      => t \in processed

(* A row calls its node validator exactly when the program's minimum    *)
(* says so (program/lib.rs:13, 192, 212).                                  *)
MinimumValidatorStake == 20 * Unit
MirrorsProgram ==
  \A n \in Nodes : node[n].validator <=> node[n].staked >= MinimumValidatorStake

(* Confirming a real payment with its amount leads to its credit, by this  *)
(* handler or by the one that beat it to the record, unless one ends early.*)
Confirming(t) ==
  \E r \in Requests : req[r].tx = t /\ req[r].flow \in CreditFlows /\ Claimed(req[r])

PaymentCredited ==
  \A t \in Transfers : (Kind[t] = "payment" /\ Confirming(t)) ~> (applied[t] = 1 \/ t \in cut)
=============================================================================
