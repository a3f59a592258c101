----------------------------- MODULE StakeMirror -----------------------------
(***************************************************************************)
(* The service and the chain together: transfers come from instructions of *)
(* the program (StakeProgram), and the handlers of Payments confirm those  *)
(* that were executed, in any order, as often as clients ask and for the   *)
(* wallet each client names.  The rows of runner_nodes mirror the stake of *)
(* their wallet's accounts, as far as it is confirmed for that wallet.     *)
(*                                                                         *)
(* GetTransferInfo of a signature the chain does not know fails, and the   *)
(* handler ends with nothing changed, so a request is modelled from the    *)
(* execution of its transfer on.                                           *)
(***************************************************************************)
EXTENDS Payments, StakeProgram

CONSTANTS
  Owner,         \* Owner[a]: the wallet address a was derived from
  Executes,      \* Executes[t]: instruction, account and paying or paid wallet of
                 \* transfer t
  OtherAmounts,  \* amounts in the instructions no client confirms
  MaxOther       \* bound: such instructions in a behaviour

Instructions ==
  [buy_product |-> "payment", stake_tokens |-> "stake", add_stake |-> "stake",
   withdraw_stake |-> "unstake", delete_account |-> "unstake"]

ASSUME FiniteAssumption == IsFiniteSet(Transfers)
ASSUME ExecutesAssumption ==
  /\ Executes \in [Transfers -> [instruction : DOMAIN Instructions, account : Accounts,
                                  wallet : Wallets]]
  /\ \A t \in Transfers : Kind[t] = Instructions[Executes[t].instruction]
ASSUME OwnerAssumption == Owner \in [Accounts -> Pubkeys]
ASSUME U64Assumption == OtherAmounts \subseteq U64 /\ \A t \in Transfers : Amount[t] \in U64
ASSUME MinimumAssumption == Minimum = MinimumValidatorStake

VARIABLES
  executed,    \* signatures on the chain
  other        \* counts the instructions no client confirms

mirrorVars == <<vars, chainVars, executed, other>>

MirrorInit == Init /\ ChainInit /\ executed = {} /\ other = 0

Execute(t) ==
  LET a == Executes[t].account
      w == Executes[t].wallet
      is(name) == Executes[t].instruction = name
  IN  /\ t \notin executed /\ executed' = executed \cup {t}
      /\ \/ is("buy_product") /\ BuyProduct(w, Amount[t])
         \/ is("stake_tokens") /\ StakeTokens(a, w, Amount[t])
         \/ is("add_stake") /\ AddStake(a, w, Amount[t])
         \/ is("withdraw_stake") /\ WithdrawStake(a, w, Amount[t])
         \/ is("delete_account") /\ DeleteAccount(a, w, Amount[t])
      /\ UNCHANGED <<vars, other>>

(* The accounts whose stake rows mirror: each staking instruction on them  *)
(* is one a client can have confirmed.                                     *)
Mirrored == {Executes[t].account : t \in Transfers}
MirroredFor(w) == {a \in Mirrored : Owner[a] = w}
OwnerOf(t) == Owner[Executes[t].account]

Elsewhere ==
  /\ other < MaxOther /\ other' = other + 1
  /\ Earning(OtherAmounts) \/ Staking(Accounts \ Mirrored, OtherAmounts)
  /\ UNCHANGED <<vars, executed>>

Confirm(r) ==
  /\ \/ Serve(r) \/ EndEarly(r)
     \/ \E flow \in Flows, t \in executed :
          \E pack \in PacksOf(flow), pubkey \in PubkeysOf(flow) : Start(r, flow, t, pack, pubkey)
  /\ UNCHANGED <<chainVars, executed, other>>

MirrorNext ==
  \/ \E t \in Transfers : Execute(t)
  \/ Elsewhere
  \/ \E r \in Requests : Confirm(r)

MirrorSpec == MirrorInit /\ [][MirrorNext]_mirrorVars

-----------------------------------------------------------------------------
(* Once each staking transfer of the wallet's accounts was confirmed once  *)
(* for the wallet, and no other for it, its rows show the stake the        *)
(* program holds for it: in whatever order, overlap and repetition         *)
(* transfers were executed and confirmed, whoever paid them, and whatever  *)
(* was confirmed for other wallets.                                        *)
CountedForOwner(w) ==
  \A t \in executed : Kind[t] \in StakeFlows => counted[t][w] = IF OwnerOf(t) = w THEN 1 ELSE 0

MirrorsStake ==
  \A w \in Pubkeys : CountedForOwner(w) =>
    \A n \in RowsOf(w) : node[n].staked = SumFunction([a \in MirroredFor(w) |-> StakeOf(a)])

(* A transfer counts for the wallet that owns the staked account: the code *)
(* never promises it, and it does not, for the client names the wallet.    *)
OnlyOwnerCounts ==
  \A t \in Transfers, w \in Pubkeys :
    Kind[t] \in StakeFlows /\ counted[t][w] > 0 => OwnerOf(t) = w
=============================================================================
