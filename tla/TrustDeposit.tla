---------------------------- MODULE TrustDeposit ----------------------------
(***************************************************************************)
(* The x/td module with the bank balances its handlers move: the four      *)
(* internal calls other modules make (adjust up, adjust down, adjust on    *)
(* behalf of, burn), its three messages (reclaim, slash, repay), the yield *)
(* distribution of BeginBlock, the parameter update of governance and the  *)
(* restart of the chain from an exported genesis.                          *)
(*                                                                         *)
(* A transaction that fails leaves no trace, so every action is a          *)
(* transaction that succeeds.  Operator authorizations and the             *)
(* registration of the corporation are checked by x/de and x/co before     *)
(* anything here is read.                                                  *)
(***************************************************************************)
EXTENDS TrustLedger, Sums

CONSTANTS
  N,               \* the corporations are 1..N
  Amounts,         \* amounts a call or a message may name
  ShareValues,     \* share values governance may set (positive decimals)
  YieldRates,      \* yearly yield rates governance may set, 0 disables yield
  BlocksPerYear,   \* the mint module's parameter
  InitialBalance,  \* coins of every corporation at genesis
  InitialPool,     \* coins of the protocol pool at genesis
  MaxDeposit,      \* bound: no call takes an entry's deposit above it
  MaxReclaimed,    \* bound on the coins paid out by all reclaims
  MaxForgotten,    \* bound on the slashed coins forgotten by all restarts
  MaxAccrued       \* bound: blocks that distribute nothing go unseen above it

ASSUME TrustDepositAssumption ==
  /\ N \in Nat \ {0}
  /\ Amounts \subseteq Nat
  /\ ShareValues \subseteq Nat \ {0}
  /\ YieldRates \subseteq Nat
  /\ BlocksPerYear \in Nat \ {0}
  /\ InitialBalance \in Nat
  /\ InitialPool \in Nat
  /\ MaxDeposit \in Nat
  /\ MaxReclaimed \in Nat
  /\ MaxForgotten \in Nat
  /\ MaxAccrued \in Nat

Corporations == 1 .. N

VARIABLES
  td,              \* the TrustDeposit collection
  dust,            \* the Dust item, a decimal
  shareValue,      \* params.trust_deposit_share_value
  yieldRate,       \* params.trust_deposit_max_yield_rate
  balance,         \* coins of each corporation's account
  moduleBalance,   \* coins of the trust-deposit module account
  yieldPool,       \* coins of the yield intermediate pool
  protocolPool,    \* coins of the protocol pool
  history          \* what happened, read by no action (see Histories)

vars == <<td, dust, shareValue, yieldRate, balance, moduleBalance, yieldPool,
          protocolPool, history>>

accounts == <<balance, moduleBalance, yieldPool, protocolPool>>
params == <<shareValue, yieldRate>>

(***************************************************************************)
(* Totals kept to state the properties: coins paid out by reclaims, coins  *)
(* burned, coins credited as yield, slashed coins a restart forgot, and    *)
(* the yield (a decimal) that each block added to its allowance.           *)
(***************************************************************************)
Histories ==
  [reclaimed : Nat, burned : Nat, yielded : Nat, forgotten : Nat, accrued : Nat]

Init ==
  /\ td = [c \in Corporations |-> NoEntry]
  /\ dust = 0
  /\ shareValue = PREC
  /\ yieldRate \in YieldRates
  /\ balance = [c \in Corporations |-> InitialBalance]
  /\ moduleBalance = 0
  /\ yieldPool = 0
  /\ protocolPool = InitialPool
  /\ history = [reclaimed |-> 0, burned |-> 0, yielded |-> 0, forgotten |-> 0,
                accrued |-> 0]

-----------------------------------------------------------------------------
\* Store e as the entry of c; the bound keeps the model finite.
Store(c, e) ==
  /\ e.deposit <= MaxDeposit
  /\ td' = [td EXCEPT ![c] = e]

\* bank.SendCoinsFromAccountToModule to the trust-deposit module.
PayIn(c, amount) ==
  /\ balance[c] >= amount
  /\ balance' = [balance EXCEPT ![c] = @ - amount]
  /\ moduleBalance' = moduleBalance + amount

\* AdjustTrustDeposit with a positive augend.
AdjustUp(c, augend) ==
  /\ CanIncrease(td[c], augend, shareValue)
  /\ Store(c, Increased(td[c], augend, shareValue))
  /\ PayIn(c, Missing(td[c], augend))
  /\ UNCHANGED <<dust, params, yieldPool, protocolPool, history>>

\* AdjustTrustDeposit with the augend -amount.
AdjustDown(c, amount) ==
  /\ CanDecrease(td[c], amount)
  /\ Store(c, Decreased(td[c], amount))
  /\ UNCHANGED <<dust, params, accounts, history>>

AdjustTrustDepositOnBehalf(c, funder, amount) ==
  /\ CanIncreaseOnBehalf(td[c], amount)
  /\ Store(c, IncreasedOnBehalf(td[c], amount, shareValue))
  /\ PayIn(funder, amount)
  /\ UNCHANGED <<dust, params, yieldPool, protocolPool, history>>

BurnEcosystemSlashedTrustDeposit(c, amount) ==
  /\ CanBurn(td[c], amount)
  /\ moduleBalance >= amount
  /\ Store(c, Burned(td[c], amount, shareValue))
  /\ moduleBalance' = moduleBalance - amount
  /\ history' = [history EXCEPT !.burned = @ + amount]
  /\ UNCHANGED <<dust, params, balance, yieldPool, protocolPool>>

ReclaimTrustDepositYield(c) ==
  LET claimed == td[c].claimable
  IN  /\ CanReclaim(td[c])
      /\ moduleBalance >= claimed
      /\ history.reclaimed + claimed <= MaxReclaimed
      /\ Store(c, Reclaimed(td[c], shareValue))
      /\ balance' = [balance EXCEPT ![c] = @ + claimed]
      /\ moduleBalance' = moduleBalance - claimed
      /\ history' = [history EXCEPT !.reclaimed = @ + claimed]
      /\ UNCHANGED <<dust, params, yieldPool, protocolPool>>

\* Governance: the coins stay in the module account.
SlashTrustDeposit(c, amount) ==
  /\ CanSlash(td[c], amount)
  /\ Store(c, Slashed(td[c], amount, shareValue))
  /\ UNCHANGED <<dust, params, accounts, history>>

RepayWithoutBurn(c) ==       \* mutant: the slashed coins are not burned
  /\ CanRepay(td[c])
  /\ Store(c, Repaid(td[c], shareValue))
  /\ PayIn(c, td[c].slashed)
  /\ UNCHANGED <<dust, params, yieldPool, protocolPool, history>>

\* New coins come in and the slashed ones, locked since the slash, are burned.
RepaySlashedTrustDeposit(c) ==
  LET amount == td[c].slashed
  IN  /\ CanRepay(td[c])
      /\ balance[c] >= amount
      /\ Store(c, Repaid(td[c], shareValue))
      /\ balance' = [balance EXCEPT ![c] = @ - amount]
      /\ history' = [history EXCEPT !.burned = @ + amount]
      /\ UNCHANGED <<dust, params, moduleBalance, yieldPool, protocolPool>>

UpdateParams(newShareValue, newYieldRate) ==
  /\ shareValue' = newShareValue
  /\ yieldRate' = newYieldRate
  /\ UNCHANGED <<td, dust, accounts, history>>

-----------------------------------------------------------------------------
(* Yield distribution at the start of a block.                             *)

PerBlockYield ==
  DecMul(moduleBalance * PREC, DecQuo(yieldRate, BlocksPerYear * PREC))

Allowance == dust + PerBlockYield

\* min(allowance, pool), a decimal, and the whole coins of it.
TransferDec == Smaller(Allowance, yieldPool * PREC)

TransferAllOrNothing ==      \* mutant: a pool short of the allowance pays nothing
  IF Allowance <= yieldPool * PREC THEN Allowance \div PREC ELSE 0

Transfer == TransferDec \div PREC

RemainingBeforeTransfer ==   \* mutant: the balance is read before the transfer
  yieldPool

\* The whole coins of what the pool keeps, returned to the protocol pool.
Remaining == (yieldPool * PREC - TransferDec) \div PREC

RemainderAddedToDust ==      \* mutant: the old dust is in the allowance already
  dust + TransferDec - Transfer * PREC

Remainder == TransferDec - Transfer * PREC

\* A block that has whole coins to distribute.
DistributeYield ==
  /\ yieldRate > 0
  /\ Transfer > 0
  /\ moduleBalance' = moduleBalance + Transfer
  /\ yieldPool' = yieldPool - Transfer - Remaining
  /\ protocolPool' = protocolPool + Remaining
  /\ shareValue' =
       IF moduleBalance = 0 THEN shareValue
       ELSE DecMul(shareValue, DecQuo(moduleBalance' * PREC, moduleBalance * PREC))
  /\ dust' = Remainder
  /\ history' = [history EXCEPT !.yielded = @ + Transfer,
                                !.accrued = @ + PerBlockYield]
  /\ UNCHANGED <<td, yieldRate, balance>>

\* A block that has none: BeginBlocker returns before it writes anything, so that the
\* fraction of a coin this block earned is lost.
SkipYield ==
  /\ yieldRate > 0
  /\ Transfer = 0
  /\ history.accrued + PerBlockYield <= MaxAccrued
  /\ history' = [history EXCEPT !.accrued = @ + PerBlockYield]
  /\ UNCHANGED <<td, dust, params, accounts>>

BeginBlocker == DistributeYield \/ SkipYield

\* The continuous funding proposal pays the pool from the protocol pool.
FundYieldPool(amount) ==
  /\ amount > 0
  /\ protocolPool >= amount
  /\ yieldPool' = yieldPool + amount
  /\ protocolPool' = protocolPool - amount
  /\ UNCHANGED <<td, dust, params, balance, moduleBalance, history>>

-----------------------------------------------------------------------------
TotalDeposit == Sum([c \in Corporations |-> td[c].deposit], N)
TotalSlashed == Sum([c \in Corporations |-> td[c].slashed], N)

\* ExportGenesis, a new binary, InitGenesis.
RestartFromGenesis ==
  /\ history.forgotten + TotalSlashed <= MaxForgotten
  /\ td' = [c \in Corporations |-> Exported(td[c])]
  /\ history' = [history EXCEPT !.forgotten = @ + TotalSlashed]
  /\ UNCHANGED <<dust, params, accounts>>

Next ==
  \/ \E c \in Corporations, amount \in Amounts :
       \/ AdjustUp(c, amount)
       \/ AdjustDown(c, amount)
       \/ \E funder \in Corporations : AdjustTrustDepositOnBehalf(c, funder, amount)
       \/ BurnEcosystemSlashedTrustDeposit(c, amount)
       \/ SlashTrustDeposit(c, amount)
  \/ \E c \in Corporations : ReclaimTrustDepositYield(c) \/ RepaySlashedTrustDeposit(c)
  \/ \E v \in ShareValues, r \in YieldRates : UpdateParams(v, r)
  \/ \E amount \in Amounts : FundYieldPool(amount)
  \/ BeginBlocker
  \/ RestartFromGenesis

Spec == Init /\ [][Next]_vars

\* CometBFT keeps producing blocks, and every block runs BeginBlocker.
FairSpec == Spec /\ WF_vars(DistributeYield)

-----------------------------------------------------------------------------
(* Properties.                                                             *)

\* Every variable has its type; the dust is a fraction of one coin.
TypeOK ==
  /\ td \in [Corporations -> TrustDepositEntries]
  /\ dust \in 0 .. PREC - 1
  /\ shareValue \in Nat \ {0}
  /\ yieldRate \in Nat
  /\ balance \in [Corporations -> Nat]
  /\ moduleBalance \in Nat
  /\ yieldPool \in Nat
  /\ protocolPool \in Nat
  /\ history \in Histories

(***************************************************************************)
(* What the module account holds, coin for coin, across all entries: the   *)
(* deposits, the slashed coins that are locked until they are repaid (or   *)
(* that a restart forgot) and the yield, less what reclaims paid out.  No  *)
(* handler of x/td may take coins that this sum does not account for.      *)
(***************************************************************************)
LedgerEquation ==
  moduleBalance + history.reclaimed =
    TotalDeposit + TotalSlashed + history.yielded + history.forgotten

(***************************************************************************)
(* Over any number of blocks the yield credited, with the dust that is     *)
(* carried, is at most the yield those blocks allowed: no fraction of a    *)
(* coin is counted by two blocks.                                          *)
(***************************************************************************)
YieldWithinRate == history.yielded * PREC + dust <= history.accrued

(***************************************************************************)
(* A corporation slashed by governance that never repaid anything can have *)
(* its deposit fall further, by slash or burn, but neither it nor another  *)
(* corporation can raise it, and its claimable part stays where it is,     *)
(* until it repays (or a restart forgets the slash).                       *)
(***************************************************************************)
UnrepaidSlashFreezes ==
  [][\A c \in Corporations :
       td[c].slashed > 0 /\ td[c].repaid = 0 /\ td'[c].slashed # 0
         => /\ td'[c].deposit <= td[c].deposit
            /\ td'[c].claimable = td[c].claimable]_vars

(***************************************************************************)
(* Coins sent to the yield intermediate pool do not stay there while the   *)
(* deposits earn at least a coin per block.                                *)
(***************************************************************************)
YieldPoolDrains ==
  []<>(yieldPool = 0 \/ yieldRate = 0 \/ Allowance < PREC)

-----------------------------------------------------------------------------
(* What comments of the code say and the code does not do.                 *)

(***************************************************************************)
(* "any non-zero value [of slashed_deposit] means an outstanding (unrepaid)*)
(* slash balance", and a trust deposit that "has been slashed and not      *)
(* fully repaid" refuses adjustments.                                      *)
(***************************************************************************)
OutstandingSlashFreezes ==
  [][\A c \in Corporations :
       td[c].slashed > 0 /\ td'[c].slashed # 0
         => /\ td'[c].deposit <= td[c].deposit
            /\ td'[c].claimable = td[c].claimable]_vars
=============================================================================
