------------------------- MODULE TrustDepositProofs -------------------------
(***************************************************************************)
(* Theorems of the trust-deposit module, for any number of corporations,   *)
(* any amounts and any decimal precision.                                  *)
(***************************************************************************)
EXTENDS TrustDeposit, LedgerLemmas

-----------------------------------------------------------------------------
(* The totals.                                                             *)

Deposits == [c \in Corporations |-> td[c].deposit]
Slashes == [c \in Corporations |-> td[c].slashed]

LEMMA TotalsType ==
  ASSUME TypeOK
  PROVE  /\ Deposits \in [1 .. N -> Int] /\ Slashes \in [1 .. N -> Int]
         /\ TotalDeposit \in Int /\ TotalSlashed \in Int
<1>1. Deposits \in [1 .. N -> Int] /\ Slashes \in [1 .. N -> Int]
  BY DEF TypeOK, TrustDepositEntries, Deposits, Slashes, Corporations
<1>2. TotalDeposit = Sum(Deposits, N) /\ TotalSlashed = Sum(Slashes, N)
  BY DEF TotalDeposit, TotalSlashed, Deposits, Slashes
<1>3. QED
  BY <1>1, <1>2, SumType, TrustDepositAssumption

\* A restart forgets what TotalSlashed adds up, a natural number.
LEMMA TotalSlashedNat ==
  ASSUME TypeOK
  PROVE  TotalSlashed \in Nat
<1>1. Slashes \in [1 .. N -> Nat] /\ 1 \in 1 .. N
  BY TrustDepositAssumption DEF TypeOK, TrustDepositEntries, Slashes, Corporations
<1>2. QED
  BY <1>1, SumBound, TrustDepositAssumption DEF TotalSlashed, Slashes

\* Storing one entry changes the totals by what that entry changes.
LEMMA StoreTotals ==
  ASSUME TypeOK, NEW c \in Corporations, NEW e \in TrustDepositEntries, Store(c, e)
  PROVE  /\ td' \in [Corporations -> TrustDepositEntries]
         /\ TotalDeposit' = TotalDeposit - td[c].deposit + e.deposit
         /\ TotalSlashed' = TotalSlashed - td[c].slashed + e.slashed
<1>1. td' = [td EXCEPT ![c] = e] /\ td \in [Corporations -> TrustDepositEntries]
  BY DEF Store, TypeOK
<1>2. td' \in [Corporations -> TrustDepositEntries]
  BY <1>1
<1>3. /\ Deposits' = [Deposits EXCEPT ![c] = e.deposit]
      /\ Slashes' = [Slashes EXCEPT ![c] = e.slashed]
  BY <1>1 DEF Deposits, Slashes
<1>4. /\ Deposits[c] = td[c].deposit /\ Slashes[c] = td[c].slashed
      /\ e.deposit \in Int /\ e.slashed \in Int /\ c \in 1 .. N /\ N \in Nat
  BY TrustDepositAssumption DEF Deposits, Slashes, TrustDepositEntries, Corporations
<1>5. /\ Sum(Deposits', N) = Sum(Deposits, N) - Deposits[c] + e.deposit
      /\ Sum(Slashes', N) = Sum(Slashes, N) - Slashes[c] + e.slashed
  BY <1>3, <1>4, TotalsType, SumUpdate
<1>6. /\ TotalDeposit = Sum(Deposits, N) /\ TotalSlashed = Sum(Slashes, N)
      /\ TotalDeposit' = Sum(Deposits', N) /\ TotalSlashed' = Sum(Slashes', N)
  BY DEF TotalDeposit, TotalSlashed, Deposits, Slashes
<1>7. QED
  BY <1>2, <1>4, <1>5, <1>6

-----------------------------------------------------------------------------
(* The yield of a block.                                                   *)

\* Coins leave the yield pool for the deposits and for the protocol pool: no
\* more than it holds, whatever the fractions.
LEMMA TransferBounds ==
  ASSUME TypeOK
  PROVE  /\ PerBlockYield \in Nat
         /\ Transfer \in Nat /\ Remaining \in Nat
         /\ Transfer + Remaining <= yieldPool
         /\ Remainder \in 0 .. PREC - 1
         /\ Transfer * PREC + Remainder <= dust + PerBlockYield
<1> DEFINE p == yieldPool * PREC
<1> DEFINE t == TransferDec
<1>1. PerBlockYield \in Nat
  <2>1. moduleBalance * PREC \in Nat /\ BlocksPerYear * PREC \in Nat \ {0}
    BY PrecisionAssumption, TrustDepositAssumption, Products, PositiveProducts
       DEF TypeOK
  <2>2. DecQuo(yieldRate, BlocksPerYear * PREC) \in Nat
    BY <2>1, QuotientType DEF TypeOK
  <2>3. QED
    BY <2>1, <2>2, ProductType DEF PerBlockYield
<1>2. p \in Nat /\ yieldPool \in Nat /\ dust \in Nat
  BY PrecisionAssumption, Products DEF TypeOK
<1>3. t \in Nat /\ t <= p /\ t <= dust + PerBlockYield
  BY <1>1, <1>2 DEF TransferDec, Allowance, Smaller
<1>4. Transfer = t \div PREC /\ Remaining = (p - t) \div PREC /\ Remainder = t - Transfer * PREC
  BY DEF Transfer, Remaining, Remainder
<1> HIDE DEF t
<1>5. /\ Transfer \in Nat /\ t % PREC \in 0 .. PREC - 1
      /\ t = Transfer * PREC + (t % PREC)
  BY <1>3, <1>4, Division, PrecisionAssumption
<1>6. Remaining \in Nat /\ Remaining * PREC <= p - t
  <2>1. p - t \in Nat
    BY <1>2, <1>3
  <2> HIDE DEF p
  <2>2. QED
    BY <1>4, <2>1, Division, PrecisionAssumption
<1>7. Transfer + Remaining <= yieldPool
  <2>1. (Transfer + Remaining) * PREC <= yieldPool * PREC
    BY <1>2, <1>3, <1>5, <1>6, PrecisionAssumption
  <2>2. SUFFICES ASSUME yieldPool + 1 <= Transfer + Remaining PROVE FALSE
    BY <1>2, <1>5, <1>6
  <2>3. (yieldPool + 1) * PREC <= (Transfer + Remaining) * PREC
    BY <1>2, <1>5, <1>6, <2>2, PrecisionAssumption
  <2>4. QED
    BY <1>2, <1>5, <1>6, <2>1, <2>3, PrecisionAssumption
<1>8. Remainder = t % PREC
  BY <1>3, <1>4, <1>5, PrecisionAssumption
<1>9. QED
  BY <1>1, <1>3, <1>5, <1>6, <1>7, <1>8

\* Yield never lowers the value of a share.
LEMMA ShareValueGrows ==
  ASSUME TypeOK, NEW t \in Nat, moduleBalance # 0
  PROVE  DecMul(shareValue, DecQuo((moduleBalance + t) * PREC, moduleBalance * PREC))
           \in Nat \ {0}
<1> DEFINE a == (moduleBalance + t) * PREC
<1> DEFINE b == moduleBalance * PREC
<1>1. a \in Nat /\ b \in Nat \ {0} /\ b <= a
  BY PrecisionAssumption, Products, PositiveProducts DEF TypeOK
<1> HIDE DEF a, b
<1>2. DecQuo(a, b) \in Nat /\ PREC <= DecQuo(a, b)
  BY <1>1, RatioAtLeastOne, PrecisionAssumption
<1>3. /\ DecMul(shareValue, DecQuo(a, b)) \in Nat
      /\ DecMul(shareValue, DecQuo(a, b)) >= shareValue
  BY <1>2, GrowingProduct DEF TypeOK
<1>4. DecMul(shareValue, DecQuo(a, b)) \in Nat \ {0}
  BY <1>3 DEF TypeOK
<1>5. QED
  BY <1>4 DEF a, b

-----------------------------------------------------------------------------
(* The invariant.  It is inductive as it stands: the ledger equation needs *)
(* the entries to be naturals, and the bound on the yield needs the dust   *)
(* to be a fraction of a coin, both of which TypeOK states.                *)

Inv == TypeOK /\ LedgerEquation /\ YieldWithinRate

LEMMA InitInv == Init => Inv
<1> SUFFICES ASSUME Init PROVE Inv
  OBVIOUS
<1>1. TypeOK
  BY NoEntryType, PrecisionAssumption, TrustDepositAssumption
     DEF Init, TypeOK, Histories
<1>2. /\ Deposits = [i \in 1 .. N |-> 0]
      /\ Slashes = [i \in 1 .. N |-> 0]
  BY DEF Init, NoEntry, Deposits, Slashes, Corporations
<1>3. TotalDeposit = Sum(Deposits, N) /\ TotalSlashed = Sum(Slashes, N)
  BY DEF TotalDeposit, TotalSlashed, Deposits, Slashes
<1>4. TotalDeposit = 0 /\ TotalSlashed = 0
  BY <1>2, <1>3, SumZero, TrustDepositAssumption
<1>5. LedgerEquation
  BY <1>4 DEF Init, LedgerEquation
<1>6. YieldWithinRate
  BY PrecisionAssumption DEF Init, YieldWithinRate
<1>7. QED
  BY <1>1, <1>5, <1>6 DEF Inv

\* An action that leaves the yield history and the dust alone.
LEMMA SameYield ==
  ASSUME YieldWithinRate, dust' = dust, history'.yielded = history.yielded,
         history'.accrued = history.accrued
  PROVE  YieldWithinRate'
  BY DEF YieldWithinRate

\* An action that leaves the entries alone leaves their totals alone.
LEMMA SameTotals ==
  ASSUME UNCHANGED td
  PROVE  TotalDeposit' = TotalDeposit /\ TotalSlashed' = TotalSlashed
  BY DEF TotalDeposit, TotalSlashed

\* The numbers of the ledger equation are numbers.
LEMMA LedgerType ==
  ASSUME TypeOK
  PROVE  /\ moduleBalance \in Int /\ TotalDeposit \in Int /\ TotalSlashed \in Int
         /\ history.reclaimed \in Int /\ history.yielded \in Int
         /\ history.forgotten \in Int
  BY TotalsType DEF TypeOK, Histories

LEMMA EntryType ==
  ASSUME TypeOK, NEW c \in Corporations
  PROVE  /\ td[c] \in TrustDepositEntries /\ td[c].deposit \in Nat
         /\ td[c].slashed \in Nat /\ td[c].claimable \in Nat
  BY DEF TypeOK, TrustDepositEntries

LEMMA PayInType ==
  ASSUME TypeOK, NEW c \in Corporations, NEW amount \in Nat, PayIn(c, amount)
  PROVE  /\ balance' \in [Corporations -> Nat]
         /\ moduleBalance' \in Nat /\ moduleBalance' = moduleBalance + amount
<1>1. balance \in [Corporations -> Nat] /\ balance[c] - amount \in Nat
  BY DEF TypeOK, PayIn
<1>2. QED
  BY <1>1 DEF TypeOK, PayIn

LEMMA AdjustUpInv ==
  ASSUME Inv, NEW c \in Corporations, NEW augend \in Amounts, AdjustUp(c, augend)
  PROVE  Inv'
<1> DEFINE e == Increased(td[c], augend, shareValue)
<1> DEFINE missing == Missing(td[c], augend)
<1>1. td[c] \in TrustDepositEntries /\ augend \in Nat /\ shareValue \in Nat \ {0}
  BY TrustDepositAssumption DEF Inv, TypeOK
<1>2. /\ missing \in Nat /\ e \in TrustDepositEntries
      /\ e.deposit = td[c].deposit + missing /\ e.slashed = td[c].slashed
  BY <1>1, IncreaseEntry
<1>3. Store(c, e) /\ PayIn(c, missing) /\ UNCHANGED <<dust, params, yieldPool, protocolPool, history>>
  BY DEF AdjustUp
<1> HIDE DEF e, missing
<1>4. /\ td' \in [Corporations -> TrustDepositEntries]
      /\ TotalDeposit' = TotalDeposit - td[c].deposit + e.deposit
      /\ TotalSlashed' = TotalSlashed - td[c].slashed + e.slashed
  BY <1>2, <1>3, StoreTotals DEF Inv
<1>5. TypeOK'
  BY <1>2, <1>3, <1>4, PayInType DEF Inv, TypeOK, params
<1>6. LedgerEquation'
  BY <1>1, <1>2, <1>3, <1>4, LedgerType, EntryType, PayInType DEF Inv, LedgerEquation
<1>7. QED
  BY <1>3, <1>5, <1>6, SameYield DEF Inv

LEMMA AdjustDownInv ==
  ASSUME Inv, NEW c \in Corporations, NEW amount \in Amounts, AdjustDown(c, amount)
  PROVE  Inv'
<1> DEFINE e == Decreased(td[c], amount)
<1>1. td[c] \in TrustDepositEntries /\ amount \in Nat
  BY TrustDepositAssumption DEF Inv, TypeOK
<1>2. e \in TrustDepositEntries /\ e.deposit = td[c].deposit /\ e.slashed = td[c].slashed
  BY <1>1, DecreaseEntry
<1>3. Store(c, e) /\ UNCHANGED <<dust, params, accounts, history>>
  BY DEF AdjustDown
<1> HIDE DEF e
<1>4. /\ td' \in [Corporations -> TrustDepositEntries]
      /\ TotalDeposit' = TotalDeposit - td[c].deposit + e.deposit
      /\ TotalSlashed' = TotalSlashed - td[c].slashed + e.slashed
  BY <1>2, <1>3, StoreTotals DEF Inv
<1>5. TypeOK'
  BY <1>3, <1>4 DEF Inv, TypeOK, params, accounts
<1>6. LedgerEquation'
  BY <1>1, <1>2, <1>3, <1>4, LedgerType, EntryType DEF Inv, LedgerEquation, accounts
<1>7. QED
  BY <1>3, <1>5, <1>6, SameYield DEF Inv

LEMMA OnBehalfInv ==
  ASSUME Inv, NEW c \in Corporations, NEW funder \in Corporations,
         NEW amount \in Amounts, AdjustTrustDepositOnBehalf(c, funder, amount)
  PROVE  Inv'
<1> DEFINE e == IncreasedOnBehalf(td[c], amount, shareValue)
<1>1. td[c] \in TrustDepositEntries /\ amount \in Nat /\ shareValue \in Nat \ {0}
  BY TrustDepositAssumption DEF Inv, TypeOK
<1>2. /\ e \in TrustDepositEntries
      /\ e.deposit = td[c].deposit + amount /\ e.slashed = td[c].slashed
  BY <1>1, OnBehalfEntry
<1>3. /\ Store(c, e) /\ PayIn(funder, amount)
      /\ UNCHANGED <<dust, params, yieldPool, protocolPool, history>>
  BY DEF AdjustTrustDepositOnBehalf
<1> HIDE DEF e
<1>4. /\ td' \in [Corporations -> TrustDepositEntries]
      /\ TotalDeposit' = TotalDeposit - td[c].deposit + e.deposit
      /\ TotalSlashed' = TotalSlashed - td[c].slashed + e.slashed
  BY <1>2, <1>3, StoreTotals DEF Inv
<1>5. TypeOK'
  BY <1>1, <1>3, <1>4, PayInType DEF Inv, TypeOK, params
<1>6. LedgerEquation'
  BY <1>1, <1>2, <1>3, <1>4, LedgerType, EntryType, PayInType DEF Inv, LedgerEquation
<1>7. QED
  BY <1>3, <1>5, <1>6, SameYield DEF Inv

LEMMA BurnInv ==
  ASSUME Inv, NEW c \in Corporations, NEW amount \in Amounts,
         BurnEcosystemSlashedTrustDeposit(c, amount)
  PROVE  Inv'
<1> DEFINE e == Burned(td[c], amount, shareValue)
<1>1. td[c] \in TrustDepositEntries /\ amount \in Nat /\ shareValue \in Nat \ {0}
  BY TrustDepositAssumption DEF Inv, TypeOK
<1>2. /\ e \in TrustDepositEntries
      /\ e.deposit = td[c].deposit - amount /\ e.slashed = td[c].slashed
  BY <1>1, BurnEntry DEF BurnEcosystemSlashedTrustDeposit
<1>3. /\ Store(c, e)
      /\ moduleBalance >= amount /\ moduleBalance' = moduleBalance - amount
      /\ history' = [history EXCEPT !.burned = @ + amount]
      /\ UNCHANGED <<dust, params, balance, yieldPool, protocolPool>>
  BY DEF BurnEcosystemSlashedTrustDeposit
<1> HIDE DEF e
<1>4. /\ td' \in [Corporations -> TrustDepositEntries]
      /\ TotalDeposit' = TotalDeposit - td[c].deposit + e.deposit
      /\ TotalSlashed' = TotalSlashed - td[c].slashed + e.slashed
  BY <1>2, <1>3, StoreTotals DEF Inv
<1>5. /\ history' \in Histories /\ history'.reclaimed = history.reclaimed
      /\ history'.yielded = history.yielded /\ history'.accrued = history.accrued
      /\ history'.forgotten = history.forgotten
  BY <1>1, <1>3 DEF Inv, TypeOK, Histories
<1>6. TypeOK'
  BY <1>1, <1>3, <1>4, <1>5 DEF Inv, TypeOK, params
<1>7. LedgerEquation'
  BY <1>1, <1>2, <1>3, <1>4, <1>5, LedgerType, EntryType DEF Inv, LedgerEquation
<1>8. QED
  BY <1>3, <1>5, <1>6, <1>7, SameYield DEF Inv

LEMMA ReclaimInv ==
  ASSUME Inv, NEW c \in Corporations, ReclaimTrustDepositYield(c)
  PROVE  Inv'
<1> DEFINE e == Reclaimed(td[c], shareValue)
<1> DEFINE claimed == td[c].claimable
<1>1. td[c] \in TrustDepositEntries /\ claimed \in Nat /\ shareValue \in Nat \ {0}
  BY DEF Inv, TypeOK, TrustDepositEntries
<1>2. e \in TrustDepositEntries /\ e.deposit = td[c].deposit /\ e.slashed = td[c].slashed
  BY <1>1, ReclaimEntry
<1>3. /\ Store(c, e)
      /\ moduleBalance >= claimed /\ moduleBalance' = moduleBalance - claimed
      /\ balance' = [balance EXCEPT ![c] = @ + claimed]
      /\ history' = [history EXCEPT !.reclaimed = @ + claimed]
      /\ UNCHANGED <<dust, params, yieldPool, protocolPool>>
  BY DEF ReclaimTrustDepositYield
<1> HIDE DEF e, claimed
<1>4. /\ td' \in [Corporations -> TrustDepositEntries]
      /\ TotalDeposit' = TotalDeposit - td[c].deposit + e.deposit
      /\ TotalSlashed' = TotalSlashed - td[c].slashed + e.slashed
  BY <1>2, <1>3, StoreTotals DEF Inv
<1>5. /\ history' \in Histories /\ history'.reclaimed = history.reclaimed + claimed
      /\ history'.yielded = history.yielded /\ history'.accrued = history.accrued
      /\ history'.forgotten = history.forgotten
  BY <1>1, <1>3 DEF Inv, TypeOK, Histories
<1>6. TypeOK'
  <2>1. balance' \in [Corporations -> Nat]
    <3>1. balance \in [Corporations -> Nat] /\ balance[c] + claimed \in Nat
      BY <1>1 DEF Inv, TypeOK
    <3>2. QED
      BY <1>3, <3>1
  <2>2. QED
    BY <1>1, <1>3, <1>4, <1>5, <2>1 DEF Inv, TypeOK, params
<1>7. LedgerEquation'
  BY <1>1, <1>2, <1>3, <1>4, <1>5, LedgerType, EntryType DEF Inv, LedgerEquation
<1>8. QED
  BY <1>3, <1>5, <1>6, <1>7, SameYield DEF Inv

LEMMA SlashInv ==
  ASSUME Inv, NEW c \in Corporations, NEW amount \in Amounts, SlashTrustDeposit(c, amount)
  PROVE  Inv'
<1> DEFINE e == Slashed(td[c], amount, shareValue)
<1>1. td[c] \in TrustDepositEntries /\ amount \in Nat /\ shareValue \in Nat \ {0}
  BY TrustDepositAssumption DEF Inv, TypeOK
<1>2. /\ e \in TrustDepositEntries
      /\ e.deposit = td[c].deposit - amount /\ e.slashed = td[c].slashed + amount
  BY <1>1, SlashEntry DEF SlashTrustDeposit
<1>3. Store(c, e) /\ UNCHANGED <<dust, params, accounts, history>>
  BY DEF SlashTrustDeposit
<1> HIDE DEF e
<1>4. /\ td' \in [Corporations -> TrustDepositEntries]
      /\ TotalDeposit' = TotalDeposit - td[c].deposit + e.deposit
      /\ TotalSlashed' = TotalSlashed - td[c].slashed + e.slashed
  BY <1>2, <1>3, StoreTotals DEF Inv
<1>5. TypeOK'
  BY <1>3, <1>4 DEF Inv, TypeOK, params, accounts
<1>6. LedgerEquation'
  BY <1>1, <1>2, <1>3, <1>4, LedgerType, EntryType DEF Inv, LedgerEquation, accounts
<1>7. QED
  BY <1>3, <1>5, <1>6, SameYield DEF Inv

LEMMA RepayInv ==
  ASSUME Inv, NEW c \in Corporations, RepaySlashedTrustDeposit(c)
  PROVE  Inv'
<1> DEFINE e == Repaid(td[c], shareValue)
<1> DEFINE amount == td[c].slashed
<1>1. td[c] \in TrustDepositEntries /\ amount \in Nat /\ shareValue \in Nat \ {0}
  BY DEF Inv, TypeOK, TrustDepositEntries
<1>2. e \in TrustDepositEntries /\ e.deposit = td[c].deposit + amount /\ e.slashed = 0
  BY <1>1, RepayEntry
<1>3. /\ Store(c, e) /\ balance[c] >= amount
      /\ balance' = [balance EXCEPT ![c] = @ - amount]
      /\ history' = [history EXCEPT !.burned = @ + amount]
      /\ UNCHANGED <<dust, params, moduleBalance, yieldPool, protocolPool>>
  BY DEF RepaySlashedTrustDeposit
<1> HIDE DEF e
<1>4. /\ td' \in [Corporations -> TrustDepositEntries]
      /\ TotalDeposit' = TotalDeposit - td[c].deposit + e.deposit
      /\ TotalSlashed' = TotalSlashed - td[c].slashed + e.slashed
  BY <1>2, <1>3, StoreTotals DEF Inv
<1>5. /\ history' \in Histories /\ history'.reclaimed = history.reclaimed
      /\ history'.yielded = history.yielded /\ history'.accrued = history.accrued
      /\ history'.forgotten = history.forgotten
  BY <1>1, <1>3 DEF Inv, TypeOK, Histories
<1>6. TypeOK'
  <2>1. balance' \in [Corporations -> Nat]
    <3>1. balance \in [Corporations -> Nat] /\ balance[c] - amount \in Nat
      BY <1>1, <1>3 DEF Inv, TypeOK
    <3>2. QED
      BY <1>3, <3>1
  <2>2. QED
    BY <1>3, <1>4, <1>5, <2>1 DEF Inv, TypeOK, params
<1>7. LedgerEquation'
  BY <1>1, <1>2, <1>3, <1>4, <1>5, LedgerType, EntryType DEF Inv, LedgerEquation
<1>8. QED
  BY <1>3, <1>5, <1>6, <1>7, SameYield DEF Inv

LEMMA UpdateParamsInv ==
  ASSUME Inv, NEW v \in ShareValues, NEW r \in YieldRates, UpdateParams(v, r)
  PROVE  Inv'
<1>1. /\ shareValue' = v /\ yieldRate' = r /\ UNCHANGED <<td, dust, accounts, history>>
      /\ v \in Nat \ {0} /\ r \in Nat
  BY TrustDepositAssumption DEF UpdateParams
<1>2. TypeOK'
  BY <1>1 DEF Inv, TypeOK, accounts
<1>3. LedgerEquation'
  BY <1>1, SameTotals DEF Inv, LedgerEquation, accounts
<1>4. QED
  BY <1>1, <1>2, <1>3, SameYield DEF Inv

LEMMA DistributeYieldInv ==
  ASSUME Inv, DistributeYield
  PROVE  Inv'
<1> DEFINE t == Transfer
<1> DEFINE a == PerBlockYield
<1> DEFINE h(y, z) == [history EXCEPT !.yielded = y, !.accrued = z]
<1>1. /\ a \in Nat /\ t \in Nat /\ Remaining \in Nat /\ t + Remaining <= yieldPool
      /\ Remainder \in 0 .. PREC - 1 /\ t * PREC + Remainder <= dust + a
  BY TransferBounds DEF Inv
<1>2. /\ history \in Histories /\ history.yielded \in Nat /\ history.accrued \in Nat
      /\ moduleBalance \in Nat /\ dust \in Nat
  BY PrecisionAssumption DEF Inv, TypeOK, Histories
<1>3. \A y \in Nat, z \in Nat :
        /\ h(y, z) \in Histories
        /\ h(y, z).yielded = y
        /\ h(y, z).accrued = z
        /\ h(y, z).reclaimed = history.reclaimed
        /\ h(y, z).forgotten = history.forgotten
  BY <1>2 DEF Histories
<1>4. history' = h(history.yielded + t, history.accrued + a)
  BY Zenon DEF DistributeYield
<1> HIDE DEF h
<1>5. history.yielded + t \in Nat /\ history.accrued + a \in Nat
  BY <1>1, <1>2
<1>6. history' \in Histories /\ history'.yielded = history.yielded + t
  BY <1>3, <1>4, <1>5, Zenon
<1>7. history'.accrued = history.accrued + a
  BY <1>3, <1>4, <1>5, Zenon
<1>8. history'.reclaimed = history.reclaimed /\ history'.forgotten = history.forgotten
  BY <1>3, <1>4, <1>5, Zenon
<1>9. /\ moduleBalance' = moduleBalance + t /\ dust' = Remainder
      /\ yieldPool' = yieldPool - t - Remaining
      /\ protocolPool' = protocolPool + Remaining
      /\ UNCHANGED <<td, yieldRate, balance>>
  BY DEF DistributeYield
<1>10. shareValue' \in Nat \ {0}
  <2>1. CASE moduleBalance = 0
    BY <2>1 DEF DistributeYield, Inv, TypeOK
  <2>2. CASE moduleBalance # 0
    <3>1. shareValue' = DecMul(shareValue,
                           DecQuo((moduleBalance + t) * PREC, moduleBalance * PREC))
      BY <1>9, <2>2 DEF DistributeYield
    <3>2. QED
      BY <1>1, <2>2, <3>1, ShareValueGrows DEF Inv
  <2>3. QED
    BY <2>1, <2>2
<1> HIDE DEF t, a
<1>11. TypeOK'
  BY <1>1, <1>6, <1>9, <1>10 DEF Inv, TypeOK
<1>12. LedgerEquation'
  BY <1>1, <1>6, <1>8, <1>9, LedgerType, SameTotals DEF Inv, LedgerEquation
<1>13. YieldWithinRate'
  <2>1. (history.yielded + t) * PREC = history.yielded * PREC + t * PREC
    BY <1>1, <1>2, PrecisionAssumption
  <2>2. history.yielded * PREC \in Nat /\ t * PREC \in Nat
    BY <1>1, <1>2, PrecisionAssumption, Products
  <2>3. QED
    BY <1>1, <1>2, <1>6, <1>7, <1>9, <2>1, <2>2 DEF Inv, YieldWithinRate
<1>14. QED
  BY <1>11, <1>12, <1>13 DEF Inv

LEMMA SkipYieldInv ==
  ASSUME Inv, SkipYield
  PROVE  Inv'
<1> DEFINE a == PerBlockYield
<1>1. a \in Nat
  BY TransferBounds DEF Inv
<1>2. history' = [history EXCEPT !.accrued = @ + a] /\ UNCHANGED <<td, dust, params, accounts>>
  BY DEF SkipYield
<1> HIDE DEF a
<1>3. /\ history \in Histories /\ history.accrued \in Nat
  BY DEF Inv, TypeOK, Histories
<1>4. /\ history' \in Histories /\ history'.accrued = history.accrued + a
      /\ history'.reclaimed = history.reclaimed /\ history'.yielded = history.yielded
      /\ history'.forgotten = history.forgotten
  BY <1>1, <1>2, <1>3 DEF Histories
<1>5. TypeOK'
  BY <1>2, <1>4 DEF Inv, TypeOK, params, accounts
<1>6. LedgerEquation'
  BY <1>2, <1>4, SameTotals DEF Inv, LedgerEquation, accounts
<1>7. YieldWithinRate'
  <2>1. history.yielded * PREC \in Nat /\ dust \in Nat
    BY PrecisionAssumption, Products DEF Inv, TypeOK, Histories
  <2>2. QED
    BY <1>1, <1>2, <1>3, <1>4, <2>1 DEF Inv, YieldWithinRate
<1>8. QED
  BY <1>5, <1>6, <1>7 DEF Inv

LEMMA FundYieldPoolInv ==
  ASSUME Inv, NEW amount \in Amounts, FundYieldPool(amount)
  PROVE  Inv'
<1>1. amount \in Nat /\ UNCHANGED <<td, dust, params, balance, moduleBalance, history>>
  BY TrustDepositAssumption DEF FundYieldPool
<1>2. TypeOK'
  BY <1>1 DEF Inv, TypeOK, FundYieldPool, params
<1>3. LedgerEquation'
  BY <1>1, SameTotals DEF Inv, LedgerEquation
<1>4. QED
  BY <1>1, <1>2, <1>3, SameYield DEF Inv

\* A restart zeroes every slash; what it forgets is what they added up to.
LEMMA RestartInv ==
  ASSUME Inv, RestartFromGenesis
  PROVE  Inv'
<1> DEFINE forgotten == TotalSlashed
<1>1. forgotten \in Nat
  BY TotalSlashedNat DEF Inv
<1>2. /\ td' = [c \in Corporations |-> Exported(td[c])]
      /\ history' = [history EXCEPT !.forgotten = @ + forgotten]
      /\ UNCHANGED <<dust, params, accounts>>
  BY DEF RestartFromGenesis
<1>3. /\ history' \in Histories /\ history'.forgotten = history.forgotten + forgotten
      /\ history'.reclaimed = history.reclaimed /\ history'.yielded = history.yielded
      /\ history'.accrued = history.accrued
  <2> HIDE DEF forgotten
  <2>1. QED
    BY <1>1, <1>2 DEF Inv, TypeOK, Histories
<1>4. \A c \in Corporations :
        /\ Exported(td[c]) \in TrustDepositEntries
        /\ Exported(td[c]).deposit = td[c].deposit
        /\ Exported(td[c]).slashed = 0
  BY ExportEntry, EntryType DEF Inv
<1>5. td' \in [Corporations -> TrustDepositEntries]
  BY <1>2, <1>4, Zenon
<1>6. \A c \in Corporations : td'[c].deposit = td[c].deposit /\ td'[c].slashed = 0
  BY <1>2, <1>4, Zenon
<1>7. TotalDeposit' = TotalDeposit
  BY <1>6 DEF TotalDeposit
<1>8. TotalSlashed' = 0
  <2>1. [c \in Corporations |-> td'[c].slashed] = [i \in 1 .. N |-> 0]
    BY <1>6 DEF Corporations
  <2>2. QED
    BY <2>1, SumZero, TrustDepositAssumption DEF TotalSlashed
<1>9. TypeOK'
  BY <1>2, <1>3, <1>5 DEF Inv, TypeOK, params, accounts
<1>10. LedgerEquation'
  BY <1>2, <1>3, <1>7, <1>8, LedgerType DEF Inv, LedgerEquation, accounts
<1>11. QED
  BY <1>2, <1>3, <1>9, <1>10, SameYield DEF Inv

LEMMA NextInv == Inv /\ [Next]_vars => Inv'
<1> SUFFICES ASSUME Inv, [Next]_vars PROVE Inv'
  OBVIOUS
<1>1. CASE \E c \in Corporations, amount \in Amounts : AdjustUp(c, amount)
  BY <1>1, AdjustUpInv
<1>2. CASE \E c \in Corporations, amount \in Amounts : AdjustDown(c, amount)
  BY <1>2, AdjustDownInv
<1>3. CASE \E c, funder \in Corporations, amount \in Amounts :
             AdjustTrustDepositOnBehalf(c, funder, amount)
  BY <1>3, OnBehalfInv
<1>4. CASE \E c \in Corporations, amount \in Amounts :
             BurnEcosystemSlashedTrustDeposit(c, amount)
  BY <1>4, BurnInv
<1>5. CASE \E c \in Corporations, amount \in Amounts : SlashTrustDeposit(c, amount)
  BY <1>5, SlashInv
<1>6. CASE \E c \in Corporations : ReclaimTrustDepositYield(c)
  BY <1>6, ReclaimInv
<1>7. CASE \E c \in Corporations : RepaySlashedTrustDeposit(c)
  BY <1>7, RepayInv
<1>8. CASE \E v \in ShareValues, r \in YieldRates : UpdateParams(v, r)
  BY <1>8, UpdateParamsInv
<1>9. CASE \E amount \in Amounts : FundYieldPool(amount)
  BY <1>9, FundYieldPoolInv
<1>10. CASE BeginBlocker
  BY <1>10, DistributeYieldInv, SkipYieldInv DEF BeginBlocker
<1>11. CASE RestartFromGenesis
  BY <1>11, RestartInv
<1>12. CASE UNCHANGED vars
  <2>1. /\ UNCHANGED <<td, dust, shareValue, yieldRate, balance>>
        /\ UNCHANGED <<moduleBalance, yieldPool, protocolPool, history>>
    BY <1>12 DEF vars
  <2>2. TypeOK'
    BY <2>1 DEF Inv, TypeOK
  <2>3. LedgerEquation'
    BY <2>1, SameTotals DEF Inv, LedgerEquation
  <2>4. QED
    BY <2>1, <2>2, <2>3, SameYield DEF Inv
<1>13. QED
  BY <1>1, <1>2, <1>3, <1>4, <1>5, <1>6, <1>7, <1>8, <1>9, <1>10, <1>11, <1>12
     DEF Next

LEMMA InvHolds == Spec => []Inv
  BY InitInv, NextInv, PTL DEF Spec

-----------------------------------------------------------------------------
(***************************************************************************)
(* The variables of x/td keep their types: no deposit, claimable amount,   *)
(* slash or account goes negative, the share value stays positive and the  *)
(* dust stays below one coin.                                              *)
(***************************************************************************)
THEOREM TypeCorrect == Spec => []TypeOK
<1>1. Inv => TypeOK
  BY DEF Inv
<1>2. QED
  BY <1>1, InvHolds, PTL

(***************************************************************************)
(* The trust-deposit module account holds, coin for coin, what its entries *)
(* say, in every reachable state: after any mix of adjustments, burns,     *)
(* slashes, repays, reclaims, yield and restarts.                          *)
(***************************************************************************)
THEOREM LedgerHolds == Spec => []LedgerEquation
<1>1. Inv => LedgerEquation
  BY DEF Inv
<1>2. QED
  BY <1>1, InvHolds, PTL

(***************************************************************************)
(* BeginBlock never credits more yield than the blocks allowed, for any    *)
(* decimal precision and any rounding of the per-block yield.              *)
(***************************************************************************)
THEOREM YieldHolds == Spec => []YieldWithinRate
<1>1. Inv => YieldWithinRate
  BY DEF Inv
<1>2. QED
  BY <1>1, InvHolds, PTL

-----------------------------------------------------------------------------
(* The freeze of a slashed entry, an action property.                      *)

Locked(c) == td[c].slashed > 0 /\ td[c].repaid = 0 /\ td'[c].slashed # 0

FrozenStep(c) == /\ td'[c].deposit <= td[c].deposit
                 /\ td'[c].claimable = td[c].claimable

\* A step that stores the entry of one corporation leaves the others alone.
LEMMA StoreOther ==
  ASSUME TypeOK, NEW c \in Corporations, NEW d \in Corporations, NEW e, Store(d, e)
  PROVE  /\ c # d => td'[c] = td[c]
         /\ c = d => td'[c] = e
  BY DEF Store, TypeOK

LEMMA SameEntryFrozen ==
  ASSUME TypeOK, NEW c \in Corporations, td'[c] = td[c]
  PROVE  FrozenStep(c)
  BY EntryType DEF FrozenStep

LEMMA FreezeStep ==
  ASSUME TypeOK, Next, NEW c \in Corporations, Locked(c)
  PROVE  FrozenStep(c)
<1>1. /\ td[c] \in TrustDepositEntries /\ td[c].deposit \in Nat
      /\ Frozen(td[c]) /\ td[c].slashed # 0 /\ shareValue \in Nat \ {0}
  BY EntryType DEF Locked, Frozen, TypeOK
<1>2. ASSUME NEW d \in Corporations, NEW augend \in Amounts, AdjustUp(d, augend)
      PROVE  FrozenStep(c)
  <2>1. c # d /\ Store(d, Increased(td[d], augend, shareValue))
    BY <1>1, <1>2 DEF AdjustUp, CanIncrease
  <2>2. QED
    BY <2>1, StoreOther, SameEntryFrozen
<1>3. ASSUME NEW d \in Corporations, NEW amount \in Amounts, AdjustDown(d, amount)
      PROVE  FrozenStep(c)
  <2>1. c # d /\ Store(d, Decreased(td[d], amount))
    BY <1>1, <1>3 DEF AdjustDown, CanDecrease
  <2>2. QED
    BY <2>1, StoreOther, SameEntryFrozen
<1>4. ASSUME NEW d \in Corporations, NEW funder \in Corporations, NEW amount \in Amounts,
             AdjustTrustDepositOnBehalf(d, funder, amount)
      PROVE  FrozenStep(c)
  <2>1. c # d /\ Store(d, IncreasedOnBehalf(td[d], amount, shareValue))
    BY <1>1, <1>4 DEF AdjustTrustDepositOnBehalf, CanIncreaseOnBehalf
  <2>2. QED
    BY <2>1, StoreOther, SameEntryFrozen
<1>5. ASSUME NEW d \in Corporations, NEW amount \in Amounts,
             BurnEcosystemSlashedTrustDeposit(d, amount)
      PROVE  FrozenStep(c)
  <2>1. /\ Store(d, Burned(td[d], amount, shareValue))
        /\ CanBurn(td[d], amount) /\ amount \in Nat
    BY <1>5, TrustDepositAssumption DEF BurnEcosystemSlashedTrustDeposit
  <2>2. CASE c = d
    <3>1. td'[c] = Burned(td[c], amount, shareValue)
      BY <2>1, <2>2, StoreOther
    <3>2. QED
      BY <1>1, <2>1, <2>2, <3>1, BurnEntry DEF FrozenStep
  <2>3. CASE c # d
    BY <2>1, <2>3, StoreOther, SameEntryFrozen
  <2>4. QED
    BY <2>2, <2>3
<1>6. ASSUME NEW d \in Corporations, NEW amount \in Amounts, SlashTrustDeposit(d, amount)
      PROVE  FrozenStep(c)
  <2>1. /\ Store(d, Slashed(td[d], amount, shareValue))
        /\ CanSlash(td[d], amount) /\ amount \in Nat
    BY <1>6, TrustDepositAssumption DEF SlashTrustDeposit
  <2>2. CASE c = d
    <3>1. td'[c] = Slashed(td[c], amount, shareValue)
      BY <2>1, <2>2, StoreOther
    <3>2. QED
      BY <1>1, <2>1, <2>2, <3>1, SlashEntry DEF FrozenStep
  <2>3. CASE c # d
    BY <2>1, <2>3, StoreOther, SameEntryFrozen
  <2>4. QED
    BY <2>2, <2>3
<1>7. ASSUME NEW d \in Corporations, ReclaimTrustDepositYield(d)
      PROVE  FrozenStep(c)
  <2>1. c # d /\ Store(d, Reclaimed(td[d], shareValue))
    BY <1>1, <1>7 DEF ReclaimTrustDepositYield, CanReclaim
  <2>2. QED
    BY <2>1, StoreOther, SameEntryFrozen
<1>8. ASSUME NEW d \in Corporations, RepaySlashedTrustDeposit(d)
      PROVE  FrozenStep(c)
  <2>1. Store(d, Repaid(td[d], shareValue)) /\ td[d] \in TrustDepositEntries
    BY <1>8, EntryType DEF RepaySlashedTrustDeposit
  <2>2. c # d
    <3>1. SUFFICES ASSUME c = d PROVE FALSE
      OBVIOUS
    <3>2. td'[c] = Repaid(td[c], shareValue)
      BY <2>1, <3>1, StoreOther
    <3>3. td'[c].slashed = 0
      BY <1>1, <3>2, RepayEntry
    <3>4. QED
      BY <3>3 DEF Locked
  <2>3. QED
    BY <2>1, <2>2, StoreOther, SameEntryFrozen
<1>9. ASSUME UNCHANGED td
      PROVE  FrozenStep(c)
  BY <1>9, SameEntryFrozen
<1>10. ASSUME RestartFromGenesis
       PROVE  FrozenStep(c)
  <2>1. td'[c] = Exported(td[c])
    BY <1>10 DEF RestartFromGenesis
  <2>2. td'[c].slashed = 0
    BY <1>1, <2>1, ExportEntry
  <2>3. QED
    BY <2>2 DEF Locked
<1>11. QED
  BY <1>2, <1>3, <1>4, <1>5, <1>6, <1>7, <1>8, <1>9, <1>10
     DEF Next, UpdateParams, FundYieldPool, BeginBlocker, DistributeYield, SkipYield

(***************************************************************************)
(* Between a first slash by governance and its repay, no call of any other *)
(* module and no message raises the deposit or touches the claimable part. *)
(***************************************************************************)
THEOREM SlashFreezes == Spec => UnrepaidSlashFreezes
<1>1. TypeOK /\ [Next]_vars =>
        [\A c \in Corporations :
           td[c].slashed > 0 /\ td[c].repaid = 0 /\ td'[c].slashed # 0
             => /\ td'[c].deposit <= td[c].deposit
                /\ td'[c].claimable = td[c].claimable]_vars
  BY FreezeStep DEF Locked, FrozenStep
<1>2. QED
  BY <1>1, TypeCorrect, PTL DEF Spec, UnrepaidSlashFreezes
====
