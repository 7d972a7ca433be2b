---------------------------- MODULE TrustLedger ----------------------------
(***************************************************************************)
(* One trust-deposit entry of x/td and the operations every other module   *)
(* performs on it, as operators from entry to entry.  A handler is its     *)
(* guard (Can...) and the entry it stores; the coins that move with it are *)
(* the business of the state machine that uses the operator.               *)
(*                                                                         *)
(* An absent entry and an entry of zeros answer every call alike, so the   *)
(* store is total and NoEntry stands for "collections: not found".  The    *)
(* fields last_slashed, last_repaid and slash_count are written and never  *)
(* read by the code; they are left out.                                    *)
(***************************************************************************)
EXTENDS Integers

CONSTANT PREC          \* one, as a LegacyDec: 10^18 in the code

ASSUME PrecisionAssumption == PREC \in Nat \ {0}

-----------------------------------------------------------------------------
(* Fixed-point decimals: the integer n stands for n / PREC.                *)

\* n / PREC rounded to the nearest integer, a tie to the even one.
RoundHalfEven(n) ==
  LET q == n \div PREC
      r == n % PREC
  IN  IF 2 * r < PREC \/ (2 * r = PREC /\ q % 2 = 0) THEN q ELSE q + 1

DecQuo(a, b) == RoundHalfEven((a * PREC * PREC) \div b)

DecMul(a, b) == RoundHalfEven(a * b)

Smaller(a, b) == IF a <= b THEN a ELSE b

AmountToShare(amount, shareValue) == DecQuo(amount * PREC, shareValue)

-----------------------------------------------------------------------------
TrustDepositEntries ==
  [deposit : Nat, claimable : Nat, share : Int, slashed : Nat, repaid : Nat]

NoEntry ==
  [deposit |-> 0, claimable |-> 0, share |-> 0, slashed |-> 0, repaid |-> 0]

\* The guard of both adjust functions: "slashed and not fully repaid".
Frozen(e) == e.slashed > 0 /\ e.repaid < e.slashed

\* What an increase must take from the account once the claimable part is used.
Missing(e, augend) == augend - Smaller(augend, e.claimable)

Increased(e, augend, shareValue) ==
  [e EXCEPT !.deposit   = @ + Missing(e, augend),
            !.share     = @ + AmountToShare(Missing(e, augend), shareValue),
            !.claimable = @ - Smaller(augend, @)]

CanIncrease(e, augend, shareValue) ==
  /\ augend > 0
  /\ ~Frozen(e)
  /\ Increased(e, augend, shareValue).share >= 0

\* A decrease leaves the deposit as it is: the amount becomes claimable.
Decreased(e, amount) == [e EXCEPT !.claimable = @ + amount]

CanDecrease(e, amount) ==
  /\ amount > 0
  /\ ~Frozen(e)
  /\ e.claimable + amount <= e.deposit
  /\ e.share >= 0

IncreasedOnBehalf(e, amount, shareValue) ==
  [e EXCEPT !.deposit = @ + amount,
            !.share   = @ + AmountToShare(amount, shareValue)]

CanAlwaysIncreaseOnBehalf(e, amount) ==   \* mutant: the slash is not looked at
  amount > 0

CanIncreaseOnBehalf(e, amount) == amount > 0 /\ ~Frozen(e)

Burned(e, amount, shareValue) ==
  LET left == e.share - AmountToShare(amount, shareValue)
  IN  [e EXCEPT !.deposit = @ - amount,
                !.share   = IF left < 0 THEN 0 ELSE left]

CanBurn(e, amount) == amount > 0 /\ amount <= e.deposit

Reclaimed(e, shareValue) ==
  [e EXCEPT !.claimable = 0,
            !.share     = @ - AmountToShare(e.claimable, shareValue)]

CanReclaim(e) == e.slashed = 0 /\ e.claimable > 0

Slashed(e, amount, shareValue) ==
  [e EXCEPT !.deposit = @ - amount,
            !.share   = @ - AmountToShare(amount, shareValue),
            !.slashed = @ + amount]

CanSlash(e, amount) == amount > 0 /\ amount <= e.deposit

\* The amount of a repay must be the whole outstanding slash.
Repaid(e, shareValue) ==
  [e EXCEPT !.deposit = @ + e.slashed,
            !.share   = @ + AmountToShare(e.slashed, shareValue),
            !.slashed = 0,
            !.repaid  = @ + e.slashed]

CanRepay(e) == e.slashed > 0

\* What ExportGenesis writes of an entry and InitGenesis restores.
Exported(e) == [e EXCEPT !.slashed = 0, !.repaid = 0]
=============================================================================
