---------------------------- MODULE FeeContracts ----------------------------
(***************************************************************************)
(* What the onboarding of participants promises about money, without       *)
(* escrow, trust deposits, prices, windows and schemas.                    *)
(*                                                                         *)
(* A candidate that asks to be validated opens a contract: it hands over   *)
(* the fee of that moment.  The contract ends once: the validator earns    *)
(* the fee, or the candidate has it back, in full.  Apart from that a      *)
(* corporation's coins, in its account or in its trust deposit, only ever  *)
(* become fewer, by a slash.  A slash may take coins that were reclaimed   *)
(* before: wealth below zero is that of others in the deposits' account.   *)
(***************************************************************************)
EXTENDS Stores

CONSTANTS
  Ids,
  Parties

VARIABLES
  contracts,    \* the open contracts: by id, who pays whom how much
  wealth        \* coins of each party

contractVars == <<contracts, wealth>>

Begin ==
  /\ contracts = EmptyMap
  /\ wealth \in [Parties -> Nat]

Open(id, payer, payee) ==
  LET fee == wealth[payer] - wealth'[payer]
  IN  /\ fee \in Nat
      /\ wealth' = [wealth EXCEPT ![payer] = @ - fee]
      /\ contracts' = Put(contracts, id, [payer |-> payer, payee |-> payee, fee |-> fee])

Settle(id, party) ==
  /\ wealth' = [wealth EXCEPT ![party] = @ + contracts[id].fee]
  /\ contracts' = Remove(contracts, id)

Lose(party) ==
  LET loss == wealth[party] - wealth'[party]
  IN  /\ loss \in Nat
      /\ wealth' = [wealth EXCEPT ![party] = @ - loss]
      /\ UNCHANGED contracts

\* Every step changes something.
Proceed ==
  /\ ~UNCHANGED contractVars
  /\ \/ \E id \in Ids \ DOMAIN contracts, payer, payee \in Parties : Open(id, payer, payee)
     \/ \E id \in DOMAIN contracts :
          \E party \in {contracts[id].payer, contracts[id].payee} : Settle(id, party)
     \/ \E party \in Parties : Lose(party)

ContractSpec == Begin /\ [][Proceed]_contractVars
=============================================================================
