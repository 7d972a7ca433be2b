------------------------------ MODULE Mandates ------------------------------
(***************************************************************************)
(* What x/de promises about who may act for a corporation, without ids,    *)
(* indexes, sequences, rows that participants share, and genesis files.    *)
(*                                                                         *)
(* A (corporation, account) pair is a mandate of one kind at most: the     *)
(* corporation authorized the account on some terms and meters what it     *)
(* draws, or engaged it for participants, each on a record of its own.     *)
(* What one pair, or one participant, does changes nothing for another.    *)
(***************************************************************************)
EXTENDS Stores

CONSTANTS
  Corporations,
  Operators,
  NoOperator,     \* the corporation signs itself
  Participants,
  Spends,         \* the amounts a message may draw
  Dates,          \* the ends that the caller may give a record
  GrantMsg,       \* the message types that delegate further
  RevokeMsg

VARIABLES
  now,
  authorized,     \* the terms of each authorized pair
  drawn,          \* what is left to draw and since when, once something was drawn
  engaged         \* the pair and the record of each participant that has one

mandateVars == <<now, authorized, drawn, engaged>>

Pairs == Corporations \X Operators

Begin ==
  /\ now = 1
  /\ authorized = EmptyMap /\ drawn = EmptyMap /\ engaged = EmptyMap

Valid(pair) == Has(authorized, pair) /\ NotExpired(authorized[pair].expiration, now)

May(corp, signer, msgType) ==
  \/ signer = NoOperator
  \/ Valid(<<corp, signer>>) /\ msgType \in authorized[<<corp, signer>>].msgTypes

\* Terms, new or again, with all there is to draw.
Authorize(pair, signer) ==
  /\ May(pair[1], signer, GrantMsg) /\ signer # pair[2]
  /\ \A p \in DOMAIN engaged : engaged[p].pair # pair
  /\ Has(authorized', pair) /\ authorized' = Put(authorized, pair, authorized'[pair])
  /\ NotExpired(authorized'[pair].expiration, now)
  /\ drawn' = Remove(drawn, pair)
  /\ UNCHANGED <<now, engaged>>

Withdraw(pair, signer) ==
  /\ May(pair[1], signer, RevokeMsg)
  /\ Has(authorized, pair)
  /\ authorized' = Remove(authorized, pair)
  /\ drawn' = Remove(drawn, pair)
  /\ UNCHANGED <<now, engaged>>

PeriodOver(pair) ==
  /\ authorized[pair].period > 0
  /\ now - drawn[pair].lastReset >= authorized[pair].period

\* What is left, or all there is: at first, and when the period is over.
Room(pair) ==
  IF Has(drawn, pair) /\ ~PeriodOver(pair)
  THEN drawn[pair]
  ELSE [remaining |-> authorized[pair].limit, lastReset |-> now]

Draw(pair, amount) ==
  /\ Valid(pair)
  /\ amount > 0 /\ amount <= Room(pair).remaining
  /\ drawn' = Put(drawn, pair, [Room(pair) EXCEPT !.remaining = @ - amount])
  /\ UNCHANGED <<now, authorized, engaged>>

\* An account serves one corporation, and authorizes nothing as its operator.
Engage(p, pair) ==
  /\ ~Has(engaged, p) /\ ~Has(authorized, pair)
  /\ \A q \in DOMAIN engaged : engaged[q].pair[2] = pair[2] => engaged[q].pair = pair
  /\ Has(engaged', p)
  /\ engaged' = Put(engaged, p, [pair |-> pair, record |-> engaged'[p].record])
  /\ UNCHANGED <<now, authorized, drawn>>

Dismiss(p) ==
  /\ engaged' = Remove(engaged, p)
  /\ UNCHANGED <<now, authorized, drawn>>

Reschedule(p, date) ==
  /\ engaged' = [engaged EXCEPT ![p].record.expiration = date]
  /\ UNCHANGED <<now, authorized, drawn>>

\* A record with a period whose end has come starts another.
Renew(p) ==
  LET record == engaged[p].record
  IN  /\ record.period > 0
      /\ record.expiration # NoTime /\ ~InFuture(record.expiration, now)
      /\ Reschedule(p, now + record.period)

Elapse == now' = now + 1 /\ UNCHANGED <<authorized, drawn, engaged>>

Proceed ==
  \/ \E pair \in Pairs, signer \in Operators \cup {NoOperator} :
       Authorize(pair, signer) \/ Withdraw(pair, signer)
  \/ \E pair \in Pairs, amount \in Spends : Draw(pair, amount)
  \/ \E p \in Participants, pair \in Pairs : Engage(p, pair)
  \/ \E p \in DOMAIN engaged :
       Dismiss(p) \/ Renew(p) \/ \E date \in Dates : Reschedule(p, date)
  \/ Elapse

MandateSpec == Begin /\ [][Proceed]_mandateVars
=============================================================================
