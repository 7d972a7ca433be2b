# Verana in TLA+

A model of the Verana chain (a Cosmos SDK application, Go) as TLA+ modules, with
the TLC configurations that check them on small instances and TLAPS proofs, for every size
of the instance, of every safety property that a run shows to hold. Every definition
that models code names its source lines in `PROJECT.json` ("map").

How the chain runs the code is the frame of every model:

* A transaction is atomic. A message that fails leaves no trace, so an action is
  a message (or an internal call) that *succeeds*, with everything it changes in
  every module: a message of x/pp that moves coins, adjusts a trust deposit and
  grants a record is one action.
* Blocks are sequential; the concurrency is that of *actors*: corporations,
  validators, operators, governance and the block itself, in any order.
* The chain can be exported, and started again from the genesis it exported. What
  a module's genesis leaves out is lost, and counters and indexes are rebuilt.

## 1. Inventory

### x/td, trust deposits

State: `TrustDeposit` (per corporation: deposit, share, claimable, slashed,
repaid), `Dust`, parameters (share value, yield rate, ...), and the coins of three
module accounts. Operations: the internal calls `AdjustTrustDeposit` (both signs),
`AdjustTrustDepositOnBehalf`, `BurnEcosystemSlashedTrustDeposit`; the messages
reclaim yield, slash (governance), repay; `UpdateParams`; the yield of
`BeginBlocker`; genesis. Called by x/pp. Hard: shares and yield are rounded
decimals, the share value moves under all entries at once, slash / repay / burn /
reclaim interleave, and a fraction of a coin is carried between blocks. Correct
when the coins of the account are those the entries and the yield account for,
yield stays within its rate and is not lost, and a slashed entry is frozen until
it has repaid.

### x/de, delegation

State: operator authorizations (OA) and VS operator authorizations (VSOA) by id,
with an index each; a spend ledger per OA; fee grants; two id sequences.
Operations: grant and revoke of an OA, grant / revoke / update of the records of a
VSOA (called by x/pp), the authorization checks that meter spending and reset
periods, genesis. Used by every message of every module. Hard: seven stores that
must agree, OA and VSOA of one account that exclude each other through checks in
two handlers, one fee grant that stands for many records, ids reused after a
restart. Correct when the stores agree, the exclusion holds, fee grants are backed
and a spent limit comes back with its period.

### x/pp, participants

State: `Participant` by id and its counter, sessions, and the escrow account.
Operations: the messages of a participant's life (create root, start, renew,
validate, cancel, self-create, change the end, revoke, slash, repay), and sessions,
which split fees along the chain of validators. Calls x/td, x/de, x/cs, x/ec (for the
price of a trust unit), x/di, the bank. Hard: fees of all requests in one account, windows that four handlers
set in the past and in advance, a process (`op_state`) beside a window beside a
slash, records of VS operators in another module that must follow, and session payments
that are rounded one by one after a single check of the balance. Correct when
escrow and deposits balance, windows do not overlap and end with their validation,
records do not outlive participants, and a session pays what it quotes, to
participants in force.

### x/co, x/ec, x/gf: corporations, ecosystems, governance frameworks

State: rows by id, indexes by DID, versions and documents of frameworks, one
counter each. Operations: create, update (change of DID), archive, add a document,
increase the active version, genesis. x/gf owns versions and documents, x/co and
x/ec the number of the active version. Hard: the three modules must agree on what
is in force, the index of ecosystems is shared between rows, indexes and counters
are rebuilt by a restart. Correct when indexes lead to rows, DIDs have one owner,
and a framework in force is complete and never changes.

### x/cs, credential schemas

State: `CredentialSchema` by id (ecosystem, modes of issuers and verifiers, a validity
period for each role, archived), authorization policies by id, parameters, two
counters. Operations: create, update (of the periods), archive; create, activate and
revoke a policy; `UpdateParams`; genesis. x/pp reads a schema in every message. Hard:
periods change under processes that are running, maxima change under schemas,
policies are counted in two ways and are lost by a restart. Correct when a schema
belongs to its ecosystem's corporation and keeps its modes, and the versions of its
policies are activated in order.

### x/xr, exchange rates

State: rates by id, an index from the key of a pair to its rate, a counter, a
parameter. Operations: create and turn on or off (governance), update (any
corporation), `UpdateParams`, genesis; `GetPrice` reads. No other module reads a
rate. Hard: rates expire, updates race their expiration, the index is rebuilt by a
restart and its key is not injective. Correct when a pair has one rate and a rate
gives a price only while it is valid.

### x/di, digests

A map of digests, written once, by a message and by the sessions of x/pp.

### Application, queries, generated code, harness

`app/` builds the keepers and runs the store upgrades; queries and the CLI read;
`api/`, `proto/`, `ts-proto/` are generated or are the proto files; `testharness/`
and `scripts/` drive a running node.

### Interactions

```
 x/pp --deposit, release, burn--> x/td --coins--> bank
 x/pp --records of VS operators--> x/de --> feegrant
 x/pp --digest of a credential--> x/di
 x/pp --price of a trust unit--> x/ec
 x/pp --mode, periods, owner--> x/cs --owner--> x/ec --> x/co
 x/ec, x/co --first version--> x/gf --active version--> x/ec, x/co
 every message --operator authorization--> x/de
```

What is hard to test is listed under "hazards" in `PROJECT.json`, each at its line
with the properties that cover it.

## 2. Modules

| module | models |
|---|---|
| `Sums` | the sum of a function on 1..n, as a recursive function, and along a listing of a finite set |
| `TrustLedger` | one trust-deposit entry: the guard and the result of each operation of x/td, decimals with the rounding of `LegacyDec` |
| `TrustDeposit` | x/td: entries, module accounts, yield, genesis |
| `LedgerLemmas` | lemmas about sums, quotients and decimals, and what each operator of `TrustLedger` does to an entry |
| `TrustDepositProofs` | theorems about `TrustDeposit` |
| `Stores` | maps with put, remove and look-up (a `collections.Map`), times with "none" |
| `Delegation` | x/de: authorizations, records, spend ledger, fee grants, genesis; implements `Mandates` |
| `Schemas` | the schemas of x/cs and their parameters |
| `SchemaPolicies` | the authorization policies of x/cs; extends `Schemas` |
| `ExchangeRates` | x/xr |
| `Mandates` | abstract: who may act for a corporation, and what an authorization still has to spend |
| `FeeContracts` | abstract: what the onboarding of participants promises about money |
| `ParticipantLifecycle` | x/pp and the messages of x/td; extends `Delegation`, `Schemas` and `TrustLedger`, implements `FeeContracts` |
| `Sessions` | the sessions of x/pp, with the digest they store in x/di; extends `ParticipantLifecycle` |
| `ParticipantProofs` | theorems about `ParticipantLifecycle`, with the refinement, and about `Sessions` |
| `Registry` | x/co, x/ec and x/gf |
| `DelegationProofs`, `RegistryProofs`, `SchemaProofs`, `RateProofs` | theorems about `Delegation`, `Registry`, `SchemaPolicies` and `ExchangeRates` |
| `SchemaLemmas` | the type of the schemas, for `SchemaProofs` and `ParticipantProofs` |
| `MCDelegation`, `MCParticipantLifecycle`, `MCSessions`, `MCRegistry`, `MCSchemaPolicies`, `MCExchangeRates` | symmetry sets and values a `.cfg` cannot write |

`TrustLedger` is pure: `CanSlash(e, amount)` is the guard of a handler and
`Slashed(e, amount, shareValue)` the entry it stores. `TrustDeposit` adds the coins and
quantifies over corporations; `ParticipantLifecycle` uses the same operators inside
the messages of x/pp. `ParticipantLifecycle` composes by extension: a handler that
grants a record takes the action `GrantVSOperatorAuthorization` of `Delegation` as a
conjunct, with its guard, so that a refusal by x/de refuses the message. The messages of
`Schemas`, of x/td and of governance are steps of their own between those of x/pp. `Sessions`
takes `CheckVSOperatorAuthorizationOnParticipant`, which may start a new period of a
record, in the same way. Its actions are those of `ParticipantLifecycle` and one more, as
a session adds to the deposits that revoke, slash and repay take away.

The refinement: `FeeContracts` knows parties, their wealth and open contracts. Opening
one takes the fee from the payer; settling gives it to the payee or back to the payer,
once and in full; besides that wealth only becomes less, by a slash. In
`ParticipantLifecycle` the contracts are the pending requests (payer the candidate, payee
the validator, fee what was paid in) and wealth is an account and its trust deposit
together, less what was reclaimed and is still on the books. It may fall below zero: a slash
that counts reclaimed coins takes those of others. `FeesAreContracts` is `ContractSpec` under
that mapping: start and renew open, validate and cancel settle, and every other message is a
slash or a stutter.

`Mandates` is a table without ids, indexes, sequences and genesis. A (corporation, account)
pair is authorized on some terms, with what it has drawn of them, or it is engaged for
participants, each on a record. `Delegation` implements it (`StoresAreMandates`): the terms of a
pair are the row its index entry names, what is drawn is the ledger of that row's id, and the
record of a participant is in the row its own index names. A restart, which rebuilds the three
indexes and hands out ids again, is a stutter; the row that several participants share, and
that goes with the last of them, is not to be seen. Fee grants are not in the table: they are
the subject of `FeeGrantsBacked` and `FeeGrantsServeParticipants`.

Conventions:

* A decimal is an integer in units of 1/PREC. `DecMul` rounds half to even and
  `DecQuo` likewise, truncation is `\div PREC`. PREC is 10^18 in the code and a
  small constant in runs; the proofs hold for every PREC.
* An absent trust-deposit entry and an entry of zeros answer every call alike;
  `NoEntry` is both.
* A check of `ValidateBasic` is in the action when its outcome matters to the state:
  the message types a role may be granted, the discounts of a root.
* A session pays a corporation in one step what the code pays in several transfers
  (`PaidTo`, `DepositedFor`): the calls for one corporation add up, and no account is read
  in between.
* Times are small naturals and `NoTime` = 0 is "nil". `Tick` moves the block time.
* A corporation is its policy address; resolving it to an id is left out.
* `history` (in x/td and in x/pp) only states what happened, for properties and bounds; in
  x/pp `DepositAccount`, the coins of the account of x/td, is also computed from it.
* Definitions commented *mutant* are used by nothing: they are wrong variants of
  the definition after them, with which a run must fail.
* The clock of x/xr and of x/pp are those of their modules; a price or a schema change is a
  step of governance or of a controller at any time.
* In x/pp the trust deposits are at a share value of one (no yield is distributed
  there) and all messages are signed by their corporation. The messages of x/td are actions
  there as well: governance slashes a trust deposit, its corporation repays, reclaims what is
  claimable, and a restart forgets what was slashed. `TrustDepositRate` is a constant, the price
  of a trust unit is a variable. Ids count from 1; the default genesis of
  x/pp starts its counter at 1, so its first id is 2, which changes nothing here.

## 3. Runs

Deadlock is not checked in any run: the bounds on ids, coins and the clock let a
model stop where the chain goes on. Symmetry sets are used only in runs without
liveness, over values nothing orders (DIDs, contents, accounts).

| run | question | states |
|---|---|---|
| `trust_deposit` | do the coins of x/td balance, does yield stay within its rate and drain its pool, does a slash freeze | 940,000 |
| `delegation` | do the stores of x/de agree, do OA and VSOA exclude each other, are fee grants backed, does a spent limit come back with its period only, are the stores `Mandates` | 189,000 |
| `participants` | do escrow, deposits and records follow participants through every order of messages, do windows stay apart and within their validation, are requests contracts, do fee grants serve participants | 884,000 |
| `sessions` | is every coin of a session accounted for, is the quote enough, are those paid whom the query finds, is anyone paid that is out of force, does one enable a candidate's record | 432,000 |
| `registry` | do indexes, versions and documents of three modules agree across restarts | 226,000 |
| `schemas` | are policies activated in order, do schemas keep their terms | 574,000 |
| `rates` | has every pair one rate, does an expired rate stay expired | 210,000 |

What the properties say is written above each of them in its module. In short:

* `LedgerEquation`: the module account of x/td is, coin for coin, the deposits,
  the locked slashes and the yield, less what reclaims paid.
* `YieldWithinRate`: yield credited plus the dust carried is at most what the
  blocks allowed; a fraction of a coin is never counted twice.
* `UnrepaidSlashFreezes`: an entry slashed and never repaid is not raised by anyone.
* `YieldPoolDrains`: coins sent to the yield pool do not stay there.
* `StoresAgree`, `OneKindOfAuthorization`, `FeeGrantsBacked`: the stores, indexes and
  ledger of x/de lead to each other; an account is not an OA and a VSOA operator of
  a corporation at once; a fee grant has something that asks for it and does not
  outlive it.
* `SpendRoomReturnsWithThePeriod`: the room left of an authorization's limit grows only
  when its period has elapsed since the last reset.
* `StoresAreMandates`: the refinement above; no step for one pair or one participant changes
  anything for another, and a restart changes nothing.
* `EscrowBalanced`, `DepositsAccounted`: the escrow is the fees of pending requests; what a
  corporation has in deposit and may not claim, with what governance slashed of it and
  without what it reclaimed, is that of its participants and what it put in as a validator,
  less what cancels released. The sessions write whole copies of participants: it
  breaks when a copy overwrites a deposit that the same session added.
* `RecordsFollowParticipants`: no record of a VS operator without a participant that
  may have it; a candidate's record stays disabled.
* `FeeGrantsServeParticipants`: a fee grant that is not over pays for the operator of some
  participant that was validated, was not terminated and, if it is an issuer or a verifier, not
  revoked or slashed. The grant is kept in x/de, one for all the participants of an operator.
* `UnrepaidParticipantFrozen`, `OneParticipantAtATime`, `WindowWithinValidation`: as named.
* `FeesAreContracts`: the refinement above; every request is paid out once, at the price of
  the day it was made, to the validator or back.
* `CoinsConserved`: accounts, escrow and deposits together keep what there was at
  genesis, less what slashes burned; a session splits each fee in four.
* `QuoteCoversCharge`: for every session that could be announced, the payments, rounded
  one by one, are at most the quote that the balance was checked for.
* `OutOfForceEarnNothing`: the deposit of a participant that is slashed, or was revoked in
  an earlier block, rises only by what it repays.
* `SessionsOfOneOperator`: the records of a session, whoever added them, are of participants
  that one operator serves for one corporation.
* `PaysWhomTheQueryFinds`: where the issuer's schema has no open role, the handler of
  sessions and the query `FindBeneficiaries` find the same participants, also for an issuer
  and a verifier of different schemas.
* `PoliciesInOrder`: versions of a schema and a role are 1..n in the order of their ids, and the
  active ones come before the others.
* `SchemaTermsKept`: a schema keeps its ecosystem and its modes, and its periods while it is
  archived; a change brings all periods within the maxima of that moment.
* `PairsIndexed`, `ExpiredForGood`: the index and the rates of x/xr lead to each other; a pair
  whose rate has expired has no price ever again.
* `IndexesAgree`, `FrameworksInForce`, `ActivatedDocumentsFrozen`: for x/co, x/ec, x/gf.

Why the bounds are enough: two corporations are a payer and a funder, a candidate
and a validator, the owner of a DID and another that wants it; most properties
relate two. Three participants are the longest chain of roles (root,
grantor, issuer) or two rivals under a root. Two to four block times put
a period, an expiration and a window before, at and after each other. PREC = 2 has
the only rounding case that matters, a half.

* `trust_deposit`: the share value starts at one and moves with yield; two deposits, a
  reclaim and a forgotten slash are within the bounds, so that every disjunct of `Next` is
  taken.
* `delegation`: limits of two and messages that spend one or two; a period is one block
  time, so that a limit is used up, comes back, and comes back in vain. Authorizations end
  at 3, the last block time; records too, or they have no end, as those of candidates.
* `participants` starts from one of two geneses. `Fees`: issuers under a root pay a trust
  unit at a price of two that governance may lower to one, are validated for a day, and
  the root ends at 3. `Chains`: grantors and their issuers pay nothing, and the controller
  changes the periods between one day and for ever. Verifiers join by themselves in both.
  Windows may start now or at 2 and end at 3 or never, with `MaxTime` 2 before the end.
  Governance slashes one coin, a corporation reclaims up to one, and both only while there
  are at most two participants (`MaxWithTdMessages`): that is enough for a cancel that
  releases a deposit, a reclaim that pays it out, a slash and a restart that forgets it to
  meet two requests in any order.
* `sessions` starts from the roots of two schemas: one whose root validates issuers and
  verifiers, and one whose verifiers join by themselves from 2 on. Two other
  corporations, which are symmetric, have two participants between them, issuers or
  verifiers, of one schema or of both. All rates are a half and fees one and two trust
  units, with and without a discount of a half, so that deposits and rewards come out whole
  and rounded. A corporation has 10 coins: a verification costs 5 for each beneficiary at
  the full price, so that the root and an issuer are paid in one session, or the root in
  two with a slash between them. The agent is participant 3 and the wallet agent 3 or 4, so that
  they are one or two and may be the issuer itself. Each session names a digest of two, and
  the second time it is refused. A session has up to two records. Validations last two days:
  the code enables the record of a VS operator only when a validation has an end. Records have
  a period of a day and a fee grant. Here a record ends with its participant's validation, so that
  the only ones a session could start again are the disabled ones of candidates, which it must
  not; that a session starts a period for a participant in service, whose record ended early
  because its end was moved, needs two ends to choose from, is beyond this run's bounds
  and left to the theorems (§5). The check itself, with both its branches, is in `delegation`.
* `registry`: four versions and five documents let one framework have two inactive versions
  beside another's.
* `schemas`: two schemas and three policies: two of one schema and role, and one beside.
* `rates`: a trust unit in coins, a trust unit in itself (which is refused), and two pairs of
  coins whose names collide in one key; durations before, at and after the clock, a
  scale that GetPrice refuses.

### Where the code departs from its own text

Five runs state what a comment of the repository says and find it violated; the
lines are quoted in `PROJECT.json` ("findings").

| run | what happens |
|---|---|
| `trust_deposit_reslash` | slash, full repay, second slash: the cumulative `repaid_deposit` makes the guard pass and the entry is not frozen |
| `participants_deposits` | a cancelled renewal releases its deposit but leaves it in `participant.deposit`, and a revoke releases it again |
| `participants_cancel` | with a validity period of 0, cancelling a renewal terminates a validated participant |
| `participants_sync` | changing a participant's end gives its VS operator's record the old end |
| `registry_dids` | of two ecosystems with one DID, one changes its own; the shared index entry goes and another corporation may take the DID |

Seen while modelling and not turned into runs: a block with less than a coin to
distribute returns before it stores the dust, so that a small deposit earns nothing,
ever (`td/keeper/begin_block.go:80`; the comment at line 124 gives the formula for the
dust of blocks that do distribute); a validation without an end leaves the record of
the VS operator disabled (`pp/keeper/participant_validated.go:202`); a revoke takes the
record of an issuer or a verifier only, so those of grantors, roots and holders stay; a
restart forgets slashed and repaid amounts (`td/module/genesis.go`), which
unfreezes entries and leaves their coins locked (`MaxForgotten` bounds it in the
model); an issuer a root validated extends itself past `op_exp`
(`pp/keeper/msg_server.go:906`); a record with a period that expired restarts by
itself without its fee grant; the overlap check refuses every window with an end that
follows an earlier window in the same context, although they do not meet; after a cancel and a
reclaim the deposit still counts the coins that left the account of x/td, so that a slash or a
release may reach those of others (`td/keeper/msg_server.go:78`); the participants of a
corporation that governance slashed cannot be revoked until it has repaid; a restart that forgets
the slash leaves its deposit too small for its participants' to be released; a revoked participant whose process is VALIDATED stops its
corporation from starting again under that validator; `repaid` is never reset; in a schema
with an open role the handler of sessions pays the first root in force and no one else,
where the query names the whole chains and the issuer (`pp/keeper/csps.go:188` says that
the handler uses the query); `SetExchangeRateState` turns the state whatever the message
says, as its own comment tells, while `proto/verana/xr/v1/tx.proto:129` calls its field
the desired state; an update sets any `rate_scale` and any validity, and with a scale above
18 GetPrice answers with an error; the key of a pair joins names with colons, which
denominations may contain, so that two pairs may share a key and the second cannot be
created; the genesis of x/cs leaves out the policies, and refuses periods longer
than the default maxima although governance may have raised them
(`cs/types/genesis.go:95`); the genesis that x/pp exports does not pass the module's own
`Validate`, as roots and participants that created themselves have no `op_state`
(`pp/types/genesis.go:104`) and the counter it exports as the next id is the last one given
(`pp/types/genesis.go:78`), but `InitGenesis` takes it.

## 4. Fairness

`FairSpec` of `TrustDeposit` adds WF of `DistributeYield`: CometBFT keeps producing
blocks and each runs `BeginBlocker`, so a distribution that stays possible happens.
Nothing else is assumed fair: no corporation has to send a message, and governance
may change the rate at any time. `YieldPoolDrains` therefore allows a rate of zero
and deposits that earn less than a coin.

## 5. Proofs

Every invariant and every action property that a run checks, and both refinements, is a
theorem of the specification, for every value of the constants: any number of
corporations, participants, schemas, rates, versions and sessions, any amounts, prices,
rates, discounts, periods and windows, every PREC and all bounds. The one property of a
passing run that is not is `YieldPoolDrains`, which is liveness.

| theorem | property | module |
|---|---|---|
| `TypeCorrect`, `LedgerHolds`, `YieldHolds`, `SlashFreezes` | `TypeOK`, `LedgerEquation`, `YieldWithinRate`, `UnrepaidSlashFreezes` | `TrustDepositProofs` |
| `StoresKeepTypes`, `StoresStayInAgreement`, `KindsExclude`, `FeeGrantsStayBacked`, `SpendRoomHolds` | `TypeOK`, `StoresAgree`, `OneKindOfAuthorization`, `FeeGrantsBacked`, `SpendRoomReturnsWithThePeriod` | `DelegationProofs` |
| `StoresImplementMandates` | `StoresAreMandates` | `DelegationProofs` |
| `ParticipantsStayTyped`, `EscrowStaysBalanced`, `DepositsStayAccounted` | `ParticipantTypeOK`, `EscrowBalanced`, `DepositsAccounted` | `ParticipantProofs` |
| `WindowsStayApart`, `WindowsStayWithinValidation`, `SlashedStayFrozen` | `OneParticipantAtATime`, `WindowWithinValidation`, `UnrepaidParticipantFrozen` | `ParticipantProofs` |
| `OnboardingKeepsContracts`, `RecordsKeepFollowing`, `FeeGrantsKeepServing` | `FeesAreContracts`, `RecordsFollowParticipants`, `FeeGrantsServeParticipants` | `ParticipantProofs` |
| `SessionsStayTyped`, `QuotesStayHigh`, `CoinsStayConserved`, `SessionsKeepDepositsAccounted` | `SessionTypeOK`, `QuoteCoversCharge`, `CoinsConserved`, `DepositsAccounted` | `ParticipantProofs` |
| `SessionsKeepRecordsFollowing`, `SessionsKeepFeeGrantsServing` | `RecordsFollowParticipants`, `FeeGrantsServeParticipants`, with sessions | `ParticipantProofs` |
| `SessionsStayOfOneOperator`, `HandlerPaysWhomTheQueryFinds`, `OutOfForceStayWithout` | `SessionsOfOneOperator`, `PaysWhomTheQueryFinds`, `OutOfForceEarnNothing` | `ParticipantProofs` |
| `RegistryStaysTyped`, `IndexesKeepAgreeing`, `FrameworksStayInForce`, `ActivatedStayFrozen` | `TypeOK`, `IndexesAgree`, `FrameworksInForce`, `ActivatedDocumentsFrozen` | `RegistryProofs` |
| `SchemasTypeCorrect`, `VersionsStayInOrder`, `TermsStay` | `TypeOK`, `PoliciesInOrder`, `SchemaTermsKept` | `SchemaProofs` |
| `RatesTypeCorrect`, `EveryPairIndexed`, `ExpiredStaysExpired` | `TypeOK`, `PairsIndexed`, `ExpiredForGood` | `RateProofs` |

### Sums

`LedgerLemmas` proves how `Sum` changes with one value (`SumUpdate`, `SumMoves`), that sums of
numbers are numbers, and that they add (`SumPlus`) and scale (`SumScaled`); the induction is over
the index, for one function at a time (`IndexInduction`). A sum over a finite set is one
along a list of its members (`Listing`, `SumAlong`): the list has each of them once, so
one member's part moves the sum by as much (`AlongMoves`), and what each member owns of n
amounts adds up to all of them (`AlongExchange`).

### Trust deposits

The inductive invariant is `Inv == TypeOK /\ LedgerEquation /\ YieldWithinRate`.
`LedgerEquation` alone is not inductive: a step changes one entry, and that the sum
changes by the difference needs the entries to be numbers (`TypeOK`);
`YieldWithinRate` needs the dust to be below one coin so that the remainder is what is
left of the allowance. There is one lemma per action for the type, one for the
entry an operator of `TrustLedger` returns (it is an entry; deposit and slashed
change by the amount), and one for the sums.

### Delegation

Both kinds of authorization are a map by id, an index by (corporation,
operator) and a sequence, so three lemmas are about any such three: a grant takes the id the
index has for the key or one above all ids (`IndexAfterGrant`), a revoke takes row and entry
together (`IndexAfterRevoke`), and the index a restart builds has the keys of the one there
was (`IndexAfterRestart`). The stores' agreement and the exclusion of the two kinds are inductive
together (`Inv`): a grant of one kind looks at the index of the other, which is right only while
indexes and rows agree; and that a VS operator serves one corporation is checked on the rows
and stated of the index. `SpendRoomHolds` follows from `Inv`, which says that what a revoke or
a metered message touches is the row of the index entry it read, and that ledgers hold
naturals. `FeeGrantsBacked` is inductive with `Inv` and the types of the stores (`GrantsInv`): the
grant of a VS operator is recomputed from the longest of its records (`RecomputeBacks`), and it is
the grant of its key only because no operator authorization has that key.

`StoresImplementMandates` maps each action, from `Inv` alone. What a step of `Delegation` does to an
id it does to one pair because keys and ids are one to one while the stores agree: a grant or a
revoke moves the terms and the ledger of one pair, and a metered message the ledger of one. A step
on a record writes the whole row of its operator, so that the records of the other participants in it
stay has to be shown (`EndChanges`, `RevokeRecordIsMandate`). The guards carry over in the other direction: that a
pair is engaged is asked of the index of VS operators, and holds exactly if some participant
has a record of that pair, since no row is empty.

### Participants

`ParticipantProofs` first says what a step may do at all. A message of x/pp writes one
participant, and `Effect(id)` is the conjunction of what it does to it: the types, the
escrow, the deposits, the coins, the window, the contract. Each of the ten messages has one
lemma that proves its `Effect` (`RenewEffect`, ..., `RepayParticipantEffect`); the messages
of x/td, the clock, governance and a restart write none (`Quiet`). `ParticipantStep` says that
every step is one of the two. The theorems then need no handler again:

* `PInv` is the type with `Coherent`: roots and only they have no validator, and only a
  pending request is due something; and a verifier is validator of no one
  (`VerifiersValidateNoOne`), which the sessions need. It is inductive by itself.
* `Books`: escrow and deposits, as sums over the ids. A message of one participant changes the
  sums by what it changes of that participant's parts (`OthersPartsStay`, `SumMoves`).
* `OneParticipantAtATime` and `WindowWithinValidation` are inductive with `PInv`, as each handler
  that sets a window leaves it apart from the others in its context (`RoomKeepsApart`).
* `OnboardingKeepsContracts` maps each step: `OpensContract`, `SettlesContract` and
  `KeepsContract` are the three cases of `Effect`, and `OpenMapped`, `SettleMapped` and `LossMapped`
  show that they are steps of `FeeContracts` or stutters.
* `RecordsKeepFollowing` is about x/pp and x/de together. `RInv` adds to the invariant of
  `DelegationProofs`, which holds here because each message takes an action of `Delegation`, that
  each record belongs to a participant that may have it (`RecordFollows`), and that the row it
  lies in is that of the participant's operator; there is one lemma per message.
* `FeeGrantsKeepServing` joins this with `GrantsInv` of `DelegationProofs`. Every step of
  x/pp is, for x/de, one of its calls (`StepsCall`), and calls keep `GrantsInv` (`CallsKeepGrants`)
  and grant no operator authorization (`CallsKeepOperators`). So each fee grant is backed by a
  record that lasts as long; the record is of a participant that may have it; and
  since it is not over, it is not the disabled record of a candidate.

### Sessions

Sessions are inductive in `SInv`: `PInv`, `Books`, the types of sessions and that their records
are of participants their operator serves (`SessionsServed`). A session writes many
participants, but only raises their deposits (`Raised`).

* `QuotesStayHigh`: rounding each fee's deposit down only loses (`SumOfQuotients`),
  coins are the fees times the price of a trust unit (`SumScaled`), the part of the payer's own
  deposit that is not claimable is at most that deposit, and the sum of the separate
  quotients by PREC is at most the quotient of the sum (`PartsOfQuote`). It is what
  makes the types inductive: the balance of the payer stays a natural.
* `CoinsStayConserved`: `CoinsAddUp` says the same with one sum over the corporations, of what each
  has in its account, in trust deposit and lost to governance. A message of x/pp moves the part of one
  corporation by what it moves of the escrow and of what is burned (`MovesCoins`). A
  session moves those of all payees: what each corporation gets is the sum over
  its participants, and these sums add up to what was charged (`PaymentsAddUp`, with
  `AlongExchange`), each fee's coins and deposit together, however they were rounded.
* `SessionsKeepDepositsAccounted`: the payer's copy is written after that of each beneficiary, so
  the deposits add up only if the payer is not one of them (`PayerIsNoBeneficiary`). A verifier is
  above nobody (`VerifiersValidateNoOne`); an issuer that issues is paid nothing itself, and those
  above it have smaller ids, so the walk never comes back to it. What the walk finds is in each
  set that is closed under validators (`AncestorsWithin`), by induction on its levels.
* `OutOfForceStayWithout`: a participant that is out of force is no beneficiary, executor or
  agent, so nothing is added for it (`OutOfForceGetNothing`).
* `SessionsKeepRecordsFollowing`: the check of x/de gives only the record of the payer another
  period (`CheckedRecords`), and its handler in x/pp asked first that the payer is valid; so the
  record that is lengthened is not a candidate's, which has to stay disabled, and the others, of which
  only deposits rise, follow as before.
* `SessionsKeepFeeGrantsServing`: a check changes no fee grant and shortens no record
  (`CheckKeepsGrants`), so each grant is still backed by a record that lasts as long, and the
  argument of `FeeGrantsKeepServing` applies to `SessionSpec`.

### Registry

`RegistryInv` has a part for each of the three modules. The types of x/gf refer to the rows
of x/co and x/ec, `FrameworksInForce` to the index of versions, and the index is right only
because versions of a framework are 1..n, so all of it is inductive together. An activation finds
the next version through the index, and the handler asked for its document; a restart builds
indexes that lead to rows with their keys (`IndexLeadsToRows`), and to the same row where keys are
unique. `ActivatedStayFrozen` is proved per message: a document is added to a version above the
active one only.

### Schemas and rates

In `SchemaProofs` the type and the order of the versions are inductive together. A new version
is the number of the rows for its schema and role plus one, which is above each of them
because they are 1..n (and n is a number because the ids are below the counter). An
activation takes the oldest pending version: whatever is older is not pending, so it is
active or revoked, and only an active one is revoked. A restart keeps the schemas, as the
last id of 1..n is n (`LastIdOfInterval`), and drops policies and their counter together.

In `RateProofs` the type and the agreement of index and rates are inductive together: a rate is
only created under a free key, so the rates have different keys, so the index a restart
builds is the one there was. That an expired rate stays so needs the same: the pair
has no second rate, and an update refuses a rate that has expired.

### Assumptions

`PrecisionAssumption` and `TrustDepositAssumption`: constants are
naturals and PREC, N, BlocksPerYear and share values are positive. `ParticipantAssumption` and
`SessionAssumption`: there are finitely many corporations; fees, prices and rates are naturals, a
discount is at most the whole fee, the trust deposit rate at most one, prices are positive; and a
genesis has schemas and roots that messages could have made, in particular no two roots of a schema
whose windows overlap, which `CreateRootParticipant` refuses and the genesis of x/pp does not
check. `RequestAssumption`: the records a message may ask for have a period that is a natural, and
message types that x/de allows, or none. `SchemaAssumption` and `PolicyAssumption`, `DelegationAssumption` (limits, periods, spends
and expirations are naturals) and `RateAssumption` (scales are naturals, validities integers, and
there is at least one block time) say what the constants are, and so does
`RegistryAssumption`. TLC evaluates them in each run.

### Only model-checked

`YieldPoolDrains`: liveness under fairness, and with it ENABLED, is out of the prover's reach. The
five properties of the runs that expect a violation are false. What the bounds
(`MaxDeposit`, `MaxCancelled`, ...) exclude is excluded from the theorems too; they hold for every
bound.

## 6. Not modelled

* The message of x/di, whose map is written once; its call from sessions is modelled.
* Fees so large that uint64 wraps around. If only the sum of the fees wraps
  (`pp/keeper/csps.go:229`), the quote is too small, and as the payments take each fee for
  itself, their transfers fail where the quote did not. The product with the discount wraps
  the same way in the quote (`csps.go:226`) and in the payment (`csps.go:326`): quote and
  payment agree on a fee that is too small, and nothing fails. Amounts are
  unbounded here, so neither is checked.
* `Validate` of the genesis of x/pp (`pp/types/genesis.go`). `InitGenesis` and `ExportGenesis`
  are modelled; `InitGenesis` does not call it. It is stricter: it asks for timestamps, for a start
  before the end, for an `op_state` of each participant, and for a next id above all ids.
* A change of the rate of trust deposits between the messages of x/pp: the rate is a constant
  there. It is read when a request is made and when a session is announced, and never
  again, as the price of a trust unit is, which does change.
* The rate and the product of x/xr, the JSON documents, the pricing assets and the digest
  algorithms of x/cs: no handler reads them.
* Digests of validations, the parameters of x/pp, x/de, x/co, x/ec and x/gf: read by no
  condition that a property here depends on.
* Spend limits of VS records, which the code never meters, and of fee grants.
* `share` and its drift: the clamp at zero is modelled, but the code states no bound
  to check it against.
* Application wiring, queries, CLI, generated code: no state of their own.

## 7. Plan

1. Done: trust deposits, delegation, participants over several schemas with the messages of x/td,
   sessions across schemas, the registry, schemas with their policies, exchange rates; the
   escrow as contracts (`FeeContracts`); the authorizations as a table (`Mandates`); proofs of all
   their safety properties and of both refinements.
2. Next: ecosystems of `Schemas` created by `Registry` instead of being there from the start.
3. Proofs: that `ParticipantLifecycle` keeps `LedgerEquation` of `TrustDeposit`, which
   `DepositAccount` takes for granted; the share of an entry, for which the code states no bound
   yet.
