--------------------------- MODULE ExchangeRates ---------------------------
(***************************************************************************)
(* The exchange rates of x/xr: for a pair of assets, the price of one in   *)
(* the other, for a time.  Governance creates a rate and turns it on and   *)
(* off, any corporation updates it, and GetPrice answers with it while it  *)
(* is on and not expired.                                                  *)
(*                                                                         *)
(* An asset is the sequence of the parts of its name between colons, which *)
(* the denomination of a coin may have: two pairs may have the same key,   *)
(* and then the second finds the rate of the first.  The rate itself is    *)
(* left out, with the product that GetPrice rounds down: its scale, its    *)
(* window and its state decide whether there is a price.  Who may sign an  *)
(* update is decided in Delegation.                                        *)
(***************************************************************************)
EXTENDS Stores, Sequences

CONSTANTS
  Pairs,             \* pairs of assets a message may name
  Scales,            \* powers of ten a message may divide by, 0 for no change
  Validities,        \* durations a message may set
  Maxima,            \* maxima of the durations that governance may set
  DefaultMaximum,    \* the maximum at genesis
  Minute,            \* the least duration of a new rate
  MaxRates,          \* bound on the rates
  MaxTime            \* bound on the clock

MaxScale == 18

AssetTypes == {"TU", "COIN", "FIAT"}

Assets == [type : AssetTypes, name : Seq(STRING)]

ASSUME RateAssumption ==
  /\ \A pair \in Pairs : pair.base \in Assets /\ pair.quote \in Assets
  /\ Scales \subseteq Nat
  /\ Validities \subseteq Int
  /\ Maxima \subseteq Nat \ {0} /\ DefaultMaximum \in Nat \ {0} /\ Minute \in Nat \ {0}
  /\ MaxRates \in Nat /\ MaxTime \in Nat \ {0}

VARIABLES
  rates,             \* ExchangeRates, by id
  rateCounter,       \* Counter "exchange_rate", the last id
  pairIndex,         \* PairIndex: the key of a pair to the id of its rate
  maxValidity,       \* the parameter: the longest duration of a new rate
  now                \* the time of the block

vars == <<rates, rateCounter, pairIndex, maxValidity, now>>

Init ==
  /\ rates = EmptyMap
  /\ rateCounter = 0
  /\ pairIndex = EmptyMap
  /\ maxValidity = DefaultMaximum
  /\ now = 1

-----------------------------------------------------------------------------
\* buildPairKey: "%d:%s:%d:%s", split at its colons.
PairKey(pair) ==
  <<pair.base.type>> \o pair.base.name \o <<pair.quote.type>> \o pair.quote.name

\* By governance.
CreateExchangeRate(pair, scale, validity) ==
  LET id == rateCounter + 1
  IN  /\ pair.base # pair.quote
      /\ scale <= MaxScale
      /\ validity >= Minute /\ validity <= maxValidity
      /\ ~Has(pairIndex, PairKey(pair))
      /\ id <= MaxRates
      /\ rates' = Put(rates, id,
                      [pair |-> pair, scale |-> scale, validity |-> validity,
                       expires |-> now + validity, state |-> TRUE])
      /\ pairIndex' = Put(pairIndex, PairKey(pair), id)
      /\ rateCounter' = id
      /\ UNCHANGED <<maxValidity, now>>

MayUpdateUntilTurnedOff(x) == x.state      \* mutant: its end is not looked at

MayUpdate(x) == x.state /\ x.expires > now

\* By any corporation.  None of the bounds of a new rate is asked of the scale and of
\* the validity, which may be 0 and negative; a validity is optional.
UpdateExchangeRate(id, scale, validity) ==
  /\ MayUpdate(rates[id])
  /\ rates' = [rates EXCEPT ![id].scale = IF scale = 0 THEN @ ELSE scale,
                            ![id].validity = validity,
                            ![id].expires = now + validity]
  /\ UNCHANGED <<rateCounter, pairIndex, maxValidity, now>>

\* By governance: the state turns, whatever state the message names.
SetExchangeRateState(id) ==
  /\ rates' = [rates EXCEPT ![id].state = ~@]
  /\ UNCHANGED <<rateCounter, pairIndex, maxValidity, now>>

\* By governance; the rates that are there keep their durations.
UpdateRateParams(maximum) ==
  /\ maxValidity' = maximum
  /\ UNCHANGED <<rates, rateCounter, pairIndex, now>>

IndexOfActive(ids) ==           \* mutant: a rate that is off is not indexed again
  {id \in ids : rates[id].state}

Indexed(ids) == ids

CounterOfNextId == rateCounter + 1   \* mutant: what NextExchangeRateId is called

\* NextExchangeRateId of the genesis is the last id.
CounterFromGenesis == rateCounter

\* Genesis has the rates, the parameter and the counter; the index is built again.
RestartFromGenesis ==
  LET ids == Indexed(DOMAIN rates)
  IN  /\ pairIndex' =
           [key \in {PairKey(rates[id].pair) : id \in ids} |->
              Largest({id \in ids : PairKey(rates[id].pair) = key})]
      /\ rateCounter' = CounterFromGenesis
      /\ UNCHANGED <<rates, maxValidity, now>>

Tick ==
  /\ now < MaxTime
  /\ now' = now + 1
  /\ UNCHANGED <<rates, rateCounter, pairIndex, maxValidity>>

Next ==
  \/ \E pair \in Pairs, scale \in Scales, validity \in Validities :
       CreateExchangeRate(pair, scale, validity)
  \/ \E id \in DOMAIN rates :
       \/ \E scale \in Scales, validity \in Validities \cup {rates[id].validity} :
            UpdateExchangeRate(id, scale, validity)
       \/ SetExchangeRateState(id)
  \/ \E maximum \in Maxima : UpdateRateParams(maximum)
  \/ RestartFromGenesis
  \/ Tick

Spec == Init /\ [][Next]_vars

-----------------------------------------------------------------------------
(* The query.                                                              *)

\* Whether GetPrice answers for a pair with a rate.
Priced(pair) ==
  /\ Has(pairIndex, PairKey(pair))
  /\ LET x == rates[pairIndex[PairKey(pair)]]
     IN  x.scale <= MaxScale /\ x.state /\ x.expires > now

-----------------------------------------------------------------------------
(* Properties.                                                             *)

ExchangeRateEntries ==
  [pair : Pairs, scale : Nat, validity : Int, expires : Int, state : BOOLEAN]

\* Every store has its type, and the ids are those the counter gave.
TypeOK ==
  /\ rateCounter \in Nat
  /\ rates \in [1 .. rateCounter -> ExchangeRateEntries]
  /\ maxValidity \in Nat \ {0}
  /\ now \in 1 .. MaxTime

(***************************************************************************)
(* The index finds every rate by its pair and finds nothing else, before   *)
(* and after it is built again from a genesis: no pair has two rates, and  *)
(* none is hidden behind another's.                                        *)
(***************************************************************************)
PairsIndexed ==
  /\ DOMAIN pairIndex = {PairKey(rates[id].pair) : id \in DOMAIN rates}
  /\ \A id \in DOMAIN rates : pairIndex[PairKey(rates[id].pair)] = id

(***************************************************************************)
(* A rate that has expired has expired for good: no message brings it back *)
(* and no other rate takes its place, so that its pair has no price ever   *)
(* again.                                                                  *)
(***************************************************************************)
ExpiredForGood ==
  [][\A id \in DOMAIN rates :
       rates[id].expires <= now => ~Priced(rates[id].pair)']_vars
=============================================================================
