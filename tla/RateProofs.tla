----------------------------- MODULE RateProofs -----------------------------
(***************************************************************************)
(* Theorems about the exchange rates of x/xr, for any number of rates and  *)
(* any durations, scales and times.  The inductive invariant is the type   *)
(* with the agreement of the index and the rates: a new rate needs a free  *)
(* key, so no two rates have one, so the index that a restart builds is    *)
(* the one it had.  How a key is made of the names plays no part.          *)
(***************************************************************************)
EXTENDS ExchangeRates, TLAPS

Inv == TypeOK /\ PairsIndexed

-----------------------------------------------------------------------------
(* Initial states and single steps.                                        *)

\* Nothing is stored at first.
LEMMA RatesBegin == Init => Inv
<1> SUFFICES ASSUME Init PROVE Inv
  OBVIOUS
<1>1. TypeOK
  <2>1. rates \in [1 .. rateCounter -> ExchangeRateEntries]
    BY DEF Init, EmptyMap
  <2> QED BY <2>1, RateAssumption DEF Init, TypeOK
<1>2. PairsIndexed
  BY DEF Init, EmptyMap, PairsIndexed
<1> QED BY <1>1, <1>2 DEF Inv

\* The keys of rates are their own: the index leads each back to its rate.
LEMMA KeysDiffer ==
  ASSUME PairsIndexed, NEW p \in DOMAIN rates, NEW q \in DOMAIN rates,
         PairKey(rates[p].pair) = PairKey(rates[q].pair)
  PROVE  p = q
BY DEF PairsIndexed

\* A new rate comes under the next id and under a key that no rate has.
LEMMA CreateKeepsInv ==
  ASSUME Inv, NEW pair \in Pairs, NEW scale \in Scales, NEW validity \in Validities,
         CreateExchangeRate(pair, scale, validity)
  PROVE  Inv'
<1> DEFINE id == rateCounter + 1
           x == [pair |-> pair, scale |-> scale, validity |-> validity,
                 expires |-> now + validity, state |-> TRUE]
<1>1. /\ rates' = Put(rates, id, x)
      /\ pairIndex' = Put(pairIndex, PairKey(pair), id)
      /\ rateCounter' = id
      /\ ~Has(pairIndex, PairKey(pair))
      /\ UNCHANGED <<maxValidity, now>>
  BY DEF CreateExchangeRate
<1>2. x \in ExchangeRateEntries
  BY RateAssumption DEF Inv, TypeOK, ExchangeRateEntries
<1>3. /\ rateCounter \in Nat
      /\ rates \in [1 .. rateCounter -> ExchangeRateEntries]
  BY DEF Inv, TypeOK
<1>x. x.pair = pair
  OBVIOUS
<1> HIDE DEF x
<1>4. 1 .. id = (1 .. rateCounter) \cup {id} /\ id \notin 1 .. rateCounter
  BY <1>3
<1>5. /\ DOMAIN rates' = DOMAIN rates \cup {id}
      /\ id \notin DOMAIN rates
      /\ rates'[id] = x
      /\ \A q \in DOMAIN rates : rates'[q] = rates[q]
  BY <1>1, <1>3, <1>4 DEF Put
<1>6. TypeOK'
  <2>1. rates' \in [1 .. id -> ExchangeRateEntries]
    BY <1>1, <1>2, <1>3, <1>4 DEF Put
  <2>2. id \in Nat
    BY <1>3
  <2> QED BY <1>1, <2>1, <2>2 DEF Inv, TypeOK, ExchangeRateEntries
<1>7. PairsIndexed'
  <2>0. PairsIndexed
    BY DEF Inv
  <2>1. /\ DOMAIN pairIndex' = DOMAIN pairIndex \cup {PairKey(pair)}
        /\ pairIndex'[PairKey(pair)] = id
        /\ \A key \in DOMAIN pairIndex : pairIndex'[key] = pairIndex[key]
    BY <1>1 DEF Put, Has
  <2>2. DOMAIN pairIndex' = {PairKey(rates'[q].pair) : q \in DOMAIN rates'}
    BY <1>5, <1>x, <2>0, <2>1 DEF PairsIndexed
  <2>3. ASSUME NEW q \in DOMAIN rates'
        PROVE  pairIndex'[PairKey(rates'[q].pair)] = q
    BY <1>5, <1>x, <2>0, <2>1 DEF PairsIndexed
  <2> QED BY <2>2, <2>3 DEF PairsIndexed
<1> QED BY <1>6, <1>7 DEF Inv

\* What updates and changes of the state leave as it is: the ids and the pairs.
LEMMA SamePairsKeepIndex ==
  ASSUME PairsIndexed, UNCHANGED pairIndex,
         DOMAIN rates' = DOMAIN rates,
         \A q \in DOMAIN rates : rates'[q].pair = rates[q].pair
  PROVE  PairsIndexed'
BY DEF PairsIndexed

LEMMA UpdateKeepsInv ==
  ASSUME Inv, NEW id \in DOMAIN rates, NEW scale \in Scales,
         NEW validity \in Validities \cup {rates[id].validity},
         UpdateExchangeRate(id, scale, validity)
  PROVE  Inv'
<1>1. /\ rates \in [1 .. rateCounter -> ExchangeRateEntries]
      /\ now \in Int
  BY DEF Inv, TypeOK
<1>2. validity \in Int /\ scale \in Nat
  BY <1>1, RateAssumption DEF ExchangeRateEntries
<1> DEFINE x == [rates[id] EXCEPT !.scale = IF scale = 0 THEN @ ELSE scale,
                                  !.validity = validity,
                                  !.expires = now + validity]
<1>3. rates' = [rates EXCEPT ![id] = x]
  BY <1>1 DEF UpdateExchangeRate
<1>4. x \in ExchangeRateEntries /\ x.pair = rates[id].pair
  <2>1. rates[id] \in ExchangeRateEntries
    BY <1>1
  <2>2. (IF scale = 0 THEN rates[id].scale ELSE scale) \in Nat
    BY <1>2, <2>1 DEF ExchangeRateEntries
  <2>3. now + validity \in Int
    BY <1>1, <1>2
  <2> QED BY <1>2, <2>1, <2>2, <2>3, Zenon DEF ExchangeRateEntries
<1> HIDE DEF x
<1>5. /\ rates' \in [1 .. rateCounter -> ExchangeRateEntries]
      /\ DOMAIN rates' = DOMAIN rates
      /\ \A q \in DOMAIN rates : rates'[q].pair = rates[q].pair
  BY <1>1, <1>3, <1>4
<1>6. UNCHANGED <<rateCounter, pairIndex, maxValidity, now>>
  BY DEF UpdateExchangeRate
<1>7. TypeOK'
  BY <1>5, <1>6 DEF Inv, TypeOK, ExchangeRateEntries
<1>8. PairsIndexed'
  BY <1>5, <1>6, SamePairsKeepIndex DEF Inv
<1> QED BY <1>7, <1>8 DEF Inv

LEMMA SetStateKeepsInv ==
  ASSUME Inv, NEW id \in DOMAIN rates, SetExchangeRateState(id)
  PROVE  Inv'
<1>1. rates \in [1 .. rateCounter -> ExchangeRateEntries]
  BY DEF Inv, TypeOK
<1> DEFINE x == [rates[id] EXCEPT !.state = ~@]
<1>2. rates' = [rates EXCEPT ![id] = x]
  BY <1>1 DEF SetExchangeRateState
<1>3. x \in ExchangeRateEntries /\ x.pair = rates[id].pair
  BY <1>1 DEF ExchangeRateEntries
<1> HIDE DEF x
<1>4. /\ rates' \in [1 .. rateCounter -> ExchangeRateEntries]
      /\ DOMAIN rates' = DOMAIN rates
      /\ \A q \in DOMAIN rates : rates'[q].pair = rates[q].pair
  BY <1>1, <1>2, <1>3
<1>5. UNCHANGED <<rateCounter, pairIndex, maxValidity, now>>
  BY DEF SetExchangeRateState
<1>6. TypeOK'
  BY <1>4, <1>5 DEF Inv, TypeOK, ExchangeRateEntries
<1>7. PairsIndexed'
  BY <1>4, <1>5, SamePairsKeepIndex DEF Inv
<1> QED BY <1>6, <1>7 DEF Inv

\* A restart builds the index it had.
LEMMA RestartKeepsInv ==
  ASSUME Inv, RestartFromGenesis
  PROVE  Inv'
<1> DEFINE built == [key \in {PairKey(rates[id].pair) : id \in DOMAIN rates} |->
                       Largest({id \in DOMAIN rates : PairKey(rates[id].pair) = key})]
<1>1. /\ pairIndex' = built
      /\ UNCHANGED <<rateCounter, rates, maxValidity, now>>
  BY DEF RestartFromGenesis, Indexed, CounterFromGenesis
<1>2. TypeOK'
  BY <1>1 DEF Inv, TypeOK, ExchangeRateEntries
<1>3. PairsIndexed
  BY DEF Inv
<1>4. ASSUME NEW q \in DOMAIN rates
      PROVE  built[PairKey(rates[q].pair)] = q
  <2>1. {id \in DOMAIN rates : PairKey(rates[id].pair) = PairKey(rates[q].pair)} = {q}
    BY <1>3, KeysDiffer
  <2>2. q \in Int
    BY DEF Inv, TypeOK
  <2>3. Largest({q}) = q
    BY <2>2 DEF Largest
  <2> QED BY <2>1, <2>3
<1>5. DOMAIN built = {PairKey(rates[id].pair) : id \in DOMAIN rates}
  OBVIOUS
<1> HIDE DEF built
<1>6. PairsIndexed'
  BY <1>1, <1>4, <1>5 DEF PairsIndexed
<1> QED BY <1>2, <1>6 DEF Inv

LEMMA NextKeepsInv == Inv /\ [Next]_vars => Inv'
<1> SUFFICES ASSUME Inv, [Next]_vars PROVE Inv'
  OBVIOUS
<1>1. CASE \E pair \in Pairs, scale \in Scales, validity \in Validities :
             CreateExchangeRate(pair, scale, validity)
  BY <1>1, CreateKeepsInv
<1>2. CASE \E id \in DOMAIN rates :
             \E scale \in Scales, validity \in Validities \cup {rates[id].validity} :
               UpdateExchangeRate(id, scale, validity)
  BY <1>2, UpdateKeepsInv
<1>3. CASE \E id \in DOMAIN rates : SetExchangeRateState(id)
  BY <1>3, SetStateKeepsInv
<1>4. CASE \E maximum \in Maxima : UpdateRateParams(maximum)
  BY <1>4, RateAssumption
  DEF UpdateRateParams, Inv, TypeOK, ExchangeRateEntries, PairsIndexed
<1>5. CASE RestartFromGenesis
  BY <1>5, RestartKeepsInv
<1>6. CASE Tick
  <2>1. now' \in 1 .. MaxTime
    BY <1>6, RateAssumption DEF Tick, Inv, TypeOK
  <2> QED BY <1>6, <2>1
      DEF Tick, Inv, TypeOK, ExchangeRateEntries, PairsIndexed
<1>7. CASE UNCHANGED vars
  BY <1>7 DEF vars, Inv, TypeOK, ExchangeRateEntries, PairsIndexed
<1> QED BY <1>1, <1>2, <1>3, <1>4, <1>5, <1>6, <1>7 DEF Next

-----------------------------------------------------------------------------
(* Theorems.                                                               *)

LEMMA RatesInvariant == Spec => []Inv
<1> QED BY RatesBegin, NextKeepsInv, PTL DEF Spec

(***************************************************************************)
(* The stores of x/xr have their types and the ids are those the counter   *)
(* gave, whatever updates and restarts come in between.                    *)
(***************************************************************************)
THEOREM RatesTypeCorrect == Spec => []TypeOK
<1>1. Inv => TypeOK
  BY DEF Inv
<1> QED BY <1>1, RatesInvariant, PTL

(***************************************************************************)
(* Every pair has one rate, which the index finds, before and after a      *)
(* restart.                                                                *)
(***************************************************************************)
THEOREM EveryPairIndexed == Spec => []PairsIndexed
<1>1. Inv => PairsIndexed
  BY DEF Inv
<1> QED BY <1>1, RatesInvariant, PTL

\* A step moves no rate to another pair, and no expired rate to another end.
LEMMA StepKeepsExpired ==
  ASSUME Inv, [Next]_vars, NEW id \in DOMAIN rates, rates[id].expires <= now
  PROVE  /\ id \in DOMAIN rates'
         /\ rates'[id].pair = rates[id].pair
         /\ rates'[id].expires <= now'
<1>1. /\ rateCounter \in Nat
      /\ rates \in [1 .. rateCounter -> ExchangeRateEntries]
      /\ now \in Int
  BY DEF Inv, TypeOK
<1>2. rates[id].expires \in Int
  BY <1>1 DEF ExchangeRateEntries
<1>3. CASE \E pair \in Pairs, scale \in Scales, validity \in Validities :
             CreateExchangeRate(pair, scale, validity)
  BY <1>1, <1>2, <1>3 DEF CreateExchangeRate, Put
<1>4. CASE \E q \in DOMAIN rates :
             \E scale \in Scales, validity \in Validities \cup {rates[q].validity} :
               UpdateExchangeRate(q, scale, validity)
  <2> PICK q \in DOMAIN rates :
        \E scale \in Scales, validity \in Validities \cup {rates[q].validity} :
          UpdateExchangeRate(q, scale, validity)
    BY <1>4
  <2>1. q # id
    BY <1>1, <1>2 DEF UpdateExchangeRate, MayUpdate
  <2>2. id \in DOMAIN rates' /\ rates'[id] = rates[id]
    BY <1>1, <2>1 DEF UpdateExchangeRate
  <2> QED BY <2>2 DEF UpdateExchangeRate
<1>5. CASE \E q \in DOMAIN rates : SetExchangeRateState(q)
  <2> PICK q \in DOMAIN rates : SetExchangeRateState(q)
    BY <1>5
  <2>1. /\ rates' = [rates EXCEPT ![q] = [rates[q] EXCEPT !.state = ~rates[q].state]]
        /\ now' = now
    BY DEF SetExchangeRateState
  <2> QED BY <1>1, <2>1 DEF ExchangeRateEntries
<1>6. CASE \/ \E maximum \in Maxima : UpdateRateParams(maximum)
           \/ RestartFromGenesis
           \/ Tick
           \/ UNCHANGED vars
  BY <1>1, <1>2, <1>6 DEF UpdateRateParams, RestartFromGenesis, Tick, vars
<1> QED BY <1>3, <1>4, <1>5, <1>6 DEF Next

(***************************************************************************)
(* A pair whose rate has expired has no price ever again: nothing moves    *)
(* the end of the rate, and nothing takes its place in the index.          *)
(***************************************************************************)
THEOREM ExpiredStaysExpired == Spec => ExpiredForGood
<1>1. ASSUME Inv, Inv', [Next]_vars, NEW id \in DOMAIN rates, rates[id].expires <= now
      PROVE  ~Priced(rates[id].pair)'
  <2>1. /\ id \in DOMAIN rates'
        /\ rates'[id].expires <= now'
    BY <1>1, StepKeepsExpired
  <2>2. pairIndex'[PairKey(rates'[id].pair)] = id
    BY <1>1, <2>1 DEF Inv, PairsIndexed
  <2>3. rates'[id].expires \in Int /\ now' \in Int
    BY <1>1, <2>1 DEF Inv, TypeOK, ExchangeRateEntries
  <2> QED BY <2>1, <2>2, <2>3 DEF Priced
<1>2. Inv /\ Inv' /\ [Next]_vars
        => [\A id \in DOMAIN rates :
              rates[id].expires <= now => ~Priced(rates[id].pair)']_vars
  BY <1>1
<1> QED BY <1>2, RatesInvariant, PTL DEF Spec, ExpiredForGood
=============================================================================
