-------------------------- MODULE MCExchangeRates --------------------------
(* ExchangeRates on a small instance.                                      *)
EXTENDS ExchangeRates

Coin(parts) == [type |-> "COIN", name |-> parts]

Unit == [type |-> "TU", name |-> <<"TU">>]

\* Trust units in coins and in themselves; "usd:COIN:ibc" in "eur", and "usd" in
\* "ibc:COIN:eur".
PairsOfAssets ==
  {[base |-> Unit, quote |-> Coin(<<"uvna">>)],
   [base |-> Unit, quote |-> Unit],
   [base |-> Coin(<<"usd", "COIN", "ibc">>), quote |-> Coin(<<"eur">>)],
   [base |-> Coin(<<"usd">>), quote |-> Coin(<<"ibc", "COIN", "eur">>)]}

\* Longer and shorter than the limits of a new rate.
Durations == {-1, 1, 2, 3}
=============================================================================
