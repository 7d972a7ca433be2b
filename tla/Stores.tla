------------------------------- MODULE Stores -------------------------------
(***************************************************************************)
(* The maps of cosmossdk.io/collections that the keepers store their state *)
(* in: a map is a function on the keys it has.                             *)
(***************************************************************************)
EXTENDS Integers

EmptyMap == [k \in {} |-> k]

Has(m, k) == k \in DOMAIN m

Put(m, k, v) == [x \in DOMAIN m \cup {k} |-> IF x = k THEN v ELSE m[x]]

Remove(m, k) == [x \in DOMAIN m \ {k} |-> m[x]]

Largest(S) == CHOOSE x \in S : \A y \in S : y <= x

CounterForgotten(m) == 0           \* mutant: the counter starts over

\* What a genesis sets a counter to: the last id that is there.
LastId(m) == IF m = EmptyMap THEN 0 ELSE Largest(DOMAIN m)

(***************************************************************************)
(* Timestamps.  The code's optional timestamps are nil or a time; blocks   *)
(* start at time 1.                                                        *)
(***************************************************************************)
NoTime == 0

\* A nil expiration never comes; at its expiration a grant is over.
NotExpired(expiration, now) == expiration = NoTime \/ expiration > now

\* The records of VS operators have no such leave: a nil expiration is over.
InFuture(expiration, now) == expiration # NoTime /\ expiration > now
=============================================================================
