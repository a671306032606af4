------------------------------ MODULE ClarityMap ------------------------------
(***************************************************************************)
(* Clarity's define-map as a function over the keys that have an entry.    *)
(* A key without an entry (map-get? is none) is outside the domain.        *)
(***************************************************************************)
EXTENDS Naturals, FiniteSets

EmptyMap == [k \in {} |-> k]

MapSet(m, k, v) == [x \in DOMAIN m \cup {k} |-> IF x = k THEN v ELSE m[x]]

MapDelete(m, k) == [x \in DOMAIN m \ {k} |-> m[x]]

\* m has keys from K and values in V.
IsMap(m, K, V) == DOMAIN m \subseteq K /\ m \in [DOMAIN m -> V]

\* The sum of the amounts m holds for the keys K, finitely many: m[k] units for
\* each k, counted.  Counting takes no recursion, so sums can be proved about.
Units(m, K) == UNION {{k} \X (1 .. m[k]) : k \in K}
SumOver(m, K) == Cardinality(Units(m, K))
=============================================================================
