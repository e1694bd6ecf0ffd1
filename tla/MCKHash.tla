------------------------------- MODULE MCKHash -------------------------------
(* Instances of KHash for TLC. *)
EXTENDS KHash

CONSTANTS a, b, c, d, f, g

\* All names on one bucket of four and of eight; on one of four but on two of
\* eight; on buckets whose walks meet; each name on its own.
Collisions ==
  {[k \in Keys |-> 3],
   [k \in Keys |-> IF k \in {a, b} THEN 1 ELSE 5],
   [k \in Keys |-> CASE k = a -> 0 [] k = b -> 1 [] k = c -> 7 [] OTHER -> 4],
   [k \in Keys |-> CASE k = a -> 2 [] k = b -> 3 [] k = c -> 5 [] OTHER -> 0]}
==============================================================================
