----------------------------- MODULE MCResource -----------------------------
(***************************************************************************)
(* Instances of Resource for TLC.                                          *)
(***************************************************************************)
EXTENDS Resource

\* All map hashes distinct, or two parts with the same one: the first and the
\* last, or the first and the one that ends the first segment.
Distinct == [i \in 1..N |-> i]
Colliding(k) == [Distinct EXCEPT ![k] = 1]
AllMaps == {Distinct, Colliding(N), Colliding(Seg)}
OneMap  == {Distinct}

\* Channel capacities; a transfer has few packets under way in these instances.
SmallCap == [k \in {"adv", "req", "part", "hmu", "prf", "rcl"} |-> 1]
=============================================================================
