------------------------------ MODULE MCConnect ------------------------------
(* Instances of Connect. *)
EXTENDS Connect

\* Two subscribers in three and one group of two are activated.
ThreeAndTwo == [l \in {"sub", "group"} |-> IF l = "sub" THEN 3 ELSE 2]
SomeActive == [l \in {"sub", "group"} |-> IF l = "sub" THEN <<1, 2>> ELSE <<0>>]
=============================================================================
