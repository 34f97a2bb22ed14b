------------------------------ MODULE MCRouter ------------------------------
(* Small instances of the router. *)
EXTENDS Router

CONSTANTS p1, p2, p3

OneRoute   == {<<p1>>}
\* Two models that share providers, in different orders.
Crossed    == {<<p1, p2, p3>>, <<p2, p1>>}

Priority   == [c \in Routes |-> "priority"]
Mixed      == [c \in Routes |-> IF Head(c) = p1 THEN "round_robin" ELSE "least_latency"]
=============================================================================
