------------------------------ MODULE LruCache ------------------------------
(***************************************************************************)
(* What the exact tier promises (the Cache interface and the comments of   *)
(* internal/cache/exact.go): a bounded set of answers in order of use.  A  *)
(* lookup finds the last answer put under exactly its own tenant and       *)
(* request, while it is fresh, and an answer that is not fresh is gone     *)
(* once asked for.  A put that finds no room takes the place of the answer *)
(* unused for longest, whoever owns it.                                    *)
(***************************************************************************)
EXTENDS Integers, Sequences

CONSTANTS
    Names,      \* tenant and request
    Answers,
    Capacity,
    Lifetime,   \* ticks an answer is served for
    NoAnswer

VARIABLES
    held,       \* [name, answer, life], the most recently used first
    found       \* what the last lookup returned

vars == <<held, found>>

EntriesOf(n) == {i \in 1..Len(held) : held[i].name = n}

\* held without the entry of name n, in the same order.
Without(n) ==
    IF EntriesOf(n) = {} THEN held
    ELSE LET at == CHOOSE i \in EntriesOf(n) : TRUE
         IN  [i \in 1..(Len(held) - 1) |-> IF i < at THEN held[i] ELSE held[i + 1]]

Get(n) ==
    \/ /\ \E i \in EntriesOf(n) :
             /\ held[i].life > 0
             /\ held' = <<held[i]>> \o Without(n)
             /\ found' = held[i].answer
    \/ /\ \A i \in EntriesOf(n) : held[i].life = 0
       /\ held' = Without(n)
       /\ found' = NoAnswer

Put(n, a) ==
    LET all == <<[name |-> n, answer |-> a, life |-> Lifetime]>> \o Without(n)
    IN  /\ held' = IF Len(all) > Capacity THEN SubSeq(all, 1, Capacity) ELSE all
        /\ UNCHANGED found

Age ==
    /\ held' = [i \in 1..Len(held) |->
                  [held[i] EXCEPT !.life = IF held[i].life > 0 THEN held[i].life - 1 ELSE 0]]
    /\ UNCHANGED found

Init == held = <<>> /\ found = NoAnswer

Next ==
    \/ \E n \in Names : Get(n) \/ \E a \in Answers : Put(n, a)
    \/ Age

Spec == Init /\ [][Next]_vars
=============================================================================
