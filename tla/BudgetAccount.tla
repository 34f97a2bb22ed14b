---------------------------- MODULE BudgetAccount ----------------------------
(***************************************************************************)
(* What package budget promises (the Enforcer interface and the overshoot  *)
(* bound in internal/budget/types.go), without clocks, locks or sequence   *)
(* numbers: money is admitted only while it fits every budget together     *)
(* with all that is spent and claimed, a claim is closed once, a window    *)
(* that ends is forgotten, the durable total is a past view of the spent   *)
(* one and only catches up with it, and a crash falls back to it.          *)
(***************************************************************************)
EXTENDS Integers, Sequences, Sums

CONSTANTS
    Tenants,
    Windows,
    Budget      \* Budget[t][w]: a cap on spend, or 0 for none

VARIABLES
    spent,      \* spent[t][w]: settled in the current window
    durable,    \* durable[t][w]: the part of it a crash would not lose
    claims      \* every claim made since the last crash

vars == <<spent, durable, claims>>

ClaimsOf(t) ==
    [i \in 1..Len(claims) |->
        IF claims[i].tenant = t /\ claims[i].open THEN claims[i].usd ELSE 0]

Fits(t, usd) ==
    \A w \in Windows : Budget[t][w] > 0 =>
        spent[t][w] + SumTo(ClaimsOf(t), Len(claims)) + usd <= Budget[t][w]

Init ==
    /\ spent   = [t \in Tenants |-> [w \in Windows |-> 0]]
    /\ durable = [t \in Tenants |-> [w \in Windows |-> 0]]
    /\ claims  = <<>>

Admit ==
    \E t \in Tenants :
        /\ Len(claims') = Len(claims) + 1
        /\ LET usd == claims'[Len(claims')].usd
           IN  /\ Fits(t, usd)
               /\ claims' = Append(claims, [tenant |-> t, usd |-> usd, open |-> TRUE])
        /\ UNCHANGED <<spent, durable>>

Closed(claim) == [tenant |-> claim.tenant, usd |-> claim.usd, open |-> FALSE]

\* Claim i is closed, for a cost or for nothing.
Close(i) ==
    /\ claims[i].open
    /\ claims' = [claims EXCEPT ![i] = Closed(claims[i])]
    /\ LET t == claims[i].tenant
       IN  /\ \A v \in Tenants \ {t} : spent'[v] = spent[v]
           /\ \E w \in Windows : LET usd == spent'[t][w] - spent[t][w]
                IN  usd >= 0 /\ spent'[t] = [x \in Windows |-> spent[t][x] + usd]
    /\ UNCHANGED durable

\* Time passes: some windows end, and what was spent in them is forgotten.
Elapse ==
    /\ \A t \in Tenants, w \in Windows :
          /\ spent'[t][w] \in {0, spent[t][w]}
          /\ durable'[t][w] \in {0, durable[t][w]}
    /\ UNCHANGED claims

\* One tenant's durable total catches up, not necessarily to the end.
Save(t) ==
    /\ \A w \in Windows : durable'[t][w] \in durable[t][w]..spent[t][w]
    /\ \A v \in Tenants \ {t} : durable'[v] = durable[v]
    /\ UNCHANGED <<spent, claims>>

\* The claims are gone and every served tenant is back at its durable total.
Crash(served) ==
    /\ spent' = [t \in Tenants |-> IF t \in served THEN durable[t]
                                   ELSE [w \in Windows |-> 0]]
    /\ claims' = <<>>
    /\ UNCHANGED durable

Next ==
    \/ Admit
    \/ \E i \in 1..Len(claims) : Close(i)
    \/ Elapse
    \/ \E t \in Tenants : Save(t)
    \/ \E served \in SUBSET Tenants : Crash(served)

Spec == Init /\ [][Next]_vars
=============================================================================
