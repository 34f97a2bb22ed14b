----------------------------- MODULE MCEnforcer -----------------------------
(* Small instances of the enforcer. *)
EXTENDS EnforcerAccount

CONSTANTS t1, t2

Limit(daily, monthly, requests, tokens, failClosed) ==
    [usd |-> [w \in Window |-> IF w = "daily" THEN daily ELSE monthly],
     requests |-> requests, tokens |-> tokens, failClosed |-> failClosed]

Amt(usd, tokens) == [usd |-> usd, tokens |-> tokens]

\* A month of two days.
MCWindows == [w \in Window |-> IF w = "daily" THEN 1 ELSE 2]

\* A hard cap on both windows, and an advisory one on the month.
OneTenant  == [t \in {t1} |-> Limit(2, 3, 0, 0, TRUE)]
\* One tenant under rate limits and no budget, another under a budget only.
RatedAndCapped == [t \in {t1, t2} |-> IF t = t1 THEN Limit(0, 0, 1, 2, FALSE)
                                                ELSE Limit(1, 2, 0, 0, TRUE)]

OneUnit     == {Amt(1, 1)}
ExactOrMore == {Amt(1, 0), Amt(2, 1)}
\* The second is too much for every tenant.
OneOrTooMuch == {Amt(1, 1), Amt(2, 3)}
=============================================================================
