--------------------------- MODULE EnforcerAccount ---------------------------
(***************************************************************************)
(* The enforcer implements the account it promises.  The enforcer clears   *)
(* an expired window when somebody next looks; the account sees what they  *)
(* would find, so it clears it when time passes, and looking is no step.   *)
(***************************************************************************)
EXTENDS Enforcer

SpentNow == [t \in Tenants |-> stateFor(t).spent]

DurableNow ==
    [t \in Tenants |-> [w \in Window |->
        IF store[t] = Absent \/ expired(store[t].start[w], WindowLength[w])
        THEN 0 ELSE store[t].spent[w]]]

ClaimsNow ==
    [i \in 1..Len(issued) |-> [tenant |-> issued[i].tenant, usd |-> issued[i].usd,
                               open |-> i \notin done]]

Account == INSTANCE BudgetAccount WITH
    Windows <- Window,
    Budget  <- [t \in Tenants |-> Limits[t].usd],
    spent   <- SpentNow,
    durable <- DurableNow,
    claims  <- ClaimsNow

\* Every step of the enforcer, the lazy roll of a window, the late or dropped
\* write and the crash between the two included, is a step of the account:
\* nothing is admitted that does not fit, nothing is closed twice, and a crash
\* loses at most what was not yet durable.
ImplementsAccount == Account!Spec
=============================================================================
