------------------------------- MODULE MCLedger -------------------------------
EXTENDS Ledger, TLC
CONSTANTS e1, e2, t1
MCMonthOf == (e1 :> 1) @@ (e2 :> 1)
MCTripOf == (e1 :> t1) @@ (e2 :> None)
MCDeparted == [t \in Trips |-> 1]
==============================================================================
