------------------------------ MODULE MCCarPlan ------------------------------
(* Two vehicles, two employees and three days for TLC; in each scenario one
   kind of operation has room to develop. *)
EXTENDS CarPlan

MCRequests == {[who |-> "e1", type |-> "company_car", lo |-> 0, hi |-> 1],
               [who |-> "e2", type |-> "company_car", lo |-> 1, hi |-> Open]}
MCWindows == {[lo |-> 0, hi |-> 1], [lo |-> 1, hi |-> 2]}

MCScenarios == {[requests |-> 1, life |-> 2, fleet |-> 0],
                [requests |-> 2, life |-> 1, fleet |-> 0],
                [requests |-> 1, life |-> 1, fleet |-> 1],
                [requests |-> 1, life |-> 0, fleet |-> 3]}
==============================================================================
