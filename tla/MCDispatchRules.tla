--------------------------- MODULE MCDispatchRules ---------------------------
(* Tours of up to three trips over three instants, departures and arrivals
   known or not. *)
EXTENDS DispatchRules, TLC

MCPax == (1 :> 2) @@ (2 :> 1) @@ (3 :> 1)
==============================================================================
