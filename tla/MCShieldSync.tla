---------------------------- MODULE MCShieldSync -----------------------------
(* Two employees and two workers for TLC; in each scenario one kind of trouble
   has room to develop. *)
EXTENDS ShieldSync

Quiet == [edits |-> 0, failures |-> 0, slow |-> 0, managed |-> {}, forced |-> {FALSE},
          modes |-> Modes]

MCScenarios == {
    [Quiet EXCEPT !.edits = 3],
    [Quiet EXCEPT !.edits = 1, !.failures = 1, !.managed = {1}],
    [Quiet EXCEPT !.edits = 2, !.managed = {1}],
    [Quiet EXCEPT !.edits = 1, !.forced = BOOLEAN],
    [Quiet EXCEPT !.edits = 1, !.slow = 1, !.modes = {"reconcile"}]}

(* An employee leaves and comes back while an administrator acts. *)
MCReturn == {[Quiet EXCEPT !.edits = 2, !.managed = {1}]}
==============================================================================
