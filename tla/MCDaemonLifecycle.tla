--------------------------- MODULE MCDaemonLifecycle ---------------------------
EXTENDS DaemonLifecycle, TLC

CONSTANTS old, new, restart

MCVersion == old :> 1 @@ new :> 2 @@ restart :> 1

(* All three against each other, and two of them against deaths, stops and *)
(* failed starts.                                                          *)
Scenario(run, events) == [run |-> run, events |-> events]
MCScenarios == {Scenario({old, new, restart}, 0), Scenario({old, new}, 2), Scenario({new, restart}, 2)}
=============================================================================
