---------------------------- MODULE MCSidecarKeeper ----------------------------
EXTENDS SidecarKeeper, TLC

(* Two changes of the id in a row, and deaths and stops around one.        *)
Scenario(changes, deaths, stops) == [changes |-> changes, deaths |-> deaths, stops |-> stops]
MCScenarios == {Scenario(2, 0, 1), Scenario(1, 2, 1)}
=============================================================================
