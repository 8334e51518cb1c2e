--------------------------- MODULE MCRequestOverride ---------------------------
EXTENDS RequestOverride, TLC

CONSTANTS model, effort, high

MCPatches == {effort :> high, effort :> Null}
MCOneShots == <<[f \in {model, effort} |-> IF f = effort THEN high ELSE Absent],
                [f \in {model, effort} |-> high]>>

(* One-shots against turns and a change; lost lines, daemons, sidecars and *)
(* modules against changes; the id against each of them.                   *)
Budget(c, sub, t, cl, d, r, st) ==
  [change |-> c, submit |-> sub, turn |-> t, clear |-> cl, death |-> d, reload |-> r, stop |-> st]
MCBudgets == {Budget(0, 2, 2, 0, 0, 0, 0), Budget(1, 1, 1, 0, 0, 0, 0),
              Budget(2, 0, 0, 0, 1, 0, 0), Budget(2, 0, 0, 0, 0, 0, 1),
              Budget(1, 0, 0, 0, 0, 1, 0), Budget(0, 0, 0, 0, 0, 1, 1),
              Budget(1, 0, 0, 1, 1, 0, 0), Budget(0, 1, 0, 1, 0, 0, 0), Budget(0, 0, 0, 1, 0, 0, 1)}
=============================================================================
