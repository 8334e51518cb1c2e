------------------------------ MODULE MCRowEffects ------------------------------
(* RowEffects with a few scenarios, each with its own budget.               *)
EXTENDS RowEffects

Budget(b) == [k \in Kinds |-> IF k \in DOMAIN b THEN b[k] ELSE 0]
MCBudgets == {
  Budget([again |-> 1, down |-> 1]),
  Budget([again |-> 1, restart |-> 1]),
  Budget([throw |-> 1, late |-> 1]),
  Budget([late |-> 1, again |-> 1]),
  Budget([tab |-> 2, refresh |-> 1]),
  Budget([tab |-> 1, down |-> 1]),
  Budget([refold |-> 1, again |-> 1]),
  Budget([fail |-> 1, again |-> 1]),
  Budget([rewrite |-> 1, again |-> 1]),
  Budget([move |-> 1, again |-> 1])}
=============================================================================
