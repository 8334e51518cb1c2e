---------------------------- MODULE MCSidecarRuns ----------------------------
(* Two sessions, two harness processes with one module each, two           *)
(* connections: enough for a takeover, a shared session and a moved one.   *)
EXTENDS SidecarRuns, TLC

CONSTANTS s1, s2, r1, r2, p1, p2, d1, d2, o1, o2

(* The two connections are interchangeable. *)
MCSymmetry == Permutations({o1, o2})

MCHarness == (r1 :> p1) @@ (r2 :> p2)
MCMayServe == (p1 :> {s1, s2}) @@ (p2 :> {s1})
MCDirOf == (p1 :> d1) @@ (p2 :> d1)
MCStartedAt == (p1 :> 0) @@ (r1 :> 1) @@ (p2 :> 5) @@ (r2 :> 6)
=============================================================================
