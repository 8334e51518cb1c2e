-------------------------- MODULE SidecarRunsProofs --------------------------
(***************************************************************************)
(* The register of live runs stays consistent, for every set of sessions,   *)
(* runs, processes and connections: its maps agree, no two runs of a        *)
(* session hold one process, what movedOn answers is so, and no round drops  *)
(* a run whose harness it should have found.                                *)
(***************************************************************************)
EXTENDS SidecarRuns, TLAPS

(* The times the poll compares are in order. *)
TimesInOrder ==
  /\ agentsRoundAt <= clock
  /\ round # None => agentsRoundAt <= round.began /\ round.began <= clock

IInv ==
  /\ TypeOK /\ OwnersAgree /\ ServedAgree /\ PidsApart
  /\ ServedWasLaunched /\ TimesInOrder

-----------------------------------------------------------------------------
(* The helpers the steps are built from.                                    *)

(* #pidAmong gives a process of the rows that is not taken, or none. *)
LEMMA PidAmongGives ==
  ASSUME NEW k, NEW agents \in SUBSET Row, NEW taken,
         NEW p \in PidAmong(k, agents, taken)
  PROVE  p = None \/ (p \in Pids /\ p \notin taken)
  BY DEF PidAmong, Candidates, Row

(* #drop keeps what a run id served, and sets no time but its leftAt. *)
LEMMA DropKeepsServed ==
  ASSUME TypeOK, NEW gone, NEW after, NEW r \in RunIds
  PROVE  LET now == ServedAfterDrop(gone, after)[r]
         IN  /\ now \in Served \cup {None}
             /\ now = None <=> served[r] = None
             /\ served[r] # None => now.sids = served[r].sids
             /\ now = served[r] \/ now.leftAt = clock
<1>1. served[r] \in Served \cup {None} /\ clock \in Nat
  BY DEF TypeOK
<1>2. served[r] # None => [served[r] EXCEPT !.leftAt = clock] \in Served
  BY <1>1 DEF Served
<1>3. ServedAfterDrop(gone, after)[r] =
        IF /\ served[r] # None
           /\ \E k \in gone : k[2] = r
           /\ \A s \in Sids : after[<<s, r>>] = None
        THEN [served[r] EXCEPT !.leftAt = clock]
        ELSE served[r]
  BY DEF ServedAfterDrop
<1> QED
  BY <1>1, <1>2, <1>3, NoneAssumption DEF Served

(* #drop leaves served in step with the runs that are left: a run id goes   *)
(* out of use exactly when its last named run does.                         *)
LEMMA DropAgrees ==
  ASSUME TypeOK, ServedAgree, NEW gone \in SUBSET Keys,
         NEW after \in [Keys -> Held \cup {None}],
         \A k \in Keys : after[k] = None <=> runs[k] = None \/ k \in gone
  PROVE  LET now == ServedAfterDrop(gone, after)
         IN  /\ \A k \in Keys : after[k] # None =>
                  /\ now[k[2]] # None
                  /\ k[1] \in now[k[2]].sids
                  /\ now[k[2]].leftAt = None
             /\ \A r \in RunIds :
                  now[r] # None /\ (\A s \in Sids : after[<<s, r>>] = None)
                    => now[r].leftAt # None
<1> DEFINE now == ServedAfterDrop(gone, after)
<1>1. ASSUME NEW k \in Keys, after[k] # None
      PROVE  now[k[2]] # None /\ k[1] \in now[k[2]].sids /\ now[k[2]].leftAt = None
  <2>1. k[1] \in Sids /\ k[2] \in RunIds /\ k = <<k[1], k[2]>>
    BY DEF Keys
  <2>2. now[k[2]] = served[k[2]]
    BY <1>1, <2>1 DEF ServedAfterDrop
  <2> QED
    BY <1>1, <2>2 DEF ServedAgree, NamedKeys, Named
<1>2. ASSUME NEW r \in RunIds, now[r] # None, \A s \in Sids : after[<<s, r>>] = None
      PROVE  now[r].leftAt # None
  <2>1. served[r] # None /\ served[r] \in Served
    BY <1>2, DropKeepsServed DEF TypeOK
  <2>2. CASE \E k \in gone : k[2] = r
    <3>1. now[r] = [served[r] EXCEPT !.leftAt = clock]
      BY <1>2, <2>1, <2>2 DEF ServedAfterDrop
    <3>2. now[r].leftAt = clock
      BY <2>1, <3>1 DEF Served
    <3> QED
      BY <3>2, NoneAssumption DEF TypeOK
  <2>3. CASE ~ \E k \in gone : k[2] = r
    <3>1. now[r] = served[r]
      BY <2>3 DEF ServedAfterDrop
    <3>2. \A s \in Sids : runs[<<s, r>>] = None
      BY <1>2, <2>3 DEF Keys
    <3> QED
      BY <2>1, <3>1, <3>2 DEF ServedAgree
  <2> QED
    BY <2>2, <2>3
<1> QED
  BY <1>1, <1>2

(* leave(owner) takes the run the connection holds and no other. *)
LEMMA LeaveTakes ==
  ASSUME TypeOK, OwnersAgree, NEW o \in Owners
  PROVE  LET left == RunsAfterLeave(o)
         IN  /\ KeyLeft(o) \in SUBSET Keys
             /\ left \in [Keys -> Held \cup {None}]
             /\ \A k \in Keys : left[k] = None <=> runs[k] = None \/ k \in KeyLeft(o)
             /\ \A k \in Keys : left[k] # None => left[k] = runs[k] /\ left[k].owner # o
<1> DEFINE left == RunsAfterLeave(o)
<1>1. KeyLeft(o) \in SUBSET Keys
  BY NoneAssumption DEF TypeOK, KeyLeft
<1>2. \A k \in Keys : left[k] = IF k \in KeyLeft(o) THEN None ELSE runs[k]
  BY DEF RunsAfterLeave
<1>3. left \in [Keys -> Held \cup {None}]
  BY DEF TypeOK, RunsAfterLeave
<1>4. \A k \in Keys : runs[k] # None /\ runs[k].owner = o => k \in KeyLeft(o)
  BY NoneAssumption DEF OwnersAgree, KeyLeft
<1> QED
  BY <1>1, <1>2, <1>3, <1>4

(* reconcile drops the runs of gone and ties the others. *)
LEMMA ReconcileTakes ==
  ASSUME TypeOK, NEW tie \in [Untied -> Pids \cup {None}], NEW gone
  PROVE  LET after == RunsAfterReconcile(tie, gone)
         IN  /\ after \in [Keys -> Held \cup {None}]
             /\ \A k \in Keys : after[k] = None <=> runs[k] = None \/ k \in gone
             /\ \A k \in Keys : after[k] # None =>
                  /\ after[k].owner = runs[k].owner
                  /\ after[k].pid = IF k \in Untied THEN tie[k] ELSE runs[k].pid
<1> DEFINE after == RunsAfterReconcile(tie, gone)
<1> SUFFICES ASSUME NEW k \in Keys
             PROVE  /\ after[k] \in Held \cup {None}
                    /\ after[k] = None <=> runs[k] = None \/ k \in gone
                    /\ after[k] # None =>
                         /\ after[k].owner = runs[k].owner
                         /\ after[k].pid = IF k \in Untied THEN tie[k] ELSE runs[k].pid
  BY DEF RunsAfterReconcile
<1>1. after[k] = IF k \in gone THEN None
                 ELSE IF k \in Untied THEN [runs[k] EXCEPT !.pid = tie[k]]
                 ELSE runs[k]
  BY DEF RunsAfterReconcile
<1>2. runs[k] \in Held \cup {None}
  BY DEF TypeOK
<1>3. CASE k \in Untied
  <2>1. runs[k] \in Held
    BY <1>2, <1>3 DEF Untied, NamedKeys, Named
  <2>2. [runs[k] EXCEPT !.pid = tie[k]] \in Held
    BY <1>3, <2>1 DEF Held
  <2> QED
    BY <1>1, <1>3, <2>1, <2>2, NoneAssumption DEF Held
<1>4. CASE k \notin Untied
  BY <1>1, <1>2, <1>4
<1> QED
  BY <1>3, <1>4

-----------------------------------------------------------------------------
LEMMA InitIInv == Init => IInv
<1> SUFFICES ASSUME Init PROVE IInv
  OBVIOUS
<1> USE NoneAssumption DEF Init
<1>1. TypeOK
  BY DEF TypeOK
<1>2. OwnersAgree /\ ServedAgree /\ PidsApart
  BY DEF OwnersAgree, ServedAgree, PidsApart, NamedKeys, Named, Keys
<1>3. ServedWasLaunched /\ TimesInOrder
  BY DEF ServedWasLaunched, TimesInOrder
<1> QED
  BY <1>1, <1>2, <1>3 DEF IInv

(* A step that leaves the register and the poll alone. *)
LEMMA WorldStep ==
  ASSUME IInv, UNCHANGED <<daemonVars, agentsRoundAt>>, TypeOK', TimesInOrder',
         launched \subseteq launched'
  PROVE  IInv'
<1>1. UNCHANGED <<runs, byOwner, served>>
  BY DEF daemonVars
<1>2. OwnersAgree' /\ PidsApart'
  BY <1>1 DEF IInv, OwnersAgree, PidsApart, NamedKeys, Named
<1>3. ServedAgree'
  BY <1>1 DEF IInv, ServedAgree, NamedKeys, Named
<1>4. ServedWasLaunched'
  BY <1>1 DEF IInv, ServedWasLaunched
<1> QED
  BY <1>2, <1>3, <1>4 DEF IInv

LEMMA AnnounceKeeps ==
  ASSUME IInv, NEW o \in Owners, NEW k \in Keys, Announce(o, k)
  PROVE  IInv'
<1> DEFINE left == RunsAfterLeave(o)
           before == ServedAfterLeave(o)
<1>i. TypeOK /\ OwnersAgree /\ ServedAgree /\ PidsApart /\ ServedWasLaunched /\ TimesInOrder
  BY DEF IInv
<1>k. k[1] \in Sids /\ k[2] \in RunIds
  BY DEF Keys
<1>l. /\ KeyLeft(o) \in SUBSET Keys
      /\ left \in [Keys -> Held \cup {None}]
      /\ \A l \in Keys : left[l] = None <=> runs[l] = None \/ l \in KeyLeft(o)
      /\ \A l \in Keys : left[l] # None => left[l] = runs[l] /\ left[l].owner # o
  BY <1>i, LeaveTakes
<1>p. PICK pid \in PidAmong(k, rows, TakenAtAnnounce(k, left)) :
        runs' = [left EXCEPT ![k] = [owner |-> o, pid |-> pid, namedAt |-> clock]]
  BY DEF Announce
<1>q. pid = None \/ (pid \in Pids /\ pid \notin TakenAtAnnounce(k, left))
  BY <1>i, PidAmongGives DEF TypeOK
<1>r. /\ runs'[k] = [owner |-> o, pid |-> pid, namedAt |-> clock]
      /\ runs'[k] \in Held
      /\ \A l \in Keys \ {k} : runs'[l] = left[l]
  BY <1>i, <1>l, <1>p, <1>q DEF TypeOK, Held
<1>b. \A r \in RunIds : /\ before[r] \in Served \cup {None}
                        /\ before[r] = None <=> served[r] = None
                        /\ served[r] # None => before[r].sids = served[r].sids
  BY <1>i, DropKeepsServed DEF ServedAfterLeave
<1>s. /\ served'[k[2]] = [sids |-> (IF before[k[2]] = None THEN {} ELSE before[k[2]].sids)
                                     \cup {k[1]},
                          leftAt |-> None]
      /\ served'[k[2]] \in Served
      /\ \A r \in RunIds \ {k[2]} : served'[r] = before[r]
      /\ served' \in [RunIds -> Served \cup {None}]
  <2>1. before \in [RunIds -> Served \cup {None}]
    BY <1>b DEF ServedAfterLeave, ServedAfterDrop
  <2>2. (IF before[k[2]] = None THEN {} ELSE before[k[2]].sids) \cup {k[1]}
          \in (SUBSET Sids) \ {{}}
    BY <1>k, <2>1 DEF Served
  <2>3. [sids |-> (IF before[k[2]] = None THEN {} ELSE before[k[2]].sids) \cup {k[1]},
         leftAt |-> None] \in Served
    BY <2>2 DEF Served
  <2>4. served' = [before EXCEPT ![k[2]] =
          [sids |-> (IF before[k[2]] = None THEN {} ELSE before[k[2]].sids) \cup {k[1]},
           leftAt |-> None]]
    BY <1>k, <2>1 DEF Announce, ServedNamed
  <2> QED
    BY <1>k, <2>1, <2>3, <2>4
<1>n. \A r \in RunIds \ {k[2]} : served'[r] # None =>
        served[r] # None /\ served'[r].sids = served[r].sids
  BY <1>b, <1>s
<1>o. /\ byOwner' \in [Owners -> Keys \cup {None}]
      /\ byOwner'[o] = k
      /\ \A x \in Owners \ {o} :
           byOwner'[x] = IF left[k] # None /\ left[k].owner = x THEN None ELSE byOwner[x]
  BY <1>i DEF Announce, OwnersAfterAnnounce, TypeOK
<1>1. TypeOK'
  <2>1. runs' \in [Keys -> Held \cup {None}]
    BY <1>l, <1>p, <1>r
  <2>2. steady' \in SUBSET Keys
    BY <1>i DEF TypeOK, Announce
  <2> QED
    BY <1>i, <1>o, <1>s, <2>1, <2>2 DEF TypeOK, Announce, pollVars, worldVars
<1>2. OwnersAgree'
  <2>1. ASSUME NEW l \in Keys, runs'[l] # None PROVE byOwner'[runs'[l].owner] = l
    <3>1. CASE l = k
      BY <1>o, <1>r, <3>1
    <3>2. CASE l # k
      <4>1. left[l] # None /\ runs'[l] = runs[l] /\ runs[l].owner # o
        BY <1>l, <1>r, <2>1, <3>2
      <4>2. byOwner[runs[l].owner] = l /\ runs[l].owner \in Owners
        BY <1>i, <1>l, <4>1 DEF OwnersAgree, TypeOK, Held
      <4>3. left[k] # None => left[k].owner # runs[l].owner
        BY <1>i, <1>l, <3>2, <4>2 DEF OwnersAgree
      <4> QED
        BY <1>o, <4>1, <4>2, <4>3
    <3> QED
      BY <3>1, <3>2
  <2>2. ASSUME NEW x \in Owners, byOwner'[x] # None
        PROVE  runs'[byOwner'[x]] # None /\ runs'[byOwner'[x]].owner = x
    <3>1. CASE x = o
      BY <1>o, <1>r, <3>1, NoneAssumption
    <3>2. CASE x # o
      <4>1. byOwner'[x] = byOwner[x] /\ ~(left[k] # None /\ left[k].owner = x)
        BY <1>o, <2>2, <3>2
      <4>2. /\ byOwner[x] \in Keys
            /\ runs[byOwner[x]] # None /\ runs[byOwner[x]].owner = x
        BY <1>i, <2>2, <4>1 DEF OwnersAgree, TypeOK
      <4>3. byOwner[x] \notin KeyLeft(o)
        BY <3>2, <4>2 DEF KeyLeft
      <4>4. left[byOwner[x]] = runs[byOwner[x]]
        BY <1>l, <4>2, <4>3
      <4>5. byOwner[x] # k
        BY <4>1, <4>2, <4>4
      <4> QED
        BY <1>r, <4>1, <4>2, <4>4, <4>5
    <3> QED
      BY <3>1, <3>2
  <2> QED
    BY <2>1, <2>2 DEF OwnersAgree
<1>3. ServedAgree'
  <2>1. /\ \A l \in Keys : left[l] # None =>
             /\ before[l[2]] # None
             /\ l[1] \in before[l[2]].sids
             /\ before[l[2]].leftAt = None
        /\ \A r \in RunIds : before[r] # None /\ (\A s \in Sids : left[<<s, r>>] = None)
                               => before[r].leftAt # None
    BY <1>i, <1>l, DropAgrees DEF ServedAfterLeave
  <2>2. ASSUME NEW l \in Keys, runs'[l] # None
        PROVE  /\ served'[l[2]] # None
               /\ l[1] \in served'[l[2]].sids
               /\ served'[l[2]].leftAt = None
    <3>0. l[2] \in RunIds /\ served'[k[2]] # None
      BY <1>s, NoneAssumption DEF Keys
    <3>1. CASE l = k
      BY <1>s, <3>0, <3>1
    <3>2. CASE l # k /\ l[2] = k[2]
      BY <1>r, <1>s, <2>1, <2>2, <3>0, <3>2
    <3>3. CASE l[2] # k[2]
      BY <1>r, <1>s, <2>1, <2>2, <3>0, <3>3
    <3> QED
      BY <3>1, <3>2, <3>3
  <2>3. ASSUME NEW r \in RunIds, served'[r] # None, \A s \in Sids : runs'[<<s, r>>] = None
        PROVE  served'[r].leftAt # None
    <3>1. r # k[2]
      BY <1>k, <1>r, <2>3, NoneAssumption DEF Keys
    <3>2. \A s \in Sids : left[<<s, r>>] = None
      BY <1>r, <2>3, <3>1 DEF Keys
    <3> QED
      BY <1>s, <2>1, <2>3, <3>1, <3>2
  <2> QED
    BY <2>2, <2>3 DEF ServedAgree, NamedKeys, Named
<1>4. PidsApart'
  <2>1. ASSUME NEW l \in Keys, runs'[l] # None, l # k, l[1] = k[1], runs'[l].pid = pid
        PROVE  pid = None
    <3>1. left[l] # None /\ runs'[l] = left[l] /\ l[2] # k[2]
      BY <1>r, <2>1 DEF Keys
    <3>2. pid \in TakenAtAnnounce(k, left)
      BY <2>1, <3>1 DEF TakenAtAnnounce
    <3> QED
      BY <1>q, <3>2
  <2>2. ASSUME NEW l \in Keys, NEW m \in Keys, runs'[l] # None, runs'[m] # None,
               l # m, l[1] = m[1], runs'[l].pid = runs'[m].pid
        PROVE  runs'[l].pid = None
    <3>1. CASE l = k
      BY <1>r, <2>1, <2>2, <3>1
    <3>2. CASE m = k
      BY <1>r, <2>1, <2>2, <3>2
    <3>3. CASE l # k /\ m # k
      BY <1>i, <1>l, <1>r, <2>2, <3>3 DEF PidsApart, NamedKeys, Named
    <3> QED
      BY <3>1, <3>2, <3>3
  <2> QED
    BY <2>2 DEF PidsApart, NamedKeys, Named
<1>5. ServedWasLaunched'
  <2>1. launched' = launched /\ k \in launched /\ k = <<k[1], k[2]>>
    BY DEF Announce, worldVars, Keys
  <2>2. \A s \in served'[k[2]].sids : <<s, k[2]>> \in launched
    BY <1>i, <1>b, <1>k, <1>s, <2>1 DEF ServedWasLaunched
  <2> QED
    BY <1>i, <1>n, <2>1, <2>2 DEF ServedWasLaunched
<1>6. TimesInOrder'
  BY <1>i DEF TimesInOrder, Announce, pollVars
<1> QED
  BY <1>1, <1>2, <1>3, <1>4, <1>5, <1>6 DEF IInv

LEMMA LeaveKeeps ==
  ASSUME IInv, NEW o \in Owners, Leave(o)
  PROVE  IInv'
<1> DEFINE left == RunsAfterLeave(o)
           before == ServedAfterLeave(o)
<1>i. TypeOK /\ OwnersAgree /\ ServedAgree /\ PidsApart /\ ServedWasLaunched /\ TimesInOrder
  BY DEF IInv
<1>l. /\ KeyLeft(o) \in SUBSET Keys
      /\ left \in [Keys -> Held \cup {None}]
      /\ \A l \in Keys : left[l] = None <=> runs[l] = None \/ l \in KeyLeft(o)
      /\ \A l \in Keys : left[l] # None => left[l] = runs[l] /\ left[l].owner # o
  BY <1>i, LeaveTakes
<1>b. \A r \in RunIds : /\ before[r] \in Served \cup {None}
                        /\ before[r] = None <=> served[r] = None
                        /\ served[r] # None => before[r].sids = served[r].sids
  BY <1>i, DropKeepsServed DEF ServedAfterLeave
<1>s. /\ runs' = left /\ served' = before /\ launched' = launched
      /\ byOwner' = [byOwner EXCEPT ![o] = None]
  BY DEF Leave, worldVars
<1>1. TypeOK'
  <2>1. served' \in [RunIds -> Served \cup {None}]
    BY <1>b, <1>s DEF ServedAfterLeave, ServedAfterDrop
  <2> QED
    BY <1>i, <1>l, <1>s, <2>1 DEF TypeOK, Leave, pollVars, worldVars
<1>2. OwnersAgree'
  <2>1. ASSUME NEW l \in Keys, runs'[l] # None PROVE byOwner'[runs'[l].owner] = l
    <3>1. runs'[l] = runs[l] /\ runs[l] \in Held /\ runs[l].owner # o
      BY <1>i, <1>l, <1>s, <2>1 DEF TypeOK
    <3> QED
      BY <1>i, <1>l, <1>s, <2>1, <3>1 DEF OwnersAgree, TypeOK, Held
  <2>2. ASSUME NEW x \in Owners, byOwner'[x] # None
        PROVE  runs'[byOwner'[x]] # None /\ runs'[byOwner'[x]].owner = x
    <3>1. x # o /\ byOwner'[x] = byOwner[x] /\ byOwner[x] \in Keys
      BY <1>i, <1>s, <2>2 DEF TypeOK
    <3>2. runs[byOwner[x]] # None /\ runs[byOwner[x]].owner = x
      BY <1>i, <2>2, <3>1 DEF OwnersAgree
    <3>3. byOwner[x] \notin KeyLeft(o)
      BY <3>1, <3>2 DEF KeyLeft
    <3> QED
      BY <1>l, <1>s, <3>1, <3>2, <3>3
  <2> QED
    BY <2>1, <2>2 DEF OwnersAgree
<1>3. ServedAgree'
  BY <1>i, <1>l, <1>s, DropAgrees DEF ServedAfterLeave, ServedAgree, NamedKeys, Named
<1>4. PidsApart'
  BY <1>i, <1>l, <1>s DEF PidsApart, NamedKeys, Named
<1>5. ServedWasLaunched'
  BY <1>i, <1>b, <1>s DEF ServedWasLaunched
<1>6. TimesInOrder'
  BY <1>i DEF TimesInOrder, Leave, pollVars
<1> QED
  BY <1>1, <1>2, <1>3, <1>4, <1>5, <1>6 DEF IInv

(* The loop of reconcile, whatever order it visits the runs in: a run that  *)
(* it ties takes a process that no other run of its session holds.          *)
LEMMA RoundTiesApart ==
  ASSUME IInv,
         NEW order \in [NamedKeys -> 1..Cardinality(NamedKeys)],
         NEW tie \in [Untied -> Pids \cup {None}],
         \A k, l \in NamedKeys : k # l => order[k] # order[l],
         \A k \in Untied : tie[k] \in PidAmong(k, round.agents, TakenAt(k, order, tie)),
         round.agents \in SUBSET Row,
         NEW gone, gone = Dropped(tie, agentsRoundAt),
         NEW k \in NamedKeys \ gone, NEW l \in NamedKeys \ gone, k # l, k[1] = l[1]
  PROVE  LET pid(x) == IF x \in Untied THEN tie[x] ELSE runs[x].pid
         IN  pid(k) = pid(l) => pid(k) = None
<1> DEFINE pid(x) == IF x \in Untied THEN tie[x] ELSE runs[x].pid
<1>k. /\ k \in Keys /\ l \in Keys /\ k[2] # l[2]
      /\ k \in Rivals(l) /\ l \in Rivals(k)
  BY DEF NamedKeys, Keys, Rivals
<1>1. ASSUME NEW x \in Untied, NEW y \in Rivals(x), y \notin gone,
             ~ Tied(y) => order[y] < order[x], pid(x) = pid(y)
      PROVE  pid(x) = None
  <2>0. y \in NamedKeys
    BY DEF Rivals
  <2>1. CASE Tied(y)
    <3>1. ~ HarnessGone(y)
      BY <1>1, <2>0 DEF Dropped
    <3>2. runs[y].pid \in TakenAt(x, order, tie)
      BY <2>1, <3>1 DEF TakenAt
    <3> QED
      BY <1>1, <2>1, <3>2, PidAmongGives DEF Untied
  <2>2. CASE ~ Tied(y)
    <3>1. y \in Untied
      BY <2>0, <2>2 DEF Untied
    <3>2. tie[y] \in TakenAt(x, order, tie)
      BY <1>1, <2>2 DEF TakenAt
    <3> QED
      BY <1>1, <3>1, <3>2, PidAmongGives
  <2> QED
    BY <2>1, <2>2
<1>2. CASE Tied(k) /\ Tied(l)
  BY <1>2 DEF IInv, PidsApart, Untied
<1>3. CASE ~Tied(k) /\ Tied(l)
  BY <1>1, <1>3, <1>k DEF Untied
<1>4. CASE Tied(k) /\ ~Tied(l)
  BY <1>1, <1>4, <1>k DEF Untied
<1>5. CASE ~Tied(k) /\ ~Tied(l)
  <2>1. order[k] \in Int /\ order[l] \in Int /\ order[k] # order[l]
    OBVIOUS
  <2>2. CASE order[k] < order[l]
    BY <1>1, <1>5, <1>k, <2>2 DEF Untied
  <2>3. CASE order[l] < order[k]
    BY <1>1, <1>5, <1>k, <2>3 DEF Untied
  <2> QED
    BY <2>1, <2>2, <2>3
<1> QED
  BY <1>2, <1>3, <1>4, <1>5

LEMMA RoundEndKeeps ==
  ASSUME IInv, RoundEnd
  PROVE  IInv'
<1>i. TypeOK /\ OwnersAgree /\ ServedAgree /\ PidsApart /\ ServedWasLaunched /\ TimesInOrder
  BY DEF IInv
<1>p. PICK order \in [NamedKeys -> 1..Cardinality(NamedKeys)],
           tie \in [Untied -> Pids \cup {None}] :
        /\ \A k, l \in NamedKeys : k # l => order[k] # order[l]
        /\ \A k \in Untied : tie[k] \in PidAmong(k, round.agents, TakenAt(k, order, tie))
        /\ LET gone == Dropped(tie, BegunAfter)
           IN  /\ runs' = RunsAfterReconcile(tie, gone)
               /\ byOwner' = [o \in Owners |-> IF byOwner[o] \in gone THEN None
                                               ELSE byOwner[o]]
               /\ served' = ServedAfterReconcile(
                              ServedAfterDrop(gone, RunsAfterReconcile(tie, gone)),
                              BegunAfter)
  BY DEF RoundEnd
<1> DEFINE gone == Dropped(tie, agentsRoundAt)
           after == RunsAfterReconcile(tie, gone)
           before == ServedAfterDrop(gone, after)
<1>a. round \in Round
  BY <1>i DEF RoundEnd, TypeOK
<1>g. gone \in SUBSET Keys
  BY DEF Dropped, NamedKeys
<1>l. /\ after \in [Keys -> Held \cup {None}]
      /\ \A k \in Keys : after[k] = None <=> runs[k] = None \/ k \in gone
      /\ \A k \in Keys : after[k] # None =>
           /\ after[k].owner = runs[k].owner
           /\ after[k].pid = IF k \in Untied THEN tie[k] ELSE runs[k].pid
  BY <1>i, ReconcileTakes
<1>b. \A r \in RunIds : /\ before[r] \in Served \cup {None}
                        /\ before[r] = None <=> served[r] = None
                        /\ served[r] # None => before[r].sids = served[r].sids
  BY <1>i, DropKeepsServed
<1>s. /\ runs' = after
      /\ byOwner' = [o \in Owners |-> IF byOwner[o] \in gone THEN None ELSE byOwner[o]]
      /\ served' = ServedAfterReconcile(before, agentsRoundAt)
  BY <1>p DEF BegunAfter
<1>r. /\ \A r \in RunIds : served'[r] \in {before[r], None}
      /\ \A r \in RunIds : before[r] # None /\ before[r].leftAt = None
                              => served'[r] = before[r]
      /\ served' \in [RunIds -> Served \cup {None}]
  BY <1>b, <1>s DEF ServedAfterReconcile
<1>1. TypeOK'
  <2>1. byOwner' \in [Owners -> Keys \cup {None}]
    BY <1>i, <1>s DEF TypeOK
  <2> QED
    BY <1>i, <1>l, <1>r, <1>s, <2>1 DEF TypeOK, RoundEnd, worldVars
<1>2. OwnersAgree'
  <2>1. ASSUME NEW k \in Keys, runs'[k] # None PROVE byOwner'[runs'[k].owner] = k
    <3>1. runs[k] # None /\ k \notin gone /\ runs'[k].owner = runs[k].owner
      BY <1>l, <1>s, <2>1
    <3>2. runs[k].owner \in Owners /\ byOwner[runs[k].owner] = k
      BY <1>i, <3>1 DEF TypeOK, OwnersAgree, Held
    <3> QED
      BY <1>s, <3>1, <3>2
  <2>2. ASSUME NEW x \in Owners, byOwner'[x] # None
        PROVE  runs'[byOwner'[x]] # None /\ runs'[byOwner'[x]].owner = x
    <3>1. byOwner'[x] = byOwner[x] /\ byOwner[x] \notin gone /\ byOwner[x] \in Keys
      BY <1>i, <1>s, <2>2 DEF TypeOK
    <3>2. runs[byOwner[x]] # None /\ runs[byOwner[x]].owner = x
      BY <1>i, <2>2, <3>1 DEF OwnersAgree
    <3> QED
      BY <1>l, <1>s, <3>1, <3>2
  <2> QED
    BY <2>1, <2>2 DEF OwnersAgree
<1>3. ServedAgree'
  <2>1. /\ \A k \in Keys : after[k] # None =>
             /\ before[k[2]] # None
             /\ k[1] \in before[k[2]].sids
             /\ before[k[2]].leftAt = None
        /\ \A r \in RunIds : before[r] # None /\ (\A s \in Sids : after[<<s, r>>] = None)
                               => before[r].leftAt # None
    BY <1>i, <1>g, <1>l, DropAgrees
  <2>2. ASSUME NEW k \in Keys, after[k] # None PROVE served'[k[2]] = before[k[2]]
    BY <1>r, <2>1, <2>2 DEF Keys
  <2>3. ASSUME NEW r \in RunIds, served'[r] # None PROVE served'[r] = before[r]
    BY <1>r, <2>3
  <2> QED
    BY <1>s, <2>1, <2>2, <2>3 DEF ServedAgree, NamedKeys, Named
<1>4. PidsApart'
  <2>1. ASSUME NEW k \in Keys, NEW l \in Keys, after[k] # None, after[l] # None,
               k # l, k[1] = l[1], after[k].pid = after[l].pid
        PROVE  after[k].pid = None
    <3>1. k \in NamedKeys \ gone /\ l \in NamedKeys \ gone
      BY <1>l, <2>1 DEF NamedKeys, Named
    <3>2. round.agents \in SUBSET Row
      BY <1>a DEF Round
    <3>3. LET pid(x) == IF x \in Untied THEN tie[x] ELSE runs[x].pid
          IN  pid(k) = pid(l) => pid(k) = None
      BY <1>p, <2>1, <3>1, <3>2, RoundTiesApart
    <3> QED
      BY <1>l, <2>1, <3>3
  <2> QED
    BY <1>s, <2>1 DEF PidsApart, NamedKeys, Named
<1>5. ServedWasLaunched'
  BY <1>i, <1>b, <1>r DEF ServedWasLaunched, RoundEnd, worldVars
<1>6. TimesInOrder'
  BY <1>i DEF TimesInOrder, TypeOK, RoundEnd
<1> QED
  BY <1>1, <1>2, <1>3, <1>4, <1>5, <1>6 DEF IInv

LEMMA StepIInv == IInv /\ [Next]_vars => IInv'
<1> SUFFICES ASSUME IInv, [Next]_vars PROVE IInv'
  OBVIOUS
<1>i. TypeOK /\ TimesInOrder
  BY DEF IInv
<1>1. ASSUME NEW o \in Owners, NEW k \in Keys, Announce(o, k) PROVE IInv'
  BY <1>1, AnnounceKeeps
<1>2. ASSUME NEW o \in Owners, Leave(o) PROVE IInv'
  BY <1>2, LeaveKeeps
<1>3. CASE RoundRead
  <2>1. PICK answered \in SUBSET Dirs :
          round' = [began |-> clock, answered |-> answered, cached |-> FALSE,
                    agents |-> {a \in Row : /\ a.pid \notin dead
                                            /\ file[a.pid] = a.sid
                                            /\ DirOf[a.pid] \in answered}]
    BY <1>3 DEF RoundRead
  <2>2. round' \in Round
    BY <1>i, <2>1 DEF TypeOK, Round
  <2>3. TypeOK'
    BY <1>i, <1>3, <2>2 DEF TypeOK, RoundRead, daemonVars, worldVars
  <2>4. TimesInOrder'
    BY <1>i, <1>3, <2>1 DEF TypeOK, TimesInOrder, RoundRead
  <2> QED
    BY <1>3, <2>3, <2>4, WorldStep DEF RoundRead, worldVars
<1>4. CASE RoundEnd
  BY <1>4, RoundEndKeeps
<1>5. ASSUME NEW p \in Pids, NEW s \in Sids, Serve(p, s) PROVE IInv'
  <2>1. TypeOK' /\ TimesInOrder'
    BY <1>i, <1>5 DEF TypeOK, TimesInOrder, Serve, daemonVars, pollVars
  <2> QED
    BY <1>5, <2>1, WorldStep DEF Serve, pollVars
<1>6. ASSUME NEW p \in Pids, WriteFile(p) PROVE IInv'
  <2>1. TypeOK' /\ TimesInOrder'
    BY <1>i, <1>6 DEF TypeOK, TimesInOrder, WriteFile, StillSteady, daemonVars, pollVars
  <2> QED
    BY <1>6, <2>1, WorldStep DEF WriteFile, pollVars
<1>7. ASSUME NEW p \in Pids, Exit(p) PROVE IInv'
  <2>1. TypeOK' /\ TimesInOrder'
    BY <1>i, <1>7 DEF TypeOK, TimesInOrder, Exit, StillSteady, daemonVars, pollVars
  <2> QED
    BY <1>7, <2>1, WorldStep DEF Exit, pollVars
<1>8. CASE Tick
  <2>1. TypeOK' /\ TimesInOrder'
    BY <1>i, <1>8 DEF TypeOK, TimesInOrder, Round, Tick, daemonVars, pollVars, worldVars
  <2> QED
    BY <1>8, <2>1, WorldStep DEF Tick, pollVars, worldVars
<1>9. CASE RoundCached
  <2>1. round \in Round /\ [round EXCEPT !.cached = TRUE] \in Round
    BY <1>i, <1>9 DEF TypeOK, RoundCached, Round
  <2>2. TypeOK'
    BY <1>i, <1>9, <2>1 DEF TypeOK, RoundCached, Round, daemonVars, worldVars
  <2>3. TimesInOrder'
    BY <1>i, <1>9, <2>1 DEF TypeOK, TimesInOrder, RoundCached, Round
  <2> QED
    BY <1>9, <2>2, <2>3, WorldStep DEF RoundCached, worldVars
<1>10. CASE UNCHANGED vars
  <2>1. TypeOK' /\ TimesInOrder'
    BY <1>i, <1>10 DEF vars, TypeOK, TimesInOrder
  <2> QED
    BY <1>10, <2>1, WorldStep DEF vars, daemonVars
<1> QED
  BY <1>1, <1>2, <1>3, <1>4, <1>5, <1>6, <1>7, <1>8, <1>9, <1>10 DEF Next

-----------------------------------------------------------------------------
LEMMA Invariance == Spec => []IInv
  BY InitIInv, StepIInv, PTL DEF Spec

(* The type invariant of the register, for all sessions, runs, processes    *)
(* and connections.                                                         *)
THEOREM TypeCorrect == Spec => []TypeOK
<1>1. IInv => TypeOK
  BY DEF IInv
<1> QED
  BY <1>1, Invariance, PTL

(* A run is held by exactly the connection that names it, and what movedOn  *)
(* reads is in step with it, whatever takeovers, late closes and rounds do. *)
THEOREM RegistryConsistent == Spec => []RegistryAgrees
<1>1. IInv => RegistryAgrees
  BY DEF IInv, RegistryAgrees
<1> QED
  BY <1>1, Invariance, PTL

(* No two runs of a session are tied to one harness process (#pidAmong).    *)
THEOREM OneRunPerProcess == Spec => []PidsApart
<1>1. IInv => PidsApart
  BY DEF IInv
<1> QED
  BY <1>1, Invariance, PTL

(* No step takes from a run id that is named after it what it served.       *)
LEMMA NamedKeepServed ==
  ASSUME IInv, IInv', [Next]_vars, NEW r \in RunIds, NEW t \in Sids,
         served[r] # None, runs'[<<t, r>>] # None
  PROVE  served'[r] # None /\ served[r].sids \subseteq served'[r].sids
<1>i. TypeOK /\ ServedAgree
  BY DEF IInv
<1>k. <<t, r>> \in Keys
  BY DEF Keys
<1>1. ASSUME NEW o \in Owners, NEW k \in Keys, Announce(o, k)
      PROVE  served'[r] # None /\ served[r].sids \subseteq served'[r].sids
  <2> DEFINE before == ServedAfterLeave(o)
             named == [sids |-> (IF before[k[2]] = None THEN {} ELSE before[k[2]].sids)
                                  \cup {k[1]}, leftAt |-> None]
  <2>1. before[r] # None /\ before[r].sids = served[r].sids
    BY <1>i, DropKeepsServed DEF ServedAfterLeave
  <2>2. before = [x \in RunIds |-> before[x]] /\ k[2] \in RunIds
    BY DEF ServedAfterLeave, ServedAfterDrop, Keys
  <2>3. served' = [before EXCEPT ![k[2]] = named]
    BY <1>1, <2>2 DEF Announce, ServedNamed
  <2>4. served'[r] # None
    BY <1>k, r = <<t, r>>[2] DEF IInv, ServedAgree, NamedKeys, Named
  <2> HIDE DEF before
  <2>5. CASE r = k[2]
    BY <2>1, <2>2, <2>3, <2>4, <2>5
  <2>6. CASE r # k[2]
    BY <2>1, <2>2, <2>3, <2>6
  <2> QED
    BY <2>5, <2>6
<1>2. ASSUME NEW o \in Owners, Leave(o)
      PROVE  served'[r] # None /\ served[r].sids \subseteq served'[r].sids
  BY <1>i, <1>2, DropKeepsServed DEF Leave, ServedAfterLeave
<1>3. CASE RoundEnd
  <2>1. PICK gone, after :
          served' = ServedAfterReconcile(ServedAfterDrop(gone, after), agentsRoundAt)
    BY <1>3 DEF RoundEnd, BegunAfter
  <2> DEFINE before == ServedAfterDrop(gone, after)
  <2>2. before[r] # None /\ before[r].sids = served[r].sids
    BY <1>i, DropKeepsServed
  <2>3. served'[r] # None
    BY <1>k, r = <<t, r>>[2] DEF IInv, ServedAgree, NamedKeys, Named
  <2>4. served'[r] = before[r]
    BY <2>1, <2>3 DEF ServedAfterReconcile
  <2> QED
    BY <2>2, <2>3, <2>4
<1>4. CASE served' = served
  BY <1>4
<1> QED
  BY <1>1, <1>2, <1>3, <1>4
     DEF Next, RoundRead, RoundCached, Serve, WriteFile, Exit, Tick, daemonVars, vars

(* A session that movedOn told to have changed its id goes on being told so *)
(* while a run that served it is named under another id and none under its  *)
(* own is live.                                                             *)
THEOREM MovedOnHolds == Spec => MovedOnStays
<1>1. IInv /\ IInv' /\ [Next]_vars =>
        [\A s \in Sids : MovedOn(s) =>
           \/ MovedOn(s)'
           \/ LiveOf(s)' # {}
           \/ \A k \in MovedRuns(s), t \in Sids \ {s} :
                ~(Named(<<t, k[2]>>) /\ RunAlive(<<t, k[2]>>))']_vars
  <2> SUFFICES ASSUME IInv, IInv', Next, NEW s \in Sids, MovedOn(s), LiveOf(s)' = {},
                      NEW k \in MovedRuns(s), NEW t \in Sids \ {s},
                      (Named(<<t, k[2]>>) /\ RunAlive(<<t, k[2]>>))'
               PROVE  MovedOn(s)'
    BY DEF vars
  <2>1. k[2] \in RunIds /\ served[k[2]] # None /\ s \in served[k[2]].sids
    BY DEF MovedRuns, NamedKeys, Keys
  <2>2. <<t, k[2]>> \in Keys
    BY <2>1 DEF Keys
  <2>3. served'[k[2]] # None /\ s \in served'[k[2]].sids
    BY <2>1, NamedKeepServed DEF Named
  <2>4. <<t, k[2]>> \in MovedRuns(s)'
    BY <2>2, <2>3 DEF MovedRuns, NamedKeys
  <2> QED
    BY <2>4 DEF MovedOn
<1> QED
  BY <1>1, Invariance, PTL DEF Spec, MovedOnStays

(* What a run served is not forgotten before a whole round found no sidecar *)
(* of it.                                                                   *)
THEOREM RememberedLongEnough == Spec => RememberedThroughARound
<1>1. IInv /\ IInv' /\ [Next]_vars =>
        [\A r \in RunIds : served[r] # None /\ served'[r] = None
           => served[r].leftAt # None /\ served[r].leftAt < round.began]_vars
  <2> SUFFICES ASSUME IInv, IInv', Next, NEW r \in RunIds, served[r] # None, served'[r] = None
               PROVE  served[r].leftAt # None /\ served[r].leftAt < round.began
    BY DEF vars
  <2>i. TypeOK /\ TimesInOrder
    BY DEF IInv
  <2>1. ASSUME NEW o \in Owners, NEW k \in Keys, Announce(o, k) PROVE FALSE
    <3> DEFINE before == ServedAfterLeave(o)
               named == [sids |-> (IF before[k[2]] = None THEN {} ELSE before[k[2]].sids)
                                    \cup {k[1]}, leftAt |-> None]
    <3>1. before[r] # None
      BY <2>i, DropKeepsServed DEF ServedAfterLeave
    <3>2. k[1] \in Sids /\ k[2] \in RunIds
      BY DEF Keys
    <3>3. before = [x \in RunIds |-> before[x]]
      BY DEF ServedAfterLeave, ServedAfterDrop
    <3>4. served' = [before EXCEPT ![k[2]] = named]
      BY <2>1, <3>2, <3>3 DEF Announce, ServedNamed
    <3>5. r = k[2]
      BY <3>1, <3>3, <3>4
    <3>6. before[r] \in Served
      BY <2>i, <3>1, DropKeepsServed DEF ServedAfterLeave
    <3>7. named \in Served
      BY <3>2, <3>5, <3>6 DEF Served
    <3> QED
      BY <3>2, <3>3, <3>4, <3>5, <3>7, NoneAssumption
  <2>2. ASSUME NEW o \in Owners, Leave(o) PROVE FALSE
    BY <2>i, <2>2, DropKeepsServed DEF Leave, ServedAfterLeave
  <2>3. CASE RoundEnd
    <3>1. PICK gone, after :
            served' = ServedAfterReconcile(ServedAfterDrop(gone, after), agentsRoundAt)
      BY <2>3 DEF RoundEnd, BegunAfter
    <3> DEFINE before == ServedAfterDrop(gone, after)
    <3>2. /\ before[r] \in Served \cup {None} /\ before[r] # None
          /\ before[r] = served[r] \/ before[r].leftAt = clock
      BY <2>i, DropKeepsServed
    <3>3. before[r].leftAt # None /\ before[r].leftAt < agentsRoundAt
      BY <3>1, <3>2 DEF ServedAfterReconcile
    <3>4. agentsRoundAt <= clock /\ agentsRoundAt <= round.began
      BY <2>3, <2>i DEF TimesInOrder, RoundEnd
    <3>5. round.began \in Nat /\ clock \in Nat /\ agentsRoundAt \in Nat
      BY <2>3, <2>i DEF TypeOK, RoundEnd, Round
    <3>6. before[r].leftAt \in Nat
      BY <3>2, <3>3 DEF Served
    <3> QED
      BY <3>2, <3>3, <3>4, <3>5, <3>6
  <2>4. ASSUME served' = served PROVE FALSE
    BY <2>4
  <2> QED
    BY <2>1, <2>2, <2>3, <2>4 DEF Next, RoundRead, RoundCached, Serve, WriteFile, Exit, Tick, daemonVars
<1> QED
  BY <1>1, Invariance, PTL DEF Spec, RememberedThroughARound

-----------------------------------------------------------------------------
(* A run that is steady stays.                                              *)

(* The row a round has of a run's harness. *)
RowOf(k) == [pid |-> Harness[k[2]], sid |-> k[1]]

(* A steady run's state file names its session now, and did when the round  *)
(* in flight read it, unless the run was named after that.                  *)
SteadyFiled == \A k \in steady : Filed(k, file, dead)
SteadyListed ==
  round # None =>
    \A k \in steady : Named(k) /\ runs[k].namedAt < round.began
                        /\ DirOf[Harness[k[2]]] \in round.answered
                      => RowOf(k) \in round.agents
SteadyInv == IInv /\ SteadyFiled /\ SteadyListed

(* When a step names no run anew, a run that is still named and still       *)
(* steady was listed by the round in flight already.                        *)
LEMMA SteadyStays ==
  ASSUME SteadyInv,
         steady' \subseteq steady,
         \A k \in steady' : Filed(k, file', dead'),
         round' = None \/ (/\ round # None
                           /\ round'.began = round.began /\ round'.answered = round.answered
                           /\ round'.agents = round.agents),
         \A k \in Keys : Named(k)' => Named(k) /\ runs'[k].namedAt = runs[k].namedAt
  PROVE  SteadyFiled' /\ SteadyListed'
<1>1. SteadyFiled'
  BY DEF SteadyFiled
<1>2. steady \subseteq Keys
  BY DEF SteadyInv, IInv, TypeOK
<1>3. SteadyListed'
  BY <1>2 DEF SteadyInv, SteadyListed, RowOf
<1> QED
  BY <1>1, <1>3

(* announce names a run at the time it is: later than any round in flight. *)
LEMMA AnnounceSteady ==
  ASSUME SteadyInv, NEW o \in Owners, NEW k \in Keys, Announce(o, k)
  PROVE  SteadyFiled' /\ SteadyListed'
<1> DEFINE left == RunsAfterLeave(o)
<1>i. TypeOK /\ OwnersAgree /\ TimesInOrder /\ steady \subseteq Keys
  BY DEF SteadyInv, IInv, TypeOK
<1>1. PICK pid : runs' = [left EXCEPT ![k] = [owner |-> o, pid |-> pid, namedAt |-> clock]]
  BY DEF Announce
<1>2. left \in [Keys -> Held \cup {None}] /\ \A l \in Keys : left[l] # None => left[l] = runs[l]
  BY <1>i, LeaveTakes
<1>3. runs'[k].namedAt = clock /\ \A l \in Keys : l # k => runs'[l] = left[l]
  BY <1>1, <1>2
<1>4. /\ steady' \subseteq steady \cup {k}
      /\ k \in steady' => Filed(k, file, dead)
      /\ UNCHANGED <<file, dead, round>>
  BY DEF Announce, pollVars, worldVars
<1>5. SteadyFiled'
  BY <1>4 DEF SteadyInv, SteadyFiled, Filed
<1>6. SteadyListed'
  <2> SUFFICES ASSUME round # None, NEW l \in steady', runs'[l] # None,
                      runs'[l].namedAt < round.began, DirOf[Harness[l[2]]] \in round.answered
               PROVE  RowOf(l) \in round.agents
    BY <1>4 DEF SteadyListed, Named, RowOf
  <2>1. round.began \in Nat /\ clock \in Nat /\ round.began <= clock
    BY <1>i DEF TypeOK, Round, TimesInOrder
  <2>2. l # k
    BY <1>3, <2>1
  <2>3. l \in steady /\ l \in Keys
    BY <1>i, <1>4, <2>2
  <2>4. runs'[l] = runs[l]
    BY <1>2, <1>3, <2>2, <2>3
  <2> QED
    BY <2>3, <2>4 DEF SteadyInv, SteadyListed, Named
<1> QED
  BY <1>5, <1>6

(* A round lists the harness of each steady run whose config dir it could  *)
(* read.                                                                   *)
LEMMA RoundReadSteady ==
  ASSUME SteadyInv, RoundRead
  PROVE  SteadyFiled' /\ SteadyListed'
<1>i. TypeOK
  BY DEF SteadyInv, IInv
<1>1. PICK answered \in SUBSET Dirs :
        round' = [began |-> clock, answered |-> answered, cached |-> FALSE,
                  agents |-> {a \in Row : /\ a.pid \notin dead
                                          /\ file[a.pid] = a.sid
                                          /\ DirOf[a.pid] \in answered}]
  BY DEF RoundRead
<1>2. UNCHANGED <<runs, steady, file, dead>>
  BY DEF RoundRead, daemonVars, worldVars
<1>3. SteadyFiled'
  BY <1>2 DEF SteadyInv, SteadyFiled, Filed
<1>4. ASSUME NEW k \in steady, DirOf[Harness[k[2]]] \in round'.answered
      PROVE  RowOf(k) \in round'.agents
  <2>1. k \in Keys /\ Filed(k, file, dead)
    BY <1>i DEF TypeOK, SteadyInv, SteadyFiled
  <2>2. k[1] \in Sids /\ Harness[k[2]] \in Pids
    BY <2>1, HarnessAssumption DEF Keys
  <2>3. RowOf(k) \in Row /\ RowOf(k).pid = Harness[k[2]] /\ RowOf(k).sid = k[1]
    BY <2>2 DEF RowOf, Row
  <2>4. RowOf(k).pid \notin dead /\ file[RowOf(k).pid] = RowOf(k).sid
    BY <2>1, <2>3 DEF Filed
  <2>5. DirOf[RowOf(k).pid] \in answered
    BY <1>1, <1>4, <2>3
  <2> QED
    BY <1>1, <2>3, <2>4, <2>5
<1>5. SteadyListed'
  BY <1>2, <1>4 DEF SteadyListed, RowOf
<1> QED
  BY <1>3, <1>5

LEMMA SteadyStep == SteadyInv /\ [Next]_vars => SteadyInv'
<1> SUFFICES ASSUME SteadyInv, [Next]_vars PROVE SteadyInv'
  OBVIOUS
<1>i. IInv /\ TypeOK /\ SteadyFiled
  BY DEF SteadyInv, IInv
<1>s. steady \subseteq Keys
  BY <1>i DEF TypeOK
<1>v. IInv'
  BY <1>i, StepIInv
<1> SUFFICES SteadyFiled' /\ SteadyListed'
  BY <1>v DEF SteadyInv
<1>f. ASSUME UNCHANGED <<file, dead>>, steady' \subseteq steady
      PROVE  \A k \in steady' : Filed(k, file', dead')
  BY <1>i, <1>f DEF SteadyFiled
<1>1. ASSUME NEW o \in Owners, NEW k \in Keys, Announce(o, k) PROVE SteadyFiled' /\ SteadyListed'
  BY <1>1, AnnounceSteady
<1>2. ASSUME NEW o \in Owners, Leave(o) PROVE SteadyFiled' /\ SteadyListed'
  <2>1. runs' = RunsAfterLeave(o) /\ steady' \subseteq steady /\ UNCHANGED <<round, file, dead>>
    BY <1>2 DEF Leave, pollVars, worldVars
  <2>2. \A k \in Keys : runs'[k] # None => runs'[k] = runs[k]
    BY <1>2, <1>i, <2>1, LeaveTakes DEF IInv
  <2>3. \A k \in Keys : Named(k)' => Named(k) /\ runs'[k].namedAt = runs[k].namedAt
    BY <2>2 DEF Named
  <2>4. \A k \in steady' : Filed(k, file', dead')
    BY <2>1, <1>f
  <2>5. round' = None \/ (/\ round # None
                          /\ round'.began = round.began /\ round'.answered = round.answered
                          /\ round'.agents = round.agents)
    BY <2>1
  <2> QED
    BY <2>1, <2>3, <2>4, <2>5, SteadyStays
<1>3. CASE RoundRead
  BY <1>3, RoundReadSteady
<1>4. CASE RoundEnd
  <2>1. round' = None /\ UNCHANGED <<steady, file, dead>>
    BY <1>4 DEF RoundEnd, worldVars
  <2>2. SteadyFiled'
    BY <2>1, <1>i DEF SteadyFiled, Filed
  <2> QED
    BY <2>1, <2>2 DEF SteadyListed
<1>5. ASSUME UNCHANGED <<runs, round>>, steady' \subseteq steady,
             \A k \in steady' : Filed(k, file', dead')
      PROVE  SteadyFiled' /\ SteadyListed'
  <2>1. \A k \in Keys : Named(k)' => Named(k) /\ runs'[k].namedAt = runs[k].namedAt
    BY <1>5 DEF Named
  <2> QED
    BY <1>5, <2>1, SteadyStays
<1>6. ASSUME NEW p \in Pids, NEW s \in Sids, Serve(p, s) PROVE SteadyFiled' /\ SteadyListed'
  <2>1. UNCHANGED <<runs, round, steady, file, dead>>
    BY <1>6 DEF Serve, daemonVars, pollVars
  <2> QED
    BY <2>1, <1>f, <1>5
<1>7. ASSUME NEW p \in Pids, WriteFile(p) PROVE SteadyFiled' /\ SteadyListed'
  <2>1. UNCHANGED <<runs, round, dead>> /\ steady' = StillSteady(file', dead)
    BY <1>7 DEF WriteFile, daemonVars, pollVars
  <2> QED
    BY <2>1, <1>5 DEF StillSteady
<1>8. ASSUME NEW p \in Pids, Exit(p) PROVE SteadyFiled' /\ SteadyListed'
  <2>1. UNCHANGED <<runs, round>> /\ steady' = StillSteady(file', dead')
    BY <1>8 DEF Exit, daemonVars, pollVars
  <2> QED
    BY <2>1, <1>5 DEF StillSteady
<1>9. CASE Tick \/ UNCHANGED vars
  <2>1. UNCHANGED <<runs, round, steady, file, dead>>
    BY <1>9 DEF Tick, vars, daemonVars, pollVars, worldVars
  <2> QED
    BY <2>1, <1>f, <1>5
<1>10. CASE RoundCached
  <2>1. /\ round # None /\ round' = [round EXCEPT !.cached = TRUE] /\ round \in Round
        /\ UNCHANGED <<runs, steady, file, dead>>
    BY <1>10, <1>i DEF RoundCached, daemonVars, worldVars, TypeOK
  <2>2. round'.began = round.began /\ round'.answered = round.answered /\ round'.agents = round.agents
    BY <2>1 DEF Round
  <2>3. \A k \in Keys : Named(k)' => Named(k) /\ runs'[k].namedAt = runs[k].namedAt
    BY <2>1 DEF Named
  <2>4. \A k \in steady' : Filed(k, file', dead')
    BY <2>1, <1>f
  <2> QED
    BY <2>1, <2>2, <2>3, <2>4, SteadyStays
<1> QED
  BY <1>1, <1>2, <1>3, <1>4, <1>6, <1>7, <1>8, <1>9, <1>10 DEF Next

LEMMA SteadyBegins == Init => SteadyInv
  BY InitIInv DEF Init, SteadyInv, SteadyFiled, SteadyListed

LEMMA SteadyInvariance == Spec => []SteadyInv
  BY SteadyBegins, SteadyStep, PTL DEF Spec

(* A poll drops no run whose harness it should have found: one whose state  *)
(* file has named its session since the run was named, unless the run was   *)
(* tied to another process (reconcile).                                     *)
THEOREM SteadyIsKept == Spec => SteadyRunKept
<1>1. SteadyInv /\ [Next]_vars =>
        [\A k \in steady \cap steady' :
           /\ Named(k)
           /\ k[2] \in NamesDir
           /\ runs[k].pid \in {None, Harness[k[2]]}
           => Named(k)']_vars
  <2> SUFFICES ASSUME SteadyInv, Next, NEW k \in steady \cap steady', Named(k), k[2] \in NamesDir,
                      runs[k].pid \in {None, Harness[k[2]]}, runs'[k] = None
               PROVE  FALSE
    BY DEF vars, Named
  <2>i. TypeOK /\ OwnersAgree /\ TimesInOrder /\ k \in Keys /\ Filed(k, file, dead)
    BY DEF SteadyInv, IInv, TypeOK, SteadyFiled
  <2>h. runs[k] \in Held
    BY <2>i DEF TypeOK, Named
  <2>1. ASSUME NEW o \in Owners, NEW l \in Keys, Announce(o, l) PROVE FALSE
    <3>1. PICK pid \in PidAmong(l, rows, TakenAtAnnounce(l, RunsAfterLeave(o))) :
            runs' = [RunsAfterLeave(o) EXCEPT ![l] = [owner |-> o, pid |-> pid, namedAt |-> clock]]
      BY <2>1 DEF Announce
    <3>2. /\ RunsAfterLeave(o) \in [Keys -> Held \cup {None}]
          /\ RunsAfterLeave(o)[k] = None => k \in KeyLeft(o)
      BY <2>i, LeaveTakes DEF Named
    <3>3. k # l
      <4>1. runs'[l] = [owner |-> o, pid |-> pid, namedAt |-> clock]
        BY <3>1, <3>2
      <4>2. pid \in Pids \cup {None} /\ clock \in Nat
        BY <2>i, PidAmongGives DEF TypeOK
      <4> QED
        BY <4>1, <4>2, NoneAssumption DEF Held
    <3>4. k \in KeyLeft(o)
      BY <2>i, <3>1, <3>2, <3>3
    <3> QED
      BY <2>1, <3>3, <3>4 DEF Announce
  <2>2. ASSUME NEW o \in Owners, Leave(o) PROVE FALSE
    BY <2>i, <2>2, LeaveTakes DEF Leave, Named
  <2>3. CASE RoundEnd
    <3>1. PICK tie \in [Untied -> Pids \cup {None}] :
            runs' = RunsAfterReconcile(tie, Dropped(tie, agentsRoundAt))
      BY <2>3 DEF RoundEnd, BegunAfter
    <3>2. k \in Dropped(tie, agentsRoundAt)
      BY <2>i, <3>1, ReconcileTakes DEF Named
    <3>3. ~HarnessGone(k)
      BY <2>i DEF HarnessGone, Tied, RunAlive, Filed
    <3>4. Unlisted(k, agentsRoundAt)
      BY <3>2, <3>3 DEF Dropped
    <3>5. round # None /\ round \in Round /\ agentsRoundAt <= round.began
      BY <2>3, <2>i DEF RoundEnd, TypeOK, TimesInOrder
    <3>6. runs[k].namedAt < round.began
      <4>1. runs[k].namedAt \in Nat /\ agentsRoundAt \in Nat /\ round.began \in Nat
        BY <2>h, <2>i, <3>5 DEF Held, TypeOK, Round
      <4> QED
        BY <3>4, <3>5, <4>1 DEF Unlisted
    <3>7. DirOf[Harness[k[2]]] \in round.answered
      BY <3>4 DEF Unlisted, DirAnswered
    <3>8. RowOf(k) \in round.agents
      BY <3>5, <3>6, <3>7 DEF SteadyInv, SteadyListed
    <3>9. Listed(k)
      BY <3>8 DEF Listed, RowOf
    <3> QED
      BY <3>4, <3>9 DEF Unlisted
  <2>4. CASE runs' = runs
    BY <2>4 DEF Named
  <2> QED
    BY <2>1, <2>2, <2>3, <2>4 DEF Next, RoundRead, RoundCached, Serve, WriteFile, Exit, Tick, daemonVars
<1> QED
  BY <1>1, SteadyInvariance, PTL DEF Spec, SteadyRunKept
=====
