-------------------------- MODULE SidecarKeeperProofs --------------------------
(***************************************************************************)
(* A session has one sidecar, and one more for each two starts that met,    *)
(* for any number of ids, deaths and restarts.                              *)
(*                                                                          *)
(* The argument: a sidecar that is alive is the one that is kept, is about  *)
(* to be spawned, or is one of those that starts which met left over. So    *)
(* when none is kept alive and none is about to be spawned, those are all.  *)
(***************************************************************************)
EXTENDS SidecarKeeper, SequenceTheorems, FiniteSetTheorems, TLAPS

NoneWaits == \A c \in DOMAIN kids : kids[c].proc # "argv"

Counted ==
  /\ Cardinality(Live) <= 1 + met
  /\ sidecar \notin Live /\ NoneWaits => Cardinality(Live) <= met

IInv == TypeOK /\ Counted

-----------------------------------------------------------------------------
LEMMA LiveIsFinite ==
  ASSUME kids \in Seq(Kid)
  PROVE  IsFiniteSet(Live) /\ Cardinality(Live) \in Nat
<1>1. IsFiniteSet(1..Len(kids))
  BY FS_Interval
<1>2. Live \subseteq 1..Len(kids)
  BY DEF Live
<1> QED
  BY <1>1, <1>2, FS_Subset, FS_CardinalityType

(* A step of one sidecar changes its record and nothing else.              *)
LEMMA KidMoves ==
  ASSUME kids \in Seq(Kid), NEW c \in DOMAIN kids, NEW k \in Kid, kids' = [kids EXCEPT ![c] = k]
  PROVE  /\ kids' \in Seq(Kid)
         /\ DOMAIN kids' = DOMAIN kids
         /\ kids'[c] = k
         /\ \A d \in DOMAIN kids : d # c => kids'[d] = kids[d]
  BY ExceptSeq

(* One that is launched joins the others.                                  *)
LEMMA OneMore ==
  ASSUME kids \in Seq(Kid), NEW k \in Kid, kids' = Append(kids, k)
  PROVE  /\ kids' \in Seq(Kid)
         /\ DOMAIN kids' = DOMAIN kids \cup {Len(kids) + 1}
         /\ Len(kids) + 1 \notin DOMAIN kids
         /\ kids'[Len(kids) + 1] = k
         /\ \A c \in DOMAIN kids : kids'[c] = kids[c]
<1>1. /\ kids' \in Seq(Kid) /\ Len(kids') = Len(kids) + 1
      /\ \A c \in 1..Len(kids) : kids'[c] = kids[c]
      /\ kids'[Len(kids) + 1] = k
  BY AppendProperties
<1>2. DOMAIN kids = 1..Len(kids) /\ Len(kids) \in Nat
  OBVIOUS
<1>3. DOMAIN kids' = 1..Len(kids')
  BY <1>1
<1> QED
  BY <1>1, <1>2, <1>3

-----------------------------------------------------------------------------
(* The count through the three kinds of steps: none starts or ends, ...    *)
LEMMA NoneEnds ==
  ASSUME TypeOK, Counted, UNCHANGED met, Live' = Live, NoneWaits' => NoneWaits \/ sidecar' \in Live,
         sidecar' = sidecar \/ sidecar' \in Live \/ sidecar \notin Live
  PROVE  Counted'
  BY DEF Counted

(* ... one that is alive ends, ...                                         *)
LEMMA OneEnds ==
  ASSUME TypeOK, Counted, UNCHANGED met, NEW c \in Live, Live' = Live \ {c},
         NoneWaits' => NoneWaits, sidecar' = sidecar \/ sidecar = c
  PROVE  Counted'
<1>1. Cardinality(Live') = Cardinality(Live) - 1 /\ Cardinality(Live) \in Nat /\ met \in Nat
  BY LiveIsFinite, FS_RemoveElement DEF TypeOK
<1>2. CASE sidecar = c
  BY <1>1, <1>2 DEF Counted
<1>3. CASE sidecar # c /\ sidecar' = sidecar
  BY <1>1, <1>3 DEF Counted
<1> QED
  BY <1>2, <1>3

(* ... or one is launched, beside another that is kept or about to be      *)
(* spawned, which is counted, or alone.                                    *)
LEMMA OneStarts ==
  ASSUME TypeOK, Counted, NEW sid \in Ids, Launched(sid)
  PROVE  /\ kids' \in Seq(Kid)
         /\ DOMAIN kids' = DOMAIN kids \cup {Len(kids) + 1} /\ Len(kids) + 1 \notin DOMAIN kids
         /\ \A c \in DOMAIN kids : kids'[c] = kids[c]
         /\ met' \in Nat
         /\ Counted'
<1> DEFINE n == Len(kids) + 1
           k == [sid |-> sid, proc |-> "argv", read |-> FALSE, ino |-> 0]
<1>1. k \in Kid /\ k.proc = "argv"
  BY DEF Kid
<1>2. kids' = Append(kids, k)
  BY DEF Launched
<1> HIDE DEF k
<1>3. /\ kids' \in Seq(Kid)
      /\ DOMAIN kids' = DOMAIN kids \cup {n} /\ n \notin DOMAIN kids
      /\ kids'[n] = k
      /\ \A c \in DOMAIN kids : kids'[c] = kids[c]
  BY <1>1, <1>2, OneMore DEF TypeOK
<1> HIDE DEF n
<1>4. Live' = Live \cup {n} /\ n \notin Live
  BY <1>1, <1>3 DEF Live
<1>5. Cardinality(Live') = Cardinality(Live) + 1 /\ Cardinality(Live) \in Nat /\ met \in Nat
  BY <1>4, LiveIsFinite, FS_AddElement DEF TypeOK
<1>6. ~NoneWaits'
  BY <1>1, <1>3 DEF NoneWaits
<1>7. \/ met' = met + 1
      \/ met' = met /\ sidecar \notin Live /\ NoneWaits
  BY NoneAssumption DEF Launched, NoneWaits, Live, TypeOK
<1>8. Counted'
  BY <1>5, <1>6, <1>7 DEF Counted
<1> QED
  BY <1>3, <1>5, <1>7, <1>8 DEF n

-----------------------------------------------------------------------------
LEMMA InitIInv == Init => IInv
<1> SUFFICES ASSUME Init PROVE IInv
  OBVIOUS
<1>1. left \in Left /\ left.changes < MaxId /\ left.changes \in Nat /\ MaxId \in Nat
  BY KeeperAssumption DEF Init, Left
<1>2. 1 \in Ids /\ 1 + left.changes \in Ids
  BY <1>1 DEF Ids
<1>3. kids = <<>> /\ kids \in Seq(Kid) /\ DOMAIN kids = {}
  BY DEF Init
<1>4. TypeOK
  BY <1>1, <1>2, <1>3 DEF Init, TypeOK
<1>5. Live = {}
  BY <1>3 DEF Live
<1> QED
  BY <1>4, <1>5, FS_EmptySet DEF Init, IInv, Counted

(* Types through a step of one sidecar, which may be let go of by it.      *)
LEMMA KidStaysTyped ==
  ASSUME TypeOK, NEW c \in DOMAIN kids, NEW k \in Kid, kids' = [kids EXCEPT ![c] = k],
         UNCHANGED <<id, commanded, starts, daemon, met>>,
         step' = step \/ (step # "none" /\ step' = "returning"),
         under' \in Ids, timers' \in Nat,
         left' \in Left, left'.changes = left.changes,
         sock' \in [Ids -> DOMAIN kids \cup {None}],
         named' \subseteq named, c \in named' => k.proc = "up",
         \/ sidecar' = None
         \/ sidecar' = c /\ k.read
         \/ sidecar' = sidecar /\ sidecar # c
  PROVE  TypeOK'
<1>1. /\ kids' \in Seq(Kid)
      /\ DOMAIN kids' = DOMAIN kids
      /\ kids'[c] = k
      /\ \A d \in DOMAIN kids : d # c => kids'[d] = kids[d]
  BY KidMoves DEF TypeOK
<1>2. sidecar' \in DOMAIN kids' \cup {None} /\ (sidecar' # None => kids'[sidecar'].read)
  BY <1>1 DEF TypeOK
<1>3. named' \subseteq {d \in DOMAIN kids' : kids'[d].proc = "up"} /\ (named' # {} => daemon')
  BY <1>1 DEF TypeOK
<1> QED
  BY <1>1, <1>2, <1>3 DEF TypeOK

(* The invariant through the steps that move no sidecar.                   *)
LEMMA QuietStep ==
  ASSUME IInv, \/ ChangesId \/ CommandRun \/ AsksId \/ Keeps \/ Respawns
               \/ DaemonStops \/ DaemonStarts \/ \E c \in DOMAIN kids : Names(c)
  PROVE  IInv'
<1> USE DEF IInv
<1>1. UNCHANGED <<kids, sidecar, sock, met, under>>
  BY DEF ChangesId, CommandRun, AsksId, Keeps, Respawns, DaemonStops, DaemonStarts, Names,
         kidVars, moduleVars
<1>2. Counted'
  BY <1>1, NoneEnds DEF Live, NoneWaits
<1>3. left' \in Left
  BY DEF ChangesId, CommandRun, AsksId, Keeps, Respawns, DaemonStops, DaemonStarts, Names,
         Left, TypeOK
<1>4. id' \in Ids /\ id' + left'.changes \in Ids /\ commanded' \in BOOLEAN
  <2>1. MaxId \in Nat /\ left.changes \in Nat
    BY KeeperAssumption DEF TypeOK, Left
  <2>2. CASE ChangesId
    <3>1. left'.changes = left.changes - 1 /\ id' = id + 1 /\ commanded' = TRUE /\ left.changes > 0
      BY <2>2 DEF ChangesId, TypeOK, Left
    <3> QED
      BY <2>1, <3>1 DEF TypeOK, Ids
  <2>3. CASE ~ChangesId
    <3>1. left'.changes = left.changes /\ id' = id /\ commanded' \in BOOLEAN
      BY <2>3 DEF CommandRun, AsksId, Keeps, Respawns, DaemonStops, DaemonStarts, Names,
                  moduleVars, Left, TypeOK
    <3> QED
      BY <3>1 DEF TypeOK
  <2> QED
    BY <2>2, <2>3
<1>5. /\ starts' \in Nat /\ step' \in {"none", "asked", "returning"} /\ timers' \in Nat
      /\ step' # "none" => starts' > 0
  BY DEF ChangesId, CommandRun, AsksId, Keeps, Respawns, DaemonStops, DaemonStarts, Names,
         moduleVars, TypeOK
<1>6. /\ daemon' \in BOOLEAN /\ (named' # {} => daemon')
      /\ named' \subseteq {c \in DOMAIN kids : kids[c].proc = "up"}
  BY DEF ChangesId, CommandRun, AsksId, Keeps, Respawns, DaemonStops, DaemonStarts, Names,
         daemonVars, TypeOK
<1>7. TypeOK'
  BY <1>1, <1>3, <1>4, <1>5, <1>6 DEF TypeOK
<1> QED
  BY <1>2, <1>7

LEMMA LaunchStep == ASSUME IInv, Runs \/ Returned PROVE IInv'
<1> USE DEF IInv
<1>1. PICK sid \in Ids : Launched(sid)
  BY DEF Runs, Returned, TypeOK
<1>2. /\ kids' \in Seq(Kid)
      /\ DOMAIN kids' = DOMAIN kids \cup {Len(kids) + 1} /\ Len(kids) + 1 \notin DOMAIN kids
      /\ \A c \in DOMAIN kids : kids'[c] = kids[c]
      /\ met' \in Nat
      /\ Counted'
  BY <1>1, OneStarts
<1>3. /\ UNCHANGED <<id, commanded, under, sidecar, timers, sock, daemon, named, left>>
      /\ step' = "none" /\ starts' \in Nat
  BY DEF Runs, Returned, daemonVars, TypeOK
<1>4. TypeOK'
  BY <1>2, <1>3 DEF TypeOK
<1> QED
  BY <1>2, <1>4

LEMMA LetGoStep == ASSUME IInv, Returns PROVE IInv'
<1> USE DEF IInv
<1>1. sidecar \in DOMAIN kids /\ kids[sidecar] \in Kid /\ step = "asked"
  BY DEF Returns, TypeOK
<1> DEFINE k == [kids[sidecar] EXCEPT !.proc = IF @ \in Living THEN "leaving" ELSE @]
<1>2. k \in Kid /\ kids' = [kids EXCEPT ![sidecar] = k]
  BY <1>1 DEF Returns, Kid
<1>3. k.proc = IF kids[sidecar].proc \in Living THEN "leaving" ELSE kids[sidecar].proc
  BY <1>1 DEF Kid
<1> HIDE DEF k
<1>4. TypeOK'
  BY <1>1, <1>2, KidStaysTyped DEF Returns, TypeOK
<1>5. /\ DOMAIN kids' = DOMAIN kids
      /\ kids'[sidecar] = k
      /\ \A d \in DOMAIN kids : d # sidecar => kids'[d] = kids[d]
  BY <1>1, <1>2, KidMoves DEF TypeOK
<1>6. sidecar' = None /\ met' = met
  BY DEF Returns
<1>7. NoneWaits' => NoneWaits
  BY <1>1, <1>3, <1>5 DEF NoneWaits, Living
<1>8. CASE kids[sidecar].proc \in Living
  <2>1. sidecar \in Live /\ Live' = Live \ {sidecar}
    BY <1>1, <1>3, <1>5, <1>8 DEF Live, Living
  <2> QED
    BY <1>4, <1>6, <1>7, <2>1, OneEnds
<1>9. CASE kids[sidecar].proc \notin Living
  <2>1. Live' = Live
    BY <1>1, <1>3, <1>5, <1>9 DEF Live
  <2>2. sidecar \notin Live \/ ~NoneWaits'
    BY <1>1, <1>3, <1>5, <1>9 DEF Live, NoneWaits
  <2>3. Counted'
    BY <1>6, <1>7, <2>1, <2>2 DEF Counted
  <2> QED
    BY <1>4, <2>3
<1> QED
  BY <1>8, <1>9

(* The invariant through the steps of a sidecar.                           *)
LEMMA SidecarStep ==
  ASSUME IInv, NEW c \in DOMAIN kids,
         \/ Spawns(c) \/ SeesEnd(c) \/ Unlinks(c) \/ Listens(c) \/ Fails(c) \/ Stats(c)
         \/ Leaves(c) \/ Dies(c)
  PROVE  IInv'
<1> USE DEF IInv
<1>1. kids[c] \in Kid /\ None \notin DOMAIN kids /\ met' = met
  BY NoneAssumption DEF TypeOK, Spawns, SeesEnd, Unlinks, Listens, Fails, Stats, Leaves, Dies
<1>2. c \in Live <=> kids[c].proc \in Living \cup {"argv"}
  BY DEF Live
<1>3. sidecar = c => kids[c].read
  BY <1>1 DEF TypeOK
<1>4. ASSUME NEW k \in Kid, kids' = [kids EXCEPT ![c] = k]
      PROVE  /\ DOMAIN kids' = DOMAIN kids
             /\ kids'[c] = k
             /\ \A d \in DOMAIN kids : d # c => kids'[d] = kids[d]
             /\ Live' = IF k.proc \in Living \cup {"argv"} THEN Live \cup {c} ELSE Live \ {c}
             /\ k.proc = "argv" \/ kids[c].proc # "argv" => (NoneWaits' => NoneWaits)
  <2>1. /\ DOMAIN kids' = DOMAIN kids
        /\ kids'[c] = k
        /\ \A d \in DOMAIN kids : d # c => kids'[d] = kids[d]
    BY <1>4, KidMoves DEF TypeOK
  <2> QED
    BY <2>1 DEF Live, NoneWaits
<1>5. CASE Spawns(c)
  <2> DEFINE k == [kids[c] EXCEPT !.proc = "new", !.read = TRUE]
  <2>1. k \in Kid /\ kids' = [kids EXCEPT ![c] = k] /\ k.proc = "new" /\ k.read
    BY <1>1, <1>5 DEF Spawns, Kid
  <2> HIDE DEF k
  <2>2. c \notin named /\ sidecar' = c /\ c \in Live
    BY <1>2, <1>5 DEF Spawns, TypeOK
  <2>3. TypeOK'
    BY <1>5, <2>1, <2>2, KidStaysTyped DEF Spawns, TypeOK, daemonVars
  <2>4. Counted'
    BY <1>1, <1>4, <2>1, <2>2, NoneEnds DEF Living
  <2> QED
    BY <2>3, <2>4
<1>6. CASE SeesEnd(c)
  <2> DEFINE k == [kids[c] EXCEPT !.read = FALSE]
  <2>1. k \in Kid /\ kids' = [kids EXCEPT ![c] = k] /\ k.proc = kids[c].proc
    BY <1>1, <1>6 DEF SeesEnd, Kid
  <2> HIDE DEF k
  <2>2. kids[c].proc \notin Living \cup {"argv"} /\ c \notin named
    BY <1>6 DEF SeesEnd, TypeOK, Living
  <2>3. /\ sidecar' = IF sidecar = c THEN None ELSE sidecar
        /\ UNCHANGED <<id, commanded, starts, step, under, sock, daemon, named, left>>
        /\ timers' \in Nat
    BY <1>6 DEF SeesEnd, daemonVars, TypeOK
  <2>4. TypeOK'
    BY <1>1, <2>1, <2>2, <2>3, KidStaysTyped DEF TypeOK
  <2>5. Counted'
    BY <1>1, <1>2, <1>4, <2>1, <2>2, <2>3, NoneEnds
  <2> QED
    BY <2>4, <2>5
<1>7. CASE Unlinks(c)
  <2> DEFINE k == [kids[c] EXCEPT !.proc = "unlinked"]
  <2>1. /\ k \in Kid /\ kids' = [kids EXCEPT ![c] = k] /\ k.proc = "unlinked"
        /\ k.read = kids[c].read
    BY <1>1, <1>7 DEF Unlinks, Becomes, Kid
  <2> HIDE DEF k
  <2>2. kids[c].proc = "new" /\ c \notin named /\ UNCHANGED <<moduleVars, sidecar>>
    BY <1>7 DEF Unlinks, Becomes, TypeOK, moduleVars
  <2>3. sock' \in [Ids -> DOMAIN kids \cup {None}]
    BY <1>1, <1>7 DEF Unlinks, TypeOK
  <2>4. TypeOK'
    BY <1>3, <1>7, <2>1, <2>2, <2>3, KidStaysTyped DEF Unlinks, TypeOK, daemonVars, moduleVars
  <2>5. Counted'
    BY <1>1, <1>2, <1>4, <2>1, <2>2, NoneEnds DEF Living
  <2> QED
    BY <2>4, <2>5
<1>8. CASE Listens(c)
  <2> DEFINE k == [kids[c] EXCEPT !.proc = "listening"]
  <2>1. /\ k \in Kid /\ kids' = [kids EXCEPT ![c] = k] /\ k.proc = "listening"
        /\ k.read = kids[c].read
    BY <1>1, <1>8 DEF Listens, Becomes, Kid
  <2> HIDE DEF k
  <2>2. kids[c].proc = "unlinked" /\ c \notin named /\ UNCHANGED <<moduleVars, sidecar>>
    BY <1>8 DEF Listens, Becomes, TypeOK, moduleVars
  <2>3. sock' \in [Ids -> DOMAIN kids \cup {None}]
    BY <1>1, <1>8 DEF Listens, TypeOK
  <2>4. TypeOK'
    BY <1>3, <1>8, <2>1, <2>2, <2>3, KidStaysTyped DEF Listens, TypeOK, daemonVars, moduleVars
  <2>5. Counted'
    BY <1>1, <1>2, <1>4, <2>1, <2>2, NoneEnds DEF Living
  <2> QED
    BY <2>4, <2>5
<1>9. CASE Stats(c)
  <2> DEFINE k == [kids[c] EXCEPT !.proc = "up", !.ino = sock[Path(c)]]
  <2>1. kids[c].proc = "listening" /\ sock[Path(c)] \in Nat /\ c \notin named
    BY <1>1, <1>9 DEF Stats, Path, TypeOK, Kid
  <2>2. /\ k \in Kid /\ kids' = [kids EXCEPT ![c] = k] /\ k.proc = "up"
        /\ k.read = kids[c].read
    BY <1>1, <1>9, <2>1 DEF Stats, Kid
  <2> HIDE DEF k
  <2>3. UNCHANGED <<moduleVars, sidecar, sock, daemon, named, left>>
    BY <1>9 DEF Stats, moduleVars, daemonVars
  <2>4. TypeOK'
    BY <1>1, <1>3, <2>2, <2>3, KidStaysTyped DEF TypeOK, moduleVars
  <2>5. Counted'
    BY <1>1, <1>2, <1>4, <2>1, <2>2, <2>3, NoneEnds DEF Living
  <2> QED
    BY <2>4, <2>5
<1>10. CASE Fails(c)
  <2> DEFINE k == [kids[c] EXCEPT !.proc = "gone"]
  <2>1. /\ k \in Kid /\ kids' = [kids EXCEPT ![c] = k] /\ k.proc = "gone"
        /\ k.read = kids[c].read
    BY <1>1, <1>10 DEF Fails, Becomes, Kid
  <2> HIDE DEF k
  <2>2. /\ kids[c].proc \in {"unlinked", "listening"} /\ c \notin named
        /\ UNCHANGED <<moduleVars, sidecar, sock>>
    BY <1>10 DEF Fails, Becomes, TypeOK, moduleVars
  <2>3. TypeOK'
    BY <1>3, <1>10, <2>1, <2>2, KidStaysTyped DEF Fails, TypeOK, daemonVars, moduleVars
  <2>4. Counted'
    BY <1>1, <1>2, <1>4, <2>1, <2>2, OneEnds DEF Living
  <2> QED
    BY <2>3, <2>4
<1>11. CASE Leaves(c)
  <2> DEFINE k == [kids[c] EXCEPT !.proc = "gone"]
  <2>1. /\ k \in Kid /\ kids' = [kids EXCEPT ![c] = k] /\ k.proc = "gone"
        /\ k.read = kids[c].read
    BY <1>1, <1>11 DEF Leaves, Becomes, Kid
  <2> HIDE DEF k
  <2>2. kids[c].proc = "leaving" /\ c \notin named /\ UNCHANGED <<moduleVars, sidecar>>
    BY <1>11 DEF Leaves, Becomes, TypeOK, moduleVars
  <2>3. sock' \in [Ids -> DOMAIN kids \cup {None}]
    BY <1>1, <1>11 DEF Leaves, TypeOK
  <2>4. TypeOK'
    BY <1>3, <1>11, <2>1, <2>2, <2>3, KidStaysTyped DEF Leaves, TypeOK, daemonVars, moduleVars
  <2>5. Counted'
    BY <1>1, <1>2, <1>4, <2>1, <2>2, NoneEnds DEF Living
  <2> QED
    BY <2>4, <2>5
<1>12. CASE Dies(c)
  <2>1. PICK how \in {"leaving", "gone"} : kids' = [kids EXCEPT ![c].proc = how]
    BY <1>12 DEF Dies
  <2> DEFINE k == [kids[c] EXCEPT !.proc = how]
  <2>2. /\ k \in Kid /\ kids' = [kids EXCEPT ![c] = k] /\ k.proc = how
        /\ k.read = kids[c].read
    BY <1>1, <2>1 DEF Kid
  <2> HIDE DEF k
  <2>3. /\ kids[c].proc \in Living /\ c \notin named' /\ named' \subseteq named
        /\ UNCHANGED <<moduleVars, sidecar, sock, daemon>>
        /\ left' \in Left /\ left'.changes = left.changes
    BY <1>12 DEF Dies, TypeOK, moduleVars, Left
  <2>4. TypeOK'
    BY <1>1, <1>3, <2>2, <2>3, KidStaysTyped DEF TypeOK, moduleVars
  <2>5. Counted'
    BY <1>1, <1>2, <1>4, <2>2, <2>3, OneEnds DEF Living
  <2> QED
    BY <2>4, <2>5
<1> QED
  BY <1>5, <1>6, <1>7, <1>8, <1>9, <1>10, <1>11, <1>12

LEMMA NextIInv == IInv /\ [Next]_vars => IInv'
<1> SUFFICES ASSUME IInv, [Next]_vars PROVE IInv'
  OBVIOUS
<1>1. CASE Next
  BY <1>1, QuietStep, LaunchStep, LetGoStep, SidecarStep DEF Next, ModuleStep, KidStep
<1>2. CASE UNCHANGED vars
  BY <1>2 DEF vars, moduleVars, kidVars, daemonVars, IInv, TypeOK, Counted, Live, NoneWaits
<1> QED
  BY <1>1, <1>2

THEOREM Invariance == Spec => []IInv
  BY InitIInv, NextIInv, PTL DEF Spec

(* Type correctness of the module, its sidecars and the daemon's names.    *)
THEOREM TypeCorrect == Spec => []TypeOK
<1>1. IInv => TypeOK
  BY DEF IInv
<1> QED
  BY <1>1, Invariance, PTL

(* OneSidecar for any number of ids, deaths and daemon restarts, in every  *)
(* order of the starts.                                                    *)
THEOREM OneIsKept == Spec => []OneSidecar
<1>1. IInv => OneSidecar
  BY DEF IInv, Counted, OneSidecar
<1> QED
  BY <1>1, Invariance, PTL
=============================================================================
