--------------------------- MODULE SessionWakeProofs ---------------------------
(***************************************************************************)
(* What a sender is told of a message is so, the deliveries to a session    *)
(* begin in the order asked for, and a stall is woken for once, for any     *)
(* sessions, runs, requests and errors, and however the processes move.     *)
(*                                                                          *)
(* The argument for the first: a delivery's end goes by what its socket     *)
(* took. One that ended as unavailable put nothing in, one that ended as    *)
(* refused is of a message the session refused, and nothing goes in once it *)
(* has ended. A session told not_delivered at once has no delivery at all.  *)
(* The second follows from how a request stands before the next: in line,   *)
(* in the turns of its sessions, begun. The third from what is told of a    *)
(* request whose deliveries have ended, which stays: a wake counts from     *)
(* when it is asked for until it is told not_delivered, and no later.       *)
(***************************************************************************)
EXTENDS SessionWake, SequenceTheorems, FiniteSetTheorems, TLAPS

Stages == {"none", "waiting", "write", "window"} \cup Ended
Fates == {"none", "part", "whole", "taken", "refused", "dropped"}

Typed ==
  /\ req \in Seq(Request)
  /\ stage \in [Deliveries -> Stages] /\ wire \in [Deliveries -> Fates]
  /\ failed = [q \in Ids |-> failed[q]] /\ module \subseteq Sessions
  /\ inTime \subseteq Deliveries

(* Those in line are the last that came.                                   *)
Gone == Len(req) - Len(line)
InLine ==
  /\ line \in Seq(Nat) /\ Len(line) <= Len(req)
  /\ \A i \in 1..Len(line) : line[i] = Gone + i

(* A request has no delivery and is told nothing before it is started.     *)
ToCome(q) == q > Gone
Fresh ==
  \A q \in Ids : ToCome(q) => /\ failed[q] = {}
                              /\ \A r \in Runs : dest[<<q, r>>] = None /\ stage[<<q, r>>] = "none"

FailedApart ==
  \A q \in Ids, s \in Sessions : s \in failed[q] => \A r \in Runs : dest[<<q, r>>] # s

(* The end of a delivery and what went in.                                 *)
EndIsSo ==
  \A d \in Deliveries :
    /\ stage[d] \in {"none", "waiting", "unavailable"} => wire[d] = "none"
    /\ d \in status \cup heard => wire[d] = "refused"
    /\ d \in status => stage[d] \notin Ended
    /\ d \in inTime => d \in heard
    /\ stage[d] = "refused" => d \in heard
    /\ d \in heard => stage[d] # "delivered"

IInv == Typed /\ InLine /\ Fresh /\ FailedApart /\ EndIsSo

-----------------------------------------------------------------------------
LEMMA SetToSeqIsSeq ==
  ASSUME NEW S, IsFiniteSet(S)
  PROVE  /\ SetToSeq(S) \in Seq(S)
         /\ \A i, j \in 1..Len(SetToSeq(S)) : SetToSeq(S)[i] = SetToSeq(S)[j] => i = j
         /\ \A x \in S : \E i \in 1..Len(SetToSeq(S)) : SetToSeq(S)[i] = x
<1> DEFINE n == Cardinality(S)
<1>1. Cardinality(S) \in Nat /\ ExistsBijection(1..Cardinality(S), S)
  BY FS_CardinalityType
<1>2. \E f \in [1..Cardinality(S) -> S] : IsInjective(f)
  BY <1>1 DEF ExistsBijection, Bijection, Injection
<1>3. SetToSeq(S) \in [1..Cardinality(S) -> S] /\ IsInjective(SetToSeq(S))
  BY <1>2 DEF SetToSeq
<1> DEFINE q == SetToSeq(S)
<1>4. q \in Injection(1..n, S)
  BY <1>3 DEF IsInjective, Injection
<1>5. Cardinality(1..n) = n
  BY <1>1, FS_Interval
<1> HIDE DEF q
<1>6. q \in Surjection(1..n, S)
  BY <1>4, <1>5, FS_Injection
<1>7. q \in [1..n -> S] /\ Len(q) = n /\ q \in Seq(S)
  BY <1>1, <1>4 DEF Injection
<1>8. \A i, j \in 1..n : q[i] = q[j] => i = j
  BY <1>4 DEF Injection, IsInjective
<1>9. \A x \in S : \E i \in 1..n : q[i] = x
  BY <1>6 DEF Surjection
<1> QED
  BY <1>7, <1>8, <1>9 DEF q

LEMMA InitIInv == Init => IInv
<1> SUFFICES ASSUME Init PROVE IInv
  OBVIOUS
<1>1. /\ req = <<>> /\ line = <<>> /\ module = Sessions
      /\ dest = [d \in Deliveries |-> None] /\ stage = [d \in Deliveries |-> "none"]
      /\ failed = [q \in Ids |-> {}] /\ wire = [d \in Deliveries |-> "none"]
      /\ heard = {} /\ status = {} /\ inTime = {}
  BY DEF Init, InitPeer
<1>2. Typed
  <2>1. req \in Seq(Request) /\ module \subseteq Sessions
    BY <1>1
  <2>2. stage \in [Deliveries -> Stages] /\ wire \in [Deliveries -> Fates]
    BY <1>1 DEF Stages, Fates
  <2>3. failed = [q \in Ids |-> failed[q]] /\ inTime \subseteq Deliveries
    BY <1>1
  <2> QED
    BY <2>1, <2>2, <2>3 DEF Typed
<1>3. InLine
  BY <1>1 DEF InLine, Gone
<1>4. Fresh
  BY <1>1 DEF Fresh, Deliveries
<1>5. FailedApart
  BY <1>1 DEF FailedApart
<1>6. EndIsSo
  BY <1>1 DEF EndIsSo, Ended
<1> QED
  BY <1>2, <1>3, <1>4, <1>5, <1>6 DEF IInv

(* Requests that come in stand behind the others.                          *)
LEMMA EnterKeeps ==
  ASSUME IInv, NEW asks \in Seq(Request), Enter(asks), UNCHANGED <<worldVars, turnVars, wireVars>>
  PROVE  IInv'
<1> USE DEF IInv
<1> DEFINE more == [i \in DOMAIN asks |-> Len(req) + i]
<1>1. /\ req' \in Seq(Request) /\ Len(req') = Len(req) + Len(asks)
      /\ Len(req) \in Nat /\ Len(asks) \in Nat
  BY ConcatProperties DEF Enter, Typed
<1>2. more \in Seq(Nat) /\ Len(more) = Len(asks) /\ \A i \in 1..Len(asks) : more[i] = Len(req) + i
  BY <1>1
<1>3. line' = line \o more
  BY DEF Enter
<1> HIDE DEF more
<1>4. /\ line' \in Seq(Nat) /\ Len(line') = Len(line) + Len(asks) /\ Len(line) \in Nat
      /\ \A i \in 1..Len(line') : line'[i] = IF i <= Len(line) THEN line[i]
                                             ELSE Len(req) + (i - Len(line))
  <2>1. line \in Seq(Nat)
    BY DEF InLine
  <2>2. /\ line \o more \in Seq(Nat) /\ Len(line \o more) = Len(line) + Len(more)
        /\ \A i \in 1..Len(line) + Len(more) : (line \o more)[i] =
              IF i <= Len(line) THEN line[i] ELSE more[i - Len(line)]
    BY <1>2, <2>1, ConcatProperties
  <2>3. \A i \in 1..Len(line') : ~(i <= Len(line)) => i - Len(line) \in 1..Len(asks)
    BY <1>1, <1>2, <1>3, <2>1, <2>2
  <2> QED
    BY <1>1, <1>2, <1>3, <2>1, <2>2, <2>3
<1>5. InLine' /\ Gone' = Gone
  BY <1>1, <1>4 DEF InLine, Gone
<1>6. \A q \in Ids : ToCome(q)' => ToCome(q)
  BY <1>5 DEF ToCome
<1>7. Fresh'
  BY <1>6 DEF Fresh, turnVars
<1>8. Typed' /\ FailedApart' /\ EndIsSo'
  BY <1>1 DEF Typed, FailedApart, EndIsSo, worldVars, turnVars, wireVars
<1> QED
  BY <1>5, <1>7, <1>8

(* A request that is started leaves the line, and what it is told at once  *)
(* is of sessions it has no delivery to.                                   *)
LEMMA StartKeeps ==
  ASSUME IInv, NEW q \in Ids, Start(q)
  PROVE  IInv'
<1> USE DEF IInv
<1> DEFINE To(s) == IF s \in Recipients(q) \cap module THEN {q} \X SeenRuns(s) ELSE {}
<1>1. /\ line # <<>> /\ q = Head(line) /\ line' = Tail(line)
      /\ dest' = [d \in Deliveries |->
                    IF \E s \in Sessions : d \in To(s) THEN seen[d[2]] ELSE dest[d]]
      /\ stage' = [d \in Deliveries |->
                    IF \E s \in Sessions : d \in To(s) THEN "waiting" ELSE stage[d]]
      /\ failed' = [failed EXCEPT ![q] = FailedAtOnce(q)]
      /\ UNCHANGED <<req, heard, wire, status, inTime, module>>
  BY DEF Start, wireVars, worldVars
<1>2. \A s \in Sessions, d \in Deliveries : d \in To(s) => /\ s \in Recipients(q) \cap module
                               /\ d[1] = q /\ seen[d[2]] = s
  BY DEF SeenRuns
<1> HIDE DEF To
<1>3. /\ line' \in Seq(Nat) /\ Len(line') = Len(line) - 1 /\ Len(line) \in Nat \ {0}
      /\ \A i \in 1..Len(line') : line'[i] = line[i + 1]
      /\ q = line[1]
  BY <1>1, HeadTailProperties DEF InLine
<1>4. InLine' /\ Gone' = Gone + 1 /\ Gone \in Nat /\ q = Gone + 1
  <2>1. Len(line) <= Len(req) /\ Len(req) \in Nat /\ req' = req
    BY <1>1 DEF InLine, Typed
  <2>2. \A i \in 1..Len(line) : line[i] = Gone + i
    BY DEF InLine
  <2>3. Gone \in Nat /\ Gone' = Gone + 1
    BY <1>3, <2>1 DEF Gone
  <2>4. q = Gone + 1
    BY <1>3, <2>2
  <2>5. \A i \in 1..Len(line') : line'[i] = Gone' + i
    BY <1>3, <2>2, <2>3
  <2> QED
    BY <1>3, <2>1, <2>3, <2>4, <2>5 DEF InLine
<1>5. ToCome(q)
  BY <1>4 DEF ToCome
<1>7. \A p \in Ids : ToCome(p)' => ToCome(p) /\ p # q
  BY <1>4, BoundAssumption DEF ToCome, Ids
<1>8. \A p \in Ids, r \in Runs :
        /\ p # q => dest'[<<p, r>>] = dest[<<p, r>>] /\ stage'[<<p, r>>] = stage[<<p, r>>]
        /\ p = q => \/ dest'[<<p, r>>] = None /\ stage'[<<p, r>>] = "none"
                    \/ /\ dest'[<<p, r>>] \in Recipients(q) \cap module
                       /\ stage'[<<p, r>>] = "waiting"
  <2> SUFFICES ASSUME NEW p \in Ids, NEW r \in Runs
               PROVE  /\ p # q => dest'[<<p, r>>] = dest[<<p, r>>] /\ stage'[<<p, r>>] = stage[<<p, r>>]
                      /\ p = q => \/ dest'[<<p, r>>] = None /\ stage'[<<p, r>>] = "none"
                                  \/ /\ dest'[<<p, r>>] \in Recipients(q) \cap module
                                     /\ stage'[<<p, r>>] = "waiting"
    OBVIOUS
  <2> DEFINE to == \E s \in Sessions : <<p, r>> \in To(s)
  <2>1. /\ dest'[<<p, r>>] = IF to THEN seen[r] ELSE dest[<<p, r>>]
        /\ stage'[<<p, r>>] = IF to THEN "waiting" ELSE stage[<<p, r>>]
    BY <1>1 DEF Deliveries
  <2>2. to => p = q /\ seen[r] \in Recipients(q) \cap module
    <3>1. <<p, r>> \in Deliveries
      BY DEF Deliveries
    <3> QED
      BY <1>2, <3>1
  <2>3. p = q => dest[<<p, r>>] = None /\ stage[<<p, r>>] = "none"
    BY <1>5 DEF Fresh
  <2> QED
    BY <2>1, <2>2, <2>3
<1>9. \A p \in Ids : failed'[p] = IF p = q THEN FailedAtOnce(q) ELSE failed[p]
  BY <1>1 DEF Typed
<1>10. Fresh'
  BY <1>7, <1>8, <1>9 DEF Fresh
<1>11. FailedAtOnce(q) \cap (Recipients(q) \cap module) = {}
  BY DEF FailedAtOnce, Recipients
<1>12. FailedApart'
  BY <1>8, <1>9, <1>11, NoneAssumption DEF FailedApart
<1>13. Typed'
  BY <1>1, <1>9 DEF Typed, Stages
<1>14. EndIsSo'
  <2>1. \A d \in Deliveries : stage'[d] = stage[d] \/ (stage[d] = "none" /\ stage'[d] = "waiting")
    BY <1>1, <1>2, <1>5 DEF Fresh, Deliveries
  <2> QED
    BY <1>1, <2>1 DEF EndIsSo, Ended
<1> QED
  BY <1>4, <1>10, <1>12, <1>13, <1>14

(* A step of a delivery under way keeps the line and what was told.        *)
LEMMA DeliveryKeeps ==
  ASSUME IInv, NEW d \in Deliveries, Delivering(d) \/ Bytes(d) \/ Reads(d)
  PROVE  IInv'
<1> USE DEF IInv
<1>1. UNCHANGED <<req, line, dest, failed, module>>
  BY DEF Delivering, NotFound, BeginWrite, NotWritten, Uncertain, Flushed, WindowEnds, StatusComes,
         Bytes, Reads, End, worldVars, lineVars, turnVars
<1>2. InLine' /\ FailedApart'
  BY <1>1 DEF InLine, FailedApart, Gone
<1>3. Typed'
  BY <1>1 DEF Delivering, NotFound, BeginWrite, NotWritten, Uncertain, Flushed, WindowEnds,
         StatusComes, Bytes, Reads, End, turnVars, wireVars, Typed, Stages, Fates, Ended
<1>4. stage[d] = "none" => UNCHANGED stage
  <2>1. stage[d] = "none" => d \notin status
    BY DEF EndIsSo
  <2> QED
    BY <2>1 DEF Delivering, NotFound, BeginWrite, NotWritten, Uncertain, Flushed, WindowEnds,
         StatusComes, Bytes, Reads, End, turnVars
<1>5. \A e \in Deliveries : stage[e] = "none" => stage'[e] = "none"
  BY <1>4 DEF Delivering, NotFound, BeginWrite, NotWritten, Uncertain, Flushed, WindowEnds,
         StatusComes, Bytes, Reads, End, turnVars, Typed
<1>6. Fresh'
  BY <1>1, <1>5 DEF Fresh, ToCome, Gone, Deliveries
<1>7. EndIsSo'
  <2>1. CASE NotFound(d) \/ NotWritten(d) \/ Uncertain(d)
    <3>1. /\ stage' = [stage EXCEPT ![d] = IF Uncertain(d) THEN "unconfirmed" ELSE "unavailable"]
          /\ ~Uncertain(d) => wire[d] = "none"
          /\ status' = status \ {d} /\ UNCHANGED <<heard, wire, inTime>>
      BY <2>1 DEF NotFound, NotWritten, Uncertain, End, EndIsSo
    <3> QED
      BY <3>1 DEF EndIsSo, Typed, Ended
  <2>2. CASE BeginWrite(d) \/ Flushed(d)
    <3>1. /\ stage' = [stage EXCEPT ![d] = IF Flushed(d) THEN "window" ELSE "write"]
          /\ UNCHANGED <<heard, wire, inTime, status>>
      BY <2>2 DEF BeginWrite, Flushed, wireVars
    <3> QED
      BY <3>1 DEF EndIsSo, Typed, Ended
  <2>3. CASE WindowEnds(d)
    <3>1. /\ stage' = [stage EXCEPT ![d] = IF d \in heard THEN "refused" ELSE "delivered"]
          /\ status' = status \ {d} /\ UNCHANGED <<heard, wire, inTime>>
      BY <2>3 DEF WindowEnds, End
    <3> QED
      BY <3>1 DEF EndIsSo, Typed, Ended
  <2>4. CASE StatusComes(d)
    BY <2>4 DEF StatusComes, EndIsSo, Ended
  <2>5. CASE Bytes(d)
    <3>1. /\ stage[d] = "write" /\ wire[d] \in {"none", "part"}
          /\ UNCHANGED <<stage, heard, status, inTime>>
          /\ \A e \in Deliveries : e # d => wire'[e] = wire[e]
      BY <2>5 DEF Bytes, turnVars, Typed
    <3> QED
      BY <3>1 DEF EndIsSo
  <2>6. CASE Reads(d)
    <3>1. /\ wire[d] = "whole" /\ stage[d] \notin Ended
          /\ UNCHANGED <<stage, heard, inTime>>
          /\ \A e \in Deliveries : e # d => wire'[e] = wire[e]
          /\ \/ status' = status
             \/ status' = status \cup {d} /\ wire'[d] = "refused"
      BY <2>6 DEF Reads, turnVars, Typed
    <3> QED
      BY <3>1 DEF EndIsSo, Ended
  <2> QED
    BY <2>1, <2>2, <2>3, <2>4, <2>5, <2>6 DEF Delivering
<1> QED
  BY <1>2, <1>3, <1>6, <1>7

(* A recovery's wakes come in as requests.                                 *)
LEMMA RecoveryEnters ==
  ASSUME IInv, Recovery
  PROVE  \E asks \in Seq(Request) : Enter(asks)
<1> DEFINE D == {s \in Listed : notified[s] # stall[s]}
           due == SetToSeq(D)
           asks == [i \in DOMAIN due |-> WakeFor(due[i])]
<1>1. D \subseteq Sessions
  BY DEF Listed, IInv, Typed
<1>2. IsFiniteSet(D)
  BY <1>1, FS_Subset, FiniteAssumption
<1>3. due \in Seq(Sessions)
  BY <1>1, <1>2, SetToSeqIsSeq
<1>4. Enter(asks)
  BY DEF Recovery
<1> HIDE DEF due
<1>5. \A s \in Sessions : WakeFor(s) \in Request
  BY DEF WakeFor, Request
<1>6. asks \in Seq(Request)
  BY <1>3, <1>5
<1> QED
  BY <1>4, <1>6

LEMMA NextIInv == IInv /\ [Next]_vars => IInv'
<1> SUFFICES ASSUME IInv, [Next]_vars PROVE IInv'
  OBVIOUS
<1>1. ASSUME UNCHANGED <<req, line, dest, stage, failed, wire, status, heard, inTime, module>> PROVE IInv'
  BY <1>1 DEF IInv, Typed, InLine, Fresh, FailedApart, EndIsSo, ToCome, Gone
<1>2. CASE Ask
  <2>1. PICK ask \in Asks : Enter(<<ask>>)
    BY <1>2 DEF Ask
  <2>2. <<ask>> \in Seq(Request)
    BY AsksAssumption
  <2> QED
    BY <1>2, <2>1, <2>2, EnterKeeps DEF Ask
<1>3. CASE \E q \in Ids : ReadRuns(q)
  BY <1>1, <1>3 DEF ReadRuns, worldVars, turnVars, wireVars
<1>4. CASE \E q \in Ids : Start(q)
  BY <1>4, StartKeeps
<1>5. CASE \E d \in Deliveries : Delivering(d) \/ Bytes(d) \/ Reads(d)
  BY <1>5, DeliveryKeeps
<1>6. CASE \E r \in Runs : Moves(r)
  BY <1>1, <1>6 DEF Moves, lineVars, turnVars, wireVars
<1>9. CASE \E s \in Sessions : ModuleMoves(s)
  BY <1>9 DEF ModuleMoves, lineVars, turnVars, wireVars, IInv, Typed, InLine, Fresh, FailedApart,
         EndIsSo, ToCome, Gone
<1>7. CASE \/ \E s \in Sessions : Stops(s) \/ Recovers(s)
           \/ WakeEnds \/ UNCHANGED vars
  BY <1>1, <1>7 DEF Stops, Recovers, WakeEnds, Woken, vars, peerVars, worldVars, lineVars, turnVars, wireVars
<1>8. CASE Recovery
  <2>1. PICK asks \in Seq(Request) : Enter(asks)
    BY <1>8, RecoveryEnters
  <2>2. UNCHANGED <<worldVars, turnVars, wireVars>>
    BY <1>8 DEF Recovery
  <2> QED
    BY <2>1, <2>2, EnterKeeps
<1> QED
  BY <1>2, <1>3, <1>4, <1>5, <1>6, <1>7, <1>8, <1>9 DEF Next, PeerStep

-----------------------------------------------------------------------------
(* What a sender is told follows from how the deliveries ended: one told   *)
(* not_delivered has none, or each ended as unavailable or refused.        *)
LEMMA EndsTruly == IInv => ToldTruly
<1> SUFFICES ASSUME IInv PROVE ToldTruly
  OBVIOUS
<1>1. ASSUME NEW q \in Ids, NEW s \in Sessions, Outcome(q, s) = "not_delivered",
             NEW d \in {q} \X Runs, dest[d] = s
      PROVE  wire[d] \notin {"part", "whole", "taken"}
  <2>1. d \in Deliveries
    BY <1>1 DEF Deliveries
  <2>2. PICK r \in Runs : d = <<q, r>>
    BY <1>1
  <2>3. s \notin failed[q]
    BY <1>1, <2>2 DEF IInv, FailedApart
  <2>4. /\ Ends(q, s) \subseteq Ended
        /\ "delivered" \notin Ends(q, s) /\ "unconfirmed" \notin Ends(q, s)
    BY <1>1, <2>3, NoneAssumption DEF Outcome
  <2>5. stage[d] \in Ends(q, s)
    BY <1>1 DEF Ends
  <2>6. stage[d] \in {"unavailable", "refused"}
    BY <2>4, <2>5 DEF Ended
  <2>7. wire[d] \in {"none", "refused"}
    BY <2>1, <2>6 DEF IInv, EndIsSo
  <2> QED
    BY <2>7
<1>2. \A d \in inTime : d \in Deliveries => stage[d] # "delivered"
  BY DEF IInv, EndIsSo
<1>3. inTime \subseteq Deliveries
  BY DEF IInv, Typed
<1> QED
  BY <1>1, <1>2, <1>3 DEF ToldTruly

(* What the asker is told of its message is so, however the processes move *)
(* and whatever the wakes add to the lines (startSend and sendNotice in    *)
(* send-message.ts, deliver in peer-inject.ts).                            *)
THEOREM Told == Spec => []ToldTruly
<1>1. Init => IInv
  BY InitIInv
<1>2. IInv /\ [Next]_vars => IInv'
  BY NextIInv
<1>3. IInv => ToldTruly
  BY EndsTruly
<1> QED
  BY <1>1, <1>2, <1>3, PTL DEF Spec

-----------------------------------------------------------------------------
(* The order. A session's turns stand in the order of their requests, what *)
(* was begun is of none later than those, and what comes next is of a      *)
(* request still in line, later than both. What is written or in its       *)
(* window stands first.                                                    *)
TurnsTyped ==
  /\ turn \in [Sessions -> Seq(Deliveries)]
  /\ put \in [Sessions -> Seq(Nat)]
  /\ dest \in [Deliveries -> Sessions \cup {None}]

Turns ==
  \A s \in Sessions :
    /\ \A i \in 1..Len(turn[s]) : dest[turn[s][i]] = s
    /\ \A i, j \in 1..Len(turn[s]) : i < j => turn[s][i][1] <= turn[s][j][1]

Begun ==
  \A s \in Sessions :
    /\ \A i \in 1..Len(put[s]) : put[s][i] <= Gone
    /\ \A i, j \in 1..Len(put[s]) : i < j => put[s][i] <= put[s][j]
    /\ \A i \in 1..Len(put[s]), j \in 1..Len(turn[s]) : put[s][i] <= turn[s][j][1]

FirstIsOut ==
  \A d \in Deliveries : stage[d] \in {"write", "window"} =>
    dest[d] # None /\ turn[dest[d]] # <<>> /\ d = turn[dest[d]][1]

(* No delivery is asked for twice, and all but the first of a session wait. *)
Apart ==
  \A s \in Sessions :
    /\ \A i, j \in 1..Len(turn[s]) : turn[s][i] = turn[s][j] => i = j
    /\ \A i \in 2..Len(turn[s]) : stage[turn[s][i]] = "waiting"

Ordered == TurnsTyped /\ Turns /\ Begun /\ FirstIsOut /\ Apart

LEMMA InitOrdered == Init => Ordered
<1> SUFFICES ASSUME Init PROVE Ordered
  OBVIOUS
<1>1. /\ turn = [s \in Sessions |-> <<>>] /\ put = [s \in Sessions |-> <<>>]
      /\ dest = [d \in Deliveries |-> None] /\ stage = [d \in Deliveries |-> "none"]
  BY DEF Init, InitPeer
<1>2. TurnsTyped
  BY <1>1 DEF TurnsTyped
<1>3. Turns /\ Begun
  BY <1>1 DEF Turns, Begun
<1>4. FirstIsOut /\ Apart
  BY <1>1 DEF FirstIsOut, Apart
<1> QED
  BY <1>2, <1>3, <1>4 DEF Ordered

(* The first of a session's leaves its turns: it has ended.                *)
LEMMA LeaveOrdered ==
  ASSUME IInv, Ordered, NEW d \in Deliveries, NEW end \in Ended, InTurn(d), End(d, end)
  PROVE  Ordered'
<1> DEFINE s == dest[d]
<1>1. s \in Sessions
  BY NoneAssumption DEF Ordered, TurnsTyped, InTurn
<1>2. /\ turn' = [turn EXCEPT ![s] = Tail(@)] /\ stage' = [stage EXCEPT ![d] = end]
      /\ UNCHANGED <<dest, put, req, line>>
  BY DEF End, lineVars
<1>3. turn[s] \in Seq(Deliveries) /\ turn[s] # <<>> /\ d = turn[s][1]
  BY <1>1 DEF InTurn, Ordered, TurnsTyped
<1> HIDE DEF s
<1>4. /\ Tail(turn[s]) \in Seq(Deliveries) /\ Len(Tail(turn[s])) = Len(turn[s]) - 1
      /\ Len(turn[s]) \in Nat \ {0}
      /\ \A i \in 1..Len(Tail(turn[s])) : /\ Tail(turn[s])[i] = turn[s][i + 1]
                                          /\ i + 1 \in 1..Len(turn[s])
  BY <1>3, HeadTailProperties
<1>5. turn'[s] = Tail(turn[s]) /\ \A t \in Sessions : t # s => turn'[t] = turn[t]
  BY <1>1, <1>2 DEF Ordered, TurnsTyped
<1>6. TurnsTyped'
  BY <1>1, <1>2, <1>4 DEF Ordered, TurnsTyped
<1>7. Turns'
  <2> SUFFICES ASSUME NEW t \in Sessions
               PROVE  /\ \A i \in 1..Len(turn'[t]) : dest[turn'[t][i]] = t
                      /\ \A i, j \in 1..Len(turn'[t]) : i < j => turn'[t][i][1] <= turn'[t][j][1]
    BY <1>2 DEF Turns
  <2>1. CASE t # s
    BY <1>5, <2>1 DEF Ordered, Turns
  <2>2. CASE t = s
    <3>1. /\ \A i \in 1..Len(turn[s]) : dest[turn[s][i]] = s
          /\ \A i, j \in 1..Len(turn[s]) : i < j => turn[s][i][1] <= turn[s][j][1]
      BY <1>1 DEF Ordered, Turns
    <3>2. \A i \in 1..Len(turn'[s]) : /\ turn'[s][i] = turn[s][i + 1]
                                      /\ i + 1 \in 1..Len(turn[s])
      BY <1>4, <1>5
    <3>3. \A i \in 1..Len(turn'[s]) : dest[turn'[s][i]] = s
      BY <3>1, <3>2
    <3>4. ASSUME NEW i \in 1..Len(turn'[s]), NEW j \in 1..Len(turn'[s]), i < j
          PROVE  turn'[s][i][1] <= turn'[s][j][1]
      <4>1. i + 1 < j + 1
        BY <3>4
      <4> QED
        BY <3>1, <3>2, <4>1
    <3> QED
      BY <2>2, <3>3, <3>4
  <2> QED
    BY <2>1, <2>2
<1>8. Begun'
  <2>1. Gone' = Gone
    BY <1>2 DEF Gone
  <2>2. \A t \in Sessions : \A i \in 1..Len(put[t]), j \in 1..Len(turn'[t]) :
           put[t][i] <= turn'[t][j][1]
    <3> SUFFICES ASSUME NEW t \in Sessions, NEW i \in 1..Len(put[t]), NEW j \in 1..Len(turn'[t])
                 PROVE  put[t][i] <= turn'[t][j][1]
      OBVIOUS
    <3>1. CASE t # s
      BY <1>5, <3>1 DEF Ordered, Begun
    <3>2. CASE t = s
      <4>1. turn'[t][j] = turn[s][j + 1] /\ j + 1 \in 1..Len(turn[s])
        BY <1>4, <1>5, <3>2
      <4> QED
        BY <3>2, <4>1 DEF Ordered, Begun
    <3> QED
      BY <3>1, <3>2
  <2> QED
    BY <1>2, <2>1, <2>2 DEF Ordered, Begun
<1>9. FirstIsOut'
  <2> SUFFICES ASSUME NEW e \in Deliveries, stage'[e] \in {"write", "window"}
               PROVE  dest[e] # None /\ turn'[dest[e]] # <<>> /\ e = turn'[dest[e]][1]
    BY <1>2 DEF FirstIsOut
  <2>1. e # d /\ stage[e] = stage'[e]
    BY <1>2 DEF IInv, Typed, Ended
  <2>2. dest[e] # None /\ turn[dest[e]] # <<>> /\ e = turn[dest[e]][1]
    BY <2>1 DEF Ordered, FirstIsOut
  <2>3. dest[e] # s
    BY <1>3, <2>1, <2>2
  <2> QED
    BY <1>5, <2>2, <2>3 DEF Ordered, TurnsTyped
<1>10. Apart'
  <2> SUFFICES ASSUME NEW t \in Sessions
               PROVE  /\ \A i, j \in 1..Len(turn'[t]) : turn'[t][i] = turn'[t][j] => i = j
                      /\ \A i \in 2..Len(turn'[t]) : stage'[turn'[t][i]] = "waiting"
    BY DEF Apart
  <2>1. /\ \A i, j \in 1..Len(turn[t]) : turn[t][i] = turn[t][j] => i = j
        /\ \A i \in 2..Len(turn[t]) : stage[turn[t][i]] = "waiting"
        /\ \A i \in 1..Len(turn[t]) : dest[turn[t][i]] = t /\ turn[t][i] \in Deliveries
    BY DEF Ordered, Apart, Turns, TurnsTyped
  <2>2. \A e \in Deliveries : e # d => stage'[e] = stage[e]
    BY <1>2 DEF IInv, Typed
  <2>3. CASE t # s
    <3>1. \A i \in 1..Len(turn[t]) : turn[t][i] # d
      BY <2>1, <2>3 DEF s
    <3>2. \A i \in 2..Len(turn[t]) : i \in 1..Len(turn[t])
      OBVIOUS
    <3> QED
      BY <1>5, <2>1, <2>2, <2>3, <3>1, <3>2
  <2>4. CASE t = s
    <3>1. \A i \in 1..Len(turn'[s]) : /\ turn'[s][i] = turn[s][i + 1]
                                      /\ i + 1 \in 1..Len(turn[s]) /\ i + 1 \in 2..Len(turn[s])
      BY <1>4, <1>5
    <3>2. \A i \in 2..Len(turn[s]) : i \in 1..Len(turn[s]) /\ 1 \in 1..Len(turn[s]) /\ i # 1
      OBVIOUS
    <3>3. \A i \in 2..Len(turn[s]) : turn[s][i] # d
      BY <1>3, <2>1, <2>4, <3>2
    <3>4. \A i \in 1..Len(turn'[s]) : stage'[turn'[s][i]] = "waiting"
      BY <2>1, <2>2, <2>4, <3>1, <3>3
    <3>5. \A i, j \in 1..Len(turn'[s]) : turn'[s][i] = turn'[s][j] => i = j
      <4> SUFFICES ASSUME NEW i \in 1..Len(turn'[s]), NEW j \in 1..Len(turn'[s]),
                          turn'[s][i] = turn'[s][j]
                   PROVE  i = j
        OBVIOUS
      <4>1. i + 1 = j + 1
        BY <2>1, <2>4, <3>1
      <4> QED
        BY <4>1
    <3>6. \A i \in 2..Len(turn'[s]) : i \in 1..Len(turn'[s])
      OBVIOUS
    <3> QED
      BY <2>4, <3>4, <3>5, <3>6
  <2> QED
    BY <2>3, <2>4
<1> QED
  BY <1>6, <1>7, <1>8, <1>9, <1>10 DEF Ordered

(* The first of a session's begins its write.                              *)
LEMMA BeginOrdered ==
  ASSUME IInv, Ordered, NEW d \in Deliveries, BeginWrite(d)
  PROVE  Ordered'
<1> DEFINE s == dest[d]
<1>1. s \in Sessions
  BY NoneAssumption DEF Ordered, TurnsTyped, BeginWrite, InTurn
<1>2. /\ put' = [put EXCEPT ![s] = Append(@, d[1])] /\ stage' = [stage EXCEPT ![d] = "write"]
      /\ UNCHANGED <<dest, turn, req, line>>
  BY DEF BeginWrite, lineVars
<1>3. turn[s] \in Seq(Deliveries) /\ turn[s] # <<>> /\ d = turn[s][1] /\ 1 \in 1..Len(turn[s])
  BY <1>1 DEF BeginWrite, InTurn, Ordered, TurnsTyped
<1>4. dest[d] # None
  BY DEF BeginWrite, InTurn
<1> HIDE DEF s
<1>5. d[1] \in Nat /\ d[1] <= Gone
  <2>1. d[1] \in Ids /\ d[2] \in Runs /\ d = <<d[1], d[2]>>
    BY DEF Deliveries
  <2>2. ~ToCome(d[1])
    BY <1>4, <2>1 DEF IInv, Fresh
  <2>3. Gone \in Nat
    BY DEF IInv, InLine, Typed, Gone
  <2> QED
    BY <2>1, <2>2, <2>3, BoundAssumption DEF ToCome, Ids
<1>6. /\ put[s] \in Seq(Nat) /\ Len(put[s]) \in Nat
      /\ Len(put'[s]) = Len(put[s]) + 1 /\ put'[s] \in Seq(Nat)
      /\ \A i \in 1..Len(put'[s]) : put'[s][i] = IF i = Len(put'[s]) THEN d[1] ELSE put[s][i]
      /\ \A t \in Sessions : t # s => put'[t] = put[t]
  BY <1>1, <1>2, <1>5, AppendProperties DEF Ordered, TurnsTyped
<1>7. TurnsTyped' /\ Turns'
  BY <1>2, <1>6 DEF Ordered, TurnsTyped, Turns
<1>8. Begun'
  <2> SUFFICES ASSUME NEW t \in Sessions
               PROVE  /\ \A i \in 1..Len(put'[t]) : put'[t][i] <= Gone
                      /\ \A i, j \in 1..Len(put'[t]) : i < j => put'[t][i] <= put'[t][j]
                      /\ \A i \in 1..Len(put'[t]), j \in 1..Len(turn[t]) : put'[t][i] <= turn[t][j][1]
    BY <1>2 DEF Begun, Gone
  <2>1. CASE t # s
    BY <1>6, <2>1 DEF Ordered, Begun
  <2>2. CASE t = s
    <3>1. \A i \in 1..Len(put[s]) : put[s][i] <= d[1]
      BY <1>1, <1>3 DEF Ordered, Begun
    <3>2. \A j \in 1..Len(turn[s]) : d[1] <= turn[s][j][1]
      <4> SUFFICES ASSUME NEW j \in 1..Len(turn[s]) PROVE d[1] <= turn[s][j][1]
        OBVIOUS
      <4>1. CASE j = 1
        BY <1>3, <1>5, <4>1
      <4>2. CASE j # 1
        <5>1. 1 < j
          BY <1>3, <4>2
        <5> QED
          BY <1>1, <1>3, <5>1 DEF Ordered, Turns
      <4> QED
        BY <4>1, <4>2
    <3>3. \A i \in 1..Len(put'[s]) : i = Len(put'[s]) \/ i \in 1..Len(put[s])
      BY <1>6
    <3>4. \A i \in 1..Len(put[s]) : put[s][i] <= Gone
      BY <1>1 DEF Ordered, Begun
    <3>5. \A i \in 1..Len(put'[s]) : put'[s][i] <= Gone
      BY <1>5, <1>6, <3>3, <3>4
    <3>6. \A i, j \in 1..Len(put'[s]) : i < j => put'[s][i] <= put'[s][j]
      <4> SUFFICES ASSUME NEW i \in 1..Len(put'[s]), NEW j \in 1..Len(put'[s]), i < j
                   PROVE  put'[s][i] <= put'[s][j]
        OBVIOUS
      <4>1. i \in 1..Len(put[s]) /\ put'[s][i] = put[s][i]
        BY <1>6
      <4>2. CASE j = Len(put'[s])
        BY <1>6, <3>1, <4>1, <4>2
      <4>3. CASE j # Len(put'[s])
        BY <1>1, <1>6, <3>3, <4>1, <4>3 DEF Ordered, Begun
      <4> QED
        BY <4>2, <4>3
    <3>7. ASSUME NEW i \in 1..Len(put'[s]), NEW j \in 1..Len(turn[s])
          PROVE  put'[s][i] <= turn[s][j][1]
      <4>1. CASE i = Len(put'[s])
        BY <1>6, <3>2, <4>1
      <4>2. CASE i # Len(put'[s])
        BY <1>1, <1>6, <3>3, <4>2 DEF Ordered, Begun
      <4> QED
        BY <4>1, <4>2
    <3> QED
      BY <2>2, <3>5, <3>6, <3>7
  <2> QED
    BY <2>1, <2>2
<1>9. FirstIsOut'
  BY <1>2, <1>3, <1>4 DEF Ordered, FirstIsOut, IInv, Typed, s
<1>10. Apart'
  <2> SUFFICES ASSUME NEW t \in Sessions, NEW i \in 2..Len(turn[t])
               PROVE  stage'[turn[t][i]] = "waiting"
    BY <1>2 DEF Ordered, Apart
  <2>1. i \in 1..Len(turn[t]) /\ 1 \in 1..Len(turn[t]) /\ i # 1
    OBVIOUS
  <2>2. turn[t][i] # d
    <3>1. dest[turn[t][i]] = t
      BY <2>1 DEF Ordered, Turns
    <3>2. t = s => turn[t][i] # turn[t][1]
      BY <2>1 DEF Ordered, Apart
    <3> QED
      BY <1>3, <3>1, <3>2 DEF s
  <2>3. turn[t][i] \in Deliveries /\ stage[turn[t][i]] = "waiting"
    BY <2>1 DEF Ordered, Apart, TurnsTyped
  <2> QED
    BY <1>2, <2>2, <2>3 DEF IInv, Typed
<1> QED
  BY <1>7, <1>8, <1>9, <1>10 DEF Ordered

(* The deliveries of a request that starts stand behind all others.        *)
LEMMA StartOrdered ==
  ASSUME IInv, Ordered, NEW q \in Ids, Start(q)
  PROVE  Ordered'
<1> DEFINE To(s) == IF s \in Recipients(q) \cap module THEN {q} \X SeenRuns(s) ELSE {}
<1>1. /\ line # <<>> /\ q = Head(line) /\ line' = Tail(line)
      /\ turn' = [s \in Sessions |-> turn[s] \o SetToSeq(To(s))]
      /\ dest' = [d \in Deliveries |->
                    IF \E s \in Sessions : d \in To(s) THEN seen[d[2]] ELSE dest[d]]
      /\ stage' = [d \in Deliveries |->
                    IF \E s \in Sessions : d \in To(s) THEN "waiting" ELSE stage[d]]
      /\ UNCHANGED <<req, put>>
  BY DEF Start, wireVars
<1>2. \A s \in Sessions : To(s) \subseteq {q} \X Runs
  BY DEF SeenRuns
<1>3. \A s \in Sessions : \A d \in To(s) : d \in Deliveries /\ d[1] = q /\ seen[d[2]] = s
  BY DEF SeenRuns, Deliveries
<1> HIDE DEF To
<1>4. \A s \in Sessions :
        /\ SetToSeq(To(s)) \in Seq(To(s))
        /\ \A i, j \in 1..Len(SetToSeq(To(s))) : SetToSeq(To(s))[i] = SetToSeq(To(s))[j] => i = j
  <2>1. IsFiniteSet({q} \X Runs)
    BY FS_Singleton, FS_Product, FiniteAssumption
  <2> QED
    BY <1>2, <2>1, FS_Subset, SetToSeqIsSeq
<1>5. Gone' = Gone + 1 /\ q = Gone + 1 /\ Gone \in Nat
  <2>1. /\ line \in Seq(Nat) /\ Len(line) <= Len(req) /\ Len(req) \in Nat
        /\ \A i \in 1..Len(line) : line[i] = Gone + i
    BY DEF IInv, InLine, Typed
  <2>2. Len(Tail(line)) = Len(line) - 1 /\ Len(line) \in Nat \ {0} /\ Head(line) = line[1]
    BY <1>1, <2>1, HeadTailProperties
  <2> QED
    BY <1>1, <2>1, <2>2 DEF Gone
<1>6. \A s \in Sessions : \A i \in 1..Len(turn[s]) :
        /\ turn[s][i] \in Deliveries /\ turn[s][i][1] \in Nat /\ turn[s][i][1] <= Gone
        /\ dest'[turn[s][i]] = s
  <2> SUFFICES ASSUME NEW s \in Sessions, NEW i \in 1..Len(turn[s])
               PROVE  /\ turn[s][i] \in Deliveries /\ turn[s][i][1] \in Nat
                      /\ turn[s][i][1] <= Gone /\ dest'[turn[s][i]] = s
    OBVIOUS
  <2> DEFINE d == turn[s][i]
  <2>1. d \in Deliveries /\ dest[d] = s
    BY DEF Ordered, TurnsTyped, Turns
  <2> HIDE DEF d
  <2>2. d[1] \in Ids /\ d[2] \in Runs /\ d = <<d[1], d[2]>>
    BY <2>1 DEF Deliveries
  <2>3. ~ToCome(d[1])
    BY <2>1, <2>2, NoneAssumption DEF IInv, Fresh
  <2>4. d[1] \in Nat /\ d[1] <= Gone
    BY <1>5, <2>2, <2>3, BoundAssumption DEF ToCome, Ids
  <2>5. \A t \in Sessions : d \notin To(t)
    BY <1>3, <1>5, <2>4
  <2> QED
    BY <1>1, <2>1, <2>4, <2>5 DEF d
<1>7. \A s \in Sessions :
        /\ turn[s] \in Seq(Deliveries) /\ turn'[s] \in Seq(Deliveries)
        /\ Len(turn[s]) \in Nat /\ Len(turn[s]) <= Len(turn'[s]) /\ Len(turn'[s]) \in Nat
        /\ \A i \in 1..Len(turn'[s]) :
             IF i <= Len(turn[s]) THEN turn'[s][i] = turn[s][i] ELSE turn'[s][i] \in To(s)
        /\ \A i, j \in 1..Len(turn'[s]) :
             ~(i <= Len(turn[s])) /\ ~(j <= Len(turn[s])) /\ turn'[s][i] = turn'[s][j] => i = j
  <2> SUFFICES ASSUME NEW s \in Sessions
               PROVE  /\ turn[s] \in Seq(Deliveries) /\ turn'[s] \in Seq(Deliveries)
                      /\ Len(turn[s]) \in Nat /\ Len(turn[s]) <= Len(turn'[s]) /\ Len(turn'[s]) \in Nat
                      /\ \A i \in 1..Len(turn'[s]) :
                           IF i <= Len(turn[s]) THEN turn'[s][i] = turn[s][i] ELSE turn'[s][i] \in To(s)
                      /\ \A i, j \in 1..Len(turn'[s]) :
                           ~(i <= Len(turn[s])) /\ ~(j <= Len(turn[s])) /\ turn'[s][i] = turn'[s][j]
                             => i = j
    OBVIOUS
  <2> DEFINE new == SetToSeq(To(s))
  <2>1. /\ new \in Seq(To(s)) /\ new \in Seq(Deliveries)
        /\ \A i, j \in 1..Len(new) : new[i] = new[j] => i = j
    BY <1>3, <1>4
  <2>2. turn'[s] = turn[s] \o new
    BY <1>1
  <2> HIDE DEF new
  <2>3. turn[s] \in Seq(Deliveries)
    BY DEF Ordered, TurnsTyped
  <2>4. /\ turn[s] \o new \in Seq(Deliveries) /\ Len(turn[s] \o new) = Len(turn[s]) + Len(new)
        /\ \A i \in 1..Len(turn[s]) + Len(new) : (turn[s] \o new)[i] =
              IF i <= Len(turn[s]) THEN turn[s][i] ELSE new[i - Len(turn[s])]
    BY <2>1, <2>3, ConcatProperties
  <2>5. Len(new) \in Nat /\ Len(turn[s]) \in Nat /\ \A i \in 1..Len(new) : new[i] \in To(s)
    BY <2>1, <2>3
  <2>6. ASSUME NEW i \in 1..Len(turn'[s]), NEW j \in 1..Len(turn'[s]),
               ~(i <= Len(turn[s])), ~(j <= Len(turn[s])), turn'[s][i] = turn'[s][j]
        PROVE  i = j
    <3>1. i - Len(turn[s]) \in 1..Len(new) /\ j - Len(turn[s]) \in 1..Len(new)
      BY <2>2, <2>4, <2>5, <2>6
    <3>2. new[i - Len(turn[s])] = new[j - Len(turn[s])]
      BY <2>2, <2>4, <2>6
    <3>3. i - Len(turn[s]) = j - Len(turn[s])
      BY <2>1, <3>1, <3>2
    <3> QED
      BY <2>5, <3>3
  <2> QED
    BY <2>2, <2>3, <2>4, <2>5, <2>6
<1>8. TurnsTyped'
  <2>1. \A d \in Deliveries : (\E s \in Sessions : d \in To(s)) => seen[d[2]] \in Sessions
    BY <1>3
  <2>2. turn' \in [Sessions -> Seq(Deliveries)]
    BY <1>1, <1>7
  <2>3. dest' \in [Deliveries -> Sessions \cup {None}]
    BY <1>1, <2>1 DEF Ordered, TurnsTyped
  <2> QED
    BY <1>1, <2>2, <2>3 DEF Ordered, TurnsTyped
<1>9. Turns'
  <2> SUFFICES ASSUME NEW s \in Sessions
               PROVE  /\ \A i \in 1..Len(turn'[s]) : dest'[turn'[s][i]] = s
                      /\ \A i, j \in 1..Len(turn'[s]) : i < j => turn'[s][i][1] <= turn'[s][j][1]
    BY DEF Turns
  <2>1. ASSUME NEW i \in 1..Len(turn'[s]) PROVE dest'[turn'[s][i]] = s
    <3>1. CASE i <= Len(turn[s])
      BY <1>6, <1>7, <3>1
    <3>2. CASE ~(i <= Len(turn[s]))
      BY <1>1, <1>3, <1>7, <3>2
    <3> QED
      BY <3>1, <3>2
  <2>2. ASSUME NEW i \in 1..Len(turn'[s]), NEW j \in 1..Len(turn'[s]), i < j
        PROVE  turn'[s][i][1] <= turn'[s][j][1]
    <3>1. CASE j <= Len(turn[s])
      <4>1. i \in 1..Len(turn[s]) /\ j \in 1..Len(turn[s])
        BY <1>7, <2>2, <3>1
      <4> QED
        BY <1>7, <2>2, <3>1, <4>1 DEF Ordered, Turns
    <3>2. CASE i <= Len(turn[s]) /\ ~(j <= Len(turn[s]))
      BY <1>3, <1>5, <1>6, <1>7, <3>2
    <3>3. CASE ~(i <= Len(turn[s]))
      BY <1>3, <1>5, <1>7, <2>2, <3>3
    <3> QED
      BY <1>7, <2>2, <3>1, <3>2, <3>3
  <2> QED
    BY <2>1, <2>2
<1>10. Begun'
  <2> SUFFICES ASSUME NEW s \in Sessions
               PROVE  /\ \A i \in 1..Len(put[s]) : put[s][i] <= Gone'
                      /\ \A i, j \in 1..Len(put[s]) : i < j => put[s][i] <= put[s][j]
                      /\ \A i \in 1..Len(put[s]), j \in 1..Len(turn'[s]) : put[s][i] <= turn'[s][j][1]
    BY <1>1 DEF Begun
  <2>1. \A i \in 1..Len(put[s]) : put[s][i] \in Nat /\ put[s][i] <= Gone
    BY DEF Ordered, TurnsTyped, Begun
  <2>2. ASSUME NEW i \in 1..Len(put[s]), NEW j \in 1..Len(turn'[s])
        PROVE  put[s][i] <= turn'[s][j][1]
    <3>1. CASE j <= Len(turn[s])
      BY <1>7, <3>1 DEF Ordered, Begun
    <3>2. CASE ~(j <= Len(turn[s]))
      BY <1>3, <1>5, <1>7, <2>1, <3>2
    <3> QED
      BY <3>1, <3>2
  <2> QED
    BY <1>5, <2>1, <2>2 DEF Ordered, Begun
<1>11. FirstIsOut'
  <2> SUFFICES ASSUME NEW d \in Deliveries, stage'[d] \in {"write", "window"}
               PROVE  dest'[d] # None /\ turn'[dest'[d]] # <<>> /\ d = turn'[dest'[d]][1]
    BY DEF FirstIsOut
  <2>1. stage[d] = stage'[d] /\ dest'[d] = dest[d]
    BY <1>1
  <2>2. dest[d] # None /\ turn[dest[d]] # <<>> /\ d = turn[dest[d]][1]
    BY <2>1 DEF Ordered, FirstIsOut
  <2>3. dest[d] \in Sessions
    BY <2>2 DEF Ordered, TurnsTyped
  <2>4. 1 <= Len(turn[dest[d]]) /\ 1 \in 1..Len(turn'[dest[d]])
    BY <1>7, <2>2, <2>3
  <2>5. turn'[dest[d]] # <<>> /\ turn'[dest[d]][1] = turn[dest[d]][1]
    BY <1>7, <2>3, <2>4
  <2> QED
    BY <2>1, <2>2, <2>5
<1>12. Apart'
  <2> SUFFICES ASSUME NEW s \in Sessions
               PROVE  /\ \A i, j \in 1..Len(turn'[s]) : turn'[s][i] = turn'[s][j] => i = j
                      /\ \A i \in 2..Len(turn'[s]) : stage'[turn'[s][i]] = "waiting"
    BY DEF Apart
  <2>1. ASSUME NEW i \in 1..Len(turn'[s]), NEW j \in 1..Len(turn'[s]), turn'[s][i] = turn'[s][j]
        PROVE  i = j
    <3>1. CASE i <= Len(turn[s]) /\ j <= Len(turn[s])
      <4>1. i \in 1..Len(turn[s]) /\ j \in 1..Len(turn[s])
        BY <1>7, <3>1
      <4> QED
        BY <1>7, <2>1, <3>1, <4>1 DEF Ordered, Apart
    <3>2. CASE ~(i <= Len(turn[s])) /\ ~(j <= Len(turn[s]))
      BY <1>7, <2>1, <3>2
    <3>3. ASSUME NEW a \in 1..Len(turn'[s]), NEW b \in 1..Len(turn'[s]),
                 a <= Len(turn[s]), ~(b <= Len(turn[s]))
          PROVE  turn'[s][a] # turn'[s][b]
      <4>1. a \in 1..Len(turn[s])
        BY <1>7, <3>3
      <4>2. turn'[s][a][1] \in Nat /\ turn'[s][a][1] <= Gone
        BY <1>6, <1>7, <3>3, <4>1
      <4>3. turn'[s][b][1] = Gone + 1
        BY <1>3, <1>5, <1>7, <3>3
      <4> QED
        BY <1>5, <4>2, <4>3
    <3> QED
      BY <2>1, <3>1, <3>2, <3>3
  <2>2. ASSUME NEW i \in 2..Len(turn'[s])
        PROVE  stage'[turn'[s][i]] = "waiting"
    <3>1. i \in 1..Len(turn'[s])
      BY <1>7
    <3>2. CASE i <= Len(turn[s])
      <4>1. i \in 1..Len(turn[s]) /\ i \in 2..Len(turn[s])
        BY <1>7, <3>2
      <4>2. stage[turn[s][i]] = "waiting" /\ turn[s][i] \in Deliveries
        BY <1>6, <4>1 DEF Ordered, Apart
      <4> QED
        BY <1>1, <1>7, <3>1, <3>2, <4>2
    <3>3. CASE ~(i <= Len(turn[s]))
      BY <1>1, <1>3, <1>7, <3>1, <3>3
    <3> QED
      BY <3>2, <3>3
  <2> QED
    BY <2>1, <2>2
<1> QED
  BY <1>8, <1>9, <1>10, <1>11, <1>12 DEF Ordered

(* What leaves the turns and the stages as they are keeps the order.       *)
LEMMA StillOrdered ==
  ASSUME Ordered, UNCHANGED <<turn, put, dest>>, Gone' = Gone,
         \A d \in Deliveries : /\ stage'[d] \in {"write", "window"} => stage[d] \in {"write", "window"}
                               /\ stage[d] = "waiting" => stage'[d] = "waiting"
  PROVE  Ordered'
<1>1. TurnsTyped' /\ Turns' /\ Begun' /\ FirstIsOut'
  BY DEF Ordered, TurnsTyped, Turns, Begun, FirstIsOut
<1>2. Apart'
  <2>1. \A s \in Sessions : \A i \in 2..Len(turn[s]) : turn[s][i] \in Deliveries
    BY DEF Ordered, TurnsTyped
  <2> QED
    BY <2>1 DEF Ordered, Apart
<1> QED
  BY <1>1, <1>2 DEF Ordered

LEMMA NextOrdered == IInv /\ Ordered /\ [Next]_vars => Ordered'
<1> SUFFICES ASSUME IInv, Ordered, [Next]_vars PROVE Ordered'
  OBVIOUS
<1> DEFINE Entered(asks) == Enter(asks) /\ asks \in Seq(Request) /\ UNCHANGED <<turnVars, wireVars>>
<1>1. ASSUME NEW asks, Entered(asks) PROVE Ordered'
  <2>1. /\ Len(req \o asks) = Len(req) + Len(asks) /\ Len(req) \in Nat /\ Len(asks) \in Nat
    BY <1>1, ConcatProperties DEF IInv, Typed
  <2> DEFINE more == [i \in DOMAIN asks |-> Len(req) + i]
  <2>2. more \in Seq(Nat) /\ Len(more) = Len(asks)
    BY <1>1, <2>1
  <2>3. req' = req \o asks /\ line' = line \o more
    BY <1>1 DEF Enter
  <2> HIDE DEF more
  <2>4. Len(line \o more) = Len(line) + Len(more) /\ Len(line) \in Nat
    <3>1. line \in Seq(Nat)
      BY DEF IInv, InLine
    <3>2. Len(line \o more) = Len(line) + Len(more)
      BY <2>2, <3>1, ConcatProperties, Zenon
    <3> QED
      BY <3>1, <3>2
  <2>5. Gone' = Gone
    BY <2>1, <2>2, <2>3, <2>4 DEF Gone
  <2> QED
    BY <1>1, <2>5, StillOrdered DEF turnVars, wireVars
<1> HIDE DEF Entered
<1>2. CASE Ask
  <2>1. PICK ask \in Asks : Enter(<<ask>>)
    BY <1>2 DEF Ask
  <2>2. Entered(<<ask>>)
    BY <1>2, <2>1, AsksAssumption DEF Ask, Entered
  <2> QED
    BY <1>1, <2>2
<1>3. CASE \E q \in Ids : ReadRuns(q)
  BY <1>3, StillOrdered DEF ReadRuns, turnVars, wireVars, Gone
<1>4. CASE \E q \in Ids : Start(q)
  BY <1>4, StartOrdered
<1>5. CASE \E d \in Deliveries : Delivering(d) \/ Bytes(d) \/ Reads(d)
  <2> PICK d \in Deliveries : Delivering(d) \/ Bytes(d) \/ Reads(d)
    BY <1>5
  <2>1. CASE NotFound(d)
    BY <2>1, LeaveOrdered DEF NotFound, Ended
  <2>2. CASE BeginWrite(d)
    BY <2>2, BeginOrdered
  <2>3. ASSUME stage[d] \in {"write", "window"} PROVE InTurn(d)
    <3>1. dest[d] # None /\ turn[dest[d]] # <<>> /\ d = turn[dest[d]][1]
      BY <2>3 DEF Ordered, FirstIsOut
    <3>2. turn[dest[d]] \in Seq(Deliveries)
      BY <3>1 DEF Ordered, TurnsTyped
    <3> QED
      BY <3>1, <3>2 DEF InTurn
  <2>4. CASE NotWritten(d) \/ Uncertain(d)
    BY <2>3, <2>4, LeaveOrdered DEF NotWritten, Uncertain, Ended
  <2>5. CASE WindowEnds(d)
    BY <2>3, <2>5, LeaveOrdered DEF WindowEnds, Ended
  <2>6. CASE Flushed(d)
    <3>1. /\ stage[d] = "write" /\ stage' = [stage EXCEPT ![d] = "window"]
          /\ UNCHANGED <<turn, put, dest, req, line>>
      BY <2>6 DEF Flushed, lineVars, wireVars
    <3>2. Gone' = Gone
      BY <3>1 DEF Gone
    <3>3. \A e \in Deliveries : /\ stage'[e] \in {"write", "window"} => stage[e] \in {"write", "window"}
                                /\ stage[e] = "waiting" => stage'[e] = "waiting"
      BY <3>1 DEF IInv, Typed
    <3> QED
      BY <3>1, <3>2, <3>3, StillOrdered
  <2>7. CASE StatusComes(d) \/ Bytes(d) \/ Reads(d)
    <3>1. UNCHANGED <<turn, put, dest, stage, req, line>>
      BY <2>7 DEF StatusComes, Bytes, Reads, lineVars, turnVars
    <3> QED
      BY <3>1, StillOrdered DEF Gone
  <2> QED
    BY <2>1, <2>2, <2>4, <2>5, <2>6, <2>7 DEF Delivering
<1>6. CASE \/ \E r \in Runs : Moves(r)
           \/ \E s \in Sessions : ModuleMoves(s) \/ Stops(s) \/ Recovers(s)
           \/ WakeEnds \/ UNCHANGED vars
  <2>1. UNCHANGED <<turn, put, dest, stage, req, line>>
    BY <1>6 DEF Moves, ModuleMoves, Stops, Recovers, WakeEnds, Woken, vars, peerVars, lineVars,
           turnVars, wireVars
  <2> QED
    BY <2>1, StillOrdered DEF Gone
<1>7. CASE Recovery
  <2>1. PICK asks \in Seq(Request) : Enter(asks)
    BY <1>7, RecoveryEnters
  <2>2. Entered(asks)
    BY <1>7, <2>1 DEF Recovery, Entered
  <2> QED
    BY <1>1, <2>2
<1> QED
  BY <1>2, <1>3, <1>4, <1>5, <1>6, <1>7 DEF Next, PeerStep

(* One of a session's deliveries at a time is out, and they begin in the   *)
(* order of the requests: whatever the reads of the runs take, and however *)
(* the deliveries before end.                                              *)
LEMMA OrderedInAskOrder == Ordered => InAskOrder
<1> SUFFICES ASSUME Ordered, NEW s \in Sessions
             PROVE  /\ Cardinality({d \in Deliveries : dest[d] = s /\ stage[d] \in {"write", "window"}}) <= 1
                    /\ \A i, j \in DOMAIN put[s] : i < j => put[s][i] <= put[s][j]
  BY DEF InAskOrder
<1> DEFINE out == {d \in Deliveries : dest[d] = s /\ stage[d] \in {"write", "window"}}
<1>1. out \subseteq {turn[s][1]}
  BY DEF Ordered, FirstIsOut
<1>2. Cardinality(out) <= 1
  <2>1. IsFiniteSet({turn[s][1]}) /\ Cardinality({turn[s][1]}) = 1
    BY FS_Singleton
  <2> HIDE DEF out
  <2> QED
    BY <1>1, <2>1, FS_Subset
<1>3. DOMAIN put[s] = 1..Len(put[s])
  BY DEF Ordered, TurnsTyped
<1> QED
  BY <1>2, <1>3 DEF Ordered, Begun

(* "a message written alongside the one before it could land first"        *)
(* (peer-inject.ts): it never is, with any number of sessions and runs.    *)
THEOREM AskOrder == Spec => []InAskOrder
<1>1. Init => IInv /\ Ordered
  BY InitIInv, InitOrdered
<1>2. (IInv /\ Ordered) /\ [Next]_vars => (IInv /\ Ordered)'
  BY NextIInv, NextOrdered
<1>3. IInv /\ Ordered => InAskOrder
  BY OrderedInAskOrder
<1> QED
  BY <1>1, <1>2, <1>3, PTL DEF Spec

-----------------------------------------------------------------------------
(* The types that neither argument needs.                                  *)
Rest ==
  /\ where \in [Runs -> Sessions \cup {None}] /\ moves \in 0..MaxMoves
  /\ Len(req) <= MaxRequests
  /\ seen \in [Runs -> Sessions \cup {None}] \cup {None}
  /\ heard \subseteq Deliveries /\ status \subseteq Deliveries
  /\ failed \in [Ids -> SUBSET Sessions]
  /\ put \in [Sessions -> Seq(Ids)]

WakesTyped ==
  /\ stall \in [Sessions -> 0..MaxStalls] /\ stalls \in [Sessions -> 0..MaxStalls]
  /\ notified \in [Sessions -> 0..MaxStalls]
  /\ ended \subseteq wakes /\ wakes \subseteq Ids \X (1..MaxStalls)
  /\ unlisted \subseteq Sessions
  /\ \A s \in Sessions : stall[s] \in {0, stalls[s]} /\ notified[s] <= stalls[s]

(* A request in line has come, and those that have come have a number.     *)
LEMMA LineIsIn ==
  ASSUME IInv, line # <<>>
  PROVE  Head(line) \in 1..Len(req) /\ Head(line) = Gone + 1 /\ req[Head(line)] \in Request
<1>1. /\ line \in Seq(Nat) /\ Len(line) <= Len(req) /\ Len(req) \in Nat /\ req \in Seq(Request)
      /\ \A i \in 1..Len(line) : line[i] = Gone + i
  BY DEF IInv, InLine, Typed
<1>2. Len(line) \in Nat \ {0} /\ Head(line) = line[1] /\ 1 \in 1..Len(line)
  BY <1>1
<1>3. Head(line) = Gone + 1 /\ Head(line) \in 1..Len(req)
  BY <1>1, <1>2 DEF Gone
<1> QED
  BY <1>1, <1>3

LEMMA RestKept ==
  ASSUME IInv, Ordered, Rest, PeerStep
  PROVE  Rest'
<1> USE DEF Rest
<1>1. CASE Ask
  <2>1. PICK ask \in Asks : Enter(<<ask>>)
    BY <1>1 DEF Ask
  <2>2. Len(req') = Len(req) + 1 /\ Len(req) + 1 <= MaxRequests
    <3>1. req \in Seq(Request) /\ <<ask>> \in Seq(Request) /\ Len(<<ask>>) = 1
      BY AsksAssumption DEF IInv, Typed
    <3>2. Len(req \o <<ask>>) = Len(req) + Len(<<ask>>)
      BY <3>1, ConcatProperties, Zenon
    <3> QED
      BY <2>1, <3>1, <3>2 DEF Enter
  <2> QED
    BY <1>1, <2>2 DEF Ask, worldVars, turnVars, wireVars
<1>2. CASE \E q \in Ids : ReadRuns(q)
  <2>1. seen' \in LiveRuns
    BY <1>2 DEF ReadRuns
  <2>2. seen' \in [Runs -> Sessions \cup {None}]
    BY <2>1 DEF LiveRuns
  <2> QED
    BY <1>2, <2>2 DEF ReadRuns, worldVars, turnVars, wireVars
<1>3. CASE \E q \in Ids : Start(q)
  <2> PICK q \in Ids : Start(q)
    BY <1>3
  <2>1. req[q] \in Request
    BY LineIsIn DEF Start
  <2>2. FailedAtOnce(q) \subseteq Sessions
    <3>1. req[q].to \subseteq Sessions
      BY <2>1 DEF Request
    <3>2. Matched(q) \subseteq Sessions /\ Recipients(q) \subseteq Sessions
      BY <3>1 DEF Matched, Recipients
    <3> QED
      BY <3>1, <3>2 DEF FailedAtOnce
  <2>3. failed' \in [Ids -> SUBSET Sessions]
    BY <2>2 DEF Start
  <2> QED
    BY <2>3 DEF Start, worldVars, wireVars
<1>4. CASE \E d \in Deliveries : Delivering(d) \/ Bytes(d) \/ Reads(d)
  <2> PICK d \in Deliveries : Delivering(d) \/ Bytes(d) \/ Reads(d)
    BY <1>4
  <2>1. UNCHANGED <<where, moves, req, seen, failed>>
    BY DEF Delivering, NotFound, BeginWrite, NotWritten, Uncertain, Flushed, WindowEnds, StatusComes,
           Bytes, Reads, End, worldVars, lineVars, turnVars
  <2>2. heard' \subseteq Deliveries /\ status' \subseteq Deliveries
    BY DEF Delivering, NotFound, BeginWrite, NotWritten, Uncertain, Flushed, WindowEnds, StatusComes,
           Bytes, Reads, End, turnVars, wireVars
  <2>3. put' \in [Sessions -> Seq(Ids)]
    <3>1. CASE BeginWrite(d)
      <4>1. dest[d] \in Sessions /\ d[1] \in Ids
        BY <3>1 DEF BeginWrite, InTurn, Ordered, TurnsTyped, Deliveries
      <4>2. put[dest[d]] \in Seq(Ids)
        BY <4>1
      <4>3. Append(put[dest[d]], d[1]) \in Seq(Ids)
        BY <4>1, <4>2
      <4> QED
        BY <3>1, <4>1, <4>3 DEF BeginWrite
    <3>2. CASE ~BeginWrite(d)
      <4>1. UNCHANGED put
        BY <3>2 DEF Delivering, NotFound, NotWritten, Uncertain, Flushed, WindowEnds, StatusComes,
               Bytes, Reads, End, wireVars
      <4> QED
        BY <4>1
    <3> QED
      BY <3>1, <3>2
  <2> QED
    BY <2>1, <2>2, <2>3
<1>5. CASE \E r \in Runs : Moves(r)
  <2>1. moves' \in 0..MaxMoves
    BY <1>5, BoundAssumption DEF Moves
  <2>2. where' \in [Runs -> Sessions \cup {None}]
    BY <1>5 DEF Moves
  <2> QED
    BY <1>5, <2>1, <2>2 DEF Moves, lineVars, turnVars, wireVars
<1>6. CASE \E s \in Sessions : ModuleMoves(s)
  <2>1. moves' \in 0..MaxMoves
    BY <1>6, BoundAssumption DEF ModuleMoves
  <2> QED
    BY <1>6, <2>1 DEF ModuleMoves, lineVars, turnVars, wireVars
<1> QED
  BY <1>1, <1>2, <1>3, <1>4, <1>5, <1>6 DEF PeerStep

-----------------------------------------------------------------------------
(* The wakes. A wake is of one session, for an error it has met.           *)
WakesAre ==
  \A w \in wakes : /\ w[1] \in 1..Len(req)
                   /\ \E s \in Sessions : req[w[1]].to = {s} /\ w[2] <= stalls[s]

(* A request whose deliveries have ended: what is told of it stays.        *)
Settled(q) ==
  /\ ~ToCome(q)
  /\ \A r \in Runs : dest[<<q, r>>] # None => stage[<<q, r>>] \in Ended
EndedAreSettled == \A w \in ended : Settled(w[1])

(* Of the wakes for a stall that may reach the session there is one, when  *)
(* the stall is counted; and of a session that stayed in the list no more, *)
(* and of its last stall none while it is not counted.                     *)
Counted ==
  \A s \in Sessions :
    /\ notified[s] # 0 => Reaching(s, notified[s]) # {}
    /\ s \notin unlisted =>
         /\ \A n \in 1..MaxStalls : \A v, w \in Reaching(s, n) : v = w
         /\ \A n \in 1..MaxStalls : n = stalls[s] /\ Reaching(s, n) # {} => notified[s] = n

WakesInv == Rest /\ WakesTyped /\ WakesAre /\ EndedAreSettled /\ Counted

LEMMA OfIs ==
  ASSUME WakesAre, NEW w \in wakes
  PROVE  Of(w) \in Sessions /\ req[w[1]].to = {Of(w)} /\ w[2] <= stalls[Of(w)]
<1>1. PICK s \in Sessions : req[w[1]].to = {s} /\ w[2] <= stalls[s]
  BY DEF WakesAre
<1>2. Of(w) \in Sessions /\ req[w[1]].to = {Of(w)}
  BY <1>1 DEF Of
<1>3. Of(w) = s
  BY <1>1, <1>2
<1> QED
  BY <1>1, <1>2, <1>3

(* The request of a wake stays as it came.                                 *)
LEMMA OfStays ==
  ASSUME WakesAre, NEW w \in wakes, req'[w[1]] = req[w[1]]
  PROVE  Of(w)' = Of(w)
  BY DEF Of

LEMMA InitWakes == Init => WakesInv
<1> SUFFICES ASSUME Init PROVE WakesInv
  OBVIOUS
<1>1. Rest
  BY ServesAssumption, BoundAssumption DEF Init, InitPeer, Rest
<1>2. WakesTyped /\ WakesAre /\ EndedAreSettled /\ Counted
  BY WakeAssumption DEF Init, WakesTyped, WakesAre, EndedAreSettled, Counted, Reaching
<1> QED
  BY <1>1, <1>2 DEF WakesInv

(* What a settled request is told stays as it is, whatever happens.        *)
LEMMA OutcomeStays ==
  ASSUME IInv, PeerStep, NEW q \in Ids, Settled(q)
  PROVE  Settled(q)' /\ \A s \in Sessions : Outcome(q, s)' = Outcome(q, s)
<1>1. /\ failed'[q] = failed[q] /\ Gone' >= Gone
      /\ \A r \in Runs : /\ dest'[<<q, r>>] = dest[<<q, r>>]
                         /\ dest[<<q, r>>] # None => stage'[<<q, r>>] = stage[<<q, r>>]
  <2>0. Gone \in Nat /\ \A r \in Runs : <<q, r>> \in Deliveries
    BY DEF IInv, InLine, Typed, Gone, Deliveries
  <2>1. CASE Ask
    <3>1. PICK ask \in Asks : Enter(<<ask>>)
      BY <2>1 DEF Ask
    <3>2. Len(req \o <<ask>>) = Len(req) + 1 /\ req' = req \o <<ask>> /\ Len(req) \in Nat
      <4>1. req \in Seq(Request) /\ <<ask>> \in Seq(Request) /\ Len(<<ask>>) = 1
        BY AsksAssumption DEF IInv, Typed
      <4>2. Len(req \o <<ask>>) = Len(req) + Len(<<ask>>)
        BY <4>1, ConcatProperties, Zenon
      <4> QED
        BY <3>1, <4>1, <4>2 DEF Enter
    <3> DEFINE more == [i \in DOMAIN <<ask>> |-> Len(req) + i]
    <3>3. more \in Seq(Nat) /\ Len(more) = 1 /\ line' = line \o more
      BY <3>1, <3>2 DEF Enter
    <3> HIDE DEF more
    <3>4. line \in Seq(Nat) /\ Len(line) \in Nat
      BY DEF IInv, InLine
    <3>5. Len(line \o more) = Len(line) + Len(more)
      BY <3>3, <3>4, ConcatProperties, Zenon
    <3>6. Gone' = Gone
      BY <3>2, <3>3, <3>4, <3>5 DEF Gone
    <3> QED
      BY <2>0, <2>1, <3>6 DEF Ask, turnVars
  <2>2. CASE \E p \in Ids : ReadRuns(p)
    BY <2>0, <2>2 DEF ReadRuns, turnVars, Gone
  <2>3. CASE \E p \in Ids : Start(p)
    <3> PICK p \in Ids : Start(p)
      BY <2>3
    <3>1. p = Gone + 1 /\ p # q
      BY <2>0, LineIsIn, BoundAssumption DEF Start, Settled, ToCome, Ids
    <3>2. Gone' = Gone + 1
      <4>1. Len(Tail(line)) = Len(line) - 1 /\ Len(line) \in Nat /\ Len(req) \in Nat
        BY HeadTailProperties DEF Start, IInv, InLine, Typed
      <4> QED
        BY <4>1 DEF Start, Gone
    <3> DEFINE To(s) == IF s \in Recipients(p) \cap module THEN {p} \X SeenRuns(s) ELSE {}
    <3>3. /\ dest' = [d \in Deliveries |->
                       IF \E s \in Sessions : d \in To(s) THEN seen[d[2]] ELSE dest[d]]
          /\ stage' = [d \in Deliveries |->
                       IF \E s \in Sessions : d \in To(s) THEN "waiting" ELSE stage[d]]
          /\ failed' = [failed EXCEPT ![p] = FailedAtOnce(p)]
      BY DEF Start
    <3>4. \A s \in Sessions, r \in Runs : <<q, r>> \notin To(s)
      BY <3>1
    <3> HIDE DEF To
    <3>5. failed'[q] = failed[q]
      BY <3>1, <3>3 DEF IInv, Typed
    <3> QED
      BY <2>0, <3>2, <3>3, <3>4, <3>5
  <2>4. CASE \E d \in Deliveries : Delivering(d) \/ Bytes(d) \/ Reads(d)
    <3> PICK d \in Deliveries : Delivering(d) \/ Bytes(d) \/ Reads(d)
      BY <2>4
    <3>1. UNCHANGED <<req, line, dest, failed>>
      BY DEF Delivering, NotFound, BeginWrite, NotWritten, Uncertain, Flushed, WindowEnds, StatusComes,
             Bytes, Reads, End, lineVars, turnVars
    <3>2. \A e \in Deliveries : stage[e] \in Ended => stage'[e] = stage[e]
      BY DEF Delivering, NotFound, BeginWrite, NotWritten, Uncertain, Flushed, WindowEnds, StatusComes,
             Bytes, Reads, End, turnVars, IInv, Typed, Ended
    <3> QED
      BY <2>0, <3>1, <3>2 DEF Gone, Settled
  <2>5. CASE \/ \E r \in Runs : Moves(r)
             \/ \E s \in Sessions : ModuleMoves(s)
    BY <2>0, <2>5 DEF Moves, ModuleMoves, lineVars, turnVars, Gone
  <2> QED
    BY <2>1, <2>2, <2>3, <2>4, <2>5 DEF PeerStep
<1>2. Settled(q)'
  <2>1. Gone \in Int /\ Gone' \in Int
    BY <1>1, NextIInv DEF IInv, InLine, Typed, Gone, Next
  <2>2. ~(q > Gone')
    BY <1>1, <2>1, BoundAssumption DEF Settled, ToCome, Ids
  <2> QED
    BY <1>1, <2>2 DEF Settled, ToCome
<1>3. ASSUME NEW s \in Sessions PROVE Outcome(q, s)' = Outcome(q, s)
  <2>1. Ends(q, s)' = Ends(q, s)
    <3>1. {e \in {q} \X Runs : dest'[e] = s} = {e \in {q} \X Runs : dest[e] = s}
      BY <1>1
    <3>2. \A e \in {q} \X Runs : dest[e] = s => stage'[e] = stage[e]
      BY <1>1, NoneAssumption
    <3> QED
      BY <3>1, <3>2 DEF Ends
  <2> QED
    BY <1>1, <2>1 DEF Outcome
<1> QED
  BY <1>2, <1>3

(* The wakes that may reach a session are the same when the requests only  *)
(* grow and what is told of the wakes that ended stays.                    *)
LEMMA ReachingStays ==
  ASSUME WakesAre, UNCHANGED <<wakes, ended>>,
         \A i \in 1..Len(req) : req'[i] = req[i],
         \A w \in ended, s \in Sessions : Outcome(w[1], s)' = Outcome(w[1], s)
  PROVE  \A s \in Sessions, n \in 0..MaxStalls : Reaching(s, n)' = Reaching(s, n)
<1>1. \A w \in wakes : Of(w)' = Of(w)
  BY OfStays DEF WakesAre
<1> QED
  BY <1>1 DEF Reaching

LEMMA CountedStays ==
  ASSUME Counted, UNCHANGED <<notified, stalls, unlisted>>, WakesTyped,
         \A s \in Sessions, n \in 0..MaxStalls : Reaching(s, n)' = Reaching(s, n)
  PROVE  Counted'
<1>1. \A s \in Sessions : notified[s] \in 0..MaxStalls
  BY DEF WakesTyped
<1>2. \A n \in 1..MaxStalls : n \in 0..MaxStalls
  OBVIOUS
<1> QED
  BY <1>1, <1>2 DEF Counted

(* The requests that have come stay as they are.                           *)
LEMMA ReqGrows ==
  ASSUME IInv, PeerStep
  PROVE  \A i \in 1..Len(req) : i \in 1..Len(req') /\ req'[i] = req[i]
<1>0. req \in Seq(Request) /\ Len(req) \in Nat
  BY DEF IInv, Typed
<1>1. CASE Ask
  <2>1. PICK ask \in Asks : Enter(<<ask>>)
    BY <1>1 DEF Ask
  <2>2. req' = Append(req, ask) /\ ask \in Request
    BY <1>0, <2>1, AsksAssumption DEF Enter
  <2> QED
    BY <1>0, <2>2, AppendProperties
<1>2. CASE ~Ask
  <2>1. UNCHANGED req
    BY <1>2 DEF PeerStep, ReadRuns, Start, Delivering, NotFound, BeginWrite, NotWritten, Uncertain,
           Flushed, WindowEnds, StatusComes, Bytes, Reads, End, Moves, ModuleMoves, lineVars
  <2> QED
    BY <2>1
<1> QED
  BY <1>1, <1>2

LEMMA PeerWakes ==
  ASSUME IInv, Ordered, WakesInv, PeerStep, UNCHANGED wakeVars
  PROVE  WakesInv'
<1> USE DEF WakesInv
<1>1. UNCHANGED <<stall, stalls, notified, wakes, ended, unlisted>>
  BY DEF wakeVars
<1>2. \A w \in ended : w \in wakes /\ w[1] \in Ids
  BY DEF WakesTyped
<1>3. \A w \in ended : Settled(w[1])' /\ \A s \in Sessions : Outcome(w[1], s)' = Outcome(w[1], s)
  BY <1>2, OutcomeStays DEF EndedAreSettled
<1>4. Rest' /\ WakesTyped' /\ EndedAreSettled'
  BY <1>1, <1>3, RestKept DEF WakesTyped, EndedAreSettled
<1>5. WakesAre'
  BY <1>1, ReqGrows DEF WakesAre
<1>6. Counted'
  BY <1>1, <1>3, ReqGrows, ReachingStays, CountedStays
<1> QED
  BY <1>4, <1>5, <1>6

(* A new error has no wake yet.                                            *)
LEMMA StallWakes ==
  ASSUME WakesInv, NEW s \in Sessions, Stops(s) \/ Recovers(s)
  PROVE  WakesInv'
<1> USE DEF WakesInv
<1>1. UNCHANGED <<peerVars, notified, wakes, ended, unlisted>>
  BY DEF Stops, Recovers
<1>2. /\ stalls' = [stalls EXCEPT ![s] = IF Stops(s) THEN @ + 1 ELSE @]
      /\ stall' = [stall EXCEPT ![s] = IF Stops(s) THEN stalls'[s] ELSE 0]
      /\ Stops(s) => stalls[s] < MaxStalls
  BY DEF Stops, Recovers, WakesTyped
<1>3. Rest' /\ EndedAreSettled'
  BY <1>1 DEF peerVars, worldVars, lineVars, turnVars, wireVars, Rest, EndedAreSettled, Settled,
         ToCome, Gone
<1>4. \A t \in Sessions : stalls'[t] \in 0..MaxStalls /\ stalls'[t] >= stalls[t]
  BY <1>2, WakeAssumption DEF WakesTyped
<1>5. WakesTyped'
  <2>1. \A t \in Sessions : stall'[t] \in {0, stalls'[t]}
    BY <1>2 DEF WakesTyped
  <2>2. \A t \in Sessions : stall'[t] \in 0..MaxStalls
    BY <1>4, <2>1, WakeAssumption
  <2>3. \A t \in Sessions : notified[t] <= stalls'[t]
    BY <1>4, WakeAssumption DEF WakesTyped
  <2>4. stall' \in [Sessions -> 0..MaxStalls] /\ stalls' \in [Sessions -> 0..MaxStalls]
    BY <1>2, <1>4, <2>2 DEF WakesTyped
  <2> QED
    BY <1>1, <2>1, <2>3, <2>4 DEF WakesTyped
<1>6. WakesAre'
  <2>1. \A w \in wakes : w[2] \in 1..MaxStalls
    BY DEF WakesTyped
  <2>2. \A w \in wakes, t \in Sessions : w[2] <= stalls[t] => w[2] <= stalls'[t]
    BY <1>4, <2>1, WakeAssumption DEF WakesTyped
  <2> QED
    BY <1>1, <2>2 DEF WakesAre, peerVars, lineVars
<1>7. \A t \in Sessions, n \in 0..MaxStalls : Reaching(t, n)' = Reaching(t, n)
  <2>1. req' = req /\ \A w \in ended, t \in Sessions : Outcome(w[1], t)' = Outcome(w[1], t)
    BY <1>1 DEF peerVars, lineVars, turnVars, Outcome, Ends
  <2> QED
    BY <1>1, <2>1, ReachingStays
<1>8. Counted'
  <2> SUFFICES ASSUME NEW t \in Sessions
               PROVE  /\ notified[t] # 0 => Reaching(t, notified[t])' # {}
                      /\ t \notin unlisted =>
                           /\ \A n \in 1..MaxStalls : \A v, w \in Reaching(t, n)' : v = w
                           /\ \A n \in 1..MaxStalls :
                                n = stalls'[t] /\ Reaching(t, n)' # {} => notified[t] = n
    BY <1>1 DEF Counted
  <2>1. notified[t] \in 0..MaxStalls
    BY DEF WakesTyped
  <2>2. \A n \in 1..MaxStalls : n \in 0..MaxStalls
    OBVIOUS
  <2>3. ASSUME t \notin unlisted, NEW n \in 1..MaxStalls, n = stalls'[t], Reaching(t, n) # {}
        PROVE  notified[t] = n
    <3>1. PICK w \in wakes : Of(w) = t /\ w[2] = n
      BY <2>3 DEF Reaching
    <3>2. n <= stalls[t]
      BY <3>1, OfIs
    <3>3. stalls[t] \in 0..MaxStalls
      BY DEF WakesTyped
    <3>4. n = stalls[t]
      BY <1>4, <2>3, <3>2, <3>3, WakeAssumption
    <3> QED
      BY <2>3, <3>4 DEF Counted
  <2>4. notified[t] # 0 => Reaching(t, notified[t])' # {}
    <3>1. Reaching(t, notified[t])' = Reaching(t, notified[t])
      BY <1>1, <1>7, <2>1
    <3> QED
      BY <3>1 DEF Counted
  <2>5. \A n \in 1..MaxStalls : Reaching(t, n)' = Reaching(t, n)
    BY <1>7, <2>2
  <2>6. t \notin unlisted => \A n \in 1..MaxStalls : \A v, w \in Reaching(t, n)' : v = w
    BY <2>5 DEF Counted
  <2>7. t \notin unlisted => \A n \in 1..MaxStalls :
                                n = stalls'[t] /\ Reaching(t, n)' # {} => notified[t] = n
    BY <2>3, <2>5
  <2> QED
    BY <2>4, <2>6, <2>7
<1> QED
  BY <1>3, <1>5, <1>6, <1>8

(* The outcome of a wake: one that did not arrive no longer counts, unless *)
(* a newer stall is counted.                                               *)
LEMMA WokenWakes ==
  ASSUME IInv, WakesInv, NEW w \in wakes, Woken(w)
  PROVE  WakesInv'
<1> USE DEF WakesInv
<1> DEFINE s == Of(w)
           missed == Outcome(w[1], s) = "not_delivered" /\ notified[s] = w[2]
<1>1. /\ UNCHANGED <<peerVars, stall, stalls, wakes, unlisted>>
      /\ w \notin ended /\ Answered(w[1]) /\ ended' = ended \cup {w}
      /\ notified' = IF missed THEN [notified EXCEPT ![s] = 0] ELSE notified
  BY DEF Woken
<1>2. s \in Sessions /\ w[2] \in 1..MaxStalls /\ w[1] \in Ids
  BY OfIs DEF WakesTyped
<1> HIDE DEF s, missed
<1>3. Rest' /\ WakesAre'
  BY <1>1 DEF peerVars, worldVars, lineVars, turnVars, wireVars, Rest, WakesAre
<1>4. \A t \in Sessions : notified'[t] = IF missed /\ t = s THEN 0 ELSE notified[t]
  BY <1>1, <1>2 DEF WakesTyped
<1>5. WakesTyped'
  <2>1. notified' \in [Sessions -> 0..MaxStalls]
    BY <1>1, <1>2, WakeAssumption DEF WakesTyped
  <2>2. \A t \in Sessions : notified'[t] <= stalls[t]
    BY <1>4, WakeAssumption DEF WakesTyped
  <2> QED
    BY <1>1, <2>1, <2>2 DEF WakesTyped
<1>6. EndedAreSettled'
  <2>1. ~ToCome(w[1])
    <3>1. w[1] \in 1..Len(req) /\ ~\E i \in 1..Len(line) : line[i] = w[1]
      <4>1. DOMAIN req = 1..Len(req) /\ DOMAIN line = 1..Len(line)
        BY DEF IInv, Typed, InLine
      <4> QED
        BY <1>1, <4>1 DEF Answered, Started, ToSet
    <3>2. /\ Len(req) \in Nat /\ Len(line) \in Nat /\ Len(line) <= Len(req)
          /\ \A i \in 1..Len(line) : line[i] = Gone + i
      BY DEF IInv, Typed, InLine
    <3>3. w[1] > Gone => w[1] - Gone \in 1..Len(line) /\ line[w[1] - Gone] = w[1]
      BY <3>1, <3>2 DEF Gone
    <3>4. ~(w[1] > Gone)
      BY <3>1, <3>3
    <3> QED
      BY <3>4 DEF ToCome
  <2>2. Settled(w[1])
    BY <1>1, <2>1 DEF Answered, Settled
  <2> QED
    BY <1>1, <2>2 DEF EndedAreSettled, Settled, ToCome, Gone, peerVars, lineVars, turnVars
<1>7. \A t \in Sessions, n \in 1..MaxStalls :
        /\ \A v \in wakes : v # w => (v \in Reaching(t, n)' <=> v \in Reaching(t, n))
        /\ w \in Reaching(t, n)' <=> t = s /\ n = w[2] /\ Outcome(w[1], s) # "not_delivered"
        /\ w \in Reaching(t, n) <=> t = s /\ n = w[2]
        /\ Reaching(t, n) \subseteq wakes /\ Reaching(t, n)' \subseteq wakes
  <2>1. /\ \A v \in wakes : Of(v)' = Of(v)
        /\ \A v \in wakes, t \in Sessions : Outcome(v[1], t)' = Outcome(v[1], t)
    BY <1>1 DEF peerVars, lineVars, turnVars, Of, Outcome, Ends
  <2> QED
    BY <1>1, <2>1 DEF Reaching, s
<1>8. ASSUME NEW t \in Sessions
      PROVE  /\ notified'[t] # 0 => Reaching(t, notified[t])' # {}
             /\ t \notin unlisted =>
                  /\ \A n \in 1..MaxStalls : \A v, x \in Reaching(t, n)' : v = x
                  /\ \A n \in 1..MaxStalls : n = stalls[t] /\ Reaching(t, n)' # {} => notified'[t] = n
  <2>0. \A n \in 1..MaxStalls : Reaching(t, n)' \subseteq Reaching(t, n)
    BY <1>7
  <2>1. ASSUME notified'[t] # 0 PROVE Reaching(t, notified[t])' # {}
    <3>1. notified'[t] = notified[t] /\ notified[t] \in 1..MaxStalls /\ ~(missed /\ t = s)
      BY <1>4, <2>1, WakeAssumption DEF WakesTyped
    <3>2. PICK v \in Reaching(t, notified[t]) : TRUE
      BY <3>1 DEF Counted
    <3> DEFINE n == notified[t]
    <3>3. PICK m \in 1..MaxStalls : m = n
      BY <3>1
    <3>4. v \in Reaching(t, m)'
      BY <1>7, <3>1, <3>2, <3>3 DEF missed
    <3>5. m = n'
      BY <3>1, <3>3
    <3> QED
      BY <3>4, <3>5 DEF Reaching
  <2>2. ASSUME t \notin unlisted, NEW n \in 1..MaxStalls, n = stalls[t], Reaching(t, n)' # {}
        PROVE  notified'[t] = n
    <3>1. notified[t] = n
      BY <2>0, <2>2 DEF Counted
    <3>2. ~(missed /\ t = s)
      <4> SUFFICES ASSUME missed, t = s PROVE FALSE
        OBVIOUS
      <4>1. w \in Reaching(t, n) /\ w \notin Reaching(t, n)'
        BY <1>7, <3>1 DEF missed
      <4> QED
        BY <2>0, <2>2, <4>1 DEF Counted
    <3> QED
      BY <1>4, <3>1, <3>2
  <2> QED
    BY <2>0, <2>1, <2>2 DEF Counted
<1>9. stalls' = stalls /\ unlisted' = unlisted
  BY <1>1
<1>10. Counted'
  BY <1>8, <1>9 DEF Counted
<1> QED
  BY <1>3, <1>5, <1>6, <1>10

(* A recovery's wakes, one for each stall that is due.                     *)
Due == {s \in Listed : notified[s] # stall[s]}

LEMMA DueAre ==
  ASSUME IInv
  PROVE  LET due == SetToSeq(Due)
         IN  /\ Due \subseteq Sessions
             /\ due \in Seq(Sessions) /\ [i \in DOMAIN due |-> WakeFor(due[i])] \in Seq(Request)
             /\ \A i \in 1..Len(due) : due[i] \in Due
             /\ \A i, j \in 1..Len(due) : due[i] = due[j] => i = j
             /\ \A s \in Due : \E i \in 1..Len(due) : due[i] = s
<1>1. Due \subseteq Sessions
  BY DEF Due, Listed, IInv, Typed
<1>2. IsFiniteSet(Due)
  BY <1>1, FS_Subset, FiniteAssumption
<1> DEFINE due == SetToSeq(Due)
<1>3. /\ due \in Seq(Due) /\ due \in Seq(Sessions)
      /\ \A i, j \in 1..Len(due) : due[i] = due[j] => i = j
      /\ \A s \in Due : \E i \in 1..Len(due) : due[i] = s
  BY <1>1, <1>2, SetToSeqIsSeq
<1> HIDE DEF due
<1>4. \A i \in 1..Len(due) : due[i] \in Due
  BY <1>3
<1>5. \A s \in Sessions : WakeFor(s) \in Request
  BY DEF WakeFor, Request
<1>6. [i \in DOMAIN due |-> WakeFor(due[i])] \in Seq(Request)
  BY <1>3, <1>5
<1> QED
  BY <1>1, <1>3, <1>4, <1>6 DEF due

LEMMA RecoveryWakes ==
  ASSUME IInv, WakesInv, Recovery
  PROVE  WakesInv'
<1> USE DEF WakesInv
<1> DEFINE due == SetToSeq(Due)
           asks == [i \in DOMAIN due |-> WakeFor(due[i])]
           new(i) == <<Len(req) + i, stall[due[i]]>>
<1>1. /\ Due \subseteq Sessions /\ due \in Seq(Sessions) /\ asks \in Seq(Request)
      /\ \A i \in 1..Len(due) : due[i] \in Due
      /\ \A i, j \in 1..Len(due) : due[i] = due[j] => i = j
      /\ \A s \in Due : \E i \in 1..Len(due) : due[i] = s
  BY DueAre
<1>2. /\ Enter(asks)
      /\ notified' = [s \in Sessions |-> IF s \in Listed THEN stall[s] ELSE 0]
      /\ unlisted' = unlisted \cup {s \in Sessions \ Listed : notified[s] # 0}
      /\ wakes' = wakes \cup {new(i) : i \in DOMAIN due}
      /\ UNCHANGED <<worldVars, seen, turnVars, wireVars, stall, stalls, ended>>
  BY DEF Recovery, Due
<1> HIDE DEF due
<1>3. /\ DOMAIN due = 1..Len(due) /\ Len(due) \in Nat /\ Len(asks) = Len(due)
      /\ \A i \in 1..Len(due) : asks[i] = WakeFor(due[i])
  BY <1>1
<1> HIDE DEF asks
<1>4. /\ Len(req) \in Nat /\ Len(req') = Len(req) + Len(due) /\ Len(req') <= MaxRequests
      /\ \A i \in 1..Len(req) : i \in 1..Len(req') /\ req'[i] = req[i]
      /\ \A i \in 1..Len(due) : /\ Len(req) + i \in 1..Len(req')
                                /\ req'[Len(req) + i] = WakeFor(due[i])
  <2>1. req \in Seq(Request) /\ Len(req) \in Nat /\ req' = req \o asks
        /\ Len(req) + Len(asks) <= MaxRequests
    BY <1>2 DEF Enter, IInv, Typed
  <2>2. /\ Len(req \o asks) = Len(req) + Len(asks)
        /\ \A i \in 1..Len(req) + Len(asks) :
             (req \o asks)[i] = IF i <= Len(req) THEN req[i] ELSE asks[i - Len(req)]
    BY <1>1, <2>1, ConcatProperties
  <2>3. \A i \in 1..Len(due) : Len(req) + i \in 1..Len(req) + Len(due) /\ ~(Len(req) + i <= Len(req))
                               /\ (Len(req) + i) - Len(req) = i
    BY <1>3, <2>1
  <2>4. \A i \in 1..Len(due) : req'[Len(req) + i] = asks[i]
    BY <1>3, <2>1, <2>2, <2>3
  <2> QED
    BY <1>3, <2>1, <2>2, <2>3, <2>4
<1>5. \A s \in Listed : s \in Sessions /\ stall[s] \in 1..MaxStalls /\ stall[s] = stalls[s]
  BY WakeAssumption DEF Listed, WakesTyped, IInv, Typed
<1>6. \A i \in 1..Len(due) : /\ new(i)[1] = Len(req) + i /\ new(i)[2] = stall[due[i]]
                             /\ new(i) \in Ids \X (1..MaxStalls)
                             /\ due[i] \in Sessions /\ due[i] \in Listed
                             /\ notified[due[i]] # stall[due[i]]
  BY <1>1, <1>4, <1>5, BoundAssumption DEF Due, Ids
<1>7. \A w \in wakes : w[1] \in 1..Len(req) /\ w[2] \in 1..MaxStalls
  BY DEF WakesAre, WakesTyped
<1> DEFINE news == {new(i) : i \in DOMAIN due}
<1>8. \A w \in news : \E i \in 1..Len(due) : w = new(i)
  BY <1>3
<1>9. \A i \in 1..Len(due) : new(i) \in news /\ new(i) \notin wakes
  BY <1>3, <1>4, <1>6, <1>7
<1>10. wakes' = wakes \cup news
  BY <1>2
<1> HIDE DEF new, news
<1>11. Rest'
  BY <1>2, <1>4 DEF Rest, worldVars, turnVars, wireVars
<1>12. WakesTyped'
  <2>1. notified' \in [Sessions -> 0..MaxStalls]
    BY <1>2, <1>5, WakeAssumption
  <2>2. \A s \in Sessions : notified'[s] <= stalls[s]
    BY <1>2, <1>5, WakeAssumption DEF WakesTyped
  <2>3. wakes' \subseteq Ids \X (1..MaxStalls) /\ ended' \subseteq wakes'
    BY <1>2, <1>6, <1>8, <1>10 DEF WakesTyped
  <2> QED
    BY <1>2, <2>1, <2>2, <2>3 DEF WakesTyped
<1>13. WakesAre'
  <2>1. ASSUME NEW w \in wakes
        PROVE  w[1] \in 1..Len(req') /\ \E s \in Sessions : req'[w[1]].to = {s} /\ w[2] <= stalls[s]
    BY <1>4, <1>7 DEF WakesAre
  <2>2. ASSUME NEW i \in 1..Len(due)
        PROVE  /\ new(i)[1] \in 1..Len(req')
               /\ req'[new(i)[1]].to = {due[i]} /\ new(i)[2] <= stalls[due[i]]
    <3>0. new(i)[1] = Len(req) + i /\ req'[Len(req) + i] = WakeFor(due[i])
      BY <1>4, <1>6
    <3>1. req'[new(i)[1]].to = {due[i]}
      BY <3>0 DEF WakeFor
    <3>2. new(i)[2] = stalls[due[i]] /\ new(i)[2] \in Int
      BY <1>5, <1>6
    <3> QED
      BY <1>4, <1>6, <3>1, <3>2
  <2>3. ASSUME NEW w \in wakes'
        PROVE  w[1] \in 1..Len(req') /\ \E s \in Sessions : req'[w[1]].to = {s} /\ w[2] <= stalls[s]
    <3>1. CASE w \in wakes
      BY <2>1, <3>1
    <3>2. CASE w \in news
      <4>1. PICK i \in 1..Len(due) : w = new(i)
        BY <1>8, <3>2
      <4> QED
        BY <1>6, <2>2, <4>1
    <3> QED
      BY <1>10, <3>1, <3>2
  <2>4. stalls' = stalls
    BY <1>2
  <2> QED
    BY <2>3, <2>4 DEF WakesAre
<1>14. EndedAreSettled'
  <2>1. Gone' = Gone
    <3>1. line \in Seq(Nat) /\ Len(line) \in Nat
      BY DEF IInv, InLine
    <3> DEFINE more == [i \in DOMAIN asks |-> Len(req) + i]
    <3>2. more \in Seq(Nat) /\ Len(more) = Len(due) /\ line' = line \o more
      BY <1>1, <1>2, <1>3, <1>4 DEF Enter
    <3> HIDE DEF more
    <3>3. Len(line \o more) = Len(line) + Len(more)
      BY <3>1, <3>2, ConcatProperties, Zenon
    <3> QED
      BY <1>3, <1>4, <3>1, <3>2, <3>3 DEF Gone
  <2> QED
    BY <1>2, <2>1 DEF EndedAreSettled, Settled, ToCome, turnVars
<1>15. \A w \in wakes : Of(w)' = Of(w)
  BY <1>4, <1>7, OfStays
<1>16. ASSUME NEW w, NEW i \in 1..Len(due), w = new(i)
       PROVE  Of(w)' = due[i]
  <2>1. w[1] = Len(req) + i
    BY <1>6, <1>16
  <2>2. req'[w[1]] = WakeFor(due[i])
    BY <1>4, <2>1
  <2>4. req'[w[1]].to = {due[i]}
    BY <2>2 DEF WakeFor
  <2>3. due[i] \in Sessions
    BY <1>6
  <2> QED
    BY <2>3, <2>4 DEF Of
<1>17. \A w, s : Outcome(w[1], s)' = Outcome(w[1], s)
  BY <1>2 DEF Outcome, Ends, turnVars
<1>18. \A s \in Sessions, n \in 0..MaxStalls :
         /\ \A w \in wakes : w \in Reaching(s, n)' <=> w \in Reaching(s, n)
         /\ \A i \in 1..Len(due) : new(i) \in Reaching(s, n)' <=> due[i] = s /\ stall[s] = n
         /\ Reaching(s, n) \subseteq wakes /\ Reaching(s, n)' \subseteq wakes \cup news
  <2> SUFFICES ASSUME NEW s \in Sessions, NEW n \in 0..MaxStalls
               PROVE  /\ \A w \in wakes : w \in Reaching(s, n)' <=> w \in Reaching(s, n)
                      /\ \A i \in 1..Len(due) : new(i) \in Reaching(s, n)' <=> due[i] = s /\ stall[s] = n
                      /\ Reaching(s, n) \subseteq wakes /\ Reaching(s, n)' \subseteq wakes \cup news
    OBVIOUS
  <2>1. \A w \in wakes : w \in Reaching(s, n)' <=> w \in Reaching(s, n)
    BY <1>2, <1>10, <1>15, <1>17 DEF Reaching
  <2>2. ASSUME NEW i \in 1..Len(due), NEW w, w = new(i)
        PROVE  w \in Reaching(s, n)' <=> due[i] = s /\ stall[s] = n
    <3>1. w \in wakes' /\ w \notin ended'
      BY <1>2, <1>9, <1>10, <2>2 DEF WakesTyped
    <3>2. Of(w)' = due[i] /\ w[2] = stall[due[i]]
      BY <1>6, <1>16, <2>2
    <3> QED
      BY <3>1, <3>2 DEF Reaching
  <2> QED
    BY <1>10, <2>1, <2>2 DEF Reaching
<1>19. ASSUME NEW s \in Sessions
       PROVE  /\ notified'[s] # 0 => Reaching(s, notified[s])' # {}
              /\ s \notin unlisted' =>
                   /\ \A n \in 1..MaxStalls : \A v, w \in Reaching(s, n)' : v = w
                   /\ \A n \in 1..MaxStalls : n = stalls[s] /\ Reaching(s, n)' # {} => notified'[s] = n
  <2>0. \A n \in 1..MaxStalls : n \in 0..MaxStalls /\ n # 0
    OBVIOUS
  <2>1. ASSUME notified'[s] # 0 PROVE Reaching(s, notified[s])' # {}
    <3>1. s \in Listed /\ notified'[s] = stall[s] /\ stall[s] \in 0..MaxStalls
      BY <1>2, <1>5, <2>1 DEF WakesTyped
    <3>2. PICK n \in 0..MaxStalls : n = stall[s]
      BY <3>1
    <3>3. Reaching(s, n)' # {}
      <4>1. CASE s \in Due
        BY <1>1, <1>18, <3>2, <4>1
      <4>2. CASE s \notin Due
        <5>1. notified[s] = n /\ n # 0
          BY <1>5, <3>1, <3>2, <4>2 DEF Due
        <5> QED
          BY <1>18, <5>1 DEF Counted
      <4> QED
        BY <4>1, <4>2
    <3>4. n = notified'[s]
      BY <3>1, <3>2
    <3> QED
      BY <3>3, <3>4 DEF Reaching
  <2>2. ASSUME s \notin unlisted', NEW n \in 1..MaxStalls,
               NEW v \in Reaching(s, n)', NEW w \in Reaching(s, n)'
        PROVE  v = w
    <3>0. /\ v \in wakes \/ \E i \in 1..Len(due) : v = new(i)
          /\ w \in wakes \/ \E i \in 1..Len(due) : w = new(i)
          /\ s \notin unlisted
      BY <1>2, <1>8, <1>18, <2>0, <2>2
    <3>1. ASSUME NEW x \in Reaching(s, n), NEW i \in 1..Len(due), new(i) \in Reaching(s, n)'
          PROVE  FALSE
      <4>1. due[i] = s /\ stall[s] = n
        BY <1>18, <2>0, <3>1
      <4>2. n = stalls[s] /\ notified[s] # n
        BY <1>5, <1>6, <4>1
      <4> QED
        BY <3>0, <3>1, <4>2 DEF Counted
    <3>2. CASE v \in wakes /\ w \in wakes
      BY <1>18, <2>0, <2>2, <3>0, <3>2 DEF Counted
    <3>3. CASE v \notin wakes /\ w \notin wakes
      <4>1. PICK i \in 1..Len(due), j \in 1..Len(due) : v = new(i) /\ w = new(j)
        BY <3>0, <3>3
      <4>2. i = j
        BY <1>1, <1>18, <2>0, <2>2, <4>1
      <4> QED
        BY <4>1, <4>2
    <3>4. CASE ~(v \in wakes <=> w \in wakes)
      BY <1>18, <2>0, <2>2, <3>0, <3>1, <3>4
    <3> QED
      BY <3>2, <3>3, <3>4
  <2>3. ASSUME s \notin unlisted', NEW n \in 1..MaxStalls, n = stalls[s], Reaching(s, n)' # {}
        PROVE  notified'[s] = n
    <3>1. PICK w \in Reaching(s, n)' : TRUE
      BY <2>3
    <3>2. CASE w \in wakes
      <4>1. notified[s] = n
        BY <1>2, <1>18, <2>0, <2>3, <3>1, <3>2 DEF Counted
      <4>2. s \in Listed
        BY <1>2, <2>0, <2>3, <4>1
      <4> QED
        BY <1>2, <1>5, <2>3, <4>2
    <3>3. CASE w \notin wakes
      <4>1. PICK i \in 1..Len(due) : w = new(i)
        BY <1>8, <1>18, <2>0, <3>1, <3>3
      <4>2. due[i] = s /\ stall[s] = n
        BY <1>18, <2>0, <3>1, <4>1
      <4> QED
        BY <1>2, <1>6, <4>2
    <3> QED
      BY <3>2, <3>3
  <2> QED
    BY <2>1, <2>2, <2>3
<1>20. Counted'
  <2>1. stalls' = stalls
    BY <1>2
  <2> QED
    BY <1>19, <2>1 DEF Counted
<1> QED
  BY <1>11, <1>12, <1>13, <1>14, <1>20

LEMMA NextWakes == IInv /\ Ordered /\ WakesInv /\ [Next]_vars => WakesInv'
<1> SUFFICES ASSUME IInv, Ordered, WakesInv, [Next]_vars PROVE WakesInv'
  OBVIOUS
<1>1. CASE PeerStep /\ UNCHANGED wakeVars
  BY <1>1, PeerWakes
<1>2. CASE \E s \in Sessions : Stops(s) \/ Recovers(s)
  BY <1>2, StallWakes
<1>3. CASE Recovery
  BY <1>3, RecoveryWakes
<1>4. CASE WakeEnds
  BY <1>4, WokenWakes DEF WakeEnds
<1>5. CASE UNCHANGED vars
  <2>1. /\ UNCHANGED <<peerVars, wakeVars>>
        /\ UNCHANGED <<stall, stalls, notified, wakes, ended, unlisted>>
    BY <1>5 DEF vars, wakeVars
  <2>2. Rest' /\ WakesTyped' /\ WakesAre' /\ EndedAreSettled'
    BY <2>1 DEF WakesInv, peerVars, worldVars, lineVars, turnVars, wireVars, Rest, WakesTyped,
           WakesAre, EndedAreSettled, Settled, ToCome, Gone
  <2>3. req' = req /\ \A w \in ended, t \in Sessions : Outcome(w[1], t)' = Outcome(w[1], t)
    BY <2>1 DEF peerVars, lineVars, turnVars, Outcome, Ends
  <2>4. Counted'
    BY <2>1, <2>3, ReachingStays, CountedStays DEF WakesInv
  <2> QED
    BY <2>2, <2>4 DEF WakesInv
<1> QED
  BY <1>1, <1>2, <1>3, <1>4, <1>5 DEF Next

LEMMA Invariance == Spec => [](IInv /\ Ordered /\ WakesInv)
<1>1. Init => IInv /\ Ordered /\ WakesInv
  BY InitIInv, InitOrdered, InitWakes
<1>2. (IInv /\ Ordered /\ WakesInv) /\ [Next]_vars => (IInv /\ Ordered /\ WakesInv)'
  BY NextIInv, NextOrdered, NextWakes
<1> QED
  BY <1>1, <1>2, PTL DEF Spec

(* The line is the end of the requests in the order they came.             *)
LEMMA LineIsSuffix ==
  ASSUME IInv
  PROVE  IsSuffix(line, [q \in DOMAIN req |-> q])
<1> DEFINE all == [q \in DOMAIN req |-> q]
           n == Len(req)
           k == Len(line)
<1>1. /\ req \in Seq(Request) /\ line \in Seq(Nat) /\ n \in Nat /\ k \in Nat /\ k <= n
      /\ \A i \in 1..k : line[i] = Gone + i
  BY DEF IInv, Typed, InLine
<1>2. all \in Seq(Nat) /\ Len(all) = n /\ \A i \in 1..n : all[i] = i
  BY <1>1
<1> HIDE DEF all, n, k
<1>3. /\ Reverse(all) = [i \in 1..n |-> all[(n - i) + 1]]
      /\ Reverse(line) = [i \in 1..k |-> line[(k - i) + 1]]
  BY <1>2 DEF Reverse, k
<1>4. Len(Reverse(all)) = n /\ Len(Reverse(line)) = k
  BY <1>1, <1>3
<1>5. \A i \in 1..k : /\ (n - i) + 1 \in 1..n /\ (k - i) + 1 \in 1..k /\ i \in 1..n
                      /\ Gone + ((k - i) + 1) = (n - i) + 1
  BY <1>1 DEF Gone, n, k
<1>6. \A i \in 1..k : Reverse(line)[i] = Reverse(all)[i]
  BY <1>1, <1>2, <1>3, <1>5
<1>7. SubSeq(Reverse(line), 1, k) = SubSeq(Reverse(all), 1, k)
  <2> DEFINE rl == Reverse(line)
             ra == Reverse(all)
             one == 1
  <2>1. rl \in Seq(Nat) /\ ra \in Seq(Nat) /\ Len(rl) = k /\ Len(ra) = n
    <3>1. \A i \in 1..k : line[(k - i) + 1] \in Nat
      BY <1>1, <1>5 DEF k
    <3>2. \A i \in 1..n : (n - i) + 1 \in 1..n
      BY <1>1
    <3>3. \A i \in 1..n : all[(n - i) + 1] \in Nat
      BY <1>2, <3>2
    <3> QED
      BY <1>1, <1>3, <1>4, <3>1, <3>3
  <2>2. \A i \in 1..k : rl[i] = ra[i]
    BY <1>6
  <2>3. one = 1
    OBVIOUS
  <2> HIDE DEF rl, ra, one
  <2>4. \A i \in one..k : rl[i] \in Nat /\ ra[i] \in Nat
    BY <1>1, <2>1, <2>3
  <2>5. /\ SubSeq(rl, one, k) \in Seq(Nat) /\ Len(SubSeq(rl, one, k)) = k
        /\ \A i \in 1..k : SubSeq(rl, one, k)[i] = rl[i]
    BY <1>1, <2>3, <2>4, SubSeqProperties
  <2>6. /\ SubSeq(ra, one, k) \in Seq(Nat) /\ Len(SubSeq(ra, one, k)) = k
        /\ \A i \in 1..k : SubSeq(ra, one, k)[i] = ra[i]
    BY <1>1, <2>3, <2>4, SubSeqProperties
  <2>7. SubSeq(rl, one, k) = SubSeq(ra, one, k)
    BY <2>2, <2>5, <2>6, SeqEqual
  <2> QED
    BY <2>3, <2>7 DEF rl, ra
<1> QED
  BY <1>1, <1>4, <1>7 DEF IsSuffix, IsPrefix, all

LEMMA InvTyped == IInv /\ Ordered /\ WakesInv => WakeTypeOK
<1> SUFFICES ASSUME IInv, Ordered, WakesInv PROVE WakeTypeOK
  OBVIOUS
<1>1. line \in Seq(Ids)
  <2>1. /\ line \in Seq(Nat) /\ Len(line) \in Nat /\ Len(line) <= Len(req) /\ Len(req) \in Nat
        /\ \A i \in 1..Len(line) : line[i] = Gone + i
    BY DEF IInv, Typed, InLine
  <2>2. Len(req) <= MaxRequests
    BY DEF WakesInv, Rest
  <2>3. \A i \in 1..Len(line) : line[i] \in Ids
    BY <2>1, <2>2, BoundAssumption DEF Gone, Ids
  <2> QED
    BY <2>1, <2>3
<1>2. TypeOK
  <2>1. where \in [Runs -> Sessions \cup {None}] /\ module \subseteq Sessions /\ moves \in 0..MaxMoves
    BY DEF IInv, Typed, WakesInv, Rest
  <2>2. /\ req \in Seq(Request) /\ Len(req) <= MaxRequests
        /\ seen \in [Runs -> Sessions \cup {None}] \cup {None}
    BY DEF IInv, Typed, WakesInv, Rest
  <2>3. /\ turn \in [Sessions -> Seq(Deliveries)]
        /\ \A s \in Sessions : \A i \in 2..Len(turn[s]) : stage[turn[s][i]] = "waiting"
        /\ dest \in [Deliveries -> Sessions \cup {None}]
    BY DEF Ordered, TurnsTyped, Apart
  <2>4. /\ stage \in [Deliveries -> {"none", "waiting", "write", "window"} \cup Ended]
        /\ wire \in [Deliveries -> {"none", "part", "whole", "taken", "refused", "dropped"}]
    BY DEF IInv, Typed, Stages, Fates
  <2>5. /\ heard \subseteq Deliveries /\ status \subseteq Deliveries /\ inTime \subseteq Deliveries
        /\ failed \in [Ids -> SUBSET Sessions] /\ put \in [Sessions -> Seq(Ids)]
    BY DEF IInv, Typed, WakesInv, Rest
  <2> QED
    BY <1>1, <2>1, <2>2, <2>3, <2>4, <2>5, LineIsSuffix DEF TypeOK
<1>3. \A s \in Sessions : stall[s] <= stalls[s] /\ notified[s] <= stalls[s]
  BY WakeAssumption DEF WakesInv, WakesTyped
<1> QED
  BY <1>2, <1>3 DEF WakeTypeOK, WakesInv, WakesTyped

(* The state keeps its shape: the line holds the requests that came last,  *)
(* in their order, and all but the first delivery of a session wait.       *)
THEOREM TypeCorrect == Spec => []WakeTypeOK
  BY Invariance, InvTyped, PTL

LEMMA WakesAreOnce == WakesInv => OneWakePerStall
<1> SUFFICES ASSUME WakesInv, NEW s \in Sessions
             PROVE  /\ notified[s] # 0 => Reaching(s, notified[s]) # {}
                    /\ s \notin unlisted => \A n \in 1..MaxStalls : Cardinality(Reaching(s, n)) <= 1
  BY DEF OneWakePerStall
<1>1. ASSUME s \notin unlisted, NEW n \in 1..MaxStalls
      PROVE  Cardinality(Reaching(s, n)) <= 1
  <2> DEFINE R == Reaching(s, n)
  <2>1. \A v, w \in R : v = w
    BY <1>1 DEF WakesInv, Counted
  <2> HIDE DEF R
  <2>2. CASE R = {}
    BY <2>2, FS_EmptySet DEF R
  <2>3. CASE R # {}
    <3>1. PICK w : R = {w}
      BY <2>1, <2>3
    <3>2. Cardinality({w}) = 1
      BY FS_Singleton
    <3> QED
      BY <3>1, <3>2 DEF R
  <2> QED
    BY <2>2, <2>3
<1> QED
  BY <1>1 DEF WakesInv, Counted

(* "Poke every session that is stopped on an API error, once per stall"    *)
(* (wakeStalledSessions): a stall that is counted has a wake that reached  *)
(* its session or may yet, and none has two that may while its session     *)
(* stays in the list, for any sessions and however the outcomes come late. *)
THEOREM WokenOnce == Spec => []OneWakePerStall
  BY Invariance, WakesAreOnce, PTL
=============================================================================
