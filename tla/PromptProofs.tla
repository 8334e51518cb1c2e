------------------------------ MODULE PromptProofs ------------------------------
(***************************************************************************)
(* What PromptSend and RequestOverride promise of a prompt, proved for      *)
(* every value of their constants: the answers of prompt.send are true and *)
(* the person's text is kept; a one-shot override is one turn's only.      *)
(*                                                                          *)
(* PromptSend. Base says whose a request is: queued, current or answered,  *)
(* under the ids of its time, with at most one key pressed for it. The     *)
(* rest counts texts. Accepted: a request that is accepted, or waits to be *)
(* answered so, has put its text in once more (TakenAreIn). Not delivered: *)
(* the copies of a text in the composer, in drafts, on the way and in are  *)
(* no more than the requests that put it there and have not taken it out   *)
(* again (Enough). Kept: a draft is in one pair of hands, no fill meets a  *)
(* composer with what is not in them (InOrder), and each piece of the      *)
(* person's is in one of the places it can be put back from (AllSafe).     *)
(*                                                                          *)
(* RequestOverride. A one-shot that no request carried yet is unbound; its *)
(* first request binds it to the turn that runs, and it does not outlive   *)
(* that turn (BoundBy, UnboundYet). A prompt that comes meanwhile brings a *)
(* one-shot of its own, which nothing has carried; one that comes while a  *)
(* request waits for its hooks goes with that request unbound, and is      *)
(* bound by the next.                                                      *)
(***************************************************************************)
EXTENDS PromptSend, RequestOverride, FiniteSetTheorems, TLAPS

(* What is asked of a request once: a queued one is stamped, unanswered     *)
(* and not the current one.                                                *)
Asked ==
  /\ \A i \in 1..Len(queue) : /\ stamp[queue[i]] # None /\ answer[queue[i]] = None
                              /\ queue[i] # cur
  /\ \A i, j \in 1..Len(queue) : queue[i] = queue[j] => i = j
  /\ cur # None => stamp[cur] # None /\ answer[cur] = None
  /\ \A r \in Requests : stamp[r] = None => answer[r] = None

(* No request is of a generation to come; and as long as no sidecar was    *)
(* bound to an old id, a request of this generation that is under way is   *)
(* for the session as it is.                                               *)
Lives ==
  /\ moving = "ended" => realSid < MaxMoves
  /\ \A r \in Requests : stamp[r] # None => stamp[r].generation <= generation
  /\ "rebound" \notin raced =>
       /\ modSid \in {None, realSid}
       /\ moving = "ended" => modSid = None
       /\ cur # None /\ stamp[cur].generation = generation =>
            modSid = realSid /\ stamp[cur].sid = realSid

(* From its Enter to the end of its wait a request is awaited or accepted, *)
(* unless the session moved.                                               *)
Waits ==
  /\ awaiting => /\ pc \in {"enter", "wait"} /\ ~accepted
                 /\ restoring = [req |-> cur, draft |-> draft]
  /\ accepted => pc \in {"enter", "wait"} /\ ~awaiting /\ restoring = None
  /\ pc \in {"enter", "wait"} /\ stamp[cur].generation = generation =>
       awaiting \/ accepted

Answered == {r \in Requests : answer[r] # None}

(* One key a request at most.                                              *)
Pressed == IF pc \in {"wait", "backRead", "backFill", "backCheck"} THEN 1 ELSE 0
Keys == keys <= Cardinality(Answered) + Pressed

FewPutBacks == IsFiniteSet(putBacks)

Base == TypeOK /\ Asked /\ Lives /\ Waits /\ Keys /\ FewPutBacks

-----------------------------------------------------------------------------
(* Sequences of pieces.                                                    *)

LEMMA ToSetAppend ==
  ASSUME NEW S, NEW s \in Seq(S), NEW x
  PROVE  ToSet(Append(s, x)) = ToSet(s) \cup {x}
  BY DEF ToSet

LEMMA ToSetShort ==
  /\ ToSet(<<>>) = {}
  /\ \A x : ToSet(<<x>>) = {x}
  BY DEF ToSet

LEMMA ToSetType ==
  ASSUME NEW S, NEW s \in Seq(S)
  PROVE  ToSet(s) \subseteq S
  BY DEF ToSet

LEMMA RemoveAtIs ==
  ASSUME NEW S, NEW s \in Seq(S), NEW i \in 1..Len(s)
  PROVE  /\ RemoveAt(s, i) \in Seq(S)
         /\ Len(RemoveAt(s, i)) = Len(s) - 1
         /\ \A j \in 1..(Len(s) - 1) : RemoveAt(s, i)[j] = IF j < i THEN s[j] ELSE s[j + 1]
<1> DEFINE front == SubSeq(s, 1, i - 1)
           back == SubSeq(s, i + 1, Len(s))
<1>1. front \in Seq(S) /\ Len(front) = i - 1 /\ \A j \in 1..(i - 1) : front[j] = s[j]
  OBVIOUS
<1>2. back \in Seq(S) /\ Len(back) = Len(s) - i /\ \A j \in 1..(Len(s) - i) : back[j] = s[i + j]
  OBVIOUS
<1>3. RemoveAt(s, i) = front \o back
  BY DEF RemoveAt
<1> HIDE DEF front, back
<1>4. front \o back \in Seq(S) /\ Len(front \o back) = Len(s) - 1
  BY <1>1, <1>2
<1>5. ASSUME NEW j \in 1..(Len(s) - 1) PROVE (front \o back)[j] = IF j < i THEN s[j] ELSE s[j + 1]
  <2>1. (front \o back)[j] = IF j <= Len(front) THEN front[j] ELSE back[j - Len(front)]
    BY <1>1, <1>2
  <2>2. CASE j < i
    BY <1>1, <2>1, <2>2
  <2>3. CASE j >= i
    <3> DEFINE m == j - (i - 1)
    <3>1. m \in 1..(Len(s) - i) /\ i + m = j + 1 /\ ~(j <= i - 1)
      BY <2>3
    <3>2. (front \o back)[j] = back[m]
      BY <1>1, <2>1, <3>1
    <3>3. back[m] = s[i + m]
      BY <1>2, <3>1
    <3>4. (front \o back)[j] = s[j + 1]
      BY <3>1, <3>2, <3>3
    <3> QED
      BY <2>3, <3>4
  <2>4. j < i \/ j >= i
    OBVIOUS
  <2> QED
    BY <2>2, <2>3, <2>4
<1> QED
  BY <1>3, <1>4, <1>5

LEMMA AppendIs ==
  ASSUME NEW S, NEW s \in Seq(S), NEW x \in S
  PROVE  /\ Append(s, x) \in Seq(S)
         /\ Len(Append(s, x)) = Len(s) + 1 /\ Append(s, x)[Len(s) + 1] = x
         /\ \A j \in 1..Len(s) : Append(s, x)[j] = s[j]
  OBVIOUS

(* The positions of a sequence, and the parts of a finite set.             *)
LEMMA PositionsFinite ==
  ASSUME NEW n \in Nat, NEW S, S \subseteq 1..n
  PROVE  IsFiniteSet(S) /\ Cardinality(S) \in Nat
<1>1. IsFiniteSet(1..n)
  BY FS_Interval
<1> QED
  BY <1>1, FS_Subset, FS_CardinalityType

LEMMA PartIsFewer ==
  ASSUME NEW T, IsFiniteSet(T), NEW S, S \subseteq T
  PROVE  /\ IsFiniteSet(S) /\ Cardinality(S) <= Cardinality(T)
         /\ Cardinality(S) \in Nat /\ Cardinality(T) \in Nat
  BY FS_Subset, FS_CardinalityType

LEMMA OneMore ==
  ASSUME NEW S, IsFiniteSet(S), NEW x
  PROVE  /\ IsFiniteSet(S \cup {x}) /\ Cardinality(S) \in Nat /\ Cardinality(S \cup {x}) \in Nat
         /\ x \in S => Cardinality(S \cup {x}) = Cardinality(S)
         /\ x \notin S => Cardinality(S \cup {x}) = Cardinality(S) + 1
         /\ Cardinality(S \cup {x}) <= Cardinality(S) + 1
<1>1. IsFiniteSet(S \cup {x}) /\ Cardinality(S) \in Nat /\ Cardinality(S \cup {x}) \in Nat
  BY FS_AddElement, FS_CardinalityType
<1>2. Cardinality(S \cup {x}) = IF x \in S THEN Cardinality(S) ELSE Cardinality(S) + 1
  BY FS_AddElement
<1> QED
  BY <1>1, <1>2

LEMMA TailIs ==
  ASSUME NEW S, NEW s \in Seq(S), s # <<>>
  PROVE  /\ Tail(s) \in Seq(S) /\ Len(Tail(s)) = Len(s) - 1
         /\ \A j \in 1..(Len(s) - 1) : Tail(s)[j] = s[j + 1]
         /\ Head(s) = s[1] /\ s[1] \in S /\ Len(s) >= 1
  OBVIOUS

-----------------------------------------------------------------------------
(* What a step does to the requests, and what to the session's ids.        *)

Quiet == UNCHANGED <<queue, stamp, answer, cur>>
Settled == \E o \in Outcomes : cur # None /\ Answer(cur, o) /\ keepQueue

LEMMA Requested ==
  ASSUME TypeOK, [Next]_vars
  PROVE  Quiet \/ (\E r \in Requests : Arrive(r)) \/ Start \/ Settled
<1> USE DEF Quiet, Settled, keepQueue, GoTo, Outcomes, moduleVars
<1>1. CASE \E r \in Requests : Arrive(r)
  BY <1>1
<1>2. CASE ModuleStep
  <2> USE DEF TypeOK
  <2>1. CASE ReadDraft \/ SwitchToBash \/ AppendCommand \/ CheckId \/ PressEnter
    BY <2>1 DEF ReadDraft, SwitchToBash, AppendCommand, CheckId, PressEnter
  <2>2. CASE FillText
    BY <2>2 DEF FillText
  <2>3. CASE RestoreDraft
    BY <2>3 DEF RestoreDraft
  <2>4. CASE EndWait
    BY <2>4 DEF EndWait
  <2>5. CASE BackRead
    BY <2>5 DEF BackRead
  <2>6. CASE BackFill
    BY <2>6 DEF BackFill
  <2>7. CASE BackCheck
    BY <2>7 DEF BackCheck
  <2>8. CASE EngineFails
    BY <2>8 DEF EngineFails
  <2> QED
    BY <1>2, <2>1, <2>2, <2>3, <2>4, <2>5, <2>6, <2>7, <2>8 DEF ModuleStep
<1>3. CASE HarnessTakesKey \/ PersonEnters \/ PersonTypes \/ PersonClears \/ ClearTold
  BY <1>3 DEF HarnessTakesKey, PersonEnters, PersonTypes, PersonClears, ClearTold
<1>4. CASE \E i \in 1..Len(submits) : SettleSubmit(i)
  BY <1>4 DEF SettleSubmit
<1>5. CASE \E b \in putBacks : PutBackReads(b) \/ PutBackFills(b) \/ PutBackThrows(b)
  BY <1>5 DEF PutBackReads, PutBackFills, PutBackThrows
<1>6. CASE SessionEnds \/ IdMoves \/ SidecarReplaced \/ SidecarRebound
  BY <1>6 DEF SessionEnds, IdMoves, SidecarReplaced, SidecarRebound, Bind
<1>7. CASE UNCHANGED vars
  BY <1>7 DEF vars
<1> QED
  BY <1>1, <1>2, <1>3, <1>4, <1>5, <1>6, <1>7 DEF Next

LEMMA Moved ==
  ASSUME [Next]_vars
  PROVE  UNCHANGED lifeVars \/ SessionEnds \/ IdMoves \/ SidecarReplaced \/ SidecarRebound
<1> USE DEF keepWorld, lifeVars
<1>1. CASE ModuleStep
  BY <1>1 DEF ModuleStep, Start, ReadDraft, FillText, SwitchToBash, AppendCommand,
     RestoreDraft, CheckId, PressEnter, EndWait, BackRead, BackFill, BackCheck, EngineFails
<1>2. CASE ~ModuleStep
  BY <1>2 DEF Next, Arrive, HarnessTakesKey, PersonEnters, SettleSubmit, PutBackReads,
     PutBackFills, PutBackThrows, PersonTypes, PersonClears, ClearTold, moduleVars, vars
<1> QED
  BY <1>1, <1>2

LEMMA RacedGrows ==
  ASSUME [Next]_vars
  PROVE  raced \subseteq raced'
<1>1. CASE ModuleStep
  BY <1>1 DEF ModuleStep, Start, ReadDraft, FillText, SwitchToBash, AppendCommand,
     RestoreDraft, CheckId, PressEnter, EndWait, BackRead, BackFill, BackCheck, EngineFails
<1>2. CASE ~ModuleStep
  BY <1>2 DEF Next, Arrive, HarnessTakesKey, PersonEnters, EnterTaken, SettleSubmit,
     PutBackReads, PutBackFills, PutBackThrows, PersonTypes, PersonClears, ClearTold, SessionEnds, IdMoves,
     SidecarReplaced, SidecarRebound, Bind, vars
<1> QED
  BY <1>1, <1>2

LEMMA AskedStep ==
  ASSUME TypeOK, Asked, [Next]_vars
  PROVE  Asked'
<1>1. CASE Quiet
  BY <1>1 DEF Quiet, Asked
<1>2. ASSUME NEW r \in Requests, Arrive(r) PROVE Asked'
  <2>1. \A i \in 1..Len(queue) : queue[i] # r /\ queue[i] \in Requests
    BY <1>2 DEF Arrive, Asked, TypeOK
  <2>2. \E at : stamp' = [stamp EXCEPT ![r] = [sid |-> at, generation |-> generation]]
    BY <1>2 DEF Arrive
  <2>3. stamp'[r] # None
    <3>1. PICK at \in 0..realSid : stamp' = [stamp EXCEPT ![r] = [sid |-> at, generation |-> generation]]
      BY <1>2 DEF Arrive
    <3>2. [sid |-> at, generation |-> generation] \in Stamp
      BY BoundAssumption DEF TypeOK, Stamp
    <3> QED
      BY <3>1, <3>2, NoneAssumption DEF TypeOK
  <2>4. Len(queue') = Len(queue) + 1 /\ queue'[Len(queue) + 1] = r
        /\ \A i \in 1..Len(queue) : queue'[i] = queue[i]
    BY <1>2 DEF Arrive, TypeOK
  <2>5. \A q \in Requests \ {r} : stamp'[q] = stamp[q]
    BY <2>2 DEF TypeOK
  <2>6. answer' = answer /\ cur' = cur /\ r # cur /\ answer[r] = None
    BY <1>2, NoneAssumption DEF Arrive, Asked
  <2>7. Len(queue) \in Nat /\ cur \in Requests \cup {None}
    BY DEF TypeOK
  <2> QED
    BY <2>1, <2>3, <2>4, <2>5, <2>6, <2>7 DEF Asked
<1>3. CASE Start
  <2> DEFINE r == Head(queue)
  <2>1. /\ queue \in Seq(Requests) /\ queue # <<>> /\ queue' = Tail(queue) /\ stamp' = stamp
        /\ cur = None
    BY <1>3 DEF Start, TypeOK
  <2>2. /\ r = queue[1] /\ r \in Requests /\ Len(queue) >= 1
        /\ Len(queue') = Len(queue) - 1
        /\ \A j \in 1..(Len(queue) - 1) : queue'[j] = queue[j + 1]
        /\ Len(queue) \in Nat
    BY <2>1, TailIs
  <2>3. \/ answer' = [answer EXCEPT ![r] = "not_delivered"] /\ cur' = None
        \/ answer' = answer /\ cur' = r
    BY <1>3 DEF Start, Answer
  <2> HIDE DEF r
  <2>4. \A j \in 1..(Len(queue) - 1) : queue[j + 1] # r /\ queue[j + 1] \in Requests
    BY <2>1, <2>2 DEF Asked
  <2>5. stamp[r] # None /\ answer[r] = None
    BY <2>2 DEF Asked
  <2>6. answer \in [Requests -> Outcomes \cup {None}] /\ r # None
    BY <2>2, NoneAssumption DEF TypeOK
  <2> QED
    BY <2>1, <2>2, <2>3, <2>4, <2>5, <2>6 DEF Asked
<1>4. CASE Settled
  BY <1>4, NoneAssumption DEF Settled, Answer, keepQueue, Asked, TypeOK
<1> QED
  BY <1>1, <1>2, <1>3, <1>4, Requested

LEMMA LivesStep ==
  ASSUME TypeOK, Asked, Lives, [Next]_vars
  PROVE  Lives' /\ generation' \in Nat /\ realSid' \in 0..MaxMoves
<1>1. CASE UNCHANGED lifeVars
  <2>1. generation' = generation /\ realSid' = realSid /\ modSid' = modSid /\ moving' = moving
    BY <1>1 DEF lifeVars
  <2>2. "rebound" \notin raced' => "rebound" \notin raced
    BY RacedGrows
  <2>3. \A r \in Requests : stamp'[r] # None => stamp'[r].generation <= generation
    <3>1. ASSUME NEW r \in Requests, Arrive(r)
          PROVE  \A q \in Requests : stamp'[q] # None => stamp'[q].generation <= generation
      <4>1. PICK at \in 0..realSid : stamp' = [stamp EXCEPT ![r] = [sid |-> at, generation |-> generation]]
        BY <3>1 DEF Arrive
      <4>2. \A q \in Requests : stamp'[q] = IF q = r THEN [sid |-> at, generation |-> generation] ELSE stamp[q]
        BY <4>1 DEF TypeOK
      <4> QED
        BY <4>2 DEF Lives, TypeOK
    <3>2. (\E r \in Requests : Arrive(r)) \/ stamp' = stamp
      BY Requested DEF Quiet, Start, Settled, keepQueue
    <3> QED
      BY <3>1, <3>2 DEF Lives
  <2>4. ASSUME "rebound" \notin raced', cur' # None, stamp'[cur'].generation = generation
        PROVE  modSid = realSid /\ stamp'[cur'].sid = realSid
    <3>1. CASE Quiet
      BY <2>2, <2>4, <3>1 DEF Quiet, Lives
    <3>2. CASE Settled
      BY <2>4, <3>2 DEF Settled, Answer
    <3>3. ASSUME NEW r \in Requests, Arrive(r) PROVE modSid = realSid /\ stamp'[cur'].sid = realSid
      <4>1. cur' = cur /\ cur # r
        BY <3>3, NoneAssumption DEF Arrive, Asked
      <4>2. stamp'[cur] = stamp[cur]
        BY <2>4, <3>3, <4>1 DEF Arrive, TypeOK
      <4> QED
        BY <2>2, <2>4, <4>1, <4>2 DEF Lives
    <3>4. CASE Start
      <4>1. stamp' = stamp /\ SameSession(Head(queue)) /\ cur' = Head(queue)
        BY <2>4, <3>4 DEF Start, Answer
      <4>2. queue # <<>> /\ queue \in Seq(Requests)
        BY <3>4 DEF Start, TypeOK
      <4>3. Head(queue) = queue[1] /\ 1 \in 1..Len(queue) /\ Head(queue) \in Requests
        BY <4>2, TailIs
      <4>4. stamp[Head(queue)] \in Stamp
        BY <4>3 DEF Asked, TypeOK
      <4>5. modSid # None
        BY <4>1, <4>4, NoneAssumption DEF SameSession, Stamp
      <4>6. modSid = realSid
        BY <2>2, <2>4, <4>5 DEF Lives
      <4> QED
        BY <4>1, <4>6 DEF SameSession
    <3> QED
      BY <3>1, <3>2, <3>3, <3>4, Requested
  <2> QED
    BY <2>1, <2>2, <2>3, <2>4 DEF Lives, TypeOK
<1>2. \A r \in Requests : stamp[r] # None => stamp[r].generation \in Nat
  BY DEF TypeOK, Stamp
<1>3. cur # None => cur \in Requests /\ stamp[cur] # None
  BY DEF Asked, TypeOK
<1> USE DEF moduleVars
<1>4. CASE SessionEnds
  <2>1. /\ stamp' = stamp /\ cur' = cur /\ realSid' = realSid /\ moving' = "ended"
        /\ modSid' = None /\ raced' = raced /\ realSid < MaxMoves
        /\ \/ modSid = None /\ generation' = generation
           \/ generation' = generation + 1
    BY <1>4 DEF SessionEnds
  <2>2. generation \in Nat /\ generation' \in Nat /\ generation' >= generation
    BY <2>1 DEF TypeOK
  <2>3. \A r \in Requests : stamp'[r] # None => stamp'[r].generation <= generation'
    BY <1>2, <2>1, <2>2 DEF Lives
  <2>4. "rebound" \notin raced /\ cur # None => stamp[cur].generation # generation'
    <3>1. ASSUME "rebound" \notin raced, cur # None, stamp[cur].generation = generation' PROVE FALSE
      <4>1. stamp[cur].generation <= generation
        BY <1>3, <3>1 DEF Lives
      <4>2. modSid = None /\ generation' = generation
        BY <2>1, <2>2, <3>1, <4>1
      <4>3. modSid = realSid
        BY <3>1, <4>2 DEF Lives
      <4> QED
        BY <4>2, <4>3, NoneAssumption DEF TypeOK
    <3> QED
      BY <3>1
  <2> QED
    BY <2>1, <2>2, <2>3, <2>4 DEF Lives, TypeOK
<1>5. CASE IdMoves
  <2>1. /\ stamp' = stamp /\ cur' = cur /\ realSid' = realSid + 1 /\ moving' = "no"
        /\ modSid' = modSid /\ generation' = generation /\ raced' = raced /\ moving = "ended"
    BY <1>5 DEF IdMoves
  <2>2. "rebound" \notin raced => modSid = None
    BY <2>1 DEF Lives
  <2>3. "rebound" \notin raced /\ cur # None => stamp[cur].generation # generation
    BY <2>2, NoneAssumption DEF Lives, TypeOK
  <2>4. realSid' \in 0..MaxMoves
    BY <2>1, BoundAssumption DEF Lives, TypeOK
  <2> QED
    BY <2>1, <2>2, <2>3, <2>4 DEF Lives, TypeOK
<1>6. CASE SidecarReplaced
  <2>1. /\ stamp' = stamp /\ cur' = cur /\ realSid' = realSid /\ moving' = moving /\ moving = "no"
        /\ modSid' = realSid /\ raced' = raced
        /\ generation' \in {generation, generation + 1}
        /\ modSid \in {None, realSid} => generation' = generation
    BY <1>6 DEF SidecarReplaced, Bind
  <2>2. generation \in Nat /\ generation' \in Nat /\ generation' >= generation
    BY <2>1 DEF TypeOK
  <2>3. \A r \in Requests : stamp'[r] # None => stamp'[r].generation <= generation'
    BY <1>2, <2>1, <2>2 DEF Lives
  <2> QED
    BY <2>1, <2>2, <2>3 DEF Lives, TypeOK
<1>7. CASE SidecarRebound
  <2>1. /\ stamp' = stamp /\ realSid' = realSid /\ moving' = moving
        /\ "rebound" \in raced' /\ generation' \in {generation, generation + 1}
    BY <1>7 DEF SidecarRebound, Bind
  <2>2. generation \in Nat /\ generation' \in Nat /\ generation' >= generation
    BY <2>1 DEF TypeOK
  <2>3. \A r \in Requests : stamp'[r] # None => stamp'[r].generation <= generation'
    BY <1>2, <2>1, <2>2 DEF Lives
  <2> QED
    BY <2>1, <2>2, <2>3 DEF Lives, TypeOK
<1> QED
  BY <1>1, <1>4, <1>5, <1>6, <1>7, Moved

-----------------------------------------------------------------------------
(* An Enter that clears the composer, and a submit that goes in.           *)

LEMMA WaitsCleared ==
  ASSUME TypeOK, Waits, Cleared, UNCHANGED <<cur, pc, draft, stamp, generation>>
  PROVE  Waits'
<1>1. CASE awaiting /\ IsBash(cur)
  <2>1. awaiting' = FALSE /\ accepted' = TRUE
    BY <1>1 DEF Cleared
  <2>2. restoring = [req |-> cur, draft |-> draft]
    BY <1>1 DEF Waits
  <2>3. cur \in Requests /\ draft \in Seq(Pieces)
    BY <1>1 DEF Waits, TypeOK
  <2>4. restoring # None /\ IsBash(restoring.req)
    BY <1>1, <2>2, <2>3, NoneAssumption DEF Restoring
  <2>5. restoring' = None
    BY <2>4 DEF Cleared
  <2> QED
    BY <1>1, <2>1, <2>5 DEF Waits
<1>2. CASE ~(awaiting /\ IsBash(cur))
  <2>1. awaiting' = awaiting /\ accepted' = accepted
    BY <1>2 DEF Cleared
  <2>2. restoring' = restoring \/ (restoring' = None /\ IsBash(restoring.req) /\ restoring # None)
    BY DEF Cleared
  <2>3. awaiting => restoring.req = cur
    BY DEF Waits
  <2> QED
    BY <1>2, <2>1, <2>2, <2>3 DEF Waits
<1> QED
  BY <1>1, <1>2

LEMMA WaitsStep ==
  ASSUME TypeOK, Asked, Lives, Waits, [Next]_vars
  PROVE  Waits'
<1> USE DEF keepQueue, keepWaits, keepWorld, moduleVars, lifeVars, GoTo
<1>1. ASSUME NEW r \in Requests, Arrive(r) PROVE Waits'
  <2>1. UNCHANGED <<cur, pc, draft, accepted, awaiting, restoring, generation>> /\ r # cur
    BY <1>1, NoneAssumption DEF Arrive, Asked
  <2>2. pc \in {"enter", "wait"} => stamp'[cur] = stamp[cur]
    BY <1>1, <2>1 DEF Arrive, TypeOK
  <2> QED
    BY <2>1, <2>2 DEF Waits
<1>2. CASE Start
  <2>1. pc = "idle" /\ pc' \in {"idle", "read"} /\ (awaiting' => awaiting) /\ (accepted' => accepted)
    BY <1>2 DEF Start, Answer, TypeOK
  <2> QED
    BY <2>1 DEF Waits
<1>3. CASE ReadDraft \/ SwitchToBash \/ AppendCommand
  <2>1. pc \in {"read", "switch", "append"} /\ pc' \notin {"enter", "wait"}
        /\ awaiting' = awaiting /\ accepted' = accepted
    BY <1>3 DEF ReadDraft, SwitchToBash, AppendCommand, AfterFill
  <2> QED
    BY <2>1 DEF Waits
<1>4. CASE FillText
  <2>1. pc = "fill" /\ pc' \notin {"enter", "wait"}
        /\ (awaiting' => awaiting) /\ (accepted' => accepted)
    BY <1>4 DEF FillText, AfterFill, Answer
  <2> QED
    BY <2>1 DEF Waits
<1>5. CASE RestoreDraft \/ BackRead \/ BackFill \/ BackCheck \/ EngineFails
  <2>1. pc \notin {"enter", "wait"} /\ pc' \notin {"enter", "wait"}
        /\ (awaiting' => awaiting) /\ (accepted' => accepted)
    BY <1>5 DEF RestoreDraft, BackRead, BackFill, BackCheck, EngineFails, Answer
  <2> QED
    BY <2>1 DEF Waits
<1>6. CASE CheckId
  <2>1. pc = "check" /\ ~awaiting /\ ~accepted
    BY <1>6 DEF CheckId, Waits, TypeOK
  <2>2. UNCHANGED <<cur, draft, accepted, stamp, generation>>
        /\ \/ pc' = "enter" /\ awaiting' = TRUE /\ restoring' = [req |-> cur, draft |-> draft]
           \/ pc' = "backRead" /\ awaiting' = awaiting
    BY <1>6 DEF CheckId
  <2> QED
    BY <2>1, <2>2 DEF Waits
<1>7. CASE PressEnter
  <2>1. pc = "enter" /\ pc' = "wait"
        /\ UNCHANGED <<cur, draft, accepted, awaiting, restoring, stamp, generation>>
    BY <1>7 DEF PressEnter
  <2> QED
    BY <2>1 DEF Waits
<1>8. CASE EndWait
  <2>1. awaiting' = FALSE /\ pc' \notin {"enter", "wait"}
        /\ (accepted' = FALSE \/ (accepted' = accepted /\ ~accepted))
    BY <1>8 DEF EndWait, Answer
  <2> QED
    BY <2>1 DEF Waits
<1>9. CASE ClearTold
  <2>1. UNCHANGED <<cur, pc, draft, stamp, generation>> /\ Cleared
    BY <1>9 DEF ClearTold
  <2> QED
    BY <2>1, WaitsCleared
<1>10. ASSUME NEW i \in 1..Len(submits), SettleSubmit(i) PROVE Waits'
  <2>1. UNCHANGED <<cur, pc, draft, stamp, generation>>
    BY <1>10 DEF SettleSubmit
  <2>2. CASE UNCHANGED <<awaiting, accepted, restoring>>
    BY <2>1, <2>2 DEF Waits
  <2>3. CASE TakesAwaited(submits[i]) /\ awaiting' = FALSE /\ accepted' = TRUE
             /\ (TakesRestoring(submits[i]) => restoring' = None)
    <3>1. restoring = [req |-> cur, draft |-> draft] /\ pc \in {"enter", "wait"}
      BY <2>3 DEF Waits, TakesAwaited
    <3>2. cur \in Requests /\ draft \in Seq(Pieces)
      BY <3>1 DEF TypeOK
    <3>3. TakesRestoring(submits[i])
      BY <2>3, <3>1, <3>2, NoneAssumption DEF TakesRestoring, TakesAwaited, Restoring
    <3> QED
      BY <2>1, <2>3, <3>1, <3>3 DEF Waits
  <2>4. CASE /\ ~TakesAwaited(submits[i]) /\ UNCHANGED <<awaiting, accepted>>
             /\ TakesRestoring(submits[i]) /\ restoring' = None
    <3>1. ~awaiting
      BY <2>4 DEF Waits, TakesAwaited, TakesRestoring
    <3> QED
      BY <2>1, <2>4, <3>1 DEF Waits
  <2> QED
    BY <1>10, <2>2, <2>3, <2>4 DEF SettleSubmit
<1>11. CASE \E b \in putBacks : PutBackReads(b) \/ PutBackFills(b) \/ PutBackThrows(b)
  <2>1. UNCHANGED <<cur, pc, draft, accepted, awaiting, restoring, stamp, generation>>
    BY <1>11 DEF PutBackReads, PutBackFills, PutBackThrows
  <2> QED
    BY <2>1 DEF Waits
<1>12. CASE PersonTypes \/ PersonClears \/ HarnessTakesKey \/ PersonEnters \/ IdMoves \/ UNCHANGED vars
  <2>1. UNCHANGED <<cur, pc, draft, accepted, awaiting, restoring, stamp, generation>>
    BY <1>12 DEF PersonTypes, PersonClears, HarnessTakesKey, PersonEnters, IdMoves, vars
  <2> QED
    BY <2>1 DEF Waits
<1>13. CASE SessionEnds \/ SidecarReplaced \/ SidecarRebound
  <2>1. UNCHANGED <<cur, pc, draft, accepted, restoring, stamp>>
    BY <1>13 DEF SessionEnds, SidecarReplaced, SidecarRebound, Bind
  <2>2. CASE UNCHANGED <<awaiting, generation>>
    BY <2>1, <2>2 DEF Waits
  <2>3. CASE awaiting' = FALSE /\ generation' = generation + 1
    <3>1. pc \in {"enter", "wait"} => stamp[cur] \in Stamp /\ stamp[cur].generation <= generation
      BY DEF Lives, Asked, TypeOK
    <3>2. pc \in {"enter", "wait"} => stamp[cur].generation # generation + 1
      BY <3>1 DEF Stamp, TypeOK
    <3> QED
      BY <2>1, <2>3, <3>2 DEF Waits
  <2>4. UNCHANGED <<awaiting, generation>> \/ (awaiting' = FALSE /\ generation' = generation + 1)
    BY <1>13 DEF SessionEnds, SidecarReplaced, SidecarRebound, Bind
  <2> QED
    BY <2>2, <2>3, <2>4
<1> QED
  BY <1>1, <1>2, <1>3, <1>4, <1>5, <1>6, <1>7, <1>8, <1>9, <1>10, <1>11, <1>12, <1>13
     DEF Next, ModuleStep

LEMMA FewPutBacksStep ==
  ASSUME TypeOK, FewPutBacks, [Next]_vars
  PROVE  FewPutBacks'
<1>1. ASSUME NEW rest, putBacks' = PutBacksWith(rest) PROVE FewPutBacks'
  <2>1. PutBacksWith(rest) \subseteq putBacks \cup {[req |-> rest.req, draft |-> rest.draft, phase |-> "read"]}
    BY DEF PutBacksWith
  <2>2. IsFiniteSet(putBacks \cup {[req |-> rest.req, draft |-> rest.draft, phase |-> "read"]})
    BY FS_AddElement DEF FewPutBacks
  <2>3. IsFiniteSet(putBacks')
    BY <1>1, <2>1, <2>2, FS_Subset
  <2> QED
    BY <2>3 DEF FewPutBacks
<1>2. ASSUME NEW b \in putBacks, NEW c, putBacks' = (putBacks \ {b}) \cup {c} PROVE FewPutBacks'
  BY <1>2, FS_AddElement, FS_RemoveElement DEF FewPutBacks
<1>3. ASSUME NEW b \in putBacks, putBacks' = putBacks \ {b} PROVE FewPutBacks'
  BY <1>3, FS_RemoveElement DEF FewPutBacks
<1>4. CASE UNCHANGED putBacks
  BY <1>4 DEF FewPutBacks
<1>5. CASE \E b \in putBacks : PutBackReads(b) \/ PutBackFills(b) \/ PutBackThrows(b)
  BY <1>2, <1>3, <1>5 DEF PutBackReads, PutBackFills, PutBackThrows
<1>6. CASE ClearTold
  BY <1>1, <1>4, <1>6 DEF ClearTold, Cleared
<1>7. CASE \E i \in 1..Len(submits) : SettleSubmit(i)
  BY <1>1, <1>4, <1>7 DEF SettleSubmit
<1>8. CASE ModuleStep
  <2>1. UNCHANGED putBacks
    BY <1>8 DEF ModuleStep, Start, ReadDraft, FillText, SwitchToBash, AppendCommand, keepWaits,
       RestoreDraft, CheckId, PressEnter, EndWait, BackRead, BackFill, BackCheck, EngineFails
  <2> QED
    BY <2>1, <1>4
<1>9. CASE \/ \E r \in Requests : Arrive(r)
           \/ HarnessTakesKey \/ PersonEnters \/ PersonTypes \/ PersonClears
           \/ SessionEnds \/ IdMoves \/ SidecarReplaced \/ SidecarRebound \/ UNCHANGED vars
  <2>1. UNCHANGED putBacks
    BY <1>9 DEF Arrive, HarnessTakesKey, PersonEnters, PersonTypes, PersonClears, SessionEnds, IdMoves, SidecarReplaced, SidecarRebound, Bind, vars, moduleVars
  <2> QED
    BY <2>1, <1>4
<1> QED
  BY <1>5, <1>6, <1>7, <1>8, <1>9 DEF Next

LEMMA AnsweredIs ==
  /\ IsFiniteSet(Answered) /\ Cardinality(Answered) \in Nat
  /\ Cardinality(Requests) \in Nat
  /\ Answered \subseteq Requests
<1>1. Answered \in SUBSET Requests
  BY DEF Answered
<1>2. IsFiniteSet(Requests)
  BY BoundAssumption
<1> QED
  BY <1>1, <1>2, FS_Subset, FS_CardinalityType

(* A request that is answered is one more.                                 *)
LEMMA OneMoreAnswered ==
  ASSUME TypeOK, NEW r \in Requests, answer[r] = None, NEW o \in Outcomes,
         answer' = [answer EXCEPT ![r] = o]
  PROVE  Cardinality(Answered') = Cardinality(Answered) + 1
<1>1. Answered' = Answered \cup {r} /\ r \notin Answered
  BY NoneAssumption DEF Answered, TypeOK
<1> QED
  BY <1>1, AnsweredIs, FS_AddElement

LEMMA KeysStep ==
  ASSUME TypeOK, Asked, Keys, [Next]_vars
  PROVE  Keys' /\ keys' \in Nat
<1> USE DEF keepQueue, keepWaits, keepWorld, moduleVars, worldVars, GoTo
<1>1. keys \in Nat /\ Cardinality(Answered) \in Nat /\ Pressed \in Nat /\ Pressed' \in Nat
  BY AnsweredIs DEF TypeOK, Pressed
<1>2. CASE UNCHANGED answer
  <2>1. Answered' = Answered
    BY <1>2 DEF Answered
  <2>2. CASE UNCHANGED <<keys, pc>>
    BY <1>1, <2>1, <2>2 DEF Keys, Pressed
  <2>3. CASE keys' = keys - 1 /\ keys > 0 /\ pc' = pc
    BY <1>1, <2>1, <2>3 DEF Keys, Pressed
  <2>4. CASE keys' \in {keys, keys + 1} /\ pc = "enter" /\ pc' = "wait"
    BY <1>1, <2>1, <2>4 DEF Keys, Pressed
  <2>5. CASE keys' = keys /\ (pc \notin {"wait", "backRead", "backFill", "backCheck"}
                              \/ pc' \in {"wait", "backRead", "backFill", "backCheck"})
    BY <1>1, <2>1, <2>5 DEF Keys, Pressed
  <2>6. CASE ModuleStep
    <3>1. CASE Start
      BY <2>5, <3>1 DEF Start, Answer, TypeOK
    <3>2. CASE ReadDraft \/ SwitchToBash \/ AppendCommand \/ CheckId
      BY <2>5, <3>2 DEF ReadDraft, SwitchToBash, AppendCommand, CheckId
    <3>3. CASE FillText \/ RestoreDraft
      BY <2>5, <3>3 DEF FillText, RestoreDraft
    <3>4. CASE PressEnter
      BY <2>4, <3>4 DEF PressEnter
    <3>5. ASSUME NEW o \in Outcomes, Answer(cur, o), pc # "idle" PROVE FALSE
      <4>1. cur \in Requests /\ answer[cur] = None
        BY <3>5 DEF TypeOK, Asked
      <4> QED
        BY <3>5, <4>1, <1>2, NoneAssumption DEF Answer, TypeOK
    <3>6. CASE EndWait
      BY <2>5, <3>5, <3>6 DEF EndWait, Outcomes
    <3>7. CASE BackRead \/ BackFill
      BY <2>5, <3>5, <3>7 DEF BackRead, BackFill, Outcomes
    <3>8. CASE BackCheck \/ EngineFails
      BY <3>5, <3>8 DEF BackCheck, EngineFails, Outcomes
    <3> QED
      BY <2>6, <3>1, <3>2, <3>3, <3>4, <3>6, <3>7, <3>8 DEF ModuleStep
  <2>7. CASE HarnessTakesKey
    BY <2>3, <2>7 DEF HarnessTakesKey
  <2>8. CASE PersonEnters \/ PersonTypes \/ PersonClears \/ ClearTold
    BY <2>2, <2>8 DEF PersonEnters, PersonTypes, PersonClears, ClearTold
  <2>9. CASE \E i \in 1..Len(submits) : SettleSubmit(i)
    BY <2>2, <2>9 DEF SettleSubmit
  <2>10. CASE \/ \E r \in Requests : Arrive(r)
              \/ \E b \in putBacks : PutBackReads(b) \/ PutBackFills(b) \/ PutBackThrows(b)
              \/ SessionEnds \/ IdMoves \/ SidecarReplaced \/ SidecarRebound \/ UNCHANGED vars
    BY <2>2, <2>10 DEF Arrive, PutBackReads, PutBackFills, PutBackThrows, SessionEnds, IdMoves,
       SidecarReplaced, SidecarRebound, Bind, vars
  <2> QED
    BY <2>6, <2>7, <2>8, <2>9, <2>10 DEF Next
<1>3. CASE ~UNCHANGED answer
  <2>1. PICK r \in Requests, o \in Outcomes :
          answer[r] = None /\ answer' = [answer EXCEPT ![r] = o]
    <3>1. CASE Start
      <4>1. queue \in Seq(Requests) /\ queue # <<>>
        BY <3>1 DEF Start, TypeOK
      <4>2. Head(queue) = queue[1] /\ 1 \in 1..Len(queue) /\ Head(queue) \in Requests
        BY <4>1, TailIs
      <4>3. answer' = [answer EXCEPT ![Head(queue)] = "not_delivered"]
        BY <1>3, <3>1 DEF Start, Answer
      <4> QED
        BY <4>2, <4>3 DEF Asked, Outcomes
    <3>2. CASE Settled
      BY <3>2 DEF Settled, Answer, Asked, TypeOK
    <3> QED
      BY <1>3, <3>1, <3>2, Requested DEF Quiet, Arrive
  <2>2. Cardinality(Answered') = Cardinality(Answered) + 1
    BY <2>1, OneMoreAnswered
  <2>3. keys' = keys
    <3>1. CASE Start
      BY <3>1 DEF Start
    <3>2. ASSUME ModuleStep, ~Start PROVE keys' = keys
      BY <1>3, <3>2 DEF ModuleStep, ReadDraft, FillText, SwitchToBash, AppendCommand,
         RestoreDraft, CheckId, PressEnter, EndWait, BackRead, BackFill, BackCheck, EngineFails
    <3> QED
      BY <1>3, <3>1, <3>2 DEF Next, Arrive, HarnessTakesKey, PersonEnters, SettleSubmit,
         PutBackReads, PutBackFills, PutBackThrows, PersonTypes, PersonClears, ClearTold,
         SessionEnds, IdMoves, SidecarReplaced, SidecarRebound, Bind, vars
  <2> QED
    BY <1>1, <2>2, <2>3 DEF Keys, Pressed
<1> QED
  BY <1>2, <1>3

-----------------------------------------------------------------------------
(* Types.                                                                  *)

LEMMA TextsArePieces ==
  /\ \A r \in Requests : Text[r] \in Texts /\ Text[r] \in Pieces /\ <<Text[r]>> \in Seq(Pieces)
  /\ Draft \in Pieces /\ Typed \in Pieces /\ <<>> \in Seq(Pieces)
  BY DEF Texts, Pieces

LEMMA ClearedTyped ==
  ASSUME TypeOK, Cleared
  PROVE  awaiting' \in BOOLEAN /\ accepted' \in BOOLEAN
         /\ restoring' \in Restoring \cup {None} /\ putBacks' \subseteq PutBack
<1>1. restoring # None => PutBacksWith(restoring) \subseteq PutBack
  BY DEF TypeOK, Restoring, PutBack, PutBacksWith
<1> QED
  BY <1>1 DEF Cleared, TypeOK

LEMMA WentAppended ==
  ASSUME TypeOK, NEW e \in [text: Seq(Pieces), sid: 0..MaxMoves]
  PROVE  entered \in Seq([text: Seq(Pieces), sid: 0..MaxMoves])
         /\ Append(entered, e) \in Seq([text: Seq(Pieces), sid: 0..MaxMoves])
<1> DEFINE Went == [text: Seq(Pieces), sid: 0..MaxMoves]
<1>1. entered \in Seq(Went) /\ e \in Went
  BY DEF TypeOK
<1> HIDE DEF Went
<1>2. Append(entered, e) \in Seq(Went)
  BY <1>1, AppendIs
<1> QED
  BY <1>1, <1>2 DEF Went

LEMMA EnterTyped ==
  ASSUME TypeOK, EnterTaken
  PROVE  /\ composer' \in Seq(Pieces) /\ bashMode' \in BOOLEAN
         /\ clears' \in 0..MaxClears
         /\ submits' \in Seq(Seq(Pieces))
         /\ entered' \in Seq([text: Seq(Pieces), sid: 0..MaxMoves])
         /\ raced' \subseteq {"enter", "edit", "overlap", "command", "refused", "rebound"}
<1>1. CASE composer = <<>>
  BY <1>1 DEF EnterTaken, TypeOK
<1>2. CASE composer # <<>>
  <2>1. clears' \in 0..MaxClears
    BY <1>2, BoundAssumption DEF EnterTaken, TypeOK
  <2>2. composer' = <<>> /\ bashMode' = FALSE /\ raced' \subseteq raced \cup {"enter"}
    BY <1>2 DEF EnterTaken
  <2>3. submits' \in Seq(Seq(Pieces))
    <3>1. composer \in Seq(Pieces) /\ submits \in Seq(Seq(Pieces))
      BY DEF TypeOK
    <3>2. Append(submits, composer) \in Seq(Seq(Pieces))
      BY <3>1, AppendIs
    <3> QED
      BY <1>2, <3>1, <3>2 DEF EnterTaken
  <2>4. entered' = entered \/ entered' = Append(entered, [text |-> composer, sid |-> realSid])
    BY <1>2 DEF EnterTaken
  <2>5. [text |-> composer, sid |-> realSid] \in [text: Seq(Pieces), sid: 0..MaxMoves]
    BY DEF TypeOK
  <2>6. entered' \in Seq([text: Seq(Pieces), sid: 0..MaxMoves])
    BY <2>4, <2>5, WentAppended
  <2> QED
    BY <2>1, <2>2, <2>3, <2>6, TextsArePieces DEF TypeOK
<1> QED
  BY <1>1, <1>2

(* All of TypeOK but the ids and the number of keys.                       *)
ModuleTyped ==
  /\ queue \in Seq(Requests) /\ cur \in Requests \cup {None}
  /\ pc \in Pcs /\ (pc = "idle") = (cur = None)
  /\ draft \in Seq(Pieces)
  /\ accepted \in BOOLEAN /\ awaiting \in BOOLEAN
  /\ restoring \in Restoring \cup {None} /\ putBacks \subseteq PutBack
  /\ stamp \in [Requests -> Stamp \cup {None}]
  /\ answer \in [Requests -> Outcomes \cup {None}]

WorldTyped ==
  /\ composer \in Seq(Pieces) /\ bashMode \in BOOLEAN
  /\ submits \in Seq(Seq(Pieces))
  /\ entered \in Seq([text: Seq(Pieces), sid: 0..MaxMoves])
  /\ gone \subseteq Pieces
  /\ acts \in 0..MaxActs /\ typed \in BOOLEAN /\ clears \in 0..MaxClears
  /\ raced \subseteq {"enter", "edit", "overlap", "command", "refused", "rebound"}

LEMMA ModuleStepTyped ==
  ASSUME TypeOK, ModuleStep
  PROVE  ModuleTyped' /\ WorldTyped'
<1> USE DEF keepQueue, keepWaits, keepWorld, boxVars, worldVars, GoTo, Answer, Pcs
<1> DEFINE Rest == /\ queue' \in Seq(Requests) /\ stamp' = stamp
                   /\ UNCHANGED <<clears, submits, entered, acts, typed>>
           Moves == /\ cur' \in Requests \cup {None} /\ pc' \in Pcs /\ (pc' = "idle") = (cur' = None)
                    /\ draft' \in Seq(Pieces) /\ accepted' \in BOOLEAN
                    /\ answer' \in [Requests -> Outcomes \cup {None}]
           Waiting == /\ awaiting' \in BOOLEAN /\ restoring' \in Restoring \cup {None}
                      /\ putBacks' = putBacks
           Box == /\ composer' \in Seq(Pieces) /\ bashMode' \in BOOLEAN /\ gone' \subseteq Pieces
                  /\ raced' \subseteq raced \cup {"overlap", "command"}
<1>1. ASSUME NEW r \in Requests, NEW o \in Outcomes, Answer(r, o) PROVE Moves
  <2>1. answer' \in [Requests -> Outcomes \cup {None}]
    BY <1>1 DEF TypeOK
  <2>2. cur' = None /\ pc' = "idle" /\ accepted' = FALSE /\ draft' = <<>>
    BY <1>1
  <2> QED
    BY <2>1, <2>2, TextsArePieces
<1>2. ASSUME NEW p \in Pcs \ {"idle"}, pc # "idle", GoTo(p) PROVE Moves
  BY <1>2 DEF TypeOK
<1>3. pc # "idle" => cur \in Requests
  BY DEF TypeOK
<1>4. "accepted" \in Outcomes /\ "not_delivered" \in Outcomes /\ "unconfirmed" \in Outcomes
  BY DEF Outcomes
<1>5. AfterFill \in Pcs \ {"idle"}
  BY DEF AfterFill
<1>6. \A r \in Requests : <<Text[r]>> \in Seq(Pieces) /\ Append(composer, Text[r]) \in Seq(Pieces)
  BY TextsArePieces DEF TypeOK
<1>7. ToSet(draft) \subseteq Pieces
  BY ToSetType DEF TypeOK
<1>8. CASE Start
  <2>1. queue \in Seq(Requests) /\ queue # <<>> /\ cur = None /\ pc = "idle"
    BY <1>8 DEF Start, TypeOK
  <2>2. Head(queue) = queue[1] /\ 1 \in 1..Len(queue) /\ Head(queue) \in Requests
        /\ Tail(queue) \in Seq(Requests)
    BY <2>1, TailIs
  <2>3. Rest /\ Waiting /\ Box
    BY <1>8, <2>2 DEF Start, TypeOK
  <2>4. CASE Answer(Head(queue), "not_delivered")
    BY <1>1, <1>4, <2>2, <2>3, <2>4 DEF TypeOK, ModuleTyped, WorldTyped
  <2>5. CASE cur' = Head(queue) /\ pc' = "read" /\ UNCHANGED <<answer, draft, accepted>>
    BY <2>2, <2>3, <2>5, NoneAssumption DEF TypeOK, ModuleTyped, WorldTyped
  <2> QED
    BY <1>8, <2>4, <2>5 DEF Start
<1>9. CASE ~Start
  <2>1. Rest
    BY <1>9 DEF ModuleStep, ReadDraft, FillText, SwitchToBash, AppendCommand, RestoreDraft,
       CheckId, PressEnter, EndWait, BackRead, BackFill, BackCheck, EngineFails, TypeOK
  <2>2. pc # "idle"
    BY <1>9 DEF ModuleStep, ReadDraft, FillText, SwitchToBash, AppendCommand, RestoreDraft,
       CheckId, PressEnter, EndWait, BackRead, BackFill, BackCheck, EngineFails
  <2>3. Moves
    <3>1. CASE ReadDraft \/ SwitchToBash
      BY <3>1, <2>2 DEF ReadDraft, SwitchToBash, TypeOK
    <3>2. CASE FillText \/ AppendCommand
      <4>1. Answer(cur, "not_delivered") \/ \E p \in Pcs \ {"idle"} : GoTo(p)
        BY <3>2, <1>5 DEF FillText, AppendCommand
      <4> QED
        BY <4>1, <1>1, <1>2, <1>3, <1>4, <2>2
    <3>3. CASE RestoreDraft \/ BackRead \/ BackFill \/ BackCheck \/ EngineFails
      <4>1. (\E o \in Outcomes : Answer(cur, o)) \/ \E p \in Pcs \ {"idle"} : GoTo(p)
        BY <3>3, <1>4 DEF RestoreDraft, BackRead, BackFill, BackCheck, EngineFails
      <4> QED
        BY <4>1, <1>1, <1>2, <1>3, <2>2
    <3>4. CASE CheckId \/ PressEnter \/ EndWait
      <4>1. (\E o \in Outcomes : Answer(cur, o)) \/ \E p \in Pcs \ {"idle"} : GoTo(p)
        BY <3>4, <1>4 DEF CheckId, PressEnter, EndWait
      <4> QED
        BY <4>1, <1>1, <1>2, <1>3, <2>2
    <3> QED
      BY <1>9, <3>1, <3>2, <3>3, <3>4 DEF ModuleStep
  <2>4. Waiting
    <3>1. CASE CheckId
      <4>1. [req |-> cur, draft |-> draft] \in Restoring
        BY <1>3, <2>2 DEF Restoring, TypeOK
      <4> QED
        BY <3>1, <4>1 DEF CheckId, TypeOK
    <3>2. CASE EndWait
      BY <3>2 DEF EndWait, TypeOK
    <3> QED
      BY <1>9, <3>1, <3>2 DEF ModuleStep, ReadDraft, FillText, SwitchToBash, AppendCommand,
         RestoreDraft, PressEnter, BackRead, BackFill, BackCheck, EngineFails, TypeOK
  <2>5. Box
    <3>1. CASE FillText
      BY <3>1, <1>3, <1>6, <2>2, TextsArePieces DEF FillText, Fill, TypeOK
    <3>2. CASE AppendCommand
      BY <3>2, <1>3, <1>6, <2>2 DEF AppendCommand, TypeOK
    <3>3. CASE RestoreDraft
      BY <3>3, <1>7 DEF RestoreDraft, Fill, TypeOK
    <3>4. CASE BackFill
      BY <3>4 DEF BackFill, Fill, TypeOK
    <3>5. CASE ReadDraft \/ SwitchToBash
      BY <3>5 DEF ReadDraft, SwitchToBash, TypeOK
    <3>6. CASE CheckId
      BY <3>6 DEF CheckId, TypeOK
    <3> QED
      BY <1>9, <3>1, <3>2, <3>3, <3>4, <3>5, <3>6 DEF ModuleStep, PressEnter, EndWait,
         BackRead, BackCheck, EngineFails, TypeOK
  <2> QED
    BY <2>1, <2>3, <2>4, <2>5 DEF TypeOK, ModuleTyped, WorldTyped
<1> QED
  BY <1>8, <1>9

LEMMA OutsideTyped ==
  ASSUME TypeOK, [Next]_vars, ~ModuleStep
  PROVE  ModuleTyped' /\ WorldTyped'
<1> USE DEF keepQueue, keepWorld, moduleVars, boxVars, worldVars
<1> DEFINE Same == UNCHANGED <<queue, cur, pc, draft, stamp, answer>>
<1>1. ASSUME NEW r \in Requests, Arrive(r) PROVE ModuleTyped' /\ WorldTyped'
  <2>1. PICK at \in 0..realSid : stamp' = [stamp EXCEPT ![r] = [sid |-> at, generation |-> generation]]
    BY <1>1 DEF Arrive
  <2>2. [sid |-> at, generation |-> generation] \in Stamp
    BY <2>1, BoundAssumption DEF TypeOK, Stamp
  <2>3. queue' \in Seq(Requests)
    BY <1>1 DEF Arrive, TypeOK
  <2>4. stamp' \in [Requests -> Stamp \cup {None}]
    BY <2>1, <2>2 DEF TypeOK
  <2> QED
    BY <1>1, <2>3, <2>4 DEF Arrive, TypeOK, ModuleTyped, WorldTyped
<1>2. CASE HarnessTakesKey \/ PersonEnters
  <2>1. EnterTaken /\ UNCHANGED moduleVars /\ acts' \in 0..MaxActs /\ typed' = typed /\ gone' = gone
    BY <1>2, BoundAssumption DEF HarnessTakesKey, PersonEnters, TypeOK
  <2> QED
    BY <2>1, EnterTyped DEF TypeOK, ModuleTyped, WorldTyped
<1>3. CASE PersonTypes
  <2>1. composer' \in Seq(Pieces) /\ acts' \in 0..MaxActs
    BY <1>3, TextsArePieces, BoundAssumption DEF PersonTypes, TypeOK
  <2>2. raced' \subseteq {"enter", "edit", "overlap", "command", "refused", "rebound"}
    BY <1>3 DEF PersonTypes, EditRace, TypeOK
  <2> QED
    BY <1>3, <2>1, <2>2 DEF PersonTypes, TypeOK, ModuleTyped, WorldTyped
<1>4. CASE PersonClears
  <2>1. ToSet(composer) \subseteq Pieces
    BY ToSetType DEF TypeOK
  <2>2. raced' \subseteq {"enter", "edit", "overlap", "command", "refused", "rebound"}
    BY <1>4 DEF PersonClears, EditRace, TypeOK
  <2>3. /\ UNCHANGED <<moduleVars, typed, submits, entered>>
        /\ acts' \in 0..MaxActs /\ clears' \in 0..MaxClears
        /\ composer' = <<>> /\ bashMode' = FALSE /\ gone' = gone \cup ToSet(composer)
    BY <1>4, BoundAssumption DEF PersonClears, TypeOK
  <2> QED
    BY <2>1, <2>2, <2>3, TextsArePieces DEF TypeOK, ModuleTyped, WorldTyped
<1>5. ASSUME NEW i \in 1..Len(submits), SettleSubmit(i) PROVE ModuleTyped' /\ WorldTyped'
  <2>1. submits' \in Seq(Seq(Pieces)) /\ submits[i] \in Seq(Pieces)
    <3>1. submits \in Seq(Seq(Pieces))
      BY DEF TypeOK
    <3>2. RemoveAt(submits, i) \in Seq(Seq(Pieces))
      BY <3>1, RemoveAtIs
    <3> QED
      BY <1>5, <3>1, <3>2 DEF SettleSubmit
  <2>2. gone' \subseteq Pieces
    <3>1. ToSet(submits[i]) \subseteq Pieces
      BY <2>1, ToSetType
    <3> QED
      BY <1>5, <3>1 DEF SettleSubmit, TypeOK
  <2>3. [text |-> submits[i], sid |-> realSid] \in [text: Seq(Pieces), sid: 0..MaxMoves]
    BY <2>1 DEF TypeOK
  <2>4. entered' = entered \/ entered' = Append(entered, [text |-> submits[i], sid |-> realSid])
    BY <1>5 DEF SettleSubmit
  <2>5. entered' \in Seq([text: Seq(Pieces), sid: 0..MaxMoves])
    BY <2>3, <2>4, WentAppended
  <2>6. restoring # None => PutBacksWith(restoring) \subseteq PutBack
    BY DEF TypeOK, Restoring, PutBack, PutBacksWith
  <2>7. awaiting' \in BOOLEAN /\ accepted' \in BOOLEAN
    BY <1>5 DEF SettleSubmit, TypeOK
  <2>8. restoring' \in Restoring \cup {None} /\ putBacks' \subseteq PutBack
    BY <1>5, <2>6 DEF SettleSubmit, TakesRestoring, TypeOK
  <2> QED
    BY <1>5, <2>1, <2>2, <2>5, <2>7, <2>8 DEF SettleSubmit, TypeOK, ModuleTyped, WorldTyped
<1>6. ASSUME NEW b \in putBacks, PutBackReads(b) PROVE ModuleTyped' /\ WorldTyped'
  <2>1. b \in PutBack
    BY DEF TypeOK
  <2>2. [b EXCEPT !.phase = "fill"] \in PutBack /\ b.draft \in Seq(Pieces)
    BY <2>1 DEF PutBack
  <2>3. ToSet(b.draft) \subseteq Pieces
    BY <2>2, ToSetType
  <2> QED
    <3>1. putBacks' \subseteq PutBack
      <4>1. putBacks' \subseteq putBacks \cup {[b EXCEPT !.phase = "fill"]}
        BY <1>6 DEF PutBackReads
      <4> QED
        BY <2>2, <4>1 DEF TypeOK
    <3>2. gone' \subseteq Pieces
      <4>1. gone' \subseteq gone \cup ToSet(b.draft)
        BY <1>6 DEF PutBackReads
      <4> QED
        BY <2>3, <4>1 DEF TypeOK
    <3>3. UNCHANGED <<queue, cur, pc, draft, accepted, awaiting, restoring, stamp, answer,
                      composer, bashMode, raced, clears, submits, entered, acts, typed>>
      BY <1>6 DEF PutBackReads
    <3> QED
      BY <3>1, <3>2, <3>3 DEF TypeOK, ModuleTyped, WorldTyped
<1>7. ASSUME NEW b \in putBacks, PutBackFills(b) PROVE ModuleTyped' /\ WorldTyped'
  <2>1. b.draft \in Seq(Pieces)
    BY DEF TypeOK, PutBack
  <2>2. raced' \subseteq {"enter", "edit", "overlap", "command", "refused", "rebound"}
    <3>1. raced \subseteq {"enter", "edit", "overlap", "command", "refused", "rebound"}
      BY DEF TypeOK
    <3>2. \/ raced' = raced \cup {x \in {"overlap"} : pc \notin {"idle", "read"}}
          \/ raced' = raced \cup {"refused"}
      BY <1>7 DEF PutBackFills
    <3>3. raced' \subseteq raced \cup {"overlap", "refused"}
      BY <3>2
    <3> QED
      BY <3>1, <3>3
  <2>3. composer' \in Seq(Pieces) /\ bashMode' \in BOOLEAN
    BY <1>7, <2>1 DEF PutBackFills, Fill, TypeOK
  <2> QED
    <3>1. putBacks' = putBacks \ {b}
          /\ UNCHANGED <<queue, cur, pc, draft, accepted, awaiting, restoring, stamp, answer, gone,
                         clears, submits, entered, acts, typed>>
      BY <1>7 DEF PutBackFills
    <3> QED
      BY <2>2, <2>3, <3>1 DEF TypeOK, ModuleTyped, WorldTyped
<1>8. CASE SessionEnds \/ IdMoves
  BY <1>8 DEF SessionEnds, IdMoves, TypeOK, ModuleTyped, WorldTyped
<1>9. CASE SidecarReplaced \/ SidecarRebound
  <2>1. /\ UNCHANGED <<queue, cur, pc, draft, accepted, restoring, putBacks, stamp, answer,
                       composer, bashMode, gone, clears, submits, entered, typed>>
        /\ awaiting' \in {awaiting, FALSE} /\ raced' \in {raced, raced \cup {"rebound"}}
    BY <1>9 DEF SidecarReplaced, SidecarRebound, Bind
  <2>2. acts' \in 0..MaxActs
    BY <1>9, BoundAssumption DEF SidecarReplaced, SidecarRebound, TypeOK
  <2> QED
    BY <2>1, <2>2 DEF TypeOK, ModuleTyped, WorldTyped
<1>10. CASE ClearTold
  <2>1. /\ UNCHANGED <<queue, cur, pc, draft, stamp, answer, composer, bashMode, gone,
                       submits, entered, acts, typed, raced>>
        /\ Cleared
    BY <1>10 DEF ClearTold
  <2>2. clears' \in 0..MaxClears
    BY <1>10, BoundAssumption DEF ClearTold, TypeOK
  <2> QED
    BY <2>1, <2>2, ClearedTyped DEF TypeOK, ModuleTyped, WorldTyped
<1>11. ASSUME NEW b \in putBacks, PutBackThrows(b) PROVE ModuleTyped' /\ WorldTyped'
  <2>1. /\ putBacks' = putBacks \ {b} /\ raced' = raced \cup {"refused"}
        /\ UNCHANGED <<queue, cur, pc, draft, accepted, awaiting, restoring, stamp, answer,
                       composer, bashMode, gone, clears, submits, entered, acts, typed>>
    BY <1>11 DEF PutBackThrows
  <2> QED
    BY <2>1 DEF TypeOK, ModuleTyped, WorldTyped
<1>12. CASE UNCHANGED vars
  BY <1>12 DEF vars, TypeOK, ModuleTyped, WorldTyped
<1> QED
  BY <1>1, <1>2, <1>3, <1>4, <1>5, <1>6, <1>7, <1>8, <1>9, <1>10, <1>11, <1>12 DEF Next

LEMMA TypesStep ==
  ASSUME TypeOK, Asked, Lives, Keys, [Next]_vars
  PROVE  TypeOK'
<1>1. ModuleTyped' /\ WorldTyped'
  BY ModuleStepTyped, OutsideTyped
<1>2. Asked' /\ Keys' /\ keys' \in Nat
  BY AskedStep, KeysStep
<1>3. generation' \in Nat /\ realSid' \in 0..MaxMoves
  BY LivesStep
<1>4. modSid' \in 0..MaxMoves \cup {None}
  <2>1. \A i \in 0..realSid : i \in 0..MaxMoves
    BY BoundAssumption DEF TypeOK
  <2> QED
    BY <2>1, Moved DEF SessionEnds, IdMoves, SidecarReplaced, SidecarRebound, Bind, lifeVars, TypeOK
<1>5. moving' \in {"no", "ended"}
  BY Moved DEF SessionEnds, IdMoves, SidecarReplaced, SidecarRebound, Bind, lifeVars, TypeOK
<1>6. keys' <= Cardinality(Requests)
  <2>1. Answered' \subseteq Requests
    BY DEF Answered
  <2>2. IsFiniteSet(Requests)
    BY BoundAssumption
  <2>3. /\ IsFiniteSet(Answered') /\ Cardinality(Answered') <= Cardinality(Requests)
        /\ Cardinality(Answered') \in Nat /\ Cardinality(Requests) \in Nat
    BY <2>1, <2>2, FS_Subset, FS_CardinalityType
  <2>4. CASE pc' \in {"wait", "backRead", "backFill", "backCheck"}
    <3>1. cur' \in Requests /\ cur' \notin Answered'
      BY <1>1, <1>2, <2>4 DEF ModuleTyped, Asked, Answered
    <3>2. /\ Answered' \cup {cur'} \subseteq Requests
          /\ Cardinality(Answered' \cup {cur'}) = Cardinality(Answered') + 1
      BY <2>1, <2>3, <3>1, FS_AddElement
    <3>3. Cardinality(Answered' \cup {cur'}) <= Cardinality(Requests)
      BY <2>2, <3>2, FS_Subset
    <3>4. keys' <= Cardinality(Answered') + 1
      BY <1>2, <2>4 DEF Keys, Pressed
    <3> QED
      BY <1>2, <2>3, <3>2, <3>3, <3>4
  <2>5. CASE pc' \notin {"wait", "backRead", "backFill", "backCheck"}
    <3>1. keys' <= Cardinality(Answered') + 0
      BY <1>2, <2>5 DEF Keys, Pressed
    <3> QED
      BY <1>2, <2>3, <3>1
  <2> QED
    BY <2>4, <2>5
<1>7. keys' \in 0..Cardinality(Requests)
  BY <1>2, <1>6, AnsweredIs
<1> QED
  BY <1>1, <1>3, <1>4, <1>5, <1>7 DEF TypeOK, ModuleTyped, WorldTyped

LEMMA BaseStep ==
  ASSUME Base, [Next]_vars
  PROVE  Base'
  BY AskedStep, LivesStep, WaitsStep, FewPutBacksStep, KeysStep, TypesStep DEF Base

LEMMA BaseInit == Init => Base
<1> SUFFICES ASSUME Init PROVE Base
  OBVIOUS
<1>1. TypeOK
  <2>1. <<Draft>> \in Seq(Pieces)
    BY DEF Pieces
  <2>2. 0 \in 0..MaxMoves /\ 0 \in 0..MaxActs /\ 0 \in 0..MaxClears /\ 0 \in 0..Cardinality(Requests)
    BY BoundAssumption, AnsweredIs
  <2> QED
    <3>1. queue \in Seq(Requests) /\ submits \in Seq(Seq(Pieces))
          /\ entered \in Seq([text: Seq(Pieces), sid: 0..MaxMoves]) /\ draft \in Seq(Pieces)
      BY DEF Init
    <3>2. /\ stamp \in [Requests -> Stamp \cup {None}]
          /\ answer \in [Requests -> Outcomes \cup {None}]
      BY DEF Init
    <3>3. composer \in Seq(Pieces) /\ bashMode \in BOOLEAN
      BY <2>1 DEF Init
    <3>4. cur \in Requests \cup {None} /\ pc \in Pcs /\ (pc = "idle") = (cur = None)
          /\ accepted \in BOOLEAN /\ awaiting \in BOOLEAN
          /\ restoring \in Restoring \cup {None} /\ putBacks \subseteq PutBack
      BY DEF Init, Pcs
    <3>5. /\ modSid \in 0..MaxMoves \cup {None} /\ generation \in Nat
          /\ realSid \in 0..MaxMoves /\ moving \in {"no", "ended"}
          /\ keys \in 0..Cardinality(Requests) /\ acts \in 0..MaxActs /\ clears \in 0..MaxClears
      BY <2>2 DEF Init
    <3>6. gone \subseteq Pieces /\ typed \in BOOLEAN
          /\ raced \subseteq {"enter", "edit", "overlap", "command", "refused", "rebound"}
      BY DEF Init
    <3> QED
      BY <3>1, <3>2, <3>3, <3>4, <3>5, <3>6 DEF TypeOK
<1>2. Asked
  BY NoneAssumption DEF Init, Asked
<1>3. Lives
  BY DEF Init, Lives
<1>4. Waits
  BY DEF Init, Waits
<1>5. Keys
  <2>1. keys = 0 /\ Pressed = 0
    BY DEF Init, Pressed
  <2> QED
    BY <2>1, AnsweredIs DEF Keys
<1>6. FewPutBacks
  BY FS_EmptySet DEF Init, FewPutBacks
<1> QED
  BY <1>1, <1>2, <1>3, <1>4, <1>5, <1>6 DEF Base

-----------------------------------------------------------------------------
(* Accepted requests are in.                                               *)

Undisturbed == raced \cap {"command", "edit", "overlap", "rebound"} = {}

(* The composer is a bash command's own until its Enter.                   *)
Command ==
  Undisturbed /\ cur # None /\ IsBash(cur) =>
    /\ pc \in {"switch", "append"} => composer = <<>>
    /\ pc = "append" => bashMode
    /\ pc \in {"check", "enter", "wait"} =>
         composer = <<>> \/ (composer = <<Text[cur]>> /\ bashMode)

(* The current request is accepted, or a clear yet to be told is its Enter. *)
TakenNow == accepted \/ (awaiting /\ IsBash(cur) /\ clears > 0)

(* What is accepted, and what went in as it is, of a text in a session.    *)
TakenAs(t, s) ==
  {r \in Requests : /\ Text[r] = t /\ stamp[r] # None /\ stamp[r].sid = s
                    /\ \/ answer[r] = "accepted"
                       \/ r = cur /\ TakenNow /\ stamp[r].generation = generation}
InAs(t, s) == {i \in 1..Len(entered) : entered[i] = [text |-> <<t>>, sid |-> s]}

TakenAreIn ==
  Undisturbed => \A t \in Texts, s \in 0..MaxMoves :
                   Cardinality(TakenAs(t, s)) <= Cardinality(InAs(t, s))

(* A text is no bash command's composer but its own.                       *)
LEMMA CommandStep ==
  ASSUME Base, Command, [Next]_vars
  PROVE  Command'
<1> SUFFICES ASSUME Undisturbed', Undisturbed, cur' # None, IsBash(cur')
             PROVE  /\ pc' \in {"switch", "append"} => composer' = <<>>
                    /\ pc' = "append" => bashMode'
                    /\ pc' \in {"check", "enter", "wait"} =>
                         composer' = <<>> \/ (composer' = <<Text[cur']>> /\ bashMode')
  BY RacedGrows DEF Command, Undisturbed, IsBash
<1> USE DEF keepQueue, keepWaits, keepWorld, boxVars, moduleVars, lifeVars, worldVars, GoTo,
            Answer, Base
<1>1. CASE UNCHANGED <<cur, pc, composer, bashMode>>
  BY <1>1 DEF Command, IsBash
<1>2. CASE cur' = cur /\ pc' = pc /\ composer' = <<>> /\ bashMode' \in {bashMode, FALSE} /\ pc # "append"
  BY <1>2
<1>3. CASE pc' \in {"idle", "read", "fill", "restore", "backRead", "backFill", "backCheck"}
  BY <1>3
<1>4. CASE ModuleStep
  <2>1. CASE FillText
    <3>1. pc' = "switch" => composer' = <<>>
      BY <2>1 DEF FillText, AfterFill, Fill
    <3>2. pc' \in {"check", "backRead", "idle", "switch"}
      BY <2>1 DEF FillText, AfterFill
    <3>3. pc' # "check"
      BY <2>1 DEF FillText, IsBash
    <3> QED
      BY <3>1, <3>2, <3>3
  <2>2. CASE SwitchToBash
    BY <2>2 DEF SwitchToBash, Command, IsBash
  <2>3. CASE AppendCommand
    <3>1. CASE GoTo("restore")
      BY <3>1
    <3>2. CASE composer' = Append(composer, Text[cur]) /\ bashMode' = bashMode /\ GoTo(AfterFill)
      <4>1. composer = <<>> /\ bashMode /\ cur' = cur
        BY <2>3, <3>2 DEF AppendCommand, Command, IsBash
      <4>2. composer' = <<Text[cur]>>
        BY <3>2, <4>1
      <4>3. pc' \in {"check", "backRead"}
        BY <3>2 DEF AfterFill
      <4> QED
        BY <3>2, <4>1, <4>2, <4>3
    <3> QED
      BY <2>3, <3>1, <3>2 DEF AppendCommand
  <2>4. CASE CheckId \/ PressEnter
    BY <2>4 DEF CheckId, PressEnter, Command, IsBash
  <2>5. CASE Start \/ ReadDraft \/ RestoreDraft \/ EndWait \/ BackRead \/ BackFill \/ BackCheck \/ EngineFails
    BY <2>5, <1>3 DEF Start, ReadDraft, RestoreDraft, EndWait, BackRead, BackFill, BackCheck,
       EngineFails, TypeOK
  <2> QED
    BY <1>4, <2>1, <2>2, <2>3, <2>4, <2>5 DEF ModuleStep
<1>5. CASE HarnessTakesKey \/ PersonEnters
  <2>1. cur' = cur /\ pc' = pc /\ EnterTaken
    BY <1>5 DEF HarnessTakesKey, PersonEnters
  <2>2. CASE composer = <<>>
    BY <1>1, <2>1, <2>2 DEF EnterTaken
  <2>3. CASE composer # <<>>
    <3>1. composer' = <<>>
      BY <2>1, <2>3 DEF EnterTaken
    <3>2. pc # "append"
      BY <2>1, <2>3 DEF Command, IsBash
    <3> QED
      BY <2>1, <3>1, <3>2
  <2> QED
    BY <2>2, <2>3
<1>6. CASE PersonTypes
  <2>1. cur' = cur /\ pc' = pc /\ raced' = raced \cup EditRace
    BY <1>6 DEF PersonTypes
  <2>2. pc \notin {"switch", "append", "check", "enter", "wait"}
    BY <2>1 DEF EditRace, Undisturbed, IsBash
  <2> QED
    BY <2>1, <2>2
<1>7. CASE PersonClears
  <2>1. cur' = cur /\ pc' = pc /\ raced' = raced \cup EditRace
    BY <1>7 DEF PersonClears
  <2>2. pc \notin {"switch", "append", "check", "enter", "wait"}
    BY <2>1 DEF EditRace, Undisturbed, IsBash
  <2> QED
    BY <2>1, <2>2
<1>8. ASSUME NEW b \in putBacks, PutBackFills(b)
      PROVE  UNCHANGED <<cur, pc, composer, bashMode>> \/ pc' \in {"idle", "read"}
  <2>1. cur' = cur /\ pc' = pc
    BY <1>8 DEF PutBackFills
  <2>2. CASE pc \in {"idle", "read"}
    BY <2>1, <2>2
  <2>3. CASE pc \notin {"idle", "read"} /\ raced' = raced \cup {x \in {"overlap"} : pc \notin {"idle", "read"}}
    BY <2>3 DEF Undisturbed
  <2> QED
    BY <1>8, <2>1, <2>2, <2>3 DEF PutBackFills
<1>9. CASE \/ \E r \in Requests : Arrive(r)
           \/ \E i \in 1..Len(submits) : SettleSubmit(i)
           \/ \E b \in putBacks : PutBackReads(b) \/ PutBackThrows(b)
           \/ ClearTold
           \/ SessionEnds \/ IdMoves \/ SidecarReplaced \/ SidecarRebound \/ UNCHANGED vars
  <2>1. UNCHANGED <<cur, pc, composer, bashMode>>
    BY <1>9 DEF Arrive, SettleSubmit, PutBackReads, PutBackThrows, ClearTold, SessionEnds, IdMoves, SidecarReplaced, SidecarRebound, Bind, vars
  <2> QED
    BY <2>1, <1>1
<1> QED
  BY <1>1, <1>3, <1>4, <1>5, <1>6, <1>7, <1>8, <1>9 DEF Next

LEMMA LengthsAre == TypeOK => Len(entered) \in Nat /\ Len(submits) \in Nat
  BY DEF TypeOK

LEMMA TakenIs ==
  ASSUME Base, NEW t, NEW s
  PROVE  /\ IsFiniteSet(TakenAs(t, s)) /\ Cardinality(TakenAs(t, s)) \in Nat
         /\ IsFiniteSet(InAs(t, s)) /\ Cardinality(InAs(t, s)) \in Nat
<1>1. IsFiniteSet(TakenAs(t, s))
  <2>1. TakenAs(t, s) \in SUBSET Requests
    BY DEF TakenAs
  <2> QED
    BY <2>1, FS_Subset, BoundAssumption
<1>2. IsFiniteSet(InAs(t, s))
  <2>1. InAs(t, s) \subseteq 1..Len(entered) /\ Len(entered) \in Nat
    BY DEF InAs, Base, TypeOK
  <2> QED
    BY <2>1, PositionsFinite
<1> QED
  BY <1>1, <1>2, FS_CardinalityType

(* What went in stays.                                                     *)
LEMMA EnteredGrows ==
  ASSUME Base, [Next]_vars
  PROVE  Len(entered) <= Len(entered') /\ \A i \in 1..Len(entered) : entered'[i] = entered[i]
<1>1. ASSUME NEW e \in [text: Seq(Pieces), sid: 0..MaxMoves], entered' = Append(entered, e)
      PROVE  Len(entered) <= Len(entered') /\ \A i \in 1..Len(entered) : entered'[i] = entered[i]
  <2>1. entered \in Seq([text: Seq(Pieces), sid: 0..MaxMoves])
    BY DEF Base, TypeOK
  <2> QED
    BY <1>1, <2>1, AppendIs
<1>2. CASE entered' = entered
  <2>1. Len(entered) \in Nat
    BY DEF Base, TypeOK
  <2> QED
    BY <1>2, <2>1
<1>3. CASE HarnessTakesKey \/ PersonEnters
  <2>1. [text |-> composer, sid |-> realSid] \in [text: Seq(Pieces), sid: 0..MaxMoves]
    BY DEF Base, TypeOK
  <2> QED
    BY <1>1, <1>2, <1>3, <2>1 DEF HarnessTakesKey, PersonEnters, EnterTaken
<1>4. ASSUME NEW i \in 1..Len(submits), SettleSubmit(i)
      PROVE  entered' = entered \/ \E e \in [text: Seq(Pieces), sid: 0..MaxMoves] : entered' = Append(entered, e)
  <2>1. submits[i] \in Seq(Pieces) /\ realSid \in 0..MaxMoves
    BY DEF Base, TypeOK
  <2>2. [text |-> submits[i], sid |-> realSid] \in [text: Seq(Pieces), sid: 0..MaxMoves]
    BY <2>1
  <2> QED
    BY <1>4, <2>2 DEF SettleSubmit
<1>5. CASE ModuleStep
  BY <1>2, <1>5 DEF ModuleStep, Start, ReadDraft, FillText, SwitchToBash, AppendCommand,
     keepWorld, worldVars,
     RestoreDraft, CheckId, PressEnter, EndWait, BackRead, BackFill, BackCheck, EngineFails
<1>6. CASE \/ \E r \in Requests : Arrive(r)
           \/ \E b \in putBacks : PutBackReads(b) \/ PutBackFills(b) \/ PutBackThrows(b)
           \/ PersonTypes \/ PersonClears \/ ClearTold
           \/ SessionEnds \/ IdMoves \/ SidecarReplaced \/ SidecarRebound \/ UNCHANGED vars
  BY <1>2, <1>6 DEF Arrive, PutBackReads, PutBackFills, PutBackThrows, PersonTypes, PersonClears,
     ClearTold, SessionEnds, IdMoves, SidecarReplaced, SidecarRebound, Bind, vars, keepWorld, worldVars
<1> QED
  BY <1>1, <1>2, <1>3, <1>4, <1>5, <1>6 DEF Next

(* The submit or the Enter that takes the current request puts its text in. *)
LEMMA AcceptedEnters ==
  ASSUME Base, Base', TakenAreIn, Undisturbed, cur # None,
         UNCHANGED <<cur, stamp, answer, generation>>,
         entered' = Append(entered, [text |-> <<Text[cur]>>, sid |-> realSid])
  PROVE  TakenAreIn'
<1> SUFFICES ASSUME NEW t \in Texts, NEW s \in 0..MaxMoves
             PROVE  Cardinality(TakenAs(t, s)') <= Cardinality(InAs(t, s)')
  BY DEF TakenAreIn
<1>1. Cardinality(TakenAs(t, s)) <= Cardinality(InAs(t, s))
  BY DEF TakenAreIn
<1>2. /\ Len(entered') = Len(entered) + 1 /\ Len(entered) \in Nat
      /\ entered'[Len(entered) + 1] = [text |-> <<Text[cur]>>, sid |-> realSid]
      /\ \A i \in 1..Len(entered) : entered'[i] = entered[i]
  <2>1. entered \in Seq([text: Seq(Pieces), sid: 0..MaxMoves]) /\ realSid \in 0..MaxMoves
        /\ cur \in Requests
    BY DEF Base, TypeOK
  <2>2. [text |-> <<Text[cur]>>, sid |-> realSid] \in [text: Seq(Pieces), sid: 0..MaxMoves]
    BY <2>1, TextsArePieces
  <2> QED
    BY <2>1, <2>2, AppendIs
<1>3. CASE Text[cur] = t /\ stamp[cur].sid = s /\ stamp[cur].generation = generation
  <2>1. realSid = s
    BY <1>3 DEF Base, Lives, Undisturbed
  <2>2. InAs(t, s)' = InAs(t, s) \cup {Len(entered) + 1} /\ Len(entered) + 1 \notin InAs(t, s)
    BY <1>2, <1>3, <2>1 DEF InAs
  <2>3. TakenAs(t, s)' \subseteq TakenAs(t, s) \cup {cur}
    BY DEF TakenAs
  <2>4. Cardinality(InAs(t, s)') = Cardinality(InAs(t, s)) + 1
    BY <2>2, TakenIs, FS_AddElement
  <2>5. /\ IsFiniteSet(TakenAs(t, s) \cup {cur})
        /\ Cardinality(TakenAs(t, s) \cup {cur}) <= Cardinality(TakenAs(t, s)) + 1
    BY TakenIs, OneMore
  <2>6. Cardinality(TakenAs(t, s)') <= Cardinality(TakenAs(t, s) \cup {cur})
    BY <2>3, <2>5, FS_Subset
  <2>7. Cardinality(TakenAs(t, s)') \in Nat /\ Cardinality(TakenAs(t, s) \cup {cur}) \in Nat
    BY <2>3, <2>5, FS_Subset, FS_CardinalityType
  <2> QED
    BY <1>1, <2>4, <2>5, <2>6, <2>7, TakenIs
<1>4. CASE ~(Text[cur] = t /\ stamp[cur].sid = s /\ stamp[cur].generation = generation)
  <2>1. TakenAs(t, s)' \subseteq TakenAs(t, s)
    BY <1>4 DEF TakenAs
  <2>2. InAs(t, s) \subseteq InAs(t, s)'
    BY <1>2 DEF InAs
  <2>3. IsFiniteSet(InAs(t, s)')
    <3>1. InAs(t, s)' \subseteq 1..(Len(entered) + 1)
      BY <1>2 DEF InAs
    <3> QED
      BY <1>2, <3>1, PositionsFinite
  <2>4. Cardinality(TakenAs(t, s)') <= Cardinality(TakenAs(t, s))
    BY <2>1, TakenIs, FS_Subset
  <2>5. Cardinality(InAs(t, s)) <= Cardinality(InAs(t, s)')
    BY <2>2, <2>3, FS_Subset
  <2>6. Cardinality(TakenAs(t, s)') \in Nat /\ Cardinality(InAs(t, s)') \in Nat
    BY <2>1, <2>3, TakenIs, FS_Subset, FS_CardinalityType
  <2> QED
    BY <1>1, <2>4, <2>5, <2>6, TakenIs
<1> QED
  BY <1>3, <1>4

(* Any other step makes no request one of the accepted.                    *)
LEMMA TakenStays ==
  ASSUME Base, Base', [Next]_vars, TakenAreIn, Undisturbed,
         \A r \in Requests :
           /\ stamp[r] # None => stamp'[r] = stamp[r]
           /\ stamp'[r] # None /\ (answer'[r] = "accepted" \/ (r = cur' /\ TakenNow' /\ stamp'[r].generation = generation'))
                => /\ stamp[r] # None
                   /\ answer[r] = "accepted" \/ (r = cur /\ TakenNow /\ stamp[r].generation = generation)
  PROVE  TakenAreIn'
<1> SUFFICES ASSUME NEW t \in Texts, NEW s \in 0..MaxMoves
             PROVE  Cardinality(TakenAs(t, s)') <= Cardinality(InAs(t, s)')
  BY DEF TakenAreIn
<1>1. Cardinality(TakenAs(t, s)) <= Cardinality(InAs(t, s))
  BY DEF TakenAreIn
<1>2. TakenAs(t, s)' \subseteq TakenAs(t, s)
  BY DEF TakenAs
<1>3. InAs(t, s) \subseteq InAs(t, s)'
  <2>1. Len(entered) \in Nat /\ Len(entered') \in Nat
    BY LengthsAre DEF Base
  <2> QED
    BY <2>1, EnteredGrows DEF InAs
<1>4. IsFiniteSet(InAs(t, s)')
  <2>1. InAs(t, s)' \subseteq 1..Len(entered') /\ Len(entered') \in Nat
    BY LengthsAre DEF InAs, Base
  <2> QED
    BY <2>1, PositionsFinite
<1>5. Cardinality(TakenAs(t, s)') <= Cardinality(TakenAs(t, s))
  BY <1>2, TakenIs, FS_Subset
<1>6. Cardinality(InAs(t, s)) <= Cardinality(InAs(t, s)')
  BY <1>3, <1>4, FS_Subset
<1>7. Cardinality(TakenAs(t, s)') \in Nat /\ Cardinality(InAs(t, s)') \in Nat
  BY <1>2, <1>4, TakenIs, FS_Subset, FS_CardinalityType
<1> QED
  BY <1>1, <1>5, <1>6, <1>7, TakenIs

(* An Enter takes the command that is awaited.                             *)
LEMMA EnterAccepts ==
  ASSUME Base, Base', Command, TakenAreIn, Undisturbed, EnterTaken, [Next]_vars,
         UNCHANGED moduleVars, generation' = generation
  PROVE  TakenAreIn'
<1> USE DEF moduleVars
<1>1. CASE composer # <<>> /\ awaiting /\ IsBash(cur)
  <2>1. cur # None /\ pc \in {"enter", "wait"}
    BY <1>1 DEF Base, Waits, TypeOK
  <2>2. composer = <<Text[cur]>> /\ bashMode
    BY <1>1, <2>1 DEF Command
  <2>3. entered' = Append(entered, [text |-> <<Text[cur]>>, sid |-> realSid])
    BY <1>1, <2>2 DEF EnterTaken
  <2> QED
    BY <2>1, <2>3, AcceptedEnters
<1>2. CASE ~(composer # <<>> /\ awaiting /\ IsBash(cur))
  <2>1. TakenNow' => TakenNow
    BY <1>2 DEF EnterTaken, TakenNow, IsBash
  <2> QED
    BY <2>1, TakenStays
<1> QED
  BY <1>1, <1>2

LEMMA TakenAreInStep ==
  ASSUME Base, Base', Command, TakenAreIn, [Next]_vars
  PROVE  TakenAreIn'
<1> SUFFICES ASSUME Undisturbed, Undisturbed' PROVE TakenAreIn'
  BY RacedGrows DEF TakenAreIn, Undisturbed
<1> USE DEF keepQueue, keepWaits, keepWorld, moduleVars, lifeVars, worldVars, GoTo
<1>1. ASSUME UNCHANGED <<cur, stamp, answer, generation>>, TakenNow' => TakenNow PROVE TakenAreIn'
  BY <1>1, TakenStays
<1>2. CASE UNCHANGED <<cur, accepted, awaiting, clears, stamp, answer, generation>>
  BY <1>1, <1>2 DEF TakenNow, IsBash
<1>3. ASSUME NEW r \in Requests, Arrive(r) PROVE TakenAreIn'
  <2>1. PICK at \in 0..realSid : stamp' = [stamp EXCEPT ![r] = [sid |-> at, generation |-> generation]]
    BY <1>3 DEF Arrive
  <2>2. UNCHANGED <<cur, accepted, awaiting, clears, answer, generation>> /\ r # cur
        /\ answer[r] = None /\ stamp[r] = None
    BY <1>3, NoneAssumption DEF Arrive, Base, Asked
  <2>3. \A q \in Requests \ {r} : stamp'[q] = stamp[q]
    BY <2>1 DEF Base, TypeOK
  <2>4. None # "accepted"
    BY NoneAssumption DEF Outcomes
  <2>5. TakenNow' => TakenNow
    BY <2>2 DEF TakenNow, IsBash
  <2> QED
    BY <2>2, <2>3, <2>4, <2>5, TakenStays
<1>4. pc' \in {"idle", "read"} => ~TakenNow'
  BY DEF Base, Waits, TakenNow
<1>5. CASE Start
  <2>1. stamp' = stamp /\ pc' \in {"idle", "read"}
    BY <1>5 DEF Start, Answer
  <2>2. answer' = answer \/ \E r : answer' = [answer EXCEPT ![r] = "not_delivered"]
    BY <1>5 DEF Start, Answer
  <2>3. \A q \in Requests : answer'[q] = "accepted" => answer[q] = "accepted"
    BY <2>2 DEF Base, TypeOK
  <2> QED
    BY <1>4, <2>1, <2>3, TakenStays
<1>6. ASSUME NEW o \in {"not_delivered", "unconfirmed"}, Answer(cur, o), stamp' = stamp
      PROVE  TakenAreIn'
  <2>1. \A q \in Requests : answer'[q] = "accepted" => answer[q] = "accepted"
    BY <1>6 DEF Answer, Base, TypeOK
  <2>2. pc' = "idle"
    BY <1>6 DEF Answer
  <2> QED
    BY <1>4, <1>6, <2>1, <2>2, TakenStays
<1>7. CASE EndWait
  <2>1. CASE ~StaleAtWait /\ accepted /\ Answer(cur, "accepted")
    <3>1. stamp' = stamp /\ pc' = "idle" /\ stamp[cur].generation = generation
          /\ answer' = [answer EXCEPT ![cur] = "accepted"]
      BY <1>7, <2>1 DEF EndWait, Answer, StaleAtWait
    <3>2. \A q \in Requests : answer'[q] = "accepted" => answer[q] = "accepted" \/ q = cur
      BY <3>1 DEF Base, TypeOK
    <3>3. TakenNow
      BY <2>1 DEF TakenNow
    <3> QED
      BY <1>4, <3>1, <3>2, <3>3, TakenStays
  <2>2. CASE UNCHANGED <<cur, accepted, answer>>
    <3>1. UNCHANGED <<stamp, generation>> /\ awaiting' = FALSE
      BY <1>7 DEF EndWait
    <3>2. TakenNow' => TakenNow
      BY <2>2, <3>1 DEF TakenNow
    <3> QED
      BY <1>1, <2>2, <3>1, <3>2
  <2>3. stamp' = stamp
    BY <1>7 DEF EndWait
  <2> QED
    BY <1>6, <1>7, <2>1, <2>2, <2>3 DEF EndWait
<1>8. CASE ReadDraft \/ SwitchToBash \/ AppendCommand \/ PressEnter
  BY <1>2, <1>8 DEF ReadDraft, SwitchToBash, AppendCommand, PressEnter
<1>9. CASE CheckId
  <2>1. UNCHANGED <<cur, accepted, clears, stamp, answer, generation>>
    BY <1>9 DEF CheckId
  <2>2. \/ awaiting' = awaiting
        \/ raced' = raced \cup {x \in {"command"} : IsBash(cur) /\ clears > 0}
    BY <1>9 DEF CheckId
  <2>3. TakenNow' => TakenNow
    BY <2>1, <2>2 DEF TakenNow, Undisturbed, IsBash
  <2> QED
    BY <1>1, <2>1, <2>3
<1>10. CASE FillText \/ RestoreDraft
  BY <1>2, <1>6, <1>10 DEF FillText, RestoreDraft
<1>11. CASE BackRead \/ BackFill \/ BackCheck \/ EngineFails
  BY <1>2, <1>6, <1>11 DEF BackRead, BackFill, BackCheck, EngineFails
<1>12. CASE HarnessTakesKey \/ PersonEnters
  BY <1>12, EnterAccepts DEF HarnessTakesKey, PersonEnters
<1>13. ASSUME NEW i \in 1..Len(submits), SettleSubmit(i) PROVE TakenAreIn'
  <2>1. UNCHANGED <<cur, clears, stamp, answer, generation>>
    BY <1>13 DEF SettleSubmit
  <2>2. CASE UNCHANGED <<accepted, awaiting>>
    BY <1>2, <2>1, <2>2
  <2>3. CASE /\ TakesAwaited(submits[i])
             /\ entered' = Append(entered, [text |-> submits[i], sid |-> realSid])
    <3>1. submits[i] = <<Text[cur]>> /\ cur # None
      BY <2>3 DEF TakesAwaited, Base, Waits, TypeOK
    <3> QED
      BY <2>1, <2>3, <3>1, AcceptedEnters
  <2> QED
    BY <1>13, <2>2, <2>3 DEF SettleSubmit
<1>14. CASE PersonClears
  <2>1. raced' = raced \cup EditRace /\ UNCHANGED moduleVars /\ generation' = generation
    BY <1>14 DEF PersonClears
  <2>2. ~(awaiting /\ IsBash(cur))
    BY <2>1 DEF EditRace, Base, Waits, Undisturbed
  <2>3. TakenNow' => TakenNow
    BY <2>1, <2>2 DEF TakenNow, IsBash
  <2> QED
    BY <1>1, <2>1, <2>3
<1>15. CASE ClearTold
  <2>1. UNCHANGED <<cur, stamp, answer, generation>> /\ Cleared /\ clears > 0
    BY <1>15 DEF ClearTold
  <2>2. TakenNow' => TakenNow
    BY <2>1 DEF Cleared, TakenNow, IsBash
  <2> QED
    BY <1>1, <2>1, <2>2
<1>16. CASE PersonTypes \/ IdMoves \/ UNCHANGED vars
            \/ \E b \in putBacks : PutBackReads(b) \/ PutBackFills(b) \/ PutBackThrows(b)
  <2>1. UNCHANGED <<cur, accepted, awaiting, clears, stamp, answer, generation>>
    BY <1>16 DEF PersonTypes, IdMoves, vars, PutBackReads, PutBackFills, PutBackThrows
  <2> QED
    BY <1>2, <2>1
<1>17. CASE SessionEnds \/ SidecarReplaced \/ SidecarRebound
  <2>1. UNCHANGED <<cur, accepted, clears, stamp, answer>>
    BY <1>17 DEF SessionEnds, SidecarReplaced, SidecarRebound, Bind
  <2>2. CASE UNCHANGED <<awaiting, generation>>
    BY <1>2, <2>1, <2>2
  <2>3. CASE generation' = generation + 1
    <3>1. cur # None => stamp[cur].generation # generation + 1
      <4>1. cur # None => stamp[cur] \in Stamp /\ stamp[cur].generation <= generation
        BY DEF Base, Lives, Asked, TypeOK
      <4>2. generation \in Nat /\ \A x \in Stamp : x.generation \in Nat
        BY DEF Base, TypeOK, Stamp
      <4> QED
        BY <4>1, <4>2
    <3>2. \A q \in Requests : q = cur => cur # None
      BY NoneAssumption
    <3> QED
      BY <2>1, <2>3, <3>1, <3>2, TakenStays
  <2> QED
    BY <1>17, <2>2, <2>3 DEF SessionEnds, SidecarReplaced, SidecarRebound, Bind
<1> QED
  BY <1>3, <1>5, <1>7, <1>8, <1>9, <1>10, <1>11, <1>12, <1>13, <1>14, <1>15, <1>16, <1>17
     DEF Next, ModuleStep

(* Accepted requests are among those taken.                                *)
LEMMA TakenCover ==
  ASSUME Base, TakenAreIn
  PROVE  AcceptedIsIn
<1> SUFFICES ASSUME Undisturbed, NEW t \in Texts, NEW s \in 0..MaxMoves
             PROVE  Cardinality({r \in Requests : /\ Text[r] = t /\ answer[r] = "accepted"
                                                  /\ stamp[r].sid = s})
                      <= Cardinality(InAs(t, s))
  BY DEF AcceptedIsIn, Undisturbed, InAs
<1> DEFINE acc == {r \in Requests : Text[r] = t /\ answer[r] = "accepted" /\ stamp[r].sid = s}
<1>1. acc \subseteq TakenAs(t, s)
  <2>1. \A r \in Requests : answer[r] = "accepted" => stamp[r] # None
    BY NoneAssumption DEF Base, Asked, Outcomes
  <2> QED
    BY <2>1 DEF TakenAs
<1>2. Cardinality(acc) <= Cardinality(TakenAs(t, s)) /\ Cardinality(acc) \in Nat
  BY <1>1, TakenIs, PartIsFewer
<1>3. Cardinality(TakenAs(t, s)) <= Cardinality(InAs(t, s))
  BY DEF TakenAreIn
<1> HIDE DEF acc
<1>4. Cardinality(acc) <= Cardinality(InAs(t, s))
  BY <1>2, <1>3, TakenIs
<1> QED
  BY <1>4 DEF acc

-----------------------------------------------------------------------------
(* A request not delivered is out: the copies of a text that are in, on    *)
(* the way in, in the composer or kept as a draft are never more than the  *)
(* requests whose text was put in the composer and not taken out again.    *)

One(p) == IF p THEN 1 ELSE 0

SubmitsWith(t) == {i \in 1..Len(submits) : Holds(submits[i], t)}
PutBacksHolding(t) == {b \in putBacks : Holds(b.draft, t)}
RestoringWith(t) == restoring # None /\ Holds(restoring.draft, t)

Sending == pc \in {"check", "enter", "wait", "backRead", "backFill"}
Sent(t) ==
  {r \in Requests : /\ Text[r] = t /\ stamp[r] # None
                    /\ answer[r] \in {"accepted", "unconfirmed"} \/ (r = cur /\ Sending)}

(* The draft is nowhere else.                                              *)
DraftCounts == pc \in {"switch", "append", "restore", "check", "backRead", "backFill"}
DraftWith(t) == DraftCounts /\ Holds(draft, t)
InBox(t) == Holds(composer, t) \/ (pc = "fill" /\ Holds(draft, t))

Copies(t) ==
  Cardinality(EnteredWith(t)) + Cardinality(SubmitsWith(t)) + Cardinality(PutBacksHolding(t))
    + One(RestoringWith(t)) + One(DraftWith(t))

Enough ==
  "enter" \notin raced => \A t \in Texts :
    /\ Copies(t) + One(InBox(t)) <= Cardinality(Sent(t))
    /\ pc = "backFill" => Copies(t) <= Cardinality(Sent(t) \ {cur})

LEMMA OneIs == \A p : One(p) \in {0, 1} /\ (p => One(p) = 1) /\ (~p => One(p) = 0)
  BY DEF One

LEMMA CountsAre ==
  ASSUME Base, NEW t
  PROVE  /\ IsFiniteSet(EnteredWith(t)) /\ Cardinality(EnteredWith(t)) \in Nat
         /\ IsFiniteSet(SubmitsWith(t)) /\ Cardinality(SubmitsWith(t)) \in Nat
         /\ IsFiniteSet(PutBacksHolding(t)) /\ Cardinality(PutBacksHolding(t)) \in Nat
         /\ IsFiniteSet(Sent(t)) /\ Cardinality(Sent(t)) \in Nat
         /\ One(RestoringWith(t)) \in Nat /\ One(DraftWith(t)) \in Nat /\ One(InBox(t)) \in Nat
         /\ Copies(t) \in Nat
<1>1. Len(entered) \in Nat /\ Len(submits) \in Nat
  BY LengthsAre DEF Base
<1>2. EnteredWith(t) \subseteq 1..Len(entered) /\ SubmitsWith(t) \subseteq 1..Len(submits)
  BY DEF EnteredWith, SubmitsWith
<1>3. IsFiniteSet(EnteredWith(t)) /\ Cardinality(EnteredWith(t)) \in Nat
      /\ IsFiniteSet(SubmitsWith(t)) /\ Cardinality(SubmitsWith(t)) \in Nat
  BY <1>1, <1>2, PositionsFinite
<1>4. PutBacksHolding(t) \subseteq putBacks /\ IsFiniteSet(putBacks)
  BY DEF PutBacksHolding, Base, FewPutBacks
<1>5. IsFiniteSet(PutBacksHolding(t)) /\ Cardinality(PutBacksHolding(t)) \in Nat
  BY <1>4, PartIsFewer
<1>6. Sent(t) \subseteq Requests /\ IsFiniteSet(Requests)
  BY BoundAssumption DEF Sent
<1>7. IsFiniteSet(Sent(t)) /\ Cardinality(Sent(t)) \in Nat
  BY <1>6, PartIsFewer
<1>8. One(RestoringWith(t)) \in Nat /\ One(DraftWith(t)) \in Nat /\ One(InBox(t)) \in Nat
  BY OneIs
<1> QED
  BY <1>3, <1>5, <1>7, <1>8 DEF Copies

-----------------------------------------------------------------------------
(* How the parts change.                                                   *)

LEMMA EnteredAppended ==
  ASSUME Base, NEW t, NEW text \in Seq(Pieces),
         entered' = Append(entered, [text |-> text, sid |-> realSid])
  PROVE  /\ Cardinality(EnteredWith(t)') = Cardinality(EnteredWith(t)) + One(Holds(text, t))
<1>1. /\ Len(entered') = Len(entered) + 1 /\ Len(entered) \in Nat
      /\ entered'[Len(entered) + 1] = [text |-> text, sid |-> realSid]
      /\ \A i \in 1..Len(entered) : entered'[i] = entered[i]
  <2>1. entered \in Seq([text: Seq(Pieces), sid: 0..MaxMoves]) /\ realSid \in 0..MaxMoves
    BY DEF Base, TypeOK
  <2>2. [text |-> text, sid |-> realSid] \in [text: Seq(Pieces), sid: 0..MaxMoves]
    BY <2>1
  <2> QED
    BY <2>1, <2>2, AppendIs
<1>2. CASE Holds(text, t)
  <2>1. EnteredWith(t)' = EnteredWith(t) \cup {Len(entered) + 1}
        /\ Len(entered) + 1 \notin EnteredWith(t)
    BY <1>1, <1>2 DEF EnteredWith
  <2> QED
    BY <1>2, <2>1, CountsAre, OneMore, OneIs
<1>3. CASE ~Holds(text, t)
  <2>1. EnteredWith(t)' = EnteredWith(t)
    BY <1>1, <1>3 DEF EnteredWith
  <2>2. One(Holds(text, t)) = 0
    BY <1>3, OneIs
  <2> QED
    BY <2>1, <2>2, CountsAre
<1> QED
  BY <1>2, <1>3

LEMMA SubmitsAppended ==
  ASSUME Base, NEW t, submits' = Append(submits, composer)
  PROVE  Cardinality(SubmitsWith(t)') = Cardinality(SubmitsWith(t)) + One(Holds(composer, t))
<1>1. /\ Len(submits') = Len(submits) + 1 /\ Len(submits) \in Nat
      /\ submits'[Len(submits) + 1] = composer
      /\ \A i \in 1..Len(submits) : submits'[i] = submits[i]
  <2>1. submits \in Seq(Seq(Pieces)) /\ composer \in Seq(Pieces)
    BY DEF Base, TypeOK
  <2> QED
    BY <2>1, AppendIs
<1>2. CASE Holds(composer, t)
  <2>1. SubmitsWith(t)' = SubmitsWith(t) \cup {Len(submits) + 1}
        /\ Len(submits) + 1 \notin SubmitsWith(t)
    BY <1>1, <1>2 DEF SubmitsWith
  <2> QED
    BY <1>2, <2>1, CountsAre, OneMore, OneIs
<1>3. CASE ~Holds(composer, t)
  <2>1. SubmitsWith(t)' = SubmitsWith(t)
    BY <1>1, <1>3 DEF SubmitsWith
  <2>2. One(Holds(composer, t)) = 0
    BY <1>3, OneIs
  <2> QED
    BY <2>1, <2>2, CountsAre
<1> QED
  BY <1>2, <1>3

(* A submit that settled is one less.                                      *)
LEMMA SubmitsRemoved ==
  ASSUME Base, NEW t, NEW i \in 1..Len(submits), submits' = RemoveAt(submits, i)
  PROVE  /\ Cardinality(SubmitsWith(t)') + One(Holds(submits[i], t)) <= Cardinality(SubmitsWith(t))
         /\ Cardinality(SubmitsWith(t)') \in Nat
<1>1. /\ Len(submits) \in Nat /\ Len(submits') = Len(submits) - 1
      /\ \A j \in 1..(Len(submits) - 1) : submits'[j] = IF j < i THEN submits[j] ELSE submits[j + 1]
  <2>1. submits \in Seq(Seq(Pieces))
    BY DEF Base, TypeOK
  <2>2. /\ Len(RemoveAt(submits, i)) = Len(submits) - 1
        /\ \A j \in 1..(Len(submits) - 1) :
             RemoveAt(submits, i)[j] = IF j < i THEN submits[j] ELSE submits[j + 1]
    BY <2>1, RemoveAtIs, Zenon
  <2> QED
    BY <2>2, LengthsAre DEF Base
<1> DEFINE old == SubmitsWith(t) \ {i}
           new == SubmitsWith(t)'
           f == [j \in new |-> IF j < i THEN j ELSE j + 1]
<1>2. f \in [new -> old]
  BY <1>1 DEF SubmitsWith
<1>3. new \subseteq Int
  BY <1>1 DEF SubmitsWith
<1>4. \A j, k \in new : f[j] = f[k] => j = k
  <2> SUFFICES ASSUME NEW j \in new, NEW k \in new, f[j] = f[k] PROVE j = k
    OBVIOUS
  <2>1. j \in Int /\ k \in Int /\ i \in Int
    BY <1>3
  <2>2. f[j] = (IF j < i THEN j ELSE j + 1) /\ f[k] = (IF k < i THEN k ELSE k + 1)
    OBVIOUS
  <2>3. (IF j < i THEN j ELSE j + 1) = (IF k < i THEN k ELSE k + 1)
    BY <2>2
  <2> HIDE DEF f, new
  <2> QED
    BY <2>1, <2>3
<1>5. f \in Injection(new, old)
  <2> HIDE DEF f, new, old
  <2> QED
    BY <1>2, <1>4 DEF Injection, IsInjective
<1>6. /\ IsFiniteSet(old)
      /\ Cardinality(old) = IF i \in SubmitsWith(t) THEN Cardinality(SubmitsWith(t)) - 1
                                                    ELSE Cardinality(SubmitsWith(t))
  BY CountsAre, FS_RemoveElement
<1> HIDE DEF f
<1>7. IsFiniteSet(new) /\ Cardinality(new) <= Cardinality(old)
  <2> HIDE DEF new, old
  <2> QED
    BY <1>5, <1>6, FS_Injection
<1>8. Cardinality(new) \in Nat
  <2> HIDE DEF new, old
  <2> QED
    BY <1>7, FS_CardinalityType
<1>9. Holds(submits[i], t) <=> i \in SubmitsWith(t)
  BY DEF SubmitsWith
<1>10. Cardinality(old) + One(Holds(submits[i], t)) = Cardinality(SubmitsWith(t)) /\ Cardinality(old) \in Nat
  <2>1. Cardinality(SubmitsWith(t)) \in Nat /\ Cardinality(old) \in Nat
    BY <1>6, CountsAre, FS_CardinalityType
  <2>2. CASE i \in SubmitsWith(t)
    BY <1>6, <1>9, <2>1, <2>2, OneIs
  <2>3. CASE i \notin SubmitsWith(t)
    BY <1>6, <1>9, <2>1, <2>3, OneIs
  <2> QED
    BY <2>2, <2>3
<1>11. One(Holds(submits[i], t)) \in {0, 1}
  BY OneIs
<1> HIDE DEF old
<1> QED
  BY <1>7, <1>8, <1>10, <1>11

(* A draft that is put back now, or not, instead of waiting for a submit.  *)
LEMMA DraftHandedOver ==
  ASSUME Base, NEW t,
         \/ UNCHANGED <<restoring, putBacks>>
         \/ restoring # None /\ restoring' = None /\ putBacks' = PutBacksWith(restoring)
  PROVE  /\ Cardinality(PutBacksHolding(t)') + One(RestoringWith(t)')
              <= Cardinality(PutBacksHolding(t)) + One(RestoringWith(t))
         /\ Cardinality(PutBacksHolding(t)') \in Nat /\ One(RestoringWith(t)') \in Nat
<1>1. CASE UNCHANGED <<restoring, putBacks>>
  <2>1. PutBacksHolding(t)' = PutBacksHolding(t) /\ RestoringWith(t)' = RestoringWith(t)
    BY <1>1 DEF PutBacksHolding, RestoringWith
  <2> QED
    BY <2>1, CountsAre
<1>2. CASE restoring # None /\ restoring' = None /\ putBacks' = PutBacksWith(restoring)
  <2> DEFINE c == [req |-> restoring.req, draft |-> restoring.draft, phase |-> "read"]
  <2>1. PutBacksHolding(t)' \subseteq PutBacksHolding(t) \cup {c}
    BY <1>2 DEF PutBacksHolding, PutBacksWith
  <2>2. ~RestoringWith(t)'
    BY <1>2 DEF RestoringWith
  <2>3. One(RestoringWith(t)') = 0
    BY <2>2, OneIs
  <2>4. CASE RestoringWith(t)
    <3>1. One(RestoringWith(t)) = 1
      BY <2>4, OneIs
    <3> HIDE DEF c
    <3>2. /\ IsFiniteSet(PutBacksHolding(t) \cup {c})
          /\ Cardinality(PutBacksHolding(t) \cup {c}) <= Cardinality(PutBacksHolding(t)) + 1
      BY CountsAre, OneMore
    <3>3. /\ Cardinality(PutBacksHolding(t)') <= Cardinality(PutBacksHolding(t) \cup {c})
          /\ Cardinality(PutBacksHolding(t)') \in Nat
          /\ Cardinality(PutBacksHolding(t) \cup {c}) \in Nat
      BY <2>1, <3>2, PartIsFewer
    <3> QED
      BY <2>3, <3>1, <3>2, <3>3, CountsAre
  <2>5. CASE ~RestoringWith(t)
    <3>1. ~Holds(c.draft, t)
      BY <1>2, <2>5 DEF RestoringWith
    <3>2. PutBacksHolding(t)' \subseteq PutBacksHolding(t)
      BY <1>2, <3>1 DEF PutBacksHolding, PutBacksWith
    <3>3. Cardinality(PutBacksHolding(t)') <= Cardinality(PutBacksHolding(t))
          /\ Cardinality(PutBacksHolding(t)') \in Nat
      BY <3>2, CountsAre, PartIsFewer
    <3> QED
      BY <2>3, <3>3, CountsAre
  <2> QED
    BY <2>4, <2>5
<1> QED
  BY <1>1, <1>2

LEMMA PutBackTaken ==
  ASSUME Base, NEW t, NEW b \in putBacks, putBacks' = putBacks \ {b}
  PROVE  /\ Cardinality(PutBacksHolding(t)') + One(Holds(b.draft, t)) = Cardinality(PutBacksHolding(t))
         /\ Cardinality(PutBacksHolding(t)') \in Nat
<1>1. CASE Holds(b.draft, t)
  <2>1. PutBacksHolding(t)' = PutBacksHolding(t) \ {b} /\ b \in PutBacksHolding(t)
    BY <1>1 DEF PutBacksHolding
  <2>2. Cardinality(PutBacksHolding(t)') = Cardinality(PutBacksHolding(t)) - 1
    BY <2>1, CountsAre, FS_RemoveElement
  <2>3. Cardinality(PutBacksHolding(t)') \in Nat
    BY <2>1, CountsAre, PartIsFewer
  <2>4. One(Holds(b.draft, t)) = 1
    BY <1>1, OneIs
  <2> QED
    BY <2>2, <2>3, <2>4, CountsAre
<1>2. CASE ~Holds(b.draft, t)
  <2>1. PutBacksHolding(t)' = PutBacksHolding(t)
    BY <1>2 DEF PutBacksHolding
  <2>2. One(Holds(b.draft, t)) = 0
    BY <1>2, OneIs
  <2> QED
    BY <2>1, <2>2, CountsAre
<1> QED
  BY <1>1, <1>2

LEMMA PutBackFollowed ==
  ASSUME Base, NEW t, NEW b \in putBacks,
         putBacks' = (putBacks \ {b}) \cup {[b EXCEPT !.phase = "fill"]}
  PROVE  /\ Cardinality(PutBacksHolding(t)') <= Cardinality(PutBacksHolding(t))
         /\ Cardinality(PutBacksHolding(t)') \in Nat
<1> DEFINE c == [b EXCEPT !.phase = "fill"]
<1>1. c.draft = b.draft
  BY DEF Base, TypeOK, PutBack
<1>2. CASE Holds(b.draft, t)
  <2>1. PutBacksHolding(t)' = (PutBacksHolding(t) \ {b}) \cup {c} /\ b \in PutBacksHolding(t)
    BY <1>1, <1>2 DEF PutBacksHolding
  <2> HIDE DEF c
  <2>2. IsFiniteSet(PutBacksHolding(t) \ {b})
        /\ Cardinality(PutBacksHolding(t) \ {b}) = Cardinality(PutBacksHolding(t)) - 1
    BY <2>1, CountsAre, FS_RemoveElement
  <2>3. Cardinality((PutBacksHolding(t) \ {b}) \cup {c}) <= Cardinality(PutBacksHolding(t) \ {b}) + 1
        /\ Cardinality((PutBacksHolding(t) \ {b}) \cup {c}) \in Nat
    BY <2>2, OneMore
  <2> QED
    BY <2>1, <2>2, <2>3, CountsAre
<1>3. CASE ~Holds(b.draft, t)
  <2>1. PutBacksHolding(t)' = PutBacksHolding(t)
    BY <1>1, <1>3 DEF PutBacksHolding
  <2> QED
    BY <2>1, CountsAre
<1> QED
  BY <1>2, <1>3

-----------------------------------------------------------------------------
(* The steps.                                                              *)

(* No step takes a request out of those sent but the one that puts the     *)
(* draft back.                                                             *)
LEMMA EnoughKept ==
  ASSUME Base, Base', Enough, "enter" \notin raced,
         \A t \in Texts : /\ Sent(t) \subseteq Sent(t)'
                          /\ Copies(t)' + One(InBox(t)') <= Copies(t) + One(InBox(t)),
         pc' = "backFill" => pc = "backFill" /\ cur' = cur
                             /\ \A t \in Texts : Copies(t)' <= Copies(t)
  PROVE  Enough'
<1> SUFFICES ASSUME NEW t \in Texts
             PROVE  /\ Copies(t)' + One(InBox(t)') <= Cardinality(Sent(t)')
                    /\ pc' = "backFill" => Copies(t)' <= Cardinality(Sent(t)' \ {cur'})
  BY DEF Enough
<1>1. /\ Copies(t) + One(InBox(t)) <= Cardinality(Sent(t))
      /\ pc = "backFill" => Copies(t) <= Cardinality(Sent(t) \ {cur})
  BY DEF Enough
<1>2. IsFiniteSet(Sent(t)')
  <2>1. Sent(t)' \subseteq Requests
    BY DEF Sent
  <2> QED
    BY <2>1, PartIsFewer, BoundAssumption
<1>3. Cardinality(Sent(t)) <= Cardinality(Sent(t)') /\ Cardinality(Sent(t)') \in Nat
  BY <1>2, PartIsFewer
<1>4. One(InBox(t)') \in Nat /\ Copies(t)' \in Nat
  <2>1. One(InBox(t)') \in Nat
    BY OneIs
  <2>2. (Copies(t) \in Nat)'
    BY CountsAre, PTL
  <2> QED
    BY <2>1, <2>2
<1>5. Copies(t) \in Nat /\ One(InBox(t)) \in Nat /\ Cardinality(Sent(t)) \in Nat
  BY CountsAre
<1>6. Copies(t)' + One(InBox(t)') <= Copies(t) + One(InBox(t))
  OBVIOUS
<1>7. ASSUME pc' = "backFill" PROVE Copies(t)' <= Cardinality(Sent(t)' \ {cur'})
  <2>1. Copies(t) <= Cardinality(Sent(t) \ {cur}) /\ Copies(t)' <= Copies(t)
    BY <1>1, <1>7
  <2>2. Sent(t) \ {cur} \subseteq Sent(t)' \ {cur'}
    BY <1>7
  <2>3. IsFiniteSet(Sent(t)' \ {cur'})
    BY <1>2, FS_RemoveElement
  <2>4. /\ Cardinality(Sent(t) \ {cur}) <= Cardinality(Sent(t)' \ {cur'})
        /\ Cardinality(Sent(t) \ {cur}) \in Nat /\ Cardinality(Sent(t)' \ {cur'}) \in Nat
    BY <2>2, <2>3, PartIsFewer
  <2> QED
    BY <1>4, <1>5, <2>1, <2>4
<1> QED
  BY <1>1, <1>3, <1>4, <1>5, <1>6, <1>7

(* A step of the request itself: the submits and the drafts being put back *)
(* are as they were.                                                       *)
LEMMA OwnCopies ==
  ASSUME Base, NEW t, UNCHANGED <<entered, submits, putBacks>>
  PROVE  \E n \in Nat : /\ Copies(t) = n + One(RestoringWith(t)) + One(DraftWith(t))
                        /\ Copies(t)' = n + One(RestoringWith(t)') + One(DraftWith(t)')
<1> DEFINE n == Cardinality(EnteredWith(t)) + Cardinality(SubmitsWith(t)) + Cardinality(PutBacksHolding(t))
<1>1. n \in Nat
  BY CountsAre
<1>2. EnteredWith(t)' = EnteredWith(t) /\ SubmitsWith(t)' = SubmitsWith(t)
      /\ PutBacksHolding(t)' = PutBacksHolding(t)
  BY DEF EnteredWith, SubmitsWith, PutBacksHolding
<1>3. Copies(t) = n + One(RestoringWith(t)) + One(DraftWith(t))
  BY DEF Copies
<1>4. Copies(t)' = n + One(RestoringWith(t)') + One(DraftWith(t)')
  BY <1>2 DEF Copies
<1> HIDE DEF n
<1> QED
  BY <1>1, <1>3, <1>4

(* The request is answered, with its text out of the composer or not.      *)
LEMMA SentAnswered ==
  ASSUME Base, NEW o \in Outcomes, cur # None, stamp' = stamp, Answer(cur, o), NEW t
  PROVE  /\ o # "not_delivered" => Sent(t) \subseteq Sent(t)'
         /\ ~Sending => Sent(t) \subseteq Sent(t)'
<1>1. answer' = [answer EXCEPT ![cur] = o] /\ cur \in Requests /\ answer[cur] = None
  BY DEF Answer, Base, TypeOK, Asked
<1>2. \A r \in Requests : answer'[r] = IF r = cur THEN o ELSE answer[r]
  BY <1>1 DEF Base, TypeOK
<1>3. o \in {"accepted", "unconfirmed", "not_delivered"} /\ None \notin {"accepted", "unconfirmed"}
  BY NoneAssumption DEF Outcomes
<1> QED
  BY <1>1, <1>2, <1>3 DEF Sent

LEMMA SentKept ==
  ASSUME Base, UNCHANGED <<stamp, answer>>, NEW t,
         \/ cur' = cur /\ (Sending => Sending')
         \/ ~Sending
  PROVE  Sent(t) \subseteq Sent(t)'
  BY DEF Sent

(* FillText and AppendCommand put the text of the request in.              *)
LEMMA TextPutIn ==
  ASSUME Base, Base', Enough, "enter" \notin raced,
         pc \in {"fill", "append"}, pc' \in {"check", "backRead"},
         UNCHANGED <<cur, stamp, answer, draft, restoring, entered, submits, putBacks>>,
         \A t \in Texts : Holds(composer', t) => t = Text[cur] \/ (pc = "append" /\ Holds(composer, t))
  PROVE  Enough'
<1> SUFFICES ASSUME NEW t \in Texts
             PROVE  Copies(t)' + One(InBox(t)') <= Cardinality(Sent(t)')
  BY DEF Enough
<1>1. Copies(t) + One(InBox(t)) <= Cardinality(Sent(t))
  BY DEF Enough
<1>2. PICK n \in Nat : /\ Copies(t) = n + One(RestoringWith(t)) + One(DraftWith(t))
                       /\ Copies(t)' = n + One(RestoringWith(t)') + One(DraftWith(t)')
  BY OwnCopies
<1>3. One(RestoringWith(t)') = One(RestoringWith(t))
  BY DEF RestoringWith
<1>4. /\ One(RestoringWith(t)) \in {0, 1} /\ One(DraftWith(t)) \in {0, 1}
      /\ One(DraftWith(t)') \in {0, 1} /\ One(InBox(t)) \in {0, 1} /\ One(InBox(t)') \in {0, 1}
  BY OneIs
<1>5. cur \in Requests /\ stamp[cur] # None /\ answer[cur] = None
  BY DEF Base, TypeOK, Asked
<1>6. cur \notin Sent(t)
  <2>1. None \notin {"accepted", "unconfirmed"}
    BY NoneAssumption DEF Outcomes
  <2> QED
    BY <1>5, <2>1 DEF Sent, Sending
<1>7. InBox(t)' => t = Text[cur] \/ (pc = "append" /\ InBox(t))
  BY DEF InBox
<1>8. One(DraftWith(t)') + One(InBox(t)') <= One(DraftWith(t)) + One(InBox(t)) + One(t = Text[cur])
  <2>1. CASE pc = "fill"
    <3>1. DraftWith(t)' => InBox(t)
      BY <2>1 DEF DraftWith, InBox
    <3>2. InBox(t)' => t = Text[cur]
      BY <1>7, <2>1
    <3> QED
      BY <3>1, <3>2 DEF One
  <2>2. CASE pc = "append"
    <3>1. DraftWith(t)' => DraftWith(t)
      BY <2>2 DEF DraftWith, DraftCounts
    <3>2. InBox(t)' => t = Text[cur] \/ InBox(t)
      BY <1>7
    <3> QED
      BY <3>1, <3>2 DEF One
  <2> QED
    BY <2>1, <2>2
<1>9. CASE t = Text[cur]
  <2>1. Sent(t)' = Sent(t) \cup {cur}
    BY <1>5, <1>9 DEF Sent, Sending
  <2>2. Cardinality(Sent(t)') = Cardinality(Sent(t)) + 1
    BY <1>6, <2>1, CountsAre, OneMore
  <2>3. One(t = Text[cur]) = 1
    BY <1>9, OneIs
  <2> QED
    BY <1>1, <1>2, <1>3, <1>4, <1>8, <2>2, <2>3, CountsAre
<1>10. CASE t # Text[cur]
  <2>1. Sent(t)' = Sent(t)
    BY <1>5, <1>10 DEF Sent, Sending
  <2>2. One(t = Text[cur]) = 0
    BY <1>10, OneIs
  <2> QED
    BY <1>1, <1>2, <1>3, <1>4, <1>8, <2>1, <2>2, CountsAre
<1> QED
  BY <1>9, <1>10

LEMMA OwnStepEnough ==
  ASSUME Base, Base', Enough, "enter" \notin raced, ModuleStep
  PROVE  Enough'
<1> USE DEF keepQueue, keepWaits, keepWorld, moduleVars, boxVars, worldVars, GoTo
<1>1. ASSUME UNCHANGED <<entered, submits, putBacks>>, pc' # "backFill",
             \A t \in Texts : Sent(t) \subseteq Sent(t)',
             \A t \in Texts : One(RestoringWith(t)') + One(DraftWith(t)') + One(InBox(t)')
                                <= One(RestoringWith(t)) + One(DraftWith(t)) + One(InBox(t))
      PROVE  Enough'
  <2>1. ASSUME NEW t \in Texts
        PROVE  Copies(t)' + One(InBox(t)') <= Copies(t) + One(InBox(t))
    <3>1. PICK n \in Nat : /\ Copies(t) = n + One(RestoringWith(t)) + One(DraftWith(t))
                           /\ Copies(t)' = n + One(RestoringWith(t)') + One(DraftWith(t)')
      BY <1>1, OwnCopies
    <3>2. /\ One(RestoringWith(t)) \in {0, 1} /\ One(DraftWith(t)) \in {0, 1}
          /\ One(DraftWith(t)') \in {0, 1} /\ One(InBox(t)) \in {0, 1} /\ One(InBox(t)') \in {0, 1}
          /\ One(RestoringWith(t)') \in {0, 1}
      BY OneIs
    <3> QED
      BY <1>1, <3>1, <3>2
  <2> QED
    BY <1>1, <2>1, EnoughKept
<1> USE DEF One, RestoringWith, DraftWith, DraftCounts, InBox
<1>2. CASE Start
  <2>1. UNCHANGED <<entered, submits, putBacks, restoring, composer>> /\ pc = "idle" /\ pc' \in {"idle", "read"}
    BY <1>2 DEF Start, Answer, Base, TypeOK
  <2>2. ASSUME NEW t \in Texts PROVE Sent(t) \subseteq Sent(t)'
    <3>1. queue \in Seq(Requests) /\ queue # <<>> /\ cur = None /\ stamp' = stamp
      BY <1>2 DEF Start, Base, TypeOK
    <3>2. Head(queue) = queue[1] /\ 1 \in 1..Len(queue) /\ Head(queue) \in Requests
      BY <3>1, TailIs
    <3>3. answer[Head(queue)] = None /\ None \notin {"accepted", "unconfirmed"}
      BY <3>2, NoneAssumption DEF Base, Asked, Outcomes
    <3>4. answer' = answer \/ answer' = [answer EXCEPT ![Head(queue)] = "not_delivered"]
      BY <1>2 DEF Start, Answer
    <3>5. \A r \in Requests : answer[r] \in {"accepted", "unconfirmed"} => answer'[r] = answer[r]
      BY <3>3, <3>4 DEF Base, TypeOK
    <3>6. \A r \in Requests : r # cur
      BY <3>1, NoneAssumption
    <3> QED
      BY <3>1, <3>5, <3>6 DEF Sent
  <2>3. \A t \in Texts : One(RestoringWith(t)') + One(DraftWith(t)') + One(InBox(t)')
                           <= One(RestoringWith(t)) + One(DraftWith(t)) + One(InBox(t))
    BY <2>1
  <2> QED
    BY <1>1, <2>1, <2>2, <2>3
<1>3. CASE ReadDraft
  <2>1. \A t \in Texts : Sent(t) \subseteq Sent(t)'
    BY <1>3, SentKept DEF ReadDraft, Sending
  <2> QED
    BY <1>1, <1>3, <2>1 DEF ReadDraft
\* The request is answered: its draft is dropped.
<1>4. ASSUME NEW o \in Outcomes, cur # None, Answer(cur, o), stamp' = stamp,
             UNCHANGED <<entered, submits, putBacks, restoring>>,
             \A t \in Texts : Holds(composer', t) => InBox(t) \/ DraftWith(t),
             o # "not_delivered" \/ ~Sending
      PROVE  Enough'
  <2>1. \A t \in Texts : Sent(t) \subseteq Sent(t)'
    BY <1>4, SentAnswered
  <2>2. pc' = "idle"
    BY <1>4 DEF Answer
  <2> QED
    BY <1>1, <1>4, <2>1, <2>2
<1>5. "accepted" \in Outcomes /\ "unconfirmed" \in Outcomes /\ "not_delivered" \in Outcomes
      /\ (pc # "idle" => cur # None)
  BY DEF Outcomes, Base, TypeOK
<1>6. CASE FillText
  <2>1. CASE Answer(cur, "not_delivered") /\ UNCHANGED boxVars
    BY <1>4, <1>5, <1>6, <2>1 DEF FillText, Sending
  <2>2. CASE ~IsBash(cur) /\ Fill(<<Text[cur]>>) /\ GoTo(AfterFill)
    <3>1. \A t \in Texts : Holds(composer', t) => t = Text[cur]
      BY <2>2, ToSetShort DEF Fill, Holds
    <3> QED
      BY <1>6, <2>2, <3>1, TextPutIn DEF FillText, AfterFill
  <2>3. CASE IsBash(cur) /\ Fill(<<>>) /\ GoTo("switch")
    <3>1. \A t \in Texts : ~Holds(composer', t)
      BY <2>3, ToSetShort DEF Fill, Holds
    <3>2. \A t \in Texts : Sent(t) \subseteq Sent(t)'
      BY <1>6, <2>3, SentKept DEF FillText, Sending
    <3> QED
      BY <1>1, <1>6, <2>3, <3>1, <3>2 DEF FillText
  <2> QED
    BY <1>6, <2>1, <2>2, <2>3 DEF FillText
<1>7. CASE SwitchToBash
  <2>1. \A t \in Texts : Sent(t) \subseteq Sent(t)'
    BY <1>7, SentKept DEF SwitchToBash, Sending
  <2> QED
    BY <1>1, <1>7, <2>1 DEF SwitchToBash
<1>8. CASE AppendCommand
  <2>1. CASE GoTo("restore") /\ UNCHANGED boxVars
    <3>1. \A t \in Texts : Sent(t) \subseteq Sent(t)'
      BY <1>8, <2>1, SentKept DEF AppendCommand, Sending
    <3> QED
      BY <1>1, <1>8, <2>1, <3>1 DEF AppendCommand
  <2>2. CASE composer' = Append(composer, Text[cur]) /\ GoTo(AfterFill)
    <3>1. composer \in Seq(Pieces)
      BY DEF Base, TypeOK
    <3>2. \A t \in Texts : Holds(composer', t) => t = Text[cur] \/ (pc = "append" /\ Holds(composer, t))
      BY <1>8, <2>2, <3>1, ToSetAppend DEF Holds, AppendCommand
    <3> QED
      BY <1>8, <2>2, <3>2, TextPutIn DEF AppendCommand, AfterFill
  <2> QED
    BY <1>8, <2>1, <2>2 DEF AppendCommand
<1>9. CASE RestoreDraft
  <2>1. pc = "restore" /\ composer' \in {composer, draft}
    BY <1>9 DEF RestoreDraft, Fill
  <2> QED
    BY <1>4, <1>5, <1>9, <2>1 DEF RestoreDraft, Sending
<1>10. CASE CheckId
  <2>1. \A t \in Texts : Sent(t) \subseteq Sent(t)'
    BY <1>10, SentKept DEF CheckId, Sending
  <2>2. CASE restoring' = [req |-> cur, draft |-> draft] /\ pc' = "enter"
    <3>1. restoring'.draft = draft
      BY <2>2
    <3> QED
      BY <1>1, <1>10, <2>1, <2>2, <3>1 DEF CheckId
  <2>3. CASE restoring' = restoring /\ pc' = "backRead"
    BY <1>1, <1>10, <2>1, <2>3 DEF CheckId
  <2> QED
    BY <1>10, <2>2, <2>3 DEF CheckId
<1>11. CASE PressEnter
  <2>1. \A t \in Texts : Sent(t) \subseteq Sent(t)'
    BY <1>11, SentKept DEF PressEnter, Sending
  <2> QED
    BY <1>1, <1>11, <2>1 DEF PressEnter
<1>12. CASE EndWait
  <2>1. CASE restoring' = None /\ GoTo("backRead") /\ ~StaleAtWait /\ ~accepted
    <3>1. restoring = [req |-> cur, draft |-> draft] /\ restoring # None
      <4>1. awaiting
        BY <1>12, <2>1 DEF EndWait, StaleAtWait, Base, Waits
      <4>2. restoring = [req |-> cur, draft |-> draft] /\ cur \in Requests /\ draft \in Seq(Pieces)
        BY <1>12, <4>1 DEF EndWait, Base, Waits, TypeOK
      <4> QED
        BY <4>2, NoneAssumption DEF Restoring
    <3>2. \A t \in Texts : RestoringWith(t) <=> Holds(draft, t)
      BY <3>1
    <3>3. \A t \in Texts : Sent(t) \subseteq Sent(t)'
      BY <1>12, <2>1, SentKept DEF EndWait, Sending
    <3> QED
      BY <1>1, <1>12, <2>1, <3>2, <3>3 DEF EndWait
  <2>2. CASE \E o \in {"unconfirmed", "accepted"} : Answer(cur, o) /\ UNCHANGED restoring
    BY <1>4, <1>5, <1>12, <2>2 DEF EndWait
  <2> QED
    BY <1>12, <2>1, <2>2 DEF EndWait
<1>13. CASE BackCheck
  BY <1>4, <1>5, <1>13 DEF BackCheck, Sending
<1>14. CASE EngineFails
  BY <1>4, <1>5, <1>14 DEF EngineFails
<1>15. CASE BackFill
  <2>1. CASE Answer(cur, "unconfirmed") /\ UNCHANGED <<composer, bashMode>>
    BY <1>4, <1>5, <1>15, <2>1 DEF BackFill
  <2>2. CASE GoTo("backCheck") /\ Fill(draft)
    <3> SUFFICES ASSUME NEW t \in Texts
                 PROVE  Copies(t)' + One(InBox(t)') <= Cardinality(Sent(t)')
      BY <2>2 DEF Enough
    <3>1. Copies(t) <= Cardinality(Sent(t) \ {cur})
      BY <1>15 DEF BackFill, Enough
    <3>2. Sent(t)' = Sent(t) \ {cur}
      <4>1. cur \in Requests /\ answer[cur] = None /\ None \notin {"accepted", "unconfirmed"}
        BY <1>5, <1>15, NoneAssumption DEF BackFill, Base, TypeOK, Asked, Outcomes
      <4> QED
        BY <1>15, <2>2, <4>1 DEF BackFill, Sent, Sending
    <3>3. PICK n \in Nat : /\ Copies(t) = n + One(RestoringWith(t)) + One(DraftWith(t))
                           /\ Copies(t)' = n + One(RestoringWith(t)') + One(DraftWith(t)')
      BY <1>15, OwnCopies DEF BackFill
    <3>4. restoring' = restoring /\ draft' = draft /\ composer' = draft /\ pc = "backFill" /\ pc' = "backCheck"
      BY <1>15, <2>2 DEF BackFill, Fill
    <3>5. One(InBox(t)') = One(DraftWith(t)) /\ One(DraftWith(t)') = 0
          /\ One(RestoringWith(t)') = One(RestoringWith(t))
      BY <3>4
    <3>6. One(DraftWith(t)) \in {0, 1} /\ One(RestoringWith(t)) \in {0, 1}
      BY OneIs
    <3>7. Copies(t)' + One(InBox(t)') = Copies(t)
      BY <3>3, <3>5, <3>6
    <3> QED
      BY <3>1, <3>2, <3>7
  <2> QED
    BY <1>15, <2>1, <2>2 DEF BackFill
<1>16. CASE BackRead
  <2>1. CASE Answer(cur, "unconfirmed")
    BY <1>4, <1>5, <1>16, <2>1 DEF BackRead
  <2>2. CASE composer = <<Text[cur]>> /\ GoTo("backFill")
    <3> SUFFICES ASSUME NEW t \in Texts
                 PROVE  /\ Copies(t)' + One(InBox(t)') <= Cardinality(Sent(t)')
                        /\ Copies(t)' <= Cardinality(Sent(t)' \ {cur'})
      BY DEF Enough
    <3>1. Copies(t) + One(InBox(t)) <= Cardinality(Sent(t))
      BY DEF Enough
    <3>2. Sent(t)' = Sent(t) /\ cur' = cur
      BY <1>16, <2>2 DEF BackRead, Sent, Sending
    <3>3. PICK n \in Nat : /\ Copies(t) = n + One(RestoringWith(t)) + One(DraftWith(t))
                           /\ Copies(t)' = n + One(RestoringWith(t)') + One(DraftWith(t)')
      BY <1>16, OwnCopies DEF BackRead
    <3>4. One(RestoringWith(t)') = One(RestoringWith(t)) /\ One(DraftWith(t)') = One(DraftWith(t))
          /\ One(InBox(t)') = One(InBox(t))
      BY <1>16, <2>2 DEF BackRead
    <3>5. Copies(t)' = Copies(t)
      BY <3>3, <3>4
    <3>6. Copies(t) <= Cardinality(Sent(t) \ {cur})
      <4>1. Cardinality(Sent(t) \ {cur}) = IF cur \in Sent(t) THEN Cardinality(Sent(t)) - 1
                                                              ELSE Cardinality(Sent(t))
        BY CountsAre, FS_RemoveElement
      <4>2. CASE cur \in Sent(t)
        <5>1. t = Text[cur]
          BY <4>2 DEF Sent
        <5>2. Holds(composer, t)
          BY <2>2, <5>1, ToSetShort DEF Holds
        <5>3. One(InBox(t)) = 1
          BY <5>2
        <5>4. Copies(t) \in Nat /\ Cardinality(Sent(t)) \in Nat
          BY CountsAre
        <5> QED
          BY <3>1, <4>1, <4>2, <5>3, <5>4
      <4>3. CASE cur \notin Sent(t)
        <5>1. One(InBox(t)) \in {0, 1}
          BY OneIs
        <5>2. Copies(t) \in Nat /\ Cardinality(Sent(t)) \in Nat
          BY CountsAre
        <5> QED
          BY <3>1, <4>1, <4>3, <5>1, <5>2
      <4> QED
        BY <4>2, <4>3
    <3> QED
      BY <3>1, <3>2, <3>4, <3>5, <3>6
  <2> QED
    BY <1>16, <2>1, <2>2 DEF BackRead
<1> QED
  BY <1>2, <1>3, <1>6, <1>7, <1>8, <1>9, <1>10, <1>11, <1>12, <1>13, <1>14, <1>15, <1>16
     DEF ModuleStep

(* A clear that is told: the drafts it puts back.                          *)
LEMMA ClearedHandsOver ==
  ASSUME Cleared
  PROVE  \/ UNCHANGED <<restoring, putBacks>>
         \/ restoring # None /\ restoring' = None /\ putBacks' = PutBacksWith(restoring)
  BY DEF Cleared

LEMMA EnterEnough ==
  ASSUME Base, Base', Enough, "enter" \notin raced', EnterTaken,
         UNCHANGED <<cur, pc, draft, stamp, answer, restoring, putBacks>>
  PROVE  Enough'
<1>1. \A t \in Texts : Sent(t)' = Sent(t)
  BY DEF Sent, Sending
<1>2. CASE composer = <<>>
  <2>1. UNCHANGED <<composer, submits, entered, restoring, putBacks, raced>>
    BY <1>2 DEF EnterTaken
  <2>2. \A t \in Texts : Copies(t)' = Copies(t) /\ InBox(t)' = InBox(t)
    BY <2>1 DEF Copies, InBox, EnteredWith, SubmitsWith, PutBacksHolding, RestoringWith,
       DraftWith, DraftCounts
  <2> QED
    BY <1>1, <2>1, <2>2 DEF Enough
<1>3. CASE composer # <<>>
  <2>1. composer' = <<>> /\ raced' = raced \cup {x \in {"enter"} : Overwritten}
    BY <1>3 DEF EnterTaken
  <2>2. "enter" \notin raced /\ pc \notin {"fill", "backFill"}
    BY <2>1 DEF Overwritten
  <2>3. ASSUME NEW t \in Texts
        PROVE  Copies(t)' + One(InBox(t)') <= Copies(t) + One(InBox(t))
    <3>1. Cardinality(PutBacksHolding(t)') + One(RestoringWith(t)')
              <= Cardinality(PutBacksHolding(t)) + One(RestoringWith(t))
          /\ Cardinality(PutBacksHolding(t)') \in Nat /\ One(RestoringWith(t)') \in Nat
      BY DraftHandedOver
    <3>2. One(DraftWith(t)') = One(DraftWith(t))
      BY DEF DraftWith, DraftCounts
    <3>3. One(InBox(t)') = 0
      <4>1. ~Holds(composer', t)
        BY <2>1, ToSetShort DEF Holds
      <4> QED
        BY <2>2, <4>1 DEF One, InBox
    <3>4. One(InBox(t)) = One(Holds(composer, t)) /\ One(Holds(composer, t)) \in Nat
      BY <2>2 DEF One, InBox
    <3>5. Cardinality(EnteredWith(t)') + Cardinality(SubmitsWith(t)')
            = Cardinality(EnteredWith(t)) + Cardinality(SubmitsWith(t)) + One(Holds(composer, t))
      <4>1. CASE bashMode
        <5>1. entered' = Append(entered, [text |-> composer, sid |-> realSid]) /\ submits' = submits
          BY <1>3, <4>1 DEF EnterTaken
        <5>2. Cardinality(EnteredWith(t)') = Cardinality(EnteredWith(t)) + One(Holds(composer, t))
          BY <5>1, EnteredAppended DEF Base, TypeOK
        <5>3. SubmitsWith(t)' = SubmitsWith(t)
          BY <5>1 DEF SubmitsWith
        <5> QED
          BY <3>4, <5>2, <5>3, CountsAre
      <4>2. CASE ~bashMode
        <5>1. submits' = Append(submits, composer) /\ entered' = entered
          BY <1>3, <4>2 DEF EnterTaken
        <5>2. Cardinality(SubmitsWith(t)') = Cardinality(SubmitsWith(t)) + One(Holds(composer, t))
          BY <5>1, SubmitsAppended
        <5>3. EnteredWith(t)' = EnteredWith(t)
          BY <5>1 DEF EnteredWith
        <5> QED
          BY <3>4, <5>2, <5>3, CountsAre
      <4> QED
        BY <4>1, <4>2
    <3>6. Cardinality(EnteredWith(t)') \in Nat /\ Cardinality(SubmitsWith(t)') \in Nat
      <4>1. (Cardinality(EnteredWith(t)) \in Nat /\ Cardinality(SubmitsWith(t)) \in Nat)'
        BY CountsAre, PTL
      <4> QED
        BY <4>1
    <3> QED
      BY <3>1, <3>2, <3>3, <3>4, <3>5, <3>6, CountsAre DEF Copies
  <2> QED
    BY <1>1, <2>2, <2>3, EnoughKept
<1> QED
  BY <1>2, <1>3

LEMMA SumsCompare ==
  ASSUME NEW e \in Nat, NEW s \in Nat, NEW p \in Nat, NEW r \in Nat, NEW d \in Nat,
         NEW ee \in Nat, NEW ss \in Nat, NEW pp \in Nat, NEW rr \in Nat,
         ee + ss <= e + s, pp + rr <= p + r
  PROVE  ee + ss + pp + rr + d <= e + s + p + r + d
  OBVIOUS

LEMMA SettleEnough ==
  ASSUME Base, Base', Enough, "enter" \notin raced, NEW i \in 1..Len(submits), SettleSubmit(i)
  PROVE  Enough'
<1>1. UNCHANGED <<cur, pc, draft, stamp, answer, composer>> /\ submits' = RemoveAt(submits, i)
  BY DEF SettleSubmit, keepQueue
<1>2. \A t \in Texts : Sent(t)' = Sent(t)
  BY <1>1 DEF Sent, Sending
<1>3. ASSUME NEW t \in Texts
      PROVE  Copies(t)' <= Copies(t) /\ One(InBox(t)') = One(InBox(t)) /\ Copies(t)' \in Nat
  <2>1. Cardinality(PutBacksHolding(t)') + One(RestoringWith(t)')
            <= Cardinality(PutBacksHolding(t)) + One(RestoringWith(t))
        /\ Cardinality(PutBacksHolding(t)') \in Nat /\ One(RestoringWith(t)') \in Nat
    <3>1. \/ UNCHANGED <<restoring, putBacks>>
          \/ restoring # None /\ restoring' = None /\ putBacks' = PutBacksWith(restoring)
      BY DEF SettleSubmit, TakesRestoring
    <3> QED
      BY <3>1, DraftHandedOver
  <2>2. One(DraftWith(t)') = One(DraftWith(t)) /\ One(InBox(t)') = One(InBox(t))
    BY <1>1 DEF DraftWith, DraftCounts, InBox
  <2>3. /\ Cardinality(SubmitsWith(t)') + One(Holds(submits[i], t)) <= Cardinality(SubmitsWith(t))
        /\ Cardinality(SubmitsWith(t)') \in Nat
    BY <1>1, SubmitsRemoved
  <2>4. One(Holds(submits[i], t)) \in {0, 1}
    BY OneIs
  <2>5. /\ Cardinality(EnteredWith(t)') <= Cardinality(EnteredWith(t)) + One(Holds(submits[i], t))
        /\ Cardinality(EnteredWith(t)') \in Nat
    <3>1. CASE entered' = entered
      <4>1. EnteredWith(t)' = EnteredWith(t)
        BY <3>1 DEF EnteredWith
      <4> QED
        BY <2>4, <4>1, CountsAre
    <3>2. CASE entered' = Append(entered, [text |-> submits[i], sid |-> realSid])
      <4>1. submits[i] \in Seq(Pieces)
        <5>1. submits \in Seq(Seq(Pieces))
          BY DEF Base, TypeOK
        <5> QED
          BY <5>1
      <4>2. Cardinality(EnteredWith(t)') = Cardinality(EnteredWith(t)) + One(Holds(submits[i], t))
        BY <3>2, <4>1, EnteredAppended
      <4> QED
        BY <2>4, <4>2, CountsAre
    <3> QED
      BY <3>1, <3>2 DEF SettleSubmit
  <2>6. Copies(t)' = Cardinality(EnteredWith(t)') + Cardinality(SubmitsWith(t)')
                       + Cardinality(PutBacksHolding(t)') + One(RestoringWith(t)') + One(DraftWith(t)')
    BY DEF Copies
  <2>7. Copies(t) = Cardinality(EnteredWith(t)) + Cardinality(SubmitsWith(t))
                      + Cardinality(PutBacksHolding(t)) + One(RestoringWith(t)) + One(DraftWith(t))
    BY DEF Copies
  <2>8. Cardinality(EnteredWith(t)') + Cardinality(SubmitsWith(t)')
          <= Cardinality(EnteredWith(t)) + Cardinality(SubmitsWith(t))
    BY <2>3, <2>4, <2>5, CountsAre
  <2>9. /\ Cardinality(EnteredWith(t)) \in Nat /\ Cardinality(SubmitsWith(t)) \in Nat
        /\ Cardinality(PutBacksHolding(t)) \in Nat /\ One(RestoringWith(t)) \in Nat
        /\ One(DraftWith(t)) \in Nat
    BY CountsAre
  <2>10. One(DraftWith(t)') \in Nat
    BY OneIs
  <2>11. Copies(t)' <= Copies(t)
    <3>1. /\ Cardinality(EnteredWith(t)') \in Nat /\ Cardinality(SubmitsWith(t)') \in Nat
          /\ Cardinality(PutBacksHolding(t)') \in Nat /\ One(RestoringWith(t)') \in Nat
      BY <2>1, <2>3, <2>5
    <3>2. Cardinality(EnteredWith(t)') + Cardinality(SubmitsWith(t)')
            + Cardinality(PutBacksHolding(t)') + One(RestoringWith(t)') + One(DraftWith(t))
          <= Cardinality(EnteredWith(t)) + Cardinality(SubmitsWith(t))
              + Cardinality(PutBacksHolding(t)) + One(RestoringWith(t)) + One(DraftWith(t))
      BY <2>1, <2>8, <2>9, <3>1, SumsCompare
    <3> QED
      BY <2>2, <2>6, <2>7, <3>2
  <2>12. Copies(t)' \in Nat
    BY <2>1, <2>3, <2>5, <2>6, <2>10
  <2> QED
    BY <2>2, <2>11, <2>12
<1>4. \A t \in Texts : Copies(t)' + One(InBox(t)') <= Copies(t) + One(InBox(t))
  BY <1>3, CountsAre
<1> QED
  BY <1>1, <1>2, <1>3, <1>4, EnoughKept

(* The composer is cleared, or a clear is told.                            *)
LEMMA ClearsEnough ==
  ASSUME Base, Base', Enough, "enter" \notin raced,
         UNCHANGED <<cur, pc, draft, stamp, answer, entered, submits>>,
         composer' \in {<<>>, composer},
         \/ UNCHANGED <<restoring, putBacks>>
         \/ restoring # None /\ restoring' = None /\ putBacks' = PutBacksWith(restoring)
  PROVE  Enough'
<1>1. \A t \in Texts : Sent(t)' = Sent(t)
  BY DEF Sent, Sending
<1>2. ASSUME NEW t \in Texts
      PROVE  Copies(t)' <= Copies(t) /\ One(InBox(t)') <= One(InBox(t)) /\ Copies(t)' \in Nat
             /\ One(InBox(t)') \in Nat
  <2>1. Cardinality(PutBacksHolding(t)') + One(RestoringWith(t)')
            <= Cardinality(PutBacksHolding(t)) + One(RestoringWith(t))
        /\ Cardinality(PutBacksHolding(t)') \in Nat /\ One(RestoringWith(t)') \in Nat
    BY DraftHandedOver
  <2>2. One(DraftWith(t)') = One(DraftWith(t))
    BY DEF DraftWith, DraftCounts
  <2>3. EnteredWith(t)' = EnteredWith(t) /\ SubmitsWith(t)' = SubmitsWith(t)
    BY DEF EnteredWith, SubmitsWith
  <2>4. InBox(t)' => InBox(t)
    BY ToSetShort DEF InBox, Holds
  <2>5. One(InBox(t)') <= One(InBox(t)) /\ One(InBox(t)') \in Nat
    BY <2>4 DEF One
  <2>6. One(DraftWith(t)) \in Nat /\ Cardinality(EnteredWith(t)) \in Nat /\ Cardinality(SubmitsWith(t)) \in Nat
        /\ Cardinality(PutBacksHolding(t)) \in Nat /\ One(RestoringWith(t)) \in Nat
    BY CountsAre
  <2>7. Copies(t)' = Cardinality(EnteredWith(t)) + Cardinality(SubmitsWith(t))
                       + Cardinality(PutBacksHolding(t)') + One(RestoringWith(t)') + One(DraftWith(t))
    BY <2>2, <2>3 DEF Copies
  <2>8. Copies(t)' <= Copies(t) /\ Copies(t)' \in Nat
    BY <2>1, <2>6, <2>7 DEF Copies
  <2> QED
    BY <2>5, <2>8
<1>3. \A t \in Texts : Copies(t)' + One(InBox(t)') <= Copies(t) + One(InBox(t))
  BY <1>2, CountsAre
<1> QED
  BY <1>1, <1>2, <1>3, EnoughKept

LEMMA PutBackEnough ==
  ASSUME Base, Base', Enough, "enter" \notin raced, NEW b \in putBacks,
         PutBackReads(b) \/ PutBackFills(b) \/ PutBackThrows(b)
  PROVE  Enough'
<1>1. UNCHANGED <<cur, pc, draft, stamp, answer, entered, submits, restoring>>
  BY DEF PutBackReads, PutBackFills, PutBackThrows, keepWorld, worldVars
<1>2. \A t \in Texts : Sent(t)' = Sent(t)
  BY <1>1 DEF Sent, Sending
<1>3. ASSUME NEW t \in Texts
      PROVE  /\ One(RestoringWith(t)') = One(RestoringWith(t)) /\ One(DraftWith(t)') = One(DraftWith(t))
             /\ EnteredWith(t)' = EnteredWith(t) /\ SubmitsWith(t)' = SubmitsWith(t)
  BY <1>1 DEF EnteredWith, SubmitsWith, RestoringWith, DraftWith, DraftCounts
<1>4. ASSUME NEW t \in Texts
      PROVE  /\ Copies(t)' <= Copies(t) /\ Copies(t)' \in Nat
             /\ Copies(t)' + One(InBox(t)') <= Copies(t) + One(InBox(t))
  <2>1. One(InBox(t)) \in {0, 1} /\ One(InBox(t)') \in {0, 1} /\ One(Holds(b.draft, t)) \in {0, 1}
    BY OneIs
  <2>2. CASE putBacks' = putBacks \ {b} /\ composer' \in {composer, b.draft}
    <3>1. /\ Cardinality(PutBacksHolding(t)') + One(Holds(b.draft, t)) = Cardinality(PutBacksHolding(t))
          /\ Cardinality(PutBacksHolding(t)') \in Nat
      BY <2>2, PutBackTaken
    <3>2. InBox(t)' => InBox(t) \/ Holds(b.draft, t)
      BY <1>1, <2>2 DEF InBox
    <3>3. One(InBox(t)') <= One(InBox(t)) + One(Holds(b.draft, t))
      BY <3>2 DEF One
    <3> QED
      BY <1>3, <2>1, <3>1, <3>3, CountsAre DEF Copies
  <2>3. CASE putBacks' = (putBacks \ {b}) \cup {[b EXCEPT !.phase = "fill"]} /\ composer' = composer
    <3>1. /\ Cardinality(PutBacksHolding(t)') <= Cardinality(PutBacksHolding(t))
          /\ Cardinality(PutBacksHolding(t)') \in Nat
      BY <2>3, PutBackFollowed
    <3>2. One(InBox(t)') = One(InBox(t))
      BY <1>1, <2>3 DEF InBox
    <3> QED
      BY <1>3, <2>1, <3>1, <3>2, CountsAre DEF Copies
  <2> QED
    BY <2>2, <2>3 DEF PutBackReads, PutBackFills, PutBackThrows, Fill, boxVars
<1> QED
  BY <1>1, <1>2, <1>4, EnoughKept

LEMMA EnoughStep ==
  ASSUME Base, Base', Enough, [Next]_vars
  PROVE  Enough'
<1> SUFFICES ASSUME "enter" \notin raced, "enter" \notin raced' PROVE Enough'
  BY RacedGrows DEF Enough
<1>1. CASE ModuleStep
  BY <1>1, OwnStepEnough
<1>2. CASE HarnessTakesKey \/ PersonEnters
  BY <1>2, EnterEnough DEF HarnessTakesKey, PersonEnters, moduleVars
<1>3. CASE \E i \in 1..Len(submits) : SettleSubmit(i)
  BY <1>3, SettleEnough
<1>4. CASE \E b \in putBacks : PutBackReads(b) \/ PutBackFills(b) \/ PutBackThrows(b)
  BY <1>4, PutBackEnough
<1>5. CASE PersonClears \/ ClearTold
  <2>1. UNCHANGED <<cur, pc, draft, stamp, answer, entered, submits>>
    BY <1>5 DEF PersonClears, ClearTold, moduleVars, keepQueue
  <2>2. composer' \in {<<>>, composer}
    BY <1>5 DEF PersonClears, ClearTold, boxVars
  <2>3. \/ UNCHANGED <<restoring, putBacks>>
        \/ restoring # None /\ restoring' = None /\ putBacks' = PutBacksWith(restoring)
    BY <1>5, ClearedHandsOver DEF PersonClears, ClearTold, moduleVars
  <2> QED
    BY <2>1, <2>2, <2>3, ClearsEnough
<1>6. ASSUME UNCHANGED <<cur, pc, draft, entered, submits, restoring, putBacks>>,
             \A t \in Texts : Sent(t) \subseteq Sent(t)',
             \A t \in Texts : Holds(composer', t) => Holds(composer, t)
      PROVE  Enough'
  <2>1. \A t \in Texts : Copies(t)' = Copies(t)
    BY <1>6 DEF Copies, EnteredWith, SubmitsWith, PutBacksHolding, RestoringWith, DraftWith, DraftCounts
  <2>2. \A t \in Texts : One(InBox(t)') <= One(InBox(t)) /\ One(InBox(t)') \in Nat /\ One(InBox(t)) \in Nat
    BY <1>6 DEF InBox, One
  <2>3. \A t \in Texts : Copies(t)' + One(InBox(t)') <= Copies(t) + One(InBox(t)) /\ Copies(t)' <= Copies(t)
    BY <2>1, <2>2, CountsAre
  <2> QED
    BY <1>6, <2>3, EnoughKept
<1>7. ASSUME NEW r \in Requests, Arrive(r) PROVE Enough'
  <2>1. PICK at \in 0..realSid : stamp' = [stamp EXCEPT ![r] = [sid |-> at, generation |-> generation]]
    BY <1>7 DEF Arrive
  <2>2. \A q \in Requests \ {r} : stamp'[q] = stamp[q]
    BY <2>1 DEF Base, TypeOK
  <2>3. \A t \in Texts : Sent(t) \subseteq Sent(t)'
    BY <1>7, <2>2 DEF Arrive, Sent, Sending
  <2> QED
    BY <1>6, <1>7, <2>3 DEF Arrive, worldVars, boxVars
<1>8. CASE PersonTypes
  <2>1. \A t \in Texts : Holds(composer', t) => Holds(composer, t)
    <3>1. composer \in Seq(Pieces) /\ composer' = Append(composer, Typed)
      BY <1>8 DEF PersonTypes, Base, TypeOK
    <3>2. ToSet(composer') = ToSet(composer) \cup {Typed}
      BY <3>1, ToSetAppend
    <3> QED
      BY <3>2, BoundAssumption DEF Holds
  <2>2. \A t \in Texts : Sent(t) \subseteq Sent(t)'
    BY <1>8 DEF PersonTypes, moduleVars, Sent, Sending
  <2> QED
    BY <1>6, <1>8, <2>1, <2>2 DEF PersonTypes, moduleVars
<1>9. CASE SessionEnds \/ IdMoves \/ SidecarReplaced \/ SidecarRebound \/ UNCHANGED vars
  <2>1. UNCHANGED <<cur, pc, draft, entered, submits, restoring, putBacks, stamp, answer, composer>>
    BY <1>9 DEF SessionEnds, IdMoves, SidecarReplaced, SidecarRebound, Bind, vars, moduleVars, boxVars, worldVars
  <2>2. \A t \in Texts : Sent(t) \subseteq Sent(t)'
    BY <2>1 DEF Sent, Sending
  <2> QED
    BY <1>6, <2>1, <2>2
<1> QED
  BY <1>1, <1>2, <1>3, <1>4, <1>5, <1>7, <1>8, <1>9 DEF Next

LEMMA EnoughCovers ==
  ASSUME Base, Enough
  PROVE  NotDeliveredIsOut
<1> SUFFICES ASSUME "enter" \notin raced, NEW t \in Texts
             PROVE  Cardinality(EnteredWith(t)) <= Cardinality(MayBeIn(t))
  BY DEF NotDeliveredIsOut
<1>1. Copies(t) + One(InBox(t)) <= Cardinality(Sent(t))
  BY DEF Enough
<1>2. Cardinality(EnteredWith(t)) <= Cardinality(Sent(t))
  BY <1>1, CountsAre DEF Copies
<1>3. Sent(t) \subseteq MayBeIn(t)
  <2>1. \A r \in Requests : r = cur => answer[r] # "not_delivered"
    BY NoneAssumption DEF Base, Asked, Outcomes
  <2> QED
    BY <2>1 DEF Sent, MayBeIn
<1>4. IsFiniteSet(MayBeIn(t))
  <2>1. MayBeIn(t) \subseteq Requests
    BY DEF MayBeIn
  <2> QED
    BY <2>1, PartIsFewer, BoundAssumption
<1>5. Cardinality(Sent(t)) <= Cardinality(MayBeIn(t)) /\ Cardinality(MayBeIn(t)) \in Nat
  BY <1>3, <1>4, PartIsFewer
<1> QED
  BY <1>2, <1>5, CountsAre

-----------------------------------------------------------------------------
(* What the person typed is kept.                                          *)

Unhurt == raced \cap {"edit", "refused", "overlap"} = {} /\ NoneUnconfirmed
Mine == {Draft, Typed}
Free(content) == ToSet(content) \cap Mine = {}

(* A draft is in one pair of hands, and no fill meets what is not in them. *)
InOrder ==
  Unhurt =>
    /\ restoring # None => pc \in {"enter", "wait"} /\ restoring.draft = draft /\ putBacks = {}
    /\ putBacks # {} => pc \in {"idle", "read", "enter", "wait"}
    /\ \A x, y \in putBacks : x = y
    /\ \A x \in putBacks : x.phase = "fill" => Free(composer)
    /\ pc \in {"switch", "append", "restore", "backFill"} => Free(composer)
    /\ pc = "fill" => ToSet(composer) \cap Mine \subseteq ToSet(draft)

Safe(p) ==
  \/ p \in gone
  \/ Holds(composer, p)
  \/ \E i \in 1..Len(submits) : Holds(submits[i], p)
  \/ \E i \in 1..Len(entered) : Holds(entered[i].text, p)
  \/ DraftWith(p)
  \/ RestoringWith(p)
  \/ \E b \in putBacks : Holds(b.draft, p)
AllSafe == Unhurt => Safe(Draft) /\ (typed => Safe(Typed))

LEMMA AnswersStay ==
  ASSUME Base, [Next]_vars, NEW r \in Requests, answer[r] # None
  PROVE  answer'[r] = answer[r]
<1>1. CASE Start
  <2>1. queue \in Seq(Requests) /\ queue # <<>>
    BY <1>1 DEF Start, Base, TypeOK
  <2>2. Head(queue) = queue[1] /\ 1 \in 1..Len(queue) /\ Head(queue) \in Requests
    BY <2>1, TailIs
  <2>3. answer[Head(queue)] = None
    BY <2>2 DEF Base, Asked
  <2>4. answer' = answer \/ answer' = [answer EXCEPT ![Head(queue)] = "not_delivered"]
    BY <1>1 DEF Start, Answer
  <2> QED
    BY <2>3, <2>4 DEF Base, TypeOK
<1>2. CASE Settled
  BY <1>2 DEF Settled, Answer, Base, Asked, TypeOK
<1> QED
  BY <1>1, <1>2, Requested DEF Quiet, Arrive, Base

LEMMA UnhurtBefore ==
  ASSUME Base, [Next]_vars, Unhurt'
  PROVE  Unhurt /\ raced' \cap {"edit", "refused", "overlap"} = {}
<1>1. raced \subseteq raced'
  BY RacedGrows
<1>2. NoneUnconfirmed
  <2>1. None # "unconfirmed"
    BY NoneAssumption DEF Outcomes
  <2> QED
    BY <2>1, AnswersStay DEF Unhurt, NoneUnconfirmed
<1> QED
  BY <1>1, <1>2 DEF Unhurt

(* Nobody's text is a request's.                                           *)
LEMMA FreeTexts ==
  /\ Free(<<>>)
  /\ \A r \in Requests : Free(<<Text[r]>>)
  /\ \A r \in Requests, s \in Seq(Pieces) : Free(s) => Free(Append(s, Text[r]))
<1>1. \A r \in Requests : Text[r] \notin Mine
  BY BoundAssumption DEF Mine, Texts
<1>2. \A r \in Requests, s \in Seq(Pieces) : ToSet(Append(s, Text[r])) = ToSet(s) \cup {Text[r]}
  BY ToSetAppend
<1> QED
  BY <1>1, <1>2, ToSetShort DEF Free

LEMMA OwnStepInOrder ==
  ASSUME Base, InOrder, ModuleStep, Unhurt, Unhurt',
         raced' \cap {"edit", "refused", "overlap"} = {}
  PROVE  InOrder'
<1> USE DEF keepQueue, keepWaits, keepWorld, moduleVars, boxVars, worldVars, GoTo
<1>1. /\ restoring # None => pc \in {"enter", "wait"} /\ restoring.draft = draft /\ putBacks = {}
      /\ putBacks # {} => pc \in {"idle", "read", "enter", "wait"}
      /\ \A x, y \in putBacks : x = y
      /\ \A x \in putBacks : x.phase = "fill" => Free(composer)
      /\ pc \in {"switch", "append", "restore", "backFill"} => Free(composer)
      /\ pc = "fill" => ToSet(composer) \cap Mine \subseteq ToSet(draft)
  BY DEF InOrder
<1>2. ASSUME restoring' # None => /\ pc' \in {"enter", "wait"} /\ restoring'.draft = draft'
                                  /\ putBacks' = {},
             putBacks' # {} => pc' \in {"idle", "read", "enter", "wait"},
             putBacks' = putBacks,
             putBacks # {} => composer' = composer,
             pc' \in {"switch", "append", "restore", "backFill"} => Free(composer'),
             pc' = "fill" => ToSet(composer') \cap Mine \subseteq ToSet(draft')
      PROVE  InOrder'
  BY <1>1, <1>2 DEF InOrder
\* An answer that leaves the composer alone.
<1>3. ASSUME NEW o, Answer(cur, o), putBacks' = putBacks, restoring' = None,
             putBacks # {} => composer' = composer
      PROVE  InOrder'
  BY <1>2, <1>3 DEF Answer
<1>4. cur # None => cur \in Requests
  BY DEF Base, TypeOK
<1>5. pc # "idle" => cur # None
  BY DEF Base, TypeOK
<1>6. CASE Start
  <2>1. pc = "idle" /\ pc' \in {"idle", "read"} /\ UNCHANGED <<restoring, putBacks, composer>>
    BY <1>6 DEF Start, Answer, Base, TypeOK
  <2> QED
    BY <1>1, <1>2, <2>1
<1>7. CASE ReadDraft
  <2>1. putBacks = {}
    BY <1>7 DEF ReadDraft
  <2> QED
    BY <1>1, <1>2, <1>7, <2>1 DEF ReadDraft
<1>8. CASE FillText
  <2>1. putBacks = {} /\ restoring = None /\ restoring' = restoring /\ putBacks' = putBacks
    BY <1>1, <1>8 DEF FillText
  <2>2. CASE Answer(cur, "not_delivered")
    BY <1>3, <2>1, <2>2
  <2>3. CASE pc' \in {"check", "backRead"}
    BY <1>2, <2>1, <2>3
  <2>4. CASE pc' = "switch" /\ composer' = <<>>
    BY <1>2, <2>1, <2>4, FreeTexts
  <2> QED
    BY <1>8, <2>2, <2>3, <2>4 DEF FillText, AfterFill, Fill
<1>9. CASE SwitchToBash
  BY <1>1, <1>2, <1>9 DEF SwitchToBash
<1>10. CASE AppendCommand
  <2>1. putBacks = {} /\ restoring = None /\ restoring' = restoring /\ putBacks' = putBacks
        /\ Free(composer) /\ composer \in Seq(Pieces) /\ cur \in Requests
    BY <1>1, <1>4, <1>5, <1>10 DEF AppendCommand, Base, TypeOK
  <2>2. pc' \in {"restore", "check", "backRead"} /\ Free(composer')
    BY <1>10, <2>1, FreeTexts DEF AppendCommand, AfterFill
  <2> QED
    BY <1>2, <2>1, <2>2
<1>11. CASE RestoreDraft
  BY <1>1, <1>3, <1>11 DEF RestoreDraft
<1>12. CASE CheckId
  <2>1. putBacks = {} /\ restoring = None /\ putBacks' = putBacks /\ composer' = composer
    BY <1>1, <1>12 DEF CheckId
  <2>2. CASE pc' = "enter" /\ restoring' = [req |-> cur, draft |-> draft] /\ draft' = draft
    BY <1>2, <2>1, <2>2
  <2>3. CASE pc' = "backRead" /\ restoring' = restoring
    BY <1>2, <2>1, <2>3
  <2> QED
    BY <1>12, <2>2, <2>3 DEF CheckId
<1>13. CASE PressEnter
  BY <1>1, <1>2, <1>13 DEF PressEnter
<1>14. ASSUME NEW r \in Requests, answer' = [answer EXCEPT ![r] = "unconfirmed"]
       PROVE  FALSE
  BY <1>14 DEF Unhurt, NoneUnconfirmed, Base, TypeOK
<1>15. CASE EndWait
  <2>1. CASE accepted /\ Answer(cur, "accepted") /\ restoring' = restoring
    <3>1. restoring = None
      BY <2>1 DEF Base, Waits
    <3> QED
      BY <1>3, <1>15, <2>1, <3>1 DEF EndWait
  <2>2. CASE ~StaleAtWait /\ ~accepted /\ restoring' = None /\ GoTo("backRead")
    <3>1. awaiting
      BY <1>15, <2>2 DEF EndWait, StaleAtWait, Base, Waits
    <3>2. restoring = [req |-> cur, draft |-> draft] /\ cur \in Requests /\ draft \in Seq(Pieces)
      BY <1>4, <1>5, <1>15, <3>1 DEF EndWait, Base, Waits, TypeOK
    <3>3. restoring # None
      BY <3>2, NoneAssumption DEF Restoring
    <3> QED
      BY <1>1, <1>2, <1>15, <2>2, <3>3 DEF EndWait
  <2> QED
    BY <1>4, <1>5, <1>14, <1>15, <2>1, <2>2 DEF EndWait, Answer
<1>16. CASE BackRead
  <2>1. CASE composer = <<Text[cur]>> /\ GoTo("backFill")
    <3>1. Free(composer)
      BY <1>4, <1>5, <1>16, <2>1, FreeTexts DEF BackRead
    <3> QED
      BY <1>1, <1>2, <1>16, <2>1, <3>1 DEF BackRead
  <2> QED
    BY <1>4, <1>5, <1>14, <1>16, <2>1 DEF BackRead, Answer
<1>17. CASE BackFill
  <2>1. CASE GoTo("backCheck")
    BY <1>1, <1>2, <1>17, <2>1 DEF BackFill
  <2> QED
    BY <1>4, <1>5, <1>14, <1>17, <2>1 DEF BackFill, Answer
<1>18. CASE BackCheck
  BY <1>1, <1>3, <1>18 DEF BackCheck
<1>19. CASE EngineFails
  BY <1>4, <1>5, <1>14, <1>19 DEF EngineFails, Answer
<1> QED
  BY <1>6, <1>7, <1>8, <1>9, <1>10, <1>11, <1>12, <1>13, <1>15, <1>16, <1>17, <1>18, <1>19
     DEF ModuleStep

(* A draft handed over to be put back.                                     *)
LEMMA HandsOverInOrder ==
  ASSUME Base, InOrder, Unhurt,
         \/ UNCHANGED <<restoring, putBacks>>
         \/ restoring # None /\ restoring' = None /\ putBacks' = PutBacksWith(restoring),
         UNCHANGED <<pc, draft>>, composer' \in {composer, <<>>}
  PROVE  InOrder'
<1>1. Free(composer) => Free(composer')
  BY FreeTexts
<1>2. ToSet(composer') \subseteq ToSet(composer)
  BY ToSetShort
<1>3. CASE UNCHANGED <<restoring, putBacks>>
  BY <1>1, <1>2, <1>3 DEF InOrder
<1>4. CASE restoring # None /\ restoring' = None /\ putBacks' = PutBacksWith(restoring)
  <2>1. putBacks = {} /\ pc \in {"enter", "wait"}
    BY <1>4 DEF InOrder
  <2>2. putBacks' \subseteq {[req |-> restoring.req, draft |-> restoring.draft, phase |-> "read"]}
    BY <1>4, <2>1 DEF PutBacksWith
  <2>3. \A x \in putBacks' : x.phase = "read"
    BY <2>2
  <2> QED
    BY <1>4, <2>1, <2>2, <2>3 DEF InOrder
<1> QED
  BY <1>3, <1>4

LEMMA InOrderStep ==
  ASSUME Base, InOrder, [Next]_vars
  PROVE  InOrder'
<1> SUFFICES ASSUME Unhurt' PROVE InOrder'
  BY DEF InOrder
<1>1. Unhurt /\ raced' \cap {"edit", "refused", "overlap"} = {}
  BY UnhurtBefore
<1>2. CASE ModuleStep
  BY <1>1, <1>2, OwnStepInOrder
<1>3. CASE HarnessTakesKey \/ PersonEnters
  <2>1. UNCHANGED <<pc, draft, restoring, putBacks>> /\ EnterTaken
    BY <1>3 DEF HarnessTakesKey, PersonEnters, moduleVars
  <2>2. composer' \in {composer, <<>>}
    BY <2>1 DEF EnterTaken
  <2> QED
    BY <1>1, <2>1, <2>2, HandsOverInOrder
<1>4. CASE PersonClears \/ ClearTold
  <2>1. UNCHANGED <<pc, draft>> /\ composer' \in {composer, <<>>}
    BY <1>4 DEF PersonClears, ClearTold, moduleVars, boxVars
  <2>2. \/ UNCHANGED <<restoring, putBacks>>
        \/ restoring # None /\ restoring' = None /\ putBacks' = PutBacksWith(restoring)
    BY <1>4, ClearedHandsOver DEF PersonClears, ClearTold, moduleVars
  <2> QED
    BY <1>1, <2>1, <2>2, HandsOverInOrder
<1>5. ASSUME NEW i \in 1..Len(submits), SettleSubmit(i) PROVE InOrder'
  <2>1. UNCHANGED <<pc, draft, composer>>
        /\ \/ UNCHANGED <<restoring, putBacks>>
           \/ restoring # None /\ restoring' = None /\ putBacks' = PutBacksWith(restoring)
    BY <1>5 DEF SettleSubmit, TakesRestoring
  <2> QED
    BY <1>1, <2>1, HandsOverInOrder
<1>6. ASSUME NEW b \in putBacks, PutBackReads(b) PROVE InOrder'
  <2>1. UNCHANGED <<pc, draft, composer, restoring>> /\ \A x \in putBacks : x = b
    BY <1>1, <1>6 DEF PutBackReads, InOrder
  <2>2. b.req \in Requests
    BY DEF Base, TypeOK, PutBack
  <2>3. CASE composer \in {<<>>, <<Text[b.req]>>} /\ putBacks' = (putBacks \ {b}) \cup {[b EXCEPT !.phase = "fill"]}
    <3>1. Free(composer)
      BY <2>2, <2>3, FreeTexts
    <3>2. \A x, y \in putBacks' : x = y
      BY <2>1, <2>3
    <3> QED
      BY <1>1, <2>1, <3>1, <3>2 DEF InOrder
  <2>4. CASE putBacks' = putBacks \ {b}
    BY <1>1, <2>1, <2>4 DEF InOrder
  <2> QED
    BY <1>6, <2>3, <2>4 DEF PutBackReads
<1>7. ASSUME NEW b \in putBacks, PutBackFills(b) PROVE InOrder'
  <2>1. UNCHANGED <<pc, draft, restoring>> /\ putBacks' = {}
    BY <1>1, <1>7 DEF PutBackFills, InOrder
  <2>2. pc \in {"idle", "read"}
    BY <1>1, <1>7 DEF PutBackFills
  <2> QED
    BY <1>1, <2>1, <2>2 DEF InOrder
<1>8. CASE PersonTypes
  <2>1. UNCHANGED <<pc, draft, restoring, putBacks>> /\ raced' = raced \cup EditRace
    BY <1>8 DEF PersonTypes, moduleVars
  <2>2. ~Overwritten /\ pc \notin {"switch", "append", "restore"}
    BY <1>1, <2>1 DEF EditRace
  <2> QED
    BY <1>1, <2>1, <2>2 DEF InOrder, Overwritten
<1>9. CASE (\E r \in Requests : Arrive(r)) \/ SessionEnds \/ IdMoves \/ SidecarReplaced \/ SidecarRebound \/ UNCHANGED vars
  <2>1. UNCHANGED <<pc, draft, composer, restoring, putBacks>>
    BY <1>9 DEF Arrive, SessionEnds, IdMoves, SidecarReplaced, SidecarRebound, Bind, vars, moduleVars, boxVars
  <2> QED
    BY <1>1, <2>1 DEF InOrder
<1>10. \A b \in putBacks : ~PutBackThrows(b)
  BY <1>1 DEF PutBackThrows
<1> QED
  BY <1>2, <1>3, <1>4, <1>5, <1>6, <1>7, <1>8, <1>9, <1>10 DEF Next

(* What held a piece of the person's still holds it.                       *)
LEMMA SafeStays ==
  ASSUME Base, NEW p, Safe(p),
         gone \subseteq gone',
         Holds(composer, p) => Safe(p)',
         UNCHANGED <<submits, entered, putBacks>>,
         RestoringWith(p) => Safe(p)', DraftWith(p) => Safe(p)'
  PROVE  Safe(p)'
  BY DEF Safe

LEMMA OwnStepSafe ==
  ASSUME Base, InOrder, ModuleStep, Unhurt, Unhurt', NEW p \in Mine, Safe(p)
  PROVE  Safe(p)'
<1> USE DEF keepQueue, keepWaits, keepWorld, moduleVars, boxVars, worldVars, GoTo
<1>1. /\ restoring # None => pc \in {"enter", "wait"} /\ restoring.draft = draft
      /\ pc \in {"switch", "append", "restore", "backFill"} => ~Holds(composer, p)
      /\ pc = "fill" => (Holds(composer, p) => Holds(draft, p))
  BY DEF InOrder, Free, Holds
<1>2. ASSUME NEW r \in Requests, answer' = [answer EXCEPT ![r] = "unconfirmed"]
      PROVE  FALSE
  BY <1>2 DEF Unhurt, NoneUnconfirmed, Base, TypeOK
<1>3. pc # "idle" => cur \in Requests
  BY DEF Base, TypeOK
<1> USE DEF DraftWith, DraftCounts, RestoringWith, Safe
<1>4. CASE Start
  BY <1>4 DEF Start, Answer, Base, TypeOK
<1>5. CASE ReadDraft
  BY <1>5 DEF ReadDraft
<1>6. CASE FillText
  <2>1. UNCHANGED <<gone, submits, entered, putBacks, restoring>>
    BY <1>6 DEF FillText
  <2>2. CASE Answer(cur, "not_delivered") /\ composer' = composer
    BY <1>6, <2>1, <2>2 DEF FillText
  <2>3. CASE pc' \in {"check", "backRead", "switch"} /\ draft' = draft
    BY <1>1, <1>6, <2>1, <2>3 DEF FillText
  <2> QED
    BY <1>6, <2>2, <2>3 DEF FillText, AfterFill
<1>7. CASE SwitchToBash
  BY <1>7 DEF SwitchToBash
<1>8. CASE AppendCommand
  <2>1. UNCHANGED <<gone, submits, entered, putBacks, restoring, draft>>
        /\ pc' \in {"restore", "check", "backRead"}
    BY <1>8 DEF AppendCommand, AfterFill
  <2> QED
    BY <1>1, <1>8, <2>1 DEF AppendCommand
<1>9. CASE RestoreDraft
  <2>1. UNCHANGED <<submits, entered, putBacks, restoring>> /\ gone \subseteq gone'
    BY <1>9 DEF RestoreDraft
  <2>2. Holds(draft, p) => Holds(composer', p) \/ p \in gone'
    BY <1>9 DEF RestoreDraft, Fill, Holds
  <2> QED
    BY <1>1, <1>9, <2>1, <2>2 DEF RestoreDraft
<1>10. CASE CheckId
  <2>1. UNCHANGED <<gone, composer, submits, entered, putBacks>> /\ restoring = None
    BY <1>1, <1>10 DEF CheckId
  <2>2. CASE pc' = "enter" /\ restoring' = [req |-> cur, draft |-> draft]
    <3>1. restoring'.draft = draft /\ restoring' # None
      <4>1. [req |-> cur, draft |-> draft] \in Restoring
        BY <1>3, <1>10 DEF CheckId, Restoring, Base, TypeOK
      <4> QED
        BY <2>2, <4>1, NoneAssumption
    <3> QED
      BY <2>1, <3>1
  <2>3. CASE pc' = "backRead" /\ restoring' = restoring /\ draft' = draft
    BY <2>1, <2>3
  <2> QED
    BY <1>10, <2>2, <2>3 DEF CheckId
<1>11. CASE PressEnter
  BY <1>11 DEF PressEnter
<1>12. CASE EndWait
  <2>1. UNCHANGED <<gone, composer, submits, entered, putBacks>> /\ pc = "wait"
    BY <1>12 DEF EndWait
  <2>2. CASE accepted /\ Answer(cur, "accepted") /\ restoring' = restoring
    BY <2>1, <2>2
  <2>3. CASE restoring' = None /\ GoTo("backRead")
    BY <1>1, <2>1, <2>3
  <2> QED
    BY <1>2, <1>3, <1>12, <2>1, <2>2, <2>3 DEF EndWait, Answer
<1>13. CASE BackRead
  <2>1. CASE GoTo("backFill")
    BY <1>13, <2>1 DEF BackRead
  <2> QED
    BY <1>2, <1>3, <1>13, <2>1 DEF BackRead, Answer
<1>14. CASE BackFill
  <2>1. CASE GoTo("backCheck") /\ Fill(draft)
    <3>1. UNCHANGED <<gone, submits, entered, putBacks, restoring>> /\ composer' = draft /\ pc = "backFill"
      BY <1>14, <2>1 DEF BackFill, Fill
    <3> QED
      BY <1>1, <3>1
  <2> QED
    BY <1>2, <1>3, <1>14, <2>1 DEF BackFill, Answer
<1>15. CASE BackCheck
  <2>1. UNCHANGED <<gone, composer, submits, entered, putBacks, restoring>> /\ pc = "backCheck"
    BY <1>15 DEF BackCheck
  <2> QED
    BY <2>1
<1>16. CASE EngineFails
  BY <1>2, <1>3, <1>16 DEF EngineFails, Answer
<1> QED
  BY <1>4, <1>5, <1>6, <1>7, <1>8, <1>9, <1>10, <1>11, <1>12, <1>13, <1>14, <1>15, <1>16
     DEF ModuleStep

LEMMA HandedOverSafe ==
  ASSUME \/ UNCHANGED <<restoring, putBacks>>
         \/ restoring # None /\ restoring' = None /\ putBacks' = PutBacksWith(restoring),
         NEW p
  PROVE  /\ RestoringWith(p) => RestoringWith(p)' \/ \E b \in putBacks' : Holds(b.draft, p)
         /\ putBacks \subseteq putBacks'
<1>1. CASE UNCHANGED <<restoring, putBacks>>
  BY <1>1 DEF RestoringWith
<1>2. CASE restoring # None /\ restoring' = None /\ putBacks' = PutBacksWith(restoring)
  <2> DEFINE c == [req |-> restoring.req, draft |-> restoring.draft, phase |-> "read"]
  <2>1. putBacks \subseteq putBacks'
    BY <1>2 DEF PutBacksWith
  <2>2. ASSUME Holds(restoring.draft, p) PROVE c \in putBacks'
    <3>1. restoring.draft # <<>>
      BY <2>2, ToSetShort DEF Holds
    <3> QED
      BY <1>2, <3>1 DEF PutBacksWith
  <2>3. c.draft = restoring.draft
    OBVIOUS
  <2> HIDE DEF c
  <2> QED
    BY <2>1, <2>2, <2>3 DEF RestoringWith
<1> QED
  BY <1>1, <1>2

LEMMA EnterSafe ==
  ASSUME Base, EnterTaken, UNCHANGED <<pc, draft, restoring, putBacks, gone>>, NEW p, Safe(p)
  PROVE  Safe(p)'
<1>1. CASE composer = <<>>
  BY <1>1 DEF EnterTaken, Safe, DraftWith, DraftCounts, RestoringWith
<1>2. CASE composer # <<>>
  <2>1. RestoringWith(p)' = RestoringWith(p)
    BY DEF RestoringWith
  <2>2. DraftWith(p)' = DraftWith(p)
    BY DEF DraftWith, DraftCounts
  <2>3. /\ Len(entered) \in Nat /\ Len(submits) \in Nat /\ submits \in Seq(Seq(Pieces))
        /\ entered \in Seq([text: Seq(Pieces), sid: 0..MaxMoves])
        /\ [text |-> composer, sid |-> realSid] \in [text: Seq(Pieces), sid: 0..MaxMoves]
        /\ composer \in Seq(Pieces)
    BY LengthsAre DEF Base, TypeOK
  <2>4. CASE bashMode
    <3>1. entered' = Append(entered, [text |-> composer, sid |-> realSid]) /\ submits' = submits
      BY <1>2, <2>4 DEF EnterTaken
    <3>2. /\ Len(entered') = Len(entered) + 1
          /\ entered'[Len(entered) + 1] = [text |-> composer, sid |-> realSid]
          /\ \A i \in 1..Len(entered) : entered'[i] = entered[i]
      BY <2>3, <3>1, AppendIs
    <3>3. entered'[Len(entered) + 1].text = composer
      BY <3>2
    <3>4. \A i \in 1..Len(entered) : i \in 1..Len(entered') /\ entered'[i] = entered[i]
      <4>1. Len(entered) \in Nat
        BY <2>3
      <4>2. 1..Len(entered) \subseteq 1..Len(entered')
        BY <3>2, <4>1
      <4> QED
        BY <3>2, <4>2
    <3>5. Len(entered) + 1 \in 1..Len(entered')
      BY <2>3, <3>2
    <3> QED
      BY <2>1, <2>2, <3>1, <3>3, <3>4, <3>5 DEF Safe
  <2>5. CASE ~bashMode
    <3>1. submits' = Append(submits, composer) /\ entered' = entered
      BY <1>2, <2>5 DEF EnterTaken
    <3>2. /\ Len(submits') = Len(submits) + 1 /\ submits'[Len(submits) + 1] = composer
          /\ \A i \in 1..Len(submits) : submits'[i] = submits[i]
      BY <2>3, <3>1, AppendIs
    <3>3. \A i \in 1..Len(submits) : i \in 1..Len(submits') /\ submits'[i] = submits[i]
      <4>1. Len(submits) \in Nat
        BY <2>3
      <4>2. 1..Len(submits) \subseteq 1..Len(submits')
        BY <3>2, <4>1
      <4> QED
        BY <3>2, <4>2
    <3>4. Len(submits) + 1 \in 1..Len(submits')
      BY <2>3, <3>2
    <3> QED
      BY <2>1, <2>2, <3>1, <3>2, <3>3, <3>4 DEF Safe
  <2> QED
    BY <2>4, <2>5
<1> QED
  BY <1>1, <1>2

LEMMA SettleSafe ==
  ASSUME Base, NEW i \in 1..Len(submits), SettleSubmit(i), NEW p, Safe(p)
  PROVE  Safe(p)'
<1>1. UNCHANGED <<pc, draft, composer>> /\ gone \subseteq gone'
  BY DEF SettleSubmit
<1>2. /\ RestoringWith(p) => RestoringWith(p)' \/ \E b \in putBacks' : Holds(b.draft, p)
      /\ putBacks \subseteq putBacks'
  <2>1. \/ UNCHANGED <<restoring, putBacks>>
        \/ restoring # None /\ restoring' = None /\ putBacks' = PutBacksWith(restoring)
    BY DEF SettleSubmit, TakesRestoring
  <2> QED
    BY <2>1, HandedOverSafe
<1>3. DraftWith(p)' = DraftWith(p)
  BY <1>1 DEF DraftWith, DraftCounts
<1>4. Len(entered) \in Nat /\ Len(submits) \in Nat /\ submits[i] \in Seq(Pieces)
  BY LengthsAre DEF Base, TypeOK
<1>5. (\E j \in 1..Len(entered) : Holds(entered[j].text, p))
        => \E j \in 1..Len(entered') : Holds(entered'[j].text, p)
  <2>1. [Next]_vars
    BY DEF Next
  <2>2. Len(entered) <= Len(entered') /\ \A j \in 1..Len(entered) : entered'[j] = entered[j]
    BY <2>1, EnteredGrows
  <2>3. Len(entered') \in Nat
    <3>1. entered' = entered \/ entered' = Append(entered, [text |-> submits[i], sid |-> realSid])
      BY DEF SettleSubmit
    <3>2. [text |-> submits[i], sid |-> realSid] \in [text: Seq(Pieces), sid: 0..MaxMoves]
      BY <1>4 DEF Base, TypeOK
    <3>3. entered \in Seq([text: Seq(Pieces), sid: 0..MaxMoves])
      BY DEF Base, TypeOK
    <3> QED
      BY <1>4, <3>1, <3>2, <3>3, AppendIs
  <2> QED
    BY <1>4, <2>2, <2>3
<1>6. ASSUME Holds(submits[i], p)
      PROVE  p \in gone' \/ \E j \in 1..Len(entered') : Holds(entered'[j].text, p)
  <2>1. CASE gone' = gone \cup ToSet(submits[i])
    BY <1>6, <2>1 DEF Holds
  <2>2. CASE entered' = Append(entered, [text |-> submits[i], sid |-> realSid])
    <3>1. [text |-> submits[i], sid |-> realSid] \in [text: Seq(Pieces), sid: 0..MaxMoves]
      BY <1>4 DEF Base, TypeOK
    <3>2. entered \in Seq([text: Seq(Pieces), sid: 0..MaxMoves])
      BY DEF Base, TypeOK
    <3>3. Len(entered') = Len(entered) + 1
          /\ entered'[Len(entered) + 1] = [text |-> submits[i], sid |-> realSid]
      BY <2>2, <3>1, <3>2, AppendIs
    <3>4. entered'[Len(entered) + 1].text = submits[i] /\ Len(entered) + 1 \in 1..Len(entered')
      BY <1>4, <3>3
    <3> QED
      BY <1>6, <3>4
  <2> QED
    BY <2>1, <2>2 DEF SettleSubmit
<1>7. ASSUME NEW j \in 1..Len(submits), j # i
      PROVE  \E k \in 1..Len(submits') : submits'[k] = submits[j]
  <2>1. submits \in Seq(Seq(Pieces)) /\ submits' = RemoveAt(submits, i)
    BY DEF SettleSubmit, Base, TypeOK
  <2>2. /\ Len(RemoveAt(submits, i)) = Len(submits) - 1
        /\ \A k \in 1..(Len(submits) - 1) :
             RemoveAt(submits, i)[k] = IF k < i THEN submits[k] ELSE submits[k + 1]
    BY <2>1, RemoveAtIs, Zenon
  <2>3. Len(submits') = Len(submits) - 1
        /\ \A k \in 1..(Len(submits) - 1) : submits'[k] = IF k < i THEN submits[k] ELSE submits[k + 1]
    BY <2>1, <2>2
  <2>4. CASE j < i
    <3>1. j \in 1..Len(submits') /\ submits'[j] = submits[j]
      BY <1>4, <2>3, <2>4
    <3> QED
      BY <3>1
  <2>5. CASE j > i
    <3>1. j - 1 \in 1..Len(submits') /\ submits'[j - 1] = submits[(j - 1) + 1]
      BY <1>4, <2>3, <2>5
    <3>2. (j - 1) + 1 = j
      OBVIOUS
    <3> QED
      BY <3>1, <3>2
  <2> QED
    BY <1>7, <2>4, <2>5
<1> QED
  BY <1>1, <1>2, <1>3, <1>5, <1>6, <1>7 DEF Safe

LEMMA PutBackSafe ==
  ASSUME Base, InOrder, Unhurt, NEW b \in putBacks, PutBackReads(b) \/ PutBackFills(b) \/ PutBackThrows(b),
         raced' \cap {"edit", "refused", "overlap"} = {},
         NEW p \in Mine, Safe(p)
  PROVE  Safe(p)'
<1>1. UNCHANGED <<pc, draft, submits, entered, restoring>> /\ gone \subseteq gone'
  BY DEF PutBackReads, PutBackFills, PutBackThrows, keepWorld, worldVars, boxVars
<1>2. \A x \in putBacks : x = b
  BY DEF InOrder
<1>3. CASE PutBackReads(b)
  <2>1. composer' = composer
    BY <1>3 DEF PutBackReads
  <2>2. CASE putBacks' = (putBacks \ {b}) \cup {[b EXCEPT !.phase = "fill"]}
    <3>1. [b EXCEPT !.phase = "fill"].draft = b.draft
      BY DEF Base, TypeOK, PutBack
    <3> QED
      BY <1>1, <1>2, <2>1, <2>2, <3>1 DEF Safe, DraftWith, DraftCounts, RestoringWith
  <2>3. CASE gone' = gone \cup ToSet(b.draft)
    BY <1>1, <1>2, <2>1, <2>3 DEF Safe, DraftWith, DraftCounts, RestoringWith, Holds
  <2> QED
    BY <1>3, <2>2, <2>3 DEF PutBackReads
<1>4. CASE PutBackFills(b)
  <2>1. composer' = b.draft
    BY <1>4 DEF PutBackFills, Fill
  <2>2. ~Holds(composer, p)
    BY <1>4 DEF PutBackFills, InOrder, Free, Holds
  <2> QED
    BY <1>1, <1>2, <2>1, <2>2 DEF Safe, DraftWith, DraftCounts, RestoringWith
<1>5. ~PutBackThrows(b)
  BY DEF PutBackThrows
<1> QED
  BY <1>3, <1>4, <1>5

LEMMA SafeStep ==
  ASSUME Base, InOrder, [Next]_vars, Unhurt', NEW p \in Mine, Safe(p)
  PROVE  Safe(p)'
<1>1. Unhurt /\ raced' \cap {"edit", "refused", "overlap"} = {}
  BY UnhurtBefore
<1>2. CASE ModuleStep
  BY <1>1, <1>2, OwnStepSafe
<1>3. CASE HarnessTakesKey \/ PersonEnters
  BY <1>3, EnterSafe DEF HarnessTakesKey, PersonEnters, moduleVars
<1>4. CASE \E i \in 1..Len(submits) : SettleSubmit(i)
  BY <1>4, SettleSafe
<1>5. CASE \E b \in putBacks : PutBackReads(b) \/ PutBackFills(b) \/ PutBackThrows(b)
  BY <1>1, <1>5, PutBackSafe
<1>6. CASE PersonTypes
  <2>1. composer \in Seq(Pieces) /\ composer' = Append(composer, Typed)
    BY <1>6 DEF PersonTypes, Base, TypeOK
  <2>2. Holds(composer, p) => Holds(composer', p)
    BY <2>1, ToSetAppend DEF Holds
  <2> QED
    BY <1>6, <2>2 DEF PersonTypes, moduleVars, Safe, DraftWith, DraftCounts, RestoringWith
<1>7. CASE PersonClears \/ ClearTold
  <2>1. UNCHANGED <<pc, draft, submits, entered>>
    BY <1>7 DEF PersonClears, ClearTold, moduleVars
  <2>2. gone \subseteq gone' /\ (Holds(composer, p) => p \in gone' \/ Holds(composer', p))
    BY <1>7 DEF PersonClears, ClearTold, boxVars, Holds
  <2>3. /\ RestoringWith(p) => RestoringWith(p)' \/ \E b \in putBacks' : Holds(b.draft, p)
        /\ putBacks \subseteq putBacks'
    BY <1>7, ClearedHandsOver, HandedOverSafe DEF PersonClears, ClearTold, moduleVars
  <2> QED
    BY <2>1, <2>2, <2>3 DEF Safe, DraftWith, DraftCounts
<1>8. CASE (\E r \in Requests : Arrive(r)) \/ SessionEnds \/ IdMoves \/ SidecarReplaced \/ SidecarRebound \/ UNCHANGED vars
  <2>1. UNCHANGED <<pc, draft, composer, restoring, putBacks, gone, submits, entered>>
    BY <1>8 DEF Arrive, SessionEnds, IdMoves, SidecarReplaced, SidecarRebound, Bind, vars, moduleVars, boxVars, worldVars
  <2> QED
    BY <2>1 DEF Safe, DraftWith, DraftCounts, RestoringWith
<1> QED
  BY <1>2, <1>3, <1>4, <1>5, <1>6, <1>7, <1>8 DEF Next

LEMMA AllSafeStep ==
  ASSUME Base, InOrder, AllSafe, [Next]_vars
  PROVE  AllSafe'
<1> SUFFICES ASSUME Unhurt' PROVE Safe(Draft)' /\ (typed' => Safe(Typed)')
  BY DEF AllSafe
<1>1. Unhurt
  BY UnhurtBefore
<1>2. Safe(Draft) /\ (typed => Safe(Typed))
  BY <1>1 DEF AllSafe
<1>3. Draft \in Mine /\ Typed \in Mine
  BY DEF Mine
<1>4. CASE PersonTypes
  <2>1. composer \in Seq(Pieces) /\ composer' = Append(composer, Typed)
    BY <1>4 DEF PersonTypes, Base, TypeOK
  <2>2. Holds(composer', Typed)
    BY <2>1, ToSetAppend DEF Holds
  <2> QED
    BY <1>2, <1>3, <2>2, SafeStep DEF Safe
<1>5. CASE ~PersonTypes
  <2>1. typed' = typed
    <3>1. CASE ModuleStep
      BY <3>1 DEF ModuleStep, Start, ReadDraft, FillText, SwitchToBash, AppendCommand, keepWorld, worldVars,
         RestoreDraft, CheckId, PressEnter, EndWait, BackRead, BackFill, BackCheck, EngineFails
    <3> QED
      BY <1>5, <3>1 DEF Next, Arrive, HarnessTakesKey, PersonEnters, SettleSubmit, PutBackReads,
         PutBackFills, PutBackThrows, PersonClears, ClearTold, SessionEnds, IdMoves, SidecarReplaced, SidecarRebound, Bind, keepWorld, worldVars, vars
  <2> QED
    BY <1>2, <1>3, <2>1, SafeStep
<1> QED
  BY <1>4, <1>5

LEMMA SafeIsKept ==
  ASSUME Base, AllSafe
  PROVE  PersonTextKept
<1>1. \A p : Safe(p) => Kept(p)
  BY DEF Safe, Kept, DraftWith, RestoringWith, EnteredWith
<1> QED
  BY <1>1 DEF AllSafe, Unhurt, PersonTextKept

-----------------------------------------------------------------------------
PromptInv == Base /\ Command /\ TakenAreIn /\ Enough /\ InOrder /\ AllSafe

LEMMA PromptInit == Init => PromptInv
<1> SUFFICES ASSUME Init PROVE PromptInv
  OBVIOUS
<1>1. Base
  BY BaseInit
<1>2. Command /\ InOrder
  BY DEF Init, Command, InOrder
<1>3. TakenAreIn
  <2>1. ASSUME NEW t, NEW s PROVE TakenAs(t, s) = {}
    <3>1. \A r \in Requests : stamp[r] = None
      BY DEF Init
    <3> QED
      BY <3>1 DEF TakenAs
  <2>2. \A t, s : Cardinality(TakenAs(t, s)) = 0
    BY <2>1, FS_EmptySet
  <2> QED
    BY <1>1, <2>2, TakenIs DEF TakenAreIn
<1>4. Enough
  <2> SUFFICES ASSUME NEW t \in Texts PROVE Copies(t) + One(InBox(t)) <= Cardinality(Sent(t))
    BY DEF Enough, Init
  <2>1. EnteredWith(t) = {} /\ SubmitsWith(t) = {} /\ PutBacksHolding(t) = {}
    BY DEF Init, EnteredWith, SubmitsWith, PutBacksHolding
  <2>2. ~RestoringWith(t) /\ ~DraftWith(t)
    BY DEF Init, RestoringWith, DraftWith, DraftCounts
  <2>3. ~InBox(t)
    <3>1. composer = <<Draft>> /\ pc = "idle"
      BY DEF Init
    <3> QED
      BY <3>1, ToSetShort, BoundAssumption DEF InBox, Holds
  <2>4. Cardinality({}) = 0
    BY FS_EmptySet
  <2>5. One(RestoringWith(t)) = 0 /\ One(DraftWith(t)) = 0 /\ One(InBox(t)) = 0
    BY <2>2, <2>3, OneIs
  <2>6. Copies(t) = 0
    BY <2>1, <2>4, <2>5 DEF Copies
  <2> QED
    BY <1>1, <2>5, <2>6, CountsAre
<1>5. AllSafe
  <2>1. Holds(composer, Draft)
    BY ToSetShort DEF Init, Holds
  <2> QED
    BY <2>1 DEF Init, AllSafe, Safe
<1> QED
  BY <1>1, <1>2, <1>3, <1>4, <1>5 DEF PromptInv

LEMMA PromptStep == PromptInv /\ [Next]_vars => PromptInv'
<1> SUFFICES ASSUME PromptInv, [Next]_vars PROVE PromptInv'
  OBVIOUS
<1>1. Base'
  BY BaseStep DEF PromptInv
<1> QED
  BY <1>1, CommandStep, TakenAreInStep, EnoughStep, InOrderStep, AllSafeStep DEF PromptInv

LEMMA PromptInvariance == Spec => []PromptInv
  BY PromptInit, PromptStep, PTL DEF Spec

(* TypeOK, for any requests, texts and bounds: the answers, the queue, the  *)
(* drafts kept and the counts stay what prompt-send.ts keeps them to.      *)
THEOREM PromptTyped == Spec => []TypeOK
<1>1. PromptInv => TypeOK
  BY DEF PromptInv, Base
<1> QED
  BY <1>1, PromptInvariance, PTL

(* A request answered not_delivered has no copy of its text in the         *)
(* composer, on its way or in, beyond those of the others (putBackUnsent). *)
THEOREM PromptNotDelivered == Spec => []NotDeliveredIsOut
<1>1. PromptInv => NotDeliveredIsOut
  BY EnoughCovers DEF PromptInv
<1> QED
  BY <1>1, PromptInvariance, PTL

(* As many requests as were answered accepted went in as they are into the *)
(* session they were sent to (handlePromptSend, promptSubmitted,           *)
(* composerCleared), as long as nothing AcceptedIsIn leaves out came in    *)
(* between.                                                                *)
THEOREM PromptAccepted == Spec => []AcceptedIsIn
<1>1. PromptInv => AcceptedIsIn
  BY TakenCover DEF PromptInv
<1> QED
  BY <1>1, PromptInvariance, PTL

(* What the person typed, and the draft that a request took out of the     *)
(* composer, is not lost unless a put-back of it is refused, throws or     *)
(* overlaps the next request, or an edit meets a fill (restoreDraft,       *)
(* putBackDraft).                                                          *)
THEOREM PromptTextKept == Spec => []PersonTextKept
<1>1. PromptInv => PersonTextKept
  BY SafeIsKept DEF PromptInv
<1> QED
  BY <1>1, PromptInvariance, PTL

-----------------------------------------------------------------------------
(* RequestOverride: a one-shot override is one turn's.                     *)

OnceOK ==
  \/ once = Absent
  \/ /\ once = [no |-> once.no, override |-> once.override, bound |-> once.bound]
     /\ once.no \in DOMAIN OneShots /\ once.bound \in BOOLEAN

EngineOK ==
  /\ left \in [Outside -> Nat] /\ left["submit"] <= Len(OneShots)
  /\ turn \in Nat \cup {Absent}
  /\ stepping \in BOOLEAN /\ (stepping => turn # Absent)
  /\ carried \in [DOMAIN OneShots -> SUBSET Nat]

(* What the one-shot in force has been carried by: bound, by its turn;     *)
(* unbound, by none. One that came early may have gone with one turn more, *)
(* and while a request waits no other is unbound.                          *)
BoundBy(n) ==
  /\ turn # Absent
  /\ n \notin early => carried[n] \subseteq {turn}
  /\ \E s \in Nat : carried[n] \subseteq {s, turn}
UnboundYet(n) ==
  /\ n \notin early => ~stepping /\ carried[n] = {}
  /\ turn # Absent => carried[n] \subseteq {turn}
  /\ \E s \in Nat : carried[n] \subseteq {s}
InForce ==
  once # Absent => /\ once.no > left["submit"]
                   /\ once.bound => BoundBy(once.no)
                   /\ ~once.bound => UnboundYet(once.no)

UnusedYet == \A n \in DOMAIN OneShots : n <= left["submit"] => carried[n] = {} /\ n \notin early
OneEach ==
  \A n \in DOMAIN OneShots :
    /\ n \notin early => \E t \in Nat : carried[n] \subseteq {t}
    /\ \E s \in Nat, t \in Nat : carried[n] \subseteq {s, t}

IInv == OnceOK /\ EngineOK /\ InForce /\ UnusedYet /\ OneEach

-----------------------------------------------------------------------------
LEMMA InitIInv == OverrideInit => IInv
<1> SUFFICES ASSUME OverrideInit PROVE IInv
  OBVIOUS
<1>1. left \in [Outside -> Nat] /\ left["submit"] <= Len(OneShots)
  BY OverrideAssumption DEF OverrideInit
<1>2. \A n \in DOMAIN OneShots : carried[n] = {}
  BY DEF OverrideInit
<1> QED
  BY <1>1, <1>2 DEF OverrideInit, IInv, OnceOK, EngineOK, InForce, UnusedYet, OneEach

(* Laying a change over a one-shot leaves it the same one.                 *)
LEMMA WithoutIsTheSame ==
  ASSUME OnceOK, once # Absent, NEW fields, NEW o, o = Without(once, fields), o # Absent
  PROVE  /\ o = [no |-> once.no, override |-> o.override, bound |-> once.bound]
         /\ o.no = once.no /\ o.bound = once.bound
<1>1. PICK kept : o = [once EXCEPT !.override = kept]
  BY DEF Without
<1>2. o = [no |-> once.no, override |-> kept, bound |-> once.bound]
  BY <1>1 DEF OnceOK
<1> QED
  BY <1>2

(* Steps that touch neither the engine nor the budget: the one-shot stays, *)
(* goes, or loses fields.                                                  *)
LEMMA OnceStays ==
  ASSUME IInv, UNCHANGED engineVars, left' = left,
         \/ once' = Absent
         \/ once # Absent /\ once' # Absent /\ once'.no = once.no /\ once'.bound = once.bound
            /\ once' = [no |-> once'.no, override |-> once'.override, bound |-> once'.bound]
  PROVE  IInv'
<1>1. UNCHANGED <<turn, stepping, carried, early>>
  BY DEF engineVars
<1>2. OnceOK' /\ EngineOK' /\ UnusedYet' /\ OneEach'
  BY <1>1 DEF IInv, OnceOK, EngineOK, UnusedYet, OneEach
<1>3. InForce'
  BY <1>1 DEF IInv, InForce, BoundBy, UnboundYet
<1> QED
  BY <1>2, <1>3 DEF IInv

(* What comes from outside and brings no one-shot spends of the budget.    *)
LEMMA Spends ==
  ASSUME IInv, NEW what \in Outside \ {"submit"}, Spend(what)
  PROVE  left' \in [Outside -> Nat] /\ left'["submit"] = left["submit"]
  BY DEF Spend, IInv, EngineOK, Outside

(* ... and leaves what the engine has done as it is.                       *)
LEMMA SpentIInv ==
  ASSUME IInv, left' \in [Outside -> Nat], left'["submit"] = left["submit"],
         UNCHANGED <<once, turn, stepping, carried, early>>
  PROVE  IInv'
<1>1. OnceOK' /\ EngineOK' /\ UnusedYet' /\ OneEach'
  BY DEF IInv, OnceOK, EngineOK, UnusedYet, OneEach
<1>2. InForce'
  BY DEF IInv, InForce, BoundBy, UnboundYet
<1> QED
  BY <1>1, <1>2 DEF IInv

LEMMA BoundIs ==
  ASSUME OnceOK, once # Absent
  PROVE  Bound = [no |-> once.no, override |-> once.override, bound |-> TRUE]
  BY DEF Bound, OnceOK

LEMMA PromptIInv == IInv /\ PromptSubmitting => IInv'
<1> SUFFICES ASSUME IInv, PromptSubmitting PROVE IInv'
  OBVIOUS
<1> USE DEF IInv
<1> PICK n : n = left["submit"]
  OBVIOUS
<1>0. OneShots \in Seq(Override \ {Unset})
  BY OverrideAssumption
<1>1. n \in Nat \ {0} /\ n <= Len(OneShots)
  BY DEF PromptSubmitting, Spend, EngineOK, Outside
<1>2. left' \in [Outside -> Nat] /\ left'["submit"] = n - 1
  BY DEF PromptSubmitting, Spend, EngineOK, Outside
<1>3. /\ once' = [no |-> n, override |-> OneShots[n], bound |-> FALSE]
      /\ UNCHANGED <<turn, stepping, carried>>
      /\ early' = IF stepping THEN early \cup {n} ELSE early
  BY DEF PromptSubmitting, Changed
<1>4. n \in DOMAIN OneShots /\ carried[n] = {}
  BY <1>0, <1>1 DEF UnusedYet
<1>5. \A m \in DOMAIN OneShots : m # n => (m \in early' <=> m \in early)
  BY <1>3
<1>6. UnusedYet'
  BY <1>0, <1>1, <1>2, <1>3, <1>5 DEF UnusedYet
<1>7. OnceOK'
  BY <1>3, <1>4 DEF OnceOK
<1>8. InForce'
  <2>1. UnboundYet(n)'
    BY <1>3, <1>4 DEF UnboundYet, EngineOK
  <2>2. once'.no = n /\ once'.bound = FALSE /\ n > left'["submit"]
    BY <1>1, <1>2, <1>3
  <2> QED
    BY <2>1, <2>2 DEF InForce
<1>9. EngineOK'
  BY <1>0, <1>1, <1>2, <1>3 DEF EngineOK
<1>10. OneEach'
  BY <1>3, <1>4, <1>5 DEF OneEach
<1> QED
  BY <1>6, <1>7, <1>8, <1>9, <1>10

LEMMA StartIInv == IInv /\ TurnStarts => IInv'
<1> SUFFICES ASSUME IInv, TurnStarts PROVE IInv'
  OBVIOUS
<1> USE DEF IInv
<1>0. Absent \notin Nat
  BY OverrideAssumption
<1>1. /\ turn = Absent /\ turn' \in Nat /\ UNCHANGED <<stepping, carried, early>>
      /\ once' = Bound
  BY DEF TurnStarts, Spend, EngineOK, Outside
<1>2. left' \in [Outside -> Nat] /\ left'["submit"] = left["submit"]
  BY Spends DEF TurnStarts, Outside
<1>3. EngineOK' /\ UnusedYet' /\ OneEach'
  BY <1>0, <1>1, <1>2 DEF EngineOK, UnusedYet, OneEach
<1>4. CASE once = Absent
  BY <1>1, <1>3, <1>4 DEF Bound, OnceOK, InForce
<1>5. CASE once # Absent
  <2>1. once' = [no |-> once.no, override |-> once.override, bound |-> TRUE]
    BY <1>1, <1>5, BoundIs
  <2>2. once'.bound = TRUE /\ once'.no = once.no
    BY <2>1
  <2>3. CASE once.bound
    BY <1>1, <1>5, <2>3 DEF InForce, BoundBy
  <2>4. CASE ~once.bound
    <3>1. /\ once.no \notin early => carried[once.no] = {}
          /\ \E s \in Nat : carried[once.no] \subseteq {s}
      BY <1>5, <2>4 DEF InForce, UnboundYet
    <3>2. BoundBy(once.no)'
      BY <1>0, <1>1, <2>2, <3>1 DEF BoundBy
    <3>3. once.no > left'["submit"]
      BY <1>2, <1>5 DEF InForce
    <3>4. OnceOK'
      BY <1>5, <2>1 DEF OnceOK
    <3>5. InForce'
      BY <2>2, <3>2, <3>3 DEF InForce
    <3> QED
      BY <1>3, <3>4, <3>5
  <2> QED
    BY <2>3, <2>4
<1> QED
  BY <1>4, <1>5

LEMMA BeginsIInv == IInv /\ StepBegins => IInv'
<1> SUFFICES ASSUME IInv, StepBegins PROVE IInv'
  OBVIOUS
<1> USE DEF IInv
<1>1. /\ turn # Absent /\ turn \in Nat /\ ~stepping /\ stepping'
      /\ UNCHANGED <<turn, carried, early, left>> /\ stepping' \in BOOLEAN
      /\ once' = Bound
  BY DEF StepBegins, EngineOK
<1>2. EngineOK' /\ UnusedYet' /\ OneEach'
  BY <1>1 DEF EngineOK, UnusedYet, OneEach
<1>3. CASE once = Absent
  BY <1>1, <1>2, <1>3 DEF Bound, OnceOK, InForce
<1>4. CASE once # Absent
  <2>1. once' = [no |-> once.no, override |-> once.override, bound |-> TRUE]
    BY <1>1, <1>4, BoundIs
  <2>2. once'.bound = TRUE /\ once'.no = once.no
    BY <2>1
  <2>3. BoundBy(once.no)
    BY <1>1, <1>4 DEF InForce, BoundBy, UnboundYet
  <2>4. BoundBy(once.no)'
    BY <1>1, <2>2, <2>3 DEF BoundBy
  <2>5. OnceOK' /\ InForce'
    BY <1>1, <1>4, <2>1, <2>2, <2>4 DEF OnceOK, InForce
  <2> QED
    BY <1>2, <2>5
<1> QED
  BY <1>3, <1>4

LEMMA GoesIInv == IInv /\ StepGoes => IInv'
<1> SUFFICES ASSUME IInv, StepGoes PROVE IInv'
  OBVIOUS
<1> USE DEF IInv
<1>1. /\ stepping /\ stepping' = FALSE /\ turn # Absent /\ turn \in Nat
      /\ UNCHANGED <<once, turn, early, left>>
      /\ carried' = IF once = Absent THEN carried ELSE [carried EXCEPT ![once.no] = @ \cup {turn}]
  BY DEF StepGoes, EngineOK, hookVars
<1>2. CASE once = Absent
  <2>1. carried' = carried
    BY <1>1, <1>2
  <2> QED
    BY <1>1, <1>2, <2>1 DEF OnceOK, EngineOK, InForce, UnusedYet, OneEach
<1>3. CASE once # Absent
  <2> PICK n : n = once.no
    OBVIOUS
  <2>1. n \in DOMAIN OneShots /\ once' = once /\ once.bound \in BOOLEAN
    BY <1>1, <1>3 DEF OnceOK
  <2>2. /\ carried' \in [DOMAIN OneShots -> SUBSET Nat]
        /\ carried'[n] = carried[n] \cup {turn}
        /\ \A m \in DOMAIN OneShots : m # n => carried'[m] = carried[m]
    BY <1>1, <1>3, <2>1 DEF EngineOK
  <2>3. n > left["submit"]
    BY <1>3 DEF InForce
  <2>4. InForce' /\ BoundBy(n)'
    <3>1. CASE once.bound
      <4>1. BoundBy(n)
        BY <1>3, <3>1 DEF InForce
      <4>2. BoundBy(n)'
        BY <1>1, <2>2, <4>1 DEF BoundBy
      <4> QED
        BY <1>1, <2>1, <2>3, <3>1, <4>2 DEF InForce
    <3>2. CASE ~once.bound
      <4>1. n \in early /\ carried[n] \subseteq {turn}
        BY <1>1, <1>3, <3>2 DEF InForce, UnboundYet
      <4>2. carried'[n] \subseteq {turn}
        BY <2>2, <4>1
      <4>3. UnboundYet(n)' /\ BoundBy(n)'
        BY <1>1, <4>1, <4>2 DEF UnboundYet, BoundBy
      <4> QED
        BY <1>1, <2>1, <2>3, <3>2, <4>3 DEF InForce
    <3> QED
      BY <3>1, <3>2
  <2>5. OnceOK' /\ EngineOK'
    BY <1>1, <2>1, <2>2 DEF OnceOK, EngineOK
  <2>6. UnusedYet'
    BY <1>1, <2>1, <2>2, <2>3 DEF UnusedYet, EngineOK, Outside
  <2>7. OneEach'
    <3>1. /\ n \notin early => carried'[n] \subseteq {turn}
          /\ \E s \in Nat : carried'[n] \subseteq {s, turn}
      BY <1>1, <2>4 DEF BoundBy
    <3> QED
      BY <1>1, <2>2, <3>1 DEF OneEach
  <2> QED
    BY <2>4, <2>5, <2>6, <2>7
<1> QED
  BY <1>2, <1>3

LEMMA CompletesIInv == IInv /\ TurnCompletes => IInv'
<1> SUFFICES ASSUME IInv, TurnCompletes PROVE IInv'
  OBVIOUS
<1> USE DEF IInv
<1>1. /\ turn' = Absent /\ ~stepping /\ UNCHANGED <<stepping, carried, early, left>>
      /\ once' = IF once # Absent /\ once.bound THEN Absent ELSE once
  BY DEF TurnCompletes, Changed
<1>2. OnceOK' /\ EngineOK' /\ UnusedYet' /\ OneEach'
  BY <1>1 DEF OnceOK, EngineOK, UnusedYet, OneEach
<1>3. InForce'
  BY <1>1 DEF InForce, UnboundYet, BoundBy
<1> QED
  BY <1>2, <1>3

(* Steps after which there is no one-shot and no request that waits.       *)
LEMMA DroppedIInv ==
  ASSUME IInv, once' = Absent, UNCHANGED <<turn, carried, early>>, stepping' \in BOOLEAN, stepping' => stepping,
         left' \in [Outside -> Nat], left'["submit"] = left["submit"]
  PROVE  IInv'
<1>1. left' \in [Outside -> Nat] /\ left'["submit"] <= Len(OneShots)
  BY DEF IInv, EngineOK
<1>2. EngineOK'
  BY <1>1 DEF IInv, EngineOK
<1>3. OnceOK' /\ InForce' /\ UnusedYet' /\ OneEach'
  BY DEF IInv, OnceOK, InForce, UnusedYet, OneEach
<1> QED
  BY <1>2, <1>3 DEF IInv

LEMMA LineIInv ==
  ASSUME IInv, NEW k \in DOMAIN lines, RunsLine(k)
  PROVE  IInv'
<1>1. UNCHANGED engineVars /\ left' = left
  BY DEF RunsLine
<1>2. CASE once' = once
  BY <1>1, <1>2, OnceStays DEF IInv, OnceOK
<1>3. CASE \E over, clear : Set(over, clear)
  <2>1. PICK fields : once' = IF once = Absent THEN Absent ELSE Without(once, fields)
    BY <1>3 DEF Set, Changed
  <2> QED
    BY <1>1, <2>1, OnceStays, WithoutIsTheSame DEF IInv
<1> QED
  BY <1>2, <1>3 DEF RunsLine

LEMMA NextIInv == IInv /\ [OverrideNext]_overrideVars => IInv'
<1> SUFFICES ASSUME IInv, [OverrideNext]_overrideVars PROVE IInv'
  OBVIOUS
<1>1. ASSUME UNCHANGED <<once, turn, stepping, carried, early, left>> PROVE IInv'
  BY <1>1, SpentIInv DEF IInv, EngineOK
<1>2. CASE PromptSubmitting \/ TurnStarts \/ StepBegins \/ StepGoes \/ TurnCompletes
  BY <1>2, PromptIInv, StartIInv, BeginsIInv, GoesIInv, CompletesIInv
<1>3. CASE PromptSubmitSettled
  <2>1. UNCHANGED <<turn, stepping, carried, early, left>> /\ (once' = Absent \/ once' = once)
    BY <1>3 DEF PromptSubmitSettled, Changed
  <2>2. left \in [Outside -> Nat] /\ stepping \in BOOLEAN
    BY DEF IInv, EngineOK
  <2> QED
    BY <1>1, <2>1, <2>2, DroppedIInv
<1>4. CASE OverridesDropped \/ ModuleReloads
  <2>1. once' = Absent /\ UNCHANGED <<turn, carried, early>>
    BY <1>4 DEF OverridesDropped, ModuleReloads, Changed, engineVars
  <2>2. stepping' \in BOOLEAN /\ (stepping' => stepping)
    <3>1. stepping \in BOOLEAN
      BY DEF IInv, EngineOK
    <3>2. CASE OverridesDropped
      BY <3>1, <3>2 DEF OverridesDropped, engineVars
    <3>3. CASE ModuleReloads
      BY <3>3 DEF ModuleReloads
    <3> QED
      BY <1>4, <3>2, <3>3
  <2>3. left' \in [Outside -> Nat] /\ left'["submit"] = left["submit"]
    BY <1>4, Spends DEF OverridesDropped, ModuleReloads, Outside
  <2> QED
    BY <2>1, <2>3, <2>2, DroppedIInv
<1>5. CASE \/ SidecarDies \/ DaemonStops \/ \E i \in 1..sid, patch \in Patches : Change(i, patch)
  <2>1. left' \in [Outside -> Nat] /\ left'["submit"] = left["submit"]
    BY <1>5, Spends DEF SidecarDies, DaemonStops, Change, Outside
  <2>2. UNCHANGED <<once, turn, stepping, carried, early>>
    BY <1>5 DEF SidecarDies, DaemonStops, Change, hookVars, engineVars
  <2> QED
    BY <2>1, <2>2, SpentIInv
<1>6. CASE \E k \in DOMAIN lines : RunsLine(k)
  BY <1>6, LineIInv
<1>7. CASE \/ \E k \in DOMAIN posts : Composes(k) \/ Goes(k) \/ Lands(k) \/ NotSent(k)
           \/ \E k \in DOMAIN lines : LineLost(k)
  BY <1>1, <1>7 DEF Composes, Goes, Lands, NotSent, LineLost, hookVars, engineVars
<1>8. CASE \/ IdChanges \/ CommandRun \/ FileFollows \/ SendStarts
           \/ SidecarRespawns \/ Named \/ DaemonStarts \/ Subscribes
  BY <1>1, <1>8 DEF IdChanges, CommandRun, FileFollows, SendStarts, SidecarRespawns, Named,
     DaemonStarts, Subscribes, hookVars, engineVars
<1>9. CASE UNCHANGED overrideVars
  BY <1>1, <1>9 DEF overrideVars, hookVars, engineVars
<1> QED
  BY <1>2, <1>3, <1>4, <1>5, <1>6, <1>7, <1>8, <1>9 DEF OverrideNext, Progress, Arrivals, Losses

(* OneTurnOnly for any number of prompts, turns and changes.               *)
THEOREM OneTurn == OverrideSpec => []OneTurnOnly
<1>1. IInv => OneTurnOnly
  <2> SUFFICES ASSUME IInv, NEW n \in DOMAIN OneShots
               PROVE  Cardinality(carried[n]) <= IF n \in early THEN 2 ELSE 1
    BY DEF OneTurnOnly
  <2>1. CASE n \notin early
    <3>1. PICK t \in Nat : carried[n] \subseteq {t}
      BY <2>1 DEF IInv, OneEach
    <3>2. IsFiniteSet({t}) /\ Cardinality({t}) = 1
      BY FS_Singleton
    <3>3. Cardinality(carried[n]) \in Nat /\ Cardinality(carried[n]) <= Cardinality({t})
      BY <3>1, <3>2, FS_Subset, FS_CardinalityType
    <3> QED
      BY <2>1, <3>2, <3>3
  <2>2. CASE n \in early
    <3>1. PICK s \in Nat, t \in Nat : carried[n] \subseteq {s, t}
      BY DEF IInv, OneEach
    <3>2. IsFiniteSet({s}) /\ Cardinality({s}) = 1
      BY FS_Singleton
    <3>3. /\ IsFiniteSet({s} \cup {t})
          /\ Cardinality({s} \cup {t}) = 1 \/ Cardinality({s} \cup {t}) = 2
      BY <3>2, FS_AddElement
    <3>4. carried[n] \subseteq {s} \cup {t}
      BY <3>1
    <3>5. Cardinality(carried[n]) \in Nat /\ Cardinality(carried[n]) <= Cardinality({s} \cup {t})
      BY <3>3, <3>4, FS_Subset, FS_CardinalityType
    <3> QED
      BY <2>2, <3>3, <3>5
  <2> QED
    BY <2>1, <2>2
<1>2. OverrideSpec => []IInv
  BY InitIInv, NextIInv, PTL DEF OverrideSpec
<1> QED
  BY <1>1, <1>2, PTL

-----------------------------------------------------------------------------
(* RequestOverride: types.                                                 *)

(* Within one of the budgets, and the session's id counts its /clears.     *)
Counted ==
  \E b \in Budgets :
    /\ left \in [Outside -> Nat]
    /\ \A w \in Outside : left[w] <= b[w]
    /\ sid + left["clear"] + (IF clearing = "ended" THEN 1 ELSE 0) = b["clear"] + 1
    /\ sid \in Nat \ {0}

OneShot == [no: DOMAIN OneShots, override: Override \ {Unset}, bound: BOOLEAN]
HookTyped ==
  /\ clearing \in {"no", "ended", "changed"}
  /\ session \in Override /\ queued \in BOOLEAN
  /\ once = Absent \/ once \in OneShot

EngineTyped ==
  /\ turn \in Most("turn") \cup {Absent}
  /\ stepping \in BOOLEAN /\ early \subseteq DOMAIN OneShots
  /\ submitting \in DOMAIN OneShots \cup {Absent}
  /\ carried \in [DOMAIN OneShots -> SUBSET Most("turn")]

(* A line is a sidecar's.                                                  *)
Line == [op: {"set"}, over: Override, clear: SUBSET Fields, late: BOOLEAN]
        \cup [op: {"facts"}, life: Most("stop")]
SidecarTyped ==
  /\ carrier \in 1..sid \cup {Absent} /\ link \in {Absent, carrier} /\ (link # Absent => up)
  /\ up \in BOOLEAN
  /\ lines \in Seq(Line) /\ missed \in BOOLEAN
  /\ carrier = Absent => lines = <<>>

(* Facts that were put together hold values; a reply, and what is on its   *)
(* way, is for a session.                                                  *)
Facts == [kind: {"send", "reply"}, step: {"timed", "composed", "going"}, left: BOOLEAN,
          vals: Shown \cup {Absent}, to: Ids \cup {Absent}, life: Most("stop"), late: SUBSET Ids]
FactsSent ==
  {p \in Facts : /\ p.step = "timed" \/ p.vals \in Shown
                 /\ (p.kind = "send" /\ p.step # "going") \/ p.to \in Ids}
PostsTyped == posts \in Seq(FactsSent) /\ unheard \in BOOLEAN

DaemonTyped ==
  /\ filed \in 1..sid
  /\ held \in [Ids -> Override]
  /\ states \in [Ids -> Shown \cup {Absent}]
  /\ tab = Absent \/ tab \in [Ids -> Shown \cup {Absent}]

AllTyped == Counted /\ HookTyped /\ EngineTyped /\ SidecarTyped /\ PostsTyped /\ DaemonTyped

-----------------------------------------------------------------------------
(* The counts.                                                             *)

LEMMA SpendOne ==
  ASSUME NEW what \in Outside, Spend(what), left \in [Outside -> Nat]
  PROVE  /\ left' \in [Outside -> Nat] /\ left[what] > 0 /\ left'[what] = left[what] - 1
         /\ \A w \in Outside : left'[w] <= left[w] /\ (w # what => left'[w] = left[w])
  BY DEF Spend

LEMMA Within ==
  ASSUME Counted
  PROVE  /\ sid \in Ids /\ (\A i \in 1..sid : i \in Ids) /\ sid \in Nat \ {0}
         /\ left \in [Outside -> Nat] /\ \A w \in Outside : left[w] \in Most(w)
<1>1. PICK b \in Budgets :
        /\ left \in [Outside -> Nat]
        /\ \A w \in Outside : left[w] <= b[w]
        /\ sid + left["clear"] + (IF clearing = "ended" THEN 1 ELSE 0) = b["clear"] + 1
        /\ sid \in Nat \ {0}
  BY DEF Counted
<1>2. b \in [Outside -> Nat] /\ "clear" \in Outside
  BY OverrideAssumption DEF Outside
<1>3. ASSUME NEW w \in Outside PROVE left[w] \in Most(w)
  BY <1>1, <1>2 DEF Most
<1>4. ASSUME NEW i \in 1..sid PROVE i \in Ids
  <2>1. i - 1 \in 0..b["clear"]
    BY <1>1, <1>2
  <2>2. i - 1 \in Most("clear")
    BY <2>1 DEF Most
  <2>3. i = (i - 1) + 1
    BY <1>1
  <2> QED
    BY <2>2, <2>3 DEF Ids
<1>5. sid \in 1..sid
  BY <1>1
<1> QED
  BY <1>1, <1>3, <1>4, <1>5

LEMMA CountingSteps ==
  ASSUME [OverrideNext]_overrideVars
  PROVE  \/ OverridesDropped \/ IdChanges \/ CommandRun
         \/ /\ UNCHANGED <<sid, clearing>>
            /\ left' = left \/ \E what \in Outside \ {"clear"} : Spend(what)
<1>1. CASE PromptSubmitting \/ TurnStarts
  BY <1>1 DEF PromptSubmitting, TurnStarts, Outside
<1>2. CASE PromptSubmitSettled \/ StepBegins \/ StepGoes \/ TurnCompletes
  BY <1>2 DEF PromptSubmitSettled, StepBegins, StepGoes, TurnCompletes, hookVars
<1>3. CASE ModuleReloads \/ SidecarDies \/ DaemonStops \/ \E i \in 1..sid, patch \in Patches : Change(i, patch)
  BY <1>3 DEF ModuleReloads, SidecarDies, DaemonStops, Change, hookVars, Outside
<1>4. CASE SendStarts \/ Arrivals \/ Losses
  BY <1>4 DEF SendStarts, Arrivals, Composes, Goes, Lands, RunsLine, Losses, NotSent, LineLost, hookVars
<1>5. CASE FileFollows \/ SidecarRespawns \/ Named \/ DaemonStarts \/ Subscribes
  BY <1>5 DEF FileFollows, SidecarRespawns, Named, DaemonStarts, Subscribes, hookVars
<1>6. CASE UNCHANGED overrideVars
  BY <1>6 DEF overrideVars, hookVars
<1> QED
  BY <1>1, <1>2, <1>3, <1>4, <1>5, <1>6 DEF OverrideNext, Progress

LEMMA CountedStep ==
  ASSUME Counted, [OverrideNext]_overrideVars
  PROVE  Counted'
<1>1. PICK b \in Budgets :
        /\ left \in [Outside -> Nat]
        /\ \A w \in Outside : left[w] <= b[w]
        /\ sid + left["clear"] + (IF clearing = "ended" THEN 1 ELSE 0) = b["clear"] + 1
        /\ sid \in Nat \ {0}
  BY DEF Counted
<1>2. b \in [Outside -> Nat] /\ "clear" \in Outside
  BY OverrideAssumption DEF Outside
<1> SUFFICES /\ left' \in [Outside -> Nat]
             /\ \A w \in Outside : left'[w] <= b[w]
             /\ sid' + left'["clear"] + (IF clearing' = "ended" THEN 1 ELSE 0) = b["clear"] + 1
             /\ sid' \in Nat \ {0}
  BY DEF Counted
<1>3. CASE OverridesDropped
  <2>1. clearing = "no" /\ clearing' = "ended" /\ sid' = sid /\ Spend("clear")
    BY <1>3 DEF OverridesDropped
  <2>2. /\ left' \in [Outside -> Nat] /\ left["clear"] > 0 /\ left'["clear"] = left["clear"] - 1
        /\ \A w \in Outside : left'[w] <= left[w]
    BY <1>1, <1>2, <2>1, SpendOne
  <2> QED
    BY <1>1, <1>2, <2>1, <2>2
<1>4. CASE IdChanges
  BY <1>1, <1>2, <1>4 DEF IdChanges
<1>5. CASE CommandRun
  BY <1>1, <1>2, <1>5 DEF CommandRun
<1>6. CASE UNCHANGED <<sid, clearing>> /\ left' = left
  BY <1>1, <1>6
<1>7. ASSUME UNCHANGED <<sid, clearing>>, NEW what \in Outside \ {"clear"}, Spend(what)
      PROVE  /\ left' \in [Outside -> Nat]
             /\ \A w \in Outside : left'[w] <= b[w]
             /\ sid' + left'["clear"] + (IF clearing' = "ended" THEN 1 ELSE 0) = b["clear"] + 1
             /\ sid' \in Nat \ {0}
  <2>1. /\ left' \in [Outside -> Nat] /\ left'["clear"] = left["clear"]
        /\ \A w \in Outside : left'[w] <= left[w]
    BY <1>1, <1>2, <1>7, SpendOne
  <2> QED
    BY <1>1, <1>2, <1>7, <2>1
<1> QED
  BY <1>3, <1>4, <1>5, <1>6, <1>7, CountingSteps

-----------------------------------------------------------------------------
(* The overrides.                                                          *)

LEMMA UnsetTyped == Unset \in Override
  BY DEF Unset, Override

LEMMA ChangedTyped ==
  ASSUME HookTyped, NEW s \in Override, NEW o, o = Absent \/ o \in OneShot, Changed(s, o)
  PROVE  /\ session' \in Override /\ queued' \in BOOLEAN
         /\ once' = Absent \/ once' \in OneShot
  BY DEF HookTyped, Changed

LEMMA BoundTyped ==
  ASSUME HookTyped
  PROVE  Bound = Absent \/ Bound \in OneShot
  BY DEF HookTyped, OneShot, Bound

LEMMA WithoutTyped ==
  ASSUME once \in OneShot, NEW fields
  PROVE  Without(once, fields) = Absent \/ Without(once, fields) \in OneShot
<1> DEFINE kept == [f \in Fields |-> IF f \in fields THEN Absent ELSE once.override[f]]
<1>1. kept \in Override
  BY DEF OneShot, Override
<1>2. Without(once, fields) = IF kept = Unset THEN Absent ELSE [once EXCEPT !.override = kept]
  BY DEF Without
<1> HIDE DEF kept
<1> QED
  BY <1>1, <1>2 DEF OneShot

LEMMA LineTyped ==
  ASSUME SidecarTyped, NEW k \in DOMAIN lines
  PROVE  /\ lines \in Seq(Line) /\ k \in 1..Len(lines)
         /\ lines[k].op = "set" => lines[k].over \in Override /\ lines[k].late \in BOOLEAN
         /\ lines[k].op # "set" => lines[k].life \in Most("stop")
<1>1. lines \in Seq(Line)
  BY DEF SidecarTyped
<1>2. lines[k] \in Line
  BY <1>1
<1> QED
  BY <1>1, <1>2 DEF Line

LEMMA HookStep ==
  ASSUME HookTyped, Counted, SidecarTyped, [OverrideNext]_overrideVars
  PROVE  HookTyped'
<1>1. CASE UNCHANGED <<clearing, session, once, queued>>
  BY <1>1 DEF HookTyped
<1>2. ASSUME NEW s \in Override, NEW o, o = Absent \/ o \in OneShot, Changed(s, o),
             clearing' \in {"no", "ended", "changed"}
      PROVE  HookTyped'
  BY <1>2, ChangedTyped DEF HookTyped
<1>3. session \in Override /\ (once = Absent \/ once \in OneShot)
      /\ clearing \in {"no", "ended", "changed"}
  BY DEF HookTyped
<1>4. CASE PromptSubmitting
  <2> DEFINE n == left["submit"]
             o == [no |-> n, override |-> OneShots[n], bound |-> FALSE]
  <2>1. left \in [Outside -> Nat] /\ n \in Nat \ {0} /\ n <= Len(OneShots)
    <3>1. PICK b \in Budgets : left \in [Outside -> Nat] /\ \A w \in Outside : left[w] <= b[w]
      BY DEF Counted
    <3>2. b \in [Outside -> Nat] /\ b["submit"] <= Len(OneShots) /\ Len(OneShots) \in Nat
      BY OverrideAssumption
    <3>3. n \in Nat /\ n <= b["submit"] /\ b["submit"] \in Nat
      BY <3>1, <3>2 DEF Outside
    <3>4. n > 0
      BY <1>4 DEF PromptSubmitting, Spend
    <3> QED
      BY <3>1, <3>2, <3>3, <3>4
  <2>2. n \in DOMAIN OneShots /\ OneShots[n] \in Override \ {Unset}
    BY <2>1, OverrideAssumption
  <2>3. o \in OneShot
    BY <2>2 DEF OneShot
  <2>4. Changed(session, o) /\ clearing' = clearing
    BY <1>4 DEF PromptSubmitting
  <2> HIDE DEF o
  <2> QED
    BY <1>2, <1>3, <2>3, <2>4
<1>5. CASE PromptSubmitSettled
  <2>1. /\ clearing' = clearing
        /\ Changed(session, Absent) \/ Changed(session, once)
    BY <1>5 DEF PromptSubmitSettled
  <2> QED
    BY <1>2, <1>3, <2>1
<1>6. CASE TurnStarts \/ StepBegins
  <2>1. once' = Bound /\ UNCHANGED <<clearing, session, queued>>
    BY <1>6 DEF TurnStarts, StepBegins
  <2> QED
    BY <2>1, BoundTyped DEF HookTyped
<1>7. CASE TurnCompletes
  <2>1. /\ clearing' = clearing
        /\ Changed(session, Absent) \/ Changed(session, once)
    BY <1>7 DEF TurnCompletes
  <2> QED
    BY <1>2, <1>3, <2>1
<1>8. CASE OverridesDropped
  BY <1>2, <1>8, UnsetTyped DEF OverridesDropped
<1>9. CASE IdChanges \/ CommandRun \/ SendStarts
  BY <1>9 DEF IdChanges, CommandRun, SendStarts, HookTyped
<1>10. CASE ModuleReloads
  BY <1>10, UnsetTyped DEF ModuleReloads, HookTyped
<1>11. ASSUME NEW k \in DOMAIN lines, RunsLine(k) PROVE HookTyped'
  <2> DEFINE line == lines[k]
  <2>1. CASE line.op = "set"
    <3>1. Set(line.over, line.clear) /\ clearing' = clearing
      BY <1>11, <2>1 DEF RunsLine
    <3>2. line.over \in Override
      BY <2>1, LineTyped
    <3>3. PICK fields : Changed(line.over, IF once = Absent THEN Absent ELSE Without(once, fields))
      BY <3>1 DEF Set
    <3>4. CASE once = Absent
      BY <1>2, <3>1, <3>2, <3>3, <3>4, <1>3
    <3>5. CASE once # Absent
      BY <1>2, <1>3, <3>1, <3>2, <3>3, <3>5, WithoutTyped
    <3> QED
      BY <3>4, <3>5
  <2>2. CASE line.op # "set"
    BY <1>1, <1>11, <2>2 DEF RunsLine
  <2> QED
    BY <2>1, <2>2
<1>12. CASE \/ StepGoes \/ SidecarDies \/ DaemonStops \/ SidecarRespawns \/ Named \/ DaemonStarts
            \/ FileFollows \/ Subscribes
            \/ UNCHANGED overrideVars \/ \E i \in 1..sid, patch \in Patches : Change(i, patch)
  BY <1>1, <1>12 DEF StepGoes, SidecarDies, DaemonStops, SidecarRespawns, Named, DaemonStarts,
     FileFollows, Subscribes, Change, overrideVars, hookVars
<1>13. CASE Losses \/ \E k \in DOMAIN posts : Composes(k) \/ Goes(k) \/ Lands(k)
  BY <1>1, <1>13 DEF Losses, Composes, Goes, Lands, NotSent, LineLost, hookVars
<1> QED
  BY <1>4, <1>5, <1>6, <1>7, <1>8, <1>9, <1>11, <1>12, <1>10, <1>13 DEF OverrideNext, Progress, Arrivals

(* A request that waits is a turn's.                                       *)
LEMMA StepTurn ==
  ASSUME EngineTyped, IInv, StepGoes
  PROVE  turn \in Most("turn")
  BY DEF EngineTyped, IInv, EngineOK, StepGoes

LEMMA EngineStep ==
  ASSUME EngineTyped, HookTyped, Counted, IInv, [OverrideNext]_overrideVars
  PROVE  EngineTyped'
<1>1. CASE UNCHANGED engineVars
  BY <1>1 DEF EngineTyped, engineVars
<1>2. /\ left \in [Outside -> Nat]
      /\ "turn" \in Outside /\ left["turn"] \in Most("turn")
  BY Within DEF Outside
<1>3. CASE PromptSubmitting
  <2>1. PICK b \in Budgets : left \in [Outside -> Nat] /\ \A w \in Outside : left[w] <= b[w]
    BY DEF Counted
  <2>2. b \in [Outside -> Nat] /\ b["submit"] <= Len(OneShots) /\ Len(OneShots) \in Nat
        /\ DOMAIN OneShots = 1..Len(OneShots)
    BY OverrideAssumption
  <2>3. left["submit"] \in DOMAIN OneShots
    BY <1>3, <2>1, <2>2 DEF PromptSubmitting, Spend, Outside
  <2> QED
    BY <1>3, <2>3 DEF PromptSubmitting, EngineTyped
<1>4. CASE TurnStarts
  BY <1>2, <1>4 DEF TurnStarts, EngineTyped
<1>5. CASE StepGoes
  <2>1. turn \in Most("turn") /\ UNCHANGED <<turn, submitting, early>> /\ stepping' \in BOOLEAN
        /\ carried' = IF once = Absent THEN carried ELSE [carried EXCEPT ![once.no] = @ \cup {turn}]
    BY <1>5, StepTurn DEF StepGoes
  <2>2. once # Absent => once.no \in DOMAIN OneShots
    BY DEF HookTyped, OneShot
  <2>3. carried' \in [DOMAIN OneShots -> SUBSET Most("turn")]
    BY <2>1, <2>2 DEF EngineTyped
  <2> QED
    BY <2>1, <2>3 DEF EngineTyped
<1>6. CASE PromptSubmitSettled \/ TurnCompletes \/ StepBegins \/ ModuleReloads
  BY <1>6 DEF PromptSubmitSettled, TurnCompletes, StepBegins, ModuleReloads, EngineTyped
<1>7. CASE \/ OverridesDropped \/ IdChanges \/ CommandRun \/ FileFollows \/ SendStarts
           \/ SidecarDies \/ DaemonStops \/ SidecarRespawns \/ Named \/ DaemonStarts \/ Subscribes
           \/ UNCHANGED overrideVars \/ \E i \in 1..sid, patch \in Patches : Change(i, patch)
  BY <1>1, <1>7 DEF OverridesDropped, IdChanges, CommandRun, FileFollows, SendStarts, SidecarDies,
     DaemonStops, SidecarRespawns, Named, DaemonStarts, Subscribes, Change, overrideVars
<1>8. CASE Arrivals \/ Losses
  BY <1>1, <1>8 DEF Arrivals, Losses, Composes, Goes, Lands, NotSent, RunsLine, LineLost
<1> QED
  BY <1>3, <1>4, <1>5, <1>6, <1>7, <1>8 DEF OverrideNext, Progress

-----------------------------------------------------------------------------
(* The sidecar's lines.                                                    *)

LEMMA SetLineTyped ==
  ASSUME NEW o \in Override, NEW fields \in SUBSET Fields
  PROVE  SetLine(o, fields) \in Line
  BY DEF SetLine, Line

LEMMA AskLineTyped ==
  ASSUME Counted
  PROVE  AskLine \in Line
<1>1. Life \in Most("stop")
  BY Within DEF Life, Outside
<1> QED
  BY <1>1 DEF AskLine, Line

LEMMA PatchedTyped ==
  ASSUME NEW o \in Override, NEW patch \in Patches
  PROVE  Patched(o, patch) \in Override
<1>1. DOMAIN patch \subseteq Fields /\ \A f \in DOMAIN patch : patch[f] \in Values \cup {Null}
  BY OverrideAssumption
<1> QED
  BY <1>1 DEF Patched, Override

LEMMA MapTyped ==
  ASSUME NEW S, NEW s \in Seq(S), NEW F(_), \A m \in DOMAIN s : F(m) \in S
  PROVE  [m \in DOMAIN s |-> F(m)] \in Seq(S)
  OBVIOUS

LEMMA OvertakenTyped ==
  ASSUME SidecarTyped, NEW k \in DOMAIN lines
  PROVE  RemoveAt(lines, k) \in Seq(Line) /\ Overtaken(k) \in Seq(Line)
<1> DEFINE l(m) == IF m < k /\ lines[m].op = "set" THEN [lines[m] EXCEPT !.late = TRUE] ELSE lines[m]
           ls == [m \in DOMAIN lines |-> l(m)]
<1>1. lines \in Seq(Line) /\ k \in 1..Len(lines)
  BY LineTyped
<1>2. ASSUME NEW m \in DOMAIN lines PROVE l(m) \in Line
  <2>1. lines[m] \in Line
    BY <1>1
  <2> QED
    BY <2>1 DEF Line
<1>3. Overtaken(k) = RemoveAt(ls, k)
  BY DEF Overtaken
<1>4. ls \in Seq(Line) /\ Len(ls) = Len(lines)
  <2> HIDE DEF l
  <2>1. ls \in Seq(Line)
    BY <1>1, <1>2, MapTyped
  <2> QED
    BY <1>1, <2>1
<1> HIDE DEF ls
<1> QED
  BY <1>1, <1>3, <1>4, RemoveAtIs

LEMMA LinesStep ==
  ASSUME SidecarTyped, DaemonTyped, Counted, [OverrideNext]_overrideVars
  PROVE  lines' \in Seq(Line) /\ missed' \in BOOLEAN
<1>1. lines \in Seq(Line) /\ missed \in BOOLEAN /\ carrier \in 1..sid \cup {Absent}
  BY DEF SidecarTyped
<1>2. Absent \notin Nat /\ \A i \in 1..sid : i \in Ids
  BY Within, OverrideAssumption
<1>3. CASE UNCHANGED lineVars
  BY <1>1, <1>3 DEF lineVars
<1>4. CASE UNCHANGED missed /\ lines' = <<>>
  <2>1. <<>> \in Seq(Line)
    OBVIOUS
  <2> QED
    BY <1>1, <1>4, <2>1
<1>5. CASE Named
  <2>1. carrier \in Ids
    BY <1>1, <1>2, <1>5 DEF Named
  <2>2. SetLine(held[carrier], {}) \in Line /\ AskLine \in Line
    BY <2>1, SetLineTyped, AskLineTyped DEF DaemonTyped
  <2>3. Append(lines, AskLine) \in Seq(Line) /\ <<AskLine, SetLine(held[carrier], {})>> \in Seq(Line)
    BY <1>1, <2>2
  <2>4. lines \o <<AskLine, SetLine(held[carrier], {})>> \in Seq(Line)
    BY <1>1, <2>3
  <2> QED
    BY <1>1, <1>5, <2>3, <2>4 DEF Named
<1>6. ASSUME NEW i \in 1..sid, NEW patch \in Patches, Change(i, patch)
      PROVE  lines' \in Seq(Line) /\ missed' \in BOOLEAN
  <2>1. held' = [held EXCEPT ![i] = Patched(@, patch)] /\ i \in Ids /\ held \in [Ids -> Override]
    BY <1>2, <1>6 DEF Change, DaemonTyped
  <2>2. held'[i] = Patched(held[i], patch)
    BY <2>1
  <2>3. held'[i] \in Override /\ DOMAIN patch \in SUBSET Fields
    BY <2>1, <2>2, PatchedTyped, OverrideAssumption
  <2>4. Append(lines, SetLine(held'[i], DOMAIN patch)) \in Seq(Line)
    BY <1>1, <2>3, SetLineTyped
  <2> QED
    BY <1>1, <1>6, <2>4 DEF Change, lineVars
<1>7. ASSUME NEW k \in DOMAIN lines, RunsLine(k) \/ LineLost(k)
      PROVE  lines' \in Seq(Line) /\ missed' \in BOOLEAN
  <2>1. RemoveAt(lines, k) \in Seq(Line) /\ Overtaken(k) \in Seq(Line)
    BY OvertakenTyped
  <2>2. lines' \in {RemoveAt(lines, k), Overtaken(k)}
    BY <1>7 DEF RunsLine, LineLost
  <2>3. missed' \in BOOLEAN
    BY <1>1, <1>7 DEF RunsLine, LineLost
  <2> QED
    BY <2>1, <2>2, <2>3
<1>8. CASE CommandRun \/ SidecarDies \/ ModuleReloads
  BY <1>3, <1>4, <1>8 DEF CommandRun, SidecarDies, ModuleReloads, lineVars
<1>9. CASE \/ PromptSubmitting \/ PromptSubmitSettled \/ TurnStarts \/ StepBegins \/ StepGoes
           \/ TurnCompletes \/ OverridesDropped \/ IdChanges \/ SidecarRespawns
  BY <1>3, <1>9 DEF PromptSubmitting, PromptSubmitSettled, TurnStarts, StepBegins, StepGoes,
     TurnCompletes, OverridesDropped, IdChanges, SidecarRespawns, betweenVars
<1>10. CASE \/ FileFollows \/ SendStarts \/ DaemonStops \/ DaemonStarts \/ Subscribes
            \/ UNCHANGED overrideVars
            \/ \E k \in DOMAIN posts : Composes(k) \/ Goes(k) \/ Lands(k) \/ NotSent(k)
  BY <1>3, <1>10 DEF FileFollows, SendStarts, DaemonStops, DaemonStarts, Subscribes,
     Composes, Goes, Lands, NotSent, overrideVars, betweenVars
<1> QED
  BY <1>5, <1>6, <1>7, <1>8, <1>9, <1>10 DEF OverrideNext, Progress, Arrivals, Losses

LEMMA SidecarStep ==
  ASSUME SidecarTyped, DaemonTyped, Counted, [OverrideNext]_overrideVars
  PROVE  SidecarTyped'
<1>1. lines' \in Seq(Line) /\ missed' \in BOOLEAN
  BY LinesStep
<1>2. sid \in Nat \ {0} /\ Absent \notin Nat
  BY Within, OverrideAssumption
<1>3. carrier \in 1..sid \cup {Absent} /\ link \in {Absent, carrier}
      /\ (link # Absent => up) /\ up \in BOOLEAN /\ (carrier = Absent => lines = <<>>)
  BY DEF SidecarTyped
<1> SUFFICES /\ carrier' \in 1..sid' \cup {Absent} /\ link' \in {Absent, carrier'}
             /\ (link' # Absent => up') /\ up' \in BOOLEAN
             /\ carrier' = Absent => lines' = <<>>
  BY <1>1 DEF SidecarTyped
<1>4. CASE UNCHANGED <<carrier, link, up>> /\ (sid' = sid \/ sid' = sid + 1)
           /\ (carrier # Absent \/ lines' = lines)
  BY <1>2, <1>3, <1>4
<1>5. CASE CommandRun
  <2>1. sid' = sid /\ up' = up /\ carrier' = sid /\ link' \in {link, Absent}
    BY <1>5 DEF CommandRun
  <2>2. link' # Absent => link' = carrier'
    BY <1>3, <1>5 DEF CommandRun
  <2> QED
    BY <1>2, <1>3, <2>1, <2>2
<1>6. CASE SidecarDies \/ ModuleReloads
  <2>1. carrier' = Absent /\ lines' = <<>> /\ link' = Absent /\ up' = up
    BY <1>6 DEF SidecarDies, ModuleReloads
  <2> QED
    BY <1>3, <2>1
<1>7. CASE SidecarRespawns
  <2>1. carrier = Absent /\ carrier' = sid /\ UNCHANGED <<lines, up, link, sid>>
    BY <1>7 DEF SidecarRespawns, hookVars, lineVars, daemonVars
  <2> QED
    BY <1>2, <1>3, <2>1
<1>8. CASE Named
  <2>1. up /\ carrier # Absent /\ link' = carrier /\ UNCHANGED <<carrier, up, sid>>
    BY <1>8 DEF Named, hookVars
  <2> QED
    BY <1>2, <1>3, <2>1
<1>9. ASSUME NEW i \in 1..sid, NEW patch \in Patches, Change(i, patch)
      PROVE  /\ UNCHANGED <<carrier, link, up, sid>> /\ (carrier # Absent \/ lines' = lines)
  BY <1>2, <1>3, <1>9 DEF Change, hookVars, lineVars
<1>10. CASE DaemonStops
  <2>1. up' = FALSE /\ link' = Absent /\ UNCHANGED <<carrier, lines, sid>>
    BY <1>10 DEF DaemonStops, hookVars, lineVars
  <2> QED
    BY <1>3, <2>1
<1>11. CASE DaemonStarts
  <2>1. up' = TRUE /\ UNCHANGED <<link, carrier, lines, sid>>
    BY <1>11 DEF DaemonStarts, hookVars, betweenVars, lineVars
  <2> QED
    BY <1>3, <2>1
<1>12. ASSUME NEW k \in DOMAIN lines, RunsLine(k) \/ LineLost(k)
       PROVE  UNCHANGED <<carrier, link, up, sid>> /\ carrier # Absent
  <2>1. carrier # Absent
    BY <1>3
  <2> QED
    BY <1>12, <2>1 DEF RunsLine, LineLost, hookVars, daemonVars
<1>13. CASE \/ PromptSubmitting \/ PromptSubmitSettled \/ TurnStarts \/ StepBegins \/ StepGoes
            \/ TurnCompletes \/ OverridesDropped \/ IdChanges
  BY <1>4, <1>13 DEF PromptSubmitting, PromptSubmitSettled, TurnStarts, StepBegins, StepGoes,
     TurnCompletes, OverridesDropped, IdChanges, betweenVars, lineVars, daemonVars, hookVars
<1>14. CASE \/ FileFollows \/ SendStarts \/ Subscribes \/ UNCHANGED overrideVars
            \/ \E k \in DOMAIN posts : Composes(k) \/ Goes(k) \/ Lands(k) \/ NotSent(k)
  BY <1>4, <1>14 DEF FileFollows, SendStarts, Composes, Goes, Lands, NotSent, Subscribes, overrideVars,
     betweenVars, lineVars, daemonVars, hookVars
<1> QED
  BY <1>4, <1>5, <1>6, <1>7, <1>8, <1>9, <1>10, <1>11, <1>12, <1>13, <1>14
  DEF OverrideNext, Progress, Arrivals, Losses

-----------------------------------------------------------------------------
(* The facts on their way.                                                 *)

LEMMA ValuesShown ==
  ASSUME HookTyped
  PROVE  ValuesOf(session, once) \in Shown
<1>1. session \in Override /\ (once # Absent => once.override \in Override)
  BY DEF HookTyped, OneShot
<1> QED
  BY <1>1, UnsetTyped DEF ValuesOf, Shown

LEMMA ReplaceTyped ==
  ASSUME NEW S, NEW s \in Seq(S), NEW k \in DOMAIN s, NEW e \in S
  PROVE  [s EXCEPT ![k] = e] \in Seq(S)
  OBVIOUS

LEMMA PostTyped ==
  ASSUME NEW kind \in {"send", "reply"}, NEW to \in Ids \cup {Absent}, NEW life \in Most("stop"),
         kind = "reply" => to \in Ids
  PROVE  Post(kind, to, life) \in FactsSent
  BY DEF Post, FactsSent, Facts

LEMMA LateTyped ==
  ASSUME NEW p \in FactsSent, NEW l \in SUBSET Ids
  PROVE  [p EXCEPT !.late = l] \in FactsSent
  BY DEF FactsSent, Facts

LEMMA LandedTyped ==
  ASSUME PostsTyped, NEW k \in DOMAIN posts, NEW i \in SUBSET Ids
  PROVE  Landed(k, i) \in Seq(FactsSent)
<1> DEFINE p(m) == IF m < k THEN [posts[m] EXCEPT !.late = @ \cup i] ELSE posts[m]
           ps == [m \in DOMAIN posts |-> p(m)]
<1>1. posts \in Seq(FactsSent)
  BY DEF PostsTyped
<1>2. ASSUME NEW m \in DOMAIN posts PROVE p(m) \in FactsSent
  <2>1. posts[m] \in FactsSent
    BY <1>1
  <2>2. posts[m].late \cup i \in SUBSET Ids
    BY <2>1 DEF FactsSent, Facts
  <2>3. [posts[m] EXCEPT !.late = @ \cup i] = [posts[m] EXCEPT !.late = posts[m].late \cup i]
    OBVIOUS
  <2> QED
    BY <2>1, <2>2, <2>3, LateTyped
<1>3. Landed(k, i) = RemoveAt(ps, k)
  BY DEF Landed
<1>4. ps \in Seq(FactsSent) /\ Len(ps) = Len(posts)
  <2> HIDE DEF p
  <2>1. ps \in Seq(FactsSent)
    BY <1>1, <1>2, MapTyped
  <2> QED
    BY <1>1, <2>1
<1>5. k \in 1..Len(ps)
  BY <1>1, <1>4
<1> HIDE DEF ps
<1> QED
  BY <1>3, <1>4, <1>5, RemoveAtIs

(* What a session's facts are taken for.                                   *)
LEMMA TakenIsShown ==
  ASSUME PostsTyped, NEW k \in DOMAIN posts, posts[k].step = "going"
  PROVE  posts[k].vals \in Shown /\ posts[k].to \in Ids
<1>1. posts[k] \in FactsSent
  BY DEF PostsTyped
<1> QED
  BY <1>1 DEF FactsSent, Facts

LEMMA PostsStep ==
  ASSUME PostsTyped, HookTyped, SidecarTyped, Counted, [OverrideNext]_overrideVars
  PROVE  PostsTyped'
<1>1. CASE posts' = posts /\ unheard' \in BOOLEAN
  BY <1>1 DEF PostsTyped
<1>2. posts \in Seq(FactsSent) /\ unheard \in BOOLEAN
  BY DEF PostsTyped
<1>3. \A k : Unheard(k) \in BOOLEAN
  BY <1>2 DEF Unheard
<1>4. Life \in Most("stop") /\ sid \in Ids /\ (\A i \in 1..sid : i \in Ids)
  BY Within DEF Life, Outside
<1>5. CASE SendStarts
  <2>1. posts' = Append(posts, Post("send", Absent, Life)) /\ unheard' = FALSE
    BY <1>5 DEF SendStarts
  <2>2. Post("send", Absent, Life) \in FactsSent
    BY <1>4, PostTyped
  <2>3. posts' \in Seq(FactsSent)
    BY <1>2, <2>1, <2>2
  <2> QED
    BY <2>1, <2>3 DEF PostsTyped
<1>6. ASSUME NEW k \in DOMAIN posts, Composes(k) PROVE PostsTyped'
  <2> DEFINE e == [posts[k] EXCEPT !.vals = ValuesOf(session, once),
                                   !.step = IF posts[k].kind = "send" THEN "composed" ELSE "going"]
  <2>1. posts' = [posts EXCEPT ![k] = e] /\ unheard' = unheard
    BY <1>6 DEF Composes
  <2>2. posts[k] \in FactsSent
    BY <1>2
  <2>3. e \in FactsSent
    BY <2>2, ValuesShown DEF FactsSent, Facts
  <2> HIDE DEF e
  <2> QED
    BY <1>2, <2>1, <2>3, ReplaceTyped DEF PostsTyped
<1>7. ASSUME NEW k \in DOMAIN posts, Goes(k) PROVE PostsTyped'
  <2> DEFINE e == [posts[k] EXCEPT !.to = sid, !.step = "going"]
  <2>1. posts' = [posts EXCEPT ![k] = e] /\ unheard' = unheard
    BY <1>7 DEF Goes
  <2>2. posts[k] \in FactsSent /\ posts[k].step = "composed"
    BY <1>2, <1>7 DEF Goes
  <2>3. e \in FactsSent
    BY <1>4, <2>2 DEF FactsSent, Facts
  <2> HIDE DEF e
  <2> QED
    BY <1>2, <2>1, <2>3, ReplaceTyped DEF PostsTyped
<1>8. ASSUME NEW k \in DOMAIN posts, Lands(k) PROVE PostsTyped'
  <2>1. posts[k].step = "going"
    BY <1>8 DEF Lands
  <2>2. CASE Taken(posts[k])
    <3>1. posts' = Landed(k, {posts[k].to}) /\ unheard' \in {unheard, Unheard(k)}
      BY <1>8, <2>2 DEF Lands
    <3>2. {posts[k].to} \in SUBSET Ids
      BY <2>1, TakenIsShown
    <3> QED
      BY <1>2, <1>3, <3>1, <3>2, LandedTyped DEF PostsTyped
  <2>3. CASE ~Taken(posts[k])
    <3>1. posts' = Landed(k, {}) /\ unheard' = Unheard(k)
      BY <1>8, <2>3 DEF Lands
    <3> QED
      BY <1>3, <3>1, LandedTyped DEF PostsTyped
  <2> QED
    BY <2>2, <2>3
<1>9. ASSUME NEW k \in DOMAIN posts, NotSent(k) PROVE PostsTyped'
  <2>1. posts' = RemoveAt(posts, k) /\ k \in 1..Len(posts) /\ unheard' = Unheard(k)
    BY <1>2, <1>9 DEF NotSent
  <2> QED
    BY <1>2, <1>3, <2>1, RemoveAtIs DEF PostsTyped
<1>10. ASSUME NEW k \in DOMAIN lines, RunsLine(k) PROVE PostsTyped'
  <2>1. CASE lines[k].op = "set"
    BY <1>1, <1>2, <1>10, <2>1 DEF RunsLine, postVars
  <2>2. CASE lines[k].op # "set"
    <3>1. posts' = Append(posts, Post("reply", carrier, lines[k].life)) /\ unheard' = FALSE
      BY <1>10, <2>2 DEF RunsLine
    <3>2. carrier \in Ids
      BY <1>4 DEF SidecarTyped
    <3>3. lines[k].life \in Most("stop")
      BY <2>2, LineTyped
    <3>4. Post("reply", carrier, lines[k].life) \in FactsSent
      BY <3>2, <3>3, PostTyped
    <3>5. posts' \in Seq(FactsSent)
      BY <1>2, <3>1, <3>4
    <3> QED
      BY <3>1, <3>5 DEF PostsTyped
  <2> QED
    BY <2>1, <2>2
<1>11. CASE DaemonStops
  <2> DEFINE p(k) == [posts[k] EXCEPT !.late = {}]
  <2>1. posts' = [k \in DOMAIN posts |-> p(k)] /\ unheard' = unheard
    BY <1>11 DEF DaemonStops
  <2>2. ASSUME NEW k \in DOMAIN posts PROVE p(k) \in FactsSent
    <3>1. posts[k] \in FactsSent
      BY <1>2
    <3> QED
      BY <3>1, LateTyped
  <2> HIDE DEF p
  <2>3. [k \in DOMAIN posts |-> p(k)] \in Seq(FactsSent)
    BY <1>2, <2>2, MapTyped
  <2> QED
    BY <1>2, <2>1, <2>3 DEF PostsTyped
<1>12. CASE ModuleReloads
  <2> DEFINE p(k) == [posts[k] EXCEPT !.left = TRUE]
  <2>1. posts' = [k \in DOMAIN posts |-> p(k)] /\ unheard' = unheard
    BY <1>12 DEF ModuleReloads
  <2>2. ASSUME NEW k \in DOMAIN posts PROVE p(k) \in FactsSent
    <3>1. posts[k] \in FactsSent
      BY <1>2
    <3> QED
      BY <3>1 DEF FactsSent, Facts
  <2> HIDE DEF p
  <2>3. [k \in DOMAIN posts |-> p(k)] \in Seq(FactsSent)
    BY <1>2, <2>2, MapTyped
  <2> QED
    BY <1>2, <2>1, <2>3 DEF PostsTyped
<1>13. CASE \/ PromptSubmitting \/ PromptSubmitSettled \/ TurnStarts \/ StepBegins \/ StepGoes
            \/ TurnCompletes \/ OverridesDropped \/ IdChanges \/ CommandRun \/ FileFollows
  BY <1>1, <1>2, <1>13 DEF PromptSubmitting, PromptSubmitSettled, TurnStarts, StepBegins, StepGoes,
     TurnCompletes, OverridesDropped, IdChanges, CommandRun, FileFollows, betweenVars, postVars
<1>14. CASE \/ SidecarDies \/ SidecarRespawns \/ Named \/ DaemonStarts \/ Subscribes
            \/ UNCHANGED overrideVars \/ \E i \in 1..sid, patch \in Patches : Change(i, patch)
            \/ \E k \in DOMAIN lines : LineLost(k)
  BY <1>1, <1>2, <1>14 DEF SidecarDies, SidecarRespawns, Named, DaemonStarts, Subscribes, Change,
     LineLost, overrideVars, betweenVars, postVars
<1> QED
  BY <1>5, <1>6, <1>7, <1>8, <1>9, <1>10, <1>11, <1>13, <1>14, <1>12
  DEF OverrideNext, Progress, Arrivals, Losses

-----------------------------------------------------------------------------
(* The daemon and the tab.                                                 *)

LEMMA TabTyped ==
  ASSUME DaemonTyped, NEW i \in Ids, NEW vals \in Shown
  PROVE  TabAfter(i, vals) = Absent \/ TabAfter(i, vals) \in [Ids -> Shown \cup {Absent}]
<1> DEFINE merged == [t \in {"session", "once"} |-> IF states[i][t] = vals[t] THEN tab[i][t] ELSE vals[t]]
           shown == IF states[i] = Absent \/ tab[i] = Absent THEN vals ELSE merged
<1>1. CASE tab = Absent
  BY <1>1 DEF TabAfter
<1>2. CASE tab # Absent
  <2>1. tab \in [Ids -> Shown \cup {Absent}]
    BY <1>2 DEF DaemonTyped
  <2>2. TabAfter(i, vals) = [tab EXCEPT ![i] = shown]
    BY <1>2, <2>1 DEF TabAfter
  <2>3. ASSUME tab[i] # Absent PROVE merged \in Shown
    <3>1. tab[i] \in Shown
      BY <2>1, <2>3
    <3>2. /\ tab[i]["session"] \in Override /\ tab[i]["once"] \in Override
          /\ vals["session"] \in Override /\ vals["once"] \in Override
      BY <3>1 DEF Shown
    <3>3. merged["session"] \in Override /\ merged["once"] \in Override
          /\ merged = [session |-> merged["session"], once |-> merged["once"]]
      BY <3>2
    <3> HIDE DEF merged
    <3> QED
      BY <3>3 DEF Shown
  <2>4. shown \in Shown
    BY <2>3
  <2> HIDE DEF shown
  <2> QED
    BY <2>1, <2>2, <2>4
<1> QED
  BY <1>1, <1>2

(* The state file follows the id.                                          *)
LEMMA FiledStep ==
  ASSUME filed \in 1..sid, Counted, [OverrideNext]_overrideVars
  PROVE  filed' \in 1..sid'
<1>1. sid \in Nat \ {0} /\ sid \in 1..sid
  BY Within
<1>2. CASE filed' = filed /\ sid' \in {sid, sid + 1}
  BY <1>1, <1>2
<1>3. CASE FileFollows
  BY <1>1, <1>3 DEF FileFollows, hookVars
<1>4. CASE \/ PromptSubmitting \/ PromptSubmitSettled \/ TurnStarts \/ StepBegins \/ StepGoes
           \/ TurnCompletes \/ OverridesDropped \/ IdChanges \/ CommandRun \/ ModuleReloads
  BY <1>2, <1>4 DEF PromptSubmitting, PromptSubmitSettled, TurnStarts, StepBegins, StepGoes,
     TurnCompletes, OverridesDropped, IdChanges, CommandRun, ModuleReloads, hookVars, daemonVars
<1>5. CASE \/ SendStarts \/ SidecarDies \/ SidecarRespawns \/ Named \/ DaemonStarts \/ DaemonStops
           \/ Subscribes \/ \E i \in 1..sid, patch \in Patches : Change(i, patch)
           \/ UNCHANGED overrideVars
  BY <1>2, <1>5 DEF SendStarts, SidecarDies, SidecarRespawns, Named, DaemonStarts, DaemonStops,
     Subscribes, Change, overrideVars, hookVars, daemonVars
<1>6. CASE Arrivals \/ Losses
  BY <1>2, <1>6 DEF Arrivals, Losses, Composes, Goes, Lands, NotSent, RunsLine, LineLost,
     hookVars, daemonVars
<1> QED
  BY <1>3, <1>4, <1>5, <1>6 DEF OverrideNext, Progress

LEMMA DaemonStep ==
  ASSUME DaemonTyped, PostsTyped, Counted, [OverrideNext]_overrideVars
  PROVE  DaemonTyped'
<1>0. filed \in 1..sid /\ sid \in Nat /\ filed' \in 1..sid'
  BY FiledStep, Within DEF DaemonTyped
<1>1. CASE UNCHANGED <<held, states, tab>>
  BY <1>0, <1>1 DEF DaemonTyped
<1>2. ASSUME NEW k \in DOMAIN posts, Lands(k) PROVE DaemonTyped'
  <2>1. posts[k].step = "going" /\ held' = held
    BY <1>2 DEF Lands
  <2>2. CASE Taken(posts[k])
    <3>1. states' = [states EXCEPT ![posts[k].to] = posts[k].vals]
          /\ tab' = TabAfter(posts[k].to, posts[k].vals)
      BY <1>2, <2>2 DEF Lands
    <3>2. posts[k].to \in Ids /\ posts[k].vals \in Shown
      BY <2>1, TakenIsShown
    <3>3. states' \in [Ids -> Shown \cup {Absent}]
      BY <3>1, <3>2 DEF DaemonTyped
    <3>4. tab' = Absent \/ tab' \in [Ids -> Shown \cup {Absent}]
      BY <3>1, <3>2, TabTyped
    <3> QED
      BY <1>0, <2>1, <3>3, <3>4 DEF DaemonTyped
  <2>3. CASE ~Taken(posts[k])
    BY <1>1, <1>2, <2>3, <2>1 DEF Lands
  <2> QED
    BY <2>2, <2>3
<1>3. ASSUME NEW i \in 1..sid, NEW patch \in Patches, Change(i, patch) PROVE DaemonTyped'
  <2>1. held' = [held EXCEPT ![i] = Patched(@, patch)] /\ UNCHANGED <<states, tab>>
    BY <1>3 DEF Change
  <2>2. i \in Ids
    BY Within
  <2>3. Patched(held[i], patch) \in Override
    BY <2>2, PatchedTyped DEF DaemonTyped
  <2>4. held' \in [Ids -> Override]
    BY <2>1, <2>2, <2>3 DEF DaemonTyped
  <2> QED
    BY <1>0, <2>1, <2>4 DEF DaemonTyped
<1>4. CASE DaemonStops
  BY <1>0, <1>4, UnsetTyped DEF DaemonStops, DaemonTyped
<1>5. CASE Subscribes
  BY <1>0, <1>5 DEF Subscribes, DaemonTyped
<1>6. CASE \/ PromptSubmitting \/ PromptSubmitSettled \/ TurnStarts \/ StepBegins \/ StepGoes
           \/ TurnCompletes \/ OverridesDropped \/ IdChanges \/ CommandRun \/ FileFollows \/ ModuleReloads
  BY <1>1, <1>6 DEF PromptSubmitting, PromptSubmitSettled, TurnStarts, StepBegins, StepGoes,
     TurnCompletes, OverridesDropped, IdChanges, CommandRun, FileFollows, ModuleReloads, daemonVars
<1>7. CASE \/ SendStarts \/ SidecarDies \/ SidecarRespawns \/ Named \/ DaemonStarts
           \/ UNCHANGED overrideVars \/ \E k \in DOMAIN posts : Composes(k) \/ Goes(k) \/ NotSent(k)
           \/ \E k \in DOMAIN lines : RunsLine(k) \/ LineLost(k)
  BY <1>1, <1>7 DEF SendStarts, RunsLine, SidecarDies, SidecarRespawns, Named, DaemonStarts,
     Composes, Goes, NotSent, LineLost, overrideVars, daemonVars
<1> QED
  BY <1>2, <1>3, <1>4, <1>5, <1>6, <1>7 DEF OverrideNext, Progress, Arrivals, Losses

-----------------------------------------------------------------------------
LEMMA InitTyped == OverrideInit => AllTyped
<1> SUFFICES ASSUME OverrideInit PROVE AllTyped
  OBVIOUS
<1>1. Counted
  <2>1. left \in Budgets /\ left \in [Outside -> Nat] /\ "clear" \in Outside
    BY OverrideAssumption DEF OverrideInit, Outside
  <2>2. sid = 1 /\ clearing = "no"
    BY DEF OverrideInit
  <2>3. \A w \in Outside : left[w] <= left[w]
    BY <2>1
  <2> QED
    BY <2>1, <2>2, <2>3 DEF Counted
<1>2. HookTyped /\ EngineTyped
  BY UnsetTyped DEF OverrideInit, HookTyped, EngineTyped
<1>3. SidecarTyped /\ PostsTyped
  <2>1. lines \in Seq(Line) /\ posts \in Seq(FactsSent)
    BY DEF OverrideInit
  <2>2. PostsTyped
    BY <2>1 DEF OverrideInit, PostsTyped
  <2>3. missed \in BOOLEAN /\ up \in BOOLEAN
    BY DEF OverrideInit
  <2>4. SidecarTyped
    BY <2>1, <2>3 DEF OverrideInit, SidecarTyped
  <2> QED
    BY <2>2, <2>4
<1>4. DaemonTyped
  BY UnsetTyped DEF OverrideInit, DaemonTyped
<1> QED
  BY <1>1, <1>2, <1>3, <1>4 DEF AllTyped

LEMMA StepTyped == IInv /\ AllTyped /\ [OverrideNext]_overrideVars => AllTyped'
  BY CountedStep, HookStep, EngineStep, SidecarStep, PostsStep, DaemonStep DEF AllTyped

(* OverrideTypeOK for any fields, values, changes and budgets, with its     *)
(* last conjunct: a one-shot that is bound has its turn (mainTurnEnded).   *)
THEOREM OverrideTyped == OverrideSpec => []OverrideTypeOK
<1>1. IInv /\ AllTyped => OverrideTypeOK
  <2> SUFFICES ASSUME IInv, AllTyped PROVE OverrideTypeOK
    OBVIOUS
  <2>1. sid \in Ids /\ left \in [Outside -> Nat]
    BY Within DEF AllTyped
  <2>2. posts \in Seq(Facts)
    BY DEF AllTyped, PostsTyped, FactsSent
  <2>3. once # Absent => (once.bound => turn # Absent)
    BY DEF IInv, InForce, BoundBy
  <2>4. stepping => turn # Absent
    BY DEF IInv, EngineOK
  <2> QED
    BY <2>1, <2>2, <2>3, <2>4 DEF AllTyped, HookTyped, EngineTyped, SidecarTyped, PostsTyped,
       DaemonTyped, OneShot, Line, Facts, OverrideTypeOK
<1>2. OverrideSpec => []IInv
  BY InitIInv, NextIInv, PTL DEF OverrideSpec
<1>3. OverrideSpec => []AllTyped
  BY <1>2, InitTyped, StepTyped, PTL DEF OverrideSpec
<1> QED
  BY <1>1, <1>2, <1>3, PTL
=============================================================================
