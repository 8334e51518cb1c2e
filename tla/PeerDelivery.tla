----------------------------- MODULE PeerDelivery -----------------------------
(***************************************************************************)
(* send_message and the notices in the daemon                               *)
(* (packages/daemon/src/send-message.ts), the lines they stand in           *)
(* (serial.ts) and the delivery into a session's peer socket                *)
(* (peer-inject.ts): the requests read the live runs one after another and  *)
(* ask for their deliveries at once; the deliveries to one session go one   *)
(* at a time, each with a window in which the session may refuse it.        *)
(*                                                                          *)
(* The harness at the other end is the contract the code goes by: it takes  *)
(* or refuses a message whose frames came, reports only the ones it         *)
(* refuses, and drops without a word one addressed to another session. What *)
(* it does with a message whose delivery has ended nobody hears: it may     *)
(* still take one of which anything went in, or refuse or drop it.          *)
(***************************************************************************)
EXTENDS Integers, Sequences, FiniteSets, SequencesExt

CONSTANTS
  MaxRequests,   (* bound: the sends and notices that come in              *)
  Sessions,
  Runs,          (* the harness processes                                  *)
  Serves,        (* the session each process serves at first               *)
  Asks,          (* what the sessions ask for                              *)
  MaxMoves,      (* bound: how often a process or a module moves           *)
  None

Ids == 1..MaxRequests
Deliveries == Ids \X Runs     (* one mid each                              *)
Ended == {"unavailable", "refused", "delivered", "unconfirmed"}

(* Who sends, the sessions it picks out, whether by a session's id, and    *)
(* whether it is a notice. The daemon itself is the sender None.           *)
Request == [from: Sessions \cup {None}, to: SUBSET Sessions, byId: BOOLEAN, notice: BOOLEAN]

ASSUME NoneAssumption == None \notin Sessions /\ None # "not_delivered"
ASSUME FiniteAssumption == IsFiniteSet(Sessions) /\ IsFiniteSet(Runs)
ASSUME AsksAssumption ==
  /\ Asks \subseteq Request
  /\ \A ask \in Asks : /\ ask.from # None /\ ask.to # {}
                       /\ ask.byId => Cardinality(ask.to) = 1
                       /\ ask.notice => ask.byId
ASSUME ServesAssumption == Serves \in [Runs -> Sessions]
ASSUME BoundAssumption == MaxRequests \in Nat /\ MaxMoves \in Nat

VARIABLES
  (* the harness processes *)
  where,     (* the session a process serves, or None when it has ended    *)
  module,    (* the sessions with a run named: they have a hooks module    *)
  moves,     (* how often either moved                                     *)
  (* the daemon *)
  req,       (* the requests in the order they came                        *)
  line,      (* inOrder: the requests that wait to read the runs           *)
  seen,      (* the runs the first in line read, or None                   *)
  turn,      (* inTurn: the deliveries each session waits for              *)
  dest,      (* the session a delivery is to, or None                      *)
  stage,     (* where a delivery is                                        *)
  heard,     (* the deliveries whose watch heard a refusal                 *)
  failed,    (* the sessions of a request that are told not_delivered with *)
             (* no delivery asked for                                      *)
  (* the sockets *)
  wire,      (* how much of a delivery's frames is in, and what became of it *)
  status,    (* the refusals on their way to the status socket             *)
  (* kept for the properties *)
  put,       (* the requests in the order their writes to a session began  *)
  inTime     (* the refusals that came before their delivery had ended     *)

worldVars == <<where, module, moves>>
lineVars == <<req, line, seen>>
turnVars == <<turn, dest, stage, heard, failed>>
wireVars == <<wire, status, put, inTime>>
peerVars == <<worldVars, lineVars, turnVars, wireVars>>

TypeOK ==
  /\ where \in [Runs -> Sessions \cup {None}]
  /\ module \subseteq Sessions /\ moves \in 0..MaxMoves
  /\ req \in Seq(Request) /\ Len(req) <= MaxRequests
  /\ line \in Seq(Ids) /\ IsSuffix(line, [q \in DOMAIN req |-> q])
  /\ seen \in [Runs -> Sessions \cup {None}] \cup {None}
  /\ turn \in [Sessions -> Seq(Deliveries)]
  /\ \A s \in Sessions : \A i \in 2..Len(turn[s]) : stage[turn[s][i]] = "waiting"
  /\ dest \in [Deliveries -> Sessions \cup {None}]
  /\ stage \in [Deliveries -> {"none", "waiting", "write", "window"} \cup Ended]
  /\ heard \subseteq Deliveries /\ status \subseteq Deliveries /\ inTime \subseteq Deliveries
  /\ failed \in [Ids -> SUBSET Sessions]
  /\ wire \in [Deliveries -> {"none", "part", "whole", "taken", "refused", "dropped"}]
  /\ put \in [Sessions -> Seq(Ids)]

InitPeer ==
  /\ where = Serves /\ module = Sessions /\ moves = 0
  /\ req = <<>> /\ line = <<>> /\ seen = None
  /\ turn = [s \in Sessions |-> <<>>]
  /\ dest = [d \in Deliveries |-> None]
  /\ stage = [d \in Deliveries |-> "none"]
  /\ failed = [q \in Ids |-> {}]
  /\ wire = [d \in Deliveries |-> "none"]
  /\ put = [s \in Sessions |-> <<>>]
  /\ heard = {} /\ status = {} /\ inTime = {}

-----------------------------------------------------------------------------
(* The requests.                                                           *)

(* Requests come in, at once and in this order.                            *)
Enter(asks) ==
  /\ Len(req) + Len(asks) <= MaxRequests
  /\ req' = req \o asks
  /\ line' = line \o [i \in DOMAIN asks |-> Len(req) + i]

(* send_message of a session, to those it picks out or to one by its id;   *)
(* or its notify.                                                          *)
Ask ==
  /\ \E ask \in Asks : Enter(<<ask>>)
  /\ UNCHANGED <<worldVars, seen, turnVars, wireVars>>

(* What one liveRuns may give: a config dir that is not read in time adds  *)
(* none of its runs.                                                       *)
LiveRuns == {[r \in Runs |-> IF r \in known THEN where[r] ELSE None] : known \in SUBSET Runs}

(* Mutated form: a request does not wait for those before it. *)
ReadRuns_NoLine(q) ==
  /\ q \in ToSet(line) /\ seen = None
  /\ seen' \in LiveRuns
  /\ line' = <<q>> \o Remove(line, q)
  /\ UNCHANGED <<worldVars, req, turnVars, wireVars>>

(* The first in line reads the live runs.                                  *)
ReadRuns(q) ==
  /\ line # <<>> /\ q = Head(line) /\ seen = None
  /\ seen' \in LiveRuns
  /\ UNCHANGED <<worldVars, req, line, turnVars, wireVars>>

SeenRuns(s) == {r \in Runs : seen[r] = s}
Matched(q) == {s \in req[q].to : SeenRuns(s) # {}}

(* A send goes to every session it matched but its sender; a notice may go *)
(* to the sender's own.                                                    *)
Recipients(q) == IF req[q].notice THEN Matched(q) ELSE Matched(q) \ {req[q].from}

(* What is told without a delivery: a session with no module, the sender   *)
(* that picked out itself alone, and a session named by id that does not   *)
(* run. A send that matches nobody else is answered with no result.        *)
FailedAtOnce(q) ==
  LET alone == IF Recipients(q) = {} THEN Matched(q) ELSE {}
      ended == IF req[q].byId /\ Matched(q) = {}
                 THEN IF req[q].notice THEN req[q].to ELSE req[q].to \ {req[q].from}
                 ELSE {}
  IN  (Recipients(q) \ module) \cup alone \cup ended

(* startSend and sendNotice: every delivery is asked for before the next   *)
(* in line reads.                                                          *)
Start(q) ==
  /\ line # <<>> /\ q = Head(line) /\ seen # None
  /\ line' = Tail(line) /\ seen' = None
  /\ LET To(s) == IF s \in Recipients(q) \cap module THEN {q} \X SeenRuns(s) ELSE {}
     IN  /\ turn' = [s \in Sessions |-> turn[s] \o SetToSeq(To(s))]
         /\ dest' = [d \in Deliveries |->
                       IF \E s \in Sessions : d \in To(s) THEN seen[d[2]] ELSE dest[d]]
         /\ stage' = [d \in Deliveries |->
                       IF \E s \in Sessions : d \in To(s) THEN "waiting" ELSE stage[d]]
  /\ failed' = [failed EXCEPT ![q] = FailedAtOnce(q)]
  /\ UNCHANGED <<worldVars, req, heard, wireVars>>

(* What a request is told of a session, once its last run's delivery ended. *)
Started(q) == q \in DOMAIN req \ ToSet(line)
Ends(q, s) == {stage[d] : d \in {e \in {q} \X Runs : dest[e] = s}}
Outcome(q, s) ==
  IF s \in failed[q] THEN "not_delivered"
  ELSE IF Ends(q, s) = {} \/ ~(Ends(q, s) \subseteq Ended) THEN None
  ELSE IF "delivered" \in Ends(q, s) THEN "delivered"
  ELSE IF "unconfirmed" \in Ends(q, s) THEN "unconfirmed" ELSE "not_delivered"

(* The request is answered.                                                *)
Answered(q) == Started(q) /\ \A d \in {q} \X Runs : dest[d] # None => stage[d] \in Ended

-----------------------------------------------------------------------------
(* A delivery.                                                             *)

(* Mutated form: the deliveries to a session go side by side. *)
InTurn_AllAtOnce(d) == dest[d] # None

(* The first of its session's that is not over.                            *)
InTurn(d) == dest[d] # None /\ turn[dest[d]] # <<>> /\ d = Head(turn[dest[d]])

End(d, end) ==
  /\ stage' = [stage EXCEPT ![d] = end]
  /\ turn' = [turn EXCEPT ![dest[d]] = Tail(@)]
  /\ status' = status \ {d}
  /\ UNCHANGED <<worldVars, lineVars, dest, heard, failed, wire, put, inTime>>

(* No state file that names the session in that process, no key, files     *)
(* that are not read in time, or no status socket of this side.            *)
NotFound(d) ==
  /\ InTurn(d) /\ stage[d] = "waiting"
  /\ End(d, "unavailable")

(* The socket and the token are found: the refusals are heard from before  *)
(* the write on.                                                           *)
BeginWrite(d) ==
  /\ InTurn(d) /\ stage[d] = "waiting"
  /\ where[d[2]] = dest[d]
  /\ stage' = [stage EXCEPT ![d] = "write"]
  /\ put' = [put EXCEPT ![dest[d]] = Append(@, d[1])]
  /\ UNCHANGED <<worldVars, lineVars, turn, dest, heard, failed, wire, status, inTime>>

NotWritten(d) ==
  /\ stage[d] = "write" /\ wire[d] = "none"
  /\ End(d, "unavailable")

(* Part of the frames went in, and the rest may be on its way.             *)
Uncertain(d) ==
  /\ stage[d] = "write" /\ wire[d] = "part"
  /\ End(d, "unconfirmed")

(* Every byte went in: the window begins.                                  *)
Flushed(d) ==
  /\ stage[d] = "write" /\ wire[d] \notin {"none", "part"}
  /\ stage' = [stage EXCEPT ![d] = "window"]
  /\ UNCHANGED <<worldVars, lineVars, turn, dest, heard, failed, wireVars>>

(* Mutated form: a delivery waits for a word of the session. *)
WindowEnds_WhenHeard(d) ==
  /\ stage[d] = "window" /\ d \in heard
  /\ End(d, "refused")

(* A refusal ends the window; silence through it is delivery.              *)
WindowEnds(d) ==
  /\ stage[d] = "window"
  /\ End(d, IF d \in heard THEN "refused" ELSE "delivered")

(* Mutated form: the watch begins with the window. *)
StatusComes_AfterWrite(d) ==
  /\ d \in status
  /\ status' = status \ {d}
  /\ heard' = IF stage[d] = "window" THEN heard \cup {d} ELSE heard
  /\ inTime' = inTime \cup {d}
  /\ UNCHANGED <<worldVars, lineVars, turn, dest, stage, failed, wire, put>>

(* A refusal comes while its message is watched for.                       *)
StatusComes(d) ==
  /\ d \in status
  /\ status' = status \ {d}
  /\ heard' = heard \cup {d}
  /\ inTime' = inTime \cup {d}
  /\ UNCHANGED <<worldVars, lineVars, turn, dest, stage, failed, wire, put>>

-----------------------------------------------------------------------------
(* The sockets and the harness processes.                                  *)

(* More of the frames goes in.                                             *)
Bytes(d) ==
  /\ stage[d] = "write" /\ where[d[2]] # None
  /\ \/ wire[d] = "none" /\ wire' = [wire EXCEPT ![d] = "part"]
     \/ wire[d] \in {"none", "part"} /\ wire' = [wire EXCEPT ![d] = "whole"]
  /\ UNCHANGED <<worldVars, lineVars, turnVars, status, put, inTime>>

(* The harness reads the frames before the delivery ends.                  *)
Reads(d) ==
  /\ wire[d] = "whole" /\ stage[d] \notin Ended
  /\ where[d[2]] # None
  /\ IF where[d[2]] # dest[d]
       THEN wire' = [wire EXCEPT ![d] = "dropped"] /\ UNCHANGED status
       ELSE \/ wire' = [wire EXCEPT ![d] = "taken"] /\ UNCHANGED status
            \/ wire' = [wire EXCEPT ![d] = "refused"] /\ status' = status \cup {d}
  /\ UNCHANGED <<worldVars, lineVars, turnVars, put, inTime>>

(* A process ends, or goes on with another session (/clear).               *)
Moves(r) ==
  /\ where[r] # None
  /\ moves < MaxMoves /\ moves' = moves + 1
  /\ \E s \in (Sessions \cup {None}) \ {where[r]} : where' = [where EXCEPT ![r] = s]
  /\ UNCHANGED <<module, lineVars, turnVars, wireVars>>

(* The last run of a session with a module goes, or its first comes.       *)
ModuleMoves(s) ==
  /\ moves < MaxMoves /\ moves' = moves + 1
  /\ module' = IF s \in module THEN module \ {s} ELSE module \cup {s}
  /\ UNCHANGED <<where, lineVars, turnVars, wireVars>>

-----------------------------------------------------------------------------
Delivering(d) ==
  \/ NotFound(d) \/ BeginWrite(d) \/ NotWritten(d) \/ Uncertain(d) \/ Flushed(d) \/ WindowEnds(d)
  \/ StatusComes(d)

PeerStep ==
  \/ Ask
  \/ \E q \in Ids : ReadRuns(q) \/ Start(q)
  \/ \E d \in Deliveries : Delivering(d) \/ Bytes(d) \/ Reads(d)
  \/ \E r \in Runs : Moves(r)
  \/ \E s \in Sessions : ModuleMoves(s)

-----------------------------------------------------------------------------
(* Properties.                                                             *)

(* "a message written alongside the one before it could land first"        *)
(* (peer-inject.ts): of the deliveries to a session at most one is written *)
(* or in its window, and they begin in the order the requests came in,     *)
(* whatever their reads take.                                              *)
InAskOrder ==
  \A s \in Sessions :
    /\ Cardinality({d \in Deliveries : dest[d] = s /\ stage[d] \in {"write", "window"}}) <= 1
    /\ \A i, j \in DOMAIN put[s] : i < j => put[s][i] <= put[s][j]

(* What the asker is told is so: nobody took a message told not_delivered, *)
(* so it may be sent again, and no delivery is called delivered whose      *)
(* refusal came before its window ended, also while its write finished.    *)
ToldTruly ==
  /\ \A q \in Ids, s \in Sessions : Outcome(q, s) = "not_delivered" =>
       \A d \in {q} \X Runs : dest[d] = s => wire[d] \notin {"part", "whole", "taken"}
  /\ \A d \in inTime : stage[d] # "delivered"

(* Every request is answered: a window that hears nothing, a write that    *)
(* stops short or a session that ends holds up no one.                     *)
EveryRequestAnswered == \A q \in Ids : q \in DOMAIN req ~> Answered(q)
=============================================================================
