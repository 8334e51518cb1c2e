------------------------------ MODULE SessionWake ------------------------------
(***************************************************************************)
(* The wake of the sessions that stopped on an API error, when the host is  *)
(* back online (packages/daemon/src/session-wake.ts, wakeStalledSessions in *)
(* server.ts), over the notices of PeerDelivery: a stall is counted as      *)
(* woken when its wake is asked for and uncounted when that did not arrive. *)
(***************************************************************************)
EXTENDS PeerDelivery

CONSTANTS
  Stalling,   (* the sessions that may stop on an error                    *)
  MaxStalls   (* bound: the errors each stops on                           *)

ASSUME WakeAssumption == Stalling \subseteq Sessions /\ MaxStalls \in Nat

VARIABLES
  stall,     (* the error a session is stopped on, 0 for none              *)
  stalls,    (* the errors it has met                                      *)
  notified,  (* the error a session was woken for, 0 for none              *)
  wakes,     (* the requests that are wakes, with the error of each        *)
  ended,     (* the wakes that came to their outcome                       *)
  unlisted   (* kept for the properties: the sessions that were not in the *)
             (* list of errors at some recovery while one was notified     *)

wakeVars == <<stall, stalls, notified, wakes, ended, unlisted>>
vars == <<peerVars, wakeVars>>

WakeTypeOK ==
  /\ TypeOK
  /\ stall \in [Sessions -> 0..MaxStalls] /\ stalls \in [Sessions -> 0..MaxStalls]
  /\ notified \in [Sessions -> 0..MaxStalls]
  /\ ended \subseteq wakes /\ wakes \subseteq Ids \X (1..MaxStalls)
  /\ unlisted \subseteq Sessions
  /\ \A s \in Sessions : stall[s] <= stalls[s] /\ notified[s] <= stalls[s]

Init ==
  /\ InitPeer
  /\ stall = [s \in Sessions |-> 0] /\ stalls = [s \in Sessions |-> 0]
  /\ notified = [s \in Sessions |-> 0]
  /\ wakes = {} /\ ended = {}
  /\ unlisted = {}

-----------------------------------------------------------------------------
(* The session's turn stops on a new error.                                *)
Stops(s) ==
  /\ s \in Stalling
  /\ stalls[s] < MaxStalls
  /\ stalls' = [stalls EXCEPT ![s] = @ + 1]
  /\ stall' = [stall EXCEPT ![s] = stalls'[s]]
  /\ UNCHANGED <<peerVars, notified, wakes, ended, unlisted>>

(* A real assistant row ends the error.                                    *)
Recovers(s) ==
  /\ stall[s] # 0
  /\ stall' = [stall EXCEPT ![s] = 0]
  /\ UNCHANGED <<peerVars, stalls, notified, wakes, ended, unlisted>>

(* sessionErrorEntries: a session is folded while it has a module.         *)
Listed == {s \in module : stall[s] # 0}
WakeFor(s) == [from |-> None, to |-> {s}, byId |-> TRUE, notice |-> TRUE]

(* Mutated form: a wake is counted when it has arrived. *)
Recovery_CountLater ==
  LET due == SetToSeq({s \in Listed : notified[s] # stall[s]})
      w(i) == Len(req) + i
  IN  /\ Enter([i \in DOMAIN due |-> WakeFor(due[i])])
      /\ notified' = [s \in Sessions |-> IF s \in Listed THEN notified[s] ELSE 0]
      /\ unlisted' = unlisted \cup {s \in Sessions \ Listed : notified[s] # 0}
      /\ wakes' = wakes \cup {<<w(i), stall[due[i]]>> : i \in DOMAIN due}
      /\ UNCHANGED <<worldVars, seen, turnVars, wireVars, stall, stalls, ended>>

(* The host is back online: the sessions that are not in the list are      *)
(* forgotten, and every stall not woken yet is counted and its wake asked  *)
(* for.                                                                    *)
Recovery ==
  LET due == SetToSeq({s \in Listed : notified[s] # stall[s]})
      w(i) == Len(req) + i
  IN  /\ Enter([i \in DOMAIN due |-> WakeFor(due[i])])
      /\ notified' = [s \in Sessions |-> IF s \in Listed THEN stall[s] ELSE 0]
      /\ unlisted' = unlisted \cup {s \in Sessions \ Listed : notified[s] # 0}
      /\ wakes' = wakes \cup {<<w(i), stall[due[i]]>> : i \in DOMAIN due}
      /\ UNCHANGED <<worldVars, seen, turnVars, wireVars, stall, stalls, ended>>

Of(w) == CHOOSE s \in Sessions : req[w[1]].to = {s}

(* A wake comes to its outcome: one that did not arrive is uncounted,      *)
(* unless a newer stall is counted since.                                  *)
Woken(w) ==
  /\ w \notin ended /\ Answered(w[1])
  /\ ended' = ended \cup {w}
  /\ LET missed == Outcome(w[1], Of(w)) = "not_delivered" /\ notified[Of(w)] = w[2]
     IN  notified' = IF missed THEN [notified EXCEPT ![Of(w)] = 0] ELSE notified
  /\ UNCHANGED <<peerVars, stall, stalls, wakes, unlisted>>

-----------------------------------------------------------------------------
WakeEnds == \E w \in wakes : Woken(w)

Next ==
  \/ PeerStep /\ UNCHANGED wakeVars
  \/ \E s \in Sessions : Stops(s) \/ Recovers(s)
  \/ Recovery
  \/ WakeEnds

Spec == Init /\ [][Next]_vars

(* The daemon's reads, its writes and its windows end: each has a time     *)
(* limit.                                                                  *)
FairSpec ==
  /\ Spec
  /\ \A q \in Ids : WF_vars((ReadRuns(q) \/ Start(q)) /\ UNCHANGED wakeVars)
  /\ WF_vars(WakeEnds)
  /\ \A d \in Deliveries : WF_vars(Delivering(d) /\ UNCHANGED wakeVars)

-----------------------------------------------------------------------------
(* Properties.                                                             *)

(* The wakes for a stall that may have arrived or may yet.                 *)
Reaching(s, n) ==
  {w \in wakes : /\ Of(w) = s /\ w[2] = n
                 /\ w \in ended => Outcome(w[1], s) # "not_delivered"}

(* "Poke every session that is stopped on an API error, once per stall"    *)
(* (wakeStalledSessions): a stall that is counted has a wake that reached  *)
(* it or still may, and a stall of a session that stayed in the list has   *)
(* no second one, however late the first comes to its outcome.             *)
OneWakePerStall ==
  \A s \in Sessions :
    /\ notified[s] # 0 => Reaching(s, notified[s]) # {}
    /\ s \notin unlisted => \A n \in 1..MaxStalls : Cardinality(Reaching(s, n)) <= 1
=============================================================================
