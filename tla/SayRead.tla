-------------------------------- MODULE SayRead --------------------------------
(***************************************************************************)
(* The unread says (packages/daemon/src/say-unread.ts and the op say_read   *)
(* of server.ts): the says of the live sessions, seen in their transcripts; *)
(* the ids the person marked read, in memory and in say-read.json; the set  *)
(* of unread says sent to the webui's tabs.                                 *)
(*                                                                          *)
(* A write of the file takes several awaits, during which other requests    *)
(* run; it may fail; the daemon may crash and start again at any time, and  *)
(* a start may find a file that is there and does not read. A say's time is *)
(* when its row is written.                                                 *)
(***************************************************************************)
EXTENDS Integers, Sequences, FiniteSets, SequencesExt

CONSTANTS
  Says,        (* tool_use ids                                             *)
  Sessions,
  SessionOf,   (* the session each say is of                               *)
  Requests,    (* the say_reads the tabs send                              *)
  None,
  MaxStarts    (* bound: how often the daemon starts                       *)

ASSUME SayAssumption ==
  SessionOf \in [Says -> Sessions] /\ MaxStarts \in Nat \ {0}

VARIABLES
  rows,      (* the says in the transcripts                                *)
  live,      (* the sessions with a module; the daemon folds their lines   *)
  says,      (* store.says: the says of the live sessions                  *)
  read,      (* store.read                                                 *)
  old,       (* the says before store.since, which count as read           *)
  file,      (* say-read.json: its read ids and since; None: it is missing *)
             (* or what it holds does not parse                            *)
  writes,    (* store.written: the writes not ended, each a request's      *)
  ids,       (* what each request names                                    *)
  fresh,     (* what each request itself added to store.read               *)
  status,    (* what each request was answered, or how far it is           *)
  snapshot,  (* daemon.sayUnreadSnapshot, which is what the tabs show      *)
  starts,    (* how often the daemon started                               *)
  failed,    (* history: some write failed since the daemon started        *)
  over       (* history: the daemon's last start read no file              *)

sessionVars == <<rows, live>>
requestVars == <<ids, fresh, status>>
vars == <<rows, live, says, read, old, file, writes, ids, fresh,
          status, snapshot, starts, failed, over>>

File == [read: SUBSET Says, old: SUBSET Says]
Write == [by: Requests, read: SUBSET Says, old: SUBSET Says]
ASSUME NoneAssumption == None \notin File

Statuses == {"none", "writing", "read", "unchanged", "unknown", "failed", "lost"}

TypeOK ==
  /\ rows \subseteq Says /\ live \subseteq Sessions
  /\ says \subseteq rows
  /\ read \subseteq Says /\ old \subseteq Says
  /\ file \in File \cup {None}
  /\ writes \in Seq(Write)
  /\ ids \in [Requests -> SUBSET Says]
  /\ fresh \in [Requests -> SUBSET Says]
  /\ status \in [Requests -> Statuses]
  /\ \A q \in Requests :
       status[q] = "writing" <=> \E i \in 1..Len(writes) : writes[i].by = q
  /\ snapshot \in (SUBSET Says) \cup {None}
  /\ starts \in 1..MaxStarts
  /\ failed \in BOOLEAN /\ over \in BOOLEAN

Init ==
  /\ rows = {} /\ live = {} /\ says = {}
  /\ read = {} /\ old = {}
  /\ file = None
  /\ writes = <<>>
  /\ ids = [q \in Requests |-> {}]
  /\ fresh = [q \in Requests |-> {}]
  /\ status = [q \in Requests |-> "none"]
  /\ snapshot = None
  /\ starts = 1
  /\ failed = FALSE /\ over = TRUE

-----------------------------------------------------------------------------
Of(s) == {x \in Says : SessionOf[x] = s}

(* unreadSays: known, not read, and not from before since.                 *)
UnreadOf(known, isRead) == (known \ isRead) \ old
Unread == UnreadOf(says, read)

(* What counts as read, by its id or by its time: in memory, on disk.      *)
IsRead == read \cup old
DiskRead == IF file = None THEN {} ELSE file.read \cup file.old

-----------------------------------------------------------------------------
(* The sessions' lines: sayUnreadFold.                                     *)

(* A say is written. A live session's is pushed and the tabs are told; one *)
(* that comes during a catch-up waits for it to land.                      *)
SayWritten(x) ==
  /\ x \notin rows
  /\ rows' = rows \cup {x}
  /\ \/ /\ SessionOf[x] \in live
        /\ says' = says \cup {x} /\ snapshot' = UnreadOf(says', read)
     \/ UNCHANGED <<says, snapshot>>
  /\ UNCHANGED <<live, read, old, file, writes, requestVars, starts, failed, over>>

(* A module names its run: the catch-up reads the whole transcript. It     *)
(* lands some time later; until then the settled says stay as they are.    *)
CatchUpLands(s) ==
  /\ live' = live \cup {s}
  /\ says' = (says \ Of(s)) \cup (rows \cap Of(s))
  /\ says' # says \/ s \notin live
  /\ snapshot' = IF says' \cap Of(s) = {} THEN snapshot ELSE UnreadOf(says', read)
  /\ UNCHANGED <<rows, read, old, file, writes, requestVars, starts, failed, over>>

(* Its last run goes: the fold closes.                                     *)
SessionCloses(s) ==
  /\ s \in live
  /\ live' = live \ {s}
  /\ says' = says \ Of(s)
  /\ snapshot' = IF says \cap Of(s) = {} THEN snapshot ELSE UnreadOf(says', read)
  /\ UNCHANGED <<rows, read, old, file, writes, requestVars, starts, failed, over>>

-----------------------------------------------------------------------------
(* say_read: markSaysRead, up to its await.                                *)

(* An id is known when a live session's say has it, or it was read before. *)
Known(which) == which \subseteq says \cup read

(* All the ids are marked or none is.                                      *)
Mark(q) ==
  /\ status[q] = "none"
  /\ \E which \in (SUBSET Says) \ {{}} :
       /\ ids' = [ids EXCEPT ![q] = which]
       /\ fresh' = [fresh EXCEPT ![q] = IF Known(which) THEN which \cap Unread ELSE {}]
       /\ read' = read \cup fresh'[q]
       /\ IF fresh'[q] # {}
          THEN /\ writes' = Append(writes, [by |-> q, read |-> read', old |-> old])
               /\ status' = [status EXCEPT ![q] = "writing"]
          ELSE /\ status' = [status EXCEPT ![q] =
                              IF Known(which) THEN "unchanged" ELSE "unknown"]
               /\ UNCHANGED writes
  /\ UNCHANGED <<sessionVars, says, old, file, snapshot, starts, failed, over>>

(* Mutated form: the writes end in any order. *)
Turn_Any == 1..Len(writes)

(* The writes go one after another.                                        *)
Turn == {1} \cap (1..Len(writes))

(* Mutated form: the tabs are not told. *)
WriteLands_Silent(i) ==
  /\ file' = [read |-> writes[i].read, old |-> writes[i].old]
  /\ writes' = RemoveAt(writes, i)
  /\ status' = [status EXCEPT ![writes[i].by] = "read"]
  /\ UNCHANGED <<sessionVars, says, read, old, ids, fresh, snapshot, starts, failed, over>>

(* Mutated form: a request is answered by the write before its own. *)
WriteLands_Early(i) ==
  /\ file' = [read |-> writes[i].read, old |-> writes[i].old]
  /\ writes' = RemoveAt(writes, i)
  /\ status' = [q \in Requests |-> IF status[q] = "writing" THEN "read" ELSE status[q]]
  /\ snapshot' = Unread
  /\ UNCHANGED <<sessionVars, says, read, old, ids, fresh, starts, failed, over>>

(* The rename: the request of the write tells the tabs and is answered.    *)
WriteLands(i) ==
  /\ file' = [read |-> writes[i].read, old |-> writes[i].old]
  /\ writes' = RemoveAt(writes, i)
  /\ status' = [status EXCEPT ![writes[i].by] = "read"]
  /\ snapshot' = Unread
  /\ UNCHANGED <<sessionVars, says, read, old, ids, fresh, starts, failed, over>>

(* The write fails: its request is answered with the failure. What it      *)
(* added to store.read stays.                                              *)
WriteFails(i) ==
  /\ writes' = RemoveAt(writes, i)
  /\ status' = [status EXCEPT ![writes[i].by] = "failed"]
  /\ failed' = TRUE
  /\ UNCHANGED <<sessionVars, says, read, old, file, ids, fresh, snapshot, starts, over>>

-----------------------------------------------------------------------------
(* Mutated form: since is the time of this start. *)
SinceAtStart_Now(reads) == rows

(* The says before since: a start that reads no file starts over from now. *)
SinceAtStart(reads) == IF reads THEN file.old ELSE rows

(* The daemon ends or crashes, and starts again: loadSayUnreadStore. The   *)
(* write under way leaves the old file. A file that is missing or does not *)
(* parse is not read, and the reading of any may fail; the file stays as   *)
(* it is until the next write. The modules name their runs again.          *)
Restart ==
  /\ starts < MaxStarts
  /\ starts' = starts + 1
  /\ live' = {} /\ says' = {} /\ writes' = <<>> /\ snapshot' = None
  /\ \E reads \in BOOLEAN :
       /\ reads => file # None
       /\ read' = IF reads THEN file.read ELSE {}
       /\ old' = SinceAtStart(reads)
       /\ over' = ~reads
  /\ status' = [q \in Requests |-> IF status[q] = "writing" THEN "lost" ELSE status[q]]
  /\ failed' = FALSE
  /\ UNCHANGED <<rows, file, ids, fresh>>

(* The file is removed or damaged from outside.                            *)
FileSpoils ==
  /\ file # None
  /\ file' = None
  /\ UNCHANGED <<sessionVars, says, read, old, writes, requestVars, snapshot,
                 starts, failed, over>>

Next ==
  \/ \E x \in Says : SayWritten(x)
  \/ \E s \in Sessions : CatchUpLands(s) \/ SessionCloses(s)
  \/ \E q \in Requests : Mark(q)
  \/ \E i \in Turn : WriteLands(i) \/ WriteFails(i)
  \/ Restart \/ FileSpoils

Spec == Init /\ [][Next]_vars

-----------------------------------------------------------------------------
(* Properties.                                                             *)

(* What counts as read on disk, by its id or by its time, stays so: in     *)
(* memory through every write, failure and start, and on disk as long as   *)
(* the file reads. An older set never lands over a newer one               *)
(* (SayUnreadStore.written), and a start that cannot read the file, which  *)
(* forgets the ids, takes every say so far for read (loadSayUnreadStore).  *)
ReadStaysRead ==
  [][DiskRead \subseteq IsRead' /\ (file' # None => DiskRead \subseteq DiskRead')]_vars

(* What a request itself marked counts as read from its answer on, and on  *)
(* disk as long as the file reads, through every failed write, restart and *)
(* damaged file (markSaysRead, writeSayRead, loadSayUnreadStore).          *)
ReadIsOnDisk ==
  \A q \in Requests : status[q] = "read" =>
    fresh[q] \subseteq IsRead /\ (file # None => fresh[q] \subseteq DiskRead)

(* Once no write is under way, and none failed, the tabs show the unread   *)
(* says, whatever sessions came and went during the writes (say_read,      *)
(* sayUnreadFold, broadcastSayUnread).                                     *)
TabsCurrent ==
  writes = <<>> /\ ~failed /\ snapshot # None => snapshot = Unread

(* An unread say becomes read only by a request that marks it or by a      *)
(* start that reads no file: not by the marking of others, nor by the time *)
(* of a start that reads one (markSaysRead, loadSayUnreadStore).           *)
UnreadKept ==
  [][\A x \in Unread :
       x \notin Unread' =>
         \/ x \notin says' /\ x \notin IsRead'
         \/ \E q \in Requests : x \in fresh'[q] \ fresh[q]
         \/ starts' # starts /\ over']_vars
=============================================================================
