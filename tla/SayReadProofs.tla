----------------------------- MODULE SayReadProofs -----------------------------
(***************************************************************************)
(* What the daemon answers of a say_read is so, for every set of says,      *)
(* sessions and requests, through failing writes, restarts and a file that  *)
(* does not read.                                                           *)
(*                                                                          *)
(* The argument: what counts as read, by its id or by its time, grows from  *)
(* the file through the writes that wait to what is in memory, since they   *)
(* are written in the order they were marked in. So each landing only adds  *)
(* to the disk, and what a request marked is in its own write and in every  *)
(* later one. A start that reads no file keeps this, because it takes every *)
(* say that was written for read, and nothing else was ever marked.         *)
(***************************************************************************)
EXTENDS SayRead, SequenceTheorems, TLAPS

(* A request has one write at most. *)
OneWriteEach ==
  \A i, j \in 1..Len(writes) : writes[i].by = writes[j].by => i = j

(* What counts as read once a write lands. *)
Lands(i) == writes[i].read \cup writes[i].old

(* Disk, writes and memory grow in that order. *)
ReadGrows ==
  /\ DiskRead \subseteq IsRead
  /\ \A i \in 1..Len(writes) : DiskRead \subseteq Lands(i) /\ Lands(i) \subseteq IsRead
  /\ \A i, j \in 1..Len(writes) : i < j => Lands(i) \subseteq Lands(j)

(* A write has what its request marked. *)
OwnMarkWritten == \A i \in 1..Len(writes) : fresh[writes[i].by] \subseteq Lands(i)

(* Only what was written is read or marked. *)
OnlyWritten == IsRead \subseteq rows /\ \A q \in Requests : fresh[q] \subseteq rows

(* A request marks once. *)
MarkedOnce == \A q \in Requests : status[q] = "none" => fresh[q] = {}

(* What was answered read is in memory, on disk and in what goes there. *)
AnsweredKept ==
  \A q \in Requests : status[q] = "read" =>
    /\ fresh[q] \subseteq IsRead
    /\ file # None => fresh[q] \subseteq DiskRead
    /\ \A i \in 1..Len(writes) : fresh[q] \subseteq Lands(i)

IInv ==
  /\ TypeOK /\ OneWriteEach /\ ReadGrows /\ OwnMarkWritten /\ OnlyWritten
  /\ AnsweredKept /\ MarkedOnce /\ TabsCurrent


-----------------------------------------------------------------------------
(* The write that ends is the first.                                       *)
LEMMA TurnIsFirst ==
  ASSUME writes \in Seq(Write), NEW i \in Turn
  PROVE  i = 1 /\ Len(writes) >= 1
  BY DEF Turn

(* What is left of the writes when the first has ended.                    *)
LEMMA RestOfWrites ==
  ASSUME writes \in Seq(Write), Len(writes) >= 1
  PROVE  LET rest == RemoveAt(writes, 1)
         IN  /\ rest \in Seq(Write)
             /\ Len(rest) = Len(writes) - 1
             /\ \A k \in 1..Len(rest) : rest[k] = writes[k + 1]
<1> DEFINE none == SubSeq(writes, 1, 0)
           tail == SubSeq(writes, 2, Len(writes))
<1>1. none = <<>>
  BY SubSeqEmpty
<1>2. tail = Tail(writes)
  BY TailIsSubSeq, writes # <<>>
<1>3. /\ tail \in Seq(Write) /\ Len(tail) = Len(writes) - 1
      /\ \A k \in 1..Len(tail) : tail[k] = writes[k + 1]
  BY <1>2, HeadTailProperties, writes # <<>>
<1> HIDE DEF none, tail
<1>4. RemoveAt(writes, 1) = none \o tail
  BY DEF RemoveAt, none, tail
<1>5. RemoveAt(writes, 1) = tail
  BY <1>1, <1>3, <1>4
<1> QED
  BY <1>3, <1>5

LEMMA InitIInv == Init => IInv
<1> SUFFICES ASSUME Init PROVE IInv
  OBVIOUS
<1> USE DEF Init
<1>1. TypeOK
  <2>1. SessionOf \in [Says -> Sessions] /\ 1 \in 1..MaxStarts
    BY SayAssumption
  <2>2. /\ writes \in Seq(Write)
        /\ \A q \in Requests :
             status[q] = "writing" <=> \E i \in 1..Len(writes) : writes[i].by = q
    OBVIOUS
  <2> QED
    BY <2>1, <2>2 DEF TypeOK, Statuses
<1>2. OneWriteEach /\ OwnMarkWritten
  BY DEF OneWriteEach, OwnMarkWritten
<1>3. ReadGrows /\ OnlyWritten
  BY DEF ReadGrows, OnlyWritten, DiskRead, IsRead
<1>4. AnsweredKept /\ MarkedOnce /\ TabsCurrent
  BY DEF AnsweredKept, MarkedOnce, TabsCurrent
<1> QED
  BY <1>1, <1>2, <1>3, <1>4 DEF IInv

-----------------------------------------------------------------------------
(* The type invariant, with one write of a request at most.                *)
LEMMA TypeStep ==
  TypeOK /\ OneWriteEach /\ [Next]_vars => TypeOK' /\ OneWriteEach'
<1> SUFFICES ASSUME TypeOK, OneWriteEach, [Next]_vars
             PROVE  TypeOK' /\ OneWriteEach'
  OBVIOUS
<1> USE SayAssumption DEF TypeOK, OneWriteEach, sessionVars, requestVars
<1>1. ASSUME NEW x \in Says, SayWritten(x) PROVE TypeOK' /\ OneWriteEach'
  BY <1>1 DEF SayWritten, UnreadOf
<1>2. ASSUME NEW s \in Sessions, CatchUpLands(s) PROVE TypeOK' /\ OneWriteEach'
  BY <1>2 DEF CatchUpLands, UnreadOf, Of
<1>3. ASSUME NEW s \in Sessions, SessionCloses(s) PROVE TypeOK' /\ OneWriteEach'
  BY <1>3 DEF SessionCloses, UnreadOf, Of
<1>4. ASSUME NEW q \in Requests, Mark(q) PROVE TypeOK' /\ OneWriteEach'
  <2>1. PICK which \in SUBSET Says :
          /\ ids' = [ids EXCEPT ![q] = which]
          /\ fresh' = [fresh EXCEPT ![q] = IF Known(which) THEN which \cap Unread ELSE {}]
          /\ read' = read \cup fresh'[q]
          /\ IF fresh'[q] # {}
             THEN /\ writes' = Append(writes, [by |-> q, read |-> read', old |-> old])
                  /\ status' = [status EXCEPT ![q] = "writing"]
             ELSE /\ status' = [status EXCEPT ![q] =
                                 IF Known(which) THEN "unchanged" ELSE "unknown"]
                  /\ UNCHANGED writes
    BY <1>4 DEF Mark
  <2>2. /\ status[q] = "none"
        /\ UNCHANGED <<rows, live, says, old, file, snapshot, starts, failed, over>>
    BY <1>4 DEF Mark
  <2>3. fresh'[q] \subseteq Says /\ fresh' \in [Requests -> SUBSET Says]
    BY <2>1 DEF Unread, UnreadOf
  <2>4. read' \subseteq Says /\ ids' \in [Requests -> SUBSET Says]
    BY <2>1, <2>3
  <2>5. \A i \in 1..Len(writes) : writes[i].by # q
    BY <2>2
  <2>6. CASE fresh'[q] # {}
    <3> DEFINE w == [by |-> q, read |-> read', old |-> old]
    <3>1. w \in Write /\ w.by = q
      BY <2>4 DEF Write
    <3>2. /\ writes' = Append(writes, w)
          /\ status' = [status EXCEPT ![q] = "writing"]
      BY <2>1, <2>6
    <3> HIDE DEF w
    <3>3. /\ writes' \in Seq(Write) /\ Len(writes') = Len(writes) + 1
          /\ \A i \in 1..Len(writes) : writes'[i] = writes[i]
          /\ writes'[Len(writes) + 1] = w
      BY <3>1, <3>2, AppendProperties
    <3>4. OneWriteEach'
      <4>1. SUFFICES ASSUME NEW i \in 1..Len(writes'), NEW j \in 1..Len(writes'),
                            writes'[i].by = writes'[j].by
                     PROVE  i = j
        BY DEF OneWriteEach
      <4>2. \A k \in 1..Len(writes') : k = Len(writes) + 1 \/ k \in 1..Len(writes)
        BY <3>3
      <4>3. CASE i = Len(writes) + 1
        BY <2>5, <3>1, <3>3, <4>1, <4>2, <4>3
      <4>4. CASE j = Len(writes) + 1
        BY <2>5, <3>1, <3>3, <4>1, <4>2, <4>4
      <4>5. CASE i \in 1..Len(writes) /\ j \in 1..Len(writes)
        BY <3>3, <4>1, <4>5
      <4> QED
        BY <4>2, <4>3, <4>4, <4>5
    <3>5. status' \in [Requests -> Statuses]
      BY <3>2 DEF Statuses
    <3>6. ASSUME NEW p \in Requests
          PROVE  status'[p] = "writing" <=> \E i \in 1..Len(writes') : writes'[i].by = p
      <4>1. CASE p = q
        BY <3>1, <3>2, <3>3, <4>1
      <4>2. CASE p # q
        <5>1. status'[p] = status[p]
          BY <3>2, <4>2
        <5>2. ASSUME NEW i \in 1..Len(writes'), writes'[i].by = p
              PROVE  i \in 1..Len(writes) /\ writes[i].by = p
          BY <3>1, <3>3, <4>2, <5>2
        <5> QED
          BY <3>3, <5>1, <5>2
      <4> QED
        BY <4>1, <4>2
    <3> QED
      BY <2>2, <2>3, <2>4, <3>3, <3>4, <3>5, <3>6
  <2>7. CASE fresh'[q] = {}
    BY <2>1, <2>2, <2>3, <2>4, <2>7 DEF Statuses
  <2> QED
    BY <2>6, <2>7
<1>5. ASSUME NEW i \in Turn, WriteLands(i) \/ WriteFails(i) PROVE TypeOK' /\ OneWriteEach'
  <2>1. i = 1 /\ Len(writes) >= 1
    BY TurnIsFirst
  <2>2. writes' = RemoveAt(writes, 1)
    BY <1>5, <2>1 DEF WriteLands, WriteFails
  <2>3. /\ writes' \in Seq(Write) /\ Len(writes') = Len(writes) - 1
        /\ \A k \in 1..Len(writes') : writes'[k] = writes[k + 1]
    BY <2>1, <2>2, RestOfWrites
  <2>4. OneWriteEach'
    <3>1. ASSUME NEW k \in 1..Len(writes'), NEW j \in 1..Len(writes'),
                 writes'[k].by = writes'[j].by
          PROVE  k = j
      <4>1. k + 1 \in 1..Len(writes) /\ j + 1 \in 1..Len(writes)
        BY <2>1, <2>3
      <4>2. writes[k + 1].by = writes[j + 1].by
        BY <2>3, <3>1
      <4>3. k + 1 = j + 1
        BY <4>1, <4>2
      <4> QED
        BY <4>3
    <3> QED
      BY <3>1
  <2>5. writes[1] \in Write /\ writes[1].by \in Requests
    <3>1. 1 \in 1..Len(writes)
      BY <2>1
    <3>2. writes[1] \in Write
      BY <3>1, ElementOfSeq
    <3> QED
      BY <3>2 DEF Write
  <2>6. PICK ended \in {"read", "failed"} :
          status' = [status EXCEPT ![writes[1].by] = ended]
    BY <1>5, <2>1 DEF WriteLands, WriteFails
  <2>7. status' \in [Requests -> Statuses]
    BY <2>5, <2>6 DEF Statuses
  <2>8. ASSUME NEW p \in Requests
        PROVE  status'[p] = "writing" <=> \E k \in 1..Len(writes') : writes'[k].by = p
    <3>1. CASE p = writes[1].by
      <4>1. ASSUME NEW k \in 1..Len(writes') PROVE writes'[k].by # p
        <5>1. /\ 1 \in 1..Len(writes) /\ k + 1 \in 1..Len(writes) /\ k + 1 # 1
              /\ writes'[k] = writes[k + 1]
          BY <2>1, <2>3
        <5> QED
          BY <3>1, <5>1
      <4> QED
        BY <2>5, <2>6, <3>1, <4>1
    <3>2. CASE p # writes[1].by
      <4>1. status'[p] = status[p]
        BY <2>6, <3>2
      <4>2. ASSUME NEW k \in 1..Len(writes), writes[k].by = p
            PROVE  k - 1 \in 1..Len(writes') /\ writes'[k - 1].by = p
        <5>1. k # 1
          BY <3>2, <4>2
        <5> QED
          BY <2>3, <4>2, <5>1
      <4>3. ASSUME NEW k \in 1..Len(writes'), writes'[k].by = p
            PROVE  k + 1 \in 1..Len(writes) /\ writes[k + 1].by = p
        BY <2>3, <4>3
      <4> QED
        BY <4>1, <4>2, <4>3
    <3> QED
      BY <3>1, <3>2
  <2>9. file' \in File \cup {None} /\ snapshot' \in (SUBSET Says) \cup {None} /\ failed' \in BOOLEAN
    <3>1. [read |-> writes[1].read, old |-> writes[1].old] \in File
      BY <2>5 DEF File, Write
    <3>2. Unread \in SUBSET Says
      BY DEF Unread, UnreadOf
    <3>3. CASE WriteLands(i)
      BY <2>1, <3>1, <3>2, <3>3 DEF WriteLands
    <3>4. CASE WriteFails(i)
      BY <3>4 DEF WriteFails
    <3> QED
      BY <1>5, <3>3, <3>4
  <2>10. UNCHANGED <<rows, live, says, read, old, ids, fresh, starts, over>>
    BY <1>5 DEF WriteLands, WriteFails
  <2> QED
    BY <2>3, <2>4, <2>7, <2>8, <2>9, <2>10
<1>6. ASSUME Restart PROVE TypeOK' /\ OneWriteEach'
  <2>1. /\ writes' = <<>> /\ read' \subseteq Says /\ old' \subseteq Says
        /\ over' \in BOOLEAN
    BY <1>6 DEF Restart, SinceAtStart, File
  <2>2. /\ status' \in [Requests -> Statuses]
        /\ \A p \in Requests : status'[p] # "writing"
    BY <1>6 DEF Restart, Statuses
  <2>3. writes' \in Seq(Write) /\ \A p \in Requests : ~ \E k \in 1..Len(writes') : writes'[k].by = p
    BY <2>1
  <2>4. starts' \in 1..MaxStarts
    BY <1>6 DEF Restart
  <2>5. OneWriteEach'
    BY <2>1
  <2> QED
    BY <1>6, <2>1, <2>2, <2>3, <2>4, <2>5 DEF Restart
<1>7. ASSUME FileSpoils PROVE TypeOK' /\ OneWriteEach'
  BY <1>7 DEF FileSpoils
<1>8. CASE UNCHANGED vars
  BY <1>8 DEF vars
<1> QED
  BY <1>1, <1>2, <1>3, <1>4, <1>5, <1>6, <1>7, <1>8 DEF Next

-----------------------------------------------------------------------------
(* The rest of the invariant, action by action.                            *)
Kept == ReadGrows /\ OwnMarkWritten /\ OnlyWritten /\ AnsweredKept

(* The sessions' steps leave the store's read ids and its file alone.      *)
LEMMA SessionStep ==
  ASSUME IInv, UNCHANGED <<read, old, file, writes, requestVars>>, rows \subseteq rows'
  PROVE  Kept'
<1> USE DEF IInv, requestVars
<1>1. DiskRead' = DiskRead /\ IsRead' = IsRead /\ \A i \in 1..Len(writes) : Lands(i)' = Lands(i)
  BY DEF DiskRead, IsRead, Lands
<1>2. ReadGrows' /\ OwnMarkWritten' /\ OnlyWritten'
  BY <1>1 DEF ReadGrows, OwnMarkWritten, OnlyWritten
<1>3. AnsweredKept'
  BY <1>1 DEF AnsweredKept
<1> QED
  BY <1>2, <1>3 DEF Kept

(* Whatever says come and go, the tabs are told when the unread ones do.   *)
LEMMA SessionTabs ==
  ASSUME IInv,
         \/ \E x \in Says : SayWritten(x)
         \/ \E s \in Sessions : CatchUpLands(s) \/ SessionCloses(s)
  PROVE  TabsCurrent'
<1> USE DEF IInv, TypeOK, TabsCurrent, Unread, UnreadOf
<1>1. ASSUME NEW x \in Says, SayWritten(x) PROVE TabsCurrent'
  BY <1>1 DEF SayWritten, sessionVars
<1>2. ASSUME NEW s \in Sessions, CatchUpLands(s) PROVE TabsCurrent'
  <2>1. CASE says' \cap Of(s) = {}
    <3>1. says' = says
      BY <1>2, <2>1 DEF CatchUpLands, Of
    <3> QED
      BY <1>2, <2>1, <3>1 DEF CatchUpLands
  <2>2. CASE says' \cap Of(s) # {}
    BY <1>2, <2>2 DEF CatchUpLands
  <2> QED
    BY <2>1, <2>2
<1>3. ASSUME NEW s \in Sessions, SessionCloses(s) PROVE TabsCurrent'
  <2>1. CASE says \cap Of(s) = {}
    <3>1. says' = says
      BY <1>3, <2>1 DEF SessionCloses, Of
    <3> QED
      BY <1>3, <2>1, <3>1 DEF SessionCloses
  <2>2. CASE says \cap Of(s) # {}
    BY <1>3, <2>2 DEF SessionCloses
  <2> QED
    BY <2>1, <2>2
<1> QED
  BY <1>1, <1>2, <1>3

(* A request's own write comes last, with all that is read by then.        *)
LEMMA MarkStep ==
  ASSUME IInv, NEW q \in Requests, Mark(q)
  PROVE  Kept' /\ TabsCurrent'
<1> USE DEF IInv
<1>1. /\ status[q] = "none"
      /\ UNCHANGED <<rows, live, says, old, file, snapshot, starts, failed, over>>
  BY DEF Mark, sessionVars
<1>2. PICK which \in SUBSET Says :
        /\ fresh' = [fresh EXCEPT ![q] = IF Known(which) THEN which \cap Unread ELSE {}]
        /\ read' = read \cup fresh'[q]
        /\ IF fresh'[q] # {}
           THEN /\ writes' = Append(writes, [by |-> q, read |-> read', old |-> old])
                /\ status' = [status EXCEPT ![q] = "writing"]
           ELSE /\ status' = [status EXCEPT ![q] =
                               IF Known(which) THEN "unchanged" ELSE "unknown"]
                /\ UNCHANGED writes
  BY DEF Mark
<1>3. /\ \A p \in Requests \ {q} : status'[p] = status[p] /\ fresh'[p] = fresh[p]
      /\ status'[q] # "read"
  BY <1>2 DEF TypeOK
<1>4. \A i \in 1..Len(writes) : writes[i].by # q /\ writes[i].by \in Requests
  <2>1. \A i \in 1..Len(writes) : writes[i] \in Write
    BY ElementOfSeq DEF TypeOK
  <2> QED
    BY <1>1, <2>1 DEF TypeOK, Write
<1>5. \A i \in 1..Len(writes) : fresh'[writes[i].by] = fresh[writes[i].by]
  BY <1>3, <1>4
<1>6. /\ DiskRead' = DiskRead /\ IsRead \subseteq IsRead' /\ IsRead' = IsRead \cup fresh'[q]
      /\ fresh'[q] \subseteq rows
  BY <1>1, <1>2 DEF DiskRead, IsRead, TypeOK, Unread, UnreadOf
<1>7. OnlyWritten'
  <2>1. \A p \in Requests : fresh'[p] \subseteq rows
    BY <1>3, <1>6 DEF OnlyWritten
  <2> QED
    BY <1>1, <1>6, <2>1 DEF OnlyWritten
<1>8. CASE fresh'[q] # {}
  <2> DEFINE w == [by |-> q, read |-> read', old |-> old]
  <2>1. w.by = q /\ w.read = read' /\ w.old = old
    OBVIOUS
  <2>2. writes' = Append(writes, w)
    BY <1>2, <1>8
  <2> HIDE DEF w
  <2>3. /\ Len(writes') = Len(writes) + 1
        /\ \A i \in 1..Len(writes) : writes'[i] = writes[i]
        /\ writes'[Len(writes) + 1] = w
        /\ Len(writes) \in Nat
    BY <2>2, AppendProperties DEF TypeOK
  <2>4. \A i \in 1..Len(writes') : i = Len(writes) + 1 \/ i \in 1..Len(writes)
    BY <2>3
  <2>5. /\ \A i \in 1..Len(writes) : Lands(i)' = Lands(i)
        /\ \A i \in Nat : i = Len(writes) + 1 => Lands(i)' = IsRead'
    <3>1. \A i \in 1..Len(writes) : Lands(i)' = Lands(i)
      BY <2>3 DEF Lands
    <3>2. \A i \in Nat : i = Len(writes) + 1 => Lands(i)' = IsRead'
      BY <1>1, <2>1, <2>3 DEF Lands, IsRead
    <3> QED
      BY <3>1, <3>2
  <2>6. ReadGrows'
    <3>1. DiskRead' \subseteq IsRead'
      BY <1>6 DEF ReadGrows
    <3>2. ASSUME NEW i \in 1..Len(writes')
          PROVE  DiskRead' \subseteq Lands(i)' /\ Lands(i)' \subseteq IsRead'
      <4>1. CASE i \in 1..Len(writes)
        BY <1>6, <2>5, <4>1 DEF ReadGrows
      <4>2. CASE i = Len(writes) + 1
        BY <2>5, <3>1, <4>2
      <4> QED
        BY <2>4, <4>1, <4>2
    <3>3. ASSUME NEW i \in 1..Len(writes'), NEW j \in 1..Len(writes'), i < j
          PROVE  Lands(i)' \subseteq Lands(j)'
      <4>1. i \in 1..Len(writes)
        BY <2>3, <2>4, <3>3
      <4>2. CASE j = Len(writes) + 1
        BY <2>5, <3>2, <4>2
      <4>3. CASE j \in 1..Len(writes)
        BY <2>5, <3>3, <4>1, <4>3 DEF ReadGrows
      <4> QED
        BY <2>4, <4>2, <4>3
    <3> QED
      BY <3>1, <3>2, <3>3 DEF ReadGrows
  <2>7. OwnMarkWritten'
    <3>1. ASSUME NEW i \in 1..Len(writes') PROVE fresh'[writes'[i].by] \subseteq Lands(i)'
      <4>1. CASE i \in 1..Len(writes)
        BY <1>5, <2>3, <2>5, <4>1 DEF OwnMarkWritten
      <4>2. CASE i = Len(writes) + 1
        BY <1>6, <2>1, <2>3, <2>5, <4>2
      <4> QED
        BY <2>4, <4>1, <4>2
    <3> QED
      BY <3>1 DEF OwnMarkWritten
  <2>8. AnsweredKept'
    <3>1. SUFFICES ASSUME NEW p \in Requests, status'[p] = "read"
                   PROVE  /\ fresh'[p] \subseteq IsRead'
                          /\ file' # None => fresh'[p] \subseteq DiskRead'
                          /\ \A i \in 1..Len(writes') : fresh'[p] \subseteq Lands(i)'
      BY DEF AnsweredKept
    <3>2. p # q /\ status[p] = "read" /\ fresh'[p] = fresh[p]
      BY <1>3, <3>1
    <3>3. fresh'[p] \subseteq IsRead' /\ (file' # None => fresh'[p] \subseteq DiskRead')
      BY <1>1, <1>6, <3>2 DEF AnsweredKept
    <3>4. ASSUME NEW i \in 1..Len(writes') PROVE fresh'[p] \subseteq Lands(i)'
      <4>1. CASE i \in 1..Len(writes)
        BY <2>5, <3>2, <4>1 DEF AnsweredKept
      <4>2. CASE i = Len(writes) + 1
        BY <2>5, <3>3, <4>2
      <4> QED
        BY <2>4, <4>1, <4>2
    <3> QED
      BY <3>3, <3>4
  <2>9. writes' # <<>>
    BY <2>3
  <2> QED
    BY <1>7, <2>6, <2>7, <2>8, <2>9 DEF Kept, TabsCurrent
<1>9. CASE fresh'[q] = {}
  <2>1. read' = read /\ UNCHANGED writes
    BY <1>2, <1>9
  <2>2. IsRead' = IsRead /\ \A i \in 1..Len(writes) : Lands(i)' = Lands(i)
    BY <1>1, <2>1 DEF IsRead, Lands
  <2>3. ReadGrows' /\ OwnMarkWritten'
    BY <1>5, <1>6, <2>1, <2>2 DEF ReadGrows, OwnMarkWritten
  <2>4. AnsweredKept'
    BY <1>1, <1>3, <1>6, <2>1, <2>2 DEF AnsweredKept
  <2>5. TabsCurrent'
    BY <1>1, <2>1 DEF TabsCurrent, Unread, UnreadOf
  <2> QED
    BY <1>7, <2>3, <2>4, <2>5 DEF Kept
<1> QED
  BY <1>8, <1>9

(* A write that ends, landed or not, is the first of the line.             *)
LEMMA EndStep ==
  ASSUME IInv, NEW i \in Turn, WriteLands(i) \/ WriteFails(i)
  PROVE  Kept' /\ TabsCurrent'
<1> USE DEF IInv
<1>1. /\ i = 1 /\ Len(writes) >= 1 /\ 1 \in 1..Len(writes)
      /\ writes' = RemoveAt(writes, 1)
      /\ UNCHANGED <<rows, live, says, read, old, ids, fresh, starts, over>>
  BY TurnIsFirst DEF TypeOK, WriteLands, WriteFails, sessionVars
<1>2. /\ Len(writes') = Len(writes) - 1
      /\ \A k \in 1..Len(writes') :
           k + 1 \in 1..Len(writes) /\ writes'[k] = writes[k + 1]
  BY <1>1, RestOfWrites DEF TypeOK
<1>3. writes[1] \in Write
  BY <1>1, ElementOfSeq DEF TypeOK
<1>4. IsRead' = IsRead /\ \A k \in 1..Len(writes') : Lands(k)' = Lands(k + 1)
  BY <1>1, <1>2 DEF IsRead, Lands
<1>5. OwnMarkWritten' /\ OnlyWritten'
  BY <1>1, <1>2, <1>4 DEF OwnMarkWritten, OnlyWritten
<1>6. ASSUME NEW k \in 1..Len(writes'), NEW j \in 1..Len(writes'), k < j
      PROVE  Lands(k)' \subseteq Lands(j)'
  <2>1. k + 1 < j + 1
    BY <1>6
  <2> QED
    BY <1>2, <1>4, <2>1 DEF ReadGrows
<1>7. CASE WriteLands(i)
  <2> DEFINE f == [read |-> writes[1].read, old |-> writes[1].old]
  <2>1. file' = f /\ status' = [status EXCEPT ![writes[1].by] = "read"] /\ snapshot' = Unread
    BY <1>1, <1>7 DEF WriteLands
  <2>2. f # None /\ f.read = writes[1].read /\ f.old = writes[1].old
    BY <1>3, NoneAssumption DEF File, Write
  <2> HIDE DEF f
  <2>3. DiskRead' = Lands(1) /\ Lands(1) \subseteq IsRead
    BY <1>1, <2>1, <2>2 DEF DiskRead, Lands, ReadGrows
  <2>4. \A k \in 1..Len(writes') : Lands(1) \subseteq Lands(k)'
    <3>1. TAKE k \in 1..Len(writes')
    <3>2. 1 < k + 1 /\ k + 1 \in 1..Len(writes)
      BY <1>2
    <3>3. Lands(1) \subseteq Lands(k + 1)
      BY <1>1, <3>2 DEF ReadGrows
    <3> QED
      BY <1>4, <3>3
  <2>5. \A k \in 1..Len(writes') : Lands(k)' \subseteq IsRead
    BY <1>2, <1>4 DEF ReadGrows
  <2>6. ReadGrows'
    BY <1>4, <1>6, <2>3, <2>4, <2>5 DEF ReadGrows
  <2>7. AnsweredKept'
    <3>1. SUFFICES ASSUME NEW p \in Requests, status'[p] = "read"
                   PROVE  fresh[p] \subseteq Lands(1)
      BY <1>1, <1>4, <2>3, <2>4 DEF AnsweredKept
    <3>2. CASE p = writes[1].by
      BY <1>1, <3>2 DEF OwnMarkWritten
    <3>3. CASE p # writes[1].by
      <4>1. status[p] = "read"
        BY <2>1, <3>1, <3>3 DEF TypeOK
      <4> QED
        BY <1>1, <4>1 DEF AnsweredKept
    <3> QED
      BY <3>2, <3>3
  <2>8. TabsCurrent'
    BY <1>1, <2>1 DEF TabsCurrent, Unread, UnreadOf
  <2> QED
    BY <1>5, <2>6, <2>7, <2>8 DEF Kept
<1>8. CASE WriteFails(i)
  <2>1. /\ status' = [status EXCEPT ![writes[1].by] = "failed"]
        /\ failed' = TRUE /\ file' = file /\ DiskRead' = DiskRead
    BY <1>1, <1>8 DEF WriteFails, DiskRead
  <2>2. ReadGrows'
    BY <1>2, <1>4, <1>6, <2>1 DEF ReadGrows
  <2>3. AnsweredKept'
    <3>1. \A p \in Requests : status'[p] = "read" => status[p] = "read"
      BY <2>1 DEF TypeOK
    <3> QED
      BY <1>1, <1>2, <1>4, <2>1, <3>1 DEF AnsweredKept
  <2>4. TabsCurrent'
    BY <2>1 DEF TabsCurrent
  <2> QED
    BY <1>5, <2>2, <2>3, <2>4 DEF Kept
<1> QED
  BY <1>7, <1>8

(* A restart goes on from the disk, or takes all that was written for read. *)
LEMMA RestartStep ==
  ASSUME IInv, Restart
  PROVE  Kept' /\ TabsCurrent'
<1> USE DEF IInv
<1>1. /\ writes' = <<>> /\ Len(writes') = 0 /\ snapshot' = None
      /\ UNCHANGED <<rows, file, fresh>>
      /\ status' = [p \in Requests |-> IF status[p] = "writing" THEN "lost" ELSE status[p]]
  BY DEF Restart
<1>2. PICK reads \in BOOLEAN :
        /\ reads => file # None
        /\ read' = IF reads THEN file.read ELSE {}
        /\ old' = SinceAtStart(reads)
  BY DEF Restart
<1>3. DiskRead' = DiskRead /\ IsRead' = IF reads THEN DiskRead ELSE rows
  BY <1>1, <1>2 DEF DiskRead, IsRead, SinceAtStart
<1>4. DiskRead \subseteq rows
  BY DEF ReadGrows, OnlyWritten
<1>5. ReadGrows' /\ OwnMarkWritten' /\ OnlyWritten'
  BY <1>1, <1>3, <1>4 DEF ReadGrows, OwnMarkWritten, OnlyWritten
<1>6. AnsweredKept'
  <2>1. SUFFICES ASSUME NEW p \in Requests, status'[p] = "read"
                 PROVE  fresh[p] \subseteq IsRead' /\ (file # None => fresh[p] \subseteq DiskRead')
    BY <1>1 DEF AnsweredKept
  <2>2. status[p] = "read"
    BY <1>1, <2>1
  <2> QED
    BY <1>2, <1>3, <2>2 DEF AnsweredKept, OnlyWritten
<1>7. TabsCurrent'
  BY <1>1 DEF TabsCurrent
<1> QED
  BY <1>5, <1>6, <1>7 DEF Kept

(* A file that goes leaves what is in memory and what goes to disk. *)
LEMMA SpoilStep ==
  ASSUME IInv, FileSpoils
  PROVE  Kept' /\ TabsCurrent'
<1> USE DEF IInv, FileSpoils, sessionVars, requestVars
<1>1. DiskRead' = {} /\ IsRead' = IsRead /\ \A i \in 1..Len(writes) : Lands(i)' = Lands(i)
  BY DEF DiskRead, IsRead, Lands
<1>2. ReadGrows' /\ OwnMarkWritten' /\ OnlyWritten'
  BY <1>1 DEF ReadGrows, OwnMarkWritten, OnlyWritten
<1>3. AnsweredKept' /\ TabsCurrent'
  BY <1>1 DEF AnsweredKept, TabsCurrent, Unread, UnreadOf
<1> QED
  BY <1>2, <1>3 DEF Kept

LEMMA OnceStep ==
  ASSUME IInv, [Next]_vars
  PROVE  MarkedOnce'
<1> USE DEF IInv, MarkedOnce, TypeOK
<1>1. ASSUME NEW q \in Requests, Mark(q) PROVE MarkedOnce'
  <2>1. /\ \A p \in Requests \ {q} : status'[p] = status[p] /\ fresh'[p] = fresh[p]
        /\ status'[q] # "none"
    BY <1>1 DEF Mark
  <2> QED
    BY <2>1
<1>2. ASSUME NEW i \in Turn, WriteLands(i) \/ WriteFails(i) PROVE MarkedOnce'
  BY <1>2 DEF WriteLands, WriteFails
<1>3. CASE Restart
  BY <1>3 DEF Restart
<1>4. CASE UNCHANGED <<status, fresh>>
  BY <1>4
<1> QED
  BY <1>1, <1>2, <1>3, <1>4 DEF Next, vars, SayWritten, CatchUpLands, SessionCloses,
                               FileSpoils, requestVars

LEMMA StepIInv == IInv /\ [Next]_vars => IInv'
<1> SUFFICES ASSUME IInv, [Next]_vars PROVE IInv'
  OBVIOUS
<1>1. TypeOK' /\ OneWriteEach'
  BY TypeStep DEF IInv
<1>2. Kept' /\ TabsCurrent'
  <2>1. ASSUME NEW x \in Says, SayWritten(x) PROVE Kept' /\ TabsCurrent'
    <3>1. UNCHANGED <<read, old, file, writes, requestVars>> /\ rows \subseteq rows'
      BY <2>1 DEF SayWritten
    <3> QED
      BY <2>1, <3>1, SessionStep, SessionTabs
  <2>2. ASSUME NEW s \in Sessions, CatchUpLands(s) \/ SessionCloses(s)
        PROVE  Kept' /\ TabsCurrent'
    <3>1. UNCHANGED <<read, old, file, writes, requestVars>> /\ rows \subseteq rows'
      BY <2>2 DEF CatchUpLands, SessionCloses
    <3> QED
      BY <2>2, <3>1, SessionStep, SessionTabs
  <2>3. ASSUME NEW q \in Requests, Mark(q) PROVE Kept' /\ TabsCurrent'
    BY <2>3, MarkStep
  <2>4. ASSUME NEW i \in Turn, WriteLands(i) \/ WriteFails(i) PROVE Kept' /\ TabsCurrent'
    BY <2>4, EndStep
  <2>5. CASE Restart
    BY <2>5, RestartStep
  <2>6. CASE FileSpoils
    BY <2>6, SpoilStep
  <2>7. CASE UNCHANGED vars
    <3>1. Kept'
      BY <2>7, SessionStep DEF vars, requestVars
    <3>2. TabsCurrent'
      BY <2>7 DEF vars, IInv, TabsCurrent, Unread, UnreadOf
    <3> QED
      BY <3>1, <3>2
  <2> QED
    BY <2>1, <2>2, <2>3, <2>4, <2>5, <2>6, <2>7 DEF Next
<1> QED
  BY <1>1, <1>2, OnceStep DEF IInv, Kept

-----------------------------------------------------------------------------
(* The theorems.                                                           *)

LEMMA Invariant == Spec => []IInv
<1>1. Init => IInv
  BY InitIInv
<1>2. IInv /\ [Next]_vars => IInv'
  BY StepIInv
<1> QED
  BY <1>1, <1>2, PTL DEF Spec

(* The store, its file, its writes and the requests keep their types; a    *)
(* request is writing as long as a write of it waits (markSaysRead).       *)
THEOREM TypeCorrect == Spec => []TypeOK
<1>1. IInv => TypeOK
  BY DEF IInv
<1> QED
  BY <1>1, Invariant, PTL

(* What a request marked counts as read from its answer on, and is on disk *)
(* as long as the file reads: also after a start that could not read it    *)
(* (writeSayRead, loadSayUnreadStore).                                     *)
THEOREM AnsweredIsOnDisk == Spec => []ReadIsOnDisk
<1>1. IInv => ReadIsOnDisk
  BY DEF IInv, AnsweredKept, ReadIsOnDisk
<1> QED
  BY <1>1, Invariant, PTL

(* The tabs show the unread says whenever no write is under way and none   *)
(* failed (broadcastSayUnread).                                            *)
THEOREM TabsAreCurrent == Spec => []TabsCurrent
<1>1. IInv => TabsCurrent
  BY DEF IInv
<1> QED
  BY <1>1, Invariant, PTL

(* What counts as read on disk stays so, in memory across writes, failures *)
(* and starts of either kind, on disk as long as the file reads            *)
(* (SayUnreadStore.written, loadSayUnreadStore).                           *)
THEOREM NothingUnreadAgain == Spec => ReadStaysRead
<1> DEFINE Stays == DiskRead \subseteq IsRead' /\ (file' # None => DiskRead \subseteq DiskRead')
<1>1. IInv /\ [Next]_vars => [Stays]_vars
  <2> SUFFICES ASSUME IInv, [Next]_vars PROVE Stays
    OBVIOUS
  <2> USE DEF IInv
  <2>1. ASSUME NEW i \in Turn, WriteLands(i) PROVE Stays
    <3>1. i = 1 /\ 1 \in 1..Len(writes)
      BY TurnIsFirst DEF TypeOK
    <3>2. writes[1] \in Write
      BY <3>1, ElementOfSeq DEF TypeOK
    <3>3. /\ file' # None /\ file'.read = writes[1].read /\ file'.old = writes[1].old
          /\ read' = read /\ old' = old
      BY <2>1, <3>1, <3>2, NoneAssumption DEF WriteLands, File, Write
    <3>4. DiskRead' = Lands(1) /\ IsRead' = IsRead
      BY <3>3 DEF DiskRead, Lands, IsRead
    <3> QED
      BY <3>1, <3>4 DEF ReadGrows
  <2>2. CASE Restart
    <3>1. PICK reads \in BOOLEAN :
            /\ reads => file # None
            /\ read' = IF reads THEN file.read ELSE {}
            /\ old' = SinceAtStart(reads)
      BY <2>2 DEF Restart
    <3>2. file' = file /\ DiskRead' = DiskRead /\ IsRead' = IF reads THEN DiskRead ELSE rows
      BY <2>2, <3>1 DEF Restart, DiskRead, IsRead, SinceAtStart
    <3> QED
      BY <3>2 DEF ReadGrows, OnlyWritten
  <2>3. CASE FileSpoils
    <3>1. file' = None /\ IsRead' = IsRead
      BY <2>3 DEF FileSpoils, IsRead
    <3> QED
      BY <3>1 DEF ReadGrows
  <2>4. CASE ~Restart /\ file' = file
    <3>1. read \subseteq read' /\ old' = old
      BY <2>4 DEF Next, vars, SayWritten, CatchUpLands, SessionCloses, Mark, WriteLands,
                  WriteFails, FileSpoils
    <3>2. DiskRead' = DiskRead /\ IsRead \subseteq IsRead'
      BY <2>4, <3>1 DEF DiskRead, IsRead
    <3> QED
      BY <3>2 DEF ReadGrows
  <2>5. file' = file \/ FileSpoils \/ \E i \in Turn : WriteLands(i)
    BY DEF Next, vars, SayWritten, CatchUpLands, SessionCloses, Mark, WriteFails, Restart
  <2> QED
    BY <2>1, <2>2, <2>3, <2>4, <2>5
<1> QED
  BY <1>1, Invariant, PTL DEF Spec, ReadStaysRead

(* An unread say becomes read only by a request that marks it, or by a     *)
(* start that reads no file (markSaysRead, loadSayUnreadStore).            *)
THEOREM OthersStayUnread == Spec => UnreadKept
<1> DEFINE KeepsUnread ==
      \A x \in Unread :
        x \notin Unread' =>
          \/ x \notin says' /\ x \notin IsRead'
          \/ \E q \in Requests : x \in fresh'[q] \ fresh[q]
          \/ starts' # starts /\ over'
<1>1. IInv /\ [Next]_vars => [KeepsUnread]_vars
  <2> SUFFICES ASSUME IInv, [Next]_vars,
                      NEW x \in Unread, x \notin Unread'
               PROVE  \/ x \notin says' /\ x \notin IsRead'
                      \/ \E q \in Requests : x \in fresh'[q] \ fresh[q]
                      \/ starts' # starts /\ over'
    OBVIOUS
  <2>1. x \in says /\ x \notin read \cup old
    BY DEF Unread, UnreadOf
  <2>2. CASE Restart
    <3>1. PICK reads \in BOOLEAN :
            /\ reads => file # None
            /\ read' = IF reads THEN file.read ELSE {}
            /\ old' = SinceAtStart(reads)
            /\ over' = ~reads
      BY <2>2 DEF Restart
    <3>2. starts' = starts + 1 /\ says' = {} /\ starts \in Nat
      BY <2>2 DEF Restart, IInv, TypeOK
    <3>3. CASE reads
      <4>1. IsRead' = DiskRead
        BY <3>1, <3>3 DEF IsRead, DiskRead, SinceAtStart
      <4> QED
        BY <2>1, <3>2, <4>1 DEF IInv, ReadGrows, IsRead
    <3>4. CASE ~reads
      <4>1. over'
        BY <3>1, <3>4
      <4> QED
        BY <3>2, <4>1
    <3> QED
      BY <3>3, <3>4
  <2>3. CASE ~Restart /\ read' = read
    <3>1. old' = old
      BY <2>3 DEF Next, vars, SayWritten, CatchUpLands, SessionCloses, Mark, WriteLands,
                  WriteFails, FileSpoils
    <3> QED
      BY <2>1, <2>3, <3>1 DEF Unread, UnreadOf, IsRead
  <2>4. CASE ~Restart /\ read' # read
    <3>1. PICK q \in Requests : Mark(q)
      BY <2>4 DEF Next, vars, SayWritten, CatchUpLands, SessionCloses, WriteLands, WriteFails,
                  FileSpoils
    <3>2. old' = old /\ says' = says /\ read' = read \cup fresh'[q] /\ status[q] = "none"
      BY <3>1 DEF Mark
    <3>3. x \in fresh'[q]
      BY <2>1, <3>2 DEF Unread, UnreadOf
    <3>4. x \notin fresh[q]
      BY <2>1, <3>2 DEF IInv, MarkedOnce
    <3> QED
      BY <3>3, <3>4
  <2> QED
    BY <2>2, <2>3, <2>4
<1> QED
  BY <1>1, Invariant, PTL DEF Spec, UnreadKept
=============================================================================
