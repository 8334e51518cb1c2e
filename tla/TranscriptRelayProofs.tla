------------------------- MODULE TranscriptRelayProofs -------------------------
(***************************************************************************)
(* TranscriptRelay for every number of rows, paths, files and catch-ups,    *)
(* with reads and catch-ups that throw: as long as no reading starts in a   *)
(* line half written ("cut" is not among the faults), the folds and the tab *)
(* hold exactly the lines read, and a wait ends with its rows read or not   *)
(* in the file.                                                             *)
(*                                                                          *)
(* Good says, of any relay, that its tab and, unless a catch-up is under    *)
(* way, its folds are the lines of the file it reads; Scanning that a       *)
(* catch-up's folds and the lines its scan has left make them up together,  *)
(* and that no scan but the latest counts. The relay's own steps are        *)
(* functions of a relay: a lemma for each says what it keeps of Good, then  *)
(* one for each action that IInv holds after it.                            *)
(*                                                                          *)
(* The second half is about RowEffects, where pushes move that relay: every *)
(* step there is a step of the relay or drops it (EffectsMoves), so IInv    *)
(* goes on holding. The push that is out and the rows behind it are all     *)
(* that is still to come (QueueInOrder), and what was folded counts as read *)
(* (RelayKept): rows are pushed in order, and a say is spoken once.         *)
(***************************************************************************)
EXTENDS RowEffects, SequenceTheorems, TLAPS

(* The relay reads the file that is there, and its lines.                  *)
At(r) == FileOf(r) # None /\ FileOf(r).id = r.seen
Lines(r) == FileOf(r).lines

(* Where a reading stands: within the file it reads, if that is there.     *)
Base(r) ==
  /\ r \in Relay
  /\ r.seen # None => r.seen <= made
  /\ r.seen = None => r.end = 0
  /\ r.file = None => r.seen = None /\ r.tab = None
  /\ At(r) => r.end <= Size(FileOf(r))

(* The tab has the lines from where it follows, the folds all the lines.   *)
TabGood(r) ==
  r.tab # None =>
    /\ r.tab.base <= r.end
    /\ r.seen = None => r.tab.got = <<>>
    /\ At(r) => r.tab.got = SubSeq(Lines(r), r.tab.base \div 2 + 1, r.end \div 2)

FoldGood(r) ==
  r.live /\ ~r.catchUp /\ ~r.partial =>
    /\ r.seen = None => r.fold = <<>>
    /\ At(r) => r.fold = SubSeq(Lines(r), 1, r.end \div 2)

Good(r) ==
  /\ Base(r) /\ TabGood(r) /\ FoldGood(r)
  /\ r.catchUp => r.live /\ r.seen # None

(* A catch-up needs no wait, a wait is for rows, and a relay is of use.    *)
Waits(r) ==
  /\ r.catchUp => r.live /\ r.retry = None
  /\ r.retry # None => r.waiting # {}
Timed(r) == Waits(r) /\ (r.live \/ r.tab # None)

Typed ==
  /\ files \in [Paths -> File \cup {None}]
  /\ made \in 0..MaxFiles /\ written \in 0..MaxRows
  /\ cur \in Paths /\ named \in Paths \cup {None}
  /\ gens \in Nat /\ scans \subseteq Scan
  /\ \A p \in Paths : files[p] # None => /\ files[p].id <= made
                                         /\ files[p].torn => written # 0

(* The reading stands at the end of a line.                                *)
AtLine(r) == r.end % 2 = 0

(* Catch-ups are told apart by their number. The latest one's scan is of    *)
(* the file and the end the relay stands at, and has the rest of the folds. *)
Scanning ==
  /\ \A s \in scans : s.gen <= gens
  /\ \A s, t \in scans : s.gen = t.gen => s = t
  /\ relay # None => relay.gen <= gens
  /\ relay # None /\ relay.live =>
       \A s \in scans : s.gen = relay.gen =>
         /\ relay.catchUp
         /\ s.path = relay.file /\ s.end = relay.end
         /\ ~relay.partial =>
              IF s.left = None THEN relay.fold = <<>>
              ELSE At(relay) => relay.fold \o s.left = SubSeq(Lines(relay), 1, relay.end \div 2)

IInv == Typed /\ Scanning /\ (relay # None => Good(relay) /\ AtLine(relay) /\ Timed(relay))

-----------------------------------------------------------------------------
LEMMA SubSeqGrows ==
  ASSUME NEW S, NEW s \in Seq(S), NEW t \in Seq(S), NEW a \in Nat \ {0}, NEW b \in Nat, b <= Len(s)
  PROVE  SubSeq(s \o t, a, b) = SubSeq(s, a, b)
<1>1. CASE b < a
  BY <1>1, SubSeqEmpty
<1>2. CASE a <= b
  BY <1>2, SubSeqOfConcat1
<1> QED
  BY <1>1, <1>2

LEMMA SubSeqJoin ==
  ASSUME NEW S, NEW s \in Seq(S), NEW a \in Nat, NEW b \in Nat, 1 <= a, a <= b + 1, b <= Len(s)
  PROVE  SubSeq(s, a, b) \o SubSeq(s, b + 1, Len(s)) = SubSeq(s, a, Len(s))
<1>1. Len(s) \in Nat
  OBVIOUS
<1>2. a \in 1..Len(s) + 1 /\ b \in a - 1..Len(s) /\ Len(s) \in b..Len(s)
  BY <1>1
<1> QED
  BY <1>2, ConcatAdjacentSubSeq

LEMMA SubSeqIsSeq ==
  ASSUME NEW S, NEW s \in Seq(S), NEW a \in Nat, NEW b \in Nat, b <= Len(s)
  PROVE  SubSeq(s, a + 1, b) \in Seq(S)
<1>1. a + 1 \in Int /\ b \in Int /\ \A i \in a + 1..b : s[i] \in S
  OBVIOUS
<1> QED
  BY <1>1, SubSeqProperties

LEMMA MinOfTwo ==
  ASSUME NEW a \in Nat, NEW b \in Nat
  PROVE  Min({a, b}) = IF a <= b THEN a ELSE b
<1>1. \E x \in {a, b} : \A y \in {a, b} : x <= y
  OBVIOUS
<1>2. Min({a, b}) \in {a, b} /\ \A y \in {a, b} : Min({a, b}) <= y
  BY <1>1 DEF Min
<1> QED
  BY <1>2

LEMMA RowsAreRead == /\ Rows \subseteq Read /\ Rows \subseteq Nat \ {0}
                     /\ \A row \in Rows : RestOf(row) \in Read /\ RestOf(row) \in Int /\ RestOf(row) < 0
                     /\ \A s \in Seq(Rows) : s \in Seq(Read)
  BY RelayAssumption, SeqMonotonic DEF Rows, Read, RestOf

(* What a reading gives is rows and rests of rows.                         *)
LEMMA UuidsAreRows ==
  ASSUME NEW s \in Seq(Read)
  PROVE  Uuids(s) \subseteq Rows
<1>1. ToSet(s) \subseteq Read
  BY DEF ToSet
<1>2. \A x \in Read : (IF x < 0 THEN RestOf(x) ELSE x) \in Rows
  BY RelayAssumption DEF Read, RestOf, Rows
<1> QED
  BY <1>1, <1>2 DEF Uuids

(* The file a relay reads.                                                 *)
LEMMA FileOfTyped ==
  ASSUME Typed, NEW r \in Relay
  PROVE  /\ FileOf(r) \in File \cup {None}
         /\ FileOf(r) # None => /\ FileOf(r) \in File /\ r.file # None /\ FileOf(r).id <= made
                                /\ FileOf(r).id \in 1..MaxFiles /\ FileOf(r).id # None
                                /\ FileOf(r).lines \in Seq(Rows) /\ Len(FileOf(r).lines) \in Nat
                                /\ FileOf(r).torn \in BOOLEAN
                                /\ Size(FileOf(r)) \in {2 * Len(Lines(r)), 2 * Len(Lines(r)) + 1}
         /\ Size(FileOf(r)) \in Nat
         /\ FileOf(r) = None => Size(FileOf(r)) = 0
<1>1. r.file \in Paths \cup {None}
  BY DEF Relay
<1>2. FileOf(r) \in File \cup {None} /\ (FileOf(r) # None => r.file # None /\ FileOf(r).id <= made)
  BY <1>1 DEF FileOf, Typed
<1>3. ASSUME FileOf(r) # None
      PROVE  /\ FileOf(r) \in File /\ FileOf(r).id \in 1..MaxFiles /\ FileOf(r).id # None
             /\ FileOf(r).lines \in Seq(Rows) /\ Len(FileOf(r).lines) \in Nat
             /\ FileOf(r).torn \in BOOLEAN
  BY <1>2, <1>3, NoneAssumption DEF File
<1>4. ASSUME FileOf(r) # None
      PROVE  /\ Size(FileOf(r)) \in Nat
             /\ Size(FileOf(r)) \in {2 * Len(Lines(r)), 2 * Len(Lines(r)) + 1}
  <2> DEFINE n == Len(FileOf(r).lines)
  <2>1. n \in Nat
    BY <1>3, <1>4
  <2>2. Size(FileOf(r)) = 2 * n + (IF FileOf(r).torn THEN 1 ELSE 0)
    BY <1>4 DEF Size
  <2> HIDE DEF n
  <2>3. Size(FileOf(r)) = 2 * n \/ Size(FileOf(r)) = 2 * n + 1
    BY <2>1, <2>2
  <2> QED
    BY <2>1, <2>3 DEF n, Lines
<1>5. FileOf(r) = None => Size(FileOf(r)) = 0
  BY DEF Size
<1> QED
  BY <1>2, <1>3, <1>4, <1>5

-----------------------------------------------------------------------------
(* The fields the invariant is about.                                      *)
SameRead(x, r) ==
  /\ x.file = r.file /\ x.end = r.end /\ x.seen = r.seen /\ x.live = r.live
  /\ x.fold = r.fold /\ x.catchUp = r.catchUp /\ x.partial = r.partial
Same(x, r) == SameRead(x, r) /\ x.tab = r.tab

(* A catch-up was begun on the way to x; the relay came from r to x.       *)
Begun(x) == x.gen = gens + 1 /\ (x.catchUp => x.fold = <<>>)
After(x, r) ==
  /\ x \in Relay /\ Good(x) /\ x.live = r.live /\ x.file = r.file
  /\ r.tab # None => x.tab # None
  /\ \/ Begun(x)
     \/ x.gen = r.gen /\ ~x.catchUp /\ ~r.catchUp
     \/ x.gen = r.gen /\ Same(x, r)

LEMMA SameIsGood ==
  ASSUME NEW r \in Relay, Good(r), NEW x \in Relay, Same(x, r)
  PROVE  Good(x)
<1>1. FileOf(x) = FileOf(r) /\ (At(x) <=> At(r)) /\ Lines(x) = Lines(r)
  BY DEF Same, SameRead, FileOf, At, Lines
<1>2. Base(x) /\ TabGood(x) /\ FoldGood(x)
  BY <1>1 DEF Same, SameRead, Good, Base, TabGood, FoldGood
<1> QED
  BY <1>2 DEF Good, Same, SameRead

LEMMA WaitGood ==
  ASSUME NEW r \in Relay, Good(r)
  PROVE  Good(WaitForRows(r)) /\ Same(WaitForRows(r), r) /\ WaitForRows(r).gen = r.gen
<1>1. r.waiting \in SUBSET Rows
  BY DEF Relay
<1>2. WaitForRows(r) \in Relay /\ Same(WaitForRows(r), r) /\ WaitForRows(r).gen = r.gen
  BY <1>1 DEF WaitForRows, Relay, Same, SameRead
<1> QED
  BY <1>2, SameIsGood

(* A tab that is told the size follows from there.                         *)
LEMMA SizeToldGood ==
  ASSUME NEW r \in Relay, NEW size \in Nat
  PROVE  /\ SentSize(r.tab, size) \in Tab \cup {None}
         /\ SentSize(r.tab, size) # None => SentSize(r.tab, size).base = size
                                            /\ SentSize(r.tab, size).got = <<>>
         /\ r.tab = None <=> SentSize(r.tab, size) = None
<1>1. [base |-> size, got |-> <<>>] \in Tab
  <2>1. <<>> \in Seq(Read)
    OBVIOUS
  <2> QED
    BY <2>1 DEF Tab
<1> QED
  BY <1>1, NoneAssumption DEF SentSize

(* The file was replaced: the reading stands at the new one's end.         *)
LEMMA StartOverGood ==
  ASSUME Typed, NEW r \in Relay, Good(r), ~r.catchUp, FileOf(r) # None
  PROVE  LET x == StartOver(r)
         IN  /\ x \in Relay /\ Good(x) /\ x.file = r.file /\ x.live = r.live
             /\ r.tab # None => x.tab # None
             /\ \/ x.gen = r.gen /\ ~x.catchUp
                \/ x.gen = gens + 1 /\ x.fold = <<>>
<1> DEFINE f == FileOf(r)
           x == StartOver(r)
           tab == SentSize(r.tab, Size(f))
<1>1. /\ f \in File /\ f.id <= made /\ f.id \in 1..MaxFiles /\ f.id # None /\ r.file # None
      /\ Size(f) \in Nat
  BY FileOfTyped
<1>2. /\ tab \in Tab \cup {None} /\ (r.tab # None => tab # None)
      /\ tab # None => tab.base = Size(f) /\ tab.got = <<>>
  BY <1>1, SizeToldGood
<1>3. gens \in Nat
  BY DEF Typed
<1> HIDE DEF f, tab
<1>4. /\ x \in Relay /\ x.file = r.file /\ x.live = r.live
      /\ x.seen = f.id /\ x.end = Size(f) /\ x.tab = tab
      /\ ~r.live => x.gen = r.gen /\ ~x.catchUp
      /\ r.live => x.gen = gens + 1 /\ x.fold = <<>> /\ (x.catchUp <=> Size(f) > 0)
  <2>1. CASE ~r.live
    BY <1>1, <1>2, <1>3, <2>1 DEF StartOver, Relay, f, tab
  <2>2. CASE r.live
    <3> DEFINE over == [r EXCEPT !.seen = f.id, !.end = Size(f), !.waiting = {}, !.read = {}, !.tab = tab]
               far == Size(f) > 0
    <3>1. over \in Relay /\ over.seen = f.id /\ over.end = Size(f) /\ over.tab = tab
          /\ over.file = r.file /\ over.live = r.live
      BY <1>1, <1>2 DEF Relay
    <3>2. x = [over EXCEPT !.fold = <<>>, !.retry = None, !.gen = gens + 1,
                           !.partial = FALSE, !.catchUp = far]
      BY <2>2 DEF StartOver, f, tab
    <3>3. far \in BOOLEAN
      OBVIOUS
    <3> HIDE DEF over, far, x
    <3>4. <<>> \in Seq(Read) /\ gens + 1 \in Nat /\ None \in (SUBSET Rows) \cup {None}
      BY <1>3
    <3>5. x \in Relay
      BY <3>1, <3>2, <3>3, <3>4 DEF Relay
    <3>6. /\ x.file = over.file /\ x.live = over.live /\ x.seen = over.seen /\ x.end = over.end
          /\ x.tab = over.tab /\ x.gen = gens + 1 /\ x.fold = <<>> /\ x.catchUp = far
      BY <3>1, <3>2 DEF Relay
    <3> QED
      BY <2>2, <3>1, <3>5, <3>6 DEF far
  <2> QED
    BY <2>1, <2>2
<1> HIDE DEF x
<1>5. FileOf(x) = f
  BY <1>4 DEF FileOf, f
<1>6. Base(x)
  BY <1>1, <1>4, <1>5 DEF Base
<1>7. TabGood(x)
  <2> SUFFICES ASSUME x.tab # None
               PROVE  /\ x.tab.base <= x.end /\ x.tab.got = <<>>
                      /\ SubSeq(Lines(x), x.tab.base \div 2 + 1, x.end \div 2) = <<>>
    BY DEF TabGood
  <2>1. x.tab.base = Size(f) /\ x.end = Size(f) /\ x.tab.got = <<>>
    BY <1>2, <1>4
  <2>2. SubSeq(Lines(x), Size(f) \div 2 + 1, Size(f) \div 2) = <<>>
    BY <1>1, SubSeqEmpty
  <2> QED
    BY <1>1, <2>1, <2>2
<1>8. FoldGood(x) /\ (x.catchUp => x.live /\ x.seen # None)
  <2>1. SubSeq(Lines(x), 1, 0) = <<>>
    BY SubSeqEmpty
  <2>2. x.live /\ ~x.catchUp => x.end = 0 /\ x.fold = <<>> /\ x.end \div 2 = 0
    BY <1>1, <1>4
  <2> QED
    BY <1>1, <1>4, <2>1, <2>2 DEF FoldGood
<1> QED
  BY <1>2, <1>4, <1>6, <1>7, <1>8 DEF Good, x

(* The lines from where the reading stands go behind those read.           *)
LEMMA ReadLinesGood ==
  ASSUME Typed, NEW r \in Relay, Good(r), ~r.catchUp, AtLine(r), FileOf(r) # None, ~Replaced(r),
         NEW ok \in BOOLEAN
  PROVE  LET x == ReadLines(r, ok)
         IN  x \in Relay /\ Good(x) /\ x.file = r.file /\ x.live = r.live /\ x.gen = r.gen /\ ~x.catchUp
             /\ AtLine(x) /\ (r.tab # None => x.tab # None)
<1> DEFINE f == FileOf(r)
           x == ReadLines(r, ok)
           new == LinesFrom(f, r.end)
           at == r.end \div 2
           n == Len(f.lines)
<1>1. /\ f \in File /\ f.id <= made /\ f.id \in 1..MaxFiles /\ f.id # None /\ r.file # None
      /\ f.lines \in Seq(Rows) /\ n \in Nat
      /\ Size(f) \in {2 * n, 2 * n + 1}
  BY FileOfTyped DEF Lines
<1>2. r.end \in Nat /\ r.end = 2 * at /\ at \in Nat /\ at <= n
  <2>1. r.end \in Nat /\ r.end <= Size(f)
    BY <1>1 DEF Replaced, Relay
  <2> QED
    BY <1>1, <2>1 DEF AtLine
<1>3. new = SubSeq(f.lines, at + 1, n) /\ new \in Seq(Rows) /\ new \in Seq(Read)
  <2>1. r.end % 2 # 1
    BY DEF AtLine
  <2>2. new = SubSeq(f.lines, at + 1, n)
    BY <2>1 DEF LinesFrom
  <2>3. SubSeq(f.lines, at + 1, n) \in Seq(Rows)
    BY <1>1, <1>2, SubSeqIsSeq
  <2> QED
    BY <2>2, <2>3, RowsAreRead
<1>4. new = <<>> => at = n
  <2>1. at < n => Len(SubSeq(f.lines, at + 1, n)) > 0
    BY <1>1, <1>2, SubSeqProperties
  <2> QED
    BY <1>1, <1>2, <1>3, <2>1
<1>5. Uuids(new) \subseteq Rows
  BY <1>3, UuidsAreRows
<1>6. /\ r.seen = None => r.end = 0 /\ (r.tab # None => r.tab.got = <<>> /\ r.tab.base = 0)
      /\ r.seen # None => At(r)
  BY <1>2 DEF Replaced, At, Good, Base, TabGood, Relay, Tab
(* Wherever the relay read before, it has the lines up to where it stands. *)
<1>7. /\ r.tab # None => /\ r.tab.base \in Nat /\ r.tab.base <= r.end /\ r.tab.got \in Seq(Read)
                         /\ r.tab.got = SubSeq(f.lines, r.tab.base \div 2 + 1, at)
      /\ r.live /\ ~r.partial => r.fold = SubSeq(f.lines, 1, at)
  <2>1. r.tab # None => r.tab.base \in Nat /\ r.tab.base <= r.end /\ r.tab.got \in Seq(Read)
    BY NoneAssumption DEF Good, TabGood, Relay, Tab
  <2>2. SubSeq(f.lines, 1, 0) = <<>> /\ SubSeq(f.lines, 0 \div 2 + 1, 0) = <<>>
    BY SubSeqEmpty
  <2>3. CASE r.seen = None
    <3>1. r.end = 0 /\ at = 0
      BY <1>2, <1>6, <2>3
    <3>2. r.tab # None => r.tab.got = <<>> /\ r.tab.base \div 2 + 1 = 0 \div 2 + 1
      BY <1>6, <2>3
    <3>3. r.live /\ ~r.partial => r.fold = <<>>
      BY <2>3 DEF Good, FoldGood
    <3> HIDE DEF at, f
    <3> QED
      BY <2>1, <2>2, <3>1, <3>2, <3>3
  <2>4. CASE At(r)
    BY <1>2, <2>1, <2>4 DEF Good, FoldGood, TabGood, Lines
  <2> QED
    BY <1>6, <2>3, <2>4
<1>8. r.live \in BOOLEAN /\ r.partial \in BOOLEAN /\ r.fold \in Seq(Read) /\ r.tab \in Tab \cup {None}
  BY DEF Relay
<1> HIDE DEF f, new, at, n
<1>9. /\ x \in Relay /\ x.file = r.file /\ x.live = r.live /\ x.gen = r.gen /\ ~x.catchUp
      /\ r.tab # None => x.tab # None
      /\ x.seen = f.id /\ x.partial = r.partial
  <2>1. Sent(r.tab, new) \in Tab \cup {None} /\ (r.tab # None => Sent(r.tab, new) # None)
    <3>1. CASE r.tab = None
      BY <3>1 DEF Sent
    <3>2. CASE r.tab \in Tab
      <4>1. r.tab.got \o new \in Seq(Read)
        BY <1>3, <3>2 DEF Tab
      <4>2. [r.tab EXCEPT !.got = @ \o new] \in Tab
        BY <3>2, <4>1 DEF Tab
      <4> QED
        BY <3>2, <4>2, NoneAssumption DEF Sent
    <3> QED
      BY <1>8, <3>1, <3>2
  <2>2. (IF r.live THEN r.fold \o new ELSE r.fold) \in Seq(Read)
    BY <1>3, <1>8
  <2>3. r.waiting \ Uuids(new) \in SUBSET Rows /\ r.read \cup Uuids(new) \in SUBSET Rows
    BY <1>5 DEF Relay
  <2>4. 2 * Len(f.lines) \in Nat
    BY <1>1 DEF n
  <2> QED
    BY <1>1, <1>8, <2>1, <2>2, <2>3, <2>4 DEF ReadLines, Relay, f, new
<1>10. CASE ~ok \/ new = <<>>
  <2>1. x.end = r.end /\ x.tab = r.tab /\ x.fold = r.fold
    BY <1>10 DEF ReadLines, Relay, f, new
  <2>2. FileOf(x) = f /\ Lines(x) = f.lines
    BY <1>9 DEF FileOf, f, Lines
  <2> HIDE DEF x
  <2>3. Base(x)
    BY <1>1, <1>2, <1>9, <2>1, <2>2 DEF Base
  <2>4. TabGood(x) /\ FoldGood(x)
    BY <1>1, <1>2, <1>7, <1>9, <2>1, <2>2 DEF TabGood, FoldGood
  <2> QED
    BY <1>9, <2>1, <2>3, <2>4 DEF Good, AtLine, x
<1>11. CASE ok /\ new # <<>>
  <2>1. /\ x.end = 2 * n /\ x.tab = Sent(r.tab, new)
        /\ x.fold = IF r.live THEN r.fold \o new ELSE r.fold
    BY <1>11 DEF ReadLines, Relay, f, new, n
  <2>2. FileOf(x) = f /\ Lines(x) = f.lines
    BY <1>9 DEF FileOf, f, Lines
  <2> HIDE DEF x
  <2>3. Base(x)
    BY <1>1, <1>2, <1>9, <2>1, <2>2 DEF Base
  <2>4. x.end \div 2 = n
    BY <1>1, <2>1
  <2>5. x.tab # None => /\ x.tab.base <= x.end
                        /\ x.tab.got = SubSeq(f.lines, x.tab.base \div 2 + 1, n)
    <3> SUFFICES ASSUME x.tab # None
                 PROVE  /\ x.tab.base <= x.end
                        /\ x.tab.got = SubSeq(f.lines, x.tab.base \div 2 + 1, n)
      OBVIOUS
    <3>1. r.tab # None /\ r.tab \in Tab
      BY <1>8, <2>1 DEF Sent
    <3>2. x.tab.base = r.tab.base /\ x.tab.got = r.tab.got \o new
      BY <2>1, <3>1 DEF Sent, Tab
    <3> DEFINE from == r.tab.base \div 2
    <3>3. from \in Nat /\ from <= at
      BY <1>2, <1>7, <3>1
    <3>4. SubSeq(f.lines, from + 1, at) \o SubSeq(f.lines, at + 1, n) = SubSeq(f.lines, from + 1, n)
      <4> HIDE DEF from
      <4>1. at <= Len(f.lines) /\ from + 1 \in Nat /\ 1 <= from + 1 /\ from + 1 <= at + 1
        BY <1>2, <3>3 DEF n
      <4> QED
        BY <1>1, <1>2, <3>3, <4>1, SubSeqJoin DEF n
    <3> QED
      <4>1. r.tab.got = SubSeq(f.lines, from + 1, at)
        BY <1>7, <3>1
      <4>2. x.tab.got = SubSeq(f.lines, from + 1, n)
        BY <1>3, <3>2, <3>4, <4>1
      <4>3. x.tab.base <= x.end
        BY <1>1, <1>2, <1>7, <2>1, <3>1, <3>2
      <4> QED
        BY <3>2, <4>2, <4>3
  <2>6. x.live /\ ~x.partial => x.fold = SubSeq(f.lines, 1, n)
    <3>1. at <= Len(f.lines) /\ 1 \in Nat /\ 1 <= at + 1
      BY <1>2 DEF n
    <3>2. SubSeq(f.lines, 1, at) \o SubSeq(f.lines, at + 1, n) = SubSeq(f.lines, 1, n)
      <4> DEFINE first == 1
      <4>1. first \in Nat /\ 1 <= first /\ first <= at + 1
        BY <3>1
      <4> HIDE DEF first
      <4>2. SubSeq(f.lines, first, at) \o SubSeq(f.lines, at + 1, n) = SubSeq(f.lines, first, n)
        BY <1>1, <1>2, <3>1, <4>1, SubSeqJoin DEF n
      <4> QED
        BY <4>2 DEF first
    <3>3. SubSeq(f.lines, 1, at) \o new = SubSeq(f.lines, 1, n)
      BY <1>3, <3>2
    <3> QED
      BY <1>7, <1>9, <2>1, <3>3
  <2>7. TabGood(x) /\ FoldGood(x)
    BY <1>1, <1>9, <2>2, <2>4, <2>5, <2>6 DEF TabGood, FoldGood
  <2> QED
    BY <1>1, <1>9, <2>1, <2>3, <2>7 DEF Good, AtLine, x
<1> QED
  BY <1>10, <1>11

LEMMA AfterSame ==
  ASSUME NEW r \in Relay, NEW y, After(y, r), NEW x \in Relay, Same(x, y), x.gen = y.gen
  PROVE  After(x, r)
<1>1. Good(x)
  BY SameIsGood DEF After
<1> QED
  BY <1>1 DEF After, Begun, Same, SameRead

LEMMA ReadOnGood ==
  ASSUME Typed, NEW r \in Relay, Good(r), AtLine(r), NEW ok \in BOOLEAN
  PROVE  After(ReadOn(r, ok), r)
<1>1. CASE r.catchUp \/ FileOf(r) = None
  BY <1>1 DEF ReadOn, After, Same, SameRead
<1>2. CASE ~r.catchUp /\ FileOf(r) # None /\ Replaced(r)
  <2>1. ReadOn(r, ok) = StartOver(r)
    BY <1>2 DEF ReadOn
  <2> QED
    BY <1>2, <2>1, StartOverGood DEF After, Begun
<1>3. CASE ~r.catchUp /\ FileOf(r) # None /\ ~Replaced(r)
  <2>1. ReadOn(r, ok) = ReadLines(r, ok)
    BY <1>3 DEF ReadOn
  <2> QED
    BY <1>3, <2>1, ReadLinesGood DEF After
<1> QED
  BY <1>1, <1>2, <1>3

(* A start over ends the wait it is not made for.                          *)
LEMMA ReadOnClears ==
  ASSUME NEW r \in Relay, ~r.catchUp, NEW ok \in BOOLEAN
  PROVE  LET x == ReadOn(r, ok)
         IN  x.catchUp => x.live /\ x.retry = None /\ x.waiting = {}
<1>1. CASE FileOf(r) = None
  BY <1>1 DEF ReadOn
<1>2. CASE FileOf(r) # None /\ Replaced(r)
  <2>1. ReadOn(r, ok) = StartOver(r)
    BY <1>2 DEF ReadOn
  <2>2. CASE ~r.live
    BY <2>1, <2>2 DEF StartOver, Relay
  <2>3. CASE r.live
    BY <2>1, <2>3 DEF StartOver, Relay
  <2> QED
    BY <2>2, <2>3
<1>3. CASE FileOf(r) # None /\ ~Replaced(r)
  <2>1. ReadOn(r, ok) = ReadLines(r, ok)
    BY <1>3 DEF ReadOn
  <2>2. ~ReadLines(r, ok).catchUp
    BY DEF ReadLines, Relay
  <2> QED
    BY <2>1, <2>2
<1> QED
  BY <1>1, <1>2, <1>3

LEMMA WaitTimed ==
  ASSUME NEW y \in Relay, y.live \/ y.tab # None,
         y.catchUp => y.live /\ y.retry = None /\ y.waiting = {}
  PROVE  Timed(WaitForRows(y))
<1>1. CASE y.waiting = {}
  BY <1>1 DEF WaitForRows, Timed, Waits, Relay
<1>2. CASE y.waiting # {} /\ y.retry # None
  BY <1>2 DEF WaitForRows, Timed, Waits, Relay
<1>3. CASE y.waiting # {} /\ y.retry = None
  BY <1>3 DEF WaitForRows, Timed, Waits, Relay
<1> QED
  BY <1>1, <1>2, <1>3

(* A catch-up that gave all its lines has landed.                          *)
LEMMA LandedGood ==
  ASSUME Typed, NEW r \in Relay, Base(r), TabGood(r), AtLine(r), NEW ok \in BOOLEAN,
         r.live /\ ~r.partial => /\ r.seen = None => r.fold = <<>>
                                 /\ At(r) => r.fold = SubSeq(Lines(r), 1, r.end \div 2)
  PROVE  LET x == Landed(r, ok)
         IN  /\ x \in Relay /\ Good(x) /\ x.live = r.live /\ x.file = r.file
             /\ r.tab # None => x.tab # None
             /\ r.live \/ r.tab # None => Timed(x)
             /\ Begun(x) \/ (x.gen = r.gen /\ ~x.catchUp)
<1> DEFINE y == [r EXCEPT !.catchUp = FALSE, !.waiting = @ \ r.read]
           z == ReadOn(y, ok)
<1>1. /\ y \in Relay /\ ~y.catchUp /\ y.file = r.file /\ y.end = r.end /\ y.seen = r.seen
      /\ y.live = r.live /\ y.fold = r.fold /\ y.partial = r.partial /\ y.tab = r.tab
      /\ y.gen = r.gen
  BY DEF Relay
<1>2. Landed(r, ok) = WaitForRows(z)
  BY DEF Landed
<1> HIDE DEF y
<1>3. FileOf(y) = FileOf(r) /\ (At(y) <=> At(r)) /\ Lines(y) = Lines(r)
  BY <1>1 DEF FileOf, At, Lines
<1>4. Good(y) /\ AtLine(y)
  BY <1>1, <1>3 DEF Good, Base, TabGood, FoldGood, AtLine
<1>5. After(z, y)
  BY <1>1, <1>4, ReadOnGood
<1> HIDE DEF z
<1>6. z \in Relay /\ Good(z)
  BY <1>5 DEF After
<1>7. WaitForRows(z) \in Relay /\ Same(WaitForRows(z), z) /\ WaitForRows(z).gen = z.gen
  BY <1>6, WaitGood DEF Good, Base
<1>8. After(WaitForRows(z), y)
  BY <1>1, <1>5, <1>7, AfterSame
<1> DEFINE x == WaitForRows(z)
<1>9. /\ x \in Relay /\ Good(x) /\ x.live = r.live /\ x.file = r.file
      /\ r.tab # None => x.tab # None
      /\ Begun(x) \/ (x.gen = r.gen /\ ~x.catchUp)
  <2>1. After(x, y)
    BY <1>8
  <2> HIDE DEF x
  <2> QED
    BY <1>1, <2>1 DEF After, Same, SameRead
<1>10. r.live \/ r.tab # None => Timed(x)
  <2>1. z.catchUp => z.live /\ z.retry = None /\ z.waiting = {}
    BY <1>1, ReadOnClears DEF z
  <2>2. r.live \/ r.tab # None => z.live \/ z.tab # None
    BY <1>1, <1>5 DEF After
  <2> QED
    BY <1>6, <2>1, <2>2, WaitTimed
<1> QED
  BY <1>2, <1>9, <1>10

(* A catch-up begins anew, wherever the reading stands.                    *)
LEMMA StartCatchUpGood ==
  ASSUME Typed, NEW r \in Relay, Base(r), TabGood(r), ~r.live => ~r.catchUp, NEW ok \in BOOLEAN
  PROVE  LET x == StartCatchUp(r, ok)
         IN  /\ x \in Relay /\ Good(x) /\ x.live = r.live /\ x.file = r.file
             /\ r.tab # None => x.tab # None
             /\ ~r.live => x = r
             /\ r.live => Begun(x) /\ Timed(x)
<1> DEFINE x == StartCatchUp(r, ok)
           started == [r EXCEPT !.fold = <<>>, !.retry = None, !.gen = gens + 1, !.partial = FALSE]
<1>1. CASE ~r.live
  BY <1>1 DEF StartCatchUp, Good, FoldGood
<1>2. /\ started \in Relay /\ started.fold = <<>> /\ started.gen = gens + 1
      /\ started.file = r.file /\ started.end = r.end /\ started.seen = r.seen
      /\ started.live = r.live /\ started.tab = r.tab /\ ~started.partial
      /\ started.retry = None
  <2>1. <<>> \in Seq(Read) /\ gens + 1 \in Nat
    BY DEF Typed
  <2> QED
    BY <2>1 DEF Relay
<1> HIDE DEF started
<1>3. FileOf(started) = FileOf(r) /\ (At(started) <=> At(r)) /\ Lines(started) = Lines(r)
  BY <1>2 DEF FileOf, At, Lines
<1>4. Base(started) /\ TabGood(started)
  BY <1>2, <1>3 DEF Base, TabGood
<1>5. CASE r.live /\ (r.file = None \/ r.end = 0)
  <2>1. x = Landed(started, ok)
    BY <1>5 DEF StartCatchUp, started
  <2>2. started.end = 0
    BY <1>2, <1>5 DEF Base
  <2>3. AtLine(started) /\ started.fold = SubSeq(Lines(started), 1, started.end \div 2)
    <3>1. SubSeq(Lines(started), 1, 0) = <<>>
      BY SubSeqEmpty
    <3> QED
      BY <1>2, <2>2, <3>1 DEF AtLine
  <2>4. /\ x \in Relay /\ Good(x) /\ x.live = started.live /\ x.file = started.file
        /\ started.tab # None => x.tab # None
        /\ started.live \/ started.tab # None => Timed(x)
        /\ Begun(x) \/ (x.gen = started.gen /\ ~x.catchUp)
    BY <1>2, <1>4, <2>1, <2>3, LandedGood
  <2> QED
    BY <1>2, <1>5, <2>4 DEF Begun
<1>6. CASE r.live /\ ~(r.file = None \/ r.end = 0)
  <2>1. x = [started EXCEPT !.catchUp = TRUE]
    BY <1>6 DEF StartCatchUp, started
  <2>2. /\ x \in Relay /\ x.catchUp /\ x.fold = <<>> /\ x.gen = gens + 1 /\ x.retry = None
        /\ x.file = r.file /\ x.end = r.end /\ x.seen = r.seen /\ x.live = r.live /\ x.tab = r.tab
    BY <1>2, <2>1 DEF Relay
  <2> HIDE DEF x
  <2>3. FileOf(x) = FileOf(r) /\ (At(x) <=> At(r)) /\ Lines(x) = Lines(r)
    BY <2>2 DEF FileOf, At, Lines
  <2>4. Good(x)
    BY <1>6, <2>2, <2>3 DEF Good, Base, TabGood, FoldGood
  <2> QED
    BY <1>6, <2>2, <2>4 DEF Begun, Timed, Waits, x
<1> QED
  BY <1>1, <1>5, <1>6

-----------------------------------------------------------------------------
(* What the relay may become while the scans in staying go on: nothing, a  *)
(* relay whose new catch-up is its own, or one whose scan is not disturbed. *)
MayBecome(x, staying) ==
  \/ x = None
  \/ /\ x \in Relay /\ Good(x) /\ Timed(x)
     /\ \/ Begun(x)
        \/ /\ x.gen <= gens
           /\ \/ ~x.live
              \/ \A s \in staying : s.gen # x.gen
              \/ /\ relay # None /\ relay.live
                 /\ x.gen = relay.gen /\ SameRead(x, relay)

LEMMA BecomesKeeps ==
  ASSUME IInv, "cut" \notin Faults, NEW staying, staying \subseteq scans,
         NEW x, MayBecome(x, staying), Becomes(x, staying),
         UNCHANGED worldVars, named' \in Paths \cup {None}
  PROVE  IInv'
<1>1. files' = files /\ made' = made /\ written' = written /\ cur' = cur /\ relay' = x
  BY DEF worldVars, Becomes
<1>2. Typed /\ Scanning /\ gens \in Nat /\ scans \subseteq Scan
  BY DEF IInv, Typed
<1>3. relay' # None => Good(relay)' /\ AtLine(relay)' /\ Timed(relay)'
  <2>1. ASSUME x # None
        PROVE  Good(x) /\ AtLine(x) /\ Timed(x)
    BY <2>1 DEF MayBecome, Becomes, AtLine
  <2> QED
    BY <1>1, <2>1 DEF Timed, Waits, Good, Base, TabGood, FoldGood, At, Lines, FileOf, AtLine
<1>4. CASE x # None /\ x.gen > gens
  <2>1. x \in Relay /\ Good(x) /\ x.gen = gens + 1 /\ (x.catchUp => x.fold = <<>>)
    BY <1>2, <1>4 DEF MayBecome, Begun, Relay
  <2> DEFINE new == [gen |-> x.gen, path |-> x.file, end |-> x.end, left |-> None]
  <2>2. gens' = x.gen /\ scans' = staying \cup {new : y \in {z \in {1} : x.catchUp}}
    BY <1>4 DEF Becomes
  <2>3. /\ ~x.catchUp => scans' = staying
        /\ x.catchUp => scans' = staying \cup {new}
    <3> HIDE DEF new
    <3> QED
      BY <2>2
  <2>4. x.catchUp => x.live /\ x.file \in Paths
    BY <2>1 DEF Good, Base, Relay
  <2>5. new.gen = x.gen /\ new.path = x.file /\ new.end = x.end /\ new.left = None
    OBVIOUS
  <2>6. x.catchUp => new \in Scan
    BY <2>1, <2>4 DEF Scan, Relay
  <2> HIDE DEF new
  <2>7. \A s \in staying : s.gen \in Nat /\ s.gen <= gens
    BY <1>2 DEF Scanning, Scan
  <2>8. Typed'
    BY <1>1, <1>2, <2>1, <2>2, <2>3, <2>6 DEF Typed
  <2>9. \A s \in scans' : s \in staying \/ (x.catchUp /\ s = new)
    BY <2>3
  <2>10. \A s, t \in scans' : s.gen = t.gen => s = t
    BY <1>2, <2>1, <2>5, <2>7, <2>9 DEF Scanning
  <2>11. \A s \in scans' : s.gen <= gens' /\ (s.gen = x.gen => x.catchUp /\ s = new)
    BY <1>2, <2>1, <2>2, <2>5, <2>7, <2>9
  <2>12. Scanning'
    <3>1. \A s \in scans' : s.gen = relay'.gen =>
            /\ relay'.catchUp /\ s.path = relay'.file /\ s.end = relay'.end
            /\ s.left = None /\ relay'.fold = <<>>
      BY <1>1, <2>1, <2>5, <2>11
    <3>2. relay'.gen <= gens'
      BY <1>1, <1>2, <2>1, <2>2
    <3> QED
      BY <2>10, <2>11, <3>1, <3>2 DEF Scanning
  <2> QED
    BY <1>3, <2>8, <2>12 DEF IInv
<1>5. CASE ~(x # None /\ x.gen > gens)
  <2>1. gens' = gens /\ scans' = staying
    BY <1>5 DEF Becomes
  <2>2. Typed'
    BY <1>1, <1>2, <2>1 DEF Typed
  <2>3. \A s \in scans' : s.gen <= gens'
    BY <1>2, <2>1 DEF Scanning
  <2>4. \A s, t \in scans' : s.gen = t.gen => s = t
    BY <1>2, <2>1 DEF Scanning
  <2>5. x # None => x.gen <= gens
    BY <1>2, <1>5 DEF MayBecome, Begun, Relay
  <2>6. ASSUME x # None, x.live, NEW s \in staying, s.gen = x.gen
        PROVE  /\ x.catchUp
               /\ s.path = x.file /\ s.end = x.end
               /\ ~x.partial =>
                    IF s.left = None THEN x.fold = <<>>
                    ELSE At(x) => x.fold \o s.left = SubSeq(Lines(x), 1, x.end \div 2)
    <3>1. relay # None /\ relay.live /\ x.gen = relay.gen /\ SameRead(x, relay)
      BY <1>2, <1>5, <2>6 DEF MayBecome, Begun, Relay
    <3>2. (At(x) <=> At(relay)) /\ Lines(x) = Lines(relay)
      BY <3>1 DEF SameRead, At, Lines, FileOf
    <3>3. s \in scans /\ s.gen = relay.gen
      BY <2>6, <3>1
    <3> QED
      BY <1>2, <2>6, <3>1, <3>2, <3>3 DEF Scanning, SameRead
  <2>7. Scanning'
    BY <1>1, <2>1, <2>3, <2>4, <2>5, <2>6 DEF Scanning, At, Lines, FileOf
  <2> QED
    BY <1>3, <2>2, <2>7 DEF IInv
<1> QED
  BY <1>4, <1>5

(* What follows from the relay as it is may be what it becomes.            *)
LEMMA AfterMayBecome ==
  ASSUME IInv, relay # None, NEW r \in Relay, r.live = relay.live, r.catchUp = relay.catchUp,
         r.gen = relay.gen, r.catchUp => SameRead(r, relay),
         NEW x, After(x, r), Timed(x)
  PROVE  MayBecome(x, scans)
<1>1. x \in Relay /\ Good(x) /\ x.live = relay.live
  BY DEF After
<1>2. relay.gen <= gens
  BY DEF IInv, Scanning
<1>3. relay.live /\ ~relay.catchUp => \A s \in scans : s.gen # relay.gen
  BY DEF IInv, Scanning
<1>4. CASE Begun(x)
  BY <1>1, <1>4 DEF MayBecome
<1>5. CASE x.gen = r.gen /\ ~r.catchUp
  BY <1>1, <1>2, <1>3, <1>5 DEF MayBecome
<1>6. CASE x.gen = r.gen /\ r.catchUp /\ Same(x, r)
  BY <1>1, <1>2, <1>6 DEF MayBecome, Same, SameRead
<1> QED
  BY <1>4, <1>5, <1>6 DEF After

-----------------------------------------------------------------------------
(* A relay that is opened reads from the end of the file it finds.         *)
LEMMA FileThere ==
  ASSUME Typed, NEW path \in Paths
  PROVE  /\ Size(files[path]) \in Nat /\ IdOf(files[path]) \in 1..MaxFiles \cup {None}
         /\ IdOf(files[path]) # None => IdOf(files[path]) <= made
         /\ IdOf(files[path]) = None => Size(files[path]) = 0
<1>1. CASE files[path] = None
  BY <1>1 DEF Size, IdOf
<1>2. CASE files[path] # None
  <2>1. files[path] \in File /\ files[path].id <= made
    BY <1>2 DEF Typed
  <2>2. files[path].id \in 1..MaxFiles /\ Len(files[path].lines) \in Nat
    BY <2>1 DEF File
  <2>3. IdOf(files[path]) = files[path].id /\ Size(files[path]) \in Nat
    <3> DEFINE n == Len(files[path].lines)
    <3>1. Size(files[path]) = 2 * n + (IF files[path].torn THEN 1 ELSE 0)
      BY <1>2 DEF Size
    <3>2. n \in Nat
      BY <2>2
    <3> HIDE DEF n
    <3>3. Size(files[path]) = 2 * n \/ Size(files[path]) = 2 * n + 1
      BY <3>1, <3>2
    <3> QED
      BY <1>2, <3>2, <3>3 DEF IdOf
  <2>4. files[path].id # None
    BY <2>2, NoneAssumption, RelayAssumption
  <2> QED
    BY <2>1, <2>2, <2>3, <2>4
<1> QED
  BY <1>1, <1>2

LEMMA RelayOfGood ==
  ASSUME IInv
  PROVE  /\ RelayOf \in Relay /\ Good(RelayOf) /\ RelayOf.gen <= gens
         /\ relay # None => RelayOf = relay
         /\ relay = None => ~RelayOf.live
         /\ Waits(RelayOf)
<1>1. CASE relay # None
  BY <1>1 DEF RelayOf, IInv, Good, Base, Scanning, Timed
<1>2. CASE relay = None
  <2> DEFINE x == OpenRelay
             f == IF named = None THEN None ELSE files[named]
  <2>1. RelayOf = x
    BY <1>2 DEF RelayOf
  <2>2. Typed /\ gens \in Nat /\ named \in Paths \cup {None}
    BY DEF IInv, Typed
  <2>3. /\ Size(f) \in Nat /\ IdOf(f) \in 1..MaxFiles \cup {None}
        /\ IdOf(f) # None => IdOf(f) <= made
        /\ IdOf(f) = None => Size(f) = 0
        /\ f = None => Size(f) = 0 /\ IdOf(f) = None
    <3>1. CASE named = None
      BY <3>1 DEF Size, IdOf
    <3>2. CASE named # None
      BY <2>2, <3>2, FileThere DEF Size, IdOf
    <3> QED
      BY <3>1, <3>2
  <2>4. /\ x.file = named /\ x.end = Size(f) /\ x.seen = IdOf(f) /\ ~x.live
        /\ x.tab = None /\ ~x.catchUp /\ x.gen = gens /\ x.retry = None
    BY DEF OpenRelay
  <2>5. x \in Relay
    <3>1. <<>> \in Seq(Read)
      OBVIOUS
    <3> HIDE DEF f
    <3> QED
      BY <2>2, <2>3, <3>1 DEF OpenRelay, Relay, f
  <2> HIDE DEF x
  <2>6. FileOf(x) = f
    BY <2>2, <2>4 DEF FileOf
  <2>7. Base(x)
    <3>1. At(x) => x.end <= Size(FileOf(x))
      BY <2>3, <2>4, <2>6
    <3>2. x.file = None => x.seen = None
      BY <2>3, <2>4
    <3> QED
      BY <2>3, <2>4, <2>5, <3>1, <3>2 DEF Base
  <2>8. Good(x)
    BY <2>4, <2>7 DEF Good, TabGood, FoldGood
  <2> QED
    BY <1>2, <2>1, <2>2, <2>4, <2>5, <2>8 DEF Waits
<1> QED
  BY <1>1, <1>2

LEMMA RetargetGood ==
  ASSUME Typed, NEW r \in Relay, Good(r), NEW path \in Paths, NEW ok \in BOOLEAN
  PROVE  LET x == Retarget(r, path, ok)
         IN  /\ x \in Relay /\ Good(x) /\ x.live = r.live /\ x.file = path
             /\ r.live => Begun(x) /\ Timed(x)
             /\ ~r.live => /\ x.gen = r.gen /\ ~x.catchUp /\ x.retry = None
                           /\ r.tab # None => x.tab # None
<1> DEFINE f == files[path]
           tab == SentSize(r.tab, Size(f))
           y == [r EXCEPT !.retry = None, !.file = path, !.end = Size(f),
                          !.seen = IdOf(f), !.waiting = {}, !.read = {}, !.tab = tab]
<1>1. /\ Size(f) \in Nat /\ IdOf(f) \in 1..MaxFiles \cup {None}
      /\ IdOf(f) # None => IdOf(f) <= made
      /\ IdOf(f) = None => Size(f) = 0
  BY FileThere
<1>2. /\ tab \in Tab \cup {None} /\ (r.tab # None => tab # None)
      /\ tab # None => tab.base = Size(f) /\ tab.got = <<>>
  BY <1>1, SizeToldGood
<1>3. Retarget(r, path, ok) = StartCatchUp(y, ok)
  BY DEF Retarget
<1> HIDE DEF f, tab
<1>4. /\ y \in Relay /\ y.file = path /\ y.end = Size(f) /\ y.seen = IdOf(f) /\ y.tab = tab
      /\ y.live = r.live /\ y.catchUp = r.catchUp /\ y.gen = r.gen /\ y.retry = None
  BY <1>1, <1>2 DEF Relay
<1> HIDE DEF y
<1>5. FileOf(y) = f
  BY <1>4, NoneAssumption DEF FileOf, f
<1>6. Base(y)
  BY <1>1, <1>4, <1>5, NoneAssumption DEF Base
<1>7. TabGood(y)
  <2> SUFFICES ASSUME y.tab # None
               PROVE  /\ y.tab.base <= y.end /\ y.tab.got = <<>>
                      /\ SubSeq(Lines(y), y.tab.base \div 2 + 1, y.end \div 2) = <<>>
    BY DEF TabGood
  <2>1. y.tab.base = Size(f) /\ y.end = Size(f) /\ y.tab.got = <<>>
    BY <1>2, <1>4
  <2>2. SubSeq(Lines(y), Size(f) \div 2 + 1, Size(f) \div 2) = <<>>
    BY <1>1, SubSeqEmpty
  <2> QED
    BY <1>1, <2>1, <2>2
<1>8. ~y.live => ~y.catchUp
  BY <1>4 DEF Good
<1>9. LET x == StartCatchUp(y, ok)
      IN  /\ x \in Relay /\ Good(x) /\ x.live = y.live /\ x.file = y.file
          /\ y.tab # None => x.tab # None
          /\ ~y.live => x = y
          /\ y.live => Begun(x) /\ Timed(x)
  BY <1>4, <1>6, <1>7, <1>8, StartCatchUpGood
<1> QED
  BY <1>2, <1>3, <1>4, <1>8, <1>9

(* A tab comes, following from where the reading stands, or goes.          *)
LEMMA WithTabGood ==
  ASSUME NEW r \in Relay, Good(r), r.file # None
  PROVE  LET x == [r EXCEPT !.tab = [base |-> r.end, got |-> <<>>]]
         IN  /\ x \in Relay /\ Good(x) /\ SameRead(x, r) /\ x.gen = r.gen
             /\ x.tab # None /\ x.waiting = r.waiting /\ x.retry = r.retry
<1> DEFINE x == [r EXCEPT !.tab = [base |-> r.end, got |-> <<>>]]
<1>1. r.end \in Nat /\ [base |-> r.end, got |-> <<>>] \in Tab
  <2>1. <<>> \in Seq(Read)
    OBVIOUS
  <2> QED
    BY <2>1 DEF Relay, Tab
<1>2. /\ x \in Relay /\ SameRead(x, r) /\ x.gen = r.gen
      /\ x.tab.base = r.end /\ x.tab.got = <<>>
      /\ x.tab # None /\ x.waiting = r.waiting /\ x.retry = r.retry
  BY <1>1, NoneAssumption DEF Relay, SameRead
<1> HIDE DEF x
<1>3. FileOf(x) = FileOf(r) /\ (At(x) <=> At(r)) /\ Lines(x) = Lines(r)
  BY <1>2 DEF SameRead, FileOf, At, Lines
<1>4. Base(x) /\ FoldGood(x)
  BY <1>2, <1>3 DEF SameRead, Good, Base, FoldGood
<1>5. TabGood(x)
  <2>1. SubSeq(Lines(x), r.end \div 2 + 1, r.end \div 2) = <<>>
    BY <1>1, SubSeqEmpty
  <2> QED
    BY <1>1, <1>2, <2>1 DEF TabGood, SameRead
<1> QED
  BY <1>2, <1>4, <1>5 DEF Good, SameRead, x

LEMMA WithoutTabGood ==
  ASSUME NEW r \in Relay, Good(r)
  PROVE  LET x == [r EXCEPT !.tab = None]
         IN  /\ x \in Relay /\ Good(x) /\ SameRead(x, r) /\ x.gen = r.gen
             /\ x.waiting = r.waiting /\ x.retry = r.retry
<1> DEFINE x == [r EXCEPT !.tab = None]
<1>1. /\ x \in Relay /\ SameRead(x, r) /\ x.gen = r.gen /\ x.tab = None
      /\ x.waiting = r.waiting /\ x.retry = r.retry
  BY DEF Relay, SameRead
<1> HIDE DEF x
<1>2. FileOf(x) = FileOf(r) /\ (At(x) <=> At(r)) /\ Lines(x) = Lines(r)
  BY <1>1 DEF SameRead, FileOf, At, Lines
<1>3. Base(x) /\ FoldGood(x) /\ TabGood(x)
  BY <1>1, <1>2 DEF SameRead, Good, Base, FoldGood, TabGood
<1> QED
  BY <1>1, <1>3 DEF Good, SameRead, x

-----------------------------------------------------------------------------
(* The steps of the relay.                                                 *)

LEMMA NamedTyped == IInv => named \in Paths \cup {None} /\ cur \in Paths
  BY DEF IInv, Typed

LEMMA GoesLiveKeeps ==
  ASSUME IInv, "cut" \notin Faults, GoesLive
  PROVE  IInv'
<1> DEFINE r == [RelayOf EXCEPT !.live = TRUE]
<1>1. PICK ok \in Oks : Becomes(StartCatchUp(r, ok), scans)
  BY DEF GoesLive
<1>2. ok \in BOOLEAN
  BY DEF Oks
<1>3. RelayOf \in Relay /\ Good(RelayOf)
  BY RelayOfGood
<1>4. /\ r \in Relay /\ r.live /\ r.file = RelayOf.file /\ r.end = RelayOf.end
      /\ r.seen = RelayOf.seen /\ r.tab = RelayOf.tab
  BY <1>3 DEF Relay
<1> HIDE DEF r
<1>5. FileOf(r) = FileOf(RelayOf) /\ (At(r) <=> At(RelayOf)) /\ Lines(r) = Lines(RelayOf)
  BY <1>4 DEF FileOf, At, Lines
<1>6. Base(r) /\ TabGood(r)
  BY <1>3, <1>4, <1>5 DEF Good, Base, TabGood
<1> DEFINE x == StartCatchUp(r, ok)
<1>7. x \in Relay /\ Good(x) /\ Begun(x) /\ Timed(x)
  BY <1>2, <1>4, <1>6, StartCatchUpGood DEF IInv
<1>8. MayBecome(x, scans)
  BY <1>7 DEF MayBecome
<1>9. UNCHANGED worldVars /\ named' \in Paths \cup {None}
  BY NamedTyped DEF GoesLive
<1> QED
  BY <1>1, <1>8, <1>9, BecomesKeeps

LEMMA GoesDownKeeps ==
  ASSUME IInv, "cut" \notin Faults, GoesDown
  PROVE  IInv'
<1> DEFINE y == [relay EXCEPT !.live = FALSE, !.catchUp = FALSE, !.read = {}, !.fold = <<>>]
           x == DropIfUnused(y)
<1>1. relay # None /\ relay \in Relay /\ Good(relay) /\ relay.gen <= gens
  BY DEF GoesDown, IInv, Good, Base, Scanning
<1>2. /\ y \in Relay /\ ~y.live /\ ~y.catchUp /\ y.gen = relay.gen /\ y.file = relay.file
      /\ y.end = relay.end /\ y.seen = relay.seen /\ y.tab = relay.tab
      /\ y.retry = relay.retry /\ y.waiting = relay.waiting
  <2>1. <<>> \in Seq(Read)
    OBVIOUS
  <2> QED
    BY <1>1, <2>1 DEF Relay
<1> HIDE DEF y
<1>3. FileOf(y) = FileOf(relay) /\ (At(y) <=> At(relay)) /\ Lines(y) = Lines(relay)
  BY <1>2 DEF FileOf, At, Lines
<1>4. Good(y)
  BY <1>1, <1>2, <1>3 DEF Good, Base, TabGood, FoldGood
<1>5. x = None \/ (x = y /\ Timed(y))
  BY <1>2 DEF DropIfUnused, IInv, GoesDown, Timed, Waits
<1>6. MayBecome(x, scans)
  BY <1>1, <1>2, <1>4, <1>5 DEF MayBecome
<1>7. Becomes(x, scans) /\ UNCHANGED worldVars /\ named' \in Paths \cup {None}
  BY NamedTyped DEF GoesDown, y
<1> QED
  BY <1>6, <1>7, BecomesKeeps

LEMMA RefoldKeeps ==
  ASSUME IInv, "cut" \notin Faults, Refold
  PROVE  IInv'
<1>1. relay # None /\ relay \in Relay /\ Good(relay) /\ relay.gen <= gens
  BY DEF Refold, IInv, Good, Base, Scanning
<1>2. PICK ok \in Oks : Becomes(StartCatchUp(relay, ok), scans)
  BY DEF Refold
<1>3. ok \in BOOLEAN
  BY DEF Oks
<1> DEFINE x == StartCatchUp(relay, ok)
<1>4. /\ x \in Relay /\ Good(x) /\ Timed(relay) /\ (~relay.live => x = relay)
      /\ relay.live => Begun(x) /\ Timed(x)
  BY <1>1, <1>3, StartCatchUpGood DEF IInv, Good
<1>5. MayBecome(x, scans)
  BY <1>1, <1>4 DEF MayBecome
<1>6. UNCHANGED worldVars /\ named' \in Paths \cup {None}
  BY NamedTyped DEF Refold
<1> QED
  BY <1>2, <1>5, <1>6, BecomesKeeps

LEMMA SubscribeKeeps ==
  ASSUME IInv, "cut" \notin Faults, Subscribe
  PROVE  IInv'
<1> DEFINE R(ok) == IF RelayOf.file # named THEN Retarget(RelayOf, named, ok) ELSE RelayOf
<1>1. PICK ok \in Oks : Becomes([R(ok) EXCEPT !.tab = [base |-> R(ok).end, got |-> <<>>]], scans)
  BY DEF Subscribe
<1>2. ok \in BOOLEAN
  BY DEF Oks
<1> DEFINE r == R(ok)
           x == [r EXCEPT !.tab = [base |-> r.end, got |-> <<>>]]
<1>3. /\ RelayOf \in Relay /\ Good(RelayOf) /\ RelayOf.gen <= gens
      /\ relay # None => RelayOf = relay
      /\ relay = None => ~RelayOf.live
      /\ Waits(RelayOf)
  BY RelayOfGood
<1>4. named \in Paths /\ named # None
  BY NamedTyped DEF Subscribe
<1>5. /\ r \in Relay /\ Good(r) /\ r.file # None
      /\ Begun(r) \/ (r.gen <= gens /\ (r.live => relay # None /\ r = relay))
      /\ Waits(r)
  <2>1. CASE RelayOf.file # named
    <3>1. r = Retarget(RelayOf, named, ok)
      BY <2>1
    <3>2. LET z == Retarget(RelayOf, named, ok)
          IN  /\ z \in Relay /\ Good(z) /\ z.live = RelayOf.live /\ z.file = named
              /\ RelayOf.live => Begun(z) /\ Timed(z)
              /\ ~RelayOf.live => z.gen = RelayOf.gen /\ ~z.catchUp /\ z.retry = None
      BY <1>2, <1>3, <1>4, RetargetGood DEF IInv
    <3> HIDE DEF r
    <3> QED
      BY <1>3, <1>4, <3>1, <3>2 DEF Timed, Waits
  <2>2. CASE RelayOf.file = named
    <3>1. r = RelayOf
      BY <2>2
    <3> HIDE DEF r
    <3> QED
      BY <1>3, <1>4, <2>2, <3>1
  <2> QED
    BY <2>1, <2>2
<1>6. Becomes(x, scans)
  BY <1>1
<1> HIDE DEF r
<1>7. /\ x \in Relay /\ Good(x) /\ SameRead(x, r) /\ x.gen = r.gen
      /\ x.tab # None /\ x.waiting = r.waiting /\ x.retry = r.retry
  BY <1>5, WithTabGood DEF x
<1> HIDE DEF x
<1>8. MayBecome(x, scans)
  <2>1. Timed(x)
    BY <1>5, <1>7 DEF Timed, Waits, SameRead
  <2> QED
    BY <1>5, <1>7, <2>1 DEF MayBecome, Begun, SameRead
<1>9. UNCHANGED worldVars /\ named' \in Paths \cup {None}
  BY <1>4 DEF Subscribe
<1> QED
  BY <1>6, <1>8, <1>9, BecomesKeeps

LEMMA UnsubscribeKeeps ==
  ASSUME IInv, "cut" \notin Faults, Unsubscribe
  PROVE  IInv'
<1> DEFINE y == [relay EXCEPT !.tab = None]
           x == DropIfUnused(y)
<1>1. relay # None /\ relay \in Relay /\ Good(relay) /\ relay.gen <= gens
  BY DEF Unsubscribe, IInv, Good, Base, Scanning
<1>2. /\ y \in Relay /\ Good(y) /\ SameRead(y, relay) /\ y.gen = relay.gen
      /\ y.waiting = relay.waiting /\ y.retry = relay.retry
  BY <1>1, WithoutTabGood
<1>3. Becomes(x, scans) /\ UNCHANGED worldVars /\ named' \in Paths \cup {None}
  BY NamedTyped DEF Unsubscribe
<1> HIDE DEF y
<1>4. x = None \/ (x = y /\ Timed(y))
  BY <1>1, <1>2 DEF DropIfUnused, IInv, Timed, Waits, SameRead
<1>5. MayBecome(x, scans)
  BY <1>1, <1>2, <1>4 DEF MayBecome, SameRead
<1> QED
  BY <1>3, <1>5, BecomesKeeps

LEMMA PushKeeps ==
  ASSUME IInv, "cut" \notin Faults, NEW rows \in SUBSET Rows, Push(rows)
  PROVE  IInv'
<1> DEFINE names == relay.file = None /\ named # None
           r == [relay EXCEPT !.file = IF names THEN named ELSE @,
                              !.waiting = @ \cup (rows \ relay.read)]
           X(ok) == IF names /\ r.live THEN StartCatchUp(r, ok)
                    ELSE IF r.catchUp THEN r
                    ELSE WaitForRows(ReadOn(r, ok))
<1>1. PICK ok \in Oks : Becomes(X(ok), scans)
  BY DEF Push
<1>2. ok \in BOOLEAN
  BY DEF Oks
<1>3. relay # None /\ relay \in Relay /\ Good(relay) /\ AtLine(relay) /\ Typed
  BY DEF Push, IInv, Good, Base
<1>4. /\ r \in Relay /\ r.file = (IF names THEN named ELSE relay.file)
      /\ r.end = relay.end /\ r.seen = relay.seen /\ r.live = relay.live /\ r.fold = relay.fold
      /\ r.catchUp = relay.catchUp /\ r.partial = relay.partial /\ r.tab = relay.tab
      /\ r.gen = relay.gen /\ r.retry = relay.retry
      /\ r.waiting = relay.waiting \cup (rows \ relay.read)
  BY <1>3, NamedTyped DEF Relay
<1> HIDE DEF r
<1>5. ASSUME names
      PROVE  /\ r.file = named /\ r.seen = None /\ r.end = 0 /\ r.tab = None
             /\ ~r.catchUp /\ ~At(r)
  <2>1. relay.seen = None /\ relay.end = 0 /\ relay.tab = None /\ ~relay.catchUp
    BY <1>3, <1>5 DEF Good, Base
  <2>2. FileOf(r) # None => FileOf(r).id # None
    BY <1>3, <1>4, FileOfTyped
  <2> QED
    BY <1>4, <1>5, <2>1, <2>2 DEF At
<1>6. Good(r) /\ AtLine(r)
  <2>1. CASE names
    BY <1>3, <1>4, <1>5, <2>1, NamedTyped DEF Good, Base, TabGood, FoldGood, AtLine
  <2>2. CASE ~names
    <3>1. FileOf(r) = FileOf(relay) /\ (At(r) <=> At(relay)) /\ Lines(r) = Lines(relay)
      BY <1>4, <2>2 DEF FileOf, At, Lines
    <3> HIDE DEF names
    <3> QED
      BY <1>3, <1>4, <2>2, <3>1 DEF Good, Base, TabGood, FoldGood, AtLine
  <2> QED
    BY <2>1, <2>2
<1>7. r.catchUp => SameRead(r, relay)
  BY <1>4, <1>5 DEF SameRead
<1>8. Timed(relay) /\ Timed(r)
  <2>1. Timed(relay)
    BY <1>3 DEF IInv
  <2>2. relay.waiting # {} => r.waiting # {}
    BY <1>4
  <2> QED
    BY <1>4, <2>1, <2>2 DEF Timed, Waits
<1>9. MayBecome(X(ok), scans)
  <2>1. CASE names /\ r.live
    <3>1. /\ StartCatchUp(r, ok) \in Relay /\ Good(StartCatchUp(r, ok))
          /\ Begun(StartCatchUp(r, ok)) /\ Timed(StartCatchUp(r, ok))
      BY <1>2, <1>3, <1>6, <2>1, StartCatchUpGood DEF Good, Base
    <3> QED
      BY <2>1, <3>1 DEF MayBecome
  <2>2. CASE ~(names /\ r.live) /\ r.catchUp
    <3>1. After(r, r)
      BY <1>4, <1>6 DEF After, Same, SameRead
    <3>2. X(ok) = r
      BY <2>2
    <3> HIDE DEF X
    <3> QED
      BY <1>3, <1>4, <1>7, <1>8, <3>1, <3>2, AfterMayBecome
  <2>3. CASE ~(names /\ r.live) /\ ~r.catchUp
    <3>1. After(ReadOn(r, ok), r)
      BY <1>2, <1>3, <1>4, <1>6, ReadOnGood
    <3>2. After(WaitForRows(ReadOn(r, ok)), r)
      BY <1>4, <3>1, AfterSame, WaitGood DEF After, Good, Base
    <3>3. Timed(WaitForRows(ReadOn(r, ok)))
      <4>1. LET x == ReadOn(r, ok)
            IN  x.catchUp => x.live /\ x.retry = None /\ x.waiting = {}
        BY <1>2, <1>4, <2>3, ReadOnClears
      <4>2. ReadOn(r, ok).live \/ ReadOn(r, ok).tab # None
        BY <1>8, <3>1 DEF After, Timed
      <4> QED
        BY <3>1, <4>1, <4>2, WaitTimed DEF After
    <3>4. X(ok) = WaitForRows(ReadOn(r, ok))
      BY <2>3
    <3> HIDE DEF X
    <3> QED
      BY <1>3, <1>4, <1>7, <3>2, <3>3, <3>4, AfterMayBecome
  <2> QED
    BY <2>1, <2>2, <2>3
<1>10. UNCHANGED worldVars /\ named' \in Paths \cup {None}
  BY NamedTyped DEF Push
<1> QED
  BY <1>1, <1>9, <1>10, BecomesKeeps

(* The file is read on with the wait over or its rows dropped.             *)
LEMMA ReadOnKeeps ==
  ASSUME IInv, "cut" \notin Faults, relay # None, NEW ok \in BOOLEAN,
         NEW x \in Relay, Same(x, ReadOn(relay, ok)), x.gen = ReadOn(relay, ok).gen,
         Waits(x),
         Becomes(x, scans), UNCHANGED <<worldVars, named>>
  PROVE  IInv'
<1>1. relay \in Relay /\ Good(relay) /\ AtLine(relay) /\ Typed
  BY DEF IInv, Good, Base
<1>2. After(ReadOn(relay, ok), relay)
  BY <1>1, ReadOnGood
<1>3. After(x, relay)
  BY <1>1, <1>2, AfterSame
<1>4. Timed(x)
  BY <1>3 DEF After, IInv, Timed
<1>5. MayBecome(x, scans)
  BY <1>1, <1>3, <1>4, AfterMayBecome DEF SameRead
<1> QED
  BY <1>5, NamedTyped, BecomesKeeps

LEMMA TickKeeps ==
  ASSUME IInv, "cut" \notin Faults, Tick
  PROVE  IInv'
<1> DEFINE R(ok) == ReadOn(relay, ok)
           X(ok) == IF R(ok).waiting = {} \/ R(ok).catchUp
                    THEN [R(ok) EXCEPT !.retry = None] ELSE R(ok)
<1>1. PICK ok \in Oks : Becomes(X(ok), scans)
  BY DEF Tick
<1>2. ok \in BOOLEAN
  BY DEF Oks
<1>3. relay # None /\ relay \in Relay /\ Good(relay) /\ AtLine(relay) /\ Typed
  BY DEF Tick, IInv, Good, Base
<1>4. R(ok) \in Relay
  BY <1>2, <1>3, ReadOnGood DEF After
<1>5. R(ok).catchUp => R(ok).live /\ R(ok).retry = None /\ R(ok).waiting = {}
  BY <1>2, <1>3, ReadOnClears DEF IInv, Timed, Waits, Tick
<1>6. X(ok) \in Relay /\ Same(X(ok), R(ok)) /\ X(ok).gen = R(ok).gen /\ Waits(X(ok))
  <2> HIDE DEF R
  <2> QED
    BY <1>4, <1>5 DEF Relay, Same, SameRead, Waits
<1> HIDE DEF X
<1> QED
  BY <1>1, <1>2, <1>3, <1>6, ReadOnKeeps DEF Tick

LEMMA GiveUpKeeps ==
  ASSUME IInv, "cut" \notin Faults, GiveUp
  PROVE  IInv'
<1> DEFINE R(ok) == ReadOn(relay, ok)
           X(ok) == [R(ok) EXCEPT !.retry = None, !.waiting = IF R(ok).catchUp THEN @ ELSE {}]
<1>1. PICK ok \in Oks : Becomes(X(ok), scans)
  BY DEF GiveUp
<1>2. ok \in BOOLEAN
  BY DEF Oks
<1>3. relay # None /\ relay \in Relay /\ Good(relay) /\ AtLine(relay) /\ Typed
  BY DEF GiveUp, IInv, Good, Base
<1>4. R(ok) \in Relay
  BY <1>2, <1>3, ReadOnGood DEF After
<1>5. R(ok).catchUp => R(ok).live /\ R(ok).retry = None /\ R(ok).waiting = {}
  BY <1>2, <1>3, ReadOnClears DEF IInv, Timed, Waits, GiveUp
<1>6. X(ok) \in Relay /\ Same(X(ok), R(ok)) /\ X(ok).gen = R(ok).gen /\ Waits(X(ok))
  <2> HIDE DEF R
  <2> QED
    BY <1>4, <1>5 DEF Relay, Same, SameRead, Waits
<1> HIDE DEF X
<1> QED
  BY <1>1, <1>2, <1>3, <1>6, ReadOnKeeps DEF GiveUp

-----------------------------------------------------------------------------
(* The steps of a catch-up's read.                                         *)

(* A scan goes on as t in the place of s.                                  *)
LEMMA ScanGoesOn ==
  ASSUME IInv, NEW s \in scans, NEW t \in Scan,
         t.gen = s.gen, t.path = s.path, t.end = s.end,
         scans' = (scans \ {s}) \cup {t}, gens' = gens, UNCHANGED <<worldVars, named>>,
         relay' # None => Good(relay)' /\ AtLine(relay)' /\ Timed(relay)',
         relay # None \/ relay' = None,
         relay' # None => /\ relay'.gen = relay.gen /\ relay'.live = relay.live
                          /\ relay'.catchUp = relay.catchUp /\ relay'.file = relay.file
                          /\ relay'.end = relay.end /\ relay'.seen = relay.seen
                          /\ ~relay'.partial /\ relay.live /\ s.gen # relay.gen =>
                               relay'.fold = relay.fold /\ ~relay.partial
                          /\ ~relay'.partial /\ relay.live /\ s.gen = relay.gen =>
                               IF t.left = None THEN relay'.fold = <<>>
                               ELSE At(relay) => relay'.fold \o t.left =
                                                   SubSeq(Lines(relay), 1, relay.end \div 2)
  PROVE  IInv'
<1>1. files' = files /\ made' = made /\ written' = written /\ cur' = cur /\ named' = named
  BY DEF worldVars
<1>2. Typed /\ Scanning
  BY DEF IInv
<1>3. Typed'
  BY <1>1, <1>2 DEF Typed
<1>4. \A z \in scans' : z = t \/ (z \in scans /\ z # s)
  OBVIOUS
<1>5. \A z \in scans' : z.gen <= gens'
  BY <1>2, <1>4 DEF Scanning
<1>6. \A z, w \in scans' : z.gen = w.gen => z = w
  BY <1>2, <1>4 DEF Scanning
<1>7. relay' # None => (At(relay)' <=> At(relay)) /\ Lines(relay)' = Lines(relay)
  BY <1>1 DEF At, Lines, FileOf
<1>8. ASSUME relay' # None, relay'.live, NEW z \in scans', z.gen = relay'.gen
      PROVE  /\ relay'.catchUp
             /\ z.path = relay'.file /\ z.end = relay'.end
             /\ ~relay'.partial =>
                  IF z.left = None THEN relay'.fold = <<>>
                  ELSE At(relay)' => relay'.fold \o z.left =
                                       SubSeq(Lines(relay)', 1, relay'.end \div 2)
  <2>1. CASE z = t
    BY <1>2, <1>7, <1>8, <2>1 DEF Scanning
  <2>2. CASE z \in scans /\ z # s
    <3>1. s.gen # relay.gen
      BY <1>2, <1>8, <2>2 DEF Scanning
    <3> QED
      BY <1>2, <1>7, <1>8, <2>2, <3>1 DEF Scanning
  <2> QED
    BY <1>4, <1>8, <2>1, <2>2
<1>9. Scanning'
  BY <1>2, <1>5, <1>6, <1>8 DEF Scanning
<1> QED
  BY <1>3, <1>9 DEF IInv

LEMMA SameWorldGood ==
  ASSUME UNCHANGED worldVars, NEW x, relay' = x, Good(x), AtLine(x), Timed(x)
  PROVE  Good(relay)' /\ AtLine(relay)' /\ Timed(relay)'
  BY DEF worldVars, Timed, Waits, Good, Base, TabGood, FoldGood, At, Lines, FileOf, AtLine

LEMMA LinesUpToEnd ==
  ASSUME Typed, NEW path \in Paths, NEW end \in Nat
  PROVE  /\ LinesUpTo(files[path], end) \in Seq(Rows)
         /\ files[path] # None /\ end <= Size(files[path]) =>
              LinesUpTo(files[path], end) = SubSeq(files[path].lines, 1, end \div 2)
<1>1. CASE files[path] = None
  <2>1. <<>> \in Seq(Rows)
    OBVIOUS
  <2> QED
    BY <1>1, <2>1 DEF LinesUpTo
<1>2. CASE files[path] # None
  <2> DEFINE f == files[path]
             n == Len(f.lines)
             half == end \div 2
             upTo == Min({half, n})
  <2>1. f \in File /\ f.lines \in Seq(Rows) /\ n \in Nat /\ f.torn \in BOOLEAN
    BY <1>2 DEF Typed, File
  <2>2. half \in Nat
    OBVIOUS
  <2>3. Size(f) = 2 * n + (IF f.torn THEN 1 ELSE 0)
    BY <1>2 DEF Size
  <2>4. LinesUpTo(f, end) = SubSeq(f.lines, 1, upTo)
    BY <1>2 DEF LinesUpTo
  <2>5. end <= 2 * n + 1 => half <= n
    <3> HIDE DEF n
    <3> QED
      BY <2>1
  <2> HIDE DEF half, n, f
  <2>6. upTo = (IF half <= n THEN half ELSE n) /\ upTo \in Nat /\ upTo <= n
    BY <2>1, <2>2, MinOfTwo
  <2> HIDE DEF upTo
  <2>7. SubSeq(f.lines, 1, upTo) \in Seq(Rows)
    <3> DEFINE none == 0
    <3>1. none \in Nat
      OBVIOUS
    <3> HIDE DEF none
    <3>2. SubSeq(f.lines, none + 1, upTo) \in Seq(Rows)
      BY <2>1, <2>6, <3>1, SubSeqIsSeq DEF n
    <3> QED
      BY <3>2 DEF none
  <2>8. end <= Size(f) => upTo = half
    BY <2>1, <2>2, <2>3, <2>5, <2>6
  <2> QED
    BY <2>4, <2>7, <2>8 DEF f, half
<1> QED
  BY <1>1, <1>2

LEMMA ScanOpensKeeps ==
  ASSUME IInv, NEW s \in scans, ScanOpens(s)
  PROVE  IInv'
<1> DEFINE lines == LinesUpTo(files[s.path], s.end)
           t == [s EXCEPT !.left = lines]
<1>1. Typed /\ Scanning /\ s \in Scan
  BY DEF IInv, Typed
<1>2. s.path \in Paths /\ s.end \in Nat
  BY <1>1 DEF Scan
<1>3. lines \in Seq(Rows)
  BY <1>1, <1>2, LinesUpToEnd
<1>4. scans' = (scans \ {s}) \cup {t}
  BY DEF ScanOpens
<1>5. ASSUME relay # None, relay.live, s.gen = relay.gen, ~relay.partial, At(relay)
      PROVE  relay.fold \o lines = SubSeq(Lines(relay), 1, relay.end \div 2)
  <2>1. s.path = relay.file /\ s.end = relay.end /\ relay.fold = <<>>
    BY <1>1, <1>5 DEF Scanning, ScanOpens
  <2>2. FileOf(relay) = files[s.path] /\ files[s.path] # None
    BY <1>2, <1>5, <2>1, NoneAssumption DEF FileOf, At
  <2>3. relay.end <= Size(files[s.path])
    BY <1>5, <2>2 DEF IInv, Good, Base
  <2>4. lines = SubSeq(files[s.path].lines, 1, s.end \div 2)
    BY <1>1, <1>2, <2>1, <2>2, <2>3, LinesUpToEnd
  <2> HIDE DEF lines
  <2>5. <<>> \o lines = lines
    BY <1>3
  <2> QED
    BY <2>1, <2>2, <2>4, <2>5 DEF Lines
<1> HIDE DEF lines
<1>6. t \in Scan /\ t.gen = s.gen /\ t.path = s.path /\ t.end = s.end /\ t.left = lines
  BY <1>1, <1>3 DEF Scan
<1>7. t.left # None
  BY <1>3, <1>6, NoneAssumption
<1> HIDE DEF t
<1>8. relay' = relay /\ gens' = gens /\ UNCHANGED <<worldVars, named>>
  BY DEF ScanOpens
<1>9. relay' # None => Good(relay)' /\ AtLine(relay)' /\ Timed(relay)'
  BY <1>8, SameWorldGood DEF IInv
<1> QED
  BY <1>4, <1>5, <1>6, <1>7, <1>8, <1>9, ScanGoesOn

LEMMA OneOver ==
  ASSUME NEW S, NEW s \in Seq(S), NEW t \in Seq(S), t # <<>>
  PROVE  Append(s, Head(t)) \o Tail(t) = s \o t
<1> DEFINE u == Append(s, Head(t))
           v == Tail(t)
<1>1. /\ Head(t) \in S /\ v \in Seq(S) /\ Len(v) = Len(t) - 1
      /\ \A i \in 1..Len(v) : v[i] = t[i + 1]
  BY HeadTailProperties
<1>2. Head(t) = t[1] /\ Len(t) \in Nat /\ Len(s) \in Nat /\ Len(t) # 0
  BY EmptySeq
<1>3. /\ u \in Seq(S) /\ Len(u) = Len(s) + 1
      /\ \A i \in 1..Len(s) : u[i] = s[i]
      /\ u[Len(s) + 1] = t[1]
  BY <1>1, <1>2, AppendProperties
<1> HIDE DEF u, v
<1>4. /\ u \o v \in Seq(S) /\ Len(u \o v) = Len(u) + Len(v)
      /\ \A i \in 1..Len(u) + Len(v) : (u \o v)[i] = IF i <= Len(u) THEN u[i] ELSE v[i - Len(u)]
  BY <1>1, <1>3, ConcatProperties
<1>5. /\ s \o t \in Seq(S) /\ Len(s \o t) = Len(s) + Len(t)
      /\ \A i \in 1..Len(s) + Len(t) : (s \o t)[i] = IF i <= Len(s) THEN s[i] ELSE t[i - Len(s)]
  BY ConcatProperties
<1>6. ASSUME NEW i \in 1..Len(s) + Len(t)
      PROVE  (u \o v)[i] = (s \o t)[i]
  <2>1. CASE i <= Len(s)
    BY <1>1, <1>2, <1>3, <1>4, <1>5, <1>6, <2>1
  <2>2. CASE i = Len(s) + 1
    BY <1>1, <1>2, <1>3, <1>4, <1>5, <1>6, <2>2
  <2>3. CASE i > Len(s) + 1
    <3>1. i - Len(u) \in 1..Len(v) /\ i - Len(u) + 1 = i - Len(s)
      BY <1>1, <1>2, <1>3, <1>6, <2>3
    <3>2. v[i - Len(u)] = t[i - Len(s)]
      BY <1>1, <3>1
    <3> QED
      BY <1>1, <1>2, <1>3, <1>4, <1>5, <1>6, <2>3, <3>2
  <2>4. i <= Len(s) \/ i = Len(s) + 1 \/ i > Len(s) + 1
    BY <1>2, <1>6
  <2> QED
    BY <2>1, <2>2, <2>3, <2>4
<1>7. Len(u \o v) = Len(s \o t)
  BY <1>1, <1>2, <1>3, <1>4, <1>5
<1>8. u \o v = s \o t
  BY <1>4, <1>5, <1>6, <1>7, SeqEqual
<1> QED
  BY <1>8 DEF u, v

LEMMA ScanTakesKeeps ==
  ASSUME IInv, NEW s \in scans, ScanTakes(s)
  PROVE  IInv'
<1> DEFINE t == [s EXCEPT !.left = Tail(@)]
           x == [relay EXCEPT !.fold = Append(@, Head(s.left)), !.read = @ \cup {Head(s.left)}]
<1>1. Typed /\ Scanning /\ s \in Scan
  BY DEF IInv, Typed
<1>2. s.left \in Seq(Rows) /\ s.left # <<>>
  BY <1>1 DEF Scan, ScanTakes
<1>3. Head(s.left) \in Rows /\ Tail(s.left) \in Seq(Rows)
  BY <1>2
<1>4. t \in Scan /\ t.gen = s.gen /\ t.path = s.path /\ t.end = s.end /\ t.left = Tail(s.left)
  BY <1>1, <1>3 DEF Scan
<1>5. s.left # None /\ t.left # None
  BY <1>2, <1>3, <1>4, NoneAssumption
<1>6. scans' = (scans \ {s}) \cup {t} /\ gens' = gens /\ UNCHANGED <<worldVars, named>>
  BY DEF ScanTakes
<1> HIDE DEF t
<1>7. CASE ~Current(s)
  <2>1. relay' = relay
    BY <1>7 DEF ScanTakes
  <2>2. relay' # None => Good(relay)' /\ AtLine(relay)' /\ Timed(relay)'
    BY <1>6, <2>1, SameWorldGood DEF IInv
  <2> QED
    BY <1>4, <1>6, <1>7, <2>1, <2>2, ScanGoesOn DEF Current
<1>8. CASE Current(s)
  <2>1. relay' = x
    BY <1>8 DEF ScanTakes
  <2>2. /\ relay # None /\ relay \in Relay /\ Good(relay) /\ AtLine(relay) /\ relay.live
        /\ relay.catchUp /\ relay.fold \in Seq(Read)
        /\ ~relay.partial /\ At(relay) =>
             relay.fold \o s.left = SubSeq(Lines(relay), 1, relay.end \div 2)
    BY <1>1, <1>5, <1>8 DEF Current, IInv, Good, Base, Relay, Scanning
  <2>3. s.left \in Seq(Read) /\ Head(s.left) \in Read
    BY <1>2, <1>3, RowsAreRead
  <2>4. Append(relay.fold, Head(s.left)) \in Seq(Read)
    BY <2>2, <2>3
  <2>5. Append(relay.fold, Head(s.left)) \o Tail(s.left) = relay.fold \o s.left
    BY <1>2, <2>2, <2>3, OneOver
  <2>6. /\ x \in Relay /\ x.fold = Append(relay.fold, Head(s.left))
        /\ x.file = relay.file /\ x.end = relay.end /\ x.seen = relay.seen /\ x.live = relay.live
        /\ x.catchUp = relay.catchUp /\ x.partial = relay.partial /\ x.tab = relay.tab
        /\ x.gen = relay.gen /\ x.waiting = relay.waiting /\ x.retry = relay.retry
    BY <1>3, <2>2, <2>4 DEF Relay
  <2> HIDE DEF x
  <2>7. FileOf(x) = FileOf(relay) /\ (At(x) <=> At(relay)) /\ Lines(x) = Lines(relay)
    BY <2>6 DEF FileOf, At, Lines
  <2>8. Good(x) /\ AtLine(x) /\ Timed(x)
    BY <2>2, <2>6, <2>7 DEF IInv, Timed, Waits, Good, Base, TabGood, FoldGood, AtLine
  <2>9. Good(relay)' /\ AtLine(relay)' /\ Timed(relay)'
    BY <1>6, <2>1, <2>8, SameWorldGood
  <2> QED
    BY <1>4, <1>5, <1>6, <1>8, <2>1, <2>2, <2>5, <2>6, <2>9, ScanGoesOn DEF Current
<1> QED
  BY <1>7, <1>8

LEMMA ScanFailsKeeps ==
  ASSUME IInv, NEW s \in scans, ScanFails(s)
  PROVE  IInv'
<1> DEFINE t == [s EXCEPT !.left = <<>>]
           x == [relay EXCEPT !.partial = TRUE]
<1>1. Typed /\ Scanning /\ s \in Scan
  BY DEF IInv, Typed
<1>2. t \in Scan /\ t.gen = s.gen /\ t.path = s.path /\ t.end = s.end
  <2>1. <<>> \in Seq(Rows)
    OBVIOUS
  <2> QED
    BY <1>1, <2>1 DEF Scan
<1>3. scans' = (scans \ {s}) \cup {t} /\ gens' = gens /\ UNCHANGED <<worldVars, named>>
  BY DEF ScanFails
<1> HIDE DEF t
<1>4. CASE ~Current(s)
  <2>1. relay' = relay
    BY <1>4 DEF ScanFails
  <2>2. relay' # None => Good(relay)' /\ AtLine(relay)' /\ Timed(relay)'
    BY <1>3, <2>1, SameWorldGood DEF IInv
  <2> QED
    BY <1>2, <1>3, <1>4, <2>1, <2>2, ScanGoesOn DEF Current
<1>5. CASE Current(s)
  <2>1. relay' = x
    BY <1>5 DEF ScanFails
  <2>2. relay # None /\ relay \in Relay /\ Good(relay) /\ AtLine(relay)
    BY <1>5 DEF Current, IInv, Good, Base
  <2>3. /\ x \in Relay /\ x.partial /\ x.fold = relay.fold
        /\ x.file = relay.file /\ x.end = relay.end /\ x.seen = relay.seen /\ x.live = relay.live
        /\ x.catchUp = relay.catchUp /\ x.tab = relay.tab /\ x.gen = relay.gen
        /\ x.waiting = relay.waiting /\ x.retry = relay.retry
    BY <2>2 DEF Relay
  <2> HIDE DEF x
  <2>4. FileOf(x) = FileOf(relay) /\ (At(x) <=> At(relay)) /\ Lines(x) = Lines(relay)
    BY <2>3 DEF FileOf, At, Lines
  <2>5. Good(x) /\ AtLine(x) /\ Timed(x)
    BY <2>2, <2>3, <2>4 DEF IInv, Timed, Waits, Good, Base, TabGood, FoldGood, AtLine
  <2>6. Good(relay)' /\ AtLine(relay)' /\ Timed(relay)'
    BY <1>3, <2>1, <2>5, SameWorldGood
  <2> QED
    BY <1>2, <1>3, <2>1, <2>2, <2>3, <2>6, ScanGoesOn
<1> QED
  BY <1>4, <1>5

LEMMA ScanLandsKeeps ==
  ASSUME IInv, "cut" \notin Faults, NEW s \in scans, ScanLands(s)
  PROVE  IInv'
<1>1. Typed /\ Scanning
  BY DEF IInv
<1>2. CASE Current(s)
  <2>1. PICK ok \in Oks : Becomes(Landed(relay, ok), scans \ {s})
    BY <1>2 DEF ScanLands
  <2>2. ok \in BOOLEAN
    BY DEF Oks
  <2>3. /\ relay # None /\ relay \in Relay /\ Good(relay) /\ AtLine(relay) /\ relay.live
        /\ s.gen = relay.gen /\ relay.gen <= gens /\ relay.catchUp /\ relay.fold \in Seq(Read)
    BY <1>1, <1>2 DEF Current, IInv, Good, Base, Relay, Scanning
  <2>4. s.left = <<>> /\ s.left # None
    <3>1. <<>> \in Seq(Rows)
      OBVIOUS
    <3> QED
      BY <3>1, NoneAssumption DEF ScanLands
  <2>5. relay.fold \o <<>> = relay.fold
    BY <2>3
  <2>6. ~relay.partial /\ At(relay) => relay.fold = SubSeq(Lines(relay), 1, relay.end \div 2)
    BY <1>1, <2>3, <2>4, <2>5 DEF Scanning
  <2> DEFINE x == Landed(relay, ok)
  <2>7. /\ x \in Relay /\ Good(x) /\ x.live = relay.live /\ Timed(x)
        /\ Begun(x) \/ (x.gen = relay.gen /\ ~x.catchUp)
    BY <1>1, <2>2, <2>3, <2>6, LandedGood DEF Good
  <2>8. \A z \in scans \ {s} : z.gen # relay.gen
    BY <1>1, <2>3 DEF Scanning
  <2> HIDE DEF x
  <2>9. MayBecome(x, scans \ {s})
    BY <2>3, <2>7, <2>8 DEF MayBecome
  <2>10. UNCHANGED worldVars /\ named' \in Paths \cup {None}
    BY NamedTyped DEF ScanLands
  <2> QED
    BY <2>1, <2>9, <2>10, BecomesKeeps DEF x
<1>3. CASE ~Current(s)
  <2>1. scans' = scans \ {s} /\ relay' = relay /\ gens' = gens /\ UNCHANGED <<worldVars, named>>
    BY <1>3 DEF ScanLands
  <2>2. Typed'
    BY <1>1, <2>1 DEF Typed, worldVars
  <2>3. Scanning'
    BY <1>1, <2>1 DEF Scanning, worldVars, At, Lines, FileOf
  <2>4. relay' # None => Good(relay)' /\ AtLine(relay)' /\ Timed(relay)'
    BY <2>1, SameWorldGood DEF IInv
  <2> QED
    BY <2>2, <2>3, <2>4 DEF IInv
<1> QED
  BY <1>2, <1>3

-----------------------------------------------------------------------------
(* The session's steps. A file goes on, goes, or is another from now on.   *)
GoesOn(path) ==
  \/ files'[path] = files[path]
  \/ files'[path] = None
  \/ files'[path].id > made
  \/ /\ files[path] # None
     /\ files'[path].id = files[path].id
     /\ Size(files[path]) <= Size(files'[path])
     /\ \E more \in Seq(Rows) : files'[path].lines = files[path].lines \o more

(* What was read of a file that is still there is still what it begins with. *)
LEMMA ReadStays ==
  ASSUME IInv, Typed', \A path \in Paths : GoesOn(path), UNCHANGED readVars,
         relay # None, At(relay)'
  PROVE  /\ At(relay)
         /\ relay.end <= Size(FileOf(relay))'
         /\ \A a \in Nat \ {0} : SubSeq(Lines(relay)', a, relay.end \div 2) =
                                   SubSeq(Lines(relay), a, relay.end \div 2)
<1> DEFINE path == relay.file
           half == relay.end \div 2
<1>1. relay' = relay /\ relay \in Relay /\ Good(relay) /\ Typed
  BY DEF readVars, IInv, Good, Base
<1>2. path \in Paths /\ FileOf(relay)' = files'[path] /\ files'[path] # None
      /\ files'[path].id = relay.seen
  BY <1>1, NoneAssumption DEF At, FileOf, Relay
<1>3. FileOf(relay) = files[path]
  BY <1>2, NoneAssumption DEF FileOf
<1>4. files'[path] \in File /\ files'[path].id \in 1..MaxFiles
  BY <1>2 DEF Typed, File
<1>5. relay.seen \in Nat /\ relay.seen <= made /\ relay.seen # None /\ made \in Nat
  BY <1>1, <1>2, <1>4, NoneAssumption DEF Good, Base, Typed
<1>6. CASE files'[path] = files[path]
  <2>1. At(relay) /\ FileOf(relay)' = FileOf(relay)
    BY <1>2, <1>3, <1>6 DEF At
  <2> QED
    BY <1>1, <2>1 DEF Lines, Good, Base, Size
<1>7. CASE files'[path].id > made
  BY <1>2, <1>4, <1>5, <1>7
<1>8. CASE /\ files[path] # None
           /\ files'[path].id = files[path].id
           /\ Size(files[path]) <= Size(files'[path])
           /\ \E more \in Seq(Rows) : files'[path].lines = files[path].lines \o more
  <2>1. At(relay)
    BY <1>2, <1>3, <1>8 DEF At
  <2>2. PICK more \in Seq(Rows) : files'[path].lines = files[path].lines \o more
    BY <1>8
  <2>3. Lines(relay)' = Lines(relay) \o more /\ Lines(relay) \in Seq(Rows)
    BY <1>1, <1>2, <1>3, <2>1, <2>2, FileOfTyped DEF Lines, At
  <2>4. relay.end \in Nat /\ relay.end <= Size(FileOf(relay))
    BY <1>1, <2>1 DEF Good, Base, Relay
  <2>5. half \in Nat /\ half <= Len(Lines(relay))
    <3>1. /\ Size(FileOf(relay)) \in {2 * Len(Lines(relay)), 2 * Len(Lines(relay)) + 1}
          /\ Len(Lines(relay)) \in Nat
      BY <1>1, <2>1, FileOfTyped DEF At, Lines
    <3> QED
      BY <2>4, <3>1
  <2>6. relay.end <= Size(FileOf(relay))'
    <3>1. Size(files[path]) \in Nat /\ Size(FileOf(relay))' = Size(files'[path])
      BY <1>1, <1>2, <1>3, FileOfTyped DEF Size
    <3>2. Size(files'[path]) \in Nat
      <4> DEFINE n == Len(files'[path].lines)
      <4>1. n \in Nat /\ Size(files'[path]) = 2 * n + (IF files'[path].torn THEN 1 ELSE 0)
        BY <1>2, <1>4 DEF File, Size
      <4> HIDE DEF n
      <4> QED
        BY <4>1
    <3> QED
      BY <1>3, <1>8, <2>4, <3>1, <3>2
  <2> HIDE DEF half
  <2>7. \A a \in Nat \ {0} :
         SubSeq(Lines(relay) \o more, a, half) = SubSeq(Lines(relay), a, half)
    BY <2>3, <2>5, SubSeqGrows
  <2> QED
    BY <2>1, <2>3, <2>6, <2>7 DEF half
<1> QED
  BY <1>2, <1>6, <1>7, <1>8 DEF GoesOn

LEMMA WorldKeeps ==
  ASSUME IInv, Typed', \A path \in Paths : GoesOn(path), made <= made', UNCHANGED readVars
  PROVE  IInv'
<1>1. relay' = relay /\ gens' = gens /\ scans' = scans /\ Typed /\ Scanning
  BY DEF readVars, IInv
<1>2. made \in Nat /\ made' \in Nat
  BY DEF IInv, Typed
<1>3. ASSUME relay # None
      PROVE  Good(relay)' /\ AtLine(relay)'
  <2>1. relay \in Relay /\ Good(relay) /\ AtLine(relay)
    BY <1>3 DEF IInv, Good, Base
  <2>2. relay.seen \in Nat \/ relay.seen = None
    BY <2>1 DEF Relay
  <2>3. Base(relay)'
    BY <1>1, <1>2, <1>3, <2>1, <2>2, ReadStays DEF Good, Base
  <2>4. TabGood(relay)'
    <3> SUFFICES ASSUME relay.tab # None
                 PROVE  /\ relay.tab.base <= relay.end
                        /\ relay.seen = None => relay.tab.got = <<>>
                        /\ At(relay)' => relay.tab.got =
                             SubSeq(Lines(relay)', relay.tab.base \div 2 + 1, relay.end \div 2)
      BY <1>1 DEF TabGood
    <3>1. relay.tab.base \div 2 + 1 \in Nat \ {0}
      BY <2>1 DEF Relay, Tab
    <3> QED
      BY <1>3, <2>1, <3>1, ReadStays DEF Good, TabGood
  <2>5. FoldGood(relay)'
    <3> DEFINE first == 1
    <3>1. first \in Nat \ {0}
      OBVIOUS
    <3> HIDE DEF first
    <3>2. At(relay)' => /\ At(relay)
                        /\ SubSeq(Lines(relay)', first, relay.end \div 2) =
                             SubSeq(Lines(relay), first, relay.end \div 2)
      BY <1>3, <3>1, ReadStays
    <3>3. At(relay)' => /\ At(relay)
                        /\ SubSeq(Lines(relay)', 1, relay.end \div 2) =
                             SubSeq(Lines(relay), 1, relay.end \div 2)
      BY <3>2 DEF first
    <3> QED
      BY <1>1, <2>1, <3>3 DEF Good, FoldGood
  <2> QED
    BY <1>1, <2>1, <2>3, <2>4, <2>5 DEF Good, AtLine
<1>4. Scanning'
  <2>1. ASSUME relay # None, At(relay)'
        PROVE  /\ At(relay)
               /\ SubSeq(Lines(relay)', 1, relay.end \div 2) =
                             SubSeq(Lines(relay), 1, relay.end \div 2)
    <3> DEFINE first == 1
    <3>1. first \in Nat \ {0}
      OBVIOUS
    <3> HIDE DEF first
    <3>2. /\ At(relay)
          /\ SubSeq(Lines(relay)', first, relay.end \div 2) =
               SubSeq(Lines(relay), first, relay.end \div 2)
      BY <2>1, <3>1, ReadStays
    <3> QED
      BY <3>2 DEF first
  <2> QED
    BY <1>1, <2>1 DEF Scanning
<1>5. relay' # None => Timed(relay)'
  BY <1>1 DEF IInv, Timed, Waits
<1> QED
  BY <1>1, <1>3, <1>4, <1>5 DEF IInv

LEMMA SizeGrows ==
  ASSUME NEW f \in File, NEW g \in File, NEW more \in Seq(Rows), f # None, g # None,
         g.lines = f.lines \o more, more # <<>> \/ ~f.torn
  PROVE  Size(f) <= Size(g)
<1> DEFINE n == Len(f.lines)
           m == Len(more)
<1>1. n \in Nat /\ m \in Nat /\ (more # <<>> => m # 0) /\ Len(g.lines) = n + m
      /\ f.torn \in BOOLEAN /\ g.torn \in BOOLEAN
  BY EmptySeq, ConcatProperties DEF File
<1>2. Size(f) = 2 * n + (IF f.torn THEN 1 ELSE 0)
  BY DEF Size
<1>3. Size(g) = 2 * (n + m) + (IF g.torn THEN 1 ELSE 0)
  BY <1>1 DEF Size
<1> HIDE DEF n, m
<1>4. CASE ~f.torn
  BY <1>1, <1>2, <1>3, <1>4
<1>5. CASE f.torn /\ m # 0
  BY <1>1, <1>2, <1>3, <1>5
<1> QED
  BY <1>1, <1>4, <1>5

LEMMA TypedKeeps ==
  ASSUME Typed, NEW path \in Paths, NEW g \in File \cup {None}, files' = [files EXCEPT ![path] = g],
         made' \in 0..MaxFiles, made <= made', written' \in 0..MaxRows, written <= written',
         UNCHANGED <<cur, named, gens, scans>>,
         g # None => g.id <= made' /\ (g.torn => written' # 0)
  PROVE  Typed'
<1>1. files' \in [Paths -> File \cup {None}]
  BY DEF Typed
<1>2. ASSUME NEW p \in Paths, files'[p] # None
      PROVE  files'[p].id <= made' /\ (files'[p].torn => written' # 0)
  <2>1. CASE p = path
    BY <1>2, <2>1 DEF Typed
  <2>2. CASE p # path
    <3>1. files'[p] = files[p] /\ files[p] \in File
      BY <1>2, <2>2 DEF Typed
    <3>2. files[p].id \in Nat /\ files[p].id <= made /\ (files[p].torn => written # 0)
      BY <1>2, <3>1, RelayAssumption DEF Typed, File
    <3> QED
      BY <3>1, <3>2, RelayAssumption DEF Typed
  <2> QED
    BY <2>1, <2>2
<1> QED
  BY <1>1, <1>2 DEF Typed

LEMMA WriteLineKeeps ==
  ASSUME IInv, WriteLine
  PROVE  IInv'
<1>1. Typed
  BY DEF IInv
<1>2. /\ written \in Nat /\ written + 1 \in Rows /\ written' = written + 1 /\ written' \in 0..MaxRows
      /\ cur \in Paths /\ made \in Nat /\ cur' = cur /\ named' = named /\ UNCHANGED readVars
  BY <1>1, RelayAssumption DEF Typed, WriteLine, Rows
<1> DEFINE L(torn) == IF torn THEN <<>> ELSE <<written + 1>>
<1>3. PICK torn \in BOOLEAN :
        IF files[cur] = None
        THEN /\ made < MaxFiles /\ made' = made + 1
             /\ files' = [files EXCEPT ![cur] = [id |-> made + 1, lines |-> L(torn), torn |-> torn]]
        ELSE /\ ~files[cur].torn /\ UNCHANGED made
             /\ files' = [files EXCEPT ![cur].lines = @ \o L(torn), ![cur].torn = torn]
  BY DEF WriteLine
<1> DEFINE lines == L(torn)
<1>4. lines \in Seq(Rows)
  <2>1. <<>> \in Seq(Rows) /\ <<written + 1>> \in Seq(Rows)
    BY <1>2
  <2> QED
    BY <2>1
<1>5. CASE files[cur] = None
  <2> DEFINE g == [id |-> made + 1, lines |-> lines, torn |-> torn]
  <2>1. made < MaxFiles /\ made' = made + 1 /\ files' = [files EXCEPT ![cur] = g]
    BY <1>3, <1>5
  <2> HIDE DEF lines
  <2>2. g \in File /\ g.id = made + 1
    BY <1>1, <1>2, <1>4, <2>1, RelayAssumption DEF File, Typed
  <2> HIDE DEF g
  <2>3. Typed'
    <3>1. made' \in 0..MaxFiles /\ made <= made' /\ written <= written' /\ written' # 0
      BY <1>1, <1>2, <2>1, RelayAssumption DEF Typed
    <3>2. UNCHANGED <<cur, named, gens, scans>>
      BY <1>2 DEF readVars
    <3>3. g.id <= made' /\ g \in File \cup {None}
      BY <1>2, <2>1, <2>2
    <3> QED
      BY <1>1, <1>2, <2>1, <3>1, <3>2, <3>3, TypedKeeps
  <2>4. \A path \in Paths : GoesOn(path)
    BY <1>1, <1>2, <2>1, <2>2 DEF Typed, GoesOn
  <2> QED
    BY <1>2, <2>1, <2>3, <2>4, WorldKeeps
<1>6. CASE files[cur] # None
  <2> DEFINE f == files[cur]
             g == [f EXCEPT !.lines = @ \o lines, !.torn = torn]
  <2>1. f \in File /\ f.id <= made /\ ~f.torn
    BY <1>1, <1>2, <1>3, <1>6 DEF Typed
  <2>2. made' = made /\ files' = [files EXCEPT ![cur] = g]
    BY <1>1, <1>2, <1>3, <1>6, <2>1 DEF Typed, File
  <2> HIDE DEF lines, f
  <2>3. g \in File /\ g.id = f.id /\ g.lines = f.lines \o lines /\ g # None
    <3>1. f.lines \o lines \in Seq(Rows)
      BY <1>4, <2>1 DEF File
    <3> QED
      BY <2>1, <3>1, NoneAssumption DEF File
  <2> HIDE DEF g
  <2>4. Typed'
    BY <1>1, <1>2, <2>1, <2>2, <2>3, RelayAssumption DEF Typed, readVars
  <2>5. Size(f) <= Size(g)
    BY <1>4, <1>6, <2>1, <2>3, SizeGrows DEF f
  <2>6. GoesOn(cur)
    BY <1>1, <1>2, <1>4, <1>6, <2>2, <2>3, <2>5 DEF Typed, GoesOn, f
  <2>7. \A path \in Paths : GoesOn(path)
    BY <1>1, <1>2, <2>2, <2>6 DEF Typed, GoesOn
  <2> QED
    BY <1>2, <2>2, <2>4, <2>7, WorldKeeps
<1> QED
  BY <1>5, <1>6

LEMMA FinishLineKeeps ==
  ASSUME IInv, FinishLine
  PROVE  IInv'
<1>1. Typed /\ UNCHANGED <<made, written, cur, named, readVars>>
  BY DEF IInv, FinishLine
<1> DEFINE f == files[cur]
           g == [f EXCEPT !.lines = Append(@, written), !.torn = FALSE]
<1>2. cur \in Paths /\ f # None /\ f \in File /\ f.torn /\ f.id <= made /\ made \in Nat
  BY <1>1 DEF Typed, FinishLine
<1>3. written \in Rows
  BY <1>1, <1>2, RelayAssumption DEF Typed, Rows
<1>4. files' = [files EXCEPT ![cur] = g]
  BY <1>1, <1>2 DEF Typed, FinishLine
<1> HIDE DEF f
<1>5. <<written>> \in Seq(Rows) /\ <<written>> # <<>>
  BY <1>3
<1>6. g \in File /\ g.id = f.id /\ g.lines = f.lines \o <<written>> /\ g # None /\ ~g.torn
  <2>1. f.lines \in Seq(Rows) /\ Append(f.lines, written) = f.lines \o <<written>>
        /\ Append(f.lines, written) \in Seq(Rows)
    BY <1>2, <1>3, AppendIsConcat, AppendProperties DEF File
  <2> QED
    BY <1>2, <2>1, NoneAssumption DEF File
<1> HIDE DEF g
<1>7. Typed'
  BY <1>1, <1>2, <1>4, <1>6 DEF Typed, readVars
<1>8. Size(f) <= Size(g)
  BY <1>2, <1>5, <1>6, SizeGrows
<1>9. GoesOn(cur)
  BY <1>1, <1>2, <1>4, <1>5, <1>6, <1>8 DEF Typed, GoesOn, f
<1>10. \A path \in Paths : GoesOn(path)
  BY <1>1, <1>2, <1>4, <1>9 DEF Typed, GoesOn
<1> QED
  BY <1>1, <1>2, <1>7, <1>10, WorldKeeps

LEMMA RewriteKeeps ==
  ASSUME IInv, Rewrite
  PROVE  IInv'
<1>1. Typed /\ UNCHANGED <<written, cur, named, readVars>>
  BY DEF IInv, Rewrite
<1> DEFINE f == files[cur]
<1>2. cur \in Paths /\ f # None /\ f \in File /\ ~f.torn /\ f.id <= made /\ made \in Nat
  BY <1>1 DEF Typed, Rewrite
<1>3. CASE /\ made < MaxFiles /\ made' = made + 1
           /\ \E n \in 0..Len(f.lines) :
                files' = [files EXCEPT ![cur].id = made + 1, ![cur].lines = SubSeq(@, 1, n)]
  <2>1. PICK n \in 0..Len(f.lines) :
          files' = [files EXCEPT ![cur].id = made + 1, ![cur].lines = SubSeq(@, 1, n)]
    BY <1>3
  <2> DEFINE part == SubSeq(f.lines, 1, n)
             g == [f EXCEPT !.id = made + 1, !.lines = part]
  <2>2. part \in Seq(Rows)
    BY <1>2 DEF File
  <2>3. files' = [files EXCEPT ![cur] = g]
    BY <1>1, <1>2, <2>1 DEF Typed, File
  <2> HIDE DEF part, f
  <2>4. g \in File /\ g.id = made + 1 /\ ~g.torn
    <3>1. made + 1 \in 1..MaxFiles
      BY <1>2, <1>3, RelayAssumption
    <3> QED
      BY <1>2, <2>2, <3>1 DEF File
  <2> HIDE DEF g
  <2>5. Typed'
    <3>1. made' \in 0..MaxFiles /\ made <= made'
      BY <1>1, <1>2, <1>3, RelayAssumption DEF Typed
    <3>2. written' = written /\ written \in 0..MaxRows /\ written <= written
      BY <1>1, RelayAssumption DEF Typed
    <3>3. UNCHANGED <<cur, named, gens, scans>>
      BY <1>1 DEF readVars
    <3>4. g.id <= made' /\ g \in File \cup {None} /\ ~g.torn
      BY <1>2, <1>3, <2>4
    <3> QED
      BY <1>1, <1>2, <2>3, <3>1, <3>2, <3>3, <3>4, TypedKeeps
  <2>6. \A path \in Paths : GoesOn(path)
    BY <1>1, <1>2, <2>3, <2>4 DEF Typed, GoesOn
  <2> QED
    BY <1>1, <1>2, <1>3, <2>5, <2>6, WorldKeeps
<1>4. CASE files' = [files EXCEPT ![cur] = None] /\ UNCHANGED made
  <2>1. Typed'
    BY <1>1, <1>2, <1>4 DEF Typed, readVars
  <2>2. \A path \in Paths : GoesOn(path)
    BY <1>1, <1>2, <1>4 DEF Typed, GoesOn
  <2> QED
    BY <1>1, <1>2, <1>4, <2>1, <2>2, WorldKeeps
<1> QED
  BY <1>3, <1>4 DEF Rewrite

LEMMA FilesStandKeeps ==
  ASSUME IInv, UNCHANGED <<files, made, written, readVars>>, cur' \in Paths,
         named' \in Paths \cup {None}
  PROVE  IInv'
<1>1. Typed'
  BY DEF IInv, Typed, readVars
<1>2. \A path \in Paths : GoesOn(path)
  BY DEF GoesOn
<1>3. made <= made'
  BY DEF IInv, Typed
<1> QED
  BY <1>1, <1>2, <1>3, WorldKeeps

LEMMA HelloKeeps ==
  ASSUME IInv, "cut" \notin Faults, Hello
  PROVE  IInv'
<1>1. named' = cur /\ cur \in Paths /\ UNCHANGED worldVars
  BY NamedTyped DEF Hello
<1>2. CASE named # None /\ relay # None /\ relay.file # cur
  <2>1. PICK ok \in Oks : Becomes(Retarget(relay, cur, ok), scans)
    BY <1>2 DEF Hello
  <2>2. ok \in BOOLEAN
    BY DEF Oks
  <2>3. relay \in Relay /\ Good(relay) /\ relay.gen <= gens /\ Typed
    BY <1>2 DEF IInv, Good, Base, Scanning
  <2> DEFINE x == Retarget(relay, cur, ok)
  <2>4. /\ x \in Relay /\ Good(x) /\ x.live = relay.live
        /\ relay.live => Begun(x) /\ Timed(x)
        /\ ~relay.live => /\ x.gen = relay.gen /\ ~x.catchUp /\ x.retry = None
                          /\ relay.tab # None => x.tab # None
    BY <1>1, <2>2, <2>3, RetargetGood
  <2> HIDE DEF x
  <2>5. Timed(x)
    BY <1>2, <2>4 DEF IInv, Timed, Waits
  <2>6. MayBecome(x, scans)
    BY <2>3, <2>4, <2>5 DEF MayBecome
  <2> QED
    BY <1>1, <2>1, <2>6, BecomesKeeps DEF x
<1>3. CASE ~(named # None /\ relay # None /\ relay.file # cur)
  <2>1. UNCHANGED readVars
    BY <1>3 DEF Hello
  <2> QED
    BY <1>1, <2>1, FilesStandKeeps DEF worldVars
<1> QED
  BY <1>2, <1>3

-----------------------------------------------------------------------------
LEMMA InitHolds == Init => IInv
<1> SUFFICES ASSUME Init PROVE IInv
  OBVIOUS
<1>1. cur \in Paths
  BY RelayAssumption DEF Init
<1> QED
  BY <1>1, RelayAssumption DEF Init, IInv, Typed, Scanning

LEMMA NextKeeps ==
  ASSUME "cut" \notin Faults, IInv, [Next]_vars
  PROVE  IInv'
<1>1. CASE GoesLive \/ GoesDown \/ Refold \/ Subscribe \/ Unsubscribe
  BY <1>1, GoesLiveKeeps, GoesDownKeeps, RefoldKeeps, SubscribeKeeps, UnsubscribeKeeps
<1>2. CASE \E rows \in (SUBSET Rows) \ {{}} : Push(rows)
  BY <1>2, PushKeeps
<1>3. CASE Tick \/ GiveUp
  BY <1>3, TickKeeps, GiveUpKeeps
<1>4. CASE ScanStep \/ \E s \in scans : ScanFails(s)
  BY <1>4, ScanOpensKeeps, ScanTakesKeeps, ScanLandsKeeps, ScanFailsKeeps DEF ScanStep
<1>5. CASE WriteLine \/ FinishLine \/ Rewrite \/ Hello
  BY <1>5, WriteLineKeeps, FinishLineKeeps, RewriteKeeps, HelloKeeps
<1>6. CASE Moves
  BY <1>6, NamedTyped, FilesStandKeeps DEF Moves
<1>7. CASE UNCHANGED vars
  BY <1>7, NamedTyped, FilesStandKeeps DEF vars, worldVars
<1> QED
  BY <1>1, <1>2, <1>3, <1>4, <1>5, <1>6, <1>7 DEF Next

(* Every reachable state of every instance is as IInv says, the relay's own *)
(* steps, the scans and the session's writes taken in any order.            *)
THEOREM Invariance == ASSUME "cut" \notin Faults PROVE Spec => []IInv
<1>1. Init => IInv
  BY InitHolds
<1>2. IInv /\ [Next]_vars => IInv'
  BY NextKeeps
<1> QED
  BY <1>1, <1>2, PTL DEF Spec

(* The relay and its scans are of their types; a catch-up has no wait       *)
(* beside it, and a wait under way is for some row (waitForRows).           *)
THEOREM Typing == ASSUME "cut" \notin Faults PROVE Spec => []TypeOK
<1>1. IInv => TypeOK
  BY DEF IInv, Typed, Good, Base, Timed, Waits, TypeOK
<1> QED
  BY <1>1, Invariance, PTL

(* The folds of a live session hold every complete line up to where the     *)
(* reading stands, once and in order, whatever was superseded, replaced or  *)
(* pushed on the way (LineFold, startCatchUp).                              *)
THEOREM FoldsHoldLines == ASSUME "cut" \notin Faults PROVE Spec => []FoldsExact
<1>1. IInv => FoldsExact
  BY DEF IInv, Good, FoldGood, FoldsExact, OnFile, At, Lines
<1> QED
  BY <1>1, Invariance, PTL

(* A tab was sent every line from where its following began, each once and  *)
(* in order (send, relaySubscribe, retarget).                               *)
THEOREM TabHoldsLines == ASSUME "cut" \notin Faults PROVE Spec => []TabExact
<1>1. IInv => TabExact
  BY DEF IInv, Good, TabGood, TabExact, OnFile, At, Lines
<1> QED
  BY <1>1, Invariance, PTL

-----------------------------------------------------------------------------
(* What waited is still awaited, or was read.                              *)
Held(x, r) == r.waiting \subseteq x.waiting \cup x.read

LEMMA ReadOnHolds ==
  ASSUME Typed, NEW r \in Relay, At(r), r.end <= Size(FileOf(r)), NEW ok \in BOOLEAN
  PROVE  LET x == ReadOn(r, ok)
         IN  /\ Held(x, r) /\ (r.catchUp => x = r) /\ (~r.catchUp => ~x.catchUp)
             /\ ~r.catchUp /\ ~x.misread => Uuids(LinesFrom(FileOf(r), r.end)) \subseteq x.read
<1>1. CASE r.catchUp
  BY <1>1 DEF ReadOn, Held
<1>2. CASE ~r.catchUp
  <2> DEFINE x == ReadLines(r, ok)
             new == LinesFrom(FileOf(r), r.end)
  <2>1. ~Replaced(r)
    BY FileOfTyped DEF Replaced, At, Relay
  <2>2. ReadOn(r, ok) = x
    BY <1>2, <2>1 DEF ReadOn, At
  <2>3. Uuids(<<>>) = {}
    BY DEF Uuids, ToSet
  <2> HIDE DEF new
  <2>4. CASE ~ok \/ new = <<>>
    <3>1. /\ x.waiting = r.waiting /\ x.catchUp = r.catchUp
          /\ x.misread = (~ok /\ new # <<>>)
      BY <2>4 DEF ReadLines, Relay, new
    <3> HIDE DEF x
    <3> QED
      BY <1>2, <2>2, <2>3, <2>4, <3>1 DEF Held, new
  <2>5. CASE ok /\ new # <<>>
    <3>1. /\ x.waiting = r.waiting \ Uuids(new) /\ x.read = r.read \cup Uuids(new)
          /\ x.catchUp = r.catchUp
      BY <2>5 DEF ReadLines, Relay, new
    <3> HIDE DEF x
    <3> QED
      BY <1>2, <2>2, <3>1 DEF Held, new
  <2> QED
    BY <2>4, <2>5
<1> QED
  BY <1>1, <1>2

LEMMA ReadGrows ==
  ASSUME Typed, NEW r \in Relay, At(r), r.end <= Size(FileOf(r)), NEW ok \in BOOLEAN
  PROVE  r.read \subseteq ReadOn(r, ok).read
<1>1. ~Replaced(r)
  BY FileOfTyped DEF Replaced, At, Relay
<1>2. ReadOn(r, ok) = r \/ ReadOn(r, ok) = ReadLines(r, ok)
  BY <1>1 DEF ReadOn
<1>3. r.read \subseteq ReadLines(r, ok).read
  <2> DEFINE new == LinesFrom(FileOf(r), r.end)
  <2>1. CASE ~ok \/ new = <<>>
    BY <2>1 DEF ReadLines, Relay
  <2>2. CASE ok /\ new # <<>>
    <3>1. ReadLines(r, ok).read = r.read \cup Uuids(new)
      BY <2>2 DEF ReadLines, Relay
    <3> QED
      BY <3>1
  <2> QED
    BY <2>1, <2>2
<1> QED
  BY <1>2, <1>3

LEMMA WaitHolds ==
  ASSUME NEW y \in Relay
  PROVE  WaitForRows(y).waiting = y.waiting /\ WaitForRows(y).read = y.read
  BY DEF WaitForRows, Relay

LEMMA LandedHolds ==
  ASSUME Typed, NEW r \in Relay, Base(r), TabGood(r), AtLine(r), At(r), NEW ok \in BOOLEAN,
         r.live /\ ~r.partial => r.fold = SubSeq(Lines(r), 1, r.end \div 2)
  PROVE  Held(Landed(r, ok), r)
<1> DEFINE y == [r EXCEPT !.catchUp = FALSE, !.waiting = @ \ r.read]
           z == ReadOn(y, ok)
<1>1. /\ y \in Relay /\ ~y.catchUp /\ y.file = r.file /\ y.end = r.end /\ y.seen = r.seen
      /\ y.live = r.live /\ y.fold = r.fold /\ y.partial = r.partial /\ y.tab = r.tab
      /\ y.waiting = r.waiting \ r.read /\ y.read = r.read
  BY DEF Relay
<1>2. Landed(r, ok) = WaitForRows(z)
  BY DEF Landed
<1> HIDE DEF y
<1>3. FileOf(y) = FileOf(r) /\ At(y) /\ Lines(y) = Lines(r) /\ y.seen # None
  BY <1>1, FileOfTyped DEF FileOf, At, Lines
<1>4. Good(y) /\ AtLine(y) /\ y.end <= Size(FileOf(y))
  BY <1>1, <1>3 DEF Good, Base, TabGood, FoldGood, AtLine
<1>5. z \in Relay /\ Held(z, y) /\ r.read \subseteq z.read
  <2>1. z \in Relay
    BY <1>1, <1>4, ReadOnGood DEF After
  <2>2. Held(z, y)
    BY <1>1, <1>3, <1>4, ReadOnHolds
  <2>3. r.read \subseteq z.read
    BY <1>1, <1>3, <1>4, ReadGrows DEF z
  <2> QED
    BY <2>1, <2>2, <2>3
<1> HIDE DEF z
<1> QED
  BY <1>1, <1>2, <1>5, WaitHolds DEF Held

LEMMA StartCatchUpHolds ==
  ASSUME Typed, NEW r \in Relay, Base(r), TabGood(r), At(r), NEW ok \in BOOLEAN
  PROVE  Held(StartCatchUp(r, ok), r)
<1> DEFINE started == [r EXCEPT !.fold = <<>>, !.retry = None, !.gen = gens + 1, !.partial = FALSE]
<1>1. CASE ~r.live
  BY <1>1 DEF StartCatchUp, Held
<1>2. /\ started \in Relay /\ started.fold = <<>>
      /\ started.file = r.file /\ started.end = r.end /\ started.seen = r.seen
      /\ started.live = r.live /\ started.tab = r.tab /\ ~started.partial
      /\ started.waiting = r.waiting /\ started.read = r.read
  <2>1. <<>> \in Seq(Read) /\ gens + 1 \in Nat
    BY DEF Typed
  <2> QED
    BY <2>1 DEF Relay
<1> HIDE DEF started
<1>3. FileOf(started) = FileOf(r) /\ At(started) /\ Lines(started) = Lines(r)
  BY <1>2 DEF FileOf, At, Lines
<1>4. CASE r.live /\ (r.file = None \/ r.end = 0)
  <2>1. StartCatchUp(r, ok) = Landed(started, ok)
    BY <1>4 DEF StartCatchUp, started
  <2>2. started.end = 0 /\ Base(started) /\ TabGood(started)
    BY <1>2, <1>3, <1>4 DEF Base, TabGood
  <2>3. AtLine(started) /\ started.fold = SubSeq(Lines(started), 1, started.end \div 2)
    <3>1. SubSeq(Lines(started), 1, 0) = <<>>
      BY SubSeqEmpty
    <3> QED
      BY <1>2, <2>2, <3>1 DEF AtLine
  <2>4. Held(Landed(started, ok), started)
    BY <1>2, <1>3, <2>2, <2>3, LandedHolds
  <2> QED
    BY <1>2, <2>1, <2>4 DEF Held
<1>5. CASE r.live /\ ~(r.file = None \/ r.end = 0)
  <2>1. StartCatchUp(r, ok) = [started EXCEPT !.catchUp = TRUE]
    BY <1>5 DEF StartCatchUp, started
  <2> QED
    BY <1>2, <2>1 DEF Held, Relay
<1> QED
  BY <1>1, <1>4, <1>5

(* Every step keeps the rows that waited, or reads them, or reads another  *)
(* file; only the deadline gives rows up, and those are not in the file.   *)
LEMMA StepHolds ==
  ASSUME "cut" \notin Faults, IInv, [Next]_vars, OnFile, relay' # None
  PROVE  \/ Held(relay', relay)
         \/ relay'.file # relay.file
         \/ relay'.misread
         \/ Uuids(LinesFrom(FileOf(relay), relay.end)) \subseteq relay'.read
<1>1. /\ relay \in Relay /\ Good(relay) /\ AtLine(relay) /\ Typed /\ Timed(relay)
      /\ relay # None /\ At(relay) /\ relay.end <= Size(FileOf(relay)) /\ relay.file # None
      /\ relay.seen # None
  BY FileOfTyped DEF IInv, OnFile, At, Good, Base
<1>2. Oks \subseteq BOOLEAN
  BY DEF Oks
<1>3. CASE GoesLive
  <2> DEFINE r == [relay EXCEPT !.live = TRUE]
  <2>1. PICK ok \in Oks : relay' = StartCatchUp(r, ok)
    BY <1>1, <1>3 DEF GoesLive, Becomes, RelayOf
  <2>2. /\ r \in Relay /\ r.file = relay.file /\ r.end = relay.end /\ r.seen = relay.seen
        /\ r.tab = relay.tab /\ r.waiting = relay.waiting
    BY <1>1 DEF Relay
  <2> HIDE DEF r
  <2>3. FileOf(r) = FileOf(relay) /\ At(r) /\ Lines(r) = Lines(relay)
    BY <1>1, <2>2 DEF FileOf, At, Lines
  <2>4. Base(r) /\ TabGood(r)
    BY <1>1, <2>2, <2>3 DEF Good, Base, TabGood
  <2>5. Held(relay', r)
    BY <1>1, <1>2, <2>1, <2>2, <2>3, <2>4, StartCatchUpHolds
  <2> QED
    BY <2>2, <2>5 DEF Held
<1>4. CASE GoesDown
  <2>1. relay' = [relay EXCEPT !.live = FALSE, !.catchUp = FALSE, !.read = {}, !.fold = <<>>]
    BY <1>4 DEF GoesDown, Becomes, DropIfUnused
  <2> QED
    BY <1>1, <2>1 DEF Held, Relay
<1>5. CASE Refold
  <2>1. PICK ok \in Oks : relay' = StartCatchUp(relay, ok)
    BY <1>5 DEF Refold, Becomes
  <2> QED
    BY <1>1, <1>2, <2>1, StartCatchUpHolds DEF Good
<1>6. CASE Subscribe
  <2>1. named \in Paths /\ named # None
    BY <1>6, NamedTyped DEF Subscribe
  <2>2. CASE relay.file # named
    <3> DEFINE R(ok) == Retarget(relay, named, ok)
    <3>1. PICK ok \in Oks : relay' = [R(ok) EXCEPT !.tab = [base |-> R(ok).end, got |-> <<>>]]
      BY <1>1, <1>6, <2>2 DEF Subscribe, Becomes, RelayOf
    <3>2. R(ok) \in Relay /\ R(ok).file = named
      BY <1>1, <1>2, <2>1, RetargetGood
    <3> HIDE DEF R
    <3>3. relay'.file = named
      BY <3>1, <3>2 DEF Relay
    <3> QED
      BY <2>2, <3>3
  <2>3. CASE relay.file = named
    <3>1. relay' = [relay EXCEPT !.tab = [base |-> relay.end, got |-> <<>>]]
      BY <1>1, <1>6, <2>3 DEF Subscribe, Becomes, RelayOf
    <3> QED
      BY <1>1, <3>1 DEF Held, Relay
  <2> QED
    BY <2>2, <2>3
<1>7. CASE Unsubscribe
  <2>1. relay' = [relay EXCEPT !.tab = None]
    BY <1>7 DEF Unsubscribe, Becomes, DropIfUnused
  <2> QED
    BY <1>1, <2>1 DEF Held, Relay
<1>8. ASSUME NEW rows \in SUBSET Rows, Push(rows)
      PROVE  Held(relay', relay)
  <2> DEFINE r == [relay EXCEPT !.file = relay.file, !.waiting = @ \cup (rows \ relay.read)]
  <2>1. PICK ok \in Oks : relay' = IF r.catchUp THEN r ELSE WaitForRows(ReadOn(r, ok))
    BY <1>1, <1>8 DEF Push, Becomes
  <2>2. /\ r \in Relay /\ r.file = relay.file /\ r.end = relay.end /\ r.seen = relay.seen
        /\ r.live = relay.live /\ r.fold = relay.fold /\ r.catchUp = relay.catchUp
        /\ r.partial = relay.partial /\ r.tab = relay.tab
        /\ relay.waiting \subseteq r.waiting
    BY <1>1 DEF Relay
  <2> HIDE DEF r
  <2>3. FileOf(r) = FileOf(relay) /\ At(r) /\ Lines(r) = Lines(relay) /\ r.end <= Size(FileOf(r))
    BY <1>1, <2>2 DEF FileOf, At, Lines
  <2>4. Good(r) /\ AtLine(r)
    BY <1>1, <2>2, <2>3 DEF Good, Base, TabGood, FoldGood, AtLine
  <2>5. Held(ReadOn(r, ok), r) /\ ReadOn(r, ok) \in Relay
    BY <1>1, <1>2, <2>2, <2>3, <2>4, ReadOnHolds, ReadOnGood DEF After
  <2>6. Held(WaitForRows(ReadOn(r, ok)), r)
    BY <2>5, WaitHolds DEF Held
  <2> QED
    BY <2>1, <2>2, <2>6 DEF Held
<1>9. CASE Tick
  <2> DEFINE R(ok) == ReadOn(relay, ok)
  <2>1. PICK ok \in Oks : relay' = IF R(ok).waiting = {} \/ R(ok).catchUp
                                   THEN [R(ok) EXCEPT !.retry = None] ELSE R(ok)
    BY <1>9 DEF Tick, Becomes
  <2>2. Held(R(ok), relay) /\ R(ok) \in Relay
    BY <1>1, <1>2, ReadOnHolds, ReadOnGood DEF After
  <2> HIDE DEF R
  <2>3. relay'.waiting = R(ok).waiting /\ relay'.read = R(ok).read
    BY <2>1, <2>2 DEF Relay
  <2> QED
    BY <2>2, <2>3 DEF Held
<1>10. CASE GiveUp
  <2> DEFINE R(ok) == ReadOn(relay, ok)
  <2>1. PICK ok \in Oks : relay' = [R(ok) EXCEPT !.retry = None,
                                                 !.waiting = IF R(ok).catchUp THEN @ ELSE {}]
    BY <1>10 DEF GiveUp, Becomes
  <2>2. /\ R(ok) \in Relay
        /\ Held(R(ok), relay) /\ (relay.catchUp => R(ok) = relay) /\ (~relay.catchUp => ~R(ok).catchUp)
        /\ ~relay.catchUp /\ ~R(ok).misread =>
             Uuids(LinesFrom(FileOf(relay), relay.end)) \subseteq R(ok).read
    BY <1>1, <1>2, ReadOnHolds, ReadOnGood DEF After
  <2> HIDE DEF R
  <2>3. /\ relay'.read = R(ok).read /\ relay'.misread = R(ok).misread
        /\ R(ok).catchUp => relay'.waiting = R(ok).waiting
    BY <2>1, <2>2 DEF Relay
  <2>4. CASE relay.catchUp
    BY <2>2, <2>3, <2>4 DEF Held
  <2>5. CASE ~relay.catchUp
    BY <2>2, <2>3, <2>5
  <2> QED
    BY <2>4, <2>5
<1>11. ASSUME NEW s \in scans, ScanLands(s)
       PROVE  Held(relay', relay)
  <2>1. CASE Current(s)
    <3>1. PICK ok \in Oks : relay' = Landed(relay, ok)
      BY <1>11, <2>1 DEF ScanLands, Becomes
    <3>2. relay.live /\ relay.fold \in Seq(Read) /\ s.left = <<>> /\ s.gen = relay.gen /\ s.left # None
      <4>1. <<>> \in Seq(Rows)
        OBVIOUS
      <4> QED
        BY <1>1, <1>11, <2>1, <4>1, NoneAssumption DEF Current, ScanLands, Relay
    <3>3. relay.fold \o <<>> = relay.fold
      BY <3>2
    <3>4. ~relay.partial => relay.fold = SubSeq(Lines(relay), 1, relay.end \div 2)
      BY <1>1, <3>2, <3>3 DEF IInv, Scanning
    <3> QED
      BY <1>1, <1>2, <3>1, <3>4, LandedHolds DEF Good
  <2>2. CASE ~Current(s)
    BY <1>11, <2>2 DEF ScanLands, Held
  <2> QED
    BY <2>1, <2>2
<1>12. ASSUME NEW s \in scans, ScanOpens(s) \/ ScanTakes(s) \/ ScanFails(s)
       PROVE  Held(relay', relay)
  <2>1. \/ relay' = relay
        \/ relay' = [relay EXCEPT !.fold = Append(@, Head(s.left)), !.read = @ \cup {Head(s.left)}]
        \/ relay' = [relay EXCEPT !.partial = TRUE]
    BY <1>12 DEF ScanOpens, ScanTakes, ScanFails
  <2> QED
    BY <1>1, <2>1 DEF Held, Relay
<1>13. CASE Hello
  <2>1. CASE named # None /\ relay # None /\ relay.file # cur
    <3>1. PICK ok \in Oks : relay' = Retarget(relay, cur, ok)
      BY <1>13, <2>1 DEF Hello, Becomes
    <3>2. relay'.file = cur
      BY <1>1, <1>2, <3>1, NamedTyped, RetargetGood
    <3> QED
      BY <2>1, <3>2
  <2>2. CASE ~(named # None /\ relay # None /\ relay.file # cur)
    BY <1>13, <2>2 DEF Hello, readVars, Held
  <2> QED
    BY <2>1, <2>2
<1>14. CASE WriteLine \/ FinishLine \/ Rewrite \/ Moves \/ UNCHANGED vars
  <2>1. relay' = relay
    BY <1>14 DEF WriteLine, FinishLine, Rewrite, Moves, vars, readVars
  <2> QED
    BY <2>1 DEF Held
<1> QED
  BY <1>3, <1>4, <1>5, <1>6, <1>7, <1>8, <1>9, <1>10, <1>11, <1>12, <1>13, <1>14
     DEF Next, ScanStep

(* No row is given up while its line is in the file from where the reading  *)
(* stands, unless the last reading threw (waitForRows' deadline).           *)
THEOREM GivenUpUnread == ASSUME "cut" \notin Faults PROVE Spec => GivenUpUnwritten
<1>1. IInv /\ [Next]_vars =>
        \A u \in Rows :
          /\ OnFile /\ relay' # None /\ ~relay'.misread
          /\ u \in relay.waiting /\ u \notin relay'.waiting /\ u \notin relay'.read
          => u \notin Uuids(LinesFrom(FileOf(relay), relay.end)) \/ relay'.file # relay.file
  BY StepHolds DEF Held
<1> QED
  BY <1>1, Invariance, PTL DEF Spec, GivenUpUnwritten

-----------------------------------------------------------------------------
(* RowEffects: every row that the folds of a live session have counts as   *)
(* read.                                                                   *)
ReadKept(r) == r.live => Uuids(r.fold) \subseteq r.read
RelayKept == relay # None => ReadKept(relay)

LEMMA UuidsJoin ==
  ASSUME NEW s \in Seq(Read), NEW t \in Seq(Read)
  PROVE  Uuids(s \o t) = Uuids(s) \cup Uuids(t)
<1>1. ToSet(s \o t) = ToSet(s) \cup ToSet(t)
  <2>1. s \o t \in Seq(Read) /\ Len(s \o t) = Len(s) + Len(t)
    OBVIOUS
  <2>2. \A i \in 1..Len(s) : (s \o t)[i] = s[i]
    OBVIOUS
  <2>3. \A i \in 1..Len(t) : (s \o t)[Len(s) + i] = t[i] /\ Len(s) + i \in 1..Len(s \o t)
    BY <2>1
  <2>4. ASSUME NEW i \in 1..Len(s \o t) PROVE (s \o t)[i] \in ToSet(s) \cup ToSet(t)
    <3>1. CASE i <= Len(s)
      BY <2>2, <3>1 DEF ToSet
    <3>2. CASE i > Len(s)
      <4>1. i - Len(s) \in 1..Len(t) /\ (s \o t)[i] = t[i - Len(s)]
        BY <2>1, <3>2
      <4> QED
        BY <4>1 DEF ToSet
    <3> QED
      BY <2>1, <3>1, <3>2
  <2>5. ToSet(s) \subseteq ToSet(s \o t)
    <3>1. \A i \in 1..Len(s) : i \in 1..Len(s \o t)
      BY <2>1
    <3> QED
      BY <2>1, <2>2, <3>1 DEF ToSet
  <2>6. ToSet(t) \subseteq ToSet(s \o t)
    <3>1. ASSUME NEW i \in 1..Len(t) PROVE t[i] \in ToSet(s \o t)
      <4>1. Len(s) + i \in DOMAIN (s \o t) /\ (s \o t)[Len(s) + i] = t[i]
        BY <2>1, <2>3
      <4> QED
        BY <4>1 DEF ToSet
    <3>2. DOMAIN t = 1..Len(t)
      OBVIOUS
    <3> QED
      BY <3>1, <3>2 DEF ToSet
  <2>7. ToSet(s \o t) \subseteq ToSet(s) \cup ToSet(t)
    BY <2>1, <2>4 DEF ToSet
  <2> QED
    BY <2>5, <2>6, <2>7
<1> QED
  BY <1>1 DEF Uuids

LEMMA UuidsNone == Uuids(<<>>) = {}
  BY DEF Uuids, ToSet

LEMMA LinesFromRead ==
  ASSUME Typed, NEW r \in Relay, FileOf(r) # None
  PROVE  LinesFrom(FileOf(r), r.end) \in Seq(Read)
<1> DEFINE whole == SubSeq(FileOf(r).lines, r.end \div 2 + 1, Len(FileOf(r).lines))
<1>1. FileOf(r).lines \in Seq(Rows) /\ r.end \in Nat
  BY FileOfTyped DEF Relay
<1>2. whole \in Seq(Rows)
  <2>1. r.end \div 2 + 1 \in Nat \ {0}
    BY <1>1
  <2> QED
    BY <1>1, <2>1, SubSeqIsSeq
<1>3. whole \in Seq(Read)
  BY <1>2, RowsAreRead
<1> HIDE DEF whole
<1>4. whole # <<>> => [whole EXCEPT ![1] = RestOf(@)] \in Seq(Read)
  <2>1. whole # <<>> => 1 \in DOMAIN whole /\ RestOf(whole[1]) \in Read
    <3>1. whole # <<>> => 1 \in DOMAIN whole /\ whole[1] \in Rows
      BY <1>2
    <3> QED
      BY <3>1, RowsAreRead
  <2> QED
    BY <1>3, <2>1
<1>5. LinesFrom(FileOf(r), r.end) = IF r.end % 2 = 1 /\ whole # <<>> THEN [whole EXCEPT ![1] = RestOf(@)] ELSE whole
  BY DEF LinesFrom, whole
<1> QED
  BY <1>3, <1>4, <1>5

LEMMA ReadLinesKept ==
  ASSUME Typed, NEW r \in Relay, ReadKept(r), FileOf(r) # None, NEW ok \in BOOLEAN
  PROVE  ReadKept(ReadLines(r, ok)) /\ ReadLines(r, ok).live = r.live
<1> DEFINE new == LinesFrom(FileOf(r), r.end)
           x == ReadLines(r, ok)
<1>1. new \in Seq(Read) /\ r.fold \in Seq(Read)
  BY LinesFromRead DEF Relay
<1>2. CASE ~ok \/ new = <<>>
  <2>1. x.partial = r.partial /\ x.live = r.live /\ x.fold = r.fold /\ x.read = r.read
    BY <1>2 DEF ReadLines, Relay
  <2> QED
    BY <2>1 DEF ReadKept
<1>3. CASE ok /\ new # <<>>
  <2>1. /\ x.partial = r.partial /\ x.live = r.live /\ x.read = r.read \cup Uuids(new)
        /\ x.fold = IF r.live THEN r.fold \o new ELSE r.fold
    BY <1>3 DEF ReadLines, Relay
  <2>2. Uuids(r.fold \o new) = Uuids(r.fold) \cup Uuids(new)
    BY <1>1, UuidsJoin
  <2> HIDE DEF new
  <2> QED
    BY <2>1, <2>2 DEF ReadKept
<1> QED
  BY <1>2, <1>3

LEMMA StartOverKept ==
  ASSUME NEW r \in Relay, ReadKept(r)
  PROVE  ReadKept(StartOver(r)) /\ StartOver(r).live = r.live
<1> DEFINE x == StartOver(r)
<1>1. CASE r.live
  <2>1. ~x.partial /\ x.live = r.live /\ x.fold = <<>>
    BY <1>1 DEF StartOver, Relay
  <2> QED
    BY <2>1, UuidsNone DEF ReadKept
<1>2. CASE ~r.live
  <2>1. x.partial = r.partial /\ x.live = r.live
    BY <1>2 DEF StartOver, Relay
  <2> QED
    BY <1>2, <2>1 DEF ReadKept
<1> QED
  BY <1>1, <1>2

LEMMA ReadOnKept ==
  ASSUME Typed, NEW r \in Relay, ReadKept(r), NEW ok \in BOOLEAN
  PROVE  ReadKept(ReadOn(r, ok)) /\ ReadOn(r, ok).live = r.live
  BY ReadLinesKept, StartOverKept DEF ReadOn

LEMMA WaitKept ==
  ASSUME NEW r \in Relay, ReadKept(r)
  PROVE  ReadKept(WaitForRows(r)) /\ WaitForRows(r).live = r.live
<1> DEFINE x == WaitForRows(r)
<1>1. x.partial = r.partial /\ x.live = r.live /\ x.fold = r.fold /\ x.read = r.read
  BY DEF WaitForRows, Relay
<1> QED
  BY <1>1 DEF ReadKept

LEMMA LandedKept ==
  ASSUME Typed, NEW r \in Relay, Base(r), TabGood(r), AtLine(r), ReadKept(r), NEW ok \in BOOLEAN,
         r.live /\ ~r.partial => /\ r.seen = None => r.fold = <<>>
                                 /\ At(r) => r.fold = SubSeq(Lines(r), 1, r.end \div 2)
  PROVE  ReadKept(Landed(r, ok)) /\ Landed(r, ok).live = r.live
<1> DEFINE y == [r EXCEPT !.catchUp = FALSE, !.waiting = @ \ r.read]
           z == ReadOn(y, ok)
<1>1. /\ y \in Relay /\ ~y.catchUp /\ y.file = r.file /\ y.end = r.end /\ y.seen = r.seen
      /\ y.live = r.live /\ y.fold = r.fold /\ y.partial = r.partial /\ y.tab = r.tab
      /\ y.read = r.read
  BY DEF Relay
<1>2. Landed(r, ok) = WaitForRows(z)
  BY DEF Landed
<1> HIDE DEF y
<1>3. FileOf(y) = FileOf(r) /\ (At(y) <=> At(r)) /\ Lines(y) = Lines(r)
  BY <1>1 DEF FileOf, At, Lines
<1>4. Good(y) /\ AtLine(y)
  BY <1>1, <1>3 DEF Good, Base, TabGood, FoldGood, AtLine
<1>5. ReadKept(y)
  BY <1>1 DEF ReadKept
<1>6. z \in Relay /\ ReadKept(z) /\ z.live = y.live
  BY <1>1, <1>4, <1>5, ReadOnGood, ReadOnKept DEF After
<1> HIDE DEF z
<1> QED
  BY <1>1, <1>2, <1>6, WaitKept

LEMMA StartCatchUpKept ==
  ASSUME Typed, NEW r \in Relay, Base(r), TabGood(r), NEW ok \in BOOLEAN
  PROVE  ReadKept(StartCatchUp(r, ok)) /\ StartCatchUp(r, ok).live = r.live
<1> DEFINE started == [r EXCEPT !.fold = <<>>, !.retry = None, !.gen = gens + 1, !.partial = FALSE]
<1>1. CASE ~r.live
  BY <1>1 DEF StartCatchUp, ReadKept
<1>2. /\ started \in Relay /\ started.fold = <<>>
      /\ started.file = r.file /\ started.end = r.end /\ started.seen = r.seen
      /\ started.live = r.live /\ started.tab = r.tab /\ ~started.partial
  <2>1. <<>> \in Seq(Read) /\ gens + 1 \in Nat
    BY DEF Typed
  <2> QED
    BY <2>1 DEF Relay
<1> HIDE DEF started
<1>3. FileOf(started) = FileOf(r) /\ (At(started) <=> At(r)) /\ Lines(started) = Lines(r)
  BY <1>2 DEF FileOf, At, Lines
<1>4. Base(started) /\ TabGood(started) /\ ReadKept(started)
  BY <1>2, <1>3, UuidsNone DEF Base, TabGood, ReadKept
<1>5. CASE r.live /\ (r.file = None \/ r.end = 0)
  <2>1. StartCatchUp(r, ok) = Landed(started, ok)
    BY <1>5 DEF StartCatchUp, started
  <2>2. started.end = 0
    BY <1>2, <1>5 DEF Base
  <2>3. AtLine(started) /\ started.fold = SubSeq(Lines(started), 1, started.end \div 2)
    <3>1. SubSeq(Lines(started), 1, 0) = <<>>
      BY SubSeqEmpty
    <3> QED
      BY <1>2, <2>2, <3>1 DEF AtLine
  <2>4. ReadKept(Landed(started, ok)) /\ Landed(started, ok).live = started.live
    BY <1>2, <1>4, <2>3, LandedKept
  <2> QED
    BY <1>2, <2>1, <2>4
<1>6. CASE r.live /\ ~(r.file = None \/ r.end = 0)
  <2> DEFINE x == [started EXCEPT !.catchUp = TRUE]
  <2>1. StartCatchUp(r, ok) = x
    BY <1>6 DEF StartCatchUp, started
  <2>2. ~x.partial /\ x.live = r.live /\ x.fold = <<>>
    BY <1>2 DEF Relay
  <2> HIDE DEF x
  <2> QED
    BY <2>1, <2>2, UuidsNone DEF ReadKept
<1> QED
  BY <1>1, <1>5, <1>6

LEMMA RetargetKept ==
  ASSUME Typed, NEW r \in Relay, Good(r), NEW path \in Paths, NEW ok \in BOOLEAN
  PROVE  ReadKept(Retarget(r, path, ok)) /\ Retarget(r, path, ok).live = r.live
<1> DEFINE f == files[path]
           y == [r EXCEPT !.retry = None, !.file = path, !.end = Size(f), !.seen = IdOf(f),
                          !.waiting = {}, !.read = {}, !.tab = SentSize(@, Size(f))]
<1>1. /\ Size(f) \in Nat /\ IdOf(f) \in 1..MaxFiles \cup {None}
      /\ IdOf(f) # None => IdOf(f) <= made
      /\ IdOf(f) = None => Size(f) = 0
  BY FileThere
<1>2. /\ SentSize(r.tab, Size(f)) \in Tab \cup {None}
      /\ SentSize(r.tab, Size(f)) # None => SentSize(r.tab, Size(f)).base = Size(f)
                                            /\ SentSize(r.tab, Size(f)).got = <<>>
  BY <1>1, SizeToldGood
<1>3. /\ y \in Relay /\ y.file = path /\ y.end = Size(f) /\ y.seen = IdOf(f)
      /\ y.tab = SentSize(r.tab, Size(f)) /\ y.live = r.live
  BY <1>1, <1>2 DEF Relay
<1>4. Retarget(r, path, ok) = StartCatchUp(y, ok)
  BY DEF Retarget
<1> HIDE DEF y
<1>5. Base(y)
  BY <1>1, <1>3, NoneAssumption DEF Base, FileOf
<1>6. TabGood(y)
  <2>1. CASE y.tab = None
    BY <2>1 DEF TabGood
  <2>2. CASE y.tab # None
    <3>1. y.tab.base = y.end /\ y.tab.got = <<>> /\ y.end \in Nat
      BY <1>1, <1>2, <1>3, <2>2
    <3>2. SubSeq(Lines(y), y.end \div 2 + 1, y.end \div 2) = <<>>
      BY <3>1, SubSeqEmpty
    <3> QED
      BY <3>1, <3>2 DEF TabGood
  <2> QED
    BY <2>1, <2>2
<1> QED
  BY <1>3, <1>4, <1>5, <1>6, StartCatchUpKept

(* What moves the relay, but for a session that is made live.              *)
RelayMove ==
  \/ GoesDown \/ Refold \/ Subscribe \/ Unsubscribe
  \/ \E rows \in (SUBSET Rows) \ {{}} : Push(rows)
  \/ Tick \/ GiveUp \/ ScanStep \/ \E s \in scans : ScanFails(s)
  \/ WriteLine \/ Rewrite \/ Moves \/ Hello

LEMMA GoesLiveKept ==
  ASSUME IInv, RelayKept, GoesLive
  PROVE  RelayKept'
<1> DEFINE r == [RelayOf EXCEPT !.live = TRUE]
<1>1. PICK ok \in Oks : relay' = StartCatchUp(r, ok)
  BY DEF GoesLive, Becomes
<1>2. ok \in BOOLEAN
  BY DEF Oks
<1>3. RelayOf \in Relay /\ Good(RelayOf)
  BY RelayOfGood
<1>5. /\ r \in Relay /\ r.live /\ r.file = RelayOf.file /\ r.end = RelayOf.end
      /\ r.seen = RelayOf.seen /\ r.tab = RelayOf.tab
  BY <1>3 DEF Relay
<1> HIDE DEF r
<1>6. FileOf(r) = FileOf(RelayOf) /\ (At(r) <=> At(RelayOf)) /\ Lines(r) = Lines(RelayOf)
  BY <1>5 DEF FileOf, At, Lines
<1>7. Base(r) /\ TabGood(r)
  BY <1>3, <1>5, <1>6 DEF Good, Base, TabGood
<1>8. ReadKept(StartCatchUp(r, ok))
  BY <1>2, <1>5, <1>7, StartCatchUpKept DEF IInv
<1> QED
  BY <1>1, <1>8 DEF RelayKept, ReadKept

LEMMA ScanTakesKept ==
  ASSUME IInv, RelayKept, relay # None, NEW row \in Rows,
         relay' = [relay EXCEPT !.fold = Append(@, row), !.read = @ \cup {row}]
  PROVE  RelayKept' /\ relay'.live = relay.live
<1>1. relay \in Relay /\ relay.fold \in Seq(Read)
  BY DEF IInv, Good, Base, Relay
<1>2. /\ relay'.fold = Append(relay.fold, row) /\ relay'.read = relay.read \cup {row}
      /\ relay'.live = relay.live /\ relay'.partial = relay.partial
  BY <1>1 DEF Relay
<1>3. row \in Read /\ ~(row < 0) /\ <<row>> \in Seq(Read) /\ Append(relay.fold, row) = relay.fold \o <<row>>
  BY <1>1, RowsAreRead
<1>4. ToSet(<<row>>) = {row}
  BY DEF ToSet
<1>5. Uuids(<<row>>) = {row}
  BY <1>3, <1>4 DEF Uuids
<1>6. Uuids(relay'.fold) = Uuids(relay.fold) \cup {row}
  <2>1. Uuids(relay.fold \o <<row>>) = Uuids(relay.fold) \cup Uuids(<<row>>)
    BY <1>1, <1>3, UuidsJoin
  <2> QED
    BY <1>2, <1>3, <1>5, <2>1
<1> QED
  BY <1>2, <1>6 DEF RelayKept, ReadKept

(* No such step loses a row of the folds, or makes the session live.       *)
LEMMA RelayMoveKept ==
  ASSUME IInv, RelayKept, RelayMove
  PROVE  RelayKept' /\ (IsLive(relay)' => IsLive(relay))
<1>1. /\ Typed
      /\ relay # None => relay \in Relay /\ Good(relay) /\ AtLine(relay) /\ ReadKept(relay)
  BY DEF IInv, Good, Base, RelayKept, ReadKept
<1>2. Oks \subseteq BOOLEAN
  BY DEF Oks
<1>3. ASSUME NEW x, relay' = x, ReadKept(x), x.live => IsLive(relay)
      PROVE  RelayKept' /\ (IsLive(relay)' => IsLive(relay))
  BY <1>3 DEF RelayKept, ReadKept, IsLive
<1>4. ASSUME relay' = None
      PROVE  RelayKept' /\ (IsLive(relay)' => IsLive(relay))
  BY <1>4 DEF RelayKept, IsLive
<1>5. CASE GoesDown
  <2> DEFINE y == [relay EXCEPT !.live = FALSE, !.catchUp = FALSE, !.read = {}, !.fold = <<>>]
  <2>1. relay # None /\ relay' = DropIfUnused(y)
    BY <1>5 DEF GoesDown, Becomes
  <2>2. ~y.live /\ y.partial = relay.partial
    BY <1>1, <2>1 DEF Relay
  <2> HIDE DEF y
  <2>3. relay' = y \/ relay' = None
    BY <2>1 DEF DropIfUnused
  <2>4. ReadKept(y)
    BY <1>1, <2>1, <2>2 DEF ReadKept
  <2> QED
    BY <1>3, <1>4, <2>2, <2>3, <2>4
<1>6. CASE Refold
  <2>1. relay # None
    BY <1>6 DEF Refold
  <2>2. PICK ok \in Oks : relay' = StartCatchUp(relay, ok)
    BY <1>6 DEF Refold, Becomes
  <2>3. ReadKept(StartCatchUp(relay, ok)) /\ StartCatchUp(relay, ok).live = relay.live
    BY <1>1, <1>2, <2>1, StartCatchUpKept DEF Good
  <2> QED
    BY <1>3, <2>1, <2>2, <2>3 DEF IsLive
<1>7. CASE Subscribe
  <2> DEFINE R(ok) == IF RelayOf.file # named THEN Retarget(RelayOf, named, ok) ELSE RelayOf
  <2>1. PICK ok \in Oks : relay' = [R(ok) EXCEPT !.tab = [base |-> R(ok).end, got |-> <<>>]]
    BY <1>7 DEF Subscribe, Becomes
  <2>2. /\ RelayOf \in Relay /\ Good(RelayOf)
        /\ relay # None => RelayOf = relay
        /\ relay = None => ~RelayOf.live
    BY RelayOfGood
  <2>3. ReadKept(RelayOf) /\ (RelayOf.live => IsLive(relay))
    <3>1. CASE relay # None
      BY <1>1, <2>2, <3>1 DEF IsLive
    <3>2. CASE relay = None
      BY <2>2, <3>2 DEF ReadKept
    <3> QED
      BY <3>1, <3>2
  <2>4. named \in Paths
    BY <1>7, NamedTyped DEF Subscribe
  <2>5. R(ok) \in Relay /\ ReadKept(R(ok)) /\ R(ok).live = RelayOf.live
    <3>1. CASE RelayOf.file # named
      <4>1. R(ok) = Retarget(RelayOf, named, ok)
        BY <3>1
      <4> QED
        BY <1>1, <1>2, <2>2, <2>3, <2>4, <4>1, RetargetGood, RetargetKept
    <3>2. CASE RelayOf.file = named
      <4>1. R(ok) = RelayOf
        BY <3>2
      <4> QED
        BY <2>2, <2>3, <4>1
    <3> QED
      BY <3>1, <3>2
  <2> HIDE DEF R
  <2>6. /\ relay'.live = R(ok).live /\ relay'.partial = R(ok).partial
        /\ relay'.fold = R(ok).fold /\ relay'.read = R(ok).read
    BY <2>1, <2>5 DEF Relay
  <2> QED
    BY <2>3, <2>5, <2>6 DEF RelayKept, ReadKept, IsLive
<1>8. CASE Unsubscribe
  <2> DEFINE y == [relay EXCEPT !.tab = None]
  <2>1. relay # None /\ relay' = DropIfUnused(y)
    BY <1>8 DEF Unsubscribe, Becomes
  <2>2. /\ y.live = relay.live /\ y.partial = relay.partial /\ y.fold = relay.fold
        /\ y.read = relay.read
    BY <1>1, <2>1 DEF Relay
  <2> HIDE DEF y
  <2>3. relay' = y \/ relay' = None
    BY <2>1 DEF DropIfUnused
  <2>4. ReadKept(y)
    BY <1>1, <2>1, <2>2 DEF ReadKept
  <2> QED
    BY <1>3, <1>4, <2>1, <2>2, <2>3, <2>4 DEF IsLive
<1>9. ASSUME NEW rows \in SUBSET Rows, Push(rows)
      PROVE  RelayKept' /\ (IsLive(relay)' => IsLive(relay))
  <2> DEFINE names == relay.file = None /\ named # None
             r == [relay EXCEPT !.file = IF names THEN named ELSE @,
                                !.waiting = @ \cup (rows \ relay.read)]
  <2>1. relay # None
    BY <1>9 DEF Push
  <2>2. PICK ok \in Oks : relay' = IF names /\ r.live THEN StartCatchUp(r, ok)
                                   ELSE IF r.catchUp THEN r
                                   ELSE WaitForRows(ReadOn(r, ok))
    BY <1>9 DEF Push, Becomes
  <2>3. /\ r \in Relay /\ r.file = (IF names THEN named ELSE relay.file)
        /\ r.end = relay.end /\ r.seen = relay.seen /\ r.live = relay.live /\ r.fold = relay.fold
        /\ r.catchUp = relay.catchUp /\ r.partial = relay.partial /\ r.tab = relay.tab
        /\ r.read = relay.read
    BY <1>1, <2>1, NamedTyped DEF Relay
  <2> HIDE DEF r
  <2>4. ReadKept(r)
    BY <1>1, <2>1, <2>3 DEF ReadKept
  <2>5. Good(r) /\ AtLine(r)
    <3>1. CASE names
      <4>1. relay.seen = None /\ relay.end = 0 /\ relay.tab = None /\ ~relay.catchUp
        BY <1>1, <2>1, <3>1 DEF Good, Base
      <4>2. FileOf(r) # None => FileOf(r).id # None
        BY <1>1, <2>3, FileOfTyped
      <4>3. r.file = named /\ ~At(r)
        BY <2>3, <3>1, <4>1, <4>2 DEF At
      <4> QED
        BY <1>1, <2>1, <2>3, <3>1, <4>1, <4>3, NamedTyped DEF Good, Base, TabGood, FoldGood, AtLine
    <3>2. CASE ~names
      <4>1. FileOf(r) = FileOf(relay) /\ (At(r) <=> At(relay)) /\ Lines(r) = Lines(relay)
        BY <2>3, <3>2 DEF FileOf, At, Lines
      <4> HIDE DEF names
      <4> QED
        BY <1>1, <2>1, <2>3, <3>2, <4>1 DEF Good, Base, TabGood, FoldGood, AtLine
    <3> QED
      BY <3>1, <3>2
  <2>6. ReadKept(StartCatchUp(r, ok)) /\ StartCatchUp(r, ok).live = r.live
    BY <1>1, <1>2, <2>3, <2>4, <2>5, StartCatchUpKept DEF Good
  <2>7. ReadKept(WaitForRows(ReadOn(r, ok))) /\ WaitForRows(ReadOn(r, ok)).live = r.live
    <3>1. ReadKept(ReadOn(r, ok)) /\ ReadOn(r, ok).live = r.live
      BY <1>1, <1>2, <2>3, <2>4, ReadOnKept
    <3>2. ReadOn(r, ok) \in Relay
      BY <1>1, <1>2, <2>3, <2>5, ReadOnGood DEF After
    <3> QED
      BY <3>1, <3>2, WaitKept
  <2> HIDE DEF names
  <2>8. relay' \in {StartCatchUp(r, ok), r, WaitForRows(ReadOn(r, ok))}
    BY <2>2
  <2> QED
    BY <2>1, <2>3, <2>4, <2>6, <2>7, <2>8 DEF RelayKept, ReadKept, IsLive
<1>10. CASE Tick \/ GiveUp
  <2> DEFINE R(ok) == ReadOn(relay, ok)
  <2>1. relay # None
    BY <1>10 DEF Tick, GiveUp
  <2>2. PICK ok \in Oks :
          \/ relay' = R(ok)
          \/ relay' = [R(ok) EXCEPT !.retry = None]
          \/ relay' = [R(ok) EXCEPT !.retry = None, !.waiting = IF R(ok).catchUp THEN @ ELSE {}]
    BY <1>10 DEF Tick, GiveUp, Becomes
  <2>3. R(ok) \in Relay /\ ReadKept(R(ok)) /\ R(ok).live = relay.live
    BY <1>1, <1>2, <2>1, ReadOnGood, ReadOnKept DEF After
  <2> HIDE DEF R
  <2>4. /\ relay'.live = R(ok).live /\ relay'.partial = R(ok).partial
        /\ relay'.fold = R(ok).fold /\ relay'.read = R(ok).read
    BY <2>2, <2>3 DEF Relay
  <2> QED
    BY <2>1, <2>3, <2>4 DEF RelayKept, ReadKept, IsLive
<1>11. CASE relay' = relay
  BY <1>11 DEF RelayKept, IsLive
<1>12. ASSUME NEW s \in scans, ScanTakes(s)
       PROVE  RelayKept' /\ (IsLive(relay)' => IsLive(relay))
  <2>1. CASE Current(s)
    <3>1. s \in Scan
      BY <1>1 DEF Typed
    <3>2. s.left \in Seq(Rows) /\ s.left # <<>>
      BY <1>12, <3>1 DEF ScanTakes, Scan
    <3>3. Head(s.left) \in Rows
      BY <3>2
    <3>4. relay # None /\ relay.live
          /\ relay' = [relay EXCEPT !.fold = Append(@, Head(s.left)), !.read = @ \cup {Head(s.left)}]
      BY <1>12, <2>1 DEF ScanTakes, Current
    <3> QED
      BY <3>3, <3>4, ScanTakesKept DEF IsLive
  <2>2. CASE ~Current(s)
    BY <1>11, <1>12, <2>2 DEF ScanTakes
  <2> QED
    BY <2>1, <2>2
<1>13. ASSUME NEW s \in scans, ScanLands(s)
       PROVE  RelayKept' /\ (IsLive(relay)' => IsLive(relay))
  <2>1. CASE Current(s)
    <3>1. PICK ok \in Oks : relay' = Landed(relay, ok)
      BY <1>13, <2>1 DEF ScanLands, Becomes
    <3>2. relay # None /\ relay.live /\ s.left = <<>> /\ s.gen = relay.gen /\ s.left # None
      <4>1. <<>> \in Seq(Rows)
        OBVIOUS
      <4> QED
        BY <1>13, <2>1, <4>1, NoneAssumption DEF Current, ScanLands
    <3>3. relay.fold \in Seq(Read) /\ relay.fold \o <<>> = relay.fold
      <4>1. relay.fold \in Seq(Read)
        BY <1>1, <3>2 DEF Relay
      <4> QED
        BY <4>1
    <3>4. At(relay) /\ ~relay.partial => relay.fold = SubSeq(Lines(relay), 1, relay.end \div 2)
      BY <3>2, <3>3 DEF IInv, Scanning
    <3>5. relay.catchUp /\ relay.seen # None
      BY <1>1, <3>2 DEF IInv, Scanning, Good
    <3>6. ReadKept(Landed(relay, ok)) /\ Landed(relay, ok).live = relay.live
      BY <1>1, <1>2, <3>2, <3>4, <3>5, LandedKept DEF Good
    <3> QED
      BY <1>3, <3>1, <3>2, <3>6 DEF IsLive
  <2>2. CASE ~Current(s)
    BY <1>11, <1>13, <2>2 DEF ScanLands
  <2> QED
    BY <2>1, <2>2
<1>14. ASSUME NEW s \in scans, ScanOpens(s)
       PROVE  RelayKept' /\ (IsLive(relay)' => IsLive(relay))
  BY <1>11, <1>14 DEF ScanOpens
<1>15. ASSUME NEW s \in scans, ScanFails(s)
       PROVE  RelayKept' /\ (IsLive(relay)' => IsLive(relay))
  <2>1. CASE Current(s)
    <3>1. relay # None /\ relay' = [relay EXCEPT !.partial = TRUE]
      BY <1>15, <2>1 DEF ScanFails, Current
    <3>2. relay'.live = relay.live /\ relay'.fold = relay.fold /\ relay'.read = relay.read
      BY <1>1, <3>1 DEF Relay
    <3> QED
      BY <1>1, <3>1, <3>2 DEF RelayKept, ReadKept, IsLive
  <2>2. CASE ~Current(s)
    BY <1>11, <1>15, <2>2 DEF ScanFails
  <2> QED
    BY <2>1, <2>2
<1>16. CASE WriteLine \/ Rewrite \/ Moves
  BY <1>11, <1>16 DEF WriteLine, Rewrite, Moves, readVars
<1>17. CASE Hello
  <2>1. CASE named # None /\ relay # None /\ relay.file # cur
    <3>1. PICK ok \in Oks : relay' = Retarget(relay, cur, ok)
      BY <1>17, <2>1 DEF Hello, Becomes
    <3>2. ReadKept(Retarget(relay, cur, ok)) /\ Retarget(relay, cur, ok).live = relay.live
      BY <1>1, <1>2, <2>1, NamedTyped, RetargetKept
    <3> QED
      BY <1>3, <2>1, <3>1, <3>2 DEF IsLive
  <2>2. CASE ~(named # None /\ relay # None /\ relay.file # cur)
    BY <1>11, <1>17, <2>2 DEF Hello, readVars
  <2> QED
    BY <2>1, <2>2
<1> QED
  BY <1>5, <1>6, <1>7, <1>8, <1>9, <1>10, <1>12, <1>13, <1>14, <1>15, <1>16, <1>17 DEF RelayMove, ScanStep

-----------------------------------------------------------------------------
(* The queue.                                                              *)

(* The rows of the push that is asked.                                     *)
Pending == IF out # None /\ out.at = "asked" THEN ToSet(out.rows) ELSE {}

QueueTyped ==
  /\ went \subseteq ConvRows
  /\ unpushed \in Seq(ConvRows) /\ ToSet(unpushed) \subseteq went
  /\ unpushed # <<>> => out # None
  /\ out # None => out \in PushOut /\ out.rows # <<>> /\ ToSet(out.rows) \subseteq went
  /\ late # None => late \in Seq(ConvRows) /\ ToSet(late) \subseteq went
  /\ left \in [Kinds -> Nat]

ActsTyped ==
  /\ done \subseteq went /\ heard \subseteq went
  /\ taken \subseteq went /\ missed \subseteq went
  /\ spoken \in [ConvRows -> Nat]

(* Rows go in in order, and each that went in was taken or missed, or is   *)
(* in the push or behind it. So a push has no row of the main thread ahead *)
(* of one that is still to come, nor has one given up on.                  *)
Before(S, T) == \A u \in S \cap Rows, b \in Rows : b < u => b \in T
QueueInOrder ==
  /\ Before(went, went)
  /\ went \subseteq taken \cup missed \cup Pending \cup ToSet(unpushed)
  /\ Before(Pending, taken \cup missed \cup Pending)
  /\ late # None => ToSet(late) \subseteq missed /\ Before(ToSet(late), taken \cup missed)

HeardDone == IsLive(relay) => heard \subseteq done

LEMMA SetOfSeq == ToSet(<<>>) = {} /\ \A x : ToSet(<<x>>) = {x}
  BY DEF ToSet

LEMMA SetOfAppend ==
  ASSUME NEW S, NEW s \in Seq(S), NEW x
  PROVE  ToSet(Append(s, x)) = ToSet(s) \cup {x}
  BY DEF ToSet

LEMMA AskedIs ==
  ASSUME NEW rows \in Seq(ConvRows)
  PROVE  /\ Asked(rows) \in PushOut /\ Asked(rows) # None
         /\ Asked(rows).rows = rows /\ Asked(rows).at = "asked"
<1>1. Asked(rows) \in PushOut /\ Asked(rows).rows = rows /\ Asked(rows).at = "asked"
  BY DEF Asked, PushOut
<1> QED
  BY <1>1, PushAssumption

(* A row goes behind those that are pushed.                                *)
LEMMA RowAppendedKeeps ==
  ASSUME QueueTyped, NEW row \in went', went' \subseteq ConvRows, went \subseteq went', RowAppended(row),
         left' \in [Kinds -> Nat]
  PROVE  /\ QueueTyped' /\ late' = late
         /\ Pending' \cup ToSet(unpushed') = Pending \cup ToSet(unpushed) \cup {row}
         /\ Pending' = Pending \/ (Pending' = {row} /\ Pending = {} /\ ToSet(unpushed) = {})
<1>1. row \in ConvRows /\ <<row>> \in Seq(ConvRows) /\ <<row>> # <<>>
  OBVIOUS
<1>2. CASE out = None
  <2>1. out' = Asked(<<row>>) /\ unpushed' = unpushed /\ late' = late
    BY <1>2 DEF RowAppended
  <2>2. unpushed = <<>> /\ ToSet(unpushed) = {} /\ ToSet(<<row>>) = {row}
    BY <1>2, SetOfSeq DEF QueueTyped
  <2>3. out' \in PushOut /\ out' # None /\ out'.rows = <<row>> /\ out'.at = "asked"
    BY <1>1, <2>1, AskedIs
  <2>4. Pending = {} /\ Pending' = {row}
    BY <1>2, <2>2, <2>3 DEF Pending
  <2>5. QueueTyped'
    BY <1>1, <2>1, <2>2, <2>3 DEF QueueTyped
  <2> QED
    BY <2>1, <2>2, <2>4, <2>5
<1>3. CASE out # None
  <2>1. unpushed' = Append(unpushed, row) /\ out' = out /\ late' = late
    BY <1>3 DEF RowAppended
  <2>2. ToSet(unpushed') = ToSet(unpushed) \cup {row} /\ unpushed' \in Seq(ConvRows)
    BY <1>1, <2>1, SetOfAppend DEF QueueTyped
  <2>3. Pending' = Pending
    BY <2>1 DEF Pending
  <2>4. QueueTyped'
    BY <1>3, <2>1, <2>2 DEF QueueTyped
  <2> QED
    BY <2>1, <2>2, <2>3, <2>4
<1> QED
  BY <1>2, <1>3

(* What waited is pushed when the push that is out is through.             *)
LEMMA NextPushKeeps ==
  ASSUME QueueTyped, NextPush, went' = went, left' \in [Kinds -> Nat],
         late' # None => late' \in Seq(ConvRows) /\ ToSet(late') \subseteq went
  PROVE  QueueTyped' /\ Pending' = ToSet(unpushed) /\ ToSet(unpushed') = {}
<1>1. CASE unpushed = <<>>
  BY <1>1, SetOfSeq DEF NextPush, QueueTyped, Pending
<1>2. CASE unpushed # <<>>
  <2>1. out' = Asked(unpushed) /\ unpushed' = <<>>
    BY <1>2 DEF NextPush
  <2>2. unpushed \in Seq(ConvRows) /\ ToSet(unpushed) \subseteq went
    BY DEF QueueTyped
  <2>3. out' \in PushOut /\ out' # None /\ out'.rows = unpushed /\ out'.at = "asked"
    BY <2>1, <2>2, AskedIs
  <2>4. ToSet(unpushed') = {} /\ unpushed' \in Seq(ConvRows)
    BY <2>1, SetOfSeq
  <2>5. Pending' = ToSet(unpushed)
    BY <2>3 DEF Pending
  <2>6. QueueTyped'
    BY <1>2, <2>1, <2>2, <2>3, <2>4 DEF QueueTyped
  <2> QED
    BY <2>4, <2>5, <2>6
<1> QED
  BY <1>1, <1>2

LEMMA SpendsOne ==
  ASSUME QueueTyped, NEW kind \in Kinds, Spend(kind)
  PROVE  left' \in [Kinds -> Nat]
  BY DEF QueueTyped, Spend

(* The push is over.                                                       *)
LEMMA AnsweredIs ==
  ASSUME QueueTyped, out # None, out' = [out EXCEPT !.at = "answered"]
  PROVE  /\ out' \in PushOut /\ out' # None /\ out'.rows = out.rows /\ Pending' = {}
<1>1. out \in PushOut
  BY DEF QueueTyped
<1>2. out' \in PushOut /\ out'.rows = out.rows /\ out'.at = "answered"
  BY <1>1 DEF PushOut
<1> QED
  BY <1>2, PushAssumption DEF Pending

LEMMA QueueTypedStep ==
  ASSUME QueueTyped, [EffectsNext]_allVars
  PROVE  QueueTyped'
<1>1. CASE GoesIn
  <2>1. PICK row \in ConvRows \ went : went' = went \cup {row} /\ RowAppended(row) /\ left' = left
    BY <1>1 DEF GoesIn
  <2> QED
    BY <2>1, RowAppendedKeeps DEF QueueTyped
<1>2. CASE GoesInAgain
  <2>1. PICK row \in went : went' = went /\ RowAppended(row)
    BY <1>2 DEF GoesInAgain
  <2>2. left' \in [Kinds -> Nat]
    BY <1>2, SpendsOne DEF GoesInAgain, Kinds
  <2> QED
    BY <2>1, <2>2, RowAppendedKeeps DEF QueueTyped
<1>3. CASE PushAnswered
  <2>1. NextPush /\ UNCHANGED <<went, late, left>>
    BY <1>3 DEF PushAnswered
  <2> QED
    BY <2>1, NextPushKeeps DEF QueueTyped
<1>4. CASE PushGivenUp
  <2>1. NextPush /\ went' = went /\ out # None /\ (late' = late \/ late' = None \/ late' = out.rows)
    BY <1>4 DEF PushGivenUp
  <2>2. left' \in [Kinds -> Nat]
    BY <1>4, SpendsOne DEF PushGivenUp, Kinds
  <2>3. late' # None => late' \in Seq(ConvRows) /\ ToSet(late') \subseteq went
    BY <2>1 DEF QueueTyped, PushOut
  <2> QED
    BY <2>1, <2>2, <2>3, NextPushKeeps
<1>5. CASE PushThrows
  <2>1. out' = None /\ unpushed' = <<>> /\ UNCHANGED <<went, late>>
    BY <1>5 DEF PushThrows
  <2>2. left' \in [Kinds -> Nat]
    BY <1>5, SpendsOne DEF PushThrows, Kinds
  <2> QED
    BY <2>1, <2>2, SetOfSeq DEF QueueTyped
<1>6. CASE Take
  <2>1. out # None /\ out' = [out EXCEPT !.at = "answered"] /\ UNCHANGED <<went, unpushed, left, late>>
    BY <1>6 DEF Take, TakePush
  <2> QED
    BY <2>1, AnsweredIs DEF QueueTyped
<1>7. CASE TakeLate
  BY <1>7 DEF TakeLate, TakePush, QueueTyped
<1>8. CASE Restarted
  <2>1. /\ late' = None /\ UNCHANGED <<went, unpushed>>
        /\ out' = out \/ (out # None /\ out' = [out EXCEPT !.at = "answered"])
    BY <1>8 DEF Restarted
  <2>2. left' \in [Kinds -> Nat]
    BY <1>8, SpendsOne DEF Restarted, Kinds
  <2> QED
    BY <2>1, <2>2, AnsweredIs DEF QueueTyped
<1>9. CASE MadeLive \/ RelayStep \/ UNCHANGED allVars
  BY <1>9 DEF MadeLive, RelayStep, QueueTyped, effectVars, moduleVars, allVars
<1>10. CASE MadeDown \/ Refreshed \/ CatchUpFails \/ FileStep \/ TabStep \/ Refolded
  <2>1. left' \in [Kinds -> Nat]
    BY <1>10, SpendsOne DEF MadeDown, Refreshed, CatchUpFails, FileStep, TabStep, Refolded, Kinds
  <2>2. UNCHANGED <<went, unpushed, out, late>>
    BY <1>10 DEF MadeDown, Refreshed, CatchUpFails, FileStep, TabStep, Refolded, moduleVars
  <2> QED
    BY <2>1, <2>2 DEF QueueTyped
<1> QED
  BY <1>1, <1>2, <1>3, <1>4, <1>5, <1>6, <1>7, <1>8, <1>9, <1>10 DEF EffectsNext, DaemonStep

(* What went in is behind what is pushed, whatever is pushed next.         *)
LEMMA QueueInOrderStep ==
  ASSUME QueueTyped, QueueInOrder, [EffectsNext]_allVars
  PROVE  QueueInOrder'
<1> USE DEF QueueInOrder
<1>1. CASE GoesIn
  <2>1. PICK row \in ConvRows \ went :
          /\ row \in Rows => \A b \in Rows : b < row => b \in went
          /\ went' = went \cup {row} /\ RowAppended(row) /\ UNCHANGED <<left, taken, missed>>
    BY <1>1 DEF GoesIn, pastVars
  <2>2. /\ late' = late
        /\ Pending' \cup ToSet(unpushed') = Pending \cup ToSet(unpushed) \cup {row}
        /\ Pending' = Pending \/ (Pending' = {row} /\ Pending = {} /\ ToSet(unpushed) = {})
    BY <2>1, RowAppendedKeeps DEF QueueTyped
  <2>3. Before(went, went)'
    BY <2>1 DEF Before
  <2>4. Before(Pending, taken \cup missed \cup Pending)'
    <3>1. CASE Pending' = Pending
      BY <2>1, <3>1 DEF Before
    <3>2. CASE Pending' = {row} /\ Pending = {} /\ ToSet(unpushed) = {}
      <4>1. went \subseteq taken \cup missed
        BY <3>2
      <4> QED
        BY <2>1, <3>2, <4>1 DEF Before
    <3> QED
      BY <2>2, <3>1, <3>2
  <2> QED
    BY <2>1, <2>2, <2>3, <2>4
<1>2. CASE GoesInAgain
  <2>1. PICK row \in went : RowAppended(row) /\ UNCHANGED <<went, taken, missed>>
    BY <1>2 DEF GoesInAgain, pastVars
  <2>2. left' \in [Kinds -> Nat]
    BY <1>2, SpendsOne DEF GoesInAgain, Kinds
  <2>3. /\ late' = late
        /\ Pending' \cup ToSet(unpushed') = Pending \cup ToSet(unpushed) \cup {row}
        /\ Pending' = Pending \/ (Pending' = {row} /\ Pending = {} /\ ToSet(unpushed) = {})
    BY <2>1, <2>2, RowAppendedKeeps DEF QueueTyped
  <2>4. Before(Pending, taken \cup missed \cup Pending)'
    <3>1. CASE Pending' = Pending
      BY <2>1, <3>1 DEF Before
    <3>2. CASE Pending' = {row} /\ Pending = {} /\ ToSet(unpushed) = {}
      <4>1. went \subseteq taken \cup missed
        BY <3>2
      <4> QED
        BY <2>1, <3>2, <4>1 DEF Before
    <3> QED
      BY <2>3, <3>1, <3>2
  <2> QED
    BY <2>1, <2>3, <2>4
<1>3. CASE PushAnswered
  <2>1. /\ NextPush /\ out # None /\ out.at = "answered"
        /\ UNCHANGED <<went, late, left, taken, missed>>
    BY <1>3 DEF PushAnswered, pastVars
  <2>2. Pending' = ToSet(unpushed) /\ ToSet(unpushed') = {}
    BY <2>1, NextPushKeeps DEF QueueTyped
  <2>3. Pending = {} /\ ToSet(unpushed) \subseteq went
    BY <2>1 DEF Pending, QueueTyped
  <2>4. Before(Pending, taken \cup missed \cup Pending)'
    BY <2>1, <2>2, <2>3 DEF Before
  <2> QED
    BY <2>1, <2>2, <2>3, <2>4
<1>4. CASE PushGivenUp
  <2>1. /\ NextPush /\ out # None /\ out.at = "asked" /\ UNCHANGED <<went, taken>>
        /\ late' = late \/ late' = None \/ late' = out.rows
        /\ missed' = missed \cup ToSet(out.rows)
    BY <1>4 DEF PushGivenUp
  <2>2. left' \in [Kinds -> Nat]
    BY <1>4, SpendsOne DEF PushGivenUp, Kinds
  <2>3. late' # None => late' \in Seq(ConvRows) /\ ToSet(late') \subseteq went
    BY <2>1 DEF QueueTyped, PushOut
  <2>4. Pending' = ToSet(unpushed) /\ ToSet(unpushed') = {} /\ ToSet(unpushed) \subseteq went
    BY <2>1, <2>2, <2>3, NextPushKeeps DEF QueueTyped
  <2>5. missed' = missed \cup Pending
    BY <2>1 DEF Pending
  <2>6. Before(Pending, taken \cup missed \cup Pending)'
    BY <2>1, <2>4, <2>5 DEF Before
  <2>7. late' # None => ToSet(late') \subseteq missed' /\ Before(ToSet(late'), taken' \cup missed')
    <3>1. CASE late' = late
      BY <2>1, <3>1 DEF Before
    <3>2. CASE late' = out.rows
      <4>1. ToSet(late') = Pending
        BY <2>1, <3>2 DEF Pending
      <4> QED
        BY <2>1, <2>5, <4>1 DEF Before
    <3> QED
      BY <2>1, <3>1, <3>2
  <2> QED
    BY <2>1, <2>4, <2>5, <2>6, <2>7
<1>5. CASE PushThrows
  <2>1. /\ out # None /\ out.at = "asked" /\ out' = None /\ unpushed' = <<>>
        /\ UNCHANGED <<went, late, taken>>
        /\ missed' = missed \cup ToSet(out.rows) \cup ToSet(unpushed)
    BY <1>5 DEF PushThrows
  <2>2. Pending' = {} /\ Pending = ToSet(out.rows) /\ ToSet(unpushed') = {}
    BY <2>1, SetOfSeq DEF Pending
  <2> QED
    BY <2>1, <2>2 DEF Before
<1>6. CASE Take
  <2>1. /\ out # None /\ out.at = "asked" /\ out' = [out EXCEPT !.at = "answered"]
        /\ UNCHANGED <<went, unpushed, late, missed>>
        /\ taken' = taken \cup ToSet(out.rows)
    BY <1>6 DEF Take, TakePush
  <2>2. Pending = ToSet(out.rows) /\ Pending' = {}
    BY <2>1, AnsweredIs DEF Pending
  <2> QED
    BY <2>1, <2>2 DEF Before
<1>7. CASE TakeLate
  <2>1. late' = None /\ UNCHANGED <<went, unpushed, out, missed>> /\ taken \subseteq taken'
    BY <1>7 DEF TakeLate, TakePush
  <2>2. Pending' = Pending
    BY <2>1 DEF Pending
  <2> QED
    BY <2>1, <2>2 DEF Before
<1>8. CASE Restarted
  <2>1. /\ late' = None /\ UNCHANGED <<went, unpushed, taken>>
        /\ missed \cup Pending \subseteq missed'
    BY <1>8 DEF Restarted, Pending
  <2>2. Pending' = {}
    <3>1. CASE out # None /\ out.at = "asked"
      BY <1>8, <3>1, AnsweredIs DEF Restarted
    <3>2. CASE ~(out # None /\ out.at = "asked")
      BY <1>8, <3>2 DEF Restarted, Pending
    <3> QED
      BY <3>1, <3>2
  <2> QED
    BY <2>1, <2>2 DEF Before
<1>9. CASE UNCHANGED <<went, unpushed, out, late, taken, missed>>
  BY <1>9 DEF Before, Pending
<1>10. CASE \/ MadeLive \/ RelayStep \/ CatchUpFails \/ FileStep \/ MadeDown \/ Refreshed
            \/ TabStep \/ Refolded \/ UNCHANGED allVars
  BY <1>9, <1>10 DEF MadeLive, RelayStep, CatchUpFails, FileStep, MadeDown, Refreshed, TabStep, Refolded,
     effectVars, moduleVars, pastVars, allVars
<1> QED
  BY <1>1, <1>2, <1>3, <1>4, <1>5, <1>6, <1>7, <1>8, <1>10 DEF EffectsNext, DaemonStep

-----------------------------------------------------------------------------
(* The rows acted on.                                                      *)

(* Every step moves the relay as a step of its own, or drops it.           *)
LEMMA EffectsMoves ==
  ASSUME [EffectsNext]_allVars
  PROVE  \/ UNCHANGED relayVars
         \/ RelayMove
         \/ MadeLive
         \/ relay' = None /\ scans' = {} /\ UNCHANGED <<worldVars, named, gens>>
<1>1. CASE GoesIn \/ GoesInAgain \/ PushAnswered \/ PushGivenUp \/ PushThrows \/ Refreshed
  BY <1>1 DEF GoesIn, GoesInAgain, PushAnswered, PushGivenUp, PushThrows, Refreshed
<1>2. ASSUME NEW rows, TakePush(rows)
      PROVE  UNCHANGED relayVars \/ RelayMove
  <2>1. rows \cap Rows \in SUBSET Rows
    OBVIOUS
  <2> QED
    BY <1>2, <2>1 DEF TakePush, RelayMove
<1>3. CASE DaemonStep
  BY <1>2, <1>3 DEF DaemonStep, Take, TakeLate
<1>4. CASE MadeDown \/ RelayStep \/ CatchUpFails \/ FileStep \/ TabStep \/ Refolded
  BY <1>4 DEF MadeDown, RelayStep, LineWritten, CatchUpFails, FileStep, TabStep, Refolded, RelayMove
<1>5. CASE Restarted
  BY <1>5 DEF Restarted
<1>6. CASE UNCHANGED allVars
  BY <1>6 DEF allVars
<1> QED
  BY <1>1, <1>3, <1>4, <1>5, <1>6 DEF EffectsNext

LEMMA RelayMoveIsNext == RelayMove => Next
  BY DEF RelayMove, Next

(* The relay is as its own module's theorems say, and has what it folded   *)
(* read.                                                                   *)
LEMMA RelayKeeps ==
  ASSUME "cut" \notin Faults, IInv, RelayKept, [EffectsNext]_allVars
  PROVE  IInv' /\ RelayKept'
<1>1. CASE UNCHANGED relayVars
  <2>1. IInv'
    BY <1>1, NextKeeps DEF relayVars
  <2> QED
    BY <1>1, <2>1 DEF relayVars, vars, readVars, RelayKept
<1>2. CASE RelayMove
  BY <1>2, RelayMoveIsNext, NextKeeps, RelayMoveKept
<1>3. CASE MadeLive
  <2>1. GoesLive /\ Next
    BY <1>3 DEF MadeLive, Next
  <2> QED
    BY <2>1, NextKeeps, GoesLiveKept
<1>4. CASE relay' = None /\ scans' = {} /\ UNCHANGED <<worldVars, named, gens>>
  <2>1. Typed'
    BY <1>4 DEF IInv, Typed, worldVars
  <2> QED
    BY <1>4, <2>1 DEF IInv, Scanning, RelayKept
<1> QED
  BY <1>1, <1>2, <1>3, <1>4, EffectsMoves

(* A session that is live after a step was so before it, or is made so.    *)
LEMMA LiveFrom ==
  ASSUME IInv, RelayKept, [EffectsNext]_allVars, IsLive(relay)'
  PROVE  IsLive(relay) \/ MadeLive
<1>1. CASE UNCHANGED relayVars
  BY <1>1 DEF relayVars, vars, readVars, IsLive
<1>2. CASE RelayMove
  BY <1>2, RelayMoveKept
<1>3. CASE relay' = None
  BY <1>3 DEF IsLive
<1> QED
  BY <1>1, <1>2, <1>3, EffectsMoves

LEMMA SetInSeq ==
  ASSUME NEW S, NEW s \in Seq(S)
  PROVE  ToSet(s) \subseteq S
  BY DEF ToSet

(* What a push is acted on for is among its rows.                          *)
LEMMA ActsKeep ==
  ASSUME ActsTyped, NEW rows, rows \subseteq went, went' = went, TakePush(rows)
  PROVE  ActsTyped' /\ done \subseteq done'
<1> DEFINE new == Fresh(rows) \ done
<1>1. new \subseteq went
  BY DEF Fresh
<1>2. /\ done' = done \cup new
      /\ spoken' = [u \in ConvRows |-> spoken[u] + (IF u \in new THEN 1 ELSE 0)]
      /\ heard' = heard \cup new \/ heard' = heard
      /\ taken' = taken \cup rows /\ missed' = missed
  BY DEF TakePush, ActOnPushedRows
<1> HIDE DEF new
<1>3. spoken' \in [ConvRows -> Nat]
  <2>1. \A u \in ConvRows : spoken[u] + (IF u \in new THEN 1 ELSE 0) \in Nat
    BY DEF ActsTyped
  <2> QED
    BY <1>2, <2>1
<1> QED
  BY <1>1, <1>2, <1>3 DEF ActsTyped

LEMMA ActsTypedStep ==
  ASSUME QueueTyped, ActsTyped, [EffectsNext]_allVars
  PROVE  ActsTyped'
<1>1. CASE GoesIn \/ GoesInAgain \/ PushAnswered
  BY <1>1 DEF GoesIn, GoesInAgain, PushAnswered, ActsTyped, pastVars
<1>2. CASE PushGivenUp \/ PushThrows
  <2>1. missed' \subseteq went
    BY <1>2 DEF PushGivenUp, PushThrows, QueueTyped, ActsTyped
  <2> QED
    BY <1>2, <2>1 DEF PushGivenUp, PushThrows, ActsTyped
<1>3. CASE Take
  BY <1>3, ActsKeep DEF Take, QueueTyped, TakePush
<1>4. CASE TakeLate
  BY <1>4, ActsKeep DEF TakeLate, QueueTyped, TakePush
<1>5. CASE MadeLive \/ MadeDown \/ Refreshed \/ RelayStep \/ CatchUpFails \/ FileStep \/ TabStep \/ Refolded
  BY <1>5 DEF MadeLive, MadeDown, Refreshed, RelayStep, CatchUpFails, FileStep, TabStep, Refolded, KeepRowEffectsOf,
     ActsTyped, effectVars, moduleVars, pastVars
<1>6. CASE Restarted
  <2>1. missed' \subseteq went
    BY <1>6 DEF Restarted, QueueTyped, ActsTyped
  <2> QED
    BY <1>6, <2>1 DEF Restarted, ActsTyped
<1>7. CASE UNCHANGED allVars
  BY <1>7 DEF ActsTyped, allVars, effectVars, moduleVars, pastVars
<1> QED
  BY <1>1, <1>2, <1>3, <1>4, <1>5, <1>6, <1>7 DEF EffectsNext, DaemonStep

(* What was spoken since a session became live stays acted on while it is. *)
LEMMA HeardDoneStep ==
  ASSUME IInv, RelayKept, HeardDone, [EffectsNext]_allVars
  PROVE  HeardDone'
<1> SUFFICES ASSUME IsLive(relay)' PROVE heard' \subseteq done'
  BY DEF HeardDone
<1>1. CASE MadeLive
  BY <1>1 DEF MadeLive
<1>2. CASE ~MadeLive
  <2>1. IsLive(relay) /\ heard \subseteq done
    BY <1>2, LiveFrom DEF HeardDone
  <2>2. CASE GoesIn \/ GoesInAgain \/ PushAnswered \/ PushGivenUp \/ PushThrows
    BY <2>1, <2>2 DEF GoesIn, GoesInAgain, PushAnswered, PushGivenUp, PushThrows, pastVars
  <2>3. CASE DaemonStep
    BY <2>1, <2>3 DEF DaemonStep, Take, TakeLate, TakePush, ActOnPushedRows
  <2>4. CASE Refreshed \/ RelayStep \/ CatchUpFails \/ FileStep \/ TabStep \/ Refolded
    BY <2>1, <2>4 DEF Refreshed, RelayStep, CatchUpFails, FileStep, TabStep, Refolded, KeepRowEffectsOf,
       effectVars, pastVars
  <2>5. CASE MadeDown
    <3>1. ~IsLive(relay)'
      <4> DEFINE y == [relay EXCEPT !.live = FALSE, !.catchUp = FALSE, !.read = {}, !.fold = <<>>]
      <4>1. relay' = DropIfUnused(y) /\ relay \in Relay
        BY <2>5 DEF MadeDown, GoesDown, Becomes, IInv, Good, Base
      <4>2. ~y.live
        BY <4>1 DEF Relay
      <4> QED
        BY <4>1, <4>2 DEF DropIfUnused, IsLive
    <3> QED
      BY <3>1
  <2>6. CASE Restarted
    BY <2>6 DEF Restarted, IsLive
  <2>7. CASE UNCHANGED allVars
    BY <2>1, <2>7 DEF allVars, effectVars, pastVars
  <2> QED
    BY <1>2, <2>2, <2>3, <2>4, <2>5, <2>6, <2>7 DEF EffectsNext
<1> QED
  BY <1>1, <1>2

EffectsInv == IInv /\ RelayKept /\ QueueTyped /\ ActsTyped /\ QueueInOrder /\ HeardDone

LEMMA EffectsBegin == EffectsInit => EffectsInv
<1> SUFFICES ASSUME EffectsInit PROVE EffectsInv
  OBVIOUS
<1>1. IInv
  <2>1. cur \in Paths
    BY RelayAssumption DEF EffectsInit
  <2> QED
    BY <2>1, RelayAssumption DEF EffectsInit, IInv, Typed, Scanning
<1>2. RelayKept /\ HeardDone
  BY DEF EffectsInit, RelayKept, HeardDone
<1>3. QueueTyped
  <2>1. left \in [Kinds -> Nat]
    BY BudgetAssumption DEF EffectsInit
  <2>2. ToSet(unpushed) = {} /\ unpushed \in Seq(ConvRows)
    BY SetOfSeq DEF EffectsInit
  <2> QED
    BY <2>1, <2>2 DEF EffectsInit, QueueTyped
<1>4. ActsTyped
  BY DEF EffectsInit, ActsTyped
<1>5. QueueInOrder
  BY DEF EffectsInit, QueueInOrder, Before, Pending
<1> QED
  BY <1>1, <1>2, <1>3, <1>4, <1>5 DEF EffectsInv

LEMMA EffectsInvStep ==
  ASSUME "cut" \notin Faults, EffectsInv, [EffectsNext]_allVars
  PROVE  EffectsInv'
  BY RelayKeeps, QueueTypedStep, QueueInOrderStep, ActsTypedStep, HeardDoneStep DEF EffectsInv

(* In every reachable state the push that is out and the rows behind it    *)
(* are all that went in and is still to come, and what a live session was  *)
(* told is kept.                                                           *)
THEOREM EffectsInvariance == ASSUME "cut" \notin Faults PROVE EffectsSpec => []EffectsInv
<1>1. EffectsInit => EffectsInv
  BY EffectsBegin
<1>2. EffectsInv /\ [EffectsNext]_allVars => EffectsInv'
  BY EffectsInvStep
<1> QED
  BY <1>1, <1>2, PTL DEF EffectsSpec

(* The queue and what the daemon keeps of it are of their types: rows wait *)
(* only while a push is out (pushAll), and only rows that went in are      *)
(* acted on (actOnPushedRows).                                             *)
THEOREM EffectsTyped == ASSUME "cut" \notin Faults PROVE EffectsSpec => []EffectsTypeOK
<1>1. EffectsInv => EffectsTypeOK
  <2> SUFFICES ASSUME EffectsInv PROVE EffectsTypeOK
    OBVIOUS
  <2>1. TypeOK
    BY DEF EffectsInv, IInv, Typed, Good, Base, Timed, Waits, TypeOK
  <2> QED
    BY <2>1 DEF EffectsInv, QueueTyped, ActsTyped, EffectsTypeOK
<1> QED
  BY <1>1, EffectsInvariance, PTL

(* A push takes a row of the main thread to the daemon after every row     *)
(* before it, but for those of a push that failed: one push is out at a    *)
(* time, and what came meanwhile goes with the next (pushAll).             *)
THEOREM PushedInOrder == ASSUME "cut" \notin Faults PROVE EffectsSpec => TakenInOrder
<1>1. EffectsInv /\ [EffectsNext]_allVars =>
        \A u \in Rows : u \in taken' \ taken =>
          \A before \in Rows : before < u => before \in taken' \cup missed'
  <2> SUFFICES ASSUME EffectsInv, [EffectsNext]_allVars,
                      NEW u \in Rows, u \in taken' \ taken, NEW before \in Rows, before < u
               PROVE  before \in taken' \cup missed'
    OBVIOUS
  <2>1. CASE Take
    <3>1. taken' = taken \cup ToSet(out.rows) /\ missed' = missed /\ Pending = ToSet(out.rows)
      BY <2>1 DEF Take, TakePush, Pending
    <3>2. Before(Pending, taken \cup missed \cup Pending)
      BY DEF EffectsInv, QueueInOrder
    <3> QED
      BY <3>1, <3>2 DEF Before
  <2>2. CASE TakeLate
    <3>1. taken' = taken \cup ToSet(late) /\ missed' = missed
      BY <2>2 DEF TakeLate, TakePush
    <3>2. Before(ToSet(late), taken \cup missed)
      BY <2>2 DEF TakeLate, EffectsInv, QueueInOrder
    <3> QED
      BY <3>1, <3>2 DEF Before
  <2>3. CASE ~Take /\ ~TakeLate
    <3>1. taken' = taken
      BY <2>3 DEF EffectsNext, DaemonStep, GoesIn, GoesInAgain, PushAnswered, PushGivenUp, PushThrows,
         MadeLive, MadeDown, Refreshed, Restarted, RelayStep, CatchUpFails, FileStep, TabStep, Refolded, allVars, effectVars, pastVars
    <3> QED
      BY <3>1
  <2> QED
    BY <2>1, <2>2, <2>3
<1> QED
  BY <1>1, EffectsInvariance, PTL DEF EffectsSpec, TakenInOrder

(* A line the reading of a live session went past is the line of a row     *)
(* that counts as read, unless the read of its catch-up threw.             *)
LEMMA PassedIsRead ==
  ASSUME EffectsInv, IsLive(relay), OnFile, ~relay.catchUp, ~relay.partial,
         NEW u \in ToSet(SubSeq(FileOf(relay).lines, 1, relay.end \div 2))
  PROVE  u \in relay.read
<1>1. relay # None /\ relay.live /\ Uuids(relay.fold) \subseteq relay.read
  BY DEF EffectsInv, IsLive, RelayKept, ReadKept
<1>2. relay.fold = SubSeq(FileOf(relay).lines, 1, relay.end \div 2)
  BY <1>1 DEF EffectsInv, IInv, Good, FoldGood, OnFile, At, Lines
<1>3. u \in Rows
  <2>1. FileOf(relay).lines \in Seq(Rows) /\ relay.end \div 2 \in Nat
    BY <1>1, FileOfTyped DEF EffectsInv, IInv, Good, Base, Relay, OnFile
  <2>2. relay.end \div 2 <= Len(FileOf(relay).lines)
    <3>1. relay.end <= Size(FileOf(relay)) /\ relay.end \in Nat
      BY <1>1 DEF EffectsInv, IInv, Good, Base, OnFile, At, Relay
    <3>2. Len(FileOf(relay).lines) \in Nat
      BY <2>1
    <3>3. Size(FileOf(relay)) <= 2 * Len(FileOf(relay).lines) + 1 /\ Size(FileOf(relay)) \in Nat
      <4>1. \A n \in Nat : \A m \in {2 * n + 0, 2 * n + 1} : m \in Nat /\ m <= 2 * n + 1
        OBVIOUS
      <4>2. Size(FileOf(relay)) = 2 * Len(FileOf(relay).lines) + (IF FileOf(relay).torn THEN 1 ELSE 0)
        BY DEF OnFile, Size
      <4>3. Size(FileOf(relay)) \in {2 * Len(FileOf(relay).lines) + 0, 2 * Len(FileOf(relay).lines) + 1}
        BY <4>2
      <4> QED
        BY <3>2, <4>1, <4>3
    <3> QED
      BY <3>1, <3>2, <3>3
  <2>3. SubSeq(FileOf(relay).lines, 1, relay.end \div 2) \in Seq(Rows)
    <3>1. SubSeq(FileOf(relay).lines, 0 + 1, relay.end \div 2) \in Seq(Rows)
      BY <2>1, <2>2, SubSeqIsSeq
    <3> QED
      BY <3>1
  <2> QED
    BY <2>3, SetInSeq
<1>4. u \in ToSet(relay.fold) /\ ~(u < 0)
  BY <1>2, <1>3, RowsAreRead
<1> QED
  BY <1>1, <1>4 DEF Uuids

(* No say is spoken twice while its session is live, nor once the reading  *)
(* went past its line, whatever a compaction or a late push brings again,  *)
(* and however the file is replaced, moved or caught up on; but for lines  *)
(* that a catch-up whose read threw left behind (actOnPushedRows,          *)
(* relayHasRead).                                                          *)
THEOREM SpokenOnceEach == ASSUME "cut" \notin Faults PROVE EffectsSpec => SpokenOnce
<1>1. EffectsInv /\ [EffectsNext]_allVars =>
        \A u \in ConvRows :
          IsLive(relay) /\ spoken'[u] > spoken[u] =>
            /\ u \notin heard
            /\ OnFile /\ ~relay.catchUp /\ ~relay.partial =>
                 u \notin ToSet(SubSeq(FileOf(relay).lines, 1, relay.end \div 2))
  <2> SUFFICES ASSUME EffectsInv, [EffectsNext]_allVars,
                      NEW u \in ConvRows, IsLive(relay), spoken'[u] > spoken[u]
               PROVE  /\ u \notin heard
                      /\ OnFile /\ ~relay.catchUp /\ ~relay.partial =>
                           u \notin ToSet(SubSeq(FileOf(relay).lines, 1, relay.end \div 2))
    OBVIOUS
  <2>1. spoken[u] \in Nat
    BY DEF EffectsInv, ActsTyped
  <2>2. Take \/ TakeLate
    <3>1. spoken' # spoken
      BY <2>1
    <3> QED
      BY <3>1 DEF EffectsNext, DaemonStep, GoesIn, GoesInAgain, PushAnswered, PushGivenUp, PushThrows,
         MadeLive, MadeDown, Refreshed, Restarted, RelayStep, CatchUpFails, FileStep, TabStep, Refolded, allVars, effectVars, pastVars
  <2>3. PICK rows : ActOnPushedRows(Fresh(rows))
    BY <2>2 DEF Take, TakeLate, TakePush
  <2>4. u \in Fresh(rows) /\ u \notin done
    <3>1. spoken'[u] = spoken[u] + (IF u \in Fresh(rows) \ done THEN 1 ELSE 0)
      BY <2>3 DEF ActOnPushedRows
    <3> QED
      BY <2>1, <3>1
  <2>5. u \notin heard
    BY <2>4 DEF EffectsInv, HeardDone
  <2>6. u \notin relay.read
    BY <2>4 DEF Fresh, IsLive
  <2> QED
    BY <2>5, <2>6, PassedIsRead
<1> QED
  BY <1>1, EffectsInvariance, PTL DEF EffectsSpec, SpokenOnce

=============================================================================
