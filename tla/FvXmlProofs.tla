---------------------------- MODULE FvXmlProofs ----------------------------
(***************************************************************************)
(* Proofs about FvXml: type correctness, and what the document says of the *)
(* partition file, for every file and every set of names.                  *)
(***************************************************************************)
EXTENDS FvXml, SequenceTheorems, PlacesProofs

\* The provers do not know a literal for a string.
Text == STRING \cup {"_b", "_BACKUP"}
Name == Seq(Text) \ {<<>>}

PairRecord == [base : Base, primary : Part, backup : Part]

-----------------------------------------------------------------------------
(* Names.                                                                   *)

LEMMA FrontAndLast ==
  ASSUME NEW S, NEW s \in Seq(S), NEW x \in S
  PROVE  Front(Append(s, x)) = s /\ Last(Append(s, x)) = x
<1> DEFINE n == Append(s, x)
<1>1. /\ n \in Seq(S) /\ Len(s) \in Nat /\ Len(n) = Len(s) + 1 /\ n[Len(s) + 1] = x
      /\ \A i \in 1..Len(s) : n[i] = s[i]
  BY AppendProperties, LenProperties
<1> HIDE DEF n
<1>2. Last(n) = x
  BY <1>1 DEF Last
<1>3. Front(n) = SubSeq(n, 1, Len(s))
  <2>1. Len(n) - 1 = Len(s)
    BY <1>1
  <2> QED
    BY <2>1 DEF Front
<1>4. \A i \in 1..Len(s) : n[i] \in S
  BY <1>1, ElementOfSeq
<1>5. /\ Front(n) \in Seq(S)
      /\ Len(Front(n)) = IF 1 <= Len(s) THEN Len(s) - 1 + 1 ELSE 0
      /\ \A i \in 1..Len(s) - 1 + 1 : Front(n)[i] = n[1 + i - 1]
  <2>1. 1 \in Int /\ Len(s) \in Int
    BY <1>1
  <2> QED
    BY <1>3, <1>4, <2>1, SubSeqProperties
<1>6. Len(Front(n)) = Len(s)
  BY <1>1, <1>5
<1>7. ASSUME NEW i \in 1..Len(s)
      PROVE  Front(n)[i] = s[i]
  <2>1. i \in 1..Len(s) - 1 + 1 /\ 1 + i - 1 = i
    BY <1>1
  <2> QED
    BY <1>1, <1>5, <2>1
<1>8. Front(n) = s
  BY <1>5, <1>6, <1>7, SeqEqual
<1> QED
  BY <1>2, <1>8 DEF n

LEMMA NameParts ==
  ASSUME NEW n \in Name
  PROVE  Front(n) \in Seq(Text) /\ Last(n) \in Text /\ Append(Front(n), Last(n)) = n
<1>1. PICK s \in Seq(Text), e \in Text : n = Append(s, e)
  BY SequenceEmptyOrAppend DEF Name
<1>2. Front(Append(s, e)) = s /\ Last(Append(s, e)) = e
  BY FrontAndLast
<1> QED
  BY <1>1, <1>2

LEMMA NamesOfPart == Part \subseteq Name /\ \A n \in Part : n \in Seq(Text)
<1>1. \A n \in Seq(STRING) : n \in Seq(Text)
  BY SeqMonotonic DEF Text
<1> QED
  BY <1>1, XmlConstants DEF Name

LEMMA PartnerNames ==
  ASSUME NEW m \in Name, NEW n \in Name
  PROVE  /\ Last(SecondSlot(n)) = "_b" /\ Last(BackupOf(n)) = "_BACKUP"
         /\ BackupOf(m) = BackupOf(n) => m = n
         /\ SecondSlot(m) = SecondSlot(n) /\ Last(m) = Last(n) => m = n
         /\ BackupOf(m) # SecondSlot(n)
<1>1. m \in Seq(Text) /\ n \in Seq(Text)
  BY DEF Name
<1>2. /\ Front(m) \in Seq(Text) /\ Append(Front(m), Last(m)) = m
      /\ Front(n) \in Seq(Text) /\ Append(Front(n), Last(n)) = n
  BY NameParts
<1>a. \A s \in Seq(Text), x \in Text : Front(Append(s, x)) = s /\ Last(Append(s, x)) = x
  BY FrontAndLast
<1>b. "_b" \in Text /\ "_BACKUP" \in Text
  BY DEF Text
<1>3. Last(SecondSlot(n)) = "_b" /\ Front(SecondSlot(n)) = Front(n)
  BY <1>2, <1>a, <1>b DEF SecondSlot
<1>4. Front(SecondSlot(m)) = Front(m)
  BY <1>2, <1>a, <1>b DEF SecondSlot
<1>5. /\ Last(BackupOf(n)) = "_BACKUP" /\ Front(BackupOf(n)) = n
      /\ Last(BackupOf(m)) = "_BACKUP" /\ Front(BackupOf(m)) = m
  BY <1>1, <1>a, <1>b DEF BackupOf
<1>6. SecondSlot(m) = SecondSlot(n) /\ Last(m) = Last(n) => m = n
  BY <1>2, <1>3, <1>4
<1>7. "_b" # "_BACKUP"
  OBVIOUS
<1> QED
  BY <1>3, <1>5, <1>6, <1>7

-----------------------------------------------------------------------------
(* sorted: each pair is at one place.                                       *)

LEMMA SortPermutes ==
  ASSUME pairs \in Seq(PairRecord)
  PROVE  /\ \A k \in DOMAIN pairs : PairAt(k) \in DOMAIN pairs
         /\ \A j, k \in DOMAIN pairs : PairAt(j) = PairAt(k) => j = k
         /\ \A i \in DOMAIN pairs : \E k \in DOMAIN pairs : PairAt(k) = i
<1> DEFINE D == 1..Len(pairs)
           Place == [i \in D |-> Cardinality(UpToPair(i))]
<1>1. Len(pairs) \in Nat /\ DOMAIN pairs = D
  BY LenProperties
<1>2. \A i \in D : RankOf(i) \in Nat
  <2> TAKE i \in D
  <2>1. pairs[i] \in PairRecord
    BY ElementOfSeq
  <2>2. pairs[i].base \in Base
    BY <2>1 DEF PairRecord
  <2> QED
    BY <2>2, XmlConstants DEF RankOf
<1>3. \A i \in D : UpToPair(i) = {j \in D : RankOf(j) < RankOf(i) \/ (RankOf(j) = RankOf(i) /\ j <= i)}
  BY <1>1 DEF UpToPair
<1> HIDE DEF D
<1>4. IsFiniteSet(D) /\ Cardinality(D) = Len(pairs) /\ D \subseteq Nat
  <2>1. 1 \in Int /\ Len(pairs) \in Int /\ (1 > Len(pairs) => Len(pairs) = 0)
    BY <1>1
  <2>2. IsFiniteSet(1..Len(pairs)) /\ Cardinality(1..Len(pairs)) = Len(pairs)
    <3>1. IsFiniteSet(1..Len(pairs)) /\ Cardinality(1..Len(pairs)) = IF 1 > Len(pairs) THEN 0 ELSE Len(pairs) - 1 + 1
      BY <2>1, FS_Interval
    <3> QED
      BY <1>1, <2>1, <3>1
  <2> QED
    BY <2>2 DEF D
<1>5. ASSUME NEW i \in D
      PROVE  /\ IsFiniteSet(UpToPair(i)) /\ i \in UpToPair(i)
             /\ Cardinality(UpToPair(i)) \in D
  <2>1. UpToPair(i) \in SUBSET D /\ i \in UpToPair(i)
    BY <1>2, <1>3, <1>4
  <2>2. IsFiniteSet(UpToPair(i)) /\ Cardinality(UpToPair(i)) <= Len(pairs)
    BY <1>4, <2>1, FS_Subset
  <2>3. Cardinality(UpToPair(i)) \in Nat /\ Cardinality(UpToPair(i)) # 0
    BY <2>1, <2>2, FS_CardinalityType, FS_EmptySet
  <2> QED
    BY <1>1, <2>1, <2>2, <2>3 DEF D
<1>6. ASSUME NEW i \in D, NEW j \in D, i # j
      PROVE  Cardinality(UpToPair(i)) # Cardinality(UpToPair(j))
  <2>1. ASSUME NEW a \in D, NEW b \in D, a # b,
               RankOf(a) < RankOf(b) \/ (RankOf(a) = RankOf(b) /\ a <= b)
        PROVE  Cardinality(UpToPair(a)) # Cardinality(UpToPair(b))
    <3>1. RankOf(a) \in Nat /\ RankOf(b) \in Nat /\ a \in Nat /\ b \in Nat
      BY <1>2, <1>4
    <3>2. b \notin UpToPair(a) /\ b \in UpToPair(b)
      BY <1>3, <2>1, <3>1
    <3>3. \A c \in UpToPair(a) : c \in UpToPair(b)
      <4> TAKE c \in UpToPair(a)
      <4>1. c \in D /\ RankOf(c) \in Nat /\ c \in Nat
        BY <1>2, <1>3, <1>4
      <4> QED
        BY <1>3, <2>1, <3>1, <4>1
    <3>4. UpToPair(a) \in SUBSET UpToPair(b) /\ UpToPair(a) # UpToPair(b)
      BY <3>2, <3>3
    <3> QED
      BY <1>5, <3>4, FS_Subset
  <2>2. RankOf(i) \in Nat /\ RankOf(j) \in Nat /\ i \in Nat /\ j \in Nat
    BY <1>2, <1>4
  <2>3. \/ RankOf(i) < RankOf(j) \/ (RankOf(i) = RankOf(j) /\ i <= j)
        \/ RankOf(j) < RankOf(i) \/ (RankOf(j) = RankOf(i) /\ j <= i)
    BY <2>2
  <2> QED
    BY <1>6, <2>1, <2>3
<1>7. Place \in [D -> D] /\ \A i, j \in D : Place[i] = Place[j] => i = j
  BY <1>5, <1>6
<1>8. \A i \in D : Place[i] = Cardinality(UpToPair(i))
  OBVIOUS
<1> HIDE DEF Place
<1>9. Place \in Injection(D, D)
  BY <1>7 DEF Injection, IsInjective
<1>10. \A k \in D : \E i \in D : Place[i] = k
  <2>1. Place \in Surjection(D, D)
    BY <1>4, <1>9, FS_Injection
  <2> QED
    BY <2>1 DEF Surjection
<1>11. \A k \in D : PairAt(k) \in D /\ Cardinality(UpToPair(PairAt(k))) = k
  BY <1>1, <1>8, <1>10 DEF PairAt
<1>12. ASSUME NEW i \in D
       PROVE  \E k \in D : PairAt(k) = i
  <2>1. Place[i] \in D
    BY <1>7
  <2>2. PairAt(Place[i]) = i
    BY <1>7, <1>8, <1>11, <2>1
  <2> QED
    BY <2>1, <2>2
<1> QED
  BY <1>1, <1>11, <1>12

-----------------------------------------------------------------------------
(* The inductive invariant.                                                 *)

Working == pc \in {"lines", "names", "write", "ok"}

\* What each step finds: the arguments that were accepted, and the partitions
\* that were taken.
Shapes ==
  /\ names \in Seq(Part) /\ pairs \in Seq(PairRecord)
  /\ pc = "arguments" => names = <<>> /\ info = <<>> /\ next = 1
  /\ pc \in {"arguments", "lines"} => pairs = <<>> /\ seen = {}
  /\ Working => job.lines \in Seq(Line) /\ flash \in Storage
  /\ \A n \in DOMAIN info : Usable(info[n])

\* The lines of a name that were read so far, and the one of them that stays.
Read(n) == {k \in LinesOf(n) : pc = "lines" => k < next}
Stays(n, k) ==
  /\ k \in Read(n)
  /\ flash # "UFS" => \A m \in Read(n) : m <= k
  /\ flash = "UFS" => IF \E m \in Read(n) : job.lines[m].lun = 1
                      THEN job.lines[k].lun = 1 /\ \A m \in Read(n) : job.lines[m].lun = 1 => k <= m
                      ELSE \A m \in Read(n) : k <= m

LinesRead ==
  Working => \A n \in Part :
    /\ n \in DOMAIN info <=> Read(n) # {}
    /\ n \in DOMAIN info => \E k \in Read(n) : info[n] = job.lines[k] /\ Stays(n, k)

\* The names gone through are in a pair or begin none; no pair begins with a name
\* that is in an earlier one.
Parts(p) == {p.primary, p.backup}
NamesRead ==
  pc \in {"names", "write", "ok"} =>
    /\ \A k \in 1..Len(pairs) : PairsOf(pairs[k].primary) = <<pairs[k]>>
    /\ \A n \in seen : \E k \in 1..Len(pairs) : n \in Parts(pairs[k])
    /\ \A i \in 1..Len(names) :
         (pc = "names" => i < next) => names[i] \in seen \/ PairsOf(names[i]) = <<>>
    /\ \A i, j \in 1..Len(pairs) : i < j => pairs[j].primary \notin Parts(pairs[i])

XmlInv == /\ TypeOK /\ Shapes /\ LinesRead /\ NamesRead
          /\ pc = "ok" => xml = Document

-----------------------------------------------------------------------------
(* Type correctness.                                                        *)

LEMMA ListedNames ==
  ASSUME TypeOK, Shapes
  PROVE  /\ DOMAIN info \subseteq Part
         /\ \A n \in DOMAIN info : n \in Part /\ n \in Name /\ info[n] \in Line /\ info[n].name = n
         /\ \A i \in 1..Len(names) : names[i] \in DOMAIN info
         /\ \A n \in DOMAIN info : \E i \in 1..Len(names) : names[i] = n
<1>1. names \in Seq(Part) /\ DOMAIN info = ToSet(names)
  BY DEF TypeOK, Shapes
<1>2. DOMAIN names = 1..Len(names) /\ \A i \in 1..Len(names) : names[i] \in Part
  BY <1>1, LenProperties, ElementOfSeq
<1>3. DOMAIN info = {names[i] : i \in 1..Len(names)}
  BY <1>1, <1>2 DEF ToSet
<1>4. \A n \in DOMAIN info : info[n] \in Line /\ info[n].name = n
  BY DEF TypeOK
<1> QED
  BY <1>2, <1>3, <1>4, NamesOfPart

\* What find_base_names makes of a name.
LEMMA PairsOfName ==
  ASSUME TypeOK, Shapes, NEW n \in DOMAIN info
  PROVE  \/ PairsOf(n) = <<>> /\ ~IsPrimary(n) /\ ~HasBackup(n)
         \/ \E p \in PairRecord :
              /\ PairsOf(n) = <<p>> /\ p.primary = n /\ p.backup \in DOMAIN info
              /\ \/ Last(n) = "_a" /\ p.backup = SecondSlot(n)
                 \/ Last(n) # "_BACKUP" /\ p.backup = BackupOf(n)
<1>1. n \in Part /\ \A m \in DOMAIN info : m \in Part
  BY ListedNames
<1>2. CASE IsPrimary(n)
  <2>1. PairsOf(n) = <<Pair(Front(n), n, SecondSlot(n))>>
    BY <1>2 DEF PairsOf
  <2>2. Last(n) = "_a" /\ SecondSlot(n) \in DOMAIN info /\ Front(n) \in Base
    BY <1>1, <1>2 DEF IsPrimary, Base
  <2> QED
    BY <1>1, <2>1, <2>2 DEF Pair, PairRecord
<1>3. CASE ~IsPrimary(n) /\ HasBackup(n)
  <2>1. PairsOf(n) = <<Pair(n, n, BackupOf(n))>>
    BY <1>3 DEF PairsOf
  <2>2. Last(n) # "_BACKUP" /\ BackupOf(n) \in DOMAIN info /\ n \in Base
    BY <1>1, <1>3 DEF HasBackup, Base
  <2> QED
    BY <1>1, <2>1, <2>2 DEF Pair, PairRecord
<1>4. CASE ~IsPrimary(n) /\ ~HasBackup(n)
  BY <1>4 DEF PairsOf
<1> QED
  BY <1>2, <1>3, <1>4

LEMMA DetectedType ==
  ASSUME job \in Job, ArgumentsAccepted
  PROVE  /\ job.lines \in Seq(Line)
         /\ (IF job.conf THEN Detected ELSE job.storage) \in Storage
<1>1. job.lines \in Seq(Line)
  BY DEF Job, ArgumentsAccepted
<1>2. CASE job.conf
  <2>1. Typed # {}
    BY <1>2 DEF ArgumentsAccepted
  <2>2. DOMAIN job.lines = 1..Len(job.lines) /\ Typed \subseteq Nat
    BY <1>1, LenProperties DEF Typed
  <2>3. \E k \in Typed : \A m \in Typed : k <= m
    BY <2>1, <2>2, LeastNatural
  <2>4. PICK k \in Typed : Detected = job.lines[k].type
    BY <2>3 DEF Detected
  <2>5. job.lines[k] \in Line /\ job.lines[k].type # None
    BY <1>1, <2>2, ElementOfSeq DEF Typed
  <2> QED
    BY <1>1, <1>2, <2>4, <2>5 DEF Line, Storage, FlashType
<1>3. CASE ~job.conf
  <2>1. job.storage \in FlashType
    BY <1>3 DEF ArgumentsAccepted, Job
  <2> QED
    BY <1>1, <1>3, <2>1 DEF Storage
<1> QED
  BY <1>2, <1>3

\* The entry of a pair.
LEMMA UsableDisk ==
  ASSUME NEW l \in Line, Usable(l), flash \in Storage
  PROVE  /\ DiskOf(l) \in DiskType
         /\ flash \in FlashType => flash \in FlashOfDisk[DiskOf(l)]
         /\ flash = "UFS" => DiskOf(l) = LunDisk[l.lun]
         /\ l.file \in Binary /\ l.file # None
<1>1. l.file \in Binary /\ l.file # None
  BY DEF Usable, Line
<1>2. CASE flash = "UFS"
  <2>1. l.lun \in {1, 2, 4} /\ DiskOf(l) = LunDisk[l.lun]
    BY <1>2 DEF Usable, DiskOf
  <2>2. LunDisk[1] = "LUN1" /\ LunDisk[2] = "LUN2" /\ LunDisk[4] = "LUN4"
    BY DEF LunDisk
  <2>3. DiskOf(l) \in {"LUN1", "LUN2", "LUN4"}
    BY <2>1, <2>2
  <2>4. \A d \in {"LUN1", "LUN2", "LUN4"} : d \in DiskType /\ FlashOfDisk[d] = {"UFS"}
    BY DEF FlashOfDisk, DiskType, UfsDisk, EmmcDisk
  <2> QED
    BY <1>1, <1>2, <2>1, <2>3, <2>4
<1>3. CASE flash = "EMMC"
  <2>1. DiskOf(l) = "USER_DATA"
    BY <1>3 DEF DiskOf
  <2>2. "USER_DATA" \in DiskType /\ FlashOfDisk["USER_DATA"] = {"EMMC"}
    BY DEF FlashOfDisk, DiskType, EmmcDisk, UfsDisk
  <2> QED
    BY <1>1, <1>3, <2>1, <2>2
<1>4. CASE flash \notin {"UFS", "EMMC"}
  <2>1. DiskOf(l) = "SPINOR"
    BY <1>4 DEF DiskOf
  <2>2. "SPINOR" \in DiskType /\ FlashOfDisk["SPINOR"] = {"NORNVME", "NORUFS"}
    BY DEF FlashOfDisk, DiskType, EmmcDisk, UfsDisk
  <2> QED
    BY <1>1, <1>4, <2>1, <2>2 DEF FlashType
<1> QED
  BY <1>2, <1>3, <1>4

LEMMA EntryType ==
  ASSUME TypeOK, Shapes, flash \in Storage, NEW p \in PairRecord, Parts(p) \subseteq DOMAIN info
  PROVE  Entry(p) \in RawEntry
<1>1. ASSUME NEW n \in DOMAIN info
      PROVE  PathOf(n) \in RawPath /\ info[n].file \in Binary
  <2>1. n \in Part /\ info[n] \in Line /\ Usable(info[n])
    BY ListedNames DEF Shapes
  <2>2. DiskOf(info[n]) \in DiskType /\ info[n].file \in Binary
    BY <2>1, UsableDisk
  <2>3. info[n].guid \in TypeGuid \cup {Unknown}
    BY <2>1 DEF Line
  <2> QED
    BY <2>1, <2>2, <2>3 DEF PathOf, RawPath
<1>2. p.primary \in DOMAIN info /\ p.backup \in DOMAIN info
  BY DEF Parts
<1>3. /\ PathOf(p.primary) \in RawPath /\ PathOf(p.backup) \in RawPath
      /\ info[p.primary].file \in Binary
  BY <1>1, <1>2
<1>4. <<>> \in Seq(Image) /\ Images \in Dir
  BY EmptySeq, XmlConstants
<1> QED
  BY <1>3, <1>4 DEF Entry, RawEntry, OperationType, UpdateType, BackupType

LEMMA DocumentType ==
  ASSUME TypeOK, Shapes, flash \in Storage
  PROVE  /\ Document \in XmlDoc
         /\ DOMAIN Document.entries = DOMAIN pairs
         /\ \A k \in DOMAIN pairs : Document.entries[k] = Entry(pairs[PairAt(k)])
         /\ Len(Document.entries) = Len(pairs)
<1>1. pairs \in Seq(PairRecord) /\ DOMAIN pairs = 1..Len(pairs) /\ Len(pairs) \in Nat
  BY LenProperties DEF Shapes
<1>2. \A k \in DOMAIN pairs : PairAt(k) \in DOMAIN pairs
  BY <1>1, SortPermutes
<1>3. \A k \in DOMAIN pairs : Sorted[k] = pairs[PairAt(k)]
  BY DEF Sorted
<1>4. ASSUME NEW k \in DOMAIN pairs
      PROVE  Entry(Sorted[k]) \in RawEntry
  <2>1. pairs[PairAt(k)] \in PairRecord
    BY <1>1, <1>2, ElementOfSeq
  <2>2. Parts(pairs[PairAt(k)]) \subseteq DOMAIN info
    BY <1>2 DEF TypeOK, Parts
  <2> QED
    BY <1>3, <2>1, <2>2, EntryType
<1> DEFINE es == [k \in 1..Len(pairs) |-> Entry(Sorted[k])]
<1>5. es \in Seq(RawEntry) /\ Len(es) = Len(pairs)
  <2>1. es \in [1..Len(pairs) -> RawEntry]
    BY <1>1, <1>4
  <2> HIDE DEF es
  <2> QED
    BY <1>1, <2>1
<1>6. Document = [wellFormed |-> TRUE,
                  flash      |-> IF flash \in FlashType THEN flash ELSE Unknown,
                  entries    |-> es]
  BY <1>1 DEF Document
<1>7. DOMAIN es = 1..Len(pairs) /\ \A k \in 1..Len(pairs) : es[k] = Entry(Sorted[k])
  OBVIOUS
<1> HIDE DEF es
<1>8. Document \in XmlDoc
  BY <1>5, <1>6 DEF XmlDoc
<1> QED
  BY <1>1, <1>3, <1>5, <1>6, <1>7, <1>8

LEMMA OneMoreName ==
  ASSUME NEW S, NEW s \in Seq(S), NEW n \in S
  PROVE  Append(s, n) \in Seq(S) /\ ToSet(Append(s, n)) = ToSet(s) \cup {n}
<1>1. /\ Append(s, n) \in Seq(S) /\ Len(s) \in Nat /\ Len(Append(s, n)) = Len(s) + 1
      /\ Append(s, n)[Len(s) + 1] = n /\ \A i \in 1..Len(s) : Append(s, n)[i] = s[i]
  BY AppendProperties, LenProperties
<1> DEFINE t == Append(s, n)
<1>2. DOMAIN s = 1..Len(s) /\ DOMAIN t = 1..Len(s) + 1
  BY <1>1, LenProperties
<1> HIDE DEF t
<1>3. \A i \in 1..Len(s) + 1 : i \in 1..Len(s) \/ i = Len(s) + 1
  BY <1>1
<1>4. 1..Len(s) \subseteq 1..Len(s) + 1 /\ Len(s) + 1 \in 1..Len(s) + 1
  BY <1>1
<1> QED
  BY <1>1, <1>2, <1>3, <1>4 DEF ToSet, t

LEMMA ReadLineType ==
  ASSUME TypeOK, Shapes, ReadLine
  PROVE  TypeOK' /\ Shapes'
<1> DEFINE l == job.lines[next]
           taken == Usable(l) /\ (l.name \in DOMAIN info => TakesOver(l, info[l.name]))
<1>1. /\ pc = "lines" /\ next \in Nat \ {0} /\ next <= Len(job.lines) /\ next' = next + 1
      /\ UNCHANGED <<pc, job, flash, pairs, seen, xml>>
  BY DEF ReadLine, TypeOK
<1>2. job.lines \in Seq(Line) /\ Len(job.lines) \in Nat /\ flash \in Storage
  BY <1>1, LenProperties DEF Shapes, Working
<1>3. l \in Line
  BY <1>1, <1>2, ElementOfSeq
<1>4. /\ taken => /\ info' = [n \in DOMAIN info \cup {l.name} |-> IF n = l.name THEN l ELSE info[n]]
                  /\ names' = IF l.name \in DOMAIN info THEN names ELSE Append(names, l.name)
      /\ ~taken => info' = info /\ names' = names
  BY DEF ReadLine
<1>5. \A m : Usable(m)' = Usable(m)
  BY <1>1 DEF Usable
<1>6. taken => l.name \in Part /\ Usable(l)
  BY <1>3 DEF Usable, Line
<1>7. names \in Seq(Part) /\ DOMAIN info = ToSet(names)
  BY DEF TypeOK, Shapes
<1>8. pairs = <<>> /\ DOMAIN pairs = {}
  BY <1>1, EmptySeq DEF Shapes
<1> HIDE DEF l, taken
<1>9. DOMAIN info' = ToSet(names') /\ names' \in Seq(Part)
  <2>1. CASE ~taken
    BY <1>4, <1>7, <2>1
  <2>2. CASE taken /\ l.name \in DOMAIN info
    BY <1>4, <1>7, <2>2
  <2>3. CASE taken /\ l.name \notin DOMAIN info
    <3>1. names' = Append(names, l.name) /\ DOMAIN info' = DOMAIN info \cup {l.name}
      BY <1>4, <2>3
    <3>2. names' \in Seq(Part) /\ ToSet(names') = ToSet(names) \cup {l.name}
      BY <1>6, <1>7, <2>3, <3>1, OneMoreName
    <3> QED
      BY <1>7, <3>1, <3>2
  <2> QED
    BY <2>1, <2>2, <2>3
<1>10. \A n \in DOMAIN info' : info'[n] \in Line /\ info'[n].name = n /\ Usable(info'[n])
  <2>1. \A n \in DOMAIN info : info[n] \in Line /\ info[n].name = n /\ Usable(info[n])
    BY DEF TypeOK, Shapes
  <2> QED
    BY <1>3, <1>4, <1>6, <2>1
<1> QED
  BY <1>1, <1>2, <1>5, <1>8, <1>9, <1>10 DEF TypeOK, Shapes, Working

\* What one name adds.
LEMMA PairNameAdds ==
  ASSUME TypeOK, Shapes, PairName
  PROVE  LET name == names[next]
         IN /\ name \in DOMAIN info /\ next \in 1..Len(names) /\ Len(pairs) \in Nat
            /\ \/ /\ name \in seen \/ PairsOf(name) = <<>>
                  /\ pairs' = pairs /\ seen' = seen
               \/ \E p \in PairRecord :
                    /\ name \notin seen /\ PairsOf(name) = <<p>> /\ p.primary = name
                    /\ Parts(p) \subseteq DOMAIN info
                    /\ pairs' = Append(pairs, p) /\ seen' = seen \cup Parts(p)
<1> DEFINE name == names[next]
           new == IF name \in seen THEN <<>> ELSE PairsOf(name)
<1>1. /\ pairs' = pairs \o new
      /\ seen' = seen \cup UNION {{new[k].primary, new[k].backup} : k \in DOMAIN new}
      /\ next \in Nat \ {0} /\ next <= Len(names)
  BY DEF PairName, TypeOK
<1>2. names \in Seq(Part) /\ pairs \in Seq(PairRecord) /\ Len(names) \in Nat /\ Len(pairs) \in Nat
  BY LenProperties DEF Shapes
<1>3. next \in 1..Len(names) /\ name \in DOMAIN info
  BY <1>1, <1>2, ListedNames
<1> HIDE DEF name
<1>4. CASE name \in seen \/ PairsOf(name) = <<>>
  <2>1. new = <<>>
    BY <1>4
  <2>2. pairs' = pairs
    BY <1>1, <1>2, <2>1, ConcatEmptySeq
  <2>3. DOMAIN new = {}
    BY <2>1
  <2> HIDE DEF new
  <2>4. seen' = seen
    BY <1>1, <2>3
  <2> QED
    BY <1>2, <1>3, <1>4, <2>2, <2>4 DEF name
<1>5. CASE ~(name \in seen \/ PairsOf(name) = <<>>)
  <2>1. PICK p \in PairRecord : /\ PairsOf(name) = <<p>> /\ p.primary = name
                                /\ p.backup \in DOMAIN info
    BY <1>3, <1>5, PairsOfName
  <2>2. new = <<p>> /\ Parts(p) \subseteq DOMAIN info
    BY <1>3, <1>5, <2>1 DEF Parts
  <2>3. DOMAIN <<p>> = {1} /\ <<p>>[1] = p
    OBVIOUS
  <2> HIDE DEF new
  <2>4. pairs' = Append(pairs, p)
    BY <1>1, <1>2, <2>2, AppendIsConcat
  <2>5. seen' = seen \cup Parts(p)
    BY <1>1, <2>2, <2>3 DEF Parts
  <2> QED
    BY <1>2, <1>3, <1>5, <2>1, <2>2, <2>4, <2>5 DEF name
<1> QED
  BY <1>4, <1>5

LEMMA PairNameType ==
  ASSUME TypeOK, Shapes, PairName
  PROVE  TypeOK' /\ Shapes'
<1>1. pc = "names" /\ next' = next + 1 /\ UNCHANGED <<pc, job, flash, names, info, xml>>
  BY DEF PairName
<1>2. pairs \in Seq(PairRecord) /\ Len(pairs) \in Nat /\ DOMAIN pairs = 1..Len(pairs)
  BY LenProperties DEF Shapes
<1>3. \A k \in 1..Len(pairs) : {pairs[k].primary, pairs[k].backup} \subseteq DOMAIN info \cap seen
  BY <1>2 DEF TypeOK
<1>4. /\ pairs' \in Seq(PairRecord)
      /\ \A k \in DOMAIN pairs' : {pairs'[k].primary, pairs'[k].backup} \subseteq DOMAIN info \cap seen'
  <2>1. CASE pairs' = pairs /\ seen' = seen
    BY <1>2, <1>3, <2>1
  <2>2. ASSUME NEW p \in PairRecord, Parts(p) \subseteq DOMAIN info,
               pairs' = Append(pairs, p), seen' = seen \cup Parts(p)
        PROVE  /\ pairs' \in Seq(PairRecord)
               /\ \A k \in DOMAIN pairs' :
                    {pairs'[k].primary, pairs'[k].backup} \subseteq DOMAIN info \cap seen'
    <3>1. /\ pairs' \in Seq(PairRecord) /\ Len(pairs') = Len(pairs) + 1
          /\ pairs'[Len(pairs) + 1] = p /\ \A k \in 1..Len(pairs) : pairs'[k] = pairs[k]
      BY <1>2, <2>2, AppendProperties
    <3>2. DOMAIN pairs' = 1..Len(pairs) + 1
      BY <3>1, LenProperties
    <3>3. \A k \in 1..Len(pairs) + 1 : k \in 1..Len(pairs) \/ k = Len(pairs) + 1
      BY <1>2
    <3> QED
      BY <1>3, <2>2, <3>1, <3>2, <3>3 DEF Parts
  <2> QED
    BY <2>1, <2>2, PairNameAdds
<1>5. \A m : Usable(m)' = Usable(m)
  BY <1>1 DEF Usable
<1> QED
  BY <1>1, <1>4, <1>5 DEF TypeOK, Shapes, Working

LEMMA TypeStep ==
  TypeOK /\ Shapes /\ [Next]_vars => TypeOK' /\ Shapes'
<1> SUFFICES ASSUME TypeOK, Shapes, [Next]_vars
             PROVE  TypeOK' /\ Shapes'
  OBVIOUS
<1>u. ASSUME flash' = flash
      PROVE  \A l : Usable(l)' = Usable(l)
  BY <1>u DEF Usable
<1>1. CASE ReadArguments
  <2>1. pc = "arguments" /\ names = <<>> /\ info = <<>> /\ pairs = <<>> /\ seen = {} /\ job \in Job
    BY <1>1, XmlConstants DEF ReadArguments, Shapes, TypeOK
  <2>2. UNCHANGED <<job, next, names, info, pairs, seen, xml>>
    BY <1>1 DEF ReadArguments
  <2>3. DOMAIN info = {}
    BY <2>1
  <2>4. CASE ArgumentsAccepted
    <3>1. pc' = "lines" /\ flash' = IF job.conf THEN Detected ELSE job.storage
      BY <1>1, <2>4 DEF ReadArguments
    <3>2. job.lines \in Seq(Line) /\ flash' \in Storage
      BY <2>1, <2>4, <3>1, DetectedType
    <3> QED
      BY <2>1, <2>2, <2>3, <3>1, <3>2 DEF TypeOK, Shapes, Working
  <2>5. CASE ~ArgumentsAccepted
    <3>1. pc' = "failed" /\ flash' = flash
      BY <1>1, <2>5 DEF ReadArguments
    <3> QED
      BY <2>1, <2>2, <2>3, <3>1 DEF TypeOK, Shapes, Working
  <2> QED
    BY <2>4, <2>5
<1>2. CASE ReadLine
  BY <1>2, ReadLineType
<1>3. CASE LastLine \/ LastName
  <2>1. /\ pc' \in {"names", "write"} /\ pc \in {"lines", "names"} /\ next' \in {next, 1}
        /\ UNCHANGED <<job, flash, names, info, pairs, seen, xml>>
    BY <1>3 DEF LastLine, LastName
  <2> QED
    BY <2>1, <1>u DEF TypeOK, Shapes, Working
<1>4. CASE PairName
  BY <1>4, PairNameType
<1>5. CASE WriteXml
  <2>1. /\ pc = "write" /\ pc' = "ok" /\ xml' = Document
        /\ UNCHANGED <<job, flash, next, names, info, pairs, seen>>
    BY <1>5 DEF WriteXml
  <2>2. Document \in XmlDoc
    BY <2>1, DocumentType DEF Shapes, Working
  <2> QED
    BY <2>1, <2>2, <1>u DEF TypeOK, Shapes, Working
<1>6. CASE Dies
  <2>1. /\ pc' = "failed" /\ xml' \in {xml, Torn}
        /\ UNCHANGED <<job, flash, next, names, info, pairs, seen>>
    BY <1>6 DEF Dies
  <2> QED
    BY <2>1, <1>u DEF TypeOK, Shapes, Working
<1>7. CASE UNCHANGED vars
  <2>1. UNCHANGED <<pc, job, flash, next, names, info, pairs, seen, xml>>
    BY <1>7 DEF vars
  <2> QED
    BY <2>1, <1>u DEF TypeOK, Shapes, Working
<1> QED
  BY <1>1, <1>2, <1>3, <1>4, <1>5, <1>6, <1>7 DEF Next

LEMMA TypeInit == Init => TypeOK /\ Shapes
<1> SUFFICES ASSUME Init
             PROVE  TypeOK /\ Shapes
  OBVIOUS
<1>1. /\ pc = "arguments" /\ job \in Jobs /\ flash = None /\ next = 1
      /\ names = <<>> /\ info = <<>> /\ pairs = <<>> /\ seen = {} /\ xml = None
  BY DEF Init
<1>2. DOMAIN <<>> = {} /\ ToSet(<<>>) = {}
  BY DEF ToSet
<1>3. <<>> \in Seq(Part) /\ <<>> \in Seq(PairRecord)
  BY EmptySeq
<1> QED
  BY <1>1, <1>2, <1>3 DEF TypeOK, Shapes, Working

\* Every variable keeps its type, and a pair is made of partitions that were
\* taken and are seen, for every partition file.
THEOREM TypeCorrectness == Spec => []TypeOK
<1>1. Init => TypeOK /\ Shapes
  BY TypeInit
<1>2. TypeOK /\ Shapes /\ [Next]_vars => (TypeOK /\ Shapes)'
  BY TypeStep
<1> QED
  BY <1>1, <1>2, PTL DEF Spec

-----------------------------------------------------------------------------
(* The line of each partition.                                              *)

LEMMA SameLines ==
  ASSUME job' = job, flash' = flash
  PROVE  \A n : LinesOf(n)' = LinesOf(n)
BY DEF LinesOf, Usable

\* The next line is read for its own name alone.
LEMMA ReadNext ==
  ASSUME TypeOK, Shapes, ReadLine
  PROVE  LET l == job.lines[next]
         IN /\ next \in Nat /\ next \in DOMAIN job.lines /\ l \in Line
            /\ \A n : Read(n) \subseteq Nat /\ \A k \in Read(n) : k < next
            /\ \A n : Read(n)' = IF Usable(l) /\ l.name = n THEN Read(n) \cup {next} ELSE Read(n)
<1> DEFINE l == job.lines[next]
<1>1. /\ pc = "lines" /\ next \in Nat \ {0} /\ next <= Len(job.lines)
      /\ pc' = "lines" /\ next' = next + 1 /\ job' = job /\ flash' = flash
  BY DEF ReadLine, TypeOK
<1>2. /\ job.lines \in Seq(Line) /\ DOMAIN job.lines = 1..Len(job.lines) /\ Len(job.lines) \in Nat
  BY <1>1, LenProperties DEF Shapes, Working
<1>3. next \in DOMAIN job.lines /\ l \in Line
  BY <1>1, <1>2, ElementOfSeq
<1>4. \A n : LinesOf(n)' = LinesOf(n) /\ LinesOf(n) \subseteq Nat
  <2>1. \A n : LinesOf(n)' = LinesOf(n)
    BY <1>1, SameLines
  <2>2. \A n : LinesOf(n) \subseteq Nat
    BY <1>2 DEF LinesOf
  <2> QED
    BY <2>1, <2>2
<1>5. \A n : next \in LinesOf(n) <=> Usable(l) /\ l.name = n
  BY <1>3 DEF LinesOf
<1>6. \A n : Read(n) = {k \in LinesOf(n) : k < next} /\ Read(n)' = {k \in LinesOf(n) : k < next + 1}
  BY <1>1, <1>4 DEF Read
<1>7. \A k \in Nat : k < next + 1 <=> k < next \/ k = next
  BY <1>1
<1> HIDE DEF l
<1>8. \A n : Read(n)' = IF Usable(l) /\ l.name = n THEN Read(n) \cup {next} ELSE Read(n)
  <2> TAKE n
  <2>1. ~(next < next)
    BY <1>1
  <2>2. Read(n) = {k \in LinesOf(n) : k < next} /\ Read(n)' = {k \in LinesOf(n) : k < next + 1}
    BY <1>6
  <2>3. \A k \in LinesOf(n) : k < next + 1 <=> k < next \/ k = next
    BY <1>4, <1>7
  <2> QED
    BY <1>5, <2>1, <2>2, <2>3
<1>9. \A n : Read(n) \subseteq Nat /\ \A k \in Read(n) : k < next
  BY <1>4, <1>6
<1> QED
  BY <1>1, <1>3, <1>8, <1>9 DEF l

LEMMA ReadLineLines ==
  ASSUME TypeOK, Shapes, LinesRead, ReadLine
  PROVE  LinesRead'
<1> DEFINE l == job.lines[next]
           taken == Usable(l) /\ (l.name \in DOMAIN info => TakesOver(l, info[l.name]))
<1>1. /\ pc = "lines" /\ next \in Nat /\ next \in DOMAIN job.lines /\ l \in Line
      /\ \A n : Read(n) \subseteq Nat /\ \A k \in Read(n) : k < next
      /\ \A n : Read(n)' = IF Usable(l) /\ l.name = n THEN Read(n) \cup {next} ELSE Read(n)
  BY ReadNext DEF ReadLine
<1>2. pc' = "lines" /\ job' = job /\ flash' = flash
  BY DEF ReadLine
<1>3. /\ taken => info' = [n \in DOMAIN info \cup {l.name} |-> IF n = l.name THEN l ELSE info[n]]
      /\ ~taken => info' = info
  BY DEF ReadLine
<1>4. \A n \in Part : /\ n \in DOMAIN info <=> Read(n) # {}
                      /\ n \in DOMAIN info => \E k \in Read(n) : info[n] = job.lines[k] /\ Stays(n, k)
  BY <1>1 DEF LinesRead, Working
<1> SUFFICES ASSUME NEW n \in Part
             PROVE  /\ n \in DOMAIN info' <=> Read(n)' # {}
                    /\ n \in DOMAIN info' => \E k \in Read(n)' : info'[n] = job.lines[k] /\ Stays(n, k)'
  BY <1>2 DEF LinesRead
<1>a. PICK at \in Nat : at = next
  BY <1>1
<1>b. l = job.lines[at] /\ job'.lines[at] = l
  BY <1>2, <1>a
<1> HIDE DEF l, taken
<1>5. CASE ~(Usable(l) /\ l.name = n)
  <2>1. Read(n)' = Read(n) /\ \A k : Stays(n, k)' = Stays(n, k)
    BY <1>1, <1>2, <1>5 DEF Stays
  <2>2. (n \in DOMAIN info' <=> n \in DOMAIN info) /\ (n \in DOMAIN info => info'[n] = info[n])
    BY <1>3, <1>5 DEF taken
  <2> QED
    BY <1>4, <2>1, <2>2
<1>6. CASE Usable(l) /\ l.name = n
  <2>1. Read(n)' = Read(n) \cup {next} /\ next \notin Read(n)
    BY <1>1, <1>6
  <2>2. n \in DOMAIN info'
    BY <1>3, <1>6 DEF taken
  <2>3. CASE n \notin DOMAIN info
    <3>1. Read(n)' = {next}
      BY <1>4, <2>1, <2>3
    <3>2. info'[n] = l
      BY <1>3, <1>6, <2>3 DEF taken
    <3>3. Read(n)' = {at} /\ at <= at
      BY <1>a, <3>1
    <3>4. Stays(n, at)'
      BY <1>2, <3>3 DEF Stays
    <3> QED
      BY <1>b, <2>2, <3>2, <3>3, <3>4
  <2>4. CASE n \in DOMAIN info
    <3>1. PICK k \in Read(n) : info[n] = job.lines[k] /\ Stays(n, k)
      BY <1>4, <2>4
    <3>2. k \in Nat /\ k < next /\ k \in Read(n)' /\ next \in Read(n)'
      BY <1>1, <2>1, <3>1
    <3>3. \A m \in Read(n)' : m = next \/ (m \in Read(n) /\ m \in Nat /\ m < next)
      BY <1>1, <2>1
    <3>4. taken <=> TakesOver(l, info[n])
      BY <1>6, <2>4 DEF taken
    <3>5. CASE flash # "UFS"
      <4>1. info'[n] = l
        BY <1>3, <1>6, <3>4, <3>5 DEF TakesOver
      <4>2. at \in Read(n)' /\ \A m \in Read(n)' : m <= at
        BY <1>1, <1>a, <3>2, <3>3
      <4>3. Stays(n, at)'
        BY <1>2, <3>5, <4>2 DEF Stays
      <4> QED
        BY <1>b, <2>2, <4>1, <4>2, <4>3
    <3>6. CASE flash = "UFS" /\ info[n].lun # 1 /\ l.lun = 1
      <4>1. info'[n] = l
        BY <1>3, <1>6, <3>4, <3>6 DEF TakesOver
      <4>2. \A m \in Read(n) : job.lines[m].lun # 1
        BY <3>1, <3>6 DEF Stays
      <4>3. at \in Read(n)' /\ \A m \in Read(n)' : job'.lines[m].lun = 1 => at <= m
        BY <1>1, <1>2, <1>a, <3>2, <3>3, <4>2
      <4>4. job'.lines[at].lun = 1
        BY <1>b, <3>6
      <4>5. Stays(n, at)'
        BY <1>2, <3>6, <4>3, <4>4 DEF Stays
      <4> QED
        BY <1>b, <2>2, <4>1, <4>3, <4>5
    <3>7. CASE flash = "UFS" /\ ~(info[n].lun # 1 /\ l.lun = 1)
      <4>1. info'[n] = info[n]
        BY <1>3, <3>4, <3>7 DEF TakesOver
      <4>2. k <= next
        BY <1>1, <3>2
      <4>3. CASE info[n].lun = 1
        <5>1. \A m \in Read(n) : job.lines[m].lun = 1 => k <= m
          BY <3>1, <3>7, <4>3 DEF Stays
        <5>2. \A m \in Read(n)' : job.lines[m].lun = 1 => k <= m
          BY <3>3, <4>2, <5>1
        <5>3. Stays(n, k)'
          BY <1>2, <3>1, <3>2, <3>7, <4>3, <5>2 DEF Stays
        <5> QED
          BY <2>2, <3>1, <3>2, <4>1, <5>3
      <4>4. CASE info[n].lun # 1
        <5>1. l.lun # 1 /\ (\A m \in Read(n) : job.lines[m].lun # 1) /\ \A m \in Read(n) : k <= m
          BY <3>1, <3>7, <4>4 DEF Stays
        <5>2. \A m \in Read(n)' : job.lines[m].lun # 1 /\ k <= m
          BY <3>3, <4>2, <5>1 DEF l
        <5>3. Stays(n, k)'
          BY <1>2, <3>2, <3>7, <5>2 DEF Stays
        <5> QED
          BY <2>2, <3>1, <3>2, <4>1, <5>3
      <4> QED
        BY <4>3, <4>4
    <3> QED
      BY <3>5, <3>6, <3>7
  <2> QED
    BY <2>1, <2>2, <2>3, <2>4
<1> QED
  BY <1>5, <1>6

LEMMA LinesReadStep ==
  TypeOK /\ Shapes /\ LinesRead /\ [Next]_vars => LinesRead'
<1> SUFFICES ASSUME TypeOK, Shapes, LinesRead, [Next]_vars, Working'
             PROVE  LinesRead'
  BY DEF LinesRead
<1>a. ASSUME Working, job' = job, flash' = flash, info' = info, \A n : Read(n)' = Read(n)
      PROVE  LinesRead'
  <2>1. \A n, k : Stays(n, k)' = Stays(n, k)
    BY <1>a DEF Stays
  <2> QED
    BY <1>a, <2>1 DEF LinesRead
<1>1. CASE ReadArguments
  <2>1. info' = <<>> /\ next' = 1 /\ pc' = "lines"
    BY <1>1 DEF ReadArguments, Shapes, Working
  <2>2. ASSUME NEW n \in Part
        PROVE  Read(n)' = {}
    <3>1. job' = job /\ ArgumentsAccepted /\ job \in Job
      BY <1>1, XmlConstants DEF ReadArguments, Working, TypeOK
    <3>2. DOMAIN job.lines = 1..Len(job.lines) /\ Len(job.lines) \in Nat
      BY <3>1, DetectedType, LenProperties
    <3>3. \A k \in DOMAIN job'.lines : ~(k < next')
      BY <2>1, <3>1, <3>2
    <3> QED
      BY <2>1, <3>3 DEF Read, LinesOf
  <2>3. DOMAIN info' = {}
    BY <2>1
  <2> QED
    BY <2>2, <2>3 DEF LinesRead
<1>2. CASE ReadLine
  BY <1>2, ReadLineLines
<1>3. CASE LastLine
  <2>1. /\ pc = "lines" /\ next > Len(job.lines) /\ pc' = "names"
        /\ job' = job /\ flash' = flash /\ info' = info
    BY <1>3 DEF LastLine
  <2>2. /\ job.lines \in Seq(Line) /\ DOMAIN job.lines = 1..Len(job.lines) /\ Len(job.lines) \in Nat
    BY <2>1, LenProperties DEF Shapes, Working
  <2>3. ASSUME NEW n
        PROVE  Read(n)' = Read(n)
    <3>1. \A k \in LinesOf(n) : k < next
      BY <2>1, <2>2 DEF LinesOf, TypeOK
    <3>2. LinesOf(n)' = LinesOf(n)
      BY <2>1, SameLines
    <3> QED
      BY <2>1, <3>1, <3>2 DEF Read
  <2> QED
    BY <1>a, <2>1, <2>3 DEF Working
<1>4. CASE PairName \/ LastName \/ WriteXml
  <2>1. /\ pc # "lines" /\ pc' # "lines" /\ Working
        /\ job' = job /\ flash' = flash /\ info' = info
    BY <1>4 DEF PairName, LastName, WriteXml, Working
  <2>2. \A n : Read(n)' = Read(n)
    BY <2>1, SameLines DEF Read
  <2> QED
    BY <1>a, <2>1, <2>2
<1>5. CASE Dies
  BY <1>5 DEF Dies, Working
<1>6. CASE UNCHANGED vars
  <2>1. pc' = pc /\ job' = job /\ flash' = flash /\ info' = info /\ next' = next /\ Working
    BY <1>6 DEF vars, Working
  <2>2. \A n : Read(n)' = Read(n)
    BY <2>1, SameLines DEF Read
  <2> QED
    BY <1>a, <2>1, <2>2
<1> QED
  BY <1>1, <1>2, <1>3, <1>4, <1>5, <1>6 DEF Next

-----------------------------------------------------------------------------
(* The pairs.                                                               *)

LEMMA PairNamePairs ==
  ASSUME TypeOK, Shapes, NamesRead, PairName
  PROVE  NamesRead'
<1>1. /\ pc = "names" /\ pc' = "names" /\ next' = next + 1 /\ names' = names /\ info' = info
      /\ next \in Nat /\ names \in Seq(Part) /\ Len(names) \in Nat
  BY LenProperties DEF PairName, TypeOK, Shapes
<1>2. PICK name, at \in Nat : name = names[at] /\ at = next /\ at \in 1..Len(names)
  BY <1>1, PairNameAdds
<1>3. \A n : PairsOf(n)' = PairsOf(n)
  BY <1>1 DEF PairsOf, IsPrimary, HasBackup
<1>4. /\ \A k \in 1..Len(pairs) : PairsOf(pairs[k].primary) = <<pairs[k]>>
      /\ \A n \in seen : \E k \in 1..Len(pairs) : n \in Parts(pairs[k])
      /\ \A i \in 1..Len(names) : i < at => names[i] \in seen \/ PairsOf(names[i]) = <<>>
      /\ \A i, j \in 1..Len(pairs) : i < j => pairs[j].primary \notin Parts(pairs[i])
  BY <1>1, <1>2 DEF NamesRead
<1>5. \A i \in 1..Len(names) : i < next' <=> i < at \/ i = at
  BY <1>1, <1>2
<1>6. CASE (name \in seen \/ PairsOf(name) = <<>>) /\ pairs' = pairs /\ seen' = seen
  BY <1>1, <1>2, <1>3, <1>4, <1>5, <1>6 DEF NamesRead
<1>7. ASSUME NEW p \in PairRecord,
             name \notin seen, PairsOf(name) = <<p>>, p.primary = name,
             pairs' = Append(pairs, p), seen' = seen \cup Parts(p)
      PROVE  NamesRead'
  <2> DEFINE n == Len(pairs)
  <2>1. pairs \in Seq(PairRecord) /\ n \in Nat /\ DOMAIN pairs = 1..n
    BY LenProperties DEF Shapes
  <2>2. /\ Len(pairs') = n + 1 /\ pairs'[n + 1] = p
        /\ \A k \in 1..n : pairs'[k] = pairs[k]
    BY <1>7, <2>1, AppendProperties
  <2>3. /\ \A k \in 1..n + 1 : k \in 1..n \/ k = n + 1
        /\ 1..n \subseteq 1..n + 1 /\ n + 1 \in 1..n + 1
        /\ \A i, j \in 1..n + 1 : i < j => i \in 1..n
    BY <2>1
  <2>4. \A k \in 1..n : Parts(pairs[k]) \subseteq seen
    BY <2>1 DEF TypeOK, Parts
  <2> HIDE DEF n
  <2>5. \A k \in 1..n + 1 : PairsOf(pairs'[k].primary) = <<pairs'[k]>>
    BY <1>4, <1>7, <2>2, <2>3 DEF n
  <2>6. \A m \in seen' : \E k \in 1..n + 1 : m \in Parts(pairs'[k])
    <3> TAKE m \in seen'
    <3>1. CASE m \in Parts(p)
      BY <2>2, <2>3, <3>1
    <3>2. CASE m \notin Parts(p)
      <4>1. PICK k \in 1..n : m \in Parts(pairs[k])
        BY <1>4, <1>7, <3>2 DEF n
      <4> QED
        BY <2>2, <2>3, <4>1
    <3> QED
      BY <3>1, <3>2
  <2>7. \A i \in 1..Len(names) : i < next' => names[i] \in seen' \/ PairsOf(names[i]) = <<>>
    BY <1>2, <1>4, <1>5, <1>7 DEF Parts
  <2>8. \A i, j \in 1..n + 1 : i < j => pairs'[j].primary \notin Parts(pairs'[i])
    <3> TAKE i, j \in 1..n + 1
    <3>1. HAVE i < j
    <3>2. i \in 1..n /\ pairs'[i] = pairs[i]
      BY <2>2, <2>3, <3>1
    <3>3. CASE j = n + 1
      BY <1>7, <2>2, <2>4, <3>2, <3>3
    <3>4. CASE j \in 1..n
      BY <1>4, <2>2, <3>1, <3>2, <3>4 DEF n
    <3> QED
      BY <2>3, <3>3, <3>4
  <2> QED
    BY <1>1, <1>3, <2>2, <2>5, <2>6, <2>7, <2>8 DEF NamesRead
<1> QED
  BY <1>2, <1>6, <1>7, PairNameAdds

LEMMA NamesReadStep ==
  TypeOK /\ Shapes /\ NamesRead /\ [Next]_vars => NamesRead'
<1> SUFFICES ASSUME TypeOK, Shapes, NamesRead, [Next]_vars, pc' \in {"names", "write", "ok"}
             PROVE  NamesRead'
  BY DEF NamesRead
<1>a. ASSUME pc \in {"names", "write", "ok"},
             names' = names, info' = info, pairs' = pairs, seen' = seen,
             \A i \in 1..Len(names) : (pc' = "names" => i < next') => (pc = "names" => i < next)
      PROVE  NamesRead'
  <2>1. \A n : PairsOf(n)' = PairsOf(n)
    BY <1>a DEF PairsOf, IsPrimary, HasBackup
  <2> QED
    BY <1>a, <2>1 DEF NamesRead
<1>1. CASE LastLine
  <2>1. pairs' = <<>> /\ seen' = {} /\ next' = 1 /\ pc' = "names" /\ names' = names
    BY <1>1 DEF LastLine, Shapes
  <2>2. 1..Len(<<>>) = {} /\ \A i \in 1..Len(names) : ~(i < 1)
    BY EmptySeq, LenProperties DEF Shapes
  <2> QED
    BY <2>1, <2>2 DEF NamesRead
<1>2. CASE PairName
  BY <1>2, PairNamePairs
<1>3. CASE LastName
  <2>1. /\ pc = "names" /\ next > Len(names) /\ pc' = "write"
        /\ names' = names /\ info' = info /\ pairs' = pairs /\ seen' = seen
    BY <1>3 DEF LastName
  <2>2. \A i \in 1..Len(names) : i < next
    BY <2>1, LenProperties DEF TypeOK, Shapes
  <2> QED
    BY <1>a, <2>1, <2>2
<1>4. CASE WriteXml \/ UNCHANGED vars
  BY <1>4, <1>a DEF WriteXml, vars
<1> QED
  BY <1>1, <1>2, <1>3, <1>4 DEF Next, ReadArguments, ReadLine, Dies

LEMMA XmlInvariance == Spec => []XmlInv
<1>1. Init => XmlInv
  BY TypeInit DEF Init, XmlInv, LinesRead, NamesRead, Working
<1>2. XmlInv /\ [Next]_vars => XmlInv'
  <2> SUFFICES ASSUME XmlInv, [Next]_vars
               PROVE  XmlInv'
    OBVIOUS
  <2>1. TypeOK' /\ Shapes' /\ LinesRead' /\ NamesRead'
    BY TypeStep, LinesReadStep, NamesReadStep DEF XmlInv
  <2>2. ASSUME UNCHANGED <<job, flash, info, pairs>>
        PROVE  Document' = Document
    BY <2>2 DEF Document, Sorted, PairAt, UpToPair, RankOf, Entry, PathOf, DiskOf
  <2>3. ASSUME pc' = "ok"
        PROVE  xml' = Document'
    <3>1. CASE WriteXml
      BY <2>2, <3>1 DEF WriteXml
    <3>2. CASE UNCHANGED vars
      BY <2>2, <2>3, <3>2 DEF vars, XmlInv
    <3> QED
      BY <2>3, <3>1, <3>2
         DEF Next, ReadArguments, ReadLine, LastLine, PairName, LastName, Dies, XmlInv, TypeOK
  <2> QED
    BY <2>1, <2>3 DEF XmlInv
<1> QED
  BY <1>1, <1>2, PTL DEF Spec

-----------------------------------------------------------------------------
(* What the document says.                                                  *)

LEMMA GreatestAndLeast ==
  ASSUME NEW S \in SUBSET Nat, NEW k \in S
  PROVE  /\ (\A m \in S : m <= k) => Max(S) = k
         /\ (\A m \in S : k <= m) => Min(S) = k
<1>0. \A m \in S : m \in Nat
  OBVIOUS
<1>1. ASSUME \A m \in S : m <= k
      PROVE  Max(S) = k
  <2>1. \A m \in S : k >= m
    BY <1>0, <1>1
  <2>2. \A x \in S : (\A m \in S : x >= m) => x = k
    BY <1>0, <1>1
  <2> QED
    BY <2>1, <2>2 DEF Max
<1>2. ASSUME \A m \in S : k <= m
      PROVE  Min(S) = k
  <2>1. \A x \in S : (\A m \in S : x <= m) => x = k
    BY <1>0, <1>2
  <2> QED
    BY <1>2, <2>1 DEF Min
<1> QED
  BY <1>1, <1>2

LEMMA Winners ==
  ASSUME XmlInv, pc = "ok"
  PROVE  /\ \A n \in DOMAIN info : info[n] = WinnerOf(n)
         /\ DOMAIN info = Listed
<1>1. TypeOK /\ Shapes /\ LinesRead /\ Working
  BY DEF XmlInv, Working
<1>2. \A n : Read(n) = LinesOf(n)
  BY DEF Read
<1>3. \A n : LinesOf(n) \subseteq Nat
  <2>1. DOMAIN job.lines = 1..Len(job.lines) /\ Len(job.lines) \in Nat
    BY <1>1, LenProperties DEF Shapes
  <2> QED
    BY <2>1 DEF LinesOf
<1>4. DOMAIN info \subseteq Part
  BY <1>1, ListedNames
<1>5. ASSUME NEW n \in DOMAIN info
      PROVE  info[n] = WinnerOf(n)
  <2>1. PICK k \in LinesOf(n) : info[n] = job.lines[k] /\ Stays(n, k)
    BY <1>1, <1>2, <1>4 DEF LinesRead
  <2>2. CASE flash # "UFS"
    <3>1. \A m \in LinesOf(n) : m <= k
      BY <1>2, <2>1, <2>2 DEF Stays
    <3>2. Max(LinesOf(n)) = k
      BY <1>3, <3>1, GreatestAndLeast
    <3> QED
      BY <2>1, <2>2, <3>2 DEF WinnerOf
  <2>3. CASE flash = "UFS" /\ OnLun1(n) # {}
    <3>1. /\ k \in OnLun1(n) /\ OnLun1(n) \subseteq Nat
          /\ \A m \in OnLun1(n) : k <= m
      BY <1>2, <1>3, <2>1, <2>3 DEF Stays, OnLun1
    <3>2. Min(OnLun1(n)) = k
      BY <3>1, GreatestAndLeast
    <3> QED
      BY <2>1, <2>3, <3>2 DEF WinnerOf
  <2>4. CASE flash = "UFS" /\ OnLun1(n) = {}
    <3>1. \A m \in LinesOf(n) : k <= m
      BY <1>2, <2>1, <2>4 DEF Stays, OnLun1
    <3>2. Min(LinesOf(n)) = k
      BY <1>3, <3>1, GreatestAndLeast
    <3> QED
      BY <2>1, <2>4, <3>2 DEF WinnerOf
  <2> QED
    BY <2>2, <2>3, <2>4
<1>6. DOMAIN info = Listed
  BY <1>1, <1>2, <1>4 DEF LinesRead, Listed
<1> QED
  BY <1>5, <1>6

\* The entries of the document are those of the pairs, each one once.
LEMMA EntriesOfPairs ==
  ASSUME XmlInv, pc = "ok"
  PROVE  /\ xml.entries \in Seq(RawEntry) /\ Len(pairs) \in Nat
         /\ DOMAIN pairs = 1..Len(pairs) /\ DOMAIN xml.entries = 1..Len(pairs)
         /\ xml.wellFormed = TRUE /\ xml.flash = IF flash \in FlashType THEN flash ELSE Unknown
         /\ \A k \in 1..Len(pairs) : /\ PairAt(k) \in 1..Len(pairs)
                                     /\ xml.entries[k] = Entry(pairs[PairAt(k)])
         /\ \A i \in 1..Len(pairs) : /\ \E k \in 1..Len(pairs) : PairAt(k) = i
                                     /\ pairs[i] \in PairRecord
                                     /\ Parts(pairs[i]) \subseteq DOMAIN info
         /\ \A j, k \in 1..Len(pairs) : PairAt(j) = PairAt(k) => j = k
<1>1. TypeOK /\ Shapes /\ xml = Document /\ flash \in Storage
  BY DEF XmlInv, Shapes, Working
<1>2. pairs \in Seq(PairRecord) /\ DOMAIN pairs = 1..Len(pairs) /\ Len(pairs) \in Nat
  BY <1>1, LenProperties DEF Shapes
<1>3. /\ xml.entries \in Seq(RawEntry) /\ DOMAIN xml.entries = 1..Len(pairs)
      /\ \A k \in 1..Len(pairs) : xml.entries[k] = Entry(pairs[PairAt(k)])
  BY <1>1, <1>2, DocumentType DEF XmlDoc
<1>4. xml.wellFormed = TRUE /\ xml.flash = IF flash \in FlashType THEN flash ELSE Unknown
  BY <1>1 DEF Document
<1>5. \A i \in 1..Len(pairs) : pairs[i] \in PairRecord /\ Parts(pairs[i]) \subseteq DOMAIN info
  BY <1>1, <1>2, ElementOfSeq DEF TypeOK, Parts
<1> QED
  BY <1>2, <1>3, <1>4, <1>5, SortPermutes

LEMMA EntryOfPair ==
  ASSUME XmlInv, pc = "ok", NEW k \in DOMAIN xml.entries
  PROVE  /\ PairAt(k) \in 1..Len(pairs) /\ pairs[PairAt(k)] \in PairRecord
         /\ xml.entries[k] = Entry(pairs[PairAt(k)])
         /\ Parts(pairs[PairAt(k)]) \subseteq DOMAIN info
<1>1. PairAt(k) \in 1..Len(pairs) /\ xml.entries[k] = Entry(pairs[PairAt(k)])
  BY EntriesOfPairs
<1>2. \A i \in 1..Len(pairs) : pairs[i] \in PairRecord /\ Parts(pairs[i]) \subseteq DOMAIN info
  BY EntriesOfPairs
<1> QED
  BY <1>1, <1>2

\* Whatever the order of the lines, each entry has the image of the winning line of
\* its primary, and each of its paths the disk and the type GUID of the winning line
\* of its partition (parse_partition_info, create_xml).
THEOREM WinnersWritten == Spec => []EntriesOfWinners
<1>1. XmlInv => EntriesOfWinners
  <2> SUFFICES ASSUME XmlInv, pc = "ok", NEW k \in DOMAIN xml.entries
               PROVE  LET e == xml.entries[k]
                      IN FromLine(e.upd) /\ FromLine(e.bak) /\ e.bin = WinnerOf(e.upd.part).file
    BY DEF EntriesOfWinners
  <2>1. TypeOK /\ Shapes /\ flash \in Storage
    BY DEF XmlInv, Shapes, Working
  <2>2. PICK p \in PairRecord : xml.entries[k] = Entry(p) /\ Parts(p) \subseteq DOMAIN info
    BY EntryOfPair
  <2>3. p.primary \in DOMAIN info /\ p.backup \in DOMAIN info
    BY <2>2 DEF Parts
  <2>4. ASSUME NEW n \in DOMAIN info
        PROVE  FromLine(PathOf(n)) /\ PathOf(n).part = n /\ info[n] = WinnerOf(n)
    <3>1. info[n] = WinnerOf(n) /\ info[n] \in Line /\ Usable(info[n])
      BY <2>1, Winners, ListedNames DEF Shapes
    <3>2. flash = "UFS" => DiskOf(info[n]) = LunDisk[info[n].lun]
      BY <2>1, <3>1, UsableDisk
    <3> QED
      BY <3>1, <3>2 DEF PathOf, FromLine
  <2>5. /\ xml.entries[k].upd = PathOf(p.primary) /\ xml.entries[k].bak = PathOf(p.backup)
        /\ xml.entries[k].bin = info[p.primary].file
    BY <2>2 DEF Entry
  <2> QED
    BY <2>3, <2>4, <2>5
<1> QED
  BY <1>1, XmlInvariance, PTL

-----------------------------------------------------------------------------
(* Which names share an entry.                                              *)

\* The pair that a name begins: it has the name, and its second slot or its backup.
LEMMA KindOfPair ==
  ASSUME XmlInv, pc = "ok", NEW i \in 1..Len(pairs)
  PROVE  LET p == pairs[i]
         IN /\ p.primary \in Name /\ p.backup \in DOMAIN info
            /\ \/ Last(p.primary) = "_a" /\ p.backup = SecondSlot(p.primary)
               \/ Last(p.primary) # "_BACKUP" /\ p.backup = BackupOf(p.primary)
<1> DEFINE p == pairs[i]
<1>1. TypeOK /\ Shapes /\ NamesRead
  BY DEF XmlInv
<1>2. p \in PairRecord /\ p.primary \in DOMAIN info /\ PairsOf(p.primary) = <<p>>
  <2>1. \A k \in 1..Len(pairs) : pairs[k] \in PairRecord /\ Parts(pairs[k]) \subseteq DOMAIN info
    BY EntriesOfPairs
  <2> QED
    BY <1>1, <2>1 DEF NamesRead, Parts
<1> HIDE DEF p
<1>3. PICK q \in PairRecord :
        /\ PairsOf(p.primary) = <<q>> /\ q.primary = p.primary /\ q.backup \in DOMAIN info
        /\ \/ Last(p.primary) = "_a" /\ q.backup = SecondSlot(p.primary)
           \/ Last(p.primary) # "_BACKUP" /\ q.backup = BackupOf(p.primary)
  <2>1. PairsOf(p.primary) # <<>>
    BY <1>2
  <2> QED
    BY <1>1, <1>2, <2>1, PairsOfName
<1>4. p = q
  BY <1>2, <1>3
<1>5. p.primary \in Name
  BY <1>1, <1>2, ListedNames
<1> QED
  BY <1>3, <1>4, <1>5 DEF p

LEMMA SharedName ==
  ASSUME XmlInv, pc = "ok", NEW i \in 1..Len(pairs), NEW j \in 1..Len(pairs), i < j,
         NEW n \in Parts(pairs[i]) \cap Parts(pairs[j])
  PROVE  TwiceBacked(n)
<1> DEFINE p == pairs[i]
           q == pairs[j]
<1>1. /\ p.primary \in Name /\ p.backup \in DOMAIN info
      /\ \/ Last(p.primary) = "_a" /\ p.backup = SecondSlot(p.primary)
         \/ Last(p.primary) # "_BACKUP" /\ p.backup = BackupOf(p.primary)
  BY KindOfPair
<1>2. /\ q.primary \in Name
      /\ \/ Last(q.primary) = "_a" /\ q.backup = SecondSlot(q.primary)
         \/ Last(q.primary) # "_BACKUP" /\ q.backup = BackupOf(q.primary)
  BY KindOfPair
<1>3. q.primary \notin Parts(p)
  BY DEF XmlInv, NamesRead
<1>4. n \in {p.primary, p.backup} /\ n \in {q.primary, q.backup}
  BY DEF Parts
<1> HIDE DEF p, q
<1>5. n = q.backup /\ q.primary # p.primary
  BY <1>3, <1>4 DEF Parts
<1>6. \A m \in Name : Last(SecondSlot(m)) = "_b" /\ Last(BackupOf(m)) = "_BACKUP"
  BY PartnerNames
<1>7. CASE n = p.primary
  <2>1. Last(p.primary) # "_BACKUP"
    BY <1>1
  <2>2. q.backup = SecondSlot(q.primary)
    BY <1>2, <1>5, <1>6, <1>7, <2>1
  <2>3. Last(n) = "_b"
    BY <1>2, <1>5, <1>6, <2>2
  <2>4. p.backup = BackupOf(n)
    BY <1>1, <1>7, <2>3
  <2>5. BackupOf(n) \in Listed
    BY <1>1, <2>4, Winners
  <2> QED
    BY <2>3, <2>5 DEF TwiceBacked
<1>8. CASE n = p.backup
  <2>1. /\ BackupOf(p.primary) = BackupOf(q.primary) => p.primary = q.primary
        /\ SecondSlot(p.primary) = SecondSlot(q.primary) /\ Last(p.primary) = Last(q.primary)
             => p.primary = q.primary
        /\ BackupOf(p.primary) # SecondSlot(q.primary)
        /\ BackupOf(q.primary) # SecondSlot(p.primary)
    BY <1>1, <1>2, PartnerNames
  <2> QED
    BY <1>1, <1>2, <1>5, <1>8, <2>1
<1> QED
  BY <1>4, <1>7, <1>8

LEMMA PartnerFound ==
  ASSUME XmlInv, pc = "ok", NEW n \in Listed, Partnered(n)
  PROVE  \E i \in 1..Len(pairs) : n \in Parts(pairs[i])
<1>1. TypeOK /\ Shapes /\ NamesRead /\ DOMAIN info = Listed
  BY Winners DEF XmlInv
<1>2. PICK i \in 1..Len(names) : names[i] = n
  BY <1>1, ListedNames
<1>3. IsPrimary(n) \/ HasBackup(n)
  BY <1>1 DEF Partnered, IsPrimary, HasBackup
<1>4. PairsOf(n) # <<>>
  BY <1>3 DEF PairsOf
<1>5. n \in seen
  BY <1>1, <1>2, <1>4 DEF NamesRead
<1> QED
  BY <1>1, <1>5 DEF NamesRead

\* A listed partition with a partner is in some entry, and two entries share a
\* partition only if it is the _b of one and has a _BACKUP of its own, whatever the
\* names of the file (find_base_names).
THEOREM PairsOnce == Spec => []PairedOnce
<1>1. XmlInv => PairedOnce
  <2> SUFFICES ASSUME XmlInv, pc = "ok"
               PROVE  PairedOnce
    BY DEF PairedOnce
  <2>1. Len(pairs) \in Nat /\ DOMAIN xml.entries = 1..Len(pairs)
    BY EntriesOfPairs
  <2>2. ASSUME NEW k \in DOMAIN xml.entries
        PROVE  PartsOf(xml.entries[k]) = Parts(pairs[PairAt(k)])
    <3> DEFINE p == pairs[PairAt(k)]
    <3>1. xml.entries[k] = Entry(p)
      BY EntryOfPair
    <3> HIDE DEF p
    <3>2. Entry(p).upd.part = p.primary /\ Entry(p).bak.part = p.backup
      BY DEF Entry, PathOf
    <3>3. PartsOf(xml.entries[k]) = Parts(p)
      BY <3>1, <3>2 DEF PartsOf, Parts
    <3> QED
      BY <3>3 DEF p
  <2>3. ASSUME NEW n \in Listed, Partnered(n)
        PROVE  \E k \in DOMAIN xml.entries : n \in PartsOf(xml.entries[k])
    <3>1. PICK i \in 1..Len(pairs) : n \in Parts(pairs[i])
      BY <2>3, PartnerFound
    <3>2. PICK k \in 1..Len(pairs) : PairAt(k) = i
      BY EntriesOfPairs
    <3> QED
      BY <2>1, <2>2, <3>1, <3>2
  <2>4. ASSUME NEW j \in DOMAIN xml.entries, NEW k \in DOMAIN xml.entries, j # k,
               NEW n \in PartsOf(xml.entries[j]) \cap PartsOf(xml.entries[k])
        PROVE  TwiceBacked(n)
    <3>1. PairAt(j) \in 1..Len(pairs) /\ PairAt(k) \in 1..Len(pairs)
      BY EntryOfPair
    <3>2. PairAt(j) # PairAt(k)
      BY <2>1, <2>4, EntriesOfPairs
    <3>3. n \in Parts(pairs[PairAt(j)]) /\ n \in Parts(pairs[PairAt(k)])
      BY <2>2
    <3>4. PairAt(j) < PairAt(k) \/ PairAt(k) < PairAt(j)
      BY <2>1, <3>1, <3>2
    <3> QED
      BY <3>1, <3>3, <3>4, SharedName
  <2> QED
    BY <2>3, <2>4 DEF PairedOnce
<1> QED
  BY <1>1, XmlInvariance, PTL

-----------------------------------------------------------------------------
(* What fv-create makes of the document.                                    *)

LEMMA EntryChecked ==
  ASSUME XmlInv, pc = "ok", flash \in FlashType, NEW k \in DOMAIN xml.entries,
         \A n \in DOMAIN info : info[n].guid # Unknown /\ n \notin RefusedPart
  PROVE  LET e == xml.entries[k]
         IN /\ EntryAccepted(e)
            /\ e.updateType = "PARTITION" /\ e.match = None
            /\ \A path \in {e.upd, e.bak} : path.disk \in DiskType /\ flash \in FlashOfDisk[path.disk]
<1> DEFINE p == pairs[PairAt(k)]
<1>1. TypeOK /\ Shapes /\ flash \in Storage
  BY DEF XmlInv, Shapes, Working
<1>2. /\ xml.entries[k] = Entry(p)
      /\ p.primary \in DOMAIN info /\ p.backup \in DOMAIN info
  BY EntryOfPair DEF Parts
<1> HIDE DEF p
<1>3. ASSUME NEW n \in DOMAIN info
      PROVE  /\ PathOf(n).disk \in DiskType /\ flash \in FlashOfDisk[PathOf(n).disk]
             /\ PathOf(n).disk \notin {None, Unknown}
             /\ PathOf(n).part \notin RefusedPart /\ PathOf(n).part # None
             /\ PathOf(n).guid \notin {None, Unknown}
             /\ info[n].file # None
  <2>1. n \in Part /\ info[n] \in Line /\ Usable(info[n])
    BY <1>1, ListedNames DEF Shapes
  <2>2. /\ DiskOf(info[n]) \in DiskType /\ flash \in FlashOfDisk[DiskOf(info[n])]
        /\ info[n].file # None
    BY <1>1, <2>1, UsableDisk
  <2>3. info[n].guid \in TypeGuid
    BY <2>1 DEF Line
  <2>4. n # None /\ info[n].guid # None /\ info[n].guid # Unknown
    BY <2>1, <2>3, EntryConstants
  <2>5. DiskOf(info[n]) \notin {None, Unknown}
    BY <2>2, AbsentTags
  <2>6. /\ PathOf(n).disk = DiskOf(info[n]) /\ PathOf(n).part = n
        /\ PathOf(n).guid = info[n].guid
    BY DEF PathOf
  <2> QED
    BY <2>2, <2>4, <2>5, <2>6
<1> DEFINE e == Entry(p)
<1>4. /\ e.op \in {"UPDATE", "IGNORE"} /\ e.bin = info[p.primary].file
      /\ e.updateType = "PARTITION" /\ e.backupType = "PARTITION"
      /\ e.upd = PathOf(p.primary) /\ e.bak = PathOf(p.backup)
      /\ e.match = None /\ e.binType = None /\ e.images = <<>>
  BY DEF Entry
<1> HIDE DEF e
<1>5. TypesAccepted(e) /\ GuidAssigned(e)
  BY <1>4 DEF TypesAccepted, GuidAssigned, OperationType, UpdateType, DppType
<1>6. GlymurTagsAccepted(e)
  BY <1>4, EntryConstants DEF GlymurTagsAccepted
<1>7. PathAccepted(e, e.upd) /\ PathAccepted(e, e.bak)
  BY <1>2, <1>3, <1>4 DEF PathAccepted
<1>8. CombinationAccepted(e)
  BY <1>2, <1>3, <1>4 DEF CombinationAccepted, Complete
<1>9. EntryAccepted(e)
  BY <1>5, <1>6, <1>7, <1>8 DEF EntryAccepted
<1>10. \A path \in {e.upd, e.bak} : path.disk \in DiskType /\ flash \in FlashOfDisk[path.disk]
  BY <1>2, <1>3, <1>4
<1>11. xml.entries[k] = e
  BY <1>2 DEF e
<1> QED
  BY <1>4, <1>9, <1>10, <1>11

\* fv-create accepts the document that update-fv-xml wrote of a partition file with
\* well-formed type GUIDs and no reserved name, with at least one pair in it and a
\* storage type of the -S option (create_xml, detect_storage_type_from_conf).
THEOREM DocumentAccepted == Spec => []GeneratedAccepted
<1>1. XmlInv => GeneratedAccepted
  <2> SUFFICES ASSUME XmlInv, pc = "ok", flash \in FlashType, pairs # <<>>,
                      \A n \in DOMAIN info : info[n].guid # Unknown /\ n \notin RefusedPart
               PROVE  /\ XmlAccepted(xml)
                      /\ \A k \in DOMAIN xml.entries : EntryAccepted(xml.entries[k])
                      /\ ListAccepted([k \in DOMAIN Updated |-> MetaOf(Updated[k], [id |-> k, order |-> "be"])], flash)
    BY DEF GeneratedAccepted
  <2>1. /\ Len(pairs) \in Nat /\ DOMAIN xml.entries = 1..Len(pairs)
        /\ xml.wellFormed = TRUE /\ xml.flash = flash
    BY EntriesOfPairs
  <2>2. XmlAccepted(xml)
    <3>1. Len(pairs) # 0
      <4>1. pairs \in Seq(PairRecord)
        BY DEF XmlInv, Shapes
      <4> QED
        BY <4>1, EmptySeq
    <3>2. 1 \in DOMAIN xml.entries
      BY <2>1, <3>1
    <3>3. xml.entries # <<>>
      BY <3>2
    <3> QED
      BY <2>1, <3>3 DEF XmlAccepted
  <2>3. \A k \in DOMAIN xml.entries : EntryAccepted(xml.entries[k])
    BY EntryChecked
  <2> DEFINE S == {k \in DOMAIN xml.entries : xml.entries[k].op = "UPDATE"}
             q == [k \in DOMAIN Updated |-> MetaOf(Updated[k], [id |-> k, order |-> "be"])]
  <2>4. Updated = Picked(xml.entries, S)
    BY DEF Updated
  <2>5. S \in SUBSET (1..Len(pairs))
    BY <2>1
  <2>6. /\ Cardinality(S) \in Nat /\ DOMAIN Updated = 1..Cardinality(S)
        /\ \A k \in 1..Cardinality(S) : \E i \in S : Updated[k] = xml.entries[i]
    <3> DEFINE n == Len(pairs)
    <3>1. n \in Nat /\ S \in SUBSET (1..n)
      BY <2>1, <2>5
    <3> HIDE DEF n, S
    <3> DEFINE P == Picked(xml.entries, S)
    <3>2. /\ Cardinality(S) \in Nat /\ DOMAIN P = 1..Cardinality(S)
          /\ \A k \in 1..Cardinality(S) : \E i \in S : RankIn(S, i) = k /\ P[k] = xml.entries[i]
      BY <3>1, PickedElements
    <3>3. Updated = P
      BY <2>4
    <3> HIDE DEF P
    <3> QED
      BY <3>2, <3>3
  <2>7. ASSUME NEW k \in DOMAIN q
        PROVE  /\ q[k].match = None
               /\ flash \in FlashOfDisk[q[k].upd.disk] \cap FlashOfDisk[q[k].bak.disk]
    <3>1. PICK i \in DOMAIN xml.entries : Updated[k] = xml.entries[i]
      BY <2>6
    <3> DEFINE e == xml.entries[i]
    <3>2. /\ e.match = None /\ e.upd.disk \in DiskType /\ e.bak.disk \in DiskType
          /\ flash \in FlashOfDisk[e.upd.disk] /\ flash \in FlashOfDisk[e.bak.disk]
      BY EntryChecked
    <3>3. q[k] = MetaOf(e, [id |-> k, order |-> "be"])
      BY <3>1
    <3> HIDE DEF e, q
    <3>4. q[k].match = e.match /\ q[k].upd = MetaPathOf(e.upd) /\ q[k].bak = MetaPathOf(e.bak)
      BY <3>3 DEF MetaOf
    <3>5. e.upd.disk # None /\ e.bak.disk # None
      BY <3>2, AbsentTags
    <3>6. q[k].upd.disk = e.upd.disk /\ q[k].bak.disk = e.bak.disk
      BY <3>4, <3>5 DEF MetaPathOf
    <3> QED
      BY <3>2, <3>4, <3>6
  <2>8. DOMAIN q = 1..Cardinality(S)
    BY <2>6
  <2>9. Len(q) = Cardinality(S)
    <3> HIDE DEF S
    <3> QED
      BY <2>6
  <2> HIDE DEF q, S
  <2>10. DisksOnFlash(q, flash)
    BY <2>7 DEF DisksOnFlash
  <2>11. PathsExclusive(q)
    <3>1. \A a, b : ~SameDevicePath(a, b)
      BY DEF SameDevicePath, CtypesArrayEq
    <3>2. \A i \in DOMAIN q : \A j \in (i + 1)..Len(q) : j \in DOMAIN q
      BY <2>6, <2>8, <2>9
    <3> QED
      BY <2>7, <3>1, <3>2 DEF PathsExclusive
  <2>12. ListAccepted(q, flash)
    BY <2>10, <2>11 DEF ListAccepted
  <2> QED
    BY <2>2, <2>3, <2>12 DEF q
<1> QED
  BY <1>1, XmlInvariance, PTL
=============================================================================
