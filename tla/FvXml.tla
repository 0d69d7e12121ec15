------------------------------- MODULE FvXml -------------------------------
(***************************************************************************)
(* update-fv-xml (UpdateFvXml.py): one run that reads a partitions.conf,   *)
(* pairs each partition with its backup and writes FvUpdate.xml, the       *)
(* document that fv-create validates (FwEntryValidation).                  *)
(*                                                                         *)
(* The name of a partition is the sequence of its parts: <<"x", "_a">> is  *)
(* x_a and <<"x", "_BACKUP">> is x_BACKUP.                                 *)
(***************************************************************************)
EXTENDS FwEntryValidation, Places, SequencesExt

CONSTANTS Jobs,   \* the invocations: arguments, and the lines of the file they name
          Rank,   \* base name -> its place in the order of strings
          Images, \* the InputPath of every entry
          Torn    \* a file whose write was cut short

Storage == FlashType \cup {"SPINOR"}
Lun     == 0..7

\* What a line says: a partition (name None: no partition), and a --type.
Line == [name : Part \cup {None}, lun : Lun \cup {None}, guid : TypeGuid \cup {Unknown},
         file : Binary \cup {None}, type : {"UFS", "EMMC", "SPINOR", None}]

\* An invocation: -F or not, the argument of -T, which is missing, one of the
\* targets or another text, that of -S, the file (None: it is not there), and the
\* names of --update-partitions.
Job == [conf : BOOLEAN, target : {None, "known", Unknown}, storage : FlashType \cup {None},
        lines : Seq(Line) \cup {None}, update : SUBSET Part]

\* The names a pair can get: that of its primary, without the slot of an A/B one.
Base == {Front(n) : n \in {m \in Part : Last(m) = "_a"}} \cup {n \in Part : Last(n) # "_BACKUP"}

ASSUME XmlConstants ==
  /\ Part \subseteq Seq(STRING) \ {<<>>}
  /\ Rank \in [Base -> Nat]
  /\ Jobs \subseteq Job
  /\ Images \in Dir
  /\ None \notin Lun /\ Unknown \notin Lun
  /\ Torn \notin {None}

VARIABLES pc,     \* the step of main
          job,    \* the arguments
          flash,  \* args.StorageType
          next,   \* the line or the name the loop is at
          names,  \* the keys of partition_info, in the order they were added
          info,   \* partition_info: the name -> the line it is from
          pairs,  \* primary and backup, with their base
          seen,   \* names that are in a pair
          xml     \* FvUpdate.xml; None: as it was

vars == <<pc, job, flash, next, names, info, pairs, seen, xml>>

Init ==
  /\ pc = "arguments" /\ job \in Jobs /\ flash = None /\ next = 1
  /\ names = <<>> /\ info = <<>>
  /\ pairs = <<>> /\ seen = {} /\ xml = None

-----------------------------------------------------------------------------
(* Arguments and the storage type.                                          *)

\* detect_storage_type_from_conf: the first line with a --type.
Typed  == {k \in DOMAIN job.lines : job.lines[k].type # None}
Detected == job.lines[CHOOSE k \in Typed : \A m \in Typed : k <= m].type

\* -F excludes -S and -T; -T needs -S, and a target of the table.
ArgumentsAccepted ==
  /\ IF job.conf THEN job.storage = None /\ job.target = None
     ELSE job.target = "known" /\ job.storage # None
  /\ job.lines # None
  /\ job.conf => Typed # {}

ReadArguments ==
  /\ pc = "arguments"
  /\ IF ArgumentsAccepted
     THEN /\ pc' = "lines"
          /\ flash' = IF job.conf THEN Detected ELSE job.storage
     ELSE pc' = "failed" /\ UNCHANGED flash
  /\ UNCHANGED <<job, next, names, info, pairs, seen, xml>>

-----------------------------------------------------------------------------
(* parse_partition_info, a line at a time.                                  *)

\* A partition with an image, on one of the LUNs looked at, or on none.
Usable(l) == /\ l.name # None /\ l.file # None
             /\ IF flash = "UFS" THEN l.lun \in {1, 2, 4} ELSE l.lun = None

\* Mutant: of two lines of LUN1 the later one stays.
TakesOverOnLun1(l, old) == flash = "UFS" => l.lun = 1

\* A line for a name that has one: on UFS the first of LUN1 stays, else the first;
\* elsewhere the last.
TakesOver(l, old) == flash = "UFS" => old.lun # 1 /\ l.lun = 1

ReadLine ==
  LET l == job.lines[next] IN
  /\ pc = "lines" /\ next <= Len(job.lines)
  /\ IF Usable(l) /\ (l.name \in DOMAIN info => TakesOver(l, info[l.name]))
     THEN /\ info' = [n \in DOMAIN info \cup {l.name} |-> IF n = l.name THEN l ELSE info[n]]
          /\ names' = IF l.name \in DOMAIN info THEN names ELSE Append(names, l.name)
     ELSE UNCHANGED <<info, names>>
  /\ next' = next + 1
  /\ UNCHANGED <<pc, job, flash, pairs, seen, xml>>

LastLine ==
  /\ pc = "lines" /\ next > Len(job.lines)
  /\ pc' = "names" /\ next' = 1
  /\ UNCHANGED <<job, flash, names, info, pairs, seen, xml>>

-----------------------------------------------------------------------------
(* find_base_names, a name at a time.                                       *)

Pair(base, primary, backup) == [base |-> base, primary |-> primary, backup |-> backup]

SecondSlot(name) == Append(Front(name), "_b")
BackupOf(name)  == Append(name, "_BACKUP")
IsPrimary(name) == Last(name) = "_a" /\ SecondSlot(name) \in DOMAIN info
HasBackup(name) == Last(name) # "_BACKUP" /\ BackupOf(name) \in DOMAIN info

\* Mutant: a name with both conventions gets a pair of each.
PairsOfBoth(name) ==
  (IF IsPrimary(name) THEN <<Pair(Front(name), name, SecondSlot(name))>> ELSE <<>>)
  \o (IF HasBackup(name) THEN <<Pair(name, name, BackupOf(name))>> ELSE <<>>)

PairsOf(name) ==
  IF IsPrimary(name) THEN <<Pair(Front(name), name, SecondSlot(name))>>
  ELSE IF HasBackup(name) THEN <<Pair(name, name, BackupOf(name))>>
  ELSE <<>>

\* Mutant: the backup of a pair is not seen.
PairNameForgetting ==
  LET new == IF names[next] \in seen THEN <<>> ELSE PairsOf(names[next]) IN
  /\ pc = "names" /\ next <= Len(names)
  /\ pairs' = pairs \o new
  /\ seen' = seen \cup {new[k].primary : k \in DOMAIN new}
  /\ next' = next + 1
  /\ UNCHANGED <<pc, job, flash, names, info, xml>>

PairName ==
  LET new == IF names[next] \in seen THEN <<>> ELSE PairsOf(names[next]) IN
  /\ pc = "names" /\ next <= Len(names)
  /\ pairs' = pairs \o new
  /\ seen' = seen \cup UNION {{new[k].primary, new[k].backup} : k \in DOMAIN new}
  /\ next' = next + 1
  /\ UNCHANGED <<pc, job, flash, names, info, xml>>

LastName ==
  /\ pc = "names" /\ next > Len(names)
  /\ pc' = "write"
  /\ UNCHANGED <<job, flash, next, names, info, pairs, seen, xml>>

-----------------------------------------------------------------------------
(* create_xml and write_xml.                                                *)

LunDisk == <<"LUN1", "LUN2", "LUN3", "LUN4">>

\* Mutant: the NOR storage types are forgotten.
DiskWithoutNor(l) == IF flash = "UFS" THEN LunDisk[l.lun] ELSE "USER_DATA"

DiskOf(l) == IF flash = "UFS" THEN LunDisk[l.lun]
             ELSE IF flash = "EMMC" THEN "USER_DATA" ELSE "SPINOR"

PathOf(name) == [disk |-> DiskOf(info[name]), part |-> name, guid |-> info[name].guid]

Entry(p) ==
  [op         |-> IF p.base \in job.update THEN "UPDATE" ELSE "IGNORE",
   bin        |-> info[p.primary].file, inPath |-> Images,
   updateType |-> "PARTITION", backupType |-> "PARTITION",
   upd        |-> PathOf(p.primary), bak |-> PathOf(p.backup),
   match      |-> None, binType |-> None, images |-> <<>>]

\* sorted(pairs, key=base), which is stable: the pairs at most as high as pair i
\* tell its place.
RankOf(i)   == Rank[pairs[i].base]
UpToPair(i) == {j \in DOMAIN pairs : RankOf(j) < RankOf(i) \/ (RankOf(j) = RankOf(i) /\ j <= i)}
PairAt(k)   == CHOOSE i \in DOMAIN pairs : Cardinality(UpToPair(i)) = k
Sorted      == [k \in DOMAIN pairs |-> pairs[PairAt(k)]]

\* The document as the parser of fv-create sees it: one without a pair has no
\* <FwEntry>, and a storage type that is no flash type is a text it does not know.
Document == [wellFormed |-> TRUE,
             flash      |-> IF flash \in FlashType THEN flash ELSE Unknown,
             entries    |-> [k \in DOMAIN pairs |-> Entry(Sorted[k])]]

WriteXml ==
  /\ pc = "write"
  /\ xml' = Document
  /\ pc' = "ok"
  /\ UNCHANGED <<job, flash, next, names, info, pairs, seen>>

\* An exception or a kill; the file is open from the start of the write.
Dies ==
  /\ pc \notin {"ok", "failed"}
  /\ \/ UNCHANGED xml
     \/ pc = "write" /\ xml' = Torn
  /\ pc' = "failed"
  /\ UNCHANGED <<job, flash, next, names, info, pairs, seen>>

Next == \/ ReadArguments \/ ReadLine \/ LastLine \/ PairName \/ LastName \/ WriteXml
        \/ Dies

Spec == Init /\ [][Next]_vars

-----------------------------------------------------------------------------
(* Properties.                                                              *)

\* Every variable has its type; the keys of partition_info are its names.
TypeOK ==
  /\ pc \in {"arguments", "lines", "names", "write", "ok", "failed"}
  /\ job \in Jobs
  /\ flash \in Storage \cup {None}
  /\ next \in Nat \ {0}
  /\ DOMAIN info = ToSet(names) /\ \A n \in DOMAIN info : info[n] \in Line /\ info[n].name = n
  /\ \A k \in DOMAIN pairs : {pairs[k].primary, pairs[k].backup} \subseteq DOMAIN info \cap seen
  /\ xml \in XmlDoc \cup {None, Torn}

\* The lines a name may be taken from, and the one that the comment in the code
\* promises: on UFS the first of LUN1 wherever it stands, or else the first.
LinesOf(n) == {k \in DOMAIN job.lines : Usable(job.lines[k]) /\ job.lines[k].name = n}
OnLun1(n)  == {k \in LinesOf(n) : job.lines[k].lun = 1}
WinnerOf(n) == job.lines[IF flash # "UFS" THEN Max(LinesOf(n))
                         ELSE IF OnLun1(n) # {} THEN Min(OnLun1(n))
                         ELSE Min(LinesOf(n))]
Listed == {n \in Part : LinesOf(n) # {}}

\* Whatever the order of the lines and however often a name is repeated, an entry
\* has the image of the winning line of its primary, and the disk and type GUID of
\* the winning line of each of its partitions, also where these are of two LUNs.
FromLine(path) ==
  LET l == WinnerOf(path.part)
  IN path.guid = l.guid /\ (flash = "UFS" => path.disk = LunDisk[l.lun])
EntriesOfWinners ==
  pc = "ok" => \A k \in DOMAIN xml.entries :
    LET e == xml.entries[k]
    IN FromLine(e.upd) /\ FromLine(e.bak) /\ e.bin = WinnerOf(e.upd.part).file

\* Two entries share a partition only if that is the _b of one and has a _BACKUP of
\* its own; and a listed partition with a partner is in some entry.
PartsOf(e) == {e.upd.part, e.bak.part}
Partnered(n) == \/ Last(n) = "_a" /\ SecondSlot(n) \in Listed
                \/ Last(n) # "_BACKUP" /\ BackupOf(n) \in Listed
TwiceBacked(n) == Last(n) = "_b" /\ BackupOf(n) \in Listed
PairedOnce ==
  pc = "ok" =>
    /\ \A n \in Listed : Partnered(n) => \E k \in DOMAIN xml.entries : n \in PartsOf(xml.entries[k])
    /\ \A j, k \in DOMAIN xml.entries : j # k =>
         \A n \in PartsOf(xml.entries[j]) \cap PartsOf(xml.entries[k]) : TwiceBacked(n)

\* fv-create accepts the document: a partition file with well-formed type GUIDs and
\* names that are not reserved, at least one pair in it, and a storage type of the
\* -S option (a SPINOR file given with -F yields a <FlashType> it does not know).
Updated == Picked(xml.entries, {k \in DOMAIN xml.entries : xml.entries[k].op = "UPDATE"})
GeneratedAccepted ==
  /\ pc = "ok" /\ flash \in FlashType /\ pairs # <<>>
  /\ \A n \in DOMAIN info : info[n].guid # Unknown /\ n \notin RefusedPart
  => /\ XmlAccepted(xml)
     /\ \A k \in DOMAIN xml.entries : EntryAccepted(xml.entries[k])
     /\ ListAccepted([k \in DOMAIN Updated |-> MetaOf(Updated[k], [id |-> k, order |-> "be"])], flash)

=============================================================================
