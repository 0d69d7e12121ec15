--------------------------- MODULE FvCreateProofs ---------------------------
(***************************************************************************)
(* Proofs about FvCreate for every set of invocations, binaries, names and *)
(* directories and any number of runs.                                     *)
(***************************************************************************)
EXTENDS FvCreate, PlacesProofs, SequenceTheorems, TLAPS

-----------------------------------------------------------------------------
(* Lemmas on the operators.                                                 *)

\* The parser keeps or clears the glymur tags of an entry: it stays an entry.
LEMMA ParsedEntryType ==
  ASSUME NEW e \in RawEntry, NEW g \in BOOLEAN
  PROVE  ParsedEntry(e, g) \in RawEntry
BY EmptySeq DEF ParsedEntry, RawEntry

\* An accepted entry has a metadata entry with every field in its range: the
\* checks leave no Unknown text and no absent disk behind.
LEMMA MetaOfType ==
  ASSUME NEW e \in RawEntry, NEW guid \in Guid, EntryAccepted(e)
  PROVE  MetaOf(e, guid) \in MetaEntry
<1>1. OperationOf(e) \in OperationType
  BY DEF EntryAccepted, TypesAccepted, OperationOf, OperationType, RawEntry
<1>2. UpdateTypeOf(e) \in UpdateType
  BY DEF EntryAccepted, TypesAccepted, UpdateTypeOf, UpdateType, RawEntry
<1>3. BinaryTypeOf(e) \in BinaryType
  BY DEF EntryAccepted, GlymurTagsAccepted, BinaryTypeOf, BinaryType, RawEntry
<1>4. Len(e.images) \in Nat
  BY LenProperties DEF RawEntry
<1>5. ASSUME NEW path \in RawPath, PathAccepted(e, path)
      PROVE  MetaPathOf(path) \in MetaPath
  BY <1>5 DEF PathAccepted, MetaPathOf, MetaPath, RawPath, DiskType, EmmcDisk, UfsDisk
<1>6. MetaPathOf(e.upd) \in MetaPath /\ MetaPathOf(e.bak) \in MetaPath
  BY <1>5 DEF EntryAccepted, RawEntry
<1>7. e.match \in MatchId \cup {None}
  BY DEF EntryAccepted, GlymurTagsAccepted, RawEntry
<1> QED
  BY <1>1, <1>2, <1>3, <1>4, <1>6, <1>7 DEF MetaOf, MetaEntry

\* The two conversions of a file GUID give a file GUID.
LEMMA GuidConversions ==
  ASSUME NEW guid \in Guid
  PROVE  CSharpFormat(guid) \in Guid /\ FfsGuid(guid) \in Guid
BY DEF CSharpFormat, FfsGuid, Guid

\* The directory an entry is found in is a directory.
LEMMA DirPathType ==
  ASSUME NEW e \in RawEntry, job \in Job, FirstHit(e) # {}
  PROVE  DirPath(e) \in Dir
<1>1. e.inPath \in Dir /\ job.paths \in Seq(Dir)
  BY DEF RawEntry, Job
<1>2. SearchDirs(e) \in Seq(Dir)
  BY <1>1 DEF SearchDirs
<1>3. (CHOOSE k \in FirstHit(e) : TRUE) \in 1..Len(SearchDirs(e))
  BY DEF FirstHit
<1> QED
  BY <1>2, <1>3, ElementOfSeq DEF DirPath

\* The name an entry's FFS file gets is an FFS name.
LEMMA FfsNameForType ==
  ASSUME NEW e \in RawEntry, CanWrap(e)
  PROVE  FfsNameFor(e) \in FfsName
<1>1. e.bin \in Binary
  BY DEF CanWrap, RawEntry
<1>2. StemOf[e.bin] \in FfsName
  BY <1>1, FfsConstants
<1>3. Used(StemOf[e.bin]) => e.upd.part \in Part
  BY DEF CanWrap, RawEntry, RawPath
<1>4. Used(StemOf[e.bin]) => Renamed[StemOf[e.bin]][e.upd.part] \in FfsName
  BY <1>2, <1>3, FfsConstants
<1> QED
  BY <1>2, <1>4 DEF FfsNameFor

\* A function on the positions of a sequence is a sequence of the same length.
LEMMA MapType ==
  ASSUME NEW S, NEW T, NEW s \in Seq(S), NEW f \in [DOMAIN s -> T]
  PROVE  f \in Seq(T) /\ Len(f) = Len(s)
<1>1. DOMAIN s = 1..Len(s) /\ Len(s) \in Nat
  BY LenProperties
<1> QED
  BY <1>1

\* The item the FFS loop is at is an element of the raw list.
LEMMA ItemType ==
  ASSUME TypeOK, left > 0, left <= Len(raw)
  PROVE  /\ Len(raw) - left + 1 \in 1..Len(raw)
         /\ Item \in RawItem
         /\ Item.entry \in RawEntry
<1>1. raw \in Seq(RawItem) /\ left \in Nat /\ Len(raw) \in Nat
  BY LenProperties DEF TypeOK
<1>2. Len(raw) - left + 1 \in 1..Len(raw)
  BY <1>1
<1>3. Item \in RawItem
  BY <1>1, <1>2, ElementOfSeq DEF Item
<1> QED
  BY <1>2, <1>3 DEF RawItem

-----------------------------------------------------------------------------
(* Type correctness.                                                        *)

LEMMA TypeInit == Init => TypeOK
BY FfsConstants, EmptySeq DEF Init, TypeOK, Pc

\* A file the current step writes, whole or torn, keeps the types of the files.
LEMMA WriteCutShortType ==
  ASSUME TypeOK, Control, WriteCutShort
  PROVE  /\ metaDat' \in MetaFile \cup {None, Torn}
         /\ ffsFile' \in [FfsName -> FfsImage \cup {None, Torn}]
         /\ fvFile' \in FvImage \cup {None, Torn}
<1>1. CASE UNCHANGED files
  BY <1>1 DEF files, TypeOK
<1>2. CASE pc = "metadata" /\ metaDat' \in {None, Torn} /\ UNCHANGED <<ffsFile, fvFile>>
  BY <1>2 DEF TypeOK
<1>3. ASSUME NEW name \in FfsName, ffsFile' = [ffsFile EXCEPT ![name] = Torn],
             UNCHANGED <<metaDat, fvFile>>
      PROVE  /\ metaDat' \in MetaFile \cup {None, Torn}
             /\ ffsFile' \in [FfsName -> FfsImage \cup {None, Torn}]
             /\ fvFile' \in FvImage \cup {None, Torn}
  BY <1>3 DEF TypeOK
<1>4. CASE /\ pc = "ffs" /\ left > 0 /\ CanWrap(Item.entry)
           /\ ffsFile' = [ffsFile EXCEPT ![FfsNameFor(Item.entry)] = Torn]
           /\ UNCHANGED <<metaDat, fvFile>>
  <2>1. FfsNameFor(Item.entry) \in FfsName
    BY <1>4, ItemType, FfsNameForType DEF Control
  <2> QED
    BY <1>3, <1>4, <2>1
<1>5. CASE pc = "fv" /\ fvFile' = Torn /\ UNCHANGED <<metaDat, ffsFile>>
  BY <1>5 DEF TypeOK
<1> QED
  BY <1>1, <1>2, <1>3, <1>4, <1>5, FfsConstants DEF WriteCutShort

\* The metadata written, and the payload list whose GUIDs were swapped in place.
LEMMA MetadataType ==
  ASSUME TypeOK, Control, WriteMetadata, ~(job.version.fw < job.version.lowest)
  PROVE  metaDat' \in MetaFile /\ qpayload' \in Seq(MetaEntry)
<1>1. SwappedPayload \in Seq(MetaEntry)
  <2> SUFFICES ASSUME NEW k \in DOMAIN qpayload
               PROVE  [qpayload[k] EXCEPT !.guid = CSharpFormat(@)] \in MetaEntry
    BY MapType DEF TypeOK, SwappedPayload
  <2>1. qpayload[k] \in MetaEntry
    BY DEF TypeOK
  <2>2. CSharpFormat(qpayload[k].guid) \in Guid
    BY <2>1, GuidConversions DEF MetaEntry
  <2> QED
    BY <2>1, <2>2 DEF MetaEntry
<1>2. runs \in Nat /\ job.version.fw \in Nat /\ job.version.lowest \in Nat
  BY JobsAssumption, FfsConstants
     DEF TypeOK, WriteMetadata, Control, VersionAccepted, Job, VersionFile
<1>3. qpayload' = SwappedPayload
  BY DEF WriteMetadata
<1>4. \E rev \in {"V3", "V5"} :
        metaDat' = [run |-> runs, fw |-> job.version.fw, lowest |-> job.version.lowest,
                    revision |-> rev, entries |-> SwappedPayload]
  BY DEF WriteMetadata, NewMetadata
<1> QED
  BY <1>1, <1>2, <1>3, <1>4 DEF MetaFile

\* The FFS file of the item the loop is at.
LEMMA WrappedImage ==
  ASSUME TypeOK, Control, WriteFfs, CanWrap(Item.entry)
  PROVE  [run |-> runs, guid |-> FfsGuid(Item.guid),
          payload |-> [dir |-> DirPath(Item.entry), bin |-> Item.entry.bin]] \in FfsImage
<1>1. Item.entry \in RawEntry /\ Item.guid \in Guid
  BY ItemType DEF WriteFfs, Control, Item
<1>2. DirPath(Item.entry) \in Dir
  BY <1>1, DirPathType, JobsAssumption DEF CanWrap, WriteFfs, Control
<1>3. Item.entry.bin \in Binary
  BY <1>1 DEF CanWrap, RawEntry
<1>4. FfsGuid(Item.guid) \in Guid /\ runs \in Nat
  BY <1>1, GuidConversions, FfsConstants DEF TypeOK
<1> QED
  BY <1>2, <1>3, <1>4 DEF FfsImage, Payload

\* A write that is cut short tears at most one FFS file.
LEMMA WriteCutShortFfs ==
  ASSUME TypeOK, Control, WriteCutShort
  PROVE  ffsFile' = ffsFile \/ \E name \in FfsName : ffsFile' = [ffsFile EXCEPT ![name] = Torn]
<1>1. CASE /\ pc = "ffs" /\ left > 0 /\ CanWrap(Item.entry)
           /\ ffsFile' = [ffsFile EXCEPT ![FfsNameFor(Item.entry)] = Torn]
  <2>1. FfsNameFor(Item.entry) \in FfsName
    BY <1>1, ItemType, FfsNameForType DEF Control
  <2> QED
    BY <1>1, <2>1
<1> QED
  BY <1>1, FfsConstants DEF WriteCutShort, files

LEMMA TypeStep == TypeOK /\ Control /\ Owned /\ [Next]_vars => TypeOK'
<1> SUFFICES ASSUME TypeOK, Control, Owned, [Next]_vars
             PROVE  TypeOK'
  OBVIOUS
<1> USE DEF TypeOK, Pc
<1>1. CASE Start
  BY <1>1, EmptySeq, FfsConstants DEF Start, files
<1>2. CASE CheckVersion
  BY <1>2 DEF CheckVersion, StepFails, files
<1>3. CASE ParseXml
  <2>1. job \in Job
    BY <1>3, JobsAssumption DEF ParseXml, Control
  <2>2. job.doc.entries \in Seq(RawEntry) /\ job.glymur \in BOOLEAN
    BY <2>1 DEF Job, XmlDoc
  <2>3. [k \in DOMAIN job.doc.entries |->
           [entry |-> ParsedEntry(job.doc.entries[k], job.glymur), guid |-> None]] \in Seq(RawItem)
    <3>1. \A k \in DOMAIN job.doc.entries : ParsedEntry(job.doc.entries[k], job.glymur) \in RawEntry
      BY <2>2, ParsedEntryType
    <3>2. [k \in DOMAIN job.doc.entries |->
             [entry |-> ParsedEntry(job.doc.entries[k], job.glymur), guid |-> None]]
            \in [DOMAIN job.doc.entries -> RawItem]
      BY <3>1 DEF RawItem
    <3> QED
      BY <2>2, <3>2, MapType
  <2>4. CASE XmlAccepted(job.doc)
    <3>1. raw' \in Seq(RawItem) /\ left' \in Nat /\ pc' = "validate" /\ ok' = ok
      BY <1>3, <2>2, <2>3, <2>4, LenProperties DEF ParseXml
    <3> QED
      BY <1>3, <3>1 DEF ParseXml, files
  <2>5. CASE ~XmlAccepted(job.doc)
    BY <1>3, <2>5 DEF ParseXml, StepFails, files
  <2> QED
    BY <2>4, <2>5
<1>4. CASE ValidateEntry
  <2> DEFINE e == Head(raw).entry
  <2>1. Head(raw) \in RawItem /\ e \in RawEntry /\ Tail(raw) \in Seq(RawItem)
    <3>1. raw \in Seq(RawItem) /\ raw # <<>>
      BY <1>4 DEF ValidateEntry, Control
    <3>2. Head(raw) \in RawItem /\ Tail(raw) \in Seq(RawItem)
      BY <3>1, HeadTailProperties
    <3> QED
      BY <3>2 DEF RawItem
  <2>2. FreshGuid \in Guid
    BY DEF FreshGuid, Guid
  <2>3. CASE EntryAccepted(e)
    <3>1. MetaOf(e, FreshGuid) \in MetaEntry
      BY <2>1, <2>2, <2>3, MetaOfType
    <3>2. [entry |-> e, guid |-> FreshGuid] \in RawItem
      BY <2>1, <2>2 DEF RawItem
    <3>3. raw' \in Seq(RawItem) /\ qpayload' \in Seq(MetaEntry)
      <4>1. raw' = Append(Tail(raw), [entry |-> e, guid |-> FreshGuid])
        BY <1>4, <2>3 DEF ValidateEntry
      <4>2. qpayload' = qpayload \/ qpayload' = Append(qpayload, MetaOf(e, FreshGuid))
        BY <1>4, <2>3 DEF ValidateEntry
      <4> HIDE DEF e
      <4>3. raw' \in Seq(RawItem)
        BY <2>1, <3>2, <4>1, AppendProperties
      <4>4. qpayload \in Seq(MetaEntry)
        OBVIOUS
      <4>5. ASSUME NEW m \in MetaEntry PROVE Append(qpayload, m) \in Seq(MetaEntry)
        BY <4>4, AppendProperties
      <4>6. qpayload' \in Seq(MetaEntry)
        BY <3>1, <4>2, <4>4, <4>5, Zenon
      <4> QED
        BY <4>3, <4>6
    <3> QED
      BY <1>4, <2>3, <3>3 DEF ValidateEntry, files
  <2>4. CASE ~EntryAccepted(e)
    BY <1>4, <2>1, <2>4 DEF ValidateEntry, StepFails, files
  <2> QED
    BY <2>3, <2>4
<1>5. CASE CheckList
  BY <1>5 DEF CheckList, StepFails, files
<1>6. CASE WriteMetadata
  <2>1. CASE job.version.fw < job.version.lowest
    BY <1>6, <2>1 DEF WriteMetadata, StepFails
  <2>2. CASE ~(job.version.fw < job.version.lowest)
    <3>1. left' = Len(raw) /\ pc' = "ffs" /\ ok' = ok
      BY <1>6, <2>2 DEF WriteMetadata
    <3> QED
      BY <1>6, <2>2, <3>1, MetadataType, LenProperties DEF WriteMetadata
  <2> QED
    BY <2>1, <2>2
<1>7. CASE SkipIgnored
  BY <1>7 DEF SkipIgnored, files
<1>8. CASE WriteFfs
  <2>1. Item \in RawItem /\ Item.entry \in RawEntry /\ Item.guid \in Guid
    BY <1>8, ItemType DEF WriteFfs, Control, Item
  <2>2. CASE CanWrap(Item.entry)
    <3> DEFINE name == FfsNameFor(Item.entry)
               image == [run |-> runs, guid |-> FfsGuid(Item.guid),
                         payload |-> [dir |-> DirPath(Item.entry), bin |-> Item.entry.bin]]
    <3>1. name \in FfsName
      BY <2>1, <2>2, FfsNameForType
    <3>4. image \in FfsImage
      BY <1>8, <2>2, WrappedImage
    <3>5. ffsFile' = [ffsFile EXCEPT ![name] = image] /\ lsFfs' = Append(lsFfs, name)
      BY <1>8, <2>2 DEF WriteFfs
    <3> HIDE DEF name, image
    <3>6. ffsFile' \in [FfsName -> FfsImage \cup {None, Torn}] /\ lsFfs' \in Seq(FfsName)
      BY <3>1, <3>4, <3>5, AppendProperties
    <3> QED
      BY <1>8, <2>2, <3>6 DEF WriteFfs
  <2>3. CASE ~CanWrap(Item.entry)
    BY <1>8, <2>3 DEF WriteFfs, StepFails
  <2> QED
    BY <2>2, <2>3
<1>9. CASE WriteMetadataFfs
  <2>1. metaDat \in MetaFile
    BY <1>9 DEF WriteMetadataFfs, Control
  <2>2. [run |-> runs, guid |-> MetadataGuid, payload |-> metaDat] \in FfsImage
    BY <2>1 DEF FfsImage, Payload
  <2>3. ffsFile' \in [FfsName -> FfsImage \cup {None, Torn}] /\ lsFfs' \in Seq(FfsName)
    BY <1>9, <2>2, FfsConstants, AppendProperties DEF WriteMetadataFfs
  <2> QED
    BY <1>9, <2>3 DEF WriteMetadataFfs
<1>10. CASE WriteEcFfs
  <2>1. [run |-> runs, guid |-> EcGuid, payload |-> EcFirmware] \in FfsImage
    BY DEF FfsImage, Payload
  <2> QED
    BY <1>10, <2>1, FfsConstants DEF WriteEcFfs
<1>11. CASE GenerateFv
  <2>1. \A k \in 1..Len(lsFfs) : ffsFile[lsFfs[k]] \in FfsImage \cup {Torn}
    BY <1>11 DEF GenerateFv, Owned, OfThisRun
  <2>2. [k \in DOMAIN lsFfs |-> ffsFile[lsFfs[k]]] \in Seq(FfsImage \cup {Torn})
    BY <2>1, MapType, LenProperties
  <2> QED
    BY <1>11, <2>2, AppendProperties DEF GenerateFv, Intermediates, FvImage
<1>12. CASE RemoveFile
  <2>1. Head(toRemove) \in FfsName \cup {"Metadata.dat"} /\ toRemove' \in Seq(FfsName \cup {"Metadata.dat"})
    BY <1>12 DEF RemoveFile
  <2>2. metaDat' \in MetaFile \cup {None, Torn} /\ ffsFile' \in [FfsName -> FfsImage \cup {None, Torn}]
    BY <1>12, <2>1 DEF RemoveFile
  <2> QED
    BY <1>12, <2>1, <2>2 DEF RemoveFile
<1>13. CASE Exit
  BY <1>13 DEF Exit, memory, files
<1>18. CASE RemovalFails
  BY <1>18 DEF RemovalFails, files
<1>14. CASE StepRaises
  BY <1>14, WriteCutShortType DEF StepRaises, StepFails
<1>15. CASE GenerateFvFails
  BY <1>15, WriteCutShortType DEF GenerateFvFails, memory
<1>16. CASE Crash
  BY <1>16, WriteCutShortType DEF Crash, memory
<1>17. CASE UNCHANGED vars
  BY <1>17 DEF vars, memory, files
<1> QED
  BY <1>1, <1>2, <1>3, <1>4, <1>5, <1>6, <1>7, <1>8, <1>9, <1>10, <1>11, <1>12, <1>13,
     <1>14, <1>15, <1>16, <1>17, <1>18 DEF Next, Progress

-----------------------------------------------------------------------------
(* What each step finds.                                                    *)

LEMMA ControlStep == TypeOK /\ Control /\ [Next]_vars => Control'
<1> SUFFICES ASSUME TypeOK, Control, [Next]_vars
             PROVE  Control'
  OBVIOUS
<1> USE DEF Control
<1>1. CASE Start
  BY <1>1 DEF Start
<1>2. CASE CheckVersion
  BY <1>2 DEF CheckVersion, StepFails
<1>3. CASE ParseXml
  <2>1. CASE XmlAccepted(job.doc)
    <3>1. job.doc.entries \in Seq(RawEntry)
      BY <1>3, JobsAssumption DEF ParseXml, Job, XmlDoc
    <3>2. /\ raw' = [k \in DOMAIN job.doc.entries |->
                       [entry |-> ParsedEntry(job.doc.entries[k], job.glymur), guid |-> None]]
          /\ left' = Len(job.doc.entries)
      BY <1>3, <2>1 DEF ParseXml
    <3>3. Len(raw') = left'
      BY <3>1, <3>2, LenProperties
    <3>4. left' \in Nat
      BY <3>1, <3>2, LenProperties
    <3> QED
      BY <1>3, <2>1, <3>3, <3>4 DEF ParseXml
  <2>2. CASE ~XmlAccepted(job.doc)
    BY <1>3, <2>2 DEF ParseXml, StepFails
  <2> QED
    BY <2>1, <2>2
<1>4. CASE ValidateEntry
  <2> DEFINE e == Head(raw).entry
             item == [entry |-> e, guid |-> FreshGuid]
  <2>1. CASE EntryAccepted(e)
    <3>1. /\ raw \in Seq(RawItem) /\ raw # <<>> /\ left \in Nat /\ left > 0
          /\ Len(raw) \in Nat /\ left <= Len(raw)
      BY <1>4, LenProperties DEF ValidateEntry, TypeOK
    <3>2. raw' = Append(Tail(raw), item) /\ left' = left - 1 /\ pc' = pc
      BY <1>4, <2>1 DEF ValidateEntry
    <3>3. item.guid \in Guid
      BY DEF FreshGuid, Guid, TypeOK
    <3> HIDE DEF item
    <3>4. /\ Len(raw') = Len(raw)
          /\ \A k \in 1..Len(raw) - 1 : raw'[k] = raw[k + 1]
          /\ raw'[Len(raw)] = item
      BY <3>1, <3>2
    <3>5. \A k \in 1..Len(raw') : k > left' => raw'[k].guid \in Guid
      <4> SUFFICES ASSUME NEW k \in 1..Len(raw'), k > left'
                   PROVE  raw'[k].guid \in Guid
        OBVIOUS
      <4>1. CASE k = Len(raw)
        BY <3>3, <3>4, <4>1
      <4>2. CASE k # Len(raw)
        <5>1. k \in 1..Len(raw) - 1
          BY <3>1, <3>4, <4>2
        <5>2. raw'[k] = raw[k + 1]
          BY <3>4, <5>1
        <5>3. k + 1 \in 1..Len(raw) /\ k + 1 > left
          BY <3>1, <3>2, <5>1
        <5> QED
          BY <1>4, <5>2, <5>3 DEF ValidateEntry
      <4> QED
        BY <4>1, <4>2
    <3>6. pc = "validate" /\ pc' = "validate" /\ job' = job /\ report' = report
      BY <1>4, <3>2 DEF ValidateEntry
    <3>7. left' <= Len(raw')
      BY <3>1, <3>2, <3>4
    <3> QED
      BY <3>5, <3>6, <3>7
  <2>2. CASE ~EntryAccepted(e)
    BY <1>4, <2>2 DEF ValidateEntry, StepFails
  <2> QED
    BY <2>1, <2>2
<1>5. CASE CheckList
  <2>1. /\ pc = "validate" /\ left = 0 /\ pc' \in {"metadata", "fv"}
        /\ raw' = raw /\ left' = left /\ job' = job /\ report' = report
    BY <1>5 DEF CheckList, StepFails
  <2>2. \A k \in 1..Len(raw) : k > left
    BY <2>1
  <2> QED
    BY <2>1, <2>2
<1>6. CASE WriteMetadata
  <2>1. CASE job.version.fw < job.version.lowest
    BY <1>6, <2>1 DEF WriteMetadata, StepFails
  <2>2. CASE ~(job.version.fw < job.version.lowest)
    <3>1. metaDat'.run = runs /\ metaDat'.fw = job.version.fw
      BY <1>6, <2>2 DEF WriteMetadata, NewMetadata
    <3>2. metaDat' \in MetaFile
      BY <1>6, <2>2, MetadataType
    <3>3. left' = Len(raw) /\ Len(raw) \in Nat
      BY <1>6, <2>2, LenProperties DEF WriteMetadata, TypeOK
    <3>4. pc = "metadata" /\ pc' = "ffs" /\ raw' = raw /\ runs' = runs /\ job' = job /\ report' = report
      BY <1>6, <2>2 DEF WriteMetadata
    <3> QED
      BY <3>1, <3>2, <3>3, <3>4
  <2> QED
    BY <2>1, <2>2
<1>7. CASE SkipIgnored
  BY <1>7, LenProperties DEF SkipIgnored, TypeOK, files
<1>8. CASE WriteFfs
  BY <1>8, LenProperties DEF WriteFfs, StepFails, TypeOK
<1>9. CASE WriteMetadataFfs
  BY <1>9 DEF WriteMetadataFfs
<1>10. CASE WriteEcFfs
  BY <1>10 DEF WriteEcFfs
<1>11. CASE GenerateFv
  BY <1>11 DEF GenerateFv
<1>12. CASE RemoveFile
  BY <1>12 DEF RemoveFile
<1>13. CASE Exit
  BY <1>13 DEF Exit
<1>18. CASE RemovalFails
  BY <1>18 DEF RemovalFails
<1>14. CASE StepRaises
  BY <1>14 DEF StepRaises, StepFails
<1>15. CASE GenerateFvFails
  BY <1>15 DEF GenerateFvFails
<1>16. CASE Crash
  BY <1>16 DEF Crash
<1>17. CASE UNCHANGED vars
  BY <1>17 DEF vars, memory, files
<1> QED
  BY <1>1, <1>2, <1>3, <1>4, <1>5, <1>6, <1>7, <1>8, <1>9, <1>10, <1>11, <1>12, <1>13,
     <1>14, <1>15, <1>16, <1>17, <1>18 DEF Next, Progress

-----------------------------------------------------------------------------
(* Files belong to the run that is in progress.                             *)

\* A step that replaces one FFS file by a torn one or by one of this run, and
\* puts at most that name into ls_ffs, keeps every listed file of this run.
LEMMA ListedStaysOwned ==
  ASSUME TypeOK, NEW name \in FfsName, NEW image, OfThisRun(image),
         \A k \in 1..Len(lsFfs) : OfThisRun(ffsFile[lsFfs[k]]),
         ffsFile' = [ffsFile EXCEPT ![name] = image],
         lsFfs' \in {lsFfs, Append(lsFfs, name), <<name>>}, runs' = runs, job' = job
  PROVE  \A k \in 1..Len(lsFfs') : OfThisRun(ffsFile[lsFfs[k]])'
<1> SUFFICES ASSUME NEW k \in 1..Len(lsFfs')
             PROVE  OfThisRun(ffsFile[lsFfs[k]])'
  OBVIOUS
<1>1. ffsFile \in [FfsName -> FfsImage \cup {None, Torn}] /\ lsFfs \in Seq(FfsName)
  BY DEF TypeOK
<1>2. lsFfs'[k] = name \/ (k \in 1..Len(lsFfs) /\ lsFfs'[k] = lsFfs[k])
  BY <1>1
<1>3. CASE lsFfs'[k] = name
  BY <1>1, <1>3 DEF OfThisRun
<1>4. CASE lsFfs'[k] # name
  <2>1. ffsFile'[lsFfs'[k]] = ffsFile[lsFfs[k]]
    BY <1>1, <1>2, <1>4
  <2>2. OfThisRun(ffsFile[lsFfs[k]])
    BY <1>2, <1>4
  <2> QED
    BY <2>1, <2>2 DEF OfThisRun
<1> QED
  BY <1>3, <1>4

\* A step that leaves the listed files and their list alone keeps them owned.
LEMMA UntouchedStaysOwned ==
  ASSUME \A k \in 1..Len(lsFfs) : OfThisRun(ffsFile[lsFfs[k]]),
         ffsFile' = ffsFile, lsFfs' = lsFfs, runs' = runs, job' = job
  PROVE  \A k \in 1..Len(lsFfs') : OfThisRun(ffsFile[lsFfs[k]])'
BY DEF OfThisRun

LEMMA OwnedStep == IInv /\ [Next]_vars => (Owned /\ NothingStalePacked)'
<1> SUFFICES ASSUME IInv, [Next]_vars
             PROVE  (Owned /\ NothingStalePacked)'
  OBVIOUS
<1> USE DEF IInv
<1>1. CASE Start
  BY <1>1 DEF Start, Owned, NothingStalePacked, Published
<1>a. ASSUME pc \notin {"idle", "cleanup"}, pc' \notin {"idle", "cleanup"},
             ffsFile' = ffsFile, lsFfs' = lsFfs, runs' = runs, job' = job, report' = report
      PROVE  (Owned /\ NothingStalePacked)'
  <2>1. \A k \in 1..Len(lsFfs') : OfThisRun(ffsFile[lsFfs[k]])'
    BY <1>a, UntouchedStaysOwned DEF Owned
  <2>2. report' = "none"
    BY <1>a DEF Control
  <2> QED
    BY <1>a, <2>1, <2>2 DEF Owned, NothingStalePacked, Published
<1>2. CASE CheckVersion
  BY <1>2, <1>a DEF CheckVersion, StepFails, files
<1>3. CASE ParseXml
  BY <1>3, <1>a DEF ParseXml, StepFails, files
<1>4. CASE ValidateEntry
  BY <1>4, <1>a DEF ValidateEntry, StepFails, files
<1>5. CASE CheckList
  BY <1>5, <1>a DEF CheckList, StepFails, files
<1>6. CASE WriteMetadata
  BY <1>6, <1>a DEF WriteMetadata, StepFails
<1>7. CASE SkipIgnored
  BY <1>7, <1>a DEF SkipIgnored, files
<1>b. ASSUME NEW name \in FfsName, NEW image, OfThisRun(image),
             pc \notin {"idle", "cleanup"}, pc' \notin {"idle", "cleanup"},
             ffsFile' = [ffsFile EXCEPT ![name] = image],
             lsFfs' \in {lsFfs, Append(lsFfs, name), <<name>>},
             runs' = runs, job' = job, report' = report
      PROVE  (Owned /\ NothingStalePacked)'
  <2>1. \A k \in 1..Len(lsFfs) : OfThisRun(ffsFile[lsFfs[k]])
    BY <1>b DEF Owned
  <2>2. \A k \in 1..Len(lsFfs') : OfThisRun(ffsFile[lsFfs[k]])'
    BY <1>b, <2>1, ListedStaysOwned
  <2>3. report' = "none"
    BY <1>b DEF Control
  <2> QED
    BY <1>b, <2>2, <2>3 DEF Owned, NothingStalePacked, Published
<1>8. CASE WriteFfs
  <2>1. CASE CanWrap(Item.entry)
    <3> DEFINE name == FfsNameFor(Item.entry)
               image == [run |-> runs, guid |-> FfsGuid(Item.guid),
                         payload |-> [dir |-> DirPath(Item.entry), bin |-> Item.entry.bin]]
    <3>1. Item.entry \in RawEntry /\ Item.guid \in Guid
      BY <1>8, ItemType DEF WriteFfs, Control, Item
    <3>2. name \in FfsName
      BY <2>1, <3>1, FfsNameForType
    <3>3. image \in FfsImage
      BY <1>8, <2>1, WrappedImage
    <3>4. OfThisRun(image)
      BY <3>1, <3>3, GuidConversions, WellKnownGuids DEF OfThisRun
    <3>5. /\ ffsFile' = [ffsFile EXCEPT ![name] = image] /\ lsFfs' = Append(lsFfs, name)
          /\ pc = "ffs" /\ pc' = "ffs" /\ runs' = runs /\ job' = job /\ report' = report
      BY <1>8, <2>1 DEF WriteFfs
    <3> HIDE DEF name, image
    <3> QED
      BY <1>b, <3>2, <3>4, <3>5
  <2>2. CASE ~CanWrap(Item.entry)
    BY <1>8, <2>2, <1>a DEF WriteFfs, StepFails
  <2> QED
    BY <2>1, <2>2
<1>9. CASE WriteMetadataFfs
  <2> DEFINE image == [run |-> runs, guid |-> MetadataGuid, payload |-> metaDat]
  <2>1. /\ metaDat \in MetaFile /\ metaDat.run = runs /\ runs \in Nat
        /\ metaDat.fw = job.version.fw /\ job.version # None
    BY <1>9, FfsConstants DEF WriteMetadataFfs, Control, TypeOK, VersionAccepted
  <2>2. OfThisRun(image)
    BY <2>1 DEF OfThisRun, FfsImage, Payload
  <2> HIDE DEF image
  <2>3. /\ ffsFile' = [ffsFile EXCEPT ![MetadataFfs] = image]
        /\ lsFfs' = Append(lsFfs, MetadataFfs)
        /\ pc = "ffs" /\ pc' = "fv" /\ runs' = runs /\ job' = job /\ report' = report
    BY <1>9 DEF WriteMetadataFfs, image
  <2> QED
    BY <1>b, <2>2, <2>3, FfsConstants
<1>10. CASE WriteEcFfs
  <2> DEFINE image == [run |-> runs, guid |-> EcGuid, payload |-> EcFirmware]
  <2>1. OfThisRun(image)
    BY FfsConstants DEF OfThisRun, FfsImage, Payload, TypeOK
  <2> HIDE DEF image
  <2>2. /\ ffsFile' = [ffsFile EXCEPT ![EcFfs] = image] /\ lsFfs' = <<EcFfs>>
        /\ pc = "ec" /\ pc' = "fv" /\ runs' = runs /\ job' = job /\ report' = report
    BY <1>10 DEF WriteEcFfs, image
  <2> QED
    BY <1>b, <2>1, <2>2, FfsConstants
<1>11. CASE GenerateFv
  <2>1. \A k \in 1..Len(lsFfs) : OfThisRun(ffsFile[lsFfs[k]])
    BY <1>11 DEF GenerateFv, Owned
  <2>2. lsFfs \in Seq(FfsName) /\ Len(lsFfs) \in Nat /\ DOMAIN lsFfs = 1..Len(lsFfs)
    BY LenProperties DEF TypeOK
  <2>3. NothingStalePacked'
    BY <1>11, <2>1, <2>2 DEF GenerateFv, NothingStalePacked, Published, OfThisRun
  <2>4. Owned'
    <3>1. toRemove' = Append(lsFfs, "Metadata.dat") /\ pc' = "cleanup"
          /\ ffsFile' = ffsFile /\ runs' = runs /\ job' = job
      BY <1>11 DEF GenerateFv, Intermediates
    <3>2. ASSUME NEW k \in 1..Len(toRemove'), toRemove'[k] \in FfsName
          PROVE  OfThisRun(ffsFile[toRemove[k]])'
      <4>1. k \in 1..Len(lsFfs) /\ toRemove'[k] = lsFfs[k]
        BY <2>2, <3>1, <3>2, FfsConstants
      <4> QED
        BY <2>1, <3>1, <4>1 DEF OfThisRun
    <3> QED
      BY <3>1, <3>2 DEF Owned
  <2> QED
    BY <2>3, <2>4
<1>12. CASE RemoveFile
  <2>1. /\ pc = "cleanup" /\ pc' = "cleanup" /\ toRemove' = Tail(toRemove)
        /\ runs' = runs /\ job' = job /\ report' = report /\ fvFile' = fvFile
    BY <1>12 DEF RemoveFile
  <2>2. toRemove \in Seq(FfsName \cup {"Metadata.dat"}) /\ toRemove # <<>>
    BY <1>12 DEF RemoveFile, TypeOK
  <2>3. \A f \in FfsName : ffsFile'[f] \in {None, ffsFile[f]}
    BY <1>12 DEF RemoveFile, TypeOK
  <2>4. ASSUME NEW k \in 1..Len(toRemove'), toRemove'[k] \in FfsName
        PROVE  ffsFile'[toRemove'[k]] = None \/ OfThisRun(ffsFile[toRemove[k]])'
    <3>1. k + 1 \in 1..Len(toRemove) /\ toRemove'[k] = toRemove[k + 1]
      BY <2>1, <2>2
    <3>2. ffsFile[toRemove[k + 1]] = None \/ OfThisRun(ffsFile[toRemove[k + 1]])
      BY <2>1, <2>4, <3>1 DEF Owned
    <3> QED
      BY <2>1, <2>3, <2>4, <3>1, <3>2 DEF OfThisRun
  <2>5. Owned'
    BY <2>1, <2>4 DEF Owned
  <2>6. NothingStalePacked'
    BY <2>1 DEF NothingStalePacked, Published
  <2> QED
    BY <2>5, <2>6
<1>18. CASE RemovalFails
  <2>1. /\ pc = "cleanup" /\ pc' = "cleanup" /\ toRemove' = Tail(toRemove)
        /\ toRemove \in Seq(FfsName \cup {"Metadata.dat"}) /\ toRemove # <<>>
        /\ UNCHANGED <<runs, job, report, files>>
    BY <1>18 DEF RemovalFails, TypeOK
  <2>2. ASSUME NEW k \in 1..Len(toRemove'), toRemove'[k] \in FfsName
        PROVE  ffsFile'[toRemove'[k]] = None \/ OfThisRun(ffsFile[toRemove[k]])'
    <3>1. k + 1 \in 1..Len(toRemove) /\ toRemove'[k] = toRemove[k + 1]
      BY <2>1
    <3>2. ffsFile[toRemove[k + 1]] = None \/ OfThisRun(ffsFile[toRemove[k + 1]])
      BY <2>1, <2>2, <3>1 DEF Owned
    <3> QED
      BY <2>1, <3>1, <3>2 DEF files, OfThisRun
  <2> QED
    BY <2>1, <2>2 DEF files, Owned, NothingStalePacked, Published
<1>13. CASE Exit
  BY <1>13 DEF Exit, files, memory, Owned, NothingStalePacked, Published
<1>14. CASE StepRaises
  <2>1. /\ pc \notin {"idle", "cleanup"} /\ pc' \notin {"idle", "cleanup"}
        /\ lsFfs' = lsFfs /\ runs' = runs /\ job' = job /\ report' = report
    BY <1>14 DEF StepRaises, StepFails
  <2>2. ffsFile' = ffsFile \/ \E name \in FfsName : ffsFile' = [ffsFile EXCEPT ![name] = Torn]
    BY <1>14, WriteCutShortFfs DEF StepRaises
  <2>3. OfThisRun(Torn)
    BY DEF OfThisRun
  <2> QED
    BY <1>a, <1>b, <2>1, <2>2, <2>3
<1>15. CASE GenerateFvFails
  BY <1>15 DEF GenerateFvFails, Owned, NothingStalePacked, Published
<1>16. CASE Crash
  <2>1. pc' = "idle" /\ report' = report /\ runs' = runs /\ (pc = "cleanup" => fvFile' = fvFile)
    BY <1>16 DEF Crash, WriteCutShort, files
  <2>2. pc # "idle" /\ (pc # "cleanup" => report = "none")
    BY <1>16 DEF Crash, Control
  <2> QED
    BY <2>1, <2>2 DEF Owned, NothingStalePacked, Published
<1>17. CASE UNCHANGED vars
  BY <1>17 DEF vars, memory, files, Owned, NothingStalePacked, Published, OfThisRun
<1> QED
  BY <1>1, <1>2, <1>3, <1>4, <1>5, <1>6, <1>7, <1>8, <1>9, <1>10, <1>11, <1>12, <1>13,
     <1>14, <1>15, <1>16, <1>17, <1>18 DEF Next, Progress

-----------------------------------------------------------------------------
(* The theorems.                                                            *)

\* In every run, killed or failing at any step over whatever earlier runs left,
\* the state keeps its types and the inductive invariant holds.
THEOREM Invariance == Spec => []IInv
<1>1. Init => IInv
  BY TypeInit DEF Init, IInv, Control, Owned, NothingStalePacked, Published
<1>2. IInv /\ [Next]_vars => IInv'
  BY TypeStep, ControlStep, OwnedStep DEF IInv
<1> QED
  BY <1>1, <1>2, PTL DEF Spec

\* Type correctness of fv-create.
THEOREM TypeCorrectness == Spec => []TypeOK
<1>1. IInv => TypeOK
  BY DEF IInv
<1> QED
  BY <1>1, Invariance, PTL

\* A volume reported as created holds only FFS files and metadata that its own
\* run wrote, however many runs died in the directory before (FVCreation.py,
\* generate_sys_fw_ffs_list and generate_fv).
THEOREM NoStaleImage == Spec => []NothingStalePacked
<1>1. IInv => NothingStalePacked
  BY DEF IInv
<1> QED
  BY <1>1, Invariance, PTL

\* No step removes a whole FFS file of another run (remove_files).
THEOREM OwnFfsCleanup == Spec => OnlyOwnFfsRemoved
<1>1. IInv /\ [Next]_vars =>
        [\A f \in FfsName :
           ffsFile[f] \notin {None, Torn} /\ ffsFile'[f] = None => ffsFile[f].run = runs]_vars
  <2> SUFFICES ASSUME IInv, Next, NEW f \in FfsName,
                      ffsFile[f] \notin {None, Torn}, ffsFile'[f] = None
               PROVE  ffsFile[f].run = runs
    OBVIOUS
  <2>1. RemoveFile
    <3> USE DEF IInv
    <3>1. CASE ffsFile' = ffsFile
      BY <3>1
    <3>2. CASE WriteCutShort
      <4>1. ffsFile' = ffsFile \/ \E name \in FfsName : ffsFile' = [ffsFile EXCEPT ![name] = Torn]
        BY <3>2, WriteCutShortFfs
      <4>2. ffsFile'[f] \in {ffsFile[f], Torn}
        BY <4>1 DEF TypeOK
      <4> QED
        BY <4>2, NotContents
    <3>3. ASSUME NEW name \in FfsName, NEW image \in FfsImage,
                 ffsFile' = [ffsFile EXCEPT ![name] = image]
          PROVE  FALSE
      BY <3>3, NotContents DEF TypeOK
    <3>4. CASE WriteFfs /\ CanWrap(Item.entry)
      <4>1. Item.entry \in RawEntry
        BY <3>4, ItemType DEF WriteFfs, Control
      <4> QED
        BY <3>3, <3>4, <4>1, WrappedImage, FfsNameForType DEF WriteFfs
    <3>5. CASE WriteMetadataFfs
      <4>1. [run |-> runs, guid |-> MetadataGuid, payload |-> metaDat] \in FfsImage
        BY <3>5, FfsConstants DEF WriteMetadataFfs, Control, TypeOK, FfsImage, Payload
      <4> QED
        BY <3>3, <3>5, <4>1, FfsConstants DEF WriteMetadataFfs
    <3>6. CASE WriteEcFfs
      <4>1. [run |-> runs, guid |-> EcGuid, payload |-> EcFirmware] \in FfsImage
        BY FfsConstants DEF TypeOK, FfsImage, Payload
      <4> QED
        BY <3>3, <3>6, <4>1, FfsConstants DEF WriteEcFfs
    <3> QED
      BY <3>1, <3>2, <3>4, <3>5, <3>6
         DEF Next, Progress, Start, CheckVersion, ParseXml, ValidateEntry, CheckList, WriteMetadata,
             SkipIgnored, WriteFfs, GenerateFv, RemovalFails, Exit, StepRaises, GenerateFvFails,
             Crash, files
  <2>2. pc = "cleanup" /\ toRemove # <<>> /\ Head(toRemove) = f
    BY <2>1 DEF RemoveFile, IInv, TypeOK
  <2>3. 1 \in 1..Len(toRemove) /\ toRemove[1] = f
    BY <2>2 DEF IInv, TypeOK
  <2> QED
    BY <2>2, <2>3 DEF IInv, Owned, OfThisRun
<1> QED
  BY <1>1, Invariance, PTL DEF Spec, OnlyOwnFfsRemoved

-----------------------------------------------------------------------------
(* fv-create implements FvContract.                                         *)

\* The version words a volume assembled from the FFS files of ls_ffs carries.
LEMMA FwsOfThisRun ==
  ASSUME IInv, GenerateFv
  PROVE  FwsIn(fvFile') \in {{}, {RequestSeen} \ {None}}
<1>1. \A k \in 1..Len(lsFfs) : OfThisRun(ffsFile[lsFfs[k]])
  BY DEF GenerateFv, IInv, Owned
<1>2. DOMAIN lsFfs = 1..Len(lsFfs)
  BY LenProperties DEF IInv, TypeOK
<1>3. /\ DOMAIN fvFile'.images = 1..Len(lsFfs)
      /\ \A k \in 1..Len(lsFfs) : fvFile'.images[k] = ffsFile[lsFfs[k]]
  BY <1>2 DEF GenerateFv
<1>4. job # None
  BY JobsAssumption, NotContents DEF IInv, Control, GenerateFv
<1>5. ASSUME NEW k \in DOMAIN fvFile'.images, fvFile'.images[k] # Torn,
             fvFile'.images[k].guid = MetadataGuid
      PROVE  /\ job.version # None
             /\ fvFile'.images[k].payload.fw = job.version.fw
  BY <1>1, <1>3, <1>5 DEF OfThisRun
<1>6. job.version # None => job.version.fw # None
  BY <1>4, JobsAssumption, NotContents DEF IInv, TypeOK, Job, VersionFile
<1>7. \A w \in FwsIn(fvFile') : w \in {RequestSeen} \ {None}
  BY <1>4, <1>5, <1>6 DEF FwsIn, RequestSeen
<1> QED
  BY <1>7

\* A step that shows nothing outside: same phase, job, output and report.
LEMMA Unseen ==
  ASSUME PhaseSeen' = PhaseSeen, UNCHANGED <<job, runs, fvFile, report>>
  PROVE  UNCHANGED Contract!fvVars
BY DEF Contract!fvVars, RequestSeen, OutSeen

LEMMA StepRefines ==
  ASSUME IInv, IInv', Next
  PROVE  Contract!ContractNext \/ UNCHANGED Contract!fvVars
<1>1. CASE Start
  <2>1. /\ PhaseSeen = "idle" /\ PhaseSeen' = "working"
        /\ runs' = runs + 1 /\ report' = "none" /\ OutSeen' = OutSeen
    BY <1>1 DEF Start, PhaseSeen, OutSeen, files
  <2>2. RequestSeen' \in Nat \cup {None}
    BY JobsAssumption DEF IInv, TypeOK, RequestSeen, Job, VersionFile
  <2> QED
    BY <2>1, <2>2 DEF Contract!ContractNext, Contract!Begin
<1>2. CASE CheckVersion \/ ParseXml \/ ValidateEntry \/ CheckList \/ WriteMetadata
  <2>1. PhaseSeen = "working" /\ PhaseSeen' = "working"
    BY <1>2 DEF CheckVersion, ParseXml, ValidateEntry, CheckList, WriteMetadata, StepFails, PhaseSeen
  <2> QED
    BY <1>2, <2>1, Unseen
       DEF CheckVersion, ParseXml, ValidateEntry, CheckList, WriteMetadata, files
<1>3. CASE SkipIgnored \/ WriteFfs \/ WriteMetadataFfs \/ WriteEcFfs
  <2>1. PhaseSeen = "working" /\ PhaseSeen' = "working"
    BY <1>3 DEF SkipIgnored, WriteFfs, WriteMetadataFfs, WriteEcFfs, StepFails, PhaseSeen
  <2> QED
    BY <1>3, <2>1, Unseen DEF SkipIgnored, WriteFfs, WriteMetadataFfs, WriteEcFfs, files
<1>4. CASE GenerateFv
  <2>1. /\ PhaseSeen = "working" /\ PhaseSeen' = "written"
        /\ report' = "created" /\ runs' = runs /\ job' = job
    BY <1>4 DEF GenerateFv, PhaseSeen
  <2>2. RequestSeen' = RequestSeen
    BY <2>1 DEF RequestSeen
  <2>3. fvFile' \notin {None, Torn} /\ fvFile'.run = runs
    <3>1. fvFile'.run = runs
      BY <1>4 DEF GenerateFv
    <3>2. fvFile' \in FvImage
      <4>1. \A k \in 1..Len(lsFfs) : ffsFile[lsFfs[k]] \in FfsImage \cup {Torn}
        BY <1>4 DEF IInv, GenerateFv, Owned, OfThisRun
      <4>2. [k \in DOMAIN lsFfs |-> ffsFile[lsFfs[k]]] \in Seq(FfsImage \cup {Torn})
        BY <4>1, MapType, LenProperties DEF IInv, TypeOK
      <4> QED
        BY <1>4, <4>2, FfsConstants DEF GenerateFv, FvImage, IInv, TypeOK
    <3> QED
      BY <3>1, <3>2, NotContents
  <2>4. \E fws \in {{}, {RequestSeen} \ {None}} : OutSeen' = [run |-> runs, fws |-> fws]
    BY <1>4, <2>3, FwsOfThisRun DEF OutSeen
  <2> QED
    BY <2>1, <2>2, <2>4 DEF Contract!ContractNext, Contract!Publish
<1>5. CASE RemoveFile
  <2>1. PhaseSeen' = PhaseSeen
    BY <1>5 DEF RemoveFile, PhaseSeen
  <2> QED
    BY <1>5, <2>1, Unseen DEF RemoveFile
<1>10. CASE RemovalFails
  <2>1. PhaseSeen' = PhaseSeen
    BY <1>10 DEF RemovalFails, PhaseSeen
  <2> QED
    BY <1>10, <2>1, Unseen DEF RemovalFails, files
<1>6. CASE Exit
  <2>1. PhaseSeen = "written" /\ PhaseSeen' = "idle" /\ UNCHANGED <<job, runs, fvFile, report>>
    BY <1>6 DEF Exit, PhaseSeen, files
  <2>2. RequestSeen' = RequestSeen /\ OutSeen' = OutSeen
    BY <2>1 DEF RequestSeen, OutSeen
  <2> QED
    BY <2>1, <2>2 DEF Contract!ContractNext, Contract!Complete
<1>a. ASSUME WriteCutShort PROVE OutSeen' \in {OutSeen, Torn}
  BY <1>a DEF WriteCutShort, OutSeen, files
<1>7. CASE StepRaises
  <2>1. PhaseSeen = "working" /\ PhaseSeen' = "working"
    BY <1>7 DEF StepRaises, StepFails, PhaseSeen
  <2>2. fvFile' = fvFile
    BY <1>7 DEF StepRaises, WriteCutShort, files
  <2> QED
    BY <1>7, <2>1, <2>2, Unseen DEF StepRaises
<1>8. CASE GenerateFvFails
  <2>1. /\ PhaseSeen = "working" /\ PhaseSeen' = "idle"
        /\ report' = "failed" /\ runs' = runs /\ job' = job
    BY <1>8 DEF GenerateFvFails, PhaseSeen
  <2>2. RequestSeen' = RequestSeen
    BY <2>1 DEF RequestSeen
  <2> QED
    BY <1>a, <1>8, <2>1, <2>2
       DEF GenerateFvFails, Contract!ContractNext, Contract!Fail, Contract!Spoiled
<1>9. CASE Crash
  <2>1. PhaseSeen' = "idle" /\ runs' = runs /\ job' = job /\ report' = report
    BY <1>9 DEF Crash, PhaseSeen
  <2>2. RequestSeen' = RequestSeen
    BY <2>1 DEF RequestSeen
  <2>3. \/ PhaseSeen = "working"
        \/ PhaseSeen = "written" /\ OutSeen' = OutSeen
    BY <1>9 DEF Crash, WriteCutShort, PhaseSeen, OutSeen, files
  <2> QED
    BY <1>a, <1>9, <2>1, <2>2, <2>3
       DEF Crash, Contract!ContractNext, Contract!Die, Contract!Spoiled
<1> QED
  BY <1>1, <1>2, <1>3, <1>4, <1>5, <1>6, <1>7, <1>8, <1>9, <1>10 DEF Next, Progress

\* Every behaviour of fv-create, seen from outside, is one of the contract.
THEOREM Refinement == Spec => ImplementsContract
<1>1. Init => Contract!ContractInit
  BY DEF Init, Contract!ContractInit, PhaseSeen, RequestSeen, OutSeen
<1>2. IInv /\ IInv' /\ [Next]_vars => [Contract!ContractNext]_(Contract!fvVars)
  <2>1. CASE UNCHANGED vars
    <3>1. PhaseSeen' = PhaseSeen /\ UNCHANGED <<job, runs, fvFile, report>>
      BY <2>1 DEF vars, files, PhaseSeen
    <3> QED
      BY <3>1, Unseen
  <2> QED
    BY <2>1, StepRefines
<1> QED
  BY <1>1, <1>2, Invariance, PTL DEF Spec, ImplementsContract, Contract!ContractSpec

-----------------------------------------------------------------------------
(* The cleanup.                                                             *)

\* What the cleanup has not removed yet is reported or still on its list.
Owed(name, list, names) == name \in names \/ \E m \in 1..Len(list) : list[m] = name

StillOwed ==
  pc = "cleanup" =>
    /\ metaDat = None \/ Owed("Metadata.dat", toRemove, kept)
    /\ \A k \in 1..Len(lsFfs) :
         ffsFile[lsFfs[k]] = None \/ Owed(lsFfs[k], toRemove, kept)

\* A name that is on the list stays on it until it is the head.
LEMMA OwedOnce ==
  ASSUME NEW S, NEW s \in Seq(S), s # <<>>, NEW m \in 1..Len(s), s[m] # Head(s)
  PROVE  \E n \in 1..Len(Tail(s)) : Tail(s)[n] = s[m]
<1>1. Len(s) \in Nat /\ Head(s) = s[1]
  BY LenProperties
<1>2. m - 1 \in 1..Len(Tail(s))
  BY <1>1, HeadTailProperties
<1>3. Tail(s)[m - 1] = s[m]
  BY <1>1, <1>2, HeadTailProperties
<1> QED
  BY <1>2, <1>3

\* A turn of the loop loses sight of no name but the one it is at.
LEMMA OwedNext ==
  ASSUME NEW S, NEW s \in Seq(S), s # <<>>, NEW before, NEW after, before \subseteq after,
         NEW name, Owed(name, s, before), name # Head(s)
  PROVE  Owed(name, Tail(s), after)
<1>1. ASSUME NEW m \in 1..Len(s), s[m] = name
      PROVE  \E n \in 1..Len(Tail(s)) : Tail(s)[n] = name
  BY <1>1, OwedOnce
<1> QED
  BY <1>1 DEF Owed

LEMMA StillOwedStep == IInv /\ StillOwed /\ [Next]_vars => StillOwed'
<1> SUFFICES ASSUME IInv, StillOwed, [Next]_vars, pc' = "cleanup"
             PROVE  StillOwed'
  BY DEF StillOwed
<1> USE DEF IInv, StillOwed
<1>1. CASE GenerateFv
  <2>1. /\ lsFfs \in Seq(FfsName) /\ lsFfs' = lsFfs
        /\ toRemove' = Append(lsFfs, "Metadata.dat")
    BY <1>1 DEF GenerateFv, Intermediates, TypeOK
  <2>2. Len(lsFfs) \in Nat
    BY <2>1, LenProperties
  <2>3. /\ Len(toRemove') = Len(lsFfs) + 1
        /\ \A k \in 1..Len(lsFfs) : toRemove'[k] = lsFfs[k]
        /\ toRemove'[Len(lsFfs) + 1] = "Metadata.dat"
    BY <2>1, <2>2
  <2>4. Len(lsFfs) + 1 \in 1..Len(toRemove') /\ 1..Len(lsFfs) \subseteq 1..Len(toRemove')
    BY <2>2, <2>3
  <2>5. /\ Owed("Metadata.dat", toRemove', kept')
        /\ \A k \in 1..Len(lsFfs) : Owed(lsFfs[k], toRemove', kept')
    BY <2>1, <2>3, <2>4 DEF Owed
  <2> QED
    BY <2>1, <2>5
<1>2. CASE RemoveFile
  <2>1. /\ toRemove \in Seq(FfsName \cup {"Metadata.dat"}) /\ toRemove # <<>>
        /\ toRemove' = Tail(toRemove) /\ lsFfs' = lsFfs /\ kept' = kept /\ pc = "cleanup"
        /\ lsFfs \in Seq(FfsName) /\ ffsFile \in [FfsName -> FfsImage \cup {None, Torn}]
    BY <1>2 DEF RemoveFile, TypeOK
  <2>2. /\ Head(toRemove) = "Metadata.dat" => metaDat' = None /\ ffsFile' = ffsFile
        /\ Head(toRemove) # "Metadata.dat" =>
             metaDat' = metaDat /\ ffsFile' = [ffsFile EXCEPT ![Head(toRemove)] = None]
    BY <1>2 DEF RemoveFile
  <2>3. metaDat' = None \/ Owed("Metadata.dat", toRemove', kept')
    BY <2>1, <2>2, OwedNext
  <2>4. ASSUME NEW k \in 1..Len(lsFfs)
        PROVE  ffsFile'[lsFfs[k]] = None \/ Owed(lsFfs[k], toRemove', kept')
    <3>1. lsFfs[k] \in FfsName /\ lsFfs[k] # "Metadata.dat"
      BY <2>1, ElementOfSeq, FfsConstants
    <3>2. CASE Head(toRemove) = lsFfs[k]
      BY <2>1, <2>2, <3>1, <3>2
    <3>3. CASE Head(toRemove) # lsFfs[k]
      <4>1. ffsFile'[lsFfs[k]] = ffsFile[lsFfs[k]]
        BY <2>1, <2>2, <3>1, <3>3
      <4>2. Owed(lsFfs[k], toRemove, kept) => Owed(lsFfs[k], toRemove', kept')
        BY <2>1, <3>3, OwedNext
      <4> QED
        BY <2>1, <4>1, <4>2
    <3> QED
      BY <3>2, <3>3
  <2> QED
    BY <2>1, <2>3, <2>4
<1>3. CASE RemovalFails
  <2>1. /\ toRemove \in Seq(FfsName \cup {"Metadata.dat"}) /\ toRemove # <<>>
        /\ toRemove' = Tail(toRemove) /\ kept' = kept \cup {Head(toRemove)} /\ pc = "cleanup"
        /\ UNCHANGED <<lsFfs, files>>
    BY <1>3 DEF RemovalFails, TypeOK
  <2>2. ASSUME NEW name, Owed(name, toRemove, kept)
        PROVE  Owed(name, toRemove', kept')
    <3>1. CASE name = Head(toRemove)
      BY <2>1, <3>1 DEF Owed
    <3>2. CASE name # Head(toRemove)
      BY <2>1, <2>2, <3>2, OwedNext
    <3> QED
      BY <3>1, <3>2
  <2> QED
    BY <2>1, <2>2 DEF files
<1>4. CASE UNCHANGED vars
  BY <1>4 DEF vars, memory, files
<1> QED
  BY <1>1, <1>2, <1>3, <1>4
     DEF Next, Progress, Start, CheckVersion, ParseXml, ValidateEntry, CheckList, WriteMetadata,
         SkipIgnored, WriteFfs, WriteMetadataFfs, WriteEcFfs, Exit, StepRaises, StepFails,
         GenerateFvFails, Crash

\* When a cleanup ends, Metadata.dat and the FFS files that ls_ffs names are gone
\* or named in an error line, whichever removals failed and whatever failed
\* before (remove_files).
THEOREM LeftoversReported == Spec => []CleanupComplete
<1>1. Init => StillOwed
  BY DEF Init, StillOwed
<1>2. IInv /\ StillOwed => CleanupComplete
  <2> SUFFICES ASSUME IInv, StillOwed, pc = "cleanup", toRemove = <<>>
               PROVE  /\ metaDat = None \/ "Metadata.dat" \in kept
                      /\ \A k \in DOMAIN lsFfs : ffsFile[lsFfs[k]] = None \/ lsFfs[k] \in kept
    BY DEF CleanupComplete
  <2>1. 1..Len(toRemove) = {}
    BY EmptySeq
  <2>2. DOMAIN lsFfs = 1..Len(lsFfs)
    BY LenProperties DEF IInv, TypeOK
  <2> QED
    BY <2>1, <2>2 DEF StillOwed, Owed
<1> QED
  BY <1>1, <1>2, Invariance, StillOwedStep, PTL DEF Spec

-----------------------------------------------------------------------------
(* The GUIDs of the volume.                                                 *)

\* No two entries that have their GUID have the same one, and uuid4 has not
\* returned one that is still to come.
OwnGuids ==
  pc \in {"validate", "metadata", "ffs"} =>
    \A k, l \in 1..Len(raw) :
      (pc = "validate" => k > left /\ l > left) =>
        /\ raw[k].guid.id < nextGuid
        /\ k # l => raw[k].guid.id # raw[l].guid.id

\* The FFS files written so far have the GUIDs of the entries gone through.
ListedGuids ==
  /\ pc \in {"version", "parse", "validate", "metadata"} => lsFfs = <<>>
  /\ pc = "ffs" =>
       /\ \A k \in 1..Len(lsFfs) :
            \E i \in 1..Len(raw) - left : ffsFile[lsFfs[k]].guid = FfsGuid(raw[i].guid)
       /\ NamesDistinct =>
            \A k, l \in 1..Len(lsFfs) :
              ffsFile[lsFfs[k]].guid = ffsFile[lsFfs[l]].guid => k = l

\* The complete list of FFS files, and that of an EC firmware run apart.
CompleteGuids ==
  /\ pc = "ec" => job.type = "EC_FW"
  /\ pc = "fv" /\ ok /\ job.type = "SYS_FW" /\ NamesDistinct =>
       \A k, l \in 1..Len(lsFfs) :
         /\ ffsFile[lsFfs[k]].guid = ffsFile[lsFfs[l]].guid => k = l
         /\ k < Len(lsFfs) => ffsFile[lsFfs[k]].guid.order = "le"

GuidInv == OwnGuids /\ ListedGuids /\ CompleteGuids /\ GuidsDistinct

\* One more FFS file under a name of its own leaves the others as they were.
LEMMA OneMoreFfs ==
  ASSUME lsFfs \in Seq(FfsName), NEW S, ffsFile \in [FfsName -> S],
         NEW name \in FfsName, NEW image,
         lsFfs' = Append(lsFfs, name),
         ffsFile' = [ffsFile EXCEPT ![name] = image]
  PROVE  /\ Len(lsFfs) \in Nat /\ Len(lsFfs') = Len(lsFfs) + 1
         /\ lsFfs'[Len(lsFfs) + 1] = name /\ ffsFile'[name] = image
         /\ \A k \in 1..Len(lsFfs) : /\ lsFfs'[k] = lsFfs[k]
                                     /\ lsFfs[k] # name => ffsFile'[lsFfs[k]] = ffsFile[lsFfs[k]]
         /\ NamesDistinct' => NamesDistinct /\ \A k \in 1..Len(lsFfs) : lsFfs[k] # name
<1>1. /\ Len(lsFfs) \in Nat /\ DOMAIN lsFfs = 1..Len(lsFfs)
      /\ \A k \in 1..Len(lsFfs) : lsFfs[k] \in FfsName
  BY LenProperties, ElementOfSeq
<1>2. /\ Len(lsFfs') = Len(lsFfs) + 1 /\ lsFfs' \in Seq(FfsName)
      /\ lsFfs'[Len(lsFfs) + 1] = name
      /\ \A k \in 1..Len(lsFfs) : lsFfs'[k] = lsFfs[k]
  BY <1>1
<1>3. DOMAIN lsFfs' = 1..Len(lsFfs) + 1
  BY <1>2, LenProperties
<1>4. NamesDistinct' => NamesDistinct /\ \A k \in 1..Len(lsFfs) : lsFfs[k] # name
  <2> SUFFICES ASSUME \A i, j \in 1..Len(lsFfs) + 1 : lsFfs'[i] = lsFfs'[j] => i = j
               PROVE  /\ \A i, j \in 1..Len(lsFfs) : lsFfs[i] = lsFfs[j] => i = j
                      /\ \A k \in 1..Len(lsFfs) : lsFfs[k] # name
    BY <1>1, <1>3 DEF NamesDistinct
  <2>1. /\ Len(lsFfs) + 1 \in 1..Len(lsFfs) + 1
        /\ \A k \in 1..Len(lsFfs) : k \in 1..Len(lsFfs) + 1 /\ k # Len(lsFfs) + 1
    BY <1>1
  <2> QED
    BY <1>2, <2>1
<1> QED
  BY <1>1, <1>2, <1>4

\* Two entries have different GUIDs in their FFS files, too, both of them in
\* the byte order of UEFI.
LEMMA FfsGuidsApart ==
  ASSUME IInv, OwnGuids, pc = "ffs", NEW i \in 1..Len(raw), NEW j \in 1..Len(raw)
  PROVE  /\ i # j => FfsGuid(raw[i].guid) # FfsGuid(raw[j].guid)
         /\ FfsGuid(raw[i].guid) \in Guid
         /\ FfsGuid(raw[i].guid).order = "le"
<1>1. raw[i].guid \in Guid /\ raw[j].guid \in Guid
  BY DEF IInv, Control
<1>2. i # j => raw[i].guid.id # raw[j].guid.id
  BY DEF OwnGuids
<1>3. \A g \in Guid : FfsGuid(g).id = g.id /\ FfsGuid(g).order = "le"
  BY DEF FfsGuid, Guid
<1> QED
  BY <1>1, <1>2, <1>3, GuidConversions

LEMMA OwnGuidsStep == IInv /\ OwnGuids /\ [Next]_vars => OwnGuids'
<1> SUFFICES ASSUME IInv, OwnGuids, [Next]_vars
             PROVE  OwnGuids'
  OBVIOUS
<1> USE DEF OwnGuids
<1>1. CASE ParseXml
  <2>1. CASE XmlAccepted(job.doc)
    <3>1. job.doc.entries \in Seq(RawEntry)
      BY <1>1, JobsAssumption DEF ParseXml, IInv, Control, Job, XmlDoc
    <3>2. /\ raw' = [k \in DOMAIN job.doc.entries |->
                       [entry |-> ParsedEntry(job.doc.entries[k], job.glymur), guid |-> None]]
          /\ left' = Len(job.doc.entries) /\ pc' = "validate"
      BY <1>1, <2>1 DEF ParseXml
    <3>3. Len(raw') = left' /\ left' \in Nat
      BY <3>1, <3>2, LenProperties
    <3> QED
      BY <3>2, <3>3
  <2> QED
    BY <1>1, <2>1 DEF ParseXml, StepFails
<1>2. CASE ValidateEntry
  <2> DEFINE e == Head(raw).entry
             item == [entry |-> e, guid |-> FreshGuid]
  <2>1. CASE EntryAccepted(e)
    <3>1. /\ raw \in Seq(RawItem) /\ raw # <<>> /\ left \in Nat /\ left > 0 /\ nextGuid \in Nat
          /\ Len(raw) \in Nat /\ left <= Len(raw) /\ pc = "validate"
      BY <1>2, LenProperties DEF ValidateEntry, IInv, TypeOK, Control
    <3>2. raw' = Append(Tail(raw), item) /\ left' = left - 1 /\ pc' = pc /\ nextGuid' = nextGuid + 1
      BY <1>2, <2>1 DEF ValidateEntry
    <3>3. item.guid.id = nextGuid
      BY DEF FreshGuid
    <3>4. \A k \in 1..Len(raw) : k > left => raw[k].guid.id \in Nat
      BY <3>1 DEF IInv, Control, Guid
    <3>a. \A k, l \in 1..Len(raw) : k > left /\ l > left =>
            raw[k].guid.id < nextGuid /\ (k # l => raw[k].guid.id # raw[l].guid.id)
      BY <3>1
    <3>b. \A a \in Nat : a < nextGuid => a < nextGuid' /\ a # nextGuid
      BY <3>1, <3>2
    <3>c. nextGuid < nextGuid'
      BY <3>1, <3>2
    <3> HIDE DEF item, OwnGuids
    <3>5. /\ Len(raw') = Len(raw)
          /\ \A k \in 1..Len(raw) - 1 : raw'[k] = raw[k + 1]
          /\ raw'[Len(raw)] = item
      BY <3>1, <3>2
    <3>6. ASSUME NEW k \in 1..Len(raw'), k > left', k # Len(raw)
          PROVE  /\ raw'[k] = raw[k + 1] /\ k + 1 \in 1..Len(raw) /\ k + 1 > left
                 /\ raw'[k].guid.id < nextGuid /\ raw'[k].guid.id \in Nat
      <4>a. Len(raw') = Len(raw) /\ left' = left - 1 /\ Len(raw) \in Nat /\ left \in Nat
        BY <3>1, <3>2, <3>5
      <4>b. k \in 1..Len(raw) - 1 /\ k + 1 \in 1..Len(raw) /\ k + 1 > left
        BY <3>6, <4>a
      <4>1. raw'[k] = raw[k + 1] /\ k + 1 \in 1..Len(raw) /\ k + 1 > left
        BY <3>5, <4>b
      <4> QED
        BY <3>4, <3>a, <4>1
    <3>7. ASSUME NEW k \in 1..Len(raw'), NEW l \in 1..Len(raw'), k > left', l > left'
          PROVE  raw'[k].guid.id < nextGuid' /\ (k # l => raw'[k].guid.id # raw'[l].guid.id)
      <4>1. CASE k = Len(raw)
        <5>1. raw'[k].guid.id = nextGuid
          BY <3>3, <3>5, <4>1
        <5>2. k # l => raw'[l].guid.id < nextGuid /\ raw'[l].guid.id \in Nat
          BY <3>6, <3>7, <4>1
        <5> QED
          BY <3>b, <3>c, <4>1, <5>1, <5>2
      <4>2. CASE k # Len(raw) /\ l = Len(raw)
        <5>1. raw'[l].guid.id = nextGuid
          BY <3>3, <3>5, <4>2
        <5>2. raw'[k].guid.id < nextGuid /\ raw'[k].guid.id \in Nat
          BY <3>6, <3>7, <4>2
        <5> QED
          BY <3>b, <4>2, <5>1, <5>2
      <4>3. CASE k # Len(raw) /\ l # Len(raw)
        <5>1. /\ raw'[k] = raw[k + 1] /\ k + 1 \in 1..Len(raw) /\ k + 1 > left
              /\ raw'[k].guid.id < nextGuid /\ raw'[k].guid.id \in Nat
          BY <3>6, <3>7, <4>3
        <5>2. raw'[l] = raw[l + 1] /\ l + 1 \in 1..Len(raw) /\ l + 1 > left
          BY <3>6, <3>7, <4>3
        <5>3. k # l => k + 1 # l + 1
          OBVIOUS
        <5>4. raw'[k].guid.id < nextGuid'
          BY <3>b, <5>1
        <5>5. k # l => raw'[k].guid.id # raw'[l].guid.id
          BY <3>a, <5>1, <5>2, <5>3
        <5> QED
          BY <5>4, <5>5
      <4> QED
        BY <4>1, <4>2, <4>3
    <3> QED
      BY <3>1, <3>2, <3>7 DEF OwnGuids
  <2>2. CASE ~EntryAccepted(e)
    BY <1>2, <2>2 DEF ValidateEntry, StepFails
  <2> QED
    BY <2>1, <2>2
<1>3. CASE CheckList
  <2>1. /\ pc = "validate" /\ left = 0 /\ pc' \in {"metadata", "fv"}
        /\ raw' = raw /\ nextGuid' = nextGuid
    BY <1>3 DEF CheckList, StepFails
  <2>2. \A k \in 1..Len(raw) : k > left
    BY <2>1
  <2> QED
    BY <2>1, <2>2
<1>4. CASE UNCHANGED vars
  BY <1>4 DEF vars, memory
<1> QED
  BY <1>1, <1>2, <1>3, <1>4
     DEF Next, Progress, Start, CheckVersion, WriteMetadata, SkipIgnored, WriteFfs,
         WriteMetadataFfs, WriteEcFfs, GenerateFv, RemoveFile, RemovalFails, Exit, StepRaises, StepFails,
         GenerateFvFails, Crash

LEMMA ListedGuidsStep == IInv /\ OwnGuids /\ ListedGuids /\ [Next]_vars => ListedGuids'
<1> SUFFICES ASSUME IInv, OwnGuids, ListedGuids, [Next]_vars
             PROVE  ListedGuids'
  OBVIOUS
<1> USE DEF ListedGuids
<1>1. CASE WriteMetadata
  <2>1. lsFfs' = <<>> /\ pc' \in {"ffs", "fv"}
    BY <1>1 DEF WriteMetadata, StepFails
  <2> QED
    BY <2>1, EmptySeq
<1>2. CASE SkipIgnored
  <2>1. /\ pc = "ffs" /\ pc' = "ffs" /\ left' = left - 1
        /\ raw' = raw /\ lsFfs' = lsFfs /\ ffsFile' = ffsFile
    BY <1>2 DEF SkipIgnored, files
  <2>2. Len(raw) \in Nat /\ left \in Nat
    BY LenProperties DEF IInv, TypeOK
  <2>3. 1..Len(raw) - left \subseteq 1..Len(raw') - left'
    BY <2>1, <2>2
  <2>4. NamesDistinct' = NamesDistinct
    BY <2>1 DEF NamesDistinct
  <2> QED
    BY <2>1, <2>3, <2>4
<1>3. CASE WriteFfs /\ CanWrap(Item.entry)
  <2> DEFINE name == FfsNameFor(Item.entry)
             image == [run |-> runs, guid |-> FfsGuid(Item.guid),
                       payload |-> [dir |-> DirPath(Item.entry), bin |-> Item.entry.bin]]
             at == Len(raw) - left + 1
             n == Len(lsFfs)
  <2>1. /\ pc = "ffs" /\ pc' = "ffs" /\ left > 0 /\ left' = left - 1 /\ raw' = raw
        /\ lsFfs' = Append(lsFfs, name) /\ ffsFile' = [ffsFile EXCEPT ![name] = image]
    BY <1>3 DEF WriteFfs
  <2>2. /\ Len(raw) \in Nat /\ left \in Nat /\ at \in 1..Len(raw) /\ name \in FfsName
        /\ at = Len(raw') - left'
    BY <1>3, <2>1, ItemType, FfsNameForType, LenProperties DEF IInv, TypeOK, Control
  <2>3. image.guid = FfsGuid(raw[at].guid)
    BY DEF Item
  <2> HIDE DEF name, image
  <2>4. /\ n \in Nat /\ Len(lsFfs') = n + 1
        /\ lsFfs'[n + 1] = name /\ ffsFile'[name] = image
        /\ \A k \in 1..n : /\ lsFfs'[k] = lsFfs[k]
                           /\ lsFfs[k] # name => ffsFile'[lsFfs[k]] = ffsFile[lsFfs[k]]
        /\ NamesDistinct' => NamesDistinct /\ \A k \in 1..n : lsFfs[k] # name
    BY <2>1, <2>2, OneMoreFfs DEF IInv, TypeOK
  <2>5. \A k \in 1..n : \E i \in 1..Len(raw) - left :
          ffsFile[lsFfs[k]].guid = FfsGuid(raw[i].guid)
    BY <2>1
  <2>6. 1..Len(raw) - left \subseteq 1..at /\ at \in 1..at /\ at \notin 1..Len(raw) - left
    BY <2>2
  <2>7. ASSUME NEW k \in 1..Len(lsFfs')
        PROVE  \E i \in 1..at : ffsFile'[lsFfs'[k]].guid = FfsGuid(raw[i].guid)
    <3>1. CASE k \in 1..n /\ lsFfs[k] # name
      <4>1. ffsFile'[lsFfs'[k]] = ffsFile[lsFfs[k]]
        BY <2>4, <3>1
      <4>2. PICK i \in 1..Len(raw) - left : ffsFile[lsFfs[k]].guid = FfsGuid(raw[i].guid)
        BY <2>5, <3>1
      <4>3. i \in 1..at
        BY <2>6
      <4> QED
        BY <4>1, <4>2, <4>3
    <3>2. CASE ~(k \in 1..n /\ lsFfs[k] # name)
      <4>1. lsFfs'[k] = name
        BY <2>4, <3>2
      <4> QED
        BY <2>3, <2>4, <2>6, <4>1
    <3> QED
      BY <3>1, <3>2
  <2>8. ASSUME NamesDistinct', NEW k \in 1..Len(lsFfs'), NEW l \in 1..Len(lsFfs'),
               ffsFile'[lsFfs'[k]].guid = ffsFile'[lsFfs'[l]].guid
        PROVE  k = l
    <3>1. ASSUME NEW m \in 1..n
          PROVE  /\ ffsFile'[lsFfs'[m]] = ffsFile[lsFfs[m]]
                 /\ ffsFile'[lsFfs'[m]].guid # image.guid
      <4>1. ffsFile'[lsFfs'[m]] = ffsFile[lsFfs[m]]
        BY <2>4, <2>8
      <4>2. PICK i \in 1..Len(raw) - left : ffsFile[lsFfs[m]].guid = FfsGuid(raw[i].guid)
        BY <2>5
      <4>3. i \in 1..Len(raw) /\ i # at
        BY <2>2, <2>6
      <4>4. FfsGuid(raw[i].guid) # FfsGuid(raw[at].guid)
        BY <2>1, <2>2, <4>3, FfsGuidsApart
      <4> QED
        BY <2>3, <4>1, <4>2, <4>4
    <3>2. \A m \in 1..Len(lsFfs') : m \in 1..n \/ m = n + 1
      BY <2>4
    <3>3. ffsFile'[lsFfs'[n + 1]] = image
      BY <2>4
    <3>4. CASE k \in 1..n /\ l \in 1..n
      BY <2>1, <2>4, <2>8, <3>1, <3>4
    <3>5. CASE k = n + 1 \/ l = n + 1
      BY <2>8, <3>1, <3>2, <3>3, <3>5
    <3> QED
      BY <3>2, <3>4, <3>5
  <2>9. \A k \in 1..Len(lsFfs') :
          \E i \in 1..Len(raw') - left' : ffsFile'[lsFfs'[k]].guid = FfsGuid(raw'[i].guid)
    <3>1. 1..at = 1..Len(raw') - left' /\ raw' = raw
      BY <2>1, <2>2
    <3> HIDE DEF at
    <3> QED
      BY <2>7, <3>1
  <2>10. NamesDistinct' => \A k, l \in 1..Len(lsFfs') :
           ffsFile'[lsFfs'[k]].guid = ffsFile'[lsFfs'[l]].guid => k = l
    BY <2>8
  <2> QED
    BY <2>1, <2>9, <2>10 DEF FfsGuid
<1>4. CASE WriteFfs /\ ~CanWrap(Item.entry)
  BY <1>4 DEF WriteFfs, StepFails
<1>5. CASE UNCHANGED vars
  BY <1>5 DEF vars, memory, files, NamesDistinct
<1> QED
  BY <1>1, <1>2, <1>3, <1>4, <1>5
     DEF Next, Progress, Start, CheckVersion, ParseXml, ValidateEntry, CheckList,
         WriteMetadataFfs, WriteEcFfs, GenerateFv, RemoveFile, RemovalFails, Exit, StepRaises, StepFails,
         GenerateFvFails, Crash

LEMMA CompleteGuidsStep ==
  IInv /\ OwnGuids /\ ListedGuids /\ CompleteGuids /\ [Next]_vars => CompleteGuids'
<1> SUFFICES ASSUME IInv, OwnGuids, ListedGuids, CompleteGuids, [Next]_vars
             PROVE  CompleteGuids'
  OBVIOUS
<1> USE DEF CompleteGuids
<1>1. CASE Start
  BY <1>1, JobsAssumption DEF Start, Job
<1>2. CASE WriteMetadataFfs
  <2> DEFINE image == [run |-> runs, guid |-> MetadataGuid, payload |-> metaDat]
             n == Len(lsFfs)
  <2>1. /\ pc = "ffs" /\ pc' = "fv" /\ left = 0 /\ raw' = raw
        /\ lsFfs' = Append(lsFfs, MetadataFfs)
        /\ ffsFile' = [ffsFile EXCEPT ![MetadataFfs] = image]
    BY <1>2 DEF WriteMetadataFfs
  <2>2. Len(raw) \in Nat /\ MetadataFfs \in FfsName /\ image.guid = MetadataGuid
    BY FfsConstants, LenProperties DEF IInv, TypeOK
  <2> HIDE DEF image
  <2>3. /\ n \in Nat /\ Len(lsFfs') = n + 1
        /\ lsFfs'[n + 1] = MetadataFfs /\ ffsFile'[MetadataFfs] = image
        /\ \A k \in 1..n : /\ lsFfs'[k] = lsFfs[k]
                           /\ lsFfs[k] # MetadataFfs => ffsFile'[lsFfs[k]] = ffsFile[lsFfs[k]]
        /\ NamesDistinct' => NamesDistinct /\ \A k \in 1..n : lsFfs[k] # MetadataFfs
    BY <2>1, <2>2, OneMoreFfs DEF IInv, TypeOK
  <2>4. SUFFICES ASSUME NamesDistinct', NEW k \in 1..Len(lsFfs'), NEW l \in 1..Len(lsFfs')
        PROVE  /\ ffsFile'[lsFfs'[k]].guid = ffsFile'[lsFfs'[l]].guid => k = l
               /\ k < Len(lsFfs') => ffsFile'[lsFfs'[k]].guid.order = "le"
    BY <2>1
  <2>5. ASSUME NEW m \in 1..n
        PROVE  /\ ffsFile'[lsFfs'[m]] = ffsFile[lsFfs[m]]
               /\ ffsFile'[lsFfs'[m]].guid # MetadataGuid
               /\ ffsFile'[lsFfs'[m]].guid.order = "le"
    <3>1. ffsFile'[lsFfs'[m]] = ffsFile[lsFfs[m]]
      BY <2>3, <2>4
    <3>2. PICK i \in 1..Len(raw) - left : ffsFile[lsFfs[m]].guid = FfsGuid(raw[i].guid)
      BY <2>1 DEF ListedGuids
    <3>3. i \in 1..Len(raw)
      BY <2>1, <2>2
    <3>4. FfsGuid(raw[i].guid) \in Guid /\ FfsGuid(raw[i].guid).order = "le"
      BY <2>1, <3>3, FfsGuidsApart
    <3> QED
      BY <3>1, <3>2, <3>4, WellKnownGuids
  <2>6. \A m \in 1..Len(lsFfs') : m \in 1..n \/ m = n + 1
    BY <2>3
  <2>7. ffsFile'[lsFfs'[n + 1]].guid = MetadataGuid
    BY <2>2, <2>3
  <2>8. ffsFile'[lsFfs'[k]].guid = ffsFile'[lsFfs'[l]].guid => k = l
    <3>1. CASE k \in 1..n /\ l \in 1..n
      BY <2>1, <2>3, <2>4, <2>5, <3>1 DEF ListedGuids
    <3>2. CASE k = n + 1 \/ l = n + 1
      BY <2>5, <2>6, <2>7, <3>2
    <3> QED
      BY <2>6, <3>1, <3>2
  <2>9. k < Len(lsFfs') => ffsFile'[lsFfs'[k]].guid.order = "le"
    BY <2>3, <2>5, <2>6
  <2> QED
    BY <2>8, <2>9
<1>3. CASE WriteEcFfs
  BY <1>3 DEF WriteEcFfs
<1>4. CASE UNCHANGED vars
  BY <1>4 DEF vars, memory, files, NamesDistinct
<1> QED
  BY <1>1, <1>2, <1>3, <1>4
     DEF Next, Progress, CheckVersion, ParseXml, ValidateEntry, CheckList, WriteMetadata,
         SkipIgnored, WriteFfs, GenerateFv, RemoveFile, RemovalFails, Exit, StepRaises, StepFails,
         GenerateFvFails, Crash

LEMMA GuidsDistinctStep ==
  IInv /\ CompleteGuids /\ GuidsDistinct /\ [Next]_vars => GuidsDistinct'
<1> SUFFICES ASSUME IInv, CompleteGuids, GuidsDistinct, [Next]_vars
             PROVE  GuidsDistinct'
  OBVIOUS
<1> USE DEF GuidsDistinct, CompleteSysFw, Published
<1>a. ASSUME UNCHANGED <<fvFile, job, ok, lsFfs, report>>
      PROVE  GuidsDistinct'
  BY <1>a DEF NamesDistinct
<1>1. CASE GenerateFv
  <2>1. /\ pc = "fv" /\ lsFfs' = lsFfs /\ job' = job /\ ok' = ok
        /\ fvFile'.images = [k \in DOMAIN lsFfs |-> ffsFile[lsFfs[k]]]
    BY <1>1 DEF GenerateFv
  <2>2. NamesDistinct' = NamesDistinct
    BY <2>1 DEF NamesDistinct
  <2>3. SUFFICES ASSUME ok, job.type = "SYS_FW", NamesDistinct,
                        NEW i \in DOMAIN fvFile'.images, NEW j \in DOMAIN fvFile'.images
        PROVE  /\ fvFile'.images[i].guid = fvFile'.images[j].guid => i = j
               /\ i < Len(fvFile'.images) => fvFile'.images[i].guid.order = "le"
    BY <2>1, <2>2
  <2>4. lsFfs \in Seq(FfsName) /\ DOMAIN lsFfs = 1..Len(lsFfs) /\ Len(lsFfs) \in Nat
    BY LenProperties DEF IInv, TypeOK
  <2>5. Len(fvFile'.images) = Len(lsFfs)
    BY <2>1, <2>4
  <2>6. i \in 1..Len(lsFfs) /\ j \in 1..Len(lsFfs)
    BY <2>1, <2>4
  <2>7. fvFile'.images[i] = ffsFile[lsFfs[i]] /\ fvFile'.images[j] = ffsFile[lsFfs[j]]
    BY <2>1, <2>4, <2>6
  <2> QED
    BY <2>1, <2>3, <2>5, <2>6, <2>7 DEF CompleteGuids
<1>2. CASE Crash
  <2>1. CASE pc = "fv"
    <3>1. report' = "none"
      BY <1>2, <2>1 DEF Crash, IInv, Control
    <3> QED
      BY <3>1
  <2>2. CASE pc # "fv"
    <3>1. fvFile' = fvFile
      BY <1>2, <2>2 DEF Crash, WriteCutShort, files
    <3> QED
      BY <1>2, <1>a, <3>1 DEF Crash, memory
  <2> QED
    BY <2>1, <2>2
<1>3. CASE UNCHANGED vars
  BY <1>3, <1>a DEF vars, memory, files
<1>4. CASE RemoveFile \/ RemovalFails \/ Exit
  BY <1>4, <1>a DEF RemoveFile, RemovalFails, Exit, memory, files
<1>5. ASSUME report' # "created"
      PROVE  GuidsDistinct'
  BY <1>5
<1>6. ASSUME pc \notin {"idle", "cleanup"}, report' = report
      PROVE  GuidsDistinct'
  BY <1>6, <1>5 DEF IInv, Control
<1> QED
  BY <1>1, <1>2, <1>3, <1>4, <1>5, <1>6
     DEF Next, Progress, Start, CheckVersion, ParseXml, ValidateEntry, CheckList, WriteMetadata,
         SkipIgnored, WriteFfs, WriteMetadataFfs, WriteEcFfs, StepRaises, GenerateFvFails

\* No two files of a complete volume answer to the same GUID, however many runs
\* shared the directory: each entry gets a GUID of its own while the list is
\* rotated, each keeps it through the conversion, and the metadata file has the
\* well-known one (fw_entry_list_validation_main, generate_sys_fw_ffs_list).
THEOREM VolumeGuidsDistinct == Spec => []GuidsDistinct
<1>1. Init => GuidInv
  BY DEF Init, GuidInv, OwnGuids, ListedGuids, CompleteGuids, GuidsDistinct, CompleteSysFw, Published
<1>2. IInv /\ GuidInv /\ [Next]_vars => GuidInv'
  BY OwnGuidsStep, ListedGuidsStep, CompleteGuidsStep, GuidsDistinctStep DEF GuidInv
<1>3. GuidInv => GuidsDistinct
  BY DEF GuidInv
<1> QED
  BY <1>1, <1>2, <1>3, Invariance, PTL DEF Spec

-----------------------------------------------------------------------------
(* The volume and its metadata, entry by entry.                             *)

EntryCount == Len(job.doc.entries)
Parsed(i)  == ParsedEntry(job.doc.entries[i], job.glymur)

\* The updates among the first i entries of the document.
UpTo(i) == RankIn(UpdateAt, i)

\* The deque: entries still to be checked ahead of those that were, which are
\* back in document order when the loop ends.
Rotation ==
  /\ pc = "validate" =>
       /\ Len(raw) = EntryCount
       /\ \A k \in 1..left : raw[k].entry = Parsed(EntryCount - left + k)
       /\ \A i \in 1..EntryCount - left :
            /\ raw[left + i].entry = Parsed(i) /\ EntryAccepted(Parsed(i))
            /\ raw[left + i].guid.order = "be"
  /\ pc \in {"metadata", "ffs"} =>
       /\ Len(raw) = EntryCount
       /\ \A i \in 1..EntryCount : /\ raw[i].entry = Parsed(i) /\ EntryAccepted(Parsed(i))
                                   /\ raw[i].guid.order = "be"

\* The payload list has the updates among the entries that were checked.
PayloadListed ==
  /\ pc \in {"version", "parse"} => qpayload = <<>>
  /\ pc = "validate" =>
       /\ Len(qpayload) = UpTo(EntryCount - left)
       /\ \A i \in UpdateAt : i <= EntryCount - left =>
            qpayload[UpTo(i)] = MetaOf(Parsed(i), raw[left + i].guid)
  /\ pc = "metadata" =>
       /\ Len(qpayload) = UpTo(EntryCount)
       /\ \A i \in UpdateAt : qpayload[UpTo(i)] = MetaOf(Parsed(i), raw[i].guid)
       /\ DisksOnFlash(qpayload, job.doc.flash)

\* A metadata entry that says what the entry of the document does.
SaysOf(m, e) ==
  /\ m.upd.part = e.upd.part
  /\ IsPartition(m) => /\ WrittenAs(m.upd, e.upd) /\ WrittenAs(m.bak, e.bak)
                       /\ job.doc.flash \in FlashOfDisk[m.upd.disk] \cap FlashOfDisk[m.bak.disk]

MetadataListed ==
  pc = "ffs" =>
    /\ Len(metaDat.entries) = UpTo(EntryCount)
    /\ \A i \in UpdateAt : /\ metaDat.entries[UpTo(i)].guid = FfsGuid(raw[i].guid)
                           /\ SaysOf(metaDat.entries[UpTo(i)], job.doc.entries[i])

FilesListed ==
  pc = "ffs" =>
    /\ Len(lsFfs) = UpTo(EntryCount - left)
    /\ NamesDistinct => \A i \in UpdateAt : i <= EntryCount - left =>
         /\ ffsFile[lsFfs[UpTo(i)]].guid = FfsGuid(raw[i].guid)
         /\ ffsFile[lsFfs[UpTo(i)]].payload.bin = job.doc.entries[i].bin

\* What PackedPairs and DevicePathsAsWritten say, of the files to be assembled.
VolumeListed ==
  pc = "fv" /\ ok /\ job.type = "SYS_FW" /\ NamesDistinct =>
    LET entries == ffsFile[lsFfs[Len(lsFfs)]].payload.entries
    IN /\ Len(lsFfs) = Len(Updates) + 1
       /\ Len(entries) = Len(Updates)
       /\ \A k \in DOMAIN Updates : /\ ffsFile[lsFfs[k]].guid = entries[k].guid
                                    /\ ffsFile[lsFfs[k]].payload.bin = Updates[k].bin
                                    /\ SaysOf(entries[k], Updates[k])

PackInv == /\ Rotation /\ PayloadListed /\ MetadataListed /\ FilesListed /\ VolumeListed
           /\ PackedPairs /\ DevicePathsAsWritten

\* The document of the run and the ranks of its updates.
LEMMA DocumentFacts ==
  ASSUME IInv, pc # "idle"
  PROVE  /\ job \in Job /\ job.doc.entries \in Seq(RawEntry)
         /\ EntryCount \in Nat
         /\ \A i \in 1..EntryCount : job.doc.entries[i] \in RawEntry
         /\ UpdateAt \in SUBSET (1..EntryCount)
         /\ UpdateAt = {i \in 1..EntryCount : OperationOf(job.doc.entries[i]) = "UPDATE"}
<1>1. job \in Job
  BY JobsAssumption DEF IInv, Control
<1>2. job.doc.entries \in Seq(RawEntry)
  BY <1>1 DEF Job, XmlDoc
<1>3. DOMAIN job.doc.entries = 1..EntryCount /\ EntryCount \in Nat
  BY <1>2, LenProperties DEF EntryCount
<1>4. \A i \in 1..EntryCount : job.doc.entries[i] \in RawEntry
  BY <1>2, ElementOfSeq DEF EntryCount
<1> QED
  BY <1>1, <1>2, <1>3, <1>4 DEF UpdateAt

LEMMA UpToFacts ==
  ASSUME IInv, pc # "idle"
  PROVE  /\ \A i \in Nat : UpTo(i) \in Nat
         /\ UpTo(0) = 0
         /\ UpTo(EntryCount) = Cardinality(UpdateAt)
         /\ \A i \in Nat : UpTo(i + 1) = IF i + 1 \in UpdateAt THEN UpTo(i) + 1 ELSE UpTo(i)
         /\ \A i \in UpdateAt, m \in Nat : i <= m => UpTo(i) \in 1..UpTo(m)
<1>1. UpdateAt \in SUBSET (1..EntryCount) /\ EntryCount \in Nat
  BY DocumentFacts
<1>2. UpdateAt \in SUBSET (Nat \ {0}) /\ UpdateAt \in SUBSET Nat
  BY <1>1, RankOfLast
<1>3. \A i \in Nat : UpTo(i) \in Nat
  BY <1>2, RankType DEF UpTo
<1>4. /\ UpTo(0) = 0
      /\ \A i \in Nat : UpTo(i + 1) = IF i + 1 \in UpdateAt THEN UpTo(i) + 1 ELSE UpTo(i)
  BY <1>2, RankStep DEF UpTo
<1>5. UpTo(EntryCount) = Cardinality(UpdateAt)
  BY <1>1, RankOfLast DEF UpTo
<1>6. ASSUME NEW i \in UpdateAt, NEW m \in Nat, i <= m
      PROVE  UpTo(i) \in 1..UpTo(m)
  <2>1. i \in Nat /\ 0 < i
    BY <1>2
  <2>2. UpTo(0) < UpTo(i)
    BY <1>2, <2>1, RankMonotonic DEF UpTo
  <2>3. UpTo(i) <= UpTo(m)
    BY <1>2, <1>3, <1>6, <2>1, RankMonotonic DEF UpTo
  <2> QED
    BY <1>3, <1>4, <2>1, <2>2, <2>3
<1> QED
  BY <1>3, <1>4, <1>5, <1>6

\* The list of the updates: one for each, in the order of their ranks.
LEMMA UpdatesFacts ==
  ASSUME IInv, pc # "idle"
  PROVE  /\ Cardinality(UpdateAt) \in Nat /\ Len(Updates) = Cardinality(UpdateAt)
         /\ DOMAIN Updates = 1..Cardinality(UpdateAt)
         /\ \A k \in 1..Cardinality(UpdateAt) :
              \E i \in UpdateAt : UpTo(i) = k /\ Updates[k] = job.doc.entries[i]
<1>1. EntryCount \in Nat /\ UpdateAt \in SUBSET (1..EntryCount)
  BY DocumentFacts
<1> DEFINE s == job.doc.entries
<1>2. Updates = Picked(s, UpdateAt) /\ \A i : UpTo(i) = RankIn(UpdateAt, i)
  BY DEF Updates, UpTo
<1> HIDE DEF s
<1>3. /\ Cardinality(UpdateAt) \in Nat
      /\ DOMAIN Picked(s, UpdateAt) = 1..Cardinality(UpdateAt)
      /\ \A k \in 1..Cardinality(UpdateAt) :
           \E p \in UpdateAt : RankIn(UpdateAt, p) = k /\ Picked(s, UpdateAt)[k] = s[p]
  BY <1>1, PickedElements
<1>4. Len(Picked(s, UpdateAt)) = Cardinality(UpdateAt)
  BY <1>3 DEF Picked
<1> QED
  BY <1>2, <1>3, <1>4 DEF s

\* Parsing keeps what the metadata and the files take from an entry.
LEMMA ParsedFields ==
  ASSUME NEW e \in RawEntry, NEW g
  PROVE  LET p == ParsedEntry(e, g)
         IN /\ p.op = e.op /\ p.bin = e.bin /\ p.updateType = e.updateType
            /\ p.upd = e.upd /\ p.bak = e.bak
BY DEF ParsedEntry, RawEntry

\* The metadata of an accepted update says what its entry says.
LEMMA MetaSays ==
  ASSUME NEW e \in RawEntry, NEW g, NEW guid, EntryAccepted(ParsedEntry(e, g)),
         OperationOf(e) = "UPDATE", NEW m, m.upd = MetaOf(ParsedEntry(e, g), guid).upd,
         m.bak = MetaOf(ParsedEntry(e, g), guid).bak,
         m.updateType = MetaOf(ParsedEntry(e, g), guid).updateType,
         m.updateType # "FWCLASS_GUID" =>
           job.doc.flash \in FlashOfDisk[m.upd.disk] \cap FlashOfDisk[m.bak.disk]
  PROVE  SaysOf(m, e)
<1> DEFINE p == ParsedEntry(e, g)
<1>1. /\ p.op = e.op /\ p.bin = e.bin /\ p.updateType = e.updateType
      /\ p.upd = e.upd /\ p.bak = e.bak
  BY ParsedFields
<1>2. m.upd = MetaPathOf(e.upd) /\ m.bak = MetaPathOf(e.bak) /\ m.updateType = UpdateTypeOf(p)
  BY <1>1 DEF MetaOf
<1>3. m.upd.part = e.upd.part
  BY <1>2 DEF MetaPathOf
<1>4. ASSUME IsPartition(m)
      PROVE  WrittenAs(m.upd, e.upd) /\ WrittenAs(m.bak, e.bak)
  <2>1. p.op = "UPDATE" /\ p.updateType \in {"PARTITION", None}
    <3>1. UpdateTypeOf(p) = "PARTITION"
      BY <1>2, <1>4 DEF IsPartition
    <3> QED
      BY <1>1, <3>1 DEF UpdateTypeOf, OperationOf
  <2>2. CombinationAccepted(p) /\ p.op # None
    BY <1>1 DEF EntryAccepted, OperationOf
  <2>3. p.updateType # "FWCLASS_GUID"
    BY <2>1, AbsentTags DEF UpdateType
  <2>4. p.upd.disk # None /\ p.bak.disk # None
    BY <2>1, <2>2, <2>3 DEF CombinationAccepted, Complete
  <2>5. e.upd \in RawPath /\ e.bak \in RawPath
    BY DEF RawEntry
  <2> QED
    BY <1>1, <1>2, <2>4, <2>5 DEF MetaPathOf, RawPath, WrittenAs
<1>5. IsPartition(m) => m.updateType # "FWCLASS_GUID"
  BY DEF IsPartition
<1> QED
  BY <1>3, <1>4, <1>5 DEF SaysOf

\* One turn of the deque: the head is checked and goes to the back.
LEMMA OneTurn ==
  ASSUME IInv, ValidateEntry, EntryAccepted(Head(raw).entry)
  PROVE  LET e == Head(raw).entry
             n == Len(raw)
         IN /\ n \in Nat /\ left \in 1..n /\ left' = left - 1 /\ pc' = "validate" /\ job' = job
            /\ Len(raw') = n /\ raw[1].entry = e
            /\ \A k \in 1..n - 1 : raw'[k] = raw[k + 1]
            /\ raw'[n] = [entry |-> e, guid |-> FreshGuid]
            /\ qpayload' = IF OperationOf(e) = "IGNORE" THEN qpayload
                           ELSE Append(qpayload, MetaOf(e, FreshGuid))
<1> DEFINE e == Head(raw).entry
           item == [entry |-> e, guid |-> FreshGuid]
<1>1. /\ raw \in Seq(RawItem) /\ raw # <<>> /\ left \in Nat /\ left > 0
      /\ Len(raw) \in Nat /\ left <= Len(raw)
  BY LenProperties DEF ValidateEntry, IInv, TypeOK, Control
<1>2. /\ raw' = Append(Tail(raw), item) /\ left' = left - 1 /\ pc' = "validate" /\ job' = job
      /\ qpayload' = IF OperationOf(e) = "IGNORE" THEN qpayload
                     ELSE Append(qpayload, MetaOf(e, FreshGuid))
  BY DEF ValidateEntry
<1>3. raw[1].entry = e
  BY <1>1
<1> HIDE DEF item
<1>4. /\ Len(raw') = Len(raw)
      /\ \A k \in 1..Len(raw) - 1 : raw'[k] = raw[k + 1]
      /\ raw'[Len(raw)] = item
  BY <1>1, <1>2
<1> QED
  BY <1>1, <1>2, <1>3, <1>4 DEF item

LEMMA RotationStep == IInv /\ Rotation /\ [Next]_vars => Rotation'
<1> SUFFICES ASSUME IInv, Rotation, [Next]_vars
             PROVE  Rotation'
  OBVIOUS
<1>1. CASE ParseXml /\ XmlAccepted(job.doc)
  <2>1. /\ raw' = [k \in DOMAIN job.doc.entries |->
                     [entry |-> ParsedEntry(job.doc.entries[k], job.glymur), guid |-> None]]
        /\ left' = EntryCount /\ pc' = "validate" /\ job' = job
    BY <1>1 DEF ParseXml, EntryCount
  <2>2. /\ EntryCount \in Nat /\ DOMAIN job.doc.entries = 1..EntryCount
        /\ EntryCount' = EntryCount /\ \A k : Parsed(k)' = Parsed(k)
    BY <1>1, <2>1, DocumentFacts, LenProperties DEF ParseXml, EntryCount, Parsed
  <2>3. Len(raw') = EntryCount /\ \A k \in 1..EntryCount : raw'[k].entry = Parsed(k)
    BY <2>1, <2>2 DEF Parsed
  <2> QED
    BY <2>1, <2>2, <2>3 DEF Rotation
<1>2. CASE ValidateEntry /\ EntryAccepted(Head(raw).entry)
  <2> DEFINE e == Head(raw).entry
             n == EntryCount
  <2>1. pc = "validate" /\ Len(raw) = n
    BY <1>2 DEF ValidateEntry, Rotation
  <2>2. /\ n \in Nat /\ left \in 1..n /\ left' = left - 1 /\ pc' = "validate" /\ job' = job
        /\ Len(raw') = n /\ raw[1].entry = e
        /\ \A k \in 1..n - 1 : raw'[k] = raw[k + 1]
        /\ raw'[n] = [entry |-> e, guid |-> FreshGuid]
    BY <1>2, <2>1, OneTurn
  <2>3. n' = n /\ \A k : Parsed(k)' = Parsed(k)
    BY <2>2 DEF EntryCount, Parsed
  <2>4. e = Parsed(n - left + 1)
    BY <2>1, <2>2 DEF Rotation
  <2>5. ASSUME NEW k \in 1..left'
        PROVE  raw'[k].entry = Parsed(n - left' + k)
    <3>1. k \in 1..n - 1 /\ k + 1 \in 1..left /\ n - left + (k + 1) = n - left' + k
      BY <2>2
    <3>2. raw'[k].entry = raw[k + 1].entry
      BY <2>2, <3>1
    <3>3. raw[k + 1].entry = Parsed(n - left + (k + 1))
      BY <2>1, <3>1 DEF Rotation
    <3> QED
      BY <3>1, <3>2, <3>3
  <2>6. ASSUME NEW i \in 1..n - left'
        PROVE  /\ raw'[left' + i].entry = Parsed(i) /\ EntryAccepted(Parsed(i))
               /\ raw'[left' + i].guid.order = "be"
    <3>1. CASE i = n - left + 1
      <4>1. left' + i = n
        BY <2>2, <3>1
      <4> QED
        BY <1>2, <2>2, <2>4, <3>1, <4>1 DEF FreshGuid
    <3>2. CASE i # n - left + 1
      <4>1. i \in 1..n - left /\ left' + i \in 1..n - 1 /\ left' + i + 1 = left + i
        BY <2>2, <3>2
      <4>2. raw'[left' + i] = raw[left + i]
        BY <2>2, <4>1
      <4> QED
        BY <2>1, <4>1, <4>2 DEF Rotation
    <3> QED
      BY <3>1, <3>2
  <2> QED
    BY <2>2, <2>3, <2>5, <2>6 DEF Rotation
<1>3. CASE CheckList
  <2>1. /\ pc = "validate" /\ left = 0 /\ pc' \in {"metadata", "fv"} /\ raw' = raw /\ job' = job
    BY <1>3 DEF CheckList, StepFails
  <2>2. EntryCount' = EntryCount /\ (\A k : Parsed(k)' = Parsed(k)) /\ EntryCount \in Nat
    BY <2>1, DocumentFacts DEF EntryCount, Parsed
  <2>3. /\ Len(raw) = EntryCount
        /\ \A i \in 1..EntryCount : /\ raw[i].entry = Parsed(i) /\ EntryAccepted(Parsed(i))
                                    /\ raw[i].guid.order = "be"
    BY <2>1, <2>2 DEF Rotation
  <2> QED
    BY <2>1, <2>2, <2>3 DEF Rotation
<1>a. ASSUME pc' = "validate" => pc = "validate" /\ left' = left,
             pc' \in {"metadata", "ffs"} => pc \in {"metadata", "ffs"},
             raw' = raw, job' = job
      PROVE  Rotation'
  <2>1. EntryCount' = EntryCount /\ \A k : Parsed(k)' = Parsed(k)
    BY <1>a DEF EntryCount, Parsed
  <2>2. CASE pc' = "validate"
    <3>1. pc = "validate"
      BY <1>a, <2>2
    <3> QED
      BY <1>a, <2>1, <2>2, <3>1 DEF Rotation
  <2>3. CASE pc' \in {"metadata", "ffs"}
    <3>1. pc \in {"metadata", "ffs"}
      BY <1>a, <2>3
    <3> QED
      BY <1>a, <2>1, <2>3, <3>1 DEF Rotation
  <2> QED
    BY <2>2, <2>3 DEF Rotation
<1>4. CASE UNCHANGED vars
  BY <1>4, <1>a DEF vars, memory
<1>5. CASE SkipIgnored \/ WriteFfs \/ WriteMetadata
  BY <1>5, <1>a DEF SkipIgnored, WriteFfs, WriteMetadata, StepFails
<1>6. ASSUME pc' \notin {"validate", "metadata", "ffs"}
      PROVE  Rotation'
  BY <1>6 DEF Rotation
<1> QED
  BY <1>1, <1>2, <1>3, <1>4, <1>5, <1>6
     DEF Next, Progress, Start, CheckVersion, ParseXml, ValidateEntry,
         WriteMetadataFfs, WriteEcFfs, GenerateFv, RemoveFile, RemovalFails, Exit, StepRaises, StepFails,
         GenerateFvFails, Crash

\* The document of a run does not change.
LEMMA SameDocument ==
  ASSUME job' = job
  PROVE  /\ EntryCount' = EntryCount /\ UpdateAt' = UpdateAt
         /\ \A k : Parsed(k)' = Parsed(k) /\ UpTo(k)' = UpTo(k)
BY DEF EntryCount, UpdateAt, Parsed, UpTo

\* An update that is checked is appended, with the GUID the deque gets.
LEMMA OneListed ==
  ASSUME IInv, Rotation, PayloadListed, ValidateEntry, EntryAccepted(Head(raw).entry)
  PROVE  PayloadListed'
<1> DEFINE n == EntryCount
           at == n - left + 1
           e == Head(raw).entry
<1>1. pc = "validate" /\ Len(raw) = n
  BY DEF ValidateEntry, Rotation
<1>2. /\ n \in Nat /\ left \in 1..n /\ left' = left - 1 /\ pc' = "validate" /\ job' = job
      /\ Len(raw') = n /\ raw[1].entry = e
      /\ \A k \in 1..n - 1 : raw'[k] = raw[k + 1]
      /\ raw'[n] = [entry |-> e, guid |-> FreshGuid]
      /\ qpayload' = IF OperationOf(e) = "IGNORE" THEN qpayload
                     ELSE Append(qpayload, MetaOf(e, FreshGuid))
  BY <1>1, OneTurn
<1>3. /\ n' = n /\ UpdateAt' = UpdateAt
      /\ \A k : Parsed(k)' = Parsed(k) /\ UpTo(k)' = UpTo(k)
  BY <1>2, SameDocument
<1>4. /\ at \in 1..n /\ n - left' = at /\ n - left = at - 1 /\ at - 1 \in Nat
      /\ left' + at = n
  BY <1>2
<1>5. e = Parsed(at)
  BY <1>1, <1>2 DEF Rotation
<1>6. OperationOf(e) = "UPDATE" <=> at \in UpdateAt
  <2>1. e.op = job.doc.entries[at].op
    BY <1>1, <1>4, <1>5, DocumentFacts, ParsedFields DEF Parsed
  <2> QED
    BY <1>1, <1>4, <2>1, DocumentFacts DEF OperationOf
<1>7. OperationOf(e) \in {"IGNORE", "UPDATE"}
  BY DEF EntryAccepted, TypesAccepted, OperationOf, OperationType
<1>8. /\ UpTo(at) = IF at \in UpdateAt THEN UpTo(at - 1) + 1 ELSE UpTo(at - 1)
      /\ UpTo(at - 1) \in Nat
      /\ \A i \in UpdateAt : i <= at - 1 => UpTo(i) \in 1..UpTo(at - 1)
      /\ \A i \in UpdateAt : i \in 1..n
  <2>1. at = (at - 1) + 1
    BY <1>4
  <2> HIDE DEF at
  <2>2. at - 1 \in Nat
    BY <1>4
  <2>3. UpTo((at - 1) + 1) = IF (at - 1) + 1 \in UpdateAt THEN UpTo(at - 1) + 1 ELSE UpTo(at - 1)
    BY <1>1, <2>2, UpToFacts
  <2> QED
    BY <1>1, <2>1, <2>2, <2>3, UpToFacts, DocumentFacts
<1>9. /\ Len(qpayload) = UpTo(at - 1) /\ qpayload \in Seq(MetaEntry)
      /\ \A i \in UpdateAt : i <= at - 1 => qpayload[UpTo(i)] = MetaOf(Parsed(i), raw[left + i].guid)
  BY <1>1, <1>4 DEF PayloadListed, IInv, TypeOK
<1>10. ASSUME NEW i \in 1..n, i <= at - 1
       PROVE  left + i = left' + i + 1 /\ left' + i \in 1..n - 1
  <2>1. n \in Nat /\ left \in 1..n /\ left' = left - 1 /\ i <= n - left
    BY <1>2, <1>10
  <2> HIDE DEF n
  <2> QED
    BY <2>1
<1> HIDE DEF at, n, e
<1>11. ASSUME NEW i \in UpdateAt, i <= at - 1
       PROVE  qpayload[UpTo(i)] = MetaOf(Parsed(i), raw'[left' + i].guid)
  BY <1>2, <1>8, <1>9, <1>10, <1>11
<1>12. ASSUME NEW i \in UpdateAt, i <= at, i # at
       PROVE  i <= at - 1
  BY <1>4, <1>8, <1>12
<1>13. CASE at \in UpdateAt
  <2>1. qpayload' = Append(qpayload, MetaOf(e, FreshGuid))
    BY <1>2, <1>6, <1>13
  <2>2. \A m : Append(qpayload, m)[Len(qpayload) + 1] = m
    BY <1>9
  <2>3. \A m : /\ Len(Append(qpayload, m)) = Len(qpayload) + 1
               /\ \A k \in 1..Len(qpayload) : Append(qpayload, m)[k] = qpayload[k]
    BY <1>9
  <2>4. Len(qpayload') = UpTo(at)
    BY <1>8, <1>9, <1>13, <2>1, <2>3
  <2>5. ASSUME NEW i \in UpdateAt, i <= at
        PROVE  qpayload'[UpTo(i)] = MetaOf(Parsed(i), raw'[left' + i].guid)
    <3>1. CASE i = at
      <4>1. qpayload'[UpTo(at)] = MetaOf(e, FreshGuid)
        BY <1>8, <1>9, <1>13, <2>1, <2>2
      <4>2. raw'[left' + at].guid = FreshGuid
        BY <1>2, <1>4
      <4> QED
        BY <1>5, <3>1, <4>1, <4>2
    <3>2. CASE i # at
      <4>1. i <= at - 1
        BY <1>12, <2>5, <3>2
      <4>2. UpTo(i) \in 1..Len(qpayload)
        BY <1>8, <1>9, <4>1
      <4>3. qpayload'[UpTo(i)] = qpayload[UpTo(i)]
        BY <2>1, <2>3, <4>2
      <4> QED
        BY <1>11, <4>1, <4>3
    <3> QED
      BY <3>1, <3>2
  <2> QED
    BY <1>2, <1>3, <1>4, <2>4, <2>5 DEF PayloadListed, n
<1>14. CASE at \notin UpdateAt
  <2>1. qpayload' = qpayload
    BY <1>2, <1>6, <1>7, <1>14
  <2>2. Len(qpayload') = UpTo(at)
    BY <1>8, <1>9, <1>14, <2>1
  <2>3. ASSUME NEW i \in UpdateAt, i <= at
        PROVE  qpayload'[UpTo(i)] = MetaOf(Parsed(i), raw'[left' + i].guid)
    BY <1>11, <1>12, <1>14, <2>1, <2>3
  <2> QED
    BY <1>2, <1>3, <1>4, <2>2, <2>3 DEF PayloadListed, n
<1> QED
  BY <1>13, <1>14

LEMMA PayloadListedStep ==
  IInv /\ Rotation /\ PayloadListed /\ [Next]_vars => PayloadListed'
<1> SUFFICES ASSUME IInv, Rotation, PayloadListed, [Next]_vars
             PROVE  PayloadListed'
  OBVIOUS
<1>1. CASE ParseXml /\ XmlAccepted(job.doc)
  <2>1. left' = EntryCount /\ pc' = "validate" /\ job' = job /\ qpayload' = qpayload /\ pc = "parse"
    BY <1>1 DEF ParseXml, EntryCount
  <2>2. EntryCount \in Nat /\ UpTo(0) = 0 /\ UpdateAt \in SUBSET (1..EntryCount)
    BY <2>1, DocumentFacts, UpToFacts
  <2>3. qpayload' = <<>> /\ Len(qpayload') = 0
    BY <2>1, EmptySeq DEF PayloadListed
  <2>4. EntryCount - EntryCount = 0 /\ \A i \in UpdateAt : ~(i <= 0)
    BY <2>2
  <2>5. /\ EntryCount' = EntryCount /\ UpdateAt' = UpdateAt
        /\ \A k : Parsed(k)' = Parsed(k) /\ UpTo(k)' = UpTo(k)
    BY <2>1, SameDocument
  <2> QED
    BY <2>1, <2>2, <2>3, <2>4, <2>5 DEF PayloadListed
<1>2. CASE ValidateEntry /\ EntryAccepted(Head(raw).entry)
  BY <1>2, OneListed
<1>3. CASE CheckList /\ ListAccepted(qpayload, job.doc.flash)
  <2>1. /\ pc = "validate" /\ left = 0 /\ pc' = "metadata" /\ raw' = raw /\ job' = job
        /\ qpayload' = qpayload /\ DisksOnFlash(qpayload, job.doc.flash)
    BY <1>3 DEF CheckList, ListAccepted
  <2>2. /\ EntryCount' = EntryCount /\ UpdateAt' = UpdateAt
        /\ \A k : Parsed(k)' = Parsed(k) /\ UpTo(k)' = UpTo(k)
    BY <2>1, SameDocument
  <2>3. UpdateAt \in SUBSET (1..EntryCount) /\ EntryCount \in Nat
    BY <2>1, DocumentFacts
  <2>4. EntryCount - left = EntryCount /\ \A i \in UpdateAt : i <= EntryCount - left /\ left + i = i
    BY <2>1, <2>3
  <2>5. /\ Len(qpayload) = UpTo(EntryCount)
        /\ \A i \in UpdateAt : qpayload[UpTo(i)] = MetaOf(Parsed(i), raw[i].guid)
    BY <2>1, <2>4 DEF PayloadListed
  <2>6. DisksOnFlash(qpayload, job.doc.flash)'
    BY <2>1
  <2> QED
    BY <2>1, <2>2, <2>5, <2>6 DEF PayloadListed
<1>a. ASSUME pc' \in {"version", "parse"} => pc \in {"version", "parse"},
             pc' = "validate" => pc = "validate" /\ left' = left,
             pc' = "metadata" => pc = "metadata",
             raw' = raw, job' = job, qpayload' = qpayload
      PROVE  PayloadListed'
  <2>1. /\ EntryCount' = EntryCount /\ UpdateAt' = UpdateAt
        /\ \A k : Parsed(k)' = Parsed(k) /\ UpTo(k)' = UpTo(k)
    BY <1>a, SameDocument
  <2>2. pc' \in {"version", "parse"} => qpayload' = <<>>
    BY <1>a DEF PayloadListed
  <2>3. CASE pc' = "validate"
    <3>1. pc = "validate" /\ left' = left
      BY <1>a, <2>3
    <3> QED
      BY <1>a, <2>1, <2>3, <3>1 DEF PayloadListed
  <2>4. CASE pc' = "metadata"
    <3>1. pc = "metadata"
      BY <1>a, <2>4
    <3>2. DisksOnFlash(qpayload, job.doc.flash)'
      BY <1>a, <3>1 DEF PayloadListed
    <3> QED
      BY <1>a, <2>1, <2>4, <3>1, <3>2 DEF PayloadListed
  <2> QED
    BY <2>2, <2>3, <2>4 DEF PayloadListed
<1>4. CASE UNCHANGED vars \/ CheckVersion
  BY <1>4, <1>a DEF vars, memory, CheckVersion, StepFails
<1>5. CASE Start
  BY <1>5, JobsAssumption DEF Start, PayloadListed
<1>6. ASSUME pc' \notin {"version", "parse", "validate", "metadata"}
      PROVE  PayloadListed'
  BY <1>6 DEF PayloadListed
<1> QED
  BY <1>1, <1>2, <1>3, <1>4, <1>5, <1>6
     DEF Next, Progress, ParseXml, ValidateEntry, CheckList, WriteMetadata, SkipIgnored, WriteFfs,
         WriteMetadataFfs, WriteEcFfs, GenerateFv, RemoveFile, RemovalFails, Exit, StepRaises, StepFails,
         GenerateFvFails, Crash

LEMMA MetadataListedStep ==
  IInv /\ Rotation /\ PayloadListed /\ MetadataListed /\ [Next]_vars => MetadataListed'
<1> SUFFICES ASSUME IInv, Rotation, PayloadListed, MetadataListed, [Next]_vars, pc' = "ffs"
             PROVE  MetadataListed'
  BY DEF MetadataListed
<1>1. CASE WriteMetadata
  <2>1. /\ pc = "metadata" /\ metaDat'.entries = SwappedPayload /\ raw' = raw /\ job' = job
    BY <1>1 DEF WriteMetadata, StepFails, NewMetadata
  <2>2. /\ qpayload \in Seq(MetaEntry) /\ Len(qpayload) \in Nat
        /\ DOMAIN qpayload = 1..Len(qpayload) /\ Len(qpayload) = UpTo(EntryCount)
        /\ DisksOnFlash(qpayload, job.doc.flash)
    BY <2>1, LenProperties DEF IInv, TypeOK, PayloadListed
  <2>3. UpdateAt \in SUBSET (1..EntryCount) /\ EntryCount \in Nat
    BY <2>1, DocumentFacts
  <2>4. Len(SwappedPayload) = Len(qpayload)
    BY <2>2 DEF SwappedPayload
  <2>5. ASSUME NEW i \in UpdateAt
        PROVE  /\ SwappedPayload[UpTo(i)].guid = FfsGuid(raw[i].guid)
               /\ SaysOf(SwappedPayload[UpTo(i)], job.doc.entries[i])
    <3> DEFINE q == qpayload[UpTo(i)]
               m == SwappedPayload[UpTo(i)]
               made == MetaOf(Parsed(i), raw[i].guid)
    <3>1. UpTo(i) \in 1..Len(qpayload) /\ i \in 1..EntryCount
      BY <2>1, <2>2, <2>3, UpToFacts
    <3>2. q = made /\ q \in MetaEntry
      BY <2>1, <2>2, <3>1, ElementOfSeq DEF PayloadListed
    <3>3. m = [q EXCEPT !.guid = CSharpFormat(@)]
      BY <2>2, <3>1 DEF SwappedPayload
    <3>4. raw[i].guid.order = "be" /\ raw[i].guid \in Guid /\ EntryAccepted(Parsed(i))
      <4>1. i \in 1..Len(raw)
        BY <2>1, <3>1 DEF Rotation
      <4> QED
        BY <2>1, <3>1, <4>1 DEF Rotation, IInv, Control
    <3>5. q.guid = raw[i].guid
      BY <3>2 DEF MetaOf
    <3>6. /\ m.guid = CSharpFormat(raw[i].guid)
          /\ m.upd = q.upd /\ m.bak = q.bak /\ m.updateType = q.updateType
      BY <3>2, <3>3, <3>5 DEF MetaEntry
    <3>7. m.guid = FfsGuid(raw[i].guid)
      BY <3>4, <3>6 DEF CSharpFormat, FfsGuid, Guid
    <3>8. q.updateType # "FWCLASS_GUID" =>
            job.doc.flash \in FlashOfDisk[q.upd.disk] \cap FlashOfDisk[q.bak.disk]
      BY <2>2, <3>1 DEF DisksOnFlash
    <3>9. job.doc.entries[i] \in RawEntry /\ OperationOf(job.doc.entries[i]) = "UPDATE"
      BY <2>1, DocumentFacts
    <3> HIDE DEF q, m
    <3>10. SaysOf(m, job.doc.entries[i])
      <4>1. EntryAccepted(ParsedEntry(job.doc.entries[i], job.glymur))
        BY <3>4 DEF Parsed
      <4>2. made = MetaOf(ParsedEntry(job.doc.entries[i], job.glymur), raw[i].guid)
        BY DEF Parsed
      <4>3. m.upd = made.upd /\ m.bak = made.bak /\ m.updateType = made.updateType
        BY <3>2, <3>6
      <4> HIDE DEF made
      <4> QED
        BY <3>6, <3>8, <3>9, <4>1, <4>2, <4>3, MetaSays
    <3> QED
      BY <3>7, <3>10 DEF m
  <2>6. /\ EntryCount' = EntryCount /\ UpdateAt' = UpdateAt /\ \A k : UpTo(k)' = UpTo(k)
        /\ \A m, e : SaysOf(m, e)' = SaysOf(m, e)
    BY <2>1, SameDocument DEF SaysOf
  <2> QED
    BY <2>1, <2>2, <2>4, <2>5, <2>6 DEF MetadataListed
<1>a. ASSUME pc = "ffs", metaDat' = metaDat, raw' = raw, job' = job
      PROVE  MetadataListed'
  <2>1. /\ EntryCount' = EntryCount /\ UpdateAt' = UpdateAt /\ \A k : UpTo(k)' = UpTo(k)
        /\ \A m, e : SaysOf(m, e)' = SaysOf(m, e)
    BY <1>a, SameDocument DEF SaysOf
  <2> QED
    BY <1>a, <2>1 DEF MetadataListed
<1>2. CASE SkipIgnored \/ WriteFfs \/ UNCHANGED vars
  BY <1>2, <1>a DEF SkipIgnored, WriteFfs, vars, memory, files
<1> QED
  BY <1>1, <1>2
     DEF Next, Progress, Start, CheckVersion, ParseXml, ValidateEntry, CheckList,
         WriteMetadataFfs, WriteEcFfs, GenerateFv, RemoveFile, RemovalFails, Exit, StepRaises, StepFails,
         GenerateFvFails, Crash

\* The entry the loop over the raw list is at.
LEMMA ItemFacts ==
  ASSUME IInv, Rotation, pc = "ffs", left > 0
  PROVE  LET at == EntryCount - left + 1
         IN /\ EntryCount \in Nat /\ left \in 1..EntryCount /\ at \in 1..EntryCount
            /\ Item = raw[at] /\ Item.entry.op = job.doc.entries[at].op
            /\ Item.entry.bin = job.doc.entries[at].bin
            /\ Item.entry.op \in {"IGNORE", "UPDATE", None}
            /\ UpTo(at - 1) \in Nat /\ at - 1 = EntryCount - left
            /\ UpTo(at) = IF at \in UpdateAt THEN UpTo(at - 1) + 1 ELSE UpTo(at - 1)
            /\ \A i \in UpdateAt : i \in 1..EntryCount
            /\ \A i \in UpdateAt : i <= at - 1 => UpTo(i) \in 1..UpTo(at - 1)
<1> DEFINE at == EntryCount - left + 1
<1>1. EntryCount \in Nat /\ left \in 1..EntryCount /\ Len(raw) = EntryCount
  BY DocumentFacts DEF IInv, TypeOK, Control, Rotation
<1>2. at \in 1..EntryCount /\ at - 1 \in Nat /\ at = (at - 1) + 1 /\ at - 1 = EntryCount - left
  BY <1>1
<1>3. Item = raw[at]
  BY <1>1 DEF Item
<1> HIDE DEF at
<1>4. raw[at].entry = Parsed(at) /\ EntryAccepted(Parsed(at))
  BY <1>2 DEF Rotation
<1>5. Parsed(at).op = job.doc.entries[at].op /\ Parsed(at).bin = job.doc.entries[at].bin
  BY <1>2, DocumentFacts, ParsedFields DEF Parsed
<1>6. Parsed(at).op \in {"IGNORE", "UPDATE", None}
  BY <1>4 DEF EntryAccepted, TypesAccepted, OperationType
<1>7. /\ UpTo(at - 1) \in Nat
      /\ UpTo(at) = IF at \in UpdateAt THEN UpTo(at - 1) + 1 ELSE UpTo(at - 1)
      /\ \A i \in UpdateAt : i <= at - 1 => UpTo(i) \in 1..UpTo(at - 1)
  <2>1. UpTo((at - 1) + 1) = IF (at - 1) + 1 \in UpdateAt THEN UpTo(at - 1) + 1 ELSE UpTo(at - 1)
    BY <1>2, UpToFacts
  <2> QED
    BY <1>2, <2>1, UpToFacts
<1>8. \A i \in UpdateAt : i \in 1..EntryCount
  BY DocumentFacts
<1> QED
  BY <1>1, <1>2, <1>3, <1>4, <1>5, <1>6, <1>7, <1>8 DEF at

LEMMA FilesListedStep ==
  IInv /\ Rotation /\ ListedGuids /\ FilesListed /\ [Next]_vars => FilesListed'
<1> SUFFICES ASSUME IInv, Rotation, ListedGuids, FilesListed, [Next]_vars, pc' = "ffs"
             PROVE  FilesListed'
  BY DEF FilesListed
<1> DEFINE at == EntryCount - left + 1
<1>1. CASE WriteMetadata
  <2>1. /\ pc = "metadata" /\ left' = Len(raw) /\ lsFfs' = lsFfs /\ job' = job
    BY <1>1 DEF WriteMetadata, StepFails
  <2>2. /\ EntryCount' = EntryCount /\ UpdateAt' = UpdateAt /\ \A k : UpTo(k)' = UpTo(k)
    BY <2>1, SameDocument
  <2>3. left' = EntryCount /\ lsFfs = <<>> /\ UpTo(0) = 0
    BY <2>1, UpToFacts DEF Rotation, ListedGuids
  <2>4. EntryCount \in Nat /\ UpdateAt \in SUBSET (1..EntryCount)
    BY <2>1, DocumentFacts
  <2>5. EntryCount - left' = 0 /\ Len(lsFfs') = 0 /\ \A i \in UpdateAt : ~(i <= 0)
    BY <2>1, <2>3, <2>4, EmptySeq
  <2> QED
    BY <2>2, <2>3, <2>5 DEF FilesListed
<1>2. CASE SkipIgnored
  <2>1. /\ pc = "ffs" /\ left > 0 /\ left' = left - 1 /\ Item.entry.op = "IGNORE"
        /\ raw' = raw /\ job' = job /\ lsFfs' = lsFfs /\ ffsFile' = ffsFile
    BY <1>2 DEF SkipIgnored, files
  <2>2. /\ EntryCount' = EntryCount /\ UpdateAt' = UpdateAt /\ \A k : UpTo(k)' = UpTo(k)
        /\ NamesDistinct' = NamesDistinct
    BY <2>1, SameDocument DEF NamesDistinct
  <2>3. /\ EntryCount \in Nat /\ left \in 1..EntryCount /\ at \in 1..EntryCount
        /\ Item.entry.op = job.doc.entries[at].op /\ at - 1 = EntryCount - left
        /\ UpTo(at) = IF at \in UpdateAt THEN UpTo(at - 1) + 1 ELSE UpTo(at - 1)
        /\ \A i \in UpdateAt : i \in 1..EntryCount
    BY <2>1, ItemFacts
  <2>4. at \notin UpdateAt
    <3>1. OperationOf(job.doc.entries[at]) # "UPDATE"
      BY <2>1, <2>3, AbsentTags DEF OperationOf, OperationType
    <3> QED
      BY <3>1 DEF UpdateAt
  <2>5. EntryCount - left' = at /\ \A i \in UpdateAt : i <= at => i <= at - 1
    BY <2>1, <2>3, <2>4
  <2> HIDE DEF at
  <2> QED
    BY <2>1, <2>2, <2>3, <2>4, <2>5 DEF FilesListed
<1>3. CASE WriteFfs
  <2> DEFINE name == FfsNameFor(Item.entry)
             image == [run |-> runs, guid |-> FfsGuid(Item.guid),
                       payload |-> [dir |-> DirPath(Item.entry), bin |-> Item.entry.bin]]
  <2>1. /\ pc = "ffs" /\ left > 0 /\ left' = left - 1 /\ Item.entry.op # "IGNORE"
        /\ CanWrap(Item.entry) /\ raw' = raw /\ job' = job
        /\ lsFfs' = Append(lsFfs, name) /\ ffsFile' = [ffsFile EXCEPT ![name] = image]
    BY <1>3 DEF WriteFfs, StepFails
  <2>2. name \in FfsName
    BY <2>1, ItemType, FfsNameForType DEF IInv, TypeOK, Control
  <2>3. /\ EntryCount' = EntryCount /\ UpdateAt' = UpdateAt /\ \A k : UpTo(k)' = UpTo(k)
    BY <2>1, SameDocument
  <2>4. /\ EntryCount \in Nat /\ left \in 1..EntryCount /\ at \in 1..EntryCount
        /\ Item = raw[at] /\ Item.entry.op = job.doc.entries[at].op
        /\ Item.entry.bin = job.doc.entries[at].bin
        /\ Item.entry.op \in {"IGNORE", "UPDATE", None} /\ at - 1 = EntryCount - left
        /\ UpTo(at - 1) \in Nat
        /\ UpTo(at) = IF at \in UpdateAt THEN UpTo(at - 1) + 1 ELSE UpTo(at - 1)
        /\ \A i \in UpdateAt : i \in 1..EntryCount
        /\ \A i \in UpdateAt : i <= at - 1 => UpTo(i) \in 1..UpTo(at - 1)
    BY <2>1, ItemFacts
  <2>5. at \in UpdateAt
    <3>1. Item.entry.op = "UPDATE"
      BY <2>1, <2>4 DEF CanWrap
    <3>2. OperationOf(job.doc.entries[at]) = "UPDATE"
      BY <2>4, <3>1, AbsentTags DEF OperationOf, OperationType
    <3> QED
      BY <2>1, <2>4, <3>2, DocumentFacts
  <2>6. EntryCount - left' = at /\ \A i \in UpdateAt : i <= at /\ i # at => i <= at - 1
    BY <2>1, <2>4
  <2>7. image.guid = FfsGuid(raw[at].guid) /\ image.payload.bin = job.doc.entries[at].bin
    BY <2>4
  <2> HIDE DEF at, name, image
  <2>8. /\ Len(lsFfs) \in Nat /\ Len(lsFfs') = Len(lsFfs) + 1
        /\ lsFfs'[Len(lsFfs) + 1] = name /\ ffsFile'[name] = image
        /\ \A k \in 1..Len(lsFfs) : /\ lsFfs'[k] = lsFfs[k]
                                    /\ lsFfs[k] # name => ffsFile'[lsFfs[k]] = ffsFile[lsFfs[k]]
        /\ NamesDistinct' => NamesDistinct /\ \A k \in 1..Len(lsFfs) : lsFfs[k] # name
    BY <2>1, <2>2, OneMoreFfs DEF IInv, TypeOK
  <2>9. Len(lsFfs) = UpTo(at - 1)
    BY <2>1, <2>4 DEF FilesListed
  <2>10. ASSUME NamesDistinct', NEW i \in UpdateAt, i <= at
         PROVE  /\ ffsFile'[lsFfs'[UpTo(i)]].guid = FfsGuid(raw[i].guid)
                /\ ffsFile'[lsFfs'[UpTo(i)]].payload.bin = job.doc.entries[i].bin
    <3>1. CASE i = at
      <4>1. ffsFile'[lsFfs'[UpTo(at)]] = image
        BY <2>4, <2>5, <2>8, <2>9
      <4> QED
        BY <2>7, <3>1, <4>1
    <3>2. CASE i # at
      <4>1. i <= at - 1
        BY <2>6, <2>10, <3>2
      <4>2. UpTo(i) \in 1..Len(lsFfs)
        BY <2>4, <2>9, <4>1
      <4>3. ffsFile'[lsFfs'[UpTo(i)]] = ffsFile[lsFfs[UpTo(i)]]
        BY <2>8, <2>10, <4>2
      <4> QED
        BY <2>1, <2>4, <2>8, <2>10, <4>1, <4>3 DEF FilesListed
    <3> QED
      BY <3>1, <3>2
  <2>11. Len(lsFfs') = UpTo(at)
    BY <2>4, <2>5, <2>8, <2>9
  <2> QED
    BY <2>1, <2>3, <2>6, <2>10, <2>11 DEF FilesListed
<1>4. CASE UNCHANGED vars
  <2>1. pc = "ffs" /\ left' = left /\ raw' = raw /\ job' = job /\ lsFfs' = lsFfs /\ ffsFile' = ffsFile
    BY <1>4 DEF vars, memory, files
  <2>2. /\ EntryCount' = EntryCount /\ UpdateAt' = UpdateAt /\ \A k : UpTo(k)' = UpTo(k)
        /\ NamesDistinct' = NamesDistinct
    BY <2>1, SameDocument DEF NamesDistinct
  <2> QED
    BY <2>1, <2>2 DEF FilesListed
<1> QED
  BY <1>1, <1>2, <1>3, <1>4
     DEF Next, Progress, Start, CheckVersion, ParseXml, ValidateEntry, CheckList,
         WriteMetadataFfs, WriteEcFfs, GenerateFv, RemoveFile, RemovalFails, Exit, StepRaises, StepFails,
         GenerateFvFails, Crash

LEMMA VolumeListedStep ==
  IInv /\ CompleteGuids /\ MetadataListed /\ FilesListed /\ VolumeListed /\ [Next]_vars
    => VolumeListed'
<1> SUFFICES ASSUME IInv, CompleteGuids, MetadataListed, FilesListed, VolumeListed, [Next]_vars,
                    pc' = "fv"
             PROVE  VolumeListed'
  BY DEF VolumeListed
<1>1. CASE WriteMetadataFfs
  <2> DEFINE image == [run |-> runs, guid |-> MetadataGuid, payload |-> metaDat]
             n == Len(lsFfs)
  <2>1. /\ pc = "ffs" /\ left = 0 /\ raw' = raw /\ job' = job
        /\ lsFfs' = Append(lsFfs, MetadataFfs)
        /\ ffsFile' = [ffsFile EXCEPT ![MetadataFfs] = image]
    BY <1>1 DEF WriteMetadataFfs
  <2>2. MetadataFfs \in FfsName /\ image.payload.entries = metaDat.entries
    BY FfsConstants
  <2>3. /\ EntryCount \in Nat /\ UpdateAt \in SUBSET (1..EntryCount)
        /\ EntryCount - left = EntryCount /\ \A i \in UpdateAt : i <= EntryCount
    BY <2>1, DocumentFacts
  <2>4. UpTo(EntryCount) = Cardinality(UpdateAt)
    BY <2>1, UpToFacts
  <2>5. /\ Cardinality(UpdateAt) \in Nat /\ DOMAIN Updates = 1..Cardinality(UpdateAt)
        /\ \A k \in 1..Cardinality(UpdateAt) :
             \E i \in UpdateAt : UpTo(i) = k /\ Updates[k] = job.doc.entries[i]
    BY <2>1, UpdatesFacts
  <2>6. Len(Updates) = Cardinality(UpdateAt)
    BY <2>1, UpdatesFacts
  <2>7. /\ UpdateAt' = UpdateAt /\ Updates' = Updates
        /\ \A m, e : SaysOf(m, e)' = SaysOf(m, e)
    BY <2>1, SameDocument DEF SaysOf, Updates
  <2>8. /\ n = Cardinality(UpdateAt) /\ Len(metaDat.entries) = Cardinality(UpdateAt)
        /\ \A i \in UpdateAt : /\ metaDat.entries[UpTo(i)].guid = FfsGuid(raw[i].guid)
                               /\ SaysOf(metaDat.entries[UpTo(i)], job.doc.entries[i])
    BY <2>1, <2>3, <2>4 DEF FilesListed, MetadataListed
  <2>9. NamesDistinct => \A i \in UpdateAt :
          /\ ffsFile[lsFfs[UpTo(i)]].guid = FfsGuid(raw[i].guid)
          /\ ffsFile[lsFfs[UpTo(i)]].payload.bin = job.doc.entries[i].bin
    BY <2>1, <2>3 DEF FilesListed
  <2> HIDE DEF image
  <2>10. /\ n \in Nat /\ Len(lsFfs') = n + 1
         /\ lsFfs'[n + 1] = MetadataFfs /\ ffsFile'[MetadataFfs] = image
         /\ \A k \in 1..n : /\ lsFfs'[k] = lsFfs[k]
                            /\ lsFfs[k] # MetadataFfs => ffsFile'[lsFfs[k]] = ffsFile[lsFfs[k]]
         /\ NamesDistinct' => NamesDistinct /\ \A k \in 1..n : lsFfs[k] # MetadataFfs
    BY <2>1, <2>2, OneMoreFfs DEF IInv, TypeOK
  <2>11. ffsFile'[lsFfs'[Len(lsFfs')]].payload.entries = metaDat.entries
    BY <2>2, <2>10
  <2>12. ASSUME NamesDistinct', NEW k \in 1..n
         PROVE  /\ ffsFile'[lsFfs'[k]].guid = metaDat.entries[k].guid
                /\ ffsFile'[lsFfs'[k]].payload.bin = Updates[k].bin
                /\ SaysOf(metaDat.entries[k], Updates[k])
    <3>1. PICK i \in UpdateAt : UpTo(i) = k /\ Updates[k] = job.doc.entries[i]
      BY <2>5, <2>8
    <3>2. ffsFile'[lsFfs'[k]] = ffsFile[lsFfs[k]]
      BY <2>10, <2>12
    <3> QED
      BY <2>8, <2>9, <2>10, <2>12, <3>1, <3>2
  <2>13. DOMAIN Updates = 1..n /\ Len(Updates) = n /\ Len(metaDat.entries) = n
    BY <2>5, <2>6, <2>8
  <2> HIDE DEF n
  <2> QED
    BY <2>7, <2>10, <2>11, <2>12, <2>13 DEF VolumeListed
<1>2. CASE WriteEcFfs
  BY <1>2 DEF WriteEcFfs, CompleteGuids, VolumeListed
<1>3. CASE UNCHANGED vars
  <2>1. pc = "fv" /\ ok' = ok /\ job' = job /\ lsFfs' = lsFfs /\ ffsFile' = ffsFile
    BY <1>3 DEF vars, memory, files
  <2>2. /\ UpdateAt' = UpdateAt /\ Updates' = Updates /\ NamesDistinct' = NamesDistinct
        /\ \A m, e : SaysOf(m, e)' = SaysOf(m, e)
    BY <2>1, SameDocument DEF SaysOf, Updates, NamesDistinct
  <2> QED
    BY <2>1, <2>2 DEF VolumeListed
<1>4. ASSUME ok' = FALSE
      PROVE  VolumeListed'
  BY <1>4 DEF VolumeListed
<1> QED
  BY <1>1, <1>2, <1>3, <1>4
     DEF Next, Progress, Start, CheckVersion, ParseXml, ValidateEntry, CheckList, WriteMetadata,
         SkipIgnored, WriteFfs, GenerateFv, RemoveFile, RemovalFails, Exit, StepRaises, StepFails,
         GenerateFvFails, Crash

\* What the volume is assembled from is what it has.
LEMMA Assembled ==
  ASSUME IInv, VolumeListed, GenerateFv
  PROVE  PackedPairs' /\ DevicePathsAsWritten'
<1>1. /\ pc = "fv" /\ lsFfs' = lsFfs /\ job' = job /\ ok' = ok
      /\ fvFile'.images = [k \in DOMAIN lsFfs |-> ffsFile[lsFfs[k]]]
  BY DEF GenerateFv
<1>2. /\ UpdateAt' = UpdateAt /\ Updates' = Updates /\ NamesDistinct' = NamesDistinct
      /\ EntryCount \in Nat /\ UpdateAt \in SUBSET (1..EntryCount)
  BY <1>1, SameDocument, DocumentFacts DEF Updates, NamesDistinct
<1>3. SUFFICES ASSUME ok, job.type = "SYS_FW", NamesDistinct
               PROVE  PackedPairs' /\ DevicePathsAsWritten'
  BY <1>1, <1>2 DEF PackedPairs, DevicePathsAsWritten, CompleteSysFw
<1> DEFINE n == Len(Updates)
           entries == ffsFile[lsFfs[Len(lsFfs)]].payload.entries
<1>4. /\ n \in Nat /\ DOMAIN Updates = 1..n
  BY <1>1, UpdatesFacts
<1>5. /\ Len(lsFfs) = n + 1 /\ Len(entries) = n
      /\ \A k \in 1..n : /\ ffsFile[lsFfs[k]].guid = entries[k].guid
                         /\ ffsFile[lsFfs[k]].payload.bin = Updates[k].bin
                         /\ SaysOf(entries[k], Updates[k])
  BY <1>1, <1>3, <1>4 DEF VolumeListed
<1>6. lsFfs \in Seq(FfsName) /\ DOMAIN lsFfs = 1..Len(lsFfs)
  BY LenProperties DEF IInv, TypeOK
<1> HIDE DEF n
<1>7. /\ Len(fvFile'.images) = n + 1
      /\ \A k \in 1..n : fvFile'.images[k] = ffsFile[lsFfs[k]]
      /\ fvFile'.images[n + 1] = ffsFile[lsFfs[n + 1]]
  BY <1>1, <1>4, <1>5, <1>6
<1>8. PackedMetadata'.entries = entries
  BY <1>5, <1>7 DEF PackedMetadata
<1> HIDE DEF entries
<1>9. PackedPairs'
  BY <1>2, <1>4, <1>5, <1>7, <1>8 DEF PackedPairs, SaysOf, n
<1>10. DevicePathsAsWritten'
  BY <1>1, <1>2, <1>4, <1>5, <1>8 DEF DevicePathsAsWritten, SaysOf
<1> QED
  BY <1>9, <1>10

LEMMA PackedStep ==
  IInv /\ VolumeListed /\ PackedPairs /\ DevicePathsAsWritten /\ [Next]_vars
    => PackedPairs' /\ DevicePathsAsWritten'
<1> SUFFICES ASSUME IInv, VolumeListed, PackedPairs, DevicePathsAsWritten, [Next]_vars
             PROVE  PackedPairs' /\ DevicePathsAsWritten'
  OBVIOUS
<1>a. ASSUME UNCHANGED <<fvFile, job, ok, lsFfs, report>>
      PROVE  PackedPairs' /\ DevicePathsAsWritten'
  <2>1. /\ CompleteSysFw' = CompleteSysFw /\ NamesDistinct' = NamesDistinct
        /\ UpdateAt' = UpdateAt /\ Updates' = Updates /\ PackedMetadata' = PackedMetadata
    BY <1>a DEF CompleteSysFw, Published, NamesDistinct, UpdateAt, Updates, PackedMetadata
  <2> QED
    BY <1>a, <2>1 DEF PackedPairs, DevicePathsAsWritten
<1>1. CASE GenerateFv
  BY <1>1, Assembled
<1>2. CASE Crash
  <2>1. CASE pc = "fv"
    <3>1. report' = "none"
      BY <1>2, <2>1 DEF Crash, IInv, Control
    <3> QED
      BY <3>1 DEF PackedPairs, DevicePathsAsWritten, CompleteSysFw, Published
  <2>2. CASE pc # "fv"
    <3>1. fvFile' = fvFile
      BY <1>2, <2>2 DEF Crash, WriteCutShort, files
    <3> QED
      BY <1>2, <1>a, <3>1 DEF Crash, memory
  <2> QED
    BY <2>1, <2>2
<1>3. CASE UNCHANGED vars
  BY <1>3, <1>a DEF vars, memory, files
<1>4. CASE RemoveFile \/ RemovalFails \/ Exit
  BY <1>4, <1>a DEF RemoveFile, RemovalFails, Exit, memory, files
<1>5. ASSUME report' # "created"
      PROVE  PackedPairs' /\ DevicePathsAsWritten'
  BY <1>5 DEF PackedPairs, DevicePathsAsWritten, CompleteSysFw, Published
<1>6. ASSUME pc \notin {"idle", "cleanup"}, report' = report
      PROVE  PackedPairs' /\ DevicePathsAsWritten'
  BY <1>6, <1>5 DEF IInv, Control
<1> QED
  BY <1>1, <1>2, <1>3, <1>4, <1>5, <1>6
     DEF Next, Progress, Start, CheckVersion, ParseXml, ValidateEntry, CheckList, WriteMetadata,
         SkipIgnored, WriteFfs, WriteMetadataFfs, WriteEcFfs, StepRaises, GenerateFvFails

LEMMA PackInvariance == Spec => [](GuidInv /\ PackInv)
<1>1. Init => GuidInv /\ PackInv
  BY DEF Init, GuidInv, OwnGuids, ListedGuids, CompleteGuids, GuidsDistinct, CompleteSysFw,
         Published, PackInv, Rotation, PayloadListed, MetadataListed, FilesListed, VolumeListed,
         PackedPairs, DevicePathsAsWritten
<1>2. IInv /\ GuidInv /\ PackInv /\ [Next]_vars => (GuidInv /\ PackInv)'
  BY OwnGuidsStep, ListedGuidsStep, CompleteGuidsStep, GuidsDistinctStep, RotationStep,
     PayloadListedStep, MetadataListedStep, FilesListedStep, VolumeListedStep, PackedStep
     DEF GuidInv, PackInv
<1> QED
  BY <1>1, <1>2, Invariance, PTL DEF Spec

\* The k-th file of a complete volume has the GUID of the k-th metadata entry
\* and the binary of the k-th update of the document, whatever mix of ignored
\* entries the rotation went through (fw_entry_list_validation_main,
\* generate_sys_fw_ffs_list, generate_fv).
THEOREM VolumePairs == Spec => []PackedPairs
<1>1. GuidInv /\ PackInv => PackedPairs
  BY DEF PackInv
<1> QED
  BY <1>1, PackInvariance, PTL

\* The device paths in the packed metadata are those of the document, on disks
\* of its flash type: a zero default stands for no tag of an accepted partition
\* update but a type GUID of nothing but braces, which is not None for
\* partition_fields_checking (fw_entry_fields_value_checking,
\* fw_entry_list_validation_main).
THEOREM DevicePathsKept == Spec => []DevicePathsAsWritten
<1>1. GuidInv /\ PackInv => DevicePathsAsWritten
  BY DEF PackInv
<1> QED
  BY <1>1, PackInvariance, PTL
=============================================================================
