------------------------------ MODULE FvCreate ------------------------------
(***************************************************************************)
(* fv-create (FVCreation.py, fv_builder.py): runs of the tool in one       *)
(* working directory.  A run validates the XML, writes Metadata.dat, wraps *)
(* each binary and the metadata in an FFS file, assembles the FFS files    *)
(* into the firmware volume and removes the intermediates.  A run may fail *)
(* at any write, and may be killed at any step, with the file it is        *)
(* writing left torn; the next run starts over what is left.               *)
(*                                                                         *)
(* An FFS file is its GUID and its payload; a file carries in `run' the    *)
(* run that wrote it, which no step of the code reads.                     *)
(***************************************************************************)
EXTENDS FwEntryValidation, Places

CONSTANTS FfsName,      \* names an FFS file can get
          MetadataFfs,  \* Metadata.ffs
          EcFfs,        \* EC_FW.ffs
          StemOf,       \* binary -> its name without extension, with .ffs
          Renamed,      \* FFS name -> partition -> the name with the suffix
          MetadataGuid, \* FILE_GUID_METADATA_GUID
          EcGuid,       \* EC_FW_FFS_FILE_GUID
          EcFirmware,   \* the content of the EC firmware binary
          Torn,         \* the content of a file whose write was cut short
          Jobs,         \* the invocations of the tool
          MaxRuns       \* bound: invocations in one behaviour

ASSUME FfsConstants ==
  /\ {MetadataFfs, EcFfs} \subseteq FfsName
  /\ "Metadata.dat" \notin FfsName
  /\ StemOf \in [Binary -> FfsName]
  /\ Renamed \in [FfsName -> [Part -> FfsName]]
  /\ MaxRuns \in Nat
  /\ MetadataGuid # EcGuid

(***************************************************************************)
(* An invocation.  `version' is the SYSFW_VERSION.bin it is given: whether *)
(* the revision is the expected one, what its signature and its CRC are,   *)
(* and the two version words.  `found' tells the binaries each directory   *)
(* holds, `paths' the search paths of the command line.                    *)
(***************************************************************************)
VersionFile == [revisionOk : BOOLEAN,
                signature  : {"good", "ascii", "non_ascii"},
                crc        : {"good", "bad", "past_end"},
                fw         : Nat,
                lowest     : Nat]

Job == [type    : {"SYS_FW", "EC_FW"},
        glymur  : BOOLEAN,
        version : VersionFile \cup {None},
        doc     : XmlDoc,
        paths   : Seq(Dir),
        found   : [Dir -> SUBSET Binary]]

ASSUME JobsAssumption == Jobs \subseteq Job

\* The two well-known GUIDs are not values uuid4 returns.
ASSUME WellKnownGuids == {MetadataGuid, EcGuid} \cap Guid = {}

VARIABLES pc,        \* the step The_Main is at; "idle" between runs
          job,       \* the invocation that is running
          runs,      \* how many invocations were started
          raw,       \* XmlRawFwEntryList with the GUID given to each entry
          qpayload,  \* QpayloadFwEntryList
          left,      \* iterations the current loop still has
          lsFfs,     \* ls_ffs
          ok,        \* what process_*_ffs_creation returned
          nextGuid,  \* the next uuid4 value
          toRemove,  \* what remove_files still has to delete
          kept,      \* the files its error lines name: they could not be deleted
          report,    \* the last line the run printed
          metaDat,   \* Metadata.dat
          ffsFile,   \* the FFS files of the directory
          fvFile     \* the output file

memory == <<raw, qpayload, left, lsFfs, ok, toRemove, kept>>
files  == <<metaDat, ffsFile, fvFile>>
vars   == <<pc, job, runs, memory, nextGuid, report, files>>

\* Metadata.dat: the header's version words and revision, and the entries.
MetaFile == [run : Nat, fw : Nat, lowest : Nat, revision : {"V3", "V5"}, entries : Seq(MetaEntry)]

Payload == [dir : Dir, bin : Binary] \cup MetaFile \cup {EcFirmware}

FfsImage == [run : Nat, guid : Guid \cup {MetadataGuid, EcGuid}, payload : Payload]
FvImage  == [run : Nat, images : Seq(FfsImage \cup {Torn})]

\* No file and no invocation is the value that stands for a torn one or none.
ASSUME NotContents ==
  /\ Torn # None /\ None \notin Nat
  /\ {Torn, None} \cap (MetaFile \cup FfsImage \cup FvImage \cup Job) = {}

Pc == {"idle", "version", "parse", "validate", "metadata", "ffs", "ec", "fv", "cleanup"}

\* An element of XmlRawFwEntryList: the parsed entry and its FileGuid.
RawItem == [entry : RawEntry, guid : Guid \cup {None}]

\* uuid4 in the byte order of uuid.bytes, and c_sharp_guid_format on it.
OneGuidForAll == [id |-> 0, order |-> "be"]  \* slip: a GUID made once
FreshGuid == [id |-> nextGuid, order |-> "be"]

CSharpFormatUnswapped(guid) == guid          \* slip: the bytes left as they are
CSharpFormat(guid) == [guid EXCEPT !.order = IF @ = "be" THEN "le" ELSE "be"]

\* build_raw_ffs parses the GUID text and stores bytes_le.
FfsGuid(guid) == [guid EXCEPT !.order = "le"]

-----------------------------------------------------------------------------
TypeOK ==
  /\ pc \in Pc
  /\ job \in Jobs \cup {None}
  /\ runs \in 0..MaxRuns
  /\ raw \in Seq(RawItem)
  /\ qpayload \in Seq(MetaEntry)
  /\ left \in Nat
  /\ lsFfs \in Seq(FfsName)
  /\ ok \in BOOLEAN
  /\ nextGuid \in Nat
  /\ toRemove \in Seq(FfsName \cup {"Metadata.dat"})
  /\ kept \subseteq FfsName \cup {"Metadata.dat"}
  /\ report \in {"none", "created", "failed"}
  /\ metaDat \in MetaFile \cup {None, Torn}
  /\ ffsFile \in [FfsName -> FfsImage \cup {None, Torn}]
  /\ fvFile \in FvImage \cup {None, Torn}

Init ==
  /\ pc = "idle"
  /\ job = None
  /\ runs = 0
  /\ raw = <<>> /\ qpayload = <<>> /\ left = 0 /\ lsFfs = <<>> /\ ok = TRUE
  /\ toRemove = <<>> /\ kept = {}
  /\ nextGuid = 0
  /\ report = "none"
  /\ metaDat = None
  /\ ffsFile = [f \in FfsName |-> None]
  /\ fvFile = None

\* The_Main is invoked: a new process, empty lists.
Start ==
  /\ pc = "idle" /\ runs < MaxRuns
  /\ \E j \in Jobs :
       /\ job' = j
       /\ pc' = IF j.type = "SYS_FW" THEN "version" ELSE "ec"
  /\ runs' = runs + 1
  /\ raw' = <<>> /\ qpayload' = <<>> /\ left' = 0 /\ lsFfs' = <<>> /\ ok' = TRUE
  /\ toRemove' = <<>> /\ kept' = {}
  /\ report' = "none"
  /\ UNCHANGED <<nextGuid, files>>

\* A step of process_*_ffs_creation returns False or raises: The_Main prints
\* it and goes on to generate_fv with the FFS files it has.
StepFails == /\ pc' = "fv"
             /\ ok' = FALSE

-----------------------------------------------------------------------------
(* process_sys_fw_ffs_creation.                                             *)

\* validate_sys_fw_ver_binary_file: decoding a signature that is not ASCII,
\* or summing past the end of the structure, raises into an except clause
\* that leaves b_return as it was, so the checks that follow are skipped.
VersionAccepted(v) ==
  /\ v # None
  /\ v.revisionOk
  /\ \/ v.signature = "non_ascii"
     \/ v.signature = "good" /\ v.crc \in {"good", "past_end"}

CheckVersion ==
  /\ pc = "version"
  /\ IF VersionAccepted(job.version)
     THEN pc' = "parse" /\ UNCHANGED ok
     ELSE StepFails
  /\ UNCHANGED <<job, runs, raw, qpayload, left, lsFfs, toRemove, kept, nextGuid, report, files>>

ParseXml ==
  /\ pc = "parse"
  /\ IF XmlAccepted(job.doc)
     THEN /\ raw' = [k \in DOMAIN job.doc.entries |->
                       [entry |-> ParsedEntry(job.doc.entries[k], job.glymur), guid |-> None]]
          /\ left' = Len(job.doc.entries)
          /\ pc' = "validate"
          /\ UNCHANGED ok
     ELSE StepFails /\ UNCHANGED <<raw, left>>
  /\ UNCHANGED <<job, runs, qpayload, lsFfs, toRemove, kept, nextGuid, report, files>>

\* One turn of the loop of fw_entry_list_validation_main: popleft, check,
\* give a GUID, append to the payload list and back to the raw list.
ValidateEntry ==
  /\ pc = "validate" /\ left > 0
  /\ LET e == Head(raw).entry
     IN IF EntryAccepted(e)
        THEN /\ raw' = Append(Tail(raw), [entry |-> e, guid |-> FreshGuid])
             /\ qpayload' = IF OperationOf(e) = "IGNORE" THEN qpayload
                            ELSE Append(qpayload, MetaOf(e, FreshGuid))
             /\ nextGuid' = nextGuid + 1
             /\ left' = left - 1
             /\ UNCHANGED <<pc, ok>>
        ELSE /\ StepFails
             /\ raw' = Tail(raw)
             /\ UNCHANGED <<qpayload, nextGuid, left>>
  /\ UNCHANGED <<job, runs, lsFfs, toRemove, kept, report, files>>

CheckList ==
  /\ pc = "validate" /\ left = 0
  /\ IF ListAccepted(qpayload, job.doc.flash)
     THEN pc' = "metadata" /\ UNCHANGED ok
     ELSE StepFails
  /\ UNCHANGED <<job, runs, raw, qpayload, left, lsFfs, toRemove, kept, nextGuid, report, files>>

\* The metadata file that is written, with the GUIDs of the payload list in
\* their new byte order.  (Slip: one that exists is kept.)
SwappedPayload == [k \in DOMAIN qpayload |-> [qpayload[k] EXCEPT !.guid = CSharpFormat(@)]]

KeptMetadata ==
  IF metaDat \notin {None, Torn} THEN metaDat
  ELSE [run |-> runs, fw |-> job.version.fw, lowest |-> job.version.lowest,
        revision |-> IF job.glymur THEN "V5" ELSE "V3", entries |-> SwappedPayload]
NewMetadata ==
  [run |-> runs, fw |-> job.version.fw, lowest |-> job.version.lowest,
   revision |-> IF job.glymur THEN "V5" ELSE "V3", entries |-> SwappedPayload]

\* generate_sys_fw_meta_data_file.
WriteMetadata ==
  /\ pc = "metadata"
  /\ IF job.version.fw < job.version.lowest
     THEN StepFails /\ UNCHANGED <<qpayload, metaDat, left>>
     ELSE /\ metaDat' = NewMetadata
          /\ qpayload' = SwappedPayload
          /\ left' = Len(raw)
          /\ pc' = "ffs"
          /\ UNCHANGED ok
  /\ UNCHANGED <<job, runs, raw, lsFfs, toRemove, kept, nextGuid, report, ffsFile, fvFile>>

-----------------------------------------------------------------------------
(* generate_sys_fw_ffs_list.                                                *)

\* get_dir_path: the entry's own InputPath, then the search paths in order.
SearchDirs(e) == <<e.inPath>> \o job.paths
HasBinary(e, k) == e.bin \in job.found[SearchDirs(e)[k]]
FirstHit(e) == {k \in 1..Len(SearchDirs(e)) :
                  HasBinary(e, k) /\ \A l \in 1..(k - 1) : ~HasBinary(e, l)}
DirPath(e)  == SearchDirs(e)[CHOOSE k \in FirstHit(e) : TRUE]

Used(name) == \E k \in DOMAIN lsFfs : lsFfs[k] = name

\* The name of the FFS file: suffixed, once, when the name is in the list.
FfsNameFor(e) == LET stem == StemOf[e.bin]
                 IN IF Used(stem) THEN Renamed[stem][e.upd.part] ELSE stem

\* Operation.lower() on an empty tag and rfind on an empty InputBinary raise,
\* and so does lower() on a partition name that is absent when renaming.
CanWrap(e) == /\ e.op # None
              /\ e.bin # None
              /\ FirstHit(e) # {}
              /\ Used(StemOf[e.bin]) => e.upd.part # None

Item == raw[Len(raw) - left + 1]

SkipIgnoredForever ==  \* slip: the element is not taken off
  pc = "ffs" /\ left > 0 /\ Item.entry.op = "IGNORE" /\ UNCHANGED vars

SkipIgnored ==
  /\ pc = "ffs" /\ left > 0
  /\ Item.entry.op = "IGNORE"
  /\ left' = left - 1
  /\ UNCHANGED <<pc, job, runs, raw, qpayload, lsFfs, ok, toRemove, kept, nextGuid, report, files>>

WriteFfs ==
  /\ pc = "ffs" /\ left > 0
  /\ Item.entry.op # "IGNORE"
  /\ IF CanWrap(Item.entry)
     THEN LET name == FfsNameFor(Item.entry)
          IN /\ ffsFile' = [ffsFile EXCEPT ![name] =
                              [run |-> runs, guid |-> FfsGuid(Item.guid),
                               payload |-> [dir |-> DirPath(Item.entry),
                                            bin |-> Item.entry.bin]]]
             /\ lsFfs' = Append(lsFfs, name)
             /\ left' = left - 1
             /\ UNCHANGED <<pc, ok>>
     ELSE StepFails /\ UNCHANGED <<ffsFile, lsFfs, left>>
  /\ UNCHANGED <<job, runs, raw, qpayload, toRemove, kept, nextGuid, report, metaDat, fvFile>>

\* The metadata is wrapped last; then every name of ls_ffs must exist.
WriteMetadataFfs ==
  /\ pc = "ffs" /\ left = 0
  /\ ffsFile' = [ffsFile EXCEPT ![MetadataFfs] =
                   [run |-> runs, guid |-> MetadataGuid, payload |-> metaDat]]
  /\ lsFfs' = Append(lsFfs, MetadataFfs)
  /\ pc' = "fv"
  /\ ok' = \A k \in DOMAIN lsFfs' : ffsFile'[lsFfs'[k]] # None
  /\ UNCHANGED <<job, runs, raw, qpayload, left, toRemove, kept, nextGuid, report, metaDat, fvFile>>

\* generate_ffs_for_ec_fw.
WriteEcFfs ==
  /\ pc = "ec"
  /\ ffsFile' = [ffsFile EXCEPT ![EcFfs] = [run |-> runs, guid |-> EcGuid, payload |-> EcFirmware]]
  /\ lsFfs' = <<EcFfs>>
  /\ pc' = "fv"
  /\ UNCHANGED <<job, runs, raw, qpayload, left, ok, toRemove, kept, nextGuid, report, metaDat, fvFile>>

-----------------------------------------------------------------------------
(* The end of The_Main.                                                     *)

\* The files the cleanup removes.  (Slips: without the metadata; with files
\* that some other run may have left.)
FfsFilesOnly == lsFfs
WellKnownNamesToo == Append(lsFfs \o <<MetadataFfs, EcFfs>>, "Metadata.dat")
Intermediates == Append(lsFfs, "Metadata.dat")

\* generate_fv: reads the files of ls_ffs in order, then writes the volume.
GenerateFv ==
  /\ pc = "fv"
  /\ fvFile' = [run |-> runs, images |-> [k \in DOMAIN lsFfs |-> ffsFile[lsFfs[k]]]]
  /\ report' = "created"
  /\ toRemove' = Intermediates
  /\ pc' = "cleanup"
  /\ UNCHANGED <<job, runs, raw, qpayload, left, lsFfs, ok, kept, nextGuid, metaDat, ffsFile>>

\* remove_files, one file at a time: a file that is there is deleted, or
\* os.remove raises, the file is named in an error line and the loop goes on.
\* (Slip: the first failure ends the loop.)
RemoveFile ==
  /\ pc = "cleanup" /\ toRemove # <<>>
  /\ IF Head(toRemove) = "Metadata.dat"
     THEN metaDat' = None /\ UNCHANGED ffsFile
     ELSE ffsFile' = [ffsFile EXCEPT ![Head(toRemove)] = None] /\ UNCHANGED metaDat
  /\ toRemove' = Tail(toRemove)
  /\ UNCHANGED <<pc, job, runs, raw, qpayload, left, lsFfs, ok, kept, nextGuid, report, fvFile>>

OnDisk(name) == IF name = "Metadata.dat" THEN metaDat # None ELSE ffsFile[name] # None

RemovalFailsForGood ==
  /\ pc = "cleanup" /\ toRemove # <<>>
  /\ OnDisk(Head(toRemove))
  /\ kept' = kept \cup {Head(toRemove)}
  /\ toRemove' = <<>>
  /\ UNCHANGED <<pc, job, runs, raw, qpayload, left, lsFfs, ok, nextGuid, report, files>>
RemovalFails ==
  /\ pc = "cleanup" /\ toRemove # <<>>
  /\ OnDisk(Head(toRemove))
  /\ kept' = kept \cup {Head(toRemove)}
  /\ toRemove' = Tail(toRemove)
  /\ UNCHANGED <<pc, job, runs, raw, qpayload, left, lsFfs, ok, nextGuid, report, files>>

Exit ==
  /\ pc = "cleanup" /\ toRemove = <<>>
  /\ pc' = "idle"
  /\ UNCHANGED <<job, runs, memory, nextGuid, report, files>>

-----------------------------------------------------------------------------
(* Failures.                                                                *)

\* The state a write that is cut short leaves: nothing written, or the file
\* opened for writing and torn (Metadata.dat is first removed, then opened).
WriteCutShort ==
  \/ UNCHANGED files
  \/ /\ pc = "metadata" /\ job.version.fw >= job.version.lowest
     /\ metaDat' \in {None, Torn}
     /\ UNCHANGED <<ffsFile, fvFile>>
  \/ /\ pc = "ffs" /\ left > 0 /\ Item.entry.op # "IGNORE" /\ CanWrap(Item.entry)
     /\ ffsFile' = [ffsFile EXCEPT ![FfsNameFor(Item.entry)] = Torn]
     /\ UNCHANGED <<metaDat, fvFile>>
  \/ /\ pc = "ffs" /\ left = 0
     /\ ffsFile' = [ffsFile EXCEPT ![MetadataFfs] = Torn]
     /\ UNCHANGED <<metaDat, fvFile>>
  \/ /\ pc = "ec"
     /\ ffsFile' = [ffsFile EXCEPT ![EcFfs] = Torn]
     /\ UNCHANGED <<metaDat, fvFile>>
  \/ /\ pc = "fv"
     /\ fvFile' = Torn
     /\ UNCHANGED <<metaDat, ffsFile>>

\* An OSError in a write: the step fails and The_Main goes on to generate_fv.
StepRaises ==
  /\ \/ pc \in {"metadata", "ec"}
     \/ pc = "ffs" /\ (left > 0 => Item.entry.op # "IGNORE")
  /\ WriteCutShort
  /\ StepFails
  /\ UNCHANGED <<job, runs, raw, qpayload, left, lsFfs, toRemove, kept, nextGuid, report>>

\* An OSError in generate_fv: The_Main returns without the cleanup.
GenerateFvFails ==
  /\ pc = "fv"
  /\ WriteCutShort
  /\ report' = "failed"
  /\ pc' = "idle"
  /\ UNCHANGED <<job, runs, memory, nextGuid>>

\* The process is killed.  So ends, too, a run whose ls_ffs names a torn file:
\* is_large_ffs may index past its end, which generate_fv does not catch.
Crash ==
  /\ pc # "idle"
  /\ WriteCutShort
  /\ pc' = "idle"
  /\ UNCHANGED <<job, runs, memory, nextGuid, report>>

Progress == \/ CheckVersion \/ ParseXml \/ ValidateEntry \/ CheckList \/ WriteMetadata
            \/ SkipIgnored \/ WriteFfs \/ WriteMetadataFfs \/ WriteEcFfs
            \/ GenerateFv \/ RemoveFile \/ RemovalFails \/ Exit
            \/ StepRaises \/ GenerateFvFails

Next == Start \/ Progress \/ Crash

\* A run that was started keeps running: Python has one thread and no wait.
Spec == Init /\ [][Next]_vars /\ WF_vars(Progress)

-----------------------------------------------------------------------------
(* Properties.                                                              *)

Published == report = "created" /\ fvFile \notin {None, Torn}

\* The entries of the document that ask for an update, in document order.
UpdateAt == {i \in DOMAIN job.doc.entries : OperationOf(job.doc.entries[i]) = "UPDATE"}
Updates  == Picked(job.doc.entries, UpdateAt)

\* The metadata of the volume: the payload of its last file.
PackedMetadata == fvFile.images[Len(fvFile.images)].payload

NamesDistinct == \A i, j \in DOMAIN lsFfs : lsFfs[i] = lsFfs[j] => i = j

CompleteSysFw == Published /\ job.type = "SYS_FW" /\ ok

\* A volume reported as created after every step of a SYS_FW run succeeded
\* and no two FFS files shared a name pairs with its metadata: as many entries
\* as files before the metadata, the k-th file has the GUID bytes of the k-th
\* entry and the binary the XML names for the partition of that entry.  The
\* firmware looks images up by GUID, so a slip of the deque rotation, of the
\* GUID byte order or of the skipping of IGNORE entries flashes a wrong image.
PackedPairs ==
  CompleteSysFw /\ NamesDistinct =>
    /\ Len(fvFile.images) = Len(Updates) + 1
    /\ Len(PackedMetadata.entries) = Len(Updates)
    /\ \A k \in DOMAIN Updates :
         /\ fvFile.images[k].guid = PackedMetadata.entries[k].guid
         /\ fvFile.images[k].payload.bin = Updates[k].bin
         /\ PackedMetadata.entries[k].upd.part = Updates[k].upd.part

\* No two files of a volume answer to the same GUID, and every GUID is stored
\* in the UEFI byte order.
GuidsDistinct ==
  CompleteSysFw /\ NamesDistinct =>
    \A i, j \in DOMAIN fvFile.images :
      /\ fvFile.images[i].guid = fvFile.images[j].guid => i = j
      /\ i < Len(fvFile.images) => fvFile.images[i].guid.order = "le"

\* Whatever earlier runs left behind, killed or failed, every file in a volume
\* was wrapped by the run that wrote the volume, and so was the metadata in it.
NothingStalePacked ==
  Published => \A k \in DOMAIN fvFile.images :
    LET image == fvFile.images[k]
    IN image # Torn => /\ image.run = runs
                       /\ image.guid = MetadataGuid => image.payload.run = runs

\* The metadata path m is the path p of the document, of which only a type
\* GUID of nothing but braces is lost.
WrittenAs(m, p) == /\ m.disk = p.disk /\ m.part = p.part
                   /\ p.guid # Braces => m.guid = p.guid

\* The device paths in the packed metadata are the ones the XML spells out:
\* no absent disk, name or type GUID was replaced by its zero value (disk zero
\* is the eMMC user area), and both disks exist on the flash type of the XML.
\* Only a type GUID of nothing but braces, which the completeness check takes
\* for one and the conversion for none, may come out as the zero GUID.
DevicePathsAsWritten ==
  CompleteSysFw /\ NamesDistinct =>
    \A k \in DOMAIN Updates :
      LET m == PackedMetadata.entries[k]
      IN IsPartition(m) => /\ WrittenAs(m.upd, Updates[k].upd)
                           /\ WrittenAs(m.bak, Updates[k].bak)
                           /\ job.doc.flash \in FlashOfDisk[m.upd.disk] \cap FlashOfDisk[m.bak.disk]

\* Cleanup deletes no FFS file that another run left in the directory.
OnlyOwnFfsRemoved ==
  [][\A f \in FfsName :
       ffsFile[f] \notin {None, Torn} /\ ffsFile'[f] = None => ffsFile[f].run = runs]_vars

\* When the cleanup ends, every file ls_ffs names and Metadata.dat is gone or
\* named in an error line of the run: a file that cannot be deleted keeps none
\* of the files behind it, and none stays without a word.
CleanupComplete ==
  pc = "cleanup" /\ toRemove = <<>> =>
    /\ metaDat = None \/ "Metadata.dat" \in kept
    /\ \A k \in DOMAIN lsFfs : ffsFile[lsFfs[k]] = None \/ lsFfs[k] \in kept

\* Every invocation comes to an end.
RunEnds == pc # "idle" ~> pc = "idle"

\* What a packaging step sees of a run: its phase, the version word it was
\* given, and the output file with the version words of the metadata in it.
PhaseSeen   == CASE pc = "idle" -> "idle" [] pc = "cleanup" -> "written" [] OTHER -> "working"
RequestSeen == IF job = None \/ job.version = None THEN None ELSE job.version.fw
FwsIn(fv)   == {fv.images[k].payload.fw : k \in {k \in DOMAIN fv.images :
                  fv.images[k] # Torn /\ fv.images[k].guid = MetadataGuid}}
OutSeen     == IF fvFile \in {None, Torn} THEN fvFile
               ELSE [run |-> fvFile.run, fws |-> FwsIn(fvFile)]

Contract == INSTANCE FvContract
            WITH Absent <- None, Broken <- Torn, phase <- PhaseSeen, run <- runs,
                 request <- RequestSeen, out <- OutSeen, report <- report

\* fv-create implements the contract: through any sequence of failed, killed
\* and completed runs over the same directory, the output file is left as it
\* was, torn, or replaced by a volume of the current run whose metadata, if
\* any, carries the version word of the current run.
ImplementsContract == Contract!ContractSpec

-----------------------------------------------------------------------------
(* The inductive invariant of the proofs.                                   *)

\* What each step of a run finds: the loop bounds, the version file that was
\* accepted, the entries that have their GUID, and metadata of this very run
\* and of the version it was given.
Control ==
  /\ pc # "idle" => job \in Jobs
  /\ pc \in {"parse", "validate", "metadata", "ffs"} => VersionAccepted(job.version)
  /\ pc \in {"validate", "ffs"} => left <= Len(raw)
  /\ pc = "validate" => \A k \in 1..Len(raw) : k > left => raw[k].guid \in Guid
  /\ pc \in {"metadata", "ffs"} => \A k \in 1..Len(raw) : raw[k].guid \in Guid
  /\ pc = "ffs" => metaDat \in MetaFile /\ metaDat.run = runs /\ metaDat.fw = job.version.fw
  /\ pc \notin {"idle", "cleanup"} => report = "none"

\* An FFS file of the current run; the metadata it wraps is of this run too.
OfThisRun(image) ==
  image # Torn => /\ image \in FfsImage
                  /\ image.run = runs
                  /\ image.guid = MetadataGuid => /\ image.payload.run = runs
                                                  /\ job.version # None
                                                  /\ image.payload.fw = job.version.fw

\* Until the cleanup, ls_ffs names files this run wrote; during it, the files
\* still to be removed are this run's or gone.
Owned ==
  /\ pc \notin {"idle", "cleanup"} =>
       \A k \in 1..Len(lsFfs) : OfThisRun(ffsFile[lsFfs[k]])
  /\ pc = "cleanup" =>
       \A k \in 1..Len(toRemove) : toRemove[k] \in FfsName =>
         ffsFile[toRemove[k]] = None \/ OfThisRun(ffsFile[toRemove[k]])

IInv == TypeOK /\ Control /\ Owned /\ NothingStalePacked

-----------------------------------------------------------------------------
(* What the repository says of the program and the program does not do.     *)

\* A volume is not assembled from a partial list of FFS files and reported as
\* created (tests/test_fvcreation_errors.py).
PartialFvNotReported == report = "created" => ok

\* No partition is the update or backup target of two entries, or both the
\* update and the backup target of one (the five cases of the device path
\* exclusive checking).
DevicePathsExclusive ==
  pc = "metadata" =>
    \A i \in DOMAIN qpayload : IsPartition(qpayload[i]) =>
      /\ qpayload[i].upd # qpayload[i].bak
      /\ \A j \in DOMAIN qpayload : i # j /\ IsPartition(qpayload[j]) =>
           {qpayload[i].upd, qpayload[i].bak} \cap {qpayload[j].upd, qpayload[j].bak} = {}

\* A binary that the first search path holds is packed from there: `create'
\* puts the directory of patched copies ahead of -images so that they are
\* picked up in place of the originals (capsule_creator.py).
FirstPathPacked ==
  CompleteSysFw /\ NamesDistinct =>
    \A k \in DOMAIN Updates :
      job.paths # <<>> /\ Updates[k].bin \in job.found[job.paths[1]] =>
        fvFile.images[k].payload.dir = job.paths[1]
=============================================================================
