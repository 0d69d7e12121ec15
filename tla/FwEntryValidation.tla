------------------------- MODULE FwEntryValidation -------------------------
(***************************************************************************)
(* What fv-create accepts of the XML it is given: the parse of the         *)
(* document (XmlParser.py), the checks on one <FwEntry> and the checks on  *)
(* the whole list (XmlFwEntryValidation.py).  A check that returns False   *)
(* and a check that raises end the same way, because                       *)
(* process_sys_fw_ffs_creation catches every exception, so every check is  *)
(* a predicate here: TRUE when the code goes on.                           *)
(*                                                                         *)
(* An empty tag is None (its ElementTree text); a text that no table of    *)
(* the tool knows is Unknown; a type GUID of nothing but braces is Braces. *)
(* <FileName> is absent from the records: the parser never reads it.       *)
(***************************************************************************)
EXTENDS Naturals, Sequences

CONSTANTS Binary,        \* input binaries an entry may name
          Part,          \* partition names
          RefusedPart,   \* the reserved name SYSFW_VERSION and names over 36 characters
          TypeGuid,      \* well-formed partition type GUIDs
          MatchId,       \* match identifiers (at most 36 characters)
          Dir,           \* directories a binary may be found in
          None,          \* an empty tag, an absent file, a value not set
          Unknown        \* a text that no table of the tool knows

\* A type GUID of nothing but braces: not empty, and empty once stripped.
Braces == "{}"

ASSUME EntryConstants ==
  /\ RefusedPart \subseteq Part
  /\ Braces \notin TypeGuid \cup {None, Unknown}
  /\ None \notin Binary \cup Part \cup TypeGuid \cup MatchId \cup Dir
  /\ Unknown \notin Binary \cup Part \cup TypeGuid \cup MatchId \cup Dir
  /\ None # Unknown

FlashType == {"EMMC", "UFS", "NORNVME", "NORUFS"}

EmmcDisk == {"USER_DATA", "BOOT1", "BOOT2", "RPMB", "GPP1", "GPP2", "GPP3", "GPP4"}
UfsDisk  == {"LUN0", "LUN1", "LUN2", "LUN3", "LUN4", "LUN5", "LUN6", "LUN7"}
DiskType == EmmcDisk \cup UfsDisk \cup {"SPINOR", "NVME"}

\* dFlashTypeByDiskType: the flash types whose devices have the disk.
FlashOfDisk ==
  [d \in DiskType |->
     CASE d \in EmmcDisk -> {"EMMC"}
       [] d = "LUN0"     -> {"UFS", "NORUFS"}
       [] d \in UfsDisk \ {"LUN0"} -> {"UFS"}
       [] d = "SPINOR"   -> {"NORNVME", "NORUFS"}
       [] d = "NVME"     -> {"NORNVME"}]

OperationType == {"IGNORE", "UPDATE"}
DppType       == {"DPP_QCOM", "DPP_OEM", "OPM_PRIV_KEY"}
UpdateType    == {"PARTITION", "FAT_FILE", "FWCLASS_GUID"} \cup DppType
BackupType    == {"PARTITION", "FAT_FILE"}
BinaryType    == {"RAW", "FATFS"}

\* An absent tag and an unknown text are no text of the tables.
ASSUME AbsentTags ==
  {None, Unknown} \cap (FlashType \cup DiskType \cup OperationType \cup UpdateType
                        \cup BackupType \cup BinaryType) = {}

(***************************************************************************)
(* An <FwEntry> as parsed and as copied into the payload metadata, where   *)
(* an absent field has the zero value of its type.                         *)
(***************************************************************************)
RawPath == [disk : DiskType \cup {None, Unknown},
            part : Part \cup {None},
            guid : TypeGuid \cup {None, Unknown, Braces}]

Image == [file : Binary \cup {None}, arType : {"set", None, Unknown}]

RawEntry == [op         : OperationType \cup {None, Unknown},
             bin        : Binary \cup {None},
             inPath     : Dir,
             updateType : UpdateType \cup {None, Unknown},
             backupType : BackupType \cup {None, Unknown},
             upd        : RawPath,
             bak        : RawPath,
             match      : MatchId \cup {None, Unknown},
             binType    : BinaryType \cup {None, Unknown},
             images     : Seq(Image)]

MetaPath == [disk : DiskType, part : Part \cup {None}, guid : TypeGuid \cup {None}]

(***************************************************************************)
(* A file GUID is an identity and the byte order it is stored in: "be" is  *)
(* uuid.bytes, "le" the mixed-endian order of UEFI (uuid.bytes_le).        *)
(***************************************************************************)
Guid == [id : Nat, order : {"be", "le"}]

MetaEntry == [guid       : Guid,
              op         : OperationType,
              updateType : UpdateType,
              upd        : MetaPath,
              bak        : MetaPath,
              match      : MatchId \cup {None},
              binType    : BinaryType,
              imageCount : Nat]

\* The document: whether it parses with every tag the parser indexes and a
\* <Metadata> of two children with a numeric BreakingChangeNumber, the
\* <FlashType>, and the entries in order.
XmlDoc == [wellFormed : BOOLEAN,
           flash      : FlashType \cup {None, Unknown},
           entries    : Seq(RawEntry)]

-----------------------------------------------------------------------------
(* The parse.  No <FwEntry> is a KeyError; no <Metadata> leaves             *)
(* DeviceFlashType None, which is a KeyError when the first entry is logged. *)
XmlAccepted(doc) == /\ doc.wellFormed
                    /\ doc.entries # <<>>
                    /\ doc.flash \in FlashType

\* The glymur-only tags are parsed under --glymur alone.
ParsedEntry(e, glymur) ==
  IF glymur THEN e ELSE [e EXCEPT !.match = None, !.binType = None, !.images = <<>>]

EmptyPath == [disk |-> None, part |-> None, guid |-> None]

-----------------------------------------------------------------------------
(* The value checks on one entry: fw_entry_fields_value_checking.           *)
TypesAccepted(e) ==
  /\ e.op \in OperationType \cup {None}
  /\ e.updateType \in (UpdateType \ {"FAT_FILE"}) \cup {None}
  /\ \/ e.backupType = None
     \/ e.backupType = "PARTITION" /\ e.updateType # "FWCLASS_GUID"

\* metadata field BinaryType: RAW is its zero value.
BinaryTypeOf(e) == IF e.binType = None THEN "RAW" ELSE e.binType

\* A third image indexes past ARValidation.Images and raises.
GlymurTagsAccepted(e) ==
  /\ e.match # Unknown
  /\ e.binType # Unknown
  /\ Len(e.images) <= 2
  /\ \A j \in DOMAIN e.images :
       /\ e.images[j].arType = "set"
       /\ BinaryTypeOf(e) = "FATFS" => e.images[j].file # None
       /\ BinaryTypeOf(e) = "RAW"   => e.images[j].file \in {None, e.bin}

\* A type GUID is parsed only when something is left of it without its
\* braces, so Braces is accepted like a well-formed one.
PathAccepted(e, path) ==
  /\ path.disk # Unknown
  /\ path.part \notin RefusedPart
  /\ path.guid # Unknown
  /\ e.updateType = "FWCLASS_GUID" => path = EmptyPath

\* assign_file_guid_for_fw_entry: the DPP types look <FileName> up, which is
\* never parsed, so None.upper() raises for each of them.
GuidAssigned(e) == e.updateType \notin DppType

\* partition_fields_checking looks at the raw tags, where Braces is not None.
Complete(e, path) == e.bin # None /\ path.disk # None /\ path.part # None /\ path.guid # None

CombinationAccepted(e) ==
  \/ e.op \in {"IGNORE", None}
  \/ e.updateType = "FWCLASS_GUID"
  \/ e.updateType \in {"PARTITION", None} /\ Complete(e, e.upd) /\ Complete(e, e.bak)

EntryAccepted(e) == /\ TypesAccepted(e)
                    /\ GlymurTagsAccepted(e)
                    /\ PathAccepted(e, e.upd)
                    /\ PathAccepted(e, e.bak)
                    /\ GuidAssigned(e)
                    /\ CombinationAccepted(e)

-----------------------------------------------------------------------------
(* The metadata entry built beside the checks, with the zero defaults; a    *)
(* type GUID of braces leaves the zero GUID.                                *)
MetaPathUndefaulted(path) == path  \* slip: no zero default

MetaPathOf(path) == [disk |-> IF path.disk = None THEN "USER_DATA" ELSE path.disk,
                     part |-> path.part,
                     guid |-> IF path.guid = Braces THEN None ELSE path.guid]

OperationOf(e)  == IF e.op = None THEN "IGNORE" ELSE e.op
UpdateTypeOf(e) == IF e.updateType = None THEN "PARTITION" ELSE e.updateType

MetaOf(e, guid) == [guid       |-> guid,
                    op         |-> OperationOf(e),
                    updateType |-> UpdateTypeOf(e),
                    upd        |-> MetaPathOf(e.upd),
                    bak        |-> MetaPathOf(e.bak),
                    match      |-> e.match,
                    binType    |-> BinaryTypeOf(e),
                    imageCount |-> Len(e.images)]

-----------------------------------------------------------------------------
(* The checks on the list q of entries that are not ignored.                *)
BackupDisksOnFlash(q, flash) ==   \* slip: the update disk is not looked up
  \A i \in DOMAIN q : q[i].updateType # "FWCLASS_GUID" => flash \in FlashOfDisk[q[i].bak.disk]

DisksOnFlash(q, flash) ==
  \A i \in DOMAIN q : q[i].updateType # "FWCLASS_GUID" =>
     flash \in FlashOfDisk[q[i].upd.disk] \cap FlashOfDisk[q[i].bak.disk]

\* ctypes arrays have no __eq__: == compares the two Python wrappers, which
\* are distinct objects created by the two field reads, whatever they hold.
CtypesArrayEq(a, b) == FALSE

SameDevicePath(p, r) == p.disk = r.disk /\ CtypesArrayEq(p.guid, r.guid) /\ p.part = r.part

IsPartition(m) == m.updateType = "PARTITION"

\* Joining a MatchIdentifier, a bytes object, with "".join raises, so a pair
\* of partition entries of which one has an identifier never passes.
PathsExclusive(q) ==
  \A i \in DOMAIN q : IsPartition(q[i]) =>
    /\ ~SameDevicePath(q[i].upd, q[i].bak)
    /\ \A j \in (i + 1)..Len(q) : IsPartition(q[j]) =>
         /\ q[i].match = None /\ q[j].match = None
         /\ ~SameDevicePath(q[i].upd, q[j].upd)
         /\ ~SameDevicePath(q[i].upd, q[j].bak)
         /\ ~SameDevicePath(q[i].bak, q[j].upd)
         /\ ~SameDevicePath(q[i].bak, q[j].bak)

ListAccepted(q, flash) == DisksOnFlash(q, flash) /\ PathsExclusive(q)
=============================================================================
