# TLA+ models of cbsp-boot-utilities

Models, model-checking configurations and proofs for the two programs of this
repository: the capsule generation tool (`src/uefi_capsule_generation`, Python)
and the UEFI variable daemon (`src/uefi_sec`, C).  `QCT/` below stands for
`src/uefi_capsule_generation/src/qcom_capsule_tool/`.

## 1. The system

The capsule tool turns firmware images into an FMP capsule.  It is a set of
programs that talk through files in one working directory; `create` runs five
of them in a row, each in a process of its own.

| component | state it keeps | operations | talks to |
|---|---|---|---|
| `capsule_creator.py` (`create`) | `patched_images/`, the position in the pipeline | five steps and the patch loop; exits at the first nonzero exit code | every step below, by subprocess and exit code |
| `SYSFW_VERSION_program.py` | `SYSFW_VERSION.bin` | generate, print words | read by FVCreation and UpdateJsonParameters |
| `UpdateFvXml.py` | `FvUpdate.xml` | pair partitions, write the entries | read by FVCreation |
| `patch_capsule_cert.py` with `BinToHex.py` | the ELF file in memory and its patched copy, the list of digests to replace | patch a certificate into the device trees, grow trees and segments, repair headers, metadata and digests | result searched by FVCreation |
| `FVCreation.py` (`fv-create`) with `XmlParser.py`, `XmlFwEntryValidation.py`, `FVCreation_header.py`, `fv_builder.py` | the raw and the payload entry lists, `ls_ffs`; `Metadata.dat`, `*.ffs`, `firmware.fv` | validate, number, write metadata, wrap, assemble, clean up | reads the three files above; `firmware.fv` is read by generate_capsule |
| `UpdateJsonParameters.py` | the JSON configuration | create it if missing, set the keys of every payload | read by generate_capsule |
| `generate_capsule.py` | the capsule | check the descriptors, wrap, sign, write | OpenSSL |
| `uefi_sec.c` | TA handle, DMA buffer, error count | start the TA, allocate, loop: send, release, sleep | libQSEECom, DMA-BUF heap, kernel |

What is hard in this system is not concurrency inside a process (there is one
thread everywhere) but:

* state that survives a run: every intermediate is a file under a fixed name, so
  a failed or killed run leaves files that the next run may take for its own;
* failures that are printed and not propagated: a step that returns False, an
  exception that is caught and ignored, an exit code of zero after an error;
* lists that must stay aligned while they are rotated, filtered and rewritten
  (raw entries, payload entries, FFS files) and GUIDs kept in two byte orders;
* positions in a file that grows while it is patched: trees, segments, headers,
  the table of digests and the metadata all move, and each is looked up with
  offsets read before or after the last splice;
* in the daemon, a buffer with a lifetime (allocated, mapped, in an access
  window, released) crossed with a loop and a dozen calls that may fail.

What makes each component correct: the volume pairs every image with the
metadata of its own partition, and holds nothing another run made (FVCreation);
headers and metadata announce the version the run was given, and each step
works on inputs of the current run (create); the document pairs every partition
once and is one that fv-create accepts (UpdateFvXml); a patched image has the
certificate in every tree, headers and digests that describe it, and no other
change (patch_capsule_cert); the command is sent only on a live
buffer, nothing is mapped while the daemon sleeps or after it returned, and the exit
status tells what happened (uefi_sec).  `PROJECT.json` lists the components with their status and the
hazards at their lines.

## 2. Modules

| module | models |
|---|---|
| `FwEntryValidation` | what fv-create accepts: the parse, the checks on an entry and on the list, and the metadata entry with its zero defaults.  Constant-level, one predicate per check |
| `FvContract` | abstract specification of fv-create as the packaging step sees it |
| `FvCreate` | fv-create: `The_Main` from start to cleanup, over successive runs in one directory |
| `SysfwVersion` | the version word |
| `CapsuleCreate` | `create`: the pipeline; its firmware volume step is an instance of `FvContract` |
| `FvXml` | update-fv-xml: one run, composed with `FwEntryValidation` |
| `ElfImage` | the bytes the patcher works on, and its operators: scan, splice, growth of headers, replacement of digests.  Constant-level |
| `PatchContract` | abstract specification of patch-capsule-cert |
| `PatchCert` | patch-capsule-cert: one run over a uefi_dtbs or an xbl_config image |
| `UefiSec` | the daemon |
| `Places` | ranks in a set of positions and the elements picked at them, as `FvCreate` and `FvXml` filter a list |
| `FvCreateProofs`, `FvXmlProofs`, `CapsuleCreateProofs`, `PatchCertProofs`, `UefiSecProofs` | the theorems |
| `PatchDigestProofs` | the theorem on the digests of a patched image, over the invariants of `PatchCertProofs` |
| `ElfImageProofs` | what the operators of `ElfImage` keep, for every file |
| `PlacesProofs` | what a rank and a picked element are, for every set of positions |
| `MCFvCreate`, `MCCapsuleCreate`, `MCFvXml`, `MCPatchCert`, `MCUefiSec` | small instances for TLC |

### FvCreate

`pc` names the step of `process_sys_fw_ffs_creation` and `The_Main`.  A loop of
the code is a loop of the model with one action per turn (`ValidateEntry`,
`SkipIgnored`, `WriteFfs`, `RemoveFile` or `RemovalFails`); `left` counts the turns
to go.  `raw`
and `qpayload` are the two lists of `GlobalDynamicVariable`, `lsFfs` is
`ls_ffs`, and `metaDat`, `ffsFile`, `fvFile` are the files.  A step that returns
False and one that raises are the same action (`StepFails`), because
`process_sys_fw_ffs_creation` catches every exception; `The_Main` then goes on
to `generate_fv`, and so does the model.

Data are abstracted to what the properties tell apart.  A GUID is an identity
and a byte order, so `c_sharp_guid_format` and `bytes_le` are conversions between
orders and not the identity.  An FFS file is a GUID and a payload; a file
carries the run that wrote it, which no step reads.  A device path keeps disk,
name and type GUID, with an absent tag (`None`) distinct from a text that no
table knows (`Unknown`) and, for a type GUID, from a text of nothing but braces
(`Braces`), which the completeness check takes for a GUID and the conversion for none.  The version file keeps the outcome of its three checks
and its two words; the two inputs on which a check raises, and is therefore
skipped, are values of their own.  Equality of two ctypes array fields compares
wrapper objects, so `CtypesArrayEq` is FALSE.

Failures: `StepRaises` (an `OSError` in a write), `GenerateFvFails` (one in
`generate_fv`, after which `The_Main` returns without the cleanup), and `Crash`
(a kill at any step).  `WriteCutShort` gives what a write that is cut short can
leave: nothing, or a torn file.  `RemovalFails` is an `os.remove` of the cleanup that
raises: `remove_files` names the file in an error line (`kept`), leaves it and goes on,
so a later run may find it there.  The removal of an old `Metadata.dat` before a new
one is written fails its step, like any other write.

### FvContract and the refinement

`FvContract` has four facts: the phase, the version asked for, the output file
with the version words of the metadata in it, and the last line printed.  The
output is what it was, torn, or a volume of this run; its metadata is of the
version of this run or missing; "created" is printed only for a volume of this
run.  `FvCreate!Contract` maps the detailed state to these facts (`PhaseSeen`,
`RequestSeen`, `OutSeen`), `ImplementsContract` is checked by TLC and proved
(`FvCreateProofs!Refinement`).  `CapsuleCreate` calls the contract's actions
(`Fv!Begin`, `Fv!Publish`, ...) in place of the details, so what holds of the
pipeline there holds with fv-create in it.

### CapsuleCreate

`pc` is the step of `_run`.  Each step is an action that reads and writes the
files its module reads and writes; the patch loop has one action per image.
`ExitOne` is `run_module` on a nonzero exit code.  `EndFv` goes on whether
fv-create printed success or failure: its exit code is zero either way.
`GenerateVersion` leaves the old version file on a malformed version, again with
exit code zero.  `UpdateJson` sets a key only where the payload has it, and
creates a missing configuration under the name `config.json` whatever name it
was asked for.  A version file cut short is read with whatever memory follows
(`from_bytes` moves a whole structure): a free choice of words.

### FvXml

`pc` is the step of `main`: the arguments, the lines of the partition file
(`ReadLine`, one per turn of the loop), the names found in it (`PairName`), the
write.  A partition name is the sequence of its parts, so that "ends in `_a`",
"with `_b` in its place" and "plus `_BACKUP`" are what they are in the code, and a
name such as `x_a_BACKUP` exists.  `info` and `names` are the dictionary and its
order of insertion.  `Document` is what the parser of fv-create makes of the file
written, in the terms of `FwEntryValidation`: a storage type is a flash type or a
text the table does not know.  `GeneratedAccepted` then runs the validation of
the other program on it.  A run that dies while it writes leaves a torn file.

### ElfImage and PatchCert

A file is a sequence of cells: the ELF header, a program or section header, the
head of a device tree (its size counts the cells it occupies), a metadata header
or item, a digest, data.  Positions, splices and searches mean what they mean in
the file; the width of fields does not matter here and is left out.  SHA-384 is
taken to be injective: the digest of some bytes is those bytes in a slot, so "the
slot holds the digest of what this segment is now" is equality.

`PatchCert` follows the two branches of `_patch_capsule_cert_elf`.  A uefi_dtbs
image is patched in memory: `ReadSegment` takes the segment and the places of its
trees, `PatchUefiTree` replaces one, moved by `delta`, `WriteSegment` puts the
segment back and repairs the headers, `ReplaceDigests` replaces the pairs
collected; `WriteUefi` writes once.  An xbl_config image goes through
`_replace_ph` (`ReplacePh`) and to disk and back for every tree; `work` is the
segment as it was read before the loop, stale from the second tree on, as in the
code.  `Deliver` writes to the path of the command line or, with an .xz path, to a
temporary file that `Publish` compresses.  `TreeFails` is any exception in
`_patch_dtb`, `Dies` an exception elsewhere or a kill; an output that is open at
that moment may be torn.

`PatchContract` says what a caller may rely on: patched trees stay patched, a run
succeeds only with every tree that has the property patched and the output
written, and a failed run leaves the output as it was, written in part, or torn.
`PatchCert!Contract` reads the four facts off the detailed state: carriers are the
trees with the property in the input, `PatchedSeen` those with the new value in
the file or in the segment in memory.

### UefiSec

One action per call that may fail and per branch of `main`.  The kernel's side is
what each descriptor refers to (`open`), whether the buffer is mapped, and
whether a CPU access window is open.  `dataFd` starts as 0, as `memset` leaves
it, which is what the failed-mmap path then closes.  A write through a NULL
pointer is the state "crashed".  `qsc_start_app_V2` is unreachable
(`load_whole_mbn` is 0) and `qsc_shutdown_app` has no caller; neither is
modelled.

## 3. Runs

| run | instance | states | shows |
|---|---|---|---|
| `fv_create` | two runs, 39 invocations | 361,617 | the properties below, termination, and the refinement of `FvContract` |
| `capsule_create` | two runs, three invocations, every initial content of two configuration files | 108,644 | the properties below and termination |
| `fv_xml` | one run, 841 invocations over 622 partition files | 18,278 | the properties below |
| `patch_cert` | one run, 528 invocations: 44 images, three certificates, four kinds of paths | 24,825 | the properties below, termination, and the refinement of `PatchContract` |
| `uefi_sec` | five descriptors, three fallback directories | 540 | the properties below |

`fv_create`: `PackedPairs` (file k of a volume has the GUID of metadata entry k
and the binary that the XML gives for its partition), `GuidsDistinct`,
`NothingStalePacked`, `DevicePathsAsWritten` (no absent disk became the eMMC
user area; only a type GUID of nothing but braces is lost), `CleanupComplete` (what
the cleanup leaves is named in its error lines: a removal that fails keeps no other
file), `OnlyOwnFfsRemoved`, `RunEnds`,
`ImplementsContract`.

`capsule_create`: `VersionCarried` (the capsule has the versions the run was given,
whatever versions files of earlier runs hold), `HeadersOfVersionFile`, `HeaderMatchesMetadata` (two programs
read the version file at different times and announce the same version),
`InputsReady` (fv-create starts over the XML and the copies of this run only),
`RunEnds`.

`fv_xml`: `EntriesOfWinners` (each entry is from the line the code promises: on UFS
the first on LUN 1 wherever it stands), `PairedOnce` (every partition with a partner
is in an entry, and in a second one only if it is the `_b` of one pair and has a
`_BACKUP` of its own), `GeneratedAccepted`.

`patch_cert`: `DigestsFollow` (every slot that held the digest of a segment or of a
tree holds that of what it has become), `HeadersAgree` (the headers describe the
file, a section table ahead of the segments follows the program headers, metadata
items have the sizes of the segments), `OthersIntact` (a segment without tree,
metadata or digest has its bytes), `TreesInOrder` (no tree is cut into or lost),
`XzAllOrNothing` (with an .xz path the output is never patched in part),
`ImplementsContract`, `RunEnds`.

`uefi_sec`: `SendOnLiveBuffer`, `ZeroMeansDone`, `NotMappedAtRest`,
`StandardFdsKept`, `StartedOnce`, `OneShotReturns`.

Bounds.  `MaxRuns = 2`: what a run finds in the directory is what earlier runs
left, each file is written whole or torn under a fixed name, and the properties
relate the current run to one earlier one; two runs give every pair.  Documents
have up to three entries, the number at which a repeated stem collides a second
time and at which rotation, filtering and order can differ.  Every check of the
validation is refused by some invocation of `MCFvCreate`.  Two binaries, two
search directories, and both outcomes of each lookup occur.  In `MCCapsuleCreate`
words have two bits; the configurations have every key, one missing, an
incomplete certificate set, two payloads (equally and unequally signed), none.
Two images share a base name.  In `MCFvXml` names repeat up to four times on two looked-at LUNs and one that is
not, which is every way one line can take over from another; up to four names in
every order give each order in which two naming conventions can claim a name.  In
`MCPatchCert` a segment holds up to two trees (without the property, without room,
with room, with two owners), images have up to five segments, so that something is
ahead of a tree that grows, in its segment and behind it; digests stand ahead of
the trees or behind, per tree or not; certificates are longer than the old one,
shorter, or missing.  Five descriptors leave two for the one DMA buffer
a process has.

`CHECK_DEADLOCK FALSE`: in the first two runs a behaviour stops after `MaxRuns`
invocations; in the others the process ends.

Fairness.  `WF(Progress)` in `FvCreate` and `CapsuleCreate`: once started, a
run keeps running, because there is one thread that waits for nothing but a child
process, and a started child is itself a run of this kind.  `Start` and `Crash`
are not fair: nobody has to start a run or to kill it.  `PatchCert`
has `WF(Work)`: the process is scheduled and its calls return; `Dies` is not fair.
`UefiSec` has `WF(Next)`,
assuming the calls into the kernel return, and `WF(TargetDirDone)`, because a
directory has finitely many entries.

### What the repository says and the code does not do

Each is a run with one property that TLC finds violated; `PROJECT.json`
"findings" quotes the line.

| run | the code |
|---|---|
| `fv_PartialFvNotReported` | assembles a volume from a partial list and reports success |
| `fv_DevicePathsExclusive` | the exclusive check never refuses, because ctypes arrays are compared by identity |
| `fv_FirstPathPacked` | the `InputPath` of the entry is searched ahead of the patched copies |
| `create_ExitOnFvFailure` | goes on after fv-create failed |
| `sec_Periodic` | the second turn of the loop uses the released buffer |
| `patch_CountedAsPatched` | the second tree of an xbl_config segment is patched in a copy of the segment without the first patch, and both are counted |
| `patch_CertificateOfAFile` | a certificate file that is missing, or a hex file that cannot be written, empties the property of every tree, and the run succeeds |

Further differences are in the models without a run of their own:

* the third image of one stem and partition overwrites the FFS file of the second
  (`FfsNameFor`), and a signature that is not ASCII skips the CRC check
  (`VersionAccepted`);
* a type GUID of nothing but braces (`{}`) is not empty for the check that refuses an
  empty tag, and is empty for the conversion: the entry is accepted and its metadata has
  the zero GUID (`Complete`, `MetaPathOf`; `DevicePathsAsWritten` names the exception);
* a malformed `-fwver` leaves the version file of an earlier run with exit code zero
  (`GenerateVersion`; `VersionCarried` is stated for well-formed versions);
* the cleanup also removes a `Metadata.dat` that an earlier run left
  (`Intermediates`), and leaves, with a line of output, a file it cannot delete
  (`RemovalFails`);
* a certificate whose key the configuration lacks is dropped (`UpdatePayload`);
* an empty directory counts as a started TA (`TargetDirDone`), and a failed answer of
  the TA is not counted, because its status field is unsigned (`Send`);
* `-F` with a SPINOR file writes a `<FlashType>` that fv-create does not know, and
  `x_b` with an `x_b_BACKUP` is in two entries (`Document`, `TwiceBacked`);
* a section table behind the segments is written at its old place, over the bytes
  that moved there (`HeadersGrown`; the properties are stated for images without one
  or with one ahead, and `MCPatchCert` has an image of each kind);
* of two equal digests only the first slot is found (`FoundAt`);
* a uefi_dtbs segment that keeps its size but had `p_memsz` other than `p_filesz` gets
  its header rewritten without the digest of PH#0, and with two PT_NULL segments behind
  the trees only the first is searched (`WriteSegment`, `HashSegment`; no image of
  `MCPatchCert` is like this, and `DigestsStayTrue` excludes both).

## 4. Proofs

Every theorem holds for all values of the constants that satisfy the named
assumptions: `EntryConstants`, `AbsentTags`, `FfsConstants`, `JobsAssumption`,
`WellKnownGuids` and `NotContents` for `FvCreate`, `EntryConstants`, `AbsentTags`
and `XmlConstants` for `FvXml`, `CreateConstants` and
`NotContents` for `CapsuleCreate`, `CertLengths` and `PatchConstants` for
`ElfImage` and `PatchCert`, `UefiSecConstants` for `UefiSec`.  They say
that the sets of names are apart, that jobs are jobs, that the two well-known
GUIDs are not random ones, that an absent tag or an unknown text is no text of a
table, that a missing or a torn file is told apart from
one with contents, that names are non-empty sequences of strings and every base
name has a place in the order of strings, and that an ELF file is laid out as the
builds do it (`WellFormed`: segments in the order of their headers, one behind the
other).  TLC evaluates them in every run.

Each proof module has the same shape: `Invariance` proves the inductive
invariant `IInv` of the module, with one step per action, and the other theorems
follow from it.  TLC checks each `IInv` on the small instance as well.

* `FvCreate!IInv` is `TypeOK` with `Control`, `Owned` and `NothingStalePacked`.
  `NothingStalePacked` alone is not inductive: `GenerateFv` reads the files that
  `ls_ffs` names, so one must know that each of these is of the current run
  (`Owned`), which in turn needs that `Metadata.dat` is of the current run while
  the FFS files are written (`Control`).  From it follow `TypeCorrectness`,
  `NoStaleImage`, `OwnFfsCleanup` (an action property: the files still to be
  removed are of this run or gone) and `Refinement` (each step maps to one of
  the contract or to a stutter).  The second half of
  `FvCreateProofs` adds two invariants to it, on the directory and on the volume.
  `StillOwed`: what the cleanup has not removed is on its list or among the files its
  error lines name; from it follows `LeftoversReported`.  `GuidInv`: the entries that have a GUID have one of their
  own, while the list is rotated (`OwnGuids`), each FFS file has the GUID of an entry
  that was gone through (`ListedGuids`), and so the complete list has as many GUIDs
  as names (`CompleteGuids`); from it follows `VolumeGuidsDistinct`.
  `PackInv` follows the lists through a run: how far the rotation of `raw` is
  (`Rotation`), that the payload list has the entries of the document that are not
  ignored, in their order (`PayloadListed`; "in their order" is the rank of a
  position among those of the updates, from `PlacesProofs`), that the metadata
  written has the same ones (`MetadataListed`), that the files made so far are those
  of the entries gone through (`FilesListed`), and that the volume has all of them
  (`VolumeListed`).  From it follow `VolumePairs` and `DevicePathsKept`.
* `FvXmlProofs!XmlInv` is `TypeOK` with `Shapes` (what each step finds),
  `LinesRead` and `NamesRead`.  The line kept for a name must be the winner of the
  lines read so far, which is stated without the lines to come (`Stays`); when the
  last line is read it is the winner.  `NamesRead`: every name gone through is in a
  pair or begins none, and no pair begins with a name of an earlier one.  From it
  follow `TypeCorrectness`, `WinnersWritten` and `PairsOnce`, which also need that
  sorting the pairs loses and doubles none (`SortPermutes`) and that names built from
  different names differ (`PartnerNames`), and `DocumentAccepted`, which takes the
  validation of fv-create check by check.
* `CapsuleCreate!IInv` adds `VolumeOfVersionFile` (a volume of the current
  contract run has the words of the version file), `VersionsConfigured` (so has
  every key that is present when the capsule is generated), `VolumePacked` and
  `Control` (how far the patch loop got, with a whole copy for each image
  done) and `VersionFileOfRun` (from its second step on, a run whose versions are
  well-formed finds its own version file).  From it follow `TypeCorrectness`,
  `VersionsCarried`, `HeaderVersions`, `VersionsAgree` and `FvInputs`.
* `PatchCert!IInv` adds to `TypeOK`, `HeadersAgree` and `OthersIntact` where the
  trees still to go are (`TreesToGo`: in the segment in memory, one behind the
  other, moved by `delta`), that a segment in memory is never shorter than the one
  it replaces, that no segment to go is one of the bystanders (`SegmentsToGo`), and
  that the metadata header is what it was (`MetadataKept`).  The steps that write
  rest on the lemmas of `ElfImageProofs`: a splice moves the cells behind it and no
  others (`SpliceBytes`), a segment that is replaced leaves a well-formed file with
  the other segments in it (`ResegmentedFile`), a size written into the metadata
  and digests that are replaced change nothing else (`ItemSizedFile`,
  `DigestsFile`), and a patched tree is no shorter (`PatchedTreeCells`).
  `_replace_ph` is the composition of the four (`ReplacePhFile`).  From it follow
  `TypeCorrectness`, `HeadersRepaired` and `OthersUntouched`, for images of any
  size and any number of trees.
  `TInv` follows the trees.  That a segment has the trees it had, in their order, is
  an order-preserving map of the one set of places onto the other (`Grown`), and such
  maps compose (`GrownTransitive`); a patched tree gives one (`PatchedTrees`), and so
  do digests that are replaced (`NeutralGrown`).  `TreesKept` has one for every
  segment of the file and for the one in memory; it is not inductive without
  `NoMetadata`, since an image that acquired metadata would be searched elsewhere.
  From it follows `TreesStayInOrder`, of images with the section table ahead of the
  segments and without a head of a tree that the scan passes over (`WholeTrees`): a
  tree cut off at the end of its segment is no tree, and would become one when the
  segment grows.
  `VInv` follows the values, with trees named by their rank, which growth does not
  change (`PlacesPatched`): while no tree has failed, the segments left behind are
  patched, and the one in hand is but for the trees to go (`SegmentsPatched`).  `RInv`
  adds what is at the output path (`Reported`).  From them follow `PatchedWhole` and
  `KeepsContract`, the refinement of `PatchContract`, for images that are `Orderly`:
  those of `TreesStayInOrder` with at most one tree with the property in a segment of
  an xbl_config.  Without that the contract does not hold, as `CountedAsPatched`
  shows: the second tree brings the first one back as it was.
* `PatchDigestProofs!DInv` is about the table of digests; from it follows
  `DigestsStayTrue`. A thing with a digest is a segment or a tree (`Things`), and a
  version of the image is the sequence of its segments (`Version`). `TableFollows`
  says that what the table said of the image it says of the file as it is now;
  between the write of a segment and `replace_hashes` it says so of an earlier
  version, and the pairs collected lead from that version to the file (`Leads`: each
  pair is the old and the new bytes of one thing, and every thing whose digest is
  held and whose bytes changed has a pair). It rests on `TableInPlace` (the slots
  are where they were in the table, the headers let the search find it, and a
  segment that was one tree alone still is one), `MemoryInPlace` (the same of the
  segment in memory) and `PairsOfTrees` (the pairs collected for the trees are those
  of the trees gone through). Why the order of the replacements does not matter is
  `TableReplaced`: a search finds all its digests in the file as it was before any
  was replaced, and things with the same content in one version have it in every one
  (`SameContent`: two trees have different names, and a segment has the content of a
  tree only if it is that tree alone), so two pairs that hit one slot agree, and
  slots that differed go on to differ. For `_replace_ph` the argument is made stage
  by stage (`ReplacePhStages`): the segment grows, its item is written, then its
  digest and those of the headers and of the metadata are replaced.
  The premise is `Tabled` with that of `DigestsFollow` (no two slots with one
  digest, no section table behind the segments): the scan finds every head of a
  tree, trees have names of their own, one segment other than the metadata
  (`HasTable`) has all the slots, each the digest of something in the image and none
  of the table itself, and every other segment has trees, or is the metadata, or is
  plain data. In a uefi_dtbs the table is the only PT_NULL segment behind PH#0,
  since the search is confined to the first, and a segment with trees is as large in
  memory as in the file, since `WriteSegment` sets both sizes but refreshes the
  digest of PH#0 only if the segment grew; in an xbl_config, where the code takes no
  digest of a tree, a tree with a slot is a segment of its own. Every image of
  `MCPatchCert` that has a digest and no section table behind its segments is
  `Tabled`.
* `UefiSec!IInv` says, for each place of `main`, whether the buffer is held or
  released and what the descriptors are (`Phases`).  From it follow
  `TypeCorrectness`, `CommandOnLiveBuffer`, `ExitZero`, `RestUnmapped`,
  `StandardFds` and `NoSecondStart`.

Model-checked only: `RunEnds` and `OneShotReturns` (liveness under fairness is
outside the prover's reach), and the value of `BitOr`, which is defined by recursion
on its arguments.

The premises of the theorems about trees, values and digests are hardly left by the
runs.  One image has its section table behind the segments (`LateImage`): on it
`TreesInOrder`, `XzAllOrNothing` and `ImplementsContract` are checked and not proved,
`DigestsFollow` and `OthersIntact` exclude it.  Neither proved nor checked are these
properties on an xbl_config with two trees with the property in one segment
(`MCPatchCert.cfg` has `Twins = FALSE`; `patch_CountedAsPatched` alone sees such an
image), and on images with two tables of digests, or digests of what is not in the
image, of which there is none.

## 5. Not modelled

* `patch_capsule_cert.py`: `--meta-ph` other than 1; files whose segments are not in
  the order of their headers, or overlap; a PH#0 whose sizes in memory and in the
  file differ; `offset_from_meta_start`, which the code only prints; a digest that
  occurs by accident in other data; reading the flattened tree itself (the walk
  over nodes is the list of owners of the property).
* `BinToHex.py` beyond its two failures that leave the hex file empty: the conversion
  has no state or control, and a hex file written in part is left out.
* Byte layout: checksums, alignment and headers of FFS files, volumes and the
  capsule, the CRC of the version file.  `tests/` compares them with fixtures.
* `UpdateFvXml.py`: the download of a partition file by target, which is one of the
  outcomes "known" or not; `CapsuleCreate` has the whole program as one step that
  writes the file or fails.
* `UpdateJsonParameters.py`: the EC_FW branch, which `create` never runs;
  `--dump-info`; the printing modes.
* `cli.py`, the Makefile and CI: no state or control of their own.
* The order of versions against that of the words made of them: `VersionWord` is in
  `SysfwVersion`, but nothing in the repository says that the orders agree.
* Two runs at the same time in one directory: nothing in the repository starts
  them, and the tool takes no lock.

## 6. How the project grows

Each component is a module with one action per step, an instance for TLC and a proof
module of its own. What would come next: `PatchContract` inside `CapsuleCreate`, in
place of its one step per image; the descriptor and offset arithmetic of
`generate_capsule.py`, with its decoder (`--dump-info`) as the reference definition.
