----------------------------- MODULE PatchCert -----------------------------
(***************************************************************************)
(* patch-capsule-cert (patch_capsule_cert.py): one run that writes a       *)
(* certificate into the device trees of an ELF file and repairs what the   *)
(* growth of a tree moves: offsets and sizes in the headers, item sizes in *)
(* the XBLConfig metadata, SHA-384 digests in the hash segment.            *)
(*                                                                         *)
(* An image is a uefi_dtbs ELF, patched in memory and written once, or an  *)
(* xbl_config ELF, written and read back for each tree.  With an .xz path  *)
(* either works on temporary files, and the output appears at the end.     *)
(***************************************************************************)
EXTENDS ElfImage, Places

CONSTANTS Jobs,   \* the invocations
          Empty,  \* value read from a hex file that stayed empty
          None    \* no certificate, no image, a type not detected yet

ASSUME PatchConstants ==
  /\ Empty \in DOMAIN CertLen
  /\ None \notin DOMAIN CertLen \cup {"uefi_dtbs", "xbl_config"}
  /\ \A j \in Jobs : /\ j.cert \in DOMAIN CertLen \cup {None}
                     /\ {j.inXz, j.outXz, j.inPlace} \subseteq BOOLEAN
                     /\ WellFormed(j.image)
                     /\ HasMetadata(j.image) => ItemsAgree(j.image)

VARIABLES pc,      \* where the run is
          job,     \* its arguments
          elfType, \* what detect_elf_type returned
          raw,     \* the bytes of the file being patched
          left,    \* segments (uefi_dtbs) or items (xbl_config) to go
          work,    \* seg_data
          trees,   \* positions of the device trees to go in the segment
          delta,   \* how far the patched trees moved the ones behind them
          pairs,   \* per_dtb_hash_pairs
          tally,   \* the patched and the failed trees
          out,     \* the output file, and who wrote it
          status   \* how the run ended

segment == <<left, work, trees, delta, pairs>>
vars    == <<pc, job, elfType, raw, segment, tally, out, status>>

\* patch_capsule_cert goes through temporary files.
UsesXz == job.inXz \/ job.outXz

\* bin_to_hex prints that the certificate file is missing, or that the hex file
\* cannot be written, and returns: a job without a certificate is one whose hex
\* file stays empty, as mkstemp made it.
Value == IF job.cert = None THEN Empty ELSE job.cert

\* What stands at the output path before the run, and a file whose write was cut short.
OldOutput == IF job.inPlace THEN [by |-> "before", image |-> job.image] ELSE [by |-> "nobody"]
Torn      == [by |-> "cut short"]

Init ==
  /\ pc = "open" /\ job \in Jobs /\ elfType = None
  /\ raw = job.image
  /\ left = {} /\ work = <<>> /\ trees = {} /\ delta = 0 /\ pairs = <<>>
  /\ tally = [patched |-> 0, errors |-> 0]
  /\ out = OldOutput /\ status = "running"

End(s) == pc' = "done" /\ status' = s

\* Mutant: an .xz run that writes to the output at once.
DeliverAtOnce(f) == out' = [by |-> "run", image |-> f]

\* A path of the command line is written to, or the temporary file of an .xz run.
Deliver(f) == out' = IF UsesXz THEN out ELSE [by |-> "run", image |-> f]

-----------------------------------------------------------------------------
(* detect_elf_type, and the list of segments to look at.                    *)

Undetected ==
  /\ pc = "open"
  /\ ~HasMetadata(raw) /\ ~HasTree(raw)
  /\ End("failed")
  /\ UNCHANGED <<job, elfType, raw, segment, tally, out>>

OpenUefiDtbs ==
  /\ pc = "open"
  /\ ~HasMetadata(raw) /\ HasTree(raw)
  /\ elfType' = "uefi_dtbs"
  /\ left' = {i \in 1..PhNum(raw) : Trees(Data(raw, i)) # {}}
  /\ pc' = "segment"
  /\ UNCHANGED <<job, raw, work, trees, delta, pairs, tally, out, status>>

OpenXblConfig ==
  /\ pc = "open"
  /\ HasMetadata(raw)
  /\ elfType' = "xbl_config"
  /\ IF MetaTruncated(raw)
     THEN End("failed") /\ UNCHANGED left
     ELSE /\ left' = ItemSegments(raw)
          /\ pc' = "segment"
          /\ UNCHANGED status
  /\ UNCHANGED <<job, raw, work, trees, delta, pairs, tally, out>>

\* Segments and trees are taken in ascending order.
Target == Least(left)

ReadSegment ==
  /\ pc = "segment" /\ left # {}
  /\ work' = Data(raw, Target)
  /\ trees' = Trees(work')
  /\ delta' = 0 /\ pairs' = <<>>
  /\ pc' = "tree"
  /\ UNCHANGED <<job, elfType, raw, left, tally, out, status>>

LastSegment ==
  /\ pc = "segment" /\ left = {}
  /\ pc' = IF elfType = "uefi_dtbs" THEN "write" ELSE "verdict"
  /\ UNCHANGED <<job, elfType, raw, segment, tally, out, status>>

-----------------------------------------------------------------------------
(* The trees of a segment.                                                  *)

At       == Least(trees) + delta
Current  == work[At]
NewTree  == PatchedTree(Current, Value)
\* The segment with the current tree replaced.
NewWork  == Splice(work, At, Current.size, NewTree)

\* Mutant: a tree without the property is looked at again and again.
SkipTreeAgain ==
  /\ pc = "tree" /\ trees # {}
  /\ Current.certs = <<>>
  /\ UNCHANGED vars

\* _find_cert_node: no node owns the property.
SkipTree ==
  /\ pc = "tree" /\ trees # {}
  /\ Current.certs = <<>>
  /\ trees' = trees \ {Least(trees)}
  /\ UNCHANGED <<pc, job, elfType, raw, left, work, delta, pairs, tally, out, status>>

\* _patch_dtb raises: libfdt refuses the tree, or a temporary file fails.
TreeFails ==
  /\ pc = "tree" /\ trees # {}
  /\ Current.certs # <<>>
  /\ tally' = [tally EXCEPT !.errors = @ + 1]
  /\ trees' = trees \ {Least(trees)}
  /\ UNCHANGED <<pc, job, elfType, raw, left, work, delta, pairs, out, status>>

\* Mutant: a patched tree that is not counted.
PatchUefiTreeUncounted ==
  /\ pc = "tree" /\ trees # {} /\ elfType = "uefi_dtbs"
  /\ Current.certs # <<>>
  /\ work' = NewWork
  /\ delta' = delta + Len(NewTree) - Current.size
  /\ pairs' = Append(pairs, <<Slice(work, At, Current.size), NewTree>>)
  /\ trees' = trees \ {Least(trees)}
  /\ UNCHANGED <<pc, job, elfType, raw, left, tally, out, status>>

PatchUefiTree ==
  /\ pc = "tree" /\ trees # {} /\ elfType = "uefi_dtbs"
  /\ Current.certs # <<>>
  /\ work' = NewWork
  /\ delta' = delta + Len(NewTree) - Current.size
  /\ pairs' = Append(pairs, <<Slice(work, At, Current.size), NewTree>>)
  /\ tally' = [tally EXCEPT !.patched = @ + 1]
  /\ trees' = trees \ {Least(trees)}
  /\ UNCHANGED <<pc, job, elfType, raw, left, out, status>>

\* Mutant: the segment is cut to the size it had.
WriteSegmentClipped ==
  LET clipped == SubSeq(work, 1, Ph(raw, Target).filesz)
  IN /\ pc = "tree" /\ trees = {} /\ elfType = "uefi_dtbs" /\ pairs # <<>>
     /\ raw' = Resegmented(raw, Target, clipped, Len(clipped), 0)
     /\ pairs' = Append(pairs, <<Data(raw, Target), clipped>>)
     /\ pc' = "digests"
     /\ UNCHANGED <<job, elfType, left, work, trees, delta, tally, out, status>>

\* Mutant: PH#0 keeps its digest.
WriteSegmentOnly ==
  /\ pc = "tree" /\ trees = {} /\ elfType = "uefi_dtbs" /\ pairs # <<>>
  /\ raw' = Resegmented(raw, Target, work, Len(work), 0)
  /\ pairs' = Append(pairs, <<Data(raw, Target), work>>)
  /\ pc' = "digests"
  /\ UNCHANGED <<job, elfType, left, work, trees, delta, tally, out, status>>

\* The patched segment goes back into the file, and the pairs of digests to replace
\* are completed: the segment, and PH#0 if the offsets in it moved.
WriteSegment ==
  LET ph == Ph(raw, Target)
      moved == Len(work) # ph.filesz /\ Ph(raw, 1).filesz > 0
  IN /\ pc = "tree" /\ trees = {} /\ elfType = "uefi_dtbs" /\ pairs # <<>>
     /\ raw' = Resegmented(raw, Target, work, Len(work), 0)
     /\ pairs' = pairs \o <<<<Data(raw, Target), work>>>>
                  \o (IF moved THEN <<SidePair(raw, raw', 1)>> ELSE <<>>)
     /\ pc' = "digests"
     /\ UNCHANGED <<job, elfType, left, work, trees, delta, tally, out, status>>

ReplaceDigests ==
  /\ pc = "digests"
  /\ raw' = DigestsReplaced(raw, pairs, HashFirst(raw, Target), HashLast(raw, Target))
  /\ left' = left \ {Target}
  /\ pc' = "segment"
  /\ UNCHANGED <<job, elfType, work, trees, delta, pairs, tally, out, status>>

\* _replace_ph: the headers grow only with the file; a shorter payload is
\* followed by zeros.  The digests of PH#0 and of the metadata are computed
\* where these segments were, after the digest of segment i is in place.
ReplacePh(f, i, bytes) ==
  LET grow  == Len(bytes) - Ph(f, i).filesz
      sized == Resegmented(f, i, ZeroPadded(bytes, -grow), Len(bytes), grow)
      items == ItemSized(sized, Ph(f, 2).off + i - 2, Len(bytes))
      own   == DigestsReplaced(items, <<<<Data(f, i), bytes>>>>, 1, Len(items))
      sides == <<SidePair(f, own, 1), SidePair(f, own, 2)>>
  IN DigestsReplaced(own, Picked(sides, {s \in 1..2 : sides[s][1] # <<>>}), 1, Len(own))

ReplaceXblTree ==
  /\ pc = "tree" /\ trees # {} /\ elfType = "xbl_config"
  /\ Current.certs # <<>>
  /\ raw' = ReplacePh(raw, Target, NewWork)
  /\ Deliver(raw')
  /\ tally' = [tally EXCEPT !.patched = @ + 1]
  /\ trees' = trees \ {Least(trees)}
  /\ UNCHANGED <<pc, job, elfType, left, work, delta, pairs, status>>

\* No tree to go, and nothing to write back.
LeaveSegment ==
  /\ pc = "tree" /\ trees = {}
  /\ elfType = "xbl_config" \/ pairs = <<>>
  /\ left' = left \ {Target}
  /\ pc' = "segment"
  /\ UNCHANGED <<job, elfType, raw, work, trees, delta, pairs, tally, out, status>>

-----------------------------------------------------------------------------
(* The end of a run.                                                        *)

\* The file is written whatever happened to its trees.
WriteUefi ==
  /\ pc = "write"
  /\ Deliver(raw)
  /\ pc' = "verdict"
  /\ UNCHANGED <<job, elfType, raw, segment, tally, status>>

\* Mutant: failed trees are listed and forgotten.
VerdictLenient ==
  /\ pc = "verdict"
  /\ IF elfType = "xbl_config" /\ tally.patched = 0 THEN End("failed")
     ELSE IF UsesXz THEN pc' = "publish" /\ UNCHANGED status ELSE End("ok")
  /\ UNCHANGED <<job, elfType, raw, segment, tally, out>>

\* sys.exit(1) on a tree that failed; an xbl_config without the property is
\* an error, a uefi_dtbs without it is not.
Verdict ==
  /\ pc = "verdict"
  /\ IF tally.errors > 0 \/ (elfType = "xbl_config" /\ tally.patched = 0)
     THEN End("failed")
     ELSE IF UsesXz THEN pc' = "publish" /\ UNCHANGED status ELSE End("ok")
  /\ UNCHANGED <<job, elfType, raw, segment, tally, out>>

\* The temporary file is compressed into the output, or moved there.
Publish ==
  /\ pc = "publish"
  /\ out' = [by |-> "run", image |-> raw]
  /\ End("ok")
  /\ UNCHANGED <<job, elfType, raw, segment, tally>>

\* The output is open for writing: a failure there leaves it torn.
OutputOpen ==
  \/ ~UsesXz /\ \/ pc = "write"
                \/ pc = "tree" /\ trees # {} /\ elfType = "xbl_config" /\ Current.certs # <<>>
  \/ pc = "publish" /\ job.outXz

\* An exception that ends the run, or a kill.
Dies ==
  /\ pc # "done"
  /\ \/ UNCHANGED out
     \/ OutputOpen /\ out' = Torn
  /\ End("failed")
  /\ UNCHANGED <<job, elfType, raw, segment, tally>>

Work == \/ Undetected \/ OpenUefiDtbs \/ OpenXblConfig
        \/ ReadSegment \/ LastSegment
        \/ SkipTree \/ TreeFails \/ PatchUefiTree \/ ReplaceXblTree
        \/ WriteSegment \/ ReplaceDigests \/ LeaveSegment
        \/ WriteUefi \/ Verdict \/ Publish

Next == Work \/ Dies

Spec == Init /\ [][Next]_vars /\ WF_vars(Work)

-----------------------------------------------------------------------------
(* Properties.                                                              *)

\* Every variable has its type; a tree still to go is one of the segment that
\* was read, where the trees patched before it have moved it.
TypeOK ==
  /\ pc \in {"open", "segment", "tree", "digests", "write", "verdict", "publish", "done"}
  /\ job \in Jobs
  /\ elfType \in {None, "uefi_dtbs", "xbl_config"}
  /\ Bytes(raw) /\ Bytes(work)
  /\ left \in SUBSET Nat /\ trees \in SUBSET Nat /\ delta \in Int
  /\ pc = "tree" => Len(pairs) <= tally.patched
  /\ tally \in [patched : Nat, errors : Nat]
  /\ out = Torn \/ out = OldOutput \/ (out.by = "run" /\ Bytes(out.image))
  /\ status \in {"running", "ok", "failed"}

\* The trees of an image, named by their segment and their place in it, and
\* those a run looks at.
TreesOf(f)   == UNION {{<<i, k>> : k \in 1..Cardinality(Trees(Data(f, i)))} : i \in 1..PhNum(f)}
PlaceOf(f, t) == Nth(Trees(Data(f, t[1])), t[2])
TreeOf(f, t) == Data(f, t[1])[PlaceOf(f, t)]
Searched(f) == IF HasMetadata(f) THEN ItemSegments(f) ELSE 1..PhNum(f)
Carriers(f) == {t \in TreesOf(f) : t[1] \in Searched(f) /\ TreeOf(f, t).certs # <<>>}
HasValue(f) == {t \in Carriers(f) : TreeOf(f, t).certs[1] = Value}

\* The trees patched so far: in the file, and in the segment in memory.
PatchedSeen ==
  LET tree(k)  == work[Nth(Trees(work), k)]
      inMemory == {<<Target, k>> : k \in {n \in 1..Cardinality(Trees(work)) :
                                           tree(n).certs # <<>> /\ tree(n).certs[1] = Value}}
  IN IF elfType = "uefi_dtbs" /\ pc = "tree"
     THEN inMemory \cup {t \in HasValue(raw) : t[1] # Target}
     ELSE HasValue(raw)

OutputSeen == IF out = Torn THEN "torn" ELSE IF out = OldOutput THEN "kept" ELSE "written"

Contract == INSTANCE PatchContract WITH
              carriers <- Carriers(job.image), patched <- PatchedSeen,
              output   <- OutputSeen, verdict <- status

\* patch-capsule-cert implements PatchContract: a tree that was patched stays
\* patched, and a run that succeeds patched every tree with the property, in
\* the file it wrote.
ImplementsContract == Contract!ContractSpec

\* The slots of a file in order, and the bytes of a segment or of a tree.
SlotPlaces(f) == {p \in DOMAIN f : f[p].kind = "slot"}
SlotsOf(f) == Picked(f, SlotPlaces(f))
TreeBytes(f, t) == Slice(Data(f, t[1]), PlaceOf(f, t), TreeOf(f, t).size)
Hashed(f, o) == IF o \in TreesOf(f) THEN TreeBytes(f, o) ELSE Data(f, o[1])
HashedOf(f) == TreesOf(f) \cup {<<i, 0>> : i \in 1..PhNum(f)}
Distinct(s) == \A m, n \in DOMAIN s : m # n => s[m] # s[n]

\* In the output of a run that succeeded, every slot that held the digest of a
\* segment or of a tree holds the digest of what it is now, provided that no two
\* slots held the same digest and no section table is in the way.
DigestsFollow ==
  status = "ok" /\ Distinct(SlotsOf(job.image)) /\ SectionsAhead(job.image) =>
    \A s \in DOMAIN SlotsOf(raw), o \in HashedOf(job.image) :
      SlotsOf(job.image)[s].of = Hashed(job.image, o) => SlotsOf(raw)[s].of = Hashed(raw, o)

\* A segment that holds no tree, no header, no metadata and no digest is what it
\* was, wherever the growth of the others moved it.
Bystanders(f) ==
  {i \in 2..PhNum(f) : \A p \in DOMAIN Data(f, i) : Data(f, i)[p].kind = "data"}
OthersIntact ==
  SectionsAhead(job.image) =>
    \A i \in Bystanders(job.image) : Data(raw, i) = Data(job.image, i)

\* The trees of every segment are those it had, in their order, and one without
\* the property is untouched: a patch never cuts into the tree behind it.
TreesInOrder ==
  /\ TreesOf(raw) = TreesOf(job.image)
  /\ \A t \in TreesOf(raw) : TreeOf(raw, t).id = TreeOf(job.image, t).id
  /\ \A t \in TreesOf(raw) \ Carriers(raw) : TreeOf(raw, t) = TreeOf(job.image, t)

\* The headers describe the file whatever grew, and if no section table is in the
\* way, each item of the metadata has the size of its segment.
HeadersAgree ==
  /\ HeadersFollow(raw, job.image)
  /\ elfType = "xbl_config" /\ SectionsAhead(job.image) => ItemsAgree(raw)

\* With an .xz path the output is what it was, or torn while it is compressed, or
\* an image in which no tree failed: never one that is patched in part.
XzAllOrNothing ==
  UsesXz => \/ out \in {OldOutput, Torn}
            \/ tally.errors = 0 /\ Carriers(out.image) = HasValue(out.image)

\* A run ends.
RunEnds == <>(status # "running")

-----------------------------------------------------------------------------
(* The inductive invariant of the proofs.                                   *)

\* The trees to go lie in the segment in memory, one behind the other.
TreesToGo ==
  /\ \A p \in trees : /\ p + delta >= 1 /\ p + delta <= Len(work)
                      /\ work[p + delta].kind = "tree"
                      /\ p + delta + work[p + delta].size - 1 <= Len(work)
  /\ \A p, q \in trees : p < q => p + work[p + delta].size <= q

\* The segment that is patched, next to the one in the file.
SegmentRead ==
  /\ Cellular(work) /\ Bytes(pairs)
  /\ TreesToGo
  /\ elfType = "uefi_dtbs"  => Len(work) >= Ph(raw, Target).filesz
  /\ elfType = "xbl_config" => delta = 0 /\ Len(work) <= Ph(raw, Target).filesz
  /\ SectionsAhead(job.image) /\ trees # {} => Target \notin Bystanders(job.image)

\* The segments to go, none of them the headers or the metadata.
SegmentsToGo ==
  /\ left \subseteq 2..PhNum(job.image)
  /\ pc = "open" => raw = job.image /\ elfType = None /\ left = {}
  /\ pc \in {"segment", "tree"} => elfType # None
  /\ pc \in {"tree", "digests"} => left # {}
  /\ pc = "digests" => elfType = "uefi_dtbs"
  /\ pc = "tree" => SegmentRead
  /\ elfType = "uefi_dtbs" => /\ left \cap Bystanders(job.image) = {}
                              /\ \A i \in left : Ph(raw, i).filesz > 0

MetadataKept ==
  elfType = "xbl_config" =>
    /\ HasMetadata(job.image)
    /\ Ph(raw, 2).filesz = Ph(job.image, 2).filesz
    /\ pc # "done" => ~MetaTruncated(job.image)
    /\ left \subseteq ItemSegments(job.image)
    /\ SectionsAhead(job.image) => Data(raw, 2)[1] = Data(job.image, 2)[1]

IInv == TypeOK /\ SegmentsToGo /\ MetadataKept /\ HeadersAgree /\ OthersIntact

-----------------------------------------------------------------------------
(* What the repository says of the program and the program does not do.     *)

\* The number of patched trees that the run reports is the number of trees that
\* have the new certificate.
CountedAsPatched ==
  status = "ok" => tally.patched = Cardinality(HasValue(raw))

\* A run that succeeded put the content of a certificate file into the trees.
CertificateOfAFile ==
  status = "ok" => \A t \in Carriers(raw) : TreeOf(raw, t).certs[1] # Empty
=============================================================================
