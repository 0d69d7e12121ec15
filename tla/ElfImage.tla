------------------------------ MODULE ElfImage ------------------------------
(***************************************************************************)
(* The bytes patch_capsule_cert.py works on: an ELF file, the device trees *)
(* in its segments, its table of SHA-384 digests, and the operators that   *)
(* the patcher applies to them.                                            *)
(*                                                                         *)
(* A file is a sequence of cells in file order, so that a position, a      *)
(* splice and a search mean what they mean in the file.  A cell is the     *)
(* ELF header, a program or section header, the head of a device tree      *)
(* (its size counts the cells it occupies), an item of the XBLConfig       *)
(* metadata, a digest, or anything else.  Program headers follow the ELF   *)
(* header; header i here is PH#(i-1) in the code.  SHA-384 is injective:   *)
(* the digest of some bytes is those bytes in a slot.                      *)
(***************************************************************************)
EXTENDS Integers, Sequences

CONSTANTS CertLen,    \* value of the certificate property -> its length
          ExtraSpace  \* extra_space: what a tree without room grows by, at least

ASSUME CertLengths ==
  /\ \A v \in DOMAIN CertLen : CertLen[v] \in Nat
  /\ ExtraSpace \in Nat

Cell(k)          == [kind |-> k]
Header(ph, at, n) == [kind |-> "ehdr", phnum |-> ph, shoff |-> at, shnum |-> n]
Phdr(at, n, m, null) == [kind |-> "phdr", off |-> at, filesz |-> n, memsz |-> m, null |-> null]
Shdr(at)         == [kind |-> "shdr", off |-> at]
Meta(n)          == [kind |-> "meta", entries |-> n]
Item(n)          == [kind |-> "item", size |-> n]
Slot(bytes)      == [kind |-> "slot", of |-> bytes]

\* The head of a device tree: the values of the certificate property in the
\* nodes that own it, in the order of the walk, and the room left at the end.
Tree(id, certs, size, free) ==
  [kind |-> "tree", id |-> id, certs |-> certs, size |-> size, free |-> free]

Least(S) == CHOOSE m \in S : \A n \in S : m <= n

-----------------------------------------------------------------------------
(* Reading.                                                                 *)

Slice(f, at, n) == SubSeq(f, at, at + n - 1)

PhNum(f)     == f[1].phnum
Ph(f, i)     == f[i + 1]
Data(f, i)   == Slice(f, Ph(f, i).off, Ph(f, i).filesz)
PhCells(f)   == 2..(PhNum(f) + 1)
ShCells(f)   == f[1].shoff..(f[1].shoff + f[1].shnum - 1)

\* _scan_dtbs: the places of the whole device trees of a segment; the scan goes on
\* behind a tree that it found.
Whole(bytes, p) == bytes[p].kind = "tree" /\ p + bytes[p].size - 1 <= Len(bytes)
Trees(bytes) ==
  {p \in DOMAIN bytes :
     Whole(bytes, p) /\ \A q \in 1..(p - 1) : Whole(bytes, q) => q + bytes[q].size <= p}

\* PH#1 starts with a metadata header; some segment holds the magic of a tree.
HasMetadata(f) == PhNum(f) > 1 /\ Len(Data(f, 2)) > 0 /\ Data(f, 2)[1].kind = "meta"
HasTree(f)     == \E i \in 1..PhNum(f) : \E p \in DOMAIN Data(f, i) : Data(f, i)[p].kind = "tree"

\* _parse_metadata_from_ph raises when the blob ends before its last item.
MetaTruncated(f) == Len(Data(f, 2)) < 1 + Data(f, 2)[1].entries

\* An ELF file as the builds lay it out: PH#0 is the headers, the segments come in
\* the order of their headers, and every cell has its fields.
Bytes(f) == f \in Seq({f[p] : p \in DOMAIN f})
IsCell(c) ==
  /\ c.kind = "tree" => /\ c = Tree(c.id, c.certs, c.size, c.free)
                        /\ c.size \in Nat \ {0} /\ c.free \in Nat
                        /\ c.certs \in Seq(DOMAIN CertLen)
  /\ c.kind = "meta" => c.entries \in Nat
Cellular(f) == \A p \in DOMAIN f : IsCell(f[p])
WellFormed(f) ==
  /\ Bytes(f) /\ Cellular(f)
  /\ f[1] = Header(PhNum(f), f[1].shoff, f[1].shnum)
  /\ PhNum(f) \in Nat \ {0} /\ f[1].shoff \in Nat /\ f[1].shnum \in Nat
  /\ f[1].shnum > 0 => f[1].shoff > PhNum(f) + 1
  /\ \A i \in 1..PhNum(f) :
       /\ Ph(f, i) = Phdr(Ph(f, i).off, Ph(f, i).filesz, Ph(f, i).memsz, Ph(f, i).null)
       /\ Ph(f, i).off \in Nat \ {0} /\ Ph(f, i).filesz \in Nat
       /\ Ph(f, i).off + Ph(f, i).filesz - 1 <= Len(f)
  /\ Ph(f, 1).off = 1 /\ Ph(f, 1).filesz = PhNum(f) + 1
  /\ \A i, j \in 1..PhNum(f) : i < j => Ph(f, i).off + Ph(f, i).filesz <= Ph(f, j).off

\* The segments that the items of the metadata describe: item k is for PH#(k+1), and
\* items without one are passed over.
ItemSegments(f) == {i \in 3..PhNum(f) : i <= Data(f, 2)[1].entries + 2}
ItemsAgree(f) == ~MetaTruncated(f) =>
                   \A i \in ItemSegments(f) : Data(f, 2)[i - 1] = Item(Ph(f, i).filesz)

\* No section table, or one ahead of the segments.
SectionsAhead(f) == \A p \in ShCells(f), i \in 2..PhNum(f) : p < Ph(f, i).off

\* The headers of g describe it as those of f describe f: segments that lie in the
\* file and do not overlap, and a section table ahead of them, whose headers point
\* where the program headers do, has stayed where it was.
HeadersFollow(g, f) ==
  /\ WellFormed(g) /\ PhNum(g) = PhNum(f) /\ g[1].shnum = f[1].shnum
  /\ SectionsAhead(f) =>
       /\ SectionsAhead(g)
       /\ f[1].shnum > 0 => g[1].shoff = f[1].shoff
       /\ \A p \in ShCells(f), i \in 2..PhNum(f) :
            f[p] = Shdr(Ph(f, i).off) => g[p] = Shdr(Ph(g, i).off)

-----------------------------------------------------------------------------
(* One device tree: _set_dtb_property writes the first owner of the        *)
(* property; a tree without room is resized first, once.                   *)
Extra(v) == IF CertLen[v] > ExtraSpace THEN CertLen[v] ELSE ExtraSpace

SetCert(t, v) ==
  LET need == CertLen[v] - CertLen[t.certs[1]]
      more == IF need <= t.free THEN 0 ELSE Extra(v)
  IN [t EXCEPT !.certs[1] = v, !.size = @ + more, !.free = @ + more - need]

TreeCells(t)      == [p \in 1..t.size |-> IF p = 1 THEN t ELSE Cell("body")]
PatchedTree(t, v) == TreeCells(SetCert(t, v))

-----------------------------------------------------------------------------
(* Writing.                                                                 *)

\* f[at : at+n] = new
Splice(f, at, n, new) == SubSeq(f, 1, at - 1) \o new \o SubSeq(f, at + n, Len(f))

\* n zero bytes behind it, if n is positive.
ZeroPadded(bytes, n) == bytes \o [p \in 1..n |-> Cell("zero")]

\* A field written over a section header or an item, or over something else.
WithOffset(c, at) == IF c.kind = "shdr" THEN Shdr(at) ELSE Cell("overwritten")
WithSize(c, n)    == IF c.kind = "item" THEN Item(n) ELSE Cell("overwritten")

\* Where an offset is when "grow" bytes are put in behind "at".
Moved(o, at, grow) == IF o > at THEN o + grow ELSE o

\* Mutant: the program headers keep the old offsets.
SectionsGrown(g, f, at, grow) ==
  [p \in 1..Len(g) |->
     IF p = 1 THEN [g[1] EXCEPT !.shoff = Moved(f[1].shoff, at, grow)]
     ELSE IF p \in ShCells(f) /\ f[p].off > at THEN WithOffset(g[p], Moved(f[p].off, at, grow))
     ELSE g[p]]

\* _update_elf_headers_for_growth: g is the file after the splice at "at", f the
\* one before it, whose header fields and positions it goes by.
HeadersGrown(g, f, at, grow) ==
  [p \in 1..Len(g) |->
     IF p = 1 THEN [g[1] EXCEPT !.shoff = Moved(f[1].shoff, at, grow)]
     ELSE IF p \in PhCells(f) THEN [g[p] EXCEPT !.off = Moved(f[p].off, at, grow)]
     ELSE IF p \in ShCells(f) /\ f[p].off > at THEN WithOffset(g[p], Moved(f[p].off, at, grow))
     ELSE g[p]]

\* Mutant: the item keeps the old size.
ItemKept(f, at, n) == f

\* item_size of the item at a place of the file.
ItemSized(f, at, n) == [f EXCEPT ![at] = WithSize(@, n)]

\* p_filesz and p_memsz.
Sized(f, i, n) == [f EXCEPT ![i + 1].filesz = n, ![i + 1].memsz = n]

\* Segment i replaced by "new" and its sizes set to n, with what is behind it moved
\* and its headers repaired; "pad" zero bytes end the file.
Resegmented(f, i, new, n, pad) ==
  LET ph    == Ph(f, i)
      grow  == Len(new) - ph.filesz
      moved == ZeroPadded(Splice(f, ph.off, ph.filesz, new), pad)
  IN Sized(IF grow # 0 THEN HeadersGrown(moved, f, ph.off, grow) ELSE moved, i, n)

\* bytes.find(digest, lo, hi): the digest is at p and nowhere before it.
FoundAt(f, old, lo, hi, p) ==
  /\ p \in lo..hi /\ f[p] = Slot(old)
  /\ \A q \in lo..(p - 1) : f[q] # Slot(old)

\* Each pair of an old and a new digest, looked up in the file as it was
\* before any was replaced; where two pairs hit one slot, the later one stays.
DigestsReplaced(f, pairs, lo, hi) ==
  LET slots   == {p \in lo..hi : f[p].kind = "slot"}
      hits(p) == {k \in DOMAIN pairs : FoundAt(f, pairs[k][1], lo, hi, p)}
      found   == {p \in slots : hits(p) # {}}
  IN [p \in 1..Len(f) |->
        IF p \in found
        THEN Slot(pairs[CHOOSE k \in hits(p) : \A m \in hits(p) : m <= k][2])
        ELSE f[p]]

\* The segment with the digests: the first PT_NULL one after segment i, or
\* else the whole file.
HashSegments(f, i) == {j \in (i + 1)..PhNum(f) : Ph(f, j).null}
HashSegment(f, i)  == Least(HashSegments(f, i))
HashFirst(f, i) == IF HashSegments(f, i) = {} THEN 1 ELSE Ph(f, HashSegment(f, i)).off
HashLast(f, i)  == IF HashSegments(f, i) = {} THEN Len(f)
                   ELSE HashFirst(f, i) + Ph(f, HashSegment(f, i)).filesz - 1

\* The old and the new digest of a segment whose cells the patch of another one
\* rewrites where they are: PH#0 and the metadata.
SidePair(f, g, s) == <<Data(f, s), Slice(g, Ph(f, s).off, Ph(f, s).filesz)>>
=============================================================================
