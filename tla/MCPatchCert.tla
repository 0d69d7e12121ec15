---------------------------- MODULE MCPatchCert ----------------------------
(***************************************************************************)
(* Images for PatchCert, laid out as the builds of the two ELF files do:   *)
(* ELF header, program headers, then the segments in the order of their    *)
(* headers.  The digests are in a PT_NULL segment behind the trees or      *)
(* ahead of them.                                                          *)
(***************************************************************************)
EXTENDS PatchCert, SequencesExt

CONSTANTS Old, New, Short,  \* contents of certificate files
          Twins,            \* two carriers in one segment of an xbl_config ELF
          Certificates      \* certificate arguments; None: the hex file stays empty

\* The old certificate takes two cells.
MCCertLen == (Old :> 2) @@ (New :> 3) @@ (Short :> 1) @@ (Empty :> 0)

\* A device tree as a segment holds it: without the property, with no room left,
\* with room, and with two owners of the property.
Dtb(id, certs, n, free) == TreeCells(Tree(id, certs, n, free))
Bare(id)  == Dtb(id, <<>>, 1, 0)
Tight(id) == Dtb(id, <<Old>>, 3, 0)
Roomy(id) == Dtb(id, <<Old>>, 4, 1)
Twice(id) == Dtb(id, <<Old, Old>>, 5, 0)
Code(id)  == <<[kind |-> "data", id |-> id], [kind |-> "data", id |-> id + 1]>>

\* The file with segments PH#1, PH#2, ... of these contents, of which the one at
\* place h is the table of digests: of PH#0, of the segments, of the trees if
\* perTree.  A section table ("none", "early", "late") follows the program headers
\* or the segments.
Layout(contents, h, perTree, table) ==
  LET n       == Len(contents) + 1
      others  == SelectSeq(contents, LAMBDA c : c # <<>>)
      treesIn(c) == [k \in 1..Cardinality(Trees(c)) |->
                       Slice(c, Nth(Trees(c), k), c[Nth(Trees(c), k)].size)]
      hashed  == others \o (IF perTree THEN FlattenSeq([i \in DOMAIN others |-> treesIn(others[i])])
                            ELSE <<>>)
      size(i) == IF i = 1 THEN n + 1 ELSE IF i = h + 1 THEN 1 + Len(hashed) ELSE Len(contents[i - 1])
      first   == n + 2 + (IF table = "early" THEN n ELSE 0)
      off(i)  == IF i = 1 THEN 1
                 ELSE first + FoldLeft(LAMBDA a, k : a + size(k), 0, [k \in 1..(i - 2) |-> k + 1])
      shoff   == CASE table = "none" -> 0 [] table = "early" -> n + 2 [] OTHER -> off(n + 1)
      head    == <<Header(n, shoff, IF table = "none" THEN 0 ELSE n)>>
                 \o [i \in 1..n |-> Phdr(off(i), size(i), size(i), i \in {1, h + 1})]
      shdrs   == [i \in 1..n |-> Shdr(IF i = 1 THEN 0 ELSE off(i))]
      slots   == <<Slot(head)>> \o [k \in DOMAIN hashed |-> Slot(hashed[k])]
  IN head \o (IF table = "early" THEN shdrs ELSE <<>>)
     \o FlattenSeq([i \in DOMAIN contents |-> IF i = h THEN slots ELSE contents[i]])
     \o (IF table = "late" THEN shdrs ELSE <<>>)

\* uefi_dtbs: a segment with two trees and one with a tree or with code, the
\* digests behind them or ahead.
UefiImages ==
  {Layout(<<Code(1), a \o b, c, <<>>>>, 4, TRUE, "none") :
     a \in {Bare(1), Tight(1), Roomy(1), Twice(1)}, b \in {Bare(2), Tight(2), Roomy(2)},
     c \in {Code(3), Tight(3) \o Code(3)}}
  \cup {Layout(<<<<>>, a \o Tight(2), Code(3)>>, 1, TRUE, "none") : a \in {Tight(1), Roomy(1)}}
  \cup {Layout(<<Code(1), a \o Bare(2), Tight(3) \o Code(3), <<>>>>, 4, TRUE, "early") :
           a \in {Tight(1), Roomy(1)}}

\* xbl_config: the metadata has an item for each segment behind it.
XblLayout(a, b, extra, entries) ==
  LET items == <<Item(Len(a)), Item(Len(b))>> \o extra
  IN Layout(<<<<Meta(entries)>> \o items, a, b, <<>>>>, 4, FALSE, "none")
XblImages ==
  {XblLayout(a, b, <<>>, 2) : a \in {Code(1), Tight(1), Bare(1) \o Roomy(2), Twice(1) \o Code(1)},
                              b \in {Code(3), Tight(3) \o Bare(4), Roomy(3)}}
  \cup {XblLayout(Tight(1), Code(3), <<Item(4), Item(0)>>, 4), \* an item without a segment
        XblLayout(Tight(1), Code(3), <<>>, 5)}                 \* items that are not there

\* Two trees with the property in one segment.
TwinImages == {XblLayout(Tight(1) \o a, Code(3), <<>>, 2) : a \in {Tight(2), Roomy(2)}}

\* A section table behind the segments.
LateImage == Layout(<<Code(1), Tight(1) \o Bare(2), Code(3), <<>>>>, 4, TRUE, "late")

Images == IF Twins THEN TwinImages
          ELSE UefiImages \cup XblImages
               \cup {LateImage, Layout(<<Code(1), Code(3)>>, 0, FALSE, "none")}

\* Plain and .xz files, and a run whose output replaces its input.
Paths == {<<FALSE, FALSE, FALSE>>, <<FALSE, FALSE, TRUE>>, <<TRUE, TRUE, TRUE>>, <<TRUE, FALSE, FALSE>>}
MCJobs == {[image |-> f, cert |-> c, inXz |-> p[1], outXz |-> p[2], inPlace |-> p[3]] :
             f \in Images, c \in Certificates, p \in Paths}
=============================================================================
