------------------------- MODULE PatchDigestProofs -------------------------
(***************************************************************************)
(* The digests a patched image holds, for every image, every payload and   *)
(* any number of trees: a slot of the table of hashes that held the digest *)
(* of a segment or of a tree holds the digest of what it has become.       *)
(*                                                                         *)
(* A thing with a digest is a pair <<segment, rank>>: the segment itself   *)
(* for rank 0, else the tree of that rank in it.  A version of the image   *)
(* is the sequence of its segments, and the replacements that the patcher  *)
(* makes lead from one version to the next: what a table says of the first *)
(* it says of the second afterwards.                                       *)
(***************************************************************************)
EXTENDS PatchCertProofs

-----------------------------------------------------------------------------
(* The slots of a file of which a part changes.                             *)

\* A segment that keeps its trees is one tree alone exactly if it was.
LEMMA NeutralFills ==
  ASSUME NEW b, NEW c, Bytes(b), Bytes(c), Clean(b), Neutral(b, c)
  PROVE  Fills(c) <=> Fills(b)
<1>1. Trees(c) = Trees(b) /\ \A p \in Trees(b) : c[p] = b[p]
  BY NeutralGrown
<1> QED
  BY <1>1 DEF Fills, Neutral

-----------------------------------------------------------------------------
(* The slots of a file.                                                     *)

\* The cells of segment h.
CellsOf(f, h) == Ph(f, h).off..(Ph(f, h).off + Ph(f, h).filesz - 1)

\* What a list of pairs says of a digest: where it is the old one of a pair the new
\* one is y, and if it is in none of them it stays.
Tells(ps, x, y) ==
  /\ \A k \in DOMAIN ps : ps[k][1] = x => ps[k][2] = y
  /\ (\E k \in DOMAIN ps : ps[k][1] = x) \/ y = x

\* A slot is a cell of its own kind, with one content.
LEMMA SlotOf == \A x, y : (Slot(x) = Slot(y) <=> x = y) /\ Slot(x).kind = "slot" /\ Slot(x).of = x
BY DEF Slot

\* A set of positions that is not empty has a last one.
LEMMA LargestNatural ==
  ASSUME NEW n \in Nat, NEW S, S \subseteq 1..n, S # {}
  PROVE  \E k \in S : \A m \in S : m <= k
<1> DEFINE T == {n - k : k \in S}
<1>1. T \subseteq Nat /\ T # {}
  OBVIOUS
<1>2. PICK x \in T : \A y \in T : x <= y
  <2> HIDE DEF T
  <2> QED
    BY <1>1, LeastNatural
<1>3. PICK k \in S : x = n - k
  BY <1>2
<1>4. ASSUME NEW m \in S
      PROVE  m <= k
  <2>1. n - m \in T
    OBVIOUS
  <2>2. n - k <= n - m
    BY <1>2, <1>3, <2>1
  <2>3. m \in Nat /\ k \in Nat
    OBVIOUS
  <2> HIDE DEF T
  <2> QED
    BY <2>2, <2>3
<1> QED
  BY <1>4

\* A digest that one slot of the searched range holds is replaced in that slot.
LEMMA SlotReplaced ==
  ASSUME NEW f, NEW ps, Bytes(ps), NEW lo, NEW hi, NEW p, p \in lo..hi, p \in 1..Len(f),
         NEW x, f[p] = Slot(x), \A q \in lo..(p - 1) : f[q] # Slot(x),
         NEW y, Tells(ps, x, y)
  PROVE  DigestsReplaced(f, ps, lo, hi)[p] = Slot(y)
<1> DEFINE hits(z) == {k \in DOMAIN ps : FoundAt(f, ps[k][1], lo, hi, z)}
           S == hits(p)
           top == CHOOSE k \in S : \A m \in S : m <= k
           g == DigestsReplaced(f, ps, lo, hi)
<1>1. f[p].kind = "slot"
  BY SlotOf
<1>2. g[p] = IF S # {} THEN Slot(ps[top][2]) ELSE f[p]
  BY <1>1 DEF DigestsReplaced
<1>3. \A k \in DOMAIN ps : k \in S <=> ps[k][1] = x
  BY SlotOf DEF FoundAt
<1>4. DOMAIN ps = 1..Len(ps) /\ Len(ps) \in Nat
  BY BytesElim
<1> HIDE DEF g
<1>5. CASE S = {}
  <2>1. y = x
    BY <1>3, <1>5 DEF Tells
  <2> QED
    BY <1>2, <1>5, <2>1 DEF g
<1>6. CASE S # {}
  <2>1. S \subseteq 1..Len(ps)
    BY <1>4
  <2> HIDE DEF S
  <2>2. \E k \in S : \A m \in S : m <= k
    BY <1>4, <1>6, <2>1, LargestNatural
  <2>3. top \in S
    BY <2>2
  <2> HIDE DEF top
  <2>4. top \in DOMAIN ps /\ ps[top][1] = x
    BY <1>3, <1>4, <2>1, <2>3
  <2>5. ps[top][2] = y
    BY <2>4 DEF Tells
  <2> QED
    BY <1>2, <1>6, <2>5 DEF g
<1> QED
  BY <1>5, <1>6

\* Replaced digests leave the slots where they are.
LEMMA SlotsStay ==
  ASSUME NEW f, Bytes(f), NEW ps, NEW lo, NEW hi
  PROVE  SlotPlaces(DigestsReplaced(f, ps, lo, hi)) = SlotPlaces(f)
<1> DEFINE g == DigestsReplaced(f, ps, lo, hi)
<1>1. /\ Bytes(g) /\ Len(g) = Len(f)
      /\ \A p \in 1..Len(f) : g[p] = f[p] \/ (f[p].kind = "slot" /\ g[p].kind = "slot")
  BY DigestsCells
<1> HIDE DEF g
<1>2. DOMAIN g = 1..Len(f) /\ DOMAIN f = 1..Len(f)
  BY <1>1, BytesElim
<1>3. SlotPlaces(g) = SlotPlaces(f)
  BY <1>1, <1>2 DEF SlotPlaces
<1> QED
  BY <1>3 DEF g

-----------------------------------------------------------------------------
(* The slots of a file in which a segment was replaced.                     *)

\* The headers and the slots of a file in which a segment was replaced.
HeadersRewritten(g, f, i, grow, n) ==
  /\ g[1] = Header(PhNum(f), Moved(f[1].shoff, Ph(f, i).off, grow), f[1].shnum)
  /\ \A j \in 1..PhNum(f) :
       Ph(g, j) = Phdr(Moved(Ph(f, j).off, Ph(f, i).off, grow),
                       IF j = i THEN n ELSE Ph(f, j).filesz,
                       IF j = i THEN n ELSE Ph(f, j).memsz, Ph(f, j).null)
SlotsMoved(g, f, i, grow) ==
  \A p \in SlotPlaces(g) :
    \/ p < Ph(f, i).off /\ p \in SlotPlaces(f)
    \/ \E q \in SlotPlaces(f) : q >= Ph(f, i).off + Ph(f, i).filesz /\ p = q + grow

\* Where a slot of the spliced file was.
LEMMA SplicedSlots ==
  ASSUME NEW f, WellFormed(f), NEW i \in 2..PhNum(f), NEW new, Bytes(new),
         \A q \in 1..Len(new) : new[q].kind # "slot", NEW pad \in Int
  PROVE  SlotsMoved(ZeroPadded(Splice(f, Ph(f, i).off, Ph(f, i).filesz, new), pad), f, i,
                    Len(new) - Ph(f, i).filesz)
<1> DEFINE at == Ph(f, i).off
           n  == Ph(f, i).filesz
           s  == Splice(f, at, n, new)
           g  == ZeroPadded(s, pad)
<1>1. at \in Nat \ {0} /\ n \in Nat /\ at + n - 1 <= Len(f) /\ Len(f) \in Nat /\ Bytes(f)
  BY WellFormedFacts
<1>2. Len(new) \in Nat /\ DOMAIN f = 1..Len(f)
  BY <1>1, BytesElim
<1> HIDE DEF at, n
<1>3. /\ Bytes(s) /\ Len(s) = Len(f) - n + Len(new)
      /\ \A p \in 1..(at - 1) : s[p] = f[p]
      /\ \A p \in 1..Len(new) : s[at + p - 1] = new[p]
      /\ \A p \in (at + n)..Len(f) : s[p - n + Len(new)] = f[p]
  <2>1. IsSplice(s, f, at, n, new)
    BY <1>1, SpliceBytes
  <2> HIDE DEF s
  <2> QED
    BY <2>1 DEF IsSplice
<1> HIDE DEF s
<1>4. /\ Bytes(g) /\ \A p \in 1..Len(g) : g[p] = IF p <= Len(s) THEN s[p] ELSE Cell("zero")
  BY <1>3, ZeroPaddedBytes
<1> HIDE DEF g
<1>5. DOMAIN g = 1..Len(g) /\ Cell("zero").kind # "slot"
  BY <1>4, BytesElim DEF Cell
<1>6. ASSUME NEW p \in SlotPlaces(g)
      PROVE  \/ p < at /\ p \in SlotPlaces(f)
             \/ \E q \in SlotPlaces(f) : q >= at + n /\ p = q + (Len(new) - n)
  <2>1. p \in 1..Len(g) /\ g[p].kind = "slot"
    BY <1>5 DEF SlotPlaces
  <2>2. p \in Nat \ {0} /\ p <= Len(s) /\ s[p].kind = "slot"
    BY <1>4, <1>5, <2>1
  <2>3. CASE p < at
    <3>1. p \in 1..(at - 1) /\ p \in 1..Len(f)
      BY <1>1, <2>2, <2>3
    <3> QED
      BY <1>2, <1>3, <2>2, <2>3, <3>1 DEF SlotPlaces
  <2>4. CASE p >= at /\ p < at + Len(new)
    <3> DEFINE k == p - at + 1
    <3>1. k \in 1..Len(new) /\ p = at + k - 1
      BY <1>1, <1>2, <2>2, <2>4
    <3> HIDE DEF k
    <3> QED
      BY <1>3, <2>2, <3>1
  <2>5. CASE p >= at + Len(new)
    <3> DEFINE k == p - Len(new) + n
    <3>1. k \in (at + n)..Len(f) /\ k \in 1..Len(f) /\ p = k - n + Len(new)
          /\ k >= at + n /\ p = k + (Len(new) - n)
      BY <1>1, <1>2, <1>3, <2>2, <2>5
    <3> HIDE DEF k
    <3>2. k \in SlotPlaces(f)
      BY <1>2, <1>3, <2>2, <3>1 DEF SlotPlaces
    <3> QED
      BY <3>1, <3>2
  <2> QED
    BY <1>1, <1>2, <2>2, <2>3, <2>4, <2>5
<1> QED
  BY <1>6 DEF SlotsMoved, g, s, at, n

\* Rewriting the headers adds no slot.
LEMMA RegrownSlots ==
  ASSUME NEW f, WellFormed(f), NEW i \in 2..PhNum(f), Ph(f, i).filesz > 0,
         NEW grow \in Nat, NEW g, Spliced(g, f, i, grow)
  PROVE  SlotPlaces(HeadersGrown(g, f, Ph(f, i).off, grow)) \subseteq SlotPlaces(g)
<1> DEFINE h == HeadersGrown(g, f, Ph(f, i).off, grow)
<1>1. /\ Bytes(h) /\ Len(h) = Len(g) /\ DOMAIN h = 1..Len(g)
      /\ h[1] = Header(PhNum(f), Moved(f[1].shoff, Ph(f, i).off, grow), f[1].shnum)
      /\ \A j \in 1..PhNum(f) :
           Ph(h, j) = Phdr(Moved(Ph(f, j).off, Ph(f, i).off, grow),
                           Ph(f, j).filesz, Ph(f, j).memsz, Ph(f, j).null)
      /\ \A p \in 1..Len(g) : p > PhNum(f) + 1 =>
           h[p] = IF p \in ShCells(f) /\ f[p].off > Ph(f, i).off
                  THEN WithOffset(g[p], Moved(f[p].off, Ph(f, i).off, grow))
                  ELSE g[p]
  BY HeadersGrownCells
<1> HIDE DEF h
<1>2. Len(g) \in Nat /\ DOMAIN g = 1..Len(g)
  BY BytesElim DEF Spliced
<1>3. PhNum(f) \in Nat \ {0}
  BY WellFormedFacts
<1>4. ASSUME NEW p \in 1..Len(g), h[p].kind = "slot"
      PROVE  g[p].kind = "slot"
  <2>1. CASE p = 1
    BY <1>1, <1>4, <2>1 DEF Header
  <2>2. CASE p \in 2..(PhNum(f) + 1)
    <3>1. p - 1 \in 1..PhNum(f) /\ p - 1 + 1 = p
      BY <1>3, <2>2
    <3>2. Ph(h, p - 1).kind = "phdr"
      BY <1>1, <3>1 DEF Phdr
    <3>3. Ph(h, p - 1) = h[p]
      BY <3>1 DEF Ph
    <3> QED
      BY <1>4, <3>2, <3>3
  <2>3. CASE p > PhNum(f) + 1
    BY <1>1, <1>4, <2>3 DEF WithOffset, Shdr, Cell
  <2> QED
    BY <1>3, <2>1, <2>2, <2>3
<1>5. SlotPlaces(h) \subseteq SlotPlaces(g)
  BY <1>1, <1>2, <1>4 DEF SlotPlaces
<1> QED
  BY <1>5 DEF h

\* The headers and the slots of a file in which segment i grew.
LEMMA ResegmentedCells ==
  ASSUME NEW f, WellFormed(f), NEW i, i \in 2..PhNum(f), Ph(f, i).filesz > 0,
         NEW new, Bytes(new), Cellular(new), Len(new) >= Ph(f, i).filesz,
         NEW n, n \in 0..Len(new), NEW pad, pad \in Int
  PROVE  LET g    == Resegmented(f, i, new, n, pad)
             grow == Len(new) - Ph(f, i).filesz
         IN /\ HeadersRewritten(g, f, i, grow, n)
            /\ (\A q \in 1..Len(new) : new[q].kind # "slot") => SlotsMoved(g, f, i, grow)
<1> DEFINE at    == Ph(f, i).off
           grow  == Len(new) - Ph(f, i).filesz
           moved == ZeroPadded(Splice(f, at, Ph(f, i).filesz, new), pad)
           h     == IF grow # 0 THEN HeadersGrown(moved, f, at, grow) ELSE moved
           g     == Sized(h, i, n)
<1>1. /\ Ph(f, i).filesz \in Nat /\ Len(new) \in Nat /\ grow \in Nat /\ at \in Nat
      /\ i \in 1..PhNum(f) /\ PhNum(f) \in Nat /\ i \in Nat /\ Len(f) \in Nat /\ PhNum(f) + 1 <= Len(f)
  BY WellFormedFacts, BytesElim
<1>2. Spliced(moved, f, i, grow)
  BY SplicedFile
<1>3. Regrown(h, f, i, grow) /\ SlotPlaces(h) \subseteq SlotPlaces(moved)
  <2>1. CASE grow = 0
    <3>1. h = moved
      BY <2>1
    <3> HIDE DEF moved, grow, h
    <3> QED
      BY <1>2, <2>1, <3>1, RegrownSame
  <2>2. CASE grow # 0
    <3>1. h = HeadersGrown(moved, f, at, grow)
      BY <2>2
    <3> HIDE DEF moved, grow, h
    <3> QED
      BY <1>1, <1>2, <3>1, RegrownMore, RegrownSlots
  <2> QED
    BY <2>1, <2>2
<1>4. Resegmented(f, i, new, n, pad) = g
  BY DEF Resegmented
<1>5. (\A q \in 1..Len(new) : new[q].kind # "slot") => SlotsMoved(moved, f, i, grow)
  BY SplicedSlots
<1> HIDE DEF h, grow, moved
<1>6. /\ Bytes(h) /\ Len(h) >= Len(f) + grow
      /\ h[1] = Header(PhNum(f), Moved(f[1].shoff, at, grow), f[1].shnum)
      /\ \A j \in 1..PhNum(f) :
           Ph(h, j) = Phdr(Moved(Ph(f, j).off, at, grow), Ph(f, j).filesz, Ph(f, j).memsz, Ph(f, j).null)
  BY <1>3 DEF Regrown
<1>7. Ph(h, i) = Phdr(Moved(at, at, grow), Ph(f, i).filesz, Ph(f, i).memsz, Ph(f, i).null)
  BY <1>1, <1>6
<1>8. Len(h) \in Nat /\ i + 1 <= Len(h)
  <2>1. Len(h) \in Nat /\ Len(h) >= Len(f) + grow
    BY <1>6, BytesElim
  <2> QED
    BY <1>1, <2>1
<1>9. WithHeader(g, h, i, Phdr(Moved(at, at, grow), n, n, Ph(f, i).null))
  BY <1>1, <1>6, <1>7, <1>8, SizedCells
<1> HIDE DEF g
<1>10. /\ Bytes(g) /\ Len(g) = Len(h) /\ DOMAIN g = 1..Len(h)
       /\ Ph(g, i) = Phdr(Moved(at, at, grow), n, n, Ph(f, i).null)
       /\ \A p \in 1..Len(h) : p # i + 1 => g[p] = h[p]
  BY <1>9 DEF WithHeader
<1>11. HeadersRewritten(g, f, i, grow, n)
  <2>1. g[1] = h[1]
    <3>1. 1 \in 1..Len(h) /\ 1 # i + 1
      BY <1>1, <1>8
    <3> QED
      BY <1>10, <3>1
  <2>2. ASSUME NEW j \in 1..PhNum(f), j # i
        PROVE  Ph(g, j) = Ph(h, j)
    <3>1. j + 1 \in 1..Len(h) /\ j + 1 # i + 1
      <4>1. Len(h) >= Len(f) + grow
        BY <1>6
      <4>2. j \in Nat /\ 1 <= j /\ j <= PhNum(f)
        BY <1>1
      <4> QED
        BY <1>1, <1>8, <2>2, <4>1, <4>2
    <3> QED
      BY <1>10, <3>1 DEF Ph
  <2> QED
    BY <1>6, <1>10, <2>1, <2>2 DEF HeadersRewritten
<1>12. SlotPlaces(g) \subseteq SlotPlaces(h)
  <2>1. g[i + 1].kind = "phdr"
    BY <1>10 DEF Ph, Phdr
  <2>2. DOMAIN h = 1..Len(h)
    BY <1>6, BytesElim
  <2> QED
    BY <1>10, <2>1, <2>2 DEF SlotPlaces
<1>13. SlotPlaces(g) \subseteq SlotPlaces(moved)
  BY <1>3, <1>12
<1>14. (\A q \in 1..Len(new) : new[q].kind # "slot") => SlotsMoved(g, f, i, grow)
  BY <1>5, <1>13 DEF SlotsMoved
<1> QED
  BY <1>4, <1>11, <1>14 DEF g, grow

\* The slots of one segment are in that segment still, wherever it has moved.
LEMMA ResegmentedSlots ==
  ASSUME NEW f, WellFormed(f), NEW i, i \in 2..PhNum(f), Ph(f, i).filesz > 0,
         NEW new, Bytes(new), Cellular(new), Len(new) >= Ph(f, i).filesz,
         NEW n, n \in 0..Len(new), NEW pad, pad \in Int,
         \A q \in 1..Len(new) : new[q].kind # "slot",
         NEW h, h \in 2..PhNum(f), h # i, SlotPlaces(f) \subseteq CellsOf(f, h)
  PROVE  SlotPlaces(Resegmented(f, i, new, n, pad)) \subseteq CellsOf(Resegmented(f, i, new, n, pad), h)
<1> DEFINE g    == Resegmented(f, i, new, n, pad)
           grow == Len(new) - Ph(f, i).filesz
           at   == Ph(f, i).off
           len  == Ph(f, i).filesz
           off  == Ph(f, h).off
           sz   == Ph(f, h).filesz
<1>1. HeadersRewritten(g, f, i, grow, n) /\ SlotsMoved(g, f, i, grow)
  BY ResegmentedCells
<1>2. h \in 1..PhNum(f) /\ i \in 1..PhNum(f) /\ h \in Nat /\ i \in Nat
  BY WellFormedFacts
<1>3. /\ at \in Nat /\ len \in Nat \ {0} /\ off \in Nat /\ sz \in Nat
      /\ h < i => off + sz <= at
      /\ i < h => at + len <= off
  BY <1>2, WellFormedFacts
<1>4. grow \in Nat
  <2>1. Len(new) \in Nat
    BY BytesElim
  <2> HIDE DEF g
  <2> QED
    BY <1>3, <2>1
<1> HIDE DEF g, grow
<1>5. Ph(g, h).off = Moved(off, at, grow) /\ Ph(g, h).filesz = sz
  <2>1. Ph(g, h) = Phdr(Moved(off, at, grow), sz, Ph(f, h).memsz, Ph(f, h).null)
    BY <1>1, <1>2 DEF HeadersRewritten
  <2> QED
    BY <2>1 DEF Phdr
<1>6. \A q \in SlotPlaces(f) : q \in Nat /\ off <= q /\ q <= off + sz - 1
  BY <1>3 DEF CellsOf
<1>7. \A p \in SlotPlaces(g) :
        \/ p < at /\ p \in SlotPlaces(f)
        \/ \E q \in SlotPlaces(f) : q >= at + len /\ p = q + grow
  BY <1>1 DEF SlotsMoved
<1>8. h < i \/ i < h
  BY <1>2
<1> HIDE DEF at, len, off, sz
<1>9. ASSUME NEW p \in SlotPlaces(g)
      PROVE  p \in Ph(g, h).off..(Ph(g, h).off + Ph(g, h).filesz - 1)
  <2>1. CASE h < i
    <3>1. Ph(g, h).off = off \/ off + sz <= off
      BY <1>3, <1>5, <2>1 DEF Moved
    <3>2. \A q \in SlotPlaces(f) : q < at
      BY <1>3, <1>6, <2>1
    <3>3. p \in SlotPlaces(f)
      BY <1>3, <1>6, <1>7, <3>2
    <3> QED
      BY <1>3, <1>5, <1>6, <3>1, <3>3
  <2>2. CASE i < h
    <3>1. Ph(g, h).off = off + grow
      BY <1>3, <1>5, <2>2 DEF Moved
    <3>2. \A q \in SlotPlaces(f) : ~(q < at)
      BY <1>3, <1>6, <2>2
    <3>3. PICK q \in SlotPlaces(f) : p = q + grow
      BY <1>7, <3>2
    <3> QED
      BY <1>3, <1>4, <1>5, <1>6, <3>1, <3>3
  <2> QED
    BY <1>8, <2>1, <2>2
<1> QED
  BY <1>9 DEF CellsOf, g

\* PH#0 is what it was when a segment keeps its sizes.
LEMMA HeadersSame ==
  ASSUME NEW f, WellFormed(f), NEW i, i \in 2..PhNum(f), NEW g, WellFormed(g), PhNum(g) = PhNum(f),
         HeadersRewritten(g, f, i, 0, Ph(f, i).filesz), Ph(f, i).memsz = Ph(f, i).filesz
  PROVE  Data(g, 1) = Data(f, 1)
<1>1. /\ PhNum(f) \in Nat \ {0} /\ f[1].shoff \in Nat /\ 1 \in 1..PhNum(f)
      /\ f[1] = Header(PhNum(f), f[1].shoff, f[1].shnum)
      /\ Ph(f, 1).off = 1 /\ Ph(f, 1).filesz = PhNum(f) + 1
      /\ Ph(g, 1).off = 1 /\ Ph(g, 1).filesz = PhNum(f) + 1
      /\ \A j \in 1..PhNum(f) :
           /\ Ph(f, j) = Phdr(Ph(f, j).off, Ph(f, j).filesz, Ph(f, j).memsz, Ph(f, j).null)
           /\ Ph(f, j).off \in Nat
  BY WellFormedFacts
<1>2. \A o \in Nat : Moved(o, Ph(f, i).off, 0) = o
  BY DEF Moved
<1>3. g[1] = f[1]
  BY <1>1, <1>2 DEF HeadersRewritten
<1>4. \A j \in 1..PhNum(f) : Ph(g, j) = Ph(f, j)
  BY <1>1, <1>2 DEF HeadersRewritten
<1>5. ASSUME NEW q \in 1..(PhNum(f) + 1)
      PROVE  g[1 + q - 1] = f[1 + q - 1]
  <2>1. 1 + q - 1 = q
    BY <1>1
  <2>2. CASE q = 1
    BY <1>3, <2>1, <2>2
  <2>3. CASE q # 1
    <3>1. q - 1 \in 1..PhNum(f) /\ q - 1 + 1 = q
      BY <1>1, <2>3
    <3>2. g[q - 1 + 1] = f[q - 1 + 1]
      BY <1>4, <3>1 DEF Ph
    <3> QED
      BY <2>1, <3>1, <3>2
  <2> QED
    BY <2>2, <2>3
<1> QED
  BY <1>1, <1>5, DataEqual

-----------------------------------------------------------------------------
(* What a table of digests is about: the segments and the trees in them.    *)

\* The segments of a file.  A digest is that of a thing: a segment, or a tree in it.
Segments(f) == [i \in 1..PhNum(f) |-> Data(f, i)]
Piece(s, o) == IF o[2] = 0 THEN s[o[1]] ELSE TreeAt(s[o[1]], o[2])
Things(f, h) == HashedOf(f) \ {<<h, 0>>}

\* Segment h is the table of digests, and the other segments are those of the builds.
IsMetadata(f, i) == i = 2 /\ HasMetadata(f)
HasTable(f, h) ==
  /\ h \in 2..PhNum(f) /\ SlotPlaces(f) \subseteq CellsOf(f, h)
  /\ Trees(Data(f, h)) = {} /\ ~IsMetadata(f, h)
  /\ \A p \in SlotPlaces(f) : /\ f[p].of # Data(f, h)
                              /\ \E o \in Things(f, h) : f[p] = Slot(Hashed(f, o))
  /\ \A i \in 2..PhNum(f) : i # h => \/ i \in Bystanders(f)
                                     \/ (Trees(Data(f, i)) = {} <=> IsMetadata(f, i))
  /\ ~HasMetadata(f) => \A i \in 2..PhNum(f) :
                          /\ Ph(f, i).null => i = h
                          /\ Trees(Data(f, i)) # {} => Ph(f, i).memsz = Ph(f, i).filesz
  /\ HasMetadata(f) => \A t \in TreesOf(f), p \in SlotPlaces(f) :
                         f[p] = Slot(Hashed(f, t)) => Fills(Data(f, t[1]))
NamedTrees(f) == \A t, u \in TreesOf(f) : TreeOf(f, t).id = TreeOf(f, u).id => t = u

\* A version of the segments of f: what patches and repaired headers make of them.
Kept(b, c) ==
  /\ Cardinality(Trees(c)) = Cardinality(Trees(b))
  /\ \A k \in 1..Cardinality(Trees(b)) : c[Nth(Trees(c), k)].id = b[Nth(Trees(b), k)].id
  /\ Fills(c) <=> Fills(b)
Version(f, s) ==
  /\ \A i \in 1..PhNum(f) : Bytes(s[i]) /\ Cellular(s[i])
  /\ 1 \in DOMAIN s[1] /\ s[1][1].kind = "ehdr" /\ Trees(s[1]) = {}
  /\ HasMetadata(f) => 1 \in DOMAIN s[2] /\ s[2][1].kind = "meta"
  /\ \A i \in 2..PhNum(f) : IF i \in Bystanders(f) THEN s[i] = Data(f, i)
                            ELSE Kept(Data(f, i), s[i])

\* The trees of a segment are finitely many.
LEMMA TreesCounted ==
  ASSUME NEW b, Bytes(b)
  PROVE  /\ Cardinality(Trees(b)) \in Nat
         /\ Cardinality(Trees(b)) = 0 <=> Trees(b) = {}
<1>1. Len(b) \in Nat /\ Trees(b) \in SUBSET (1..Len(b))
  BY TreesFound
<1>2. IsFiniteSet(Trees(b)) /\ Cardinality(Trees(b)) \in Nat
  BY <1>1, RankOfLast
<1> QED
  BY <1>2, FS_EmptySet

\* The tree that a thing is, or begins with.
FirstTree(o) == IF o[2] = 0 THEN <<o[1], 1>> ELSE o
Lead(b)      == b[Nth(Trees(b), 1)].id

\* What a thing is: a tree or a segment, and its bytes in the file.
LEMMA ThingKinds ==
  ASSUME NEW f, WellFormed(f), NEW h, NEW o \in Things(f, h)
  PROVE  /\ o[1] \in 1..PhNum(f) /\ o = <<o[1], o[2]>> /\ o[2] \in 0..Cardinality(Trees(Data(f, o[1])))
         /\ o \in TreesOf(f) <=> o[2] # 0
         /\ Hashed(f, o) = Piece(Segments(f), o)
         /\ o[2] = 0 => o[1] # h
<1>1. \A i \in 1..PhNum(f) : Cardinality(Trees(Data(f, i))) \in Nat
  BY DataCells, TreesCounted
<1>2. \A t \in TreesOf(f) : \E i \in 1..PhNum(f) : \E k \in 1..Cardinality(Trees(Data(f, i))) : t = <<i, k>>
  BY DEF TreesOf
<1>3. CASE o \in TreesOf(f)
  <2>5. PICK i \in 1..PhNum(f) : \E k \in 1..Cardinality(Trees(Data(f, i))) : o = <<i, k>>
    BY <1>2, <1>3
  <2>1. PICK k \in 1..Cardinality(Trees(Data(f, i))) : o = <<i, k>>
    BY <2>5
  <2>2. k # 0 /\ k \in 0..Cardinality(Trees(Data(f, i)))
    BY <1>1
  <2>3. Hashed(f, o) = TreeAt(Data(f, i), k)
    BY <1>3, <2>1 DEF Hashed, TreeBytes, TreeOf, PlaceOf, TreeAt
  <2> QED
    BY <1>3, <2>1, <2>2, <2>3 DEF Piece, Segments
<1>4. CASE o \notin TreesOf(f)
  <2>1. PICK i \in 1..PhNum(f) : o = <<i, 0>>
    BY <1>4 DEF Things, HashedOf
  <2>2. 0 \in 0..Cardinality(Trees(Data(f, i)))
    BY <1>1
  <2>3. Hashed(f, o) = Data(f, i)
    BY <1>4, <2>1 DEF Hashed
  <2>4. i # h
    BY <2>1 DEF Things
  <2> QED
    BY <1>4, <2>1, <2>2, <2>3, <2>4 DEF Piece, Segments
<1> QED
  BY <1>3, <1>4

\* A bystander has no trees.
LEMMA BystanderTrees ==
  ASSUME NEW f, WellFormed(f), NEW i \in Bystanders(f)
  PROVE  Trees(Data(f, i)) = {} /\ i \in 2..PhNum(f)
BY BystanderFacts

\* A thing without a tree is a segment, and has none in any version.
LEMMA TreelessPiece ==
  ASSUME NEW f, WellFormed(f), NEW h, HasTable(f, h), NEW s, Version(f, s),
         NEW o \in Things(f, h), Trees(Data(f, o[1])) = {}
  PROVE  /\ o = <<o[1], 0>> /\ Piece(s, o) = s[o[1]] /\ Trees(Piece(s, o)) = {}
         /\ o[1] = 1 \/ IsMetadata(f, o[1]) \/ o[1] \in Bystanders(f)
<1>1. /\ o[1] \in 1..PhNum(f) /\ o = <<o[1], o[2]>> /\ o[2] \in 0..Cardinality(Trees(Data(f, o[1])))
      /\ o[2] = 0 => o[1] # h
  BY ThingKinds
<1>2. Bytes(Data(f, o[1]))
  BY <1>1, DataCells
<1>3. Cardinality(Trees(Data(f, o[1]))) = 0
  BY <1>2, TreesCounted
<1>4. o[2] = 0
  BY <1>1, <1>3
<1>5. Piece(s, o) = s[o[1]]
  BY <1>4 DEF Piece
<1>6. CASE o[1] = 1
  BY <1>1, <1>4, <1>5, <1>6 DEF Version
<1>7. CASE o[1] # 1
  <2>1. o[1] \in 2..PhNum(f)
    BY <1>1, <1>7, WellFormedFacts
  <2>2. IsMetadata(f, o[1]) \/ o[1] \in Bystanders(f)
    BY <1>1, <1>4, <2>1 DEF HasTable
  <2>3. CASE o[1] \in Bystanders(f)
    BY <1>1, <1>4, <1>5, <2>1, <2>2, <2>3 DEF Version
  <2>4. CASE o[1] \notin Bystanders(f)
    <3>1. Bytes(s[o[1]]) /\ Cardinality(Trees(s[o[1]])) = 0
      BY <1>1, <1>3, <2>1, <2>4 DEF Version, Kept
    <3> QED
      BY <1>1, <1>4, <1>5, <2>2, <3>1, TreesCounted
  <2> QED
    BY <2>3, <2>4
<1> QED
  BY <1>6, <1>7

\* A thing with trees begins with one that keeps its name in every version.
LEMMA TreePiece ==
  ASSUME NEW f, WellFormed(f), NEW h, HasTable(f, h), NEW s, Version(f, s),
         NEW o \in Things(f, h), Trees(Data(f, o[1])) # {}
  PROVE  /\ o[1] \in 2..PhNum(f) /\ Kept(Data(f, o[1]), s[o[1]])
         /\ Bytes(s[o[1]]) /\ Cellular(s[o[1]])
         /\ FirstTree(o) \in TreesOf(f)
         /\ Trees(Piece(s, o)) # {} /\ Lead(Piece(s, o)) = TreeOf(f, FirstTree(o)).id
<1> DEFINE i == o[1]
           b == Data(f, i)
           c == s[i]
<1>1. i \in 1..PhNum(f) /\ o = <<i, o[2]>> /\ o[2] \in 0..Cardinality(Trees(b))
  BY ThingKinds
<1>2. i \in 2..PhNum(f)
  <2>1. i # 1
    BY NoTreeInHeaders
  <2> HIDE DEF i
  <2> QED
    BY <1>1, <2>1, WellFormedFacts
<1>3. Kept(b, c) /\ Bytes(c) /\ Cellular(c) /\ Bytes(b)
  <2>1. i \notin Bystanders(f)
    BY BystanderTrees
  <2>2. Kept(b, c) /\ Bytes(c) /\ Cellular(c)
    BY <1>1, <1>2, <2>1 DEF Version
  <2>3. Bytes(b)
    BY <1>1, DataCells
  <2> QED
    BY <2>2, <2>3
<1>4. /\ Cardinality(Trees(c)) = Cardinality(Trees(b)) /\ Cardinality(Trees(b)) \in Nat \ {0}
      /\ \A k \in 1..Cardinality(Trees(b)) : c[Nth(Trees(c), k)].id = b[Nth(Trees(b), k)].id
  BY <1>3, TreesCounted DEF Kept
<1>5. FirstTree(o) = <<i, IF o[2] = 0 THEN 1 ELSE o[2]>>
  BY <1>1 DEF FirstTree
<1>6. \A k \in 1..Cardinality(Trees(b)) :
        <<i, k>> \in TreesOf(f) /\ TreeOf(f, <<i, k>>).id = b[Nth(Trees(b), k)].id
  BY <1>1 DEF TreesOf, TreeOf, PlaceOf
<1>7. (IF o[2] = 0 THEN 1 ELSE o[2]) \in 1..Cardinality(Trees(b))
  BY <1>1, <1>4
<1>8. FirstTree(o) \in TreesOf(f)
  BY <1>5, <1>6, <1>7
<1>9. CASE o[2] = 0
  <2>1. Piece(s, o) = c /\ Trees(c) # {}
    BY <1>3, <1>4, <1>9, TreesCounted DEF Piece
  <2>2. Lead(c) = TreeOf(f, FirstTree(o)).id
    BY <1>4, <1>5, <1>6, <1>7, <1>9 DEF Lead
  <2> QED
    BY <1>2, <1>3, <1>8, <2>1, <2>2
<1>10. CASE o[2] # 0
  <2> DEFINE k == o[2]
             t == TreeAt(c, k)
  <2>1. k \in 1..Cardinality(Trees(c)) /\ Piece(s, o) = t
    BY <1>1, <1>4, <1>10 DEF Piece
  <2>2. Bytes(t) /\ t[1] = c[Nth(Trees(c), k)]
    BY <1>3, <2>1, TreeAtCells
  <2>3. Fills(t)
    BY <1>3, <2>1, AloneFills
  <2>4. 1 \in Trees(t) /\ Nth(Trees(t), 1) = 1
    BY <2>2, <2>3, FirstPlace DEF Fills
  <2>5. Lead(t) = TreeOf(f, FirstTree(o)).id
    <3>1. Lead(t) = t[1].id
      BY <2>4 DEF Lead
    <3>2. FirstTree(o) = <<i, k>>
      BY <1>5, <1>10
    <3> HIDE DEF t, c, b, i, k
    <3> QED
      BY <1>4, <1>6, <2>1, <2>2, <3>1, <3>2
  <2> QED
    BY <1>2, <1>3, <1>8, <2>1, <2>4, <2>5
<1> QED
  BY <1>9, <1>10

\* Two things with the same bytes in one version have the same bytes in every other.
LEMMA SameContent ==
  ASSUME NEW f, WellFormed(f), NEW h, HasTable(f, h), NamedTrees(f),
         NEW s, Version(f, s), NEW z, Version(f, z),
         NEW o \in Things(f, h), NEW u \in Things(f, h), Piece(s, o) = Piece(s, u)
  PROVE  Piece(z, o) = Piece(z, u)
<1>1. CASE Trees(Data(f, o[1])) = {} /\ Trees(Data(f, u[1])) = {}
  <2>1. /\ o = <<o[1], 0>> /\ u = <<u[1], 0>> /\ s[o[1]] = s[u[1]]
        /\ Piece(z, o) = z[o[1]] /\ Piece(z, u) = z[u[1]]
        /\ o[1] = 1 \/ IsMetadata(f, o[1]) \/ o[1] \in Bystanders(f)
        /\ u[1] = 1 \/ IsMetadata(f, u[1]) \/ u[1] \in Bystanders(f)
    BY <1>1, TreelessPiece
  <2>2. \A i \in Bystanders(f) : /\ s[i] = Data(f, i) /\ z[i] = Data(f, i)
                                 /\ 1 \in DOMAIN s[i] => s[i][1].kind = "data"
    BY BystanderTrees DEF Version, Bystanders
  <2>3. 1 \in DOMAIN s[1] /\ s[1][1].kind = "ehdr"
    BY DEF Version
  <2>4. \A i : IsMetadata(f, i) => i = 2 /\ 1 \in DOMAIN s[i] /\ s[i][1].kind = "meta"
    BY DEF Version, IsMetadata
  <2>5. z[o[1]] = z[u[1]]
    BY <2>1, <2>2, <2>3, <2>4
  <2> QED
    BY <2>1, <2>5
<1>2. CASE Trees(Data(f, o[1])) # {} /\ Trees(Data(f, u[1])) # {}
  <2>1. FirstTree(o) = FirstTree(u)
    BY <1>2, TreePiece DEF NamedTrees
  <2>2. /\ o = <<o[1], o[2]>> /\ u = <<u[1], u[2]>>
    BY ThingKinds
  <2>3. \/ o = u
        \/ \E i : \/ o = <<i, 0>> /\ u = <<i, 1>>
                  \/ o = <<i, 1>> /\ u = <<i, 0>>
    BY <2>1, <2>2 DEF FirstTree
  <2>4. ASSUME NEW i, \/ o = <<i, 0>> /\ u = <<i, 1>>
                      \/ o = <<i, 1>> /\ u = <<i, 0>>
        PROVE  Piece(z, o) = Piece(z, u)
    <3>1. o[1] = i /\ u[1] = i
      BY <2>4
    <3>2. /\ Kept(Data(f, i), s[i]) /\ Bytes(s[i]) /\ Cellular(s[i])
          /\ Kept(Data(f, i), z[i]) /\ Bytes(z[i]) /\ Cellular(z[i])
          /\ Bytes(Data(f, i)) /\ Trees(Data(f, i)) # {}
      <4>1. i \in 1..PhNum(f)
        BY <3>1, ThingKinds
      <4>2. Bytes(Data(f, i))
        BY <4>1, DataCells
      <4> QED
        BY <1>2, <3>1, <4>2, TreePiece
    <3>8. \A v : Piece(v, <<i, 0>>) = v[i] /\ Piece(v, <<i, 1>>) = TreeAt(v[i], 1)
      BY DEF Piece
    <3>3. s[i] = TreeAt(s[i], 1)
      BY <2>4, <3>8
    <3>4. 1 \in 1..Cardinality(Trees(s[i]))
      BY <3>2, TreesCounted DEF Kept
    <3>5. Fills(s[i])
      BY <3>2, <3>3, <3>4, AloneFills
    <3>6. Fills(z[i])
      BY <3>2, <3>5 DEF Kept
    <3>7. TreeAt(z[i], 1) = z[i]
      BY <3>2, <3>6, FillsWhole
    <3> QED
      BY <2>4, <3>7, <3>8
  <2> QED
    BY <2>3, <2>4
<1>3. CASE Trees(Data(f, o[1])) = {} /\ Trees(Data(f, u[1])) # {}
  BY <1>3, TreelessPiece, TreePiece
<1>4. CASE Trees(Data(f, o[1])) # {} /\ Trees(Data(f, u[1])) = {}
  BY <1>4, TreelessPiece, TreePiece
<1> QED
  BY <1>1, <1>2, <1>3, <1>4

-----------------------------------------------------------------------------
(* What the replacements make of the table.                                 *)

\* The places of the slots in the table, a file g that has kept the table of f, and what
\* a table says of a version of the segments of f.
TableSlots(f, h) == {q \in DOMAIN Data(f, h) : Data(f, h)[q].kind = "slot"}
InTable(g, f, h) ==
  /\ WellFormed(g) /\ PhNum(g) = PhNum(f)
  /\ SlotPlaces(g) \subseteq CellsOf(g, h)
  /\ Ph(g, h).filesz = Ph(f, h).filesz /\ TableSlots(g, h) = TableSlots(f, h)
Follows(f, h, tab, s) ==
  \A q \in TableSlots(f, h), o \in Things(f, h) :
    Data(f, h)[q] = Slot(Hashed(f, o)) => tab[q] = Slot(Piece(s, o))

\* Pairs of digests that lead from one version to another.
Held(f, o) == \E p \in SlotPlaces(f) : f[p] = Slot(Hashed(f, o))
HasPair(ps, s, z, o) == \E k \in DOMAIN ps : ps[k] = <<Piece(s, o), Piece(z, o)>>
Leads(f, h, ps, s, z) ==
  /\ \A k \in DOMAIN ps : \E o \in Things(f, h) : ps[k] = <<Piece(s, o), Piece(z, o)>>
  /\ \A o \in Things(f, h) : Held(f, o) => Piece(z, o) = Piece(s, o) \/ HasPair(ps, s, z, o)
UniqueSlots(f) == \A p, q \in SlotPlaces(f) : f[p] = f[q] => p = q

\* A slot of the table as a cell of the file, and the other way round.
LEMMA SlotCells ==
  ASSUME NEW f, WellFormed(f), NEW h \in 1..PhNum(f)
  PROVE  /\ \A q \in TableSlots(f, h) : /\ q \in 1..Ph(f, h).filesz
                                        /\ Ph(f, h).off + q - 1 \in SlotPlaces(f)
                                        /\ Ph(f, h).off + q - 1 \in CellsOf(f, h)
                                        /\ f[Ph(f, h).off + q - 1] = Data(f, h)[q]
         /\ \A p \in SlotPlaces(f) : p \in CellsOf(f, h) =>
              /\ p - Ph(f, h).off + 1 \in TableSlots(f, h)
              /\ Data(f, h)[p - Ph(f, h).off + 1] = f[p]
<1> DEFINE at == Ph(f, h).off
           n  == Ph(f, h).filesz
           d  == Data(f, h)
<1>1. /\ at \in Nat \ {0} /\ n \in Nat /\ at + n - 1 <= Len(f) /\ Len(f) \in Nat /\ DOMAIN f = 1..Len(f)
  BY WellFormedFacts
<1>2. DOMAIN d = 1..n /\ \A q \in 1..n : d[q] = f[at + q - 1]
  BY DataCells
<1> HIDE DEF at, n, d
<1>3. ASSUME NEW q \in 1..n, d[q].kind = "slot"
      PROVE  at + q - 1 \in SlotPlaces(f) /\ at + q - 1 \in at..(at + n - 1)
  <2>1. at + q - 1 \in 1..Len(f) /\ at + q - 1 \in at..(at + n - 1)
    BY <1>1
  <2> QED
    BY <1>1, <1>2, <1>3, <2>1 DEF SlotPlaces
<1>4. ASSUME NEW p \in SlotPlaces(f), p \in at..(at + n - 1)
      PROVE  p - at + 1 \in 1..n /\ d[p - at + 1] = f[p] /\ f[p].kind = "slot"
  <2>1. p - at + 1 \in 1..n /\ at + (p - at + 1) - 1 = p
    BY <1>1, <1>4
  <2>2. d[p - at + 1] = f[p]
    BY <1>2, <2>1
  <2> QED
    BY <2>1, <2>2 DEF SlotPlaces
<1> QED
  BY <1>2, <1>3, <1>4 DEF TableSlots, CellsOf, at, n, d

\* The other segments have no slots, and a search does not change them.
LEMMA SlotlessData ==
  ASSUME NEW g, WellFormed(g), NEW h \in 1..PhNum(g), SlotPlaces(g) \subseteq CellsOf(g, h),
         NEW i, i \in 1..PhNum(g), i # h
  PROVE  \A q \in 1..Len(Data(g, i)) : Data(g, i)[q].kind # "slot"
<1> DEFINE d == Data(g, i)
<1>1. /\ Len(d) = Ph(g, i).filesz /\ DOMAIN d = 1..Ph(g, i).filesz
  BY DataCells
<1>2. SUFFICES ASSUME NEW q \in 1..Len(d), d[q].kind = "slot"
               PROVE  FALSE
  OBVIOUS
<1>3. q \in TableSlots(g, i)
  BY <1>1, <1>2 DEF TableSlots
<1>4. Ph(g, i).off + q - 1 \in CellsOf(g, h) /\ q \in 1..Ph(g, i).filesz
  BY <1>3, SlotCells
<1>5. /\ Ph(g, i).off \in Nat /\ Ph(g, i).filesz \in Nat
      /\ Ph(g, h).off \in Nat /\ Ph(g, h).filesz \in Nat
      /\ i < h => Ph(g, i).off + Ph(g, i).filesz <= Ph(g, h).off
      /\ h < i => Ph(g, h).off + Ph(g, h).filesz <= Ph(g, i).off
  BY WellFormedFacts
<1>6. i < h \/ h < i
  <2>1. PhNum(g) \in Nat
    BY WellFormedFacts
  <2> QED
    BY <2>1
<1> HIDE DEF d
<1> QED
  BY <1>4, <1>5, <1>6 DEF CellsOf

\* Replaced digests touch the table and no other segment.
LEMMA DigestsElsewhere ==
  ASSUME NEW g, WellFormed(g), NEW h \in 1..PhNum(g), SlotPlaces(g) \subseteq CellsOf(g, h),
         NEW ps, NEW lo, NEW hi, NEW i, i \in 1..PhNum(g), i # h
  PROVE  Data(DigestsReplaced(g, ps, lo, hi), i) = Data(g, i)
<1>1. \A q \in 1..Len(Data(g, i)) : Data(g, i)[q].kind # "slot"
  BY SlotlessData
<1> QED
  BY <1>1, DigestsFile

\* The segments of the file are a version of it.
LEMMA VersionItself ==
  ASSUME NEW f, WellFormed(f)
  PROVE  Version(f, Segments(f))
<1>1. \A i \in 1..PhNum(f) : Bytes(Data(f, i)) /\ Cellular(Data(f, i))
  <2>1. ASSUME NEW i \in 1..PhNum(f)
        PROVE  Cellular(Data(f, i))
    <3>1. /\ Len(f) \in Nat /\ \A p \in 1..Len(f) : IsCell(f[p])
          /\ Ph(f, i).off \in Nat \ {0} /\ Ph(f, i).filesz \in Nat
          /\ Ph(f, i).off + Ph(f, i).filesz - 1 <= Len(f)
      BY WellFormedFacts
    <3>2. /\ DOMAIN Data(f, i) = 1..Ph(f, i).filesz
          /\ \A q \in 1..Ph(f, i).filesz : Data(f, i)[q] = f[Ph(f, i).off + q - 1]
      BY DataCells
    <3>3. \A q \in 1..Ph(f, i).filesz : Ph(f, i).off + q - 1 \in 1..Len(f)
      BY <3>1
    <3> QED
      BY <3>1, <3>2, <3>3 DEF Cellular
  <2> QED
    BY <2>1, DataCells
<1>2. 1 \in DOMAIN Data(f, 1) /\ Data(f, 1)[1].kind = "ehdr" /\ 1 \in 1..PhNum(f)
  <2>1. /\ PhNum(f) \in Nat \ {0} /\ Ph(f, 1).off = 1 /\ Ph(f, 1).filesz = PhNum(f) + 1
        /\ f[1] = Header(PhNum(f), f[1].shoff, f[1].shnum)
    BY WellFormedFacts
  <2>2. /\ DOMAIN Data(f, 1) = 1..(PhNum(f) + 1)
        /\ \A q \in 1..(PhNum(f) + 1) : Data(f, 1)[q] = f[1 + q - 1]
    BY <2>1, DataCells
  <2>3. 1 \in 1..(PhNum(f) + 1) /\ 1 + 1 - 1 = 1 /\ 1 \in 1..PhNum(f)
    BY <2>1
  <2>4. Data(f, 1)[1] = f[1]
    BY <2>2, <2>3
  <2> QED
    BY <2>1, <2>2, <2>3, <2>4 DEF Header
<1>3. HasMetadata(f) => 2 \in 1..PhNum(f) /\ 1 \in DOMAIN Data(f, 2) /\ Data(f, 2)[1].kind = "meta"
  <2>1. ASSUME HasMetadata(f)
        PROVE  2 \in 1..PhNum(f) /\ 1 \in DOMAIN Data(f, 2)
    <3>1. PhNum(f) \in Nat /\ PhNum(f) > 1 /\ Ph(f, 2).filesz \in Nat \ {0}
      BY <2>1, MetadataFacts
    <3>2. 2 \in 1..PhNum(f) /\ 1 \in 1..Ph(f, 2).filesz
      BY <3>1
    <3> QED
      BY <3>2, DataCells
  <2> QED
    BY <2>1 DEF HasMetadata
<1>4. \A i \in 2..PhNum(f) : i \in 1..PhNum(f)
  OBVIOUS
<1> QED
  BY <1>1, <1>2, <1>3, <1>4, NoTreeInHeaders DEF Version, Segments, Kept

\* The table goes with the segments: pairs that lead from one version to another make
\* of a table that follows the first one that follows the second.
LEMMA TableReplaced ==
  ASSUME NEW f, WellFormed(f), NEW h, HasTable(f, h), NamedTrees(f), UniqueSlots(f),
         NEW g, InTable(g, f, h), NEW s, Version(f, s), NEW z, Version(f, z),
         Follows(f, h, Data(g, h), s), NEW ps, Bytes(ps), Leads(f, h, ps, s, z),
         NEW lo, lo \in Nat \ {0}, NEW hi, CellsOf(g, h) \subseteq lo..hi
  PROVE  LET n == DigestsReplaced(g, ps, lo, hi)
         IN InTable(n, f, h) /\ Follows(f, h, Data(n, h), z)
<1> DEFINE n  == DigestsReplaced(g, ps, lo, hi)
           at == Ph(g, h).off
<1>1. /\ WellFormed(g) /\ PhNum(g) = PhNum(f) /\ h \in 1..PhNum(f) /\ h \in 1..PhNum(g)
      /\ SlotPlaces(g) \subseteq CellsOf(g, h) /\ SlotPlaces(f) \subseteq CellsOf(f, h)
      /\ Ph(g, h).filesz = Ph(f, h).filesz /\ TableSlots(g, h) = TableSlots(f, h)
  <2>1. h \in 2..PhNum(f)
    BY DEF HasTable
  <2>2. h \in 1..PhNum(f)
    BY <2>1
  <2> QED
    BY <2>2 DEF InTable, HasTable
<1>2. /\ Bytes(g) /\ Len(g) \in Nat /\ DOMAIN g = 1..Len(g)
      /\ at \in Nat \ {0}
  BY <1>1, WellFormedFacts
<1>3. /\ HeadersFollow(n, g) /\ \A j \in 1..PhNum(g) : Ph(n, j) = Ph(g, j)
      /\ \A q \in 1..Len(Data(g, h)) :
           Data(n, h)[q] = Data(g, h)[q] \/ (Data(g, h)[q].kind = "slot" /\ Data(n, h)[q].kind = "slot")
  BY <1>1, DigestsFile
<1>4. SlotPlaces(n) = SlotPlaces(g)
  BY <1>2, SlotsStay
<1>5. ASSUME NEW q \in TableSlots(f, h), NEW o \in Things(f, h), Data(f, h)[q] = Slot(Hashed(f, o))
      PROVE  n[at + q - 1] = Slot(Piece(z, o))
  <2> DEFINE p == at + q - 1
             x == Piece(s, o)
             y == Piece(z, o)
             e == Ph(f, h).off
  <2> HIDE DEF n
  <2>1. /\ p \in SlotPlaces(g) /\ p \in CellsOf(g, h) /\ g[p] = Data(g, h)[q]
        /\ e + q - 1 \in SlotPlaces(f) /\ f[e + q - 1] = Data(f, h)[q] /\ q \in 1..Ph(f, h).filesz
    BY <1>1, SlotCells
  <2>2. g[p] = Slot(x)
    BY <1>5, <2>1 DEF Follows
  <2>3. Held(f, o)
    BY <1>5, <2>1 DEF Held
  <2>4. Tells(ps, x, y)
    <3>1. ASSUME NEW k \in DOMAIN ps, ps[k][1] = x
          PROVE  ps[k][2] = y
      <4>1. PICK u \in Things(f, h) : ps[k] = <<Piece(s, u), Piece(z, u)>>
        BY DEF Leads
      <4>2. Piece(s, u) = Piece(s, o)
        BY <3>1, <4>1
      <4>3. Piece(z, u) = Piece(z, o)
        BY <4>2, SameContent
      <4> QED
        BY <4>1, <4>3
    <3>2. y = x \/ HasPair(ps, s, z, o)
      BY <2>3 DEF Leads
    <3>3. HasPair(ps, s, z, o) => \E k \in DOMAIN ps : ps[k][1] = x
      BY DEF HasPair
    <3> HIDE DEF x, y
    <3> QED
      BY <3>1, <3>2, <3>3 DEF Tells
  <2>5. ASSUME NEW v \in lo..(p - 1)
        PROVE  g[v] # Slot(x)
    <3>1. SUFFICES ASSUME g[v] = Slot(x)
                   PROVE  FALSE
      OBVIOUS
    <3>2. p \in 1..Len(g) /\ p \in Nat
      BY <1>2, <2>1 DEF SlotPlaces
    <3>3. v \in 1..Len(g) /\ v # p /\ v \in Nat
      <4> HIDE DEF p
      <4> QED
        BY <1>2, <3>2
    <3>4. v \in SlotPlaces(g)
      BY <1>2, <3>1, <3>3, SlotOf DEF SlotPlaces
    <3> DEFINE w == v - at + 1
    <3>5. w \in TableSlots(f, h) /\ Data(g, h)[w] = g[v]
      BY <1>1, <3>4, SlotCells
    <3>6. w # q
      <4>1. q \in Nat
        BY <2>1
      <4> QED
        BY <1>2, <3>3, <4>1
    <3> HIDE DEF w, p
    <3>7. /\ e + w - 1 \in SlotPlaces(f) /\ f[e + w - 1] = Data(f, h)[w]
          /\ w \in 1..Ph(f, h).filesz
      BY <1>1, <3>5, SlotCells
    <3>8. PICK u \in Things(f, h) : f[e + w - 1] = Slot(Hashed(f, u))
      BY <3>7 DEF HasTable
    <3>9. Data(g, h)[w] = Slot(Piece(s, u))
      BY <3>5, <3>7, <3>8 DEF Follows
    <3>10. Piece(s, u) = Piece(s, o)
      BY <3>1, <3>5, <3>9, SlotOf
    <3>11. Piece(Segments(f), u) = Piece(Segments(f), o)
      <4>1. Version(f, Segments(f))
        BY VersionItself
      <4> QED
        BY <3>10, <4>1, SameContent
    <3>12. Hashed(f, u) = Hashed(f, o)
      BY <3>11, ThingKinds
    <3>13. e + w - 1 = e + q - 1
      BY <1>5, <2>1, <3>7, <3>8, <3>12 DEF UniqueSlots
    <3>14. e \in Nat /\ w \in Nat /\ q \in Nat
      BY <1>1, <2>1, <3>7, WellFormedFacts
    <3> HIDE DEF e
    <3> QED
      BY <3>6, <3>13, <3>14
  <2>6. p \in 1..Len(g) /\ p \in lo..hi
    BY <1>2, <2>1 DEF SlotPlaces
  <2> HIDE DEF p, x, y
  <2>7. n[p] = Slot(y)
    BY <2>2, <2>4, <2>5, <2>6, SlotReplaced DEF n
  <2> QED
    BY <2>7 DEF p, y
<1> HIDE DEF n
<1>6. WellFormed(n) /\ PhNum(n) = PhNum(f) /\ Ph(n, h) = Ph(g, h)
  BY <1>1, <1>3 DEF HeadersFollow
<1>7. TableSlots(n, h) = TableSlots(f, h)
  <2>1. /\ DOMAIN Data(n, h) = 1..Ph(f, h).filesz /\ DOMAIN Data(g, h) = 1..Ph(f, h).filesz
        /\ Len(Data(g, h)) = Ph(f, h).filesz
    BY <1>1, <1>6, DataCells
  <2>2. \A q \in 1..Ph(f, h).filesz : Data(n, h)[q].kind = "slot" <=> Data(g, h)[q].kind = "slot"
    BY <1>3, <2>1
  <2>3. TableSlots(n, h) = TableSlots(g, h)
    BY <2>1, <2>2 DEF TableSlots
  <2> QED
    BY <1>1, <2>3
<1>8. InTable(n, f, h)
  BY <1>1, <1>4, <1>6, <1>7 DEF InTable, CellsOf
<1>9. ASSUME NEW q \in TableSlots(f, h)
      PROVE  Data(n, h)[q] = n[at + q - 1]
  <2>1. q \in 1..Ph(f, h).filesz
    BY <1>1, SlotCells
  <2> QED
    BY <1>1, <1>6, <2>1, DataCells
<1>10. Follows(f, h, Data(n, h), z)
  BY <1>5, <1>9 DEF Follows
<1> QED
  BY <1>8, <1>10 DEF n

-----------------------------------------------------------------------------
(* The slots of the result are those of the image.                          *)

\* The places of the slots are positions of the file.
LEMMA SlotPlacesFinite ==
  ASSUME NEW f, WellFormed(f)
  PROVE  Len(f) \in Nat /\ SlotPlaces(f) \in SUBSET (1..Len(f)) /\ SlotPlaces(f) \in SUBSET Nat
<1>1. Len(f) \in Nat /\ DOMAIN f = 1..Len(f)
  BY WellFormedFacts
<1> QED
  BY <1>1 DEF SlotPlaces

\* Different slots hold different digests.
LEMMA SlotsUnique ==
  ASSUME NEW f, WellFormed(f), Distinct(SlotsOf(f))
  PROVE  UniqueSlots(f)
<1> DEFINE S == SlotPlaces(f)
           t == SlotsOf(f)
<1>1. Len(f) \in Nat /\ S \in SUBSET (1..Len(f))
  BY SlotPlacesFinite
<1>2. t = [k \in 1..Cardinality(S) |-> f[Nth(S, k)]]
  BY DEF SlotsOf, Picked
<1> HIDE DEF S, t
<1>4. \A p \in S : RankIn(S, p) \in 1..Cardinality(S) /\ Nth(S, RankIn(S, p)) = p
  BY <1>1, NthProperties
<1>3. /\ DOMAIN t = 1..Cardinality(S)
      /\ \A p \in S : RankIn(S, p) \in 1..Cardinality(S) /\ t[RankIn(S, p)] = f[p]
  BY <1>2, <1>4
<1>5. ASSUME NEW p \in S, NEW q \in S, f[p] = f[q]
      PROVE  p = q
  <2>1. RankIn(S, p) = RankIn(S, q)
    BY <1>3, <1>5 DEF Distinct, t
  <2> QED
    BY <1>4, <2>1
<1> QED
  BY <1>5 DEF UniqueSlots, S

\* The k-th slot of both files is at the same place of the table.
LEMMA SlotsAlign ==
  ASSUME NEW f, WellFormed(f), NEW h, HasTable(f, h), NEW g, InTable(g, f, h)
  PROVE  /\ DOMAIN SlotsOf(g) = DOMAIN SlotsOf(f)
         /\ \A k \in DOMAIN SlotsOf(f) : \E q \in TableSlots(f, h) :
              SlotsOf(f)[k] = Data(f, h)[q] /\ SlotsOf(g)[k] = Data(g, h)[q]
<1> DEFINE S == SlotPlaces(f)
           T == SlotPlaces(g)
           a == Ph(f, h).off
           b == Ph(g, h).off
           to(p) == p - a + b
<1>1. /\ WellFormed(g) /\ h \in 1..PhNum(f) /\ h \in 1..PhNum(g)
      /\ S \subseteq CellsOf(f, h) /\ T \subseteq CellsOf(g, h)
      /\ TableSlots(g, h) = TableSlots(f, h)
  <2>1. h \in 2..PhNum(f)
    BY DEF HasTable
  <2>2. h \in 1..PhNum(f)
    BY <2>1
  <2> QED
    BY <2>2 DEF InTable, HasTable
<1>2. /\ Len(f) \in Nat /\ S \in SUBSET (1..Len(f)) /\ S \in SUBSET Nat
      /\ Len(g) \in Nat /\ T \in SUBSET (1..Len(g)) /\ T \in SUBSET Nat
  BY <1>1, SlotPlacesFinite
<1>3. a \in Nat /\ b \in Nat
  BY <1>1, WellFormedFacts
<1>4. ASSUME NEW p \in S
      PROVE  /\ to(p) \in T /\ p - a + 1 \in TableSlots(f, h)
             /\ f[p] = Data(f, h)[p - a + 1] /\ g[to(p)] = Data(g, h)[p - a + 1]
  <2>1. p - a + 1 \in TableSlots(f, h) /\ Data(f, h)[p - a + 1] = f[p]
    BY <1>1, SlotCells
  <2>2. b + (p - a + 1) - 1 \in T /\ g[b + (p - a + 1) - 1] = Data(g, h)[p - a + 1]
    BY <1>1, <2>1, SlotCells
  <2>3. b + (p - a + 1) - 1 = to(p)
    <3>1. p \in Nat
      BY <1>2
    <3> HIDE DEF S, a, b
    <3> QED
      BY <1>3, <3>1
  <2> QED
    BY <2>1, <2>2, <2>3
<1>5. ASSUME NEW r \in T
      PROVE  \E p \in S : to(p) = r
  <2>1. r - b + 1 \in TableSlots(f, h)
    BY <1>1, SlotCells
  <2>2. a + (r - b + 1) - 1 \in S
    BY <1>1, <2>1, SlotCells
  <2>3. to(a + (r - b + 1) - 1) = r
    <3>1. r \in Nat
      BY <1>2
    <3> HIDE DEF T, a, b
    <3> QED
      BY <1>3, <3>1
  <2> QED
    BY <2>2, <2>3
<1> DEFINE m == [p \in S |-> to(p)]
<1>6. /\ m \in [S -> T] /\ \A r \in T : \E p \in S : m[p] = r
  BY <1>4, <1>5
<1>7. ASSUME NEW p \in S, NEW q \in S, p < q
      PROVE  m[p] < m[q]
  <2>1. p \in Nat /\ q \in Nat /\ m[p] = p - a + b /\ m[q] = q - a + b
    BY <1>2
  <2> HIDE DEF S, a, b, m
  <2> QED
    BY <1>3, <1>7, <2>1
<1> HIDE DEF S, T, m
<1>8. /\ Cardinality(T) = Cardinality(S)
      /\ \A k \in 1..Cardinality(S) : Nth(T, k) = m[Nth(S, k)]
  BY <1>2, <1>6, <1>7, NthMapped
<1>9. \A k \in 1..Cardinality(S) : Nth(S, k) \in S
  BY <1>2, NthProperties
<1>10. SlotsOf(f) = [k \in 1..Cardinality(S) |-> f[Nth(S, k)]] /\ SlotsOf(g) = [k \in 1..Cardinality(T) |-> g[Nth(T, k)]]
  BY DEF SlotsOf, Picked, S, T
<1>11. ASSUME NEW k \in 1..Cardinality(S)
       PROVE  \E q \in TableSlots(f, h) :
                SlotsOf(f)[k] = Data(f, h)[q] /\ SlotsOf(g)[k] = Data(g, h)[q]
  <2> DEFINE p == Nth(S, k)
  <2>1. p \in S /\ Nth(T, k) = to(p)
    BY <1>8, <1>9 DEF m
  <2>2. SlotsOf(f)[k] = f[p] /\ SlotsOf(g)[k] = g[to(p)]
    BY <1>8, <1>10, <2>1
  <2> HIDE DEF p
  <2> QED
    BY <1>4, <2>1, <2>2
<1> QED
  BY <1>8, <1>10, <1>11

\* A table that follows the segments of its own file is right.
LEMMA TableRight ==
  ASSUME NEW f, WellFormed(f), NEW h, HasTable(f, h), NEW g, InTable(g, f, h),
         TreesOf(g) = TreesOf(f), Follows(f, h, Data(g, h), Segments(g)),
         NEW k \in DOMAIN SlotsOf(g), NEW o \in HashedOf(f),
         SlotsOf(f)[k].of = Hashed(f, o)
  PROVE  SlotsOf(g)[k].of = Hashed(g, o)
<1>1. /\ WellFormed(g) /\ PhNum(g) = PhNum(f) /\ h \in 1..PhNum(f)
  <2>1. h \in 2..PhNum(f)
    BY DEF HasTable
  <2>2. h \in 1..PhNum(f)
    BY <2>1
  <2> QED
    BY <2>2 DEF InTable
<1>2. PICK q \in TableSlots(f, h) : SlotsOf(f)[k] = Data(f, h)[q] /\ SlotsOf(g)[k] = Data(g, h)[q]
  BY SlotsAlign
<1>3. /\ Ph(f, h).off + q - 1 \in SlotPlaces(f) /\ f[Ph(f, h).off + q - 1] = Data(f, h)[q]
  BY <1>1, SlotCells
<1>4. /\ Data(f, h)[q].of # Data(f, h)
      /\ \E u \in Things(f, h) : Data(f, h)[q] = Slot(Hashed(f, u))
  BY <1>3 DEF HasTable
<1>5. Data(f, h)[q] = Slot(Hashed(f, o))
  BY <1>2, <1>4, SlotOf
<1>6. o # <<h, 0>>
  <2>1. ASSUME o = <<h, 0>>
        PROVE  FALSE
    <3>1. o \notin TreesOf(f)
      <4>1. Bytes(Data(f, h)) /\ Trees(Data(f, h)) = {}
        BY <1>1, DataCells DEF HasTable
      <4>2. Cardinality(Trees(Data(f, h))) = 0
        BY <4>1, TreesCounted
      <4>3. \A t \in TreesOf(f) : \E i \in 1..PhNum(f) : \E n \in 1..Cardinality(Trees(Data(f, i))) : t = <<i, n>>
        BY DEF TreesOf
      <4>4. \A i, n : <<i, n>> = <<h, 0>> => i = h
        OBVIOUS
      <4> QED
        BY <2>1, <4>2, <4>3, <4>4
    <3>2. Hashed(f, o) = Data(f, h)
      BY <2>1, <3>1 DEF Hashed
    <3> QED
      BY <1>4, <1>5, <3>2, SlotOf
  <2> QED
    BY <2>1
<1>7. o \in Things(f, h) /\ o \in Things(g, h)
  BY <1>1, <1>6 DEF Things, HashedOf
<1>8. Hashed(g, o) = Piece(Segments(g), o)
  BY <1>1, <1>7, ThingKinds
<1>9. Data(g, h)[q] = Slot(Piece(Segments(g), o))
  BY <1>5, <1>7 DEF Follows
<1> QED
  BY <1>2, <1>8, <1>9, SlotOf

-----------------------------------------------------------------------------
(* The invariant.                                                           *)

\* An image as the builds make them: whole trees with names of their own, and one table
\* of the digests of what is in it.
Tabled(f) == WholeTrees(f) /\ NamedTrees(f) /\ \E h \in 2..PhNum(f) : HasTable(f, h)
TableOf(f) == CHOOSE h \in 2..PhNum(f) : HasTable(f, h)
Digested == /\ SectionsAhead(job.image) /\ Distinct(SlotsOf(job.image))
            /\ Tabled(job.image)

HashTable == TableOf(job.image)

\* The table is where it was, the headers are fit for the search of it, and a tree is a
\* whole segment where it was one.
TableInPlace ==
  /\ InTable(raw, job.image, HashTable)
  /\ ~HasMetadata(job.image) => \A i \in 2..PhNum(job.image) :
       /\ Ph(raw, i).null => i = HashTable
       /\ Trees(Data(job.image, i)) # {} => Ph(raw, i).memsz = Ph(raw, i).filesz
  /\ \A i \in 2..PhNum(job.image) : Fills(Data(raw, i)) <=> Fills(Data(job.image, i))

\* The segment in memory, and the pairs of the trees that were patched in it.
MemoryInPlace ==
  pc = "tree" =>
    /\ Fills(work) <=> Fills(Data(job.image, Target))
    /\ Target # HashTable => \A q \in 1..Len(work) : work[q].kind # "slot"
PairOf(ps, b, c, k, n) == ps[k] = <<TreeAt(b, n), TreeAt(c, n)>>
PairsFit(ps, b, c, S) ==
  /\ \A k \in DOMAIN ps : \E n \in 1..Cardinality(Trees(c)) : n \notin S /\ PairOf(ps, b, c, k, n)
  /\ \A n \in 1..Cardinality(Trees(c)) :
       \/ TreeAt(c, n) = TreeAt(b, n)
       \/ n \notin S /\ \E k \in DOMAIN ps : PairOf(ps, b, c, k, n)
PairsOfTrees ==
  pc = "tree" /\ elfType = "uefi_dtbs" => PairsFit(pairs, Data(raw, Target), work, Waiting)

\* The table follows the file, or, between the patch of a segment and the search, the
\* version from which the pairs lead to the file.
TableFollows ==
  /\ pc # "digests" /\ (pc = "done" => status = "ok") =>
       Follows(job.image, HashTable, Data(raw, HashTable), Segments(raw))
  /\ pc = "digests" =>
       /\ Bytes(pairs)
       /\ \E s : /\ Version(job.image, s)
                 /\ Follows(job.image, HashTable, Data(raw, HashTable), s)
                 /\ Leads(job.image, HashTable, pairs, s, Segments(raw))

DInv == TInv /\ (Digested => TableInPlace /\ MemoryInPlace /\ PairsOfTrees /\ TableFollows)

\* What the premise and the invariant of the module say of the two files.
LEMMA TableFacts ==
  ASSUME IInv, Digested
  PROVE  /\ WellFormed(job.image) /\ WellFormed(raw) /\ PhNum(raw) = PhNum(job.image)
         /\ PhNum(raw) \in Nat /\ SectionsAhead(job.image) /\ SectionsAhead(raw)
         /\ WholeTrees(job.image) /\ NamedTrees(job.image) /\ UniqueSlots(job.image)
         /\ HashTable \in 2..PhNum(job.image) /\ HashTable \in 1..PhNum(job.image)
         /\ HasTable(job.image, HashTable)
         /\ Trees(Data(job.image, HashTable)) = {}
<1>1. /\ WellFormed(job.image) /\ WellFormed(raw) /\ PhNum(raw) = PhNum(job.image)
      /\ PhNum(raw) \in Nat
      /\ SectionsAhead(job.image) => SectionsAhead(raw)
  BY FileFacts
<1>2. HashTable \in 2..PhNum(job.image) /\ HasTable(job.image, HashTable)
  BY DEF Digested, Tabled, HashTable, TableOf
<1>3. UniqueSlots(job.image)
  BY <1>1, SlotsUnique DEF Digested
<1>4. HashTable \in 1..PhNum(job.image)
  BY <1>2
<1>5. SectionsAhead(job.image) /\ WholeTrees(job.image) /\ NamedTrees(job.image)
  BY DEF Digested, Tabled
<1>6. Trees(Data(job.image, HashTable)) = {}
  BY <1>2 DEF HasTable
<1> QED
  BY <1>1, <1>2, <1>3, <1>4, <1>5, <1>6

\* The segments of the file are a version of those of the image.
LEMMA FileVersion ==
  ASSUME TInv, Digested,
         \A i \in 2..PhNum(job.image) : Fills(Data(raw, i)) <=> Fills(Data(job.image, i))
  PROVE  Version(job.image, Segments(raw))
<1>1. /\ WellFormed(job.image) /\ WellFormed(raw) /\ PhNum(raw) = PhNum(job.image)
      /\ PhNum(raw) \in Nat /\ SectionsAhead(job.image) /\ WholeTrees(job.image) /\ IInv
  BY TableFacts DEF TInv
<1>2. Version(raw, Segments(raw))
  BY <1>1, VersionItself
<1>3. HasMetadata(job.image) => HasMetadata(raw)
  <2>1. elfType \in {None, "uefi_dtbs", "xbl_config"}
    BY <1>1 DEF IInv, TypeOK
  <2>2. elfType = "xbl_config" => HasMetadata(raw)
    BY <1>1, MetadataOfXbl
  <2> QED
    BY <2>1, <2>2 DEF TInv, NoMetadata
<1>4. ASSUME NEW i \in Bystanders(job.image)
      PROVE  Segments(raw)[i] = Data(job.image, i)
  <2>1. i \in 1..PhNum(raw)
    BY <1>1, BystanderTrees
  <2>2. Data(raw, i) = Data(job.image, i)
    BY <1>1 DEF IInv, OthersIntact
  <2> QED
    BY <2>1, <2>2 DEF Segments
<1>5. ASSUME NEW i \in 2..PhNum(job.image)
      PROVE  Kept(Data(job.image, i), Segments(raw)[i])
  <2>1. i \in 1..PhNum(raw) /\ i \in 1..PhNum(job.image)
    BY <1>1
  <2>2. Grown(Data(job.image, i), Data(raw, i), i \in Searched(job.image))
    BY <1>1 DEF TInv, TreesKept
  <2>3. Bytes(Data(job.image, i)) /\ Bytes(Data(raw, i))
    BY <1>1, <2>1, DataCells
  <2> DEFINE b == Data(job.image, i)
             c == Data(raw, i)
             may == i \in Searched(job.image)
  <2>4. Segments(raw)[i] = c /\ (Fills(c) <=> Fills(b))
    BY <2>1 DEF Segments
  <2> HIDE DEF b, c, may
  <2>5. /\ Cardinality(Trees(c)) = Cardinality(Trees(b))
        /\ \A k \in 1..Cardinality(Trees(b)) : TreeKept(b[Nth(Trees(b), k)], c[Nth(Trees(c), k)], may)
    BY <2>2, <2>3, GrownPlaces DEF b, c, may
  <2> QED
    BY <2>4, <2>5 DEF Kept, TreeKept, b
<1> QED
  BY <1>1, <1>2, <1>3, <1>4, <1>5 DEF Version

\* A run begins with the image, whose table is right.
LEMMA InitDInv == Init => DInv
<1> SUFFICES ASSUME Init, Digested
             PROVE  TInv /\ TableInPlace /\ MemoryInPlace /\ PairsOfTrees /\ TableFollows
  BY InitTInv DEF DInv
<1>1. raw = job.image /\ pc = "open" /\ TInv /\ IInv
  BY InitTInv DEF Init, TInv
<1>2. /\ WellFormed(job.image) /\ HasTable(job.image, HashTable)
  BY <1>1, TableFacts
<1>3. TableInPlace
  BY <1>1, <1>2 DEF TableInPlace, InTable, HasTable
<1>4. Follows(job.image, HashTable, Data(raw, HashTable), Segments(raw))
  BY <1>1, <1>2, ThingKinds DEF Follows
<1> QED
  BY <1>1, <1>3, <1>4 DEF MemoryInPlace, PairsOfTrees, TableFollows

\* The step leaves the file alone, and has no segment in memory behind it.
LEMMA DigestsStay ==
  ASSUME DInv, TInv', UNCHANGED <<raw, job>>, pc' \notin {"tree", "digests"}, pc # "done",
         pc = "digests" => pc' = "done" /\ status' = "failed"
  PROVE  DInv'
<1> SUFFICES ASSUME Digested
             PROVE  (TableInPlace /\ MemoryInPlace /\ PairsOfTrees /\ TableFollows)'
  BY DEF DInv, Digested
<1>1. TableInPlace /\ TableFollows
  BY DEF DInv
<1>2. TableInPlace' /\ MemoryInPlace' /\ PairsOfTrees'
  BY <1>1 DEF TableInPlace, HashTable, MemoryInPlace, PairsOfTrees
<1>3. TableFollows'
  <2>1. "ok" # "failed"
    OBVIOUS
  <2> QED
    BY <1>1, <2>1 DEF TableFollows, HashTable
<1> QED
  BY <1>2, <1>3

\* parse_uefi_dtbs takes the next segment into memory.
LEMMA ReadSegmentDInv ==
  ASSUME DInv, TInv', ReadSegment
  PROVE  DInv'
<1> SUFFICES ASSUME Digested
             PROVE  (TableInPlace /\ MemoryInPlace /\ PairsOfTrees /\ TableFollows)'
  BY DEF DInv, Digested, ReadSegment
<1>1. /\ TableInPlace /\ TableFollows /\ TInv /\ IInv
      /\ pc = "segment" /\ left # {} /\ pc' = "tree" /\ work' = Data(raw, Target) /\ pairs' = <<>>
      /\ UNCHANGED <<job, elfType, raw, left>>
  BY DEF DInv, ReadSegment, TInv
<1>2. Target' = Target /\ HashTable' = HashTable
  BY <1>1 DEF Target, HashTable
<1>3. /\ WellFormed(raw) /\ PhNum(raw) = PhNum(job.image)
      /\ Target \in 2..PhNum(raw) /\ Target \in 1..PhNum(raw)
      /\ HashTable \in 1..PhNum(raw)
  <2>1. /\ WellFormed(raw) /\ PhNum(raw) = PhNum(job.image) /\ PhNum(raw) \in Nat
        /\ HashTable \in 1..PhNum(raw)
    BY <1>1, TableFacts
  <2>2. Target \in left /\ left \subseteq 2..PhNum(raw)
    BY <1>1, FileFacts
  <2> QED
    BY <2>1, <2>2
<1>4. ASSUME Target # HashTable, NEW q \in 1..Len(work')
      PROVE  work'[q].kind # "slot"
  <2>1. SlotPlaces(raw) \subseteq CellsOf(raw, HashTable)
    BY <1>1 DEF TableInPlace, InTable
  <2> DEFINE d == Data(raw, Target)
  <2>2. \A k \in 1..Len(d) : d[k].kind # "slot"
    BY <1>3, <1>4, <2>1, SlotlessData
  <2>3. work' = d
    BY <1>1
  <2> HIDE DEF d
  <2> QED
    BY <2>2, <2>3
<1>5. TableInPlace' /\ TableFollows'
  BY <1>1, <1>2 DEF TableInPlace, TableFollows
<1>6. MemoryInPlace'
  BY <1>1, <1>2, <1>3, <1>4 DEF MemoryInPlace, TableInPlace
<1>7. PairsOfTrees'
  <2>1. DOMAIN pairs' = {} /\ work' = Data(raw', Target')
    BY <1>1, <1>2
  <2> QED
    BY <2>1 DEF PairsOfTrees, PairsFit
<1> QED
  BY <1>5, <1>6, <1>7

-----------------------------------------------------------------------------
(* The steps that patch a tree.                                             *)

\* A tree that is skipped, or that cannot be patched, changes nothing.
LEMMA SkipDInv ==
  ASSUME DInv, TInv', SkipTree \/ TreeFails
  PROVE  DInv'
<1> SUFFICES ASSUME Digested
             PROVE  (TableInPlace /\ MemoryInPlace /\ PairsOfTrees /\ TableFollows)'
  BY DEF DInv, Digested, SkipTree, TreeFails
<1>1. /\ TableInPlace /\ MemoryInPlace /\ PairsOfTrees /\ TableFollows
      /\ pc = "tree" /\ trees' \subseteq trees
      /\ UNCHANGED <<pc, job, elfType, raw, left, work, delta, pairs, status>>
  BY DEF DInv, SkipTree, TreeFails
<1>2. Target' = Target /\ HashTable' = HashTable /\ Waiting' \subseteq Waiting
  BY <1>1 DEF Target, HashTable, Waiting
<1>3. TableInPlace' /\ MemoryInPlace' /\ TableFollows'
  BY <1>1, <1>2 DEF TableInPlace, MemoryInPlace, TableFollows
<1>4. PairsOfTrees'
  <2>1. elfType = "uefi_dtbs" => PairsFit(pairs, Data(raw, Target), work, Waiting)
    BY <1>1 DEF PairsOfTrees
  <2>2. elfType = "uefi_dtbs" => PairsFit(pairs, Data(raw, Target), work, Waiting')
    <3> HIDE <1>2
    <3>1. \A n : n \notin Waiting => n \notin Waiting'
      BY <1>2
    <3> QED
      BY <2>1, <3>1 DEF PairsFit
  <2> QED
    BY <1>1, <1>2, <2>2 DEF PairsOfTrees
<1> QED
  BY <1>3, <1>4

\* A splice of cells that are no slots brings no slot.
LEMMA SpliceSlots ==
  ASSUME NEW f, Bytes(f), NEW new, Bytes(new), NEW at, at \in Nat \ {0}, NEW n, n \in Nat,
         at + n - 1 <= Len(f), NEW g, IsSplice(g, f, at, n, new),
         \A q \in 1..Len(f) : f[q].kind # "slot", \A q \in 1..Len(new) : new[q].kind # "slot"
  PROVE  \A q \in 1..Len(g) : g[q].kind # "slot"
<1>1. /\ Len(g) = Len(f) - n + Len(new)
      /\ \A p \in 1..(at - 1) : g[p] = f[p]
      /\ \A p \in 1..Len(new) : g[at + p - 1] = new[p]
      /\ \A p \in (at + n)..Len(f) : g[p - n + Len(new)] = f[p]
  BY DEF IsSplice
<1>2. Len(f) \in Nat /\ Len(new) \in Nat
  BY BytesElim
<1>3. ASSUME NEW q \in 1..Len(g)
      PROVE  g[q].kind # "slot"
  <2>1. CASE q < at
    <3>1. q \in 1..(at - 1) /\ q \in 1..Len(f)
      BY <1>1, <1>2, <2>1
    <3> QED
      BY <1>1, <3>1
  <2>2. CASE q >= at /\ q < at + Len(new)
    <3> DEFINE k == q - at + 1
    <3>1. k \in 1..Len(new) /\ q = at + k - 1
      BY <1>1, <1>2, <2>2
    <3> HIDE DEF k
    <3> QED
      BY <1>1, <3>1
  <2>3. CASE q >= at + Len(new)
    <3> DEFINE k == q - Len(new) + n
    <3>1. k \in (at + n)..Len(f) /\ k \in 1..Len(f) /\ q = k - n + Len(new)
      BY <1>1, <1>2, <2>3
    <3> HIDE DEF k
    <3> QED
      BY <1>1, <3>1
  <2> QED
    BY <1>1, <1>2, <2>1, <2>2, <2>3
<1> QED
  BY <1>3

\* What the patch of a tree makes of the segment in memory.
LEMMA TreePatched ==
  ASSUME DInv, Digested, pc = "tree", trees # {}, Current.certs # <<>>
  PROVE  /\ Target # HashTable
         /\ Bytes(NewWork) /\ Cellular(NewWork) /\ Clean(NewWork)
         /\ \A q \in 1..Len(NewWork) : NewWork[q].kind # "slot"
         /\ Grown(Data(job.image, Target), NewWork, TRUE)
         /\ Fills(NewWork) <=> Fills(Data(job.image, Target))
         /\ CurrentPlace \in Waiting
         /\ Slice(work, At, Current.size) = TreeAt(work, CurrentPlace)
         /\ PiecesPatched(NewWork, work, CurrentPlace, NewTree)
         /\ Cardinality(Trees(NewWork)) = Cardinality(Trees(work))
         /\ \A k \in 1..Cardinality(Trees(work)) :
              Nth(Trees(NewWork), k) - (delta + Len(NewTree) - Current.size) \in trees \ {Least(trees)}
                => k \in Waiting /\ k # CurrentPlace
<1> DEFINE more == Len(NewTree) - Current.size
<1>1. IInv /\ TInv /\ MemoryInPlace
  BY DEF DInv, TInv
<1>2. /\ WellFormed(job.image) /\ WellFormed(raw) /\ PhNum(raw) = PhNum(job.image)
      /\ SectionsAhead(job.image) /\ WholeTrees(job.image)
      /\ Trees(Data(job.image, HashTable)) = {}
  BY <1>1, TableFacts
<1>3. /\ Bytes(work) /\ Cellular(work) /\ Len(work) \in Nat
      /\ TreesToGo /\ trees \subseteq Nat /\ delta \in Int
      /\ Target \in 1..PhNum(job.image) /\ Value \in DOMAIN CertLen
  BY <1>1, <1>2, TreeFacts, FileFacts, JobFacts
<1>4. Grown(Data(job.image, Target), work, TRUE) /\ Clean(work)
  BY <1>1, <1>2 DEF TInv, TreesKept, Grown
<1>5. /\ At \in Trees(work) /\ more \in Nat
      /\ PatchedAt(NewWork, work, At, more, Value) /\ Grown(work, NewWork, TRUE)
  BY <1>1, <1>4, CurrentFound
<1>6. /\ At \in Nat \ {0} /\ IsCell(Current) /\ Current.kind = "tree"
      /\ Current.size \in Nat \ {0} /\ At + Current.size - 1 <= Len(work)
      /\ Least(trees) \in trees /\ \A q \in trees : Least(trees) <= q
  BY <1>3, CurrentTree
<1>7. /\ Bytes(NewTree) /\ Len(NewTree) \in Nat /\ NewTree[1].kind = "tree"
  BY <1>3, <1>6, PatchedTreeCells DEF NewTree
<1>8. Bytes(NewWork) /\ Cellular(NewWork)
  BY <1>3, NewWorkFacts
<1>9. Target # HashTable
  <2>1. Bytes(Data(job.image, Target))
    BY <1>2, <1>3, DataCells
  <2>2. Cardinality(Trees(work)) = Cardinality(Trees(Data(job.image, Target)))
    BY <1>3, <1>4, <2>1, GrownPlaces
  <2>3. Trees(Data(job.image, Target)) # {}
    BY <1>3, <1>5, <2>1, <2>2, TreesCounted
  <2> QED
    BY <1>2, <2>3
<1>10. \A q \in 1..Len(NewWork) : NewWork[q].kind # "slot"
  <2>1. \A q \in 1..Len(work) : work[q].kind # "slot"
    BY <1>1, <1>9 DEF MemoryInPlace
  <2>2. ASSUME NEW q \in 1..Len(NewTree)
        PROVE  NewTree[q].kind # "slot"
    <3>1. q \in DOMAIN NewTree
      BY <1>7, BytesElim
    <3>2. q # 1 => NewTree[q] = Cell("body")
      BY <3>1 DEF NewTree, PatchedTree, TreeCells
    <3> QED
      BY <1>7, <3>2 DEF Cell
  <2>3. IsSplice(NewWork, work, At, Current.size, NewTree)
    BY <1>3, <1>6, <1>7, SpliceBytes DEF NewWork
  <2> QED
    BY <1>3, <1>6, <1>7, <2>1, <2>2, <2>3, SpliceSlots
<1>11. Grown(Data(job.image, Target), NewWork, TRUE) /\ Clean(NewWork)
  BY <1>4, <1>5, GrownTransitive DEF Grown
<1>12. PiecesPatched(NewWork, work, CurrentPlace, NewTree)
  BY <1>3, <1>4, <1>5, PatchedPieces DEF NewWork, NewTree, Current, CurrentPlace
<1>13. Fills(NewWork) <=> Fills(Data(job.image, Target))
  BY <1>1, <1>12 DEF PiecesPatched, MemoryInPlace
<1>14. CurrentPlace \in 1..Cardinality(Trees(work)) /\ Nth(Trees(work), CurrentPlace) = At
  BY <1>3, <1>5, TreeRanks DEF CurrentPlace
<1>15. Slice(work, At, Current.size) = TreeAt(work, CurrentPlace)
  BY <1>14 DEF TreeAt, Current
<1>16. At - delta = Least(trees)
  <2>1. Least(trees) \in trees
    BY <1>6
  <2>2. trees \subseteq Nat
    BY <1>3
  <2>3. Least(trees) \in Nat
    BY <2>1, <2>2
  <2>4. delta \in Int
    BY <1>3
  <2> QED
    BY <2>3, <2>4 DEF At
<1>17. CurrentPlace \in Waiting
  BY <1>6, <1>14, <1>16 DEF Waiting
<1> HIDE DEF more
<1>18. /\ Cardinality(Trees(NewWork)) = Cardinality(Trees(work))
       /\ \A k \in 1..Cardinality(Trees(work)) :
            Nth(Trees(NewWork), k) = Shifted(Nth(Trees(work), k), At, more)
  <2>1. work[At].certs # <<>>
    BY DEF Current
  <2>2. PlacesPatched(NewWork, work, At, more, Value)
    BY <1>3, <1>5, <2>1, PatchedRanks
  <2> QED
    BY <2>2 DEF PlacesPatched
<1>19. delta + Len(NewTree) - Current.size = delta + more
  BY <1>3, <1>6, <1>7 DEF more
<1>20. ASSUME NEW k \in 1..Cardinality(Trees(work)),
              Nth(Trees(NewWork), k) - (delta + more) \in trees \ {Least(trees)}
       PROVE  k \in Waiting /\ k # CurrentPlace
  <2> DEFINE p == Nth(Trees(work), k)
             q == Shifted(p, At, more)
  <2>1. p \in Nat
    BY <1>3, TreeRanks, TreesFound
  <2>2. q - (delta + more) \in trees /\ q - (delta + more) # Least(trees)
    BY <1>18, <1>20
  <2>3. Least(trees) <= q - (delta + more)
    BY <1>6, <2>2
  <2>4. p > At /\ q - (delta + more) = p - delta
    <3>1. delta \in Int /\ more \in Nat /\ At \in Nat
      BY <1>3, <1>5, <1>6
    <3>2. q = IF p <= At THEN p ELSE p + more
      BY DEF Shifted
    <3>3. At - delta <= q - (delta + more) /\ At - delta # q - (delta + more)
      BY <1>16, <2>2, <2>3
    <3> HIDE DEF p, q
    <3> QED
      BY <2>1, <3>1, <3>2, <3>3
  <2>5. p - delta \in trees
    BY <2>2, <2>4
  <2>6. p # At
    BY <1>6, <2>1, <2>4
  <2> QED
    BY <1>14, <2>5, <2>6 DEF Waiting
<1> QED
  BY <1>8, <1>9, <1>10, <1>11, <1>12, <1>13, <1>15, <1>17, <1>18, <1>19, <1>20

\* The pairs of the trees, with the one of a tree that is patched.
LEMMA PairsMore ==
  ASSUME NEW ps, Bytes(ps), NEW b, NEW c, NEW S, PairsFit(ps, b, c, S),
         NEW r \in S, r \in 1..Cardinality(Trees(c)), NEW d, NEW new, PiecesPatched(d, c, r, new),
         Cardinality(Trees(d)) = Cardinality(Trees(c)),
         NEW U, \A n \in 1..Cardinality(Trees(c)) : n \in U => n \in S /\ n # r
  PROVE  PairsFit(Append(ps, <<TreeAt(c, r), new>>), b, d, U)
<1> DEFINE qs == Append(ps, <<TreeAt(c, r), new>>)
           count == Cardinality(Trees(c))
<1>1. /\ TreeAt(d, r) = new
      /\ \A n \in 1..count : n # r => TreeAt(d, n) = TreeAt(c, n)
  BY DEF PiecesPatched
<1>2. TreeAt(c, r) = TreeAt(b, r)
  BY DEF PairsFit
<1>3. DOMAIN ps = 1..Len(ps) /\ Len(ps) \in Nat /\ \E T : ps \in Seq(T)
  BY BytesElim DEF Bytes
<1>4. /\ DOMAIN qs = 1..(Len(ps) + 1) /\ \A k \in 1..Len(ps) : qs[k] = ps[k]
      /\ qs[Len(ps) + 1] = <<TreeAt(c, r), new>>
  <2>1. PICK T : ps \in Seq(T)
    BY <1>3
  <2>2. ps \in Seq(T \cup {<<TreeAt(c, r), new>>})
    BY <2>1
  <2> QED
    BY <2>2
<1> HIDE DEF qs
<1>5. \A n \in 1..count, k \in 1..Len(ps) : n # r /\ PairOf(ps, b, c, k, n) => PairOf(qs, b, d, k, n)
  BY <1>1, <1>4 DEF PairOf
<1>6. PairOf(qs, b, d, Len(ps) + 1, r)
  BY <1>1, <1>2, <1>4 DEF PairOf
<1>7. ASSUME NEW k \in DOMAIN qs
      PROVE  \E n \in 1..count : n \notin U /\ PairOf(qs, b, d, k, n)
  <2>1. CASE k \in 1..Len(ps)
    <3>1. PICK n \in 1..count : n \notin S /\ PairOf(ps, b, c, k, n)
      BY <1>3, <2>1 DEF PairsFit
    <3> QED
      BY <1>5, <2>1, <3>1
  <2>2. CASE k = Len(ps) + 1
    BY <1>6, <2>2
  <2> QED
    BY <1>3, <1>4, <2>1, <2>2
<1>8. ASSUME NEW n \in 1..count
      PROVE  \/ TreeAt(d, n) = TreeAt(b, n)
             \/ n \notin U /\ \E k \in DOMAIN qs : PairOf(qs, b, d, k, n)
  <2>1. CASE n = r
    <3>1. Len(ps) + 1 \in DOMAIN qs
      BY <1>3, <1>4
    <3> QED
      BY <1>6, <2>1, <3>1
  <2>2. CASE n # r /\ TreeAt(c, n) = TreeAt(b, n)
    BY <1>1, <2>2
  <2>3. CASE n # r /\ TreeAt(c, n) # TreeAt(b, n)
    <3>1. PICK k \in DOMAIN ps : n \notin S /\ PairOf(ps, b, c, k, n)
      BY <2>3 DEF PairsFit
    <3>2. k \in 1..Len(ps) /\ k \in DOMAIN qs
      BY <1>3, <1>4
    <3> QED
      BY <1>5, <2>3, <3>1, <3>2
  <2> QED
    BY <2>1, <2>2, <2>3
<1>9. PairsFit(qs, b, d, U)
  BY <1>7, <1>8 DEF PairsFit
<1> QED
  BY <1>9 DEF qs

\* A tree of a uefi_dtbs is patched in memory: its pair joins the others.
LEMMA PatchUefiTreeDInv ==
  ASSUME DInv, TInv', PatchUefiTree
  PROVE  DInv'
<1> SUFFICES ASSUME Digested
             PROVE  (TableInPlace /\ MemoryInPlace /\ PairsOfTrees /\ TableFollows)'
  BY DEF DInv, Digested, PatchUefiTree
<1>1. /\ TableInPlace /\ MemoryInPlace /\ PairsOfTrees /\ TableFollows /\ IInv
      /\ pc = "tree" /\ trees # {} /\ elfType = "uefi_dtbs" /\ Current.certs # <<>>
      /\ work' = NewWork /\ trees' = trees \ {Least(trees)}
      /\ delta' = delta + Len(NewTree) - Current.size
      /\ pairs' = Append(pairs, <<Slice(work, At, Current.size), NewTree>>)
      /\ UNCHANGED <<pc, job, elfType, raw, left, status>>
  BY DEF DInv, TInv, PatchUefiTree
<1>2. Target' = Target /\ HashTable' = HashTable
  BY <1>1 DEF Target, HashTable
<1> DEFINE count == Cardinality(Trees(work))
<1>3. /\ \A q \in 1..Len(NewWork) : NewWork[q].kind # "slot"
      /\ Fills(NewWork) <=> Fills(Data(job.image, Target))
      /\ CurrentPlace \in Waiting
      /\ Slice(work, At, Current.size) = TreeAt(work, CurrentPlace)
      /\ PiecesPatched(NewWork, work, CurrentPlace, NewTree)
      /\ Cardinality(Trees(NewWork)) = count
      /\ \A k \in 1..count :
           Nth(Trees(NewWork), k) - (delta + Len(NewTree) - Current.size) \in trees \ {Least(trees)}
             => k \in Waiting /\ k # CurrentPlace
  BY <1>1, TreePatched
<1>4. \A n \in 1..count : n \in Waiting' => n \in Waiting /\ n # CurrentPlace
  BY <1>1, <1>3 DEF Waiting
<1>5. TableInPlace' /\ TableFollows' /\ MemoryInPlace'
  BY <1>1, <1>2, <1>3 DEF TableInPlace, MemoryInPlace, TableFollows
<1>6. Bytes(pairs) /\ CurrentPlace \in 1..count
  BY <1>1, <1>3, TreeFacts DEF Waiting
<1>7. pairs' = Append(pairs, <<TreeAt(work, CurrentPlace), NewTree>>)
  BY <1>1, <1>3
<1>8. PairsFit(pairs, Data(raw, Target), work, Waiting)
  BY <1>1 DEF PairsOfTrees
<1>9. PairsFit(pairs', Data(raw, Target), NewWork, Waiting')
  BY <1>3, <1>4, <1>6, <1>7, <1>8, PairsMore
<1>10. PairsOfTrees'
  BY <1>1, <1>2, <1>9 DEF PairsOfTrees
<1> QED
  BY <1>5, <1>10

-----------------------------------------------------------------------------
(* The step that writes a segment back.                                     *)

\* The pairs of a segment that is written back lead from the segments of the file as it
\* was to those of the file as it is.
LEMMA WrittenLeads ==
  ASSUME NEW f, WellFormed(f), NEW h, HasTable(f, h), NEW t \in 2..PhNum(f), t # h,
         NEW b, NEW c, Cardinality(Trees(c)) = Cardinality(Trees(Data(f, t))),
         NEW ps, Bytes(ps), NEW S, PairsFit(ps, b, c, S),
         NEW s, NEW z, s[t] = b, z[t] = c, \A j \in 2..PhNum(f) : j # t => z[j] = s[j],
         NEW last, (last = <<>> /\ z[1] = s[1]) \/ last = <<<<s[1], z[1]>>>>
  PROVE  Bytes(ps \o <<<<b, c>>>> \o last) /\ Leads(f, h, ps \o <<<<b, c>>>> \o last, s, z)
<1> DEFINE mid == ps \o <<<<b, c>>>>
           all == mid \o last
           m   == Len(ps)
<1>1. Bytes(ps) /\ m \in Nat /\ DOMAIN ps = 1..m
  BY BytesElim
<1>2. Bytes(<<<<b, c>>>>) /\ Len(<<<<b, c>>>>) = 1 /\ <<<<b, c>>>>[1] = <<b, c>>
  <2>1. <<<<b, c>>>> \in Seq({<<b, c>>})
    OBVIOUS
  <2> QED
    BY <2>1, BytesOfSeq
<1>3. /\ Bytes(last) /\ Len(last) \in {0, 1}
      /\ Len(last) = 1 => last[1] = <<s[1], z[1]>>
      /\ Len(last) = 0 => z[1] = s[1]
  <2>1. CASE last = <<>> /\ z[1] = s[1]
    <3>1. Len(last) = 0
      BY <2>1
    <3>2. Bytes(last)
      BY <2>1 DEF Bytes
    <3> QED
      BY <2>1, <3>1, <3>2
  <2>2. CASE last = <<<<s[1], z[1]>>>>
    <3>1. last \in Seq({<<s[1], z[1]>>}) /\ Len(last) = 1 /\ last[1] = <<s[1], z[1]>>
      BY <2>2
    <3> QED
      BY <3>1, BytesOfSeq
  <2> QED
    BY <2>1, <2>2
<1>4. /\ Bytes(mid) /\ Len(mid) = m + 1
      /\ \A k \in 1..(m + 1) : mid[k] = IF k <= m THEN ps[k] ELSE <<<<b, c>>>>[k - m]
  BY <1>1, <1>2, ConcatBytes
<1>5. /\ \A k \in 1..m : mid[k] = ps[k]
      /\ mid[m + 1] = <<b, c>>
  <2>1. m + 1 \in 1..(m + 1) /\ ~(m + 1 <= m) /\ m + 1 - m = 1
    BY <1>1
  <2>2. \A k \in 1..m : k \in 1..(m + 1) /\ k <= m
    BY <1>1
  <2> QED
    BY <1>2, <1>4, <2>1, <2>2
<1> HIDE DEF mid
<1>6. /\ Bytes(all) /\ Len(all) = m + 1 + Len(last)
      /\ \A k \in 1..(m + 1 + Len(last)) : all[k] = IF k <= m + 1 THEN mid[k] ELSE last[k - (m + 1)]
  BY <1>3, <1>4, ConcatBytes
<1> HIDE DEF all
<1>7. DOMAIN all = 1..(m + 1 + Len(last))
  BY <1>6, BytesElim
<1>8. \A k \in 1..m : k \in DOMAIN all /\ all[k] = ps[k]
  <2>1. \A k \in 1..m : k \in 1..(m + 1 + Len(last)) /\ k <= m + 1
    BY <1>1, <1>3
  <2> QED
    BY <1>5, <1>6, <1>7, <2>1
<1>9. m + 1 \in DOMAIN all /\ all[m + 1] = <<b, c>>
  <2>1. m + 1 \in 1..(m + 1 + Len(last)) /\ m + 1 <= m + 1
    BY <1>1, <1>3
  <2> QED
    BY <1>5, <1>6, <1>7, <2>1
<1>10. Len(last) = 1 => m + 2 \in DOMAIN all /\ all[m + 2] = <<s[1], z[1]>>
  <2>1. Len(last) = 1 => m + 2 \in 1..(m + 1 + Len(last)) /\ ~(m + 2 <= m + 1) /\ m + 2 - (m + 1) = 1
    BY <1>1
  <2> QED
    BY <1>3, <1>6, <1>7, <2>1
<1>11. \A k \in DOMAIN all : k \in 1..m \/ k = m + 1 \/ (k = m + 2 /\ Len(last) = 1)
  <2>1. ASSUME NEW k \in DOMAIN all
        PROVE  k \in 1..m \/ k = m + 1 \/ (k = m + 2 /\ Len(last) = 1)
    <3>1. k \in 1..(m + 1 + Len(last)) /\ m \in Nat
      BY <1>1, <1>7
    <3> HIDE DEF m
    <3>2. CASE Len(last) = 0
      <4>1. k \in 1..(m + 1)
        BY <3>1, <3>2
      <4> QED
        BY <3>1, <4>1
    <3>3. CASE Len(last) = 1
      <4>1. k \in 1..(m + 2)
        BY <3>1, <3>3
      <4> QED
        BY <3>1, <3>3, <4>1
    <3> QED
      BY <1>3, <3>2, <3>3
  <2> QED
    BY <2>1
<1>12. PhNum(f) \in Nat \ {0} /\ h \in 2..PhNum(f) /\ t \in 1..PhNum(f) /\ 1 \in 1..PhNum(f) /\ h # 1 /\ t # 1
  <2>1. PhNum(f) \in Nat \ {0} /\ h \in 2..PhNum(f)
    BY WellFormedFacts DEF HasTable
  <2> QED
    BY <2>1
<1>13. <<t, 0>> \in Things(f, h) /\ <<1, 0>> \in Things(f, h)
  BY <1>12 DEF Things, HashedOf
<1>14. \A n \in 1..Cardinality(Trees(c)) : <<t, n>> \in Things(f, h) /\ n # 0
  <2>1. Bytes(Data(f, t))
    BY <1>12, DataCells
  <2>2. Cardinality(Trees(Data(f, t))) \in Nat
    BY <2>1, TreesCounted
  <2>3. \A n \in 1..Cardinality(Trees(c)) : n # 0
    BY <2>2
  <2>4. \A n \in 1..Cardinality(Trees(c)) : <<t, n>> \in TreesOf(f) /\ <<t, n>> # <<h, 0>>
    BY <1>12, <2>3 DEF TreesOf
  <2> QED
    BY <2>3, <2>4 DEF Things, HashedOf
<1>15. /\ Piece(s, <<t, 0>>) = b /\ Piece(z, <<t, 0>>) = c
       /\ Piece(s, <<1, 0>>) = s[1] /\ Piece(z, <<1, 0>>) = z[1]
       /\ \A n : n # 0 => Piece(s, <<t, n>>) = TreeAt(b, n) /\ Piece(z, <<t, n>>) = TreeAt(c, n)
  BY DEF Piece
<1>16. ASSUME NEW k \in DOMAIN all
       PROVE  \E o \in Things(f, h) : all[k] = <<Piece(s, o), Piece(z, o)>>
  <2>1. CASE k \in 1..m
    <3>1. PICK n \in 1..Cardinality(Trees(c)) : PairOf(ps, b, c, k, n)
      BY <1>1, <2>1 DEF PairsFit
    <3>2. all[k] = <<TreeAt(b, n), TreeAt(c, n)>>
      BY <1>8, <2>1, <3>1 DEF PairOf
    <3> QED
      BY <1>14, <1>15, <3>2
  <2>2. CASE k = m + 1
    BY <1>9, <1>13, <1>15, <2>2
  <2>3. CASE k = m + 2 /\ Len(last) = 1
    BY <1>10, <1>13, <1>15, <2>3
  <2> QED
    BY <1>11, <2>1, <2>2, <2>3
<1>17. ASSUME NEW o \in Things(f, h)
       PROVE  Piece(z, o) = Piece(s, o) \/ HasPair(all, s, z, o)
  <2>1. /\ o[1] \in 1..PhNum(f) /\ o = <<o[1], o[2]>> /\ o[2] \in 0..Cardinality(Trees(Data(f, o[1])))
    BY ThingKinds
  <2>2. CASE o[1] = t /\ o[2] = 0
    BY <1>9, <1>15, <2>1, <2>2 DEF HasPair
  <2>3. CASE o[1] = t /\ o[2] # 0
    <3> DEFINE n == o[2]
    <3>1. n \in 1..Cardinality(Trees(c))
      <4>1. n \in 0..Cardinality(Trees(c)) /\ n # 0
        BY <2>1, <2>3
      <4> HIDE DEF n
      <4> QED
        BY <4>1
    <3>2. Piece(s, o) = TreeAt(b, n) /\ Piece(z, o) = TreeAt(c, n)
      BY <1>15, <2>1, <2>3
    <3> HIDE DEF n
    <3>3. CASE TreeAt(c, n) = TreeAt(b, n)
      BY <3>2, <3>3
    <3>4. CASE \E k \in DOMAIN ps : PairOf(ps, b, c, k, n)
      <4>1. PICK k \in DOMAIN ps : PairOf(ps, b, c, k, n)
        BY <3>4
      <4>2. k \in DOMAIN all /\ all[k] = <<TreeAt(b, n), TreeAt(c, n)>>
        BY <1>1, <1>8, <4>1 DEF PairOf
      <4> QED
        BY <3>2, <4>2 DEF HasPair
    <3> QED
      BY <3>1, <3>3, <3>4 DEF PairsFit
  <2>4. CASE o[1] = 1
    <3>1. Trees(Data(f, 1)) = {} /\ Bytes(Data(f, 1))
      BY <1>12, NoTreeInHeaders, DataCells
    <3>2. Cardinality(Trees(Data(f, 1))) = 0
      BY <3>1, TreesCounted
    <3>3. o[2] = 0
      BY <2>1, <2>4, <3>2
    <3>4. Piece(s, o) = s[1] /\ Piece(z, o) = z[1]
      BY <2>4, <3>3 DEF Piece
    <3>5. CASE Len(last) = 0
      BY <1>3, <3>4, <3>5
    <3>6. CASE Len(last) = 1
      BY <1>10, <3>4, <3>6 DEF HasPair
    <3> QED
      BY <1>3, <3>5, <3>6
  <2>5. CASE o[1] # t /\ o[1] # 1
    <3>1. o[1] \in 2..PhNum(f)
      BY <1>12, <2>1, <2>5
    <3>2. z[o[1]] = s[o[1]]
      BY <2>5, <3>1
    <3> QED
      BY <3>2 DEF Piece
  <2> QED
    BY <2>2, <2>3, <2>4, <2>5
<1>18. Bytes(all) /\ Leads(f, h, all, s, z)
  BY <1>6, <1>16, <1>17 DEF Leads
<1> QED
  BY <1>18 DEF all, mid

\* The segment is written back: the pairs lead from the file as it was to the file as it is.
LEMMA WriteSegmentDInv ==
  ASSUME DInv, TInv', WriteSegment
  PROVE  DInv'
<1> SUFFICES ASSUME Digested
             PROVE  (TableInPlace /\ MemoryInPlace /\ PairsOfTrees /\ TableFollows)'
  BY DEF DInv, Digested, WriteSegment
<1> DEFINE T  == Target
           H  == HashTable
           J  == job.image
           ph == Ph(raw, T)
           moved == Len(work) # ph.filesz /\ Ph(raw, 1).filesz > 0
<1>1. /\ TableInPlace /\ MemoryInPlace /\ PairsOfTrees /\ TableFollows /\ IInv /\ TInv
      /\ pc = "tree" /\ elfType = "uefi_dtbs" /\ pairs # <<>> /\ pc' = "digests"
      /\ raw' = Resegmented(raw, T, work, Len(work), 0)
      /\ pairs' = pairs \o <<<<Data(raw, T), work>>>> \o (IF moved THEN <<SidePair(raw, raw', 1)>> ELSE <<>>)
      /\ UNCHANGED <<job, left>>
  BY DEF DInv, TInv, WriteSegment
<1>2. HashTable' = HashTable
  BY <1>1 DEF HashTable
<1>3. /\ WellFormed(J) /\ WellFormed(raw) /\ PhNum(raw) = PhNum(J) /\ PhNum(raw) \in Nat
      /\ SectionsAhead(J) /\ SectionsAhead(raw) /\ WholeTrees(J)
      /\ H \in 2..PhNum(J) /\ H \in 1..PhNum(J) /\ HasTable(J, H) /\ Trees(Data(J, H)) = {}
  BY <1>1, TableFacts
<1>4. /\ Bytes(work) /\ Cellular(work) /\ Len(work) \in Nat /\ Bytes(pairs)
      /\ T \in 1..PhNum(raw) /\ T \in 2..PhNum(raw)
      /\ ph.filesz \in Nat /\ ph.filesz > 0 /\ Len(work) >= ph.filesz
  BY <1>1, TreeFacts
<1>5. /\ PhNum(raw') = PhNum(raw) /\ WellFormed(raw') /\ Data(raw', T) = work
      /\ \A j \in 2..PhNum(raw) : j # T => Data(raw', j) = Data(raw, j)
  BY <1>1, <1>3, SegmentWritten
<1>6. PairsFit(pairs, Data(raw, T), work, Waiting)
  BY <1>1 DEF PairsOfTrees
<1>7. Cardinality(Trees(work)) = Cardinality(Trees(Data(J, T)))
  <2>1. Grown(Data(J, T), work, TRUE)
    BY <1>1, <1>3 DEF TInv, TreesKept
  <2>2. Bytes(Data(J, T))
    BY <1>3, <1>4, DataCells
  <2> QED
    BY <1>4, <2>1, <2>2, GrownPlaces
<1>8. Trees(Data(J, T)) # {} /\ T # H
  <2>1. DOMAIN pairs = 1..Len(pairs) /\ Len(pairs) \in Nat /\ pairs = [k \in 1..Len(pairs) |-> pairs[k]]
    BY <1>4, BytesElim
  <2>2. Len(pairs) # 0
    <3>1. ASSUME Len(pairs) = 0
          PROVE  FALSE
      <4>1. DOMAIN pairs = {} /\ pairs = [k \in {} |-> pairs[k]]
        BY <2>1, <3>1
      <4>2. \E S : pairs \in Seq(S)
        BY <1>4, BytesElim
      <4> QED
        BY <1>1, <3>1, <4>2
    <3> QED
      BY <3>1
  <2>3. 1 \in DOMAIN pairs
    BY <2>1, <2>2
  <2>4. \E n : n \in 1..Cardinality(Trees(work))
    BY <1>6, <2>3 DEF PairsFit
  <2>5. Bytes(Data(J, T))
    BY <1>3, <1>4, DataCells
  <2>6. Trees(Data(J, T)) # {}
    BY <1>7, <2>4, <2>5, TreesCounted
  <2> QED
    BY <1>3, <2>6
<1>9. ~HasMetadata(J)
  BY <1>1 DEF TInv, NoMetadata
<1> HIDE DEF T, H, J, moved
<1>10. /\ HeadersRewritten(raw', raw, T, Len(work) - ph.filesz, Len(work))
       /\ SlotPlaces(raw') \subseteq CellsOf(raw', H)
  <2>1. \A q \in 1..Len(work) : work[q].kind # "slot"
    BY <1>1, <1>8 DEF MemoryInPlace, T, H
  <2>2. SlotPlaces(raw) \subseteq CellsOf(raw, H)
    BY <1>1 DEF TableInPlace, InTable, H
  <2>3. Len(work) \in 0..Len(work) /\ 0 \in Int /\ H \in 2..PhNum(raw)
    BY <1>3, <1>4
  <2>4. HeadersRewritten(raw', raw, T, Len(work) - ph.filesz, Len(work))
    BY <1>1, <1>3, <1>4, <2>3, ResegmentedCells
  <2>5. SlotPlaces(raw') \subseteq CellsOf(raw', H)
    BY <1>1, <1>3, <1>4, <1>8, <2>1, <2>2, <2>3, ResegmentedSlots
  <2> QED
    BY <2>4, <2>5
<1>11. \A j \in 2..PhNum(raw) :
         /\ Ph(raw', j).null = Ph(raw, j).null
         /\ Ph(raw', j).filesz = IF j = T THEN Len(work) ELSE Ph(raw, j).filesz
         /\ Ph(raw', j).memsz = IF j = T THEN Len(work) ELSE Ph(raw, j).memsz
  <2>1. ASSUME NEW j \in 2..PhNum(raw)
        PROVE  j \in 1..PhNum(raw)
    BY <1>3
  <2> QED
    BY <1>10, <2>1 DEF HeadersRewritten, Phdr
<1>12. Data(raw', H) = Data(raw, H)
  BY <1>3, <1>5, <1>8
<1>13. InTable(raw', J, H)
  <2>1. Ph(raw', H).filesz = Ph(raw, H).filesz
    BY <1>3, <1>8, <1>11
  <2>2. InTable(raw, J, H)
    BY <1>1 DEF TableInPlace, J, H
  <2> QED
    BY <1>3, <1>5, <1>10, <1>12, <2>1, <2>2 DEF InTable, TableSlots
<1>14. \A i \in 2..PhNum(J) : Fills(Data(raw', i)) <=> Fills(Data(J, i))
  <2>1. Fills(work) <=> Fills(Data(J, T))
    BY <1>1 DEF MemoryInPlace, T, J
  <2>2. \A i \in 2..PhNum(J) : Fills(Data(raw, i)) <=> Fills(Data(J, i))
    BY <1>1 DEF TableInPlace, J
  <2> QED
    BY <1>3, <1>5, <2>1, <2>2
<1>15. \A i \in 2..PhNum(J) :
         /\ Ph(raw, i).null => i = H
         /\ Trees(Data(J, i)) # {} => Ph(raw, i).memsz = Ph(raw, i).filesz
  BY <1>1, <1>9 DEF TableInPlace, J, H
<1>16. TableInPlace'
  <2>1. \A i \in 2..PhNum(J) :
          /\ Ph(raw', i).null => i = H
          /\ Trees(Data(J, i)) # {} => Ph(raw', i).memsz = Ph(raw', i).filesz
    BY <1>3, <1>11, <1>15
  <2> QED
    BY <1>1, <1>2, <1>13, <1>14, <2>1 DEF TableInPlace, J, H
<1> DEFINE s == Segments(raw)
           z == Segments(raw')
<1>17. /\ s[T] = Data(raw, T) /\ z[T] = work
       /\ \A j \in 2..PhNum(J) : j # T => z[j] = s[j]
       /\ s[1] = Data(raw, 1) /\ z[1] = Data(raw', 1)
  <2>1. \A j \in 2..PhNum(J) : j \in 1..PhNum(raw) /\ 1 \in 1..PhNum(raw)
    BY <1>3
  <2>2. \A j \in 1..PhNum(raw) : s[j] = Data(raw, j) /\ z[j] = Data(raw', j)
    BY <1>5 DEF Segments
  <2>3. 1 \in 1..PhNum(raw)
    BY <1>3, <2>1
  <2> HIDE DEF s, z
  <2> QED
    BY <1>3, <1>4, <1>5, <2>1, <2>2, <2>3
<1>18. SidePair(raw, raw', 1) = <<s[1], z[1]>>
  <2>1. /\ Ph(raw, 1).off = 1 /\ Ph(raw, 1).filesz = PhNum(raw) + 1
        /\ Ph(raw', 1).off = 1 /\ Ph(raw', 1).filesz = PhNum(raw) + 1
    BY <1>3, <1>5, WellFormedFacts
  <2>2. Data(raw', 1) = Slice(raw', Ph(raw, 1).off, Ph(raw, 1).filesz)
    BY <2>1 DEF Data
  <2> QED
    BY <1>17, <2>2 DEF SidePair
<1> DEFINE last == IF moved THEN <<SidePair(raw, raw', 1)>> ELSE <<>>
<1>19. (last = <<>> /\ z[1] = s[1]) \/ last = <<<<s[1], z[1]>>>>
  <2>1. CASE moved
    BY <1>18, <2>1
  <2>2. CASE ~moved
    <3>1. Ph(raw, 1).filesz > 0
      BY <1>3, WellFormedFacts
    <3>2. Len(work) = ph.filesz
      BY <2>2, <3>1 DEF moved
    <3>3. Len(work) - ph.filesz = 0
      BY <1>4, <3>2
    <3>4. HeadersRewritten(raw', raw, T, 0, Ph(raw, T).filesz)
      BY <1>10, <3>2, <3>3
    <3>5. Ph(raw, T).memsz = Ph(raw, T).filesz
      BY <1>3, <1>4, <1>8, <1>15
    <3>6. Data(raw', 1) = Data(raw, 1)
      BY <1>3, <1>4, <1>5, <3>4, <3>5, HeadersSame
    <3> HIDE DEF s, z
    <3> QED
      BY <1>17, <2>2, <3>6
  <2> QED
    BY <2>1, <2>2
<1> HIDE DEF s, z, last
<1>20. pairs' = pairs \o <<<<Data(raw, T), work>>>> \o last
  BY <1>1 DEF last, moved, T
<1>21. Bytes(pairs') /\ Leads(J, H, pairs', s, z)
  <2>1. T \in 2..PhNum(J) /\ T # H /\ WellFormed(J) /\ HasTable(J, H) /\ Bytes(pairs)
    BY <1>3, <1>4, <1>8
  <2>2. /\ s[T] = Data(raw, T) /\ z[T] = work
        /\ \A j \in 2..PhNum(J) : j # T => z[j] = s[j]
    BY <1>17
  <2> DEFINE b   == Data(raw, T)
             all == pairs \o <<<<b, work>>>> \o last
  <2>3. PairsFit(pairs, b, work, Waiting) /\ s[T] = b
    BY <1>6, <2>2
  <2> HIDE DEF b
  <2>4. Bytes(all) /\ Leads(J, H, all, s, z)
    BY <1>7, <1>19, <2>1, <2>2, <2>3, WrittenLeads
  <2> QED
    BY <1>20, <2>4 DEF b
<1>22. Version(J, s)
  BY <1>1, FileVersion DEF TableInPlace, s, J
<1>23. Follows(J, H, Data(raw', H), s)
  <2>1. Follows(J, H, Data(raw, H), s)
    BY <1>1 DEF TableFollows, s, J, H
  <2> QED
    BY <1>12, <2>1
<1>24. TableFollows'
  BY <1>1, <1>2, <1>21, <1>22, <1>23 DEF TableFollows, J, H, z
<1>25. MemoryInPlace' /\ PairsOfTrees'
  BY <1>1 DEF MemoryInPlace, PairsOfTrees
<1> QED
  BY <1>16, <1>24, <1>25

-----------------------------------------------------------------------------
(* The step that replaces the digests.                                      *)

\* A table says nothing of its own segment.
LEMMA FollowsOff ==
  ASSUME NEW f, WellFormed(f), NEW h, h \in 1..PhNum(f), Trees(Data(f, h)) = {},
         NEW tab, NEW s, Follows(f, h, tab, s), NEW z, \A j \in 1..PhNum(f) : j # h => z[j] = s[j]
  PROVE  Follows(f, h, tab, z)
<1>1. ASSUME NEW o \in Things(f, h)
      PROVE  Piece(z, o) = Piece(s, o)
  <2>1. /\ o[1] \in 1..PhNum(f) /\ o[2] \in 0..Cardinality(Trees(Data(f, o[1])))
        /\ o[2] = 0 => o[1] # h
    BY ThingKinds
  <2>2. o[1] # h
    <3>1. Bytes(Data(f, h))
      BY DataCells
    <3>2. Cardinality(Trees(Data(f, h))) = 0
      BY <3>1, TreesCounted
    <3>3. ASSUME o[1] = h
          PROVE  FALSE
      <4>1. o[2] \in 0..0
        BY <2>1, <3>2, <3>3
      <4> QED
        BY <2>1, <3>3, <4>1
    <3> QED
      BY <3>3
  <2>3. z[o[1]] = s[o[1]]
    BY <2>1, <2>2
  <2> QED
    BY <2>3 DEF Piece
<1> QED
  BY <1>1 DEF Follows

\* replace_hashes: the table follows the file again.
LEMMA ReplaceDigestsDInv ==
  ASSUME DInv, TInv', ReplaceDigests
  PROVE  DInv'
<1> SUFFICES ASSUME Digested
             PROVE  (TableInPlace /\ MemoryInPlace /\ PairsOfTrees /\ TableFollows)'
  BY DEF DInv, Digested, ReplaceDigests
<1> DEFINE T  == Target
           H  == HashTable
           J  == job.image
           lo == HashFirst(raw, T)
           hi == HashLast(raw, T)
           z  == Segments(raw)
<1>1. /\ TableInPlace /\ TableFollows /\ IInv /\ TInv
      /\ pc = "digests" /\ elfType = "uefi_dtbs" /\ left # {} /\ pc' = "segment"
      /\ raw' = DigestsReplaced(raw, pairs, lo, hi)
      /\ UNCHANGED job
  BY DEF DInv, TInv, ReplaceDigests, IInv, SegmentsToGo
<1>2. HashTable' = HashTable
  BY <1>1 DEF HashTable
<1>3. /\ WellFormed(J) /\ WellFormed(raw) /\ PhNum(raw) = PhNum(J) /\ PhNum(raw) \in Nat
      /\ SectionsAhead(J) /\ WholeTrees(J) /\ NamedTrees(J) /\ UniqueSlots(J)
      /\ H \in 2..PhNum(J) /\ H \in 1..PhNum(J) /\ HasTable(J, H) /\ Trees(Data(J, H)) = {}
  BY <1>1, TableFacts
<1>4. T \in 2..PhNum(raw)
  BY <1>1, FileFacts
<1>5. /\ InTable(raw, J, H) /\ SlotPlaces(raw) \subseteq CellsOf(raw, H)
      /\ \A i \in 2..PhNum(J) : Ph(raw, i).null => i = H
      /\ \A i \in 2..PhNum(J) : Trees(Data(J, i)) # {} => Ph(raw, i).memsz = Ph(raw, i).filesz
      /\ \A i \in 2..PhNum(J) : Fills(Data(raw, i)) <=> Fills(Data(J, i))
  <2>1. ~HasMetadata(J)
    BY <1>1 DEF TInv, NoMetadata
  <2> QED
    BY <1>1, <2>1 DEF TableInPlace, InTable
<1> HIDE DEF T, H, J
<1>6. lo \in Nat \ {0} /\ CellsOf(raw, H) \subseteq lo..hi
  <2>1. /\ Ph(raw, H).off \in Nat \ {0} /\ Ph(raw, H).filesz \in Nat
        /\ Ph(raw, H).off + Ph(raw, H).filesz - 1 <= Len(raw) /\ Len(raw) \in Nat
    BY <1>3, WellFormedFacts
  <2>2. CASE HashSegments(raw, T) = {}
    <3>1. lo = 1 /\ hi = Len(raw)
      BY <2>2 DEF HashFirst, HashLast
    <3> HIDE DEF lo, hi
    <3> QED
      BY <2>1, <3>1 DEF CellsOf
  <2>3. CASE HashSegments(raw, T) # {}
    <3>1. \A j \in HashSegments(raw, T) : j = H
      <4>1. ASSUME NEW j \in (T + 1)..PhNum(raw)
            PROVE  j \in 2..PhNum(raw)
        BY <1>3, <1>4
      <4> QED
        BY <1>3, <1>5, <4>1 DEF HashSegments
    <3>2. HashSegments(raw, T) = {H}
      BY <2>3, <3>1
    <3>3. HashSegment(raw, T) = H
      BY <3>1, <3>2 DEF HashSegment, Least
    <3>4. lo = Ph(raw, H).off /\ hi = Ph(raw, H).off + Ph(raw, H).filesz - 1
      BY <2>3, <3>3 DEF HashFirst, HashLast
    <3> QED
      BY <2>1, <3>4 DEF CellsOf
  <2> QED
    BY <2>2, <2>3
<1>7. Bytes(pairs) /\ \E s : /\ Version(J, s) /\ Follows(J, H, Data(raw, H), s)
                             /\ Leads(J, H, pairs, s, z)
  BY <1>1 DEF TableFollows, J, H
<1>8. PICK s : Version(J, s) /\ Follows(J, H, Data(raw, H), s) /\ Leads(J, H, pairs, s, z)
  BY <1>7
<1>9. Version(J, z)
  BY <1>1, <1>5, FileVersion DEF J
<1> HIDE DEF lo, hi, z
<1>10. InTable(raw', J, H) /\ Follows(J, H, Data(raw', H), z)
  BY <1>1, <1>3, <1>5, <1>6, <1>7, <1>8, <1>9, TableReplaced
<1>11. /\ WellFormed(raw') /\ PhNum(raw') = PhNum(raw)
       /\ \A j \in 1..PhNum(raw) : Ph(raw', j) = Ph(raw, j)
       /\ \A j \in 1..PhNum(raw) : Neutral(Data(raw, j), Data(raw', j))
       /\ \A j \in 1..PhNum(raw) : j # H => Data(raw', j) = Data(raw, j)
  <2>1. \A j \in 1..PhNum(raw) : j # H => Data(raw', j) = Data(raw, j)
    BY <1>1, <1>3, <1>5, DigestsElsewhere
  <2>2. /\ HeadersFollow(raw', raw)
        /\ \A j \in 1..PhNum(raw) : Ph(raw', j) = Ph(raw, j)
        /\ \A j \in 1..PhNum(raw) : Neutral(Data(raw, j), Data(raw', j))
    BY <1>1, <1>3, DigestsFile
  <2> QED
    BY <2>1, <2>2 DEF HeadersFollow
<1>12. \A i \in 2..PhNum(J) : Fills(Data(raw', i)) <=> Fills(Data(J, i))
  <2>1. ASSUME NEW i \in 2..PhNum(J)
        PROVE  Fills(Data(raw', i)) <=> Fills(Data(raw, i))
    <3>1. i \in 1..PhNum(raw)
      BY <1>3
    <3>2. Bytes(Data(raw, i)) /\ Bytes(Data(raw', i))
      BY <1>3, <1>11, <3>1, DataCells
    <3>3. Clean(Data(raw, i))
      BY <1>1, <1>3 DEF TInv, TreesKept, Grown, J
    <3> QED
      BY <1>11, <3>1, <3>2, <3>3, NeutralFills
  <2> QED
    BY <1>5, <2>1
<1>13. TableInPlace'
  <2>1. \A i \in 2..PhNum(J) : Ph(raw', i) = Ph(raw, i)
    <3>1. \A i \in 2..PhNum(J) : i \in 1..PhNum(raw)
      BY <1>3
    <3> QED
      BY <1>11, <3>1
  <2> QED
    BY <1>1, <1>2, <1>5, <1>10, <1>12, <2>1 DEF TableInPlace, J, H
<1>14. TableFollows'
  <2> DEFINE y == Segments(raw')
  <2>1. \A j \in 1..PhNum(J) : j # H => y[j] = z[j]
    BY <1>3, <1>11 DEF Segments, z
  <2> HIDE DEF y
  <2>2. Follows(J, H, Data(raw', H), y)
    BY <1>3, <1>10, <2>1, FollowsOff
  <2> QED
    BY <1>1, <1>2, <2>2 DEF TableFollows, J, H, y
<1>15. MemoryInPlace' /\ PairsOfTrees'
  BY <1>1 DEF MemoryInPlace, PairsOfTrees
<1> QED
  BY <1>13, <1>14, <1>15

-----------------------------------------------------------------------------
(* The stages of ReplacePh.                                                 *)

\* The stages of ReplacePh.
Resized(f, i, bytes) ==
  LET grow == Len(bytes) - Ph(f, i).filesz
  IN Resegmented(f, i, ZeroPadded(bytes, -grow), Len(bytes), grow)
Itemed(f, i, bytes) == ItemSized(Resized(f, i, bytes), Ph(f, 2).off + i - 2, Len(bytes))
Owned(f, i, bytes) ==
  DigestsReplaced(Itemed(f, i, bytes), <<<<Data(f, i), bytes>>>>, 1, Len(Itemed(f, i, bytes)))
Sides(f, i, bytes) == <<SidePair(f, Owned(f, i, bytes), 1), SidePair(f, Owned(f, i, bytes), 2)>>
SidePairs(sides) == Picked(sides, {s \in 1..2 : sides[s][1] # <<>>})

\* _replace_ph is its stages one after the other.
LEMMA ReplacePhStages ==
  ASSUME NEW f, NEW i, NEW bytes
  PROVE  ReplacePh(f, i, bytes) =
           DigestsReplaced(Owned(f, i, bytes), SidePairs(Sides(f, i, bytes)), 1, Len(Owned(f, i, bytes)))
BY DEF ReplacePh, SidePairs, Sides, Owned, Itemed, Resized

\* A payload with zeros behind it.
LEMMA PaddedCells ==
  ASSUME NEW bytes, Bytes(bytes), Cellular(bytes), NEW k, k \in Int
  PROVE  LET padded == ZeroPadded(bytes, k)
         IN /\ Bytes(padded) /\ Cellular(padded)
            /\ Len(padded) = Len(bytes) + (IF k > 0 THEN k ELSE 0)
            /\ \A q \in 1..Len(padded) : padded[q] = IF q <= Len(bytes) THEN bytes[q] ELSE Cell("zero")
<1> DEFINE padded == ZeroPadded(bytes, k)
           n == Len(bytes)
<1>1. /\ Bytes(padded) /\ Len(padded) = n + (IF k > 0 THEN k ELSE 0)
      /\ \A q \in 1..Len(padded) : padded[q] = IF q <= n THEN bytes[q] ELSE Cell("zero")
  BY ZeroPaddedBytes
<1> HIDE DEF padded
<1>2. DOMAIN padded = 1..Len(padded) /\ DOMAIN bytes = 1..n /\ n \in Nat /\ Len(padded) \in Nat
  BY <1>1, BytesElim
<1>3. IsCell(Cell("zero"))
  BY DEF IsCell, Cell
<1>4. ASSUME NEW q \in DOMAIN padded
      PROVE  IsCell(padded[q])
  <2>1. CASE q <= n
    <3>1. q \in DOMAIN bytes
      BY <1>2, <2>1
    <3> QED
      BY <1>1, <1>2, <2>1, <3>1 DEF Cellular
  <2>2. CASE ~(q <= n)
    BY <1>1, <1>2, <1>3, <2>2
  <2> QED
    BY <2>1, <2>2
<1> QED
  BY <1>1, <1>4 DEF Cellular, padded

\* The file with the segment and the size of its item in place, the table of digests
\* not yet looked at.
ItemsReady(g, r, f, h, t, new) ==
  /\ InTable(g, f, h) /\ Data(g, h) = Data(r, h) /\ Data(g, t) = new
  /\ WellFormed(g) /\ PhNum(g) = PhNum(r)
  /\ Ph(g, 2).off = Ph(r, 2).off /\ Ph(g, 2).filesz = Ph(r, 2).filesz

\* The file after the segment was resized and its item written: the table is as it was.
LEMMA ItemedFile ==
  ASSUME NEW r, WellFormed(r), SectionsAhead(r), NEW f, NEW h, h \in 2..PhNum(r), h # 2, InTable(r, f, h),
         NEW t, t \in 3..PhNum(r), t # h, Ph(r, t).filesz > 0, t - 1 \in 1..Ph(r, 2).filesz,
         NEW new, Bytes(new), Cellular(new), \A q \in 1..Len(new) : new[q].kind # "slot"
  PROVE  ItemsReady(Itemed(r, t, new), r, f, h, t, new)
<1> DEFINE n      == Len(new)
           grow   == n - Ph(r, t).filesz
           padded == ZeroPadded(new, -grow)
           sized  == Resegmented(r, t, padded, n, grow)
           at     == Ph(r, 2).off + t - 2
           items  == ItemSized(sized, at, n)
<1>1. /\ PhNum(r) \in Nat /\ t \in 2..PhNum(r) /\ t \in 1..PhNum(r) /\ 2 \in 1..PhNum(r)
      /\ t # 2 /\ 2 < t /\ h \in 1..PhNum(r) /\ 2 \in 2..PhNum(r)
  <2>1. PhNum(r) \in Nat
    BY WellFormedFacts
  <2> QED
    BY <2>1
<1>2. n \in Nat /\ Ph(r, t).filesz \in Nat /\ Ph(r, 2).off \in Nat /\ Ph(r, 2).filesz \in Nat
  BY <1>1, BytesElim, WellFormedFacts
<1>3. grow \in Int /\ -grow \in Int
  BY <1>2
<1>4. /\ Bytes(padded) /\ Cellular(padded) /\ Len(padded) >= Ph(r, t).filesz /\ n \in 0..Len(padded)
      /\ \A q \in 1..n : padded[q] = new[q]
      /\ \A q \in 1..Len(padded) : padded[q].kind # "slot"
  <2>1. /\ Bytes(padded) /\ Cellular(padded) /\ Len(padded) = n + (IF -grow > 0 THEN -grow ELSE 0)
        /\ \A q \in 1..Len(padded) : padded[q] = IF q <= n THEN new[q] ELSE Cell("zero")
    BY <1>3, PaddedCells
  <2>2. /\ Len(padded) >= Ph(r, t).filesz /\ n \in 0..Len(padded)
        /\ \A q \in 1..n : q \in 1..Len(padded) /\ q <= n
        /\ \A q \in 1..Len(padded) : q <= n => q \in 1..n
    <3> HIDE DEF padded, n
    <3> QED
      BY <1>2, <2>1
  <2>3. Cell("zero").kind # "slot"
    BY DEF Cell
  <2> HIDE DEF padded, n
  <2> QED
    BY <2>1, <2>2, <2>3 DEF n
<1> HIDE DEF padded
<1>5. SegmentReplaced(sized, r, t, padded, n)
  BY <1>1, <1>3, <1>4, ResegmentedFile
<1>6. SlotPlaces(sized) \subseteq CellsOf(sized, h)
  <2>1. SlotPlaces(r) \subseteq CellsOf(r, h)
    BY DEF InTable
  <2> QED
    BY <1>1, <1>3, <1>4, <2>1, ResegmentedSlots
<1> HIDE DEF sized, n, grow
<1>7. /\ WellFormed(sized) /\ PhNum(sized) = PhNum(r)
      /\ Ph(sized, h).filesz = Ph(r, h).filesz /\ Ph(sized, 2).filesz = Ph(r, 2).filesz
      /\ Ph(sized, t).filesz = n /\ Ph(sized, 2).off = Ph(r, 2).off
      /\ Data(sized, h) = Data(r, h) /\ Data(sized, t) = new
  <2>1. /\ WellFormed(sized) /\ PhNum(sized) = PhNum(r)
        /\ Ph(sized, h).filesz = Ph(r, h).filesz /\ Ph(sized, 2).filesz = Ph(r, 2).filesz
        /\ Ph(sized, t).filesz = n /\ Ph(sized, 2).off = Ph(r, 2).off
        /\ Data(sized, h) = Data(r, h) /\ \A q \in 1..n : Data(sized, t)[q] = padded[q]
    BY <1>1, <1>5 DEF SegmentReplaced, HeadersFollow
  <2>2. Bytes(Data(sized, t)) /\ Len(Data(sized, t)) = n
    BY <1>1, <2>1, DataCells
  <2>3. \A q \in 1..n : Data(sized, t)[q] = new[q]
    BY <1>4, <2>1
  <2>4. Data(sized, t) = new
    BY <2>2, <2>3, BytesEqual DEF n
  <2> QED
    BY <2>1, <2>4
<1>8. ItemWritten(items, sized, t - 1, n)
  <2> DEFINE k == t - 1
  <2>1. at = Ph(sized, 2).off + k - 1
    BY <1>1, <1>2, <1>7
  <2>2. k \in 1..Ph(sized, 2).filesz /\ 2 \in 1..PhNum(sized)
    BY <1>1, <1>7
  <2> HIDE DEF k, at
  <2>3. ItemWritten(ItemSized(sized, Ph(sized, 2).off + k - 1, n), sized, k, n)
    BY <1>7, <2>2, ItemSizedFile
  <2> QED
    BY <2>1, <2>3 DEF k
<1>9. SlotPlaces(items) \subseteq SlotPlaces(sized)
  <2>1. items = [sized EXCEPT ![at] = WithSize(@, n)]
    BY DEF ItemSized
  <2>2. \A c : WithSize(c, n).kind # "slot"
    BY DEF WithSize, Item, Cell
  <2>3. DOMAIN items = DOMAIN sized
    BY <2>1
  <2>4. \A p \in DOMAIN sized : items[p] = IF p = at THEN WithSize(sized[p], n) ELSE sized[p]
    BY <1>7, <2>1, WellFormedFacts
  <2> HIDE DEF items, at
  <2> QED
    BY <2>2, <2>3, <2>4 DEF SlotPlaces
<1> HIDE DEF items
<1>10. /\ WellFormed(items) /\ PhNum(items) = PhNum(r)
       /\ Ph(items, h) = Ph(sized, h) /\ Ph(items, 2) = Ph(sized, 2)
       /\ Data(items, h) = Data(sized, h) /\ Data(items, t) = Data(sized, t)
  BY <1>1, <1>7, <1>8 DEF ItemWritten, HeadersFollow
<1>11. InTable(items, f, h)
  BY <1>6, <1>7, <1>9, <1>10 DEF InTable, TableSlots, CellsOf
<1>12. ItemsReady(items, r, f, h, t, new)
  BY <1>7, <1>10, <1>11 DEF ItemsReady
<1>13. Itemed(r, t, new) = items
  BY DEF Itemed, Resized, items, sized, padded, grow, n, at
<1> QED
  BY <1>12, <1>13

\* A tree that is its segment is the only one.
LEMMA FillsAlone ==
  ASSUME NEW b, Bytes(b), Fills(b), NEW k \in 1..Cardinality(Trees(b))
  PROVE  k = 1
<1>1. Len(b) \in Nat /\ Trees(b) \in SUBSET (1..Len(b)) /\ 1 \in Trees(b) /\ b[1].size = Len(b)
  BY TreesFound DEF Fills
<1>2. ASSUME NEW p \in Trees(b)
      PROVE  p = 1
  <2>1. p \in 1..Len(b)
    BY <1>1
  <2>2. Whole(b, 1) /\ \A q \in 1..(p - 1) : Whole(b, q) => q + b[q].size <= p
    BY <1>1 DEF Trees
  <2>3. 1 \in 1..(p - 1) => 1 + Len(b) <= p
    BY <1>1, <2>2
  <2> QED
    BY <1>1, <2>1, <2>3
<1>3. Nth(Trees(b), k) = 1 /\ RankIn(Trees(b), Nth(Trees(b), k)) = k
  BY <1>1, <1>2, NthProperties
<1>4. RankIn(Trees(b), 1) \in 1..Cardinality(Trees(b)) /\ 1 \in 1..Cardinality(Trees(b)) /\ Nth(Trees(b), 1) = 1
  BY <1>1, NthProperties, FirstPlace
<1>5. RankIn(Trees(b), Nth(Trees(b), 1)) = 1
  BY <1>1, <1>4, NthProperties
<1> QED
  BY <1>3, <1>4, <1>5

\* The pair of a segment that is replaced leads to the version with the new one.
LEMMA OwnLeads ==
  ASSUME NEW f, WellFormed(f), HasMetadata(f), NEW h, HasTable(f, h), NEW t, t \in 2..PhNum(f), t # h,
         NEW s, NEW new, NEW z, z[t] = new, \A j \in 1..PhNum(f) : j # t => z[j] = s[j],
         Bytes(s[t]), Cellular(s[t]), Bytes(new), Cellular(new),
         Fills(s[t]) <=> Fills(Data(f, t)), Fills(new) <=> Fills(Data(f, t))
  PROVE  Bytes(<<<<s[t], new>>>>) /\ Leads(f, h, <<<<s[t], new>>>>, s, z)
<1> DEFINE b  == s[t]
           ps == <<<<b, new>>>>
<1>1. Bytes(ps) /\ DOMAIN ps = {1} /\ ps[1] = <<b, new>>
  <2>1. ps \in Seq({<<b, new>>}) /\ DOMAIN ps = {1} /\ ps[1] = <<b, new>>
    OBVIOUS
  <2> QED
    BY <2>1, BytesOfSeq
<1>2. t \in 1..PhNum(f) /\ <<t, 0>> \in Things(f, h)
  <2>1. t \in 1..PhNum(f)
    BY WellFormedFacts
  <2> QED
    BY <2>1 DEF Things, HashedOf
<1> HIDE DEF ps, b
<1>3. Piece(s, <<t, 0>>) = b /\ Piece(z, <<t, 0>>) = new
  BY DEF Piece, b
<1>4. ASSUME NEW o \in Things(f, h), Held(f, o)
      PROVE  Piece(z, o) = Piece(s, o) \/ HasPair(ps, s, z, o)
  <2>1. /\ o[1] \in 1..PhNum(f) /\ o = <<o[1], o[2]>> /\ o[2] \in 0..Cardinality(Trees(Data(f, o[1])))
        /\ o \in TreesOf(f) <=> o[2] # 0
    BY ThingKinds
  <2>2. CASE o[1] # t
    <3>1. z[o[1]] = s[o[1]]
      BY <2>1, <2>2
    <3> QED
      BY <3>1 DEF Piece
  <2>3. CASE o[1] = t /\ o[2] = 0
    BY <1>1, <1>3, <2>1, <2>3 DEF HasPair
  <2>4. CASE o[1] = t /\ o[2] # 0
    <3>1. Fills(Data(f, t))
      BY <1>4, <2>1, <2>4 DEF Held, HasTable
    <3>2. o[2] = 1
      <4>1. Bytes(Data(f, t))
        BY <1>2, DataCells
      <4>2. o[2] \in 1..Cardinality(Trees(Data(f, t)))
        <5>1. o[2] \in 0..Cardinality(Trees(Data(f, t))) /\ Cardinality(Trees(Data(f, t))) \in Nat
          BY <2>1, <2>4, <4>1, TreesCounted
        <5> QED
          BY <2>4, <5>1
      <4> QED
        BY <3>1, <4>1, <4>2, FillsAlone
    <3>3. TreeAt(b, 1) = b /\ TreeAt(new, 1) = new
      BY <3>1, FillsWhole DEF b
    <3>4. Piece(s, o) = b /\ Piece(z, o) = new
      BY <2>4, <3>2, <3>3 DEF Piece, b
    <3> QED
      BY <1>1, <3>4 DEF HasPair
  <2> QED
    BY <2>2, <2>3, <2>4
<1>5. Leads(f, h, ps, s, z)
  BY <1>1, <1>2, <1>3, <1>4 DEF Leads
<1> QED
  BY <1>1, <1>5 DEF ps, b

\* The pairs of PH#0 and of the metadata lead to the version with these two.
LEMMA SideLeads ==
  ASSUME NEW f, WellFormed(f), HasMetadata(f), NEW h, HasTable(f, h), h # 2,
         NEW s, NEW z, \A j \in 3..PhNum(f) : j # h => z[j] = s[j],
         s[1] # <<>>, s[2] # <<>>,
         NEW sides, sides = <<<<s[1], z[1]>>, <<s[2], z[2]>>>>
  PROVE  Bytes(SidePairs(sides)) /\ Leads(f, h, SidePairs(sides), s, z)
<1> DEFINE S  == {k \in 1..2 : sides[k][1] # <<>>}
           ps == SidePairs(sides)
           two == 2
<1>1. S = 1..2 /\ sides[1] = <<s[1], z[1]>> /\ sides[2] = <<s[2], z[2]>>
  OBVIOUS
<1>2. ps = Picked(sides, S)
  BY DEF SidePairs
<1>3. two \in Nat /\ S \in SUBSET (1..two)
  BY <1>1
<1> HIDE DEF S, ps, two
<1>4. /\ Cardinality(S) \in Nat /\ DOMAIN ps = 1..Cardinality(S)
      /\ \A k \in 1..Cardinality(S) : \E p \in S : ps[k] = sides[p]
      /\ \A p \in S : \E k \in 1..Cardinality(S) : ps[k] = sides[p]
  <2>1. Cardinality(S) \in Nat /\ DOMAIN Picked(sides, S) = 1..Cardinality(S)
    BY <1>3, RankOfLast DEF Picked
  <2>2. \A k \in 1..Cardinality(S) : Nth(S, k) \in S /\ Picked(sides, S)[k] = sides[Nth(S, k)]
    BY <1>3, NthProperties DEF Picked
  <2>3. \A p \in S : RankIn(S, p) \in 1..Cardinality(S) /\ Nth(S, RankIn(S, p)) = p
    BY <1>3, NthProperties
  <2> QED
    BY <1>2, <2>1, <2>2, <2>3
<1>5. Bytes(ps)
  <2>1. ps = [k \in 1..Cardinality(S) |-> ps[k]]
    BY <1>2 DEF Picked
  <2> QED
    BY <1>4, <2>1, BytesIntro
<1>6. PhNum(f) \in Nat /\ PhNum(f) > 1 /\ h \in 2..PhNum(f) /\ 1 \in 1..PhNum(f) /\ 2 \in 1..PhNum(f) /\ 2 \in 2..PhNum(f)
  <2>1. PhNum(f) \in Nat /\ PhNum(f) > 1
    BY MetadataFacts
  <2> QED
    BY <2>1 DEF HasTable
<1>7. <<1, 0>> \in Things(f, h) /\ <<2, 0>> \in Things(f, h)
  BY <1>6 DEF Things, HashedOf
<1>8. \A p \in 1..2 : sides[p] = <<Piece(s, <<p, 0>>), Piece(z, <<p, 0>>)>> /\ <<p, 0>> \in Things(f, h)
  BY <1>1, <1>7 DEF Piece
<1>9. \A k \in DOMAIN ps : \E o \in Things(f, h) : ps[k] = <<Piece(s, o), Piece(z, o)>>
  BY <1>1, <1>4, <1>8
<1>10. ASSUME NEW o \in Things(f, h)
       PROVE  Piece(z, o) = Piece(s, o) \/ HasPair(ps, s, z, o)
  <2>1. /\ o[1] \in 1..PhNum(f) /\ o = <<o[1], o[2]>> /\ o[2] \in 0..Cardinality(Trees(Data(f, o[1])))
        /\ o[2] = 0 => o[1] # h
    BY ThingKinds
  <2>2. ASSUME NEW i \in {1, 2, h}
        PROVE  Cardinality(Trees(Data(f, i))) = 0
    <3>1. i \in 1..PhNum(f)
      BY <1>6
    <3>2. Trees(Data(f, i)) = {}
      <4>1. CASE i = 1
        BY <4>1, NoTreeInHeaders
      <4>2. CASE i = h
        BY <4>2 DEF HasTable
      <4>3. CASE i = 2
        <5>1. IsMetadata(f, 2)
          BY DEF IsMetadata
        <5>2. 2 \in Bystanders(f) \/ Trees(Data(f, 2)) = {}
          BY <1>6, <5>1 DEF HasTable
        <5> QED
          BY <4>3, <5>2, BystanderTrees
      <4> QED
        BY <4>1, <4>2, <4>3
    <3>3. Bytes(Data(f, i))
      BY <3>1, DataCells
    <3> QED
      BY <3>2, <3>3, TreesCounted
  <2>3. o[1] \in {1, 2, h} => o[2] = 0
    BY <2>1, <2>2
  <2>4. CASE o[1] \in {1, 2}
    <3>1. o = <<o[1], 0>> /\ o[1] \in 1..2 /\ o[1] \in S
      BY <1>1, <2>1, <2>3, <2>4
    <3>2. PICK k \in 1..Cardinality(S) : ps[k] = sides[o[1]]
      BY <1>4, <3>1
    <3>3. ps[k] = <<Piece(s, o), Piece(z, o)>> /\ k \in DOMAIN ps
      BY <1>4, <1>8, <3>1, <3>2
    <3> QED
      BY <3>3 DEF HasPair
  <2>5. CASE o[1] \notin {1, 2}
    <3>1. o[1] # h
      BY <2>1, <2>3
    <3>2. o[1] \in 3..PhNum(f)
      BY <1>6, <2>1, <2>5
    <3>3. z[o[1]] = s[o[1]]
      BY <3>1, <3>2
    <3> QED
      BY <3>3 DEF Piece
  <2> QED
    BY <2>4, <2>5
<1>11. Leads(f, h, ps, s, z)
  BY <1>9, <1>10 DEF Leads
<1> QED
  BY <1>5, <1>11 DEF ps

-----------------------------------------------------------------------------
(* The step of xbl_config.                                                  *)

\* A version with another segment in place of one that holds trees.
LEMMA VersionWith ==
  ASSUME NEW f, WellFormed(f), NEW s, Version(f, s), NEW t, t \in 3..PhNum(f), t \notin Bystanders(f),
         NEW new, Bytes(new), Cellular(new), Kept(Data(f, t), new),
         NEW z, z[t] = new, \A j \in 1..PhNum(f) : j # t => z[j] = s[j]
  PROVE  Version(f, z)
<1>1. PhNum(f) \in Nat \ {0} /\ t # 1 /\ t # 2 /\ t \in 1..PhNum(f) /\ 1 \in 1..PhNum(f)
  <2>1. PhNum(f) \in Nat \ {0}
    BY WellFormedFacts
  <2> QED
    BY <2>1
<1>2. z[1] = s[1] /\ (HasMetadata(f) => z[2] = s[2])
  <2>1. HasMetadata(f) => 2 \in 1..PhNum(f)
    BY <1>1 DEF HasMetadata
  <2> QED
    BY <1>1, <2>1
<1>3. \A j \in 1..PhNum(f) : Bytes(z[j]) /\ Cellular(z[j])
  BY DEF Version
<1>4. ASSUME NEW j \in 2..PhNum(f)
      PROVE  IF j \in Bystanders(f) THEN z[j] = Data(f, j) ELSE Kept(Data(f, j), z[j])
  <2>1. j \in 1..PhNum(f)
    BY <1>1
  <2>2. CASE j = t
    BY <2>2
  <2>3. CASE j # t
    BY <2>1, <2>3 DEF Version
  <2> QED
    BY <2>2, <2>3
<1> QED
  BY <1>2, <1>3, <1>4 DEF Version

FillsKept == \A i \in 2..PhNum(job.image) : Fills(Data(raw, i)) <=> Fills(Data(job.image, i))

\* At every step of a run the file is a version of the image.
LEMMA VersionHolds == TInv /\ Digested /\ FillsKept => Version(job.image, Segments(raw))
BY FileVersion DEF FillsKept

\* Where a tree of an xbl_config goes.
LEMMA XblTarget ==
  ASSUME IInv, ReplaceXblTree
  PROVE  /\ Target \in 3..PhNum(raw) /\ Target \in 2..PhNum(raw) /\ Target \in 1..PhNum(raw)
         /\ Target - 1 \in 1..Ph(raw, 2).filesz /\ Ph(raw, Target).filesz > 0
         /\ Bytes(NewWork) /\ Cellular(NewWork) /\ HasMetadata(job.image)
         /\ 2 \in 1..PhNum(raw) /\ Ph(raw, 2).filesz > 0
<1> DEFINE i == Target
<1>1. /\ pc = "tree" /\ trees # {} /\ elfType = "xbl_config" /\ Current.certs # <<>>
  BY DEF ReplaceXblTree
<1>2. /\ Bytes(work) /\ Cellular(work) /\ Len(work) \in Nat
      /\ TreesToGo /\ trees \subseteq Nat /\ delta \in Int
      /\ left # {} /\ i \in left /\ i \in 1..PhNum(raw)
      /\ Ph(raw, i).filesz \in Nat /\ Len(work) <= Ph(raw, i).filesz
  BY <1>1, TreeFacts
<1>3. /\ job \in Jobs /\ WellFormed(job.image) /\ WellFormed(raw)
      /\ PhNum(raw) = PhNum(job.image) /\ PhNum(raw) \in Nat
      /\ Value \in DOMAIN CertLen
  BY <1>1, FileFacts, JobFacts
<1>4. Bytes(NewWork) /\ Cellular(NewWork)
  BY <1>1, <1>2, <1>3, NewWorkFacts
<1>5. Ph(raw, i).filesz > 0
  BY <1>1, <1>2, CurrentTree
<1>6. /\ HasMetadata(job.image) /\ Ph(raw, 2).filesz = Ph(job.image, 2).filesz
      /\ ~MetaTruncated(job.image) /\ i \in ItemSegments(job.image)
  BY <1>1, <1>2 DEF IInv, MetadataKept
<1>7. /\ i \in 3..PhNum(raw) /\ i - 1 \in 1..Ph(raw, 2).filesz /\ i \in 2..PhNum(raw)
      /\ 2 \in 1..PhNum(raw) /\ Ph(raw, 2).filesz > 0
  <2>1. i \in 3..PhNum(raw) /\ i - 1 \in 2..Ph(raw, 2).filesz /\ Ph(raw, 2).filesz \in Nat \ {0}
    BY <1>3, <1>6, MetadataFacts
  <2> HIDE DEF i
  <2> QED
    BY <1>3, <2>1
<1> QED
  BY <1>2, <1>4, <1>5, <1>6, <1>7

\* The cells of a segment are cells of the file.
LEMMA WholeFile ==
  ASSUME NEW g, WellFormed(g), NEW h, h \in 1..PhNum(g)
  PROVE  CellsOf(g, h) \subseteq 1..Len(g)
<1>1. /\ Ph(g, h).off \in Nat \ {0} /\ Ph(g, h).filesz \in Nat /\ Len(g) \in Nat
      /\ Ph(g, h).off + Ph(g, h).filesz - 1 <= Len(g)
  BY WellFormedFacts
<1> QED
  BY <1>1 DEF CellsOf

\* A tree of an xbl_config is patched and written by _replace_ph, with the digests of the
\* segment, of the headers and of the metadata.
LEMMA ReplaceXblTreeDInv ==
  ASSUME DInv, TInv', ReplaceXblTree
  PROVE  DInv'
<1> SUFFICES ASSUME Digested
             PROVE  (TableInPlace /\ MemoryInPlace /\ PairsOfTrees /\ TableFollows)'
  BY DEF DInv, Digested, ReplaceXblTree
<1> DEFINE T == Target
           H == HashTable
           J == job.image
           new   == NewWork
           items == Itemed(raw, T, new)
           own   == Owned(raw, T, new)
           sides == Sides(raw, T, new)
           s  == Segments(raw)
           z1 == [s EXCEPT ![T] = new]
           z2 == Segments(raw')
<1>1. /\ TableInPlace /\ MemoryInPlace /\ TableFollows /\ IInv /\ TInv
      /\ pc = "tree" /\ trees # {} /\ elfType = "xbl_config" /\ Current.certs # <<>>
      /\ raw' = ReplacePh(raw, T, new)
      /\ UNCHANGED <<pc, job, elfType, left, work>>
  BY DEF DInv, TInv, ReplaceXblTree
<1>2. HashTable' = HashTable /\ Target' = Target
  BY <1>1 DEF HashTable, Target
<1>3. /\ WellFormed(J) /\ WellFormed(raw) /\ PhNum(raw) = PhNum(J) /\ PhNum(raw) \in Nat
      /\ SectionsAhead(J) /\ SectionsAhead(raw) /\ WholeTrees(J) /\ NamedTrees(J) /\ UniqueSlots(J)
      /\ H \in 2..PhNum(J) /\ H \in 1..PhNum(J) /\ HasTable(J, H) /\ Trees(Data(J, H)) = {}
  BY <1>1, TableFacts
<1>4. /\ T \in 3..PhNum(raw) /\ T \in 2..PhNum(raw) /\ T \in 1..PhNum(raw)
      /\ T - 1 \in 1..Ph(raw, 2).filesz /\ Ph(raw, T).filesz > 0
      /\ HasMetadata(J) /\ 2 \in 1..PhNum(raw) /\ Ph(raw, 2).filesz > 0
      /\ Bytes(new) /\ Cellular(new)
  BY <1>1, XblTarget
<1>5. /\ T # H /\ \A q \in 1..Len(new) : new[q].kind # "slot"
      /\ Clean(new) /\ Grown(Data(J, T), new, TRUE)
      /\ Fills(new) <=> Fills(Data(J, T))
  BY <1>1, TreePatched
<1>6. H # 2
  BY <1>3, <1>4 DEF HasTable, IsMetadata
<1>7. /\ InTable(raw, J, H) /\ SlotPlaces(raw) \subseteq CellsOf(raw, H)
      /\ \A i \in 2..PhNum(J) : Fills(Data(raw, i)) <=> Fills(Data(J, i))
      /\ Follows(J, H, Data(raw, H), s)
  BY <1>1 DEF TableInPlace, InTable, TableFollows
<1>8. T \notin Bystanders(J)
  BY <1>1, <1>3, TreeFacts
<1>9. raw' = DigestsReplaced(own, SidePairs(sides), 1, Len(own))
  BY <1>1, ReplacePhStages
<1>10. ItemsReady(items, raw, J, H, T, new)
  BY <1>3, <1>4, <1>5, <1>6, <1>7, ItemedFile
<1>11. own = DigestsReplaced(items, <<<<Data(raw, T), new>>>>, 1, Len(items))
  BY DEF Owned
<1>12. sides = <<SidePair(raw, own, 1), SidePair(raw, own, 2)>>
  BY DEF Sides
<1>13. \A j \in 1..PhNum(J) : s[j] = Data(raw, j)
  BY <1>3 DEF Segments
<1>14. z1[T] = new /\ \A j \in 1..PhNum(J) : j # T => z1[j] = s[j]
  <2>1. DOMAIN s = 1..PhNum(J)
    BY <1>3 DEF Segments
  <2> HIDE DEF s, T, new
  <2> QED
    BY <1>3, <1>4, <2>1
<1>15. Version(J, s)
  BY <1>1, <1>7, FileVersion
<1>16. Replaced(raw', raw, T, new)
  BY <1>1, <1>3, <1>4, ReplacePhFile
<1>17. /\ \A j \in 2..PhNum(raw) : j # T => Neutral(Data(raw, j), Data(raw', j))
       /\ Neutral(new, Data(raw', T))
  BY <1>1, <1>3, XblTreeWritten
<1> HIDE DEF T, H, J, new, items, own, sides, s, z1
<1>18. Kept(Data(J, T), new)
  <2>1. Bytes(Data(J, T))
    BY <1>3, <1>4, DataCells
  <2>2. /\ Cardinality(Trees(new)) = Cardinality(Trees(Data(J, T)))
        /\ \A k \in 1..Cardinality(Trees(Data(J, T))) :
             TreeKept(Data(J, T)[Nth(Trees(Data(J, T)), k)], new[Nth(Trees(new), k)], TRUE)
    BY <1>4, <1>5, <2>1, GrownPlaces
  <2> QED
    BY <1>5, <2>2 DEF Kept, TreeKept
<1>19. Version(J, z1)
  <2>1. T \in 3..PhNum(J)
    BY <1>3, <1>4
  <2> QED
    BY <1>3, <1>4, <1>8, <1>14, <1>15, <1>18, <2>1, VersionWith
<1>20. Bytes(<<<<s[T], new>>>>) /\ Leads(J, H, <<<<s[T], new>>>>, s, z1)
  <2>1. /\ T \in 2..PhNum(J) /\ T \in 1..PhNum(J)
    BY <1>3, <1>4
  <2>2. Bytes(s[T]) /\ Cellular(s[T])
    BY <1>15, <2>1 DEF Version
  <2>3. Fills(s[T]) <=> Fills(Data(J, T))
    BY <1>7, <1>13, <2>1
  <2> QED
    BY <1>3, <1>4, <1>5, <1>14, <2>1, <2>2, <2>3, OwnLeads
<1>21. own = DigestsReplaced(items, <<<<s[T], new>>>>, 1, Len(items))
  BY <1>3, <1>4, <1>11, <1>13
<1>22. /\ InTable(items, J, H) /\ Data(items, H) = Data(raw, H) /\ Data(items, T) = new
       /\ WellFormed(items) /\ PhNum(items) = PhNum(raw)
       /\ Ph(items, 2).off = Ph(raw, 2).off /\ Ph(items, 2).filesz = Ph(raw, 2).filesz
       /\ CellsOf(items, H) \subseteq 1..Len(items)
  <2>1. /\ InTable(items, J, H) /\ Data(items, H) = Data(raw, H) /\ Data(items, T) = new
        /\ WellFormed(items) /\ PhNum(items) = PhNum(raw)
        /\ Ph(items, 2).off = Ph(raw, 2).off /\ Ph(items, 2).filesz = Ph(raw, 2).filesz
    BY <1>10 DEF ItemsReady
  <2> QED
    BY <1>3, <2>1, WholeFile
<1>23. InTable(own, J, H) /\ Follows(J, H, Data(own, H), z1)
  <2>1. Follows(J, H, Data(items, H), s) /\ 1 \in Nat \ {0}
    BY <1>7, <1>22
  <2> DEFINE ps == <<<<s[T], new>>>>
  <2>2. Bytes(ps) /\ Leads(J, H, ps, s, z1) /\ own = DigestsReplaced(items, ps, 1, Len(items))
    BY <1>20, <1>21
  <2> HIDE DEF ps
  <2> QED
    BY <1>3, <1>15, <1>19, <1>22, <2>1, <2>2, TableReplaced
<1>24. /\ WellFormed(own) /\ PhNum(own) = PhNum(raw) /\ SlotPlaces(own) \subseteq CellsOf(own, H)
       /\ \A j \in 1..PhNum(raw) : Ph(own, j) = Ph(items, j)
       /\ CellsOf(own, H) \subseteq 1..Len(own) /\ Data(own, T) = new
  <2>1. WellFormed(own) /\ PhNum(own) = PhNum(raw) /\ SlotPlaces(own) \subseteq CellsOf(own, H)
    BY <1>3, <1>23 DEF InTable
  <2>2. \A j \in 1..PhNum(raw) : Ph(own, j) = Ph(items, j)
    BY <1>11, <1>22, DigestsFile
  <2>3. SlotPlaces(items) \subseteq CellsOf(items, H)
    BY <1>22 DEF InTable
  <2>4. Data(own, T) = new
    BY <1>3, <1>4, <1>5, <1>11, <1>22, <2>3, DigestsElsewhere
  <2> QED
    BY <1>3, <2>1, <2>2, <2>4, WholeFile
<1>25. \A j \in 1..PhNum(raw) : j # H => Data(raw', j) = Data(own, j)
  BY <1>3, <1>9, <1>24, DigestsElsewhere
<1>26. \A j \in 3..PhNum(J) : j # H => z2[j] = z1[j]
  <2>1. ASSUME NEW j \in 3..PhNum(J), j # H
        PROVE  z2[j] = z1[j]
    <3>1. j \in 1..PhNum(raw) /\ j \in 3..PhNum(raw)
      BY <1>3
    <3>2. z2[j] = Data(raw', j)
      <4>1. PhNum(raw') = PhNum(raw)
        BY <1>16 DEF Replaced, HeadersFollow
      <4> QED
        BY <3>1, <4>1 DEF Segments
    <3>3. CASE j = T
      BY <1>14, <1>24, <1>25, <2>1, <3>1, <3>2, <3>3
    <3>4. CASE j # T
      <4>1. \A q \in 1..Len(Data(raw, j)) : Data(raw, j)[q].kind # "slot"
        BY <1>3, <1>7, <2>1, <3>1, SlotlessData
      <4>2. Data(raw', j) = Data(raw, j)
        BY <1>3, <1>16, <3>1, <3>4, <4>1 DEF Replaced
      <4>3. z1[j] = Data(raw, j)
        BY <1>3, <1>13, <1>14, <3>1, <3>4
      <4> QED
        BY <3>2, <4>2, <4>3
    <3> QED
      BY <3>3, <3>4
  <2> QED
    BY <2>1
<1>27. z1[1] = Data(raw, 1) /\ z1[2] = Data(raw, 2) /\ z1[1] # <<>> /\ z1[2] # <<>>
  <2>1. 1 \in 1..PhNum(raw) /\ 1 # T /\ 2 # T
    BY <1>3, <1>4
  <2>2. z1[1] = Data(raw, 1) /\ z1[2] = Data(raw, 2)
    BY <1>3, <1>4, <1>13, <1>14, <2>1
  <2>3. Len(Data(raw, 1)) = PhNum(raw) + 1 /\ Len(Data(raw, 2)) = Ph(raw, 2).filesz
    BY <1>3, <1>4, <2>1, DataCells, WellFormedFacts
  <2>4. Len(Data(raw, 1)) # 0 /\ Len(Data(raw, 2)) # 0
    BY <1>3, <1>4, <2>3
  <2>5. Len(<<>>) = 0
    OBVIOUS
  <2> QED
    BY <2>2, <2>4, <2>5
<1>28. sides = <<<<z1[1], z2[1]>>, <<z1[2], z2[2]>>>>
  <2>1. 1 \in 1..PhNum(raw) /\ 1 # H /\ 2 # H
    BY <1>3, <1>4, <1>6
  <2>2. PhNum(raw') = PhNum(raw)
    BY <1>16 DEF Replaced, HeadersFollow
  <2>3. z2[1] = Data(own, 1) /\ z2[2] = Data(own, 2)
    BY <1>4, <1>25, <2>1, <2>2 DEF Segments
  <2>4. /\ Ph(raw, 1).off = 1 /\ Ph(raw, 1).filesz = PhNum(raw) + 1
        /\ Ph(own, 1).off = 1 /\ Ph(own, 1).filesz = PhNum(raw) + 1
    BY <1>3, <1>24, WellFormedFacts
  <2>5. Ph(own, 2).off = Ph(raw, 2).off /\ Ph(own, 2).filesz = Ph(raw, 2).filesz
    BY <1>4, <1>22, <1>24
  <2>6. /\ Data(own, 1) = Slice(own, Ph(raw, 1).off, Ph(raw, 1).filesz)
        /\ Data(own, 2) = Slice(own, Ph(raw, 2).off, Ph(raw, 2).filesz)
    BY <2>4, <2>5 DEF Data
  <2> HIDE DEF z2
  <2> QED
    BY <1>12, <1>27, <2>3, <2>6 DEF SidePair
<1>29. \A i \in 2..PhNum(J) : Fills(Data(raw', i)) <=> Fills(Data(J, i))
  <2>1. ASSUME NEW i \in 2..PhNum(J)
        PROVE  Fills(Data(raw', i)) <=> Fills(Data(J, i))
    <3>1. i \in 1..PhNum(raw) /\ i \in 2..PhNum(raw)
      BY <1>3
    <3>2. WellFormed(raw') /\ PhNum(raw') = PhNum(raw)
      BY <1>16 DEF Replaced, HeadersFollow
    <3>3. Bytes(Data(raw, i)) /\ Bytes(Data(raw', i))
      BY <1>3, <3>1, <3>2, DataCells
    <3>4. CASE i = T
      BY <1>4, <1>5, <1>17, <3>3, <3>4, NeutralFills
    <3>5. CASE i # T
      <4>1. Clean(Data(raw, i))
        BY <1>1, <1>3 DEF TInv, TreesKept, Grown, J
      <4>2. Fills(Data(raw', i)) <=> Fills(Data(raw, i))
        BY <1>17, <3>1, <3>3, <3>5, <4>1, NeutralFills
      <4> QED
        BY <1>7, <4>2
    <3> QED
      BY <3>4, <3>5
  <2> QED
    BY <2>1
<1>30. Version(J, z2)
  <2>1. FillsKept'
    BY <1>1, <1>29 DEF FillsKept, J
  <2>2. Digested'
    BY <1>1 DEF Digested
  <2>3. TInv' /\ Digested' /\ FillsKept' => Version(job.image, Segments(raw))'
    BY VersionHolds, PTL
  <2>4. Version(job.image, Segments(raw))'
    BY <2>1, <2>2, <2>3
  <2> QED
    BY <1>1, <2>4 DEF J
<1> HIDE DEF z2
<1>31. Bytes(SidePairs(sides)) /\ Leads(J, H, SidePairs(sides), z1, z2)
  BY <1>3, <1>4, <1>6, <1>26, <1>27, <1>28, SideLeads
<1>32. InTable(raw', J, H) /\ Follows(J, H, Data(raw', H), z2)
  <2> DEFINE ps == SidePairs(sides)
  <2>1. Bytes(ps) /\ Leads(J, H, ps, z1, z2) /\ raw' = DigestsReplaced(own, ps, 1, Len(own)) /\ 1 \in Nat \ {0}
    BY <1>9, <1>31
  <2> HIDE DEF ps
  <2> QED
    BY <1>3, <1>19, <1>23, <1>24, <1>30, <2>1, TableReplaced
<1>33. TableInPlace'
  BY <1>1, <1>2, <1>4, <1>29, <1>32 DEF TableInPlace, J, H
<1>34. TableFollows'
  BY <1>1, <1>2, <1>32 DEF TableFollows, J, H, z2
<1>35. MemoryInPlace' /\ PairsOfTrees'
  <2>1. "xbl_config" # "uefi_dtbs"
    OBVIOUS
  <2> QED
    BY <1>1, <1>2, <2>1 DEF MemoryInPlace, PairsOfTrees
<1> QED
  BY <1>33, <1>34, <1>35

-----------------------------------------------------------------------------
(* The theorem.                                                             *)

\* No step of the run disturbs the invariant.
LEMMA NextDInv == DInv /\ [Next]_vars => DInv'
<1> SUFFICES ASSUME DInv, [Next]_vars
             PROVE  DInv'
  OBVIOUS
<1>1. TInv'
  BY NextTInv DEF DInv
<1>2. CASE ReadSegment
  BY <1>1, <1>2, ReadSegmentDInv
<1>3. CASE SkipTree \/ TreeFails
  BY <1>1, <1>3, SkipDInv
<1>4. CASE PatchUefiTree
  BY <1>1, <1>4, PatchUefiTreeDInv
<1>5. CASE ReplaceXblTree
  BY <1>1, <1>5, ReplaceXblTreeDInv
<1>6. CASE WriteSegment
  BY <1>1, <1>6, WriteSegmentDInv
<1>7. CASE ReplaceDigests
  BY <1>1, <1>7, ReplaceDigestsDInv
<1>8. CASE \/ Undetected \/ OpenUefiDtbs \/ OpenXblConfig \/ LastSegment \/ LeaveSegment
           \/ WriteUefi \/ Verdict \/ Publish \/ Dies
  <2>1. UNCHANGED <<raw, job>> /\ pc' \notin {"tree", "digests"} /\ pc # "done"
    BY <1>8 DEF Undetected, OpenUefiDtbs, OpenXblConfig, LastSegment, LeaveSegment, WriteUefi, Verdict,
                Publish, Dies, End
  <2>2. pc = "digests" => pc' = "done" /\ status' = "failed"
    BY <1>8 DEF Undetected, OpenUefiDtbs, OpenXblConfig, LastSegment, LeaveSegment, WriteUefi, Verdict,
                Publish, Dies, End
  <2> QED
    BY <1>1, <2>1, <2>2, DigestsStay
<1>9. CASE UNCHANGED vars
  <2>1. UNCHANGED <<pc, job, elfType, raw, left, work, trees, delta, pairs, status>>
    BY <1>9 DEF vars, segment
  <2>2. UNCHANGED <<Target, HashTable, Waiting, Digested>>
    BY <2>1 DEF Target, HashTable, Waiting, Digested
  <2>3. Digested => TableInPlace' /\ MemoryInPlace' /\ PairsOfTrees' /\ TableFollows'
    BY <2>1, <2>2 DEF DInv, TableInPlace, MemoryInPlace, PairsOfTrees, TableFollows
  <2> QED
    BY <1>1, <2>2, <2>3 DEF DInv
<1> QED
  BY <1>2, <1>3, <1>4, <1>5, <1>6, <1>7, <1>8, <1>9 DEF Next, Work

\* In the output of a run of patch-capsule-cert that succeeded, every slot that held the
\* digest of a segment, of the headers or of a tree holds the digest of what that has
\* become, through the patches, the growth of segments, the repair of headers and
\* metadata and every search of replace_hashes and _replace_ph: for images of the builds
\* (Tabled), of any size, with any number of trees and of slots.
THEOREM DigestsStayTrue == Spec => [](Tabled(job.image) => DigestsFollow)
<1> DEFINE Ordered == SectionsAhead(job.image) /\ WholeTrees(job.image) => TreesInOrder
<1>1. DInv /\ Reported /\ Ordered => (Tabled(job.image) => DigestsFollow)
  <2> SUFFICES ASSUME DInv, Reported, Ordered, Tabled(job.image), status = "ok",
                      Distinct(SlotsOf(job.image)), SectionsAhead(job.image),
                      NEW k \in DOMAIN SlotsOf(raw), NEW o \in HashedOf(job.image),
                      SlotsOf(job.image)[k].of = Hashed(job.image, o)
               PROVE  SlotsOf(raw)[k].of = Hashed(raw, o)
    BY DEF DigestsFollow
  <2>1. Digested /\ TInv /\ IInv
    BY DEF Digested, DInv, TInv
  <2>2. TableInPlace /\ TableFollows /\ pc = "done"
    BY <2>1 DEF DInv, Reported
  <2>3. /\ InTable(raw, job.image, HashTable)
        /\ Follows(job.image, HashTable, Data(raw, HashTable), Segments(raw))
    BY <2>2 DEF TableInPlace, TableFollows
  <2>4. WellFormed(job.image) /\ HasTable(job.image, HashTable) /\ WholeTrees(job.image)
    BY <2>1, TableFacts
  <2>5. TreesOf(raw) = TreesOf(job.image)
    BY <2>4 DEF TreesInOrder
  <2> QED
    BY <2>3, <2>4, <2>5, TableRight
<1>2. Init => DInv /\ RInv
  BY InitDInv, InitRInv
<1>3. DInv /\ [Next]_vars => DInv'
  BY NextDInv
<1>4. RInv /\ [Next]_vars => RInv'
  BY NextRInv
<1>5. RInv => Reported
  BY DEF RInv
<1>6. Spec => []Ordered
  BY TreesStayInOrder
<1> HIDE DEF Ordered
<1> QED
  BY <1>1, <1>2, <1>3, <1>4, <1>5, <1>6, PTL DEF Spec
=============================================================================
