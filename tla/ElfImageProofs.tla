--------------------------- MODULE ElfImageProofs ---------------------------
(***************************************************************************)
(* Lemmas about the operators of ElfImage, for every file: what a splice,  *)
(* a resize, a repair of the headers and a replacement of digests keep.    *)
(***************************************************************************)
EXTENDS ElfImage, PlacesProofs, SequenceTheorems

-----------------------------------------------------------------------------
(* Numbers and sequences.                                                   *)

\* A set of natural numbers has a least one.
LEMMA LeastProperties ==
  ASSUME NEW S, S \subseteq Nat, S # {}
  PROVE  Least(S) \in S /\ \A n \in S : Least(S) <= n
BY LeastNatural DEF Least

\* Bytes is being a function on 1..n.
LEMMA BytesIntro ==
  ASSUME NEW f, NEW n \in Nat, f = [p \in 1..n |-> f[p]]
  PROVE  Bytes(f) /\ Len(f) = n /\ DOMAIN f = 1..n
<1> DEFINE S == {f[p] : p \in DOMAIN f}
<1>1. DOMAIN f = 1..n
  OBVIOUS
<1>2. f \in [1..n -> S]
  BY <1>1
<1>3. f \in Seq(S)
  BY <1>2
<1>4. Len(f) = n
  BY <1>1, <1>3, LenProperties
<1> QED
  BY <1>1, <1>3, <1>4 DEF Bytes

LEMMA BytesElim ==
  ASSUME NEW f, Bytes(f)
  PROVE  /\ Len(f) \in Nat /\ DOMAIN f = 1..Len(f) /\ f = [p \in 1..Len(f) |-> f[p]]
         /\ \E S : f \in Seq(S)
BY LenProperties DEF Bytes

LEMMA BytesOfSeq ==
  ASSUME NEW S, NEW f \in Seq(S)
  PROVE  Bytes(f)
<1>1. Len(f) \in Nat /\ f = [p \in 1..Len(f) |-> f[p]]
  BY LenProperties
<1> QED
  BY <1>1, BytesIntro

\* Two byte sequences with the same length and the same cells are equal.
LEMMA BytesEqual ==
  ASSUME NEW f, NEW g, Bytes(f), Bytes(g), Len(f) = Len(g), \A p \in 1..Len(f) : f[p] = g[p]
  PROVE  f = g
BY BytesElim

\* Replacing one cell.
LEMMA ExceptBytes ==
  ASSUME NEW f, Bytes(f), NEW k, NEW v
  PROVE  Bytes([f EXCEPT ![k] = v]) /\ Len([f EXCEPT ![k] = v]) = Len(f)
<1> DEFINE g == [f EXCEPT ![k] = v]
<1>1. Len(f) \in Nat /\ DOMAIN f = 1..Len(f)
  BY BytesElim
<1>2. g = [p \in 1..Len(f) |-> g[p]]
  BY <1>1
<1> HIDE DEF g
<1>3. Bytes(g) /\ Len(g) = Len(f)
  BY <1>1, <1>2, BytesIntro
<1> QED
  BY <1>3 DEF g

\* Some cells of a file, in a row.
LEMMA SubSeqBytes ==
  ASSUME NEW f, Bytes(f), NEW m \in Nat \ {0}, NEW n \in Nat, m <= n + 1, n <= Len(f)
  PROVE  /\ Bytes(SubSeq(f, m, n)) /\ Len(SubSeq(f, m, n)) = n - m + 1
         /\ \A p \in 1..(n - m + 1) : SubSeq(f, m, n)[p] = f[m + p - 1]
<1>1. PICK S : f \in Seq(S)
  BY BytesElim
<1>2. /\ SubSeq(f, m, n) \in Seq(S) /\ Len(SubSeq(f, m, n)) = n - m + 1
      /\ \A p \in 1..(n - m + 1) : SubSeq(f, m, n)[p] = f[m + p - 1]
  BY <1>1, SMT
<1> QED
  BY <1>2, BytesOfSeq

LEMMA SliceBytes ==
  ASSUME NEW f, Bytes(f), NEW at, at \in Nat \ {0}, NEW n, n \in Nat, at + n - 1 <= Len(f)
  PROVE  /\ Bytes(Slice(f, at, n)) /\ Len(Slice(f, at, n)) = n /\ DOMAIN Slice(f, at, n) = 1..n
         /\ \A p \in 1..n : Slice(f, at, n)[p] = f[at + p - 1]
<1>1. Len(f) \in Nat
  BY BytesElim
<1>2. at + n - 1 \in Nat /\ at <= at + n - 1 + 1 /\ at + n - 1 - at + 1 = n
  OBVIOUS
<1>3. /\ Bytes(Slice(f, at, n)) /\ Len(Slice(f, at, n)) = n
      /\ \A p \in 1..n : Slice(f, at, n)[p] = f[at + p - 1]
  BY <1>1, <1>2, SubSeqBytes DEF Slice
<1> QED
  BY <1>3, BytesElim

\* One file behind another.
LEMMA ConcatBytes ==
  ASSUME NEW f, NEW g, Bytes(f), Bytes(g)
  PROVE  /\ Bytes(f \o g) /\ Len(f \o g) = Len(f) + Len(g)
         /\ \A p \in 1..(Len(f) + Len(g)) :
              (f \o g)[p] = IF p <= Len(f) THEN f[p] ELSE g[p - Len(f)]
<1> DEFINE S == {f[p] : p \in DOMAIN f}
           T == {g[p] : p \in DOMAIN g}
<1>1. f \in Seq(S) /\ g \in Seq(T)
  BY DEF Bytes
<1> HIDE DEF S, T
<1>2. f \in Seq(S \cup T) /\ g \in Seq(S \cup T)
  BY <1>1, SMT
<1> QED
  BY <1>2, ConcatProperties, BytesOfSeq

\* The cells ahead of a splice and behind it are those of the file.
IsSplice(g, f, at, n, new) ==
  /\ Bytes(g) /\ Len(g) = Len(f) - n + Len(new)
  /\ \A p \in 1..(at - 1) : g[p] = f[p]
  /\ \A p \in 1..Len(new) : g[at + p - 1] = new[p]
  /\ \A p \in (at + n)..Len(f) : g[p - n + Len(new)] = f[p]

LEMMA SpliceBytes ==
  ASSUME NEW f, NEW new, Bytes(f), Bytes(new), NEW at, at \in Nat \ {0}, NEW n, n \in Nat,
         at + n - 1 <= Len(f)
  PROVE  IsSplice(Splice(f, at, n, new), f, at, n, new)
<1> DEFINE pre  == SubSeq(f, 1, at - 1)
           post == SubSeq(f, at + n, Len(f))
           mid  == pre \o new
<1>0. Len(f) \in Nat /\ Len(new) \in Nat
  BY BytesElim
<1>1. Bytes(pre) /\ Len(pre) = at - 1 /\ \A p \in 1..(at - 1) : pre[p] = f[p]
  <2>1. at - 1 \in Nat /\ 1 <= at - 1 + 1 /\ at - 1 <= Len(f)
    BY <1>0
  <2> QED
    BY <1>0, <2>1, SubSeqBytes
<1>2. /\ Bytes(post) /\ Len(post) = Len(f) - (at + n) + 1
      /\ \A p \in 1..(Len(f) - (at + n) + 1) : post[p] = f[at + n + p - 1]
  <2> DEFINE m == at + n
  <2>1. m \in Nat \ {0} /\ m <= Len(f) + 1
    BY <1>0
  <2> HIDE DEF m
  <2>2. /\ Bytes(SubSeq(f, m, Len(f))) /\ Len(SubSeq(f, m, Len(f))) = Len(f) - m + 1
        /\ \A p \in 1..(Len(f) - m + 1) : SubSeq(f, m, Len(f))[p] = f[m + p - 1]
    <3>1. Len(f) <= Len(f)
      BY <1>0
    <3> QED
      BY <1>0, <2>1, <3>1, SubSeqBytes
  <2> QED
    BY <2>2 DEF m
<1> HIDE DEF pre, post
<1>3. /\ Bytes(mid) /\ Len(mid) = at - 1 + Len(new)
      /\ \A p \in 1..(at - 1 + Len(new)) : mid[p] = IF p < at THEN f[p] ELSE new[p - at + 1]
  BY <1>0, <1>1, ConcatBytes
<1> HIDE DEF mid
<1> DEFINE g == mid \o post
<1>4. Splice(f, at, n, new) = g
  BY DEF Splice, mid, pre, post
<1>5. /\ Bytes(g) /\ Len(g) = Len(mid) + Len(post)
      /\ \A p \in 1..(Len(mid) + Len(post)) :
           g[p] = IF p <= Len(mid) THEN mid[p] ELSE post[p - Len(mid)]
  BY <1>2, <1>3, ConcatBytes
<1> HIDE DEF g
<1>6. Len(mid) + Len(post) = Len(f) - n + Len(new)
  BY <1>0, <1>2, <1>3
<1>7. ASSUME NEW p \in 1..(at - 1)
      PROVE  g[p] = f[p]
  <2>1. /\ p \in 1..(Len(mid) + Len(post)) /\ p \in 1..(at - 1 + Len(new))
        /\ p <= Len(mid) /\ p < at
    BY <1>0, <1>2, <1>3
  <2> QED
    BY <1>3, <1>5, <2>1
<1>8. ASSUME NEW p \in 1..Len(new)
      PROVE  g[at + p - 1] = new[p]
  <2> DEFINE k == at + p - 1
  <2>1. /\ k <= Len(mid) /\ k \in 1..(Len(mid) + Len(post)) /\ k \in 1..(at - 1 + Len(new))
        /\ ~ (k < at) /\ k - at + 1 = p
    BY <1>0, <1>2, <1>3
  <2> HIDE DEF k
  <2> QED
    BY <1>3, <1>5, <2>1 DEF k
<1>9. ASSUME NEW p \in (at + n)..Len(f)
      PROVE  g[p - n + Len(new)] = f[p]
  <2> DEFINE k == p - n + Len(new)
             m == k - Len(mid)
  <2>1. /\ k \in 1..(Len(mid) + Len(post)) /\ ~ (k <= Len(mid))
        /\ m \in 1..(Len(f) - (at + n) + 1) /\ at + n + m - 1 = p
    BY <1>0, <1>2, <1>3
  <2>2. g[k] = post[m]
    <3> HIDE DEF k
    <3> QED
      BY <1>5, <2>1
  <2>3. post[m] = f[p]
    <3> HIDE DEF m
    <3> QED
      BY <1>2, <2>1
  <2> QED
    BY <2>2, <2>3
<1> QED
  BY <1>4, <1>5, <1>6, <1>7, <1>8, <1>9 DEF IsSplice

LEMMA ZeroPaddedBytes ==
  ASSUME NEW f, Bytes(f), NEW n \in Int
  PROVE  /\ Bytes(ZeroPadded(f, n))
         /\ Len(ZeroPadded(f, n)) = Len(f) + (IF n > 0 THEN n ELSE 0)
         /\ \A p \in 1..Len(ZeroPadded(f, n)) :
              ZeroPadded(f, n)[p] = IF p <= Len(f) THEN f[p] ELSE Cell("zero")
<1> DEFINE zeros == [p \in 1..n |-> Cell("zero")]
           m == IF n > 0 THEN n ELSE 0
<1>0. Len(f) \in Nat /\ m \in Nat /\ 1..n = 1..m
  BY BytesElim
<1>1. zeros = [p \in 1..m |-> zeros[p]]
  BY <1>0
<1>2. Bytes(zeros) /\ Len(zeros) = m
  <2> HIDE DEF zeros
  <2> QED
    BY <1>0, <1>1, BytesIntro
<1>3. \A p \in 1..m : zeros[p] = Cell("zero")
  BY <1>0
<1> HIDE DEF zeros
<1>4. ZeroPadded(f, n) = f \o zeros
  BY DEF ZeroPadded, zeros
<1>5. /\ Bytes(f \o zeros) /\ Len(f \o zeros) = Len(f) + m
      /\ \A p \in 1..(Len(f) + m) :
           (f \o zeros)[p] = IF p <= Len(f) THEN f[p] ELSE zeros[p - Len(f)]
  BY <1>2, ConcatBytes
<1> QED
  BY <1>0, <1>3, <1>4, <1>5

-----------------------------------------------------------------------------
(* Well-formed files.                                                       *)

LEMMA WellFormedFacts ==
  ASSUME NEW f, WellFormed(f)
  PROVE  /\ Bytes(f) /\ Len(f) \in Nat /\ DOMAIN f = 1..Len(f)
         /\ \A p \in 1..Len(f) : IsCell(f[p])
         /\ PhNum(f) \in Nat \ {0} /\ PhNum(f) + 1 <= Len(f)
         /\ f[1] = Header(PhNum(f), f[1].shoff, f[1].shnum)
         /\ f[1].shoff \in Nat /\ f[1].shnum \in Nat
         /\ f[1].shnum > 0 => f[1].shoff > PhNum(f) + 1
         /\ \A i \in 1..PhNum(f) :
              /\ Ph(f, i) = Phdr(Ph(f, i).off, Ph(f, i).filesz, Ph(f, i).memsz, Ph(f, i).null)
              /\ Ph(f, i).off \in Nat \ {0} /\ Ph(f, i).filesz \in Nat
              /\ Ph(f, i).off + Ph(f, i).filesz - 1 <= Len(f)
         /\ Ph(f, 1).off = 1 /\ Ph(f, 1).filesz = PhNum(f) + 1
         /\ \A i, j \in 1..PhNum(f) : i < j => Ph(f, i).off + Ph(f, i).filesz <= Ph(f, j).off
         /\ \A i \in 2..PhNum(f) : Ph(f, i).off >= PhNum(f) + 2
<1>1. Bytes(f) /\ Len(f) \in Nat /\ DOMAIN f = 1..Len(f)
  BY BytesElim DEF WellFormed
<1>2. PhNum(f) \in Nat \ {0} /\ Ph(f, 1).off = 1 /\ Ph(f, 1).filesz = PhNum(f) + 1
  BY DEF WellFormed
<1>3. \A i, j \in 1..PhNum(f) : i < j => Ph(f, i).off + Ph(f, i).filesz <= Ph(f, j).off
  BY DEF WellFormed
<1>4. \A i \in 1..PhNum(f) :
              /\ Ph(f, i) = Phdr(Ph(f, i).off, Ph(f, i).filesz, Ph(f, i).memsz, Ph(f, i).null)
              /\ Ph(f, i).off \in Nat \ {0} /\ Ph(f, i).filesz \in Nat
              /\ Ph(f, i).off + Ph(f, i).filesz - 1 <= Len(f)
  BY DEF WellFormed
<1>5. PhNum(f) + 1 <= Len(f)
  BY <1>2, <1>4
<1>6. \A i \in 2..PhNum(f) : Ph(f, i).off >= PhNum(f) + 2
  BY <1>2, <1>3, <1>4
<1>7. \A p \in 1..Len(f) : IsCell(f[p])
  BY <1>1 DEF WellFormed, Cellular
<1>8. /\ f[1] = Header(PhNum(f), f[1].shoff, f[1].shnum)
      /\ f[1].shoff \in Nat /\ f[1].shnum \in Nat
      /\ f[1].shnum > 0 => f[1].shoff > PhNum(f) + 1
  BY DEF WellFormed
<1> QED
  BY <1>1, <1>2, <1>3, <1>4, <1>5, <1>6, <1>7, <1>8

\* The cells of a segment.
LEMMA DataCells ==
  ASSUME NEW f, WellFormed(f), NEW i \in 1..PhNum(f)
  PROVE  /\ Bytes(Data(f, i)) /\ Len(Data(f, i)) = Ph(f, i).filesz
         /\ DOMAIN Data(f, i) = 1..Ph(f, i).filesz
         /\ \A q \in 1..Ph(f, i).filesz : Data(f, i)[q] = f[Ph(f, i).off + q - 1]
<1>1. /\ Bytes(f) /\ Ph(f, i).off \in Nat \ {0} /\ Ph(f, i).filesz \in Nat
      /\ Ph(f, i).off + Ph(f, i).filesz - 1 <= Len(f)
  BY WellFormedFacts
<1> QED
  BY <1>1, SliceBytes DEF Data

\* Segments that have the same size and the same cells are equal.
LEMMA DataEqual ==
  ASSUME NEW f, NEW g, WellFormed(f), WellFormed(g), PhNum(f) = PhNum(g), NEW i \in 1..PhNum(f),
         Ph(g, i).filesz = Ph(f, i).filesz,
         \A q \in 1..Ph(f, i).filesz : g[Ph(g, i).off + q - 1] = f[Ph(f, i).off + q - 1]
  PROVE  Data(g, i) = Data(f, i)
<1>1. /\ Bytes(Data(f, i)) /\ Len(Data(f, i)) = Ph(f, i).filesz
      /\ \A q \in 1..Ph(f, i).filesz : Data(f, i)[q] = f[Ph(f, i).off + q - 1]
  BY DataCells
<1>2. /\ Bytes(Data(g, i)) /\ Len(Data(g, i)) = Ph(g, i).filesz
      /\ \A q \in 1..Ph(g, i).filesz : Data(g, i)[q] = g[Ph(g, i).off + q - 1]
  BY DataCells
<1> QED
  BY <1>1, <1>2, BytesEqual

\* HeadersFollow is a preorder.
LEMMA FollowsItself ==
  ASSUME NEW f, WellFormed(f)
  PROVE  HeadersFollow(f, f)
BY DEF HeadersFollow

LEMMA FollowsTransitive ==
  ASSUME NEW f, NEW g, NEW h, HeadersFollow(g, f), HeadersFollow(h, g), WellFormed(f)
  PROVE  HeadersFollow(h, f)
<1>1. WellFormed(h) /\ PhNum(h) = PhNum(f) /\ h[1].shnum = f[1].shnum
  BY DEF HeadersFollow
<1>2. ASSUME SectionsAhead(f)
      PROVE  /\ SectionsAhead(h)
             /\ f[1].shnum > 0 => h[1].shoff = f[1].shoff
             /\ \A p \in ShCells(f), i \in 2..PhNum(f) :
                  f[p] = Shdr(Ph(f, i).off) => h[p] = Shdr(Ph(h, i).off)
  <2>1. SectionsAhead(g) /\ SectionsAhead(h)
    BY <1>2 DEF HeadersFollow
  <2>2. f[1].shnum > 0 => g[1].shoff = f[1].shoff /\ h[1].shoff = f[1].shoff
    BY <1>2, <2>1 DEF HeadersFollow
  <2>3. ASSUME NEW p \in ShCells(f), NEW i \in 2..PhNum(f), f[p] = Shdr(Ph(f, i).off)
        PROVE  h[p] = Shdr(Ph(h, i).off)
    <3>1. f[1].shnum > 0
      BY <2>3, WellFormedFacts DEF ShCells
    <3>2. p \in ShCells(g) /\ i \in 2..PhNum(g)
      BY <2>2, <2>3, <3>1 DEF ShCells, HeadersFollow
    <3>3. g[p] = Shdr(Ph(g, i).off)
      BY <1>2, <2>3 DEF HeadersFollow
    <3> QED
      BY <2>1, <3>2, <3>3 DEF HeadersFollow
  <2> QED
    BY <2>1, <2>2, <2>3
<1> QED
  BY <1>1, <1>2 DEF HeadersFollow

-----------------------------------------------------------------------------
(* A segment that is replaced.                                              *)

\* What Resegmented finds and leaves: g is f with the segment at "at" longer by
\* "grow", and h has repaired headers.
Spliced(g, f, i, grow) ==
  /\ Bytes(g) /\ Len(g) >= Len(f) + grow
  /\ \A p \in 1..Len(g) : IsCell(g[p])
  /\ \A p \in 1..(Ph(f, i).off - 1) : g[p] = f[p]
  /\ \A p \in (Ph(f, i).off + Ph(f, i).filesz)..Len(f) : g[p + grow] = f[p]

Regrown(h, f, i, grow) ==
  LET at == Ph(f, i).off IN
  /\ Bytes(h) /\ Len(h) >= Len(f) + grow
  /\ \A p \in 1..Len(h) : IsCell(h[p])
  /\ h[1] = Header(PhNum(f), Moved(f[1].shoff, at, grow), f[1].shnum)
  /\ \A j \in 1..PhNum(f) :
       Ph(h, j) = Phdr(Moved(Ph(f, j).off, at, grow), Ph(f, j).filesz, Ph(f, j).memsz, Ph(f, j).null)
  /\ SectionsAhead(f) =>
       /\ \A p \in ShCells(f), o \in Nat : f[p] = Shdr(o) => h[p] = Shdr(Moved(o, at, grow))
       /\ \A j \in 2..PhNum(f), q \in Nat \ {0} :
            j # i /\ q <= Ph(f, j).filesz =>
              h[Moved(Ph(f, j).off, at, grow) + q - 1] = f[Ph(f, j).off + q - 1]

LEMMA SplicedFile ==
  ASSUME NEW f, WellFormed(f), NEW i \in 2..PhNum(f), NEW new, Bytes(new), Cellular(new),
         NEW pad \in Int
  PROVE  Spliced(ZeroPadded(Splice(f, Ph(f, i).off, Ph(f, i).filesz, new), pad), f, i,
                 Len(new) - Ph(f, i).filesz)
<1> DEFINE at == Ph(f, i).off
           n  == Ph(f, i).filesz
           s  == Splice(f, at, n, new)
           g  == ZeroPadded(s, pad)
<1>1. at \in Nat \ {0} /\ n \in Nat /\ at + n - 1 <= Len(f) /\ Len(f) \in Nat /\ Bytes(f)
  BY WellFormedFacts
<1>2. Len(new) \in Nat /\ \A p \in 1..Len(new) : IsCell(new[p])
  BY BytesElim DEF Cellular
<1>3. \A p \in 1..Len(f) : IsCell(f[p])
  BY WellFormedFacts
<1> HIDE DEF at, n
<1>4. /\ Bytes(s) /\ Len(s) = Len(f) - n + Len(new)
      /\ \A p \in 1..(at - 1) : s[p] = f[p]
      /\ \A p \in 1..Len(new) : s[at + p - 1] = new[p]
      /\ \A p \in (at + n)..Len(f) : s[p - n + Len(new)] = f[p]
  <2>1. IsSplice(s, f, at, n, new)
    BY <1>1, SpliceBytes
  <2> HIDE DEF s
  <2> QED
    BY <2>1 DEF IsSplice
<1> HIDE DEF s
<1>5. ASSUME NEW p \in 1..Len(s)
      PROVE  IsCell(s[p])
  <2>1. CASE p < at
    BY <1>1, <1>3, <1>4, <2>1
  <2>2. CASE p >= at /\ p < at + Len(new)
    <3> DEFINE k == p - at + 1
    <3>1. k \in 1..Len(new) /\ p = at + k - 1
      BY <1>1, <1>2, <1>4, <2>2
    <3> HIDE DEF k
    <3> QED
      BY <1>2, <1>4, <3>1
  <2>3. CASE p >= at + Len(new)
    <3> DEFINE k == p - Len(new) + n
    <3>1. k \in (at + n)..Len(f) /\ k \in 1..Len(f) /\ p = k - n + Len(new)
      BY <1>1, <1>2, <1>4, <2>3
    <3> HIDE DEF k
    <3> QED
      BY <1>3, <1>4, <3>1
  <2> QED
    BY <1>1, <1>2, <1>4, <2>1, <2>2, <2>3
<1>6. /\ Bytes(g) /\ Len(g) = Len(s) + (IF pad > 0 THEN pad ELSE 0)
      /\ \A p \in 1..Len(g) : g[p] = IF p <= Len(s) THEN s[p] ELSE Cell("zero")
  BY <1>4, ZeroPaddedBytes
<1> HIDE DEF g
<1>7. IsCell(Cell("zero"))
  BY DEF IsCell, Cell
<1>8. \A p \in 1..Len(g) : IsCell(g[p])
  BY <1>1, <1>2, <1>4, <1>5, <1>6, <1>7
<1>9. ASSUME NEW p \in 1..(at - 1)
      PROVE  g[p] = f[p]
  <2>1. p \in 1..Len(g) /\ p <= Len(s)
    BY <1>1, <1>2, <1>4, <1>6
  <2> QED
    BY <1>4, <1>6, <2>1
<1>10. ASSUME NEW p \in (at + n)..Len(f)
       PROVE  g[p + (Len(new) - n)] = f[p]
  <2>1. /\ p - n + Len(new) \in 1..Len(g) /\ p - n + Len(new) <= Len(s)
        /\ p + (Len(new) - n) = p - n + Len(new)
    BY <1>1, <1>2, <1>4, <1>6
  <2> QED
    BY <1>4, <1>6, <2>1
<1>11. Len(g) >= Len(f) + (Len(new) - n)
  BY <1>1, <1>2, <1>4, <1>6
<1> QED
  BY <1>6, <1>8, <1>9, <1>10, <1>11 DEF Spliced, g, s, at, n

\* The section headers of a file whose section table is ahead of its segments.
LEMMA SectionCells ==
  ASSUME NEW f, WellFormed(f), SectionsAhead(f), NEW p \in ShCells(f)
  PROVE  /\ p \in Nat /\ p > PhNum(f) + 1 /\ p # 1 /\ p \notin PhCells(f)
         /\ f[1].shnum > 0
         /\ \A j \in 2..PhNum(f) : p < Ph(f, j).off
<1>1. f[1].shoff \in Nat /\ f[1].shnum \in Nat /\ (f[1].shnum > 0 => f[1].shoff > PhNum(f) + 1)
      /\ PhNum(f) \in Nat
  BY WellFormedFacts
<1>2. p \in f[1].shoff..(f[1].shoff + f[1].shnum - 1)
  BY DEF ShCells
<1>3. p \in Nat /\ p > PhNum(f) + 1 /\ f[1].shnum > 0
  BY <1>1, <1>2
<1>4. p # 1 /\ p \notin PhCells(f)
  BY <1>1, <1>3 DEF PhCells
<1> QED
  BY <1>3, <1>4 DEF SectionsAhead

\* A cell of another segment is ahead of the one that grows, where nothing
\* moves, or behind it, where everything moves.
LEMMA OtherSegment ==
  ASSUME NEW f, WellFormed(f), NEW i \in 2..PhNum(f), Ph(f, i).filesz > 0,
         NEW j \in 2..PhNum(f), j # i, NEW q \in Nat \ {0}, q <= Ph(f, j).filesz, NEW grow \in Nat
  PROVE  LET p == Ph(f, j).off + q - 1
         IN /\ p > PhNum(f) + 1 /\ p \in 1..Len(f)
            /\ \/ p \in 1..(Ph(f, i).off - 1) /\ Moved(Ph(f, j).off, Ph(f, i).off, grow) = Ph(f, j).off
               \/ /\ p \in (Ph(f, i).off + Ph(f, i).filesz)..Len(f)
                  /\ Moved(Ph(f, j).off, Ph(f, i).off, grow) = Ph(f, j).off + grow
<1> DEFINE a == Ph(f, i).off
           n == Ph(f, i).filesz
           b == Ph(f, j).off
           m == Ph(f, j).filesz
           p == b + q - 1
<1>1. /\ a \in Nat \ {0} /\ n \in Nat /\ n > 0
      /\ b \in Nat \ {0} /\ m \in Nat /\ b >= PhNum(f) + 2 /\ b + m - 1 <= Len(f)
      /\ q <= m
      /\ Len(f) \in Nat /\ PhNum(f) \in Nat
  BY WellFormedFacts
<1>2. (j < i => b + m <= a) /\ (i < j => a + n <= b)
  BY WellFormedFacts
<1> HIDE DEF a, n, b, m
<1>3. p > PhNum(f) + 1 /\ p \in 1..Len(f)
  BY <1>1
<1>4. CASE j < i
  <2>1. p \in 1..(a - 1)
    BY <1>1, <1>2, <1>4
  <2>2. Moved(b, a, grow) = b
    BY <1>1, <1>2, <1>4 DEF Moved
  <2> QED
    BY <1>3, <2>1, <2>2 DEF a, b
<1>5. CASE i < j
  <2>1. p \in (a + n)..Len(f)
    BY <1>1, <1>2, <1>5
  <2>2. Moved(b, a, grow) = b + grow
    BY <1>1, <1>2, <1>5 DEF Moved
  <2> QED
    BY <1>3, <2>1, <2>2 DEF a, b, n
<1> QED
  BY <1>4, <1>5

\* A splice of the same length needs no repair.
LEMMA RegrownSame ==
  ASSUME NEW f, WellFormed(f), NEW i \in 2..PhNum(f), Ph(f, i).filesz > 0,
         NEW g, Spliced(g, f, i, 0)
  PROVE  Regrown(g, f, i, 0)
<1> DEFINE at == Ph(f, i).off
<1>1. at \in Nat \ {0} /\ at >= PhNum(f) + 2 /\ PhNum(f) \in Nat \ {0} /\ Len(f) \in Nat
  BY WellFormedFacts
<1>2. \A p \in 1..(at - 1) : g[p] = f[p]
  BY DEF Spliced
<1>3. \A o \in Nat : Moved(o, at, 0) = o
  BY DEF Moved
<1>4. g[1] = Header(PhNum(f), Moved(f[1].shoff, at, 0), f[1].shnum)
  BY <1>1, <1>2, <1>3, WellFormedFacts
<1>5. ASSUME NEW j \in 1..PhNum(f)
      PROVE  Ph(g, j) = Phdr(Moved(Ph(f, j).off, at, 0), Ph(f, j).filesz, Ph(f, j).memsz, Ph(f, j).null)
  <2>1. j + 1 \in 1..(at - 1)
    BY <1>1
  <2>2. Ph(g, j) = Ph(f, j)
    BY <1>2, <2>1 DEF Ph
  <2> QED
    BY <1>3, <2>2, WellFormedFacts
<1>6. ASSUME SectionsAhead(f), NEW p \in ShCells(f), NEW o \in Nat, f[p] = Shdr(o)
      PROVE  g[p] = Shdr(Moved(o, at, 0))
  <2>1. p \in 1..(at - 1)
    BY <1>1, <1>6, SectionCells
  <2> QED
    BY <1>2, <1>3, <1>6, <2>1
<1>7. ASSUME NEW j \in 2..PhNum(f), NEW q \in Nat \ {0}, j # i, q <= Ph(f, j).filesz
      PROVE  g[Moved(Ph(f, j).off, at, 0) + q - 1] = f[Ph(f, j).off + q - 1]
  <2> DEFINE p == Ph(f, j).off + q - 1
  <2>1. p \in 1..(at - 1) \/ p \in (at + Ph(f, i).filesz)..Len(f)
    BY <1>7, OtherSegment
  <2>2. Moved(Ph(f, j).off, at, 0) = Ph(f, j).off /\ p + 0 = p
    BY <1>3, <1>7, WellFormedFacts
  <2>3. \A k \in (at + Ph(f, i).filesz)..Len(f) : g[k + 0] = f[k]
    BY DEF Spliced
  <2>4. g[p] = f[p]
    <3> HIDE DEF p
    <3> QED
      BY <1>2, <2>1, <2>2, <2>3
  <2> QED
    BY <2>2, <2>4
<1> QED
  BY <1>4, <1>5, <1>6, <1>7 DEF Regrown, Spliced

\* The repair of the headers moves what they say by "grow", where it is behind
\* the segment that grew.
LEMMA HeadersGrownCells ==
  ASSUME NEW f, WellFormed(f), NEW i \in 2..PhNum(f), Ph(f, i).filesz > 0,
         NEW grow \in Nat, NEW g, Spliced(g, f, i, grow)
  PROVE  LET h == HeadersGrown(g, f, Ph(f, i).off, grow)
         IN /\ Bytes(h) /\ Len(h) = Len(g) /\ DOMAIN h = 1..Len(g)
            /\ h[1] = Header(PhNum(f), Moved(f[1].shoff, Ph(f, i).off, grow), f[1].shnum)
            /\ \A j \in 1..PhNum(f) :
                 Ph(h, j) = Phdr(Moved(Ph(f, j).off, Ph(f, i).off, grow),
                                 Ph(f, j).filesz, Ph(f, j).memsz, Ph(f, j).null)
            /\ \A p \in 1..Len(g) : p > PhNum(f) + 1 =>
                 h[p] = IF p \in ShCells(f) /\ f[p].off > Ph(f, i).off
                        THEN WithOffset(g[p], Moved(f[p].off, Ph(f, i).off, grow))
                        ELSE g[p]
<1> DEFINE at == Ph(f, i).off
           h  == HeadersGrown(g, f, at, grow)
           L  == Len(g)
<1>1. at \in Nat \ {0} /\ at >= PhNum(f) + 2 /\ PhNum(f) \in Nat \ {0}
      /\ Len(f) \in Nat /\ PhNum(f) + 1 <= Len(f)
  BY WellFormedFacts
<1>2. L \in Nat /\ L >= Len(f) + grow /\ \A p \in 1..(at - 1) : g[p] = f[p]
  BY BytesElim DEF Spliced
<1>3. 1 \in 1..L /\ \A j \in 1..PhNum(f) : j + 1 \in 1..L
  BY <1>1, <1>2
<1>4. h = [p \in 1..L |-> h[p]]
  BY DEF HeadersGrown
<1>5. h[1] = [g[1] EXCEPT !.shoff = Moved(f[1].shoff, at, grow)]
  BY <1>3 DEF HeadersGrown
<1>6. ASSUME NEW j \in 1..PhNum(f)
      PROVE  h[j + 1] = [g[j + 1] EXCEPT !.off = Moved(f[j + 1].off, at, grow)]
  <2>1. j + 1 \in PhCells(f) /\ j + 1 # 1
    BY <1>1 DEF PhCells
  <2> QED
    BY <1>3, <2>1 DEF HeadersGrown
<1>7. ASSUME NEW p \in 1..L, p > PhNum(f) + 1
      PROVE  h[p] = IF p \in ShCells(f) /\ f[p].off > at
                    THEN WithOffset(g[p], Moved(f[p].off, at, grow)) ELSE g[p]
  <2>1. p \notin PhCells(f) /\ p # 1
    BY <1>1, <1>7 DEF PhCells
  <2> QED
    BY <2>1 DEF HeadersGrown
<1> HIDE DEF h, L
<1>8. Bytes(h) /\ Len(h) = L /\ DOMAIN h = 1..L
  BY <1>2, <1>4, BytesIntro
<1>9. h[1] = Header(PhNum(f), Moved(f[1].shoff, at, grow), f[1].shnum)
  <2>1. g[1] = Header(PhNum(f), f[1].shoff, f[1].shnum)
    BY <1>1, <1>2, WellFormedFacts
  <2> QED
    BY <1>5, <2>1 DEF Header
<1>10. ASSUME NEW j \in 1..PhNum(f)
       PROVE  Ph(h, j) = Phdr(Moved(Ph(f, j).off, at, grow),
                              Ph(f, j).filesz, Ph(f, j).memsz, Ph(f, j).null)
  <2>1. j + 1 \in 1..(at - 1)
    BY <1>1
  <2>2. g[j + 1] = Phdr(Ph(f, j).off, Ph(f, j).filesz, Ph(f, j).memsz, Ph(f, j).null)
    BY <1>2, <2>1, WellFormedFacts DEF Ph
  <2>3. h[j + 1] = [g[j + 1] EXCEPT !.off = Moved(Ph(f, j).off, at, grow)]
    BY <1>6 DEF Ph
  <2>4. h[j + 1] = Phdr(Moved(Ph(f, j).off, at, grow), Ph(f, j).filesz, Ph(f, j).memsz, Ph(f, j).null)
    BY <2>2, <2>3 DEF Phdr
  <2> QED
    BY <2>4 DEF Ph
<1> QED
  BY <1>7, <1>8, <1>9, <1>10 DEF h, L

LEMMA RegrownMore ==
  ASSUME NEW f, WellFormed(f), NEW i \in 2..PhNum(f), Ph(f, i).filesz > 0,
         NEW grow \in Nat, NEW g, Spliced(g, f, i, grow)
  PROVE  Regrown(HeadersGrown(g, f, Ph(f, i).off, grow), f, i, grow)
<1> DEFINE at == Ph(f, i).off
           h  == HeadersGrown(g, f, at, grow)
           L  == Len(g)
<1>1. at \in Nat \ {0} /\ at >= PhNum(f) + 2 /\ PhNum(f) \in Nat \ {0} /\ Len(f) \in Nat
      /\ at - 1 <= Len(f)
  BY WellFormedFacts
<1>2. /\ L \in Nat /\ L >= Len(f) + grow
      /\ \A p \in 1..L : IsCell(g[p])
      /\ \A p \in 1..(at - 1) : g[p] = f[p]
      /\ \A p \in (at + Ph(f, i).filesz)..Len(f) : g[p + grow] = f[p]
  BY BytesElim DEF Spliced
<1>3. /\ Bytes(h) /\ Len(h) = L
      /\ h[1] = Header(PhNum(f), Moved(f[1].shoff, at, grow), f[1].shnum)
      /\ \A j \in 1..PhNum(f) : Ph(h, j) = Phdr(Moved(Ph(f, j).off, at, grow),
                                                Ph(f, j).filesz, Ph(f, j).memsz, Ph(f, j).null)
      /\ \A p \in 1..L : p > PhNum(f) + 1 =>
           h[p] = IF p \in ShCells(f) /\ f[p].off > at
                  THEN WithOffset(g[p], Moved(f[p].off, at, grow)) ELSE g[p]
  BY HeadersGrownCells
<1> HIDE DEF h, L
<1>4. ASSUME NEW p \in 1..L
      PROVE  IsCell(h[p])
  <2>1. CASE p = 1
    BY <1>3, <2>1 DEF IsCell, Header
  <2>2. CASE p # 1 /\ p <= PhNum(f) + 1
    <3>1. p - 1 \in 1..PhNum(f) /\ (p - 1) + 1 = p
      BY <1>1, <2>2
    <3>2. Ph(h, p - 1).kind = "phdr"
      BY <1>3, <3>1 DEF Phdr
    <3>3. h[p].kind = "phdr"
      BY <3>1, <3>2 DEF Ph
    <3> QED
      BY <3>3 DEF IsCell
  <2>3. CASE p > PhNum(f) + 1
    <3>1. h[p] = g[p] \/ \E o : h[p] = WithOffset(g[p], o)
      BY <1>3, <2>3
    <3>2. \A o : IsCell(WithOffset(g[p], o))
      BY DEF IsCell, WithOffset, Shdr, Cell
    <3> QED
      BY <1>2, <3>1, <3>2
  <2> QED
    BY <1>1, <2>1, <2>2, <2>3
<1>5. ASSUME SectionsAhead(f), NEW p \in ShCells(f), NEW o \in Nat, f[p] = Shdr(o)
      PROVE  h[p] = Shdr(Moved(o, at, grow))
  <2>1. p \in 1..(at - 1) /\ p > PhNum(f) + 1 /\ p \in 1..L
    BY <1>1, <1>2, <1>5, SectionCells
  <2>2. g[p] = Shdr(o) /\ f[p].off = o
    BY <1>2, <1>5, <2>1 DEF Shdr
  <2>3. CASE o > at
    <3>1. h[p] = WithOffset(g[p], Moved(o, at, grow))
      BY <1>3, <1>5, <2>1, <2>2, <2>3
    <3> QED
      BY <2>2, <3>1 DEF WithOffset, Shdr
  <2>4. CASE ~(o > at)
    <3>1. h[p] = g[p]
      BY <1>3, <1>5, <2>1, <2>2, <2>4
    <3> QED
      BY <2>2, <2>4, <3>1 DEF Moved
  <2> QED
    BY <2>3, <2>4
<1>6. ASSUME SectionsAhead(f), NEW j \in 2..PhNum(f), NEW q \in Nat \ {0}, j # i,
             q <= Ph(f, j).filesz
      PROVE  h[Moved(Ph(f, j).off, at, grow) + q - 1] = f[Ph(f, j).off + q - 1]
  <2> DEFINE b == Ph(f, j).off
             p == b + q - 1
             r == Moved(b, at, grow) + q - 1
  <2>1. b \in Nat \ {0}
    BY <1>6, WellFormedFacts
  <2>2. /\ p > PhNum(f) + 1 /\ p \in 1..Len(f)
        /\ \/ p \in 1..(at - 1) /\ Moved(b, at, grow) = b
           \/ p \in (at + Ph(f, i).filesz)..Len(f) /\ Moved(b, at, grow) = b + grow
    BY <1>6, OtherSegment
  <2>3. (r = p /\ p \in 1..(at - 1)) \/ (r = p + grow /\ p \in (at + Ph(f, i).filesz)..Len(f))
    BY <2>1, <2>2
  <2>4. ASSUME NEW s \in ShCells(f)
        PROVE  s < b /\ s < at
    BY <1>6, <2>4, SectionCells
  <2> HIDE DEF b
  <2>5. p >= b /\ (r = p \/ r >= at)
    <3>1. Ph(f, i).filesz \in Nat
      BY WellFormedFacts
    <3>2. p >= b
      BY <2>1
    <3> HIDE DEF p, r
    <3> QED
      BY <1>1, <2>3, <3>1, <3>2
  <2> HIDE DEF p, r
  <2>6. r \in 1..L /\ r > PhNum(f) + 1
    BY <1>1, <1>2, <2>2, <2>3
  <2>7. r \notin ShCells(f)
    BY <2>1, <1>1, <2>4, <2>5, <2>6
  <2>8. h[r] = g[r]
    BY <1>3, <2>6, <2>7
  <2>9. g[r] = f[p]
    BY <1>2, <2>3
  <2> QED
    BY <2>8, <2>9 DEF r, p, b
<1>7. Len(h) >= Len(f) + grow /\ \A p \in 1..Len(h) : IsCell(h[p])
  BY <1>2, <1>3, <1>4
<1> QED
  BY <1>3, <1>5, <1>6, <1>7 DEF Regrown, h

\* Setting the sizes of the segment that grew ends the repair.
WithHeader(g, h, i, ph) ==
  /\ Bytes(g) /\ Len(g) = Len(h) /\ DOMAIN g = 1..Len(h)
  /\ Ph(g, i) = ph
  /\ \A p \in 1..Len(h) : p # i + 1 => g[p] = h[p]

LEMMA SizedCells ==
  ASSUME NEW h, Bytes(h), NEW i, i \in Nat, i + 1 <= Len(h), NEW n,
         NEW off, NEW filesz, NEW memsz, NEW null, Ph(h, i) = Phdr(off, filesz, memsz, null)
  PROVE  WithHeader(Sized(h, i, n), h, i, Phdr(off, n, n, null))
<1> DEFINE g == Sized(h, i, n)
<1>1. Len(h) \in Nat /\ DOMAIN h = 1..Len(h) /\ i + 1 \in 1..Len(h)
  BY BytesElim
<1>2. DOMAIN g = 1..Len(h) /\ g = [p \in 1..Len(h) |-> g[p]]
  BY <1>1 DEF Sized
<1>3. \A p \in 1..Len(h) : p # i + 1 => g[p] = h[p]
  BY <1>1 DEF Sized
<1>4. g[i + 1] = [[h[i + 1] EXCEPT !.filesz = n] EXCEPT !.memsz = n]
  BY <1>1 DEF Sized
<1>5. g[i + 1] = Phdr(off, n, n, null)
  <2>1. h[i + 1] = Phdr(off, filesz, memsz, null)
    BY DEF Ph
  <2>2. [h[i + 1] EXCEPT !.filesz = n] = Phdr(off, n, memsz, null)
    BY <2>1 DEF Phdr
  <2>3. [Phdr(off, n, memsz, null) EXCEPT !.memsz = n] = Phdr(off, n, n, null)
    BY DEF Phdr
  <2> QED
    BY <1>4, <2>2, <2>3
<1> HIDE DEF g
<1>6. Bytes(g) /\ Len(g) = Len(h)
  BY <1>1, <1>2, BytesIntro
<1>7. Ph(g, i) = Phdr(off, n, n, null)
  BY <1>5 DEF Ph
<1> QED
  BY <1>2, <1>3, <1>6, <1>7 DEF g, WithHeader

LEMMA SizedFile ==
  ASSUME NEW f, WellFormed(f), NEW i \in 2..PhNum(f), Ph(f, i).filesz > 0,
         NEW grow \in Nat, NEW h, Regrown(h, f, i, grow),
         NEW n \in Nat, n <= Ph(f, i).filesz + grow
  PROVE  LET g == Sized(h, i, n)
         IN /\ HeadersFollow(g, f)
            /\ \A j \in 1..PhNum(f) : Ph(g, j).filesz = IF j = i THEN n ELSE Ph(f, j).filesz
            /\ \A j \in 1..PhNum(f) : j < i => Ph(g, j).off = Ph(f, j).off
            /\ SectionsAhead(f) => \A j \in 2..PhNum(f) : j # i => Data(g, j) = Data(f, j)
            /\ \A q \in 1..n : Data(g, i)[q] = h[Ph(f, i).off + q - 1]
<1> DEFINE at      == Ph(f, i).off
           g       == Sized(h, i, n)
           to(j)   == Moved(Ph(f, j).off, at, grow)
           size(j) == IF j = i THEN n ELSE Ph(f, j).filesz
           num     == PhNum(f)
<1>1. /\ num \in Nat \ {0} /\ Len(f) \in Nat /\ num + 1 <= Len(f)
      /\ f[1].shoff \in Nat /\ f[1].shnum \in Nat
      /\ at \in Nat \ {0} /\ at >= num + 2 /\ at + Ph(f, i).filesz - 1 <= Len(f)
      /\ Ph(f, 1).off = 1 /\ Ph(f, 1).filesz = num + 1
      /\ f[1].shnum > 0 => f[1].shoff > num + 1
  BY WellFormedFacts
<1>2. \A j \in 1..num : /\ Ph(f, j).off \in Nat \ {0} /\ Ph(f, j).filesz \in Nat
                        /\ Ph(f, j).off + Ph(f, j).filesz - 1 <= Len(f)
  BY WellFormedFacts
<1>3. \A j, k \in 1..num : j < k => Ph(f, j).off + Ph(f, j).filesz <= Ph(f, k).off
  BY WellFormedFacts
<1>4. /\ Bytes(h) /\ Len(h) \in Nat /\ Len(h) >= Len(f) + grow
      /\ \A p \in 1..Len(h) : IsCell(h[p])
      /\ h[1] = Header(num, Moved(f[1].shoff, at, grow), f[1].shnum)
      /\ \A j \in 1..num : Ph(h, j) = Phdr(to(j), Ph(f, j).filesz, Ph(f, j).memsz, Ph(f, j).null)
  BY BytesElim DEF Regrown
<1>5. /\ Bytes(g) /\ Len(g) = Len(h) /\ DOMAIN g = 1..Len(h)
      /\ Ph(g, i) = Phdr(to(i), n, n, Ph(f, i).null)
      /\ \A p \in 1..Len(h) : p # i + 1 => g[p] = h[p]
  <2>1. i \in Nat /\ i + 1 <= Len(h)
    BY <1>1, <1>4
  <2>2. Ph(h, i) = Phdr(to(i), Ph(f, i).filesz, Ph(f, i).memsz, Ph(f, i).null)
    BY <1>4
  <2>3. WithHeader(g, h, i, Phdr(to(i), n, n, Ph(f, i).null))
    BY <1>4, <2>1, <2>2, SizedCells
  <2> HIDE DEF g
  <2> QED
    BY <2>3 DEF WithHeader
<1> HIDE DEF g
\* The headers of g.
<1>6. g[1] = Header(num, Moved(f[1].shoff, at, grow), f[1].shnum) /\ PhNum(g) = num
  <2>1. 1 \in 1..Len(h) /\ 1 # i + 1
    BY <1>1, <1>4
  <2> QED
    BY <1>4, <1>5, <2>1 DEF Header, PhNum
<1>7. ASSUME NEW j \in 1..num
      PROVE  /\ Ph(g, j) = Phdr(to(j), size(j), Ph(g, j).memsz, Ph(f, j).null)
             /\ Ph(g, j).off = to(j) /\ Ph(g, j).filesz = size(j) /\ Ph(g, j).null = Ph(f, j).null
  <2>1. CASE j = i
    BY <1>5, <2>1 DEF Phdr
  <2>2. CASE j # i
    <3>1. j + 1 \in 1..Len(h) /\ j + 1 # i + 1
      BY <1>1, <1>4, <2>2
    <3>2. Ph(g, j) = Phdr(to(j), Ph(f, j).filesz, Ph(f, j).memsz, Ph(f, j).null)
      BY <1>4, <1>5, <3>1 DEF Ph
    <3> QED
      BY <2>2, <3>2 DEF Phdr
  <2> QED
    BY <2>1, <2>2
<1>8. ASSUME NEW j \in 1..num
      PROVE  /\ to(j) \in Nat \ {0} /\ size(j) \in Nat
             /\ to(j) + size(j) - 1 <= Len(g)
             /\ j <= i => to(j) = Ph(f, j).off
             /\ j > i => to(j) = Ph(f, j).off + grow
  <2>1. Ph(f, j).off \in Nat \ {0} /\ Ph(f, j).filesz \in Nat
        /\ Ph(f, j).off + Ph(f, j).filesz - 1 <= Len(f)
    BY <1>2
  <2>2. (j <= i => Ph(f, j).off <= at) /\ (j > i => Ph(f, j).off > at)
    <3>1. CASE j < i
      <4>1. Ph(f, j).off + Ph(f, j).filesz <= at
        BY <1>3, <3>1
      <4>2. Ph(f, j).off <= at
        <5>1. at \in Nat
          BY <1>1
        <5> HIDE DEF at, to, size, num
        <5> QED
          BY <2>1, <4>1, <5>1
      <4>3. j \in Nat /\ i \in Nat
        BY <1>1
      <4> QED
        BY <3>1, <4>2, <4>3
    <3>2. CASE i < j
      <4>1. at + Ph(f, i).filesz <= Ph(f, j).off /\ Ph(f, i).filesz \in Nat
        BY <1>2, <1>3, <3>2
      <4>2. Ph(f, j).off > at
        <5>1. at \in Nat /\ Ph(f, i).filesz > 0
          BY <1>1
        <5> HIDE DEF at, to, size, num
        <5> QED
          BY <2>1, <4>1, <5>1
      <4> QED
        BY <3>2, <4>2
    <3>3. CASE j = i
      BY <1>1, <3>3
    <3> QED
      BY <1>1, <3>1, <3>2, <3>3
  <2>3. (j <= i => to(j) = Ph(f, j).off) /\ (j > i => to(j) = Ph(f, j).off + grow)
    BY <1>1, <2>1, <2>2 DEF Moved
  <2>4. to(j) \in Nat \ {0} /\ size(j) \in Nat
    BY <2>1, <2>3
  <2>5. to(j) + size(j) - 1 <= Len(g)
    <3>1. CASE j = i
      <4>1. to(j) = at /\ size(j) = n /\ Ph(f, i).filesz \in Nat
        BY <1>1, <1>2, <2>3, <3>1
      <4> HIDE DEF to, size, at
      <4> QED
        BY <1>1, <1>4, <1>5, <4>1
    <3>2. CASE j # i
      <4>1. size(j) = Ph(f, j).filesz /\ (to(j) = Ph(f, j).off \/ to(j) = Ph(f, j).off + grow)
        BY <1>1, <2>3, <3>2
      <4>2. Len(f) \in Nat /\ Len(g) \in Nat /\ Len(g) >= Len(f) + grow
        BY <1>1, <1>4, <1>5
      <4> HIDE DEF to, size
      <4> QED
        BY <2>1, <4>1, <4>2
    <3> QED
      BY <3>1, <3>2
  <2> QED
    BY <2>3, <2>4, <2>5
<1>9. ASSUME NEW j \in 1..num, NEW k \in 1..num, j < k
      PROVE  to(j) + size(j) <= to(k)
  <2>1. Ph(f, j).off + Ph(f, j).filesz <= Ph(f, k).off
    BY <1>3, <1>9
  <2>2. /\ Ph(f, j).off \in Nat /\ Ph(f, k).off \in Nat /\ Ph(f, j).filesz \in Nat
        /\ (j <= i => to(j) = Ph(f, j).off) /\ (j > i => to(j) = Ph(f, j).off + grow)
        /\ (k <= i => to(k) = Ph(f, k).off) /\ (k > i => to(k) = Ph(f, k).off + grow)
    BY <1>2, <1>8
  <2> HIDE DEF to
  <2>3. CASE j = i
    <3>1. to(j) = at /\ size(j) = n /\ to(k) = Ph(f, k).off + grow
          /\ at + Ph(f, i).filesz <= Ph(f, k).off
          /\ Ph(f, i).filesz \in Nat /\ Ph(f, k).off \in Nat
      BY <1>1, <1>9, <2>1, <2>2, <2>3
    <3>2. at \in Nat
      BY <1>1
    <3> HIDE DEF to, size, at
    <3> QED
      BY <3>1, <3>2
  <2>4. CASE j # i
    <3>1. size(j) = Ph(f, j).filesz
      BY <2>4
    <3>2. j \in Int /\ k \in Int /\ i \in Int
      BY <1>1
    <3>3. \/ to(j) = Ph(f, j).off /\ to(k) \in {Ph(f, k).off, Ph(f, k).off + grow}
          \/ to(j) = Ph(f, j).off + grow /\ to(k) = Ph(f, k).off + grow
      BY <1>9, <2>2, <2>4, <3>2
    <3> HIDE DEF size
    <3> QED
      BY <2>1, <2>2, <3>1, <3>3
  <2> QED
    BY <2>3, <2>4
<1>10. WellFormed(g)
  <2>1. Cellular(g)
    <3> SUFFICES ASSUME NEW p \in 1..Len(h) PROVE IsCell(g[p])
      BY <1>5 DEF Cellular
    <3>1. CASE p = i + 1
      BY <1>5, <3>1 DEF IsCell, Ph, Phdr
    <3>2. CASE p # i + 1
      BY <1>4, <1>5, <3>2
    <3> QED
      BY <3>1, <3>2
  <2>2. /\ g[1] = Header(PhNum(g), g[1].shoff, g[1].shnum)
        /\ g[1].shoff \in Nat /\ g[1].shnum \in Nat
        /\ g[1].shnum > 0 => g[1].shoff > PhNum(g) + 1
    <3>1. g[1].shoff = Moved(f[1].shoff, at, grow) /\ g[1].shnum = f[1].shnum
      BY <1>6 DEF Header
    <3>2. Moved(f[1].shoff, at, grow) \in Nat /\ Moved(f[1].shoff, at, grow) >= f[1].shoff
      BY <1>1 DEF Moved
    <3> QED
      BY <1>1, <1>6, <3>1, <3>2
  <2>3. 1 \in 1..num /\ 1 <= i /\ 1 # i
    BY <1>1
  <2>4. Ph(g, 1).off = 1 /\ Ph(g, 1).filesz = num + 1
    BY <1>1, <1>7, <1>8, <2>3
  <2>5. \A j \in 1..num : Ph(g, j) = Phdr(Ph(g, j).off, Ph(g, j).filesz, Ph(g, j).memsz, Ph(g, j).null)
    BY <1>7
  <2>6. \A j \in 1..num : /\ Ph(g, j).off \in Nat \ {0} /\ Ph(g, j).filesz \in Nat
                          /\ Ph(g, j).off + Ph(g, j).filesz - 1 <= Len(g)
    <3> HIDE DEF to, size
    <3> QED
      BY <1>7, <1>8
  <2>7. \A j, k \in 1..num : j < k => Ph(g, j).off + Ph(g, j).filesz <= Ph(g, k).off
    <3> HIDE DEF to, size
    <3> QED
      BY <1>7, <1>9
  <2> QED
    BY <1>1, <1>5, <1>6, <2>1, <2>2, <2>4, <2>5, <2>6, <2>7 DEF WellFormed
\* The sections and the other segments of g.
<1>11. ASSUME SectionsAhead(f)
       PROVE  /\ SectionsAhead(g)
              /\ f[1].shnum > 0 => g[1].shoff = f[1].shoff
              /\ \A p \in ShCells(f), j \in 2..num :
                   f[p] = Shdr(Ph(f, j).off) => g[p] = Shdr(Ph(g, j).off)
  <2>1. g[1].shnum = f[1].shnum
    BY <1>6 DEF Header
  <2>2. ASSUME f[1].shnum > 0
        PROVE  g[1].shoff = f[1].shoff
    <3>1. f[1].shoff \in ShCells(f)
      BY <1>1, <2>2 DEF ShCells
    <3>2. f[1].shoff < at
      BY <1>11, <3>1, SectionCells
    <3>3. Moved(f[1].shoff, at, grow) = f[1].shoff
      BY <1>1, <3>2 DEF Moved
    <3> QED
      BY <1>6, <3>3 DEF Header
  <2>3. SectionsAhead(g)
    <3> SUFFICES ASSUME NEW p \in ShCells(g), NEW j \in 2..num PROVE p < Ph(g, j).off
      BY <1>6 DEF SectionsAhead
    <3>1. p \in ShCells(f)
      <4>1. CASE f[1].shnum > 0
        BY <2>1, <2>2, <4>1 DEF ShCells
      <4>2. CASE f[1].shnum = 0
        <5>1. g[1].shnum = 0 /\ g[1].shoff \in Nat
          BY <1>10, <2>1, <4>2, WellFormedFacts
        <5> QED
          BY <5>1 DEF ShCells
      <4> QED
        BY <1>1, <4>1, <4>2
    <3>2. p < Ph(f, j).off /\ p \in Nat
      BY <1>11, <3>1, SectionCells
    <3>3. Ph(g, j).off = to(j) /\ (to(j) = Ph(f, j).off \/ to(j) = Ph(f, j).off + grow)
          /\ Ph(f, j).off \in Nat
      <4>1. j \in 1..num /\ (j <= i \/ j > i)
        BY <1>1
      <4> HIDE DEF to
      <4> QED
        BY <1>2, <1>7, <1>8, <4>1
    <3> HIDE DEF to
    <3> QED
      BY <3>2, <3>3
  <2>4. ASSUME NEW p \in ShCells(f), NEW j \in 2..num, f[p] = Shdr(Ph(f, j).off)
        PROVE  g[p] = Shdr(Ph(g, j).off)
    <3>1. p \in Nat /\ p > num + 1 /\ p < at
      BY <1>11, <2>4, SectionCells
    <3>2. p \in 1..Len(h) /\ p # i + 1
      <4>1. Ph(f, i).filesz \in Nat
        BY <1>1, <1>2
      <4>2. i \in 2..num
        OBVIOUS
      <4>3. /\ num \in Nat /\ at \in Nat /\ Len(f) \in Nat /\ Len(h) \in Nat
            /\ Len(h) >= Len(f) + grow /\ at + Ph(f, i).filesz - 1 <= Len(f)
        BY <1>1, <1>4
      <4> HIDE DEF at, num
      <4> QED
        BY <3>1, <4>1, <4>2, <4>3
    <3>3. Ph(f, j).off \in Nat /\ Ph(g, j).off = to(j)
      BY <1>2, <1>7
    <3>4. h[p] = Shdr(to(j))
      BY <1>11, <2>4, <3>3 DEF Regrown
    <3> QED
      BY <1>5, <3>2, <3>3, <3>4
  <2> QED
    BY <2>2, <2>3, <2>4
<1>12. ASSUME SectionsAhead(f), NEW j \in 2..num, j # i
       PROVE  Data(g, j) = Data(f, j)
  <2>1. Ph(g, j).filesz = Ph(f, j).filesz /\ Ph(g, j).off = to(j)
    BY <1>1, <1>7, <1>12
  <2>2. ASSUME NEW q \in 1..Ph(f, j).filesz
        PROVE  g[Ph(g, j).off + q - 1] = f[Ph(f, j).off + q - 1]
    <3> DEFINE p == to(j) + q - 1
    <3>1. h[p] = f[Ph(f, j).off + q - 1]
      BY <1>2, <1>12, <2>2 DEF Regrown
    <3>2. to(j) \in Nat /\ to(j) >= num + 2 /\ to(j) + Ph(f, j).filesz - 1 <= Len(g)
          /\ Ph(f, j).filesz \in Nat
      <4>1. Ph(f, j).off >= num + 2 /\ Ph(f, j).off \in Nat /\ Ph(f, j).filesz \in Nat
        BY WellFormedFacts
      <4>2. /\ to(j) \in Nat /\ (to(j) = Ph(f, j).off \/ to(j) = Ph(f, j).off + grow)
            /\ to(j) + Ph(f, j).filesz - 1 <= Len(g)
        BY <1>1, <1>8, <1>12
      <4> HIDE DEF to, num
      <4> QED
        BY <1>1, <4>1, <4>2
    <3>3. i \in 2..num
      OBVIOUS
    <3> HIDE DEF to, num
    <3>4. p \in 1..Len(h) /\ p # i + 1
      <4>1. num \in Nat /\ Len(h) \in Nat /\ Len(g) = Len(h)
        BY <1>1, <1>4, <1>5
      <4>2. q \in 1..Ph(f, j).filesz
        BY <2>2
      <4>3. ASSUME NEW t, t \in Nat, t >= num + 2, t + Ph(f, j).filesz - 1 <= Len(g)
            PROVE  t + q - 1 \in 1..Len(h) /\ t + q - 1 # i + 1
        BY <3>2, <3>3, <4>1, <4>2, <4>3
      <4> QED
        BY <3>2, <4>3
    <3>5. g[p] = h[p]
      <4> HIDE DEF p
      <4> QED
        BY <1>5, <3>4
    <3> QED
      BY <2>1, <3>1, <3>5
  <2> QED
    BY <1>1, <1>6, <1>10, <2>1, <2>2, DataEqual
<1>13. HeadersFollow(g, f)
  <2>1. g[1].shnum = f[1].shnum
    BY <1>6 DEF Header
  <2> QED
    BY <1>6, <1>10, <1>11, <2>1 DEF HeadersFollow
<1>14. ASSUME NEW j \in 1..num, j < i
       PROVE  Ph(g, j).off = Ph(f, j).off
  <2>1. Ph(f, j).off <= at
    <3>1. Ph(f, j).off + Ph(f, j).filesz <= at
      BY <1>3, <1>14
    <3>2. at \in Nat /\ Ph(f, j).off \in Nat /\ Ph(f, j).filesz \in Nat
      BY <1>1, <1>2
    <3> HIDE DEF at
    <3> QED
      BY <3>1, <3>2
  <2>2. ~(Ph(f, j).off > at)
    BY <1>1, <1>2, <2>1
  <2>3. to(j) = Ph(f, j).off
    BY <2>2 DEF Moved
  <2> HIDE DEF to
  <2> QED
    BY <1>7, <2>3
<1>15. ASSUME NEW q \in 1..n
       PROVE  Data(g, i)[q] = h[at + q - 1]
  <2>1. i \in 1..num /\ i <= i
    BY <1>1
  <2>2. Ph(g, i).off = at /\ Ph(g, i).filesz = n
    BY <1>7, <1>8, <2>1
  <2>3. Data(g, i)[q] = g[at + q - 1]
    BY <1>6, <1>10, <2>1, <2>2, DataCells
  <2>4. i \in 2..num
    OBVIOUS
  <2>5. at + n - 1 <= Len(h)
    BY <1>5, <1>10, <2>1, <2>2, <1>6, WellFormedFacts
  <2>6. at \in Nat /\ at >= num + 2 /\ num \in Nat /\ Len(h) \in Nat
    BY <1>1, <1>4
  <2> HIDE DEF at, num
  <2>7. at + q - 1 \in 1..Len(h) /\ at + q - 1 # i + 1
    BY <2>4, <2>5, <2>6
  <2> QED
    BY <1>5, <2>3, <2>7
<1> QED
  BY <1>7, <1>12, <1>13, <1>14, <1>15 DEF g

\* Resegmented: the headers describe the new file as they described the old one,
\* and the other segments are what they were.
SegmentReplaced(g, f, i, new, n) ==
  /\ HeadersFollow(g, f)
  /\ \A j \in 1..PhNum(f) : j # i => Ph(g, j).filesz = Ph(f, j).filesz
  /\ Ph(g, i).filesz = n
  /\ \A j \in 1..PhNum(f) : j < i => Ph(g, j).off = Ph(f, j).off
  /\ SectionsAhead(f) => /\ \A j \in 2..PhNum(f) : j # i => Data(g, j) = Data(f, j)
                         /\ \A q \in 1..n : Data(g, i)[q] = new[q]

LEMMA ResegmentedFile ==
  ASSUME NEW f, WellFormed(f), NEW i, i \in 2..PhNum(f), Ph(f, i).filesz > 0,
         NEW new, Bytes(new), Cellular(new), Len(new) >= Ph(f, i).filesz,
         NEW n, n \in 0..Len(new), NEW pad, pad \in Int
  PROVE  SegmentReplaced(Resegmented(f, i, new, n, pad), f, i, new, n)
<1> DEFINE at    == Ph(f, i).off
           grow  == Len(new) - Ph(f, i).filesz
           moved == ZeroPadded(Splice(f, at, Ph(f, i).filesz, new), pad)
           h     == IF grow # 0 THEN HeadersGrown(moved, f, at, grow) ELSE moved
<1>1. Ph(f, i).filesz \in Nat /\ Len(new) \in Nat /\ grow \in Nat
  BY WellFormedFacts, BytesElim
<1>2. Regrown(h, f, i, grow)
  <2>1. Spliced(moved, f, i, grow)
    BY SplicedFile
  <2>2. CASE grow = 0
    <3>1. h = moved
      BY <2>2
    <3> HIDE DEF moved, grow, h
    <3> QED
      BY <2>1, <2>2, <3>1, RegrownSame
  <2>3. CASE grow # 0
    <3>1. h = HeadersGrown(moved, f, at, grow)
      BY <2>3
    <3> HIDE DEF moved, grow, h
    <3> QED
      BY <1>1, <2>1, <3>1, RegrownMore
  <2> QED
    BY <2>2, <2>3
<1>3. Resegmented(f, i, new, n, pad) = Sized(h, i, n)
  BY DEF Resegmented
\* The cells of the segment: no section header is among them.
<1>7. ASSUME SectionsAhead(f), NEW q \in 1..Len(new)
      PROVE  h[at + q - 1] = new[q]
  <2>1. /\ at \in Nat \ {0} /\ at >= PhNum(f) + 2 /\ PhNum(f) \in Nat /\ Len(f) \in Nat
        /\ Bytes(f) /\ at + Ph(f, i).filesz - 1 <= Len(f)
    BY WellFormedFacts
  <2> DEFINE p == at + q - 1
             s == Splice(f, at, Ph(f, i).filesz, new)
  <2>2. IsSplice(s, f, at, Ph(f, i).filesz, new)
    BY <1>1, <2>1, SpliceBytes
  <2>3. /\ Bytes(s) /\ Len(s) = Len(f) - Ph(f, i).filesz + Len(new)
        /\ s[p] = new[q]
    BY <2>2 DEF IsSplice
  <2> HIDE DEF s, at
  <2>4. p \in 1..Len(s) /\ p > PhNum(f) + 1
    <3>1. q \in Nat \ {0} /\ q <= Len(new)
      BY <1>1
    <3>2. p \in Nat /\ p >= at /\ p >= 1
      BY <2>1, <3>1
    <3>3. p <= Len(s)
      <4>1. ASSUME NEW m \in Nat, NEW k \in Nat, NEW b \in Nat, b + m - 1 <= Len(f),
                   q <= k
            PROVE  b + q - 1 <= Len(f) - m + k
        BY <2>1, <3>1, <4>1
      <4>2. at + q - 1 <= Len(f) - Ph(f, i).filesz + Len(new)
        BY <1>1, <2>1, <3>1, <4>1
      <4> HIDE DEF h, moved, grow
      <4> QED
        BY <2>3, <4>2
    <3> HIDE DEF p
    <3> QED
      BY <2>1, <3>2, <3>3
  <2>5. p \in 1..Len(moved) /\ moved[p] = s[p]
    <3>1. /\ Len(moved) = Len(s) + (IF pad > 0 THEN pad ELSE 0)
          /\ \A x \in 1..Len(moved) : moved[x] = IF x <= Len(s) THEN s[x] ELSE Cell("zero")
      BY <2>3, ZeroPaddedBytes DEF s
    <3>2. Len(s) \in Nat
      BY <2>3, BytesElim
    <3> HIDE DEF moved, p
    <3> QED
      BY <2>4, <3>1, <3>2
  <2>6. p \notin ShCells(f)
    <3>1. at <= p
      BY <2>1
    <3>2. p \in ShCells(f) => p < at
      BY <1>7 DEF SectionsAhead, at
    <3> HIDE DEF p
    <3> QED
      BY <2>1, <2>4, <3>1, <3>2
  <2>7. CASE grow = 0
    <3>1. h = moved
      BY <2>7
    <3> HIDE DEF h, moved, p
    <3>2. h[p] = new[q]
      BY <2>3, <2>5, <3>1
    <3> QED
      BY <3>2 DEF p
  <2>8. CASE grow # 0
    <3>1. h = HeadersGrown(moved, f, at, grow)
      BY <2>8
    <3>2. Spliced(moved, f, i, grow)
      BY SplicedFile DEF at
    <3> HIDE DEF h, moved, grow, p
    <3>3. \A x \in 1..Len(moved) : x > PhNum(f) + 1 =>
            HeadersGrown(moved, f, Ph(f, i).off, grow)[x]
              = IF x \in ShCells(f) /\ f[x].off > Ph(f, i).off
                THEN WithOffset(moved[x], Moved(f[x].off, Ph(f, i).off, grow))
                ELSE moved[x]
      BY <1>1, <3>2, HeadersGrownCells
    <3>4. h[p] = moved[p]
      BY <2>4, <2>5, <2>6, <3>1, <3>3 DEF at
    <3>5. h[p] = new[q]
      BY <2>3, <2>5, <3>4
    <3> QED
      BY <3>5 DEF p
  <2> QED
    BY <2>7, <2>8 DEF at
<1>4. n \in Nat /\ n <= Ph(f, i).filesz + grow /\ i \in 1..PhNum(f)
  BY <1>1, WellFormedFacts
<1> HIDE DEF h, grow
<1> DEFINE g == Sized(h, i, n)
<1>5. /\ HeadersFollow(g, f)
      /\ \A j \in 1..PhNum(f) : Ph(g, j).filesz = IF j = i THEN n ELSE Ph(f, j).filesz
      /\ \A j \in 1..PhNum(f) : j < i => Ph(g, j).off = Ph(f, j).off
      /\ SectionsAhead(f) => \A j \in 2..PhNum(f) : j # i => Data(g, j) = Data(f, j)
      /\ \A q \in 1..n : Data(g, i)[q] = h[at + q - 1]
  BY <1>1, <1>2, <1>4, SizedFile
<1> HIDE DEF g
<1>8. ASSUME SectionsAhead(f), NEW q \in 1..n
      PROVE  Data(g, i)[q] = new[q]
  <2>1. q \in 1..Len(new)
    BY <1>1
  <2> QED
    BY <1>5, <1>7, <1>8, <2>1
<1>6. SegmentReplaced(g, f, i, new, n)
  BY <1>4, <1>5, <1>8 DEF SegmentReplaced
<1> QED
  BY <1>3, <1>6 DEF g

-----------------------------------------------------------------------------
(* Cells that are rewritten where they are.                                 *)

\* No cell that is rewritten is the head of a tree, or becomes one.
Neutral(b, c) ==
  /\ Len(c) = Len(b)
  /\ \A p \in 1..Len(b) : c[p] = b[p] \/ (b[p].kind # "tree" /\ c[p].kind # "tree")

LEMMA NeutralTransitive ==
  ASSUME NEW a, NEW b, NEW c, Neutral(a, b), Neutral(b, c)
  PROVE  Neutral(a, c)
BY DEF Neutral

\* A file in which no header cell changes is described by the same headers.
LEMMA RewrittenFile ==
  ASSUME NEW f, WellFormed(f), NEW g, Bytes(g), Len(g) = Len(f),
         \A p \in 1..Len(f) : IsCell(g[p]),
         \A p \in 1..(PhNum(f) + 1) : g[p] = f[p],
         SectionsAhead(f) => \A p \in ShCells(f), j \in 2..PhNum(f) :
                               f[p] = Shdr(Ph(f, j).off) => g[p] = f[p]
  PROVE  /\ HeadersFollow(g, f) /\ PhNum(g) = PhNum(f)
         /\ \A j \in 1..PhNum(f) : Ph(g, j) = Ph(f, j)
<1>1. PhNum(f) \in Nat \ {0} /\ DOMAIN g = 1..Len(f)
  BY WellFormedFacts, BytesElim
<1>2. g[1] = f[1] /\ PhNum(g) = PhNum(f)
  BY <1>1 DEF PhNum
<1>3. ASSUME NEW j \in 1..PhNum(f)
      PROVE  Ph(g, j) = Ph(f, j)
  <2>1. j + 1 \in 1..(PhNum(f) + 1)
    BY <1>1
  <2> QED
    BY <2>1 DEF Ph
<1>4. WellFormed(g)
  <2>1. Cellular(g)
    BY <1>1 DEF Cellular
  <2>2. /\ g[1] = Header(PhNum(g), g[1].shoff, g[1].shnum)
        /\ PhNum(g) \in Nat \ {0} /\ g[1].shoff \in Nat /\ g[1].shnum \in Nat
        /\ g[1].shnum > 0 => g[1].shoff > PhNum(g) + 1
    BY <1>2, WellFormedFacts
  <2>3. \A j \in 1..PhNum(g) :
          /\ Ph(g, j) = Phdr(Ph(g, j).off, Ph(g, j).filesz, Ph(g, j).memsz, Ph(g, j).null)
          /\ Ph(g, j).off \in Nat \ {0} /\ Ph(g, j).filesz \in Nat
          /\ Ph(g, j).off + Ph(g, j).filesz - 1 <= Len(g)
    BY <1>2, <1>3, WellFormedFacts
  <2>4. Ph(g, 1).off = 1 /\ Ph(g, 1).filesz = PhNum(g) + 1
    BY <1>1, <1>2, <1>3, WellFormedFacts
  <2>5. \A i, j \in 1..PhNum(g) : i < j => Ph(g, i).off + Ph(g, i).filesz <= Ph(g, j).off
    BY <1>2, <1>3, WellFormedFacts
  <2> QED
    BY <2>1, <2>2, <2>3, <2>4, <2>5 DEF WellFormed
<1>5. ASSUME SectionsAhead(f)
      PROVE  SectionsAhead(g) /\ \A p \in ShCells(f), j \in 2..PhNum(f) :
               f[p] = Shdr(Ph(f, j).off) => g[p] = Shdr(Ph(g, j).off)
  <2>1. \A j \in 2..PhNum(f) : Ph(g, j) = Ph(f, j)
    BY <1>1, <1>3
  <2>2. ShCells(g) = ShCells(f)
    BY <1>2 DEF ShCells
  <2> QED
    BY <1>2, <1>5, <2>1, <2>2 DEF SectionsAhead
<1> QED
  BY <1>2, <1>3, <1>4, <1>5 DEF HeadersFollow

\* Only digests are replaced, by digests.
LEMMA DigestsCells ==
  ASSUME NEW f, Bytes(f), NEW ps, NEW lo, NEW hi
  PROVE  LET g == DigestsReplaced(f, ps, lo, hi)
         IN /\ Bytes(g) /\ Len(g) = Len(f)
            /\ \A p \in 1..Len(f) : g[p] = f[p] \/ (f[p].kind = "slot" /\ g[p].kind = "slot")
<1> DEFINE g == DigestsReplaced(f, ps, lo, hi)
<1>1. Len(f) \in Nat
  BY BytesElim
<1>2. g = [p \in 1..Len(f) |-> g[p]]
  BY DEF DigestsReplaced
<1>3. ASSUME NEW p \in 1..Len(f)
      PROVE  g[p] = f[p] \/ (f[p].kind = "slot" /\ g[p].kind = "slot")
  <2>1. g[p] = f[p] \/ (f[p].kind = "slot" /\ \E bytes : g[p] = Slot(bytes))
    BY DEF DigestsReplaced
  <2>2. \A bytes : Slot(bytes).kind = "slot"
    BY DEF Slot
  <2> HIDE DEF g
  <2> QED
    BY <2>1, <2>2
<1> HIDE DEF g
<1>4. Bytes(g) /\ Len(g) = Len(f)
  BY <1>1, <1>2, BytesIntro
<1> QED
  BY <1>3, <1>4 DEF g

LEMMA DigestsFile ==
  ASSUME NEW f, WellFormed(f), NEW ps, NEW lo, NEW hi
  PROVE  LET g == DigestsReplaced(f, ps, lo, hi)
         IN /\ HeadersFollow(g, f)
            /\ \A j \in 1..PhNum(f) : Ph(g, j) = Ph(f, j)
            /\ \A j \in 1..PhNum(f) : \A q \in 1..Len(Data(f, j)) :
                 \/ Data(g, j)[q] = Data(f, j)[q]
                 \/ Data(f, j)[q].kind = "slot" /\ Data(g, j)[q].kind = "slot"
            /\ \A j \in 1..PhNum(f) :
                 (\A q \in 1..Len(Data(f, j)) : Data(f, j)[q].kind # "slot") => Data(g, j) = Data(f, j)
            /\ \A j \in 1..PhNum(f) : Neutral(Data(f, j), Data(g, j))
<1> DEFINE g == DigestsReplaced(f, ps, lo, hi)
<1>1. Bytes(f) /\ Len(f) \in Nat /\ PhNum(f) \in Nat \ {0} /\ PhNum(f) + 1 <= Len(f)
  BY WellFormedFacts
<1>2. /\ Bytes(g) /\ Len(g) = Len(f)
      /\ \A p \in 1..Len(f) : g[p] = f[p] \/ (f[p].kind = "slot" /\ g[p].kind = "slot")
  BY <1>1, DigestsCells
<1> HIDE DEF g
<1>3. \A p \in 1..Len(f) : IsCell(g[p])
  BY <1>2, WellFormedFacts DEF IsCell
<1>4. ASSUME NEW p \in 1..(PhNum(f) + 1)
      PROVE  g[p] = f[p]
  <2>1. f[p].kind # "slot"
    <3>1. CASE p = 1
      <4>1. f[1] = Header(PhNum(f), f[1].shoff, f[1].shnum)
        BY WellFormedFacts
      <4>2. f[1].kind = "ehdr"
        BY <4>1 DEF Header
      <4> QED
        BY <3>1, <4>2
    <3>2. CASE p # 1
      <4>1. p - 1 \in 1..PhNum(f) /\ (p - 1) + 1 = p
        BY <1>1, <3>2
      <4>2. Ph(f, p - 1).kind = "phdr"
        BY <4>1, WellFormedFacts DEF Phdr
      <4> QED
        BY <4>1, <4>2 DEF Ph
    <3> QED
      BY <3>1, <3>2
  <2> QED
    BY <1>1, <1>2, <2>1
<1>5. ASSUME SectionsAhead(f), NEW p \in ShCells(f), NEW j \in 2..PhNum(f), f[p] = Shdr(Ph(f, j).off)
      PROVE  g[p] = f[p]
  <2>1. p \in Nat /\ p > PhNum(f) + 1 /\ p < Ph(f, j).off
    BY <1>5, SectionCells
  <2>2. Ph(f, j).off \in Nat /\ Ph(f, j).filesz \in Nat /\ Ph(f, j).off + Ph(f, j).filesz - 1 <= Len(f)
    BY <1>1, WellFormedFacts
  <2>3. p \in 1..Len(f)
    BY <1>1, <2>1, <2>2
  <2> QED
    BY <1>2, <1>5, <2>3 DEF Shdr
<1>6. /\ HeadersFollow(g, f) /\ PhNum(g) = PhNum(f)
      /\ \A j \in 1..PhNum(f) : Ph(g, j) = Ph(f, j)
  BY <1>2, <1>3, <1>4, <1>5, RewrittenFile
<1>7. WellFormed(g)
  BY <1>6 DEF HeadersFollow
<1>8. ASSUME NEW j \in 1..PhNum(f)
      PROVE  /\ Bytes(Data(f, j)) /\ Bytes(Data(g, j)) /\ Len(Data(g, j)) = Len(Data(f, j))
             /\ \A q \in 1..Len(Data(f, j)) :
                  \/ Data(g, j)[q] = Data(f, j)[q]
                  \/ Data(f, j)[q].kind = "slot" /\ Data(g, j)[q].kind = "slot"
  <2> DEFINE b == Ph(f, j).off
             m == Ph(f, j).filesz
  <2>1. b \in Nat \ {0} /\ m \in Nat /\ b + m - 1 <= Len(f)
    BY WellFormedFacts
  <2>2. /\ Bytes(Data(f, j)) /\ Len(Data(f, j)) = m
        /\ \A q \in 1..m : Data(f, j)[q] = f[b + q - 1]
    BY DataCells
  <2>3. /\ Bytes(Data(g, j)) /\ Len(Data(g, j)) = m
        /\ \A q \in 1..m : Data(g, j)[q] = g[b + q - 1]
    BY <1>6, <1>7, DataCells
  <2> HIDE DEF b, m
  <2>4. \A q \in 1..m : b + q - 1 \in 1..Len(f)
    BY <1>1, <2>1
  <2> QED
    BY <1>2, <2>2, <2>3, <2>4
<1>9. ASSUME NEW j \in 1..PhNum(f), \A q \in 1..Len(Data(f, j)) : Data(f, j)[q].kind # "slot"
      PROVE  Data(g, j) = Data(f, j)
  BY <1>8, <1>9, BytesEqual
<1>10. \A j \in 1..PhNum(f) : Neutral(Data(f, j), Data(g, j))
  BY <1>8 DEF Neutral
<1>11. \A j \in 1..PhNum(f) : \A q \in 1..Len(Data(f, j)) :
         \/ Data(g, j)[q] = Data(f, j)[q]
         \/ Data(f, j)[q].kind = "slot" /\ Data(g, j)[q].kind = "slot"
  BY <1>8
<1> QED
  BY <1>6, <1>9, <1>10, <1>11 DEF g

\* A size is set in the metadata, and nothing else changes.
ItemWritten(g, f, k, n) ==
  /\ HeadersFollow(g, f)
  /\ \A j \in 1..PhNum(f) : Ph(g, j) = Ph(f, j)
  /\ \A j \in 1..PhNum(f) : j # 2 => Data(g, j) = Data(f, j)
  /\ \A q \in 1..Ph(f, 2).filesz : q # k => Data(g, 2)[q] = Data(f, 2)[q]
  /\ Data(g, 2)[k] = WithSize(Data(f, 2)[k], n)

LEMMA ItemSizedFile ==
  ASSUME NEW f, WellFormed(f), 2 \in 1..PhNum(f), NEW k, k \in 1..Ph(f, 2).filesz, NEW n
  PROVE  ItemWritten(ItemSized(f, Ph(f, 2).off + k - 1, n), f, k, n)
<1> DEFINE b  == Ph(f, 2).off
           m  == Ph(f, 2).filesz
           at == b + k - 1
           g  == ItemSized(f, at, n)
<1>1. /\ Bytes(f) /\ Len(f) \in Nat /\ DOMAIN f = 1..Len(f)
      /\ PhNum(f) \in Nat \ {0} /\ PhNum(f) >= 2 /\ PhNum(f) + 1 <= Len(f)
      /\ b \in Nat \ {0} /\ b >= PhNum(f) + 2 /\ m \in Nat /\ b + m - 1 <= Len(f)
      /\ \A p \in 1..Len(f) : IsCell(f[p])
  <2>1. 2 \in 2..PhNum(f)
    OBVIOUS
  <2> QED
    BY <2>1, WellFormedFacts
<1>2. /\ \A j \in 1..PhNum(f) : j > 2 => b + m <= Ph(f, j).off
      /\ Ph(f, 1).off = 1 /\ Ph(f, 1).filesz = PhNum(f) + 1
      /\ \A j \in 1..PhNum(f) : Ph(f, j).off \in Nat \ {0} /\ Ph(f, j).filesz \in Nat
  BY WellFormedFacts
<1> HIDE DEF b, m
<1>3. k \in 1..m
  BY DEF m
<1>4. at \in 1..Len(f) /\ at > PhNum(f) + 1 /\ at <= b + m - 1 /\ at >= b
  BY <1>1, <1>3
<1>5. /\ Bytes(g) /\ Len(g) = Len(f)
      /\ \A p \in 1..Len(f) : g[p] = IF p = at THEN WithSize(f[p], n) ELSE f[p]
  <2>1. g = [f EXCEPT ![at] = WithSize(@, n)]
    BY DEF ItemSized
  <2> HIDE DEF at, g
  <2> QED
    BY <1>1, <1>4, <2>1, ExceptBytes
<1> HIDE DEF at, g
<1>6. \A p \in 1..Len(f) : IsCell(g[p])
  <2>1. \A c : IsCell(WithSize(c, n))
    BY DEF WithSize, Item, Cell, IsCell
  <2> QED
    BY <1>1, <1>5, <2>1
<1>7. \A p \in 1..(PhNum(f) + 1) : g[p] = f[p]
  BY <1>1, <1>4, <1>5
<1>8. ASSUME SectionsAhead(f), NEW p \in ShCells(f)
      PROVE  g[p] = f[p]
  <2>1. p \in Nat /\ p > PhNum(f) + 1 /\ p < b
    BY <1>1, <1>8, SectionCells DEF b
  <2> QED
    BY <1>1, <1>4, <1>5, <2>1
<1>9. /\ HeadersFollow(g, f) /\ PhNum(g) = PhNum(f)
      /\ \A j \in 1..PhNum(f) : Ph(g, j) = Ph(f, j)
  BY <1>5, <1>6, <1>7, <1>8, RewrittenFile
<1>10. WellFormed(g)
  BY <1>9 DEF HeadersFollow
<1>11. ASSUME NEW j \in 1..PhNum(f), j # 2
       PROVE  Data(g, j) = Data(f, j)
  <2> SUFFICES ASSUME NEW q \in 1..Ph(f, j).filesz
               PROVE  g[Ph(f, j).off + q - 1] = f[Ph(f, j).off + q - 1]
    BY <1>9, <1>10, DataEqual
  <2> DEFINE p == Ph(f, j).off + q - 1
  <2>1. p \in 1..Len(f) /\ p # at
    <3>1. Ph(f, j).off + Ph(f, j).filesz - 1 <= Len(f)
      BY WellFormedFacts
    <3>2. p \in 1..Len(f)
      <4>1. Ph(f, j).off \in Nat \ {0} /\ Ph(f, j).filesz \in Nat /\ Len(f) \in Nat
        BY <1>1, <1>2
      <4> QED
        BY <3>1, <4>1
    <3>3. CASE j = 1
      <4>1. p <= PhNum(f) + 1
        BY <1>1, <1>2, <3>3
      <4> HIDE DEF p
      <4> QED
        BY <1>1, <1>4, <3>2, <4>1
    <3>4. CASE j > 2
      <4>1. p >= b + m
        BY <1>1, <1>2, <3>4
      <4> QED
        BY <1>1, <1>4, <3>2, <4>1
    <3> QED
      BY <1>11, <3>2, <3>3, <3>4
  <2> HIDE DEF p
  <2>2. g[p] = f[p]
    BY <1>5, <2>1
  <2> QED
    BY <2>2 DEF p
<1>12. ASSUME NEW q \in 1..m
       PROVE  Data(g, 2)[q] = IF q = k THEN WithSize(Data(f, 2)[q], n) ELSE Data(f, 2)[q]
  <2>1. Data(f, 2)[q] = f[b + q - 1]
    BY DataCells DEF b, m
  <2>2. Data(g, 2)[q] = g[b + q - 1]
    BY <1>9, <1>10, DataCells DEF b, m
  <2>3. b + q - 1 \in 1..Len(f) /\ (b + q - 1 = at <=> q = k)
    BY <1>1, <1>3 DEF at
  <2> QED
    BY <1>5, <2>1, <2>2, <2>3
<1>13. k \in 1..m
  BY DEF m
<1>14. ItemWritten(g, f, k, n)
  BY <1>9, <1>11, <1>12, <1>13 DEF ItemWritten, m
<1> QED
  BY <1>14 DEF g, at, b

-----------------------------------------------------------------------------
(* Device trees.                                                            *)

\* The trees that the scan finds lie in the bytes, one behind the other.
LEMMA TreesFound ==
  ASSUME NEW b, Bytes(b)
  PROVE  /\ Trees(b) \subseteq 1..Len(b) /\ Len(b) \in Nat
         /\ \A p \in Trees(b) : b[p].kind = "tree" /\ p + b[p].size - 1 <= Len(b)
         /\ \A p, q \in Trees(b) : p < q => p + b[p].size <= q
<1>1. Len(b) \in Nat /\ DOMAIN b = 1..Len(b)
  BY BytesElim
<1>2. \A p \in Trees(b) : p \in 1..Len(b) /\ b[p].kind = "tree" /\ p + b[p].size - 1 <= Len(b)
  BY <1>1 DEF Trees, Whole
<1>3. ASSUME NEW p \in Trees(b), NEW q \in Trees(b), p < q
      PROVE  p + b[p].size <= q
  <2>1. p \in 1..(q - 1)
    BY <1>1, <1>2, <1>3
  <2>2. Whole(b, p)
    BY <1>2 DEF Whole
  <2> QED
    BY <2>1, <2>2 DEF Trees
<1> QED
  BY <1>1, <1>2, <1>3

\* A segment with a tree is not empty, and not one of plain data.
LEMMA TreeFound ==
  ASSUME NEW b, Bytes(b), Trees(b) # {}
  PROVE  Len(b) > 0 /\ \E p \in DOMAIN b : b[p].kind = "tree"
<1>1. PICK p \in Trees(b) : p \in 1..Len(b) /\ b[p].kind = "tree" /\ Len(b) \in Nat
  BY TreesFound
<1> QED
  BY <1>1, BytesElim

\* A patched tree is a tree at least as long, with the new value.
LEMMA PatchedTreeCells ==
  ASSUME NEW t, IsCell(t), t.kind = "tree", t.certs # <<>>, NEW v \in DOMAIN CertLen
  PROVE  LET s == PatchedTree(t, v)
         IN /\ Bytes(s) /\ Cellular(s) /\ Len(s) \in Nat /\ Len(s) >= t.size
            /\ s[1].kind = "tree" /\ s[1].size = Len(s)
            /\ s[1].id = t.id /\ s[1].certs # <<>> /\ s[1].certs[1] = v
            /\ \A p \in 2..Len(s) : s[p].kind # "tree"
<1>1. /\ t = Tree(t.id, t.certs, t.size, t.free)
      /\ t.size \in Nat \ {0} /\ t.free \in Nat /\ t.certs \in Seq(DOMAIN CertLen)
  BY DEF IsCell
<1>2. 1 \in 1..Len(t.certs) /\ t.certs[1] \in DOMAIN CertLen
  <2>1. Len(t.certs) \in Nat \ {0}
    BY <1>1, EmptySeq
  <2>2. 1 \in 1..Len(t.certs)
    BY <2>1
  <2> QED
    BY <1>1, <2>2, ElementOfSeq
<1> DEFINE need  == CertLen[v] - CertLen[t.certs[1]]
           more  == IF need <= t.free THEN 0 ELSE Extra(v)
           certs == [t.certs EXCEPT ![1] = v]
           new   == Tree(t.id, certs, t.size + more, t.free + more - need)
<1>3. CertLen[v] \in Nat /\ CertLen[t.certs[1]] \in Nat /\ ExtraSpace \in Nat
  BY <1>2, CertLengths
<1>4. need \in Int /\ need <= CertLen[v] /\ Extra(v) \in Nat /\ Extra(v) >= CertLen[v]
  BY <1>3 DEF Extra
<1>5. more \in Nat /\ t.size + more \in Nat \ {0} /\ t.free + more - need \in Nat
  <2> HIDE DEF need
  <2> QED
    BY <1>1, <1>3, <1>4
<1>6. certs \in Seq(DOMAIN CertLen)
  BY <1>1, <1>2, ExceptSeq
<1>15. certs # <<>> /\ certs[1] = v
  <2>1. Len(t.certs) \in Nat /\ DOMAIN t.certs = 1..Len(t.certs)
    BY <1>1, LenProperties
  <2>2. 1 \in DOMAIN certs /\ certs[1] = v
    BY <1>2, <2>1
  <2>3. DOMAIN <<>> = {}
    OBVIOUS
  <2> HIDE DEF certs
  <2> QED
    BY <2>2, <2>3
<1>7. SetCert(t, v) = new
  <2>1. SetCert(t, v) = [[[t EXCEPT !.certs = certs] EXCEPT !.size = t.size + more]
                              EXCEPT !.free = t.free + more - need]
    BY DEF SetCert
  <2> HIDE DEF certs, more, need
  <2>2. [t EXCEPT !.certs = certs] = Tree(t.id, certs, t.size, t.free)
    BY <1>1 DEF Tree
  <2>3. [Tree(t.id, certs, t.size, t.free) EXCEPT !.size = t.size + more]
          = Tree(t.id, certs, t.size + more, t.free)
    BY DEF Tree
  <2>4. [Tree(t.id, certs, t.size + more, t.free) EXCEPT !.free = t.free + more - need] = new
    BY DEF Tree
  <2> QED
    BY <2>1, <2>2, <2>3, <2>4
<1>8. /\ IsCell(new) /\ new.size = t.size + more
      /\ new.kind = "tree" /\ new.id = t.id /\ new.certs # <<>> /\ new.certs[1] = v
  <2> HIDE DEF certs, more, need
  <2> QED
    BY <1>5, <1>6, <1>15 DEF IsCell, Tree
<1> HIDE DEF new, certs, more, need
<1> DEFINE s == TreeCells(new)
<1>9. Bytes(s) /\ Len(s) = new.size /\ DOMAIN s = 1..new.size
  <2>1. new.size \in Nat
    BY <1>5, <1>8
  <2>2. s = [p \in 1..new.size |-> s[p]]
    BY DEF TreeCells
  <2> HIDE DEF s
  <2> QED
    BY <2>1, <2>2, BytesIntro
<1>10. \A p \in 1..new.size : s[p] = new \/ s[p] = Cell("body")
  BY DEF TreeCells
<1>11. IsCell(Cell("body"))
  BY DEF IsCell, Cell
<1>12. Cellular(s)
  <2> HIDE DEF s
  <2> QED
    BY <1>8, <1>9, <1>10, <1>11 DEF Cellular
<1>13. PatchedTree(t, v) = s
  BY <1>7 DEF PatchedTree
<1>14. Len(s) \in Nat /\ Len(s) >= t.size
  <2> HIDE DEF s
  <2> QED
    BY <1>1, <1>5, <1>8, <1>9
<1>16. s[1] = new /\ \A p \in 2..new.size : s[p].kind # "tree"
  <2>1. new.size \in Nat \ {0}
    BY <1>5, <1>8
  <2> QED
    BY <2>1 DEF TreeCells, Cell
<1> QED
  BY <1>8, <1>9, <1>12, <1>13, <1>14, <1>16

\* The heads of trees in some bytes; bytes in which the scan finds each of them.
Heads(b) == {p \in DOMAIN b : b[p].kind = "tree"}
Clean(b) == Heads(b) \subseteq Trees(b)

\* A tree that is what it was, or one with the property that has it still.
TreeKept(s, t, may) ==
  \/ t = s
  \/ may /\ t.id = s.id /\ s.certs # <<>> /\ t.certs # <<>>

\* The trees of c are those of b, in their order: what lies between them may move.
Grown(b, c, may) ==
  /\ Clean(c)
  /\ \E h \in [Trees(b) -> Trees(c)] :
       /\ \A q \in Trees(c) : \E p \in Trees(b) : h[p] = q
       /\ \A p, q \in Trees(b) : p < q => h[p] < h[q]
       /\ \A p \in Trees(b) : TreeKept(b[p], c[h[p]], may)

LEMMA CleanTrees ==
  ASSUME NEW b, Bytes(b)
  PROVE  /\ Trees(b) \subseteq Heads(b)
         /\ (\A p \in Heads(b) : /\ p + b[p].size - 1 <= Len(b)
                                 /\ \A q \in Heads(b) : p < q => p + b[p].size <= q)
              => Clean(b)
<1>1. Trees(b) \subseteq Heads(b)
  BY DEF Trees, Heads, Whole
<1>2. ASSUME \A p \in Heads(b) : /\ p + b[p].size - 1 <= Len(b)
                                 /\ \A q \in Heads(b) : p < q => p + b[p].size <= q,
             NEW p \in Heads(b)
      PROVE  p \in Trees(b)
  <2>1. Len(b) \in Nat /\ DOMAIN b = 1..Len(b)
    BY BytesElim
  <2>2. p \in 1..Len(b) /\ Whole(b, p)
    BY <1>2, <2>1 DEF Heads, Whole
  <2>3. ASSUME NEW q \in 1..(p - 1), Whole(b, q)
        PROVE  q + b[q].size <= p
    <3>1. q \in 1..Len(b) /\ q < p
      BY <2>1, <2>2
    <3>2. q \in Heads(b)
      BY <2>1, <2>3, <3>1 DEF Heads, Whole
    <3> QED
      BY <1>2, <3>1, <3>2
  <2> QED
    BY <2>1, <2>2, <2>3 DEF Trees
<1> QED
  BY <1>1, <1>2 DEF Clean

LEMMA GrownItself ==
  ASSUME NEW b, Bytes(b), Clean(b), NEW may
  PROVE  Grown(b, b, may)
<1> DEFINE h == [p \in Trees(b) |-> p]
<1>1. h \in [Trees(b) -> Trees(b)]
  OBVIOUS
<1>2. \A p \in Trees(b) : h[p] = p /\ TreeKept(b[p], b[h[p]], may)
  BY DEF TreeKept
<1> HIDE DEF h
<1> QED
  BY <1>1, <1>2 DEF Grown

LEMMA GrownTransitive ==
  ASSUME NEW a, NEW b, NEW c, NEW may, Grown(a, b, may), Grown(b, c, may)
  PROVE  Grown(a, c, may)
<1>1. PICK g \in [Trees(a) -> Trees(b)] :
        /\ \A q \in Trees(b) : \E p \in Trees(a) : g[p] = q
        /\ \A p, q \in Trees(a) : p < q => g[p] < g[q]
        /\ \A p \in Trees(a) : TreeKept(a[p], b[g[p]], may)
  BY DEF Grown
<1>2. PICK h \in [Trees(b) -> Trees(c)] :
        /\ \A q \in Trees(c) : \E p \in Trees(b) : h[p] = q
        /\ \A p, q \in Trees(b) : p < q => h[p] < h[q]
        /\ \A p \in Trees(b) : TreeKept(b[p], c[h[p]], may)
  BY DEF Grown
<1> DEFINE f == [p \in Trees(a) |-> h[g[p]]]
<1>3. f \in [Trees(a) -> Trees(c)]
  BY <1>1, <1>2
<1>4. \A p \in Trees(a) : f[p] = h[g[p]]
  OBVIOUS
<1> HIDE DEF f
<1>5. \A q \in Trees(c) : \E p \in Trees(a) : f[p] = q
  BY <1>1, <1>2, <1>4
<1>6. \A p, q \in Trees(a) : p < q => f[p] < f[q]
  BY <1>1, <1>2, <1>4
<1>7. ASSUME NEW p \in Trees(a)
      PROVE  TreeKept(a[p], c[f[p]], may)
  <2>1. TreeKept(a[p], b[g[p]], may) /\ TreeKept(b[g[p]], c[h[g[p]]], may)
    BY <1>1, <1>2
  <2> QED
    BY <1>4, <2>1 DEF TreeKept
<1> QED
  BY <1>3, <1>5, <1>6, <1>7 DEF Grown

LEMMA NeutralGrown ==
  ASSUME NEW b, NEW c, Bytes(b), Bytes(c), Clean(b), Neutral(b, c), NEW may
  PROVE  Trees(c) = Trees(b) /\ Grown(b, c, may) /\ \A p \in Trees(b) : c[p] = b[p]
<1>1. /\ Len(b) \in Nat /\ DOMAIN b = 1..Len(b) /\ DOMAIN c = 1..Len(b) /\ Len(c) = Len(b)
      /\ \A p \in 1..Len(b) : c[p] = b[p] \/ (b[p].kind # "tree" /\ c[p].kind # "tree")
  BY BytesElim DEF Neutral
<1>2. Heads(c) = Heads(b) /\ \A p \in Heads(b) : c[p] = b[p]
  BY <1>1 DEF Heads
<1>3. Trees(b) = Heads(b)
  BY CleanTrees DEF Clean
<1>4. Clean(c)
  <2>1. \A p \in Heads(c) : /\ p + c[p].size - 1 <= Len(c)
                            /\ \A q \in Heads(c) : p < q => p + c[p].size <= q
    BY <1>1, <1>2, <1>3, TreesFound
  <2> QED
    BY <2>1, CleanTrees
<1>5. Trees(c) = Trees(b)
  BY <1>2, <1>3, <1>4, CleanTrees DEF Clean
<1> DEFINE h == [p \in Trees(b) |-> p]
<1>6. /\ h \in [Trees(b) -> Trees(c)]
      /\ \A p \in Trees(b) : h[p] = p /\ TreeKept(b[p], c[h[p]], may)
  BY <1>2, <1>3, <1>5 DEF TreeKept
<1> HIDE DEF h
<1>7. Grown(b, c, may)
  BY <1>4, <1>5, <1>6 DEF Grown
<1> QED
  BY <1>2, <1>3, <1>5, <1>7

LEMMA GrownMore ==
  ASSUME NEW b, NEW c, NEW may, Grown(b, c, may)
  PROVE  Grown(b, c, TRUE)
BY DEF Grown, TreeKept

LEMMA GrownPlaces ==
  ASSUME NEW b, NEW c, Bytes(b), Bytes(c), NEW may, Grown(b, c, may)
  PROVE  /\ Cardinality(Trees(c)) = Cardinality(Trees(b))
         /\ \A k \in 1..Cardinality(Trees(b)) :
              TreeKept(b[Nth(Trees(b), k)], c[Nth(Trees(c), k)], may)
<1>1. PICK h \in [Trees(b) -> Trees(c)] :
        /\ \A q \in Trees(c) : \E p \in Trees(b) : h[p] = q
        /\ \A p, q \in Trees(b) : p < q => h[p] < h[q]
        /\ \A p \in Trees(b) : TreeKept(b[p], c[h[p]], may)
  BY DEF Grown
<1>2. /\ Trees(b) \in SUBSET (1..Len(b)) /\ Trees(c) \in SUBSET (1..Len(c))
      /\ Len(b) \in Nat /\ Len(c) \in Nat
  BY TreesFound
<1>3. /\ Cardinality(Trees(c)) = Cardinality(Trees(b))
      /\ \A k \in 1..Cardinality(Trees(b)) : Nth(Trees(c), k) = h[Nth(Trees(b), k)]
  BY <1>1, <1>2, NthMapped
<1>4. \A k \in 1..Cardinality(Trees(b)) : Nth(Trees(b), k) \in Trees(b)
  BY <1>2, NthProperties
<1> QED
  BY <1>1, <1>3, <1>4

\* Where a tree is when the one at "at" has grown by "more".
Shifted(p, at, more) == IF p <= at THEN p ELSE p + more

\* A patched tree moves the trees behind it, and changes none of them.
PatchedAt(c, b, at, more, v) ==
  /\ Clean(c) /\ Bytes(c)
  /\ Trees(c) = {Shifted(p, at, more) : p \in Trees(b)}
  /\ \A p \in Trees(b) \ {at} : c[Shifted(p, at, more)] = b[p]
  /\ at \in Trees(c) /\ c[at].id = b[at].id /\ c[at].certs # <<>> /\ c[at].certs[1] = v

LEMMA PatchedTrees ==
  ASSUME NEW b, Bytes(b), Cellular(b), Clean(b), NEW at, at \in Trees(b), b[at].certs # <<>>,
         NEW v, v \in DOMAIN CertLen
  PROVE  LET new == PatchedTree(b[at], v)
         IN PatchedAt(Splice(b, at, b[at].size, new), b, at, Len(new) - b[at].size, v)
<1> DEFINE size  == b[at].size
           new   == PatchedTree(b[at], v)
           c     == Splice(b, at, size, new)
           add   == Len(new)
           more  == add - size
           to(p) == Shifted(p, at, more)
<1>1. Len(b) \in Nat /\ DOMAIN b = 1..Len(b) /\ Trees(b) = Heads(b)
  BY BytesElim, CleanTrees DEF Clean
<1>2. /\ at \in 1..Len(b) /\ at \in Nat \ {0} /\ b[at].kind = "tree" /\ at + size - 1 <= Len(b)
      /\ \A p, q \in Trees(b) : p < q => p + b[p].size <= q
      /\ \A p \in Trees(b) : p \in 1..Len(b) /\ p \in Nat /\ p + b[p].size - 1 <= Len(b)
  <2>1. \A p \in Trees(b) : p \in 1..Len(b) /\ b[p].kind = "tree" /\ p + b[p].size - 1 <= Len(b)
    BY TreesFound
  <2> QED
    BY <1>1, <2>1, TreesFound
<1>3. \A p \in Trees(b) : b[p].size \in Nat \ {0}
  BY <1>1, <1>2, TreesFound DEF Cellular, IsCell
<1>4. IsCell(b[at])
  BY <1>1, <1>2 DEF Cellular
<1>5. /\ Bytes(new) /\ add \in Nat /\ add >= size /\ size \in Nat \ {0}
      /\ new[1].kind = "tree" /\ new[1].size = add
      /\ new[1].id = b[at].id /\ new[1].certs # <<>> /\ new[1].certs[1] = v
      /\ \A p \in 2..add : new[p].kind # "tree"
  BY <1>2, <1>3, <1>4, PatchedTreeCells
<1> HIDE DEF new
<1>6. IsSplice(c, b, at, size, new)
  BY <1>2, <1>5, SpliceBytes
<1>7. /\ Bytes(c) /\ Len(c) = Len(b) - size + add
      /\ \A p \in 1..(at - 1) : c[p] = b[p]
      /\ \A p \in 1..add : c[at + p - 1] = new[p]
      /\ \A p \in (at + size)..Len(b) : c[p - size + add] = b[p]
  BY <1>6 DEF IsSplice
<1> HIDE DEF c, size, add
<1>8. DOMAIN c = 1..Len(c) /\ Len(c) \in Nat
  BY <1>7, BytesElim
<1>9. c[at] = new[1]
  <2>1. 1 \in 1..add /\ at + 1 - 1 = at
    BY <1>2, <1>5
  <2> QED
    BY <1>7, <2>1
<1>10. \A p \in Trees(b) : p < at \/ p = at \/ p >= at + size
  <2>1. ASSUME NEW p \in Trees(b)
        PROVE  p < at \/ p = at \/ p >= at + size
    <3>1. p \in Nat /\ at \in Nat
      BY <1>2
    <3>2. p > at => at + size <= p
      BY <1>2 DEF size
    <3> QED
      BY <1>5, <3>1, <3>2
  <2> QED
    BY <2>1
<1>11. ASSUME NEW p \in Trees(b)
       PROVE  /\ to(p) \in 1..Len(c) /\ to(p) \in Nat
              /\ p # at => c[to(p)] = b[p]
              /\ p = at => to(p) = at
              /\ p < at => to(p) = p
              /\ p > at => to(p) = p + add - size
  <2>1. CASE p < at
    <3>1. to(p) = p
      <4>1. p \in Nat /\ at \in Nat
        BY <1>2
      <4>2. p <= at
        BY <2>1, <4>1
      <4> QED
        BY <4>2 DEF Shifted
    <3>2. p \in 1..(at - 1) /\ p \in 1..Len(c)
      BY <1>2, <1>5, <1>7, <1>8, <2>1
    <3> HIDE DEF to
    <3> QED
      BY <1>2, <1>7, <2>1, <3>1, <3>2
  <2>2. CASE p = at
    <3>1. to(p) = at
      BY <1>2, <2>2 DEF Shifted
    <3>2. at \in 1..Len(c)
      BY <1>2, <1>5, <1>7, <1>8
    <3> HIDE DEF to
    <3> QED
      BY <1>2, <2>2, <3>1, <3>2
  <2>3. CASE p > at
    <3>1. to(p) = p + add - size
      BY <1>2, <1>5, <2>3 DEF Shifted
    <3>2. p \in (at + size)..Len(b) /\ p - size + add = p + add - size
      BY <1>1, <1>2, <1>5, <1>10, <2>3
    <3>3. p + add - size \in 1..Len(c) /\ p + add - size \in Nat
      BY <1>1, <1>2, <1>5, <1>7, <1>8, <3>2
    <3>4. c[p + add - size] = b[p]
      BY <1>7, <3>2
    <3> HIDE DEF to
    <3> QED
      BY <1>2, <2>3, <3>1, <3>3, <3>4
  <2> QED
    BY <1>2, <2>1, <2>2, <2>3
<1>12. ASSUME NEW p \in Trees(b)
       PROVE  to(p) \in Heads(c)
  BY <1>1, <1>5, <1>8, <1>9, <1>11 DEF Heads
<1>13. ASSUME NEW q \in Heads(c)
       PROVE  \E p \in Trees(b) : to(p) = q
  <2>1. q \in 1..Len(c) /\ c[q].kind = "tree"
    BY <1>8 DEF Heads
  <2>2. CASE q < at
    <3>1. q \in 1..(at - 1) /\ q \in 1..Len(b)
      BY <1>1, <1>2, <2>1, <2>2
    <3>2. q \in Trees(b)
      BY <1>1, <1>7, <2>1, <3>1 DEF Heads
    <3> QED
      BY <1>11, <2>2, <3>2
  <2>3. CASE q >= at /\ q < at + add
    <3>1. q - at + 1 \in 1..add /\ at + (q - at + 1) - 1 = q
      BY <1>2, <1>5, <2>1, <2>3
    <3>2. c[q] = new[q - at + 1]
      BY <1>7, <3>1
    <3>3. ~(q - at + 1 \in 2..add)
      BY <1>5, <2>1, <3>2
    <3>4. q = at
      BY <1>2, <1>5, <2>1, <3>1, <3>3
    <3> QED
      BY <1>11, <3>4
  <2>4. CASE q >= at + add
    <3> DEFINE p == q - add + size
    <3>1. p \in (at + size)..Len(b) /\ p - size + add = q /\ p > at /\ p \in 1..Len(b)
      BY <1>1, <1>2, <1>5, <1>7, <1>8, <2>1, <2>4
    <3>2. p + add - size = q
      BY <1>2, <1>5, <2>1
    <3> HIDE DEF p
    <3>3. b[p] = c[q]
      BY <1>7, <3>1
    <3>4. p \in Trees(b)
      BY <1>1, <2>1, <3>1, <3>3 DEF Heads
    <3> QED
      BY <1>11, <3>1, <3>2, <3>4
  <2> QED
    BY <1>2, <1>5, <2>1, <2>2, <2>3, <2>4
<1> HIDE DEF to
\* How far a tree of c reaches.
<1>14. ASSUME NEW p \in Trees(b)
       PROVE  /\ to(p) \in Nat /\ c[to(p)].size \in Nat
              /\ p < at => to(p) + c[to(p)].size = p + b[p].size
              /\ p >= at => to(p) + c[to(p)].size = p + b[p].size + add - size
  <2>1. p \in Nat /\ b[p].size \in Nat /\ add \in Nat /\ size \in Nat /\ at \in Nat
    BY <1>2, <1>3, <1>5
  <2>2. CASE p = at
    BY <1>5, <1>9, <1>11, <2>1, <2>2 DEF size
  <2>3. CASE p # at
    <3>1. c[to(p)] = b[p]
      BY <1>11, <2>3
    <3> QED
      BY <1>11, <2>1, <2>3, <3>1
  <2> QED
    BY <2>2, <2>3
<1>15. ASSUME NEW p \in Trees(b)
       PROVE  to(p) + c[to(p)].size - 1 <= Len(c)
  <2> DEFINE t == to(p)
             x == c[t].size
             y == b[p].size
  <2>1. /\ p \in Nat /\ y \in Nat /\ p + y - 1 <= Len(b)
        /\ add \in Nat /\ size \in Nat /\ at \in Nat /\ add >= size
    BY <1>2, <1>3, <1>5
  <2>2. /\ t \in Nat /\ x \in Nat
        /\ p < at => t + x = p + y
        /\ p >= at => t + x = p + y + add - size
    BY <1>14
  <2>3. Len(b) \in Nat /\ Len(c) \in Nat /\ Len(c) = Len(b) - size + add
    BY <1>1, <1>7, <1>8
  <2> HIDE DEF t, x, y
  <2>4. t + x - 1 <= Len(c)
    <3>1. CASE p < at
      BY <2>1, <2>2, <2>3, <3>1
    <3>2. CASE p >= at
      BY <2>1, <2>2, <2>3, <3>2
    <3> QED
      BY <2>1, <3>1, <3>2
  <2> QED
    BY <2>4 DEF t, x
<1>16. ASSUME NEW p \in Trees(b), NEW q \in Trees(b), p < q
       PROVE  to(p) < to(q) /\ to(p) + c[to(p)].size <= to(q)
  <2> DEFINE t == to(p)
             u == to(q)
             x == c[t].size
             y == b[p].size
  <2>1. /\ p \in Nat /\ q \in Nat /\ y \in Nat \ {0} /\ p + y <= q /\ p < q
        /\ add \in Nat /\ size \in Nat /\ at \in Nat /\ add >= size
    BY <1>2, <1>3, <1>5, <1>16
  <2>2. /\ t \in Nat /\ x \in Nat /\ u \in Nat
        /\ p < at => t + x = p + y
        /\ p >= at => t + x = p + y + add - size
    BY <1>11, <1>14
  <2>3. /\ p = at => t = at
        /\ p < at => t = p
        /\ p > at => t = p + add - size
        /\ q = at => u = at
        /\ q < at => u = q
        /\ q > at => u = q + add - size
    BY <1>11
  <2> HIDE DEF t, u, x, y
  <2>4. t < u /\ t + x <= u
    <3>1. CASE p < at
      BY <2>1, <2>2, <2>3, <3>1
    <3>2. CASE p >= at
      BY <2>1, <2>2, <2>3, <3>2
    <3> QED
      BY <2>1, <3>1, <3>2
  <2> QED
    BY <2>4 DEF t, u, x
<1>17. Clean(c) /\ Trees(c) = Heads(c)
  <2>1. ASSUME NEW x \in Heads(c)
        PROVE  /\ x + c[x].size - 1 <= Len(c)
               /\ \A y \in Heads(c) : x < y => x + c[x].size <= y
    <3>1. PICK p \in Trees(b) : to(p) = x
      BY <1>13
    <3>2. ASSUME NEW y \in Heads(c), x < y
          PROVE  x + c[x].size <= y
      <4>1. PICK q \in Trees(b) : to(q) = y
        BY <1>13
      <4>2. p < q
        <5>1. p \in Nat /\ q \in Nat /\ to(p) \in Nat /\ to(q) \in Nat
          BY <1>2, <1>11
        <5>2. ~(q < p) /\ ~(q = p)
          BY <1>16, <3>1, <3>2, <4>1, <5>1
        <5> QED
          BY <5>1, <5>2
      <4> QED
        BY <1>16, <3>1, <4>1, <4>2
    <3> QED
      BY <1>15, <3>1, <3>2
  <2>2. Clean(c)
    BY <1>7, <2>1, CleanTrees
  <2> QED
    BY <1>7, <2>2, CleanTrees DEF Clean
<1>18. Trees(c) = {to(p) : p \in Trees(b)}
  BY <1>12, <1>13, <1>17
<1>19. at \in Trees(c)
  BY <1>11, <1>18
<1>20. PatchedAt(c, b, at, more, v)
  BY <1>5, <1>7, <1>9, <1>11, <1>17, <1>18, <1>19 DEF PatchedAt, to
<1> QED
  BY <1>20 DEF c, size, new, add, more

LEMMA PatchedGrown ==
  ASSUME NEW b, Bytes(b), NEW c, NEW at, at \in Trees(b), b[at].certs # <<>>,
         NEW more, more \in Nat, NEW v, PatchedAt(c, b, at, more, v)
  PROVE  Grown(b, c, TRUE)
<1> DEFINE h == [p \in Trees(b) |-> Shifted(p, at, more)]
<1>1. \A p \in Trees(b) : p \in Nat
  BY TreesFound
<1>2. \A p \in Trees(b) : h[p] = Shifted(p, at, more)
  OBVIOUS
<1>3. h \in [Trees(b) -> Trees(c)] /\ \A q \in Trees(c) : \E p \in Trees(b) : h[p] = q
  BY DEF PatchedAt
<1>4. \A p, q \in Trees(b) : p < q => Shifted(p, at, more) < Shifted(q, at, more)
  BY <1>1 DEF Shifted
<1>5. ASSUME NEW p \in Trees(b)
      PROVE  TreeKept(b[p], c[Shifted(p, at, more)], TRUE)
  <2>1. CASE p = at
    <3>1. Shifted(p, at, more) = at
      BY <1>1, <2>1 DEF Shifted
    <3> QED
      BY <2>1, <3>1 DEF PatchedAt, TreeKept
  <2>2. CASE p # at
    BY <2>2 DEF PatchedAt, TreeKept
  <2> QED
    BY <2>1, <2>2
<1>6. Clean(c)
  BY DEF PatchedAt
<1> HIDE DEF h
<1> QED
  BY <1>2, <1>3, <1>4, <1>5, <1>6 DEF Grown

\* The trees with the property, by their place among the trees, and those of them
\* that have the value.
Carrying(b) == {k \in 1..Cardinality(Trees(b)) : b[Nth(Trees(b), k)].certs # <<>>}
WithValue(b, v) == {k \in Carrying(b) : b[Nth(Trees(b), k)].certs[1] = v}

LEMMA TreeRanks ==
  ASSUME NEW b, Bytes(b)
  PROVE  /\ \A k \in 1..Cardinality(Trees(b)) :
              Nth(Trees(b), k) \in Trees(b) /\ RankIn(Trees(b), Nth(Trees(b), k)) = k
         /\ \A p \in Trees(b) : /\ RankIn(Trees(b), p) \in 1..Cardinality(Trees(b))
                                /\ Nth(Trees(b), RankIn(Trees(b), p)) = p
<1>1. Len(b) \in Nat /\ Trees(b) \in SUBSET (1..Len(b))
  BY TreesFound
<1> QED
  BY <1>1, NthProperties

LEMMA GrownCarrying ==
  ASSUME NEW b, NEW c, Bytes(b), Bytes(c), NEW may, Grown(b, c, may)
  PROVE  Carrying(c) = Carrying(b)
BY GrownPlaces DEF Carrying, TreeKept

LEMMA NeutralRanks ==
  ASSUME NEW b, NEW c, Bytes(b), Bytes(c), Clean(b), Neutral(b, c), NEW v
  PROVE  Clean(c) /\ Carrying(c) = Carrying(b) /\ WithValue(c, v) = WithValue(b, v)
<1>1. Trees(c) = Trees(b) /\ (\A p \in Trees(b) : c[p] = b[p]) /\ Grown(b, c, TRUE)
  BY NeutralGrown
<1>2. \A k \in 1..Cardinality(Trees(b)) : c[Nth(Trees(b), k)] = b[Nth(Trees(b), k)]
  BY <1>1, TreeRanks
<1> QED
  BY <1>1, <1>2 DEF Carrying, WithValue, Grown

\* After a tree is patched it has the value, and the others are what they were.
PlacesPatched(c, b, at, more, v) ==
  /\ Cardinality(Trees(c)) = Cardinality(Trees(b))
  /\ \A k \in 1..Cardinality(Trees(b)) :
       Nth(Trees(c), k) = Shifted(Nth(Trees(b), k), at, more)
  /\ Carrying(c) = Carrying(b)
  /\ WithValue(c, v) = WithValue(b, v) \cup {RankIn(Trees(b), at)}

LEMMA PatchedRanks ==
  ASSUME NEW b, Bytes(b), NEW c, NEW at, at \in Trees(b), b[at].certs # <<>>,
         NEW more, more \in Nat, NEW v, PatchedAt(c, b, at, more, v)
  PROVE  PlacesPatched(c, b, at, more, v)
<1> DEFINE h == [p \in Trees(b) |-> Shifted(p, at, more)]
           n == RankIn(Trees(b), at)
<1>1. /\ Len(b) \in Nat /\ Trees(b) \in SUBSET (1..Len(b))
      /\ Len(c) \in Nat /\ Trees(c) \in SUBSET (1..Len(c))
  BY TreesFound DEF PatchedAt
<1>2. h \in [Trees(b) -> Trees(c)] /\ \A q \in Trees(c) : \E p \in Trees(b) : h[p] = q
  BY DEF PatchedAt
<1>3. \A p, q \in Trees(b) : p < q => h[p] < h[q]
  BY <1>1 DEF Shifted
<1>4. /\ Cardinality(Trees(c)) = Cardinality(Trees(b))
      /\ \A k \in 1..Cardinality(Trees(b)) : Nth(Trees(c), k) = h[Nth(Trees(b), k)]
  <2> HIDE DEF h
  <2> QED
    BY <1>1, <1>2, <1>3, NthMapped
<1>5. \A k \in 1..Cardinality(Trees(b)) : Nth(Trees(c), k) = Shifted(Nth(Trees(b), k), at, more)
  BY <1>4, TreeRanks
<1>6. n \in 1..Cardinality(Trees(b)) /\ Nth(Trees(b), n) = at
  BY TreeRanks
<1>7. Shifted(at, at, more) = at
  BY <1>1 DEF Shifted
<1>8. Nth(Trees(c), n) = at /\ c[at].certs # <<>> /\ c[at].certs[1] = v
  BY <1>5, <1>6, <1>7 DEF PatchedAt
<1>9. ASSUME NEW k \in 1..Cardinality(Trees(b)), k # n
      PROVE  c[Nth(Trees(c), k)] = b[Nth(Trees(b), k)]
  <2>1. Nth(Trees(b), k) \in Trees(b) \ {at}
    BY <1>6, <1>9, TreeRanks
  <2> QED
    BY <1>5, <2>1 DEF PatchedAt
<1> HIDE DEF n, h
<1>10. Carrying(c) = Carrying(b)
  BY <1>4, <1>6, <1>8, <1>9 DEF Carrying
<1>11. WithValue(c, v) = WithValue(b, v) \cup {n}
  BY <1>4, <1>6, <1>8, <1>9 DEF Carrying, WithValue
<1> QED
  BY <1>4, <1>5, <1>10, <1>11 DEF n, PlacesPatched

-----------------------------------------------------------------------------
(* The trees of a segment, by their ranks.                                  *)

\* The bytes from a place on.
IsSlice(s, f, at, n) ==
  Bytes(s) /\ Len(s) = n /\ \A q \in 1..n : s[q] = f[at + q - 1]

\* A slice of a file has the bytes from its place on.
LEMMA SliceCells ==
  ASSUME NEW f, Bytes(f), NEW at, at \in Nat \ {0}, NEW n, n \in Nat, at + n - 1 <= Len(f)
  PROVE  IsSlice(Slice(f, at, n), f, at, n)
<1>1. Len(f) \in Nat
  BY BytesElim
<1>2. at + n - 1 \in Nat /\ at <= at + n - 1 + 1 /\ at + n - 1 - at + 1 = n
  OBVIOUS
<1>3. /\ Bytes(Slice(f, at, n)) /\ Len(Slice(f, at, n)) = n
      /\ \A p \in 1..n : Slice(f, at, n)[p] = f[at + p - 1]
  BY <1>1, <1>2, SubSeqBytes DEF Slice
<1> QED
  BY <1>3 DEF IsSlice

\* The bytes of the k-th tree.  A segment may be one tree and nothing else.
TreeAt(b, k) == Slice(b, Nth(Trees(b), k), b[Nth(Trees(b), k)].size)
Fills(b)     == 1 \in Trees(b) /\ b[1].size = Len(b)

\* The bytes of a tree begin with the tree.
LEMMA TreeAtCells ==
  ASSUME NEW b, Bytes(b), Cellular(b), NEW k \in 1..Cardinality(Trees(b))
  PROVE  LET p == Nth(Trees(b), k)
         IN /\ p \in Trees(b) /\ p \in Nat \ {0} /\ b[p].kind = "tree" /\ b[p].size \in Nat \ {0}
            /\ Bytes(TreeAt(b, k)) /\ Len(TreeAt(b, k)) = b[p].size
            /\ TreeAt(b, k)[1] = b[p]
            /\ \A q \in 1..b[p].size : TreeAt(b, k)[q] = b[p + q - 1]
<1> DEFINE p == Nth(Trees(b), k)
<1>1. p \in Trees(b)
  BY TreeRanks
<1>2. p \in 1..Len(b) /\ b[p].kind = "tree" /\ p + b[p].size - 1 <= Len(b) /\ Len(b) \in Nat
  BY <1>1, TreesFound
<1>3. p \in DOMAIN b
  BY <1>2, BytesElim
<1>4. b[p].size \in Nat \ {0}
  BY <1>2, <1>3 DEF Cellular, IsCell
<1>5. TreeAt(b, k) = Slice(b, p, b[p].size)
  BY DEF TreeAt
<1> HIDE DEF p
<1>6. p \in Nat \ {0}
  BY <1>2
<1>7. /\ Bytes(TreeAt(b, k)) /\ Len(TreeAt(b, k)) = b[p].size
      /\ \A q \in 1..b[p].size : TreeAt(b, k)[q] = b[p + q - 1]
  <2> DEFINE n == b[p].size
  <2>1. n \in Nat /\ p + n - 1 <= Len(b)
    BY <1>2, <1>4
  <2> HIDE DEF n
  <2>2. IsSlice(Slice(b, p, n), b, p, n)
    BY <1>6, <2>1, SliceCells
  <2>3. IsSlice(TreeAt(b, k), b, p, b[p].size)
    BY <1>5, <2>2 DEF n
  <2> QED
    BY <2>3 DEF IsSlice
<1>8. TreeAt(b, k)[1] = b[p]
  <2>1. 1 \in 1..b[p].size /\ p + 1 - 1 = p
    BY <1>4, <1>6
  <2> QED
    BY <1>7, <2>1
<1> QED
  BY <1>1, <1>2, <1>4, <1>6, <1>7, <1>8 DEF p

\* Rank one belongs to a tree at the first place.
LEMMA FirstPlace ==
  ASSUME NEW b, Bytes(b), 1 \in Trees(b)
  PROVE  1 \in 1..Cardinality(Trees(b)) /\ Nth(Trees(b), 1) = 1
<1>1. Trees(b) \subseteq 1..Len(b) /\ Len(b) \in Nat
  BY TreesFound
<1>2. {p \in Trees(b) : p <= 1} = {1}
  <2>1. \A p \in Trees(b) : p <= 1 => p = 1
    BY <1>1
  <2> QED
    BY <2>1
<1>3. RankIn(Trees(b), 1) = 1
  BY <1>2, FS_Singleton DEF RankIn
<1> QED
  BY <1>3, TreeRanks

\* A tree by itself is one tree alone.
LEMMA AloneFills ==
  ASSUME NEW b, Bytes(b), Cellular(b), NEW k \in 1..Cardinality(Trees(b))
  PROVE  Fills(TreeAt(b, k))
<1> DEFINE t == TreeAt(b, k)
<1>1. Bytes(t) /\ Len(t) \in Nat \ {0} /\ t[1].kind = "tree" /\ t[1].size = Len(t)
  BY TreeAtCells
<1> HIDE DEF t
<1>2. 1 \in DOMAIN t
  BY <1>1, BytesElim
<1>3. Whole(t, 1)
  BY <1>1 DEF Whole
<1>4. 1..(1 - 1) = {}
  OBVIOUS
<1> QED
  BY <1>1, <1>2, <1>3, <1>4 DEF Fills, Trees, t

\* The one tree of a segment that it fills is the segment.
LEMMA FillsWhole ==
  ASSUME NEW b, Bytes(b), Cellular(b), Fills(b)
  PROVE  /\ 1 \in 1..Cardinality(Trees(b)) /\ Nth(Trees(b), 1) = 1
         /\ TreeAt(b, 1) = b
<1>1. 1 \in 1..Cardinality(Trees(b)) /\ Nth(Trees(b), 1) = 1 /\ b[1].size = Len(b)
  BY FirstPlace DEF Fills
<1>2. /\ Bytes(TreeAt(b, 1)) /\ Len(TreeAt(b, 1)) = Len(b)
      /\ \A q \in 1..Len(b) : TreeAt(b, 1)[q] = b[1 + q - 1]
  BY <1>1, TreeAtCells
<1>3. Len(b) \in Nat
  BY BytesElim
<1>4. \A q \in 1..Len(b) : 1 + q - 1 = q
  BY <1>3
<1>5. \A q \in 1..Len(TreeAt(b, 1)) : TreeAt(b, 1)[q] = b[q]
  BY <1>2, <1>4
<1> QED
  BY <1>1, <1>2, <1>5, BytesEqual

-----------------------------------------------------------------------------
(* A patched tree among the others.                                         *)

\* A patched tree takes the place of the one it was, the others keep their bytes, and
\* a tree that was the whole segment still is.
PiecesPatched(c, b, r, new) ==
  /\ TreeAt(c, r) = new
  /\ \A k \in 1..Cardinality(Trees(b)) : k # r => TreeAt(c, k) = TreeAt(b, k)
  /\ Fills(c) <=> Fills(b)

\* A tree that is patched in the middle of a segment.
LEMMA PatchedPieces ==
  ASSUME NEW b, Bytes(b), Cellular(b), Clean(b), NEW at, at \in Trees(b), b[at].certs # <<>>,
         NEW v, v \in DOMAIN CertLen
  PROVE  LET new == PatchedTree(b[at], v)
         IN PiecesPatched(Splice(b, at, b[at].size, new), b, RankIn(Trees(b), at), new)
<1> DEFINE size == b[at].size
           new  == PatchedTree(b[at], v)
           c    == Splice(b, at, size, new)
           add  == Len(new)
           more == add - size
           r    == RankIn(Trees(b), at)
<1>1. /\ Len(b) \in Nat /\ at \in 1..Len(b) /\ at \in Nat \ {0}
      /\ b[at].kind = "tree" /\ at + size - 1 <= Len(b)
      /\ Trees(b) \subseteq 1..Len(b)
      /\ \A p, q \in Trees(b) : p < q => p + b[p].size <= q
      /\ \A p \in Trees(b) : p + b[p].size - 1 <= Len(b) /\ b[p].size \in Nat \ {0}
  <2>1. DOMAIN b = 1..Len(b)
    BY BytesElim
  <2>2. \A p \in Trees(b) : p \in DOMAIN b /\ b[p].kind = "tree"
    BY <2>1, TreesFound
  <2>3. \A p \in Trees(b) : b[p].size \in Nat \ {0}
    BY <2>2 DEF Cellular, IsCell
  <2>4. /\ Trees(b) \subseteq 1..Len(b) /\ Len(b) \in Nat
        /\ \A p \in Trees(b) : b[p].kind = "tree" /\ p + b[p].size - 1 <= Len(b)
        /\ \A p, q \in Trees(b) : p < q => p + b[p].size <= q
    BY TreesFound
  <2>5. at \in 1..Len(b) /\ at \in Nat \ {0}
    BY <2>4
  <2> QED
    BY <2>3, <2>4, <2>5
<1>2. IsCell(b[at])
  <2>1. at \in DOMAIN b
    BY <1>1, BytesElim
  <2> QED
    BY <2>1 DEF Cellular
<1>3. /\ Bytes(new) /\ add \in Nat /\ add >= size /\ size \in Nat \ {0}
      /\ new[1].kind = "tree" /\ new[1].size = add /\ add \in Nat \ {0}
  BY <1>1, <1>2, PatchedTreeCells
<1>4. PatchedAt(c, b, at, more, v)
  BY PatchedTrees
<1>5. IsSplice(c, b, at, size, new)
  BY <1>1, <1>3, SpliceBytes
<1> HIDE DEF new, c, add, size
<1>6. /\ Bytes(c) /\ Len(c) = Len(b) - size + add
      /\ \A p \in 1..(at - 1) : c[p] = b[p]
      /\ \A p \in 1..add : c[at + p - 1] = new[p]
      /\ \A p \in (at + size)..Len(b) : c[p - size + add] = b[p]
  BY <1>5 DEF IsSplice, add
<1>7. PlacesPatched(c, b, at, more, v)
  <2>1. more \in Nat
    BY <1>3
  <2> HIDE DEF more
  <2> QED
    BY <1>4, <2>1, PatchedRanks
<1>8. /\ \A k \in 1..Cardinality(Trees(b)) : Nth(Trees(c), k) = Shifted(Nth(Trees(b), k), at, more)
      /\ Cardinality(Trees(c)) = Cardinality(Trees(b))
  BY <1>7 DEF PlacesPatched
<1>9. r \in 1..Cardinality(Trees(b)) /\ Nth(Trees(b), r) = at
  BY TreeRanks
<1>10. at \in Trees(c) /\ Len(c) \in Nat /\ c[at] = new[1]
  <2>1. 1 \in 1..add /\ at + 1 - 1 = at
    BY <1>1, <1>3
  <2>2. c[at] = new[1]
    BY <1>6, <2>1
  <2> QED
    BY <1>4, <1>6, <2>2, BytesElim DEF PatchedAt
<1>11. TreeAt(c, r) = new
  <2>1. Shifted(at, at, more) = at
    BY <1>1 DEF Shifted
  <2>2. TreeAt(c, r) = Slice(c, at, add)
    BY <1>3, <1>8, <1>9, <1>10, <2>1 DEF TreeAt
  <2>3. at + add - 1 <= Len(c)
    BY <1>1, <1>3, <1>6
  <2>4. IsSlice(Slice(c, at, add), c, at, add)
    BY <1>1, <1>3, <1>6, <2>3, SliceCells
  <2>5. /\ Bytes(TreeAt(c, r)) /\ Len(TreeAt(c, r)) = Len(new)
        /\ \A q \in 1..Len(TreeAt(c, r)) : TreeAt(c, r)[q] = new[q]
    BY <1>6, <2>2, <2>4 DEF IsSlice, add
  <2> QED
    BY <1>3, <2>5, BytesEqual
<1>12. ASSUME NEW k \in 1..Cardinality(Trees(b)), k # r
       PROVE  TreeAt(c, k) = TreeAt(b, k)
  <2> DEFINE p == Nth(Trees(b), k)
             q == Nth(Trees(c), k)
             n == b[p].size
  <2>1. p \in Trees(b) \ {at} /\ q = Shifted(p, at, more)
    BY <1>8, <1>9, <1>12, TreeRanks
  <2>2. c[q] = b[p]
    BY <1>4, <2>1 DEF PatchedAt
  <2>3. TreeAt(b, k) = Slice(b, p, n) /\ TreeAt(c, k) = Slice(c, q, n)
    BY <2>2 DEF TreeAt
  <2>4. /\ p \in Nat \ {0} /\ n \in Nat \ {0} /\ p + n - 1 <= Len(b)
        /\ p < at => p + n <= at
        /\ p > at => at + size <= p
    BY <1>1, <2>1 DEF size
  <2>5. p < at \/ p > at
    BY <1>1, <2>1, <2>4
  <2> HIDE DEF p, q, n
  <2>6. q \in Nat \ {0} /\ q + n - 1 <= Len(c) /\ \A x \in 1..n : c[q + x - 1] = b[p + x - 1]
    <3>1. CASE p < at
      <4>1. q = p
        BY <1>1, <2>1, <2>4, <3>1 DEF Shifted
      <4>2. q + n - 1 <= Len(c)
        BY <1>1, <1>3, <1>6, <2>4, <3>1, <4>1
      <4>3. \A x \in 1..n : p + x - 1 \in 1..(at - 1)
        BY <1>1, <2>4, <3>1
      <4> QED
        BY <1>6, <2>4, <4>1, <4>2, <4>3
    <3>2. CASE p > at
      <4>1. q = p + (add - size)
        BY <1>1, <2>1, <2>4, <3>2 DEF Shifted
      <4>2. q \in Nat \ {0} /\ q + n - 1 <= Len(c)
        BY <1>1, <1>3, <1>6, <2>4, <3>2, <4>1
      <4>3. ASSUME NEW x \in 1..n
            PROVE  c[q + x - 1] = b[p + x - 1]
        <5>1. p + x - 1 \in (at + size)..Len(b) /\ (p + x - 1) - size + add = q + x - 1
          <6>1. /\ x \in Nat /\ 1 <= x /\ x <= n /\ p \in Nat /\ n \in Nat /\ size \in Nat /\ add \in Nat
                /\ at \in Nat /\ Len(b) \in Nat /\ at + size <= p /\ p + n - 1 <= Len(b)
            BY <1>1, <1>3, <2>4, <3>2
          <6> QED
            BY <4>1, <6>1
        <5>2. c[(p + x - 1) - size + add] = b[p + x - 1]
          BY <1>6, <5>1
        <5> QED
          BY <5>1, <5>2
      <4> QED
        BY <4>2, <4>3
    <3> QED
      BY <2>5, <3>1, <3>2
  <2>7. IsSlice(Slice(b, p, n), b, p, n) /\ IsSlice(Slice(c, q, n), c, q, n)
    BY <1>6, <2>4, <2>6, SliceCells
  <2>8. /\ Bytes(Slice(b, p, n)) /\ Bytes(Slice(c, q, n))
        /\ Len(Slice(b, p, n)) = n /\ Len(Slice(c, q, n)) = n
        /\ \A x \in 1..n : Slice(c, q, n)[x] = Slice(b, p, n)[x]
    BY <2>6, <2>7 DEF IsSlice
  <2> QED
    BY <2>3, <2>8, BytesEqual
<1>13. Fills(c) <=> Fills(b)
  <2>1. ASSUME Fills(b)
        PROVE  Fills(c)
    <3>1. 1 \in Trees(b) /\ b[1].size = Len(b)
      BY <2>1 DEF Fills
    <3>2. at = 1
      <4>1. 1 < at => 1 + b[1].size <= at
        BY <1>1, <3>1
      <4> QED
        BY <1>1, <3>1, <4>1
    <3>3. c[1].size = add /\ Len(c) = add
      <4>1. c[1] = new[1] /\ size = Len(b)
        BY <1>10, <3>1, <3>2 DEF size
      <4>2. Len(c) = Len(b) - size + add /\ add \in Nat /\ Len(b) \in Nat
        BY <1>1, <1>3, <1>6
      <4> QED
        BY <1>3, <4>1, <4>2
    <3> QED
      BY <1>10, <3>2, <3>3 DEF Fills
  <2>2. ASSUME Fills(c)
        PROVE  Fills(b)
    <3>1. 1 \in Trees(c) /\ c[1].size = Len(c)
      BY <2>2 DEF Fills
    <3>2. at = 1
      <4>1. 1 < at => 1 + c[1].size <= at
        BY <1>6, <1>10, <3>1, TreesFound
      <4>2. at <= Len(c)
        BY <1>1, <1>3, <1>6
      <4> QED
        BY <1>1, <1>10, <3>1, <4>1, <4>2
    <3>3. size = Len(b)
      BY <1>1, <1>3, <1>6, <1>10, <3>1, <3>2
    <3> QED
      BY <3>2, <3>3 DEF Fills, size
  <2> QED
    BY <2>1, <2>2
<1> HIDE DEF r
<1>14. PiecesPatched(c, b, r, new)
  BY <1>11, <1>12, <1>13 DEF PiecesPatched
<1> QED
  BY <1>14 DEF c, new, r, size
=============================================================================
