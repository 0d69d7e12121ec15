-------------------------- MODULE PatchCertProofs --------------------------
(***************************************************************************)
(* Theorems about PatchCert, for every set of invocations, every image and *)
(* every table of certificates.  Its variables keep their types, its       *)
(* headers describe the file, and the segments it has no business with are *)
(* what they were: these three rest on IInv, which no step violates.  That *)
(* the trees of a segment are those it had, in their order, rests on TInv: *)
(* it adds to IInv the trees of every segment of the file and of the one   *)
(* in memory (TreesKept).  VInv adds the values in the trees and what of   *)
(* them reached the output, and RInv what the run reports: on them rest    *)
(* all or nothing of an .xz run, and that the run implements the contract. *)
(***************************************************************************)
EXTENDS PatchCert, ElfImageProofs

-----------------------------------------------------------------------------
(* The image a run starts from.                                             *)

LEMMA JobFacts ==
  ASSUME job \in Jobs
  PROVE  /\ Value \in DOMAIN CertLen
         /\ WellFormed(job.image)
         /\ HasMetadata(job.image) => ItemsAgree(job.image)
BY PatchConstants DEF Value

\* The metadata of an image that has one: its header counts the items, and those of
\* the segments that will be patched lie behind it.
LEMMA MetadataFacts ==
  ASSUME NEW f, WellFormed(f), HasMetadata(f)
  PROVE  /\ PhNum(f) \in Nat /\ PhNum(f) > 1 /\ Ph(f, 2).filesz \in Nat \ {0}
         /\ Data(f, 2)[1].kind = "meta" /\ Data(f, 2)[1].entries \in Nat
         /\ MetaTruncated(f) <=> Ph(f, 2).filesz < 1 + Data(f, 2)[1].entries
         /\ ItemSegments(f) \subseteq 3..PhNum(f)
         /\ ~MetaTruncated(f) => \A i \in ItemSegments(f) : i - 1 \in 2..Ph(f, 2).filesz
<1>1. PhNum(f) \in Nat /\ PhNum(f) > 1 /\ 2 \in 1..PhNum(f)
  BY WellFormedFacts DEF HasMetadata
<1>2. Ph(f, 2).filesz \in Nat /\ Len(Data(f, 2)) = Ph(f, 2).filesz
  BY <1>1, WellFormedFacts, DataCells
<1>3. Ph(f, 2).filesz \in Nat \ {0} /\ Data(f, 2)[1].kind = "meta"
  BY <1>2 DEF HasMetadata
<1>4. Data(f, 2)[1].entries \in Nat
  <2>1. /\ 1 \in 1..Ph(f, 2).filesz
        /\ Ph(f, 2).off \in Nat \ {0} /\ Len(f) \in Nat /\ Ph(f, 2).off + Ph(f, 2).filesz - 1 <= Len(f)
    BY <1>1, <1>3, WellFormedFacts
  <2>2. Data(f, 2)[1] = f[Ph(f, 2).off + 1 - 1]
    BY <1>1, <2>1, DataCells
  <2>3. Ph(f, 2).off + 1 - 1 \in 1..Len(f)
    BY <1>3, <2>1
  <2>4. IsCell(f[Ph(f, 2).off + 1 - 1])
    BY <2>3, WellFormedFacts
  <2> QED
    BY <1>3, <2>2, <2>4 DEF IsCell
<1>5. MetaTruncated(f) <=> Ph(f, 2).filesz < 1 + Data(f, 2)[1].entries
  BY <1>2 DEF MetaTruncated
<1>6. ItemSegments(f) \subseteq 3..PhNum(f)
  BY DEF ItemSegments
<1>7. ~MetaTruncated(f) => \A i \in ItemSegments(f) : i - 1 \in 2..Ph(f, 2).filesz
  BY <1>1, <1>2, <1>4, <1>5 DEF ItemSegments
<1> QED
  BY <1>1, <1>3, <1>4, <1>5, <1>6, <1>7

\* PH#0 holds no tree, and the cells of a bystander are data.
LEMMA NoTreeInHeaders ==
  ASSUME NEW f, WellFormed(f)
  PROVE  Trees(Data(f, 1)) = {}
<1>1. 1 \in 1..PhNum(f) /\ Ph(f, 1).off = 1 /\ PhNum(f) \in Nat /\ Ph(f, 1).filesz = PhNum(f) + 1
  BY WellFormedFacts
<1>2. ASSUME NEW q \in 1..(PhNum(f) + 1)
      PROVE  f[q].kind # "tree"
  <2>1. CASE q = 1
    <3>1. f[1] = Header(PhNum(f), f[1].shoff, f[1].shnum)
      BY WellFormedFacts
    <3>2. Header(PhNum(f), f[1].shoff, f[1].shnum).kind = "ehdr"
      BY DEF Header
    <3>3. f[1].kind = "ehdr"
      BY <3>1, <3>2
    <3> QED
      BY <2>1, <3>3
  <2>2. CASE q # 1
    <3>1. q - 1 \in 1..PhNum(f) /\ (q - 1) + 1 = q
      BY <1>1, <2>2
    <3>2. \E off, filesz, memsz, null : f[q] = Phdr(off, filesz, memsz, null)
      BY <3>1, WellFormedFacts DEF Ph
    <3> QED
      BY <3>2 DEF Phdr
  <2> QED
    BY <2>1, <2>2
<1>3. ASSUME NEW p \in DOMAIN Data(f, 1)
      PROVE  Data(f, 1)[p].kind # "tree"
  <2>1. p \in 1..Ph(f, 1).filesz /\ Data(f, 1)[p] = f[Ph(f, 1).off + p - 1]
    BY <1>1, DataCells
  <2>2. p \in 1..(PhNum(f) + 1) /\ Ph(f, 1).off + p - 1 = p
    BY <1>1, <2>1
  <2> QED
    BY <1>2, <2>1, <2>2
<1> QED
  BY <1>3 DEF Trees, Whole

LEMMA BystanderFacts ==
  ASSUME NEW f, WellFormed(f), NEW i \in Bystanders(f)
  PROVE  /\ i \in 2..PhNum(f)
         /\ \A q \in 1..Len(Data(f, i)) : Data(f, i)[q].kind = "data"
         /\ Trees(Data(f, i)) = {}
         /\ HasMetadata(f) => i # 2
<1>1. i \in 2..PhNum(f) /\ i \in 1..PhNum(f) /\ \A p \in DOMAIN Data(f, i) : Data(f, i)[p].kind = "data"
  BY WellFormedFacts DEF Bystanders
<1>2. DOMAIN Data(f, i) = 1..Len(Data(f, i)) /\ Len(Data(f, i)) \in Nat
  BY <1>1, DataCells, BytesElim
<1>3. Trees(Data(f, i)) = {}
  BY <1>1 DEF Trees, Whole
<1>4. HasMetadata(f) => i # 2
  BY <1>1, <1>2 DEF HasMetadata
<1> QED
  BY <1>1, <1>2, <1>3, <1>4

-----------------------------------------------------------------------------
(* A tree is replaced in the segment in memory.                             *)

LEMMA CurrentTree ==
  ASSUME Bytes(work), Cellular(work), TreesToGo, trees \subseteq Nat, trees # {}, delta \in Int
  PROVE  /\ Least(trees) \in trees /\ \A q \in trees : Least(trees) <= q
         /\ At \in Nat \ {0} /\ At <= Len(work) /\ Len(work) \in Nat
         /\ IsCell(Current) /\ Current.kind = "tree"
         /\ Current.size \in Nat \ {0} /\ At + Current.size - 1 <= Len(work)
<1>1. Least(trees) \in trees /\ \A q \in trees : Least(trees) <= q
  BY LeastProperties
<1>2. Len(work) \in Nat /\ DOMAIN work = 1..Len(work)
  BY BytesElim
<1>3. /\ At >= 1 /\ At <= Len(work) /\ Current.kind = "tree"
      /\ At + Current.size - 1 <= Len(work)
  BY <1>1 DEF TreesToGo, At, Current
<1>4. At \in Nat \ {0}
  <2>1. Least(trees) \in Nat
    BY <1>1
  <2>2. At \in Int
    BY <2>1 DEF At
  <2> QED
    BY <1>3, <2>2
<1>5. IsCell(Current)
  BY <1>2, <1>3, <1>4 DEF Cellular, Current
<1>6. Current.size \in Nat \ {0}
  BY <1>3, <1>5 DEF IsCell
<1> QED
  BY <1>1, <1>2, <1>3, <1>4, <1>5, <1>6

\* The trees behind the one that was patched are where delta says.
LEMMA NewWorkFacts ==
  ASSUME Bytes(work), Cellular(work), TreesToGo, trees \subseteq Nat, trees # {}, delta \in Int,
         Current.certs # <<>>, Value \in DOMAIN CertLen
  PROVE  /\ Bytes(NewWork) /\ Cellular(NewWork)
         /\ Len(NewWork) \in Nat /\ Len(NewWork) >= Len(work)
         /\ delta + Len(NewTree) - Current.size \in Int
         /\ \A p \in trees \ {Least(trees)} :
              /\ p + (delta + Len(NewTree) - Current.size) >= 1
              /\ NewWork[p + (delta + Len(NewTree) - Current.size)] = work[p + delta]
              /\ p + (delta + Len(NewTree) - Current.size) <= Len(NewWork)
              /\ p + (delta + Len(NewTree) - Current.size) + work[p + delta].size - 1 <= Len(NewWork)
<1> DEFINE size == Current.size
           add  == Len(NewTree)
<1>1. /\ Least(trees) \in trees /\ \A q \in trees : Least(trees) <= q
      /\ At \in Nat \ {0} /\ At <= Len(work) /\ Len(work) \in Nat
      /\ IsCell(Current) /\ Current.kind = "tree"
      /\ size \in Nat \ {0} /\ At + size - 1 <= Len(work)
  BY CurrentTree
<1>2. Bytes(NewTree) /\ Cellular(NewTree) /\ add \in Nat /\ add >= size
  BY <1>1, PatchedTreeCells DEF NewTree
<1>3. IsSplice(NewWork, work, At, size, NewTree)
  BY <1>1, <1>2, SpliceBytes DEF NewWork
<1>4. /\ Bytes(NewWork) /\ Len(NewWork) = Len(work) - size + add
      /\ \A p \in 1..(At - 1) : NewWork[p] = work[p]
      /\ \A p \in 1..add : NewWork[At + p - 1] = NewTree[p]
      /\ \A p \in (At + size)..Len(work) : NewWork[p - size + add] = work[p]
  BY <1>3 DEF IsSplice
<1>5. DOMAIN NewWork = 1..Len(NewWork) /\ DOMAIN NewTree = 1..add /\ DOMAIN work = 1..Len(work)
  BY <1>2, <1>4, BytesElim
<1>6. Len(NewWork) \in Nat /\ Len(NewWork) >= Len(work)
  BY <1>1, <1>2, <1>4
<1> HIDE DEF add, size
<1>7. ASSUME NEW p \in 1..Len(NewWork)
      PROVE  IsCell(NewWork[p])
  <2>1. CASE p < At
    BY <1>1, <1>4, <1>5, <2>1 DEF Cellular
  <2>2. CASE p >= At /\ p < At + add
    <3>1. p - At + 1 \in 1..add /\ At + (p - At + 1) - 1 = p
      BY <1>1, <1>2, <2>2
    <3>2. NewWork[p] = NewTree[p - At + 1]
      BY <1>4, <3>1
    <3> QED
      BY <1>2, <1>5, <3>1, <3>2 DEF Cellular
  <2>3. CASE p >= At + add
    <3>1. p + size - add \in (At + size)..Len(work) /\ (p + size - add) - size + add = p
      BY <1>1, <1>2, <1>4, <2>3
    <3>2. NewWork[p] = work[p + size - add]
      BY <1>4, <3>1
    <3>3. p + size - add \in DOMAIN work
      BY <1>1, <1>5, <3>1
    <3> QED
      BY <3>2, <3>3 DEF Cellular
  <2> QED
    BY <1>1, <1>2, <2>1, <2>2, <2>3
<1>8. Cellular(NewWork)
  BY <1>5, <1>7 DEF Cellular
<1>9. delta + add - size \in Int
  BY <1>1, <1>2
<1>10. ASSUME NEW p \in trees \ {Least(trees)}
       PROVE  /\ p + (delta + add - size) >= 1
              /\ NewWork[p + (delta + add - size)] = work[p + delta]
              /\ p + (delta + add - size) <= Len(NewWork)
              /\ p + (delta + add - size) + work[p + delta].size - 1 <= Len(NewWork)
  <2>1. p \in Nat /\ Least(trees) \in Nat /\ Least(trees) < p
    <3>1. p \in Nat /\ Least(trees) \in Nat /\ p # Least(trees) /\ Least(trees) <= p
      BY <1>1
    <3> QED
      BY <3>1
  <2>2. Least(trees) + size <= p
    <3>1. Least(trees) + work[Least(trees) + delta].size <= p
      BY <1>1, <2>1 DEF TreesToGo
    <3> QED
      BY <3>1 DEF size, Current, At
  <2>3. /\ p + delta <= Len(work) /\ work[p + delta].kind = "tree"
        /\ p + delta + work[p + delta].size - 1 <= Len(work)
    BY DEF TreesToGo
  <2>4. p + delta \in (At + size)..Len(work) /\ (p + delta) - size + add = p + (delta + add - size)
    BY <1>1, <1>2, <2>1, <2>2, <2>3 DEF At
  <2>5. NewWork[p + (delta + add - size)] = work[p + delta]
    BY <1>4, <2>4
  <2>6. IsCell(work[p + delta])
    BY <1>1, <1>5, <2>4 DEF Cellular
  <2>7. work[p + delta].size \in Nat
    BY <2>3, <2>6 DEF IsCell
  <2>8. p + (delta + add - size) >= 1
    BY <1>1, <1>2, <2>1, <2>4
  <2>9. /\ p + (delta + add - size) <= Len(NewWork)
        /\ p + (delta + add - size) + work[p + delta].size - 1 <= Len(NewWork)
    <3>1. Len(NewWork) = Len(work) - size + add
      BY <1>4
    <3>2. ASSUME NEW n \in Nat, p + delta + n - 1 <= Len(work)
          PROVE  p + (delta + add - size) + n - 1 <= Len(NewWork)
      BY <1>1, <1>2, <2>1, <3>1, <3>2
    <3>3. p + (delta + add - size) <= Len(NewWork)
      BY <1>1, <1>2, <2>1, <2>3, <3>1
    <3> QED
      BY <2>3, <2>7, <3>2, <3>3
  <2> QED
    BY <2>5, <2>8, <2>9
<1> QED
  BY <1>4, <1>6, <1>8, <1>9, <1>10 DEF size, add

-----------------------------------------------------------------------------
(* _replace_ph.                                                             *)

\* What a segment may change: its own cells and size, the item for it, and digests.
Replaced(g, f, i, bytes) ==
  LET n == Len(bytes) IN
  /\ HeadersFollow(g, f)
  /\ \A j \in 1..PhNum(f) : j # i => Ph(g, j).filesz = Ph(f, j).filesz
  /\ Ph(g, i).filesz = n
  /\ SectionsAhead(f) =>
       /\ \A j \in 3..PhNum(f) :
            j # i /\ (\A q \in 1..Len(Data(f, j)) : Data(f, j)[q].kind # "slot")
              => Data(g, j) = Data(f, j)
       /\ \A q \in 1..Ph(f, 2).filesz :
            /\ q # i - 1 /\ Data(f, 2)[q].kind # "slot" => Data(g, 2)[q] = Data(f, 2)[q]
            /\ q = i - 1 /\ Data(f, 2)[q].kind = "item" => Data(g, 2)[q] = Item(n)
       /\ Data(f, 2)[i - 1].kind = "item" =>
            /\ \A j \in 2..PhNum(f) : j # i => Neutral(Data(f, j), Data(g, j))
            /\ Neutral(bytes, Data(g, i))

LEMMA ReplacePhFile ==
  ASSUME NEW f, WellFormed(f), NEW i, i \in 3..PhNum(f), Ph(f, i).filesz > 0,
         i - 1 \in 1..Ph(f, 2).filesz,
         NEW bytes, Bytes(bytes), Cellular(bytes)
  PROVE  Replaced(ReplacePh(f, i, bytes), f, i, bytes)
<1> DEFINE n      == Len(bytes)
           grow   == n - Ph(f, i).filesz
           padded == ZeroPadded(bytes, -grow)
           sized  == Resegmented(f, i, padded, n, grow)
           items  == ItemSized(sized, Ph(f, 2).off + i - 2, n)
           own    == DigestsReplaced(items, <<<<Data(f, i), bytes>>>>, 1, Len(items))
           sides  == <<SidePair(f, own, 1), SidePair(f, own, 2)>>
           g      == DigestsReplaced(own, Picked(sides, {s \in 1..2 : sides[s][1] # <<>>}), 1, Len(own))
<1>1. /\ PhNum(f) \in Nat /\ i \in 2..PhNum(f) /\ i \in 1..PhNum(f) /\ 2 \in 1..PhNum(f) /\ 2 # i /\ 2 < i
      /\ Ph(f, i).filesz \in Nat /\ Ph(f, 2).off \in Nat /\ Ph(f, 2).filesz \in Nat /\ n \in Nat
  <2>1. PhNum(f) \in Nat
    BY WellFormedFacts
  <2>2. i \in 2..PhNum(f) /\ i \in 1..PhNum(f) /\ 2 \in 1..PhNum(f) /\ 2 # i /\ 2 < i
    BY <2>1
  <2>3. n \in Nat
    BY BytesElim
  <2> QED
    BY <2>1, <2>2, <2>3, WellFormedFacts
<1>2. /\ Bytes(padded) /\ Cellular(padded) /\ Len(padded) >= Ph(f, i).filesz /\ n \in 0..Len(padded)
      /\ \A q \in 1..n : padded[q] = bytes[q]
  <2>1. -grow \in Int
    BY <1>1
  <2>2. /\ Bytes(padded) /\ Len(padded) = n + (IF -grow > 0 THEN -grow ELSE 0)
        /\ \A p \in 1..Len(padded) : padded[p] = IF p <= n THEN bytes[p] ELSE Cell("zero")
    BY <2>1, ZeroPaddedBytes
  <2>3. /\ Len(padded) >= Ph(f, i).filesz /\ n \in 0..Len(padded)
        /\ \A q \in 1..n : q \in 1..Len(padded) /\ q <= n
    BY <1>1, <2>2
  <2>4. DOMAIN padded = 1..Len(padded) /\ DOMAIN bytes = 1..n
    BY <2>2, BytesElim
  <2>5. IsCell(Cell("zero"))
    BY DEF IsCell, Cell
  <2> HIDE DEF padded, n
  <2>6. ASSUME NEW p \in 1..Len(padded)
        PROVE  IsCell(padded[p])
    <3>1. CASE p <= n
      <4>1. p \in DOMAIN bytes
        BY <1>1, <2>2, <2>4, <3>1, BytesElim
      <4> QED
        BY <2>2, <3>1, <4>1 DEF Cellular
    <3>2. CASE ~(p <= n)
      BY <2>2, <2>5, <3>2
    <3> QED
      BY <3>1, <3>2
  <2> QED
    BY <2>2, <2>3, <2>4, <2>6 DEF Cellular
<1>3. /\ HeadersFollow(sized, f) /\ Ph(sized, 2).off = Ph(f, 2).off
      /\ \A j \in 1..PhNum(f) : Ph(sized, j).filesz = IF j = i THEN n ELSE Ph(f, j).filesz
      /\ SectionsAhead(f) => \A j \in 2..PhNum(f) : j # i => Data(sized, j) = Data(f, j)
      /\ SectionsAhead(f) => \A q \in 1..n : Data(sized, i)[q] = padded[q]
  <2>1. grow \in Int
    BY <1>1
  <2> HIDE DEF padded, n, grow
  <2>2. SegmentReplaced(sized, f, i, padded, n)
    BY <1>1, <1>2, <2>1, ResegmentedFile
  <2> HIDE DEF sized
  <2> QED
    BY <1>1, <2>2 DEF SegmentReplaced
<1> HIDE DEF sized, n
<1>4. /\ WellFormed(sized) /\ PhNum(sized) = PhNum(f) /\ 2 \in 1..PhNum(sized)
      /\ Ph(sized, 2).filesz = Ph(f, 2).filesz /\ i - 1 \in 1..Ph(sized, 2).filesz
      /\ Ph(f, 2).off + i - 2 = Ph(sized, 2).off + (i - 1) - 1
  BY <1>1, <1>3 DEF HeadersFollow
<1>5. items = ItemSized(sized, Ph(sized, 2).off + (i - 1) - 1, n)
  BY <1>4
<1> HIDE DEF items
<1>6. /\ HeadersFollow(items, sized)
      /\ \A j \in 1..PhNum(f) : Ph(items, j) = Ph(sized, j)
      /\ \A j \in 1..PhNum(f) : j # 2 => Data(items, j) = Data(sized, j)
      /\ \A q \in 1..Ph(f, 2).filesz :
           Data(items, 2)[q] = IF q = i - 1 THEN WithSize(Data(sized, 2)[q], n) ELSE Data(sized, 2)[q]
  <2>1. ItemWritten(items, sized, i - 1, n)
    BY <1>4, <1>5, ItemSizedFile
  <2> QED
    BY <1>4, <2>1 DEF ItemWritten
<1>7. WellFormed(items) /\ PhNum(items) = PhNum(f)
  BY <1>4, <1>6 DEF HeadersFollow
<1> HIDE DEF own
<1>8. /\ HeadersFollow(own, items)
      /\ \A j \in 1..PhNum(f) : Ph(own, j) = Ph(items, j)
      /\ \A j \in 1..PhNum(f) : \A q \in 1..Len(Data(items, j)) :
           Data(items, j)[q].kind # "slot" => Data(own, j)[q] = Data(items, j)[q]
      /\ \A j \in 1..PhNum(f) :
           (\A q \in 1..Len(Data(items, j)) : Data(items, j)[q].kind # "slot")
             => Data(own, j) = Data(items, j)
      /\ \A j \in 1..PhNum(f) : Neutral(Data(items, j), Data(own, j))
  BY <1>7, DigestsFile DEF own
<1>9. WellFormed(own) /\ PhNum(own) = PhNum(f)
  BY <1>7, <1>8 DEF HeadersFollow
<1> HIDE DEF g
<1>10. /\ HeadersFollow(g, own)
       /\ \A j \in 1..PhNum(f) : Ph(g, j) = Ph(own, j)
       /\ \A j \in 1..PhNum(f) : \A q \in 1..Len(Data(own, j)) :
            Data(own, j)[q].kind # "slot" => Data(g, j)[q] = Data(own, j)[q]
       /\ \A j \in 1..PhNum(f) :
            (\A q \in 1..Len(Data(own, j)) : Data(own, j)[q].kind # "slot")
              => Data(g, j) = Data(own, j)
       /\ \A j \in 1..PhNum(f) : Neutral(Data(own, j), Data(g, j))
  BY <1>9, DigestsFile DEF g
<1>11. HeadersFollow(g, f)
  <2>1. HeadersFollow(items, f)
    BY <1>3, <1>6, FollowsTransitive
  <2>2. HeadersFollow(own, f)
    BY <1>8, <2>1, FollowsTransitive
  <2> QED
    BY <1>10, <2>2, FollowsTransitive
<1>12. \A j \in 1..PhNum(f) : Ph(g, j).filesz = IF j = i THEN n ELSE Ph(f, j).filesz
  BY <1>3, <1>6, <1>8, <1>10
<1>13. ASSUME SectionsAhead(f), NEW j \in 3..PhNum(f), j # i,
              \A q \in 1..Len(Data(f, j)) : Data(f, j)[q].kind # "slot"
       PROVE  Data(g, j) = Data(f, j)
  <2>1. j \in 2..PhNum(f) /\ j \in 1..PhNum(f) /\ j # 2
    BY <1>1
  <2>2. Data(sized, j) = Data(f, j)
    BY <1>3, <1>13, <2>1
  <2>3. Data(items, j) = Data(f, j)
    BY <1>6, <2>1, <2>2
  <2>4. Data(own, j) = Data(f, j)
    BY <1>8, <1>13, <2>1, <2>3
  <2> QED
    BY <1>10, <1>13, <2>1, <2>4
<1>14. ASSUME NEW q \in 1..Ph(f, 2).filesz, Data(items, 2)[q].kind # "slot"
       PROVE  Data(g, 2)[q] = Data(items, 2)[q]
  <2>1. Ph(items, 2).filesz = Ph(f, 2).filesz /\ Ph(own, 2).filesz = Ph(f, 2).filesz
    BY <1>1, <1>4, <1>6, <1>8
  <2>2. q \in 1..Len(Data(items, 2)) /\ q \in 1..Len(Data(own, 2))
    BY <1>1, <1>7, <1>9, <2>1, DataCells
  <2>3. Data(own, 2)[q] = Data(items, 2)[q]
    BY <1>1, <1>8, <1>14, <2>2
  <2> QED
    BY <1>1, <1>10, <1>14, <2>2, <2>3
<1>15. ASSUME SectionsAhead(f), NEW q \in 1..Ph(f, 2).filesz
       PROVE  /\ q # i - 1 /\ Data(f, 2)[q].kind # "slot" => Data(g, 2)[q] = Data(f, 2)[q]
              /\ q = i - 1 /\ Data(f, 2)[q].kind = "item" => Data(g, 2)[q] = Item(n)
  <2>1. Data(sized, 2) = Data(f, 2)
    BY <1>1, <1>3, <1>15
  <2>2. CASE q # i - 1
    BY <1>6, <1>14, <2>1, <2>2
  <2>3. CASE q = i - 1 /\ Data(f, 2)[q].kind = "item"
    <3>1. Data(items, 2)[q] = Item(n)
      BY <1>6, <2>1, <2>3 DEF WithSize
    <3>2. Item(n).kind # "slot"
      BY DEF Item
    <3> QED
      BY <1>14, <2>3, <3>1, <3>2
  <2> QED
    BY <2>2, <2>3
<1>16. ASSUME NEW j \in 1..PhNum(f), Neutral(Data(f, j), Data(items, j))
       PROVE  Neutral(Data(f, j), Data(g, j))
  BY <1>8, <1>10, <1>16, NeutralTransitive
<1>17. ASSUME SectionsAhead(f), Data(f, 2)[i - 1].kind = "item", NEW j \in 2..PhNum(f), j # i
       PROVE  Neutral(Data(f, j), Data(g, j))
  <2>1. j \in 1..PhNum(f) /\ Data(sized, j) = Data(f, j) /\ Data(sized, 2) = Data(f, 2)
    BY <1>1, <1>3, <1>17
  <2>2. CASE j # 2
    <3>1. Data(items, j) = Data(f, j)
      BY <1>6, <2>1, <2>2
    <3> QED
      BY <1>16, <2>1, <3>1 DEF Neutral
  <2>3. CASE j = 2
    <3>1. Len(Data(items, 2)) = Ph(f, 2).filesz /\ Len(Data(f, 2)) = Ph(f, 2).filesz
      <4>1. Ph(items, 2).filesz = Ph(f, 2).filesz
        BY <1>1, <1>4, <1>6
      <4> QED
        BY <1>1, <1>7, <4>1, DataCells
    <3>2. ASSUME NEW q \in 1..Ph(f, 2).filesz
          PROVE  \/ Data(items, 2)[q] = Data(f, 2)[q]
                 \/ Data(f, 2)[q].kind # "tree" /\ Data(items, 2)[q].kind # "tree"
      BY <1>6, <1>17, <2>1 DEF WithSize, Item
    <3>3. Neutral(Data(f, 2), Data(items, 2))
      BY <3>1, <3>2 DEF Neutral
    <3> QED
      BY <1>16, <2>1, <2>3, <3>3
  <2> QED
    BY <2>2, <2>3
<1>18. ASSUME SectionsAhead(f)
       PROVE  Neutral(bytes, Data(g, i))
  <2>1. Data(sized, i) = bytes
    <3>1. Ph(sized, i).filesz = n /\ WellFormed(sized) /\ PhNum(sized) = PhNum(f)
      BY <1>1, <1>3, <1>4
    <3>2. Bytes(Data(sized, i)) /\ Len(Data(sized, i)) = n
      BY <1>1, <3>1, DataCells
    <3>3. \A q \in 1..n : Data(sized, i)[q] = bytes[q]
      BY <1>2, <1>3, <1>18
    <3> QED
      BY <3>2, <3>3, BytesEqual DEF n
  <2>2. Data(items, i) = bytes
    BY <1>1, <1>6, <2>1
  <2> QED
    BY <1>1, <1>8, <1>10, <2>2, NeutralTransitive
<1>19. ReplacePh(f, i, bytes) = g
  BY DEF ReplacePh, g, own, items, sized, n
<1>20. Replaced(g, f, i, bytes)
  BY <1>1, <1>11, <1>12, <1>13, <1>15, <1>17, <1>18 DEF Replaced, n
<1> QED
  BY <1>19, <1>20

-----------------------------------------------------------------------------
(* The inductive invariant.                                                 *)

LEMMA InitIInv == Init => IInv
<1> SUFFICES ASSUME Init
             PROVE  IInv
  OBVIOUS
<1>1. /\ job \in Jobs /\ raw = job.image /\ pc = "open" /\ elfType = None
      /\ left = {} /\ work = <<>> /\ trees = {} /\ delta = 0 /\ pairs = <<>>
  BY DEF Init
<1>2. None \notin {"uefi_dtbs", "xbl_config"}
  BY PatchConstants
<1>3. WellFormed(raw)
  BY <1>1, JobFacts
<1>4. TypeOK
  <2>1. Bytes(raw)
    BY <1>3, WellFormedFacts
  <2>2. Bytes(work)
    <3>1. <<>> \in Seq({})
      OBVIOUS
    <3> QED
      BY <1>1, <3>1, BytesOfSeq
  <2>3. tally \in [patched : Nat, errors : Nat] /\ out = OldOutput /\ status = "running"
    BY DEF Init
  <2> QED
    BY <1>1, <2>1, <2>2, <2>3 DEF TypeOK
<1>5. SegmentsToGo /\ MetadataKept
  BY <1>1, <1>2 DEF SegmentsToGo, MetadataKept
<1>6. HeadersAgree
  BY <1>1, <1>2, <1>3, FollowsItself DEF HeadersAgree
<1>7. OthersIntact
  BY <1>1 DEF OthersIntact
<1> QED
  BY <1>4, <1>5, <1>6, <1>7 DEF IInv

\* What IInv says of the files.
LEMMA FileFacts ==
  ASSUME IInv
  PROVE  /\ job \in Jobs /\ WellFormed(job.image) /\ WellFormed(raw)
         /\ PhNum(raw) = PhNum(job.image) /\ PhNum(raw) \in Nat
         /\ SectionsAhead(job.image) => SectionsAhead(raw)
         /\ left \subseteq 2..PhNum(raw) /\ left \subseteq Nat
         /\ left # {} => Target \in left
<1>1. job \in Jobs /\ WellFormed(job.image)
  BY JobFacts DEF IInv, TypeOK
<1>2. /\ WellFormed(raw) /\ PhNum(raw) = PhNum(job.image)
      /\ SectionsAhead(job.image) => SectionsAhead(raw)
  BY DEF IInv, HeadersAgree, HeadersFollow
<1>3. PhNum(raw) \in Nat
  BY <1>2, WellFormedFacts
<1>4. left \subseteq 2..PhNum(raw) /\ left \subseteq Nat
  BY <1>2 DEF IInv, SegmentsToGo, TypeOK
<1>5. left # {} => Target \in left
  BY <1>4, LeastProperties DEF Target
<1> QED
  BY <1>1, <1>2, <1>3, <1>4, <1>5

\* A step that leaves the file alone and looks at no segment again.
LEMMA FileKept ==
  ASSUME IInv, UNCHANGED <<raw, job, elfType>>, left' \subseteq left, pc # "done"
  PROVE  /\ HeadersAgree' /\ OthersIntact' /\ MetadataKept'
         /\ left' \subseteq 2..PhNum(job'.image) /\ left' \in SUBSET Nat
         /\ elfType' = "uefi_dtbs" => /\ left' \cap Bystanders(job'.image) = {}
                                      /\ \A i \in left' : Ph(raw', i).filesz > 0
<1>1. HeadersAgree' /\ OthersIntact'
  BY DEF IInv, HeadersAgree, OthersIntact
<1>2. MetadataKept'
  BY DEF IInv, MetadataKept
<1>3. /\ left' \subseteq 2..PhNum(job'.image) /\ left' \in SUBSET Nat
      /\ elfType' = "uefi_dtbs" => /\ left' \cap Bystanders(job'.image) = {}
                                   /\ \A i \in left' : Ph(raw', i).filesz > 0
  BY DEF IInv, SegmentsToGo, TypeOK
<1> QED
  BY <1>1, <1>2, <1>3

\* A step after which no segment is read.
LEMMA SegmentsDone ==
  ASSUME IInv, UNCHANGED <<job, elfType, raw, segment, tally>>, pc # "done",
         pc' \in {"write", "verdict", "publish", "done"},
         out' = out \/ out' = Torn \/ out' = [by |-> "run", image |-> raw],
         status' \in {"running", "ok", "failed"}
  PROVE  IInv'
<1>1. UNCHANGED <<left, work, trees, delta, pairs>>
  BY DEF segment
<1>2. TypeOK'
  <2>1. Bytes(raw) /\ Bytes(work) /\ (out = Torn \/ out = OldOutput \/ (out.by = "run" /\ Bytes(out.image)))
    BY DEF IInv, TypeOK
  <2>2. out' = Torn \/ out' = OldOutput' \/ (out'.by = "run" /\ Bytes(out'.image))
    <3>1. OldOutput' = OldOutput
      BY DEF OldOutput
    <3>2. CASE out' = out
      BY <2>1, <3>1, <3>2
    <3>3. CASE out' = [by |-> "run", image |-> raw]
      BY <2>1, <3>3
    <3> QED
      BY <3>2, <3>3
  <2> QED
    BY <1>1, <2>1, <2>2 DEF IInv, TypeOK
<1>3. /\ HeadersAgree' /\ OthersIntact' /\ MetadataKept'
      /\ left' \subseteq 2..PhNum(job'.image)
      /\ elfType' = "uefi_dtbs" => /\ left' \cap Bystanders(job'.image) = {}
                                   /\ \A i \in left' : Ph(raw', i).filesz > 0
  BY <1>1, FileKept
<1>4. SegmentsToGo'
  BY <1>3 DEF SegmentsToGo
<1> QED
  BY <1>2, <1>3, <1>4 DEF IInv

LEMMA OpenIInv ==
  ASSUME IInv, OpenUefiDtbs \/ OpenXblConfig
  PROVE  IInv'
<1>1. /\ pc = "open" /\ raw = job.image /\ elfType = None /\ left = {}
      /\ None \notin {"uefi_dtbs", "xbl_config"}
  BY PatchConstants DEF IInv, SegmentsToGo, OpenUefiDtbs, OpenXblConfig
<1>2. /\ job \in Jobs /\ WellFormed(raw) /\ PhNum(raw) \in Nat
  BY FileFacts
<1>3. UNCHANGED <<job, raw, work, trees, delta, pairs, tally, out>>
  BY DEF OpenUefiDtbs, OpenXblConfig
<1>4. OthersIntact'
  BY <1>3 DEF IInv, OthersIntact
<1>5. ASSUME pc' \in {"segment", "done"}, elfType' \in {"uefi_dtbs", "xbl_config"},
             left' \in SUBSET Nat, status' \in {"running", "ok", "failed"}
      PROVE  TypeOK'
  BY <1>3, <1>5 DEF IInv, TypeOK, OldOutput
<1>6. CASE OpenUefiDtbs
  <2>1. elfType' = "uefi_dtbs" /\ pc' = "segment" /\ status' = status
    BY <1>6 DEF OpenUefiDtbs
  <2>2. left' = {i \in 1..PhNum(raw) : Trees(Data(raw, i)) # {}}
    BY <1>6 DEF OpenUefiDtbs
  <2>3. 1 \notin left'
    BY <1>2, <2>2, NoTreeInHeaders
  <2>4. left' \subseteq 2..PhNum(raw) /\ left' \in SUBSET Nat
    <3>1. ASSUME NEW i \in left'
          PROVE  i \in 2..PhNum(raw) /\ i \in Nat
      <4>1. i \in 1..PhNum(raw) /\ i # 1
        BY <2>2, <2>3
      <4> QED
        BY <1>2, <4>1
    <3> QED
      BY <3>1
  <2>5. ASSUME NEW i \in left'
        PROVE  i \notin Bystanders(raw) /\ Ph(raw, i).filesz > 0
    <3>1. i \in 1..PhNum(raw) /\ Trees(Data(raw, i)) # {}
      BY <2>2
    <3>2. i \notin Bystanders(raw)
      BY <1>2, <3>1, BystanderFacts
    <3>3. Bytes(Data(raw, i)) /\ Len(Data(raw, i)) = Ph(raw, i).filesz
      BY <1>2, <3>1, DataCells
    <3>4. Len(Data(raw, i)) > 0
      BY <3>1, <3>3, TreeFound
    <3> QED
      BY <3>2, <3>3, <3>4
  <2>6. TypeOK'
    BY <1>5, <2>1, <2>4 DEF IInv, TypeOK
  <2>7. SegmentsToGo'
    BY <1>1, <1>3, <2>1, <2>4, <2>5 DEF SegmentsToGo
  <2>8. MetadataKept'
    BY <2>1 DEF MetadataKept
  <2>9. HeadersAgree'
    BY <1>3, <2>1 DEF IInv, HeadersAgree
  <2> QED
    BY <1>4, <2>6, <2>7, <2>8, <2>9 DEF IInv
<1>7. CASE OpenXblConfig
  <2>1. elfType' = "xbl_config" /\ HasMetadata(raw)
    BY <1>7 DEF OpenXblConfig
  <2>2. \/ MetaTruncated(raw) /\ pc' = "done" /\ status' = "failed" /\ left' = left
        \/ ~MetaTruncated(raw) /\ pc' = "segment" /\ status' = status /\ left' = ItemSegments(raw)
    BY <1>7 DEF OpenXblConfig, End
  <2>3. left' \subseteq ItemSegments(raw) /\ pc' \in {"segment", "done"}
    BY <1>1, <2>2
  <2>4. ItemSegments(raw) \subseteq 3..PhNum(raw)
    BY <1>2, <2>1, MetadataFacts
  <2>5. left' \subseteq 2..PhNum(raw) /\ left' \in SUBSET Nat
    <3>1. ASSUME NEW i \in left'
          PROVE  i \in 2..PhNum(raw) /\ i \in Nat
      <4>1. i \in 3..PhNum(raw)
        BY <2>3, <2>4
      <4> QED
        BY <1>2, <4>1
    <3> QED
      BY <3>1
  <2>6. TypeOK'
    BY <1>5, <2>1, <2>2, <2>5 DEF IInv, TypeOK
  <2>7. SegmentsToGo'
    BY <1>1, <1>3, <2>1, <2>3, <2>5 DEF SegmentsToGo
  <2>8. MetadataKept'
    BY <1>1, <1>3, <2>1, <2>2, <2>3 DEF MetadataKept
  <2>9. HeadersAgree'
    <3>1. ItemsAgree(raw)
      BY <1>1, <1>2, <2>1, JobFacts
    <3> QED
      BY <1>3, <3>1 DEF IInv, HeadersAgree
  <2> QED
    BY <1>4, <2>6, <2>7, <2>8, <2>9 DEF IInv
<1> QED
  BY <1>6, <1>7

LEMMA ReadSegmentIInv ==
  ASSUME IInv, ReadSegment
  PROVE  IInv'
<1>1. /\ pc = "segment" /\ left # {} /\ pc' = "tree"
      /\ work' = Data(raw, Target) /\ trees' = Trees(work') /\ delta' = 0 /\ pairs' = <<>>
      /\ UNCHANGED <<job, elfType, raw, left, tally, out, status>>
  BY DEF ReadSegment
<1>2. /\ job \in Jobs /\ WellFormed(job.image) /\ WellFormed(raw)
      /\ PhNum(raw) = PhNum(job.image) /\ PhNum(raw) \in Nat
      /\ Target \in left /\ left \subseteq 2..PhNum(raw) /\ left \subseteq Nat
  BY <1>1, FileFacts
<1>3. Target \in 1..PhNum(raw) /\ Target' = Target
  <2>1. Target' = Target
    BY <1>1 DEF Target
  <2> QED
    BY <1>2, <2>1
<1>4. /\ Bytes(work') /\ Len(work') = Ph(raw, Target).filesz /\ Len(work') \in Nat
      /\ DOMAIN work' = 1..Len(work')
  BY <1>1, <1>2, <1>3, DataCells, BytesElim
<1>5. Cellular(work')
  <2>1. ASSUME NEW p \in 1..Len(work')
        PROVE  IsCell(work'[p])
    <3>1. work'[p] = raw[Ph(raw, Target).off + p - 1]
      BY <1>1, <1>2, <1>3, <1>4, DataCells
    <3>2. /\ Ph(raw, Target).off \in Nat \ {0} /\ Len(raw) \in Nat
          /\ Ph(raw, Target).off + Ph(raw, Target).filesz - 1 <= Len(raw)
      BY <1>2, <1>3, WellFormedFacts
    <3>3. Ph(raw, Target).off + p - 1 \in 1..Len(raw)
      BY <1>4, <3>2
    <3> QED
      BY <1>2, <3>1, <3>3, WellFormedFacts
  <2> QED
    BY <1>4, <2>1 DEF Cellular
<1>6. Bytes(pairs') /\ Len(pairs') = 0
  <2>1. <<>> \in Seq({})
    OBVIOUS
  <2> QED
    BY <1>1, <2>1, BytesOfSeq
<1>7. /\ trees' \subseteq 1..Len(work')
      /\ \A p \in trees' : work'[p].kind = "tree" /\ p + work'[p].size - 1 <= Len(work')
      /\ \A p, q \in trees' : p < q => p + work'[p].size <= q
  BY <1>1, <1>4, TreesFound
<1>8. TreesToGo'
  <2>1. \A p \in trees' : p \in Nat \ {0} /\ p <= Len(work') /\ p + 0 = p
    BY <1>4, <1>7
  <2> QED
    BY <1>1, <1>7, <2>1 DEF TreesToGo
<1>9. TypeOK'
  <2>1. tally.patched \in Nat /\ trees' \in SUBSET Nat
    BY <1>4, <1>7 DEF IInv, TypeOK
  <2> QED
    BY <1>1, <1>4, <1>6, <2>1 DEF IInv, TypeOK, OldOutput
<1>10. /\ HeadersAgree' /\ OthersIntact' /\ MetadataKept'
       /\ left' \subseteq 2..PhNum(job'.image)
       /\ elfType' = "uefi_dtbs" => /\ left' \cap Bystanders(job'.image) = {}
                                    /\ \A i \in left' : Ph(raw', i).filesz > 0
  BY <1>1, FileKept
<1>11. SectionsAhead(job.image) /\ trees' # {} => Target \notin Bystanders(job.image)
  <2> SUFFICES ASSUME SectionsAhead(job.image), Target \in Bystanders(job.image)
               PROVE  trees' = {}
    OBVIOUS
  <2>1. Data(raw, Target) = Data(job.image, Target)
    BY DEF IInv, OthersIntact
  <2> QED
    BY <1>1, <1>2, <2>1, BystanderFacts
<1>12. SegmentRead'
  <2>1. Len(work') >= Ph(raw', Target').filesz /\ Len(work') <= Ph(raw', Target').filesz
    BY <1>1, <1>3, <1>4
  <2> QED
    BY <1>1, <1>3, <1>5, <1>6, <1>8, <1>11, <2>1 DEF SegmentRead
<1>13. SegmentsToGo'
  BY <1>1, <1>10, <1>12 DEF IInv, SegmentsToGo
<1> QED
  BY <1>9, <1>10, <1>13 DEF IInv

\* What IInv says while the trees of a segment are patched.
LEMMA TreeFacts ==
  ASSUME IInv, pc = "tree"
  PROVE  /\ Bytes(work) /\ Cellular(work) /\ Len(work) \in Nat
         /\ TreesToGo /\ trees \subseteq Nat /\ delta \in Int
         /\ Bytes(pairs) /\ Len(pairs) \in Nat /\ Len(pairs) <= tally.patched
         /\ tally \in [patched : Nat, errors : Nat]
         /\ left # {} /\ Target \in left /\ Target \in 1..PhNum(raw) /\ Target \in 2..PhNum(raw)
         /\ Ph(raw, Target).filesz \in Nat
         /\ elfType = "uefi_dtbs"  => /\ Ph(raw, Target).filesz > 0
                                      /\ Len(work) >= Ph(raw, Target).filesz
                                      /\ Target \notin Bystanders(job.image)
         /\ elfType = "xbl_config" => delta = 0 /\ Len(work) <= Ph(raw, Target).filesz
         /\ SectionsAhead(job.image) /\ trees # {} => Target \notin Bystanders(job.image)
<1>1. SegmentRead /\ left # {}
  BY DEF IInv, SegmentsToGo
<1>2. Target \in left /\ Target \in 2..PhNum(raw) /\ WellFormed(raw) /\ PhNum(raw) \in Nat
  BY <1>1, FileFacts
<1>3. Target \in 1..PhNum(raw) /\ Ph(raw, Target).filesz \in Nat
  BY <1>2, WellFormedFacts
<1>4. /\ Bytes(work) /\ Cellular(work) /\ TreesToGo /\ trees \subseteq Nat /\ delta \in Int
      /\ Bytes(pairs) /\ Len(pairs) <= tally.patched /\ tally \in [patched : Nat, errors : Nat]
  BY <1>1 DEF IInv, TypeOK, SegmentRead
<1>5. Len(work) \in Nat /\ Len(pairs) \in Nat
  BY <1>4, BytesElim
<1>6. elfType = "uefi_dtbs"  => /\ Ph(raw, Target).filesz > 0
                               /\ Target \notin Bystanders(job.image)
  BY <1>2 DEF IInv, SegmentsToGo
<1> QED
  BY <1>1, <1>2, <1>3, <1>4, <1>5, <1>6 DEF SegmentRead

\* A tree is passed over.
LEMMA SkipIInv ==
  ASSUME IInv, SkipTree \/ TreeFails
  PROVE  IInv'
<1>1. /\ pc = "tree" /\ trees' = trees \ {Least(trees)} /\ trees # {}
      /\ UNCHANGED <<pc, job, elfType, raw, left, work, delta, pairs, out, status>>
  BY DEF SkipTree, TreeFails
<1>2. /\ tally \in [patched : Nat, errors : Nat]
      /\ trees \subseteq Nat
  BY <1>1, TreeFacts
<1>3. tally' \in [patched : Nat, errors : Nat] /\ tally'.patched = tally.patched
  BY <1>2 DEF SkipTree, TreeFails
<1>4. TypeOK'
  BY <1>1, <1>2, <1>3 DEF IInv, TypeOK, OldOutput
<1>5. SegmentRead'
  <2>1. SegmentRead /\ Target' = Target
    BY <1>1 DEF IInv, SegmentsToGo, Target
  <2>2. TreesToGo'
    BY <1>1, <2>1 DEF SegmentRead, TreesToGo
  <2> QED
    BY <1>1, <2>1, <2>2 DEF SegmentRead
<1>6. /\ HeadersAgree' /\ OthersIntact' /\ MetadataKept'
      /\ left' \subseteq 2..PhNum(job'.image)
      /\ elfType' = "uefi_dtbs" => /\ left' \cap Bystanders(job'.image) = {}
                                   /\ \A i \in left' : Ph(raw', i).filesz > 0
  BY <1>1, FileKept
<1>7. SegmentsToGo'
  BY <1>1, <1>5, <1>6 DEF IInv, SegmentsToGo
<1> QED
  BY <1>4, <1>6, <1>7 DEF IInv

LEMMA PatchUefiTreeIInv ==
  ASSUME IInv, PatchUefiTree
  PROVE  IInv'
<1> DEFINE moved == delta + Len(NewTree) - Current.size
<1>1. /\ pc = "tree" /\ trees # {} /\ elfType = "uefi_dtbs" /\ Current.certs # <<>>
      /\ work' = NewWork /\ delta' = moved /\ trees' = trees \ {Least(trees)}
      /\ pairs' = Append(pairs, <<Slice(work, At, Current.size), NewTree>>)
      /\ tally' = [tally EXCEPT !.patched = @ + 1]
      /\ UNCHANGED <<pc, job, elfType, raw, left, out, status>>
  BY DEF PatchUefiTree
<1>2. /\ Bytes(work) /\ Cellular(work) /\ Len(work) \in Nat
      /\ TreesToGo /\ trees \subseteq Nat /\ delta \in Int
      /\ Bytes(pairs) /\ Len(pairs) \in Nat /\ Len(pairs) <= tally.patched
      /\ tally \in [patched : Nat, errors : Nat]
      /\ Ph(raw, Target).filesz \in Nat /\ Len(work) >= Ph(raw, Target).filesz
      /\ SectionsAhead(job.image) => Target \notin Bystanders(job.image)
  BY <1>1, TreeFacts
<1>3. /\ Value \in DOMAIN CertLen /\ "uefi_dtbs" # "xbl_config"
  BY FileFacts, JobFacts
<1>4. /\ Bytes(NewWork) /\ Cellular(NewWork)
      /\ Len(NewWork) \in Nat /\ Len(NewWork) >= Len(work)
      /\ moved \in Int
      /\ \A p \in trees \ {Least(trees)} :
           /\ p + moved >= 1
           /\ NewWork[p + moved] = work[p + delta]
           /\ p + moved <= Len(NewWork)
           /\ p + moved + work[p + delta].size - 1 <= Len(NewWork)
  BY <1>1, <1>2, <1>3, NewWorkFacts
<1> HIDE DEF moved
<1>5. Bytes(pairs') /\ Len(pairs') = Len(pairs) + 1
  <2>1. PICK S : pairs \in Seq(S)
    BY <1>2, BytesElim
  <2> DEFINE e == <<Slice(work, At, Current.size), NewTree>>
  <2>2. pairs \in Seq(S \cup {e})
    BY <2>1
  <2> HIDE DEF e
  <2>3. Append(pairs, e) \in Seq(S \cup {e}) /\ Len(Append(pairs, e)) = Len(pairs) + 1
    BY <2>2
  <2> QED
    BY <1>1, <2>3, BytesOfSeq DEF e
<1>6. tally' \in [patched : Nat, errors : Nat] /\ tally'.patched = tally.patched + 1
  BY <1>1, <1>2
<1>7. TypeOK'
  <2>1. Len(pairs') <= tally'.patched
    BY <1>2, <1>5, <1>6
  <2> QED
    BY <1>1, <1>2, <1>4, <1>6, <2>1 DEF IInv, TypeOK, OldOutput
<1>8. TreesToGo'
  <2>1. ASSUME NEW p \in trees'
        PROVE  /\ p + moved >= 1 /\ p + moved <= Len(NewWork)
               /\ NewWork[p + moved] = work[p + delta]
               /\ NewWork[p + moved].kind = "tree"
               /\ p + moved + NewWork[p + moved].size - 1 <= Len(NewWork)
    <3>1. p \in trees \ {Least(trees)} /\ p \in trees
      BY <1>1
    <3>2. work[p + delta].kind = "tree"
      BY <1>2, <3>1 DEF TreesToGo
    <3> QED
      BY <1>4, <3>1, <3>2
  <2>2. ASSUME NEW p \in trees', NEW q \in trees', p < q
        PROVE  p + NewWork[p + moved].size <= q
    <3>1. p \in trees /\ q \in trees
      BY <1>1
    <3>2. p + work[p + delta].size <= q
      BY <1>2, <2>2, <3>1 DEF TreesToGo
    <3> QED
      BY <2>1, <3>2
  <2> QED
    BY <1>1, <2>1, <2>2 DEF TreesToGo
<1>9. SegmentRead'
  <2>1. Target' = Target /\ Len(NewWork) >= Ph(raw, Target).filesz
    BY <1>1, <1>2, <1>4 DEF Target
  <2> QED
    BY <1>1, <1>2, <1>3, <1>4, <1>5, <1>8, <2>1 DEF SegmentRead
<1>10. /\ HeadersAgree' /\ OthersIntact' /\ MetadataKept'
       /\ left' \subseteq 2..PhNum(job'.image)
       /\ elfType' = "uefi_dtbs" => /\ left' \cap Bystanders(job'.image) = {}
                                    /\ \A i \in left' : Ph(raw', i).filesz > 0
  BY <1>1, FileKept
<1>11. SegmentsToGo'
  BY <1>1, <1>9, <1>10 DEF IInv, SegmentsToGo
<1> QED
  BY <1>7, <1>10, <1>11 DEF IInv

LEMMA LeaveSegmentIInv ==
  ASSUME IInv, LeaveSegment \/ LastSegment
  PROVE  IInv'
<1>1. /\ pc \in {"tree", "segment"} /\ pc' \in {"segment", "write", "verdict"}
      /\ left' \subseteq left
      /\ UNCHANGED <<job, elfType, raw, work, trees, delta, pairs, tally, out, status>>
  BY DEF LeaveSegment, LastSegment, segment
<1>2. TypeOK'
  BY <1>1 DEF IInv, TypeOK, OldOutput
<1>3. /\ HeadersAgree' /\ OthersIntact' /\ MetadataKept'
      /\ left' \subseteq 2..PhNum(job'.image)
      /\ elfType' = "uefi_dtbs" => /\ left' \cap Bystanders(job'.image) = {}
                                   /\ \A i \in left' : Ph(raw', i).filesz > 0
  BY <1>1, FileKept
<1>4. SegmentsToGo'
  BY <1>1, <1>3 DEF IInv, SegmentsToGo
<1> QED
  BY <1>2, <1>3, <1>4 DEF IInv

\* A uefi_dtbs segment goes back into the file.
LEMMA WriteSegmentIInv ==
  ASSUME IInv, WriteSegment
  PROVE  IInv'
<1>1. /\ pc = "tree" /\ pc' = "digests" /\ elfType = "uefi_dtbs"
      /\ raw' = Resegmented(raw, Target, work, Len(work), 0)
      /\ UNCHANGED <<job, elfType, left, work, trees, delta, tally, out, status>>
  BY DEF WriteSegment
<1>2. /\ Bytes(work) /\ Cellular(work) /\ Len(work) \in Nat
      /\ left # {} /\ Target \in 2..PhNum(raw) /\ Target \in 1..PhNum(raw)
      /\ Ph(raw, Target).filesz \in Nat /\ Ph(raw, Target).filesz > 0
      /\ Len(work) >= Ph(raw, Target).filesz /\ Target \notin Bystanders(job.image)
  BY <1>1, TreeFacts
<1>3. /\ WellFormed(job.image) /\ WellFormed(raw) /\ PhNum(raw) = PhNum(job.image)
      /\ SectionsAhead(job.image) => SectionsAhead(raw)
      /\ left \subseteq 2..PhNum(raw) /\ PhNum(raw) \in Nat
  BY FileFacts
<1>4. SegmentReplaced(raw', raw, Target, work, Len(work))
  <2>1. Len(work) \in 0..Len(work) /\ 0 \in Int
    BY <1>2
  <2> QED
    BY <1>1, <1>2, <1>3, <2>1, ResegmentedFile
<1>5. /\ HeadersFollow(raw', raw)
      /\ \A j \in 1..PhNum(raw) : j # Target => Ph(raw', j).filesz = Ph(raw, j).filesz
      /\ Ph(raw', Target).filesz = Len(work)
      /\ SectionsAhead(raw) => \A j \in 2..PhNum(raw) : j # Target => Data(raw', j) = Data(raw, j)
  BY <1>4 DEF SegmentReplaced
<1>6. HeadersFollow(raw', job.image) /\ Bytes(raw')
  <2>1. HeadersFollow(raw, job.image)
    BY DEF IInv, HeadersAgree
  <2>2. WellFormed(raw')
    BY <1>5 DEF HeadersFollow
  <2> QED
    BY <1>3, <1>5, <2>1, <2>2, FollowsTransitive, WellFormedFacts
<1>7. TypeOK'
  BY <1>1, <1>6 DEF IInv, TypeOK, OldOutput
<1>8. HeadersAgree'
  BY <1>1, <1>6 DEF HeadersAgree
<1>9. OthersIntact'
  <2>1. ASSUME SectionsAhead(job.image), NEW i \in Bystanders(job.image)
        PROVE  Data(raw', i) = Data(job.image, i)
    <3>1. Data(raw, i) = Data(job.image, i)
      BY <2>1 DEF IInv, OthersIntact
    <3>2. i \in 2..PhNum(raw) /\ i # Target
      BY <1>2, <1>3, BystanderFacts
    <3> QED
      BY <1>3, <1>5, <2>1, <3>1, <3>2
  <2> QED
    BY <1>1, <2>1 DEF OthersIntact
<1>10. MetadataKept'
  BY <1>1 DEF MetadataKept
<1>11. SegmentsToGo'
  <2>1. ASSUME NEW i \in left
        PROVE  Ph(raw', i).filesz > 0
    <3>1. i \in 1..PhNum(raw) /\ Ph(raw, i).filesz > 0
      BY <1>1, <1>3 DEF IInv, SegmentsToGo
    <3> QED
      BY <1>2, <1>5, <3>1
  <2> QED
    BY <1>1, <1>2, <2>1 DEF IInv, SegmentsToGo
<1> QED
  BY <1>7, <1>8, <1>9, <1>10, <1>11 DEF IInv

LEMMA ReplaceDigestsIInv ==
  ASSUME IInv, ReplaceDigests
  PROVE  IInv'
<1>1. /\ pc = "digests" /\ pc' = "segment" /\ elfType = "uefi_dtbs"
      /\ raw' = DigestsReplaced(raw, pairs, HashFirst(raw, Target), HashLast(raw, Target))
      /\ left' = left \ {Target}
      /\ UNCHANGED <<job, elfType, work, trees, delta, pairs, tally, out, status>>
  BY DEF ReplaceDigests, IInv, SegmentsToGo
<1>2. /\ WellFormed(job.image) /\ WellFormed(raw) /\ PhNum(raw) = PhNum(job.image)
      /\ SectionsAhead(job.image) => SectionsAhead(raw)
      /\ left \subseteq 2..PhNum(raw) /\ PhNum(raw) \in Nat
  BY FileFacts
<1>3. /\ HeadersFollow(raw', raw)
      /\ \A j \in 1..PhNum(raw) : Ph(raw', j) = Ph(raw, j)
      /\ \A j \in 1..PhNum(raw) :
           (\A q \in 1..Len(Data(raw, j)) : Data(raw, j)[q].kind # "slot")
             => Data(raw', j) = Data(raw, j)
  BY <1>1, <1>2, DigestsFile
<1>4. HeadersFollow(raw', job.image) /\ Bytes(raw')
  <2>1. HeadersFollow(raw, job.image)
    BY DEF IInv, HeadersAgree
  <2>2. WellFormed(raw')
    BY <1>3 DEF HeadersFollow
  <2> QED
    BY <1>2, <1>3, <2>1, <2>2, FollowsTransitive, WellFormedFacts
<1>5. TypeOK'
  BY <1>1, <1>4 DEF IInv, TypeOK, OldOutput
<1>6. HeadersAgree'
  BY <1>1, <1>4 DEF HeadersAgree
<1>7. OthersIntact'
  <2>1. ASSUME SectionsAhead(job.image), NEW i \in Bystanders(job.image)
        PROVE  Data(raw', i) = Data(job.image, i)
    <3>1. Data(raw, i) = Data(job.image, i)
      BY <2>1 DEF IInv, OthersIntact
    <3>2. i \in 2..PhNum(job.image) /\ \A q \in 1..Len(Data(raw, i)) : Data(raw, i)[q].kind = "data"
      BY <1>2, <3>1, BystanderFacts
    <3>3. i \in 1..PhNum(raw)
      BY <1>2, <3>2
    <3> QED
      BY <1>3, <3>1, <3>2, <3>3
  <2> QED
    BY <1>1, <2>1 DEF OthersIntact
<1>8. MetadataKept'
  BY <1>1 DEF MetadataKept
<1>9. SegmentsToGo'
  <2>1. ASSUME NEW i \in left'
        PROVE  Ph(raw', i).filesz > 0
    <3>1. i \in 1..PhNum(raw) /\ Ph(raw, i).filesz > 0
      BY <1>1, <1>2 DEF IInv, SegmentsToGo
    <3> QED
      BY <1>3, <3>1
  <2> QED
    BY <1>1, <2>1, PatchConstants DEF IInv, SegmentsToGo
<1> QED
  BY <1>5, <1>6, <1>7, <1>8, <1>9 DEF IInv

\* A tree of an xbl_config goes back into the file, with all of its segment.
LEMMA ReplaceXblTreeIInv ==
  ASSUME IInv, ReplaceXblTree
  PROVE  IInv'
<1> DEFINE i == Target
           n == Len(NewWork)
<1>1. /\ pc = "tree" /\ trees # {} /\ elfType = "xbl_config" /\ Current.certs # <<>>
      /\ raw' = ReplacePh(raw, i, NewWork)
      /\ trees' = trees \ {Least(trees)}
      /\ tally' = [tally EXCEPT !.patched = @ + 1]
      /\ out' = out \/ out' = [by |-> "run", image |-> raw']
      /\ UNCHANGED <<pc, job, elfType, left, work, delta, pairs, status>>
  BY DEF ReplaceXblTree, Deliver
<1>2. /\ Bytes(work) /\ Cellular(work) /\ Len(work) \in Nat
      /\ TreesToGo /\ trees \subseteq Nat /\ delta \in Int
      /\ Bytes(pairs) /\ Len(pairs) \in Nat /\ Len(pairs) <= tally.patched
      /\ tally \in [patched : Nat, errors : Nat]
      /\ left # {} /\ i \in left /\ i \in 1..PhNum(raw)
      /\ Ph(raw, i).filesz \in Nat
      /\ delta = 0 /\ Len(work) <= Ph(raw, i).filesz
      /\ SectionsAhead(job.image) => i \notin Bystanders(job.image)
  BY <1>1, TreeFacts
<1>3. /\ job \in Jobs /\ WellFormed(job.image) /\ WellFormed(raw)
      /\ PhNum(raw) = PhNum(job.image) /\ PhNum(raw) \in Nat
      /\ SectionsAhead(job.image) => SectionsAhead(raw)
      /\ Value \in DOMAIN CertLen
  BY FileFacts, JobFacts
<1>4. Bytes(NewWork) /\ Cellular(NewWork) /\ n \in Nat /\ n >= Len(work)
  BY <1>1, <1>2, <1>3, NewWorkFacts
<1>5. Ph(raw, i).filesz > 0
  BY <1>1, <1>2, CurrentTree
<1>6. /\ HasMetadata(job.image) /\ Ph(raw, 2).filesz = Ph(job.image, 2).filesz
      /\ ~MetaTruncated(job.image) /\ left \subseteq ItemSegments(job.image)
  BY <1>1 DEF IInv, MetadataKept
<1>7. /\ i \in 3..PhNum(raw) /\ i - 1 \in 2..Ph(raw, 2).filesz /\ i - 1 \in 1..Ph(raw, 2).filesz
      /\ Ph(raw, 2).filesz \in Nat \ {0} /\ 2 \in 1..PhNum(raw) /\ 2 # i
  <2>1. i \in ItemSegments(job.image)
    BY <1>2, <1>6
  <2>2. i \in 3..PhNum(raw) /\ i - 1 \in 2..Ph(raw, 2).filesz /\ Ph(raw, 2).filesz \in Nat \ {0}
    BY <1>3, <1>6, <2>1, MetadataFacts
  <2> HIDE DEF i
  <2> QED
    BY <1>3, <2>2
<1> HIDE DEF i, n
<1>8. Replaced(raw', raw, i, NewWork)
  BY <1>1, <1>3, <1>4, <1>5, <1>7, ReplacePhFile DEF n
<1>9. HeadersFollow(raw', job.image) /\ WellFormed(raw') /\ Bytes(raw') /\ PhNum(raw') = PhNum(raw)
  <2>1. HeadersFollow(raw, job.image) /\ HeadersFollow(raw', raw)
    BY <1>8 DEF IInv, HeadersAgree, Replaced
  <2>2. WellFormed(raw') /\ PhNum(raw') = PhNum(raw)
    BY <2>1 DEF HeadersFollow
  <2> QED
    BY <1>3, <2>1, <2>2, FollowsTransitive, WellFormedFacts
<1>10. /\ \A j \in 1..PhNum(raw) : j # i => Ph(raw', j).filesz = Ph(raw, j).filesz
       /\ Ph(raw', i).filesz = n
  BY <1>8 DEF Replaced, n
<1>11. TypeOK'
  <2>1. tally' \in [patched : Nat, errors : Nat] /\ tally'.patched = tally.patched + 1
    BY <1>1, <1>2
  <2>2. Len(pairs) <= tally'.patched
    BY <1>2, <2>1
  <2>3. trees' \in SUBSET Nat
    BY <1>1, <1>2
  <2>4. out' = Torn \/ out' = OldOutput' \/ (out'.by = "run" /\ Bytes(out'.image))
    <3>1. OldOutput' = OldOutput
      BY <1>1 DEF OldOutput
    <3>2. out = Torn \/ out = OldOutput \/ (out.by = "run" /\ Bytes(out.image))
      BY DEF IInv, TypeOK
    <3>3. CASE out' = out
      BY <3>1, <3>2, <3>3
    <3>4. CASE out' = [by |-> "run", image |-> raw']
      BY <1>9, <3>4
    <3> QED
      BY <1>1, <3>3, <3>4
  <2> QED
    BY <1>1, <1>9, <2>1, <2>2, <2>3, <2>4 DEF IInv, TypeOK
<1>12. ASSUME SectionsAhead(job.image)
       PROVE  /\ Data(raw, 2)[1].kind = "meta" /\ Data(raw, 2)[1] = Data(job.image, 2)[1]
              /\ Data(raw', 2)[1] = Data(raw, 2)[1]
  <2>1. Data(raw, 2)[1] = Data(job.image, 2)[1] /\ Data(job.image, 2)[1].kind = "meta"
    BY <1>1, <1>3, <1>6, <1>12, MetadataFacts DEF IInv, MetadataKept
  <2>2. 1 \in 1..Ph(raw, 2).filesz /\ 1 # i - 1
    BY <1>7
  <2> QED
    BY <1>3, <1>8, <1>12, <2>1, <2>2 DEF Replaced
<1>13. MetadataKept'
  BY <1>1, <1>6, <1>7, <1>10, <1>12 DEF MetadataKept
<1>14. ASSUME SectionsAhead(job.image)
       PROVE  ItemsAgree(raw')
  <2>1. /\ HasMetadata(raw) /\ HasMetadata(raw') /\ Ph(raw', 2).filesz = Ph(raw, 2).filesz
    <3>1. PhNum(raw) > 1
      BY <1>3, <1>7
    <3>2. Ph(raw', 2).filesz = Ph(raw, 2).filesz
      BY <1>7, <1>10
    <3>3. Len(Data(raw, 2)) > 0 /\ Len(Data(raw', 2)) > 0
      BY <1>3, <1>7, <1>9, <3>2, DataCells
    <3> QED
      BY <1>9, <1>12, <1>14, <3>1, <3>2, <3>3 DEF HasMetadata
  <2>2. ItemSegments(raw') = ItemSegments(raw) /\ (MetaTruncated(raw') <=> MetaTruncated(raw))
    <3>1. ItemSegments(raw') = ItemSegments(raw)
      BY <1>9, <1>12, <1>14 DEF ItemSegments
    <3> QED
      BY <1>3, <1>9, <1>12, <1>14, <2>1, <3>1, MetadataFacts
  <2>3. ItemsAgree(raw)
    BY <1>1, <1>14 DEF IInv, HeadersAgree
  <2>4. ASSUME ~MetaTruncated(raw), NEW j \in ItemSegments(raw)
        PROVE  Data(raw', 2)[j - 1] = Item(Ph(raw', j).filesz)
    <3>1. Data(raw, 2)[j - 1] = Item(Ph(raw, j).filesz)
      BY <2>3, <2>4 DEF ItemsAgree
    <3>2. Data(raw, 2)[j - 1].kind = "item"
      BY <3>1 DEF Item
    <3>3. j \in 3..PhNum(raw) /\ j - 1 \in 2..Ph(raw, 2).filesz
      BY <1>3, <2>1, <2>4, MetadataFacts
    <3>4. j \in 1..PhNum(raw) /\ j - 1 \in 1..Ph(raw, 2).filesz /\ (j - 1 = i - 1 <=> j = i)
      BY <1>7, <3>3
    <3>5. CASE j = i
      BY <1>3, <1>8, <1>10, <1>14, <3>2, <3>4, <3>5 DEF Replaced
    <3>6. CASE j # i
      <4>1. Data(raw', 2)[j - 1] = Data(raw, 2)[j - 1]
        BY <1>3, <1>8, <1>14, <3>2, <3>4, <3>6 DEF Replaced
      <4> QED
        BY <1>10, <3>1, <3>4, <3>6, <4>1
    <3> QED
      BY <3>5, <3>6
  <2> QED
    BY <2>2, <2>4 DEF ItemsAgree
<1>15. HeadersAgree'
  BY <1>1, <1>9, <1>14 DEF HeadersAgree
<1>16. OthersIntact'
  <2>1. ASSUME SectionsAhead(job.image), NEW j \in Bystanders(job.image)
        PROVE  Data(raw', j) = Data(job.image, j)
    <3>1. Data(raw, j) = Data(job.image, j)
      BY <2>1 DEF IInv, OthersIntact
    <3>2. /\ j \in 2..PhNum(raw) /\ j # 2 /\ j # i
          /\ \A q \in 1..Len(Data(raw, j)) : Data(raw, j)[q].kind = "data"
      BY <1>2, <1>3, <1>6, <2>1, <3>1, BystanderFacts
    <3>3. j \in 3..PhNum(raw)
      BY <1>3, <3>2
    <3> QED
      BY <1>3, <1>8, <2>1, <3>1, <3>2, <3>3 DEF Replaced
  <2> QED
    BY <1>1, <2>1 DEF OthersIntact
<1>17. SegmentRead'
  <2>1. SegmentRead /\ Target' = i
    BY <1>1 DEF IInv, SegmentsToGo, Target, i
  <2>2. TreesToGo'
    BY <1>1, <1>2 DEF TreesToGo
  <2>3. Len(work') <= Ph(raw', i).filesz /\ delta' = 0
    BY <1>1, <1>2, <1>4, <1>10
  <2> QED
    BY <1>1, <1>2, <2>1, <2>2, <2>3 DEF SegmentRead
<1>18. SegmentsToGo'
  BY <1>1, <1>2, <1>17 DEF IInv, SegmentsToGo
<1> QED
  BY <1>11, <1>13, <1>15, <1>16, <1>18 DEF IInv

LEMMA NextIInv == IInv /\ [Next]_vars => IInv'
<1> SUFFICES ASSUME IInv, [Next]_vars
             PROVE  IInv'
  OBVIOUS
<1>1. CASE Undetected
  BY <1>1, SegmentsDone DEF Undetected, End, IInv, TypeOK
<1>2. CASE OpenUefiDtbs \/ OpenXblConfig
  BY <1>2, OpenIInv
<1>3. CASE ReadSegment
  BY <1>3, ReadSegmentIInv
<1>4. CASE LastSegment \/ LeaveSegment
  BY <1>4, LeaveSegmentIInv
<1>5. CASE SkipTree \/ TreeFails
  BY <1>5, SkipIInv
<1>6. CASE PatchUefiTree
  BY <1>6, PatchUefiTreeIInv
<1>7. CASE ReplaceXblTree
  BY <1>7, ReplaceXblTreeIInv
<1>8. CASE WriteSegment
  BY <1>8, WriteSegmentIInv
<1>9. CASE ReplaceDigests
  BY <1>9, ReplaceDigestsIInv
<1>10. CASE WriteUefi
  <2>1. out' = out \/ out' = [by |-> "run", image |-> raw]
    BY <1>10 DEF WriteUefi, Deliver
  <2> QED
    BY <1>10, <2>1, SegmentsDone DEF WriteUefi, IInv, TypeOK
<1>11. CASE Verdict
  <2>1. pc' \in {"publish", "done"} /\ status' \in {"running", "ok", "failed"}
    BY <1>11 DEF Verdict, End, IInv, TypeOK
  <2> QED
    BY <1>11, <2>1, SegmentsDone DEF Verdict
<1>12. CASE Publish
  BY <1>12, SegmentsDone DEF Publish, End
<1>13. CASE Dies
  BY <1>13, SegmentsDone DEF Dies, End
<1>14. CASE UNCHANGED vars
  <2>1. UNCHANGED <<pc, job, elfType, raw, left, work, trees, delta, pairs, tally, out, status>>
    BY <1>14 DEF vars, segment
  <2>2. TypeOK' /\ MetadataKept' /\ HeadersAgree' /\ OthersIntact'
    BY <2>1 DEF IInv, TypeOK, OldOutput, MetadataKept, HeadersAgree, OthersIntact
  <2>3. SegmentsToGo'
    BY <2>1 DEF IInv, SegmentsToGo, SegmentRead, TreesToGo, Target
  <2> QED
    BY <2>2, <2>3 DEF IInv
<1> QED
  BY <1>1, <1>2, <1>3, <1>4, <1>5, <1>6, <1>7, <1>8, <1>9, <1>10, <1>11, <1>12, <1>13, <1>14
     DEF Next, Work

THEOREM Inductive == Spec => []IInv
<1>1. Init => IInv
  BY InitIInv
<1>2. IInv /\ [Next]_vars => IInv'
  BY NextIInv
<1> QED
  BY <1>1, <1>2, PTL DEF Spec

-----------------------------------------------------------------------------
(* The theorems.                                                            *)

\* The variables of a run of patch-capsule-cert keep their types: what it writes is
\* a file, and no more pairs of digests are collected in a segment than trees were
\* patched.
THEOREM TypeCorrectness == Spec => []TypeOK
<1>1. IInv => TypeOK
  BY DEF IInv
<1> QED
  BY <1>1, Inductive, PTL

\* Whatever trees grow, in whatever image: the headers describe the file, a section
\* table ahead of the segments still points where the program headers do, and every
\* item of the XBLConfig metadata has the size of its segment.
THEOREM HeadersRepaired == Spec => []HeadersAgree
<1>1. IInv => HeadersAgree
  BY DEF IInv
<1> QED
  BY <1>1, Inductive, PTL

\* A segment with neither a tree nor metadata nor a digest is what it was.
THEOREM OthersUntouched == Spec => []OthersIntact
<1>1. IInv => OthersIntact
  BY DEF IInv
<1> QED
  BY <1>1, Inductive, PTL

-----------------------------------------------------------------------------
(* The trees.                                                               *)

\* An image in whose segments the scan finds every head of a tree: none is cut off
\* at the end of its segment, and none lies in the body of another tree.
WholeTrees(f) == \A i \in 2..PhNum(f) : Clean(Data(f, i))

\* The trees of a segment are those it had; where the run looks for them, one with
\* the property may be another one with it.
TreesKept ==
  SectionsAhead(job.image) /\ WholeTrees(job.image) =>
    /\ \A i \in 2..PhNum(job.image) :
         Grown(Data(job.image, i), Data(raw, i), i \in Searched(job.image))
    /\ pc = "tree" => Grown(Data(job.image, Target), work, TRUE)

\* A uefi_dtbs gets no metadata.
NoMetadata ==
  /\ elfType = None => raw = job.image
  /\ elfType = "uefi_dtbs" => ~HasMetadata(job.image)
  /\ elfType = "uefi_dtbs" /\ SectionsAhead(job.image) =>
       /\ ~HasMetadata(raw)
       /\ pc = "tree" /\ Target = 2 => work[1].kind # "meta"

TInv == IInv /\ TreesKept /\ NoMetadata

\* The metadata of an xbl_config goes on describing the same segments.
LEMMA MetadataOfXbl ==
  ASSUME IInv, elfType = "xbl_config", SectionsAhead(job.image)
  PROVE  /\ HasMetadata(job.image) /\ HasMetadata(raw)
         /\ ItemSegments(raw) = ItemSegments(job.image)
         /\ MetaTruncated(raw) <=> MetaTruncated(job.image)
<1>1. /\ HasMetadata(job.image) /\ Ph(raw, 2).filesz = Ph(job.image, 2).filesz
      /\ Data(raw, 2)[1] = Data(job.image, 2)[1]
  BY DEF IInv, MetadataKept
<1>2. /\ WellFormed(job.image) /\ WellFormed(raw) /\ PhNum(raw) = PhNum(job.image)
  BY FileFacts
<1>3. /\ PhNum(raw) \in Nat /\ PhNum(raw) > 1 /\ Ph(raw, 2).filesz \in Nat \ {0}
      /\ Data(raw, 2)[1].kind = "meta"
      /\ MetaTruncated(job.image) <=> Ph(raw, 2).filesz < 1 + Data(raw, 2)[1].entries
  BY <1>1, <1>2, MetadataFacts
<1>4. HasMetadata(raw)
  <2>1. 2 \in 1..PhNum(raw)
    BY <1>3
  <2>2. Len(Data(raw, 2)) = Ph(raw, 2).filesz
    BY <1>2, <2>1, DataCells
  <2> QED
    BY <1>3, <2>2 DEF HasMetadata
<1>5. MetaTruncated(raw) <=> MetaTruncated(job.image)
  BY <1>2, <1>3, <1>4, MetadataFacts
<1>6. ItemSegments(raw) = ItemSegments(job.image)
  BY <1>1, <1>2 DEF ItemSegments
<1> QED
  BY <1>1, <1>4, <1>5, <1>6

LEMMA InitTInv == Init => TInv
<1> SUFFICES ASSUME Init
             PROVE  TInv
  OBVIOUS
<1>1. job \in Jobs /\ raw = job.image /\ pc = "open" /\ elfType = None
  BY DEF Init
<1>2. None # "uefi_dtbs" /\ WellFormed(job.image)
  BY <1>1, PatchConstants
<1>3. TreesKept
  <2>1. ASSUME WholeTrees(job.image), NEW i \in 2..PhNum(job.image)
        PROVE  Grown(Data(job.image, i), Data(raw, i), i \in Searched(job.image))
    <3>1. i \in 1..PhNum(job.image)
      BY <1>2, WellFormedFacts
    <3>2. Bytes(Data(raw, i)) /\ Clean(Data(raw, i))
      BY <1>1, <1>2, <2>1, <3>1, DataCells DEF WholeTrees
    <3> QED
      BY <1>1, <3>2, GrownItself
  <2> QED
    BY <1>1, <2>1 DEF TreesKept
<1>4. NoMetadata
  BY <1>1, <1>2 DEF NoMetadata
<1> QED
  BY <1>3, <1>4, InitIInv DEF TInv

\* The step leaves the file alone, and the segment in memory, if one is read.
LEMMA TreesStay ==
  ASSUME TInv, IInv', UNCHANGED <<raw, job, elfType>>,
         pc' # "tree" \/ UNCHANGED <<pc, left, work>>
  PROVE  TInv'
<1>1. pc' = "tree" => pc = "tree" /\ Target' = Target /\ work' = work
  BY DEF Target
<1>2. TreesKept'
  BY <1>1 DEF TInv, TreesKept, Searched
<1>3. NoMetadata'
  BY <1>1 DEF TInv, NoMetadata
<1> QED
  BY <1>2, <1>3 DEF TInv

LEMMA OpenTInv ==
  ASSUME TInv, IInv', OpenUefiDtbs \/ OpenXblConfig
  PROVE  TInv'
<1>1. /\ pc = "open" /\ raw = job.image /\ pc' # "tree"
      /\ elfType' \in {"uefi_dtbs", "xbl_config"}
      /\ elfType' = "uefi_dtbs" => ~HasMetadata(raw)
      /\ UNCHANGED <<raw, job>>
  BY DEF OpenUefiDtbs, OpenXblConfig, End, TInv, IInv, SegmentsToGo
<1>2. None \notin {"uefi_dtbs", "xbl_config"}
  BY PatchConstants
<1>3. TreesKept'
  BY <1>1 DEF TInv, TreesKept, Searched
<1>4. NoMetadata'
  BY <1>1, <1>2 DEF NoMetadata
<1> QED
  BY <1>3, <1>4 DEF TInv

LEMMA ReadSegmentTInv ==
  ASSUME TInv, IInv', ReadSegment
  PROVE  TInv'
<1>1. /\ pc = "segment" /\ left # {} /\ work' = Data(raw, Target)
      /\ UNCHANGED <<job, elfType, raw, left>> /\ IInv /\ pc' = "tree"
  BY DEF ReadSegment, TInv
<1>2. /\ Target \in left /\ Target \in 2..PhNum(job.image) /\ Target' = Target
      /\ WellFormed(raw) /\ PhNum(raw) = PhNum(job.image)
  BY <1>1, FileFacts DEF Target
<1>3. TreesKept'
  <2>1. ASSUME SectionsAhead(job.image), WholeTrees(job.image)
        PROVE  Grown(Data(job.image, Target), work', TRUE)
    <3>1. Grown(Data(job.image, Target), Data(raw, Target), Target \in Searched(job.image))
      BY <1>2, <2>1 DEF TInv, TreesKept
    <3> QED
      BY <1>1, <3>1, GrownMore
  <2> QED
    BY <1>1, <1>2, <2>1 DEF TInv, TreesKept, Searched
<1>4. NoMetadata'
  <2>1. ASSUME elfType = "uefi_dtbs", SectionsAhead(job.image), Target = 2
        PROVE  work'[1].kind # "meta"
    <3>1. ~HasMetadata(raw)
      BY <2>1 DEF TInv, NoMetadata
    <3>2. Ph(raw, 2).filesz > 0
      BY <1>1, <1>2, <2>1 DEF IInv, SegmentsToGo
    <3>3. 2 \in 1..PhNum(raw) /\ PhNum(raw) > 1
      BY <1>2, <2>1, WellFormedFacts
    <3>4. Len(Data(raw, 2)) > 0
      BY <1>2, <3>2, <3>3, DataCells
    <3> QED
      BY <1>1, <2>1, <3>1, <3>3, <3>4 DEF HasMetadata
  <2> QED
    BY <1>1, <1>2, <2>1 DEF TInv, NoMetadata
<1> QED
  BY <1>3, <1>4 DEF TInv

\* The tree to patch is one that the scan found.
LEMMA CurrentFound ==
  ASSUME IInv, pc = "tree", trees # {}, Current.certs # <<>>, Clean(work)
  PROVE  /\ At \in Trees(work) /\ Bytes(NewWork)
         /\ Len(NewTree) - Current.size \in Nat
         /\ PatchedAt(NewWork, work, At, Len(NewTree) - Current.size, Value)
         /\ Grown(work, NewWork, TRUE)
<1>1. /\ Bytes(work) /\ Cellular(work) /\ TreesToGo /\ trees \subseteq Nat /\ delta \in Int
      /\ Value \in DOMAIN CertLen
  BY TreeFacts, FileFacts, JobFacts
<1>2. /\ At \in Nat \ {0} /\ At <= Len(work) /\ Len(work) \in Nat
      /\ IsCell(Current) /\ Current.kind = "tree" /\ Current.size \in Nat
  BY <1>1, CurrentTree
<1>3. At \in Trees(work) /\ work[At] = Current
  <2>1. DOMAIN work = 1..Len(work)
    BY <1>1, BytesElim
  <2>2. At \in Heads(work)
    BY <1>2, <2>1 DEF Heads, Current
  <2> QED
    BY <2>2 DEF Clean, Current
<1>4. PatchedAt(NewWork, work, At, Len(NewTree) - Current.size, Value)
  BY <1>1, <1>3, PatchedTrees DEF NewWork, NewTree, Current
<1>5. Len(NewTree) - Current.size \in Nat
  <2>1. Len(NewTree) \in Nat /\ Len(NewTree) >= Current.size
    BY <1>1, <1>2, PatchedTreeCells DEF NewTree
  <2> QED
    BY <1>2, <2>1
<1>6. Grown(work, NewWork, TRUE)
  BY <1>1, <1>3, <1>4, <1>5, PatchedGrown
<1> QED
  BY <1>3, <1>4, <1>5, <1>6 DEF PatchedAt

LEMMA PatchUefiTreeTInv ==
  ASSUME TInv, IInv', PatchUefiTree
  PROVE  TInv'
<1>1. /\ pc = "tree" /\ trees # {} /\ elfType = "uefi_dtbs" /\ Current.certs # <<>>
      /\ work' = NewWork /\ IInv
      /\ UNCHANGED <<pc, job, elfType, raw, left>>
  BY DEF PatchUefiTree, TInv
<1>2. Target' = Target
  BY <1>1 DEF Target
<1>3. TreesKept'
  <2>1. ASSUME SectionsAhead(job.image), WholeTrees(job.image)
        PROVE  Grown(Data(job.image, Target), NewWork, TRUE)
    <3>1. Grown(Data(job.image, Target), work, TRUE) /\ Clean(work)
      BY <1>1, <2>1 DEF TInv, TreesKept, Grown
    <3>2. Grown(work, NewWork, TRUE)
      BY <1>1, <3>1, CurrentFound
    <3> QED
      BY <3>1, <3>2, GrownTransitive
  <2> QED
    BY <1>1, <1>2, <2>1 DEF TInv, TreesKept, Searched
<1>4. NoMetadata'
  <2>1. ASSUME SectionsAhead(job.image), Target = 2
        PROVE  NewWork[1].kind # "meta"
    <3>1. work[1].kind # "meta"
      BY <1>1, <2>1 DEF TInv, NoMetadata
    <3>2. /\ Bytes(work) /\ Cellular(work) /\ TreesToGo /\ trees \subseteq Nat /\ delta \in Int
          /\ Value \in DOMAIN CertLen
      BY <1>1, TreeFacts, FileFacts, JobFacts
    <3>3. /\ At \in Nat \ {0} /\ At <= Len(work) /\ Len(work) \in Nat
          /\ IsCell(Current) /\ Current.kind = "tree"
          /\ Current.size \in Nat \ {0} /\ At + Current.size - 1 <= Len(work)
      BY <1>1, <3>2, CurrentTree
    <3>4. /\ Bytes(NewTree) /\ Len(NewTree) \in Nat /\ Len(NewTree) >= Current.size
          /\ NewTree[1].kind = "tree"
      BY <1>1, <3>2, <3>3, PatchedTreeCells DEF NewTree
    <3>5. IsSplice(NewWork, work, At, Current.size, NewTree)
      BY <3>2, <3>3, <3>4, SpliceBytes DEF NewWork
    <3>6. CASE At = 1
      <4>1. 1 \in 1..Len(NewTree) /\ At + 1 - 1 = 1
        BY <3>3, <3>4, <3>6
      <4> QED
        BY <3>4, <3>5, <4>1 DEF IsSplice
    <3>7. CASE At # 1
      <4>1. 1 \in 1..(At - 1)
        BY <3>3, <3>7
      <4> QED
        BY <3>1, <3>5, <4>1 DEF IsSplice
    <3> QED
      BY <3>6, <3>7
  <2> QED
    BY <1>1, <1>2, <2>1 DEF TInv, NoMetadata
<1> QED
  BY <1>3, <1>4 DEF TInv

\* The segment in memory goes into the file, and the others stay what they were.
LEMMA SegmentWritten ==
  ASSUME IInv, WriteSegment
  PROVE  /\ Target \in 2..PhNum(raw) /\ PhNum(raw') = PhNum(raw) /\ WellFormed(raw')
         /\ SectionsAhead(job.image) =>
              /\ Data(raw', Target) = work
              /\ \A j \in 2..PhNum(raw) : j # Target => Data(raw', j) = Data(raw, j)
<1>1. /\ pc = "tree" /\ elfType = "uefi_dtbs"
      /\ raw' = Resegmented(raw, Target, work, Len(work), 0)
  BY DEF WriteSegment
<1>2. /\ Bytes(work) /\ Cellular(work) /\ Len(work) \in Nat
      /\ left # {} /\ Target \in 2..PhNum(raw) /\ Target \in 1..PhNum(raw)
      /\ Ph(raw, Target).filesz \in Nat /\ Ph(raw, Target).filesz > 0
      /\ Len(work) >= Ph(raw, Target).filesz
  BY <1>1, TreeFacts
<1>3. /\ WellFormed(job.image) /\ WellFormed(raw) /\ PhNum(raw) = PhNum(job.image)
      /\ SectionsAhead(job.image) => SectionsAhead(raw)
      /\ PhNum(raw) \in Nat
  BY <1>1, FileFacts
<1>4. SegmentReplaced(raw', raw, Target, work, Len(work))
  <2>1. Len(work) \in 0..Len(work) /\ 0 \in Int
    BY <1>2
  <2> QED
    BY <1>1, <1>2, <1>3, <2>1, ResegmentedFile
<1>5. WellFormed(raw') /\ PhNum(raw') = PhNum(raw)
  BY <1>4 DEF SegmentReplaced, HeadersFollow
<1>6. ASSUME SectionsAhead(job.image)
      PROVE  /\ Data(raw', Target) = work
             /\ \A j \in 2..PhNum(raw) : j # Target => Data(raw', j) = Data(raw, j)
  <2>1. /\ Ph(raw', Target).filesz = Len(work)
        /\ \A q \in 1..Len(work) : Data(raw', Target)[q] = work[q]
        /\ \A j \in 2..PhNum(raw) : j # Target => Data(raw', j) = Data(raw, j)
    BY <1>3, <1>4, <1>6 DEF SegmentReplaced
  <2>2. Bytes(Data(raw', Target)) /\ Len(Data(raw', Target)) = Len(work)
    BY <1>2, <1>5, <2>1, DataCells
  <2>3. Data(raw', Target) = work
    BY <1>2, <2>1, <2>2, BytesEqual
  <2> QED
    BY <2>1, <2>3
<1> QED
  BY <1>2, <1>5, <1>6

LEMMA WriteSegmentTInv ==
  ASSUME TInv, IInv', WriteSegment
  PROVE  TInv'
<1>1. /\ pc = "tree" /\ pc' = "digests" /\ elfType = "uefi_dtbs" /\ IInv
      /\ UNCHANGED <<job, elfType, left, work>>
  BY DEF WriteSegment, TInv
<1>2. PhNum(raw) = PhNum(job.image) /\ PhNum(raw) \in Nat
  BY <1>1, FileFacts
<1>3. /\ Target \in 2..PhNum(raw) /\ PhNum(raw') = PhNum(raw)
      /\ SectionsAhead(job.image) =>
           /\ Data(raw', Target) = work
           /\ \A j \in 2..PhNum(raw) : j # Target => Data(raw', j) = Data(raw, j)
  BY <1>1, SegmentWritten
<1>4. TreesKept'
  <2>1. ASSUME SectionsAhead(job.image), WholeTrees(job.image), NEW j \in 2..PhNum(raw)
        PROVE  Grown(Data(job.image, j), Data(raw', j), j \in Searched(job.image))
    <3>1. CASE j = Target
      <4>1. Target \in Searched(job.image)
        BY <1>1, <1>2, <1>3 DEF TInv, NoMetadata, Searched
      <4>2. Grown(Data(job.image, Target), work, TRUE)
        BY <1>1, <2>1 DEF TInv, TreesKept
      <4>3. (j \in Searched(job.image)) = TRUE
        BY <3>1, <4>1
      <4> QED
        BY <1>3, <2>1, <3>1, <4>2, <4>3
    <3>2. CASE j # Target
      BY <1>2, <1>3, <2>1, <3>2 DEF TInv, TreesKept
    <3> QED
      BY <3>1, <3>2
  <2> QED
    BY <1>1, <1>2, <2>1 DEF TreesKept, Searched
<1>5. NoMetadata'
  <2>1. ASSUME SectionsAhead(job.image), HasMetadata(raw')
        PROVE  FALSE
    <3>1. /\ PhNum(raw') > 1 /\ Len(Data(raw', 2)) > 0 /\ Data(raw', 2)[1].kind = "meta"
      BY <2>1 DEF HasMetadata
    <3>2. ~HasMetadata(raw) /\ (Target = 2 => work[1].kind # "meta")
      BY <1>1, <2>1 DEF TInv, NoMetadata
    <3>3. 2 \in 2..PhNum(raw) /\ PhNum(raw) > 1
      BY <1>2, <1>3, <3>1
    <3>4. Target # 2
      BY <1>3, <2>1, <3>1, <3>2
    <3>5. Data(raw', 2) = Data(raw, 2)
      BY <1>3, <2>1, <3>3, <3>4
    <3> QED
      BY <3>1, <3>2, <3>3, <3>5 DEF HasMetadata
  <2>2. elfType # None
    BY <1>1, PatchConstants
  <2> QED
    BY <1>1, <2>1, <2>2 DEF TInv, NoMetadata
<1> QED
  BY <1>4, <1>5 DEF TInv

LEMMA ReplaceDigestsTInv ==
  ASSUME TInv, IInv', ReplaceDigests
  PROVE  TInv'
<1>1. /\ pc = "digests" /\ pc' = "segment" /\ elfType = "uefi_dtbs" /\ IInv
      /\ raw' = DigestsReplaced(raw, pairs, HashFirst(raw, Target), HashLast(raw, Target))
      /\ UNCHANGED <<job, elfType>>
  BY DEF ReplaceDigests, TInv, IInv, SegmentsToGo
<1>2. /\ WellFormed(raw) /\ PhNum(raw) = PhNum(job.image) /\ PhNum(raw) \in Nat
  BY <1>1, FileFacts
<1>3. /\ HeadersFollow(raw', raw)
      /\ \A j \in 1..PhNum(raw) : Ph(raw', j) = Ph(raw, j)
      /\ \A j \in 1..PhNum(raw) : Neutral(Data(raw, j), Data(raw', j))
      /\ \A j \in 1..PhNum(raw) : \A q \in 1..Len(Data(raw, j)) :
           Data(raw, j)[q].kind # "slot" => Data(raw', j)[q] = Data(raw, j)[q]
  BY <1>1, <1>2, DigestsFile
<1>4. WellFormed(raw') /\ PhNum(raw') = PhNum(raw)
  BY <1>3 DEF HeadersFollow
<1>5. ASSUME NEW j \in 2..PhNum(raw), NEW may, Grown(Data(job.image, j), Data(raw, j), may)
      PROVE  Grown(Data(job.image, j), Data(raw', j), may)
  <2>1. j \in 1..PhNum(raw)
    BY <1>2
  <2>2. Bytes(Data(raw, j)) /\ Bytes(Data(raw', j)) /\ Clean(Data(raw, j))
    BY <1>2, <1>4, <1>5, <2>1, DataCells DEF Grown
  <2>3. Grown(Data(raw, j), Data(raw', j), may)
    BY <1>3, <2>1, <2>2, NeutralGrown
  <2> QED
    BY <1>5, <2>3, GrownTransitive
<1>6. TreesKept'
  BY <1>1, <1>2, <1>5 DEF TInv, TreesKept, Searched
<1>7. NoMetadata'
  <2>1. ASSUME ~HasMetadata(raw), HasMetadata(raw')
        PROVE  FALSE
    <3>1. /\ PhNum(raw) > 1 /\ Len(Data(raw', 2)) > 0 /\ Data(raw', 2)[1].kind = "meta"
      BY <1>4, <2>1 DEF HasMetadata
    <3>2. 2 \in 1..PhNum(raw)
      BY <1>2, <3>1
    <3>3. Neutral(Data(raw, 2), Data(raw', 2)) /\ Len(Data(raw, 2)) \in Nat
      BY <1>2, <1>3, <3>2, DataCells, WellFormedFacts
    <3>4. 1 \in 1..Len(Data(raw, 2)) /\ Len(Data(raw, 2)) > 0
      BY <3>1, <3>3 DEF Neutral
    <3>5. Data(raw, 2)[1].kind # "meta"
      BY <2>1, <3>1, <3>4 DEF HasMetadata
    <3>6. Data(raw', 2)[1].kind # "meta"
      <4>1. \/ Data(raw', 2)[1] = Data(raw, 2)[1]
            \/ Data(raw', 2)[1].kind = "slot"
        BY <1>1, <1>2, <3>2, <3>4, DigestsFile
      <4> QED
        BY <3>5, <4>1
    <3> QED
      BY <3>1, <3>6
  <2>2. elfType # None
    BY <1>1, PatchConstants
  <2> QED
    BY <1>1, <2>1, <2>2 DEF TInv, NoMetadata
<1> QED
  BY <1>6, <1>7 DEF TInv

\* A patched tree goes into the file with its segment as it was read; elsewhere only
\* digests and the size of the item change.
LEMMA XblTreeWritten ==
  ASSUME IInv, ReplaceXblTree
  PROVE  /\ Target \in ItemSegments(job.image) /\ Target \in 3..PhNum(raw)
         /\ WellFormed(raw') /\ PhNum(raw') = PhNum(raw) /\ Bytes(NewWork)
         /\ SectionsAhead(job.image) =>
              /\ \A j \in 2..PhNum(raw) : j # Target => Neutral(Data(raw, j), Data(raw', j))
              /\ Neutral(NewWork, Data(raw', Target))
<1> DEFINE i == Target
<1>1. /\ pc = "tree" /\ trees # {} /\ elfType = "xbl_config" /\ Current.certs # <<>>
      /\ raw' = ReplacePh(raw, i, NewWork)
  BY DEF ReplaceXblTree
<1>2. /\ Bytes(work) /\ Cellular(work) /\ Len(work) \in Nat
      /\ TreesToGo /\ trees \subseteq Nat /\ delta \in Int
      /\ left # {} /\ i \in left /\ i \in 1..PhNum(raw)
      /\ Ph(raw, i).filesz \in Nat /\ Len(work) <= Ph(raw, i).filesz
  BY <1>1, TreeFacts
<1>3. /\ job \in Jobs /\ WellFormed(job.image) /\ WellFormed(raw)
      /\ PhNum(raw) = PhNum(job.image) /\ PhNum(raw) \in Nat
      /\ SectionsAhead(job.image) => SectionsAhead(raw)
      /\ Value \in DOMAIN CertLen
  BY <1>1, FileFacts, JobFacts
<1>4. Bytes(NewWork) /\ Cellular(NewWork)
  BY <1>1, <1>2, <1>3, NewWorkFacts
<1>5. Ph(raw, i).filesz > 0
  BY <1>1, <1>2, CurrentTree
<1>6. /\ HasMetadata(job.image) /\ Ph(raw, 2).filesz = Ph(job.image, 2).filesz
      /\ ~MetaTruncated(job.image) /\ i \in ItemSegments(job.image)
  BY <1>1, <1>2 DEF IInv, MetadataKept
<1>7. i \in 3..PhNum(raw) /\ i - 1 \in 1..Ph(raw, 2).filesz /\ i \in 2..PhNum(raw)
  <2>1. i \in 3..PhNum(raw) /\ i - 1 \in 2..Ph(raw, 2).filesz /\ Ph(raw, 2).filesz \in Nat \ {0}
    BY <1>3, <1>6, MetadataFacts
  <2> HIDE DEF i
  <2> QED
    BY <1>3, <2>1
<1> HIDE DEF i
<1>8. Replaced(raw', raw, i, NewWork)
  BY <1>1, <1>3, <1>4, <1>5, <1>7, ReplacePhFile
<1>9. WellFormed(raw') /\ PhNum(raw') = PhNum(raw)
  BY <1>8 DEF Replaced, HeadersFollow
<1>10. ASSUME SectionsAhead(job.image)
       PROVE  /\ \A j \in 2..PhNum(raw) : j # i => Neutral(Data(raw, j), Data(raw', j))
              /\ Neutral(NewWork, Data(raw', i))
  <2>1. ItemsAgree(raw)
    BY <1>1, <1>10 DEF IInv, HeadersAgree
  <2>2. ~MetaTruncated(raw) /\ i \in ItemSegments(raw)
    BY <1>1, <1>6, <1>10, MetadataOfXbl
  <2>3. Data(raw, 2)[i - 1] = Item(Ph(raw, i).filesz)
    BY <2>1, <2>2 DEF ItemsAgree
  <2>4. Data(raw, 2)[i - 1].kind = "item"
    BY <2>3 DEF Item
  <2> QED
    BY <1>3, <1>8, <1>10, <2>4 DEF Replaced
<1> QED
  BY <1>4, <1>6, <1>7, <1>9, <1>10 DEF i

LEMMA ReplaceXblTreeTInv ==
  ASSUME TInv, IInv', ReplaceXblTree
  PROVE  TInv'
<1> DEFINE i == Target
<1>1. /\ pc = "tree" /\ trees # {} /\ elfType = "xbl_config" /\ Current.certs # <<>> /\ IInv
      /\ UNCHANGED <<pc, job, elfType, left, work>>
  BY DEF ReplaceXblTree, TInv
<1>2. Target' = Target
  BY <1>1 DEF Target
<1>3. /\ WellFormed(job.image) /\ WellFormed(raw)
      /\ PhNum(raw) = PhNum(job.image) /\ PhNum(raw) \in Nat
  BY <1>1, FileFacts
<1>4. /\ i \in ItemSegments(job.image) /\ i \in 3..PhNum(raw) /\ HasMetadata(job.image)
      /\ WellFormed(raw') /\ PhNum(raw') = PhNum(raw) /\ Bytes(NewWork)
      /\ SectionsAhead(job.image) =>
           /\ \A j \in 2..PhNum(raw) : j # i => Neutral(Data(raw, j), Data(raw', j))
           /\ Neutral(NewWork, Data(raw', i))
  BY <1>1, XblTreeWritten DEF IInv, MetadataKept
<1> HIDE DEF i
<1>5. TreesKept'
  <2>1. ASSUME SectionsAhead(job.image), WholeTrees(job.image), NEW j \in 2..PhNum(raw)
        PROVE  Grown(Data(job.image, j), Data(raw', j), j \in Searched(job.image))
    <3> DEFINE may == j \in Searched(job.image)
    <3>1. j \in 1..PhNum(raw)
      BY <1>3
    <3>2. Bytes(Data(raw, j)) /\ Bytes(Data(raw', j))
      BY <1>3, <1>4, <3>1, DataCells
    <3> HIDE DEF may
    <3>3. CASE j = i
      <4>1. Grown(Data(job.image, i), work, TRUE) /\ Clean(work)
        BY <1>1, <2>1 DEF TInv, TreesKept, Grown, i
      <4>2. Grown(work, NewWork, TRUE) /\ Clean(NewWork)
        BY <1>1, <4>1, CurrentFound DEF Grown
      <4>3. Grown(NewWork, Data(raw', i), TRUE)
        BY <1>4, <2>1, <3>2, <3>3, <4>2, NeutralGrown
      <4>4. Grown(Data(job.image, i), Data(raw', i), TRUE)
        BY <4>1, <4>2, <4>3, GrownTransitive
      <4>5. may = TRUE
        BY <1>4, <3>3 DEF may, Searched
      <4> QED
        BY <3>3, <4>4, <4>5 DEF may
    <3>4. CASE j # i
      <4>1. Grown(Data(job.image, j), Data(raw, j), may) /\ Clean(Data(raw, j))
        BY <1>3, <2>1 DEF TInv, TreesKept, Grown, may
      <4>2. Grown(Data(raw, j), Data(raw', j), may)
        BY <1>4, <2>1, <3>2, <3>4, <4>1, NeutralGrown
      <4>3. Grown(Data(job.image, j), Data(raw', j), may)
        BY <4>1, <4>2, GrownTransitive
      <4> QED
        BY <4>3 DEF may
    <3> QED
      BY <3>3, <3>4
  <2>2. SectionsAhead(job.image) /\ WholeTrees(job.image) => Grown(Data(job.image, Target), work, TRUE)
    BY <1>1 DEF TInv, TreesKept
  <2> QED
    BY <1>1, <1>2, <1>3, <2>1, <2>2 DEF TreesKept, Searched
<1>6. NoMetadata'
  <2>1. elfType # None /\ elfType # "uefi_dtbs"
    BY <1>1, PatchConstants
  <2> QED
    BY <1>1, <2>1 DEF NoMetadata
<1> QED
  BY <1>5, <1>6 DEF TInv

LEMMA NextTInv == TInv /\ [Next]_vars => TInv'
<1> SUFFICES ASSUME TInv, [Next]_vars
             PROVE  TInv'
  OBVIOUS
<1>1. IInv'
  BY NextIInv DEF TInv
<1>2. CASE OpenUefiDtbs \/ OpenXblConfig
  BY <1>1, <1>2, OpenTInv
<1>3. CASE ReadSegment
  BY <1>1, <1>3, ReadSegmentTInv
<1>4. CASE PatchUefiTree
  BY <1>1, <1>4, PatchUefiTreeTInv
<1>5. CASE ReplaceXblTree
  BY <1>1, <1>5, ReplaceXblTreeTInv
<1>6. CASE WriteSegment
  BY <1>1, <1>6, WriteSegmentTInv
<1>7. CASE ReplaceDigests
  BY <1>1, <1>7, ReplaceDigestsTInv
<1>8. CASE SkipTree \/ TreeFails
  BY <1>1, <1>8, TreesStay DEF SkipTree, TreeFails
<1>9. CASE \/ Undetected \/ LastSegment \/ LeaveSegment
           \/ WriteUefi \/ Verdict \/ Publish \/ Dies
  <2>1. UNCHANGED <<raw, job, elfType>>
    BY <1>9 DEF Undetected, LastSegment, LeaveSegment, WriteUefi, Verdict, Publish, Dies
  <2>2. pc' # "tree"
    BY <1>9 DEF Undetected, LastSegment, LeaveSegment, WriteUefi, Verdict, Publish, Dies, End
  <2> QED
    BY <1>1, <2>1, <2>2, TreesStay
<1>10. CASE UNCHANGED vars
  BY <1>1, <1>10, TreesStay DEF vars, segment
<1> QED
  BY <1>2, <1>3, <1>4, <1>5, <1>6, <1>7, <1>8, <1>9, <1>10 DEF Next, Work

\* Whatever certificate is written into whatever image: the trees of every segment
\* are those it had, in their order, and the ones without the property, or in a
\* segment that the run does not search, are what they were.  It takes an image
\* whose section table, if any, is ahead of the segments, and in which the scan finds
\* every head of a tree: growth may complete one that was cut off.
THEOREM TreesStayInOrder ==
  Spec => [](SectionsAhead(job.image) /\ WholeTrees(job.image) => TreesInOrder)
<1> DEFINE Ordered == SectionsAhead(job.image) /\ WholeTrees(job.image) => TreesInOrder
<1>1. TInv => Ordered
  <2> SUFFICES ASSUME TInv, SectionsAhead(job.image), WholeTrees(job.image)
               PROVE  TreesInOrder
    OBVIOUS
  <2>1. /\ WellFormed(job.image) /\ WellFormed(raw)
        /\ PhNum(raw) = PhNum(job.image) /\ PhNum(raw) \in Nat
    BY FileFacts DEF TInv
  <2>2. ASSUME NEW i \in 1..PhNum(raw)
        PROVE  /\ Cardinality(Trees(Data(raw, i))) = Cardinality(Trees(Data(job.image, i)))
               /\ \A k \in 1..Cardinality(Trees(Data(raw, i))) :
                    TreeKept(Data(job.image, i)[Nth(Trees(Data(job.image, i)), k)],
                             Data(raw, i)[Nth(Trees(Data(raw, i)), k)],
                             i \in Searched(job.image))
    <3>1. CASE i = 1
      <4>1. Trees(Data(raw, i)) = {} /\ Trees(Data(job.image, i)) = {} /\ Cardinality({}) = 0
        BY <2>1, <3>1, NoTreeInHeaders, FS_EmptySet
      <4> QED
        BY <4>1
    <3>2. CASE i # 1
      <4>1. i \in 2..PhNum(job.image)
        BY <2>1, <3>2
      <4> DEFINE may == i \in Searched(job.image)
      <4>2. Grown(Data(job.image, i), Data(raw, i), may)
        BY <4>1 DEF TInv, TreesKept
      <4>3. Bytes(Data(job.image, i)) /\ Bytes(Data(raw, i))
        BY <2>1, DataCells
      <4> HIDE DEF may
      <4>4. /\ Cardinality(Trees(Data(raw, i))) = Cardinality(Trees(Data(job.image, i)))
            /\ \A k \in 1..Cardinality(Trees(Data(job.image, i))) :
                 TreeKept(Data(job.image, i)[Nth(Trees(Data(job.image, i)), k)],
                          Data(raw, i)[Nth(Trees(Data(raw, i)), k)], may)
        BY <4>2, <4>3, GrownPlaces
      <4> QED
        BY <4>4 DEF may
    <3> QED
      BY <3>1, <3>2
  <2>3. TreesOf(raw) = TreesOf(job.image)
    BY <2>1, <2>2 DEF TreesOf
  <2>4. ASSUME NEW t \in TreesOf(raw)
        PROVE  /\ t[1] \in 1..PhNum(raw)
               /\ TreeKept(TreeOf(job.image, t), TreeOf(raw, t), t[1] \in Searched(job.image))
    <3>1. PICK i \in 1..PhNum(raw) : \E k \in 1..Cardinality(Trees(Data(raw, i))) : t = <<i, k>>
      BY DEF TreesOf
    <3>2. t[1] = i /\ t[2] \in 1..Cardinality(Trees(Data(raw, i)))
      BY <3>1
    <3> QED
      BY <2>2, <3>2 DEF TreeOf, PlaceOf
  <2>5. ASSUME NEW t \in TreesOf(raw)
        PROVE  TreeOf(raw, t).id = TreeOf(job.image, t).id
    BY <2>4 DEF TreeKept
  <2>6. ASSUME NEW t \in TreesOf(raw) \ Carriers(raw)
        PROVE  TreeOf(raw, t) = TreeOf(job.image, t)
    <3>1. t \in TreesOf(raw) /\ ~(t[1] \in Searched(raw) /\ TreeOf(raw, t).certs # <<>>)
      BY DEF Carriers
    <3>2. CASE elfType = None
      BY <3>2 DEF TInv, NoMetadata
    <3>3. CASE elfType # None
      <4>1. Searched(raw) = Searched(job.image)
        <5>1. CASE elfType = "uefi_dtbs"
          BY <2>1, <5>1 DEF TInv, NoMetadata, Searched
        <5>2. CASE elfType = "xbl_config"
          BY <5>2, MetadataOfXbl DEF TInv, Searched
        <5> QED
          BY <3>3, <5>1, <5>2 DEF TInv, IInv, TypeOK
      <4> QED
        BY <2>4, <3>1, <4>1 DEF TreeKept
    <3> QED
      BY <3>2, <3>3
  <2> QED
    BY <2>3, <2>5, <2>6 DEF TreesInOrder
<1>2. Init => TInv
  BY InitTInv
<1>3. TInv /\ [Next]_vars => TInv'
  BY NextTInv
<1> QED
  BY <1>1, <1>2, <1>3, PTL DEF Spec

-----------------------------------------------------------------------------
(* The certificates.                                                        *)

\* An image whose trees the run can tell apart: an xbl_config has one tree with the
\* property in a segment (a second one brings back what the first was).
OneCarrier(f) ==
  HasMetadata(f) => \A i \in ItemSegments(f) : \A k, m \in Carrying(Data(f, i)) : k = m

Orderly == SectionsAhead(job.image) /\ WholeTrees(job.image) /\ OneCarrier(job.image)

\* The trees to go, by their place among the trees of the segment in memory.
Waiting == {k \in 1..Cardinality(Trees(work)) : Nth(Trees(work), k) - delta \in trees}

\* The segment that is patched, where its trees get their new value: a uefi_dtbs
\* holds it in memory, an xbl_config in the file.
InHand == IF elfType = "uefi_dtbs" THEN work ELSE Data(raw, Target)

AllPatched(b) == Carrying(b) \subseteq WithValue(b, Value)

\* A patched tree stays patched.  While no tree has failed, the segments left behind
\* have the new value in every tree with the property, and the one in hand in every
\* one that is not to go.
SegmentsPatched ==
  Orderly =>
    /\ pc = "tree" /\ elfType = "uefi_dtbs" =>
         /\ pairs = <<>> => work = Data(raw, Target)
         /\ WithValue(Data(raw, Target), Value) \subseteq WithValue(work, Value)
    /\ tally.errors = 0 =>
         /\ pc \notin {"open", "done"} =>
              \A i \in Searched(job.image) \ left : i # 1 => AllPatched(Data(raw, i))
         /\ pc = "tree" => Carrying(work) \subseteq WithValue(InHand, Value) \cup Waiting
         /\ pc = "digests" => AllPatched(Data(raw, Target))

\* The end of a run comes after the last segment, and an .xz run leaves the output
\* alone until then.
OutputInOrder ==
  /\ pc \in {"write", "verdict", "publish"} => left = {} /\ elfType # None
  /\ pc = "publish" => tally.errors = 0
  /\ UsesXz /\ Orderly =>
       \/ out \in {OldOutput, Torn}
       \/ pc = "done" /\ tally.errors = 0 /\ Carriers(out.image) = HasValue(out.image)

VInv == TInv /\ SegmentsPatched /\ OutputInOrder

LEMMA SearchedKept ==
  ASSUME TInv, SectionsAhead(job.image), elfType # None
  PROVE  Searched(raw) = Searched(job.image)
<1>1. CASE elfType = "uefi_dtbs"
  <2>1. PhNum(raw) = PhNum(job.image)
    BY FileFacts DEF TInv
  <2> QED
    BY <1>1, <2>1 DEF TInv, NoMetadata, Searched
<1>2. CASE elfType = "xbl_config"
  BY <1>2, MetadataOfXbl DEF TInv, Searched
<1> QED
  BY <1>1, <1>2 DEF TInv, IInv, TypeOK

\* What TInv says of the trees of a segment.
LEMMA SegmentFacts ==
  ASSUME TInv, Orderly
  PROVE  /\ \A i \in 2..PhNum(raw) :
              /\ Bytes(Data(raw, i)) /\ Clean(Data(raw, i))
              /\ Carrying(Data(raw, i)) = Carrying(Data(job.image, i))
         /\ Carrying(Data(raw, 1)) = {}
         /\ pc = "tree" => /\ Bytes(work) /\ Clean(work)
                           /\ Carrying(work) = Carrying(Data(job.image, Target))
                           /\ Carrying(work) = Carrying(Data(raw, Target))
<1>1. /\ WellFormed(job.image) /\ WellFormed(raw)
      /\ PhNum(raw) = PhNum(job.image) /\ PhNum(raw) \in Nat
  BY FileFacts DEF TInv
<1>2. ASSUME NEW i \in 2..PhNum(raw)
      PROVE  /\ Bytes(Data(raw, i)) /\ Clean(Data(raw, i))
             /\ Carrying(Data(raw, i)) = Carrying(Data(job.image, i))
  <2> DEFINE may == i \in Searched(job.image)
  <2>1. Grown(Data(job.image, i), Data(raw, i), may)
    BY <1>1, <1>2 DEF TInv, TreesKept, Orderly
  <2>2. Bytes(Data(job.image, i)) /\ Bytes(Data(raw, i))
    BY <1>1, <1>2, DataCells
  <2> HIDE DEF may
  <2> QED
    BY <2>1, <2>2, GrownCarrying DEF Grown
<1>3. Carrying(Data(raw, 1)) = {}
  <2>1. Trees(Data(raw, 1)) = {}
    BY <1>1, NoTreeInHeaders
  <2>2. Cardinality(Trees(Data(raw, 1))) = 0
    BY <2>1, FS_EmptySet
  <2> QED
    BY <2>2 DEF Carrying
<1>4. ASSUME pc = "tree"
      PROVE  /\ Bytes(work) /\ Clean(work)
             /\ Carrying(work) = Carrying(Data(job.image, Target))
             /\ Carrying(work) = Carrying(Data(raw, Target))
  <2>1. Grown(Data(job.image, Target), work, TRUE)
    BY <1>4 DEF TInv, TreesKept, Orderly
  <2>2. Bytes(work) /\ Target \in 2..PhNum(raw)
    BY <1>4, TreeFacts DEF TInv
  <2>3. Bytes(Data(job.image, Target))
    BY <1>1, <2>2, DataCells
  <2>4. Carrying(work) = Carrying(Data(job.image, Target))
    BY <2>1, <2>2, <2>3, GrownCarrying
  <2> QED
    BY <1>2, <2>1, <2>2, <2>4 DEF Grown
<1> QED
  BY <1>2, <1>3, <1>4

\* The tree that is patched, by its place, and those that are to go behind it.
CurrentPlace == RankIn(Trees(work), At)

LEMMA PlaceFacts ==
  ASSUME TInv, Orderly, pc = "tree", trees # {}, Current.certs # <<>>
  PROVE  /\ CurrentPlace \in Waiting /\ CurrentPlace \in Carrying(work)
         /\ Bytes(NewWork) /\ Clean(NewWork)
         /\ Carrying(NewWork) = Carrying(work)
         /\ WithValue(NewWork, Value) = WithValue(work, Value) \cup {CurrentPlace}
         /\ \A k \in Waiting \ {CurrentPlace} :
              Nth(Trees(NewWork), k) - (delta + Len(NewTree) - Current.size) \in trees \ {Least(trees)}
         /\ Cardinality(Trees(NewWork)) = Cardinality(Trees(work))
<1> DEFINE more == Len(NewTree) - Current.size
<1>1. /\ Bytes(work) /\ Cellular(work) /\ TreesToGo /\ trees \subseteq Nat /\ delta \in Int
      /\ Clean(work) /\ IInv
  BY TreeFacts, SegmentFacts DEF TInv
<1>2. /\ At \in Trees(work) /\ Bytes(NewWork) /\ more \in Nat
      /\ PatchedAt(NewWork, work, At, more, Value) /\ Grown(work, NewWork, TRUE)
  BY <1>1, CurrentFound
<1>3. Least(trees) \in trees /\ (\A q \in trees : Least(trees) <= q)
  BY <1>1, LeastProperties
<1>4. work[At].certs # <<>>
  BY DEF Current
<1> HIDE DEF more
<1>5. /\ Cardinality(Trees(NewWork)) = Cardinality(Trees(work))
      /\ \A k \in 1..Cardinality(Trees(work)) :
           Nth(Trees(NewWork), k) = Shifted(Nth(Trees(work), k), At, more)
      /\ Carrying(NewWork) = Carrying(work)
      /\ WithValue(NewWork, Value) = WithValue(work, Value) \cup {CurrentPlace}
  <2>1. /\ Bytes(work) /\ At \in Trees(work) /\ work[At].certs # <<>> /\ more \in Nat
        /\ PatchedAt(NewWork, work, At, more, Value)
    BY <1>1, <1>2, <1>4
  <2> QED
    <3>1. PlacesPatched(NewWork, work, At, more, Value)
      BY <2>1, PatchedRanks
    <3> QED
      BY <3>1 DEF CurrentPlace, PlacesPatched
<1>6. CurrentPlace \in 1..Cardinality(Trees(work)) /\ Nth(Trees(work), CurrentPlace) = At
  BY <1>1, <1>2, TreeRanks DEF CurrentPlace
<1>7. At - delta = Least(trees)
  <2>1. Least(trees) \in Int /\ delta \in Int
    <3>1. Least(trees) \in trees
      BY <1>3
    <3>2. trees \subseteq Nat /\ delta \in Int
      BY <1>1
    <3>3. Least(trees) \in Nat
      BY <3>1, <3>2
    <3> QED
      BY <3>2, <3>3
  <2>2. At = Least(trees) + delta
    BY DEF At
  <2> QED
    BY <2>1, <2>2
<1>8. ASSUME NEW k \in Waiting \ {CurrentPlace}
      PROVE  Nth(Trees(NewWork), k) - (delta + more) \in trees \ {Least(trees)}
  <2> DEFINE p == Nth(Trees(work), k)
  <2>1. p \in Trees(work) /\ RankIn(Trees(work), p) = k /\ p - delta \in trees
    BY <1>1, <1>8, TreeRanks DEF Waiting
  <2>2. p # At
    BY <1>8, <2>1 DEF CurrentPlace
  <2>3. p \in Nat /\ At \in Nat
    BY <1>1, <1>2, <2>1, TreesFound
  <2>4. Nth(Trees(NewWork), k) = Shifted(p, At, more)
    BY <1>5, <1>8 DEF Waiting
  <2> HIDE DEF p
  <2>5. p - delta # At - delta /\ At - delta <= p - delta
    BY <1>1, <1>3, <1>7, <2>1, <2>2, <2>3
  <2>6. p > At
    BY <1>1, <2>2, <2>3, <2>5
  <2>7. Shifted(p, At, more) - (delta + more) = p - delta
    BY <1>1, <1>2, <2>3, <2>6 DEF Shifted
  <2> QED
    BY <1>7, <2>1, <2>4, <2>5, <2>7
<1>9. CurrentPlace \in Waiting /\ CurrentPlace \in Carrying(work)
  BY <1>3, <1>4, <1>6, <1>7 DEF Waiting, Carrying
<1>10. delta + more = delta + Len(NewTree) - Current.size
  <2>1. Len(NewTree) \in Int /\ Current.size \in Int
    <3>1. IsCell(Current) /\ Current.kind = "tree" /\ Current.size \in Nat
      BY <1>1, CurrentTree
    <3>2. Value \in DOMAIN CertLen
      BY <1>1, FileFacts, JobFacts
    <3> QED
      BY <3>1, <3>2, PatchedTreeCells DEF NewTree
  <2> QED
    BY <1>1, <2>1 DEF more
<1> QED
  BY <1>2, <1>5, <1>8, <1>9, <1>10 DEF Grown

LEMMA InitVInv == Init => VInv
<1> SUFFICES ASSUME Init
             PROVE  VInv
  OBVIOUS
<1>1. pc = "open" /\ out = OldOutput
  BY DEF Init
<1>2. SegmentsPatched /\ OutputInOrder
  BY <1>1 DEF SegmentsPatched, OutputInOrder
<1> QED
  BY <1>2, InitTInv DEF VInv

\* Nothing is delivered: of the output there is nothing new to say.
LEMMA OutputStays ==
  ASSUME VInv, pc # "done", UNCHANGED <<job, out>>,
         pc' \in {"write", "verdict", "publish"} => left' = {} /\ elfType' # None,
         pc' = "publish" => tally'.errors = 0
  PROVE  OutputInOrder'
<1>1. UNCHANGED <<UsesXz, OldOutput, Value>> /\ (Orderly' <=> Orderly)
  BY DEF UsesXz, OldOutput, Value, Orderly
<1> QED
  BY <1>1 DEF VInv, OutputInOrder

\* Or only the file of a run without .xz is.
LEMMA OutputDelivered ==
  ASSUME VInv, pc # "done", UNCHANGED job, NEW f, Deliver(f),
         pc' \in {"write", "verdict", "publish"} => left' = {} /\ elfType' # None,
         pc' # "publish"
  PROVE  OutputInOrder'
<1>1. UNCHANGED <<UsesXz, OldOutput, Value>> /\ (Orderly' <=> Orderly)
  BY DEF UsesXz, OldOutput, Value, Orderly
<1>2. UsesXz => out' = out
  BY DEF Deliver
<1> QED
  BY <1>1, <1>2 DEF VInv, OutputInOrder

\* The steps that end a run, or that come before the segments are read.
LEMMA EndVInv ==
  ASSUME VInv, TInv', pc # "done", pc' = "done", UNCHANGED <<job, tally>>,
         out' \in {out, Torn}
  PROVE  VInv'
<1>1. UNCHANGED <<UsesXz, OldOutput, Value>> /\ (Orderly' <=> Orderly)
  BY DEF UsesXz, OldOutput, Value, Orderly
<1>2. SegmentsPatched'
  BY <1>1 DEF SegmentsPatched
<1>3. OutputInOrder'
  BY <1>1 DEF VInv, OutputInOrder
<1> QED
  BY <1>2, <1>3 DEF VInv

LEMMA OpenVInv ==
  ASSUME VInv, TInv', OpenUefiDtbs
  PROVE  VInv'
<1>1. /\ pc = "open" /\ pc' = "segment" /\ elfType' = "uefi_dtbs"
      /\ UNCHANGED <<job, raw, tally, out>>
      /\ left' = {i \in 1..PhNum(raw) : Trees(Data(raw, i)) # {}}
      /\ TInv
  BY DEF OpenUefiDtbs, VInv
<1>2. /\ raw = job.image /\ PhNum(raw) \in Nat
  BY <1>1, FileFacts DEF TInv, IInv, SegmentsToGo
<1>3. ~HasMetadata(raw)
  BY DEF OpenUefiDtbs
<1>4. ASSUME NEW i \in Searched(job.image) \ left'
      PROVE  AllPatched(Data(raw, i))'
  <2>1. Trees(Data(raw, i)) = {}
    BY <1>1, <1>2, <1>3, <1>4 DEF Searched
  <2>2. Cardinality(Trees(Data(raw, i))) = 0
    BY <2>1, FS_EmptySet
  <2>3. Carrying(Data(raw, i)) = {}
    BY <2>2 DEF Carrying
  <2> QED
    BY <1>1, <2>3 DEF AllPatched
<1>5. SegmentsPatched'
  BY <1>1, <1>4 DEF SegmentsPatched
<1>6. OutputInOrder'
  BY <1>1, OutputStays
<1> QED
  BY <1>5, <1>6 DEF VInv

LEMMA OpenXblVInv ==
  ASSUME VInv, TInv', OpenXblConfig
  PROVE  VInv'
<1>1. /\ pc = "open" /\ elfType' = "xbl_config" /\ HasMetadata(raw)
      /\ UNCHANGED <<job, raw, tally, out>> /\ TInv
  BY DEF OpenXblConfig, VInv
<1>2. CASE pc' = "done"
  BY <1>1, <1>2, EndVInv
<1>3. CASE pc' # "done"
  <2>1. left' = ItemSegments(raw) /\ pc' = "segment"
    BY <1>3 DEF OpenXblConfig, End
  <2>2. raw = job.image
    BY <1>1 DEF TInv, IInv, SegmentsToGo
  <2>3. Searched(job.image) = left'
    BY <1>1, <2>1, <2>2 DEF Searched
  <2>4. SegmentsPatched'
    BY <1>1, <2>1, <2>3 DEF SegmentsPatched
  <2>5. OutputInOrder'
    BY <1>1, <2>1, OutputStays
  <2> QED
    BY <2>4, <2>5 DEF VInv
<1> QED
  BY <1>2, <1>3

LEMMA ReadSegmentVInv ==
  ASSUME VInv, TInv', ReadSegment
  PROVE  VInv'
<1>1. /\ pc = "segment" /\ left # {} /\ pc' = "tree" /\ work' = Data(raw, Target)
      /\ trees' = Trees(work') /\ delta' = 0
      /\ UNCHANGED <<job, elfType, raw, left, tally, out>> /\ TInv
  BY DEF ReadSegment, VInv
<1>2. Target' = Target /\ Target \in 2..PhNum(raw)
  BY <1>1, FileFacts DEF Target, TInv
<1>3. UNCHANGED Value /\ (Orderly' <=> Orderly)
  BY <1>1 DEF Value, Orderly
<1>4. ASSUME Orderly
      PROVE  Carrying(work') \subseteq Waiting'
  <2>1. Bytes(work')
    BY <1>1, <1>2, <1>4, SegmentFacts
  <2>2. ASSUME NEW k \in 1..Cardinality(Trees(work'))
        PROVE  Nth(Trees(work'), k) - delta' \in trees'
    <3>1. Nth(Trees(work'), k) \in Trees(work') /\ Nth(Trees(work'), k) \in Nat
      BY <2>1, TreeRanks, TreesFound
    <3>2. Nth(Trees(work'), k) - 0 = Nth(Trees(work'), k)
      BY <3>1
    <3> QED
      BY <1>1, <3>1, <3>2
  <2> QED
    BY <2>2 DEF Carrying, Waiting
<1>5. SegmentsPatched'
  BY <1>1, <1>2, <1>3, <1>4 DEF VInv, SegmentsPatched, AllPatched
<1>6. OutputInOrder'
  BY <1>1, OutputStays
<1> QED
  BY <1>5, <1>6 DEF VInv

\* No tree of the segment is lost on the way to the next one.
LEMMA SkipVInv ==
  ASSUME VInv, TInv', SkipTree \/ TreeFails
  PROVE  VInv'
<1>1. /\ pc = "tree" /\ pc' = "tree" /\ trees # {} /\ trees' = trees \ {Least(trees)}
      /\ UNCHANGED <<job, elfType, raw, left, work, delta, pairs, out>> /\ TInv
  BY DEF SkipTree, TreeFails, VInv
<1>2. Target' = Target /\ UNCHANGED Value /\ (Orderly' <=> Orderly) /\ InHand' = InHand
  BY <1>1 DEF Target, Value, Orderly, InHand
<1>3. ASSUME Orderly, tally'.errors = 0
      PROVE  tally'.errors = tally.errors /\ Current.certs = <<>>
  <2>1. tally.errors \in Nat /\ tally \in [patched : Nat, errors : Nat]
    BY <1>1, TreeFacts DEF TInv
  <2>2. ~TreeFails
    <3>1. ASSUME TreeFails
          PROVE  FALSE
      <4>1. tally'.errors = tally.errors + 1
        BY <2>1, <3>1 DEF TreeFails
      <4> QED
        BY <1>3, <2>1, <4>1
    <3> QED
      BY <3>1
  <2> QED
    BY <2>2 DEF SkipTree
<1>4. ASSUME Orderly, tally'.errors = 0, NEW k \in Waiting \cap Carrying(work)
      PROVE  k \in Waiting'
  <2> DEFINE p == Nth(Trees(work), k)
  <2>1. /\ Bytes(work) /\ trees \subseteq Nat /\ delta \in Int
    BY <1>1, TreeFacts DEF TInv
  <2>2. p \in Trees(work) /\ p \in Nat /\ p - delta \in trees /\ work[p].certs # <<>>
    BY <1>4, <2>1, TreeRanks, TreesFound DEF Waiting, Carrying
  <2>3. Current.certs = <<>>
    BY <1>3, <1>4
  <2>4. p # At
    BY <2>2, <2>3 DEF Current
  <2>5. Least(trees) \in Nat
    BY <1>1, <2>1, LeastProperties
  <2> HIDE DEF p
  <2>6. p - delta # Least(trees)
    BY <2>1, <2>2, <2>4, <2>5 DEF At
  <2> QED
    BY <1>1, <1>4, <2>2, <2>6 DEF Waiting, p
<1>5. SegmentsPatched'
  <2>1. ASSUME Orderly
        PROVE  elfType' = "uefi_dtbs" =>
                 /\ pairs' = <<>> => work' = Data(raw', Target')
                 /\ WithValue(Data(raw', Target'), Value') \subseteq WithValue(work', Value')
    BY <1>1, <1>2, <2>1 DEF VInv, SegmentsPatched
  <2>2. ASSUME Orderly, tally'.errors = 0
        PROVE  /\ \A i \in Searched(job.image) \ left : i # 1 => AllPatched(Data(raw, i))
               /\ Carrying(work') \subseteq WithValue(InHand', Value') \cup Waiting'
    <3>1. tally.errors = 0
      BY <1>3, <2>2
    <3>2. /\ \A i \in Searched(job.image) \ left : i # 1 => AllPatched(Data(raw, i))
          /\ Carrying(work) \subseteq WithValue(InHand, Value) \cup Waiting
      BY <1>1, <2>2, <3>1 DEF VInv, SegmentsPatched
    <3> QED
      BY <1>1, <1>2, <1>4, <2>2, <3>2
  <2> QED
    BY <1>1, <1>2, <2>1, <2>2 DEF SegmentsPatched, AllPatched
<1>6. OutputInOrder'
  BY <1>1, OutputStays
<1> QED
  BY <1>5, <1>6 DEF VInv

LEMMA PatchUefiTreeVInv ==
  ASSUME VInv, TInv', PatchUefiTree
  PROVE  VInv'
<1>1. /\ pc = "tree" /\ pc' = "tree" /\ trees # {} /\ elfType = "uefi_dtbs" /\ Current.certs # <<>>
      /\ work' = NewWork /\ delta' = delta + Len(NewTree) - Current.size
      /\ trees' = trees \ {Least(trees)} /\ tally'.errors = tally.errors
      /\ UNCHANGED <<job, elfType, raw, left, out>> /\ TInv /\ IInv
  BY DEF PatchUefiTree, VInv, TInv, IInv, TypeOK
<1>2. pairs' # <<>>
  <2> DEFINE e == <<Slice(work, At, Current.size), NewTree>>
  <2>1. pairs' = Append(pairs, e)
    BY DEF PatchUefiTree
  <2>2. PICK S : pairs \in Seq(S)
    BY <1>1, TreeFacts, BytesElim
  <2> HIDE DEF e
  <2>3. Len(Append(pairs, e)) = Len(pairs) + 1 /\ Len(pairs) \in Nat
    <3>1. pairs \in Seq(S \cup {e}) /\ e \in S \cup {e}
      BY <2>2
    <3> QED
      BY <3>1, AppendProperties, LenProperties
  <2> QED
    BY <2>1, <2>3
<1>3. Target' = Target /\ UNCHANGED Value /\ (Orderly' <=> Orderly)
  BY <1>1 DEF Target, Value, Orderly
<1>4. ASSUME Orderly
      PROVE  /\ Carrying(NewWork) = Carrying(work)
             /\ WithValue(NewWork, Value) = WithValue(work, Value) \cup {CurrentPlace}
             /\ \A k \in Waiting \ {CurrentPlace} :
                  Nth(Trees(NewWork), k) - (delta + Len(NewTree) - Current.size) \in trees \ {Least(trees)}
             /\ Cardinality(Trees(NewWork)) = Cardinality(Trees(work))
             /\ WithValue(Data(raw, Target), Value) \subseteq WithValue(work, Value)
  BY <1>1, <1>4, PlaceFacts DEF VInv, SegmentsPatched
<1>5. ASSUME Orderly, tally.errors = 0
      PROVE  Carrying(work') \subseteq WithValue(InHand', Value') \cup Waiting'
  <2>1. Carrying(work) \subseteq WithValue(work, Value) \cup Waiting
    BY <1>1, <1>5 DEF VInv, SegmentsPatched, InHand
  <2>2. InHand' = NewWork
    BY <1>1 DEF InHand
  <2>3. Waiting \ {CurrentPlace} \subseteq Waiting'
    BY <1>1, <1>4, <1>5 DEF Waiting
  <2> QED
    BY <1>1, <1>3, <1>4, <1>5, <2>1, <2>2, <2>3
<1>6. ASSUME Orderly
      PROVE  WithValue(Data(raw', Target'), Value') \subseteq WithValue(work', Value')
  BY <1>1, <1>3, <1>4, <1>6
<1>7. SegmentsPatched'
  BY <1>1, <1>2, <1>3, <1>5, <1>6 DEF VInv, SegmentsPatched, AllPatched
<1>8. OutputInOrder'
  BY <1>1, OutputStays
<1> QED
  BY <1>7, <1>8 DEF VInv

LEMMA ReplaceXblTreeVInv ==
  ASSUME VInv, TInv', ReplaceXblTree
  PROVE  VInv'
<1> DEFINE i == Target
<1>1. /\ pc = "tree" /\ pc' = "tree" /\ trees # {} /\ elfType = "xbl_config" /\ Current.certs # <<>>
      /\ tally'.errors = tally.errors /\ Deliver(raw')
      /\ UNCHANGED <<job, elfType, left, work, delta, pairs>> /\ TInv /\ IInv
  BY DEF ReplaceXblTree, VInv, TInv, IInv, TypeOK
<1>2. Target' = Target /\ UNCHANGED Value /\ (Orderly' <=> Orderly)
  BY <1>1 DEF Target, Value, Orderly
<1>3. /\ i \in ItemSegments(job.image) /\ i \in 3..PhNum(raw) /\ HasMetadata(job.image)
      /\ i \in left /\ PhNum(raw) \in Nat /\ WellFormed(raw) /\ WellFormed(raw')
      /\ PhNum(raw') = PhNum(raw) /\ PhNum(raw) = PhNum(job.image) /\ Bytes(NewWork)
      /\ SectionsAhead(job.image) =>
           /\ \A j \in 2..PhNum(raw) : j # i => Neutral(Data(raw, j), Data(raw', j))
           /\ Neutral(NewWork, Data(raw', i))
  <2>1. HasMetadata(job.image)
    BY <1>1 DEF IInv, MetadataKept
  <2>2. left # {}
    BY <1>1, TreeFacts
  <2> QED
    BY <1>1, <2>1, <2>2, XblTreeWritten, FileFacts
<1>4. ASSUME Orderly
      PROVE  /\ AllPatched(Data(raw', i))
             /\ Carrying(Data(raw', i)) = Carrying(work)
  <2>1. /\ CurrentPlace \in Carrying(work) /\ Bytes(NewWork) /\ Clean(NewWork)
        /\ Carrying(NewWork) = Carrying(work)
        /\ WithValue(NewWork, Value) = WithValue(work, Value) \cup {CurrentPlace}
    BY <1>1, <1>4, PlaceFacts
  <2>2. Bytes(Data(raw', i))
    <3>1. i \in 1..PhNum(raw')
      BY <1>3
    <3> QED
      BY <1>3, <3>1, DataCells
  <2>3. /\ Carrying(Data(raw', i)) = Carrying(NewWork)
        /\ WithValue(Data(raw', i), Value) = WithValue(NewWork, Value)
    BY <1>3, <1>4, <2>1, <2>2, NeutralRanks DEF Orderly
  <2>4. Carrying(work) = Carrying(Data(job.image, i))
    BY <1>1, <1>4, SegmentFacts
  <2>5. \A k \in Carrying(work) : k = CurrentPlace
    BY <1>3, <1>4, <2>1, <2>4 DEF Orderly, OneCarrier
  <2> QED
    BY <2>1, <2>3, <2>5 DEF AllPatched
<1>5. ASSUME Orderly, NEW j \in Searched(job.image) \ left, AllPatched(Data(raw, j))
      PROVE  AllPatched(Data(raw', j))
  <2>1. j \in 2..PhNum(raw) /\ j \in 1..PhNum(raw') /\ j # i
    BY <1>3, <1>5 DEF Searched, ItemSegments
  <2>2. Bytes(Data(raw, j)) /\ Clean(Data(raw, j)) /\ Bytes(Data(raw', j))
    BY <1>1, <1>3, <1>5, <2>1, SegmentFacts, DataCells
  <2>3. Neutral(Data(raw, j), Data(raw', j))
    BY <1>3, <1>5, <2>1 DEF Orderly
  <2> QED
    BY <1>5, <2>2, <2>3, NeutralRanks DEF AllPatched
<1>6. SegmentsPatched'
  <2>1. elfType' # "uefi_dtbs"
    BY <1>1
  <2>2. ASSUME Orderly, tally.errors = 0
        PROVE  /\ \A j \in Searched(job.image) \ left : j # 1 => AllPatched(Data(raw', j))
               /\ Carrying(work') \subseteq WithValue(InHand', Value') \cup Waiting'
    <3>1. \A j \in Searched(job.image) \ left : j # 1 => AllPatched(Data(raw, j))
      BY <1>1, <2>2 DEF VInv, SegmentsPatched
    <3>2. InHand' = Data(raw', i)
      BY <1>1, <1>2, <2>1 DEF InHand
    <3>3. Carrying(work) \subseteq WithValue(Data(raw', i), Value)
      BY <1>4, <2>2 DEF AllPatched
    <3> QED
      BY <1>1, <1>2, <1>5, <2>2, <3>1, <3>2, <3>3
  <2> QED
    BY <1>1, <1>2, <2>1, <2>2 DEF SegmentsPatched, AllPatched
<1>7. OutputInOrder'
  BY <1>1, OutputDelivered
<1> QED
  BY <1>6, <1>7 DEF VInv

LEMMA WriteSegmentVInv ==
  ASSUME VInv, TInv', WriteSegment
  PROVE  VInv'
<1>1. /\ pc = "tree" /\ pc' = "digests" /\ trees = {} /\ elfType = "uefi_dtbs"
      /\ UNCHANGED <<job, elfType, left, work, trees, delta, tally, out>> /\ TInv /\ IInv
  BY DEF WriteSegment, VInv, TInv
<1>2. Target' = Target /\ UNCHANGED Value /\ (Orderly' <=> Orderly) /\ Target \in left
  BY <1>1, TreeFacts DEF Target, Value, Orderly
<1>3. /\ Target \in 2..PhNum(raw) /\ PhNum(raw) = PhNum(job.image) /\ PhNum(raw) \in Nat
      /\ SectionsAhead(job.image) =>
           /\ Data(raw', Target) = work
           /\ \A j \in 2..PhNum(raw) : j # Target => Data(raw', j) = Data(raw, j)
  BY <1>1, SegmentWritten, FileFacts
<1>4. ASSUME Orderly, tally.errors = 0
      PROVE  /\ AllPatched(Data(raw', Target))
             /\ \A j \in Searched(job.image) \ left : j # 1 => AllPatched(Data(raw', j))
  <2>1. /\ Carrying(work) \subseteq WithValue(work, Value) \cup Waiting
        /\ \A j \in Searched(job.image) \ left : j # 1 => AllPatched(Data(raw, j))
    BY <1>1, <1>4 DEF VInv, SegmentsPatched, InHand
  <2>2. Waiting = {}
    BY <1>1 DEF Waiting
  <2>3. AllPatched(Data(raw', Target))
    BY <1>3, <1>4, <2>1, <2>2 DEF AllPatched, Orderly
  <2>4. ASSUME NEW j \in Searched(job.image) \ left, j # 1
        PROVE  AllPatched(Data(raw', j))
    <3>1. j \in 2..PhNum(raw) /\ j # Target
      BY <1>2, <1>3, <2>4 DEF Searched, ItemSegments
    <3> QED
      BY <1>3, <1>4, <2>1, <2>4, <3>1 DEF Orderly
  <2> QED
    BY <2>3, <2>4
<1>5. SegmentsPatched'
  BY <1>1, <1>2, <1>4 DEF SegmentsPatched, AllPatched
<1>6. OutputInOrder'
  BY <1>1, OutputStays
<1> QED
  BY <1>5, <1>6 DEF VInv

LEMMA ReplaceDigestsVInv ==
  ASSUME VInv, TInv', ReplaceDigests
  PROVE  VInv'
<1>1. /\ pc = "digests" /\ pc' = "segment" /\ left' = left \ {Target}
      /\ raw' = DigestsReplaced(raw, pairs, HashFirst(raw, Target), HashLast(raw, Target))
      /\ UNCHANGED <<job, elfType, tally, out>> /\ TInv /\ IInv
  BY DEF ReplaceDigests, VInv, TInv
<1>2. UNCHANGED Value /\ (Orderly' <=> Orderly)
  BY <1>1 DEF Value, Orderly
<1>3. /\ WellFormed(raw) /\ PhNum(raw) \in Nat /\ PhNum(raw) = PhNum(job.image)
      /\ HeadersFollow(raw', raw)
      /\ \A j \in 1..PhNum(raw) : Neutral(Data(raw, j), Data(raw', j))
  BY <1>1, FileFacts, DigestsFile
<1>4. WellFormed(raw') /\ PhNum(raw') = PhNum(raw)
  BY <1>3 DEF HeadersFollow
<1>5. ASSUME Orderly, tally.errors = 0, NEW j \in Searched(job.image) \ left', j # 1
      PROVE  AllPatched(Data(raw', j))
  <2>1. j \in 2..PhNum(raw) /\ j \in 1..PhNum(raw)
    BY <1>3, <1>5 DEF Searched, ItemSegments
  <2>2. AllPatched(Data(raw, j))
    BY <1>1, <1>5 DEF VInv, SegmentsPatched
  <2>3. Bytes(Data(raw, j)) /\ Clean(Data(raw, j)) /\ Bytes(Data(raw', j))
    BY <1>1, <1>3, <1>4, <1>5, <2>1, SegmentFacts, DataCells
  <2> QED
    BY <1>3, <2>1, <2>2, <2>3, NeutralRanks DEF AllPatched
<1>6. SegmentsPatched'
  BY <1>1, <1>2, <1>5 DEF SegmentsPatched, AllPatched
<1>7. OutputInOrder'
  BY <1>1, OutputStays
<1> QED
  BY <1>6, <1>7 DEF VInv

LEMMA LeaveSegmentVInv ==
  ASSUME VInv, TInv', LeaveSegment
  PROVE  VInv'
<1>1. /\ pc = "tree" /\ pc' = "segment" /\ left' = left \ {Target} /\ trees = {}
      /\ elfType = "xbl_config" \/ pairs = <<>>
      /\ UNCHANGED <<job, elfType, raw, tally, out>> /\ TInv /\ IInv
  BY DEF LeaveSegment, VInv, TInv
<1>2. UNCHANGED Value /\ (Orderly' <=> Orderly)
  BY <1>1 DEF Value, Orderly
<1>3. ASSUME Orderly, tally.errors = 0
      PROVE  AllPatched(Data(raw, Target))
  <2>1. Waiting = {}
    BY <1>1 DEF Waiting
  <2>2. Carrying(work) \subseteq WithValue(InHand, Value) /\ Carrying(work) = Carrying(Data(raw, Target))
    BY <1>1, <1>3, <2>1, SegmentFacts DEF VInv, SegmentsPatched
  <2>3. InHand = Data(raw, Target)
    BY <1>1, <1>3 DEF VInv, SegmentsPatched, InHand
  <2> QED
    BY <2>2, <2>3 DEF AllPatched
<1>4. SegmentsPatched'
  BY <1>1, <1>2, <1>3 DEF VInv, SegmentsPatched, AllPatched
<1>5. OutputInOrder'
  BY <1>1, OutputStays
<1> QED
  BY <1>4, <1>5 DEF VInv

\* Between the last segment and the end of the run the file stays what it is.
LEMMA ClosingVInv ==
  ASSUME VInv, TInv', LastSegment \/ WriteUefi \/ Verdict
  PROVE  VInv'
<1>1. /\ pc \in {"segment", "write", "verdict"}
      /\ UNCHANGED <<job, elfType, raw, left, tally>> /\ TInv
  BY DEF LastSegment, WriteUefi, Verdict, VInv, segment
<1>2. /\ pc' \in {"write", "verdict", "publish", "done"} /\ left = {} /\ elfType # None
      /\ pc' = "publish" => tally.errors = 0
      /\ pc' = "done" => out' = out
  <2>1. tally.errors \in Nat
    BY <1>1 DEF TInv, IInv, TypeOK
  <2>2. CASE LastSegment
    BY <1>1, <2>2 DEF LastSegment, TInv, IInv, SegmentsToGo
  <2>3. CASE WriteUefi
    BY <2>3 DEF WriteUefi, VInv, OutputInOrder
  <2>4. CASE Verdict
    BY <2>1, <2>4 DEF Verdict, End, VInv, OutputInOrder
  <2> QED
    BY <2>2, <2>3, <2>4
<1>3. UNCHANGED Value /\ (Orderly' <=> Orderly)
  BY <1>1 DEF Value, Orderly
<1>4. CASE pc' = "done"
  BY <1>1, <1>2, <1>4, EndVInv
<1>5. CASE pc' # "done"
  <2>1. SegmentsPatched'
    BY <1>1, <1>2, <1>3 DEF VInv, SegmentsPatched, AllPatched
  <2>2. OutputInOrder'
    <3>1. CASE LastSegment \/ Verdict
      <4>1. out' = out
        BY <3>1 DEF LastSegment, Verdict
      <4> QED
        BY <1>1, <1>2, <4>1, OutputStays
    <3>2. CASE WriteUefi
      <4>1. Deliver(raw) /\ pc' = "verdict"
        BY <3>2 DEF WriteUefi
      <4> QED
        BY <1>1, <1>2, <4>1, OutputDelivered
    <3> QED
      BY <3>1, <3>2
  <2> QED
    BY <2>1, <2>2 DEF VInv
<1> QED
  BY <1>4, <1>5

\* With every segment behind, all the trees with the property have the value.
LEMMA AllHaveValue ==
  ASSUME VInv, Orderly, pc \in {"write", "verdict", "publish"}, tally.errors = 0
  PROVE  Carriers(raw) = HasValue(raw)
<1>1. TInv /\ left = {} /\ elfType # None
  BY DEF VInv, OutputInOrder
<1>2. Searched(raw) = Searched(job.image)
  BY <1>1, SearchedKept DEF Orderly
<1>3. ASSUME NEW t \in Carriers(raw)
      PROVE  TreeOf(raw, t).certs[1] = Value
  <2>1. t \in TreesOf(raw) /\ t[1] \in Searched(raw) /\ TreeOf(raw, t).certs # <<>>
    BY DEF Carriers
  <2>2. PICK i \in 1..PhNum(raw) : \E k \in 1..Cardinality(Trees(Data(raw, i))) : t = <<i, k>>
    BY <2>1 DEF TreesOf
  <2>3. t[1] = i /\ t[2] \in 1..Cardinality(Trees(Data(raw, i)))
    BY <2>2
  <2>4. t[2] \in Carrying(Data(raw, i)) /\ TreeOf(raw, t) = Data(raw, i)[Nth(Trees(Data(raw, i)), t[2])]
    BY <2>1, <2>3 DEF Carrying, TreeOf, PlaceOf
  <2>5. i # 1
    BY <1>1, <2>4, SegmentFacts
  <2>6. AllPatched(Data(raw, i))
    BY <1>1, <1>2, <2>1, <2>3, <2>5 DEF VInv, SegmentsPatched
  <2> QED
    BY <2>4, <2>6 DEF AllPatched, WithValue
<1> QED
  BY <1>3 DEF HasValue

LEMMA NextVInv == VInv /\ [Next]_vars => VInv'
<1> SUFFICES ASSUME VInv, [Next]_vars
             PROVE  VInv'
  OBVIOUS
<1>1. TInv'
  BY NextTInv DEF VInv
<1>2. CASE OpenUefiDtbs \/ OpenXblConfig
  BY <1>1, <1>2, OpenVInv, OpenXblVInv
<1>3. CASE ReadSegment
  BY <1>1, <1>3, ReadSegmentVInv
<1>4. CASE SkipTree \/ TreeFails
  BY <1>1, <1>4, SkipVInv
<1>5. CASE PatchUefiTree
  BY <1>1, <1>5, PatchUefiTreeVInv
<1>6. CASE ReplaceXblTree
  BY <1>1, <1>6, ReplaceXblTreeVInv
<1>7. CASE WriteSegment
  BY <1>1, <1>7, WriteSegmentVInv
<1>8. CASE ReplaceDigests
  BY <1>1, <1>8, ReplaceDigestsVInv
<1>9. CASE LeaveSegment
  BY <1>1, <1>9, LeaveSegmentVInv
<1>10. CASE LastSegment \/ WriteUefi \/ Verdict
  BY <1>1, <1>10, ClosingVInv
<1>11. CASE Undetected
  BY <1>1, <1>11, EndVInv DEF Undetected, End
<1>12. CASE Dies
  BY <1>1, <1>12, EndVInv DEF Dies, End
<1>13. CASE Publish
  <2>1. /\ pc = "publish" /\ pc' = "done" /\ out' = [by |-> "run", image |-> raw]
        /\ UNCHANGED <<job, elfType, raw, tally>>
    BY <1>13 DEF Publish, End
  <2>2. UNCHANGED <<UsesXz, OldOutput, Value>> /\ (Orderly' <=> Orderly)
    BY <2>1 DEF UsesXz, OldOutput, Value, Orderly
  <2>3. SegmentsPatched'
    BY <2>1 DEF SegmentsPatched
  <2>4. tally.errors = 0
    BY <2>1 DEF VInv, OutputInOrder
  <2>5. ASSUME Orderly
        PROVE  Carriers(out.image)' = HasValue(out.image)'
    <3>1. Carriers(raw) = HasValue(raw)
      BY <2>1, <2>4, <2>5, AllHaveValue
    <3>2. out'.image = raw
      BY <2>1
    <3>3. Carriers(out.image)' = Carriers(raw)
      BY <3>2
    <3>4. HasValue(out.image)' = HasValue(raw)
      BY <2>2, <3>2, <3>3 DEF HasValue
    <3> QED
      BY <3>1, <3>3, <3>4
  <2>6. OutputInOrder'
    BY <2>1, <2>2, <2>4, <2>5 DEF OutputInOrder
  <2> QED
    BY <1>1, <2>3, <2>6 DEF VInv
<1>14. CASE UNCHANGED vars
  <2>1. UNCHANGED <<UsesXz, OldOutput, Value, Target, InHand, Waiting>> /\ (Orderly' <=> Orderly)
    BY <1>14 DEF vars, segment, UsesXz, OldOutput, Value, Target, InHand, Waiting, Orderly
  <2>2. SegmentsPatched'
    BY <1>14, <2>1 DEF vars, segment, VInv, SegmentsPatched, AllPatched
  <2>3. OutputInOrder'
    BY <1>14, <2>1 DEF vars, segment, VInv, OutputInOrder, Carriers, HasValue
  <2> QED
    BY <1>1, <2>2, <2>3 DEF VInv
<1> QED
  BY <1>2, <1>3, <1>4, <1>5, <1>6, <1>7, <1>8, <1>9, <1>10, <1>11, <1>12, <1>13, <1>14 DEF Next, Work

\* Whatever fails, and wherever the run dies: what an .xz run leaves at the output
\* path is the file that was there, or a torn one, or an image in which every tree
\* with the property has the new value.
THEOREM PatchedWhole == Spec => [](Orderly => XzAllOrNothing)
<1>1. Init => VInv
  BY InitVInv
<1>2. VInv /\ [Next]_vars => VInv'
  BY NextVInv
<1>3. VInv => (Orderly => XzAllOrNothing)
  BY DEF VInv, OutputInOrder, XzAllOrNothing
<1> QED
  BY <1>1, <1>2, <1>3, PTL DEF Spec

-----------------------------------------------------------------------------
(* The contract.                                                            *)

LEMMA CarrierPlaces ==
  ASSUME NEW f
  PROVE  /\ \A t : t \in Carriers(f) <=>
               \E i \in Searched(f) : \E k \in Carrying(Data(f, i)) : t = <<i, k>>
         /\ \A t : t \in HasValue(f) <=>
               \E i \in Searched(f) : \E k \in WithValue(Data(f, i), Value) : t = <<i, k>>
<1>1. Searched(f) \subseteq 1..PhNum(f)
  <2>1. ItemSegments(f) \subseteq 1..PhNum(f)
    <3>1. 3..PhNum(f) \subseteq 1..PhNum(f)
      OBVIOUS
    <3> QED
      BY <3>1 DEF ItemSegments
  <2> QED
    BY <2>1 DEF Searched
<1>2. ASSUME NEW i \in 1..PhNum(f), NEW k
      PROVE  /\ <<i, k>> \in TreesOf(f) <=> k \in 1..Cardinality(Trees(Data(f, i)))
             /\ TreeOf(f, <<i, k>>) = Data(f, i)[Nth(Trees(Data(f, i)), k)]
             /\ <<i, k>>[1] = i
  <2>1. <<i, k>> \in TreesOf(f) <=> k \in 1..Cardinality(Trees(Data(f, i)))
    BY DEF TreesOf
  <2> QED
    BY <2>1 DEF TreeOf, PlaceOf
<1>3. ASSUME NEW t
      PROVE  t \in Carriers(f) <=> \E i \in Searched(f) : \E k \in Carrying(Data(f, i)) : t = <<i, k>>
  <2>1. ASSUME t \in Carriers(f)
        PROVE  \E i \in Searched(f) : \E k \in Carrying(Data(f, i)) : t = <<i, k>>
    <3>1. t \in TreesOf(f) /\ t[1] \in Searched(f) /\ TreeOf(f, t).certs # <<>>
      BY <2>1 DEF Carriers
    <3>2. PICK i \in 1..PhNum(f) : \E k \in 1..Cardinality(Trees(Data(f, i))) : t = <<i, k>>
      BY <3>1 DEF TreesOf
    <3>3. PICK k \in 1..Cardinality(Trees(Data(f, i))) : t = <<i, k>>
      BY <3>2
    <3> QED
      BY <1>2, <3>1, <3>3 DEF Carrying
  <2>2. ASSUME NEW i \in Searched(f), NEW k \in Carrying(Data(f, i)), t = <<i, k>>
        PROVE  t \in Carriers(f)
    BY <1>1, <1>2, <2>2 DEF Carriers, Carrying
  <2> QED
    BY <2>1, <2>2
<1>4. ASSUME NEW t
      PROVE  t \in HasValue(f) <=>
               \E i \in Searched(f) : \E k \in WithValue(Data(f, i), Value) : t = <<i, k>>
  <2>1. ASSUME NEW i \in Searched(f), NEW k, t = <<i, k>>
        PROVE  TreeOf(f, t) = Data(f, i)[Nth(Trees(Data(f, i)), k)]
    BY <1>1, <1>2, <2>1
  <2> QED
    BY <1>3, <2>1 DEF HasValue, WithValue
<1> QED
  BY <1>3, <1>4

\* The patched trees of a segment: of a uefi_dtbs, those of the segment in memory.
SeenAt(i) ==
  IF elfType = "uefi_dtbs" /\ pc = "tree" /\ i = Target
  THEN WithValue(work, Value) ELSE WithValue(Data(raw, i), Value)

\* The trees with the property, and the patched ones among them, segment by segment.
SeenInPlace ==
  /\ \A t : t \in PatchedSeen <=>
       \E i \in Searched(job.image) \ {1} : \E k \in SeenAt(i) : t = <<i, k>>
  /\ PatchedSeen \subseteq Carriers(job.image)
  /\ pc # "tree" => PatchedSeen = HasValue(raw)
  /\ Carriers(raw) = Carriers(job.image)

LEMMA SeenPlaces == TInv /\ Orderly => SeenInPlace
<1> SUFFICES ASSUME TInv, Orderly
             PROVE  SeenInPlace
  OBVIOUS
<1>1. /\ WellFormed(job.image) /\ WellFormed(raw)
      /\ PhNum(raw) = PhNum(job.image) /\ PhNum(raw) \in Nat
      /\ \A i \in Searched(job.image) : i # 1 => i \in 2..PhNum(raw)
  BY FileFacts DEF TInv, Searched, ItemSegments
<1>2. Searched(raw) = Searched(job.image)
  <2>1. CASE elfType = None
    BY <2>1 DEF TInv, NoMetadata
  <2>2. CASE elfType # None
    BY <2>2, SearchedKept DEF Orderly
  <2> QED
    BY <2>1, <2>2
<1>3. ASSUME NEW i \in Searched(job.image)
      PROVE  Carrying(Data(raw, i)) = Carrying(Data(job.image, i))
  <2>1. CASE i = 1
    <3>1. Carrying(Data(raw, 1)) = {}
      BY SegmentFacts
    <3>2. Trees(Data(job.image, 1)) = {}
      BY <1>1, NoTreeInHeaders
    <3>3. Cardinality(Trees(Data(job.image, 1))) = 0
      BY <3>2, FS_EmptySet
    <3>4. Carrying(Data(job.image, 1)) = {}
      BY <3>3 DEF Carrying
    <3> QED
      BY <2>1, <3>1, <3>4
  <2>2. CASE i # 1
    BY <1>1, <2>2, SegmentFacts
  <2> QED
    BY <2>1, <2>2
<1>4. Carriers(raw) = Carriers(job.image)
  <2>1. \A t : t \in Carriers(raw) <=> t \in Carriers(job.image)
    BY <1>2, <1>3, CarrierPlaces
  <2> QED
    BY <2>1
<1>5. \A t : t \in HasValue(raw) <=>
        \E i \in Searched(job.image) \ {1} : \E k \in WithValue(Data(raw, i), Value) : t = <<i, k>>
  <2>1. WithValue(Data(raw, 1), Value) = {}
    BY SegmentFacts DEF WithValue
  <2> QED
    BY <1>2, <2>1, CarrierPlaces
<1>6. CASE elfType = "uefi_dtbs" /\ pc = "tree"
  <2>1. /\ Target \in Searched(job.image) \ {1} /\ Target \in 2..PhNum(raw)
        /\ Carrying(work) = Carrying(Data(job.image, Target))
    <3>1. Target \in 2..PhNum(raw) /\ Target \in 1..PhNum(job.image) /\ Target # 1
      BY <1>1, <1>6, TreeFacts DEF TInv
    <3> QED
      BY <1>6, <3>1, SegmentFacts DEF TInv, NoMetadata, Searched
  <2> DEFINE inMemory == {<<Target, k>> : k \in WithValue(work, Value)}
  <2>2. PatchedSeen = inMemory \cup {t \in HasValue(raw) : t[1] # Target}
    BY <1>6 DEF PatchedSeen, WithValue, Carrying
  <2>3. ASSUME NEW t
        PROVE  t \in PatchedSeen <=>
                 \E i \in Searched(job.image) \ {1} : \E k \in SeenAt(i) : t = <<i, k>>
    <3>1. SeenAt(Target) = WithValue(work, Value)
      BY <1>6 DEF SeenAt
    <3>2. \A i : i # Target => SeenAt(i) = WithValue(Data(raw, i), Value)
      BY DEF SeenAt
    <3>3. t \in inMemory => \E k \in SeenAt(Target) : t = <<Target, k>>
      BY <3>1
    <3>4. ASSUME t \in HasValue(raw), t[1] # Target
          PROVE  \E i \in Searched(job.image) \ {1} : \E k \in SeenAt(i) : t = <<i, k>>
      <4>1. PICK i \in Searched(job.image) \ {1} : \E k \in WithValue(Data(raw, i), Value) : t = <<i, k>>
        BY <1>5, <3>4
      <4>2. i # Target
        BY <3>4, <4>1
      <4> QED
        BY <3>2, <4>1, <4>2
    <3>5. ASSUME NEW i \in Searched(job.image) \ {1}, NEW k \in SeenAt(i), t = <<i, k>>
          PROVE  t \in PatchedSeen
      <4>1. CASE i = Target
        BY <2>2, <3>1, <3>5, <4>1
      <4>2. CASE i # Target
        <5>1. t \in HasValue(raw)
          BY <1>5, <3>2, <3>5, <4>2
        <5>2. t[1] # Target
          BY <3>5, <4>2
        <5> QED
          BY <2>2, <5>1, <5>2
      <4> QED
        BY <4>1, <4>2
    <3> QED
      BY <2>1, <2>2, <3>3, <3>4, <3>5
  <2>4. PatchedSeen \subseteq Carriers(job.image)
    <3>1. inMemory \subseteq Carriers(job.image)
      BY <2>1, CarrierPlaces DEF WithValue
    <3>2. HasValue(raw) \subseteq Carriers(job.image)
      BY <1>4 DEF HasValue
    <3> QED
      BY <2>2, <3>1, <3>2
  <2> QED
    BY <1>4, <1>6, <2>3, <2>4 DEF SeenInPlace
<1>7. CASE ~(elfType = "uefi_dtbs" /\ pc = "tree")
  <2>1. PatchedSeen = HasValue(raw) /\ \A i : SeenAt(i) = WithValue(Data(raw, i), Value)
    BY <1>7 DEF PatchedSeen, SeenAt
  <2>2. HasValue(raw) \subseteq Carriers(job.image)
    BY <1>4 DEF HasValue
  <2> QED
    BY <1>4, <1>5, <2>1, <2>2 DEF SeenInPlace
<1> QED
  BY <1>6, <1>7

\* Two states that see the same trees patched, or one more.
LEMMA SeenStep ==
  ASSUME SeenInPlace, SeenInPlace', UNCHANGED job
  PROVE  /\ Carriers(job.image)' = Carriers(job.image)
         /\ (\A i \in Searched(job.image) : i # 1 => SeenAt(i) \subseteq SeenAt(i)')
              => PatchedSeen \subseteq PatchedSeen' /\ PatchedSeen' \subseteq Carriers(job.image)
         /\ (\A i \in Searched(job.image) : i # 1 => SeenAt(i)' \subseteq SeenAt(i))
              => PatchedSeen' \subseteq PatchedSeen
BY DEF SeenInPlace

\* Whoever reads the output finds the file that stood there, a torn one, or one that
\* the run wrote; a run without .xz has written by the time it succeeds.
Reported ==
  /\ pc # "done" => status = "running" /\ out # Torn
  /\ pc = "done" => status \in {"ok", "failed"}
  /\ out \in {OldOutput, Torn} \/ out.by = "run"
  /\ ~UsesXz /\ pc # "done" =>
       /\ pc = "verdict" /\ elfType = "uefi_dtbs" => out.by = "run"
       /\ elfType = "xbl_config" /\ tally.patched > 0 => out.by = "run"
  /\ elfType = None => tally.patched = 0

RInv == VInv /\ Reported

\* A file of the run is none of the others.
LEMMA OutputsDiffer ==
  /\ OldOutput # Torn /\ OldOutput.by # "run" /\ Torn.by # "run"
  /\ out.by = "run" => OutputSeen = "written"
  /\ out = OldOutput => OutputSeen = "kept"
  /\ out = Torn => OutputSeen = "torn"
<1>1. Torn.by = "cut short" /\ OldOutput.by \in {"before", "nobody"}
  BY DEF Torn, OldOutput
<1> QED
  BY <1>1 DEF OutputSeen

LEMMA InitRInv == Init => RInv
<1> SUFFICES ASSUME Init
             PROVE  RInv
  OBVIOUS
<1>1. Reported
  <2>1. /\ pc = "open" /\ elfType = None /\ out = OldOutput /\ status = "running"
        /\ tally = [patched |-> 0, errors |-> 0]
    BY DEF Init
  <2>2. None # "xbl_config"
    BY PatchConstants
  <2> QED
    BY <2>1, <2>2, OutputsDiffer DEF Reported
<1> QED
  BY <1>1, InitVInv DEF RInv

LEMMA NextRInv == RInv /\ [Next]_vars => RInv'
<1> SUFFICES ASSUME RInv, [Next]_vars
             PROVE  Reported'
  BY NextVInv DEF RInv
<1>1. /\ tally \in [patched : Nat, errors : Nat] /\ tally.patched \in Nat
      /\ elfType \in {None, "uefi_dtbs", "xbl_config"}
      /\ None \notin {"uefi_dtbs", "xbl_config"}
      /\ Reported
      /\ pc = "open" => elfType = None
      /\ pc \in {"segment", "tree", "digests", "write", "verdict", "publish"} => elfType # None
  BY PatchConstants DEF RInv, VInv, TInv, IInv, TypeOK, SegmentsToGo, OutputInOrder
<1>2. CASE UNCHANGED vars
  BY <1>1, <1>2 DEF vars, segment, Reported, UsesXz, OldOutput
<1>3. ASSUME Next
      PROVE  UNCHANGED job /\ pc # "done"
  BY <1>3 DEF Next, Work, Dies, Undetected, OpenUefiDtbs, OpenXblConfig, ReadSegment, LastSegment,
              SkipTree, TreeFails, PatchUefiTree, ReplaceXblTree, WriteSegment, ReplaceDigests,
              LeaveSegment, WriteUefi, Verdict, Publish
<1>4. ASSUME Next
      PROVE  UNCHANGED <<UsesXz, OldOutput>>
  BY <1>3, <1>4 DEF UsesXz, OldOutput
<1>5. CASE Undetected \/ OpenUefiDtbs \/ OpenXblConfig
  BY <1>1, <1>4, <1>5, OutputsDiffer
     DEF Undetected, OpenUefiDtbs, OpenXblConfig, End, Reported, Next, Work
<1>6. CASE ReadSegment \/ SkipTree \/ WriteSegment \/ ReplaceDigests \/ LeaveSegment
  BY <1>1, <1>4, <1>6
     DEF ReadSegment, SkipTree, WriteSegment, ReplaceDigests, LeaveSegment, Reported, Next, Work
<1>7. CASE TreeFails
  BY <1>1, <1>4, <1>7 DEF TreeFails, Reported, Next, Work
<1>8. CASE PatchUefiTree
  BY <1>1, <1>4, <1>8 DEF PatchUefiTree, Reported, Next, Work
<1>9. CASE LastSegment
  BY <1>1, <1>4, <1>9 DEF LastSegment, Reported, Next, Work
<1>10. CASE ReplaceXblTree \/ WriteUefi
  <2>1. PICK f : Deliver(f)
    BY <1>10 DEF ReplaceXblTree, WriteUefi
  <2>2. /\ UsesXz => out' = out
        /\ ~UsesXz => out'.by = "run"
    BY <2>1 DEF Deliver
  <2>3. out'.by = "run" => out' # Torn
    BY OutputsDiffer
  <2>4. /\ pc \in {"tree", "write"} /\ pc' # "done" /\ UNCHANGED <<status, elfType>>
    BY <1>10 DEF ReplaceXblTree, WriteUefi
  <2> QED
    BY <1>1, <1>4, <1>10, <2>2, <2>3, <2>4 DEF Reported, Next, Work
<1>11. CASE Verdict
  BY <1>1, <1>4, <1>11 DEF Verdict, End, Reported, Next, Work
<1>12. CASE Publish \/ Dies
  BY <1>1, <1>4, <1>12 DEF Publish, Dies, End, Reported, Next, Work
<1> QED
  BY <1>2, <1>5, <1>6, <1>7, <1>8, <1>9, <1>10, <1>11, <1>12 DEF Next, Work

\* No step takes a patched tree back, as long as the segment in memory is not lost.
LEMMA SeenGrows ==
  ASSUME VInv, TInv', Orderly, Work, NEW i \in Searched(job.image), i # 1
  PROVE  SeenAt(i) \subseteq SeenAt(i)'
<1>1. /\ i \in 2..PhNum(raw) /\ i \in 1..PhNum(raw) /\ WellFormed(raw) /\ PhNum(raw) \in Nat
      /\ TInv /\ IInv
  <2>1. TInv /\ IInv
    BY DEF VInv, TInv
  <2> QED
    BY <2>1, FileFacts DEF Searched, ItemSegments
<1>2. Bytes(Data(raw, i)) /\ Clean(Data(raw, i))
  BY <1>1, SegmentFacts
<1>3. UNCHANGED Value
  BY DEF Value, Work, Undetected, OpenUefiDtbs, OpenXblConfig, ReadSegment, LastSegment,
         SkipTree, TreeFails, PatchUefiTree, ReplaceXblTree, WriteSegment, ReplaceDigests,
         LeaveSegment, WriteUefi, Verdict, Publish
<1>4. CASE Undetected \/ OpenUefiDtbs \/ OpenXblConfig \/ LastSegment \/ WriteUefi \/ Verdict \/ Publish
  <2>1. raw' = raw /\ pc # "tree" /\ pc' # "tree"
    BY <1>4 DEF Undetected, OpenUefiDtbs, OpenXblConfig, LastSegment, WriteUefi, Verdict, Publish, End
  <2> QED
    BY <1>3, <2>1 DEF SeenAt
<1>5. CASE ReadSegment
  <2>1. pc # "tree" /\ raw' = raw /\ work' = Data(raw, Target) /\ Target' = Target
    BY <1>5 DEF ReadSegment, Target
  <2> QED
    BY <1>3, <2>1 DEF SeenAt
<1>6. CASE SkipTree \/ TreeFails
  <2>1. UNCHANGED <<pc, elfType, raw, work, Target>>
    BY <1>6 DEF SkipTree, TreeFails, Target
  <2> QED
    BY <1>3, <2>1 DEF SeenAt
<1>7. CASE PatchUefiTree
  <2>1. /\ UNCHANGED <<pc, elfType, raw, Target>> /\ work' = NewWork
        /\ pc = "tree" /\ trees # {} /\ Current.certs # <<>>
    BY <1>7 DEF PatchUefiTree, Target
  <2>2. WithValue(work, Value) \subseteq WithValue(NewWork, Value)
    BY <1>1, <2>1, PlaceFacts
  <2> QED
    BY <1>3, <2>1, <2>2 DEF SeenAt
<1>8. CASE ReplaceXblTree
  <2>1. /\ elfType = "xbl_config" /\ UNCHANGED <<job, elfType, work, pc, Target>>
        /\ pc = "tree" /\ trees # {} /\ Current.certs # <<>>
    BY <1>8 DEF ReplaceXblTree, Target
  <2>2. /\ Target \in ItemSegments(job.image) /\ HasMetadata(job.image)
        /\ WellFormed(raw') /\ PhNum(raw') = PhNum(raw) /\ Bytes(NewWork)
        /\ \A j \in 2..PhNum(raw) : j # Target => Neutral(Data(raw, j), Data(raw', j))
        /\ Neutral(NewWork, Data(raw', Target))
    BY <1>1, <1>8, <2>1, XblTreeWritten DEF Orderly, IInv, MetadataKept
  <2>3. Bytes(Data(raw', i))
    BY <1>1, <2>2, DataCells
  <2>4. SeenAt(i) = WithValue(Data(raw, i), Value) /\ SeenAt(i)' = WithValue(Data(raw', i), Value)
    BY <1>3, <2>1 DEF SeenAt
  <2>5. CASE i # Target
    <3>1. Neutral(Data(raw, i), Data(raw', i))
      BY <1>1, <2>2, <2>5
    <3>2. WithValue(Data(raw', i), Value) = WithValue(Data(raw, i), Value)
      BY <1>2, <2>3, <3>1, NeutralRanks
    <3> QED
      BY <2>4, <3>2
  <2>6. CASE i = Target
    <3>1. /\ CurrentPlace \in Carrying(work) /\ Bytes(NewWork) /\ Clean(NewWork)
          /\ WithValue(NewWork, Value) = WithValue(work, Value) \cup {CurrentPlace}
      BY <1>1, <2>1, PlaceFacts
    <3>2. WithValue(Data(raw', i), Value) = WithValue(NewWork, Value)
      BY <2>2, <2>3, <2>6, <3>1, NeutralRanks
    <3>3. /\ Carrying(work) = Carrying(Data(raw, i))
          /\ Carrying(work) = Carrying(Data(job.image, i))
      BY <1>1, <2>1, <2>6, SegmentFacts
    <3>4. \A k \in Carrying(work) : k = CurrentPlace
      BY <2>2, <2>6, <3>1, <3>3 DEF Orderly, OneCarrier
    <3>5. WithValue(Data(raw, i), Value) \subseteq {CurrentPlace}
      BY <3>3, <3>4 DEF WithValue
    <3> QED
      BY <2>4, <3>1, <3>2, <3>5
  <2> QED
    BY <2>5, <2>6
<1>9. CASE WriteSegment
  <2>1. pc = "tree" /\ pc' = "digests" /\ elfType = "uefi_dtbs"
    BY <1>9 DEF WriteSegment
  <2>2. /\ Data(raw', Target) = work
        /\ \A j \in 2..PhNum(raw) : j # Target => Data(raw', j) = Data(raw, j)
    BY <1>1, <1>9, SegmentWritten DEF Orderly
  <2> QED
    BY <1>1, <1>3, <2>1, <2>2 DEF SeenAt
<1>10. CASE ReplaceDigests
  <2>1. /\ pc # "tree" /\ pc' # "tree"
        /\ raw' = DigestsReplaced(raw, pairs, HashFirst(raw, Target), HashLast(raw, Target))
    BY <1>10 DEF ReplaceDigests
  <2>2. /\ HeadersFollow(raw', raw)
        /\ \A j \in 1..PhNum(raw) : Neutral(Data(raw, j), Data(raw', j))
    BY <1>1, <2>1, DigestsFile
  <2>3. WellFormed(raw') /\ PhNum(raw') = PhNum(raw)
    BY <2>2 DEF HeadersFollow
  <2>4. Bytes(Data(raw', i))
    BY <1>1, <2>3, DataCells
  <2>5. WithValue(Data(raw', i), Value) = WithValue(Data(raw, i), Value)
    BY <1>1, <1>2, <2>2, <2>4, NeutralRanks
  <2> QED
    BY <1>3, <2>1, <2>5 DEF SeenAt
<1>11. CASE LeaveSegment
  <2>1. pc = "tree" /\ pc' # "tree" /\ raw' = raw /\ (elfType = "xbl_config" \/ pairs = <<>>)
    BY <1>11 DEF LeaveSegment
  <2>2. elfType = "uefi_dtbs" => work = Data(raw, Target)
    BY <2>1 DEF VInv, SegmentsPatched
  <2> QED
    BY <1>3, <2>1, <2>2 DEF SeenAt
<1> QED
  BY <1>4, <1>5, <1>6, <1>7, <1>8, <1>9, <1>10, <1>11 DEF Work

\* A run that dies loses no more than the segment in memory.
LEMMA SeenLost ==
  ASSUME VInv, Orderly, UNCHANGED <<raw, job>>, pc' # "tree", NEW i
  PROVE  SeenAt(i)' \subseteq SeenAt(i)
<1>1. UNCHANGED Value
  BY DEF Value
<1>2. pc = "tree" /\ elfType = "uefi_dtbs" =>
        WithValue(Data(raw, Target), Value) \subseteq WithValue(work, Value)
  BY DEF VInv, SegmentsPatched
<1> QED
  BY <1>1, <1>2 DEF SeenAt

LEMMA ContractStep ==
  ASSUME RInv, RInv', Orderly, SeenInPlace, SeenInPlace', [Next]_vars
  PROVE  [Contract!ContractNext]_(Contract!contractVars)
<1>1. VInv /\ TInv /\ TInv' /\ Reported /\ Reported'
  BY DEF RInv, VInv
<1>2. CASE UNCHANGED vars
  BY <1>2 DEF vars, segment, Contract!contractVars, PatchedSeen, OutputSeen, HasValue, Carriers,
              Value, Target, OldOutput
<1>3. CASE Next
  <2>1. pc # "done" /\ status = "running" /\ UNCHANGED <<job, OldOutput>>
    <3>1. pc # "done" /\ UNCHANGED job
      BY <1>3 DEF Next, Work, Dies, Undetected, OpenUefiDtbs, OpenXblConfig, ReadSegment, LastSegment,
              SkipTree, TreeFails, PatchUefiTree, ReplaceXblTree, WriteSegment, ReplaceDigests,
              LeaveSegment, WriteUefi, Verdict, Publish
    <3> QED
      BY <1>1, <3>1 DEF Reported, OldOutput
  <2>2. /\ Carriers(job.image)' = Carriers(job.image)
        /\ PatchedSeen' \subseteq Carriers(job.image)
        /\ (\A i \in Searched(job.image) : i # 1 => SeenAt(i) \subseteq SeenAt(i)')
              => PatchedSeen \subseteq PatchedSeen'
        /\ (\A i \in Searched(job.image) : i # 1 => SeenAt(i)' \subseteq SeenAt(i))
              => PatchedSeen' \subseteq PatchedSeen
    BY <2>1, SeenStep DEF SeenInPlace
  <2>3. OutputSeen' = OutputSeen \/ OutputSeen' = "written" \/ (Dies /\ OutputSeen' = "torn")
    <3>1. out' = out \/ out'.by = "run" \/ (Dies /\ out' = Torn)
      BY <1>3 DEF Next, Work, Dies, Undetected, OpenUefiDtbs, OpenXblConfig, ReadSegment, LastSegment,
              SkipTree, TreeFails, PatchUefiTree, ReplaceXblTree, WriteSegment, ReplaceDigests,
              LeaveSegment, WriteUefi, Verdict, Publish, Deliver
    <3>2. out' = out => OutputSeen' = OutputSeen
      BY <2>1 DEF OutputSeen
    <3>3. out'.by = "run" => OutputSeen' = "written"
      BY <2>1, OutputsDiffer DEF OutputSeen
    <3>4. out' = Torn => OutputSeen' = "torn"
      BY DEF OutputSeen
    <3> QED
      BY <3>1, <3>2, <3>3, <3>4
  <2>4. CASE status' = "running"
    <3>1. Work /\ ~Dies
      BY <1>3, <2>4 DEF Next, Dies, End
    <3>2. PatchedSeen \subseteq PatchedSeen'
      BY <1>1, <2>2, <3>1, SeenGrows
    <3>3. Contract!Advance
      BY <2>1, <2>2, <2>3, <2>4, <3>1, <3>2 DEF Contract!Advance
    <3> QED
      BY <3>3 DEF Contract!ContractNext
  <2>5. CASE status' = "failed"
    <3>1. pc' = "done" /\ UNCHANGED raw
      BY <1>3, <2>1, <2>5 DEF Next, Work, Dies, End, Undetected, OpenUefiDtbs, OpenXblConfig, ReadSegment,
              LastSegment, SkipTree, TreeFails, PatchUefiTree, ReplaceXblTree, WriteSegment,
              ReplaceDigests, LeaveSegment, WriteUefi, Verdict, Publish
    <3>2. PatchedSeen' \subseteq PatchedSeen
      BY <1>1, <2>1, <2>2, <3>1, SeenLost
    <3>3. Contract!Abort
      BY <2>1, <2>2, <2>3, <2>5, <3>2 DEF Contract!Abort
    <3> QED
      BY <3>3 DEF Contract!ContractNext
  <2>6. CASE status' = "ok"
    <3>1. (Verdict \/ Publish) /\ pc' = "done" /\ UNCHANGED raw
      BY <1>3, <2>1, <2>6 DEF Next, Work, Dies, End, Undetected, OpenUefiDtbs, OpenXblConfig, ReadSegment,
              LastSegment, SkipTree, TreeFails, PatchUefiTree, ReplaceXblTree, WriteSegment,
              ReplaceDigests, LeaveSegment, WriteUefi, Verdict, Publish
    <3>2. pc \in {"verdict", "publish"} /\ tally.errors = 0
      <4>1. tally.errors \in Nat
        BY <1>1 DEF TInv, IInv, TypeOK
      <4>2. CASE Verdict
        BY <2>1, <2>6, <4>1, <4>2 DEF Verdict, End
      <4>3. CASE Publish
        BY <1>1, <4>3 DEF Publish, VInv, OutputInOrder
      <4> QED
        BY <3>1, <4>2, <4>3
    <3>3. Carriers(raw) = HasValue(raw)
      BY <1>1, <3>2, AllHaveValue
    <3>4. PatchedSeen = Carriers(job.image)
      BY <3>2, <3>3 DEF SeenInPlace
    <3>5. PatchedSeen' = PatchedSeen
      <4>1. UNCHANGED Value
        BY <2>1 DEF Value
      <4>2. HasValue(raw)' = HasValue(raw)
        BY <3>1, <4>1 DEF HasValue
      <4> QED
        BY <3>1, <3>2, <4>2 DEF SeenInPlace
    <3>6. OutputSeen' = "written"
      <4>1. CASE Publish
        <5>1. out'.by = "run"
          BY <4>1 DEF Publish
        <5> QED
          BY <2>1, <5>1, OutputsDiffer DEF OutputSeen
      <4>2. CASE Verdict
        <5>1. /\ ~UsesXz /\ pc = "verdict" /\ out' = out
              /\ elfType = "xbl_config" => tally.patched # 0
          BY <2>1, <2>6, <4>2 DEF Verdict, End
        <5>2. elfType \in {"uefi_dtbs", "xbl_config"} /\ tally.patched \in Nat
          BY <1>1, <5>1 DEF VInv, OutputInOrder, TInv, IInv, TypeOK
        <5>3. out.by = "run"
          BY <1>1, <5>1, <5>2 DEF Reported
        <5> QED
          BY <2>1, <5>1, <5>3, OutputsDiffer DEF OutputSeen
      <4> QED
        BY <3>1, <4>1, <4>2
    <3>7. Contract!Succeed
      BY <2>1, <2>2, <2>6, <3>4, <3>5, <3>6 DEF Contract!Succeed
    <3> QED
      BY <3>7 DEF Contract!ContractNext
  <2>7. status' \in {"running", "ok", "failed"}
    BY <1>1 DEF TInv, IInv, TypeOK
  <2> QED
    BY <2>4, <2>5, <2>6, <2>7
<1> QED
  BY <1>2, <1>3

\* A run on an orderly image keeps the contract: a patched tree stays patched until
\* the run dies, and a run that succeeds has patched every tree with the property
\* and written its output.
THEOREM KeepsContract == Spec /\ Orderly => ImplementsContract
<1>1. Init => RInv
  BY InitRInv
<1>2. RInv /\ [Next]_vars => RInv'
  BY NextRInv
<1>3. Orderly /\ RInv /\ [Next]_vars => Orderly'
  <2> SUFFICES ASSUME Orderly, RInv, [Next]_vars
               PROVE  UNCHANGED job
    BY DEF Orderly
  <2> QED
    BY DEF vars, Next, Work, Dies, Undetected, OpenUefiDtbs, OpenXblConfig, ReadSegment, LastSegment,
           SkipTree, TreeFails, PatchUefiTree, ReplaceXblTree, WriteSegment, ReplaceDigests,
           LeaveSegment, WriteUefi, Verdict, Publish
<1>4. RInv /\ Orderly => SeenInPlace
  BY SeenPlaces DEF RInv, VInv
<1>5. RInv /\ RInv' /\ Orderly /\ SeenInPlace /\ SeenInPlace' /\ [Next]_vars
        => [Contract!ContractNext]_(Contract!contractVars)
  BY ContractStep
<1>6. Init /\ Orderly => Contract!ContractInit
  <2> SUFFICES ASSUME Init, Orderly
               PROVE  Contract!ContractInit
    OBVIOUS
  <2>1. SeenInPlace
    BY InitTInv, SeenPlaces
  <2>2. status = "running" /\ out = OldOutput
    BY DEF Init
  <2>3. OutputSeen = "kept"
    BY <2>2, OutputsDiffer
  <2> QED
    BY <2>1, <2>2, <2>3 DEF Contract!ContractInit, SeenInPlace
<1> QED
  BY <1>1, <1>2, <1>3, <1>4, <1>5, <1>6, PTL DEF Spec, ImplementsContract, Contract!ContractSpec
=============================================================================
