---------------------------- MODULE KernelProofs ----------------------------
(***************************************************************************)
(* Proofs about the services of the kernel: the two heaps, the log and the *)
(* entropy pool, for rings, tables, pages and requests of any size.        *)
(***************************************************************************)
EXTENDS KLog, Entropy, KHeap, UMalloc, Facts

---------------------------------------------------------------------------
(* The two heaps: what both do to a list of blocks.                        *)

Blocks == [addr : Nat, size : Nat, free : BOOLEAN, asked : Nat]

(* b lies after a: it begins where a ends, or at one of the addresses G.   *)
Follows(a, b, header, G) ==
    EndOf(a, header) <= b.addr /\ (Adjacent(a, b, header) \/ b.addr \in G)

Unmerged(a, b, header) == Adjacent(a, b, header) /\ a.free /\ b.free

(* A list of blocks in order, of which only the pairs that begin at an     *)
(* index in X may be left to merge.                                        *)
Chain(blocks, header, G, X) ==
    /\ blocks \in Seq(Blocks)
    /\ \A i \in 1..(Len(blocks) - 1) :
         /\ Follows(blocks[i], blocks[i + 1], header, G)
         /\ i \notin X => ~Unmerged(blocks[i], blocks[i + 1], header)
    /\ \A i \in 1..Len(blocks) : ~blocks[i].free => blocks[i].size >= blocks[i].asked

(* The entries of two lists joined.                                        *)
LEMMA ConcatEntries ==
    ASSUME NEW T, NEW a \in Seq(T), NEW b \in Seq(T), NEW c, c = a \o b
    PROVE  /\ c \in Seq(T) /\ Len(c) = Len(a) + Len(b)
           /\ \A j \in 1..Len(a) : c[j] = a[j]
           /\ \A j \in 1..Len(b) : c[Len(a) + j] = b[j]
<1>1. Len(a) \in Nat /\ Len(b) \in Nat
  OBVIOUS
<1>2. c \in Seq(T) /\ Len(c) = Len(a) + Len(b)
  OBVIOUS
<1>3. ASSUME NEW j \in 1..Len(a) PROVE c[j] = a[j]
  BY <1>1
<1>4. ASSUME NEW j \in 1..Len(b) PROVE c[Len(a) + j] = b[j]
  <2>1. Len(a) + j \in 1..(Len(a) + Len(b)) /\ ~(Len(a) + j <= Len(a)) /\ (Len(a) + j) - Len(a) = j
    BY <1>1
  <2> QED BY <1>1, <2>1
<1> QED BY <1>2, <1>3, <1>4

(* The entries of three lists joined.                                      *)
LEMMA ConcatThree ==
    ASSUME NEW T, NEW a \in Seq(T), NEW b \in Seq(T), NEW c \in Seq(T), NEW d, d = a \o b \o c
    PROVE  /\ d \in Seq(T) /\ Len(d) = Len(a) + Len(b) + Len(c)
           /\ \A j \in 1..Len(a) : d[j] = a[j]
           /\ \A j \in 1..Len(b) : d[Len(a) + j] = b[j]
           /\ \A j \in 1..Len(c) : d[Len(a) + Len(b) + j] = c[j]
<1> DEFINE e == a \o b
<1>1. e \in Seq(T) /\ Len(e) = Len(a) + Len(b)
      /\ (\A j \in 1..Len(a) : e[j] = a[j]) /\ (\A j \in 1..Len(b) : e[Len(a) + j] = b[j])
  BY ConcatEntries
<1>2. d = e \o c
  OBVIOUS
<1> HIDE DEF e
<1>3. d \in Seq(T) /\ Len(d) = Len(e) + Len(c)
      /\ (\A j \in 1..Len(e) : d[j] = e[j]) /\ (\A j \in 1..Len(c) : d[Len(e) + j] = c[j])
  <2>1. e \in Seq(T)
    BY <1>1
  <2> QED BY <1>2, <2>1, ConcatEntries
<1>4. Len(a) \in Nat /\ Len(b) \in Nat
  OBVIOUS
<1>5. ASSUME NEW j \in 1..Len(a) PROVE j \in 1..Len(e)
  BY <1>1, <1>4
<1>6. ASSUME NEW j \in 1..Len(b) PROVE Len(a) + j \in 1..Len(e)
  BY <1>1, <1>4
<1>7. \A j \in 1..Len(c) : d[Len(a) + Len(b) + j] = c[j]
  BY <1>1, <1>3
<1> QED BY <1>1, <1>3, <1>5, <1>6, <1>7

(* q is the list b with the block at i replaced by x and y.                *)
OneByTwo(b, i, x, y, q) ==
    /\ q \in Seq(Blocks) /\ Len(q) = Len(b) + 1
    /\ \A j \in 1..(i - 1) : q[j] = b[j]
    /\ q[i] = x /\ q[i + 1] = y
    /\ \A j \in (i + 2)..(Len(b) + 1) : q[j] = b[j - 1]

(* One block replaced by two, as Taken writes it.                          *)
LEMMA SpliceTwo ==
    ASSUME NEW b \in Seq(Blocks), NEW i \in 1..Len(b), NEW x \in Blocks, NEW y \in Blocks,
           NEW q, q = SubSeq(b, 1, i - 1) \o <<x, y>> \o SubSeq(b, i + 1, Len(b))
    PROVE  OneByTwo(b, i, x, y, q)
<1> DEFINE n == Len(b)
           l == SubSeq(b, 1, i - 1)
           m == <<x, y>>
           r == SubSeq(b, i + 1, n)
           p == l \o m \o r
<1>1. n \in Nat /\ i \in 1..n
  OBVIOUS
<1>2. l \in Seq(Blocks) /\ Len(l) = i - 1 /\ \A j \in 1..(i - 1) : l[j] = b[j]
  BY <1>1
<1>3. r \in Seq(Blocks) /\ Len(r) = n - i /\ \A j \in 1..(n - i) : r[j] = b[i + j]
  BY <1>1
<1>4. m \in Seq(Blocks) /\ Len(m) = 2 /\ m[1] = x /\ m[2] = y
  OBVIOUS
<1>5. /\ p \in Seq(Blocks) /\ Len(p) = Len(l) + Len(m) + Len(r)
      /\ \A j \in 1..Len(l) : p[j] = l[j]
      /\ \A j \in 1..Len(m) : p[Len(l) + j] = m[j]
      /\ \A j \in 1..Len(r) : p[Len(l) + Len(m) + j] = r[j]
  <2>1. l \in Seq(Blocks) /\ m \in Seq(Blocks) /\ r \in Seq(Blocks)
    BY <1>2, <1>3, <1>4
  <2> HIDE DEF l, m, r
  <2> QED BY <2>1, ConcatThree
<1>6. n = Len(b)
  OBVIOUS
<1> HIDE DEF n, l, m, r, p
<1>7. \A j \in 1..(i - 1) : p[j] = b[j]
  BY <1>2, <1>5
<1>8. Len(p) = n + 1 /\ p[i] = x /\ p[i + 1] = y
  <2>1. 1 \in 1..Len(m) /\ 2 \in 1..Len(m) /\ Len(l) + 1 = i /\ Len(l) + 2 = i + 1
    BY <1>1, <1>2, <1>4
  <2>2. p[i] = m[1] /\ p[i + 1] = m[2]
    BY <1>5, <2>1
  <2>3. Len(p) = n + 1
    BY <1>1, <1>2, <1>3, <1>4, <1>5
  <2> QED BY <1>4, <2>2, <2>3
<1>9. ASSUME NEW j \in (i + 2)..(n + 1) PROVE p[j] = b[j - 1]
  <2> DEFINE k == j - (i + 1)
  <2>1. k \in 1..(n - i) /\ i + k = j - 1 /\ Len(l) + Len(m) + k = j
    BY <1>1, <1>2, <1>4
  <2> HIDE DEF k
  <2>2. p[j] = r[k]
    BY <1>3, <1>5, <2>1
  <2> QED BY <1>3, <2>1, <2>2, ZenonT(20)
<1>10. p \in Seq(Blocks) /\ Len(p) = Len(b) + 1 /\ (\A j \in 1..(i - 1) : p[j] = b[j])
       /\ p[i] = x /\ p[i + 1] = y /\ \A j \in (i + 2)..(Len(b) + 1) : p[j] = b[j - 1]
  BY <1>5, <1>6, <1>7, <1>8, <1>9
<1>11. q = p
  BY DEF p, l, m, r, n
<1> QED BY <1>10, <1>11, ZenonT(20) DEF OneByTwo

(* q is the list b with the blocks at i and i + 1 replaced by x.           *)
TwoByOne(b, i, x, q) ==
    /\ q \in Seq(Blocks) /\ Len(q) = Len(b) - 1
    /\ \A j \in 1..(i - 1) : q[j] = b[j]
    /\ q[i] = x
    /\ \A j \in (i + 1)..(Len(b) - 1) : q[j] = b[j + 1]

(* Two blocks replaced by one, as Absorb writes it.                        *)
LEMMA SpliceOne ==
    ASSUME NEW b \in Seq(Blocks), NEW i \in 1..(Len(b) - 1), NEW x \in Blocks,
           NEW q, q = SubSeq(b, 1, i - 1) \o <<x>> \o SubSeq(b, i + 2, Len(b))
    PROVE  TwoByOne(b, i, x, q)
<1> DEFINE n == Len(b)
           l == SubSeq(b, 1, i - 1)
           m == <<x>>
           r == SubSeq(b, i + 2, n)
           p == l \o m \o r
<1>1. n \in Nat /\ i \in 1..n /\ i <= n - 1
  OBVIOUS
<1>2. l \in Seq(Blocks) /\ Len(l) = i - 1 /\ \A j \in 1..(i - 1) : l[j] = b[j]
  BY <1>1
<1>3. r \in Seq(Blocks) /\ Len(r) = n - i - 1 /\ \A j \in 1..(n - i - 1) : r[j] = b[i + 1 + j]
  BY <1>1
<1>4. m \in Seq(Blocks) /\ Len(m) = 1 /\ m[1] = x
  OBVIOUS
<1>5. /\ p \in Seq(Blocks) /\ Len(p) = Len(l) + Len(m) + Len(r)
      /\ \A j \in 1..Len(l) : p[j] = l[j]
      /\ \A j \in 1..Len(m) : p[Len(l) + j] = m[j]
      /\ \A j \in 1..Len(r) : p[Len(l) + Len(m) + j] = r[j]
  <2>1. l \in Seq(Blocks) /\ m \in Seq(Blocks) /\ r \in Seq(Blocks)
    BY <1>2, <1>3, <1>4
  <2> HIDE DEF l, m, r
  <2> QED BY <2>1, ConcatThree
<1>6. n = Len(b)
  OBVIOUS
<1> HIDE DEF n, l, m, r, p
<1>7. \A j \in 1..(i - 1) : p[j] = b[j]
  BY <1>2, <1>5
<1>8. Len(p) = n - 1 /\ p[i] = x
  <2>1. 1 \in 1..Len(m) /\ Len(l) + 1 = i
    BY <1>1, <1>2, <1>4
  <2>2. p[i] = m[1]
    BY <1>5, <2>1
  <2>3. Len(p) = n - 1
    BY <1>1, <1>2, <1>3, <1>4, <1>5
  <2> QED BY <1>4, <2>2, <2>3
<1>9. ASSUME NEW j \in (i + 1)..(n - 1) PROVE p[j] = b[j + 1]
  <2> DEFINE k == j - i
  <2>1. k \in 1..(n - i - 1) /\ i + 1 + k = j + 1 /\ Len(l) + Len(m) + k = j
    BY <1>1, <1>2, <1>4
  <2> HIDE DEF k
  <2>2. p[j] = r[k]
    BY <1>3, <1>5, <2>1
  <2> QED BY <1>3, <2>1, <2>2
<1>10. p \in Seq(Blocks) /\ Len(p) = Len(b) - 1 /\ (\A j \in 1..(i - 1) : p[j] = b[j])
       /\ p[i] = x /\ \A j \in (i + 1)..(Len(b) - 1) : p[j] = b[j + 1]
  BY <1>5, <1>6, <1>7, <1>8, <1>9
<1>11. q = p
  BY DEF p, l, m, r, n
<1> QED BY <1>10, <1>11, ZenonT(20) DEF TwoByOne

(* What two neighbours are to one another hangs on four things.            *)
LEMMA SameNeighbours ==
    ASSUME NEW a \in Blocks, NEW b \in Blocks, NEW c \in Blocks, NEW d \in Blocks,
           NEW header \in Nat, NEW G,
           EndOf(a, header) = EndOf(c, header), b.addr = d.addr
    PROVE  /\ Follows(a, b, header, G) => Follows(c, d, header, G)
           /\ (c.free => a.free) /\ (d.free => b.free) /\ ~Unmerged(a, b, header)
                => ~Unmerged(c, d, header)
BY DEF Follows, Unmerged, Adjacent

(* The block that two neighbours make.                                     *)
LEMMA MergedBlock ==
    ASSUME NEW header \in Nat, NEW u \in Blocks, NEW v \in Blocks, Adjacent(u, v, header)
    PROVE  LET x == [u EXCEPT !.size = @ + header + v.size]
           IN /\ x \in Blocks /\ x.addr = u.addr /\ x.free = u.free
              /\ EndOf(x, header) = EndOf(v, header) /\ x.size >= v.size
BY DEF Blocks, EndOf, Adjacent

(* The list q begins and ends where the list b does.                       *)
SameSpan(b, q, header) ==
    /\ Len(q) > 0 /\ q[1].addr = b[1].addr
    /\ EndOf(q[Len(q)], header) = EndOf(b[Len(b)], header)

(* The first i blocks of q begin where those of b do.                      *)
SameStart(b, q, i) == i <= Len(q) /\ \A j \in 1..i : q[j].addr = b[j].addr

(* One block of q, at i, has taken in the block at i + 1 of b.             *)
Joined(b, q, i) ==
    /\ SameStart(b, q, i) /\ Len(q) = Len(b) - 1
    /\ q[i].free /\ q[i].size >= b[i + 1].size

(* Merging two neighbours leaves one pair fewer to merge.                  *)
LEMMA AbsorbChain ==
    ASSUME NEW header \in Nat, NEW G, NEW b, NEW i \in 1..(Len(b) - 1), NEW X, X \subseteq 0..i,
           Chain(b, header, G, X), Unmerged(b[i], b[i + 1], header),
           NEW q, q = Absorb(b, i, header)
    PROVE  /\ Chain(q, header, G, X \ {i}) /\ SameSpan(b, q, header)
           /\ Joined(b, q, i)
<1> DEFINE n == Len(b)
           x == [b[i] EXCEPT !.size = @ + header + b[i + 1].size]
<1>1. b \in Seq(Blocks) /\ n \in Nat /\ i \in 1..n /\ i + 1 \in 1..n
  BY DEF Chain
<1>2. b[i] \in Blocks /\ b[i + 1] \in Blocks
  BY <1>1
<1>3. x \in Blocks /\ x.addr = b[i].addr /\ x.free = b[i].free
      /\ EndOf(x, header) = EndOf(b[i + 1], header) /\ x.size >= b[i + 1].size
  BY <1>2, MergedBlock, ZenonT(20) DEF Unmerged
<1>4. b[i].free /\ b[i + 1].free
  BY DEF Unmerged
<1> HIDE DEF x
<1>5. /\ q \in Seq(Blocks) /\ Len(q) = n - 1 /\ q[i] = x
      /\ \A j \in 1..(i - 1) : q[j] = b[j]
      /\ \A j \in (i + 1)..(n - 1) : q[j] = b[j + 1]
  <2>1. x \in Blocks /\ q = SubSeq(b, 1, i - 1) \o <<x>> \o SubSeq(b, i + 2, Len(b))
    BY <1>3 DEF Absorb, x
  <2>2. b \in Seq(Blocks)
    BY <1>1
  <2>3. TwoByOne(b, i, x, q)
    BY <2>1, <2>2, SpliceOne, ZenonT(20)
  <2> QED BY <2>3 DEF TwoByOne
<1> HIDE DEF n
<1>6. ASSUME NEW j \in 1..n PROVE b[j] \in Blocks
  BY <1>1 DEF n
<1>7. ASSUME NEW j \in 1..(n - 1) PROVE
        /\ Follows(b[j], b[j + 1], header, G)
        /\ j \notin X => ~Unmerged(b[j], b[j + 1], header)
  BY DEF Chain, n
<1>8. ASSUME NEW j \in 1..(n - 2) PROVE
        /\ Follows(q[j], q[j + 1], header, G)
        /\ j \notin X \ {i} => ~Unmerged(q[j], q[j + 1], header)
  <2>1. CASE j + 1 < i
    <3>1. j \in 1..(n - 1) /\ q[j] = b[j] /\ q[j + 1] = b[j + 1] /\ j # i
      BY <1>1, <1>5, <2>1
    <3> QED BY <1>7, <3>1
  <2>2. CASE j + 1 = i
    <3>0. j \in 1..(n - 1) /\ j \in 1..n /\ j \in 1..(i - 1) /\ j # i
      BY <1>1, <2>2
    <3>1. j \in 1..(n - 1) /\ j \in 1..n /\ q[j] = b[j] /\ q[j + 1] = x /\ j # i /\ b[j + 1] = b[i]
      BY <1>5, <2>2, <3>0
    <3>2. Follows(b[j], b[i], header, G) /\ (j \notin X => ~Unmerged(b[j], b[i], header))
      BY <1>7, <3>1
    <3>3. b[j] \in Blocks
      BY <1>6, <3>1
    <3>4. Follows(b[j], x, header, G) /\ (~Unmerged(b[j], b[i], header) => ~Unmerged(b[j], x, header))
      BY <1>2, <1>3, <3>2, <3>3, SameNeighbours
    <3> QED BY <3>1, <3>2, <3>4
  <2>3. CASE j = i
    <3>1. i + 1 \in 1..(n - 1) /\ i + 2 \in 1..n /\ i + 1 \notin X
          /\ q[j] = x /\ q[j + 1] = b[i + 2] /\ (i + 1) + 1 = i + 2
      BY <1>1, <1>5, <2>3
    <3>2. Follows(b[i + 1], b[i + 2], header, G) /\ ~Unmerged(b[i + 1], b[i + 2], header)
      BY <1>7, <3>1
    <3>3. b[i + 2] \in Blocks
      BY <1>6, <3>1
    <3>4. Follows(x, b[i + 2], header, G) /\ ~Unmerged(x, b[i + 2], header)
      BY <1>2, <1>3, <1>4, <3>2, <3>3, SameNeighbours
    <3> QED BY <3>1, <3>4
  <2>4. CASE j > i
    <3>1. j + 1 \in 1..(n - 1) /\ j + 1 \notin X
          /\ q[j] = b[j + 1] /\ q[j + 1] = b[(j + 1) + 1]
      <4>1. j \in (i + 1)..(n - 1) /\ j + 1 \in (i + 1)..(n - 1) /\ j + 1 \in 1..(n - 1)
        BY <1>1, <2>4
      <4>2. j + 1 \notin X
        BY <1>1, <2>4
      <4>3. q[j] = b[j + 1] /\ q[j + 1] = b[(j + 1) + 1]
        BY <1>5, <4>1
      <4> QED BY <4>1, <4>2, <4>3
    <3>2. /\ Follows(b[j + 1], b[(j + 1) + 1], header, G)
          /\ ~Unmerged(b[j + 1], b[(j + 1) + 1], header)
      BY <1>7, <3>1, SMTT(20)
    <3> QED BY <3>1, <3>2, SMTT(20)
  <2> QED BY <1>1, <2>1, <2>2, <2>3, <2>4
<1>9. ASSUME NEW j \in 1..(n - 1), ~q[j].free PROVE q[j].size >= q[j].asked
  <2>1. ASSUME NEW k \in 1..n, ~b[k].free PROVE b[k].size >= b[k].asked
    BY <2>1 DEF Chain, n
  <2>2. CASE j < i
    <3>1. j \in 1..n /\ q[j] = b[j]
      BY <1>1, <1>5, <2>2
    <3> QED BY <1>9, <2>1, <3>1
  <2>3. CASE j = i
    BY <1>3, <1>4, <1>5, <1>9, <2>3, ZenonT(20)
  <2>4. CASE j > i
    <3>1. j + 1 \in 1..n /\ j \in (i + 1)..(n - 1)
      BY <1>1, <2>4
    <3>2. q[j] = b[j + 1]
      BY <1>5, <3>1
    <3> QED BY <1>9, <2>1, <3>1, <3>2
  <2> QED BY <1>1, <2>2, <2>3, <2>4
<1>10. Len(q) - 1 = n - 2 /\ Len(q) > 0 /\ Len(q) = n - 1
  BY <1>1, <1>5
<1>11. Chain(q, header, G, X \ {i})
  BY <1>5, <1>8, <1>9, <1>10 DEF Chain
<1>12. q[1].addr = b[1].addr
  <2>1. CASE i = 1
    BY <1>3, <1>5, <2>1
  <2>2. CASE i > 1
    BY <1>1, <1>5, <2>2
  <2> QED BY <1>1, <2>1, <2>2
<1>13. EndOf(q[n - 1], header) = EndOf(b[n], header)
  <2>1. CASE i = n - 1
    <3>1. q[n - 1] = x /\ b[i + 1] = b[n]
      BY <1>1, <1>5, <2>1
    <3> QED BY <1>3, <3>1
  <2>2. CASE i < n - 1
    <3>1. q[n - 1] = b[n]
      BY <1>1, <1>5, <2>2
    <3> QED BY <3>1
  <2> QED BY <1>1, <2>1, <2>2
<1>14. SameStart(b, q, i)
  <2>1. ASSUME NEW j \in 1..i PROVE q[j].addr = b[j].addr
    <3>1. CASE j = i
      BY <1>3, <1>5, <3>1
    <3>2. CASE j # i
      BY <1>1, <1>5, <3>2
    <3> QED BY <3>1, <3>2
  <2> QED BY <1>1, <1>5, <2>1 DEF SameStart
<1>15. q[i].free /\ q[i].size >= b[i + 1].size
  BY <1>3, <1>4, <1>5, ZenonT(20)
<1> QED BY <1>10, <1>11, <1>12, <1>13, <1>14, <1>15 DEF SameSpan, Joined, n

(* Every address at which a block of b begins is one in q.                 *)
KeepsPlaces(b, q) == \A j \in 1..Len(b) : \E k \in 1..Len(q) : q[k].addr = b[j].addr

(* A block that only changes hands stays where it is.                      *)
LEMMA ReplaceChain ==
    ASSUME NEW header \in Nat, NEW G, NEW b, NEW i \in 1..Len(b), NEW X, Chain(b, header, G, X),
           NEW x \in Blocks, x.addr = b[i].addr, x.size = b[i].size,
           ~x.free => x.size >= x.asked, NEW q, q = [b EXCEPT ![i] = x]
    PROVE  /\ Chain(q, header, G, X \cup {i - 1, i})
           /\ ~x.free => Chain(q, header, G, X \ {i - 1, i})
           /\ SameSpan(b, q, header) /\ KeepsPlaces(b, q)
<1> DEFINE n == Len(b)
<1>1. b \in Seq(Blocks) /\ n \in Nat /\ i \in 1..n
  BY DEF Chain
<1>2. q \in Seq(Blocks) /\ Len(q) = n /\ q[i] = x /\ \A j \in 1..n : j # i => q[j] = b[j]
  BY <1>1
<1> HIDE DEF n
<1>3. ASSUME NEW j \in 1..n PROVE b[j] \in Blocks /\ q[j] \in Blocks
  BY <1>1, <1>2 DEF n
<1>4. ASSUME NEW j \in 1..n
      PROVE  q[j].addr = b[j].addr /\ EndOf(q[j], header) = EndOf(b[j], header)
  <2>1. EndOf(x, header) = EndOf(b[i], header)
    BY DEF EndOf
  <2> QED BY <1>2, <2>1
<1>5. ASSUME NEW j \in 1..(n - 1) PROVE
        /\ Follows(q[j], q[j + 1], header, G)
        /\ j \notin X \cup {i - 1, i} => ~Unmerged(q[j], q[j + 1], header)
        /\ ~x.free /\ j \notin X \ {i - 1, i} => ~Unmerged(q[j], q[j + 1], header)
  <2>1. j \in 1..n /\ j + 1 \in 1..n
    BY <1>1
  <2>2. /\ Follows(b[j], b[j + 1], header, G)
        /\ j \notin X => ~Unmerged(b[j], b[j + 1], header)
    BY DEF Chain, n
  <2>3. /\ b[j] \in Blocks /\ q[j] \in Blocks /\ b[j + 1] \in Blocks /\ q[j + 1] \in Blocks
        /\ EndOf(b[j], header) = EndOf(q[j], header) /\ b[j + 1].addr = q[j + 1].addr
    BY <1>3, <1>4, <2>1
  <2>4. Follows(q[j], q[j + 1], header, G)
    BY <2>2, <2>3, SameNeighbours
  <2>5. CASE j \in {i - 1, i}
    <3>1. q[j] = x \/ q[j + 1] = x
      BY <1>1, <1>2, <2>5
    <3> QED BY <2>4, <2>5, <3>1 DEF Unmerged
  <2>6. CASE j \notin {i - 1, i}
    <3>1. j # i /\ j + 1 # i
      BY <1>1, <2>6
    <3>2. q[j] = b[j] /\ q[j + 1] = b[j + 1]
      BY <1>2, <2>1, <3>1
    <3> QED BY <2>2, <2>6, <3>2
  <2> QED BY <2>5, <2>6
<1>6. ASSUME NEW j \in 1..n, ~q[j].free PROVE q[j].size >= q[j].asked
  <2>1. ~b[j].free => b[j].size >= b[j].asked
    BY DEF Chain, n
  <2> QED BY <1>2, <1>6, <2>1
<1>7. Chain(q, header, G, X \cup {i - 1, i})
  BY <1>2, <1>5, <1>6 DEF Chain
<1>8. ~x.free => Chain(q, header, G, X \ {i - 1, i})
  BY <1>2, <1>5, <1>6 DEF Chain
<1>9. SameSpan(b, q, header)
  <2>1. 1 \in 1..n /\ n \in 1..n /\ n > 0
    BY <1>1
  <2>2. q[1].addr = b[1].addr /\ EndOf(q[n], header) = EndOf(b[n], header)
    BY <1>4, <2>1
  <2> QED BY <1>2, <2>1, <2>2 DEF SameSpan, n
<1>10. KeepsPlaces(b, q)
  BY <1>2, <1>4 DEF KeepsPlaces, n
<1> QED BY <1>7, <1>8, <1>9, <1>10

(* The block at i gives its beginning away and keeps the rest.             *)
LEMMA SplitChain ==
    ASSUME NEW header \in Nat, NEW G, NEW b, NEW i \in 1..Len(b), NEW X, X \subseteq {i - 1},
           Chain(b, header, G, X), b[i].free,
           NEW x \in Blocks, x.addr = b[i].addr, ~x.free, x.size >= x.asked,
           NEW y \in Blocks, y.free, Adjacent(x, y, header),
           EndOf(y, header) = EndOf(b[i], header),
           NEW q, OneByTwo(b, i, x, y, q)
    PROVE  Chain(q, header, G, {}) /\ SameSpan(b, q, header) /\ KeepsPlaces(b, q)
<1> DEFINE n == Len(b)
<1>1. b \in Seq(Blocks) /\ n \in Nat /\ i \in 1..n
  BY DEF Chain
<1>2. /\ q \in Seq(Blocks) /\ Len(q) = n + 1 /\ q[i] = x /\ q[i + 1] = y
      /\ \A j \in 1..(i - 1) : q[j] = b[j]
      /\ \A j \in (i + 2)..(n + 1) : q[j] = b[j - 1]
  BY DEF OneByTwo
<1> HIDE DEF n
<1>3. ASSUME NEW j \in 1..n PROVE b[j] \in Blocks
  BY <1>1 DEF n
<1>4. b[i] \in Blocks
  BY <1>1, <1>3
<1>5. ASSUME NEW j \in 1..(n - 1) PROVE
        /\ Follows(b[j], b[j + 1], header, G)
        /\ j \notin X => ~Unmerged(b[j], b[j + 1], header)
  BY DEF Chain, n
<1>6. ASSUME NEW j \in 1..n PROVE
        /\ Follows(q[j], q[j + 1], header, G)
        /\ ~Unmerged(q[j], q[j + 1], header)
  <2>1. CASE j + 1 < i
    <3>1. j \in 1..(n - 1) /\ j \in 1..(i - 1) /\ j + 1 \in 1..(i - 1) /\ j \notin X
      BY <1>1, <2>1
    <3>2. q[j] = b[j] /\ q[j + 1] = b[j + 1]
      BY <1>2, <3>1
    <3> QED BY <1>5, <3>1, <3>2
  <2>2. CASE j + 1 = i
    <3>1. j \in 1..(n - 1) /\ j \in 1..(i - 1) /\ j \in 1..n
      BY <1>1, <2>2
    <3>2. q[j] = b[j] /\ q[j + 1] = x /\ b[j + 1] = b[i]
      BY <1>2, <2>2, <3>1
    <3>3. Follows(b[j], b[i], header, G) /\ b[j] \in Blocks
      BY <1>3, <1>5, <3>1, <3>2
    <3>4. Follows(b[j], x, header, G)
      BY <1>4, <3>3, SameNeighbours
    <3> QED BY <3>2, <3>4 DEF Unmerged
  <2>3. CASE j = i
    <3>1. q[j] = x /\ q[j + 1] = y
      BY <1>2, <2>3
    <3>2. Follows(x, y, header, G)
      BY DEF Follows, Adjacent, EndOf, Blocks
    <3> QED BY <3>1, <3>2 DEF Unmerged
  <2>4. CASE j = i + 1
    <3>1. i \in 1..(n - 1) /\ i + 1 \in 1..n /\ i \notin X /\ j + 1 \in (i + 2)..(n + 1)
          /\ j + 1 - 1 = i + 1
      BY <1>1, <2>4
    <3>2. q[j] = y /\ q[j + 1] = b[i + 1]
      BY <1>2, <2>4, <3>1
    <3>3. Follows(b[i], b[i + 1], header, G) /\ ~Unmerged(b[i], b[i + 1], header)
          /\ b[i + 1] \in Blocks
      BY <1>3, <1>5, <3>1
    <3>4. Follows(y, b[i + 1], header, G) /\ ~Unmerged(y, b[i + 1], header)
      BY <1>4, <3>3, SameNeighbours
    <3> QED BY <3>2, <3>4
  <2>5. CASE j > i + 1
    <3>1. j - 1 \in 1..(n - 1) /\ j - 1 \notin X /\ j \in (i + 2)..(n + 1)
          /\ j + 1 \in (i + 2)..(n + 1) /\ (j + 1) - 1 = (j - 1) + 1
      BY <1>1, <2>5
    <3>2. q[j] = b[j - 1] /\ q[j + 1] = b[(j - 1) + 1]
      BY <1>2, <3>1
    <3> QED BY <1>5, <3>1, <3>2
  <2> QED BY <1>1, <2>1, <2>2, <2>3, <2>4, <2>5
<1>7. ASSUME NEW j \in 1..(n + 1), ~q[j].free PROVE q[j].size >= q[j].asked
  <2>1. ASSUME NEW k \in 1..n, ~b[k].free PROVE b[k].size >= b[k].asked
    BY <2>1 DEF Chain, n
  <2>2. CASE j < i
    <3>1. j \in 1..n /\ q[j] = b[j]
      BY <1>1, <1>2, <2>2
    <3> QED BY <1>7, <2>1, <3>1
  <2>3. CASE j = i \/ j = i + 1
    BY <1>2, <1>7, <2>3
  <2>4. CASE j > i + 1
    <3>1. j - 1 \in 1..n /\ j \in (i + 2)..(n + 1)
      BY <1>1, <2>4
    <3>2. q[j] = b[j - 1]
      BY <1>2, <3>1
    <3> QED BY <1>7, <2>1, <3>1, <3>2
  <2> QED BY <1>1, <2>2, <2>3, <2>4
<1>8. Chain(q, header, G, {})
  <2>1. Len(q) - 1 = n
    BY <1>1, <1>2
  <2> QED BY <1>2, <1>6, <1>7, <2>1 DEF Chain
<1>9. SameSpan(b, q, header)
  <2>1. q[1].addr = b[1].addr
    <3>1. CASE i = 1
      BY <1>2, <3>1
    <3>2. CASE i > 1
      BY <1>1, <1>2, <3>2
    <3> QED BY <1>1, <3>1, <3>2
  <2>2. EndOf(q[n + 1], header) = EndOf(b[n], header)
    <3>1. CASE i = n
      BY <1>2, <3>1
    <3>2. CASE i < n
      <4>1. n + 1 \in (i + 2)..(n + 1) /\ (n + 1) - 1 = n
        BY <1>1, <3>2
      <4>2. q[n + 1] = b[n]
        BY <1>2, <4>1
      <4> QED BY <4>2
    <3> QED BY <1>1, <3>1, <3>2
  <2> QED BY <1>1, <1>2, <2>1, <2>2 DEF SameSpan, n
<1>10. ASSUME NEW j \in 1..n PROVE \E k \in 1..(n + 1) : q[k].addr = b[j].addr
  <2>1. CASE j < i
    BY <1>1, <1>2, <2>1
  <2>2. CASE j = i
    BY <1>1, <1>2, <2>2
  <2>3. CASE j > i
    <3>1. j + 1 \in (i + 2)..(n + 1) /\ j + 1 \in 1..(n + 1) /\ (j + 1) - 1 = j
      BY <1>1, <2>3
    <3>2. q[j + 1] = b[j]
      BY <1>2, <3>1
    <3> QED BY <3>1, <3>2
  <2> QED BY <1>1, <2>1, <2>2, <2>3
<1> QED BY <1>2, <1>8, <1>9, <1>10 DEF KeepsPlaces, n

(* The part of a block that is given away.                                 *)
LEMMA GivenBlock ==
    ASSUME NEW u \in Blocks, NEW need \in Nat
    PROVE  LET x == [u EXCEPT !.free = FALSE, !.asked = need, !.size = need]
           IN x \in Blocks /\ x.addr = u.addr /\ x.size = need /\ ~x.free /\ x.size >= x.asked
<1> DEFINE v == [u EXCEPT !.free = FALSE, !.asked = need]
           x == [u EXCEPT !.free = FALSE, !.asked = need, !.size = need]
<1>1. v \in Blocks /\ v.addr = u.addr /\ ~v.free /\ v.asked = need
  BY ZenonT(20) DEF Blocks
<1>2. x = [v EXCEPT !.size = need]
  BY Zenon
<1> HIDE DEF v
<1>3. [v EXCEPT !.size = need] \in Blocks /\ [v EXCEPT !.size = need].size = need
      /\ [v EXCEPT !.size = need].addr = v.addr /\ ([v EXCEPT !.size = need].free <=> v.free)
      /\ [v EXCEPT !.size = need].asked = v.asked
  BY <1>1 DEF Blocks
<1> HIDE DEF x
<1>4. x \in Blocks /\ x.addr = u.addr /\ x.size = need /\ ~x.free /\ x.size >= x.asked
  BY <1>1, <1>2, <1>3
<1> QED BY <1>4 DEF x

(* Giving a free block away, whole or in part.                             *)
LEMMA TakenChain ==
    ASSUME NEW header \in Nat, NEW least \in Nat, NEW need \in Nat, NEW G, NEW b,
           NEW i \in 1..Len(b), NEW X, X \subseteq {i - 1}, Chain(b, header, G, X),
           b[i].free, b[i].size >= need, NEW q, q = Taken(b, i, need, header, least)
    PROVE  Chain(q, header, G, {}) /\ SameSpan(b, q, header) /\ KeepsPlaces(b, q)
<1> DEFINE u    == b[i]
           rest == u.size - need - header
<1>1. b \in Seq(Blocks) /\ u \in Blocks
  BY DEF Chain
<1>2. CASE rest < least
  <2> DEFINE x == [u EXCEPT !.free = FALSE, !.asked = need]
  <2>1. x \in Blocks /\ x.addr = u.addr /\ x.size = u.size /\ ~x.free /\ x.size >= x.asked
    BY <1>1, ZenonT(20) DEF Blocks
  <2>2. q = [b EXCEPT ![i] = x]
    BY <1>1, <1>2, ZenonT(20) DEF Taken
  <2> HIDE DEF x
  <2>3. /\ Chain(q, header, G, X \ {i - 1, i})
        /\ SameSpan(b, q, header) /\ KeepsPlaces(b, q)
    <3>1. x \in Blocks /\ x.addr = b[i].addr /\ x.size = b[i].size /\ ~x.free
          /\ (~x.free => x.size >= x.asked)
      BY <2>1
    <3> HIDE DEF u
    <3>2. SameSpan(b, q, header) /\ KeepsPlaces(b, q)
      BY <2>2, <3>1, ReplaceChain, ZenonT(60)
    <3>3. Chain(q, header, G, X \ {i - 1, i})
      BY <2>2, <3>1, ReplaceChain, ZenonT(60)
    <3> QED BY <3>2, <3>3
  <2>4. X \ {i - 1, i} = {}
    OBVIOUS
  <2> QED BY <2>3, <2>4, ZenonT(20)
<1>3. CASE ~(rest < least)
  <2> DEFINE x == [u EXCEPT !.free = FALSE, !.asked = need, !.size = need]
             y == FreeBlock(u.addr + header + need, rest)
  <2>1. rest \in Nat
    BY <1>1, <1>3, SMTT(20) DEF Blocks
  <2>2. x \in Blocks /\ x.addr = u.addr /\ ~x.free /\ x.size >= x.asked
    BY <1>1, GivenBlock, ZenonT(40)
  <2>3. y \in Blocks /\ y.free
    BY <1>1, <2>1, SMTT(20) DEF Blocks, FreeBlock
  <2>4. Adjacent(x, y, header) /\ EndOf(y, header) = EndOf(u, header)
    <3>1. u.addr \in Nat /\ u.size \in Nat /\ u.size = need + header + rest
      BY <1>1, <2>1, SMTT(20) DEF Blocks
    <3>2. x.addr = u.addr /\ x.size = need
      BY <1>1, GivenBlock, ZenonT(40)
    <3>3. y.addr = u.addr + header + need /\ y.size = rest
      BY SMTT(20) DEF FreeBlock
    <3> HIDE DEF x, y, u
    <3>4. EndOf(x, header) = y.addr
      BY <3>1, <3>2, <3>3, SMTT(20) DEF EndOf
    <3>5. EndOf(y, header) = EndOf(u, header)
      <4> HIDE DEF rest
      <4> QED BY <2>1, <3>1, <3>3, SMTT(20) DEF EndOf
    <3> QED BY <3>4, <3>5 DEF Adjacent
  <2>5. q = SubSeq(b, 1, i - 1) \o <<x, y>> \o SubSeq(b, i + 1, Len(b))
    BY <1>3, ZenonT(20) DEF Taken
  <2> HIDE DEF x, y
  <2>6. OneByTwo(b, i, x, y, q)
    BY <1>1, <2>2, <2>3, <2>5, SpliceTwo, ZenonT(20)
  <2> HIDE DEF rest
  <2> QED BY <2>2, <2>3, <2>4, <2>6, SplitChain, ZenonT(40)
<1> QED BY <1>2, <1>3

(* The merge that both allocators make, wherever it is tried.              *)
Merged(b, i, header) ==
    IF i \in 1..(Len(b) - 1) /\ b[i].free /\ b[i + 1].free /\ Adjacent(b[i], b[i + 1], header)
    THEN Absorb(b, i, header) ELSE b

(* A merge leaves one pair fewer to merge, whether it happens or not.      *)
LEMMA MergedChain ==
    ASSUME NEW header \in Nat, NEW G, NEW b, NEW i \in Int, NEW X, X \subseteq 0..i,
           Chain(b, header, G, X), Len(b) > 0
    PROVE  Chain(Merged(b, i, header), header, G, X \ {i}) /\ SameSpan(b, Merged(b, i, header), header)
<1>1. CASE i \in 1..(Len(b) - 1) /\ Unmerged(b[i], b[i + 1], header)
  <2>1. Merged(b, i, header) = Absorb(b, i, header)
    BY <1>1 DEF Merged, Unmerged
  <2> QED BY <1>1, <2>1, AbsorbChain, ZenonT(20)
<1>2. CASE ~(i \in 1..(Len(b) - 1) /\ Unmerged(b[i], b[i + 1], header))
  <2>1. Merged(b, i, header) = b
    BY <1>2 DEF Merged, Unmerged
  <2>2. Chain(b, header, G, X \ {i})
    BY <1>2 DEF Chain
  <2> QED BY <2>1, <2>2 DEF SameSpan
<1> QED BY <1>1, <1>2

(* Releasing a block: it is free, and free neighbours join it.             *)
LEMMA ReleasedChain ==
    ASSUME NEW header \in Nat, NEW G, NEW b, NEW i \in 1..Len(b), Chain(b, header, G, {}),
           NEW f, f = [b EXCEPT ![i].free = TRUE, ![i].asked = 0],
           NEW m, m = Merged(f, i, header), NEW q, q = Merged(m, i - 1, header)
    PROVE  /\ Chain(q, header, G, {}) /\ SameSpan(b, q, header)
           /\ f \in Seq(Blocks) /\ m \in Seq(Blocks)
<1> DEFINE u == b[i]
           x == [u EXCEPT !.free = TRUE, !.asked = 0]
<1>1. b \in Seq(Blocks) /\ u \in Blocks
  BY DEF Chain
<1>2. f = [b EXCEPT ![i] = x]
  BY <1>1, ZenonT(20)
<1>3. x \in Blocks /\ x.addr = u.addr /\ x.size = u.size /\ x.free
  <2> HIDE DEF u
  <2> QED BY <1>1, ZenonT(20) DEF Blocks
<1>4. x \in Blocks /\ x.addr = b[i].addr /\ x.size = b[i].size /\ (~x.free => x.size >= x.asked)
  BY <1>3
<1> HIDE DEF x, u
<1>5. Chain(f, header, G, {} \cup {i - 1, i}) /\ SameSpan(b, f, header)
  BY <1>2, <1>4, ReplaceChain, ZenonT(40)
<1>6. {} \cup {i - 1, i} \subseteq 0..i /\ ({} \cup {i - 1, i}) \ {i} = {i - 1}
      /\ {i - 1} \subseteq 0..(i - 1) /\ {i - 1} \ {i - 1} = {} /\ i \in Int /\ i - 1 \in Int
  BY <1>1
<1>7. Chain(m, header, G, {i - 1}) /\ SameSpan(f, m, header)
  <2> DEFINE X == {} \cup {i - 1, i}
  <2>1. Chain(f, header, G, X) /\ Len(f) > 0 /\ X \subseteq 0..i /\ X \ {i} = {i - 1}
    BY <1>5, <1>6 DEF SameSpan
  <2> HIDE DEF X
  <2>2. Chain(m, header, G, X \ {i}) /\ SameSpan(f, m, header)
    <3>1. /\ Chain(Merged(f, i, header), header, G, X \ {i})
          /\ SameSpan(f, Merged(f, i, header), header)
      BY <1>6, <2>1, MergedChain, ZenonT(40)
    <3> QED BY <3>1
  <2> QED BY <2>1, <2>2, ZenonT(20)
<1>8. Chain(q, header, G, {}) /\ SameSpan(m, q, header)
  <2>1. Len(m) > 0
    BY <1>7 DEF SameSpan
  <2>2. /\ Chain(Merged(m, i - 1, header), header, G, {i - 1} \ {i - 1})
        /\ SameSpan(m, Merged(m, i - 1, header), header)
    BY <1>6, <1>7, <2>1, MergedChain, ZenonT(40)
  <2> QED BY <1>6, <2>2, ZenonT(20)
<1>9. f \in Seq(Blocks) /\ m \in Seq(Blocks)
  BY <1>5, <1>7 DEF Chain
<1> QED BY <1>5, <1>7, <1>8, <1>9 DEF SameSpan

(* A new last block.                                                       *)
LEMMA AppendedChain ==
    ASSUME NEW header \in Nat, NEW G, NEW b, Chain(b, header, G, {}), NEW new \in Blocks, new.free,
           Len(b) > 0 => Follows(b[Len(b)], new, header, G), NEW q, q = Append(b, new)
    PROVE  /\ Chain(q, header, G, {Len(b)}) /\ Len(q) = Len(b) + 1 /\ q[Len(q)] = new
           /\ SameStart(b, q, Len(b))
           /\ (Len(b) > 0 => ~Unmerged(b[Len(b)], new, header)) => Chain(q, header, G, {})
<1> DEFINE n == Len(b)
<1>1. b \in Seq(Blocks) /\ n \in Nat
  BY DEF Chain
<1>2. q \in Seq(Blocks) /\ Len(q) = n + 1 /\ q[n + 1] = new /\ \A j \in 1..n : q[j] = b[j]
  BY <1>1
<1> HIDE DEF n
<1>3. ASSUME NEW j \in 1..n PROVE
        /\ Follows(q[j], q[j + 1], header, G)
        /\ j # n => ~Unmerged(q[j], q[j + 1], header)
        /\ (n > 0 => ~Unmerged(b[n], new, header)) => ~Unmerged(q[j], q[j + 1], header)
  <2>1. CASE j = n
    <3>1. q[j] = b[n] /\ q[j + 1] = new /\ n > 0
      BY <1>1, <1>2, <2>1
    <3> QED BY <2>1, <3>1 DEF n
  <2>2. CASE j # n
    <3>1. j \in 1..(n - 1) /\ j \in 1..n /\ j + 1 \in 1..n
      BY <1>1, <2>2
    <3>2. q[j] = b[j] /\ q[j + 1] = b[j + 1]
      BY <1>2, <3>1, ZenonT(20)
    <3>3. Follows(b[j], b[j + 1], header, G) /\ ~Unmerged(b[j], b[j + 1], header)
      BY <3>1 DEF Chain, n
    <3> QED BY <3>2, <3>3
  <2> QED BY <2>1, <2>2, ZenonT(20)
<1>4. ASSUME NEW j \in 1..(n + 1), ~q[j].free PROVE q[j].size >= q[j].asked
  <2>1. CASE j = n + 1
    BY <1>2, <1>4, <2>1
  <2>2. CASE j # n + 1
    <3>1. j \in 1..n
      BY <1>1, <2>2
    <3>2. ~b[j].free => b[j].size >= b[j].asked
      BY <3>1 DEF Chain, n
    <3> QED BY <1>2, <1>4, <3>1, <3>2
  <2> QED BY <2>1, <2>2, ZenonT(20)
<1>5. Len(q) - 1 = n
  BY <1>1, <1>2
<1>6. Chain(q, header, G, {n})
  BY <1>2, <1>3, <1>4, <1>5 DEF Chain
<1>7. (n > 0 => ~Unmerged(b[n], new, header)) => Chain(q, header, G, {})
  BY <1>2, <1>3, <1>4, <1>5 DEF Chain
<1>8. SameStart(b, q, n)
  BY <1>1, <1>2 DEF SameStart
<1> QED BY <1>2, <1>6, <1>7, <1>8 DEF n

(* The search finds a block that fits when there is one.                   *)
LEMMA FirstFitFits ==
    ASSUME NEW b \in Seq(Blocks), NEW need \in Nat, NEW f, f = FirstFit(b, need)
    PROVE  /\ f # 0 => f \in 1..Len(b) /\ b[f].free /\ b[f].size >= need
           /\ (\E j \in 1..Len(b) : b[j].free /\ b[j].size >= need) => f # 0
<1> DEFINE fits == {i \in DOMAIN b : b[i].free /\ b[i].size >= need}
           c    == CHOOSE i \in fits : \A j \in fits : i <= j
<1>1. f = IF fits = {} THEN 0 ELSE c
  BY DEF FirstFit
<1>2. fits \subseteq Nat /\ fits \subseteq 1..Len(b)
  OBVIOUS
<1>3. fits # {} => c \in fits
  BY <1>2, LeastIsChosen, ZenonT(20)
<1>4. \A i \in fits : i \in 1..Len(b) /\ i # 0 /\ b[i].free /\ b[i].size >= need
  OBVIOUS
<1>5. \A j \in 1..Len(b) : b[j].free /\ b[j].size >= need => j \in fits
  OBVIOUS
<1> HIDE DEF fits, c
<1>6. CASE fits = {}
  BY <1>1, <1>5, <1>6
<1>7. CASE fits # {}
  BY <1>1, <1>3, <1>4, <1>7
<1> QED BY <1>6, <1>7

(***************************************************************************)
(* The heap of a program.                                                  *)
(***************************************************************************)
UHeaps == [blocks : Seq(Blocks), brk : Nat, maps : Seq(Nat)]

(* Inductive: the blocks tile the memory up to the break.                  *)
UHeapGood(h) ==
    /\ h \in UHeaps /\ Chain(h.blocks, UHeader, {}, {})
    /\ Len(h.blocks) = 0 => h.brk = 0
    /\ Len(h.blocks) > 0 => h.blocks[1].addr = 0 /\ h.brk = EndOf(h.blocks[Len(h.blocks)], UHeader)

(* A list that spans what the old one did may take its place.              *)
LEMMA UHeapRespanned ==
    ASSUME NEW h, UHeapGood(h), NEW q, Chain(q, UHeader, {}, {}), Len(h.blocks) > 0,
           SameSpan(h.blocks, q, UHeader), NEW g, g = [h EXCEPT !.blocks = q]
    PROVE  UHeapGood(g)
<1>1. q \in Seq(Blocks)
  BY DEF Chain
<1>2. g \in UHeaps /\ g.blocks = q /\ g.brk = h.brk
  BY <1>1, ZenonT(20) DEF UHeapGood, UHeaps
<1>3. Len(q) > 0 /\ q[1].addr = 0 /\ h.brk = EndOf(q[Len(q)], UHeader)
  BY DEF UHeapGood, SameSpan
<1>4. Len(q) # 0
  BY <1>1, <1>3
<1> QED BY <1>2, <1>3, <1>4 DEF UHeapGood

(* ufree()'s merge is the merge above.                                     *)
LEMMA MergeAdjacentIsMerged ==
    ASSUME NEW g \in UHeaps, NEW i
    PROVE  MergeAdjacent(g, i) = [g EXCEPT !.blocks = Merged(g.blocks, i, UHeader)]
<1>1. g = [g EXCEPT !.blocks = g.blocks]
  BY DEF UHeaps
<1> QED BY <1>1 DEF MergeAdjacent, Merged

(* ufree() of a block of the break heap.                                   *)
LEMMA UFreeKeeps ==
    ASSUME NEW h, UHeapGood(h), NEW i \in 1..Len(h.blocks)
    PROVE  UHeapGood(ufree(h, i)) /\ ufree(h, i).maps = h.maps
<1> DEFINE b == h.blocks
           f == [b EXCEPT ![i].free = TRUE, ![i].asked = 0]
           m == Merged(f, i, UHeader)
           q == Merged(m, i - 1, UHeader)
           r == [h EXCEPT !.blocks[i].free = TRUE, !.blocks[i].asked = 0]
<1>1. h \in UHeaps /\ b \in Seq(Blocks) /\ Len(b) > 0 /\ Chain(b, UHeader, {}, {}) /\ UHeader \in Nat
  BY DEF UHeapGood, UHeaps, UHeader
<1>2. /\ Chain(q, UHeader, {}, {}) /\ SameSpan(b, q, UHeader)
      /\ f \in Seq(Blocks) /\ m \in Seq(Blocks)
  <2>1. i \in 1..Len(b)
    OBVIOUS
  <2> HIDE DEF b
  <2> QED BY <1>1, <2>1, ReleasedChain, ZenonT(20)
<1>3. q \in Seq(Blocks)
  BY <1>2 DEF Chain
<1>4. r = [h EXCEPT !.blocks = f]
  BY <1>1, ZenonT(20) DEF UHeaps
<1> HIDE DEF q, m, f
<1>5. MergeAdjacent([h EXCEPT !.blocks = f], i) = [h EXCEPT !.blocks = m]
  <2> DEFINE g == [h EXCEPT !.blocks = f]
  <2>1. g \in UHeaps /\ g.blocks = f
    BY <1>1, <1>2, ZenonT(20) DEF UHeaps
  <2>2. [g EXCEPT !.blocks = m] = [h EXCEPT !.blocks = m]
    BY <1>1, ZenonT(20) DEF UHeaps
  <2> HIDE DEF g
  <2>3. MergeAdjacent(g, i) = [g EXCEPT !.blocks = m]
    BY <2>1, MergeAdjacentIsMerged DEF m
  <2> QED BY <2>2, <2>3 DEF g
<1>6. MergeAdjacent([h EXCEPT !.blocks = m], i - 1) = [h EXCEPT !.blocks = q]
  <2> DEFINE g == [h EXCEPT !.blocks = m]
  <2>1. g \in UHeaps /\ g.blocks = m
    BY <1>1, <1>2, ZenonT(20) DEF UHeaps
  <2>2. [g EXCEPT !.blocks = q] = [h EXCEPT !.blocks = q]
    BY <1>1, ZenonT(20) DEF UHeaps
  <2> HIDE DEF g
  <2>3. MergeAdjacent(g, i - 1) = [g EXCEPT !.blocks = q]
    BY <2>1, MergeAdjacentIsMerged DEF q
  <2> QED BY <2>2, <2>3 DEF g
<1>7. ufree(h, i) = [h EXCEPT !.blocks = q]
  BY <1>4, <1>5, <1>6 DEF ufree
<1>8. UHeapGood(ufree(h, i))
  BY <1>1, <1>2, <1>7, UHeapRespanned
<1> QED BY <1>1, <1>7, <1>8 DEF UHeaps

(* Addresses kept by one step and then by another.                         *)
LEMMA StartIsKept ==
    ASSUME NEW b \in Seq(Blocks), NEW g, SameStart(b, g, Len(b)), NEW q, KeepsPlaces(g, q)
    PROVE  KeepsPlaces(b, q)
<1>1. ASSUME NEW j \in 1..Len(b) PROVE \E k \in 1..Len(q) : q[k].addr = b[j].addr
  <2>1. j \in 1..Len(g) /\ g[j].addr = b[j].addr
    BY DEF SameStart
  <2> QED BY <2>1 DEF KeepsPlaces
<1> QED BY <1>1 DEF KeepsPlaces

(* What the program gets when the break has moved.                         *)
LEMMA GrownHeap ==
    ASSUME NEW h, UHeapGood(h), NEW need \in Nat, NEW got \in Nat, got >= h.brk + need + UHeader,
           NEW g, g = GrownTo(h, got, need), NEW t, t = umalloc_split(g, Len(g.blocks), need)
    PROVE  UHeapGood(t) /\ t.maps = h.maps /\ KeepsPlaces(h.blocks, t.blocks)
<1> DEFINE b   == h.blocks
           new == FreeBlock(h.brk, got - h.brk - UHeader)
           a   == Append(b, new)
           q   == Taken(a, Len(a), need, UHeader, ULeast)
<1>1. h \in UHeaps /\ b \in Seq(Blocks) /\ h.brk \in Nat /\ Len(b) \in Nat
      /\ Chain(b, UHeader, {}, {}) /\ UHeader \in Nat /\ ULeast \in Nat
  BY DEF UHeapGood, UHeaps, UHeader, ULeast
<1>2. new \in Blocks /\ new.free /\ new.addr = h.brk /\ new.size >= need /\ EndOf(new, UHeader) = got
  <2>1. got - h.brk - UHeader \in Nat /\ got - h.brk - UHeader >= need
        /\ h.brk + UHeader + (got - h.brk - UHeader) = got
    BY <1>1 DEF UHeader
  <2> QED BY <1>1, <2>1 DEF FreeBlock, Blocks, EndOf
<1>3. g = [h EXCEPT !.brk = got, !.blocks = a] /\ t = [g EXCEPT !.blocks = Taken(g.blocks, Len(g.blocks), need, UHeader, ULeast)]
  BY DEF GrownTo, umalloc_split
<1> HIDE DEF new
<1>4. Len(b) > 0 => Follows(b[Len(b)], new, UHeader, {})
  BY <1>1, <1>2 DEF Follows, Adjacent, UHeapGood
<1>5. Chain(a, UHeader, {}, {Len(b)}) /\ Len(a) = Len(b) + 1 /\ a[Len(a)] = new
      /\ SameStart(b, a, Len(b))
  <2>1. UHeader \in Nat /\ Chain(b, UHeader, {}, {}) /\ new \in Blocks /\ new.free /\ a = Append(b, new)
    BY <1>1, <1>2
  <2> HIDE DEF a, b
  <2>2. Chain(a, UHeader, {}, {Len(b)}) /\ SameStart(b, a, Len(b))
    BY <1>4, <2>1, AppendedChain, ZenonT(40)
  <2>3. Len(a) = Len(b) + 1 /\ a[Len(a)] = new
    BY <1>1, <2>1
  <2> QED BY <2>2, <2>3
<1>6. a \in Seq(Blocks) /\ Len(a) \in 1..Len(a) /\ {Len(b)} \subseteq {Len(a) - 1}
  BY <1>1, <1>5 DEF Chain
<1>7. g.blocks = a /\ g.brk = got /\ g.maps = h.maps /\ g \in UHeaps
  BY <1>1, <1>3, <1>6, ZenonT(20) DEF UHeaps
<1>8. t = [g EXCEPT !.blocks = q]
  BY <1>3, <1>7
<1>9. Chain(q, UHeader, {}, {}) /\ SameSpan(a, q, UHeader) /\ KeepsPlaces(a, q)
  <2>1. a[Len(a)].free /\ a[Len(a)].size >= need
    BY <1>2, <1>5
  <2>2. Chain(a, UHeader, {}, {Len(b)})
    BY <1>5
  <2> HIDE DEF a, b
  <2> QED BY <1>1, <1>6, <2>1, <2>2, TakenChain, ZenonT(40)
<1> HIDE DEF q, a
<1>10. KeepsPlaces(b, q)
  BY <1>1, <1>5, <1>9, StartIsKept
<1>11. a[1].addr = 0
  <2>1. CASE Len(b) = 0
    BY <1>2, <1>5, <2>1 DEF UHeapGood
  <2>2. CASE Len(b) > 0
    BY <1>1, <1>5, <2>2 DEF UHeapGood, SameStart
  <2> QED BY <1>1, <2>1, <2>2
<1>12. Len(q) > 0 /\ q[1].addr = 0 /\ EndOf(q[Len(q)], UHeader) = got
  BY <1>2, <1>5, <1>9, <1>11 DEF SameSpan
<1>13. t \in UHeaps /\ t.blocks = q /\ t.brk = got /\ t.maps = h.maps
  <2>1. q \in Seq(Blocks)
    BY <1>9 DEF Chain
  <2> QED BY <1>7, <1>8, <2>1 DEF UHeaps
<1>14. Len(q) # 0
  BY <1>12
<1> QED BY <1>9, <1>10, <1>12, <1>13, <1>14 DEF UHeapGood

(* The break is an address.                                                *)
LEMMA BrkIsNatural ==
    ASSUME NEW h \in UHeaps, NEW need \in Nat, NEW got \in Brk(h, h.brk + need + UHeader)
    PROVE  got \in Nat
<1> DEFINE n == h.brk + need + UHeader + UPageUnits - 1
           d == n \div UPageUnits
<1>1. h.brk \in Nat /\ UPageUnits \in Nat \ {0} /\ n \in Nat
  BY UMallocAssumption DEF UHeaps, UHeader
<1>2. d \in Nat
  <2> HIDE DEF n
  <2> QED BY <1>1
<1>3. got = h.brk \/ got = d * UPageUnits
  BY DEF Brk, PageUp
<1> HIDE DEF d
<1> QED BY <1>1, <1>2, <1>3

(* umalloc() from the break heap, whether brk() refuses or not.            *)
LEMMA FromBreakKeeps ==
    ASSUME NEW h, UHeapGood(h), NEW need \in Nat, NEW r \in FromBreak(h, need)
    PROVE  UHeapGood(r[1]) /\ r[1].maps = h.maps /\ KeepsPlaces(h.blocks, r[1].blocks)
<1> DEFINE b == h.blocks
           f == FirstFit(b, need)
<1>1. h \in UHeaps /\ b \in Seq(Blocks) /\ h.brk \in Nat
      /\ Chain(b, UHeader, {}, {}) /\ UHeader \in Nat /\ ULeast \in Nat
  BY DEF UHeapGood, UHeaps, UHeader, ULeast
<1>2. KeepsPlaces(b, b)
  BY DEF KeepsPlaces
<1>3. CASE f # 0
  <2> DEFINE q == Taken(b, f, need, UHeader, ULeast)
  <2>1. r[1] = [h EXCEPT !.blocks = q]
    BY <1>3 DEF FromBreak, umalloc_split
  <2>2. f \in 1..Len(b) /\ b[f].free /\ b[f].size >= need
    BY <1>1, <1>3, FirstFitFits
  <2> HIDE DEF b, f
  <2>3. Chain(q, UHeader, {}, {}) /\ SameSpan(b, q, UHeader) /\ KeepsPlaces(b, q)
    <3>1. {} \subseteq {f - 1}
      OBVIOUS
    <3> QED BY <1>1, <2>2, <3>1, TakenChain, ZenonT(40)
  <2>4. Len(b) > 0
    BY <1>1, <2>2
  <2> HIDE DEF q
  <2>5. UHeapGood(r[1])
    BY <2>1, <2>3, <2>4, UHeapRespanned DEF b
  <2>6. r[1].blocks = q /\ r[1].maps = h.maps
    BY <1>1, <2>1 DEF UHeaps
  <2> QED BY <2>3, <2>5, <2>6 DEF b
<1>4. CASE f = 0
  <2>1. PICK g \in umalloc_grow(h, need) :
          r = IF g = h THEN <<h, FALSE>> ELSE <<umalloc_split(g, Len(g.blocks), need), TRUE>>
    BY <1>4, ZenonT(20) DEF FromBreak
  <2>2. CASE g = h
    BY <1>2, <2>1, <2>2
  <2>3. CASE g # h
    <3>1. PICK got \in Brk(h, h.brk + need + UHeader) :
            got >= h.brk + need + UHeader /\ g = GrownTo(h, got, need)
      <4>1. PICK got \in Brk(h, h.brk + need + UHeader) :
              g = IF got < h.brk + need + UHeader THEN h ELSE GrownTo(h, got, need)
        BY DEF umalloc_grow
      <4>2. got \in Nat
        BY <1>1, BrkIsNatural
      <4> QED BY <1>1, <2>3, <4>1, <4>2
    <3>2. got \in Nat
      BY <1>1, BrkIsNatural
    <3>3. r[1] = umalloc_split(g, Len(g.blocks), need)
      BY <2>1, <2>3
    <3> QED BY <3>1, <3>2, <3>3, GrownHeap
  <2> QED BY <2>2, <2>3
<1> QED BY <1>3, <1>4

(* umalloc() as a whole.                                                   *)
LEMMA UmallocKeeps ==
    ASSUME NEW h, UHeapGood(h), NEW need \in Nat, NEW r \in umalloc(h, need)
    PROVE  UHeapGood(r[1]) /\ Len(h.maps) <= Len(r[1].maps) /\ KeepsPlaces(h.blocks, r[1].blocks)
<1>1. h \in UHeaps /\ h.maps \in Seq(Nat) /\ Len(h.maps) \in Nat
  BY DEF UHeapGood, UHeaps
<1>2. KeepsPlaces(h.blocks, h.blocks)
  BY DEF KeepsPlaces
<1>3. CASE r \in FromBreak(h, need)
  BY <1>1, <1>3, FromBreakKeeps
<1>4. CASE r = <<h, FALSE>>
  BY <1>1, <1>2, <1>4
<1>5. CASE r = <<[h EXCEPT !.maps = Append(@, need)], TRUE>>
  <2> DEFINE a == Append(h.maps, need)
             g == [h EXCEPT !.maps = a]
  <2>1. a \in Seq(Nat) /\ Len(h.maps) <= Len(a)
    BY <1>1
  <2>2. r[1] = g
    BY <1>5
  <2> HIDE DEF a
  <2>3. g \in UHeaps /\ g.blocks = h.blocks /\ g.brk = h.brk /\ g.maps = a
    BY <1>1, <2>1 DEF UHeaps
  <2> HIDE DEF g
  <2> QED BY <1>2, <2>1, <2>2, <2>3 DEF UHeapGood
<1> QED BY <1>3, <1>4, <1>5, ZenonT(20) DEF umalloc, FromMap

(* ufree() of a mapping.                                                   *)
LEMMA UnmappedKeeps ==
    ASSUME NEW h, UHeapGood(h), NEW m \in 1..Len(h.maps)
    PROVE  UHeapGood(Unmapped(h, m))
<1> DEFINE s == h.maps
           l == SubSeq(s, 1, m - 1)
           r == SubSeq(s, m + 1, Len(s))
<1>1. h \in UHeaps /\ s \in Seq(Nat) /\ Len(s) \in Nat
  BY DEF UHeapGood, UHeaps
<1>2. l \in Seq(Nat) /\ r \in Seq(Nat)
  BY <1>1
<1>3. Unmapped(h, m) = [h EXCEPT !.maps = l \o r]
  BY DEF Unmapped
<1> HIDE DEF l, r
<1>4. l \o r \in Seq(Nat)
  BY <1>2
<1> QED BY <1>1, <1>3, <1>4, ZenonT(20) DEF UHeapGood, UHeaps

(* The address that urealloc() releases is still that of a block.          *)
LEMMA BlockAtIsABlock ==
    ASSUME NEW h, NEW g \in UHeaps, NEW i \in 1..Len(h.blocks), KeepsPlaces(h.blocks, g.blocks)
    PROVE  BlockAt(g, h.blocks[i].addr) \in 1..Len(g.blocks)
<1>1. \E k \in 1..Len(g.blocks) : g.blocks[k].addr = h.blocks[i].addr
  BY DEF KeepsPlaces
<1>2. DOMAIN g.blocks = 1..Len(g.blocks)
  BY DEF UHeaps
<1> QED BY <1>1, <1>2 DEF BlockAt

(* Every call of a program keeps its heap tiled.                           *)
LEMMA UHeapStep ==
    ASSUME UHeapGood(uheap), UHeapNext
    PROVE  UHeapGood(uheap')
<1>1. /\ uheap \in UHeaps /\ DOMAIN uheap.blocks = 1..Len(uheap.blocks)
      /\ DOMAIN uheap.maps = 1..Len(uheap.maps) /\ Len(uheap.maps) \in Nat
      /\ InUse \subseteq 1..Len(uheap.blocks)
  BY DEF UHeapGood, UHeaps, InUse
<1>2. USizes \subseteq Nat
  BY UMallocAssumption
<1>3. CASE UFree
  <2>1. CASE \E i \in InUse : uheap' = ufree(uheap, i)
    BY <1>1, <2>1, UFreeKeeps
  <2>2. CASE \E m \in DOMAIN uheap.maps : uheap' = Unmapped(uheap, m)
    BY <1>1, <2>2, UnmappedKeeps
  <2> QED BY <1>3, <2>1, <2>2 DEF UFree
<1>4. ASSUME NEW need \in USizes, UMallocCall(need) PROVE UHeapGood(uheap')
  BY <1>2, <1>4, UmallocKeeps DEF UMallocCall
<1>5. ASSUME NEW need \in USizes, URealloc(need) PROVE UHeapGood(uheap')
  <2>1. CASE \E i \in InUse :
               \E r \in umalloc(uheap, need) :
                 uheap' = IF r[2] THEN ufree(r[1], BlockAt(r[1], uheap.blocks[i].addr)) ELSE uheap
    <3>1. PICK i \in InUse, r \in umalloc(uheap, need) :
            uheap' = IF r[2] THEN ufree(r[1], BlockAt(r[1], uheap.blocks[i].addr)) ELSE uheap
      BY <2>1
    <3>2. UHeapGood(r[1]) /\ KeepsPlaces(uheap.blocks, r[1].blocks) /\ i \in 1..Len(uheap.blocks)
      BY <1>1, <1>2, UmallocKeeps
    <3>3. r[1] \in UHeaps
      BY <3>2 DEF UHeapGood
    <3>4. BlockAt(r[1], uheap.blocks[i].addr) \in 1..Len(r[1].blocks)
      BY <3>2, <3>3, BlockAtIsABlock, ZenonT(20)
    <3>5. UHeapGood(ufree(r[1], BlockAt(r[1], uheap.blocks[i].addr)))
      BY <3>2, <3>4, UFreeKeeps
    <3> QED BY <3>1, <3>5
  <2>2. CASE \E m \in DOMAIN uheap.maps :
               \E r \in umalloc(uheap, need) : uheap' = IF r[2] THEN Unmapped(r[1], m) ELSE uheap
    <3>1. PICK m \in DOMAIN uheap.maps, r \in umalloc(uheap, need) :
            uheap' = IF r[2] THEN Unmapped(r[1], m) ELSE uheap
      BY <2>2
    <3>2. UHeapGood(r[1]) /\ Len(uheap.maps) <= Len(r[1].maps)
      BY <1>2, UmallocKeeps
    <3>3. Len(r[1].maps) \in Nat
      BY <3>2 DEF UHeapGood, UHeaps
    <3>4. m \in 1..Len(r[1].maps)
      BY <1>1, <3>2, <3>3
    <3>5. UHeapGood(Unmapped(r[1], m))
      BY <3>2, <3>4, UnmappedKeeps
    <3> QED BY <3>1, <3>5
  <2> QED BY <1>5, <2>1, <2>2 DEF URealloc
<1> QED BY <1>3, <1>4, <1>5 DEF UHeapNext

(* The invariant says what the run checks.                                 *)
LEMMA UHeapIsTiled ==
    ASSUME UHeapGood(uheap)
    PROVE  BreakHeapIsTiled
<1> DEFINE b == uheap.blocks
<1>1. b \in Seq(Blocks) /\ Len(b) \in Nat /\ DOMAIN b = 1..Len(b) /\ (b = <<>> <=> Len(b) = 0)
  BY DEF UHeapGood, UHeaps
<1>2. \A i \in 1..(Len(b) - 1) : /\ Follows(b[i], b[i + 1], UHeader, {})
                                 /\ ~Unmerged(b[i], b[i + 1], UHeader)
  BY DEF UHeapGood, Chain
<1>3. \A i \in 1..Len(b) : ~b[i].free => b[i].size >= b[i].asked
  BY DEF UHeapGood, Chain
<1>4. WellFormed(b, UHeader)
  BY <1>1, <1>2, <1>3 DEF WellFormed, Follows, Unmerged
<1>5. \A i \in 1..(Len(b) - 1) : Adjacent(b[i], b[i + 1], UHeader)
  BY <1>2 DEF Follows
<1>6. /\ uheap.brk = IF b = <<>> THEN 0 ELSE EndOf(b[Len(b)], UHeader)
      /\ b # <<>> => b[1].addr = 0
  BY <1>1 DEF UHeapGood
<1> QED BY <1>4, <1>5, <1>6 DEF BreakHeapIsTiled

(* Whatever a program allocates, resizes and releases, in any order and    *)
(* with brk() and mmap() refusing at will, the blocks of its break heap    *)
(* tile the memory between the start of the heap and the break.            *)
THEOREM BreakHeapStaysTiled == UHeapSpec => []BreakHeapIsTiled
<1>1. UHeapInit => UHeapGood(uheap)
  BY DEF UHeapInit, UHeapGood, UHeaps, Chain
<1>2. UHeapGood(uheap) /\ [UHeapNext]_uheap => UHeapGood(uheap)'
  <2>1. CASE UHeapNext
    BY <2>1, UHeapStep
  <2>2. CASE UNCHANGED uheap
    BY <2>2
  <2> QED BY <2>1, <2>2
<1>3. UHeapGood(uheap) => BreakHeapIsTiled
  BY UHeapIsTiled
<1> QED BY <1>1, <1>2, <1>3, PTL DEF UHeapSpec

(***************************************************************************)
(* The heap of the kernel.                                                 *)
(***************************************************************************)
PageStarts == {a \in Nat : a % PageUnits = 0}

KHeaps == [blocks : Seq(Blocks), end : Nat, mapped : SUBSET Nat, frames : Nat]

(* Inductive: what KHeapIsSound says, with the frames counted by the pages *)
(* below the end of the heap.                                              *)
KHeapGood(h, others) ==
    /\ h \in KHeaps /\ others \in Nat /\ Chain(h.blocks, KHeader, PageStarts, {})
    /\ h.mapped = 0..(h.end - 1) /\ h.frames + h.end + others = Frames
    /\ Len(h.blocks) > 0 => EndOf(h.blocks[Len(h.blocks)], KHeader) <= h.end * PageUnits

Fits(b, need) == \E j \in 1..Len(b) : b[j].free /\ b[j].size >= need

EndsWith(q, x, header) == Len(q) > 0 /\ EndOf(q[Len(q)], header) = EndOf(x, header)

(* A list that spans what the old one did may take its place.              *)
LEMMA KHeapRespanned ==
    ASSUME NEW h, NEW others, KHeapGood(h, others), NEW q, Chain(q, KHeader, PageStarts, {}),
           Len(h.blocks) > 0, SameSpan(h.blocks, q, KHeader), NEW g, g = [h EXCEPT !.blocks = q]
    PROVE  KHeapGood(g, others) /\ g.blocks = q
<1>1. q \in Seq(Blocks)
  BY DEF Chain
<1>2. g \in KHeaps /\ g.blocks = q /\ g.end = h.end /\ g.mapped = h.mapped /\ g.frames = h.frames
  BY <1>1, ZenonT(20) DEF KHeapGood, KHeaps
<1>3. EndOf(q[Len(q)], KHeader) <= h.end * PageUnits
  BY DEF KHeapGood, SameSpan
<1> QED BY <1>2, <1>3 DEF KHeapGood

(* The pages of a growth hold the request and a header.                    *)
LEMMA PagesAreEnough ==
    ASSUME NEW need \in Nat, NEW pages, pages = (need + KHeader + PageUnits - 1) \div PageUnits
    PROVE  pages \in Nat /\ pages * PageUnits >= need + KHeader
<1> DEFINE n == need + KHeader + PageUnits - 1
<1>1. PageUnits \in Nat \ {0} /\ n \in Nat /\ n = need + KHeader + (PageUnits - 1) /\ KHeader \in Nat
  BY KHeapAssumption DEF KHeader
<1>2. pages = n \div PageUnits
  OBVIOUS
<1> HIDE DEF n
<1>3. n % PageUnits \in 0..PageUnits - 1 /\ pages \in Int /\ n = PageUnits * pages + (n % PageUnits)
  BY <1>1, <1>2, DivMod
<1>4. pages \in Nat
  BY <1>1, <1>2
<1>5. PageUnits * pages = pages * PageUnits /\ PageUnits * pages \in Int
  BY <1>1, <1>4
<1> QED BY <1>1, <1>3, <1>4, <1>5

(* The pages of the heap begin at multiples of the page size.              *)
LEMMA PagesStart ==
    ASSUME NEW k \in Nat
    PROVE  k * PageUnits \in PageStarts
<1>1. PageUnits \in Nat \ {0} /\ k * PageUnits \in Nat
  BY KHeapAssumption DEF KHeader
<1>2. k * PageUnits = k * PageUnits + 0 /\ 0 \in 0..PageUnits - 1
  BY <1>1
<1>3. (k * PageUnits) % PageUnits = 0
  BY <1>1, <1>2, ModUnique
<1> QED BY <1>1, <1>3 DEF PageStarts

(* The new pages fit, joined to the block before them or not.              *)
LEMMA AppendBlockKeeps ==
    ASSUME NEW G, NEW b, Chain(b, KHeader, G, {}), NEW need \in Nat,
           NEW new \in Blocks, new.free, new.size >= need,
           Len(b) > 0 => Follows(b[Len(b)], new, KHeader, G), NEW q, q = AppendBlock(b, new)
    PROVE  /\ Chain(q, KHeader, G, {}) /\ KeepsPlaces(b, q) /\ Fits(q, need)
           /\ EndsWith(q, new, KHeader)
<1> DEFINE a == Append(b, new)
           n == Len(b)
<1>1. b \in Seq(Blocks) /\ n \in Nat /\ KHeader \in Nat /\ (b = <<>> <=> n = 0)
  BY DEF Chain, KHeader
<1>2. Len(a) = n + 1 /\ a[n + 1] = new /\ \A j \in 1..n : a[j] = b[j]
  BY <1>1
<1>3. a = Append(b, new)
  OBVIOUS
<1> HIDE DEF a
<1>4. Chain(a, KHeader, G, {Len(b)}) /\ SameStart(b, a, Len(b))
      /\ ((Len(b) > 0 => ~Unmerged(b[Len(b)], new, KHeader)) => Chain(a, KHeader, G, {}))
  BY <1>1, <1>3, AppendedChain, ZenonT(40)
<1>5. CASE n > 0 /\ Unmerged(b[n], new, KHeader)
  <2>1. q = Absorb(a, n, KHeader)
    BY <1>1, <1>3, <1>5 DEF AppendBlock, Unmerged
  <2>2. n \in 1..(Len(a) - 1) /\ Unmerged(a[n], a[n + 1], KHeader)
    BY <1>1, <1>2, <1>5
  <2>3. Chain(a, KHeader, G, {n})
    BY <1>4
  <2> HIDE DEF n
  <2>4. /\ Chain(q, KHeader, G, {}) /\ SameSpan(a, q, KHeader) /\ SameStart(a, q, n)
        /\ Len(q) = Len(a) - 1 /\ q[n].free /\ q[n].size >= a[n + 1].size
    <3> DEFINE X == {n}
    <3>1. X \subseteq 0..n /\ Chain(a, KHeader, G, X) /\ X \ {n} = {}
      BY <1>1, <2>3
    <3> HIDE DEF X
    <3>2. Chain(q, KHeader, G, X \ {n}) /\ SameSpan(a, q, KHeader) /\ Joined(a, q, n)
      BY <1>1, <2>1, <2>2, <3>1, AbsorbChain, ZenonT(20)
    <3> QED BY <3>1, <3>2, ZenonT(20) DEF Joined
  <2>5. Len(q) = n /\ n \in 1..n
    BY <1>1, <1>2, <2>2, <2>4
  <2>6. KeepsPlaces(b, q)
    BY <1>4, <2>4, <2>5 DEF SameStart, KeepsPlaces, n
  <2>7. q[n].free /\ q[n].size >= need
    <3>1. q \in Seq(Blocks)
      BY <2>4, ZenonT(20) DEF Chain
    <3>2. q[n] \in Blocks
      BY <2>5, <3>1
    <3>3. q[n].size \in Nat /\ new.size \in Nat
      BY <3>2 DEF Blocks
    <3> QED BY <1>2, <2>4, <3>3
  <2>8. EndOf(q[Len(q)], KHeader) = EndOf(new, KHeader) /\ Len(q) > 0
    BY <1>2, <2>4 DEF SameSpan
  <2> QED BY <2>2, <2>4, <2>5, <2>6, <2>7, <2>8, ZenonT(20) DEF Fits, EndsWith
<1>6. CASE ~(n > 0 /\ Unmerged(b[n], new, KHeader))
  <2>1. q = a
    BY <1>1, <1>3, <1>6 DEF AppendBlock, Unmerged
  <2>2. Chain(q, KHeader, G, {})
    BY <1>4, <1>6, <2>1
  <2>3. KeepsPlaces(b, q)
    BY <1>1, <1>2, <2>1 DEF KeepsPlaces
  <2>4. n + 1 \in 1..Len(q) /\ q[n + 1] = new /\ Len(q) = n + 1
    BY <1>1, <1>2, <2>1
  <2> QED BY <1>1, <2>2, <2>3, <2>4 DEF Fits, EndsWith
<1> QED BY <1>5, <1>6

(* A growth that fails half way leaves the heap as it was.                 *)
LEMMA RollbackRestores ==
    ASSUME NEW h \in KHeaps, h.mapped = 0..(h.end - 1), NEW i \in Nat
    PROVE  heap_rollback(Installed(h, i), h.end, i) = h
<1> DEFINE e == h.end
           new == e .. e + i - 1
           m == (h.mapped \cup new) \ new
           f == h.frames - i + i
           g == [h EXCEPT !.mapped = h.mapped \cup new, !.frames = h.frames - i, !.end = e + i]
<1>1. e \in Nat /\ h.frames \in Nat
  BY DEF KHeaps
<1>2. m = h.mapped
  BY <1>1
<1>3. f = h.frames
  BY <1>1
<1>4. Installed(h, i) = g
  BY DEF Installed
<1>5. g.mapped = h.mapped \cup new /\ g.frames = h.frames - i
  BY DEF KHeaps
<1>6. heap_rollback(g, e, i) = [g EXCEPT !.mapped = m, !.frames = f, !.end = e]
  BY <1>5 DEF heap_rollback
<1>7. [g EXCEPT !.mapped = m, !.frames = f, !.end = e] = [h EXCEPT !.mapped = m, !.frames = f, !.end = e]
  BY ZenonT(20) DEF KHeaps
<1> HIDE DEF m, f, g, e
<1>8. [h EXCEPT !.mapped = m, !.frames = f, !.end = e] = h
  BY <1>2, <1>3, ZenonT(20) DEF KHeaps, e
<1> QED BY <1>4, <1>6, <1>7, <1>8 DEF e

(* heap_grow(): the heap is as it was, or has grown by a block that fits.  *)
LEMMA GrowKeeps ==
    ASSUME NEW h, NEW others, KHeapGood(h, others), NEW need \in Nat, NEW r \in heap_grow(h, need)
    PROVE  \/ r = <<h, FALSE>>
           \/ /\ r[2] /\ KHeapGood(r[1], others) /\ KeepsPlaces(h.blocks, r[1].blocks)
              /\ Fits(r[1].blocks, need)
<1> DEFINE pages == (need + KHeader + PageUnits - 1) \div PageUnits
           b     == h.blocks
           new   == FreeBlock(h.end * PageUnits, pages * PageUnits - KHeader)
           q     == AppendBlock(b, new)
<1>1. /\ h \in KHeaps /\ b \in Seq(Blocks) /\ h.end \in Nat /\ h.frames \in Nat /\ others \in Nat
      /\ Chain(b, KHeader, PageStarts, {}) /\ h.mapped = 0..(h.end - 1)
      /\ h.frames + h.end + others = Frames
  BY DEF KHeapGood, KHeaps
<1>2. pages \in Nat /\ pages * PageUnits >= need + KHeader
  BY PagesAreEnough
<1>3. PageUnits \in Nat /\ KHeader \in Nat /\ Frames \in Nat
  BY KHeapAssumption DEF KHeader
<1>4. ASSUME NEW i \in 0..(pages - 1) PROVE heap_rollback(Installed(h, i), h.end, i) = h
  BY <1>1, RollbackRestores
<1>5. r = <<h, FALSE>> \/ (pages <= h.frames /\ r = <<[Installed(h, pages) EXCEPT !.blocks = q], TRUE>>)
  <2>1. CASE pages > h.frames
    BY <2>1, ZenonT(20) DEF heap_grow
  <2>2. CASE ~(pages > h.frames)
    <3>1. \/ \E i \in 0..(pages - 1) : r = <<heap_rollback(Installed(h, i), h.end, i), FALSE>>
          \/ r = <<[Installed(h, pages) EXCEPT !.blocks = AppendBlock(@, new)], TRUE>>
      <4> HIDE DEF b, q
      <4> QED BY <2>2, ZenonT(20) DEF heap_grow
    <3>2. Installed(h, pages).blocks = b
      BY <1>1 DEF Installed, KHeaps
    <3> HIDE DEF pages
    <3>3. pages <= h.frames
      BY <1>1, <1>2, <2>2
    <3> QED BY <1>4, <3>1, <3>2, <3>3, ZenonT(20)
  <2> QED BY <2>1, <2>2, ZenonT(20)
<1> HIDE DEF pages
<1>6. ASSUME pages <= h.frames, r = <<[Installed(h, pages) EXCEPT !.blocks = q], TRUE>>
      PROVE  /\ r[2] /\ KHeapGood(r[1], others) /\ KeepsPlaces(b, r[1].blocks)
             /\ Fits(r[1].blocks, need)
  <2>1. /\ h.end * PageUnits \in Nat /\ pages * PageUnits \in Nat
        /\ h.end * PageUnits + pages * PageUnits = (h.end + pages) * PageUnits
    BY <1>1, <1>2, <1>3
  <2>2. new \in Blocks /\ new.free /\ new.size >= need /\ new.addr = h.end * PageUnits
        /\ EndOf(new, KHeader) = (h.end + pages) * PageUnits
    <3> DEFINE x == h.end * PageUnits
               y == pages * PageUnits
    <3> HIDE DEF x, y
    <3>1. y - KHeader \in Nat /\ y - KHeader >= need /\ x \in Nat
          /\ x + KHeader + (y - KHeader) = x + y
      BY <1>2, <1>3, <2>1 DEF x, y
    <3>2. new = FreeBlock(x, y - KHeader)
      BY DEF x, y
    <3>3. new \in Blocks /\ new.free /\ new.size >= need /\ new.addr = x /\ EndOf(new, KHeader) = x + y
      BY <3>1, <3>2 DEF FreeBlock, Blocks, EndOf
    <3> QED BY <2>1, <3>3 DEF x, y
  <2> HIDE DEF new
  <2>3. Len(b) > 0 => Follows(b[Len(b)], new, KHeader, PageStarts)
    <3>1. h.end * PageUnits \in PageStarts
      BY <1>1, PagesStart
    <3> QED BY <2>2, <3>1 DEF KHeapGood, Follows
  <2>4. /\ Chain(q, KHeader, PageStarts, {}) /\ KeepsPlaces(b, q) /\ Fits(q, need)
        /\ EndsWith(q, new, KHeader)
    <3>1. q = AppendBlock(b, new) /\ Chain(b, KHeader, PageStarts, {})
          /\ new \in Blocks /\ new.free /\ new.size >= need
      BY <1>1, <2>2, ZenonT(20)
    <3> HIDE DEF b, q
    <3> QED BY <2>3, <3>1, AppendBlockKeeps, ZenonT(40)
  <2> HIDE DEF q
  <2>5. q \in Seq(Blocks)
    BY <2>4, ZenonT(20) DEF Chain
  <2>6. /\ r[1] \in KHeaps /\ r[1].blocks = q /\ r[1].end = h.end + pages
        /\ r[1].frames = h.frames - pages /\ r[1].mapped = 0..(h.end + pages - 1)
    <3> DEFINE m == h.mapped \cup (h.end .. h.end + pages - 1)
    <3>1. m = 0..(h.end + pages - 1) /\ h.frames - pages \in Nat /\ h.end + pages \in Nat
          /\ m \in SUBSET Nat
      BY <1>1, <1>2, <1>6
    <3>2. r[1] = [[h EXCEPT !.mapped = m, !.frames = h.frames - pages, !.end = h.end + pages]
                    EXCEPT !.blocks = q]
      BY <1>6 DEF Installed
    <3> HIDE DEF m
    <3> QED BY <1>1, <2>5, <3>1, <3>2, ZenonT(20) DEF KHeaps
  <2>7. r[1].frames + r[1].end + others = Frames
    BY <1>1, <1>2, <2>6
  <2>8. EndOf(q[Len(q)], KHeader) <= (h.end + pages) * PageUnits
    BY <2>1, <2>2, <2>4 DEF EndsWith
  <2>9. KHeapGood(r[1], others)
    <3> DEFINE g == r[1]
    <3>1. g \in KHeaps /\ g.blocks = q /\ g.end = h.end + pages /\ g.mapped = 0..(h.end + pages - 1)
          /\ g.frames + g.end + others = Frames
      BY <2>6, <2>7
    <3> HIDE DEF g
    <3>2. g.mapped = 0..(g.end - 1) /\ Chain(g.blocks, KHeader, PageStarts, {}) /\ others \in Nat
      <4>1. g.mapped = 0..(g.end - 1)
        BY <1>1, <1>2, <3>1
      <4>2. Chain(g.blocks, KHeader, PageStarts, {})
        BY <2>4, <3>1, ZenonT(20)
      <4> QED BY <1>1, <4>1, <4>2
    <3>3. EndOf(g.blocks[Len(g.blocks)], KHeader) <= g.end * PageUnits
      BY <2>8, <3>1, Zenon
    <3>4. KHeapGood(g, others)
      BY <3>1, <3>2, <3>3 DEF KHeapGood
    <3> QED BY <3>4 DEF g
  <2> QED BY <1>6, <2>4, <2>6, <2>9
<1> QED BY <1>5, <1>6, ZenonT(20)

(* kmalloc() of a block that fits.                                         *)
LEMMA GiveKeeps ==
    ASSUME NEW h, NEW others, KHeapGood(h, others), NEW need \in Nat, FirstFit(h.blocks, need) # 0
    PROVE  KHeapGood(Give(h, need), others) /\ KeepsPlaces(h.blocks, Give(h, need).blocks)
<1> DEFINE b == h.blocks
           f == FirstFit(b, need)
           q == Taken(b, f, need, KHeader, KLeast)
           g == [h EXCEPT !.blocks = q]
<1>1. /\ b \in Seq(Blocks) /\ Chain(b, KHeader, PageStarts, {}) /\ KHeader \in Nat /\ KLeast \in Nat
  BY DEF KHeapGood, KHeaps, KHeader, KLeast
<1>2. f \in 1..Len(b) /\ b[f].free /\ b[f].size >= need
  BY <1>1, FirstFitFits
<1>3. Len(b) > 0
  BY <1>1, <1>2
<1>4. Give(h, need) = g
  BY DEF Give
<1> HIDE DEF f
<1>5. Chain(q, KHeader, PageStarts, {}) /\ SameSpan(b, q, KHeader) /\ KeepsPlaces(b, q)
  <2>1. {} \subseteq {f - 1}
    OBVIOUS
  <2> HIDE DEF b
  <2> QED BY <1>1, <1>2, <2>1, TakenChain, ZenonT(40)
<1> HIDE DEF q
<1>6. g = [h EXCEPT !.blocks = q]
  OBVIOUS
<1> HIDE DEF g
<1>7. KHeapGood(g, others) /\ g.blocks = q
  BY <1>3, <1>5, <1>6, KHeapRespanned
<1> QED BY <1>4, <1>5, <1>7

(* kmalloc() as a whole.                                                   *)
LEMMA KmallocKeeps ==
    ASSUME NEW h, NEW others, KHeapGood(h, others), NEW need \in Nat, NEW r \in kmalloc(h, need)
    PROVE  KHeapGood(r[1], others) /\ KeepsPlaces(h.blocks, r[1].blocks)
<1>1. KeepsPlaces(h.blocks, h.blocks)
  BY DEF KeepsPlaces
<1>2. CASE FirstFit(h.blocks, need) # 0
  <2>1. r[1] = Give(h, need)
    BY <1>2 DEF kmalloc
  <2> QED BY <1>2, <2>1, GiveKeeps
<1>3. CASE FirstFit(h.blocks, need) = 0
  <2>1. PICK g \in heap_grow(h, need) : r = IF g[2] THEN <<Give(g[1], need), TRUE>> ELSE g
    BY <1>3, ZenonT(20) DEF kmalloc
  <2>2. CASE g = <<h, FALSE>>
    BY <1>1, <2>1, <2>2
  <2>3. CASE g[2] /\ KHeapGood(g[1], others) /\ KeepsPlaces(h.blocks, g[1].blocks) /\ Fits(g[1].blocks, need)
    <3> DEFINE k == g[1]
    <3>1. KHeapGood(k, others) /\ KeepsPlaces(h.blocks, k.blocks) /\ Fits(k.blocks, need)
          /\ r[1] = Give(k, need)
      BY <2>1, <2>3
    <3> HIDE DEF k
    <3>2. k.blocks \in Seq(Blocks)
      BY <3>1 DEF KHeapGood, KHeaps
    <3>3. FirstFit(k.blocks, need) # 0
      BY <3>1, <3>2, FirstFitFits DEF Fits
    <3>4. KHeapGood(r[1], others) /\ KeepsPlaces(k.blocks, r[1].blocks)
      BY <3>1, <3>3, GiveKeeps
    <3> QED BY <3>1, <3>4 DEF KeepsPlaces
  <2> QED BY <2>2, <2>3, GrowKeeps, ZenonT(20)
<1> QED BY <1>2, <1>3

(* Dropping the last block, or making it smaller.                          *)
LEMMA DropLastChain ==
    ASSUME NEW header, NEW G, NEW b, Chain(b, header, G, {}), Len(b) > 0,
           NEW q, q = SubSeq(b, 1, Len(b) - 1)
    PROVE  /\ Chain(q, header, G, {}) /\ Len(q) = Len(b) - 1
           /\ Len(q) > 0 => Follows(q[Len(q)], b[Len(b)], header, G)
<1> DEFINE n == Len(b)
<1>1. b \in Seq(Blocks) /\ n \in Nat /\ n > 0
  BY DEF Chain
<1>2. q \in Seq(Blocks) /\ Len(q) = n - 1 /\ \A j \in 1..(n - 1) : q[j] = b[j]
  <2> DEFINE m == n - 1
             l == SubSeq(b, 1, m)
  <2>1. m \in Nat /\ m <= n
    BY <1>1
  <2>2. q = l
    OBVIOUS
  <2> HIDE DEF m
  <2>3. l \in Seq(Blocks) /\ Len(l) = m /\ \A j \in 1..m : l[j] = b[j]
    BY <1>1, <2>1
  <2> HIDE DEF l
  <2> QED BY <2>2, <2>3 DEF m
<1> HIDE DEF n
<1>3. ASSUME NEW j \in 1..(n - 1) PROVE
        /\ Follows(b[j], b[j + 1], header, G) /\ ~Unmerged(b[j], b[j + 1], header)
  BY DEF Chain, n
<1>4. ASSUME NEW j \in 1..(n - 2) PROVE
        /\ Follows(q[j], q[j + 1], header, G) /\ ~Unmerged(q[j], q[j + 1], header)
  <2>1. j \in 1..(n - 1) /\ j + 1 \in 1..(n - 1)
    BY <1>1
  <2>2. q[j] = b[j] /\ q[j + 1] = b[j + 1]
    BY <1>2, <2>1
  <2> QED BY <1>3, <2>1, <2>2, ZenonT(20)
<1>5. ASSUME NEW j \in 1..(n - 1), ~q[j].free PROVE q[j].size >= q[j].asked
  <2>1. j \in 1..n /\ q[j] = b[j]
    BY <1>1, <1>2
  <2> QED BY <1>5, <2>1 DEF Chain, n
<1>6. Len(q) - 1 = n - 2
  BY <1>1, <1>2
<1>7. Chain(q, header, G, {})
  BY <1>2, <1>4, <1>5, <1>6 DEF Chain
<1>8. Len(q) > 0 => Follows(q[n - 1], b[n], header, G)
  <2>1. SUFFICES ASSUME n - 1 > 0 PROVE Follows(q[n - 1], b[n], header, G)
    BY <1>2
  <2>2. n - 1 \in 1..(n - 1) /\ (n - 1) + 1 = n
    BY <1>1, <2>1
  <2> QED BY <1>2, <1>3, <2>2, ZenonT(20)
<1> QED BY <1>2, <1>7, <1>8 DEF n

(* The last block with another size.                                       *)
LEMMA ResizeLastChain ==
    ASSUME NEW header \in Nat, NEW G, NEW b, Chain(b, header, G, {}), Len(b) > 0, b[Len(b)].free,
           NEW x \in Blocks, x.addr = b[Len(b)].addr, x.free, NEW q, q = [b EXCEPT ![Len(b)] = x]
    PROVE  Chain(q, header, G, {}) /\ EndsWith(q, x, header)
<1> DEFINE n == Len(b)
<1>1. b \in Seq(Blocks) /\ n \in Nat /\ n > 0
  BY DEF Chain
<1>2. q \in Seq(Blocks) /\ Len(q) = n /\ q[n] = x /\ \A j \in 1..(n - 1) : q[j] = b[j]
  BY <1>1
<1> HIDE DEF n
<1>3. ASSUME NEW j \in 1..(n - 1) PROVE
        /\ Follows(q[j], q[j + 1], header, G) /\ ~Unmerged(q[j], q[j + 1], header)
  <2>1. Follows(b[j], b[j + 1], header, G) /\ ~Unmerged(b[j], b[j + 1], header)
    BY DEF Chain, n
  <2>2. CASE j + 1 = n
    <3>1. q[j] = b[j] /\ q[j + 1] = x /\ b[j + 1] = b[n] /\ b[j] \in Blocks /\ b[n] \in Blocks
      BY <1>1, <1>2, <2>2 DEF n
    <3>2. b[n].addr = x.addr /\ b[n].free
      BY DEF n
    <3>3. /\ Follows(b[j], b[n], header, G) => Follows(b[j], x, header, G)
          /\ ~Unmerged(b[j], b[n], header) => ~Unmerged(b[j], x, header)
      <4> DEFINE c == b[j]
                 d == b[n]
      <4>1. c \in Blocks /\ d \in Blocks /\ d.addr = x.addr /\ d.free
        BY <3>1, <3>2
      <4> HIDE DEF c, d
      <4>2. /\ Follows(c, d, header, G) => Follows(c, x, header, G)
            /\ ~Unmerged(c, d, header) => ~Unmerged(c, x, header)
        BY <4>1, SameNeighbours
      <4> QED BY <4>2 DEF c, d
    <3> QED BY <2>1, <3>1, <3>3
  <2>3. CASE j + 1 # n
    <3>1. j + 1 \in 1..(n - 1)
      BY <1>1, <2>3
    <3>2. q[j] = b[j] /\ q[j + 1] = b[j + 1]
      BY <1>2, <3>1
    <3> QED BY <2>1, <3>2
  <2> QED BY <2>2, <2>3
<1>4. ASSUME NEW j \in 1..n, ~q[j].free PROVE q[j].size >= q[j].asked
  <2>1. CASE j = n
    BY <1>2, <1>4, <2>1
  <2>2. CASE j # n
    <3>1. q[j] = b[j]
      BY <1>1, <1>2, <2>2
    <3> QED BY <1>4, <3>1 DEF Chain, n
  <2> QED BY <2>1, <2>2
<1>5. Chain(q, header, G, {})
  BY <1>2, <1>3, <1>4 DEF Chain
<1> QED BY <1>1, <1>2, <1>5 DEF EndsWith

(* The whole pages of the last block lie at the end of the heap.           *)
LEMMA TailPages ==
    ASSUME NEW s \in Nat, NEW a \in Nat, NEW end \in Nat, a + KHeader + s <= end * PageUnits,
           NEW p, p = s \div PageUnits, NEW left, left = s - p * PageUnits
    PROVE  /\ p \in Nat /\ left \in Nat /\ end - p \in Nat
           /\ a + KHeader + left <= (end - p) * PageUnits
<1>1. PageUnits \in Nat \ {0} /\ KHeader \in Nat
  BY KHeapAssumption DEF KHeader
<1>2. s % PageUnits \in 0..PageUnits - 1 /\ p \in Int /\ s = PageUnits * p + (s % PageUnits)
  BY <1>1, DivMod
<1>3. p \in Nat
  BY <1>1
<1> DEFINE y == p * PageUnits
           z == end * PageUnits
<1>4. y \in Nat /\ z \in Nat /\ PageUnits * p = y /\ (end - p) * PageUnits = z - y
  BY <1>1, <1>3
<1>5. left = s - y /\ a + KHeader + s <= z
  OBVIOUS
<1> HIDE DEF y, z
<1>6. left \in Nat /\ a + KHeader + left <= z - y
  BY <1>1, <1>2, <1>4, <1>5
<1>7. end - p \in Nat
  <2>1. SUFFICES ASSUME end < p PROVE FALSE
    BY <1>3
  <2>2. (p - end) * PageUnits >= PageUnits
    BY <1>1, <1>3, <2>1, MultipleIsLarge
  <2>3. (p - end) * PageUnits = y - z
    BY <1>1, <1>3 DEF y, z
  <2> QED BY <1>1, <1>4, <1>6, <2>2, <2>3
<1> QED BY <1>3, <1>4, <1>6, <1>7

(* The end of kfree(): pages go back, and each of them once.               *)
LEMMA ShrinkTailKeeps ==
    ASSUME NEW h, NEW others, KHeapGood(h, others), Len(h.blocks) > 0, h.blocks[Len(h.blocks)].free
    PROVE  KHeapGood(ShrinkTail(h), others)
<1> DEFINE b    == h.blocks
           n    == Len(b)
           u    == b[n]
           p    == WholePages(u.size)
           left == u.size - p * PageUnits
           cut  == (h.end - p) .. (h.end - 1)
           q    == IF p = 0 THEN b ELSE IF left < KHeader THEN SubSeq(b, 1, n - 1)
                   ELSE [b EXCEPT ![n].size = left]
           m    == h.mapped \ cut
           e    == h.end - p
           f    == h.frames + Cardinality(h.mapped \cap cut)
           t    == [h EXCEPT !.mapped = m, !.end = e, !.frames = f, !.blocks = q]
<1>1. /\ h \in KHeaps /\ b \in Seq(Blocks) /\ h.end \in Nat /\ h.frames \in Nat /\ others \in Nat
      /\ Chain(b, KHeader, PageStarts, {}) /\ h.mapped = 0..(h.end - 1)
      /\ h.frames + h.end + others = Frames /\ EndOf(u, KHeader) <= h.end * PageUnits
  BY DEF KHeapGood, KHeaps
<1>2. n \in Nat /\ n > 0 /\ u \in Blocks /\ u.free /\ u.size \in Nat /\ u.addr \in Nat
      /\ EndOf(u, KHeader) = u.addr + KHeader + u.size
  <2>1. n \in Nat /\ n > 0 /\ n \in 1..n
    BY <1>1
  <2>2. u \in Blocks /\ u.free
    BY <1>1, <2>1
  <2> HIDE DEF u, n
  <2> QED BY <2>1, <2>2 DEF Blocks, EndOf
<1>3. ShrinkTail(h) = t
  BY DEF ShrinkTail
<1>4. PageUnits \in Nat /\ KHeader \in Nat /\ Frames \in Nat
  BY KHeapAssumption DEF KHeader
<1>5. p \in Nat /\ left \in Nat /\ e \in Nat /\ u.addr + KHeader + left <= e * PageUnits
  <2>1. p = u.size \div PageUnits /\ left = u.size - p * PageUnits /\ u.addr + KHeader + u.size <= h.end * PageUnits
    BY <1>1, <1>2 DEF WholePages
  <2> HIDE DEF p, left, u
  <2> QED BY <1>1, <1>2, <2>1, TailPages
<1> HIDE DEF p, left
<1>6. m = 0..(e - 1) /\ h.mapped \cap cut = cut
  BY <1>1, <1>5
<1>7. Cardinality(cut) = p
  <2>1. h.end - p \in Int /\ h.end - 1 \in Int
    BY <1>1, <1>5
  <2>2. Cardinality(cut) = IF h.end - p > h.end - 1 THEN 0 ELSE (h.end - 1) - (h.end - p) + 1
    BY <2>1, FS_Interval, ZenonT(20)
  <2> HIDE DEF cut
  <2> QED BY <1>1, <1>5, <2>2
<1>8. f \in Nat /\ f + e + others = Frames
  <2>1. f = h.frames + p
    BY <1>6, <1>7, ZenonT(20)
  <2>2. p \in Nat /\ e \in Nat /\ e = h.end - p
    BY <1>5
  <2>3. h.end \in Nat /\ h.frames \in Nat /\ others \in Nat /\ h.frames + h.end + others = Frames
    BY <1>1
  <2> HIDE DEF f, e
  <2>4. f \in Nat
    BY <2>1, <2>2, <2>3
  <2>5. f + e + others = h.frames + h.end + others
    BY <2>1, <2>2, <2>3
  <2> QED BY <2>3, <2>4, <2>5
<1>9. /\ Chain(q, KHeader, PageStarts, {})
      /\ Len(q) > 0 => EndOf(q[Len(q)], KHeader) <= e * PageUnits
  <2>1. CASE p = 0
    <3>1. q = b /\ e = h.end
      BY <1>1, <2>1
    <3> QED BY <1>1, <3>1, ZenonT(20)
  <2>2. CASE p # 0 /\ left < KHeader
    <3>1. q = SubSeq(b, 1, n - 1)
      BY <2>2
    <3> HIDE DEF q
    <3>2. /\ Chain(q, KHeader, PageStarts, {}) /\ Len(q) = n - 1
          /\ Len(q) > 0 => Follows(q[Len(q)], u, KHeader, PageStarts)
      BY <1>1, <1>2, <3>1, DropLastChain, ZenonT(20)
    <3>3. ASSUME Len(q) > 0 PROVE EndOf(q[Len(q)], KHeader) <= e * PageUnits
      <4> DEFINE x == q[Len(q)]
                 z == e * PageUnits
      <4>1. x \in Blocks
        <5>1. q \in Seq(Blocks)
          BY <3>2 DEF Chain
        <5>2. Len(q) \in 1..Len(q)
          BY <3>3, <5>1
        <5> QED BY <5>1, <5>2
      <4>2. EndOf(x, KHeader) \in Nat /\ EndOf(x, KHeader) <= u.addr
        <5>1. Follows(x, u, KHeader, PageStarts)
          BY <3>2, <3>3
        <5> HIDE DEF x, u
        <5>2. EndOf(x, KHeader) \in Nat
          BY <1>4, <4>1 DEF EndOf, Blocks
        <5> QED BY <5>1, <5>2 DEF Follows
      <4>3. z \in Nat /\ u.addr + KHeader + left <= z
        BY <1>4, <1>5, SMTT(20)
      <4> HIDE DEF x, z
      <4>4. EndOf(x, KHeader) <= z
        BY <1>2, <1>4, <1>5, <4>2, <4>3
      <4> QED BY <4>4 DEF x, z
    <3> QED BY <3>2, <3>3
  <2>3. CASE p # 0 /\ ~(left < KHeader)
    <3> DEFINE x == [u EXCEPT !.size = left]
    <3>1. x \in Blocks /\ x.addr = u.addr /\ x.free /\ x.size = left
      <4> HIDE DEF u
      <4> QED BY <1>2, <1>5 DEF Blocks
    <3>2. q = [b EXCEPT ![n] = x]
      BY <1>1, <2>3
    <3>3. EndOf(x, KHeader) <= e * PageUnits
      BY <1>5, <3>1 DEF EndOf
    <3>4. /\ Chain(b, KHeader, PageStarts, {}) /\ Len(b) > 0 /\ b[Len(b)].free
          /\ x.addr = b[Len(b)].addr /\ q = [b EXCEPT ![Len(b)] = x]
      BY <1>1, <1>2, <3>1, <3>2
    <3> HIDE DEF x, q, u, b
    <3>5. Chain(q, KHeader, PageStarts, {}) /\ EndsWith(q, x, KHeader)
      BY <1>4, <3>1, <3>4, ResizeLastChain, ZenonT(40)
    <3> QED BY <3>3, <3>5 DEF EndsWith
  <2> QED BY <2>1, <2>2, <2>3
<1>10. q \in Seq(Blocks) /\ m \in SUBSET Nat
  BY <1>5, <1>6, <1>9 DEF Chain
<1> HIDE DEF q, m, f, e
<1>11. t \in KHeaps /\ t.blocks = q /\ t.mapped = m /\ t.frames = f /\ t.end = e
  BY <1>1, <1>5, <1>8, <1>10, ZenonT(20) DEF KHeaps
<1> HIDE DEF t
<1>12. KHeapGood(t, others)
  BY <1>1, <1>6, <1>8, <1>9, <1>11, ZenonT(20) DEF KHeapGood
<1> QED BY <1>3, <1>12

(* kfree() as a whole.                                                     *)
LEMMA KfreeKeeps ==
    ASSUME NEW h, NEW others, KHeapGood(h, others), NEW i \in 1..Len(h.blocks)
    PROVE  KHeapGood(kfree(h, i), others)
<1> DEFINE b == h.blocks
           f == [b EXCEPT ![i].free = TRUE, ![i].asked = 0]
           m == Merged(f, i, KHeader)
           q == Merged(m, i - 1, KHeader)
           g == [h EXCEPT !.blocks = q]
<1>1. b \in Seq(Blocks) /\ Len(b) > 0 /\ Chain(b, KHeader, PageStarts, {}) /\ KHeader \in Nat
  BY DEF KHeapGood, KHeaps, KHeader
<1>2. Chain(q, KHeader, PageStarts, {}) /\ SameSpan(b, q, KHeader)
  <2>1. i \in 1..Len(b)
    OBVIOUS
  <2> HIDE DEF b
  <2> QED BY <1>1, <2>1, ReleasedChain
<1>3. q = MergeWithNext(MergeWithNext(f, i), i - 1)
  BY DEF Merged, MergeWithNext
<1> HIDE DEF m
<1>4. kfree(h, i) = IF q[Len(q)].free /\ q[Len(q)].addr <= b[i].addr THEN ShrinkTail(g) ELSE g
  <2> HIDE DEF q
  <2> QED BY <1>3 DEF kfree
<1> HIDE DEF q, f
<1>5. g = [h EXCEPT !.blocks = q]
  OBVIOUS
<1> HIDE DEF g
<1>6. KHeapGood(g, others) /\ g.blocks = q
  BY <1>1, <1>2, <1>5, KHeapRespanned
<1>7. Len(q) > 0
  BY <1>2 DEF SameSpan
<1>8. CASE q[Len(q)].free /\ q[Len(q)].addr <= b[i].addr
  <2>1. KHeapGood(ShrinkTail(g), others)
    BY <1>6, <1>7, <1>8, ShrinkTailKeeps
  <2> QED BY <1>4, <1>8, <2>1
<1>9. CASE ~(q[Len(q)].free /\ q[Len(q)].addr <= b[i].addr)
  BY <1>4, <1>6, <1>9
<1> QED BY <1>8, <1>9

(* The address that krealloc() releases is still that of a block.          *)
LEMMA PlaceOfIsABlock ==
    ASSUME NEW h, NEW g \in KHeaps, NEW i \in 1..Len(h.blocks), KeepsPlaces(h.blocks, g.blocks)
    PROVE  PlaceOf(g, h.blocks[i].addr) \in 1..Len(g.blocks)
<1>1. \E k \in 1..Len(g.blocks) : g.blocks[k].addr = h.blocks[i].addr
  BY DEF KeepsPlaces
<1>2. DOMAIN g.blocks = 1..Len(g.blocks)
  BY DEF KHeaps
<1> QED BY <1>1, <1>2 DEF PlaceOf

(* Every step of the kernel and of the other users of frames keeps the     *)
(* heap sound.                                                             *)
LEMMA KHeapStep ==
    ASSUME KHeapGood(kheap, kheapOthers), KHeapNext
    PROVE  KHeapGood(kheap', kheapOthers')
<1>1. kheap \in KHeaps /\ Allocated \subseteq 1..Len(kheap.blocks)
  BY DEF KHeapGood, KHeaps, Allocated
<1>2. KSizes \subseteq Nat
  BY KHeapAssumption
<1>3. ASSUME NEW need \in KSizes, KMalloc(need) PROVE KHeapGood(kheap', kheapOthers')
  BY <1>2, <1>3, KmallocKeeps DEF KMalloc
<1>4. ASSUME NEW i \in Allocated, KFree(i) PROVE KHeapGood(kheap', kheapOthers')
  BY <1>1, <1>4, KfreeKeeps DEF KFree
<1>5. ASSUME NEW i \in Allocated, NEW need \in KSizes, KRealloc(i, need)
      PROVE  KHeapGood(kheap', kheapOthers')
  <2>1. PICK r \in kmalloc(kheap, need) :
          kheap' = IF r[2] THEN kfree(r[1], PlaceOf(r[1], kheap.blocks[i].addr)) ELSE r[1]
    BY <1>5 DEF KRealloc
  <2>2. KHeapGood(r[1], kheapOthers) /\ KeepsPlaces(kheap.blocks, r[1].blocks)
        /\ i \in 1..Len(kheap.blocks)
    BY <1>1, <1>2, KmallocKeeps
  <2>3. r[1] \in KHeaps
    BY <2>2 DEF KHeapGood
  <2>4. PlaceOf(r[1], kheap.blocks[i].addr) \in 1..Len(r[1].blocks)
    BY <2>2, <2>3, PlaceOfIsABlock, ZenonT(20)
  <2>5. KHeapGood(kfree(r[1], PlaceOf(r[1], kheap.blocks[i].addr)), kheapOthers)
    BY <2>2, <2>4, KfreeKeeps
  <2>6. kheapOthers' = kheapOthers
    BY <1>5 DEF KRealloc
  <2> QED BY <2>1, <2>2, <2>5, <2>6
<1>6. ASSUME NEW d \in {-1, 1}, kheap.frames + d \in Nat, kheapOthers - d \in Nat,
             kheap' = [kheap EXCEPT !.frames = @ + d], kheapOthers' = kheapOthers - d
      PROVE  KHeapGood(kheap', kheapOthers')
  <2>1. /\ kheap' \in KHeaps /\ kheap'.blocks = kheap.blocks /\ kheap'.end = kheap.end
        /\ kheap'.mapped = kheap.mapped /\ kheap'.frames = kheap.frames + d
    BY <1>1, <1>6 DEF KHeaps
  <2>2. kheap.frames \in Nat /\ kheap.end \in Nat /\ kheapOthers \in Nat
    BY <1>1 DEF KHeapGood, KHeaps
  <2>3. kheap'.frames + kheap'.end + kheapOthers' = kheap.frames + kheap.end + kheapOthers
    BY <1>6, <2>1, <2>2
  <2> QED BY <1>6, <2>1, <2>3 DEF KHeapGood
<1>7. kheap.frames \in Nat /\ kheapOthers \in Nat
  BY <1>1 DEF KHeapGood, KHeaps
<1>8. CASE OthersTake
  <2>1. kheap.frames + (-1) \in Nat /\ kheapOthers - (-1) \in Nat
        /\ kheap' = [kheap EXCEPT !.frames = @ + (-1)] /\ kheapOthers' = kheapOthers - (-1)
    BY <1>7, <1>8 DEF OthersTake
  <2> QED BY <1>6, <2>1
<1>9. CASE OthersReturn
  <2>1. kheap.frames + 1 \in Nat /\ kheapOthers - 1 \in Nat
        /\ kheap' = [kheap EXCEPT !.frames = @ + 1] /\ kheapOthers' = kheapOthers - 1
    BY <1>7, <1>9 DEF OthersReturn
  <2> QED BY <1>6, <2>1
<1> QED BY <1>3, <1>4, <1>5, <1>8, <1>9 DEF KHeapNext

(* The invariant says what the run checks.                                 *)
LEMMA KHeapGoodIsSound ==
    ASSUME KHeapGood(kheap, kheapOthers)
    PROVE  KHeapIsSound
<1> DEFINE b == kheap.blocks
<1>1. /\ b \in Seq(Blocks) /\ Len(b) \in Nat /\ DOMAIN b = 1..Len(b) /\ (b = <<>> <=> Len(b) = 0)
      /\ kheap.end \in Nat
  BY DEF KHeapGood, KHeaps
<1>2. \A i \in 1..(Len(b) - 1) : /\ Follows(b[i], b[i + 1], KHeader, PageStarts)
                                 /\ ~Unmerged(b[i], b[i + 1], KHeader)
  BY DEF KHeapGood, Chain
<1>3. \A i \in 1..Len(b) : ~b[i].free => b[i].size >= b[i].asked
  BY DEF KHeapGood, Chain
<1>4. WellFormed(b, KHeader)
  BY <1>1, <1>2, <1>3, ZenonT(20) DEF WellFormed, Follows, Unmerged
<1>5. \A i \in 1..(Len(b) - 1) : \/ Adjacent(b[i], b[i + 1], KHeader)
                                 \/ b[i + 1].addr % PageUnits = 0
  BY <1>2, ZenonT(20) DEF Follows, PageStarts
<1>6. b # <<>> => EndOf(b[Len(b)], KHeader) <= kheap.end * PageUnits
  BY <1>1 DEF KHeapGood
<1>7. Cardinality(kheap.mapped) = kheap.end
  <2>1. Cardinality(0..(kheap.end - 1)) = IF 0 > kheap.end - 1 THEN 0 ELSE (kheap.end - 1) - 0 + 1
    <3>1. 0 \in Int /\ kheap.end - 1 \in Int
      BY <1>1
    <3> QED BY <3>1, FS_Interval
  <2>2. kheap.mapped = 0..(kheap.end - 1)
    BY DEF KHeapGood
  <2> QED BY <1>1, <2>1, <2>2
<1>8. kheap.mapped = 0..(kheap.end - 1) /\ kheap.frames + kheap.end + kheapOthers = Frames
  BY DEF KHeapGood
<1> QED BY <1>4, <1>5, <1>6, <1>7, <1>8 DEF KHeapIsSound

(* Whatever the kernel allocates, resizes and releases, whoever else takes *)
(* frames in between and wherever a growth fails, the blocks of its heap   *)
(* do not overlap, lie in mapped pages, and no frame is lost or returned   *)
(* twice.                                                                  *)
THEOREM KernelHeapStaysSound == KHeapSpec => []KHeapIsSound
<1>1. KHeapInit => KHeapGood(kheap, kheapOthers)
  <2> SUFFICES ASSUME KHeapInit PROVE KHeapGood(kheap, kheapOthers)
    OBVIOUS
  <2> DEFINE x == FreeBlock(0, PageUnits - KHeader)
  <2>1. PageUnits \in Nat /\ PageUnits - KHeader \in Nat /\ Frames - 1 \in Nat /\ Frames \in Nat
        /\ 0 + KHeader + (PageUnits - KHeader) = 1 * PageUnits
    BY KHeapAssumption DEF KHeader
  <2>2. x \in Blocks /\ x.free /\ EndOf(x, KHeader) <= 1 * PageUnits
    BY <2>1 DEF FreeBlock, Blocks, EndOf
  <2>3. kheap = [blocks |-> <<x>>, end |-> 1, mapped |-> {0}, frames |-> Frames - 1] /\ kheapOthers = 0
    BY DEF KHeapInit
  <2> HIDE DEF x
  <2>4. <<x>> \in Seq(Blocks) /\ Len(<<x>>) = 1 /\ <<x>>[1] = x
    BY <2>2
  <2>5. Chain(<<x>>, KHeader, PageStarts, {})
    BY <2>2, <2>4 DEF Chain
  <2>6. /\ kheap \in KHeaps /\ kheap.blocks = <<x>> /\ kheap.end = 1 /\ kheap.mapped = 0..(1 - 1)
        /\ kheap.frames + kheap.end + kheapOthers = Frames
    BY <2>1, <2>3, <2>4 DEF KHeaps
  <2> QED BY <2>2, <2>3, <2>4, <2>5, <2>6 DEF KHeapGood
<1>2. KHeapGood(kheap, kheapOthers) /\ [KHeapNext]_kheapVars => KHeapGood(kheap, kheapOthers)'
  <2>1. CASE KHeapNext
    BY <2>1, KHeapStep
  <2>2. CASE UNCHANGED kheapVars
    BY <2>2 DEF kheapVars
  <2> QED BY <2>1, <2>2
<1>3. KHeapGood(kheap, kheapOthers) => KHeapIsSound
  BY KHeapGoodIsSound
<1> QED BY <1>1, <1>2, <1>3, PTL DEF KHeapSpec

---------------------------------------------------------------------------
(* The kernel log.                                                         *)

(* While a record is being stored no read has just been made.              *)
KLogInv ==
    /\ klogNext \in Nat /\ klogFloor \in Nat /\ klogStoring \in Nat
    /\ kmsgSeq \in [Readers -> Nat]
    /\ klogStoring # 0 => klogRead = NoRead
    /\ KmsgIsInOrder

(* A step that reads nothing returns nothing out of order.                 *)
LEMMA NoReadIsInOrder ==
    ASSUME klogRead' = NoRead
    PROVE  KmsgIsInOrder'
BY DEF KmsgIsInOrder, NoRead

(* A read returns the oldest record at or after the reader's cursor        *)
(* (dev_kmsg_read).                                                        *)
LEMMA KmsgReads ==
    ASSUME KLogInv, NEW r \in Readers, dev_kmsg_read(r)
    PROVE  KLogInv'
<1> DEFINE floor == klog_visible_floor
           oldest == klog_oldest_seq
           cursor == IF kmsgSeq[r] < oldest THEN oldest ELSE kmsgSeq[r]
           rec == IF oldest = 0 THEN 0 ELSE klog_by_seq(cursor)
           next == IF rec = 0 THEN cursor ELSE cursor + 1
<1>1. /\ klogNext \in Nat /\ klogFloor \in Nat /\ LogRecords \in Nat /\ kmsgSeq[r] \in Nat
      /\ kmsgSeq \in [Readers -> Nat] /\ klogStoring \in Nat
  BY KLogAssumption DEF KLogInv
<1>2. /\ klogStoring = 0 /\ klogRead' = [cursor |-> kmsgSeq[r], seq |-> rec]
      /\ kmsgSeq' = [kmsgSeq EXCEPT ![r] = next]
      /\ UNCHANGED <<klogRing, klogNext, klogFloor, klogStoring, klogLevel, klogInWindow>>
  BY DEF dev_kmsg_read
<1>3. floor \in Nat /\ oldest \in Nat /\ (oldest # 0 => oldest = floor)
  BY <1>1 DEF klog_visible_floor, klog_oldest_seq
<1> HIDE DEF floor, oldest
<1>4. cursor \in Nat /\ kmsgSeq[r] <= cursor /\ (cursor = kmsgSeq[r] \/ cursor = oldest)
  BY <1>1, <1>3
<1> HIDE DEF cursor
<1>5. rec # 0 => rec = cursor /\ oldest # 0
  BY DEF klog_by_seq
<1>6. \A seq \in Nat : seq < floor => klog_by_seq(seq) = 0
  BY DEF klog_by_seq, floor
<1>7. \A seq : klog_by_seq(seq)' = klog_by_seq(seq)
  BY <1>2 DEF klog_by_seq, klog_visible_floor, klog_slot_for
<1> HIDE DEF rec
<1>8. next \in Nat
  BY <1>4, <1>5
<1> HIDE DEF next
<1>9. KmsgIsInOrder'
  <2>1. klogRead'.seq = rec /\ klogRead'.cursor = kmsgSeq[r]
    BY <1>2
  <2>2. SUFFICES ASSUME rec > 0
                 PROVE  /\ rec >= kmsgSeq[r]
                        /\ \A seq \in kmsgSeq[r]..(rec - 1) : klog_by_seq(seq)' = 0
    BY <2>1 DEF KmsgIsInOrder
  <2>3. rec = cursor /\ oldest = floor
    BY <1>3, <1>5, <2>2
  <2>4. ASSUME NEW seq \in kmsgSeq[r]..(rec - 1)
        PROVE  klog_by_seq(seq)' = 0
    <3>1. seq \in Nat /\ seq < cursor /\ kmsgSeq[r] <= seq
      BY <1>1, <1>4, <2>3
    <3>2. seq < floor
      BY <1>1, <1>3, <1>4, <2>3, <3>1
    <3>3. klog_by_seq(seq) = 0
      BY <1>6, <3>1, <3>2
    <3> QED BY <1>7, <3>3
  <2> QED BY <1>1, <1>4, <2>3, <2>4
<1> QED BY <1>1, <1>2, <1>8, <1>9 DEF KLogInv

(* However records, clearings and reads interleave, and even when an       *)
(* interrupt logs inside klog_store(), dev_kmsg_read() hands out ever      *)
(* higher numbers and passes over nothing that is still held, for a ring   *)
(* of any size and any number of readers.                                  *)
THEOREM KmsgStaysInOrder == KLogSpec => []KmsgIsInOrder
<1>1. KLogInit => KLogInv
  BY DEF KLogInit, KLogInv, KmsgIsInOrder, NoRead
<1>2. ASSUME KLogInv, [KLogStep]_klogVars
      PROVE  KLogInv'
  <2>1. CASE UNCHANGED klogVars
    BY <1>2, <2>1 DEF KLogInv, klogVars, KmsgIsInOrder, klog_by_seq, klog_visible_floor,
                      klog_slot_for
  <2>2. CASE KernelLogs
    BY <1>2, <2>2, NoReadIsInOrder DEF KLogInv, KernelLogs, klog, StoreBegins
  <2>3. CASE StoreEnds
    <3>1. klogRead' = NoRead
      BY <1>2, <2>3 DEF KLogInv, StoreEnds
    <3> QED BY <1>2, <2>3, <3>1, NoReadIsInOrder DEF KLogInv, StoreEnds
  <2>4. CASE InterruptStores
    BY <1>2, <2>4, NoReadIsInOrder DEF KLogInv, InterruptStores
  <2>5. CASE dev_kmsg_write
    BY <1>2, <2>5, NoReadIsInOrder DEF KLogInv, dev_kmsg_write, klog_user_record, StoreBegins
  <2>6. CASE ControlClear
    BY <1>2, <2>6, NoReadIsInOrder DEF KLogInv, ControlClear, klog, StoreBegins, klog_clear
  <2>7. CASE ControlLevel
    BY <1>2, <2>7, NoReadIsInOrder DEF KLogInv, ControlLevel, StoreBegins
  <2>8. CASE \E r \in Readers : dev_kmsg_read(r)
    BY <1>2, <2>8, KmsgReads
  <2>9. CASE \E r, child \in Readers : KmsgFork(r, child)
    BY <1>2, <2>9, NoReadIsInOrder DEF KLogInv, KmsgFork
  <2> QED BY <1>2, <2>1, <2>2, <2>3, <2>4, <2>5, <2>6, <2>7, <2>8, <2>9 DEF KLogStep
<1>3. KLogInv => KmsgIsInOrder
  BY DEF KLogInv
<1> QED BY <1>1, <1>2, <1>3, PTL DEF KLogSpec

---------------------------------------------------------------------------
(* The entropy pool.                                                       *)

(* Where the ring holds the j-th of the samples that are not drained.      *)
Place(p, j) ==
    IF p.count < RingSize THEN j - 1
    ELSE IF p.head + j - 1 < RingSize THEN p.head + j - 1
    ELSE p.head + j - 1 - RingSize

(* A ring that is not full was filled from its first place.                *)
PoolInv(p, recent) ==
    /\ p = [stage |-> p.stage, ring |-> p.ring, head |-> p.head, count |-> p.count,
            credit |-> p.credit, rdrand |-> p.rdrand]
    /\ p.ring \in [0..(RingSize - 1) -> Samples \cup {0}]
    /\ p.head \in 0..(RingSize - 1) /\ p.count \in 0..RingSize
    /\ p.count < RingSize => p.head = p.count
    /\ recent \in Seq(Samples) /\ Len(recent) = p.count
    /\ \A j \in 1..p.count : p.ring[Place(p, j)] = recent[j]
    /\ p.stage = "off" => recent = <<>>

(* A seed that was mixed in has been replaced, unless that failed.         *)
SeedInv(s) ==
    /\ s = [file |-> s.file, disk |-> s.disk, mixed |-> s.mixed, since |-> s.since,
            again |-> s.again]
    /\ s.file \in 0..3 /\ s.disk \in 0..3 /\ s.mixed \subseteq {s.file, s.disk}
    /\ s.file \in s.mixed => s.since # {}
    /\ s.again # {}

DrbgInv(d) ==
    /\ d = [keyed |-> d.keyed, quality |-> d.quality, served |-> d.served, age |-> d.age]
    /\ d.served \in Nat /\ d.age \in Nat

EntropyInv == PoolInv(pool, poolRecent) /\ SeedInv(seed) /\ DrbgInv(drbg)

(* The pool before the first sample.                                       *)
LEMMA EmptyPoolIsSound ==
    ASSUME NEW rdrand, NEW stage, NEW p,
           p = EmptyPool(rdrand) \/ p = [EmptyPool(rdrand) EXCEPT !.stage = stage]
    PROVE  PoolInv(p, <<>>)
<1>1. /\ p = [stage |-> p.stage, ring |-> p.ring, head |-> p.head, count |-> p.count,
              credit |-> p.credit, rdrand |-> p.rdrand]
      /\ p.ring = [i \in 0..(RingSize - 1) |-> 0] /\ p.head = 0 /\ p.count = 0
  <2>1. CASE p = EmptyPool(rdrand)
    BY <2>1 DEF EmptyPool
  <2>2. CASE p = [EmptyPool(rdrand) EXCEPT !.stage = stage]
    BY <2>2, ZenonT(20) DEF EmptyPool
  <2> QED BY <2>1, <2>2
<1>2. p.ring \in [0..(RingSize - 1) -> Samples \cup {0}]
  BY <1>1
<1>3. 0 \in 0..(RingSize - 1) /\ 0 \in 0..RingSize /\ 0 < RingSize /\ 1..0 = {}
  BY EntropyAssumption
<1>4. <<>> \in Seq(Samples) /\ Len(<<>>) = 0
  OBVIOUS
<1> QED BY <1>1, <1>2, <1>3, <1>4 DEF PoolInv

(* Draining empties the ring of samples (pool_drain_ring).                 *)
LEMMA DrainedPoolIsSound ==
    ASSUME NEW p, NEW recent, PoolInv(p, recent), NEW q, q = pool_drain_ring(p)
    PROVE  PoolInv(q, <<>>) /\ q.stage = p.stage
<1>1. /\ q = [stage |-> q.stage, ring |-> q.ring, head |-> q.head, count |-> q.count,
              credit |-> q.credit, rdrand |-> q.rdrand]
      /\ q.ring = p.ring /\ q.head = 0 /\ q.count = 0 /\ q.stage = p.stage
  BY ZenonT(20) DEF pool_drain_ring, PoolInv
<1>2. 0 \in 0..(RingSize - 1) /\ 0 \in 0..RingSize /\ 0 < RingSize /\ 1..0 = {}
  BY EntropyAssumption
<1>3. <<>> \in Seq(Samples) /\ Len(<<>>) = 0
  OBVIOUS
<1> QED BY <1>1, <1>2, <1>3 DEF PoolInv

(* Generating output drains the pool first and mixes some of it back.      *)
LEMMA GeneratedIsSound ==
    ASSUME PoolInv(pool, poolRecent), NEW g \in Generated
    PROVE  PoolInv(g.pool, g.recent) /\ g.pool.stage = pool.stage
<1>1. CASE g.pool = pool /\ g.recent = poolRecent
  BY <1>1
<1>2. CASE g.pool = pool_drain_ring(pool) /\ g.recent = <<>>
  BY <1>2, DrainedPoolIsSound
<1> QED BY <1>1, <1>2 DEF Generated

(* How far the pool has come does not matter to its ring.                  *)
LEMMA StageIsApart ==
    ASSUME NEW p, NEW recent, PoolInv(p, recent), NEW q, q = [p EXCEPT !.stage = "up"]
    PROVE  PoolInv(q, recent)
<1>1. /\ q = [stage |-> "up", ring |-> p.ring, head |-> p.head, count |-> p.count,
              credit |-> p.credit, rdrand |-> p.rdrand]
  BY DEF PoolInv
<1> QED BY <1>1 DEF PoolInv, Place

(* An interrupt's sample takes the place of the oldest when the ring is full. *)
LEMMA EventIsKept ==
    ASSUME PoolInv(pool, poolRecent), NEW source, NEW sample \in Samples, NEW bits,
           entropy_add_event(source, sample, bits)
    PROVE  PoolInv(pool', poolRecent')
<1> DEFINE R == RingSize
           ring == [pool.ring EXCEPT ![pool.head] = sample]
           head == (pool.head + 1) % R
           count == Least(pool.count + 1, R)
           all == Append(poolRecent, sample)
           n == Len(all)
           m == Least(n, R)
<1>1. /\ R \in Nat \ {0} /\ pool.head \in 0..(R - 1) /\ pool.count \in 0..R
      /\ pool.count < R => pool.head = pool.count
      /\ poolRecent \in Seq(Samples) /\ Len(poolRecent) = pool.count
      /\ pool.ring \in [0..(R - 1) -> Samples \cup {0}] /\ pool.stage # "off"
      /\ \A j \in 1..pool.count : pool.ring[Place(pool, j)] = poolRecent[j]
  BY EntropyAssumption DEF PoolInv, entropy_add_event
<1>2. /\ pool'.stage = pool.stage /\ pool'.ring = ring /\ pool'.head = head
      /\ pool'.count = count
      /\ pool' = [stage |-> pool'.stage, ring |-> pool'.ring, head |-> pool'.head,
                  count |-> pool'.count, credit |-> pool'.credit, rdrand |-> pool'.rdrand]
  <2>1. PICK c : pool' = [pool EXCEPT !.ring = ring, !.head = head, !.count = count, !.credit = c]
    BY ZenonT(20) DEF entropy_add_event
  <2> HIDE DEF ring, head, count
  <2> QED BY <2>1, ZenonT(20) DEF PoolInv
<1>3. poolRecent' = SubSeq(all, n - m + 1, n)
  BY DEF entropy_add_event
<1>4. /\ all \in Seq(Samples) /\ n = pool.count + 1 /\ all[n] = sample
      /\ \A j \in 1..pool.count : all[j] = poolRecent[j]
  BY <1>1
<1>5. head = IF pool.head + 1 = R THEN 0 ELSE pool.head + 1
  <2> DEFINE h == pool.head + 1
             w == R
  <2>1. h \in 0..2 * w - 1 /\ w \in Nat \ {0}
    BY <1>1
  <2> HIDE DEF h, w
  <2>2. h % w = IF h < w THEN h ELSE h - w
    BY <2>1, ModOnce, ZenonT(20)
  <2> QED BY <1>1, <2>2 DEF h, w
<1>6. /\ ring \in [0..(R - 1) -> Samples \cup {0}] /\ ring[pool.head] = sample
      /\ \A i \in 0..(R - 1) : i # pool.head => ring[i] = pool.ring[i]
  BY <1>1
<1>7. CASE pool.count < R
  <2>1. count = pool.count + 1 /\ m = n
    BY <1>1, <1>4, <1>7 DEF Least
  <2>2. poolRecent' = all
    <3>1. n - m + 1 = 1
      BY <1>1, <1>4, <2>1
    <3>2. poolRecent' = SubSeq(all, 1, Len(all))
      BY <1>3, <3>1
    <3> HIDE DEF all
    <3> QED BY <1>4, <3>2
  <2>3. \A j \in 1..count : ring[j - 1] = all[j]
    <3> SUFFICES ASSUME NEW j \in 1..count PROVE ring[j - 1] = all[j]
      OBVIOUS
    <3>1. j \in 1..pool.count \/ j = pool.count + 1
      BY <1>1, <2>1
    <3> HIDE DEF ring, all, n
    <3>2. CASE j = pool.count + 1
      <4>1. j - 1 = pool.head /\ j = n
        BY <1>1, <1>4, <1>7, <3>2
      <4> QED BY <1>4, <1>6, <4>1
    <3>3. CASE j \in 1..pool.count
      <4>1. Place(pool, j) = j - 1 /\ j - 1 \in 0..(R - 1) /\ j - 1 # pool.head
        BY <1>1, <1>7, <3>3 DEF Place
      <4>2. pool.ring[j - 1] = poolRecent[j]
        BY <1>1, <3>3, <4>1
      <4>3. ring[j - 1] = pool.ring[j - 1] /\ all[j] = poolRecent[j]
        BY <1>4, <1>6, <3>3, <4>1
      <4> QED BY <4>2, <4>3
    <3> QED BY <3>1, <3>2, <3>3
  <2>4. count < R => head = count
    BY <1>1, <1>5, <1>7, <2>1
  <2>5. count = R => head = 0
    BY <1>1, <1>5, <1>7, <2>1
  <2>6. /\ head \in 0..(R - 1) /\ count \in 0..R
    BY <1>1, <1>5, <2>1, <1>7
  <2> HIDE DEF ring, head, count, all
  <2>7. \A j \in 1..count : Place(pool', j) = j - 1
    BY <1>1, <1>2, <2>4, <2>5, <2>6 DEF Place
  <2>8. \A j \in 1..count : pool'.ring[Place(pool', j)] = poolRecent'[j]
    BY <1>2, <2>2, <2>3, <2>7
  <2> QED BY <1>1, <1>2, <1>4, <1>6, <2>1, <2>2, <2>4, <2>6, <2>8 DEF PoolInv
<1>8. CASE pool.count = R
  <2>1. count = R /\ m = R /\ n = R + 1
    BY <1>1, <1>4, <1>8 DEF Least
  <2>2. /\ poolRecent' \in Seq(Samples) /\ Len(poolRecent') = R
        /\ \A j \in 1..R : poolRecent'[j] = all[j + 1]
    <3>1. n - m + 1 = 2
      BY <1>1, <2>1
    <3>2. poolRecent' = SubSeq(all, 2, n)
      BY <1>3, <3>1
    <3>3. Len(all) = R + 1
      BY <2>1
    <3> HIDE DEF all, n, m
    <3> QED BY <1>1, <1>4, <2>1, <3>2, <3>3
  <2>3. head \in 0..(R - 1)
    BY <1>1, <1>5
  <2> HIDE DEF head, count, all, n, m
  <2>4. ASSUME NEW j \in 1..(R - 1)
        PROVE  /\ Place(pool', j) = Place(pool, j + 1) /\ Place(pool, j + 1) # pool.head
               /\ Place(pool, j + 1) \in 0..(R - 1)
    <3>1. Place(pool, j + 1) = IF pool.head + j < R THEN pool.head + j ELSE pool.head + j - R
      BY <1>1, <1>8 DEF Place
    <3>2. Place(pool', j) = IF head + j - 1 < R THEN head + j - 1 ELSE head + j - 1 - R
      BY <1>1, <1>2, <2>1 DEF Place
    <3> DEFINE h == pool.head
               a == Place(pool, j + 1)
               b == Place(pool', j)
    <3>3. /\ a = IF h + j < R THEN h + j ELSE h + j - R
          /\ b = IF head + j - 1 < R THEN head + j - 1 ELSE head + j - 1 - R
          /\ head = IF h + 1 = R THEN 0 ELSE h + 1
          /\ h \in 0..(R - 1) /\ R \in Nat
      BY <1>1, <1>5, <3>1, <3>2, ZenonT(20)
    <3> HIDE DEF h, a, b
    <3>4. b = a /\ a # h /\ a \in 0..(R - 1)
      BY <3>3
    <3> QED BY <3>4 DEF h, a, b
  <2>5. Place(pool', R) = pool.head
    BY <1>1, <1>2, <1>5, <1>8, <2>1 DEF Place
  <2> HIDE DEF ring
  <2>6. ASSUME NEW j \in 1..R
        PROVE  pool'.ring[Place(pool', j)] = poolRecent'[j]
    <3>1. poolRecent'[j] = all[j + 1]
      BY <2>2
    <3>2. CASE j = R
      BY <1>2, <1>4, <1>6, <2>1, <2>5, <3>1, <3>2
    <3>3. CASE j # R
      <4>1. j \in 1..(R - 1) /\ j + 1 \in 1..pool.count
        BY <1>1, <1>8, <3>3
      <4>2. pool.ring[Place(pool, j + 1)] = poolRecent[j + 1]
        BY <1>1, <4>1
      <4>3. ring[Place(pool, j + 1)] = pool.ring[Place(pool, j + 1)]
        BY <1>6, <2>4, <4>1
      <4> QED BY <1>2, <1>4, <2>4, <3>1, <4>1, <4>2, <4>3
    <3> QED BY <3>2, <3>3
  <2> QED BY <1>1, <1>2, <1>6, <2>1, <2>2, <2>3, <2>6 DEF PoolInv
<1>9. pool.count < R \/ pool.count = R
  BY <1>1
<1> QED BY <1>7, <1>8, <1>9, ZenonT(20)

(* Writing a new seed, whichever of its steps fails.                       *)
LEMMA PersistedIsSound ==
    ASSUME NEW s, s = [file |-> s.file, disk |-> s.disk, mixed |-> s.mixed,
                       since |-> s.since, again |-> s.again],
           s.file \in 0..3, s.disk \in 0..3, s.mixed \subseteq {s.file, s.disk}, s.again # {},
           NEW t \in Persisted(s)
    PROVE  SeedInv(t)
<1> DEFINE fresh == FreshSeed(s)
<1>1. fresh \in 1..3 /\ fresh \notin {s.file, s.disk}
  <2>1. \E x \in 1..3 : x \notin {s.file, s.disk}
    BY 1 \in 1..3, 2 \in 1..3, 3 \in 1..3
  <2> QED BY <2>1 DEF FreshSeed
<1> HIDE DEF fresh
<1>2. CASE t = Kept([s EXCEPT !.file = fresh])
  <2> DEFINE mixed == s.mixed \cap {fresh, s.disk}
  <2>1. t = [file |-> fresh, disk |-> s.disk, mixed |-> mixed, since |-> s.since, again |-> s.again]
    BY <1>2, ZenonT(20) DEF Kept
  <2>2. mixed \subseteq {fresh, s.disk} /\ fresh \notin mixed
    BY <1>1
  <2> HIDE DEF mixed
  <2> QED BY <1>1, <2>1, <2>2 DEF SeedInv
<1>3. CASE t = [s EXCEPT !.since = @ \cup {"refused"}]
  BY <1>3 DEF SeedInv
<1> QED BY <1>2, <1>3 DEF Persisted, fresh

(* Flushing the seed file to the disk.                                     *)
LEMMA FlushedIsSound ==
    ASSUME NEW s, SeedInv(s), NEW t, t = Kept([s EXCEPT !.disk = s.file])
    PROVE  SeedInv(t)
BY ZenonT(20) DEF SeedInv, Kept

(* Loading the seed at boot and replacing it before it is used.            *)
LEMMA LoadedIsSound ==
    ASSUME SeedInv(seed), NEW t \in SeedsLoaded
    PROVE  SeedInv(t)
<1> DEFINE s == Mixed(seed)
<1>1. /\ s = [file |-> s.file, disk |-> s.disk, mixed |-> s.mixed,
              since |-> s.since, again |-> s.again]
      /\ s.file \in 0..3 /\ s.disk \in 0..3 /\ s.mixed \subseteq {s.file, s.disk} /\ s.again # {}
  BY ZenonT(20) DEF SeedInv, Mixed, NotAgain
<1>2. t \in Persisted(s)
  BY DEF SeedsLoaded
<1> HIDE DEF s
<1> QED BY <1>1, <1>2, PersistedIsSound

(* Losing power before the seed file reached the disk.                     *)
LEMMA PowerLossIsSound ==
    ASSUME SeedInv(seed), SeedPowerLoss
    PROVE  SeedInv(seed')
<1>1. PICK left \in {seed.disk, 0} :
        /\ seed.disk = seed.file => left = seed.disk
        /\ seed' = Kept([seed EXCEPT !.file = left, !.disk = left,
                                     !.since = IF seed.disk = seed.file THEN @
                                               ELSE @ \cup {"lost"}])
  BY ZenonT(20) DEF SeedPowerLoss
<1> DEFINE since == IF seed.disk = seed.file THEN seed.since ELSE seed.since \cup {"lost"}
<1>2. seed' = [file |-> left, disk |-> left, mixed |-> seed.mixed \cap {left, left},
               since |-> since, again |-> seed.again]
  BY <1>1, ZenonT(20) DEF SeedInv, Kept
<1>3. left \in seed.mixed => since # {}
  BY <1>1 DEF SeedInv
<1> HIDE DEF since
<1> QED BY <1>1, <1>2, <1>3 DEF SeedInv

(* The ring holds the samples that came last, in order.                    *)
LEMMA RingIsDrainedWhole ==
    ASSUME PoolInv(pool, poolRecent)
    PROVE  RingHoldsTheLatest
<1> DEFINE R == RingSize
           h == pool.head
           c == pool.count
           at == Place(pool, 1)
<1>1. /\ R \in Nat \ {0} /\ h \in 0..(R - 1) /\ c \in 0..R /\ (c < R => h = c)
      /\ poolRecent \in Seq(Samples) /\ Len(poolRecent) = c
      /\ \A j \in 1..c : pool.ring[Place(pool, j)] = poolRecent[j]
  BY EntropyAssumption DEF PoolInv
<1>2. DOMAIN poolRecent = 1..c
  BY <1>1
<1>3. \A j : Place(pool, j) = IF c < R THEN j - 1 ELSE IF h + j - 1 < R THEN h + j - 1 ELSE h + j - 1 - R
  BY DEF Place
<1> HIDE DEF h, c
<1>4. ASSUME NEW j \in 1..c
      PROVE  Place(pool, j) \in 0..(c - 1)
  <2>1. Place(pool, j) = IF c < R THEN j - 1 ELSE IF h + j - 1 < R THEN h + j - 1 ELSE h + j - 1 - R
    BY <1>3
  <2> QED BY <1>1, <2>1
<1>5. ASSUME NEW i \in 0..(c - 1)
      PROVE  \E j \in 1..c : Place(pool, j) = i
  <2> DEFINE j == IF c < R THEN i + 1 ELSE IF i >= h THEN i - h + 1 ELSE i - h + 1 + R
  <2>1. /\ j \in 1..c
        /\ i = IF c < R THEN j - 1 ELSE IF h + j - 1 < R THEN h + j - 1 ELSE h + j - 1 - R
    BY <1>1
  <2> HIDE DEF j
  <2>2. Place(pool, j) = i
    BY <1>3, <2>1
  <2> QED BY <2>1, <2>2
<1>6. ASSUME NEW x \in Samples
      PROVE  (\E i \in 0..(c - 1) : pool.ring[i] = x) <=> (\E j \in 1..c : poolRecent[j] = x)
  BY <1>1, <1>4, <1>5, ZenonT(20)
<1> QED BY <1>1, <1>2, <1>6 DEF RingHoldsTheLatest, c

(* Every step keeps the pool, the seed and the generator sound.            *)
LEMMA EntropyStep ==
    ASSUME EntropyInv, [EntropyNext]_entropyVars
    PROVE  EntropyInv'
<1>1. PoolInv(pool, poolRecent) /\ SeedInv(seed) /\ DrbgInv(drbg)
  BY DEF EntropyInv
<1>2. ASSUME MachineStops
      PROVE  PoolInv(pool', poolRecent') /\ DrbgInv(drbg')
  <2> DEFINE p == EmptyPool(pool.rdrand)
  <2>1. PoolInv(p, <<>>)
    BY EmptyPoolIsSound
  <2> HIDE DEF p
  <2>2. pool' = p /\ poolRecent' = <<>> /\ drbg' = NoKey
    BY <1>2 DEF MachineStops, p
  <2> QED BY <2>1, <2>2 DEF DrbgInv, NoKey
<1>3. ASSUME NEW g \in Generated, pool' = g.pool, poolRecent' = g.recent
      PROVE  PoolInv(pool', poolRecent')
  BY <1>1, <1>3, GeneratedIsSound
<1>4. CASE UNCHANGED entropyVars
  BY <1>1, <1>4 DEF EntropyInv, entropyVars
<1>5. CASE \E source \in DOMAIN Cap, sample \in Samples, bits \in 0..2 :
             entropy_add_event(source, sample, bits)
  <2>1. PoolInv(pool', poolRecent')
    BY <1>1, <1>5, EventIsKept
  <2>2. UNCHANGED <<drbg, seed>>
    BY <1>5 DEF entropy_add_event
  <2> QED BY <1>1, <2>1, <2>2 DEF EntropyInv
<1>6. CASE Generate
  BY <1>1, <1>3, <1>6 DEF Generate, EntropyInv
<1>7. CASE \E n \in ReadSizes : RandomRead(n)
  <2>1. PICK n \in ReadSizes : RandomRead(n)
    BY <1>7
  <2>2. n \in Nat
    BY EntropyAssumption
  <2>3. CASE drbg_needs_rekey
    <3>1. PICK g \in Generated : /\ pool' = g.pool /\ poolRecent' = g.recent
                                 /\ drbg' = [keyed |-> TRUE, quality |-> g.quality, served |-> n, age |-> 0]
      BY <2>1, <2>3 DEF RandomRead
    <3>2. DrbgInv(drbg')
      BY <2>2, <3>1 DEF DrbgInv
    <3>3. PoolInv(pool', poolRecent')
      BY <1>3, <3>1
    <3> QED BY <1>1, <2>1, <3>2, <3>3 DEF RandomRead, EntropyInv
  <2>4. CASE ~drbg_needs_rekey
    <3>1. drbg' = [drbg EXCEPT !.served = @ + n] /\ UNCHANGED <<pool, poolRecent, seed>>
      BY <2>1, <2>4 DEF RandomRead
    <3>2. DrbgInv(drbg')
      BY <1>1, <2>2, <3>1 DEF DrbgInv
    <3> QED BY <1>1, <3>1, <3>2 DEF EntropyInv
  <2> QED BY <2>3, <2>4
<1>8. CASE DrbgTick
  <2>1. DrbgInv(drbg')
    BY <1>1, <1>8 DEF DrbgTick, DrbgInv
  <2> QED BY <1>1, <1>8, <2>1 DEF DrbgTick, EntropyInv
<1>9. CASE entropy_init
  <2>1. poolRecent' = <<>> /\ pool' = [EmptyPool(pool.rdrand) EXCEPT !.stage = "early"]
    BY <1>1, <1>9 DEF entropy_init, PoolInv
  <2>2. PoolInv(pool', <<>>)
    BY <2>1, EmptyPoolIsSound
  <2> QED BY <1>1, <1>9, <2>1, <2>2 DEF entropy_init, EntropyInv
<1>10. CASE entropy_load_seed
  <2>1. PICK g \in Generated : pool' = [g.pool EXCEPT !.stage = "up"] /\ poolRecent' = g.recent
    BY <1>10 DEF entropy_load_seed
  <2>2. PoolInv(g.pool, g.recent)
    BY <1>1, GeneratedIsSound
  <2>3. PoolInv(pool', poolRecent')
    BY <2>1, <2>2, StageIsApart
  <2>4. SeedInv(seed')
    BY <1>1, <1>10, LoadedIsSound DEF entropy_load_seed
  <2> QED BY <1>1, <1>10, <2>3, <2>4 DEF entropy_load_seed, EntropyInv
<1>11. ASSUME NEW s \in Persisted(seed), seed' = Kept([s EXCEPT !.disk = s.file])
       PROVE  SeedInv(seed')
  <2>1. SeedInv(s)
    BY <1>1, PersistedIsSound DEF SeedInv
  <2> QED BY <1>11, <2>1, FlushedIsSound
<1>12. CASE SyncSeed
  <2>1. SeedInv(seed')
    BY <1>11, <1>12 DEF SyncSeed
  <2>2. PoolInv(pool', poolRecent')
    BY <1>3, <1>12 DEF SyncSeed, entropy_persist_seed
  <2> QED BY <1>1, <1>12, <2>1, <2>2 DEF SyncSeed, EntropyInv
<1>13. CASE OrderlyStop
  <2>1. SeedInv(seed')
    BY <1>11, <1>13 DEF OrderlyStop
  <2> QED BY <1>2, <1>13, <2>1 DEF OrderlyStop, EntropyInv
<1>14. CASE SeedWriteBehind
  <2>1. SeedInv(seed')
    BY <1>1, <1>14, FlushedIsSound DEF SeedWriteBehind
  <2> QED BY <1>1, <1>14, <2>1 DEF SeedWriteBehind, EntropyInv
<1>15. CASE SeedPowerLoss
  <2>1. SeedInv(seed')
    BY <1>1, <1>15, PowerLossIsSound
  <2> QED BY <1>2, <1>15, <2>1 DEF SeedPowerLoss, EntropyInv
<1> QED BY <1>4, <1>5, <1>6, <1>7, <1>8, <1>9, <1>10, <1>12, <1>13, <1>14, <1>15
       DEF EntropyNext

(* They are sound when the machine starts.                                 *)
LEMMA EntropyStarts ==
    ASSUME EntropyInit
    PROVE  EntropyInv
<1>1. PICK rdrand \in BOOLEAN : pool = EmptyPool(rdrand)
  BY DEF EntropyInit
<1>2. PoolInv(pool, <<>>)
  BY <1>1, EmptyPoolIsSound
<1>3. SeedInv(seed)
  BY DEF EntropyInit, SeedInv, NotAgain
<1>4. DrbgInv(drbg) /\ poolRecent = <<>>
  BY DEF EntropyInit, DrbgInv, NoKey
<1> QED BY <1>2, <1>3, <1>4 DEF EntropyInv

(* For a ring of any size, entropy_add_event() and the drains neither lose *)
(* a sample nor take one twice; and across any number of boots and power   *)
(* losses entropy_load_seed() mixes no seed in a second time unless a      *)
(* write of its replacement failed or was lost.                            *)
THEOREM EntropyStaysKept == EntropySpec => []EntropyIsKept
<1>1. EntropyInit => EntropyInv
  BY EntropyStarts
<1>2. EntropyInv /\ [EntropyNext]_entropyVars => EntropyInv'
  BY EntropyStep
<1>3. EntropyInv => EntropyIsKept
  <2>1. EntropyInv => RingHoldsTheLatest
    BY RingIsDrainedWhole DEF EntropyInv
  <2>2. EntropyInv => SeedsAreSpent
    BY DEF EntropyInv, SeedInv, SeedsAreSpent
  <2> QED BY <2>1, <2>2 DEF EntropyIsKept
<1> QED BY <1>1, <1>2, <1>3, PTL DEF EntropySpec

(* A read of /dev/random renews a key that is old or has served enough     *)
(* before it uses it.                                                      *)
LEMMA ReadRenewsItsKey ==
    ASSUME DrbgInv(drbg), NEW n \in ReadSizes, RandomRead(n)
    PROVE  /\ drbg'.served - n < RekeyBytes /\ drbg'.age < RekeyTicks
           /\ (CreditedBits >= Threshold) => drbg'.quality = "ok"
<1>1. /\ n \in Nat /\ RekeyBytes \in Nat \ {0} /\ RekeyTicks \in Nat \ {0}
      /\ drbg.served \in Nat /\ drbg.age \in Nat
  BY EntropyAssumption DEF DrbgInv
<1> DEFINE enough == CreditedBits >= Threshold
<1>2. CASE drbg_needs_rekey
  <2>1. PICK g \in Generated : drbg' = [keyed |-> TRUE, quality |-> g.quality, served |-> n, age |-> 0]
    BY <1>2 DEF RandomRead
  <2>2. enough => g.quality = "ok"
    BY DEF Generated
  <2>3. drbg'.served = n /\ drbg'.age = 0 /\ drbg'.quality = g.quality
    BY <2>1
  <2>4. n - n = 0
    BY <1>1
  <2> HIDE DEF enough
  <2> QED BY <1>1, <2>2, <2>3, <2>4 DEF enough
<1>3. CASE ~drbg_needs_rekey
  <2>1. drbg'.served = drbg.served + n /\ drbg'.age = drbg.age /\ drbg'.quality = drbg.quality
    BY <1>3 DEF RandomRead, DrbgInv
  <2>2. ~(drbg.served >= RekeyBytes) /\ ~(drbg.age >= RekeyTicks)
    BY <1>3 DEF drbg_needs_rekey
  <2>3. drbg.served < RekeyBytes /\ drbg.age < RekeyTicks
    BY <1>1, <2>2
  <2>4. drbg'.served - n = drbg.served
    BY <1>1, <2>1
  <2>5. enough => drbg.quality = "ok"
    BY <1>3 DEF drbg_needs_rekey, entropy_quality
  <2>6. drbg'.served - n < RekeyBytes /\ drbg'.age < RekeyTicks
    BY <2>1, <2>3, <2>4
  <2>7. enough => drbg'.quality = "ok"
    BY <2>1, <2>5
  <2> QED BY <2>6, <2>7
<1> QED BY <1>2, <1>3

(* random_device_read() never serves from a key past its bytes or its      *)
(* time, nor from a weak one once the pool could give a better, whatever   *)
(* the two limits are.                                                     *)
THEOREM KeysStayRenewed == EntropySpec => KeysAreRenewed
<1>1. EntropyInit => EntropyInv
  BY EntropyStarts
<1>2. EntropyInv /\ [EntropyNext]_entropyVars => EntropyInv'
  BY EntropyStep
<1>3. EntropyInv =>
        [\A n \in ReadSizes : RandomRead(n) =>
           /\ drbg'.served - n < RekeyBytes /\ drbg'.age < RekeyTicks
           /\ (CreditedBits >= Threshold) => drbg'.quality = "ok"]_entropyVars
  BY ReadRenewsItsKey DEF EntropyInv
<1> QED BY <1>1, <1>2, <1>3, PTL DEF EntropySpec, KeysAreRenewed

============================================================================
