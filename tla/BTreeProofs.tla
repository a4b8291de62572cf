----------------------------- MODULE BTreeProofs -----------------------------
(***************************************************************************)
(* Theorems about the B-tree.                                              *)
(***************************************************************************)
EXTENDS BTree, ExtremaLemmas, SequenceTheorems

-----------------------------------------------------------------------------
(* The inductive invariant, in parts.                                      *)

Node == [leaf : BOOLEAN, first : Nat, keys : Seq(Slot), vals : Seq(Nat)]
Elems(s) == {s[i] : i \in 1 .. Len(s)}
Children(nd) == IF nd.leaf THEN {} ELSE {nd.first} \cup Elems(nd.vals)

GoodNode(nd) ==
    /\ nd \in Node
    /\ Len(nd.keys) <= kMaxKeys /\ Len(nd.vals) = Len(nd.keys)
    /\ IF nd.leaf THEN nd.first = 0 ELSE Len(nd.keys) > 0

\* A file of nodes whose children are in the file.
TreeInv ==
    /\ node \in Seq(Node) /\ root \in Pages /\ mapped \in BOOLEAN
    /\ \A p \in Pages : GoodNode(node[p]) /\ Children(node[p]) \subseteq Pages

GoodComb(c) ==
    /\ c \in [keys : Seq(Slot), vals : Seq(Nat)]
    /\ Len(c.keys) = kMaxKeys + 1 /\ Len(c.vals) = kMaxKeys + 1

\* The path of an insertion leads over inner nodes to the one it is at.
CallInv ==
    /\ pc \in {"idle", "leaf", "inner", "link"}
    /\ path \in Seq(Pages)
    /\ pc = "idle" => path = <<>> /\ comb = NoComb /\ split = NoSplit
    /\ pc \in {"leaf", "inner"} => /\ Len(path) > 0 /\ split = NoSplit /\ GoodComb(comb)
                                   /\ node[path[Len(path)]].leaf = (pc = "leaf")
    /\ pc = "inner" => Elems(comb.vals) \subseteq Pages
    /\ pc = "link" => comb = NoComb /\ split \in [sep : Slot, page : Pages]
    /\ \A i \in 1 .. Len(path) : node[path[i]].leaf => pc = "leaf" /\ i = Len(path)

AskedInv == asked \in Seq(Keys) /\ Len(asked) <= MaxInserts

\* The images are nodes the file has had in their place.
ImageInv ==
    /\ images \in Seq([page : Pages, old : Node])
    /\ \A i \in 1 .. Len(images) : /\ GoodNode(images[i].old) /\ Children(images[i].old) \subseteq Pages
                                   /\ images[i].old.leaf = node[images[i].page].leaf

\* There are images only of a backup, which counts as a fault.
FaultInv ==
    /\ faults \in Nat
    /\ backup \in BOOLEAN /\ (backup => faults > 0)
    /\ images # <<>> => faults > 0

\* The file is a graph without cycles: there are levels, and children are
\* lower.  So are the nodes an image or the insertion under way has as children.
Heights(h) ==
    /\ h \in [Pages -> Nat]
    /\ \A p \in Pages : h[p] <= Len(node)
    /\ \A p \in Pages : \A c \in Children(node[p]) : h[c] < h[p]
PathHeights(h) ==
    /\ \A i \in 1 .. Len(path) - 1 : h[path[i + 1]] < h[path[i]]
    /\ pc = "inner" => \A c \in Elems(comb.vals) : h[c] < h[path[Len(path)]]
    /\ pc = "link" /\ Len(path) > 0 => h[split.page] < h[path[Len(path)]]
ImageHeights(h) ==
    \A i \in 1 .. Len(images) : \A c \in Children(images[i].old) : h[c] < h[images[i].page]
LevelInv == \E h : Heights(h) /\ PathHeights(h) /\ ImageHeights(h)

\* The entries of a node or of the combined arrays.
Pairing(keys, vals) == {<<keys[i], vals[i]>> : i \in 1 .. Len(keys)}
EntriesOf(x) == Pairing(x.keys, x.vals)

\* Every entry of a leaf, of a leaf's image and of a leaf being split is one
\* that was asked for.
AskedIn(E, q) == \A e \in E : e[2] \in 0 .. Len(q) - 1 /\ q[e[2] + 1] = Real(e[1])
LeavesSound == \A p \in Pages : node[p].leaf => AskedIn(EntriesOf(node[p]), asked)
ImagesSound == \A i \in 1 .. Len(images) :
                   images[i].old.leaf => AskedIn(EntriesOf(images[i].old), asked)
CombSound == pc = "leaf" => AskedIn(EntriesOf(comb), asked)
SoundInv == ~garbled => LeavesSound /\ ImagesSound /\ CombSound

IndexInv == TreeInv /\ CallInv /\ AskedInv /\ ImageInv /\ FaultInv /\ LevelInv /\ SoundInv

-----------------------------------------------------------------------------
(* Recursive definitions.  The functions the searches are defined by exist *)
(* because each call is about a smaller range; what they give follows by   *)
(* induction on its size, which is the least counterexample's.             *)

\* Induction over the naturals, for sets.
LEMMA SetInduction ==
    ASSUME NEW S, 0 \in S, \A n \in Nat : n \in S => n + 1 \in S
    PROVE  \A n \in Nat : n \in S
<1> SUFFICES ASSUME \E n \in Nat : n \notin S PROVE FALSE
  OBVIOUS
<1> DEFINE T == {n \in Nat : n \notin S}
<1>1. PICK m \in T : \A n \in T : m <= n
  <2>1. T \in SUBSET Nat /\ T # {}
    OBVIOUS
  <2> QED  BY <2>1, LeastExists
<1>2. m \in Nat /\ m \notin S /\ m # 0
  OBVIOUS
<1>3. m - 1 \in Nat /\ m - 1 \notin T
  BY <1>1, <1>2
<1>4. m - 1 \in S
  BY <1>3
<1>5. (m - 1) + 1 \in S
  BY <1>3, <1>4
<1> QED  BY <1>2, <1>5

Cells(n) == (0 .. n) \X (0 .. n)
Size(r) == r[2] - r[1]

\* The middle of a range, and that its halves are smaller.
LEMMA Middle ==
    ASSUME NEW n \in Nat, NEW lo \in 0 .. n, NEW hi \in 0 .. n, lo < hi,
           NEW mid, mid = lo + (hi - lo) \div 2
    PROVE  /\ mid \in lo .. hi - 1 /\ mid \in Nat
           /\ <<lo, mid>> \in Cells(n) /\ <<mid + 1, hi>> \in Cells(n)
           /\ Size(<<lo, mid>>) < hi - lo /\ Size(<<mid + 1, hi>>) < hi - lo
           /\ Size(<<lo, mid>>) \in Nat /\ Size(<<mid + 1, hi>>) \in Nat
<1>1. mid \in lo .. hi - 1
  OBVIOUS
<1> QED  BY <1>1 DEF Cells, Size

\* Two functions give the same on ranges smaller than r; a function is that of
\* the loop.
Agree(f, g, n, r) == \A q \in Cells(n) : Size(q) < Size(r) => f[q] = g[q]
IsCut(g, n, left, same) == g = [r \in Cells(n) |-> Halve(g, r[1], r[2], left, same)]

\* A round of the halving loop looks at smaller ranges only.
LEMMA HalveLocal ==
    ASSUME NEW n \in Nat, NEW left, NEW same, NEW r \in Cells(n), NEW f, NEW g,
           Agree(f, g, n, r)
    PROVE  Halve(f, r[1], r[2], left, same) = Halve(g, r[1], r[2], left, same)
<1>1. r[1] \in 0 .. n /\ r[2] \in 0 .. n
  BY DEF Cells
<1>2. CASE r[1] >= r[2]
  BY <1>2, Zenon DEF Halve
<1>3. CASE ~(r[1] >= r[2])
  <2> DEFINE mid == r[1] + (r[2] - r[1]) \div 2
  <2>1. r[1] < r[2]
    BY <1>1, <1>3
  <2>2. /\ <<r[1], mid>> \in Cells(n) /\ <<mid + 1, r[2]>> \in Cells(n)
        /\ Size(<<r[1], mid>>) < Size(r) /\ Size(<<mid + 1, r[2]>>) < Size(r)
    BY <1>1, <2>1, Middle DEF Size
  <2>3. f[<<r[1], mid>>] = g[<<r[1], mid>>] /\ f[<<mid + 1, r[2]>>] = g[<<mid + 1, r[2]>>]
    BY <2>2 DEF Agree
  <2> QED  BY <1>3, <2>3, Zenon DEF Halve
<1> QED  BY <1>2, <1>3

\* The function of the halving loop exists, so it is what its equation says.
LEMMA HalveExists ==
    ASSUME NEW n \in Nat, NEW left, NEW same
    PROVE  \E g : IsCut(g, n, left, same)
<1> DEFINE Fits(g, m) == \A r \in Cells(n) : Size(r) <= m => g[r] = Halve(g, r[1], r[2], left, same)
           Next1(g) == [r \in Cells(n) |-> Halve(g, r[1], r[2], left, same)]
           S == {m \in Nat : \E g : Fits(g, m)}
<1>0. \A r \in Cells(n) : Size(r) \in Int /\ Size(r) <= n
  BY DEF Cells, Size
<1>1. 0 \in S
  <2> DEFINE z == [r \in Cells(n) |-> [at |-> r[1], hit |-> FALSE]]
  <2>1. ASSUME NEW r \in Cells(n), Size(r) <= 0 PROVE z[r] = Halve(z, r[1], r[2], left, same)
    <3>1. r[1] >= r[2]
      BY <2>1 DEF Size, Cells
    <3> QED  BY <3>1 DEF Halve
  <2>2. Fits(z, 0)
    BY <2>1
  <2> QED  BY <2>2, Zenon
<1>2. ASSUME NEW g, NEW m \in Nat, Fits(g, m) PROVE \A r \in Cells(n) : Size(r) <= m => Next1(g)[r] = g[r]
  BY <1>2
<1>3. ASSUME NEW m \in Nat, m \in S PROVE m + 1 \in S
  <2>1. PICK g : Fits(g, m)
    BY <1>3
  <2> DEFINE h == Next1(g)
  <2>2. \A r \in Cells(n) : Size(r) <= m => h[r] = g[r]
    BY <1>2, <2>1
  <2>3. \A r \in Cells(n) : h[r] = Halve(g, r[1], r[2], left, same)
    OBVIOUS
  <2> HIDE DEF h
  <2>4. ASSUME NEW r \in Cells(n), Size(r) <= m + 1 PROVE h[r] = Halve(h, r[1], r[2], left, same)
    <3>1. Agree(g, h, n, r)
      BY <1>0, <2>2, <2>4 DEF Agree
    <3>2. Halve(g, r[1], r[2], left, same) = Halve(h, r[1], r[2], left, same)
      BY <3>1, HalveLocal
    <3> QED  BY <3>2, <2>3
  <2>5. Fits(h, m + 1)
    BY <2>4
  <2>6. m + 1 \in Nat
    OBVIOUS
  <2> HIDE DEF Fits
  <2> QED  BY <2>5, <2>6, Zenon
<1>4. n \in S
  <2> HIDE DEF S
  <2> QED  BY <1>1, <1>3, SetInduction
<1>5. PICK g : Fits(g, n)
  BY <1>4
<1> DEFINE h == Next1(g)
<1>6. \A r \in Cells(n) : h[r] = g[r]
  BY <1>0, <1>2, <1>5
<1>7. h = [r \in Cells(n) |-> Halve(g, r[1], r[2], left, same)]
  OBVIOUS
<1> HIDE DEF h
<1>8. ASSUME NEW r \in Cells(n) PROVE Halve(g, r[1], r[2], left, same) = Halve(h, r[1], r[2], left, same)
  <2>1. Agree(g, h, n, r)
    BY <1>6 DEF Agree
  <2> QED  BY <2>1, HalveLocal
<1>9. h = [r \in Cells(n) |-> Halve(h, r[1], r[2], left, same)]
  BY <1>7, <1>8
<1> QED  BY <1>9 DEF IsCut

\* A bisection ends at an same, or in its range with the right end or a
\* position to the left of which it was sent, behind the left end or one it has
\* passed.
LEMMA BisectEnds ==
    ASSUME NEW n \in Nat, NEW left, NEW same, NEW c, c = Bisect(n, left, same)
    PROVE  /\ c.hit \in BOOLEAN
           /\ c.hit => c.at \in 0 .. n - 1 /\ c.at \in same
           /\ ~c.hit => /\ c.at \in 0 .. n
                        /\ c.at = n \/ (c.at \in left /\ c.at \notin same)
                        /\ c.at = 0 \/ (c.at - 1 \notin left /\ c.at - 1 \notin same)
<1> DEFINE cut == CHOOSE g : IsCut(g, n, left, same)
           Hit(r) == cut[r].at \in r[1] .. r[2] - 1 /\ cut[r].at \in same
           Right(r) == cut[r].at = r[2] \/ (cut[r].at \in left /\ cut[r].at \notin same)
           Left(r) == cut[r].at = r[1] \/ (cut[r].at - 1 \notin left /\ cut[r].at - 1 \notin same)
           Ends(r) == /\ cut[r].hit \in BOOLEAN
                      /\ cut[r].hit => Hit(r)
                      /\ ~cut[r].hit => cut[r].at \in r[1] .. r[2] /\ Right(r) /\ Left(r)
           S == {m \in Nat : \A r \in Cells(n) : r[1] <= r[2] /\ Size(r) <= m => Ends(r)}
<1>0. \E g : IsCut(g, n, left, same)
  BY HalveExists
<1>1. cut = [r \in Cells(n) |-> Halve(cut, r[1], r[2], left, same)]
  BY <1>0, Zenon DEF IsCut
<1>2. c = cut[<<0, n>>]
  BY Zenon DEF Bisect, Cells, IsCut
<1> HIDE DEF cut
<1>3. \A r \in Cells(n) : cut[r] = Halve(cut, r[1], r[2], left, same)
  BY <1>1
<1>4. ASSUME NEW r \in Cells(n), r[1] = r[2] PROVE Ends(r)
  <2>1. r[1] \in 0 .. n /\ r[1] >= r[2]
    BY <1>4 DEF Cells
  <2>2. cut[r] = [at |-> r[1], hit |-> FALSE]
    BY <1>3, <2>1, Zenon DEF Halve
  <2>3. cut[r].at = r[1] /\ cut[r].hit = FALSE
    BY <2>2
  <2>4. Left(r) /\ Right(r) /\ cut[r].at \in r[1] .. r[2]
    BY <2>1, <2>3, <1>4
  <2> HIDE DEF Left, Right, Hit
  <2> QED  BY <2>3, <2>4
<1>5. ASSUME NEW r \in Cells(n), r[1] < r[2],
             \A q \in Cells(n) : q[1] <= q[2] /\ Size(q) < Size(r) => Ends(q)
      PROVE  Ends(r)
  <2> DEFINE mid == r[1] + (r[2] - r[1]) \div 2
             a == <<r[1], mid>>  b == <<mid + 1, r[2]>>
  <2>1. r[1] \in 0 .. n /\ r[2] \in 0 .. n /\ ~(r[1] >= r[2])
    BY <1>5 DEF Cells
  <2>2. /\ mid \in r[1] .. r[2] - 1 /\ a \in Cells(n) /\ b \in Cells(n)
        /\ Size(a) < Size(r) /\ Size(b) < Size(r)
    BY <1>5, <2>1, Middle DEF Size
  <2>3. cut[r] = IF mid \in same THEN [at |-> mid, hit |-> TRUE]
                 ELSE IF mid \in left THEN cut[a] ELSE cut[b]
    BY <1>3, <2>1, Zenon DEF Halve
  <2>4. a[1] = r[1] /\ a[2] = mid /\ b[1] = mid + 1 /\ b[2] = r[2]
    OBVIOUS
  <2>5. Ends(a) /\ Ends(b)
    <3>1. a[1] <= a[2] /\ b[1] <= b[2]
      BY <2>1, <2>2
    <3> HIDE DEF Ends
    <3> QED  BY <3>1, <2>2, <1>5
  <2> HIDE DEF mid, a, b
  <2>6. CASE mid \in same
    <3>1. cut[r].at = mid /\ cut[r].hit = TRUE
      BY <2>3, <2>6
    <3> QED  BY <3>1, <2>6, <2>2
  <2>7. CASE mid \notin same /\ mid \in left
    <3>1. cut[r] = cut[a]
      BY <2>3, <2>7
    <3>2. CASE cut[a].hit
      BY <3>1, <3>2, <2>1, <2>2, <2>4, <2>5
    <3>3. CASE ~cut[a].hit
      <4>1. cut[a].at \in r[1] .. mid /\ Right(a) /\ Left(a)
        BY <3>3, <2>4, <2>5
      <4>2. cut[r].at \in r[1] .. r[2]
        BY <4>1, <3>1, <2>1, <2>2
      <4>3. Left(r)
        BY <4>1, <3>1, <2>4
      <4>4. Right(r)
        BY <4>1, <3>1, <2>4, <2>7
      <4>6. cut[r].hit \in BOOLEAN /\ ~cut[r].hit
        BY <2>5, <3>1, <3>3
      <4> HIDE DEF Left, Right, Hit
      <4> QED  BY <4>2, <4>3, <4>4, <4>6
    <3> QED  BY <3>2, <3>3
  <2>8. CASE mid \notin same /\ mid \notin left
    <3>1. cut[r] = cut[b]
      BY <2>3, <2>8
    <3>2. CASE cut[b].hit
      BY <3>1, <3>2, <2>1, <2>2, <2>4, <2>5
    <3>3. CASE ~cut[b].hit
      <4>1. cut[b].at \in mid + 1 .. r[2] /\ Right(b) /\ Left(b)
        BY <3>3, <2>4, <2>5
      <4>2. cut[r].at \in r[1] .. r[2]
        BY <4>1, <3>1, <2>1, <2>2
      <4>3. Right(r)
        BY <4>1, <3>1, <2>4
      <4>4. cut[b].at = mid + 1 => cut[b].at - 1 = mid
        BY <2>2
      <4>5. Left(r)
        BY <4>1, <4>4, <3>1, <2>4, <2>8
      <4>6. cut[r].hit \in BOOLEAN /\ ~cut[r].hit
        BY <2>5, <3>1, <3>3
      <4> HIDE DEF Left, Right, Hit
      <4> QED  BY <4>2, <4>3, <4>5, <4>6
    <3> QED  BY <3>2, <3>3
  <2> QED  BY <2>6, <2>7, <2>8
<1>6. 0 \in S
  <2>1. ASSUME NEW r \in Cells(n), r[1] <= r[2], Size(r) <= 0 PROVE Ends(r)
    <3>1. r[1] = r[2]
      BY <2>1 DEF Cells, Size
    <3> HIDE DEF Ends
    <3> QED  BY <3>1, <1>4
  <2> HIDE DEF Ends
  <2> QED  BY <2>1
<1>7. ASSUME NEW m \in Nat, m \in S PROVE m + 1 \in S
  <2> HIDE DEF Ends
  <2>1. ASSUME NEW r \in Cells(n), r[1] <= r[2], Size(r) <= m + 1 PROVE Ends(r)
    <3>1. \A q \in Cells(n) : q[1] <= q[2] /\ Size(q) < Size(r) => Ends(q)
      <4> SUFFICES ASSUME NEW q \in Cells(n), q[1] <= q[2], Size(q) < Size(r) PROVE Ends(q)
        OBVIOUS
      <4>1. Size(q) <= m
        BY <2>1 DEF Cells, Size
      <4> QED  BY <4>1, <1>7
    <3>2. r[1] = r[2] \/ r[1] < r[2]
      BY <2>1 DEF Cells
    <3> QED  BY <3>1, <3>2, <1>4, <1>5
  <2> QED  BY <2>1
<1>8. n \in S
  <2> HIDE DEF S
  <2> QED  BY <1>6, <1>7, SetInduction
<1>9. Ends(<<0, n>>)
  <2>1. <<0, n>> \in Cells(n) /\ Size(<<0, n>>) <= n
    BY DEF Cells, Size
  <2> HIDE DEF Ends
  <2> QED  BY <2>1, <1>8
<1> QED  BY <1>2, <1>9

\* Where a bisection without equals ends.
LEMMA PositionEnds ==
    ASSUME NEW n \in Nat, NEW left, NEW c, c = Bisect(n, left, {}).at
    PROVE  /\ c \in 0 .. n
           /\ c = n \/ c \in left
           /\ c = 0 \/ c - 1 \notin left
<1> DEFINE b == Bisect(n, left, {})
<1>1. /\ b.hit \in BOOLEAN
      /\ b.hit => b.at \in {}
      /\ ~b.hit => /\ b.at \in 0 .. n
                   /\ b.at = n \/ (b.at \in left /\ b.at \notin {})
                   /\ b.at = 0 \/ (b.at - 1 \notin left /\ b.at - 1 \notin {})
  <2> HIDE DEF b
  <2>1. b = Bisect(n, left, {})
    BY DEF b
  <2> QED  BY <2>1, BisectEnds
<1> HIDE DEF b
<1>2. ~b.hit
  BY <1>1
<1>3. c = b.at
  BY DEF b
<1> QED  BY <1>1, <1>2, <1>3

\* find_child_binary gives a position of the node, and so a child of it.
LEMMA ChildIsOne ==
    ASSUME NEW nd, GoodNode(nd), ~nd.leaf, NEW k
    PROVE  Child(nd, k) \in Children(nd) /\ FindChild(nd, k) \in 0 .. Len(nd.keys)
<1>1. Len(nd.keys) \in Nat
  BY DEF GoodNode, Node
<1>2. FindChild(nd, k) \in 0 .. Len(nd.keys)
  BY <1>1, PositionEnds DEF FindChild
<1>3. CASE FindChild(nd, k) = 0
  BY <1>3, <1>2 DEF Child, Children
<1>4. CASE FindChild(nd, k) # 0
  <2>1. FindChild(nd, k) \in 1 .. Len(nd.vals)
    BY <1>1, <1>2, <1>4 DEF GoodNode
  <2>2. nd.vals[FindChild(nd, k)] \in Elems(nd.vals)
    BY <2>1, Zenon DEF Elems
  <2>3. Child(nd, k) = nd.vals[FindChild(nd, k)]
    BY <1>4, Zenon DEF Child
  <2> QED  BY <1>2, <2>2, <2>3 DEF Children
<1> QED  BY <1>3, <1>4, <1>2

\* insert_into_leaf_node puts the key at a position of the leaf.
LEMMA LeafPosRange ==
    ASSUME NEW nd, GoodNode(nd), NEW k
    PROVE  LeafPos(nd, k) \in 0 .. Len(nd.keys)
<1>1. Len(nd.keys) \in Nat
  BY DEF GoodNode, Node
<1> QED  BY <1>1, PositionEnds DEF LeafPos

\* search_key_binary gives -1, or the first of a run of equals.
LEMMA SearchKeyEnds ==
    ASSUME NEW nd, GoodNode(nd), NEW k, NEW idx, idx = SearchKey(nd, k)
    PROVE  \/ idx = -1 /\ ~Bisect(Len(nd.keys), Above(nd, k), Equals(nd, k)).hit
           \/ idx \in 0 .. Len(nd.keys) - 1 /\ idx \in Equals(nd, k) /\ idx - 1 \notin Equals(nd, k)
<1> DEFINE n == Len(nd.keys)
           b == Bisect(n, Above(nd, k), Equals(nd, k))
<1>1. n \in Nat
  BY DEF GoodNode, Node
<1> HIDE DEF n
<1>2. b.hit \in BOOLEAN /\ (b.hit => b.at \in 0 .. n - 1 /\ b.at \in Equals(nd, k))
  <2> HIDE DEF b
  <2>1. b = Bisect(n, Above(nd, k), Equals(nd, k))
    BY DEF b
  <2> QED  BY <1>1, <2>1, BisectEnds
<1> DEFINE First(i) == i .. b.at \subseteq Equals(nd, k) /\ i - 1 \notin Equals(nd, k)
<1>3. idx = IF b.hit THEN CHOOSE i \in 0 .. b.at : First(i) ELSE -1
  BY Zenon DEF SearchKey, n
<1> HIDE DEF b
<1>4. CASE ~b.hit
  BY <1>3, <1>4 DEF b, n
<1>5. CASE b.hit
  <2> DEFINE T == {i \in 0 .. b.at : i .. b.at \subseteq Equals(nd, k)}
  <2>1. b.at \in 0 .. n - 1 /\ b.at \in Equals(nd, k) /\ b.at \in Nat
    BY <1>1, <1>2, <1>5
  <2>2. T \in SUBSET Nat /\ b.at \in T
    <3>1. b.at .. b.at = {b.at}
      BY <2>1
    <3>2. b.at \in 0 .. b.at
      BY <2>1
    <3> QED  BY <2>1, <3>1, <3>2
  <2>3. PICK i \in T : \A j \in T : i <= j
    BY <2>2, LeastExists
  <2>4. i - 1 \notin Equals(nd, k)
    <3> SUFFICES ASSUME i - 1 \in Equals(nd, k) PROVE FALSE
      OBVIOUS
    <3>1. i - 1 \in Nat /\ i \in Nat
      BY <2>2, <2>3 DEF Equals
    <3>2. (i - 1) .. b.at = {i - 1} \cup (i .. b.at)
      BY <3>1, <2>1, <2>3
    <3>3. i - 1 \in T
      BY <3>1, <3>2, <2>1, <2>3
    <3> QED  BY <3>1, <3>3, <2>3
  <2>5. \E j \in 0 .. b.at : First(j)
    BY <2>3, <2>4
  <2>6. idx \in 0 .. b.at /\ First(idx)
    <3>1. idx = CHOOSE j \in 0 .. b.at : First(j)
      BY <1>3, <1>5
    <3> HIDE DEF First
    <3> QED  BY <3>1, <2>5, Zenon
  <2>7. idx \in idx .. b.at
    BY <2>1, <2>6
  <2>8. idx \in Equals(nd, k)
    BY <2>6, <2>7
  <2>9. idx \in 0 .. n - 1
    BY <1>1, <2>1, <2>6
  <2> QED  BY <2>6, <2>8, <2>9 DEF n
<1> QED  BY <1>2, <1>4, <1>5

-----------------------------------------------------------------------------
(* The way down.                                                           *)

WalkFrom(g, p, k) == IF ~Readable(p) THEN <<p>>
                     ELSE IF node[p].leaf THEN <<p>> ELSE <<p>> \o g[Child(node[p], k)]
IsWalk(g, k) == g = [p \in Nat |-> WalkFrom(g, p, k)]

Low(h, p, m) == p \in Pages => h[p] <= m

\* The descent from a page looks at lower pages only, ...
LEMMA WalkLocal ==
    ASSUME TreeInv, NEW h, Heights(h), NEW k, NEW p \in Nat, NEW m \in Nat, Low(h, p, m + 1),
           NEW f, NEW g, \A q \in Nat : Low(h, q, m) => f[q] = g[q]
    PROVE  WalkFrom(f, p, k) = WalkFrom(g, p, k)
<1>1. CASE ~Readable(p) \/ node[p].leaf
  BY <1>1 DEF WalkFrom
<1>2. CASE Readable(p) /\ ~node[p].leaf
  <2>1. p \in Pages /\ Pages \subseteq Nat
    BY <1>2 DEF Readable, TreeInv, Pages
  <2>2. Child(node[p], k) \in Children(node[p])
    BY <1>2, <2>1, ChildIsOne DEF TreeInv
  <2>3. Child(node[p], k) \in Pages
    BY <2>1, <2>2 DEF TreeInv
  <2> DEFINE c == Child(node[p], k)
  <2>4. Low(h, c, m)
    <3>1. h[p] \in Nat /\ h[c] \in Nat /\ h[c] < h[p]
      BY <2>1, <2>2, <2>3 DEF Heights
    <3>2. h[p] <= m + 1
      BY <2>1 DEF Low
    <3> HIDE DEF c
    <3> QED  BY <3>1, <3>2 DEF Low
  <2>5. f[Child(node[p], k)] = g[Child(node[p], k)]
    BY <2>1, <2>3, <2>4
  <2> QED  BY <2>5, Zenon DEF WalkFrom
<1> QED  BY <1>1, <1>2

\* ... so the function exists by which Descent is defined.
LEMMA WalkExists ==
    ASSUME TreeInv, NEW h, Heights(h), NEW k
    PROVE  \E g : IsWalk(g, k)
<1> DEFINE Fits(g, m) == \A p \in Nat : Low(h, p, m) => g[p] = WalkFrom(g, p, k)
           S == {m \in Nat : \E g : Fits(g, m)}
<1>0. /\ Pages \subseteq Nat /\ Len(node) \in Nat
      /\ \A p \in Pages : h[p] \in Nat /\ h[p] <= Len(node)
  BY DEF Heights, Pages, TreeInv
<1>1. ASSUME NEW m \in Nat, NEW g, Fits(g, m)
      PROVE  \E f : Fits(f, m + 1) /\ \A p \in Nat : f[p] = WalkFrom(g, p, k)
  <2> DEFINE f == [p \in Nat |-> WalkFrom(g, p, k)]
  <2>1. \A p \in Nat : f[p] = WalkFrom(g, p, k)
    OBVIOUS
  <2>2. \A p \in Nat : Low(h, p, m) => g[p] = f[p]
    BY <1>1
  <2> HIDE DEF f
  <2>3. ASSUME NEW p \in Nat, Low(h, p, m + 1) PROVE f[p] = WalkFrom(f, p, k)
    <3>1. WalkFrom(g, p, k) = WalkFrom(f, p, k)
      BY <2>2, <2>3, WalkLocal
    <3> QED  BY <3>1, <2>1
  <2> QED  BY <2>1, <2>3
<1>2. 0 \in S
  <2> DEFINE z == [p \in Nat |-> <<p>>]
  <2>1. ASSUME NEW p \in Nat, Low(h, p, 0) PROVE z[p] = WalkFrom(z, p, k)
    <3>1. ~(Readable(p) /\ ~node[p].leaf)
      <4> SUFFICES ASSUME Readable(p), ~node[p].leaf PROVE FALSE
        OBVIOUS
      <4>1. p \in Pages
        BY DEF Readable, Pages
      <4>2. Child(node[p], k) \in Children(node[p])
        BY <4>1, ChildIsOne DEF TreeInv
      <4>3. Child(node[p], k) \in Pages
        BY <4>1, <4>2 DEF TreeInv
      <4> DEFINE c == Child(node[p], k)
      <4>4. h[c] < h[p]
        BY <4>1, <4>2 DEF Heights
      <4>5. h[p] <= 0
        BY <2>1, <4>1 DEF Low
      <4>6. h[c] \in Nat /\ h[p] \in Nat
        BY <1>0, <4>1, <4>3
      <4> HIDE DEF c
      <4> QED  BY <4>4, <4>5, <4>6
    <3> QED  BY <3>1 DEF WalkFrom
  <2>2. Fits(z, 0)
    BY <2>1
  <2> QED  BY <2>2, Zenon
<1>3. ASSUME NEW m \in Nat, m \in S PROVE m + 1 \in S
  <2>1. PICK g : Fits(g, m)
    BY <1>3
  <2>2. m + 1 \in Nat
    OBVIOUS
  <2> HIDE DEF Fits
  <2>3. \E f : Fits(f, m + 1)
    BY <1>1, <2>1
  <2> QED  BY <2>2, <2>3
<1>4. Len(node) \in S
  <2> HIDE DEF S
  <2> QED  BY <1>0, <1>2, <1>3, SetInduction
<1>5. PICK g : Fits(g, Len(node))
  BY <1>4
<1>6. \A p \in Nat : Low(h, p, Len(node)) /\ Low(h, p, Len(node) + 1)
  BY <1>0 DEF Low
<1> DEFINE f == [p \in Nat |-> WalkFrom(g, p, k)]
<1>7. \A p \in Nat : f[p] = g[p]
  BY <1>5, <1>6
<1>8. f = [p \in Nat |-> WalkFrom(g, p, k)]
  OBVIOUS
<1> HIDE DEF f
<1>9. ASSUME NEW p \in Nat PROVE WalkFrom(g, p, k) = WalkFrom(f, p, k)
  BY <1>0, <1>6, <1>7, WalkLocal
<1>10. f = [p \in Nat |-> WalkFrom(f, p, k)]
  BY <1>8, <1>9
<1> QED  BY <1>10 DEF IsWalk

\* A way: from p over inner nodes, each time to the child the key belongs to,
\* to a leaf.
WayFrom(d, p, k) ==
    /\ d \in Seq(Pages) /\ Len(d) > 0 /\ d[1] = p
    /\ node[d[Len(d)]].leaf
    /\ \A i \in 1 .. Len(d) - 1 : ~node[d[i]].leaf /\ d[i + 1] = Child(node[d[i]], k)

\* From any page of a mapped file the descent ends in a leaf.
LEMMA WaysDown ==
    ASSUME TreeInv, mapped, NEW h, Heights(h), NEW k, NEW g, IsWalk(g, k), NEW p \in Pages
    PROVE  WayFrom(g[p], p, k)
<1> DEFINE S == {m \in Nat : \A q \in Pages : h[q] <= m => WayFrom(g[q], q, k)}
<1>0. /\ Pages \subseteq Nat /\ Len(node) \in Nat /\ Pages = DOMAIN node
      /\ \A q \in Pages : h[q] \in Nat /\ h[q] <= Len(node)
  BY DEF Heights, Pages, TreeInv
<1>1. \A q \in Pages : g[q] = IF node[q].leaf THEN <<q>> ELSE <<q>> \o g[Child(node[q], k)]
  <2> SUFFICES ASSUME NEW q \in Pages
               PROVE  g[q] = IF node[q].leaf THEN <<q>> ELSE <<q>> \o g[Child(node[q], k)]
    OBVIOUS
  <2>1. q \in Nat /\ Readable(q)
    BY <1>0 DEF Readable
  <2>2. g[q] = WalkFrom(g, q, k)
    BY <2>1 DEF IsWalk
  <2> QED  BY <2>1, <2>2, Zenon DEF WalkFrom
<1>2. ASSUME NEW q \in Pages, node[q].leaf PROVE WayFrom(g[q], q, k)
  <2>1. g[q] = <<q>>
    BY <1>1, <1>2
  <2> QED  BY <2>1, <1>2 DEF WayFrom
<1>3. ASSUME NEW q \in Pages, ~node[q].leaf, WayFrom(g[Child(node[q], k)], Child(node[q], k), k)
      PROVE  WayFrom(g[q], q, k)
  <2> DEFINE c == Child(node[q], k)
             e == g[c]
             d == g[q]
  <2>1. d = <<q>> \o e
    BY <1>1, <1>3, Zenon
  <2>2. e \in Seq(Pages) /\ Len(e) > 0 /\ e[1] = c /\ node[e[Len(e)]].leaf
    BY <1>3 DEF WayFrom
  <2>3. \A i \in 1 .. Len(e) - 1 : ~node[e[i]].leaf /\ e[i + 1] = Child(node[e[i]], k)
    BY <1>3 DEF WayFrom
  <2>4. c = Child(node[q], k)
    OBVIOUS
  <2> HIDE DEF c, e, d
  <2>5. d \in Seq(Pages) /\ Len(d) = Len(e) + 1 /\ Len(e) \in Nat
    BY <2>1, <2>2
  <2>6. d[1] = q /\ \A i \in 1 .. Len(e) : d[i + 1] = e[i]
    BY <2>1, <2>2
  <2>7. node[d[Len(d)]].leaf
    BY <2>2, <2>5, <2>6
  <2>8. ASSUME NEW i \in 1 .. Len(d) - 1 PROVE ~node[d[i]].leaf /\ d[i + 1] = Child(node[d[i]], k)
    <3>1. CASE i = 1
      <4>1. d[i + 1] = e[1] /\ d[i] = q
        BY <3>1, <2>2, <2>5, <2>6
      <4> QED  BY <4>1, <2>2, <2>4, <1>3
    <3>2. CASE i > 1
      <4>1. i - 1 \in 1 .. Len(e) - 1 /\ i - 1 \in 1 .. Len(e) /\ i \in 1 .. Len(e)
        BY <3>2, <2>5
      <4>2. d[i] = e[i - 1] /\ d[i + 1] = e[i]
        <5>1. d[(i - 1) + 1] = e[i - 1]
          BY <4>1, <2>6
        <5>2. d[i + 1] = e[i]
          BY <4>1, <2>6
        <5> QED  BY <5>1, <5>2
      <4>3. ~node[e[i - 1]].leaf /\ e[(i - 1) + 1] = Child(node[e[i - 1]], k)
        BY <4>1, <2>3
      <4> QED  BY <4>2, <4>3
    <3> QED  BY <3>1, <3>2, <2>5
  <2>9. WayFrom(d, q, k)
    BY <2>5, <2>6, <2>7, <2>8 DEF WayFrom
  <2> QED  BY <2>9 DEF d
<1>4. ASSUME NEW q \in Pages, ~node[q].leaf
      PROVE  Child(node[q], k) \in Pages /\ h[Child(node[q], k)] < h[q]
  <2>1. Child(node[q], k) \in Children(node[q])
    BY <1>4, ChildIsOne DEF TreeInv
  <2> QED  BY <2>1 DEF TreeInv, Heights
<1>5. 0 \in S
  <2>1. ASSUME NEW q \in Pages, h[q] <= 0 PROVE node[q].leaf
    <3> SUFFICES ASSUME ~node[q].leaf PROVE FALSE
      OBVIOUS
    <3> DEFINE c == Child(node[q], k)
    <3>1. c \in Pages /\ h[c] < h[q]
      BY <1>4
    <3> HIDE DEF c
    <3> QED  BY <1>0, <2>1, <3>1
  <2> QED  BY <1>2, <2>1
<1>6. ASSUME NEW m \in Nat, m \in S PROVE m + 1 \in S
  <2>1. ASSUME NEW q \in Pages, h[q] <= m + 1 PROVE WayFrom(g[q], q, k)
    <3>1. CASE node[q].leaf
      BY <3>1, <1>2
    <3>2. CASE ~node[q].leaf
      <4> DEFINE c == Child(node[q], k)
      <4>1. c \in Pages /\ h[c] < h[q]
        BY <3>2, <1>4
      <4>2. h[c] <= m
        <5> HIDE DEF c
        <5> QED  BY <1>0, <2>1, <4>1
      <4>3. WayFrom(g[c], c, k)
        BY <4>1, <4>2, <1>6
      <4> QED  BY <4>3, <3>2, <1>3
    <3> QED  BY <3>1, <3>2
  <2> QED  BY <2>1
<1>7. Len(node) \in S
  <2> HIDE DEF S
  <2> QED  BY <1>0, <1>5, <1>6, SetInduction
<1> QED  BY <1>0, <1>7

\* insert_into_subtree and search: the way the key takes from the root.
LEMMA DescentIsWay ==
    ASSUME TreeInv, NEW h, Heights(h), NEW k
    PROVE  /\ mapped => WayFrom(Descent(k), root, k)
           /\ ~mapped => Descent(k) = <<root>>
<1> DEFINE walk == CHOOSE g : IsWalk(g, k)
<1>1. IsWalk(walk, k)
  BY WalkExists, Zenon
<1>2. Descent(k) = walk[root]
  BY Zenon DEF Descent, IsWalk, WalkFrom
<1> HIDE DEF walk
<1>3. root \in Pages /\ root \in Nat
  BY DEF TreeInv, Pages
<1>4. ASSUME mapped PROVE WayFrom(Descent(k), root, k)
  BY <1>1, <1>2, <1>3, <1>4, WaysDown
<1>5. ASSUME ~mapped PROVE Descent(k) = <<root>>
  <2>1. walk[root] = WalkFrom(walk, root, k)
    BY <1>1, <1>3 DEF IsWalk
  <2> QED  BY <1>2, <1>5, <2>1 DEF WalkFrom, Readable
<1> QED  BY <1>4, <1>5

-----------------------------------------------------------------------------
(* What the steps of an insertion put together.                            *)

\* memcpy of a key into a slot gives a slot.
LEMMA CopiedSlot ==
    ASSUME NEW k \in Keys, NEW s \in Slot
    PROVE  Copied(k, s) \in Slot /\ EmptySlot \in Slot
<1>1. k \in Seq(Nat)
  BY BTreeAssumption
<1>2. ks \in Nat
  BY BTreeAssumption
<1>3. \A i \in 1 .. ks : i <= Len(k) => k[i] \in Nat
  BY <1>1, <1>2
<1> QED  BY <1>3 DEF Copied, EmptySlot, Slot

\* memmove and memcpy: the elements behind the position move up by one.
Shifted(t, s, pos, e) ==
    /\ \A i \in 1 .. pos : t[i] = s[i]
    /\ t[pos + 1] = e
    /\ \A i \in pos + 1 .. Len(s) : t[i + 1] = s[i]

\* InsertAt is the memmove and the memcpy of the code.
LEMMA InsertAtEffect ==
    ASSUME NEW S, NEW s \in Seq(S), NEW pos \in 0 .. Len(s), NEW e \in S
    PROVE  /\ InsertAt(s, pos + 1, e) \in Seq(S)
           /\ Len(InsertAt(s, pos + 1, e)) = Len(s) + 1
           /\ Shifted(InsertAt(s, pos + 1, e), s, pos, e)
<1> DEFINE a == SubSeq(s, 1, pos)  b == SubSeq(s, pos + 1, Len(s))  t == InsertAt(s, pos + 1, e)
<1>0. Len(s) \in Nat /\ pos \in Nat
  OBVIOUS
<1>1. a \in Seq(S) /\ Len(a) = pos /\ \A i \in 1 .. pos : a[i] = s[i]
  <2>1. \A i \in 1 .. pos : s[i] \in S
    OBVIOUS
  <2> QED  BY <2>1, <1>0
<1>2. b \in Seq(S) /\ Len(b) = Len(s) - pos /\ \A i \in 1 .. Len(s) - pos : b[i] = s[pos + i]
  <2>1. \A i \in pos + 1 .. Len(s) : s[i] \in S
    OBVIOUS
  <2>2. /\ b \in Seq(S)
        /\ Len(b) = IF pos + 1 <= Len(s) THEN Len(s) - (pos + 1) + 1 ELSE 0
        /\ \A i \in 1 .. Len(s) - (pos + 1) + 1 : b[i] = s[(pos + 1) + i - 1]
    BY <2>1, <1>0, SubSeqProperties
  <2>3. Len(b) = Len(s) - pos
    BY <2>2, <1>0
  <2>4. ASSUME NEW i \in 1 .. Len(s) - pos PROVE b[i] = s[pos + i]
    BY <2>2, <1>0
  <2> QED  BY <2>2, <2>3, <2>4
<1>3. t = (a \o <<e>>) \o b
  <2>1. (pos + 1) - 1 = pos
    BY <1>0
  <2> QED  BY <2>1 DEF InsertAt
<1> HIDE DEF a, b, t
<1> DEFINE c == a \o <<e>>
<1>4. c \in Seq(S) /\ Len(c) = pos + 1 /\ (\A i \in 1 .. pos : c[i] = a[i]) /\ c[pos + 1] = e
  BY <1>0, <1>1
<1>5. t = c \o b
  BY <1>3
<1> HIDE DEF c
<1>6. t \in Seq(S) /\ Len(t) = Len(s) + 1
  <2>1. t \in Seq(S) /\ Len(t) = Len(c) + Len(b)
    BY <1>2, <1>4, <1>5, ConcatProperties
  <2> QED  BY <2>1, <1>0, <1>2, <1>4
<1>7. \A i \in 1 .. pos + 1 : t[i] = c[i]
  <2>1. \A i \in 1 .. Len(c) + Len(b) : t[i] = IF i <= Len(c) THEN c[i] ELSE b[i - Len(c)]
    BY <1>2, <1>4, <1>5, ConcatProperties
  <2>2. \A i \in 1 .. pos + 1 : i \in 1 .. Len(c) + Len(b) /\ i <= Len(c)
    BY <1>0, <1>2, <1>4
  <2> QED  BY <2>1, <2>2
<1>8. ASSUME NEW i \in pos + 1 .. Len(s) PROVE t[i + 1] = s[i]
  <2>1. i - pos \in 1 .. Len(b) /\ (i + 1) \in 1 .. Len(c) + Len(b) /\ ~(i + 1 <= Len(c)) /\ (i + 1) - Len(c) = i - pos
    BY <1>0, <1>2, <1>4
  <2>2. t[i + 1] = b[(i + 1) - Len(c)]
    BY <1>2, <1>4, <1>5, <2>1
  <2>3. b[i - pos] = s[pos + (i - pos)]
    BY <1>2, <2>1
  <2>4. pos + (i - pos) = i
    BY <1>0
  <2> QED  BY <2>1, <2>2, <2>3, <2>4
<1>9. Shifted(t, s, pos, e)
  BY <1>0, <1>1, <1>4, <1>7, <1>8 DEF Shifted
<1> QED  BY <1>6, <1>9 DEF t

\* A part of a sequence.
LEMMA PartEffect ==
    ASSUME NEW S, NEW s \in Seq(S), NEW a \in 1 .. Len(s) + 1, NEW b \in 0 .. Len(s), a <= b + 1,
           NEW u, u = SubSeq(s, a, b)
    PROVE  /\ u \in Seq(S) /\ Len(u) = b - a + 1
           /\ \A i \in 1 .. Len(u) : u[i] = s[a + i - 1] /\ a + i - 1 \in a .. b
<1>0. Len(s) \in Nat /\ a \in Int /\ b \in Int
  OBVIOUS
<1>1. \A i \in a .. b : s[i] \in S
  BY <1>0
<1>2. /\ u \in Seq(S)
      /\ Len(u) = IF a <= b THEN b - a + 1 ELSE 0
      /\ \A i \in 1 .. b - a + 1 : u[i] = s[a + i - 1]
  BY <1>0, <1>1, SubSeqProperties
<1>3. Len(u) = b - a + 1
  BY <1>0, <1>2
<1>4. \A i \in 1 .. b - a + 1 : a + i - 1 \in a .. b
  BY <1>0
<1> QED  BY <1>2, <1>3, <1>4

\* What an insertion and a cut leave of the elements and of the entries.
LEMMA InsertElems ==
    ASSUME NEW S, NEW s \in Seq(S), NEW pos \in 0 .. Len(s), NEW e \in S
    PROVE  Elems(InsertAt(s, pos + 1, e)) \subseteq Elems(s) \cup {e}
<1> DEFINE t == InsertAt(s, pos + 1, e)
<1>0. Len(s) \in Nat /\ pos \in Nat
  OBVIOUS
<1>1. /\ Len(t) = Len(s) + 1
      /\ \A i \in 1 .. pos : t[i] = s[i]
      /\ t[pos + 1] = e
      /\ \A i \in pos + 1 .. Len(s) : t[i + 1] = s[i]
  <2>1. Len(t) = Len(s) + 1 /\ Shifted(t, s, pos, e)
    BY InsertAtEffect
  <2> QED  BY <2>1 DEF Shifted
<1> HIDE DEF t
<1>2. ASSUME NEW i \in 1 .. Len(t) PROVE t[i] \in Elems(s) \cup {e}
  <2>1. CASE i <= pos
    BY <1>0, <1>1, <2>1 DEF Elems
  <2>2. CASE i = pos + 1
    BY <1>1, <2>2
  <2>3. CASE i > pos + 1
    <3>1. i - 1 \in pos + 1 .. Len(s) /\ i - 1 \in 1 .. Len(s) /\ (i - 1) + 1 = i
      BY <1>0, <1>1, <2>3
    <3>2. t[(i - 1) + 1] = s[i - 1]
      BY <1>1, <3>1
    <3> QED  BY <3>1, <3>2 DEF Elems
  <2> QED  BY <1>0, <1>1, <2>1, <2>2, <2>3
<1>3. Elems(t) \subseteq Elems(s) \cup {e}
  BY <1>2 DEF Elems
<1> QED  BY <1>3 DEF t

\* An insertion into both arrays adds the new entry and no other.
LEMMA InsertEntries ==
    ASSUME NEW A, NEW B, NEW s \in Seq(A), NEW v \in Seq(B), Len(v) = Len(s),
           NEW pos \in 0 .. Len(s), NEW e \in A, NEW r \in B
    PROVE  Pairing(InsertAt(s, pos + 1, e), InsertAt(v, pos + 1, r)) \subseteq Pairing(s, v) \cup {<<e, r>>}
<1> DEFINE t == InsertAt(s, pos + 1, e)  w == InsertAt(v, pos + 1, r)
<1>0. Len(s) \in Nat /\ pos \in Nat
  OBVIOUS
<1>1. /\ Len(t) = Len(s) + 1
      /\ \A i \in 1 .. pos : t[i] = s[i]
      /\ t[pos + 1] = e
      /\ \A i \in pos + 1 .. Len(s) : t[i + 1] = s[i]
  <2>1. Len(t) = Len(s) + 1 /\ Shifted(t, s, pos, e)
    BY InsertAtEffect
  <2> QED  BY <2>1 DEF Shifted
<1>2. /\ \A i \in 1 .. pos : w[i] = v[i]
      /\ w[pos + 1] = r
      /\ \A i \in pos + 1 .. Len(s) : w[i + 1] = v[i]
  <2>1. Shifted(w, v, pos, r)
    BY InsertAtEffect
  <2> QED  BY <2>1 DEF Shifted
<1> HIDE DEF t, w
<1>3. ASSUME NEW i \in 1 .. Len(t) PROVE <<t[i], w[i]>> \in Pairing(s, v) \cup {<<e, r>>}
  <2>1. CASE i <= pos
    <3>1. t[i] = s[i] /\ w[i] = v[i] /\ i \in 1 .. Len(s)
      BY <1>0, <1>1, <1>2, <2>1
    <3> QED  BY <3>1 DEF Pairing
  <2>2. CASE i = pos + 1
    BY <1>1, <1>2, <2>2
  <2>3. CASE i > pos + 1
    <3>1. i - 1 \in pos + 1 .. Len(s) /\ i - 1 \in 1 .. Len(s) /\ (i - 1) + 1 = i
      BY <1>0, <1>1, <2>3
    <3>2. t[(i - 1) + 1] = s[i - 1] /\ w[(i - 1) + 1] = v[i - 1]
      BY <1>1, <1>2, <3>1
    <3>3. t[i] = s[i - 1] /\ w[i] = v[i - 1]
      BY <3>1, <3>2
    <3> QED  BY <3>1, <3>3 DEF Pairing
  <2> QED  BY <1>0, <1>1, <2>1, <2>2, <2>3
<1>4. Pairing(t, w) \subseteq Pairing(s, v) \cup {<<e, r>>}
  BY <1>3 DEF Pairing
<1> QED  BY <1>4 DEF t, w

\* A part of an array has no other elements.
LEMMA PartElems ==
    ASSUME NEW S, NEW s \in Seq(S), NEW a \in 1 .. Len(s) + 1, NEW b \in 0 .. Len(s), a <= b + 1
    PROVE  Elems(SubSeq(s, a, b)) \subseteq Elems(s)
<1> DEFINE u == SubSeq(s, a, b)
<1>1. \A i \in 1 .. Len(u) : u[i] = s[a + i - 1] /\ a + i - 1 \in a .. b
  BY PartEffect
<1>2. \A i \in a .. b : i \in 1 .. Len(s)
  OBVIOUS
<1> HIDE DEF u
<1>3. Elems(u) \subseteq Elems(s)
  BY <1>1, <1>2 DEF Elems
<1> QED  BY <1>3 DEF u

\* Nor do the same parts of both arrays have other entries.
LEMMA PartEntries ==
    ASSUME NEW A, NEW B, NEW s \in Seq(A), NEW v \in Seq(B), Len(v) = Len(s),
           NEW a \in 1 .. Len(s) + 1, NEW b \in 0 .. Len(s), a <= b + 1
    PROVE  Pairing(SubSeq(s, a, b), SubSeq(v, a, b)) \subseteq Pairing(s, v)
<1> DEFINE t == SubSeq(s, a, b)  w == SubSeq(v, a, b)
<1>1. Len(t) = b - a + 1 /\ \A i \in 1 .. Len(t) : t[i] = s[a + i - 1] /\ a + i - 1 \in a .. b
  BY PartEffect
<1>2. Len(w) = b - a + 1 /\ \A i \in 1 .. Len(w) : w[i] = v[a + i - 1]
  BY PartEffect
<1>3. \A i \in a .. b : i \in 1 .. Len(s)
  OBVIOUS
<1> HIDE DEF t, w
<1>4. \A i \in 1 .. Len(t) : <<t[i], w[i]>> \in Pairing(s, v)
  BY <1>1, <1>2, <1>3 DEF Pairing
<1>5. Pairing(t, w) \subseteq Pairing(s, v)
  BY <1>4 DEF Pairing
<1> QED  BY <1>5 DEF t, w

\* The nodes the steps make are good ones.
LEMMA LeafMade ==
    ASSUME NEW keys \in Seq(Slot), NEW vals \in Seq(Nat), Len(vals) = Len(keys), Len(keys) <= kMaxKeys,
           NEW nd, nd = Leaf(keys, vals)
    PROVE  GoodNode(nd) /\ nd.leaf /\ Children(nd) = {} /\ EntriesOf(nd) = Pairing(keys, vals)
<1>1. /\ nd \in Node /\ nd.leaf = TRUE /\ nd.first = 0 /\ nd.keys = keys /\ nd.vals = vals
  BY DEF Leaf, Node
<1> QED  BY <1>1 DEF GoodNode, Children, EntriesOf

\* An inner node with at least one separator is a good one.
LEMMA InnerMade ==
    ASSUME NEW first \in Nat, NEW keys \in Seq(Slot), NEW vals \in Seq(Nat), Len(vals) = Len(keys),
           Len(keys) <= kMaxKeys, Len(keys) > 0,
           NEW nd, nd = Inner(first, keys, vals)
    PROVE  GoodNode(nd) /\ nd.leaf = FALSE /\ Children(nd) = {first} \cup Elems(vals)
<1>1. /\ nd \in Node /\ nd.leaf = FALSE /\ nd.first = first /\ nd.keys = keys /\ nd.vals = vals
  BY DEF Inner, Node
<1> QED  BY <1>1 DEF GoodNode, Children

-----------------------------------------------------------------------------
(* A node is overwritten in place.                                         *)

\* The file has as many nodes as before, and one of them is another one.
Replaced(p, nd) ==
    /\ Pages' = Pages /\ Len(node') = Len(node)
    /\ \A q \in Pages : node'[q] = IF q = p THEN nd ELSE node[q]

\* The images are the old ones, and perhaps that of the node overwritten.
Imaged(p) ==
    \A i \in 1 .. Len(images') : \/ i \in 1 .. Len(images) /\ images'[i] = images[i]
                                 \/ images'[i].page = p /\ images'[i].old = node[p]

\* An overwritten node leaves the file, the images and the fault count as they
\* have to be.
LEMMA Rewritten ==
    ASSUME TreeInv, ImageInv, FaultInv, NEW p \in Pages, NEW nd, GoodNode(nd), Children(nd) \subseteq Pages,
           nd.leaf = node[p].leaf, Overwrite(p, nd), UNCHANGED <<root, mapped, faults>>
    PROVE  Replaced(p, nd) /\ Imaged(p) /\ TreeInv' /\ ImageInv' /\ FaultInv'
<1>0. /\ node \in Seq(Node) /\ Pages = 1 .. Len(node) /\ nd \in Node
      /\ \A q \in Pages : GoodNode(node[q]) /\ Children(node[q]) \subseteq Pages
      /\ node[p] \in Node
  BY DEF TreeInv, Pages, GoodNode
<1>1. node' = [node EXCEPT ![p] = nd]
  BY DEF Overwrite
<1>2. node' \in Seq(Node) /\ Len(node') = Len(node) /\ \A q \in Pages : node'[q] = IF q = p THEN nd ELSE node[q]
  BY <1>0, <1>1
<1>3. Pages' = Pages
  BY <1>0, <1>2 DEF Pages
<1>4. Replaced(p, nd)
  BY <1>2, <1>3 DEF Replaced
<1>5. TreeInv'
  <2>1. \A q \in Pages : GoodNode(node'[q]) /\ Children(node'[q]) \subseteq Pages
    BY <1>0, <1>2
  <2>2. root' \in Pages' /\ mapped' \in BOOLEAN
    BY <1>3 DEF TreeInv
  <2> QED  BY <1>2, <1>3, <2>1, <2>2 DEF TreeInv
<1> DEFINE Image == [page : Pages, old : Node]
           new == [page |-> p, old |-> node[p]]
<1>6. images' = images \/ (images' = Append(images, new) /\ backup)
  BY DEF Overwrite
<1>7. images \in Seq(Image) /\ new \in Image /\ Len(images) \in Nat /\ new.page = p /\ new.old = node[p]
  BY <1>0 DEF ImageInv
<1> HIDE DEF Image, new
<1>8. images' \in Seq(Image) /\ Imaged(p)
  <2>1. CASE images' = images
    BY <2>1, <1>7 DEF Imaged
  <2>2. CASE images' = Append(images, new)
    <3>1. images' \in Seq(Image) /\ Len(images') = Len(images) + 1
      BY <2>2, <1>7
    <3>2. \A i \in 1 .. Len(images') : images'[i] = IF i <= Len(images) THEN images[i] ELSE new
      BY <2>2, <1>7
    <3>3. Imaged(p)
      <4> SUFFICES ASSUME NEW i \in 1 .. Len(images')
                   PROVE  \/ i \in 1 .. Len(images) /\ images'[i] = images[i]
                          \/ images'[i].page = p /\ images'[i].old = node[p]
        BY DEF Imaged
      <4>1. CASE i <= Len(images)
        BY <4>1, <3>2, <1>7
      <4>2. CASE ~(i <= Len(images))
        BY <4>2, <3>2, <1>7
      <4> QED  BY <4>1, <4>2
    <3> QED  BY <3>1, <3>3
  <2> QED  BY <2>1, <2>2, <1>6
<1>9. ASSUME NEW i \in 1 .. Len(images')
      PROVE  /\ GoodNode(images'[i].old) /\ Children(images'[i].old) \subseteq Pages
             /\ images'[i].old.leaf = node'[images'[i].page].leaf
  <2>1. CASE i \in 1 .. Len(images) /\ images'[i] = images[i]
    <3>0. images[i] \in Image
      BY <2>1, <1>7
    <3>1. images[i].page \in Pages
      BY <3>0 DEF Image
    <3>2. node'[images[i].page].leaf = node[images[i].page].leaf
      BY <3>1, <1>2
    <3> QED  BY <2>1, <3>2 DEF ImageInv
  <2>2. CASE images'[i].page = p /\ images'[i].old = node[p]
    BY <2>2, <1>0, <1>2
  <2> QED  BY <1>8, <2>1, <2>2 DEF Imaged
<1>10. ImageInv'
  BY <1>3, <1>8, <1>9 DEF ImageInv, Image
<1>11. FaultInv'
  BY <1>6 DEF FaultInv, Overwrite
<1> QED  BY <1>4, <1>5, <1>8, <1>10, <1>11

\* The levels stay if the new node's children are lower than it.
LEMMA LevelsKept ==
    ASSUME TreeInv, ImageInv, NEW p \in Pages, NEW nd, Replaced(p, nd), Imaged(p),
           NEW h, Heights(h), ImageHeights(h), \A c \in Children(nd) : h[c] < h[p]
    PROVE  Heights(h)' /\ ImageHeights(h)'
<1>1. Heights(h)'
  BY DEF Heights, Replaced
<1>2. ASSUME NEW i \in 1 .. Len(images'), NEW c \in Children(images'[i].old) PROVE h[c] < h[images'[i].page]
  <2>1. CASE i \in 1 .. Len(images) /\ images'[i] = images[i]
    BY <2>1, <1>2 DEF ImageHeights
  <2>2. CASE images'[i].page = p /\ images'[i].old = node[p]
    BY <2>2, <1>2 DEF Heights
  <2> QED  BY <2>1, <2>2 DEF Imaged
<1>3. ImageHeights(h)'
  BY <1>2 DEF ImageHeights
<1> QED  BY <1>1, <1>3

\* What was asked for stays so.
LEMMA AskedGrows ==
    ASSUME NEW q \in Seq(Keys), NEW k, NEW E, AskedIn(E, q)
    PROVE  AskedIn(E, Append(q, k))
<1> SUFFICES ASSUME NEW e \in E
             PROVE  e[2] \in 0 .. Len(Append(q, k)) - 1 /\ Append(q, k)[e[2] + 1] = Real(e[1])
  BY DEF AskedIn
<1>1. e[2] \in 0 .. Len(q) - 1 /\ q[e[2] + 1] = Real(e[1])
  BY DEF AskedIn
<1>2. Len(q) \in Nat /\ Len(Append(q, k)) = Len(q) + 1
  OBVIOUS
<1>3. e[2] + 1 \in 1 .. Len(q)
  BY <1>1, <1>2
<1>4. Append(q, k)[e[2] + 1] = q[e[2] + 1]
  BY <1>3
<1>5. e[2] \in 0 .. Len(Append(q, k)) - 1
  BY <1>1, <1>2
<1> QED  BY <1>1, <1>4, <1>5

\* The leaves and their images stay sound if the new node is, were it a leaf.
LEMMA SoundKept ==
    ASSUME TreeInv, LeavesSound, ImagesSound, NEW p \in Pages, NEW nd, Replaced(p, nd), Imaged(p),
           \A E : AskedIn(E, asked) => AskedIn(E, asked'),
           nd.leaf => AskedIn(EntriesOf(nd), asked')
    PROVE  LeavesSound' /\ ImagesSound'
<1>1. ASSUME NEW q \in Pages, node'[q].leaf PROVE AskedIn(EntriesOf(node'[q]), asked')
  <2>1. CASE q = p
    BY <1>1, <2>1 DEF Replaced
  <2>2. CASE q # p
    <3>1. node'[q] = node[q]
      BY <2>2 DEF Replaced
    <3>2. AskedIn(EntriesOf(node[q]), asked)
      BY <3>1, <1>1 DEF LeavesSound
    <3> QED  BY <3>1, <3>2
  <2> QED  BY <2>1, <2>2
<1>2. LeavesSound'
  BY <1>1 DEF LeavesSound, Replaced
<1>3. ASSUME NEW i \in 1 .. Len(images'), images'[i].old.leaf PROVE AskedIn(EntriesOf(images'[i].old), asked')
  <2>1. CASE i \in 1 .. Len(images) /\ images'[i] = images[i]
    BY <2>1, <1>3 DEF ImagesSound
  <2>2. CASE images'[i].page = p /\ images'[i].old = node[p]
    BY <2>2, <1>3 DEF LeavesSound
  <2> QED  BY <2>1, <2>2 DEF Imaged
<1>4. ImagesSound'
  BY <1>3 DEF ImagesSound
<1> QED  BY <1>2, <1>4

-----------------------------------------------------------------------------
(* One lemma per action.                                                   *)

\* An insertion that finds its leaf.
LEMMA AtTheLeaf ==
    ASSUME IndexInv, NEW k \in Keys, NEW d, d = Descent(k), AtLeaf(k, d), NEW p, p = Last(d)
    PROVE  /\ WayFrom(d, root, k) /\ p = d[Len(d)] /\ p \in Pages /\ node[p].leaf = TRUE
           /\ GoodNode(node[p]) /\ node[p].keys \in Seq(Slot) /\ node[p].vals \in Seq(Nat)
           /\ Len(node[p].vals) = Len(node[p].keys) /\ Len(node[p].keys) <= kMaxKeys
           /\ LeafPos(node[p], k) \in 0 .. Len(node[p].keys)
           /\ pc = "idle" /\ path = <<>> /\ asked \in Seq(Keys) /\ asked' = Append(asked, k)
           /\ Len(asked) \in Nat
           /\ AskedInv'
           /\ \A E : AskedIn(E, asked) => AskedIn(E, asked')
<1>1. mapped /\ p = d[Len(d)]
  BY DEF AtLeaf, Readable, Last
<1>2. TreeInv /\ asked \in Seq(Keys) /\ pc = "idle" /\ path = <<>>
  BY DEF IndexInv, CallInv, AskedInv, AtLeaf, Call
<1>3. PICK h : Heights(h)
  BY DEF IndexInv, LevelInv
<1>4. WayFrom(d, root, k)
  BY <1>1, <1>2, <1>3, DescentIsWay
<1>5. p \in Pages /\ node[p].leaf
  BY <1>1, <1>4 DEF WayFrom
<1>6. GoodNode(node[p])
  BY <1>2, <1>5 DEF TreeInv
<1>7. node[p].leaf = TRUE /\ node[p].keys \in Seq(Slot) /\ node[p].vals \in Seq(Nat)
  BY <1>5, <1>6 DEF GoodNode, Node
<1>8. LeafPos(node[p], k) \in 0 .. Len(node[p].keys)
  BY <1>6, LeafPosRange
<1>9. asked' = Append(asked, k) /\ Len(asked) \in Nat /\ Len(asked) < MaxInserts
  BY <1>2 DEF AtLeaf, Call
<1>10. AskedInv'
  BY <1>2, <1>9, BTreeAssumption DEF AskedInv
<1>11. \A E : AskedIn(E, asked) => AskedIn(E, asked')
  BY <1>2, <1>9, AskedGrows
<1>12. Len(node[p].vals) = Len(node[p].keys) /\ Len(node[p].keys) <= kMaxKeys
  BY <1>6 DEF GoodNode
<1> QED  BY <1>1, <1>2, <1>4, <1>5, <1>6, <1>7, <1>8, <1>9, <1>10, <1>11, <1>12

\* The entry an insertion adds is one that was asked for.
LEMMA NewEntryAsked ==
    ASSUME NEW q \in Seq(Keys), NEW k, NEW slot, Real(slot) = k, NEW E, AskedIn(E, q),
           NEW F, F \subseteq E \cup {<<slot, Len(q)>>}
    PROVE  AskedIn(F, Append(q, k))
<1>1. Len(q) \in Nat /\ Len(Append(q, k)) = Len(q) + 1 /\ Append(q, k)[Len(q) + 1] = k
  OBVIOUS
<1>2. AskedIn(E, Append(q, k))
  BY AskedGrows
<1> SUFFICES ASSUME NEW e \in F
             PROVE  e[2] \in 0 .. Len(Append(q, k)) - 1 /\ Append(q, k)[e[2] + 1] = Real(e[1])
  BY DEF AskedIn
<1>3. CASE e \in E
  BY <1>2, <1>3 DEF AskedIn
<1>4. CASE e = <<slot, Len(q)>>
  <2>1. e[1] = slot /\ e[2] = Len(q)
    BY <1>4
  <2> QED  BY <2>1, <1>1
<1> QED  BY <1>3, <1>4

\* The slot behind memmove is a slot.
LEMMA OldSlotIsSlot ==
    ASSUME NEW nd, GoodNode(nd), NEW pos \in 0 .. Len(nd.keys), NEW k \in Keys
    PROVE  OldSlot(nd, pos) \in Slot /\ EmptySlot \in Slot
<1>1. nd.keys \in Seq(Slot) /\ Len(nd.keys) \in Nat
  BY DEF GoodNode, Node
<1>2. EmptySlot \in Slot
  BY BTreeAssumption DEF EmptySlot, Slot
<1>3. pos < Len(nd.keys) => nd.keys[pos + 1] \in Slot
  <2> HIDE DEF Slot
  <2>1. pos < Len(nd.keys) => pos + 1 \in 1 .. Len(nd.keys)
    BY <1>1
  <2> QED  BY <1>1, <2>1
<1> QED  BY <1>2, <1>3, Zenon DEF OldSlot

\* The arrays of a node with an entry more.
Grown(nd, slot, r, keys, vals) ==
    /\ keys \in Seq(Slot) /\ Len(keys) = Len(nd.keys) + 1
    /\ vals \in Seq(Nat) /\ Len(vals) = Len(keys)
    /\ Pairing(keys, vals) \subseteq EntriesOf(nd) \cup {<<slot, r>>}
    /\ Elems(vals) \subseteq Elems(nd.vals) \cup {r}
    /\ Len(nd.keys) \in Nat

\* A node that takes an entry is Grown.
LEMMA NodeGrown ==
    ASSUME NEW nd, GoodNode(nd), NEW pos \in 0 .. Len(nd.keys), NEW slot \in Slot, NEW r \in Nat
    PROVE  Grown(nd, slot, r, InsertAt(nd.keys, pos + 1, slot), InsertAt(nd.vals, pos + 1, r))
<1> DEFINE keys == InsertAt(nd.keys, pos + 1, slot)  vals == InsertAt(nd.vals, pos + 1, r)
<1>1. nd.keys \in Seq(Slot) /\ nd.vals \in Seq(Nat) /\ Len(nd.vals) = Len(nd.keys)
  BY DEF GoodNode, Node
<1>2. pos \in 0 .. Len(nd.vals)
  BY <1>1
<1> HIDE DEF Slot
<1>3. keys \in Seq(Slot) /\ Len(keys) = Len(nd.keys) + 1
  BY <1>1, InsertAtEffect, ZenonT(60)
<1>4. vals \in Seq(Nat) /\ Len(vals) = Len(nd.vals) + 1
  BY <1>1, <1>2, InsertAtEffect, ZenonT(60)
<1>5. Pairing(keys, vals) \subseteq EntriesOf(nd) \cup {<<slot, r>>}
  BY <1>1, InsertEntries DEF EntriesOf
<1>6. Elems(vals) \subseteq Elems(nd.vals) \cup {r}
  BY <1>1, <1>2, InsertElems
<1> HIDE DEF keys, vals
<1>7. Grown(nd, slot, r, keys, vals)
  BY <1>1, <1>3, <1>4, <1>5, <1>6 DEF Grown
<1> QED  BY <1>7 DEF keys, vals

\* A page read_node refuses.
LEMMA DescendFailsStep ==
    ASSUME IndexInv, NEW k \in Keys, NEW d, d = Descent(k), DescendFails(k, d)
    PROVE  IndexInv'
<1>1. /\ UNCHANGED <<node, root, mapped, pc, key, rid, path, comb, split, backup, logged, images, garbled, faults>>
      /\ asked' = Append(asked, k) /\ Len(asked) < MaxInserts
  BY DEF DescendFails, Call, treeVars, callVars, fpwVars
<1>2. asked \in Seq(Keys) /\ Len(asked) \in Nat
  BY DEF IndexInv, AskedInv
<1>3. AskedInv'
  BY <1>1, <1>2, BTreeAssumption DEF AskedInv
<1>4. \A E : AskedIn(E, asked) => AskedIn(E, asked')
  BY <1>1, <1>2, AskedGrows
<1>5. SoundInv'
  BY <1>1, <1>4 DEF IndexInv, SoundInv, LeavesSound, ImagesSound, CombSound, Pages
<1>6. TreeInv' /\ CallInv' /\ ImageInv' /\ FaultInv'
  BY <1>1 DEF IndexInv, TreeInv, CallInv, ImageInv, FaultInv, Pages
<1>7. LevelInv'
  BY <1>1 DEF IndexInv, LevelInv, Heights, PathHeights, ImageHeights, Pages
<1> QED  BY <1>3, <1>5, <1>6, <1>7 DEF IndexInv

\* insert_into_leaf_node, a slot is free.
LEMMA LeafInsertStep ==
    ASSUME IndexInv, NEW k \in Keys, NEW d, d = Descent(k), LeafInsert(k, d)
    PROVE  IndexInv'
<1> DEFINE p == Last(d)
           pos == LeafPos(node[p], k)
           slot == Copied(k, OldSlot(node[p], pos))
           keys == InsertAt(node[p].keys, pos + 1, slot)
           vals == InsertAt(node[p].vals, pos + 1, Len(asked))
           nd == Leaf(keys, vals)
<1>0. TreeInv /\ CallInv /\ ImageInv /\ FaultInv /\ SoundInv /\ LevelInv
  BY DEF IndexInv
<1>1. /\ AtLeaf(k, d) /\ ~Full(p) /\ Overwrite(p, nd)
      /\ garbled' = (garbled \/ Real(slot) # k)
      /\ UNCHANGED <<root, mapped, pc, key, rid, path, comb, split, faults>>
  BY DEF LeafInsert, callVars
<1>2. /\ p \in Pages /\ node[p].leaf = TRUE
      /\ GoodNode(node[p]) /\ node[p].keys \in Seq(Slot) /\ node[p].vals \in Seq(Nat)
      /\ Len(node[p].vals) = Len(node[p].keys) /\ Len(node[p].keys) <= kMaxKeys
      /\ pos \in 0 .. Len(node[p].keys)
      /\ pc = "idle" /\ path = <<>> /\ asked \in Seq(Keys) /\ asked' = Append(asked, k)
      /\ Len(asked) \in Nat /\ AskedInv'
      /\ \A E : AskedIn(E, asked) => AskedIn(E, asked')
  BY <1>1, AtTheLeaf
<1>3. slot \in Slot
  BY <1>2, OldSlotIsSlot, CopiedSlot
<1>4. Len(node[p].keys) < kMaxKeys /\ Len(node[p].keys) \in Nat
  BY <1>1, <1>2, BTreeAssumption DEF Full
<1> HIDE DEF slot, pos, p
<1>5. /\ keys \in Seq(Slot) /\ Len(keys) = Len(node[p].keys) + 1
      /\ vals \in Seq(Nat) /\ Len(vals) = Len(keys)
      /\ Pairing(keys, vals) \subseteq EntriesOf(node[p]) \cup {<<slot, Len(asked)>>}
  <2>1. Grown(node[p], slot, Len(asked), keys, vals)
    BY <1>2, <1>3, NodeGrown
  <2> HIDE DEF keys, vals
  <2> QED  BY <2>1 DEF Grown
<1> HIDE DEF keys, vals
<1>8. GoodNode(nd) /\ nd.leaf /\ Children(nd) = {} /\ EntriesOf(nd) = Pairing(keys, vals)
  BY <1>4, <1>5, LeafMade, BTreeAssumption
<1>9. nd.leaf = TRUE
  BY DEF Leaf
<1> HIDE DEF nd
<1>10. Replaced(p, nd) /\ Imaged(p) /\ TreeInv' /\ ImageInv' /\ FaultInv'
  BY <1>0, <1>1, <1>2, <1>8, <1>9, Rewritten
<1>11. CallInv'
  BY <1>0, <1>1, <1>2, <1>10 DEF CallInv, Replaced
<1>12. LevelInv'
  <2>1. PICK h : Heights(h) /\ PathHeights(h) /\ ImageHeights(h)
    BY <1>0 DEF LevelInv
  <2>2. Heights(h)' /\ ImageHeights(h)'
    BY <1>0, <1>2, <1>8, <1>10, <2>1, LevelsKept
  <2>3. PathHeights(h)'
    BY <1>1, <1>2, <2>1 DEF PathHeights
  <2> QED  BY <2>2, <2>3 DEF LevelInv
<1>13. SoundInv'
  <2> SUFFICES ASSUME ~garbled' PROVE LeavesSound' /\ ImagesSound' /\ CombSound'
    BY DEF SoundInv
  <2>1. ~garbled /\ Real(slot) = k
    BY <1>1
  <2>2. LeavesSound /\ ImagesSound
    BY <1>0, <2>1 DEF SoundInv
  <2>3. AskedIn(EntriesOf(node[p]), asked)
    BY <1>2, <2>2 DEF LeavesSound
  <2>4. AskedIn(EntriesOf(nd), asked')
    BY <1>2, <1>5, <1>8, <2>1, <2>3, NewEntryAsked
  <2>5. LeavesSound' /\ ImagesSound'
    BY <1>0, <1>2, <1>10, <2>2, <2>4, SoundKept
  <2> QED  BY <1>1, <1>2, <2>5 DEF CombSound
<1> QED  BY <1>2, <1>10, <1>11, <1>12, <1>13 DEF IndexInv

\* The way to a leaf leads down.
LEMMA WayLeadsDown ==
    ASSUME TreeInv, NEW h, Heights(h), NEW k, NEW d, WayFrom(d, root, k), NEW i \in 1 .. Len(d) - 1
    PROVE  h[d[i + 1]] < h[d[i]]
<1>1. d[i] \in Pages /\ ~node[d[i]].leaf /\ d[i + 1] = Child(node[d[i]], k)
  BY DEF WayFrom
<1>2. d[i + 1] \in Children(node[d[i]])
  BY <1>1, ChildIsOne DEF TreeInv
<1> QED  BY <1>1, <1>2 DEF Heights

\* insert_into_leaf_node, the leaf is full.
LEMMA LeafSplitLeftStep ==
    ASSUME IndexInv, NEW k \in Keys, NEW d, d = Descent(k), LeafSplitLeft(k, d)
    PROVE  IndexInv'
<1> DEFINE p == Last(d)
           pos == LeafPos(node[p], k)
           slot == Copied(k, EmptySlot)
           keys == InsertAt(node[p].keys, pos + 1, slot)
           vals == InsertAt(node[p].vals, pos + 1, Len(asked))
           half == Len(keys) \div 2
           nd == Leaf(SubSeq(keys, 1, half), SubSeq(vals, 1, half))
<1>0. TreeInv /\ CallInv /\ ImageInv /\ FaultInv /\ SoundInv /\ LevelInv
  BY DEF IndexInv
<1>1. /\ AtLeaf(k, d) /\ Full(p) /\ Overwrite(p, nd)
      /\ path' = d /\ comb' = [keys |-> keys, vals |-> vals] /\ pc' = "leaf"
      /\ garbled' = (garbled \/ Real(slot) # k)
      /\ UNCHANGED <<root, mapped, split, faults>>
  BY DEF LeafSplitLeft
<1>2. /\ WayFrom(d, root, k) /\ p = d[Len(d)] /\ p \in Pages /\ node[p].leaf = TRUE
      /\ GoodNode(node[p]) /\ Len(node[p].keys) <= kMaxKeys
      /\ pos \in 0 .. Len(node[p].keys)
      /\ pc = "idle" /\ path = <<>> /\ asked \in Seq(Keys) /\ asked' = Append(asked, k)
      /\ Len(asked) \in Nat /\ AskedInv'
      /\ \A E : AskedIn(E, asked) => AskedIn(E, asked')
  BY <1>1, AtTheLeaf
<1>3. slot \in Slot
  BY <1>2, OldSlotIsSlot, CopiedSlot
<1>4. Full(p)
  BY <1>1
<1> HIDE DEF slot, pos, p
<1>5. /\ keys \in Seq(Slot) /\ Len(keys) = Len(node[p].keys) + 1
      /\ vals \in Seq(Nat) /\ Len(vals) = Len(keys)
      /\ Pairing(keys, vals) \subseteq EntriesOf(node[p]) \cup {<<slot, Len(asked)>>}
      /\ Len(node[p].keys) \in Nat
  <2>1. Grown(node[p], slot, Len(asked), keys, vals)
    BY <1>2, <1>3, NodeGrown
  <2> HIDE DEF keys, vals
  <2> QED  BY <2>1 DEF Grown
<1>6. Len(node[p].keys) = kMaxKeys
  BY <1>2, <1>4, <1>5, BTreeAssumption DEF Full
<1> HIDE DEF keys, vals
<1>7. half \in 0 .. kMaxKeys /\ half \in 0 .. Len(keys) /\ half \in Nat /\ Len(keys) \in Nat
  BY <1>5, <1>6, BTreeAssumption
<1> HIDE DEF half
<1>8. /\ SubSeq(keys, 1, half) \in Seq(Slot) /\ Len(SubSeq(keys, 1, half)) = half
      /\ SubSeq(vals, 1, half) \in Seq(Nat) /\ Len(SubSeq(vals, 1, half)) = half
      /\ Pairing(SubSeq(keys, 1, half), SubSeq(vals, 1, half)) \subseteq Pairing(keys, vals)
  <2> HIDE DEF Slot
  <2>1. 1 \in 1 .. Len(keys) + 1 /\ 1 <= half + 1 /\ half - 1 + 1 = half
    BY <1>7
  <2>2. 1 \in 1 .. Len(vals) + 1 /\ half \in 0 .. Len(vals)
    BY <1>5, <1>7
  <2>3. SubSeq(keys, 1, half) \in Seq(Slot) /\ Len(SubSeq(keys, 1, half)) = half
    BY <1>5, <1>7, <2>1, PartEffect
  <2>4. SubSeq(vals, 1, half) \in Seq(Nat) /\ Len(SubSeq(vals, 1, half)) = half
    BY <1>5, <2>1, <2>2, PartEffect
  <2>5. Pairing(SubSeq(keys, 1, half), SubSeq(vals, 1, half)) \subseteq Pairing(keys, vals)
    BY <1>5, <1>7, <2>1, PartEntries
  <2> QED  BY <2>3, <2>4, <2>5
<1>9. /\ GoodNode(nd) /\ nd.leaf /\ Children(nd) = {}
      /\ EntriesOf(nd) = Pairing(SubSeq(keys, 1, half), SubSeq(vals, 1, half))
      /\ nd.leaf = TRUE
  <2>1. half <= kMaxKeys
    BY <1>7, BTreeAssumption
  <2>2. nd.leaf = TRUE
    BY DEF Leaf
  <2> QED  BY <1>8, <2>1, <2>2, LeafMade
<1> HIDE DEF nd
<1>10. Replaced(p, nd) /\ Imaged(p) /\ TreeInv' /\ ImageInv' /\ FaultInv'
  BY <1>0, <1>1, <1>2, <1>9, Rewritten
<1>11. CallInv'
  <2>1. d \in Seq(Pages) /\ Len(d) > 0 /\ \A i \in 1 .. Len(d) - 1 : ~node[d[i]].leaf
    BY <1>2 DEF WayFrom
  <2>2. GoodComb(comb')
    BY <1>1, <1>5, <1>6 DEF GoodComb
  <2>3. node'[d[Len(d)]].leaf = TRUE
    BY <1>2, <1>9, <1>10 DEF Replaced
  <2>4. ASSUME NEW i \in 1 .. Len(d), node'[d[i]].leaf PROVE i = Len(d)
    <3> SUFFICES ASSUME i # Len(d) PROVE FALSE
      OBVIOUS
    <3>1. i \in 1 .. Len(d) - 1 /\ d[i] \in Pages
      BY <2>1
    <3>2. node'[d[i]].leaf = node[d[i]].leaf
      BY <3>1, <1>2, <1>9, <1>10 DEF Replaced
    <3> QED  BY <2>1, <2>4, <3>1, <3>2
  <2>5. split' = NoSplit
    BY <1>0, <1>1, <1>2 DEF CallInv
  <2>6. path' \in Seq(Pages')
    BY <1>1, <1>10, <2>1 DEF Replaced
  <2> QED  BY <1>1, <2>1, <2>2, <2>3, <2>4, <2>5, <2>6 DEF CallInv
<1>12. LevelInv'
  <2>1. PICK h : Heights(h) /\ PathHeights(h) /\ ImageHeights(h)
    BY <1>0 DEF LevelInv
  <2>2. Heights(h)' /\ ImageHeights(h)'
    BY <1>0, <1>2, <1>9, <1>10, <2>1, LevelsKept
  <2>3. \A i \in 1 .. Len(d) - 1 : h[d[i + 1]] < h[d[i]]
    BY <1>0, <1>2, <2>1, WayLeadsDown
  <2>4. PathHeights(h)'
    BY <1>1, <2>3 DEF PathHeights
  <2> QED  BY <2>2, <2>4 DEF LevelInv
<1>13. SoundInv'
  <2> SUFFICES ASSUME ~garbled' PROVE LeavesSound' /\ ImagesSound' /\ CombSound'
    BY DEF SoundInv
  <2>1. ~garbled /\ Real(slot) = k
    BY <1>1
  <2>2. LeavesSound /\ ImagesSound
    BY <1>0, <2>1 DEF SoundInv
  <2>3. AskedIn(EntriesOf(node[p]), asked)
    BY <1>2, <2>2 DEF LeavesSound
  <2>4. AskedIn(Pairing(keys, vals), asked')
    BY <1>2, <1>5, <2>1, <2>3, NewEntryAsked
  <2>5. AskedIn(EntriesOf(nd), asked')
    BY <1>8, <1>9, <2>4 DEF AskedIn
  <2>6. LeavesSound' /\ ImagesSound'
    BY <1>0, <1>2, <1>10, <2>2, <2>5, SoundKept
  <2>7. EntriesOf(comb') = Pairing(keys, vals)
    BY <1>1 DEF EntriesOf
  <2> QED  BY <2>4, <2>6, <2>7 DEF CombSound
<1> QED  BY <1>2, <1>10, <1>11, <1>12, <1>13 DEF IndexInv

-----------------------------------------------------------------------------
(* A page is added at the end of the file.                                 *)

Extended(nd) ==
    /\ Pages' = Pages \cup {Len(node) + 1} /\ Len(node') = Len(node) + 1 /\ Len(node) \in Nat
    /\ Pages = 1 .. Len(node)
    /\ \A q \in Pages : node'[q] = node[q]
    /\ node'[Len(node) + 1] = nd

\* A new page leaves the file, the images and the fault count as they have to be.
LEMMA PageAdded ==
    ASSUME TreeInv, ImageInv, FaultInv, NEW nd, GoodNode(nd), Children(nd) \subseteq Pages,
           node' = Append(node, nd), root' \in Pages', UNCHANGED <<mapped, backup, images, faults>>
    PROVE  Extended(nd) /\ TreeInv' /\ ImageInv' /\ FaultInv'
<1>0. /\ node \in Seq(Node) /\ Pages = 1 .. Len(node) /\ nd \in Node /\ Len(node) \in Nat
      /\ \A q \in Pages : GoodNode(node[q]) /\ Children(node[q]) \subseteq Pages
  BY DEF TreeInv, Pages, GoodNode
<1>1. /\ node' \in Seq(Node) /\ Len(node') = Len(node) + 1
      /\ \A q \in Pages : node'[q] = node[q]
      /\ node'[Len(node) + 1] = nd
  BY <1>0
<1>2. Pages' = Pages \cup {Len(node) + 1}
  <2>1. Pages' = 1 .. Len(node) + 1
    BY <1>1 DEF Pages
  <2> QED  BY <2>1, <1>0
<1>3. TreeInv'
  <2>1. ASSUME NEW q \in Pages' PROVE GoodNode(node'[q]) /\ Children(node'[q]) \subseteq Pages'
    <3>1. CASE q \in Pages
      BY <3>1, <1>0, <1>1, <1>2
    <3>2. CASE q = Len(node) + 1
      BY <3>2, <1>1, <1>2
    <3> QED  BY <1>2, <3>1, <3>2
  <2>2. mapped' \in BOOLEAN
    BY DEF TreeInv
  <2> QED  BY <1>1, <2>1, <2>2 DEF TreeInv
<1>4. ImageInv'
  <2> DEFINE I1 == [page : Pages, old : Node]  I2 == [page : Pages', old : Node]
  <2>1. images \in Seq(I1) /\ I1 \subseteq I2
    BY <1>2 DEF ImageInv
  <2>2. \A i \in 1 .. Len(images) : images[i] \in I1 /\ images[i].page \in Pages
    <3>1. \A i \in 1 .. Len(images) : images[i] \in I1
      <4> HIDE DEF I1
      <4> QED  BY <2>1
    <3> QED  BY <3>1
  <2>3. images \in Seq(I2)
    <3> HIDE DEF I1, I2
    <3> QED  BY <2>1
  <2>4. \A i \in 1 .. Len(images) : images[i].old.leaf = node'[images[i].page].leaf
    BY <1>1, <2>2 DEF ImageInv
  <2>5. \A i \in 1 .. Len(images) : GoodNode(images[i].old) /\ Children(images[i].old) \subseteq Pages'
    BY <1>2 DEF ImageInv
  <2> QED  BY <2>3, <2>4, <2>5 DEF ImageInv
<1>5. FaultInv'
  BY DEF FaultInv
<1> QED  BY <1>0, <1>1, <1>2, <1>3, <1>4, <1>5 DEF Extended

\* The new page has a level above its children's.
LEMMA LevelAdded ==
    ASSUME TreeInv, ImageInv, NEW nd, Children(nd) \subseteq Pages, Extended(nd), UNCHANGED images,
           NEW h, Heights(h), ImageHeights(h), NEW v \in 0 .. Len(node) + 1,
           \A c \in Children(nd) : h[c] < v
    PROVE  \E g : /\ Heights(g)' /\ ImageHeights(g)'
                  /\ \A q \in Pages : g[q] = h[q]
                  /\ g[Len(node) + 1] = v
<1> PICK g : g = [q \in Pages \cup {Len(node) + 1} |-> IF q = Len(node) + 1 THEN v ELSE h[q]]
  OBVIOUS
<1>0. /\ Pages' = Pages \cup {Len(node) + 1} /\ Len(node') = Len(node) + 1 /\ Len(node) \in Nat
      /\ Len(node) + 1 \notin Pages
      /\ \A q \in Pages : node'[q] = node[q]
      /\ node'[Len(node) + 1] = nd
  BY DEF Extended
<1>1. /\ \A q \in Pages : g[q] = h[q]
      /\ g[Len(node) + 1] = v
  BY <1>0
<1>2. /\ \A q \in Pages : h[q] \in Nat /\ h[q] <= Len(node)
      /\ \A q \in Pages : Children(node[q]) \subseteq Pages
      /\ \A q \in Pages : \A c \in Children(node[q]) : h[c] < h[q]
  BY DEF Heights, TreeInv
<1>3. g \in [Pages' -> Nat]
  BY <1>0, <1>2
<1>4. \A q \in Pages' : g[q] <= Len(node')
  BY <1>0, <1>1, <1>2
<1>5. ASSUME NEW q \in Pages', NEW c \in Children(node'[q]) PROVE g[c] < g[q]
  <2>1. CASE q \in Pages
    <3>1. c \in Pages /\ h[c] < h[q]
      BY <2>1, <1>0, <1>2, <1>5
    <3> QED  BY <2>1, <3>1, <1>1
  <2>2. CASE q = Len(node) + 1
    BY <2>2, <1>0, <1>1, <1>5
  <2> QED  BY <1>0, <2>1, <2>2
<1>6. Heights(g)'
  BY <1>3, <1>4, <1>5 DEF Heights
<1>7. ASSUME NEW i \in 1 .. Len(images), NEW c \in Children(images[i].old) PROVE g[c] < g[images[i].page]
  <2>1. images[i].page \in Pages /\ c \in Pages
    <3> DEFINE I1 == [page : Pages, old : Node]
    <3>1. images[i] \in I1
      <4>1. images \in Seq(I1)
        BY DEF ImageInv
      <4> HIDE DEF I1
      <4> QED  BY <4>1
    <3>2. images[i].page \in Pages
      BY <3>1
    <3> QED  BY <3>2, <1>7 DEF ImageInv
  <2>2. h[c] < h[images[i].page]
    BY <1>7 DEF ImageHeights
  <2> QED  BY <2>1, <2>2, <1>1
<1>8. ImageHeights(g)'
  BY <1>7 DEF ImageHeights
<1> QED  BY <1>1, <1>6, <1>8

\* A new page whose entries were asked for keeps the leaves sound.
LEMMA SoundExtended ==
    ASSUME TreeInv, LeavesSound, ImagesSound, NEW nd, Extended(nd), UNCHANGED <<asked, images>>,
           nd.leaf => AskedIn(EntriesOf(nd), asked)
    PROVE  LeavesSound' /\ ImagesSound'
<1>1. ASSUME NEW q \in Pages', node'[q].leaf PROVE AskedIn(EntriesOf(node'[q]), asked')
  <2>1. CASE q \in Pages
    BY <1>1, <2>1 DEF Extended, LeavesSound
  <2>2. CASE q = Len(node) + 1
    BY <1>1, <2>2 DEF Extended
  <2> QED  BY <2>1, <2>2 DEF Extended
<1>2. LeavesSound'
  BY <1>1 DEF LeavesSound
<1>3. ImagesSound'
  BY DEF ImagesSound
<1> QED  BY <1>2, <1>3

\* What a split under way has in its hands.
LEMMA SplitHalves ==
    ASSUME NEW c, GoodComb(c), NEW half, half = Len(c.keys) \div 2
    PROVE  /\ half \in 1 .. kMaxKeys - 1 /\ half \in Nat /\ c.keys[half + 1] \in Slot /\ c.vals[half + 1] \in Nat
           /\ c.vals[half + 1] \in Elems(c.vals)
           /\ Len(c.vals) = Len(c.keys) /\ c.keys \in Seq(Slot) /\ c.vals \in Seq(Nat)
           /\ half \in 0 .. Len(c.keys) /\ half + 1 \in 1 .. Len(c.keys) + 1 /\ half + 2 \in 1 .. Len(c.keys) + 1
           /\ Len(c.keys) \in 0 .. Len(c.keys)
<1>1. c.keys \in Seq(Slot) /\ c.vals \in Seq(Nat) /\ Len(c.keys) = kMaxKeys + 1 /\ Len(c.vals) = kMaxKeys + 1
  BY DEF GoodComb
<1>2. kMaxKeys \in Nat /\ kMaxKeys >= 2
  BY BTreeAssumption
<1>3. half \in 1 .. kMaxKeys - 1
  BY <1>1, <1>2
<1>4. half + 1 \in 1 .. Len(c.keys) /\ half + 1 \in 1 .. Len(c.vals)
  BY <1>1, <1>2, <1>3
<1>5. c.keys[half + 1] \in Slot
  <2> HIDE DEF Slot
  <2> QED  BY <1>1, <1>4
<1>6. c.vals[half + 1] \in Nat /\ c.vals[half + 1] \in Elems(c.vals)
  BY <1>1, <1>4 DEF Elems
<1>7. /\ half \in 0 .. Len(c.keys) /\ half + 1 \in 1 .. Len(c.keys) + 1 /\ half + 2 \in 1 .. Len(c.keys) + 1
      /\ half \in Nat /\ Len(c.keys) \in 0 .. Len(c.keys)
  BY <1>1, <1>2, <1>3
<1> QED  BY <1>1, <1>3, <1>5, <1>6, <1>7

\* The right half is a good node, of entries and children of the arrays.
LEMMA RightHalf ==
    ASSUME GoodComb(comb), pc \in {"leaf", "inner"}, NEW nd, nd = IF pc = "leaf" THEN LeafRight ELSE InnerRight
    PROVE  /\ GoodNode(nd) /\ Children(nd) \subseteq (IF pc = "leaf" THEN {} ELSE Elems(comb.vals))
           /\ nd.leaf => pc = "leaf" /\ EntriesOf(nd) \subseteq EntriesOf(comb)
<1> DEFINE ck == comb.keys  cv == comb.vals
<1>0. /\ Half \in 1 .. kMaxKeys - 1 /\ Half \in Nat /\ cv[Half + 1] \in Nat
      /\ cv[Half + 1] \in Elems(cv)
      /\ Len(cv) = Len(ck) /\ ck \in Seq(Slot) /\ cv \in Seq(Nat)
      /\ Half + 1 \in 1 .. Len(ck) + 1 /\ Half + 2 \in 1 .. Len(ck) + 1 /\ Len(ck) \in 0 .. Len(ck)
  BY SplitHalves DEF Half
<1>1. Len(ck) = kMaxKeys + 1 /\ kMaxKeys \in Nat
  BY BTreeAssumption DEF GoodComb
<1> HIDE DEF ck, cv
<1> DEFINE k1 == SubSeq(ck, Half + 1, Len(ck))  v1 == SubSeq(cv, Half + 1, Len(ck))
           k2 == SubSeq(ck, Half + 2, Len(ck))  v2 == SubSeq(cv, Half + 2, Len(ck))
<1>2. /\ k1 \in Seq(Slot) /\ Len(k1) = Len(ck) - (Half + 1) + 1
      /\ k2 \in Seq(Slot) /\ Len(k2) = Len(ck) - (Half + 2) + 1
  <2> HIDE DEF Slot
  <2>1. Half + 1 <= Len(ck) + 1 /\ Half + 2 <= Len(ck) + 1
    BY <1>0, <1>1
  <2>2. k1 \in Seq(Slot) /\ Len(k1) = Len(ck) - (Half + 1) + 1
    BY <1>0, <2>1, PartEffect
  <2>3. k2 \in Seq(Slot) /\ Len(k2) = Len(ck) - (Half + 2) + 1
    BY <1>0, <2>1, PartEffect
  <2> QED  BY <2>2, <2>3
<1>3. /\ v1 \in Seq(Nat) /\ Len(v1) = Len(ck) - (Half + 1) + 1
      /\ v2 \in Seq(Nat) /\ Len(v2) = Len(ck) - (Half + 2) + 1 /\ Elems(v2) \subseteq Elems(cv)
  <2>1. /\ Half + 1 <= Len(ck) + 1 /\ Half + 2 <= Len(ck) + 1
        /\ Half + 1 \in 1 .. Len(cv) + 1 /\ Half + 2 \in 1 .. Len(cv) + 1 /\ Len(ck) \in 0 .. Len(cv)
    BY <1>0, <1>1
  <2>2. v1 \in Seq(Nat) /\ Len(v1) = Len(ck) - (Half + 1) + 1
    BY <1>0, <2>1, PartEffect
  <2>3. v2 \in Seq(Nat) /\ Len(v2) = Len(ck) - (Half + 2) + 1
    BY <1>0, <2>1, PartEffect, SMTT(30)
  <2>4. Elems(v2) \subseteq Elems(cv)
    BY <1>0, <2>1, PartElems
  <2> QED  BY <2>2, <2>3, <2>4
<1>4. Pairing(k1, v1) \subseteq Pairing(ck, cv)
  <2>1. Half + 1 <= Len(ck) + 1
    BY <1>0, <1>1
  <2> HIDE DEF Slot
  <2> QED  BY <1>0, <2>1, PartEntries
<1>5. Len(k1) <= kMaxKeys /\ Len(k2) <= kMaxKeys /\ Len(k2) > 0
  <2> HIDE DEF k1, k2
  <2> QED  BY <1>0, <1>1, <1>2
<1>6. LeafRight = Leaf(k1, v1) /\ InnerRight = Inner(cv[Half + 1], k2, v2)
  BY <1>0 DEF LeafRight, InnerRight, Tail2, ck, cv
<1> HIDE DEF k1, v1, k2, v2
<1>7. CASE pc = "leaf"
  <2>1. nd = Leaf(k1, v1)
    BY <1>6, <1>7
  <2>2. GoodNode(nd) /\ nd.leaf /\ Children(nd) = {} /\ EntriesOf(nd) = Pairing(k1, v1)
    BY <1>2, <1>3, <1>5, <2>1, LeafMade
  <2> QED  BY <1>4, <1>7, <2>2 DEF EntriesOf, ck, cv
<1>8. CASE pc # "leaf"
  <2>1. nd = Inner(cv[Half + 1], k2, v2)
    BY <1>6, <1>8
  <2> DEFINE f == cv[Half + 1]
  <2>2. f \in Nat /\ Len(v2) = Len(k2)
    BY <1>0, <1>2, <1>3
  <2>3. nd = Inner(f, k2, v2)
    BY <2>1
  <2> HIDE DEF f
  <2>4. GoodNode(nd) /\ nd.leaf = FALSE /\ Children(nd) = {f} \cup Elems(v2)
    BY <1>2, <1>3, <1>5, <2>2, <2>3, InnerMade
  <2> QED  BY <1>0, <1>3, <1>8, <2>4 DEF cv, f
<1> QED  BY <1>7, <1>8

\* A sequence without its last element.
LEMMA FrontEffect ==
    ASSUME NEW S, NEW s \in Seq(S), Len(s) > 0
    PROVE  /\ Front(s) \in Seq(S) /\ Len(Front(s)) = Len(s) - 1
           /\ \A i \in 1 .. Len(s) - 1 : Front(s)[i] = s[i]
<1> DEFINE u == SubSeq(s, 1, Len(s) - 1)
<1>1. Len(s) \in Nat /\ 1 \in 1 .. Len(s) + 1 /\ Len(s) - 1 \in 0 .. Len(s) /\ 1 <= (Len(s) - 1) + 1
  OBVIOUS
<1>2. /\ u \in Seq(S) /\ Len(u) = (Len(s) - 1) - 1 + 1
      /\ \A i \in 1 .. Len(u) : u[i] = s[1 + i - 1]
  <2> DEFINE b == Len(s) - 1
  <2>1. b \in 0 .. Len(s) /\ 1 <= b + 1 /\ u = SubSeq(s, 1, b)
    BY <1>1
  <2> HIDE DEF b, u
  <2>2. /\ u \in Seq(S) /\ Len(u) = b - 1 + 1
        /\ \A i \in 1 .. Len(u) : u[i] = s[1 + i - 1] /\ 1 + i - 1 \in 1 .. b
    BY <1>1, <2>1, PartEffect
  <2> QED  BY <2>2 DEF b
<1>3. Front(s) = u
  BY DEF Front
<1> HIDE DEF u
<1>4. Len(u) = Len(s) - 1 /\ \A i \in 1 .. Len(s) - 1 : 1 + i - 1 = i /\ i \in 1 .. Len(u)
  BY <1>1, <1>2
<1> QED  BY <1>2, <1>3, <1>4

\* The right half in a new page.
LEMMA SplitRightStep ==
    ASSUME IndexInv, SplitRight
    PROVE  IndexInv'
<1> DEFINE nd == IF pc = "leaf" THEN LeafRight ELSE InnerRight
           n == Len(path)
           page == Len(node) + 1
<1>0. TreeInv /\ CallInv /\ AskedInv /\ ImageInv /\ FaultInv /\ SoundInv /\ LevelInv
  BY DEF IndexInv
<1>1. /\ pc \in {"leaf", "inner"} /\ node' = Append(node, nd)
      /\ split' = [sep |-> Separator, page |-> page]
      /\ path' = Front(path) /\ comb' = NoComb /\ pc' = "link"
      /\ UNCHANGED <<root, mapped, backup, images, asked, garbled, faults>>
  BY DEF SplitRight, fpwVars, pastVars
<1>2. /\ path \in Seq(Pages) /\ n > 0 /\ n \in Nat /\ GoodComb(comb)
      /\ pc = "inner" => Elems(comb.vals) \subseteq Pages
      /\ \A i \in 1 .. n : node[path[i]].leaf => pc = "leaf" /\ i = n
      /\ path[n] \in Pages
  BY <1>0, <1>1 DEF CallInv
<1>3. /\ GoodNode(nd) /\ Children(nd) \subseteq (IF pc = "leaf" THEN {} ELSE Elems(comb.vals))
      /\ nd.leaf => pc = "leaf" /\ EntriesOf(nd) \subseteq EntriesOf(comb)
  BY <1>1, <1>2, RightHalf
<1>4. Separator \in Slot
  BY <1>2, SplitHalves DEF Separator, Half
<1> HIDE DEF nd
<1>5. Children(nd) \subseteq Pages
  BY <1>1, <1>2, <1>3
<1>6. root' \in Pages'
  BY <1>0, <1>1 DEF TreeInv, Pages
<1>7. Extended(nd) /\ TreeInv' /\ ImageInv' /\ FaultInv'
  BY <1>0, <1>1, <1>3, <1>5, <1>6, PageAdded
<1>8. /\ path' \in Seq(Pages) /\ Len(path') = n - 1 /\ Len(path') \in Nat
      /\ \A i \in 1 .. n - 1 : path'[i] = path[i] /\ path[i] \in Pages
  <2>1. /\ Front(path) \in Seq(Pages) /\ Len(Front(path)) = n - 1
        /\ \A i \in 1 .. n - 1 : Front(path)[i] = path[i]
    BY <1>2, FrontEffect
  <2>2. \A i \in 1 .. n - 1 : path[i] \in Pages
    BY <1>2
  <2> QED  BY <1>1, <1>2, <2>1, <2>2
<1>9. CallInv'
  <2>1. path' \in Seq(Pages')
    <3>1. Pages \subseteq Pages'
      BY <1>7 DEF Extended
    <3> QED  BY <1>8, <3>1
  <2>2. split' \in [sep : Slot, page : Pages']
    BY <1>1, <1>4, <1>7 DEF Extended
  <2>3. ASSUME NEW i \in 1 .. Len(path') PROVE ~node'[path'[i]].leaf
    <3>1. path'[i] = path[i] /\ path[i] \in Pages /\ i \in 1 .. n /\ i # n
      BY <1>2, <1>8
    <3>2. node'[path[i]] = node[path[i]]
      BY <3>1, <1>7 DEF Extended
    <3> QED  BY <3>1, <3>2, <1>2
  <2> QED  BY <1>1, <2>1, <2>2, <2>3 DEF CallInv
<1>10. LevelInv'
  <2>1. PICK h : Heights(h) /\ PathHeights(h) /\ ImageHeights(h)
    BY <1>0 DEF LevelInv
  <2> DEFINE v == h[path[n]]
  <2>2. v \in 0 .. Len(node) + 1
    BY <1>2, <1>7, <2>1 DEF Heights, Extended
  <2>3. \A c \in Children(nd) : h[c] < v
    BY <1>1, <1>3, <2>1 DEF PathHeights
  <2> HIDE DEF v
  <2>4. PICK g : /\ Heights(g)' /\ ImageHeights(g)'
                 /\ \A q \in Pages : g[q] = h[q]
                 /\ g[page] = v
    BY <1>0, <1>1, <1>5, <1>7, <2>1, <2>2, <2>3, LevelAdded
  <2>5. ASSUME NEW i \in 1 .. Len(path') - 1 PROVE g[path'[i + 1]] < g[path'[i]]
    <3>1. i \in 1 .. n - 1 /\ i + 1 \in 1 .. n - 1
      BY <1>2, <1>8
    <3>2. h[path[i + 1]] < h[path[i]]
      BY <2>1, <3>1 DEF PathHeights
    <3> QED  BY <1>8, <2>4, <3>1, <3>2
  <2>6. ASSUME Len(path') > 0 PROVE g[split'.page] < g[path'[Len(path')]]
    <3>1. n - 1 \in 1 .. n - 1 /\ (n - 1) + 1 = n
      BY <1>2, <1>8, <2>6
    <3>2. h[path[(n - 1) + 1]] < h[path[n - 1]]
      BY <2>1, <3>1 DEF PathHeights
    <3>3. h[path[n]] < h[path[n - 1]]
      BY <3>1, <3>2
    <3>4. g[path'[Len(path')]] = h[path[n - 1]]
      BY <1>8, <2>4, <3>1
    <3>5. split'.page = page
      BY <1>1
    <3> QED  BY <2>4, <3>3, <3>4, <3>5 DEF v
  <2>7. PathHeights(g)'
    BY <1>1, <2>5, <2>6 DEF PathHeights
  <2> QED  BY <2>4, <2>7 DEF LevelInv
<1>11. SoundInv'
  <2> SUFFICES ASSUME ~garbled' PROVE LeavesSound' /\ ImagesSound' /\ CombSound'
    BY DEF SoundInv
  <2>1. LeavesSound /\ ImagesSound /\ CombSound
    BY <1>0, <1>1 DEF SoundInv
  <2>2. nd.leaf => AskedIn(EntriesOf(nd), asked)
    BY <1>3, <2>1 DEF CombSound, AskedIn
  <2>3. LeavesSound' /\ ImagesSound'
    BY <1>0, <1>1, <1>7, <2>1, <2>2, SoundExtended
  <2> QED  BY <1>1, <2>3 DEF CombSound
<1>12. AskedInv'
  BY <1>0, <1>1 DEF AskedInv
<1> QED  BY <1>7, <1>9, <1>10, <1>11, <1>12 DEF IndexInv

\* The node a half is linked into, and its arrays with the half.
LEMMA AtTheLink ==
    ASSUME IndexInv, pc = "link", path # <<>>, NEW p, p = Top
    PROVE  /\ p = path[Len(path)] /\ p \in Pages /\ node[p].leaf = FALSE /\ GoodNode(node[p])
           /\ Len(node[p].keys) \in Nat /\ Len(node[p].keys) <= kMaxKeys /\ node[p].first \in Nat
           /\ Children(node[p]) = {node[p].first} \cup Elems(node[p].vals)
           /\ split.page \in Pages
           /\ Grown(node[p], split.sep, split.page, WithSplit(node[p]).keys, WithSplit(node[p]).vals)
           /\ WithSplit(node[p]) = [keys |-> WithSplit(node[p]).keys, vals |-> WithSplit(node[p]).vals]
<1>0. TreeInv /\ CallInv
  BY DEF IndexInv
<1>1. path \in Seq(Pages) /\ Len(path) \in 1 .. Len(path)
  BY <1>0 DEF CallInv
<1>2. p = path[Len(path)] /\ p \in Pages
  BY <1>1 DEF Top, Last
<1>3. GoodNode(node[p])
  BY <1>0, <1>2 DEF TreeInv
<1>4. ~node[p].leaf
  BY <1>0, <1>1, <1>2 DEF CallInv
<1>5. /\ node[p].leaf = FALSE /\ Len(node[p].keys) \in Nat /\ Len(node[p].keys) <= kMaxKeys
      /\ node[p].first \in Nat
  BY <1>3, <1>4 DEF GoodNode, Node
<1>6. split.sep \in Slot /\ split.page \in Pages
  <2> HIDE DEF Slot
  <2> QED  BY <1>0 DEF CallInv
<1>7. split.page \in Nat
  BY <1>0, <1>6 DEF TreeInv, Pages
<1> DEFINE ci == FindChild(node[p], key)
<1>8. ci \in 0 .. Len(node[p].keys)
  BY <1>3, <1>4, ChildIsOne
<1>9. WithSplit(node[p]) = [keys |-> InsertAt(node[p].keys, ci + 1, split.sep),
                            vals |-> InsertAt(node[p].vals, ci + 1, split.page)]
  BY Zenon DEF WithSplit
<1> HIDE DEF ci
<1>10. Grown(node[p], split.sep, split.page, InsertAt(node[p].keys, ci + 1, split.sep),
             InsertAt(node[p].vals, ci + 1, split.page))
  BY <1>3, <1>6, <1>7, <1>8, NodeGrown
<1>11. Children(node[p]) = {node[p].first} \cup Elems(node[p].vals)
  BY <1>4 DEF Children
<1>12. /\ Grown(node[p], split.sep, split.page, WithSplit(node[p]).keys, WithSplit(node[p]).vals)
       /\ WithSplit(node[p]) = [keys |-> WithSplit(node[p]).keys, vals |-> WithSplit(node[p]).vals]
  BY <1>9, <1>10
<1> QED  BY <1>2, <1>3, <1>5, <1>6, <1>11, <1>12

\* insert_into_subtree: the inner node has a free slot.
LEMMA InnerInsertStep ==
    ASSUME IndexInv, InnerInsert
    PROVE  IndexInv'
<1> PICK p : p = Top
  OBVIOUS
<1> DEFINE keys == WithSplit(node[p]).keys
           vals == WithSplit(node[p]).vals
           nd == Inner(node[p].first, keys, vals)
<1>0. TreeInv /\ CallInv /\ AskedInv /\ ImageInv /\ FaultInv /\ SoundInv /\ LevelInv
  BY DEF IndexInv
<1>1. /\ pc = "link" /\ path # <<>> /\ ~Full(p) /\ Overwrite(p, nd)
      /\ pc' = "idle" /\ path' = <<>> /\ comb' = NoComb /\ split' = NoSplit
      /\ UNCHANGED <<root, mapped, asked, garbled, faults>>
  BY DEF InnerInsert, Return
<1>2. /\ p = path[Len(path)] /\ p \in Pages /\ node[p].leaf = FALSE /\ GoodNode(node[p])
      /\ Len(node[p].keys) \in Nat /\ Len(node[p].keys) <= kMaxKeys /\ node[p].first \in Nat
      /\ Children(node[p]) = {node[p].first} \cup Elems(node[p].vals)
      /\ split.page \in Pages
      /\ Grown(node[p], split.sep, split.page, keys, vals)
  BY <1>1, AtTheLink
<1>3. Len(node[p].keys) < kMaxKeys
  BY <1>1, <1>2, BTreeAssumption DEF Full
<1> HIDE DEF keys, vals
<1>4. /\ keys \in Seq(Slot) /\ Len(keys) = Len(node[p].keys) + 1
      /\ vals \in Seq(Nat) /\ Len(vals) = Len(keys)
      /\ Elems(vals) \subseteq Elems(node[p].vals) \cup {split.page}
  BY <1>2 DEF Grown
<1>5. Len(keys) <= kMaxKeys /\ Len(keys) > 0
  BY <1>2, <1>3, <1>4, BTreeAssumption, SMTT(30)
<1>6. GoodNode(nd) /\ nd.leaf = FALSE /\ Children(nd) = {node[p].first} \cup Elems(vals)
  <2> DEFINE f == node[p].first
  <2>1. nd = Inner(f, keys, vals) /\ f \in Nat
    BY <1>2
  <2> HIDE DEF f, nd
  <2>2. GoodNode(nd) /\ nd.leaf = FALSE /\ Children(nd) = {f} \cup Elems(vals)
    BY <1>4, <1>5, <2>1, InnerMade
  <2> QED  BY <2>2 DEF f
<1> HIDE DEF nd
<1>7. Children(nd) \subseteq Children(node[p]) \cup {split.page} /\ Children(nd) \subseteq Pages
  BY <1>0, <1>2, <1>4, <1>6 DEF TreeInv
<1>8. Replaced(p, nd) /\ Imaged(p) /\ TreeInv' /\ ImageInv' /\ FaultInv'
  BY <1>0, <1>1, <1>2, <1>6, <1>7, Rewritten
<1>9. CallInv'
  BY <1>1 DEF CallInv
<1>10. LevelInv'
  <2>1. PICK h : Heights(h) /\ PathHeights(h) /\ ImageHeights(h)
    BY <1>0 DEF LevelInv
  <2>2. h[split.page] < h[p]
    <3>1. Len(path) > 0
      BY <1>0, <1>1 DEF CallInv
    <3> QED  BY <1>1, <1>2, <2>1, <3>1 DEF PathHeights
  <2>3. \A c \in Children(nd) : h[c] < h[p]
    BY <1>2, <1>7, <2>1, <2>2 DEF Heights
  <2>4. Heights(h)' /\ ImageHeights(h)'
    BY <1>0, <1>2, <1>8, <2>1, <2>3, LevelsKept
  <2>5. PathHeights(h)'
    BY <1>1 DEF PathHeights
  <2> QED  BY <2>4, <2>5 DEF LevelInv
<1>11. SoundInv'
  <2> SUFFICES ASSUME ~garbled' PROVE LeavesSound' /\ ImagesSound' /\ CombSound'
    BY DEF SoundInv
  <2>1. LeavesSound /\ ImagesSound
    BY <1>0, <1>1 DEF SoundInv
  <2>2. LeavesSound' /\ ImagesSound'
    BY <1>0, <1>1, <1>2, <1>6, <1>8, <2>1, SoundKept
  <2> QED  BY <1>1, <2>2 DEF CombSound
<1>12. AskedInv'
  BY <1>0, <1>1 DEF AskedInv
<1> QED  BY <1>8, <1>9, <1>10, <1>11, <1>12 DEF IndexInv

\* The inner node is full: the left half in place.
LEMMA InnerSplitLeftStep ==
    ASSUME IndexInv, InnerSplitLeft
    PROVE  IndexInv'
<1> PICK p : p = Top
  OBVIOUS
<1> DEFINE keys == WithSplit(node[p]).keys
           vals == WithSplit(node[p]).vals
           half == Len(keys) \div 2
           nd == Inner(node[p].first, SubSeq(keys, 1, half), SubSeq(vals, 1, half))
<1>0. TreeInv /\ CallInv /\ AskedInv /\ ImageInv /\ FaultInv /\ SoundInv /\ LevelInv
  BY DEF IndexInv
<1>1. /\ pc = "link" /\ path # <<>> /\ Full(p) /\ Overwrite(p, nd) /\ comb' = WithSplit(node[p])
      /\ pc' = "inner" /\ split' = NoSplit
      /\ UNCHANGED <<root, mapped, path, asked, garbled, faults>>
  BY DEF InnerSplitLeft, pastVars
<1>2. /\ p = path[Len(path)] /\ p \in Pages /\ node[p].leaf = FALSE /\ GoodNode(node[p])
      /\ Len(node[p].keys) \in Nat /\ Len(node[p].keys) <= kMaxKeys /\ node[p].first \in Nat
      /\ Children(node[p]) = {node[p].first} \cup Elems(node[p].vals)
      /\ split.page \in Pages
      /\ Grown(node[p], split.sep, split.page, keys, vals)
      /\ WithSplit(node[p]) = [keys |-> keys, vals |-> vals]
  BY <1>1, AtTheLink
<1>3. Len(node[p].keys) = kMaxKeys
  BY <1>1, <1>2, BTreeAssumption DEF Full
<1> HIDE DEF keys, vals
<1>4. /\ keys \in Seq(Slot) /\ Len(keys) = kMaxKeys + 1
      /\ vals \in Seq(Nat) /\ Len(vals) = kMaxKeys + 1
      /\ Elems(vals) \subseteq Elems(node[p].vals) \cup {split.page}
  BY <1>2, <1>3 DEF Grown
<1>5. half \in 1 .. kMaxKeys - 1 /\ half \in 0 .. Len(keys) /\ half \in Nat
  BY <1>4, BTreeAssumption
<1> HIDE DEF half
<1>6. /\ SubSeq(keys, 1, half) \in Seq(Slot) /\ Len(SubSeq(keys, 1, half)) = half
      /\ SubSeq(vals, 1, half) \in Seq(Nat) /\ Len(SubSeq(vals, 1, half)) = half
      /\ Elems(SubSeq(vals, 1, half)) \subseteq Elems(vals)
  <2> HIDE DEF Slot
  <2>1. 1 \in 1 .. Len(keys) + 1 /\ 1 <= half + 1 /\ half - 1 + 1 = half
    BY <1>4, <1>5, BTreeAssumption
  <2>2. 1 \in 1 .. Len(vals) + 1 /\ half \in 0 .. Len(vals)
    BY <1>4, <1>5, BTreeAssumption
  <2>3. SubSeq(keys, 1, half) \in Seq(Slot) /\ Len(SubSeq(keys, 1, half)) = half
    BY <1>4, <1>5, <2>1, PartEffect
  <2>4. SubSeq(vals, 1, half) \in Seq(Nat) /\ Len(SubSeq(vals, 1, half)) = half
    BY <1>4, <2>1, <2>2, PartEffect
  <2>5. Elems(SubSeq(vals, 1, half)) \subseteq Elems(vals)
    BY <1>4, <2>1, <2>2, PartElems
  <2> QED  BY <2>3, <2>4, <2>5
<1>7. GoodNode(nd) /\ nd.leaf = FALSE /\ Children(nd) = {node[p].first} \cup Elems(SubSeq(vals, 1, half))
  <2> DEFINE f == node[p].first  hk == SubSeq(keys, 1, half)  hv == SubSeq(vals, 1, half)
  <2>1. /\ nd = Inner(f, hk, hv) /\ f \in Nat /\ hk \in Seq(Slot) /\ hv \in Seq(Nat)
        /\ Len(hv) = Len(hk) /\ Len(hk) = half
    BY <1>2, <1>6
  <2> HIDE DEF f, nd, hk, hv
  <2>2. Len(hk) <= kMaxKeys /\ Len(hk) > 0
    BY <1>5, <2>1, BTreeAssumption
  <2>3. GoodNode(nd) /\ nd.leaf = FALSE /\ Children(nd) = {f} \cup Elems(hv)
    BY <2>1, <2>2, InnerMade
  <2> QED  BY <2>3 DEF f, hv
<1> HIDE DEF nd
<1>8. /\ Children(nd) \subseteq Children(node[p]) \cup {split.page} /\ Children(nd) \subseteq Pages
      /\ Elems(vals) \subseteq Children(node[p]) \cup {split.page} /\ Elems(vals) \subseteq Pages
  BY <1>0, <1>2, <1>4, <1>6, <1>7 DEF TreeInv
<1>9. Replaced(p, nd) /\ Imaged(p) /\ TreeInv' /\ ImageInv' /\ FaultInv'
  BY <1>0, <1>1, <1>2, <1>7, <1>8, Rewritten
<1>10. comb' = [keys |-> keys, vals |-> vals] /\ comb'.vals = vals
  BY <1>1, <1>2
<1>11. CallInv'
  <2>1. GoodComb(comb')
    BY <1>4, <1>10 DEF GoodComb
  <2>2. path \in Seq(Pages) /\ Len(path) > 0
    BY <1>0, <1>1 DEF CallInv
  <2>3. \A i \in 1 .. Len(path) : path[i] \in Pages /\ ~node[path[i]].leaf
    BY <1>0, <1>1, <2>2 DEF CallInv
  <2>4. \A i \in 1 .. Len(path) : ~node'[path[i]].leaf
    BY <1>2, <1>7, <1>9, <2>3 DEF Replaced
  <2>5. node'[path[Len(path)]].leaf = FALSE
    BY <1>2, <1>7, <1>9 DEF Replaced
  <2>6. path' \in Seq(Pages') /\ Elems(comb'.vals) \subseteq Pages'
    BY <1>1, <1>8, <1>9, <1>10, <2>2 DEF Replaced
  <2> QED  BY <1>1, <2>1, <2>2, <2>4, <2>5, <2>6 DEF CallInv
<1>12. LevelInv'
  <2>1. PICK h : Heights(h) /\ PathHeights(h) /\ ImageHeights(h)
    BY <1>0 DEF LevelInv
  <2>2. h[split.page] < h[p]
    <3>1. Len(path) > 0
      BY <1>0, <1>1 DEF CallInv
    <3> QED  BY <1>1, <1>2, <2>1, <3>1 DEF PathHeights
  <2>3. \A c \in Children(node[p]) \cup {split.page} : h[c] < h[p]
    BY <1>2, <2>1, <2>2 DEF Heights
  <2>4. Heights(h)' /\ ImageHeights(h)'
    BY <1>0, <1>2, <1>8, <1>9, <2>1, <2>3, LevelsKept
  <2>5. \A c \in Elems(comb'.vals) : h[c] < h[path[Len(path)]]
    BY <1>2, <1>8, <1>10, <2>3
  <2>6. PathHeights(h)'
    BY <1>1, <2>1, <2>5 DEF PathHeights
  <2> QED  BY <2>4, <2>6 DEF LevelInv
<1>13. SoundInv'
  <2> SUFFICES ASSUME ~garbled' PROVE LeavesSound' /\ ImagesSound' /\ CombSound'
    BY DEF SoundInv
  <2>1. LeavesSound /\ ImagesSound
    BY <1>0, <1>1 DEF SoundInv
  <2>2. LeavesSound' /\ ImagesSound'
    BY <1>0, <1>1, <1>2, <1>7, <1>9, <2>1, SoundKept
  <2> QED  BY <1>1, <2>2 DEF CombSound
<1>14. AskedInv'
  BY <1>0, <1>1 DEF AskedInv
<1> QED  BY <1>9, <1>11, <1>12, <1>13, <1>14 DEF IndexInv

\* insert(): a new root above the two halves.
LEMMA NewRootStep ==
    ASSUME IndexInv, NewRoot
    PROVE  IndexInv'
<1> DEFINE nd == Inner(root, <<split.sep>>, <<split.page>>)
<1>0. TreeInv /\ CallInv /\ AskedInv /\ ImageInv /\ FaultInv /\ SoundInv /\ LevelInv
  BY DEF IndexInv
<1>1. /\ pc = "link" /\ node' = Append(node, nd) /\ root' = Len(node) + 1
      /\ pc' = "idle" /\ path' = <<>> /\ comb' = NoComb /\ split' = NoSplit
      /\ UNCHANGED <<mapped, backup, images, asked, garbled, faults>>
  BY DEF NewRoot, Return, fpwVars
<1>2. /\ split.sep \in Slot /\ split.page \in Pages /\ root \in Pages /\ Pages = 1 .. Len(node)
      /\ Len(node) \in Nat /\ node \in Seq(Node)
  <2> HIDE DEF Slot
  <2> QED  BY <1>0, <1>1 DEF CallInv, TreeInv, Pages
<1>3. GoodNode(nd) /\ nd.leaf = FALSE /\ Children(nd) = {root, split.page}
  <2> DEFINE sk == <<split.sep>>  sv == <<split.page>>
  <2>1. /\ sk \in Seq(Slot) /\ sv \in Seq(Nat) /\ Len(sv) = Len(sk) /\ Len(sk) <= kMaxKeys /\ Len(sk) > 0
    <3> HIDE DEF Slot
    <3> QED  BY <1>2, BTreeAssumption
  <2>2. Elems(sv) = {split.page} /\ nd = Inner(root, sk, sv) /\ root \in Nat
    BY <1>2 DEF Elems
  <2> HIDE DEF sk, sv, nd
  <2>3. GoodNode(nd) /\ nd.leaf = FALSE /\ Children(nd) = {root} \cup Elems(sv)
    BY <2>1, <2>2, InnerMade
  <2> QED  BY <2>2, <2>3
<1> HIDE DEF nd
<1>4. root' \in Pages'
  <2>1. Len(node') = Len(node) + 1 /\ Pages' = 1 .. Len(node')
    <3>1. nd \in Node /\ node' \in Seq(Node)
      BY <1>1, <1>2, <1>3 DEF GoodNode
    <3> QED  BY <3>1, <1>1, <1>2 DEF Pages
  <2> QED  BY <1>1, <1>2, <2>1
<1>5. Extended(nd) /\ TreeInv' /\ ImageInv' /\ FaultInv'
  <2>1. Children(nd) \subseteq Pages
    BY <1>2, <1>3
  <2> QED  BY <1>0, <1>1, <1>3, <1>4, <2>1, PageAdded
<1>6. CallInv'
  BY <1>1 DEF CallInv
<1>7. LevelInv'
  <2>1. PICK h : Heights(h) /\ PathHeights(h) /\ ImageHeights(h)
    BY <1>0 DEF LevelInv
  <2> DEFINE v == Len(node) + 1
  <2>2. v \in 0 .. Len(node) + 1 /\ Children(nd) \subseteq Pages
    BY <1>2, <1>3
  <2>3. \A c \in Children(nd) : h[c] < v
    BY <1>2, <2>1, <2>2 DEF Heights
  <2>4. PICK g : Heights(g)' /\ ImageHeights(g)'
    <3> HIDE DEF v
    <3> QED  BY <1>0, <1>1, <1>5, <2>1, <2>2, <2>3, LevelAdded
  <2>5. PathHeights(g)'
    BY <1>1 DEF PathHeights
  <2> QED  BY <2>4, <2>5 DEF LevelInv
<1>8. SoundInv'
  <2> SUFFICES ASSUME ~garbled' PROVE LeavesSound' /\ ImagesSound' /\ CombSound'
    BY DEF SoundInv
  <2>1. LeavesSound /\ ImagesSound
    BY <1>0, <1>1 DEF SoundInv
  <2>2. LeavesSound' /\ ImagesSound'
    BY <1>0, <1>1, <1>3, <1>5, <2>1, SoundExtended
  <2> QED  BY <1>1, <2>2 DEF CombSound
<1>9. AskedInv'
  BY <1>0, <1>1 DEF AskedInv
<1> QED  BY <1>5, <1>6, <1>7, <1>8, <1>9 DEF IndexInv

\* The root cannot be made, or a backup begins or ends: the nodes stay.
LEMMA QuietStep ==
    ASSUME IndexInv, NewRootFails \/ BackupBegin \/ BackupEnd
    PROVE  IndexInv'
<1>0. TreeInv /\ CallInv /\ AskedInv /\ ImageInv /\ FaultInv /\ SoundInv /\ LevelInv
  BY DEF IndexInv
<1>1. /\ UNCHANGED <<node, root, images, asked, garbled>> /\ mapped' \in BOOLEAN
      /\ \/ UNCHANGED <<pc, path, comb, split>>
         \/ pc' = "idle" /\ path' = <<>> /\ comb' = NoComb /\ split' = NoSplit
  <2>1. CASE NewRootFails
    BY <2>1 DEF NewRootFails, Return, fpwVars
  <2>2. CASE BackupBegin \/ BackupEnd
    BY <1>0, <2>2 DEF BackupBegin, BackupEnd, treeVars, callVars, pastVars, TreeInv
  <2> QED  BY <2>1, <2>2
<1>2. FaultInv'
  <2>1. CASE NewRootFails
    BY <1>0, <2>1 DEF NewRootFails, fpwVars, FaultInv
  <2>2. CASE BackupBegin
    BY <1>0, <2>2 DEF BackupBegin, FaultInv
  <2>3. CASE BackupEnd
    BY <1>0, <2>3 DEF BackupEnd, FaultInv
  <2> QED  BY <2>1, <2>2, <2>3
<1>3. TreeInv' /\ ImageInv' /\ AskedInv'
  BY <1>0, <1>1 DEF TreeInv, ImageInv, AskedInv, Pages
<1>4. CallInv'
  <2>1. CASE UNCHANGED <<pc, path, comb, split>>
    BY <1>0, <1>1, <2>1 DEF CallInv, Pages
  <2>2. CASE pc' = "idle" /\ path' = <<>> /\ comb' = NoComb /\ split' = NoSplit
    BY <2>2 DEF CallInv
  <2> QED  BY <1>1, <2>1, <2>2
<1>5. LevelInv'
  <2>1. PICK h : Heights(h) /\ PathHeights(h) /\ ImageHeights(h)
    BY <1>0 DEF LevelInv
  <2>2. Heights(h)' /\ ImageHeights(h)'
    BY <1>1, <2>1 DEF Heights, ImageHeights, Pages
  <2>3. PathHeights(h)'
    BY <1>1, <2>1 DEF PathHeights
  <2> QED  BY <2>2, <2>3 DEF LevelInv
<1>6. SoundInv'
  BY <1>0, <1>1 DEF SoundInv, LeavesSound, ImagesSound, CombSound, Pages
<1> QED  BY <1>2, <1>3, <1>4, <1>5, <1>6 DEF IndexInv

\* The images written back: each node is the one it was, or an older image.
LEMMA RestoredNodes ==
    ASSUME ImageInv, NEW n \in 0 .. Len(images), NEW p \in Pages
    PROVE  \/ Restored(n)[p] = node[p]
           \/ \E i \in 1 .. Len(images) : images[i].page = p /\ Restored(n)[p] = images[i].old
<1> DEFINE of == {i \in 1 .. n : images[i].page = p}
           last == CHOOSE i \in of : \A j \in of : j <= i
<1>0. Len(images) \in Nat /\ n \in Nat
  BY DEF ImageInv
<1>1. Restored(n)[p] = IF of = {} THEN node[p] ELSE images[last].old
  BY Zenon DEF Restored
<1>2. CASE of = {}
  BY <1>1, <1>2
<1>3. CASE of # {}
  <2>1. \E i \in of : \A j \in of : j <= i
    <3>1. of \in SUBSET Nat /\ \A j \in of : j <= n
      BY <1>0
    <3> HIDE DEF of
    <3> QED  BY <1>0, <1>3, <3>1, GreatestExists
  <2>2. last \in of
    <3> HIDE DEF of
    <3> QED  BY <2>1, Zenon
  <2> HIDE DEF last
  <2>3. last \in 1 .. Len(images) /\ images[last].page = p
    BY <1>0, <2>2
  <2> QED  BY <1>1, <1>3, <2>3
<1> QED  BY <1>2, <1>3

\* The process ends, and the file is opened again.
LEMMA CrashStep ==
    ASSUME IndexInv, Crash
    PROVE  IndexInv'
<1>0. TreeInv /\ AskedInv /\ ImageInv /\ FaultInv /\ SoundInv /\ LevelInv
  BY DEF IndexInv
<1>1. PICK n \in 0 .. Len(images) : node' = Restored(n)
  BY DEF Crash
<1>2. /\ mapped' = TRUE /\ pc' = "idle" /\ path' = <<>> /\ comb' = NoComb /\ split' = NoSplit
      /\ backup' = FALSE /\ images' = <<>> /\ faults' = faults + 1
      /\ UNCHANGED <<root, asked, garbled>>
  BY DEF Crash
<1>3. DOMAIN node' = Pages /\ Pages' = Pages
  BY <1>1 DEF Restored, Pages
<1>4. \A p \in Pages : \/ node'[p] = node[p]
                       \/ \E i \in 1 .. Len(images) : images[i].page = p /\ node'[p] = images[i].old
  BY <1>0, <1>1, RestoredNodes
<1>5. \A p \in Pages : GoodNode(node'[p]) /\ Children(node'[p]) \subseteq Pages
  BY <1>0, <1>4 DEF TreeInv, ImageInv
<1>6. node' \in Seq(Node) /\ Len(node') = Len(node)
  <2>1. Pages = 1 .. Len(node) /\ Len(node) \in Nat
    BY <1>0 DEF TreeInv, Pages
  <2>2. \A p \in 1 .. Len(node) : node'[p] \in Node
    BY <1>5, <2>1 DEF GoodNode
  <2>3. node' = [p \in 1 .. Len(node) |-> node'[p]]
    <3>1. node' = [p \in Pages |-> node'[p]]
      BY <1>1 DEF Restored
    <3> QED  BY <2>1, <3>1
  <2>4. [p \in 1 .. Len(node) |-> node'[p]] \in Seq(Node)
    BY <2>1, <2>2
  <2>5. Len([p \in 1 .. Len(node) |-> node'[p]]) = Len(node)
    BY <2>1
  <2> QED  BY <2>3, <2>4, <2>5
<1>7. TreeInv'
  BY <1>0, <1>2, <1>3, <1>5, <1>6 DEF TreeInv
<1>8. CallInv'
  BY <1>2 DEF CallInv
<1>9. ImageInv' /\ FaultInv' /\ AskedInv'
  <2>1. images' \in Seq([page : Pages', old : Node]) /\ Len(images') = 0
    BY <1>2
  <2>4. ImageInv'
    BY <2>1 DEF ImageInv
  <2>2. FaultInv'
    <3>1. faults' \in Nat /\ faults' > 0
      BY <1>0, <1>2 DEF FaultInv
    <3> QED  BY <1>2, <3>1 DEF FaultInv
  <2>3. AskedInv'
    BY <1>0, <1>2 DEF AskedInv
  <2> QED  BY <2>2, <2>3, <2>4
<1>10. LevelInv'
  <2>1. PICK h : Heights(h) /\ PathHeights(h) /\ ImageHeights(h)
    BY <1>0 DEF LevelInv
  <2>2. ASSUME NEW p \in Pages, NEW c \in Children(node'[p]) PROVE h[c] < h[p]
    BY <1>4, <2>1, <2>2 DEF Heights, ImageHeights
  <2>3. Heights(h)'
    BY <1>3, <1>6, <2>1, <2>2 DEF Heights
  <2>4. PathHeights(h)' /\ ImageHeights(h)'
    BY <1>2 DEF PathHeights, ImageHeights
  <2> QED  BY <2>3, <2>4 DEF LevelInv
<1>11. SoundInv'
  <2> SUFFICES ASSUME ~garbled' PROVE LeavesSound' /\ ImagesSound' /\ CombSound'
    BY DEF SoundInv
  <2>1. LeavesSound /\ ImagesSound
    BY <1>0, <1>2 DEF SoundInv
  <2>2. \A p \in Pages : node'[p].leaf => AskedIn(EntriesOf(node'[p]), asked)
    BY <1>4, <2>1 DEF LeavesSound, ImagesSound
  <2>3. LeavesSound'
    BY <1>2, <1>3, <2>2 DEF LeavesSound
  <2>4. ImagesSound' /\ CombSound'
    BY <1>2 DEF ImagesSound, CombSound
  <2> QED  BY <2>3, <2>4
<1> QED  BY <1>7, <1>8, <1>9, <1>10, <1>11 DEF IndexInv

-----------------------------------------------------------------------------
(* The theorems.                                                           *)

\* The invariant holds of the empty tree BTree::create makes.
LEMMA IndexInvInit == Init => IndexInv
<1> SUFFICES ASSUME Init PROVE IndexInv
  OBVIOUS
<1> DEFINE nd == Leaf(<<>>, <<>>)
<1>1. /\ node = <<nd>> /\ root = 1 /\ mapped = TRUE /\ pc = "idle" /\ path = <<>> /\ comb = NoComb
      /\ split = NoSplit /\ backup = FALSE /\ images = <<>> /\ asked = <<>> /\ faults = 0
  BY DEF Init
<1>2. GoodNode(nd) /\ nd.leaf /\ Children(nd) = {} /\ EntriesOf(nd) = Pairing(<<>>, <<>>)
  <2> DEFINE e == <<>>
  <2>1. e \in Seq(Slot) /\ e \in Seq(Nat) /\ Len(e) = 0 /\ Len(e) <= kMaxKeys /\ nd = Leaf(e, e)
    BY BTreeAssumption
  <2> HIDE DEF e, nd
  <2>2. GoodNode(nd) /\ nd.leaf /\ Children(nd) = {} /\ EntriesOf(nd) = Pairing(e, e)
    BY <2>1, LeafMade
  <2> QED  BY <2>2 DEF e
<1> HIDE DEF nd
<1>3. Pages = {1} /\ node[1] = nd /\ Len(node) = 1 /\ node \in Seq(Node)
  BY <1>1, <1>2 DEF Pages, GoodNode
<1>4. TreeInv
  BY <1>1, <1>2, <1>3 DEF TreeInv
<1>5. CallInv
  BY <1>1 DEF CallInv
<1>6. AskedInv
  BY <1>1, BTreeAssumption DEF AskedInv
<1>7. ImageInv
  BY <1>1 DEF ImageInv
<1>8. FaultInv
  BY <1>1 DEF FaultInv
<1>9. LevelInv
  <2> DEFINE h == [p \in Pages |-> 0]
  <2>1. Heights(h)
    BY <1>2, <1>3 DEF Heights
  <2>2. PathHeights(h) /\ ImageHeights(h)
    BY <1>1 DEF PathHeights, ImageHeights
  <2> QED  BY <2>1, <2>2 DEF LevelInv
<1>10. SoundInv
  <2>1. AskedIn(EntriesOf(nd), asked)
    BY <1>2 DEF AskedIn, Pairing
  <2> QED  BY <1>1, <1>3, <2>1 DEF SoundInv, LeavesSound, ImagesSound, CombSound
<1> QED  BY <1>4, <1>5, <1>6, <1>7, <1>8, <1>9, <1>10 DEF IndexInv

\* Every step of an insertion, a backup or a crash preserves it.
LEMMA IndexInvNext == IndexInv /\ [Next]_vars => IndexInv'
<1> SUFFICES ASSUME IndexInv, [Next]_vars PROVE IndexInv'
  OBVIOUS
<1>1. ASSUME NEW k \in Keys, NEW d, d = Descent(k), DescendFails(k, d) \/ LeafInsert(k, d) \/ LeafSplitLeft(k, d)
      PROVE  IndexInv'
  BY <1>1, DescendFailsStep, LeafInsertStep, LeafSplitLeftStep
<1>2. CASE SplitRight
  BY <1>2, SplitRightStep
<1>3. CASE InnerInsert
  BY <1>3, InnerInsertStep
<1>4. CASE InnerSplitLeft
  BY <1>4, InnerSplitLeftStep
<1>5. CASE NewRoot
  BY <1>5, NewRootStep
<1>6. CASE NewRootFails \/ BackupBegin \/ BackupEnd
  BY <1>6, QuietStep
<1>7. CASE Crash
  BY <1>7, CrashStep
<1>8. CASE UNCHANGED vars
  <2>1. UNCHANGED <<node, root, mapped, pc, path, comb, split, backup, images, asked, garbled, faults>>
    BY <1>8 DEF vars, treeVars, callVars, fpwVars, pastVars
  <2>2. TreeInv' /\ CallInv' /\ AskedInv' /\ ImageInv' /\ FaultInv'
    BY <2>1 DEF IndexInv, TreeInv, CallInv, AskedInv, ImageInv, FaultInv, Pages
  <2>3. LevelInv'
    BY <2>1 DEF IndexInv, LevelInv, Heights, PathHeights, ImageHeights, Pages
  <2>4. SoundInv'
    BY <2>1 DEF IndexInv, SoundInv, LeavesSound, ImagesSound, CombSound, Pages
  <2> QED  BY <2>2, <2>3, <2>4 DEF IndexInv
<1> QED  BY <1>1, <1>2, <1>3, <1>4, <1>5, <1>6, <1>7, <1>8 DEF Next

\* So it holds in every state.
LEMMA IndexInvariant == Spec => []IndexInv
BY IndexInvInit, IndexInvNext, PTL DEF Spec

\* The invariant implies the types.
LEMMA IndexTypes == IndexInv => TypeOK
<1> SUFFICES ASSUME IndexInv PROVE TypeOK
  OBVIOUS
<1>0. TreeInv /\ CallInv /\ AskedInv /\ FaultInv
  BY DEF IndexInv
<1>1. Pages = 1 .. Len(node) /\ Len(node) \in Nat
  BY <1>0 DEF TreeInv, Pages
<1>2. ASSUME NEW p \in Pages
      PROVE  /\ node[p].leaf \in BOOLEAN /\ node[p].first \in 0 .. Len(node) + 1
             /\ Len(node[p].keys) <= kMaxKeys
             /\ Len(node[p].vals) = Len(node[p].keys)
             /\ Range(node[p].keys) \subseteq Slot
             /\ ~node[p].leaf => node[p].keys # <<>>
  <2>1. GoodNode(node[p]) /\ Children(node[p]) \subseteq Pages
    BY <1>0 DEF TreeInv
  <2>2. node[p].leaf \in BOOLEAN /\ node[p].keys \in Seq(Slot)
    BY <2>1 DEF GoodNode, Node
  <2>3. node[p].first \in 0 .. Len(node) + 1
    <3>1. CASE node[p].leaf
      BY <1>1, <2>1, <3>1 DEF GoodNode
    <3>2. CASE ~node[p].leaf
      <4>1. node[p].first \in Pages
        BY <2>1, <3>2 DEF Children
      <4> QED  BY <1>1, <4>1
    <3> QED  BY <3>1, <3>2
  <2>4. Range(node[p].keys) \subseteq Slot
    <3> HIDE DEF Slot
    <3> QED  BY <2>2 DEF Range
  <2>5. ~node[p].leaf => node[p].keys # <<>>
    BY <2>1 DEF GoodNode
  <2> QED  BY <2>1, <2>2, <2>3, <2>4, <2>5 DEF GoodNode
<1>3. root \in Pages /\ mapped \in BOOLEAN /\ Len(asked) \in 0 .. MaxInserts
  BY <1>0 DEF TreeInv, AskedInv
<1>4. Range(path) \subseteq Pages
  <2>1. path \in Seq(Pages)
    BY <1>0 DEF CallInv
  <2> QED  BY <2>1 DEF Range
<1>5. pc \in {"idle", "leaf", "inner", "link"}
  BY <1>0 DEF CallInv
<1>6. (pc \in {"leaf", "inner"}) <=> (comb # NoComb)
  <2>1. ASSUME pc \in {"leaf", "inner"} PROVE comb # NoComb
    <3>1. Len(comb.keys) = kMaxKeys + 1
      BY <1>0, <2>1 DEF CallInv, GoodComb
    <3>2. kMaxKeys + 1 # 0
      BY BTreeAssumption
    <3> QED  BY <3>1, <3>2 DEF NoComb
  <2> QED  BY <1>0, <2>1 DEF CallInv
<1>7. (pc = "link") <=> (split # NoSplit)
  <2>1. ASSUME pc = "link" PROVE split # NoSplit
    <3>1. split.page \in Pages
      BY <1>0, <2>1 DEF CallInv
    <3>2. 0 \notin Pages
      BY <1>1
    <3> QED  BY <3>1, <3>2 DEF NoSplit
  <2> QED  BY <1>0, <2>1 DEF CallInv
<1>8. images # <<>> => faults > 0
  BY <1>0 DEF FaultInv
<1> QED  BY <1>2, <1>3, <1>4, <1>5, <1>6, <1>7, <1>8 DEF TypeOK

\* No step of an insertion, no crash and no image written back leaves a node
\* with more entries than slots, an inner node without any, or a root and a
\* path that are not in the file (insert_into_leaf_node, insert_into_subtree).
THEOREM BTreeTypeCorrect == Spec => []TypeOK
BY IndexInvariant, IndexTypes, PTL

\* A key without zero bytes is all of itself.
LEMMA KeyIsReal ==
    ASSUME NEW k \in Keys
    PROVE  Real(k) = k
<1>1. k \in Seq(Nat \ {0})
  BY BTreeAssumption
<1>2. ~\E i \in DOMAIN k : k[i] = 0
  BY <1>1
<1> QED  BY <1>2 DEF Real

\* What search takes from a leaf are values of entries with that key.
LEMMA HitsAreEntries ==
    ASSUME NEW nd, GoodNode(nd), NEW k \in Keys, NEW r \in LeafHits(nd, k)
    PROVE  \E e \in EntriesOf(nd) : e[2] = r /\ Real(e[1]) = k
<1> DEFINE idx == SearchKey(nd, k)
<1>1. \/ idx = -1
      \/ idx \in 0 .. Len(nd.keys) - 1
  BY SearchKeyEnds
<1>2. r \in IF idx < 0 THEN {}
            ELSE {nd.vals[i] : i \in {j \in idx + 1 .. Len(nd.keys) :
                                         \A m \in idx + 1 .. j : Same(k, nd.keys[m])}}
  BY DEF LeafHits
<1> HIDE DEF idx
<1>3. idx \in 0 .. Len(nd.keys) - 1
  BY <1>1, <1>2
<1>4. Len(nd.keys) \in Nat
  BY DEF GoodNode, Node
<1>5. PICK i \in idx + 1 .. Len(nd.keys) : r = nd.vals[i] /\ \A m \in idx + 1 .. i : Same(k, nd.keys[m])
  BY <1>2, <1>3
<1>6. i \in idx + 1 .. i /\ i \in 1 .. Len(nd.keys)
  BY <1>3, <1>4, <1>5
<1>7. Real(nd.keys[i]) = k
  BY <1>5, <1>6, KeyIsReal DEF Same
<1> DEFINE e == <<nd.keys[i], nd.vals[i]>>
<1>8. e \in EntriesOf(nd) /\ e[1] = nd.keys[i] /\ e[2] = nd.vals[i]
  BY <1>6 DEF EntriesOf, Pairing
<1> HIDE DEF e
<1> QED  BY <1>5, <1>7, <1>8

\* The invariant implies that a search is sound: it ends at a leaf, and the
\* entries of a leaf were asked for.
LEMMA SoundFromInv == IndexInv => SearchSound
<1> SUFFICES ASSUME IndexInv, pc = "idle", ~garbled, NEW k \in Keys, NEW r \in Search(k)
             PROVE  r < Len(asked) /\ asked[r + 1] = k
  BY DEF SearchSound
<1>0. TreeInv /\ LeavesSound /\ LevelInv /\ AskedInv
  BY DEF IndexInv, SoundInv
<1> PICK p : p = Last(Descent(k))
  OBVIOUS
<1>1. Readable(p) /\ r \in LeafHits(node[p], k)
  <2>1. r \in IF Readable(p) THEN LeafHits(node[p], k) ELSE {}
    BY DEF Search
  <2> QED  BY <2>1
<1>2. PICK h : Heights(h)
  BY <1>0 DEF LevelInv
<1>3. WayFrom(Descent(k), root, k)
  BY <1>0, <1>1, <1>2, DescentIsWay DEF Readable
<1>4. p \in Pages /\ node[p].leaf
  BY <1>3 DEF WayFrom, Last
<1>5. PICK e \in EntriesOf(node[p]) : e[2] = r /\ Real(e[1]) = k
  BY <1>0, <1>1, <1>4, HitsAreEntries DEF TreeInv
<1>6. r \in 0 .. Len(asked) - 1 /\ asked[r + 1] = k
  BY <1>0, <1>4, <1>5 DEF LeavesSound, AskedIn
<1>7. Len(asked) \in Nat
  BY <1>0 DEF AskedInv
<1> QED  BY <1>6, <1>7

\* BTree::search returns no row that was not inserted under that key, for any
\* tree, after any number of crashes, failed resizes and restored images, as
\* long as every slot holds its key.
THEOREM SearchesSound == Spec => []SearchSound
BY IndexInvariant, SoundFromInv, PTL

-----------------------------------------------------------------------------
(* The order of the keys.                                                  *)

\* Strings of bytes, and those without a zero byte, which are what a slot or a
\* key stands for.
Strings == Seq(Nat)
Words == Seq(Nat \ {0})

\* The lexicographic order that Below is, on what its arguments stand for.
Precedes(x, y) ==
    \E i \in 1 .. Len(y) :
        /\ \A j \in 1 .. i - 1 : j <= Len(x) /\ x[j] = y[j]
        /\ i > Len(x) \/ x[i] < y[i]

\* real_len stops at the first zero byte.
LEMMA RealEffect ==
    ASSUME NEW s \in Strings
    PROVE  /\ Real(s) \in Words /\ Len(Real(s)) \in 0 .. Len(s)
           /\ \A i \in 1 .. Len(Real(s)) : Real(s)[i] = s[i] /\ s[i] # 0
           /\ Len(Real(s)) < Len(s) => s[Len(Real(s)) + 1] = 0
<1>0. Len(s) \in Nat /\ \A i \in 1 .. Len(s) : s[i] \in Nat
  BY DEF Strings
<1> DEFINE Z == {i \in 1 .. Len(s) : s[i] = 0}
<1>1. CASE Z = {}
  <2>1. Real(s) = s
    BY <1>1 DEF Real, Strings
  <2>2. \A i \in 1 .. Len(s) : s[i] # 0 /\ s[i] \in Nat \ {0}
    BY <1>0, <1>1
  <2>3. s \in Words
    BY <1>0, <2>2 DEF Words, Strings
  <2> QED  BY <1>0, <2>1, <2>2, <2>3
<1>2. CASE Z # {}
  <2> DEFINE m == CHOOSE i \in Z : \A j \in Z : i =< j
  <2>1. Z \in SUBSET Nat
    BY <1>0
  <2>2. m \in Z /\ \A j \in Z : m <= j
    BY <2>1, <1>2, ChooseLeast
  <2>3. Real(s) = SubSeq(s, 1, m - 1)
    <3>1. \E i \in DOMAIN s : s[i] = 0
      BY <1>2 DEF Strings
    <3>2. Real(s) = SubSeq(s, 1, SelectInSeq(s, LAMBDA b : b = 0) - 1)
      BY <3>1 DEF Real
    <3>3. SelectInSeq(s, LAMBDA b : b = 0) = m
      BY <1>2 DEF SelectInSeq, Min
    <3> QED  BY <3>2, <3>3
  <2> HIDE DEF m
  <2>4. m \in 1 .. Len(s) /\ s[m] = 0
    BY <2>2
  <2>5. m - 1 \in 0 .. Len(s) /\ 1 \in 1 .. Len(s) + 1 /\ 1 <= (m - 1) + 1
    BY <2>4, <1>0
  <2>6. Len(Real(s)) = m - 1 /\ \A i \in 1 .. Len(Real(s)) : Real(s)[i] = s[i]
    <3>1. /\ Len(SubSeq(s, 1, m - 1)) = (m - 1) - 1 + 1
          /\ \A i \in 1 .. Len(SubSeq(s, 1, m - 1)) : SubSeq(s, 1, m - 1)[i] = s[1 + i - 1]
      BY <2>5, PartEffect DEF Strings
    <3>2. Len(Real(s)) = m - 1 /\ \A i \in 1 .. Len(Real(s)) : Real(s)[i] = s[1 + i - 1]
      BY <3>1, <2>3, <2>4
    <3>3. \A i \in 1 .. Len(Real(s)) : 1 + i - 1 = i
      BY <3>2, <2>4
    <3> QED  BY <3>2, <3>3
  <2>7. \A i \in 1 .. m - 1 : i \in 1 .. Len(s) /\ ~(m <= i)
    BY <2>4, <1>0
  <2>8. \A i \in 1 .. m - 1 : s[i] # 0 /\ s[i] \in Nat
    BY <2>7, <2>2, <1>0
  <2>9. Real(s) \in Words
    <3>1. Real(s) = [i \in 1 .. m - 1 |-> s[i]]
      BY <2>3, <2>6, <2>4
    <3>2. m - 1 \in Nat
      BY <2>4
    <3> QED  BY <3>1, <3>2, <2>8 DEF Words
  <2> QED  BY <2>4, <2>6, <2>8, <2>9, <1>0
<1> QED  BY <1>1, <1>2

\* A word stands for itself.
LEMMA WordIsReal ==
    ASSUME NEW w \in Words
    PROVE  w \in Strings /\ Real(w) = w
<1>1. w \in Strings
  BY DEF Words, Strings
<1>2. ~\E i \in DOMAIN w : w[i] = 0
  BY DEF Words
<1> QED  BY <1>1, <1>2 DEF Real

\* The keys are words, and the slots strings.
LEMMA Stringed == Keys \subseteq Words /\ Words \subseteq Strings /\ Slot \subseteq Strings
<1>1. Slot \subseteq Strings
  BY BTreeAssumption DEF Slot, Strings
<1> QED  BY <1>1, WordIsReal, BTreeAssumption DEF Words

\* Precedes is a strict order.
LEMMA PrecedesTwice ==
    ASSUME NEW x \in Words, NEW y \in Words, NEW z \in Words, Precedes(x, y), Precedes(y, z)
    PROVE  Precedes(x, z)
<1>0. /\ Len(x) \in Nat /\ Len(y) \in Nat /\ Len(z) \in Nat
      /\ \A n \in 1 .. Len(x) : x[n] \in Nat
      /\ \A n \in 1 .. Len(y) : y[n] \in Nat
      /\ \A n \in 1 .. Len(z) : z[n] \in Nat
  BY DEF Words
<1>1. PICK i \in 1 .. Len(y) : /\ \A j \in 1 .. i - 1 : j <= Len(x) /\ x[j] = y[j]
                               /\ i > Len(x) \/ x[i] < y[i]
  BY DEF Precedes
<1>2. PICK j \in 1 .. Len(z) : /\ \A m \in 1 .. j - 1 : m <= Len(y) /\ y[m] = z[m]
                               /\ j > Len(y) \/ y[j] < z[j]
  BY DEF Precedes
<1>3. CASE i < j
  <2>1. i \in 1 .. j - 1 /\ i \in 1 .. Len(z)
    BY <1>0, <1>1, <1>2, <1>3
  <2>2. \A m \in 1 .. i - 1 : m \in 1 .. j - 1
    BY <1>3, <1>1, <1>2
  <2>3. \A m \in 1 .. i - 1 : m <= Len(x) /\ x[m] = z[m]
    BY <2>2, <1>1, <1>2
  <2>4. y[i] = z[i]
    BY <2>1, <1>2
  <2> QED  BY <2>1, <2>3, <2>4, <1>1 DEF Precedes
<1>4. CASE j < i
  <2>1. j \in 1 .. i - 1 /\ j \in 1 .. Len(y) /\ j \in 1 .. Len(x)
    BY <1>0, <1>1, <1>2, <1>4
  <2>2. \A m \in 1 .. j - 1 : m \in 1 .. i - 1
    BY <1>4, <1>1, <1>2
  <2>3. \A m \in 1 .. j - 1 : m <= Len(x) /\ x[m] = z[m]
    BY <2>2, <1>1, <1>2
  <2>4. x[j] = y[j] /\ y[j] < z[j]
    BY <2>1, <1>0, <1>1, <1>2
  <2>5. x[j] < z[j]
    BY <2>4
  <2> QED  BY <2>3, <2>5 DEF Precedes
<1>5. CASE i = j
  <2>1. y[i] < z[i] /\ y[i] \in Nat /\ z[i] \in Nat
    BY <1>0, <1>1, <1>2, <1>5
  <2>2. \A m \in 1 .. i - 1 : m <= Len(x) /\ x[m] = z[m]
    BY <1>1, <1>2, <1>5
  <2>3. i > Len(x) \/ x[i] < z[i]
    <3>1. CASE i > Len(x)
      BY <3>1
    <3>2. CASE ~(i > Len(x))
      <4>1. i \in 1 .. Len(x)
        BY <3>2, <1>0, <1>1
      <4>2. x[i] < y[i] /\ x[i] \in Nat
        BY <4>1, <3>2, <1>0, <1>1
      <4> QED  BY <4>2, <2>1
    <3> QED  BY <3>1, <3>2
  <2> QED  BY <1>5, <2>2, <2>3 DEF Precedes
<1> QED  BY <1>0, <1>1, <1>2, <1>3, <1>4, <1>5

\* No word precedes itself, and of two words one precedes the other.
LEMMA PrecedesTotal ==
    ASSUME NEW x \in Words, NEW y \in Words
    PROVE  ~Precedes(x, x) /\ (x = y \/ Precedes(x, y) \/ Precedes(y, x))
<1>0. /\ Len(x) \in Nat /\ Len(y) \in Nat
      /\ \A n \in 1 .. Len(x) : x[n] \in Nat
      /\ \A n \in 1 .. Len(y) : y[n] \in Nat
  BY DEF Words
<1>1. ~Precedes(x, x)
  <2> SUFFICES ASSUME NEW i \in 1 .. Len(x), i > Len(x) \/ x[i] < x[i] PROVE FALSE
    BY DEF Precedes
  <2> QED  BY <1>0
<1> DEFINE D == {i \in 1 .. Len(x) + 1 : i > Len(x) \/ i > Len(y) \/ x[i] # y[i]}
<1>2. Len(x) + 1 \in D /\ D \in SUBSET Nat
  BY <1>0
<1>3. PICK i \in D : \A j \in D : i <= j
  BY <1>2, LeastExists
<1>4. i \in 1 .. Len(x) + 1 /\ (i > Len(x) \/ i > Len(y) \/ x[i] # y[i])
  BY <1>3
<1>5. \A j \in 1 .. i - 1 : j \in 1 .. Len(x) /\ j \in 1 .. Len(y) /\ x[j] = y[j]
  <2> SUFFICES ASSUME NEW j \in 1 .. i - 1
               PROVE  j \in 1 .. Len(x) /\ j \in 1 .. Len(y) /\ x[j] = y[j]
    OBVIOUS
  <2>1. ~(i <= j) /\ j \in 1 .. Len(x) + 1
    BY <1>4, <1>0
  <2>2. j \notin D
    BY <2>1, <1>3
  <2> QED  BY <2>1, <2>2, <1>0
<1> HIDE DEF D
<1>6. CASE i > Len(x) /\ i > Len(y)
  <2>1. i = Len(x) + 1
    BY <1>6, <1>4, <1>0
  <2>2. Len(x) <= Len(y)
    <3>1. CASE Len(x) = 0
      BY <3>1, <1>0
    <3>2. CASE Len(x) # 0
      <4>1. Len(x) \in 1 .. i - 1
        BY <2>1, <3>2, <1>0
      <4> QED  BY <4>1, <1>5
    <3> QED  BY <3>1, <3>2
  <2>3. Len(x) = Len(y)
    BY <2>1, <2>2, <1>6, <1>0
  <2>4. \A j \in 1 .. Len(x) : x[j] = y[j]
    BY <2>1, <1>5, <1>0
  <2>5. x = y
    BY <2>3, <2>4 DEF Words
  <2> QED  BY <1>1, <2>5
<1>7. CASE i > Len(x) /\ i <= Len(y)
  <2>1. i \in 1 .. Len(y)
    BY <1>7, <1>4, <1>0
  <2>2. \A j \in 1 .. i - 1 : j <= Len(x) /\ x[j] = y[j]
    BY <1>5, <1>0
  <2> QED  BY <2>1, <2>2, <1>1, <1>7 DEF Precedes
<1>8. CASE i <= Len(x) /\ i > Len(y)
  <2>1. i \in 1 .. Len(x)
    BY <1>8, <1>4, <1>0
  <2>2. \A j \in 1 .. i - 1 : j <= Len(y) /\ y[j] = x[j]
    BY <1>5, <1>0
  <2> QED  BY <2>1, <2>2, <1>1, <1>8 DEF Precedes
<1>9. CASE i <= Len(x) /\ i <= Len(y)
  <2>1. i \in 1 .. Len(x) /\ i \in 1 .. Len(y) /\ x[i] # y[i] /\ x[i] \in Nat /\ y[i] \in Nat
    BY <1>9, <1>4, <1>0
  <2>2. x[i] < y[i] \/ y[i] < x[i]
    BY <2>1
  <2>3. \A j \in 1 .. i - 1 : j <= Len(y) /\ y[j] = x[j] /\ j <= Len(x)
    BY <1>5, <1>0
  <2> QED  BY <2>1, <2>2, <2>3, <1>1 DEF Precedes
<1> QED  BY <1>4, <1>6, <1>7, <1>8, <1>9, <1>0

\* compare_keys orders strings, as far as what they stand for goes.
LEMMA Order ==
    /\ \A a, b \in Strings : Below(a, b) => ~Below(b, a)
    /\ \A a, b, c \in Strings : Below(a, b) /\ ~Below(c, b) => Below(a, c)
    /\ \A a, b, c \in Strings : ~Below(b, a) /\ Below(b, c) => Below(a, c)
    /\ \A a, b, c \in Strings : ~Below(b, a) /\ ~Below(c, b) => ~Below(c, a)
    /\ \A a, b \in Strings : (~Below(a, b) /\ ~Below(b, a)) <=> Same(a, b)
<1>1. \A a, b : Below(a, b) <=> Precedes(Real(a), Real(b))
  BY DEF Below, Precedes
<1>2. \A a \in Strings : Real(a) \in Words
  BY RealEffect
<1>3. \A a \in Strings : ~Below(a, a)
  BY <1>1, <1>2, PrecedesTotal
<1>4. \A a, b, c \in Strings : Below(a, b) /\ Below(b, c) => Below(a, c)
  BY <1>1, <1>2, PrecedesTwice
<1>5. \A a, b \in Strings : Below(a, b) \/ Below(b, a) \/ Same(a, b)
  BY <1>1, <1>2, PrecedesTotal DEF Same
<1>6. \A a, b, c \in Strings : Same(a, b) => (Below(a, c) <=> Below(b, c)) /\ (Below(c, a) <=> Below(c, b))
  BY <1>1 DEF Same
<1>7. \A a, b \in Strings : Same(a, b) => Same(b, a)
  BY DEF Same
<1> QED  BY <1>3, <1>4, <1>5, <1>6, <1>7

-----------------------------------------------------------------------------
(* Sorted arrays of slots.                                                 *)

SortedKeys(ss) == \A i, j \in 1 .. Len(ss) : i <= j => ~Below(ss[j], ss[i])

\* The first i keys are in A and the others in B.
Cut(ss, i, A, B) == \A m \in 1 .. Len(ss) : IF m <= i THEN ss[m] \in A ELSE ss[m] \in B

\* x is behind the first i keys and before the others; a key equal to one of
\* those is not before it, but does not lie behind it either.
UpTo(x) == {y \in Strings : ~Below(x, y)}
After(x) == {y \in Strings : Below(x, y)}
From(x) == {y \in Strings : ~Below(y, x)}
Open(ss, i, x) == Cut(ss, i, UpTo(x), After(x))
Closed(ss, i, x) == Cut(ss, i, UpTo(x), From(x))

\* A sequence of slots is one of strings.
LEMMA SlotsAreStrings ==
    ASSUME NEW ss \in Seq(Slot)
    PROVE  Len(ss) \in Nat /\ \A m \in 1 .. Len(ss) : ss[m] \in Slot /\ ss[m] \in Strings
<1>1. Slot \subseteq Strings
  BY Stringed
<1> HIDE DEF Slot
<1>2. Len(ss) \in Nat /\ \A m \in 1 .. Len(ss) : ss[m] \in Slot
  OBVIOUS
<1> QED  BY <1>1, <1>2

\* find_child_binary finds the one place where the key belongs.
LEMMA FindChildOpen ==
    ASSUME NEW nd, nd.keys \in Seq(Slot), SortedKeys(nd.keys), NEW k \in Strings
    PROVE  /\ FindChild(nd, k) \in 0 .. Len(nd.keys)
           /\ Open(nd.keys, FindChild(nd, k), k)
           /\ \A i \in 0 .. Len(nd.keys) : Open(nd.keys, i, k) => i = FindChild(nd, k)
<1> DEFINE ss == nd.keys  n == Len(nd.keys)  c == FindChild(nd, k)
<1>0. n \in Nat /\ \A m \in 1 .. n : ss[m] \in Strings
  BY SlotsAreStrings
<1>1. c \in 0 .. n /\ (c = n \/ c \in Above(nd, k)) /\ (c = 0 \/ c - 1 \notin Above(nd, k))
  BY <1>0, PositionEnds DEF FindChild
<1>2. c < n => Below(k, ss[c + 1])
  BY <1>0, <1>1 DEF Above
<1>3. c > 0 => ~Below(k, ss[c])
  <2>1. ASSUME c > 0, Below(k, ss[c]) PROVE FALSE
    <3>1. c - 1 \in 0 .. n - 1 /\ (c - 1) + 1 = c
      BY <1>0, <1>1, <2>1
    <3>2. c - 1 \in Above(nd, k)
      BY <3>1, <2>1 DEF Above
    <3> QED  BY <3>2, <1>1, <2>1
  <2> QED  BY <2>1
<1>4. \A i, j \in 1 .. n : i <= j => ~Below(ss[j], ss[i])
  BY DEF SortedKeys
<1> HIDE DEF c, n, ss
<1>5. \A m \in 1 .. n : m <= c => ~Below(k, ss[m])
  <2> SUFFICES ASSUME NEW m \in 1 .. n, m <= c PROVE ~Below(k, ss[m])
    OBVIOUS
  <2>1. c \in 1 .. n /\ ~Below(k, ss[c])
    BY <1>0, <1>1, <1>3
  <2>2. ~Below(ss[c], ss[m])
    BY <2>1, <1>4
  <2> QED  BY <2>1, <2>2, <1>0, Order
<1>6. \A m \in 1 .. n : ~(m <= c) => Below(k, ss[m])
  <2> SUFFICES ASSUME NEW m \in 1 .. n, ~(m <= c) PROVE Below(k, ss[m])
    OBVIOUS
  <2>1. c + 1 \in 1 .. n /\ c + 1 <= m /\ Below(k, ss[c + 1])
    BY <1>0, <1>1, <1>2
  <2>2. ~Below(ss[m], ss[c + 1])
    BY <2>1, <1>4
  <2> QED  BY <2>1, <2>2, <1>0, Order
<1>7. Open(ss, c, k)
  BY <1>0, <1>5, <1>6 DEF Open, Cut, UpTo, After, n, ss
<1>8. ASSUME NEW i \in 0 .. n, Open(ss, i, k), i # c PROVE FALSE
  <2>1. \A m \in 1 .. n : IF m <= i THEN ~Below(k, ss[m]) ELSE Below(k, ss[m])
    BY <1>0, <1>8 DEF Open, Cut, UpTo, After, n, ss
  <2>2. CASE i < c
    <3>1. c \in 1 .. n /\ ~(c <= i) /\ c <= c
      BY <2>2, <1>1, <1>0
    <3> QED  BY <3>1, <2>1, <1>5
  <2>3. CASE i > c
    <3>1. i \in 1 .. n /\ i <= i /\ ~(i <= c)
      BY <2>3, <1>1, <1>0
    <3> QED  BY <3>1, <2>1, <1>6
  <2> QED  BY <2>2, <2>3, <1>8, <1>1, <1>0
<1> QED  BY <1>1, <1>7, <1>8 DEF n, ss, c

\* A key put between its neighbours leaves the array sorted.
LEMMA InsertSorted ==
    ASSUME NEW ss \in Seq(Slot), SortedKeys(ss), NEW pos \in 0 .. Len(ss), NEW e \in Slot,
           pos > 0 => ~Below(e, ss[pos]), pos < Len(ss) => ~Below(ss[pos + 1], e)
    PROVE  SortedKeys(InsertAt(ss, pos + 1, e))
<1> DEFINE t == InsertAt(ss, pos + 1, e)  n == Len(ss)
<1>0. /\ n \in Nat /\ pos \in 0 .. n /\ e \in Strings
      /\ \A m \in 1 .. n : ss[m] \in Strings
      /\ \A i, j \in 1 .. n : i <= j => ~Below(ss[j], ss[i])
  BY SlotsAreStrings, Stringed DEF SortedKeys
<1>1. Len(t) = n + 1 /\ Shifted(t, ss, pos, e)
  BY InsertAtEffect
<1>2. /\ \A i \in 1 .. pos : t[i] = ss[i]
      /\ t[pos + 1] = e
      /\ \A i \in pos + 1 .. n : t[i + 1] = ss[i]
  BY <1>1 DEF Shifted
<1> HIDE DEF t, n
<1>3. \A i \in 1 .. n + 1 : \/ i \in 1 .. pos /\ i \in 1 .. n /\ t[i] = ss[i]
                            \/ i = pos + 1 /\ t[i] = e
                            \/ i - 1 \in pos + 1 .. n /\ i - 1 \in 1 .. n /\ t[i] = ss[i - 1]
  <2> SUFFICES ASSUME NEW i \in 1 .. n + 1
               PROVE  \/ i \in 1 .. pos /\ i \in 1 .. n /\ t[i] = ss[i]
                      \/ i = pos + 1 /\ t[i] = e
                      \/ i - 1 \in pos + 1 .. n /\ i - 1 \in 1 .. n /\ t[i] = ss[i - 1]
    OBVIOUS
  <2>1. CASE i <= pos
    BY <2>1, <1>0, <1>2
  <2>2. CASE i = pos + 1
    BY <2>2, <1>2
  <2>3. CASE i > pos + 1
    <3>1. i - 1 \in pos + 1 .. n /\ i - 1 \in 1 .. n /\ (i - 1) + 1 = i
      BY <2>3, <1>0
    <3> QED  BY <3>1, <1>2
  <2> QED  BY <2>1, <2>2, <2>3, <1>0
<1>4. \A i \in 1 .. n : i <= pos => ~Below(e, ss[i])
  <2> SUFFICES ASSUME NEW i \in 1 .. n, i <= pos PROVE ~Below(e, ss[i])
    OBVIOUS
  <2>1. pos \in 1 .. n /\ ~Below(e, ss[pos])
    BY <1>0
  <2>2. ~Below(ss[pos], ss[i])
    BY <2>1, <1>0
  <2> QED  BY <2>1, <2>2, <1>0, Order
<1>5. \A i \in 1 .. n : i >= pos + 1 => ~Below(ss[i], e)
  <2> SUFFICES ASSUME NEW i \in 1 .. n, i >= pos + 1 PROVE ~Below(ss[i], e)
    OBVIOUS
  <2>1. pos + 1 \in 1 .. n /\ ~Below(ss[pos + 1], e)
    BY <1>0 DEF n
  <2>2. ~Below(ss[i], ss[pos + 1])
    BY <2>1, <1>0
  <2> QED  BY <2>1, <2>2, <1>0, Order
<1>6. ASSUME NEW i \in 1 .. n + 1, NEW j \in 1 .. n + 1, i <= j PROVE ~Below(t[j], t[i])
  <2>1. CASE i \in 1 .. pos /\ i \in 1 .. n /\ t[i] = ss[i]
    <3>1. CASE j \in 1 .. pos /\ j \in 1 .. n /\ t[j] = ss[j]
      BY <2>1, <3>1, <1>0, <1>6
    <3>2. CASE j = pos + 1 /\ t[j] = e
      BY <2>1, <3>2, <1>4
    <3>3. CASE j - 1 \in pos + 1 .. n /\ j - 1 \in 1 .. n /\ t[j] = ss[j - 1]
      <4>1. i <= j - 1
        BY <2>1, <3>3, <1>0
      <4> QED  BY <4>1, <2>1, <3>3, <1>0
    <3> QED  BY <3>1, <3>2, <3>3, <1>3
  <2>2. CASE i = pos + 1 /\ t[i] = e
    <3>1. CASE j = pos + 1 /\ t[j] = e
      BY <2>2, <3>1, <1>0, Order
    <3>2. CASE j - 1 \in pos + 1 .. n /\ j - 1 \in 1 .. n /\ t[j] = ss[j - 1]
      BY <2>2, <3>2, <1>5, <1>0
    <3> QED  BY <3>1, <3>2, <2>2, <1>3, <1>6, <1>0
  <2>3. CASE i - 1 \in pos + 1 .. n /\ i - 1 \in 1 .. n /\ t[i] = ss[i - 1]
    <3>1. j - 1 \in pos + 1 .. n /\ j - 1 \in 1 .. n /\ t[j] = ss[j - 1]
      BY <2>3, <1>3, <1>6, <1>0
    <3>2. i - 1 <= j - 1
      BY <1>6
    <3> QED  BY <2>3, <3>1, <3>2, <1>0
  <2> QED  BY <2>1, <2>2, <2>3, <1>3
<1>7. SortedKeys(t)
  BY <1>1, <1>6 DEF SortedKeys, n
<1> QED  BY <1>7 DEF t

\* So does a new key that insert_into_leaf_node puts in its place.
LEMMA LeafStaysSorted ==
    ASSUME NEW nd, nd.keys \in Seq(Slot), SortedKeys(nd.keys), NEW k \in Strings,
           NEW slot \in Slot, Same(slot, k)
    PROVE  /\ LeafPos(nd, k) \in 0 .. Len(nd.keys)
           /\ SortedKeys(InsertAt(nd.keys, LeafPos(nd, k) + 1, slot))
<1> DEFINE ss == nd.keys  n == Len(nd.keys)  c == LeafPos(nd, k)
<1>0. n \in Nat /\ slot \in Strings /\ \A m \in 1 .. n : ss[m] \in Strings
  BY SlotsAreStrings, Stringed
<1>1. c \in 0 .. n /\ (c = n \/ c \in NotBelow(nd, k)) /\ (c = 0 \/ c - 1 \notin NotBelow(nd, k))
  BY <1>0, PositionEnds DEF LeafPos
<1>2. c < n => ~Below(ss[c + 1], k)
  BY <1>0, <1>1 DEF NotBelow
<1>3. c > 0 => Below(ss[c], k)
  <2>1. ASSUME c > 0, ~Below(ss[c], k) PROVE FALSE
    <3>1. c - 1 \in 0 .. n - 1 /\ (c - 1) + 1 = c
      BY <1>0, <1>1, <2>1
    <3>2. c - 1 \in NotBelow(nd, k)
      BY <3>1, <2>1 DEF NotBelow
    <3> QED  BY <3>2, <1>1, <2>1
  <2> QED  BY <2>1
<1>4. \A x \in Strings : (Below(x, slot) <=> Below(x, k)) /\ (Below(slot, x) <=> Below(k, x))
  BY DEF Same, Below
<1> HIDE DEF c
<1>5. c > 0 => ~Below(slot, ss[c])
  <2> SUFFICES ASSUME c > 0 PROVE ~Below(slot, ss[c])
    OBVIOUS
  <2>1. c \in 1 .. n
    BY <1>0, <1>1
  <2>2. ss[c] \in Strings
    BY <2>1, <1>0
  <2> QED  BY <2>2, <1>0, <1>3, <1>4, Order
<1>6. c < n => ~Below(ss[c + 1], slot)
  <2> SUFFICES ASSUME c < n PROVE ~Below(ss[c + 1], slot)
    OBVIOUS
  <2>1. c + 1 \in 1 .. n
    BY <1>0, <1>1
  <2> QED  BY <2>1, <1>0, <1>2, <1>4
<1>7. SortedKeys(InsertAt(ss, c + 1, slot))
  BY <1>1, <1>5, <1>6, InsertSorted
<1> QED  BY <1>1, <1>7 DEF c

\* A part of a sorted array is sorted.
LEMMA PartSorted ==
    ASSUME NEW ss \in Seq(Slot), SortedKeys(ss), NEW a \in 1 .. Len(ss) + 1, NEW b \in 0 .. Len(ss), a <= b + 1
    PROVE  SortedKeys(SubSeq(ss, a, b))
<1> DEFINE u == SubSeq(ss, a, b)
<1>1. \A i \in 1 .. Len(u) : u[i] = ss[a + i - 1] /\ a + i - 1 \in a .. b
  BY PartEffect
<1>2. Len(u) \in Nat
  BY PartEffect
<1>3. \A i \in a .. b : i \in 1 .. Len(ss)
  OBVIOUS
<1> HIDE DEF u
<1>4. ASSUME NEW i \in 1 .. Len(u), NEW j \in 1 .. Len(u), i <= j PROVE ~Below(u[j], u[i])
  <2>1. a + i - 1 <= a + j - 1 /\ a + i - 1 \in 1 .. Len(ss) /\ a + j - 1 \in 1 .. Len(ss)
    BY <1>1, <1>3, <1>4
  <2> QED  BY <2>1, <1>1 DEF SortedKeys
<1>5. SortedKeys(u)
  BY <1>4 DEF SortedKeys
<1> QED  BY <1>5 DEF u

\* Sets of strings with all that lies before, or behind, their elements.
DownClosed(A) == \A y \in A, z \in Strings : ~Below(y, z) => z \in A
UpClosed(B) == \A y \in B, z \in Strings : ~Below(z, y) => z \in B

\* What is said of a place of an array that takes one key more: the places
\* before and behind are as they were, the place itself is divided.
LEMMA InsertCut ==
    ASSUME NEW ss \in Seq(Slot), SortedKeys(ss), NEW pos \in 0 .. Len(ss), NEW e \in Slot,
           pos > 0 => ~Below(e, ss[pos]), pos < Len(ss) => ~Below(ss[pos + 1], e),
           NEW A \in SUBSET Strings, NEW B \in SUBSET Strings, DownClosed(A), UpClosed(B),
           NEW j \in 0 .. Len(ss)
    PROVE  /\ j < pos => (Cut(InsertAt(ss, pos + 1, e), j, A, B) <=> Cut(ss, j, A, B))
           /\ j > pos => (Cut(InsertAt(ss, pos + 1, e), j + 1, A, B) <=> Cut(ss, j, A, B))
           /\ j = pos => /\ Cut(InsertAt(ss, pos + 1, e), pos, A, B) <=> (Cut(ss, pos, A, B) /\ e \in B)
                         /\ Cut(InsertAt(ss, pos + 1, e), pos + 1, A, B) <=> (Cut(ss, pos, A, B) /\ e \in A)
<1> DEFINE t == InsertAt(ss, pos + 1, e)  n == Len(ss)
           At(m) == IF m <= pos THEN m ELSE m + 1
           Whole(i) == \A m \in 1 .. n : IF At(m) <= i THEN ss[m] \in A ELSE ss[m] \in B
           New(i) == IF pos + 1 <= i THEN e \in A ELSE e \in B
<1>0. n \in Nat /\ pos \in 0 .. n /\ e \in Strings /\ \A m \in 1 .. n : ss[m] \in Strings
  BY SlotsAreStrings, Stringed
<1>1. Len(t) = n + 1 /\ Shifted(t, ss, pos, e)
  BY InsertAtEffect
<1>2. t[pos + 1] = e /\ \A m \in 1 .. n : t[At(m)] = ss[m]
  <2>1. /\ \A i \in 1 .. pos : t[i] = ss[i]
        /\ t[pos + 1] = e
        /\ \A i \in pos + 1 .. n : t[i + 1] = ss[i]
    BY <1>1 DEF Shifted
  <2>2. ASSUME NEW m \in 1 .. n PROVE t[At(m)] = ss[m]
    <3>1. CASE m <= pos
      <4>1. m \in 1 .. pos
        BY <3>1, <1>0
      <4> QED  BY <4>1, <3>1, <2>1
    <3>2. CASE ~(m <= pos)
      <4>1. m \in pos + 1 .. n
        BY <3>2, <1>0
      <4> QED  BY <4>1, <3>2, <2>1
    <3> QED  BY <3>1, <3>2
  <2> QED  BY <2>1, <2>2
<1> HIDE DEF t
<1>3. \A i \in 0 .. n + 1 : Cut(t, i, A, B) <=> Whole(i) /\ New(i)
  <2> SUFFICES ASSUME NEW i \in 0 .. n + 1 PROVE Cut(t, i, A, B) <=> Whole(i) /\ New(i)
    OBVIOUS
  <2>1. ASSUME Cut(t, i, A, B) PROVE Whole(i) /\ New(i)
    <3>1. \A m \in 1 .. n + 1 : IF m <= i THEN t[m] \in A ELSE t[m] \in B
      BY <2>1, <1>1 DEF Cut
    <3>2. \A m \in 1 .. n : At(m) \in 1 .. n + 1
      BY <1>0
    <3>3. pos + 1 \in 1 .. n + 1
      BY <1>0
    <3> HIDE DEF At
    <3> QED  BY <3>1, <3>2, <3>3, <1>2
  <2>2. ASSUME Whole(i), New(i) PROVE Cut(t, i, A, B)
    <3> SUFFICES ASSUME NEW m \in 1 .. n + 1 PROVE IF m <= i THEN t[m] \in A ELSE t[m] \in B
      BY <1>1 DEF Cut
    <3>1. CASE m <= pos
      <4>1. m \in 1 .. n /\ At(m) = m
        BY <3>1, <1>0
      <4> QED  BY <4>1, <2>2, <1>2
    <3>2. CASE m = pos + 1
      BY <3>2, <2>2, <1>2
    <3>3. CASE m > pos + 1
      <4>1. m - 1 \in 1 .. n /\ At(m - 1) = m
        BY <3>3, <1>0
      <4> HIDE DEF At
      <4> QED  BY <4>1, <2>2, <1>2
    <3> QED  BY <3>1, <3>2, <3>3, <1>0
  <2> QED  BY <2>1, <2>2
<1>4. ASSUME j < pos PROVE Cut(t, j, A, B) <=> Cut(ss, j, A, B)
  <2>1. \A m \in 1 .. n : At(m) <= j <=> m <= j
    BY <1>4, <1>0
  <2>2. Whole(j) <=> Cut(ss, j, A, B)
    BY <2>1 DEF Cut
  <2>3. Cut(ss, j, A, B) => e \in B
    <3> SUFFICES ASSUME Cut(ss, j, A, B) PROVE e \in B
      OBVIOUS
    <3>1. pos \in 1 .. n /\ ~(pos <= j)
      BY <1>4, <1>0
    <3>2. ss[pos] \in B /\ ~Below(e, ss[pos])
      BY <3>1 DEF Cut
    <3> QED  BY <3>2, <1>0 DEF UpClosed
  <2>4. New(j) <=> e \in B
    BY <1>4, <1>0
  <2>5. j \in 0 .. n + 1
    BY <1>0
  <2> QED  BY <2>2, <2>3, <2>4, <2>5, <1>3
<1>5. ASSUME j > pos PROVE Cut(t, j + 1, A, B) <=> Cut(ss, j, A, B)
  <2>1. \A m \in 1 .. n : At(m) <= j + 1 <=> m <= j
    BY <1>5, <1>0
  <2>2. Whole(j + 1) <=> Cut(ss, j, A, B)
    BY <2>1 DEF Cut
  <2>3. Cut(ss, j, A, B) => e \in A
    <3> SUFFICES ASSUME Cut(ss, j, A, B) PROVE e \in A
      OBVIOUS
    <3>1. pos + 1 \in 1 .. n /\ pos + 1 <= j /\ pos < n
      BY <1>5, <1>0
    <3>2. ss[pos + 1] \in A /\ ~Below(ss[pos + 1], e)
      BY <3>1 DEF Cut
    <3> QED  BY <3>2, <1>0 DEF DownClosed
  <2>4. New(j + 1) <=> e \in A
    BY <1>5, <1>0
  <2>5. j + 1 \in 0 .. n + 1
    BY <1>0
  <2> QED  BY <2>2, <2>3, <2>4, <2>5, <1>3
<1>6. /\ Cut(t, pos, A, B) <=> (Cut(ss, pos, A, B) /\ e \in B)
      /\ Cut(t, pos + 1, A, B) <=> (Cut(ss, pos, A, B) /\ e \in A)
  <2>1. \A m \in 1 .. n : (At(m) <= pos <=> m <= pos) /\ (At(m) <= pos + 1 <=> m <= pos)
    BY <1>0
  <2>2. Whole(pos) <=> Cut(ss, pos, A, B)
    BY <2>1 DEF Cut
  <2>3. Whole(pos + 1) <=> Cut(ss, pos, A, B)
    BY <2>1 DEF Cut
  <2>4. (New(pos) <=> e \in B) /\ (New(pos + 1) <=> e \in A)
    BY <1>0
  <2>5. pos \in 0 .. n + 1 /\ pos + 1 \in 0 .. n + 1
    BY <1>0
  <2> QED  BY <2>2, <2>3, <2>4, <2>5, <1>3
<1> QED  BY <1>4, <1>5, <1>6 DEF t

\* What is said of a place of an array that is halved around the key that moves
\* up.
LEMMA HalfCut ==
    ASSUME NEW ss \in Seq(Slot), SortedKeys(ss), NEW half \in 0 .. Len(ss) - 1,
           NEW A \in SUBSET Strings, NEW B \in SUBSET Strings, DownClosed(A), UpClosed(B),
           NEW j \in 0 .. Len(ss)
    PROVE  /\ j <= half => (Cut(ss, j, A, B) <=> Cut(SubSeq(ss, 1, half), j, A, B) /\ ss[half + 1] \in B)
           /\ j > half => (Cut(ss, j, A, B) <=> Cut(SubSeq(ss, half + 2, Len(ss)), j - half - 1, A, B)
                                                /\ ss[half + 1] \in A)
<1> DEFINE l == SubSeq(ss, 1, half)  r == SubSeq(ss, half + 2, Len(ss))  n == Len(ss)
<1>0. n \in Nat /\ half \in 0 .. n - 1 /\ half \in Nat /\ \A m \in 1 .. n : ss[m] \in Strings
  BY SlotsAreStrings
<1>1. Len(l) = half /\ \A i \in 1 .. half : l[i] = ss[i]
  <2>1. 1 \in 1 .. n + 1 /\ half \in 0 .. n /\ 1 <= half + 1
    BY <1>0
  <2>2. Len(l) = half - 1 + 1 /\ \A i \in 1 .. Len(l) : l[i] = ss[1 + i - 1]
    BY <2>1, PartEffect
  <2>3. \A i \in 1 .. half : 1 + i - 1 = i
    BY <1>0, SMTT(30)
  <2> QED  BY <2>2, <2>3, <1>0
<1>2. Len(r) = n - half - 1 /\ \A i \in 1 .. n - half - 1 : r[i] = ss[half + 1 + i]
  <2>1. half + 2 \in 1 .. n + 1 /\ n \in 0 .. n /\ half + 2 <= n + 1
    BY <1>0
  <2>2. Len(r) = n - (half + 2) + 1 /\ \A i \in 1 .. Len(r) : r[i] = ss[half + 2 + i - 1]
    BY <2>1, PartEffect
  <2>3. n - (half + 2) + 1 = n - half - 1 /\ \A i \in 1 .. n - half - 1 : half + 2 + i - 1 = half + 1 + i
    BY <1>0
  <2> QED  BY <2>2, <2>3, Zenon
<1>3. \A i, m \in 1 .. n : i <= m => ~Below(ss[m], ss[i])
  BY DEF SortedKeys
<1>4. half + 1 \in 1 .. n
  BY <1>0
<1> HIDE DEF l, r
<1>5. ASSUME j <= half PROVE Cut(ss, j, A, B) <=> Cut(l, j, A, B) /\ ss[half + 1] \in B
  <2>1. ASSUME Cut(ss, j, A, B) PROVE Cut(l, j, A, B) /\ ss[half + 1] \in B
    <3>1. \A m \in 1 .. n : IF m <= j THEN ss[m] \in A ELSE ss[m] \in B
      BY <2>1 DEF Cut
    <3>2. ~(half + 1 <= j)
      BY <1>5, <1>0
    <3>3. \A m \in 1 .. half : m \in 1 .. n
      BY <1>0
    <3> QED  BY <3>1, <3>2, <3>3, <1>1, <1>4 DEF Cut
  <2>2. ASSUME Cut(l, j, A, B), ss[half + 1] \in B PROVE Cut(ss, j, A, B)
    <3> SUFFICES ASSUME NEW m \in 1 .. n PROVE IF m <= j THEN ss[m] \in A ELSE ss[m] \in B
      BY DEF Cut
    <3>1. CASE m <= half
      <4>1. m \in 1 .. half
        BY <3>1
      <4> QED  BY <4>1, <2>2, <1>1 DEF Cut
    <3>2. CASE m > half
      <4>1. half + 1 <= m /\ ~(m <= j)
        BY <3>2, <1>5, <1>0
      <4>2. ~Below(ss[m], ss[half + 1])
        BY <4>1, <1>3, <1>4
      <4>3. ss[m] \in B
        BY <4>2, <2>2, <1>0 DEF UpClosed
      <4> QED  BY <4>1, <4>3
    <3> QED  BY <3>1, <3>2, <1>0
  <2> QED  BY <2>1, <2>2
<1>6. ASSUME j > half PROVE Cut(ss, j, A, B) <=> Cut(r, j - half - 1, A, B) /\ ss[half + 1] \in A
  <2>1. ASSUME Cut(ss, j, A, B) PROVE Cut(r, j - half - 1, A, B) /\ ss[half + 1] \in A
    <3>1. \A m \in 1 .. n : IF m <= j THEN ss[m] \in A ELSE ss[m] \in B
      BY <2>1 DEF Cut
    <3>2. half + 1 <= j
      BY <1>6, <1>0
    <3>3. \A m \in 1 .. n - half - 1 : half + 1 + m \in 1 .. n /\ (half + 1 + m <= j <=> m <= j - half - 1)
      BY <1>0
    <3>4. \A m \in 1 .. n - half - 1 : IF m <= j - half - 1 THEN r[m] \in A ELSE r[m] \in B
      BY <3>1, <3>3, <1>2
    <3> QED  BY <3>1, <3>2, <3>4, <1>2, <1>4 DEF Cut
  <2>2. ASSUME Cut(r, j - half - 1, A, B), ss[half + 1] \in A PROVE Cut(ss, j, A, B)
    <3> SUFFICES ASSUME NEW m \in 1 .. n PROVE IF m <= j THEN ss[m] \in A ELSE ss[m] \in B
      BY DEF Cut
    <3>1. CASE m > half + 1
      <4>1. m - half - 1 \in 1 .. n - half - 1 /\ half + 1 + (m - half - 1) = m
            /\ (m <= j <=> m - half - 1 <= j - half - 1)
        BY <3>1, <1>0
      <4>2. IF m - half - 1 <= j - half - 1 THEN r[m - half - 1] \in A ELSE r[m - half - 1] \in B
        BY <4>1, <2>2, <1>2 DEF Cut
      <4>3. r[m - half - 1] = ss[m]
        BY <4>1, <1>2
      <4> QED  BY <4>1, <4>2, <4>3
    <3>2. CASE m <= half + 1
      <4>1. m <= j
        BY <3>2, <1>6, <1>0
      <4>2. ~Below(ss[half + 1], ss[m])
        BY <3>2, <1>3, <1>4
      <4>3. ss[m] \in A
        BY <4>2, <2>2, <1>0 DEF DownClosed
      <4> QED  BY <4>1, <4>3
    <3> QED  BY <3>1, <3>2, <1>0
  <2> QED  BY <2>1, <2>2
<1> QED  BY <1>5, <1>6 DEF l, r

\* The sets Open and Closed are made of.
LEMMA CutSets ==
    ASSUME NEW x \in Strings
    PROVE  /\ UpTo(x) \in SUBSET Strings /\ After(x) \in SUBSET Strings /\ From(x) \in SUBSET Strings
           /\ DownClosed(UpTo(x)) /\ UpClosed(After(x)) /\ UpClosed(From(x))
<1>1. DownClosed(UpTo(x))
  BY Order DEF DownClosed, UpTo
<1>2. UpClosed(After(x))
  BY Order DEF UpClosed, After
<1>3. UpClosed(From(x))
  BY Order DEF UpClosed, From
<1> QED  BY <1>1, <1>2, <1>3 DEF UpTo, After, From

\* A search of a sorted leaf finds every entry with the key.
LEMMA LeafHitsAll ==
    ASSUME NEW nd, GoodNode(nd), SortedKeys(nd.keys), NEW k \in Strings
    PROVE  LeafHits(nd, k) = {nd.vals[i] : i \in {j \in 1 .. Len(nd.keys) : Same(k, nd.keys[j])}}
<1> DEFINE ss == nd.keys  n == Len(nd.keys)  idx == SearchKey(nd, k)
           bs == Bisect(n, Above(nd, k), Equals(nd, k))
<1>0. n \in Nat /\ \A m \in 1 .. n : ss[m] \in Strings
  <2>1. ss \in Seq(Slot)
    BY DEF GoodNode, Node
  <2> QED  BY <2>1, SlotsAreStrings
<1>1. \/ idx = -1 /\ ~bs.hit
      \/ idx \in 0 .. n - 1 /\ idx \in Equals(nd, k) /\ idx - 1 \notin Equals(nd, k)
  BY SearchKeyEnds
<1>2. LeafHits(nd, k) = IF idx < 0 THEN {}
         ELSE {nd.vals[i] : i \in {j \in idx + 1 .. n : \A m \in idx + 1 .. j : Same(k, ss[m])}}
  BY DEF LeafHits
<1>3. \A i, j \in 1 .. n : i <= j => ~Below(ss[j], ss[i])
  BY DEF SortedKeys
<1>4. CASE idx = -1 /\ ~bs.hit
  <2> DEFINE c == bs.at
  <2>1. /\ c \in 0 .. n
        /\ c = n \/ c \in Above(nd, k)
        /\ c = 0 \/ (c - 1 \notin Above(nd, k) /\ c - 1 \notin Equals(nd, k))
    BY <1>0, <1>4, BisectEnds
  <2> HIDE DEF c, bs
  <2>2. ASSUME NEW m \in 1 .. n, Same(k, ss[m]) PROVE FALSE
    <3>1. CASE m <= c
      <4>1. c \in 1 .. n /\ c - 1 \in 0 .. n - 1 /\ (c - 1) + 1 = c /\ c # 0
        BY <3>1, <2>1, <1>0
      <4>2. ~Below(k, ss[c]) /\ ~Same(k, ss[c])
        BY <4>1, <2>1 DEF Above, Equals
      <4>3. ~Below(ss[c], ss[m])
        BY <3>1, <4>1, <1>3
      <4> QED  BY <4>1, <4>2, <4>3, <2>2, <1>0, Order
    <3>2. CASE m > c
      <4>1. c + 1 \in 1 .. n /\ c # n /\ c + 1 <= m
        BY <3>2, <2>1, <1>0
      <4>2. Below(k, ss[c + 1])
        BY <4>1, <2>1 DEF Above
      <4>3. ~Below(ss[m], ss[c + 1])
        BY <4>1, <1>3
      <4> QED  BY <4>1, <4>2, <4>3, <2>2, <1>0, Order
    <3> QED  BY <3>1, <3>2, <2>1, <1>0
  <2>3. LeafHits(nd, k) = {}
    BY <1>2, <1>4
  <2> QED  BY <2>2, <2>3
<1>5. CASE idx \in 0 .. n - 1 /\ idx \in Equals(nd, k) /\ idx - 1 \notin Equals(nd, k)
  <2> HIDE DEF idx
  <2>1. idx + 1 \in 1 .. n /\ Same(k, ss[idx + 1])
    BY <1>5, <1>0 DEF Equals
  <2>2. ASSUME NEW j \in 1 .. n, Same(k, ss[j]) PROVE j >= idx + 1
    <3> SUFFICES ASSUME j <= idx PROVE FALSE
      BY <1>0, <1>5
    <3>1. idx \in 1 .. n /\ idx - 1 \in 0 .. n - 1 /\ (idx - 1) + 1 = idx /\ idx <= idx + 1
      BY <1>0, <1>5
    <3>2. ~Same(k, ss[idx])
      BY <3>1, <1>5 DEF Equals
    <3>3. ~Below(ss[idx], ss[j]) /\ ~Below(ss[idx + 1], ss[idx])
      BY <3>1, <2>1, <1>3
    <3> QED  BY <3>1, <3>2, <3>3, <2>1, <2>2, <1>0, Order
  <2>3. ASSUME NEW j \in 1 .. n, Same(k, ss[j]), NEW m \in idx + 1 .. j PROVE Same(k, ss[m])
    <3>1. m \in 1 .. n /\ idx + 1 <= m /\ m <= j
      BY <2>1, <1>0, <1>5
    <3>2. ~Below(ss[m], ss[idx + 1]) /\ ~Below(ss[j], ss[m])
      BY <3>1, <2>1, <1>3
    <3> QED  BY <3>1, <3>2, <2>1, <2>3, <1>0, Order
  <2>4. {j \in idx + 1 .. n : \A m \in idx + 1 .. j : Same(k, ss[m])} = {j \in 1 .. n : Same(k, ss[j])}
    <3>1. ASSUME NEW j \in idx + 1 .. n, \A m \in idx + 1 .. j : Same(k, ss[m])
          PROVE  j \in 1 .. n /\ Same(k, ss[j])
      <4>1. j \in idx + 1 .. j /\ j \in 1 .. n
        BY <1>0, <1>5
      <4> QED  BY <4>1, <3>1
    <3>2. ASSUME NEW j \in 1 .. n, Same(k, ss[j])
          PROVE  j \in idx + 1 .. n /\ \A m \in idx + 1 .. j : Same(k, ss[m])
      <4>1. j >= idx + 1
        BY <2>2, <3>2
      <4>2. j \in idx + 1 .. n
        BY <4>1, <1>0, <1>5
      <4> QED  BY <4>2, <2>3, <3>2
    <3> QED  BY <3>1, <3>2
  <2>5. LeafHits(nd, k) = {nd.vals[i] : i \in {j \in idx + 1 .. n : \A m \in idx + 1 .. j : Same(k, ss[m])}}
    BY <1>2, <1>5, <1>0
  <2> QED  BY <2>4, <2>5
<1> QED  BY <1>1, <1>4, <1>5

\* Behind the key a slot is zero, so that the key determines it.
Clean(x) == \A i \in 1 .. ks : i > Len(Real(x)) => x[i] = 0

\* The old bytes a copied key leaves behind it are zero when it can be read back.
LEMMA CopyStaysClean ==
    ASSUME NEW k \in Keys, NEW old \in Slot, Clean(old), NEW slot, slot = Copied(k, old), Real(slot) = k
    PROVE  slot \in Slot /\ Clean(slot)
<1>0. ks \in Nat /\ k \in Words /\ Len(k) \in Nat /\ slot \in Slot /\ slot \in Strings /\ old \in Strings
      /\ Len(slot) = ks /\ Len(old) = ks
  <2>1. slot \in Slot
    BY CopiedSlot
  <2>2. slot \in Strings /\ old \in Strings /\ k \in Words
    BY <2>1, Stringed
  <2>3. ks \in Nat /\ \A s \in Slot : Len(s) = ks
    BY BTreeAssumption DEF Slot
  <2>4. Len(k) \in Nat
    BY <2>2 DEF Words
  <2> QED  BY <2>1, <2>2, <2>3, <2>4
<1>1. Len(k) \in 0 .. ks /\ (Len(k) < ks => slot[Len(k) + 1] = 0)
  BY <1>0, RealEffect
<1>2. ASSUME NEW i \in 1 .. ks, i > Len(k) PROVE slot[i] = 0
  <2>1. slot[i] = old[i] /\ Len(k) + 1 \in 1 .. ks /\ ~(Len(k) + 1 <= Len(k))
    BY <1>0, <1>1, <1>2 DEF Copied
  <2>2. old[Len(k) + 1] = 0
    BY <2>1, <1>0, <1>1 DEF Copied
  <2>3. Len(Real(old)) <= Len(k) /\ Len(Real(old)) \in Nat
    <3>1. Len(Real(old)) \in 0 .. ks /\ \A m \in 1 .. Len(Real(old)) : old[m] # 0
      BY <1>0, RealEffect
    <3>2. Len(k) + 1 \notin 1 .. Len(Real(old))
      BY <3>1, <2>2
    <3> QED  BY <3>1, <3>2, <1>0
  <2>4. i > Len(Real(old))
    BY <2>3, <1>2, <1>0
  <2> QED  BY <2>1, <2>4 DEF Clean
<1> QED  BY <1>0, <1>2 DEF Clean

\* A clean slot is the copy of its key into an empty one.
LEMMA CleanIsCopy ==
    ASSUME NEW x \in Slot, Clean(x)
    PROVE  x = Copied(Real(x), EmptySlot)
<1>0. x \in Strings /\ ks \in Nat /\ Len(x) = ks /\ x = [i \in 1 .. ks |-> x[i]]
  BY Stringed, BTreeAssumption DEF Slot
<1>1. /\ Len(Real(x)) \in 0 .. ks
      /\ \A i \in 1 .. Len(Real(x)) : Real(x)[i] = x[i]
  BY <1>0, RealEffect
<1>2. ASSUME NEW i \in 1 .. ks PROVE x[i] = IF i <= Len(Real(x)) THEN Real(x)[i] ELSE EmptySlot[i]
  <2>1. CASE i <= Len(Real(x))
    <3>1. i \in 1 .. Len(Real(x))
      BY <2>1, <1>1
    <3> QED  BY <2>1, <3>1, <1>1
  <2>2. CASE i > Len(Real(x))
    BY <2>2, <1>1 DEF Clean, EmptySlot
  <2> QED  BY <2>1, <2>2, <1>1
<1> QED  BY <1>0, <1>2 DEF Copied

\* An empty slot is clean.
LEMMA EmptyIsClean == EmptySlot \in Slot /\ Clean(EmptySlot)
BY DEF EmptySlot, Slot, Clean

-----------------------------------------------------------------------------
(* Ordered trees.  Here a tree is a function v from the pages 1 .. n of a   *)
(* file, and from 0, which stands for the header, to nodes.                *)

ChildAt(nd, i) == IF i = 0 THEN nd.first ELSE nd.vals[i]

IsTree(n, v) ==
    /\ n \in Nat /\ v \in [0 .. n -> Node]
    /\ v[0].leaf = FALSE
    /\ \A p \in 0 .. n : Len(v[p].vals) = Len(v[p].keys)

\* Every page is the child of one node, at one place.
Shape(n, v, par, at) ==
    /\ par \in [1 .. n -> 0 .. n] /\ at \in [1 .. n -> Nat]
    /\ \A c \in 1 .. n : /\ ~v[par[c]].leaf /\ at[c] <= Len(v[par[c]].keys)
                         /\ ChildAt(v[par[c]], at[c]) = c
    /\ \A p \in 0 .. n : ~v[p].leaf =>
          \A i \in 0 .. Len(v[p].keys) :
              ChildAt(v[p], i) \in 1 .. n /\ par[ChildAt(v[p], i)] = p /\ at[ChildAt(v[p], i)] = i

\* The words that lead to a page, and those its keys may be: a duplicate of the
\* separator behind a node may be in it.
Zone(n, home) == home \in [0 .. n -> SUBSET Words] /\ home[0] = Words
Zones(n, v, par, at, home, band) ==
    /\ \A c \in 1 .. n : home[c] = {x \in home[par[c]] : Open(v[par[c]].keys, at[c], x)}
    /\ \A c \in 1 .. n : band[c] = {x \in band[par[c]] : Closed(v[par[c]].keys, at[c], x)}
    /\ \A p \in 0 .. n : home[p] \subseteq band[p]
    /\ \A p, q \in 1 .. n : v[p].leaf /\ v[q].leaf /\ p # q => home[p] \cap home[q] = {}

Arranged(nd, B) ==
    /\ SortedKeys(nd.keys)
    /\ \A m \in 1 .. Len(nd.keys) : Clean(nd.keys[m]) /\ Real(nd.keys[m]) \in B

\* A word in a leaf leads there, or separates two nodes; and a word that
\* separates two nodes is in the leaf it leads to.
Has(nd, x) == \E m \in 1 .. Len(nd.keys) : Real(nd.keys[m]) = x
SepWords(n, v) == {x \in Words : \E p \in 0 .. n : ~v[p].leaf /\ Has(v[p], x)}
Placed(nd, H, W) ==
    /\ \A x \in Words : Has(nd, x) => x \in H \cup W
    /\ \A x \in W \cap H : Has(nd, x)

TreeOf(n, v, par, at, home, band) ==
    /\ Shape(n, v, par, at) /\ Zone(n, home) /\ Zone(n, band)
    /\ Zones(n, v, par, at, home, band)
    /\ \A p \in 0 .. n : Arranged(v[p], band[p])
    /\ \A p \in 1 .. n : v[p].leaf => Placed(v[p], home[p], SepWords(n, v))

\* The pairs of the leaves.
PairsIn(n, v) ==
    {q \in Words \X Nat : \E p \in 1 .. n : /\ v[p].leaf
                                            /\ \E m \in 1 .. Len(v[p].keys) :
                                                  q = <<Real(v[p].keys[m]), v[p].vals[m]>>}

\* The types of a node's parts.
LEMMA NodeParts ==
    ASSUME NEW n, NEW v, IsTree(n, v), NEW p \in 0 .. n
    PROVE  /\ v[p] \in Node /\ v[p].leaf \in BOOLEAN /\ v[p].first \in Nat
           /\ v[p].keys \in Seq(Slot) /\ v[p].vals \in Seq(Nat)
           /\ Len(v[p].vals) = Len(v[p].keys) /\ Len(v[p].keys) \in Nat
           /\ \A m \in 1 .. Len(v[p].keys) : /\ v[p].keys[m] \in Slot /\ v[p].keys[m] \in Strings
                                             /\ Real(v[p].keys[m]) \in Words /\ v[p].vals[m] \in Nat
<1>1. v[p] \in Node /\ Len(v[p].vals) = Len(v[p].keys)
  BY DEF IsTree
<1>2. v[p].leaf \in BOOLEAN /\ v[p].first \in Nat /\ v[p].keys \in Seq(Slot) /\ v[p].vals \in Seq(Nat)
  BY <1>1 DEF Node
<1>3. Len(v[p].keys) \in Nat /\ \A m \in 1 .. Len(v[p].keys) : v[p].keys[m] \in Slot /\ v[p].keys[m] \in Strings
  BY <1>2, SlotsAreStrings
<1>4. \A m \in 1 .. Len(v[p].keys) : v[p].vals[m] \in Nat
  BY <1>1, <1>2
<1>5. \A m \in 1 .. Len(v[p].keys) : Real(v[p].keys[m]) \in Words
  BY <1>3, RealEffect
<1> QED  BY <1>1, <1>2, <1>3, <1>4, <1>5

\* A word and a string that stands for it compare alike.
LEMMA StandsFor ==
    ASSUME NEW s \in Strings, NEW t \in Strings
    PROVE  /\ Real(s) \in Strings
           /\ Below(Real(s), t) <=> Below(s, t)
           /\ Below(t, Real(s)) <=> Below(t, s)
<1>1. Real(s) \in Strings /\ Real(Real(s)) = Real(s)
  BY RealEffect, WordIsReal
<1> QED  BY <1>1 DEF Below

-----------------------------------------------------------------------------
(* A leaf takes an entry.                                                  *)

\* A node whose arrays have one entry more.
Added(nd, old, pos, slot, r) ==
    /\ nd.leaf = old.leaf /\ nd.first = old.first
    /\ nd.keys = InsertAt(old.keys, pos + 1, slot)
    /\ nd.vals = InsertAt(old.vals, pos + 1, r)

\* Its entries are the old ones and the new.
OneMore(nd, old, slot, r) ==
    /\ \A m \in 1 .. Len(nd.keys) :
          \/ nd.keys[m] = slot /\ nd.vals[m] = r
          \/ \E i \in 1 .. Len(old.keys) : nd.keys[m] = old.keys[i] /\ nd.vals[m] = old.vals[i]
    /\ \A i \in 1 .. Len(old.keys) :
          \E m \in 1 .. Len(nd.keys) : nd.keys[m] = old.keys[i] /\ nd.vals[m] = old.vals[i]
    /\ \E m \in 1 .. Len(nd.keys) : nd.keys[m] = slot /\ nd.vals[m] = r

\* That is what it has.
LEMMA AddedEntries ==
    ASSUME NEW old, old.keys \in Seq(Slot), old.vals \in Seq(Nat), Len(old.vals) = Len(old.keys),
           NEW pos \in 0 .. Len(old.keys), NEW slot \in Slot, NEW r \in Nat,
           NEW nd, Added(nd, old, pos, slot, r)
    PROVE  /\ Len(nd.keys) = Len(old.keys) + 1 /\ Len(nd.vals) = Len(nd.keys)
           /\ nd.keys \in Seq(Slot) /\ nd.vals \in Seq(Nat)
           /\ Shifted(nd.keys, old.keys, pos, slot) /\ Shifted(nd.vals, old.vals, pos, r)
           /\ OneMore(nd, old, slot, r)
<1> DEFINE ss == old.keys  vs == old.vals  t == InsertAt(ss, pos + 1, slot)  u == InsertAt(vs, pos + 1, r)
           n == Len(ss)
<1>0. n \in Nat /\ pos \in 0 .. n /\ pos \in 0 .. Len(vs) /\ Len(vs) = n
  OBVIOUS
<1>a. t \in Seq(Slot) /\ Len(t) = n + 1 /\ Shifted(t, ss, pos, slot)
  <2> HIDE DEF Slot
  <2> QED  BY InsertAtEffect, ZenonT(60)
<1>b. u \in Seq(Nat) /\ Len(u) = n + 1 /\ Shifted(u, vs, pos, r)
  <2>1. u \in Seq(Nat) /\ Len(u) = Len(vs) + 1 /\ Shifted(u, vs, pos, r)
    BY <1>0, InsertAtEffect, ZenonT(60)
  <2> QED  BY <2>1, <1>0
<1> HIDE DEF t, u
<1>1. /\ \A i \in 1 .. pos : t[i] = ss[i] /\ u[i] = vs[i]
      /\ t[pos + 1] = slot /\ u[pos + 1] = r
      /\ \A i \in pos + 1 .. n : t[i + 1] = ss[i] /\ u[i + 1] = vs[i]
  BY <1>a, <1>b, <1>0 DEF Shifted
<1>2. ASSUME NEW m \in 1 .. n + 1
      PROVE  \/ t[m] = slot /\ u[m] = r
             \/ \E i \in 1 .. n : t[m] = ss[i] /\ u[m] = vs[i]
  <2>1. CASE m <= pos
    <3>1. m \in 1 .. pos /\ m \in 1 .. n
      BY <2>1, <1>0
    <3> QED  BY <3>1, <1>1
  <2>2. CASE m = pos + 1
    BY <2>2, <1>1
  <2>3. CASE m > pos + 1
    <3>1. m - 1 \in pos + 1 .. n /\ m - 1 \in 1 .. n /\ (m - 1) + 1 = m
      BY <2>3, <1>0
    <3> QED  BY <3>1, <1>1
  <2> QED  BY <2>1, <2>2, <2>3, <1>0
<1>3. ASSUME NEW i \in 1 .. n PROVE \E m \in 1 .. n + 1 : t[m] = ss[i] /\ u[m] = vs[i]
  <2>1. CASE i <= pos
    <3>1. i \in 1 .. pos /\ i \in 1 .. n + 1
      BY <2>1, <1>0
    <3> QED  BY <3>1, <1>1
  <2>2. CASE i > pos
    <3>1. i \in pos + 1 .. n /\ i + 1 \in 1 .. n + 1
      BY <2>2, <1>0
    <3> QED  BY <3>1, <1>1
  <2> QED  BY <2>1, <2>2, <1>0
<1>4. \E m \in 1 .. n + 1 : t[m] = slot /\ u[m] = r
  <2>1. pos + 1 \in 1 .. n + 1
    BY <1>0
  <2> QED  BY <2>1, <1>1
<1>5. nd.keys = t /\ nd.vals = u
  BY DEF Added, t, u
<1> QED  BY <1>a, <1>b, <1>2, <1>3, <1>4, <1>5, ZenonT(60) DEF OneMore

\* A key is put into the leaf it leads to.
LEMMA LeafGrows ==
    ASSUME NEW n, NEW v, IsTree(n, v), NEW w, IsTree(n, w),
           NEW par, NEW at, NEW home, NEW band, TreeOf(n, v, par, at, home, band),
           NEW p \in 1 .. n, v[p].leaf, \A q \in 0 .. n : q # p => w[q] = v[q],
           NEW k \in Words, k \in home[p], NEW slot \in Slot, Real(slot) = k, Clean(slot), NEW r \in Nat,
           Added(w[p], v[p], LeafPos(v[p], k), slot, r)
    PROVE  /\ TreeOf(n, w, par, at, home, band)
           /\ PairsIn(n, w) = PairsIn(n, v) \cup {<<k, r>>}
<1> DEFINE ss == v[p].keys  pos == LeafPos(v[p], k)
<1>0. /\ n \in Nat /\ p \in 0 .. n /\ k \in Strings /\ slot \in Strings /\ Same(slot, k)
      /\ ss \in Seq(Slot) /\ v[p].vals \in Seq(Nat) /\ Len(v[p].vals) = Len(ss)
      /\ SortedKeys(ss)
  <2>1. n \in Nat /\ p \in 0 .. n
    BY DEF IsTree
  <2>2. k \in Strings /\ slot \in Strings /\ Same(slot, k)
    BY Stringed, WordIsReal DEF Same
  <2>3. SortedKeys(ss)
    BY <2>1 DEF TreeOf, Arranged
  <2> QED  BY <2>1, <2>2, <2>3, NodeParts
<1>1. pos \in 0 .. Len(ss) /\ SortedKeys(w[p].keys)
  <2>1. pos \in 0 .. Len(ss) /\ SortedKeys(InsertAt(ss, pos + 1, slot))
    BY <1>0, LeafStaysSorted
  <2> QED  BY <2>1 DEF Added
<1>2. /\ w[p].leaf = v[p].leaf
      /\ \A m \in 1 .. Len(w[p].keys) :
            \/ w[p].keys[m] = slot /\ w[p].vals[m] = r
            \/ \E i \in 1 .. Len(ss) : w[p].keys[m] = ss[i] /\ w[p].vals[m] = v[p].vals[i]
      /\ \A i \in 1 .. Len(ss) :
            \E m \in 1 .. Len(w[p].keys) : w[p].keys[m] = ss[i] /\ w[p].vals[m] = v[p].vals[i]
      /\ \E m \in 1 .. Len(w[p].keys) : w[p].keys[m] = slot /\ w[p].vals[m] = r
  <2>1. w[p].leaf = v[p].leaf
    BY DEF Added
  <2> HIDE DEF pos
  <2>2. Added(w[p], v[p], pos, slot, r)
    BY DEF pos
  <2>3. OneMore(w[p], v[p], slot, r)
    BY <2>2, <1>0, <1>1, AddedEntries
  <2> QED  BY <2>1, <2>3 DEF OneMore
<1> HIDE DEF pos
<1>3. \A q \in 0 .. n : w[q].leaf = v[q].leaf /\ (~v[q].leaf => w[q] = v[q])
  BY <1>2
<1>4. Shape(n, w, par, at)
  <2>1. Shape(n, v, par, at)
    BY DEF TreeOf
  <2>2. \A c \in 1 .. n : par[c] \in 0 .. n /\ ~v[par[c]].leaf
    BY <2>1 DEF Shape
  <2>3. \A c \in 1 .. n : w[par[c]] = v[par[c]]
    BY <2>2, <1>3
  <2> QED  BY <2>1, <2>3, <1>3, SMTT(30) DEF Shape
<1>5. Zones(n, w, par, at, home, band)
  <2>1. Zones(n, v, par, at, home, band)
    BY DEF TreeOf
  <2>2. \A c \in 1 .. n : par[c] \in 0 .. n /\ ~v[par[c]].leaf
    BY DEF Shape, TreeOf
  <2>3. \A c \in 1 .. n : w[par[c]] = v[par[c]]
    BY <2>2, <1>3
  <2>4. \A q \in 1 .. n : w[q].leaf = v[q].leaf
    BY <1>3, <1>0
  <2> QED  BY <2>1, <2>3, <2>4 DEF Zones
<1>6. \A q \in 0 .. n : Arranged(w[q], band[q])
  <2> SUFFICES ASSUME NEW q \in 0 .. n PROVE Arranged(w[q], band[q])
    OBVIOUS
  <2>0. Arranged(v[q], band[q])
    BY DEF TreeOf
  <2>1. CASE q # p
    BY <2>0, <2>1
  <2>2. CASE q = p
    <3>1. k \in band[p]
      BY <1>0 DEF TreeOf, Zones
    <3>2. ASSUME NEW m \in 1 .. Len(w[p].keys) PROVE Clean(w[p].keys[m]) /\ Real(w[p].keys[m]) \in band[p]
      <4>1. CASE w[p].keys[m] = slot
        BY <4>1, <3>1
      <4>2. CASE \E i \in 1 .. Len(ss) : w[p].keys[m] = ss[i]
        BY <4>2, <2>0, <2>2 DEF Arranged
      <4> QED  BY <4>1, <4>2, <1>2
    <3> QED  BY <3>2, <2>2, <1>1 DEF Arranged
  <2> QED  BY <2>1, <2>2
<1>7. SepWords(n, w) = SepWords(n, v)
  BY <1>3 DEF SepWords
<1>8. \A x \in Words : Has(w[p], x) <=> Has(v[p], x) \/ x = k
  <2> SUFFICES ASSUME NEW x \in Words PROVE Has(w[p], x) <=> Has(v[p], x) \/ x = k
    OBVIOUS
  <2>1. ASSUME Has(w[p], x) PROVE Has(v[p], x) \/ x = k
    <3>1. PICK m \in 1 .. Len(w[p].keys) : Real(w[p].keys[m]) = x
      BY <2>1 DEF Has
    <3>2. w[p].keys[m] = slot \/ \E i \in 1 .. Len(ss) : w[p].keys[m] = ss[i]
      BY <1>2
    <3> QED  BY <3>1, <3>2 DEF Has
  <2>2. ASSUME Has(v[p], x) PROVE Has(w[p], x)
    <3>1. PICK i \in 1 .. Len(ss) : Real(ss[i]) = x
      BY <2>2 DEF Has
    <3>2. \E m \in 1 .. Len(w[p].keys) : w[p].keys[m] = ss[i]
      BY <1>2
    <3> QED  BY <3>1, <3>2 DEF Has
  <2>3. Has(w[p], k)
    BY <1>2 DEF Has
  <2> QED  BY <2>1, <2>2, <2>3
<1>9. \A q \in 1 .. n : w[q].leaf => Placed(w[q], home[q], SepWords(n, w))
  <2> SUFFICES ASSUME NEW q \in 1 .. n, w[q].leaf PROVE Placed(w[q], home[q], SepWords(n, v))
    BY <1>7
  <2>0. Placed(v[q], home[q], SepWords(n, v))
    BY <1>3, <1>0 DEF TreeOf
  <2>1. CASE q # p
    BY <2>0, <2>1, <1>0
  <2>2. CASE q = p
    <3>1. \A x \in SepWords(n, v) : x \in Words
      BY DEF SepWords
    <3> QED  BY <3>1, <2>0, <2>2, <1>8 DEF Placed
  <2> QED  BY <2>1, <2>2
<1>10. TreeOf(n, w, par, at, home, band)
  BY <1>4, <1>5, <1>6, <1>9 DEF TreeOf
<1>11. PairsIn(n, w) = PairsIn(n, v) \cup {<<k, r>>}
  <2> DEFINE In(f, q, x) == \E m \in 1 .. Len(f[q].keys) : x = <<Real(f[q].keys[m]), f[q].vals[m]>>
  <2>1. \A x : In(w, p, x) <=> In(v, p, x) \/ x = <<k, r>>
    <3> SUFFICES ASSUME NEW x PROVE In(w, p, x) <=> In(v, p, x) \/ x = <<k, r>>
      OBVIOUS
    <3>1. ASSUME In(w, p, x) PROVE In(v, p, x) \/ x = <<k, r>>
      <4>1. PICK m \in 1 .. Len(w[p].keys) : x = <<Real(w[p].keys[m]), w[p].vals[m]>>
        BY <3>1
      <4>2. \/ w[p].keys[m] = slot /\ w[p].vals[m] = r
            \/ \E i \in 1 .. Len(ss) : w[p].keys[m] = ss[i] /\ w[p].vals[m] = v[p].vals[i]
        BY <1>2
      <4> QED  BY <4>1, <4>2
    <3>2. ASSUME In(v, p, x) PROVE In(w, p, x)
      <4>1. PICK i \in 1 .. Len(ss) : x = <<Real(ss[i]), v[p].vals[i]>>
        BY <3>2
      <4>2. \E m \in 1 .. Len(w[p].keys) : w[p].keys[m] = ss[i] /\ w[p].vals[m] = v[p].vals[i]
        BY <1>2
      <4> QED  BY <4>1, <4>2
    <3>3. In(w, p, <<k, r>>)
      BY <1>2
    <3> QED  BY <3>1, <3>2, <3>3
  <2>2. \A q \in 1 .. n : q # p => \A x : In(w, q, x) <=> In(v, q, x)
    BY <1>0, SMTT(30)
  <2>3. PairsIn(n, w) = {x \in Words \X Nat : \E q \in 1 .. n : w[q].leaf /\ In(w, q, x)}
    BY DEF PairsIn
  <2>4. PairsIn(n, v) = {x \in Words \X Nat : \E q \in 1 .. n : v[q].leaf /\ In(v, q, x)}
    BY DEF PairsIn
  <2>5. \A q \in 1 .. n : w[q].leaf = v[q].leaf
    BY <1>3, <1>0
  <2> HIDE DEF In
  <2>6. <<k, r>> \in Words \X Nat
    OBVIOUS
  <2> QED  BY <2>1, <2>2, <2>3, <2>4, <2>5, <2>6
<1> QED  BY <1>10, <1>11

-----------------------------------------------------------------------------
(* A new root.                                                             *)

\* The header names a new page, which has the children it had.
LEMMA TopAdded ==
    ASSUME NEW n, NEW v, IsTree(n, v), NEW w, IsTree(n + 1, w),
           NEW par, NEW at, NEW home, NEW band, TreeOf(n, v, par, at, home, band),
           w[0].first = n + 1, w[0].keys = <<>>, w[n + 1] = v[0], \A q \in 1 .. n : w[q] = v[q]
    PROVE  /\ \E par2, at2, home2, band2 : TreeOf(n + 1, w, par2, at2, home2, band2)
           /\ PairsIn(n + 1, w) = PairsIn(n, v)
<1> DEFINE to(q) == IF q = 0 THEN n + 1 ELSE q
           par2 == [c \in 1 .. n + 1 |-> IF c = n + 1 THEN 0 ELSE to(par[c])]
           at2 == [c \in 1 .. n + 1 |-> IF c = n + 1 THEN 0 ELSE at[c]]
           home2 == [p \in 0 .. n + 1 |-> IF p = n + 1 THEN Words ELSE home[p]]
           band2 == [p \in 0 .. n + 1 |-> IF p = n + 1 THEN Words ELSE band[p]]
<1>0. /\ n \in Nat /\ w[0].leaf = FALSE /\ v[0].leaf = FALSE /\ Len(w[0].keys) = 0
  BY DEF IsTree
<1>1. /\ \A q \in 0 .. n : w[to(q)] = v[q] /\ to(q) \in 1 .. n + 1
      /\ \A p \in 1 .. n + 1 : \E q \in 0 .. n : p = to(q)
      /\ \A q \in 1 .. n : to(q) = q /\ q # n + 1
  <2>1. \A q \in 0 .. n : w[to(q)] = v[q] /\ to(q) \in 1 .. n + 1
    BY <1>0
  <2>2. \A p \in 1 .. n + 1 : \E q \in 0 .. n : p = to(q)
    <3> SUFFICES ASSUME NEW p \in 1 .. n + 1 PROVE \E q \in 0 .. n : p = to(q)
      OBVIOUS
    <3>1. CASE p = n + 1
      <4>1. 0 \in 0 .. n /\ to(0) = p
        BY <3>1, <1>0
      <4> QED  BY <4>1
    <3>2. CASE p # n + 1
      <4>1. p \in 0 .. n /\ to(p) = p
        BY <3>2, <1>0
      <4> QED  BY <4>1
    <3> QED  BY <3>1, <3>2
  <2>3. \A q \in 1 .. n : to(q) = q /\ q # n + 1
    BY <1>0
  <2> QED  BY <2>1, <2>2, <2>3
<1>2. /\ par \in [1 .. n -> 0 .. n] /\ at \in [1 .. n -> Nat]
      /\ \A c \in 1 .. n : /\ ~v[par[c]].leaf /\ at[c] <= Len(v[par[c]].keys)
                           /\ ChildAt(v[par[c]], at[c]) = c
      /\ \A p \in 0 .. n : ~v[p].leaf =>
            \A i \in 0 .. Len(v[p].keys) :
                ChildAt(v[p], i) \in 1 .. n /\ par[ChildAt(v[p], i)] = p /\ at[ChildAt(v[p], i)] = i
  BY DEF TreeOf, Shape
<1>3. /\ \A c \in 1 .. n : c \in 1 .. n + 1 /\ par2[c] = to(par[c]) /\ at2[c] = at[c]
      /\ n + 1 \in 1 .. n + 1 /\ par2[n + 1] = 0 /\ at2[n + 1] = 0
  BY <1>0, <1>1
<1>4. Shape(n + 1, w, par2, at2)
  <2>1. par2 \in [1 .. n + 1 -> 0 .. n + 1]
    <3>1. \A c \in 1 .. n + 1 : c # n + 1 => c \in 1 .. n
      BY <1>0
    <3>2. \A c \in 1 .. n : to(par[c]) \in 0 .. n + 1
      BY <1>1, <1>2, <1>0, SMTT(30)
    <3>3. 0 \in 0 .. n + 1
      BY <1>0
    <3> HIDE DEF to
    <3> QED  BY <3>1, <3>2, <3>3
  <2>2. at2 \in [1 .. n + 1 -> Nat]
    <3>1. \A c \in 1 .. n + 1 : c # n + 1 => c \in 1 .. n
      BY <1>0
    <3> QED  BY <3>1, <1>2
  <2> HIDE DEF par2, at2, to
  <2>3. ASSUME NEW c \in 1 .. n + 1
        PROVE  ~w[par2[c]].leaf /\ at2[c] <= Len(w[par2[c]].keys) /\ ChildAt(w[par2[c]], at2[c]) = c
    <3>1. CASE c = n + 1
      BY <3>1, <1>0, <1>3 DEF ChildAt
    <3>2. CASE c \in 1 .. n
      <4>1. par[c] \in 0 .. n /\ w[par2[c]] = v[par[c]] /\ at2[c] = at[c]
        BY <3>2, <1>1, <1>2, <1>3
      <4> QED  BY <4>1, <3>2, <1>2
    <3> QED  BY <3>1, <3>2, <1>0
  <2>4. ASSUME NEW p \in 0 .. n + 1, ~w[p].leaf, NEW i \in 0 .. Len(w[p].keys)
        PROVE  /\ ChildAt(w[p], i) \in 1 .. n + 1
               /\ par2[ChildAt(w[p], i)] = p /\ at2[ChildAt(w[p], i)] = i
    <3>1. CASE p = 0
      <4>1. i = 0 /\ ChildAt(w[p], i) = n + 1
        BY <3>1, <2>4, <1>0 DEF ChildAt
      <4> QED  BY <4>1, <3>1, <1>3
    <3>2. CASE p # 0
      <4>1. PICK q \in 0 .. n : p = to(q)
        BY <3>2, <1>1, <1>0
      <4>2. w[p] = v[q]
        BY <4>1, <1>1
      <4>3. ChildAt(v[q], i) \in 1 .. n /\ par[ChildAt(v[q], i)] = q /\ at[ChildAt(v[q], i)] = i
        BY <4>2, <2>4, <1>2
      <4> QED  BY <4>1, <4>2, <4>3, <1>3
    <3> QED  BY <3>1, <3>2
  <2> QED  BY <2>1, <2>2, <2>3, <2>4 DEF Shape
<1>5. Zone(n, home) /\ Zone(n, band) /\ Zones(n, v, par, at, home, band)
  BY DEF TreeOf
<1>6. /\ Zone(n + 1, home2) /\ Zone(n + 1, band2)
      /\ \A q \in 0 .. n : home2[q] = home[q] /\ band2[q] = band[q]
      /\ \A q \in 0 .. n : home2[to(q)] = home[q] /\ band2[to(q)] = band[q]
      /\ home2[0] = Words /\ band2[0] = Words /\ home2[n + 1] = Words /\ band2[n + 1] = Words
  <2>1. \A q \in 0 .. n + 1 : q # n + 1 => q \in 0 .. n
    BY <1>0
  <2>2. 0 \in 0 .. n /\ 0 # n + 1 /\ n + 1 \in 0 .. n + 1
    BY <1>0
  <2>3. home \in [0 .. n -> SUBSET Words] /\ home[0] = Words /\ band \in [0 .. n -> SUBSET Words] /\ band[0] = Words
    BY <1>5 DEF Zone
  <2>4. Zone(n + 1, home2) /\ Zone(n + 1, band2)
    <3>1. home2 \in [0 .. n + 1 -> SUBSET Words] /\ band2 \in [0 .. n + 1 -> SUBSET Words]
      BY <2>1, <2>3
    <3>2. home2[0] = Words /\ band2[0] = Words
      BY <2>2, <2>3, <1>0
    <3> QED  BY <3>1, <3>2 DEF Zone
  <2>5. \A q \in 0 .. n : q \in 0 .. n + 1 /\ q # n + 1
    BY <1>0
  <2>6. \A q \in 0 .. n : home2[q] = home[q] /\ band2[q] = band[q]
    BY <2>5
  <2>7. home2[n + 1] = Words /\ band2[n + 1] = Words
    BY <2>2
  <2> HIDE DEF home2, band2
  <2>8. \A q \in 0 .. n : home2[to(q)] = home[q] /\ band2[to(q)] = band[q]
    BY <2>3, <2>6, <2>7
  <2> QED  BY <2>2, <2>3, <2>4, <2>6, <2>7, <2>8
<1> HIDE DEF par2, at2, home2, band2
<1>7. Zones(n + 1, w, par2, at2, home2, band2)
  <2>1. ASSUME NEW c \in 1 .. n + 1
        PROVE  /\ home2[c] = {x \in home2[par2[c]] : Open(w[par2[c]].keys, at2[c], x)}
               /\ band2[c] = {x \in band2[par2[c]] : Closed(w[par2[c]].keys, at2[c], x)}
    <3>1. CASE c = n + 1
      <4>1. w[par2[c]].keys = <<>> /\ home2[par2[c]] = Words /\ band2[par2[c]] = Words
        BY <3>1, <1>3, <1>6
      <4>2. \A x : Open(w[par2[c]].keys, at2[c], x) /\ Closed(w[par2[c]].keys, at2[c], x)
        BY <4>1 DEF Open, Closed, Cut
      <4> QED  BY <4>1, <4>2, <3>1, <1>6
    <3>2. CASE c \in 1 .. n
      <4>1. par[c] \in 0 .. n /\ c \in 0 .. n
        BY <3>2, <1>2
      <4>2. /\ w[par2[c]] = v[par[c]] /\ at2[c] = at[c]
            /\ home2[par2[c]] = home[par[c]] /\ band2[par2[c]] = band[par[c]]
            /\ home2[c] = home[c] /\ band2[c] = band[c]
        BY <3>2, <4>1, <1>1, <1>3, <1>6
      <4>3. /\ home[c] = {x \in home[par[c]] : Open(v[par[c]].keys, at[c], x)}
            /\ band[c] = {x \in band[par[c]] : Closed(v[par[c]].keys, at[c], x)}
        BY <3>2, <1>5 DEF Zones
      <4> QED  BY <4>2, <4>3
    <3> QED  BY <3>1, <3>2, <1>0
  <2>2. \A p \in 0 .. n + 1 : home2[p] \subseteq band2[p]
    <3>1. \A p \in 0 .. n + 1 : p = n + 1 \/ p \in 0 .. n
      BY <1>0
    <3>2. \A p \in 0 .. n : home[p] \subseteq band[p]
      BY <1>5 DEF Zones
    <3> QED  BY <3>1, <3>2, <1>6
  <2>3. ASSUME NEW p \in 1 .. n + 1, NEW q \in 1 .. n + 1, w[p].leaf, w[q].leaf, p # q
        PROVE  home2[p] \cap home2[q] = {}
    <3>1. p # n + 1 /\ q # n + 1
      BY <2>3, <1>0
    <3>2. p \in 1 .. n /\ q \in 1 .. n /\ p \in 0 .. n /\ q \in 0 .. n
      BY <3>1, <1>0
    <3>3. home[p] \cap home[q] = {}
      BY <3>2, <2>3, <1>5 DEF Zones
    <3> QED  BY <3>2, <3>3, <1>6
  <2> QED  BY <2>1, <2>2, <2>3 DEF Zones
<1> HIDE DEF to
<1>8. \A p \in 0 .. n + 1 : Arranged(w[p], band2[p])
  <2> SUFFICES ASSUME NEW p \in 0 .. n + 1 PROVE Arranged(w[p], band2[p])
    OBVIOUS
  <2>0. \A q \in 0 .. n : Arranged(v[q], band[q])
    BY DEF TreeOf
  <2>1. CASE p = 0
    BY <2>1, <1>0 DEF Arranged, SortedKeys
  <2>2. CASE p # 0
    <3>1. PICK q \in 0 .. n : p = to(q)
      BY <2>2, <1>1, <1>0
    <3> QED  BY <3>1, <2>0, <1>1, <1>6
  <2> QED  BY <2>1, <2>2
<1>9. SepWords(n + 1, w) = SepWords(n, v)
  <2> SUFFICES ASSUME NEW x \in Words
               PROVE  (\E p \in 0 .. n + 1 : ~w[p].leaf /\ Has(w[p], x)) <=> (\E p \in 0 .. n : ~v[p].leaf /\ Has(v[p], x))
    BY DEF SepWords
  <2>1. ASSUME NEW p \in 0 .. n + 1, ~w[p].leaf, Has(w[p], x) PROVE \E q \in 0 .. n : ~v[q].leaf /\ Has(v[q], x)
    <3>1. p # 0
      BY <2>1, <1>0 DEF Has
    <3>2. PICK q \in 0 .. n : p = to(q)
      BY <3>1, <1>1, <1>0
    <3> QED  BY <3>2, <2>1, <1>1
  <2>2. ASSUME NEW q \in 0 .. n, ~v[q].leaf, Has(v[q], x) PROVE \E p \in 0 .. n + 1 : ~w[p].leaf /\ Has(w[p], x)
    <3>1. to(q) \in 0 .. n + 1 /\ w[to(q)] = v[q]
      BY <1>0, <1>1
    <3> QED  BY <3>1, <2>2
  <2> QED  BY <2>1, <2>2
<1>10. ASSUME NEW p \in 1 .. n + 1, w[p].leaf PROVE Placed(w[p], home2[p], SepWords(n + 1, w))
  <2>1. p # n + 1
    BY <1>10, <1>0
  <2>2. p \in 1 .. n /\ p \in 0 .. n
    BY <2>1, <1>0
  <2>3. Placed(v[p], home[p], SepWords(n, v))
    BY <2>2, <1>10 DEF TreeOf
  <2> QED  BY <2>2, <2>3, <1>6, <1>9
<1>11. TreeOf(n + 1, w, par2, at2, home2, band2)
  BY <1>4, <1>6, <1>7, <1>8, <1>10 DEF TreeOf
<1>12. PairsIn(n + 1, w) = PairsIn(n, v)
  <2> DEFINE In(f, q, x) == f[q].leaf /\ \E m \in 1 .. Len(f[q].keys) : x = <<Real(f[q].keys[m]), f[q].vals[m]>>
  <2>1. PairsIn(n + 1, w) = {x \in Words \X Nat : \E q \in 1 .. n + 1 : In(w, q, x)}
    BY DEF PairsIn
  <2>2. PairsIn(n, v) = {x \in Words \X Nat : \E q \in 1 .. n : In(v, q, x)}
    BY DEF PairsIn
  <2>3. \A q \in 1 .. n : \A x : In(w, q, x) <=> In(v, q, x)
    OBVIOUS
  <2>4. \A x : ~In(w, n + 1, x)
    BY <1>0
  <2> HIDE DEF In
  <2>5. \A q \in 1 .. n + 1 : q = n + 1 \/ q \in 1 .. n
    BY <1>0
  <2>6. \A q \in 1 .. n : q \in 1 .. n + 1
    BY <1>0
  <2> QED  BY <2>1, <2>2, <2>3, <2>4, <2>5, <2>6
<1> QED  BY <1>11, <1>12

-----------------------------------------------------------------------------
(* A node is split.                                                        *)

\* Q keeps the first half of its entries, a new page gets the rest, and P, its
\* parent at place ci, gets the key between them.  A leaf keeps that entry, an
\* inner node gives it away.
Parted(n, v, w, P, ci, Q, half) ==
    /\ \A q \in 0 .. n : q # P /\ q # Q => w[q] = v[q]
    /\ w[Q].leaf = v[Q].leaf /\ w[Q].first = v[Q].first
    /\ w[Q].keys = SubSeq(v[Q].keys, 1, half) /\ w[Q].vals = SubSeq(v[Q].vals, 1, half)
    /\ w[n + 1].leaf = v[Q].leaf
    /\ v[Q].leaf => /\ w[n + 1].keys = SubSeq(v[Q].keys, half + 1, Len(v[Q].keys))
                    /\ w[n + 1].vals = SubSeq(v[Q].vals, half + 1, Len(v[Q].vals))
    /\ ~v[Q].leaf => /\ w[n + 1].first = v[Q].vals[half + 1]
                     /\ w[n + 1].keys = SubSeq(v[Q].keys, half + 2, Len(v[Q].keys))
                     /\ w[n + 1].vals = SubSeq(v[Q].vals, half + 2, Len(v[Q].vals))
    /\ Added(w[P], v[P], ci, v[Q].keys[half + 1], n + 1)

Split(n, v, w, par, at, home, band, P, ci, Q, half) ==
    /\ IsTree(n, v) /\ IsTree(n + 1, w) /\ TreeOf(n, v, par, at, home, band)
    /\ Q \in 1 .. n /\ P = par[Q] /\ ci = at[Q] /\ P # Q
    /\ half \in Nat /\ half < Len(v[Q].keys)
    /\ Parted(n, v, w, P, ci, Q, half)

\* The facts that every part of the proof needs.
LEMMA SplitFacts ==
    ASSUME NEW n, NEW v, NEW w, NEW par, NEW at, NEW home, NEW band, NEW P, NEW ci, NEW Q, NEW half,
           Split(n, v, w, par, at, home, band, P, ci, Q, half)
    PROVE  /\ n \in Nat /\ Q \in 1 .. n /\ Q \in 0 .. n /\ P \in 0 .. n /\ P # Q /\ n + 1 # P /\ n + 1 # Q
           /\ ~v[P].leaf /\ ci \in 0 .. Len(v[P].keys) /\ ChildAt(v[P], ci) = Q
           /\ half \in 0 .. Len(v[Q].keys) - 1 /\ half \in Nat /\ half + 1 \in 1 .. Len(v[Q].keys)
           /\ \A q \in 0 .. n + 1 : q = n + 1 \/ q \in 0 .. n
           /\ \A q \in 1 .. n + 1 : q = n + 1 \/ q \in 1 .. n
<1>1. n \in Nat /\ Q \in 1 .. n /\ P = par[Q] /\ ci = at[Q] /\ P # Q /\ half \in Nat /\ half < Len(v[Q].keys)
  BY DEF Split, IsTree
<1>2. Shape(n, v, par, at)
  BY DEF Split, TreeOf
<1>3. P \in 0 .. n /\ ~v[P].leaf /\ ci \in Nat /\ ci <= Len(v[P].keys) /\ ChildAt(v[P], ci) = Q
  BY <1>1, <1>2 DEF Shape
<1>4. Len(v[P].keys) \in Nat /\ Len(v[Q].keys) \in Nat
  <2>1. Q \in 0 .. n
    BY <1>1
  <2> QED  BY <2>1, <1>3, NodeParts DEF Split
<1> QED  BY <1>1, <1>3, <1>4

\* Where the children are.
Places(n, v, w, P, ci, Q, half) ==
    /\ Len(w[P].keys) = Len(v[P].keys) + 1
    /\ \A j \in 0 .. Len(v[P].keys) : /\ j <= ci => ChildAt(w[P], j) = ChildAt(v[P], j)
                                      /\ j > ci => ChildAt(w[P], j + 1) = ChildAt(v[P], j)
    /\ ChildAt(w[P], ci + 1) = n + 1
    /\ ~v[Q].leaf => /\ Len(w[Q].keys) = half /\ Len(w[n + 1].keys) = Len(v[Q].keys) - half - 1
                     /\ \A j \in 0 .. half : ChildAt(w[Q], j) = ChildAt(v[Q], j)
                     /\ \A j \in half + 1 .. Len(v[Q].keys) :
                           ChildAt(w[n + 1], j - half - 1) = ChildAt(v[Q], j)

\* The halves and the node that takes the separator have them there.
LEMMA SplitPlaces ==
    ASSUME NEW n, NEW v, NEW w, NEW par, NEW at, NEW home, NEW band, NEW P, NEW ci, NEW Q, NEW half,
           Split(n, v, w, par, at, home, band, P, ci, Q, half)
    PROVE  Places(n, v, w, P, ci, Q, half)
<1>0. /\ n \in Nat /\ Q \in 0 .. n /\ P \in 0 .. n /\ ci \in 0 .. Len(v[P].keys)
      /\ half \in 0 .. Len(v[Q].keys) - 1 /\ half \in Nat /\ half + 1 \in 1 .. Len(v[Q].keys)
  BY SplitFacts
<1>1. Parted(n, v, w, P, ci, Q, half) /\ IsTree(n, v)
  BY DEF Split
<1>2. /\ v[P].keys \in Seq(Slot) /\ v[P].vals \in Seq(Nat) /\ Len(v[P].vals) = Len(v[P].keys)
      /\ Len(v[P].keys) \in Nat
      /\ v[Q].keys \in Seq(Slot) /\ v[Q].vals \in Seq(Nat) /\ Len(v[Q].vals) = Len(v[Q].keys)
      /\ Len(v[Q].keys) \in Nat /\ v[Q].keys[half + 1] \in Slot
  BY <1>0, <1>1, NodeParts, SMTT(30)
<1>3. Added(w[P], v[P], ci, v[Q].keys[half + 1], n + 1)
  BY <1>1 DEF Parted
<1>4. Len(w[P].keys) = Len(v[P].keys) + 1 /\ Shifted(w[P].vals, v[P].vals, ci, n + 1)
  <2> DEFINE sep == v[Q].keys[half + 1]
  <2>1. n + 1 \in Nat /\ sep \in Slot /\ Added(w[P], v[P], ci, sep, n + 1)
    BY <1>0, <1>2, <1>3
  <2>2. /\ v[P].keys \in Seq(Slot) /\ v[P].vals \in Seq(Nat) /\ Len(v[P].vals) = Len(v[P].keys)
        /\ ci \in 0 .. Len(v[P].keys)
    BY <1>0, <1>2
  <2> HIDE DEF sep
  <2> QED  BY <2>1, <2>2, AddedEntries, ZenonT(60)
<1>5. ASSUME NEW j \in 0 .. Len(v[P].keys)
      PROVE  /\ j <= ci => ChildAt(w[P], j) = ChildAt(v[P], j)
             /\ j > ci => ChildAt(w[P], j + 1) = ChildAt(v[P], j)
  <2>1. w[P].first = v[P].first
    BY <1>3 DEF Added
  <2>2. /\ \A i \in 1 .. ci : w[P].vals[i] = v[P].vals[i]
        /\ \A i \in ci + 1 .. Len(v[P].keys) : w[P].vals[i + 1] = v[P].vals[i]
    BY <1>2, <1>4 DEF Shifted
  <2>3. CASE j = 0
    BY <2>1, <2>3, <1>0, <1>2 DEF ChildAt
  <2>4. CASE j # 0 /\ j <= ci
    <3>1. j \in 1 .. ci
      BY <2>4, <1>0
    <3> QED  BY <3>1, <2>2, <2>4, <1>0 DEF ChildAt
  <2>5. CASE j # 0 /\ j > ci
    <3>1. j \in ci + 1 .. Len(v[P].keys) /\ j + 1 # 0 /\ ~(j <= ci)
      BY <2>5, <1>0
    <3> QED  BY <3>1, <2>2, <2>5 DEF ChildAt
  <2> QED  BY <2>3, <2>4, <2>5, <1>0
<1>6. ChildAt(w[P], ci + 1) = n + 1
  <2>1. w[P].vals[ci + 1] = n + 1 /\ ci + 1 # 0
    BY <1>4, <1>0 DEF Shifted
  <2> QED  BY <2>1 DEF ChildAt
<1>7. ASSUME ~v[Q].leaf
      PROVE  /\ Len(w[Q].keys) = half /\ Len(w[n + 1].keys) = Len(v[Q].keys) - half - 1
             /\ \A j \in 0 .. half : ChildAt(w[Q], j) = ChildAt(v[Q], j)
             /\ \A j \in half + 1 .. Len(v[Q].keys) : ChildAt(w[n + 1], j - half - 1) = ChildAt(v[Q], j)
  <2> DEFINE L == Len(v[Q].keys)
  <2>1. /\ w[Q].first = v[Q].first /\ w[Q].keys = SubSeq(v[Q].keys, 1, half) /\ w[Q].vals = SubSeq(v[Q].vals, 1, half)
        /\ w[n + 1].first = v[Q].vals[half + 1]
        /\ w[n + 1].keys = SubSeq(v[Q].keys, half + 2, L)
        /\ w[n + 1].vals = SubSeq(v[Q].vals, half + 2, L)
    BY <1>1, <1>2, <1>7 DEF Parted
  <2>a. L \in Nat /\ half \in 0 .. L - 1 /\ half \in Nat /\ Len(v[Q].vals) = L /\ L = Len(v[Q].keys)
    BY <1>0, <1>2
  <2>b. v[Q].keys \in Seq(Slot) /\ v[Q].vals \in Seq(Nat)
    BY <1>2
  <2> HIDE DEF L
  <2>2. 1 \in 1 .. L + 1 /\ half \in 0 .. L /\ half + 2 \in 1 .. L + 1 /\ L \in 0 .. L /\ 1 <= half + 1 /\ half + 2 <= L + 1
    BY <2>a
  <2>3. Len(w[Q].keys) = half - 1 + 1 /\ Len(w[n + 1].keys) = L - (half + 2) + 1
    <3>1. Len(w[Q].keys) = half - 1 + 1
      BY <2>1, <2>2, <2>a, <2>b, PartEffect
    <3>2. Len(w[n + 1].keys) = L - (half + 2) + 1
      <4>1. half + 2 \in 1 .. Len(v[Q].keys) + 1 /\ L \in 0 .. Len(v[Q].keys) /\ half + 2 <= L + 1
        BY <2>2, <2>a
      <4>2. Len(SubSeq(v[Q].keys, half + 2, L)) = L - (half + 2) + 1
        BY <4>1, <2>b, PartEffect, SMTT(30)
      <4> QED  BY <4>2, <2>1
    <3> QED  BY <3>1, <3>2
  <2>4. /\ Len(w[Q].vals) = half - 1 + 1 /\ \A i \in 1 .. Len(w[Q].vals) : w[Q].vals[i] = v[Q].vals[1 + i - 1]
        /\ Len(w[n + 1].vals) = L - (half + 2) + 1
        /\ \A i \in 1 .. Len(w[n + 1].vals) : w[n + 1].vals[i] = v[Q].vals[half + 2 + i - 1]
    <3>1. Len(w[Q].vals) = half - 1 + 1 /\ \A i \in 1 .. Len(w[Q].vals) : w[Q].vals[i] = v[Q].vals[1 + i - 1]
      BY <2>1, <2>2, <2>a, <2>b, PartEffect
    <3>2. /\ Len(w[n + 1].vals) = L - (half + 2) + 1
          /\ \A i \in 1 .. Len(w[n + 1].vals) : w[n + 1].vals[i] = v[Q].vals[half + 2 + i - 1]
      BY <2>1, <2>2, <2>a, <2>b, PartEffect
    <3> QED  BY <3>1, <3>2
  <2>5. half - 1 + 1 = half /\ L - (half + 2) + 1 = L - half - 1
    BY <2>a
  <2>6. ASSUME NEW j \in 0 .. half PROVE ChildAt(w[Q], j) = ChildAt(v[Q], j)
    <3>1. CASE j = 0
      BY <3>1, <2>1 DEF ChildAt
    <3>2. CASE j # 0
      <4>1. j \in 1 .. half /\ 1 + j - 1 = j
        BY <3>2, <1>0
      <4> QED  BY <4>1, <3>2, <2>4, <2>5 DEF ChildAt
    <3> QED  BY <3>1, <3>2
  <2>7. ASSUME NEW j \in half + 1 .. L PROVE ChildAt(w[n + 1], j - half - 1) = ChildAt(v[Q], j)
    <3>0. j # 0
      BY <1>0
    <3>1. CASE j = half + 1
      <4>1. j - half - 1 = 0
        BY <3>1, <1>0
      <4> QED  BY <3>0, <3>1, <4>1, <2>1 DEF ChildAt
    <3>2. CASE j # half + 1
      <4>1. /\ j - half - 1 \in 1 .. L - half - 1 /\ j - half - 1 # 0
            /\ half + 2 + (j - half - 1) - 1 = j
        BY <3>2, <2>a
      <4>2. w[n + 1].vals[j - half - 1] = v[Q].vals[half + 2 + (j - half - 1) - 1]
        BY <4>1, <2>4, <2>5
      <4> QED  BY <3>0, <4>1, <4>2 DEF ChildAt
    <3> QED  BY <3>1, <3>2
  <2> QED  BY <2>3, <2>5, <2>6, <2>7, <2>a
<1> QED  BY <1>4, <1>5, <1>6, <1>7 DEF Places

\* The parents and the places of the pages afterwards.
NewPar(n, par, at, P, Q, half) ==
    [c \in 1 .. n + 1 |-> IF c = n + 1 THEN P ELSE IF par[c] = Q /\ at[c] > half THEN n + 1 ELSE par[c]]
NewAt(n, par, at, P, ci, Q, half) ==
    [c \in 1 .. n + 1 |-> IF c = n + 1 THEN ci + 1
                          ELSE IF par[c] = P THEN (IF at[c] <= ci THEN at[c] ELSE at[c] + 1)
                          ELSE IF par[c] = Q /\ at[c] > half THEN at[c] - half - 1 ELSE at[c]]

\* With those every page is again the child of one node, at one place.
LEMMA SplitShape ==
    ASSUME NEW n, NEW v, NEW w, NEW par, NEW at, NEW home, NEW band, NEW P, NEW ci, NEW Q, NEW half,
           Split(n, v, w, par, at, home, band, P, ci, Q, half)
    PROVE  Shape(n + 1, w, NewPar(n, par, at, P, Q, half), NewAt(n, par, at, P, ci, Q, half))
<1> DEFINE np == NewPar(n, par, at, P, Q, half)  na == NewAt(n, par, at, P, ci, Q, half)
<1>0. /\ n \in Nat /\ Q \in 1 .. n /\ Q \in 0 .. n /\ P \in 0 .. n /\ P # Q /\ n + 1 # P /\ n + 1 # Q
      /\ ~v[P].leaf /\ ci \in 0 .. Len(v[P].keys) /\ ChildAt(v[P], ci) = Q
      /\ half \in 0 .. Len(v[Q].keys) - 1 /\ half \in Nat
      /\ \A q \in 0 .. n + 1 : q = n + 1 \/ q \in 0 .. n
      /\ \A q \in 1 .. n + 1 : q = n + 1 \/ q \in 1 .. n
  BY SplitFacts
<1>1. /\ par \in [1 .. n -> 0 .. n] /\ at \in [1 .. n -> Nat]
      /\ \A c \in 1 .. n : /\ ~v[par[c]].leaf /\ at[c] <= Len(v[par[c]].keys)
                           /\ ChildAt(v[par[c]], at[c]) = c
      /\ \A p \in 0 .. n : ~v[p].leaf =>
            \A i \in 0 .. Len(v[p].keys) :
                ChildAt(v[p], i) \in 1 .. n /\ par[ChildAt(v[p], i)] = p /\ at[ChildAt(v[p], i)] = i
  BY DEF Split, TreeOf, Shape
<1>2. Places(n, v, w, P, ci, Q, half)
  BY SplitPlaces
<1>3. /\ \A q \in 0 .. n : q # P /\ q # Q => w[q] = v[q]
      /\ w[Q].leaf = v[Q].leaf /\ w[n + 1].leaf = v[Q].leaf /\ w[P].leaf = v[P].leaf
  BY DEF Split, Parted, Added
<1>4. /\ \A c \in 1 .. n : /\ c \in 1 .. n + 1 /\ c # n + 1 /\ par[c] # n + 1
                           /\ np[c] = IF par[c] = Q /\ at[c] > half THEN n + 1 ELSE par[c]
                           /\ na[c] = IF par[c] = P THEN (IF at[c] <= ci THEN at[c] ELSE at[c] + 1)
                                      ELSE IF par[c] = Q /\ at[c] > half THEN at[c] - half - 1 ELSE at[c]
      /\ n + 1 \in 1 .. n + 1 /\ np[n + 1] = P /\ na[n + 1] = ci + 1
  <2>1. \A c \in 1 .. n : c \in 1 .. n + 1 /\ c # n + 1 /\ par[c] # n + 1
    BY <1>0, <1>1
  <2>2. n + 1 \in 1 .. n + 1
    BY <1>0
  <2> QED  BY <2>1, <2>2 DEF NewPar, NewAt
<1>5. np \in [1 .. n + 1 -> 0 .. n + 1]
  <2>1. \A c \in 1 .. n : par[c] \in 0 .. n + 1
    <3>1. \A c \in 1 .. n : par[c] \in 0 .. n
      BY <1>1
    <3>2. \A q \in 0 .. n : q \in 0 .. n + 1
      BY <1>0
    <3> QED  BY <3>1, <3>2
  <2>2. P \in 0 .. n + 1 /\ n + 1 \in 0 .. n + 1
    BY <1>0
  <2> QED  BY <2>1, <2>2, <1>0 DEF NewPar
<1>6. na \in [1 .. n + 1 -> Nat]
  <2>1. \A c \in 1 .. n : at[c] \in Nat
    BY <1>1
  <2>2. \A c \in 1 .. n : at[c] > half => at[c] - half - 1 \in Nat
    BY <2>1, <1>0
  <2>3. ci + 1 \in Nat
    BY <1>0
  <2>4. ASSUME NEW c \in 1 .. n + 1 PROVE na[c] \in Nat
    <3>1. CASE c = n + 1
      BY <3>1, <2>3, <1>4
    <3>2. CASE c \in 1 .. n
      <4>1. na[c] = IF par[c] = P THEN (IF at[c] <= ci THEN at[c] ELSE at[c] + 1)
                    ELSE IF par[c] = Q /\ at[c] > half THEN at[c] - half - 1 ELSE at[c]
        BY <3>2, <1>4
      <4>2. at[c] \in Nat /\ (at[c] > half => at[c] - half - 1 \in Nat) /\ at[c] + 1 \in Nat
        BY <3>2, <2>1, <2>2
      <4> HIDE DEF na
      <4> QED  BY <4>1, <4>2
    <3> QED  BY <3>1, <3>2, <1>0
  <2> QED  BY <2>4 DEF NewAt
<1> HIDE DEF np, na
<1>7. ASSUME NEW c \in 1 .. n + 1
      PROVE  ~w[np[c]].leaf /\ na[c] <= Len(w[np[c]].keys) /\ ChildAt(w[np[c]], na[c]) = c
  <2>1. CASE c = n + 1
    BY <2>1, <1>0, <1>2, <1>3, <1>4, SMTT(30) DEF Places
  <2>2. CASE c \in 1 .. n /\ par[c] = P
    <3>1. np[c] = P /\ na[c] = IF at[c] <= ci THEN at[c] ELSE at[c] + 1
      BY <2>2, <1>0, <1>4
    <3>2. at[c] \in 0 .. Len(v[P].keys) /\ ChildAt(v[P], at[c]) = c
      BY <2>2, <1>0, <1>1
    <3>3. ChildAt(w[P], na[c]) = c
      BY <3>1, <3>2, <1>0, <1>2, SMTT(30) DEF Places
    <3>4. na[c] <= Len(w[P].keys)
      BY <3>1, <3>2, <1>0, <1>2, SMTT(30) DEF Places
    <3> QED  BY <3>1, <3>3, <3>4, <1>0, <1>3
  <2>3. CASE c \in 1 .. n /\ par[c] = Q
    <3>1. ~v[Q].leaf /\ at[c] \in 0 .. Len(v[Q].keys) /\ ChildAt(v[Q], at[c]) = c
      BY <2>3, <1>0, <1>1, SMTT(30)
    <3>2. CASE at[c] > half
      <4>1. np[c] = n + 1 /\ na[c] = at[c] - half - 1
        BY <2>3, <3>2, <1>0, <1>4
      <4>2. at[c] \in half + 1 .. Len(v[Q].keys)
        BY <3>1, <3>2, <1>0
      <4>3. ChildAt(w[n + 1], na[c]) = c
        BY <4>1, <4>2, <3>1, <1>2 DEF Places
      <4>4. na[c] <= Len(w[n + 1].keys)
        <5>1. Len(w[n + 1].keys) = Len(v[Q].keys) - half - 1
          BY <3>1, <1>2 DEF Places
        <5>2. at[c] - half - 1 <= Len(v[Q].keys) - half - 1
          BY <4>2, <1>0
        <5> QED  BY <5>1, <5>2, <4>1
      <4> QED  BY <4>1, <4>3, <4>4, <3>1, <1>3
    <3>3. CASE ~(at[c] > half)
      <4>1. np[c] = Q /\ na[c] = at[c]
        BY <2>3, <3>3, <1>0, <1>4
      <4>2. at[c] \in 0 .. half
        BY <3>1, <3>3, <1>0
      <4> QED  BY <4>1, <4>2, <3>1, <1>2, <1>3 DEF Places
    <3> QED  BY <3>2, <3>3
  <2>4. CASE c \in 1 .. n /\ par[c] # P /\ par[c] # Q
    <3>1. np[c] = par[c] /\ na[c] = at[c] /\ w[par[c]] = v[par[c]]
      BY <2>4, <1>1, <1>3, <1>4
    <3> QED  BY <3>1, <2>4, <1>1
  <2> QED  BY <2>1, <2>2, <2>3, <2>4, <1>0
<1>8. ASSUME NEW p \in 0 .. n + 1, ~w[p].leaf, NEW i \in 0 .. Len(w[p].keys)
      PROVE  ChildAt(w[p], i) \in 1 .. n + 1 /\ np[ChildAt(w[p], i)] = p /\ na[ChildAt(w[p], i)] = i
  <2> DEFINE Old(q, j) == ChildAt(v[q], j) \in 1 .. n /\ par[ChildAt(v[q], j)] = q /\ at[ChildAt(v[q], j)] = j
  <2>1. CASE p = P
    <3>0. i \in 0 .. Len(v[P].keys) + 1 /\ Len(v[P].keys) \in Nat
      <4>1. Len(v[P].keys) \in Nat
        BY <1>0, NodeParts DEF Split
      <4> QED  BY <4>1, <2>1, <1>2 DEF Places
    <3>1. CASE i <= ci
      <4>1. i \in 0 .. Len(v[P].keys)
        BY <3>0, <3>1, <1>0
      <4>2. Old(P, i) /\ ChildAt(w[P], i) = ChildAt(v[P], i)
        BY <4>1, <3>1, <1>0, <1>1, <1>2 DEF Places
      <4> QED  BY <4>2, <3>1, <2>1, <1>0, <1>4
    <3>2. CASE i = ci + 1
      BY <3>2, <2>1, <1>2, <1>4 DEF Places
    <3>3. CASE i > ci + 1
      <4>1. i - 1 \in 0 .. Len(v[P].keys) /\ i - 1 > ci /\ (i - 1) + 1 = i /\ ~(i - 1 <= ci)
        BY <3>0, <3>3, <1>0
      <4>2. Old(P, i - 1)
        BY <4>1, <1>0, <1>1, ZenonT(60)
      <4>3. ChildAt(w[P], (i - 1) + 1) = ChildAt(v[P], i - 1)
        BY <4>1, <1>2 DEF Places
      <4> QED  BY <4>1, <4>2, <4>3, <2>1, <1>0, <1>4
    <3> QED  BY <3>0, <3>1, <3>2, <3>3, <1>0
  <2>2. CASE p = Q
    <3>1. ~v[Q].leaf /\ i \in 0 .. half
      BY <2>2, <1>8, <1>2, <1>3 DEF Places
    <3>2. i \in 0 .. Len(v[Q].keys)
      BY <3>1, <1>0
    <3>3. Old(Q, i) /\ ChildAt(w[Q], i) = ChildAt(v[Q], i)
      BY <3>1, <3>2, <1>0, <1>1, <1>2 DEF Places
    <3> QED  BY <3>1, <3>3, <2>2, <1>0, <1>4
  <2>3. CASE p = n + 1
    <3>1. ~v[Q].leaf /\ i \in 0 .. Len(v[Q].keys) - half - 1
      BY <2>3, <1>8, <1>2, <1>3 DEF Places
    <3>2. /\ half + 1 + i \in half + 1 .. Len(v[Q].keys) /\ half + 1 + i \in 0 .. Len(v[Q].keys)
          /\ (half + 1 + i) - half - 1 = i /\ half + 1 + i > half
      BY <3>1, <1>0
    <3>3. Old(Q, half + 1 + i)
      BY <3>1, <3>2, <1>0, <1>1
    <3>4. ChildAt(w[n + 1], (half + 1 + i) - half - 1) = ChildAt(v[Q], half + 1 + i)
      BY <3>1, <3>2, <1>2 DEF Places
    <3> QED  BY <3>2, <3>3, <3>4, <2>3, <1>0, <1>4, SMTT(30)
  <2>4. CASE p # P /\ p # Q /\ p # n + 1
    <3>1. p \in 0 .. n /\ w[p] = v[p]
      BY <2>4, <1>0, <1>3
    <3>2. Old(p, i)
      BY <3>1, <1>8, <1>1
    <3> QED  BY <3>1, <3>2, <2>4, <1>4
  <2> QED  BY <2>1, <2>2, <2>3, <2>4
<1>9. Shape(n + 1, w, np, na)
  BY <1>5, <1>6, <1>7, <1>8 DEF Shape
<1> QED  BY <1>9 DEF np, na

\* The entries of the two halves.
Off(nd, half) == IF nd.leaf THEN half ELSE half + 1
Halves(n, v, w, Q, half) ==
    /\ Len(w[Q].keys) = half
    /\ \A m \in 1 .. half : w[Q].keys[m] = v[Q].keys[m] /\ w[Q].vals[m] = v[Q].vals[m]
    /\ Len(w[n + 1].keys) = Len(v[Q].keys) - Off(v[Q], half)
    /\ \A m \in 1 .. Len(v[Q].keys) - Off(v[Q], half) :
          /\ w[n + 1].keys[m] = v[Q].keys[Off(v[Q], half) + m]
          /\ w[n + 1].vals[m] = v[Q].vals[Off(v[Q], half) + m]

\* Both arrays are divided at the same place.
LEMMA SplitHalvesAre ==
    ASSUME NEW n, NEW v, NEW w, NEW par, NEW at, NEW home, NEW band, NEW P, NEW ci, NEW Q, NEW half,
           Split(n, v, w, par, at, home, band, P, ci, Q, half)
    PROVE  /\ Halves(n, v, w, Q, half)
           /\ SortedKeys(v[Q].keys) => SortedKeys(w[Q].keys) /\ SortedKeys(w[n + 1].keys)
<1> DEFINE L == Len(v[Q].keys)  ks1 == v[Q].keys  vs1 == v[Q].vals  o == Off(v[Q], half)
<1>1. Parted(n, v, w, P, ci, Q, half) /\ IsTree(n, v)
  BY DEF Split
<1>2. /\ ks1 \in Seq(Slot) /\ vs1 \in Seq(Nat) /\ Len(vs1) = L /\ L = Len(ks1) /\ L \in Nat
      /\ v[Q].leaf \in BOOLEAN
  <2>1. Q \in 0 .. n
    BY SplitFacts
  <2> QED  BY <2>1, <1>1, NodeParts
<1>3. half \in 0 .. L - 1 /\ half \in Nat
  BY SplitFacts
<1>4. /\ w[Q].keys = SubSeq(ks1, 1, half) /\ w[Q].vals = SubSeq(vs1, 1, half)
      /\ w[n + 1].keys = SubSeq(ks1, o + 1, L) /\ w[n + 1].vals = SubSeq(vs1, o + 1, L)
  <2>1. half + 1 + 1 = half + 2
    BY <1>3
  <2> QED  BY <2>1, <1>1, <1>2 DEF Parted, Off
<1>5. o \in 0 .. L /\ o \in Nat
  BY <1>2, <1>3 DEF Off
<1> HIDE DEF L, ks1, vs1, o
<1>6. 1 \in 1 .. L + 1 /\ half \in 0 .. L /\ o + 1 \in 1 .. L + 1 /\ L \in 0 .. L /\ 1 <= half + 1 /\ o + 1 <= L + 1
  BY <1>2, <1>3, <1>5
<1>7. Len(w[Q].keys) = half /\ \A m \in 1 .. half : w[Q].keys[m] = ks1[m] /\ w[Q].vals[m] = vs1[m]
  <2>1. Len(SubSeq(ks1, 1, half)) = half - 1 + 1 /\ \A i \in 1 .. Len(SubSeq(ks1, 1, half)) : SubSeq(ks1, 1, half)[i] = ks1[1 + i - 1]
    BY <1>2, <1>6, PartEffect
  <2>2. Len(SubSeq(vs1, 1, half)) = half - 1 + 1 /\ \A i \in 1 .. Len(SubSeq(vs1, 1, half)) : SubSeq(vs1, 1, half)[i] = vs1[1 + i - 1]
    BY <1>2, <1>6, PartEffect
  <2>3. half - 1 + 1 = half /\ \A i \in 1 .. half : 1 + i - 1 = i
    BY <1>3
  <2> QED  BY <2>1, <2>2, <2>3, <1>4
<1>8. /\ Len(w[n + 1].keys) = L - o
      /\ \A m \in 1 .. L - o : w[n + 1].keys[m] = ks1[o + m] /\ w[n + 1].vals[m] = vs1[o + m]
  <2>1. Len(SubSeq(ks1, o + 1, L)) = L - (o + 1) + 1 /\ \A i \in 1 .. Len(SubSeq(ks1, o + 1, L)) : SubSeq(ks1, o + 1, L)[i] = ks1[o + 1 + i - 1]
    BY <1>2, <1>6, PartEffect, SMTT(30)
  <2>2. Len(SubSeq(vs1, o + 1, L)) = L - (o + 1) + 1 /\ \A i \in 1 .. Len(SubSeq(vs1, o + 1, L)) : SubSeq(vs1, o + 1, L)[i] = vs1[o + 1 + i - 1]
    BY <1>2, <1>6, PartEffect
  <2>3. L - (o + 1) + 1 = L - o /\ \A i \in 1 .. L - o : o + 1 + i - 1 = o + i
    BY <1>2, <1>5
  <2> QED  BY <2>1, <2>2, <2>3, <1>4
<1>9. ASSUME SortedKeys(ks1) PROVE SortedKeys(w[Q].keys) /\ SortedKeys(w[n + 1].keys)
  <2>1. SortedKeys(SubSeq(ks1, 1, half))
    BY <1>9, <1>2, <1>6, PartSorted
  <2>2. SortedKeys(SubSeq(ks1, o + 1, L))
    BY <1>9, <1>2, <1>6, PartSorted
  <2> QED  BY <2>1, <2>2, <1>4
<1> QED  BY <1>7, <1>8, <1>9 DEF Halves, L, ks1, vs1, o

\* The key that moves up belongs where it is put.
LEMMA SplitBetween ==
    ASSUME NEW n, NEW v, NEW w, NEW par, NEW at, NEW home, NEW band, NEW P, NEW ci, NEW Q, NEW half,
           Split(n, v, w, par, at, home, band, P, ci, Q, half),
           NEW sep, sep = v[Q].keys[half + 1]
    PROVE  /\ sep \in Slot /\ sep \in Strings /\ Clean(sep) /\ Real(sep) \in Words
           /\ Real(sep) \in band[Q] /\ Real(sep) \in band[P]
           /\ v[P].keys \in Seq(Slot) /\ SortedKeys(v[P].keys)
           /\ v[Q].keys \in Seq(Slot) /\ SortedKeys(v[Q].keys)
           /\ ci > 0 => ~Below(sep, v[P].keys[ci])
           /\ ci < Len(v[P].keys) => ~Below(v[P].keys[ci + 1], sep)
<1>0. /\ Q \in 1 .. n /\ Q \in 0 .. n /\ P \in 0 .. n /\ ci \in 0 .. Len(v[P].keys) /\ half + 1 \in 1 .. Len(v[Q].keys)
  BY SplitFacts
<1>1. P = par[Q] /\ ci = at[Q] /\ IsTree(n, v) /\ TreeOf(n, v, par, at, home, band)
  BY DEF Split
<1>2. sep \in Slot /\ sep \in Strings /\ Real(sep) \in Words
  BY <1>0, <1>1, NodeParts
<1>3. Arranged(v[Q], band[Q]) /\ Arranged(v[P], band[P])
  BY <1>0, <1>1 DEF TreeOf
<1>4. Clean(sep) /\ Real(sep) \in band[Q]
  BY <1>0, <1>3 DEF Arranged
<1>5. band[Q] = {x \in band[P] : Closed(v[P].keys, ci, x)}
  BY <1>0, <1>1 DEF TreeOf, Zones
<1>6. Real(sep) \in band[P] /\ Closed(v[P].keys, ci, Real(sep))
  BY <1>4, <1>5
<1>7. v[P].keys \in Seq(Slot) /\ Len(v[P].keys) \in Nat /\ v[Q].keys \in Seq(Slot)
      /\ \A m \in 1 .. Len(v[P].keys) : v[P].keys[m] \in Strings
  BY <1>0, <1>1, NodeParts
<1>8. ASSUME ci > 0 PROVE ~Below(sep, v[P].keys[ci])
  <2>1. ci \in 1 .. Len(v[P].keys) /\ ci <= ci
    BY <1>0, <1>8
  <2>2. ~Below(Real(sep), v[P].keys[ci])
    BY <2>1, <1>6 DEF Closed, Cut, UpTo
  <2> QED  BY <2>1, <2>2, <1>2, <1>7, StandsFor
<1>9. ASSUME ci < Len(v[P].keys) PROVE ~Below(v[P].keys[ci + 1], sep)
  <2>1. ci + 1 \in 1 .. Len(v[P].keys) /\ ~(ci + 1 <= ci)
    BY <1>0, <1>7, <1>9
  <2>2. ~Below(v[P].keys[ci + 1], Real(sep))
    BY <2>1, <1>6 DEF Closed, Cut, From
  <2> QED  BY <2>1, <2>2, <1>2, <1>7, StandsFor
<1> QED  BY <1>2, <1>3, <1>4, <1>6, <1>7, <1>8, <1>9 DEF Arranged

\* What leads to Q is divided between it and the new page.
NewZone(n, zone, Q, A, B) ==
    [p \in 0 .. n + 1 |-> IF p = n + 1 THEN zone[Q] \cap B ELSE IF p = Q THEN zone[Q] \cap A ELSE zone[p]]
Left(sep) == {x \in Words : Below(x, sep)}
LeftToo(sep) == {x \in Words : ~Below(sep, x)}
Right(sep) == {x \in Words : ~Below(x, sep)}

\* Only those two pages have other zones.
LEMMA NewZoneIs ==
    ASSUME NEW n \in Nat, NEW zone, Zone(n, zone), NEW Q \in 1 .. n, NEW A, NEW B
    PROVE  /\ Zone(n + 1, NewZone(n, zone, Q, A, B))
           /\ \A p \in 0 .. n : p # Q => NewZone(n, zone, Q, A, B)[p] = zone[p]
           /\ NewZone(n, zone, Q, A, B)[Q] = zone[Q] \cap A
           /\ NewZone(n, zone, Q, A, B)[n + 1] = zone[Q] \cap B
           /\ \A p \in 0 .. n : zone[p] \subseteq Words
<1>1. zone \in [0 .. n -> SUBSET Words] /\ zone[0] = Words
  BY DEF Zone
<1>2. /\ \A p \in 0 .. n + 1 : p = n + 1 \/ p \in 0 .. n
      /\ \A p \in 0 .. n : p \in 0 .. n + 1 /\ p # n + 1
      /\ n + 1 \in 0 .. n + 1 /\ Q \in 0 .. n /\ 0 \in 0 .. n /\ 0 # Q
  OBVIOUS
<1>3. /\ \A p \in 0 .. n : p # Q => NewZone(n, zone, Q, A, B)[p] = zone[p]
      /\ NewZone(n, zone, Q, A, B)[Q] = zone[Q] \cap A
      /\ NewZone(n, zone, Q, A, B)[n + 1] = zone[Q] \cap B
  BY <1>2 DEF NewZone
<1>4. \A p \in 0 .. n : zone[p] \subseteq Words
  BY <1>1
<1>5. NewZone(n, zone, Q, A, B) \in [0 .. n + 1 -> SUBSET Words]
  <2>1. ASSUME NEW p \in 0 .. n + 1
        PROVE  (IF p = n + 1 THEN zone[Q] \cap B ELSE IF p = Q THEN zone[Q] \cap A ELSE zone[p]) \in SUBSET Words
    BY <1>2, <1>4
  <2> QED  BY <2>1 DEF NewZone
<1> QED  BY <1>1, <1>2, <1>3, <1>4, <1>5 DEF Zone


\* A zone is what the parent's leaves at its place; g says which keys the words
\* lie before, strictly or not.
ZoneRule(v, par, at, zone, c, g) ==
    zone[c] = {x \in zone[par[c]] : Cut(v[par[c]].keys, at[c], UpTo(x), g[x])}

\* The rule holds again when the zone of a split node is divided.
LEMMA SplitRule ==
    ASSUME NEW n, NEW v, NEW w, NEW par, NEW at, NEW home, NEW band, NEW P, NEW ci, NEW Q, NEW half,
           Split(n, v, w, par, at, home, band, P, ci, Q, half),
           NEW sep, sep = v[Q].keys[half + 1],
           NEW zone, Zone(n, zone), NEW g, \A x \in Words : g[x] \in SUBSET Strings /\ UpClosed(g[x]),
           \A c \in 1 .. n : ZoneRule(v, par, at, zone, c, g),
           NEW np, np = NewPar(n, par, at, P, Q, half), NEW na, na = NewAt(n, par, at, P, ci, Q, half),
           NEW nz, nz = NewZone(n, zone, Q, {x \in Words : sep \in g[x]}, {x \in Words : sep \in UpTo(x)}),
           NEW c \in 1 .. n + 1
    PROVE  ZoneRule(w, np, na, nz, c, g)
<1> DEFINE K == v[P].keys  M == v[Q].keys  T == w[P].keys
<1>0. /\ n \in Nat /\ Q \in 1 .. n /\ Q \in 0 .. n /\ P \in 0 .. n /\ P # Q /\ n + 1 # P /\ n + 1 # Q
      /\ ~v[P].leaf /\ ci \in 0 .. Len(K) /\ ChildAt(v[P], ci) = Q
      /\ half \in 0 .. Len(M) - 1 /\ half \in Nat
      /\ \A q \in 1 .. n + 1 : q = n + 1 \/ q \in 1 .. n
  BY SplitFacts
<1>1. /\ P = par[Q] /\ ci = at[Q] /\ Shape(n, v, par, at)
      /\ \A q \in 0 .. n : q # P /\ q # Q => w[q] = v[q]
  BY DEF Split, TreeOf, Parted
<1>2. /\ \A q \in 1 .. n : /\ par[q] \in 0 .. n /\ at[q] \in Nat /\ ~v[par[q]].leaf
                           /\ at[q] <= Len(v[par[q]].keys) /\ ChildAt(v[par[q]], at[q]) = q
  BY <1>1 DEF Shape
<1>3. /\ \A q \in 0 .. n : q # Q => nz[q] = zone[q]
      /\ nz[Q] = zone[Q] \cap {x \in Words : sep \in g[x]}
      /\ nz[n + 1] = zone[Q] \cap {x \in Words : sep \in UpTo(x)}
      /\ \A q \in 0 .. n : zone[q] \subseteq Words
  BY <1>0, NewZoneIs
<1>4. /\ \A q \in 1 .. n : /\ q # n + 1 /\ par[q] # n + 1
                           /\ np[q] = IF par[q] = Q /\ at[q] > half THEN n + 1 ELSE par[q]
                           /\ na[q] = IF par[q] = P THEN (IF at[q] <= ci THEN at[q] ELSE at[q] + 1)
                                      ELSE IF par[q] = Q /\ at[q] > half THEN at[q] - half - 1 ELSE at[q]
      /\ np[n + 1] = P /\ na[n + 1] = ci + 1
  <2>1. \A q \in 1 .. n : q \in 1 .. n + 1 /\ q # n + 1 /\ par[q] # n + 1
    BY <1>0, <1>2
  <2>2. n + 1 \in 1 .. n + 1
    BY <1>0
  <2> QED  BY <2>1, <2>2 DEF NewPar, NewAt
<1>5. /\ sep \in Slot /\ K \in Seq(Slot) /\ SortedKeys(K) /\ M \in Seq(Slot) /\ SortedKeys(M)
      /\ ci > 0 => ~Below(sep, K[ci])
      /\ ci < Len(K) => ~Below(K[ci + 1], sep)
  BY SplitBetween
<1>6. T = InsertAt(K, ci + 1, sep) /\ w[Q].keys = SubSeq(M, 1, half)
  BY DEF Split, Parted, Added
<1>7. \A x \in Words : /\ x \in Strings /\ UpTo(x) \in SUBSET Strings /\ DownClosed(UpTo(x))
                       /\ g[x] \in SUBSET Strings /\ UpClosed(g[x])
  BY Stringed, CutSets
<1>8. ASSUME NEW x \in Words, NEW j \in 0 .. Len(K)
      PROVE  /\ j < ci => (Cut(T, j, UpTo(x), g[x]) <=> Cut(K, j, UpTo(x), g[x]))
             /\ j > ci => (Cut(T, j + 1, UpTo(x), g[x]) <=> Cut(K, j, UpTo(x), g[x]))
             /\ j = ci => /\ Cut(T, ci, UpTo(x), g[x]) <=> (Cut(K, ci, UpTo(x), g[x]) /\ sep \in g[x])
                          /\ Cut(T, ci + 1, UpTo(x), g[x]) <=> (Cut(K, ci, UpTo(x), g[x]) /\ sep \in UpTo(x))
  <2> HIDE DEF K, T
  <2>1. T = InsertAt(K, ci + 1, sep)
    BY <1>6 DEF K, T
  <2>2. /\ K \in Seq(Slot) /\ SortedKeys(K) /\ sep \in Slot /\ ci \in 0 .. Len(K)
        /\ ci > 0 => ~Below(sep, K[ci])
        /\ ci < Len(K) => ~Below(K[ci + 1], sep)
    BY <1>0, <1>5 DEF K
  <2> DEFINE A == UpTo(x)  B == g[x]
  <2>3. A \in SUBSET Strings /\ DownClosed(A) /\ B \in SUBSET Strings /\ UpClosed(B)
    BY <1>7
  <2>4. j \in 0 .. Len(K)
    BY DEF K
  <2> HIDE DEF A, B
  <2>5. /\ j < ci => (Cut(InsertAt(K, ci + 1, sep), j, A, B) <=> Cut(K, j, A, B))
        /\ j > ci => (Cut(InsertAt(K, ci + 1, sep), j + 1, A, B) <=> Cut(K, j, A, B))
        /\ j = ci => /\ Cut(InsertAt(K, ci + 1, sep), ci, A, B) <=> (Cut(K, ci, A, B) /\ sep \in B)
                     /\ Cut(InsertAt(K, ci + 1, sep), ci + 1, A, B) <=> (Cut(K, ci, A, B) /\ sep \in A)
    BY <2>2, <2>3, <2>4, InsertCut
  <2> QED  BY <2>1, <2>5 DEF A, B
<1>9. zone[Q] = {x \in zone[P] : Cut(K, ci, UpTo(x), g[x])}
  BY <1>0, <1>1 DEF ZoneRule
<1> HIDE DEF T, K, M
<1>10. CASE c = n + 1
  <2>1. nz[np[c]] = zone[P] /\ zone[P] \subseteq Words
    BY <1>10, <1>0, <1>3, <1>4
  <2>2. \A x \in zone[P] : Cut(T, ci + 1, UpTo(x), g[x]) <=> (Cut(K, ci, UpTo(x), g[x]) /\ sep \in UpTo(x))
    BY <2>1, <1>0, <1>8
  <2>3. w[np[c]].keys = T /\ na[c] = ci + 1
    BY <1>10, <1>4 DEF T
  <2>4. nz[c] = {x \in zone[P] : Cut(T, ci + 1, UpTo(x), g[x])}
    BY <1>3, <1>9, <1>10, <2>1, <2>2
  <2> QED  BY <2>1, <2>3, <2>4 DEF ZoneRule
<1>11. CASE c = Q
  <2>0. c \in 1 .. n /\ par[c] = P /\ at[c] = ci /\ ci <= ci
    BY <1>0, <1>1, <1>11
  <2>1. nz[P] = zone[P] /\ zone[P] \subseteq Words
    BY <1>0, <1>3
  <2>2. \A x \in zone[P] : Cut(T, ci, UpTo(x), g[x]) <=> (Cut(K, ci, UpTo(x), g[x]) /\ sep \in g[x])
    BY <2>1, <1>0, <1>8
  <2>3. np[c] = P /\ na[c] = ci
    BY <2>0, <1>0, <1>4
  <2>4. nz[c] = {x \in zone[P] : Cut(T, ci, UpTo(x), g[x])}
    BY <1>3, <1>9, <1>11, <2>1, <2>2
  <2> QED  BY <2>1, <2>3, <2>4 DEF ZoneRule, T
<1>12. CASE c \in 1 .. n /\ c # Q /\ par[c] = P
  <2>0. zone[c] = {x \in zone[P] : Cut(K, at[c], UpTo(x), g[x])} /\ nz[c] = zone[c]
        /\ nz[P] = zone[P] /\ zone[P] \subseteq Words /\ np[c] = P
    BY <1>0, <1>3, <1>4, <1>12 DEF ZoneRule, K
  <2>1. at[c] \in 0 .. Len(K) /\ at[c] # ci
    BY <1>0, <1>2, <1>12 DEF K
  <2>2. CASE at[c] < ci
    <3>1. na[c] = at[c]
      BY <2>1, <2>2, <1>0, <1>4, <1>12, SMTT(30)
    <3>2. \A x \in zone[P] : Cut(T, na[c], UpTo(x), g[x]) <=> Cut(K, at[c], UpTo(x), g[x])
      BY <2>0, <2>1, <2>2, <3>1, <1>8
    <3> QED  BY <2>0, <3>2 DEF ZoneRule, T
  <2>3. CASE at[c] > ci
    <3>1. na[c] = at[c] + 1
      <4>1. ~(at[c] <= ci)
        BY <2>1, <2>3, <1>0
      <4> QED  BY <4>1, <1>4, <1>12
    <3>2. \A x \in zone[P] : Cut(T, na[c], UpTo(x), g[x]) <=> Cut(K, at[c], UpTo(x), g[x])
      BY <2>0, <2>1, <2>3, <3>1, <1>8
    <3> QED  BY <2>0, <3>2 DEF ZoneRule, T
  <2> QED  BY <2>1, <2>2, <2>3, <1>0
<1>13. CASE c \in 1 .. n /\ c # Q /\ par[c] = Q
  <2>0. /\ zone[c] = {x \in zone[Q] : Cut(M, at[c], UpTo(x), g[x])} /\ nz[c] = zone[c]
        /\ zone[Q] \subseteq Words /\ c \in 0 .. n
    BY <1>0, <1>3, <1>13 DEF ZoneRule, M
  <2>1. at[c] \in 0 .. Len(M) /\ ~v[Q].leaf
    <3>1. Len(M) \in Nat
      BY <1>5
    <3> QED  BY <3>1, <1>2, <1>13 DEF M
  <2>2. w[n + 1].keys = SubSeq(M, half + 2, Len(M))
    BY <2>1 DEF Split, Parted, M
  <2>3. \A x \in Words :
           /\ at[c] <= half => (Cut(M, at[c], UpTo(x), g[x]) <=> Cut(SubSeq(M, 1, half), at[c], UpTo(x), g[x]) /\ M[half + 1] \in g[x])
           /\ at[c] > half => (Cut(M, at[c], UpTo(x), g[x]) <=> Cut(SubSeq(M, half + 2, Len(M)), at[c] - half - 1, UpTo(x), g[x])
                                                                 /\ M[half + 1] \in UpTo(x))
    BY <2>1, <1>0, <1>5, <1>7, HalfCut
  <2>4. M[half + 1] = sep
    BY DEF M
  <2>5. CASE at[c] <= half
    <3>1. np[c] = Q /\ na[c] = at[c]
      <4>1. ~(at[c] > half)
        BY <2>1, <2>5, <1>0
      <4> QED  BY <4>1, <1>0, <1>4, <1>13
    <3>2. nz[Q] = {x \in zone[Q] : sep \in g[x]}
      BY <2>0, <1>3
    <3>3. zone[c] = {x \in nz[Q] : Cut(SubSeq(M, 1, half), at[c], UpTo(x), g[x])}
      BY <2>0, <2>3, <2>4, <2>5, <3>2
    <3> QED  BY <2>0, <3>1, <3>3, <1>6 DEF ZoneRule, M
  <2>6. CASE at[c] > half
    <3>1. np[c] = n + 1 /\ na[c] = at[c] - half - 1
      BY <2>6, <1>0, <1>4, <1>13
    <3>2. nz[n + 1] = {x \in zone[Q] : sep \in UpTo(x)}
      BY <2>0, <1>3
    <3>3. zone[c] = {x \in nz[n + 1] : Cut(SubSeq(M, half + 2, Len(M)), at[c] - half - 1, UpTo(x), g[x])}
      BY <2>0, <2>3, <2>4, <2>6, <3>2
    <3> QED  BY <2>0, <2>2, <3>1, <3>3, ZenonT(60) DEF ZoneRule
  <2> QED  BY <2>1, <2>5, <2>6, <1>0
<1>14. CASE c \in 1 .. n /\ c # Q /\ par[c] # P /\ par[c] # Q
  <2>1. /\ np[c] = par[c] /\ na[c] = at[c] /\ par[c] \in 0 .. n /\ w[par[c]] = v[par[c]]
        /\ nz[c] = zone[c] /\ nz[par[c]] = zone[par[c]]
    <3>1. par[c] \in 0 .. n /\ c \in 0 .. n
      BY <1>2, <1>14
    <3>2. np[c] = par[c] /\ na[c] = at[c]
      BY <1>4, <1>14
    <3>3. w[par[c]] = v[par[c]]
      BY <3>1, <1>1, <1>14
    <3>4. nz[c] = zone[c] /\ nz[par[c]] = zone[par[c]]
      BY <3>1, <1>3, <1>14
    <3> QED  BY <3>1, <3>2, <3>3, <3>4
  <2>2. ZoneRule(v, par, at, zone, c, g)
    BY <1>14
  <2> QED  BY <2>1, <2>2 DEF ZoneRule
<1> QED  BY <1>0, <1>10, <1>11, <1>12, <1>13, <1>14

\* The zones afterwards.
NewHome(n, home, Q, sep) == NewZone(n, home, Q, Left(sep), Right(sep))
NewBand(n, band, Q, sep) == NewZone(n, band, Q, LeftToo(sep), Right(sep))

\* They are zones of the new tree, and no word leads to two leaves of it.
LEMMA SplitZones ==
    ASSUME NEW n, NEW v, NEW w, NEW par, NEW at, NEW home, NEW band, NEW P, NEW ci, NEW Q, NEW half,
           Split(n, v, w, par, at, home, band, P, ci, Q, half),
           NEW sep, sep = v[Q].keys[half + 1],
           NEW np, np = NewPar(n, par, at, P, Q, half), NEW na, na = NewAt(n, par, at, P, ci, Q, half),
           NEW nh, nh = NewHome(n, home, Q, sep), NEW nb, nb = NewBand(n, band, Q, sep)
    PROVE  Zone(n + 1, nh) /\ Zone(n + 1, nb) /\ Zones(n + 1, w, np, na, nh, nb)
<1>0. /\ n \in Nat /\ Q \in 1 .. n /\ Q \in 0 .. n /\ P \in 0 .. n /\ P # Q /\ n + 1 # P /\ n + 1 # Q
      /\ \A q \in 0 .. n + 1 : q = n + 1 \/ q \in 0 .. n
      /\ \A q \in 1 .. n + 1 : q = n + 1 \/ q \in 1 .. n
  BY SplitFacts
<1>1. /\ Zone(n, home) /\ Zone(n, band) /\ Zones(n, v, par, at, home, band) /\ Shape(n, v, par, at)
      /\ Shape(n + 1, w, np, na)
  BY SplitShape DEF Split, TreeOf
<1>2. sep \in Slot /\ sep \in Strings
  BY SplitBetween
<1>3. /\ Zone(n + 1, nh) /\ \A p \in 0 .. n : p # Q => nh[p] = home[p]
      /\ nh[Q] = home[Q] \cap Left(sep) /\ nh[n + 1] = home[Q] \cap Right(sep)
      /\ \A p \in 0 .. n : home[p] \subseteq Words
  BY <1>0, <1>1, NewZoneIs DEF NewHome
<1>4. /\ Zone(n + 1, nb) /\ \A p \in 0 .. n : p # Q => nb[p] = band[p]
      /\ nb[Q] = band[Q] \cap LeftToo(sep) /\ nb[n + 1] = band[Q] \cap Right(sep)
      /\ \A p \in 0 .. n : band[p] \subseteq Words
  BY <1>0, <1>1, NewZoneIs DEF NewBand
<1>5. \A c \in 1 .. n : par[c] \in 0 .. n
  BY <1>1 DEF Shape
<1>6. \A c \in 1 .. n + 1 : np[c] \in 0 .. n + 1
  BY <1>1 DEF Shape
<1>7. \A p \in 0 .. n + 1 : nh[p] \subseteq Words /\ nb[p] \subseteq Words
  BY <1>3, <1>4 DEF Zone
<1>8. \A c \in 1 .. n + 1 : nh[c] = {x \in nh[np[c]] : Open(w[np[c]].keys, na[c], x)}
  <2>1. PICK g : g = [x \in Words |-> After(x)]
    OBVIOUS
  <2>2. \A x \in Words : g[x] = After(x) /\ g[x] \in SUBSET Strings /\ UpClosed(g[x])
    BY <2>1, Stringed, CutSets
  <2>3. \A c \in 1 .. n : ZoneRule(v, par, at, home, c, g)
    <3> SUFFICES ASSUME NEW c \in 1 .. n PROVE ZoneRule(v, par, at, home, c, g)
      OBVIOUS
    <3>1. home[c] = {x \in home[par[c]] : Open(v[par[c]].keys, at[c], x)}
      BY <1>1 DEF Zones
    <3>2. home[par[c]] \subseteq Words
      BY <1>3, <1>5
    <3> QED  BY <3>1, <3>2, <2>2 DEF ZoneRule, Open
  <2>4. Left(sep) = {x \in Words : sep \in g[x]} /\ Right(sep) = {x \in Words : sep \in UpTo(x)}
    BY <2>2, <1>2 DEF Left, Right, After, UpTo
  <2>5. nh = NewZone(n, home, Q, {x \in Words : sep \in g[x]}, {x \in Words : sep \in UpTo(x)})
    BY <2>4 DEF NewHome
  <2>6. \A c \in 1 .. n + 1 : ZoneRule(w, np, na, nh, c, g)
    BY <2>2, <2>3, <2>5, <1>1, SplitRule
  <2> SUFFICES ASSUME NEW c \in 1 .. n + 1 PROVE nh[c] = {x \in nh[np[c]] : Open(w[np[c]].keys, na[c], x)}
    OBVIOUS
  <2>7. nh[np[c]] \subseteq Words
    BY <1>6, <1>7
  <2> QED  BY <2>2, <2>6, <2>7 DEF ZoneRule, Open
<1>9. \A c \in 1 .. n + 1 : nb[c] = {x \in nb[np[c]] : Closed(w[np[c]].keys, na[c], x)}
  <2>1. PICK g : g = [x \in Words |-> From(x)]
    OBVIOUS
  <2>2. \A x \in Words : g[x] = From(x) /\ g[x] \in SUBSET Strings /\ UpClosed(g[x])
    BY <2>1, Stringed, CutSets
  <2>3. \A c \in 1 .. n : ZoneRule(v, par, at, band, c, g)
    <3> SUFFICES ASSUME NEW c \in 1 .. n PROVE ZoneRule(v, par, at, band, c, g)
      OBVIOUS
    <3>1. band[c] = {x \in band[par[c]] : Closed(v[par[c]].keys, at[c], x)}
      BY <1>1 DEF Zones
    <3>2. band[par[c]] \subseteq Words
      BY <1>4, <1>5
    <3> QED  BY <3>1, <3>2, <2>2 DEF ZoneRule, Closed
  <2>4. LeftToo(sep) = {x \in Words : sep \in g[x]} /\ Right(sep) = {x \in Words : sep \in UpTo(x)}
    BY <2>2, <1>2 DEF LeftToo, Right, From, UpTo
  <2>5. nb = NewZone(n, band, Q, {x \in Words : sep \in g[x]}, {x \in Words : sep \in UpTo(x)})
    BY <2>4 DEF NewBand
  <2>6. \A c \in 1 .. n + 1 : ZoneRule(w, np, na, nb, c, g)
    BY <2>2, <2>3, <2>5, <1>1, SplitRule
  <2> SUFFICES ASSUME NEW c \in 1 .. n + 1 PROVE nb[c] = {x \in nb[np[c]] : Closed(w[np[c]].keys, na[c], x)}
    OBVIOUS
  <2>7. nb[np[c]] \subseteq Words
    BY <1>6, <1>7
  <2> QED  BY <2>2, <2>6, <2>7 DEF ZoneRule, Closed
<1>10. \A p \in 0 .. n + 1 : nh[p] \subseteq nb[p]
  <2>1. \A p \in 0 .. n : home[p] \subseteq band[p]
    BY <1>1 DEF Zones
  <2>2. Left(sep) \subseteq LeftToo(sep)
    BY <1>2, Stringed, Order DEF Left, LeftToo
  <2> QED  BY <2>1, <2>2, <1>0, <1>3, <1>4
<1>11. \A p, q \in 1 .. n + 1 : w[p].leaf /\ w[q].leaf /\ p # q => nh[p] \cap nh[q] = {}
  <2>1. \A p, q \in 1 .. n : v[p].leaf /\ v[q].leaf /\ p # q => home[p] \cap home[q] = {}
    BY <1>1 DEF Zones
  <2>2. \A p \in 1 .. n : w[p].leaf = v[p].leaf
    <3>1. /\ \A q \in 0 .. n : q # P /\ q # Q => w[q] = v[q]
          /\ w[Q].leaf = v[Q].leaf /\ w[P].leaf = v[P].leaf
      BY DEF Split, Parted, Added
    <3>2. \A p \in 1 .. n : p \in 0 .. n
      BY <1>0
    <3> QED  BY <3>1, <3>2
  <2>3. w[n + 1].leaf = v[Q].leaf
    BY DEF Split, Parted
  <2>4. \A p \in 1 .. n : nh[p] \subseteq home[p] /\ (p # Q => nh[p] = home[p])
    <3>1. \A p \in 1 .. n : p \in 0 .. n
      BY <1>0
    <3> QED  BY <3>1, <1>3
  <2>5. nh[n + 1] \subseteq home[Q] /\ nh[n + 1] \cap nh[Q] = {}
    BY <1>3 DEF Left, Right
  <2>6. ASSUME NEW p \in 1 .. n, w[p].leaf, w[n + 1].leaf PROVE nh[p] \cap nh[n + 1] = {}
    <3>1. CASE p = Q
      BY <3>1, <2>5
    <3>2. CASE p # Q
      <4>1. home[p] \cap home[Q] = {}
        BY <3>2, <2>1, <2>2, <2>3, <2>6, <1>0
      <4> QED  BY <4>1, <2>4, <2>5
    <3> QED  BY <3>1, <3>2
  <2>7. ASSUME NEW p \in 1 .. n, NEW q \in 1 .. n, w[p].leaf, w[q].leaf, p # q PROVE nh[p] \cap nh[q] = {}
    BY <2>1, <2>2, <2>4, <2>7
  <2> SUFFICES ASSUME NEW p \in 1 .. n + 1, NEW q \in 1 .. n + 1, w[p].leaf, w[q].leaf, p # q
               PROVE  nh[p] \cap nh[q] = {}
    OBVIOUS
  <2>8. (p = n + 1 \/ p \in 1 .. n) /\ (q = n + 1 \/ q \in 1 .. n)
    BY <1>0
  <2> QED  BY <2>6, <2>7, <2>8
<1> QED  BY <1>3, <1>4, <1>8, <1>9, <1>10, <1>11 DEF Zones

\* The entries of a split node are those of the two halves, in the order of the
\* key between them; an inner node gives that one away.
Entry(nd, m, old, i) == nd.keys[m] = old.keys[i] /\ nd.vals[m] = old.vals[i]
Divided(nd, left, right, sep) ==
    /\ \A m \in 1 .. Len(left.keys) :
          ~Below(sep, left.keys[m]) /\ \E i \in 1 .. Len(nd.keys) : Entry(left, m, nd, i)
    /\ \A m \in 1 .. Len(right.keys) :
          ~Below(right.keys[m], sep) /\ \E i \in 1 .. Len(nd.keys) : Entry(right, m, nd, i)
    /\ \A i \in 1 .. Len(nd.keys) : \/ \E m \in 1 .. Len(left.keys) : Entry(left, m, nd, i)
                                    \/ \E m \in 1 .. Len(right.keys) : Entry(right, m, nd, i)
                                    \/ ~nd.leaf /\ nd.keys[i] = sep
    /\ nd.leaf => \E m \in 1 .. Len(right.keys) : right.keys[m] = sep
    /\ \E i \in 1 .. Len(nd.keys) : nd.keys[i] = sep

\* That is how the split divides them.
LEMMA SplitDivides ==
    ASSUME NEW n, NEW v, NEW w, NEW par, NEW at, NEW home, NEW band, NEW P, NEW ci, NEW Q, NEW half,
           Split(n, v, w, par, at, home, band, P, ci, Q, half),
           NEW sep, sep = v[Q].keys[half + 1]
    PROVE  Divided(v[Q], w[Q], w[n + 1], sep)
<1> DEFINE K == v[Q].keys  L == Len(K)  o == Off(v[Q], half)
<1>1. SortedKeys(K) /\ K \in Seq(Slot) /\ sep \in Strings
  BY SplitBetween
<1>2. half \in 0 .. L - 1 /\ half \in Nat /\ half + 1 \in 1 .. L /\ L \in Nat
  BY <1>1, SplitFacts
<1>3. /\ Len(w[Q].keys) = half
      /\ \A m \in 1 .. half : Entry(w[Q], m, v[Q], m)
      /\ Len(w[n + 1].keys) = L - o
      /\ \A m \in 1 .. L - o : Entry(w[n + 1], m, v[Q], o + m)
  BY SplitHalvesAre DEF Halves, Entry
<1>4. o \in Nat /\ o = (IF v[Q].leaf THEN half ELSE half + 1) /\ o \in half .. L
  BY <1>2 DEF Off
<1>5. \A i, j \in 1 .. L : i <= j => ~Below(K[j], K[i])
  BY <1>1 DEF SortedKeys
<1>6. K[half + 1] = sep
  OBVIOUS
<1> HIDE DEF K, L, o
<1>7. ASSUME NEW m \in 1 .. half
      PROVE  ~Below(sep, w[Q].keys[m]) /\ \E i \in 1 .. L : Entry(w[Q], m, v[Q], i)
  <2>1. m \in 1 .. L /\ m <= half + 1
    BY <1>2
  <2>2. w[Q].keys[m] = K[m]
    BY <1>3 DEF Entry, K
  <2> QED  BY <2>1, <2>2, <1>2, <1>3, <1>5, <1>6
<1>8. ASSUME NEW m \in 1 .. L - o
      PROVE  ~Below(w[n + 1].keys[m], sep) /\ \E i \in 1 .. L : Entry(w[n + 1], m, v[Q], i)
  <2>1. o + m \in 1 .. L /\ half + 1 <= o + m
    BY <1>2, <1>4
  <2>2. w[n + 1].keys[m] = K[o + m]
    BY <1>3 DEF Entry, K
  <2> QED  BY <2>1, <2>2, <1>2, <1>3, <1>5, <1>6
<1>9. ASSUME NEW i \in 1 .. L
      PROVE  \/ \E m \in 1 .. half : Entry(w[Q], m, v[Q], i)
             \/ \E m \in 1 .. L - o : Entry(w[n + 1], m, v[Q], i)
             \/ ~v[Q].leaf /\ K[i] = sep
  <2>1. CASE i <= half
    <3>1. i \in 1 .. half
      BY <2>1, <1>2
    <3> QED  BY <3>1, <1>3
  <2>2. CASE i > o
    <3>1. i - o \in 1 .. L - o /\ o + (i - o) = i
      BY <2>2, <1>2, <1>4
    <3> QED  BY <3>1, <1>3
  <2>3. CASE i > half /\ i <= o
    <3>1. ~v[Q].leaf /\ i = half + 1
      BY <2>3, <1>2, <1>4
    <3> QED  BY <3>1, <1>6
  <2> QED  BY <2>1, <2>2, <2>3, <1>2, <1>4
<1>10. ASSUME v[Q].leaf PROVE \E m \in 1 .. L - o : w[n + 1].keys[m] = sep
  <2>1. o = half
    BY <1>4, <1>10
  <2>2. 1 \in 1 .. L - o /\ o + 1 = half + 1
    BY <2>1, <1>2
  <2>3. w[n + 1].keys[1] = K[o + 1]
    BY <2>2, <1>3 DEF Entry, K
  <2> QED  BY <2>2, <2>3, <1>6
<1>11. \E i \in 1 .. L : K[i] = sep
  BY <1>2, <1>6
<1> QED  BY <1>3, <1>7, <1>8, <1>9, <1>10, <1>11 DEF Divided, K, L

\* The nodes are sorted, and their keys are where they may be.
LEMMA SplitArranged ==
    ASSUME NEW n, NEW v, NEW w, NEW par, NEW at, NEW home, NEW band, NEW P, NEW ci, NEW Q, NEW half,
           Split(n, v, w, par, at, home, band, P, ci, Q, half),
           NEW sep, sep = v[Q].keys[half + 1],
           NEW nb, nb = NewBand(n, band, Q, sep), NEW p \in 0 .. n + 1
    PROVE  Arranged(w[p], nb[p])
<1>0. /\ n \in Nat /\ Q \in 1 .. n /\ Q \in 0 .. n /\ P \in 0 .. n /\ P # Q /\ n + 1 # P /\ n + 1 # Q
      /\ ci \in 0 .. Len(v[P].keys) /\ half + 1 \in 1 .. Len(v[Q].keys)
      /\ \A q \in 0 .. n + 1 : q = n + 1 \/ q \in 0 .. n
  BY SplitFacts
<1>1. IsTree(n, v) /\ IsTree(n + 1, w) /\ Zone(n, band) /\ \A q \in 0 .. n : Arranged(v[q], band[q])
  BY DEF Split, TreeOf
<1>2. /\ \A q \in 0 .. n : q # P /\ q # Q => w[q] = v[q]
      /\ Added(w[P], v[P], ci, sep, n + 1)
  BY DEF Split, Parted
<1>3. /\ \A q \in 0 .. n : q # Q => nb[q] = band[q]
      /\ nb[Q] = band[Q] \cap LeftToo(sep) /\ nb[n + 1] = band[Q] \cap Right(sep)
  BY <1>0, <1>1, NewZoneIs DEF NewBand
<1>4. /\ sep \in Slot /\ sep \in Strings /\ Clean(sep) /\ Real(sep) \in Words
      /\ Real(sep) \in band[Q] /\ Real(sep) \in band[P]
      /\ v[P].keys \in Seq(Slot) /\ SortedKeys(v[P].keys)
      /\ SortedKeys(v[Q].keys)
      /\ ci > 0 => ~Below(sep, v[P].keys[ci])
      /\ ci < Len(v[P].keys) => ~Below(v[P].keys[ci + 1], sep)
  BY SplitBetween
<1>5. /\ SortedKeys(w[Q].keys) /\ SortedKeys(w[n + 1].keys)
      /\ Divided(v[Q], w[Q], w[n + 1], sep)
  BY <1>4, SplitHalvesAre, SplitDivides
<1>6. \A i \in 1 .. Len(v[Q].keys) : /\ Clean(v[Q].keys[i]) /\ Real(v[Q].keys[i]) \in band[Q]
                                     /\ v[Q].keys[i] \in Strings /\ Real(v[Q].keys[i]) \in Words
  BY <1>0, <1>1, NodeParts DEF Arranged
<1>7. CASE p = P
  <2>1. v[P].keys \in Seq(Slot) /\ v[P].vals \in Seq(Nat) /\ Len(v[P].vals) = Len(v[P].keys) /\ n + 1 \in Nat
    BY <1>0, <1>1, NodeParts
  <2>2. OneMore(w[P], v[P], sep, n + 1)
    BY <2>1, <1>0, <1>2, <1>4, AddedEntries
  <2>3. SortedKeys(w[P].keys)
    <3>1. w[P].keys = InsertAt(v[P].keys, ci + 1, sep)
      BY <1>2 DEF Added
    <3> QED  BY <3>1, <1>0, <1>4, InsertSorted
  <2>4. \A m \in 1 .. Len(w[P].keys) : Clean(w[P].keys[m]) /\ Real(w[P].keys[m]) \in band[P]
    <3> SUFFICES ASSUME NEW m \in 1 .. Len(w[P].keys) PROVE Clean(w[P].keys[m]) /\ Real(w[P].keys[m]) \in band[P]
      OBVIOUS
    <3>1. w[P].keys[m] = sep \/ \E i \in 1 .. Len(v[P].keys) : w[P].keys[m] = v[P].keys[i]
      BY <2>2 DEF OneMore
    <3>2. \A i \in 1 .. Len(v[P].keys) : Clean(v[P].keys[i]) /\ Real(v[P].keys[i]) \in band[P]
      BY <1>0, <1>1 DEF Arranged
    <3> QED  BY <3>1, <3>2, <1>4
  <2> QED  BY <2>3, <2>4, <1>0, <1>3, <1>7 DEF Arranged
<1>8. CASE p = Q
  <2>1. ASSUME NEW m \in 1 .. Len(w[Q].keys)
        PROVE  Clean(w[Q].keys[m]) /\ Real(w[Q].keys[m]) \in nb[Q]
    <3>1. PICK i \in 1 .. Len(v[Q].keys) : w[Q].keys[m] = v[Q].keys[i]
      BY <1>5 DEF Divided, Entry
    <3>2. ~Below(sep, w[Q].keys[m])
      BY <1>5 DEF Divided
    <3>3. ~Below(sep, Real(v[Q].keys[i]))
      BY <3>1, <3>2, <1>4, <1>6, StandsFor
    <3> QED  BY <3>1, <3>3, <1>3, <1>6 DEF LeftToo
  <2> QED  BY <2>1, <1>5, <1>8 DEF Arranged
<1>9. CASE p = n + 1
  <2>1. ASSUME NEW m \in 1 .. Len(w[n + 1].keys)
        PROVE  Clean(w[n + 1].keys[m]) /\ Real(w[n + 1].keys[m]) \in nb[n + 1]
    <3>1. PICK i \in 1 .. Len(v[Q].keys) : w[n + 1].keys[m] = v[Q].keys[i]
      BY <1>5 DEF Divided, Entry
    <3>2. ~Below(w[n + 1].keys[m], sep)
      BY <1>5 DEF Divided
    <3>3. ~Below(Real(v[Q].keys[i]), sep)
      BY <3>1, <3>2, <1>4, <1>6, StandsFor
    <3> QED  BY <3>1, <3>3, <1>3, <1>6 DEF Right
  <2> QED  BY <2>1, <1>5, <1>9 DEF Arranged
<1>10. CASE p \in 0 .. n /\ p # P /\ p # Q
  BY <1>1, <1>2, <1>3, <1>10
<1> QED  BY <1>0, <1>7, <1>8, <1>9, <1>10

\* The words of the nodes afterwards.
LEMMA SplitWords ==
    ASSUME NEW n, NEW v, NEW w, NEW par, NEW at, NEW home, NEW band, NEW P, NEW ci, NEW Q, NEW half,
           Split(n, v, w, par, at, home, band, P, ci, Q, half),
           NEW sep, sep = v[Q].keys[half + 1], NEW x \in Words
    PROVE  /\ Has(w[P], x) <=> Has(v[P], x) \/ x = Real(sep)
           /\ Has(w[Q], x) => Has(v[Q], x) /\ ~Below(sep, x)
           /\ Has(w[n + 1], x) => Has(v[Q], x) /\ ~Below(x, sep)
           /\ Has(v[Q], x) => Has(w[Q], x) \/ Has(w[n + 1], x) \/ (~v[Q].leaf /\ x = Real(sep))
           /\ Has(v[Q], Real(sep)) /\ (v[Q].leaf => Has(w[n + 1], Real(sep)))
<1>0. /\ n \in Nat /\ Q \in 0 .. n /\ P \in 0 .. n /\ ci \in 0 .. Len(v[P].keys) /\ IsTree(n, v)
  BY SplitFacts DEF Split
<1>1. sep \in Slot /\ sep \in Strings /\ x \in Strings
  BY SplitBetween, Stringed
<1>2. Divided(v[Q], w[Q], w[n + 1], sep)
  BY SplitDivides
<1>3. OneMore(w[P], v[P], sep, n + 1)
  <2>1. Added(w[P], v[P], ci, sep, n + 1) /\ n + 1 \in Nat
    BY <1>0 DEF Split, Parted
  <2>2. v[P].keys \in Seq(Slot) /\ v[P].vals \in Seq(Nat) /\ Len(v[P].vals) = Len(v[P].keys)
    BY <1>0, NodeParts
  <2> QED  BY <2>1, <2>2, <1>0, <1>1, AddedEntries
<1>4. Has(w[P], x) <=> Has(v[P], x) \/ x = Real(sep)
  BY <1>3, SMTT(30) DEF OneMore, Has
<1>5. \A i \in 1 .. Len(v[Q].keys) : v[Q].keys[i] \in Strings
  BY <1>0, NodeParts
<1>6. ASSUME Has(w[Q], x) PROVE Has(v[Q], x) /\ ~Below(sep, x)
  <2>1. PICK m \in 1 .. Len(w[Q].keys) : Real(w[Q].keys[m]) = x
    BY <1>6 DEF Has
  <2>2. PICK i \in 1 .. Len(v[Q].keys) : w[Q].keys[m] = v[Q].keys[i]
    BY <1>2 DEF Divided, Entry
  <2>3. ~Below(sep, w[Q].keys[m])
    BY <1>2 DEF Divided
  <2>4. ~Below(sep, x)
    BY <2>1, <2>2, <2>3, <1>1, <1>5, StandsFor
  <2> QED  BY <2>1, <2>2, <2>4 DEF Has
<1>7. ASSUME Has(w[n + 1], x) PROVE Has(v[Q], x) /\ ~Below(x, sep)
  <2>1. PICK m \in 1 .. Len(w[n + 1].keys) : Real(w[n + 1].keys[m]) = x
    BY <1>7 DEF Has
  <2>2. PICK i \in 1 .. Len(v[Q].keys) : w[n + 1].keys[m] = v[Q].keys[i]
    BY <1>2 DEF Divided, Entry
  <2>3. ~Below(w[n + 1].keys[m], sep)
    BY <1>2 DEF Divided
  <2>4. ~Below(x, sep)
    BY <2>1, <2>2, <2>3, <1>1, <1>5, StandsFor
  <2> QED  BY <2>1, <2>2, <2>4 DEF Has
<1>8. ASSUME Has(v[Q], x) PROVE Has(w[Q], x) \/ Has(w[n + 1], x) \/ (~v[Q].leaf /\ x = Real(sep))
  <2>1. PICK i \in 1 .. Len(v[Q].keys) : Real(v[Q].keys[i]) = x
    BY <1>8 DEF Has
  <2>2. \/ \E m \in 1 .. Len(w[Q].keys) : w[Q].keys[m] = v[Q].keys[i]
        \/ \E m \in 1 .. Len(w[n + 1].keys) : w[n + 1].keys[m] = v[Q].keys[i]
        \/ ~v[Q].leaf /\ v[Q].keys[i] = sep
    BY <1>2 DEF Divided, Entry
  <2> QED  BY <2>1, <2>2 DEF Has
<1>9. Has(v[Q], Real(sep)) /\ (v[Q].leaf => Has(w[n + 1], Real(sep)))
  BY <1>2 DEF Divided, Has
<1> QED  BY <1>4, <1>6, <1>7, <1>8, <1>9

\* One word more separates nodes, unless it did before.
LEMMA SplitSeps ==
    ASSUME NEW n, NEW v, NEW w, NEW par, NEW at, NEW home, NEW band, NEW P, NEW ci, NEW Q, NEW half,
           Split(n, v, w, par, at, home, band, P, ci, Q, half),
           NEW sep, sep = v[Q].keys[half + 1]
    PROVE  /\ SepWords(n + 1, w) = SepWords(n, v) \cup {Real(sep)}
           /\ ~v[Q].leaf => Real(sep) \in SepWords(n, v)
<1>0. /\ n \in Nat /\ Q \in 0 .. n /\ P \in 0 .. n /\ P # Q /\ ~v[P].leaf
      /\ \A q \in 0 .. n + 1 : q = n + 1 \/ q \in 0 .. n
      /\ \A q \in 0 .. n : q \in 0 .. n + 1
      /\ n + 1 \in 0 .. n + 1
  <2>1. /\ n \in Nat /\ Q \in 0 .. n /\ P \in 0 .. n /\ P # Q /\ ~v[P].leaf
        /\ \A q \in 0 .. n + 1 : q = n + 1 \/ q \in 0 .. n
    BY SplitFacts
  <2> QED  BY <2>1
<1>1. /\ \A q \in 0 .. n : q # P /\ q # Q => w[q] = v[q]
      /\ w[Q].leaf = v[Q].leaf /\ w[P].leaf = v[P].leaf /\ w[n + 1].leaf = v[Q].leaf
  BY DEF Split, Parted, Added
<1>2. Real(sep) \in Words
  BY SplitBetween
<1>3. \A x \in Words :
           /\ Has(w[P], x) <=> Has(v[P], x) \/ x = Real(sep)
           /\ Has(w[Q], x) => Has(v[Q], x)
           /\ Has(w[n + 1], x) => Has(v[Q], x)
           /\ Has(v[Q], x) => Has(w[Q], x) \/ Has(w[n + 1], x) \/ (~v[Q].leaf /\ x = Real(sep))
  BY SplitWords
<1>4. Has(v[Q], Real(sep))
  BY <1>2, SplitWords
<1>5. ~v[Q].leaf => Real(sep) \in SepWords(n, v)
  BY <1>0, <1>2, <1>4 DEF SepWords
<1>6. ASSUME NEW x \in SepWords(n + 1, w) PROVE x \in SepWords(n, v) \/ x = Real(sep)
  <2>1. x \in Words
    BY DEF SepWords
  <2>2. PICK p \in 0 .. n + 1 : ~w[p].leaf /\ Has(w[p], x)
    BY DEF SepWords
  <2>3. \/ p = P \/ p = Q \/ p = n + 1 \/ (p \in 0 .. n /\ w[p] = v[p])
    BY <1>0, <1>1
  <2>4. \/ x = Real(sep) \/ \E q \in 0 .. n : ~v[q].leaf /\ Has(v[q], x)
    BY <2>1, <2>2, <2>3, <1>0, <1>1, <1>3
  <2> QED  BY <2>1, <2>4 DEF SepWords
<1>7. ASSUME NEW x \in SepWords(n, v) PROVE x \in SepWords(n + 1, w)
  <2>1. x \in Words
    BY DEF SepWords
  <2>2. PICK p \in 0 .. n : ~v[p].leaf /\ Has(v[p], x)
    BY DEF SepWords
  <2>3. \E q \in 0 .. n + 1 : ~w[q].leaf /\ Has(w[q], x)
    <3>1. CASE p = P
      BY <3>1, <2>1, <2>2, <1>0, <1>1, <1>3
    <3>2. CASE p = Q
      <4>1. Has(w[Q], x) \/ Has(w[n + 1], x) \/ Has(w[P], x)
        BY <3>2, <2>1, <2>2, <1>3
      <4> QED  BY <4>1, <3>2, <2>2, <1>0, <1>1
    <3>3. CASE p # P /\ p # Q
      BY <3>3, <2>2, <1>0, <1>1
    <3> QED  BY <3>1, <3>2, <3>3
  <2> QED  BY <2>1, <2>3 DEF SepWords
<1>8. Real(sep) \in SepWords(n + 1, w)
  BY <1>0, <1>1, <1>2, <1>3 DEF SepWords
<1> QED  BY <1>5, <1>6, <1>7, <1>8

\* A word in a leaf leads there or separates nodes, and one that does is in the
\* leaf it leads to.
LEMMA SplitPlaced ==
    ASSUME NEW n, NEW v, NEW w, NEW par, NEW at, NEW home, NEW band, NEW P, NEW ci, NEW Q, NEW half,
           Split(n, v, w, par, at, home, band, P, ci, Q, half),
           NEW sep, sep = v[Q].keys[half + 1],
           NEW nh, nh = NewHome(n, home, Q, sep), NEW p \in 1 .. n + 1, w[p].leaf
    PROVE  Placed(w[p], nh[p], SepWords(n + 1, w))
<1> DEFINE W == SepWords(n, v)  s == Real(sep)
<1>0. /\ n \in Nat /\ Q \in 1 .. n /\ P \in 0 .. n /\ P # Q /\ n + 1 # P /\ n + 1 # Q /\ ~v[P].leaf
      /\ \A q \in 1 .. n + 1 : q = n + 1 \/ q \in 1 .. n
  BY SplitFacts
<1>1. /\ \A q \in 0 .. n : q # P /\ q # Q => w[q] = v[q]
      /\ w[Q].leaf = v[Q].leaf /\ w[P].leaf = v[P].leaf /\ w[n + 1].leaf = v[Q].leaf
  BY DEF Split, Parted, Added
<1>2. /\ Zone(n, home) /\ \A q \in 1 .. n : v[q].leaf => Placed(v[q], home[q], W)
      /\ \A q, r \in 1 .. n : v[q].leaf /\ v[r].leaf /\ q # r => home[q] \cap home[r] = {}
  BY DEF Split, TreeOf, Zones
<1>3. /\ \A q \in 0 .. n : q # Q => nh[q] = home[q]
      /\ nh[Q] = home[Q] \cap Left(sep) /\ nh[n + 1] = home[Q] \cap Right(sep)
  BY <1>0, <1>2, NewZoneIs DEF NewHome
<1>4. s \in Words /\ sep \in Strings /\ s \in Strings
  BY SplitBetween, Stringed
<1>5. SepWords(n + 1, w) = W \cup {s} /\ (~v[Q].leaf => s \in W)
  BY SplitSeps
<1>6. \A x \in Words :
           /\ Has(w[Q], x) => Has(v[Q], x) /\ ~Below(sep, x)
           /\ Has(w[n + 1], x) => Has(v[Q], x) /\ ~Below(x, sep)
           /\ Has(v[Q], x) => Has(w[Q], x) \/ Has(w[n + 1], x) \/ (~v[Q].leaf /\ x = s)
  BY SplitWords
<1>7. Has(v[Q], s) /\ (v[Q].leaf => Has(w[n + 1], s))
  BY <1>4, SplitWords
<1>8. \A x \in Words : ~Below(x, sep) /\ ~Below(sep, x) => x = s
  <2>1. \A x \in Words : x \in Strings /\ Real(x) = x
    BY WordIsReal
  <2> QED  BY <2>1, <1>4, Order DEF Same
<1>9. \A x \in W : x \in Words
  BY DEF SepWords
<1> HIDE DEF W, s
<1>10. CASE p = Q
  <2>1. v[Q].leaf /\ Placed(v[Q], home[Q], W)
    BY <1>0, <1>1, <1>2, <1>10
  <2>2. ASSUME NEW x \in Words, Has(w[Q], x) PROVE x \in nh[Q] \cup (W \cup {s})
    <3>1. x \in home[Q] \cup W /\ ~Below(sep, x)
      BY <2>1, <2>2, <1>6 DEF Placed
    <3>2. Below(x, sep) \/ x = s
      BY <3>1, <1>8
    <3> QED  BY <3>1, <3>2, <1>3 DEF Left
  <2>3. ASSUME NEW x \in (W \cup {s}) \cap nh[Q] PROVE Has(w[Q], x)
    <3>1. x \in Words /\ x \in home[Q] /\ Below(x, sep)
      BY <1>3 DEF Left
    <3>2. x # s
      <4>1. ~Below(s, sep)
        BY <1>4, StandsFor, Order DEF s
      <4> QED  BY <3>1, <4>1
    <3>3. Has(v[Q], x)
      BY <3>1, <3>2, <2>1 DEF Placed
    <3> QED  BY <3>1, <3>3, <2>1, <1>6
  <2> QED  BY <2>2, <2>3, <1>5, <1>10 DEF Placed
<1>11. CASE p = n + 1
  <2>1. v[Q].leaf /\ Placed(v[Q], home[Q], W)
    BY <1>0, <1>1, <1>2, <1>11
  <2>2. ASSUME NEW x \in Words, Has(w[n + 1], x) PROVE x \in nh[n + 1] \cup (W \cup {s})
    <3>1. x \in home[Q] \cup W /\ ~Below(x, sep)
      BY <2>1, <2>2, <1>6 DEF Placed
    <3> QED  BY <3>1, <1>3 DEF Right
  <2>3. ASSUME NEW x \in (W \cup {s}) \cap nh[n + 1] PROVE Has(w[n + 1], x)
    <3>1. x \in Words /\ x \in home[Q] /\ ~Below(x, sep)
      BY <1>3 DEF Right
    <3>2. CASE x = s
      BY <3>2, <2>1, <1>7
    <3>3. CASE x # s
      <4>1. Has(v[Q], x)
        BY <3>1, <3>3, <2>1 DEF Placed
      <4>2. ~Has(w[Q], x)
        BY <3>1, <3>3, <1>6, <1>8
      <4> QED  BY <3>1, <4>1, <4>2, <2>1, <1>6
    <3> QED  BY <3>2, <3>3
  <2> QED  BY <2>2, <2>3, <1>5, <1>11 DEF Placed
<1>12. CASE p \in 1 .. n /\ p # Q
  <2>1. p \in 0 .. n /\ p # P
    BY <1>0, <1>1, <1>12
  <2>2. w[p] = v[p] /\ v[p].leaf /\ nh[p] = home[p] /\ Placed(v[p], home[p], W)
    BY <2>1, <1>1, <1>2, <1>3, <1>12
  <2>3. s \in home[p] => s \in W
    <3>1. CASE ~v[Q].leaf
      BY <3>1, <1>5
    <3>2. CASE v[Q].leaf
      <4>1. s \in home[Q] \cup W
        BY <3>2, <1>0, <1>2, <1>4, <1>7 DEF Placed
      <4>2. home[p] \cap home[Q] = {}
        BY <3>2, <2>2, <1>0, <1>2, <1>12
      <4> QED  BY <4>1, <4>2
    <3> QED  BY <3>1, <3>2
  <2> QED  BY <2>2, <2>3, <1>5 DEF Placed
<1> QED  BY <1>0, <1>10, <1>11, <1>12

\* No entry is lost, and none is made.
LEMMA SplitPairs ==
    ASSUME NEW n, NEW v, NEW w, NEW par, NEW at, NEW home, NEW band, NEW P, NEW ci, NEW Q, NEW half,
           Split(n, v, w, par, at, home, band, P, ci, Q, half)
    PROVE  PairsIn(n + 1, w) = PairsIn(n, v)
<1> DEFINE In(nd, x) == \E m \in 1 .. Len(nd.keys) : x = <<Real(nd.keys[m]), nd.vals[m]>>
<1>0. /\ n \in Nat /\ Q \in 1 .. n /\ P \in 0 .. n /\ P # Q /\ n + 1 # P /\ n + 1 # Q /\ ~v[P].leaf
      /\ \A q \in 1 .. n + 1 : q = n + 1 \/ q \in 1 .. n
  BY SplitFacts
<1>1. /\ \A q \in 0 .. n : q # P /\ q # Q => w[q] = v[q]
      /\ w[Q].leaf = v[Q].leaf /\ w[P].leaf = v[P].leaf /\ w[n + 1].leaf = v[Q].leaf
  BY DEF Split, Parted, Added
<1>2. Divided(v[Q], w[Q], w[n + 1], v[Q].keys[half + 1])
  BY SplitDivides
<1>3. \A x : (In(w[Q], x) => In(v[Q], x)) /\ (In(w[n + 1], x) => In(v[Q], x))
  BY <1>2, ZenonT(60) DEF Divided, Entry
<1>4. \A x : v[Q].leaf /\ In(v[Q], x) => In(w[Q], x) \/ In(w[n + 1], x)
  <2> SUFFICES ASSUME NEW x, v[Q].leaf, In(v[Q], x) PROVE In(w[Q], x) \/ In(w[n + 1], x)
    OBVIOUS
  <2>1. PICK i \in 1 .. Len(v[Q].keys) : x = <<Real(v[Q].keys[i]), v[Q].vals[i]>>
    OBVIOUS
  <2>2. \/ \E m \in 1 .. Len(w[Q].keys) : Entry(w[Q], m, v[Q], i)
        \/ \E m \in 1 .. Len(w[n + 1].keys) : Entry(w[n + 1], m, v[Q], i)
    BY <1>2 DEF Divided
  <2> QED  BY <2>1, <2>2 DEF Entry
<1>5. /\ PairsIn(n + 1, w) = {x \in Words \X Nat : \E q \in 1 .. n + 1 : w[q].leaf /\ In(w[q], x)}
      /\ PairsIn(n, v) = {x \in Words \X Nat : \E q \in 1 .. n : v[q].leaf /\ In(v[q], x)}
  BY DEF PairsIn
<1> HIDE DEF In
<1>6. ASSUME NEW x PROVE (\E q \in 1 .. n + 1 : w[q].leaf /\ In(w[q], x)) <=> (\E q \in 1 .. n : v[q].leaf /\ In(v[q], x))
  <2>0. /\ \A q \in 1 .. n : q \in 0 .. n /\ q \in 1 .. n + 1
        /\ n + 1 \in 1 .. n + 1
    BY <1>0
  <2>1. ASSUME NEW q \in 1 .. n + 1, w[q].leaf, In(w[q], x) PROVE \E r \in 1 .. n : v[r].leaf /\ In(v[r], x)
    <3>1. CASE q = Q \/ q = n + 1
      BY <3>1, <2>1, <1>0, <1>1, <1>3
    <3>2. CASE q \in 1 .. n /\ q # Q
      <4>1. w[q] = v[q]
        BY <3>2, <2>0, <2>1, <1>0, <1>1
      <4> QED  BY <4>1, <3>2, <2>1
    <3> QED  BY <3>1, <3>2, <1>0
  <2>2. ASSUME NEW q \in 1 .. n, v[q].leaf, In(v[q], x) PROVE \E r \in 1 .. n + 1 : w[r].leaf /\ In(w[r], x)
    <3>1. CASE q = Q
      BY <3>1, <2>0, <2>2, <1>0, <1>1, <1>4
    <3>2. CASE q # Q
      <4>1. w[q] = v[q]
        BY <3>2, <2>0, <2>2, <1>0, <1>1
      <4> QED  BY <4>1, <2>0, <2>2
    <3> QED  BY <3>1, <3>2
  <2> QED  BY <2>1, <2>2
<1> QED  BY <1>5, <1>6

\* A split leaves an ordered tree with the same pairs.
LEMMA NodeSplit ==
    ASSUME NEW n, NEW v, NEW w, NEW par, NEW at, NEW home, NEW band, NEW P, NEW ci, NEW Q, NEW half,
           Split(n, v, w, par, at, home, band, P, ci, Q, half)
    PROVE  /\ \E p2, a2, h2, b2 : TreeOf(n + 1, w, p2, a2, h2, b2)
           /\ PairsIn(n + 1, w) = PairsIn(n, v)
<1>1. PICK sep, np, na : /\ sep = v[Q].keys[half + 1] /\ np = NewPar(n, par, at, P, Q, half)
                         /\ na = NewAt(n, par, at, P, ci, Q, half)
  OBVIOUS
<1>2. PICK nh, nb : nh = NewHome(n, home, Q, sep) /\ nb = NewBand(n, band, Q, sep)
  OBVIOUS
<1>3. Shape(n + 1, w, np, na)
  BY <1>1, SplitShape
<1>4. Zone(n + 1, nh) /\ Zone(n + 1, nb) /\ Zones(n + 1, w, np, na, nh, nb)
  BY <1>1, <1>2, SplitZones
<1>5. \A p \in 0 .. n + 1 : Arranged(w[p], nb[p])
  BY <1>1, <1>2, SplitArranged
<1>6. \A p \in 1 .. n + 1 : w[p].leaf => Placed(w[p], nh[p], SepWords(n + 1, w))
  BY <1>1, <1>2, SplitPlaced
<1>7. TreeOf(n + 1, w, np, na, nh, nb)
  BY <1>3, <1>4, <1>5, <1>6 DEF TreeOf
<1> QED  BY <1>7, SplitPairs

-----------------------------------------------------------------------------
(* The file as an ordered tree.                                            *)

\* The header has the root as its only child.
Header == Inner(root, <<>>, <<>>)
Site(p) == IF p = 0 THEN Header ELSE node[p]

\* Where the insertion under way is, or the header above the root.
Tip == IF path = <<>> THEN 0 ELSE path[Len(path)]

\* The tree with the node that is being split as a whole, or with the separator
\* that is still to be linked.
IsView(v) ==
    /\ IsTree(Len(node), v)
    /\ \A p \in 0 .. Len(node) : (p # Tip \/ pc = "idle") => v[p] = Site(p)
    /\ pc \in {"leaf", "inner"} => /\ v[Tip].leaf = Site(Tip).leaf /\ v[Tip].first = Site(Tip).first
                                   /\ v[Tip].keys = comb.keys /\ v[Tip].vals = comb.vals
    /\ pc = "link" => Added(v[Tip], Site(Tip), FindChild(Site(Tip), key), split.sep, split.page)

\* The pairs the tree should have.
Taken == acked \cup (IF pc = "idle" THEN {} ELSE {<<key, rid>>})

IsOrdered(v) ==
    /\ IsView(v)
    /\ \E par, at, home, band : TreeOf(Len(node), v, par, at, home, band)
    /\ PairsIn(Len(node), v) = Taken

\* The path of the insertion is the way its key leads, and the node that is
\* being split has the left half of the combined arrays.
PathInv ==
    pc # "idle" => /\ key \in Words /\ rid \in Nat
                   /\ path # <<>> => path[1] = root
                   /\ \A i \in 1 .. Len(path) - 1 : path[i + 1] = Child(node[path[i]], key)
HalfInv ==
    pc \in {"leaf", "inner"} => /\ node[Tip].keys = SubSeq(comb.keys, 1, Half)
                                /\ node[Tip].vals = SubSeq(comb.vals, 1, Half)

OrderInv == ~damaged /\ ~garbled => mapped /\ PathInv /\ HalfInv /\ \E v : IsOrdered(v)

\* What a node is made of.
LEMMA NodeMade ==
    ASSUME NEW leaf \in BOOLEAN, NEW first \in Nat, NEW keys \in Seq(Slot), NEW vals \in Seq(Nat)
    PROVE  [leaf |-> leaf, first |-> first, keys |-> keys, vals |-> vals] \in Node
BY DEF Node

\* The nodes of the file, and the header, are those of a tree.
LEMMA SitesAreTree ==
    ASSUME TreeInv
    PROVE  /\ Len(node) \in Nat /\ Pages = 1 .. Len(node) /\ root \in Pages /\ root \in Nat
           /\ \A p \in 0 .. Len(node) : Site(p) \in Node /\ Len(Site(p).vals) = Len(Site(p).keys)
           /\ \A p \in 1 .. Len(node) : p \in 0 .. Len(node) /\ Site(p) = node[p]
           /\ Site(0).leaf = FALSE /\ Site(0).first = root /\ Site(0).keys = <<>> /\ Site(0).vals = <<>>
<1>1. Len(node) \in Nat /\ Pages = 1 .. Len(node) /\ root \in Pages
  BY DEF TreeInv, Pages
<1>2. /\ Site(0).leaf = FALSE /\ Site(0).first = root /\ Site(0).keys = <<>> /\ Site(0).vals = <<>>
      /\ Site(0) = Inner(root, <<>>, <<>>)
  BY DEF Site, Header, Inner
<1>3. \A p \in 1 .. Len(node) : p \in 0 .. Len(node) /\ Site(p) = node[p]
  BY <1>1 DEF Site
<1>4. Site(0) \in Node
  <2>1. root \in Nat
    BY <1>1
  <2> HIDE DEF Slot
  <2>2. <<>> \in Seq(Slot) /\ <<>> \in Seq(Nat)
    OBVIOUS
  <2> DEFINE e == <<>>
  <2> HIDE DEF e
  <2>3. e \in Seq(Slot) /\ e \in Seq(Nat) /\ Site(0) = Inner(root, e, e)
    BY <2>2, <1>2 DEF e
  <2>4. Inner(root, e, e) = [leaf |-> FALSE, first |-> root, keys |-> e, vals |-> e]
    BY DEF Inner
  <2>5. Inner(root, e, e) \in Node
    BY <2>1, <2>3, <2>4, NodeMade
  <2> QED  BY <2>3, <2>5
<1>5. ASSUME NEW p \in 0 .. Len(node) PROVE Site(p) \in Node /\ Len(Site(p).vals) = Len(Site(p).keys)
  <2>1. CASE p = 0
    BY <2>1, <1>2, <1>4
  <2>2. CASE p # 0
    <3>1. p \in Pages /\ Site(p) = node[p]
      BY <2>2, <1>1, <1>3
    <3> QED  BY <3>1 DEF TreeInv, GoodNode
  <2> QED  BY <2>1, <2>2
<1>6. root \in Nat
  BY <1>1
<1> QED  BY <1>1, <1>2, <1>3, <1>5, <1>6

\* Every word leads from the header to the root.
LEMMA RootIsHome ==
    ASSUME NEW n, NEW v, IsTree(n, v), NEW par, NEW at, Shape(n, v, par, at)
    PROVE  v[0].first \in 1 .. n /\ par[v[0].first] = 0 /\ at[v[0].first] = 0
<1>1. n \in Nat /\ 0 \in 0 .. n /\ ~v[0].leaf
  BY DEF IsTree
<1>2. Len(v[0].keys) \in Nat
  BY <1>1, NodeParts
<1>3. 0 \in 0 .. Len(v[0].keys) /\ ChildAt(v[0], 0) = v[0].first
  BY <1>2 DEF ChildAt
<1>4. \A i \in 0 .. Len(v[0].keys) :
         ChildAt(v[0], i) \in 1 .. n /\ par[ChildAt(v[0], i)] = 0 /\ at[ChildAt(v[0], i)] = i
  BY <1>1 DEF Shape
<1> QED  BY <1>3, <1>4

\* A word that leads to an inner node leads to the child find_child_binary
\* finds.
LEMMA ChildIsHome ==
    ASSUME NEW n, NEW v, IsTree(n, v), NEW par, NEW at, NEW home, NEW band,
           TreeOf(n, v, par, at, home, band), NEW p \in 0 .. n, ~v[p].leaf, NEW k \in Words
    PROVE  LET c == Child(v[p], k)
           IN /\ c \in 1 .. n /\ par[c] = p /\ at[c] = FindChild(v[p], k)
              /\ FindChild(v[p], k) \in 0 .. Len(v[p].keys) /\ c = ChildAt(v[p], FindChild(v[p], k))
              /\ k \in home[p] => k \in home[c]
<1> DEFINE ci == FindChild(v[p], k)  c == Child(v[p], k)
<1>1. v[p].keys \in Seq(Slot) /\ SortedKeys(v[p].keys) /\ k \in Strings
  <2>1. SortedKeys(v[p].keys)
    BY DEF TreeOf, Arranged
  <2> QED  BY <2>1, NodeParts, Stringed
<1>2. ci \in 0 .. Len(v[p].keys) /\ Open(v[p].keys, ci, k)
  BY <1>1, FindChildOpen
<1>3. c = ChildAt(v[p], ci)
  BY DEF Child, ChildAt
<1> HIDE DEF ci, c
<1>4. c \in 1 .. n /\ par[c] = p /\ at[c] = ci
  BY <1>2, <1>3 DEF TreeOf, Shape
<1>5. home[c] = {x \in home[p] : Open(v[p].keys, ci, x)}
  BY <1>4 DEF TreeOf, Zones
<1> QED  BY <1>2, <1>3, <1>4, <1>5 DEF ci, c

\* The way search goes leads to the leaf where the key belongs.
LEMMA LeadsHome ==
    ASSUME TreeInv, pc = "idle", NEW v, IsView(v), NEW par, NEW at, NEW home, NEW band,
           TreeOf(Len(node), v, par, at, home, band), NEW k \in Words, NEW d, WayFrom(d, root, k)
    PROVE  d[Len(d)] \in 1 .. Len(node) /\ v[d[Len(d)]].leaf /\ v[d[Len(d)]] = node[d[Len(d)]]
           /\ k \in home[d[Len(d)]]
<1> DEFINE n == Len(node)  S == {m \in Nat : m + 1 \in 1 .. Len(d) => k \in home[d[m + 1]]}
<1>1. /\ n \in Nat /\ Pages = 1 .. n /\ root \in Pages /\ \A p \in 1 .. n : p \in 0 .. n /\ v[p] = node[p]
      /\ 0 \in 0 .. n /\ v[0].first = root /\ v[0].keys = <<>>
  BY SitesAreTree DEF IsView
<1>2. /\ d \in Seq(Pages) /\ Len(d) \in Nat /\ Len(d) > 0 /\ d[1] = root /\ node[d[Len(d)]].leaf
      /\ \A i \in 1 .. Len(d) - 1 : ~node[d[i]].leaf /\ d[i + 1] = Child(node[d[i]], k)
      /\ \A i \in 1 .. Len(d) : d[i] \in 1 .. n
  BY <1>1 DEF WayFrom
<1>3. IsTree(n, v)
  BY DEF IsView
<1>4. k \in home[root]
  <2>1. root \in 1 .. n /\ par[root] = 0 /\ at[root] = 0
    BY <1>1, <1>3, RootIsHome DEF TreeOf
  <2>2. home[root] = {x \in home[0] : Open(v[0].keys, 0, x)} /\ home[0] = Words
    BY <2>1 DEF TreeOf, Zones, Zone
  <2>3. Open(v[0].keys, 0, k)
    BY <1>1 DEF Open, Cut
  <2> QED  BY <2>2, <2>3
<1>5. 0 \in S
  BY <1>2, <1>4
<1>6. ASSUME NEW m \in Nat, m \in S PROVE m + 1 \in S
  <2> SUFFICES ASSUME m + 1 + 1 \in 1 .. Len(d) PROVE k \in home[d[m + 1 + 1]]
    OBVIOUS
  <2>1. m + 1 \in 1 .. Len(d) /\ m + 1 \in 1 .. Len(d) - 1
    BY <1>2
  <2>2. k \in home[d[m + 1]]
    BY <2>1, <1>6
  <2> DEFINE q == d[m + 1]  r == d[m + 1 + 1]
  <2>3. q \in 1 .. n /\ q \in 0 .. n /\ v[q] = node[q] /\ ~v[q].leaf /\ r = Child(v[q], k)
    BY <2>1, <1>1, <1>2
  <2> HIDE DEF q, r
  <2>4. k \in home[q]
    BY <2>2 DEF q
  <2>5. k \in home[r]
    BY <2>3, <2>4, <1>3, ChildIsHome
  <2> QED  BY <2>5 DEF r
<1>7. \A m \in Nat : m \in S
  <2> HIDE DEF S
  <2> QED  BY <1>5, <1>6, SetInduction
<1>8. Len(d) - 1 \in Nat /\ (Len(d) - 1) + 1 = Len(d) /\ Len(d) \in 1 .. Len(d)
  BY <1>2
<1>9. k \in home[d[Len(d)]]
  BY <1>7, <1>8
<1> QED  BY <1>1, <1>2, <1>8, <1>9

\* No page is twice on the path.
LEMMA PathDistinct ==
    ASSUME IndexInv, NEW i \in 1 .. Len(path), i # Len(path)
    PROVE  path[i] # path[Len(path)]
<1>1. PICK h : Heights(h) /\ PathHeights(h)
  BY DEF IndexInv, LevelInv
<1>2. path \in Seq(Pages) /\ Len(path) \in Nat /\ \A j \in 1 .. Len(path) : path[j] \in Pages
  BY DEF IndexInv, CallInv
<1>3. \A j \in 1 .. Len(path) : h[path[j]] \in Nat
  BY <1>1, <1>2 DEF Heights
<1> DEFINE S == {m \in Nat : i + m + 1 \in 1 .. Len(path) => h[path[i + m + 1]] < h[path[i]]}
<1>4. \A j \in 1 .. Len(path) - 1 : h[path[j + 1]] < h[path[j]]
  BY <1>1 DEF PathHeights
<1>5. 0 \in S
  <2>1. i \in 1 .. Len(path) - 1 /\ i + 0 + 1 = i + 1
    BY <1>2
  <2> QED  BY <2>1, <1>4
<1>6. ASSUME NEW m \in Nat, m \in S PROVE m + 1 \in S
  <2> SUFFICES ASSUME i + (m + 1) + 1 \in 1 .. Len(path) PROVE h[path[i + (m + 1) + 1]] < h[path[i]]
    OBVIOUS
  <2>1. /\ i + m + 1 \in 1 .. Len(path) /\ i + m + 1 \in 1 .. Len(path) - 1
        /\ i + (m + 1) + 1 = (i + m + 1) + 1
    BY <1>2
  <2>2. h[path[i + m + 1]] < h[path[i]] /\ h[path[(i + m + 1) + 1]] < h[path[i + m + 1]]
    BY <2>1, <1>4, <1>6
  <2>3. h[path[i]] \in Nat /\ h[path[i + m + 1]] \in Nat /\ h[path[(i + m + 1) + 1]] \in Nat
    BY <2>1, <1>3
  <2>4. h[path[(i + m + 1) + 1]] < h[path[i]]
    BY <2>2, <2>3
  <2> QED  BY <2>1, <2>4
<1>7. \A m \in Nat : m \in S
  <2> HIDE DEF S
  <2> QED  BY <1>5, <1>6, SetInduction
<1>8. Len(path) - i - 1 \in Nat /\ i + (Len(path) - i - 1) + 1 = Len(path) /\ Len(path) \in 1 .. Len(path)
  BY <1>2
<1>9. h[path[Len(path)]] < h[path[i]]
  BY <1>7, <1>8, Zenon
<1> QED  BY <1>9, <1>8, <1>3

-----------------------------------------------------------------------------
(* The steps of an insertion leave an ordered tree.                        *)

\* Two nodes with the same parts are the same.
LEMMA SameNode ==
    ASSUME NEW x \in Node, NEW y \in Node,
           x.leaf = y.leaf, x.first = y.first, x.keys = y.keys, x.vals = y.vals
    PROVE  x = y
BY DEF Node

\* Where the insertion is.
LEMMA TipIsSite ==
    ASSUME IndexInv
    PROVE  /\ Tip \in 0 .. Len(node) /\ (pc = "idle" => Tip = 0)
           /\ path # <<>> => Tip = path[Len(path)] /\ Tip \in Pages /\ Tip # 0 /\ Top = Tip /\ Len(path) > 0
           /\ pc \in {"leaf", "inner"} => path # <<>>
<1>1. TreeInv /\ CallInv
  BY DEF IndexInv
<1>2. Len(node) \in Nat /\ Pages = 1 .. Len(node) /\ path \in Seq(Pages)
  BY <1>1, SitesAreTree DEF CallInv
<1>3. path # <<>> => Len(path) > 0 /\ path[Len(path)] \in Pages
  BY <1>2
<1>4. Top = path[Len(path)]
  BY DEF Top, Last
<1>5. pc = "idle" => path = <<>>
  BY <1>1 DEF CallInv
<1>6. pc \in {"leaf", "inner"} => path # <<>>
  BY <1>1 DEF CallInv
<1>7. 0 \in 0 .. Len(node) /\ \A p \in Pages : p \in 0 .. Len(node) /\ p # 0
  BY <1>2
<1> QED  BY <1>3, <1>4, <1>5, <1>6, <1>7 DEF Tip

\* The leaf where a key belongs takes it: what LeafInsert and LeafSplitLeft have
\* in common.
LEMMA LeafTakes ==
    ASSUME IndexInv, OrderInv, ~damaged, ~garbled, NEW k \in Keys, NEW d, d = Descent(k), AtLeaf(k, d),
           NEW slot \in Slot, Real(slot) = k,
           slot = Copied(k, EmptySlot) \/ slot = Copied(k, OldSlot(node[Last(d)], LeafPos(node[Last(d)], k)))
    PROVE  \E v, w : /\ IsView(v) /\ IsTree(Len(node), w)
                     /\ \A q \in 0 .. Len(node) : q # Last(d) => w[q] = Site(q)
                     /\ Added(w[Last(d)], node[Last(d)], LeafPos(node[Last(d)], k), slot, Len(asked))
                     /\ \E par, at, home, band : TreeOf(Len(node), w, par, at, home, band)
                     /\ PairsIn(Len(node), w) = acked \cup {<<k, Len(asked)>>}
<1> PICK p : p = Last(d)
  OBVIOUS
<1> PICK pos : pos = LeafPos(node[p], k)
  OBVIOUS
<1> DEFINE n == Len(node)  r == Len(asked)
<1>1. /\ WayFrom(d, root, k) /\ p = d[Len(d)] /\ p \in Pages /\ node[p].leaf = TRUE
      /\ GoodNode(node[p]) /\ node[p].keys \in Seq(Slot) /\ node[p].vals \in Seq(Nat)
      /\ Len(node[p].vals) = Len(node[p].keys)
      /\ pos \in 0 .. Len(node[p].keys) /\ pc = "idle" /\ r \in Nat
  BY AtTheLeaf
<1>2. TreeInv /\ n \in Nat /\ Pages = 1 .. n /\ p \in 1 .. n /\ p \in 0 .. n /\ Site(p) = node[p]
      /\ \A q \in 0 .. n : Site(q) \in Node /\ Len(Site(q).vals) = Len(Site(q).keys)
      /\ Site(0).leaf = FALSE /\ p # 0
  BY <1>1, SitesAreTree DEF IndexInv
<1>3. PICK v : IsOrdered(v)
  BY DEF OrderInv
<1>4. PICK par, at, home, band : TreeOf(n, v, par, at, home, band)
  BY <1>3 DEF IsOrdered
<1>5. IsView(v) /\ PairsIn(n, v) = acked /\ IsTree(n, v) /\ \A q \in 0 .. n : v[q] = Site(q)
  BY <1>1, <1>3 DEF IsOrdered, Taken, IsView
<1>6. k \in Words
  BY Stringed
<1>7. k \in home[p] /\ v[p].leaf /\ v[p] = node[p]
  BY <1>1, <1>2, <1>4, <1>5, <1>6, LeadsHome
<1>8. Clean(slot)
  <2>1. EmptySlot \in Slot /\ Clean(EmptySlot)
    BY EmptyIsClean
  <2>2. Arranged(node[p], band[p])
    BY <1>2, <1>4, <1>7 DEF TreeOf
  <2>3. OldSlot(node[p], pos) \in Slot /\ Clean(OldSlot(node[p], pos))
    <3>1. CASE pos < Len(node[p].keys)
      <4>1. pos + 1 \in 1 .. Len(node[p].keys)
        BY <3>1, <1>1
      <4>2. OldSlot(node[p], pos) = node[p].keys[pos + 1]
        BY <3>1 DEF OldSlot
      <4>3. node[p].keys[pos + 1] \in Slot
        BY <4>1, <1>1, SlotsAreStrings
      <4> QED  BY <4>1, <4>2, <4>3, <2>2 DEF Arranged
    <3>2. CASE ~(pos < Len(node[p].keys))
      BY <3>2, <2>1 DEF OldSlot
    <3> QED  BY <3>1, <3>2
  <2> PICK old : old \in {EmptySlot, OldSlot(node[p], pos)} /\ slot = Copied(k, old)
    OBVIOUS
  <2>4. old \in Slot /\ Clean(old)
    BY <2>1, <2>3
  <2> QED  BY <2>4, CopyStaysClean
<1>9. PICK nd : nd = Leaf(InsertAt(node[p].keys, pos + 1, slot), InsertAt(node[p].vals, pos + 1, r))
  OBVIOUS
<1>10. Added(nd, node[p], pos, slot, r)
  <2>1. node[p].first = 0
    BY <1>1 DEF GoodNode
  <2> QED  BY <2>1, <1>1, <1>9 DEF Added, Leaf
<1>11. nd \in Node /\ Len(nd.vals) = Len(nd.keys)
  <2> HIDE DEF r
  <2>1. Len(nd.vals) = Len(nd.keys) /\ nd.keys \in Seq(Slot) /\ nd.vals \in Seq(Nat)
    BY <1>1, <1>10, AddedEntries, ZenonT(60)
  <2>2. nd = Leaf(nd.keys, nd.vals)
    BY <1>9 DEF Leaf
  <2>3. nd \in Node
    <3> PICK a, b : a = nd.keys /\ b = nd.vals
      OBVIOUS
    <3>1. nd = [leaf |-> TRUE, first |-> 0, keys |-> a, vals |-> b]
      BY <2>2 DEF Leaf
    <3>2. a \in Seq(Slot) /\ b \in Seq(Nat)
      BY <2>1
    <3> QED  BY <3>1, <3>2, NodeMade
  <2> QED  BY <2>1, <2>3
<1>12. PICK w : w = [q \in 0 .. n |-> IF q = p THEN nd ELSE Site(q)]
  OBVIOUS
<1>13. w[p] = nd /\ \A q \in 0 .. n : q # p => w[q] = Site(q)
  BY <1>2, <1>12
<1>14. IsTree(n, w)
  <2>1. w \in [0 .. n -> Node]
    BY <1>2, <1>11, <1>12
  <2>2. w[0].leaf = FALSE
    BY <1>2, <1>13
  <2>3. \A q \in 0 .. n : Len(w[q].vals) = Len(w[q].keys)
    BY <1>2, <1>11, <1>13
  <2> QED  BY <1>2, <2>1, <2>2, <2>3 DEF IsTree
<1>15. TreeOf(n, w, par, at, home, band) /\ PairsIn(n, w) = PairsIn(n, v) \cup {<<k, r>>}
  <2>1. Added(w[p], v[p], LeafPos(v[p], k), slot, r)
    BY <1>7, <1>10, <1>13
  <2>2. \A q \in 0 .. n : q # p => w[q] = v[q]
    BY <1>5, <1>13
  <2> HIDE DEF n, r
  <2>3. r \in Nat /\ p \in 1 .. n /\ k \in home[p] /\ v[p].leaf /\ IsTree(n, v) /\ IsTree(n, w)
    BY <1>1, <1>2, <1>5, <1>7, <1>14
  <2> QED  BY <2>1, <2>2, <2>3, <1>4, <1>6, <1>8, LeafGrows
<1>16. WITNESS v, w
<1> QED  BY <1>5, <1>10, <1>13, <1>14, <1>15

\* insert_into_leaf_node, a slot is free.
LEMMA LeafInsertOrder ==
    ASSUME IndexInv, IndexInv', OrderInv, NEW k \in Keys, NEW d, d = Descent(k), LeafInsert(k, d)
    PROVE  OrderInv'
<1> SUFFICES ASSUME ~damaged', ~garbled' PROVE mapped' /\ PathInv' /\ HalfInv' /\ \E v : IsOrdered(v)'
  BY DEF OrderInv
<1> PICK p, pos : p = Last(d) /\ pos = LeafPos(node[p], k)
  OBVIOUS
<1> PICK slot : slot = Copied(k, OldSlot(node[p], pos))
  OBVIOUS
<1> PICK nd : nd = Leaf(InsertAt(node[p].keys, pos + 1, slot), InsertAt(node[p].vals, pos + 1, Len(asked)))
  OBVIOUS
<1>1. /\ AtLeaf(k, d) /\ node' = [node EXCEPT ![p] = nd]
      /\ garbled' = (garbled \/ Real(slot) # k) /\ acked' = acked \cup {<<k, Len(asked)>>}
      /\ UNCHANGED <<root, mapped, pc, path, damaged>>
  BY DEF LeafInsert, Overwrite, callVars
<1>2. /\ p \in Pages /\ node[p].leaf = TRUE /\ pc = "idle" /\ GoodNode(node[p])
      /\ pos \in 0 .. Len(node[p].keys)
  BY <1>1, AtTheLeaf
<1>3. slot \in Slot /\ Real(slot) = k /\ ~garbled /\ ~damaged
  BY <1>1, <1>2, OldSlotIsSlot, CopiedSlot
<1>4. PICK w : /\ IsTree(Len(node), w)
               /\ \A q \in 0 .. Len(node) : q # p => w[q] = Site(q)
               /\ Added(w[p], node[p], pos, slot, Len(asked))
               /\ \E par, at, home, band : TreeOf(Len(node), w, par, at, home, band)
               /\ PairsIn(Len(node), w) = acked \cup {<<k, Len(asked)>>}
  BY <1>1, <1>3, LeafTakes
<1>5. /\ node \in Seq(Node) /\ Len(node) \in Nat /\ Pages = 1 .. Len(node) /\ p \in 1 .. Len(node) /\ p \in 0 .. Len(node)
  BY <1>2, SitesAreTree DEF IndexInv, TreeInv
<1>6. /\ Len(node') = Len(node) /\ node'[p] = nd /\ \A q \in 1 .. Len(node) : q # p => node'[q] = node[q]
  BY <1>1, <1>5
<1>7. nd \in Node
  <2>1. p \in Pages' /\ TreeInv'
    BY <1>5, <1>6 DEF IndexInv, TreeInv, Pages
  <2> QED  BY <2>1, <1>6 DEF TreeInv, GoodNode
<1>8. w[p] = nd
  <2>1. w[p] \in Node
    BY <1>4, <1>5 DEF IsTree
  <2>2. nd.leaf = TRUE /\ nd.first = 0 /\ node[p].first = 0
    BY <1>2 DEF Leaf, GoodNode
  <2>3. w[p].leaf = nd.leaf /\ w[p].first = nd.first /\ w[p].keys = nd.keys /\ w[p].vals = nd.vals
    BY <2>2, <1>2, <1>4 DEF Added, Leaf
  <2> QED  BY <2>1, <2>3, <1>7, SameNode
<1>9. IsView(w)'
  <2>1. \A q \in 0 .. Len(node') : w[q] = Site(q)'
    <3> SUFFICES ASSUME NEW q \in 0 .. Len(node') PROVE w[q] = Site(q)'
      OBVIOUS
    <3>1. CASE q = p
      <4>1. q # 0
        BY <3>1, <1>5
      <4> QED  BY <3>1, <4>1, <1>6, <1>8 DEF Site
    <3>2. CASE q # p /\ q = 0
      BY <3>2, <1>1, <1>4, <1>5 DEF Site, Header
    <3>3. CASE q # p /\ q # 0
      <4>1. q \in 1 .. Len(node) /\ q \in 0 .. Len(node)
        BY <3>3, <1>5, <1>6
      <4> QED  BY <3>3, <4>1, <1>4, <1>6 DEF Site
    <3> QED  BY <3>1, <3>2, <3>3
  <2> QED  BY <2>1, <1>1, <1>2, <1>4, <1>6 DEF IsView
<1>10. IsOrdered(w)'
  BY <1>1, <1>2, <1>4, <1>6, <1>9 DEF IsOrdered, Taken
<1>11. mapped' /\ PathInv' /\ HalfInv'
  BY <1>1, <1>2, <1>3 DEF OrderInv, PathInv, HalfInv
<1> QED  BY <1>10, <1>11

\* insert_into_leaf_node, the leaf is full.
LEMMA LeafSplitLeftOrder ==
    ASSUME IndexInv, IndexInv', OrderInv, NEW k \in Keys, NEW d, d = Descent(k), LeafSplitLeft(k, d)
    PROVE  OrderInv'
<1> SUFFICES ASSUME ~damaged', ~garbled' PROVE mapped' /\ PathInv' /\ HalfInv' /\ \E v : IsOrdered(v)'
  BY DEF OrderInv
<1> PICK p, pos : p = Last(d) /\ pos = LeafPos(node[p], k)
  OBVIOUS
<1> PICK slot : slot = Copied(k, EmptySlot)
  OBVIOUS
<1> PICK keys, vals : keys = InsertAt(node[p].keys, pos + 1, slot) /\ vals = InsertAt(node[p].vals, pos + 1, Len(asked))
  OBVIOUS
<1> PICK nd : nd = Leaf(SubSeq(keys, 1, Len(keys) \div 2), SubSeq(vals, 1, Len(keys) \div 2))
  OBVIOUS
<1>1. /\ AtLeaf(k, d) /\ node' = [node EXCEPT ![p] = nd] /\ comb' = [keys |-> keys, vals |-> vals]
      /\ key' = k /\ rid' = Len(asked) /\ path' = d /\ pc' = "leaf"
      /\ garbled' = (garbled \/ Real(slot) # k)
      /\ UNCHANGED <<root, mapped, acked, damaged>>
  BY DEF LeafSplitLeft, Overwrite
<1>2. /\ WayFrom(d, root, k) /\ p = d[Len(d)] /\ p \in Pages /\ node[p].leaf = TRUE /\ pc = "idle" /\ GoodNode(node[p])
      /\ pos \in 0 .. Len(node[p].keys) /\ Len(asked) \in Nat
  BY <1>1, AtTheLeaf, ZenonT(60)
<1>3. slot \in Slot /\ Real(slot) = k /\ ~garbled /\ ~damaged /\ k \in Words
  BY <1>1, <1>2, OldSlotIsSlot, CopiedSlot, Stringed
<1>4. PICK w : /\ IsTree(Len(node), w)
               /\ \A q \in 0 .. Len(node) : q # p => w[q] = Site(q)
               /\ Added(w[p], node[p], pos, slot, Len(asked))
               /\ \E par, at, home, band : TreeOf(Len(node), w, par, at, home, band)
               /\ PairsIn(Len(node), w) = acked \cup {<<k, Len(asked)>>}
  BY <1>1, <1>3, LeafTakes
<1>5. /\ node \in Seq(Node) /\ Len(node) \in Nat /\ Pages = 1 .. Len(node) /\ p \in 1 .. Len(node) /\ p \in 0 .. Len(node) /\ p # 0
  BY <1>2, SitesAreTree DEF IndexInv, TreeInv
<1>6. /\ Len(node') = Len(node) /\ node'[p] = nd /\ \A q \in 1 .. Len(node) : q # p => node'[q] = node[q]
  BY <1>1, <1>5
<1>7. /\ d \in Seq(Pages) /\ Len(d) > 0 /\ Len(d) \in Nat /\ d # <<>> /\ d[1] = root
      /\ \A i \in 1 .. Len(d) - 1 : ~node[d[i]].leaf /\ d[i + 1] = Child(node[d[i]], k) /\ d[i] \in Pages
  BY <1>2 DEF WayFrom
<1>8. Tip' = p
  BY <1>1, <1>2, <1>7, SMTT(30) DEF Tip
<1>9. IsView(w)'
  <2>1. \A q \in 0 .. Len(node') : q # p => w[q] = Site(q)'
    <3> SUFFICES ASSUME NEW q \in 0 .. Len(node'), q # p PROVE w[q] = Site(q)'
      OBVIOUS
    <3>2. CASE q = 0
      BY <3>2, <1>1, <1>4, <1>5 DEF Site, Header
    <3>3. CASE q # 0
      <4>1. q \in 1 .. Len(node) /\ q \in 0 .. Len(node)
        BY <3>3, <1>5, <1>6, SMTT(30)
      <4> QED  BY <3>3, <4>1, <1>4, <1>6 DEF Site
    <3> QED  BY <3>2, <3>3
  <2>2. /\ w[p].leaf = nd.leaf /\ w[p].first = nd.first
        /\ w[p].keys = comb'.keys /\ w[p].vals = comb'.vals
    <3>1. nd.leaf = TRUE /\ nd.first = 0 /\ node[p].first = 0
      BY <1>2 DEF Leaf, GoodNode
    <3> QED  BY <3>1, <1>1, <1>2, <1>4, Zenon DEF Added
  <2>3. Site(Tip)' = nd
    BY <1>5, <1>6, <1>8 DEF Site
  <2>4. \A q \in 0 .. Len(node') : (q # Tip' \/ pc' = "idle") => w[q] = Site(q)'
    BY <2>1, <1>1, <1>8
  <2>5. pc' # "link"
    BY <1>1
  <2> QED  BY <2>2, <2>3, <2>4, <2>5, <1>1, <1>4, <1>6, <1>8 DEF IsView
<1>10. IsOrdered(w)'
  BY <1>1, <1>4, <1>6, <1>9, SMTT(30) DEF IsOrdered, Taken
<1>11. PathInv'
  <2>1. ASSUME NEW i \in 1 .. Len(d) - 1 PROVE d[i + 1] = Child(node'[d[i]], k)
    <3>1. node'[d[i]] = node[d[i]]
      BY <1>2, <1>5, <1>6, <1>7
    <3> QED  BY <3>1, <1>7
  <2> QED  BY <2>1, <1>1, <1>2, <1>3, <1>7 DEF PathInv
<1>12. HalfInv'
  <2>1. Half' = Len(keys) \div 2
    BY <1>1 DEF Half
  <2> QED  BY <2>1, <1>1, <1>6, <1>8 DEF HalfInv, Leaf
<1>13. mapped'
  BY <1>1, <1>3 DEF OrderInv
<1> QED  BY <1>10, <1>11, <1>12, <1>13

\* The page above the one the insertion is at.
Over == IF Len(path) = 1 THEN 0 ELSE path[Len(path) - 1]

\* It is the parent, and find_child_binary finds the place of its child.
LEMMA AboveTip ==
    ASSUME IndexInv, PathInv, pc \in {"leaf", "inner"}, NEW P, P = Over,
           NEW v, IsView(v), NEW par, NEW at, NEW home, NEW band, TreeOf(Len(node), v, par, at, home, band)
    PROVE  /\ P \in 0 .. Len(node) /\ P # Tip /\ v[P] = Site(P) /\ par[Tip] = P /\ at[Tip] = FindChild(Site(P), key)
           /\ Tip \in 1 .. Len(node) /\ Site(P).leaf = FALSE /\ FindChild(Site(P), key) \in 0 .. Len(Site(P).keys)
<1> DEFINE n == Len(node)
<1>1. TreeInv /\ CallInv
  BY DEF IndexInv
<1>2. /\ n \in Nat /\ Pages = 1 .. n /\ root \in Pages
      /\ \A p \in 1 .. n : p \in 0 .. n /\ Site(p) = node[p]
      /\ Site(0).leaf = FALSE /\ Site(0).first = root /\ Site(0).keys = <<>>
  BY <1>1, SitesAreTree
<1>3. Tip = path[Len(path)] /\ Tip \in Pages /\ Tip # 0 /\ Len(path) > 0 /\ path # <<>>
  BY TipIsSite
<1>4. path \in Seq(Pages) /\ Len(path) \in Nat
  BY <1>1 DEF CallInv
<1>5. IsTree(n, v) /\ \A p \in 0 .. n : p # Tip => v[p] = Site(p)
  BY DEF IsView
<1>6. key \in Words /\ path[1] = root /\ \A i \in 1 .. Len(path) - 1 : path[i + 1] = Child(node[path[i]], key)
  BY <1>3 DEF PathInv
<1>7. CASE Len(path) = 1
  <2>1. P = 0 /\ Tip = root /\ 0 \in 0 .. n
    BY <1>2, <1>3, <1>6, <1>7 DEF Over
  <2>2. v[0] = Site(0) /\ ~v[0].leaf /\ Len(v[0].keys) = 0
    BY <2>1, <1>2, <1>3, <1>5
  <2> DEFINE c == Child(v[0], key)  ci == FindChild(v[0], key)
  <2>3. c \in 1 .. n /\ par[c] = 0 /\ at[c] = ci /\ ci \in 0 .. Len(v[0].keys) /\ c = ChildAt(v[0], ci)
    BY <2>1, <2>2, <1>5, <1>6, ChildIsHome
  <2> HIDE DEF c, ci
  <2>4. ci = 0 /\ c = root
    BY <2>2, <2>3, <1>2 DEF ChildAt
  <2>5. FindChild(Site(0), key) = 0 /\ FindChild(Site(0), key) \in 0 .. Len(Site(0).keys)
    BY <2>2, <2>3, <2>4 DEF ci
  <2> QED  BY <2>1, <2>2, <2>3, <2>4, <2>5, <1>2, <1>3
<1>8. CASE Len(path) # 1
  <2>0. PICK L : L = Len(path)
    OBVIOUS
  <2>a. L \in Nat /\ L > 0 /\ L # 1
    BY <2>0, <1>3, <1>4, <1>8
  <2>b. L - 1 \in 1 .. L /\ L - 1 \in 1 .. L - 1 /\ L - 1 # L /\ (L - 1) + 1 = L
    BY <2>a
  <2>1. /\ Len(path) - 1 \in 1 .. Len(path) /\ Len(path) - 1 \in 1 .. Len(path) - 1
        /\ Len(path) - 1 # Len(path) /\ (Len(path) - 1) + 1 = Len(path)
    BY <2>0, <2>b
  <2>2. P = path[Len(path) - 1] /\ P \in Pages /\ P # Tip
    <3> PICK j : j = Len(path) - 1
      OBVIOUS
    <3>0. j \in 1 .. Len(path) /\ j # Len(path)
      BY <2>1
    <3>a. path[j] # path[Len(path)]
      BY <3>0, PathDistinct
    <3>1. path[Len(path) - 1] # path[Len(path)]
      BY <3>a
    <3>2. path[Len(path) - 1] \in Pages
      BY <2>1, <1>4, SMTT(30)
    <3> QED  BY <3>1, <3>2, <1>3, <1>8 DEF Over
  <2>3. Tip = Child(node[P], key)
    BY <2>1, <2>2, <1>3, <1>6, ZenonT(60)
  <2>4. ~node[P].leaf
    BY <2>1, <2>2, <1>1, Zenon DEF CallInv
  <2>5. P \in 0 .. n /\ v[P] = node[P] /\ Site(P) = node[P] /\ node[P].leaf = FALSE
    <3>1. P \in 1 .. n
      BY <2>2, <1>2
    <3>2. node[P].leaf \in BOOLEAN
      BY <2>2, <1>1 DEF TreeInv, GoodNode, Node
    <3> QED  BY <3>1, <3>2, <2>2, <2>4, <1>2, <1>5
  <2>6. /\ Tip \in 1 .. n /\ par[Tip] = P /\ at[Tip] = FindChild(v[P], key)
        /\ FindChild(v[P], key) \in 0 .. Len(v[P].keys)
    <3> DEFINE c == Child(v[P], key)  ci == FindChild(v[P], key)
    <3>1. c \in 1 .. n /\ par[c] = P /\ at[c] = ci /\ ci \in 0 .. Len(v[P].keys)
      BY <2>4, <2>5, <1>5, <1>6, ChildIsHome
    <3> QED  BY <3>1, <2>3, <2>5
  <2> QED  BY <2>2, <2>5, <2>6
<1> QED  BY <1>7, <1>8

\* The right half in a new page, to be linked.
LEMMA SplitRightOrder ==
    ASSUME IndexInv, IndexInv', OrderInv, SplitRight
    PROVE  OrderInv'
<1> SUFFICES ASSUME ~damaged', ~garbled' PROVE mapped' /\ PathInv' /\ HalfInv' /\ \E v : IsOrdered(v)'
  BY DEF OrderInv
<1>a. pc \in {"leaf", "inner"} /\ ~damaged /\ ~garbled
  BY DEF SplitRight, pastVars
<1>2. mapped /\ PathInv /\ HalfInv
  BY <1>a DEF OrderInv
<1>3. PICK v : IsOrdered(v)
  BY <1>a DEF OrderInv
<1>b. PICK par, at, home, band : TreeOf(Len(node), v, par, at, home, band)
  BY <1>3 DEF IsOrdered
<1>c. /\ Over \in 0 .. Len(node) /\ Over # Tip /\ v[Over] = Site(Over) /\ par[Tip] = Over
      /\ at[Tip] = FindChild(Site(Over), key) /\ Tip \in 1 .. Len(node) /\ Site(Over).leaf = FALSE
      /\ FindChild(Site(Over), key) \in 0 .. Len(Site(Over).keys)
  <2>1. IsView(v)
    BY <1>3 DEF IsOrdered
  <2> QED  BY <2>1, <1>a, <1>2, <1>b, AboveTip, ZenonT(60)
<1> PICK n : n = Len(node)
  OBVIOUS
<1> PICK nd : nd = IF pc = "leaf" THEN LeafRight ELSE InnerRight
  OBVIOUS
<1> PICK half, sep : half = Half /\ sep = Separator
  OBVIOUS
<1> PICK P : P = Over
  OBVIOUS
<1> PICK Q : Q = Tip
  OBVIOUS
<1> PICK ci : ci = FindChild(Site(P), key)
  OBVIOUS
<1>1. /\ pc \in {"leaf", "inner"} /\ node' = Append(node, nd) /\ split' = [sep |-> sep, page |-> n + 1]
      /\ path' = Front(path) /\ pc' = "link"
      /\ UNCHANGED <<root, mapped, key, rid, acked, damaged, garbled>>
  BY DEF SplitRight, pastVars
<1>4. TreeOf(n, v, par, at, home, band)
  BY <1>b
<1>5. IsView(v) /\ IsTree(n, v) /\ PairsIn(n, v) = Taken
  BY <1>3 DEF IsOrdered, IsView
<1>6. /\ P \in 0 .. n /\ P # Q /\ v[P] = Site(P) /\ par[Q] = P /\ at[Q] = ci
      /\ Q \in 1 .. n /\ Site(P).leaf = FALSE /\ ci \in 0 .. Len(Site(P).keys)
  BY <1>c
<1>7. /\ n \in Nat /\ Pages = 1 .. n /\ node \in Seq(Node) /\ root \in Nat
      /\ \A p \in 0 .. n : Site(p) \in Node /\ Len(Site(p).vals) = Len(Site(p).keys)
      /\ \A p \in 1 .. n : p \in 0 .. n /\ Site(p) = node[p]
      /\ Site(0).leaf = FALSE /\ TreeInv /\ CallInv
  BY SitesAreTree DEF IndexInv, TreeInv
<1>8. /\ GoodComb(comb) /\ node[Q].leaf = (pc = "leaf") /\ Q = path[Len(path)] /\ Len(path) > 0 /\ path \in Seq(Pages)
      /\ Len(path) \in Nat
  BY <1>1, <1>7, TipIsSite DEF CallInv
<1>9. /\ half \in Nat /\ half < Len(comb.keys) /\ Len(comb.vals) = Len(comb.keys) /\ comb.keys[half + 1] = sep /\ sep \in Slot
      /\ half \in 1 .. kMaxKeys - 1
  <2>1. /\ half \in 1 .. kMaxKeys - 1 /\ half \in Nat /\ comb.keys[half + 1] \in Slot
        /\ Len(comb.vals) = Len(comb.keys)
    BY <1>8, SplitHalves DEF Half
  <2>2. Len(comb.keys) = kMaxKeys + 1
    BY <1>8 DEF GoodComb
  <2> QED  BY <2>1, <2>2, BTreeAssumption DEF Separator
<1>10. /\ v[Q].leaf = node[Q].leaf /\ v[Q].first = node[Q].first /\ v[Q].keys = comb.keys /\ v[Q].vals = comb.vals
       /\ node[Q].keys = SubSeq(comb.keys, 1, half) /\ node[Q].vals = SubSeq(comb.vals, 1, half)
  BY <1>1, <1>2, <1>5, <1>6, <1>7 DEF IsView, HalfInv
<1>11. GoodNode(nd)
  BY <1>1, <1>8, RightHalf
<1>12. /\ nd.leaf = v[Q].leaf
       /\ v[Q].leaf => /\ nd.keys = SubSeq(v[Q].keys, half + 1, Len(v[Q].keys))
                       /\ nd.vals = SubSeq(v[Q].vals, half + 1, Len(v[Q].vals))
       /\ ~v[Q].leaf => /\ nd.first = v[Q].vals[half + 1]
                        /\ nd.keys = SubSeq(v[Q].keys, half + 2, Len(v[Q].keys))
                        /\ nd.vals = SubSeq(v[Q].vals, half + 2, Len(v[Q].vals))
  <2>1. CASE pc = "leaf"
    BY <2>1, <1>8, <1>10 DEF LeafRight, Leaf, Tail2
  <2>2. CASE pc # "leaf"
    BY <2>2, <1>8, <1>10 DEF InnerRight, Inner, Tail2
  <2> QED  BY <2>1, <2>2
<1>13. PICK up : up = Inner(Site(P).first, InsertAt(Site(P).keys, ci + 1, sep), InsertAt(Site(P).vals, ci + 1, n + 1))
  OBVIOUS
<1>14. Added(up, Site(P), ci, sep, n + 1)
  BY <1>6, <1>13 DEF Added, Inner
<1>15. up \in Node /\ Len(up.vals) = Len(up.keys) /\ up.leaf = FALSE
  <2>1. Site(P).keys \in Seq(Slot) /\ Site(P).vals \in Seq(Nat) /\ Site(P).first \in Nat
    <3>1. Site(P) \in Node
      BY <1>6, <1>7
    <3> QED  BY <3>1 DEF Node
  <2>2. Len(Site(P).vals) = Len(Site(P).keys) /\ n + 1 \in Nat
    BY <1>6, <1>7
  <2>3. Len(up.vals) = Len(up.keys) /\ up.keys \in Seq(Slot) /\ up.vals \in Seq(Nat)
    BY <2>1, <2>2, <1>6, <1>9, <1>14, AddedEntries, SMTT(30)
  <2> PICK a, b, f : a = up.keys /\ b = up.vals /\ f = Site(P).first
    OBVIOUS
  <2>4. up = [leaf |-> FALSE, first |-> f, keys |-> a, vals |-> b]
    BY <1>13 DEF Inner
  <2>5. a \in Seq(Slot) /\ b \in Seq(Nat) /\ f \in Nat
    BY <2>1, <2>3
  <2>6. up \in Node
    BY <2>4, <2>5, NodeMade
  <2> QED  BY <2>3, <2>4, <2>6
<1>16. PICK w : w = [p \in 0 .. n + 1 |-> IF p = P THEN up ELSE IF p = n + 1 THEN nd ELSE Site(p)]
  OBVIOUS
<1>17. /\ \A p \in 0 .. n + 1 : p = n + 1 \/ p \in 0 .. n
       /\ n + 1 \in 0 .. n + 1 /\ n + 1 # P /\ n + 1 # Q /\ \A p \in 0 .. n : p \in 0 .. n + 1 /\ p # n + 1
  <2>1. /\ \A p \in 0 .. n + 1 : p = n + 1 \/ p \in 0 .. n
        /\ \A p \in 0 .. n : p \in 0 .. n + 1 /\ p # n + 1
    BY <1>7
  <2>2. n + 1 \in 0 .. n + 1
    BY <1>7
  <2>3. Q \in 0 .. n /\ P \in 0 .. n
    BY <1>6, <1>7
  <2> QED  BY <2>1, <2>2, <2>3
<1>18. w[P] = up /\ w[n + 1] = nd /\ \A p \in 0 .. n : p # P => w[p] = Site(p)
  BY <1>6, <1>16, <1>17
<1>19. IsTree(n + 1, w)
  <2>1. nd \in Node /\ Len(nd.vals) = Len(nd.keys)
    BY <1>11 DEF GoodNode
  <2>2. w \in [0 .. n + 1 -> Node]
    BY <2>1, <1>7, <1>15, <1>16, <1>17
  <2>3. w[0].leaf = FALSE
    <3>1. 0 \in 0 .. n
      BY <1>7
    <3> QED  BY <3>1, <1>7, <1>15, <1>18
  <2>4. \A p \in 0 .. n + 1 : Len(w[p].vals) = Len(w[p].keys)
    BY <2>1, <1>7, <1>15, <1>17, <1>18
  <2> QED  BY <2>2, <2>3, <2>4, <1>7 DEF IsTree
<1>20. Parted(n, v, w, P, ci, Q, half)
  <2>1. \A q \in 0 .. n : q # P /\ q # Q => w[q] = v[q]
    BY <1>5, <1>18 DEF IsView
  <2>2. Q \in 0 .. n /\ w[Q] = node[Q]
    BY <1>6, <1>7, <1>18
  <2>3. /\ w[Q].leaf = v[Q].leaf /\ w[Q].first = v[Q].first
        /\ w[Q].keys = SubSeq(v[Q].keys, 1, half) /\ w[Q].vals = SubSeq(v[Q].vals, 1, half)
    BY <2>2, <1>10
  <2>4. Added(w[P], v[P], ci, v[Q].keys[half + 1], n + 1)
    BY <1>6, <1>9, <1>10, <1>14, <1>18
  <2> QED  BY <2>1, <2>3, <2>4, <1>12, <1>18 DEF Parted
<1>21. Split(n, v, w, par, at, home, band, P, ci, Q, half)
  BY <1>4, <1>5, <1>6, <1>9, <1>10, <1>19, <1>20 DEF Split
<1>22. /\ \E p2, a2, h2, b2 : TreeOf(n + 1, w, p2, a2, h2, b2)
       /\ PairsIn(n + 1, w) = PairsIn(n, v)
  BY <1>21, NodeSplit
<1>23. /\ Len(node') = n + 1 /\ node'[n + 1] = nd /\ \A q \in 1 .. n : node'[q] = node[q]
  BY <1>1, <1>7, <1>11 DEF GoodNode
<1>24. /\ path' \in Seq(Pages) /\ Len(path') = Len(path) - 1
       /\ \A i \in 1 .. Len(path) - 1 : path'[i] = path[i] /\ path[i] \in Pages
  BY <1>1, <1>8, FrontEffect
<1>25. Tip' = P
  <2>1. CASE Len(path) = 1
    <3>1. Len(path') = 0 /\ path' = <<>>
      BY <2>1, <1>24
    <3> QED  BY <3>1, <2>1 DEF Tip, Over
  <2>2. CASE Len(path) # 1
    <3> PICK L : L = Len(path)
      OBVIOUS
    <3>0. L \in Nat /\ L > 0 /\ L # 1
      BY <2>2, <1>8
    <3>a. L - 1 \in 1 .. L - 1 /\ L - 1 # 0
      BY <3>0
    <3>1. Len(path) - 1 \in 1 .. Len(path) - 1 /\ Len(path) - 1 # 0
      BY <3>a
    <3>2. path' # <<>> /\ path'[Len(path')] = P
      BY <3>1, <2>2, <1>24 DEF Over
    <3> QED  BY <3>2 DEF Tip
  <2> QED  BY <2>1, <2>2
<1>26. \A p \in 0 .. n : Site(p)' = Site(p)
  <2> SUFFICES ASSUME NEW p \in 0 .. n PROVE Site(p)' = Site(p)
    OBVIOUS
  <2>1. CASE p = 0
    BY <2>1, <1>1 DEF Site, Header
  <2>2. CASE p # 0
    <3>1. p \in 1 .. n
      BY <2>2, <1>7
    <3> QED  BY <3>1, <2>2, <1>23 DEF Site
  <2> QED  BY <2>1, <2>2
<1>27. IsView(w)'
  <2>1. \A p \in 0 .. Len(node') : (p # Tip' \/ pc' = "idle") => w[p] = Site(p)'
    <3> SUFFICES ASSUME NEW p \in 0 .. n + 1, p # P PROVE w[p] = Site(p)'
      BY <1>1, <1>23, <1>25
    <3>1. CASE p = n + 1
      <4>1. p # 0
        BY <3>1, <1>7
      <4> QED  BY <3>1, <4>1, <1>18, <1>23 DEF Site
    <3>2. CASE p \in 0 .. n
      BY <3>2, <1>18, <1>26
    <3> QED  BY <3>1, <3>2, <1>17
  <2>2. Site(P)' = Site(P)
    BY <1>6, <1>26
  <2>3. Site(Tip)' = Site(P)
    BY <2>2, <1>25 DEF Site
  <2>4. FindChild(Site(Tip), key)' = ci
    BY <2>3, <1>1 DEF FindChild, Above
  <2>5. Added(w[Tip'], Site(Tip)', FindChild(Site(Tip), key)', split'.sep, split'.page)
    BY <2>3, <2>4, <1>1, <1>14, <1>18, <1>25
  <2>6. pc' \notin {"leaf", "inner"}
    BY <1>1
  <2> QED  BY <2>1, <2>5, <2>6, <1>19, <1>23 DEF IsView
<1>28. IsOrdered(w)'
  <2>1. Taken' = Taken
    BY <1>1 DEF Taken
  <2> QED  BY <2>1, <1>5, <1>22, <1>23, <1>27 DEF IsOrdered
<1>29. PathInv'
  <2>1. /\ key \in Words /\ rid \in Nat
        /\ path # <<>> => path[1] = root
        /\ \A i \in 1 .. Len(path) - 1 : path[i + 1] = Child(node[path[i]], key)
    BY <1>1, <1>2 DEF PathInv
  <2>2. path' # <<>> => path'[1] = root
    <3> SUFFICES ASSUME path' # <<>> PROVE path'[1] = root
      OBVIOUS
    <3> PICK L : L = Len(path)
      OBVIOUS
    <3>a. L \in Nat /\ Len(path') = L - 1 /\ Len(path') > 0
      BY <1>8, <1>24
    <3>b. 1 \in 1 .. L - 1 /\ L # 0
      BY <3>a
    <3>1. 1 \in 1 .. Len(path) - 1 /\ path # <<>>
      BY <3>b
    <3> QED  BY <3>1, <2>1, <1>24
  <2>3. ASSUME NEW i \in 1 .. Len(path') - 1 PROVE path'[i + 1] = Child(node'[path'[i]], key)
    <3> PICK L : L = Len(path)
      OBVIOUS
    <3>a. L \in Nat /\ i \in 1 .. (L - 1) - 1
      BY <1>8, <1>24
    <3>b. i \in 1 .. L - 1 /\ i + 1 \in 1 .. L - 1
      BY <3>a
    <3>1. i \in 1 .. Len(path) - 1 /\ i + 1 \in 1 .. Len(path) - 1
      BY <3>b
    <3>2. path'[i] = path[i] /\ path'[i + 1] = path[i + 1] /\ path[i] \in 1 .. n
      BY <3>1, <1>7, <1>24
    <3>3. path[i + 1] = Child(node[path[i]], key) /\ node'[path[i]] = node[path[i]]
      BY <3>1, <3>2, <2>1, <1>23
    <3> QED  BY <3>2, <3>3
  <2> QED  BY <2>1, <2>2, <2>3, <1>1 DEF PathInv
<1>30. HalfInv'
  BY <1>1 DEF HalfInv
<1> QED  BY <1>1, <1>2, <1>28, <1>29, <1>30

\* The node where a separator is still to be linked: what InnerInsert and
\* InnerSplitLeft have in common.
LEMMA LinkView ==
    ASSUME IndexInv, pc = "link", path # <<>>, NEW v, IsView(v)
    PROVE  /\ Tip \in Pages /\ Tip # 0 /\ Tip \in 0 .. Len(node) /\ Top = Tip /\ Site(Tip) = node[Tip] /\ node[Tip].leaf = FALSE
           /\ v[Tip] \in Node /\ v[Tip].leaf = FALSE /\ v[Tip].first = node[Tip].first
           /\ v[Tip].keys = WithSplit(node[Tip]).keys /\ v[Tip].vals = WithSplit(node[Tip]).vals
           /\ node \in Seq(Node) /\ Len(node) \in Nat /\ Pages = 1 .. Len(node)
<1>1. TreeInv
  BY DEF IndexInv
<1>2. Tip \in Pages /\ Tip # 0 /\ Tip \in 0 .. Len(node) /\ Top = Tip
  BY TipIsSite
<1>3. node \in Seq(Node) /\ Len(node) \in Nat /\ Pages = 1 .. Len(node)
  BY <1>1, SitesAreTree DEF TreeInv
<1>4. Site(Tip) = node[Tip]
  BY <1>2 DEF Site
<1>5. node[Tip].leaf = FALSE
  BY <1>2, AtTheLink
<1>6. Added(v[Tip], node[Tip], FindChild(node[Tip], key), split.sep, split.page) /\ IsTree(Len(node), v)
  BY <1>4 DEF IsView
<1>7. v[Tip] \in Node
  BY <1>2, <1>6 DEF IsTree
<1> QED  BY <1>2, <1>3, <1>4, <1>5, <1>6, <1>7 DEF Added, WithSplit

\* An entry of a sequence is replaced.
LEMMA EntryReplaced ==
    ASSUME NEW S, NEW s \in Seq(S), NEW p \in 1 .. Len(s), NEW x
    PROVE  /\ Len([s EXCEPT ![p] = x]) = Len(s) /\ [s EXCEPT ![p] = x][p] = x
           /\ \A q \in 1 .. Len(s) : q # p => [s EXCEPT ![p] = x][q] = s[q]
OBVIOUS

\* The first entry of a sequence.
LEMMA InsertFirst ==
    ASSUME NEW S, NEW e \in S
    PROVE  InsertAt(<<>>, 0 + 1, e) = <<e>>
<1> DEFINE t == InsertAt(<<>>, 0 + 1, e)
<1>0. PICK s : s = <<>>
  OBVIOUS
<1>1. s \in Seq(S) /\ Len(s) = 0 /\ 0 \in 0 .. Len(s)
  BY <1>0
<1>2. /\ InsertAt(s, 0 + 1, e) \in Seq(S) /\ Len(InsertAt(s, 0 + 1, e)) = Len(s) + 1
      /\ Shifted(InsertAt(s, 0 + 1, e), s, 0, e)
  BY <1>1, InsertAtEffect, ZenonT(60)
<1>3. t \in Seq(S) /\ Len(t) = 1 /\ Shifted(t, s, 0, e)
  BY <1>0, <1>1, <1>2
<1> HIDE DEF t
<1>4. t[1] = e
  BY <1>1, <1>3 DEF Shifted
<1>5. t = <<e>>
  BY <1>3, <1>4
<1> QED  BY <1>5 DEF t

\* The inner node has a free slot.
LEMMA InnerInsertOrder ==
    ASSUME IndexInv, IndexInv', OrderInv, InnerInsert
    PROVE  OrderInv'
<1> SUFFICES ASSUME ~damaged', ~garbled' PROVE mapped' /\ PathInv' /\ HalfInv' /\ \E v : IsOrdered(v)'
  BY DEF OrderInv
<1>a. pc = "link" /\ path # <<>> /\ ~damaged /\ ~garbled
  BY DEF InnerInsert
<1>b. PICK v : IsOrdered(v)
  BY <1>a DEF OrderInv
<1>c. /\ Tip \in Pages /\ Tip # 0 /\ Tip \in 0 .. Len(node) /\ Top = Tip /\ Site(Tip) = node[Tip] /\ node[Tip].leaf = FALSE
      /\ v[Tip] \in Node /\ v[Tip].leaf = FALSE /\ v[Tip].first = node[Tip].first
      /\ v[Tip].keys = WithSplit(node[Tip]).keys /\ v[Tip].vals = WithSplit(node[Tip]).vals
      /\ node \in Seq(Node) /\ Len(node) \in Nat /\ Pages = 1 .. Len(node)
  BY <1>a, <1>b, LinkView DEF IsOrdered
<1> PICK p, nd : p = Tip /\ nd = Inner(node[p].first, WithSplit(node[p]).keys, WithSplit(node[p]).vals)
  OBVIOUS
<1>1. /\ node' = [node EXCEPT ![p] = nd] /\ pc' = "idle" /\ acked' = acked \cup {<<key, rid>>}
      /\ UNCHANGED <<root, mapped>>
  BY <1>c DEF InnerInsert, Overwrite, Return
<1>2. p \in 1 .. Len(node) /\ p \in 0 .. Len(node) /\ p # 0
  BY <1>c
<1>3. Len(node') = Len(node) /\ node'[p] = nd /\ \A q \in 1 .. Len(node) : q # p => node'[q] = node[q]
  BY <1>1, <1>2, <1>c
<1>4. nd = v[p]
  <2>1. TreeInv' /\ p \in Pages'
    BY <1>2, <1>3 DEF IndexInv, TreeInv, Pages
  <2>2. nd \in Node
    BY <2>1, <1>3 DEF TreeInv, GoodNode
  <2>3. nd.leaf = v[p].leaf /\ nd.first = v[p].first /\ nd.keys = v[p].keys /\ nd.vals = v[p].vals
    BY <1>c DEF Inner
  <2> QED  BY <2>2, <2>3, <1>c, SameNode
<1>5. IsView(v)'
  <2>1. IsTree(Len(node), v) /\ \A q \in 0 .. Len(node) : q # p => v[q] = Site(q)
    BY <1>b DEF IsOrdered, IsView
  <2>2. ASSUME NEW q \in 0 .. Len(node') PROVE v[q] = Site(q)'
    <3>1. CASE q = p
      BY <3>1, <1>2, <1>3, <1>4 DEF Site
    <3>2. CASE q # p /\ q = 0
      BY <3>2, <2>1, <1>1, <1>3 DEF Site, Header
    <3>3. CASE q # p /\ q # 0
      <4>1. q \in 1 .. Len(node) /\ q \in 0 .. Len(node)
        BY <3>3, <1>3, <1>c
      <4> QED  BY <3>3, <4>1, <2>1, <1>3 DEF Site
    <3> QED  BY <3>1, <3>2, <3>3
  <2> QED  BY <2>1, <2>2, <1>1, <1>3 DEF IsView
<1>6. IsOrdered(v)'
  <2>1. Taken' = Taken
    BY <1>1, <1>a DEF Taken
  <2> QED  BY <2>1, <1>3, <1>5, <1>b DEF IsOrdered
<1>7. mapped' /\ PathInv' /\ HalfInv'
  BY <1>1, <1>a DEF OrderInv, PathInv, HalfInv
<1> QED  BY <1>6, <1>7

\* The inner node is full.
LEMMA InnerSplitLeftOrder ==
    ASSUME IndexInv, IndexInv', OrderInv, InnerSplitLeft
    PROVE  OrderInv'
<1> SUFFICES ASSUME ~damaged', ~garbled' PROVE mapped' /\ PathInv' /\ HalfInv' /\ \E v : IsOrdered(v)'
  BY DEF OrderInv
<1>a. pc = "link" /\ path # <<>> /\ ~damaged /\ ~garbled
  BY DEF InnerSplitLeft, pastVars
<1>b. PICK v : IsOrdered(v)
  BY <1>a DEF OrderInv
<1>c. /\ Tip \in Pages /\ Tip # 0 /\ Tip \in 0 .. Len(node) /\ Top = Tip /\ Site(Tip) = node[Tip] /\ node[Tip].leaf = FALSE
      /\ v[Tip] \in Node /\ v[Tip].leaf = FALSE /\ v[Tip].first = node[Tip].first
      /\ v[Tip].keys = WithSplit(node[Tip]).keys /\ v[Tip].vals = WithSplit(node[Tip]).vals
      /\ node \in Seq(Node) /\ Len(node) \in Nat /\ Pages = 1 .. Len(node)
  BY <1>a, <1>b, LinkView DEF IsOrdered
<1>d. ASSUME NEW i \in 1 .. Len(path) - 1 PROVE path[i] # Tip /\ path[i] \in Pages
  <2> PICK L : L = Len(path)
    OBVIOUS
  <2>1. path \in Seq(Pages) /\ L \in Nat
    BY DEF IndexInv, CallInv
  <2>2. i \in 1 .. L /\ i # L
    BY <2>1
  <2>3. i \in 1 .. Len(path) /\ i # Len(path)
    BY <2>2
  <2> QED  BY <2>1, <2>3, <1>a, PathDistinct DEF Tip
<1> PICK p : p = Tip
  OBVIOUS
<1>e. PICK new : new = WithSplit(node[p])
  OBVIOUS
<1>f. PICK half : half = Len(new.keys) \div 2
  OBVIOUS
<1>g. PICK nd : nd = Inner(node[p].first, SubSeq(new.keys, 1, half), SubSeq(new.vals, 1, half))
  OBVIOUS
<1>1. /\ node' = [node EXCEPT ![p] = nd] /\ pc' = "inner" /\ comb' = new
      /\ UNCHANGED <<root, mapped, key, rid, path, acked>>
  BY <1>c, <1>e, <1>f, <1>g DEF InnerSplitLeft, Overwrite, pastVars
<1>2. p \in 1 .. Len(node) /\ p \in 0 .. Len(node) /\ p # 0
  BY <1>c
<1>3. Len(node') = Len(node) /\ node'[p] = nd /\ \A q \in 1 .. Len(node) : q # p => node'[q] = node[q]
  <2>1. node \in Seq(Node) /\ p \in 1 .. Len(node)
    BY <1>2, <1>c
  <2>2. /\ Len([node EXCEPT ![p] = nd]) = Len(node) /\ [node EXCEPT ![p] = nd][p] = nd
        /\ \A q \in 1 .. Len(node) : q # p => [node EXCEPT ![p] = nd][q] = node[q]
    BY <2>1, EntryReplaced
  <2> QED  BY <2>2, <1>1
<1>4. Tip' = p /\ Site(p)' = nd
  BY <1>1, <1>2, <1>3 DEF Tip, Site
<1>5. IsView(v)'
  <2>1. IsTree(Len(node), v) /\ \A q \in 0 .. Len(node) : q # p => v[q] = Site(q)
    BY <1>b DEF IsOrdered, IsView
  <2>2. ASSUME NEW q \in 0 .. Len(node'), q # p PROVE v[q] = Site(q)'
    <3>2. CASE q = 0
      BY <3>2, <2>1, <2>2, <1>1, <1>3 DEF Site, Header
    <3>3. CASE q # 0
      <4>1. q \in 1 .. Len(node) /\ q \in 0 .. Len(node)
        BY <3>3, <1>3, <1>c
      <4> QED  BY <3>3, <4>1, <2>1, <2>2, <1>3 DEF Site
    <3> QED  BY <3>2, <3>3
  <2>3. nd.leaf = FALSE /\ nd.first = node[p].first
    BY <1>g DEF Inner
  <2>4. /\ v[p].leaf = nd.leaf /\ v[p].first = nd.first
        /\ v[p].keys = comb'.keys /\ v[p].vals = comb'.vals
    BY <2>3, <1>1, <1>c, <1>e
  <2>5. Site(Tip)' = nd
    BY <1>2, <1>3, <1>4 DEF Site
  <2>6. \A q \in 0 .. Len(node') : (q # Tip' \/ pc' = "idle") => v[q] = Site(q)'
    BY <2>2, <1>1, <1>4
  <2>7. pc' # "link"
    BY <1>1
  <2> QED  BY <2>1, <2>4, <2>5, <2>6, <2>7, <1>1, <1>3, <1>4 DEF IsView
<1>6. IsOrdered(v)'
  <2>1. Taken' = Taken
    BY <1>1, <1>a DEF Taken
  <2> QED  BY <2>1, <1>3, <1>5, <1>b DEF IsOrdered
<1>7. PathInv'
  <2>1. /\ key \in Words /\ rid \in Nat
        /\ path # <<>> => path[1] = root
        /\ \A i \in 1 .. Len(path) - 1 : path[i + 1] = Child(node[path[i]], key)
    BY <1>a DEF OrderInv, PathInv
  <2>2. ASSUME NEW i \in 1 .. Len(path) - 1 PROVE path[i + 1] = Child(node'[path[i]], key)
    <3>1. node'[path[i]] = node[path[i]]
      BY <1>c, <1>d, <1>3
    <3> QED  BY <3>1, <2>1
  <2> QED  BY <2>1, <2>2, <1>1 DEF PathInv
<1>8. HalfInv'
  <2>1. Half' = half
    BY <1>1, <1>f DEF Half
  <2>2. nd.keys = SubSeq(new.keys, 1, half) /\ nd.vals = SubSeq(new.vals, 1, half)
    BY <1>g DEF Inner
  <2>3. node'[Tip'] = nd /\ comb'.keys = new.keys /\ comb'.vals = new.vals
    BY <1>1, <1>3, <1>4
  <2>4. node'[Tip'].keys = SubSeq(comb'.keys, 1, Half') /\ node'[Tip'].vals = SubSeq(comb'.vals, 1, Half')
    BY <2>1, <2>2, <2>3
  <2> QED  BY <2>4 DEF HalfInv
<1>9. mapped'
  BY <1>1, <1>a DEF OrderInv
<1> QED  BY <1>6, <1>7, <1>8, <1>9

\* A new root above the two halves.
LEMMA NewRootOrder ==
    ASSUME IndexInv, IndexInv', OrderInv, NewRoot
    PROVE  OrderInv'
<1> SUFFICES ASSUME ~damaged', ~garbled' PROVE mapped' /\ PathInv' /\ HalfInv' /\ \E v : IsOrdered(v)'
  BY DEF OrderInv
<1>a. pc = "link" /\ path = <<>> /\ ~damaged /\ ~garbled
  BY DEF NewRoot
<1>b. PICK v : IsOrdered(v)
  BY <1>a DEF OrderInv
<1>c. PICK par, at, home, band : TreeOf(Len(node), v, par, at, home, band)
  BY <1>b DEF IsOrdered
<1>d. IsView(v) /\ PairsIn(Len(node), v) = Taken /\ IsTree(Len(node), v)
  BY <1>b DEF IsOrdered, IsView
<1>e. TreeInv /\ CallInv /\ TreeInv' /\ key \in Words
  BY <1>a DEF IndexInv, OrderInv, PathInv
<1>f. /\ Len(node) \in Nat /\ Pages = 1 .. Len(node) /\ node \in Seq(Node) /\ root \in Nat
      /\ \A p \in 1 .. Len(node) : p \in 0 .. Len(node) /\ Site(p) = node[p]
      /\ Site(0).leaf = FALSE /\ Site(0).first = root /\ Site(0).keys = <<>> /\ Site(0).vals = <<>>
  BY <1>e, SitesAreTree DEF TreeInv
<1>g. /\ Len(node') \in Nat /\ Pages' = 1 .. Len(node')
      /\ \A p \in 0 .. Len(node') : Site(p)' \in Node /\ Len(Site(p)'.vals) = Len(Site(p)'.keys)
      /\ Site(0)'.leaf = FALSE /\ Site(0)'.first = root' /\ Site(0)'.keys = <<>>
  <2>1. /\ node' \in Seq(Node)' /\ Pages' = 1 .. Len(node') /\ Len(node') \in Nat
        /\ root' \in Pages' /\ root' \in Nat
        /\ \A p \in Pages' : node'[p] \in Node /\ Len(node'[p].vals) = Len(node'[p].keys)
    BY <1>e DEF TreeInv, Pages, GoodNode
  <2>2. PICK z, r : z = <<>> /\ r = root'
    OBVIOUS
  <2>3. Site(0)' = [leaf |-> FALSE, first |-> r, keys |-> z, vals |-> z]
    BY <2>2 DEF Site, Header, Inner
  <2>4. z \in Seq(Slot) /\ z \in Seq(Nat) /\ r \in Nat
    <3> HIDE DEF Slot
    <3> QED  BY <2>1, <2>2
  <2>5. Site(0)' \in Node
    BY <2>3, <2>4, NodeMade
  <2>6. /\ Site(0)'.leaf = FALSE /\ Site(0)'.first = root' /\ Site(0)'.keys = <<>> /\ Site(0)'.vals = <<>>
    BY <2>2, <2>3
  <2>7. ASSUME NEW p \in 0 .. Len(node') PROVE Site(p)' \in Node /\ Len(Site(p)'.vals) = Len(Site(p)'.keys)
    <3>1. CASE p = 0
      BY <3>1, <2>5, <2>6
    <3>2. CASE p # 0
      <4>1. p \in Pages' /\ Site(p)' = node'[p]
        BY <3>2, <2>1 DEF Site
      <4> QED  BY <4>1, <2>1
    <3> QED  BY <3>1, <3>2
  <2> QED  BY <2>1, <2>6, <2>7
<1> PICK n, nd : n = Len(node) /\ nd = Inner(root, <<split.sep>>, <<split.page>>)
  OBVIOUS
<1>1. /\ node' = Append(node, nd) /\ root' = n + 1 /\ pc' = "idle" /\ acked' = acked \cup {<<key, rid>>}
      /\ UNCHANGED mapped
  BY DEF NewRoot, Return
<1>2. Len(node') = n + 1 /\ node'[n + 1] = nd /\ \A q \in 1 .. n : node'[q] = node[q]
  BY <1>1, <1>f
<1>3. nd \in Node
  <2>1. n + 1 \in Pages'
    BY <1>2, <1>f, <1>g
  <2> QED  BY <2>1, <1>2, <1>e DEF TreeInv, GoodNode
<1>4. v[0] = nd
  <2>1. Added(v[0], Site(0), FindChild(Site(0), key), split.sep, split.page) /\ v[0] \in Node
    <3>1. Tip = 0 /\ 0 \in 0 .. n
      BY <1>a, <1>f DEF Tip
    <3> QED  BY <3>1, <1>a, <1>d DEF IsView, IsTree
  <2>2. FindChild(Site(0), key) = 0
    <3>1. Site(0).keys \in Seq(Slot) /\ SortedKeys(Site(0).keys) /\ Len(Site(0).keys) = 0 /\ key \in Strings
      <4> HIDE DEF Slot
      <4>0. <<>> \in Seq(Slot) /\ Len(<<>>) = 0
        OBVIOUS
      <4>1. Site(0).keys \in Seq(Slot) /\ Len(Site(0).keys) = 0
        BY <4>0, <1>f
      <4>2. key \in Strings
        BY <1>e, Stringed
      <4> QED  BY <4>1, <4>2 DEF SortedKeys
    <3>2. FindChild(Site(0), key) \in 0 .. Len(Site(0).keys)
      BY <3>1, FindChildOpen
    <3> QED  BY <3>1, <3>2
  <2>3. InsertAt(<<>>, 0 + 1, split.sep) = <<split.sep>> /\ InsertAt(<<>>, 0 + 1, split.page) = <<split.page>>
    BY InsertFirst
  <2>4. v[0].leaf = nd.leaf /\ v[0].first = nd.first /\ v[0].keys = nd.keys /\ v[0].vals = nd.vals
    BY <2>1, <2>2, <2>3, <1>f DEF Added, Inner
  <2> QED  BY <2>1, <2>4, <1>3, SameNode
<1>5. PICK w : w = [p \in 0 .. n + 1 |-> Site(p)']
  OBVIOUS
<1>6. \A p \in 0 .. n + 1 : w[p] = Site(p)'
  BY <1>5
<1>7. IsTree(n + 1, w)
  <2>1. n + 1 \in Nat /\ 0 \in 0 .. n + 1
    BY <1>f
  <2>2. w \in [0 .. n + 1 -> Node] /\ \A p \in 0 .. n + 1 : Len(w[p].vals) = Len(w[p].keys)
    BY <1>2, <1>5, <1>6, <1>g
  <2> QED  BY <2>1, <2>2, <1>6, <1>g DEF IsTree
<1>8. IsView(w)'
  BY <1>1, <1>2, <1>6, <1>7 DEF IsView
<1>9. /\ \E p2, a2, h2, b2 : TreeOf(n + 1, w, p2, a2, h2, b2)
      /\ PairsIn(n + 1, w) = PairsIn(n, v)
  <2>1. w[0].first = n + 1 /\ w[0].keys = <<>>
    <3>1. 0 \in 0 .. n + 1
      BY <1>f
    <3> QED  BY <3>1, <1>1, <1>6, <1>g
  <2>2. w[n + 1] = v[0]
    <3>1. n + 1 \in 0 .. n + 1 /\ n + 1 # 0
      BY <1>f
    <3> QED  BY <3>1, <1>2, <1>4, <1>6 DEF Site
  <2>3. ASSUME NEW q \in 1 .. n PROVE w[q] = v[q]
    <3>1. q \in 0 .. n + 1 /\ q \in 0 .. n /\ q # 0 /\ Tip = 0
      BY <1>a, <1>f DEF Tip
    <3>2. v[q] = node[q]
      BY <3>1, <1>d, <1>f DEF IsView
    <3> QED  BY <3>1, <3>2, <1>2, <1>6 DEF Site
  <2>4. IsTree(n, v) /\ TreeOf(n, v, par, at, home, band)
    BY <1>c, <1>d
  <2> QED  BY <2>1, <2>2, <2>3, <2>4, <1>7, TopAdded
<1>10. IsOrdered(w)'
  <2>1. Taken' = Taken
    BY <1>1, <1>a DEF Taken
  <2> QED  BY <2>1, <1>2, <1>8, <1>9, <1>d DEF IsOrdered
<1>11. mapped' /\ PathInv' /\ HalfInv'
  BY <1>1, <1>a DEF OrderInv, PathInv, HalfInv
<1> QED  BY <1>10, <1>11

-----------------------------------------------------------------------------
(* The other steps, and the invariant.                                     *)

\* What the order is about does not change.
orderVars == <<node, root, mapped, pc, key, rid, path, comb, split, acked, damaged, garbled>>

\* A step that leaves all of that alone leaves an ordered tree.
LEMMA OrderKept ==
    ASSUME OrderInv, UNCHANGED orderVars
    PROVE  OrderInv'
<1>1. UNCHANGED <<node, root, mapped, pc, key, rid, path, comb, split, acked, damaged, garbled>>
  BY DEF orderVars
<1> SUFFICES ASSUME ~damaged', ~garbled' PROVE mapped' /\ PathInv' /\ HalfInv' /\ \E v : IsOrdered(v)'
  BY DEF OrderInv
<1>2. PICK v : IsOrdered(v)
  BY <1>1 DEF OrderInv
<1>3. mapped /\ PathInv /\ HalfInv
  BY <1>1 DEF OrderInv
<1>4. Tip' = Tip /\ Half' = Half /\ Taken' = Taken
  BY <1>1 DEF Tip, Half, Taken
<1>5. \A p : Site(p)' = Site(p)
  BY <1>1 DEF Site, Header
<1>6. IsView(v)'
  <2>1. IsView(v)
    BY <1>2 DEF IsOrdered
  <2>2. Site(Tip)' = Site(Tip)
    BY <1>1, <1>4 DEF Site, Header
  <2>3. FindChild(Site(Tip), key)' = FindChild(Site(Tip), key)
    BY <1>1, <2>2
  <2> QED  BY <1>1, <1>4, <1>5, <2>1, <2>2, <2>3 DEF IsView
<1>7. IsOrdered(v)'
  BY <1>1, <1>2, <1>4, <1>6 DEF IsOrdered
<1>8. PathInv'
  BY <1>1, <1>3 DEF PathInv
<1>9. HalfInv'
  BY <1>1, <1>3, <1>4 DEF HalfInv
<1> QED  BY <1>1, <1>3, <1>7, <1>8, <1>9

\* A call that fails, a root that cannot be made, and backups: the nodes stay.
LEMMA QuietOrder ==
    ASSUME OrderInv, NewRootFails \/ BackupBegin \/ BackupEnd \/ UNCHANGED vars
                     \/ \E k \in Keys : \E d \in {Descent(k)} : DescendFails(k, d)
    PROVE  OrderInv'
<1>1. CASE NewRootFails
  BY <1>1 DEF NewRootFails, OrderInv
<1>2. CASE BackupBegin \/ BackupEnd
  <2>1. UNCHANGED orderVars
    BY <1>2 DEF BackupBegin, BackupEnd, orderVars, treeVars, callVars, pastVars
  <2> QED  BY <2>1, OrderKept
<1>3. CASE UNCHANGED vars
  <2>1. UNCHANGED orderVars
    BY <1>3 DEF orderVars, vars, treeVars, callVars, pastVars
  <2> QED  BY <2>1, OrderKept
<1>4. CASE \E k \in Keys : \E d \in {Descent(k)} : DescendFails(k, d)
  <2>1. UNCHANGED orderVars
    BY <1>4 DEF DescendFails, orderVars, treeVars, callVars
  <2> QED  BY <2>1, OrderKept
<1> QED  BY <1>1, <1>2, <1>3, <1>4

\* The process ends between two insertions, and no image is written back.
LEMMA CrashOrder ==
    ASSUME IndexInv, OrderInv, Crash
    PROVE  OrderInv'
<1> SUFFICES ASSUME ~damaged', ~garbled' PROVE mapped' /\ PathInv' /\ HalfInv' /\ \E v : IsOrdered(v)'
  BY DEF OrderInv
<1>1. PICK n \in 0 .. Len(images) : node' = Restored(n) /\ damaged' = (damaged \/ pc # "idle" \/ n > 0)
  BY DEF Crash
<1>2. mapped' = TRUE /\ pc' = "idle" /\ path' = <<>> /\ UNCHANGED <<root, acked, garbled>>
  BY DEF Crash
<1>3. Len(images) \in Nat
  BY DEF IndexInv, ImageInv
<1>4. n = 0 /\ pc = "idle" /\ ~damaged /\ ~garbled
  <2>1. ~(damaged \/ pc # "idle" \/ n > 0)
    BY <1>1, Zenon
  <2>2. n = 0
    BY <2>1, <1>3
  <2> QED  BY <2>1, <2>2, <1>2
<1>5. node' = node
  <2>1. node = [p \in Pages |-> node[p]]
    BY DEF IndexInv, TreeInv, Pages
  <2>2. \A p \in Pages : {i \in 1 .. 0 : images[i].page = p} = {}
    OBVIOUS
  <2>3. Restored(0) = [p \in Pages |-> node[p]]
    BY <2>2 DEF Restored
  <2> QED  BY <1>1, <1>4, <2>1, <2>3
<1>6. PICK v : IsOrdered(v)
  BY <1>4 DEF OrderInv
<1>7. Taken' = Taken
  BY <1>2, <1>4 DEF Taken
<1>8. \A p : Site(p)' = Site(p)
  BY <1>2, <1>5 DEF Site, Header
<1>9. IsView(v)'
  BY <1>2, <1>4, <1>5, <1>6, <1>8 DEF IsOrdered, IsView
<1>10. IsOrdered(v)'
  BY <1>5, <1>6, <1>7, <1>9 DEF IsOrdered
<1> QED  BY <1>2, <1>10 DEF PathInv, HalfInv

\* The empty tree is ordered.
LEMMA OrderInit == Init => OrderInv
<1> SUFFICES ASSUME Init PROVE OrderInv
  OBVIOUS
<1>1. /\ node = <<Leaf(<<>>, <<>>)>> /\ root = 1 /\ mapped = TRUE /\ pc = "idle" /\ acked = {}
  BY DEF Init
<1>2. Len(node) = 1 /\ node[1].leaf = TRUE /\ node[1].keys = <<>>
  BY <1>1 DEF Leaf
<1>3. TreeInv
  BY IndexInvInit DEF IndexInv
<1>4. /\ \A p \in 0 .. 1 : Site(p) \in Node /\ Len(Site(p).vals) = Len(Site(p).keys)
      /\ Site(1) = node[1]
      /\ Site(0).leaf = FALSE /\ Site(0).first = 1 /\ Site(0).keys = <<>>
  BY <1>1, <1>2, <1>3, SitesAreTree
<1>5. PICK v : v = [p \in 0 .. 1 |-> Site(p)]
  OBVIOUS
<1>6. \A p \in 0 .. 1 : v[p] = Site(p) /\ (p = 0 \/ p = 1)
  BY <1>5
<1>7. /\ v[0].leaf = FALSE /\ v[0].first = 1 /\ v[0].keys = <<>> /\ v[1].leaf = TRUE /\ v[1].keys = <<>>
      /\ \A p \in 0 .. 1 : v[p].keys = <<>> /\ Len(v[p].keys) = 0
  BY <1>2, <1>4, <1>6
<1>8. IsTree(1, v)
  <2>1. v \in [0 .. 1 -> Node]
    BY <1>4, <1>5
  <2> QED  BY <2>1, <1>4, <1>6, <1>7 DEF IsTree
<1>9. IsView(v)
  BY <1>1, <1>2, <1>6, <1>8 DEF IsView
<1> DEFINE par == [c \in 1 .. 1 |-> 0]  zone == [p \in 0 .. 1 |-> Words]
<1>10. Shape(1, v, par, par)
  <2>1. \A c \in 1 .. 1 : c = 1 /\ par[c] = 0
    OBVIOUS
  <2>2. ChildAt(v[0], 0) = 1
    BY <1>7 DEF ChildAt
  <2>3. par \in [1 .. 1 -> 0 .. 1] /\ par \in [1 .. 1 -> Nat]
    OBVIOUS
  <2>4. ASSUME NEW p \in 0 .. 1, ~v[p].leaf, NEW i \in 0 .. Len(v[p].keys)
        PROVE  ChildAt(v[p], i) \in 1 .. 1 /\ par[ChildAt(v[p], i)] = p /\ par[ChildAt(v[p], i)] = i
    <3>1. p = 0
      BY <1>6, <1>7, <2>4
    <3>2. i = 0
      BY <1>7, <2>4
    <3> QED  BY <3>1, <3>2, <2>1, <2>2
  <2>5. \A c \in 1 .. 1 : /\ ~v[par[c]].leaf /\ par[c] <= Len(v[par[c]].keys)
                          /\ ChildAt(v[par[c]], par[c]) = c
    BY <1>7, <2>1, <2>2
  <2> HIDE DEF par
  <2> QED  BY <2>3, <2>4, <2>5 DEF Shape
<1>11. Zone(1, zone)
  BY DEF Zone
<1>12. Zones(1, v, par, par, zone, zone)
  <2>1. \A c \in 1 .. 1 : par[c] = 0 /\ zone[c] = Words /\ zone[0] = Words
    OBVIOUS
  <2>2. \A x \in Words : Open(v[0].keys, 0, x) /\ Closed(v[0].keys, 0, x)
    BY <1>7 DEF Open, Closed, Cut
  <2>3. \A p, q \in 1 .. 1 : p = q
    OBVIOUS
  <2> HIDE DEF par, zone
  <2> QED  BY <2>1, <2>2, <2>3 DEF Zones
<1>13. \A p \in 0 .. 1 : Arranged(v[p], zone[p])
  BY <1>7 DEF Arranged, SortedKeys
<1>14. \A p \in 1 .. 1 : Placed(v[p], zone[p], SepWords(1, v))
  <2>1. \A p \in 0 .. 1 : \A x : ~Has(v[p], x)
    BY <1>7 DEF Has
  <2>2. SepWords(1, v) = {}
    BY <2>1 DEF SepWords
  <2>3. \A p \in 1 .. 1 : p \in 0 .. 1
    OBVIOUS
  <2> HIDE DEF zone
  <2> QED  BY <2>1, <2>2, <2>3 DEF Placed
<1>15. TreeOf(1, v, par, par, zone, zone)
  <2> HIDE DEF par, zone
  <2> QED  BY <1>10, <1>11, <1>12, <1>13, <1>14 DEF TreeOf
<1>16. PairsIn(1, v) = {}
  <2>1. \A p \in 1 .. 1 : p \in 0 .. 1
    OBVIOUS
  <2> QED  BY <2>1, <1>7 DEF PairsIn
<1>17. Taken = {}
  BY <1>1 DEF Taken
<1>18. IsOrdered(v)
  <2> HIDE DEF par, zone
  <2> QED  BY <1>2, <1>9, <1>15, <1>16, <1>17 DEF IsOrdered
<1> QED  BY <1>1, <1>18 DEF OrderInv, PathInv, HalfInv

\* Every step leaves an ordered tree.
LEMMA OrderNext == IndexInv /\ OrderInv /\ [Next]_vars => OrderInv'
<1> SUFFICES ASSUME IndexInv, OrderInv, [Next]_vars PROVE OrderInv'
  OBVIOUS
<1>0. IndexInv'
  BY IndexInvNext
<1>1. ASSUME NEW k \in Keys, NEW d, d = Descent(k), LeafInsert(k, d) \/ LeafSplitLeft(k, d)
      PROVE  OrderInv'
  BY <1>0, <1>1, LeafInsertOrder, LeafSplitLeftOrder
<1>2. CASE SplitRight
  BY <1>0, <1>2, SplitRightOrder
<1>3. CASE InnerInsert
  BY <1>0, <1>3, InnerInsertOrder
<1>4. CASE InnerSplitLeft
  BY <1>0, <1>4, InnerSplitLeftOrder
<1>5. CASE NewRoot
  BY <1>0, <1>5, NewRootOrder
<1>6. CASE Crash
  BY <1>6, CrashOrder
<1>7. CASE NewRootFails \/ BackupBegin \/ BackupEnd \/ UNCHANGED vars
  BY <1>7, QuietOrder
<1>8. CASE \E k \in Keys : \E d \in {Descent(k)} : DescendFails(k, d)
  BY <1>8, QuietOrder
<1> QED  BY <1>1, <1>2, <1>3, <1>4, <1>5, <1>6, <1>7, <1>8 DEF Next

\* So it is ordered in every state.
LEMMA OrderInvariant == Spec => []OrderInv
BY IndexInvariant, OrderInit, OrderNext, PTL DEF Spec

\* A row id of a leaf's entries with a key.
RowsIn(nd, k) == {nd.vals[i] : i \in {j \in 1 .. Len(nd.keys) : Same(k, nd.keys[j])}}

\* The invariant implies that a search is complete: it ends at the leaf where
\* its key belongs, and only a key that separates two nodes can be elsewhere.
LEMMA CompleteFromInv == IndexInv /\ OrderInv => SearchComplete
<1> SUFFICES ASSUME IndexInv, OrderInv, pc = "idle", ~damaged, ~garbled, NEW k \in Keys
             PROVE  /\ RowsOf(k) # {} => Search(k) # {}
                    /\ Copied(k, EmptySlot) \notin Separators => Search(k) = RowsOf(k)
  BY DEF SearchComplete
<1>0. TreeInv /\ LevelInv /\ mapped
  BY DEF IndexInv, OrderInv
<1>1. PICK v : IsOrdered(v)
  BY DEF OrderInv
<1> DEFINE n == Len(node)
<1>2. PICK par, at, home, band : TreeOf(n, v, par, at, home, band)
  BY <1>1 DEF IsOrdered
<1>3. IsView(v) /\ IsTree(n, v) /\ PairsIn(n, v) = acked /\ \A q \in 0 .. n : v[q] = Site(q)
  BY <1>1 DEF IsOrdered, Taken, IsView
<1>4. k \in Words /\ k \in Strings /\ Real(k) = k
  BY Stringed, WordIsReal
<1>5. PICK h : Heights(h)
  BY <1>0 DEF LevelInv
<1>6. WayFrom(Descent(k), root, k)
  BY <1>0, <1>5, DescentIsWay
<1>7. PICK p : p = Last(Descent(k))
  OBVIOUS
<1>8. p \in 1 .. n /\ v[p].leaf /\ v[p] = node[p] /\ k \in home[p]
  <2>1. PICK d : d = Descent(k)
    OBVIOUS
  <2>2. WayFrom(d, root, k) /\ p = d[Len(d)]
    BY <1>6, <1>7, <2>1 DEF Last
  <2> QED  BY <2>2, <1>0, <1>2, <1>3, <1>4, LeadsHome
<1>9. n \in Nat /\ Pages = 1 .. n /\ p \in Pages /\ \A q \in 1 .. n : q \in 0 .. n /\ v[q] = node[q]
  BY <1>0, <1>3, <1>8, SitesAreTree
<1>10. Search(k) = RowsIn(node[p], k)
  <2>1. GoodNode(node[p]) /\ SortedKeys(node[p].keys)
    BY <1>0, <1>2, <1>8, <1>9 DEF TreeInv, TreeOf, Arranged
  <2>2. Search(k) = LeafHits(node[p], k)
    BY <1>0, <1>7, <1>9 DEF Search, Readable, Pages
  <2> QED  BY <2>1, <2>2, <1>4, LeafHitsAll DEF RowsIn
<1>11. ASSUME NEW r PROVE r \in RowsOf(k) <=> <<k, r>> \in PairsIn(n, v)
  <2>1. \A b \in acked : b = <<b[1], b[2]>>
    BY <1>3 DEF PairsIn
  <2> QED  BY <2>1, <1>3 DEF RowsOf
<1>12. ASSUME NEW q \in 1 .. n, v[q].leaf, NEW m \in 1 .. Len(v[q].keys)
       PROVE  /\ v[q].vals[m] \in Nat /\ Real(v[q].keys[m]) \in Words
              /\ Real(v[q].keys[m]) = k => v[q].vals[m] \in RowsOf(k)
  <2>1. v[q].vals[m] \in Nat /\ Real(v[q].keys[m]) \in Words
    BY <1>3, <1>9, <1>12, NodeParts
  <2>2. <<Real(v[q].keys[m]), v[q].vals[m]>> \in PairsIn(n, v)
    BY <2>1, <1>12 DEF PairsIn
  <2> QED  BY <2>1, <2>2, <1>11
<1> HIDE DEF n
<1>13. RowsIn(node[p], k) \subseteq RowsOf(k)
  <2> SUFFICES ASSUME NEW m \in 1 .. Len(node[p].keys), Same(k, node[p].keys[m])
               PROVE  node[p].vals[m] \in RowsOf(k)
    BY DEF RowsIn
  <2>1. Real(v[p].keys[m]) = k
    BY <1>4, <1>8 DEF Same
  <2> QED  BY <2>1, <1>8, <1>12
<1>14. ASSUME NEW x \in SepWords(n, v) PROVE Copied(x, EmptySlot) \in Separators
  <2>1. PICK q \in 0 .. n : ~v[q].leaf /\ Has(v[q], x)
    BY <1>14 DEF SepWords
  <2>2. PICK m \in 1 .. Len(v[q].keys) : Real(v[q].keys[m]) = x
    BY <2>1 DEF Has
  <2>3. q \in 1 .. n
    <3>1. CASE q = 0
      <4>1. Len(v[q].keys) = 0
        BY <3>1, <1>0, <1>3, SitesAreTree
      <4> QED  BY <4>1, <2>2
    <3>2. CASE q # 0
      BY <3>2, <1>9
    <3> QED  BY <3>1, <3>2
  <2>4. v[q].keys[m] \in Slot /\ Clean(v[q].keys[m])
    BY <2>2, <1>2, <1>3, NodeParts DEF TreeOf, Arranged
  <2>5. v[q].keys[m] = Copied(x, EmptySlot)
    BY <2>2, <2>4, CleanIsCopy
  <2>6. node[q].keys[m] \in Range(node[q].keys) /\ q \in Pages /\ ~node[q].leaf
    <3>1. node[q].keys \in Seq(Slot) /\ m \in 1 .. Len(node[q].keys)
      BY <2>1, <2>2, <2>3, <1>3, <1>9, NodeParts
    <3>2. m \in DOMAIN node[q].keys
      <4> HIDE DEF Slot
      <4> QED  BY <3>1
    <3> QED  BY <3>2, <2>1, <2>3, <1>9 DEF Range
  <2> QED  BY <2>3, <2>5, <2>6, <1>9 DEF Separators
<1>15. CASE k \in SepWords(n, v)
  <2>1. Placed(v[p], home[p], SepWords(n, v))
    BY <1>2, <1>8 DEF TreeOf
  <2>2. PICK m \in 1 .. Len(v[p].keys) : Real(v[p].keys[m]) = k
    BY <2>1, <1>8, <1>15 DEF Placed, Has
  <2>3. node[p].vals[m] \in RowsIn(node[p], k)
    BY <2>2, <1>4, <1>8 DEF RowsIn, Same
  <2>4. Search(k) # {}
    BY <2>3, <1>10
  <2>5. Copied(k, EmptySlot) \in Separators
    BY <1>14, <1>15
  <2> QED  BY <2>4, <2>5
<1>16. CASE k \notin SepWords(n, v)
  <2>1. ASSUME NEW r \in RowsOf(k) PROVE r \in RowsIn(node[p], k)
    <3>1. <<k, r>> \in PairsIn(n, v)
      BY <2>1, <1>11
    <3>2. PICK q \in 1 .. n : v[q].leaf /\ \E m \in 1 .. Len(v[q].keys) : <<k, r>> = <<Real(v[q].keys[m]), v[q].vals[m]>>
      BY <3>1 DEF PairsIn
    <3>3. PICK m \in 1 .. Len(v[q].keys) : Real(v[q].keys[m]) = k /\ v[q].vals[m] = r
      BY <3>2
    <3>4. Has(v[q], k)
      BY <3>3 DEF Has
    <3>5. k \in home[q]
      <4>1. Placed(v[q], home[q], SepWords(n, v))
        BY <3>2, <1>2 DEF TreeOf
      <4> QED  BY <4>1, <3>4, <1>4, <1>16 DEF Placed
    <3>6. q = p
      BY <3>2, <3>5, <1>2, <1>8 DEF TreeOf, Zones
    <3> QED  BY <3>3, <3>6, <1>4, <1>8 DEF RowsIn, Same
  <2>2. Search(k) = RowsOf(k)
    BY <2>1, <1>10, <1>13
  <2> QED  BY <2>2
<1> QED  BY <1>15, <1>16

\* BTree::search finds every row inserted under its key, whatever splits the
\* insertions have made and however often a backup or a crash came between two
\* of them: a word leads to one leaf, and only the rows of a key that separates
\* two nodes are also to the left of it, where find_child_binary does not go.
THEOREM SearchesComplete == Spec => []SearchComplete
BY IndexInvariant, OrderInvariant, CompleteFromInv, PTL

-----------------------------------------------------------------------------
(* What the leaves hold.                                                   *)

\* The pages of one level more, and the function by which Reachable is defined.
GrowFrom(g, m) ==
    IF m = 0 THEN {root} ELSE UNION {x \cup UNION {Kids(p) : p \in x} : x \in {g[m - 1]}}
IsGrow(g) == g = [m \in 0 .. Len(node) |-> GrowFrom(g, m)]

\* A set of pages grows by their children.
LEMMA GrowStep ==
    ASSUME NEW g, NEW m \in Nat
    PROVE  GrowFrom(g, 0) = {root} /\ GrowFrom(g, m + 1) = g[m] \cup UNION {Kids(p) : p \in g[m]}
<1>1. m + 1 # 0 /\ (m + 1) - 1 = m
  OBVIOUS
<1>2. GrowFrom(g, m + 1) = UNION {x \cup UNION {Kids(p) : p \in x} : x \in {g[m]}}
  BY <1>1 DEF GrowFrom
<1>3. \A x : UNION {y \cup UNION {Kids(p) : p \in y} : y \in {x}} = x \cup UNION {Kids(p) : p \in x}
  OBVIOUS
<1> QED  BY <1>2, <1>3 DEF GrowFrom

\* There is such a function.
LEMMA GrowExists ==
    ASSUME Len(node) \in Nat
    PROVE  \E g : IsGrow(g)
<1> DEFINE Fits(g, m) == \A i \in 0 .. m : g[i] = GrowFrom(g, i)
           S == {m \in Nat : \E g : Fits(g, m)}
<1>1. 0 \in S
  <2> DEFINE z == [i \in {0} |-> {root}]
  <2>1. Fits(z, 0)
    BY DEF GrowFrom
  <2> QED  BY <2>1, Zenon
<1>2. ASSUME NEW m \in Nat, m \in S PROVE m + 1 \in S
  <2>1. PICK g : Fits(g, m)
    BY <1>2
  <2> DEFINE f == [i \in 0 .. m + 1 |-> IF i = m + 1 THEN GrowFrom(g, m + 1) ELSE g[i]]
  <2>2. f[m + 1] = GrowFrom(g, m + 1) /\ \A i \in 0 .. m : f[i] = g[i]
    OBVIOUS
  <2> HIDE DEF f
  <2>3. ASSUME NEW i \in 0 .. m + 1 PROVE f[i] = GrowFrom(f, i)
    <3>1. CASE i = 0
      <4>1. 0 \in 0 .. m
        OBVIOUS
      <4> QED  BY <4>1, <3>1, <2>1, <2>2, GrowStep
    <3>2. CASE i # 0
      <4>1. PICK j \in Nat : i = j + 1
        <5>1. i - 1 \in Nat /\ i = (i - 1) + 1
          BY <3>2
        <5> QED  BY <5>1
      <4>2. j \in 0 .. m
        BY <4>1
      <4>3. GrowFrom(f, j + 1) = GrowFrom(g, j + 1)
        <5>1. f[j] = g[j]
          BY <4>2, <2>2
        <5>2. GrowFrom(f, j + 1) = f[j] \cup UNION {Kids(p) : p \in f[j]}
          BY GrowStep
        <5>3. GrowFrom(g, j + 1) = g[j] \cup UNION {Kids(p) : p \in g[j]}
          BY GrowStep
        <5> QED  BY <5>1, <5>2, <5>3, Zenon
      <4>4. CASE i = m + 1
        BY <4>1, <4>3, <4>4, <2>2
      <4>5. CASE i # m + 1
        <5>1. i \in 0 .. m
          BY <4>5
        <5> QED  BY <5>1, <4>1, <4>3, <2>1, <2>2
      <4> QED  BY <4>4, <4>5
    <3> QED  BY <3>1, <3>2
  <2>4. Fits(f, m + 1)
    BY <2>3
  <2>5. m + 1 \in Nat
    OBVIOUS
  <2> HIDE DEF Fits
  <2> QED  BY <2>4, <2>5
<1>3. Len(node) \in S
  <2> HIDE DEF S
  <2> QED  BY <1>1, <1>2, SetInduction
<1>4. PICK g : Fits(g, Len(node))
  BY <1>3
<1> DEFINE f == [i \in 0 .. Len(node) |-> g[i]]
<1>5. \A i \in 0 .. Len(node) : f[i] = g[i]
  OBVIOUS
<1>6. f = [i \in 0 .. Len(node) |-> g[i]]
  OBVIOUS
<1> HIDE DEF f
<1>7. ASSUME NEW i \in 0 .. Len(node) PROVE g[i] = GrowFrom(f, i)
  <2>1. CASE i = 0
    BY <2>1, <1>4, GrowStep
  <2>2. CASE i # 0
    <3>1. PICK j \in Nat : i = j + 1
      <4>1. i - 1 \in Nat /\ i = (i - 1) + 1
        BY <2>2
      <4> QED  BY <4>1
    <3>2. j \in 0 .. Len(node)
      BY <3>1
    <3>3. GrowFrom(f, j + 1) = GrowFrom(g, j + 1)
      <4>1. f[j] = g[j]
        BY <3>2, <1>5
      <4>2. GrowFrom(f, j + 1) = f[j] \cup UNION {Kids(p) : p \in f[j]}
        BY GrowStep
      <4>3. GrowFrom(g, j + 1) = g[j] \cup UNION {Kids(p) : p \in g[j]}
        BY GrowStep
      <4> QED  BY <4>1, <4>2, <4>3, Zenon
    <3> QED  BY <3>1, <3>3, <1>4
  <2> QED  BY <2>1, <2>2
<1>8. f = [i \in 0 .. Len(node) |-> GrowFrom(f, i)]
  BY <1>6, <1>7
<1> QED  BY <1>8 DEF IsGrow

\* What Reachable is.
LEMMA ReachableIs ==
    ASSUME Len(node) \in Nat
    PROVE  \E g : /\ Reachable = g[Len(node)] /\ g[0] = {root}
                  /\ \A m \in Nat : m + 1 <= Len(node) => g[m + 1] = g[m] \cup UNION {Kids(p) : p \in g[m]}
<1> DEFINE grow == CHOOSE g : IsGrow(g)
<1>1. IsGrow(grow)
  BY GrowExists, Zenon
<1>2. Reachable = grow[Len(node)]
  BY Zenon DEF Reachable, IsGrow, GrowFrom
<1> HIDE DEF grow
<1>3. \A m \in 0 .. Len(node) : grow[m] = GrowFrom(grow, m)
  BY <1>1 DEF IsGrow
<1>4. grow[0] = {root}
  BY <1>3, GrowStep
<1>5. ASSUME NEW m \in Nat, m + 1 <= Len(node) PROVE grow[m + 1] = grow[m] \cup UNION {Kids(p) : p \in grow[m]}
  <2>1. m + 1 \in 0 .. Len(node)
    BY <1>5
  <2> QED  BY <2>1, <1>3, GrowStep
<1> QED  BY <1>2, <1>4, <1>5

\* Every page that can be reached is in the file, and where every page but the
\* root is the child of one, all of them can be reached.
LEMMA ReachablePages ==
    ASSUME TreeInv
    PROVE  /\ Reachable \subseteq Pages
           /\ \A h : Heights(h) /\ (\A p \in Pages : p # root => \E q \in Pages : p \in Kids(q)) => Reachable = Pages
<1>0. Len(node) \in Nat /\ Pages = 1 .. Len(node) /\ root \in Pages
  BY SitesAreTree
<1> DEFINE N == Len(node)
<1>1. PICK g : /\ Reachable = g[N] /\ g[0] = {root}
               /\ \A m \in Nat : m + 1 <= N => g[m + 1] = g[m] \cup UNION {Kids(p) : p \in g[m]}
  BY <1>0, ReachableIs
<1> HIDE DEF N
<1>2. N \in Nat
  BY <1>0 DEF N
<1>3. Reachable \subseteq Pages
  <2> DEFINE S == {m \in Nat : m <= N => g[m] \subseteq Pages}
  <2>1. 0 \in S
    BY <1>0, <1>1
  <2>2. ASSUME NEW m \in Nat, m \in S PROVE m + 1 \in S
    <3> SUFFICES ASSUME m + 1 <= N PROVE g[m + 1] \subseteq Pages
      OBVIOUS
    <3>1. g[m] \subseteq Pages
      BY <2>2, <1>2
    <3>2. \A p : Kids(p) \subseteq Pages
      BY DEF Kids
    <3> QED  BY <3>1, <3>2, <1>1
  <2>3. N \in S
    <3> HIDE DEF S
    <3> QED  BY <2>1, <2>2, <1>2, SetInduction
  <2> QED  BY <2>3, <1>1, <1>2
<1>4. ASSUME NEW h, Heights(h), \A p \in Pages : p # root => \E q \in Pages : p \in Kids(q)
      PROVE  Pages \subseteq Reachable
  <2>0. \A p \in Pages : h[p] \in Nat /\ h[p] <= N
    BY <1>4 DEF Heights, N
  <2> DEFINE S == {m \in Nat : m <= N => root \in g[m] /\ \A p \in Pages : N - h[p] <= m => p \in g[m]}
  <2>1. ASSUME NEW p \in Pages, p # root PROVE \E q \in Pages : p \in Kids(q) /\ h[p] < h[q]
    <3>1. PICK q \in Pages : p \in Kids(q)
      BY <1>4, <2>1
    <3>2. p \in Children(node[q])
      <4>1. ~node[q].leaf /\ p \in {node[q].first} \cup Range(node[q].vals)
        BY <3>1 DEF Kids
      <4>2. node[q].vals \in Seq(Nat)
        BY DEF TreeInv, GoodNode, Node
      <4>3. Range(node[q].vals) = Elems(node[q].vals)
        BY <4>2 DEF Range, Elems
      <4> QED  BY <4>1, <4>3 DEF Children
    <3>3. h[p] < h[q]
      BY <3>2, <1>4 DEF Heights
    <3> QED  BY <3>1, <3>3
  <2>2. 0 \in S
    <3>1. ASSUME NEW p \in Pages, N - h[p] <= 0 PROVE p = root
      <4> SUFFICES ASSUME p # root PROVE FALSE
        OBVIOUS
      <4>1. PICK q \in Pages : h[p] < h[q]
        BY <2>1
      <4>2. h[p] \in Nat /\ h[q] \in Nat /\ h[q] <= N
        BY <2>0
      <4> QED  BY <4>1, <4>2, <3>1, <1>2
    <3> QED  BY <3>1, <1>1
  <2>3. ASSUME NEW m \in Nat, m \in S PROVE m + 1 \in S
    <3> SUFFICES ASSUME m + 1 <= N
                 PROVE  root \in g[m + 1] /\ \A p \in Pages : N - h[p] <= m + 1 => p \in g[m + 1]
      OBVIOUS
    <3>1. /\ root \in g[m] /\ \A p \in Pages : N - h[p] <= m => p \in g[m]
          /\ g[m + 1] = g[m] \cup UNION {Kids(p) : p \in g[m]}
      <4>1. m <= N
        BY <1>2
      <4> QED  BY <4>1, <2>3, <1>1
    <3>2. ASSUME NEW p \in Pages, N - h[p] <= m + 1, p # root PROVE p \in g[m + 1]
      <4>1. PICK q \in Pages : p \in Kids(q) /\ h[p] < h[q]
        BY <2>1, <3>2
      <4>2. N - h[q] <= m
        <5>1. h[p] \in Nat /\ h[q] \in Nat
          BY <2>0
        <5> QED  BY <5>1, <4>1, <3>2, <1>2
      <4> QED  BY <4>1, <4>2, <3>1
    <3> QED  BY <3>1, <3>2
  <2>4. N \in S
    <3> HIDE DEF S
    <3> QED  BY <2>2, <2>3, <1>2, SetInduction
  <2>5. \A p \in Pages : N - h[p] <= N
    BY <2>0, <1>2
  <2> QED  BY <2>4, <2>5, <1>1, <1>2
<1> QED  BY <1>3, <1>4

\* What the leaves hold was asked for.
LEMMA StoredAsked ==
    ASSUME TreeInv, AskedInv, LeavesSound
    PROVE  Stored \subseteq {<<asked[i], i - 1>> : i \in 1 .. Len(asked)}
<1> SUFFICES ASSUME NEW x \in Stored PROVE x \in {<<asked[i], i - 1>> : i \in 1 .. Len(asked)}
  OBVIOUS
<1>1. PICK p \in Reachable : node[p].leaf /\ x \in PairsOf(node[p])
  BY DEF Stored
<1>2. p \in Pages
  BY <1>1, ReachablePages
<1>3. PICK m \in DOMAIN node[p].keys : x = <<Real(node[p].keys[m]), node[p].vals[m]>>
  BY <1>1 DEF PairsOf
<1>4. node[p].keys \in Seq(Slot)
  BY <1>2 DEF TreeInv, GoodNode, Node
<1>5. m \in 1 .. Len(node[p].keys)
  <2> HIDE DEF Slot
  <2> QED  BY <1>3, <1>4
<1> DEFINE e == <<node[p].keys[m], node[p].vals[m]>>
<1>6. e \in EntriesOf(node[p]) /\ e[1] = node[p].keys[m] /\ e[2] = node[p].vals[m]
  BY <1>5 DEF EntriesOf, Pairing
<1> HIDE DEF e
<1>7. e[2] \in 0 .. Len(asked) - 1 /\ asked[e[2] + 1] = Real(e[1])
  BY <1>1, <1>2, <1>6 DEF LeavesSound, AskedIn
<1>8. PICK i : i = e[2] + 1
  OBVIOUS
<1>9. i \in 1 .. Len(asked) /\ i - 1 = e[2]
  <2>1. Len(asked) \in Nat
    BY DEF AskedInv
  <2> QED  BY <2>1, <1>7, <1>8
<1>10. x = <<asked[i], i - 1>>
  BY <1>3, <1>6, <1>7, <1>8, <1>9
<1> QED  BY <1>9, <1>10

\* Between two insertions the leaves hold the pairs of those that returned kOk.
LEMMA StoredAcked ==
    ASSUME IndexInv, OrderInv, pc = "idle", ~damaged, ~garbled
    PROVE  Stored = acked
<1>0. TreeInv /\ LevelInv
  BY DEF IndexInv
<1>1. PICK v : IsOrdered(v)
  BY DEF OrderInv
<1> DEFINE n == Len(node)
<1>2. PICK par, at, home, band : TreeOf(n, v, par, at, home, band)
  BY <1>1 DEF IsOrdered
<1>3. IsTree(n, v) /\ PairsIn(n, v) = acked /\ \A q \in 0 .. n : v[q] = Site(q)
  BY <1>1 DEF IsOrdered, Taken, IsView
<1>4. /\ n \in Nat /\ Pages = 1 .. n /\ \A q \in 1 .. n : q \in 0 .. n /\ v[q] = node[q]
      /\ v[0].first = root /\ v[0].keys = <<>> /\ 0 \in 0 .. n
  BY <1>0, <1>3, SitesAreTree
<1>5. PICK h : Heights(h)
  BY <1>0 DEF LevelInv
<1> HIDE DEF n
<1>6. ASSUME NEW p \in Pages, p # root PROVE \E q \in Pages : p \in Kids(q)
  <2>1. /\ par[p] \in 0 .. n /\ at[p] \in Nat /\ ~v[par[p]].leaf /\ at[p] <= Len(v[par[p]].keys)
        /\ ChildAt(v[par[p]], at[p]) = p
    BY <1>2, <1>4 DEF TreeOf, Shape
  <2>2. par[p] # 0
    <3> SUFFICES ASSUME par[p] = 0 PROVE FALSE
      OBVIOUS
    <3>1. Len(v[0].keys) = 0
      BY <1>4
    <3>2. at[p] = 0
      BY <2>1, <3>1
    <3> QED  BY <2>1, <3>2, <1>4, <1>6 DEF ChildAt
  <2>3. PICK q : q = par[p]
    OBVIOUS
  <2>4. q \in Pages /\ v[q] = node[q] /\ q \in 0 .. n
    BY <2>1, <2>2, <2>3, <1>4
  <2>5. node[q].vals \in Seq(Nat) /\ Len(node[q].vals) = Len(node[q].keys)
    BY <2>4, <1>3, NodeParts
  <2>6. p \in {node[q].first} \cup Range(node[q].vals)
    <3>1. CASE at[p] = 0
      BY <3>1, <2>1, <2>3, <2>4 DEF ChildAt
    <3>2. CASE at[p] # 0
      <4>1. p = node[q].vals[at[p]]
        BY <3>2, <2>1, <2>3, <2>4 DEF ChildAt
      <4>2. at[p] \in DOMAIN node[q].vals
        BY <3>2, <2>1, <2>3, <2>4, <2>5
      <4> QED  BY <4>1, <4>2 DEF Range
    <3> QED  BY <3>1, <3>2
  <2> QED  BY <2>1, <2>3, <2>4, <2>6 DEF Kids
<1>7. Reachable = Pages
  BY <1>0, <1>5, <1>6, ReachablePages
<1>8. ASSUME NEW p \in 1 .. n
      PROVE  DOMAIN v[p].keys = 1 .. Len(v[p].keys)
  <2>1. v[p].keys \in Seq(Slot)
    BY <1>3, <1>4, NodeParts
  <2> HIDE DEF Slot
  <2> QED  BY <2>1
<1>9. ASSUME NEW x PROVE x \in Stored <=> \E p \in 1 .. n : v[p].leaf /\ \E m \in 1 .. Len(v[p].keys) : x = <<Real(v[p].keys[m]), v[p].vals[m]>>
  <2>1. x \in Stored <=> \E p \in 1 .. n : v[p].leaf /\ x \in PairsOf(v[p])
    BY <1>4, <1>7 DEF Stored
  <2>2. \A p \in 1 .. n : x \in PairsOf(v[p]) <=> \E m \in 1 .. Len(v[p].keys) : x = <<Real(v[p].keys[m]), v[p].vals[m]>>
    BY <1>8 DEF PairsOf
  <2> QED  BY <2>1, <2>2
<1>10. ASSUME NEW p \in 1 .. n, NEW m \in 1 .. Len(v[p].keys)
       PROVE  <<Real(v[p].keys[m]), v[p].vals[m]>> \in Words \X Nat
  <2>1. Real(v[p].keys[m]) \in Words /\ v[p].vals[m] \in Nat
    BY <1>3, <1>4, NodeParts
  <2> QED  BY <2>1
<1>11. \A x : x \in Stored <=> x \in PairsIn(n, v)
  BY <1>9, <1>10, SMTT(30) DEF PairsIn
<1> QED  BY <1>3, <1>11

-----------------------------------------------------------------------------
(* The tree is an IndexMap.                                                *)

\* The pairs asked for by the first m insertions, and the values the refinement
\* mapping gives the variables of IndexMap.
FirstPairs(q, m) == {<<q[i], i - 1>> : i \in 1 .. m}
Ended == Len(asked) - (IF pc = "idle" THEN 0 ELSE 1)
Past == FirstPairs(asked, Ended)
Held == IF pc = "idle" THEN Stored ELSE before

\* The insertion under way is the last that was asked for, and before is what
\* the leaves held when it began.
CallPast ==
    pc # "idle" /\ ~garbled =>
        /\ Len(asked) > 0 /\ key = asked[Len(asked)] /\ rid = Len(asked) - 1
        /\ before \subseteq FirstPairs(asked, Len(asked) - 1)
        /\ ~damaged => before = acked

\* What is held was asked for, and while nothing is damaged it is what was
\* answered with kOk.
MapInv ==
    ~garbled => /\ Held \subseteq Past /\ CallPast
                /\ ~damaged => Held = acked

\* One insertion more.
LEMMA OneMorePair ==
    ASSUME NEW q \in Seq(Keys), NEW k
    PROVE  /\ FirstPairs(Append(q, k), Len(q)) = FirstPairs(q, Len(q))
           /\ FirstPairs(Append(q, k), Len(q) + 1) = FirstPairs(q, Len(q)) \cup {<<k, Len(q)>>}
           /\ Len(q) > 0 => FirstPairs(q, Len(q)) = FirstPairs(q, Len(q) - 1) \cup {<<q[Len(q)], Len(q) - 1>>}
<1> DEFINE N == Len(q)
<1>0. N \in Nat
  OBVIOUS
<1> PICK t : t = Append(q, k)
  OBVIOUS
<1>1. t[N + 1] = k /\ \A i \in 1 .. N : t[i] = q[i]
  OBVIOUS
<1> HIDE DEF N
<1>2. FirstPairs(t, N) = FirstPairs(q, N)
  BY <1>1 DEF FirstPairs
<1>3. ASSUME NEW s, NEW m \in Nat PROVE FirstPairs(s, m + 1) = FirstPairs(s, m) \cup {<<s[m + 1], m>>}
  <2>1. 1 .. m + 1 = (1 .. m) \cup {m + 1} /\ (m + 1) - 1 = m
    OBVIOUS
  <2>2. ASSUME NEW x PROVE x \in FirstPairs(s, m + 1) <=> x \in FirstPairs(s, m) \/ x = <<s[m + 1], (m + 1) - 1>>
    BY <2>1 DEF FirstPairs
  <2> QED  BY <2>1, <2>2
<1>4. FirstPairs(t, N + 1) = FirstPairs(q, N) \cup {<<k, N>>}
  BY <1>0, <1>1, <1>2, <1>3
<1>5. ASSUME N > 0 PROVE FirstPairs(q, N) = FirstPairs(q, N - 1) \cup {<<q[N], N - 1>>}
  <2>1. PICK m \in Nat : N = m + 1 /\ N - 1 = m
    <3>1. N - 1 \in Nat /\ N = (N - 1) + 1
      BY <1>0, <1>5
    <3> QED  BY <3>1
  <2> QED  BY <2>1, <1>3
<1> QED  BY <1>2, <1>4, <1>5 DEF N

\* The parts of the invariants give it.
LEMMA MapFromInv == IndexInv /\ OrderInv /\ CallPast => MapInv
<1> SUFFICES ASSUME IndexInv, OrderInv, CallPast, ~garbled
             PROVE  Held \subseteq Past /\ (~damaged => Held = acked)
  BY DEF MapInv
<1>1. Len(asked) \in Nat /\ AskedInv /\ TreeInv /\ LeavesSound
  BY DEF IndexInv, AskedInv, SoundInv
<1>2. CASE pc = "idle"
  <2>1. Held = Stored /\ Ended = Len(asked)
    BY <1>1, <1>2 DEF Held, Ended
  <2>2. Stored \subseteq FirstPairs(asked, Len(asked))
    BY <1>1, StoredAsked DEF FirstPairs
  <2>3. ~damaged => Stored = acked
    BY <1>2, StoredAcked
  <2> QED  BY <2>1, <2>2, <2>3 DEF Past
<1>3. CASE pc # "idle"
  <2>1. Held = before /\ Ended = Len(asked) - 1
    BY <1>3 DEF Held, Ended
  <2> QED  BY <1>3, <2>1 DEF CallPast, Past
<1> QED  BY <1>2, <1>3

\* Every step keeps what is said of the insertion under way.
LEMMA CallPastNext == IndexInv /\ OrderInv /\ CallPast /\ [Next]_vars => CallPast'
<1> SUFFICES ASSUME IndexInv, OrderInv, CallPast, [Next]_vars, pc' # "idle", ~garbled'
             PROVE  /\ Len(asked') > 0 /\ key' = asked'[Len(asked')] /\ rid' = Len(asked') - 1
                    /\ before' \subseteq FirstPairs(asked', Len(asked') - 1)
                    /\ ~damaged' => before' = acked'
  BY DEF CallPast
<1>0. asked \in Seq(Keys) /\ Len(asked) \in Nat
  BY DEF IndexInv, AskedInv
<1>1. ASSUME NEW k \in Keys, NEW d, LeafSplitLeft(k, d)
      PROVE  /\ Len(asked') > 0 /\ key' = asked'[Len(asked')] /\ rid' = Len(asked') - 1
             /\ before' \subseteq FirstPairs(asked', Len(asked') - 1)
             /\ ~damaged' => before' = acked'
  <2>1. /\ pc = "idle" /\ asked' = Append(asked, k) /\ key' = k /\ rid' = Len(asked) /\ before' = Stored
        /\ UNCHANGED <<acked, damaged>>
    BY <1>1 DEF LeafSplitLeft, AtLeaf, Call
  <2>2. ~garbled
    BY <1>1 DEF LeafSplitLeft
  <2>3. /\ Len(asked') = Len(asked) + 1 /\ asked'[Len(asked')] = k /\ Len(asked') - 1 = Len(asked) /\ Len(asked') > 0
    BY <2>1, <1>0
  <2>4. Stored \subseteq FirstPairs(asked, Len(asked))
    BY <2>2, StoredAsked DEF FirstPairs, IndexInv, SoundInv
  <2>5. FirstPairs(asked', Len(asked)) = FirstPairs(asked, Len(asked))
    BY <2>1, <1>0, OneMorePair
  <2>6. ~damaged => Stored = acked
    BY <2>1, <2>2, StoredAcked
  <2> QED  BY <2>1, <2>3, <2>4, <2>5, <2>6
<1>2. CASE SplitRight \/ InnerSplitLeft \/ UNCHANGED vars
  <2>1. UNCHANGED <<asked, key, rid, before, acked, damaged, garbled>> /\ pc # "idle"
    <3>1. CASE SplitRight
      BY <3>1 DEF SplitRight, pastVars
    <3>2. CASE InnerSplitLeft
      BY <3>2 DEF InnerSplitLeft, pastVars
    <3>3. CASE UNCHANGED vars
      BY <3>3 DEF vars, callVars, pastVars
    <3> QED  BY <1>2, <3>1, <3>2, <3>3
  <2> QED  BY <2>1 DEF CallPast
<1>3. CASE InnerInsert \/ NewRoot \/ NewRootFails \/ BackupBegin \/ BackupEnd \/ Crash
  <2>1. pc' = "idle"
    BY <1>3 DEF InnerInsert, NewRoot, NewRootFails, BackupBegin, BackupEnd, Crash, Return, callVars
  <2> QED  BY <2>1
<1>4. ASSUME NEW k \in Keys, NEW d, DescendFails(k, d) \/ LeafInsert(k, d) PROVE FALSE
  <2>1. pc' = "idle"
    BY <1>4 DEF DescendFails, LeafInsert, AtLeaf, Call, callVars
  <2> QED  BY <2>1
<1> QED  BY <1>1, <1>2, <1>3, <1>4 DEF Next

\* So that holds in every state.
LEMMA MapInvariant == Spec => []MapInv
<1>1. Init => CallPast
  BY DEF Init, CallPast
<1> QED  BY <1>1, IndexInvariant, OrderInvariant, CallPastNext, MapFromInv, PTL DEF Spec

\* A step after which the index counts as damaged.
LEMMA DamageStep ==
    ASSUME damaged', Held' \subseteq Past',
           Past' = Past \/ \E k \in Keys, r \in 0 .. MaxInserts : Past' = Past \cup {<<k, r>>}
    PROVE  Map!Next
<1>1. /\ Past = {<<asked[i], i - 1>> : i \in 1 .. Len(asked) - (IF pc = "idle" THEN 0 ELSE 1)}
      /\ Held = IF pc = "idle" THEN Stored ELSE before
  BY DEF Past, FirstPairs, Ended, Held
<1>2. (~damaged)' = FALSE
  OBVIOUS
<1>3. Map!Damage
  BY <1>1, <1>2 DEF Map!Damage, Past, FirstPairs, Ended, Held
<1> QED  BY <1>3 DEF Map!Next

\* A step that adds one pair to what was asked for, and the same to what is held
\* or nothing.
LEMMA PairStep ==
    ASSUME NEW k \in Keys, NEW r \in 0 .. MaxInserts, damaged' = damaged, Past' = Past \cup {<<k, r>>},
           Held' = Held \cup {<<k, r>>} \/ Held' = Held
    PROVE  Map!Next
<1>1. CASE Held' = Held \cup {<<k, r>>}
  <2>1. Map!Insert(k, r)
    BY <1>1 DEF Map!Insert, Past, FirstPairs, Ended, Held
  <2> QED  BY <2>1 DEF Map!Next
<1>2. CASE Held' = Held
  <2>1. Map!Refuse(k, r)
    BY <1>2 DEF Map!Refuse, Past, FirstPairs, Ended, Held
  <2> QED  BY <2>1 DEF Map!Next
<1> QED  BY <1>1, <1>2

\* A step in which nothing of that changes.
LEMMA SameStep ==
    ASSUME ~damaged' <=> ~damaged, Past' = Past, Held' = Held
    PROVE  UNCHANGED Map!vars
BY DEF Map!vars, Past, FirstPairs, Ended, Held

\* Every step of the tree is one of IndexMap, or leaves what is seen of it alone.
LEMMA MapStep ==
    ASSUME IndexInv, IndexInv', MapInv, MapInv', ~garbled, ~garbled', [Next]_vars
    PROVE  [Map!Next]_(Map!vars)
<1>0. asked \in Seq(Keys) /\ Len(asked) \in Nat /\ Len(asked) <= MaxInserts /\ MaxInserts \in Nat
  BY BTreeAssumption DEF IndexInv, AskedInv
<1>1. Held \subseteq Past /\ CallPast /\ (~damaged => Held = acked)
  BY DEF MapInv
<1>2. Held' \subseteq Past' /\ (~damaged' => Held' = acked')
  BY DEF MapInv
<1>3. damaged => damaged'
  BY DEF Next, DescendFails, LeafInsert, LeafSplitLeft, SplitRight, InnerInsert, InnerSplitLeft, NewRoot,
         NewRootFails, BackupBegin, BackupEnd, Crash, pastVars, vars
<1>4. ASSUME UNCHANGED <<node, root>> PROVE Stored' = Stored
  BY <1>4 DEF Stored, Reachable, Kids, Pages
<1>5. pc = "idle" => Past = FirstPairs(asked, Len(asked))
  BY <1>0 DEF Past, Ended
<1>6. ASSUME pc # "idle"
      PROVE  /\ key \in Keys /\ rid \in 0 .. MaxInserts
             /\ FirstPairs(asked, Len(asked)) = Past \cup {<<key, rid>>}
  <2>1. Len(asked) > 0 /\ key = asked[Len(asked)] /\ rid = Len(asked) - 1
    BY <1>1, <1>6 DEF CallPast
  <2>2. Past = FirstPairs(asked, Len(asked) - 1)
    BY <1>6 DEF Past, Ended
  <2>3. key \in Keys /\ rid \in 0 .. MaxInserts
    BY <2>1, <1>0
  <2>4. FirstPairs(asked, Len(asked)) = FirstPairs(asked, Len(asked) - 1) \cup {<<asked[Len(asked)], Len(asked) - 1>>}
    BY <2>1, <1>0, OneMorePair
  <2> QED  BY <2>1, <2>2, <2>3, <2>4
<1>7. ASSUME NEW k \in Keys, NEW d, DescendFails(k, d) \/ LeafInsert(k, d) \/ LeafSplitLeft(k, d)
      PROVE  [Map!Next]_(Map!vars)
  <2>1. pc = "idle" /\ Len(asked) < MaxInserts /\ asked' = Append(asked, k)
    BY <1>7 DEF DescendFails, LeafInsert, LeafSplitLeft, AtLeaf, Call
  <2>2. /\ FirstPairs(asked', Len(asked)) = Past
        /\ FirstPairs(asked', Len(asked) + 1) = Past \cup {<<k, Len(asked)>>}
    BY <2>1, <1>0, <1>5, OneMorePair
  <2>3. Len(asked') = Len(asked) + 1 /\ Len(asked) \in 0 .. MaxInserts
    BY <2>1, <1>0
  <2>4. CASE DescendFails(k, d)
    <3>1. pc' = "idle" /\ UNCHANGED <<node, root, damaged>>
      BY <2>1, <2>4 DEF DescendFails, treeVars, callVars
    <3>2. Past' = Past \cup {<<k, Len(asked)>>}
      BY <2>2, <2>3, <3>1, <1>0 DEF Past, Ended
    <3>3. Held' = Held
      BY <2>1, <3>1, <1>4 DEF Held
    <3>4. damaged' = damaged
      BY <3>1
    <3>5. Map!Next
      BY <2>3, <3>2, <3>3, <3>4, PairStep
    <3> QED  BY <3>5
  <2>5. CASE LeafInsert(k, d)
    <3>1. pc' = "idle" /\ damaged' = damaged /\ acked' = acked \cup {<<k, Len(asked)>>}
      BY <2>1, <2>5 DEF LeafInsert, callVars
    <3>2. Past' = Past \cup {<<k, Len(asked)>>}
      BY <2>2, <2>3, <3>1, <1>0 DEF Past, Ended
    <3>3. CASE damaged
      <4>1. damaged'
        BY <3>3, <1>3
      <4>2. Map!Next
        BY <2>3, <3>2, <4>1, <1>2, DamageStep
      <4> QED  BY <4>2
    <3>4. CASE ~damaged
      <4>1. Held' = Held \cup {<<k, Len(asked)>>}
        BY <3>1, <3>4, <1>1, <1>2
      <4>2. Map!Next
        BY <2>3, <3>1, <3>2, <4>1, PairStep
      <4> QED  BY <4>2
    <3> QED  BY <3>3, <3>4
  <2>6. CASE LeafSplitLeft(k, d)
    <3>1. pc' = "leaf" /\ damaged' = damaged /\ before' = Stored
      BY <2>6 DEF LeafSplitLeft
    <3>2. Past' = Past
      <4>1. pc' # "idle" /\ Len(asked') - 1 = Len(asked)
        BY <2>3, <3>1, <1>0
      <4>2. Ended' = Len(asked)
        BY <4>1 DEF Ended
      <4> QED  BY <2>2, <4>2 DEF Past
    <3>3. Held' = Held
      BY <2>1, <3>1 DEF Held
    <3> QED  BY <3>1, <3>2, <3>3, SameStep
  <2> QED  BY <1>7, <2>4, <2>5, <2>6
<1>8. CASE SplitRight \/ InnerSplitLeft
  <2>1. UNCHANGED <<asked, before, damaged>> /\ pc # "idle" /\ pc' # "idle"
    BY <1>8 DEF SplitRight, InnerSplitLeft, pastVars
  <2>2. Past' = Past /\ Held' = Held
    BY <2>1 DEF Past, Ended, Held
  <2>3. damaged' = damaged
    BY <2>1
  <2> QED  BY <2>2, <2>3, SameStep
<1>9. CASE BackupBegin \/ BackupEnd \/ UNCHANGED vars
  <2>1. UNCHANGED <<node, root, asked, before, pc, damaged>>
    BY <1>9 DEF BackupBegin, BackupEnd, vars, treeVars, callVars, pastVars
  <2>2. Past' = Past /\ Held' = Held
    BY <2>1, <1>4 DEF Past, Ended, Held
  <2>3. damaged' = damaged
    BY <2>1
  <2> QED  BY <2>2, <2>3, SameStep
<1>10. CASE InnerInsert \/ NewRoot \/ NewRootFails
  <2>1. pc # "idle" /\ pc' = "idle" /\ asked' = asked
    BY <1>10 DEF InnerInsert, NewRoot, NewRootFails, Return
  <2>2. Past' = Past \cup {<<key, rid>>} /\ key \in Keys /\ rid \in 0 .. MaxInserts
    <3>1. Past' = FirstPairs(asked, Len(asked))
      BY <2>1, <1>0 DEF Past, Ended
    <3> QED  BY <2>1, <3>1, <1>6
  <2>3. CASE damaged'
    <3>1. Map!Next
      BY <2>2, <2>3, <1>2, DamageStep
    <3> QED  BY <3>1
  <2>4. CASE ~damaged'
    <3>1. InnerInsert \/ NewRoot
      BY <1>10, <2>4 DEF NewRootFails
    <3>2. damaged' = damaged /\ acked' = acked \cup {<<key, rid>>}
      BY <3>1 DEF InnerInsert, NewRoot, Return
    <3>3. Held' = Held \cup {<<key, rid>>}
      BY <2>4, <3>2, <1>1, <1>2
    <3>4. Map!Next
      BY <2>2, <3>2, <3>3, PairStep
    <3> QED  BY <3>4
  <2> QED  BY <2>3, <2>4
<1>11. CASE Crash
  <2>1. pc' = "idle" /\ UNCHANGED <<root, asked, acked>>
    BY <1>11 DEF Crash
  <2>2. Past' = FirstPairs(asked, Len(asked))
    BY <2>1, <1>0 DEF Past, Ended
  <2>3. CASE damaged'
    <3>1. Past' = Past \/ \E k \in Keys, r \in 0 .. MaxInserts : Past' = Past \cup {<<k, r>>}
      BY <2>2, <1>5, <1>6
    <3>2. Map!Next
      BY <2>3, <3>1, <1>2, DamageStep
    <3> QED  BY <3>2
  <2>4. CASE ~damaged'
    <3>1. PICK n \in 0 .. Len(images) : damaged' = (damaged \/ pc # "idle" \/ n > 0)
      BY <1>11 DEF Crash
    <3>2. ~(damaged \/ pc # "idle" \/ n > 0)
      BY <2>4, <3>1, Zenon
    <3>3. Past' = Past
      BY <2>2, <3>2, <1>5
    <3>4. Held' = acked' /\ Held = acked
      BY <2>4, <3>2, <1>1, <1>2
    <3>5. Held' = Held
      BY <2>1, <3>4
    <3>6. ~damaged' <=> ~damaged
      BY <2>4, <3>2
    <3> QED  BY <3>3, <3>5, <3>6, SameStep
  <2> QED  BY <2>3, <2>4
<1> QED  BY <1>7, <1>8, <1>9, <1>10, <1>11 DEF Next

\* As long as every slot holds its key the tree is an IndexMap: what the leaves
\* hold changes by whole insertions, whatever splits they take, and an insertion
\* cut short (a crash, a failed resize) or an image written back takes pairs
\* away but adds none that nobody inserted (BTree::insert, write_page).
THEOREM TreeIsIndexMap == Spec /\ []~garbled => RefinesIndexMap
<1>1. Init => Map!Init
  <2> SUFFICES ASSUME Init PROVE Map!Init
    OBVIOUS
  <2>1. pc = "idle" /\ asked = <<>> /\ damaged = FALSE /\ garbled = FALSE
    BY DEF Init
  <2>2. 1 .. Len(asked) - (IF pc = "idle" THEN 0 ELSE 1) = {}
    BY <2>1
  <2>3. Stored = {}
    <3>1. TreeInv /\ AskedInv /\ LeavesSound
      BY <2>1, IndexInvInit DEF IndexInv, SoundInv
    <3>2. 1 .. Len(asked) = {}
      BY <2>1
    <3> QED  BY <3>1, <3>2, StoredAsked
  <2> QED  BY <2>1, <2>2, <2>3 DEF Map!Init
<1>2. IndexInv /\ IndexInv' /\ MapInv /\ MapInv' /\ ~garbled /\ ~garbled' /\ [Next]_vars => [Map!Next]_(Map!vars)
  BY MapStep
<1> QED  BY <1>1, <1>2, IndexInvariant, MapInvariant, PTL DEF Spec, RefinesIndexMap, Map!Spec

\* The keys fill their slot, as those of every type but VARCHAR do.
FixedSize == \A k \in Keys : Len(k) = ks

\* Then the slot holds the key whatever was in it.
LEMMA FixedSizeFits ==
    ASSUME FixedSize, NEW k \in Keys, NEW slot
    PROVE  Real(Copied(k, slot)) = k
<1>1. k \in Seq(Nat \ {0}) /\ Len(k) = ks
  BY BTreeAssumption DEF FixedSize
<1>2. Copied(k, slot) = [i \in 1 .. ks |-> k[i]]
  BY <1>1 DEF Copied
<1>3. Copied(k, slot) = k
  BY <1>1, <1>2
<1> QED  BY <1>3, KeyIsReal

\* An index whose keys fill their slots, as on a column of any fixed-size type,
\* is an IndexMap without that condition: insert_into_leaf_node then copies over
\* all that the slot held.
THEOREM FixedSizeTreeIsIndexMap == FixedSize /\ Spec => RefinesIndexMap
<1>1. Init => ~garbled
  BY DEF Init
<1>2. FixedSize /\ ~garbled /\ [Next]_vars => ~garbled'
  <2> SUFFICES ASSUME FixedSize, ~garbled, [Next]_vars PROVE ~garbled'
    OBVIOUS
  <2>1. ASSUME NEW k \in Keys, NEW d, LeafInsert(k, d) \/ LeafSplitLeft(k, d) PROVE ~garbled'
    BY <2>1, FixedSizeFits DEF LeafInsert, LeafSplitLeft
  <2>2. ASSUME NEW k \in Keys, NEW d, DescendFails(k, d) PROVE ~garbled'
    BY <2>2 DEF DescendFails
  <2>3. CASE SplitRight \/ InnerInsert \/ InnerSplitLeft \/ NewRoot \/ NewRootFails \/ BackupBegin \/ BackupEnd \/ Crash
    BY <2>3 DEF SplitRight, InnerInsert, InnerSplitLeft, NewRoot, NewRootFails, BackupBegin, BackupEnd, Crash, pastVars
  <2>4. CASE UNCHANGED vars
    BY <2>4 DEF vars, pastVars
  <2> QED  BY <2>1, <2>2, <2>3, <2>4 DEF Next
<1>3. FixedSize => FixedSize'
  BY DEF FixedSize
<1> QED  BY <1>1, <1>2, <1>3, TreeIsIndexMap, PTL DEF Spec
=============================================================================
