-------------------------------- MODULE BTree --------------------------------
(***************************************************************************)
(* The B-tree behind CREATE INDEX (index/btree.cpp), one file of nodes.    *)
(*                                                                         *)
(* An insertion holds rw_mutex_ exclusively; its steps are one action each *)
(* because the process may end, or the file may fail to grow, between two  *)
(* of them.  The file is mapped: what a dead process has copied into it    *)
(* stays; the copy of one node, and a new root with the header that names  *)
(* it, are one step.  A search holds the mutex shared and is a state       *)
(* function.                                                               *)
(*                                                                         *)
(* Keys are strings of bytes.  A slot is slot_key_size_ bytes wide and     *)
(* zero-padded; a key of a fixed-size type fills it.  Pages are numbered   *)
(* instead of addressed, so that the file's size is the next page.         *)
(***************************************************************************)
EXTENDS Integers, Sequences, FiniteSets, SequencesExt

CONSTANTS Keys,           \* the keys statements insert and search
          ks,             \* slot_key_size_
          kMaxKeys,       \* entries of a node (31)
          MaxInserts,     \* bound: insertions
          MaxFaults       \* bound: crashes, failed resizes and backups together

ASSUME BTreeAssumption ==
    /\ ks \in Nat \ {0} /\ kMaxKeys \in Nat /\ kMaxKeys >= 2
    /\ MaxInserts \in Nat /\ MaxFaults \in Nat
    /\ Keys \subseteq Seq(Nat \ {0})

VARIABLES
    node,       \* the file: its nodes by page
    root,       \* root_off_, in memory and in the header
    mapped,     \* file_ is mapped: its data_ and size_ are set
    pc,         \* where the insertion is, "idle" without one
    key, rid,   \* its arguments
    path,       \* the pages of the insert_into_subtree calls under way
    comb,       \* combined_keys and combined_vals of a node being split
    split,      \* the last of split_keys and split_pages
    backup,     \* Database::backup_in_progress_
    logged,     \* Database::logged_pages_
    images,     \* the full-page images in the log
    asked,      \* ghost: the keys of the insertions begun; row ids asked up
    acked,      \* ghost: the pairs whose insertion returned kOk
    before,     \* ghost: the pairs in the tree when the insertion began
    damaged,    \* ghost: an insertion was cut short, or an image written back
    garbled,    \* ghost: a slot holds something else than its key
    faults      \* crashes, failed resizes and backups so far

treeVars == <<node, root, mapped>>
callVars == <<pc, key, rid, path, comb, split>>
fpwVars  == <<backup, logged, images>>
pastVars == <<acked, before, damaged, garbled>>
vars == <<treeVars, callVars, fpwVars, asked, pastVars, faults>>

NoComb  == [keys |-> <<>>, vals |-> <<>>]
NoSplit == [sep |-> <<>>, page |-> 0]
Leaf(keys, vals) == [leaf |-> TRUE, first |-> 0, keys |-> keys, vals |-> vals]
Inner(first, keys, vals) == [leaf |-> FALSE, first |-> first, keys |-> keys, vals |-> vals]

\* BTree::create
Init ==
    /\ node = <<Leaf(<<>>, <<>>)>> /\ root = 1 /\ mapped = TRUE
    /\ pc = "idle" /\ key = <<>> /\ rid = 0 /\ path = <<>>
    /\ comb = NoComb /\ split = NoSplit
    /\ backup = FALSE /\ logged = {} /\ images = <<>>
    /\ asked = <<>>
    /\ acked = {} /\ before = {} /\ damaged = FALSE /\ garbled = FALSE
    /\ faults = 0

-----------------------------------------------------------------------------
(* Keys and slots.                                                         *)

\* real_len: up to the first zero byte, or all of it.
Real(s) == IF \E i \in DOMAIN s : s[i] = 0
           THEN SubSeq(s, 1, SelectInSeq(s, LAMBDA b : b = 0) - 1) ELSE s

\* compare_keys < 0 and == 0.
Below(a, b) ==
    LET x == Real(a)  y == Real(b)
    IN \E i \in 1 .. Len(y) :
          /\ \A j \in 1 .. i - 1 : j <= Len(x) /\ x[j] = y[j]
          /\ i > Len(x) \/ x[i] < y[i]
Same(a, b) == Real(a) = Real(b)

\* memcpy of min(key_len, ks) bytes into a slot: the rest of it stays.
Copied(k, slot) == [i \in 1 .. ks |-> IF i <= Len(k) THEN k[i] ELSE slot[i]]
EmptySlot == [i \in 1 .. ks |-> 0]

\* The loops that halve lo .. hi, from 0 .. n: they end at a mid in same, and
\* go on to the left of a mid in left.
Halve(cut, lo, hi, left, same) ==
    IF lo >= hi THEN [at |-> lo, hit |-> FALSE]
    ELSE LET mid == lo + (hi - lo) \div 2
         IN IF mid \in same THEN [at |-> mid, hit |-> TRUE]
            ELSE IF mid \in left THEN cut[<<lo, mid>>] ELSE cut[<<mid + 1, hi>>]

Bisect(n, left, same) ==
    LET cut[r \in (0 .. n) \X (0 .. n)] == Halve(cut, r[1], r[2], left, same)
    IN cut[<<0, n>>]

\* The entries, counted from 0, whose key is above k, and those not below it.
Above(nd, k) == {m \in 0 .. Len(nd.keys) - 1 : Below(k, nd.keys[m + 1])}
NotBelow(nd, k) == {m \in 0 .. Len(nd.keys) - 1 : ~Below(nd.keys[m + 1], k)}
Equals(nd, k) == {m \in 0 .. Len(nd.keys) - 1 : Same(k, nd.keys[m + 1])}

\* find_child_binary: a key equal to a separator belongs to its right.
FindChild(nd, k) == Bisect(Len(nd.keys), Above(nd, k), {}).at

Child(nd, k) == LET ci == FindChild(nd, k) IN IF ci = 0 THEN nd.first ELSE nd.vals[ci]

\* Where insert_into_leaf_node puts a key: before its equals.
LeafPos(nd, k) == Bisect(Len(nd.keys), NotBelow(nd, k), {}).at

\* search_key_binary: the first of the run of equals it hits, -1 without any.
SearchKey(nd, k) ==
    LET end == Bisect(Len(nd.keys), Above(nd, k), Equals(nd, k))
    IN IF end.hit THEN CHOOSE i \in 0 .. end.at : /\ i .. end.at \subseteq Equals(nd, k)
                                                  /\ i - 1 \notin Equals(nd, k)
       ELSE -1

-----------------------------------------------------------------------------
(* BTree::search.                                                          *)

\* Mutant: everything from the first hit to the end of the leaf.
LeafHitsTail(nd, k) ==
    LET idx == SearchKey(nd, k)
    IN IF idx < 0 THEN {} ELSE {nd.vals[i] : i \in idx + 1 .. Len(nd.keys)}

\* The row ids of the run of equals in a leaf.
LeafHits(nd, k) ==
    LET idx == SearchKey(nd, k)
    IN IF idx < 0 THEN {}
       ELSE {nd.vals[i] : i \in {j \in idx + 1 .. Len(nd.keys) :
                                    \A m \in idx + 1 .. j : Same(k, nd.keys[m])}}

\* read_node: kCorruptedData behind the end of what is mapped.
Readable(p) == mapped /\ p \in DOMAIN node

\* The pages search visits, up to an unreadable one.
Descent(k) ==
    LET walk[p \in Nat] ==
            IF ~Readable(p) THEN <<p>>
            ELSE IF node[p].leaf THEN <<p>> ELSE <<p>> \o walk[Child(node[p], k)]
    IN walk[root]

\* The row ids, {} standing for kNotFound and for kCorruptedData.
Search(k) ==
    LET p == Last(Descent(k)) IN IF Readable(p) THEN LeafHits(node[p], k) ELSE {}

-----------------------------------------------------------------------------
(* BTree::insert.                                                          *)

Pages == DOMAIN node
MayFail == faults < MaxFaults

\* The pages that can be reached from the root, and the pairs in their leaves.
Kids(p) == IF node[p].leaf THEN {} ELSE ({node[p].first} \cup Range(node[p].vals)) \cap Pages

Reachable ==
    LET grow[n \in 0 .. Len(node)] ==
            IF n = 0 THEN {root}
            ELSE UNION {g \cup UNION {Kids(p) : p \in g} : g \in {grow[n - 1]}}
    IN grow[Len(node)]

PairsOf(nd) == {<<Real(nd.keys[i]), nd.vals[i]>> : i \in DOMAIN nd.keys}
Stored == UNION {PairsOf(node[p]) : p \in {q \in Reachable : node[q].leaf}}

Top == Last(path)

Return(ok) ==
    /\ pc' = "idle" /\ key' = <<>> /\ rid' = 0 /\ path' = <<>>
    /\ comb' = NoComb /\ split' = NoSplit
    /\ acked' = IF ok THEN acked \cup {<<key, rid>>} ELSE acked
    /\ before' = {}

\* A node is overwritten in place: Database::fpw_callback logs it first, once
\* per backup.  Only Database::open gives a tree that callback; for one that
\* CREATE INDEX or VACUUM has built in this process a backup changes nothing,
\* and its behaviours are those without BackupBegin.
Overwrite(p, nd) ==
    /\ node' = [node EXCEPT ![p] = nd]
    /\ IF backup /\ p \notin logged
       THEN /\ logged' = logged \cup {p}
            /\ images' = Append(images, [page |-> p, old |-> node[p]])
       ELSE UNCHANGED <<logged, images>>
    /\ UNCHANGED backup

\* A statement calls insert(), which walks down to a leaf; that only reads, so
\* it is one step with the first write.
Call(k) ==
    /\ pc = "idle" /\ Len(asked) < MaxInserts
    /\ asked' = Append(asked, k)

\* A page read_node refuses: kCorruptedData, nothing was changed.
DescendFails(k, d) ==
    /\ Call(k)
    /\ ~Readable(Last(d))
    /\ UNCHANGED <<treeVars, callVars, fpwVars, acked, before, damaged, garbled, faults>>

AtLeaf(k, d) ==
    /\ Call(k)
    /\ Readable(Last(d))

Full(p) == Len(node[p].keys) >= kMaxKeys

\* The slot after memmove still holds the key that was there.
OldSlot(nd, pos) == IF pos < Len(nd.keys) THEN nd.keys[pos + 1] ELSE EmptySlot

\* Mutant: the leaf takes one entry more than its slots.
LeafInsertOver(k, d) ==
    LET p == Last(d)
        pos == LeafPos(node[p], k)
        slot == Copied(k, OldSlot(node[p], pos))
    IN /\ AtLeaf(k, d) /\ Len(node[p].keys) <= kMaxKeys
       /\ Overwrite(p, Leaf(InsertAt(node[p].keys, pos + 1, slot),
                            InsertAt(node[p].vals, pos + 1, Len(asked))))
       /\ garbled' = (garbled \/ Real(slot) # k)
       /\ acked' = acked \cup {<<k, Len(asked)>>}
       /\ UNCHANGED <<root, mapped, callVars, before, damaged, faults>>

\* insert_into_leaf_node, a slot is free: no caller has anything to add.
LeafInsert(k, d) ==
    LET p == Last(d)
        pos == LeafPos(node[p], k)
        slot == Copied(k, OldSlot(node[p], pos))
    IN /\ AtLeaf(k, d) /\ ~Full(p)
       /\ Overwrite(p, Leaf(InsertAt(node[p].keys, pos + 1, slot),
                            InsertAt(node[p].vals, pos + 1, Len(asked))))
       /\ garbled' = (garbled \/ Real(slot) # k)
       /\ acked' = acked \cup {<<k, Len(asked)>>}
       /\ UNCHANGED <<root, mapped, callVars, before, damaged, faults>>

Half == Len(comb.keys) \div 2

\* insert_into_leaf_node, the leaf is full: the combined arrays, whose slots
\* are zero before the copy, and the left half in place.
LeafSplitLeft(k, d) ==
    LET p == Last(d)
        pos == LeafPos(node[p], k)
        slot == Copied(k, EmptySlot)
        keys == InsertAt(node[p].keys, pos + 1, slot)
        vals == InsertAt(node[p].vals, pos + 1, Len(asked))
        half == Len(keys) \div 2
    IN /\ AtLeaf(k, d) /\ Full(p)
       /\ key' = k /\ rid' = Len(asked) /\ path' = d
       /\ comb' = [keys |-> keys, vals |-> vals]
       /\ Overwrite(p, Leaf(SubSeq(keys, 1, half), SubSeq(vals, 1, half)))
       /\ garbled' = (garbled \/ Real(slot) # k)
       /\ pc' = "leaf" /\ before' = Stored
       /\ UNCHANGED <<root, mapped, split, acked, damaged, faults>>

Tail2(s, from) == SubSeq(s, from, Len(s))

\* Mutant: the entry that gives the separator is in neither half.
LeafRightShort == Leaf(Tail2(comb.keys, Half + 2), Tail2(comb.vals, Half + 2))

LeafRight == Leaf(Tail2(comb.keys, Half + 1), Tail2(comb.vals, Half + 1))
InnerRight == Inner(comb.vals[Half + 1], Tail2(comb.keys, Half + 2), Tail2(comb.vals, Half + 2))

\* Mutant: the last key of the left half separates.
SeparatorLow == comb.keys[Half]

Separator == comb.keys[Half + 1]

\* The right half in a new page at the end of the file, which the caller links.
\* When resize fails here it reports so in its Status, which nobody reads, and
\* has unmapped the file: the copy that follows faults, which is Crash.
SplitRight ==
    /\ pc \in {"leaf", "inner"}
    /\ node' = Append(node, IF pc = "leaf" THEN LeafRight ELSE InnerRight)
    /\ split' = [sep |-> Separator, page |-> Len(node) + 1]
    /\ path' = Front(path) /\ comb' = NoComb
    /\ pc' = "link"
    /\ UNCHANGED <<root, mapped, key, rid, fpwVars, asked, pastVars, faults>>

WithSplit(nd) ==
    LET ci == FindChild(nd, key)
    IN [keys |-> InsertAt(nd.keys, ci + 1, split.sep),
        vals |-> InsertAt(nd.vals, ci + 1, split.page)]

\* Back in insert_into_subtree: the inner node has a free slot.
InnerInsert ==
    LET new == WithSplit(node[Top])
    IN /\ pc = "link" /\ path # <<>> /\ ~Full(Top)
       /\ Overwrite(Top, Inner(node[Top].first, new.keys, new.vals))
       /\ Return(TRUE)
       /\ UNCHANGED <<root, mapped, asked, damaged, garbled, faults>>

\* The inner node is full; its middle key moves up.
InnerSplitLeft ==
    LET new == WithSplit(node[Top])  half == Len(new.keys) \div 2
    IN /\ pc = "link" /\ path # <<>> /\ Full(Top)
       /\ comb' = new
       /\ Overwrite(Top, Inner(node[Top].first, SubSeq(new.keys, 1, half), SubSeq(new.vals, 1, half)))
       /\ split' = NoSplit
       /\ pc' = "inner"
       /\ UNCHANGED <<root, mapped, key, rid, path, asked, pastVars, faults>>

\* insert(): a new root above the two halves, then the header.
NewRoot ==
    /\ pc = "link" /\ path = <<>>
    /\ node' = Append(node, Inner(root, <<split.sep>>, <<split.page>>))
    /\ root' = Len(node) + 1
    /\ Return(TRUE)
    /\ UNCHANGED <<mapped, fpwVars, asked, damaged, garbled, faults>>

\* Here the Status of resize is returned: the right half has no parent, and the
\* file stays unmapped.  (A page that a failed mmap has left at the end of the
\* file is linked by nobody and not counted.)
NewRootFails ==
    /\ pc = "link" /\ path = <<>> /\ MayFail
    /\ faults' = faults + 1
    /\ damaged' = TRUE
    /\ mapped' = FALSE
    /\ Return(FALSE)
    /\ UNCHANGED <<node, root, fpwVars, asked, garbled>>

-----------------------------------------------------------------------------
(* Backups and the end of the process.                                     *)

BackupBegin ==
    /\ pc = "idle" /\ ~backup /\ MayFail
    /\ backup' = TRUE /\ logged' = {}
    /\ faults' = faults + 1
    /\ UNCHANGED <<treeVars, callVars, images, asked, pastVars>>

BackupEnd ==
    /\ pc = "idle" /\ backup
    /\ backup' = FALSE
    /\ UNCHANGED <<treeVars, callVars, logged, images, asked, pastVars, faults>>

\* write_page, for the first n images of the log in their order.
Restored(n) ==
    LET of(p) == {i \in 1 .. n : images[i].page = p}
    IN [p \in Pages |-> IF of(p) = {} THEN node[p]
                        ELSE images[CHOOSE i \in of(p) : \A j \in of(p) : j <= i].old]

\* The process ends and Database::open opens the file again.  The images that
\* reached the log's file are newer than the last checkpoint, or skipped.
Crash ==
    /\ MayFail
    /\ \E n \in 0 .. Len(images) :
          /\ node' = Restored(n)
          /\ damaged' = (damaged \/ pc # "idle" \/ n > 0)
    /\ mapped' = TRUE
    /\ pc' = "idle" /\ key' = <<>> /\ rid' = 0 /\ path' = <<>>
    /\ comb' = NoComb /\ split' = NoSplit /\ before' = {}
    /\ backup' = FALSE /\ logged' = {} /\ images' = <<>>
    /\ faults' = faults + 1
    /\ UNCHANGED <<root, asked, acked, garbled>>

Next ==
    \/ \E k \in Keys : \E d \in {Descent(k)} :
          \/ DescendFails(k, d) \/ LeafInsert(k, d) \/ LeafSplitLeft(k, d)
    \/ SplitRight \/ InnerInsert \/ InnerSplitLeft \/ NewRoot \/ NewRootFails
    \/ BackupBegin \/ BackupEnd \/ Crash

Spec == Init /\ [][Next]_vars

-----------------------------------------------------------------------------
(* Properties.                                                             *)

Slot == [1 .. ks -> Nat]

\* The types of the variables; no node holds more than kMaxKeys entries, no
\* inner node is empty, and only a split under way has combined arrays or a
\* half to link (insert_into_leaf_node, insert_into_subtree).
TypeOK ==
    /\ \A p \in Pages : /\ node[p].leaf \in BOOLEAN /\ node[p].first \in 0 .. Len(node) + 1
                        /\ Len(node[p].keys) <= kMaxKeys
                        /\ Len(node[p].vals) = Len(node[p].keys)
                        /\ Range(node[p].keys) \subseteq Slot
                        /\ ~node[p].leaf => node[p].keys # <<>>
    /\ root \in Pages /\ mapped \in BOOLEAN /\ Range(path) \subseteq Pages /\ Len(asked) \in 0 .. MaxInserts
    /\ pc \in {"idle", "leaf", "inner", "link"}
    /\ (pc \in {"leaf", "inner"}) <=> (comb # NoComb)
    /\ (pc = "link") <=> (split # NoSplit)
    /\ images # <<>> => faults > 0

Separators == UNION {Range(node[p].keys) : p \in {q \in Pages : ~node[q].leaf}}
RowsOf(k) == {a[2] : a \in {b \in acked : b[1] = k}}

\* A search never returns a row id that was not inserted under that very key,
\* whatever crashes, failed resizes and restored page images have done to the
\* tree: execute_select does not test the predicate again on what it gets.
\* Where a slot could not hold its key, nothing is claimed.
SearchSound ==
    pc = "idle" /\ ~garbled =>
        \A k \in Keys : \A r \in Search(k) : r < Len(asked) /\ asked[r + 1] = k

\* As long as no insertion was cut short a search returns every row inserted
\* under its key; only for a key that separates two nodes it may miss those to
\* the left, and even then it finds one, so that the caller is not sent to the
\* full scan.  Exceptions: damage, and a slot that does not hold its key.
SearchComplete ==
    pc = "idle" /\ ~damaged /\ ~garbled =>
        \A k \in Keys :
            /\ RowsOf(k) # {} => Search(k) # {}
            /\ Copied(k, EmptySlot) \notin Separators => Search(k) = RowsOf(k)

\* The tree is an IndexMap of the pairs its leaves hold, seen between two
\* insertions.
Map == INSTANCE IndexMap WITH
           RowIds <- 0 .. MaxInserts,
           pairs  <- IF pc = "idle" THEN Stored ELSE before,
           asked  <- {<<asked[i], i - 1>> : i \in 1 .. Len(asked) - (IF pc = "idle" THEN 0 ELSE 1)},
           intact <- ~damaged

RefinesIndexMap == Map!Spec
=============================================================================
