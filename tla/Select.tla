------------------------------- MODULE Select -------------------------------
(***************************************************************************)
(* One SELECT while other sessions insert and flush: execute_select,       *)
(* execute_join, index_lookup and Table::read_rows.                        *)
(*                                                                         *)
(* The statement touches shared state in a few steps and holds no lock     *)
(* between them: flush_pending, the snapshot, the search for row ids and   *)
(* the read of the rows.  What it computes in between is part of a step.   *)
(* A table's batches wait in flush_queue_, are in flight between a         *)
(* flusher's pop and its page, and lie in the file in the order in which   *)
(* they were written.  Which versions a snapshot sees is Mvcc's subject;   *)
(* here it is the set live.  A string of the result is a form and the      *)
(* value that was formatted.                                               *)
(***************************************************************************)
EXTENDS Filter

CONSTANTS
    Names, Types,       \* names and types of the columns, by table
    Contents,           \* the sequences of rows a table may hold, by table
    Statements,
    MaxFlights          \* bound: batches other threads pop

VARIABLES
    stmt,           \* the statement
    rows,           \* the rows of each table: row id i is rows[t][i + 1]
    coming,         \* the batches not inserted yet, each a sequence of row ids
    queue,          \* flush_queue_
    flight,         \* the batches popped and not yet written
    pages,          \* pages_ and the file, in file order
    live,           \* the row ids the snapshot sees
    pc,             \* the statement's next step
    found,          \* the row ids it has chosen
    result,         \* its rows
    status,         \* "none", "ok", or how it failed
    flights,        \* counts against MaxFlights
    skewed,         \* ghost: in a scan a position was not the row id
    late,           \* ghost: a live row had no page when rows were chosen
    holed,          \* ghost: read_rows did not find a row
    missed          \* ghost: the index gave a part of the row ids of a key

tableVars == <<rows, coming, queue, flight, pages>>
ghostVars == <<skewed, late, holed, missed>>
vars == <<stmt, tableVars, live, pc, found, result, status, flights, ghostVars>>

Tab == {"left", "right"}
Joining == stmt.join # <<>>
Grouping == stmt.group # <<>> \/ \E i \in DOMAIN stmt.cols : stmt.cols[i].func # "none"

\* One batch, or two; the last is not inserted yet.
Cuts(n) == IF n = 0 THEN {<<>>}
           ELSE {<<Rows0(n)>>} \cup {<<SubSeq(Rows0(n), 1, k), SubSeq(Rows0(n), k + 1, n)>> : k \in 1 .. n - 1}

Init ==
    /\ stmt \in Statements
    /\ \E l \in Contents["left"], r \in (IF Joining THEN Contents["right"] ELSE {<<>>}) :
          /\ rows = [t \in Tab |-> IF t = "left" THEN l ELSE r]
          /\ \E x \in Cuts(Len(l)), y \in Cuts(Len(r)) :
                LET cut == [t \in Tab |-> IF t = "left" THEN x ELSE y]
                IN /\ queue = [t \in Tab |-> IF cut[t] = <<>> THEN <<>> ELSE Front(cut[t])]
                   /\ coming = [t \in Tab |-> IF cut[t] = <<>> THEN <<>> ELSE <<Last(cut[t])>>]
          /\ \E x \in SUBSET ToSet(Rows0(Len(l))), y \in SUBSET ToSet(Rows0(Len(r))) :
                live = [t \in Tab |-> IF t = "left" THEN x ELSE y]
    /\ pages = [t \in Tab |-> <<>>] /\ found = pages
    /\ flight = [t \in Tab |-> {}]
    /\ pc = "flush" /\ result = <<>> /\ status = "none" /\ flights = 0
    /\ skewed = FALSE /\ late = FALSE /\ holed = FALSE /\ missed = FALSE

-----------------------------------------------------------------------------
(* Other sessions and flushers.                                            *)

Insert(t) ==
    /\ pc \in {"flush", "snapshot"} /\ coming[t] # <<>>
    /\ queue' = [queue EXCEPT ![t] = Append(@, Head(coming[t]))]
    /\ coming' = [coming EXCEPT ![t] = Tail(@)]
    /\ UNCHANGED <<stmt, rows, flight, pages, live, pc, found, result, status, flights, ghostVars>>

Pop(t) ==
    /\ pc # "done" /\ queue[t] # <<>> /\ flights < MaxFlights
    /\ flight' = [flight EXCEPT ![t] = @ \cup {Head(queue[t])}]
    /\ queue' = [queue EXCEPT ![t] = Tail(@)]
    /\ flights' = flights + 1
    /\ UNCHANGED <<stmt, rows, coming, pages, live, pc, found, result, status, ghostVars>>

\* Mutant: the batch is written and stays with its flusher.
LandTwice(t) ==
    /\ pc # "done"
    /\ \E b \in flight[t] : pages' = [pages EXCEPT ![t] = Append(@, b)]
    /\ UNCHANGED <<stmt, rows, coming, queue, flight, live, pc, found, result, status, flights, ghostVars>>

Land(t) ==
    /\ pc # "done"
    /\ \E b \in flight[t] :
          /\ flight' = [flight EXCEPT ![t] = @ \ {b}]
          /\ pages' = [pages EXCEPT ![t] = Append(@, b)]
    /\ UNCHANGED <<stmt, rows, coming, queue, live, pc, found, result, status, flights, ghostVars>>

-----------------------------------------------------------------------------
(* The statement, up to its snapshot.                                      *)

\* Mutant: the newest batch is written first.
FlushPendingBack ==
    /\ pc = "flush"
    /\ pages' = [t \in Tab |-> pages[t] \o Reverse(queue[t])]
    /\ queue' = [t \in Tab |-> <<>>]
    /\ pc' = "snapshot"
    /\ UNCHANGED <<stmt, rows, coming, flight, live, found, result, status, flights, ghostVars>>

FlushPending ==
    /\ pc = "flush"
    /\ pages' = [t \in Tab |-> pages[t] \o queue[t]]
    /\ queue' = [t \in Tab |-> <<>>]
    /\ pc' = "snapshot"
    /\ UNCHANGED <<stmt, rows, coming, flight, live, found, result, status, flights, ghostVars>>

\* read_ts.  What is inserted from here on is not seen.
Snapshot ==
    /\ pc = "snapshot"
    /\ live' = [t \in Tab |-> live[t] \ ToSet(FlattenSeq(coming[t]))]
    /\ pc' = IF Joining THEN "join" ELSE "find"
    /\ UNCHANGED <<stmt, tableVars, found, result, status, flights, ghostVars>>

Fail(why) ==
    /\ pc' = "done" /\ status' = why
    /\ UNCHANGED <<stmt, tableVars, live, found, result, flights, ghostVars>>

-----------------------------------------------------------------------------
(* Which rows.                                                             *)

\* search_version_index: a row has its entry when its page is written.
Seen(t) == live[t] \cap ToSet(FlattenSeq(pages[t]))
Late(t) == live[t] # Seen(t)

Column(t, name) == IndexOf(Names[t], name)
Value(t, rid, c) == rows[t][rid + 1][c]

\* OFFSET and LIMIT; -1 stands for no LIMIT.
Slice(s) ==
    LET rest == IF stmt.offset >= Len(s) THEN <<>> ELSE SubSeq(s, stmt.offset + 1, Len(s))
    IN IF stmt.limit >= 0 /\ Len(rest) > stmt.limit THEN SubSeq(rest, 1, stmt.limit) ELSE rest

Chosen(rids) ==
    /\ found' = [found EXCEPT !["left"] = IF Grouping THEN rids ELSE Slice(rids)]
    /\ pc' = "read"

ByIndex == /\ stmt.order = "none" /\ stmt.where # <<>>
           /\ stmt.where[1].type = "pred" /\ stmt.where[1].op = "Eq"
           /\ stmt.index = stmt.where[1].col

\* The key index_lookup makes of a literal.
IndexKey(type, lit) ==
    CASE type = "Int32"   -> IF lit.kind = "int" THEN Int32(lit.v) ELSE 0
      [] Integral(type)   -> IF lit.kind = "int" THEN lit.v ELSE 0
      [] type = "Float64" -> IF lit.kind \in {"int", "dbl"} THEN lit.v ELSE 0
      [] type = "Bool"    -> IF lit.kind = "int" /\ lit.v # 0 THEN 1 ELSE 0
      [] type = "VarChar" -> lit.s

\* std::get<std::string> on another alternative.
NotAString == ByIndex /\ Types["left"][Column("left", stmt.index)] = "VarChar"
                      /\ stmt.where[1].lit.kind # "str"

IndexThrows ==
    /\ pc = "find" /\ NotAString
    /\ Fail("threw")

\* The inserted rows whose key the index would be asked for.
IndexHits ==
    LET c == Column("left", stmt.index)
        type == Types["left"][c]
        lit == stmt.where[1].lit
        inserted == DOMAIN rows["left"] \ {r + 1 : r \in ToSet(FlattenSeq(coming["left"]))}
    IN IF NotAString THEN {}
       ELSE {i - 1 : i \in {j \in inserted : rows["left"][j][c] = IndexKey(type, lit)}}

\* A search that finds something need not find all (BTree!SearchComplete);
\* what was inserted last comes first.
IndexFind ==
    /\ pc = "find" /\ ByIndex
    /\ \E hits \in SUBSET IndexHits \ {{}} :
          /\ Chosen(SetToSortSeq(hits \cap Seen("left"), >))
          /\ missed' = (hits # IndexHits)
    /\ late' = Late("left")
    /\ UNCHANGED <<stmt, tableVars, live, result, status, flights, skewed, holed>>

\* read_table_columns.
Scanned == FlattenSeq(pages["left"])
ScanColumn(c) ==
    LET type == Types["left"][c]
        page(b) == PageColumn(type, [i \in DOMAIN b |-> Value("left", b[i], c)])
    IN FoldLeft(LAMBDA col, b : JoinColumns(type, col, page(b)), NoColumn(type), pages["left"])

\* compare_column_values < 0.
Precedes(type, x, y) == IF type = "VarChar" THEN TextLess(x, y) ELSE x < y

\* What std::sort may make of the row ids: its order of equals is open.
Orders(rids, col) ==
    LET c == Column("left", stmt.by)
        before(x, y) == LET u == At(Types["left"][c], col, x)
                            v == At(Types["left"][c], col, y)
                        IN IF stmt.order = "asc" THEN Precedes(Types["left"][c], u, v)
                           ELSE Precedes(Types["left"][c], v, u)
    IN IF stmt.order = "none" \/ c = 0 THEN {rids}
       ELSE {q \in SetToSeqs(ToSet(rids)) :
                \A i, j \in DOMAIN q : i < j => ~before(q[j], q[i])}

\* Without an index on the column, or when the index finds nothing.
UseScan == pc = "find" /\ IF ByIndex THEN ~NotAString /\ IndexHits = {} ELSE TRUE

WhereResolves == IF stmt.where = <<>> THEN TRUE ELSE Resolves(Names["left"], stmt.where[1])

\* WHERE names a column the table does not have: kNotFound.
ScanFails ==
    /\ UseScan /\ ~WhereResolves
    /\ Fail("kNotFound")

\* The positions that match are used as row ids from here on.
ScanFind ==
    LET n == Len(Scanned)
        cols == [c \in DOMAIN Names["left"] |-> ScanColumn(c)]
    IN /\ UseScan /\ WhereResolves
       /\ \E cpu \in Cpus :
             LET matching == IF stmt.where = <<>> THEN Rows0(n)
                             ELSE Evaluate(cpu, Names["left"], Types["left"], cols, n, stmt.where[1])
                 visible == SelectSeq(matching, LAMBDA p : p \in Seen("left"))
                 c == Column("left", stmt.by)
             IN \E q \in Orders(visible, IF c = 0 THEN <<>> ELSE cols[c]) : Chosen(q)
       /\ skewed' = \E i \in 1 .. n : Scanned[i] # i - 1
       /\ late' = Late("left")
       /\ UNCHANGED <<stmt, tableVars, live, result, status, flights, holed, missed>>
-----------------------------------------------------------------------------
(* Their values.                                                           *)

\* Table::read_rows looks for the last page that starts at or before the row
\* by halving pages_, whose order is the file's.
PageOf(t, rid) ==
    LET n == Len(pages[t])
        cut[lo \in 0 .. n, hi \in 0 .. n] ==
            IF lo >= hi THEN lo
            ELSE LET mid == lo + (hi - lo) \div 2
                 IN IF rid < Head(pages[t][mid + 1]) THEN cut[lo, mid] ELSE cut[mid + 1, hi]
    IN cut[0, n]

InPages(t, rid) == PageOf(t, rid) # 0 /\ rid \in ToSet(pages[t][PageOf(t, rid)])

\* A row in no page is looked for in the batches that wait.
ReadHas(t, rid) == InPages(t, rid) \/ rid \in ToSet(FlattenSeq(queue[t]))

Zero(type) == IF type = "VarChar" THEN <<>> ELSE 0
ReadValue(t, rid, c) == IF ReadHas(t, rid) THEN Value(t, rid, c) ELSE Zero(Types[t][c])

\* value_to_string.
Formatted(type, v) ==
    CASE type \in {"Int32", "Int64"} -> <<"dec", v>>
      [] type = "Float64" -> <<"fix", v>>
      [] type = "Bool"    -> <<"word", v>>
      [] type = "VarChar" -> <<"text", v>>
Cell(t, rid, c) == Formatted(Types[t][c], ReadValue(t, rid, c))

\* The columns a statement prints; all of them for *.
Printed == IF stmt.cols = <<>> THEN Names["left"] ELSE [i \in DOMAIN stmt.cols |-> stmt.cols[i].col]

\* A column the table does not have is looked up at index -1.
Unknown == \E i \in DOMAIN stmt.cols : /\ Column("left", stmt.cols[i].col) = 0
                                       /\ ~Grouping \/ stmt.cols[i].func \notin {"none", "count"}

\* Some row's value was zero for want of a page.
Holes(t) == \E i \in DOMAIN found[t] : ~ReadHas(t, found[t][i])

Done(table) ==
    /\ pc' = "done" /\ status' = "ok" /\ result' = table
    /\ UNCHANGED <<stmt, tableVars, live, found, flights, skewed, late, missed>>

\* Nothing was chosen: no row, or a row of zeros for aggregates without groups.
ReadNothing ==
    /\ pc = "read" /\ found["left"] = <<>>
    /\ UNCHANGED holed
    /\ Done(IF Grouping /\ stmt.group = <<>> THEN <<[i \in DOMAIN stmt.cols |-> <<"dec", 0>>]>> ELSE <<>>)

ReadUnknown ==
    /\ pc = "read" /\ found["left"] # <<>> /\ Unknown
    /\ Fail("undefined")

ReadPlain ==
    LET line(rid) == [i \in DOMAIN Printed |-> Cell("left", rid, Column("left", Printed[i]))]
    IN /\ pc = "read" /\ found["left"] # <<>> /\ ~Unknown /\ ~Grouping
       /\ holed' = (holed \/ Holes("left"))
       /\ Done([i \in DOMAIN found["left"] |-> line(found["left"][i])])

-----------------------------------------------------------------------------
(* Aggregation.                                                            *)

\* std::stod; what does not begin with a number counts as 0.
Number(cell) == IF cell[1] \in {"dec", "fix"} THEN cell[2] ELSE 0

\* GROUP BY columns that exist; the others are passed over.
GroupColumns == SelectSeq([i \in DOMAIN stmt.group |-> Column("left", stmt.group[i])], LAMBDA c : c # 0)
GroupKey(rid) == [i \in DOMAIN GroupColumns |-> Cell("left", rid, GroupColumns[i])]

\* Mutant: the key is compared with the one before only.
GroupKeysRuns(rids) ==
    LET keys == [i \in DOMAIN rids |-> GroupKey(rids[i])]
    IN [j \in 1 .. Cardinality({i \in DOMAIN keys : i = 1 \/ keys[i] # keys[i - 1]}) |->
           keys[SetToSortSeq({i \in DOMAIN keys : i = 1 \/ keys[i] # keys[i - 1]}, <)[j]]]

\* group_keys_order: the keys as they first appear.
GroupKeys(rids) ==
    LET keys == [i \in DOMAIN rids |-> GroupKey(rids[i])]
        first == {i \in DOMAIN keys : \A j \in 1 .. i - 1 : keys[j] # keys[i]}
    IN [j \in 1 .. Cardinality(first) |-> keys[SetToSortSeq(first, <)[j]]]

\* What key.find('|') cuts off for the nth plain column: behind the last piece
\* comes an empty one, and the position wraps to the first.
Piece(key, n) ==
    LET at == (n % (Len(key) + 1)) + 1
    IN IF at <= Len(key) THEN key[at] ELSE <<"text", <<>> >>

\* AggState for the rows of a group.
SumOf(nums) == FoldLeft(LAMBDA x, y : x + y, 0, nums)
LeastOf(nums) == CHOOSE m \in ToSet(nums) : \A x \in ToSet(nums) : m <= x
MostOf(nums)  == CHOOSE m \in ToSet(nums) : \A x \in ToSet(nums) : x <= m

Aggregate(func, nums) ==
    CASE func = "count" -> <<"dec", Len(nums)>>
      [] func = "sum"   -> <<"fix", SumOf(nums)>>
      [] func = "avg"   -> <<"ratio", <<SumOf(nums), Len(nums)>>>>
      [] func = "min"   -> <<"fix", LeastOf(nums)>>
      [] func = "max"   -> <<"fix", MostOf(nums)>>

GroupLine(key, rids) ==
    LET of == SelectSeq(rids, LAMBDA r : GroupKey(r) = key)
        nums(name) == [i \in DOMAIN of |-> LET c == Column("left", name)
                                           IN IF c = 0 THEN 0 ELSE Number(Cell("left", of[i], c))]
        plain(i) == Cardinality({j \in 1 .. i - 1 : stmt.cols[j].func = "none"})
    IN [i \in DOMAIN stmt.cols |->
           IF stmt.cols[i].func = "none" THEN Piece(key, plain(i))
           ELSE Aggregate(stmt.cols[i].func, nums(stmt.cols[i].col))]

ReadGroups ==
    LET rids == found["left"]
        keys == GroupKeys(rids)
    IN /\ pc = "read" /\ rids # <<>> /\ ~Unknown /\ Grouping
       /\ holed' = (holed \/ Holes("left"))
       /\ Done(Slice([i \in DOMAIN keys |-> GroupLine(keys[i], rids)]))

-----------------------------------------------------------------------------
(* execute_join.                                                           *)

\* Where a column may be: its table is given or, without one, both are tried.
Places(ref) == {t \in Tab : ref.table \in {"", t} /\ Column(t, ref.col) # 0}

\* Status of the resolution of the printed columns and of ON.
JoinStatus ==
    LET refs == stmt.cols
        bad(i) == Cardinality(Places(refs[i])) # 1
        l == Places(stmt.join[1])  r == Places(stmt.join[2])
    IN IF \E i \in DOMAIN refs : bad(i)
       THEN LET i == CHOOSE j \in DOMAIN refs : bad(j) /\ \A m \in 1 .. j - 1 : ~bad(m)
            IN IF Places(refs[i]) = {} THEN "kNotFound" ELSE "kInvalidArgument"
       ELSE IF Cardinality(l) # 1 \/ Cardinality(r) # 1 THEN "kNotFound"
       ELSE IF l = r THEN "kInvalidArgument" ELSE "ok"

JoinFails ==
    /\ pc = "join" /\ JoinStatus # "ok"
    /\ Fail(JoinStatus)

\* Every row id below row_count that the snapshot sees.
JoinFind ==
    /\ pc = "join" /\ JoinStatus = "ok"
    /\ found' = [t \in Tab |-> Ascending(Seen(t))]
    /\ late' = \E t \in Tab : Late(t)
    /\ pc' = "joinleft"
    /\ UNCHANGED <<stmt, tableVars, live, result, status, flights, skewed, holed, missed>>

\* read_rows of the left table; its rows are kept as cells.
JoinReadLeft ==
    /\ pc = "joinleft"
    /\ result' = [i \in DOMAIN found["left"] |->
                     [c \in DOMAIN Names["left"] |-> Cell("left", found["left"][i], c)]]
    /\ holed' = (holed \/ Holes("left"))
    /\ pc' = "joinright"
    /\ UNCHANGED <<stmt, tableVars, live, found, status, flights, skewed, late, missed>>

JoinColumn(t) == Column(t, (CHOOSE ref \in ToSet(stmt.join) : Places(ref) = {t}).col)

JoinLine(l, r) ==
    IF stmt.cols = <<>> THEN l \o r
    ELSE [i \in DOMAIN stmt.cols |-> IF "left" \in Places(stmt.cols[i])
                                     THEN l[Column("left", stmt.cols[i].col)]
                                     ELSE r[Column("right", stmt.cols[i].col)]]

\* Mutant: find instead of equal_range.
JoinRangeFirst(order, key) ==
    LET all == SelectSeq(order, LAMBDA rid : Cell("right", rid, JoinColumn("right")) = key)
    IN SubSeq(all, 1, IF all = <<>> THEN 0 ELSE 1)

\* equal_range, for an order of the right table's rows.
JoinRange(order, key) == SelectSeq(order, LAMBDA rid : Cell("right", rid, JoinColumn("right")) = key)

\* read_rows of the right table, then the hash join on the formatted values.
\* The order of equals in the hash table is open.  WHERE, ORDER BY and GROUP BY
\* are not looked at.
JoinReadRight ==
    LET right(rid) == [c \in DOMAIN Names["right"] |-> Cell("right", rid, c)]
    IN /\ pc = "joinright"
       /\ holed' = (holed \/ Holes("right"))
       /\ \E order \in SetToSeqs(ToSet(found["right"])) :
             LET range(l) == JoinRange(order, l[JoinColumn("left")])
                 lines(l) == [i \in DOMAIN range(l) |-> JoinLine(l, right(range(l)[i]))]
             IN Done(Slice(FlattenSeq([k \in DOMAIN result |-> lines(result[k])])))

Next ==
    \/ \E t \in Tab : Insert(t) \/ Pop(t) \/ Land(t)
    \/ FlushPending \/ Snapshot
    \/ IndexThrows \/ IndexFind \/ ScanFails \/ ScanFind
    \/ ReadNothing \/ ReadUnknown \/ ReadPlain \/ ReadGroups
    \/ JoinFails \/ JoinFind \/ JoinReadLeft \/ JoinReadRight

Spec == Init /\ [][Next]_vars

-----------------------------------------------------------------------------
(* What the statement means.                                               *)

RefHolds(type, p, v) ==
    LET cmp(lit) == IF type = "VarChar" THEN lit.kind = "str" /\ ApplyStr(p.op, v, lit.s)
                    ELSE /\ lit.kind \in {"int", "dbl"}
                         /\ IF p.op = "Ne" THEN v # lit.v ELSE Holds(p.op, v, lit.v)
        same(lit) == IF type = "VarChar" THEN lit.kind = "str" /\ v = lit.s
                     ELSE lit.kind \in {"int", "dbl"} /\ v = lit.v
    IN IF p.op = "In" THEN \E lit \in p.list : same(lit) ELSE cmp(p.lit)

RefMatches(rid) ==
    LET ref[x \in Exprs] ==
            CASE x.type = "pred" -> LET c == Column("left", x.col)
                                    IN RefHolds(Types["left"][c], x, Value("left", rid, c))
              [] x.type = "and"  -> ref[x.left] /\ ref[x.right]
              [] x.type = "or"   -> ref[x.left] \/ ref[x.right]
    IN stmt.where = <<>> \/ ref[stmt.where[1]]

RefRids == {rid \in live["left"] : RefMatches(rid)}

\* The literals are of the column's own kind and in its range, and no double
\* is nearly the one it is compared with.
Fits(type, lit) ==
    \/ type = "Int32" /\ lit.kind = "int" /\ Int32(lit.v) = lit.v
    \/ type = "Int64" /\ lit.kind = "int"
    \/ type = "Float64" /\ lit.kind = "dbl"
    \/ type = "VarChar" /\ lit.kind = "str"

Typed ==
    stmt.where # <<>> =>
        \A p \in Predicates(stmt.where[1]) :
            LET c == Column("left", p.col)  type == Types["left"][c]
            IN /\ c # 0
               /\ \A lit \in (IF p.op = "In" THEN p.list ELSE {p.lit}) : Fits(type, lit)
               /\ p.op = "Ne" /\ type = "Float64" => \A i \in DOMAIN rows["left"] :
                     rows["left"][i][c] # p.lit.v => ApplyNe(type, rows["left"][i][c], p.lit.v)

\* The statement saw a complete file in row-id order, and all the index has.
Undisturbed == ~skewed /\ ~late /\ ~holed /\ ~missed
Answered == pc = "done" /\ status = "ok"

SliceLen(n) == LET rest == IF stmt.offset >= n THEN 0 ELSE n - stmt.offset
               IN IF stmt.limit >= 0 /\ stmt.limit < rest THEN stmt.limit ELSE rest
Occurrences(s, x) == Cardinality({i \in DOMAIN s : s[i] = x})

-----------------------------------------------------------------------------
(* Properties.                                                             *)

\* The types of the variables; every row is in exactly one place: not inserted,
\* in the queue, with a flusher, or on a page (flush_pending, write_batch_to_page).
TypeOK ==
    /\ stmt \in Statements
    /\ \A t \in Tab : /\ rows[t] \in Contents[t] \cup {<<>>}
                      /\ LET all == FlattenSeq(pages[t]) \o FlattenSeq(queue[t])
                                    \o FlattenSeq(coming[t]) \o FlattenSeq(SetToSeq(flight[t]))
                         IN Len(all) = Len(rows[t]) /\ ToSet(all) = ToSet(Rows0(Len(rows[t])))
                      /\ live[t] \subseteq ToSet(Rows0(Len(rows[t])))
    /\ pc \in {"flush", "snapshot", "find", "read", "join", "joinleft", "joinright", "done"}
    /\ status \in {"none", "ok", "kNotFound", "kInvalidArgument", "threw", "undefined"}
    /\ (pc = "done") <=> (status # "none")
    /\ flights \in 0 .. MaxFlights

\* A SELECT returns the rows that its snapshot sees and that match, each once,
\* in the order asked for and cut by OFFSET and LIMIT, whether it went by the
\* index or by a scan and whichever kernel compared, though rows are chosen in
\* one step and read in another.  Exceptions: literals that do not fit their
\* column, and a scan, an index or a read that other flushers disturbed.
SelectExact ==
    Answered /\ ~Joining /\ ~Grouping /\ Undisturbed /\ Typed =>
        LET c == Column("left", stmt.by)
            behind(x, y) == LET u == Value("left", x, c)  v == Value("left", y, c)
                            IN IF stmt.order = "asc" THEN Precedes(Types["left"][c], v, u)
                               ELSE Precedes(Types["left"][c], u, v)
            line(rid) == [i \in DOMAIN Printed |->
                             Formatted(Types["left"][Column("left", Printed[i])],
                                       Value("left", rid, Column("left", Printed[i])))]
        IN \E q \in SetToSeqs(RefRids) :
              /\ stmt.order # "none" /\ c # 0 => \A i, j \in DOMAIN q : i < j => ~behind(q[i], q[j])
              /\ result = [i \in 1 .. SliceLen(Len(q)) |-> line(q[i + stmt.offset])]

\* GROUP BY gives one line per distinct value of the grouping columns, over
\* exactly the rows a plain SELECT would return, with the aggregates of that
\* group.  Exceptions: those above, and plain columns that are not listed in
\* the order of GROUP BY, for which the line has the pieces of the key instead.
GroupsExact ==
    LET plain == SelectSeq(stmt.cols, LAMBDA x : x.func = "none")
        aligned == /\ Len(plain) <= Len(stmt.group)
                   /\ \A i \in DOMAIN plain : plain[i].col = stmt.group[i]
                   /\ \A i \in DOMAIN stmt.group : Column("left", stmt.group[i]) # 0
        val(rid, name) == Value("left", rid, Column("left", name))
        key(rid) == [i \in DOMAIN stmt.group |-> val(rid, stmt.group[i])]
        number(name, rid) == IF Column("left", name) = 0
                                \/ Types["left"][Column("left", name)] \in {"VarChar", "Bool"}
                             THEN 0 ELSE val(rid, name)
        line(G) == [i \in DOMAIN stmt.cols |->
                       LET x == stmt.cols[i]  some == CHOOSE rid \in G : TRUE
                           ids == SetToSeq(G)
                       IN IF x.func = "none"
                          THEN Formatted(Types["left"][Column("left", x.col)], val(some, x.col))
                          ELSE Aggregate(x.func, [j \in DOMAIN ids |-> number(x.col, ids[j])])]
        classes == {{y \in RefRids : key(y) = key(x)} : x \in RefRids}
    IN Answered /\ ~Joining /\ Grouping /\ Undisturbed /\ Typed /\ aligned /\ RefRids # {} =>
          /\ Len(result) = SliceLen(Cardinality(classes))
          /\ \A i \in DOMAIN result :
                Occurrences(result, result[i]) <= Cardinality({G \in classes : line(G) = result[i]})

\* A join returns every pair of visible rows whose join columns are equal, once
\* each, though it reads the two tables in two steps.  Exceptions: columns of
\* two types, which are compared by their spelling, and a WHERE clause.
JoinExact ==
    LET lc == JoinColumn("left")  rc == JoinColumn("right")
        cells(t, rid) == [c \in DOMAIN Names[t] |-> Formatted(Types[t][c], Value(t, rid, c))]
        pairs == {x \in live["left"] \X live["right"] :
                     Value("left", x[1], lc) = Value("right", x[2], rc)}
        line(x) == JoinLine(cells("left", x[1]), cells("right", x[2]))
    IN Answered /\ Joining /\ Undisturbed /\ stmt.where = <<>> /\ Types["left"][lc] = Types["right"][rc] =>
          /\ Len(result) = SliceLen(Cardinality(pairs))
          /\ \A i \in DOMAIN result :
                Occurrences(result, result[i]) <= Cardinality({x \in pairs : line(x) = result[i]})

\* Only a flusher of another thread can disturb a statement: as long as no
\* other thread takes a batch out of the queue, a scan's positions are the row
\* ids and every chosen row has its value.
DisturbedByFlusher == flights = 0 => ~skewed /\ ~holed
=============================================================================
