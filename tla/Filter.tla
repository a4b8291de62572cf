------------------------------- MODULE Filter -------------------------------
(***************************************************************************)
(* Columns, and WHERE evaluated on them: Executor::read_table_columns,     *)
(* Filter::evaluate and the vector kernels of query/simd_ops.hpp.          *)
(*                                                                         *)
(* A value is a number, and for a VARCHAR column the sequence of its bytes;*)
(* a literal says which alternative of Value it is, v or s.  A fixed-size  *)
(* column is the sequence of its values; a VARCHAR column is the array of  *)
(* end offsets and the bytes they cut.  Rows are counted from 0.           *)
(***************************************************************************)
EXTENDS Integers, Sequences, FiniteSets, SequencesExt

CONSTANTS Cpus,         \* the kernels a machine may choose
          Lane64,       \* 8-byte lanes of an AVX2 register (4)
          Int32Half,    \* an INT32 is -Int32Half .. Int32Half - 1 (2^31)
          Near,         \* doubles closer than this are not unequal (1e-12)
          Exprs         \* the WHERE expressions and their subexpressions

ASSUME FilterAssumption ==
    /\ Cpus \subseteq {"scalar", "avx2", "avx512"} /\ Cpus # {}
    /\ Lane64 \in Nat \ {0} /\ Int32Half \in Nat \ {0} /\ Near \in Nat \ {0}

\* std::string's and memcmp's order.
TextLess(x, y) ==
    \E i \in 1 .. Len(y) :
       /\ \A j \in 1 .. i - 1 : j <= Len(x) /\ x[j] = y[j]
       /\ i > Len(x) \/ x[i] < y[i]

-----------------------------------------------------------------------------
(* Columns.                                                                *)

Rows0(n) == [i \in 1 .. n |-> i - 1]

\* A batch's column as write_batch_page lays it out.
PageColumn(type, vals) ==
    IF type = "VarChar"
    THEN [offs |-> [i \in DOMAIN vals |-> Len(FlattenSeq(SubSeq(vals, 1, i)))],
          blob |-> FlattenSeq(vals)]
    ELSE vals

\* read_table_columns: a page's column behind those before it.
JoinColumns(type, a, b) ==
    IF type = "VarChar"
    THEN LET adj == IF a.offs = <<>> THEN 0 ELSE Last(a.offs)
         IN [offs |-> a.offs \o [i \in DOMAIN b.offs |-> b.offs[i] + adj], blob |-> a.blob \o b.blob]
    ELSE a \o b

NoColumn(type) == IF type = "VarChar" THEN [offs |-> <<>>, blob |-> <<>>] ELSE <<>>

\* The value of a row.
At(type, col, i) ==
    IF type = "VarChar"
    THEN SubSeq(col.blob, (IF i = 0 THEN 0 ELSE col.offs[i]) + 1, col.offs[i + 1])
    ELSE col[i + 1]

-----------------------------------------------------------------------------
(* simd::filter.                                                           *)

Holds(op, v, val) ==
    CASE op = "Eq" -> v = val
      [] op = "Gt" -> v > val
      [] op = "Lt" -> v < val
      [] op = "Ge" -> v >= val
      [] op = "Le" -> v <= val

\* filter_scalar, and the loop that ends the other two.
FilterScalar(arr, from, val, op) ==
    SelectSeq([i \in 1 .. Len(arr) - from |-> from + i - 1],
              LAMBDA i : Holds(op, arr[i + 1], val))

\* The mask of one register of data.  AVX2 has no >= and <= for integers: it
\* inverts the comparison with the operands exchanged.
VectorMask(cpu, type, data, val, op) ==
    {b \in 0 .. Len(data) - 1 :
        IF cpu = "avx2" /\ type # "Float64" /\ op \in {"Ge", "Le"}
        THEN ~ (IF op = "Ge" THEN val > data[b + 1] ELSE data[b + 1] > val)
        ELSE Holds(op, data[b + 1], val)}

LanesOf(cpu, type) ==
    Lane64 * (IF cpu = "avx512" THEN 2 ELSE 1) * (IF type = "Int32" THEN 2 ELSE 1)

\* Mutant: the rows behind the last full register are forgotten.
FilterVectorOnly(cpu, type, arr, val, op) ==
    LET w == LanesOf(cpu, type)
        chunk(c) == SelectSeq([b \in 1 .. w |-> (c - 1) * w + b - 1],
                       LAMBDA i : i - (c - 1) * w \in
                          VectorMask(cpu, type, SubSeq(arr, (c - 1) * w + 1, c * w), val, op))
    IN IF cpu = "scalar" THEN FilterScalar(arr, 0, val, op)
       ELSE FlattenSeq([c \in 1 .. Len(arr) \div w |-> chunk(c)])

\* filter: whole registers, then the rest one by one.
SimdFilter(cpu, type, arr, val, op) ==
    LET w == LanesOf(cpu, type)
        full == Len(arr) \div w
        chunk(c) == SelectSeq([b \in 1 .. w |-> (c - 1) * w + b - 1],
                       LAMBDA i : i - (c - 1) * w \in
                          VectorMask(cpu, type, SubSeq(arr, (c - 1) * w + 1, c * w), val, op))
    IN IF cpu = "scalar" THEN FilterScalar(arr, 0, val, op)
       ELSE FlattenSeq([c \in 1 .. full |-> chunk(c)]) \o FilterScalar(arr, full * w, val, op)

-----------------------------------------------------------------------------
(* Filter::evaluate.                                                       *)

\* static_cast<int32_t>.
Int32(v) == ((v + Int32Half) % (2 * Int32Half)) - Int32Half

Integral(type) == type \in {"Int64", "Timestamp"}

\* Comparisons of a VARCHAR column, and != of any other.
ApplyStr(op, v, val) ==
    CASE op = "Eq" -> v = val
      [] op = "Ne" -> v # val
      [] op = "Lt" -> TextLess(v, val)
      [] op = "Gt" -> TextLess(val, v)
      [] op = "Le" -> ~TextLess(val, v)
      [] op = "Ge" -> ~TextLess(v, val)
ApplyNe(type, v, val) ==
    IF type = "Float64" THEN v - val >= Near \/ val - v >= Near ELSE v # val

\* The literals of an IN list that are of the column's own alternative.
InSet(type, list) ==
    CASE Integral(type)     -> {l.v : l \in {x \in list : x.kind = "int"}}
      [] type = "Int32"     -> {Int32(l.v) : l \in {x \in list : x.kind = "int"}}
      [] type = "Float64"   -> {l.v : l \in {x \in list : x.kind = "dbl"}}
      [] type = "VarChar"   -> {l.s : l \in {x \in list : x.kind = "str"}}
      [] OTHER              -> {}

\* A literal of another alternative matches nothing, and a BOOL column is
\* never matched.
EvaluatePredicate(cpu, type, col, n, p) ==
    LET pick(Test(_)) == SelectSeq(Rows0(n), LAMBDA i : Test(At(type, col, i)))
        val == IF type = "Int32" THEN Int32(p.lit.v) ELSE p.lit.v
        suits == \/ p.lit.kind = "int" /\ (Integral(type) \/ type = "Int32")
                 \/ p.lit.kind = "dbl" /\ type = "Float64"
    IN CASE p.op = "In" -> pick(LAMBDA v : v \in InSet(type, p.list))
         [] p.op # "In" /\ p.lit.kind = "str" /\ type = "VarChar" ->
               pick(LAMBDA v : ApplyStr(p.op, v, p.lit.s))
         [] p.op = "Ne" /\ suits -> pick(LAMBDA v : ApplyNe(type, v, p.lit.v))
         [] p.op \notin {"In", "Ne"} /\ suits -> SimdFilter(cpu, type, col, val, p.op)
         [] OTHER -> <<>>

IndexOf(names, name) == SelectInSeq(names, LAMBDA x : x = name)

\* The predicates of an expression.
Predicates(e) ==
    LET of[x \in Exprs] == IF x.type = "pred" THEN {x} ELSE of[x.left] \cup of[x.right]
    IN of[e]

\* kNotFound when a predicate names no column.
Resolves(names, e) == \A p \in Predicates(e) : IndexOf(names, p.col) # 0

Ascending(S) == SetToSortSeq(S, <)

\* The matching rows in ascending order.
Evaluate(cpu, names, types, cols, n, e) ==
    LET ev[x \in Exprs] ==
            CASE x.type = "pred" -> LET c == IndexOf(names, x.col)
                                    IN EvaluatePredicate(cpu, types[c], cols[c], n, x)
              [] x.type = "and"  -> Ascending(ToSet(ev[x.left]) \cap ToSet(ev[x.right]))
              [] x.type = "or"   -> Ascending(ToSet(ev[x.left]) \cup ToSet(ev[x.right]))
    IN ev[e]
=============================================================================
