------------------------------ MODULE MCSelect ------------------------------
EXTENDS Select

MCNames == [left |-> <<"a", "b", "s", "f">>, right |-> <<"a", "k">>]
MCTypes == [left |-> <<"Int32", "Float64", "VarChar", "Bool">>, right |-> <<"Int32", "Float64">>]

\* Some pairs of rows agree in each column; 0.0 and 1.0 are nearly equal.
Row1 == <<1, 0, <<1>>, 1>>
Row2 == <<-1, 1, <<1, 2>>, 0>>
Row3 == <<1, 4, <<>>, 1>>
Row4 == <<-1, 4, <<1>>, 1>>
MCContents ==
    [left  |-> {<<Row1, Row2, Row3>>, <<Row3, Row1, Row4>>, <<Row2, Row4>>},
     right |-> {<<<<1, 4>>, <<1, 0>>>>, <<<<-1, 1>>>>}]

Num(v) == [kind |-> "int", v |-> v, s |-> <<>>]
Dbl(v) == [kind |-> "dbl", v |-> v, s |-> <<>>]
Str(s) == [kind |-> "str", v |-> 0, s |-> s]
NoLit  == [kind |-> "none", v |-> 0, s |-> <<>>]
Pred(col, op, lit) == [type |-> "pred", col |-> col, op |-> op, lit |-> lit, list |-> {}]
In(col, list) == [type |-> "pred", col |-> col, op |-> "In", lit |-> NoLit, list |-> list]
And(x, y) == [type |-> "and", left |-> x, right |-> y]
Or(x, y)  == [type |-> "or", left |-> x, right |-> y]

Simple ==
    {Pred("a", op, Num(v)) : op \in {"Eq", "Ne", "Lt", "Ge"}, v \in {-1, 1}}
    \cup {Pred("b", op, Dbl(1)) : op \in {"Gt", "Le", "Ne", "Eq"}}
    \cup {Pred("s", op, Str(<<1>>)) : op \in {"Eq", "Gt", "Le"}}
    \cup {Pred("a", "Lt", Num(3)), Pred("a", "Eq", Str(<<1>>)), Pred("b", "Ge", Num(1)), Pred("z", "Eq", Num(1)),
          Pred("f", "Eq", Num(1)), Pred("s", "Eq", Num(1)), Pred("b", "Eq", Num(4)),
          In("a", {Num(1), Dbl(4)}), In("b", {Dbl(0), Dbl(4)}), In("s", {Str(<<>>), Str(<<1>>)}),
          In("a", {Num(3), Num(-1)})}
Compound ==
    {And(Pred("a", "Eq", Num(1)), Pred("b", "Gt", Dbl(1))),
     Or(And(Pred("a", "Eq", Num(1)), Pred("b", "Gt", Dbl(1))), Pred("s", "Le", Str(<<1>>)))}
MCExprs == Simple \cup Compound

Col(name) == [func |-> "none", col |-> name, table |-> ""]
Of(table, name) == [func |-> "none", col |-> name, table |-> table]
Fun(f, name) == [func |-> f, col |-> name, table |-> ""]
Base == [cols |-> <<>>, where |-> <<>>, index |-> "", group |-> <<>>, order |-> "none",
         by |-> "", limit |-> -1, offset |-> 0, join |-> <<>>]

Scans   == {[Base EXCEPT !.where = <<e>>] : e \in MCExprs}
Lookups == {[Base EXCEPT !.where = <<e>>, !.index = e.col, !.cols = <<Col("s"), Col("a")>>] :
               e \in {p \in Simple : p.op = "Eq" /\ p.col # "z"}}
Ordered == {[Base EXCEPT !.order = o, !.by = c, !.limit = l, !.offset = k] :
               o \in {"asc", "desc"}, c \in {"a", "s", "z"}, l \in {-1, 1}, k \in {0, 1}}
Groups  == {[Base EXCEPT !.cols = cs, !.group = g, !.limit = l] :
               cs \in {<<Fun("count", "*"), Fun("sum", "b"), Fun("max", "a")>>,
                       <<Col("a"), Fun("avg", "b"), Fun("min", "s")>>,
                       <<Col("s"), Col("a")>>},
               g \in {<<>>, <<"a">>, <<"s", "a">>}, l \in {-1, 1}}
           \cup {[Base EXCEPT !.cols = <<Col("z")>>]}
OnA     == <<Of("left", "a"), Of("right", "a")>>
Joins   == {[Base EXCEPT !.cols = cs, !.join = OnA] :
               cs \in {<<Of("right", "a"), Col("s")>>, <<Col("a")>>, <<Col("z")>>}}
           \cup {[Base EXCEPT !.join = on] :
                    on \in {<<Col("k"), Col("b")>>, <<Col("b"), Of("left", "a")>>, <<Col("a"), Col("k")>>}}
           \cup {[Base EXCEPT !.join = OnA, !.offset = 1, !.limit = 1]}
MCStatements == Scans \cup Lookups \cup Ordered \cup Groups \cup Joins
=============================================================================
