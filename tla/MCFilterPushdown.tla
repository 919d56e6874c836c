-------------------------- MODULE MCFilterPushdown --------------------------
(* Instances of FilterPushdown for TLC: two columns, one of which may be a *)
(* struct, filters of every kind, alone and in AND and OR of two, in each  *)
(* other.                                                                  *)
EXTENDS FilterPushdown
MCName == <<"a", "b">>
MCColumnIds == {<<0, 1>>, <<1, 0>>, <<Virtual, 1>>}
Columns == {<<"a">>, <<"b">>, <<"a", "f">>, <<"b", "f">>}
MCRow == [Columns -> Value \cup {Null}]
Compare(type, v) == [filter_type |-> "CONSTANT_COMPARISON", comparison |-> type, constant |-> v]
Eq(v) == Compare("COMPARE_EQUAL", v)
In == [filter_type |-> "IN_FILTER", values |-> <<2, 1>>]
Dynamic == [filter_type |-> "DYNAMIC_FILTER"]
Optional(f) == [filter_type |-> "OPTIONAL_FILTER", child_filter |-> f]
Plain == {[filter_type |-> "IS_NULL"], [filter_type |-> "IS_NOT_NULL"], Eq(1),
          Compare("COMPARE_GREATERTHANOREQUALTO", 2), In,
          [filter_type |-> "STRUCT_EXTRACT", child_name |-> "f", child_filter |-> Eq(2)]}
Hints == {Dynamic, Optional(Dynamic), Optional(Eq(2))}
Odd == {Compare("COMPARE_DISTINCT_FROM", 1), [filter_type |-> "EXPRESSION"]}
Both(op, fs, gs) == {[filter_type |-> op, child_filters |-> <<f, g>>] : f \in fs, g \in gs}
And(fs, gs) == Both("CONJUNCTION_AND", fs, gs)
Or(fs, gs) == Both("CONJUNCTION_OR", fs, gs)
MCFilter == Plain \cup Hints \cup Odd
            \cup And(Plain \cup Hints, {Eq(1), In})
            \cup Or(Plain, {In})
            \cup And(Or({Eq(1), In}, {Eq(2)}), {Eq(1)})
            \cup Or(And({Eq(2)}, {In}), {Optional(Eq(1))})
=============================================================================
