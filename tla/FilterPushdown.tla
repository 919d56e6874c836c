-------------------------- MODULE FilterPushdown --------------------------
(***************************************************************************)
(* AdbcFilterPushdown (src/src/adbc_filter_pushdown.cpp): the table        *)
(* filters the engine pushes into adbc_scan_table become one WHERE clause  *)
(* with placeholders, and a list of parameters that the driver binds to    *)
(* them by position.  TransformFilters goes through the filters in the     *)
(* order of their column indexes, one per step here.                       *)
(*                                                                         *)
(* A text is a sequence of tokens: AND, OR, the two parentheses, and the   *)
(* conditions on one column.  A column is a path: its name, then the names *)
(* of the struct fields taken from it.  A filter is a tree, and what is    *)
(* defined along it is a function of the depth of the tree.                *)
(***************************************************************************)
EXTENDS Integers, Sequences

CONSTANTS
  Identifier,  \* names of columns and of struct fields
  Name,        \* names of the bound columns, in order
  Virtual,     \* the id of a virtual column
  ColumnIds,   \* the column_ids of the scan, as a set of sequences
  Filter,      \* the filters the engine may push for one column
  Depth,       \* bound: how deep filters are nested
  Value, Null,
  Row          \* rows of the table, as functions from paths to values

VARIABLES
  column_ids,
  filters,        \* TableFilterSet: [indexes into column_ids -> filter]
  next,           \* indexes still to go through
  where_clause,   \* a text
  params,         \* FilterPushdownResult
  threw

pushdown_vars == <<column_ids, filters, next, where_clause, params, threw>>

-----------------------------------------------------------------------------
(* Filters.  The engine applies a dynamic filter itself, which it cannot   *)
(* do for one branch of an OR: it puts none under an OR.                   *)

SomeOf(S) == Seq(S) \ {<<>>}

\* EXPRESSION stands for every type without a case of its own.
Simple ==
  [filter_type : {"IS_NULL", "IS_NOT_NULL", "EXPRESSION"}]
    \cup [filter_type : {"CONSTANT_COMPARISON"}, comparison : STRING, constant : Value]
    \cup [filter_type : {"IN_FILTER"}, values : SomeOf(Value)]

Compound(child, alternative) ==
  [filter_type : {"CONJUNCTION_AND"}, child_filters : SomeOf(child)]
    \cup [filter_type : {"CONJUNCTION_OR"}, child_filters : SomeOf(alternative)]
    \cup [filter_type : {"STRUCT_EXTRACT"}, child_name : Identifier, child_filter : child]
    \cup [filter_type : {"OPTIONAL_FILTER"}, child_filter : child]

Static[n \in 0 .. Depth] ==
  IF n = 0 THEN Simple ELSE Simple \cup Compound(Static[n - 1], Static[n - 1])

FilterTree[n \in 0 .. Depth] ==
  Simple \cup [filter_type : {"DYNAMIC_FILTER"}]
    \cup IF n = 0 THEN {} ELSE Compound(FilterTree[n - 1], Static[n - 1])

\* A filter of that depth, and the column it is a filter of.
Filtered(n) == Seq(Identifier) \X FilterTree[n]

ASSUME FilterAssumption ==
  /\ Name \in Seq(Identifier) /\ Virtual \notin Nat
  /\ ColumnIds \subseteq Seq(Nat \cup {Virtual})
  /\ Depth \in Nat /\ Filter \subseteq FilterTree[Depth]

-----------------------------------------------------------------------------
(* The transformation.                                                     *)

Result(text, ps) == [text |-> text, params |-> ps]
Throws == [throws |-> "Exception"]

Word(kind) == <<[kind |-> kind]>>

\* No text is joined with nothing.
Joined(text, op, more) ==
  IF more = <<>> THEN text ELSE IF text = <<>> THEN more ELSE text \o Word(op) \o more

Parenthesized(text) ==
  IF text = <<>> THEN <<>> ELSE Word("(") \o text \o Word(")")

\* children are the results for the child filters.
CreateExpression(children, op) ==
  LET entries[i \in 0 .. Len(children)] ==
        IF i = 0 THEN Result(<<>>, <<>>)
        ELSE Result(Joined(entries[i - 1].text, op, children[i].text),
                    entries[i - 1].params \o children[i].params)
  IN  IF \E i \in DOMAIN children : children[i] = Throws THEN Throws
      ELSE Result(Parenthesized(entries[Len(children)].text), entries[Len(children)].params)

Comparison == [COMPARE_EQUAL |-> "=", COMPARE_NOTEQUAL |-> "<>",
               COMPARE_LESSTHAN |-> "<", COMPARE_GREATERTHAN |-> ">",
               COMPARE_LESSTHANOREQUALTO |-> "<=", COMPARE_GREATERTHANOREQUALTO |-> ">="]

TransformConstantFilter(column, filter) ==
  IF filter.comparison \notin DOMAIN Comparison THEN Throws
  ELSE Result(<<[kind |-> "?", column |-> column, op |-> Comparison[filter.comparison]]>>,
              <<filter.constant>>)

\* below has the results for child filters, by column and filter.
TransformFilter(column, filter, below) ==
  CASE filter.filter_type \in {"IS_NULL", "IS_NOT_NULL"} ->
         Result(<<[kind |-> filter.filter_type, column |-> column]>>, <<>>)
    [] filter.filter_type = "CONJUNCTION_AND" ->
         CreateExpression([i \in DOMAIN filter.child_filters |->
                             below[<<column, filter.child_filters[i]>>]], "AND")
    [] filter.filter_type = "CONJUNCTION_OR" ->
         CreateExpression([i \in DOMAIN filter.child_filters |->
                             below[<<column, filter.child_filters[i]>>]], "OR")
    [] filter.filter_type = "CONSTANT_COMPARISON" -> TransformConstantFilter(column, filter)
    [] filter.filter_type = "STRUCT_EXTRACT" ->
         below[<<Append(column, filter.child_name), filter.child_filter>>]
    [] filter.filter_type = "OPTIONAL_FILTER" -> below[<<column, filter.child_filter>>]
    [] filter.filter_type = "IN_FILTER" ->
         Result(<<[kind |-> "IN", column |-> column, size |-> Len(filter.values)]>>,
                filter.values)
    [] filter.filter_type = "DYNAMIC_FILTER" -> Result(<<>>, <<>>)
    [] OTHER -> Throws

Transformed[n \in 0 .. Depth] ==
  [x \in Filtered(n) |->
     TransformFilter(x[1], x[2], IF n = 0 THEN <<>> ELSE Transformed[n - 1])]

PushdownInit ==
  /\ column_ids \in ColumnIds
  /\ \E s \in SUBSET DOMAIN column_ids : filters \in [s -> Filter]
  /\ next = DOMAIN filters
  /\ where_clause = <<>> /\ params = <<>> /\ threw = FALSE

\* Virtual columns and ids the bound table does not have are skipped.
Pushable(i) == column_ids[i] # Virtual /\ column_ids[i] < Len(Name)
Path(i) == <<Name[column_ids[i] + 1]>>

Skip(i) == ~Pushable(i) /\ UNCHANGED <<where_clause, params, threw>>

Throw(i) ==
  /\ Pushable(i)
  /\ Transformed[Depth][<<Path(i), filters[i]>>] = Throws
  /\ threw' = TRUE /\ UNCHANGED <<where_clause, params>>

Push_LastParamsFirst(i) ==
  LET r == Transformed[Depth][<<Path(i), filters[i]>>]
  IN  /\ Pushable(i) /\ r # Throws
      /\ where_clause' = Joined(where_clause, "AND", r.text)
      /\ params' = r.params \o params
      /\ UNCHANGED threw

Push(i) ==
  LET r == Transformed[Depth][<<Path(i), filters[i]>>]
  IN  /\ Pushable(i) /\ r # Throws
      /\ where_clause' = Joined(where_clause, "AND", r.text)
      /\ params' = params \o r.params
      /\ UNCHANGED threw

TransformFilters ==
  /\ next # {} /\ ~threw
  /\ \E i \in next :
       /\ \A j \in next : i <= j
       /\ next' = next \ {i}
       /\ Skip(i) \/ Throw(i) \/ Push(i)
  /\ UNCHANGED <<column_ids, filters>>

PushdownNext == TransformFilters
PushdownSpec == PushdownInit /\ [][PushdownNext]_pushdown_vars

-----------------------------------------------------------------------------
(* What the clause means to the remote database: the set of rows it        *)
(* selects.  AND binds tighter than OR; neither language has a negation,   *)
(* so that NULL is no more than a value that compares with nothing.        *)

Compares(op, a, b) ==
  /\ a # Null
  /\ CASE op = "="  -> a = b
       [] op = "<>" -> a # b
       [] op = "<"  -> a < b
       [] op = ">"  -> a > b
       [] op = "<=" -> a <= b
       [] op = ">=" -> a >= b

\* The rows that satisfy one condition, whose first parameter is ps[at].
Satisfying(token, ps, at) ==
  {row \in Row :
     CASE token.kind = "IS_NULL" -> row[token.column] = Null
       [] token.kind = "IS_NOT_NULL" -> row[token.column] # Null
       [] token.kind = "IN" ->
            \E i \in at .. at + token.size - 1 : Compares("=", row[token.column], ps[i])
       [] token.kind = "?" -> Compares(token.op, row[token.column], ps[at])}

Placeholders(token) ==
  CASE token.kind = "IN" -> token.size [] token.kind = "?" -> 1 [] OTHER -> 0

\* A place in the text: the rows of the alternatives before it and of the
\* conditions since the last OR, the place outside of the open parenthesis, and
\* the parameter that comes next.
Place(any, all, outer, at) == [any |-> any, all |-> all, outer |-> outer, at |-> at]
Beginning == Place({}, Row, <<>>, 1)

Read(place, token, ps) ==
  CASE token.kind = "AND" -> place
    [] token.kind = "OR" ->
         Place(place.any \cup place.all, Row, place.outer, place.at)
    [] token.kind = "(" -> Place({}, Row, place, place.at)
    [] token.kind = ")" ->
         Place(place.outer.any, place.outer.all \cap (place.any \cup place.all),
               place.outer.outer, place.at)
    [] OTHER ->
         Place(place.any, place.all \cap Satisfying(token, ps, place.at), place.outer,
               place.at + Placeholders(token))

Reading(text, ps, start) ==
  LET read[i \in 0 .. Len(text)] ==
        IF i = 0 THEN start ELSE Read(read[i - 1], text[i], ps)
  IN  read[Len(text)]

-----------------------------------------------------------------------------
(* What the filters mean to the engine: the rows a filter holds of.  An    *)
(* optional filter holds as its child does; a dynamic one, which may turn  *)
(* out to hold of any row, of all.                                         *)

Related(comparison, a, b) ==
  /\ a # Null
  /\ CASE comparison = "COMPARE_EQUAL" -> a = b
       [] comparison = "COMPARE_NOTEQUAL" -> a # b
       [] comparison = "COMPARE_LESSTHAN" -> a < b
       [] comparison = "COMPARE_GREATERTHAN" -> a > b
       [] comparison = "COMPARE_LESSTHANOREQUALTO" -> a <= b
       [] comparison = "COMPARE_GREATERTHANOREQUALTO" -> a >= b

FilterHolds(column, filter, below) ==
  CASE filter.filter_type = "IS_NULL" -> {row \in Row : row[column] = Null}
    [] filter.filter_type = "IS_NOT_NULL" -> {row \in Row : row[column] # Null}
    [] filter.filter_type = "CONJUNCTION_AND" ->
         {row \in Row : \A i \in DOMAIN filter.child_filters :
                          row \in below[<<column, filter.child_filters[i]>>]}
    [] filter.filter_type = "CONJUNCTION_OR" ->
         {row \in Row : \E i \in DOMAIN filter.child_filters :
                          row \in below[<<column, filter.child_filters[i]>>]}
    [] filter.filter_type = "CONSTANT_COMPARISON" ->
         {row \in Row : Related(filter.comparison, row[column], filter.constant)}
    [] filter.filter_type = "STRUCT_EXTRACT" ->
         below[<<Append(column, filter.child_name), filter.child_filter>>]
    [] filter.filter_type = "OPTIONAL_FILTER" -> below[<<column, filter.child_filter>>]
    [] filter.filter_type = "IN_FILTER" ->
         {row \in Row : \E i \in DOMAIN filter.values :
                          row[column] # Null /\ row[column] = filter.values[i]}
    [] OTHER -> Row

Holding[n \in 0 .. Depth] ==
  [x \in Filtered(n) |->
     FilterHolds(x[1], x[2], IF n = 0 THEN <<>> ELSE Holding[n - 1])]

Holds(i) == Holding[Depth][<<Path(i), filters[i]>>]

-----------------------------------------------------------------------------
(* Properties.                                                             *)

Finished == next = {} /\ ~threw

\* When all filters are transformed, the clause can be read to its end, every
\* placeholder has found its parameter and no parameter is left over, and the
\* rows it selects are those that every filter on a column of the table holds
\* of: none is lost, and none is left that the engine takes to be filtered out.
WhereIsTheFilters ==
  Finished =>
    LET end == Reading(where_clause, params, Beginning)
    IN  /\ end.at = Len(params) + 1
        /\ end.any \cup end.all =
             {row \in Row : \A i \in DOMAIN filters : Pushable(i) => row \in Holds(i)}

=============================================================================
