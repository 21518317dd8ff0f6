------------------------------ MODULE Statement ------------------------------
(***************************************************************************)
(* A prepared statement of ASql (mysql.cpp): how parameters and rows of C++  *)
(* objects (data.hpp) are bound to the placeholders and columns of a query,  *)
(* and the three forms of execute().  QueryPool says when a thread executes  *)
(* one and when it is stopped.  A query inserts its parameters into a table, *)
(* or selects what is there.                                                 *)
(***************************************************************************)
EXTENDS Integers, Sequences, FiniteSets, SequencesExt

CONSTANTS
    QueryText,      \* texts of queries: Placeholder, digits, and Other
    Columns,        \* the types of the elements of a Set, in order
    MaxTable        \* bound: rows of the table

Placeholder == 100
Other == 101

\* The types, as data.hpp numbers them.
U_TINY == 0
U_SHORT == 1
U_BIGINT == 3
TINY == 4
SHORT == 5
TIME == 10
DATE == 11
TEXT == 14
U_TINY_N == 19
Nullable(type) == type + U_TINY_N

\* Values the types have: of a time its seconds, of a date the three numbers.
Values(type) ==
    CASE type % U_TINY_N = U_TINY -> {0, 255}
      [] type % U_TINY_N = U_SHORT -> {40000}
      [] type % U_TINY_N = TINY -> {-128, 127}
      [] type % U_TINY_N = SHORT -> {-1, 300}
      [] type % U_TINY_N = TIME -> {-60, -3661, 7325}
      [] type % U_TINY_N = DATE -> {<<2015, 2, 28>>}
      [] type % U_TINY_N = TEXT -> {<<>>, <<7, 0>>}

Element(type, nullness, object) == [type |-> type, nullness |-> nullness, object |-> object]
Null == [null |-> TRUE]
Value(x) == [null |-> FALSE, is |-> x]
ZeroDate == <<0, 0, 0>>

VARIABLES
    types,          \* the elements of a Set
    source,         \* the text of the query
    query,          \* what the server is given of it
    paramOrder,
    bindings,       \* by placeholder
    held,           \* by column, the value its conversion was last given
    table,          \* the rows of the server, the columns by placeholder
    pending,        \* and those of the transaction
    parameters,     \* the SetContainer of an insert
    pulled,         \* how many of them were
    stored,         \* the table as it was before
    given,          \* the rows of the server a select finds
    cursor,         \* and those it has still to give
    before,         \* the one Set a select for one row has, as it was
    results,        \* the rows of a select, or that Set
    stop,           \* *m_stop
    at,             \* where execute() is
    outcome

prepared == <<types, source, query, paramOrder, bindings, held>>
inserts == <<table, pending, parameters, pulled, stored>>
selects == <<given, cursor, before, results>>
vars == <<prepared, inserts, selects, stop, at, outcome>>

Init ==
    /\ types = <<>> /\ source = <<>> /\ query = <<>> /\ paramOrder = <<>> /\ bindings = <<>> /\ held = <<>>
    /\ table = <<>> /\ pending = <<>> /\ parameters = <<>> /\ pulled = 0 /\ stored = <<>>
    /\ given = <<>> /\ cursor = <<>> /\ before = <<>> /\ results = <<>>
    /\ stop = FALSE /\ at = "new" /\ outcome = "none"

-----------------------------------------------------------------------------
(* init() *)

\* The digits behind a placeholder, three at most, are its number.
Scan(f, c) ==
    IF f.in /\ c \in 0..9 /\ f.digits < 3 THEN [f EXCEPT !.number = @ * 10 + c, !.digits = @ + 1]
    ELSE [real |-> Append(f.real, c), in |-> c = Placeholder, number |-> 0, digits |-> 0,
          order |-> IF f.in THEN Append(f.order, f.number % 256) ELSE f.order]

CustomPlaceholders(q) ==
    LET f == FoldLeft(Scan, [real |-> <<>>, in |-> FALSE, number |-> 0, digits |-> 0, order |-> <<>>], q)
    IN  [real |-> f.real, order |-> IF f.in THEN Append(f.order, f.number % 256) ELSE f.order]

\* Which element a placeholder or a column is bound to.
Bound(order, n) == IF order = <<>> THEN [i \in 1..n |-> i] ELSE [i \in DOMAIN order |-> order[i] + 1]

\* The type without its nullness and its sign.
Binding(type) ==
    LET base == IF type >= U_TINY_N THEN type - U_TINY_N ELSE type
    IN  IF base <= U_BIGINT THEN [is_unsigned |-> TRUE, type |-> base + TINY]
        ELSE [is_unsigned |-> FALSE, type |-> base]

buildBindings(set, order) == [i \in DOMAIN Bound(order, Len(set)) |-> Binding(set[Bound(order, Len(set))[i]])]

\* A query has a placeholder for every parameter, or for any of them by number.
Prepare ==
    /\ at = "new" /\ at' = "idle"
    /\ types' \in Columns /\ source' \in QueryText
    /\ \E custom \in BOOLEAN :
          LET q == CustomPlaceholders(source')
          IN  /\ query' = IF custom THEN q.real ELSE source'
              /\ paramOrder' = IF custom THEN q.order ELSE <<>>
              /\ custom = (ToSet(source') \cap (0..9) # {})
              /\ ~custom => Cardinality({i \in DOMAIN query' : query'[i] = Placeholder}) = Len(types')
    /\ \A i \in DOMAIN paramOrder' : paramOrder'[i] < Len(types')
    /\ bindings' = buildBindings(types', paramOrder')
    /\ held' = [i \in DOMAIN types' |-> Null]
    /\ UNCHANGED <<inserts, selects, stop, outcome>>

-----------------------------------------------------------------------------
(* Conversions and the library *)

\* The bytes of an object, as the library reads them.
Width(type) == IF type = TINY THEN 256 ELSE 65536
Signed(bytes, type) == IF bytes < Width(type) \div 2 THEN bytes ELSE bytes - Width(type)
Whole(binding) == binding.type \in {TINY, SHORT}

\* The time has its sign from the hours.
Abs(n) == IF n < 0 THEN -n ELSE n
convertParam(binding, x) ==
    IF binding.type = TIME
    THEN [hour |-> Abs(x) \div 3600, minute |-> (Abs(x) \div 60) % 60, second |-> Abs(x) % 60, neg |-> x <= -3600]
    ELSE x

\* So has the one that is read; and a date there is not leaves what was there.
convertResult(binding, internal, old) ==
    CASE binding.type = TIME ->
            (IF internal.neg /\ internal.hour > 0 THEN -1 ELSE 1)
            * (internal.hour * 3600 + internal.minute * 60 + internal.second)
      [] binding.type = DATE /\ internal = ZeroDate -> old
      [] OTHER -> internal

\* What the server takes for a column.
Column(binding, element) ==
    LET bytes == element.object % Width(binding.type)
    IN  IF element.type >= U_TINY_N /\ element.nullness THEN Null
        ELSE IF Whole(binding) THEN Value(IF binding.is_unsigned THEN bytes ELSE Signed(bytes, binding.type))
        ELSE Value(convertParam(binding, element.object))

\* bindBindings() and executeParameters(): the row the query inserts.
bindBindings(set) == [i \in DOMAIN bindings |-> Column(bindings[i], set[Bound(paramOrder, Len(set))[i]])]

\* One value of each set.  (bound: sets of one or two elements)
Each(sets) == IF Len(sets) = 1 THEN {<<x>> : x \in sets[1]} ELSE {<<x, y>> : x \in sets[1], y \in sets[2]}

\* Of an element without nullness whose column is NULL the library writes
\* nothing, and the conversion runs all the same: with the value of an earlier
\* row, or with memory nobody wrote (of a time, of a date that may be none); of
\* a text with the length of the earlier one, which is 0 at first, but not its
\* bytes.
Unwritten(binding) ==
    CASE binding.type = TIME -> {convertParam(binding, v) : v \in {0, 7325}}
      [] binding.type = DATE -> {ZeroDate, <<2015, 2, 28>>}
      [] OTHER -> {<<>>}
Left(binding, kept) == IF kept.null THEN Unwritten(binding) ELSE {kept.is}
Resized(text, n) == [k \in 1..n |-> IF k \in DOMAIN text THEN text[k] ELSE 0]

\* executeResult(): what an element may become.
Becomes(element, column, kept) ==
    LET binding == Binding(element.type)
        nullable == element.type >= U_TINY_N
        bytes == column.is % Width(binding.type)
    IN  CASE column.null /\ nullable -> {[element EXCEPT !.nullness = TRUE]}
          [] column.null /\ ~nullable /\ Whole(binding) -> {element}
          [] column.null /\ ~nullable /\ ~Whole(binding) ->
                {[element EXCEPT !.object = IF binding.type = TEXT THEN Resized(@, Len(x)) ELSE convertResult(binding, x, @)] :
                    x \in Left(binding, kept)}
          [] ~column.null /\ Whole(binding) ->
                {[element EXCEPT !.nullness = FALSE,
                                 !.object = IF binding.is_unsigned THEN bytes ELSE Signed(bytes, binding.type)]}
          [] OTHER -> {[element EXCEPT !.nullness = FALSE, !.object = convertResult(binding, column.is, @)]}

Fetched(set, row) == Each([i \in DOMAIN set |-> Becomes(set[i], row[i], held[i])])
Holding(row) == [i \in DOMAIN held |-> IF row[i].null THEN held[i] ELSE row[i]]

\* What manufacture() appends.  Nullable() is null; whole numbers are not set,
\* other objects are what their constructors make of them.
NewObject(type) ==
    CASE type % U_TINY_N = DATE -> ZeroDate
      [] type % U_TINY_N = TIME -> 0
      [] type % U_TINY_N = TEXT -> <<>>
      [] OTHER -> CHOOSE v \in Values(type) : TRUE
NewElement(type) == Element(type, type >= U_TINY_N, NewObject(type))
Blank == [i \in DOMAIN types |-> NewElement(types[i])]

-----------------------------------------------------------------------------
(* execute() *)

Elements(type) ==
    {Element(type, FALSE, v) : v \in Values(type)}
    \cup (IF type >= U_TINY_N THEN {Element(type, TRUE, CHOOSE v \in Values(type) : TRUE)} ELSE {})

Sets == Each([i \in DOMAIN types |-> Elements(types[i])])

\* The form for a container of parameters; that for one Set does the same with
\* it.  (bound: one Set behind an insert that came to nothing, none behind others)
Insert ==
    /\ at = "idle" /\ at' = "pull" /\ stop' = FALSE /\ outcome' = "none"
    /\ \E n \in 1..MaxTable :
          /\ outcome = "none" \/ (outcome # "done" /\ parameters # <<>> /\ n = 1)
          /\ parameters' \in [1..n -> Sets]
    /\ pulled' = 0 /\ stored' = table
    /\ given' = <<>> /\ before' = <<>> /\ results' = <<>>
    /\ UNCHANGED <<prepared, table, pending, cursor>>

Cancel ==
    /\ at \in {"pull", "fetch", "single"} /\ ~stop /\ stop' = TRUE
    /\ UNCHANGED <<prepared, inserts, selects, at, outcome>>

Pull ==
    /\ at = "pull"
    /\ IF stop \/ pulled = Len(parameters) THEN at' = "end" /\ UNCHANGED <<pending, pulled>>
       ELSE /\ pulled' = pulled + 1 /\ at' = at
            /\ pending' = Append(pending, bindBindings(parameters[pulled + 1]))
    /\ UNCHANGED <<prepared, table, parameters, stored, selects, stop, outcome>>

\* What a server may have in a column.
ServerValues(type) ==
    {Null} \cup {Column(Binding(type), Element(type, FALSE, v)) : v \in Values(type)}
    \cup (IF type % U_TINY_N = DATE THEN {Value(ZeroDate)} ELSE {})
    \cup (IF type % U_TINY_N = TIME THEN {Value([hour |-> 0, minute |-> 1, second |-> 0, neg |-> TRUE])} ELSE {})

ServerRows == Each([i \in DOMAIN types |-> ServerValues(types[i])])

\* With a container for the rows, or a Set for one that may have been used.
Select ==
    /\ at = "idle" /\ outcome = "none" /\ stop' = FALSE /\ outcome' = "none"
    /\ \E n \in 0..MaxTable : given' \in [1..n -> ServerRows]
    /\ cursor' = given'
    /\ \/ at' = "fetch" /\ before' = <<>> /\ results' = <<>>
       \/ at' = "single" /\ before' \in {Blank} \cup {CHOOSE x \in Sets : TRUE} /\ results' = <<before'>>
    /\ parameters' = <<>> /\ stored' = table
    /\ UNCHANGED <<prepared, table, pending, pulled>>

\* A row is manufactured and filled, and trimmed if there was none or nobody
\* wants it any more.
Fetch ==
    /\ at = "fetch"
    /\ IF cursor = <<>> \/ stop THEN at' = "end" /\ UNCHANGED <<results, cursor, held>>
       ELSE /\ at' = at
            /\ \E set \in Fetched(Blank, Head(cursor)) : results' = Append(results, set)
            /\ held' = Holding(Head(cursor)) /\ cursor' = Tail(cursor)
    /\ UNCHANGED <<types, source, query, paramOrder, bindings, inserts, given, before, stop, outcome>>

Single ==
    /\ at = "single" /\ at' = "end"
    /\ IF stop \/ cursor = <<>> THEN UNCHANGED <<results, held>>
       ELSE /\ \E set \in Fetched(results[1], Head(cursor)) : results' = <<set>>
            /\ held' = Holding(Head(cursor))
    /\ UNCHANGED <<types, source, query, paramOrder, bindings, inserts, given, cursor, before, stop, outcome>>

\* An Error leaves execute(), and the row that was to be filled; who called it
\* rolls back, as intHandler() does.
Fail ==
    /\ at \in {"pull", "fetch", "single"} /\ at' = "idle" /\ outcome' = "error"
    /\ pending' = <<>>
    /\ results' = IF at = "fetch" THEN Append(results, Blank) ELSE results
    /\ UNCHANGED <<prepared, table, parameters, pulled, stored, given, cursor, before, stop>>

\* A mutant of End: what was stopped is committed.
EndCommits ==
    /\ at = "end" /\ at' = "idle" /\ outcome' = IF stop THEN "stopped" ELSE "done"
    /\ table' = table \o pending /\ pending' = <<>>
    /\ UNCHANGED <<prepared, parameters, pulled, stored, selects, stop>>

\* rollback() or commit()
End ==
    /\ at = "end" /\ at' = "idle" /\ outcome' = IF stop THEN "stopped" ELSE "done"
    /\ table' = IF stop THEN table ELSE table \o pending
    /\ pending' = <<>>
    /\ UNCHANGED <<prepared, parameters, pulled, stored, selects, stop>>

Next == Prepare \/ Insert \/ Cancel \/ Pull \/ Select \/ Fetch \/ Single \/ Fail \/ End

Spec == Init /\ [][Next]_vars

-----------------------------------------------------------------------------
(* Properties *)

\* The element the text of the query means by its k-th placeholder.
Named(k) ==
    LET marks == {i \in DOMAIN source : source[i] = Placeholder}
        mark == CHOOSE i \in marks : Cardinality({j \in marks : j <= i}) = k
        digit(n) == IF mark + n <= Len(source) /\ \A m \in 1..n : source[mark + m] \in 0..9 THEN {source[mark + n]} ELSE {}
        number == FoldLeft(LAMBDA x, n : IF digit(n) = {} THEN x ELSE x * 10 + CHOOSE d \in digit(n) : TRUE, 0, <<1, 2, 3>>)
    IN  IF ToSet(source) \cap (0..9) = {} THEN k ELSE 1 + number

ShortNegative(time) == time.neg /\ time.hour = 0

\* What an element means as a column: a time shorter than an hour is positive.
Means(element) ==
    IF element.type >= U_TINY_N /\ element.nullness THEN Null
    ELSE IF element.type % U_TINY_N = TIME
    THEN LET s == Abs(element.object)
         IN  Value([hour |-> s \div 3600, minute |-> (s \div 60) % 60, second |-> s % 60,
                    neg |-> element.object < 0 /\ s >= 3600])
    ELSE Value(element.object)

\* What an element shows of a value of its column.
Shows(element, old, is) ==
    IF element.type % U_TINY_N = DATE /\ is = ZeroDate THEN element.object = old.object
    ELSE IF element.type % U_TINY_N = TIME /\ ShortNegative(is)
    THEN Means(element) = Value([is EXCEPT !.neg = FALSE])
    ELSE Means(element) = Value(is)

\* A NULL without a place to go, with the values of the column in earlier rows:
\* a number stays what it was, a date and a time repeat the last of them (and
\* are anything when there is none), a text has the length of it.
Repeats(element, old, earlier) ==
    CASE element.type % U_TINY_N = TEXT -> Len(element.object) = IF earlier = <<>> THEN 0 ELSE Len(Last(earlier).is)
      [] element.type % U_TINY_N \in {DATE, TIME} -> earlier # <<>> => Shows(element, old, Last(earlier).is)
      [] OTHER -> element = old

\* The element of the i-th row in column c.
Reads(element, old, i, c) ==
    LET column == given[i][c]
        isValue(value) == ~value.null
    IN  IF ~column.null THEN ~element.nullness /\ Shows(element, old, column.is)
        ELSE IF element.type >= U_TINY_N THEN element = [old EXCEPT !.nullness = TRUE]
        ELSE Repeats(element, old, SelectSeq([j \in 1..(i - 1) |-> given[j][c]], isValue))

\* The rows a statement stores have, at each placeholder, what the parameter
\* means that its text names there, and all rows of an execution are stored or
\* none; the rows it finds are those of the server, from the first on, with
\* every NULL that has a place and every sign, all of them unless it was
\* stopped.  What the code makes of the rest is written down as it is: a
\* negative time shorter than an hour loses its sign both ways, a date there is
\* not leaves the old value, and a NULL in an element that is not Nullable is
\* no value of its row at all (Repeats).
RowsComeBack ==
    /\ at = "idle" =>
           table = IF outcome # "done" THEN stored
                   ELSE stored \o [i \in DOMAIN parameters |-> [k \in DOMAIN bindings |-> Means(parameters[i][Named(k)])]]
    /\ at = "idle" /\ before = <<>> /\ outcome # "none" =>
           /\ outcome = "done" => Len(results) = Len(given)
           /\ \A i \in DOMAIN results : i # Len(results) \/ outcome # "error" =>
                  i <= Len(given) /\ \A c \in DOMAIN types : Reads(results[i][c], Blank[c], i, c)
    /\ at = "idle" /\ before # <<>> /\ outcome # "none" =>
           \/ results = <<before>> /\ (outcome = "done" => given = <<>>)
           \/ given # <<>> /\ \A c \in DOMAIN types : Reads(results[1][c], before[c], 1, c)
=============================================================================
