------------------------------ MODULE Templates ------------------------------
(***************************************************************************)
(* PageTemplate (template.cpp): a page is parsed once, into a tree of        *)
(* tokens, and yielded with the arguments of each request.  A template is a  *)
(* sequence of pieces, the texts and the <% %> tags it has.                  *)
(***************************************************************************)
EXTENDS Integers, Sequences, FiniteSets, SequencesExt

CONSTANTS
    Piece,          \* the pieces templates are written with
    MaxLength,      \* bound: pieces of a template
    ArgumentList    \* what pages may pass: from names to strings and arrays

\* What a piece is; the name is its text or the variable it names.  "bad" is a
\* tag that is empty, no special tag or an #if without the room for a name;
\* "open" one that is not closed.
PieceType == {"text", "var", "if", "for", "end", "sep", "else", "bad", "open"}

VARIABLES
    template,       \* the file
    body_,          \* the tokens made of it, and whether there was an exception
    arguments,
    result,         \* of yield(), and whether there was an exception
    phase

vars == <<template, body_, arguments, result, phase>>

Thrown == [ok |-> FALSE]
Token(type, data) == [type |-> type, data |-> data, first |-> <<>>, second |-> <<>>]

-----------------------------------------------------------------------------
(* parse() *)

RECURSIVE get_next_token(_), parse_subtokens(_, _, _)

\* Up to one of the ends, which is taken away.
parse_subtokens(s, ends, tokens) ==
    LET t == get_next_token(s)
    IN  IF s = <<>> \/ ~t.ok THEN Thrown
        ELSE IF t.token.type \in ends THEN [ok |-> TRUE, tokens |-> tokens, end |-> t.token.type, rest |-> t.rest]
        ELSE parse_subtokens(t.rest, ends, Append(tokens, t.token))

\* The branches of #if are parted by #else, those of #for by #sep.
Block(type, data, s, middle) ==
    LET first == parse_subtokens(s, {"end", middle}, <<>>)
        second == IF first.end = "end" THEN [first EXCEPT !.tokens = <<>>]
                  ELSE parse_subtokens(first.rest, {"end"}, <<>>)
    IN  IF ~first.ok \/ ~second.ok THEN Thrown
        ELSE [ok |-> TRUE, rest |-> second.rest,
              token |-> [Token(type, data) EXCEPT !.first = first.tokens, !.second = second.tokens]]

\* A tag that is not closed ends with the next one that is.
get_next_token(s) ==
    LET piece == Head(s)
        closed == {i \in 2..Len(s) : s[i].type \notin {"text", "open"}}
        next == CHOOSE i \in closed : \A j \in closed : i <= j
    IN  CASE piece.type = "bad" -> Thrown
          [] piece.type = "open" ->
                IF closed = {} THEN Thrown
                ELSE [ok |-> TRUE, token |-> Token("var", "junk"), rest |-> SubSeq(s, next + 1, Len(s))]
          [] piece.type = "if" -> Block("if", piece.name, Tail(s), "else")
          [] piece.type = "for" -> Block("for", piece.name, Tail(s), "sep")
          [] OTHER -> [ok |-> TRUE, token |-> Token(piece.type, piece.name), rest |-> Tail(s)]

RECURSIVE parse(_, _)
parse(s, tokens) ==
    LET t == get_next_token(s)
    IN  IF s = <<>> THEN [ok |-> TRUE, tokens |-> tokens]
        ELSE IF ~t.ok THEN Thrown ELSE parse(t.rest, Append(tokens, t.token))

-----------------------------------------------------------------------------
(* yield() *)

NoItem == [x \in {} |-> ""]

Output(s) == [ok |-> TRUE, text |-> IF s = "" THEN <<>> ELSE <<s>>]
Both(a, b) == IF a.ok /\ b.ok THEN [ok |-> TRUE, text |-> a.text \o b.text] ELSE Thrown

\* The item first; an array is an empty string.
get_variable(args, item, var) ==
    IF var \in DOMAIN item THEN item[var]
    ELSE IF var \in DOMAIN args /\ ~args[var].is_array THEN args[var].value ELSE ""

is_array(args, name) == name \in DOMAIN args /\ args[name].is_array

RECURSIVE yield_tokens(_, _, _), yield_foreach(_, _, _)

\* A mutant of yield_foreach: a separator follows every item.
yield_foreachEvery(args, token, i) ==
    IF ~is_array(args, token.data) \/ i > Len(args[token.data].items) THEN Output("")
    ELSE LET array == args[token.data].items
         IN  Both(Both(yield_tokens(args, array[i], token.first), yield_tokens(args, NoItem, token.second)),
                  yield_foreach(args, token, i + 1))

\* From item i on.  A separator sees no item.
yield_foreach(args, token, i) ==
    IF ~is_array(args, token.data) \/ i > Len(args[token.data].items) THEN Output("")
    ELSE LET array == args[token.data].items
             sep == IF i > 1 THEN yield_tokens(args, NoItem, token.second) ELSE Output("")
         IN  Both(Both(sep, yield_tokens(args, array[i], token.first)), yield_foreach(args, token, i + 1))

\* yield_token() for one after the other; #end, #sep or #else has no business here.
yield_tokens(args, item, tokens) ==
    LET token == Head(tokens)
        this ==
            CASE token.type = "text" -> Output(token.data)
              [] token.type = "var" -> Output(get_variable(args, item, token.data))
              [] token.type = "for" -> yield_foreach(args, token, 1)
              [] token.type = "if" ->
                    yield_tokens(args, item, IF get_variable(args, item, token.data) = "" THEN token.second ELSE token.first)
              [] OTHER -> Thrown
    IN  IF tokens = <<>> THEN Output("") ELSE Both(this, yield_tokens(args, item, Tail(tokens)))

-----------------------------------------------------------------------------
Init ==
    /\ template = <<>> /\ body_ = Thrown /\ arguments = NoItem
    /\ result = Thrown /\ phase = "unloaded"

\* The constructor, of what is in the file.
Load ==
    /\ phase = "unloaded" /\ phase' = "loaded"
    /\ template' \in UNION {[1..n -> Piece] : n \in 0..MaxLength}
    /\ body_' = parse(template', <<>>)
    /\ UNCHANGED <<arguments, result>>

Yield ==
    /\ phase = "loaded" /\ body_.ok /\ phase' = "yielded"
    /\ arguments' \in ArgumentList
    /\ result' = yield_tokens(arguments', NoItem, body_.tokens)
    /\ UNCHANGED <<template, body_>>

Next == Load \/ Yield

Spec == Init /\ [][Next]_vars

-----------------------------------------------------------------------------
(* What a template means, without a tree: every piece is written once for    *)
(* each way to come to it through the blocks it is in, in that order.        *)

\* The blocks that are open behind a piece: where each begins, and whether its
\* second branch has begun.  A piece that divides or ends nothing is no end.
Divides(blocks, piece) ==
    blocks # <<>> /\ ~Last(blocks).second /\ <<Last(blocks).type, piece.type>> \in {<<"if", "else">>, <<"for", "sep">>}

OpenBlocks(blocks, piece, at) ==
    CASE piece.type \in {"if", "for"} ->
            Append(blocks, [type |-> piece.type, name |-> piece.name, at |-> at, second |-> FALSE])
      [] piece.type = "end" -> IF blocks = <<>> THEN blocks ELSE Front(blocks)
      [] Divides(blocks, piece) -> [blocks EXCEPT ![Len(blocks)].second = TRUE]
      [] OTHER -> blocks

\* The blocks before piece p.
Around(p) ==
    LET f[i \in 0..Len(template)] == IF i = 0 THEN <<>> ELSE OpenBlocks(f[i - 1], template[i], i)
    IN  f[p - 1]

Stray(p) ==
    \/ template[p].type = "end" /\ Around(p) = <<>>
    \/ template[p].type \in {"sep", "else"} /\ ~Divides(Around(p), template[p])

\* One way into a block more: which item, or the separator behind which.
Into(ways, b) ==
    LET array == IF is_array(arguments, b.name) THEN arguments[b.name].items ELSE <<>>
        last == IF b.second THEN Len(array) - 1 ELSE Len(array)
    IN  IF b.type = "if" THEN {w \in ways : (get_variable(arguments, w.item, b.name) = "") = b.second}
        ELSE {[path |-> w.path \o <<b.at, 2 * i + IF b.second THEN 1 ELSE 0>>,
               item |-> IF b.second THEN NoItem ELSE array[i]] : w \in ways, i \in 1..last}

Ways(p) == FoldLeft(Into, {[path |-> <<>>, item |-> NoItem]}, Around(p))

Before(a, b) == \E i \in DOMAIN a \cap DOMAIN b : a[i] < b[i] /\ SubSeq(a, 1, i - 1) = SubSeq(b, 1, i - 1)

Written ==
    LET all == {[path |-> Append(w.path, p),
                 text |-> IF template[p].type = "text" THEN template[p].name
                          ELSE get_variable(arguments, w.item, template[p].name)] :
                <<p, w>> \in UNION {{<<q, v>> : v \in Ways(q)} :
                                  q \in {r \in DOMAIN template : template[r].type \in {"text", "var"}}}}
        visible == {x \in all : x.text # ""}
        ith(i) == CHOOSE x \in visible : Cardinality({y \in visible : Before(y.path, x.path)}) = i - 1
    IN  [i \in 1..Cardinality(visible) |-> ith(i).text]

-----------------------------------------------------------------------------
(* Properties *)

\* A template that has a bad tag or a block without an end is refused when it is
\* loaded, and no other.  A page is what its template means: nothing of it is
\* lost, repeated or moved, a separator stands between two items and not
\* elsewhere, a loop sees its own items and no others; and it fails exactly if
\* it comes to an #end, #sep or #else of no block.
YieldsAsWritten ==
    (\A p \in DOMAIN template : template[p].type # "open") =>
        /\ phase # "unloaded" =>
               body_.ok = ((\A p \in DOMAIN template : template[p].type # "bad")
                           /\ (template = <<>> \/ OpenBlocks(Around(Len(template)), Last(template), Len(template)) = <<>>))
        /\ phase = "yielded" =>
               /\ result.ok = \A p \in DOMAIN template : Stray(p) => Ways(p) = {}
               /\ result.ok => result.text = Written
=============================================================================
