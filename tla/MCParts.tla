------------------------------ MODULE MCParts ------------------------------
EXTENDS Parts

\* The names of types and marks, which depend on no constant.
S == INSTANCE Statement WITH QueryText <- {}, Columns <- {}
E == INSTANCE Environment WITH Texts <- {}, Contents <- {}

MCQueryText ==
    LET P == S!Placeholder
        o == S!Other
    IN  {<<P>>, <<P, o, P>>, <<P, 1, o, P, 0>>, <<P, 0, 0, 1, P>>}
MCColumns ==
    {<<S!U_TINY>>, <<S!Nullable(S!TINY), S!U_SHORT>>,
     <<S!TIME, S!Nullable(S!DATE)>>, <<S!Nullable(S!U_TINY), S!TEXT>>,
     <<S!DATE, S!Nullable(S!TIME)>>, <<S!SHORT, S!U_SHORT>>}

\* Nothing; an ampersand; an equals sign and a space; an escape of a letter.
MCTexts == {<<>>, <<38>>, <<61, 32>>, <<37, 52, 49>>}
MCContents == {<<>>, <<E!Crlf>>, <<E!NameIs, E!Quote, E!Dashes>>}

MCIds == {[i \in 1..12 |-> IF i % 3 = 1 THEN 251 ELSE 255], <<255>>, <<104, 105>>}

P(t, n) == [type |-> t, name |-> n]
MCPiece ==
    {P("text", "t"), P("var", "x"), P("if", "x"), P("for", "l"), P("end", ""), P("sep", ""), P("else", ""),
     P("bad", ""), P("open", "")}
MCArgumentList ==
    LET one(v) == [is_array |-> FALSE, value |-> v]
        array(i) == [is_array |-> TRUE, items |-> i]
    IN  {[l |-> array(<<[x |-> "1"], [y |-> "2"], [x |-> ""]>>)],
         [l |-> array(<<[y |-> "1"], [x |-> "3"]>>), x |-> one("v")],
         [l |-> one("u"), x |-> array(<<>>)]}

\* A slash, two words of paths, an id, an escaped slash, and what a path must
\* not have: a dot, a broken escape, a query, a plus.
MCUriPiece == {<<47>>, <<406>>, <<401>>, <<49, 45, 114>>, <<37, 50, 70>>, <<46>>, <<37>>, <<63>>, <<43>>}
\* "r" and "b-g"
MCColor == {<<114>>, <<98, 45, 103>>}
\* A comment, a title with spaces, a base_uri, and a line without an equals sign.
MCConfig == {<<35, 412, 61, 49>>, <<32, 412, 32, 61, 65, 61, 66, 32>>, <<411, 61, 47>>, <<412>>}
MCRow == {[sizes |-> 8 + 32 + 512, num_images |-> 0], [sizes |-> 256 + 16, num_images |-> 2]}
=============================================================================
