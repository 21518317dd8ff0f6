------------------------------ MODULE UrlEscape ------------------------------
(***************************************************************************)
(* Percent escapes, as percentEscapedToRealBytes() (http.cpp) takes them     *)
(* away, and as whoever writes a URL puts them in.  Texts are sequences of   *)
(* character codes.                                                          *)
(***************************************************************************)
EXTENDS Integers, Sequences

Space == 32
Percent == 37
Amp == 38
Plus == 43
Slash == 47
Semi == 59
Equals == 61
Question == 63

\* The value of a hexadecimal digit.  What is none, or is not there, counts for
\* nothing but is passed over.
Nibble(s, i) ==
    IF i > Len(s) THEN 0
    ELSE CASE s[i] \in 48..57 -> s[i] - 48
           [] s[i] \in 65..70 -> s[i] - 55
           [] s[i] \in 97..102 -> s[i] - 87
           [] OTHER -> 0

RECURSIVE percentEscapedToRealBytes(_)
percentEscapedToRealBytes(s) ==
    IF s = <<>> THEN <<>>
    ELSE IF Head(s) = Percent
    THEN <<Nibble(s, 2) * 16 + Nibble(s, 3)>> \o percentEscapedToRealBytes(SubSeq(s, 4, Len(s)))
    ELSE <<IF Head(s) = Plus THEN Space ELSE Head(s)>> \o percentEscapedToRealBytes(Tail(s))

-----------------------------------------------------------------------------
(* The other side *)

HexDigit(n) == IF n < 10 THEN 48 + n ELSE 55 + n

Reserved == {Space, Percent, Amp, Plus, Slash, Semi, Equals, Question}

\* A space may be written as a plus sign.
RECURSIVE Escaped(_, _)
Escaped(s, plus) ==
    IF s = <<>> THEN <<>>
    ELSE (IF Head(s) = Space /\ plus THEN <<Plus>>
          ELSE IF Head(s) \in Reserved THEN <<Percent, HexDigit(Head(s) \div 16), HexDigit(Head(s) % 16)>>
          ELSE <<Head(s)>>)
         \o Escaped(Tail(s), plus)
=============================================================================
