------------------------------- MODULE Address -------------------------------
(***************************************************************************)
(* Http::Address (http.cpp): an IPv6 address of 16 bytes, how it is printed  *)
(* and how a text is read, by assign() for the parameters of a request and   *)
(* by operator>> from a stream.  A text is a sequence of hexadecimal digits, *)
(* 0 to 15, and of Colon and Dot.                                            *)
(***************************************************************************)
EXTENDS Integers, Sequences, FiniteSets, SequencesExt

CONSTANTS
    Word,           \* the values of the first six words of an address
    LowWord         \* the values of the last two

Colon == 16
Dot == 17
size == 16
Zero == [i \in 1..size |-> 0]
NoPad == -1

VARIABLES
    address,        \* m_data
    text,           \* what operator<< made of it, or somebody who writes IPv4
    assigned,       \* what assign() made of the text
    extracted,      \* what operator>> made of it, whether the stream failed, and
                    \* whether it ended with the text
    step

vars == <<address, text, assigned, extracted, step>>

-----------------------------------------------------------------------------
(* operator<< *)

Words(a) == [w \in 1..8 |-> a[2 * w - 1] * 256 + a[2 * w]]

RECURSIVE Digits(_, _)
Digits(n, base) == IF n < base THEN <<n>> ELSE Append(Digits(n \div base, base), n % base)

\* The longest run of zero words, the last one of those; <<0, -1>> if none.
ZeroRun(w) ==
    LET runs == {r \in (1..8) \X (1..8) : r[1] <= r[2] /\ \A i \in r[1]..r[2] : w[i] = 0}
        longest == {r \in runs : \A q \in runs : q[2] - q[1] <= r[2] - r[1]}
    IN  IF runs = {} THEN <<0, -1>> ELSE CHOOSE r \in longest : \A q \in longest : q[1] <= r[1]

\* A mutant of IsIpv4: the run of zeros may be longer than that of an IPv4 address.
IsIpv4Loose(w) == \A i \in 1..5 : w[i] = 0

IsIpv4(w) == ZeroRun(w) = <<1, 5>> /\ w[6] = 65535

\* "standard textual decimal form (127.0.0.1)"
Dotted(a) == Digits(a[13], 10) \o <<Dot>> \o Digits(a[14], 10) \o <<Dot>> \o Digits(a[15], 10) \o <<Dot>> \o Digits(a[16], 10)

TextIpv4(a) ==
    <<Colon, Colon>> \o Digits(65535, 16) \o <<Colon>> \o Dotted(a)

TextWord(w, sub, i) ==
    IF i \in sub[1]..sub[2]
    THEN (IF i = sub[1] /\ i = 1 THEN <<Colon>> ELSE <<>>) \o (IF i = sub[2] THEN <<Colon>> ELSE <<>>)
    ELSE Digits(w[i], 16) \o (IF i < 8 THEN <<Colon>> ELSE <<>>)

TextIpv6(w) == FlattenSeq([i \in 1..8 |-> TextWord(w, ZeroRun(w), i)])

Text(a) == IF IsIpv4(Words(a)) THEN TextIpv4(a) ELSE TextIpv6(Words(a))

-----------------------------------------------------------------------------
(* assign() and operator>> *)

\* memmove() and memset() at the end of both: what follows the pad is moved to
\* the end.  Without a pad the rest of the array keeps what it had.
Spread(m, pad, old) ==
    IF pad = NoPad THEN m \o SubSeq(old, Len(m) + 1, size)
    ELSE SubSeq(m, 1, pad) \o [i \in 1..(size - Len(m)) |-> 0] \o SubSeq(m, pad + 1, Len(m))

\* The first part of an IPv4 address was read as hexadecimal digits.
Decimal(chunk) == ((chunk \div 256) % 16) * 100 + ((chunk \div 16) % 16) * 10 + (chunk % 16)

\* Http::atoi()
RECURSIVE Atoi(_, _)
Atoi(s, result) == IF s = <<>> \/ Head(s) \notin 0..9 THEN result ELSE Atoi(Tail(s), result * 10 + Head(s))

Fail == [error |-> TRUE, m |-> Zero, pad |-> NoPad, colon |-> FALSE]
Done(m, pad) == [error |-> FALSE, m |-> m, pad |-> pad, colon |-> FALSE]

\* From the first point on: an address that begins here is IPv4 without its
\* prefix.  (The two readers differ in how they find the next point in a text
\* that operator<< does not write.)
ReadIpv4(s, m, pad, chunk) ==
    LET front == IF m = <<>> THEN <<255, 255>> ELSE m
        dots == {i \in DOMAIN s : s[i] = Dot}
        part(k) == Atoi(SubSeq(s, 1 + CHOOSE i \in dots : Cardinality({j \in dots : j < i}) = k, Len(s)), 0)
    IN  IF Len(m) > 12 \/ Cardinality(dots) < 3 THEN Fail
        ELSE Done(front \o <<Decimal(chunk) % 256>> \o [k \in 1..3 |-> part(k - 1) % 256],
                  IF m = <<>> THEN 0 ELSE pad)

\* One character after the other: s is what is left, last what came before it.
RECURSIVE Read(_, _, _, _, _)
Read(s, last, m, pad, chunk) ==
    LET written == m \o <<chunk \div 256, chunk % 256>> IN
    IF s = <<>> THEN [Done(written, pad) EXCEPT !.colon = last = Colon]
    ELSE IF Head(s) = Dot THEN ReadIpv4(s, m, pad, chunk)
    ELSE IF Head(s) # Colon THEN Read(Tail(s), Head(s), m, pad, (chunk * 16 + Head(s)) % 65536)
    ELSE IF last = Colon THEN
        IF pad \notin {NoPad, Len(m)} THEN Fail ELSE Read(Tail(s), Colon, m, Len(m), chunk)
    ELSE IF Len(written) = size THEN Done(written, pad)
    ELSE Read(Tail(s), Colon, written, pad, 0)

\* The text begins like one that follows a colon.  A colon at its end is one of
\* a pair, and a zero word is written behind it.  (The code looks at what stands
\* behind the text to find that out, and passes over any colons there: whatever
\* the bytes are, the outcome is this one.)
assign(s, old) ==
    LET r == Read(s, Colon, <<>>, NoPad, 0)
        pad == IF r.colon THEN Len(r.m) - 2 ELSE r.pad
    IN  IF r.error \/ (r.colon /\ r.pad \notin {NoPad, pad}) THEN Zero ELSE Spread(r.m, pad, old)

\* operator>> wants all words or a pad; and the last number of an IPv4 address
\* takes the end of the stream for a reason to keep the old address.
extract(s, ends, old) ==
    LET r == Read(s, Colon, <<>>, NoPad, 0)
        is(a, failed) == [address |-> a, fail |-> failed, ends |-> ends]
    IN  IF r.error \/ Len(s) >= 40 \/ (r.pad = NoPad /\ Len(r.m) < size) THEN is(old, TRUE)
        ELSE IF ends /\ Dot \in ToSet(s) THEN is(old, FALSE)
        ELSE is(Spread(r.m, r.pad, old), FALSE)

-----------------------------------------------------------------------------
Init ==
    /\ address = Zero /\ text = <<>> /\ assigned = Zero
    /\ extracted = [address |-> Zero, fail |-> FALSE, ends |-> FALSE] /\ step = "set"

Set ==
    /\ step = "set" /\ step' = "print"
    /\ \E high \in [1..6 -> Word], low \in [1..2 -> LowWord] :
          LET w == high \o low
          IN  address' = [i \in 1..size |-> IF i % 2 = 1 THEN w[(i + 1) \div 2] \div 256 ELSE w[i \div 2] % 256]
    /\ UNCHANGED <<text, assigned, extracted>>

Insert ==
    /\ step = "print" /\ step' = "read"
    /\ text' = Text(address)
    /\ UNCHANGED <<address, assigned, extracted>>

Write ==
    /\ step = "print" /\ step' = "read"
    /\ IsIpv4(Words(address)) /\ text' = Dotted(address)
    /\ UNCHANGED <<address, assigned, extracted>>

\* The stream goes on behind the address, or ends with it.
Parse ==
    /\ step = "read" /\ step' = "done"
    /\ assigned' = assign(text, Zero)
    /\ \E ends \in BOOLEAN : extracted' = extract(text, ends, Zero)
    /\ UNCHANGED <<address, text>>

Next == Set \/ Insert \/ Write \/ Parse

Spec == Init /\ [][Next]_vars

-----------------------------------------------------------------------------
(* Properties *)

\* "This stream inserter" and both readers agree on every address: what is
\* printed, IPv4 in its own form and the longest run of zeros left out, is read
\* as what it was, as is "an IPv4 address in standard textual decimal form", and
\* no text is longer than the 40 characters operator>> reads and operator<< has
\* room for.  To one half of that the code does not come up: operator>> reads an
\* IPv4 address only if the stream goes on behind it; where the stream ends with
\* the address it reports no failure and leaves the address it had.
AddressesComeBack ==
    step = "done" =>
        /\ Len(text) < 40
        /\ assigned = address
        /\ ~extracted.fail
        /\ extracted.address = IF extracted.ends /\ IsIpv4(Words(address)) THEN Zero ELSE address
=============================================================================
