------------------------------- MODULE Sessions -------------------------------
(***************************************************************************)
(* Http::Sessions (http.hpp): the sessions of a site, by an id that goes to  *)
(* the client as base64 text and comes back in a cookie, until cleanup()     *)
(* finds them expired.  Times are in seconds.                                *)
(***************************************************************************)
EXTENDS Integers, Sequences, SequencesExt, Functions

CONSTANTS
    Ids,                \* the random ids there are: sequences of bytes, 12 of them
                        \* for a SessionId; other lengths ask for padding
    KeepAlive,          \* keepAlive
    CleanupFrequency,   \* cleanupFrequency
    MaxTime             \* bound: the last second

ASSUME SessionsAssumption == Ids \subseteq Seq(0..255) /\ KeepAlive \in Nat /\ CleanupFrequency \in Nat \ {0}

VARIABLES
    now,
    timestamps,     \* the sessions, and when each was last used
    cleanupTime,
    lastUse,        \* when the site last used each session it ever made
    cookie,         \* the id a client was sent, and its text; the client keeps it
    asked           \* the id a text was made of, and the one it was read as

sessionsVars == <<now, timestamps, cleanupTime, lastUse, cookie, asked>>

Never == -1

SessionsInit ==
    /\ now = 0 /\ timestamps = [i \in {} |-> 0] /\ cleanupTime = CleanupFrequency
    /\ lastUse = [i \in Ids |-> Never] /\ cookie = [id |-> <<>>, text |-> <<>>]
    /\ asked = [sent |-> <<>>, id |-> <<>>]

-----------------------------------------------------------------------------
(* base64, a character being its number in base64Characters: the bits of a    *)
(* group are those of three bytes, or of four characters                      *)

Pad == 64

\* What is behind the end gives no bits.
At(s, end, i) == IF i <= end THEN s[i] ELSE 0

OfBytes(b, g) ==
    At(b, Len(b), 3 * g + 1) * 65536 + At(b, Len(b), 3 * g + 2) * 256 + At(b, Len(b), 3 * g + 3)
OfCharacters(t, end, g) ==
    At(t, end, 4 * g + 1) * 262144 + At(t, end, 4 * g + 2) * 4096 + At(t, end, 4 * g + 3) * 64 + At(t, end, 4 * g + 4)

Byte(bits, k) == <<bits \div 65536, (bits \div 256) % 256, bits % 256>>[k]
Character(bits, k) == <<bits \div 262144, (bits \div 4096) % 64, (bits \div 64) % 64, bits % 64>>[k]

\* The last group is padded.
base64Encode(b) ==
    [i \in 1..(4 * ((Len(b) + 2) \div 3)) |->
        LET g == (i - 1) \div 4
            k == ((i - 1) % 4) + 1
        IN  IF 3 * g + k <= Len(b) + 1 THEN Character(OfBytes(b, g), k) ELSE Pad]

\* The text ends before the first pad; without one, an end of the text inside
\* a group ends it without that group.
TextEnd(t) ==
    LET pads == {i \in DOMAIN t : t[i] = Pad}
    IN  IF pads = {} THEN 4 * (Len(t) \div 4) ELSE (CHOOSE i \in pads : \A j \in pads : i <= j) - 1

base64Decode(t) ==
    [i \in 1..(3 * (TextEnd(t) \div 4) + <<0, 1, 1, 2>>[(TextEnd(t) % 4) + 1]) |->
        Byte(OfCharacters(t, TextEnd(t), (i - 1) \div 3), ((i - 1) % 3) + 1)]

-----------------------------------------------------------------------------
Tick ==
    /\ now < MaxTime /\ now' = now + 1
    /\ UNCHANGED <<timestamps, cleanupTime, lastUse, cookie, asked>>

\* Random ids are drawn until one is new.  The client is sent its text.
generate ==
    /\ \E id \in Ids \ DOMAIN timestamps :
          /\ timestamps' = [i \in {id} \cup DOMAIN timestamps |-> IF i = id THEN now ELSE timestamps[i]]
          /\ lastUse' = [lastUse EXCEPT ![id] = now]
          /\ cookie' = [id |-> id, text |-> base64Encode(id)]
    /\ UNCHANGED <<now, cleanupTime, asked>>

\* A request with the cookie: the SessionId made of its text is looked up, and
\* refresh()ed if it is there.
Visit ==
    /\ cookie.text # <<>>
    /\ LET id == base64Decode(cookie.text)
           found == id \in DOMAIN timestamps
       IN  /\ asked' = [sent |-> cookie.id, id |-> id]
           /\ timestamps' = IF found THEN [timestamps EXCEPT ![id] = now] ELSE timestamps
           /\ lastUse' = IF cookie.id \in DOMAIN timestamps THEN [lastUse EXCEPT ![cookie.id] = now] ELSE lastUse
    /\ UNCHANGED <<now, cleanupTime, cookie>>

\* A mutant of cleanup: the age of a session is taken at the time it was due.
cleanupAgain ==
    /\ now >= cleanupTime
    /\ timestamps' = Restrict(timestamps, {i \in DOMAIN timestamps : timestamps[i] >= cleanupTime - KeepAlive})
    /\ cleanupTime' = now + CleanupFrequency
    /\ UNCHANGED <<now, lastUse, cookie, asked>>

cleanup ==
    /\ now >= cleanupTime
    /\ timestamps' = Restrict(timestamps, {i \in DOMAIN timestamps : timestamps[i] >= now - KeepAlive})
    /\ cleanupTime' = now + CleanupFrequency
    /\ UNCHANGED <<now, lastUse, cookie, asked>>

SessionsNext == Tick \/ generate \/ Visit \/ cleanup

SessionsSpec == SessionsInit /\ [][SessionsNext]_sessionsVars

-----------------------------------------------------------------------------
(* Properties *)

\* The text of an id finds the session it was made for and no other; a session
\* in use within keepAlive is never lost, whatever others expire; and one that
\* had expired when cleanup() last did its work is gone.
SessionsKept ==
    /\ asked.id = asked.sent
    /\ \A i \in Ids : lastUse[i] # Never /\ now - lastUse[i] <= KeepAlive => i \in DOMAIN timestamps
    /\ \A i \in DOMAIN timestamps :
           /\ timestamps[i] = lastUse[i]
           /\ timestamps[i] >= cleanupTime - CleanupFrequency - KeepAlive
=============================================================================
