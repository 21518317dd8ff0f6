---------------------------- MODULE PartsProofs ----------------------------
(***************************************************************************)
(* Of the parts that one thread works with: for any number of data sets and  *)
(* of calls of reset(), the data sets of an ASql query have one owner at a   *)
(* time, and nobody but its caller stops it; and for any ids, times and      *)
(* intervals, the sessions of a site are found by their texts and stay as    *)
(* long as they are used.                                                  *)
(***************************************************************************)
EXTENDS QueryData, Sessions, SequenceTheorems, TLAPS

-----------------------------------------------------------------------------
(* The data of a query                                                      *)

Flags == {{}, {"ORIGINAL"}, {"ORIGINAL", "KEEPALIVE"}}
Form == {"row", "rows"}
Made == 1..MaxData
Outcome == {"none", "stopped", "row", "no row", "error"}
SharedData == [flags : [Field -> BOOLEAN], parameters : 0..MaxData, results : 0..MaxData,
               cancel : BOOLEAN, outcome : Outcome, unwanted : BOOLEAN]

\* Every variable keeps its type.
TypeOK ==
    /\ kind \in Query
    /\ original \in [alive : BOOLEAN, shared : Shared, flags : Flags]
    /\ items \in Shared \cup {0} /\ hand \in Shared \cup {0} /\ queue \in Seq(Shared)
    /\ pc \in {"idle", "execute", "drop", "callback"}
    /\ shared \in [Shared -> SharedData]
    /\ born \in Seq(Form) /\ Len(born) <= MaxData
    /\ deleted \in [Made -> Seq(Form)] /\ released \subseteq DOMAIN born

\* The copies: none is of shared data yet to come, the queue has one of each at
\* most and not that of the thread, and none before there is a query.
CopiesOK ==
    /\ pc = "idle" <=> hand = 0
    /\ \A i \in Shared : Copies(i) => i <= original.shared
    /\ \A m, n \in 1..Len(queue) : queue[m] = queue[n] => m = n
    /\ \A n \in 1..Len(queue) : queue[n] # hand
    /\ original.flags = {} =>
           ~original.alive /\ original.shared = 1 /\ born = <<>> /\ \A i \in Shared : ~Copies(i)

\* What the thread dereferences, now or when it comes to it, is there.
ReadyOK ==
    /\ \A n \in 1..Len(queue) : Ready(shared[queue[n]])
    /\ pc = "execute" => Ready(shared[hand])

\* A pointer of shared data is to a data set of the kind, that no other pointer
\* is to and that was not given back.
PointersOK ==
    \A i \in Shared, f \in Field : shared[i][f] # Null =>
        /\ i <= original.shared
        /\ shared[i][f] \in 1..Len(born) /\ shared[i][f] \notin released
        /\ born[shared[i][f]] = kind[f] /\ kind[f] # "none"
        /\ \A j \in Shared, g \in Field : shared[j][g] = shared[i][f] => j = i /\ g = f

\* The flags of shared data are those of the kind.
FlagsOK == \A i \in Shared : i <= original.shared /\ original.flags # {} => shared[i].flags = kind.single

Kept(d) == \E i \in Shared, f \in Field : Referenced(i) /\ shared[i][f] = d

\* A data set is deleted, once, exactly if nobody has it.
GoneOK ==
    \A d \in Made : deleted[d] = IF d \in 1..Len(born) /\ d \notin released /\ ~Kept(d) THEN <<born[d]>> ELSE <<>>

IInv == TypeOK /\ CopiesOK /\ ReadyOK /\ PointersOK /\ FlagsOK /\ GoneOK /\ StoppedOnlyByCaller

-----------------------------------------------------------------------------
(* Lemmas *)

\* The specialisations: what the arguments of QueryPar say of their data.
KindFits(k) ==
    /\ k.single = [parameters |-> k.single["parameters"], results |-> k.single["results"]]
    /\ k.single["parameters"] \in BOOLEAN /\ k.single["results"] \in BOOLEAN
    /\ k["parameters"] \in Form \cup {"none"} /\ k["results"] \in Form \cup {"none"}
    /\ k["parameters"] # "none" => k.single["parameters"] = (k["parameters"] = "row")
    /\ k["results"] # "none" => k.single["results"] = (k["results"] = "row")
    /\ k.single["results"] => k.single["parameters"]

LEMMA KindIs ==
    ASSUME NEW p \in Form \cup {"none"}, NEW r \in Form \cup {"none"}, NEW sp \in BOOLEAN, NEW sr \in BOOLEAN,
           p # "none" => sp = (p = "row"), r # "none" => sr = (r = "row"), sr => sp
    PROVE  KindFits(Kind(p, r, sp, sr))
<1> DEFINE k == Kind(p, r, sp, sr)
<1>1. /\ k["parameters"] = p /\ k["results"] = r /\ k.single = [parameters |-> sp, results |-> sr]
      /\ k.single["parameters"] = sp /\ k.single["results"] = sr
  BY DEF Kind
<1> HIDE DEF k
<1>2. QED
  BY <1>1 DEF KindFits, k

LEMMA KindOf ==
    ASSUME NEW k \in Query
    PROVE  KindFits(k)
<1>1. /\ "row" # "rows" /\ "row" # "none" /\ "rows" # "none" /\ {"row", "rows", "none"} = Form \cup {"none"}
  BY DEF Form
<1>2. KindFits(QueryNone) /\ KindFits(QueryRowToRow) /\ KindFits(QueryRowToRows)
  BY <1>1, KindIs DEF QueryNone, QueryRowToRow, QueryRowToRows
<1>3. KindFits(QueryToRow) /\ KindFits(QueryToRows) /\ KindFits(QueryRow) /\ KindFits(QueryRows)
  BY <1>1, KindIs DEF QueryToRow, QueryToRows, QueryRow, QueryRows
<1>4. QED
  BY <1>2, <1>3 DEF Query

\* What an element of a sequence is, and of what is appended to it or left of it.
LEMMA AppendOf ==
    ASSUME NEW S, NEW s \in Seq(S), NEW x \in S
    PROVE  /\ Append(s, x) \in Seq(S) /\ Len(Append(s, x)) = Len(s) + 1 /\ Len(s) \in Nat
           /\ Append(s, x)[Len(s) + 1] = x /\ \A n \in 1..Len(s) : Append(s, x)[n] = s[n]
OBVIOUS

LEMMA TailOf ==
    ASSUME NEW S, NEW s \in Seq(S), s # <<>>
    PROVE  /\ Len(s) \in Nat /\ 1 \in 1..Len(s) /\ Head(s) = s[1] /\ Head(s) \in S
           /\ Tail(s) \in Seq(S) /\ Len(Tail(s)) = Len(s) - 1
           /\ \A n \in 1..Len(Tail(s)) : n + 1 \in 1..Len(s) /\ Tail(s)[n] = s[n + 1]
<1>1. Len(s) \in Nat \ {0}
  BY EmptySeq
<1>2. QED
  BY <1>1, HeadTailProperties

\* The elements of the rest of a sequence.
LEMMA TailSet ==
    ASSUME NEW S, NEW s \in Seq(S), s # <<>>
    PROVE  \A j : j \in ToSet(Tail(s)) \/ j = s[1] <=> j \in ToSet(s)
<1>1. /\ Len(s) \in Nat /\ 1 \in 1..Len(s) /\ Tail(s) \in Seq(S) /\ Len(Tail(s)) = Len(s) - 1
      /\ \A n \in 1..Len(Tail(s)) : n + 1 \in 1..Len(s) /\ Tail(s)[n] = s[n + 1]
  BY TailOf
<1>2. DOMAIN s = 1..Len(s) /\ DOMAIN Tail(s) = 1..Len(Tail(s))
  BY <1>1, LenProperties
<1>3. ASSUME NEW n \in 1..Len(s), n # 1 PROVE n - 1 \in 1..Len(Tail(s)) /\ (n - 1) + 1 = n
  BY <1>1, <1>3
<1>4. ASSUME NEW j, j \in ToSet(Tail(s)) PROVE j \in ToSet(s)
  BY <1>1, <1>2, <1>4 DEF ToSet
<1>5. ASSUME NEW j, j \in ToSet(s), j # s[1] PROVE j \in ToSet(Tail(s))
  <2>1. PICK n \in 1..Len(s) : s[n] = j
    BY <1>2, <1>5 DEF ToSet
  <2>2. n - 1 \in 1..Len(Tail(s)) /\ Tail(s)[n - 1] = j
    BY <1>1, <1>3, <1>5, <2>1
  <2>3. QED
    BY <1>2, <2>2 DEF ToSet
<1>6. s[1] \in ToSet(s)
  BY <1>1, <1>2 DEF ToSet
<1>7. QED
  BY <1>4, <1>5, <1>6

LEMMA Queued ==
    ASSUME TypeOK, NEW i
    PROVE  i \in ToSet(queue) <=> \E n \in 1..Len(queue) : queue[n] = i
<1>1. DOMAIN queue = 1..Len(queue)
  BY LenProperties DEF TypeOK
<1>2. QED
  BY <1>1 DEF ToSet

\* A data set that is destroyed: the flag says as what.
FormOf(s, f) == IF s.flags[f] THEN "row" ELSE "rows"

LEMMA DestroyIs ==
    ASSUME NEW s, NEW f, NEW del \in [Made -> Seq(Form)], s[f] \in 0..MaxData
    PROVE  /\ Destroy(s, f, del) \in [Made -> Seq(Form)]
           /\ \A d \in Made : Destroy(s, f, del)[d] = IF d = s[f] THEN Append(del[d], FormOf(s, f)) ELSE del[d]
<1>1. FormOf(s, f) \in Form
  BY DEF FormOf, Form
<1>2. CASE s[f] = Null
  BY <1>2, QueryDataAssumption DEF Destroy, Null, Made
<1>3. CASE s[f] # Null
  <2>1. s[f] \in Made
    BY <1>3, QueryDataAssumption DEF Null, Made
  <2>2. Append(del[s[f]], FormOf(s, f)) \in Seq(Form)
    BY <1>1, <2>1, AppendOf
  <2>3. Destroy(s, f, del) = [del EXCEPT ![s[f]] = Append(@, FormOf(s, f))]
    BY <1>3 DEF Destroy, FormOf
  <2>4. QED
    BY <2>1, <2>2, <2>3
<1>4. QED
  BY <1>2, <1>3

LEMMA DestroyAllIs ==
    ASSUME NEW s, NEW del \in [Made -> Seq(Form)], s["parameters"] \in 0..MaxData, s["results"] \in 0..MaxData,
           s["parameters"] = s["results"] => s["results"] = Null
    PROVE  /\ DestroyAll(s, del) \in [Made -> Seq(Form)]
           /\ \A d \in Made : \A f \in Field : d = s[f] => DestroyAll(s, del)[d] = Append(del[d], FormOf(s, f))
           /\ \A d \in Made : (\A f \in Field : d # s[f]) => DestroyAll(s, del)[d] = del[d]
<1> DEFINE mid == Destroy(s, "results", del)
<1>1. /\ mid \in [Made -> Seq(Form)]
      /\ \A d \in Made : mid[d] = IF d = s["results"] THEN Append(del[d], FormOf(s, "results")) ELSE del[d]
  BY DestroyIs
<1> HIDE DEF mid
<1>2. /\ Destroy(s, "parameters", mid) \in [Made -> Seq(Form)]
      /\ \A d \in Made : Destroy(s, "parameters", mid)[d] =
             IF d = s["parameters"] THEN Append(mid[d], FormOf(s, "parameters")) ELSE mid[d]
  BY <1>1, DestroyIs
<1>3. DestroyAll(s, del) = Destroy(s, "parameters", mid)
  BY DEF DestroyAll, mid
<1>4. \A d \in Made : d # Null
  BY DEF Made, Null
<1>5. QED
  BY <1>1, <1>2, <1>3, <1>4 DEF Field

\* Setting a pointer of shared data.
LEMMA SetField ==
    ASSUME NEW s \in SharedData, NEW f \in Field, NEW v \in 0..MaxData
    PROVE  /\ [s EXCEPT ![f] = v] \in SharedData /\ [s EXCEPT ![f] = v][f] = v
           /\ \A g \in Field : g # f => [s EXCEPT ![f] = v][g] = s[g]
           /\ [s EXCEPT ![f] = v].flags = s.flags /\ [s EXCEPT ![f] = v].cancel = s.cancel
           /\ [s EXCEPT ![f] = v].outcome = s.outcome /\ [s EXCEPT ![f] = v].unwanted = s.unwanted
<1>1. CASE f = "parameters"
  BY <1>1 DEF SharedData, Field
<1>2. CASE f = "results"
  BY <1>2 DEF SharedData, Field
<1>3. QED
  BY <1>1, <1>2 DEF Field

LEMMA PointerTypes ==
    ASSUME TypeOK, NEW i \in Shared
    PROVE  /\ shared[i] \in SharedData /\ shared[i].flags \in [Field -> BOOLEAN]
           /\ \A f \in Field : shared[i][f] \in 0..MaxData
           /\ shared[i]["parameters"] \in 0..MaxData /\ shared[i]["results"] \in 0..MaxData
<1>1. shared[i] \in SharedData
  BY DEF TypeOK
<1>2. shared[i]["parameters"] \in 0..MaxData /\ shared[i]["results"] \in 0..MaxData
      /\ shared[i].flags \in [Field -> BOOLEAN]
  BY <1>1 DEF SharedData
<1>3. QED
  BY <1>1, <1>2 DEF Field

\* What is deleted when the last reference to shared data goes.
LEMMA DeletedAll ==
    ASSUME TypeOK, PointersOK, NEW i \in Shared
    PROVE  /\ DestroyAll(shared[i], deleted) \in [Made -> Seq(Form)]
           /\ \A d \in Made : \A f \in Field :
                  d = shared[i][f] => DestroyAll(shared[i], deleted)[d] = Append(deleted[d], FormOf(shared[i], f))
           /\ \A d \in Made :
                  (\A f \in Field : d # shared[i][f]) => DestroyAll(shared[i], deleted)[d] = deleted[d]
<1>1. deleted \in [Made -> Seq(Form)]
  BY DEF TypeOK
<1>2. "parameters" # "results" /\ "parameters" \in Field /\ "results" \in Field
  BY DEF Field
<1>3. shared[i]["parameters"] = shared[i]["results"] => shared[i]["results"] = Null
  BY <1>2 DEF PointersOK
<1>4. QED
  BY <1>1, <1>3, PointerTypes, DestroyAllIs

NewSharedType ==
    \A flags \in [Field -> BOOLEAN] : NewShared(flags) \in SharedData /\ NewShared(flags).flags = flags
        /\ NewShared(flags)["parameters"] = Null /\ NewShared(flags)["results"] = Null
        /\ ~NewShared(flags).cancel /\ \A f \in Field : NewShared(flags)[f] = Null

LEMMA NewSharedOf == NewSharedType
<1>1. SUFFICES ASSUME NEW flags \in [Field -> BOOLEAN]
               PROVE  NewShared(flags) \in SharedData /\ NewShared(flags).flags = flags
                      /\ NewShared(flags)["parameters"] = Null /\ NewShared(flags)["results"] = Null
                      /\ ~NewShared(flags).cancel
  BY DEF NewSharedType, Field
<1>2. NewShared(flags) = [flags |-> flags, parameters |-> 0, results |-> 0, cancel |-> FALSE,
                          outcome |-> "none", unwanted |-> FALSE]
  BY DEF NewShared, Null
<1>3. 0 \in 0..MaxData /\ "none" \in Outcome
  BY QueryDataAssumption DEF Outcome
<1>4. QED
  BY <1>2, <1>3 DEF SharedData, Null

LEMMA KindFlags ==
    ASSUME NEW k \in Query
    PROVE  /\ k.single \in [Field -> BOOLEAN]
           /\ \A f \in Field : k[f] \in Form \cup {"none"} /\ (k[f] # "none" => k.single[f] = (k[f] = "row"))
           /\ k.single.results => k.single.parameters
           /\ \A f \in Field : k[f] # "none" => (IF k.single[f] THEN "row" ELSE "rows") = k[f]
<1>1. KindFits(k)
  BY KindOf
<1>2. k.single \in [Field -> BOOLEAN]
  BY <1>1 DEF KindFits, Field
<1>3. \A f \in Field : k[f] \in Form \cup {"none"} /\ (k[f] # "none" => k.single[f] = (k[f] = "row"))
  BY <1>1 DEF KindFits, Field
<1>4. k.single.results => k.single.parameters
  BY <1>1 DEF KindFits
<1>5. QED
  BY <1>2, <1>3, <1>4 DEF Form

-----------------------------------------------------------------------------
(* Steps that delete nothing *)

SamePointers ==
    \A i \in Shared : shared'[i].flags = shared[i].flags /\ \A f \in Field : shared'[i][f] = shared[i][f]

PointersStay == \A i \in Shared, f \in Field : shared'[i][f] = shared[i][f]

LEMMA SameStay == SamePointers => PointersStay
BY DEF SamePointers, PointersStay

LEMMA ReadySame ==
    ASSUME NEW s, NEW t, s.flags = t.flags, \A f \in Field : s[f] = t[f], Ready(s)
    PROVE  Ready(t)
<1>1. s["parameters"] = t["parameters"] /\ s["results"] = t["results"]
  BY DEF Field
<1>2. QED
  BY <1>1 DEF Ready

\* What pointers, flags and deletions come to when only references move.
LEMMA PointersSame ==
    ASSUME TypeOK, PointersOK, FlagsOK, SamePointers, UNCHANGED <<kind, born, released>>,
           original'.shared = original.shared, original.flags # {}
    PROVE  PointersOK' /\ FlagsOK'
<1>1. PointersOK'
  BY DEF PointersOK, SamePointers
<1>2. FlagsOK'
  BY DEF FlagsOK, SamePointers
<1>3. QED
  BY <1>1, <1>2

LEMMA GoneSame ==
    ASSUME GoneOK, SamePointers, UNCHANGED <<born, released, deleted>>,
           \A i \in Shared : Referenced(i)' <=> Referenced(i)
    PROVE  GoneOK'
<1>1. ASSUME NEW d PROVE Kept(d)' <=> Kept(d)
  BY DEF Kept, SamePointers
<1>2. QED
  BY <1>1 DEF GoneOK

LEMMA ReadyStays ==
    ASSUME TypeOK, CopiesOK, ReadyOK, SamePointers, UNCHANGED <<queue, hand, pc>>
    PROVE  ReadyOK'
<1>1. ASSUME NEW n \in 1..Len(queue) PROVE Ready(shared'[queue[n]])
  <2>1. queue[n] \in Shared
    BY ElementOfSeq DEF TypeOK
  <2>2. QED
    BY <2>1, ReadySame DEF ReadyOK, SamePointers
<1>2. ASSUME pc = "execute" PROVE Ready(shared'[hand])
  <2>1. hand \in Shared
    BY <1>2 DEF TypeOK, CopiesOK
  <2>2. QED
    BY <1>2, <2>1, ReadySame DEF ReadyOK, SamePointers
<1>3. QED
  BY <1>1, <1>2 DEF ReadyOK

LEMMA OutcomeStays ==
    ASSUME TypeOK, CopiesOK, StoppedOnlyByCaller, SamePointers, UNCHANGED <<hand, pc>>,
           \A j \in Shared : shared'[j].cancel => shared'[j].unwanted,
           hand # 0 => shared'[hand].outcome = shared[hand].outcome
    PROVE  StoppedOnlyByCaller'
<1>1. pc \in {"drop", "callback"} => hand \in Shared /\ hand # 0
  BY DEF TypeOK, CopiesOK
<1>2. pc \in {"drop", "callback"} => shared'[hand].flags = shared[hand].flags
                         /\ shared'[hand]["results"] = shared[hand]["results"]
  BY <1>1 DEF SamePointers, Field
<1>3. QED
  BY <1>1, <1>2 DEF StoppedOnlyByCaller

LEMMA keepAliveKept ==
    ASSUME IInv, NEW x \in BOOLEAN, keepAlive(x)
    PROVE  IInv'
<1> USE DEF IInv
<1>1. /\ original'.alive = original.alive /\ original'.shared = original.shared /\ original.alive
  BY DEF keepAlive, TypeOK
<1>2. original.flags # {}
  BY <1>1 DEF CopiesOK
<1>10. original' \in [alive : BOOLEAN, shared : Shared, flags : Flags]
  BY <1>2 DEF keepAlive, TypeOK, Flags
<1>3. TypeOK'
  BY <1>10 DEF keepAlive, TypeOK
<1>4. SamePointers /\ UNCHANGED <<kind, born, released, deleted, items, queue, hand, pc, shared>>
  BY DEF keepAlive, SamePointers
<1>5. \A i \in Shared : (Referenced(i)' <=> Referenced(i)) /\ (Copies(i)' <=> Copies(i))
  BY <1>1, <1>4 DEF Referenced, Copies
<1>6. PointersOK' /\ FlagsOK' /\ GoneOK'
  BY <1>1, <1>2, <1>4, <1>5, PointersSame, GoneSame
<1>7. original'.flags # {}
  <2>1. "ORIGINAL" \in original.flags /\ "ORIGINAL" # "KEEPALIVE"
    BY <1>2 DEF TypeOK, Flags
  <2>2. original'.flags = IF x THEN original.flags \cup {"KEEPALIVE"} ELSE original.flags \ {"KEEPALIVE"}
    BY DEF keepAlive, TypeOK
  <2>3. QED
    BY <2>1, <2>2
<1>8. CopiesOK'
  BY <1>1, <1>4, <1>5, <1>7 DEF CopiesOK
<1>9. ReadyOK' /\ StoppedOnlyByCaller'
  BY <1>4 DEF ReadyOK, StoppedOnlyByCaller
<1>11. QED
  BY <1>3, <1>6, <1>8, <1>9

LEMMA cancelKept ==
    ASSUME IInv, cancel
    PROVE  IInv'
<1> USE DEF IInv
<1> DEFINE i == original.shared
           s == [shared[i] EXCEPT !.cancel = TRUE, !.unwanted = TRUE]
<1>1. i \in Shared /\ shared[i] \in SharedData /\ original.alive
  BY PointerTypes DEF cancel, TypeOK
<1>2. /\ s \in SharedData /\ s.flags = shared[i].flags /\ s["parameters"] = shared[i]["parameters"]
      /\ s["results"] = shared[i]["results"] /\ s.outcome = shared[i].outcome /\ s.unwanted
  BY <1>1 DEF SharedData
<1>3. shared' = [shared EXCEPT ![i] = s]
  BY <1>1 DEF cancel, TypeOK
<1> HIDE DEF s
<1>4. TypeOK' /\ UNCHANGED <<kind, original, items, queue, hand, pc, born, released, deleted>>
  BY <1>1, <1>2, <1>3 DEF cancel, TypeOK
<1>5. SamePointers
  BY <1>1, <1>2, <1>3 DEF TypeOK, SamePointers, Field
<1>6. original.flags # {}
  BY <1>1 DEF CopiesOK
<1>7. \A j \in Shared : (Referenced(j)' <=> Referenced(j)) /\ (Copies(j)' <=> Copies(j))
  BY <1>4 DEF Referenced, Copies
<1>8. PointersOK' /\ FlagsOK' /\ GoneOK'
  BY <1>4, <1>5, <1>6, <1>7, PointersSame, GoneSame
<1>9. CopiesOK'
  BY <1>4, <1>7 DEF CopiesOK
<1>10. ReadyOK'
  BY <1>4, <1>5, ReadyStays
<1>11. StoppedOnlyByCaller'
  <2>1. \A j \in Shared : shared'[j].outcome = shared[j].outcome
                          /\ (shared'[j].cancel => shared'[j].unwanted)
    BY <1>1, <1>2, <1>3 DEF TypeOK, StoppedOnlyByCaller
  <2>2. hand # 0 => hand \in Shared
    BY DEF TypeOK
  <2>3. QED
    BY <1>4, <1>5, <2>1, <2>2, OutcomeStays
<1>12. QED
  BY <1>4, <1>8, <1>9, <1>10, <1>11

\* A copy joins the queue: of shared data in order, that is not in the thread's hand.
LEMMA Joins ==
    ASSUME IInv, NEW i \in Shared, queue' = Append(queue, i), Ready(shared[i]),
           i \notin ToSet(queue), i # hand, Referenced(i), i <= original.shared,
           original.flags # {},
           UNCHANGED <<kind, original, items, hand, pc, shared, born, deleted, released>>
    PROVE  IInv'
<1> USE DEF IInv
<1>1. /\ queue' \in Seq(Shared) /\ Len(queue') = Len(queue) + 1 /\ Len(queue) \in Nat
      /\ queue'[Len(queue) + 1] = i /\ \A n \in 1..Len(queue) : queue'[n] = queue[n]
  BY AppendOf DEF TypeOK
<1>2. TypeOK'
  BY <1>1 DEF TypeOK
<1>3. \A j : j \in ToSet(queue)' <=> j \in ToSet(queue) \/ j = i
  <2>1. ASSUME NEW j PROVE j \in ToSet(queue') <=> \E n \in 1..Len(queue') : queue'[n] = j
    <3>1. DOMAIN queue' = 1..Len(queue')
      BY <1>1, LenProperties
    <3>2. QED
      BY <3>1 DEF ToSet
  <2>2. 1..Len(queue') = 1..Len(queue) \cup {Len(queue) + 1}
    BY <1>1
  <2>3. QED
    BY <1>1, <2>1, <2>2, Queued
<1>4. \A j \in Shared : /\ Copies(j)' <=> Copies(j) \/ j = i
                        /\ Referenced(j)' <=> Referenced(j)
  BY <1>3 DEF Copies, Referenced
<1>5. SamePointers
  BY DEF SamePointers
<1>6. PointersOK' /\ FlagsOK' /\ GoneOK'
  BY <1>4, <1>5, PointersSame, GoneSame
<1>7. \A n \in 1..Len(queue) : queue[n] # i
  BY Queued
<1>8. \A n \in 1..Len(queue') : n \in 1..Len(queue) \/ n = Len(queue) + 1
  BY <1>1
<1>9. CopiesOK'
  <2>1. \A m, n \in 1..Len(queue') : queue'[m] = queue'[n] => m = n
    BY <1>1, <1>7, <1>8 DEF CopiesOK
  <2>2. \A n \in 1..Len(queue') : queue'[n] # hand'
    BY <1>1, <1>8 DEF CopiesOK
  <2>3. \A j \in Shared : Copies(j)' => j <= original'.shared
    BY <1>4 DEF CopiesOK
  <2>4. QED
    BY <2>1, <2>2, <2>3 DEF CopiesOK
<1>10. ReadyOK'
  BY <1>1, <1>8 DEF ReadyOK
<1>11. StoppedOnlyByCaller'
  BY DEF StoppedOnlyByCaller
<1>12. QED
  BY <1>2, <1>6, <1>9, <1>10, <1>11

LEMMA QueueAloneKept == ASSUME IInv, QueueAlone PROVE IInv'
<1>1. original.shared \in Shared /\ original.flags # {} /\ original.alive /\ original.shared <= original.shared
  BY DEF IInv, TypeOK, CopiesOK, QueueAlone, Shared
<1>2. original.shared \notin ToSet(queue) /\ original.shared # hand /\ Referenced(original.shared)
  BY <1>1 DEF QueueAlone, busy, Copies, Referenced
<1>3. QED
  BY <1>1, <1>2, Joins DEF QueueAlone

LEMMA StartTransactionKept == ASSUME IInv, StartTransaction PROVE IInv'
<1>1. items \in Shared /\ Copies(items) /\ Referenced(items)
  BY DEF IInv, TypeOK, StartTransaction, Copies, Referenced
<1>2. items <= original.shared /\ original.flags # {}
  BY <1>1 DEF IInv, CopiesOK
<1>3. QED
  BY <1>1, <1>2, Joins DEF StartTransaction

LEMMA PushKept == ASSUME IInv, Push PROVE IInv'
<1> USE DEF IInv
<1>1. /\ original.shared \in Shared /\ original.flags # {} /\ original.alive /\ items = 0
      /\ items' = original.shared
      /\ UNCHANGED <<kind, original, queue, hand, pc, shared, born, deleted, released>>
  BY DEF TypeOK, CopiesOK, Push
<1>2. TypeOK'
  BY <1>1 DEF TypeOK
<1>3. \A j \in Shared : j # 0
  BY DEF Shared
<1>4. \A j \in Shared : /\ Copies(j)' <=> Copies(j) \/ j = original.shared
                        /\ Referenced(j)' <=> Referenced(j)
  BY <1>1, <1>3 DEF Copies, Referenced
<1>5. SamePointers
  BY <1>1 DEF SamePointers
<1>6. PointersOK' /\ FlagsOK' /\ GoneOK'
  BY <1>1, <1>4, <1>5, PointersSame, GoneSame
<1>7. CopiesOK'
  <2>1. \A j \in Shared : Copies(j)' => j <= original'.shared
    BY <1>1, <1>4 DEF CopiesOK, Shared
  <2>2. QED
    BY <1>1, <2>1 DEF CopiesOK
<1>8. ReadyOK' /\ StoppedOnlyByCaller'
  BY <1>1 DEF ReadyOK, StoppedOnlyByCaller
<1>9. QED
  BY <1>2, <1>6, <1>7, <1>8

LEMMA TakeKept == ASSUME IInv, Take PROVE IInv'
<1> USE DEF IInv
<1>1. /\ pc = "idle" /\ hand = 0 /\ queue # <<>> /\ hand' = queue[1] /\ queue' = Tail(queue) /\ pc' = "execute"
      /\ UNCHANGED <<kind, original, items, shared, born, deleted, released>>
  BY TailOf DEF TypeOK, CopiesOK, Take
<1>2. /\ Len(queue) \in Nat /\ 1 \in 1..Len(queue) /\ queue[1] \in Shared
      /\ queue' \in Seq(Shared) /\ Len(queue') = Len(queue) - 1
      /\ \A n \in 1..Len(queue') : n + 1 \in 1..Len(queue) /\ queue'[n] = queue[n + 1]
  BY <1>1, TailOf DEF TypeOK
<1>3. TypeOK'
  BY <1>1, <1>2 DEF TypeOK
<1>4. \A j \in Shared : j # 0
  BY DEF Shared
<1>5. \A j : j \in ToSet(queue)' \/ j = queue[1] <=> j \in ToSet(queue)
  BY <1>1, TailSet DEF TypeOK
<1>6. \A j \in Shared : (Copies(j)' <=> Copies(j)) /\ (Referenced(j)' <=> Referenced(j))
  BY <1>1, <1>4, <1>5 DEF Copies, Referenced
<1>7. SamePointers /\ Copies(queue[1])
  BY <1>1, <1>5 DEF SamePointers, Copies
<1>8. original.flags # {}
  BY <1>2, <1>7 DEF CopiesOK
<1>9. PointersOK' /\ FlagsOK' /\ GoneOK'
  BY <1>1, <1>6, <1>7, <1>8, PointersSame, GoneSame
<1>10. CopiesOK'
  <2>1. \A m, n \in 1..Len(queue') : queue'[m] = queue'[n] => m = n
    BY <1>2 DEF CopiesOK
  <2>2. \A n \in 1..Len(queue') : queue'[n] # queue[1]
    BY <1>2 DEF CopiesOK
  <2>3. hand' # 0
    BY <1>1, <1>2, <1>4
  <2>4. QED
    BY <1>1, <1>6, <1>8, <2>1, <2>2, <2>3 DEF CopiesOK
<1>11. ReadyOK'
  BY <1>1, <1>2 DEF ReadyOK
<1>12. StoppedOnlyByCaller'
  BY <1>1 DEF StoppedOnlyByCaller
<1>13. QED
  BY <1>3, <1>9, <1>10, <1>11, <1>12

-----------------------------------------------------------------------------
(* Steps that take a reference away *)

\* If it was the last, what the shared data pointed to is deleted, as what it is.
LEMMA GoneUnref ==
    ASSUME TypeOK, PointersOK, FlagsOK, GoneOK, NEW i \in Shared, NEW last \in BOOLEAN,
           Referenced(i), i <= original.shared, original.flags # {},
           PointersStay, UNCHANGED <<born, released>>,
           deleted' = IF last THEN DestroyAll(shared[i], deleted) ELSE deleted,
           \A j \in Shared : j <= original.shared => (Referenced(j)' <=> Referenced(j) /\ (j # i \/ ~last))
    PROVE  GoneOK' /\ deleted' \in [Made -> Seq(Form)]
<1>1. CASE ~last
  <2>1. \A j \in Shared : j <= original.shared => (Referenced(j)' <=> Referenced(j))
    BY <1>1
  <2>2. deleted' = deleted
    BY <1>1
  <2>3. ASSUME NEW d \in Made PROVE Kept(d)' <=> Kept(d)
    <3>1. \A j \in Shared, f \in Field : shared[j][f] = d => j <= original.shared
      BY DEF PointersOK, Made, Null
    <3>2. QED
      BY <2>1, <3>1 DEF Kept, PointersStay
  <2>4. QED
    BY <2>2, <2>3 DEF GoneOK, TypeOK
<1>2. CASE last
  <2>1. /\ deleted' = DestroyAll(shared[i], deleted)
        /\ \A j \in Shared : j <= original.shared => (Referenced(j)' <=> Referenced(j) /\ j # i)
    BY <1>2
  <2>2. ASSUME NEW d \in Made, NEW f \in Field, d = shared[i][f]
        PROVE  deleted'[d] = IF d \in 1..Len(born) /\ d \notin released /\ ~Kept(d)' THEN <<born[d]>> ELSE <<>>
    <3>1. /\ d # Null /\ d \in 1..Len(born) /\ d \notin released
          /\ born[d] = kind[f] /\ kind[f] # "none"
          /\ \A j \in Shared, g \in Field : shared[j][g] = d => j = i /\ g = f
      BY <2>2 DEF PointersOK, Made, Null
    <3>2. Kept(d)
      BY <2>2 DEF Kept
    <3>3. deleted[d] = <<>>
      BY <3>2 DEF GoneOK
    <3>4. ~Kept(d)'
      BY <2>1, <3>1 DEF Kept, PointersStay
    <3>5. FormOf(shared[i], f) = born[d]
      BY <3>1, KindFlags DEF FormOf, FlagsOK, TypeOK
    <3>6. deleted'[d] = Append(<<>>, born[d])
      BY <2>1, <2>2, <3>3, <3>5, DeletedAll
    <3>7. Append(<<>>, born[d]) = <<born[d]>>
      OBVIOUS
    <3>8. QED
      BY <3>1, <3>4, <3>6, <3>7
  <2>3. ASSUME NEW d \in Made, \A f \in Field : d # shared[i][f]
        PROVE  deleted'[d] = deleted[d] /\ (Kept(d)' <=> Kept(d))
    <3>1. deleted'[d] = deleted[d]
      BY <2>1, <2>3, DeletedAll
    <3>2. \A j \in Shared, f \in Field : shared[j][f] = d => j <= original.shared /\ j # i
      BY <2>3 DEF PointersOK, Made, Null
    <3>3. Kept(d)' <=> Kept(d)
      BY <2>1, <3>2 DEF Kept, PointersStay
    <3>4. QED
      BY <3>1, <3>3
  <2>4. GoneOK'
    BY <2>2, <2>3 DEF GoneOK
  <2>5. QED
    BY <2>1, <2>4, DeletedAll
<1>3. QED
  BY <1>1, <1>2

LEMMA ClearKept == ASSUME IInv, Clear PROVE IInv'
<1> USE DEF IInv
<1> DEFINE last == ~(original.alive /\ original.shared = items) /\ hand # items /\ items \notin ToSet(queue)
<1>1. /\ items \in Shared /\ items # 0 /\ items' = 0
      /\ UNCHANGED <<kind, original, queue, hand, pc, shared, born, released>>
      /\ deleted' = IF last THEN DestroyAll(shared[items], deleted) ELSE deleted
  BY DEF TypeOK, Clear, Unref
<1>2. Copies(items) /\ Referenced(items)
  BY <1>1 DEF Copies, Referenced
<1>3. items <= original.shared /\ original.flags # {}
  BY <1>1, <1>2 DEF CopiesOK
<1>4. \A j \in Shared : j # 0
  BY DEF Shared
<1>5. \A j \in Shared : /\ Copies(j)' => Copies(j)
                        /\ Referenced(j)' <=> Referenced(j) /\ (j # items \/ ~last)
  BY <1>1, <1>4 DEF Copies, Referenced
<1>6. SamePointers /\ last \in BOOLEAN
  BY <1>1 DEF SamePointers
<1> HIDE DEF last
<1>7. GoneOK' /\ deleted' \in [Made -> Seq(Form)]
  BY <1>1, <1>2, <1>3, <1>5, <1>6, GoneUnref, SameStay
<1>8. TypeOK'
  BY <1>1, <1>7 DEF TypeOK
<1>9. PointersOK' /\ FlagsOK'
  BY <1>1, <1>3, <1>6, PointersSame
<1>10. CopiesOK'
  BY <1>1, <1>3, <1>5 DEF CopiesOK
<1>11. ReadyOK' /\ StoppedOnlyByCaller'
  BY <1>1 DEF ReadyOK, StoppedOnlyByCaller
<1>12. QED
  BY <1>7, <1>8, <1>9, <1>10, <1>11

LEMMA DoneKept == ASSUME IInv, Done PROVE IInv'
<1> USE DEF IInv
<1> DEFINE last == ~(original.alive /\ original.shared = hand) /\ items # hand /\ hand \notin ToSet(queue)
<1>1. /\ hand \in Shared /\ hand # 0 /\ hand' = 0 /\ pc' = "idle"
      /\ UNCHANGED <<kind, original, items, queue, shared, born, released>>
      /\ deleted' = IF last THEN DestroyAll(shared[hand], deleted) ELSE deleted
  BY DEF TypeOK, CopiesOK, Done, Unref
<1>2. Copies(hand) /\ Referenced(hand)
  BY <1>1 DEF Copies, Referenced
<1>3. hand <= original.shared /\ original.flags # {}
  BY <1>1, <1>2 DEF CopiesOK
<1>4. \A j \in Shared : j # 0
  BY DEF Shared
<1>5. \A j \in Shared : /\ Copies(j)' => Copies(j)
                        /\ Referenced(j)' <=> Referenced(j) /\ (j # hand \/ ~last)
  BY <1>1, <1>4 DEF Copies, Referenced
<1>6. SamePointers /\ last \in BOOLEAN
  BY <1>1 DEF SamePointers
<1> HIDE DEF last
<1>7. GoneOK' /\ deleted' \in [Made -> Seq(Form)]
  BY <1>1, <1>2, <1>3, <1>5, <1>6, GoneUnref, SameStay
<1>8. TypeOK'
  BY <1>1, <1>7 DEF TypeOK
<1>9. PointersOK' /\ FlagsOK'
  BY <1>1, <1>3, <1>6, PointersSame
<1>10. CopiesOK'
  <2>1. \A n \in 1..Len(queue) : queue[n] # 0
    BY <1>4, ElementOfSeq DEF TypeOK
  <2>2. QED
    BY <1>1, <1>3, <1>5, <2>1 DEF CopiesOK
<1>11. ReadyOK' /\ StoppedOnlyByCaller'
  BY <1>1 DEF ReadyOK, StoppedOnlyByCaller
<1>12. QED
  BY <1>7, <1>8, <1>9, <1>10, <1>11

LEMMA DropKept == ASSUME IInv, Drop PROVE IInv'
<1> USE DEF IInv
<1>1. pc = "drop" /\ UNCHANGED <<kind, original, items, hand, shared, born, released>>
  BY DEF Drop
<1>2. CASE queue = <<>>
  <2>1. pc' = "callback" /\ queue' = queue /\ deleted' = deleted
    BY <1>2 DEF Drop
  <2>2. \A j \in Shared : (Copies(j)' <=> Copies(j)) /\ (Referenced(j)' <=> Referenced(j))
    BY <1>1, <2>1 DEF Copies, Referenced
  <2>3. SamePointers /\ hand \in Shared
    BY <1>1 DEF SamePointers, TypeOK, CopiesOK
  <2>4. original.flags # {}
    BY <2>3 DEF CopiesOK, Copies
  <2>5. PointersOK' /\ FlagsOK' /\ GoneOK'
    BY <1>1, <2>1, <2>2, <2>3, <2>4, PointersSame, GoneSame
  <2>6. TypeOK' /\ CopiesOK'
    BY <1>1, <2>1, <2>2 DEF TypeOK, CopiesOK
  <2>7. ReadyOK' /\ StoppedOnlyByCaller'
    BY <1>1, <2>1 DEF ReadyOK, StoppedOnlyByCaller
  <2>8. QED
    BY <2>5, <2>6, <2>7
<1>3. CASE queue # <<>>
  <2> DEFINE i == queue[1]
             last == ~(original.alive /\ original.shared = i) /\ items # i /\ hand # i /\ i \notin ToSet(queue')
  <2>1. Head(queue) = i /\ pc' = pc /\ queue' = Tail(queue)
        /\ deleted' = IF last THEN DestroyAll(shared[i], deleted) ELSE deleted
    BY <1>3, TailOf DEF TypeOK, Drop, Unref
  <2>2. /\ Len(queue) \in Nat /\ 1 \in 1..Len(queue) /\ i \in Shared
        /\ queue' \in Seq(Shared) /\ Len(queue') = Len(queue) - 1
        /\ \A n \in 1..Len(queue') : n + 1 \in 1..Len(queue) /\ queue'[n] = queue[n + 1]
    BY <1>3, <2>1, TailOf DEF TypeOK
  <2>3. \A j : j \in ToSet(queue') \/ j = i <=> j \in ToSet(queue)
    BY <1>3, <2>1, TailSet DEF TypeOK
  <2>4. Copies(i) /\ Referenced(i)
    BY <2>3 DEF Copies, Referenced
  <2>5. i <= original.shared /\ original.flags # {}
    BY <2>2, <2>4 DEF CopiesOK
  <2>6. \A j \in Shared : /\ Copies(j)' => Copies(j)
                          /\ Referenced(j)' <=> Referenced(j) /\ (j # i \/ ~last)
    BY <1>1, <2>3 DEF Copies, Referenced
  <2>7. SamePointers /\ last \in BOOLEAN
    BY <1>1 DEF SamePointers
  <2> HIDE DEF last
  <2>8. GoneOK' /\ deleted' \in [Made -> Seq(Form)]
    BY <1>1, <2>1, <2>2, <2>4, <2>5, <2>6, <2>7, GoneUnref, SameStay
  <2>9. TypeOK'
    BY <1>1, <2>1, <2>2, <2>8 DEF TypeOK
  <2>10. PointersOK' /\ FlagsOK'
    BY <1>1, <2>5, <2>7, PointersSame
  <2>11. CopiesOK'
    <3>1. \A m, n \in 1..Len(queue') : queue'[m] = queue'[n] => m = n
      BY <2>2 DEF CopiesOK
    <3>2. \A n \in 1..Len(queue') : queue'[n] # hand
      BY <2>2 DEF CopiesOK
    <3>3. QED
      BY <1>1, <2>1, <2>5, <2>6, <3>1, <3>2 DEF CopiesOK
  <2>12. ReadyOK' /\ StoppedOnlyByCaller'
    BY <1>1, <2>1, <2>2 DEF ReadyOK, StoppedOnlyByCaller
  <2>13. QED
    BY <2>8, <2>9, <2>10, <2>11, <2>12
<1>4. QED
  BY <1>2, <1>3

LEMMA DestructKept == ASSUME IInv, Destruct PROVE IInv'
<1> USE DEF IInv
<1> DEFINE i == original.shared
           c == original.flags = {"ORIGINAL"}
           s == [shared[i] EXCEPT !.cancel = @ \/ c, !.unwanted = @ \/ c]
           last == ~busy
<1>1. /\ i \in Shared /\ shared[i] \in SharedData /\ original.alive /\ Referenced(i) /\ original.flags # {}
      /\ i <= original.shared
  BY PointerTypes DEF Destruct, TypeOK, Referenced, CopiesOK, Shared
<1>2. /\ s \in SharedData /\ s.flags = shared[i].flags /\ s["parameters"] = shared[i]["parameters"]
      /\ s["results"] = shared[i]["results"] /\ s.outcome = shared[i].outcome
      /\ s.cancel = (shared[i].cancel \/ c) /\ s.unwanted = (shared[i].unwanted \/ c)
  BY <1>1 DEF SharedData
<1>3. shared' = [shared EXCEPT ![i] = s]
  BY <1>1 DEF Destruct, TypeOK
<1> HIDE DEF s
<1>4. /\ original' = [original EXCEPT !.alive = FALSE]
      /\ UNCHANGED <<kind, items, queue, hand, pc, born, released>>
      /\ deleted' = IF last THEN DestroyAll(shared[i], deleted) ELSE deleted
  BY DEF Destruct, Unref
<1>5. /\ original'.shared = i /\ original'.flags = original.flags /\ ~original'.alive
      /\ original' \in [alive : BOOLEAN, shared : Shared, flags : Flags]
  BY <1>4 DEF TypeOK
<1>6. SamePointers
  BY <1>1, <1>2, <1>3 DEF TypeOK, SamePointers, Field
<1>7. \A j \in Shared : /\ Copies(j)' <=> Copies(j)
                        /\ Referenced(j)' <=> Referenced(j) /\ (j # i \/ ~last)
  BY <1>1, <1>4, <1>5 DEF Referenced, Copies, busy
<1>8. last \in BOOLEAN
  OBVIOUS
<1> HIDE DEF last
<1>9. GoneOK' /\ deleted' \in [Made -> Seq(Form)]
  BY <1>1, <1>4, <1>6, <1>7, <1>8, GoneUnref, SameStay
<1>10. TypeOK'
  BY <1>1, <1>2, <1>3, <1>4, <1>5, <1>9 DEF TypeOK
<1>11. PointersOK' /\ FlagsOK'
  BY <1>1, <1>4, <1>5, <1>6, PointersSame
<1>12. CopiesOK'
  BY <1>1, <1>4, <1>5, <1>7 DEF CopiesOK
<1>13. ReadyOK'
  BY <1>4, <1>6, ReadyStays
<1>14. StoppedOnlyByCaller'
  <2>1. \A j \in Shared : shared'[j].outcome = shared[j].outcome
                          /\ (shared'[j].cancel => shared'[j].unwanted)
    BY <1>1, <1>2, <1>3 DEF TypeOK, StoppedOnlyByCaller
  <2>2. hand # 0 => hand \in Shared
    BY DEF TypeOK
  <2>3. QED
    BY <1>4, <1>6, <2>1, <2>2, OutcomeStays
<1>15. QED
  BY <1>9, <1>10, <1>11, <1>12, <1>13, <1>14

LEMMA resetKept == ASSUME IInv, reset PROVE IInv'
<1> USE DEF IInv
<1> DEFINE i == original.shared
           s == NewShared(shared[i].flags)
           last == ~busy
<1>1. /\ i \in Shared /\ i + 1 \in Shared /\ i \in Nat /\ shared[i] \in SharedData /\ original.alive /\ Referenced(i)
      /\ original.flags # {} /\ i <= original.shared
  BY PointerTypes, QueryDataAssumption DEF reset, TypeOK, Referenced, CopiesOK, Shared
<1>2. /\ s \in SharedData /\ s.flags = shared[i].flags /\ \A f \in Field : s[f] = Null
      /\ ~s.cancel
  BY <1>1, PointerTypes, NewSharedOf DEF NewSharedType
<1>3. /\ original' = [original EXCEPT !.shared = @ + 1, !.flags = {"ORIGINAL"}]
      /\ UNCHANGED <<kind, items, queue, hand, pc, born, released>>
      /\ deleted' = IF last THEN DestroyAll(shared[i], deleted) ELSE deleted
  BY DEF reset, Unref
<1>4. /\ original'.shared = i + 1 /\ original'.flags = {"ORIGINAL"} /\ original'.alive
      /\ original' \in [alive : BOOLEAN, shared : Shared, flags : Flags]
  BY <1>1, <1>3 DEF TypeOK, Flags
<1>5. shared' = [shared EXCEPT ![i + 1] = s]
  BY <1>4 DEF reset
<1> HIDE DEF s
<1>6. ~Copies(i + 1) /\ ~Referenced(i + 1) /\ \A f \in Field : shared[i + 1][f] = Null
  BY <1>1 DEF CopiesOK, Referenced, PointersOK
<1>7. PointersStay
  BY <1>1, <1>2, <1>5, <1>6 DEF PointersStay, TypeOK
<1>8. \A j \in Shared : /\ Copies(j)' <=> Copies(j)
                        /\ j <= i => (Referenced(j)' <=> Referenced(j) /\ (j # i \/ ~last))
  BY <1>1, <1>3, <1>4 DEF Referenced, Copies, busy
<1>9. last \in BOOLEAN
  OBVIOUS
<1> HIDE DEF last
<1>10. GoneOK' /\ deleted' \in [Made -> Seq(Form)]
  BY <1>1, <1>3, <1>7, <1>8, <1>9, GoneUnref
<1>11. TypeOK'
  BY <1>1, <1>2, <1>3, <1>4, <1>5, <1>10 DEF TypeOK
<1>12. PointersOK'
  <2>1. \A j \in Shared : j <= original.shared => j <= original'.shared
    BY <1>1, <1>4 DEF Shared
  <2>2. QED
    BY <1>3, <1>7, <2>1 DEF PointersOK, PointersStay
<1>13. FlagsOK'
  <2>1. \A j \in Shared : j <= i + 1 => j <= i \/ j = i + 1
    BY <1>1 DEF Shared
  <2>2. shared[i].flags = kind.single
    BY <1>1 DEF FlagsOK
  <2>3. \A j \in Shared : shared'[j].flags = IF j = i + 1 THEN shared[i].flags ELSE shared[j].flags
    BY <1>1, <1>2, <1>5 DEF TypeOK
  <2>4. QED
    BY <1>1, <1>3, <1>4, <2>1, <2>2, <2>3 DEF FlagsOK
<1>14. CopiesOK'
  <2>1. \A j \in Shared : Copies(j)' => j <= i + 1
    BY <1>1, <1>8 DEF CopiesOK, Shared
  <2>2. original'.flags # {}
    BY <1>4
  <2>3. QED
    BY <1>3, <1>4, <2>1, <2>2 DEF CopiesOK
<1>15. \A j \in Shared : Copies(j) => shared'[j] = shared[j]
  BY <1>1, <1>5, <1>6 DEF TypeOK
<1>16. hand # 0 => hand \in Shared /\ Copies(hand)
  BY DEF TypeOK, Copies
<1>17. ReadyOK'
  <2>1. \A n \in 1..Len(queue) : queue[n] \in Shared /\ Copies(queue[n])
    BY ElementOfSeq, Queued DEF TypeOK, Copies
  <2>2. QED
    BY <1>3, <1>15, <1>16, <2>1 DEF ReadyOK, CopiesOK
<1>18. StoppedOnlyByCaller'
  <2>1. \A j \in Shared : shared'[j].cancel => shared'[j].unwanted
    BY <1>1, <1>2, <1>5 DEF TypeOK, StoppedOnlyByCaller
  <2>2. pc \in {"drop", "callback"} => shared'[hand] = shared[hand]
    BY <1>15, <1>16 DEF CopiesOK
  <2>3. QED
    BY <1>3, <2>1, <2>2 DEF StoppedOnlyByCaller
<1>19. QED
  BY <1>10, <1>11, <1>12, <1>13, <1>14, <1>17, <1>18

LEMMA ConstructKept == ASSUME IInv, NEW k \in Query, Construct(k) PROVE IInv'
<1> USE DEF IInv
<1> DEFINE s == NewShared(k.single)
<1>1. /\ kind' = k /\ ~original.alive /\ original.flags = {}
      /\ original' = [alive |-> TRUE, shared |-> 1, flags |-> {"ORIGINAL"}]
      /\ shared' = [shared EXCEPT ![1] = s]
      /\ UNCHANGED <<items, queue, hand, pc, born, deleted, released>>
  BY DEF Construct
<1>2. /\ s \in SharedData /\ s.flags = k.single /\ \A f \in Field : s[f] = Null
      /\ ~s.cancel
  BY KindFlags, NewSharedOf DEF NewSharedType
<1> HIDE DEF s
<1>3. 1 \in Shared /\ original.shared = 1 /\ born = <<>> /\ \A i \in Shared : ~Copies(i)
  BY <1>1, QueryDataAssumption DEF CopiesOK, Shared
<1>4. original' \in [alive : BOOLEAN, shared : Shared, flags : Flags] /\ original'.flags # {} /\ original'.shared = 1
  BY <1>1, <1>3 DEF Flags
<1>5. TypeOK'
  BY <1>1, <1>2, <1>4 DEF TypeOK
<1>6. Len(born) = 0
  BY <1>3
<1>7. \A i \in Shared, f \in Field : shared'[i][f] = Null
  BY <1>1, <1>2, <1>6 DEF PointersOK, TypeOK
<1>8. PointersOK' /\ GoneOK'
  BY <1>1, <1>6, <1>7 DEF PointersOK, GoneOK
<1>9. FlagsOK'
  BY <1>1, <1>2, <1>4 DEF FlagsOK, TypeOK, Shared
<1>10. hand = 0
  BY <1>3 DEF TypeOK, Copies
<1>11. \A n \in 1..Len(queue) : FALSE
  <2>1. \A n \in 1..Len(queue) : queue[n] \in Shared /\ Copies(queue[n])
    BY ElementOfSeq, Queued DEF TypeOK, Copies
  <2>2. QED
    BY <1>3, <2>1
<1>12. \A i \in Shared : ~Copies(i)'
  BY <1>1, <1>3 DEF Copies
<1>13. CopiesOK'
  BY <1>1, <1>4, <1>11, <1>12 DEF CopiesOK
<1>14. pc = "idle"
  BY <1>10 DEF CopiesOK
<1>15. ReadyOK'
  BY <1>1, <1>11, <1>14 DEF ReadyOK
<1>16. StoppedOnlyByCaller'
  BY <1>1, <1>2, <1>3, <1>14 DEF StoppedOnlyByCaller, TypeOK
<1>17. QED
  BY <1>5, <1>8, <1>9, <1>13, <1>15, <1>16

-----------------------------------------------------------------------------
(* Steps that change a pointer *)

\* Pointer f of shared data i becomes v, and no other changes.
Points(i, f, v) == \A j \in Shared, g \in Field : shared'[j][g] = IF j = i /\ g = f THEN v ELSE shared[j][g]

\* What it pointed to is deleted; it is to nothing now, or to a new data set.
LEMMA PointerReplaced ==
    ASSUME TypeOK, PointersOK, FlagsOK, GoneOK, NEW i \in Shared, NEW f \in Field, NEW v \in 0..MaxData,
           Referenced(i), i <= original.shared, original.flags # {},
           Points(i, f, v), UNCHANGED <<kind, original, released>>,
           deleted' = Destroy(shared[i], f, deleted),
           \A j \in Shared : Referenced(j)' <=> Referenced(j),
           \A d \in 1..Len(born) : born'[d] = born[d],
           \/ v = Null /\ Len(born') = Len(born)
           \/ v = Len(born) + 1 /\ Len(born') = v /\ born'[v] = kind[f] /\ kind[f] # "none"
    PROVE  GoneOK' /\ deleted' \in [Made -> Seq(Form)] /\ PointersOK'
<1>1. /\ deleted \in [Made -> Seq(Form)] /\ shared[i][f] \in 0..MaxData /\ Len(born) \in Nat
      /\ released \subseteq 1..Len(born)
  BY PointerTypes, LenProperties DEF TypeOK
<1>2. /\ deleted' \in [Made -> Seq(Form)]
      /\ \A d \in Made : deleted'[d] = IF d = shared[i][f] THEN Append(deleted[d], FormOf(shared[i], f)) ELSE deleted[d]
  BY <1>1, DestroyIs
<1>3. \A j \in Shared, g \in Field : shared[j][g] # Null => shared[j][g] \in 1..Len(born)
  BY DEF PointersOK
<1>4. v # Null => v \notin 1..Len(born) /\ v \in 1..Len(born')
  BY <1>1 DEF Null
<1>5. \A d \in 1..Len(born) : d \in 1..Len(born')
  BY <1>1
<1>6. PointersOK'
  <2>1. SUFFICES ASSUME NEW j \in Shared, NEW g \in Field, shared'[j][g] # Null
                 PROVE  /\ j <= original.shared
                        /\ shared'[j][g] \in 1..Len(born') /\ shared'[j][g] \notin released
                        /\ born'[shared'[j][g]] = kind[g] /\ kind[g] # "none"
                        /\ \A k \in Shared, h \in Field : shared'[k][h] = shared'[j][g] => k = j /\ h = g
    BY DEF PointersOK
  <2>2. CASE j = i /\ g = f
    <3>1. shared'[j][g] = v
      BY <2>2 DEF Points
    <3>2. \A k \in Shared, h \in Field : shared'[k][h] = v => k = i /\ h = f
      BY <1>3, <1>4, <2>1, <3>1 DEF Points
    <3>3. QED
      BY <1>1, <1>4, <2>1, <2>2, <3>1, <3>2 DEF Null
  <2>3. CASE ~(j = i /\ g = f)
    <3>1. shared'[j][g] = shared[j][g] /\ shared[j][g] # Null
      BY <2>1, <2>3 DEF Points
    <3>2. /\ j <= original.shared /\ shared[j][g] \in 1..Len(born) /\ shared[j][g] \notin released
          /\ born[shared[j][g]] = kind[g] /\ kind[g] # "none"
          /\ \A k \in Shared, h \in Field : shared[k][h] = shared[j][g] => k = j /\ h = g
      BY <3>1 DEF PointersOK
    <3>3. \A k \in Shared, h \in Field : shared'[k][h] = shared[j][g] => k = j /\ h = g
      BY <1>4, <3>1, <3>2 DEF Points
    <3>4. QED
      BY <1>5, <3>1, <3>2, <3>3
  <2>4. QED
    BY <2>2, <2>3
<1>7. GoneOK'
  <2>1. SUFFICES ASSUME NEW d \in Made
                 PROVE  deleted'[d] = IF d \in 1..Len(born') /\ d \notin released /\ ~Kept(d)'
                                      THEN <<born'[d]>> ELSE <<>>
    BY DEF GoneOK
  <2>2. d # Null
    BY DEF Made, Null
  <2>3. CASE d = shared[i][f]
    <3>1. /\ d \in 1..Len(born) /\ d \notin released
          /\ born[d] = kind[f] /\ kind[f] # "none"
          /\ \A j \in Shared, g \in Field : shared[j][g] = d => j = i /\ g = f
      BY <2>2, <2>3 DEF PointersOK
    <3>2. Kept(d)
      BY <2>3 DEF Kept
    <3>3. deleted[d] = <<>>
      BY <3>2 DEF GoneOK
    <3>4. ~Kept(d)'
      BY <1>4, <2>2, <3>1 DEF Kept, Points
    <3>5. FormOf(shared[i], f) = born[d]
      BY <3>1, KindFlags DEF FormOf, FlagsOK, TypeOK
    <3>6. deleted'[d] = Append(<<>>, born[d])
      BY <1>2, <2>3, <3>3, <3>5
    <3>7. Append(<<>>, born[d]) = <<born[d]>>
      OBVIOUS
    <3>8. QED
      BY <1>5, <3>1, <3>4, <3>6, <3>7
  <2>4. CASE d # shared[i][f] /\ d = v
    <3>1. shared'[i][f] = d
      BY <2>4 DEF Points
    <3>2. Kept(d)'
      BY <3>1 DEF Kept
    <3>3. deleted[d] = <<>>
      BY <1>4, <2>2, <2>4 DEF GoneOK
    <3>4. QED
      BY <1>2, <2>4, <3>2, <3>3
  <2>5. CASE d # shared[i][f] /\ d # v
    <3>1. \A j \in Shared, g \in Field : shared'[j][g] = d <=> shared[j][g] = d
      BY <2>5 DEF Points
    <3>2. Kept(d)' <=> Kept(d)
      BY <3>1 DEF Kept
    <3>3. d \in 1..Len(born') <=> d \in 1..Len(born)
      BY <1>1, <2>2, <2>5 DEF Made
    <3>4. QED
      BY <1>2, <2>5, <3>2, <3>3 DEF GoneOK
  <2>6. QED
    BY <2>3, <2>4, <2>5
<1>8. QED
  BY <1>2, <1>6, <1>7

\* Shared data but i stay as they were; that is all a thread can see of a query
\* that is not busy.
OthersStay(i) == \A j \in Shared : j # i => shared'[j] = shared[j]

LEMMA UntouchedStay ==
    ASSUME TypeOK, CopiesOK, ReadyOK, StoppedOnlyByCaller, NEW i \in Shared, ~Copies(i), OthersStay(i),
           UNCHANGED <<queue, hand, pc>>, \A j \in Shared : shared'[j].cancel => shared'[j].unwanted
    PROVE  ReadyOK' /\ StoppedOnlyByCaller'
<1>1. hand # 0 => shared'[hand] = shared[hand]
  BY DEF TypeOK, Copies, OthersStay
<1>2. \A n \in 1..Len(queue) : shared'[queue[n]] = shared[queue[n]]
  <2>1. \A n \in 1..Len(queue) : queue[n] \in Shared /\ Copies(queue[n])
    BY ElementOfSeq, Queued DEF TypeOK, Copies
  <2>2. QED
    BY <2>1 DEF OthersStay
<1>3. ReadyOK'
  BY <1>1, <1>2 DEF ReadyOK, CopiesOK
<1>4. StoppedOnlyByCaller'
  BY <1>1 DEF StoppedOnlyByCaller, CopiesOK
<1>5. QED
  BY <1>3, <1>4

LEMMA SetDataKept == ASSUME IInv, NEW f \in Field, SetData(f) PROVE IInv'
<1> USE DEF IInv
<1> DEFINE i == original.shared
           n == Len(born) + 1
           s == [shared[i] EXCEPT ![f] = n]
<1>1. /\ i \in Shared /\ shared[i] \in SharedData /\ original.alive /\ Referenced(i) /\ ~Copies(i)
      /\ original.flags # {} /\ i <= original.shared
  BY PointerTypes DEF SetData, TypeOK, Referenced, CopiesOK, Shared, busy
<1>2. /\ UNCHANGED <<kind, original, items, queue, hand, pc, released>>
      /\ kind[f] # "none" /\ Len(born) < MaxData /\ born' = Append(born, kind[f])
      /\ deleted' = Destroy(shared[i], f, deleted)
  BY DEF SetData
<1>3. kind[f] \in Form /\ born \in Seq(Form)
  BY <1>2, KindFlags DEF TypeOK
<1>4. /\ born' \in Seq(Form) /\ Len(born') = n /\ Len(born) \in Nat
      /\ born'[n] = kind[f] /\ \A d \in 1..Len(born) : born'[d] = born[d]
  BY <1>2, <1>3, AppendOf
<1>5. n \in 0..MaxData
  BY <1>2, <1>4, QueryDataAssumption
<1>6. shared' = [shared EXCEPT ![i] = s]
  BY <1>1, <1>4 DEF SetData, TypeOK
<1>7. /\ s \in SharedData /\ s[f] = n /\ \A g \in Field : g # f => s[g] = shared[i][g]
      /\ s.flags = shared[i].flags /\ s.cancel = shared[i].cancel /\ s.unwanted = shared[i].unwanted
  BY <1>1, <1>5, SetField
<1> HIDE DEF s
<1>8. Points(i, f, n)
  BY <1>1, <1>6, <1>7 DEF Points, TypeOK
<1>9. \A j \in Shared : (Copies(j)' <=> Copies(j)) /\ (Referenced(j)' <=> Referenced(j))
  BY <1>2 DEF Copies, Referenced
<1>10. GoneOK' /\ deleted' \in [Made -> Seq(Form)] /\ PointersOK'
  BY <1>1, <1>2, <1>4, <1>5, <1>8, <1>9, PointerReplaced
<1>11. TypeOK'
  <2>1. DOMAIN born = 1..Len(born) /\ DOMAIN born' = 1..n
    BY <1>3, <1>4, LenProperties
  <2>2. released' \subseteq DOMAIN born' /\ Len(born') <= MaxData
    BY <1>2, <1>4, <1>5, <2>1 DEF TypeOK
  <2>3. shared' \in [Shared -> SharedData]
    BY <1>1, <1>6, <1>7 DEF TypeOK
  <2>4. QED
    BY <1>2, <1>4, <1>10, <2>2, <2>3 DEF TypeOK
<1>12. FlagsOK'
  BY <1>1, <1>2, <1>6, <1>7 DEF FlagsOK, TypeOK
<1>13. CopiesOK'
  BY <1>1, <1>2, <1>9 DEF CopiesOK
<1>14. OthersStay(i)
  BY <1>1, <1>6 DEF OthersStay, TypeOK
<1>15. \A j \in Shared : shared'[j].cancel => shared'[j].unwanted
  BY <1>1, <1>6, <1>7 DEF TypeOK, StoppedOnlyByCaller
<1>16. ReadyOK' /\ StoppedOnlyByCaller'
  BY <1>1, <1>2, <1>14, <1>15, UntouchedStay
<1>17. QED
  BY <1>10, <1>11, <1>12, <1>13, <1>16

LEMMA RelinquishIsKept == ASSUME IInv, NEW f \in Field, Relinquish(f) PROVE IInv'
<1> USE DEF IInv
<1> DEFINE i == original.shared
           v == shared[i][f]
           s == [shared[i] EXCEPT ![f] = Null]
<1>1. /\ i \in Shared /\ shared[i] \in SharedData /\ original.alive /\ Referenced(i) /\ ~Copies(i)
      /\ original.flags # {} /\ i <= original.shared
  BY PointerTypes DEF Relinquish, TypeOK, Referenced, CopiesOK, Shared, busy
<1>2. /\ UNCHANGED <<kind, original, items, queue, hand, pc, born, deleted>>
      /\ released' = released \cup ({v} \ {Null})
      /\ shared' = [shared EXCEPT ![i] = s]
  BY DEF Relinquish
<1>3. Null \in 0..MaxData
  BY QueryDataAssumption DEF Null
<1>4. /\ s \in SharedData /\ s[f] = Null /\ \A g \in Field : g # f => s[g] = shared[i][g]
      /\ s.flags = shared[i].flags /\ s.cancel = shared[i].cancel /\ s.unwanted = shared[i].unwanted
  BY <1>1, <1>3, SetField
<1> HIDE DEF s
<1>5. Points(i, f, Null)
  BY <1>1, <1>2, <1>4 DEF Points, TypeOK
<1>6. \A j \in Shared : (Copies(j)' <=> Copies(j)) /\ (Referenced(j)' <=> Referenced(j))
  BY <1>2 DEF Copies, Referenced
<1>7. v # Null => /\ v \in 1..Len(born)
                  /\ \A j \in Shared, g \in Field : shared[j][g] = v => j = i /\ g = f
  BY <1>1 DEF PointersOK
<1>8. TypeOK'
  <2>1. DOMAIN born = 1..Len(born)
    BY LenProperties DEF TypeOK
  <2>2. released' \subseteq DOMAIN born
    BY <1>2, <1>7, <2>1 DEF TypeOK
  <2>3. shared' \in [Shared -> SharedData]
    BY <1>1, <1>2, <1>4 DEF TypeOK
  <2>4. QED
    BY <1>2, <2>2, <2>3 DEF TypeOK
<1>9. PointersOK'
  <2>1. SUFFICES ASSUME NEW j \in Shared, NEW g \in Field, shared'[j][g] # Null
                 PROVE  /\ j <= original.shared
                        /\ shared'[j][g] \in 1..Len(born) /\ shared'[j][g] \notin released'
                        /\ born[shared'[j][g]] = kind[g] /\ kind[g] # "none"
                        /\ \A k \in Shared, h \in Field : shared'[k][h] = shared'[j][g] => k = j /\ h = g
    BY <1>2 DEF PointersOK
  <2>2. shared'[j][g] = shared[j][g] /\ ~(j = i /\ g = f)
    BY <2>1, <1>5 DEF Points
  <2>3. /\ j <= original.shared /\ shared[j][g] \in 1..Len(born) /\ shared[j][g] \notin released
        /\ born[shared[j][g]] = kind[g] /\ kind[g] # "none"
        /\ \A k \in Shared, h \in Field : shared[k][h] = shared[j][g] => k = j /\ h = g
    BY <2>1, <2>2 DEF PointersOK
  <2>4. shared[j][g] # v
    BY <1>1, <2>2, <2>3
  <2>5. \A k \in Shared, h \in Field : shared'[k][h] = shared[j][g] => shared[k][h] = shared[j][g]
    BY <1>5, <2>1, <2>2 DEF Points
  <2>6. QED
    BY <1>2, <2>2, <2>3, <2>4, <2>5
<1>10. GoneOK'
  <2>1. SUFFICES ASSUME NEW d \in Made
                 PROVE  deleted[d] = IF d \in 1..Len(born) /\ d \notin released' /\ ~Kept(d)' THEN <<born[d]>> ELSE <<>>
    BY <1>2 DEF GoneOK
  <2>2. d # Null
    BY DEF Made, Null
  <2>3. CASE d = v
    <3>1. Kept(d)
      BY <1>1, <2>3 DEF Kept
    <3>2. deleted[d] = <<>>
      BY <3>1 DEF GoneOK
    <3>3. d \in released'
      BY <1>2, <2>2, <2>3
    <3>4. QED
      BY <3>2, <3>3
  <2>4. CASE d # v
    <3>1. \A j \in Shared, g \in Field : shared'[j][g] = d <=> shared[j][g] = d
      BY <1>5, <2>2, <2>4 DEF Points
    <3>2. Kept(d)' <=> Kept(d)
      BY <1>6, <3>1 DEF Kept
    <3>3. d \in released' <=> d \in released
      BY <1>2, <2>4
    <3>4. QED
      BY <3>2, <3>3 DEF GoneOK
  <2>5. QED
    BY <2>3, <2>4
<1>11. FlagsOK'
  BY <1>1, <1>2, <1>4 DEF FlagsOK, TypeOK
<1>12. CopiesOK'
  BY <1>1, <1>2, <1>6 DEF CopiesOK
<1>13. OthersStay(i)
  BY <1>1, <1>2 DEF OthersStay, TypeOK
<1>14. \A j \in Shared : shared'[j].cancel => shared'[j].unwanted
  BY <1>1, <1>2, <1>4 DEF TypeOK, StoppedOnlyByCaller
<1>15. ReadyOK' /\ StoppedOnlyByCaller'
  BY <1>1, <1>2, <1>13, <1>14, UntouchedStay
<1>16. QED
  BY <1>8, <1>9, <1>10, <1>11, <1>12, <1>15

LEMMA ExecuteKept == ASSUME IInv, Execute PROVE IInv'
<1> USE DEF IInv
<1>0. pc' \in {"drop", "callback"}
  BY DEF Execute
<1>1. PICK o \in Outcome :
          LET s == shared[hand]
              clear == s.flags.parameters /\ s.flags.results /\ o \in {"stopped", "no row"}
          IN  /\ deleted' = IF clear THEN Destroy(s, "results", deleted) ELSE deleted
              /\ shared' = [shared EXCEPT ![hand].outcome = o, ![hand].results = IF clear THEN Null ELSE @]
  BY DEF Execute, Outcome
<1> DEFINE h == hand
           clear == shared[h].flags.parameters /\ shared[h].flags.results /\ o \in {"stopped", "no row"}
           r == IF clear THEN Null ELSE shared[h].results
           s == [shared[h] EXCEPT !.outcome = o, !.results = r]
<1>2. /\ pc = "execute" /\ pc' \in {"drop", "callback"} /\ pc' # "idle" /\ pc' # "execute" /\ h \in Shared /\ h # 0
      /\ UNCHANGED <<kind, original, items, queue, hand, born, released>>
  BY <1>0 DEF Execute, TypeOK, CopiesOK
<1>3. shared[h] \in SharedData /\ shared[h]["results"] \in 0..MaxData /\ Null \in 0..MaxData
  BY <1>2, PointerTypes, QueryDataAssumption DEF Null
<1>4. Copies(h) /\ Referenced(h)
  BY <1>2 DEF Copies, Referenced
<1>5. h <= original.shared /\ original.flags # {}
  BY <1>2, <1>4 DEF CopiesOK
<1>6. r \in 0..MaxData
  BY <1>3
<1>7. /\ deleted' = IF clear THEN Destroy(shared[h], "results", deleted) ELSE deleted
      /\ shared' = [shared EXCEPT ![h] = s]
  BY <1>1, <1>2, <1>3 DEF TypeOK
<1> HIDE DEF r
<1>8. /\ s \in SharedData /\ s.flags = shared[h].flags /\ s["parameters"] = shared[h]["parameters"]
      /\ s["results"] = r /\ s.outcome = o /\ s.cancel = shared[h].cancel /\ s.unwanted = shared[h].unwanted
  BY <1>3, <1>6 DEF SharedData
<1> HIDE DEF s, clear
<1>9. Points(h, "results", r)
  BY <1>2, <1>7, <1>8 DEF Points, TypeOK, Field
<1>10. \A j \in Shared : (Copies(j)' <=> Copies(j)) /\ (Referenced(j)' <=> Referenced(j))
  BY <1>2 DEF Copies, Referenced
<1>11. GoneOK' /\ deleted' \in [Made -> Seq(Form)] /\ PointersOK'
  <2>1. CASE clear
    <3>1. "results" \in Field /\ r = Null /\ deleted' = Destroy(shared[h], "results", deleted)
      BY <1>7, <2>1 DEF Field, r
    <3>2. QED
      BY <1>2, <1>3, <1>4, <1>5, <1>9, <1>10, <3>1, PointerReplaced
  <2>2. CASE ~clear
    <3>1. r = shared[h]["results"] /\ deleted' = deleted
      BY <1>7, <2>2 DEF r
    <3>2. SamePointers
      BY <1>2, <1>7, <1>8, <3>1 DEF SamePointers, TypeOK, Field
    <3>3. QED
      BY <1>2, <1>5, <1>10, <3>1, <3>2, GoneSame, PointersSame DEF TypeOK
  <2>3. QED
    BY <2>1, <2>2
<1>12. TypeOK'
  BY <1>2, <1>7, <1>8, <1>11 DEF TypeOK
<1>13. FlagsOK'
  BY <1>2, <1>7, <1>8 DEF FlagsOK, TypeOK
<1>14. CopiesOK'
  BY <1>2, <1>10 DEF CopiesOK
<1>15. ReadyOK'
  <2>1. \A n \in 1..Len(queue) : shared'[queue[n]] = shared[queue[n]]
    <3>1. \A n \in 1..Len(queue) : queue[n] \in Shared /\ queue[n] # h
      BY ElementOfSeq DEF TypeOK, CopiesOK
    <3>2. QED
      BY <1>2, <1>7, <3>1 DEF TypeOK
  <2>2. QED
    BY <1>2, <2>1 DEF ReadyOK
<1>16. StoppedOnlyByCaller'
  <2>1. \A j \in Shared : shared'[j].cancel => shared'[j].unwanted
    BY <1>2, <1>7, <1>8 DEF TypeOK, StoppedOnlyByCaller
  <2>2. shared[h].flags.results => shared[h].flags.parameters
    BY <1>2, <1>5, KindFlags DEF FlagsOK, TypeOK
  <2>3. shared[h].flags.results => shared[h]["results"] # Null
    BY <1>2, <2>2 DEF ReadyOK, Ready
  <2>4. /\ shared'[h].flags = shared[h].flags /\ shared'[h].outcome = o /\ shared'[h]["results"] = r
    BY <1>2, <1>7, <1>8 DEF TypeOK
  <2>5. ASSUME shared[h].flags.results, o \in {"row", "error"} PROVE r # Null
    BY <2>3, <2>5 DEF r, clear
  <2>6. ASSUME shared[h].flags.results, o \in {"no row", "stopped"} PROVE r = Null
    BY <2>2, <2>6 DEF r, clear
  <2>7. QED
    BY <1>2, <2>1, <2>4, <2>5, <2>6 DEF StoppedOnlyByCaller
<1>17. QED
  BY <1>11, <1>12, <1>13, <1>14, <1>15, <1>16

-----------------------------------------------------------------------------
(* The invariant *)

LEMMA Initially == ASSUME Init PROVE IInv
<1>1. /\ kind = QueryNone /\ kind \in Query /\ original = [alive |-> FALSE, shared |-> 1, flags |-> {}]
      /\ items = 0 /\ queue = <<>> /\ hand = 0 /\ pc = "idle" /\ born = <<>> /\ released = {}
      /\ shared = [i \in Shared |-> NewShared(QueryNone.single)] /\ deleted = [d \in Made |-> <<>>]
  BY DEF Init, Query, Made
<1>2. 1 \in Shared /\ original.flags = {} /\ original.shared = 1 /\ ~original.alive
  BY <1>1, QueryDataAssumption DEF Shared
<1>3. NewShared(QueryNone.single) \in SharedData /\ ~NewShared(QueryNone.single).cancel
      /\ \A f \in Field : NewShared(QueryNone.single)[f] = Null
  BY <1>1, KindFlags, NewSharedOf DEF NewSharedType
<1>4. \A i \in Shared : i # 0 /\ ~Copies(i)
  BY <1>1 DEF Shared, Copies, ToSet
<1>5. Len(born) = 0 /\ Len(queue) = 0
  BY <1>1
<1>6. TypeOK
  <2>1. original \in [alive : BOOLEAN, shared : Shared, flags : Flags]
    BY <1>1, <1>2 DEF Flags
  <2>2. <<>> \in Seq(Form) /\ <<>> \in Seq(Shared) /\ Len(born) <= MaxData
    BY <1>5, QueryDataAssumption
  <2>3. QED
    BY <1>1, <1>3, <2>1, <2>2 DEF TypeOK
<1>7. CopiesOK
  BY <1>1, <1>2, <1>4, <1>5 DEF CopiesOK
<1>8. ReadyOK /\ FlagsOK
  BY <1>1, <1>2, <1>5 DEF ReadyOK, FlagsOK
<1>9. PointersOK
  BY <1>1, <1>3 DEF PointersOK
<1>10. GoneOK
  BY <1>1, <1>5 DEF GoneOK
<1>11. StoppedOnlyByCaller
  BY <1>1, <1>3 DEF StoppedOnlyByCaller
<1>12. QED
  BY <1>6, <1>7, <1>8, <1>9, <1>10, <1>11 DEF IInv

LEMMA InvariantKept == ASSUME IInv, [Next]_vars PROVE IInv'
<1>1. CASE UNCHANGED vars
  <2>1. UNCHANGED <<kind, original, items, queue, hand, pc, shared, born, deleted, released>>
    BY <1>1 DEF vars
  <2>2. \A i \in Shared : (Copies(i)' <=> Copies(i)) /\ (Referenced(i)' <=> Referenced(i))
    BY <2>1 DEF Copies, Referenced
  <2>3. TypeOK' /\ CopiesOK' /\ ReadyOK'
    BY <2>1, <2>2 DEF IInv, TypeOK, CopiesOK, ReadyOK
  <2>4. PointersOK' /\ FlagsOK' /\ StoppedOnlyByCaller'
    <3>1. PointersOK' /\ FlagsOK'
      BY <2>1 DEF IInv, PointersOK, FlagsOK
    <3>2. (StoppedOnlyByCaller)' <=> StoppedOnlyByCaller
      BY <2>1 DEF StoppedOnlyByCaller
    <3>3. QED
      BY <3>1, <3>2 DEF IInv
  <2>5. SamePointers
    BY <2>1 DEF SamePointers
  <2>6. GoneOK'
    BY <2>1, <2>2, <2>5, GoneSame DEF IInv
  <2>7. QED
    BY <2>3, <2>4, <2>6 DEF IInv
<1>2. CASE Next
  <2>1. ASSUME NEW k \in Query, Construct(k) PROVE IInv'
    BY <2>1, ConstructKept
  <2>2. ASSUME NEW f \in Field, SetData(f) PROVE IInv'
    BY <2>2, SetDataKept
  <2>3. ASSUME NEW f \in Field, Relinquish(f) PROVE IInv'
    BY <2>3, RelinquishIsKept
  <2>4. ASSUME NEW x \in BOOLEAN, keepAlive(x) PROVE IInv'
    BY <2>4, keepAliveKept
  <2>5. CASE cancel \/ QueueAlone \/ Push \/ StartTransaction
    BY <2>5, cancelKept, QueueAloneKept, PushKept, StartTransactionKept
  <2>6. CASE Clear \/ reset \/ Destruct
    BY <2>6, ClearKept, resetKept, DestructKept
  <2>7. CASE Take \/ Execute \/ Drop \/ Done
    BY <2>7, TakeKept, ExecuteKept, DropKept, DoneKept
  <2>8. QED
    BY <1>2, <2>1, <2>2, <2>3, <2>4, <2>5, <2>6, <2>7 DEF Next
<1>3. QED
  BY <1>1, <1>2

\* Whatever a caller does with a query and its copies, and however the thread
\* goes on meanwhile, the shared data are as IInv has them.
THEOREM Owners == Spec => []IInv
<1>1. Init => IInv
  BY Initially
<1>2. IInv /\ [Next]_vars => IInv'
  BY InvariantKept
<1>3. QED
  BY <1>1, <1>2, PTL DEF Spec

LEMMA OwnedIs == ASSUME IInv PROVE DataOwned
<1> USE DEF IInv
<1>1. DOMAIN born = 1..Len(born) /\ Len(born) \in Nat /\ Len(born) <= MaxData
  BY LenProperties DEF TypeOK
<1>2. ASSUME NEW d \in DOMAIN born PROVE d \in Held <=> Kept(d)
  BY <1>1 DEF Held, Kept, Null
<1>3. ASSUME NEW d \in DOMAIN born
      PROVE  /\ deleted[d] \in {<<>>, <<born[d]>>}
             /\ d \in Held \cup released => deleted[d] = <<>>
             /\ d \notin Held \cup released => deleted[d] # <<>>
             /\ d \notin Held \cap released
  <2>1. d \in Made /\ d # Null
    BY <1>1, QueryDataAssumption DEF Made, Null
  <2>2. deleted[d] = IF d \notin released /\ ~Kept(d) THEN <<born[d]>> ELSE <<>>
    BY <1>1, <2>1 DEF GoneOK
  <2>3. <<born[d]>> # <<>>
    OBVIOUS
  <2>4. Kept(d) => d \notin released
    BY <2>1 DEF Kept, PointersOK
  <2>5. QED
    BY <1>2, <2>2, <2>3, <2>4
<1>4. ASSUME pc = "execute"
      PROVE  /\ Ready(shared[hand])
             /\ \A f \in Field : shared[hand][f] # Null =>
                    shared[hand].flags[f] = (born[shared[hand][f]] = "row")
  <2>1. hand \in Shared /\ Copies(hand)
    BY <1>4 DEF TypeOK, CopiesOK, Copies
  <2>2. shared[hand].flags = kind.single
    BY <2>1 DEF CopiesOK, FlagsOK
  <2>3. QED
    BY <1>4, <2>1, <2>2, KindFlags DEF ReadyOK, PointersOK, TypeOK
<1>5. QED
  BY <1>3, <1>4 DEF DataOwned

\* The data sets of a query have one owner at a time: each is deleted once at
\* most, as what it is, and not while anybody has it; and what the thread is
\* going to dereference is there.
THEOREM OwnedOnce == Spec => []DataOwned
<1>1. IInv => DataOwned
  BY OwnedIs
<1>2. QED
  BY <1>1, Owners, PTL

\* Nobody but its caller stops a query, and a query that ended has a row for its
\* caller exactly if there was one.
THEOREM StoppedByCaller == Spec => []StoppedOnlyByCaller
<1>1. IInv => StoppedOnlyByCaller
  BY DEF IInv
<1>2. QED
  BY <1>1, Owners, PTL

-----------------------------------------------------------------------------
(* The texts of sessions: base64                                             *)

\* Three bytes, and four characters, as the number of their bits.
OfThree(x, y, z) == x * 65536 + y * 256 + z
OfFour(c, d, e, f) == c * 262144 + d * 4096 + e * 64 + f
Bits == {n \in Nat : n < 64 * 262144}

Octet == 0..255

\* The bits of three bytes fit, and give the bytes back.
LEMMA ThreeBytes ==
    ASSUME NEW x \in Octet, NEW y \in Octet, NEW z \in Octet, NEW n, n = OfThree(x, y, z)
    PROVE  n \in Bits /\ Byte(n, 1) = x /\ Byte(n, 2) = y /\ Byte(n, 3) = z
<1>0. x \in 0..255 /\ y \in 0..255 /\ z \in 0..255
  BY DEF Octet
<1>1. n \in Nat /\ n = x * 65536 + y * 256 + z
  BY <1>0, SMT DEF OfThree
<1>2. n < 64 * 262144
  BY <1>0, <1>1, SMT
<1>3. n \div 65536 = x
  BY <1>0, <1>1, SMT
<1>4. n \div 256 = x * 256 + y
  BY <1>0, <1>1, SMT
<1>5. (x * 256 + y) % 256 = y
  BY <1>0, SMT
<1>6. n % 256 = z
  BY <1>0, <1>1, SMT
<1>7. Byte(n, 1) = n \div 65536 /\ Byte(n, 2) = (n \div 256) % 256 /\ Byte(n, 3) = n % 256
  BY SMT DEF Byte
<1>8. n \in Bits
  BY <1>1, <1>2, SMT DEF Bits
<1>9. Byte(n, 1) = x
  BY <1>3, <1>7, SMT
<1>10. Byte(n, 2) = y
  BY <1>4, <1>5, <1>7, SMT
<1>11. Byte(n, 3) = z
  BY <1>6, <1>7, SMT
<1>12. QED
  BY <1>8, <1>9, <1>10, <1>11

LEMMA Remainder ==
    ASSUME NEW m \in Nat, NEW q \in Nat, 64 * q <= m, m < 64 * q + 64
    PROVE  m % 64 = m - 64 * q /\ m % 64 \in 0..63
BY SMT

\* Bits are cut into four characters, which give the bits back.
LEMMA FourCharacters ==
    ASSUME NEW n \in Bits
    PROVE  /\ Character(n, 1) \in 0..63 /\ Character(n, 2) \in 0..63 /\ Character(n, 3) \in 0..63 /\ Character(n, 4) \in 0..63
           /\ OfFour(Character(n, 1), Character(n, 2), Character(n, 3), Character(n, 4)) = n
<1>0. n \in Nat /\ n < 64 * 262144
  BY SMT DEF Bits
<1>1. PICK p \in Nat : p = n \div 64 /\ 64 * p <= n /\ n < 64 * p + 64
  BY <1>0, SMT
<1>2. PICK q \in Nat : q = n \div 4096 /\ 4096 * q <= n /\ n < 4096 * q + 4096
  BY <1>0, SMT
<1>3. PICK r \in Nat : r = n \div 262144 /\ 262144 * r <= n /\ n < 262144 * r + 262144
  BY <1>0, SMT
<1>4. 64 * q <= p /\ p < 64 * q + 64
  BY <1>0, <1>1, <1>2, SMT
<1>5. 64 * r <= q /\ q < 64 * r + 64 /\ r \in 0..63
  BY <1>0, <1>2, <1>3, SMT
<1>6. n % 64 = n - 64 * p /\ p % 64 = p - 64 * q /\ q % 64 = q - 64 * r
  BY <1>0, <1>1, <1>4, <1>5, Remainder, SMT
<1>7. q % 64 \in 0..63 /\ p % 64 \in 0..63 /\ n % 64 \in 0..63
  BY <1>0, <1>1, <1>4, <1>5, Remainder, SMT
<1>8. OfFour(r, q % 64, p % 64, n % 64) = n
  BY <1>0, <1>6, SMT DEF OfFour
<1>9. Character(n, 1) = r /\ Character(n, 2) = q % 64 /\ Character(n, 3) = p % 64 /\ Character(n, 4) = n % 64
  BY <1>1, <1>2, <1>3, SMT DEF Character
<1>10. QED
  BY <1>5, <1>7, <1>8, <1>9

\* The last characters of a group of one or two bytes are those of no bits.
LEMMA LastCharacters ==
    ASSUME NEW x \in Octet, NEW y \in Octet
    PROVE  /\ Character(OfThree(x, y, 0), 4) = 0
           /\ Character(OfThree(x, 0, 0), 3) = 0
           /\ \A k \in 1..4 : Character(OfThree(0, 0, 0), k) = 0
<1>0. x \in 0..255 /\ y \in 0..255
  BY DEF Octet
<1>1. PICK n \in Nat : n = OfThree(x, y, 0) /\ n = 64 * (x * 1024 + y * 4)
  BY <1>0, SMT DEF OfThree
<1>2. n % 64 = 0
  BY <1>0, <1>1, SMT
<1>3. Character(n, 4) = n % 64
  BY SMT DEF Character
<1>4. PICK m \in Nat : m = OfThree(x, 0, 0) /\ m \div 64 = 64 * (x * 16)
  BY <1>0, SMT DEF OfThree
<1>5. (m \div 64) % 64 = 0
  BY <1>0, <1>4, SMT
<1>6. Character(m, 3) = (m \div 64) % 64
  BY SMT DEF Character
<1>7. OfThree(0, 0, 0) = 0
  BY SMT DEF OfThree
<1>8. 0 % 64 = 0 /\ (0 \div 64) % 64 = 0 /\ (0 \div 4096) % 64 = 0 /\ 0 \div 262144 = 0
  BY SMT
<1>9. Character(0, 1) = 0 /\ Character(0, 2) = 0 /\ Character(0, 3) = 0 /\ Character(0, 4) = 0
  BY <1>8, SMT DEF Character
<1>10. \A k \in 1..4 : Character(0, k) = 0
  <2>1. SUFFICES ASSUME NEW k \in 1..4 PROVE Character(0, k) = 0
    OBVIOUS
  <2>2. k = 1 \/ k = 2 \/ k = 3 \/ k = 4
    BY SMT
  <2>3. QED
    BY <1>9, <2>2, SMT
<1>11. QED
  BY <1>1, <1>2, <1>3, <1>4, <1>5, <1>6, <1>7, <1>10, SMT

\* What a group of an id is made of: bytes, and nothing behind its end.
LEMMA AtBytes ==
    ASSUME NEW b \in Seq(0..255), NEW i \in Nat \ {0}
    PROVE  At(b, Len(b), i) \in Octet
<1>1. CASE i <= Len(b)
  <2>1. i \in 1..Len(b)
    BY <1>1, LenProperties
  <2>2. b[i] \in 0..255
    BY <2>1, ElementOfSeq
  <2>3. QED
    BY <1>1, <2>2 DEF At, Octet
<1>2. CASE ~(i <= Len(b))
  BY <1>2 DEF At, Octet
<1>3. QED
  BY <1>1, <1>2

\* The bits of a group of bytes: its bytes, its characters, and how the
\* characters give the bits back.
LEMMA GroupOf ==
    ASSUME NEW b \in Seq(0..255), NEW g \in Nat, NEW n, n = OfBytes(b, g)
    PROVE  /\ \A k \in 1..3 : Byte(n, k) = At(b, Len(b), 3 * g + k)
           /\ \A k \in 1..4 : Character(n, k) \in 0..63
           /\ OfFour(Character(n, 1), Character(n, 2), Character(n, 3), Character(n, 4)) = n
           /\ \A k \in 1..4 : 3 * g + k > Len(b) + 1 => Character(n, k) = 0
<1>1. PICK l \in Nat : l = Len(b)
  BY LenProperties
<1>2. PICK x, y, z \in Octet : x = At(b, l, 3 * g + 1) /\ y = At(b, l, 3 * g + 2) /\ z = At(b, l, 3 * g + 3)
  <2>1. 3 * g + 1 \in Nat \ {0} /\ 3 * g + 2 \in Nat \ {0} /\ 3 * g + 3 \in Nat \ {0}
    BY SMT
  <2>2. QED
    BY <1>1, <2>1, AtBytes
<1>3. n = OfThree(x, y, z)
  BY <1>1, <1>2, SMT DEF OfBytes, OfThree
<1>4. n \in Bits /\ Byte(n, 1) = x /\ Byte(n, 2) = y /\ Byte(n, 3) = z
  BY <1>3, ThreeBytes
<1>5. \A k \in 1..3 : Byte(n, k) = At(b, l, 3 * g + k)
  <2>1. SUFFICES ASSUME NEW k \in 1..3 PROVE Byte(n, k) = At(b, l, 3 * g + k)
    OBVIOUS
  <2>2. k = 1 \/ k = 2 \/ k = 3
    BY SMT
  <2>3. QED
    BY <1>2, <1>4, <2>2
<1>6. /\ Character(n, 1) \in 0..63 /\ Character(n, 2) \in 0..63 /\ Character(n, 3) \in 0..63 /\ Character(n, 4) \in 0..63
      /\ OfFour(Character(n, 1), Character(n, 2), Character(n, 3), Character(n, 4)) = n
  BY <1>4, FourCharacters
<1>7. \A k \in 1..4 : Character(n, k) \in 0..63
  <2>1. SUFFICES ASSUME NEW k \in 1..4 PROVE Character(n, k) \in 0..63
    OBVIOUS
  <2>2. k = 1 \/ k = 2 \/ k = 3 \/ k = 4
    BY SMT
  <2>3. QED
    BY <1>6, <2>2
<1>8. ASSUME NEW k \in 1..4, 3 * g + k > l + 1 PROVE Character(n, k) = 0
  <2>1. k = 4 => z = 0
    BY <1>2, <1>8, SMT DEF At
  <2>2. k = 3 => y = 0 /\ z = 0
    BY <1>2, <1>8, SMT DEF At
  <2>3. k \in {1, 2} => x = 0 /\ y = 0 /\ z = 0
    BY <1>2, <1>8, SMT DEF At
  <2>4. k = 4 \/ k = 3 \/ k \in {1, 2}
    BY SMT
  <2>5. CASE k = 4
    BY <1>3, <2>1, <2>5, LastCharacters
  <2>6. CASE k = 3
    BY <1>3, <2>2, <2>6, LastCharacters
  <2>7. CASE k \in {1, 2}
    BY <1>3, <2>3, <2>7, LastCharacters
  <2>8. QED
    BY <2>4, <2>5, <2>6, <2>7
<1>9. QED
  BY <1>1, <1>5, <1>6, <1>7, <1>8

-----------------------------------------------------------------------------
(* The characters of a text.  Place and Behind are kept closed where a lemma   *)
(* is cited.                                                                 *)

\* The index of the k-th character of a group; the indices of the text of l
\* bytes; the k-th character of a group is behind the last of a text, which has
\* one character more than there are bytes in its last group.
Place(g, k) == 4 * g + k
Places(l) == 1..(4 * ((l + 2) \div 3))
Behind(l, g, k) == 3 * g + k > l + 1

\* Every index of a text is a place in a group.
LEMMA PlaceOf == ASSUME NEW l \in Nat, NEW i \in Places(l) PROVE \E g \in Nat, k \in 1..4 : i = Place(g, k)
<1>1. (i - 1) \div 4 \in Nat /\ ((i - 1) % 4) + 1 \in 1..4 /\ i = 4 * ((i - 1) \div 4) + (((i - 1) % 4) + 1)
  BY SMT DEF Places
<1>2. QED
  BY <1>1 DEF Place

\* A character of a text is one of the bits of its group, or a pad.
LEMMA CharacterAt ==
    ASSUME NEW b, NEW l \in Nat, l = Len(b), NEW g \in Nat, NEW k \in 1..4, Place(g, k) \in Places(l)
    PROVE  base64Encode(b)[Place(g, k)] = IF Behind(l, g, k) THEN Pad ELSE Character(OfBytes(b, g), k)
<1>1. PICK m \in Nat : m = 4 * ((l + 2) \div 3)
  BY SMT
<1>2. PICK i \in 1..m : i = 4 * g + k
  BY <1>1, SMT DEF Place, Places
<1>3. (i - 1) \div 4 = g /\ ((i - 1) % 4) + 1 = k
  BY <1>2, SMT
<1>4. base64Encode(b)[i] =
          IF 3 * ((i - 1) \div 4) + (((i - 1) % 4) + 1) <= l + 1
          THEN Character(OfBytes(b, (i - 1) \div 4), ((i - 1) % 4) + 1) ELSE Pad
  BY <1>1, <1>2 DEF base64Encode
<1>5. base64Encode(b)[i] = IF 3 * g + k <= l + 1 THEN Character(OfBytes(b, g), k) ELSE Pad
  BY <1>3, <1>4
<1>6. 3 * g + k <= l + 1 <=> ~Behind(l, g, k)
  BY SMT DEF Behind
<1>7. i = Place(g, k)
  BY <1>2 DEF Place
<1>8. QED
  BY <1>5, <1>6, <1>7

LEMMA CharacterOf ==
    ASSUME NEW b \in Seq(0..255), NEW l \in Nat, l = Len(b), NEW g \in Nat, NEW k \in 1..4,
           Place(g, k) \in Places(l), NEW c, c = base64Encode(b)[Place(g, k)]
    PROVE  /\ c \in 0..64
           /\ c = Pad <=> Behind(l, g, k)
<1>1. c = IF Behind(l, g, k) THEN Pad ELSE Character(OfBytes(b, g), k)
  BY CharacterAt
<1>2. PICK d \in 0..63 : d = Character(OfBytes(b, g), k)
  BY GroupOf
<1>3. d \in 0..64 /\ d # Pad /\ Pad \in 0..64
  BY SMT DEF Pad
<1>4. QED
  BY <1>1, <1>2, <1>3

\* A text is a sequence of whole groups.
LEMMA TextOf ==
    ASSUME NEW b \in Seq(0..255), NEW l \in Nat, l = Len(b), NEW t, t = base64Encode(b)
    PROVE  t \in Seq(0..64) /\ DOMAIN t = Places(l) /\ Len(t) = 4 * ((l + 2) \div 3)
<1>1. PICK m \in Nat : m = 4 * ((l + 2) \div 3)
  BY SMT
<1>2. Places(l) = 1..m /\ DOMAIN t = 1..m /\ t = [i \in 1..m |-> t[i]]
  BY <1>1 DEF base64Encode, Places
<1>3. ASSUME NEW i \in Places(l) PROVE t[i] \in 0..64
  <2>1. PICK g \in Nat, k \in 1..4 : i = Place(g, k)
    BY PlaceOf
  <2>2. QED
    BY <2>1, CharacterOf
<1>4. t \in [1..m -> 0..64]
  BY <1>2, <1>3
<1>5. t \in Seq(0..64)
  BY <1>4, SeqDef
<1>6. Len(t) = m
  BY <1>2, <1>5, LenProperties, SMT
<1>7. QED
  BY <1>1, <1>2, <1>5, <1>6

\* Where the characters of the bytes end.
LEMMA EndOfText ==
    ASSUME NEW b \in Seq(0..255), NEW q \in Nat, NEW r \in 0..2, Len(b) = 3 * q + r
    PROVE  TextEnd(base64Encode(b)) = 4 * q + (IF r = 0 THEN 0 ELSE r + 1)
<1>1. PICK t : t = base64Encode(b)
  OBVIOUS
<1>2. PICK l \in Nat : l = Len(b)
  BY LenProperties
<1>3. l = 3 * q + r
  BY <1>2
<1> DEFINE pads == {i \in DOMAIN t : t[i] = Pad}
<1>4. DOMAIN t = Places(l) /\ Len(t) = 4 * ((l + 2) \div 3)
  BY <1>1, <1>2, TextOf
<1>5. 4 * ((l + 2) \div 3) = IF r = 0 THEN 4 * q ELSE 4 * q + 4
  BY <1>3, SMT
<1>6. Places(l) = 1..(IF r = 0 THEN 4 * q ELSE 4 * q + 4)
  BY <1>5 DEF Places
<1>7. ASSUME NEW i \in Places(l) PROVE t[i] = Pad <=> r # 0 /\ i >= 4 * q + r + 2
  <2>1. PICK g \in Nat, k \in 1..4 : i = Place(g, k)
    BY PlaceOf
  <2>2. t[i] = Pad <=> Behind(l, g, k)
    BY <1>1, <1>2, <2>1, CharacterOf
  <2>3. i \in 1..(IF r = 0 THEN 4 * q ELSE 4 * q + 4)
    BY <1>6
  <2>4. Behind(l, g, k) <=> r # 0 /\ i >= 4 * q + r + 2
    BY <1>3, <2>1, <2>3, SMT DEF Place, Behind
  <2>5. QED
    BY <2>2, <2>4
<1>8. CASE r = 0
  <2>1. pads = {}
    BY <1>4, <1>7, <1>8
  <2>2. TextEnd(t) = 4 * (Len(t) \div 4)
    BY <2>1 DEF TextEnd
  <2>3. Len(t) = 4 * q
    BY <1>4, <1>5, <1>8
  <2>4. 4 * ((4 * q) \div 4) = 4 * q /\ 4 * q + 0 = 4 * q
    BY SMT
  <2>5. QED
    BY <1>1, <1>8, <2>2, <2>3, <2>4
<1>9. CASE r # 0
  <2>1. 4 * q + r + 2 \in Places(l)
    BY <1>6, <1>9, SMT
  <2>2. 4 * q + r + 2 >= 4 * q + r + 2
    BY SMT
  <2>3. 4 * q + r + 2 \in pads
    BY <1>4, <1>7, <1>9, <2>1, <2>2
  <2>4. \A j \in pads : j \in Places(l) /\ j >= 4 * q + r + 2
    BY <1>4, <1>7
  <2>5. \A j \in pads : 4 * q + r + 2 <= j
    BY <1>6, <2>4, SMT
  <2>6. \A i \in pads : (\A j \in pads : i <= j) => i = 4 * q + r + 2
    <3>1. SUFFICES ASSUME NEW i \in pads, \A j \in pads : i <= j PROVE i = 4 * q + r + 2
      OBVIOUS
    <3>2. i <= 4 * q + r + 2 /\ i >= 4 * q + r + 2 /\ i \in Places(l)
      BY <2>3, <2>4, <3>1
    <3>3. QED
      BY <1>6, <3>2, SMT
  <2>7. (CHOOSE i \in pads : \A j \in pads : i <= j) = 4 * q + r + 2
    BY <2>3, <2>5, <2>6
  <2>8. TextEnd(t) = (CHOOSE i \in pads : \A j \in pads : i <= j) - 1
    BY <2>3 DEF TextEnd
  <2>9. (4 * q + r + 2) - 1 = 4 * q + (r + 1)
    BY SMT
  <2>10. QED
    BY <1>1, <1>9, <2>7, <2>8, <2>9
<1>10. QED
  BY <1>8, <1>9

\* The characters of a group that has a byte give the bits of the group back,
\* the missing ones as nothing.
LEMMA GroupComesBack ==
    ASSUME NEW b \in Seq(0..255), NEW q \in Nat, NEW r \in 0..2, Len(b) = 3 * q + r,
           NEW g \in Nat, 3 * g < 3 * q + r
    PROVE  OfCharacters(base64Encode(b), TextEnd(base64Encode(b)), g) = OfBytes(b, g)
<1>1. PICK t, n : t = base64Encode(b) /\ n = OfBytes(b, g)
  OBVIOUS
<1>2. PICK l \in Nat : l = Len(b)
  BY LenProperties
<1>3. l = 3 * q + r
  BY <1>2
<1>4. PICK end \in Nat : end = TextEnd(t) /\ end = 4 * q + (IF r = 0 THEN 0 ELSE r + 1)
  <2>1. 4 * q + (IF r = 0 THEN 0 ELSE r + 1) \in Nat
    BY SMT
  <2>2. QED
    BY <1>1, <2>1, EndOfText
<1>5. ASSUME NEW k \in 1..4 PROVE At(t, end, Place(g, k)) = Character(n, k)
  <2>1. CASE Place(g, k) <= end
    <3>1. Place(g, k) \in Places(l) /\ ~Behind(l, g, k)
      BY <1>3, <1>4, <2>1, SMT DEF Place, Places, Behind
    <3>2. t[Place(g, k)] = Character(n, k)
      BY <1>1, <1>2, <3>1, CharacterAt
    <3>3. QED
      BY <2>1, <3>2 DEF At
  <2>2. CASE ~(Place(g, k) <= end)
    <3>1. 3 * g + k > l + 1
      BY <1>3, <1>4, <2>2, SMT DEF Place
    <3>2. Character(n, k) = 0
      BY <1>1, <1>2, <3>1, GroupOf
    <3>3. QED
      BY <2>2, <3>2 DEF At
  <2>3. QED
    BY <2>1, <2>2
<1>6. /\ At(t, end, 4 * g + 1) = Character(n, 1) /\ At(t, end, 4 * g + 2) = Character(n, 2)
      /\ At(t, end, 4 * g + 3) = Character(n, 3) /\ At(t, end, 4 * g + 4) = Character(n, 4)
  BY <1>5 DEF Place
<1>7. OfCharacters(t, end, g) = OfFour(Character(n, 1), Character(n, 2), Character(n, 3), Character(n, 4))
  BY <1>6, SMT DEF OfCharacters, OfFour
<1>8. OfFour(Character(n, 1), Character(n, 2), Character(n, 3), Character(n, 4)) = n
  BY <1>1, GroupOf
<1>9. QED
  BY <1>1, <1>4, <1>7, <1>8

\* base64Decode() reads the text that base64Encode() made of an id, of any length,
\* as that id.
THEOREM TextComesBack == ASSUME NEW b \in Seq(0..255) PROVE base64Decode(base64Encode(b)) = b
<1> DEFINE t == base64Encode(b)
           d == base64Decode(t)
<1>1. PICK q \in Nat, r \in 0..2 : Len(b) = 3 * q + r
  <2>1. PICK l \in Nat : l = Len(b)
    BY LenProperties
  <2>2. l \div 3 \in Nat /\ l % 3 \in 0..2 /\ l = 3 * (l \div 3) + (l % 3)
    BY SMT
  <2>3. QED
    BY <2>1, <2>2
<1>2. PICK end \in Nat : end = TextEnd(t) /\ end = 4 * q + (IF r = 0 THEN 0 ELSE r + 1)
  <2>1. 4 * q + (IF r = 0 THEN 0 ELSE r + 1) \in Nat
    BY SMT
  <2>2. QED
    BY <1>1, <2>1, EndOfText
<1>3. 3 * (end \div 4) + <<0, 1, 1, 2>>[(end % 4) + 1] = 3 * q + r
  <2>1. end \div 4 = q /\ end % 4 = IF r = 0 THEN 0 ELSE r + 1
    BY <1>2, SMT
  <2>2. r = 0 \/ r = 1 \/ r = 2
    BY SMT
  <2>3. <<0, 1, 1, 2>>[(end % 4) + 1] = r
    BY <2>1, <2>2, SMT
  <2>4. QED
    BY <2>1, <2>3
<1>4. d = [i \in 1..(3 * q + r) |-> Byte(OfCharacters(t, end, (i - 1) \div 3), ((i - 1) % 3) + 1)]
  BY <1>2, <1>3 DEF base64Decode
<1>5. ASSUME NEW i \in 1..(3 * q + r) PROVE d[i] = b[i]
  <2>0. (i - 1) \div 3 \in Nat /\ ((i - 1) % 3) + 1 \in 1..3 /\ i = 3 * ((i - 1) \div 3) + (((i - 1) % 3) + 1)
    BY SMT
  <2>1. PICK g \in Nat, k \in 1..3 : g = (i - 1) \div 3 /\ k = ((i - 1) % 3) + 1 /\ i = 3 * g + k
    BY <2>0
  <2>2. d[i] = Byte(OfCharacters(t, end, g), k)
    BY <1>4, <2>1
  <2>3. 3 * g < 3 * q + r
    BY <2>1, SMT
  <2>4. OfCharacters(t, end, g) = OfBytes(b, g)
    BY <1>1, <1>2, <2>3, GroupComesBack
  <2>5. Byte(OfBytes(b, g), k) = At(b, Len(b), 3 * g + k)
    BY GroupOf
  <2>6. At(b, Len(b), i) = b[i]
    BY <1>1 DEF At
  <2>7. QED
    BY <2>1, <2>2, <2>4, <2>5, <2>6
<1>6. b = [i \in 1..(3 * q + r) |-> b[i]]
  BY <1>1, LenProperties
<1>7. QED
  BY <1>4, <1>5, <1>6

-----------------------------------------------------------------------------
(* The sessions: what is known of the times and of the cookie.                 *)

TimesOK ==
    /\ now \in Nat /\ cleanupTime \in Int /\ cleanupTime - CleanupFrequency <= now
    /\ lastUse \in [Ids -> Int]
    /\ DOMAIN timestamps \subseteq Ids

\* The client has the text of an id.
CookieOK == cookie.text = <<>> \/ (cookie.id \in Ids /\ cookie.text = base64Encode(cookie.id))

SIInv == TimesOK /\ CookieOK /\ SessionsKept

LEMMA SessionsInitially == ASSUME SessionsInit PROVE SIInv
<1>1. TimesOK
  <2>1. CleanupFrequency - CleanupFrequency <= 0 /\ CleanupFrequency \in Int /\ Never \in Int
    BY SessionsAssumption DEF Never
  <2>2. QED
    BY <2>1 DEF SessionsInit, TimesOK
<1>2. CookieOK
  BY DEF SessionsInit, CookieOK
<1>3. SessionsKept
  BY DEF SessionsInit, SessionsKept
<1>4. QED
  BY <1>1, <1>2, <1>3 DEF SIInv

LEMMA TickKept == ASSUME SIInv, Tick PROVE SIInv'
<1>1. TimesOK'
  BY SessionsAssumption DEF SIInv, TimesOK, Tick
<1>2. CookieOK'
  BY DEF SIInv, CookieOK, Tick
<1>3. ASSUME NEW i \in Ids, lastUse[i] # Never, (now + 1) - lastUse[i] <= KeepAlive PROVE i \in DOMAIN timestamps
  <2>1. now - lastUse[i] <= KeepAlive
    BY <1>3, SessionsAssumption DEF SIInv, TimesOK
  <2>2. QED
    BY <1>3, <2>1 DEF SIInv, SessionsKept
<1>4. SessionsKept'
  <2>1. now' = now + 1 /\ asked' = asked /\ lastUse' = lastUse /\ timestamps' = timestamps /\ cleanupTime' = cleanupTime
    BY DEF Tick
  <2>2. \A i \in Ids : lastUse[i] # Never /\ (now + 1) - lastUse[i] <= KeepAlive => i \in DOMAIN timestamps
    BY <1>3
  <2>3. /\ asked.id = asked.sent
        /\ \A i \in DOMAIN timestamps :
               timestamps[i] = lastUse[i] /\ timestamps[i] >= cleanupTime - CleanupFrequency - KeepAlive
    BY DEF SIInv, SessionsKept
  <2>4. QED
    BY <2>1, <2>2, <2>3 DEF SessionsKept
<1>5. QED
  BY <1>1, <1>2, <1>4 DEF SIInv

LEMMA generateKept == ASSUME SIInv, generate PROVE SIInv'
<1>1. PICK id \in Ids \ DOMAIN timestamps :
          /\ timestamps' = [i \in {id} \cup DOMAIN timestamps |-> IF i = id THEN now ELSE timestamps[i]]
          /\ lastUse' = [lastUse EXCEPT ![id] = now]
          /\ cookie' = [id |-> id, text |-> base64Encode(id)]
  BY DEF generate
<1>2. /\ DOMAIN timestamps' = {id} \cup DOMAIN timestamps
      /\ \A i \in DOMAIN timestamps' : timestamps'[i] = IF i = id THEN now ELSE timestamps[i]
  BY <1>1
<1>3. /\ now' = now /\ cleanupTime' = cleanupTime /\ asked' = asked
      /\ \A i \in Ids : lastUse'[i] = IF i = id THEN now ELSE lastUse[i]
  BY <1>1 DEF generate, SIInv, TimesOK
<1>4. TimesOK'
  BY <1>1, <1>2, <1>3 DEF SIInv, TimesOK
<1>5. CookieOK'
  BY <1>1 DEF CookieOK
<1>6. now >= cleanupTime - CleanupFrequency - KeepAlive
  BY SessionsAssumption DEF SIInv, TimesOK
<1>7. SessionsKept'
  BY <1>1, <1>2, <1>3, <1>6 DEF SIInv, SessionsKept, TimesOK
<1>8. QED
  BY <1>4, <1>5, <1>7 DEF SIInv

LEMMA VisitKept == ASSUME SIInv, Visit PROVE SIInv'
<1>1. cookie.id \in Ids /\ base64Decode(cookie.text) = cookie.id
  <2>1. cookie.id \in Ids /\ cookie.text = base64Encode(cookie.id)
    BY DEF SIInv, CookieOK, Visit
  <2>2. QED
    BY <2>1, SessionsAssumption, TextComesBack
<1>2. PICK id \in Ids : id = cookie.id
  BY <1>1
<1>3. /\ asked' = [sent |-> id, id |-> id]
      /\ timestamps' = IF id \in DOMAIN timestamps THEN [timestamps EXCEPT ![id] = now] ELSE timestamps
      /\ lastUse' = IF id \in DOMAIN timestamps THEN [lastUse EXCEPT ![id] = now] ELSE lastUse
      /\ now' = now /\ cleanupTime' = cleanupTime /\ cookie' = cookie
  BY <1>1, <1>2 DEF Visit
<1>4. DOMAIN timestamps' = DOMAIN timestamps
  BY <1>3
<1>5. \A i \in DOMAIN timestamps : timestamps'[i] = IF i = id THEN now ELSE timestamps[i]
  BY <1>3
<1>6. \A i \in Ids : lastUse'[i] = IF i = id /\ id \in DOMAIN timestamps THEN now ELSE lastUse[i]
  BY <1>3 DEF SIInv, TimesOK
<1>7. TimesOK'
  BY <1>3, <1>4 DEF SIInv, TimesOK
<1>8. CookieOK'
  BY <1>3 DEF SIInv, CookieOK
<1>9. now >= cleanupTime - CleanupFrequency - KeepAlive
  BY SessionsAssumption DEF SIInv, TimesOK
<1>10. SessionsKept'
  <2>1. asked'.id = asked'.sent
    BY <1>3
  <2>2. ASSUME NEW i \in Ids, lastUse'[i] # Never, now - lastUse'[i] <= KeepAlive PROVE i \in DOMAIN timestamps
    BY <1>6, <2>2 DEF SIInv, SessionsKept
  <2>3. ASSUME NEW i \in DOMAIN timestamps
        PROVE  timestamps'[i] = lastUse'[i] /\ timestamps'[i] >= cleanupTime - CleanupFrequency - KeepAlive
    BY <1>5, <1>6, <1>9 DEF SIInv, SessionsKept, TimesOK
  <2>4. QED
    BY <1>3, <1>4, <2>1, <2>2, <2>3 DEF SessionsKept
<1>11. QED
  BY <1>7, <1>8, <1>10 DEF SIInv

LEMMA cleanupKept == ASSUME SIInv, cleanup PROVE SIInv'
<1>1. /\ DOMAIN timestamps' = {i \in DOMAIN timestamps : timestamps[i] >= now - KeepAlive}
      /\ \A i \in DOMAIN timestamps' : timestamps'[i] = timestamps[i]
  BY DEF cleanup, Restrict
<1>2. cleanupTime' = now + CleanupFrequency /\ now' = now /\ lastUse' = lastUse /\ cookie' = cookie /\ asked' = asked
  BY DEF cleanup
<1>3. TimesOK'
  BY <1>1, <1>2, SessionsAssumption DEF SIInv, TimesOK
<1>4. CookieOK'
  BY <1>2 DEF SIInv, CookieOK
<1>5. ASSUME NEW i \in Ids, lastUse[i] # Never, now - lastUse[i] <= KeepAlive PROVE i \in DOMAIN timestamps'
  <2>1. i \in DOMAIN timestamps /\ timestamps[i] = lastUse[i]
    BY <1>5 DEF SIInv, SessionsKept
  <2>2. lastUse[i] >= now - KeepAlive
    BY <1>5, SessionsAssumption DEF SIInv, TimesOK
  <2>3. QED
    BY <1>1, <2>1, <2>2
<1>6. ASSUME NEW i \in DOMAIN timestamps'
      PROVE  timestamps'[i] = lastUse[i] /\ timestamps'[i] >= cleanupTime' - CleanupFrequency - KeepAlive
  <2>1. i \in DOMAIN timestamps /\ timestamps'[i] = timestamps[i] /\ timestamps[i] = lastUse[i] /\ timestamps[i] >= now - KeepAlive
    BY <1>1 DEF SIInv, SessionsKept
  <2>2. cleanupTime' - CleanupFrequency - KeepAlive = now - KeepAlive
    BY <1>2, SessionsAssumption DEF SIInv, TimesOK
  <2>3. QED
    BY <2>1, <2>2
<1>7. SessionsKept'
  BY <1>2, <1>5, <1>6 DEF SIInv, SessionsKept
<1>8. QED
  BY <1>3, <1>4, <1>7 DEF SIInv

LEMMA SessionsInvariantKept == ASSUME SIInv, [SessionsNext]_sessionsVars PROVE SIInv'
<1>1. CASE SessionsNext
  BY <1>1, TickKept, generateKept, VisitKept, cleanupKept DEF SessionsNext
<1>2. CASE UNCHANGED sessionsVars
  BY <1>2 DEF sessionsVars, SIInv, TimesOK, CookieOK, SessionsKept
<1>3. QED
  BY <1>1, <1>2

\* The text of an id finds the session it was made for; a session in use within
\* keepAlive stays, one that had expired when cleanup() last worked is gone.
THEOREM SessionsStay == SessionsSpec => []SessionsKept
<1>1. SIInv => SessionsKept
  BY DEF SIInv
<1>2. SessionsSpec => []SIInv
  BY SessionsInitially, SessionsInvariantKept, PTL DEF SessionsSpec
<1>3. QED
  BY <1>1, <1>2, PTL
=============================================================================
