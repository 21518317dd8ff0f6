--------------------------- MODULE QueryPoolProofs ---------------------------
(***************************************************************************)
(* For any number of threads, queries, batches and calls of start(): no      *)
(* thread of QueryPool sleeps on a query, a batch is committed whole or not  *)
(* at all, and every callback is called once.                                *)
(***************************************************************************)
EXTENDS QueryPool, FiniteSetTheorems, SequenceTheorems, WellFoundedInduction, TLAPS

\* The types this rests on: a batch goes to a thread there is.
SleepTypes ==
    /\ compared \in [Batch -> Thread] /\ instance \in [Batch -> Thread]
    /\ DOMAIN queries = Thread /\ queries = [t \in Thread |-> queries[t]]
    /\ DOMAIN pc = Thread /\ pc = [t \in Thread |-> pc[t]]

IInv == SleepTypes /\ NoQuerySlept

-----------------------------------------------------------------------------
(* Lemmas *)

LEMMA ThreadOne == 1 \in Thread
BY QueryPoolAssumption DEF Thread

\* A step that touches neither the queues nor the callers and puts no thread to
\* sleep, or only one that has nothing to do, keeps the invariant.
LEMMA StepOfThread ==
    ASSUME IInv, NEW u \in Thread, NEW to,
           to = "asleep" => queries[u] = <<>>,
           pc' = [pc EXCEPT ![u] = to],
           UNCHANGED <<compared, instance, queries>>
    PROVE  IInv'
<1>1. SleepTypes'
  BY DEF IInv, SleepTypes
<1>2. ASSUME NEW t \in Thread, pc'[t] = "asleep" PROVE queries'[t] = <<>>
  <2>1. CASE t = u
    BY <1>2, <2>1 DEF IInv, SleepTypes
  <2>2. CASE t # u
    BY <1>2, <2>2 DEF IInv, SleepTypes, NoQuerySlept
  <2>3. QED
    BY <2>1, <2>2
<1>3. QED
  BY <1>1, <1>2 DEF IInv, NoQuerySlept

\* Nor does one that changes none of these.
LEMMA StepElsewhere ==
    ASSUME IInv, UNCHANGED <<compared, instance, queries, pc>>
    PROVE  IInv'
BY DEF IInv, SleepTypes, NoQuerySlept

\* Nor does one that sets a thread going, whichever it is: no other falls asleep.
LEMMA StepOfWaking ==
    ASSUME IInv, NEW i, NEW to, to # "asleep",
           pc' = [pc EXCEPT ![i] = to],
           UNCHANGED <<compared, instance, queries>>
    PROVE  IInv'
<1>1. SleepTypes'
  BY DEF IInv, SleepTypes
<1>2. ASSUME NEW t \in Thread, pc'[t] = "asleep" PROVE pc[t] = "asleep"
  BY <1>2 DEF IInv, SleepTypes
<1>3. QED
  BY <1>1, <1>2 DEF IInv, NoQuerySlept

LEMMA WokenIsAwake == ASSUME NEW i PROVE Woken(i) # "asleep"
BY DEF Woken

-----------------------------------------------------------------------------
(* The invariant is inductive. *)

LEMMA Initially == Init => IInv
BY ThreadOne DEF Init, IInv, SleepTypes, NoQuerySlept

LEMMA Kept == IInv /\ [Next]_vars => IInv'
<1> SUFFICES ASSUME IInv, [Next]_vars PROVE IInv'
  OBVIOUS
<1> USE DEF controlVars, callerVars, workVars
<1>1. CASE Start
  BY <1>1, StepElsewhere DEF Start
<1>2. CASE Spawn
  BY <1>2, StepOfWaking DEF Spawn
<1>3. CASE Started
  BY <1>3, StepElsewhere DEF Started
<1>4. CASE Terminate
  BY <1>4, StepElsewhere DEF Terminate
<1>5. CASE Notify
  BY <1>5, StepOfWaking, WokenIsAwake DEF Notify
<1>6. CASE Terminated
  BY <1>6, StepElsewhere DEF Terminated
<1>7. ASSUME NEW b \in Batch, Call(b) PROVE IInv'
  <2>1. Instance \subseteq Thread
    BY QueryPoolAssumption
  <2>2. instance' \in [Batch -> Thread]
    BY <1>7, <2>1 DEF Call, IInv, SleepTypes
  <2>3. UNCHANGED <<compared, queries, pc>>
    BY <1>7 DEF Call
  <2>4. QED
    BY <2>2, <2>3 DEF IInv, SleepTypes, NoQuerySlept
<1>8. ASSUME NEW b \in Batch, Compare(b) PROVE IInv'
  <2>1. compared'[b] \in Thread /\ compared' \in [Batch -> Thread]
    <3>1. compared[b] \in Thread
      BY DEF IInv, SleepTypes
    <3>2. compared[b] # maxThreads => compared[b] + 1 \in Thread
      BY <3>1, QueryPoolAssumption DEF Thread
    <3>3. QED
      BY <1>8, <3>1, <3>2 DEF Compare, IInv, SleepTypes
  <2>2. instance' \in [Batch -> Thread]
    BY <1>8, <2>1 DEF Compare, IInv, SleepTypes
  <2>3. QED
    BY <1>8, <2>1, <2>2 DEF Compare, IInv, SleepTypes, NoQuerySlept
<1>9. ASSUME NEW b \in Batch, Push(b) PROVE IInv'
  <2>1. instance[b] \in Thread
    BY DEF IInv, SleepTypes
  <2>2. SleepTypes'
    BY <1>9 DEF Push, IInv, SleepTypes
  <2>3. ASSUME NEW t \in Thread, pc'[t] = "asleep" PROVE queries'[t] = <<>>
    <3>1. t # instance[b]
      BY <1>9, <2>1, <2>3, WokenIsAwake DEF Push, IInv, SleepTypes
    <3>2. pc'[t] = pc[t] /\ queries'[t] = queries[t]
      BY <1>9, <3>1 DEF Push, IInv, SleepTypes
    <3>3. QED
      BY <2>3, <3>2 DEF IInv, NoQuerySlept
  <2>4. QED
    BY <2>2, <2>3 DEF IInv, NoQuerySlept
<1>10. ASSUME NEW q \in Query, Cancel(q) PROVE IInv'
  BY <1>10, StepElsewhere DEF Cancel
<1>11. ASSUME NEW t \in Thread, intHandler(t) \/ SpuriousWakeup(t) PROVE IInv'
  <2> USE DEF Goto
  <2>1. CASE Enter(t)
    BY <2>1, StepOfThread DEF Enter
  <2>2. CASE Check(t)
    BY <2>2, StepOfThread DEF Check
  <2>3. CASE Sleep(t)
    BY <2>3, StepOfThread DEF Sleep
  <2>4. CASE SpuriousWakeup(t)
    BY <2>4, StepOfThread DEF SpuriousWakeup
  <2>5. CASE Take(t)
    <3>1. SleepTypes'
      BY <2>5 DEF Take, IInv, SleepTypes
    <3>2. ASSUME NEW u \in Thread, pc'[u] = "asleep" PROVE queries'[u] = <<>>
      <4>1. u # t /\ pc'[u] = pc[u]
        BY <2>5, <3>2 DEF Take, IInv, SleepTypes
      <4>2. queries'[u] = queries[u]
        BY <2>5, <4>1 DEF Take, IInv, SleepTypes
      <4>3. QED
        BY <3>2, <4>1, <4>2 DEF IInv, NoQuerySlept
    <3>3. QED
      BY <3>1, <3>2 DEF IInv, NoQuerySlept
  <2>6. CASE Execute(t)
    BY <2>6, StepOfThread DEF Execute
  <2>7. CASE Fail(t)
    BY <2>7, StepOfThread DEF Fail
  <2>8. CASE End(t)
    BY <2>8, StepOfThread DEF End
  <2>9. CASE Drop(t)
    <3>1. pc' = [pc EXCEPT ![t] = "callback"] /\ UNCHANGED <<compared, instance>>
      BY <2>9 DEF Drop
    <3>2. queries' = queries \/ queries' = [queries EXCEPT ![t] = <<>>]
      BY <2>9 DEF Drop
    <3>3. SleepTypes'
      BY <3>1, <3>2 DEF IInv, SleepTypes
    <3>4. ASSUME NEW u \in Thread, pc'[u] = "asleep" PROVE queries'[u] = <<>>
      <4>1. pc[u] = "asleep"
        BY <3>1, <3>4 DEF IInv, SleepTypes
      <4>2. queries[u] = <<>>
        BY <4>1 DEF IInv, NoQuerySlept
      <4>3. QED
        BY <3>2, <4>2 DEF IInv, SleepTypes
    <3>5. QED
      BY <3>3, <3>4 DEF IInv, NoQuerySlept
  <2>10. CASE Callback(t)
    BY <2>10, StepOfThread DEF Callback
  <2>11. CASE Leave(t)
    BY <2>11, StepOfThread DEF Leave
  <2>12. QED
    BY <1>11, <2>1, <2>2, <2>3, <2>4, <2>5, <2>6, <2>7, <2>8, <2>9, <2>10, <2>11 DEF intHandler
<1>12. CASE UNCHANGED vars
  BY <1>12, StepElsewhere DEF vars
<1>13. QED
  BY <1>1, <1>2, <1>3, <1>4, <1>5, <1>6, <1>7, <1>8, <1>9, <1>10, <1>11, <1>12
  DEF Next, Control, Caller

-----------------------------------------------------------------------------
\* No thread waits for a query that is in its queue: intHandler() looks at it
\* and waits under one mutex, and queue() pushes under it and then notifies.
\* The loop that drops the queue of a failed transaction only empties it.
THEOREM NoneSlept == Spec => []NoQuerySlept
<1>1. IInv => NoQuerySlept
  BY DEF IInv
<1>2. QED
  BY <1>1, Initially, Kept, PTL DEF Spec

-----------------------------------------------------------------------------
(* Transactions: the inductive invariant *)

\* The last query of a batch commits: the entry of queue() for the k-th query.
Entry(b, k) == [query |-> b[k], commit |-> k = Len(b)]

\* What a thread still has to do: the query in hand, until the batch of it was
\* dropped, and its queue.
InHand(t) == pc[t] \in {"execute", "end", "drop", "callback"}
Emptied(t) == pc[t] = "callback" /\ querySet[t].query \in m_error /\ ~querySet[t].commit
Lead(t) == IF InHand(t) /\ ~Emptied(t) THEN 1 ELSE 0
Size(t) == Lead(t) + Len(queries[t])
Item(t, i) == IF i <= Lead(t) THEN querySet[t] ELSE queries[t][i - Lead(t)]
OwnCallback(q) == IF q \in HasCallback THEN q ELSE NoQuery

\* Each entry is followed by the rest of its batch, which was queued for the
\* thread as a whole; and after a batch the next one begins.
Follows(t, i, b, k) ==
    /\ i + (Len(b) - k) <= Size(t)
    /\ \A j \in k..Len(b) : Item(t, i + (j - k)) = Entry(b, j)
LineOK(t) ==
    /\ \A i \in 1..Size(t) : \E b \in Batch : \E k \in 1..Len(b) :
           caller[b] = "done" /\ instance[b] = t /\ Follows(t, i, b, k)
    /\ \A i \in 1..Size(t) : i < Size(t) /\ Item(t, i).commit => \E b \in Batch : Item(t, i + 1) = Entry(b, 1)
    /\ \A i, j \in 1..Size(t) : i # j => Item(t, i).query # Item(t, j).query
    /\ Emptied(t) /\ Size(t) > 0 => \E b \in Batch : Item(t, 1) = Entry(b, 1)

\* What is still to do was not settled, and its callback is still its own.
UnsettledOK(t) == \A i \in 1..Size(t) : LET q == Item(t, i).query IN
    /\ q \notin finished \cup dropped /\ called[q] = 0 /\ m_callback[q] = OwnCallback(q)

\* Of its batch nothing is committed nor dropped, and nothing failed but the
\* query in hand; except that the batch in hand may be through.
Through(t, i) == i = Lead(t) /\ pc[t] \in {"drop", "callback"}
OpenOK(t) == \A i \in 1..Size(t) : \A b \in Batch : Item(t, i).query \in Parts(b) =>
    /\ Parts(b) \cap dropped = {}
    /\ ~Through(t, i) =>
           /\ Parts(b) \cap committed = {}
           /\ Parts(b) \cap m_error \subseteq (IF pc[t] = "drop" THEN {querySet[t].query} ELSE {})
HandOK(t) ==
    /\ InHand(t) => \E b \in Batch : \E k \in 1..Len(b) :
           caller[b] = "done" /\ instance[b] = t /\ querySet[t] = Entry(b, k)
    /\ pc[t] = "drop" => querySet[t].query \in m_error
           /\ \A b \in Batch : querySet[t].query \in Parts(b) => Parts(b) \cap committed = {}
    /\ InHand(t) => querySet[t].query \notin finished /\ querySet[t].query \notin dropped

\* The session holds what was executed of the batch that is under way, all of
\* it or what came after a cancelled query; or what it is about to roll back.
Clean(t) == Size(t) = 0 \/ pc[t] = "drop" \/ (pc[t] = "callback" /\ (querySet[t].commit \/ querySet[t].query \in m_error))
Executed(t) == IF pc[t] \in {"end", "callback"} THEN 1 ELSE 0
Abandoned(t) == pc[t] = "end" /\ querySet[t].query \in m_cancel
SessionOK(t) ==
    /\ Clean(t) => uncommitted[t] = {}
    /\ ~Clean(t) => \A b \in Batch : \A k \in 1..Len(b) : Item(t, 1) = Entry(b, k) =>
           LET past == {b[j] : j \in 1..(k - 1 + Executed(t))} IN
           /\ uncommitted[t] \subseteq past
           /\ Abandoned(t) \/ uncommitted[t] \in Rest(b, k - 1 + Executed(t), m_cancel)

\* When the queue was dropped, the failed query has the callback it is to call.
First(b, i, j) == i < j /\ b[j] \in HasCallback /\ \A k \in i..(j - 1) : b[k] \notin HasCallback
HeirOK(t) == Emptied(t) =>
    LET q == querySet[t].query
        p == m_callback[q]
    IN  /\ q \in HasCallback => p = q
        /\ p # NoQuery => called[p] = 0
        /\ p # NoQuery /\ p # q => p \in dropped /\ \E b \in Batch : p \in Parts(b) /\ instance[b] = t
        /\ \A b \in Batch : \A i, j \in DOMAIN b : q = b[i] /\ First(b, i, j) => p = b[j]

\* Nothing became of a batch that was not queued yet.
OutsideOK(b) == caller[b] # "done" =>
    /\ Parts(b) \cap (committed \cup dropped \cup finished \cup m_error) = {}
    /\ \A q \in Parts(b) : called[q] = 0 /\ m_callback[q] = OwnCallback(q)

CalledOK ==
    /\ \A q \in Query : called[q] <= 1 /\ (called[q] = 1 => q \in finished \cup dropped)
    /\ \A q \in finished \cap HasCallback : called[q] = 1
    /\ \A b \in Batch : \A i, j \in DOMAIN b : b[i] \in finished \cap m_error /\ First(b, i, j) => called[b[j]] = 1

\* While threads are started they are numbered as they came; they leave only
\* when terminate() was called, and m_threads counts them.
Active(t) == pc[t] \notin {"none", "entering"}
ControlOK ==
    /\ terminateBool <=> control \in {"stopped", "notifying", "joining"}
    /\ control = "stopped" => m_threads = 0 /\ \A t \in Thread : pc[t] = "none"
    /\ control \in {"starting", "waiting", "running"} =>
           \A t \in Thread : /\ Active(t) <=> t <= m_threads
                             /\ pc[t] = "entering" <=> control = "waiting" /\ t = m_threads + 1
                             /\ pc[t] # "leaving"
    /\ control = "waiting" => m_threads < maxThreads
    /\ control = "running" => m_threads = maxThreads
    /\ control \in {"notifying", "joining"} =>
           /\ m_threads = Cardinality({t \in Thread : Active(t)})
           /\ \A t \in Thread : pc[t] # "entering"

ThreadOK(t) == LineOK(t) /\ UnsettledOK(t) /\ OpenOK(t) /\ HandOK(t) /\ SessionOK(t) /\ HeirOK(t)

WorkOK ==
    /\ \A t \in Thread : ThreadOK(t)
    /\ \A b \in Batch : OutsideOK(b)
    /\ RestOrNothing /\ CalledOK

BInv == TypeOK /\ ControlOK /\ WorkOK

-----------------------------------------------------------------------------
(* Lemmas on numbers, sequences and batches *)

LEMMA Least ==
    ASSUME NEW T, T \subseteq Nat, T # {}
    PROVE  \E i \in T : \A j \in T : i <= j
<1> DEFINE R == {pair \in Nat \X Nat : pair[1] < pair[2]}
<1>1. R = OpToRel(<, Nat)
  BY DEF OpToRel
<1>2. IsWellFoundedOn(R, Nat)
  BY <1>1, NatLessThanWellFounded
<1>3. PICK i \in T : \A j \in T : <<j, i>> \notin R
  BY <1>2, WFMin
<1>4. ASSUME NEW j \in T PROVE i <= j
  <2>1. i \in Nat /\ j \in Nat /\ <<j, i>> \in Nat \X Nat
    OBVIOUS
  <2>2. <<j, i>> \in R <=> j < i
    BY <2>1
  <2>3. QED
    BY <1>3, <2>1, <2>2
<1>5. QED
  BY <1>4

LEMMA BatchOf ==
    ASSUME NEW b \in Batch
    PROVE  /\ b \in Seq(Query) /\ Len(b) \in Nat /\ Len(b) >= 1 /\ DOMAIN b = 1..Len(b)
           /\ \A k \in 1..Len(b) : b[k] \in Query /\ b[k] \in Parts(b) /\ Entry(b, k) \in QuerySet
           /\ \A q \in Parts(b) : \E k \in 1..Len(b) : q = b[k]
           /\ \A j, k \in 1..Len(b) : b[j] = b[k] => j = k
           /\ Parts(b) = {b[k] : k \in 1..Len(b)}
<1>1. b \in Seq(Query) /\ b # <<>> /\ IsInjective(b)
  BY QueryPoolAssumption
<1>2. Len(b) \in Nat /\ Len(b) # 0 /\ DOMAIN b = 1..Len(b)
  BY <1>1, EmptySeq, LenProperties
<1>3. \A k \in 1..Len(b) : b[k] \in Query
  BY <1>1, ElementOfSeq
<1>4. QED
  BY <1>1, <1>2, <1>3 DEF Parts, ToSet, Entry, QuerySet, IsInjective

\* What is left of a batch: nothing at its start and behind a cancelled query,
\* one query more after each, and no less when more queries are cancelled.
LEMMA RestOf ==
    ASSUME NEW b \in Batch, NEW C
    PROVE  /\ {} \in Rest(b, 0, C)
           /\ \A k \in 1..Len(b) :
                  /\ b[k] \in C => {} \in Rest(b, k, C)
                  /\ \A s \in Rest(b, k - 1, C) : s \cup {b[k]} \in Rest(b, k, C)
           /\ \A n \in 1..Len(b) : \A s \in Rest(b, n, C) : s \subseteq Parts(b)
           /\ \A n, D : C \subseteq D => Rest(b, n, C) \subseteq Rest(b, n, D)
<1>1. {} \in Rest(b, 0, C)
  <2>1. {} = {b[j] : j \in (0 + 1)..0}
    OBVIOUS
  <2>2. QED
    BY <2>1 DEF Rest
<1>2. ASSUME NEW k \in 1..Len(b), b[k] \in C PROVE {} \in Rest(b, k, C)
  <2>1. k \in Nat /\ k \in {0} \cup {m \in 1..k : b[m] \in C}
    BY <1>2, BatchOf
  <2>2. {b[j] : j \in (k + 1)..k} = {}
    BY <2>1
  <2>3. QED
    BY <2>1, <2>2 DEF Rest
<1>3. ASSUME NEW k \in 1..Len(b), NEW s \in Rest(b, k - 1, C) PROVE s \cup {b[k]} \in Rest(b, k, C)
  <2>1. k \in Nat /\ k >= 1
    BY BatchOf
  <2>2. PICK i \in {0} \cup {m \in 1..(k - 1) : b[m] \in C} : s = {b[j] : j \in (i + 1)..(k - 1)}
    BY <1>3 DEF Rest
  <2>3. i \in {0} \cup {m \in 1..k : b[m] \in C} /\ i \in Nat /\ i <= k - 1
    BY <2>1, <2>2
  <2>4. (i + 1)..k = ((i + 1)..(k - 1)) \cup {k}
    BY <2>1, <2>3
  <2>5. s \cup {b[k]} = {b[j] : j \in (i + 1)..k}
    BY <2>2, <2>4
  <2>6. QED
    BY <2>3, <2>5 DEF Rest
<1>4. ASSUME NEW n \in 1..Len(b), NEW s \in Rest(b, n, C) PROVE s \subseteq Parts(b)
  <2>1. PICK i \in {0} \cup {m \in 1..n : b[m] \in C} : s = {b[j] : j \in (i + 1)..n}
    BY <1>4 DEF Rest
  <2>2. \A j \in (i + 1)..n : j \in 1..Len(b)
    BY BatchOf
  <2>3. QED
    BY <2>1, <2>2, BatchOf
<1>5. ASSUME NEW n, NEW D, C \subseteq D PROVE Rest(b, n, C) \subseteq Rest(b, n, D)
  BY <1>5 DEF Rest
<1>6. QED
  BY <1>1, <1>2, <1>3, <1>4, <1>5

LEMMA HomeOf ==
    ASSUME NEW a \in Batch, NEW b \in Batch, NEW q, q \in Parts(a), q \in Parts(b)
    PROVE  a = b
BY QueryPoolAssumption

LEMMA EntryOf ==
    ASSUME NEW a \in Batch, NEW b \in Batch, NEW j \in 1..Len(a), NEW k \in 1..Len(b),
           Entry(a, j).query = Entry(b, k).query
    PROVE  a = b /\ j = k
<1>1. a[j] = b[k]
  BY DEF Entry
<1>2. QED
  BY <1>1, BatchOf, HomeOf

LEMMA LineTypes ==
    ASSUME TypeOK, NEW t \in Thread, HandOK(t)
    PROVE  /\ Len(queries[t]) \in Nat /\ DOMAIN queries[t] = 1..Len(queries[t])
           /\ \A i \in 1..Len(queries[t]) : queries[t][i] \in QuerySet
           /\ Lead(t) \in {0, 1} /\ Size(t) \in Nat
           /\ InHand(t) => querySet[t] \in QuerySet /\ querySet[t].query \in Query
           /\ \A i \in 1..Size(t) : Item(t, i) \in QuerySet /\ Item(t, i).query \in Query
<1>1. /\ queries[t] \in Seq(QuerySet) /\ Len(queries[t]) \in Nat /\ DOMAIN queries[t] = 1..Len(queries[t])
      /\ \A i \in 1..Len(queries[t]) : queries[t][i] \in QuerySet
  BY LenProperties, ElementOfSeq DEF TypeOK
<1>2. InHand(t) => querySet[t] \in QuerySet
  BY BatchOf DEF HandOK
<1>3. Lead(t) \in {0, 1} /\ Size(t) \in Nat /\ (Lead(t) = 1 => InHand(t))
  <2>1. Lead(t) \in {0, 1} /\ (Lead(t) = 1 => InHand(t))
    BY DEF Lead
  <2>2. QED
    BY <1>1, <2>1 DEF Size
<1>4. \A i \in 1..Size(t) : Item(t, i) \in QuerySet
  BY <1>1, <1>2, <1>3 DEF Item, Size
<1>5. \A x \in QuerySet : x.query \in Query
  BY DEF QuerySet
<1>6. QED
  BY <1>1, <1>2, <1>3, <1>4, <1>5

-----------------------------------------------------------------------------
(* Types, and the threads that there are *)

LEMMA SetTypes ==
    TypeOK <=>
        /\ control \in {"stopped", "starting", "waiting", "running", "notifying", "joining"}
        /\ notified \in 0..maxThreads /\ starts \in 0..MaxStarts
        /\ m_threads \in 0..maxThreads /\ terminateBool \in BOOLEAN
        /\ caller \in [Batch -> {"outside", "comparing", "chosen", "done"}]
        /\ compared \in [Batch -> Thread] /\ instance \in [Batch -> Thread]
        /\ queries \in [Thread -> Seq(QuerySet)]
        /\ pc \in [Thread -> {"none", "entering", "check", "look", "asleep", "execute",
                              "end", "drop", "callback", "leaving"}]
        /\ querySet \in [Thread -> QuerySet \cup {Nothing}]
        /\ uncommitted \in [Thread -> SUBSET Query]
        /\ m_callback \in [Query -> Query \cup {NoQuery}] /\ called \in [Query -> Nat]
        /\ m_cancel \subseteq Query /\ m_error \subseteq Query /\ committed \subseteq Query
        /\ finished \subseteq Query /\ dropped \subseteq Query
        /\ late \subseteq Thread
BY DEF TypeOK

\* The threads are as many as m_threads says when they are all there.
LEMMA AllActive ==
    ASSUME \A t \in Thread : Active(t), m_threads = maxThreads
    PROVE  m_threads = Cardinality({t \in Thread : Active(t)})
<1>1. {t \in Thread : Active(t)} = Thread
  OBVIOUS
<1>2. Cardinality(Thread) = maxThreads
  BY FS_Interval, QueryPoolAssumption DEF Thread
<1>3. QED
  BY <1>1, <1>2

LEMMA ActiveFinite ==
    /\ IsFiniteSet({t \in Thread : Active(t)}) /\ Cardinality({t \in Thread : Active(t)}) \in 0..maxThreads
    /\ Cardinality({t \in Thread : Active(t)}) = 0 <=> \A t \in Thread : ~Active(t)
<1>1. IsFiniteSet(Thread) /\ Cardinality(Thread) = maxThreads
  BY FS_Interval, QueryPoolAssumption DEF Thread
<1>2. {t \in Thread : Active(t)} \in SUBSET Thread
  OBVIOUS
<1>3. IsFiniteSet({t \in Thread : Active(t)}) /\ Cardinality({t \in Thread : Active(t)}) <= maxThreads
  BY <1>1, <1>2, FS_Subset
<1>4. Cardinality({t \in Thread : Active(t)}) \in Nat
  BY <1>3, FS_CardinalityType
<1>5. Cardinality({t \in Thread : Active(t)}) = 0 <=> {t \in Thread : Active(t)} = {}
  BY <1>3, FS_EmptySet
<1>6. QED
  BY <1>3, <1>4, <1>5, QueryPoolAssumption

\* A step of the threads that neither begin nor leave.
LEMMA ControlFrame ==
    ASSUME TypeOK, ControlOK, UNCHANGED <<control, m_threads, terminateBool>>,
           \A t \in Thread : pc'[t] = pc[t]
               \/ (Active(t) /\ Active(t)' /\ (pc'[t] = "leaving" => terminateBool))
    PROVE  ControlOK'
<1>1. \A t \in Thread : (Active(t)' <=> Active(t)) /\ (pc'[t] = "entering" <=> pc[t] = "entering")
                        /\ (pc'[t] = "none" <=> pc[t] = "none")
                        /\ (pc'[t] = "leaving" => pc[t] = "leaving" \/ terminateBool)
  BY DEF Active
<1>2. {t \in Thread : Active(t)}' = {t \in Thread : Active(t)}
  BY <1>1
<1>3. control \in {"starting", "waiting", "running"} => ~terminateBool
  BY DEF ControlOK
<1>4. QED
  BY <1>1, <1>2, <1>3 DEF ControlOK

LEMMA ControlKept ==
    ASSUME TypeOK, ControlOK, Control \/ Terminate
    PROVE  TypeOK' /\ ControlOK'
<1> USE DEF callerVars, workVars
<1>0. maxThreads \in Nat \ {0} /\ m_threads \in Nat /\ MaxStarts \in Nat /\ Thread = 1..maxThreads
      /\ pc \in [Thread -> {"none", "entering", "check", "look", "asleep", "execute",
                            "end", "drop", "callback", "leaving"}]
  BY SetTypes, QueryPoolAssumption DEF Thread
<1>1. CASE Start
  <2>1. TypeOK'
    <3>1. starts \in 0..MaxStarts /\ starts < MaxStarts /\ starts' = starts + 1
      BY <1>1, SetTypes DEF Start
    <3>2. starts' \in 0..MaxStarts
      BY <1>0, <3>1
    <3>3. terminateBool' \in BOOLEAN /\ late' \subseteq Thread
      BY <1>1 DEF Start
    <3>4. QED
      BY <1>1, <3>2, <3>3 DEF Start, TypeOK
  <2>2. control = "stopped" /\ control' = "starting" /\ terminateBool' = FALSE /\ m_threads' = m_threads /\ pc' = pc
    BY <1>1 DEF Start
  <2>3. ControlOK'
    BY <1>0, <2>2 DEF ControlOK, Active
  <2>4. QED
    BY <2>1, <2>3
<1>2. CASE Spawn
  <2>1. /\ m_threads + 1 \in Thread /\ control = "starting" /\ control' = "waiting"
        /\ terminateBool' = terminateBool /\ m_threads' = m_threads /\ m_threads < maxThreads
        /\ pc' = [pc EXCEPT ![m_threads + 1] = "entering"]
    BY <1>0, <1>2 DEF Spawn
  <2>2. pc' \in [Thread -> {"none", "entering", "check", "look", "asleep", "execute",
                            "end", "drop", "callback", "leaving"}]
    BY <1>0, <2>1
  <2>3. TypeOK'
    BY <1>2, <2>2 DEF Spawn, TypeOK
  <2>4. \A t \in Thread : (Active(t) <=> t <= m_threads) /\ pc[t] # "entering" /\ pc[t] # "leaving"
    BY <2>1 DEF ControlOK
  <2>5. \A t \in Thread : /\ Active(t)' <=> t <= m_threads
                          /\ pc'[t] = "entering" <=> t = m_threads + 1
                          /\ pc'[t] # "leaving"
    BY <1>0, <2>1, <2>4 DEF Active
  <2>6. ControlOK'
    BY <2>1, <2>5 DEF ControlOK
  <2>7. QED
    BY <2>3, <2>6
<1>3. CASE Started
  <2>1. TypeOK'
    BY <1>3 DEF Started, TypeOK
  <2>2. /\ control = "starting" /\ control' = "running" /\ terminateBool' = terminateBool /\ m_threads' = m_threads
        /\ pc' = pc /\ m_threads = maxThreads
    BY <1>3 DEF Started
  <2>3. ControlOK'
    BY <2>2 DEF ControlOK, Active
  <2>4. QED
    BY <2>1, <2>3
<1>4. CASE Terminate
  <2>1. TypeOK'
    BY <1>0, <1>4 DEF Terminate, TypeOK
  <2>2. /\ control = "running" /\ control' = "notifying" /\ terminateBool' = TRUE /\ m_threads' = m_threads /\ pc' = pc
    BY <1>4 DEF Terminate
  <2>3. \A t \in Thread : Active(t) /\ pc[t] # "entering"
    BY <1>0, <2>2 DEF ControlOK, Active
  <2>4. m_threads = Cardinality({t \in Thread : Active(t)})
    BY <2>2, <2>3, AllActive DEF ControlOK
  <2>5. {t \in Thread : Active(t)}' = {t \in Thread : Active(t)}
    BY <2>2 DEF Active
  <2>6. ControlOK'
    BY <2>2, <2>3, <2>4, <2>5 DEF ControlOK
  <2>7. QED
    BY <2>1, <2>6
<1>5. CASE Notify
  <2>1. /\ notified < maxThreads /\ notified' = notified + 1 /\ control = "notifying"
        /\ control' \in {"joining", "notifying"} /\ terminateBool' = terminateBool /\ m_threads' = m_threads
        /\ pc' = [pc EXCEPT ![notified'] = Woken(notified')]
    BY <1>5 DEF Notify
  <2>2. notified' \in Thread /\ notified' \in 0..maxThreads
    BY <1>0, <2>1, SetTypes
  <2>3. pc' \in [Thread -> {"none", "entering", "check", "look", "asleep", "execute",
                            "end", "drop", "callback", "leaving"}]
    BY <1>0, <2>1, <2>2 DEF Woken
  <2>4. TypeOK'
    BY <1>5, <2>1, <2>2, <2>3 DEF Notify, TypeOK
  <2>5. \A t \in Thread : pc'[t] = pc[t] \/ (pc[t] = "asleep" /\ pc'[t] = "check")
    BY <1>0, <2>1 DEF Woken
  <2>6. \A t \in Thread : (Active(t)' <=> Active(t)) /\ (pc'[t] = "entering" <=> pc[t] = "entering")
    BY <2>5 DEF Active
  <2>7. {t \in Thread : Active(t)}' = {t \in Thread : Active(t)}
    BY <2>6
  <2>8. ControlOK'
    BY <2>1, <2>6, <2>7 DEF ControlOK
  <2>9. QED
    BY <2>4, <2>8
<1>6. CASE Terminated
  <2>1. TypeOK'
    BY <1>6 DEF Terminated, TypeOK
  <2>2. /\ control = "joining" /\ control' = "stopped" /\ terminateBool' = terminateBool /\ m_threads' = m_threads
        /\ pc' = pc /\ m_threads = 0
    BY <1>6 DEF Terminated
  <2>3. \A t \in Thread : pc[t] = "none"
    BY <2>2, ActiveFinite DEF ControlOK, Active
  <2>4. ControlOK'
    BY <2>2, <2>3 DEF ControlOK
  <2>5. QED
    BY <2>1, <2>4
<1>7. QED
  BY <1>1, <1>2, <1>3, <1>4, <1>5, <1>6 DEF Control

LEMMA CallersTyped ==
    ASSUME TypeOK, ControlOK, (\E b \in Batch : Call(b) \/ Caller(b)) \/ (\E q \in Query : Cancel(q))
    PROVE  TypeOK' /\ ControlOK'
<1> USE DEF controlVars, workVars
<1>0. /\ caller \in [Batch -> {"outside", "comparing", "chosen", "done"}]
      /\ compared \in [Batch -> Thread] /\ instance \in [Batch -> Thread]
      /\ queries \in [Thread -> Seq(QuerySet)]
      /\ pc \in [Thread -> {"none", "entering", "check", "look", "asleep", "execute",
                            "end", "drop", "callback", "leaving"}]
  BY SetTypes
<1>1. ASSUME NEW b \in Batch, Call(b) PROVE TypeOK' /\ ControlOK'
  <2>1. instance' \in [Batch -> Thread]
    BY <1>0, <1>1, QueryPoolAssumption DEF Call
  <2>2. caller' \in [Batch -> {"outside", "comparing", "chosen", "done"}]
    BY <1>0, <1>1 DEF Call
  <2>3. TypeOK'
    BY <1>1, <2>1, <2>2 DEF Call, TypeOK
  <2>4. QED
    BY <1>1, <2>3, ControlFrame DEF Call
<1>2. ASSUME NEW b \in Batch, Compare(b) PROVE TypeOK' /\ ControlOK'
  <2>1. compared' \in [Batch -> Thread]
    <3>1. compared[b] \in Thread
      BY <1>0
    <3>2. compared[b] # maxThreads => compared[b] + 1 \in Thread
      BY <3>1, QueryPoolAssumption DEF Thread
    <3>3. QED
      BY <1>0, <1>2, <3>2 DEF Compare
  <2>2. instance' \in [Batch -> Thread]
    BY <1>0, <1>2, <2>1 DEF Compare
  <2>3. caller' \in [Batch -> {"outside", "comparing", "chosen", "done"}]
    BY <1>0, <1>2 DEF Compare
  <2>4. TypeOK'
    BY <1>2, <2>1, <2>2, <2>3 DEF Compare, TypeOK
  <2>5. QED
    BY <1>2, <2>4, ControlFrame DEF Compare
<1>3. ASSUME NEW b \in Batch, Push(b) PROVE TypeOK' /\ ControlOK'
  <2>1. QuerySets(b) \in Seq(QuerySet)
    BY BatchOf DEF QuerySets, Entry
  <2>2. instance[b] \in Thread
    BY <1>0
  <2>3. queries[instance[b]] \o QuerySets(b) \in Seq(QuerySet)
    BY <1>0, <2>1, <2>2, ConcatProperties
  <2>4. queries' \in [Thread -> Seq(QuerySet)]
    BY <1>0, <1>3, <2>2, <2>3 DEF Push
  <2>5. /\ caller' \in [Batch -> {"outside", "comparing", "chosen", "done"}]
        /\ pc' \in [Thread -> {"none", "entering", "check", "look", "asleep", "execute",
                               "end", "drop", "callback", "leaving"}]
    BY <1>0, <1>3, <2>2 DEF Push, Woken
  <2>6. TypeOK'
    BY <1>3, <2>4, <2>5 DEF Push, TypeOK
  <2>7. \A t \in Thread : pc'[t] = pc[t] \/ (Active(t) /\ Active(t)' /\ pc'[t] # "leaving")
    BY <1>0, <1>3, <2>2 DEF Push, Woken, Active
  <2>8. QED
    BY <1>3, <2>6, <2>7, ControlFrame DEF Push
<1>4. ASSUME NEW q \in Query, Cancel(q) PROVE TypeOK' /\ ControlOK'
  <2>1. m_cancel' \subseteq Query
    BY <1>4, SetTypes DEF Cancel
  <2>2. TypeOK'
    BY <1>4, <2>1 DEF Cancel, TypeOK, callerVars
  <2>3. QED
    BY <1>4, <2>2, ControlFrame DEF Cancel, callerVars
<1>5. QED
  BY <1>1, <1>2, <1>3, <1>4 DEF Caller

\* The callback that a failed query is left with: its own, or the first found.
LEMMA HeirIs ==
    ASSUME TypeOK, NEW t \in Thread, HandOK(t), InHand(t)
    PROVE  LET own == m_callback[querySet[t].query] IN
           /\ own # NoQuery \/ Heirs(t) = {} => Heir(t) = own
           /\ own = NoQuery /\ Heirs(t) # {} =>
                  \E i \in Heirs(t) : (\A j \in Heirs(t) : i <= j) /\ Heir(t) = m_callback[queries[t][i].query]
           /\ Heir(t) \in Query \cup {NoQuery}
<1> DEFINE own == m_callback[querySet[t].query]
<1>1. own # NoQuery \/ Heirs(t) = {} => Heir(t) = own
  BY DEF Heir
<1>2. ASSUME own = NoQuery, Heirs(t) # {}
      PROVE  \E i \in Heirs(t) : (\A j \in Heirs(t) : i <= j) /\ Heir(t) = m_callback[queries[t][i].query]
  <2>1. Heirs(t) \subseteq Nat
    BY LineTypes DEF Heirs
  <2>2. \E i \in Heirs(t) : \A j \in Heirs(t) : i <= j
    BY <1>2, <2>1, Least
  <2> DEFINE least == CHOOSE i \in Heirs(t) : \A j \in Heirs(t) : i <= j
  <2>3. least \in Heirs(t) /\ \A j \in Heirs(t) : least <= j
    BY <2>2
  <2>4. Heir(t) = m_callback[queries[t][least].query]
    BY <1>2 DEF Heir
  <2> HIDE DEF least
  <2>5. QED
    BY <2>3, <2>4
<1>3. own \in Query \cup {NoQuery}
  BY LineTypes, SetTypes
<1>4. \A i \in Heirs(t) : m_callback[queries[t][i].query] \in Query \cup {NoQuery}
  <2>1. \A i \in Heirs(t) : queries[t][i].query \in Query
    BY LineTypes DEF Heirs, QuerySet
  <2>2. QED
    BY <2>1, SetTypes
<1>5. QED
  BY <1>1, <1>2, <1>3, <1>4

LEMMA HandlersTyped ==
    ASSUME TypeOK, ControlOK, NEW t \in Thread, HandOK(t), intHandler(t) \/ SpuriousWakeup(t)
    PROVE  TypeOK' /\ ControlOK'
<1> USE DEF controlVars, workVars, callerVars, Goto
<1>0. /\ queries \in [Thread -> Seq(QuerySet)] /\ querySet \in [Thread -> QuerySet \cup {Nothing}]
      /\ uncommitted \in [Thread -> SUBSET Query]
      /\ m_callback \in [Query -> Query \cup {NoQuery}] /\ called \in [Query -> Nat]
      /\ m_error \subseteq Query /\ committed \subseteq Query
      /\ finished \subseteq Query /\ dropped \subseteq Query
      /\ pc \in [Thread -> {"none", "entering", "check", "look", "asleep", "execute",
                            "end", "drop", "callback", "leaving"}]
      /\ maxThreads \in Nat \ {0} /\ m_threads \in 0..maxThreads
  BY SetTypes, QueryPoolAssumption
<1>1. InHand(t) => querySet[t].query \in Query
  BY LineTypes
<1>2. ASSUME UNCHANGED <<control, m_threads, terminateBool>>,
             \A u \in Thread \ {t} : pc'[u] = pc[u], Active(t), Active(t)', pc'[t] = "leaving" => terminateBool
      PROVE  ControlOK'
  <2>1. \A u \in Thread : pc'[u] = pc[u] \/ (Active(u) /\ Active(u)' /\ (pc'[u] = "leaving" => terminateBool))
    BY <1>2
  <2>2. QED
    BY <1>2, <2>1, ControlFrame
<1>3. CASE Enter(t)
  <2>1. pc[t] = "entering" /\ pc' = [pc EXCEPT ![t] = "check"] /\ m_threads' = m_threads + 1
        /\ control' = (IF control = "waiting" THEN "starting" ELSE control) /\ terminateBool' = terminateBool
    BY <1>3 DEF Enter
  <2>2. control = "waiting" /\ t = m_threads + 1 /\ m_threads < maxThreads
    BY <2>1, SetTypes DEF ControlOK
  <2>3. m_threads' \in 0..maxThreads /\ control' = "starting"
    BY <1>0, <2>1, <2>2
  <2>4. pc' \in [Thread -> {"none", "entering", "check", "look", "asleep", "execute",
                            "end", "drop", "callback", "leaving"}]
    BY <1>0, <2>1
  <2>5. TypeOK'
    BY <1>3, <2>3, <2>4 DEF Enter, TypeOK
  <2>6. \A u \in Thread : /\ Active(u) <=> u <= m_threads
                          /\ pc[u] = "entering" <=> u = m_threads + 1
                          /\ pc[u] # "leaving"
    BY <2>2 DEF ControlOK
  <2>7. \A u \in Thread : /\ Active(u)' <=> u <= m_threads + 1
                          /\ pc'[u] # "entering" /\ pc'[u] # "leaving"
    BY <1>0, <2>1, <2>2, <2>6 DEF Active, Thread
  <2>8. ControlOK'
    BY <2>1, <2>2, <2>3, <2>7 DEF ControlOK
  <2>9. QED
    BY <2>5, <2>8
<1>4. CASE Check(t)
  <2>1. TypeOK'
    BY <1>0, <1>4 DEF Check, TypeOK
  <2>2. /\ Active(t) /\ Active(t)' /\ \A u \in Thread \ {t} : pc'[u] = pc[u]
        /\ pc'[t] = "leaving" => terminateBool
        /\ UNCHANGED <<control, m_threads, terminateBool>>
    BY <1>0, <1>4 DEF Check, Active
  <2>3. QED
    BY <1>2, <2>1, <2>2
<1>5. CASE Sleep(t) \/ SpuriousWakeup(t)
  <2>1. /\ pc[t] \in {"look", "asleep"} /\ UNCHANGED <<controlVars, callerVars, queries, querySet, m_cancel, workVars>>
        /\ \E to \in {"asleep", "check"} : pc' = [pc EXCEPT ![t] = to]
    BY <1>5 DEF Sleep, SpuriousWakeup
  <2>2. TypeOK'
    BY <1>0, <2>1 DEF TypeOK
  <2>3. Active(t) /\ Active(t)' /\ pc'[t] # "leaving" /\ \A u \in Thread \ {t} : pc'[u] = pc[u]
    BY <1>0, <2>1 DEF Active
  <2>4. QED
    BY <1>2, <2>1, <2>2, <2>3
<1>6. CASE Take(t)
  <2>1. queries[t] \in Seq(QuerySet) /\ queries[t] # <<>>
    BY <1>0, <1>6 DEF Take
  <2>2. Head(queries[t]) \in QuerySet /\ Tail(queries[t]) \in Seq(QuerySet)
    BY <2>1, HeadTailProperties, EmptySeq
  <2>3. queries' \in [Thread -> Seq(QuerySet)] /\ querySet' \in [Thread -> QuerySet \cup {Nothing}]
    BY <1>0, <1>6, <2>2 DEF Take
  <2>4. TypeOK'
    BY <1>0, <1>6, <2>3 DEF Take, TypeOK
  <2>5. /\ Active(t) /\ Active(t)' /\ pc'[t] # "leaving" /\ \A u \in Thread \ {t} : pc'[u] = pc[u]
        /\ UNCHANGED <<control, m_threads, terminateBool>>
    BY <1>0, <1>6 DEF Take, Active
  <2>6. QED
    BY <1>2, <2>4, <2>5
<1>7. CASE Execute(t)
  <2>1. uncommitted' \in [Thread -> SUBSET Query]
    <3>1. querySet[t].query \in Query
      BY <1>1, <1>7 DEF Execute, InHand
    <3>2. uncommitted[t] \cup {querySet[t].query} \in SUBSET Query
      BY <1>0, <3>1
    <3>3. uncommitted' = uncommitted \/ uncommitted' = [uncommitted EXCEPT ![t] = uncommitted[t] \cup {querySet[t].query}]
      BY <1>7 DEF Execute
    <3>4. QED
      BY <1>0, <3>2, <3>3
  <2>2. TypeOK'
    BY <1>0, <1>7, <2>1 DEF Execute, TypeOK
  <2>3. /\ Active(t) /\ Active(t)' /\ pc'[t] # "leaving" /\ \A u \in Thread \ {t} : pc'[u] = pc[u]
        /\ UNCHANGED <<control, m_threads, terminateBool>>
    BY <1>0, <1>7 DEF Execute, Active
  <2>4. QED
    BY <1>2, <2>2, <2>3
<1>8. CASE Fail(t)
  <2>1. uncommitted' \in [Thread -> SUBSET Query] /\ m_error' \subseteq Query
    BY <1>0, <1>1, <1>8 DEF Fail, InHand
  <2>2. TypeOK'
    BY <1>0, <1>8, <2>1 DEF Fail, TypeOK
  <2>3. /\ Active(t) /\ Active(t)' /\ pc'[t] # "leaving" /\ \A u \in Thread \ {t} : pc'[u] = pc[u]
        /\ UNCHANGED <<control, m_threads, terminateBool>>
    BY <1>0, <1>8 DEF Fail, Active
  <2>4. QED
    BY <1>2, <2>2, <2>3
<1>9. CASE End(t)
  <2>1. uncommitted' \in [Thread -> SUBSET Query] /\ committed' \subseteq Query
    BY <1>0, <1>9 DEF End
  <2>2. TypeOK'
    BY <1>0, <1>9, <2>1 DEF End, TypeOK
  <2>3. /\ Active(t) /\ Active(t)' /\ pc'[t] # "leaving" /\ \A u \in Thread \ {t} : pc'[u] = pc[u]
        /\ UNCHANGED <<control, m_threads, terminateBool>>
    BY <1>0, <1>9 DEF End, Active
  <2>4. QED
    BY <1>2, <2>2, <2>3
<1>10. CASE Drop(t)
  <2>1. Heir(t) \in Query \cup {NoQuery} /\ querySet[t].query \in Query
    BY <1>1, <1>10, HeirIs DEF Drop, InHand
  <2>2. m_callback' \in [Query -> Query \cup {NoQuery}]
    BY <1>0, <1>10, <2>1 DEF Drop
  <2>3. \A i \in DOMAIN queries[t] : queries[t][i].query \in Query
    BY LineTypes DEF QuerySet
  <2>4. dropped' \subseteq Query
    <3>1. dropped' = dropped \/ dropped' = dropped \cup {queries[t][i].query : i \in DOMAIN queries[t]}
      BY <1>10 DEF Drop
    <3>2. {queries[t][i].query : i \in DOMAIN queries[t]} \subseteq Query
      BY <2>3
    <3>3. QED
      BY <1>0, <3>1, <3>2
  <2>5. queries' \in [Thread -> Seq(QuerySet)]
    <3>1. <<>> \in Seq(QuerySet)
      BY EmptySeq
    <3>2. queries' = queries \/ queries' = [queries EXCEPT ![t] = <<>>]
      BY <1>10 DEF Drop
    <3>3. QED
      BY <1>0, <3>1, <3>2
  <2>6. TypeOK'
    BY <1>0, <1>10, <2>2, <2>4, <2>5 DEF Drop, TypeOK
  <2>7. /\ Active(t) /\ Active(t)' /\ pc'[t] # "leaving" /\ \A u \in Thread \ {t} : pc'[u] = pc[u]
        /\ UNCHANGED <<control, m_threads, terminateBool>>
    BY <1>0, <1>10 DEF Drop, Active
  <2>8. QED
    BY <1>2, <2>6, <2>7
<1>11. CASE Callback(t)
  <2>1. m_callback[querySet[t].query] \in Query \cup {NoQuery} /\ querySet[t].query \in Query
    BY <1>0, <1>1, <1>11 DEF Callback, InHand
  <2>2. called' \in [Query -> Nat]
    BY <1>0, <1>11, <2>1 DEF Callback
  <2>3. finished' \subseteq Query /\ querySet' \in [Thread -> QuerySet \cup {Nothing}]
    BY <1>0, <1>11, <2>1 DEF Callback
  <2>4. TypeOK'
    BY <1>0, <1>11, <2>2, <2>3 DEF Callback, TypeOK
  <2>5. /\ Active(t) /\ Active(t)' /\ pc'[t] # "leaving" /\ \A u \in Thread \ {t} : pc'[u] = pc[u]
        /\ UNCHANGED <<control, m_threads, terminateBool>>
    BY <1>0, <1>11 DEF Callback, Active
  <2>6. QED
    BY <1>2, <2>4, <2>5
<1>12. CASE Leave(t)
  <2>1. /\ pc[t] = "leaving" /\ pc' = [pc EXCEPT ![t] = "none"] /\ m_threads' = m_threads - 1
        /\ control' = control /\ terminateBool' = terminateBool
    BY <1>12 DEF Leave
  <2>2. control \in {"notifying", "joining"}
    BY <2>1, SetTypes DEF ControlOK
  <2>3. /\ m_threads = Cardinality({u \in Thread : Active(u)}) /\ Active(t)
        /\ \A u \in Thread : pc[u] # "entering"
    BY <2>1, <2>2 DEF ControlOK, Active
  <2>4. {u \in Thread : Active(u)}' = {u \in Thread : Active(u)} \ {t}
    BY <1>0, <2>1 DEF Active
  <2>5. m_threads' = Cardinality({u \in Thread : Active(u)} \ {t})
    BY <2>1, <2>3, ActiveFinite, FS_RemoveElement
  <2>6. m_threads # 0
    BY <2>3, ActiveFinite
  <2>7. m_threads' \in 0..maxThreads
    BY <1>0, <2>1, <2>6
  <2>8. /\ pc' \in [Thread -> {"none", "entering", "check", "look", "asleep", "execute",
                               "end", "drop", "callback", "leaving"}]
        /\ \A u \in Thread : pc'[u] # "entering"
    BY <1>0, <2>1, <2>3
  <2>9. TypeOK'
    BY <1>12, <2>7, <2>8 DEF Leave, TypeOK
  <2>10. ControlOK'
    BY <2>1, <2>2, <2>4, <2>5, <2>8 DEF ControlOK
  <2>11. QED
    BY <2>9, <2>10
<1>13. QED
  BY <1>3, <1>4, <1>5, <1>6, <1>7, <1>8, <1>9, <1>10, <1>11, <1>12 DEF intHandler

-----------------------------------------------------------------------------
(* The steps of others *)

\* What becomes of the queries of a batch is not this step's doing.
Untouched(b) == \A q \in Parts(b) :
    /\ q \in m_error' <=> q \in m_error
    /\ q \in committed' <=> q \in committed
    /\ q \in finished' <=> q \in finished
    /\ q \in dropped' <=> q \in dropped
    /\ called'[q] = called[q] /\ m_callback'[q] = m_callback[q]

\* A batch stays where it was queued.
CallersKept == \A b \in Batch : caller[b] = "done" => caller'[b] = "done" /\ instance'[b] = instance[b]

\* Whose the entries are.
LEMMA ItemOf ==
    ASSUME TypeOK, NEW t \in Thread, LineOK(t), NEW i \in 1..Size(t)
    PROVE  /\ \E b \in Batch : \E k \in 1..Len(b) :
                  /\ caller[b] = "done" /\ instance[b] = t /\ Item(t, i) = Entry(b, k) /\ Item(t, i).query = b[k]
                  /\ Follows(t, i, b, k)
           /\ \A b \in Batch : Item(t, i).query \in Parts(b) =>
                  /\ caller[b] = "done" /\ instance[b] = t
                  /\ \E k \in 1..Len(b) : Item(t, i) = Entry(b, k) /\ Item(t, i).query = b[k] /\ Follows(t, i, b, k)
<1>0. PICK b \in Batch : \E k \in 1..Len(b) : caller[b] = "done" /\ instance[b] = t /\ Follows(t, i, b, k)
  BY DEF LineOK
<1>1. PICK k \in 1..Len(b) : caller[b] = "done" /\ instance[b] = t /\ Follows(t, i, b, k)
  BY <1>0
<1>2. Item(t, i) = Entry(b, k)
  <2>1. i \in Nat /\ k \in Nat /\ Len(b) \in Nat /\ k \in k..Len(b) /\ i + (k - k) = i
    BY <1>1, BatchOf
  <2>2. Item(t, i + (k - k)) = Entry(b, k)
    BY <1>1, <2>1 DEF Follows
  <2>3. QED
    BY <2>1, <2>2
<1>3. Item(t, i).query = b[k] /\ b[k] \in Parts(b)
  BY <1>2, BatchOf DEF Entry
<1>4. QED
  BY <1>1, <1>2, <1>3, HomeOf

\* A step that does nothing to the batches of a thread, nor to its place,
\* leaves the thread as it should be; a query may be cancelled.
LEMMA ThreadKept ==
    ASSUME TypeOK, NEW t \in Thread, ThreadOK(t), \A b \in Batch : OutsideOK(b),
           queries'[t] = queries[t], querySet'[t] = querySet[t], uncommitted'[t] = uncommitted[t],
           pc'[t] = pc[t] \/ (~InHand(t) /\ ~InHand(t)'),
           CallersKept, m_cancel \subseteq m_cancel',
           \A b \in Batch : caller[b] = "done" /\ instance[b] = t => Untouched(b)
    PROVE  ThreadOK(t)'
<1>1. LineOK(t) /\ UnsettledOK(t) /\ OpenOK(t) /\ HandOK(t) /\ SessionOK(t) /\ HeirOK(t)
  BY DEF ThreadOK
<1>2. (InHand(t)' <=> InHand(t)) /\ (InHand(t) => pc'[t] = pc[t])
  BY DEF InHand
<1>3. ASSUME InHand(t)
      PROVE  \E b \in Batch : querySet[t].query \in Parts(b) /\ caller[b] = "done" /\ instance[b] = t
  <2>1. PICK b \in Batch : \E k \in 1..Len(b) :
           caller[b] = "done" /\ instance[b] = t /\ querySet[t] = Entry(b, k)
    BY <1>1, <1>3 DEF HandOK
  <2>2. querySet[t].query \in Parts(b)
    BY <2>1, BatchOf DEF Entry
  <2>3. QED
    BY <2>1, <2>2
<1>4. InHand(t) => (querySet[t].query \in m_error' <=> querySet[t].query \in m_error)
  BY <1>3 DEF Untouched
<1>5. Emptied(t)' <=> Emptied(t)
  BY <1>2, <1>4 DEF Emptied, InHand
<1>6. Lead(t)' = Lead(t) /\ Size(t)' = Size(t)
  BY <1>2, <1>5 DEF Lead, Size
<1>7. ASSUME NEW i PROVE Item(t, i)' = Item(t, i)
  BY <1>6 DEF Item
<1>8. Size(t) \in Nat
  BY <1>1, LineTypes
<1>9. ASSUME NEW i, NEW b, NEW k PROVE Follows(t, i, b, k)' <=> Follows(t, i, b, k)
  BY <1>6, <1>7 DEF Follows, Entry
<1>10. LineOK(t)'
  <2>1. ASSUME NEW i \in 1..Size(t)'
        PROVE  \E b \in Batch : \E k \in 1..Len(b) : caller'[b] = "done" /\ instance'[b] = t /\ Follows(t, i, b, k)'
    <3>1. i \in 1..Size(t)
      BY <1>6
    <3>2. QED
      BY <3>1, <1>1, <1>9 DEF LineOK, CallersKept
  <2>2. /\ \A i \in 1..Size(t)' : i < Size(t)' /\ Item(t, i)'.commit => \E b \in Batch : Item(t, i + 1)' = Entry(b, 1)
        /\ \A i, j \in 1..Size(t)' : i # j => Item(t, i)'.query # Item(t, j)'.query
        /\ Emptied(t)' /\ Size(t)' > 0 => \E b \in Batch : Item(t, 1)' = Entry(b, 1)
    BY <1>1, <1>5, <1>6, <1>7 DEF LineOK
  <2>3. QED
    BY <2>1, <2>2 DEF LineOK, Entry
<1>11. ASSUME NEW i \in 1..Size(t), NEW b \in Batch, Item(t, i).query \in Parts(b) PROVE Untouched(b)
  BY <1>1, <1>11, ItemOf
<1>12. UnsettledOK(t)'
  <2>1. ASSUME NEW i \in 1..Size(t) PROVE \E b \in Batch : Item(t, i).query \in Parts(b)
    BY <1>1, ItemOf, BatchOf
  <2>2. QED
    BY <1>1, <1>6, <1>7, <1>11, <2>1 DEF UnsettledOK, Untouched, OwnCallback
<1>13. OpenOK(t)'
  <2>1. \A i \in 1..Size(t) : Through(t, i)' <=> Through(t, i)
    BY <1>2, <1>6, <1>8 DEF Through, Lead, InHand
  <2>2. (pc'[t] = "drop" <=> pc[t] = "drop")
    BY <1>2 DEF InHand
  <2>3. ASSUME NEW i \in 1..Size(t), NEW b \in Batch, Item(t, i).query \in Parts(b)
        PROVE  /\ Parts(b) \cap dropped' = {}
               /\ ~Through(t, i)' =>
                      /\ Parts(b) \cap committed' = {}
                      /\ Parts(b) \cap m_error' \subseteq (IF pc'[t] = "drop" THEN {querySet'[t].query} ELSE {})
    <3>1. Untouched(b)
      BY <2>3, <1>11
    <3>2. QED
      BY <1>1, <2>1, <2>2, <2>3, <3>1 DEF OpenOK, Untouched
  <2>4. QED
    BY <1>6, <1>7, <2>3 DEF OpenOK, Parts
<1>14. HandOK(t)'
  <2>1. InHand(t)' => \E b \in Batch : \E k \in 1..Len(b) :
           caller'[b] = "done" /\ instance'[b] = t /\ querySet'[t] = Entry(b, k)
    BY <1>1, <1>2 DEF HandOK, CallersKept
  <2>2. pc'[t] = "drop" => pc[t] = "drop" /\ InHand(t)
    BY <1>2 DEF InHand
  <2>3. pc'[t] = "drop" => querySet'[t].query \in m_error'
           /\ \A b \in Batch : querySet'[t].query \in Parts(b) => Parts(b) \cap committed' = {}
    <3>1. ASSUME pc[t] = "drop", InHand(t), NEW b \in Batch, querySet[t].query \in Parts(b)
          PROVE  Parts(b) \cap committed' = {}
      <4>1. Untouched(b)
        BY <1>3, <3>1, HomeOf
      <4>2. QED
        BY <1>1, <3>1, <4>1 DEF HandOK, Untouched
    <3>2. QED
      BY <1>1, <1>4, <2>2, <3>1 DEF HandOK
  <2>4. InHand(t)' => querySet'[t].query \notin finished' /\ querySet'[t].query \notin dropped'
    BY <1>1, <1>2, <1>3 DEF HandOK, Untouched
  <2>5. QED
    BY <2>1, <2>3, <2>4 DEF HandOK, Entry, Parts
<1>15. SessionOK(t)'
  <2>1. Clean(t)' <=> Clean(t)
    BY <1>2, <1>4, <1>6 DEF Clean, InHand
  <2>2. Executed(t)' = Executed(t)
    BY <1>2 DEF Executed, InHand
  <2>3. ASSUME ~Clean(t), NEW b \in Batch, NEW k \in 1..Len(b), Item(t, 1) = Entry(b, k)
        PROVE  LET past == {b[j] : j \in 1..(k - 1 + Executed(t))} IN
               /\ uncommitted'[t] \subseteq past
               /\ Abandoned(t)' \/ uncommitted'[t] \in Rest(b, k - 1 + Executed(t), m_cancel')
    <3>1. Rest(b, k - 1 + Executed(t), m_cancel) \subseteq Rest(b, k - 1 + Executed(t), m_cancel')
      BY RestOf
    <3>2. Abandoned(t) => Abandoned(t)'
      BY <1>2 DEF Abandoned, InHand
    <3>3. /\ uncommitted[t] \subseteq {b[j] : j \in 1..(k - 1 + Executed(t))}
          /\ Abandoned(t) \/ uncommitted[t] \in Rest(b, k - 1 + Executed(t), m_cancel)
      BY <1>1, <2>3 DEF SessionOK
    <3>4. QED
      BY <3>1, <3>2, <3>3
  <2>4. QED
    BY <1>1, <1>7, <2>1, <2>2, <2>3 DEF SessionOK, Entry, Parts
<1>16. HeirOK(t)'
  <2>1. ASSUME Emptied(t)
        PROVE  LET q == querySet'[t].query
                   p == m_callback'[q]
               IN  /\ q \in HasCallback => p = q
                   /\ p # NoQuery => called'[p] = 0
                   /\ p # NoQuery /\ p # q => p \in dropped' /\ \E b \in Batch : p \in Parts(b) /\ instance'[b] = t
                   /\ \A b \in Batch : \A i, j \in DOMAIN b : q = b[i] /\ First(b, i, j) => p = b[j]
    <3> DEFINE q == querySet[t].query
               p == m_callback[q]
    <3>1. InHand(t)
      BY <2>1 DEF Emptied, InHand
    <3>2. m_callback'[q] = p
      BY <1>3, <3>1 DEF Untouched
    <3>3. /\ q \in HasCallback => p = q
          /\ p # NoQuery => called[p] = 0
          /\ p # NoQuery /\ p # q => p \in dropped /\ \E b \in Batch : p \in Parts(b) /\ instance[b] = t
          /\ \A b \in Batch : \A i, j \in DOMAIN b : q = b[i] /\ First(b, i, j) => p = b[j]
      BY <1>1, <2>1 DEF HeirOK
    <3>4. ASSUME p # NoQuery PROVE \E b \in Batch : p \in Parts(b) /\ caller[b] = "done" /\ instance[b] = t
      BY <1>3, <3>1, <3>3, <3>4 DEF OutsideOK
    <3>5. p # NoQuery => called'[p] = 0 /\ (p \in dropped' <=> p \in dropped)
      BY <3>3, <3>4 DEF Untouched
    <3>6. p # NoQuery => \E b \in Batch : p \in Parts(b) /\ instance'[b] = t
      BY <3>4 DEF CallersKept
    <3>7. QED
      BY <3>2, <3>3, <3>5, <3>6
  <2>2. QED
    BY <1>5, <2>1 DEF HeirOK, First, Parts
<1>17. QED
  BY <1>10, <1>12, <1>13, <1>14, <1>15, <1>16 DEF ThreadOK

\* What was not queued yet stays as it is.
LEMMA OutsideKept ==
    ASSUME NEW b \in Batch, OutsideOK(b), caller'[b] # "done" => caller[b] # "done" /\ Untouched(b)
    PROVE  OutsideOK(b)'
<1>1. ASSUME caller'[b] # "done"
      PROVE  /\ Parts(b) \cap (committed' \cup dropped' \cup finished' \cup m_error') = {}
             /\ \A q \in Parts(b) : called'[q] = 0 /\ m_callback'[q] = OwnCallback(q)
  BY <1>1 DEF OutsideOK, Untouched
<1>2. QED
  BY <1>1 DEF OutsideOK, Parts, OwnCallback

\* A step that settles nothing changes nothing of what came of the queries.
LEMMA OutcomesKept ==
    ASSUME RestOrNothing, CalledOK, \A b \in Batch : OutsideOK(b), CallersKept, m_cancel \subseteq m_cancel',
           UNCHANGED <<m_error, committed, finished, dropped, called>>
    PROVE  RestOrNothing' /\ CalledOK'
<1>1. CalledOK'
  BY DEF CalledOK, First
<1>2. ASSUME NEW b \in Batch, Parts(b) \cap (m_error \cup dropped) # {}
      PROVE  instance'[b] = instance[b]
  BY <1>2 DEF OutsideOK, CallersKept
<1>3. ASSUME NEW b \in Batch
      PROVE  /\ Parts(b) \cap (m_error' \cup dropped') # {} => Parts(b) \cap committed' = {}
             /\ Parts(b) \cap committed' \in {{}} \cup Rest(b, Len(b), m_cancel')
  <2>1. Rest(b, Len(b), m_cancel) \subseteq Rest(b, Len(b), m_cancel')
    BY RestOf
  <2>2. QED
    BY <2>1 DEF RestOrNothing
<1>4. ASSUME NEW b \in Batch, NEW i \in DOMAIN b, b[i] \in dropped'
      PROVE  /\ \A j \in i..Len(b) : b[j] \in dropped'
             /\ \E a \in Batch : \E j \in 1..(Len(a) - 1) : a[j] \in m_error' /\ instance'[a] = instance'[b]
  <2>1. /\ \A j \in i..Len(b) : b[j] \in dropped
        /\ \E a \in Batch : \E j \in 1..(Len(a) - 1) : a[j] \in m_error /\ instance[a] = instance[b]
    BY <1>4 DEF RestOrNothing
  <2>2. b[i] \in Parts(b)
    BY <1>4, BatchOf
  <2>3. instance'[b] = instance[b]
    BY <1>2, <1>4, <2>2
  <2>4. PICK a \in Batch : \E j \in 1..(Len(a) - 1) : a[j] \in m_error /\ instance[a] = instance[b]
    BY <2>1
  <2>5. PICK j \in 1..(Len(a) - 1) : a[j] \in m_error /\ instance[a] = instance[b]
    BY <2>4
  <2>6. j \in 1..Len(a)
    BY BatchOf
  <2>7. a[j] \in Parts(a)
    BY <2>6, BatchOf
  <2>8. instance'[a] = instance[a]
    BY <1>2, <2>5, <2>7
  <2>9. QED
    BY <2>1, <2>3, <2>5, <2>8
<1>5. RestOrNothing'
  BY <1>3, <1>4 DEF RestOrNothing, Parts
<1>6. QED
  BY <1>1, <1>5

\* A step of start(), of terminate(), of a caller before it queues, or of a
\* thread that has nothing in hand.
LEMMA QuietKept ==
    ASSUME BInv, UNCHANGED <<queries, querySet, workVars>>, m_cancel \subseteq m_cancel',
           \A t \in Thread : pc'[t] = pc[t] \/ (~InHand(t) /\ ~InHand(t)'),
           \A b \in Batch : caller'[b] = "done" <=> caller[b] = "done",
           \A b \in Batch : caller[b] = "done" => instance'[b] = instance[b]
    PROVE  WorkOK'
<1>0. TypeOK /\ WorkOK /\ UNCHANGED <<uncommitted, m_error, m_callback, committed, finished, dropped, called>>
  BY DEF BInv, workVars
<1>1. CallersKept
  BY DEF CallersKept
<1>2. \A b \in Batch : Untouched(b)
  BY <1>0 DEF Untouched
<1>3. ASSUME NEW t \in Thread PROVE ThreadOK(t)'
  BY <1>0, <1>1, <1>2, ThreadKept DEF WorkOK
<1>4. ASSUME NEW b \in Batch PROVE OutsideOK(b)'
  BY <1>0, <1>2, OutsideKept DEF WorkOK
<1>5. RestOrNothing' /\ CalledOK'
  BY <1>0, <1>1, OutcomesKept DEF WorkOK
<1>6. QED
  BY <1>3, <1>4, <1>5 DEF WorkOK

LEMMA QuietSteps ==
    ASSUME BInv,
           \/ Control \/ Terminate
           \/ \E b \in Batch : Call(b) \/ Compare(b)
           \/ \E q \in Query : Cancel(q)
           \/ \E t \in Thread : Enter(t) \/ Check(t) \/ Sleep(t) \/ SpuriousWakeup(t) \/ Leave(t)
    PROVE  WorkOK'
<1> USE DEF controlVars, callerVars
<1>0. /\ caller \in [Batch -> {"outside", "comparing", "chosen", "done"}] /\ instance \in [Batch -> Thread]
      /\ pc \in [Thread -> {"none", "entering", "check", "look", "asleep", "execute",
                            "end", "drop", "callback", "leaving"}]
      /\ Thread = 1..maxThreads /\ maxThreads \in Nat /\ m_threads \in Nat /\ notified \in Nat
  BY SetTypes, QueryPoolAssumption DEF BInv, Thread
<1>1. CASE Start \/ Started \/ Terminate \/ Terminated
  BY <1>1, QuietKept DEF Start, Started, Terminate, Terminated
<1>2. CASE Spawn
  <2>1. ~InHand(m_threads + 1)
    BY <1>0, <1>2 DEF Spawn, BInv, ControlOK, Active, InHand
  <2>2. \A t \in Thread : pc'[t] = pc[t] \/ (~InHand(t) /\ ~InHand(t)')
    BY <1>0, <1>2, <2>1 DEF Spawn, InHand
  <2>3. QED
    BY <1>2, <2>2, QuietKept DEF Spawn
<1>3. CASE Notify
  <2>1. \A t \in Thread : pc'[t] = pc[t] \/ (~InHand(t) /\ ~InHand(t)')
    BY <1>0, <1>3 DEF Notify, Woken, InHand
  <2>2. QED
    BY <1>3, <2>1, QuietKept DEF Notify
<1>4. ASSUME NEW b \in Batch, Call(b) \/ Compare(b) PROVE WorkOK'
  <2>1. /\ \A c \in Batch : caller'[c] = "done" <=> caller[c] = "done"
        /\ \A c \in Batch : caller[c] = "done" => instance'[c] = instance[c]
    <3>1. CASE Call(b)
      BY <1>0, <3>1 DEF Call
    <3>2. CASE Compare(b)
      BY <1>0, <3>2 DEF Compare
    <3>3. QED
      BY <1>4, <3>1, <3>2
  <2>2. UNCHANGED <<queries, querySet, pc, m_cancel, workVars>>
    BY <1>4 DEF Call, Compare
  <2>3. QED
    BY <2>1, <2>2, QuietKept
<1>5. ASSUME NEW q \in Query, Cancel(q) PROVE WorkOK'
  BY <1>5, QuietKept DEF Cancel
<1>6. ASSUME NEW t \in Thread, Enter(t) \/ Check(t) \/ Sleep(t) \/ SpuriousWakeup(t) \/ Leave(t) PROVE WorkOK'
  <2>1. /\ \E to \in {"check", "look", "asleep", "leaving", "none"} : pc' = [pc EXCEPT ![t] = to]
        /\ pc[t] \in {"entering", "check", "look", "asleep", "leaving"}
        /\ UNCHANGED <<queries, querySet, caller, instance, m_cancel, workVars>>
    BY <1>6 DEF Enter, Check, Sleep, SpuriousWakeup, Leave, Goto
  <2>2. \A u \in Thread : pc'[u] = pc[u] \/ (~InHand(u) /\ ~InHand(u)')
    BY <1>0, <2>1 DEF InHand
  <2>3. QED
    BY <2>1, <2>2, QuietKept
<1>7. QED
  BY <1>1, <1>2, <1>3, <1>4, <1>5, <1>6 DEF Control

-----------------------------------------------------------------------------
(* The line of a thread *)

\* A step at one thread: the others and the batches that are not the thread's
\* are as they were.
LEMMA OthersKept ==
    ASSUME BInv, NEW t \in Thread, CallersKept, UNCHANGED m_cancel,
           \A u \in Thread \ {t} : /\ queries'[u] = queries[u] /\ querySet'[u] = querySet[u]
                                   /\ uncommitted'[u] = uncommitted[u] /\ pc'[u] = pc[u],
           \A b \in Batch : (caller[b] = "done" /\ instance[b] = t) \/ Untouched(b),
           ThreadOK(t)', RestOrNothing', CalledOK'
    PROVE  WorkOK'
<1>0. TypeOK /\ WorkOK
  BY DEF BInv
<1>1. ASSUME NEW u \in Thread \ {t} PROVE ThreadOK(u)'
  <2>1. \A b \in Batch : caller[b] = "done" /\ instance[b] = u => Untouched(b)
    OBVIOUS
  <2>2. QED
    BY <1>0, <2>1, ThreadKept DEF WorkOK
<1>2. ASSUME NEW b \in Batch PROVE OutsideOK(b)'
  <2>1. caller'[b] # "done" => caller[b] # "done" /\ Untouched(b)
    BY DEF CallersKept
  <2>2. QED
    BY <1>0, <2>1, OutsideKept DEF WorkOK
<1>3. \A u \in Thread : ThreadOK(u)'
  BY <1>1
<1>4. QED
  BY <1>2, <1>3 DEF WorkOK

LEMMA LineSame ==
    ASSUME TypeOK, NEW t \in Thread, LineOK(t), CallersKept, Size(t)' = Size(t), Size(t) \in Nat,
           \A i \in 1..Size(t) : Item(t, i)' = Item(t, i), ~Emptied(t)'
    PROVE  LineOK(t)'
<1>1. ASSUME NEW i \in 1..Size(t)
      PROVE  \E b \in Batch : \E k \in 1..Len(b) : caller'[b] = "done" /\ instance'[b] = t /\ Follows(t, i, b, k)'
  <2>1. PICK b \in Batch : \E k \in 1..Len(b) : caller[b] = "done" /\ instance[b] = t /\ Follows(t, i, b, k)
    BY DEF LineOK
  <2>2. PICK k \in 1..Len(b) : caller[b] = "done" /\ instance[b] = t /\ Follows(t, i, b, k)
    BY <2>1
  <2>3. \A j \in k..Len(b) : i + (j - k) \in 1..Size(t)
    BY <2>2, BatchOf DEF Follows
  <2>4. Follows(t, i, b, k)'
    BY <2>2, <2>3 DEF Follows, Entry
  <2>5. QED
    BY <2>2, <2>4 DEF CallersKept
<1>2. \A i \in 1..Size(t) : i < Size(t) => i + 1 \in 1..Size(t)
  OBVIOUS
<1>3. \A i \in 1..Size(t)' : i < Size(t)' /\ Item(t, i)'.commit => \E b \in Batch : Item(t, i + 1)' = Entry(b, 1)
  BY <1>2 DEF LineOK
<1>4. \A i, j \in 1..Size(t)' : i # j => Item(t, i)'.query # Item(t, j)'.query
  BY <1>2 DEF LineOK
<1>5. QED
  BY <1>1, <1>3, <1>4 DEF LineOK, Entry

\* The query in hand is done with: the line moves up.
LEMMA LineShifted ==
    ASSUME TypeOK, NEW t \in Thread, LineOK(t), CallersKept, Size(t) \in Nat \ {0}, Size(t)' = Size(t) - 1,
           \A i \in 1..Size(t)' : Item(t, i)' = Item(t, i + 1), ~Emptied(t)'
    PROVE  LineOK(t)'
<1>1. ASSUME NEW i \in 1..Size(t)'
      PROVE  \E b \in Batch : \E k \in 1..Len(b) : caller'[b] = "done" /\ instance'[b] = t /\ Follows(t, i, b, k)'
  <2>0. i + 1 \in 1..Size(t)
    OBVIOUS
  <2>1. PICK b \in Batch : \E k \in 1..Len(b) : caller[b] = "done" /\ instance[b] = t /\ Follows(t, i + 1, b, k)
    BY <2>0 DEF LineOK
  <2>2. PICK k \in 1..Len(b) : caller[b] = "done" /\ instance[b] = t /\ Follows(t, i + 1, b, k)
    BY <2>1
  <2>3. /\ \A j \in k..Len(b) : i + (j - k) \in 1..Size(t)' /\ (i + (j - k)) + 1 = (i + 1) + (j - k)
        /\ i + (Len(b) - k) <= Size(t)'
    BY <2>2, BatchOf DEF Follows
  <2>4. \A j \in k..Len(b) : Item(t, i + (j - k))' = Entry(b, j)
    BY <2>2, <2>3 DEF Follows
  <2>5. Follows(t, i, b, k)'
    BY <2>3, <2>4 DEF Follows, Entry
  <2>6. QED
    BY <2>2, <2>5 DEF CallersKept
<1>2. \A i \in 1..Size(t)' : i + 1 \in 1..Size(t) /\ (i < Size(t)' => i + 1 < Size(t) /\ i + 1 \in 1..Size(t)')
  OBVIOUS
<1>3. \A i \in 1..Size(t)' : i < Size(t)' /\ Item(t, i)'.commit => \E b \in Batch : Item(t, i + 1)' = Entry(b, 1)
  BY <1>2 DEF LineOK
<1>4. \A i, j \in 1..Size(t)' : i # j => Item(t, i)'.query # Item(t, j)'.query
  BY <1>2 DEF LineOK
<1>5. QED
  BY <1>1, <1>3, <1>4 DEF LineOK, Entry

\* The batch in hand: what is behind its last query is of other batches.
LEMMA AfterHand ==
    ASSUME TypeOK, NEW t \in Thread, LineOK(t), HandOK(t), Lead(t) = 1
    PROVE  /\ Size(t) \in Nat /\ Size(t) >= 1 /\ Item(t, 1) = querySet[t]
           /\ \E b \in Batch : \E k \in 1..Len(b) :
                  /\ caller[b] = "done" /\ instance[b] = t
                  /\ querySet[t] = Entry(b, k) /\ querySet[t].query = b[k] /\ b[k] \in Parts(b)
                  /\ querySet[t].commit <=> k = Len(b)
                  /\ Follows(t, 1, b, k)
                  /\ k = Len(b) => \A i \in 2..Size(t) : Item(t, i).query \notin Parts(b)
                  /\ k < Len(b) => Size(t) >= 2 /\ Item(t, 2) = Entry(b, k + 1)
           /\ \A i \in 2..Size(t) : Item(t, i).query # querySet[t].query
<1>1. Size(t) \in Nat /\ Size(t) >= 1 /\ Item(t, 1) = querySet[t]
  BY LineTypes DEF Size, Item
<1>2. PICK b \in Batch : \E k \in 1..Len(b) :
         caller[b] = "done" /\ instance[b] = t /\ Item(t, 1) = Entry(b, k) /\ Item(t, 1).query = b[k] /\ Follows(t, 1, b, k)
  BY <1>1, ItemOf
<1>3. PICK k \in 1..Len(b) :
         caller[b] = "done" /\ instance[b] = t /\ Item(t, 1) = Entry(b, k) /\ Item(t, 1).query = b[k] /\ Follows(t, 1, b, k)
  BY <1>2
<1>4. Len(b) \in Nat /\ b[k] \in Parts(b)
  BY BatchOf
<1>5. ASSUME k = Len(b), NEW i \in 2..Size(t), Item(t, i).query \in Parts(b) PROVE FALSE
  <2>1. i \in 1..Size(t)
    BY <1>1
  <2>2. PICK m \in 1..Len(b) : Item(t, i) = Entry(b, m) /\ Follows(t, i, b, m)
    BY <1>5, <2>1, ItemOf
  <2>3. i + (Len(b) - m) \in 1..Size(t) /\ i + (Len(b) - m) # 1 /\ Len(b) \in m..Len(b)
    BY <1>1, <1>4, <2>2 DEF Follows
  <2>4. Item(t, i + (Len(b) - m)) = Entry(b, k)
    BY <1>5, <2>2, <2>3 DEF Follows
  <2>5. Item(t, i + (Len(b) - m)).query # Item(t, 1).query
    BY <1>1, <2>3 DEF LineOK
  <2>6. QED
    BY <1>3, <2>4, <2>5
<1>6. ASSUME k < Len(b) PROVE Size(t) >= 2 /\ Item(t, 2) = Entry(b, k + 1)
  <2>1. k + 1 \in k..Len(b) /\ 1 + ((k + 1) - k) = 2
    BY <1>4, <1>6
  <2>2. Item(t, 1 + ((k + 1) - k)) = Entry(b, k + 1)
    BY <1>3, <2>1 DEF Follows
  <2>3. Size(t) >= 2
    BY <1>1, <1>3, <1>4, <1>6 DEF Follows
  <2>4. QED
    BY <2>1, <2>2, <2>3
<1>7. \A i \in 2..Size(t) : Item(t, i).query # querySet[t].query
  BY <1>1 DEF LineOK
<1>8. querySet[t].commit <=> k = Len(b)
  <2>1. Entry(b, k).commit <=> k = Len(b)
    BY Zenon DEF Entry
  <2>2. querySet[t] = Entry(b, k)
    BY <1>1, <1>3
  <2>3. QED
    BY <2>1, <2>2
<1>9. QED
  BY <1>1, <1>3, <1>4, <1>5, <1>6, <1>7, <1>8

-----------------------------------------------------------------------------
(* The steps of a thread on its line *)

LEMMA TailOf ==
    ASSUME NEW S, NEW s \in Seq(S), s # <<>>
    PROVE  /\ Len(s) \in Nat /\ 1 \in 1..Len(s) /\ Head(s) = s[1]
           /\ Tail(s) \in Seq(S) /\ Len(Tail(s)) = Len(s) - 1
           /\ \A i \in 1..Len(Tail(s)) : i + 1 \in 1..Len(s) /\ Tail(s)[i] = s[i + 1]
<1>1. Len(s) \in Nat \ {0}
  BY EmptySeq
<1>2. QED
  BY <1>1, HeadTailProperties

LEMMA TakeKept ==
    ASSUME BInv, NEW t \in Thread, Take(t)
    PROVE  WorkOK'
<1> USE DEF controlVars, callerVars, workVars, Goto
<1>0. TypeOK /\ WorkOK /\ ThreadOK(t)
  BY DEF BInv, WorkOK
<1>1. LineOK(t) /\ UnsettledOK(t) /\ OpenOK(t) /\ HandOK(t) /\ SessionOK(t) /\ HeirOK(t)
  BY <1>0 DEF ThreadOK
<1>2. /\ queries \in [Thread -> Seq(QuerySet)] /\ DOMAIN querySet = Thread /\ DOMAIN pc = Thread
      /\ queries[t] \in Seq(QuerySet) /\ queries[t] # <<>>
  BY <1>0, SetTypes DEF Take
<1>3. /\ pc[t] = "look" /\ pc' = [pc EXCEPT ![t] = "execute"]
      /\ querySet' = [querySet EXCEPT ![t] = Head(queries[t])] /\ queries' = [queries EXCEPT ![t] = Tail(queries[t])]
      /\ UNCHANGED <<caller, instance, m_cancel, uncommitted, m_error, m_callback, committed, finished, dropped, called>>
  BY DEF Take
<1>4. pc'[t] = "execute" /\ querySet'[t] = queries[t][1] /\ queries'[t] = Tail(queries[t])
  BY <1>2, <1>3, TailOf
<1>5. /\ Lead(t) = 0 /\ Lead(t)' = 1 /\ InHand(t)' /\ ~Emptied(t)' /\ ~Emptied(t) /\ ~Clean(t)' /\ Executed(t)' = 0 /\ Executed(t) = 0
  <2>1. ~InHand(t) /\ ~Emptied(t) /\ InHand(t)' /\ ~Emptied(t)'
    BY <1>3, <1>4 DEF InHand, Emptied
  <2>2. Lead(t) = 0 /\ Lead(t)' = 1
    BY <2>1 DEF Lead
  <2>3. Size(t)' # 0
    <3>1. Len(queries'[t]) \in Nat
      BY <1>2, <1>4, TailOf, LenProperties
    <3>2. QED
      BY <2>2, <3>1 DEF Size
  <2>4. ~Clean(t)' /\ Executed(t)' = 0 /\ Executed(t) = 0
    BY <1>3, <1>4, <2>3 DEF Clean, Executed
  <2>5. QED
    BY <2>1, <2>2, <2>4
<1>6. Size(t) \in Nat \ {0} /\ Size(t)' = Size(t)
  <2>1. Len(queries[t]) \in Nat \ {0} /\ Len(Tail(queries[t])) = Len(queries[t]) - 1
    BY <1>2, TailOf
  <2>2. QED
    BY <1>4, <1>5, <2>1 DEF Size
<1>7. ASSUME NEW i \in 1..Size(t) PROVE Item(t, i)' = Item(t, i)
  <2>0. Size(t) = Len(queries[t]) /\ Len(queries[t]) \in Nat /\ i \in Nat /\ i - 0 = i
    BY <1>2, <1>5, <1>6, TailOf DEF Size
  <2>1. Item(t, i) = queries[t][i]
    BY <1>5, <2>0 DEF Item
  <2>2. CASE i = 1
    BY <1>4, <1>5, <2>1, <2>2 DEF Item
  <2>3. CASE i # 1
    <3>1. i - 1 \in 1..Len(Tail(queries[t])) /\ (i - 1) + 1 = i
      BY <1>2, <2>0, <2>3, TailOf
    <3>2. queries'[t][i - 1] = queries[t][i]
      BY <1>2, <1>4, <3>1, TailOf
    <3>3. QED
      BY <1>5, <2>0, <2>1, <2>3, <3>2 DEF Item
  <2>4. QED
    BY <2>2, <2>3
<1>8. CallersKept
  BY <1>3 DEF CallersKept
<1>9. LineOK(t)'
  BY <1>0, <1>1, <1>5, <1>6, <1>7, <1>8, LineSame
<1>10. UnsettledOK(t)'
  BY <1>1, <1>3, <1>6, <1>7 DEF UnsettledOK, OwnCallback
<1>11. OpenOK(t)'
  <2>1. \A i \in 1..Size(t) : ~Through(t, i) /\ ~Through(t, i)'
    BY <1>3, <1>4 DEF Through
  <2>2. QED
    BY <1>1, <1>3, <1>4, <1>6, <1>7, <2>1 DEF OpenOK, Parts
<1>12. HandOK(t)'
  <2>0. 1 \in 1..Size(t) /\ Item(t, 1) = querySet'[t]
    <3>1. 1 \in 1..Size(t)
      BY <1>6
    <3>2. QED
      BY <1>5, <1>7, <3>1 DEF Item
  <2>1. \E b \in Batch : \E k \in 1..Len(b) : caller'[b] = "done" /\ instance'[b] = t /\ querySet'[t] = Entry(b, k)
    BY <1>0, <1>1, <1>3, <2>0, ItemOf
  <2>2. querySet'[t].query \notin finished' /\ querySet'[t].query \notin dropped'
    BY <1>1, <1>3, <2>0 DEF UnsettledOK
  <2>3. QED
    BY <1>4, <2>1, <2>2 DEF HandOK, Entry
<1>13. SessionOK(t)'
  <2>0. ~Clean(t) /\ 1 \in 1..Size(t)
    BY <1>3, <1>6 DEF Clean
  <2>1. Executed(t) = 0 /\ Executed(t)' = 0 /\ ~Abandoned(t)
    BY <1>3, <1>4 DEF Executed, Abandoned
  <2>2. ASSUME NEW b \in Batch, NEW k \in 1..Len(b), Item(t, 1) = Entry(b, k)
        PROVE  /\ uncommitted[t] \subseteq {b[j] : j \in 1..(k - 1 + 0)}
               /\ uncommitted[t] \in Rest(b, k - 1 + 0, m_cancel)
    BY <1>1, <2>0, <2>1, <2>2 DEF SessionOK
  <2>3. ~Clean(t)' /\ Item(t, 1)' = Item(t, 1)
    BY <1>3, <1>4, <1>6, <1>7, <2>0 DEF Clean
  <2>4. QED
    BY <1>3, <2>1, <2>2, <2>3 DEF SessionOK, Entry
<1>14. HeirOK(t)'
  BY <1>5 DEF HeirOK
<1>15. ThreadOK(t)'
  BY <1>9, <1>10, <1>11, <1>12, <1>13, <1>14 DEF ThreadOK
<1>16. RestOrNothing' /\ CalledOK'
  BY <1>0, <1>3, <1>8, OutcomesKept DEF WorkOK
<1>17. \A b \in Batch : Untouched(b)
  BY <1>3 DEF Untouched
<1>18. \A u \in Thread \ {t} : /\ queries'[u] = queries[u] /\ querySet'[u] = querySet[u]
                               /\ uncommitted'[u] = uncommitted[u] /\ pc'[u] = pc[u]
  BY <1>2, <1>3
<1>19. QED
  BY <1>3, <1>8, <1>15, <1>16, <1>17, <1>18, OthersKept

\* The query in hand stays in hand.
LEMMA HandStays ==
    ASSUME TypeOK, NEW t \in Thread, LineOK(t), HandOK(t), CallersKept,
           InHand(t), ~Emptied(t), InHand(t)', ~Emptied(t)', queries'[t] = queries[t], querySet'[t] = querySet[t]
    PROVE  /\ Lead(t) = 1 /\ Lead(t)' = 1 /\ Size(t) \in Nat \ {0} /\ Size(t)' = Size(t)
           /\ \A i \in 1..Size(t) : Item(t, i)' = Item(t, i)
           /\ Item(t, 1) = querySet[t] /\ 1 \in 1..Size(t) /\ LineOK(t)'
<1>1. Lead(t) = 1 /\ Lead(t)' = 1
  BY DEF Lead
<1>2. Size(t) \in Nat \ {0} /\ Size(t)' = Size(t) /\ 1 \in 1..Size(t)
  BY <1>1, LineTypes DEF Size
<1>3. ASSUME NEW i \in 1..Size(t) PROVE Item(t, i)' = Item(t, i)
  BY <1>1 DEF Item
<1>4. LineOK(t)'
  BY <1>2, <1>3, LineSame
<1>5. QED
  BY <1>1, <1>2, <1>3, <1>4 DEF Item

LEMMA ExecuteKept ==
    ASSUME BInv, NEW t \in Thread, Execute(t)
    PROVE  WorkOK'
<1> USE DEF controlVars, callerVars, Goto
<1> DEFINE q == querySet[t].query
<1>0. TypeOK /\ WorkOK /\ ThreadOK(t)
  BY DEF BInv, WorkOK
<1>1. LineOK(t) /\ UnsettledOK(t) /\ OpenOK(t) /\ HandOK(t) /\ SessionOK(t) /\ HeirOK(t)
  BY <1>0 DEF ThreadOK
<1>2. DOMAIN pc = Thread /\ DOMAIN uncommitted = Thread
  BY <1>0, SetTypes
<1>3. /\ pc[t] = "execute" /\ pc' = [pc EXCEPT ![t] = "end"]
      /\ UNCHANGED <<caller, instance, queries, querySet, m_cancel, m_error, m_callback, committed, finished, dropped, called>>
  BY DEF Execute
<1>4. /\ pc'[t] = "end" /\ uncommitted'[t] = (IF q \in m_cancel THEN uncommitted[t] ELSE uncommitted[t] \cup {q})
      /\ \A u \in Thread \ {t} : uncommitted'[u] = uncommitted[u] /\ pc'[u] = pc[u]
  BY <1>2, <1>3 DEF Execute
<1>5. CallersKept
  BY <1>3 DEF CallersKept
<1>6. InHand(t) /\ ~Emptied(t) /\ InHand(t)' /\ ~Emptied(t)'
  BY <1>3, <1>4 DEF InHand, Emptied
<1>7. /\ Lead(t) = 1 /\ Lead(t)' = 1 /\ Size(t) \in Nat \ {0} /\ Size(t)' = Size(t)
      /\ \A i \in 1..Size(t) : Item(t, i)' = Item(t, i)
      /\ Item(t, 1) = querySet[t] /\ 1 \in 1..Size(t) /\ LineOK(t)'
  BY <1>0, <1>1, <1>3, <1>5, <1>6, HandStays
<1>8. UnsettledOK(t)'
  BY <1>1, <1>3, <1>7 DEF UnsettledOK, OwnCallback
<1>9. OpenOK(t)'
  <2>1. \A i \in 1..Size(t) : ~Through(t, i) /\ ~Through(t, i)'
    BY <1>3, <1>4 DEF Through
  <2>2. QED
    BY <1>1, <1>3, <1>4, <1>7, <2>1 DEF OpenOK, Parts
<1>10. HandOK(t)'
  <2>1. \E b \in Batch : \E k \in 1..Len(b) : caller'[b] = "done" /\ instance'[b] = t /\ querySet'[t] = Entry(b, k)
    BY <1>1, <1>3, <1>6 DEF HandOK
  <2>2. q \notin finished' /\ q \notin dropped'
    BY <1>1, <1>3, <1>6 DEF HandOK
  <2>3. QED
    BY <1>3, <1>4, <2>1, <2>2 DEF HandOK, Entry
<1>11. SessionOK(t)'
  <2>1. ~Clean(t) /\ ~Clean(t)' /\ Executed(t) = 0 /\ Executed(t)' = 1
    BY <1>3, <1>4, <1>7 DEF Clean, Executed
  <2>2. ASSUME NEW b \in Batch, NEW k \in 1..Len(b), Item(t, 1) = Entry(b, k)
        PROVE  LET past == {b[j] : j \in 1..(k - 1 + 1)} IN
               /\ uncommitted'[t] \subseteq past
               /\ Abandoned(t)' \/ uncommitted'[t] \in Rest(b, k - 1 + 1, m_cancel)
    <3>1. /\ uncommitted[t] \subseteq {b[j] : j \in 1..(k - 1 + 0)}
          /\ uncommitted[t] \in Rest(b, k - 1 + 0, m_cancel)
      BY <1>1, <1>3, <2>1, <2>2 DEF SessionOK, Abandoned
    <3>2. q = b[k] /\ b[k] \in Parts(b)
      BY <1>7, <2>2, BatchOf DEF Entry
    <3>3. {b[j] : j \in 1..(k - 1 + 1)} = {b[j] : j \in 1..(k - 1 + 0)} \cup {b[k]}
      <4>1. k \in Nat /\ k >= 1
        OBVIOUS
      <4>2. 1..(k - 1 + 1) = (1..(k - 1 + 0)) \cup {k}
        BY <4>1
      <4>3. QED
        BY <4>2
    <3>4. uncommitted[t] \cup {b[k]} \in Rest(b, k - 1 + 1, m_cancel)
      <4>1. k - 1 + 0 = k - 1 /\ k - 1 + 1 = k
        BY BatchOf
      <4>2. QED
        BY <3>1, <4>1, RestOf
    <3>5. q \in m_cancel => Abandoned(t)'
      BY <1>3, <1>4 DEF Abandoned
    <3>6. QED
      BY <1>4, <3>1, <3>2, <3>3, <3>4, <3>5
  <2>3. QED
    BY <1>3, <1>7, <2>1, <2>2 DEF SessionOK, Entry, Parts
<1>12. HeirOK(t)'
  BY <1>6 DEF HeirOK
<1>13. ThreadOK(t)'
  BY <1>7, <1>8, <1>9, <1>10, <1>11, <1>12 DEF ThreadOK
<1>14. RestOrNothing' /\ CalledOK'
  BY <1>0, <1>3, <1>5, OutcomesKept DEF WorkOK
<1>15. \A b \in Batch : Untouched(b)
  BY <1>3 DEF Untouched
<1>16. QED
  BY <1>3, <1>4, <1>5, <1>13, <1>14, <1>15, OthersKept

LEMMA FailKept ==
    ASSUME BInv, NEW t \in Thread, Fail(t)
    PROVE  WorkOK'
<1> USE DEF controlVars, callerVars, Goto
<1> DEFINE q == querySet[t].query
<1>0. TypeOK /\ WorkOK /\ ThreadOK(t)
  BY DEF BInv, WorkOK
<1>1. LineOK(t) /\ UnsettledOK(t) /\ OpenOK(t) /\ HandOK(t) /\ SessionOK(t) /\ HeirOK(t)
  BY <1>0 DEF ThreadOK
<1>2. DOMAIN pc = Thread /\ DOMAIN uncommitted = Thread
  BY <1>0, SetTypes
<1>3. /\ pc[t] = "execute" /\ pc' = [pc EXCEPT ![t] = "drop"] /\ uncommitted' = [uncommitted EXCEPT ![t] = {}]
      /\ m_error' = m_error \cup {q}
      /\ UNCHANGED <<caller, instance, queries, querySet, m_cancel, m_callback, committed, finished, dropped, called>>
  BY DEF Fail
<1>4. /\ pc'[t] = "drop" /\ uncommitted'[t] = {}
      /\ \A u \in Thread \ {t} : uncommitted'[u] = uncommitted[u] /\ pc'[u] = pc[u]
  BY <1>2, <1>3
<1>5. CallersKept
  BY <1>3 DEF CallersKept
<1>6. InHand(t) /\ ~Emptied(t) /\ InHand(t)' /\ ~Emptied(t)'
  BY <1>3, <1>4 DEF InHand, Emptied
<1>7. /\ Lead(t) = 1 /\ Lead(t)' = 1 /\ Size(t) \in Nat \ {0} /\ Size(t)' = Size(t)
      /\ \A i \in 1..Size(t) : Item(t, i)' = Item(t, i)
      /\ Item(t, 1) = querySet[t] /\ 1 \in 1..Size(t) /\ LineOK(t)'
  BY <1>0, <1>1, <1>3, <1>5, <1>6, HandStays
<1>8. PICK b0 \in Batch : caller[b0] = "done" /\ instance[b0] = t /\ q \in Parts(b0)
  BY <1>0, <1>1, <1>7, AfterHand
<1>9. Parts(b0) \cap committed = {}
  <2>1. ~Through(t, 1)
    BY <1>3 DEF Through
  <2>2. QED
    BY <1>1, <1>7, <1>8, <2>1 DEF OpenOK
<1>10. UnsettledOK(t)'
  BY <1>1, <1>3, <1>7 DEF UnsettledOK, OwnCallback
<1>11. OpenOK(t)'
  <2>1. \A i \in 1..Size(t) : ~Through(t, i)
    BY <1>3 DEF Through
  <2>2. ASSUME NEW i \in 1..Size(t), NEW b \in Batch, Item(t, i).query \in Parts(b)
        PROVE  Parts(b) \cap dropped = {} /\ Parts(b) \cap committed = {} /\ Parts(b) \cap m_error' \subseteq {q}
    BY <1>1, <1>3, <2>1, <2>2 DEF OpenOK
  <2>3. QED
    BY <1>3, <1>4, <1>7, <2>2 DEF OpenOK, Parts
<1>12. HandOK(t)'
  <2>1. \E b \in Batch : \E k \in 1..Len(b) : caller'[b] = "done" /\ instance'[b] = t /\ querySet'[t] = Entry(b, k)
    BY <1>1, <1>3, <1>6 DEF HandOK
  <2>2. q \notin finished' /\ q \notin dropped' /\ q \in m_error'
    BY <1>1, <1>3, <1>6 DEF HandOK
  <2>3. \A b \in Batch : q \in Parts(b) => Parts(b) \cap committed' = {}
    BY <1>3, <1>8, <1>9, HomeOf
  <2>4. QED
    BY <1>3, <1>4, <2>1, <2>2, <2>3 DEF HandOK, Entry, Parts
<1>13. SessionOK(t)'
  BY <1>4 DEF SessionOK, Clean
<1>14. HeirOK(t)'
  BY <1>6 DEF HeirOK
<1>15. ThreadOK(t)'
  BY <1>7, <1>10, <1>11, <1>12, <1>13, <1>14 DEF ThreadOK
<1>16. RestOrNothing'
  <2>1. ASSUME NEW b \in Batch, Parts(b) \cap (m_error' \cup dropped') # {} PROVE Parts(b) \cap committed' = {}
    <3>1. CASE q \in Parts(b)
      BY <1>3, <1>8, <1>9, <3>1, HomeOf
    <3>2. CASE q \notin Parts(b)
      <4>1. Parts(b) \cap (m_error \cup dropped) # {}
        BY <1>3, <2>1, <3>2
      <4>2. QED
        BY <1>0, <1>3, <4>1 DEF WorkOK, RestOrNothing
    <3>3. QED
      BY <3>1, <3>2
  <2>2. QED
    BY <1>0, <1>3, <2>1 DEF WorkOK, RestOrNothing, Parts, Rest
<1>17. CalledOK'
  <2>1. q \notin finished
    BY <1>1, <1>6 DEF HandOK
  <2>2. QED
    BY <1>0, <1>3, <2>1 DEF WorkOK, CalledOK, First
<1>18. \A b \in Batch : (caller[b] = "done" /\ instance[b] = t) \/ Untouched(b)
  <2>1. ASSUME NEW b \in Batch, b # b0 PROVE Untouched(b)
    <3>1. q \notin Parts(b)
      BY <1>8, <2>1, HomeOf
    <3>2. QED
      BY <1>3, <3>1 DEF Untouched
  <2>2. QED
    BY <1>8, <2>1
<1>19. \A u \in Thread \ {t} : /\ queries'[u] = queries[u] /\ querySet'[u] = querySet[u]
                               /\ uncommitted'[u] = uncommitted[u] /\ pc'[u] = pc[u]
  BY <1>3, <1>4
<1>20. QED
  BY <1>3, <1>5, <1>15, <1>16, <1>17, <1>18, <1>19, OthersKept

LEMMA EndKept ==
    ASSUME BInv, NEW t \in Thread, End(t)
    PROVE  WorkOK'
<1> USE DEF controlVars, callerVars, Goto
<1> DEFINE q == querySet[t].query
           kept == IF q \in m_cancel THEN {} ELSE uncommitted[t]
<1>0. TypeOK /\ WorkOK /\ ThreadOK(t)
  BY DEF BInv, WorkOK
<1>1. LineOK(t) /\ UnsettledOK(t) /\ OpenOK(t) /\ HandOK(t) /\ SessionOK(t) /\ HeirOK(t)
  BY <1>0 DEF ThreadOK
<1>2. DOMAIN pc = Thread /\ DOMAIN uncommitted = Thread
  BY <1>0, SetTypes
<1>3. /\ pc[t] = "end" /\ pc' = [pc EXCEPT ![t] = "callback"]
      /\ uncommitted' = [uncommitted EXCEPT ![t] = IF querySet[t].commit THEN {} ELSE kept]
      /\ committed' = (IF querySet[t].commit THEN committed \cup kept ELSE committed)
      /\ UNCHANGED <<caller, instance, queries, querySet, m_cancel, m_error, m_callback, finished, dropped, called>>
  BY DEF End
<1>4. /\ pc'[t] = "callback" /\ uncommitted'[t] = (IF querySet[t].commit THEN {} ELSE kept)
      /\ \A u \in Thread \ {t} : uncommitted'[u] = uncommitted[u] /\ pc'[u] = pc[u]
  BY <1>2, <1>3
<1>5. CallersKept
  BY <1>3 DEF CallersKept
<1>6. Lead(t) = 1
  BY <1>3 DEF InHand, Emptied, Lead
<1>7. /\ Size(t) \in Nat /\ Size(t) >= 1 /\ 1 \in 1..Size(t) /\ Item(t, 1) = querySet[t]
      /\ \A i \in 2..Size(t) : Item(t, i).query # q
  BY <1>0, <1>1, <1>6, AfterHand
<1>8. PICK b0 \in Batch : \E k \in 1..Len(b0) :
         /\ caller[b0] = "done" /\ instance[b0] = t
         /\ querySet[t] = Entry(b0, k) /\ q = b0[k] /\ b0[k] \in Parts(b0)
         /\ querySet[t].commit <=> k = Len(b0)
         /\ k = Len(b0) => \A i \in 2..Size(t) : Item(t, i).query \notin Parts(b0)
  BY <1>0, <1>1, <1>6, AfterHand
<1>9. PICK k0 \in 1..Len(b0) :
         /\ caller[b0] = "done" /\ instance[b0] = t
         /\ querySet[t] = Entry(b0, k0) /\ q = b0[k0] /\ b0[k0] \in Parts(b0)
         /\ querySet[t].commit <=> k0 = Len(b0)
         /\ k0 = Len(b0) => \A i \in 2..Size(t) : Item(t, i).query \notin Parts(b0)
  BY <1>8
<1>10. \A i \in 1..Size(t) : ~Through(t, i)
  BY <1>3 DEF Through
<1>11. Parts(b0) \cap committed = {} /\ Parts(b0) \cap dropped = {} /\ Parts(b0) \cap m_error = {}
  BY <1>1, <1>3, <1>7, <1>9, <1>10 DEF OpenOK
<1>12. InHand(t) /\ ~Emptied(t) /\ InHand(t)' /\ ~Emptied(t)'
  BY <1>3, <1>4, <1>9, <1>11 DEF InHand, Emptied
<1>13. /\ Lead(t)' = 1 /\ Size(t)' = Size(t) /\ LineOK(t)'
       /\ \A i \in 1..Size(t) : Item(t, i)' = Item(t, i)
  BY <1>0, <1>1, <1>3, <1>5, <1>12, HandStays
<1>14. /\ uncommitted[t] \subseteq {b0[j] : j \in 1..k0}
       /\ q \in m_cancel \/ uncommitted[t] \in Rest(b0, k0, m_cancel)
  <2>1. ~Clean(t) /\ Executed(t) = 1 /\ k0 - 1 + 1 = k0
    BY <1>3, <1>7 DEF Clean, Executed
  <2>2. Item(t, 1) = Entry(b0, k0)
    BY <1>7, <1>9
  <2>3. QED
    BY <1>1, <2>1, <2>2 DEF SessionOK, Abandoned
<1>15. /\ kept \subseteq Parts(b0) /\ kept \subseteq {b0[j] : j \in 1..k0}
       /\ kept \in Rest(b0, k0, m_cancel)
  <2>1. kept \subseteq {b0[j] : j \in 1..k0}
    BY <1>14
  <2>2. kept \subseteq Parts(b0)
    BY <2>1, BatchOf
  <2>3. q \in m_cancel => {} \in Rest(b0, k0, m_cancel)
    BY <1>9, RestOf
  <2>4. QED
    BY <1>14, <2>1, <2>2, <2>3
<1>16. committed \subseteq committed' /\ committed' \subseteq committed \cup Parts(b0)
  BY <1>3, <1>15
<1> HIDE DEF kept
<1>17. UnsettledOK(t)'
  BY <1>1, <1>3, <1>7, <1>13 DEF UnsettledOK, OwnCallback
<1>18. OpenOK(t)'
  <2>1. Through(t, 1)' /\ \A i \in 2..Size(t) : ~Through(t, i)'
    BY <1>4, <1>7, <1>13 DEF Through
  <2>2. ASSUME NEW i \in 1..Size(t), NEW b \in Batch, Item(t, i).query \in Parts(b)
        PROVE  /\ Parts(b) \cap dropped = {} /\ Parts(b) \cap m_error = {}
               /\ i # 1 => Parts(b) \cap committed' = {}
    <3>1. Parts(b) \cap dropped = {} /\ Parts(b) \cap m_error = {} /\ Parts(b) \cap committed = {}
      BY <1>1, <1>3, <1>10, <2>2 DEF OpenOK
    <3>2. ASSUME i # 1, querySet[t].commit PROVE Parts(b) \cap committed' = {}
      <4>1. i \in 2..Size(t)
        BY <1>7, <3>2
      <4>2. b # b0
        BY <1>9, <2>2, <3>2, <4>1
      <4>3. Parts(b) \cap Parts(b0) = {}
        BY <4>2, HomeOf
      <4>4. QED
        BY <1>16, <3>1, <4>3
    <3>3. ~querySet[t].commit => committed' = committed
      BY <1>3
    <3>4. QED
      BY <3>1, <3>2, <3>3
  <2>3. ASSUME NEW i \in 1..Size(t), i # 1 PROVE ~Through(t, i)'
    BY <1>7, <2>1, <2>3
  <2>4. QED
    BY <1>3, <1>4, <1>13, <2>1, <2>2, <2>3 DEF OpenOK, Parts
<1>19. HandOK(t)'
  <2>1. q \notin finished' /\ q \notin dropped'
    BY <1>1, <1>3, <1>12 DEF HandOK
  <2>2. caller'[b0] = "done" /\ instance'[b0] = t /\ querySet'[t] = Entry(b0, k0)
    BY <1>3, <1>9
  <2>3. QED
    BY <1>3, <1>4, <2>1, <2>2 DEF HandOK, Entry
<1>20. SessionOK(t)'
  <2>1. Clean(t)' <=> querySet[t].commit
    BY <1>3, <1>4, <1>7, <1>9, <1>11, <1>13 DEF Clean
  <2>2. Executed(t)' = 1
    BY <1>4 DEF Executed
  <2>3. querySet[t].commit => uncommitted'[t] = {}
    BY <1>4
  <2>4. ASSUME ~querySet[t].commit, NEW b \in Batch, NEW k \in 1..Len(b), Item(t, 1) = Entry(b, k)
        PROVE  LET past == {b[j] : j \in 1..(k - 1 + 1)} IN
               /\ uncommitted'[t] \subseteq past
               /\ Abandoned(t)' \/ uncommitted'[t] \in Rest(b, k - 1 + 1, m_cancel)
    <3>1. b = b0 /\ k = k0 /\ k - 1 + 1 = k
      BY <1>7, <1>9, <2>4, EntryOf
    <3>2. QED
      BY <1>4, <1>15, <2>4, <3>1
  <2>5. QED
    BY <1>3, <1>7, <1>13, <2>1, <2>2, <2>3, <2>4 DEF SessionOK, Entry, Parts
<1>21. HeirOK(t)'
  BY <1>12 DEF HeirOK
<1>22. ThreadOK(t)'
  BY <1>13, <1>17, <1>18, <1>19, <1>20, <1>21 DEF ThreadOK
<1>23. RestOrNothing'
  <2>1. ASSUME NEW b \in Batch, b # b0 PROVE Parts(b) \cap committed' = Parts(b) \cap committed
    <3>1. Parts(b) \cap Parts(b0) = {}
      BY <2>1, HomeOf
    <3>2. QED
      BY <1>16, <3>1
  <2>2. ASSUME NEW b \in Batch, Parts(b) \cap (m_error' \cup dropped') # {} PROVE Parts(b) \cap committed' = {}
    BY <1>0, <1>3, <1>11, <2>1, <2>2 DEF WorkOK, RestOrNothing
  <2>3. Parts(b0) \cap committed' \in {{}} \cup Rest(b0, Len(b0), m_cancel)
    <3>1. CASE querySet[t].commit
      <4>1. kept \in Rest(b0, Len(b0), m_cancel) /\ kept \subseteq Parts(b0)
        BY <1>9, <1>15, <3>1
      <4>2. QED
        BY <1>3, <1>11, <3>1, <4>1
    <3>2. CASE ~querySet[t].commit
      BY <1>3, <1>11, <3>2
    <3>3. QED
      BY <3>1, <3>2
  <2>4. ASSUME NEW b \in Batch PROVE Parts(b) \cap committed' \in {{}} \cup Rest(b, Len(b), m_cancel')
    BY <1>0, <1>3, <2>1, <2>3 DEF WorkOK, RestOrNothing
  <2>5. \A b \in Batch : \A i \in DOMAIN b : b[i] \in dropped' =>
           /\ \A j \in i..Len(b) : b[j] \in dropped'
           /\ \E a \in Batch : \E j \in 1..(Len(a) - 1) : a[j] \in m_error' /\ instance'[a] = instance'[b]
    BY <1>0, <1>3 DEF WorkOK, RestOrNothing
  <2>6. QED
    BY <2>2, <2>4, <2>5 DEF RestOrNothing, Parts
<1>24. CalledOK'
  BY <1>0, <1>3 DEF WorkOK, CalledOK, First
<1>25. \A b \in Batch : (caller[b] = "done" /\ instance[b] = t) \/ Untouched(b)
  <2>1. ASSUME NEW b \in Batch, b # b0 PROVE Untouched(b)
    <3>1. Parts(b) \cap Parts(b0) = {}
      BY <2>1, HomeOf
    <3>2. QED
      BY <1>3, <1>16, <3>1 DEF Untouched
  <2>2. QED
    BY <1>9, <2>1
<1>26. QED
  BY <1>3, <1>4, <1>5, <1>22, <1>23, <1>24, <1>25, OthersKept

\* The failed query was the last of its transaction: the queue stays.
LEMMA DropLastKept ==
    ASSUME BInv, NEW t \in Thread, Drop(t), querySet[t].commit
    PROVE  WorkOK'
<1> USE DEF controlVars, callerVars, Goto
<1> DEFINE q == querySet[t].query
<1>0. TypeOK /\ WorkOK /\ ThreadOK(t)
  BY DEF BInv, WorkOK
<1>1. LineOK(t) /\ UnsettledOK(t) /\ OpenOK(t) /\ HandOK(t) /\ SessionOK(t) /\ HeirOK(t)
  BY <1>0 DEF ThreadOK
<1>2. DOMAIN pc = Thread
  BY <1>0, SetTypes
<1>3. /\ pc[t] = "drop" /\ pc' = [pc EXCEPT ![t] = "callback"]
      /\ UNCHANGED <<caller, instance, queries, querySet, m_cancel, uncommitted, m_error, m_callback,
                     committed, finished, dropped, called>>
  BY DEF Drop, Drops
<1>4. pc'[t] = "callback" /\ \A u \in Thread \ {t} : pc'[u] = pc[u]
  BY <1>2, <1>3
<1>5. CallersKept
  BY <1>3 DEF CallersKept
<1>6. InHand(t) /\ ~Emptied(t) /\ InHand(t)' /\ ~Emptied(t)' /\ Lead(t) = 1
  BY <1>3, <1>4 DEF InHand, Emptied, Lead
<1>7. /\ Lead(t)' = 1 /\ Size(t) \in Nat \ {0} /\ Size(t)' = Size(t) /\ LineOK(t)'
      /\ \A i \in 1..Size(t) : Item(t, i)' = Item(t, i)
  BY <1>0, <1>1, <1>3, <1>5, <1>6, HandStays
<1>8. PICK b0 \in Batch : \E k \in 1..Len(b0) :
         /\ q = b0[k] /\ b0[k] \in Parts(b0) /\ (querySet[t].commit <=> k = Len(b0))
         /\ k = Len(b0) => \A i \in 2..Size(t) : Item(t, i).query \notin Parts(b0)
  BY <1>0, <1>1, <1>6, AfterHand
<1>9. q \in Parts(b0) /\ \A i \in 2..Size(t) : Item(t, i).query \notin Parts(b0)
  BY <1>8
<1>10. q \in m_error
  BY <1>1, <1>3 DEF HandOK
<1>11. UnsettledOK(t)'
  BY <1>1, <1>3, <1>7 DEF UnsettledOK, OwnCallback
<1>12. OpenOK(t)'
  <2>1. Through(t, 1)' /\ \A i \in 1..Size(t) : i # 1 => ~Through(t, i)
    BY <1>4, <1>6, <1>7 DEF Through
  <2>2. ASSUME NEW i \in 1..Size(t), NEW b \in Batch, Item(t, i).query \in Parts(b)
        PROVE  /\ Parts(b) \cap dropped = {}
               /\ i # 1 => Parts(b) \cap committed = {} /\ Parts(b) \cap m_error = {}
    <3>1. Parts(b) \cap dropped = {} /\ (i # 1 => Parts(b) \cap committed = {} /\ Parts(b) \cap m_error \subseteq {q})
      BY <1>1, <1>3, <2>1, <2>2 DEF OpenOK
    <3>2. i # 1 => q \notin Parts(b)
      <4>1. i # 1 => i \in 2..Size(t)
        BY <1>7
      <4>2. QED
        BY <1>9, <2>2, <4>1, HomeOf
    <3>3. QED
      BY <3>1, <3>2
  <2>3. QED
    BY <1>3, <1>4, <1>7, <2>1, <2>2 DEF OpenOK, Parts
<1>13. HandOK(t)'
  <2>1. \E b \in Batch : \E k \in 1..Len(b) : caller'[b] = "done" /\ instance'[b] = t /\ querySet'[t] = Entry(b, k)
    BY <1>1, <1>3, <1>6 DEF HandOK
  <2>2. q \notin finished' /\ q \notin dropped'
    BY <1>1, <1>3, <1>6 DEF HandOK
  <2>3. QED
    BY <1>3, <1>4, <2>1, <2>2 DEF HandOK, Entry
<1>14. SessionOK(t)'
  <2>1. uncommitted[t] = {}
    BY <1>1, <1>3 DEF SessionOK, Clean
  <2>2. Clean(t)'
    BY <1>3, <1>4, <1>10 DEF Clean
  <2>3. QED
    BY <1>3, <2>1, <2>2 DEF SessionOK
<1>15. HeirOK(t)'
  BY <1>6 DEF HeirOK
<1>16. ThreadOK(t)'
  BY <1>7, <1>11, <1>12, <1>13, <1>14, <1>15 DEF ThreadOK
<1>17. RestOrNothing' /\ CalledOK'
  BY <1>0, <1>3, <1>5, OutcomesKept DEF WorkOK
<1>18. \A b \in Batch : Untouched(b)
  BY <1>3 DEF Untouched
<1>19. QED
  BY <1>3, <1>4, <1>5, <1>16, <1>17, <1>18, OthersKept

\* A query before the last failed: the queue is dropped, and the failed query
\* is left with the first callback of its transaction.
LEMMA DropRestKept ==
    ASSUME BInv, NEW t \in Thread, Drop(t), ~querySet[t].commit
    PROVE  WorkOK'
<1> USE DEF controlVars, callerVars, Goto
<1> DEFINE q == querySet[t].query
           Lost == {queries[t][i].query : i \in DOMAIN queries[t]}
<1>0. TypeOK /\ WorkOK /\ ThreadOK(t)
  BY DEF BInv, WorkOK
<1>1. LineOK(t) /\ UnsettledOK(t) /\ OpenOK(t) /\ HandOK(t) /\ SessionOK(t) /\ HeirOK(t)
  BY <1>0 DEF ThreadOK
<1>2. DOMAIN pc = Thread /\ DOMAIN queries = Thread /\ DOMAIN m_callback = Query
  BY <1>0, SetTypes
<1>3. /\ pc[t] = "drop" /\ pc' = [pc EXCEPT ![t] = "callback"]
      /\ m_callback' = [m_callback EXCEPT ![q] = Heir(t)]
      /\ dropped' = dropped \cup Lost
      /\ queries' = [queries EXCEPT ![t] = <<>>]
      /\ UNCHANGED <<caller, instance, querySet, m_cancel, uncommitted, m_error, committed, finished, called>>
  BY DEF Drop, Drops
<1>4. /\ pc'[t] = "callback" /\ queries'[t] = <<>>
      /\ \A u \in Thread \ {t} : pc'[u] = pc[u] /\ queries'[u] = queries[u]
  BY <1>2, <1>3
<1>5. CallersKept
  BY <1>3 DEF CallersKept
<1>6. InHand(t) /\ ~Emptied(t) /\ Lead(t) = 1
  BY <1>3 DEF InHand, Emptied, Lead
<1>7. q \in m_error /\ q \in Query
  BY <1>0, <1>1, <1>3, <1>6, LineTypes DEF HandOK
<1>8. Emptied(t)' /\ Lead(t)' = 0 /\ Size(t)' = 0
  <2>1. Emptied(t)' /\ Lead(t)' = 0
    BY <1>3, <1>4, <1>7 DEF Emptied, Lead
  <2>2. Len(<<>>) = 0
    OBVIOUS
  <2>3. QED
    BY <1>4, <2>1, <2>2 DEF Size
<1>9. /\ Size(t) \in Nat /\ Size(t) >= 1 /\ Item(t, 1) = querySet[t]
      /\ \A i \in 2..Size(t) : Item(t, i).query # q
  BY <1>0, <1>1, <1>6, AfterHand
<1>10. PICK b0 \in Batch : \E k \in 1..Len(b0) :
         /\ caller[b0] = "done" /\ instance[b0] = t
         /\ q = b0[k] /\ b0[k] \in Parts(b0) /\ (querySet[t].commit <=> k = Len(b0))
         /\ Follows(t, 1, b0, k)
  BY <1>0, <1>1, <1>6, AfterHand
<1>11. PICK k0 \in 1..Len(b0) :
         /\ caller[b0] = "done" /\ instance[b0] = t
         /\ q = b0[k0] /\ b0[k0] \in Parts(b0) /\ (querySet[t].commit <=> k0 = Len(b0))
         /\ Follows(t, 1, b0, k0)
  BY <1>10
\* The queue, as the line behind the query in hand.
<1>12. /\ Len(queries[t]) \in Nat /\ DOMAIN queries[t] = 1..Len(queries[t]) /\ Size(t) = 1 + Len(queries[t])
       /\ \A i \in 1..Len(queries[t]) : i + 1 \in 2..Size(t) /\ queries[t][i] = Item(t, i + 1)
  <2>1. Len(queries[t]) \in Nat /\ DOMAIN queries[t] = 1..Len(queries[t]) /\ Size(t) = 1 + Len(queries[t])
    BY <1>0, <1>1, <1>6, LineTypes DEF Size
  <2>2. ASSUME NEW i \in 1..Len(queries[t]) PROVE i + 1 \in 2..Size(t) /\ queries[t][i] = Item(t, i + 1)
    <3>1. i + 1 \in 2..Size(t) /\ ~(i + 1 <= 1) /\ (i + 1) - 1 = i
      BY <2>1
    <3>2. QED
      BY <1>6, <3>1 DEF Item
  <2>3. QED
    BY <2>1, <2>2
<1>13. ASSUME NEW x \in Lost PROVE \E i \in 2..Size(t) : x = Item(t, i).query
  BY <1>12
<1>14. ASSUME NEW i \in 2..Size(t) PROVE Item(t, i).query \in Lost
  <2>1. i - 1 \in 1..Len(queries[t]) /\ (i - 1) + 1 = i
    BY <1>12
  <2>2. QED
    BY <1>12, <2>1
<1> HIDE DEF Lost
\* What is dropped: of batches of this thread, with nothing committed, and each to its end.
<1>15. ASSUME NEW x \in Lost, NEW b \in Batch, x \in Parts(b)
       PROVE  /\ caller[b] = "done" /\ instance[b] = t /\ Parts(b) \cap committed = {}
              /\ called[x] = 0 /\ m_callback[x] = OwnCallback(x)
              /\ \E k \in 1..Len(b) : x = b[k] /\ \A j \in k..Len(b) : b[j] \in Lost
  <2>1. PICK i \in 2..Size(t) : x = Item(t, i).query
    BY <1>13
  <2>2. i \in 1..Size(t) /\ i # Lead(t)
    BY <1>6, <1>9
  <2>3. caller[b] = "done" /\ instance[b] = t
    BY <1>0, <1>1, <1>15, <2>1, <2>2, ItemOf
  <2>4. PICK k \in 1..Len(b) : Item(t, i) = Entry(b, k) /\ Item(t, i).query = b[k] /\ Follows(t, i, b, k)
    BY <1>0, <1>1, <1>15, <2>1, <2>2, ItemOf
  <2>5. Parts(b) \cap committed = {}
    BY <1>1, <1>15, <2>1, <2>2 DEF OpenOK, Through
  <2>6. called[x] = 0 /\ m_callback[x] = OwnCallback(x)
    BY <1>1, <2>1, <2>2 DEF UnsettledOK
  <2>7. ASSUME NEW j \in k..Len(b) PROVE b[j] \in Lost
    <3>1. i + (j - k) \in 2..Size(t)
      BY <1>9, <2>4, BatchOf DEF Follows
    <3>2. Item(t, i + (j - k)).query = b[j]
      <4>1. Item(t, i + (j - k)) = Entry(b, j)
        BY <2>4 DEF Follows
      <4>2. QED
        BY <4>1 DEF Entry
    <3>3. QED
      BY <1>14, <3>1, <3>2
  <2>8. QED
    BY <2>1, <2>3, <2>4, <2>5, <2>6, <2>7
<1>16. ASSUME NEW x \in Lost PROVE \E b \in Batch : x \in Parts(b)
  <2>1. PICK i \in 2..Size(t) : x = Item(t, i).query
    BY <1>13
  <2>2. i \in 1..Size(t)
    BY <1>9
  <2>3. QED
    BY <1>0, <1>1, <2>1, <2>2, ItemOf, BatchOf
<1>17. q \notin Lost /\ called[q] = 0 /\ m_callback[q] = OwnCallback(q) /\ 1 \in 1..Size(t)
  BY <1>1, <1>9, <1>13 DEF UnsettledOK
<1>18. m_callback'[q] = Heir(t) /\ \A x \in Query : x # q => m_callback'[x] = m_callback[x]
  BY <1>2, <1>3, <1>7
<1>19. LineOK(t)' /\ UnsettledOK(t)' /\ OpenOK(t)'
  BY <1>8 DEF LineOK, UnsettledOK, OpenOK
<1>20. HandOK(t)'
  <2>1. \E b \in Batch : \E k \in 1..Len(b) : caller'[b] = "done" /\ instance'[b] = t /\ querySet'[t] = Entry(b, k)
    BY <1>1, <1>3, <1>6 DEF HandOK
  <2>2. q \notin finished' /\ q \notin dropped'
    BY <1>1, <1>3, <1>6, <1>17 DEF HandOK
  <2>3. QED
    BY <1>3, <1>4, <2>1, <2>2 DEF HandOK, Entry
<1>21. SessionOK(t)'
  <2>1. uncommitted[t] = {}
    BY <1>1, <1>3 DEF SessionOK, Clean
  <2>2. Clean(t)'
    BY <1>8 DEF Clean
  <2>3. QED
    BY <1>3, <2>1, <2>2 DEF SessionOK
<1>22. HeirOK(t)'
  <2> DEFINE p == Heir(t)
  <2>1. Heirs(t) = {i \in 1..Len(queries[t]) : queries[t][i].query \in HasCallback}
    <3>1. ASSUME NEW i \in 1..Len(queries[t])
          PROVE  m_callback[queries[t][i].query] # NoQuery <=> queries[t][i].query \in HasCallback
      <4>1. i + 1 \in 2..Size(t) /\ queries[t][i].query = Item(t, i + 1).query
        BY <1>12
      <4>2. queries[t][i].query \in Lost
        BY <1>14, <4>1
      <4>3. m_callback[queries[t][i].query] = OwnCallback(queries[t][i].query)
        BY <1>15, <1>16, <4>2
      <4>4. QED
        BY <4>3, QueryPoolAssumption DEF OwnCallback
    <3>2. QED
      BY <1>12, <3>1 DEF Heirs
  <2>2. q \in HasCallback => p = q
    <3>1. q \in HasCallback => m_callback[q] = q /\ q # NoQuery
      BY <1>17, QueryPoolAssumption DEF OwnCallback
    <3>2. QED
      BY <1>0, <1>1, <1>6, <3>1, HeirIs
  <2>3. ASSUME q \notin HasCallback, Heirs(t) # {}
        PROVE  \E i \in Heirs(t) : (\A j \in Heirs(t) : i <= j) /\ p = queries[t][i].query /\ p \in Lost
    <3>1. m_callback[q] = NoQuery
      BY <1>17, <2>3 DEF OwnCallback
    <3>2. PICK i \in Heirs(t) : (\A j \in Heirs(t) : i <= j) /\ p = m_callback[queries[t][i].query]
      BY <1>0, <1>1, <1>6, <2>3, <3>1, HeirIs
    <3>3. i + 1 \in 2..Size(t) /\ queries[t][i].query = Item(t, i + 1).query /\ queries[t][i].query \in HasCallback
      BY <1>12, <2>1
    <3>4. queries[t][i].query \in Lost
      BY <1>14, <3>3
    <3>5. m_callback[queries[t][i].query] = queries[t][i].query
      BY <1>15, <1>16, <3>3, <3>4 DEF OwnCallback
    <3>6. QED
      BY <3>2, <3>4, <3>5
  <2>4. q \notin HasCallback /\ Heirs(t) = {} => p = NoQuery
    <3>1. q \notin HasCallback => m_callback[q] = NoQuery
      BY <1>17 DEF OwnCallback
    <3>2. QED
      BY <1>0, <1>1, <1>6, <3>1, HeirIs
  <2>5. p # NoQuery => called[p] = 0 /\ (p # q => p \in Lost)
    <3>1. CASE p = q
      BY <1>17, <3>1
    <3>2. CASE p # q /\ p # NoQuery
      <4>1. p \in Lost
        BY <2>2, <2>3, <2>4, <3>2
      <4>2. QED
        BY <1>15, <1>16, <4>1
    <3>3. QED
      BY <3>1, <3>2
  <2>6. ASSUME NEW b \in Batch, NEW i \in DOMAIN b, NEW j \in DOMAIN b, q = b[i], First(b, i, j) PROVE p = b[j]
    <3>1. i \in 1..Len(b) /\ j \in 1..Len(b) /\ i < j /\ b[j] \in HasCallback /\ \A k \in i..(j - 1) : b[k] \notin HasCallback
      BY <2>6, BatchOf DEF First
    <3>0. Len(b) \in Nat /\ i \in Nat /\ j \in Nat /\ j <= Len(b) /\ i >= 1
      BY <3>1, BatchOf
    <3>2. b = b0 /\ i = k0
      <4>1. b[i] \in Parts(b)
        BY <3>1, BatchOf
      <4>2. b = b0
        BY <1>11, <2>6, <4>1, HomeOf
      <4>3. i \in 1..Len(b0) /\ b0[i] = b0[k0]
        BY <1>11, <2>6, <3>1, <4>2
      <4>4. QED
        BY <4>2, <4>3, BatchOf
    <3>3. q \notin HasCallback
      <4>1. i \in i..(j - 1)
        BY <3>1
      <4>2. QED
        BY <2>6, <3>1, <4>1
    <3>4. ASSUME NEW k \in 1..Len(b), k > i PROVE k - i \in 1..Len(queries[t]) /\ queries[t][k - i].query = b[k]
      <4>1. k \in i..Len(b) /\ 1 + (k - i) = (k - i) + 1 /\ k - i \in Nat /\ k - i >= 1
        BY <3>1, <3>4
      <4>2. Item(t, 1 + (k - i)) = Entry(b, k) /\ 1 + (Len(b) - i) <= Size(t)
        BY <1>11, <3>2, <4>1 DEF Follows
      <4>3. k - i \in 1..Len(queries[t])
        <5>1. Len(queries[t]) \in Nat /\ Len(b) - i <= Len(queries[t])
          BY <1>12, <3>0, <4>2
        <5>2. k - i <= Len(b) - i
          BY <3>0, <3>4, <4>1
        <5>3. QED
          BY <3>0, <4>1, <5>1, <5>2
      <4>4. queries[t][k - i] = Entry(b, k)
        BY <1>12, <4>1, <4>2, <4>3
      <4>5. QED
        BY <4>3, <4>4 DEF Entry
    <3>5. j - i \in Heirs(t)
      BY <2>1, <3>1, <3>4
    <3>6. PICK m \in Heirs(t) : (\A n \in Heirs(t) : m <= n) /\ p = queries[t][m].query
      BY <2>3, <3>3, <3>5
    <3>7. /\ m \in 1..Len(queries[t]) /\ m \in Nat /\ m >= 1
          /\ m <= j - i /\ queries[t][m].query \in HasCallback
      BY <1>12, <2>1, <3>5, <3>6
    <3>8. i + m \in 1..Len(b) /\ i + m > i /\ (i + m) - i = m /\ i + m <= j
      BY <3>0, <3>7
    <3>9. queries[t][m].query = b[i + m]
      BY <3>4, <3>8
    <3>10. i + m = j
      <4>1. ASSUME i + m # j PROVE FALSE
        <5>1. i + m \in i..(j - 1)
          <6>1. i \in Nat /\ j \in Nat /\ m \in Nat /\ m >= 1 /\ m <= j - i /\ i + m # j
            BY <3>0, <3>7, <4>1
          <6>2. QED
            BY <6>1
        <5>2. QED
          BY <3>1, <3>7, <3>9, <5>1
      <4>2. QED
        BY <4>1
    <3>11. QED
      BY <3>6, <3>9, <3>10
  <2>7. p # NoQuery /\ p # q => p \in dropped' /\ \E b \in Batch : p \in Parts(b) /\ instance'[b] = t
    <3>1. ASSUME p \in Lost PROVE \E b \in Batch : p \in Parts(b) /\ instance[b] = t
      BY <1>15, <1>16, <3>1
    <3>2. QED
      BY <1>3, <2>5, <3>1
  <2> HIDE DEF p
  <2>8. m_callback'[q] = p
    BY <1>18 DEF p
  <2>9. QED
    BY <1>3, <2>2, <2>5, <2>6, <2>7, <2>8 DEF HeirOK, First, Parts
<1>23. ThreadOK(t)'
  BY <1>19, <1>20, <1>21, <1>22 DEF ThreadOK
<1>24. RestOrNothing'
  <2>1. ASSUME NEW b \in Batch, Parts(b) \cap (m_error' \cup dropped') # {} PROVE Parts(b) \cap committed' = {}
    <3>1. CASE Parts(b) \cap Lost # {}
      BY <1>3, <1>15, <3>1
    <3>2. CASE Parts(b) \cap Lost = {}
      BY <1>0, <1>3, <2>1, <3>2 DEF WorkOK, RestOrNothing
    <3>3. QED
      BY <3>1, <3>2
  <2>2. \A b \in Batch : Parts(b) \cap committed' \in {{}} \cup Rest(b, Len(b), m_cancel')
    BY <1>0, <1>3 DEF WorkOK, RestOrNothing
  <2>3. ASSUME NEW b \in Batch, NEW i \in DOMAIN b, b[i] \in dropped'
        PROVE  /\ \A j \in i..Len(b) : b[j] \in dropped'
               /\ \E a \in Batch : \E j \in 1..(Len(a) - 1) : a[j] \in m_error' /\ instance'[a] = instance'[b]
    <3>1. CASE b[i] \in Lost
      <4>1. i \in 1..Len(b) /\ b[i] \in Parts(b)
        BY BatchOf
      <4>2. instance[b] = t /\ \E k \in 1..Len(b) : b[i] = b[k] /\ \A j \in k..Len(b) : b[j] \in Lost
        BY <1>15, <3>1, <4>1
      <4>3. \A j \in i..Len(b) : b[j] \in Lost
        BY <4>1, <4>2, BatchOf
      <4>4. k0 \in 1..(Len(b0) - 1)
        BY <1>11, BatchOf
      <4>5. b0[k0] \in m_error' /\ instance'[b0] = instance'[b]
        BY <1>3, <1>7, <1>11, <4>2
      <4>6. QED
        BY <1>3, <4>3, <4>4, <4>5
    <3>2. CASE b[i] \notin Lost
      <4>1. b[i] \in dropped
        BY <1>3, <2>3, <3>2
      <4>2. /\ \A j \in i..Len(b) : b[j] \in dropped
            /\ \E a \in Batch : \E j \in 1..(Len(a) - 1) : a[j] \in m_error /\ instance[a] = instance[b]
        BY <1>0, <4>1 DEF WorkOK, RestOrNothing
      <4>3. QED
        BY <1>3, <4>2
    <3>3. QED
      BY <3>1, <3>2
  <2>4. QED
    BY <2>1, <2>2, <2>3 DEF RestOrNothing, Parts
<1>25. CalledOK'
  BY <1>0, <1>3 DEF WorkOK, CalledOK, First
<1>26. ASSUME NEW b \in Batch, ~(caller[b] = "done" /\ instance[b] = t) PROVE Untouched(b)
  <2>1. q \notin Parts(b) /\ Parts(b) \cap Lost = {}
    BY <1>11, <1>15, <1>26, HomeOf
  <2>2. Parts(b) \subseteq Query
    BY BatchOf
  <2>3. QED
    BY <1>3, <1>18, <2>1, <2>2 DEF Untouched
<1>27. QED
  BY <1>3, <1>4, <1>5, <1>23, <1>24, <1>25, <1>26, OthersKept

\* Whose callback is called: the query's own, or the one it was left with.
LEMMA CallbackIs ==
    ASSUME BInv, NEW t \in Thread, pc[t] = "callback"
    PROVE  LET q == querySet[t].query
               p == m_callback[q]
           IN  /\ q \in Query /\ p \in Query \cup {NoQuery} /\ q \notin finished
               /\ q \in HasCallback => p = q
               /\ p # NoQuery => called[p] = 0
               /\ p # NoQuery /\ p # q => p \in dropped /\ \E b \in Batch : p \in Parts(b) /\ caller[b] = "done" /\ instance[b] = t
               /\ p # NoQuery /\ p # q => Emptied(t)
               /\ q \in m_error => \A b \in Batch : \A i, j \in DOMAIN b : q = b[i] /\ First(b, i, j) => p = b[j]
               /\ \E b \in Batch : q \in Parts(b) /\ caller[b] = "done" /\ instance[b] = t
<1> DEFINE q == querySet[t].query
           p == m_callback[q]
<1>0. TypeOK /\ WorkOK /\ ThreadOK(t)
  BY DEF BInv, WorkOK
<1>1. LineOK(t) /\ UnsettledOK(t) /\ HandOK(t) /\ HeirOK(t) /\ InHand(t)
  BY <1>0 DEF ThreadOK, InHand
<1>2. q \in Query /\ p \in Query \cup {NoQuery} /\ q \notin finished
  <2>1. q \in Query /\ q \notin finished
    BY <1>0, <1>1, LineTypes DEF HandOK
  <2>2. QED
    BY <1>0, <2>1, SetTypes
<1>3. PICK b0 \in Batch : \E k \in 1..Len(b0) : caller[b0] = "done" /\ instance[b0] = t /\ querySet[t] = Entry(b0, k)
  BY <1>1 DEF HandOK
<1>4. PICK k0 \in 1..Len(b0) : caller[b0] = "done" /\ instance[b0] = t /\ querySet[t] = Entry(b0, k0)
  BY <1>3
<1>5. q = b0[k0] /\ q \in Parts(b0)
  BY <1>4, BatchOf DEF Entry
<1>6. CASE Emptied(t)
  <2>1. /\ q \in HasCallback => p = q
        /\ p # NoQuery => called[p] = 0
        /\ p # NoQuery /\ p # q => p \in dropped /\ \E b \in Batch : p \in Parts(b) /\ instance[b] = t
        /\ \A b \in Batch : \A i, j \in DOMAIN b : q = b[i] /\ First(b, i, j) => p = b[j]
    BY <1>1, <1>6 DEF HeirOK
  <2>2. \A b \in Batch : p \in Parts(b) /\ p \in dropped => caller[b] = "done"
    BY <1>0 DEF WorkOK, OutsideOK
  <2>3. p # NoQuery /\ p # q => p \in dropped /\ \E b \in Batch : p \in Parts(b) /\ caller[b] = "done" /\ instance[b] = t
    BY <2>1, <2>2
  <2> HIDE DEF p
  <2>4. QED
    BY <1>2, <1>4, <1>5, <1>6, <2>1, <2>3 DEF p
<1>7. CASE ~Emptied(t)
  <2>1. 1 \in 1..Size(t) /\ Item(t, 1) = querySet[t]
    <3>1. Lead(t) = 1
      BY <1>1, <1>7 DEF Lead
    <3>2. QED
      BY <1>0, <1>1, <3>1, AfterHand
  <2>2. called[q] = 0 /\ p = OwnCallback(q)
    BY <1>1, <2>1 DEF UnsettledOK
  <2>3. (q \in HasCallback => p = q) /\ (p # NoQuery => p = q)
    BY <2>2 DEF OwnCallback
  <2>4. ASSUME q \in m_error, NEW b \in Batch, NEW i \in DOMAIN b, NEW j \in DOMAIN b, q = b[i], First(b, i, j) PROVE FALSE
    <3>1. querySet[t].commit
      BY <1>7, <2>4 DEF Emptied
    <3>2. k0 = Len(b0)
      <4>1. Entry(b0, k0).commit <=> k0 = Len(b0)
        BY Zenon DEF Entry
      <4>2. QED
        BY <1>4, <3>1, <4>1
    <3>3. i \in 1..Len(b) /\ j \in 1..Len(b) /\ b[i] \in Parts(b) /\ Len(b) \in Nat
      BY BatchOf
    <3>4. b = b0
      BY <1>5, <2>4, <3>3, HomeOf
    <3>5. i = k0
      BY <1>5, <2>4, <3>3, <3>4, BatchOf
    <3>6. i < j
      BY <2>4 DEF First
    <3>7. QED
      BY <3>2, <3>3, <3>4, <3>5, <3>6
  <2> HIDE DEF p
  <2>5. QED
    BY <1>2, <1>4, <1>5, <2>2, <2>3, <2>4 DEF p
<1>8. QED
  BY <1>6, <1>7

\* A callback is called, and a query is settled.
LEMMA CallbackOutcomes ==
    ASSUME BInv, NEW t \in Thread, Callback(t)
    PROVE  /\ RestOrNothing' /\ CalledOK' /\ CallersKept
           /\ \A b \in Batch : (caller[b] = "done" /\ instance[b] = t) \/ Untouched(b)
           /\ \A x \in Query : x # querySet[t].query /\ x # m_callback[querySet[t].query] =>
                  called'[x] = called[x] /\ (x \in finished' <=> x \in finished)
<1> USE DEF controlVars, callerVars, Goto
<1> DEFINE q == querySet[t].query
           p == m_callback[q]
<1>0. TypeOK /\ WorkOK /\ pc[t] = "callback"
  BY DEF BInv, Callback
<1>1. /\ called' = (IF p = NoQuery THEN called ELSE [called EXCEPT ![p] = called[p] + 1])
      /\ finished' = finished \cup {q}
      /\ UNCHANGED <<caller, instance, queries, m_cancel, uncommitted, m_error, m_callback, committed, dropped>>
  BY DEF Callback
<1>2. called \in [Query -> Nat] /\ NoQuery \notin Query
  BY <1>0, SetTypes, QueryPoolAssumption
<1>3. /\ q \in Query /\ p \in Query \cup {NoQuery} /\ q \notin finished
      /\ q \in HasCallback => p = q
      /\ p # NoQuery => called[p] = 0
      /\ p # NoQuery /\ p # q => p \in dropped /\ \E b \in Batch : p \in Parts(b) /\ caller[b] = "done" /\ instance[b] = t
      /\ q \in m_error => \A b \in Batch : \A i, j \in DOMAIN b : q = b[i] /\ First(b, i, j) => p = b[j]
      /\ \E b \in Batch : q \in Parts(b) /\ caller[b] = "done" /\ instance[b] = t
  BY <1>0, CallbackIs
<1>4. /\ p # NoQuery => p \in Query /\ called'[p] = 1
      /\ \A x \in Query : x # p => called'[x] = called[x]
  BY <1>1, <1>2, <1>3
<1> HIDE DEF p
<1>5. CallersKept
  BY <1>1 DEF CallersKept
<1>6. RestOrNothing'
  BY SMTT(30), <1>0, <1>1 DEF WorkOK, RestOrNothing, Parts, Rest
<1>7. CalledOK'
  <2>1. ASSUME NEW x \in Query PROVE called'[x] <= 1 /\ (called'[x] = 1 => x \in finished' \cup dropped')
    <3>1. CASE x = p
      BY <1>1, <1>2, <1>3, <1>4, <3>1
    <3>2. CASE x # p
      BY <1>0, <1>1, <1>4, <3>2 DEF WorkOK, CalledOK
    <3>3. QED
      BY <3>1, <3>2
  <2>2. ASSUME NEW x \in finished', x \in HasCallback PROVE called'[x] = 1
    <3>1. x \in Query
      BY <2>2, QueryPoolAssumption
    <3>2. CASE x = p
      BY <1>2, <1>4, <3>1, <3>2
    <3>3. CASE x # p
      BY <1>0, <1>1, <1>3, <1>4, <2>2, <3>1, <3>3 DEF WorkOK, CalledOK
    <3>4. QED
      BY <3>2, <3>3
  <2>3. ASSUME NEW b \in Batch, NEW i \in DOMAIN b, NEW j \in DOMAIN b, b[i] \in finished' \cap m_error', First(b, i, j)
        PROVE  called'[b[j]] = 1
    <3>1. b[j] \in Query
      BY BatchOf
    <3>2. CASE b[j] = p
      BY <1>2, <1>4, <3>1, <3>2
    <3>3. CASE b[j] # p
      <4>1. b[i] # q
        BY <1>1, <1>3, <2>3, <3>3
      <4>2. called[b[j]] = 1
        BY <1>0, <1>1, <2>3, <4>1 DEF WorkOK, CalledOK
      <4>3. QED
        BY <1>4, <3>1, <3>3, <4>2
    <3>4. QED
      BY <3>2, <3>3
  <2>4. QED
    BY <2>1, <2>2, <2>3 DEF CalledOK, First
<1>8. ASSUME NEW b \in Batch, ~(caller[b] = "done" /\ instance[b] = t) PROVE Untouched(b)
  <2>1. q \notin Parts(b)
    BY <1>3, <1>8, HomeOf
  <2>2. p # NoQuery => p \notin Parts(b)
    BY <1>3, <1>8, <2>1, HomeOf
  <2>3. Parts(b) \subseteq Query
    BY BatchOf
  <2>4. \A x \in Parts(b) : x # q /\ x # p
    BY <1>2, <2>1, <2>2, <2>3
  <2>5. QED
    BY <1>1, <1>4, <2>3, <2>4 DEF Untouched
<1>9. \A x \in Query : x # q /\ x # p => called'[x] = called[x] /\ (x \in finished' <=> x \in finished)
  BY <1>1, <1>4
<1>10. QED
  BY <1>5, <1>6, <1>7, <1>8, <1>9 DEF p

LEMMA CallbackFrame ==
    ASSUME TypeOK, NEW t \in Thread, Callback(t)
    PROVE  /\ pc[t] = "callback" /\ pc'[t] = "check" /\ ~Emptied(t)' /\ ~InHand(t)' /\ Lead(t)' = 0
           /\ HandOK(t)' /\ HeirOK(t)' /\ Executed(t)' = 0 /\ (Clean(t)' <=> Size(t)' = 0)
           /\ \A i \in 1..Size(t)' : ~Through(t, i)'
           /\ \A u \in Thread \ {t} : pc'[u] = pc[u] /\ querySet'[u] = querySet[u]
           /\ UNCHANGED <<caller, instance, queries, m_cancel, uncommitted, m_error, m_callback, committed, dropped>>
<1>1. /\ pc[t] = "callback" /\ pc' = [pc EXCEPT ![t] = "check"] /\ querySet' = [querySet EXCEPT ![t] = Nothing]
      /\ UNCHANGED <<caller, instance, queries, m_cancel, uncommitted, m_error, m_callback, committed, dropped>>
  BY DEF Callback, Goto, callerVars
<1>2. DOMAIN pc = Thread /\ DOMAIN querySet = Thread
  BY SetTypes
<1>3. pc'[t] = "check" /\ \A u \in Thread \ {t} : pc'[u] = pc[u] /\ querySet'[u] = querySet[u]
  BY <1>1, <1>2
<1>4. ~Emptied(t)' /\ ~InHand(t)' /\ Lead(t)' = 0 /\ Executed(t)' = 0 /\ (Clean(t)' <=> Size(t)' = 0)
  BY <1>3 DEF Emptied, InHand, Lead, Executed, Clean
<1>5. HandOK(t)' /\ HeirOK(t)' /\ \A i \in 1..Size(t)' : ~Through(t, i)'
  BY <1>3, <1>4 DEF HandOK, HeirOK, Through
<1>6. QED
  BY <1>1, <1>3, <1>4, <1>5

\* The queue was dropped before: the line stays as it is.
LEMMA CallbackEmptied ==
    ASSUME BInv, NEW t \in Thread, Callback(t), Emptied(t)
    PROVE  ThreadOK(t)'
<1> DEFINE q == querySet[t].query
           p == m_callback[q]
<1>0. TypeOK /\ WorkOK /\ ThreadOK(t)
  BY DEF BInv, WorkOK
<1>1. LineOK(t) /\ UnsettledOK(t) /\ OpenOK(t) /\ HandOK(t) /\ SessionOK(t)
  BY <1>0 DEF ThreadOK
<1>2. /\ pc[t] = "callback" /\ pc'[t] = "check" /\ ~Emptied(t)' /\ ~InHand(t)' /\ Lead(t)' = 0
      /\ HandOK(t)' /\ HeirOK(t)' /\ Executed(t)' = 0 /\ (Clean(t)' <=> Size(t)' = 0)
      /\ \A i \in 1..Size(t)' : ~Through(t, i)'
      /\ UNCHANGED <<caller, instance, queries, m_cancel, uncommitted, m_error, m_callback, committed, dropped>>
  BY <1>0, CallbackFrame
<1>3. CallersKept /\ \A x \in Query : x # q /\ x # p => called'[x] = called[x] /\ (x \in finished' <=> x \in finished)
  BY CallbackOutcomes
<1>4. p # NoQuery /\ p # q => p \in dropped
  BY <1>2, CallbackIs
<1> HIDE DEF p
<1>5. Lead(t) = 0
  BY DEF Lead
<1>6. Size(t) \in Nat /\ Size(t)' = Size(t) /\ \A i \in 1..Size(t) : Item(t, i)' = Item(t, i)
  <2>1. Size(t) \in Nat /\ Size(t)' = Size(t)
    BY <1>0, <1>1, <1>2, <1>5, LineTypes DEF Size
  <2>2. ASSUME NEW i \in 1..Size(t) PROVE Item(t, i)' = Item(t, i)
    <3>1. ~(i <= 0)
      BY <2>1
    <3>2. QED
      BY <1>2, <1>5, <3>1 DEF Item
  <2>3. QED
    BY <2>1, <2>2
<1>7. LineOK(t)'
  BY <1>0, <1>1, <1>2, <1>3, <1>6, LineSame
<1>8. ASSUME NEW i \in 1..Size(t), NEW b \in Batch, Item(t, i).query \in Parts(b)
      PROVE  Parts(b) \cap dropped = {} /\ Parts(b) \cap committed = {} /\ Parts(b) \cap m_error = {}
  <2>1. ~Through(t, i) /\ pc[t] # "drop"
    BY <1>2, <1>5, <1>6 DEF Through
  <2>2. QED
    BY <1>1, <1>8, <2>1 DEF OpenOK
<1>9. ASSUME NEW i \in 1..Size(t) PROVE Item(t, i).query # q /\ Item(t, i).query # p /\ Item(t, i).query \in Query
  <2>1. Item(t, i).query \in Query
    BY <1>0, <1>1, LineTypes
  <2>2. PICK b \in Batch : Item(t, i).query \in Parts(b)
    BY <1>0, <1>1, ItemOf, BatchOf
  <2>3. q \in m_error
    BY DEF Emptied
  <2>4. Item(t, i).query # q /\ Item(t, i).query \notin dropped
    BY <1>8, <2>2, <2>3
  <2>5. QED
    BY <1>4, <2>1, <2>4, QueryPoolAssumption
<1>10. UnsettledOK(t)'
  BY <1>1, <1>2, <1>3, <1>6, <1>9 DEF UnsettledOK, OwnCallback
<1>11. OpenOK(t)'
  BY <1>2, <1>6, <1>8 DEF OpenOK, Parts
<1>12. SessionOK(t)'
  <2>1. uncommitted[t] = {}
    BY <1>1, <1>2 DEF SessionOK, Clean, Emptied
  <2>2. ASSUME Size(t) # 0, NEW b \in Batch, NEW k \in 1..Len(b), Item(t, 1) = Entry(b, k)
        PROVE  {} \in Rest(b, k - 1 + 0, m_cancel)
    <3>1. PICK c \in Batch : Item(t, 1) = Entry(c, 1)
      BY <1>1, <1>6, <2>2 DEF LineOK
    <3>2. 1 \in 1..Len(c)
      BY BatchOf
    <3>3. k = 1
      BY <2>2, <3>1, <3>2, EntryOf
    <3>4. k - 1 + 0 = 0
      BY <3>3
    <3>5. QED
      BY <3>4, RestOf
  <2>3. Size(t) # 0 => Item(t, 1)' = Item(t, 1)
    BY <1>6
  <2>4. QED
    BY <1>2, <1>6, <2>1, <2>2, <2>3 DEF SessionOK, Entry, Parts
<1>13. QED
  BY <1>2, <1>7, <1>10, <1>11, <1>12 DEF ThreadOK

\* Else the line moves up.
LEMMA CallbackShifts ==
    ASSUME BInv, NEW t \in Thread, Callback(t), ~Emptied(t)
    PROVE  ThreadOK(t)'
<1> DEFINE q == querySet[t].query
           p == m_callback[q]
<1>0. TypeOK /\ WorkOK /\ ThreadOK(t)
  BY DEF BInv, WorkOK
<1>1. LineOK(t) /\ UnsettledOK(t) /\ OpenOK(t) /\ HandOK(t) /\ SessionOK(t)
  BY <1>0 DEF ThreadOK
<1>2. /\ pc[t] = "callback" /\ pc'[t] = "check" /\ ~Emptied(t)' /\ ~InHand(t)' /\ Lead(t)' = 0
      /\ HandOK(t)' /\ HeirOK(t)' /\ Executed(t)' = 0 /\ (Clean(t)' <=> Size(t)' = 0)
      /\ \A i \in 1..Size(t)' : ~Through(t, i)'
      /\ UNCHANGED <<caller, instance, queries, m_cancel, uncommitted, m_error, m_callback, committed, dropped>>
  BY <1>0, CallbackFrame
<1>3. CallersKept /\ \A x \in Query : x # q /\ x # p => called'[x] = called[x] /\ (x \in finished' <=> x \in finished)
  BY CallbackOutcomes
<1>4. p # NoQuery => p = q
  BY <1>2, CallbackIs
<1> HIDE DEF p
<1>5. Lead(t) = 1
  BY <1>2 DEF Lead, InHand
<1>6. /\ Size(t) \in Nat /\ Size(t) >= 1 /\ Item(t, 1) = querySet[t]
      /\ \A i \in 2..Size(t) : Item(t, i).query # q
  BY <1>0, <1>1, <1>5, AfterHand
<1>7. Size(t)' = Size(t) - 1 /\ \A i \in 1..Size(t)' : i + 1 \in 2..Size(t) /\ Item(t, i)' = Item(t, i + 1)
  <2>1. Len(queries[t]) \in Nat
    BY <1>0, <1>1, LineTypes
  <2>2. Size(t)' = Size(t) - 1
    BY <1>2, <1>5, <2>1 DEF Size
  <2>3. ASSUME NEW i \in 1..Size(t)' PROVE i + 1 \in 2..Size(t) /\ Item(t, i)' = Item(t, i + 1)
    <3>1. i + 1 \in 2..Size(t) /\ ~(i <= 0) /\ ~(i + 1 <= 1) /\ i - 0 = i /\ (i + 1) - 1 = i
      BY <1>6, <2>2
    <3>2. Item(t, i)' = queries[t][i] /\ Item(t, i + 1) = queries[t][i]
      BY <1>2, <1>5, <3>1 DEF Item
    <3>3. QED
      BY <3>1, <3>2
  <2>4. QED
    BY <2>2, <2>3
<1>8. LineOK(t)'
  BY <1>0, <1>1, <1>2, <1>3, <1>6, <1>7, LineShifted
<1>9. ASSUME NEW i \in 2..Size(t), NEW b \in Batch, Item(t, i).query \in Parts(b)
      PROVE  Parts(b) \cap dropped = {} /\ Parts(b) \cap committed = {} /\ Parts(b) \cap m_error = {}
  <2>1. ~Through(t, i) /\ pc[t] # "drop" /\ i \in 1..Size(t)
    BY <1>2, <1>5, <1>6 DEF Through
  <2>2. QED
    BY <1>1, <1>9, <2>1 DEF OpenOK
<1>10. ASSUME NEW i \in 2..Size(t) PROVE Item(t, i).query # q /\ Item(t, i).query # p /\ Item(t, i).query \in Query /\ i \in 1..Size(t)
  <2>1. i \in 1..Size(t)
    BY <1>6
  <2>2. Item(t, i).query \in Query
    BY <1>0, <1>1, <2>1, LineTypes
  <2>3. QED
    BY <1>4, <1>6, <2>1, <2>2, QueryPoolAssumption
<1>11. UnsettledOK(t)'
  BY <1>1, <1>2, <1>3, <1>7, <1>10 DEF UnsettledOK, OwnCallback
<1>12. OpenOK(t)'
  BY <1>2, <1>7, <1>9 DEF OpenOK, Parts
<1>13. SessionOK(t)'
  <2>1. ASSUME Size(t)' # 0, NEW b \in Batch, NEW k \in 1..Len(b), Item(t, 2) = Entry(b, k)
        PROVE  LET past == {b[j] : j \in 1..(k - 1 + 0)} IN
               /\ uncommitted[t] \subseteq past
               /\ uncommitted[t] \in Rest(b, k - 1 + 0, m_cancel)
    <3>0. Size(t) >= 2 /\ 1 \in 1..Size(t) /\ 1 < Size(t) /\ k \in Nat /\ k >= 1 /\ 1 + 1 = 2
      BY <1>6, <1>7, <2>1
    <3>1. CASE Clean(t)
      <4>1. uncommitted[t] = {}
        BY <1>1, <3>1 DEF SessionOK
      <4>2. Item(t, 1).commit
        BY <1>2, <1>6, <3>0, <3>1 DEF Clean, Emptied
      <4>3. PICK c \in Batch : Item(t, 2) = Entry(c, 1)
        BY <1>1, <3>0, <4>2 DEF LineOK
      <4>4. 1 \in 1..Len(c)
        BY BatchOf
      <4>5. k = 1
        BY <2>1, <4>3, <4>4, EntryOf
      <4>6. k - 1 + 0 = 0
        BY <4>5
      <4>7. QED
        BY <4>1, <4>6, RestOf
    <3>2. CASE ~Clean(t)
      <4>1. ~querySet[t].commit
        BY <1>2, <3>2 DEF Clean
      <4>2. PICK c \in Batch : \E m \in 1..Len(c) :
               /\ querySet[t] = Entry(c, m)
               /\ querySet[t].commit <=> m = Len(c)
               /\ m < Len(c) => Item(t, 2) = Entry(c, m + 1)
        BY <1>0, <1>1, <1>5, AfterHand
      <4>3. PICK m \in 1..Len(c) :
               /\ querySet[t] = Entry(c, m)
               /\ querySet[t].commit <=> m = Len(c)
               /\ m < Len(c) => Item(t, 2) = Entry(c, m + 1)
        BY <4>2
      <4>4. Len(c) \in Nat
        BY BatchOf
      <4>5. m + 1 \in 1..Len(c) /\ Item(t, 2) = Entry(c, m + 1)
        BY <4>1, <4>3, <4>4
      <4>6. c = b /\ k = m + 1
        BY <2>1, <4>5, EntryOf
      <4>7. Executed(t) = 1 /\ m - 1 + 1 = k - 1 + 0
        BY <1>2, <4>4, <4>6 DEF Executed
      <4>8. /\ uncommitted[t] \subseteq {c[j] : j \in 1..(m - 1 + 1)}
            /\ uncommitted[t] \in Rest(c, m - 1 + 1, m_cancel)
        BY <1>1, <1>2, <1>6, <3>2, <4>3, <4>7 DEF SessionOK, Abandoned
      <4>9. QED
        BY <4>6, <4>7, <4>8
    <3>3. QED
      BY <3>1, <3>2
  <2>2. Size(t)' # 0 => Item(t, 1)' = Item(t, 2)
    BY <1>6, <1>7
  <2>3. uncommitted[t] = {} \/ Size(t)' # 0
    <3>1. ASSUME Size(t)' = 0, ~Clean(t) PROVE FALSE
      <4>1. ~querySet[t].commit /\ Size(t) = 1
        BY <1>2, <1>6, <1>7, <3>1 DEF Clean
      <4>2. PICK c \in Batch : \E m \in 1..Len(c) :
               /\ querySet[t].commit <=> m = Len(c)
               /\ m < Len(c) => Size(t) >= 2
        BY <1>0, <1>1, <1>5, AfterHand
      <4>3. QED
        BY <4>1, <4>2, BatchOf
    <3>2. QED
      BY <1>1, <3>1 DEF SessionOK
  <2>4. QED
    BY <1>2, <2>1, <2>2, <2>3 DEF SessionOK, Entry, Parts
<1>14. QED
  BY <1>2, <1>8, <1>11, <1>12, <1>13 DEF ThreadOK

LEMMA CallbackKept ==
    ASSUME BInv, NEW t \in Thread, Callback(t)
    PROVE  WorkOK'
<1>1. ThreadOK(t)'
  BY CallbackEmptied, CallbackShifts
<1>2. /\ RestOrNothing' /\ CalledOK' /\ CallersKept
      /\ \A b \in Batch : (caller[b] = "done" /\ instance[b] = t) \/ Untouched(b)
  BY CallbackOutcomes
<1>3. /\ UNCHANGED m_cancel
      /\ \A u \in Thread \ {t} : /\ queries'[u] = queries[u] /\ querySet'[u] = querySet[u]
                                 /\ uncommitted'[u] = uncommitted[u] /\ pc'[u] = pc[u]
  BY CallbackFrame DEF BInv
<1>4. QED
  BY <1>1, <1>2, <1>3, OthersKept

-----------------------------------------------------------------------------
(* A batch is queued *)

LEMMA ConcatOf ==
    ASSUME NEW s \in Seq(QuerySet), NEW r \in Seq(QuerySet)
    PROVE  /\ Len(s \o r) = Len(s) + Len(r)
           /\ \A i \in 1..Len(s) : (s \o r)[i] = s[i]
           /\ \A k \in 1..Len(r) : (s \o r)[Len(s) + k] = r[k]
OBVIOUS


LEMMA PushFrame ==
    ASSUME BInv, NEW b0 \in Batch, Push(b0), NEW t \in Thread, t = instance[b0]
    PROVE  /\ caller[b0] = "chosen" /\ caller'[b0] = "done" /\ CallersKept
           /\ \A b \in Batch : b # b0 => caller'[b] = caller[b]
           /\ UNCHANGED <<instance, querySet, m_cancel, uncommitted, m_error, m_callback, committed, finished, dropped, called>>
           /\ \A u \in Thread \ {t} : queries'[u] = queries[u] /\ pc'[u] = pc[u]
           /\ pc'[t] = pc[t] \/ (~InHand(t) /\ ~InHand(t)')
           /\ (InHand(t)' <=> InHand(t)) /\ (InHand(t) => pc'[t] = pc[t])
           /\ (Emptied(t)' <=> Emptied(t)) /\ Lead(t)' = Lead(t) /\ Executed(t)' = Executed(t)
           /\ Size(t) \in Nat /\ Size(t)' = Size(t) + Len(b0) /\ Lead(t) \in {0, 1} /\ Lead(t) <= Size(t)
           /\ \A i \in 1..Size(t) : Item(t, i)' = Item(t, i)
           /\ \A k \in 1..Len(b0) : \A i \in Nat : i = Size(t) + k => Item(t, i)' = Entry(b0, k)
<1>0. TypeOK /\ LineOK(t) /\ HandOK(t)
  BY DEF BInv, WorkOK, ThreadOK
<1>1. /\ caller \in [Batch -> {"outside", "comparing", "chosen", "done"}] /\ instance \in [Batch -> Thread]
      /\ queries \in [Thread -> Seq(QuerySet)] /\ DOMAIN pc = Thread
  BY <1>0, SetTypes
<1>2. /\ caller[b0] = "chosen" /\ caller' = [caller EXCEPT ![b0] = "done"]
      /\ queries' = [queries EXCEPT ![t] = queries[t] \o QuerySets(b0)]
      /\ pc' = [pc EXCEPT ![t] = Woken(t)]
      /\ UNCHANGED <<instance, querySet, m_cancel, uncommitted, m_error, m_callback, committed, finished, dropped, called>>
  BY DEF Push, workVars
<1>3. /\ caller'[b0] = "done" /\ \A b \in Batch : b # b0 => caller'[b] = caller[b]
  BY <1>1, <1>2
<1>4. CallersKept
  BY <1>2, <1>3 DEF CallersKept
<1>5. /\ \A u \in Thread \ {t} : queries'[u] = queries[u] /\ pc'[u] = pc[u]
      /\ pc'[t] = Woken(t) /\ queries'[t] = queries[t] \o QuerySets(b0)
  BY <1>1, <1>2
<1>6. /\ pc'[t] = pc[t] \/ (~InHand(t) /\ ~InHand(t)')
      /\ (InHand(t)' <=> InHand(t)) /\ (InHand(t) => pc'[t] = pc[t])
  BY <1>5 DEF Woken, InHand
<1>7. (Emptied(t)' <=> Emptied(t)) /\ Lead(t)' = Lead(t) /\ Executed(t)' = Executed(t)
  <2>1. Emptied(t)' <=> Emptied(t)
    BY <1>2, <1>6 DEF Emptied, InHand
  <2>2. QED
    BY <1>6, <2>1 DEF Lead, Executed, InHand
<1>8. QuerySets(b0) \in Seq(QuerySet) /\ Len(QuerySets(b0)) = Len(b0) /\ \A k \in 1..Len(b0) : QuerySets(b0)[k] = Entry(b0, k)
  BY BatchOf DEF QuerySets, Entry
<1>9. /\ Len(queries'[t]) = Len(queries[t]) + Len(b0)
      /\ \A i \in 1..Len(queries[t]) : queries'[t][i] = queries[t][i]
      /\ \A k \in 1..Len(b0) : queries'[t][Len(queries[t]) + k] = Entry(b0, k)
  <2>1. queries[t] \in Seq(QuerySet)
    BY <1>1
  <2> DEFINE more == QuerySets(b0)
  <2>2. more \in Seq(QuerySet) /\ Len(more) = Len(b0) /\ \A k \in 1..Len(b0) : more[k] = Entry(b0, k)
    BY <1>8
  <2> HIDE DEF more
  <2>3. /\ Len(queries[t] \o more) = Len(queries[t]) + Len(more)
        /\ \A i \in 1..Len(queries[t]) : (queries[t] \o more)[i] = queries[t][i]
        /\ \A k \in 1..Len(more) : (queries[t] \o more)[Len(queries[t]) + k] = more[k]
    BY <2>1, <2>2, ConcatOf
  <2>4. QED
    BY <1>5, <2>2, <2>3 DEF more
<1>10. /\ Len(queries[t]) \in Nat /\ Lead(t) \in {0, 1} /\ Size(t) = Lead(t) + Len(queries[t]) /\ Size(t) \in Nat
       /\ Len(b0) \in Nat /\ Len(b0) >= 1
  BY <1>0, LineTypes, BatchOf DEF Size
<1>11. Size(t)' = Size(t) + Len(b0)
  <2>1. Size(t)' = Lead(t) + Len(queries'[t])
    BY <1>7 DEF Size
  <2>2. Len(queries'[t]) = Len(queries[t]) + Len(b0) /\ Lead(t) \in Nat
    BY <1>9, <1>10
  <2>3. QED
    BY <1>10, <2>1, <2>2
<1>12. ASSUME NEW i \in 1..Size(t) PROVE Item(t, i)' = Item(t, i)
  <2>1. CASE i <= Lead(t)
    BY <1>2, <1>7, <2>1 DEF Item
  <2>2. CASE ~(i <= Lead(t))
    <3>1. i - Lead(t) \in 1..Len(queries[t])
      BY <1>10, <2>2
    <3>2. queries'[t][i - Lead(t)] = queries[t][i - Lead(t)]
      BY <1>9, <3>1
    <3>3. QED
      BY <1>7, <2>2, <3>2 DEF Item
  <2>3. QED
    BY <2>1, <2>2
<1>13. ASSUME NEW k \in 1..Len(b0), NEW i \in Nat, i = Size(t) + k PROVE Item(t, i)' = Entry(b0, k)
  <2>1. Lead(t) \in Nat
    BY <1>10
  <2>2. ~(i <= Lead(t)) /\ i - Lead(t) = Len(queries[t]) + k
    <3>1. i = (Lead(t) + Len(queries[t])) + k
      BY <1>10, <1>13
    <3>2. Len(queries[t]) \in Nat /\ k \in Nat /\ k >= 1
      BY <1>10
    <3>3. QED
      BY <2>1, <3>1, <3>2
  <2>3. Item(t, i)' = queries'[t][i - Lead(t)]
    BY <1>7, <2>2 DEF Item
  <2>4. QED
    BY <1>9, <2>2, <2>3
<1>14. QED
  BY <1>2, <1>3, <1>4, <1>5, <1>6, <1>7, <1>10, <1>11, <1>12, <1>13

LEMMA PushKept ==
    ASSUME BInv, NEW b0 \in Batch, Push(b0)
    PROVE  WorkOK'
<1>t. PICK t \in Thread : t = instance[b0]
  BY SetTypes DEF BInv
<1>0. TypeOK /\ WorkOK /\ ThreadOK(t)
  BY DEF BInv, WorkOK
<1>1. LineOK(t) /\ UnsettledOK(t) /\ OpenOK(t) /\ HandOK(t) /\ SessionOK(t) /\ HeirOK(t)
  BY <1>0 DEF ThreadOK
<1>2. /\ caller[b0] = "chosen" /\ caller'[b0] = "done" /\ CallersKept
      /\ \A b \in Batch : b # b0 => caller'[b] = caller[b]
      /\ UNCHANGED <<instance, querySet, m_cancel, uncommitted, m_error, m_callback, committed, finished, dropped, called>>
      /\ \A u \in Thread \ {t} : queries'[u] = queries[u] /\ pc'[u] = pc[u]
  BY <1>t, PushFrame
<1>3. /\ (InHand(t)' <=> InHand(t)) /\ (InHand(t) => pc'[t] = pc[t])
      /\ (Emptied(t)' <=> Emptied(t)) /\ Lead(t)' = Lead(t) /\ Executed(t)' = Executed(t)
      /\ pc'[t] = pc[t] \/ (~InHand(t) /\ ~InHand(t)')
  BY <1>t, PushFrame
<1>4. /\ Size(t) \in Nat /\ Size(t)' = Size(t) + Len(b0) /\ Lead(t) \in {0, 1} /\ Lead(t) <= Size(t)
      /\ \A i \in 1..Size(t) : Item(t, i)' = Item(t, i)
      /\ \A k \in 1..Len(b0) : \A i \in Nat : i = Size(t) + k => Item(t, i)' = Entry(b0, k)
  BY <1>t, PushFrame
<1>5. Len(b0) \in Nat /\ Len(b0) >= 1 /\ 1 \in 1..Len(b0)
  BY BatchOf
\* An entry was there before, or is of the batch.
<1>6. ASSUME NEW i \in 1..Size(t)'
      PROVE  \/ i \in 1..Size(t) /\ Item(t, i)' = Item(t, i)
             \/ \E k \in 1..Len(b0) : i = Size(t) + k /\ Item(t, i)' = Entry(b0, k) /\ Item(t, i)'.query = b0[k]
  <2>1. CASE i <= Size(t)
    BY <1>4, <1>5, <2>1
  <2>2. CASE ~(i <= Size(t))
    <3>1. i - Size(t) \in 1..Len(b0) /\ i = Size(t) + (i - Size(t)) /\ i \in Nat
      BY <1>4, <1>5, <2>2
    <3>2. Item(t, i)' = Entry(b0, i - Size(t))
      BY <1>4, <3>1
    <3>3. QED
      BY <3>1, <3>2 DEF Entry
  <2>3. QED
    BY <2>1, <2>2
<1>7. ASSUME NEW i \in 1..Size(t) PROVE Item(t, i).query \notin Parts(b0)
  BY <1>0, <1>1, <1>2, ItemOf
<1>8. /\ Parts(b0) \cap (committed \cup dropped \cup finished \cup m_error) = {}
      /\ \A q \in Parts(b0) : called[q] = 0 /\ m_callback[q] = OwnCallback(q)
  BY <1>0, <1>2 DEF WorkOK, OutsideOK
<1>9. LineOK(t)'
  <2>1. ASSUME NEW i \in 1..Size(t)'
        PROVE  \E b \in Batch : \E k \in 1..Len(b) : caller'[b] = "done" /\ instance'[b] = t /\ Follows(t, i, b, k)'
    <3>1. CASE i \in 1..Size(t)
      <4>1. PICK b \in Batch : \E k \in 1..Len(b) : caller[b] = "done" /\ instance[b] = t /\ Follows(t, i, b, k)
        BY <1>1, <3>1 DEF LineOK
      <4>2. PICK k \in 1..Len(b) : caller[b] = "done" /\ instance[b] = t /\ Follows(t, i, b, k)
        BY <4>1
      <4>3. Len(b) \in Nat /\ k \in Nat /\ i + (Len(b) - k) <= Size(t)
        BY <4>2, BatchOf DEF Follows
      <4>4. \A j \in k..Len(b) : i + (j - k) \in 1..Size(t)
        BY <1>4, <3>1, <4>3
      <4>5. i + (Len(b) - k) <= Size(t)'
        BY <1>4, <1>5, <4>3
      <4>6. \A j \in k..Len(b) : Item(t, i + (j - k))' = Entry(b, j)
        BY <1>4, <4>2, <4>4 DEF Follows
      <4>7. Follows(t, i, b, k)'
        BY <4>5, <4>6 DEF Follows, Entry
      <4>8. QED
        BY <1>2, <4>2, <4>7 DEF CallersKept
    <3>2. ASSUME NEW k \in 1..Len(b0), i = Size(t) + k
          PROVE  Follows(t, i, b0, k)'
      <4>1. k \in Nat /\ k >= 1 /\ i \in Nat
        BY <1>4, <3>2
      <4>2. i + (Len(b0) - k) <= Size(t)'
        BY <1>4, <1>5, <3>2, <4>1
      <4>3. ASSUME NEW j \in k..Len(b0) PROVE Item(t, i + (j - k))' = Entry(b0, j)
        <5>1. j \in 1..Len(b0) /\ i + (j - k) \in Nat /\ i + (j - k) = Size(t) + j
          BY <1>4, <1>5, <3>2, <4>1
        <5>2. QED
          BY <1>4, <5>1
      <4>4. QED
        BY <4>2, <4>3 DEF Follows, Entry
    <3>3. QED
      BY <1>2, <1>6, <1>t, <3>1, <3>2
  <2>2. ASSUME NEW i \in 1..Size(t)', i < Size(t)', Item(t, i)'.commit PROVE \E b \in Batch : Item(t, i + 1)' = Entry(b, 1)
    <3>1. CASE i \in 1..Size(t) /\ i < Size(t)
      <4>1. i + 1 \in 1..Size(t)
        BY <1>4, <3>1
      <4>2. PICK b \in Batch : Item(t, i + 1) = Entry(b, 1)
        BY <1>1, <1>4, <2>2, <3>1 DEF LineOK
      <4>3. QED
        BY <1>4, <4>1, <4>2
    <3>2. CASE i = Size(t)
      <4>1. i + 1 \in Nat /\ i + 1 = Size(t) + 1
        BY <1>4, <3>2
      <4>2. QED
        BY <1>4, <1>5, <4>1
    <3>3. CASE i > Size(t)
      <4>1. PICK k \in 1..Len(b0) : i = Size(t) + k /\ Item(t, i)' = Entry(b0, k)
        BY <1>4, <1>6, <3>3
      <4>2. k # Len(b0)
        BY <1>4, <1>5, <2>2, <4>1
      <4>3. Entry(b0, k).commit <=> k = Len(b0)
        BY Zenon DEF Entry
      <4>4. QED
        BY <2>2, <4>1, <4>2, <4>3
    <3>4. QED
      BY <1>4, <1>5, <3>1, <3>2, <3>3
  <2>3. ASSUME NEW i \in 1..Size(t)', NEW j \in 1..Size(t)', i # j PROVE Item(t, i)'.query # Item(t, j)'.query
    <3>1. CASE i \in 1..Size(t) /\ j \in 1..Size(t)
      BY <1>1, <1>4, <2>3, <3>1 DEF LineOK
    <3>2. ASSUME NEW k \in 1..Len(b0), i = Size(t) + k, Item(t, i)'.query = b0[k], j \in 1..Size(t)
          PROVE  Item(t, i)'.query # Item(t, j)'.query
      <4>1. b0[k] \in Parts(b0)
        BY BatchOf
      <4>2. QED
        BY <1>4, <1>7, <3>2, <4>1
    <3>3. ASSUME NEW k \in 1..Len(b0), j = Size(t) + k, Item(t, j)'.query = b0[k], i \in 1..Size(t)
          PROVE  Item(t, i)'.query # Item(t, j)'.query
      <4>1. b0[k] \in Parts(b0)
        BY BatchOf
      <4>2. QED
        BY <1>4, <1>7, <3>3, <4>1
    <3>4. ASSUME NEW k \in 1..Len(b0), i = Size(t) + k, Item(t, i)'.query = b0[k],
                 NEW m \in 1..Len(b0), j = Size(t) + m, Item(t, j)'.query = b0[m]
          PROVE  Item(t, i)'.query # Item(t, j)'.query
      <4>1. k # m
        BY <2>3, <3>4
      <4>2. b0[k] # b0[m]
        BY <4>1, BatchOf
      <4>3. QED
        BY <3>4, <4>2
    <3>5. QED
      BY <1>6, <3>1, <3>2, <3>3, <3>4
  <2>4. ASSUME Emptied(t)', Size(t)' > 0 PROVE \E b \in Batch : Item(t, 1)' = Entry(b, 1)
    <3>1. CASE Size(t) > 0
      <4>1. 1 \in 1..Size(t)
        BY <1>4, <3>1
      <4>2. PICK b \in Batch : Item(t, 1) = Entry(b, 1)
        BY <1>1, <1>3, <2>4, <3>1 DEF LineOK
      <4>3. QED
        BY <1>4, <4>1, <4>2
    <3>2. CASE Size(t) = 0
      <4>1. 1 \in Nat /\ 1 = Size(t) + 1
        BY <3>2
      <4>2. QED
        BY <1>4, <1>5, <4>1
    <3>3. QED
      BY <1>4, <3>1, <3>2
  <2>5. QED
    BY <2>1, <2>2, <2>3, <2>4 DEF LineOK, Entry
<1>10. UnsettledOK(t)'
  <2>1. ASSUME NEW i \in 1..Size(t)'
        PROVE  LET q == Item(t, i)'.query IN
               q \notin finished \cup dropped /\ called[q] = 0 /\ m_callback[q] = OwnCallback(q)
    <3>1. CASE i \in 1..Size(t) /\ Item(t, i)' = Item(t, i)
      BY <1>1, <3>1 DEF UnsettledOK
    <3>2. CASE \E k \in 1..Len(b0) : Item(t, i)'.query = b0[k]
      <4>1. Item(t, i)'.query \in Parts(b0)
        BY <3>2, BatchOf
      <4>2. QED
        BY <1>8, <4>1
    <3>3. QED
      BY <1>6, <3>1, <3>2
  <2>2. QED
    BY <1>2, <2>1 DEF UnsettledOK, OwnCallback
<1>11. OpenOK(t)'
  <2>1. ASSUME NEW i \in 1..Size(t)', NEW b \in Batch, Item(t, i)'.query \in Parts(b)
        PROVE  /\ Parts(b) \cap dropped = {}
               /\ ~Through(t, i)' =>
                      /\ Parts(b) \cap committed = {}
                      /\ Parts(b) \cap m_error \subseteq (IF pc'[t] = "drop" THEN {querySet[t].query} ELSE {})
    <3>1. CASE i \in 1..Size(t) /\ Item(t, i)' = Item(t, i)
      <4>1. (Through(t, i)' <=> Through(t, i)) /\ (pc'[t] = "drop" <=> pc[t] = "drop")
        BY <1>3 DEF Through, InHand
      <4>2. QED
        BY <1>1, <2>1, <3>1, <4>1 DEF OpenOK
    <3>2. CASE \E k \in 1..Len(b0) : Item(t, i)'.query = b0[k]
      <4>1. Item(t, i)'.query \in Parts(b0)
        BY <3>2, BatchOf
      <4>2. b = b0
        BY <2>1, <4>1, HomeOf
      <4>3. QED
        BY <1>8, <4>2
    <3>3. QED
      BY <1>6, <3>1, <3>2
  <2>2. QED
    BY <1>2, <2>1 DEF OpenOK, Parts
<1>12. HandOK(t)'
  <2>1. pc'[t] = "drop" => pc[t] = "drop"
    BY <1>3 DEF InHand
  <2>2. InHand(t)' => \E b \in Batch : \E k \in 1..Len(b) :
           caller'[b] = "done" /\ instance'[b] = t /\ querySet'[t] = Entry(b, k)
    BY <1>1, <1>2, <1>3 DEF HandOK, CallersKept
  <2>3. QED
    BY <1>1, <1>2, <1>3, <2>1, <2>2 DEF HandOK, Entry, Parts
<1>13. SessionOK(t)'
  <2>0. (pc'[t] = "drop" <=> pc[t] = "drop") /\ (pc'[t] = "callback" <=> pc[t] = "callback")
    BY <1>3 DEF InHand
  <2>1. CASE Size(t) # 0
    <3>1. Clean(t)' <=> Clean(t)
      BY <1>2, <1>4, <1>5, <2>0, <2>1 DEF Clean
    <3>2. Item(t, 1)' = Item(t, 1)
      BY <1>4, <2>1
    <3>3. Executed(t)' = Executed(t) /\ (Abandoned(t)' <=> Abandoned(t))
      BY <1>2, <1>3 DEF Executed, Abandoned, InHand
    <3>4. QED
      BY <1>1, <1>2, <3>1, <3>2, <3>3 DEF SessionOK, Entry, Parts
  <2>2. CASE Size(t) = 0
    <3>1. uncommitted[t] = {}
      BY <1>1, <2>2 DEF SessionOK, Clean
    <3>2. Item(t, 1)' = Entry(b0, 1)
      <4>1. 1 \in Nat /\ 1 = Size(t) + 1
        BY <2>2
      <4>2. QED
        BY <1>4, <1>5, <4>1
    <3>3. ~Clean(t)' => Executed(t)' = 0
      <4>1. Lead(t) = 0
        BY <1>4, <2>2
      <4>2. InHand(t) => pc[t] = "callback" /\ querySet[t].query \in m_error
        BY <4>1 DEF Lead, Emptied
      <4>3. InHand(t) => Clean(t)'
        BY <1>2, <1>3, <4>2 DEF Clean
      <4>4. ~InHand(t) => Executed(t)' = 0
        BY <1>3 DEF Executed, InHand
      <4>5. QED
        BY <4>3, <4>4
    <3>4. ASSUME NEW b \in Batch, NEW k \in 1..Len(b), Item(t, 1)' = Entry(b, k) PROVE {} \in Rest(b, k - 1 + 0, m_cancel)
      <4>1. k = 1
        BY <1>5, <3>2, <3>4, EntryOf
      <4>2. k - 1 + 0 = 0
        BY <4>1
      <4>3. QED
        BY <4>2, RestOf
    <3>5. QED
      BY <1>2, <3>1, <3>3, <3>4 DEF SessionOK, Entry, Parts
  <2>3. QED
    BY <2>1, <2>2
<1>14. HeirOK(t)'
  BY <1>1, <1>2, <1>3 DEF HeirOK, First, Parts
<1>15. ThreadOK(t)'
  BY <1>9, <1>10, <1>11, <1>12, <1>13, <1>14 DEF ThreadOK
<1>16. RestOrNothing' /\ CalledOK'
  BY <1>0, <1>2, OutcomesKept DEF WorkOK
<1>17. \A b \in Batch : Untouched(b)
  BY <1>2 DEF Untouched
<1>18. QED
  BY <1>2, <1>15, <1>16, <1>17, OthersKept

-----------------------------------------------------------------------------
(* Transactions and callbacks *)

LEMMA BInitially == Init => BInv
<1> SUFFICES ASSUME Init PROVE BInv
  OBVIOUS
<1>1. TypeOK
  <2>1. maxThreads \in Nat \ {0} /\ MaxStarts \in Nat /\ NoQuery \notin Query /\ HasCallback \subseteq Query /\ 1 \in Thread
    BY ThreadOne, QueryPoolAssumption
  <2>2. <<>> \in Seq(QuerySet)
    BY EmptySeq
  <2>3. notified \in 0..maxThreads /\ starts \in 0..MaxStarts /\ m_threads \in 0..maxThreads
    BY <2>1 DEF Init
  <2>4. queries \in [Thread -> Seq(QuerySet)] /\ querySet \in [Thread -> QuerySet \cup {Nothing}]
    BY <2>2 DEF Init
  <2>5. m_callback \in [Query -> Query \cup {NoQuery}] /\ called \in [Query -> Nat]
    BY <2>1 DEF Init
  <2>6. QED
    BY <2>1, <2>3, <2>4, <2>5 DEF Init, TypeOK
<1>2. ControlOK
  BY DEF Init, ControlOK
<1>3. ASSUME NEW t \in Thread PROVE ThreadOK(t)
  <2>1. pc[t] = "none" /\ queries[t] = <<>> /\ uncommitted[t] = {}
    BY DEF Init
  <2>2. ~InHand(t) /\ ~Emptied(t)
    BY <2>1 DEF InHand, Emptied
  <2>3. Size(t) = 0
    BY <2>1, <2>2 DEF Size, Lead
  <2>4. Clean(t)
    BY <2>3 DEF Clean
  <2>5. QED
    BY <2>1, <2>2, <2>3, <2>4 DEF ThreadOK, LineOK, UnsettledOK, OpenOK, HandOK, SessionOK, HeirOK, InHand
<1>4. ASSUME NEW b \in Batch PROVE OutsideOK(b)
  BY BatchOf DEF Init, OutsideOK, OwnCallback
<1>5. RestOrNothing
  BY DEF Init, RestOrNothing, Rest
<1>6. CalledOK
  BY DEF Init, CalledOK
<1>7. QED
  BY <1>1, <1>2, <1>3, <1>4, <1>5, <1>6 DEF BInv, WorkOK

LEMMA BKept == BInv /\ [Next]_vars => BInv'
<1> SUFFICES ASSUME BInv, [Next]_vars PROVE BInv'
  OBVIOUS
<1>0. TypeOK /\ ControlOK /\ WorkOK /\ \A t \in Thread : HandOK(t)
  BY DEF BInv, WorkOK, ThreadOK
<1>1. CASE Control \/ Terminate
  BY <1>0, <1>1, ControlKept, QuietSteps DEF BInv
<1>2. ASSUME NEW b \in Batch, Call(b) PROVE BInv'
  BY <1>0, <1>2, CallersTyped, QuietSteps DEF BInv
<1>3. ASSUME NEW b \in Batch, Caller(b) PROVE BInv'
  <2>1. TypeOK' /\ ControlOK'
    BY <1>0, <1>3, CallersTyped
  <2>2. CASE Compare(b)
    BY <2>1, <2>2, QuietSteps DEF BInv
  <2>3. CASE Push(b)
    BY <2>1, <2>3, PushKept DEF BInv
  <2>4. QED
    BY <1>3, <2>2, <2>3 DEF Caller
<1>4. ASSUME NEW q \in Query, Cancel(q) PROVE BInv'
  BY <1>0, <1>4, CallersTyped, QuietSteps DEF BInv
<1>5. ASSUME NEW t \in Thread, intHandler(t) \/ SpuriousWakeup(t) PROVE BInv'
  <2>1. TypeOK' /\ ControlOK'
    BY <1>0, <1>5, HandlersTyped
  <2>2. CASE Enter(t) \/ Check(t) \/ Sleep(t) \/ SpuriousWakeup(t) \/ Leave(t)
    BY <2>1, <2>2, QuietSteps DEF BInv
  <2>3. CASE Take(t)
    BY <2>1, <2>3, TakeKept DEF BInv
  <2>4. CASE Execute(t)
    BY <2>1, <2>4, ExecuteKept DEF BInv
  <2>5. CASE Fail(t)
    BY <2>1, <2>5, FailKept DEF BInv
  <2>6. CASE End(t)
    BY <2>1, <2>6, EndKept DEF BInv
  <2>7. CASE Drop(t)
    BY <2>1, <2>7, DropLastKept, DropRestKept DEF BInv
  <2>8. CASE Callback(t)
    BY <2>1, <2>8, CallbackKept DEF BInv
  <2>9. QED
    BY <1>5, <2>2, <2>3, <2>4, <2>5, <2>6, <2>7, <2>8 DEF intHandler
<1>6. CASE UNCHANGED vars
  <2>1. TypeOK' /\ ControlOK'
    BY <1>0, <1>6 DEF vars, TypeOK, ControlOK, Active
  <2>2. WorkOK'
    BY <1>6, QuietKept DEF vars, workVars
  <2>3. QED
    BY <2>1, <2>2 DEF BInv
<1>7. QED
  BY <1>1, <1>2, <1>3, <1>4, <1>5, <1>6 DEF Next

\* Whatever the threads, the batches and what is cancelled or fails, and in
\* whichever order: the invariant of the lines and of the sessions holds.
THEOREM Lines == Spec => []BInv
BY BInitially, BKept, PTL DEF Spec

\* A transaction with an error is never committed, not by a later commit of
\* its session either; what is committed of another is nothing, all of it, or
\* what stands behind one of its cancelled queries; and a query is dropped only
\* behind a transaction that failed before its last query, on the same thread.
THEOREM Atomic == Spec => []RestOrNothing
<1>1. BInv => RestOrNothing
  BY DEF BInv, WorkOK
<1>2. QED
  BY <1>1, Lines, PTL

\* A callback is called once: for its own query, or for the failed one before
\* it in the transaction, when that has none.
THEOREM CallbacksOnce == Spec => []CallbacksCalled
<1>1. BInv => CallbacksCalled
  BY DEF BInv, WorkOK, CalledOK, CallbacksCalled, First
<1>2. QED
  BY <1>1, Lines, PTL
=============================================================================
