------------------------------ MODULE QueryPool ------------------------------
(***************************************************************************)
(* The threads of an ASql connection (asql.hpp): start() and terminate(),   *)
(* queue() of queries and of transactions, and intHandler(), the loop each  *)
(* thread runs over a queue and a MySQL session of its own.  A query stands *)
(* for the SharedData its QueryPar objects share (query.hpp); what a        *)
(* statement does with one is in Statement.                                 *)
(*                                                                          *)
(* The site executes its statements without the pool; this is the library's *)
(* own promise: transactions that are done whole or not at all, an answer   *)
(* for every query, and an end to it all.                                   *)
(***************************************************************************)
EXTENDS Naturals, Sequences, FiniteSets, SequencesExt

CONSTANTS
    Query,          \* queries, each queued once
    Batch,          \* what is queued at once: transactions, and lone queries
    HasCallback,    \* the queries a callback was set for
    Cancellable,    \* the queries whose caller may cancel them
    Instance,       \* the instances a caller may name
    NoQuery,        \* no query, no callback
    maxThreads,
    MaxStarts       \* bound: calls of start()

Thread == 1..maxThreads
Parts(b) == ToSet(b)

ASSUME QueryPoolAssumption ==
    /\ maxThreads \in Nat \ {0} /\ MaxStarts \in Nat
    /\ NoQuery \notin Query /\ HasCallback \subseteq Query
    /\ Cancellable \subseteq Query /\ Instance \subseteq Thread
    /\ Batch \subseteq Seq(Query) \ {<<>>}
    /\ \A b \in Batch : IsInjective(b)
    /\ \A a, b \in Batch : a # b => Parts(a) \cap Parts(b) = {}

QuerySet == [query : Query, commit : BOOLEAN]
Nothing == [query |-> NoQuery, commit |-> FALSE]

VARIABLES
    \* the thread that calls start() and terminate()
    control, notified, starts, m_threads, terminateBool,
    \* per batch: its caller in queue(), the threads it has compared, the best of them
    caller, compared, instance,
    \* per thread: its queue, where intHandler() is, the query in hand, and
    \* what its session executed and did not commit
    queries, pc, querySet, uncommitted,
    \* of the SharedData
    m_cancel, m_error, m_callback,
    \* what came of it: in the database; settled with a call of callback(), or
    \* dropped from a queue; the callbacks called; who was past the check when
    \* terminate() set its flag
    committed, finished, dropped, called, late

controlVars == <<control, notified, starts, m_threads, terminateBool, late>>
callerVars == <<caller, compared, instance>>
workVars == <<uncommitted, m_error, m_callback, committed, finished, dropped, called>>
vars == <<control, notified, starts, m_threads, terminateBool, caller, compared, instance,
          queries, pc, querySet, uncommitted, m_cancel, m_error, m_callback,
          committed, finished, dropped, called, late>>

Init ==
    /\ control = "stopped" /\ notified = 0 /\ starts = 0 /\ m_threads = 0 /\ terminateBool = TRUE
    /\ caller = [b \in Batch |-> "outside"] /\ compared = [b \in Batch |-> 1]
    /\ instance = [b \in Batch |-> 1]
    /\ queries = [t \in Thread |-> <<>>] /\ pc = [t \in Thread |-> "none"]
    /\ querySet = [t \in Thread |-> Nothing] /\ uncommitted = [t \in Thread |-> {}]
    /\ m_cancel = {} /\ m_error = {}
    /\ m_callback = [q \in Query |-> IF q \in HasCallback THEN q ELSE NoQuery]
    /\ committed = {} /\ finished = {} /\ dropped = {} /\ called = [q \in Query |-> 0] /\ late = {}

\* terminateMutex: a thread that leaves keeps it to its end.
TerminateMutexFree == \A t \in Thread : pc[t] # "leaving"

\* A notification of wakeUp[t], which the thread hears if it waits.
Woken(t) == IF pc[t] = "asleep" THEN "check" ELSE pc[t]

-----------------------------------------------------------------------------
(* start() and terminate() *)

Start ==
    /\ control = "stopped" /\ starts < MaxStarts /\ TerminateMutexFree
    /\ control' = "starting" /\ starts' = starts + 1 /\ terminateBool' = FALSE /\ late' = {}
    /\ UNCHANGED <<notified, m_threads, callerVars, queries, pc, querySet, m_cancel, workVars>>

\* The thread gets the number of those there are; start() waits until it runs.
\* Its wait() has no condition: that it returns before the thread runs, and the
\* next one gets the same number, is left out.
Spawn ==
    /\ control = "starting" /\ m_threads < maxThreads
    /\ pc' = [pc EXCEPT ![m_threads + 1] = "entering"]
    /\ control' = "waiting"
    /\ UNCHANGED <<notified, starts, m_threads, terminateBool, late, callerVars, queries, querySet, m_cancel, workVars>>

Started ==
    /\ control = "starting" /\ m_threads = maxThreads
    /\ control' = "running"
    /\ UNCHANGED <<notified, starts, m_threads, terminateBool, late, callerVars, queries, pc, querySet, m_cancel, workVars>>

\* A mutant of Terminate: no notify_all().
TerminateSilently ==
    /\ control = "running" /\ TerminateMutexFree
    /\ control' = "joining" /\ notified' = 0 /\ terminateBool' = TRUE
    /\ late' = {t \in Thread : pc[t] = "look"}
    /\ UNCHANGED <<starts, m_threads, callerVars, queries, pc, querySet, m_cancel, workVars>>

Terminate ==
    /\ control = "running" /\ TerminateMutexFree
    /\ control' = "notifying" /\ notified' = 0 /\ terminateBool' = TRUE
    /\ late' = {t \in Thread : pc[t] = "look"}
    /\ UNCHANGED <<starts, m_threads, callerVars, queries, pc, querySet, m_cancel, workVars>>

\* wakeUp[i].notify_all(), for one thread after the other, without its mutex.
Notify ==
    /\ control = "notifying" /\ notified < maxThreads
    /\ notified' = notified + 1
    /\ pc' = [pc EXCEPT ![notified'] = Woken(notified')]
    /\ control' = IF notified' = maxThreads THEN "joining" ELSE "notifying"
    /\ UNCHANGED <<starts, m_threads, terminateBool, late, callerVars, queries, querySet, m_cancel, workVars>>

Terminated ==
    /\ control = "joining" /\ m_threads = 0
    /\ control' = "stopped"
    /\ UNCHANGED <<notified, starts, m_threads, terminateBool, late, callerVars, queries, pc, querySet, m_cancel, workVars>>

-----------------------------------------------------------------------------
(* queue(), by a thread for each batch, and cancel() *)

\* The caller names an instance, or leaves it to the lengths of the queues.
Call(b) ==
    /\ caller[b] = "outside"
    /\ \/ /\ caller' = [caller EXCEPT ![b] = "comparing"]
          /\ UNCHANGED instance
       \/ \E t \in Instance : /\ instance' = [instance EXCEPT ![b] = t]
                            /\ caller' = [caller EXCEPT ![b] = "chosen"]
    /\ UNCHANGED <<controlVars, compared, queries, pc, querySet, m_cancel, workVars>>

\* One queue at a time, and the lengths may change in between.
Compare(b) ==
    /\ caller[b] = "comparing"
    /\ IF compared[b] = maxThreads
       THEN /\ caller' = [caller EXCEPT ![b] = "chosen"] /\ UNCHANGED <<compared, instance>>
       ELSE /\ compared' = [compared EXCEPT ![b] = @ + 1]
            /\ instance' = [instance EXCEPT ![b] =
                  IF Len(queries[compared'[b]]) < Len(queries[@]) THEN compared'[b] ELSE @]
            /\ UNCHANGED caller
    /\ UNCHANGED <<controlVars, queries, pc, querySet, m_cancel, workVars>>

\* The last query of a batch commits.
QuerySets(b) == [i \in DOMAIN b |-> [query |-> b[i], commit |-> i = Len(b)]]

\* A mutant of Push: the thread is not told.
PushSilently(b) ==
    /\ caller[b] = "chosen" /\ caller' = [caller EXCEPT ![b] = "done"]
    /\ queries' = [queries EXCEPT ![instance[b]] = @ \o QuerySets(b)]
    /\ UNCHANGED <<controlVars, compared, instance, pc, querySet, m_cancel, workVars>>

Push(b) ==
    /\ caller[b] = "chosen" /\ caller' = [caller EXCEPT ![b] = "done"]
    /\ queries' = [queries EXCEPT ![instance[b]] = @ \o QuerySets(b)]
    /\ pc' = [pc EXCEPT ![instance[b]] = Woken(instance[b])]
    /\ UNCHANGED <<controlVars, compared, instance, querySet, m_cancel, workVars>>

\* cancel(), or the original QueryPar object goes and was not to keep alive.
Cancel(q) ==
    /\ q \in Cancellable \ (m_cancel \cup finished \cup dropped)
    /\ m_cancel' = m_cancel \cup {q}
    /\ UNCHANGED <<controlVars, callerVars, queries, pc, querySet, workVars>>

-----------------------------------------------------------------------------
(* intHandler() *)

Goto(t, from, to) == pc[t] = from /\ pc' = [pc EXCEPT ![t] = to]

Enter(t) ==
    /\ Goto(t, "entering", "check")
    /\ m_threads' = m_threads + 1
    /\ control' = IF control = "waiting" THEN "starting" ELSE control
    /\ UNCHANGED <<notified, starts, terminateBool, late, callerVars, queries, querySet, m_cancel, workVars>>

Check(t) ==
    /\ TerminateMutexFree
    /\ Goto(t, "check", IF terminateBool THEN "leaving" ELSE "look")
    /\ UNCHANGED <<controlVars, callerVars, queries, querySet, m_cancel, workVars>>

\* A mutant of Sleep: the queue was looked at before, without its mutex.
SleepAnyway(t) ==
    /\ Goto(t, "look", "asleep")
    /\ UNCHANGED <<controlVars, callerVars, queries, querySet, m_cancel, workVars>>

Sleep(t) ==
    /\ queries[t] = <<>>
    /\ Goto(t, "look", "asleep")
    /\ UNCHANGED <<controlVars, callerVars, queries, querySet, m_cancel, workVars>>

SpuriousWakeup(t) ==
    /\ Goto(t, "asleep", "check")
    /\ UNCHANGED <<controlVars, callerVars, queries, querySet, m_cancel, workVars>>

Take(t) ==
    /\ queries[t] # <<>>
    /\ Goto(t, "look", "execute")
    /\ querySet' = [querySet EXCEPT ![t] = Head(queries[t])]
    /\ queries' = [queries EXCEPT ![t] = Tail(@)]
    /\ UNCHANGED <<controlVars, callerVars, m_cancel, workVars>>

\* Statement::execute(), up to its last look at m_cancel.
Execute(t) ==
    /\ Goto(t, "execute", "end")
    /\ IF querySet[t].query \in m_cancel THEN UNCHANGED uncommitted
       ELSE uncommitted' = [uncommitted EXCEPT ![t] = @ \cup {querySet[t].query}]
    /\ UNCHANGED <<controlVars, callerVars, queries, querySet, m_cancel,
                   m_error, m_callback, committed, finished, dropped, called>>

\* A mutant of Fail: no rollback().
FailKeepsChanges(t) ==
    /\ querySet[t].query \notin m_cancel
    /\ Goto(t, "execute", "drop")
    /\ m_error' = m_error \cup {querySet[t].query}
    /\ UNCHANGED <<controlVars, callerVars, queries, querySet, m_cancel, uncommitted,
                   m_callback, committed, finished, dropped, called>>

\* It throws: the error is kept and the session rolled back.
Fail(t) ==
    /\ querySet[t].query \notin m_cancel
    /\ Goto(t, "execute", "drop")
    /\ m_error' = m_error \cup {querySet[t].query}
    /\ uncommitted' = [uncommitted EXCEPT ![t] = {}]
    /\ UNCHANGED <<controlVars, callerVars, queries, querySet, m_cancel,
                   m_callback, committed, finished, dropped, called>>

\* A cancelled query rolls back and is no error; then the batch may be over.
End(t) ==
    /\ Goto(t, "end", "callback")
    /\ LET kept == IF querySet[t].query \in m_cancel THEN {} ELSE uncommitted[t] IN
       /\ committed' = IF querySet[t].commit THEN committed \cup kept ELSE committed
       /\ uncommitted' = [uncommitted EXCEPT ![t] = IF querySet[t].commit THEN {} ELSE kept]
    /\ UNCHANGED <<controlVars, callerVars, queries, querySet, m_cancel,
                   m_error, m_callback, finished, dropped, called>>

\* After an error the loop drops queries unless the failed one was to commit.
Drops(t) == ~querySet[t].commit

\* Those behind the failed query that have a callback.
Heirs(t) == {i \in DOMAIN queries[t] : m_callback[queries[t][i].query] # NoQuery}

\* A mutant of Heir: the callback of the last dropped query is taken.
HeirLast(t) ==
    LET own == m_callback[querySet[t].query]
    IN  IF own # NoQuery \/ Heirs(t) = {} THEN own
        ELSE m_callback[queries[t][CHOOSE i \in Heirs(t) : \A j \in Heirs(t) : j <= i].query]

\* The failed query's callback, or the first one found in what is dropped.
Heir(t) ==
    LET own == m_callback[querySet[t].query]
    IN  IF own # NoQuery \/ Heirs(t) = {} THEN own
        ELSE m_callback[queries[t][CHOOSE i \in Heirs(t) : \A j \in Heirs(t) : i <= j].query]

\* The loop asks the failed query whether to go on, not the one it took: it
\* ends with the queue.
Drop(t) ==
    /\ Goto(t, "drop", "callback")
    /\ IF Drops(t)
       THEN /\ m_callback' = [m_callback EXCEPT ![querySet[t].query] = Heir(t)]
            /\ dropped' = dropped \cup {queries[t][i].query : i \in DOMAIN queries[t]}
            /\ queries' = [queries EXCEPT ![t] = <<>>]
       ELSE UNCHANGED <<m_callback, dropped, queries>>
    /\ UNCHANGED <<controlVars, callerVars, querySet, m_cancel, uncommitted, m_error, committed, finished, called>>

Callback(t) ==
    /\ Goto(t, "callback", "check")
    /\ LET q == querySet[t].query IN
       /\ called' = IF m_callback[q] = NoQuery THEN called ELSE [called EXCEPT ![m_callback[q]] = @ + 1]
       /\ finished' = finished \cup {q}
    /\ querySet' = [querySet EXCEPT ![t] = Nothing]
    /\ UNCHANGED <<controlVars, callerVars, queries, m_cancel, uncommitted, m_error, m_callback, committed, dropped>>

Leave(t) ==
    /\ Goto(t, "leaving", "none")
    /\ m_threads' = m_threads - 1
    /\ UNCHANGED <<control, notified, starts, terminateBool, late, callerVars, queries, querySet, m_cancel, workVars>>

-----------------------------------------------------------------------------
Control == Start \/ Spawn \/ Started \/ Notify \/ Terminated
Caller(b) == Compare(b) \/ Push(b)
intHandler(t) ==
    \/ Enter(t) \/ Check(t) \/ Sleep(t) \/ Take(t) \/ Execute(t) \/ Fail(t)
    \/ End(t) \/ Drop(t) \/ Callback(t) \/ Leave(t)

Next ==
    \/ Control \/ Terminate
    \/ \E b \in Batch : Call(b) \/ Caller(b)
    \/ \E q \in Query : Cancel(q)
    \/ \E t \in Thread : intHandler(t) \/ SpuriousWakeup(t)

\* Every thread that can run does; a thread that keeps asking for
\* terminateMutex, which the others release, gets it.
Fairness ==
    /\ WF_vars(Control)
    /\ \A b \in Batch : WF_vars(Caller(b))
    /\ \A t \in Thread : SF_vars(intHandler(t))

Spec == Init /\ [][Next]_vars
FairSpec == Spec /\ Fairness

-----------------------------------------------------------------------------
(* Properties *)

\* The members of the connection, of its queues and of the queries keep their types.
TypeOK ==
    /\ control \in {"stopped", "starting", "waiting", "running", "notifying", "joining"}
    /\ notified \in 0..maxThreads /\ starts \in 0..MaxStarts
    /\ m_threads \in 0..maxThreads /\ terminateBool \in BOOLEAN
    /\ caller \in [Batch -> {"outside", "comparing", "chosen", "done"}]
    /\ compared \in [Batch -> Thread] /\ instance \in [Batch -> Thread]
    /\ queries \in [Thread -> Seq(QuerySet)]
    /\ pc \in [Thread -> {"none", "entering", "check", "look", "asleep", "execute",
                          "end", "drop", "callback", "leaving"}]
    /\ querySet \in [Thread -> QuerySet \cup {Nothing}]
    /\ uncommitted \in [Thread -> SUBSET Query]
    /\ m_callback \in [Query -> Query \cup {NoQuery}] /\ called \in [Query -> Nat]
    /\ {m_cancel, m_error, committed, finished, dropped} \subseteq SUBSET Query
    /\ late \subseteq Thread

\* A thread that waits has nothing to do: no query is pushed between its look
\* at the queue and its wait, and none is pushed unheard.
NoQuerySlept == \A t \in Thread : pc[t] = "asleep" => queries[t] = <<>>

\* The first n queries of a transaction, or those of them behind a cancelled one.
Rest(b, n, cancelled) ==
    {{b[j] : j \in (i + 1)..n} : i \in {0} \cup {k \in 1..n : b[k] \in cancelled}}

\* What the code keeps of "Should an error or cancellation crop up in one query
\* all changes made by preceding queries in the transaction will be rolled back
\* and proceeding queries in the transaction will be dumped from the queue"
\* (asql.hpp).  Of an error: nothing of its transaction is ever committed, by
\* whichever later commit of the session.  Of a cancellation it keeps the first
\* half only: what went before is rolled back, but the queries behind are not
\* dumped, and the transaction commits them without their predecessors.  So
\* what is committed of a transaction is nothing, or what is behind one of its
\* cancelled queries, or, whether or not one was cancelled too late, all of it.
\* Who loses a query to a failure: a batch is dropped from some query on to its
\* end, and only behind a transaction that failed before its last query, on the
\* same thread.
RestOrNothing ==
    /\ \A b \in Batch :
           /\ Parts(b) \cap (m_error \cup dropped) # {} => Parts(b) \cap committed = {}
           /\ Parts(b) \cap committed \in {{}} \cup Rest(b, Len(b), m_cancel)
    /\ \A b \in Batch : \A i \in DOMAIN b : b[i] \in dropped =>
           /\ \A j \in i..Len(b) : b[j] \in dropped
           /\ \E a \in Batch : \E j \in 1..(Len(a) - 1) : a[j] \in m_error /\ instance[a] = instance[b]

\* "Note that this will be called even if there is an error or the query can
\* cancelled", and "the first one found will be called" when the failed query
\* has none: a callback is called once, for its own query or for the failed
\* one before it in the transaction.
CallbacksCalled ==
    /\ \A q \in Query : called[q] <= 1
    /\ \A q \in finished \cap HasCallback : called[q] = 1
    /\ \A b \in Batch : \A i, j \in DOMAIN b :
           /\ i < j /\ b[i] \in finished \cap m_error /\ b[j] \in HasCallback
           /\ \A k \in i..(j - 1) : b[k] \notin HasCallback
           => called[b[j]] = 1

\* A query that is queued is settled in the end, unless the pool is stopped.
QueriesSettle ==
    \A b \in Batch : \A i \in DOMAIN b :
        (caller[b] = "done" /\ ~terminateBool) ~> (b[i] \in finished \cup dropped \/ terminateBool)

\* "Terminate all thread of the handler": it does, unless one slept on that
\* was between its check of the flag and its wait when the flag was set.
TerminateEndsUnlessMissed ==
    (control = "joining") ~> (control = "stopped" \/ \E t \in late : pc[t] = "asleep")
=============================================================================
