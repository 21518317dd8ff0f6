------------------------------ MODULE QueryData ------------------------------
(***************************************************************************)
(* Who owns what of an ASql query (query.hpp): the Query object of the       *)
(* caller, the copies a transaction, a queue and a thread of the pool keep   *)
(* of it, the SharedData all of them point to, and the sets of parameters    *)
(* and results that hang from there.  QueryPool says when the thread runs.   *)
(***************************************************************************)
EXTENDS Naturals, Sequences, FiniteSets, SequencesExt

CONSTANTS
    MaxData,        \* bound: Data::Set and Data::SetContainer objects made
    MaxShared       \* bound: SharedData objects, one more with every reset()

ASSUME QueryDataAssumption == MaxData \in Nat /\ MaxShared \in Nat \ {0}

Null == 0

\* The specialisations of Query: what they have of each, and the two arguments
\* they give the constructor of QueryPar.
Kind(parameters, results, singleParameters, singleResults) ==
    [parameters |-> parameters, results |-> results,
     single |-> [parameters |-> singleParameters, results |-> singleResults]]

QueryNone == Kind("none", "none", TRUE, FALSE)
QueryRowToRow == Kind("row", "row", TRUE, TRUE)
QueryRowToRows == Kind("row", "rows", TRUE, FALSE)
QueryToRow == Kind("none", "row", TRUE, TRUE)
QueryToRows == Kind("none", "rows", TRUE, FALSE)
QueryRow == Kind("row", "none", TRUE, FALSE)
QueryRows == Kind("rows", "none", FALSE, FALSE)
Query == {QueryNone, QueryRowToRow, QueryRowToRows, QueryToRow, QueryToRows, QueryRow, QueryRows}

Field == {"parameters", "results"}
Shared == 1..MaxShared

VARIABLES
    kind,       \* the specialisation
    original,   \* the caller's object: is it there, its shared data, its flags
    items,      \* the copy in the caller's transaction: a shared data, or 0
    queue,      \* the copies in the queue of the pool
    hand,       \* the copy of the thread, or 0, and where the thread is with it
    pc,
    shared,     \* the SharedData objects
    born,       \* what each data set is that was made
    deleted,    \* as what each was deleted, every time
    released    \* the data sets given back to the caller

vars == <<kind, original, items, queue, hand, pc, shared, born, deleted, released>>

NewShared(flags) ==
    [flags |-> flags, parameters |-> Null, results |-> Null, cancel |-> FALSE,
     outcome |-> "none", unwanted |-> FALSE]

Init ==
    /\ kind = QueryNone /\ original = [alive |-> FALSE, shared |-> 1, flags |-> {}]
    /\ items = 0 /\ queue = <<>> /\ hand = 0 /\ pc = "idle"
    /\ shared = [i \in Shared |-> NewShared(QueryNone.single)]
    /\ born = <<>> /\ deleted = [d \in 1..MaxData |-> <<>>] /\ released = {}

\* The copies besides the caller's own object.
Copies(i) == items = i \/ hand = i \/ i \in ToSet(queue)
busy == Copies(original.shared)

\* destroyParameters(), destroyResults(): the flag says what the pointer is.
Destroy(s, f, del) ==
    IF s[f] = Null THEN del
    ELSE [del EXCEPT ![s[f]] = Append(@, IF s.flags[f] THEN "row" ELSE "rows")]

\* ~SharedData()
DestroyAll(s, del) == Destroy(s, "parameters", Destroy(s, "results", del))

\* A reference to i goes; if it was the last, so does i.
Unref(i, last) == deleted' = IF last THEN DestroyAll(shared[i], deleted) ELSE deleted

-----------------------------------------------------------------------------
(* The caller *)

Construct(k) ==
    /\ kind' = k
    /\ ~original.alive /\ original.flags = {}
    /\ original' = [alive |-> TRUE, shared |-> 1, flags |-> {"ORIGINAL"}]
    /\ shared' = [shared EXCEPT ![1] = NewShared(k.single)]
    /\ UNCHANGED <<items, queue, hand, pc, born, deleted, released>>

\* createParameters(), setParameters(), createResults(), setResults(): a caller
\* keeps its hands off the data while the query is busy.
SetData(f) ==
    /\ original.alive /\ ~busy /\ kind[f] # "none"
    /\ Len(born) < MaxData /\ born' = Append(born, kind[f])
    /\ deleted' = Destroy(shared[original.shared], f, deleted)
    /\ shared' = [shared EXCEPT ![original.shared][f] = Len(born')]
    /\ UNCHANGED <<kind, original, items, queue, hand, pc, released>>

\* A mutant of Relinquish: the pointer stays.
RelinquishKept(f) ==
    /\ original.alive /\ ~busy /\ kind[f] # "none"
    /\ released' = released \cup ({shared[original.shared][f]} \ {Null})
    /\ UNCHANGED <<kind, original, items, queue, hand, pc, shared, born, deleted>>

\* relinquishParameters(), relinquishResults()
Relinquish(f) ==
    /\ original.alive /\ ~busy /\ kind[f] # "none"
    /\ released' = released \cup ({shared[original.shared][f]} \ {Null})
    /\ shared' = [shared EXCEPT ![original.shared][f] = Null]
    /\ UNCHANGED <<kind, original, items, queue, hand, pc, born, deleted>>

keepAlive(x) ==
    /\ original.alive
    /\ original' = [original EXCEPT !.flags = IF x THEN @ \cup {"KEEPALIVE"} ELSE @ \ {"KEEPALIVE"}]
    /\ UNCHANGED <<kind, items, queue, hand, pc, shared, born, deleted, released>>

cancel ==
    /\ original.alive
    /\ shared' = [shared EXCEPT ![original.shared].cancel = TRUE, ![original.shared].unwanted = TRUE]
    /\ UNCHANGED <<kind, original, items, queue, hand, pc, born, deleted, released>>

\* What intHandler() is going to dereference has to be there.
Ready(s) ==
    /\ s.flags.parameters /\ s.flags.results => s.results # Null
    /\ ~s.flags.parameters => s.parameters # Null

\* Statement::queue(): a copy of the query for the pool, whose mutex the thread
\* has while it drops queries.
QueueAlone ==
    /\ original.alive /\ ~busy /\ Ready(shared[original.shared]) /\ pc # "drop"
    /\ queue' = Append(queue, original.shared)
    /\ UNCHANGED <<kind, original, items, hand, pc, shared, born, deleted, released>>

\* Transaction::push()
Push ==
    /\ original.alive /\ items = 0 /\ ~busy /\ Ready(shared[original.shared])
    /\ items' = original.shared
    /\ UNCHANGED <<kind, original, queue, hand, pc, shared, born, deleted, released>>

\* Transaction::start()
StartTransaction ==
    /\ items # 0 /\ items # hand /\ items \notin ToSet(queue) /\ Ready(shared[items]) /\ pc # "drop"
    /\ queue' = Append(queue, items)
    /\ UNCHANGED <<kind, original, items, hand, pc, shared, born, deleted, released>>

\* Transaction::clear()
Clear ==
    /\ items # 0 /\ items' = 0
    /\ Unref(items, ~(original.alive /\ original.shared = items) /\ hand # items /\ items \notin ToSet(queue))
    /\ UNCHANGED <<kind, original, queue, hand, pc, shared, born, released>>

\* New shared data with the old flags; copies that are about keep the old ones.
reset ==
    /\ original.alive /\ original.shared < MaxShared
    /\ original' = [original EXCEPT !.shared = @ + 1, !.flags = {"ORIGINAL"}]
    /\ Unref(original.shared, ~busy)
    /\ shared' = [shared EXCEPT ![original'.shared] = NewShared(shared[original.shared].flags)]
    /\ UNCHANGED <<kind, items, queue, hand, pc, born, released>>

\* ~QueryPar() of the original, which cancels unless it is to keep alive.
Destruct ==
    /\ original.alive
    /\ original' = [original EXCEPT !.alive = FALSE]
    /\ shared' = [shared EXCEPT ![original.shared].cancel = @ \/ original.flags = {"ORIGINAL"},
                                ![original.shared].unwanted = @ \/ original.flags = {"ORIGINAL"}]
    /\ Unref(original.shared, ~busy)
    /\ UNCHANGED <<kind, items, queue, hand, pc, born, released>>

-----------------------------------------------------------------------------
(* The thread *)

Take ==
    /\ pc = "idle" /\ queue # <<>>
    /\ hand' = Head(queue) /\ queue' = Tail(queue) /\ pc' = "execute"
    /\ UNCHANGED <<kind, original, items, shared, born, deleted, released>>

\* The form of execute() goes by the flags; a single row that is not found, or
\* not asked for any more, is deleted.  An error leaves it as it was, and comes
\* to the last query of a transaction or to one that others are queued behind.
Execute ==
    /\ pc = "execute"
    /\ \E outcome \in IF shared[hand].cancel THEN {"stopped"} ELSE {"row", "no row", "error"} :
          LET s == shared[hand]
              clear == s.flags.parameters /\ s.flags.results /\ outcome \in {"stopped", "no row"}
          IN  /\ deleted' = IF clear THEN Destroy(s, "results", deleted) ELSE deleted
              /\ shared' = [shared EXCEPT ![hand].outcome = outcome,
                                          ![hand].results = IF clear THEN Null ELSE @]
              /\ pc' \in IF outcome = "error" THEN {"drop", "callback"} ELSE {"callback"}
    /\ UNCHANGED <<kind, original, items, queue, hand, born, released>>

\* Behind the latter all queries in the queue are dropped, and their copies go.
\* (Each goes a step later in the code, when the next one takes its place.)
Drop ==
    /\ pc = "drop"
    /\ IF queue = <<>> THEN pc' = "callback" /\ UNCHANGED <<queue, deleted>>
       ELSE LET i == Head(queue)
            IN  /\ pc' = pc /\ queue' = Tail(queue)
                /\ Unref(i, ~(original.alive /\ original.shared = i) /\ items # i /\ hand # i /\ i \notin ToSet(queue'))
    /\ UNCHANGED <<kind, original, items, hand, shared, born, released>>

\* A mutant of Done: the copy has the flags of the original.
DoneCancels ==
    /\ pc = "callback" /\ pc' = "idle" /\ hand' = 0
    /\ shared' = [shared EXCEPT ![hand].cancel = TRUE]
    /\ Unref(hand, ~(original.alive /\ original.shared = hand) /\ items # hand /\ hand \notin ToSet(queue))
    /\ UNCHANGED <<kind, original, items, queue, born, released>>

\* callback(), and the copy goes.  It is no original and cancels nothing.
Done ==
    /\ pc = "callback" /\ pc' = "idle" /\ hand' = 0
    /\ Unref(hand, ~(original.alive /\ original.shared = hand) /\ items # hand /\ hand \notin ToSet(queue))
    /\ UNCHANGED <<kind, original, items, queue, shared, born, released>>

Next ==
    \/ \E k \in Query : Construct(k)
    \/ \E f \in Field : SetData(f) \/ Relinquish(f)
    \/ \E x \in BOOLEAN : keepAlive(x)
    \/ cancel \/ QueueAlone \/ Push \/ StartTransaction \/ Clear \/ reset \/ Destruct
    \/ Take \/ Execute \/ Drop \/ Done

Spec == Init /\ [][Next]_vars

-----------------------------------------------------------------------------
(* Properties *)

Referenced(i) == (original.alive /\ original.shared = i) \/ Copies(i)
Held == {shared[i][f] : i \in {j \in Shared : Referenced(j)}, f \in Field} \ {Null}

\* The destructors of SharedData own the data: a data set is deleted once at
\* most, as what it is; none that a SharedData still points to is deleted,
\* whether for the caller or for the thread; and one that nothing points to any
\* more was deleted or given back.  What the thread dereferences is there, and
\* is what the flags call it.
DataOwned ==
    /\ \A d \in DOMAIN born :
           /\ deleted[d] \in {<<>>, <<born[d]>>}
           /\ d \in Held \cup released => deleted[d] = <<>>
           /\ d \notin Held \cup released => deleted[d] # <<>>
           /\ d \notin Held \cap released
    /\ pc = "execute" =>
           /\ Ready(shared[hand])
           /\ \A f \in Field : shared[hand][f] # Null =>
                  shared[hand].flags[f] = (born[shared[hand][f]] = "row")

\* "If the original object and keepalive is not turned on, cancel() is called":
\* nothing else stops a query, however often its copies come and go; and a
\* query that ended has a row for its caller exactly if there was one.
StoppedOnlyByCaller ==
    /\ \A i \in Shared : shared[i].cancel => shared[i].unwanted
    /\ pc \in {"drop", "callback"} /\ shared[hand].flags.results =>
           /\ shared[hand].outcome \in {"row", "error"} => shared[hand].results # Null
           /\ shared[hand].outcome \in {"no row", "stopped"} => shared[hand].results = Null
=============================================================================
