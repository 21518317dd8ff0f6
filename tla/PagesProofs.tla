---------------------------- MODULE PagesProofs -----------------------------
(***************************************************************************)
(* The safety properties of Pages for any catalogue, any number of retries, *)
(* changes and failures.                                                    *)
(***************************************************************************)
EXTENDS Pages, FiniteSetTheorems, SequenceTheorems, TLAPS

Shown == Item \cup {Blank}

\* What connect() does to the handle and to m_initialized on its way.
ConnectionOK ==
    /\ pc \in {"dial", "setup"} => ~initialized
    /\ pc \in {"query", "fetch", "commit"} => built
    /\ initialized => built /\ link # "none"

\* Sessions of this process: those of failed connects, and the one in use.
InUse == IF link = "open" /\ (initialized \/ pc = "setup") THEN 1 ELSE 0
SessionsOK ==
    /\ link = "open" => sessions > 0
    /\ sessions <= abandoned + InUse

\* An attempt after the first has a session of its own, so what it meets
\* happened while the page was made.
HurtOK ==
    /\ pc # "idle" /\ server = "down" => hurt
    /\ pc = "setup" /\ link # "open" => hurt
    /\ pc \in {"query", "fetch", "commit"} /\ ~hurt /\ retry > 0 => link = "open"
    /\ FailsOnlyWhenHurt

\* What a transaction reads was committed while the page was made, or it is
\* what the page before left.
SnapshotOK ==
    /\ pc # "idle" => catalogue \in since /\ snapshot \in since \cup {NoTable}
    /\ pc = "idle" => snapshot \in {NoTable, leftover}
    /\ pc = "setup" => snapshot = NoTable

LeftBehind(s) == s \in Seq(Shown) /\ (s # <<>> => Last(s) = Blank)
EndsFresh(s) == \E t \in since, left \in Seq(Shown) :
                    LeftBehind(left) /\ s = left \o Selected(page, t)

\* The rows already fetched and those still to come.
RowsOK ==
    /\ pc \in {"connect", "dial", "setup", "query"} => LeftBehind(rows)
    /\ pc = "fetch" => EndsFresh(rows \o cursor)
    /\ pc = "commit" => EndsFresh(rows)
    /\ pc # "idle" => status = "none"
    /\ status = "200" => EndsFresh(rows)

\* A retry under way leaves room for another.
RetryOK == built /\ pc \in {"connect", "dial", "setup"} => retry < execute_retry_count - 1

IInv ==
    /\ TypeOK
    /\ RetryOK
    /\ ConnectionOK
    /\ SessionsOK
    /\ SnapshotOK
    /\ RowsOK
    /\ NotFoundIsTrue

-----------------------------------------------------------------------------
(* Contents and what a query selects from them *)

LEMMA TableType == Table \subseteq Seq(Item) /\ NoTable \notin Table
  BY PagesAssumption

LEMMA SelectedType ==
    ASSUME NEW t \in Table, NEW p
    PROVE  Selected(p, t) \in Seq(Item)
<1>1. t \in Seq(Item)
  BY TableType
<1>2. CASE p \in Range(t)
  <2>1. p \in Item
    BY <1>1, <1>2 DEF Range
  <2>2. <<p>> \in Seq(Item)
    BY <2>1
  <2>3. QED
    BY <1>1, <2>2 DEF Selected
<1>3. CASE p \notin Range(t)
  BY <1>1, <1>3, EmptySeq DEF Selected
<1>4. QED
  BY <1>2, <1>3

\* An item that is in the contents is selected for its page.
LEMMA SelectedFound ==
    ASSUME NEW t \in Table, NEW p \in Item, Selected(p, t) = <<>>
    PROVE  p \notin Range(t)
<1>1. p # "collection"
  BY PagesAssumption
<1>2. <<p>> # <<>>
  OBVIOUS
<1>3. QED
  BY <1>1, <1>2 DEF Selected

\* The form of PageEndsFresh: a sequence put together from what is left behind
\* and the fresh rows is taken apart into the same two.
LEMMA TakenApart ==
    ASSUME NEW left \in Seq(Shown), NEW fresh \in Seq(Item)
    PROVE  Ends(left \o fresh, fresh) /\ Begins(left \o fresh, fresh) = left
<1>1. fresh \in Seq(Shown)
  BY DEF Shown
<1> DEFINE s == left \o fresh
<1>2. s \in Seq(Shown) /\ Len(s) = Len(left) + Len(fresh)
  BY <1>1, ConcatProperties
<1>3. SubSeq(s, 1, Len(left)) = left
  BY <1>1, SubSeqOfConcat1, SubSeqFull
<1>4. SubSeq(s, Len(left) + 1, Len(s)) = fresh
  BY <1>1, <1>2, SubSeqOfConcat2, SubSeqFull
<1>5. QED
  BY <1>1, <1>2, <1>3, <1>4 DEF Ends, Begins

-----------------------------------------------------------------------------
(* The inductive invariant *)

LEMMA InitIInv == Init => IInv
<1> SUFFICES ASSUME Init PROVE IInv
  OBVIOUS
<1>1. TypeOK
  <2>1. initialized \in BOOLEAN /\ built \in BOOLEAN /\ hurt \in BOOLEAN
    BY Zenon DEF Init
  <2>2. QED
    BY <2>1, PagesAssumption DEF Init, TypeOK
<1>2. ConnectionOK /\ SessionsOK /\ SnapshotOK /\ NotFoundIsTrue
  BY DEF Init, ConnectionOK, SessionsOK, InUse, SnapshotOK,
         NotFoundIsTrue
<1>3. RowsOK
  BY DEF Init, RowsOK
<1>4. RetryOK
  BY DEF Init, RetryOK
<1>5. QED
  BY <1>1, <1>2, <1>3, <1>4 DEF IInv

\* What a change of contents or a failure outside leaves alone.
LEMMA OutsideStep ==
    Outside => /\ UNCHANGED <<initialized, built, pc, page, retry, rows, cursor, status,
                              leftover>>
               /\ since \subseteq since'
BY DEF Outside, Changes, ServerStops, ServerStarts, SessionEnds, outside, connection,
       request, results

LEMMA TypeStep == TypeOK /\ RetryOK /\ SessionsOK /\ [Next]_vars => TypeOK'
<1> SUFFICES ASSUME TypeOK, RetryOK, SessionsOK, [Next]_vars PROVE TypeOK'
  OBVIOUS
<1> USE PagesAssumption, AskedAssumption, TableType
    DEF TypeOK, outside, connection, request, results, Answer
<1>1. ASSUME NEW p \in Asked, Begin(p) PROVE TypeOK'
  BY <1>1 DEF Begin
<1>2. CASE BeginRefused
  <2>1. hurt' \in BOOLEAN
    BY <1>2, Zenon DEF BeginRefused
  <2>2. QED
    BY <1>2, <2>1 DEF BeginRefused
<1>3. CASE CloseOld
  <2>1. initialized' \in BOOLEAN
    BY <1>3, Zenon DEF CloseOld
  <2>2. QED
    BY <1>3, <2>1 DEF CloseOld, SessionsOK
<1>4. CASE Dial
  BY <1>4 DEF Dial
<1>5. CASE DialFails
  BY <1>5 DEF DialFails, ConnectThrows
<1>6. CASE Setup
  <2>1. initialized' \in BOOLEAN /\ built' \in BOOLEAN
    BY <1>6, Zenon DEF Setup
  <2>2. QED
    BY <1>6, <2>1 DEF Setup, RetryOK
<1>7. CASE SetupFails
  BY <1>7 DEF SetupFails, ConnectThrows
<1>8. CASE Execute
  <2>1. snapshot' \in Table
    BY <1>8 DEF Execute
  <2>2. cursor' \in Seq(Item)
    BY <1>8, <2>1, SelectedType DEF Execute
  <2>3. QED
    BY <1>8, <2>1, <2>2 DEF Execute
<1>9. CASE ExecuteFails
  BY <1>9 DEF ExecuteFails, Fails
<1>10. CASE FetchRow
  <2>1. Head(cursor) \in Item /\ Tail(cursor) \in Seq(Item)
    BY <1>10, HeadTailProperties DEF FetchRow
  <2>2. rows' \in Seq(Item \cup {Blank})
    BY <1>10, <2>1, AppendProperties DEF FetchRow
  <2>3. QED
    BY <1>10, <2>1, <2>2 DEF FetchRow
<1>11. CASE FetchEnd \/ FetchFails \/ Commit
  <2>1. CASE FetchEnd
    BY <2>1 DEF FetchEnd
  <2>2. CASE FetchFails
    <3>1. rows' \in Seq(Item \cup {Blank})
      BY <2>2, AppendProperties DEF FetchFails
    <3>2. QED
      BY <2>2, <3>1 DEF FetchFails, Fails
  <2>3. CASE Commit
    BY <2>3 DEF Commit
  <2>4. QED
    BY <1>11, <2>1, <2>2, <2>3
<1>12. ASSUME NEW t \in Table, Changes(t) PROVE TypeOK'
  BY <1>12 DEF Changes
<1>13. CASE ServerStops
  BY <1>13 DEF ServerStops
<1>14. CASE ServerStarts
  BY <1>14 DEF ServerStarts
<1>15. CASE SessionEnds
  <2>1. hurt' \in BOOLEAN
    BY <1>15, Zenon DEF SessionEnds
  <2>2. sessions' \in Nat
    BY <1>15 DEF SessionEnds, SessionsOK
  <2>3. QED
    BY ZenonT(30), <1>15, <2>1, <2>2 DEF SessionEnds
<1>16. CASE UNCHANGED vars
  BY <1>16 DEF vars
<1>17. QED
  BY <1>1, <1>2, <1>3, <1>4, <1>5, <1>6, <1>7, <1>8, <1>9, <1>10, <1>11, <1>12, <1>13,
     <1>14, <1>15, <1>16
     DEF Next, Visit, Connect, Query, Outside

LEMMA RetryStep == TypeOK /\ RetryOK /\ ConnectionOK /\ [Next]_vars => RetryOK'
<1> SUFFICES ASSUME TypeOK, RetryOK, ConnectionOK, [Next]_vars PROVE RetryOK'
  OBVIOUS
<1> USE PagesAssumption
    DEF TypeOK, RetryOK, ConnectionOK, outside, connection, request, results, Answer
<1>1. CASE Visit
  BY <1>1 DEF Visit, Begin, BeginRefused
<1>2. CASE Connect
  BY <1>2 DEF Connect, CloseOld, Dial, DialFails, Setup, SetupFails, ConnectThrows
<1>3. CASE ExecuteFails \/ FetchFails
  <2>1. Fails
    BY <1>3 DEF ExecuteFails, FetchFails
  <2>3. CASE retry = execute_retry_count - 1
    BY <2>1, <2>3 DEF Fails
  <2>4. CASE retry # execute_retry_count - 1
    BY <2>1, <2>4 DEF Fails
  <2>5. QED
    BY <2>3, <2>4
<1>4. CASE Execute \/ FetchRow \/ FetchEnd \/ Commit
  BY <1>4 DEF Execute, FetchRow, FetchEnd, Commit
<1>5. CASE Outside
  BY <1>5, OutsideStep
<1>6. CASE UNCHANGED vars
  BY <1>6 DEF vars
<1>7. QED
  BY <1>1, <1>2, <1>3, <1>4, <1>5, <1>6 DEF Next, Query

\* The handle, m_initialized and the sessions: every action of connect(), and
\* the end of a session.
LEMMA ConnectionStep ==
    TypeOK /\ ConnectionOK /\ SessionsOK /\ [Next]_vars => ConnectionOK' /\ SessionsOK'
<1> SUFFICES ASSUME TypeOK, ConnectionOK, SessionsOK, [Next]_vars
             PROVE  ConnectionOK' /\ SessionsOK'
  OBVIOUS
<1> USE DEF TypeOK, ConnectionOK, SessionsOK, InUse, outside,
    connection, request, results, Answer
<1>1. CASE Visit
  <2>1. ASSUME NEW p \in Asked, Begin(p) PROVE ConnectionOK' /\ SessionsOK'
    BY <2>1 DEF Begin
  <2>2. CASE BeginRefused
    BY <2>2 DEF BeginRefused
  <2>3. QED
    BY <1>1, <2>1, <2>2 DEF Visit
<1>2. CASE CloseOld
  BY <1>2 DEF CloseOld
<1>3. CASE Dial
  BY <1>3 DEF Dial
<1>4. CASE DialFails
  BY <1>4 DEF DialFails, ConnectThrows
<1>5. CASE Setup
  BY <1>5 DEF Setup
<1>6. CASE SetupFails
  BY <1>6 DEF SetupFails, ConnectThrows
<1>7. CASE ExecuteFails \/ FetchFails
  <2>1. Fails /\ pc \in {"query", "fetch"}
    BY <1>7 DEF ExecuteFails, FetchFails
  <2>2. QED
    BY <2>1 DEF Fails
<1>8. CASE Execute \/ FetchRow \/ FetchEnd \/ Commit
  BY <1>8 DEF Execute, FetchRow, FetchEnd, Commit
<1>9. CASE Outside
  <2>1. ASSUME NEW t \in Table, Changes(t) PROVE ConnectionOK' /\ SessionsOK'
    BY <2>1 DEF Changes
  <2>2. CASE ServerStops
    BY <2>2 DEF ServerStops
  <2>3. CASE ServerStarts
    BY <2>3 DEF ServerStarts
  <2>4. CASE SessionEnds
    BY <2>4 DEF SessionEnds
  <2>5. QED
    BY <1>9, <2>1, <2>2, <2>3, <2>4 DEF Outside
<1>10. CASE UNCHANGED vars
  BY <1>10 DEF vars
<1>11. QED
  BY <1>1, <1>2, <1>3, <1>4, <1>5, <1>6, <1>7, <1>8, <1>9, <1>10 DEF Next, Connect, Query

\* With more than one attempt, the last one fails only by what happened during
\* the page.
LEMMA HurtStep ==
    ASSUME execute_retry_count > 1, TypeOK, ConnectionOK, HurtOK, [Next]_vars
    PROVE  HurtOK'
<1> USE PagesAssumption
    DEF TypeOK, HurtOK, FailsOnlyWhenHurt, outside, connection, request, results, Answer
<1>1. CASE Visit
  <2>1. ASSUME NEW p \in Asked, Begin(p) PROVE HurtOK'
    <3>1. server' = "down" => hurt'
      BY <2>1, Zenon DEF Begin
    <3>2. QED
      BY <2>1, <3>1 DEF Begin
  <2>2. CASE BeginRefused
    BY <2>2 DEF BeginRefused
  <2>3. QED
    BY <1>1, <2>1, <2>2 DEF Visit
<1>2. CASE CloseOld
  BY <1>2 DEF CloseOld
<1>3. CASE Dial
  BY <1>3 DEF Dial
<1>4. CASE DialFails
  BY <1>4 DEF DialFails, ConnectThrows
<1>5. CASE Setup
  BY <1>5 DEF Setup
<1>6. CASE SetupFails
  BY <1>6 DEF SetupFails, ConnectThrows
<1>7. CASE ExecuteFails \/ FetchFails
  <2>1. Fails /\ pc \in {"query", "fetch"}
    BY <1>7 DEF ExecuteFails, FetchFails
  <2>2. QED
    <3>1. hurt \/ link = "open" => hurt'
      BY <2>1, Zenon DEF Fails
    <3>2. \/ pc' = "connect" /\ status' = status
          \/ pc' = "idle" /\ retry = execute_retry_count - 1
      BY <2>1 DEF Fails
    <3>3. pc' = "idle" => hurt'
      BY <2>1, <3>1, <3>2
    <3>4. UNCHANGED <<server, link>> /\ (pc' = "idle" \/ retry' = retry)
      BY <2>1 DEF Fails
    <3>5. QED
      BY <2>1, <3>1, <3>2, <3>3, <3>4
<1>8. CASE Execute \/ FetchRow \/ FetchEnd \/ Commit
  BY <1>8 DEF Execute, FetchRow, FetchEnd, Commit
<1>9. CASE Outside
  <2>1. ASSUME NEW t \in Table, Changes(t) PROVE HurtOK'
    BY <2>1 DEF Changes
  <2>2. CASE ServerStops
    BY <2>2 DEF ServerStops
  <2>3. CASE ServerStarts
    BY <2>3 DEF ServerStarts
  <2>4. CASE SessionEnds
    BY <2>4 DEF SessionEnds
  <2>5. QED
    BY <1>9, <2>1, <2>2, <2>3, <2>4 DEF Outside
<1>10. CASE UNCHANGED vars
  BY <1>10 DEF vars
<1>11. QED
  BY <1>1, <1>2, <1>3, <1>4, <1>5, <1>6, <1>7, <1>8, <1>9, <1>10 DEF Next, Connect, Query

\* A transaction begins to read contents of this page, and only a failed page
\* leaves it open.
LEMMA SnapshotStep == TypeOK /\ SnapshotOK /\ [Next]_vars => SnapshotOK'
<1> SUFFICES ASSUME TypeOK, SnapshotOK, [Next]_vars PROVE SnapshotOK'
  OBVIOUS
<1> USE DEF TypeOK, SnapshotOK, outside, connection, request, results, Answer
<1>1. ASSUME NEW p \in Asked, Begin(p) PROVE SnapshotOK'
  BY <1>1, TableType DEF Begin
<1>2. CASE BeginRefused
  BY <1>2 DEF BeginRefused
<1>3. CASE CloseOld \/ Dial
  BY <1>3 DEF CloseOld, Dial
<1>4. CASE DialFails
  BY <1>4 DEF DialFails, ConnectThrows
<1>5. CASE Setup
  BY <1>5 DEF Setup
<1>6. CASE SetupFails
  BY <1>6 DEF SetupFails, ConnectThrows
<1>7. CASE ExecuteFails \/ FetchFails
  <2>1. Fails /\ pc \in {"query", "fetch"}
    BY <1>7 DEF ExecuteFails, FetchFails
  <2>2. QED
    BY <2>1 DEF Fails
<1>8. CASE Execute
  BY <1>8 DEF Execute
<1>9. CASE FetchRow \/ FetchEnd \/ Commit
  BY <1>9 DEF FetchRow, FetchEnd, Commit
<1>10. CASE Outside
  BY <1>10 DEF Outside, Changes, ServerStops, ServerStarts, SessionEnds
<1>11. CASE UNCHANGED vars
  BY <1>11 DEF vars
<1>12. QED
  BY <1>1, <1>2, <1>3, <1>4, <1>5, <1>6, <1>7, <1>8, <1>9, <1>10, <1>11
     DEF Next, Visit, Connect, Query

\* A row that is fetched moves from the cursor to the results.
LEMMA RowMoves ==
    ASSUME TypeOK, FetchRow
    PROVE  rows' \o cursor' = rows \o cursor
<1>1. Head(cursor) \in Shown /\ Tail(cursor) \in Seq(Shown) /\ cursor = <<Head(cursor)>> \o Tail(cursor)
  BY HeadTailProperties DEF TypeOK, FetchRow, Shown
<1>2. rows \in Seq(Shown) /\ <<Head(cursor)>> \in Seq(Shown)
  BY <1>1 DEF TypeOK, Shown
<1>3. rows' = rows \o <<Head(cursor)>>
  BY <1>1, <1>2, AppendIsConcat DEF FetchRow
<1>4. QED
  BY <1>1, <1>2, <1>3, ConcatAssociative DEF FetchRow

\* More contents, the same page: what ends fresh still does.
LEMMA FreshStays ==
    ASSUME NEW s, EndsFresh(s), since \subseteq since', page' = page
    PROVE  (\E t \in since', left \in Seq(Shown) :
               LeftBehind(left) /\ s = left \o Selected(page', t))
BY DEF EndsFresh

LEMMA RowsStep ==
    TypeOK /\ SnapshotOK /\ RowsOK /\ [Next]_vars => RowsOK'
<1> SUFFICES ASSUME TypeOK, SnapshotOK, RowsOK, [Next]_vars PROVE RowsOK'
  OBVIOUS
<1> USE DEF RowsOK, outside, connection, request, results, Answer
<1>1. ASSUME NEW p \in Asked, Begin(p) PROVE RowsOK'
  BY <1>1 DEF Begin, LeftBehind
<1>2. CASE BeginRefused
  BY <1>2 DEF BeginRefused
<1>3. CASE Connect
  BY <1>3 DEF Connect, CloseOld, Dial, DialFails, Setup, SetupFails, ConnectThrows, LeftBehind
<1>4. CASE Execute
  <2>1. snapshot' \in since /\ cursor' = Selected(page, snapshot')
    BY <1>4 DEF Execute, SnapshotOK
  <2>2. LeftBehind(rows) /\ rows \in Seq(Shown)
    BY <1>4 DEF Execute, LeftBehind
  <2>3. EndsFresh(rows \o cursor)'
    BY <1>4, <2>1, <2>2 DEF Execute, EndsFresh, LeftBehind
  <2>4. QED
    BY <1>4, <2>3 DEF Execute
<1>5. CASE FetchRow
  BY <1>5, RowMoves DEF FetchRow, EndsFresh, LeftBehind
<1>6. CASE FetchEnd
  <2>1. rows \o cursor = rows
    BY <1>6 DEF FetchEnd, TypeOK
  <2>2. QED
    BY <1>6, <2>1 DEF FetchEnd, EndsFresh, LeftBehind
<1>7. CASE ExecuteFails
  <2>1. LeftBehind(rows) /\ UNCHANGED rows
    BY <1>7 DEF ExecuteFails
  <2>2. LeftBehind(rows)'
    BY <2>1 DEF LeftBehind
  <2>3. QED
    BY <1>7, <2>2 DEF ExecuteFails, Fails
<1>8. CASE FetchFails
  <2>1. rows \in Seq(Shown) /\ Blank \in Shown
    BY DEF TypeOK, Shown
  <2>2. Append(rows, Blank) \in Seq(Shown) /\ Last(Append(rows, Blank)) = Blank
    BY <2>1, AppendProperties DEF Last
  <2>3. LeftBehind(rows)'
    BY <1>8, <2>2 DEF FetchFails, LeftBehind
  <2>4. QED
    BY <1>8, <2>3 DEF FetchFails, Fails
<1>9. CASE Commit
  BY <1>9 DEF Commit, EndsFresh, LeftBehind
<1>10. CASE Outside
  BY <1>10, OutsideStep DEF EndsFresh, LeftBehind
<1>11. CASE UNCHANGED vars
  BY <1>11 DEF vars, EndsFresh, LeftBehind
<1>12. QED
  BY <1>1, <1>2, <1>3, <1>4, <1>5, <1>6, <1>7, <1>8, <1>9, <1>10, <1>11
     DEF Next, Visit, Query

LEMMA NotFoundStep ==
    TypeOK /\ RowsOK /\ NotFoundIsTrue /\ [Next]_vars => NotFoundIsTrue'
<1> SUFFICES ASSUME TypeOK, RowsOK, NotFoundIsTrue, [Next]_vars PROVE NotFoundIsTrue'
  OBVIOUS
<1> USE DEF NotFoundIsTrue, RowsOK, outside, connection, request, results, Answer
<1>1. CASE Visit
  BY <1>1, PagesAssumption DEF Visit, Begin, BeginRefused
<1>2. CASE Connect
  BY <1>2 DEF Connect, CloseOld, Dial, DialFails, Setup, SetupFails, ConnectThrows
<1>3. CASE ExecuteFails \/ FetchFails
  <2>1. Fails /\ status = "none"
    BY <1>3 DEF ExecuteFails, FetchFails
  <2>2. QED
    BY <2>1 DEF Fails
<1>4. CASE Execute \/ FetchRow \/ FetchEnd
  BY <1>4 DEF Execute, FetchRow, FetchEnd
<1>5. CASE Commit
  <2>1. SUFFICES ASSUME rows = <<>>, page \in Item
                 PROVE  \E t \in since : page \notin Range(t)
    BY <1>5 DEF Commit
  <2>2. PICK t \in since, left \in Seq(Shown) : rows = left \o Selected(page, t)
    BY <1>5 DEF Commit, EndsFresh
  <2>3. t \in Table /\ Selected(page, t) \in Seq(Item)
    BY SelectedType DEF TypeOK
  <2>4. Selected(page, t) = <<>>
    <3>1. Selected(page, t) \in Seq(Shown)
      BY <2>3 DEF Shown
    <3>2. QED
      BY <2>1, <2>2, <3>1, ConcatProperties, EmptySeq
  <2>5. QED
    BY <2>1, <2>3, <2>4, SelectedFound
<1>6. CASE Outside
  BY <1>6, OutsideStep
<1>7. CASE UNCHANGED vars
  BY <1>7 DEF vars
<1>8. QED
  BY <1>1, <1>2, <1>3, <1>4, <1>5, <1>6, <1>7 DEF Next, Query

LEMMA Invariance == Spec => []IInv
<1>1. Init => IInv
  BY InitIInv
<1>2. IInv /\ [Next]_vars => IInv'
  BY TypeStep, RetryStep, ConnectionStep, SnapshotStep, RowsStep, NotFoundStep DEF IInv
<1>3. QED
  BY <1>1, <1>2, PTL DEF Spec

-----------------------------------------------------------------------------
(* The theorems *)

(* Every variable keeps its type; retry stays below execute_retry_count. *)
THEOREM TypeCorrect == Spec => []TypeOK
<1>1. IInv => TypeOK
  BY DEF IInv
<1>2. QED
  BY <1>1, Invariance, PTL

(* However often the session is lost and made anew, m_initialized tells the  *)
(* truth about the handle, and only a connect that failed half-way leaves a  *)
(* session open.                                                             *)
THEOREM SessionsClosed == Spec => []OneSessionOpen
<1>1. IInv => (initialized => built /\ link # "none")
  BY DEF IInv, ConnectionOK
<1>2. IInv => sessions <= 1 + abandoned
  BY DEF IInv, TypeOK, SessionsOK, InUse
<1>3. IInv => OneSessionOpen
  BY <1>1, <1>2 DEF OneSessionOpen
<1>4. QED
  BY <1>3, Invariance, PTL

(* A page ends with the rows of contents committed while it was made.        *)
THEOREM PagesEndFresh == Spec => []PageEndsFresh
<1>1. IInv => PageEndsFresh
  <2>1. SUFFICES ASSUME IInv, status = "200" PROVE PageEndsFresh
    BY DEF PageEndsFresh
  <2>2. PICK t \in since, left \in Seq(Shown) :
            LeftBehind(left) /\ rows = left \o Selected(page, t)
    BY <2>1 DEF IInv, RowsOK, EndsFresh
  <2>3. Selected(page, t) \in Seq(Item)
    BY <2>1, SelectedType DEF IInv, TypeOK
  <2>4. Ends(rows, Selected(page, t)) /\ Begins(rows, Selected(page, t)) = left
    BY <2>2, <2>3, TakenApart
  <2>5. QED
    BY <2>2, <2>4 DEF PageEndsFresh, LeftBehind
<1>2. QED
  BY <1>1, Invariance, PTL

(* 404 for a well-formed id is true of some moment of the page.              *)
THEOREM NotFoundTrue == Spec => []NotFoundIsTrue
<1>1. IInv => NotFoundIsTrue
  BY DEF IInv
<1>2. QED
  BY <1>1, Invariance, PTL

(* A page that fails met a failure of its own, provided execute() may retry  *)
(* at all: with one attempt an old, lost session is enough.                  *)
THEOREM FailuresAreOwn ==
    ASSUME execute_retry_count > 1
    PROVE  Spec => []FailsOnlyWhenHurt
<1>1. Init => IInv /\ HurtOK
  BY InitIInv DEF Init, HurtOK, FailsOnlyWhenHurt
<1>2. (IInv /\ HurtOK) /\ [Next]_vars => HurtOK'
  BY HurtStep DEF IInv
<1>3. HurtOK => FailsOnlyWhenHurt
  BY DEF HurtOK
<1>4. QED
  BY <1>1, <1>2, <1>3, Invariance, PTL DEF Spec
=============================================================================
