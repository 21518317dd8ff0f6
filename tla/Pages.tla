------------------------------- MODULE Pages --------------------------------
(***************************************************************************)
(* The pages that read the catalogue, on the job thread: HttpObject::handle *)
(* (httpservice.cpp), the collection and the model page, Database::execute  *)
(* with its retries (db.cpp), and Connection::connect and                   *)
(* Statement::execute of asql (mysql.cpp) on the MySQL session they share.  *)
(*                                                                          *)
(* The catalogue changes and the MySQL server, the session or a statement   *)
(* fails between any two calls of the client library.  A row is the item it *)
(* shows; a page is the rows it was rendered from.                          *)
(***************************************************************************)
EXTENDS Naturals, Sequences, FiniteSets, SequencesExt

CONSTANTS
    Item,           \* model-and-colour pairs, the ids of model pages
    Table,          \* bound: what collection_view_ru may list: rows in the order of
                    \* the page; no key keeps an item from being there twice
    Asked,          \* bound: the pages asked for
    NoTable,        \* what the snapshot is outside a transaction
    execute_retry_count,
    MaxVersions,    \* bound: committed contents seen by one page
    MaxAbandoned    \* bound: connects that failed and left a session open

ASSUME PagesAssumption ==
    /\ execute_retry_count \in Nat \ {0}
    /\ MaxVersions \in Nat /\ MaxAbandoned \in Nat
    /\ Item \cap {"collection", "malformed", "refused", "blank", "none"} = {}
    /\ Table \subseteq Seq(Item) /\ NoTable \notin Seq(Item)

Page == Item \cup {"collection"}        \* "malformed": an id parse_id() rejects

ASSUME AskedAssumption == Asked \subseteq Page

Blank == "blank"                        \* a row that was manufactured and not filled

VARIABLES
    catalogue,      \* the committed contents
    server,         \* the MySQL server accepts sessions
    sessions,       \* sessions the server holds for this process
    link,           \* the connection handle: no session, one that is lost, an open one
    initialized,    \* m_initialized
    snapshot,       \* what the session's transaction reads
    built,          \* the static Database of instance() is constructed
    pc,             \* where the job thread is
    page,           \* the page it makes or made last
    retry,
    rows,           \* the vector of results
    cursor,         \* rows of the statement still to be fetched
    status,         \* status_ of the last page
    since,          \* history: committed contents since the page was begun
    hurt,           \* history: something failed since the page was begun
    leftover,       \* history: what a page that failed left its transaction reading
    abandoned       \* history: connects that failed and left a session open

outside == <<catalogue, server>>
connection == <<sessions, link, initialized, snapshot, abandoned>>
results == <<rows, cursor>>
request == <<page, since, leftover>>
vars == <<catalogue, server, sessions, link, initialized, snapshot, built, pc, page, retry,
          rows, cursor, status, since, hurt, leftover, abandoned>>

Init ==
    /\ catalogue \in Table /\ server = "up"
    /\ sessions = 0 /\ link = "none" /\ initialized = FALSE /\ snapshot = NoTable
    /\ built = FALSE
    /\ pc = "idle" /\ page = "none" /\ retry = 0 /\ rows = <<>> /\ cursor = <<>>
    /\ status = "none"
    /\ since = {} /\ hurt = FALSE /\ leftover = NoTable /\ abandoned = 0

\* What the query of a page selects from the contents t: all of them, or one
\* row of the item.
Selected(p, t) == IF p = "collection" THEN t ELSE IF p \in Range(t) THEN <<p>> ELSE <<>>

-----------------------------------------------------------------------------
(* HttpObject::handle *)

\* set_page(), or an exception turned into a status; the page is done and the
\* loop of retries left.
Answer(s) ==
    /\ pc' = "idle"
    /\ status' = s
    /\ retry' = 0

\* get() of CollectionHttpObject or ModelHttpObject up to the query.  The first
\* call of db() constructs the Database, which connects.
Begin(p) ==
    /\ pc = "idle"
    /\ pc' = IF built THEN "query" ELSE "connect"
    /\ page' = p /\ retry' = 0 /\ rows' = <<>> /\ cursor' = <<>> /\ status' = "none"
    /\ since' = {catalogue} \cup (({leftover} \cap {snapshot}) \ {NoTable})
    /\ hurt' = (server = "down")
    /\ UNCHANGED <<outside, connection, built, leftover>>

\* parse_id() throws NotFound; PUT, POST, DELETE and unknown methods throw
\* InvalidMethod.  Neither reaches the database.
BeginRefused ==
    /\ pc = "idle"
    /\ \/ page' = "malformed" /\ Answer("404")
       \/ page' = "refused" /\ Answer("405")
    /\ rows' = <<>> /\ cursor' = <<>>
    /\ since' = {catalogue} /\ hurt' = FALSE
    /\ UNCHANGED <<outside, connection, built, leftover>>

-----------------------------------------------------------------------------
(* Connection::connect, called by the constructor and by the catch block *)

\* A mutant of CloseOld: the old session is not closed.
CloseOldNot ==
    /\ pc = "connect"
    /\ pc' = "dial"
    /\ initialized' = FALSE
    /\ UNCHANGED <<sessions, link, snapshot, outside, abandoned, built, request, retry, results,
                   status, hurt>>

\* The block under if(m_initialized).
CloseOld ==
    /\ pc = "connect"
    /\ pc' = "dial"
    /\ initialized' = FALSE
    /\ sessions' = IF initialized /\ link = "open" THEN sessions - 1 ELSE sessions
    /\ link' = IF initialized THEN "none" ELSE link
    /\ snapshot' = IF initialized THEN NoTable ELSE snapshot
    /\ UNCHANGED <<outside, abandoned, built, request, retry, results, status, hurt>>

\* mysql_init() makes the handle anew, whatever it held; mysql_real_connect()
\* opens a session.
Dial ==
    /\ pc = "dial" /\ server = "up"
    /\ pc' = "setup"
    /\ link' = "open" /\ snapshot' = NoTable
    /\ sessions' = sessions + 1
    /\ UNCHANGED <<outside, initialized, abandoned, built, request, retry, results, status,
                   hurt>>

\* An Error thrown by connect() leaves execute() or the constructor and is
\* answered by handle().
ConnectThrows ==
    /\ Answer("500")
    /\ UNCHANGED <<outside, initialized, built, request, results>>

\* A mutant of DialFails: connect() tries for ever.
DialFailsAgain ==
    /\ pc = "dial"
    /\ hurt' = (hurt \/ server = "up")
    /\ UNCHANGED <<outside, connection, built, pc, request, retry, results, status>>

\* The server is down, or it refuses the session.
DialFails ==
    /\ pc = "dial"
    /\ link' = "none" /\ snapshot' = NoTable
    /\ hurt' = (hurt \/ server = "up")
    /\ ConnectThrows
    /\ UNCHANGED <<sessions, abandoned>>

\* The character set, autocommit(0) and the statement for FOUND_ROWS; then
\* either the constructor is done or the catch block, which ends a retry.
Setup ==
    /\ pc = "setup" /\ link = "open"
    /\ pc' = "query"
    /\ initialized' = TRUE /\ built' = TRUE
    /\ retry' = IF built THEN retry + 1 ELSE retry
    /\ UNCHANGED <<outside, sessions, link, snapshot, abandoned, request, results, status, hurt>>

\* A failure with the session open leaves it open, and m_initialized FALSE; a
\* Database that is not constructed takes its handle along.
SetupFails ==
    /\ pc = "setup"
    /\ link = "open" => abandoned < MaxAbandoned
    /\ link' = IF built THEN link ELSE "none"
    /\ abandoned' = IF link = "open" THEN abandoned + 1 ELSE abandoned
    /\ hurt' = (hurt \/ link = "open")
    /\ ConnectThrows
    /\ UNCHANGED <<sessions, snapshot>>

-----------------------------------------------------------------------------
(* Database::execute and Statement::execute *)

\* A mutant of Fails: the retry does not connect anew.
FailsUnconnected ==
    /\ IF retry = execute_retry_count - 1
       THEN Answer("500")
       ELSE pc' = "query" /\ retry' = retry + 1 /\ UNCHANGED status
    /\ hurt' = (hurt \/ link = "open")
    /\ UNCHANGED <<outside, connection, built, request>>

\* The catch block.  An Error with the session open is a failure of the
\* statement itself; with a lost or no session it is the news of an old one.
Fails ==
    /\ IF retry = execute_retry_count - 1
       THEN Answer("500") /\ leftover' = snapshot
       ELSE pc' = "connect" /\ UNCHANGED <<retry, status, leftover>>
    /\ hurt' = (hurt \/ link = "open")
    /\ UNCHANGED <<outside, connection, built, page, since>>

\* The Statement is prepared, its parameters bound, and it is executed; the
\* first statement of a transaction fixes what the transaction reads.
Execute ==
    /\ pc = "query" /\ link = "open"
    /\ pc' = "fetch"
    /\ snapshot' = IF snapshot = NoTable THEN catalogue ELSE snapshot
    /\ cursor' = Selected(page, snapshot')
    /\ UNCHANGED <<outside, sessions, link, initialized, abandoned, built, request, retry, rows,
                   status, hurt>>

ExecuteFails ==
    /\ pc = "query"
    /\ Fails
    /\ UNCHANGED results

\* manufacture() pushes a row, mysql_stmt_fetch() fills it.  Rows that have
\* arrived are read even when the session is lost.
FetchRow ==
    /\ pc = "fetch" /\ cursor # <<>>
    /\ rows' = Append(rows, Head(cursor))
    /\ cursor' = Tail(cursor)
    /\ UNCHANGED <<outside, connection, built, pc, request, retry, status, hurt>>

\* MYSQL_NO_DATA: the row just manufactured is trimmed.
FetchEnd ==
    /\ pc = "fetch" /\ cursor = <<>>
    /\ pc' = "commit"
    /\ UNCHANGED <<outside, connection, built, request, results, retry, status, hurt>>

\* A mutant of FetchFails: the fetch ends as if there were no more rows.
FetchFailsUnseen ==
    /\ pc = "fetch"
    /\ pc' = "commit"
    /\ UNCHANGED <<outside, connection, built, request, results, retry, status, hurt>>

\* The row just manufactured stays, and so do those before it; those still to
\* be fetched are given up.
FetchFails ==
    /\ pc = "fetch"
    /\ Fails
    /\ rows' = Append(rows, Blank) /\ cursor' = <<>>

\* A mutant of Commit: docommit is false.
CommitNot ==
    /\ pc = "commit"
    /\ leftover' = NoTable
    /\ Answer(IF page # "collection" /\ rows = <<>> THEN "404" ELSE "200")
    /\ UNCHANGED <<outside, connection, built, page, since, results, hurt>>

\* commit(), whose result is not looked at, and the rest of get().
Commit ==
    /\ pc = "commit"
    /\ snapshot' = NoTable
    /\ leftover' = NoTable
    /\ Answer(IF page # "collection" /\ rows = <<>> THEN "404" ELSE "200")
    /\ UNCHANGED <<outside, sessions, link, initialized, abandoned, built, page, since,
                   results, hurt>>

-----------------------------------------------------------------------------
(* The database *)

\* A script commits.
Changes(t) ==
    /\ t # catalogue
    /\ pc # "idle" => Cardinality(since) < MaxVersions
    /\ catalogue' = t
    /\ since' = IF pc = "idle" THEN since ELSE since \cup {t}
    /\ UNCHANGED <<server, connection, built, pc, page, retry, results, status, hurt, leftover>>

\* The server goes down with its sessions, or comes back.
ServerStops ==
    /\ server = "up"
    /\ server' = "down"
    /\ sessions' = 0 /\ abandoned' = 0 /\ snapshot' = NoTable
    /\ link' = IF link = "open" THEN "lost" ELSE link
    /\ hurt' = IF pc = "idle" THEN hurt ELSE TRUE
    /\ UNCHANGED <<catalogue, initialized, built, pc, request, retry, results, status>>

ServerStarts ==
    /\ server = "down"
    /\ server' = "up"
    /\ UNCHANGED <<catalogue, connection, built, pc, request, retry, results, status, hurt>>

\* The session times out or is killed.
SessionEnds ==
    /\ link = "open"
    /\ link' = "lost" /\ sessions' = sessions - 1 /\ snapshot' = NoTable
    /\ hurt' = IF pc = "idle" THEN hurt ELSE TRUE
    /\ UNCHANGED <<outside, initialized, abandoned, built, pc, request, retry, results, status>>

-----------------------------------------------------------------------------
Connect == CloseOld \/ Dial \/ DialFails \/ Setup \/ SetupFails
Query == Execute \/ ExecuteFails \/ FetchRow \/ FetchEnd \/ FetchFails \/ Commit
Visit == (\E p \in Asked : Begin(p)) \/ BeginRefused
Outside == (\E t \in Table : Changes(t)) \/ ServerStops \/ ServerStarts \/ SessionEnds
Next == Visit \/ Connect \/ Query \/ Outside

Spec == Init /\ [][Next]_vars

\* The job thread runs until the page is made.
FairSpec == Spec /\ WF_vars(Connect \/ Query)

TypeOK ==
    /\ catalogue \in Table /\ server \in {"up", "down"}
    /\ sessions \in Nat /\ abandoned \in Nat
    /\ link \in {"none", "lost", "open"} /\ initialized \in BOOLEAN /\ built \in BOOLEAN
    /\ snapshot \in Table \cup {NoTable}
    /\ pc \in {"idle", "connect", "dial", "setup", "query", "fetch", "commit"}
    /\ page \in Page \cup {"malformed", "refused", "none"}
    /\ retry \in 0..(execute_retry_count - 1)
    /\ rows \in Seq(Item \cup {Blank}) /\ cursor \in Seq(Item)
    /\ status \in {"none", "200", "404", "405", "500"}
    /\ since \subseteq Table /\ hurt \in BOOLEAN /\ leftover \in Table \cup {NoTable}

-----------------------------------------------------------------------------
(* Safety *)

Ends(s, t) == Len(t) <= Len(s) /\ SubSeq(s, Len(s) - Len(t) + 1, Len(s)) = t
Begins(s, t) == SubSeq(s, 1, Len(s) - Len(t))

(* The rows of a page end with exactly what its query selects from contents  *)
(* that were committed while the page was made; what stands before them was  *)
(* left by a fetch that failed, and ends with its empty row.  In particular  *)
(* a session in use for days never shows old contents, unless the page       *)
(* before failed all its attempts and left its transaction open; and a       *)
(* failed fetch is never taken for the end of the rows.                      *)
PageEndsFresh ==
    status = "200" =>
        \E t \in since :
            LET fresh == Selected(page, t)
                left == Begins(rows, fresh)
            IN  Ends(rows, fresh) /\ (left # <<>> => Last(left) = Blank)

(* "404 Not Found" for a well-formed id: the item was not in the catalogue at *)
(* some moment while the page was made.                                       *)
NotFoundIsTrue ==
    status = "404" /\ page \in Item => \E t \in since : page \notin Range(t)

(* A page fails only if something failed while it was made: a session that   *)
(* was lost, or a server that was down, before it began costs a retry and    *)
(* never the page.                                                           *)
FailsOnlyWhenHurt == status = "500" => hurt

(* m_initialized tells which handles may be closed: with it set there is a   *)
(* session to close, open or lost; connect() never closes one twice, and      *)
(* reconnecting, however often, leaves no session open behind, except where  *)
(* connect() itself failed after mysql_real_connect().                       *)
OneSessionOpen ==
    /\ initialized => built /\ link # "none"
    /\ sessions <= 1 + abandoned

(* Liveness: every page is answered, whatever the database does.  The retries *)
(* are bounded and connect() is not retried.                                 *)
Answered == pc # "idle" ~> pc = "idle"

(* httpservice.hpp: the job may be done or not done, but not "partially"     *)
(* done.  A page is rendered from the rows of one committed contents.        *)
Atomic ==
    status = "200" =>
        \E t \in since :
            LET shown(list) == IF page = "collection" \/ list = <<>> THEN list ELSE <<Head(list)>>
            IN  shown(rows) = shown(Selected(page, t))
=============================================================================
