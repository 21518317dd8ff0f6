------------------------------- MODULE Server -------------------------------
(***************************************************************************)
(* A request from its first record to END_REQUEST.  The FastCGI thread      *)
(* (Manager: push and handler; Request: handler of fastcgipp and response   *)
(* of main.cpp) turns the records of a web server into requests and their   *)
(* pages into jobs; the job thread runs the jobs and calls back; main()     *)
(* shuts both down.                                                         *)
(*                                                                          *)
(* The job queue is the service JobQueue implements (JobService), and a     *)
(* queued task is eventually taken, which Manager shows; so sleep, wake-up, *)
(* mutexes and batches do not appear here.  Each request of the web server  *)
(* has a serial number n, which the records carry as history only: the code *)
(* knows a request by its FullId (its slot) alone.                          *)
(***************************************************************************)
EXTENDS Naturals, Sequences, FiniteSets, SequencesExt

CONSTANTS
    Slot,           \* FullIds: a connection and a request id on it
    MaxRequests,    \* bound: requests the web server makes in all
    Optional,       \* what it may do besides plain requests; see Options
    Deviating       \* bound: the serials of the requests with which it does

\* Abort a request; send more input than it announced; ask for the role FILTER;
\* send input before the parameters are complete; send a record after the end of
\* the input.
Options == {"abort", "oversize", "filter", "disorder", "late"}

ASSUME ServerAssumption ==
    /\ MaxRequests \in Nat
    /\ Optional \subseteq Options
    /\ Deviating \subseteq 1..MaxRequests

Serial == 1..MaxRequests
Job == [slot : Slot, n : Serial]
Kind == {"BEGIN", "BEGIN_FILTER", "PARAMS", "PARAMS_END", "IN", "IN_TOO_LONG", "IN_END", "ABORT", "DONE"}
Record == [kind : Kind, n : Serial]
Status == {"page", "404", "500", "413", "UNKNOWN_ROLE"}
None == 0           \* the serial of a free slot

VARIABLES
    \* the web server
    peer,           \* per slot: how far its current request is sent
    peerN,          \* per slot: the serial of that request
    made,           \* requests made so far
    wire,           \* per slot: records sent and not yet read
    strayed,        \* history, per slot: which of the Options it made use of
    reply,          \* per slot: END_REQUESTs (with what came before) on their way back
    \* the FastCGI thread
    serial,         \* per slot: the request in the map requests, or None
    state,          \* per slot: its state of request.hpp
    step,           \* per slot: its state_ of main.cpp
    mail,           \* per slot: its queue messages
    turn,           \* of the loop in handler(): "read" a record or "take" a task
    tasks,
    role,           \* per slot: m_role
    phase,          \* of main(): serving, halted, stopped, exited; or undefined
    \* the job thread: JobService, and the job at its head has begun
    pending, jobRan, completed, stopped, ended, running

peerVars == <<peer, peerN, made, wire, strayed>>
requestVars == <<serial, role, state, step, mail>>
jobVars == <<pending, jobRan, completed, stopped, ended>>
vars == <<peer, peerN, made, wire, strayed, reply, serial, role, state, step, mail, turn, tasks, phase,
          pending, jobRan, completed, stopped, ended, running>>

Jobs == INSTANCE JobService

Init ==
    /\ peer = [s \in Slot |-> "idle"] /\ peerN = [s \in Slot |-> None] /\ made = 0
    /\ wire = [s \in Slot |-> <<>>] /\ reply = [s \in Slot |-> <<>>]
    /\ strayed = [s \in Slot |-> {}]
    /\ serial = [s \in Slot |-> None]
    /\ state = [s \in Slot |-> "PARAMS"] /\ step = [s \in Slot |-> "Start"]
    /\ mail = [s \in Slot |-> <<>>] /\ role = [s \in Slot |-> "RESPONDER"]
    /\ turn = "read" /\ tasks = <<>> /\ phase = "serving"
    /\ Jobs!ServiceInit /\ running = FALSE

Live == {s \in Slot : serial[s] # None}

-----------------------------------------------------------------------------
(* The web server: it sends a request record by record, reuses a slot only  *)
(* after END_REQUEST, and with some requests does what the Options name.      *)

May(option, n) == option \in Optional /\ n \in Deviating
Strays(s, option, n) == May(option, n) /\ strayed' = [strayed EXCEPT ![s] = @ \cup {option}]

Sends(s, kind, from, to) ==
    /\ peer[s] = from
    /\ peer' = [peer EXCEPT ![s] = to]
    /\ wire' = [wire EXCEPT ![s] = Append(@, [kind |-> kind, n |-> peerN[s]])]
    /\ UNCHANGED <<peerN, made, reply, requestVars, turn, tasks, phase, jobVars, running>>

BeginsWith(s, kind) ==
    /\ peer[s] = "idle" /\ made < MaxRequests
    /\ made' = made + 1
    /\ peerN' = [peerN EXCEPT ![s] = made']
    /\ peer' = [peer EXCEPT ![s] = "begun"]
    /\ wire' = [wire EXCEPT ![s] = Append(@, [kind |-> kind, n |-> made'])]
    /\ UNCHANGED <<reply, requestVars, turn, tasks, phase, jobVars, running>>

PeerBegins(s) ==
    \/ BeginsWith(s, "BEGIN") /\ UNCHANGED strayed
    \/ BeginsWith(s, "BEGIN_FILTER") /\ Strays(s, "filter", made')

PeerContinues(s) ==
    \/ /\ \/ Sends(s, "PARAMS", "begun", "params")
          \/ Sends(s, "PARAMS_END", "params", "body")
          \/ Sends(s, "IN", "body", "tail")
          \/ Sends(s, "IN_END", "tail", "waiting")
       /\ UNCHANGED strayed
    \/ Sends(s, "IN", "params", "tail") /\ Strays(s, "disorder", peerN[s])
    \/ Sends(s, "IN_TOO_LONG", "body", "tail") /\ Strays(s, "oversize", peerN[s])

PeerAborts(s) ==
    /\ Strays(s, "abort", peerN[s])
    /\ \E from \in {"begun", "params", "body", "tail", "waiting"} :
           Sends(s, "ABORT", from, "aborted")

\* A record too many (bound: once in a slot, and where nothing else strayed).
PeerLate(s) ==
    /\ strayed[s] = {} /\ Strays(s, "late", peerN[s])
    /\ \E kind \in {"PARAMS", "IN"} : Sends(s, kind, "waiting", "waiting")

\* END_REQUEST arrives: the slot is free.  What it had still to send of the
\* request it sends first.
PeerReads(s) ==
    /\ reply[s] # <<>>
    /\ peer[s] \in {"waiting", "aborted"}
    /\ peer' = [peer EXCEPT ![s] = "idle"]
    /\ reply' = [reply EXCEPT ![s] = Tail(@)]
    /\ UNCHANGED <<peerN, made, wire, strayed, requestVars, turn, tasks, phase, jobVars, running>>

-----------------------------------------------------------------------------
(* Manager<T>::push *)

\* A mutant of Deliver: no second task for a request that has one.
DeliverOnce(s, record) ==
    /\ mail' = [mail EXCEPT ![s] = Append(@, record)]
    /\ tasks' = IF Contains(tasks, s) THEN tasks ELSE Append(tasks, s)

\* The request is in the map: the message and a task for it are queued.
Deliver(s, record) ==
    /\ mail' = [mail EXCEPT ![s] = Append(@, record)]
    /\ tasks' = Append(tasks, s)

\* One turn of the loop reads at most one record.
Reads(s) ==
    /\ phase = "serving" /\ turn = "read" /\ turn' = "take"
    /\ wire[s] # <<>> /\ wire' = [wire EXCEPT ![s] = Tail(@)]
    /\ UNCHANGED <<peer, peerN, made, strayed, reply, phase, jobVars, running>>
First(s) == Head(wire[s])
Begins(record) == record.kind \in {"BEGIN", "BEGIN_FILTER"}

\* A record is read: push() from Transceiver::handler().
ReceiveForRequest(s) ==
    /\ Reads(s) /\ s \in Live
    /\ Deliver(s, First(s))
    /\ UNCHANGED <<serial, role, state, step>>

\* BEGIN_REQUEST of an id not in the map: requests[id].reset(new T) and set(), no task.
ReceiveBegin(s) ==
    /\ Reads(s) /\ s \notin Live /\ Begins(First(s))
    /\ serial' = [serial EXCEPT ![s] = First(s).n]
    /\ role' = [role EXCEPT ![s] = IF First(s).kind = "BEGIN" THEN "RESPONDER" ELSE "FILTER"]
    /\ state' = [state EXCEPT ![s] = "PARAMS"]
    /\ step' = [step EXCEPT ![s] = "Start"]
    /\ mail' = [mail EXCEPT ![s] = <<>>]
    /\ UNCHANGED tasks

\* Any other record of an id not in the map is discarded.
ReceiveStray(s) ==
    /\ Reads(s) /\ s \notin Live /\ ~Begins(First(s))
    /\ UNCHANGED <<requestVars, tasks>>

\* tasks.empty(): the next turn begins (asleep or not: see Manager).
NoTask ==
    /\ phase = "serving" /\ turn = "take" /\ tasks = <<>>
    /\ turn' = "read"
    /\ UNCHANGED <<peerVars, reply, requestVars, tasks, phase, jobVars, running>>

-----------------------------------------------------------------------------
(* Manager<T>::handler takes a task, Request::handler its first message *)

\* The turn may have read nothing, or part of a record, before.
Takes(s) ==
    /\ phase = "serving" /\ turn' = "read"
    /\ tasks # <<>> /\ s = Head(tasks) /\ tasks' = Tail(tasks)

HandleVoid(s) ==
    /\ Takes(s) /\ s \notin Live
    /\ UNCHANGED <<peerVars, reply, requestVars, phase, jobVars, running>>

HasRole(s) == role[s] = "RESPONDER"

\* messages.front() of an empty queue is undefined: nothing is said of what follows.
HandleNothing(s) ==
    /\ Takes(s) /\ s \in Live /\ HasRole(s) /\ mail[s] = <<>>
    /\ phase' = "undefined"
    /\ UNCHANGED <<peerVars, reply, requestVars, jobVars, running>>

\* The request takes its first message.
Handles(s, kinds) ==
    /\ Takes(s) /\ s \in Live /\ HasRole(s) /\ mail[s] # <<>>
    /\ Head(mail[s]).kind \in kinds
Pop(s) == mail' = [mail EXCEPT ![s] = Tail(@)]

\* The request only takes note of the record.
HandleQuiet(s) ==
    /\ \/ Handles(s, {"PARAMS"}) /\ state[s] = "PARAMS" /\ UNCHANGED state
       \/ Handles(s, {"PARAMS_END"}) /\ state[s] = "PARAMS" /\ state' = [state EXCEPT ![s] = "IN"]
       \/ Handles(s, {"IN"}) /\ state[s] = "IN" /\ UNCHANGED state
    /\ Pop(s)
    /\ UNCHANGED <<peerVars, reply, serial, role, step, phase, jobVars, running>>

\* response() is called: the input is complete, or a message of type 1 came.
Responds(s) ==
    \/ Handles(s, {"IN_END"}) /\ state[s] = "IN" /\ state' = [state EXCEPT ![s] = "OUT"]
    \/ Handles(s, {"DONE"}) /\ UNCHANGED state

\* handler() returned true: the map forgets the request, and with it its
\* messages and its HttpObject.
Erase(s) == serial' = [serial EXCEPT ![s] = None] /\ mail' = [mail EXCEPT ![s] = <<>>]

\* response_start() finds the page's HttpObject and adds its job.
HandleStart(s) ==
    /\ Responds(s) /\ step[s] = "Start"
    /\ Pop(s)
    /\ step' = [step EXCEPT ![s] = "Finish"]
    /\ Jobs!Submit([slot |-> s, n |-> serial[s]])
    /\ UNCHANGED <<peerVars, reply, serial, role, phase, running>>

\* complete(): END_REQUEST after the output.
Completes(s, status) ==
    /\ Erase(s)
    /\ reply' = [reply EXCEPT ![s] = Append(@, [status |-> status, n |-> serial[s]])]
    /\ UNCHANGED <<peerVars, role, step, phase, jobVars, running>>

\* Any other role than RESPONDER and AUTHORIZER ends at the first task, whose
\* message is not looked at.
HandleUnknownRole(s) ==
    /\ Takes(s) /\ s \in Live /\ ~HasRole(s)
    /\ Completes(s, "UNKNOWN_ROLE") /\ UNCHANGED state

\* A record that comes in another state than its own throws RecordsOutOfOrder.
HandleOutOfOrder(s) ==
    /\ \/ Handles(s, {"PARAMS", "PARAMS_END"}) /\ state[s] # "PARAMS"
       \/ Handles(s, {"IN", "IN_TOO_LONG", "IN_END"}) /\ state[s] # "IN"
    /\ Completes(s, "500") /\ UNCHANGED state

\* response_start() finds nothing or fails, or the POST cannot be parsed.
HandleRefused(s) ==
    /\ Responds(s) /\ step[s] = "Start"
    /\ \E status \in {"404", "500"} : Completes(s, status)

\* A mutant of HandleFinish: the answer is sent and the request stays.
HandleFinishKept(s) ==
    /\ Responds(s) /\ step[s] = "Finish"
    /\ Pop(s)
    /\ reply' = [reply EXCEPT ![s] = Append(@, [status |-> "page", n |-> serial[s]])]
    /\ UNCHANGED <<peerVars, serial, role, step, phase, jobVars, running>>

\* response_finish(): what http_object_ holds is the answer.
HandleFinish(s) ==
    /\ Responds(s) /\ step[s] = "Finish"
    /\ Completes(s, "page")

\* fillPostBuffer() has no room: bigPostErrorHandler().
HandleTooLong(s) ==
    /\ Handles(s, {"IN_TOO_LONG"}) /\ state[s] = "IN"
    /\ Completes(s, "413") /\ UNCHANGED state

\* A mutant of HandleAbort: ABORT_REQUEST is none of the cases of the switch.
HandleAbortIgnored(s) ==
    /\ Handles(s, {"ABORT"})
    /\ Pop(s)
    /\ UNCHANGED <<peerVars, reply, serial, role, state, step, phase, jobVars, running>>

\* ABORT_REQUEST: true, without complete().
HandleAbort(s) ==
    /\ Handles(s, {"ABORT"})
    /\ Erase(s)
    /\ UNCHANGED <<peerVars, reply, role, state, step, phase, jobVars, running>>

-----------------------------------------------------------------------------
(* The job thread *)

JobBegins ==
    /\ ~ended /\ ~jobRan /\ ~running /\ pending # <<>>
    /\ phase # "undefined"
    /\ running' = TRUE
    /\ UNCHANGED <<peerVars, reply, requestVars, turn, tasks, phase, jobVars>>

\* HttpObject::handle() returns: page or error text, it throws nothing.
JobEnds ==
    /\ running
    /\ Jobs!Perform /\ running' = FALSE
    /\ UNCHANGED <<peerVars, reply, requestVars, turn, tasks, phase>>

\* The completion handler: callback()(msg), that is push() of a message of
\* type 1; it is discarded when the request is gone.
JobCompletes ==
    /\ Jobs!Complete
    /\ LET job == Head(pending) IN
       IF job.slot \in Live
       THEN Deliver(job.slot, [kind |-> "DONE", n |-> job.n])
       ELSE UNCHANGED <<mail, tasks>>
    /\ UNCHANGED <<peerVars, reply, serial, role, state, step, turn, phase, running>>

JobThreadEnds ==
    /\ ~running /\ Jobs!End
    /\ ~ended
    /\ UNCHANGED <<peerVars, reply, requestVars, turn, tasks, phase, running>>

-----------------------------------------------------------------------------
(* The end of main() *)

\* fcgi.handler() returns.
Halt ==
    /\ phase = "serving" /\ phase' = "halted"
    /\ UNCHANGED <<peerVars, reply, requestVars, turn, tasks, jobVars, running>>

\* A mutant of StopJobs: main() does not stop the queue.
StopJobsForgotten ==
    /\ phase = "halted" /\ phase' = "stopped"
    /\ UNCHANGED <<peerVars, reply, requestVars, turn, tasks, jobVars, running>>

\* JobQueue::instance().stop()
StopJobs ==
    /\ phase = "halted" /\ phase' = "stopped"
    /\ Jobs!Stop
    /\ UNCHANGED <<peerVars, reply, requestVars, turn, tasks, running>>

\* A mutant of Exit: main() does not join the job thread.
ExitUnjoined ==
    /\ phase = "stopped" /\ phase' = "exited"
    /\ serial' = [s \in Slot |-> None] /\ mail' = [s \in Slot |-> <<>>]
    /\ UNCHANGED <<peerVars, reply, role, state, step, turn, tasks, jobVars, running>>

\* t.join(), then the manager goes out of scope with all its requests.
Exit ==
    /\ phase = "stopped" /\ ended /\ phase' = "exited"
    /\ serial' = [s \in Slot |-> None] /\ mail' = [s \in Slot |-> <<>>]
    /\ UNCHANGED <<peerVars, reply, role, state, step, turn, tasks, jobVars, running>>

-----------------------------------------------------------------------------
PeerStep(s) == PeerContinues(s) \/ PeerReads(s)
Receive(s) == ReceiveForRequest(s) \/ ReceiveBegin(s) \/ ReceiveStray(s)
Handle(s) ==
    \/ HandleVoid(s) \/ HandleNothing(s) \/ HandleQuiet(s) \/ HandleStart(s)
    \/ HandleUnknownRole(s) \/ HandleOutOfOrder(s) \/ HandleRefused(s) \/ HandleFinish(s)
    \/ HandleTooLong(s) \/ HandleAbort(s)
Loop == NoTask \/ \E s \in Slot : Receive(s) \/ Handle(s)
JobStep == JobBegins \/ JobEnds \/ JobCompletes \/ JobThreadEnds

Next ==
    \/ \E s \in Slot : PeerBegins(s) \/ PeerAborts(s) \/ PeerLate(s) \/ PeerStep(s)
    \/ Loop
    \/ JobStep
    \/ Halt \/ StopJobs \/ Exit

\* The web server finishes what it began, both threads run, and the threads
\* reach the end of main() once handler() returned.
Fairness ==
    /\ \A s \in Slot : WF_vars(PeerStep(s))
    /\ WF_vars(Loop)
    /\ WF_vars(JobStep)
    /\ WF_vars(StopJobs \/ Exit)

Spec == Init /\ [][Next]_vars
FairSpec == Spec /\ Fairness

-----------------------------------------------------------------------------
(* Properties *)

\* "The job may be done or not done, but not partially done": the HttpObject
\* a job works on, and the environment it refers to, which both go with the
\* request, exist from the job's first step to its last.
JobKeepsItsObject == running => serial[Head(pending).slot] = Head(pending).n

\* "The job may be done or not done": two things only take its object from a job,
\* an abort and a record that comes after the end of the input (which throws
\* RecordsOutOfOrder and so completes the request, whose job's completion then
\* drives the next request of the slot).  Nothing else that the web server sends
\* does, and nothing that main() does.
OnlyAbortTakesObject ==
    LET job == Head(pending) IN
    running /\ peer[job.slot] # "aborted" /\ "late" \notin strayed[job.slot] => serial[job.slot] = job.n

\* No message is left lying: a request in the map has a task for each of its
\* messages.  (It may have more: those of a request of the same FullId that
\* was erased before them, and these find no message.)
EveryMessageHasTask ==
    phase = "serving" => \A s \in Live : Len(mail[s]) <= Cardinality({i \in DOMAIN tasks : tasks[i] = s})

\* Nothing of another request, though it has the same FullId.  The messages in a
\* request's queue are its own, no record and no completed job of an earlier
\* one among them.  What is answered is the request the web server waits for in
\* that slot, once, and a page only after the job of that very request was
\* completed.  (Not so where a request went with its job undone, by a record
\* after its input: the completion is the next one's.)
AnswersAreOwn ==
    \A s \in Slot : "late" \notin strayed[s] =>
        /\ s \in Live => \A i \in DOMAIN mail[s] : mail[s][i].n = serial[s]
        /\ Len(reply[s]) <= 1
        /\ reply[s] # <<>> =>
            /\ reply[s][1].n = peerN[s] /\ s \notin Live
            /\ reply[s][1].status = "page" =>
                   Contains(completed, [slot |-> s, n |-> peerN[s]])

\* main() serves no more; or a request took a message of its empty queue, which
\* happens only after the web server aborted a request or sent one as it should
\* not: that one ended before its last message and left a task to the next.
Stops ==
    \/ phase \in {"halted", "stopped", "exited"}
    \/ phase = "undefined" /\ \E s \in Live : strayed[s] # {}

\* A request that is sent and not aborted is answered in the end, and an
\* aborted one leaves the map, wherever in its life the abort finds it, unless
\* the program Stops.  (So where all is sent as it should be, no request takes
\* a message of an empty queue.)
Answered ==
    \A s \in Slot :
        /\ (peer[s] = "waiting") ~> (peer[s] # "waiting" \/ Stops)
        /\ (peer[s] = "aborted") ~> (peer[s] # "aborted" \/ s \notin Live \/ Stops)

\* Once handler() has returned, main() returns: the job thread can be joined.
ExitsAfterHalt == (phase = "halted") ~> (phase = "exited")
=============================================================================
