------------------------------ MODULE Manager -------------------------------
(***************************************************************************)
(* The loop of the FastCGI thread: Manager<T>::handler() and push() of      *)
(* fastcgi++/manager.hpp, stop(), terminate() and the signal handler of     *)
(* manager.cpp, and of transceiver.cpp what decides whether the loop may    *)
(* sleep: poll(), the wake-up socket pair and the order in which ready      *)
(* descriptors are served.                                                  *)
(*                                                                          *)
(* Threads: "main" runs handler(); the job thread calls push() when a job   *)
(* of a request is done; stop() and terminate() run on a thread of their    *)
(* own or, as signal handlers, on top of one of the two, which stands still *)
(* until they return.  A mutex is held exactly at the program points listed *)
(* in the *MutexHeld predicates below.  What a request does with a message  *)
(* is left open here: Request::handler() returns either value.              *)
(***************************************************************************)
EXTENDS Naturals, Sequences

CONSTANTS
    Id,             \* Protocol::FullId of requests (a connection each)
    ManagerId,      \* the FullId with fcgiId 0: management records
    Contexts,       \* where stop() and terminate() run: "own", "main", "job"
    MaxCalls,       \* bound: calls of stop() and terminate()
    MaxUnread,      \* bound: chunks waiting on the connection of one request
    MaxManagement   \* bound: chunks of management records waiting

ASSUME ManagerAssumption ==
    /\ ManagerId \notin Id
    /\ Contexts \subseteq {"own", "main", "job"}
    /\ MaxCalls \in Nat /\ MaxUnread \in Nat /\ MaxManagement \in Nat

Source == Id \cup {ManagerId}

VARIABLES
    pc,             \* where main is in handler()
    sleep,          \* what transceiver.handler() returned (local to a turn of the loop)
    id,             \* the task taken (local to a turn of the loop)
    requests,       \* keys of requests
    tasks,          \* the queue tasks
    asleep, stopBool, terminateBool,
    out,            \* the transceiver's buffer holds unsent output
    wakeBytes,      \* bytes in the wake-up socket pair
    backlog,        \* connections to accept; their first record is a BEGIN
    connected,      \* connections in pollFds
    unread,         \* chunks the peer sent on each connection, not yet read
    hangups,        \* connections closed by the peer, POLLHUP not yet seen
    started,        \* requests whose response() has added a job (state_ left Start)
    jobs,           \* requests with a job that will call push()
    jobAt,          \* where the job thread is in push()
    call,           \* where stop() or terminate() is
    kind, on,       \* which of the two, and the thread it runs on
    calls,          \* calls made so far (for the bound MaxCalls)
    called,         \* history: requests a job called push() for, until they are handled
    missed          \* history: the kinds called past their check, before sleep

network == <<backlog, connected, unread, hangups>>
flags == <<stopBool, terminateBool>>
jobVars == <<started, jobs, jobAt, called>>
callVars == <<call, kind, on, calls, missed>>
vars == <<pc, sleep, id, requests, tasks, asleep, stopBool, terminateBool, out, wakeBytes,
          backlog, connected, unread, hangups, started, jobs, jobAt, called, call, kind, on, calls,
          missed>>

Kind == {"stop", "terminate"}
MainPC == {"stopLock", "stopHeld", "transceive", "push", "notifyLock",
           "notifyHeld", "termLock", "termHeld", "tasksLock", "sleepLock", "bothHeld",
           "poll", "wakenLock", "wakenHeld", "handle", "halted", "crashed"}
JobPC == {"idle", "notifyLock", "notifyHeld"}
CallPC == {"idle", "outer", "inner", "body"}

Init ==
    /\ pc = "stopLock" /\ sleep = FALSE /\ id = ManagerId
    /\ requests = {} /\ tasks = <<>>
    /\ asleep = FALSE /\ stopBool = FALSE /\ terminateBool = FALSE
    /\ out = FALSE /\ wakeBytes = 0
    /\ backlog = {} /\ connected = {} /\ hangups = {} /\ unread = [s \in Source |-> 0]
    /\ started = {} /\ jobs = {} /\ jobAt = "idle" /\ called = {}
    /\ call = "idle" /\ kind = "stop" /\ on = "own" /\ calls = 0
    /\ missed = {}

-----------------------------------------------------------------------------
(* Mutexes, and threads under a signal handler *)

StopMutexHeld == pc = "stopHeld" \/ (kind = "stop" /\ call \in {"inner", "body"})
TermMutexHeld == pc = "termHeld" \/ (kind = "terminate" /\ call \in {"inner", "body"})
SleepMutexHeld ==
    \/ pc \in {"notifyHeld", "bothHeld", "wakenHeld"}
    \/ jobAt = "notifyHeld"
    \/ call = "body"
TasksMutexHeld == pc \in {"sleepLock", "bothHeld"}

Interrupted(thread) == call # "idle" /\ on = thread

\* transceiver.wake(): one byte into the socket pair.
WakeIf(condition) == wakeBytes' = IF condition THEN wakeBytes + 1 ELSE wakeBytes

-----------------------------------------------------------------------------
(* handler(): the steps of main, between which it goes from "pc" to "pc" *)

Goto(from, to) == pc = from /\ pc' = to /\ ~Interrupted("main")

\* A turn of while (1) ends: sleep and id go out of scope.
EndTurn == sleep' = FALSE /\ id' = ManagerId

LockStop ==
    /\ Goto("stopLock", "stopHeld") /\ ~StopMutexHeld
    /\ UNCHANGED <<sleep, id, requests, tasks, asleep, flags, out, wakeBytes, network, jobVars, callVars>>

\* A mutant of CheckStop: the flag is tested and never acted upon.
CheckStopIgnored ==
    /\ Goto("stopHeld", "transceive")
    /\ UNCHANGED <<sleep, id, requests, tasks, asleep, flags, out, wakeBytes, network, jobVars, callVars>>

CheckStop ==
    /\ \/ stopBool /\ stopBool' = FALSE /\ Goto("stopHeld", "halted")
       \/ ~stopBool /\ UNCHANGED stopBool /\ Goto("stopHeld", "transceive")
    /\ UNCHANGED <<sleep, id, requests, tasks, asleep, terminateBool, out, wakeBytes, network, jobVars, callVars>>

(* transceiver.handler(): transmit() first, then at most one ready descriptor:
   the listening socket before the wake-up socket before the connections.   *)

\* transmit(): a write cut short leaves output behind; returns buffer.empty().
Transmit == out' \in {FALSE, out}

NothingReady ==
    /\ backlog = {} /\ wakeBytes = 0 /\ hangups = {}
    /\ \A s \in connected \cup {ManagerId} : unread[s] = 0

TransceiveNothing ==
    /\ Goto("transceive", "termLock")
    /\ NothingReady
    /\ Transmit /\ sleep' = ~out'
    /\ UNCHANGED <<id, requests, tasks, asleep, flags, wakeBytes, network, jobVars, callVars>>

TransceiveWake ==
    /\ Goto("transceive", "termLock")
    /\ backlog = {} /\ wakeBytes > 0
    /\ wakeBytes' = wakeBytes - 1
    /\ Transmit /\ sleep' = FALSE
    /\ UNCHANGED <<id, requests, tasks, asleep, flags, network, jobVars, callVars>>

\* accept(): the first record is read in the same call, and push() makes a
\* request of it.
TransceiveAccept ==
    /\ Goto("transceive", "notifyLock")
    /\ \E i \in backlog :
        /\ backlog' = backlog \ {i} /\ connected' = connected \cup {i}
        /\ requests' = requests \cup {i}
    /\ Transmit /\ sleep' = FALSE
    /\ UNCHANGED <<id, tasks, asleep, flags, wakeBytes, unread, hangups, jobVars, callVars>>

Readable(s) ==
    /\ backlog = {} /\ wakeBytes = 0
    /\ unread[s] > 0
    /\ s \in (connected \ hangups) \cup {ManagerId}

\* The chunk completes a record for a request: push(), under the mutex of tasks.
TransceiveRecord ==
    /\ Goto("transceive", "notifyLock")
    /\ \E s \in requests :
        /\ Readable(s)
        /\ unread' = [unread EXCEPT ![s] = @ - 1]
        /\ tasks' = Append(tasks, s)
    /\ Transmit /\ sleep' = FALSE
    /\ UNCHANGED <<id, requests, asleep, flags, wakeBytes, backlog, connected, hangups, jobVars, callVars>>

\* The chunk completes a record for the manager: push(), which takes no mutex here.
TransceiveManagement ==
    /\ Goto("transceive", "push")
    /\ Readable(ManagerId)
    /\ unread' = [unread EXCEPT ![ManagerId] = @ - 1]
    /\ Transmit /\ sleep' = FALSE
    /\ UNCHANGED <<id, requests, tasks, asleep, flags, wakeBytes, backlog, connected, hangups, jobVars, callVars>>

PushUnlocked ==
    /\ Goto("push", "notifyLock")
    /\ tasks' = Append(tasks, ManagerId)
    /\ UNCHANGED <<sleep, id, requests, asleep, flags, out, wakeBytes, network, jobVars, callVars>>

\* push() of a record whose request is gone returns before it wakes anyone.
TransceiveDiscard ==
    /\ Goto("transceive", "termLock")
    /\ \E s \in Id \ requests :
        /\ Readable(s)
        /\ unread' = [unread EXCEPT ![s] = @ - 1]
    /\ Transmit /\ sleep' = FALSE
    /\ UNCHANGED <<id, requests, tasks, asleep, flags, wakeBytes, backlog, connected, hangups, jobVars, callVars>>

\* The chunk leaves its record incomplete.
TransceivePartial ==
    /\ Goto("transceive", "termLock")
    /\ \E s \in Source :
        /\ Readable(s)
        /\ unread' = [unread EXCEPT ![s] = @ - 1]
    /\ Transmit /\ sleep' = ~out'
    /\ UNCHANGED <<id, requests, tasks, asleep, flags, wakeBytes, backlog, connected, hangups, jobVars, callVars>>

\* POLLHUP, which is looked at before POLLIN: the descriptor is forgotten, with what
\* was unread (Hangup); its request stays.
TransceiveHangup ==
    /\ Goto("transceive", "termLock")
    /\ backlog = {} /\ wakeBytes = 0
    /\ \E s \in hangups :
        hangups' = hangups \ {s} /\ connected' = connected \ {s}
    /\ Transmit /\ sleep' = FALSE
    /\ UNCHANGED <<id, requests, tasks, asleep, flags, wakeBytes, backlog, unread, jobVars, callVars>>

\* The end of push() on main's own thread.
LockNotify ==
    /\ Goto("notifyLock", "notifyHeld") /\ ~SleepMutexHeld
    /\ UNCHANGED <<sleep, id, requests, tasks, asleep, flags, out, wakeBytes, network, jobVars, callVars>>

NotifySelf ==
    /\ Goto("notifyHeld", "termLock")
    /\ WakeIf(asleep)
    /\ UNCHANGED <<sleep, id, requests, tasks, asleep, flags, out, network, jobVars, callVars>>

LockTerm ==
    /\ Goto("termLock", "termHeld") /\ ~TermMutexHeld
    /\ UNCHANGED <<sleep, id, requests, tasks, asleep, flags, out, wakeBytes, network, jobVars, callVars>>

MayTerminate == terminateBool /\ requests = {} /\ sleep

\* A mutant of CheckTerminate: it does not ask whether the transceiver is idle.
CheckTerminateBusy ==
    /\ \/ terminateBool /\ requests = {} /\ terminateBool' = FALSE /\ Goto("termHeld", "halted")
       \/ ~(terminateBool /\ requests = {}) /\ UNCHANGED terminateBool /\ Goto("termHeld", "tasksLock")
    /\ UNCHANGED <<sleep, id, requests, tasks, asleep, stopBool, out, wakeBytes, network, jobVars, callVars>>

CheckTerminate ==
    /\ \/ MayTerminate /\ terminateBool' = FALSE /\ Goto("termHeld", "halted")
       \/ ~MayTerminate /\ UNCHANGED terminateBool /\ Goto("termHeld", "tasksLock")
    /\ UNCHANGED <<sleep, id, requests, tasks, asleep, stopBool, out, wakeBytes, network, jobVars, callVars>>

LockTasks ==
    /\ Goto("tasksLock", "sleepLock") /\ ~TasksMutexHeld
    /\ UNCHANGED <<sleep, id, requests, tasks, asleep, flags, out, wakeBytes, network, jobVars, callVars>>

LockSleep ==
    /\ Goto("sleepLock", "bothHeld") /\ ~SleepMutexHeld
    /\ UNCHANGED <<sleep, id, requests, tasks, asleep, flags, out, wakeBytes, network, jobVars, callVars>>

\* A mutant of FallAsleep: tasks is not looked at again under its mutex.
FallAsleepAnyway ==
    /\ Goto("bothHeld", IF sleep THEN "poll" ELSE "wakenLock")
    /\ asleep' = TRUE
    /\ UNCHANGED <<sleep, id, requests, tasks, flags, out, wakeBytes, network, jobVars, callVars>>

\* A mutant of FallAsleep: nobody is told that main sleeps.
FallAsleepUnmarked ==
    /\ tasks = <<>>
    /\ Goto("bothHeld", IF sleep THEN "poll" ELSE "wakenLock")
    /\ UNCHANGED <<sleep, id, requests, tasks, asleep, flags, out, wakeBytes, network, jobVars, callVars>>

\* Nothing to do: asleep is set under sleepMutex, poll(-1) comes after.
FallAsleep ==
    /\ tasks = <<>>
    /\ Goto("bothHeld", IF sleep THEN "poll" ELSE "wakenLock")
    /\ asleep' = TRUE
    /\ UNCHANGED <<sleep, id, requests, tasks, flags, out, wakeBytes, network, jobVars, callVars>>

TakeTask ==
    /\ tasks # <<>>
    /\ Goto("bothHeld", "handle")
    /\ id' = Head(tasks) /\ tasks' = Tail(tasks)
    /\ UNCHANGED <<sleep, requests, asleep, flags, out, wakeBytes, network, jobVars, callVars>>

\* transceiver.sleep(): poll() without timeout returns once a descriptor is ready.
Poll ==
    /\ Goto("poll", "wakenLock") /\ ~NothingReady
    /\ UNCHANGED <<sleep, id, requests, tasks, asleep, flags, out, wakeBytes, network, jobVars, callVars>>

LockWaken ==
    /\ Goto("wakenLock", "wakenHeld") /\ ~SleepMutexHeld
    /\ UNCHANGED <<sleep, id, requests, tasks, asleep, flags, out, wakeBytes, network, jobVars, callVars>>

Waken ==
    /\ Goto("wakenHeld", "stopLock")
    /\ asleep' = FALSE
    /\ EndTurn
    /\ UNCHANGED <<requests, tasks, flags, out, wakeBytes, network, jobVars, callVars>>

\* localHandler() writes a reply.
HandleLocal ==
    /\ Goto("handle", "stopLock") /\ EndTurn
    /\ id = ManagerId
    /\ out' \in {out, TRUE}
    /\ UNCHANGED <<requests, tasks, asleep, flags, wakeBytes, network, jobVars, callVars>>

\* The task of a request that is gone is void.
HandleVoid ==
    /\ Goto("handle", "stopLock") /\ EndTurn
    /\ id \in Id \ requests
    /\ UNCHANGED <<requests, tasks, asleep, flags, out, wakeBytes, network, jobVars, callVars>>

\* Request::handler() returns false; its first response() may have added a job.
HandleMore ==
    /\ Goto("handle", "stopLock") /\ EndTurn
    /\ id \in requests
    /\ \/ UNCHANGED <<started, jobs>>
       \/ id \notin started /\ started' = started \cup {id} /\ jobs' = jobs \cup {id}
    /\ out' \in {out, TRUE}
    /\ called' = called \ {id}
    /\ UNCHANGED <<requests, tasks, asleep, flags, wakeBytes, network, jobAt, callVars>>

\* Request::handler() returns true: the request is erased.  Its last frame
\* may close the connection (freeFd), which is done with the request here.
HandleLast ==
    /\ Goto("handle", "stopLock") /\ EndTurn
    /\ id \in requests
    /\ requests' = requests \ {id}
    /\ out' \in {out, TRUE}
    /\ \/ UNCHANGED network
       \/ /\ connected' = connected \ {id} /\ hangups' = hangups \ {id}
          /\ unread' = [unread EXCEPT ![id] = 0]
          /\ UNCHANGED backlog
    /\ started' = started \ {id} /\ called' = called \ {id}
    /\ UNCHANGED <<tasks, asleep, flags, wakeBytes, jobs, jobAt, callVars>>

Handle == HandleLocal \/ HandleVoid \/ HandleMore \/ HandleLast

-----------------------------------------------------------------------------
(* push() on the job thread: a message of type 1 for the job's request *)

JobPush ==
    /\ ~Interrupted("job") /\ jobAt = "idle" /\ ~TasksMutexHeld
    /\ \E i \in jobs :
        /\ jobs' = jobs \ {i}
        /\ IF i \in requests
           THEN tasks' = Append(tasks, i) /\ called' = called \cup {i}
           ELSE UNCHANGED <<tasks, called>>
    /\ jobAt' = "notifyLock"
    /\ UNCHANGED <<pc, sleep, id, requests, asleep, flags, out, wakeBytes, network, started, callVars>>

\* The same while main is in its push without a mutex: the two write one slot of
\* the queue and count it once, or twice, with the next slot as it was.
PushesMeet ==
    /\ ~Interrupted("job") /\ jobAt = "idle" /\ Goto("push", "notifyLock")
    /\ \E i \in jobs \cap requests :
        /\ jobs' = jobs \ {i}
        /\ \E s \in {i, ManagerId}, garbage \in Source :
               tasks' \in {Append(tasks, s), Append(Append(tasks, s), garbage)}
    /\ jobAt' = "notifyLock"
    /\ UNCHANGED <<sleep, id, requests, asleep, flags, out, wakeBytes, network, started, called, callVars>>

JobLock ==
    /\ ~Interrupted("job") /\ jobAt = "notifyLock" /\ ~SleepMutexHeld
    /\ jobAt' = "notifyHeld"
    /\ UNCHANGED <<pc, sleep, id, requests, tasks, asleep, flags, out, wakeBytes, network, started, jobs, called, callVars>>

JobNotify ==
    /\ ~Interrupted("job") /\ jobAt = "notifyHeld"
    /\ WakeIf(asleep)
    /\ jobAt' = "idle"
    /\ UNCHANGED <<pc, sleep, id, requests, tasks, asleep, flags, out, network, started, jobs, called, callVars>>

-----------------------------------------------------------------------------
(* stop() and terminate() *)

\* A call from another thread, or a SIGTERM or SIGUSR1 that "on" receives.
Call ==
    /\ call = "idle" /\ calls < MaxCalls
    /\ pc \notin {"halted", "crashed"}
    /\ kind' \in Kind /\ on' \in Contexts
    /\ call' = "outer" /\ calls' = calls + 1
    /\ UNCHANGED <<pc, sleep, id, requests, tasks, asleep, flags, out, wakeBytes, network, jobVars, missed>>

LockOuter ==
    /\ call = "outer"
    /\ IF kind = "stop" THEN ~StopMutexHeld ELSE ~TermMutexHeld
    /\ call' = "inner"
    /\ UNCHANGED <<pc, sleep, id, requests, tasks, asleep, flags, out, wakeBytes, network, jobVars, kind, on, calls, missed>>

LockInner ==
    /\ call = "inner" /\ ~SleepMutexHeld
    /\ call' = "body"
    /\ UNCHANGED <<pc, sleep, id, requests, tasks, asleep, flags, out, wakeBytes, network, jobVars, kind, on, calls, missed>>

\* The flag is set after handler() looked at it and before asleep tells the
\* setter that main is going to sleep.
PastCheck(k) ==
    /\ ~asleep
    /\ \/ pc \in {"tasksLock", "sleepLock", "bothHeld"}
       \/ k = "stop" /\ pc \in {"transceive", "push", "notifyLock", "notifyHeld", "termLock", "termHeld"}

\* A system call of main that the signal interrupts ends with EINTR: poll(-1)
\* just returns, poll(0) and read() make transceiver.handler() throw.
AfterSignal(thread) ==
    IF thread # "main" THEN {pc}
    ELSE CASE pc = "poll"       -> {"wakenLock"}
           [] pc = "transceive" -> {"transceive", "crashed"}
           [] OTHER             -> {pc}

EndCall == call' = "idle" /\ kind' = "stop" /\ on' = "own"

\* A mutant of Body: asleep is cleared without a wake-up.
BodyForgetsByte ==
    /\ call = "body"
    /\ EndCall
    /\ stopBool' = (stopBool \/ kind = "stop")
    /\ terminateBool' = (terminateBool \/ kind = "terminate")
    /\ asleep' = FALSE
    /\ missed' = IF PastCheck(kind) THEN missed \cup {kind} ELSE missed
    /\ pc' \in AfterSignal(on)
    /\ UNCHANGED <<sleep, id, requests, tasks, out, wakeBytes, network, jobVars, calls>>

Body ==
    /\ call = "body"
    /\ EndCall
    /\ stopBool' = (stopBool \/ kind = "stop")
    /\ terminateBool' = (terminateBool \/ kind = "terminate")
    /\ WakeIf(asleep) /\ asleep' = FALSE
    /\ missed' = IF PastCheck(kind) THEN missed \cup {kind} ELSE missed
    /\ pc' \in AfterSignal(on)
    /\ UNCHANGED <<sleep, id, requests, tasks, out, network, jobVars, calls>>

-----------------------------------------------------------------------------
(* The web server at the other end of the connections *)

\* The FullId of a new connection is free: its descriptor is open nowhere else.
Connect ==
    /\ \E i \in Id \ (backlog \cup connected \cup requests) : backlog' = backlog \cup {i}
    /\ UNCHANGED <<pc, sleep, id, requests, tasks, asleep, flags, out, wakeBytes,
                   connected, unread, hangups, jobVars, callVars>>

Send ==
    /\ \E s \in (backlog \cup connected \cup {ManagerId}) \ hangups :
        /\ unread[s] < IF s = ManagerId THEN MaxManagement ELSE MaxUnread
        /\ unread' = [unread EXCEPT ![s] = @ + 1]
    /\ UNCHANGED <<pc, sleep, id, requests, tasks, asleep, flags, out, wakeBytes,
                   backlog, connected, hangups, jobVars, callVars>>

Hangup ==
    /\ \E i \in connected \ hangups :
        hangups' = hangups \cup {i} /\ unread' = [unread EXCEPT ![i] = 0]
    /\ UNCHANGED <<pc, sleep, id, requests, tasks, asleep, flags, out, wakeBytes,
                   backlog, connected, jobVars, callVars>>

-----------------------------------------------------------------------------
Transceive ==
    \/ TransceiveNothing \/ TransceiveWake \/ TransceiveAccept \/ TransceiveRecord
    \/ TransceiveManagement \/ TransceiveDiscard \/ TransceivePartial \/ TransceiveHangup

MainStep ==
    \/ LockStop \/ CheckStop
    \/ Transceive \/ PushUnlocked
    \/ LockNotify \/ NotifySelf
    \/ LockTerm \/ CheckTerminate
    \/ LockTasks \/ LockSleep \/ FallAsleep \/ TakeTask
    \/ Poll \/ LockWaken \/ Waken
    \/ Handle

JobStep == JobPush \/ PushesMeet \/ JobLock \/ JobNotify
CallStep == LockOuter \/ LockInner \/ Body
Peer == Connect \/ Send \/ Hangup

Next == MainStep \/ JobStep \/ CallStep \/ Call \/ Peer

\* Threads that can run do run, and a thread that keeps asking for a mutex
\* others take and release gets it.  The peer and the operator owe nothing,
\* and the peer may be slow to read what is written to it.
Fairness ==
    /\ WF_vars(MainStep)
    /\ SF_vars(JobStep) /\ SF_vars(CallStep)

Spec == Init /\ [][Next]_vars
FairSpec == Spec /\ Fairness

-----------------------------------------------------------------------------
(* Properties *)

\* The members of Manager and Transceiver and the locals of handler() have their types.
TypeOK ==
    /\ pc \in MainPC /\ sleep \in BOOLEAN /\ id \in Source
    /\ requests \subseteq Id /\ tasks \in Seq(Source)
    /\ asleep \in BOOLEAN /\ stopBool \in BOOLEAN /\ terminateBool \in BOOLEAN
    /\ out \in BOOLEAN /\ wakeBytes \in Nat
    /\ backlog \subseteq Id /\ connected \subseteq Id /\ hangups \subseteq connected
    /\ unread \in [Source -> Nat]
    /\ started \subseteq requests /\ jobs \subseteq Id /\ jobAt \in JobPC /\ called \subseteq requests
    /\ call \in CallPC /\ kind \in Kind /\ on \in Contexts \cup {"own"}
    /\ calls \in 0..MaxCalls /\ missed \subseteq Kind

\* Two program points that hold sleepMutex, stopMutex or terminateMutex are
\* never reached by two threads at once.
MutexOK ==
    /\ ~(pc \in {"notifyHeld", "bothHeld", "wakenHeld"} /\ jobAt = "notifyHeld")
    /\ call = "body" => /\ pc \notin {"notifyHeld", "bothHeld", "wakenHeld"}
                        /\ jobAt # "notifyHeld"
    /\ pc = "stopHeld" => ~(kind = "stop" /\ call \in {"inner", "body"})
    /\ pc = "termHeld" => ~(kind = "terminate" /\ call \in {"inner", "body"})

Queued(i) == \E k \in DOMAIN tasks : tasks[k] = i

\* No task is slept on.  While main is in poll() without a timeout and a task
\* is queued, a wake-up byte is on its way: it is in the socket, or the job
\* thread that queued the task has yet to look at asleep and will find it set.
\* Nor is a task lost: a request whose job called push() is in the queue or in
\* main's hand until it is handled, unless that push() met the one main makes
\* without the mutex, for a management record (manager.hpp:285).
NoTaskSlept ==
    /\ pc = "poll" => \/ wakeBytes > 0
                      \/ asleep /\ (tasks = <<>> \/ jobAt # "idle")
    /\ \A i \in called : Queued(i) \/ (pc = "handle" /\ id = i)

\* The only calls of stop() and terminate() a sleeping main does not know of
\* are those that came between its check of the flag and its falling asleep.
OnlyLateCallsSlept ==
    pc = "poll" /\ wakeBytes = 0 =>
        /\ stopBool => "stop" \in missed
        /\ terminateBool /\ requests = {} => "terminate" \in missed

\* "handler() will wait until all requests are complete before halting": on
\* terminate it leaves when no request is left and all they wrote was sent.
TerminateDrains ==
    [][pc = "termHeld" /\ pc' = "halted" => requests = {} /\ ~out]_vars

\* A signal handler waits for a mutex of the thread it runs on.
SelfDeadlock ==
    \/ /\ on = "main"
       /\ \/ call = "outer" /\ pc = (IF kind = "stop" THEN "stopHeld" ELSE "termHeld")
          \/ call = "inner" /\ pc \in {"notifyHeld", "bothHeld", "wakenHeld"}
    \/ on = "job" /\ call = "inner" /\ jobAt = "notifyHeld"
NoSelfDeadlock == ~SelfDeadlock

\* handler() was left, by return or by exception, or is stuck under a signal.
Over == pc \in {"halted", "crashed"} \/ SelfDeadlock

\* The task at the head of the queue is taken and handled, and so each in its
\* turn, whoever queued it and however the wake-ups fall, as long as the loop runs.
TasksHandled == (tasks # <<>>) ~> (pc = "handle" \/ Over)

\* A stop() that is not missed halts handler(), awake or asleep; so does a
\* terminate(), once no request is left, all is sent and nothing arrives.
HaltsUnlessMissed ==
    /\ stopBool ~> (Over \/ "stop" \in missed)
    /\ <>[](terminateBool /\ requests = {} /\ ~out /\ NothingReady) => <>(Over \/ "terminate" \in missed)
=============================================================================
