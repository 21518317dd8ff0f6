------------------------------ MODULE JobQueue ------------------------------
(***************************************************************************)
(* src/src/jobqueue.cpp: the queue between the FastCGI thread and the job   *)
(* thread.  Caller threads run add() and stop(); one thread runs run().     *)
(* guard_ is a mutex (its owner), signal_ a condition variable (the runner  *)
(* is in its wait set exactly when pc = "waiting").  run() takes the whole  *)
(* queue as a batch, so between two batches, and only there, it sees stop_. *)
(***************************************************************************)
EXTENDS Naturals, Sequences, FiniteSets

CONSTANTS
    Job,            \* each value names one call of add(job, on_complete)
    Caller,         \* threads that call add() and stop()
    Runner,         \* the thread inside run()
    Nobody          \* the owner of a free mutex

ASSUME ThreadsDiffer == Runner \notin Caller /\ Nobody \notin Caller \cup {Runner}

VARIABLES
    queue,          \* queue_
    stop,           \* stop_
    guard,          \* owner of guard_
    call,           \* where each caller is in add() or stop()
    pc,             \* where the runner is in run()
    batch,          \* the items of jobs that are still to be executed
    submitted,      \* history: the jobs in the order add() pushed them
    completed       \* history: the jobs whose completion handlers have run

callerVars == <<call, submitted>>
runnerVars == <<pc, batch, completed>>
vars == <<queue, stop, guard, call, pc, batch, submitted, completed>>

RunnerPC == {"lock", "test", "waiting", "items", "completion", "ended"}
CallerPC == {"outside", "addLock", "push", "addNotify",
             "stopLock", "set", "stopNotify", "returned"}

\* The constructor; run() is entered.
Init ==
    /\ queue = <<>> /\ stop = FALSE /\ guard = Nobody
    /\ call = [t \in Caller |-> "outside"]
    /\ pc = "lock" /\ batch = <<>>
    /\ submitted = <<>> /\ completed = <<>>

-----------------------------------------------------------------------------
(* The callers *)

\* Bound of the model: every call of add() that begins finds an unused Job.
JobsLeft ==
    Len(submitted) + Cardinality({t \in Caller : call[t] \in {"addLock", "push"}})
        < Cardinality(Job)

CallAdd(t) ==
    /\ call[t] = "outside" /\ JobsLeft
    /\ call' = [call EXCEPT ![t] = "addLock"]
    /\ UNCHANGED <<queue, stop, guard, runnerVars, submitted>>

CallStop(t) ==
    /\ call[t] = "outside"
    /\ call' = [call EXCEPT ![t] = "stopLock"]
    /\ UNCHANGED <<queue, stop, guard, runnerVars, submitted>>

\* The unique_lock at the head of both functions.
CallerLock(t) ==
    /\ guard = Nobody
    /\ guard' = t
    /\ \/ /\ call[t] = "addLock"
          /\ call' = [call EXCEPT ![t] = "push"]
       \/ /\ call[t] = "stopLock"
          /\ call' = [call EXCEPT ![t] = "set"]
    /\ UNCHANGED <<queue, stop, runnerVars, submitted>>

\* push_back of the pair; a Job value names one pair, so it is pushed once.
Push(t, j) ==
    /\ call[t] = "push"
    /\ \A i \in DOMAIN submitted : submitted[i] # j
    /\ queue' = Append(queue, j)
    /\ submitted' = Append(submitted, j)
    /\ call' = [call EXCEPT ![t] = "addNotify"]
    /\ UNCHANGED <<stop, guard, runnerVars>>

SetStop(t) ==
    /\ call[t] = "set"
    /\ stop' = TRUE
    /\ call' = [call EXCEPT ![t] = "stopNotify"]
    /\ UNCHANGED <<queue, guard, runnerVars, submitted>>

\* A mutant of NotifyAll: the signal is never sent.
NotifyAllForgotten == pc' = pc

\* signal_.notify_all(): a runner in the wait set now competes for the mutex.
NotifyAll == pc' = IF pc = "waiting" THEN "lock" ELSE pc

\* The last statement of add() and the destructor of its lock.
AddNotify(t) ==
    /\ call[t] = "addNotify"
    /\ NotifyAll
    /\ guard' = Nobody
    /\ call' = [call EXCEPT ![t] = "outside"]
    /\ UNCHANGED <<queue, stop, batch, completed, submitted>>

\* A mutant of StopNotify: stop() forgets the signal.
StopSilently(t) ==
    /\ call[t] = "stopNotify"
    /\ guard' = Nobody
    /\ call' = [call EXCEPT ![t] = "returned"]
    /\ UNCHANGED <<queue, stop, pc, batch, completed, submitted>>

\* The same of stop(); the thread that stops the queue makes no further call
\* (main() joins the runner next and returns).
StopNotify(t) ==
    /\ call[t] = "stopNotify"
    /\ NotifyAll
    /\ guard' = Nobody
    /\ call' = [call EXCEPT ![t] = "returned"]
    /\ UNCHANGED <<queue, stop, batch, completed, submitted>>

-----------------------------------------------------------------------------
(* run() *)

RunLock ==
    /\ pc = "lock" /\ guard = Nobody
    /\ guard' = Runner
    /\ pc' = "test"
    /\ UNCHANGED <<queue, stop, callerVars, batch, completed>>

\* while (!stop_ && queue_.empty()) signal_.wait(lock): wait releases the
\* mutex and joins the wait set in one step.
Wait ==
    /\ pc = "test" /\ ~stop /\ queue = <<>>
    /\ pc' = "waiting"
    /\ guard' = Nobody
    /\ UNCHANGED <<queue, stop, callerVars, batch, completed>>

\* Condition variables may wake without a notification; the while tests again.
SpuriousWakeup ==
    /\ pc = "waiting"
    /\ pc' = "lock"
    /\ UNCHANGED <<queue, stop, guard, callerVars, batch, completed>>

\* if (stop_) break, whatever the queue holds; run() returns.
Break ==
    /\ pc = "test" /\ stop
    /\ pc' = "ended"
    /\ guard' = Nobody
    /\ UNCHANGED <<queue, stop, callerVars, batch, completed>>

\* A mutant of Swap: the queue is copied and not emptied.
SwapByCopy ==
    /\ pc = "test" /\ ~stop /\ queue # <<>>
    /\ batch' = queue
    /\ pc' = "items"
    /\ guard' = Nobody
    /\ UNCHANGED <<queue, stop, callerVars, completed>>

\* jobs.swap(queue_), and the end of the locked block.
Swap ==
    /\ pc = "test" /\ ~stop /\ queue # <<>>
    /\ batch' = queue
    /\ queue' = <<>>
    /\ pc' = "items"
    /\ guard' = Nobody
    /\ UNCHANGED <<stop, callerVars, completed>>

\* item.first(): returns or throws, the catch block makes both the same.
RunJob ==
    /\ pc = "items" /\ batch # <<>>
    /\ pc' = "completion"
    /\ UNCHANGED <<queue, stop, guard, callerVars, batch, completed>>

\* A mutant of RunCompletion: the handlers' order is that of the batch's end.
RunCompletionReversed ==
    /\ pc = "completion"
    /\ completed' = Append(completed, batch[Len(batch)])
    /\ batch' = SubSeq(batch, 1, Len(batch) - 1)
    /\ pc' = "items"
    /\ UNCHANGED <<queue, stop, guard, callerVars>>

\* item.second(), and the step to the next item.
RunCompletion ==
    /\ pc = "completion"
    /\ completed' = Append(completed, Head(batch))
    /\ batch' = Tail(batch)
    /\ pc' = "items"
    /\ UNCHANGED <<queue, stop, guard, callerVars>>

\* jobs.clear() and the next turn of while (true), which looks at stop_ again.
BatchDone ==
    /\ pc = "items" /\ batch = <<>>
    /\ pc' = "lock"
    /\ UNCHANGED <<queue, stop, guard, callerVars, batch, completed>>

-----------------------------------------------------------------------------
CallerStep(t) ==
    \/ CallerLock(t)
    \/ \E j \in Job : Push(t, j)
    \/ SetStop(t)
    \/ AddNotify(t)
    \/ StopNotify(t)

RunnerStep ==
    \/ RunLock \/ Wait \/ Break \/ Swap
    \/ RunJob \/ RunCompletion \/ BatchDone

Next ==
    \/ \E t \in Caller : CallerStep(t) \/ CallStop(t) \/ CallAdd(t)
    \/ RunnerStep
    \/ SpuriousWakeup

\* Threads that can run do run, and the mutex is passed to every thread that
\* keeps asking for it.  Nobody is obliged to call add() or stop(), and the
\* condition variable is not obliged to wake anyone without a notification.
Fairness ==
    /\ WF_vars(RunnerStep) /\ SF_vars(RunLock)
    /\ \A t \in Caller : WF_vars(CallerStep(t)) /\ SF_vars(CallerLock(t))

Spec == Init /\ [][Next]_vars
FairSpec == Spec /\ Fairness

-----------------------------------------------------------------------------
(* Properties *)

\* The variables have the types of the members of JobQueue and of run()'s locals.
TypeOK ==
    /\ queue \in Seq(Job) /\ batch \in Seq(Job)
    /\ submitted \in Seq(Job) /\ completed \in Seq(Job)
    /\ stop \in BOOLEAN
    /\ guard \in Caller \cup {Runner, Nobody}
    /\ call \in [Caller -> CallerPC]
    /\ pc \in RunnerPC

\* Every pair given to add() is completed, in the batch, or still queued: none
\* is lost or executed twice, and all leave in the order they came in,
\* whatever the interleaving of push_back with the swap.
Conserved == submitted = completed \o batch \o queue

\* A thread between its lock and unlock owns guard_; so do no two threads.
Holds(t) == call[t] \in {"push", "addNotify", "set", "stopNotify"}
MutexOK ==
    /\ \A t \in Caller : Holds(t) <=> guard = t
    /\ pc = "test" <=> guard = Runner

\* No lost wakeup: while the runner sleeps on signal_ there is nothing to do,
\* or the thread that changed that holds the mutex and has yet to notify.
NoLostWakeup ==
    pc = "waiting" =>
        \/ ~stop /\ queue = <<>>
        \/ \E t \in Caller : guard = t /\ call[t] \in {"addNotify", "stopNotify"}

\* stop() gives up what is queued and nothing else: run() never returns with
\* an item of the batch it took left, nor before a call of stop().
EndedCleanly == pc = "ended" => stop /\ batch = <<>>

\* Add "will run as soon as possible": unless the queue is stopped, a job
\* that was pushed has its completion handler run in the end.  "Terminate the
\* run() call": after stop() the runner leaves its loop, asleep, in the middle
\* of a batch or between two.
JobsComplete ==
    /\ \A j \in Job : (\E i \in DOMAIN queue : queue[i] = j)
                          ~> (stop \/ \E i \in DOMAIN completed : completed[i] = j)
    /\ stop ~> pc = "ended"

\* run() implements the service jobqueue.hpp describes.
Service == INSTANCE JobService WITH
    pending <- batch \o queue,
    jobRan  <- (pc = "completion"),
    stopped <- stop,
    ended   <- (pc = "ended")

Implements == Service!ServiceSpec
=============================================================================
