----------------------------- MODULE JobService -----------------------------
(***************************************************************************)
(* What JobQueue promises its callers (src/src/jobqueue.hpp:17-34), without *)
(* threads, locks or batches: one server executes the submitted jobs one    *)
(* after the other, in the order of submission ("to run consequensly"),     *)
(* each followed at once by its own completion handler ("the completion     *)
(* handler will run straight after the job"), and ends only after a stop.   *)
(***************************************************************************)
EXTENDS Sequences

CONSTANT Job            \* the pairs (job, on_complete) that callers submit

VARIABLES
    pending,            \* submitted, completion handler not yet run; in order
    jobRan,             \* the job at the head of pending has run, its handler has not
    completed,          \* the jobs whose handlers have run, oldest first
    stopped,            \* stop() has been called
    ended               \* run() has returned

serviceVars == <<pending, jobRan, completed, stopped, ended>>

ServiceInit ==
    /\ pending = <<>>
    /\ jobRan = FALSE
    /\ completed = <<>>
    /\ stopped = FALSE
    /\ ended = FALSE

\* add(job, on_complete): accepted at any time, even after stop.
Submit(j) ==
    /\ pending' = Append(pending, j)
    /\ UNCHANGED <<jobRan, completed, stopped, ended>>

\* The oldest pending job runs.
Perform ==
    /\ ~ended /\ ~jobRan
    /\ pending # <<>>
    /\ jobRan' = TRUE
    /\ UNCHANGED <<pending, completed, stopped, ended>>

\* Its completion handler runs, before any other job.
Complete ==
    /\ jobRan
    /\ completed' = Append(completed, Head(pending))
    /\ pending' = Tail(pending)
    /\ jobRan' = FALSE
    /\ UNCHANGED <<stopped, ended>>

Stop ==
    /\ stopped' = TRUE
    /\ UNCHANGED <<pending, jobRan, completed, ended>>

\* run() returns, never between a job and its completion handler.
End ==
    /\ stopped /\ ~jobRan
    /\ ended' = TRUE
    /\ UNCHANGED <<pending, jobRan, completed, stopped>>

ServiceNext ==
    \/ \E j \in Job : Submit(j)
    \/ Perform
    \/ Complete
    \/ Stop
    \/ End

ServiceSpec == ServiceInit /\ [][ServiceNext]_serviceVars
=============================================================================
