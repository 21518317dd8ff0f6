--------------------------- MODULE JobQueueProofs ---------------------------
(***************************************************************************)
(* The safety properties of JobQueue for any number of jobs and callers,    *)
(* and that it implements JobService.                                       *)
(***************************************************************************)
EXTENDS JobQueue, SequenceTheorems, TLAPS

\* What the loop of run() keeps in its local list between two locks.
BatchOK ==
    /\ pc \in {"lock", "test", "waiting", "ended"} => batch = <<>>
    /\ pc = "completion" => batch # <<>>

\* The inductive invariant: the mutex discipline is what makes the hand-over
\* of the queue and the sleep of the runner safe.
IInv ==
    /\ TypeOK
    /\ MutexOK
    /\ BatchOK
    /\ Conserved
    /\ NoLostWakeup
    /\ EndedCleanly

-----------------------------------------------------------------------------
(* Sequences *)

\* What completing the first item of a batch does to completed \o batch \o queue.
LEMMA MoveHead ==
    ASSUME NEW S, NEW a \in Seq(S), NEW b \in Seq(S), NEW c \in Seq(S), b # <<>>
    PROVE  /\ Append(a, Head(b)) \in Seq(S) /\ Tail(b) \in Seq(S)
           /\ Append(a, Head(b)) \o Tail(b) \o c = a \o b \o c
<1>1. Head(b) \in S /\ Tail(b) \in Seq(S)
  BY HeadTailProperties
<1>2. Append(a, Head(b)) = a \o <<Head(b)>>
  BY <1>1, AppendIsConcat
<1>3. b = <<Head(b)>> \o Tail(b)
  BY <1>1
<1>4. <<Head(b)>> \in Seq(S)
  BY <1>1
<1>5. (a \o <<Head(b)>>) \o Tail(b) = a \o (<<Head(b)>> \o Tail(b))
  BY <1>1, <1>4, ConcatAssociative
<1>6. QED
  BY <1>1, <1>2, <1>3, <1>5, AppendProperties

-----------------------------------------------------------------------------
(* The inductive invariant *)

LEMMA InitIInv == Init => IInv
<1> SUFFICES ASSUME Init PROVE IInv
  OBVIOUS
<1>1. TypeOK
  <2>1. <<>> \in Seq(Job)
    OBVIOUS
  <2>2. call \in [Caller -> CallerPC]
    BY DEF Init, CallerPC
  <2>3. QED
    BY <2>1, <2>2 DEF Init, TypeOK, RunnerPC
<1>2. MutexOK /\ BatchOK /\ NoLostWakeup /\ EndedCleanly
  BY ThreadsDiffer DEF Init, MutexOK, BatchOK, NoLostWakeup, EndedCleanly, Holds
<1>3. <<>> \o <<>> \o <<>> = <<>>
  OBVIOUS
<1>4. QED
  BY <1>1, <1>2, <1>3 DEF Init, IInv, Conserved

LEMMA TypeStep == TypeOK /\ BatchOK /\ [Next]_vars => TypeOK'
<1> SUFFICES ASSUME TypeOK, BatchOK, [Next]_vars PROVE TypeOK'
  OBVIOUS
<1> USE DEF TypeOK, BatchOK, callerVars, runnerVars, CallerPC, RunnerPC, NotifyAll
<1>1. ASSUME NEW t \in Caller, CallAdd(t) PROVE TypeOK'
  BY <1>1 DEF CallAdd
<1>2. ASSUME NEW t \in Caller, CallStop(t) PROVE TypeOK'
  BY <1>2 DEF CallStop
<1>3. ASSUME NEW t \in Caller, CallerLock(t) PROVE TypeOK'
  BY <1>3 DEF CallerLock
<1>4. ASSUME NEW t \in Caller, NEW j \in Job, Push(t, j) PROVE TypeOK'
  BY <1>4 DEF Push
<1>5. ASSUME NEW t \in Caller, SetStop(t) PROVE TypeOK'
  BY <1>5 DEF SetStop
<1>6. ASSUME NEW t \in Caller, AddNotify(t) PROVE TypeOK'
  BY <1>6 DEF AddNotify
<1>7. ASSUME NEW t \in Caller, StopNotify(t) PROVE TypeOK'
  BY <1>7 DEF StopNotify
<1>8. CASE RunLock \/ Wait \/ SpuriousWakeup \/ Break \/ Swap \/ RunJob \/ BatchDone
  BY <1>8 DEF RunLock, Wait, SpuriousWakeup, Break, Swap, RunJob, BatchDone
<1>9. CASE RunCompletion
  BY <1>9, HeadTailProperties DEF RunCompletion
<1>10. CASE UNCHANGED vars
  BY <1>10 DEF vars
<1>11. QED
  BY <1>1, <1>2, <1>3, <1>4, <1>5, <1>6, <1>7, <1>8, <1>9, <1>10
     DEF Next, CallerStep, RunnerStep

\* Who is where: the mutex, the batch and the sleep of the runner.
LEMMA ControlStep ==
    IInv /\ [Next]_vars => MutexOK' /\ BatchOK' /\ NoLostWakeup' /\ EndedCleanly'
<1> SUFFICES ASSUME IInv, [Next]_vars
             PROVE  MutexOK' /\ BatchOK' /\ NoLostWakeup' /\ EndedCleanly'
  OBVIOUS
<1> USE ThreadsDiffer DEF IInv, TypeOK, MutexOK, BatchOK, NoLostWakeup, EndedCleanly,
    Holds, callerVars, runnerVars, CallerPC, RunnerPC, NotifyAll
<1> DEFINE Control == MutexOK /\ BatchOK /\ NoLostWakeup /\ EndedCleanly
<1>1. ASSUME NEW t \in Caller, CallAdd(t) PROVE Control'
  BY <1>1 DEF CallAdd
<1>2. ASSUME NEW t \in Caller, CallStop(t) PROVE Control'
  BY <1>2 DEF CallStop
<1>3. ASSUME NEW t \in Caller, CallerLock(t) PROVE Control'
  BY <1>3 DEF CallerLock
<1>4. ASSUME NEW t \in Caller, NEW j \in Job, Push(t, j) PROVE Control'
  BY <1>4 DEF Push
<1>5. ASSUME NEW t \in Caller, SetStop(t) PROVE Control'
  BY <1>5 DEF SetStop
<1>6. ASSUME NEW t \in Caller, AddNotify(t) PROVE Control'
  BY <1>6 DEF AddNotify
<1>7. ASSUME NEW t \in Caller, StopNotify(t) PROVE Control'
  BY <1>7 DEF StopNotify
<1>8. CASE RunLock
  BY <1>8 DEF RunLock
<1>9. CASE Wait \/ SpuriousWakeup \/ Break
  BY <1>9 DEF Wait, SpuriousWakeup, Break
<1>10. CASE Swap \/ RunJob \/ RunCompletion \/ BatchDone
  BY <1>10 DEF Swap, RunJob, RunCompletion, BatchDone
<1>11. CASE UNCHANGED vars
  BY <1>11 DEF vars
<1>12. QED
  BY <1>1, <1>2, <1>3, <1>4, <1>5, <1>6, <1>7, <1>8, <1>9, <1>10, <1>11
     DEF Next, CallerStep, RunnerStep

LEMMA ConservedStep == IInv /\ [Next]_vars => Conserved'
<1> SUFFICES ASSUME IInv, [Next]_vars PROVE Conserved'
  OBVIOUS
<1> USE DEF IInv, TypeOK, BatchOK, Conserved, callerVars, runnerVars
<1>1. ASSUME NEW t \in Caller, NEW j \in Job, Push(t, j) PROVE Conserved'
  <2>1. Append((completed \o batch) \o queue, j) = (completed \o batch) \o Append(queue, j)
    <3>1. completed \o batch \in Seq(Job) /\ (completed \o batch) \o queue \in Seq(Job)
      OBVIOUS
    <3>2. /\ Append(queue, j) = queue \o <<j>>
          /\ Append((completed \o batch) \o queue, j) = ((completed \o batch) \o queue) \o <<j>>
      BY <3>1, AppendIsConcat
    <3>3. QED
      BY <3>1, <3>2, ConcatAssociative
  <2>2. QED
    BY <1>1, <2>1 DEF Push
<1>2. CASE Swap
  <2>1. batch = <<>>
    BY <1>2 DEF Swap
  <2>2. completed \o <<>> = completed /\ (completed \o queue) \o <<>> = completed \o queue
    BY ConcatEmptySeq, ConcatProperties
  <2>3. submitted = completed \o queue
    BY <2>1, <2>2
  <2>4. submitted' = submitted /\ completed' = completed /\ batch' = queue /\ queue' = <<>>
    BY <1>2 DEF Swap
  <2>5. QED
    BY <2>2, <2>3, <2>4
<1>3. CASE RunCompletion
  <2>1. batch # <<>>
    BY <1>3 DEF RunCompletion
  <2>2. Append(completed, Head(batch)) \o Tail(batch) \o queue = completed \o batch \o queue
    BY <2>1, MoveHead
  <2>3. QED
    BY <1>3, <2>2 DEF RunCompletion
<1>4. ASSUME NEW t \in Caller,
             \/ CallAdd(t) \/ CallStop(t) \/ CallerLock(t) \/ SetStop(t) \/ AddNotify(t) \/ StopNotify(t)
      PROVE  Conserved'
  BY <1>4 DEF CallAdd, CallStop, CallerLock, SetStop, AddNotify, StopNotify
<1>5. CASE RunLock \/ Wait \/ SpuriousWakeup \/ Break \/ RunJob \/ BatchDone
  BY <1>5 DEF RunLock, Wait, SpuriousWakeup, Break, RunJob, BatchDone
<1>6. CASE UNCHANGED vars
  BY <1>6 DEF vars
<1>7. QED
  BY <1>1, <1>2, <1>3, <1>4, <1>5, <1>6 DEF Next, CallerStep, RunnerStep

LEMMA NextIInv == IInv /\ [Next]_vars => IInv'
  BY TypeStep, ControlStep, ConservedStep DEF IInv

LEMMA InvariantHolds == Spec => []IInv
  BY InitIInv, NextIInv, PTL DEF Spec

-----------------------------------------------------------------------------
(* Theorems *)

\* The members of JobQueue and the locals of run() keep their types.
THEOREM TypeCorrect == Spec => []TypeOK
<1>1. IInv => TypeOK
  BY DEF IInv
<1>2. QED
  BY <1>1, InvariantHolds, PTL

\* jobqueue.cpp neither loses nor repeats nor reorders a submitted pair.
THEOREM NothingLost == Spec => []Conserved
<1>1. IInv => Conserved
  BY DEF IInv
<1>2. QED
  BY <1>1, InvariantHolds, PTL

\* The wait loop of run() against the notifications of add() and stop().
THEOREM NoWakeupLost == Spec => []NoLostWakeup
<1>1. IInv => NoLostWakeup
  BY DEF IInv
<1>2. QED
  BY <1>1, InvariantHolds, PTL

\* run() returns only after stop() and at the end of a batch.
THEOREM EndsCleanly == Spec => []EndedCleanly
<1>1. IInv => EndedCleanly
  BY DEF IInv
<1>2. QED
  BY <1>1, InvariantHolds, PTL

-----------------------------------------------------------------------------
(* Refinement *)

LEMMA InitRefines == Init => Service!ServiceInit
  BY DEF Init, Service!ServiceInit

LEMMA StepRefines == IInv /\ [Next]_vars => [Service!ServiceNext]_(Service!serviceVars)
<1> SUFFICES ASSUME IInv, [Next]_vars
             PROVE  Service!ServiceNext \/ UNCHANGED Service!serviceVars
  OBVIOUS
<1> USE DEF IInv, TypeOK, BatchOK, callerVars, runnerVars, Service!serviceVars
<1>1. ASSUME NEW t \in Caller, NEW j \in Job, Push(t, j) PROVE Service!Submit(j)
  <2>1. Append(batch \o queue, j) = batch \o Append(queue, j)
    <3>1. batch \o queue \in Seq(Job)
      OBVIOUS
    <3>2. Append(queue, j) = queue \o <<j>> /\ Append(batch \o queue, j) = (batch \o queue) \o <<j>>
      BY <3>1, AppendIsConcat
    <3>3. QED
      BY <3>2, ConcatAssociative
  <2>2. QED
    BY <1>1, <2>1 DEF Push, Service!Submit
<1>2. ASSUME NEW t \in Caller, SetStop(t) PROVE Service!Stop
  BY <1>2 DEF SetStop, Service!Stop
<1>3. CASE Swap
  <2>1. <<>> \o queue = queue /\ queue \o <<>> = queue
    BY ConcatEmptySeq
  <2>2. UNCHANGED Service!serviceVars
    BY <1>3, <2>1 DEF Swap
  <2>3. QED
    BY <2>2
<1>4. CASE RunJob
  <2>1. batch \o queue # <<>>
    BY <1>4, ConcatProperties, EmptySeq DEF RunJob
  <2>2. Service!Perform
    BY <1>4, <2>1 DEF RunJob, Service!Perform
  <2>3. QED
    BY <2>2 DEF Service!ServiceNext
<1>5. CASE RunCompletion
  <2>1. batch # <<>>
    BY <1>5 DEF RunCompletion
  <2>2. Head(batch \o queue) = Head(batch) /\ Tail(batch \o queue) = Tail(batch) \o queue
    BY <2>1, ConcatProperties, HeadTailProperties
  <2>3. Service!Complete
    BY <1>5, <2>2 DEF RunCompletion, Service!Complete
  <2>4. QED
    BY <2>3 DEF Service!ServiceNext
<1>6. CASE Break
  BY <1>6 DEF Break, Service!End, Service!ServiceNext
<1>7. ASSUME NEW t \in Caller,
             \/ CallAdd(t) \/ CallStop(t) \/ CallerLock(t)
      PROVE  UNCHANGED Service!serviceVars
  BY <1>7 DEF CallAdd, CallStop, CallerLock
<1>8. ASSUME NEW t \in Caller, AddNotify(t) \/ StopNotify(t)
      PROVE  UNCHANGED Service!serviceVars
  BY <1>8 DEF AddNotify, StopNotify, NotifyAll
<1>9. CASE RunLock \/ Wait \/ SpuriousWakeup \/ BatchDone
  BY <1>9 DEF RunLock, Wait, SpuriousWakeup, BatchDone
<1>10. CASE UNCHANGED vars
  BY <1>10 DEF vars
<1>11. QED
  BY <1>1, <1>2, <1>3, <1>4, <1>5, <1>6, <1>7, <1>8, <1>9, <1>10
     DEF Next, CallerStep, RunnerStep, Service!ServiceNext

\* Threads, mutex, condition variable and batches implement the service that
\* jobqueue.hpp documents.
THEOREM QueueImplementsService == Spec => Implements
<1>1. Spec => Service!ServiceInit /\ [][Service!ServiceNext]_(Service!serviceVars)
  BY InitRefines, StepRefines, InvariantHolds, PTL DEF Spec
<1>2. QED
  BY <1>1 DEF Implements, Service!ServiceSpec
=============================================================================
