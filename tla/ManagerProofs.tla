--------------------------- MODULE ManagerProofs ----------------------------
(***************************************************************************)
(* The sleep and wake-up protocol of the FastCGI thread, for any set of     *)
(* requests and any number of stop() and terminate() calls.                 *)
(***************************************************************************)
EXTENDS Manager, SequenceTheorems, TLAPS

\* asleep is TRUE only around poll(), and a main that polls with asleep
\* already cleared has a byte to read.
AsleepOK ==
    /\ asleep => pc \in {"poll", "wakenLock", "wakenHeld"}
    /\ pc = "poll" => sleep

\* What sleep says of the output, until the termination check is passed.
SleepOK == pc \in {"push", "notifyLock", "notifyHeld", "termLock", "termHeld"} => (sleep => ~out)

\* A flag that is set between its check and poll() was set too late.
LateOK ==
    /\ stopBool /\ pc \in {"transceive", "push", "notifyLock", "notifyHeld", "termLock", "termHeld",
                           "tasksLock", "sleepLock", "bothHeld"}
          => "stop" \in missed
    /\ terminateBool /\ requests = {} /\ sleep /\ pc \in {"tasksLock", "sleepLock", "bothHeld"}
          => "terminate" \in missed

\* The two halves of NoTaskSlept.
Woken ==
    pc = "poll" => \/ wakeBytes > 0
                   \/ asleep /\ (tasks = <<>> \/ jobAt # "idle")
CallsKept == \A i \in called : Queued(i) \/ (pc = "handle" /\ id = i)

IInv ==
    /\ TypeOK
    /\ MutexOK
    /\ AsleepOK
    /\ SleepOK
    /\ LateOK
    /\ Woken
    /\ CallsKept
    /\ OnlyLateCallsSlept

USE DEF Goto, Interrupted, EndTurn, EndCall, WakeIf, Transmit, network, flags, jobVars, callVars

-----------------------------------------------------------------------------
LEMMA InitIInv == Init => IInv
<1> SUFFICES ASSUME Init PROVE IInv
  OBVIOUS
<1>1. tasks \in Seq(Source)
  BY DEF Init
<1>2. TypeOK
  <2>1. unread \in [Source -> Nat]
    BY DEF Init
  <2>2. pc \in MainPC /\ sleep \in BOOLEAN /\ id \in Source /\ jobAt \in JobPC
    BY DEF Init, MainPC, JobPC, Source
  <2>3. call \in CallPC /\ kind \in Kind /\ on \in Contexts \cup {"own"} /\ calls \in 0..MaxCalls
    BY ManagerAssumption DEF Init, CallPC, Kind
  <2>4. QED
    BY <1>1, <2>1, <2>2, <2>3 DEF Init, TypeOK
<1>3. QED
  BY <1>2 DEF Init, IInv, MutexOK, AsleepOK, SleepOK, LateOK, Woken, CallsKept, OnlyLateCallsSlept, Queued

-----------------------------------------------------------------------------
(* Types *)

LEMMA TransceiveType == TypeOK /\ Transceive => TypeOK'
<1> SUFFICES ASSUME TypeOK, Transceive PROVE TypeOK'
  OBVIOUS
<1> USE DEF TypeOK, Source, MainPC
<1>1. CASE TransceiveNothing
  BY <1>1 DEF TransceiveNothing
<1>2. CASE TransceiveWake
  <2>1. wakeBytes' \in Nat
    BY <1>2 DEF TransceiveWake
  <2>2. QED
    BY <1>2, <2>1 DEF TransceiveWake
<1>3. CASE TransceiveAccept
  BY <1>3 DEF TransceiveAccept
<1>4. CASE TransceiveRecord
  <2>1. PICK s \in requests : /\ Readable(s)
                            /\ unread' = [unread EXCEPT ![s] = @ - 1]
                            /\ tasks' = Append(tasks, s)
    BY <1>4 DEF TransceiveRecord
  <2>2. unread[s] \in Nat /\ unread[s] > 0
    BY <2>1 DEF Readable
  <2>3. tasks' \in Seq(Source) /\ unread' \in [Source -> Nat]
    BY <2>1, <2>2, AppendProperties
  <2>4. QED
    BY <1>4, <2>3 DEF TransceiveRecord
<1>5. CASE TransceiveManagement \/ TransceiveDiscard \/ TransceivePartial
  <2>1. PICK s \in Source : Readable(s) /\ unread' = [unread EXCEPT ![s] = @ - 1]
    BY <1>5 DEF TransceiveManagement, TransceiveDiscard, TransceivePartial
  <2>2. unread[s] \in Nat /\ unread[s] > 0
    BY <2>1 DEF Readable
  <2>3. unread' \in [Source -> Nat]
    BY <2>1, <2>2
  <2>4. QED
    BY <1>5, <2>3 DEF TransceiveManagement, TransceiveDiscard, TransceivePartial
<1>6. CASE TransceiveHangup
  BY <1>6 DEF TransceiveHangup
<1>7. QED
  BY <1>1, <1>2, <1>3, <1>4, <1>5, <1>6 DEF Transceive

LEMMA MainType == TypeOK /\ MainStep => TypeOK'
<1> SUFFICES ASSUME TypeOK, MainStep PROVE TypeOK'
  OBVIOUS
<1> USE DEF TypeOK, MainPC
<1>1. CASE LockStop \/ CheckStop \/ LockNotify \/ LockTerm \/ CheckTerminate
  BY <1>1 DEF LockStop, CheckStop, LockNotify, LockTerm, CheckTerminate
<1>2. CASE NotifySelf
  BY <1>2 DEF NotifySelf
<1>3. CASE LockTasks \/ LockSleep \/ FallAsleep \/ Poll \/ LockWaken
  BY <1>3 DEF LockTasks, LockSleep, FallAsleep, Poll, LockWaken
<1>4. CASE TakeTask
  BY <1>4, HeadTailProperties DEF TakeTask
<1>5. CASE Waken \/ HandleLocal \/ HandleVoid \/ HandleMore
  BY <1>5 DEF Waken, HandleLocal, HandleVoid, HandleMore, Source
<1>6. CASE HandleLast
  <2>1. unread' \in [Source -> Nat] /\ connected' \subseteq Id /\ hangups' \subseteq connected'
    BY <1>6 DEF HandleLast, Source
  <2>2. requests' \subseteq Id /\ out' \in BOOLEAN /\ backlog' \subseteq Id
    BY <1>6 DEF HandleLast
  <2>3. QED
    BY <1>6, <2>1, <2>2 DEF HandleLast, Source
<1>7. CASE Transceive
  BY <1>7, TransceiveType
<1>8. CASE PushUnlocked
  BY <1>8, AppendProperties DEF PushUnlocked, Source
<1>9. QED
  BY <1>1, <1>2, <1>3, <1>4, <1>5, <1>6, <1>7, <1>8 DEF MainStep, Handle

LEMMA OtherType == TypeOK /\ (JobStep \/ CallStep \/ Call \/ Peer) => TypeOK'
<1> SUFFICES ASSUME TypeOK, JobStep \/ CallStep \/ Call \/ Peer PROVE TypeOK'
  OBVIOUS
<1> USE DEF TypeOK
<1>1. CASE JobPush
  <2>1. tasks' \in Seq(Source)
    BY SMTT(30), <1>1, AppendProperties DEF JobPush, Source
  <2>2. QED
    BY <1>1, <2>1 DEF JobPush, JobPC
<1>2. CASE JobLock \/ JobNotify
  BY <1>2 DEF JobLock, JobNotify, JobPC
<1>3. CASE LockOuter \/ LockInner
  BY <1>3 DEF LockOuter, LockInner, CallPC
<1>4. CASE Body
  <2>1. pc' \in MainPC
    BY <1>4 DEF Body, AfterSignal, MainPC
  <2>2. missed' \subseteq Kind /\ stopBool' \in BOOLEAN /\ terminateBool' \in BOOLEAN
    BY <1>4 DEF Body
  <2>3. wakeBytes' \in Nat /\ asleep' \in BOOLEAN
    <3>1. asleep' = FALSE /\ wakeBytes' = IF asleep THEN wakeBytes + 1 ELSE wakeBytes
      BY <1>4, Zenon DEF Body
    <3>2. wakeBytes \in Nat
      OBVIOUS
    <3>3. wakeBytes' \in Nat
      BY <3>1, <3>2
    <3>4. asleep' \in BOOLEAN
      BY <3>1, Zenon
    <3>5. QED
      BY <3>3, <3>4
  <2>4. call' \in CallPC /\ kind' \in Kind /\ on' \in Contexts \cup {"own"} /\ calls' \in 0..MaxCalls
    BY <1>4 DEF Body, CallPC, Kind
  <2>5. QED
    BY <1>4, <2>1, <2>2, <2>3, <2>4 DEF Body
<1>5. CASE Call
  BY <1>5, ManagerAssumption DEF Call, CallPC
<1>6. CASE Connect \/ Hangup
  BY <1>6 DEF Connect, Hangup
<1>7. CASE Send
  BY <1>7 DEF Send, Source
<1>8. CASE PushesMeet
  <2>1. PICK s \in Source, garbage \in Source :
            tasks' = Append(tasks, s) \/ tasks' = Append(Append(tasks, s), garbage)
    BY <1>8 DEF PushesMeet, Source
  <2>2. Append(tasks, s) \in Seq(Source)
    BY AppendProperties
  <2>3. Append(Append(tasks, s), garbage) \in Seq(Source)
    BY <2>2, AppendProperties
  <2>4. tasks' \in Seq(Source)
    BY <2>1, <2>2, <2>3
  <2>5. QED
    BY <1>8, <2>4 DEF PushesMeet, JobPC, MainPC
<1>9. QED
  BY <1>1, <1>2, <1>3, <1>4, <1>5, <1>6, <1>7, <1>8 DEF JobStep, CallStep, Peer

-----------------------------------------------------------------------------
(* The protocol *)

LEMMA MainProtocol == IInv /\ MainStep => (MutexOK /\ AsleepOK /\ SleepOK /\ LateOK
                                            /\ Woken /\ OnlyLateCallsSlept)'
<1> SUFFICES ASSUME IInv, MainStep
             PROVE  (MutexOK /\ AsleepOK /\ SleepOK /\ LateOK /\ Woken /\ OnlyLateCallsSlept)'
  OBVIOUS
<1> USE DEF IInv, MutexOK, AsleepOK, SleepOK, LateOK, Woken, OnlyLateCallsSlept
<1>1. CASE LockStop \/ LockNotify \/ LockTerm
  BY <1>1 DEF LockStop, LockNotify, LockTerm, StopMutexHeld, TermMutexHeld, SleepMutexHeld
<1>2. CASE CheckStop \/ NotifySelf
  BY <1>2 DEF CheckStop, NotifySelf
<1>3. CASE CheckTerminate
  BY <1>3 DEF CheckTerminate, MayTerminate
<1>4. CASE LockTasks \/ LockSleep \/ LockWaken
  BY <1>4 DEF LockTasks, LockSleep, LockWaken, SleepMutexHeld
<1>5. CASE FallAsleep \/ TakeTask
  BY <1>5 DEF FallAsleep, TakeTask
<1>6. CASE Poll
  BY <1>6 DEF Poll
<1>7. CASE Waken
  BY <1>7 DEF Waken
<1>8. CASE HandleLocal
  BY <1>8 DEF HandleLocal
<1>9. CASE HandleVoid
  BY <1>9 DEF HandleVoid
<1>10. CASE HandleMore
  BY <1>10 DEF HandleMore
<1>11. CASE HandleLast
  BY <1>11 DEF HandleLast
<1>12. CASE TransceiveNothing
  BY <1>12 DEF TransceiveNothing
<1>13. CASE TransceiveWake
  BY <1>13 DEF TransceiveWake
<1>14. CASE TransceiveAccept
  BY <1>14 DEF TransceiveAccept
<1>15. CASE TransceiveRecord
  BY <1>15 DEF TransceiveRecord
<1>16. CASE TransceiveDiscard
  BY <1>16 DEF TransceiveDiscard
<1>17. CASE TransceivePartial
  BY <1>17 DEF TransceivePartial
<1>18. CASE TransceiveHangup
  BY <1>18 DEF TransceiveHangup
<1>19. CASE TransceiveManagement
  BY <1>19 DEF TransceiveManagement
<1>20. CASE PushUnlocked
  BY <1>20 DEF PushUnlocked
<1>21. QED
  BY <1>1, <1>2, <1>3, <1>4, <1>5, <1>6, <1>7, <1>8, <1>9, <1>10, <1>11, <1>12, <1>13, <1>14, <1>15, <1>16, <1>17, <1>18, <1>19, <1>20
     DEF MainStep, Transceive, Handle

LEMMA OtherProtocol ==
    IInv /\ (JobStep \/ CallStep \/ Call \/ Peer)
        => (MutexOK /\ AsleepOK /\ SleepOK /\ LateOK /\ Woken /\ OnlyLateCallsSlept)'
<1> SUFFICES ASSUME IInv, JobStep \/ CallStep \/ Call \/ Peer
             PROVE  (MutexOK /\ AsleepOK /\ SleepOK /\ LateOK /\ Woken /\ OnlyLateCallsSlept)'
  OBVIOUS
<1> USE DEF IInv, MutexOK, AsleepOK, SleepOK, LateOK, Woken, OnlyLateCallsSlept
<1>1. CASE JobPush
  BY <1>1 DEF JobPush
<1>2. CASE JobLock
  BY <1>2 DEF JobLock, SleepMutexHeld
<1>3. CASE JobNotify
  BY <1>3 DEF JobNotify, TypeOK
<1>4. CASE LockOuter
  BY <1>4 DEF LockOuter, StopMutexHeld, TermMutexHeld, TypeOK, Kind
<1>5. CASE LockInner
  BY <1>5 DEF LockInner, SleepMutexHeld
<1>6. CASE Body
  <2>1. wakeBytes' \in Nat /\ (asleep => wakeBytes' > 0) /\ (wakeBytes > 0 => wakeBytes' > 0)
    BY <1>6 DEF Body, TypeOK
  <2>2. \/ pc' = pc
        \/ pc = "poll" /\ pc' = "wakenLock"
        \/ pc = "transceive" /\ pc' = "crashed"
    BY <1>6 DEF Body, AfterSignal
  <2>3. QED
    BY <1>6, <2>1, <2>2 DEF Body, PastCheck, TypeOK, Kind
<1>7. CASE Call \/ Peer
  BY <1>7 DEF Call, Peer, Connect, Send, Hangup
<1>8. CASE PushesMeet
  BY <1>8 DEF PushesMeet
<1>9. QED
  BY <1>1, <1>2, <1>3, <1>4, <1>5, <1>6, <1>7, <1>8 DEF JobStep, CallStep

-----------------------------------------------------------------------------
(* The tasks of called requests *)

LEMMA AppendKeeps ==
    ASSUME tasks \in Seq(Source), NEW s \in Source, tasks' = Append(tasks, s), NEW i
    PROVE  (Queued(i) \/ i = s) => Queued(i)'
<1>1. /\ DOMAIN tasks = 1..Len(tasks) /\ DOMAIN tasks' = 1..(Len(tasks) + 1) /\ Len(tasks) \in Nat
      /\ \A k \in 1..Len(tasks) : tasks'[k] = tasks[k]
      /\ tasks'[Len(tasks) + 1] = s
  BY AppendProperties, LenProperties
<1>2. QED
  BY <1>1 DEF Queued

LEMMA AppendTwoKeep ==
    ASSUME tasks \in Seq(Source), NEW s \in Source, NEW t \in Source,
           tasks' = Append(Append(tasks, s), t), NEW i, Queued(i)
    PROVE  Queued(i)'
<1> DEFINE one == Append(tasks, s)
<1>1. /\ one \in Seq(Source) /\ DOMAIN tasks = 1..Len(tasks) /\ Len(one) = Len(tasks) + 1 /\ Len(tasks) \in Nat
      /\ \A k \in 1..Len(tasks) : one[k] = tasks[k]
  BY AppendProperties, LenProperties
<1> HIDE DEF one
<1>2. /\ tasks' \in Seq(Source) /\ Len(tasks') = Len(one) + 1
      /\ \A k \in 1..Len(one) : tasks'[k] = one[k]
  BY <1>1, AppendProperties DEF one
<1>3. DOMAIN tasks' = 1..(Len(tasks) + 2) /\ \A k \in 1..Len(tasks) : tasks'[k] = tasks[k]
  BY <1>1, <1>2, LenProperties
<1>4. QED
  BY <1>1, <1>3 DEF Queued

LEMMA TailKeeps ==
    ASSUME tasks \in Seq(Source), tasks # <<>>, tasks' = Tail(tasks), NEW i, Queued(i)
    PROVE  i = Head(tasks) \/ Queued(i)'
<1>1. /\ DOMAIN tasks = 1..Len(tasks) /\ Len(tasks) \in Nat /\ Head(tasks) = tasks[1]
      /\ DOMAIN tasks' = 1..(Len(tasks) - 1)
      /\ \A k \in 1..(Len(tasks) - 1) : tasks'[k] = tasks[k + 1]
  BY HeadTailProperties, LenProperties
<1>2. PICK k \in 1..Len(tasks) : tasks[k] = i
  BY <1>1 DEF Queued
<1>3. CASE k = 1
  BY <1>1, <1>2, <1>3
<1>4. CASE k # 1
  <2>1. k - 1 \in 1..(Len(tasks) - 1) /\ (k - 1) + 1 = k
    BY <1>1, <1>4
  <2>2. tasks'[k - 1] = i
    BY <1>1, <1>2, <2>1
  <2>3. QED
    BY <1>1, <2>1, <2>2 DEF Queued
<1>5. QED
  BY <1>3, <1>4

\* Only a push, the taking and the handling of a task touch what CallsKept is about.
LEMMA CallsKeptStep == IInv /\ [Next]_vars => CallsKept'
<1> SUFFICES ASSUME IInv, [Next]_vars PROVE CallsKept'
  OBVIOUS
<1>0. tasks \in Seq(Source) /\ requests \subseteq Id /\ CallsKept /\ called \subseteq requests
  BY DEF IInv, TypeOK
<1>1. CASE tasks' = tasks /\ called' = called /\ pc # "handle"
  BY <1>0, <1>1 DEF CallsKept, Queued
<1>2. CASE Handle
  <2>1. /\ tasks' = tasks /\ pc = "handle"
        /\ called' = called \ {id} \/ (called' = called /\ id \notin requests)
    <3>1. ManagerId \notin requests
      BY <1>0, ManagerAssumption
    <3>2. QED
      BY <1>2, <3>1 DEF Handle, HandleLocal, HandleVoid, HandleMore, HandleLast
  <2>2. \A i \in called' : i \in called /\ i # id
    BY <1>0, <2>1
  <2>3. QED
    BY <1>0, <2>1, <2>2 DEF CallsKept, Queued
<1>3. CASE tasks' = tasks /\ called' = called /\ pc' = pc /\ id' = id
  BY <1>0, <1>3 DEF CallsKept, Queued
<1>4. CASE TakeTask
  <2>1. tasks # <<>> /\ tasks' = Tail(tasks) /\ id' = Head(tasks) /\ pc = "bothHeld" /\ pc' = "handle" /\ called' = called
    BY <1>4 DEF TakeTask
  <2>2. \A i \in called' : Queued(i)
    BY <1>0, <2>1 DEF CallsKept
  <2>3. QED
    BY <1>0, <2>1, <2>2, TailKeeps DEF CallsKept
<1>5. CASE TransceiveRecord \/ PushUnlocked
  <2>1. PICK s \in Source : tasks' = Append(tasks, s)
    BY <1>0, <1>5 DEF TransceiveRecord, PushUnlocked, Source
  <2>2. called' = called /\ pc # "handle"
    BY <1>5 DEF TransceiveRecord, PushUnlocked
  <2>3. \A i \in called' : Queued(i)
    BY <1>0, <2>2 DEF CallsKept
  <2>4. QED
    BY <1>0, <2>1, <2>3, AppendKeeps DEF CallsKept
<1>6. CASE JobPush
  <2>1. PICK i \in jobs : IF i \in requests
                          THEN tasks' = Append(tasks, i) /\ called' = called \cup {i}
                          ELSE UNCHANGED <<tasks, called>>
    BY <1>6 DEF JobPush
  <2>2. pc' = pc /\ id' = id
    BY <1>6 DEF JobPush
  <2>3. CASE i \in requests
    <3>1. i \in Source /\ tasks' = Append(tasks, i) /\ called' = called \cup {i}
      BY <1>0, <2>1, <2>3 DEF Source
    <3>2. \A j : (Queued(j) \/ j = i) => Queued(j)'
      BY <1>0, <3>1, AppendKeeps
    <3>3. QED
      BY <1>0, <2>2, <3>1, <3>2 DEF CallsKept
  <2>4. CASE i \notin requests
    BY <1>3, <2>1, <2>2, <2>4
  <2>5. QED
    BY <2>3, <2>4
<1>7. CASE PushesMeet
  <2>1. PICK s \in Source, garbage \in Source :
            tasks' = Append(tasks, s) \/ tasks' = Append(Append(tasks, s), garbage)
    BY <1>0, <1>7 DEF PushesMeet, Source
  <2>2. called' = called /\ pc # "handle"
    BY <1>7 DEF PushesMeet
  <2>3. \A i \in called' : Queued(i)
    BY <1>0, <2>2 DEF CallsKept
  <2>4. \A i : Queued(i) => Queued(i)'
    BY <1>0, <2>1, AppendKeeps, AppendTwoKeep
  <2>5. QED
    BY <2>3, <2>4 DEF CallsKept
<1>8. CASE Transceive /\ ~TransceiveRecord
  BY <1>1, <1>8 DEF Transceive, TransceiveNothing, TransceiveWake, TransceiveAccept, TransceiveManagement,
     TransceiveDiscard, TransceivePartial, TransceiveHangup
<1>9. CASE LockStop \/ CheckStop \/ LockNotify \/ NotifySelf \/ LockTerm \/ CheckTerminate
  BY <1>1, <1>9 DEF LockStop, CheckStop, LockNotify, NotifySelf, LockTerm, CheckTerminate
<1>10. CASE LockTasks \/ LockSleep \/ FallAsleep \/ Poll \/ LockWaken \/ Waken
  BY <1>1, <1>10 DEF LockTasks, LockSleep, FallAsleep, Poll, LockWaken, Waken
<1>11. CASE JobLock \/ JobNotify \/ LockOuter \/ LockInner \/ Call \/ Peer
  BY <1>3, <1>11 DEF JobLock, JobNotify, LockOuter, LockInner, Call, Peer, Connect, Send, Hangup
<1>12. CASE Body
  <2>1. tasks' = tasks /\ called' = called /\ id' = id /\ (pc' = pc \/ pc # "handle")
    BY <1>12 DEF Body, AfterSignal
  <2>2. QED
    BY <1>1, <1>3, <2>1
<1>13. CASE UNCHANGED vars
  BY <1>3, <1>13 DEF vars
<1>14. QED
  BY <1>2, <1>4, <1>5, <1>6, <1>7, <1>8, <1>9, <1>10, <1>11, <1>12, <1>13
     DEF Next, MainStep, JobStep, CallStep

LEMMA StutterIInv == IInv /\ UNCHANGED vars => IInv'
  BY DEF vars, IInv, TypeOK, MutexOK, AsleepOK, SleepOK, LateOK, Woken, CallsKept, OnlyLateCallsSlept, Queued

LEMMA NextIInv == IInv /\ [Next]_vars => IInv'
<1> SUFFICES ASSUME IInv, [Next]_vars PROVE IInv'
  OBVIOUS
<1>1. CASE MainStep
  BY <1>1, MainType, MainProtocol, CallsKeptStep DEF IInv
<1>2. CASE JobStep \/ CallStep \/ Call \/ Peer
  BY <1>2, OtherType, OtherProtocol, CallsKeptStep DEF IInv
<1>3. CASE UNCHANGED vars
  BY <1>3, StutterIInv
<1>4. QED
  BY <1>1, <1>2, <1>3 DEF Next

LEMMA InvariantHolds == Spec => []IInv
  BY InitIInv, NextIInv, PTL DEF Spec

-----------------------------------------------------------------------------
(* Theorems *)

\* Members and locals keep their types; tasks holds only known FullIds.
THEOREM TypeCorrect == Spec => []TypeOK
<1>1. IInv => TypeOK
  BY DEF IInv
<1>2. QED
  BY <1>1, InvariantHolds, PTL

\* sleepMutex, stopMutex and terminateMutex exclude, signals included.
THEOREM MutualExclusion == Spec => []MutexOK
<1>1. IInv => MutexOK
  BY DEF IInv
<1>2. QED
  BY <1>1, InvariantHolds, PTL

\* push() on the job thread against the falling asleep of handler(), and
\* against its push() without a mutex.
THEOREM NoLostTask == Spec => []NoTaskSlept
<1>1. IInv => NoTaskSlept
  BY DEF IInv, Woken, CallsKept, NoTaskSlept
<1>2. QED
  BY <1>1, InvariantHolds, PTL

\* stop() and terminate() against the falling asleep of handler().
THEOREM OnlyLateCallsMissed == Spec => []OnlyLateCallsSlept
<1>1. IInv => OnlyLateCallsSlept
  BY DEF IInv
<1>2. QED
  BY <1>1, InvariantHolds, PTL

\* A handler() that terminates leaves no request and no output behind.
THEOREM TerminationDrains == Spec => TerminateDrains
<1>1. IInv /\ [Next]_vars => [pc = "termHeld" /\ pc' = "halted" => requests = {} /\ ~out]_vars
  <2> SUFFICES ASSUME IInv, Next, pc = "termHeld", pc' = "halted"
               PROVE  requests = {} /\ ~out
    OBVIOUS
  <2>1. CASE MainStep
    <3>1. CheckTerminate
      BY <2>1 DEF MainStep, Transceive, Handle, LockStop, CheckStop, LockNotify, NotifySelf,
         LockTerm, LockTasks, LockSleep, FallAsleep, TakeTask, Poll, LockWaken, Waken,
         HandleLocal, HandleVoid, HandleMore, HandleLast, TransceiveNothing, TransceiveWake,
         TransceiveAccept, TransceiveRecord, TransceiveManagement, PushUnlocked,
         TransceiveDiscard, TransceivePartial, TransceiveHangup
    <3>2. QED
      BY <3>1 DEF CheckTerminate, MayTerminate, IInv, SleepOK
  <2>2. CASE JobStep \/ CallStep \/ Call \/ Peer
    BY <2>2 DEF JobStep, CallStep, Peer, JobPush, PushesMeet, JobLock, JobNotify, LockOuter, LockInner, Body,
       AfterSignal, Call, Connect, Send, Hangup
  <2>3. QED
    BY <2>1, <2>2 DEF Next
<1>2. QED
  BY <1>1, InvariantHolds, PTL DEF Spec, TerminateDrains
=============================================================================
