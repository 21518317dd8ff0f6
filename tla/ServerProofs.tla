---------------------------- MODULE ServerProofs ----------------------------
(***************************************************************************)
(* The safety of Server for any number of slots and requests and any options *)
(* of the web server: a job keeps its object unless an abort or a late record *)
(* takes it, a request has a task for each message, and every answer is its   *)
(* own.  And the job thread is the service that JobQueue implements.          *)
(***************************************************************************)
EXTENDS Server, FiniteSetTheorems, SequenceTheorems, TLAPS

PeerState == {"idle", "begun", "params", "body", "tail", "waiting", "aborted"}
Answer == [status : Status, n : Serial]

\* The queues, the requests and the web server keep their types.
TypeOK ==
    /\ peer \in [Slot -> PeerState] /\ peerN \in [Slot -> 0..MaxRequests] /\ made \in 0..MaxRequests
    /\ strayed \in [Slot -> SUBSET Options]
    /\ wire \in [Slot -> Seq(Record)] /\ reply \in [Slot -> Seq(Answer)]
    /\ serial \in [Slot -> 0..MaxRequests] /\ role \in [Slot -> {"RESPONDER", "FILTER"}]
    /\ state \in [Slot -> {"PARAMS", "IN", "OUT"}] /\ step \in [Slot -> {"Start", "Finish"}]
    /\ mail \in [Slot -> Seq(Record)]
    /\ turn \in {"read", "take"} /\ tasks \in Seq(Slot)
    /\ phase \in {"serving", "halted", "stopped", "exited", "undefined"}
    /\ pending \in Seq(Job) /\ completed \in Seq(Job)
    /\ jobRan \in BOOLEAN /\ stopped \in BOOLEAN /\ ended \in BOOLEAN /\ running \in BOOLEAN

-----------------------------------------------------------------------------
(* The inductive invariant *)

\* The order in which a web server sends the records of a request, and how far
\* it has come with them.
Rank(kind) ==
    CASE kind = "PARAMS" -> 2 [] kind = "PARAMS_END" -> 3 [] kind \in {"IN", "IN_TOO_LONG"} -> 4
      [] kind = "IN_END" -> 5 [] kind = "ABORT" -> 6 [] OTHER -> 1
Sent(p) ==
    CASE p = "begun" -> 1 [] p = "params" -> 2 [] p = "body" -> 3 [] p = "tail" -> 4 [] p = "waiting" -> 5
      [] OTHER -> 6
Before(a, b) == a.n < b.n \/ (a.n = b.n /\ Rank(a.kind) < Rank(b.kind))

NoJob(s) == \A i \in 1..Len(pending) : pending[i].slot # s
NoBegin(s) == \A i \in 1..Len(wire[s]) : ~Begins(wire[s][i])

\* A request that was begun has a serial, and the next one a higher one.
PeerOK(s) == peerN[s] <= made /\ (peer[s] # "idle" => peerN[s] # None)

\* Records lie on the wire in the order they were sent, and none was sent that
\* the web server has not come to yet.
WireOrder(s) == \A i, j \in 1..Len(wire[s]) : i < j => Before(wire[s][i], wire[s][j])
WireSent(s) == \A i \in 1..Len(wire[s]) :
    /\ wire[s][i].n <= peerN[s] /\ wire[s][i].kind # "DONE"
    /\ wire[s][i].n = peerN[s] => Rank(wire[s][i].kind) <= Sent(peer[s])

\* A BEGIN_REQUEST on the wire is that of the current request, which is neither
\* in the map nor answered.
WireBegin(s) == \A i \in 1..Len(wire[s]) : Begins(wire[s][i]) =>
    wire[s][i].n = peerN[s] /\ s \notin Live /\ reply[s] = <<>> /\ peer[s] # "idle"

\* A request in the map is the current one, not answered, and all that is on its
\* way to it belongs to it.
LiveOwn(s) == s \in Live =>
    /\ serial[s] = peerN[s] /\ reply[s] = <<>> /\ peer[s] # "idle"
    /\ \A i \in 1..Len(wire[s]) : wire[s][i].n = serial[s]
    /\ \A i \in 1..Len(mail[s]) : mail[s][i].n = serial[s]

\* Its messages are in the order of the records, before those on the wire.
MailOrder(s) == s \in Live =>
    \A i \in 1..Len(mail[s]) : mail[s][i].kind # "DONE" =>
        /\ Rank(mail[s][i].kind) <= Sent(peer[s])
        /\ \A j \in 1..Len(mail[s]) :
               i < j /\ mail[s][j].kind # "DONE" => Rank(mail[s][i].kind) < Rank(mail[s][j].kind)
        /\ \A j \in 1..Len(wire[s]) : Rank(mail[s][i].kind) < Rank(wire[s][j].kind)

\* After response_start() nothing can come any more but an abort and the
\* completion of the job; before, there is no job.
Started(s) == s \in Live /\ step[s] = "Finish" =>
    /\ state[s] = "OUT" /\ role[s] = "RESPONDER" /\ peer[s] \in {"waiting", "aborted"}
    /\ \A i \in 1..Len(mail[s]) : mail[s][i].kind \in {"ABORT", "DONE"}
    /\ \A i \in 1..Len(wire[s]) : wire[s][i].kind = "ABORT"
NotStarted(s) == s \in Live /\ step[s] = "Start" => NoJob(s)

\* A completion comes after response_start(), from the request's own job, which
\* is over.
DoneOK(s) == s \in Live => \A i \in 1..Len(mail[s]) : mail[s][i].kind = "DONE" =>
    step[s] = "Finish" /\ NoJob(s) /\ Contains(completed, [slot |-> s, n |-> serial[s]])

ReplyOK(s) ==
    /\ Len(reply[s]) <= 1
    /\ reply[s] # <<>> =>
        /\ s \notin Live /\ reply[s][1].n = peerN[s] /\ peer[s] # "idle"
        /\ reply[s][1].status = "page" => Contains(completed, [slot |-> s, n |-> peerN[s]])

InOrder(s) ==
    /\ PeerOK(s) /\ WireOrder(s) /\ WireSent(s) /\ WireBegin(s)
    /\ LiveOwn(s) /\ MailOrder(s) /\ Started(s) /\ NotStarted(s) /\ DoneOK(s) /\ ReplyOK(s)

\* All that, unless the web server sent a record of a request after its input.
Plain(s) == "late" \notin strayed[s]
SlotOK(s) == PeerOK(s) /\ (Plain(s) => InOrder(s))

\* A slot without late records has one job at most.  Its request waits for it,
\* or was aborted, and then the slot is not used again; or main() is over.
JobOK(job) ==
    \/ phase = "exited" \/ ~Plain(job.slot)
    \/ serial[job.slot] = job.n /\ step[job.slot] = "Finish"
    \/ peer[job.slot] = "aborted" /\ job.slot \notin Live /\ reply[job.slot] = <<>> /\ NoBegin(job.slot)
JobsOK ==
    /\ \A i, j \in 1..Len(pending) : i # j /\ Plain(pending[i].slot) => pending[i].slot # pending[j].slot
    /\ \A i \in 1..Len(pending) : JobOK(pending[i])

\* A job runs only while there is one and the thread has not ended; main()
\* waits for that end.
ThreadOK ==
    /\ running => ~ended /\ ~jobRan /\ pending # <<>>
    /\ jobRan => ~ended /\ pending # <<>>
    /\ phase = "exited" => ended

IInv == TypeOK /\ JobsOK /\ ThreadOK /\ \A s \in Slot : SlotOK(s)

-----------------------------------------------------------------------------
(* Lemmas on sequences *)

LEMMA TailOf ==
    ASSUME NEW S, NEW q \in Seq(S), q # <<>>
    PROVE  /\ Len(q) \in Nat /\ 1 \in 1..Len(q) /\ Head(q) = q[1] /\ Head(q) \in S
           /\ Tail(q) \in Seq(S) /\ Len(Tail(q)) = Len(q) - 1
           /\ \A i \in 1..Len(Tail(q)) : i + 1 \in 1..Len(q) /\ Tail(q)[i] = q[i + 1]
<1>1. Len(q) \in Nat \ {0}
  BY EmptySeq
<1>2. QED
  BY <1>1, HeadTailProperties

LEMMA AppendOf ==
    ASSUME NEW S, NEW q \in Seq(S), NEW e \in S
    PROVE  /\ Len(q) \in Nat /\ Append(q, e) \in Seq(S) /\ Len(Append(q, e)) = Len(q) + 1
           /\ \A i \in 1..Len(Append(q, e)) : (i \in 1..Len(q) /\ Append(q, e)[i] = q[i])
                                               \/ (i = Len(q) + 1 /\ Append(q, e)[i] = e)
<1>1. Len(q) \in Nat
  BY LenProperties
<1>2. QED
  BY <1>1, AppendProperties

LEMMA ContainsAppend ==
    ASSUME NEW S, NEW q \in Seq(S), NEW e \in S
    PROVE  /\ Contains(Append(q, e), e)
           /\ \A x : Contains(q, x) => Contains(Append(q, e), x)
<1>1. /\ Len(q) \in Nat /\ Len(Append(q, e)) = Len(q) + 1
      /\ \A i \in 1..Len(q) : Append(q, e)[i] = q[i]
      /\ Append(q, e)[Len(q) + 1] = e
  BY LenProperties, AppendProperties
<1>2. QED
  BY <1>1 DEF Contains

-----------------------------------------------------------------------------
(* Types *)

LEMMA Serials == MaxRequests \in Nat /\ None \notin Serial /\ \A n \in 0..MaxRequests : n # None <=> n \in Serial
BY ServerAssumption DEF Serial, None

LEMMA TypeInit == Init => TypeOK
<1> SUFFICES ASSUME Init PROVE TypeOK
  OBVIOUS
<1>1. 0 \in 0..MaxRequests
  BY ServerAssumption
<1>2. <<>> \in Seq(Record) /\ <<>> \in Seq(Answer) /\ <<>> \in Seq(Slot) /\ <<>> \in Seq(Job)
  BY EmptySeq
<1>3. jobRan \in BOOLEAN /\ stopped \in BOOLEAN /\ ended \in BOOLEAN /\ running \in BOOLEAN
  BY Zenon DEF Init, Jobs!ServiceInit
<1>4. QED
  BY <1>1, <1>2, <1>3 DEF Init, TypeOK, PeerState, Jobs!ServiceInit, None

\* What the peer and the requests name is a request.
LEMMA SerialOf ==
    ASSUME TypeOK, NEW s \in Slot
    PROVE  /\ PeerOK(s) /\ peer[s] # "idle" => peerN[s] \in Serial
           /\ s \in Live => serial[s] \in Serial
BY Serials DEF TypeOK, PeerOK, Live

LEMMA PeerTypes ==
    ASSUME TypeOK, NEW s \in Slot, PeerOK(s), PeerBegins(s) \/ PeerAborts(s) \/ PeerLate(s) \/ PeerStep(s)
    PROVE  TypeOK'
<1> USE DEF requestVars, jobVars
<1>0. ASSUME NEW option \in Options, NEW n, Strays(s, option, n)
      PROVE  strayed' \in [Slot -> SUBSET Options]
  BY <1>0 DEF Strays, TypeOK
<1>1. ASSUME NEW kind \in {"BEGIN", "BEGIN_FILTER"}, BeginsWith(s, kind), strayed' \in [Slot -> SUBSET Options]
      PROVE  TypeOK'
  <2>1. made + 1 \in Serial /\ made' = made + 1 /\ made' \in 0..MaxRequests
    BY <1>1, Serials DEF BeginsWith, TypeOK, Serial
  <2>2. [kind |-> kind, n |-> made'] \in Record
    BY <2>1 DEF Record, Kind
  <2>3. Append(wire[s], [kind |-> kind, n |-> made']) \in Seq(Record)
    BY <2>2, AppendProperties DEF TypeOK
  <2>4. wire' \in [Slot -> Seq(Record)]
    BY <1>1, <2>3 DEF BeginsWith, TypeOK
  <2>5. peerN' \in [Slot -> 0..MaxRequests] /\ peer' \in [Slot -> PeerState]
    BY <1>1, <2>1 DEF BeginsWith, TypeOK, PeerState
  <2>6. QED
    BY <1>1, <2>1, <2>4, <2>5 DEF BeginsWith, TypeOK
<1>2. ASSUME NEW kind \in Kind, NEW from \in PeerState \ {"idle"}, NEW to \in PeerState, Sends(s, kind, from, to),
             strayed' \in [Slot -> SUBSET Options]
      PROVE  TypeOK'
  <2>1. peerN[s] \in Serial
    BY <1>2, SerialOf DEF Sends
  <2>2. [kind |-> kind, n |-> peerN[s]] \in Record
    BY <2>1 DEF Record
  <2>3. Append(wire[s], [kind |-> kind, n |-> peerN[s]]) \in Seq(Record)
    BY <2>2, AppendProperties DEF TypeOK
  <2>4. wire' \in [Slot -> Seq(Record)] /\ peer' \in [Slot -> PeerState]
    BY <1>2, <2>3 DEF Sends, TypeOK
  <2>5. QED
    BY <1>2, <2>4 DEF Sends, TypeOK
<1>3. CASE PeerReads(s)
  <2>1. Tail(reply[s]) \in Seq(Answer)
    BY <1>3, HeadTailProperties DEF PeerReads, TypeOK
  <2>2. reply' \in [Slot -> Seq(Answer)] /\ peer' \in [Slot -> PeerState]
    BY <1>3, <2>1 DEF PeerReads, TypeOK, PeerState
  <2>3. QED
    BY <1>3, <2>2 DEF PeerReads, TypeOK
<1>4. UNCHANGED strayed => strayed' \in [Slot -> SUBSET Options]
  BY DEF TypeOK
<1>5. CASE PeerBegins(s)
  BY <1>0, <1>1, <1>4, <1>5 DEF PeerBegins, Options
<1>6. CASE PeerAborts(s)
  BY <1>0, <1>2, <1>6 DEF PeerAborts, PeerState, Kind, Options
<1>7. CASE PeerLate(s)
  BY <1>0, <1>2, <1>7 DEF PeerLate, PeerState, Kind, Options
<1>8. CASE PeerContinues(s)
  <2>1. strayed' \in [Slot -> SUBSET Options]
    BY <1>0, <1>4, <1>8 DEF PeerContinues, Options
  <2>2. QED
    BY <1>2, <1>8, <2>1 DEF PeerContinues, PeerState, Kind
<1>9. QED
  BY <1>3, <1>5, <1>6, <1>7, <1>8 DEF PeerStep

LEMMA ReadTypes ==
    ASSUME TypeOK, NEW s \in Slot, Receive(s)
    PROVE  TypeOK'
<1> USE DEF requestVars, jobVars
<1>1. Reads(s)
  BY DEF Receive, ReceiveForRequest, ReceiveBegin, ReceiveStray
<1>2. First(s) \in Record /\ Tail(wire[s]) \in Seq(Record)
  BY <1>1, TailOf DEF Reads, First, TypeOK
<1>3. wire' \in [Slot -> Seq(Record)] /\ turn' \in {"read", "take"}
  BY <1>1, <1>2 DEF Reads, TypeOK
<1>4. CASE ReceiveForRequest(s)
  <2>1. Append(mail[s], First(s)) \in Seq(Record) /\ Append(tasks, s) \in Seq(Slot)
    BY <1>2, AppendProperties DEF TypeOK
  <2>2. mail' \in [Slot -> Seq(Record)] /\ tasks' \in Seq(Slot)
    BY <1>4, <2>1 DEF ReceiveForRequest, Deliver, TypeOK
  <2>3. QED
    BY <1>1, <1>3, <1>4, <2>2 DEF ReceiveForRequest, Reads, TypeOK
<1>5. CASE ReceiveBegin(s)
  <2>1. First(s).n \in 0..MaxRequests /\ <<>> \in Seq(Record)
    BY <1>2, Serials, EmptySeq DEF Record, Serial
  <2>2. serial' \in [Slot -> 0..MaxRequests] /\ role' \in [Slot -> {"RESPONDER", "FILTER"}]
    BY <1>5, <2>1 DEF ReceiveBegin, TypeOK
  <2>3. /\ state' \in [Slot -> {"PARAMS", "IN", "OUT"}] /\ step' \in [Slot -> {"Start", "Finish"}]
        /\ mail' \in [Slot -> Seq(Record)]
    BY <1>5, <2>1 DEF ReceiveBegin, TypeOK
  <2>4. QED
    BY <1>1, <1>3, <1>5, <2>2, <2>3 DEF ReceiveBegin, Reads, TypeOK
<1>6. CASE ReceiveStray(s)
  BY <1>1, <1>3, <1>6 DEF ReceiveStray, Reads, TypeOK
<1>7. QED
  BY <1>4, <1>5, <1>6 DEF Receive

\* The ten ways to handle a task, by what they do to the request: leave it
\* alone, take a message, start the job, answer and erase, erase.
LEMMA TakeTypes ==
    ASSUME TypeOK, NEW s \in Slot, Takes(s)
    PROVE  tasks' \in Seq(Slot) /\ turn' \in {"read", "take"} /\ s \in Slot
BY TailOf DEF Takes, TypeOK

LEMMA PopTypes ==
    ASSUME TypeOK, NEW s \in Slot, mail[s] # <<>>, Pop(s)
    PROVE  mail' \in [Slot -> Seq(Record)]
<1>1. Tail(mail[s]) \in Seq(Record)
  BY TailOf DEF TypeOK
<1>2. QED
  BY <1>1 DEF Pop, TypeOK

LEMMA EraseTypes ==
    ASSUME TypeOK, NEW s \in Slot, Erase(s)
    PROVE  serial' \in [Slot -> 0..MaxRequests] /\ mail' \in [Slot -> Seq(Record)]
<1>1. None \in 0..MaxRequests /\ <<>> \in Seq(Record)
  BY Serials, EmptySeq DEF None
<1>2. QED
  BY <1>1 DEF Erase, TypeOK

LEMMA CompletesTypes ==
    ASSUME TypeOK, NEW s \in Slot, s \in Live, NEW status \in Status, Completes(s, status)
    PROVE  /\ serial' \in [Slot -> 0..MaxRequests] /\ mail' \in [Slot -> Seq(Record)]
           /\ reply' \in [Slot -> Seq(Answer)]
<1>1. [status |-> status, n |-> serial[s]] \in Answer
  BY SerialOf DEF Answer
<1>2. Append(reply[s], [status |-> status, n |-> serial[s]]) \in Seq(Answer)
  BY <1>1, AppendProperties DEF TypeOK
<1>3. QED
  BY <1>2, EraseTypes DEF Completes, TypeOK

LEMMA HandleTypes ==
    ASSUME TypeOK, NEW s \in Slot, Handle(s)
    PROVE  TypeOK'
<1> USE DEF requestVars, jobVars, peerVars
<1>1. Takes(s)
  BY DEF Handle, HandleVoid, HandleNothing, HandleQuiet, HandleStart, HandleUnknownRole, HandleOutOfOrder,
         HandleRefused, HandleFinish, HandleTooLong, HandleAbort, Handles, Responds
<1>2. tasks' \in Seq(Slot) /\ turn' \in {"read", "take"}
  BY <1>1, TakeTypes
<1>3. ASSUME state' \in [Slot -> {"PARAMS", "IN", "OUT"}], s \in Live, NEW status \in Status, Completes(s, status)
      PROVE  TypeOK'
  BY <1>2, <1>3, CompletesTypes DEF Completes, TypeOK
<1>4. ASSUME Responds(s)
      PROVE  state' \in [Slot -> {"PARAMS", "IN", "OUT"}] /\ s \in Live /\ mail[s] # <<>>
  BY <1>4 DEF Responds, Handles, TypeOK
<1>5. CASE HandleVoid(s)
  BY <1>2, <1>5 DEF HandleVoid, TypeOK
<1>6. CASE HandleNothing(s)
  BY <1>2, <1>6 DEF HandleNothing, TypeOK
<1>7. CASE HandleQuiet(s)
  <2>1. mail' \in [Slot -> Seq(Record)]
    BY <1>7, PopTypes DEF HandleQuiet, Handles
  <2>2. state' \in [Slot -> {"PARAMS", "IN", "OUT"}]
    BY <1>7 DEF HandleQuiet, TypeOK
  <2>3. QED
    BY <1>2, <1>7, <2>1, <2>2 DEF HandleQuiet, TypeOK
<1>8. CASE HandleStart(s)
  <2>1. mail' \in [Slot -> Seq(Record)] /\ state' \in [Slot -> {"PARAMS", "IN", "OUT"}]
    BY <1>4, <1>8, PopTypes DEF HandleStart
  <2>2. step' \in [Slot -> {"Start", "Finish"}]
    BY <1>8 DEF HandleStart, TypeOK
  <2>3. [slot |-> s, n |-> serial[s]] \in Job
    BY <1>4, <1>8, SerialOf DEF HandleStart, Job
  <2>4. pending' \in Seq(Job)
    BY <1>8, <2>3, AppendProperties DEF HandleStart, Jobs!Submit, TypeOK
  <2>5. QED
    BY <1>2, <1>8, <2>1, <2>2, <2>4 DEF HandleStart, Jobs!Submit, TypeOK
<1>9. CASE HandleUnknownRole(s)
  BY <1>3, <1>9 DEF HandleUnknownRole, Status, TypeOK
<1>10. CASE HandleOutOfOrder(s)
  BY <1>3, <1>10 DEF HandleOutOfOrder, Handles, Status, TypeOK
<1>11. CASE HandleRefused(s)
  BY <1>3, <1>4, <1>11 DEF HandleRefused, Status
<1>12. CASE HandleFinish(s)
  BY <1>3, <1>4, <1>12 DEF HandleFinish, Status
<1>13. CASE HandleTooLong(s)
  BY <1>3, <1>13 DEF HandleTooLong, Handles, Status, TypeOK
<1>14. CASE HandleAbort(s)
  <2>1. serial' \in [Slot -> 0..MaxRequests] /\ mail' \in [Slot -> Seq(Record)]
    BY <1>14, EraseTypes DEF HandleAbort
  <2>2. QED
    BY <1>2, <1>14, <2>1 DEF HandleAbort, TypeOK
<1>15. QED
  BY <1>5, <1>6, <1>7, <1>8, <1>9, <1>10, <1>11, <1>12, <1>13, <1>14 DEF Handle

LEMMA JobTypes ==
    ASSUME TypeOK, jobRan => pending # <<>>, JobStep
    PROVE  TypeOK'
<1> USE DEF requestVars, jobVars, peerVars
<1>1. CASE JobBegins
  BY <1>1 DEF JobBegins, TypeOK
<1>2. CASE JobEnds
  BY <1>2 DEF JobEnds, Jobs!Perform, TypeOK
<1>3. CASE JobCompletes
  <2>1. jobRan /\ pending # <<>>
    BY <1>3 DEF JobCompletes, Jobs!Complete
  <2> DEFINE job == Head(pending)
             done == [kind |-> "DONE", n |-> job.n]
  <2>2. job \in Job /\ Tail(pending) \in Seq(Job)
    BY <2>1, TailOf DEF TypeOK
  <2>3. job.slot \in Slot /\ done \in Record
    BY <2>2 DEF Job, Record, Kind
  <2>4. pending' \in Seq(Job) /\ completed' \in Seq(Job) /\ jobRan' \in BOOLEAN
    BY <1>3, <2>2, AppendProperties DEF JobCompletes, Jobs!Complete, TypeOK
  <2>5. Append(mail[job.slot], done) \in Seq(Record) /\ Append(tasks, job.slot) \in Seq(Slot)
    BY <2>3, AppendProperties DEF TypeOK
  <2>6. mail' \in [Slot -> Seq(Record)] /\ tasks' \in Seq(Slot)
    BY <1>3, <2>5 DEF JobCompletes, Deliver, TypeOK
  <2>7. QED
    BY <1>3, <2>4, <2>6 DEF JobCompletes, Jobs!Complete, TypeOK
<1>4. CASE JobThreadEnds
  BY <1>4 DEF JobThreadEnds, Jobs!End, TypeOK
<1>5. QED
  BY <1>1, <1>2, <1>3, <1>4 DEF JobStep

LEMMA TypeStep == IInv /\ [Next]_vars => TypeOK'
<1> SUFFICES ASSUME IInv, [Next]_vars PROVE TypeOK'
  OBVIOUS
<1> USE DEF requestVars, jobVars, peerVars
<1>1. TypeOK /\ (jobRan => pending # <<>>) /\ \A s \in Slot : PeerOK(s)
  BY DEF IInv, ThreadOK, SlotOK
<1>2. CASE \E s \in Slot : PeerBegins(s) \/ PeerAborts(s) \/ PeerLate(s) \/ PeerStep(s)
  BY <1>1, <1>2, PeerTypes
<1>3. CASE Loop
  <2>1. CASE NoTask
    BY <1>1, <2>1 DEF NoTask, TypeOK
  <2>2. QED
    BY <1>1, <1>3, <2>1, ReadTypes, HandleTypes DEF Loop
<1>4. CASE JobStep
  BY <1>1, <1>4, JobTypes
<1>5. CASE Halt
  BY <1>1, <1>5 DEF Halt, TypeOK
<1>6. CASE StopJobs
  BY <1>1, <1>6 DEF StopJobs, Jobs!Stop, TypeOK
<1>7. CASE Exit
  <2>1. None \in 0..MaxRequests /\ <<>> \in Seq(Record)
    BY Serials, EmptySeq DEF None
  <2>2. QED
    BY <1>1, <1>7, <2>1 DEF Exit, TypeOK
<1>8. CASE UNCHANGED vars
  BY <1>1, <1>8 DEF vars, TypeOK
<1>9. QED
  BY <1>2, <1>3, <1>4, <1>5, <1>6, <1>7, <1>8 DEF Next

-----------------------------------------------------------------------------
(* What a step leaves alone *)

LEMMA Ranks ==
    /\ \A kind \in Kind : Rank(kind) \in 1..6 /\ (Rank(kind) = 6 <=> kind = "ABORT")
                          /\ (Rank(kind) = 5 <=> kind = "IN_END")
                          /\ (Rank(kind) = 1 <=> kind \in {"BEGIN", "BEGIN_FILTER", "DONE"})
    /\ \A p \in PeerState : Sent(p) \in 1..6 /\ (Sent(p) >= 5 <=> p \in {"waiting", "aborted", "idle"})
                            /\ (Sent(p) = 6 <=> p \in {"aborted", "idle"})
BY DEF Rank, Sent, Kind, PeerState

LEMMA RecordTypes ==
    ASSUME TypeOK, NEW s \in Slot
    PROVE  /\ Len(wire[s]) \in Nat /\ Len(mail[s]) \in Nat /\ Len(reply[s]) \in Nat /\ Len(pending) \in Nat
           /\ \A i \in 1..Len(wire[s]) : wire[s][i] \in Record
           /\ \A i \in 1..Len(mail[s]) : mail[s][i] \in Record
           /\ \A i \in 1..Len(reply[s]) : reply[s][i] \in Answer
           /\ \A i \in 1..Len(pending) : pending[i] \in Job
           /\ peer[s] \in PeerState /\ peerN[s] \in 0..MaxRequests /\ made \in 0..MaxRequests
           /\ MaxRequests \in Nat /\ (s \in Live <=> serial[s] # None)
BY Serials, LenProperties, ElementOfSeq DEF TypeOK, Live

\* A slot none of whose queues and states changes stays in order.
LEMMA SlotFrame ==
    ASSUME TypeOK, TypeOK', NEW s \in Slot, SlotOK(s), strayed'[s] = strayed[s],
           peer'[s] = peer[s], peerN'[s] = peerN[s], wire'[s] = wire[s], reply'[s] = reply[s],
           serial'[s] = serial[s], role'[s] = role[s], state'[s] = state[s], step'[s] = step[s],
           mail'[s] = mail[s], made <= made',
           \A x : Contains(completed, x) => Contains(completed', x),
           NoJob(s) => NoJob(s)'
    PROVE  SlotOK(s)'
<1>1. PeerOK(s)'
  BY Serials DEF SlotOK, PeerOK, TypeOK
<1>2. ASSUME InOrder(s) PROVE InOrder(s)'
  <2>1. (s \in Live)' <=> s \in Live
    BY DEF Live
  <2>2. WireOrder(s)' /\ WireSent(s)' /\ WireBegin(s)'
    BY <1>2, <2>1 DEF InOrder, WireOrder, WireSent, WireBegin
  <2>3. LiveOwn(s)' /\ MailOrder(s)'
    BY <1>2, <2>1 DEF InOrder, LiveOwn, MailOrder
  <2>4. Started(s)' /\ NotStarted(s)'
    BY <1>2, <2>1 DEF InOrder, Started, NotStarted
  <2>5. DoneOK(s)'
    BY <1>2, <2>1 DEF InOrder, DoneOK
  <2>6. ReplyOK(s)'
    BY <1>2, <2>1 DEF InOrder, ReplyOK
  <2>7. QED
    BY <1>1, <2>2, <2>3, <2>4, <2>5, <2>6 DEF InOrder
<1>3. QED
  BY <1>1, <1>2 DEF SlotOK, Plain

\* So do the other slots in a step of slot s that adds no job of theirs.
Elsewhere(s) ==
    \A u \in Slot \ {s} :
        /\ peer'[u] = peer[u] /\ peerN'[u] = peerN[u] /\ wire'[u] = wire[u] /\ reply'[u] = reply[u]
        /\ serial'[u] = serial[u] /\ role'[u] = role[u] /\ state'[u] = state[u] /\ step'[u] = step[u]
        /\ mail'[u] = mail[u] /\ strayed'[u] = strayed[u]

LEMMA OtherSlots ==
    ASSUME IInv, TypeOK', NEW s \in Slot, Elsewhere(s), made <= made', completed' = completed,
           \A u \in Slot \ {s} : NoJob(u) => NoJob(u)'
    PROVE  \A u \in Slot \ {s} : SlotOK(u)'
BY SlotFrame DEF IInv, Elsewhere

\* And their jobs, when the queue of jobs does not change.
LEMMA OtherJobs ==
    ASSUME IInv, TypeOK', NEW s \in Slot, Elsewhere(s), pending' = pending, phase' = phase \/ phase # "exited",
           Plain(s)' => Plain(s),
           \A i \in 1..Len(pending) : pending[i].slot = s => JobOK(pending[i])'
    PROVE  JobsOK'
<1>1. ASSUME NEW i \in 1..Len(pending), pending[i].slot # s
      PROVE  JobOK(pending[i])'
  <2>1. pending[i].slot \in Slot \ {s} /\ JobOK(pending[i])
    BY <1>1, RecordTypes DEF IInv, JobsOK, Job
  <2>2. QED
    BY <2>1 DEF JobOK, Elsewhere, Live, NoBegin, Plain
<1>2. ASSUME NEW i \in 1..Len(pending), Plain(pending[i].slot)'
      PROVE  Plain(pending[i].slot)
  <2>1. pending[i].slot \in Slot
    BY RecordTypes DEF IInv, Job
  <2>2. QED
    BY <1>2, <2>1 DEF Elsewhere, Plain
<1>3. \A i, j \in 1..Len(pending) : i # j /\ Plain(pending[i].slot)' => pending[i].slot # pending[j].slot
  BY <1>2 DEF IInv, JobsOK
<1>4. QED
  BY <1>1, <1>3 DEF IInv, JobsOK, Plain

\* A step of one slot, of the web server or of the loop, leaves the others alone.
LEMMA StepOfSlot ==
    ASSUME TypeOK, NEW s \in Slot,
           PeerBegins(s) \/ PeerAborts(s) \/ PeerLate(s) \/ PeerStep(s) \/ Receive(s) \/ Handle(s)
    PROVE  /\ Elsewhere(s) /\ completed' = completed /\ made <= made'
           /\ pending' = pending \/ (HandleStart(s) /\ pending' = Append(pending, [slot |-> s, n |-> serial[s]]))
           /\ phase' = phase \/ (phase = "serving" /\ phase' = "undefined")
           /\ running' = running /\ jobRan' = jobRan /\ ended' = ended
           /\ Plain(s)' => Plain(s)
<1> USE DEF peerVars, requestVars, jobVars
<1>1. made \in Nat /\ made <= made
  BY RecordTypes
<1>2. ASSUME NEW option, NEW n, Strays(s, option, n) \/ UNCHANGED strayed
      PROVE  (Plain(s)' => Plain(s)) /\ \A u \in Slot \ {s} : strayed'[u] = strayed[u]
  BY <1>2 DEF Strays, Plain, TypeOK
<1>3. CASE PeerBegins(s)
  <2>1. PICK kind \in {"BEGIN", "BEGIN_FILTER"} : BeginsWith(s, kind)
    BY <1>3 DEF PeerBegins
  <2>2. (Plain(s)' => Plain(s)) /\ \A u \in Slot \ {s} : strayed'[u] = strayed[u]
    BY <1>2, <1>3 DEF PeerBegins
  <2>3. Elsewhere(s)
    BY <2>1, <2>2 DEF Elsewhere, BeginsWith, TypeOK
  <2>4. QED
    BY <1>1, <2>1, <2>2, <2>3 DEF BeginsWith
<1>4. CASE PeerAborts(s) \/ PeerLate(s) \/ PeerContinues(s)
  <2>1. PICK kind, from, to : Sends(s, kind, from, to)
    BY <1>4 DEF PeerAborts, PeerLate, PeerContinues
  <2>2. (Plain(s)' => Plain(s)) /\ \A u \in Slot \ {s} : strayed'[u] = strayed[u]
    BY <1>2, <1>4 DEF PeerAborts, PeerLate, PeerContinues
  <2>3. Elsewhere(s)
    BY <2>1, <2>2 DEF Elsewhere, Sends, TypeOK
  <2>4. QED
    BY <1>1, <2>1, <2>2, <2>3 DEF Sends
<1>5. CASE PeerReads(s)
  <2>1. Elsewhere(s)
    BY <1>5 DEF Elsewhere, PeerReads, TypeOK
  <2>2. QED
    BY <1>1, <1>2, <1>5, <2>1 DEF PeerReads
<1>6. CASE Receive(s)
  <2>1. Elsewhere(s)
    BY SMTT(30), <1>6 DEF Elsewhere, Receive, ReceiveForRequest, ReceiveBegin, ReceiveStray, Reads, Deliver, TypeOK
  <2>2. QED
    BY <1>1, <1>2, <1>6, <2>1 DEF Receive, ReceiveForRequest, ReceiveBegin, ReceiveStray, Reads
<1>7. CASE Handle(s)
  <2>1. UNCHANGED <<peer, peerN, made, wire, strayed, completed, running, jobRan, ended>>
    BY <1>7 DEF Handle, HandleVoid, HandleNothing, HandleQuiet, HandleStart, HandleUnknownRole, HandleOutOfOrder,
                HandleRefused, HandleFinish, HandleTooLong, HandleAbort, Completes, Jobs!Submit
  <2>2. phase' = phase \/ (phase = "serving" /\ phase' = "undefined")
    BY <1>7 DEF Handle, HandleVoid, HandleNothing, HandleQuiet, HandleStart, HandleUnknownRole, HandleOutOfOrder,
                HandleRefused, HandleFinish, HandleTooLong, HandleAbort, Completes, Takes
  <2>3. pending' = pending \/ (HandleStart(s) /\ pending' = Append(pending, [slot |-> s, n |-> serial[s]]))
    BY <1>7 DEF Handle, HandleVoid, HandleNothing, HandleQuiet, HandleStart, HandleUnknownRole, HandleOutOfOrder,
                HandleRefused, HandleFinish, HandleTooLong, HandleAbort, Completes, Jobs!Submit
  <2>4. \A u \in Slot \ {s} : serial'[u] = serial[u] /\ role'[u] = role[u]
    BY <1>7 DEF Handle, HandleVoid, HandleNothing, HandleQuiet, HandleStart, HandleUnknownRole, HandleOutOfOrder,
                HandleRefused, HandleFinish, HandleTooLong, HandleAbort, Completes, Erase, TypeOK
  <2>5. \A u \in Slot \ {s} : state'[u] = state[u] /\ step'[u] = step[u]
    BY <1>7 DEF Handle, HandleVoid, HandleNothing, HandleQuiet, HandleStart, HandleUnknownRole, HandleOutOfOrder,
                HandleRefused, HandleFinish, HandleTooLong, HandleAbort, Completes, Responds, TypeOK
  <2>6. \A u \in Slot \ {s} : mail'[u] = mail[u] /\ reply'[u] = reply[u]
    BY <1>7 DEF Handle, HandleVoid, HandleNothing, HandleQuiet, HandleStart, HandleUnknownRole, HandleOutOfOrder,
                HandleRefused, HandleFinish, HandleTooLong, HandleAbort, Completes, Erase, Pop, TypeOK
  <2>7. Elsewhere(s)
    BY <2>1, <2>4, <2>5, <2>6 DEF Elsewhere
  <2>8. QED
    BY <1>1, <1>2, <2>1, <2>2, <2>3, <2>7
<1>8. QED
  BY <1>3, <1>4, <1>5, <1>6, <1>7 DEF PeerStep

\* Where a late record came, nothing is said of the slot, and nothing is needed
\* of it by the others.
LEMMA LateOK ==
    ASSUME IInv, TypeOK', NEW s \in Slot, ~Plain(s)', PeerOK(s)',
           PeerBegins(s) \/ PeerAborts(s) \/ PeerLate(s) \/ PeerStep(s) \/ Receive(s) \/ Handle(s)
    PROVE  IInv'
<1>1. TypeOK
  BY DEF IInv
<1>2. /\ Elsewhere(s) /\ completed' = completed /\ made <= made'
      /\ phase' = phase \/ (phase = "serving" /\ phase' = "undefined")
      /\ running' = running /\ jobRan' = jobRan /\ ended' = ended
  BY <1>1, StepOfSlot
<1>3. SlotOK(s)'
  BY DEF SlotOK
<1>4. ASSUME pending' = pending PROVE IInv'
  <2>1. \A u \in Slot \ {s} : NoJob(u) => NoJob(u)'
    BY <1>4 DEF NoJob
  <2>2. \A u \in Slot \ {s} : SlotOK(u)'
    BY <1>2, <2>1, OtherSlots
  <2>3. JobsOK'
    <3>1. ASSUME NEW i \in 1..Len(pending), pending[i].slot = s PROVE JobOK(pending[i])'
      BY <1>4, <3>1 DEF JobOK, Plain
    <3>2. QED
      BY <1>2, <1>4, <3>1, OtherJobs
  <2>4. ThreadOK'
    BY <1>2, <1>4 DEF IInv, ThreadOK
  <2>5. QED
    BY <1>3, <2>2, <2>3, <2>4 DEF IInv
<1>5. ASSUME HandleStart(s), pending' = Append(pending, [slot |-> s, n |-> serial[s]]) PROVE IInv'
  <2> DEFINE job == [slot |-> s, n |-> serial[s]]
  <2>1. job \in Job /\ pending \in Seq(Job) /\ phase' = phase /\ phase = "serving" /\ job.slot = s
    BY <1>1, <1>5, SerialOf DEF HandleStart, Responds, Handles, Takes, Job, TypeOK
  <2> HIDE DEF job
  <2>2. /\ Len(pending) \in Nat /\ Len(pending') = Len(pending) + 1
        /\ \A i \in 1..Len(pending') : (i \in 1..Len(pending) /\ pending'[i] = pending[i])
                                        \/ (i = Len(pending) + 1 /\ pending'[i] = job)
    BY <1>5, <2>1, AppendOf DEF job
  <2>3. \A u \in Slot \ {s} : NoJob(u) => NoJob(u)'
    BY <2>1, <2>2 DEF NoJob
  <2>4. \A u \in Slot \ {s} : SlotOK(u)'
    BY <1>2, <2>3, OtherSlots
  <2>5. ASSUME NEW i \in 1..Len(pending') PROVE JobOK(pending[i])'
    <3>1. CASE pending'[i].slot = s
      BY <3>1 DEF JobOK, Plain
    <3>2. CASE pending'[i].slot # s
      <4>1. i \in 1..Len(pending) /\ pending'[i] = pending[i] /\ pending[i].slot \in Slot \ {s} /\ JobOK(pending[i])
        BY <1>1, <2>1, <2>2, <3>2, RecordTypes DEF IInv, JobsOK, Job
      <4>2. QED
        BY <1>2, <2>1, <4>1 DEF JobOK, Elsewhere, Live, NoBegin, Plain
    <3>3. QED
      BY <3>1, <3>2
  <2>6. ASSUME NEW i \in 1..Len(pending'), NEW k \in 1..Len(pending'), i # k, Plain(pending[i].slot)'
        PROVE  pending'[i].slot # pending'[k].slot
    <3>1. pending'[i].slot # s
      BY <2>6 DEF Plain
    <3>2. i \in 1..Len(pending) /\ pending'[i] = pending[i] /\ pending[i].slot \in Slot \ {s}
      BY <1>1, <2>1, <2>2, <3>1, RecordTypes DEF Job
    <3>3. Plain(pending[i].slot)
      BY <1>2, <2>6, <3>2 DEF Elsewhere, Plain
    <3>4. CASE k \in 1..Len(pending) /\ pending'[k] = pending[k]
      BY <2>6, <3>2, <3>3, <3>4 DEF IInv, JobsOK
    <3>5. CASE pending'[k] = job
      BY <2>1, <3>1, <3>5
    <3>6. QED
      BY <2>2, <3>4, <3>5
  <2>7. JobsOK'
    BY <2>5, <2>6 DEF JobsOK
  <2>8. pending' # <<>>
    BY <2>2, EmptySeq
  <2>9. ThreadOK'
    BY <1>2, <2>1, <2>8 DEF IInv, ThreadOK
  <2>10. QED
    BY <1>3, <2>4, <2>7, <2>9 DEF IInv
<1>6. QED
  BY <1>1, <1>4, <1>5, StepOfSlot

-----------------------------------------------------------------------------
(* The web server *)

\* A new request: nothing of an earlier one is in the map or answered, and its
\* BEGIN_REQUEST is the only one on the wire.
LEMMA PeerBeginsOK ==
    ASSUME IInv, TypeOK', NEW s \in Slot, Plain(s), PeerBegins(s)
    PROVE  IInv'
<1> USE DEF requestVars, jobVars
<1> DEFINE w == wire[s]
           v == wire'[s]
<1>1. /\ peer[s] = "idle" /\ peer'[s] = "begun" /\ made' = made + 1 /\ peerN'[s] = made + 1
      /\ reply' = reply /\ serial' = serial /\ role' = role /\ state' = state /\ step' = step /\ mail' = mail
      /\ pending' = pending /\ completed' = completed /\ phase' = phase
      /\ InOrder(s) /\ TypeOK
  BY DEF PeerBegins, BeginsWith, IInv, TypeOK, SlotOK
<1>2. s \notin Live /\ (s \notin Live)' /\ reply[s] = <<>>
  BY <1>1 DEF InOrder, LiveOwn, ReplyOK, Live
<1>3. PICK kind \in {"BEGIN", "BEGIN_FILTER"} : wire' = [wire EXCEPT ![s] = Append(@, [kind |-> kind, n |-> made'])]
  BY DEF PeerBegins, BeginsWith
<1> DEFINE r == [kind |-> kind, n |-> made + 1]
<1>4. r \in Record /\ v = Append(w, r)
  BY <1>1, <1>3, Serials DEF Record, Kind, Serial, TypeOK
<1>5. /\ Len(w) \in Nat /\ Len(v) = Len(w) + 1
      /\ \A i \in 1..Len(v) : (i \in 1..Len(w) /\ v[i] = w[i]) \/ (i = Len(w) + 1 /\ v[i] = r)
  BY <1>1, <1>4, AppendOf DEF TypeOK
<1>6. \A i \in 1..Len(w) : w[i] \in Record /\ w[i].n <= peerN[s] /\ w[i].kind # "DONE" /\ ~Begins(w[i])
  BY <1>1, RecordTypes DEF InOrder, WireSent, WireBegin
<1>7. peerN[s] <= made /\ peerN[s] \in Nat /\ made \in Nat /\ \A x \in Record : x.n \in Nat /\ x.kind \in Kind
  BY <1>1, RecordTypes DEF InOrder, PeerOK, Record, Serial
<1> HIDE DEF w, v, r
<1>8. WireOrder(s)'
  <2>1. \A i, j \in 1..Len(v) : i < j => Before(v[i], v[j])
    <3> SUFFICES ASSUME NEW i \in 1..Len(v), NEW j \in 1..Len(v), i < j PROVE Before(v[i], v[j])
      OBVIOUS
    <3>1. i \in 1..Len(w) /\ v[i] = w[i]
      BY <1>5
    <3>2. CASE v[j] = r
      BY <1>6, <1>7, <3>1, <3>2 DEF Before, r
    <3>3. CASE j \in 1..Len(w) /\ v[j] = w[j]
      BY <1>1, <3>1, <3>3 DEF InOrder, WireOrder, w
    <3>4. QED
      BY <1>5, <3>2, <3>3
  <2>2. QED
    BY <2>1 DEF WireOrder, v
<1>9. WireSent(s)'
  <2>1. \A i \in 1..Len(v) : /\ v[i].n <= made + 1 /\ v[i].kind # "DONE"
                             /\ v[i].n = made + 1 => Rank(v[i].kind) <= 1
    BY <1>5, <1>6, <1>7 DEF r, Rank
  <2>2. QED
    BY <1>1, <2>1 DEF WireSent, v, Sent
<1>10. WireBegin(s)'
  BY <1>1, <1>2, <1>5, <1>6 DEF WireBegin, v, r
<1>11. PeerOK(s)'
  BY <1>1, <1>7 DEF PeerOK, None
<1>12. LiveOwn(s)' /\ MailOrder(s)' /\ Started(s)' /\ NotStarted(s)' /\ DoneOK(s)'
  BY <1>2 DEF LiveOwn, MailOrder, Started, NotStarted, DoneOK
<1>13. ReplyOK(s)'
  BY <1>1, <1>2, EmptySeq DEF ReplyOK
<1>14. Elsewhere(s)
  BY StepOfSlot, <1>1
<1>15. \A u \in Slot \ {s} : SlotOK(u)'
  <2>1. \A u \in Slot \ {s} : NoJob(u) => NoJob(u)'
    BY <1>1 DEF NoJob
  <2>2. QED
    BY <1>1, <1>7, <1>14, <2>1, OtherSlots
<1>16. JobsOK'
  <2>1. ASSUME NEW i \in 1..Len(pending), pending[i].slot = s PROVE JobOK(pending[i])'
    <3>1. JobOK(pending[i]) /\ pending[i].n # None
      BY <1>1, RecordTypes, Serials DEF IInv, JobsOK, Job
    <3>2. QED
      BY <1>1, <1>2, <2>1, <3>1 DEF JobOK, Live
  <2>2. QED
    BY <1>1, <1>14, <2>1, OtherJobs
<1>17. ThreadOK'
  BY DEF IInv, ThreadOK, PeerBegins, BeginsWith
<1>18. SlotOK(s)'
  BY <1>8, <1>9, <1>10, <1>11, <1>12, <1>13 DEF SlotOK, InOrder
<1>19. QED
  BY <1>15, <1>16, <1>17, <1>18 DEF IInv

\* The next record of a request comes after all that was sent of it.
LEMMA SendsOK ==
    ASSUME IInv, TypeOK', NEW s \in Slot,
           NEW kind \in Kind \ {"BEGIN", "BEGIN_FILTER", "DONE"},
           NEW from \in PeerState \ {"idle", "aborted"}, NEW to \in PeerState \ {"idle"},
           Sent(from) < Rank(kind), Rank(kind) = Sent(to), Sends(s, kind, from, to),
           Plain(s), \A u \in Slot \ {s} : strayed'[u] = strayed[u]
    PROVE  IInv'
<1> USE DEF requestVars, jobVars
<1> DEFINE w == wire[s]
           v == wire'[s]
           r == [kind |-> kind, n |-> peerN[s]]
<1>1. /\ peer[s] = from /\ peer'[s] = to /\ made' = made /\ peerN' = peerN
      /\ reply' = reply /\ serial' = serial /\ role' = role /\ state' = state /\ step' = step /\ mail' = mail
      /\ pending' = pending /\ completed' = completed /\ phase' = phase
      /\ InOrder(s) /\ TypeOK
  BY DEF Sends, IInv, TypeOK, SlotOK
<1>2. (s \in Live)' <=> s \in Live
  BY <1>1 DEF Live
<1>3. r \in Record /\ v = Append(w, r)
  BY <1>1, SerialOf DEF Sends, SlotOK, Record, TypeOK
<1>4. /\ Len(w) \in Nat /\ Len(v) = Len(w) + 1
      /\ \A i \in 1..Len(v) : (i \in 1..Len(w) /\ v[i] = w[i]) \/ (i = Len(w) + 1 /\ v[i] = r)
  BY <1>1, <1>3, AppendOf DEF TypeOK
<1>5. \A i \in 1..Len(w) : /\ w[i] \in Record /\ w[i].n <= peerN[s] /\ w[i].kind # "DONE"
                           /\ w[i].n = peerN[s] => Rank(w[i].kind) <= Sent(from)
  BY <1>1, RecordTypes DEF InOrder, WireSent
<1>6. /\ peerN[s] \in Nat /\ \A x \in Record : x.n \in Nat /\ x.kind \in Kind /\ Rank(x.kind) \in Nat
      /\ Sent(from) \in Nat /\ Sent(to) \in Nat /\ Rank(kind) \in Nat /\ r.n = peerN[s] /\ r.kind = kind
  <2>1. r.n = peerN[s] /\ r.kind = kind
    OBVIOUS
  <2>2. peerN[s] \in Nat /\ \A x \in Record : x.n \in Nat /\ x.kind \in Kind /\ Rank(x.kind) \in Nat
    BY <1>1, RecordTypes, Ranks DEF Record, Serial
  <2>3. Sent(from) \in Nat /\ Sent(to) \in Nat /\ Rank(kind) \in Nat
    BY <1>1, RecordTypes, Ranks
  <2>4. QED
    BY <2>1, <2>2, <2>3
<1>7. \A i \in 1..Len(w) : v[i] = w[i]
  BY <1>4
<1> HIDE DEF w, v, r
<1>8. WireOrder(s)'
  <2>1. \A i, j \in 1..Len(v) : i < j => Before(v[i], v[j])
    <3> SUFFICES ASSUME NEW i \in 1..Len(v), NEW j \in 1..Len(v), i < j PROVE Before(v[i], v[j])
      OBVIOUS
    <3>1. i \in 1..Len(w) /\ v[i] = w[i]
      BY <1>4
    <3>2. CASE v[j] = r
      BY <1>5, <1>6, <3>1, <3>2 DEF Before
    <3>3. CASE j \in 1..Len(w) /\ v[j] = w[j]
      BY <1>1, <3>1, <3>3 DEF InOrder, WireOrder, w
    <3>4. QED
      BY <1>4, <3>2, <3>3
  <2>2. QED
    BY <2>1 DEF WireOrder, v
<1>9. WireSent(s)'
  <2>1. \A i \in 1..Len(v) : /\ v[i].n <= peerN[s] /\ v[i].kind # "DONE"
                             /\ v[i].n = peerN[s] => Rank(v[i].kind) <= Sent(to)
    BY <1>4, <1>5, <1>6
  <2>2. QED
    BY <1>1, <2>1 DEF WireSent, v
<1>10. WireBegin(s)'
  <2>1. \A i \in 1..Len(v) : Begins(v[i]) => i \in 1..Len(w) /\ Begins(w[i]) /\ v[i] = w[i]
    BY <1>4, <1>6 DEF Begins
  <2>2. QED
    BY <1>1, <1>2, <2>1 DEF InOrder, WireBegin, v, w
<1>11. PeerOK(s)'
  BY <1>1 DEF InOrder, PeerOK
<1>12. LiveOwn(s)'
  BY <1>1, <1>2, <1>4, <1>6 DEF InOrder, LiveOwn, v, w
<1>13. MailOrder(s)'
  <2> SUFFICES ASSUME s \in Live, NEW i \in 1..Len(mail[s]), mail[s][i].kind # "DONE"
               PROVE  /\ Rank(mail[s][i].kind) <= Sent(to)
                      /\ \A j \in 1..Len(mail[s]) :
                             i < j /\ mail[s][j].kind # "DONE" => Rank(mail[s][i].kind) < Rank(mail[s][j].kind)
                      /\ \A j \in 1..Len(v) : Rank(mail[s][i].kind) < Rank(v[j].kind)
    BY <1>1, <1>2 DEF MailOrder, v
  <2>1. mail[s][i] \in Record
    BY <1>1, RecordTypes
  <2>2. /\ Rank(mail[s][i].kind) <= Sent(from)
        /\ \A j \in 1..Len(mail[s]) :
               i < j /\ mail[s][j].kind # "DONE" => Rank(mail[s][i].kind) < Rank(mail[s][j].kind)
        /\ \A j \in 1..Len(w) : Rank(mail[s][i].kind) < Rank(w[j].kind)
    BY <1>1 DEF InOrder, MailOrder, w
  <2>3. Rank(mail[s][i].kind) < Rank(kind)
    BY <1>6, <2>1, <2>2
  <2>4. Rank(mail[s][i].kind) <= Sent(to)
    BY <1>6, <2>1, <2>2
  <2>5. ASSUME NEW j \in 1..Len(v) PROVE Rank(mail[s][i].kind) < Rank(v[j].kind)
    BY <1>4, <1>6, <2>2, <2>3
  <2>6. QED
    BY <2>2, <2>4, <2>5
<1>14. Started(s)'
  <2> SUFFICES ASSUME s \in Live, step[s] = "Finish"
               PROVE  /\ state[s] = "OUT" /\ role[s] = "RESPONDER" /\ to \in {"waiting", "aborted"}
                      /\ \A i \in 1..Len(mail[s]) : mail[s][i].kind \in {"ABORT", "DONE"}
                      /\ \A i \in 1..Len(v) : v[i].kind = "ABORT"
    BY <1>1, <1>2 DEF Started, v
  <2>1. /\ state[s] = "OUT" /\ role[s] = "RESPONDER" /\ from \in {"waiting", "aborted"}
        /\ \A i \in 1..Len(mail[s]) : mail[s][i].kind \in {"ABORT", "DONE"}
        /\ \A i \in 1..Len(w) : w[i].kind = "ABORT"
    BY <1>1 DEF InOrder, Started, w
  <2>2. kind = "ABORT" /\ to = "aborted"
    <3>1. Sent(from) = 5
      BY <2>1 DEF Sent
    <3>2. QED
      BY <3>1, Ranks
  <2>3. QED
    BY <1>4, <1>6, <2>1, <2>2
<1>15. NotStarted(s)' /\ DoneOK(s)' /\ ReplyOK(s)'
  <2>1. NotStarted(s)' /\ DoneOK(s)'
    BY <1>1, <1>2 DEF InOrder, NotStarted, DoneOK, NoJob
  <2>2. ReplyOK(s)'
    BY <1>1, <1>2 DEF InOrder, ReplyOK
  <2>3. QED
    BY <2>1, <2>2
<1>16. Elsewhere(s)
  BY <1>1 DEF Elsewhere, Sends, TypeOK
<1>17. \A u \in Slot \ {s} : SlotOK(u)'
  <2>1. \A u \in Slot \ {s} : NoJob(u) => NoJob(u)'
    BY <1>1 DEF NoJob
  <2>2. made <= made'
    BY <1>1, RecordTypes
  <2>3. QED
    BY <1>1, <1>16, <2>1, <2>2, OtherSlots
<1>18. JobsOK'
  <2>1. ASSUME NEW i \in 1..Len(pending), pending[i].slot = s PROVE JobOK(pending[i])'
    BY <1>1, <2>1 DEF IInv, JobsOK, JobOK
  <2>2. QED
    BY <1>1, <1>16, <2>1, OtherJobs
<1>19. ThreadOK'
  BY DEF IInv, ThreadOK, Sends
<1>20. SlotOK(s)'
  BY <1>8, <1>9, <1>10, <1>11, <1>12, <1>13, <1>14, <1>15 DEF SlotOK, InOrder
<1>21. QED
  BY <1>17, <1>18, <1>19, <1>20 DEF IInv

\* The answer is read: nothing of its request is in the map, and only rests of
\* it on the wire.
LEMMA PeerReadsOK ==
    ASSUME IInv, TypeOK', NEW s \in Slot, Plain(s), PeerReads(s)
    PROVE  IInv'
<1> USE DEF requestVars, jobVars
<1>1. /\ peer'[s] = "idle" /\ made' = made /\ peerN' = peerN /\ wire' = wire /\ reply[s] # <<>>
      /\ serial' = serial /\ role' = role /\ state' = state /\ step' = step /\ mail' = mail
      /\ pending' = pending /\ completed' = completed /\ phase' = phase
      /\ reply'[s] = Tail(reply[s]) /\ InOrder(s) /\ TypeOK
  BY DEF PeerReads, IInv, TypeOK, SlotOK
<1>2. s \notin Live /\ (s \notin Live)'
  BY <1>1 DEF InOrder, ReplyOK, Live
<1>3. reply'[s] = <<>>
  <2>1. reply[s] \in Seq(Answer) /\ Len(reply[s]) <= 1
    BY <1>1 DEF InOrder, ReplyOK, TypeOK
  <2>2. ASSUME NEW q \in Seq(Answer), q # <<>>, Len(q) <= 1
        PROVE  Tail(q) \in Seq(Answer) /\ Len(Tail(q)) = 0
    <3>1. Len(q) \in Nat /\ 1 \in 1..Len(q) /\ Tail(q) \in Seq(Answer) /\ Len(Tail(q)) = Len(q) - 1
      BY <2>2, TailOf, Zenon
    <3>2. QED
      BY <2>2, <3>1
  <2>3. QED
    BY <1>1, <2>1, <2>2, EmptySeq
<1>4. NoBegin(s)
  BY <1>1 DEF InOrder, WireBegin, NoBegin
<1>5. PeerOK(s)' /\ WireOrder(s)'
  BY <1>1 DEF InOrder, PeerOK, WireOrder
<1>6. WireSent(s)'
  <2>1. \A i \in 1..Len(wire[s]) : Rank(wire[s][i].kind) <= 6
    BY <1>1, RecordTypes, Ranks DEF Record
  <2>2. \A i \in 1..Len(wire[s]) : wire[s][i].n <= peerN[s] /\ wire[s][i].kind # "DONE"
    BY <1>1 DEF InOrder, WireSent
  <2>3. QED
    BY <1>1, <2>1, <2>2 DEF WireSent, Sent
<1>7. WireBegin(s)'
  BY <1>1, <1>4 DEF WireBegin, NoBegin
<1>8. LiveOwn(s)' /\ MailOrder(s)' /\ Started(s)' /\ NotStarted(s)' /\ DoneOK(s)'
  BY <1>2 DEF LiveOwn, MailOrder, Started, NotStarted, DoneOK
<1>9. ReplyOK(s)'
  BY <1>3, EmptySeq DEF ReplyOK
<1>10. Elsewhere(s)
  BY <1>1 DEF Elsewhere, PeerReads, TypeOK
<1>11. \A u \in Slot \ {s} : SlotOK(u)'
  <2>1. \A u \in Slot \ {s} : NoJob(u) => NoJob(u)'
    BY <1>1 DEF NoJob
  <2>2. made <= made'
    BY <1>1, RecordTypes
  <2>3. QED
    BY <1>1, <1>10, <2>1, <2>2, OtherSlots
<1>12. JobsOK'
  <2>1. ASSUME NEW i \in 1..Len(pending), pending[i].slot = s PROVE JobOK(pending[i])'
    <3>1. JobOK(pending[i]) /\ pending[i].n # None
      BY <1>1, RecordTypes, Serials DEF IInv, JobsOK, Job
    <3>2. QED
      BY <1>1, <1>2, <2>1, <3>1 DEF JobOK, Live
  <2>2. QED
    BY <1>1, <1>10, <2>1, OtherJobs
<1>13. ThreadOK'
  BY DEF IInv, ThreadOK, PeerReads
<1>14. SlotOK(s)'
  BY <1>5, <1>6, <1>7, <1>8, <1>9 DEF SlotOK, InOrder
<1>15. QED
  BY <1>11, <1>12, <1>13, <1>14 DEF IInv

\* Any step of the web server.
LEMMA PeerOKs ==
    ASSUME IInv, TypeOK', NEW s \in Slot, PeerBegins(s) \/ PeerAborts(s) \/ PeerLate(s) \/ PeerStep(s)
    PROVE  IInv'
<1>1. PeerOK(s)'
  <2>1. TypeOK /\ PeerOK(s) /\ made \in Nat /\ peerN[s] \in Nat /\ made + 1 # None
    BY RecordTypes DEF IInv, SlotOK, None
  <2>2. CASE PeerBegins(s)
    BY <2>1, <2>2 DEF PeerBegins, BeginsWith, PeerOK, TypeOK
  <2>3. CASE PeerAborts(s) \/ PeerLate(s) \/ PeerContinues(s)
    BY <2>1, <2>3 DEF PeerAborts, PeerLate, PeerContinues, Sends, PeerOK, TypeOK
  <2>4. CASE PeerReads(s)
    BY <2>1, <2>4 DEF PeerReads, PeerOK, TypeOK
  <2>5. QED
    BY <2>2, <2>3, <2>4 DEF PeerStep
<1>2. CASE ~Plain(s)'
  BY <1>1, <1>2, LateOK
<1>3. ASSUME Plain(s)' PROVE Plain(s)
  BY <1>3, StepOfSlot DEF IInv
<1>4. CASE PeerBegins(s)
  BY <1>2, <1>3, <1>4, PeerBeginsOK
<1>5. CASE PeerReads(s)
  BY <1>2, <1>3, <1>5, PeerReadsOK
<1>6. \A u \in Slot \ {s} : strayed'[u] = strayed[u]
  BY StepOfSlot DEF IInv, Elsewhere
<1>7. CASE PeerAborts(s)
  <2>1. PICK from \in {"begun", "params", "body", "tail", "waiting"} : Sends(s, "ABORT", from, "aborted")
    BY <1>7 DEF PeerAborts
  <2>2. Sent(from) < Rank("ABORT") /\ Rank("ABORT") = Sent("aborted")
    BY DEF Sent, Rank
  <2>3. QED
    BY <1>2, <1>3, <1>6, <2>1, <2>2, SendsOK DEF PeerState, Kind
<1>8. CASE PeerLate(s)
  BY <1>2, <1>8 DEF PeerLate, Strays, Plain, IInv, TypeOK
<1>9. CASE PeerContinues(s)
  <2>1. PICK kind \in {"PARAMS", "PARAMS_END", "IN", "IN_TOO_LONG", "IN_END"}, from \in {"begun", "params", "body", "tail"},
             to \in {"params", "body", "tail", "waiting"} :
             Sends(s, kind, from, to) /\ Sent(from) < Rank(kind) /\ Rank(kind) = Sent(to)
    BY <1>9 DEF PeerContinues, Sent, Rank
  <2>2. QED
    BY <1>2, <1>3, <1>6, <2>1, SendsOK DEF PeerState, Kind
<1>10. QED
  BY <1>4, <1>5, <1>7, <1>8, <1>9 DEF PeerStep

-----------------------------------------------------------------------------
(* Records are read *)

\* The wire without its first record is in order, and no record left on it comes
\* before the one read.
LEMMA ReadWire ==
    ASSUME IInv, NEW s \in Slot, Plain(s), Reads(s)
    PROVE  LET w == wire[s]
               v == wire'[s]
           IN  /\ First(s) = w[1] /\ First(s) \in Record /\ 1 \in 1..Len(w) /\ Len(v) \in Nat
               /\ \A i \in 1..Len(v) : i + 1 \in 1..Len(w) /\ v[i] = w[i + 1] /\ Before(First(s), v[i])
               /\ WireOrder(s)' /\ WireSent(s)' /\ PeerOK(s)'
               /\ \A i \in 1..Len(v) : v[i].n <= peerN[s] /\ v[i] \in Record
<1> DEFINE w == wire[s]
           v == wire'[s]
<1>1. /\ peer' = peer /\ peerN' = peerN /\ made' = made /\ v = Tail(w) /\ w # <<>> /\ w \in Seq(Record)
      /\ InOrder(s) /\ TypeOK
  BY DEF Reads, IInv, TypeOK, SlotOK
<1>2. /\ First(s) = w[1] /\ First(s) \in Record /\ 1 \in 1..Len(w) /\ Len(w) \in Nat /\ Len(v) = Len(w) - 1
      /\ \A i \in 1..Len(v) : i + 1 \in 1..Len(w) /\ v[i] = w[i + 1]
  BY <1>1, TailOf DEF First
<1>3. \A i, j \in 1..Len(w) : i < j => Before(w[i], w[j])
  BY <1>1 DEF InOrder, WireOrder
<1>4. \A i \in 1..Len(w) : w[i].n <= peerN[s] /\ w[i] \in Record
  BY <1>1, RecordTypes DEF InOrder, WireSent
<1>5. \A i \in 1..Len(w) : w[i].kind # "DONE" /\ (w[i].n = peerN[s] => Rank(w[i].kind) <= Sent(peer[s]))
  BY <1>1 DEF InOrder, WireSent
<1>6. PeerOK(s)'
  BY <1>1 DEF InOrder, PeerOK
<1> HIDE DEF w, v
<1>7. Len(v) \in Nat /\ \A i, j \in 1..Len(v) : i < j => Before(v[i], v[j])
  BY <1>2, <1>3
<1>8. ASSUME NEW i \in 1..Len(v)
      PROVE  Before(First(s), v[i]) /\ v[i].n <= peerN[s] /\ v[i] \in Record
  <2>1. i + 1 \in 1..Len(w) /\ 1 < i + 1 /\ v[i] = w[i + 1]
    BY <1>2
  <2>2. Before(w[1], w[i + 1])
    BY <1>2, <1>3, <2>1
  <2>3. QED
    BY <1>2, <1>4, <2>1, <2>2
<1>9. \A i \in 1..Len(v) : v[i].kind # "DONE" /\ (v[i].n = peerN[s] => Rank(v[i].kind) <= Sent(peer[s]))
  BY <1>2, <1>5
<1>10. WireOrder(s)' /\ WireSent(s)'
  BY <1>1, <1>7, <1>8, <1>9 DEF WireOrder, WireSent, v
<1>11. QED
  BY <1>2, <1>6, <1>7, <1>8, <1>10 DEF w, v

\* A request gets its own record, after those it has and before those to come.
LEMMA ReceiveForRequestOK ==
    ASSUME IInv, TypeOK', NEW s \in Slot, Plain(s), ReceiveForRequest(s)
    PROVE  IInv'
<1> USE DEF requestVars, jobVars
<1> DEFINE w == wire[s]
           v == wire'[s]
           m == mail[s]
           l == mail'[s]
           r == First(s)
<1>1. /\ Reads(s) /\ s \in Live /\ peer' = peer /\ peerN' = peerN /\ made' = made
      /\ reply' = reply /\ serial' = serial /\ role' = role /\ state' = state /\ step' = step
      /\ pending' = pending /\ completed' = completed /\ phase' = phase
      /\ l = Append(m, r) /\ InOrder(s) /\ TypeOK
  BY DEF ReceiveForRequest, Reads, Deliver, IInv, TypeOK, SlotOK
<1>2. (s \in Live)'
  BY <1>1 DEF Live
<1>3. /\ r = w[1] /\ r \in Record /\ 1 \in 1..Len(w) /\ Len(v) \in Nat
      /\ \A i \in 1..Len(v) : i + 1 \in 1..Len(w) /\ v[i] = w[i + 1] /\ Before(r, v[i]) /\ v[i] \in Record
      /\ WireOrder(s)' /\ WireSent(s)' /\ PeerOK(s)'
  BY <1>1, ReadWire
<1>4. /\ Len(m) \in Nat /\ Len(l) = Len(m) + 1
      /\ \A i \in 1..Len(l) : (i \in 1..Len(m) /\ l[i] = m[i]) \/ (i = Len(m) + 1 /\ l[i] = r)
  BY <1>1, <1>3, AppendOf DEF TypeOK
<1>5. /\ serial[s] = peerN[s] /\ peer[s] # "idle" /\ reply[s] = <<>>
      /\ \A i \in 1..Len(w) : w[i].n = serial[s]
      /\ \A i \in 1..Len(m) : m[i].n = serial[s]
  BY <1>1 DEF InOrder, LiveOwn
<1>6. r.kind # "DONE" /\ ~Begins(r) /\ Rank(r.kind) <= Sent(peer[s]) /\ serial[s] \in Nat
  <2>1. r.n = peerN[s] /\ serial[s] \in Nat
    BY <1>1, <1>3, <1>5, RecordTypes
  <2>2. r.kind # "DONE" /\ Rank(r.kind) <= Sent(peer[s])
    BY <1>1, <1>3, <2>1 DEF InOrder, WireSent
  <2>3. ~Begins(r)
    BY <1>1, <1>3 DEF InOrder, WireBegin
  <2>4. QED
    BY <2>1, <2>2, <2>3
<1>7. \A x \in Record : x.n \in Nat /\ Rank(x.kind) \in Nat
  BY Ranks, Serials DEF Record, Serial
<1> HIDE DEF w, v, m, l, r
<1>8. ASSUME NEW i \in 1..Len(v)
      PROVE  v[i].n = serial[s] /\ Rank(r.kind) < Rank(v[i].kind)
  <2>1. v[i].n = serial[s] /\ r.n = serial[s] /\ Before(r, v[i])
    BY <1>3, <1>5
  <2>2. QED
    BY <1>6, <2>1 DEF Before
<1>9. WireBegin(s)'
  <2>1. \A i \in 1..Len(w) : ~Begins(w[i])
    BY <1>1 DEF InOrder, WireBegin, w
  <2>2. QED
    BY <1>3, <2>1 DEF WireBegin, v
<1>10. LiveOwn(s)'
  <2>1. \A i \in 1..Len(l) : l[i].n = serial[s]
    BY <1>3, <1>4, <1>5
  <2>2. QED
    BY <1>1, <1>5, <1>8, <2>1 DEF LiveOwn, v, l
<1>11. MailOrder(s)'
  <2> SUFFICES ASSUME NEW i \in 1..Len(l), l[i].kind # "DONE"
               PROVE  /\ Rank(l[i].kind) <= Sent(peer[s])
                      /\ \A j \in 1..Len(l) : i < j /\ l[j].kind # "DONE" => Rank(l[i].kind) < Rank(l[j].kind)
                      /\ \A j \in 1..Len(v) : Rank(l[i].kind) < Rank(v[j].kind)
    BY <1>1 DEF MailOrder, v, l
  <2>1. CASE i = Len(m) + 1 /\ l[i] = r
    BY <1>4, <1>6, <1>8, <2>1
  <2>2. CASE i \in 1..Len(m) /\ l[i] = m[i]
    <3>1. /\ Rank(m[i].kind) <= Sent(peer[s])
          /\ \A j \in 1..Len(m) : i < j /\ m[j].kind # "DONE" => Rank(m[i].kind) < Rank(m[j].kind)
          /\ \A j \in 1..Len(w) : Rank(m[i].kind) < Rank(w[j].kind)
      BY <1>1, <2>2 DEF InOrder, MailOrder, m, w
    <3>2. QED
      BY <1>3, <1>4, <2>2, <3>1
  <2>3. QED
    BY <1>4, <2>1, <2>2
<1>12. Started(s)'
  <2> SUFFICES ASSUME step[s] = "Finish"
               PROVE  /\ state[s] = "OUT" /\ role[s] = "RESPONDER" /\ peer[s] \in {"waiting", "aborted"}
                      /\ \A i \in 1..Len(l) : l[i].kind \in {"ABORT", "DONE"}
                      /\ \A i \in 1..Len(v) : v[i].kind = "ABORT"
    BY <1>1 DEF Started, v, l
  <2>1. /\ state[s] = "OUT" /\ role[s] = "RESPONDER" /\ peer[s] \in {"waiting", "aborted"}
        /\ \A i \in 1..Len(m) : m[i].kind \in {"ABORT", "DONE"}
        /\ \A i \in 1..Len(w) : w[i].kind = "ABORT"
    BY <1>1 DEF InOrder, Started, w, m
  <2>2. QED
    BY <1>3, <1>4, <2>1
<1>13. NotStarted(s)' /\ ReplyOK(s)'
  <2>1. NotStarted(s)'
    BY <1>1, <1>2 DEF InOrder, NotStarted, NoJob
  <2>2. ReplyOK(s)'
    BY <1>1, <1>5, EmptySeq DEF ReplyOK
  <2>3. QED
    BY <2>1, <2>2
<1>14. DoneOK(s)'
  <2>1. \A i \in 1..Len(l) : l[i].kind = "DONE" => i \in 1..Len(m) /\ m[i].kind = "DONE"
    BY <1>4, <1>6
  <2>2. QED
    BY <1>1, <2>1 DEF InOrder, DoneOK, NoJob, m, l
<1>15. Elsewhere(s)
  BY <1>1 DEF Elsewhere, ReceiveForRequest, Reads, Deliver, TypeOK
<1>16. \A u \in Slot \ {s} : SlotOK(u)'
  <2>1. \A u \in Slot \ {s} : NoJob(u) => NoJob(u)'
    BY <1>1 DEF NoJob
  <2>2. made <= made'
    BY <1>1, RecordTypes
  <2>3. QED
    BY <1>1, <1>15, <2>1, <2>2, OtherSlots
<1>17. JobsOK'
  <2>1. ASSUME NEW i \in 1..Len(pending), pending[i].slot = s PROVE JobOK(pending[i])'
    BY <1>1, <2>1 DEF IInv, JobsOK, JobOK
  <2>2. QED
    BY <1>1, <1>15, <2>1, OtherJobs
<1>18. ThreadOK'
  BY DEF IInv, ThreadOK, ReceiveForRequest, Reads
<1>19. SlotOK(s)'
  BY <1>3, <1>9, <1>10, <1>11, <1>12, <1>13, <1>14 DEF SlotOK, InOrder
<1>20. QED
  BY <1>16, <1>17, <1>18, <1>19 DEF IInv

\* A new request is the current one and finds nothing of another: no message, no
\* job, no answer.
LEMMA ReceiveBeginOK ==
    ASSUME IInv, TypeOK', NEW s \in Slot, Plain(s), ReceiveBegin(s)
    PROVE  IInv'
<1> USE DEF requestVars, jobVars
<1> DEFINE w == wire[s]
           v == wire'[s]
           r == First(s)
<1>1. /\ Reads(s) /\ s \notin Live /\ Begins(r) /\ peer' = peer /\ peerN' = peerN /\ made' = made
      /\ reply' = reply /\ serial'[s] = r.n /\ state'[s] = "PARAMS" /\ step'[s] = "Start"
      /\ mail'[s] = <<>> /\ pending' = pending /\ completed' = completed /\ phase' = phase
      /\ phase = "serving" /\ InOrder(s) /\ TypeOK
  BY DEF ReceiveBegin, Reads, IInv, TypeOK, SlotOK
<1>2. /\ r = w[1] /\ r \in Record /\ 1 \in 1..Len(w) /\ Len(v) \in Nat
      /\ \A i \in 1..Len(v) : i + 1 \in 1..Len(w) /\ v[i] = w[i + 1] /\ Before(r, v[i])
      /\ WireOrder(s)' /\ WireSent(s)' /\ PeerOK(s)'
      /\ \A i \in 1..Len(v) : v[i].n <= peerN[s] /\ v[i] \in Record
  BY <1>1, ReadWire
<1>3. r.n = peerN[s] /\ reply[s] = <<>> /\ peer[s] # "idle" /\ ~NoBegin(s)
  BY <1>1, <1>2 DEF InOrder, WireBegin, NoBegin
<1>4. r.n \in Nat /\ (\A x \in Record : x.n \in Nat /\ Rank(x.kind) \in Nat /\ Rank(x.kind) >= 1)
  BY <1>2, Ranks, Serials DEF Record, Serial
<1>5. NoJob(s)
  <2>1. ASSUME NEW i \in 1..Len(pending), pending[i].slot = s PROVE FALSE
    <3>1. JobOK(pending[i]) /\ pending[i].n # None
      BY <1>1, RecordTypes, Serials DEF IInv, JobsOK, Job
    <3>2. QED
      BY <1>1, <1>3, <2>1, <3>1 DEF JobOK, Live
  <2>2. QED
    BY <2>1 DEF NoJob
<1> HIDE DEF w, v, r
<1>6. \A i \in 1..Len(v) : v[i].n = peerN[s] /\ ~Begins(v[i])
  <2> SUFFICES ASSUME NEW i \in 1..Len(v) PROVE v[i].n = peerN[s] /\ ~Begins(v[i])
    OBVIOUS
  <2>1. Before(r, v[i]) /\ v[i] \in Record /\ v[i].n <= r.n /\ v[i].n \in Nat
    BY <1>2, <1>3, <1>4
  <2>2. v[i].n = r.n /\ Rank(r.kind) < Rank(v[i].kind)
    BY <1>4, <2>1 DEF Before
  <2>3. Rank(r.kind) = 1
    BY <1>1 DEF Rank, Begins
  <2>4. Rank(v[i].kind) # 1
    BY <2>2, <2>3
  <2>5. QED
    BY <1>3, <2>2, <2>4 DEF Rank, Begins
<1>7. WireBegin(s)'
  BY <1>6 DEF WireBegin, v
<1>8. LiveOwn(s)'
  <2>1. Len(mail'[s]) = 0
    BY <1>1, EmptySeq
  <2>2. QED
    BY <1>1, <1>3, <1>6, <2>1 DEF LiveOwn, v
<1>9. MailOrder(s)' /\ Started(s)' /\ NotStarted(s)' /\ DoneOK(s)' /\ ReplyOK(s)'
  <2>1. Len(mail'[s]) = 0 /\ Len(reply'[s]) = 0
    BY <1>1, <1>3, EmptySeq
  <2>2. MailOrder(s)' /\ DoneOK(s)'
    BY <2>1 DEF MailOrder, DoneOK
  <2>3. Started(s)' /\ NotStarted(s)'
    BY <1>1, <1>5 DEF Started, NotStarted, NoJob
  <2>4. ReplyOK(s)'
    BY <1>1, <1>3, <2>1 DEF ReplyOK
  <2>5. QED
    BY <2>2, <2>3, <2>4
<1>10. Elsewhere(s)
  BY <1>1 DEF Elsewhere, ReceiveBegin, Reads, TypeOK
<1>11. \A u \in Slot \ {s} : SlotOK(u)'
  <2>1. \A u \in Slot \ {s} : NoJob(u) => NoJob(u)'
    BY <1>1 DEF NoJob
  <2>2. made <= made'
    BY <1>1, RecordTypes
  <2>3. QED
    BY <1>1, <1>10, <2>1, <2>2, OtherSlots
<1>12. JobsOK'
  BY <1>1, <1>5, <1>10, OtherJobs DEF NoJob
<1>13. ThreadOK'
  BY DEF IInv, ThreadOK, ReceiveBegin, Reads
<1>14. SlotOK(s)'
  BY <1>2, <1>7, <1>8, <1>9 DEF SlotOK, InOrder
<1>15. QED
  BY <1>11, <1>12, <1>13, <1>14 DEF IInv

\* What is left of a request that is no longer in the map is discarded.
LEMMA ReceiveStrayOK ==
    ASSUME IInv, TypeOK', NEW s \in Slot, Plain(s), ReceiveStray(s)
    PROVE  IInv'
<1> USE DEF requestVars, jobVars
<1> DEFINE w == wire[s]
           v == wire'[s]
<1>1. /\ Reads(s) /\ s \notin Live /\ peer' = peer /\ peerN' = peerN /\ made' = made
      /\ reply' = reply /\ serial' = serial /\ role' = role /\ state' = state /\ step' = step /\ mail' = mail
      /\ pending' = pending /\ completed' = completed /\ phase' = phase /\ InOrder(s) /\ TypeOK
  BY DEF ReceiveStray, Reads, IInv, TypeOK, SlotOK
<1>2. /\ Len(v) \in Nat /\ \A i \in 1..Len(v) : i + 1 \in 1..Len(w) /\ v[i] = w[i + 1]
      /\ WireOrder(s)' /\ WireSent(s)' /\ PeerOK(s)'
  BY <1>1, ReadWire
<1>3. (s \notin Live)'
  BY <1>1 DEF Live
<1>4. WireBegin(s)'
  BY <1>1, <1>2, <1>3 DEF InOrder, WireBegin
<1>5. LiveOwn(s)' /\ MailOrder(s)' /\ Started(s)' /\ NotStarted(s)' /\ DoneOK(s)'
  BY <1>3 DEF LiveOwn, MailOrder, Started, NotStarted, DoneOK
<1>6. ReplyOK(s)'
  BY <1>1, <1>3 DEF InOrder, ReplyOK
<1>7. Elsewhere(s)
  BY <1>1 DEF Elsewhere, ReceiveStray, Reads, TypeOK
<1>8. \A u \in Slot \ {s} : SlotOK(u)'
  <2>1. \A u \in Slot \ {s} : NoJob(u) => NoJob(u)'
    BY <1>1 DEF NoJob
  <2>2. made <= made'
    BY <1>1, RecordTypes
  <2>3. QED
    BY <1>1, <1>7, <2>1, <2>2, OtherSlots
<1>9. JobsOK'
  <2>1. ASSUME NEW i \in 1..Len(pending), pending[i].slot = s PROVE JobOK(pending[i])'
    BY <1>1, <1>2, <1>3, <2>1 DEF IInv, JobsOK, JobOK, NoBegin
  <2>2. QED
    BY <1>1, <1>7, <2>1, OtherJobs
<1>10. ThreadOK'
  BY DEF IInv, ThreadOK, ReceiveStray, Reads
<1>11. SlotOK(s)'
  BY <1>2, <1>4, <1>5, <1>6 DEF SlotOK, InOrder
<1>12. QED
  BY <1>8, <1>9, <1>10, <1>11 DEF IInv

-----------------------------------------------------------------------------
(* Requests are handled *)

\* A handler leaves the web server alone.
LEMMA HandledWire ==
    ASSUME IInv, NEW s \in Slot, Plain(s), UNCHANGED peerVars
    PROVE  PeerOK(s)' /\ WireOrder(s)' /\ WireSent(s)'
<1>1. InOrder(s) /\ peer' = peer /\ peerN' = peerN /\ made' = made /\ wire' = wire
  BY DEF IInv, SlotOK, peerVars
<1>2. PeerOK(s)'
  BY <1>1 DEF InOrder, PeerOK
<1>3. WireOrder(s)'
  BY <1>1 DEF InOrder, WireOrder
<1>4. WireSent(s)'
  BY <1>1 DEF InOrder, WireSent
<1>5. QED
  BY <1>2, <1>3, <1>4

\* A request may leave the map, unanswered or with its answer, when it has no
\* job, or when it was aborted.
LEMMA LeavesOK ==
    ASSUME IInv, TypeOK', NEW s \in Slot, Plain(s), s \in Live, Elsewhere(s), UNCHANGED <<peerVars, jobVars, running, phase>>,
           phase = "serving", Erase(s), ReplyOK(s)',
           NoJob(s) \/ (peer[s] = "aborted" /\ reply'[s] = <<>>)
    PROVE  IInv'
<1>1. /\ (s \notin Live)' /\ peer' = peer /\ peerN' = peerN /\ made' = made /\ wire' = wire
      /\ pending' = pending /\ completed' = completed /\ phase' = phase /\ InOrder(s) /\ TypeOK
  BY DEF Erase, Live, peerVars, jobVars, IInv, TypeOK, SlotOK
<1>2. \A i \in 1..Len(wire[s]) : ~Begins(wire[s][i])
  BY <1>1 DEF InOrder, WireBegin
<1>3. WireBegin(s)'
  BY <1>1, <1>2 DEF WireBegin
<1>4. LiveOwn(s)' /\ MailOrder(s)' /\ Started(s)' /\ NotStarted(s)' /\ DoneOK(s)'
  BY <1>1 DEF LiveOwn, MailOrder, Started, NotStarted, DoneOK
<1>5. \A u \in Slot \ {s} : SlotOK(u)'
  <2>1. \A u \in Slot \ {s} : NoJob(u) => NoJob(u)'
    BY <1>1 DEF NoJob
  <2>2. made <= made'
    BY <1>1, RecordTypes
  <2>3. QED
    BY <1>1, <2>1, <2>2, OtherSlots
<1>6. JobsOK'
  <2>1. ASSUME NEW i \in 1..Len(pending), pending[i].slot = s PROVE JobOK(pending[i])'
    BY <1>1, <1>2, <2>1 DEF JobOK, NoJob, NoBegin
  <2>2. QED
    BY <1>1, <2>1, OtherJobs
<1>7. ThreadOK'
  BY DEF IInv, ThreadOK, jobVars
<1>8. SlotOK(s)'
  BY <1>3, <1>4, HandledWire DEF SlotOK, InOrder
<1>9. QED
  BY <1>5, <1>6, <1>7, <1>8 DEF IInv

LEMMA CompletesOK ==
    ASSUME IInv, TypeOK', NEW s \in Slot, Plain(s), s \in Live, Takes(s), NEW status \in Status, Completes(s, status),
           \E p \in {"PARAMS", "IN", "OUT"} : state' = [state EXCEPT ![s] = p],
           NoJob(s), status = "page" => Contains(completed, [slot |-> s, n |-> serial[s]])
    PROVE  IInv'
<1>1. /\ UNCHANGED <<peerVars, jobVars, running, phase>> /\ Erase(s) /\ phase = "serving" /\ InOrder(s) /\ TypeOK
      /\ peer' = peer /\ peerN' = peerN /\ completed' = completed
      /\ reply' = [reply EXCEPT ![s] = Append(@, [status |-> status, n |-> serial[s]])]
  BY DEF Completes, Takes, IInv, peerVars, jobVars, SlotOK
<1>2. Elsewhere(s)
  BY <1>1 DEF Elsewhere, Completes, Erase, peerVars, TypeOK
<1>3. serial[s] = peerN[s] /\ reply[s] = <<>> /\ peer[s] # "idle"
  BY <1>1 DEF InOrder, LiveOwn
<1>4. (s \notin Live)'
  BY <1>1 DEF Erase, Live, TypeOK
<1>5. Len(reply'[s]) = 1 /\ reply'[s][1] = [status |-> status, n |-> serial[s]]
  BY <1>1, <1>3 DEF TypeOK
<1>6. ReplyOK(s)'
  BY <1>1, <1>3, <1>4, <1>5 DEF ReplyOK
<1>7. QED
  BY <1>1, <1>2, <1>6, LeavesOK

\* What a request takes belongs to it, and as long as no page was looked for it
\* has no job.
LEMMA HandledFirst ==
    ASSUME IInv, NEW s \in Slot, Plain(s), s \in Live, mail[s] # <<>>
    PROVE  /\ Head(mail[s]) = mail[s][1] /\ 1 \in 1..Len(mail[s]) /\ Head(mail[s]) \in Record
           /\ Head(mail[s]).kind \notin {"ABORT", "DONE"} => step[s] = "Start" /\ NoJob(s)
           /\ step[s] = "Start" => NoJob(s) /\ Head(mail[s]).kind # "DONE"
           /\ Head(mail[s]).kind = "DONE" => NoJob(s) /\ Contains(completed, [slot |-> s, n |-> serial[s]])
           /\ Head(mail[s]).kind = "ABORT" => peer[s] = "aborted"
<1>1. Head(mail[s]) = mail[s][1] /\ 1 \in 1..Len(mail[s]) /\ Head(mail[s]) \in Record
  BY TailOf DEF IInv, TypeOK
<1>2. InOrder(s) /\ TypeOK /\ step[s] \in {"Start", "Finish"} /\ peer[s] \in PeerState
  BY DEF IInv, SlotOK, TypeOK
<1>3. Head(mail[s]).kind \notin {"ABORT", "DONE"} => step[s] = "Start"
  BY <1>1, <1>2 DEF InOrder, Started
<1>4. Head(mail[s]).kind = "DONE" =>
          step[s] = "Finish" /\ NoJob(s) /\ Contains(completed, [slot |-> s, n |-> serial[s]])
  BY <1>1, <1>2 DEF InOrder, DoneOK
<1>5. step[s] = "Start" => NoJob(s)
  BY <1>2 DEF InOrder, NotStarted
<1>6. Head(mail[s]).kind = "ABORT" => peer[s] = "aborted"
  <2> SUFFICES ASSUME Head(mail[s]).kind = "ABORT" PROVE peer[s] = "aborted"
    OBVIOUS
  <2>1. 6 <= Sent(peer[s]) /\ peer[s] # "idle"
    BY <1>1, <1>2 DEF InOrder, MailOrder, LiveOwn, Rank
  <2>2. QED
    BY <1>2, <2>1, Ranks
<1>7. QED
  BY <1>1, <1>3, <1>4, <1>5, <1>6

\* The messages after the first one.
LEMMA Popped ==
    ASSUME IInv, NEW s \in Slot, mail[s] # <<>>, Pop(s)
    PROVE  /\ Len(mail'[s]) \in Nat
           /\ \A i \in 1..Len(mail'[s]) : i + 1 \in 1..Len(mail[s]) /\ mail'[s][i] = mail[s][i + 1]
BY TailOf, LenProperties DEF Pop, IInv, TypeOK

LEMMA PoppedOK ==
    ASSUME IInv, TypeOK', NEW s \in Slot, Plain(s), s \in Live, mail[s] # <<>>, Pop(s), UNCHANGED <<peerVars, reply, serial>>
    PROVE  LiveOwn(s)' /\ MailOrder(s)' /\ WireBegin(s)' /\ ReplyOK(s)'
<1> DEFINE m == mail[s]
           l == mail'[s]
<1>1. /\ (s \in Live)' /\ InOrder(s) /\ TypeOK
      /\ peer' = peer /\ peerN' = peerN /\ wire' = wire /\ reply' = reply /\ serial' = serial
  BY DEF Live, IInv, peerVars, SlotOK
<1>2. Len(l) \in Nat /\ \A i \in 1..Len(l) : i + 1 \in 1..Len(m) /\ l[i] = m[i + 1]
  BY Popped
<1> HIDE DEF m, l
<1>3. LiveOwn(s)'
  BY <1>1, <1>2 DEF InOrder, LiveOwn, m, l
<1>4. MailOrder(s)'
  <2>1. ASSUME NEW i \in 1..Len(l), l[i].kind # "DONE"
        PROVE  /\ Rank(l[i].kind) <= Sent(peer[s])
               /\ \A j \in 1..Len(l) : i < j /\ l[j].kind # "DONE" => Rank(l[i].kind) < Rank(l[j].kind)
               /\ \A j \in 1..Len(wire[s]) : Rank(l[i].kind) < Rank(wire[s][j].kind)
    <3>1. i + 1 \in 1..Len(m) /\ l[i] = m[i + 1]
      BY <1>2
    <3>2. /\ Rank(m[i + 1].kind) <= Sent(peer[s])
          /\ \A j \in 1..Len(m) : i + 1 < j /\ m[j].kind # "DONE" => Rank(m[i + 1].kind) < Rank(m[j].kind)
          /\ \A j \in 1..Len(wire[s]) : Rank(m[i + 1].kind) < Rank(wire[s][j].kind)
      BY <1>1, <2>1, <3>1 DEF InOrder, MailOrder, m
    <3>3. \A j \in 1..Len(l) : i < j => i + 1 < j + 1 /\ j + 1 \in 1..Len(m) /\ l[j] = m[j + 1]
      BY <1>2
    <3>4. QED
      BY <3>1, <3>2, <3>3
  <2>2. QED
    BY <1>1, <2>1 DEF MailOrder, l
<1>5. WireBegin(s)'
  BY <1>1 DEF InOrder, WireBegin
<1>6. ReplyOK(s)'
  BY <1>1, EmptySeq DEF InOrder, LiveOwn, ReplyOK
<1>7. QED
  BY <1>3, <1>4, <1>5, <1>6

\* A record that is only taken note of comes before response_start().
LEMMA HandleQuietOK ==
    ASSUME IInv, TypeOK', NEW s \in Slot, Plain(s), HandleQuiet(s)
    PROVE  IInv'
<1> USE DEF jobVars
<1>1. /\ s \in Live /\ mail[s] # <<>> /\ Head(mail[s]).kind \notin {"ABORT", "DONE"} /\ Takes(s) /\ Pop(s)
      /\ UNCHANGED <<peerVars, reply, serial, role, step, phase, jobVars, running>>
      /\ \E p \in {"PARAMS", "IN"} : state' = [state EXCEPT ![s] = p]
  <2>1. state = [state EXCEPT ![s] = state[s]]
    BY DEF IInv, TypeOK
  <2>2. QED
    BY <2>1 DEF HandleQuiet, Handles
<1>2. /\ peer' = peer /\ peerN' = peerN /\ made' = made /\ wire' = wire /\ reply' = reply /\ serial' = serial
      /\ role' = role /\ step' = step /\ phase' = phase /\ pending' = pending /\ completed' = completed
      /\ TypeOK /\ InOrder(s)
  BY <1>1 DEF peerVars, IInv, SlotOK
<1>3. step[s] = "Start" /\ NoJob(s) /\ (s \in Live)'
  BY <1>1, <1>2, HandledFirst DEF Live
<1>4. NoJob(s)' /\ step'[s] = "Start"
  BY <1>2, <1>3 DEF NoJob
<1>5. Started(s)' /\ NotStarted(s)'
  BY <1>4 DEF Started, NotStarted
<1>6. DoneOK(s)'
  <2>1. \A i \in 1..Len(mail[s]) : mail[s][i].kind # "DONE"
    BY <1>1, <1>2, <1>3 DEF InOrder, DoneOK
  <2>2. \A i \in 1..Len(mail'[s]) : mail'[s][i].kind # "DONE"
    BY <1>1, <2>1, Popped
  <2>3. QED
    BY <2>2 DEF DoneOK
<1>7. LiveOwn(s)' /\ MailOrder(s)' /\ WireBegin(s)' /\ ReplyOK(s)'
  BY <1>1, PoppedOK
<1>8. SlotOK(s)'
  BY <1>1, <1>5, <1>6, <1>7, HandledWire DEF SlotOK, InOrder
<1>9. Elsewhere(s)
  BY <1>2, StepOfSlot DEF Handle
<1>10. \A u \in Slot \ {s} : SlotOK(u)'
  <2>1. \A u \in Slot \ {s} : NoJob(u) => NoJob(u)'
    BY <1>2 DEF NoJob
  <2>2. made <= made'
    BY <1>2, RecordTypes
  <2>3. QED
    BY <1>2, <1>9, <2>1, <2>2, OtherSlots
<1>11. JobsOK'
  BY <1>2, <1>3, <1>9, OtherJobs DEF NoJob
<1>12. ThreadOK'
  BY <1>1 DEF IInv, ThreadOK
<1>13. QED
  BY <1>8, <1>10, <1>11, <1>12 DEF IInv

\* The input was complete when response_start() is called, so nothing but an
\* abort is to come; and the job is the only one of the slot.
LEMMA HandleStartOK ==
    ASSUME IInv, TypeOK', NEW s \in Slot, Plain(s), HandleStart(s)
    PROVE  IInv'
<1> USE DEF jobVars
<1> DEFINE job == [slot |-> s, n |-> serial[s]]
           m == mail[s]
           l == mail'[s]
<1>1. /\ s \in Live /\ mail[s] # <<>> /\ Head(mail[s]).kind \in {"IN_END", "DONE"} /\ Takes(s) /\ Pop(s)
      /\ step[s] = "Start" /\ role[s] = "RESPONDER" /\ phase = "serving"
      /\ UNCHANGED <<peerVars, reply, serial, role, phase, running, jobRan, completed, stopped, ended>>
      /\ Head(mail[s]).kind = "IN_END" => state' = [state EXCEPT ![s] = "OUT"]
      /\ Head(mail[s]).kind = "DONE" => state' = state
      /\ step' = [step EXCEPT ![s] = "Finish"] /\ pending' = Append(pending, job)
  BY DEF HandleStart, Responds, Handles, HasRole, Takes, Jobs!Submit
<1>2. /\ peer' = peer /\ peerN' = peerN /\ made' = made /\ wire' = wire /\ reply' = reply /\ serial' = serial
      /\ role' = role /\ phase' = phase /\ completed' = completed
      /\ TypeOK /\ InOrder(s)
  BY <1>1 DEF peerVars, IInv, SlotOK
<1>3. /\ NoJob(s) /\ Head(m).kind = "IN_END" /\ Head(m) = m[1] /\ 1 \in 1..Len(m)
  BY <1>1, HandledFirst
<1>4. (s \in Live)' /\ step'[s] = "Finish" /\ state'[s] = "OUT"
  BY <1>1, <1>2, <1>3 DEF Live, TypeOK
<1>5. Len(l) \in Nat /\ \A i \in 1..Len(l) : i + 1 \in 1..Len(m) /\ l[i] = m[i + 1]
  BY <1>1, Popped
<1>6. \A i \in 1..Len(m) : m[i].kind # "DONE" /\ m[i].kind \in Kind
  BY <1>1, <1>2, RecordTypes DEF InOrder, DoneOK, Record
<1>7. /\ 5 <= Sent(peer[s])
      /\ \A j \in 1..Len(m) : 1 < j => 5 < Rank(m[j].kind)
      /\ \A j \in 1..Len(wire[s]) : 5 < Rank(wire[s][j].kind)
  <2>1. Rank(m[1].kind) = 5
    BY <1>3 DEF Rank
  <2>2. QED
    BY <1>1, <1>2, <1>3, <1>6, <2>1 DEF InOrder, MailOrder
<1>8. \A i \in 1..Len(l) : l[i].kind = "ABORT"
  <2> SUFFICES ASSUME NEW i \in 1..Len(l) PROVE l[i].kind = "ABORT"
    OBVIOUS
  <2>1. i + 1 \in 1..Len(m) /\ 1 < i + 1 /\ l[i] = m[i + 1]
    BY <1>5
  <2>2. 5 < Rank(m[i + 1].kind) /\ m[i + 1].kind \in Kind
    BY <1>6, <1>7, <2>1
  <2>3. QED
    BY <2>1, <2>2, Ranks
<1>9. \A i \in 1..Len(wire[s]) : wire[s][i].kind = "ABORT"
  <2>1. \A i \in 1..Len(wire[s]) : wire[s][i].kind \in Kind
    BY <1>2, RecordTypes DEF Record
  <2>2. QED
    BY <1>7, <2>1, Ranks
<1>10. peer[s] \in {"waiting", "aborted"}
  BY <1>1, <1>2, <1>7, RecordTypes, Ranks DEF InOrder, LiveOwn
<1>11. Started(s)' /\ NotStarted(s)' /\ DoneOK(s)'
  <2>1. Started(s)'
    BY <1>1, <1>2, <1>4, <1>8, <1>9, <1>10 DEF Started
  <2>2. NotStarted(s)'
    BY <1>4 DEF NotStarted
  <2>3. DoneOK(s)'
    BY <1>8 DEF DoneOK
  <2>4. QED
    BY <2>1, <2>2, <2>3
<1>12. LiveOwn(s)' /\ MailOrder(s)' /\ WireBegin(s)' /\ ReplyOK(s)'
  BY <1>1, PoppedOK
<1>13. SlotOK(s)'
  BY <1>1, <1>11, <1>12, HandledWire DEF SlotOK, InOrder
<1>14. Elsewhere(s)
  BY <1>2, StepOfSlot DEF Handle
<1>15. /\ Len(pending) \in Nat /\ Len(pending') = Len(pending) + 1
       /\ \A i \in 1..Len(pending') : (i \in 1..Len(pending) /\ pending'[i] = pending[i])
                                       \/ (i = Len(pending) + 1 /\ pending'[i] = job)
  <2>1. job \in Job
    BY <1>1, <1>2, SerialOf DEF InOrder, Job
  <2>2. pending \in Seq(Job)
    BY <1>2 DEF TypeOK
  <2> HIDE DEF job
  <2>3. QED
    BY <1>1, <2>1, <2>2, AppendOf
<1> HIDE DEF m, l, job
<1>16. \A u \in Slot \ {s} : SlotOK(u)'
  <2>1. \A u \in Slot \ {s} : NoJob(u) => NoJob(u)'
    BY <1>15 DEF NoJob, job
  <2>2. made <= made'
    BY <1>2, RecordTypes
  <2>3. QED
    BY <1>2, <1>14, <2>1, <2>2, OtherSlots
<1>17. JobsOK'
  <2>1. \A i \in 1..Len(pending) : pending[i].slot # s /\ pending[i].slot \in Slot /\ JobOK(pending[i])
    BY <1>2, <1>3, RecordTypes DEF NoJob, Job, IInv, JobsOK
  <2>2. ASSUME NEW j \in Job, j.slot # s, JobOK(j) PROVE JobOK(j)'
    BY <1>2, <1>14, <2>2 DEF JobOK, Elsewhere, Live, NoBegin, Job, Plain
  <2>3. ASSUME NEW j \in Job, j.slot = s, j.n = serial[s] PROVE JobOK(j)'
    BY <1>2, <1>4, <2>3 DEF JobOK
  <2>4. ASSUME NEW i \in 1..Len(pending') PROVE JobOK(pending[i])'
    <3>1. pending'[i] \in Job
      BY ElementOfSeq DEF TypeOK
    <3>2. CASE i \in 1..Len(pending) /\ pending'[i] = pending[i]
      BY <2>1, <2>2, <3>1, <3>2
    <3>3. CASE pending'[i] = job
      BY <2>3, <3>1, <3>3 DEF job
    <3>4. QED
      BY <1>15, <3>2, <3>3
  <2>5. \A i, j \in 1..Len(pending') : i # j /\ Plain(pending'[i].slot) => pending'[i].slot # pending'[j].slot
    <3>1. \A i, j \in 1..Len(pending) : i # j /\ Plain(pending[i].slot) => pending[i].slot # pending[j].slot
      BY DEF IInv, JobsOK
    <3>2. QED
      BY <1>15, <2>1, <3>1 DEF job
  <2>6. strayed' = strayed
    BY <1>1 DEF peerVars
  <2>7. QED
    BY <2>4, <2>5, <2>6 DEF JobsOK, Plain
<1>18. ThreadOK'
  <2>1. pending' # <<>>
    BY <1>15, EmptySeq
  <2>2. QED
    BY <1>1, <2>1 DEF IInv, ThreadOK
<1>19. QED
  BY <1>13, <1>16, <1>17, <1>18 DEF IInv

\* A step that changes no slot and no job.
LEMMA NothingChanges ==
    ASSUME IInv, TypeOK', UNCHANGED <<peerVars, reply, requestVars, pending, completed>>,
           phase' = phase \/ phase # "exited", ThreadOK'
    PROVE  IInv'
<1>1. /\ strayed' = strayed /\ peer' = peer /\ peerN' = peerN /\ made' = made /\ wire' = wire /\ reply' = reply /\ serial' = serial
      /\ role' = role /\ state' = state /\ step' = step /\ mail' = mail
      /\ pending' = pending /\ completed' = completed /\ TypeOK
  BY DEF peerVars, requestVars, IInv
<1>2. \A s \in Slot : SlotOK(s)'
  <2>1. \A u \in Slot : NoJob(u) => NoJob(u)'
    BY <1>1 DEF NoJob
  <2>2. ASSUME NEW s \in Slot PROVE made <= made'
    BY <1>1, RecordTypes
  <2>3. QED
    BY <1>1, <2>1, <2>2, SlotFrame DEF IInv
<1>3. JobsOK'
  BY <1>1 DEF IInv, JobsOK, JobOK, Live, NoBegin, Plain
<1>4. QED
  BY <1>2, <1>3 DEF IInv

\* A step of the loop leaves what the web server did.
LEMMA LoopLateOK ==
    ASSUME IInv, TypeOK', NEW s \in Slot, ~Plain(s), Receive(s) \/ Handle(s)
    PROVE  IInv'
<1>1. UNCHANGED <<peer, peerN, made, strayed>>
  BY DEF Receive, ReceiveForRequest, ReceiveBegin, ReceiveStray, Reads, Handle, HandleVoid, HandleNothing, HandleQuiet,
         HandleStart, HandleUnknownRole, HandleOutOfOrder, HandleRefused, HandleFinish, HandleTooLong, HandleAbort,
         Completes, peerVars
<1>2. PeerOK(s)'
  BY <1>1 DEF IInv, SlotOK, PeerOK
<1>3. ~Plain(s)'
  BY <1>1 DEF Plain
<1>4. QED
  BY <1>2, <1>3, LateOK

LEMMA HandleOK ==
    ASSUME IInv, TypeOK', NEW s \in Slot, Handle(s)
    PROVE  IInv'
<1> USE DEF requestVars, jobVars
<1>0. CASE ~Plain(s)
  BY <1>0, LoopLateOK
<1> SUFFICES ASSUME Plain(s) PROVE IInv'
  BY <1>0
<1>1. CASE HandleVoid(s)
  BY <1>1, NothingChanges DEF HandleVoid, IInv, ThreadOK
<1>2. CASE HandleNothing(s)
  BY <1>2, NothingChanges DEF HandleNothing, Takes, IInv, ThreadOK
<1>3. CASE HandleQuiet(s)
  BY <1>3, HandleQuietOK
<1>4. CASE HandleStart(s)
  BY <1>4, HandleStartOK
<1>5. ASSUME UNCHANGED state PROVE \E p \in {"PARAMS", "IN", "OUT"} : state' = [state EXCEPT ![s] = p]
  BY <1>5 DEF IInv, TypeOK
<1>6. InOrder(s) /\ step[s] \in {"Start", "Finish"}
  BY DEF IInv, SlotOK, TypeOK
<1>7. ASSUME Responds(s)
      PROVE  /\ Takes(s) /\ s \in Live /\ mail[s] # <<>> /\ HasRole(s) /\ Head(mail[s]).kind \in {"IN_END", "DONE"}
             /\ \E p \in {"PARAMS", "IN", "OUT"} : state' = [state EXCEPT ![s] = p]
  BY <1>5, <1>7 DEF Responds, Handles
<1>8. CASE HandleUnknownRole(s)
  <2>1. NoJob(s)
    BY <1>6, <1>8 DEF HandleUnknownRole, HasRole, InOrder, Started, NotStarted
  <2>2. QED
    BY <1>5, <1>8, <2>1, CompletesOK DEF HandleUnknownRole, Status
<1>9. CASE HandleOutOfOrder(s)
  <2>1. /\ Takes(s) /\ s \in Live /\ mail[s] # <<>> /\ Head(mail[s]).kind \notin {"ABORT", "DONE"}
        /\ Completes(s, "500") /\ UNCHANGED state
    BY <1>9 DEF HandleOutOfOrder, Handles
  <2>2. QED
    BY <1>5, <2>1, HandledFirst, CompletesOK DEF Status
<1>10. CASE HandleRefused(s)
  <2>1. NoJob(s)
    BY <1>7, <1>10, HandledFirst DEF HandleRefused
  <2>2. PICK status \in {"404", "500"} : Completes(s, status)
    BY <1>10 DEF HandleRefused
  <2>3. QED
    BY <1>7, <1>10, <2>1, <2>2, CompletesOK DEF HandleRefused, Status
<1>11. CASE HandleFinish(s)
  <2>1. Head(mail[s]).kind # "IN_END"
    BY <1>7, <1>11, HandledFirst DEF HandleFinish
  <2>2. NoJob(s) /\ Contains(completed, [slot |-> s, n |-> serial[s]])
    BY <1>7, <1>11, <2>1, HandledFirst DEF HandleFinish
  <2>3. QED
    BY <1>7, <1>11, <2>2, CompletesOK DEF HandleFinish, Status
<1>12. CASE HandleTooLong(s)
  <2>1. /\ Takes(s) /\ s \in Live /\ mail[s] # <<>> /\ Head(mail[s]).kind \notin {"ABORT", "DONE"}
        /\ Completes(s, "413") /\ UNCHANGED state
    BY <1>12 DEF HandleTooLong, Handles
  <2>2. QED
    BY <1>5, <2>1, HandledFirst, CompletesOK DEF Status
<1>13. CASE HandleAbort(s)
  <2>1. /\ Takes(s) /\ phase = "serving" /\ s \in Live /\ mail[s] # <<>> /\ Head(mail[s]).kind = "ABORT" /\ Erase(s)
        /\ UNCHANGED <<peerVars, reply, role, state, step, phase, jobVars, running>>
    BY <1>13 DEF HandleAbort, Handles, Takes
  <2>2. peer[s] = "aborted"
    BY <2>1, HandledFirst
  <2>3. reply'[s] = <<>>
    BY <1>6, <2>1 DEF InOrder, LiveOwn
  <2>4. ReplyOK(s)'
    BY <2>3, EmptySeq DEF ReplyOK
  <2>5. Elsewhere(s)
    BY <2>1 DEF Elsewhere, Erase, peerVars, IInv, TypeOK
  <2>6. QED
    BY <2>1, <2>2, <2>3, <2>4, <2>5, LeavesOK
<1>14. QED
  BY <1>1, <1>2, <1>3, <1>4, <1>8, <1>9, <1>10, <1>11, <1>12, <1>13 DEF Handle

-----------------------------------------------------------------------------
(* The job thread *)

\* The completion of a job reaches the request that waits for it, or none.
LEMMA JobCompletesOK ==
    ASSUME IInv, TypeOK', JobCompletes
    PROVE  IInv'
<1> USE DEF requestVars
<1>0. PICK job \in Job : job = Head(pending)
  BY TailOf DEF JobCompletes, Jobs!Complete, IInv, TypeOK, ThreadOK
<1> DEFINE s == job.slot
           done == [kind |-> "DONE", n |-> job.n]
<1>1. /\ peer' = peer /\ peerN' = peerN /\ made' = made /\ wire' = wire /\ reply' = reply /\ serial' = serial
      /\ strayed' = strayed /\ role' = role /\ state' = state /\ step' = step /\ phase' = phase /\ running' = running
      /\ jobRan /\ ~ended /\ pending # <<>> /\ jobRan' = FALSE /\ ended' = ended
      /\ pending' = Tail(pending) /\ completed' = Append(completed, job)
      /\ TypeOK /\ phase # "exited"
  BY <1>0 DEF JobCompletes, Jobs!Complete, peerVars, IInv, ThreadOK
<1>2. /\ job = pending[1] /\ 1 \in 1..Len(pending) /\ Len(pending') \in Nat
      /\ \A i \in 1..Len(pending') : i + 1 \in 1..Len(pending) /\ pending'[i] = pending[i + 1]
  BY <1>0, <1>1, TailOf, LenProperties DEF TypeOK
<1>3. s \in Slot /\ job.n \in Serial /\ job.n # None /\ job = [slot |-> s, n |-> job.n]
  BY Serials DEF Job
<1>4. Contains(completed', job) /\ \A x : Contains(completed, x) => Contains(completed', x)
  BY <1>1, ContainsAppend DEF TypeOK
<1>5. \A u \in Slot : NoJob(u) => NoJob(u)'
  BY <1>2 DEF NoJob
<1>6. ASSUME Plain(s) PROVE NoJob(s)'
  <2>1. \A i \in 1..Len(pending') : i + 1 # 1 /\ pending'[i].slot = pending[i + 1].slot /\ i + 1 \in 1..Len(pending)
    BY <1>2
  <2>2. \A i \in 1..Len(pending) : i # 1 => pending[i].slot # pending[1].slot
    BY <1>2, <1>6 DEF IInv, JobsOK
  <2>3. QED
    BY <1>2, <2>1, <2>2 DEF NoJob
<1>7. JobOK(job)
  BY <1>2 DEF IInv, JobsOK
<1>8. JobsOK'
  <2>1. ASSUME NEW j \in Job, JobOK(j) PROVE JobOK(j)'
    BY <1>1, <2>1 DEF JobOK, Live, NoBegin, Plain
  <2>2. ASSUME NEW i \in 1..Len(pending') PROVE JobOK(pending[i])'
    <3>1. pending'[i] \in Job /\ JobOK(pending[i + 1]) /\ pending'[i] = pending[i + 1]
      BY <1>2, ElementOfSeq DEF TypeOK, IInv, JobsOK
    <3>2. QED
      BY <2>1, <3>1
  <2>3. \A i, j \in 1..Len(pending') : i # j /\ Plain(pending'[i].slot) => pending'[i].slot # pending'[j].slot
    <3>1. \A i, j \in 1..Len(pending) : i # j /\ Plain(pending[i].slot) => pending[i].slot # pending[j].slot
      BY DEF IInv, JobsOK
    <3>2. ASSUME NEW i \in 1..Len(pending')
          PROVE  i + 1 \in 1..Len(pending) /\ pending'[i] = pending[i + 1] /\ i \in Nat
      BY <1>2
    <3>3. ASSUME NEW i \in 1..Len(pending'), NEW j \in 1..Len(pending'), i # j, Plain(pending'[i].slot)
          PROVE  pending'[i].slot # pending'[j].slot
      <4>1. i + 1 # j + 1
        BY <3>2, <3>3
      <4>2. i + 1 \in 1..Len(pending) /\ j + 1 \in 1..Len(pending) /\ Plain(pending[i + 1].slot)
        BY <3>2, <3>3
      <4>3. pending[i + 1].slot # pending[j + 1].slot
        BY <3>1, <4>1, <4>2
      <4>4. QED
        BY <3>2, <4>3
    <3>4. QED
      BY <3>3
  <2>4. QED
    BY <1>1, <2>2, <2>3 DEF JobsOK, Plain
<1>9. ThreadOK'
  BY <1>1 DEF IInv, ThreadOK, JobCompletes
<1>10. made <= made'
  BY <1>1, <1>3, RecordTypes
<1>11. ASSUME NEW u \in Slot, mail'[u] = mail[u] PROVE SlotOK(u)'
  BY <1>1, <1>4, <1>5, <1>10, <1>11, SlotFrame DEF IInv
<1>12. CASE s \notin Live
  <2>1. mail' = mail
    BY <1>0, <1>12 DEF JobCompletes
  <2>2. QED
    BY <1>8, <1>9, <1>11, <2>1 DEF IInv
<1>13. CASE s \in Live /\ ~Plain(s)
  <2>1. mail' = [mail EXCEPT ![s] = Append(@, done)]
    BY <1>0, <1>13 DEF JobCompletes, Deliver
  <2>2. \A u \in Slot \ {s} : SlotOK(u)'
    BY <1>1, <1>11, <2>1 DEF TypeOK
  <2>3. SlotOK(s)'
    <3>1. SlotOK(s)
      BY <1>3 DEF IInv
    <3> HIDE DEF s
    <3>2. QED
      BY <1>1, <1>13, <3>1 DEF SlotOK, PeerOK, Plain
  <2>4. QED
    BY <1>8, <1>9, <2>2, <2>3 DEF IInv
<1>14. CASE s \in Live /\ Plain(s)
  <2> DEFINE m == mail[s]
             l == mail'[s]
  <2>1. mail' = [mail EXCEPT ![s] = Append(@, done)]
    BY <1>0, <1>14 DEF JobCompletes, Deliver
  <2>2. \A u \in Slot \ {s} : SlotOK(u)'
    BY <1>1, <1>11, <2>1 DEF TypeOK
  <2>3. serial[s] = job.n /\ step[s] = "Finish" /\ InOrder(s) /\ (s \in Live)'
    BY <1>1, <1>3, <1>7, <1>14 DEF JobOK, IInv, SlotOK, Live
  <2>4. /\ Len(m) \in Nat /\ Len(l) = Len(m) + 1
        /\ \A i \in 1..Len(l) : (i \in 1..Len(m) /\ l[i] = m[i]) \/ (i = Len(m) + 1 /\ l[i] = done)
    <3>1. done \in Record /\ m \in Seq(Record) /\ l = Append(m, done)
      BY <1>1, <1>3, <2>1 DEF Record, Kind, TypeOK
    <3> HIDE DEF done, m, l
    <3>2. QED
      BY <3>1, AppendOf
  <2> HIDE DEF m, l, s
  <2>5. PeerOK(s)' /\ WireOrder(s)' /\ WireSent(s)' /\ WireBegin(s)'
    <3>1. PeerOK(s)' /\ WireOrder(s)'
      BY <1>1, <2>3 DEF InOrder, PeerOK, WireOrder
    <3>2. WireSent(s)'
      BY <1>1, <2>3 DEF InOrder, WireSent
    <3>3. WireBegin(s)'
      BY <1>1, <1>14, <2>3 DEF InOrder, WireBegin
    <3>4. QED
      BY <3>1, <3>2, <3>3
  <2>6. LiveOwn(s)' /\ ReplyOK(s)'
    <3>1. /\ serial[s] = peerN[s] /\ reply[s] = <<>> /\ peer[s] # "idle"
          /\ \A i \in 1..Len(wire[s]) : wire[s][i].n = serial[s]
          /\ \A i \in 1..Len(m) : m[i].n = serial[s]
      BY <1>14, <2>3 DEF InOrder, LiveOwn, m
    <3>2. \A i \in 1..Len(l) : l[i].n = serial[s]
      BY <2>3, <2>4, <3>1
    <3>3. LiveOwn(s)'
      BY <1>1, <3>1, <3>2 DEF LiveOwn, l
    <3>4. ReplyOK(s)'
      BY <1>1, <3>1, EmptySeq DEF ReplyOK
    <3>5. QED
      BY <3>3, <3>4
  <2>7. MailOrder(s)'
    <3>1. \A i \in 1..Len(l) : l[i].kind # "DONE" => i \in 1..Len(m) /\ l[i] = m[i]
      BY <2>4
    <3>2. QED
      BY <1>1, <1>14, <2>3, <3>1 DEF InOrder, MailOrder, m, l
  <2>8. Started(s)'
    <3>1. /\ state[s] = "OUT" /\ role[s] = "RESPONDER" /\ peer[s] \in {"waiting", "aborted"}
          /\ \A i \in 1..Len(m) : m[i].kind \in {"ABORT", "DONE"}
          /\ \A i \in 1..Len(wire[s]) : wire[s][i].kind = "ABORT"
      BY <1>14, <2>3 DEF InOrder, Started, m
    <3>2. \A i \in 1..Len(l) : l[i].kind \in {"ABORT", "DONE"}
      BY <2>4, <3>1
    <3>3. QED
      BY <1>1, <3>1, <3>2 DEF Started, l
  <2>9. NotStarted(s)' /\ DoneOK(s)'
    <3>1. NotStarted(s)'
      BY <1>6, <1>14 DEF NotStarted, s
    <3>2. DoneOK(s)'
      BY <1>1, <1>3, <1>4, <1>6, <1>14, <2>3 DEF DoneOK, s
    <3>3. QED
      BY <3>1, <3>2
  <2>10. SlotOK(s)'
    BY <2>5, <2>6, <2>7, <2>8, <2>9 DEF SlotOK, InOrder
  <2>11. QED
    BY <1>8, <1>9, <2>2, <2>10 DEF IInv
<1>15. QED
  BY <1>12, <1>13, <1>14

LEMMA JobStepOK ==
    ASSUME IInv, TypeOK', JobStep
    PROVE  IInv'
<1> USE DEF jobVars
<1>1. CASE JobBegins
  BY <1>1, NothingChanges DEF JobBegins, IInv, ThreadOK
<1>2. CASE JobEnds
  BY <1>2, NothingChanges DEF JobEnds, Jobs!Perform, IInv, ThreadOK
<1>3. CASE JobCompletes
  BY <1>3, JobCompletesOK
<1>4. CASE JobThreadEnds
  BY <1>4, NothingChanges DEF JobThreadEnds, Jobs!End, IInv, ThreadOK
<1>5. QED
  BY <1>1, <1>2, <1>3, <1>4 DEF JobStep

-----------------------------------------------------------------------------
(* The end of main() *)

\* All requests go at once, when the job thread was joined.
LEMMA ExitOK ==
    ASSUME IInv, TypeOK', Exit
    PROVE  IInv'
<1> USE DEF jobVars
<1>1. /\ UNCHANGED peerVars /\ peer' = peer /\ wire' = wire /\ reply' = reply /\ peerN' = peerN
      /\ pending' = pending /\ completed' = completed
      /\ ended /\ ended' = ended /\ jobRan' = jobRan /\ running' = running /\ phase' = "exited"
  BY DEF Exit, peerVars
<1>2. ASSUME NEW s \in Slot PROVE SlotOK(s)'
  <2>1. PeerOK(s)' /\ (s \notin Live)' /\ (Plain(s)' => Plain(s))
    BY <1>1 DEF IInv, SlotOK, PeerOK, Exit, Live, Plain, peerVars
  <2>2. ASSUME Plain(s) PROVE InOrder(s)'
    <3>1. InOrder(s)
      BY <2>2 DEF IInv, SlotOK
    <3>2. LiveOwn(s)' /\ MailOrder(s)' /\ Started(s)' /\ NotStarted(s)' /\ DoneOK(s)'
      BY <2>1 DEF LiveOwn, MailOrder, Started, NotStarted, DoneOK
    <3>3. WireBegin(s)'
      BY <1>1, <2>1, <3>1 DEF InOrder, WireBegin
    <3>4. ReplyOK(s)'
      BY <1>1, <2>1, <3>1 DEF InOrder, ReplyOK
    <3>5. QED
      BY <1>1, <2>2, <3>2, <3>3, <3>4, HandledWire DEF InOrder
  <2>3. QED
    BY <2>1, <2>2 DEF SlotOK
<1>3. JobsOK'
  BY <1>1 DEF IInv, JobsOK, JobOK, Plain, peerVars
<1>4. ThreadOK'
  BY <1>1 DEF IInv, ThreadOK
<1>5. QED
  BY <1>2, <1>3, <1>4 DEF IInv

-----------------------------------------------------------------------------
LEMMA InitOK == Init => IInv
<1> SUFFICES ASSUME Init PROVE IInv
  OBVIOUS
<1>1. TypeOK
  BY TypeInit
<1>2. Len(pending) = 0 /\ ~running /\ ~jobRan /\ phase # "exited"
  BY EmptySeq DEF Init, Jobs!ServiceInit
<1>3. JobsOK /\ ThreadOK
  BY <1>2 DEF JobsOK, ThreadOK
<1>4. ASSUME NEW s \in Slot PROVE SlotOK(s)
  <2>1. Len(wire[s]) = 0 /\ Len(reply[s]) = 0 /\ reply[s] = <<>> /\ s \notin Live /\ peer[s] = "idle"
        /\ peerN[s] = None /\ made = 0
    BY EmptySeq DEF Init, Live
  <2>2. PeerOK(s) /\ WireOrder(s) /\ WireSent(s) /\ WireBegin(s)
    BY <2>1 DEF PeerOK, WireOrder, WireSent, WireBegin, None
  <2>3. LiveOwn(s) /\ MailOrder(s) /\ Started(s) /\ NotStarted(s) /\ DoneOK(s) /\ ReplyOK(s)
    BY <2>1 DEF LiveOwn, MailOrder, Started, NotStarted, DoneOK, ReplyOK
  <2>4. QED
    BY <2>2, <2>3 DEF SlotOK, InOrder
<1>5. QED
  BY <1>1, <1>3, <1>4 DEF IInv

LEMMA StepOK == IInv /\ [Next]_vars => IInv'
<1> SUFFICES ASSUME IInv, [Next]_vars PROVE IInv'
  OBVIOUS
<1>1. TypeOK'
  BY TypeStep
<1>2. CASE \E s \in Slot : PeerBegins(s) \/ PeerAborts(s) \/ PeerLate(s) \/ PeerStep(s)
  BY <1>1, <1>2, PeerOKs
<1>3. CASE Loop
  <2>1. CASE NoTask
    BY <1>1, <2>1, NothingChanges DEF NoTask, jobVars, IInv, ThreadOK
  <2>2. CASE \E s \in Slot : Receive(s)
    <3>1. PICK s \in Slot : Receive(s)
      BY <2>2
    <3>2. CASE ~Plain(s)
      BY <1>1, <3>1, <3>2, LoopLateOK
    <3>3. CASE Plain(s)
      BY <1>1, <3>1, <3>3, ReceiveForRequestOK, ReceiveBeginOK, ReceiveStrayOK DEF Receive
    <3>4. QED
      BY <3>2, <3>3
  <2>3. CASE \E s \in Slot : Handle(s)
    BY <1>1, <2>3, HandleOK
  <2>4. QED
    BY <1>3, <2>1, <2>2, <2>3 DEF Loop
<1>4. CASE JobStep
  BY <1>1, <1>4, JobStepOK
<1>5. CASE Halt
  BY <1>1, <1>5, NothingChanges DEF Halt, jobVars, IInv, ThreadOK
<1>6. CASE StopJobs
  BY <1>1, <1>6, NothingChanges DEF StopJobs, Jobs!Stop, IInv, ThreadOK
<1>7. CASE Exit
  BY <1>1, <1>7, ExitOK
<1>8. CASE UNCHANGED vars
  BY <1>1, <1>8, NothingChanges DEF vars, peerVars, requestVars, IInv, ThreadOK
<1>9. QED
  BY <1>2, <1>3, <1>4, <1>5, <1>6, <1>7, <1>8 DEF Next

\* In every reachable state the records, the requests, the jobs and the answers
\* of each slot fit together.
THEOREM Inductive == Spec => []IInv
BY InitOK, StepOK, PTL DEF Spec

-----------------------------------------------------------------------------
(* What follows *)

\* But for an abort, or a record after the end of its input, a request outlives
\* its job (main.cpp keeps the HttpObject a job works on in the request), with
\* any other record of any kind before it, and however main() ends.
THEOREM OnlyAbortTakes == Spec => []OnlyAbortTakesObject
<1>1. IInv => OnlyAbortTakesObject
  <2> SUFFICES ASSUME IInv, running, peer[Head(pending).slot] # "aborted", "late" \notin strayed[Head(pending).slot]
               PROVE  serial[Head(pending).slot] = Head(pending).n
    BY DEF OnlyAbortTakesObject
  <2>1. pending # <<>> /\ phase # "exited" /\ pending \in Seq(Job)
    BY DEF IInv, ThreadOK, TypeOK
  <2>2. 1 \in 1..Len(pending) /\ Head(pending) = pending[1]
    BY <2>1, TailOf
  <2>3. JobOK(pending[1])
    BY <2>2 DEF IInv, JobsOK
  <2>4. QED
    BY <2>1, <2>2, <2>3 DEF JobOK, Plain
<1>2. QED
  BY <1>1, Inductive, PTL

\* A request handles records of its own only, though the code knows it by an id
\* that others had before; the web server reads one answer for each request, and
\* a page only when the job of that very request was completed.
THEOREM AnswersOwn == Spec => []AnswersAreOwn
<1>1. IInv => AnswersAreOwn
  <2> SUFFICES ASSUME IInv, NEW s \in Slot, "late" \notin strayed[s]
               PROVE  /\ s \in Live => \A i \in DOMAIN mail[s] : mail[s][i].n = serial[s]
                      /\ Len(reply[s]) <= 1
                      /\ reply[s] # <<>> =>
                          /\ reply[s][1].n = peerN[s] /\ s \notin Live
                          /\ reply[s][1].status = "page" => Contains(completed, [slot |-> s, n |-> peerN[s]])
    BY DEF AnswersAreOwn
  <2>1. InOrder(s) /\ DOMAIN mail[s] = 1..Len(mail[s])
    BY LenProperties DEF IInv, SlotOK, Plain, TypeOK
  <2>2. QED
    BY <2>1 DEF InOrder, LiveOwn, ReplyOK
<1>2. QED
  BY <1>1, Inductive, PTL

-----------------------------------------------------------------------------
(* Tasks and messages *)

Tasks(q, s) == {i \in DOMAIN q : q[i] = s}

LEMMA TasksFinite ==
    ASSUME NEW q \in Seq(Slot), NEW s
    PROVE  IsFiniteSet(Tasks(q, s)) /\ Cardinality(Tasks(q, s)) \in Nat
<1>1. IsFiniteSet(1..Len(q)) /\ DOMAIN q = 1..Len(q)
  BY LenProperties, FS_Interval
<1>2. Tasks(q, s) \in SUBSET (1..Len(q))
  BY <1>1 DEF Tasks
<1>3. QED
  BY <1>1, <1>2, FS_Subset, FS_CardinalityType

LEMMA TasksAppend ==
    ASSUME NEW q \in Seq(Slot), NEW u \in Slot, NEW s
    PROVE  Cardinality(Tasks(Append(q, u), s)) = Cardinality(Tasks(q, s)) + (IF u = s THEN 1 ELSE 0)
<1>1. /\ Len(q) \in Nat /\ DOMAIN q = 1..Len(q) /\ Append(q, u) \in Seq(Slot)
      /\ DOMAIN Append(q, u) = 1..(Len(q) + 1)
      /\ \A i \in 1..Len(q) : Append(q, u)[i] = q[i]
      /\ Append(q, u)[Len(q) + 1] = u
  BY LenProperties, AppendProperties
<1>2. CASE u = s
  <2>1. Tasks(Append(q, u), s) = Tasks(q, s) \cup {Len(q) + 1} /\ Len(q) + 1 \notin Tasks(q, s)
    BY <1>1, <1>2 DEF Tasks
  <2>2. QED
    BY <1>2, <2>1, TasksFinite, FS_AddElement
<1>3. CASE u # s
  <2>1. Tasks(Append(q, u), s) = Tasks(q, s)
    BY <1>1, <1>3 DEF Tasks
  <2>2. QED
    BY <1>3, <2>1, TasksFinite
<1>4. QED
  BY <1>2, <1>3

LEMMA TasksTail ==
    ASSUME NEW q \in Seq(Slot), q # <<>>, NEW s
    PROVE  Cardinality(Tasks(q, s)) = Cardinality(Tasks(Tail(q), s)) + (IF Head(q) = s THEN 1 ELSE 0)
<1>1. /\ Len(q) \in Nat /\ Len(q) >= 1 /\ DOMAIN q = 1..Len(q) /\ Head(q) = q[1]
      /\ Tail(q) \in Seq(Slot) /\ DOMAIN Tail(q) = 1..(Len(q) - 1)
      /\ \A i \in 1..(Len(q) - 1) : Tail(q)[i] = q[i + 1]
  BY TailOf, LenProperties
<1> DEFINE rest == Tasks(q, s) \ {1}
           shift == [i \in Tasks(Tail(q), s) |-> i + 1]
<1>2. shift \in [Tasks(Tail(q), s) -> rest]
  BY <1>1 DEF Tasks
<1>3. shift \in Injection(Tasks(Tail(q), s), rest)
  <2>1. \A a, b \in Tasks(Tail(q), s) : shift[a] = shift[b] => a = b
    BY <1>1 DEF Tasks
  <2>2. QED
    BY <1>2, <2>1 DEF Injection, IsInjective
<1>4. shift \in Surjection(Tasks(Tail(q), s), rest)
  <2>1. ASSUME NEW j \in rest PROVE \E a \in Tasks(Tail(q), s) : shift[a] = j
    <3>1. j \in 2..Len(q) /\ q[j] = s
      BY <1>1 DEF Tasks
    <3>2. j - 1 \in 1..(Len(q) - 1) /\ Tail(q)[j - 1] = q[j] /\ (j - 1) + 1 = j
      BY <1>1, <3>1
    <3>3. j - 1 \in Tasks(Tail(q), s)
      BY <1>1, <3>1, <3>2 DEF Tasks
    <3>4. QED
      BY <3>2, <3>3
  <2>2. QED
    BY <1>2, <2>1 DEF Surjection
<1>5. Cardinality(rest) = Cardinality(Tasks(Tail(q), s))
  BY <1>1, <1>3, <1>4, TasksFinite, FS_Bijection DEF ExistsBijection, Bijection
<1>6. Cardinality(rest) = IF 1 \in Tasks(q, s) THEN Cardinality(Tasks(q, s)) - 1 ELSE Cardinality(Tasks(q, s))
  BY TasksFinite, FS_RemoveElement
<1>7. 1 \in Tasks(q, s) <=> Head(q) = s
  BY <1>1 DEF Tasks
<1> HIDE DEF rest
<1>8. QED
  BY <1>1, <1>5, <1>6, <1>7, TasksFinite

Covered(s) == s \in Live => Len(mail[s]) <= Cardinality(Tasks(tasks, s))

LEMMA DeliverCovers ==
    ASSUME TypeOK, \A s \in Slot : Covered(s), NEW u \in Slot, NEW record \in Record, Deliver(u, record), serial' = serial
    PROVE  \A s \in Slot : Covered(s)'
<1> SUFFICES ASSUME NEW s \in Slot, s \in Live PROVE Len(mail'[s]) <= Cardinality(Tasks(tasks', s))
  BY DEF Covered, Live
<1>1. Len(mail[s]) <= Cardinality(Tasks(tasks, s)) /\ tasks \in Seq(Slot) /\ mail[s] \in Seq(Record)
  BY DEF Covered, TypeOK
<1>2. Cardinality(Tasks(tasks', s)) = Cardinality(Tasks(tasks, s)) + (IF u = s THEN 1 ELSE 0)
  BY <1>1, TasksAppend DEF Deliver
<1>3. Cardinality(Tasks(tasks, s)) \in Nat /\ Len(mail[s]) \in Nat
  BY <1>1, TasksFinite, LenProperties
<1>4. CASE u = s
  <2>1. Len(mail'[s]) = Len(mail[s]) + 1
    BY <1>1, <1>4, AppendOf DEF Deliver, TypeOK
  <2>2. QED
    BY <1>1, <1>2, <1>3, <1>4, <2>1
<1>5. CASE u # s
  <2>1. mail'[s] = mail[s]
    BY <1>5 DEF Deliver, TypeOK
  <2>2. QED
    BY <1>1, <1>2, <1>3, <1>5, <2>1
<1>6. QED
  BY <1>4, <1>5

\* The task taken is one of its slot, and the message with it, or the request.
LEMMA TakeCovers ==
    ASSUME TypeOK, \A s \in Slot : Covered(s), NEW u \in Slot, Takes(u),
           \A s \in Slot \ {u} : mail'[s] = mail[s] /\ serial'[s] = serial[s],
           (u \notin Live)' \/ (serial' = serial /\ mail[u] # <<>> /\ Pop(u))
    PROVE  \A s \in Slot : Covered(s)'
<1> SUFFICES ASSUME NEW s \in Slot, (s \in Live)' PROVE Len(mail'[s]) <= Cardinality(Tasks(tasks', s))
  BY DEF Covered
<1>1. tasks \in Seq(Slot) /\ mail[s] \in Seq(Record) /\ tasks # <<>> /\ Head(tasks) = u /\ tasks' = Tail(tasks)
  BY DEF Takes, TypeOK
<1>2. s \in Live /\ Len(mail[s]) <= Cardinality(Tasks(tasks, s))
  BY DEF Covered, Live
<1>3. Cardinality(Tasks(tasks, s)) = Cardinality(Tasks(tasks', s)) + (IF u = s THEN 1 ELSE 0)
  BY <1>1, TasksTail
<1>4. Cardinality(Tasks(tasks, s)) \in Nat /\ Cardinality(Tasks(tasks', s)) \in Nat /\ Len(mail[s]) \in Nat
  <2>1. Tail(tasks) \in Seq(Slot)
    BY <1>1, TailOf
  <2>2. QED
    BY <1>1, <2>1, TasksFinite, LenProperties
<1>5. CASE u = s
  <2>1. mail[s] # <<>> /\ mail'[s] = Tail(mail[s])
    BY <1>5 DEF Pop, TypeOK
  <2>2. Len(mail'[s]) = Len(mail[s]) - 1
    BY <1>1, <2>1, TailOf
  <2>3. QED
    BY <1>2, <1>3, <1>4, <1>5, <2>2
<1>6. CASE u # s
  BY <1>2, <1>3, <1>4, <1>6
<1>7. QED
  BY <1>5, <1>6

LEMMA StepCovers ==
    ASSUME IInv, phase = "serving" => \A s \in Slot : Covered(s), [Next]_vars, phase' = "serving"
    PROVE  \A s \in Slot : Covered(s)'
<1> USE DEF requestVars, peerVars, jobVars
<1>1. ASSUME serial' = serial, mail' = mail, tasks' = tasks, phase = "serving" PROVE \A s \in Slot : Covered(s)'
  BY <1>1 DEF Covered, Live
<1>2. TypeOK
  BY DEF IInv
<1>3. CASE \E s \in Slot : PeerBegins(s) \/ PeerAborts(s) \/ PeerLate(s) \/ PeerStep(s)
  <2>1. serial' = serial /\ mail' = mail /\ tasks' = tasks /\ phase = "serving"
    BY <1>3 DEF PeerBegins, BeginsWith, PeerAborts, PeerLate, PeerStep, PeerContinues, PeerReads, Sends
  <2>2. QED
    BY <1>1, <2>1
<1>4. CASE \E s \in Slot : Receive(s)
  <2>1. PICK s \in Slot : Receive(s)
    BY <1>4
  <2>2. CASE ReceiveForRequest(s)
    <3>1. First(s) \in Record /\ phase = "serving"
      BY <1>2, <2>2, TailOf DEF ReceiveForRequest, Reads, First, TypeOK
    <3>2. QED
      BY <1>2, <2>2, <3>1, DeliverCovers DEF ReceiveForRequest
  <2>3. CASE ReceiveBegin(s)
    <3>1. /\ tasks' = tasks /\ phase = "serving" /\ mail' = [mail EXCEPT ![s] = <<>>]
          /\ serial' = [serial EXCEPT ![s] = First(s).n]
      BY <2>3 DEF ReceiveBegin, Reads
    <3>2. \A u \in Slot \ {s} : Covered(u)'
      BY <1>2, <3>1 DEF Covered, Live, TypeOK
    <3>3. Len(mail'[s]) = 0 /\ Cardinality(Tasks(tasks', s)) \in Nat
      BY <1>2, <3>1, EmptySeq, TasksFinite DEF TypeOK
    <3>4. Covered(s)'
      BY <3>3 DEF Covered
    <3>5. QED
      BY <3>2, <3>4
  <2>4. CASE ReceiveStray(s)
    BY <1>1, <2>4 DEF ReceiveStray, Reads
  <2>5. QED
    BY <2>1, <2>2, <2>3, <2>4 DEF Receive
<1>5. CASE \E s \in Slot : Handle(s)
  <2>1. PICK s \in Slot : Handle(s)
    BY <1>5
  <2>2. ASSUME Takes(s), Erase(s) PROVE \A u \in Slot : Covered(u)'
    <3>1. phase = "serving" /\ (s \notin Live)' /\ \A u \in Slot \ {s} : mail'[u] = mail[u] /\ serial'[u] = serial[u]
      BY <1>2, <2>2 DEF Takes, Erase, Live, TypeOK
    <3>2. QED
      BY <1>2, <2>2, <3>1, TakeCovers
  <2>3. ASSUME Takes(s), Pop(s), mail[s] # <<>>, serial' = serial PROVE \A u \in Slot : Covered(u)'
    <3>1. phase = "serving" /\ \A u \in Slot \ {s} : mail'[u] = mail[u] /\ serial'[u] = serial[u]
      BY <1>2, <2>3 DEF Takes, Pop, TypeOK
    <3>2. QED
      BY <1>2, <2>3, <3>1, TakeCovers
  <2>4. CASE HandleVoid(s)
    <3>1. Takes(s) /\ phase = "serving" /\ serial' = serial /\ mail' = mail /\ (s \notin Live)'
      BY <2>4 DEF HandleVoid, Takes, Live
    <3>2. QED
      BY <1>2, <3>1, TakeCovers
  <2>5. CASE HandleNothing(s)
    BY <2>5 DEF HandleNothing
  <2>6. CASE HandleQuiet(s) \/ HandleStart(s)
    BY <2>3, <2>6 DEF HandleQuiet, HandleStart, Responds, Handles
  <2>7. CASE HandleUnknownRole(s) \/ HandleOutOfOrder(s) \/ HandleTooLong(s)
    BY <2>2, <2>7 DEF HandleUnknownRole, HandleOutOfOrder, HandleTooLong, Handles, Completes
  <2>8. CASE HandleRefused(s) \/ HandleFinish(s)
    BY <2>2, <2>8 DEF HandleRefused, HandleFinish, Responds, Handles, Completes
  <2>9. CASE HandleAbort(s)
    BY <2>2, <2>9 DEF HandleAbort, Handles
  <2>10. QED
    BY <2>1, <2>4, <2>5, <2>6, <2>7, <2>8, <2>9 DEF Handle
<1>6. CASE NoTask
  BY <1>1, <1>6 DEF NoTask
<1>7. CASE JobBegins \/ JobEnds \/ JobThreadEnds
  BY <1>1, <1>7 DEF JobBegins, JobEnds, JobThreadEnds
<1>8. CASE JobCompletes
  <2>1. phase = "serving" /\ serial' = serial /\ pending # <<>>
    BY <1>8 DEF JobCompletes, Jobs!Complete, IInv, ThreadOK
  <2>2. Head(pending).slot \in Slot /\ [kind |-> "DONE", n |-> Head(pending).n] \in Record
    <3>1. Head(pending) \in Job
      BY <1>2, <2>1, TailOf DEF TypeOK
    <3>2. QED
      BY <3>1 DEF Job, Record, Kind
  <2>3. CASE Head(pending).slot \in Live
    BY <1>2, <1>8, <2>1, <2>2, <2>3, DeliverCovers DEF JobCompletes
  <2>4. CASE Head(pending).slot \notin Live
    BY <1>1, <1>8, <2>1, <2>4 DEF JobCompletes
  <2>5. QED
    BY <2>3, <2>4
<1>9. CASE Halt \/ StopJobs \/ Exit
  BY <1>9 DEF Halt, StopJobs, Exit
<1>10. CASE UNCHANGED vars
  BY <1>1, <1>10 DEF vars
<1>11. QED
  BY <1>3, <1>4, <1>5, <1>6, <1>7, <1>8, <1>9, <1>10 DEF Next, Loop, JobStep

\* No message of a request is left lying: the tasks that push() queues are as
\* many as the messages still to be handled, whatever became of the requests that
\* had the FullId before.
THEOREM MessagesHaveTasks == Spec => []EveryMessageHasTask
<1>1. EveryMessageHasTask <=> (phase = "serving" => \A s \in Slot : Covered(s))
  BY DEF EveryMessageHasTask, Covered, Tasks, Live
<1>2. Init => EveryMessageHasTask
  <2>1. Init => Live = {}
    BY DEF Init, Live
  <2>2. QED
    BY <2>1 DEF EveryMessageHasTask
<1>3. IInv /\ EveryMessageHasTask /\ [Next]_vars => EveryMessageHasTask'
  <2> SUFFICES ASSUME IInv, EveryMessageHasTask, [Next]_vars, phase' = "serving"
               PROVE  \A s \in Slot : Covered(s)'
    BY DEF EveryMessageHasTask, Covered, Tasks, Live
  <2>1. QED
    BY <1>1, StepCovers
<1>4. QED
  BY <1>2, <1>3, Inductive, PTL DEF Spec

-----------------------------------------------------------------------------
(* The job thread is the service that JobQueue implements *)

\* The queues, requests and jobs keep their types.
THEOREM TypeCorrect == Spec => []TypeOK
<1>1. IInv => TypeOK
  BY DEF IInv
<1>2. QED
  BY <1>1, Inductive, PTL

LEMMA ServiceStep == IInv /\ [Next]_vars => [Jobs!ServiceNext]_(Jobs!serviceVars)
<1> SUFFICES ASSUME IInv, [Next]_vars PROVE Jobs!ServiceNext \/ UNCHANGED Jobs!serviceVars
  OBVIOUS
<1> USE DEF jobVars, Jobs!serviceVars
<1>1. CASE \E s \in Slot : PeerBegins(s) \/ PeerAborts(s) \/ PeerLate(s) \/ PeerStep(s)
  BY <1>1 DEF PeerBegins, BeginsWith, PeerAborts, PeerLate, PeerStep, PeerContinues, PeerReads, Sends
<1>2. CASE \E s \in Slot : Receive(s)
  BY <1>2 DEF Receive, ReceiveForRequest, ReceiveBegin, ReceiveStray, Reads
<1>3. CASE \E s \in Slot : Handle(s)
  <2>1. PICK s \in Slot : Handle(s)
    BY <1>3
  <2>2. CASE HandleStart(s)
    <3>1. s \in Live /\ TypeOK /\ SlotOK(s) /\ Jobs!Submit([slot |-> s, n |-> serial[s]])
      BY <2>2 DEF HandleStart, Responds, Handles, IInv
    <3>2. [slot |-> s, n |-> serial[s]] \in Job
      BY <3>1, SerialOf DEF SlotOK, Job
    <3>3. QED
      BY <3>1, <3>2 DEF Jobs!ServiceNext
  <2>3. CASE ~HandleStart(s)
    BY <2>1, <2>3 DEF Handle, HandleVoid, HandleNothing, HandleQuiet, HandleUnknownRole, HandleOutOfOrder,
                      HandleRefused, HandleFinish, HandleTooLong, HandleAbort, Completes
  <2>4. QED
    BY <2>2, <2>3
<1>4. CASE JobStep
  BY <1>4 DEF JobStep, JobBegins, JobEnds, JobCompletes, JobThreadEnds, Jobs!ServiceNext
<1>5. CASE NoTask \/ Halt \/ StopJobs \/ Exit
  BY <1>5 DEF NoTask, Halt, StopJobs, Exit, Jobs!ServiceNext
<1>6. CASE UNCHANGED vars
  BY <1>6 DEF vars
<1>7. QED
  BY <1>1, <1>2, <1>3, <1>4, <1>5, <1>6 DEF Next, Loop

\* The job thread here does nothing that JobService, the service JobQueue is
\* proved to implement, does not allow its users: the jobs submitted are well
\* formed, one runs at a time, in order, and its completion follows at once.
THEOREM ServesJobs == Spec => Jobs!ServiceSpec
<1>1. Init => Jobs!ServiceInit
  BY DEF Init
<1>2. QED
  BY <1>1, ServiceStep, Inductive, PTL DEF Spec, Jobs!ServiceSpec
=============================================================================
