---------------------------- MODULE Transmitter -----------------------------
(***************************************************************************)
(* The way out: FcgistreamSink::write() cuts what a request writes into     *)
(* records (OutputRecord), Transceiver::Buffer keeps them in a list of      *)
(* chunks beside a queue of frames, transmit() writes the frames to their   *)
(* descriptors, and descriptors are closed, forgotten and used again.       *)
(*                                                                          *)
(* All of it runs on the FastCGI thread; the web server hangs up and a      *)
(* signal cuts a write short at any moment.  A byte is known by the         *)
(* connection it is written for and its place in that connection's output:  *)
(* history that no guard of the code's own actions reads.                   *)
(***************************************************************************)
EXTENDS OutputRecord, Sequences, SequencesExt

CONSTANTS
    ChunkSize,          \* Chunk::size
    RequestId,          \* the ids the web server uses on one connection
    MaxConnections,     \* bound: connections the web server makes
    MaxRequests,        \* bound: requests it makes
    Lengths,            \* bound: lengths of the output of a request
    MaxShorts,          \* bound: writes cut short by a signal
    Cuts                \* bound: the bytes such a write takes, if not all but one

ASSUME TransmitterAssumption ==
    /\ ChunkSize \in Nat /\ ChunkSize >= minBlockSize
    /\ MaxConnections \in Nat /\ MaxRequests \in Nat /\ MaxShorts \in Nat
    /\ Lengths \subseteq Nat /\ Cuts \subseteq Nat

Fd == 1..MaxConnections         \* descriptors: the lowest free one is used
Connection == 1..MaxConnections
Closed == 0                     \* what conn holds for a free descriptor
EndSize == 16                   \* END_REQUEST: sizeof(Header)+sizeof(EndRequest)

VARIABLES
    pc,         \* in the loop, in write() of the sink, or in transmit()
    out,        \* the response being written: its request and what is left of it
    chunks,     \* each with its end and with the spans of output written to it
    write,      \* writeIt, as an index of chunks
    pRead,      \* an offset in the first chunk
    frames,
    conn,       \* per descriptor: the connection open on it
    polled,     \* the descriptors in pollFds
    requests,   \* the requests in the map
    peers,      \* connections the web server has not closed
    made,       \* connections made
    begun,      \* requests made
    shorts,     \* writes cut short
    written,    \* history, per connection: bytes written for it
    received,   \* history, per connection: its bytes that arrived
    garbled     \* history: a connection was sent bytes out of place

bufferVars == <<chunks, write, pRead, frames>>
fdVars == <<conn, polled>>
arrivals == <<received, garbled>>
vars == <<pc, out, chunks, write, pRead, frames, conn, polled, requests, peers, made, begun,
          shorts, written, received, garbled>>

EmptyChunk == [end |-> 0, spans |-> <<>>]
Nothing == [fd |-> Closed, conn |-> Closed, left |-> 0, kill |-> FALSE]

Init ==
    /\ pc = "loop" /\ out = Nothing
    /\ chunks = <<EmptyChunk>> /\ write = 1 /\ pRead = 0 /\ frames = <<>>
    /\ conn = [fd \in Fd |-> Closed] /\ polled = {} /\ requests = {}
    /\ peers = {} /\ made = 0 /\ begun = 0 /\ shorts = 0
    /\ written = [c \in Connection |-> 0] /\ received = [c \in Connection |-> 0]
    /\ garbled = FALSE

-----------------------------------------------------------------------------
(* Transceiver::Buffer *)

room == ChunkSize - chunks[write].end

\* A mutant of NextChunk: a chunk is left only when it is full.
NextChunkWhenFull(list) ==
    IF list[write].end < ChunkSize
    THEN write' = write /\ chunks' = list
    ELSE /\ write' = write + 1
         /\ chunks' = IF write = Len(list) THEN Append(list, EmptyChunk) ELSE list

\* Less than minBlockSize is left: writeIt goes to the next chunk, a new one
\* unless one is waiting.
NextChunk(list) ==
    IF ChunkSize - list[write].end >= minBlockSize
    THEN write' = write /\ chunks' = list
    ELSE /\ write' = write + 1
         /\ chunks' = IF write = Len(list) THEN Append(list, EmptyChunk) ELSE list

\* secureWrite() of what was put at writeIt->end for the descriptor of "out".
secureWrite(size, kill) ==
    LET span == [at |-> chunks[write].end, len |-> size, conn |-> out.conn, from |-> written[out.conn]]
    IN  /\ NextChunk([chunks EXCEPT ![write].end = @ + size,
                                    ![write].spans = Append(@, span)])
        /\ frames' = Append(frames, [size |-> size, closeFd |-> kill, fd |-> out.fd, conn |-> out.conn])
        /\ written' = [written EXCEPT ![out.conn] = @ + size]
        /\ UNCHANGED pRead

\* A mutant of FreeChunk: the chunk is used again with its end where it was.
FreeChunkUnreset ==
    /\ write' = write - 1
    /\ chunks' = IF write = Len(chunks) THEN Append(Tail(chunks), Head(chunks)) ELSE Tail(chunks)

\* The first chunk is read: it becomes the one after writeIt, or goes if there is one.
FreeChunk ==
    /\ write' = write - 1
    /\ chunks' = IF write = Len(chunks) THEN Append(Tail(chunks), EmptyChunk) ELSE Tail(chunks)

\* freeRead(): the first "size" bytes and as much of the first frame are done with.
freeRead(size) ==
    /\ IF pRead + size < Head(chunks).end
       THEN pRead' = pRead + size /\ UNCHANGED <<chunks, write>>
       ELSE /\ pRead' = 0
            /\ IF write = 1
               THEN chunks' = [chunks EXCEPT ![1] = EmptyChunk] /\ UNCHANGED write
               ELSE FreeChunk
    /\ frames' = IF size = Head(frames).size THEN Tail(frames)
                 ELSE [frames EXCEPT ![1].size = @ - size]

BufferEmpty == write = 1 /\ pRead = chunks[1].end

-----------------------------------------------------------------------------
(* Descriptors *)

\* A mutant of freeFd: it does not close.
freeFdUnclosed(fds) == polled' = polled \ fds /\ UNCHANGED conn

\* freeFd() of each of fds: nothing happens to one that is not polled.
freeFd(fds) ==
    /\ polled' = polled \ fds
    /\ conn' = [fd \in Fd |-> IF fd \in fds \cap polled THEN Closed ELSE conn[fd]]

\* accept() in Transceiver::handler()
Accept ==
    /\ pc = "loop" /\ made < MaxConnections
    /\ \E fd \in Fd :
        /\ conn[fd] = Closed /\ \A lower \in 1..(fd - 1) : conn[lower] # Closed
        /\ conn' = [conn EXCEPT ![fd] = made + 1]
        /\ polled' = polled \cup {fd}
    /\ made' = made + 1 /\ peers' = peers \cup {made'}
    /\ UNCHANGED <<pc, out, bufferVars, requests, begun, shorts, written, arrivals>>

\* POLLHUP, or read() returned 0: the descriptor is forgotten and stays open.
Forget ==
    /\ pc = "loop"
    /\ \E fd \in polled : conn[fd] \notin peers /\ polled' = polled \ {fd}
    /\ UNCHANGED <<pc, out, bufferVars, conn, requests, peers, made, begun, shorts, written, arrivals>>

PeerHangsUp ==
    /\ \E c \in peers : peers' = peers \ {c}
    /\ UNCHANGED <<pc, out, bufferVars, fdVars, requests, made, begun, shorts, written, arrivals>>

-----------------------------------------------------------------------------
(* Requests: each is begun by the web server, and writes its output and     *)
(* END_REQUEST in one call of Request::handler()                            *)

\* BEGIN_REQUEST is read and makes a request, unless one has that FullId.
\* The web server uses a connection again when the answers on it arrived, and
\* asks for it to be closed (kill) with a request that is alone on it.
Begin ==
    /\ pc = "loop" /\ begun < MaxRequests /\ begun' = begun + 1
    /\ \E fd \in polled, id \in RequestId, kill \in BOOLEAN :
        /\ conn[fd] \in peers
        /\ \A r \in requests : r.conn = conn[fd] => r.id # id /\ ~r.kill /\ ~kill
        /\ \A i \in DOMAIN frames : frames[i].conn # conn[fd]
        /\ requests' = IF \E r \in requests : r.fd = fd /\ r.id = id THEN requests
                       ELSE requests \cup {[fd |-> fd, id |-> id, conn |-> conn[fd], kill |-> kill]}
    /\ UNCHANGED <<pc, out, bufferVars, fdVars, peers, made, shorts, written, arrivals>>

\* The request has its answer: it is written, and the request goes with it.
Respond ==
    /\ pc = "loop"
    /\ \E r \in requests, n \in Lengths :
        /\ requests' = requests \ {r}
        /\ out' = [fd |-> r.fd, conn |-> r.conn, left |-> n, kill |-> r.kill]
    /\ pc' = "write"
    /\ UNCHANGED <<bufferVars, fdVars, peers, made, begun, shorts, written, arrivals>>

\* A record of FcgistreamSink::write(); secureWrite() calls transmit().
WriteRecord ==
    /\ pc = "write" /\ out.left > 0
    /\ secureWrite(Size(out.left, room), FALSE)
    /\ out' = [out EXCEPT !.left = @ - contentLength(out.left, room)]
    /\ pc' = "transmit"
    /\ UNCHANGED <<fdVars, requests, peers, made, begun, shorts, arrivals>>

\* complete(): END_REQUEST, of which requestWrite() is trusted to have room.
WriteEnd ==
    /\ pc = "write" /\ out.left = 0
    /\ secureWrite(EndSize, out.kill)
    /\ out' = Nothing
    /\ pc' = "transmit"
    /\ UNCHANGED <<fdVars, requests, peers, made, begun, shorts, arrivals>>

-----------------------------------------------------------------------------
(* transmit() *)

\* handler() begins with transmit().
Transmit ==
    /\ pc = "loop" /\ frames # <<>>
    /\ pc' = "transmit"
    /\ UNCHANGED <<out, bufferVars, fdVars, requests, peers, made, begun, shorts, written, arrivals>>

Frame == Head(frames)
\* To the sink if that is where transmit() was called, else to the loop.
Return == pc' = IF out = Nothing THEN "loop" ELSE "write"

Writable == conn[Frame.fd] \in peers

\* The bytes at pRead go to whatever connection is open on the frame's
\* descriptor; they ought to be the next ones written for it.
Arrives(size) ==
    LET c == conn[Frame.fd]
        spans == Head(chunks).spans
        InPlace == \E i \in DOMAIN spans :
            /\ spans[i].at <= pRead /\ pRead + size <= spans[i].at + spans[i].len
            /\ spans[i].conn = c /\ spans[i].from + (pRead - spans[i].at) = received[c]
    IN  /\ received' = [received EXCEPT ![c] = @ + size]
        /\ garbled' = (garbled \/ ~InPlace)

SendAll ==
    /\ pc = "transmit" /\ frames # <<>> /\ Writable
    /\ Arrives(Frame.size) /\ freeRead(Frame.size)
    /\ freeFd(IF Frame.closeFd THEN {Frame.fd} ELSE {})
    /\ UNCHANGED <<pc, out, requests, peers, made, begun, shorts, written>>

\* What write() may take of a frame when a signal cuts it short.
Short(size) == {sent \in 1..(size - 1) : sent \in Cuts \/ sent = size - 1}

\* A mutant of SendPart: the whole frame is taken for sent.
SendPartWhole ==
    /\ pc = "transmit" /\ frames # <<>> /\ Writable
    /\ shorts < MaxShorts /\ shorts' = shorts + 1
    /\ \E sent \in Short(Frame.size) : Arrives(sent)
    /\ freeRead(Frame.size)
    /\ Return
    /\ UNCHANGED <<out, fdVars, requests, peers, made, begun, written>>

\* A signal cuts the write short.
SendPart ==
    /\ pc = "transmit" /\ frames # <<>> /\ Writable
    /\ shorts < MaxShorts /\ shorts' = shorts + 1
    /\ \E sent \in Short(Frame.size) : Arrives(sent) /\ freeRead(sent)
    /\ Return
    /\ UNCHANGED <<out, fdVars, requests, peers, made, begun, written>>

\* A mutant of SendFails: after EPIPE transmit() gives up without freeRead().
SendFailsKept ==
    /\ pc = "transmit" /\ frames # <<>> /\ ~Writable
    /\ freeFd({Frame.fd})
    /\ Return
    /\ UNCHANGED <<out, bufferVars, requests, peers, made, begun, shorts, written, arrivals>>

\* EPIPE or EBADF: the descriptor is freed and the frame dropped.
SendFails ==
    /\ pc = "transmit" /\ frames # <<>> /\ ~Writable
    /\ freeFd({Frame.fd}) /\ freeRead(Frame.size)
    /\ UNCHANGED <<pc, out, requests, peers, made, begun, shorts, written, arrivals>>

SendNothing ==
    /\ pc = "transmit" /\ frames = <<>>
    /\ Return
    /\ UNCHANGED <<out, bufferVars, fdVars, requests, peers, made, begun, shorts, written, arrivals>>

-----------------------------------------------------------------------------
Send == SendAll \/ SendPart \/ SendFails \/ SendNothing
Thread == WriteRecord \/ WriteEnd \/ Transmit \/ Send

Next == Thread \/ Accept \/ Forget \/ Begin \/ Respond \/ PeerHangsUp

\* The thread does not stop in the middle of its work, and the web server
\* reads what is written to it (writes block until it does).
Spec == Init /\ [][Next]_vars
FairSpec == Spec /\ WF_vars(Thread)

-----------------------------------------------------------------------------
(* Properties *)

\* What arrives on a connection is what was written for it, in order, without
\* a gap, and nothing else: however frames, chunks and descriptors are used again.
OwnOutput == ~garbled

\* No byte is lost while the web server listens: what was written for its
\* connection has arrived or is in the frames.
NothingLost ==
    \A c \in peers :
        LET arriving[i \in 0..Len(frames)] ==
                IF i = 0 THEN received[c]
                ELSE arriving[i - 1] + (IF frames[i].conn = c THEN frames[i].size ELSE 0)
        IN  written[c] = arriving[Len(frames)]

\* The pointers into the chunks mean what the callers take them to mean.
\* empty(), by which the loop decides whether it may sleep, compares two: they
\* are equal just when no frame is left to send.  requestWrite() always has the
\* room it is trusted to have, and no more than one chunk is kept in reserve,
\* empty.
BufferTells ==
    /\ BufferEmpty <=> frames = <<>>
    /\ room >= minBlockSize
    /\ Len(chunks) <= write + 1
    /\ Len(chunks) = write + 1 => Last(chunks) = EmptyChunk

\* A descriptor that is open and not polled, which no one will ever close, is
\* one whose web server hung up.
ForgottenWereHungUp == \A fd \in Fd \ polled : conn[fd] # Closed => conn[fd] \notin peers

\* What is queued is sent, or dropped with its connection.
Drained == (frames # <<>>) ~> (frames = <<>>)
=============================================================================
