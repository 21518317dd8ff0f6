-------------------------- MODULE TransmitterProofs --------------------------
(***************************************************************************)
(* For any size of the chunks, any number of connections and requests, any  *)
(* lengths of output and any number of writes cut short: the pointers of    *)
(* Transceiver::Buffer tell what its callers take them to tell, and a        *)
(* descriptor that nobody will close is one whose web server hung up.  And  *)
(* if the web server has one request at a time on a connection, what arrives *)
(* there is that connection's output, all of it and in order.                *)
(***************************************************************************)
EXTENDS Transmitter, SequenceTheorems, WellFoundedInduction, TLAPS

-----------------------------------------------------------------------------
(* What a record of FcgistreamSink::write() always is, for any output and   *)
(* any room the buffer may offer.                                           *)

\* What is asked for: enough for all the output, with less than chunkSize to spare.
LEMMA AskedBounds ==
    ASSUME NEW n \in Nat \ {0}
    PROVE  /\ Asked(n) \in Nat
           /\ Asked(n) >= HeaderSize + chunkSize
           /\ Asked(n) <= MaxSize
           /\ Asked(n) < n + HeaderSize + chunkSize
<1>1. n % chunkSize \in 0..(chunkSize - 1) /\ (n - (n % chunkSize)) % chunkSize = 0
  BY DEF chunkSize
<1>2. n - (n % chunkSize) + chunkSize >= chunkSize /\ (n % chunkSize = 0 => n >= chunkSize)
  BY DEF chunkSize
<1>3. QED
  BY <1>1, <1>2 DEF Asked, AtMost, HeaderSize, chunkSize, MaxSize

\* The size is a multiple of chunkSize, within the space and within 16 bits.
LEMMA SizeBounds ==
    ASSUME NEW n \in Nat \ {0}, NEW space \in Nat, space >= minBlockSize
    PROVE  /\ Size(n, space) \in Nat
           /\ Size(n, space) % chunkSize = 0
           /\ Size(n, space) >= HeaderSize + chunkSize
           /\ Size(n, space) <= space
           /\ Size(n, space) <= MaxSize
           /\ Size(n, space) < n + HeaderSize + chunkSize
<1> DEFINE given == AtMost(Asked(n), space)
<1>1. /\ given \in Nat /\ given >= HeaderSize + chunkSize /\ given <= MaxSize
      /\ given <= space /\ given < n + HeaderSize + chunkSize
  BY AskedBounds DEF AtMost, HeaderSize, chunkSize, MaxSize, minBlockSize
<1> HIDE DEF given
<1>2. /\ (given \div 8) * 8 \in Nat /\ ((given \div 8) * 8) % 8 = 0
      /\ (given \div 8) * 8 <= given /\ (given \div 8) * 8 >= 16
  BY <1>1 DEF HeaderSize, chunkSize
<1>3. Size(n, space) = (given \div 8) * 8
  BY DEF Size, given, chunkSize
<1>4. QED
  BY <1>1, <1>2, <1>3 DEF HeaderSize, chunkSize, MaxSize

\* A record is exactly filled by its header, the bytes it takes of the output,
\* at least one of them, and fewer than chunkSize bytes of padding.
THEOREM RecordFilled ==
    ASSUME NEW n \in Nat \ {0}, NEW space \in Nat, space >= minBlockSize
    PROVE  /\ contentLength(n, space) \in 1..n
           /\ contentPadding(n, space) \in 0..(chunkSize - 1)
           /\ HeaderSize + contentLength(n, space) + contentPadding(n, space) = Size(n, space)
<1> DEFINE size == Size(n, space)
           length == contentLength(n, space)
<1>1. /\ size \in Nat /\ size % 8 = 0 /\ size >= 16 /\ size < n + 16
  BY SizeBounds DEF HeaderSize, chunkSize
<1>2. length = IF size - 8 <= n THEN size - 8 ELSE n
  BY DEF contentLength, AtMost, HeaderSize
<1>3. contentPadding(n, space) = IF 8 - (length % 8) = 8 THEN 0 ELSE 8 - (length % 8)
  BY DEF contentPadding, chunkSize
<1> HIDE DEF size, length
<1>4. length \in 1..n
  BY <1>1, <1>2
<1>5. CASE size - 8 <= n
  <2>1. length = size - 8 /\ length % 8 = 0
    BY <1>1, <1>2, <1>5
  <2>2. QED
    BY <1>1, <1>3, <1>4, <2>1 DEF size, length, HeaderSize, chunkSize
<1>6. CASE size - 8 > n
  <2>1. length = n /\ (size - 8) % 8 = 0 /\ size - 8 - n \in 1..7
    BY <1>1, <1>2, <1>6
  <2>2. 8 - (n % 8) = size - 8 - n
    BY <1>1, <2>1
  <2>3. QED
    BY <1>1, <1>3, <1>4, <2>1, <2>2 DEF size, length, HeaderSize, chunkSize
<1>7. QED
  BY <1>1, <1>5, <1>6

-----------------------------------------------------------------------------
(* The invariants *)

SpanSet == [at : Nat, len : Nat, conn : Connection, from : Nat]
ChunkSet == [end : Nat, spans : Seq(SpanSet)]
FrameSet == [size : Nat \ {0}, closeFd : BOOLEAN, fd : Fd, conn : Connection]
RequestSet == [fd : Fd, id : RequestId, conn : Connection, kill : BOOLEAN]
OutSet == [fd : Fd, conn : Connection, left : Nat, kill : BOOLEAN]

\* Every variable keeps its type; between two responses nothing is being written.
TypeOK ==
    /\ pc \in {"loop", "write", "transmit"}
    /\ out \in OutSet \cup {Nothing}
    /\ pc = "loop" => out = Nothing
    /\ pc = "write" => out # Nothing
    /\ chunks \in Seq(ChunkSet) /\ write \in 1..Len(chunks) /\ pRead \in Nat
    /\ frames \in Seq(FrameSet)
    /\ conn \in [Fd -> 0..made] /\ polled \subseteq Fd
    /\ requests \subseteq RequestSet
    /\ made \in 0..MaxConnections /\ peers \subseteq 1..made
    /\ begun \in Nat /\ shorts \in Nat
    /\ written \in [Connection -> Nat] /\ received \in [Connection -> Nat]
    /\ garbled \in BOOLEAN

\* There is room to write, and at most one chunk waits, empty.
ChunksOK ==
    /\ chunks[write].end + minBlockSize <= ChunkSize
    /\ Len(chunks) <= write + 1
    /\ Len(chunks) = write + 1 => chunks[write + 1] = EmptyChunk

-----------------------------------------------------------------------------
(* Sequences *)

LEMMA TailOf ==
    ASSUME NEW S, NEW q \in Seq(S), q # <<>>
    PROVE  /\ Len(q) \in Nat \ {0} /\ 1 \in 1..Len(q) /\ Head(q) = q[1] /\ Head(q) \in S
           /\ Tail(q) \in Seq(S) /\ Len(Tail(q)) = Len(q) - 1
           /\ \A i \in 1..Len(Tail(q)) : i + 1 \in 1..Len(q) /\ Tail(q)[i] = q[i + 1]
<1>1. Len(q) \in Nat \ {0}
  BY EmptySeq
<1>2. QED
  BY <1>1, HeadTailProperties

LEMMA AppendOf ==
    ASSUME NEW S, NEW q \in Seq(S), NEW e \in S
    PROVE  /\ Len(q) \in Nat /\ Append(q, e) \in Seq(S) /\ Len(Append(q, e)) = Len(q) + 1
           /\ \A i \in 1..Len(q) : Append(q, e)[i] = q[i]
           /\ Append(q, e)[Len(q) + 1] = e
<1>1. Len(q) \in Nat
  BY LenProperties
<1>2. QED
  BY <1>1, AppendProperties

LEMMA ExceptOf ==
    ASSUME NEW S, NEW q \in Seq(S), NEW i \in 1..Len(q), NEW e \in S
    PROVE  /\ Len(q) \in Nat /\ [q EXCEPT ![i] = e] \in Seq(S) /\ Len([q EXCEPT ![i] = e]) = Len(q)
           /\ [q EXCEPT ![i] = e][i] = e
           /\ \A j \in 1..Len(q) : j # i => [q EXCEPT ![i] = e][j] = q[j]
<1>1. Len(q) \in Nat
  BY LenProperties
<1>2. QED
  BY <1>1, ExceptSeq

LEMMA Domains == Fd = Connection /\ MaxConnections \in Nat /\ Closed \notin Fd /\ \A m \in 0..MaxConnections : 1..m \subseteq Connection
BY TransmitterAssumption DEF Fd, Connection, Closed

\* A frame, a chunk and what is being written, read off their types.
LEMMA Reading ==
    ASSUME TypeOK
    PROVE  /\ Len(frames) \in Nat /\ Len(chunks) \in Nat /\ write \in Nat \ {0} /\ pRead \in Nat
           /\ \A i \in 1..Len(frames) : /\ frames[i].size \in Nat \ {0} /\ frames[i].closeFd \in BOOLEAN
                                        /\ frames[i].fd \in Fd /\ frames[i].conn \in Connection
           /\ \A i \in 1..Len(chunks) : chunks[i] \in ChunkSet /\ chunks[i].end \in Nat /\ chunks[i].spans \in Seq(SpanSet)
           /\ (frames = <<>> <=> Len(frames) = 0)
<1>1. Len(frames) \in Nat /\ Len(chunks) \in Nat /\ write \in Nat \ {0}
  BY LenProperties DEF TypeOK
<1>2. ASSUME NEW i \in 1..Len(frames) PROVE frames[i] \in FrameSet
  BY ElementOfSeq DEF TypeOK
<1>3. ASSUME NEW i \in 1..Len(chunks) PROVE chunks[i] \in ChunkSet
  BY ElementOfSeq DEF TypeOK
<1>4. frames = <<>> <=> Len(frames) = 0
  BY EmptySeq DEF TypeOK
<1>5. \A i \in 1..Len(frames) : /\ frames[i].size \in Nat \ {0} /\ frames[i].closeFd \in BOOLEAN
                                /\ frames[i].fd \in Fd /\ frames[i].conn \in Connection
  BY <1>2 DEF FrameSet
<1>6. \A i \in 1..Len(chunks) : chunks[i] \in ChunkSet /\ chunks[i].end \in Nat /\ chunks[i].spans \in Seq(SpanSet)
  BY <1>3 DEF ChunkSet
<1>7. QED
  BY <1>1, <1>4, <1>5, <1>6 DEF TypeOK

LEMMA Empty == EmptyChunk \in ChunkSet /\ EmptyChunk.end = 0 /\ EmptyChunk.spans = <<>>
<1>1. <<>> \in Seq(SpanSet)
  BY EmptySeq
<1>2. QED
  BY <1>1 DEF EmptyChunk, ChunkSet

-----------------------------------------------------------------------------
(* What Buffer's operations do to it *)

Span(size) == [at |-> chunks[write].end, len |-> size, conn |-> out.conn, from |-> written[out.conn]]
NewFrame(size, kill) == [size |-> size, closeFd |-> kill, fd |-> out.fd, conn |-> out.conn]

LEMMA OutTypes ==
    ASSUME TypeOK, out # Nothing
    PROVE  out.fd \in Fd /\ out.conn \in Connection /\ out.left \in Nat /\ out.kill \in BOOLEAN
BY DEF TypeOK, OutSet

LEMMA RoomType ==
    ASSUME TypeOK, ChunksOK
    PROVE  room \in Nat /\ room >= minBlockSize /\ chunks[write].end + room = ChunkSize
<1>1. chunks[write].end \in Nat /\ ChunkSize \in Nat /\ chunks[write].end + 256 <= ChunkSize
  BY Reading, TransmitterAssumption DEF ChunksOK, TypeOK, minBlockSize
<1>2. QED
  BY <1>1 DEF room, minBlockSize

LEMMA ChunkWith ==
    ASSUME NEW c \in ChunkSet, NEW size, NEW span
    PROVE  [c EXCEPT !.end = @ + size, !.spans = Append(@, span)] = [end |-> c.end + size, spans |-> Append(c.spans, span)]
<1>1. PICK e \in Nat, q \in Seq(SpanSet) : c = [end |-> e, spans |-> q]
  BY DEF ChunkSet
<1>2. [c EXCEPT !.end = @ + size] = [end |-> e + size, spans |-> q]
  BY <1>1
<1>3. ASSUME NEW d, NEW x, d = [end |-> x, spans |-> q]
      PROVE  [d EXCEPT !.spans = Append(d.spans, span)] = [end |-> x, spans |-> Append(q, span)]
  BY <1>3, SMTT(30)
<1>4. QED
  BY <1>1, <1>2, <1>3

\* secureWrite(): a frame is added at the end of the chunk that is written to.
LEMMA Writes ==
    ASSUME TypeOK, ChunksOK, out # Nothing,
           NEW size \in Nat \ {0}, size <= room, NEW kill \in BOOLEAN, secureWrite(size, kill)
    PROVE  /\ frames' \in Seq(FrameSet) /\ Len(frames') = Len(frames) + 1
           /\ \A i \in 1..Len(frames) : frames'[i] = frames[i]
           /\ frames'[Len(frames) + 1] = NewFrame(size, kill)
           /\ chunks' \in Seq(ChunkSet)
           /\ \A i \in 1..Len(chunks) : i # write => chunks'[i] = chunks[i]
           /\ chunks'[write].end = chunks[write].end + size
           /\ chunks'[write].spans = Append(chunks[write].spans, Span(size))
           /\ write' = write \/ (write' = write + 1 /\ chunks'[write'].end = 0)
           /\ write' \in 1..Len(chunks') /\ ChunksOK' /\ pRead' = pRead
           /\ written' \in [Connection -> Nat]
<1> DEFINE chunk == [chunks[write] EXCEPT !.end = @ + size, !.spans = Append(@, Span(size))]
           list == [chunks EXCEPT ![write].end = @ + size, ![write].spans = Append(@, Span(size))]
<1>1. /\ Len(chunks) \in Nat /\ write \in 1..Len(chunks) /\ write \in Nat \ {0} /\ chunks \in Seq(ChunkSet)
      /\ chunks[write] \in ChunkSet /\ chunks[write].end \in Nat /\ chunks[write].spans \in Seq(SpanSet)
      /\ frames \in Seq(FrameSet) /\ Len(frames) \in Nat
  BY Reading DEF TypeOK
<1>2. out.fd \in Fd /\ out.conn \in Connection /\ written[out.conn] \in Nat
  BY OutTypes DEF TypeOK
<1>3. NewFrame(size, kill) \in FrameSet /\ Span(size) \in SpanSet
  BY <1>1, <1>2 DEF NewFrame, FrameSet, Span, SpanSet
<1>4. frames' = Append(frames, NewFrame(size, kill)) /\ NextChunk(list) /\ pRead' = pRead
      /\ written' = [written EXCEPT ![out.conn] = @ + size]
  BY DEF secureWrite, NewFrame, Span
<1>5. /\ frames' \in Seq(FrameSet) /\ Len(frames') = Len(frames) + 1
      /\ \A i \in 1..Len(frames) : frames'[i] = frames[i]
      /\ frames'[Len(frames) + 1] = NewFrame(size, kill)
  BY <1>1, <1>3, <1>4, AppendOf
<1>6. Append(chunks[write].spans, Span(size)) \in Seq(SpanSet)
  BY <1>1, <1>3, AppendOf
<1>7. chunk \in ChunkSet /\ chunk.end = chunks[write].end + size /\ chunk.spans = Append(chunks[write].spans, Span(size))
  <2>1. chunk = [end |-> chunks[write].end + size, spans |-> Append(chunks[write].spans, Span(size))]
    BY <1>1, ChunkWith
  <2>2. chunks[write].end + size \in Nat
    BY <1>1
  <2> HIDE DEF chunk
  <2>3. QED
    BY <1>6, <2>1, <2>2 DEF ChunkSet
<1>8. list = [chunks EXCEPT ![write] = chunk]
  BY <1>1 DEF ChunkSet
<1> HIDE DEF chunk, list
<1>9. list \in Seq(ChunkSet) /\ Len(list) = Len(chunks) /\ list[write] = chunk /\ \A i \in 1..Len(chunks) : i # write => list[i] = chunks[i]
  BY <1>1, <1>7, <1>8, ExceptOf
<1>10. ChunkSize \in Nat /\ chunks[write].end + size <= ChunkSize /\ minBlockSize = 256 /\ minBlockSize <= ChunkSize
  BY <1>1, RoomType, TransmitterAssumption DEF minBlockSize
<1>11. Len(chunks) <= write + 1 /\ (Len(chunks) = write + 1 => chunks[write + 1] = EmptyChunk)
  BY DEF ChunksOK
<1>12. written' \in [Connection -> Nat]
  BY <1>2, <1>4 DEF TypeOK
<1>13. CASE ChunkSize - list[write].end >= minBlockSize
  <2>1. write' = write /\ chunks' = list
    BY <1>4, <1>13 DEF NextChunk
  <2>2. chunks'[write'].end + minBlockSize <= ChunkSize
    BY <2>1, <1>13, <1>10, <1>9, <1>7, <1>1, SMTT(30)
  <2>3. Len(chunks') <= write' + 1 /\ (Len(chunks') = write' + 1 => chunks'[write' + 1] = EmptyChunk)
    BY <2>1, <1>9, <1>11, <1>1
  <2>4. QED
    BY <1>1, <1>4, <1>5, <1>7, <1>9, <1>12, <2>1, <2>2, <2>3 DEF ChunksOK
<1>14. CASE ~(ChunkSize - list[write].end >= minBlockSize) /\ write = Len(list)
  <2>1. write' = write + 1 /\ chunks' = Append(list, EmptyChunk)
    BY <1>4, <1>14 DEF NextChunk
  <2>2. /\ chunks' \in Seq(ChunkSet) /\ Len(chunks') = write + 1
        /\ \A i \in 1..Len(chunks) : chunks'[i] = list[i]
        /\ chunks'[write'] = EmptyChunk
    BY <2>1, <1>14, <1>9, Empty, AppendOf
  <2>3. ChunksOK'
    BY <2>1, <2>2, <1>1, <1>10, Empty DEF ChunksOK
  <2>4. chunks'[write] = chunk /\ chunks'[write'].end = 0 /\ write' \in 1..Len(chunks')
    BY <2>1, <2>2, <1>1, <1>9, Empty
  <2>5. QED
    BY <1>1, <1>4, <1>5, <1>7, <1>9, <1>12, <2>1, <2>2, <2>3, <2>4
<1>15. CASE ~(ChunkSize - list[write].end >= minBlockSize) /\ write # Len(list)
  <2>1. write' = write + 1 /\ chunks' = list /\ Len(chunks) = write + 1
    BY <1>4, <1>15, <1>9, <1>11, <1>1 DEF NextChunk
  <2>2. chunks'[write'] = EmptyChunk /\ Len(chunks') = write'
    BY <2>1, <1>1, <1>9, <1>11
  <2>3. ChunksOK'
    BY <2>1, <2>2, <1>1, <1>10, Empty DEF ChunksOK
  <2>4. chunks'[write] = chunk /\ chunks'[write'].end = 0 /\ write' \in 1..Len(chunks')
    BY <2>1, <2>2, <1>1, <1>9, Empty
  <2>5. QED
    BY <1>1, <1>4, <1>5, <1>7, <1>9, <1>12, <2>1, <2>3, <2>4
<1>16. QED
  BY <1>13, <1>14, <1>15

\* freeRead(): what becomes of the chunks ...
Stays(sent) == pRead + sent < chunks[1].end /\ pRead' = pRead + sent /\ chunks' = chunks /\ write' = write
Resets(sent) == pRead + sent >= chunks[1].end /\ pRead' = 0 /\ write = 1 /\ write' = 1 /\ chunks'[1].end = 0
Frees(sent) == /\ pRead + sent >= chunks[1].end /\ pRead' = 0 /\ write > 1 /\ write' = write - 1
               /\ \A i \in 1..write' : chunks'[i] = chunks[i + 1]

\* ... and of the frames.
Drops == Len(frames') = Len(frames) - 1 /\ \A i \in 1..Len(frames') : i + 1 \in 1..Len(frames) /\ frames'[i] = frames[i + 1]
Shrinks(sent) ==
    /\ Len(frames') = Len(frames)
    /\ frames'[1].size = frames[1].size - sent /\ frames'[1].closeFd = frames[1].closeFd
    /\ frames'[1].fd = frames[1].fd /\ frames'[1].conn = frames[1].conn
    /\ \A i \in 1..Len(frames) : i # 1 => frames'[i] = frames[i]

LEMMA FrameWith ==
    ASSUME NEW f \in FrameSet, NEW sent \in Nat, sent < f.size
    PROVE  LET g == [f EXCEPT !.size = @ - sent]
           IN  g \in FrameSet /\ g.size = f.size - sent /\ g.closeFd = f.closeFd /\ g.fd = f.fd /\ g.conn = f.conn
<1>1. f.size \in Nat \ {0} /\ f.size - sent \in Nat \ {0}
  BY DEF FrameSet
<1>2. [f EXCEPT !.size = f.size - sent] = [size |-> f.size - sent, closeFd |-> f.closeFd, fd |-> f.fd, conn |-> f.conn]
  BY DEF FrameSet
<1>3. f.closeFd \in BOOLEAN /\ f.fd \in Fd /\ f.conn \in Connection
  BY DEF FrameSet
<1>4. [size |-> f.size - sent, closeFd |-> f.closeFd, fd |-> f.fd, conn |-> f.conn] \in FrameSet
  BY <1>1, <1>3 DEF FrameSet
<1>5. QED
  BY <1>2, <1>4

LEMMA FramesRead ==
    ASSUME TypeOK, frames # <<>>, NEW sent \in Nat, sent <= frames[1].size, freeRead(sent)
    PROVE  /\ frames' \in Seq(FrameSet)
           /\ (sent = frames[1].size /\ Drops) \/ (sent < frames[1].size /\ Shrinks(sent))
<1>1. frames \in Seq(FrameSet) /\ Head(frames) = frames[1] /\ frames[1] \in FrameSet /\ frames[1].size \in Nat /\ 1 \in 1..Len(frames)
  <2>1. frames \in Seq(FrameSet)
    BY DEF TypeOK
  <2>2. Head(frames) = frames[1] /\ Head(frames) \in FrameSet /\ 1 \in 1..Len(frames)
    BY <2>1, TailOf
  <2>3. QED
    BY <2>1, <2>2 DEF FrameSet
<1>2. CASE sent = frames[1].size
  <2>1. frames' = Tail(frames)
    BY <1>1, <1>2 DEF freeRead
  <2>2. QED
    BY <1>1, <1>2, <2>1, TailOf DEF Drops
<1>3. CASE sent # frames[1].size
  <2> DEFINE g == [frames[1] EXCEPT !.size = @ - sent]
  <2>1. frames' = [frames EXCEPT ![1] = g]
    BY <1>1, <1>3 DEF freeRead
  <2>2. sent < frames[1].size
    BY <1>1, <1>3
  <2>3. /\ g \in FrameSet /\ g.size = frames[1].size - sent /\ g.closeFd = frames[1].closeFd
        /\ g.fd = frames[1].fd /\ g.conn = frames[1].conn
    BY <1>1, <2>2, FrameWith
  <2> HIDE DEF g
  <2>4. /\ frames' \in Seq(FrameSet) /\ Len(frames') = Len(frames) /\ frames'[1] = g
        /\ \A i \in 1..Len(frames) : i # 1 => frames'[i] = frames[i]
    BY <1>1, <2>1, <2>3, ExceptOf
  <2>5. QED
    BY <2>2, <2>3, <2>4 DEF Shrinks
<1>4. QED
  BY <1>2, <1>3

LEMMA ChunksRead ==
    ASSUME TypeOK, ChunksOK, NEW sent \in Nat, freeRead(sent)
    PROVE  /\ chunks' \in Seq(ChunkSet) /\ write' \in 1..Len(chunks') /\ pRead' \in Nat /\ ChunksOK'
           /\ Stays(sent) \/ Resets(sent) \/ Frees(sent)
<1>1. /\ chunks \in Seq(ChunkSet) /\ Len(chunks) \in Nat \ {0} /\ write \in 1..Len(chunks) /\ write \in Nat \ {0} /\ chunks # <<>>
      /\ pRead \in Nat /\ chunks[1].end \in Nat /\ chunks[1] \in ChunkSet
  BY Reading, EmptySeq DEF TypeOK
<1>2. Head(chunks) = chunks[1]
  BY <1>1, TailOf
<1>3. CASE pRead + sent < chunks[1].end
  <2>1. pRead' = pRead + sent /\ chunks' = chunks /\ write' = write
    BY <1>2, <1>3 DEF freeRead
  <2>2. QED
    BY <1>1, <1>3, <2>1 DEF ChunksOK, Stays
<1>4. CASE ~(pRead + sent < chunks[1].end) /\ write = 1
  <2>1. pRead' = 0 /\ chunks' = [chunks EXCEPT ![1] = EmptyChunk] /\ write' = write
    BY <1>2, <1>4 DEF freeRead
  <2>2. /\ chunks' \in Seq(ChunkSet) /\ Len(chunks') = Len(chunks) /\ chunks'[1] = EmptyChunk
        /\ \A i \in 1..Len(chunks) : i # 1 => chunks'[i] = chunks[i]
    BY <1>1, <2>1, Empty, ExceptOf
  <2>3. EmptyChunk.end + minBlockSize <= ChunkSize
    BY Empty, TransmitterAssumption DEF minBlockSize
  <2>4. ChunksOK'
    BY <1>1, <1>4, <2>1, <2>2, <2>3 DEF ChunksOK
  <2>5. QED
    BY <1>1, <1>4, <2>1, <2>2, <2>4, Empty DEF Resets
<1>5. CASE ~(pRead + sent < chunks[1].end) /\ write # 1
  <2>1. pRead' = 0 /\ FreeChunk
    BY <1>2, <1>5 DEF freeRead
  <2>2. /\ Tail(chunks) \in Seq(ChunkSet) /\ Len(Tail(chunks)) = Len(chunks) - 1
        /\ \A i \in 1..Len(Tail(chunks)) : i + 1 \in 1..Len(chunks) /\ Tail(chunks)[i] = chunks[i + 1]
    BY <1>1, TailOf
  <2>3. /\ Len(chunks) <= write + 1 /\ (Len(chunks) = write + 1 => chunks[write + 1] = EmptyChunk)
        /\ chunks[write].end + minBlockSize <= ChunkSize
    BY DEF ChunksOK
  <2>4. CASE write = Len(chunks)
    <3>1. write' = write - 1 /\ chunks' = Append(Tail(chunks), EmptyChunk)
      BY <2>1, <2>4 DEF FreeChunk
    <3>2. /\ chunks' \in Seq(ChunkSet) /\ Len(chunks') = Len(chunks) /\ chunks'[Len(chunks)] = EmptyChunk
          /\ \A i \in 1..(Len(chunks) - 1) : chunks'[i] = chunks[i + 1]
      BY <1>1, <2>2, <3>1, Empty, AppendOf
    <3>3. chunks'[write'] = chunks[write] /\ Len(chunks') = write' + 1 /\ chunks'[write' + 1] = EmptyChunk /\ write' \in 1..Len(chunks')
      BY <1>1, <1>5, <2>4, <3>1, <3>2
    <3>4. \A i \in 1..write' : chunks'[i] = chunks[i + 1]
      BY <1>1, <2>4, <3>1, <3>2
    <3>5. QED
      BY <1>1, <1>5, <2>1, <2>3, <3>1, <3>2, <3>3, <3>4 DEF ChunksOK, Frees
  <2>5. CASE write # Len(chunks)
    <3>1. write' = write - 1 /\ chunks' = Tail(chunks) /\ Len(chunks) = write + 1
      BY <1>1, <2>1, <2>3, <2>5 DEF FreeChunk
    <3>2. chunks'[write'] = chunks[write] /\ Len(chunks') = write' + 1 /\ chunks'[write' + 1] = EmptyChunk /\ write' \in 1..Len(chunks')
      BY <1>1, <1>5, <2>2, <2>3, <3>1
    <3>3. \A i \in 1..write' : chunks'[i] = chunks[i + 1]
      BY <1>1, <2>2, <3>1
    <3>4. QED
      BY <1>1, <1>5, <2>1, <2>2, <2>3, <3>1, <3>2, <3>3 DEF ChunksOK, Frees
  <2>6. QED
    BY <2>4, <2>5
<1>6. QED
  BY <1>3, <1>4, <1>5

-----------------------------------------------------------------------------
(* Where the frames lie.  home and at give the chunk of a frame and its     *)
(* place there: the first frame lies at pRead, each of the others adjoins    *)
(* the one before it, and the last ends where the next will be written.      *)

End(at, i) == at[i] + frames[i].size

Adjoins(home, at, i) ==
    \/ home[i + 1] = home[i] /\ at[i + 1] = End(at, i)
    \/ home[i + 1] = home[i] + 1 /\ at[i + 1] = 0 /\ End(at, i) = chunks[home[i]].end

Meets(home, at, i) ==
    /\ End(at, i) = chunks[home[i]].end
    /\ home[i] = write \/ (home[i] + 1 = write /\ chunks[write].end = 0)

Apart(home, at, i, j) == home[i] <= home[j] /\ (home[i] = home[j] => End(at, i) <= at[j])

Placed(home, at) ==
    /\ home \in [1..Len(frames) -> Nat] /\ at \in [1..Len(frames) -> Nat]
    /\ IF frames = <<>> THEN write = 1 /\ pRead = chunks[1].end
       ELSE home[1] = 1 /\ at[1] = pRead /\ Meets(home, at, Len(frames))
    /\ \A i \in 1..Len(frames) : home[i] \in 1..write /\ End(at, i) <= chunks[home[i]].end
    /\ \A i, j \in 1..Len(frames) : i < j => Apart(home, at, i, j)
    /\ \A i \in 1..(Len(frames) - 1) : Adjoins(home, at, i)

\* A frame that is written joins the others ...
Joins(home, at, home2, at2) ==
    /\ \A i \in 1..Len(frames) : home2[i] = home[i] /\ at2[i] = at[i]
    /\ home2[Len(frames) + 1] = write /\ at2[Len(frames) + 1] = chunks[write].end

LEMMA PlaceWritten ==
    ASSUME TypeOK, ChunksOK, out # Nothing, NEW size \in Nat \ {0}, size <= room, NEW kill \in BOOLEAN, secureWrite(size, kill),
           NEW home, NEW at, Placed(home, at)
    PROVE  \E home2, at2 : Placed(home2, at2)' /\ Joins(home, at, home2, at2)
<1>0. PICK n \in Nat : n = Len(frames)
  BY Reading
<1>1. /\ n \in Nat /\ n = Len(frames) /\ write \in Nat \ {0} /\ pRead \in Nat /\ write \in 1..Len(chunks) /\ Len(chunks) \in Nat
      /\ \A i \in 1..n : frames[i].size \in Nat \ {0}
      /\ \A i \in 1..Len(chunks) : chunks[i].end \in Nat
      /\ (frames = <<>> <=> n = 0)
      /\ \A h \in 1..write : h \in 1..Len(chunks)
  <2>1. write \in 1..Len(chunks) /\ Len(chunks) \in Nat
    BY Reading DEF TypeOK
  <2>2. \A h \in 1..write : h \in 1..Len(chunks)
    BY <2>1
  <2>3. QED
    BY <1>0, <2>1, <2>2, Reading
<1>2. /\ frames' \in Seq(FrameSet) /\ Len(frames') = n + 1
      /\ \A i \in 1..n : frames'[i] = frames[i]
      /\ frames'[n + 1].size = size
      /\ \A i \in 1..Len(chunks) : i # write => chunks'[i] = chunks[i]
      /\ chunks'[write].end = chunks[write].end + size
      /\ write' = write \/ (write' = write + 1 /\ chunks'[write'].end = 0)
      /\ pRead' = pRead
  <2>1. frames'[n + 1] = NewFrame(size, kill)
    BY <1>0, Writes
  <2>2. frames'[n + 1].size = size
    BY <2>1 DEF NewFrame
  <2>3. QED
    BY <1>0, <2>2, Writes
<1>3. PICK home2 \in [1..(n + 1) -> Nat] : \A i \in 1..(n + 1) : home2[i] = IF i = n + 1 THEN write ELSE home[i]
  <2>1. \A i \in 1..(n + 1) : (IF i = n + 1 THEN write ELSE home[i]) \in Nat
    <3>1. \A i \in 1..n : home[i] \in Nat
      BY <1>1 DEF Placed
    <3>2. \A i \in 1..(n + 1) : i = n + 1 \/ i \in 1..n
      BY <1>1
    <3>3. QED
      BY <1>1, <3>1, <3>2
  <2>2. [i \in 1..(n + 1) |-> IF i = n + 1 THEN write ELSE home[i]] \in [1..(n + 1) -> Nat]
    BY <2>1
  <2>3. QED
    BY <2>2
<1>4. PICK at2 \in [1..(n + 1) -> Nat] : \A i \in 1..(n + 1) : at2[i] = IF i = n + 1 THEN chunks[write].end ELSE at[i]
  <2>1. [i \in 1..(n + 1) |-> IF i = n + 1 THEN chunks[write].end ELSE at[i]] \in [1..(n + 1) -> Nat]
    BY <1>1 DEF Placed
  <2>2. QED
    BY <2>1
<1>5. /\ \A i \in 1..n : home2[i] = home[i] /\ at2[i] = at[i] /\ home[i] \in Nat /\ at[i] \in Nat
      /\ home2[n + 1] = write /\ at2[n + 1] = chunks[write].end
  <2>1. \A i \in 1..n : i \in 1..(n + 1) /\ i # n + 1 /\ home[i] \in Nat /\ at[i] \in Nat
    BY <1>1 DEF Placed
  <2>2. n + 1 \in 1..(n + 1)
    BY <1>1
  <2>3. QED
    BY <1>3, <1>4, <2>1, <2>2
<1>6. /\ \A i \in 1..n : End(at2, i)' = End(at, i) /\ End(at, i) \in Nat
      /\ End(at2, n + 1)' = chunks[write].end + size
  BY <1>1, <1>2, <1>5 DEF End
<1>7. frames' # <<>>
  BY <1>1, <1>2, EmptySeq
<1>8. ASSUME NEW i \in 1..(n + 1) PROVE home2[i] \in 1..write' /\ End(at2, i)' <= chunks'[home2[i]].end
  <2>1. CASE i = n + 1
    BY <1>1, <1>2, <1>5, <1>6, <2>1
  <2>2. CASE i \in 1..n
    <3>1. home[i] \in 1..write /\ End(at, i) <= chunks[home[i]].end
      BY <1>0, <2>2 DEF Placed
    <3>2. chunks[home[i]].end <= chunks'[home[i]].end /\ chunks[home[i]].end \in Nat /\ chunks'[home[i]].end \in Nat
      <4>1. home[i] \in 1..Len(chunks) /\ size \in Nat
        BY <1>1, <3>1
      <4>2. CASE home[i] = write
        BY <1>1, <1>2, <4>1, <4>2
      <4>3. CASE home[i] # write
        BY <1>1, <1>2, <4>1, <4>3
      <4>4. QED
        BY <4>2, <4>3
    <3>3. home2[i] = home[i] /\ End(at2, i)' = End(at, i) /\ End(at, i) \in Nat
      BY <1>5, <1>6, <2>2
    <3>4. home[i] \in 1..write'
      BY <1>1, <1>2, <3>1
    <3>5. QED
      BY <3>1, <3>2, <3>3, <3>4, SMTT(30)
  <2>3. QED
    BY <1>1, <2>1, <2>2
<1>9. ASSUME NEW i \in 1..(n + 1), NEW j \in 1..(n + 1), i < j PROVE Apart(home2, at2, i, j)'
  <2>1. i \in 1..n
    BY <1>1, <1>9
  <2>2. CASE j = n + 1
    <3>1. home[i] \in 1..write /\ End(at, i) <= chunks[home[i]].end
      BY <1>0, <2>1 DEF Placed
    <3>2. QED
      BY <1>1, <1>5, <1>6, <2>1, <2>2, <3>1 DEF Apart
  <2>3. CASE j \in 1..n
    <3>1. Apart(home, at, i, j)
      BY <1>0, <1>9, <2>1, <2>3 DEF Placed
    <3>2. QED
      BY <1>5, <1>6, <2>1, <2>3, <3>1 DEF Apart
  <2>4. QED
    BY <1>1, <2>2, <2>3
<1>10. ASSUME NEW i \in 1..n PROVE Adjoins(home2, at2, i)'
  <2>1. CASE i = n
    <3>1. Meets(home, at, n)
      BY <1>0, <1>1, <2>1 DEF Placed
    <3>2. home[n] \in 1..write /\ n \in 1..n /\ chunks[write].end \in Nat
      BY <1>0, <1>1, <2>1 DEF Placed
    <3>3. CASE home[n] = write
      BY <1>1, <1>5, <1>6, <2>1, <3>1, <3>2, <3>3 DEF Adjoins, Meets
    <3>4. CASE home[n] + 1 = write /\ chunks[write].end = 0
      <4>1. chunks'[home[n]] = chunks[home[n]]
        BY <1>1, <1>2, <3>2, <3>4
      <4>2. QED
        BY <1>1, <1>5, <1>6, <2>1, <3>1, <3>2, <3>4, <4>1 DEF Adjoins, Meets
    <3>5. QED
      BY <3>1, <3>3, <3>4 DEF Meets
  <2>2. CASE i # n
    <3>1. Adjoins(home, at, i) /\ i \in 1..n /\ i + 1 \in 1..n
      BY <1>0, <1>1, <2>2 DEF Placed
    <3>2. home[i] \in 1..write /\ home[i + 1] \in 1..write /\ home[i] \in Nat
      BY <1>0, <3>1 DEF Placed
    <3>3. CASE home[i + 1] = home[i]
      <4>1. at[i + 1] = End(at, i)
        BY <3>1, <3>2, <3>3, SMTT(30) DEF Adjoins
      <4>2. home2[i + 1] = home2[i] /\ at2[i + 1] = End(at2, i)'
        BY <1>5, <1>6, <3>1, <3>3, <4>1
      <4>3. QED
        BY <4>2 DEF Adjoins
    <3>4. CASE home[i + 1] # home[i]
      <4>1. home[i + 1] = home[i] + 1 /\ at[i + 1] = 0 /\ End(at, i) = chunks[home[i]].end
        BY <3>1, <3>4 DEF Adjoins
      <4>2. chunks'[home[i]] = chunks[home[i]]
        BY <1>1, <1>2, <3>2, <4>1, SMTT(30)
      <4>3. QED
        BY <1>5, <1>6, <3>1, <4>1, <4>2 DEF Adjoins
    <3>5. QED
      BY <3>3, <3>4
  <2>3. QED
    BY <2>1, <2>2
<1>11. Meets(home2, at2, n + 1)'
  BY <1>1, <1>2, <1>5, <1>6 DEF Meets
<1>12. home2[1] = 1 /\ at2[1] = pRead'
  <2>1. CASE n = 0
    BY <1>0, <1>1, <1>2, <1>5, <2>1 DEF Placed
  <2>2. CASE n # 0
    BY <1>0, <1>1, <1>2, <1>5, <2>2 DEF Placed
  <2>3. QED
    BY <2>1, <2>2
<1>13. Placed(home2, at2)'
  <2>1. \A i \in 1..(Len(frames') - 1) : i \in 1..n
    BY <1>1, <1>2
  <2>2. QED
    BY <1>0, <1>2, <1>3, <1>4, <1>7, <1>8, <1>9, <1>10, <1>11, <1>12, <2>1 DEF Placed
<1>14. QED
  BY <1>0, <1>5, <1>13 DEF Joins

\* ... and when some of the first is sent, each lies where it lay, in the same
\* chunk, but that the first is gone or begins further on.
FollowOn(home, at, home2, at2) ==
    \A i \in 1..(Len(frames) - 1) : at2[i] = at[i + 1] /\ chunks'[home2[i]] = chunks[home[i + 1]]
BeginsLater(sent, home, at, home2, at2) ==
    /\ at2[1] = at[1] + sent /\ chunks'[home2[1]] = chunks[home[1]]
    /\ \A i \in 1..Len(frames) : i # 1 => at2[i] = at[i] /\ chunks'[home2[i]] = chunks[home[i]]

LEMMA PlaceTypes ==
    ASSUME TypeOK, NEW home, NEW at, Placed(home, at)
    PROVE  /\ \A i \in 1..Len(frames) : /\ home[i] \in 1..write /\ home[i] \in Nat \ {0} /\ at[i] \in Nat
                                        /\ End(at, i) \in Nat /\ End(at, i) = at[i] + frames[i].size /\ frames[i].size \in Nat \ {0}
                                        /\ End(at, i) <= chunks[home[i]].end
           /\ \A h \in 1..write : h \in 1..Len(chunks) /\ chunks[h].end \in Nat
<1>1. /\ write \in 1..Len(chunks) /\ Len(chunks) \in Nat /\ write \in Nat
      /\ \A i \in 1..Len(frames) : frames[i].size \in Nat \ {0}
      /\ \A h \in 1..Len(chunks) : chunks[h].end \in Nat
  BY Reading DEF TypeOK
<1>2. \A h \in 1..write : h \in 1..Len(chunks) /\ h \in Nat \ {0}
  BY <1>1
<1>3. \A i \in 1..Len(frames) : home[i] \in 1..write /\ at[i] \in Nat /\ End(at, i) <= chunks[home[i]].end
  BY DEF Placed
<1>4. \A i \in 1..Len(frames) : End(at, i) \in Nat /\ End(at, i) = at[i] + frames[i].size
  BY <1>1, <1>3 DEF End
<1>5. QED
  BY <1>1, <1>2, <1>3, <1>4

LEMMA Back ==
    ASSUME NEW d \in {0, 1}, NEW h \in Nat, NEW w \in Nat, h \in 1..w, h > d
    PROVE  h - d \in 1..(w - d) /\ (h - d) + d = h
OBVIOUS

LEMMA BackOrder ==
    ASSUME NEW d \in {0, 1}, NEW h \in Nat, NEW k \in Nat
    PROVE  /\ h <= k => h - d <= k - d
           /\ h - d = k - d => h = k
           /\ (h + 1) - d = (h - d) + 1
OBVIOUS

\* The first frame is dropped; d chunks go with it.
Shifts(d, home, at) ==
    /\ write' = write - d /\ write' \in Nat \ {0}
    /\ \A h \in 1..write' : chunks'[h] = chunks[h + d]
    /\ \A i \in 2..Len(frames) : home[i] > d
    /\ IF Len(frames) = 1 THEN write' = 1 /\ pRead' = chunks'[1].end ELSE home[2] = 1 + d /\ at[2] = pRead'

LEMMA PlaceShifted ==
    ASSUME TypeOK, frames # <<>>, frames' \in Seq(FrameSet), Drops, NEW home, NEW at, Placed(home, at),
           NEW d \in {0, 1}, Shifts(d, home, at)
    PROVE  \E home2, at2 : Placed(home2, at2)' /\ FollowOn(home, at, home2, at2)
<1>0. PICK n \in Nat \ {0} : n = Len(frames)
  BY Reading
<1>1. PICK m \in Nat : m = Len(frames') /\ m = n - 1
  BY <1>0 DEF Drops
<1>2. write \in Nat /\ d \in Nat /\ n \in 1..n /\ \A i \in 1..m : i + 1 \in 1..n /\ i + 1 \in 2..n /\ i \in Nat
  BY <1>0, <1>1, Reading
<1>3. n \in Nat /\ m \in Nat /\ m = n - 1 /\ Len(frames) = n /\ write \in Nat /\ write' \in Nat /\ write' = write - d /\ d \in Nat
  BY <1>0, <1>1, <1>2 DEF Shifts
<1>4. /\ \A i \in 1..n : /\ home[i] \in 1..write /\ home[i] \in Nat \ {0} /\ at[i] \in Nat
                         /\ End(at, i) \in Nat /\ End(at, i) <= chunks[home[i]].end
      /\ \A i \in 2..n : home[i] > d
  BY <1>0, PlaceTypes DEF Shifts
<1>5. PICK home2 \in [1..m -> Nat] : \A i \in 1..m : home2[i] = home[i + 1] - d
  <2>1. ASSUME NEW i \in 1..m PROVE home[i + 1] - d \in Nat
    <3>1. home[i + 1] \in Nat /\ home[i + 1] > d
      BY <1>2, <1>4
    <3>2. QED
      BY <1>2, <3>1
  <2>2. [i \in 1..m |-> home[i + 1] - d] \in [1..m -> Nat]
    BY <2>1
  <2>3. QED
    BY <2>2
<1>6. PICK at2 \in [1..m -> Nat] : \A i \in 1..m : at2[i] = at[i + 1]
  <2>1. [i \in 1..m |-> at[i + 1]] \in [1..m -> Nat]
    BY <1>2, <1>4
  <2>2. QED
    BY <2>1
<1>7. ASSUME NEW i \in 1..m
      PROVE  /\ home2[i] \in 1..write' /\ home2[i] = home[i + 1] - d /\ home2[i] \in Nat /\ at2[i] = at[i + 1]
             /\ chunks'[home2[i]] = chunks[home[i + 1]] /\ frames'[i] = frames[i + 1]
             /\ End(at2, i)' = End(at, i + 1)
  <2>1. i + 1 \in 1..n /\ home2[i] = home[i + 1] - d /\ at2[i] = at[i + 1] /\ frames'[i] = frames[i + 1]
    BY <1>0, <1>1, <1>2, <1>5, <1>6 DEF Drops
  <2>2. home[i + 1] \in 1..write /\ home[i + 1] > d /\ home[i + 1] \in Nat
    BY <1>2, <1>4, <2>1
  <2>3. home2[i] \in 1..write' /\ home2[i] + d = home[i + 1]
    <3>1. home[i + 1] - d \in 1..(write - d) /\ (home[i + 1] - d) + d = home[i + 1]
      BY <1>3, <2>2, Back
    <3>2. QED
      BY <1>3, <2>1, <3>1
  <2>4. QED
    BY <2>1, <2>3 DEF End, Shifts
<1>8. ASSUME NEW i \in 1..m PROVE End(at2, i)' <= chunks'[home2[i]].end
  <2>1. i + 1 \in 1..n
    BY <1>2
  <2>2. End(at, i + 1) <= chunks[home[i + 1]].end
    BY <1>4, <2>1
  <2>3. QED
    BY <1>7, <2>2
<1>9. ASSUME NEW i \in 1..m, NEW j \in 1..m, i < j PROVE Apart(home2, at2, i, j)'
  <2>1. i + 1 \in 1..n /\ j + 1 \in 1..n /\ i + 1 < j + 1
    BY <1>1, <1>9
  <2>2. Apart(home, at, i + 1, j + 1)
    BY <1>0, <2>1 DEF Placed
  <2>3. home[i + 1] \in Nat /\ home[j + 1] \in Nat
    BY <1>4, <2>1
  <2>4. home2[i] <= home2[j] /\ (home2[i] = home2[j] => End(at2, i)' <= at2[j])
    <3>1. /\ home2[i] = home[i + 1] - d /\ home2[j] = home[j + 1] - d /\ at2[j] = at[j + 1]
          /\ End(at2, i)' = End(at, i + 1)
      BY <1>7
    <3>2. home[i + 1] <= home[j + 1] /\ (home[i + 1] = home[j + 1] => End(at, i + 1) <= at[j + 1])
      BY <2>2 DEF Apart
    <3>3. home2[i] <= home2[j] /\ (home2[i] = home2[j] => home[i + 1] = home[j + 1])
      <4>1. home[i + 1] - d <= home[j + 1] - d /\ (home[i + 1] - d = home[j + 1] - d => home[i + 1] = home[j + 1])
        BY <2>3, <3>2, BackOrder
      <4>2. QED
        BY <3>1, <4>1
    <3>4. QED
      BY <3>1, <3>2, <3>3
  <2>5. QED
    BY <2>4 DEF Apart
<1>10. ASSUME NEW i \in 1..(m - 1) PROVE Adjoins(home2, at2, i)'
  <2>1. i \in 1..m /\ i + 1 \in 1..m /\ i + 1 \in 1..(n - 1) /\ i + 1 \in 1..n /\ (i + 1) + 1 \in 1..n
    BY <1>0, <1>1
  <2>2. Adjoins(home, at, i + 1)
    BY <1>0, <2>1 DEF Placed
  <2>3. home[i + 1] \in Nat /\ home[(i + 1) + 1] \in Nat
    BY <1>4, <2>1
  <2>4. /\ home2[i] = home[i + 1] - d /\ home2[i + 1] = home[(i + 1) + 1] - d /\ at2[i + 1] = at[(i + 1) + 1]
        /\ End(at2, i)' = End(at, i + 1) /\ chunks'[home2[i]] = chunks[home[i + 1]]
    BY <1>7, <2>1
  <2>5. CASE home[(i + 1) + 1] = home[i + 1] /\ at[(i + 1) + 1] = End(at, i + 1)
    <3>1. home2[i + 1] = home2[i] /\ at2[i + 1] = End(at2, i)'
      BY <2>4, <2>5
    <3>2. QED
      BY <3>1 DEF Adjoins
  <2>6. CASE home[(i + 1) + 1] = home[i + 1] + 1 /\ at[(i + 1) + 1] = 0 /\ End(at, i + 1) = chunks[home[i + 1]].end
    <3>1. home2[i + 1] = home2[i] + 1 /\ at2[i + 1] = 0 /\ End(at2, i)' = chunks'[home2[i]].end
      <4>1. home2[i + 1] = home2[i] + 1
        <5>1. home[(i + 1) + 1] \in Nat /\ home[(i + 1) + 1] = home[i + 1] + 1 /\ home[i + 1] \in Nat
          BY <2>3, <2>6
        <5>2. (home[i + 1] + 1) - d = (home[i + 1] - d) + 1
          BY <5>1, BackOrder
        <5>3. QED
          BY <2>4, <5>1, <5>2
      <4>2. QED
        BY <2>4, <2>6, <4>1
    <3>2. QED
      BY <3>1 DEF Adjoins
  <2>7. QED
    BY <2>2, <2>5, <2>6 DEF Adjoins
<1>11. frames' = <<>> <=> m = 0
  BY <1>1, EmptySeq
<1>12. ASSUME m # 0 PROVE home2[1] = 1 /\ at2[1] = pRead' /\ Meets(home2, at2, m)'
  <2>1. m \in 1..m /\ 1 \in 1..m /\ m + 1 = n /\ n # 1
    BY <1>1, <1>12
  <2>2. home2[1] = 1 /\ at2[1] = pRead'
    BY <1>0, <1>2, <1>7, <2>1, SMTT(30) DEF Shifts
  <2>3. Meets(home, at, n)
    BY <1>0 DEF Placed
  <2>4. End(at2, m)' = chunks'[home2[m]].end
    BY <1>7, <2>1, <2>3 DEF Meets
  <2>5. home2[m] = home[n] - d /\ home[n] \in Nat
    BY <1>2, <1>4, <1>7, <2>1
  <2>6. home2[m] = write' \/ (home2[m] + 1 = write' /\ chunks'[write'].end = 0)
    <3>1. CASE home[n] = write
      BY <1>3, <2>5, <3>1
    <3>2. CASE home[n] + 1 = write /\ chunks[write].end = 0
      <4>1. write' \in 1..write' /\ write' + d = write
        BY <1>3 DEF Shifts
      <4>2. chunks'[write'] = chunks[write]
        BY <4>1 DEF Shifts
      <4>3. QED
        BY <1>3, <2>5, <3>2, <4>2
    <3>3. QED
      BY <2>3, <3>1, <3>2 DEF Meets
  <2>7. QED
    BY <2>2, <2>4, <2>6 DEF Meets
<1>13. ASSUME m = 0 PROVE write' = 1 /\ pRead' = chunks'[1].end
  <2>1. Len(frames) = 1
    BY <1>3, <1>13
  <2>2. QED
    BY <2>1 DEF Shifts
<1>14. Placed(home2, at2)'
  BY <1>1, <1>5, <1>6, <1>7, <1>8, <1>9, <1>10, <1>11, <1>12, <1>13 DEF Placed
<1>15. QED
  <2>1. Len(frames) - 1 = m
    BY <1>0, <1>1
  <2>2. FollowOn(home, at, home2, at2)
    BY <1>7, <2>1 DEF FollowOn
  <2>3. QED
    BY <1>14, <2>2

\* The first frame, and what it says of the chunk it lies in.
LEMMA FirstPlaced ==
    ASSUME TypeOK, frames # <<>>, NEW home, NEW at, Placed(home, at)
    PROVE  /\ Len(frames) \in Nat \ {0} /\ 1 \in 1..Len(frames) /\ frames[1].size \in Nat \ {0}
           /\ home[1] = 1 /\ at[1] = pRead /\ End(at, 1) = pRead + frames[1].size
           /\ pRead \in Nat /\ chunks[1].end \in Nat /\ pRead + frames[1].size <= chunks[1].end
           /\ Meets(home, at, Len(frames))
<1>1. Len(frames) \in Nat \ {0} /\ 1 \in 1..Len(frames) /\ frames[1].size \in Nat \ {0} /\ pRead \in Nat
  BY Reading
<1>2. home[1] = 1 /\ at[1] = pRead /\ Meets(home, at, Len(frames))
  BY DEF Placed
<1>3. home[1] \in 1..write /\ End(at, 1) = at[1] + frames[1].size /\ End(at, 1) <= chunks[home[1]].end
      /\ \A h \in 1..write : chunks[h].end \in Nat
  BY <1>1, PlaceTypes
<1>4. QED
  BY <1>1, <1>2, <1>3

\* If the first frame ends where its chunk does, the others lie in other chunks.
LEMMA RestBeyond ==
    ASSUME TypeOK, frames # <<>>, NEW home, NEW at, Placed(home, at), pRead + frames[1].size >= chunks[1].end,
           NEW i \in 2..Len(frames)
    PROVE  home[i] > 1 /\ home[i] <= write
<1>1. Len(frames) \in Nat \ {0} /\ i \in 1..Len(frames) /\ 1 \in 1..Len(frames) /\ 1 < i /\ write \in Nat
  BY Reading
<1>2. /\ home[i] \in 1..write /\ home[i] \in Nat /\ at[i] \in Nat /\ End(at, i) = at[i] + frames[i].size
      /\ frames[i].size \in Nat \ {0} /\ End(at, i) <= chunks[home[i]].end
  BY <1>1, PlaceTypes
<1>3. /\ home[1] = 1 /\ End(at, 1) = pRead + frames[1].size /\ pRead \in Nat /\ frames[1].size \in Nat /\ chunks[1].end \in Nat
      /\ pRead + frames[1].size <= chunks[1].end
  BY FirstPlaced
<1>4. Apart(home, at, 1, i)
  BY <1>1 DEF Placed
<1>5. home[i] # 1
  <2>1. SUFFICES ASSUME home[i] = 1 PROVE FALSE
    OBVIOUS
  <2>2. End(at, 1) <= at[i] /\ at[i] + frames[i].size <= chunks[1].end
    BY <1>2, <1>3, <1>4, <2>1 DEF Apart
  <2>3. chunks[1].end <= End(at, 1) /\ End(at, 1) \in Nat
    BY <1>3
  <2>4. at[i] < at[i] + frames[i].size
    BY <1>2
  <2>5. chunks[1].end <= at[i]
    BY <1>2, <1>3, <2>2, <2>3
  <2>6. QED
    BY <1>2, <1>3, <2>2, <2>4, <2>5
<1>6. QED
  BY <1>1, <1>2, <1>5

LEMMA PlaceDropped ==
    ASSUME TypeOK, ChunksOK, frames # <<>>, freeRead(frames[1].size), NEW home, NEW at, Placed(home, at)
    PROVE  \E home2, at2 : Placed(home2, at2)' /\ FollowOn(home, at, home2, at2)
<1>0. PICK n \in Nat \ {0} : n = Len(frames)
  BY Reading
<1>1. frames' \in Seq(FrameSet) /\ Drops
  <2>1. frames[1].size \in Nat /\ frames[1].size <= frames[1].size
    BY FirstPlaced
  <2>2. QED
    BY <2>1, FramesRead
<1>2. Stays(frames[1].size) \/ Resets(frames[1].size) \/ Frees(frames[1].size)
  BY FirstPlaced, ChunksRead
<1>3. /\ home[1] = 1 /\ at[1] = pRead /\ End(at, 1) = pRead + frames[1].size /\ Meets(home, at, n)
      /\ pRead \in Nat /\ chunks[1].end \in Nat /\ frames[1].size \in Nat /\ pRead + frames[1].size <= chunks[1].end
  BY <1>0, FirstPlaced
<1>4. write \in Nat \ {0} /\ \A i \in 1..n : home[i] \in Nat \ {0}
  BY <1>0, Reading, PlaceTypes
<1>5. n # 1 => Adjoins(home, at, 1)
  BY <1>0 DEF Placed
<1>6. CASE Stays(frames[1].size)
  <2>1. write' = write /\ chunks' = chunks /\ pRead' = End(at, 1) /\ End(at, 1) < chunks[1].end
    BY <1>3, <1>6 DEF Stays
  <2>2. n # 1
    BY <1>3, <2>1 DEF Meets
  <2>3. home[2] = 1 /\ at[2] = pRead'
    BY <1>3, <1>5, <2>1, <2>2 DEF Adjoins
  <2>4. Shifts(0, home, at)
    <3>1. write' = write - 0 /\ write' \in Nat \ {0} /\ \A h \in 1..write' : chunks'[h] = chunks[h + 0]
      BY <1>4, <2>1
    <3>2. \A i \in 2..Len(frames) : home[i] > 0
      BY <1>0, <1>4
    <3>3. QED
      BY <1>0, <2>2, <2>3, <3>1, <3>2 DEF Shifts
  <2>5. QED
    BY <1>1, <2>4, PlaceShifted
<1>7. CASE Resets(frames[1].size)
  <2>1. n = 1
    <3>1. SUFFICES ASSUME n # 1 PROVE FALSE
      OBVIOUS
    <3>2. 2 \in 2..Len(frames) /\ home[2] \in Nat
      BY <1>0, <1>4, <3>1
    <3>3. home[2] > 1 /\ home[2] <= write /\ write = 1
      BY <1>7, <3>2, RestBeyond DEF Resets
    <3>4. QED
      BY <3>2, <3>3
  <2>2. Len(frames') = 0 /\ frames' = <<>>
    BY <1>0, <1>1, <2>1, EmptySeq DEF Drops
  <2>3. PICK none \in [1..0 -> Nat] : TRUE
    <3>1. [i \in 1..0 |-> 0] \in [1..0 -> Nat]
      OBVIOUS
    <3>2. QED
      BY <3>1
  <2>4. write' = 1 /\ pRead' = chunks'[1].end
    BY <1>7 DEF Resets
  <2>5. \A i \in 1..0 : FALSE
    OBVIOUS
  <2>6. \A i \in 1..(0 - 1) : FALSE
    OBVIOUS
  <2>7. Placed(none, none)'
    BY <2>2, <2>3, <2>4, <2>5, <2>6 DEF Placed
  <2>8. FollowOn(home, at, none, none)
    BY <1>0, <2>1, <2>5 DEF FollowOn
  <2>9. QED
    BY <2>7, <2>8
<1>8. CASE Frees(frames[1].size)
  <2>1. write' = write - 1 /\ write > 1 /\ pRead' = 0 /\ End(at, 1) >= chunks[1].end /\ \A h \in 1..write' : chunks'[h] = chunks[h + 1]
    BY <1>3, <1>8 DEF Frees
  <2>2. \A i \in 2..Len(frames) : home[i] > 1
    BY <1>3, <2>1, RestBeyond
  <2>3. write' \in Nat \ {0}
    BY <1>4, <2>1
  <2>4. CASE n = 1
    <3>1. write = 2 /\ chunks[2].end = 0
      BY <1>3, <2>1, <2>4 DEF Meets
    <3>2. write' = 1 /\ 1 \in 1..write' /\ chunks'[1] = chunks[1 + 1]
      BY <2>1, <3>1
    <3>3. write' = 1 /\ pRead' = chunks'[1].end
      BY <2>1, <3>1, <3>2
    <3>4. Shifts(1, home, at)
      BY <1>0, <2>1, <2>2, <2>3, <2>4, <3>3 DEF Shifts
    <3>5. QED
      BY <1>1, <3>4, PlaceShifted
  <2>5. CASE n # 1
    <3>1. home[2] # home[1]
      BY <1>0, <1>3, <2>2, <2>5
    <3>2. home[2] = 1 + 1 /\ at[2] = pRead'
      BY <1>3, <1>5, <2>1, <2>5, <3>1 DEF Adjoins
    <3>3. Shifts(1, home, at)
      BY <1>0, <2>1, <2>2, <2>3, <2>5, <3>2 DEF Shifts
    <3>4. QED
      BY <1>1, <3>3, PlaceShifted
  <2>6. QED
    BY <2>4, <2>5
<1>9. QED
  BY <1>2, <1>6, <1>7, <1>8

LEMMA PlaceShrunk ==
    ASSUME TypeOK, ChunksOK, frames # <<>>, NEW sent \in Nat, sent < frames[1].size, freeRead(sent),
           NEW home, NEW at, Placed(home, at)
    PROVE  \E home2, at2 : Placed(home2, at2)' /\ BeginsLater(sent, home, at, home2, at2)
<1>0. PICK n \in Nat \ {0} : n = Len(frames)
  BY Reading
<1>1. /\ home[1] = 1 /\ at[1] = pRead /\ pRead \in Nat /\ chunks[1].end \in Nat /\ frames[1].size \in Nat
      /\ pRead + frames[1].size <= chunks[1].end /\ 1 \in 1..n /\ n \in 1..n
  BY <1>0, FirstPlaced
<1>2. sent <= frames[1].size /\ pRead + sent < chunks[1].end
  BY <1>1
<1>3. frames' \in Seq(FrameSet) /\ Shrinks(sent)
  BY <1>1, <1>2, FramesRead
<1>4. Stays(sent)
  <2>1. ~(pRead + sent >= chunks[1].end)
    BY <1>1, <1>2
  <2>2. QED
    BY <2>1, ChunksRead DEF Resets, Frees
<1>5. write' = write /\ chunks' = chunks /\ pRead' = pRead + sent
  BY <1>4 DEF Stays
<1>6. Len(frames') = n /\ frames' # <<>>
  BY <1>0, <1>3, EmptySeq DEF Shrinks
<1>7. \A i \in 1..n : home[i] \in 1..write /\ at[i] \in Nat /\ End(at, i) \in Nat /\ End(at, i) <= chunks[home[i]].end
  BY <1>0, PlaceTypes
<1>8. PICK at2 \in [1..n -> Nat] : \A i \in 1..n : at2[i] = IF i = 1 THEN at[1] + sent ELSE at[i]
  <2>1. [i \in 1..n |-> IF i = 1 THEN at[1] + sent ELSE at[i]] \in [1..n -> Nat]
    BY <1>1, <1>7
  <2>2. QED
    BY <2>1
<1>9. at2[1] = pRead' /\ \A i \in 1..n : i # 1 => at2[i] = at[i]
  BY <1>1, <1>5, <1>8
<1>10. ASSUME NEW i \in 1..n PROVE End(at2, i)' = End(at, i)
  <2>1. CASE i = 1
    <3>1. frames'[1].size = frames[1].size - sent /\ at2[1] = at[1] + sent
      BY <1>1, <1>3, <1>8 DEF Shrinks
    <3>2. at2[1] + frames'[1].size = at[1] + frames[1].size
      BY <1>1, <1>2, <3>1
    <3>3. QED
      BY <2>1, <3>2 DEF End
  <2>2. CASE i # 1
    <3>1. frames'[i] = frames[i] /\ at2[i] = at[i]
      BY <1>0, <1>3, <1>9, <2>2 DEF Shrinks
    <3>2. QED
      BY <3>1 DEF End
  <2>3. QED
    BY <2>1, <2>2
<1>11. \A i \in 1..n : home[i] \in 1..write' /\ End(at2, i)' <= chunks'[home[i]].end
  BY <1>5, <1>7, <1>10
<1>12. ASSUME NEW i \in 1..n, NEW j \in 1..n, i < j PROVE Apart(home, at2, i, j)'
  <2>1. Apart(home, at, i, j) /\ j # 1
    BY <1>0, <1>12 DEF Placed
  <2>2. QED
    BY <1>9, <1>10, <2>1 DEF Apart
<1>13. ASSUME NEW i \in 1..(n - 1) PROVE Adjoins(home, at2, i)'
  <2>1. Adjoins(home, at, i) /\ i \in 1..n /\ i + 1 \in 1..n /\ i + 1 # 1
    BY <1>0 DEF Placed
  <2>2. at2[i + 1] = at[i + 1] /\ End(at2, i)' = End(at, i)
    BY <1>9, <1>10, <2>1
  <2>3. QED
    BY <1>5, <2>1, <2>2 DEF Adjoins
<1>14. Meets(home, at2, n)'
  <2>1. Meets(home, at, n)
    BY <1>0 DEF Placed
  <2>2. End(at2, n)' = End(at, n)
    BY <1>1, <1>10
  <2>3. QED
    BY <1>5, <2>1, <2>2 DEF Meets
<1>15. Placed(home, at2)'
  <2>1. home \in [1..n -> Nat]
    BY <1>0 DEF Placed
  <2>2. QED
    BY <1>1, <1>6, <1>8, <1>9, <1>11, <1>12, <1>13, <1>14, <2>1 DEF Placed
<1>16. BeginsLater(sent, home, at, home, at2)
  BY <1>0, <1>1, <1>5, <1>8, <1>9 DEF BeginsLater
<1>17. QED
  BY <1>15, <1>16

-----------------------------------------------------------------------------
(* The buffer, whoever writes to it and whatever becomes of the descriptors *)

BufferOK == ChunksOK /\ \E home, at : Placed(home, at)

LEMMA TypeInit == Init => TypeOK
<1> SUFFICES ASSUME Init PROVE TypeOK
  OBVIOUS
<1>1. <<>> \in Seq(FrameSet)
  BY EmptySeq
<1>2. chunks \in Seq(ChunkSet) /\ write \in 1..Len(chunks)
  BY Empty DEF Init
<1>3. conn \in [Fd -> 0..made] /\ made \in 0..MaxConnections /\ peers \subseteq 1..made /\ polled \subseteq Fd
  BY Domains DEF Init, Closed
<1>4. written \in [Connection -> Nat] /\ received \in [Connection -> Nat]
  BY DEF Init
<1>5. QED
  BY <1>1, <1>2, <1>3, <1>4 DEF Init, TypeOK

LEMMA BufferInit == Init => BufferOK
<1> SUFFICES ASSUME Init PROVE BufferOK
  OBVIOUS
<1>1. chunks = <<EmptyChunk>> /\ write = 1 /\ pRead = 0 /\ frames = <<>> /\ Len(chunks) = 1 /\ chunks[1] = EmptyChunk /\ Len(frames) = 0
  BY DEF Init
<1>2. ChunksOK
  BY <1>1, Empty, TransmitterAssumption DEF ChunksOK, minBlockSize
<1>3. PICK none \in [1..0 -> Nat] : TRUE
  <2>1. [i \in 1..0 |-> 0] \in [1..0 -> Nat]
    OBVIOUS
  <2>2. QED
    BY <2>1
<1>4. (\A i \in 1..0 : FALSE) /\ \A i \in 1..(0 - 1) : FALSE
  OBVIOUS
<1>5. Placed(none, none)
  BY <1>1, <1>3, <1>4, Empty DEF Placed
<1>6. QED
  BY <1>2, <1>5 DEF BufferOK

LEMMA SizesFit ==
    ASSUME TypeOK, ChunksOK, out # Nothing
    PROVE  /\ out.left > 0 => /\ Size(out.left, room) \in Nat \ {0} /\ Size(out.left, room) <= room
                              /\ contentLength(out.left, room) \in 1..out.left
           /\ EndSize \in Nat \ {0} /\ EndSize <= room
<1>1. room \in Nat /\ room >= minBlockSize /\ out.left \in Nat
  BY RoomType, OutTypes
<1>2. out.left > 0 => out.left \in Nat \ {0}
  BY <1>1
<1>3. EndSize \in Nat \ {0} /\ EndSize <= room
  BY <1>1 DEF EndSize, minBlockSize
<1>4. out.left > 0 => contentLength(out.left, room) \in 1..out.left
  BY <1>1, <1>2, RecordFilled
<1>5. ASSUME out.left > 0 PROVE Size(out.left, room) \in Nat \ {0} /\ Size(out.left, room) <= room
  <2>1. /\ Size(out.left, room) \in Nat /\ Size(out.left, room) >= HeaderSize + chunkSize
        /\ Size(out.left, room) <= room
    BY <1>1, <1>2, <1>5, SizeBounds
  <2>2. QED
    BY <2>1 DEF HeaderSize, chunkSize
<1>6. QED
  BY <1>3, <1>4, <1>5

\* What transmit() leaves of a descriptor.
LEMMA FreeTypes ==
    ASSUME TypeOK, NEW fds, freeFd(fds)
    PROVE  polled' \subseteq Fd /\ conn' \in [Fd -> 0..made]
<1>1. 0 \in 0..made
  BY DEF TypeOK
<1>2. QED
  BY <1>1 DEF freeFd, TypeOK, Closed

\* The sizes that freeRead() is given.
LEMMA SentSizes ==
    ASSUME TypeOK, frames # <<>>
    PROVE  /\ Frame = frames[1] /\ Frame.size \in Nat \ {0} /\ Frame.fd \in Fd /\ Frame.conn \in Connection
           /\ \A sent \in Short(Frame.size) : sent \in Nat /\ sent <= Frame.size
<1>1. Frame = frames[1] /\ 1 \in 1..Len(frames)
  BY TailOf DEF TypeOK, Frame
<1>2. Frame.size \in Nat \ {0} /\ Frame.fd \in Fd /\ Frame.conn \in Connection
  BY <1>1, Reading
<1>3. ASSUME NEW sent \in Short(Frame.size) PROVE sent \in Nat /\ sent <= Frame.size
  BY <1>2 DEF Short
<1>4. QED
  BY <1>1, <1>2, <1>3

LEMMA ArriveTypes ==
    ASSUME TypeOK, Writable, Frame.fd \in Fd, NEW sent \in Nat, Arrives(sent)
    PROVE  received' \in [Connection -> Nat] /\ garbled' \in BOOLEAN /\ conn[Frame.fd] \in Connection
<1>1. conn[Frame.fd] \in Connection
  BY Domains DEF Writable, TypeOK
<1>2. received' = [received EXCEPT ![conn[Frame.fd]] = @ + sent]
  BY DEF Arrives
<1>3. received[conn[Frame.fd]] + sent \in Nat
  BY <1>1 DEF TypeOK
<1>4. garbled' \in BOOLEAN
  BY Zenon DEF Arrives
<1>5. QED
  BY <1>1, <1>2, <1>3, <1>4 DEF TypeOK

LEMMA SendTypes ==
    ASSUME TypeOK, ChunksOK, Send
    PROVE  TypeOK'
<1> USE DEF bufferVars, fdVars, arrivals
<1>1. CASE SendNothing
  BY <1>1 DEF SendNothing, Return, TypeOK
<1>2. ASSUME frames # <<>>, NEW sent \in Nat, sent <= Frame.size, freeRead(sent)
      PROVE  chunks' \in Seq(ChunkSet) /\ write' \in 1..Len(chunks') /\ pRead' \in Nat /\ frames' \in Seq(FrameSet)
  BY <1>2, SentSizes, ChunksRead, FramesRead
<1>3. CASE SendAll
  <2>1. frames # <<>> /\ freeRead(Frame.size) /\ Frame.size \in Nat /\ Frame.size <= Frame.size
    BY <1>3, SentSizes DEF SendAll
  <2>2. chunks' \in Seq(ChunkSet) /\ write' \in 1..Len(chunks') /\ pRead' \in Nat /\ frames' \in Seq(FrameSet)
    BY <1>2, <2>1
  <2>3. polled' \subseteq Fd /\ conn' \in [Fd -> 0..made]
    BY <1>3, FreeTypes DEF SendAll
  <2>4. received' \in [Connection -> Nat] /\ garbled' \in BOOLEAN
    BY <1>3, <2>1, ArriveTypes, SentSizes DEF SendAll
  <2>5. QED
    BY <1>3, <2>2, <2>3, <2>4 DEF SendAll, TypeOK
<1>4. CASE SendPart
  <2>1. PICK sent \in Short(Frame.size) : Arrives(sent) /\ freeRead(sent)
    BY <1>4 DEF SendPart
  <2>2. frames # <<>> /\ sent \in Nat /\ sent <= Frame.size
    BY <1>4, SentSizes DEF SendPart
  <2>3. chunks' \in Seq(ChunkSet) /\ write' \in 1..Len(chunks') /\ pRead' \in Nat /\ frames' \in Seq(FrameSet)
    BY <1>2, <2>1, <2>2
  <2>4. received' \in [Connection -> Nat] /\ garbled' \in BOOLEAN
    BY <1>4, <2>1, <2>2, ArriveTypes, SentSizes DEF SendPart
  <2>5. shorts' \in Nat
    BY <1>4 DEF SendPart, TypeOK
  <2>6. QED
    BY <1>4, <2>3, <2>4, <2>5 DEF SendPart, Return, TypeOK
<1>5. CASE SendFails
  <2>1. frames # <<>> /\ freeRead(Frame.size) /\ Frame.size \in Nat /\ Frame.size <= Frame.size
    BY <1>5, SentSizes DEF SendFails
  <2>2. chunks' \in Seq(ChunkSet) /\ write' \in 1..Len(chunks') /\ pRead' \in Nat /\ frames' \in Seq(FrameSet)
    BY <1>2, <2>1
  <2>3. polled' \subseteq Fd /\ conn' \in [Fd -> 0..made]
    BY <1>5, FreeTypes DEF SendFails
  <2>4. QED
    BY <1>5, <2>2, <2>3 DEF SendFails, TypeOK
<1>6. QED
  BY <1>1, <1>3, <1>4, <1>5 DEF Send

\* A record is written of what is being written, or the END_REQUEST after it.
LEMMA WriteSizes ==
    ASSUME TypeOK, ChunksOK, WriteRecord \/ WriteEnd
    PROVE  /\ pc = "write" /\ pc' = "transmit" /\ out # Nothing
           /\ \E size \in Nat \ {0}, kill \in BOOLEAN : size <= room /\ secureWrite(size, kill)
                                                     /\ (kill => out' = Nothing)
           /\ out' \in OutSet \cup {Nothing} /\ (out' = Nothing \/ (out'.fd = out.fd /\ out'.conn = out.conn))
<1>1. pc = "write" /\ pc' = "transmit" /\ out # Nothing
  BY DEF WriteRecord, WriteEnd, TypeOK
<1>2. out \in OutSet /\ out.left \in Nat /\ out.kill \in BOOLEAN
  BY <1>1, OutTypes DEF TypeOK
<1>3. CASE WriteRecord
  <2>1. out.left > 0 /\ secureWrite(Size(out.left, room), FALSE)
    BY <1>3 DEF WriteRecord
  <2>2. Size(out.left, room) \in Nat \ {0} /\ Size(out.left, room) <= room
    BY <1>1, <2>1, SizesFit
  <2>3. \E size \in Nat \ {0}, kill \in BOOLEAN : size <= room /\ secureWrite(size, kill) /\ (kill => out' = Nothing)
    BY <2>1, <2>2
  <2>4. contentLength(out.left, room) \in 1..out.left
    BY <1>1, <2>1, SizesFit
  <2>5. out.left - contentLength(out.left, room) \in Nat
    BY <1>2, <2>4
  <2>6. out' = [out EXCEPT !.left = out.left - contentLength(out.left, room)]
    BY <1>3 DEF WriteRecord
  <2>7. out' \in OutSet /\ out'.fd = out.fd /\ out'.conn = out.conn
    BY <1>2, <2>5, <2>6 DEF OutSet
  <2>8. QED
    BY <1>1, <2>3, <2>7
<1>4. CASE WriteEnd
  <2>1. secureWrite(EndSize, out.kill) /\ out' = Nothing
    BY <1>4 DEF WriteEnd
  <2>2. EndSize \in Nat \ {0} /\ EndSize <= room
    BY <1>1, SizesFit
  <2>3. \E size \in Nat \ {0}, kill \in BOOLEAN : size <= room /\ secureWrite(size, kill) /\ (kill => out' = Nothing)
    BY <1>2, <2>1, <2>2
  <2>4. QED
    BY <1>1, <2>1, <2>3
<1>5. QED
  BY <1>3, <1>4

LEMMA TypeStep ==
    ASSUME TypeOK, ChunksOK, [Next]_vars
    PROVE  TypeOK'
<1> USE DEF bufferVars, fdVars, arrivals
<1>1. CASE WriteRecord \/ WriteEnd
  <2>1. /\ pc' = "transmit" /\ out # Nothing /\ out' \in OutSet \cup {Nothing}
        /\ \E size \in Nat \ {0}, kill \in BOOLEAN : size <= room /\ secureWrite(size, kill)
    BY <1>1, WriteSizes
  <2>2. PICK size \in Nat \ {0}, kill \in BOOLEAN : size <= room /\ secureWrite(size, kill)
    BY <2>1
  <2>3. /\ frames' \in Seq(FrameSet) /\ chunks' \in Seq(ChunkSet) /\ write' \in 1..Len(chunks') /\ pRead' = pRead
        /\ written' \in [Connection -> Nat]
    BY <2>1, <2>2, Writes
  <2>4. UNCHANGED <<conn, polled, requests, peers, made, begun, shorts, received, garbled>>
    BY <1>1 DEF WriteRecord, WriteEnd
  <2>5. QED
    BY <2>1, <2>3, <2>4 DEF TypeOK
<1>2. CASE Send
  BY <1>2, SendTypes
<1>3. CASE Transmit
  BY <1>3 DEF Transmit, TypeOK
<1>4. CASE Accept
  <2>1. made' = made + 1 /\ made' \in 0..MaxConnections /\ 0..made \subseteq 0..made' /\ made' \in 0..made' /\ 1..made \subseteq 1..made' /\ made' \in 1..made'
    BY <1>4, TransmitterAssumption DEF Accept, TypeOK
  <2>2. PICK fd \in Fd : conn' = [conn EXCEPT ![fd] = made + 1] /\ polled' = polled \cup {fd}
    BY <1>4 DEF Accept
  <2>3. conn' \in [Fd -> 0..made'] /\ polled' \subseteq Fd
    BY <2>1, <2>2 DEF TypeOK
  <2>4. peers' \subseteq 1..made'
    BY <1>4, <2>1 DEF Accept, TypeOK
  <2>5. QED
    BY <1>4, <2>1, <2>3, <2>4 DEF Accept, TypeOK
<1>5. CASE Forget \/ PeerHangsUp
  BY <1>5 DEF Forget, PeerHangsUp, TypeOK
<1>6. CASE Begin
  <2>1. PICK fd \in polled, id \in RequestId, kill \in BOOLEAN :
          /\ conn[fd] \in peers
          /\ requests' = IF \E r \in requests : r.fd = fd /\ r.id = id THEN requests
                         ELSE requests \cup {[fd |-> fd, id |-> id, conn |-> conn[fd], kill |-> kill]}
    BY <1>6 DEF Begin
  <2>2. conn[fd] \in Connection /\ fd \in Fd
    BY <2>1, Domains DEF TypeOK
  <2>3. [fd |-> fd, id |-> id, conn |-> conn[fd], kill |-> kill] \in RequestSet
    BY <2>2 DEF RequestSet
  <2>4. requests' \subseteq RequestSet
    BY <2>1, <2>3 DEF TypeOK
  <2>5. begun' \in Nat
    BY <1>6 DEF Begin, TypeOK
  <2>6. QED
    BY <1>6, <2>4, <2>5 DEF Begin, TypeOK
<1>7. CASE Respond
  <2>1. PICK r \in requests, n \in Lengths : requests' = requests \ {r} /\ out' = [fd |-> r.fd, conn |-> r.conn, left |-> n, kill |-> r.kill]
    BY <1>7 DEF Respond
  <2>2. r \in RequestSet /\ n \in Nat
    BY TransmitterAssumption DEF TypeOK
  <2>3. out' \in OutSet /\ out'.fd \in Fd
    BY <2>1, <2>2 DEF OutSet, RequestSet
  <2>4. out' # Nothing
    BY <2>3, Domains DEF Nothing
  <2>5. QED
    BY <1>7, <2>1, <2>3, <2>4 DEF Respond, TypeOK
<1>8. CASE UNCHANGED vars
  BY <1>8 DEF vars, TypeOK
<1>9. QED
  BY <1>1, <1>2, <1>3, <1>4, <1>5, <1>6, <1>7, <1>8 DEF Next, Thread

LEMMA BufferSame ==
    ASSUME TypeOK, BufferOK, UNCHANGED bufferVars
    PROVE  BufferOK'
<1>1. PICK home, at : Placed(home, at)
  BY DEF BufferOK
<1>2. Placed(home, at)'
  BY <1>1 DEF bufferVars, Placed, Meets, Adjoins, Apart, End
<1>3. ChunksOK'
  BY DEF BufferOK, ChunksOK, bufferVars
<1>4. QED
  BY <1>2, <1>3 DEF BufferOK

LEMMA BufferRead ==
    ASSUME TypeOK, BufferOK, frames # <<>>, NEW sent \in Nat, sent <= Frame.size, freeRead(sent)
    PROVE  BufferOK'
<1>1. PICK home, at : Placed(home, at)
  BY DEF BufferOK
<1>2. ChunksOK /\ ChunksOK'
  BY ChunksRead DEF BufferOK
<1>3. Frame = frames[1] /\ Frame.size \in Nat
  BY SentSizes
<1>4. CASE sent = Frame.size
  BY <1>1, <1>2, <1>3, <1>4, PlaceDropped DEF BufferOK
<1>5. CASE sent # Frame.size
  <2>1. sent < frames[1].size
    BY <1>3, <1>5
  <2>2. QED
    BY <1>1, <1>2, <2>1, PlaceShrunk DEF BufferOK
<1>6. QED
  BY <1>4, <1>5

LEMMA BufferStep ==
    ASSUME TypeOK, BufferOK, [Next]_vars
    PROVE  BufferOK'
<1>1. CASE WriteRecord \/ WriteEnd
  <2>1. ChunksOK
    BY DEF BufferOK
  <2>2. out # Nothing /\ \E size \in Nat \ {0}, kill \in BOOLEAN : size <= room /\ secureWrite(size, kill)
    BY <1>1, <2>1, WriteSizes
  <2>3. PICK size \in Nat \ {0}, kill \in BOOLEAN : size <= room /\ secureWrite(size, kill)
    BY <2>2
  <2>4. PICK home, at : Placed(home, at)
    BY DEF BufferOK
  <2>5. ChunksOK'
    BY <2>1, <2>2, <2>3, Writes
  <2>6. \E home2, at2 : Placed(home2, at2)'
    BY <2>1, <2>2, <2>3, <2>4, PlaceWritten
  <2>7. QED
    BY <2>5, <2>6 DEF BufferOK
<1>2. CASE SendAll \/ SendPart \/ SendFails
  <2>1. frames # <<>> /\ \E sent \in Short(Frame.size) \cup {Frame.size} : freeRead(sent)
    BY <1>2 DEF SendAll, SendPart, SendFails
  <2>2. \A sent \in Short(Frame.size) \cup {Frame.size} : sent \in Nat /\ sent <= Frame.size
    BY <2>1, SentSizes
  <2>3. QED
    BY <2>1, <2>2, BufferRead
<1>3. CASE SendNothing \/ Transmit \/ Accept \/ Forget \/ PeerHangsUp \/ Begin \/ Respond \/ UNCHANGED vars
  <2>1. UNCHANGED bufferVars
    BY <1>3 DEF SendNothing, Transmit, Accept, Forget, PeerHangsUp, Begin, Respond, vars, bufferVars
  <2>2. QED
    BY <2>1, BufferSame
<1>4. QED
  BY <1>1, <1>2, <1>3 DEF Next, Thread, Send

\* The invariant of the buffer is one: it holds at first, and every step keeps it.
THEOREM BufferInductive == Spec => [](TypeOK /\ BufferOK)
<1>1. Init => TypeOK /\ BufferOK
  BY TypeInit, BufferInit
<1>2. TypeOK /\ BufferOK /\ [Next]_vars => (TypeOK /\ BufferOK)'
  BY TypeStep, BufferStep DEF BufferOK
<1>3. QED
  BY <1>1, <1>2, PTL DEF Spec

\* empty(), requestWrite() and the reserve: whatever is written, sent, cut
\* short or dropped, the pointers of the buffer tell what its callers rely on.
THEOREM BufferAlwaysTells == Spec => []BufferTells
<1>1. TypeOK /\ BufferOK => BufferTells
  <2> SUFFICES ASSUME TypeOK, BufferOK PROVE BufferTells
    OBVIOUS
  <2>1. ChunksOK /\ room >= minBlockSize
    BY RoomType DEF BufferOK
  <2>2. PICK home, at : Placed(home, at)
    BY DEF BufferOK
  <2>3. frames = <<>> => BufferEmpty
    BY <2>2 DEF Placed, BufferEmpty
  <2>4. ASSUME frames # <<>> PROVE ~BufferEmpty
    <3>1. pRead \in Nat /\ chunks[1].end \in Nat /\ frames[1].size \in Nat \ {0} /\ pRead + frames[1].size <= chunks[1].end
      BY <2>2, <2>4, FirstPlaced
    <3>2. pRead # chunks[1].end
      BY <3>1
    <3>3. QED
      BY <3>2 DEF BufferEmpty
  <2>5. Len(chunks) = write + 1 => Last(chunks) = EmptyChunk
    BY <2>1 DEF ChunksOK, Last
  <2>6. QED
    BY <2>1, <2>3, <2>4, <2>5 DEF BufferTells, ChunksOK
<1>2. QED
  BY <1>1, BufferInductive, PTL

-----------------------------------------------------------------------------
(* Descriptors that nobody will close *)

LEMMA ForgottenStep ==
    ASSUME TypeOK, ChunksOK, ForgottenWereHungUp, [Next]_vars
    PROVE  ForgottenWereHungUp'
<1> USE DEF bufferVars, fdVars, arrivals
<1>1. ASSUME NEW fds, freeFd(fds), peers' = peers PROVE ForgottenWereHungUp'
  BY <1>1 DEF freeFd, ForgottenWereHungUp
<1>2. ASSUME UNCHANGED <<conn, polled>>, peers' \subseteq peers PROVE ForgottenWereHungUp'
  BY <1>2 DEF ForgottenWereHungUp
<1>3. CASE SendAll \/ SendFails
  <2>1. peers' = peers /\ \E fds \in {{Frame.fd}, {}} : freeFd(fds)
    BY <1>3 DEF SendAll, SendFails
  <2>2. QED
    BY <1>1, <2>1
<1>4. CASE Accept
  <2>1. PICK fd \in Fd : conn' = [conn EXCEPT ![fd] = made + 1] /\ polled' = polled \cup {fd}
    BY <1>4 DEF Accept
  <2>2. made \in Nat /\ peers' = peers \cup {made + 1}
    BY <1>4 DEF Accept, TypeOK
  <2>3. ASSUME NEW other \in Fd \ polled', conn'[other] # Closed PROVE conn'[other] \notin peers'
    <3>1. other # fd /\ other \in Fd \ polled /\ conn'[other] = conn[other] /\ conn[other] \in 0..made
      BY <2>1, <2>3 DEF TypeOK
    <3>2. conn[other] # made + 1 /\ conn[other] \notin peers
      BY <2>2, <2>3, <3>1 DEF ForgottenWereHungUp
    <3>3. QED
      BY <2>2, <3>1, <3>2
  <2>4. QED
    BY <2>3 DEF ForgottenWereHungUp
<1>5. CASE Forget
  BY <1>5 DEF Forget, ForgottenWereHungUp
<1>6. CASE ~(SendAll \/ SendFails \/ Accept \/ Forget)
  <2>1. UNCHANGED <<conn, polled>> /\ peers' \subseteq peers
    BY <1>6 DEF Next, Thread, Send, WriteRecord, WriteEnd, Transmit, SendPart, SendNothing, Begin, Respond, PeerHangsUp, vars
  <2>2. QED
    BY <1>2, <2>1
<1>7. QED
  BY <1>3, <1>4, <1>5, <1>6

\* A descriptor that is left open for good, because poll() no longer watches
\* it, is never one whose web server still waits at the other end.
THEOREM ForgottenAreHungUp == Spec => []ForgottenWereHungUp
<1>1. Init => ForgottenWereHungUp
  BY DEF Init, ForgottenWereHungUp
<1>2. TypeOK /\ BufferOK /\ ForgottenWereHungUp /\ [Next]_vars => ForgottenWereHungUp'
  BY ForgottenStep DEF BufferOK
<1>3. QED
  BY <1>1, <1>2, BufferInductive, PTL DEF Spec

-----------------------------------------------------------------------------
(* One request at a time on each connection.  The web server may use several *)
(* ids on one connection (then an old request may answer onto a descriptor    *)
(* that is another connection's by now); with one id it does not.            *)

OneRequest == \E id : RequestId = {id}

\* A frame that waits for a descriptor which is not its connection's any more.
Stale(i) == conn[frames[i].fd] # frames[i].conn
StaleOut == out # Nothing /\ conn[out.fd] # out.conn
Gone(fd, c) == conn[fd] = Closed /\ c \notin peers

\* A connection is open on one descriptor.
DescriptorsOK == \A fd, other \in Fd : conn[fd] = conn[other] /\ conn[fd] # Closed => fd = other

\* A request is the only one of its connection, and none of that is in the queue.
RequestsOK ==
    \A r \in requests :
        /\ conn[r.fd] = r.conn /\ out.conn # r.conn
        /\ \A i \in 1..Len(frames) : frames[i].conn # r.conn
        /\ \A s \in requests : s.conn = r.conn => s = r

\* The frames of one connection stand together, those of the response that is
\* being written at the end, and the one that closes a descriptor is the last.
QueueOK ==
    /\ \A i, j, l \in 1..Len(frames) : i < j /\ j < l /\ frames[i].conn = frames[l].conn => frames[j].conn = frames[i].conn
    /\ \A i, j \in 1..Len(frames) : i < j /\ frames[i].conn = out.conn => frames[j].conn = out.conn
    /\ \A i \in 1..Len(frames) : frames[i].closeFd => frames[i].conn # out.conn
    /\ \A i, j \in 1..Len(frames) : i < j /\ frames[i].closeFd => frames[j].conn # frames[i].conn
    /\ \A i \in 1..Len(frames) : frames[i].conn <= made
    /\ out.conn <= made

\* Frames are stale only while transmit() drops them, the first ones first.
LateOK ==
    /\ \A i \in 1..Len(frames) : Stale(i) => Gone(frames[i].fd, frames[i].conn) /\ pc = "transmit"
    /\ \A i, j \in 1..Len(frames) : Stale(i) /\ j < i => Stale(j)
    /\ StaleOut => Gone(out.fd, out.conn) /\ \A i \in 1..Len(frames) : Stale(i)

FdOK == DescriptorsOK /\ RequestsOK /\ QueueOK /\ LateOK

LEMMA FdInit == Init => FdOK
<1> SUFFICES ASSUME Init PROVE FdOK
  OBVIOUS
<1>1. Len(frames) = 0 /\ \A i \in 1..Len(frames) : FALSE
  BY DEF Init
<1>2. DescriptorsOK /\ RequestsOK
  BY DEF Init, DescriptorsOK, RequestsOK
<1>3. QueueOK /\ LateOK
  BY <1>1 DEF Init, QueueOK, LateOK, StaleOut, Nothing, Closed
<1>4. QED
  BY <1>2, <1>3 DEF FdOK

LEMMA FdSame ==
    ASSUME TypeOK, FdOK, UNCHANGED <<conn, requests, frames, out, made>>, peers' \subseteq peers,
           pc' = pc \/ pc' = "transmit" \/ frames = <<>>
    PROVE  FdOK'
<1>1. DescriptorsOK' /\ RequestsOK' /\ QueueOK'
  BY DEF FdOK, DescriptorsOK, RequestsOK, QueueOK
<1>2. /\ \A i \in 1..Len(frames) : (Stale(i)' <=> Stale(i)) /\ (Gone(frames[i].fd, frames[i].conn) => Gone(frames[i].fd, frames[i].conn)')
      /\ (StaleOut' <=> StaleOut) /\ (Gone(out.fd, out.conn) => Gone(out.fd, out.conn)')
  BY DEF Stale, StaleOut, Gone
<1>3. frames = <<>> => \A i \in 1..Len(frames) : FALSE
  BY Reading
<1>4. QED
  BY <1>1, <1>2, <1>3 DEF FdOK, LateOK

\* In the loop nothing is being written and no frame is stale.
LEMMA InLoop ==
    ASSUME TypeOK, FdOK, pc = "loop"
    PROVE  out = Nothing /\ out.conn = Closed /\ ~StaleOut /\ \A i \in 1..Len(frames) : ~Stale(i)
<1>1. out = Nothing
  BY DEF TypeOK
<1>2. out.conn = Closed /\ ~StaleOut
  BY <1>1 DEF StaleOut, Nothing
<1>3. \A i \in 1..Len(frames) : ~Stale(i)
  BY DEF FdOK, LateOK
<1>4. QED
  BY <1>1, <1>2, <1>3

LEMMA FdAccept ==
    ASSUME TypeOK, FdOK, Accept
    PROVE  FdOK'
<1>1. PICK fd \in Fd : conn[fd] = Closed /\ conn' = [conn EXCEPT ![fd] = made + 1]
  BY DEF Accept
<1>2. /\ pc = "loop" /\ pc' = pc /\ out' = out /\ frames' = frames /\ requests' = requests
      /\ made' = made + 1 /\ made \in Nat /\ conn \in [Fd -> 0..made]
  BY DEF Accept, bufferVars, TypeOK
<1>3. out = Nothing /\ out.conn = Closed /\ \A i \in 1..Len(frames) : ~Stale(i)
  BY <1>2, InLoop
<1>4. \A other \in Fd : conn'[other] = IF other = fd THEN made + 1 ELSE conn[other]
  BY <1>1, <1>2
<1>5. \A other \in Fd : conn[other] \in Nat /\ conn[other] # made + 1
  BY <1>2
<1>6. DescriptorsOK'
  BY <1>1, <1>2, <1>4, <1>5 DEF FdOK, DescriptorsOK
<1>7. \A c \in Connection : c # Closed
  BY Domains
<1>8. RequestsOK'
  <2>1. \A r \in requests : r.fd \in Fd /\ r.conn \in Connection
    BY DEF TypeOK, RequestSet
  <2>2. \A r \in requests : conn'[r.fd] = r.conn
    BY <1>1, <1>4, <1>7, <2>1 DEF FdOK, RequestsOK
  <2>3. QED
    BY <1>2, <2>2 DEF FdOK, RequestsOK
<1>9. \A i \in 1..Len(frames) : ~Stale(i)'
  <2>1. \A i \in 1..Len(frames) : frames[i].fd \in Fd /\ frames[i].conn \in Connection /\ conn[frames[i].fd] = frames[i].conn
    BY <1>3, Reading DEF Stale
  <2>2. \A i \in 1..Len(frames) : conn'[frames[i].fd] = frames[i].conn
    BY <1>1, <1>4, <1>7, <2>1
  <2>3. QED
    BY <1>2, <2>2 DEF Stale
<1>10. QueueOK'
  <2>1. \A i \in 1..Len(frames) : frames[i].conn \in Nat /\ frames[i].conn <= made
    BY Reading DEF FdOK, QueueOK, Connection
  <2>2. \A i \in 1..Len(frames) : frames[i].conn <= made + 1
    BY <1>2, <2>1
  <2>3. out.conn <= made + 1
    BY <1>2, <1>3 DEF Closed
  <2>4. QED
    BY <1>2, <2>2, <2>3 DEF FdOK, QueueOK
<1>11. LateOK'
  BY <1>2, <1>3, <1>9 DEF LateOK, StaleOut
<1>12. QED
  BY <1>6, <1>8, <1>10, <1>11 DEF FdOK

LEMMA FdBegin ==
    ASSUME TypeOK, FdOK, OneRequest, Begin
    PROVE  FdOK'
<1>1. PICK fd \in polled, id \in RequestId, kill \in BOOLEAN :
          /\ conn[fd] \in peers
          /\ \A r \in requests : r.conn = conn[fd] => r.id # id /\ ~r.kill /\ ~kill
          /\ \A i \in DOMAIN frames : frames[i].conn # conn[fd]
          /\ requests' = IF \E r \in requests : r.fd = fd /\ r.id = id THEN requests
                         ELSE requests \cup {[fd |-> fd, id |-> id, conn |-> conn[fd], kill |-> kill]}
  BY DEF Begin
<1> DEFINE new == [fd |-> fd, id |-> id, conn |-> conn[fd], kill |-> kill]
<1>2. /\ pc = "loop" /\ pc' = pc /\ out' = out /\ frames' = frames /\ conn' = conn /\ made' = made /\ peers' = peers
      /\ requests' \subseteq requests \cup {new}
  BY <1>1 DEF Begin, bufferVars, fdVars
<1>3. out = Nothing /\ out.conn = Closed
  BY <1>2, InLoop
<1>4. \A r \in requests : r.conn # conn[fd]
  BY <1>1 DEF OneRequest, TypeOK, RequestSet
<1>5. conn[fd] # Closed
  <2>1. conn[fd] \in Connection
    BY <1>1, Domains DEF TypeOK
  <2>2. QED
    BY <2>1, Domains
<1>6. \A i \in 1..Len(frames) : frames[i].conn # conn[fd]
  <2>1. DOMAIN frames = 1..Len(frames)
    BY LenProperties DEF TypeOK
  <2>2. QED
    BY <1>1, <2>1
<1>7. \A r \in requests \cup {new} :
        /\ conn[r.fd] = r.conn /\ out.conn # r.conn
        /\ \A i \in 1..Len(frames) : frames[i].conn # r.conn
  BY <1>3, <1>5, <1>6 DEF FdOK, RequestsOK
<1>8. \A r, s \in requests \cup {new} : s.conn = r.conn => s = r
  <2>1. new.conn = conn[fd]
    OBVIOUS
  <2> HIDE DEF new
  <2>2. \A r, s \in requests : s.conn = r.conn => s = r
    BY DEF FdOK, RequestsOK
  <2>3. QED
    BY <1>4, <2>1, <2>2
<1> HIDE DEF new
<1>9. RequestsOK'
  BY <1>2, <1>7, <1>8 DEF RequestsOK
<1>10. DescriptorsOK' /\ QueueOK' /\ LateOK'
  BY <1>2 DEF FdOK, DescriptorsOK, QueueOK, LateOK, Stale, StaleOut, Gone
<1>11. QED
  BY <1>9, <1>10 DEF FdOK

LEMMA FdRespond ==
    ASSUME TypeOK, FdOK, Respond
    PROVE  FdOK'
<1>1. PICK r \in requests, n \in Lengths : requests' = requests \ {r} /\ out' = [fd |-> r.fd, conn |-> r.conn, left |-> n, kill |-> r.kill]
  BY DEF Respond
<1>2. pc = "loop" /\ frames' = frames /\ conn' = conn /\ made' = made /\ peers' = peers
  BY DEF Respond, bufferVars, fdVars
<1>3. /\ out'.conn = r.conn /\ out'.fd = r.fd /\ conn[r.fd] = r.conn
      /\ \A i \in 1..Len(frames) : frames[i].conn # r.conn
      /\ \A s \in requests : s.conn = r.conn => s = r
  BY <1>1 DEF FdOK, RequestsOK
<1>4. \A i \in 1..Len(frames) : ~Stale(i)
  BY <1>2, InLoop
<1>5. RequestsOK'
  BY <1>1, <1>2, <1>3 DEF FdOK, RequestsOK
<1>6. r.conn <= made
  <2>1. conn[r.fd] \in 0..made /\ made \in Nat
    BY DEF TypeOK, RequestSet
  <2>2. QED
    BY <1>3, <2>1
<1>7. QueueOK'
  BY <1>2, <1>3, <1>6 DEF FdOK, QueueOK
<1>8. LateOK'
  BY <1>2, <1>3, <1>4 DEF LateOK, Stale, StaleOut
<1>9. QED
  BY <1>2, <1>5, <1>7, <1>8 DEF FdOK, DescriptorsOK

LEMMA FdWrite ==
    ASSUME TypeOK, ChunksOK, FdOK, WriteRecord \/ WriteEnd
    PROVE  FdOK'
<1>1. /\ pc = "write" /\ pc' = "transmit" /\ out # Nothing
      /\ \E size \in Nat \ {0}, kill \in BOOLEAN : size <= room /\ secureWrite(size, kill) /\ (kill => out' = Nothing)
      /\ out' = Nothing \/ (out'.fd = out.fd /\ out'.conn = out.conn)
  BY WriteSizes
<1>2. PICK size \in Nat \ {0}, kill \in BOOLEAN : size <= room /\ secureWrite(size, kill) /\ (kill => out' = Nothing)
  BY <1>1
<1>3. PICK n \in Nat : n = Len(frames)
  BY Reading
<1>4. /\ Len(frames') = n + 1 /\ \A i \in 1..n : frames'[i] = frames[i]
      /\ frames'[n + 1] = NewFrame(size, kill)
  BY <1>1, <1>2, <1>3, Writes
<1>5. frames'[n + 1].fd = out.fd /\ frames'[n + 1].conn = out.conn /\ frames'[n + 1].closeFd = kill
  BY <1>4 DEF NewFrame
<1>6. conn' = conn /\ requests' = requests /\ peers' = peers /\ made' = made
  BY DEF WriteRecord, WriteEnd, fdVars
<1>7. out.conn \in Connection /\ out.fd \in Fd /\ out.conn # Closed
  BY <1>1, OutTypes, Domains
<1>8. out'.conn = out.conn \/ out'.conn = Closed
  BY <1>1 DEF Nothing
<1>9. /\ \A i \in 1..(n + 1) : (i \in 1..n /\ frames'[i] = frames[i]) \/ i = n + 1
      /\ \A i, j \in 1..(n + 1) : i < j => i \in 1..n
      /\ \A i \in 1..n : frames[i].conn \in Connection /\ frames[i].conn # Closed /\ i < n + 1
  BY <1>3, <1>4, Reading, Domains
<1>10. RequestsOK'
  <2>1. ASSUME NEW r \in requests
        PROVE  /\ conn[r.fd] = r.conn /\ out.conn # r.conn /\ r.conn # Closed
               /\ \A i \in 1..n : frames[i].conn # r.conn
               /\ \A s \in requests : s.conn = r.conn => s = r
    <3>1. r.conn # Closed
      BY Domains DEF TypeOK, RequestSet
    <3>2. QED
      BY <1>3, <3>1 DEF FdOK, RequestsOK
  <2>2. ASSUME NEW r \in requests PROVE out'.conn # r.conn /\ \A i \in 1..(n + 1) : frames'[i].conn # r.conn
    BY <1>5, <1>8, <1>9, <2>1
  <2>3. QED
    BY <1>4, <1>6, <2>1, <2>2 DEF RequestsOK
<1>11. QueueOK'
  <2> USE <1>3
  <2>1. ASSUME NEW i \in 1..(n + 1), NEW j \in 1..(n + 1), NEW l \in 1..(n + 1), i < j, j < l, frames'[i].conn = frames'[l].conn
        PROVE  frames'[j].conn = frames'[i].conn
    <3>1. i \in 1..n /\ j \in 1..n
      BY <1>9, <2>1
    <3>2. CASE l = n + 1
      BY <1>4, <1>5, <2>1, <3>1, <3>2 DEF FdOK, QueueOK
    <3>3. CASE l \in 1..n
      BY <1>4, <2>1, <3>1, <3>3 DEF FdOK, QueueOK
    <3>4. QED
      BY <1>9, <3>2, <3>3
  <2>2. ASSUME NEW i \in 1..(n + 1), NEW j \in 1..(n + 1), i < j, frames'[i].conn = out'.conn PROVE frames'[j].conn = out'.conn
    <3>1. i \in 1..n /\ frames'[i] = frames[i]
      BY <1>4, <1>9, <2>2
    <3>2. out'.conn = out.conn
      BY <1>8, <1>9, <2>2, <3>1
    <3>3. CASE j = n + 1
      BY <1>5, <3>2, <3>3
    <3>4. CASE j \in 1..n
      BY <1>4, <2>2, <3>1, <3>2, <3>4 DEF FdOK, QueueOK
    <3>5. QED
      BY <1>9, <3>3, <3>4
  <2>3. ASSUME NEW i \in 1..(n + 1), frames'[i].closeFd PROVE frames'[i].conn # out'.conn
    <3>1. CASE i = n + 1
      <4>1. kill
        BY <1>5, <2>3, <3>1
      <4>2. out' = Nothing
        BY <1>2, <4>1
      <4>3. QED
        BY <1>5, <1>7, <3>1, <4>2 DEF Nothing
    <3>2. CASE i \in 1..n
      BY <1>4, <1>8, <1>9, <2>3, <3>2 DEF FdOK, QueueOK
    <3>3. QED
      BY <1>9, <3>1, <3>2
  <2>4. ASSUME NEW i \in 1..(n + 1), NEW j \in 1..(n + 1), i < j, frames'[i].closeFd PROVE frames'[j].conn # frames'[i].conn
    <3>1. i \in 1..n /\ frames[i].closeFd /\ frames'[i] = frames[i]
      BY <1>4, <1>9, <2>4
    <3>2. CASE j = n + 1
      BY <1>5, <3>1, <3>2 DEF FdOK, QueueOK
    <3>3. CASE j \in 1..n
      BY <1>4, <2>4, <3>1, <3>3 DEF FdOK, QueueOK
    <3>4. QED
      BY <1>9, <3>2, <3>3
  <2>5. out.conn <= made /\ \A i \in 1..n : frames[i].conn <= made
    BY DEF FdOK, QueueOK
  <2>6. out'.conn <= made' /\ \A i \in 1..(n + 1) : frames'[i].conn <= made'
    <3>1. Closed <= made
      BY DEF TypeOK, Closed
    <3>2. QED
      BY <1>5, <1>6, <1>8, <1>9, <2>5, <3>1
  <2>7. QED
    BY <1>4, <2>1, <2>2, <2>3, <2>4, <2>6 DEF QueueOK
<1>12. LateOK'
  <2>1. \A i \in 1..n : ~Stale(i)
    BY <1>1, <1>3 DEF FdOK, LateOK
  <2>2. \A i \in 1..n : ~Stale(i)'
    BY <1>4, <1>6, <2>1 DEF Stale
  <2>3. StaleOut => n = 0 /\ Gone(out.fd, out.conn)
    <3>1. n # 0 => 1 \in 1..n
      BY <1>3
    <3>2. QED
      BY <1>3, <2>1, <3>1 DEF FdOK, LateOK
  <2>4. Stale(n + 1)' <=> StaleOut
    BY <1>1, <1>5, <1>6 DEF Stale, StaleOut
  <2>5. StaleOut' => StaleOut /\ out'.fd = out.fd /\ out'.conn = out.conn
    BY <1>1, <1>6 DEF StaleOut
  <2>6. ASSUME NEW i \in 1..(n + 1), Stale(i)' PROVE i = n + 1 /\ n = 0 /\ StaleOut /\ Gone(frames[i].fd, frames[i].conn)'
    <3>1. i = n + 1
      BY <1>9, <2>2, <2>6
    <3>2. StaleOut
      BY <2>4, <2>6, <3>1
    <3>3. QED
      BY <1>5, <1>6, <2>3, <3>1, <3>2 DEF Gone
  <2>7. StaleOut' => Gone(out.fd, out.conn)' /\ \A i \in 1..(n + 1) : Stale(i)'
    <3>1. ASSUME StaleOut' PROVE Gone(out.fd, out.conn)' /\ \A i \in 1..(n + 1) : Stale(i)'
      <4>1. StaleOut /\ n = 0 /\ out'.fd = out.fd /\ out'.conn = out.conn
        BY <2>3, <2>5, <3>1
      <4>2. Stale(n + 1)' /\ \A i \in 1..(n + 1) : i = n + 1
        BY <2>4, <4>1
      <4>3. QED
        BY <1>6, <2>3, <4>1, <4>2 DEF Gone
    <3>2. QED
      BY <3>1
  <2>8. QED
    <3>1. \A i \in 1..(n + 1) : Stale(i)' => Gone(frames[i].fd, frames[i].conn)' /\ pc' = "transmit"
      BY <1>1, <2>6
    <3>2. ASSUME NEW i \in 1..(n + 1), NEW j \in 1..(n + 1), Stale(i)', j < i PROVE Stale(j)'
      BY <2>6, <3>2
    <3>3. QED
      BY <1>4, <2>7, <3>1, <3>2 DEF LateOK
<1>13. QED
  BY <1>6, <1>10, <1>11, <1>12 DEF FdOK, DescriptorsOK

\* What freeRead() leaves of the queue: the same frames, or those but the first.
Leaves(d) ==
    /\ Len(frames') = Len(frames) - d
    /\ \A i \in 1..Len(frames') : /\ i + d \in 1..Len(frames)
                                  /\ frames'[i].closeFd = frames[i + d].closeFd
                                  /\ frames'[i].fd = frames[i + d].fd /\ frames'[i].conn = frames[i + d].conn

LEMMA ReadLeaves ==
    ASSUME TypeOK, frames # <<>>, NEW sent \in Nat, sent <= Frame.size, freeRead(sent)
    PROVE  IF sent = Frame.size THEN Leaves(1) ELSE Leaves(0)
<1>1. Frame = frames[1] /\ Frame.size \in Nat \ {0} /\ Len(frames) \in Nat
  BY SentSizes, Reading
<1>2. (sent = frames[1].size /\ Drops) \/ (sent < frames[1].size /\ Shrinks(sent))
  BY <1>1, FramesRead
<1>3. CASE sent = Frame.size
  <2>1. Drops
    BY <1>1, <1>2, <1>3
  <2>2. QED
    BY <1>3, <2>1 DEF Drops, Leaves
<1>4. CASE sent # Frame.size
  <2>1. Shrinks(sent)
    BY <1>1, <1>2, <1>4
  <2>2. ASSUME NEW i \in 1..Len(frames')
        PROVE  /\ i + 0 \in 1..Len(frames) /\ i + 0 = i
               /\ frames'[i].closeFd = frames[i].closeFd /\ frames'[i].fd = frames[i].fd /\ frames'[i].conn = frames[i].conn
    <3>1. i \in 1..Len(frames) /\ i + 0 = i
      BY <1>1, <2>1 DEF Shrinks
    <3>2. CASE i = 1
      BY <2>1, <3>1, <3>2 DEF Shrinks
    <3>3. CASE i # 1
      BY <2>1, <3>1, <3>3 DEF Shrinks
    <3>4. QED
      BY <3>2, <3>3
  <2>3. Len(frames') = Len(frames) - 0
    BY <1>1, <2>1 DEF Shrinks
  <2>4. Leaves(0)
    BY <2>2, <2>3 DEF Leaves
  <2>5. QED
    BY <1>4, <2>4
<1>5. QED
  BY <1>3, <1>4

LEMMA FdLeaves ==
    ASSUME TypeOK, FdOK, NEW d \in {0, 1}, Leaves(d), UNCHANGED <<out, requests, made>>,
           \A fd \in Fd : conn'[fd] = conn[fd] \/ conn'[fd] = Closed,
           \A r \in requests : conn'[r.fd] = conn[r.fd]
    PROVE  DescriptorsOK' /\ RequestsOK' /\ QueueOK'
<1>1. PICK n \in Nat : n = Len(frames)
  BY Reading
<1>2. PICK m : m = Len(frames') /\ m = n - d
  BY <1>1 DEF Leaves
<1>3. \A i \in 1..m : i + d \in 1..n /\ frames'[i].closeFd = frames[i + d].closeFd /\ frames'[i].conn = frames[i + d].conn
  BY <1>1, <1>2 DEF Leaves
<1>4. \A i, j \in 1..m : i < j => i + d < j + d
  BY <1>1, <1>2
<1>5. QueueOK'
  <2>1. /\ \A i, j, l \in 1..n : i < j /\ j < l /\ frames[i].conn = frames[l].conn => frames[j].conn = frames[i].conn
        /\ \A i, j \in 1..n : i < j /\ frames[i].conn = out.conn => frames[j].conn = out.conn
        /\ \A i \in 1..n : frames[i].closeFd => frames[i].conn # out.conn
        /\ \A i, j \in 1..n : i < j /\ frames[i].closeFd => frames[j].conn # frames[i].conn
        /\ \A i \in 1..n : frames[i].conn <= made
        /\ out.conn <= made
    BY <1>1 DEF FdOK, QueueOK
  <2>2. /\ \A i, j, l \in 1..m : i < j /\ j < l /\ frames'[i].conn = frames'[l].conn => frames'[j].conn = frames'[i].conn
        /\ \A i, j \in 1..m : i < j /\ frames'[i].conn = out.conn => frames'[j].conn = out.conn
        /\ \A i \in 1..m : frames'[i].closeFd => frames'[i].conn # out.conn
        /\ \A i, j \in 1..m : i < j /\ frames'[i].closeFd => frames'[j].conn # frames'[i].conn
        /\ \A i \in 1..m : frames'[i].conn <= made
    BY <1>3, <1>4, <2>1
  <2>3. QED
    BY <1>2, <2>1, <2>2 DEF QueueOK
<1>6. RequestsOK'
  BY <1>1, <1>2, <1>3 DEF FdOK, RequestsOK
<1>7. DescriptorsOK'
  BY DEF FdOK, DescriptorsOK
<1>8. QED
  BY <1>5, <1>6, <1>7

\* transmit() writes, or drops what is stale: the descriptors stay as they are.
LEMMA FdSentOpen ==
    ASSUME TypeOK, FdOK, frames # <<>>, NEW d \in {0, 1}, Leaves(d), UNCHANGED <<out, requests, made, peers, conn>>,
           pc' = pc \/ ~Stale(1)
    PROVE  FdOK'
<1>1. DescriptorsOK' /\ RequestsOK' /\ QueueOK'
  BY FdLeaves
<1>2. PICK n \in Nat \ {0} : n = Len(frames)
  BY Reading
<1>3. PICK m : m = Len(frames') /\ m = n - d
  BY <1>2 DEF Leaves
<1>4. \A i \in 1..m : i + d \in 1..n /\ frames'[i].fd = frames[i + d].fd /\ frames'[i].conn = frames[i + d].conn
  BY <1>2, <1>3 DEF Leaves
<1>5. /\ \A i \in 1..n : Stale(i) => Gone(frames[i].fd, frames[i].conn) /\ pc = "transmit"
      /\ \A i, j \in 1..n : Stale(i) /\ j < i => Stale(j)
      /\ StaleOut => Gone(out.fd, out.conn) /\ \A i \in 1..n : Stale(i)
  BY <1>2 DEF FdOK, LateOK
<1>6. \A i \in 1..m : Stale(i)' <=> Stale(i + d)
  BY <1>4 DEF Stale
<1>7. StaleOut' <=> StaleOut
  BY DEF StaleOut
<1>8. ASSUME NEW i \in 1..n, Stale(i) PROVE Stale(1)
  <2>1. 1 \in 1..n /\ (i = 1 \/ 1 < i)
    BY <1>2
  <2>2. QED
    BY <1>5, <1>8, <2>1
<1>9. ASSUME NEW i \in 1..m, Stale(i)' PROVE Gone(frames[i].fd, frames[i].conn)' /\ pc' = "transmit"
  <2>1. Stale(i + d) /\ i + d \in 1..n
    BY <1>4, <1>6, <1>9
  <2>2. pc' = "transmit"
    BY <1>5, <1>8, <2>1
  <2>3. Gone(frames[i + d].fd, frames[i + d].conn)
    BY <1>5, <2>1
  <2>4. QED
    BY <1>4, <2>2, <2>3 DEF Gone
<1>10. ASSUME NEW i \in 1..m, NEW j \in 1..m, Stale(i)', j < i PROVE Stale(j)'
  <2>1. j + d < i + d
    BY <1>2, <1>3, <1>10
  <2>2. QED
    BY <1>4, <1>5, <1>6, <1>10, <2>1
<1>11. StaleOut' => Gone(out.fd, out.conn)' /\ \A i \in 1..m : Stale(i)'
  <2>1. Gone(out.fd, out.conn)' <=> Gone(out.fd, out.conn)
    BY DEF Gone
  <2>2. QED
    BY <1>4, <1>5, <1>6, <1>7, <2>1
<1>12. LateOK'
  BY <1>3, <1>9, <1>10, <1>11 DEF LateOK
<1>13. QED
  BY <1>1, <1>12 DEF FdOK

\* transmit() closes the descriptor of the first frame, which was the last of
\* its connection, or fails: then the frames of that connection are stale.
LEMMA FdSentClosed ==
    ASSUME TypeOK, FdOK, frames # <<>>, Leaves(1), UNCHANGED <<out, requests, made, peers>>,
           pc = "transmit", pc' = pc, ~Stale(1), conn' = [conn EXCEPT ![frames[1].fd] = Closed],
           frames[1].closeFd \/ conn[frames[1].fd] \notin peers
    PROVE  FdOK'
<1> DEFINE fd == frames[1].fd
           c == frames[1].conn
<1>1. PICK n \in Nat \ {0} : n = Len(frames)
  BY Reading
<1>2. PICK m \in Nat : m = Len(frames') /\ m = n - 1
  BY <1>1 DEF Leaves
<1>3. \A i \in 1..m : i + 1 \in 1..n /\ 1 < i + 1 /\ frames'[i].fd = frames[i + 1].fd /\ frames'[i].conn = frames[i + 1].conn
  BY <1>1, <1>2 DEF Leaves
<1>4. 1 \in 1..n /\ fd \in Fd /\ c \in Connection /\ conn[fd] = c /\ c # Closed
      /\ \A i \in 1..n : frames[i].fd \in Fd /\ frames[i].conn \in Connection /\ frames[i].conn # Closed
  BY <1>1, Reading, Domains DEF Stale
<1>5. \A other \in Fd : conn'[other] = IF other = fd THEN Closed ELSE conn[other]
  BY DEF TypeOK
<1>6. \A i \in 1..n : conn[frames[i].fd] = frames[i].conn
  <2>1. \A i, j \in 1..n : Stale(i) /\ j < i => Stale(j)
    BY <1>1 DEF FdOK, LateOK
  <2>2. \A i \in 1..n : i = 1 \/ 1 < i
    BY <1>1
  <2>3. QED
    BY <1>4, <2>1, <2>2 DEF Stale
<1>7. ~StaleOut
  BY <1>1, <1>4 DEF FdOK, LateOK
<1>8. \A r \in requests : r.fd \in Fd /\ conn[r.fd] = r.conn /\ r.conn # c
  BY <1>1, <1>4 DEF FdOK, RequestsOK, TypeOK, RequestSet
<1>9. \A r \in requests : conn'[r.fd] = conn[r.fd]
  BY <1>4, <1>5, <1>8
<1>10. DescriptorsOK' /\ RequestsOK' /\ QueueOK'
  BY <1>5, <1>9, FdLeaves
<1>11. \A i \in 1..n : frames[i].conn = c <=> frames[i].fd = fd
  BY <1>4, <1>6 DEF FdOK, DescriptorsOK
<1>12. out # Nothing => out.fd \in Fd /\ conn[out.fd] = out.conn /\ out.conn # Closed
  BY <1>7, OutTypes, Domains DEF StaleOut
<1>13. \A i \in 1..m : Stale(i)' <=> frames[i + 1].conn = c
  <2>1. ASSUME NEW i \in 1..m PROVE Stale(i)' <=> frames[i + 1].conn = c
    <3>1. /\ i + 1 \in 1..n /\ frames'[i].fd = frames[i + 1].fd /\ frames'[i].conn = frames[i + 1].conn
          /\ frames[i + 1].fd \in Fd /\ frames[i + 1].conn # Closed /\ conn[frames[i + 1].fd] = frames[i + 1].conn
          /\ (frames[i + 1].conn = c <=> frames[i + 1].fd = fd)
      BY <1>3, <1>4, <1>6, <1>11
    <3>2. CASE frames[i + 1].fd = fd
      BY <1>5, <3>1, <3>2 DEF Stale
    <3>3. CASE frames[i + 1].fd # fd
      BY <1>5, <3>1, <3>3 DEF Stale
    <3>4. QED
      BY <3>2, <3>3
  <2>2. QED
    BY <2>1
<1>14. StaleOut' => out # Nothing /\ out.fd = fd /\ out.conn = c
  BY <1>4, <1>5, <1>12 DEF StaleOut
<1>15. CASE frames[1].closeFd
  <2>1. c # out.conn /\ \A i \in 1..m : frames[i + 1].conn # c
    BY <1>1, <1>3, <1>4, <1>15 DEF FdOK, QueueOK
  <2>2. ~StaleOut' /\ \A i \in 1..m : ~Stale(i)'
    BY <1>13, <1>14, <2>1
  <2>3. LateOK'
    BY <1>2, <2>2 DEF LateOK
  <2>4. QED
    BY <1>10, <2>3 DEF FdOK
<1>16. CASE ~frames[1].closeFd
  <2>1. c \notin peers /\ conn'[fd] = Closed
    BY <1>4, <1>5, <1>16
  <2>2. ASSUME NEW i \in 1..m, Stale(i)' PROVE Gone(frames[i].fd, frames[i].conn)' /\ pc' = "transmit"
    <3>1. frames'[i].conn = c /\ frames'[i].fd = fd
      BY <1>3, <1>11, <1>13, <2>2
    <3>2. conn'[frames'[i].fd] = Closed /\ frames'[i].conn \notin peers'
      BY <2>1, <3>1
    <3>3. QED
      BY <3>2 DEF Gone
  <2>3. ASSUME NEW i \in 1..m, NEW j \in 1..m, Stale(i)', j < i PROVE Stale(j)'
    <3>1. 1 < j + 1 /\ j + 1 < i + 1 /\ j + 1 \in 1..n /\ i + 1 \in 1..n
      BY <1>2, <1>3, <2>3
    <3>2. frames[1].conn = frames[i + 1].conn
      BY <1>13, <2>3
    <3>3. frames[j + 1].conn = c
      BY <1>1, <1>4, <3>1, <3>2 DEF FdOK, QueueOK
    <3>4. QED
      BY <1>13, <3>3
  <2>4. ASSUME StaleOut' PROVE Gone(out.fd, out.conn)' /\ \A i \in 1..m : Stale(i)'
    <3>1. out.fd = fd /\ out.conn = c
      BY <1>14, <2>4
    <3>2. conn'[out'.fd] = Closed /\ out'.conn \notin peers'
      BY <2>1, <3>1
    <3>3. ASSUME NEW i \in 1..m PROVE frames[i + 1].conn = c
      BY <1>1, <1>3, <1>4, <3>1 DEF FdOK, QueueOK
    <3>4. QED
      BY <1>13, <3>2, <3>3 DEF Gone
  <2>5. LateOK'
    BY <1>2, <2>2, <2>3, <2>4 DEF LateOK
  <2>6. QED
    BY <1>10, <2>5 DEF FdOK
<1>17. QED
  BY <1>15, <1>16

LEMMA FreeFdOne ==
    ASSUME TypeOK, NEW fd \in Fd, freeFd({fd})
    PROVE  conn' = conn \/ conn' = [conn EXCEPT ![fd] = Closed]
<1>1. conn' = [other \in Fd |-> IF other \in {fd} \cap polled THEN Closed ELSE conn[other]]
  BY DEF freeFd
<1>2. conn = [other \in Fd |-> conn[other]]
  BY DEF TypeOK
<1>3. CASE fd \in polled
  <2>1. [conn EXCEPT ![fd] = Closed] = [other \in Fd |-> IF other = fd THEN Closed ELSE conn[other]]
    BY DEF TypeOK
  <2>2. \A other \in Fd : other \in {fd} \cap polled <=> other = fd
    BY <1>3
  <2>3. QED
    BY <1>1, <2>1, <2>2
<1>4. CASE fd \notin polled
  BY <1>1, <1>2, <1>4
<1>5. QED
  BY <1>3, <1>4

LEMMA FreeFdNone ==
    ASSUME TypeOK, freeFd({})
    PROVE  conn' = conn
BY DEF freeFd, TypeOK

LEMMA FdSend ==
    ASSUME TypeOK, FdOK, SendAll \/ SendPart \/ SendFails
    PROVE  FdOK'
<1>1. frames # <<>> /\ pc = "transmit" /\ UNCHANGED <<out, requests, made, peers>>
  BY DEF SendAll, SendPart, SendFails
<1>2. /\ Frame = frames[1] /\ Frame.size \in Nat \ {0} /\ Frame.fd \in Fd /\ Frame.size <= Frame.size
      /\ \A sent \in Short(Frame.size) : sent \in Nat /\ sent <= Frame.size
  BY <1>1, SentSizes
<1>3. Writable => ~Stale(1)
  <2>1. 1 \in 1..Len(frames)
    BY <1>1, Reading
  <2>2. conn[Frame.fd] \in peers => conn[Frame.fd] # Closed
    BY Domains DEF TypeOK
  <2>3. QED
    BY <1>2, <2>1, <2>2 DEF Writable, FdOK, LateOK, Gone
<1>4. CASE SendAll
  <2>1. Leaves(1)
    BY <1>1, <1>2, <1>4, ReadLeaves DEF SendAll
  <2>2. conn' = conn \/ (frames[1].closeFd /\ conn' = [conn EXCEPT ![frames[1].fd] = Closed])
    <3>1. CASE Frame.closeFd
      BY <1>2, <1>4, <3>1, FreeFdOne DEF SendAll
    <3>2. CASE ~Frame.closeFd
      BY <1>4, <3>2, FreeFdNone DEF SendAll
    <3>3. QED
      BY <3>1, <3>2
  <2>3. pc' = pc /\ ~Stale(1)
    BY <1>3, <1>4 DEF SendAll
  <2>4. CASE conn' = conn
    BY <1>1, <2>1, <2>3, <2>4, FdSentOpen
  <2>5. CASE frames[1].closeFd /\ conn' = [conn EXCEPT ![frames[1].fd] = Closed]
    BY <1>1, <2>1, <2>3, <2>5, FdSentClosed
  <2>6. QED
    BY <2>2, <2>4, <2>5
<1>5. CASE SendPart
  <2>1. \E d \in {0, 1} : Leaves(d)
    BY <1>1, <1>2, <1>5, ReadLeaves DEF SendPart
  <2>2. conn' = conn /\ ~Stale(1)
    BY <1>3, <1>5 DEF SendPart, fdVars
  <2>3. QED
    BY <1>1, <2>1, <2>2, FdSentOpen
<1>6. CASE SendFails
  <2>1. Leaves(1)
    BY <1>1, <1>2, <1>6, ReadLeaves DEF SendFails
  <2>2. conn' = conn \/ conn' = [conn EXCEPT ![frames[1].fd] = Closed]
    BY <1>2, <1>6, FreeFdOne DEF SendFails
  <2>3. pc' = pc /\ conn[frames[1].fd] \notin peers
    BY <1>2, <1>6 DEF SendFails, Writable
  <2>4. CASE conn' = conn
    BY <1>1, <2>1, <2>3, <2>4, FdSentOpen
  <2>5. CASE conn' = [conn EXCEPT ![frames[1].fd] = Closed] /\ ~Stale(1)
    BY <1>1, <2>1, <2>3, <2>5, FdSentClosed
  <2>6. CASE conn' = [conn EXCEPT ![frames[1].fd] = Closed] /\ Stale(1)
    <3>1. conn[frames[1].fd] = Closed
      <4>1. 1 \in 1..Len(frames)
        BY <1>1, Reading
      <4>2. QED
        BY <2>6, <4>1 DEF FdOK, LateOK, Gone
    <3>2. conn' = conn
      BY <2>6, <3>1 DEF TypeOK
    <3>3. QED
      BY <1>1, <2>1, <2>3, <3>2, FdSentOpen
  <2>7. QED
    BY <2>2, <2>4, <2>5, <2>6
<1>7. QED
  BY <1>4, <1>5, <1>6

LEMMA FdStep ==
    ASSUME TypeOK, ChunksOK, FdOK, OneRequest, [Next]_vars
    PROVE  FdOK'
<1>1. CASE WriteRecord \/ WriteEnd
  BY <1>1, FdWrite
<1>2. CASE SendAll \/ SendPart \/ SendFails
  BY <1>2, FdSend
<1>3. CASE Accept
  BY <1>3, FdAccept
<1>4. CASE Begin
  BY <1>4, FdBegin
<1>5. CASE Respond
  BY <1>5, FdRespond
<1>6. CASE SendNothing \/ Transmit \/ Forget \/ PeerHangsUp \/ UNCHANGED vars
  <2>1. UNCHANGED <<conn, requests, frames, out, made>> /\ peers' \subseteq peers /\ (pc' = pc \/ pc' = "transmit" \/ frames = <<>>)
    BY <1>6 DEF SendNothing, Transmit, Forget, PeerHangsUp, vars, bufferVars, fdVars
  <2>2. QED
    BY <2>1, FdSame
<1>7. QED
  BY <1>1, <1>2, <1>3, <1>4, <1>5, <1>6 DEF Next, Thread, Send

\* With one request at a time on a connection, the descriptors are never mixed up.
THEOREM DescriptorsInductive == ASSUME OneRequest PROVE Spec => []FdOK
<1>1. Init => FdOK
  BY FdInit
<1>2. TypeOK /\ BufferOK /\ FdOK /\ [Next]_vars => FdOK'
  BY FdStep DEF BufferOK
<1>3. QED
  BY <1>1, <1>2, BufferInductive, PTL DEF Spec

-----------------------------------------------------------------------------
(* What the frames hold.  from gives the place of a frame's first byte in    *)
(* the output of its connection: the frames of a connection go on where the   *)
(* one before ended, from what was received to what was written.             *)

Inside(span, offset, size, c, place) ==
    /\ span.at <= offset /\ offset + size <= span.at + span.len
    /\ span.conn = c /\ span.from + (offset - span.at) = place
Holds(spans, offset, size, c, place) == \E d \in DOMAIN spans : Inside(spans[d], offset, size, c, place)

FirstOf(i) == i = 1 \/ frames[i - 1].conn # frames[i].conn
LastOf(i) == i = Len(frames) \/ frames[i + 1].conn # frames[i].conn

Filled(home, at, from) ==
    /\ from \in [1..Len(frames) -> Nat]
    /\ \A i \in 1..Len(frames) : Holds(chunks[home[i]].spans, at[i], frames[i].size, frames[i].conn, from[i])
    /\ \A i \in 1..(Len(frames) - 1) : frames[i + 1].conn = frames[i].conn => from[i + 1] = from[i] + frames[i].size
    /\ \A i \in 1..Len(frames) : FirstOf(i) /\ frames[i].conn \in peers => from[i] = received[frames[i].conn]
    /\ \A i \in 1..Len(frames) : LastOf(i) => from[i] + frames[i].size = written[frames[i].conn]
    /\ \A c \in peers : (\A i \in 1..Len(frames) : frames[i].conn # c) => received[c] = written[c]

\* Nothing was written for a connection before it was made.
FreshOK == \A c \in Connection : c > made => received[c] = 0 /\ written[c] = 0

OutputOK ==
    /\ ~garbled /\ FreshOK
    /\ \E home, at, from : Placed(home, at) /\ Filled(home, at, from)

LEMMA HoldsMore ==
    ASSUME NEW spans \in Seq(SpanSet), NEW span \in SpanSet, NEW offset, NEW size, NEW c, NEW place
    PROVE  /\ Holds(spans, offset, size, c, place) => Holds(Append(spans, span), offset, size, c, place)
           /\ Inside(span, offset, size, c, place) => Holds(Append(spans, span), offset, size, c, place)
<1>1. /\ Len(spans) \in Nat /\ Len(Append(spans, span)) = Len(spans) + 1
      /\ \A i \in 1..Len(spans) : Append(spans, span)[i] = spans[i]
      /\ Append(spans, span)[Len(spans) + 1] = span
      /\ Append(spans, span) \in Seq(SpanSet)
  BY AppendOf
<1>2. DOMAIN spans = 1..Len(spans) /\ DOMAIN Append(spans, span) = 1..Len(Append(spans, span))
  BY <1>1, LenProperties
<1>3. Len(spans) + 1 \in DOMAIN Append(spans, span) /\ \A d \in DOMAIN spans : d \in DOMAIN Append(spans, span)
  BY <1>1, <1>2
<1>4. QED
  BY <1>1, <1>2, <1>3 DEF Holds

LEMMA HoldsLess ==
    ASSUME NEW spans \in Seq(SpanSet), NEW offset \in Nat, NEW size \in Nat, NEW c, NEW place \in Nat,
           Holds(spans, offset, size, c, place), NEW sent \in Nat, sent <= size
    PROVE  /\ Holds(spans, offset, sent, c, place)
           /\ Holds(spans, offset + sent, size - sent, c, place + sent)
<1>1. PICK d \in DOMAIN spans : Inside(spans[d], offset, size, c, place)
  BY DEF Holds
<1>2. spans[d] \in SpanSet
  <2>1. d \in 1..Len(spans)
    BY LenProperties
  <2>2. QED
    BY <2>1, ElementOfSeq
<1>3. spans[d].at \in Nat /\ spans[d].len \in Nat /\ spans[d].from \in Nat
  BY <1>2 DEF SpanSet
<1>4. Inside(spans[d], offset, sent, c, place)
  BY <1>1, <1>3 DEF Inside
<1>5. Inside(spans[d], offset + sent, size - sent, c, place + sent)
  <2>1. \A b, length, f \in Nat :
          b <= offset /\ offset + size <= b + length /\ f + (offset - b) = place
          => b <= offset + sent /\ (offset + sent) + (size - sent) <= b + length
             /\ f + ((offset + sent) - b) = place + sent
    OBVIOUS
  <2>2. QED
    BY <1>1, <1>3, <2>1 DEF Inside
<1>6. QED
  BY <1>4, <1>5 DEF Holds

LEMMA FilledTypes ==
    ASSUME TypeOK, NEW home, NEW at, NEW from, Placed(home, at), Filled(home, at, from)
    PROVE  \A i \in 1..Len(frames) : /\ from[i] \in Nat /\ at[i] \in Nat /\ home[i] \in 1..write /\ home[i] \in 1..Len(chunks)
                                     /\ chunks[home[i]].spans \in Seq(SpanSet)
                                     /\ frames[i].size \in Nat \ {0} /\ frames[i].conn \in Connection
<1> SUFFICES ASSUME NEW i \in 1..Len(frames)
             PROVE  /\ from[i] \in Nat /\ at[i] \in Nat /\ home[i] \in 1..write /\ home[i] \in 1..Len(chunks)
                    /\ chunks[home[i]].spans \in Seq(SpanSet)
                    /\ frames[i].size \in Nat \ {0} /\ frames[i].conn \in Connection
  OBVIOUS
<1>1. from[i] \in Nat
  BY DEF Filled
<1>2. at[i] \in Nat /\ home[i] \in 1..write /\ home[i] \in 1..Len(chunks)
  BY PlaceTypes
<1>3. QED
  BY <1>1, <1>2, Reading

LEMMA OutputInit == Init => OutputOK
<1> SUFFICES ASSUME Init PROVE OutputOK
  OBVIOUS
<1>1. chunks = <<EmptyChunk>> /\ write = 1 /\ pRead = 0 /\ frames = <<>> /\ Len(chunks) = 1 /\ chunks[1] = EmptyChunk /\ Len(frames) = 0
  BY DEF Init
<1>2. PICK none \in [1..0 -> Nat] : TRUE
  <2>1. [i \in 1..0 |-> 0] \in [1..0 -> Nat]
    OBVIOUS
  <2>2. QED
    BY <2>1
<1>3. (\A i \in 1..0 : FALSE) /\ \A i \in 1..(0 - 1) : FALSE
  OBVIOUS
<1>4. Placed(none, none)
  BY <1>1, <1>2, <1>3, Empty DEF Placed
<1>5. peers = {} /\ FreshOK /\ ~garbled
  BY DEF Init, FreshOK
<1>6. Filled(none, none, none)
  BY <1>1, <1>2, <1>3, <1>5 DEF Filled
<1>7. QED
  BY <1>4, <1>5, <1>6 DEF OutputOK

LEMMA OutputSame ==
    ASSUME TypeOK, FdOK, OutputOK, UNCHANGED <<chunks, write, pRead, frames, written, received, garbled>>,
           \/ peers' \subseteq peers /\ made' = made
           \/ made < MaxConnections /\ peers' = peers \cup {made + 1} /\ made' = made + 1
    PROVE  OutputOK'
<1>1. PICK home, at, from : Placed(home, at) /\ Filled(home, at, from)
  BY DEF OutputOK
<1>2. Placed(home, at)'
  BY <1>1 DEF Placed, Meets, Adjoins, Apart, End
<1>3. made \in Nat /\ made' \in Nat /\ made' >= made /\ \A c \in Connection : c \in Nat /\ (c > made' => c > made)
  BY DEF TypeOK, Connection
<1>4. FreshOK'
  BY <1>3 DEF OutputOK, FreshOK
<1>5. ASSUME NEW c \in peers' PROVE c \in peers \/ (c = made + 1 /\ received[c] = 0 /\ written[c] = 0)
  <2>1. CASE made < MaxConnections /\ peers' = peers \cup {made + 1}
    <3>1. made + 1 \in Connection /\ made + 1 > made
      BY <1>3, <2>1, Domains DEF Connection
    <3>2. received[made + 1] = 0 /\ written[made + 1] = 0
      BY <3>1 DEF OutputOK, FreshOK
    <3>3. QED
      BY <1>5, <2>1, <3>2
  <2>2. QED
    BY <1>5, <2>1
<1>6. \A i \in 1..Len(frames) : frames[i].conn \in peers' => frames[i].conn \in peers
  <2>1. \A i \in 1..Len(frames) : frames[i].conn \in Nat /\ frames[i].conn <= made
    BY Reading DEF FdOK, QueueOK, Connection
  <2>2. QED
    BY <1>3, <1>5, <2>1
<1>7. Filled(home, at, from)'
  <2>1. \A i \in 1..Len(frames) : FirstOf(i)' <=> FirstOf(i)
    BY DEF FirstOf
  <2>2. \A i \in 1..Len(frames) : LastOf(i)' <=> LastOf(i)
    BY DEF LastOf
  <2>3. \A c \in peers' : (\A i \in 1..Len(frames) : frames[i].conn # c) => received[c] = written[c]
    BY <1>1, <1>5 DEF Filled
  <2>4. \A i \in 1..Len(frames) : FirstOf(i) /\ frames[i].conn \in peers' => from[i] = received[frames[i].conn]
    BY <1>1, <1>6 DEF Filled
  <2>5. QED
    BY <1>1, <2>1, <2>2, <2>3, <2>4 DEF Filled
<1>8. QED
  BY <1>2, <1>4, <1>7 DEF OutputOK

LEMMA OutputWrite ==
    ASSUME TypeOK, ChunksOK, FdOK, OutputOK, WriteRecord \/ WriteEnd
    PROVE  OutputOK'
<1>1. out # Nothing /\ \E size \in Nat \ {0}, kill \in BOOLEAN : size <= room /\ secureWrite(size, kill)
  BY WriteSizes
<1>2. PICK size \in Nat \ {0}, kill \in BOOLEAN : size <= room /\ secureWrite(size, kill)
  BY <1>1
<1>3. PICK home, at, from : Placed(home, at) /\ Filled(home, at, from)
  BY DEF OutputOK
<1>4. PICK home2, at2 : Placed(home2, at2)' /\ Joins(home, at, home2, at2)
  BY <1>1, <1>2, <1>3, PlaceWritten
<1>5. PICK n \in Nat : n = Len(frames)
  BY Reading
<1> DEFINE c == out.conn
<1>6. c \in Connection /\ c <= made /\ written[c] \in Nat
  BY <1>1, OutTypes DEF TypeOK, FdOK, QueueOK
<1>7. /\ Len(frames') = n + 1 /\ \A i \in 1..n : frames'[i] = frames[i]
      /\ frames'[n + 1] = NewFrame(size, kill)
      /\ \A i \in 1..Len(chunks) : i # write => chunks'[i] = chunks[i]
      /\ chunks'[write].spans = Append(chunks[write].spans, Span(size))
  BY <1>1, <1>2, <1>5, Writes
<1>8. frames'[n + 1].conn = c /\ frames'[n + 1].size = size
  BY <1>7 DEF NewFrame
<1>9. UNCHANGED <<conn, requests, peers, made, received, garbled>> /\ written' = [written EXCEPT ![c] = @ + size]
  BY <1>2 DEF WriteRecord, WriteEnd, fdVars, arrivals, secureWrite
<1>10. written'[c] = written[c] + size /\ \A other \in Connection : other # c => written'[other] = written[other]
  BY <1>6, <1>9 DEF TypeOK
<1> HIDE DEF c
<1>11. PICK from2 \in [1..(n + 1) -> Nat] : \A i \in 1..(n + 1) : from2[i] = IF i = n + 1 THEN written[c] ELSE from[i]
  <2>1. [i \in 1..(n + 1) |-> IF i = n + 1 THEN written[c] ELSE from[i]] \in [1..(n + 1) -> Nat]
    <3>1. ASSUME NEW i \in 1..(n + 1), i # n + 1 PROVE from[i] \in Nat
      <4>1. i \in 1..n
        BY <3>1
      <4>2. QED
        BY <1>3, <1>5, <4>1 DEF Filled
    <3>2. QED
      BY <1>6, <3>1
  <2>2. QED
    BY <2>1
<1>12. /\ n + 1 \in 1..(n + 1) /\ \A i \in 1..(n + 1) : i \in 1..n \/ i = n + 1
       /\ \A i \in 1..n : i \in 1..(n + 1) /\ i # n + 1 /\ i < n + 1
  BY <1>5
<1>13. /\ \A i \in 1..n : from2[i] = from[i] /\ home2[i] = home[i] /\ at2[i] = at[i]
       /\ from2[n + 1] = written[c] /\ home2[n + 1] = write /\ at2[n + 1] = chunks[write].end
  BY <1>4, <1>5, <1>11, <1>12 DEF Joins
<1>14. \A i \in 1..n : /\ from[i] \in Nat /\ home[i] \in 1..Len(chunks) /\ chunks[home[i]].spans \in Seq(SpanSet)
                       /\ frames[i].conn \in Connection /\ frames[i].size \in Nat
  BY <1>3, <1>5, FilledTypes
<1>15. chunks[write].spans \in Seq(SpanSet) /\ Span(size) \in SpanSet
  <2>1. write \in 1..Len(chunks)
    BY DEF TypeOK
  <2>2. chunks[write].end \in Nat /\ chunks[write].spans \in Seq(SpanSet)
    BY <2>1, Reading
  <2>3. QED
    BY <1>6, <2>2 DEF Span, SpanSet, c
<1>16. ASSUME NEW i \in 1..(n + 1)
       PROVE  Holds(chunks'[home2[i]].spans, at2[i], frames'[i].size, frames'[i].conn, from2[i])
  <2>1. CASE i = n + 1
    <3>1. chunks[write].end \in Nat
      BY Reading DEF TypeOK
    <3>2. Inside(Span(size), chunks[write].end, size, c, written[c])
      BY <1>6, <3>1 DEF Inside, Span, c
    <3>3. Holds(chunks'[write].spans, chunks[write].end, size, c, written[c])
      BY <1>7, <1>15, <3>2, HoldsMore
    <3>4. QED
      BY <1>8, <1>13, <2>1, <3>3
  <2>2. CASE i \in 1..n
    <3>1. Holds(chunks[home[i]].spans, at[i], frames[i].size, frames[i].conn, from[i])
      BY <1>3, <1>5, <2>2 DEF Filled
    <3>2. Holds(chunks'[home[i]].spans, at[i], frames[i].size, frames[i].conn, from[i])
      <4>1. CASE home[i] = write
        BY <1>7, <1>15, <3>1, <4>1, HoldsMore
      <4>2. CASE home[i] # write
        BY <1>7, <1>14, <2>2, <3>1, <4>2
      <4>3. QED
        BY <4>1, <4>2
    <3>3. QED
      BY <1>7, <1>13, <2>2, <3>2
  <2>3. QED
    BY <1>12, <2>1, <2>2
<1>17. /\ n # 0 => LastOf(n)
       /\ \A i \in 1..n : LastOf(i) => from[i] + frames[i].size = written[frames[i].conn]
       /\ \A i \in 1..n : FirstOf(i) /\ frames[i].conn \in peers => from[i] = received[frames[i].conn]
       /\ \A i \in 1..(n - 1) : frames[i + 1].conn = frames[i].conn => from[i + 1] = from[i] + frames[i].size
       /\ \A b \in peers : (\A i \in 1..n : frames[i].conn # b) => received[b] = written[b]
       /\ \A i, j \in 1..n : i < j /\ frames[i].conn = c => frames[j].conn = c
  BY <1>3, <1>5 DEF Filled, LastOf, FdOK, QueueOK, c
<1>18. ASSUME NEW i \in 1..n, frames'[i + 1].conn = frames'[i].conn PROVE from2[i + 1] = from2[i] + frames'[i].size
  <2>1. CASE i = n
    <3>1. frames[n].conn = c /\ n # 0 /\ n \in 1..n
      BY <1>7, <1>8, <1>18, <2>1
    <3>2. from[n] + frames[n].size = written[c]
      BY <1>17, <3>1
    <3>3. QED
      BY <1>7, <1>13, <2>1, <3>1, <3>2
  <2>2. CASE i # n
    <3>1. i \in 1..(n - 1) /\ i + 1 \in 1..n
      BY <1>5, <2>2
    <3>2. from[i + 1] = from[i] + frames[i].size
      BY <1>7, <1>17, <1>18, <3>1
    <3>3. QED
      BY <1>7, <1>13, <3>1, <3>2
  <2>3. QED
    BY <2>1, <2>2
<1>19. ASSUME NEW i \in 1..(n + 1), FirstOf(i)', frames'[i].conn \in peers PROVE from2[i] = received[frames'[i].conn]
  <2>1. CASE i = n + 1
    <3>1. n # 0 => frames[n].conn # c
      <4>1. n # 0 => n \in 1..n /\ (n + 1) - 1 = n /\ n + 1 # 1
        BY <1>5
      <4>2. QED
        BY <1>7, <1>8, <1>19, <2>1, <4>1 DEF FirstOf
    <3>2. ASSUME NEW j \in 1..n PROVE frames[j].conn # c
      <4>1. n # 0 /\ n \in 1..n /\ (j = n \/ j < n)
        BY <1>5
      <4>2. QED
        BY <1>17, <3>1, <4>1
    <3>3. received[c] = written[c]
      BY <1>8, <1>17, <1>19, <2>1, <3>2
    <3>4. QED
      BY <1>8, <1>13, <2>1, <3>3
  <2>2. CASE i \in 1..n
    <3>1. i # 1 => i - 1 \in 1..n
      BY <1>5, <2>2
    <3>2. FirstOf(i)
      BY <1>7, <1>19, <2>2, <3>1 DEF FirstOf
    <3>3. QED
      BY <1>7, <1>13, <1>17, <1>19, <2>2, <3>2
  <2>3. QED
    BY <1>12, <2>1, <2>2
<1>20. ASSUME NEW i \in 1..(n + 1), LastOf(i)' PROVE from2[i] + frames'[i].size = written'[frames'[i].conn]
  <2>1. CASE i = n + 1
    BY <1>8, <1>10, <1>13, <2>1
  <2>2. CASE i \in 1..n
    <3>1. i # n + 1 /\ i + 1 \in 1..(n + 1) /\ n \in 1..n
      BY <1>12, <2>2
    <3>2. frames'[i + 1].conn # frames[i].conn
      BY <1>7, <1>20, <2>2, <3>1 DEF LastOf
    <3>3. LastOf(i) /\ frames[i].conn # c
      <4>1. CASE i = n
        BY <1>5, <1>8, <3>2, <4>1 DEF LastOf
      <4>2. CASE i # n
        <5>1. i + 1 \in 1..n /\ i < i + 1
          BY <1>5, <2>2, <4>2
        <5>2. frames[i + 1].conn # frames[i].conn
          BY <1>7, <3>2, <5>1
        <5>3. QED
          BY <1>17, <2>2, <5>1, <5>2 DEF LastOf
      <4>3. QED
        BY <4>1, <4>2
    <3>4. QED
      BY <1>7, <1>10, <1>13, <1>14, <1>17, <2>2, <3>3, SMTT(30)
  <2>3. QED
    BY <1>12, <2>1, <2>2
<1>21. ASSUME NEW b \in peers, \A i \in 1..(n + 1) : frames'[i].conn # b PROVE received[b] = written'[b]
  <2>1. b # c /\ b \in Connection
    BY <1>8, <1>12, <1>21, Domains DEF TypeOK
  <2>2. \A i \in 1..n : frames[i].conn # b
    BY <1>7, <1>12, <1>21
  <2>3. QED
    BY <1>10, <1>17, <2>1, <2>2
<1>22. Filled(home2, at2, from2)'
  <2>1. \A i \in 1..((n + 1) - 1) : i \in 1..n
    BY <1>5
  <2>2. QED
    BY <1>7, <1>9, <1>11, <1>16, <1>18, <1>19, <1>20, <1>21, <2>1 DEF Filled
<1>23. FreshOK'
  <2>1. made \in Nat /\ c \in Nat
    BY <1>6 DEF TypeOK, Connection
  <2>2. \A b \in Connection : b > made => b # c
    BY <1>6, <2>1
  <2>3. QED
    BY <1>9, <1>10, <2>2 DEF OutputOK, FreshOK
<1>24. QED
  BY <1>4, <1>9, <1>22, <1>23 DEF OutputOK

\* What transmit() does to the histories: the bytes it sends arrive at the
\* connection they were written for, or that has hung up.
Arrived(sent, first) ==
    /\ \A b \in Connection : b # frames[1].conn => received'[b] = received[b]
    /\ frames[1].conn \in peers => received'[frames[1].conn] = first + sent
    /\ UNCHANGED <<written, peers, made>>

LEMMA OutputDropped ==
    ASSUME TypeOK, ChunksOK, FdOK, frames # <<>>, freeRead(frames[1].size),
           NEW home, NEW at, NEW from, Placed(home, at), Filled(home, at, from), Arrived(frames[1].size, from[1])
    PROVE  \E home2, at2, from2 : Placed(home2, at2)' /\ Filled(home2, at2, from2)'
<1>1. PICK home2, at2 : Placed(home2, at2)' /\ FollowOn(home, at, home2, at2)
  BY PlaceDropped
<1>2. PICK n \in Nat \ {0} : n = Len(frames)
  BY Reading
<1>3. Drops
  <2>1. frames[1].size \in Nat /\ frames[1].size <= frames[1].size
    BY FirstPlaced
  <2>2. QED
    BY <2>1, FramesRead
<1>4. PICK m \in Nat : m = Len(frames') /\ m = n - 1
  BY <1>2, <1>3, SMTT(30) DEF Drops
<1>5. \A i \in 1..m : i + 1 \in 1..n /\ 1 < i + 1 /\ frames'[i] = frames[i + 1] /\ at2[i] = at[i + 1] /\ chunks'[home2[i]] = chunks[home[i + 1]]
  BY <1>1, <1>2, <1>3, <1>4 DEF Drops, FollowOn
<1> DEFINE c == frames[1].conn
<1>6. /\ \A b \in Connection : b # c => received'[b] = received[b]
      /\ c \in peers => received'[c] = from[1] + frames[1].size
      /\ written' = written /\ peers' = peers /\ peers \subseteq Connection
  BY Domains DEF Arrived, TypeOK
<1>7. /\ \A i \in 1..n : from[i] \in Nat /\ frames[i].conn \in Connection
      /\ \A i \in 1..n : Holds(chunks[home[i]].spans, at[i], frames[i].size, frames[i].conn, from[i])
      /\ \A i \in 1..(n - 1) : frames[i + 1].conn = frames[i].conn => from[i + 1] = from[i] + frames[i].size
      /\ \A i \in 1..n : FirstOf(i) /\ frames[i].conn \in peers => from[i] = received[frames[i].conn]
      /\ \A i \in 1..n : LastOf(i) => from[i] + frames[i].size = written[frames[i].conn]
      /\ \A b \in peers : (\A i \in 1..n : frames[i].conn # b) => received[b] = written[b]
  BY <1>2, FilledTypes DEF Filled
<1>8. \A i, j, l \in 1..n : i < j /\ j < l /\ frames[i].conn = frames[l].conn => frames[j].conn = frames[i].conn
  BY <1>2 DEF FdOK, QueueOK
<1> HIDE DEF c
<1>9. 1 \in 1..n /\ frames[1].conn = c
  BY <1>2 DEF c
<1>10. PICK from2 \in [1..m -> Nat] : \A i \in 1..m : from2[i] = from[i + 1]
  <2>1. [i \in 1..m |-> from[i + 1]] \in [1..m -> Nat]
    BY <1>5, <1>7
  <2>2. QED
    BY <2>1
<1>11. ASSUME NEW i \in 1..m PROVE Holds(chunks'[home2[i]].spans, at2[i], frames'[i].size, frames'[i].conn, from2[i])
  BY <1>5, <1>7, <1>10
<1>12. ASSUME NEW i \in 1..(m - 1), frames'[i + 1].conn = frames'[i].conn PROVE from2[i + 1] = from2[i] + frames'[i].size
  <2>1. i \in 1..m /\ i + 1 \in 1..m /\ i + 1 \in 1..(n - 1)
    BY <1>4
  <2>2. from[(i + 1) + 1] = from[i + 1] + frames[i + 1].size
    BY <1>5, <1>7, <1>12, <2>1
  <2>3. QED
    BY <1>5, <1>10, <2>1, <2>2
<1>13. ASSUME NEW i \in 1..m, FirstOf(i)', frames'[i].conn \in peers PROVE from2[i] = received'[frames'[i].conn]
  <2>1. i + 1 \in 1..n /\ frames'[i] = frames[i + 1] /\ from2[i] = from[i + 1] /\ frames[i + 1].conn \in Connection
    BY <1>5, <1>7, <1>10
  <2>2. CASE i = 1 /\ frames[2].conn = c
    <3>1. 1 \in 1..(n - 1) /\ 1 + 1 = 2
      BY <1>2, <1>4, <2>2
    <3>2. from[2] = from[1] + frames[1].size
      BY <1>7, <1>9, <2>2, <3>1
    <3>3. QED
      BY <1>6, <1>13, <2>1, <2>2, <3>2
  <2>3. CASE i = 1 /\ frames[2].conn # c
    <3>1. (i + 1) - 1 = 1
      BY <2>3
    <3>2. FirstOf(i + 1)
      BY <1>9, <2>3, <3>1 DEF FirstOf
    <3>3. from[i + 1] = received[frames[i + 1].conn]
      BY <1>7, <1>13, <2>1, <3>2
    <3>4. QED
      BY <1>6, <2>1, <2>3, <3>3
  <2>4. CASE i # 1
    <3>1. i - 1 \in 1..m /\ (i - 1) + 1 = i /\ (i + 1) - 1 = i /\ i \in 1..n /\ 1 < i /\ i < i + 1
      BY <1>4, <2>4
    <3>2. frames'[i - 1] = frames[i]
      BY <1>5, <3>1
    <3>3. frames[i].conn # frames[i + 1].conn
      BY <1>13, <2>1, <2>4, <3>2 DEF FirstOf
    <3>4. FirstOf(i + 1)
      BY <3>1, <3>3 DEF FirstOf
    <3>5. from[i + 1] = received[frames[i + 1].conn]
      BY <1>7, <1>13, <2>1, <3>4
    <3>6. frames[i + 1].conn # c
      BY <1>8, <1>9, <2>1, <3>1, <3>3
    <3>7. QED
      BY <1>6, <2>1, <3>5, <3>6
  <2>5. QED
    BY <2>2, <2>3, <2>4
<1>14. ASSUME NEW i \in 1..m, LastOf(i)' PROVE from2[i] + frames'[i].size = written[frames'[i].conn]
  <2>1. LastOf(i + 1)
    <3>1. CASE i = m
      BY <1>2, <1>4, <3>1 DEF LastOf
    <3>2. CASE i # m
      <4>1. i + 1 \in 1..m
        BY <1>4, <3>2
      <4>2. frames'[i + 1].conn # frames'[i].conn
        BY <1>4, <1>14, <3>2 DEF LastOf
      <4>3. QED
        BY <1>5, <4>1, <4>2 DEF LastOf
    <3>3. QED
      BY <3>1, <3>2
  <2>2. QED
    BY <1>5, <1>7, <1>10, <2>1
<1>15. ASSUME NEW b \in peers, \A i \in 1..m : frames'[i].conn # b PROVE received'[b] = written[b]
  <2>1. CASE b = c
    <3>1. LastOf(1)
      <4>1. CASE n = 1
        BY <1>2, <4>1 DEF LastOf
      <4>2. CASE n # 1
        <5>1. 1 \in 1..m /\ 1 + 1 = 2
          BY <1>4, <4>2
        <5>2. frames[2].conn # c
          BY <1>5, <1>15, <2>1, <5>1
        <5>3. QED
          BY <1>9, <5>1, <5>2 DEF LastOf
      <4>3. QED
        BY <4>1, <4>2
    <3>2. from[1] + frames[1].size = written[c]
      BY <1>7, <1>9, <3>1
    <3>3. QED
      BY <1>6, <2>1, <3>2
  <2>2. CASE b # c
    <3>1. ASSUME NEW i \in 1..n PROVE frames[i].conn # b
      <4>1. CASE i = 1
        BY <1>9, <2>2, <4>1
      <4>2. CASE i # 1
        <5>1. i - 1 \in 1..m /\ (i - 1) + 1 = i
          BY <1>4, <4>2
        <5>2. QED
          BY <1>5, <1>15, <5>1
      <4>3. QED
        BY <4>1, <4>2
    <3>2. received[b] = written[b]
      BY <1>7, <3>1
    <3>3. QED
      BY <1>6, <2>2, <3>2
  <2>3. QED
    BY <2>1, <2>2
<1>16. Filled(home2, at2, from2)'
  BY <1>4, <1>6, <1>10, <1>11, <1>12, <1>13, <1>14, <1>15 DEF Filled
<1>17. QED
  BY <1>1, <1>16

LEMMA OutputShrunk ==
    ASSUME TypeOK, ChunksOK, FdOK, frames # <<>>, NEW sent \in Nat, sent < frames[1].size, freeRead(sent),
           NEW home, NEW at, NEW from, Placed(home, at), Filled(home, at, from), Arrived(sent, from[1])
    PROVE  \E home2, at2, from2 : Placed(home2, at2)' /\ Filled(home2, at2, from2)'
<1>1. PICK home2, at2 : Placed(home2, at2)' /\ BeginsLater(sent, home, at, home2, at2)
  BY PlaceShrunk
<1>2. PICK n \in Nat \ {0} : n = Len(frames)
  BY Reading
<1>3. Shrinks(sent) /\ frames[1].size \in Nat
  <2>1. frames[1].size \in Nat /\ sent <= frames[1].size
    BY FirstPlaced
  <2>2. QED
    BY <2>1, FramesRead
<1>4. /\ Len(frames') = n
      /\ frames'[1].size = frames[1].size - sent /\ \A i \in 1..n : i # 1 => frames'[i] = frames[i]
      /\ \A i \in 1..n : frames'[i].conn = frames[i].conn
      /\ at2[1] = at[1] + sent /\ chunks'[home2[1]] = chunks[home[1]]
      /\ \A i \in 1..n : i # 1 => at2[i] = at[i] /\ chunks'[home2[i]] = chunks[home[i]]
  BY <1>1, <1>2, <1>3 DEF Shrinks, BeginsLater
<1> DEFINE c == frames[1].conn
<1>5. /\ \A b \in Connection : b # c => received'[b] = received[b]
      /\ c \in peers => received'[c] = from[1] + sent
      /\ written' = written /\ peers' = peers /\ peers \subseteq Connection
  BY Domains DEF Arrived, TypeOK
<1>6. /\ \A i \in 1..n : /\ from[i] \in Nat /\ at[i] \in Nat /\ frames[i].conn \in Connection /\ frames[i].size \in Nat
                         /\ chunks[home[i]].spans \in Seq(SpanSet)
      /\ \A i \in 1..n : Holds(chunks[home[i]].spans, at[i], frames[i].size, frames[i].conn, from[i])
      /\ \A i \in 1..(n - 1) : frames[i + 1].conn = frames[i].conn => from[i + 1] = from[i] + frames[i].size
      /\ \A i \in 1..n : FirstOf(i) /\ frames[i].conn \in peers => from[i] = received[frames[i].conn]
      /\ \A i \in 1..n : LastOf(i) => from[i] + frames[i].size = written[frames[i].conn]
      /\ \A b \in peers : (\A i \in 1..n : frames[i].conn # b) => received[b] = written[b]
  BY <1>2, FilledTypes DEF Filled
<1>7. \A i, j, l \in 1..n : i < j /\ j < l /\ frames[i].conn = frames[l].conn => frames[j].conn = frames[i].conn
  BY <1>2 DEF FdOK, QueueOK
<1> HIDE DEF c
<1>8. 1 \in 1..n /\ frames[1].conn = c
  BY <1>2 DEF c
<1>9. PICK from2 \in [1..n -> Nat] : \A i \in 1..n : from2[i] = IF i = 1 THEN from[1] + sent ELSE from[i]
  <2>1. [i \in 1..n |-> IF i = 1 THEN from[1] + sent ELSE from[i]] \in [1..n -> Nat]
    BY <1>6, <1>8
  <2>2. QED
    BY <2>1
<1>10. from2[1] = from[1] + sent /\ \A i \in 1..n : i # 1 => from2[i] = from[i]
  BY <1>8, <1>9
<1>11. from2[1] + frames'[1].size = from[1] + frames[1].size
  <2>1. from[1] \in Nat
    BY <1>6, <1>8
  <2>2. QED
    BY <1>3, <1>4, <1>10, <2>1
<1>12. \A i \in 1..n : from2[i] + frames'[i].size = from[i] + frames[i].size
  BY <1>4, <1>10, <1>11
<1>13. ASSUME NEW i \in 1..n PROVE Holds(chunks'[home2[i]].spans, at2[i], frames'[i].size, frames'[i].conn, from2[i])
  <2>1. CASE i = 1
    <3>1. Holds(chunks[home[1]].spans, at[1] + sent, frames[1].size - sent, frames[1].conn, from[1] + sent)
      <4>1. /\ chunks[home[1]].spans \in Seq(SpanSet) /\ at[1] \in Nat /\ from[1] \in Nat /\ frames[1].size \in Nat
            /\ Holds(chunks[home[1]].spans, at[1], frames[1].size, frames[1].conn, from[1])
        BY <1>6, <1>8
      <4>2. sent <= frames[1].size
        BY <1>3
      <4>3. QED
        BY <4>1, <4>2, HoldsLess
    <3>2. QED
      BY <1>4, <1>10, <2>1, <3>1
  <2>2. CASE i # 1
    BY <1>4, <1>6, <1>10, <2>2
  <2>3. QED
    BY <2>1, <2>2
<1>14. ASSUME NEW i \in 1..(n - 1), frames'[i + 1].conn = frames'[i].conn PROVE from2[i + 1] = from2[i] + frames'[i].size
  <2>1. i \in 1..n /\ i + 1 \in 1..n /\ i + 1 # 1
    BY <1>2
  <2>2. from[i + 1] = from[i] + frames[i].size
    BY <1>4, <1>6, <1>14, <2>1
  <2>3. QED
    BY <1>10, <1>12, <2>1, <2>2
<1>15. \A i \in 1..n : i # 1 => i - 1 \in 1..n /\ i - 1 < i /\ (i - 1 = 1 \/ 1 < i - 1)
  BY <1>2
<1>16. ASSUME NEW i \in 1..n, FirstOf(i)', frames'[i].conn \in peers PROVE from2[i] = received'[frames'[i].conn]
  <2>1. CASE i = 1
    BY <1>4, <1>5, <1>8, <1>10, <1>16, <2>1
  <2>2. CASE i # 1
    <3>1. i - 1 \in 1..n /\ i - 1 < i /\ (i - 1 = 1 \/ 1 < i - 1)
      BY <1>15, <2>2
    <3>2. frames[i - 1].conn # frames[i].conn
      BY <1>4, <1>16, <2>2, <3>1 DEF FirstOf
    <3>3. from[i] = received[frames[i].conn]
      BY <1>4, <1>6, <1>16, <3>2 DEF FirstOf
    <3>4. frames[i].conn # c
      BY <1>7, <1>8, <3>1, <3>2
    <3>5. QED
      BY <1>4, <1>5, <1>6, <1>10, <2>2, <3>3, <3>4
  <2>3. QED
    BY <2>1, <2>2
<1>17. ASSUME NEW i \in 1..n, LastOf(i)' PROVE from2[i] + frames'[i].size = written[frames'[i].conn]
  <2>1. i # n => i + 1 \in 1..n
    BY <1>2
  <2>2. LastOf(i)
    BY <1>2, <1>4, <1>17, <2>1 DEF LastOf
  <2>3. QED
    BY <1>4, <1>6, <1>12, <2>2
<1>18. ASSUME NEW b \in peers, \A i \in 1..n : frames'[i].conn # b PROVE received'[b] = written[b]
  <2>1. b # c /\ \A i \in 1..n : frames[i].conn # b
    BY <1>4, <1>8, <1>18
  <2>2. received[b] = written[b]
    BY <1>6, <2>1
  <2>3. QED
    BY <1>5, <2>1, <2>2
<1>19. Filled(home2, at2, from2)'
  BY <1>4, <1>5, <1>9, <1>13, <1>14, <1>16, <1>17, <1>18 DEF Filled
<1>20. QED
  BY <1>1, <1>19

LEMMA OutputRead ==
    ASSUME TypeOK, ChunksOK, FdOK, frames # <<>>, NEW sent \in Nat, sent <= Frame.size, freeRead(sent),
           OutputOK, NEW home, NEW at, NEW from, Placed(home, at), Filled(home, at, from), Arrived(sent, from[1]), ~garbled'
    PROVE  OutputOK'
<1>1. Frame = frames[1] /\ Frame.size \in Nat
  BY SentSizes
<1>2. \E home2, at2, from2 : Placed(home2, at2)' /\ Filled(home2, at2, from2)'
  <2>1. CASE sent = frames[1].size
    BY <2>1, OutputDropped
  <2>2. CASE sent # frames[1].size
    <3>1. sent < frames[1].size
      BY <1>1, <2>2
    <3>2. QED
      BY <3>1, OutputShrunk
  <2>3. QED
    BY <2>1, <2>2
<1>3. FreshOK'
  <2>1. frames[1].conn <= made /\ frames[1].conn \in Nat /\ made \in Nat
    <3>1. 1 \in 1..Len(frames)
      BY Reading
    <3>2. QED
      BY <3>1, Reading DEF FdOK, QueueOK, Connection, TypeOK
  <2>2. \A b \in Connection : b > made => b # frames[1].conn
    BY <2>1
  <2>3. QED
    BY <2>2 DEF OutputOK, FreshOK, Arrived
<1>4. QED
  BY <1>2, <1>3 DEF OutputOK

\* What is written to a descriptor that takes it arrives where it belongs.
LEMMA ArrivesInPlace ==
    ASSUME TypeOK, FdOK, ~garbled, frames # <<>>, pc = "transmit", Writable,
           NEW sent \in Nat, sent <= Frame.size, Arrives(sent), UNCHANGED <<written, peers, made>>,
           NEW home, NEW at, NEW from, Placed(home, at), Filled(home, at, from)
    PROVE  ~garbled' /\ Arrived(sent, from[1])
<1> DEFINE c == frames[1].conn
<1>1. Frame = frames[1] /\ Frame.size \in Nat /\ Frame.fd \in Fd /\ 1 \in 1..Len(frames) /\ c \in Connection
  BY SentSizes, Reading
<1>2. conn[Frame.fd] = c /\ c \in peers
  <2>1. conn[Frame.fd] \in peers /\ conn[Frame.fd] # Closed
    BY Domains DEF Writable, TypeOK
  <2>2. ~Stale(1)
    BY <1>1, <2>1 DEF FdOK, LateOK, Gone
  <2>3. QED
    BY <1>1, <2>1, <2>2 DEF Stale
<1>3. home[1] = 1 /\ at[1] = pRead /\ pRead \in Nat /\ from[1] \in Nat /\ chunks[1].spans \in Seq(SpanSet)
  <2>1. home[1] = 1 /\ at[1] = pRead /\ pRead \in Nat
    BY FirstPlaced
  <2>2. QED
    BY <1>1, <2>1, FilledTypes
<1>4. from[1] = received[c]
  BY <1>1, <1>2 DEF Filled, FirstOf
<1>5. Holds(chunks[1].spans, pRead, sent, c, received[c])
  <2>1. Holds(chunks[1].spans, pRead, frames[1].size, c, from[1])
    BY <1>1, <1>3 DEF Filled
  <2>2. QED
    BY <1>1, <1>3, <1>4, <2>1, HoldsLess
<1>6. Head(chunks) = chunks[1]
  <2>1. chunks # <<>> /\ chunks \in Seq(ChunkSet)
    BY EmptySeq DEF TypeOK
  <2>2. QED
    BY <2>1, TailOf
<1>7. ~garbled'
  <2>1. \E i \in DOMAIN chunks[1].spans :
          /\ chunks[1].spans[i].at <= pRead /\ pRead + sent <= chunks[1].spans[i].at + chunks[1].spans[i].len
          /\ chunks[1].spans[i].conn = c /\ chunks[1].spans[i].from + (pRead - chunks[1].spans[i].at) = received[c]
    BY <1>5 DEF Holds, Inside
  <2>2. \E i \in DOMAIN Head(chunks).spans :
          /\ Head(chunks).spans[i].at <= pRead /\ pRead + sent <= Head(chunks).spans[i].at + Head(chunks).spans[i].len
          /\ Head(chunks).spans[i].conn = conn[Frame.fd]
          /\ Head(chunks).spans[i].from + (pRead - Head(chunks).spans[i].at) = received[conn[Frame.fd]]
    BY <1>2, <1>6, <2>1
  <2>3. QED
    BY <2>2, Zenon DEF Arrives
<1>8. received' = [received EXCEPT ![c] = @ + sent]
  BY <1>2 DEF Arrives
<1>9. Arrived(sent, from[1])
  BY <1>1, <1>4, <1>8 DEF Arrived, TypeOK
<1>10. QED
  BY <1>7, <1>9

LEMMA OutputSend ==
    ASSUME TypeOK, ChunksOK, FdOK, OutputOK, SendAll \/ SendPart \/ SendFails
    PROVE  OutputOK'
<1>1. frames # <<>> /\ pc = "transmit" /\ UNCHANGED <<written, peers, made>>
  BY DEF SendAll, SendPart, SendFails
<1>2. PICK home, at, from : Placed(home, at) /\ Filled(home, at, from)
  BY DEF OutputOK
<1>3. /\ Frame = frames[1] /\ Frame.size \in Nat /\ Frame.size <= Frame.size
      /\ \A sent \in Short(Frame.size) : sent \in Nat /\ sent <= Frame.size
  BY <1>1, SentSizes
<1>4. ~garbled
  BY DEF OutputOK
<1>5. ASSUME NEW sent \in Nat, sent <= Frame.size, freeRead(sent), Writable, Arrives(sent) PROVE OutputOK'
  <2>1. ~garbled' /\ Arrived(sent, from[1])
    BY <1>1, <1>2, <1>4, <1>5, ArrivesInPlace
  <2>2. QED
    BY <1>1, <1>2, <1>5, <2>1, OutputRead
<1>6. CASE SendAll
  BY <1>3, <1>5, <1>6 DEF SendAll
<1>7. CASE SendPart
  BY <1>3, <1>5, <1>7 DEF SendPart
<1>8. CASE SendFails
  <2>1. freeRead(Frame.size) /\ received' = received /\ garbled' = garbled /\ conn[frames[1].fd] \notin peers
    BY <1>3, <1>8 DEF SendFails, arrivals, Writable
  <2>2. frames[1].conn \notin peers
    <3>1. 1 \in 1..Len(frames)
      BY <1>1, Reading
    <3>2. Stale(1) => frames[1].conn \notin peers
      BY <3>1 DEF FdOK, LateOK, Gone
    <3>3. QED
      BY <2>1, <3>2 DEF Stale
  <2>3. Arrived(Frame.size, from[1])
    BY <1>1, <2>1, <2>2 DEF Arrived
  <2>4. QED
    BY <1>1, <1>2, <1>3, <1>4, <2>1, <2>3, OutputRead
<1>9. QED
  BY <1>6, <1>7, <1>8

LEMMA OutputStep ==
    ASSUME TypeOK, ChunksOK, FdOK, OutputOK, [Next]_vars
    PROVE  OutputOK'
<1>1. CASE WriteRecord \/ WriteEnd
  BY <1>1, OutputWrite
<1>2. CASE SendAll \/ SendPart \/ SendFails
  BY <1>2, OutputSend
<1>3. CASE Accept
  <2>1. UNCHANGED <<chunks, write, pRead, frames, written, received, garbled>>
    BY <1>3 DEF Accept, bufferVars, arrivals
  <2>2. made < MaxConnections /\ peers' = peers \cup {made + 1} /\ made' = made + 1
    BY <1>3 DEF Accept
  <2>3. QED
    BY <2>1, <2>2, OutputSame
<1>4. CASE Begin \/ Respond \/ SendNothing \/ Transmit \/ Forget \/ PeerHangsUp \/ UNCHANGED vars
  <2>1. UNCHANGED <<chunks, write, pRead, frames, written, received, garbled>>
    BY <1>4 DEF Begin, Respond, SendNothing, Transmit, Forget, PeerHangsUp, vars, bufferVars, arrivals
  <2>2. peers' \subseteq peers /\ made' = made
    BY <1>4 DEF Begin, Respond, SendNothing, Transmit, Forget, PeerHangsUp, vars
  <2>3. QED
    BY <2>1, <2>2, OutputSame
<1>5. QED
  BY <1>1, <1>2, <1>3, <1>4 DEF Next, Thread, Send

\* The places of the frames and of what they hold are kept by every step.
THEOREM OutputInductive == ASSUME OneRequest PROVE Spec => []OutputOK
<1>1. Init => OutputOK
  BY OutputInit
<1>2. TypeOK /\ BufferOK /\ FdOK /\ OutputOK /\ [Next]_vars => OutputOK'
  BY OutputStep DEF BufferOK
<1>3. QED
  BY <1>1, <1>2, BufferInductive, DescriptorsInductive, PTL DEF Spec

\* What arrives on a connection is what was written for it and in order, if
\* the web server has one request at a time there: descriptors may be used
\* again and chunks too, writes cut short and web servers hang up at any moment.
THEOREM OutputIsOwn == ASSUME OneRequest PROVE Spec => []OwnOutput
<1>1. OutputOK => OwnOutput
  BY DEF OutputOK, OwnOutput
<1>2. QED
  BY <1>1, OutputInductive, PTL

-----------------------------------------------------------------------------
(* The sum that NothingLost forms of the frames of a connection *)

LEMMA Least ==
    ASSUME NEW T, T \subseteq Nat, T # {}
    PROVE  \E i \in T : \A j \in T : i <= j
<1> DEFINE R == {pair \in Nat \X Nat : pair[1] < pair[2]}
<1>1. R = OpToRel(<, Nat)
  BY DEF OpToRel
<1>2. IsWellFoundedOn(R, Nat)
  BY <1>1, NatLessThanWellFounded
<1>3. PICK i \in T : \A j \in T : <<j, i>> \notin R
  BY <1>2, WFMin
<1>4. ASSUME NEW j \in T PROVE i <= j
  <2>1. i \in Nat /\ j \in Nat /\ <<j, i>> \in Nat \X Nat
    OBVIOUS
  <2>2. <<j, i>> \in R <=> j < i
    BY <2>1
  <2>3. QED
    BY <1>3, <2>1, <2>2
<1>5. QED
  BY <1>4

\* g adds up the first i of n numbers.
Sums(g, n, base, inc) == g = [i \in 0..n |-> IF i = 0 THEN base ELSE g[i - 1] + inc[i]]

LEMMA SumExists ==
    ASSUME NEW n \in Nat, NEW base, NEW inc
    PROVE  \E g : Sums(g, n, base, inc)
<1> USE DEF Sums
<1> DEFINE IsSum(g, m) == Sums(g, m, base, inc)
           Missing == {m \in Nat : ~\E g : IsSum(g, m)}
<1>1. SUFFICES Missing = {}
  <2>1. Missing = {} => \E g : IsSum(g, n)
    BY Zenon
  <2>2. QED
    BY <1>1, <2>1
<1>2. SUFFICES ASSUME Missing # {} PROVE FALSE
  OBVIOUS
<1>3. PICK m \in Missing : \A j \in Missing : m <= j
  BY <1>2, Least
<1>4. m \in Nat /\ ~\E g : IsSum(g, m)
  OBVIOUS
<1>5. m # 0
  <2>1. ASSUME m = 0 PROVE FALSE
    <3> DEFINE g == [i \in 0..m |-> base]
    <3>1. g = [i \in 0..m |-> IF i = 0 THEN base ELSE g[i - 1] + inc[i]]
      BY <2>1
    <3>2. QED
      BY <1>4, <3>1, Zenon
  <2>2. QED
    BY <2>1
<1> HIDE DEF Missing, IsSum
<1>6. m - 1 \in Nat /\ ~(m <= m - 1)
  BY <1>4, <1>5
<1>7. PICK g : IsSum(g, m - 1)
  <2>1. m - 1 \notin Missing
    BY <1>3, <1>6, Zenon
  <2>2. QED
    BY <1>6, <2>1, Zenon DEF Missing
<1> USE DEF IsSum
<1> DEFINE h == [i \in 0..m |-> IF i = m THEN g[m - 1] + inc[m] ELSE g[i]]
<1>8. ASSUME NEW i \in 0..m PROVE h[i] = IF i = 0 THEN base ELSE h[i - 1] + inc[i]
  <2>1. ASSUME NEW j \in 0..(m - 1) PROVE g[j] = IF j = 0 THEN base ELSE g[j - 1] + inc[j]
    <3> DEFINE f == [k \in 0..(m - 1) |-> IF k = 0 THEN base ELSE g[k - 1] + inc[k]]
    <3>1. f[j] = IF j = 0 THEN base ELSE g[j - 1] + inc[j]
      OBVIOUS
    <3>2. g = f
      BY <1>7, Zenon
    <3>3. QED
      BY <3>1, <3>2, Zenon
  <2>2. CASE i = m
    <3>1. i # 0 /\ i - 1 \in 0..m /\ i - 1 # m /\ i - 1 = m - 1
      BY <1>4, <1>5, <2>2
    <3>2. QED
      BY <2>2, <3>1
  <2>3. CASE i # m
    <3>1. i \in 0..(m - 1) /\ (i # 0 => i - 1 \in 0..m /\ i - 1 # m)
      BY <1>4, <2>3
    <3>2. g[i] = IF i = 0 THEN base ELSE g[i - 1] + inc[i]
      BY <2>1, <3>1
    <3>3. QED
      BY <2>3, <3>1, <3>2
  <2>4. QED
    BY <2>2, <2>3
<1>9. h = [i \in 0..m |-> h[i]]
  OBVIOUS
<1> HIDE DEF h
<1>10. IsSum(h, m)
  BY <1>8, <1>9
<1>11. QED
  BY <1>4, <1>10, Zenon

LEMMA ArrivingSum ==
    ASSUME TypeOK, NEW c \in Connection
    PROVE  LET arriving[i \in 0..Len(frames)] ==
                   IF i = 0 THEN received[c]
                   ELSE arriving[i - 1] + (IF frames[i].conn = c THEN frames[i].size ELSE 0)
           IN  arriving = [i \in 0..Len(frames) |->
                             IF i = 0 THEN received[c]
                             ELSE arriving[i - 1] + (IF frames[i].conn = c THEN frames[i].size ELSE 0)]
<1> DEFINE inc == [i \in 1..Len(frames) |-> IF frames[i].conn = c THEN frames[i].size ELSE 0]
           sum(g) == [i \in 0..Len(frames) |-> IF i = 0 THEN received[c] ELSE g[i - 1] + inc[i]]
           arrive(g) == [i \in 0..Len(frames) |->
                           IF i = 0 THEN received[c]
                           ELSE g[i - 1] + (IF frames[i].conn = c THEN frames[i].size ELSE 0)]
<1> HIDE DEF inc
<1>1. PICK g : g = sum(g)
  <2>1. Len(frames) \in Nat
    BY Reading
  <2>2. \E g : Sums(g, Len(frames), received[c], inc)
    BY <2>1, SumExists, Zenon
  <2>3. QED
    BY <2>2, Zenon DEF Sums
<1>2. sum(g) = arrive(g)
  <2>1. \A i \in 0..Len(frames) : i # 0 => i \in 1..Len(frames)
    BY Reading
  <2>2. QED
    BY <2>1 DEF inc
<1>3. g = arrive(g)
  BY <1>1, <1>2, Zenon
<1>4. QED
  BY <1>3, Zenon

\* What the frames hold for a connection adds up: the sum of the first i of
\* them is the end of the last that is its own.
LEMMA Whole == ASSUME TypeOK, FdOK, OutputOK PROVE NothingLost
<1> SUFFICES ASSUME NEW c \in peers
             PROVE  LET arriving[i \in 0..Len(frames)] ==
                            IF i = 0 THEN received[c]
                            ELSE arriving[i - 1] + (IF frames[i].conn = c THEN frames[i].size ELSE 0)
                    IN  written[c] = arriving[Len(frames)]
  BY DEF NothingLost
<1> DEFINE arriving[i \in 0..Len(frames)] ==
               IF i = 0 THEN received[c]
               ELSE arriving[i - 1] + (IF frames[i].conn = c THEN frames[i].size ELSE 0)
<1>1. c \in Connection /\ received[c] \in Nat /\ written[c] \in Nat
  <2>1. c \in Connection
    BY TransmitterAssumption DEF TypeOK, Connection
  <2>2. QED
    BY <2>1 DEF TypeOK
<1>2. PICK n \in Nat : n = Len(frames)
  BY Reading
<1>3. \A i \in 1..n : frames[i].size \in Nat
  BY <1>2, Reading
<1>4. PICK home, at, from : Placed(home, at) /\ Filled(home, at, from)
  BY DEF OutputOK
<1>5. arriving = [i \in 0..Len(frames) |->
                    IF i = 0 THEN received[c]
                    ELSE arriving[i - 1] + (IF frames[i].conn = c THEN frames[i].size ELSE 0)]
  BY <1>1, ArrivingSum
<1> HIDE DEF arriving
<1>6. \A i \in 1..n : from[i] \in Nat
  BY <1>2, <1>4 DEF Filled
<1>7. /\ arriving[0] = received[c]
      /\ \A i \in 1..n : arriving[i] = arriving[i - 1] + (IF frames[i].conn = c THEN frames[i].size ELSE 0)
  <2> DEFINE sum == [i \in 0..n |-> IF i = 0 THEN received[c]
                                    ELSE arriving[i - 1] + (IF frames[i].conn = c THEN frames[i].size ELSE 0)]
  <2>1. 0 \in 0..n /\ \A i \in 1..n : i \in 0..n /\ i # 0
    OBVIOUS
  <2>2. /\ sum[0] = received[c]
        /\ \A i \in 1..n : sum[i] = arriving[i - 1] + (IF frames[i].conn = c THEN frames[i].size ELSE 0)
    BY <2>1
  <2>3. arriving = sum
    BY <1>2, <1>5, Zenon
  <2>4. QED
    BY <2>2, <2>3, Zenon
<1> DEFINE Before(i) == arriving[i] = received[c] /\ \A l \in 1..i : frames[l].conn # c
           After(i, j) == /\ frames[j].conn = c /\ arriving[i] = from[j] + frames[j].size
                          /\ \A l \in 1..i : j < l => frames[l].conn # c
           Adds(i) == Before(i) \/ \E j \in 1..i : After(i, j)
           Wrong == {i \in 0..n : ~Adds(i)}
<1>8. Adds(0)
  BY <1>7
<1>9. ASSUME NEW i \in 1..n, Adds(i - 1) PROVE Adds(i)
  <2>1. /\ i \in Nat /\ i - 1 \in Nat /\ i - 1 < i /\ 1 <= i /\ i \in 1..i
        /\ \A l \in 1..(i - 1) : l \in 1..i /\ l \in 1..n /\ l < i
        /\ \A l \in 1..i : l = i \/ l \in 1..(i - 1)
    OBVIOUS
  <2>2. CASE frames[i].conn # c
    <3>1. arriving[i] = arriving[i - 1] + 0
      BY <1>7, <2>2
    <3>2. CASE Before(i - 1)
      <4>1. arriving[i] = received[c]
        BY <1>1, <3>1, <3>2
      <4>2. QED
        BY <2>1, <2>2, <3>2, <4>1
    <3>3. ASSUME NEW j \in 1..(i - 1), After(i - 1, j) PROVE Adds(i)
      <4>1. from[j] \in Nat /\ frames[j].size \in Nat /\ j \in 1..i
        BY <1>3, <1>6, <2>1
      <4>2. arriving[i] = from[j] + frames[j].size
        BY <3>1, <3>3, <4>1
      <4>3. After(i, j)
        BY <2>1, <2>2, <3>3, <4>2
      <4>4. QED
        BY <4>1, <4>3
    <3>4. QED
      BY <1>9, <3>2, <3>3
  <2>3. CASE frames[i].conn = c
    <3>1. arriving[i] = arriving[i - 1] + frames[i].size
      BY <1>7, <2>3
    <3>2. CASE Before(i - 1)
      <4>1. FirstOf(i)
        <5>1. i = 1 \/ i - 1 \in 1..(i - 1)
          BY <2>1
        <5>2. QED
          BY <2>3, <3>2, <5>1 DEF FirstOf
      <4>2. from[i] = received[c]
        BY <1>2, <1>4, <2>3, <4>1 DEF Filled
      <4>3. After(i, i)
        BY <2>1, <2>3, <3>1, <3>2, <4>2
      <4>4. QED
        BY <2>1, <4>3
    <3>3. ASSUME NEW j \in 1..(i - 1), After(i - 1, j) PROVE Adds(i)
      <4>1. j = i - 1
        <5>1. ASSUME j # i - 1 PROVE FALSE
          <6>1. j < i - 1 /\ i - 1 \in 1..(i - 1) /\ i - 1 \in 1..n /\ j \in 1..n
            BY <2>1, <5>1
          <6>2. frames[i - 1].conn = c
            BY <1>2, <2>1, <2>3, <3>3, <6>1 DEF FdOK, QueueOK
          <6>3. QED
            BY <3>3, <6>1, <6>2
        <5>2. QED
          BY <5>1
      <4>2. j \in 1..(n - 1) /\ j + 1 = i /\ frames[j].conn = c
        BY <2>1, <3>3, <4>1
      <4>3. from[i] = from[j] + frames[j].size
        BY <1>2, <1>4, <2>3, <4>2 DEF Filled
      <4>4. arriving[i] = from[i] + frames[i].size
        BY <3>1, <3>3, <4>3
      <4>5. After(i, i)
        BY <2>1, <2>3, <4>4
      <4>6. QED
        BY <2>1, <4>5
    <3>4. QED
      BY <1>9, <3>2, <3>3
  <2>4. QED
    BY <2>2, <2>3
<1>10. Wrong = {}
  <2> SUFFICES ASSUME Wrong # {} PROVE FALSE
    OBVIOUS
  <2> HIDE DEF Adds
  <2>1. Wrong \subseteq Nat
    OBVIOUS
  <2>2. PICK i \in Wrong : \A l \in Wrong : i <= l
    BY <2>1, Least
  <2>3. i \in 0..n /\ ~Adds(i)
    OBVIOUS
  <2>4. i # 0
    BY <1>8, <2>3
  <2>5. i \in 1..n /\ i - 1 \in 0..n /\ ~(i <= i - 1)
    BY <2>3, <2>4
  <2>6. Adds(i - 1)
    BY <2>2, <2>5
  <2>7. QED
    BY <1>9, <2>3, <2>5, <2>6
<1>11. Adds(n)
  <2>1. n \in 0..n
    OBVIOUS
  <2>2. QED
    BY <1>10, <2>1, Zenon
<1>12. written[c] = arriving[n]
  <2>1. CASE Before(n)
    <3>1. received[c] = written[c]
      BY <1>2, <1>4, <2>1 DEF Filled
    <3>2. QED
      BY <2>1, <3>1
  <2>2. ASSUME NEW j \in 1..n, After(n, j) PROVE written[c] = arriving[n]
    <3>1. LastOf(j)
      <4>1. j = n \/ (j + 1 \in 1..n /\ j < j + 1)
        OBVIOUS
      <4>2. QED
        BY <1>2, <2>2, <4>1 DEF LastOf
    <3>2. from[j] + frames[j].size = written[c]
      BY <1>2, <1>4, <2>2, <3>1 DEF Filled
    <3>3. QED
      BY <2>2, <3>2
  <2>3. QED
    BY <1>11, <2>1, <2>2
<1>13. QED
  BY <1>2, <1>12, Zenon DEF arriving

\* No byte is lost while the web server listens, if it has one request at a
\* time on a connection: what was written for it has arrived or is in the
\* frames, through chunks that are used again and writes that are cut short.
THEOREM NothingIsLost == ASSUME OneRequest PROVE Spec => []NothingLost
<1>1. TypeOK /\ FdOK /\ OutputOK => NothingLost
  BY Whole
<1>2. QED
  BY <1>1, BufferInductive, DescriptorsInductive, OutputInductive, PTL
=============================================================================
