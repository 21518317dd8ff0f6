---------------------------- MODULE OutputRecord ----------------------------
(***************************************************************************)
(* How FcgistreamSink::write() of fcgistream.cpp cuts n bytes of output     *)
(* into FastCGI records: the size of the next record, given the room left   *)
(* in the chunk of the transceiver's buffer, how many bytes of the output   *)
(* it takes and how it is padded.                                           *)
(***************************************************************************)
EXTENDS Naturals

HeaderSize == 8             \* sizeof(Header)
chunkSize == 8              \* Protocol::chunkSize, the grain of record sizes
minBlockSize == 256         \* the least requestWrite() ever returns when asked for more
MaxSize == 65535            \* numeric_limits<uint16_t>::max()

AtMost(a, b) == IF a <= b THEN a ELSE b

\* The size asked of requestWrite(): the next multiple of chunkSize, unless
\* that is more than a record may have.
Asked(n) ==
    LET remainder == n % chunkSize
        size == n + HeaderSize + (IF remainder # 0 THEN chunkSize - remainder ELSE 0)
    IN  AtMost(size, MaxSize)

\* What is committed by secureWrite(): what requestWrite() gave, rounded down.
Size(n, room) == (AtMost(Asked(n), room) \div chunkSize) * chunkSize

contentLength(n, room) == AtMost(Size(n, room) - HeaderSize, n)

contentPadding(n, room) ==
    LET padding == chunkSize - (contentLength(n, room) % chunkSize)
    IN  IF padding = chunkSize THEN 0 ELSE padding
=============================================================================
