--------------------------- MODULE QueryLogProofs ---------------------------
(***************************************************************************)
(* Proofs about QueryLog for every buffer size, every set of message       *)
(* lengths and any number of messages and short writes.  Every buffer      *)
(* access of the two threads is one of BipartiteBuffer's, so the           *)
(* invariants and the refinement proved for that module carry over.        *)
(***************************************************************************)
EXTENDS QueryLog, BufferRefinementProofs

USE SizeAssumption DEF Index, Bound

\* A piece is a run of bytes of a length the buffer may be asked for; a piece
\* of the text does not reach beyond the message.
LEMMA PieceFacts ==
  ASSUME LogTypeOK, MessageInv, InMessage
  PROVE  /\ Piece \in Seq(Byte)
         /\ Len(Piece) \in 0 .. (CHUNK_SZ + 1) /\ Len(Piece) \in Requests
         /\ mpc = "chunk" => pos + Len(Piece) <= lens[Len(lens)]
         /\ mpc = "chunk" /\ Len(Piece) = 0 => pos = lens[Len(lens)]
  <1> USE ChunkAssumption
  <1> DEFINE n == Len(lens)
  <1>1. n \in 1 .. MaxMessages /\ lens[n] \in Lengths /\ lens[n] \in Nat
    <2>1. lens \in Seq(Lengths) /\ lens # <<>> /\ n <= MaxMessages
      BY DEF LogTypeOK, MessageInv
    <2>2. n \in Nat /\ n > 0
      BY <2>1, EmptySeq
    <2>3. lens[n] \in Lengths
      BY <2>1, <2>2, ElementOfSeq
    <2> HIDE DEF n
    <2>4. n \in 1 .. MaxMessages
      BY <2>1, <2>2, MessagesAssumption
    <2>5. lens[n] \in Nat
      BY <2>3, LengthsAssumption
    <2> QED BY <2>3, <2>4, <2>5
  <1>2. \A k \in 0 .. lens[n] : <<n, k>> \in Byte
    BY <1>1, BytesAssumption
  <1>3. CASE mpc = "chunk"
    <2> DEFINE l == ChunkLength(lens[n] - pos)
    <2>1. pos \in Nat /\ pos <= lens[n]
      BY <1>3 DEF LogTypeOK, MessageInv
    <2>2. /\ l \in 0 .. (CHUNK_SZ + 1) /\ pos + l <= lens[n]
          /\ l = 0 => pos = lens[n]
      BY <1>1, <2>1 DEF ChunkLength
    <2>3. Piece = [k \in 1 .. l |-> <<n, pos + k>>]
      <3>1. Piece = Text(n, pos, pos + l)
        BY <1>3 DEF Piece
      <3>2. (pos + l) - pos = l
        BY <2>1, <2>2
      <3> HIDE DEF l, n
      <3> QED BY <3>1, <3>2 DEF Text
    <2>4. \A k \in 1 .. l : <<n, pos + k>> \in Byte
      BY <1>1, <1>2, <2>1, <2>2
    <2> HIDE DEF l, n
    <2>5. Piece \in Seq(Byte) /\ Len(Piece) = l
      BY <2>2, <2>3, <2>4
    <2> QED BY <2>2, <2>5, PiecesAssumption DEF n
  <1>4. CASE mpc # "chunk"
    <2>1. Piece = << <<n, 0>> >>
      BY <1>4 DEF Piece
    <2>2. <<n, 0>> \in Byte
      BY <1>1, <1>2
    <2>3. Piece \in Seq(Byte) /\ Len(Piece) = 1
      BY <2>1, <2>2
    <2> QED BY <1>4, <2>3, PiecesAssumption
  <1> QED BY <1>3, <1>4

\* The same, with the elements named.
LEMMA PieceElement ==
  ASSUME LogTypeOK, MessageInv, InMessage, NEW k \in 1 .. Len(Piece)
  PROVE  Piece[k] \in Byte
  BY PieceFacts, ElementOfSeq

\* Moving on to the next piece stays within the message.
LEMMA NextPieceInv ==
  ASSUME LogTypeOK, MessageInv, NextPiece, UNCHANGED lens
  PROVE  /\ pos' \in Nat /\ mpc' \in {"chunk", "sep", "events"}
         /\ MessageInv'
         /\ InMessage /\ <<mpc, pos>>' # <<mpc, pos>>
  <1>1. CASE mpc = "chunk"
    <2>1. InMessage
      BY <1>1 DEF InMessage
    <2>2. pos \in Nat /\ pos <= lens[Len(lens)]
      BY <1>1 DEF LogTypeOK, MessageInv
    <2>3. /\ pos' = pos + Len(Piece) /\ Len(Piece) \in Nat
          /\ pos' <= lens[Len(lens)]
          /\ Len(Piece) = 0 => pos = lens[Len(lens)]
      BY <1>1, <2>1, PieceFacts, ChunkAssumption DEF NextPiece
    <2>4. mpc' = IF pos' = lens[Len(lens)] THEN "sep" ELSE "chunk"
      BY <1>1 DEF NextPiece
    <2>5. MessageInv'
      BY <1>1, <2>1, <2>3, <2>4 DEF MessageInv, InMessage
    <2> QED BY <1>1, <2>1, <2>2, <2>3, <2>4, <2>5
  <1>2. CASE mpc = "sep"
    BY <1>2 DEF NextPiece, MessageInv, InMessage, LogTypeOK
  <1> QED BY <1>1, <1>2 DEF NextPiece

-----------------------------------------------------------------------------
(* The buffer's invariant and the text of the piece being copied. *)

\* The initial state.
LEMMA LogInitInv == LogInit => LogIInv
  <1> SUFFICES ASSUME LogInit PROVE LogIInv
    OBVIOUS
  <1>1. IInv
    BY InitIInv DEF LogInit
  <1>2. LogTypeOK
    <2>1. TypeOK
      BY <1>1 DEF IInv
    <2>2. lens \in Seq(Lengths) /\ log \in Seq(Byte) /\ flushed \in 0 .. Len(log)
      BY DEF LogInit
    <2>3. stop \in BOOLEAN
      BY DEF LogInit
    <2> QED BY <2>1, <2>2, <2>3 DEF LogInit, LogTypeOK
  <1>3. PieceInv
    BY DEF LogInit, Init, PieceInv
  <1>4. MessageInv
    BY MessagesAssumption DEF LogInit, MessageInv, InMessage
  <1>5. ExitInv
    BY DEF LogInit, ExitInv
  <1>6. GotInv
    BY DEF LogInit, Init, GotInv
  <1> QED BY <1>1, <1>2, <1>3, <1>4, <1>5, <1>6 DEF LogIInv

\* A step that leaves the buffer alone keeps its invariant.
LEMMA BufferAlone == IInv /\ UNCHANGED bufferVars => IInv'
  BY NextIInv

\* The buffer under the log keeps its own invariant.
LEMMA LogKeepsIInv == ASSUME LogIInv, LogNext PROVE IInv'
  <1> USE DEF LogIInv
  <1>1. CASE AcquirePiece
    BY <1>1, PieceFacts, AcquireIInv DEF AcquirePiece
  <1>2. CASE CopyPiece
    <2>1. Piece[wcount + 1] \in Byte
      <3>1. wcount + 1 \in 1 .. Len(Piece) /\ InMessage
        BY <1>2 DEF CopyPiece, PieceInv, IInv, TypeOK
      <3> QED BY <3>1, PieceElement
    <2> QED BY <1>2, <2>1, CopyInIInv DEF CopyPiece
  <1>3. CASE ReleasePieceI
    BY <1>3, WriteReleaseIIInv DEF ReleasePieceI
  <1>4. CASE ReleasePieceW
    BY <1>4, WriteReleaseWIInv DEF ReleasePieceW
  <1>5. CASE ProcessAcquire
    BY <1>5, ReadAcquireWIInv, ReadAcquireIIInv DEF ProcessAcquire
  <1>6. CASE ProcessNothing
    BY <1>6, ReadAbandonIInv, BufferAlone DEF ProcessNothing
  <1>7. CASE Sputn
    BY <1>7, CopyOutIInv DEF Sputn
  <1>8. CASE ProcessRelease
    BY <1>8, ReadReleaseIInv DEF ProcessRelease
  <1>9. CASE UNCHANGED bufferVars
    BY <1>9, BufferAlone
  <1> QED BY <1>1, <1>2, <1>3, <1>4, <1>5, <1>6, <1>7, <1>8, <1>9
          DEF LogNext, Main, Writer, RunLoop, EventsDone, AddMessage, RefusePiece, Join,
              WriterCheck, WriterTick, WriterExit, RequestStop, Exited, logVars

\* The consumer's steps change neither the array nor what the producer holds.
LEMMA ConsumerKeepsPiece ==
  ASSUME PieceInv, UNCHANGED <<data, producerVars, mainVars>>
  PROVE  PieceInv'
  BY DEF PieceInv, Piece, InMessage, producerVars, mainVars

\* The piece at hand.
LEMMA LogKeepsPieceInv == ASSUME LogIInv, LogNext PROVE PieceInv'
  <1> USE DEF LogIInv
  <1>1. CASE AcquirePiece
    BY <1>1 DEF AcquirePiece, WriteAcquire, PieceInv, Piece, InMessage, mainVars
  <1>2. CASE CopyPiece
    <2>1. /\ InMessage /\ wlen = Len(Piece) /\ ppc = "acquired" /\ wcount < wlen
          /\ wcount \in Nat /\ wlen \in Nat /\ wbuf \in Nat /\ wbuf + wcount \in Index
          /\ \A k \in 1 .. wcount : data[wbuf + k - 1] = Piece[k]
      <3>1. IF writeWrapped THEN RegionAtStart ELSE RegionAtW
        BY <1>2 DEF CopyPiece, IInv, ProducerInv
      <3>2. /\ InMessage /\ wlen = Len(Piece) /\ ppc = "acquired" /\ wcount < wlen
            /\ \A k \in 1 .. wcount : data[wbuf + k - 1] = Piece[k]
        BY <1>2 DEF CopyPiece, PieceInv
      <3>3. wcount \in Nat /\ wlen \in Nat /\ wbuf \in Nat
        BY DEF IInv, TypeOK
      <3>4. wbuf + wcount \in Index
        BY <3>1, <3>2 DEF IInv, TypeOK, RegionAtStart, RegionAtW
      <3> QED BY <3>2, <3>3, <3>4
    <2>2. Piece' = Piece /\ InMessage' /\ UNCHANGED <<wlen, wbuf, ppc>>
      BY <1>2, <2>1 DEF CopyPiece, CopyIn, Piece, InMessage, mainVars
    <2>3. /\ wcount' = wcount + 1
          /\ data' = [data EXCEPT ![wbuf + wcount] = Piece[wcount + 1]]
      BY <1>2 DEF CopyPiece, CopyIn
    <2>4. data \in [Index -> Byte]
      BY DEF IInv, TypeOK
    <2>5. ASSUME NEW k \in 1 .. wcount'
          PROVE  data'[wbuf + k - 1] = Piece[k]
      <3>1. CASE k = wcount + 1
        <4>1. wbuf + k - 1 = wbuf + wcount
          BY <3>1, <2>1
        <4> QED BY <4>1, <3>1, <2>1, <2>3, <2>4
      <3>2. CASE k # wcount + 1
        <4>1. k \in 1 .. wcount /\ wbuf + k - 1 # wbuf + wcount
          BY <3>2, <2>1, <2>3
        <4>2. wbuf + k - 1 \in Index
          BY <4>1, <2>1
        <4> QED BY <4>1, <4>2, <2>1, <2>3, <2>4
      <3> QED BY <3>1, <3>2
    <2> QED BY <2>1, <2>2, <2>5 DEF PieceInv
  <1>3. CASE ReleasePieceI
    BY <1>3 DEF ReleasePieceI, WriteReleaseI, PieceInv, Piece, InMessage, mainVars
  <1>4. CASE ReleasePieceW
    BY <1>4 DEF ReleasePieceW, WriteReleaseW, PieceInv
  <1>5. CASE RefusePiece
    BY <1>5 DEF RefusePiece, PieceInv, bufferVars, producerVars
  <1>6. CASE RunLoop \/ EventsDone \/ Join \/ \E n \in Lengths : AddMessage(n)
    <2>1. ~InMessage /\ UNCHANGED ppc
      BY <1>6 DEF RunLoop, EventsDone, Join, AddMessage, InMessage, bufferVars, producerVars
    <2> QED BY <2>1 DEF PieceInv
  <1>7. CASE Writer \/ RequestStop \/ Exited
    <2>1. UNCHANGED <<data, producerVars, mainVars>>
      BY <1>7 DEF Writer, WriterCheck, ProcessAcquire, ReadAcquireW, ReadAcquireI,
         ProcessNothing, ReadAbandon, Sputn, CopyOut, ProcessRelease, ReadRelease,
         WriterTick, WriterExit, RequestStop, Exited, bufferVars, logVars
    <2> QED BY <2>1, ConsumerKeepsPiece
  <1> QED BY <1>1, <1>2, <1>3, <1>4, <1>5, <1>6, <1>7 DEF LogNext, Main

-----------------------------------------------------------------------------
(* The two threads' places, the messages and the log. *)

\* The message at hand.
LEMMA LogKeepsMessageInv == ASSUME LogIInv, LogNext PROVE MessageInv'
  <1> USE DEF LogIInv
  <1>1. CASE RefusePiece \/ ReleasePieceW
    BY <1>1, NextPieceInv DEF RefusePiece, ReleasePieceW
  <1>2. ASSUME NEW n \in Lengths, AddMessage(n) PROVE MessageInv'
    <2>1. lens \in Seq(Lengths) /\ Len(lens) < MaxMessages
      BY <1>2 DEF LogTypeOK, AddMessage
    <2>2. /\ lens' = Append(lens, n) /\ lens' # <<>> /\ Len(lens') = Len(lens) + 1
          /\ lens'[Len(lens')] = n
      BY <1>2, <2>1, AppendProperties DEF AddMessage
    <2>3. pos' = 0 /\ n \in Nat /\ Len(lens) \in Nat /\ mpc' = "chunk"
      BY <1>2, <2>1, LengthsAssumption DEF AddMessage
    <2> QED BY <2>1, <2>2, <2>3, MessagesAssumption DEF MessageInv
  <1>3. CASE RunLoop \/ EventsDone \/ Join
    BY <1>3 DEF RunLoop, EventsDone, Join, MessageInv, InMessage
  <1>4. CASE UNCHANGED mainVars
    BY <1>4 DEF mainVars, MessageInv, InMessage
  <1> QED BY <1>1, <1>2, <1>3, <1>4
          DEF LogNext, Main, AcquirePiece, CopyPiece, ReleasePieceI, Writer, WriterCheck,
              ProcessAcquire, ProcessNothing, Sputn, ProcessRelease, WriterTick,
              WriterExit, RequestStop, Exited, logVars

\* What the writer read.
LEMMA LogKeepsGotInv == ASSUME LogIInv, LogNext PROVE GotInv'
  BY DEF LogIInv, GotInv, LogNext, Main, RunLoop, EventsDone, AddMessage, AcquirePiece,
     RefusePiece, CopyPiece, ReleasePieceI, ReleasePieceW, Join, WriteAcquire, CopyIn,
     WriteReleaseI, WriteReleaseW, Writer, WriterCheck, ProcessAcquire, ReadAcquireW,
     ReadAcquireI, ProcessNothing, ReadAbandon, Sputn, CopyOut, ProcessRelease,
     ReadRelease, WriterTick, WriterExit, RequestStop, Exited, logVars, bufferVars,
     consumerVars

\* How the writer ends.
LEMMA LogKeepsExitInv == ASSUME LogIInv, LogNext PROVE ExitInv'
  <1> USE DEF LogIInv, ExitInv
  <1>1. CASE Main
    <2>1. UNCHANGED writerVars
      BY <1>1 DEF Main, RunLoop, EventsDone, AddMessage, AcquirePiece, RefusePiece,
         CopyPiece, ReleasePieceI, ReleasePieceW, Join
    <2>2. mpc' = "finished" => mpc = "finished" \/ wpc = "done"
      BY <1>1 DEF Main, RunLoop, EventsDone, AddMessage, AcquirePiece, RefusePiece,
         NextPiece, CopyPiece, ReleasePieceI, ReleasePieceW, Join, mainVars
    <2> QED BY <2>1, <2>2 DEF writerVars
  <1>2. CASE Writer
    BY <1>2 DEF Writer, WriterCheck, ProcessAcquire, ProcessNothing, Sputn,
       ProcessRelease, WriterTick, WriterExit, FinalFlush, mainVars, writerVars
  <1>3. CASE RequestStop \/ Exited
    BY <1>3 DEF RequestStop, Exited, logVars, mainVars, writerVars
  <1> QED BY <1>1, <1>2, <1>3 DEF LogNext

\* The types.
LEMMA LogKeepsTypeOK == ASSUME LogIInv, LogNext PROVE LogTypeOK'
  <1> USE DEF LogIInv
  <1>1. TypeOK'
    BY LogKeepsIInv DEF IInv
  <1>2. CASE RefusePiece
    <2>1. pos' \in Nat /\ mpc' \in {"chunk", "sep", "events"}
      BY <1>2, NextPieceInv DEF RefusePiece
    <2>2. dropped' \subseteq Byte
      <3>1. Piece \in Seq(Byte) /\ dropped \subseteq Byte
        BY <1>2, PieceFacts DEF RefusePiece, LogTypeOK
      <3>2. \A k \in DOMAIN Piece : Piece[k] \in Byte
        BY <3>1
      <3> QED BY <1>2, <3>1, <3>2 DEF RefusePiece
    <2> QED BY <1>1, <1>2, <2>1, <2>2 DEF RefusePiece, LogTypeOK, writerVars
  <1>3. CASE ReleasePieceW
    <2>1. pos' \in Nat /\ mpc' \in {"chunk", "sep", "events"}
      BY <1>3, NextPieceInv DEF ReleasePieceW
    <2> QED BY <1>1, <1>3, <2>1 DEF ReleasePieceW, LogTypeOK, writerVars
  <1>4. ASSUME NEW n \in Lengths, AddMessage(n) PROVE LogTypeOK'
    BY <1>1, <1>4 DEF AddMessage, LogTypeOK, writerVars
  <1>5. CASE Sputn
    <2>1. data[rbuf + Len(got)] \in Byte
      BY <1>5 DEF Sputn, CopyOut, IInv, TypeOK, ConsumerInv
    <2>2. log \in Seq(Byte) /\ flushed \in 0 .. Len(log)
      BY DEF LogTypeOK
    <2>3. log' \in Seq(Byte) /\ Len(log') = Len(log) + 1
      BY <1>5, <2>1, <2>2 DEF Sputn
    <2>4. flushed' \in 0 .. Len(log')
      BY <1>5, <2>2, <2>3 DEF Sputn
    <2> QED BY <1>1, <1>5, <2>3, <2>4 DEF Sputn, LogTypeOK, mainVars
  <1>6. CASE WriterTick \/ WriterExit
    <2>1. log \in Seq(Byte) /\ flushed \in 0 .. Len(log)
      BY DEF LogTypeOK
    <2>2. flushed' \in 0 .. Len(log') /\ log' = log
      BY <1>6, <2>1 DEF WriterTick, WriterExit, FinalFlush
    <2> QED BY <1>1, <1>6, <2>2 DEF WriterTick, WriterExit, LogTypeOK, mainVars
  <1>7. CASE RunLoop \/ EventsDone \/ Join
    BY <1>1, <1>7 DEF RunLoop, EventsDone, Join, LogTypeOK, writerVars
  <1>8. CASE AcquirePiece \/ CopyPiece \/ ReleasePieceI
    BY <1>1, <1>8 DEF AcquirePiece, CopyPiece, ReleasePieceI, LogTypeOK, mainVars, writerVars
  <1>9. CASE WriterCheck \/ ProcessAcquire \/ ProcessNothing \/ ProcessRelease
    BY <1>1, <1>9 DEF WriterCheck, ProcessAcquire, ProcessNothing, ProcessRelease,
       LogTypeOK, mainVars, writerVars
  <1>10. CASE RequestStop
    BY <1>1, <1>10 DEF RequestStop, LogTypeOK, mainVars, writerVars
  <1>11. CASE Exited
    BY <1>1, <1>11 DEF Exited, LogTypeOK, logVars, mainVars, writerVars
  <1> QED BY <1>2, <1>3, <1>4, <1>5, <1>6, <1>7, <1>8, <1>9, <1>10, <1>11
          DEF LogNext, Main, Writer

\* LogIInv is an invariant of the query log.
THEOREM LogInductive == LogSpec => []LogIInv
  <1>1. LogIInv /\ [LogNext]_logVars => LogIInv'
    <2> SUFFICES ASSUME LogIInv, [LogNext]_logVars PROVE LogIInv'
      OBVIOUS
    <2>1. CASE LogNext
      BY <2>1, LogKeepsIInv, LogKeepsPieceInv, LogKeepsMessageInv, LogKeepsExitInv,
         LogKeepsGotInv, LogKeepsTypeOK DEF LogIInv
    <2>2. CASE UNCHANGED logVars
      <3>1. IInv'
        BY <2>2, BufferAlone DEF LogIInv, logVars
      <3>2. LogTypeOK'
        BY <2>2, <3>1 DEF LogIInv, IInv, LogTypeOK, logVars, mainVars, writerVars
      <3>3. PieceInv' /\ MessageInv' /\ ExitInv' /\ GotInv'
        BY <2>2 DEF LogIInv, PieceInv, MessageInv, ExitInv, GotInv, Piece, InMessage,
           logVars, bufferVars, producerVars, consumerVars, mainVars, writerVars
      <3> QED BY <3>1, <3>2, <3>3 DEF LogIInv
    <2> QED BY <2>1, <2>2
  <1> QED BY <1>1, LogInitInv, PTL DEF LogSpec
-----------------------------------------------------------------------------
(* What the invariant implies. *)

\* Type correctness of both threads' state: what enters the buffer and the log
\* are message bytes, and no more is flushed than was written.
THEOREM LogTypeCorrect == LogSpec => []LogTypeOK
  <1>1. LogIInv => LogTypeOK
    BY DEF LogIInv
  <1> QED BY <1>1, LogInductive, PTL

\* When main returns the writer has ended and all it took is in the file.
THEOREM ExitFlushedHolds == LogSpec => []ExitFlushed
  <1>1. LogIInv => ExitFlushed
    BY DEF LogIInv, ExitInv, ExitFlushed
  <1> QED BY <1>1, LogInductive, PTL
-----------------------------------------------------------------------------
(* The stream of the log and the buffer. *)

\* What follows the first m elements of s \o t.
LEMMA TailOfConcat ==
  ASSUME NEW S, NEW s \in Seq(S), NEW t \in Seq(S), NEW m \in 0 .. Len(s)
  PROVE  SubSeq(s \o t, m + 1, Len(s \o t)) = SubSeq(s, m + 1, Len(s)) \o t
  <1> DEFINE st == s \o t
             left == SubSeq(st, m + 1, Len(st))
             mid == SubSeq(s, m + 1, Len(s))
             right == mid \o t
  <1>1. /\ st \in Seq(S) /\ Len(st) = Len(s) + Len(t)
        /\ \A k \in 1 .. Len(s) + Len(t) : st[k] = IF k <= Len(s) THEN s[k] ELSE t[k - Len(s)]
    BY ConcatProperties
  <1>2. Len(s) \in Nat /\ Len(t) \in Nat /\ m \in Nat /\ m <= Len(s)
    OBVIOUS
  <1>3. /\ left \in Seq(S) /\ Len(left) = Len(st) - m
        /\ \A k \in 1 .. Len(st) - m : left[k] = st[m + k]
    <2>1. \A k \in (m + 1) .. Len(st) : st[k] \in S
      BY <1>1, <1>2, ElementOfSeq
    <2> HIDE DEF st
    <2> QED BY <2>1, <1>1, <1>2, SubSeqProperties
  <1>4. /\ mid \in Seq(S) /\ Len(mid) = Len(s) - m
        /\ \A k \in 1 .. Len(s) - m : mid[k] = s[m + k]
    <2>1. \A k \in (m + 1) .. Len(s) : s[k] \in S
      BY <1>2, ElementOfSeq
    <2> QED BY <2>1, <1>2, SubSeqProperties
  <1> HIDE DEF mid, st, left
  <1>5. /\ right \in Seq(S) /\ Len(right) = Len(mid) + Len(t)
        /\ \A k \in 1 .. Len(mid) + Len(t) : right[k] = IF k <= Len(mid) THEN mid[k] ELSE t[k - Len(mid)]
    BY <1>4, ConcatProperties
  <1> HIDE DEF right
  <1>6. ASSUME NEW k \in 1 .. Len(left) PROVE left[k] = right[k]
    <2>1. k \in Nat /\ k \in 1 .. (Len(s) + Len(t) - m) /\ left[k] = st[m + k]
      BY <1>1, <1>2, <1>3
    <2>2. CASE k <= Len(s) - m
      <3>1. left[k] = s[m + k]
        <4>1. m + k \in 1 .. (Len(s) + Len(t)) /\ m + k <= Len(s)
          BY <1>2, <2>1, <2>2
        <4> QED BY <1>1, <2>1, <4>1
      <3>2. right[k] = mid[k]
        BY <1>2, <1>4, <1>5, <2>1, <2>2
      <3>3. mid[k] = s[m + k]
        BY <1>2, <1>4, <2>1, <2>2
      <3> QED BY <3>1, <3>2, <3>3
    <2>3. CASE ~(k <= Len(s) - m)
      <3>1. left[k] = t[m + k - Len(s)]
        <4>1. m + k \in 1 .. (Len(s) + Len(t)) /\ ~(m + k <= Len(s))
          BY <1>2, <2>1, <2>3
        <4>2. \A x \in 1 .. Len(s) + Len(t) : ~(x <= Len(s)) => st[x] = t[x - Len(s)]
          BY <1>1
        <4> DEFINE x == m + k
        <4>3. x \in 1 .. Len(s) + Len(t) /\ ~(x <= Len(s)) /\ left[k] = st[x]
          BY <2>1, <4>1
        <4> HIDE DEF x
        <4>4. left[k] = t[x - Len(s)]
          BY <4>2, <4>3
        <4> QED BY <4>4 DEF x
      <3>2. right[k] = t[k - (Len(s) - m)]
        <4>1. k \in 1 .. (Len(mid) + Len(t)) /\ ~(k <= Len(mid)) /\ Len(mid) = Len(s) - m
          BY <1>2, <1>4, <2>1, <2>3
        <4> QED BY <1>5, <4>1
      <3>3. m + k - Len(s) = k - (Len(s) - m)
        BY <1>2, <2>1
      <3> QED BY <3>1, <3>2, <3>3
    <2> QED BY <2>2, <2>3
  <1>7. Len(left) = Len(right)
    BY <1>1, <1>2, <1>3, <1>4, <1>5
  <1>8. left = right
    BY <1>3, <1>5, <1>6, <1>7, SeqEqual
  <1> QED BY <1>8 DEF left, right, st, mid

\* The bytes the writer has looked at are no more than there are.
LEMMA GotWithinContent ==
  ASSUME LogIInv
  PROVE  /\ Content \in Seq(Byte) /\ log \in Seq(Byte)
         /\ Len(got) \in 0 .. Len(Content)
  <1>1. Content \in Seq(Byte) /\ Len(Content) = Used(r, w, i) /\ Used(r, w, i) \in Nat
    BY ContentIs, ContentOfIsSeq DEF LogIInv
  <1>2. got \in Seq(Byte) /\ log \in Seq(Byte)
    BY DEF LogIInv, LogTypeOK, TypeOK
  <1>3. CASE got = <<>>
    BY <1>1, <1>2, <1>3
  <1>4. CASE got # <<>>
    <2>1. cpc = "acquired" /\ Len(got) <= rlen
      BY <1>4 DEF LogIInv, GotInv, IInv, TypeOK
    <2>2. rlen <= Used(r, w, i)
      BY <2>1 DEF LogIInv, IInv, TypeOK, IndexInv, ConsumerInv, Used
    <2>3. Len(got) \in Nat /\ rlen \in Nat
      BY <1>2 DEF LogIInv, IInv, TypeOK
    <2> QED BY <1>1, <1>2, <2>1, <2>2, <2>3
  <1> QED BY <1>3, <1>4

\* sputn moves one byte from the buffer's part of the stream to the log's.
LEMMA SputnKeepsStream == ASSUME LogIInv, LogIInv', Sputn PROVE Stream' = Stream
  <1> DEFINE n == Len(got)
             c == Content
             u == Len(c)
             rest == SubSeq(c, n + 2, u)
  <1>1. Queue!Look
    BY CopyOutLooks DEF LogIInv, Sputn
  <1>2. /\ c \in Seq(Byte) /\ log \in Seq(Byte) /\ n \in Nat /\ n < u /\ u \in Nat
        /\ Content' = c
    BY <1>1, GotWithinContent DEF Queue!Look
  <1>3. got' = Append(got, c[n + 1]) /\ got \in Seq(Byte)
    BY <1>1 DEF Queue!Look, LogIInv, LogTypeOK, TypeOK
  <1>4. c[n + 1] \in Byte
    BY <1>2, ElementOfSeq
  <1>5. Len(got') = n + 1
    BY <1>3, <1>4
  <1>6. data[rbuf + n] = c[n + 1]
    <2>1. Append(got, data[rbuf + n]) = Append(got, c[n + 1])
      BY <1>3 DEF Sputn, CopyOut
    <2> HIDE DEF c
    <2>2. Append(got, data[rbuf + n])[n + 1] = Append(got, c[n + 1])[n + 1]
      BY <2>1
    <2> QED BY <2>2, <1>3
  <1>7. log' = Append(log, c[n + 1])
    BY <1>6 DEF Sputn
  <1> HIDE DEF n, c
  <1>8. SubSeq(c, n + 1, u) = <<c[n + 1]>> \o rest
    <2>1. n + 1 \in 1 .. Len(c) /\ u \in (n + 1) .. Len(c) /\ (n + 1) + 1 = n + 2
      BY <1>2
    <2> QED BY <1>2, <2>1, SubSeqRecursiveFirst
  <1>9. rest \in Seq(Byte) /\ <<c[n + 1]>> \in Seq(Byte)
    <2>1. \A k \in (n + 2) .. u : c[k] \in Byte
      BY <1>2, ElementOfSeq
    <2> QED BY <1>2, <1>4, <2>1, SubSeqProperties
  <1>10. Append(log, c[n + 1]) = log \o <<c[n + 1]>>
    BY <1>2, <1>4, AppendIsConcat
  <1> HIDE DEF rest
  <1>11. Append(log, c[n + 1]) \o rest = log \o SubSeq(c, n + 1, u)
    <2>1. log \in Seq(Byte) /\ rest \in Seq(Byte) /\ <<c[n + 1]>> \in Seq(Byte)
      BY <1>2, <1>9
    <2>2. (log \o <<c[n + 1]>>) \o rest = log \o (<<c[n + 1]>> \o rest)
      BY <2>1, SMT
    <2> QED BY <2>2, <1>8, <1>10
  <1>12. Stream = log \o SubSeq(c, n + 1, u)
    BY DEF Stream, c, n
  <1>13. Stream' = log' \o SubSeq(Content', Len(got') + 1, Len(Content'))
    BY DEF Stream
  <1>14. Stream' = Append(log, c[n + 1]) \o rest
    <2>1. Len(got') + 1 = n + 2
      BY <1>2, <1>5
    <2> QED BY <1>2, <1>7, <1>13, <2>1 DEF rest
  <1> QED BY <1>11, <1>12, <1>14

\* A release, of everything or after a short write, takes off the buffer what
\* is in the log.
LEMMA ReleaseKeepsStream == ASSUME LogIInv, LogIInv', ProcessRelease PROVE Stream' = Stream
  <1>1. Queue!Remove
    BY ReleaseRemoves DEF LogIInv, ProcessRelease
  <1>2. /\ Content' = SubSeq(Content, Len(got) + 1, Len(Content))
        /\ got' = <<>> /\ log' = log
    BY <1>1 DEF Queue!Remove, ProcessRelease
  <1>3. Content' \in Seq(Byte)
    BY ContentIs, ContentOfIsSeq DEF LogIInv
  <1>4. SubSeq(Content', 1, Len(Content')) = Content'
    BY <1>3, SubSeqFull
  <1>5. Len(got') + 1 = 1
    BY <1>2
  <1>6. Stream' = log' \o SubSeq(Content', Len(got') + 1, Len(Content'))
    BY DEF Stream
  <1> QED BY <1>2, <1>4, <1>5, <1>6 DEF Stream

\* A release by the reactor thread puts the whole piece at the end.
LEMMA ReleaseExtendsStream ==
  ASSUME LogIInv, LogIInv', ReleasePieceW
  PROVE  Stream' = Stream \o Piece
  <1> DEFINE s == [k \in 1 .. wcount |-> data[wbuf + k - 1]]
             rest == SubSeq(Content, Len(got) + 1, Len(Content))
  <1>1. Content' = Content \o s /\ UNCHANGED got
    BY StoreWPuts DEF LogIInv, ReleasePieceW
  <1>2. s = Piece /\ Piece \in Seq(Byte)
    <2>1. /\ ppc = "storing" /\ InMessage /\ wcount = Len(Piece)
          /\ \A k \in 1 .. wcount : data[wbuf + k - 1] = Piece[k]
      BY DEF LogIInv, PieceInv, ReleasePieceW, WriteReleaseW
    <2>2. Piece \in Seq(Byte)
      BY <2>1, PieceFacts DEF LogIInv
    <2>3. s \in Seq(Byte) /\ Len(s) = wcount /\ \A k \in 1 .. wcount : s[k] = Piece[k]
      <3>1. wcount \in Nat
        BY DEF LogIInv, IInv, TypeOK
      <3>2. \A k \in 1 .. wcount : data[wbuf + k - 1] \in Byte
        BY <2>1, <2>2, ElementOfSeq
      <3> QED BY <2>1, <3>1, <3>2
    <2> HIDE DEF s
    <2> QED BY <2>1, <2>2, <2>3, SeqEqual
  <1>3. SubSeq(Content \o Piece, Len(got) + 1, Len(Content \o Piece)) = rest \o Piece
    BY <1>2, GotWithinContent, TailOfConcat
  <1>4. rest \in Seq(Byte)
    <2>1. \A k \in (Len(got) + 1) .. Len(Content) : Content[k] \in Byte
      BY GotWithinContent, ElementOfSeq
    <2>2. Len(got) + 1 \in Int /\ Len(Content) \in Int
      BY GotWithinContent
    <2> QED BY <2>1, <2>2, SubSeqProperties
  <1>5. Stream' = log' \o SubSeq(Content', Len(got') + 1, Len(Content'))
    BY DEF Stream
  <1>6. log' = log
    BY DEF ReleasePieceW, writerVars
  <1> HIDE DEF s, rest
  <1>7. Stream' = log \o (rest \o Piece)
    BY <1>1, <1>2, <1>3, <1>5, <1>6
  <1>8. (log \o rest) \o Piece = log \o (rest \o Piece)
    <2>1. log \in Seq(Byte) /\ rest \in Seq(Byte) /\ Piece \in Seq(Byte)
      BY <1>2, <1>4, GotWithinContent
    <2> QED BY <2>1, SMT
  <1> QED BY <1>7, <1>8 DEF Stream, rest

\* A step that moves _add_message on takes the piece in hand whole.
Moves == InMessage /\ <<mpc, pos>>' # <<mpc, pos>>
ByPiece == IF Moves
             THEN \/ Stream' = Stream \o Piece /\ UNCHANGED dropped
                  \/ UNCHANGED Stream /\ dropped' = dropped \cup {Piece[k] : k \in DOMAIN Piece}
             ELSE UNCHANGED <<Stream, dropped>>

\* Each step moves the stream on by a whole piece, or not at all.
LEMMA StepByPiece ==
  ASSUME LogIInv, LogIInv', LogNext
  PROVE  ByPiece \/ UNCHANGED logVars
  <1> USE DEF ByPiece, Moves
  <1>1. CASE ReleasePieceW
    <2>1. Moves
      BY <1>1, NextPieceInv DEF LogIInv, ReleasePieceW
    <2>2. Stream' = Stream \o Piece
      BY <1>1, ReleaseExtendsStream
    <2> QED BY <1>1, <2>1, <2>2 DEF ReleasePieceW
  <1>2. CASE RefusePiece
    <2>1. Moves
      BY <1>2, NextPieceInv DEF LogIInv, RefusePiece
    <2>2. UNCHANGED Stream
      BY <1>2 DEF RefusePiece, Stream, Content, bufferVars, consumerVars, writerVars
    <2> QED BY <1>2, <2>1, <2>2 DEF RefusePiece
  <1>3. CASE AcquirePiece \/ CopyPiece \/ ReleasePieceI
    <2>1. UNCHANGED <<mpc, pos, dropped, log>>
      BY <1>3 DEF AcquirePiece, CopyPiece, ReleasePieceI, mainVars, writerVars
    <2>2. UNCHANGED <<Content, got>>
      <3>1. CASE AcquirePiece
        BY <3>1, OthersKeep DEF AcquirePiece, WriteAcquire, consumerVars
      <3>2. CASE CopyPiece
        <4>1. Piece[wcount + 1] \in Byte
          <5>1. wcount + 1 \in 1 .. Len(Piece) /\ InMessage
            BY <3>2 DEF CopyPiece, LogIInv, PieceInv, IInv, TypeOK
          <5> QED BY <5>1, PieceElement DEF LogIInv
        <4> QED BY <3>2, <4>1, CopyInKeeps DEF CopyPiece, LogIInv
      <3>3. CASE ReleasePieceI
        BY <3>3, StoreIKeeps DEF ReleasePieceI, LogIInv
      <3> QED BY <1>3, <3>1, <3>2, <3>3
    <2> QED BY <2>1, <2>2 DEF Stream
  <1>4. CASE Sputn
    <2>1. UNCHANGED Stream
      BY <1>4, SputnKeepsStream
    <2> QED BY <1>4, <2>1 DEF Sputn, mainVars
  <1>5. CASE ProcessRelease
    <2>1. UNCHANGED Stream
      BY <1>5, ReleaseKeepsStream
    <2> QED BY <1>5, <2>1 DEF ProcessRelease, mainVars
  <1>6. CASE ProcessNothing
    <2>1. UNCHANGED <<got, Content>>
      <3>1. CASE cpc = "idle" /\ r = w /\ UNCHANGED bufferVars
        BY <3>1, OthersKeep DEF bufferVars, consumerVars
      <3>2. CASE rlen = 0 /\ ReadAbandon
        <4>1. got = <<>>
          <5>1. got \in Seq(Byte) /\ Len(got) <= 0
            BY <3>2 DEF LogIInv, IInv, TypeOK
          <5> QED BY <5>1, EmptySeq
        <4> QED BY <3>2, <4>1, OthersKeep DEF ReadAbandon
      <3> QED BY <1>6, <3>1, <3>2 DEF ProcessNothing
    <2> QED BY <1>6, <2>1 DEF ProcessNothing, Stream, mainVars
  <1>7. CASE ProcessAcquire
    <2>1. UNCHANGED <<got, Content>>
      BY <1>7, OthersKeep DEF ProcessAcquire, ReadAcquireW, ReadAcquireI
    <2> QED BY <1>7, <2>1 DEF ProcessAcquire, Stream, mainVars, writerVars
  <1>8. CASE RunLoop \/ EventsDone \/ Join \/ \E n \in Lengths : AddMessage(n)
    <2>1. ~InMessage /\ UNCHANGED <<bufferVars, dropped, writerVars>>
      BY <1>8 DEF RunLoop, EventsDone, Join, AddMessage, InMessage
    <2>2. UNCHANGED <<got, Content, log>>
      BY <2>1, OthersKeep DEF bufferVars, consumerVars, writerVars
    <2> QED BY <2>1, <2>2 DEF Stream
  <1>9. CASE WriterCheck \/ WriterTick \/ WriterExit \/ RequestStop
    <2>1. UNCHANGED <<bufferVars, mainVars, log>>
      BY <1>9 DEF WriterCheck, WriterTick, WriterExit, RequestStop, writerVars
    <2>2. UNCHANGED <<got, Content>>
      BY <2>1, OthersKeep DEF bufferVars, consumerVars
    <2> QED BY <2>1, <2>2 DEF Stream, mainVars
  <1> QED BY <1>1, <1>2, <1>3, <1>4, <1>5, <1>6, <1>7, <1>8, <1>9
          DEF LogNext, Main, Writer, Exited

\* _add_message moves on by whole pieces, each of which enters the stream at
\* its end or is dropped; no other step of either thread changes the stream.
THEOREM PieceByPieceHolds == LogSpec => PieceByPiece
  <1>1. LogIInv /\ LogIInv' /\ [LogNext]_logVars => [ByPiece]_logVars
    BY StepByPiece
  <1> QED BY <1>1, LogInductive, PTL DEF LogSpec, PieceByPiece, ByPiece, Moves
-----------------------------------------------------------------------------
(* The log is what was handed in. *)

RangeOf(s) == {s[k] : k \in DOMAIN s}

\* A sequence that holds H less D in order, and a piece that comes after H.
LEMMA PieceExtends ==
  ASSUME NEW H, NEW D, D \subseteq H,
         NEW s \in Seq(Byte), RangeOf(s) = H \ D,
         \A k \in 2 .. Len(s) : Before(s[k - 1], s[k]),
         NEW p \in Seq(Byte), \A h \in H : \A x \in RangeOf(p) : Before(h, x) /\ h # x,
         \A k \in 2 .. Len(p) : Before(p[k - 1], p[k])
  PROVE  /\ RangeOf(s \o p) = (H \cup RangeOf(p)) \ D
         /\ \A k \in 2 .. Len(s \o p) : Before((s \o p)[k - 1], (s \o p)[k])
  <1> DEFINE t == s \o p
             m == Len(s)
             n == Len(p)
  <1>1. m \in Nat /\ n \in Nat /\ DOMAIN s = 1 .. m /\ DOMAIN p = 1 .. n
    OBVIOUS
  <1>2. /\ t \in Seq(Byte) /\ Len(t) = m + n
        /\ \A k \in 1 .. m + n : t[k] = IF k <= m THEN s[k] ELSE p[k - m]
    BY ConcatProperties
  <1> HIDE DEF t, m, n
  <1>3. DOMAIN t = 1 .. m + n
    BY <1>1, <1>2
  <1>4. \A k \in 1 .. m : k \in 1 .. m + n /\ t[k] = s[k]
    BY <1>1, <1>2
  <1>5. \A k \in 1 .. n : m + k \in 1 .. m + n /\ t[m + k] = p[k]
    <2> SUFFICES ASSUME NEW k \in 1 .. n PROVE m + k \in 1 .. m + n /\ t[m + k] = p[k]
      OBVIOUS
    <2>1. m + k \in 1 .. m + n /\ ~ (m + k <= m) /\ (m + k) - m = k
      BY <1>1
    <2> QED BY <1>2, <2>1
  <1>6. RangeOf(t) = RangeOf(s) \cup RangeOf(p)
    <2>1. \A k \in 1 .. m + n : k \in 1 .. m \/ k - m \in 1 .. n
      BY <1>1
    <2>2. ASSUME NEW k \in DOMAIN t PROVE t[k] \in RangeOf(s) \cup RangeOf(p)
      <3>1. CASE k \in 1 .. m
        BY <1>1, <1>4, <3>1 DEF RangeOf
      <3>2. CASE k - m \in 1 .. n
        <4>1. t[k] = p[k - m]
          BY <1>1, <1>2, <1>3, <3>2
        <4> QED BY <1>1, <3>2, <4>1 DEF RangeOf
      <3> QED BY <1>3, <2>1, <3>1, <3>2
    <2>3. \A k \in DOMAIN s : s[k] \in RangeOf(t)
      BY <1>1, <1>3, <1>4 DEF RangeOf
    <2>4. \A k \in DOMAIN p : p[k] \in RangeOf(t)
      BY <1>1, <1>3, <1>5 DEF RangeOf
    <2> QED BY <2>2, <2>3, <2>4 DEF RangeOf
  <1>7. RangeOf(t) = (H \cup RangeOf(p)) \ D
    BY <1>6
  <1>8. ASSUME NEW k \in 2 .. Len(t) PROVE Before(t[k - 1], t[k])
    <2> HIDE DEF Before
    <2>1. CASE k <= m
      <3>1. k \in 2 .. Len(s) /\ k \in 1 .. m /\ k - 1 \in 1 .. m
        BY <1>1, <1>2, <2>1 DEF m
      <3> QED BY <1>4, <3>1
    <2>2. CASE k = m + 1
      <3>1. m \in 1 .. m /\ 1 \in 1 .. n /\ k - 1 = m
        BY <1>1, <1>2, <2>2
      <3>2. t[k - 1] = s[m] /\ t[k] = p[1]
        BY <1>4, <1>5, <2>2, <3>1
      <3>3. s[m] \in H /\ p[1] \in RangeOf(p)
        BY <1>1, <3>1 DEF RangeOf
      <3> QED BY <3>2, <3>3
    <2>3. CASE k > m + 1
      <3>1. /\ k - m \in 2 .. Len(p) /\ k - m \in 1 .. n /\ (k - m) - 1 \in 1 .. n
            /\ m + (k - m) = k /\ m + ((k - m) - 1) = k - 1
        BY <1>1, <1>2, <2>3 DEF n
      <3>2. t[k] = p[k - m] /\ t[k - 1] = p[(k - m) - 1]
        BY <1>5, <3>1
      <3> QED BY <3>1, <3>2
    <2> QED BY <1>1, <1>2, <2>1, <2>2, <2>3
  <1> QED BY <1>7, <1>8 DEF t

\* The piece in hand follows what was handed in, and is handed in next.
LEMMA PieceIsNext ==
  ASSUME LogIInv, InMessage
  PROVE  /\ \A h \in Handed : \A x \in RangeOf(Piece) : Before(h, x) /\ h # x
         /\ \A k \in 2 .. Len(Piece) : Before(Piece[k - 1], Piece[k])
         /\ NextPiece /\ lens' = lens => Handed' = Handed \cup RangeOf(Piece)
  <1> DEFINE n == Len(lens)
             c == Len(Piece)
  <1>1. /\ n \in Nat /\ n \in DOMAIN lens /\ DOMAIN lens = 1 .. n /\ pos \in Nat
        /\ \A m \in 1 .. n : lens[m] \in Nat
    <2>1. lens \in Seq(Lengths) /\ lens # <<>> /\ pos \in Nat
      BY DEF LogIInv, LogTypeOK, MessageInv
    <2>2. n \in Nat /\ n > 0 /\ DOMAIN lens = 1 .. n
      BY <2>1, EmptySeq
    <2>3. \A m \in 1 .. n : lens[m] \in Nat
      BY <2>1, ElementOfSeq, LengthsAssumption
    <2> QED BY <2>1, <2>2, <2>3
  <1>2. /\ Piece \in Seq(Byte) /\ c \in Nat
        /\ mpc = "chunk" => pos + c <= lens[n]
    BY PieceFacts, ChunkAssumption DEF LogIInv
  <1>3. DOMAIN Piece = 1 .. c
    BY <1>2
  <1>4. mpc = "chunk" => \A k \in 1 .. c : Piece[k] = <<n, pos + k>>
    <2> SUFFICES ASSUME mpc = "chunk" PROVE \A k \in 1 .. c : Piece[k] = <<n, pos + k>>
      OBVIOUS
    <2> DEFINE l == ChunkLength(lens[n] - pos)
    <2>1. Piece = [k \in 1 .. ((pos + l) - pos) |-> <<n, pos + k>>]
      BY DEF Piece, Text
    <2> HIDE DEF l, n, c
    <2>2. DOMAIN Piece = 1 .. ((pos + l) - pos)
      BY <2>1
    <2> QED BY <1>3, <2>1, <2>2
  <1>5. mpc # "chunk" => /\ mpc = "sep" /\ c = 1 /\ Piece[1] = <<n, 0>> /\ pos = lens[n]
    BY DEF Piece, InMessage, LogIInv, MessageInv
  <1>6. HandedOf(n) = 1 .. pos
    BY DEF HandedOf
  <1>7. \A m \in 1 .. n : m # n => HandedOf(m) = 0 .. lens[m]
    BY DEF HandedOf
  <1> HIDE DEF n, c
  <1>8. ASSUME NEW h \in Handed
        PROVE  \E m \in 1 .. n, k \in Nat : h = <<m, k>> /\ (m = n => k \in 1 .. pos)
    <2>1. PICK m \in 1 .. n : h \in {m} \X HandedOf(m)
      BY <1>1 DEF Handed
    <2>2. PICK k \in HandedOf(m) : h = <<m, k>>
      BY <2>1
    <2>3. k \in Nat /\ (m = n => k \in 1 .. pos)
      BY <1>1, <1>6, <1>7, <2>2
    <2> QED BY <2>2, <2>3
  <1>9. ASSUME NEW x \in RangeOf(Piece)
        PROVE  \E j \in Nat : x = <<n, j>> /\ (j = 0 \/ j > pos)
    <2>1. PICK k \in 1 .. c : x = Piece[k]
      BY <1>3 DEF RangeOf
    <2>2. CASE mpc = "chunk"
      <3>1. x = <<n, pos + k>> /\ pos + k \in Nat /\ pos + k > pos
        BY <1>1, <1>2, <1>4, <2>1, <2>2
      <3> QED BY <3>1
    <2>3. CASE mpc # "chunk"
      <3>1. k = 1
        BY <1>5, <2>1, <2>3
      <3> QED BY <1>5, <2>1, <2>3, <3>1
    <2> QED BY <2>2, <2>3
  <1>10. ASSUME NEW h \in Handed, NEW x \in RangeOf(Piece) PROVE Before(h, x) /\ h # x
    <2>1. PICK m \in 1 .. n, k \in Nat : h = <<m, k>> /\ (m = n => k \in 1 .. pos)
      BY <1>8
    <2>2. PICK j \in Nat : x = <<n, j>> /\ (j = 0 \/ j > pos)
      BY <1>9
    <2>3. h[1] = m /\ h[2] = k /\ x[1] = n /\ x[2] = j
      BY <2>1, <2>2
    <2>4. m < n \/ (m = n /\ k # 0 /\ k # j /\ (j = 0 \/ k < j))
      BY <1>1, <2>1, <2>2
    <2> QED BY <1>1, <2>3, <2>4 DEF Before
  <1>11. ASSUME NEW k \in 2 .. Len(Piece) PROVE Before(Piece[k - 1], Piece[k])
    <2>0. k \in 2 .. c
      BY DEF c
    <2>1. mpc = "chunk" /\ k \in 1 .. c /\ k - 1 \in 1 .. c
      BY <1>2, <1>5, <2>0
    <2>2. Piece[k - 1] = <<n, pos + (k - 1)>> /\ Piece[k] = <<n, pos + k>>
      BY <1>4, <2>1
    <2>3. pos + (k - 1) < pos + k /\ pos + (k - 1) # 0
      BY <1>1, <2>1
    <2> QED BY <2>2, <2>3 DEF Before
  <1>12. ASSUME NextPiece, lens' = lens PROVE Handed' = Handed \cup RangeOf(Piece)
    <2>1. Handed' = UNION { {m} \X HandedOf(m)' : m \in 1 .. n }
      BY <1>1, <1>12 DEF Handed
    <2>2. ASSUME NEW m \in 1 .. n, m # n PROVE HandedOf(m)' = HandedOf(m)
      BY <1>12, <2>2 DEF HandedOf, n
    <2>3. ASSUME NEW m \in 1 .. n, m = n
          PROVE  {m} \X HandedOf(m)' = ({m} \X HandedOf(m)) \cup RangeOf(Piece)
      <3>0. HandedOf(m) = 1 .. pos
        BY <1>6, <2>3
      <3>1. CASE mpc = "chunk"
        <4>1. pos' = pos + c /\ InMessage'
          BY <1>12, <3>1 DEF NextPiece, InMessage, c
        <4>2. HandedOf(m)' = 1 .. pos + c
          BY <1>12, <2>3, <4>1 DEF HandedOf, n
        <4>3. RangeOf(Piece) = {<<n, pos + k>> : k \in 1 .. c}
          BY <1>3, <1>4, <3>1 DEF RangeOf
        <4>4. 1 .. pos + c = (1 .. pos) \cup {pos + k : k \in 1 .. c}
          <5>1. ASSUME NEW z \in 1 .. pos + c, z \notin 1 .. pos
                PROVE  \E k \in 1 .. c : z = pos + k
            <6>1. z - pos \in 1 .. c /\ z = pos + (z - pos)
              BY <1>1, <1>2, <5>1
            <6> QED BY <6>1
          <5>2. \A k \in 1 .. c : pos + k \in 1 .. pos + c
            BY <1>1, <1>2
          <5>3. \A z \in 1 .. pos : z \in 1 .. pos + c
            BY <1>1, <1>2
          <5> QED BY <5>1, <5>2, <5>3
        <4> QED BY <2>3, <3>0, <4>2, <4>3, <4>4
      <3>2. CASE mpc # "chunk"
        <4>1. ~ InMessage'
          BY <1>5, <1>12, <3>2 DEF NextPiece, InMessage
        <4>2. HandedOf(m)' = 0 .. lens[n]
          BY <1>12, <2>3, <4>1 DEF HandedOf, n
        <4>3. RangeOf(Piece) = {<<n, 0>>}
          <5>1. 1 .. 1 = {1}
            OBVIOUS
          <5> QED BY <1>3, <1>5, <3>2, <5>1 DEF RangeOf
        <4>4. 0 .. lens[n] = (1 .. pos) \cup {0}
          BY <1>1, <1>5, <3>2
        <4> QED BY <2>3, <3>0, <4>2, <4>3, <4>4
      <3> QED BY <3>1, <3>2
    <2>4. Handed = UNION { {m} \X HandedOf(m) : m \in 1 .. n }
      BY <1>1 DEF Handed
    <2>5. n \in 1 .. n
      BY <1>1
    <2> DEFINE A(m) == {m} \X HandedOf(m)
               B(m) == {m} \X HandedOf(m)'
    <2>6. \A m \in 1 .. n : B(m) = IF m = n THEN A(m) \cup RangeOf(Piece) ELSE A(m)
      <3> SUFFICES ASSUME NEW m \in 1 .. n
                   PROVE  B(m) = IF m = n THEN A(m) \cup RangeOf(Piece) ELSE A(m)
        OBVIOUS
      <3>1. CASE m = n
        <4>1. {m} \X HandedOf(m)' = ({m} \X HandedOf(m)) \cup RangeOf(Piece)
          BY <2>3, <3>1
        <4> QED BY <3>1, <4>1, Zenon
      <3>2. CASE m # n
        <4>1. HandedOf(m)' = HandedOf(m)
          BY <2>2, <3>2
        <4> QED BY <3>2, <4>1, Zenon
      <3> QED BY <3>1, <3>2, Zenon
    <2>7. UNION {A(m) : m \in 1 .. n} = Handed /\ UNION {B(m) : m \in 1 .. n} = Handed'
      BY <2>1, <2>4
    <2> HIDE DEF A, B
    <2> QED BY <2>5, <2>6, <2>7
  <1> QED BY <1>10, <1>11, <1>12

\* Outside of a message, what was handed in are all bytes of all messages.
LEMMA HandedStays ==
  ASSUME LogIInv, ~ InMessage, ~ InMessage', lens' = lens
  PROVE  Handed' = Handed
  <1>1. \A n \in DOMAIN lens : HandedOf(n)' = HandedOf(n)
    BY DEF HandedOf
  <1> QED BY <1>1 DEF Handed

\* A new message adds nothing yet.
LEMMA NewMessageAddsNothing ==
  ASSUME LogIInv, NEW n \in Lengths, AddMessage(n)
  PROVE  Handed' = Handed
  <1>0. PICK l : l = Len(lens)
    OBVIOUS
  <1>1. lens \in Seq(Lengths) /\ lens' = Append(lens, n) /\ pos' = 0 /\ InMessage' /\ ~ InMessage
    BY DEF AddMessage, InMessage, LogIInv, LogTypeOK
  <1>2. /\ l \in Nat /\ DOMAIN lens = 1 .. l /\ DOMAIN lens' = 1 .. l + 1 /\ Len(lens') = l + 1
        /\ \A m \in 1 .. l : lens'[m] = lens[m]
    BY <1>0, <1>1
  <1>3. ASSUME NEW m \in 1 .. l PROVE HandedOf(m)' = HandedOf(m) /\ m \in 1 .. l + 1
    <2>1. HandedOf(m) = 0 .. lens[m]
      BY <1>1 DEF HandedOf
    <2>2. m # l + 1 /\ m \in 1 .. l + 1
      BY <1>2
    <2>3. HandedOf(m)' = 0 .. lens[m]
      BY <1>2, <2>2 DEF HandedOf
    <2> QED BY <2>1, <2>2, <2>3
  <1>4. HandedOf(l + 1)' = {}
    <2>1. HandedOf(l + 1)' = 1 .. 0
      BY <1>1, <1>2 DEF HandedOf
    <2> QED BY <2>1
  <1>5. \A m \in 1 .. l + 1 : m \in 1 .. l \/ m = l + 1
    BY <1>2
  <1> DEFINE A(m) == {m} \X HandedOf(m)
             B(m) == {m} \X HandedOf(m)'
  <1>6. Handed = UNION {A(m) : m \in 1 .. l} /\ Handed' = UNION {B(m) : m \in 1 .. l + 1}
    BY <1>2 DEF Handed
  <1>7. \A m \in 1 .. l : B(m) = A(m) /\ m \in 1 .. l + 1
    <2> SUFFICES ASSUME NEW m \in 1 .. l PROVE B(m) = A(m) /\ m \in 1 .. l + 1
      OBVIOUS
    <2>1. HandedOf(m)' = HandedOf(m) /\ m \in 1 .. l + 1
      BY <1>3
    <2> QED BY <2>1, Zenon
  <1>8. B(l + 1) = {}
    BY <1>4
  <1> HIDE DEF A, B
  <1> QED BY <1>5, <1>6, <1>7, <1>8

\* Every step keeps the log faithful.
LEMMA StepKeepsFaith ==
  ASSUME LogIInv, LogIInv', FaithInv, LogNext
  PROVE  FaithInv'
  <1>1. RangeOf(Stream) = Handed \ dropped /\ dropped \subseteq Handed
        /\ \A k \in 2 .. Len(Stream) : Before(Stream[k - 1], Stream[k])
    BY DEF FaithInv, LogFaithful, RangeOf
  <1>2. ASSUME UNCHANGED <<Stream, dropped>>, Handed' = Handed PROVE FaithInv'
    <2> HIDE DEF Stream, Handed, Before
    <2>1. {Stream'[k] : k \in DOMAIN Stream'} = Handed' \ dropped'
      BY <1>2 DEF FaithInv, LogFaithful
    <2>2. \A k \in 2 .. Len(Stream') : Before(Stream'[k - 1], Stream'[k])
      BY <1>2 DEF FaithInv, LogFaithful
    <2>3. \A k \in 2 .. Len(Stream') : Before(Stream[k - 1], Stream[k])'
      BY <2>2 DEF Before
    <2> QED BY <1>1, <1>2, <2>1, <2>3 DEF FaithInv, LogFaithful
  <1>3. ASSUME InMessage, NextPiece, lens' = lens,
               \/ Stream' = Stream \o Piece /\ dropped' = dropped
               \/ Stream' = Stream /\ dropped' = dropped \cup RangeOf(Piece)
        PROVE  FaithInv'
    <2> DEFINE D == dropped
               H == Handed
               s == Stream
               p == Piece
    <2>1. /\ \A h \in H : \A x \in RangeOf(p) : Before(h, x) /\ h # x
          /\ \A k \in 2 .. Len(p) : Before(p[k - 1], p[k])
          /\ Handed' = H \cup RangeOf(p)
      BY <1>3, PieceIsNext
    <2>2. p \in Seq(Byte)
      BY <1>3, PieceFacts DEF LogIInv
    <2>3. s \in Seq(Byte)
      <3>1. /\ Content \in Seq(Byte) /\ log \in Seq(Byte) /\ Len(got) \in 0 .. Len(Content)
        BY GotWithinContent
      <3>2. SubSeq(Content, Len(got) + 1, Len(Content)) \in Seq(Byte)
        <4>1. \A k \in (Len(got) + 1) .. Len(Content) : Content[k] \in Byte
          BY <3>1, ElementOfSeq
        <4> QED BY <3>1, <4>1, SubSeqProperties
      <3> QED BY <3>1, <3>2, ConcatProperties DEF Stream
    <2> HIDE DEF D, H, s, p
    <2>0. D \subseteq H /\ RangeOf(s) = H \ D
          /\ \A k \in 2 .. Len(s) : Before(s[k - 1], s[k])
      BY <1>1 DEF D, H, s
    <2>4. CASE Stream' = s \o p /\ dropped' = D
      <3>1. /\ RangeOf(s \o p) = (H \cup RangeOf(p)) \ D
            /\ \A k \in 2 .. Len(s \o p) : Before((s \o p)[k - 1], (s \o p)[k])
        BY <2>0, <2>1, <2>2, <2>3, PieceExtends, ZenonT(30)
      <3>2. RangeOf(Stream') = Handed' \ dropped'
        BY <2>1, <2>4, <3>1
      <3>3. \A k \in 2 .. Len(Stream') : Before(Stream'[k - 1], Stream'[k])
        BY <2>4, <3>1
      <3>4. \A k \in 2 .. Len(Stream') : Before(Stream[k - 1], Stream[k])'
        BY <3>3 DEF Before
      <3> QED BY <2>0, <2>1, <2>4, <3>2, <3>4 DEF FaithInv, LogFaithful, RangeOf
    <2>5. CASE Stream' = s /\ dropped' = D \cup RangeOf(p)
      <3>1. RangeOf(Stream') = Handed' \ dropped' /\ dropped' \subseteq Handed'
        BY <2>0, <2>1, <2>5
      <3>2. \A k \in 2 .. Len(Stream') : Before(Stream'[k - 1], Stream'[k])
        BY <2>0, <2>5
      <3>3. \A k \in 2 .. Len(Stream') : Before(Stream[k - 1], Stream[k])'
        BY <3>2 DEF Before
      <3> QED BY <3>1, <3>3 DEF FaithInv, LogFaithful, RangeOf
    <2> QED BY <1>3, <2>4, <2>5 DEF s, p, D
  <1>4. ByPiece \/ UNCHANGED logVars
    BY StepByPiece
  <1>5. CASE RefusePiece \/ ReleasePieceW
    <2>1. InMessage /\ NextPiece /\ lens' = lens
      BY <1>5 DEF RefusePiece, ReleasePieceW
    <2>2. Moves
      BY <2>1, NextPieceInv DEF LogIInv, Moves
    <2>3. ByPiece
      BY <1>4, <2>2 DEF Moves, logVars, mainVars
    <2>4. \/ Stream' = Stream \o Piece /\ dropped' = dropped
          \/ Stream' = Stream /\ dropped' = dropped \cup RangeOf(Piece)
      BY <2>2, <2>3, Zenon DEF ByPiece, RangeOf
    <2> QED BY <1>3, <2>1, <2>4
  <1>6. ASSUME NEW n \in Lengths, AddMessage(n) PROVE FaithInv'
    <2>1. ~ Moves /\ lens' # lens
      <3>1. lens \in Seq(Lengths) /\ lens' = Append(lens, n)
        BY <1>6 DEF AddMessage, LogIInv, LogTypeOK
      <3>2. Len(lens') = Len(lens) + 1 /\ Len(lens) \in Nat
        BY <3>1
      <3>3. lens' # lens
        BY <3>2
      <3> QED BY <1>6, <3>3 DEF AddMessage, Moves, InMessage
    <2>2. UNCHANGED <<Stream, dropped>>
      BY <1>4, <2>1 DEF ByPiece, logVars, mainVars
    <2>3. Handed' = Handed
      BY <1>6, NewMessageAddsNothing
    <2> QED BY <1>2, <2>2, <2>3
  <1>7. CASE RunLoop \/ EventsDone \/ Join
    <2>1. ~ InMessage /\ ~ InMessage' /\ lens' = lens /\ mpc' # mpc
      BY <1>7 DEF RunLoop, EventsDone, Join, InMessage
    <2>2. UNCHANGED <<Stream, dropped>>
      BY <1>4, <2>1 DEF ByPiece, Moves, logVars, mainVars
    <2> QED BY <1>2, <2>1, <2>2, HandedStays
  <1>8. CASE UNCHANGED mainVars
    <2>1. ~ Moves /\ Handed' = Handed
      BY <1>8 DEF Moves, mainVars, Handed, HandedOf, InMessage
    <2>2. UNCHANGED <<Stream, dropped>>
      <3>1. CASE ByPiece
        BY <2>1, <3>1 DEF ByPiece
      <3>2. CASE UNCHANGED logVars
        BY <3>2, OthersKeep DEF logVars, bufferVars, consumerVars, mainVars, writerVars, Stream
      <3> QED BY <1>4, <3>1, <3>2
    <2> QED BY <1>2, <2>1, <2>2
  <1> QED BY <1>5, <1>6, <1>7, <1>8
          DEF LogNext, Main, AcquirePiece, CopyPiece, ReleasePieceI, Writer, WriterCheck,
              ProcessAcquire, ProcessNothing, Sputn, ProcessRelease, WriterTick,
              WriterExit, RequestStop, Exited, logVars

\* The log followed by the buffer is every byte handed in so far, in order and
\* once, less the pieces that were refused: for every size of the buffer and
\* any messages, whatever the two threads do in between.
THEOREM LogFaithfulHolds == LogSpec => []LogFaithful
  <1>1. LogInit => FaithInv
    <2> SUFFICES ASSUME LogInit PROVE FaithInv
      OBVIOUS
    <2>1. Content = <<>>
      <3>1. IInv /\ r = w
        BY InitIInv DEF LogInit, Init
      <3>2. Content \in Seq(Byte) /\ Len(Content) = Used(r, w, i)
        BY <3>1, ContentIs, ContentOfIsSeq
      <3>3. Used(r, w, i) = 0
        BY <3>1 DEF Used, IInv, TypeOK
      <3> QED BY <3>2, <3>3, EmptySeq
    <2>2. Stream = <<>>
      BY <2>1 DEF LogInit, Init, Stream
    <2>3. Handed = {} /\ dropped = {}
      BY DEF LogInit, Handed
    <2> HIDE DEF Stream, Handed
    <2> QED BY <2>2, <2>3 DEF FaithInv, LogFaithful
  <1>2. LogIInv /\ LogIInv' /\ FaithInv /\ [LogNext]_logVars => FaithInv'
    <2> SUFFICES ASSUME LogIInv, LogIInv', FaithInv, [LogNext]_logVars PROVE FaithInv'
      OBVIOUS
    <2>1. CASE LogNext
      BY <2>1, StepKeepsFaith
    <2>2. CASE UNCHANGED logVars
      <3>1. UNCHANGED <<data, r, w, i, got, log, lens, pos, mpc, dropped>>
        BY <2>2 DEF logVars, bufferVars, producerVars, consumerVars, mainVars, writerVars
      <3>2. Content' = Content
        BY <3>1, OthersKeep
      <3>3. Stream' = Stream /\ Handed' = Handed
        BY <3>1, <3>2 DEF Stream, Handed, HandedOf, InMessage
      <3> HIDE DEF Stream, Handed
      <3> QED BY <3>1, <3>3 DEF FaithInv, LogFaithful, Before
    <2> QED BY <2>1, <2>2
  <1>3. FaithInv => LogFaithful
    BY DEF FaithInv
  <1> QED BY <1>1, <1>2, <1>3, LogInductive, PTL DEF LogSpec
=============================================================================
