------------------------------ MODULE QueryLog ------------------------------
(***************************************************************************)
(* The query log of psql_proxy: the reactor thread collects the messages   *)
(* of query_processor::_add_message in a bipartite buffer, the file_writer *)
(* thread moves them to the log file, and io::context's stop flag, set by  *)
(* a signal handler, ends both.  The buffer accesses of the two threads    *)
(* are the actions of BipartiteBuffer: the reactor thread is its producer, *)
(* the writer thread its consumer.                                         *)
(*                                                                         *)
(* Byte k of the n-th message is <<n, k>>, its separator <<n, 0>>.         *)
(***************************************************************************)
EXTENDS BipartiteBuffer

CONSTANTS CHUNK_SZ,     \* BUFF_SZ = 2 * CHUNK_SZ
          Lengths,      \* the message lengths
          MaxMessages,  \* bound: how many messages arrive
          MaxShort      \* bound: how often sputn writes less than it is given

ASSUME ChunkAssumption == CHUNK_SZ \in Nat /\ Size = 2 * CHUNK_SZ
ASSUME LengthsAssumption == Lengths \subseteq Nat
ASSUME MessagesAssumption == MaxMessages \in Nat
ASSUME PiecesAssumption == 0 .. (CHUNK_SZ + 1) \subseteq Requests
ASSUME BytesAssumption ==
  \A n \in 1 .. MaxMessages, l \in Lengths : \A k \in 0 .. l : <<n, k>> \in Byte

VARIABLES
  mpc,        \* the reactor thread's place
  lens, pos,  \* lengths of the messages so far; how much of the last is done
  dropped,    \* the bytes of refused pieces
  stop,       \* io::context::_stop_requested
  wpc, wrote, \* the writer thread's place; the result of its last process()
  log,        \* the bytes given to the ofstream
  flushed,    \* how many of them a flush has pushed to the file
  shorts      \* how often sputn fell short

mainVars   == <<mpc, lens, pos, dropped>>
writerVars == <<wpc, wrote, log, flushed, shorts>>
logVars    == <<bufferVars, mainVars, writerVars, stop>>

Garbage == <<0, 0>>
Text(n, from, to) == [k \in 1 .. (to - from) |-> <<n, from + k>>]

LogInit ==
  /\ data = [x \in Index |-> Garbage] /\ Init
  /\ mpc = "loop" /\ lens = <<>> /\ pos = 0 /\ dropped = {}
  /\ stop = FALSE
  /\ wpc = "check" /\ wrote = 0 /\ log = <<>> /\ flushed = 0 /\ shorts = 0
-----------------------------------------------------------------------------
(* The reactor thread. *)

\* io::context::run: the flag is looked at between two calls of wait_events.
RunLoop ==
  /\ mpc = "loop"
  /\ mpc' = IF stop THEN "join" ELSE "events"
  /\ UNCHANGED <<bufferVars, lens, pos, dropped, stop, writerVars>>

EventsDone ==
  /\ mpc = "events"
  /\ mpc' = "loop"
  /\ UNCHANGED <<bufferVars, lens, pos, dropped, stop, writerVars>>

\* A session's handler has parsed a query and calls add_message.
AddMessage(n) ==
  /\ mpc = "events" /\ Len(lens) < MaxMessages
  /\ lens' = Append(lens, n) /\ pos' = 0
  /\ mpc' = "chunk"
  /\ UNCHANGED <<bufferVars, dropped, stop, writerVars>>

\* last = std::next(pos + CHUNK_SZ) when more than CHUNK_SZ is left
ChunkLength(left) == IF CHUNK_SZ < left THEN CHUNK_SZ + 1 ELSE left

Piece == LET n == Len(lens)
         IN  IF mpc = "chunk"
               THEN Text(n, pos, pos + ChunkLength(lens[n] - pos))
               ELSE << <<n, 0>> >>

\* Mutant: pos moves on by CHUNK_SZ although the piece was longer.
NextPieceByChunk ==
  \/ /\ mpc = "chunk"
     /\ pos' = IF pos + CHUNK_SZ < lens[Len(lens)] THEN pos + CHUNK_SZ ELSE lens[Len(lens)]
     /\ mpc' = IF pos' = lens[Len(lens)] THEN "sep" ELSE "chunk"
  \/ mpc = "sep" /\ pos' = pos /\ mpc' = "events"

\* The do-while of _add_message, then its separator, then back to the caller.
NextPiece ==
  \/ /\ mpc = "chunk"
     /\ pos' = pos + Len(Piece)
     /\ mpc' = IF pos' = lens[Len(lens)] THEN "sep" ELSE "chunk"
  \/ /\ mpc = "sep"
     /\ pos' = pos
     /\ mpc' = "events"

InMessage == mpc \in {"chunk", "sep"}

AcquirePiece ==
  /\ InMessage
  /\ WriteAcquire(Len(Piece))
  /\ UNCHANGED <<mainVars, stop, writerVars>>

\* write_acquire returned nullptr: the piece is skipped.
RefusePiece ==
  /\ InMessage /\ ppc = "idle"
  /\ Refused(Len(Piece), w, r)
  /\ dropped' = dropped \cup {Piece[k] : k \in DOMAIN Piece}
  /\ NextPiece
  /\ UNCHANGED <<bufferVars, lens, stop, writerVars>>

CopyPiece ==
  /\ InMessage
  /\ ppc = "acquired" /\ wcount < wlen
  /\ CopyIn(Piece[wcount + 1])
  /\ UNCHANGED <<mainVars, stop, writerVars>>

ReleasePieceI ==
  /\ InMessage
  /\ wcount = wlen
  /\ WriteReleaseI
  /\ UNCHANGED <<mainVars, stop, writerVars>>

ReleasePieceW ==
  /\ InMessage
  /\ WriteReleaseW
  /\ NextPiece
  /\ UNCHANGED <<lens, dropped, stop, writerVars>>

\* writer_thread.join(), then main returns.
Join ==
  /\ mpc = "join" /\ wpc = "done"
  /\ mpc' = "finished"
  /\ UNCHANGED <<bufferVars, lens, pos, dropped, stop, writerVars>>

Main == \/ RunLoop \/ EventsDone \/ \E n \in Lengths : AddMessage(n)
        \/ AcquirePiece \/ RefusePiece \/ CopyPiece \/ ReleasePieceI \/ ReleasePieceW
        \/ Join
-----------------------------------------------------------------------------
(* The writer thread: file_writer::operator(). *)

StopIgnored == FALSE   \* mutant: while (true)
StopSeen == stop

WriterCheck ==
  /\ wpc = "check"
  /\ wpc' = IF StopSeen THEN "exit" ELSE "process"
  /\ UNCHANGED <<bufferVars, mainVars, stop, wrote, log, flushed, shorts>>

\* read_acquire of query_processor::_process.
ProcessAcquire ==
  /\ wpc = "process"
  /\ ReadAcquireW \/ ReadAcquireI
  /\ UNCHANGED <<mainVars, stop, writerVars>>

\* It found nothing to read: r = w, or an empty region at the start.
ProcessNothing ==
  /\ wpc = "process"
  /\ \/ cpc = "idle" /\ r = w /\ UNCHANGED bufferVars
     \/ rlen = 0 /\ ReadAbandon
  /\ wrote' = 0 /\ wpc' = "tick"
  /\ UNCHANGED <<mainVars, stop, log, flushed, shorts>>

\* The callback: sputn takes the bytes one after another ...
Sputn ==
  /\ wpc = "process"
  /\ CopyOut
  /\ log' = Append(log, data[rbuf + Len(got)])
  /\ UNCHANGED <<mainVars, stop, wpc, wrote, flushed, shorts>>

\* ... and what it took, all of them or fewer, is released.
ProcessRelease ==
  /\ wpc = "process"
  /\ \/ Len(got) = rlen /\ UNCHANGED shorts
     \/ Len(got) < rlen /\ shorts < MaxShort /\ shorts' = shorts + 1
  /\ ReadRelease
  /\ wrote' = Len(got) /\ wpc' = "tick"
  /\ UNCHANGED <<mainVars, stop, log, flushed>>

\* After a sleep of 100 msec the flush is always due, otherwise it may be.
NeverDue == FALSE   \* mutant: the time of the last look is kept, not of the flush
FlushDue == wrote = 0

WriterTick ==
  /\ wpc = "tick"
  /\ \/ flushed' = Len(log)
     \/ ~FlushDue /\ UNCHANGED flushed
  /\ wpc' = "check"
  /\ UNCHANGED <<bufferVars, mainVars, stop, wrote, log, shorts>>

\* The flush after the loop; the thread ends.
NoFinalFlush == UNCHANGED flushed   \* mutant
FinalFlush == flushed' = Len(log)

WriterExit ==
  /\ wpc = "exit"
  /\ FinalFlush
  /\ wpc' = "done"
  /\ UNCHANGED <<bufferVars, mainVars, stop, wrote, log, shorts>>

Writer == \/ WriterCheck \/ ProcessAcquire \/ ProcessNothing \/ Sputn \/ ProcessRelease
          \/ WriterTick \/ WriterExit
-----------------------------------------------------------------------------
\* The signal handler calls io::context::stop, at any time.
RequestStop ==
  /\ ~stop
  /\ stop' = TRUE
  /\ UNCHANGED <<bufferVars, mainVars, writerVars>>

Exited == mpc = "finished" /\ UNCHANGED logVars

LogNext == Main \/ Writer \/ RequestStop \/ Exited

\* The two threads are scheduled; the signal need not come.
LogSpec == /\ LogInit /\ [][LogNext]_logVars
           /\ WF_logVars(Main) /\ WF_logVars(Writer)
-----------------------------------------------------------------------------
(* Properties. *)

LogTypeOK ==
  /\ TypeOK
  /\ mpc \in {"loop", "events", "chunk", "sep", "join", "finished"}
  /\ lens \in Seq(Lengths) /\ pos \in Nat
  /\ dropped \subseteq Byte
  /\ stop \in BOOLEAN
  /\ wpc \in {"check", "process", "tick", "exit", "done"}
  /\ log \in Seq(Byte) /\ flushed \in 0 .. Len(log)

\* The bytes handed to the query_processor so far: of the message in hand those
\* before pos, of the others the text and the separator.
HandedOf(n) == IF n = Len(lens) /\ InMessage THEN 1 .. pos ELSE 0 .. lens[n]
Handed == UNION { {n} \X HandedOf(n) : n \in DOMAIN lens }

\* Byte a is handed in before byte b: messages one after another, and in each
\* of them the text before the separator.
Before(a, b) == \/ a[1] < b[1]
                \/ a[1] = b[1] /\ a[2] # 0 /\ (b[2] = 0 \/ a[2] < b[2])

\* What is in the log, followed by what is still in the buffer.  (Between a
\* copy by sputn and the release the first bytes of the buffer are in both.)
Stream == log \o SubSeq(Content, Len(got) + 1, Len(Content))

\* The log and what is still in the buffer are every byte handed in so far, in
\* order and once, less the refused pieces: nothing is lost, doubled or
\* reordered by the buffer, the chunking or a short write.
LogFaithful ==
  /\ {Stream[k] : k \in DOMAIN Stream} = Handed \ dropped
  /\ \A k \in 2 .. Len(Stream) : Before(Stream[k - 1], Stream[k])

\* _add_message moves on only by a piece that either enters the stream whole
\* and at its end or is dropped whole; no other step of either thread changes
\* the stream, neither a wrap of the buffer nor a short write.
PieceByPiece ==
  [][ IF InMessage /\ <<mpc, pos>>' # <<mpc, pos>>
        THEN \/ Stream' = Stream \o Piece /\ UNCHANGED dropped
             \/ UNCHANGED Stream /\ dropped' = dropped \cup {Piece[k] : k \in DOMAIN Piece}
        ELSE UNCHANGED <<Stream, dropped>> ]_logVars

\* main only returns after the writer has ended, with everything the writer
\* took out of the buffer flushed to the file.
ExitFlushed == mpc = "finished" => wpc = "done" /\ flushed = Len(log)

\* A byte that has entered the buffer reaches the file unless the service is
\* stopped, although the writer only polls and sputn may fall short.
Queued(n) == Len(log) - Len(got) + Len(Content) >= n
EventuallyOnDisk ==
  \A n \in 1 .. (Size + 1) : Queued(n) ~> (flushed >= n \/ stop)

\* Once the flag is set both threads see it and main returns.
StopLeadsToExit == stop ~> mpc = "finished"
-----------------------------------------------------------------------------
(* The inductive invariant behind the safety properties. *)

\* The region acquired is as long as the piece that is being copied, and holds
\* the part of it copied so far.
PieceInv ==
  ppc # "idle" => /\ InMessage /\ wlen = Len(Piece)
                  /\ ppc = "storing" => wcount = wlen
                  /\ \A k \in 1 .. wcount : data[wbuf + k - 1] = Piece[k]

MessageInv == /\ Len(lens) <= MaxMessages
              /\ InMessage => lens # <<>>
              /\ mpc = "chunk" => pos <= lens[Len(lens)]
              /\ mpc = "sep" => pos = lens[Len(lens)]

ExitInv == /\ wpc = "done" => flushed = Len(log)
           /\ mpc = "finished" => wpc = "done"

\* Only within a region has the writer bytes that are not released yet.
GotInv == got # <<>> => cpc = "acquired"

LogIInv == LogTypeOK /\ IInv /\ PieceInv /\ MessageInv /\ ExitInv /\ GotInv

\* What is refused was handed in; kept with LogFaithful by every step.
FaithInv == LogFaithful /\ dropped \subseteq Handed
-----------------------------------------------------------------------------
(* Statements about the program that its code does not make true. *)

\* "dump all `SQL` requests to a file": when everything logged before has been
\* written, the next piece of a message finds room.
EmptyTakesAll == InMessage /\ ppc = "idle" /\ r = w => ~Refused(Len(Piece), w, r)
=============================================================================
