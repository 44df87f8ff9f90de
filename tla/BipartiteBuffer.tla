-------------------------- MODULE BipartiteBuffer --------------------------
(***************************************************************************)
(* io::util::bipartite_buffer<T, size, thread_safety_atomic> shared by one *)
(* producer and one consumer thread.  One action is one access to a shared *)
(* atomic index, or the copy of one element: _w is stored and _r is loaded *)
(* by the producer, _r is stored and _w and _i are loaded by the consumer. *)
(* A thread's load of the index only it stores, and its _write_wrapped or  *)
(* _read_wrapped flag, belong to the same action.  _i is stored before the *)
(* release store of _w and loaded after the acquire load of _w, so an      *)
(* interleaving of these accesses covers every execution the orderings     *)
(* allow.  thread_safety_noop is the special case in which each method     *)
(* runs without interleaving.                                              *)
(***************************************************************************)
EXTENDS BufferIndex, Sequences

CONSTANTS Byte,       \* the element values
          Requests,   \* the sizes the producer passes to write_acquire
          Abandons    \* the sizes of which a producer may drop an acquired region

ASSUME ByteAssumption == Byte # {}
ASSUME RequestsAssumption == Requests \subseteq Nat

\* _write_wrapped survives an acquire that is never released; a later,
\* smaller request could then be placed at w but released at the start of
\* the array.  The one caller that abandons (io::channel after a failed
\* recv) always asks for CHUNK_SZ, so no request of its buffer is smaller.
ASSUME AbandonAssumption ==
  Abandons \subseteq Requests /\ \A m \in Abandons, n \in Requests : m <= n

VARIABLES
  data,                        \* _data
  r, w, i,                     \* _r, _w, _i
  writeWrapped, readWrapped,   \* _write_wrapped, _read_wrapped
  ppc, wbuf, wlen, wcount,     \* producer: place, region, elements copied
  newW,                        \* producer: the index write_release will store
  cpc, seenW, rbuf, rlen,      \* consumer: place, loaded _w, region
  got                          \* consumer: the elements it has read of it

producerVars == <<writeWrapped, ppc, wbuf, wlen, wcount, newW>>
consumerVars == <<readWrapped, cpc, seenW, rbuf, rlen, got>>
bufferVars   == <<data, r, w, i, producerVars, consumerVars>>

Init ==
  /\ data \in [Index -> Byte]      \* _data is left uninitialised
  /\ r = 0 /\ w = 0 /\ i = 0
  /\ writeWrapped = FALSE /\ readWrapped = FALSE
  /\ ppc = "idle" /\ wbuf = 0 /\ wlen = 0 /\ wcount = 0 /\ newW = 0
  /\ cpc = "idle" /\ seenW = 0 /\ rbuf = 0 /\ rlen = 0 /\ got = <<>>
-----------------------------------------------------------------------------
(* The producer. *)

WriteAcquire(n) ==
  /\ ppc = "idle"
  /\ \/ /\ FitsAtW(n, w, r)
        /\ wbuf' = w
        /\ UNCHANGED writeWrapped
     \/ /\ FitsAtStart(n, w, r)
        /\ wbuf' = 0
        /\ writeWrapped' = TRUE
  /\ ppc' = "acquired" /\ wlen' = n /\ wcount' = 0
  /\ UNCHANGED <<data, r, w, i, newW, consumerVars>>

CopyIn(b) ==
  /\ ppc = "acquired" /\ wcount < wlen
  /\ data' = [data EXCEPT ![wbuf + wcount] = b]
  /\ wcount' = wcount + 1
  /\ UNCHANGED <<r, w, i, writeWrapped, ppc, wbuf, wlen, newW, consumerVars>>

\* Mutant: the flag is not reset.
WriteReleaseIFlagKept ==
  /\ ppc = "acquired"
  /\ i' = NewI(wcount, w, i, writeWrapped)
  /\ newW' = NewW(wcount, w, writeWrapped)
  /\ ppc' = "storing"
  /\ UNCHANGED <<data, r, w, writeWrapped, wbuf, wlen, wcount, consumerVars>>

\* write_release(wcount) up to and including the store of _i ...
WriteReleaseI ==
  /\ ppc = "acquired"
  /\ i' = NewI(wcount, w, i, writeWrapped)
  /\ newW' = NewW(wcount, w, writeWrapped)
  /\ writeWrapped' = FALSE
  /\ ppc' = "storing"
  /\ UNCHANGED <<data, r, w, wbuf, wlen, wcount, consumerVars>>

\* ... and its store of _w, which publishes the elements.
WriteReleaseW ==
  /\ ppc = "storing"
  /\ w' = newW
  /\ ppc' = "idle" /\ wbuf' = 0 /\ wlen' = 0 /\ wcount' = 0 /\ newW' = 0
  /\ UNCHANGED <<data, r, i, writeWrapped, consumerVars>>

\* The producer drops its region: recv failed, so write_release is not called.
WriteAbandon ==
  /\ ppc = "acquired" /\ wlen \in Abandons
  /\ ppc' = "idle" /\ wbuf' = 0 /\ wlen' = 0 /\ wcount' = 0
  /\ UNCHANGED <<data, r, w, i, writeWrapped, newW, consumerVars>>
-----------------------------------------------------------------------------
(* The consumer. *)

\* read_acquire up to the load of _w; it returns at once when r <= w.
ReadAcquireW ==
  /\ cpc = "idle"
  /\ \/ /\ r < w
        /\ cpc' = "acquired" /\ rbuf' = r /\ rlen' = w - r
        /\ UNCHANGED seenW
     \/ /\ r > w
        /\ cpc' = "loadI" /\ seenW' = w
        /\ UNCHANGED <<rbuf, rlen>>
  /\ UNCHANGED <<data, r, w, i, readWrapped, got, producerVars>>

\* Mutant: the invalidation index is not respected.
ReadAcquireToEnd ==
  /\ cpc = "loadI"
  /\ rbuf' = r /\ rlen' = Size - r
  /\ cpc' = "acquired" /\ seenW' = 0
  /\ UNCHANGED <<data, r, w, i, readWrapped, got, producerVars>>

\* read_acquire from the load of _i.
ReadAcquireI ==
  /\ cpc = "loadI"
  /\ \/ /\ r = i
        /\ readWrapped' = TRUE
        /\ rbuf' = 0 /\ rlen' = seenW
     \/ /\ r # i
        /\ rbuf' = r /\ rlen' = i - r
        /\ UNCHANGED readWrapped
  /\ cpc' = "acquired" /\ seenW' = 0
  /\ UNCHANGED <<data, r, w, i, got, producerVars>>

CopyOut ==
  /\ cpc = "acquired" /\ Len(got) < rlen
  /\ got' = Append(got, data[rbuf + Len(got)])
  /\ UNCHANGED <<data, r, w, i, readWrapped, cpc, seenW, rbuf, rlen, producerVars>>

\* Mutant: the flag is not reset.
ReadReleaseFlagKept ==
  /\ cpc = "acquired" /\ rlen > 0
  /\ r' = NewR(Len(got), r, readWrapped)
  /\ cpc' = "idle" /\ rbuf' = 0 /\ rlen' = 0 /\ got' = <<>>
  /\ UNCHANGED <<data, w, i, readWrapped, seenW, producerVars>>

\* read_release(Len(got)); every caller checks len > 0 first.
ReadRelease ==
  /\ cpc = "acquired" /\ rlen > 0
  /\ r' = NewR(Len(got), r, readWrapped)
  /\ readWrapped' = FALSE
  /\ cpc' = "idle" /\ rbuf' = 0 /\ rlen' = 0 /\ got' = <<>>
  /\ UNCHANGED <<data, w, i, seenW, producerVars>>

\* The consumer returns without read_release: an empty region, or send failed.
ReadAbandon ==
  /\ cpc = "acquired"
  /\ cpc' = "idle" /\ rbuf' = 0 /\ rlen' = 0 /\ got' = <<>>
  /\ UNCHANGED <<data, r, w, i, readWrapped, seenW, producerVars>>
-----------------------------------------------------------------------------
Producer == \/ \E n \in Requests : WriteAcquire(n)
            \/ \E b \in Byte : CopyIn(b)
            \/ WriteReleaseI
            \/ WriteReleaseW
            \/ WriteAbandon

Consumer == ReadAcquireW \/ ReadAcquireI \/ CopyOut \/ ReadRelease \/ ReadAbandon

Next == Producer \/ Consumer

Spec == Init /\ [][Next]_bufferVars
-----------------------------------------------------------------------------
(* Properties. *)

TypeOK ==
  /\ data \in [Index -> Byte]
  /\ r \in Index /\ w \in Index /\ i \in Bound
  /\ writeWrapped \in BOOLEAN /\ readWrapped \in BOOLEAN
  /\ ppc \in {"idle", "acquired", "storing"}
  /\ wbuf \in Index /\ wlen \in Bound /\ wcount \in 0 .. wlen /\ newW \in Index
  /\ cpc \in {"idle", "loadI", "acquired"}
  /\ seenW \in Index /\ rbuf \in Index /\ rlen \in Bound
  /\ got \in Seq(Byte) /\ Len(got) <= rlen

\* The positions of the committed, unread elements.
Unread == IF r <= w THEN r .. (w - 1) ELSE (r .. (i - 1)) \cup (0 .. (w - 1))

WriteRegion == IF ppc = "idle" THEN {} ELSE wbuf .. (wbuf + wlen - 1)
ReadRegion  == IF cpc # "acquired" THEN {} ELSE rbuf .. (rbuf + rlen - 1)

\* The region write_acquire handed out lies in the array and shares no
\* element with what the consumer may be reading or has still to read, for
\* as long as the producer may write to it.
Exclusive == /\ WriteRegion \subseteq Index
             /\ WriteRegion \cap (Unread \cup ReadRegion) = {}

\* What read_acquire handed out are committed elements, and stay so while
\* the consumer reads them.
ReadsCommitted == ReadRegion \subseteq Unread

\* assert(w + written <= size) in write_release and assert(r + read <= size)
\* in read_release, for every count the region admits, hold.
AssertsHold == /\ ppc = "acquired" => WriteEnd(wlen, w, writeWrapped) <= Size
               /\ cpc = "acquired" => ReadEnd(rlen, r, readWrapped) <= Size

\* The release accounts for exactly the place the elements were copied to.
ReleaseMatchesRegion ==
  /\ ppc = "acquired" => wbuf + wcount = WriteEnd(wcount, w, writeWrapped)
  /\ cpc = "acquired" /\ rlen > 0 => rbuf = ReadEnd(0, r, readWrapped)

\* An empty buffer accepts every request, wherever its indices have come to
\* rest: the next recv of an io::channel that has forwarded everything finds
\* room.
EmptyAccepts == r = w => \A n \in Requests : ~Refused(n, w, r)

\* The buffer seen as a queue of bytes.
Content == [k \in 1 .. Used(r, w, i) |->
              data[IF r <= w \/ r + k - 1 < i THEN r + k - 1 ELSE r + k - 1 - i]]

Queue == INSTANCE Fifo WITH queue <- Content, Capacity <- Size - 1

\* The buffer is a FIFO of bytes: a write_release appends the copied bytes,
\* a read_release removes the bytes just read, nothing else changes what the
\* consumer will see.
ImplementsFifo == Queue!Spec
-----------------------------------------------------------------------------
(* The inductive invariant behind the safety properties. *)

\* The writer is a lap ahead only within the invalidation index.
IndexInv == /\ w <= i
            /\ r > w => r <= i

\* What the producer knows of its region although r may have moved on since
\* it was loaded: a region at w ends before r or, on the reader's lap, before
\* the end of the array; a region at the start ends before r.
RegionAtW == /\ wbuf = w
             /\ w < r => w + wlen < r
             /\ r <= w => w + wlen <= Size /\ (w + wlen = Size => r > 0)

RegionAtStart == wbuf = 0 /\ r <= w /\ wlen < r /\ wlen > Size - w

\* Between the stores of _i and _w: newW is ahead on the same lap, or the
\* writer is about to leave the reader a lap behind.
PendingInv == \/ /\ w <= newW /\ newW <= i
                 /\ w < r => newW < r
                 /\ wbuf = w /\ newW = w + wcount
              \/ /\ newW = 0 /\ r <= w /\ 0 < r /\ i = Size
                 /\ wbuf = w /\ w + wcount = Size
              \/ /\ newW < r /\ r <= w /\ i = w
                 /\ wbuf = 0 /\ newW = wcount

ProducerInv ==
  /\ ppc # "idle" => wlen \in Requests
  /\ ppc = "acquired" => IF writeWrapped THEN RegionAtStart ELSE RegionAtW
  /\ ppc = "storing"  => /\ ~writeWrapped
                         /\ RegionAtW \/ RegionAtStart
                         /\ PendingInv
  /\ ppc = "idle" /\ writeWrapped =>      \* left behind by WriteAbandon
       /\ r <= w
       /\ \A n \in Requests : n > Size - w

ConsumerInv ==
  /\ readWrapped => r = i /\ w < r
  /\ cpc = "loadI" => seenW <= w /\ w < r
  /\ cpc = "acquired" =>
       IF readWrapped THEN rbuf = 0 /\ rlen <= w
                      ELSE rbuf = r /\ r + rlen <= (IF r <= w THEN w ELSE i)

IInv == TypeOK /\ IndexInv /\ ProducerInv /\ ConsumerInv
=============================================================================
