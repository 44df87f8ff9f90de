----------------------- MODULE BipartiteBufferProofs -----------------------
(***************************************************************************)
(* Proofs about BipartiteBuffer for every buffer size, every element set   *)
(* and every set of request sizes.                                         *)
(***************************************************************************)
EXTENDS BipartiteBuffer, TLAPS

USE SizeAssumption DEF Index, Bound

\* Every conjunct of the inductive invariant holds initially.
LEMMA InitIInv == Init => IInv
  <1> SUFFICES ASSUME Init PROVE IInv
    OBVIOUS
  <1> USE DEF Init
  <1>1. TypeOK
    <2>1. got \in Seq(Byte) /\ Len(got) <= rlen
      OBVIOUS
    <2>2. 0 \in Index /\ 0 \in Bound
      BY SizeAssumption
    <2>3. writeWrapped \in BOOLEAN /\ readWrapped \in BOOLEAN
      OBVIOUS
    <2> QED BY <2>1, <2>2, <2>3 DEF TypeOK
  <1>2. IndexInv
    BY DEF IndexInv
  <1>3. ProducerInv
    BY DEF ProducerInv
  <1>4. ConsumerInv
    BY DEF ConsumerInv
  <1> QED BY <1>1, <1>2, <1>3, <1>4 DEF IInv

\* write_acquire.
LEMMA AcquireIInv == ASSUME IInv, NEW n \in Requests, WriteAcquire(n)
                     PROVE  IInv'
  <1> USE RequestsAssumption DEF WriteAcquire, consumerVars
  <1>0. n \in Nat
    OBVIOUS
  <1> USE DEF IInv
  <1>1. CASE FitsAtW(n, w, r) /\ wbuf' = w /\ UNCHANGED writeWrapped
    <2>1. ~writeWrapped
      BY <1>1, <1>0 DEF FitsAtW, LinearFree, CalcFree, ProducerInv, TypeOK
    <2>2. n <= Size /\ (w < r => w + n < r)
                    /\ (r <= w => w + n <= Size /\ (w + n = Size => r > 0))
      BY <1>1, <1>0 DEF FitsAtW, LinearFree, CalcFree, TypeOK
    <2>3. TypeOK'
      BY <1>1, <1>0, <2>2 DEF TypeOK
    <2>4. ProducerInv'
      BY <1>1, <1>0, <2>1, <2>2 DEF TypeOK, ProducerInv, RegionAtW
    <2>5. IndexInv' /\ ConsumerInv'
      BY <1>1 DEF IndexInv, ConsumerInv
    <2> QED BY <2>3, <2>4, <2>5
  <1>2. CASE FitsAtStart(n, w, r) /\ wbuf' = 0 /\ writeWrapped' = TRUE
    <2>1. r <= w /\ n < r /\ n > Size - w /\ n <= Size
      BY <1>2, <1>0 DEF FitsAtStart, FitsAtW, LinearFree, CalcFree, TypeOK
    <2>2. TypeOK'
      BY <1>2, <1>0, <2>1 DEF TypeOK
    <2>3. ProducerInv'
      BY <1>2, <1>0, <2>1 DEF TypeOK, ProducerInv, RegionAtStart
    <2>4. IndexInv' /\ ConsumerInv'
      BY <1>2 DEF IndexInv, ConsumerInv
    <2> QED BY <2>2, <2>3, <2>4
  <1> QED BY <1>1, <1>2

\* The writer fills what it acquired.
LEMMA CopyInIInv == ASSUME IInv, NEW b \in Byte, CopyIn(b)
                    PROVE  IInv'
  <1> USE DEF IInv, CopyIn, consumerVars
  <1>1. TypeOK'
    BY DEF TypeOK
  <1>2. IndexInv' /\ ConsumerInv'
    BY DEF IndexInv, ConsumerInv
  <1>3. ProducerInv'
    BY DEF ProducerInv, RegionAtW, RegionAtStart
  <1> QED BY <1>1, <1>2, <1>3

\* write_release sets the index of the end of the data.
LEMMA WriteReleaseIIInv == ASSUME IInv, WriteReleaseI
                           PROVE  IInv'
  <1> USE DEF IInv, WriteReleaseI, consumerVars, NewI, NewW, WriteEnd
  <1>1. CASE writeWrapped
    <2>1. RegionAtStart
      BY <1>1 DEF ProducerInv
    <2>2. i' = w /\ newW' = wcount
      BY <1>1, <2>1 DEF RegionAtStart, TypeOK
    <2>3. i' \in Bound /\ newW' \in Index
      BY <2>1, <2>2 DEF TypeOK, RegionAtStart
    <2>4. TypeOK'
      BY <2>3 DEF TypeOK
    <2>5. IndexInv'
      BY <2>1, <2>2 DEF IndexInv, RegionAtStart, TypeOK
    <2>6. ProducerInv'
      BY <2>1, <2>2 DEF ProducerInv, RegionAtStart, PendingInv, TypeOK
    <2>7. ConsumerInv'
      BY <2>1, <2>2 DEF ConsumerInv, RegionAtStart, TypeOK
    <2> QED BY <2>4, <2>5, <2>6, <2>7
  <1>2. CASE ~writeWrapped
    <2>1. RegionAtW
      BY <1>2 DEF ProducerInv
    <2>2. /\ i' = IF w + wcount > i THEN w + wcount ELSE i
          /\ newW' = IF w + wcount = Size THEN 0 ELSE w + wcount
          /\ w + wcount <= Size /\ wcount <= wlen
      BY <1>2, <2>1 DEF RegionAtW, TypeOK
    <2>3. i' \in Bound /\ newW' \in Index
      BY <2>2 DEF TypeOK
    <2>4. TypeOK'
      BY <2>3 DEF TypeOK
    <2>5. IndexInv'
      BY <2>2 DEF IndexInv, TypeOK
    <2>6. RegionAtW' /\ PendingInv'
      BY <2>1, <2>2 DEF RegionAtW, PendingInv, TypeOK, IndexInv
    <2>7. ProducerInv'
      BY <2>6 DEF ProducerInv
    <2>8. ConsumerInv'
      BY <2>1, <2>2 DEF ConsumerInv, RegionAtW, TypeOK, IndexInv
    <2> QED BY <2>4, <2>5, <2>7, <2>8
  <1> QED BY <1>1, <1>2

\* write_release publishes the write index.
LEMMA WriteReleaseWIInv == ASSUME IInv, WriteReleaseW
                           PROVE  IInv'
  <1> USE DEF IInv, WriteReleaseW, consumerVars
  <1>1. PendingInv /\ ~writeWrapped
    BY DEF ProducerInv
  <1>2. TypeOK'
    BY DEF TypeOK
  <1>3. IndexInv'
    BY <1>1 DEF IndexInv, PendingInv, TypeOK
  <1>4. ProducerInv'
    BY <1>1 DEF ProducerInv
  <1>5. ConsumerInv'
    BY <1>1 DEF ConsumerInv, PendingInv, IndexInv, TypeOK
  <1> QED BY <1>2, <1>3, <1>4, <1>5

\* The writer gives up what it acquired.
LEMMA WriteAbandonIInv == ASSUME IInv, WriteAbandon
                          PROVE  IInv'
  <1> USE DEF IInv, WriteAbandon, consumerVars
  <1>1. TypeOK'
    BY DEF TypeOK
  <1>2. IndexInv' /\ ConsumerInv'
    BY DEF IndexInv, ConsumerInv
  <1>3. ProducerInv'
    <2> SUFFICES ASSUME writeWrapped
                 PROVE  r <= w /\ \A n \in Requests : n > Size - w
      BY DEF ProducerInv
    <2>1. RegionAtStart /\ wlen \in Requests
      BY DEF ProducerInv
    <2>2. \A n \in Requests : wlen <= n
      BY AbandonAssumption
    <2> QED BY <2>1, <2>2, RequestsAssumption, SizeAssumption DEF RegionAtStart, TypeOK, Index
  <1> QED BY <1>1, <1>2, <1>3

\* read_acquire loads the write index,
LEMMA ReadAcquireWIInv == ASSUME IInv, ReadAcquireW
                          PROVE  IInv'
  <1> USE DEF IInv, ReadAcquireW, producerVars
  <1>1. TypeOK'
    BY DEF TypeOK, ConsumerInv
  <1>2. IndexInv'
    BY DEF IndexInv
  <1>3. ProducerInv'
    BY DEF ProducerInv, RegionAtW, RegionAtStart, PendingInv
  <1>4. ConsumerInv'
    BY DEF ConsumerInv, TypeOK, IndexInv
  <1> QED BY <1>1, <1>2, <1>3, <1>4

\* and then the index of the end of the data.
LEMMA ReadAcquireIIInv == ASSUME IInv, ReadAcquireI
                          PROVE  IInv'
  <1> USE DEF IInv, ReadAcquireI, producerVars
  <1>1. TypeOK'
    BY DEF TypeOK, ConsumerInv, IndexInv
  <1>2. IndexInv'
    BY DEF IndexInv
  <1>3. ProducerInv'
    BY DEF ProducerInv, RegionAtW, RegionAtStart, PendingInv
  <1>4. ConsumerInv'
    BY DEF ConsumerInv, TypeOK, IndexInv
  <1> QED BY <1>1, <1>2, <1>3, <1>4

\* The reader takes what it acquired.
LEMMA CopyOutIInv == ASSUME IInv, CopyOut
                     PROVE  IInv'
  <1> USE DEF IInv, CopyOut, producerVars
  <1>1. rbuf + Len(got) \in Index
    BY DEF TypeOK, ConsumerInv
  <1>2. TypeOK'
    BY <1>1 DEF TypeOK
  <1>3. IndexInv' /\ ConsumerInv'
    BY DEF IndexInv, ConsumerInv
  <1>4. ProducerInv'
    BY DEF ProducerInv, RegionAtW, RegionAtStart, PendingInv
  <1> QED BY <1>2, <1>3, <1>4

\* read_release publishes the read index.
LEMMA ReadReleaseIInv == ASSUME IInv, ReadRelease
                         PROVE  IInv'
  <1> USE DEF IInv, ReadRelease, producerVars
  <1>1. Len(got) \in Nat /\ Len(got) <= rlen
    BY DEF TypeOK
  <1>2. Len(got') = 0 /\ got' \in Seq(Byte) /\ 0 \in Index /\ 0 \in Bound
    OBVIOUS
  <1>3. CASE readWrapped
    <2>1. w < r /\ r = i /\ rbuf = 0 /\ rlen <= w
      BY <1>3 DEF ConsumerInv
    <2>2. r' = Len(got) /\ r' <= w
      BY <1>1, <1>3, <2>1 DEF NewR, ReadEnd, TypeOK
    <2>3. TypeOK'
      BY <1>1, <1>2, <2>2 DEF TypeOK
    <2>4. IndexInv'
      BY <2>1, <2>2 DEF IndexInv, TypeOK
    <2>5. ProducerInv'
      BY <1>1, <2>1, <2>2
      DEF ProducerInv, RegionAtW, RegionAtStart, PendingInv, TypeOK
    <2>6. ConsumerInv'
      BY DEF ConsumerInv
    <2> QED BY <2>3, <2>4, <2>5, <2>6
  <1>4. CASE ~readWrapped
    <2>1. rbuf = r /\ r + rlen <= (IF r <= w THEN w ELSE i)
      BY <1>4 DEF ConsumerInv
    <2>2. r' = IF r + Len(got) = Size THEN 0 ELSE r + Len(got)
      BY <1>4 DEF NewR, ReadEnd
    <2>3. /\ r' \in Index
          /\ r <= w => r <= r' /\ r' <= w
          /\ w < r => \/ r <= r' /\ r' <= i
                      \/ r' = 0 /\ i = Size
      BY <1>1, <2>1, <2>2 DEF TypeOK
    <2>4. TypeOK'
      BY <1>2, <2>3, SMTT(30) DEF TypeOK
    <2>5. IndexInv'
      BY <2>3 DEF IndexInv, TypeOK
    <2>6. ProducerInv'
      BY <2>3 DEF ProducerInv, RegionAtW, RegionAtStart, PendingInv, TypeOK
    <2>7. ConsumerInv'
      BY DEF ConsumerInv
    <2> QED BY <2>4, <2>5, <2>6, <2>7
  <1> QED BY <1>3, <1>4

\* The reader gives up what it acquired.
LEMMA ReadAbandonIInv == ASSUME IInv, ReadAbandon
                         PROVE  IInv'
  <1> USE DEF IInv, ReadAbandon, producerVars
  <1>1. Len(got') = 0 /\ got' \in Seq(Byte)
    OBVIOUS
  <1>2. TypeOK'
    BY <1>1 DEF TypeOK
  <1>3. IndexInv' /\ ConsumerInv'
    BY DEF IndexInv, ConsumerInv
  <1>4. ProducerInv'
    BY DEF ProducerInv, RegionAtW, RegionAtStart, PendingInv
  <1> QED BY <1>2, <1>3, <1>4

\* Every access of either thread preserves the inductive invariant.
LEMMA NextIInv == IInv /\ [Next]_bufferVars => IInv'
  <1> SUFFICES ASSUME IInv, [Next]_bufferVars PROVE IInv'
    OBVIOUS
  <1>1. CASE Producer
    BY <1>1, AcquireIInv, CopyInIInv, WriteReleaseIIInv, WriteReleaseWIInv,
       WriteAbandonIInv DEF Producer
  <1>2. CASE Consumer
    BY <1>2, ReadAcquireWIInv, ReadAcquireIIInv, CopyOutIInv, ReadReleaseIInv,
       ReadAbandonIInv DEF Consumer
  <1>3. CASE UNCHANGED bufferVars
    BY <1>3 DEF IInv, TypeOK, IndexInv, ProducerInv, ConsumerInv, RegionAtW,
       RegionAtStart, PendingInv, bufferVars, producerVars, consumerVars
  <1> QED BY <1>1, <1>2, <1>3 DEF Next

\* IInv is an invariant of the buffer.
THEOREM Inductive == Spec => []IInv
  BY InitIInv, NextIInv, PTL DEF Spec
-----------------------------------------------------------------------------
(* What the inductive invariant implies. *)

\* Type correctness: the indices never leave the array.
THEOREM TypeCorrect == Spec => []TypeOK
  <1>1. IInv => TypeOK
    BY DEF IInv
  <1> QED BY <1>1, Inductive, PTL

\* The producer's region and the elements the consumer may read are disjoint
\* at every moment, whatever the interleaving of the two threads.
THEOREM ExclusiveHolds == Spec => []Exclusive
  <1>1. IInv => Exclusive
    <2> SUFFICES ASSUME IInv, ppc # "idle" PROVE Exclusive
      BY DEF Exclusive, WriteRegion
    <2>1. RegionAtW \/ RegionAtStart
      BY DEF IInv, ProducerInv, TypeOK
    <2>2. WriteRegion \subseteq Index
      BY <2>1 DEF WriteRegion, RegionAtW, RegionAtStart, IInv, TypeOK
    <2>3. WriteRegion \cap Unread = {}
      BY <2>1 DEF WriteRegion, Unread, RegionAtW, RegionAtStart, IInv, TypeOK, IndexInv
    <2>4. ReadRegion \subseteq Unread
      BY DEF ReadRegion, Unread, IInv, TypeOK, IndexInv, ConsumerInv
    <2> QED BY <2>2, <2>3, <2>4 DEF Exclusive
  <1> QED BY <1>1, Inductive, PTL

\* The consumer only ever looks at committed elements.
THEOREM ReadsCommittedHolds == Spec => []ReadsCommitted
  <1>1. IInv => ReadsCommitted
    BY DEF ReadsCommitted, ReadRegion, Unread, IInv, TypeOK, IndexInv, ConsumerInv
  <1> QED BY <1>1, Inductive, PTL

\* The asserts of write_release and read_release never fail.
THEOREM AssertsNeverFail == Spec => []AssertsHold
  <1>1. IInv => AssertsHold
    BY DEF AssertsHold, WriteEnd, ReadEnd, IInv, TypeOK, IndexInv, ProducerInv,
           RegionAtW, RegionAtStart, ConsumerInv
  <1> QED BY <1>1, Inductive, PTL

\* Each release is accounted at the place the bytes were copied to or from.
THEOREM ReleaseMatches == Spec => []ReleaseMatchesRegion
  <1>1. IInv => ReleaseMatchesRegion
    BY DEF ReleaseMatchesRegion, WriteEnd, ReadEnd, IInv, TypeOK, ProducerInv,
           RegionAtW, RegionAtStart, ConsumerInv
  <1> QED BY <1>1, Inductive, PTL

\* When the buffer is twice the size of the largest request, as io::channel
\* declares it, an empty buffer accepts every request wherever r and w are.
THEOREM EmptyAcceptsHolds ==
  ASSUME NEW C \in Nat, Size = 2 * C, \A n \in Requests : n <= C
  PROVE  Spec => []EmptyAccepts
  <1>1. IInv => EmptyAccepts
    <2> SUFFICES ASSUME IInv, r = w, NEW n \in Requests
                 PROVE  ~Refused(n, w, r)
      BY DEF EmptyAccepts
    <2>1. n \in Nat /\ n <= C /\ w \in Index
      BY RequestsAssumption DEF IInv, TypeOK
    <2> QED BY <2>1 DEF Refused, FitsAtW, FitsAtStart, LinearFree, CalcFree
  <1> QED BY <1>1, Inductive, PTL
=============================================================================
