----------------------- MODULE BufferRefinementProofs -----------------------
(***************************************************************************)
(* The two-index buffer implements a FIFO of bytes, for every buffer size, *)
(* every element set and every set of request sizes: initial states map to *)
(* the empty queue, write_release's store of _w maps to Put, the copy of   *)
(* an element to Look, read_release to Remove, a dropped region to Leave,  *)
(* and every other access to a stutter.                                    *)
(***************************************************************************)
EXTENDS BipartiteBufferProofs, SequenceTheorems

USE SizeAssumption DEF Index, Bound

\* The place in the array of the k-th unread element, and the unread elements
\* in order, of a buffer with array d and indices rr, ww, ii.
Place(k, rr, ww, ii) ==
  IF rr <= ww \/ rr + k - 1 < ii THEN rr + k - 1 ELSE rr + k - 1 - ii

ContentOf(d, rr, ww, ii) == [k \in 1 .. Used(rr, ww, ii) |-> d[Place(k, rr, ww, ii)]]

Ordered(d, rr, ww, ii) == /\ d \in [Index -> Byte]
                          /\ rr \in Index /\ ww \in Index /\ ii \in Bound
                          /\ ww <= ii /\ (rr > ww => rr <= ii)

\* There are at most Size - 1 unread elements, each at its place in the array.
LEMMA ContentOfIsSeq ==
  ASSUME NEW d, NEW rr, NEW ww, NEW ii, Ordered(d, rr, ww, ii)
  PROVE  LET u == Used(rr, ww, ii)
             c == ContentOf(d, rr, ww, ii)
         IN  /\ u \in 0 .. (Size - 1)
             /\ c \in Seq(Byte) /\ Len(c) = u
             /\ \A k \in 1 .. u : /\ Place(k, rr, ww, ii) \in Index
                                  /\ c[k] = d[Place(k, rr, ww, ii)]
  <1> DEFINE u == Used(rr, ww, ii)
             c == ContentOf(d, rr, ww, ii)
  <1>1. u \in 0 .. (Size - 1) /\ \A k \in 1 .. u : Place(k, rr, ww, ii) \in Index
    BY DEF Ordered, Used, Place
  <1>2. c = [k \in 1 .. u |-> d[Place(k, rr, ww, ii)]]
    BY DEF ContentOf
  <1>3. \A k \in 1 .. u : d[Place(k, rr, ww, ii)] \in Byte
    BY <1>1 DEF Ordered
  <1> HIDE DEF u, c
  <1>4. c \in Seq(Byte) /\ Len(c) = u
    BY <1>1, <1>2, <1>3
  <1>5. \A k \in 1 .. u : c[k] = d[Place(k, rr, ww, ii)]
    BY <1>2
  <1> QED BY <1>1, <1>4, <1>5 DEF u, c

\* Two buffers with the same number of unread elements, the same one at every
\* place in the order, have the same content.
LEMMA ContentOfEqual ==
  ASSUME NEW d, NEW rr, NEW ww, NEW ii, Ordered(d, rr, ww, ii),
         NEW d2, NEW rr2, NEW ww2, NEW ii2, Ordered(d2, rr2, ww2, ii2),
         Used(rr, ww, ii) = Used(rr2, ww2, ii2),
         \A k \in 1 .. Used(rr, ww, ii) :
           d[Place(k, rr, ww, ii)] = d2[Place(k, rr2, ww2, ii2)]
  PROVE  ContentOf(d, rr, ww, ii) = ContentOf(d2, rr2, ww2, ii2)
  BY DEF ContentOf

\* Content is the content of the buffer's own array and indices.
LEMMA ContentIs ==
  /\ Content = ContentOf(data, r, w, i)
  /\ Content' = ContentOf(data', r', w', i')
  /\ IInv => Ordered(data, r, w, i)
  /\ IInv' => Ordered(data', r', w', i')
  BY DEF Content, ContentOf, Place, Ordered, IInv, TypeOK, IndexInv

-----------------------------------------------------------------------------
(* The steps that leave the queue alone. *)

\* A byte copied into the region write_acquire handed out is not in the queue.
LEMMA CopyInKeeps == ASSUME IInv, IInv', NEW b \in Byte, CopyIn(b)
                     PROVE  UNCHANGED <<Content, got>>
  <1> USE DEF CopyIn, consumerVars
  <1>1. RegionAtW \/ RegionAtStart
    BY DEF IInv, ProducerInv, TypeOK
  <1>2. \A k \in 1 .. Used(r, w, i) : Place(k, r, w, i) # wbuf + wcount
    BY <1>1 DEF Used, Place, IInv, TypeOK, IndexInv, RegionAtW, RegionAtStart
  <1>3. \A k \in 1 .. Used(r, w, i) : Place(k, r, w, i) \in Index
    BY ContentIs, ContentOfIsSeq
  <1>4. \A k \in 1 .. Used(r, w, i) : data[Place(k, r, w, i)] = data'[Place(k, r, w, i)]
    BY <1>2, <1>3 DEF IInv, TypeOK
  <1>5. Ordered(data, r, w, i) /\ Ordered(data', r, w, i)
    BY ContentIs
  <1> HIDE DEF CopyIn
  <1>6. ContentOf(data, r, w, i) = ContentOf(data', r, w, i)
    BY <1>4 DEF ContentOf
  <1>7. Content' = Content
    BY <1>6, ContentIs DEF CopyIn
  <1> QED BY <1>7 DEF CopyIn

\* The store of _i changes no unread element: while the writer is a lap ahead
\* the invalidation index stays where it is.
LEMMA StoreIKeeps == ASSUME IInv, IInv', WriteReleaseI
                     PROVE  UNCHANGED <<Content, got>>
  <1> USE DEF WriteReleaseI, consumerVars
  <1>1. IF writeWrapped THEN RegionAtStart ELSE RegionAtW
    BY DEF IInv, ProducerInv
  <1>2. r <= w \/ i' = i
    BY <1>1 DEF NewI, WriteEnd, RegionAtStart, RegionAtW, IInv, TypeOK, IndexInv
  <1>3. Used(r, w, i) = Used(r, w, i') /\ \A k : Place(k, r, w, i) = Place(k, r, w, i')
    BY <1>2 DEF Used, Place
  <1>4. Content' = Content
    BY <1>3, ContentIs, ContentOfEqual
  <1> QED BY <1>4

\* A step that changes neither the array nor an index leaves the content.
LEMMA OthersKeep == ASSUME UNCHANGED <<data, r, w, i>>
                    PROVE  UNCHANGED Content
  BY DEF Content
-----------------------------------------------------------------------------
(* The steps of the queue. *)

\* The store of _w appends the bytes copied since the acquire, and room for
\* them was there.
LEMMA StoreWPuts ==
  ASSUME IInv, IInv', WriteReleaseW
  PROVE  LET s == [k \in 1 .. wcount |-> data[wbuf + k - 1]]
         IN  /\ s \in [1 .. wcount -> Byte]
             /\ Content' = Content \o s
             /\ Len(Content) + Len(s) <= Size - 1
             /\ UNCHANGED got
  <1> USE DEF WriteReleaseW, consumerVars
  <1> DEFINE s == [k \in 1 .. wcount |-> data[wbuf + k - 1]]
             u == Used(r, w, i)
             u2 == Used(r, newW, i)
  <1>1. PendingInv
    BY DEF IInv, ProducerInv
  <1>2. /\ wcount \in Nat /\ \A k \in 1 .. wcount : wbuf + k - 1 \in Index
    BY <1>1 DEF PendingInv, IInv, TypeOK
  <1>3. /\ s \in [1 .. wcount -> Byte] /\ s \in Seq(Byte) /\ Len(s) = wcount
        /\ \A k \in 1 .. wcount : s[k] = data[wbuf + k - 1]
    <2>1. \A k \in 1 .. wcount : data[wbuf + k - 1] \in Byte
      BY <1>2 DEF IInv, TypeOK
    <2> QED BY <1>2, <2>1
  <1>4. u2 = u + wcount
    BY <1>1 DEF Used, PendingInv, IInv, TypeOK, IndexInv
  <1>5. \A k \in 1 .. u : Place(k, r, newW, i) = Place(k, r, w, i)
    BY <1>1 DEF Used, Place, PendingInv, IInv, TypeOK, IndexInv
  <1>6. \A k \in 1 .. wcount : Place(u + k, r, newW, i) = wbuf + k - 1
    BY <1>1 DEF Used, Place, PendingInv, IInv, TypeOK, IndexInv
  <1>7. /\ u \in Nat /\ Content \in Seq(Byte) /\ Len(Content) = u
        /\ \A k \in 1 .. u : Content[k] = data[Place(k, r, w, i)]
    BY ContentIs, ContentOfIsSeq
  <1>8. /\ u2 \in 0 .. (Size - 1) /\ Content' \in Seq(Byte) /\ Len(Content') = u2
        /\ \A k \in 1 .. u2 : Content'[k] = data[Place(k, r, newW, i)]
    BY ContentIs, ContentOfIsSeq
  <1> HIDE DEF s, u, u2, WriteReleaseW
  <1>9. /\ Content \o s \in Seq(Byte) /\ Len(Content \o s) = u + wcount
        /\ \A k \in 1 .. u + wcount :
             (Content \o s)[k] = IF k <= u THEN Content[k] ELSE s[k - u]
    <2>1. /\ Content \o s \in Seq(Byte) /\ Len(Content \o s) = Len(Content) + Len(s)
          /\ \A k \in 1 .. Len(Content) + Len(s) :
               (Content \o s)[k] = IF k <= Len(Content) THEN Content[k] ELSE s[k - Len(Content)]
      BY <1>3, <1>7, ConcatProperties
    <2> QED BY <1>3, <1>7, <2>1
  <1>10. \A k \in 1 .. u2 : Content'[k] = (Content \o s)[k]
    <2> SUFFICES ASSUME NEW k \in 1 .. u2 PROVE Content'[k] = (Content \o s)[k]
      OBVIOUS
    <2>0. u \in Nat /\ wcount \in Nat /\ u2 \in Nat /\ u2 = u + wcount /\ k \in 1 .. u + wcount
      BY <1>2, <1>4, <1>7, <1>8
    <2>1. CASE k <= u
      <3>1. k \in 1 .. u
        BY <2>0, <2>1
      <3>2. Content'[k] = data[Place(k, r, w, i)]
        BY <3>1, <1>5, <1>8
      <3>3. (Content \o s)[k] = Content[k]
        BY <2>0, <2>1, <1>9
      <3> QED BY <3>1, <3>2, <3>3, <1>7
    <2>2. CASE ~(k <= u)
      <3>1. k - u \in 1 .. wcount /\ u + (k - u) = k
        BY <2>0, <2>2
      <3>2. Content'[k] = data[wbuf + (k - u) - 1]
        BY <3>1, <1>6, <1>8
      <3>3. (Content \o s)[k] = s[k - u]
        BY <2>0, <2>2, <1>9
      <3>4. s[k - u] = data[wbuf + (k - u) - 1]
        BY <3>1, <1>3
      <3> QED BY <3>2, <3>3, <3>4
    <2> QED BY <2>0, <2>1, <2>2
  <1>11. Content' = Content \o s
    BY <1>4, <1>8, <1>9, <1>10, SeqEqual
  <1>12. Len(Content) + Len(s) <= Size - 1
    BY <1>3, <1>4, <1>7, <1>8
  <1> QED BY <1>3, <1>11, <1>12 DEF s, WriteReleaseW

\* The next element copied out is the next one of the queue.
LEMMA CopyOutLooks == ASSUME IInv, IInv', CopyOut
                      PROVE  Queue!Look
  <1> USE DEF CopyOut, producerVars
  <1> DEFINE n == Len(got)
  <1>1. n \in Nat /\ n < rlen
    BY DEF IInv, TypeOK
  <1>2. n < Used(r, w, i) /\ Place(n + 1, r, w, i) = rbuf + n
    <2> HIDE DEF n
    <2>1. CASE readWrapped
      BY <1>1, <2>1 DEF Used, Place, IInv, TypeOK, IndexInv, ConsumerInv
    <2>2. CASE ~readWrapped
      BY <1>1, <2>2 DEF Used, Place, IInv, TypeOK, IndexInv, ConsumerInv
    <2> QED BY <2>1, <2>2
  <1>3. Len(Content) = Used(r, w, i) /\ Content[n + 1] = data[rbuf + n]
    <2>1. n + 1 \in 1 .. Used(r, w, i)
      BY <1>1, <1>2 DEF Used, IInv, TypeOK
    <2> QED BY <1>2, <2>1, ContentIs, ContentOfIsSeq
  <1>4. UNCHANGED Content
    BY OthersKeep
  <1> QED BY <1>1, <1>2, <1>3, <1>4 DEF Queue!Look

\* read_release takes off exactly the elements looked at, wherever in the
\* array they and the rest lie.
LEMMA ReleaseRemoves == ASSUME IInv, IInv', ReadRelease
                        PROVE  Queue!Remove
  <1> USE DEF ReadRelease, producerVars
  <1> DEFINE n == Len(got)
             u == Used(r, w, i)
             u2 == Used(r', w, i)
             rest == SubSeq(Content, n + 1, Len(Content))
  <1>1. n \in Nat /\ n <= rlen
    BY DEF IInv, TypeOK
  <1>2. u2 = u - n
    BY <1>1 DEF Used, NewR, ReadEnd, IInv, TypeOK, IndexInv, ConsumerInv
  <1>3. \A k \in 1 .. u - n : Place(k, r', w, i) = Place(n + k, r, w, i)
    <2> SUFFICES ASSUME NEW k \in 1 .. u - n
                 PROVE  Place(k, r', w, i) = Place(n + k, r, w, i)
      OBVIOUS
    <2>1. /\ r \in Nat /\ w \in Nat /\ i \in Nat /\ n \in Nat /\ k \in Nat /\ k >= 1
          /\ w <= i /\ (r > w => r <= i) /\ rlen \in Nat /\ rbuf \in Nat
          /\ Size \in Nat /\ w < Size /\ i <= Size
          /\ k <= (IF r <= w THEN w - r ELSE i - r + w) - n
      BY <1>1, SizeAssumption DEF Used, IInv, TypeOK, IndexInv, Index, Bound
    <2>2. CASE r <= w
      <3>1. ~readWrapped /\ rbuf = r /\ r + rlen <= w
        BY <2>1, <2>2 DEF IInv, TypeOK, ConsumerInv
      <3>2. r' = r + n
        BY <2>1, <3>1, <1>1 DEF NewR, ReadEnd
      <3> QED BY <2>1, <2>2, <3>1, <3>2, <1>1 DEF Place
    <2>3. CASE r > w /\ readWrapped
      <3>1. r = i /\ rbuf = 0 /\ rlen <= w
        BY <2>1, <2>3 DEF IInv, ConsumerInv
      <3>2. r' = n
        BY <2>1, <2>3, <3>1, <1>1 DEF NewR, ReadEnd
      <3>3. n <= w
        BY <2>1, <3>1, <1>1
      <3> HIDE DEF n
      <3>4. Place(k, r', w, i) = n + k - 1
        BY <3>2, <3>3 DEF Place
      <3>5. Place(n + k, r, w, i) = n + k - 1
        BY <2>1, <2>3, <3>1 DEF Place
      <3> QED BY <3>4, <3>5
    <2>4. CASE r > w /\ ~readWrapped
      <3>1. rbuf = r /\ r + rlen <= i
        BY <2>1, <2>4 DEF IInv, TypeOK, ConsumerInv
      <3>2. r' = r + n \/ (r' = 0 /\ r + n = Size /\ i = Size)
        BY <2>1, <2>4, <3>1, <1>1 DEF NewR, ReadEnd
      <3> QED BY <2>1, <2>4, <3>1, <3>2, <1>1 DEF Place
    <2> QED BY <2>1, <2>2, <2>3, <2>4 DEF IInv, TypeOK
  <1>4. /\ u \in Nat /\ Content \in Seq(Byte) /\ Len(Content) = u
        /\ \A k \in 1 .. u : Content[k] = data[Place(k, r, w, i)]
    BY ContentIs, ContentOfIsSeq
  <1>5. /\ u2 \in Nat /\ Content' \in Seq(Byte) /\ Len(Content') = u2
        /\ \A k \in 1 .. u2 : Content'[k] = data[Place(k, r', w, i)]
    BY ContentIs, ContentOfIsSeq
  <1> HIDE DEF n, u, u2
  <1>6. /\ rest \in Seq(Byte) /\ Len(rest) = u - n
        /\ \A k \in 1 .. u - n : rest[k] = Content[n + k]
    <2>1. \A k \in (n + 1) .. u : Content[k] \in Byte
      BY <1>1, <1>4
    <2>2. n + 1 \in Int /\ u \in Int /\ n <= u
      BY <1>1, <1>2, <1>4, <1>5
    <2> QED BY <2>1, <2>2, <1>1, <1>4, SubSeqProperties
  <1>7. \A k \in 1 .. u2 : Content'[k] = rest[k]
    <2> SUFFICES ASSUME NEW k \in 1 .. u2 PROVE Content'[k] = rest[k]
      OBVIOUS
    <2>1. k \in 1 .. u - n /\ n + k \in 1 .. u
      BY <1>1, <1>2, <1>4, <1>5
    <2>2. Content'[k] = data[Place(n + k, r, w, i)]
      BY <2>1, <1>3, <1>5
    <2>3. rest[k] = Content[n + k]
      BY <2>1, <1>6
    <2> QED BY <2>1, <2>2, <2>3, <1>4
  <1>8. Content' = rest
    BY <1>2, <1>5, <1>6, <1>7, SeqEqual
  <1> QED BY <1>8 DEF Queue!Remove, n

\* Every access of either thread is a step of the queue or leaves it alone.
LEMMA StepRefines == ASSUME IInv, IInv', [Next]_bufferVars
                     PROVE  [Queue!Next]_(Queue!fifoVars)
  <1> USE DEF Queue!Next, Queue!fifoVars
  <1>1. ASSUME NEW n \in Requests, WriteAcquire(n) PROVE UNCHANGED <<Content, got>>
    BY <1>1, OthersKeep DEF WriteAcquire, consumerVars
  <1>2. ASSUME NEW b \in Byte, CopyIn(b) PROVE UNCHANGED <<Content, got>>
    BY <1>2, CopyInKeeps
  <1>3. CASE WriteReleaseI
    BY <1>3, StoreIKeeps
  <1>4. CASE WriteReleaseW
    <2> DEFINE s == [k \in 1 .. wcount |-> data[wbuf + k - 1]]
    <2>1. /\ s \in [1 .. wcount -> Byte] /\ Content' = Content \o s
          /\ Len(Content) + Len(s) <= Size - 1 /\ UNCHANGED got
      BY <1>4, StoreWPuts
    <2>2. wcount \in Nat /\ Len(s) = wcount
      BY DEF IInv, TypeOK
    <2>3. Content \in Seq(Byte)
      BY ContentIs, ContentOfIsSeq
    <2> HIDE DEF s
    <2>4. CASE wcount = 0
      <3>1. s = <<>>
        BY <2>1, <2>2, <2>4
      <3>2. Content' = Content
        BY <2>1, <2>3, <3>1, ConcatEmptySeq
      <3> QED BY <2>1, <3>2
    <2>5. CASE wcount > 0
      <3>1. wcount \in 1 .. (Size - 1)
        BY <2>1, <2>2, <2>3, <2>5
      <3>2. Queue!Put(s)
        BY <2>1 DEF Queue!Put
      <3> QED BY <2>1, <3>1, <3>2
    <2> QED BY <2>2, <2>4, <2>5
  <1>5. CASE WriteAbandon
    BY <1>5, OthersKeep DEF WriteAbandon, consumerVars
  <1>6. CASE ReadAcquireW
    BY <1>6, OthersKeep DEF ReadAcquireW
  <1>7. CASE ReadAcquireI
    BY <1>7, OthersKeep DEF ReadAcquireI
  <1>8. CASE CopyOut
    BY <1>8, CopyOutLooks
  <1>9. CASE ReadRelease
    BY <1>9, ReleaseRemoves
  <1>10. CASE ReadAbandon
    <2>1. Queue!Leave
      BY <1>10, OthersKeep DEF ReadAbandon, Queue!Leave
    <2> QED BY <2>1
  <1>11. CASE UNCHANGED bufferVars
    BY <1>11, OthersKeep DEF bufferVars, consumerVars
  <1> QED BY <1>1, <1>2, <1>3, <1>4, <1>5, <1>6, <1>7, <1>8, <1>9, <1>10, <1>11
          DEF Next, Producer, Consumer

\* The buffer shared by the two threads is a FIFO of at most Size - 1 bytes,
\* whatever their interleaving.
THEOREM RefinesFifo == Spec => ImplementsFifo
  <1>1. Init => Queue!Init
    <2> SUFFICES ASSUME Init PROVE Content = <<>> /\ got = <<>>
      BY DEF Queue!Init
    <2>1. Used(r, w, i) = 0
      BY DEF Init, Used
    <2> QED BY <2>1 DEF Init, Content
  <1>2. IInv /\ IInv' /\ [Next]_bufferVars => [Queue!Next]_(Queue!fifoVars)
    BY StepRefines
  <1> QED BY <1>1, <1>2, Inductive, PTL DEF Spec, ImplementsFifo, Queue!Spec
=============================================================================
