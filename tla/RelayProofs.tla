----------------------------- MODULE RelayProofs -----------------------------
(***************************************************************************)
(* Proofs of Relay's safety properties, for every size of the chunks, any  *)
(* traffic, any wiring of the two channels and any set of descriptors.     *)
(*                                                                         *)
(* The first part is arithmetic: what write_release and read_release do to *)
(* the indices.  The second is about sequences: the bytes of a channel     *)
(* before and after a recv and a send.  The third shows that every step    *)
(* keeps types, indices and the order of the bytes.                        *)
(***************************************************************************)
EXTENDS Relay, SequenceTheorems, FiniteSetTheorems, TLAPS

-----------------------------------------------------------------------------
(* The indices. *)

Indices == [r : Index, w : Index, i : Bound]
Sound(b) == b \in Indices /\ b.w <= b.i /\ (b.r > b.w => b.r <= b.i)
UsedOf(b) == Used(b.r, b.w, b.i)

\* The size of the buffers.
LEMMA ChunkFacts == CHUNK_SZ \in Nat /\ CHUNK_SZ > 1 /\ Size = 2 * CHUNK_SZ /\ Size \in Nat
BY ChunkAssumption, SizeAssumption

\* Sound indices delimit data.
LEMMA UsedIsNat == ASSUME NEW b, Sound(b) PROVE UsedOf(b) \in Nat
BY SizeAssumption DEF Sound, Indices, Index, Bound, UsedOf, Used

\* write_release(n) after a successful write_acquire(CHUNK_SZ) adds n elements.
LEMMA WriteReleaseAdds ==
  ASSUME NEW b, Sound(b), ~ Refused(CHUNK_SZ, b.w, b.r), NEW n \in 0 .. CHUNK_SZ
  PROVE  Sound(WriteRelease(b, n)) /\ UsedOf(WriteRelease(b, n)) = UsedOf(b) + n
<1>. DEFINE wrapped == FitsAtStart(CHUNK_SZ, b.w, b.r)
            ww == NewW(n, b.w, wrapped)
            ii == NewI(n, b.w, b.i, wrapped)
<1>. USE ChunkFacts DEF Index, Bound
<1>1. b.r \in Index /\ b.w \in Index /\ b.i \in Bound /\ b.w <= b.i /\ (b.r > b.w => b.r <= b.i)
  BY DEF Sound, Indices
<1>2. /\ WriteRelease(b, n) \in [r : {b.r}, w : {ww}, i : {ii}]
      /\ WriteRelease(b, n).r = b.r /\ WriteRelease(b, n).w = ww /\ WriteRelease(b, n).i = ii
  BY DEF WriteRelease, Sound, Indices
<1>3. CASE FitsAtW(CHUNK_SZ, b.w, b.r)
  <2>1. ~ wrapped
    BY <1>3 DEF FitsAtStart
  <2>2. /\ ww = IF b.w + n = Size THEN 0 ELSE b.w + n
        /\ ii = IF b.w + n > b.i THEN b.w + n ELSE b.i
    BY <2>1 DEF NewW, NewI, WriteEnd
  <2>3. /\ b.w + n <= Size
        /\ b.r > b.w => b.w + n < b.r
        /\ b.r <= b.w => b.w + n < Size + b.r
    BY <1>1, <1>3 DEF FitsAtW, LinearFree, CalcFree
  <2>4. PICK x \in Index, y \in Index, z \in Bound : b.r = x /\ b.w = y /\ b.i = z
    BY <1>1
  <2>5. /\ ww \in Index /\ ii \in Bound /\ ww <= ii /\ (b.r > ww => b.r <= ii)
        /\ Used(b.r, ww, ii) = Used(b.r, b.w, b.i) + n
    <3>1. /\ ww = IF y + n = Size THEN 0 ELSE y + n
          /\ ii = IF y + n > z THEN y + n ELSE z
          /\ y + n <= Size /\ (x > y => y + n < x) /\ (x <= y => y + n < Size + x)
          /\ y <= z /\ (x > y => x <= z)
      BY <1>1, <2>2, <2>3, <2>4
    <3>. HIDE DEF ww, ii
    <3>2. ww \in Index /\ ii \in Bound /\ ww <= ii /\ (x > ww => x <= ii)
      BY <3>1
    <3>3. Used(x, ww, ii) = Used(x, y, z) + n
      BY <3>1 DEF Used
    <3>. QED  BY <2>4, <3>2, <3>3
  <2>. QED  BY <1>1, <1>2, <2>5 DEF Sound, Indices, UsedOf
<1>4. CASE FitsAtStart(CHUNK_SZ, b.w, b.r)
  <2>1. wrapped
    BY <1>4
  <2>2. /\ ww = IF n = Size THEN 0 ELSE n
        /\ ii = IF n > b.w THEN n ELSE b.w
    BY <2>1 DEF NewW, NewI, WriteEnd
  <2>3. b.r <= b.w /\ CHUNK_SZ < b.r
    BY <1>1, <1>4 DEF FitsAtStart, FitsAtW, LinearFree, CalcFree
  <2>4. ww \in Index /\ ii \in Bound /\ ww <= ii /\ (b.r > ww => b.r <= ii)
    BY <1>1, <2>2, <2>3
  <2>5. Used(b.r, ww, ii) = Used(b.r, b.w, b.i) + n
    BY <1>1, <2>2, <2>3 DEF Used
  <2>. QED  BY <1>1, <1>2, <2>4, <2>5 DEF Sound, Indices, UsedOf
<1>. QED  BY <1>3, <1>4 DEF Refused

\* read_release(n) of a region that read_acquire has handed out removes n.
LEMMA ReadReleaseRemoves ==
  ASSUME NEW b, Sound(b), NEW n \in 0 .. ReadLen(b.r, b.w, b.i), ReadLen(b.r, b.w, b.i) > 0
  PROVE  /\ Sound(ReadRelease(b, n)) /\ UsedOf(ReadRelease(b, n)) = UsedOf(b) - n
         /\ n <= UsedOf(b)
<1>. DEFINE rr == NewR(n, b.r, ReadsAtStart(b.r, b.w, b.i))
<1>. USE ChunkFacts DEF Index, Bound
<1>1. b.r \in Index /\ b.w \in Index /\ b.i \in Bound /\ b.w <= b.i /\ (b.r > b.w => b.r <= b.i)
  BY DEF Sound, Indices
<1>2. /\ ReadRelease(b, n) \in [r : {rr}, w : {b.w}, i : {b.i}]
      /\ ReadRelease(b, n).r = rr /\ ReadRelease(b, n).w = b.w /\ ReadRelease(b, n).i = b.i
  BY DEF ReadRelease, Sound, Indices
<1>3. /\ rr \in Index /\ (rr > b.w => rr <= b.i)
      /\ Used(rr, b.w, b.i) = Used(b.r, b.w, b.i) - n /\ n <= Used(b.r, b.w, b.i)
  <2>1. CASE b.r <= b.w
    BY <1>1, <2>1 DEF NewR, ReadEnd, ReadsAtStart, ReadLen, Used
  <2>2. CASE b.r > b.w /\ b.r = b.i
    BY <1>1, <2>2 DEF NewR, ReadEnd, ReadsAtStart, ReadLen, Used
  <2>3. CASE b.r > b.w /\ b.r # b.i
    BY <1>1, <2>3 DEF NewR, ReadEnd, ReadsAtStart, ReadLen, Used
  <2>. QED  BY <1>1, <2>1, <2>2, <2>3
<1>. QED  BY <1>1, <1>2, <1>3 DEF Sound, Indices, UsedOf

-----------------------------------------------------------------------------
(* The bytes of a channel. *)

\* The next n bytes of a socket of which x were read before.
Piece(x, n) == [k \in 1 .. n |-> x + k]

\* The n numbers after x.
LEMMA PieceIsSeq ==
  ASSUME NEW x \in Nat, NEW n \in Nat
  PROVE  /\ Piece(x, n) \in Seq(Nat) /\ Len(Piece(x, n)) = n
         /\ \A k \in 1 .. n : Piece(x, n)[k] = x + k
<1>1. \A k \in 1 .. n : x + k \in Nat
  OBVIOUS
<1>2. Piece(x, n) \in [1 .. n -> Nat] /\ \A k \in 1 .. n : Piece(x, n)[k] = x + k
  BY <1>1 DEF Piece
<1>. QED  BY <1>2

\* Numbers in a row may be grouped at will.
LEMMA Associative ==
  ASSUME NEW a \in Seq(Nat), NEW b \in Seq(Nat), NEW c \in Seq(Nat)
  PROVE  (a \o b) \o c = a \o (b \o c)
OBVIOUS

\* A send moves bytes from the head of the content to what the kernel has:
\* what has gone through the channel, the content included, stays the same.
LEMMA SendKeepsThrough ==
  ASSUME NEW o \in Seq(Nat), NEW c \in Seq(Nat), NEW n \in 0 .. Len(c)
  PROVE  /\ SubSeq(c, 1, n) \in Seq(Nat)
         /\ SubSeq(c, n + 1, Len(c)) \in Seq(Nat)
         /\ Len(SubSeq(c, n + 1, Len(c))) = Len(c) - n
         /\ (o \o SubSeq(c, 1, n)) \o SubSeq(c, n + 1, Len(c)) = o \o c
<1>. DEFINE a == SubSeq(c, 1, n)
            b == SubSeq(c, n + 1, Len(c))
<1>1. a \in Seq(Nat) /\ b \in Seq(Nat) /\ Len(b) = Len(c) - n
  <2>1. Len(c) \in Nat /\ n \in Int /\ \A k \in 1 .. Len(c) : c[k] \in Nat
    OBVIOUS
  <2>2. a \in Seq(Nat)
    BY <2>1, SubSeqProperties
  <2>3. /\ b \in Seq(Nat)
        /\ Len(b) = IF n + 1 <= Len(c) THEN Len(c) - (n + 1) + 1 ELSE 0
    BY <2>1, SubSeqProperties
  <2>. HIDE DEF a, b
  <2>. QED  BY <2>1, <2>2, <2>3
<1>2. a \o b = c
  <2>1. 1 \in 1 .. Len(c) + 1 /\ n \in 1 - 1 .. Len(c) /\ Len(c) \in n .. Len(c)
    OBVIOUS
  <2>2. a \o b = SubSeq(c, 1, Len(c))
    BY <2>1, ConcatAdjacentSubSeq
  <2>3. SubSeq(c, 1, Len(c)) = c
    BY SubSeqFull
  <2>. QED  BY <2>2, <2>3
<1>. HIDE DEF a, b
<1>3. (o \o a) \o b = o \o (a \o b)
  BY <1>1, Associative
<1>4. (o \o a) \o b = o \o c
  BY <1>2, <1>3
<1>. QED  BY <1>1, <1>4 DEF a, b

\* The order of the bytes, as a fact about what has gone through the channels
\* (T), how many bytes of each socket were read (tk) and which socket each
\* channel reads (L).
Counted(T, tk, L) ==
  \A c \in Channel :
    /\ Len(T[c]) <= tk[L[c]]
    /\ \A k \in 1 .. Len(T[c]) : k <= T[c][k] /\ T[c][k] <= tk[L[c]]

InOrder(T) == \A c \in Channel : \A k \in 2 .. Len(T[c]) : T[c][k - 1] < T[c][k]

Spot(T, L, f, n, c, k) == L[c] = f /\ k \in 1 .. Len(T[c]) /\ T[c][k] = n

Once(T, tk, L) ==
  \A f \in Fd : \A n \in 1 .. tk[f] :
    \E c \in Channel, k \in Nat :
      /\ Spot(T, L, f, n, c, k)
      /\ \A d \in Channel, j \in Nat : Spot(T, L, f, n, d, j) => d = c /\ j = k

\* A recv of n bytes into channel c keeps the order.
LEMMA RecvKeepsOrder ==
  ASSUME NEW L \in [Channel -> Fd], NEW T \in [Channel -> Seq(Nat)], NEW tk \in [Fd -> Nat],
         Counted(T, tk, L), InOrder(T), Once(T, tk, L),
         NEW c \in Channel, NEW n \in Nat,
         NEW T2, T2 = [T EXCEPT ![c] = T[c] \o Piece(tk[L[c]], n)],
         NEW tk2, tk2 = [tk EXCEPT ![L[c]] = tk[L[c]] + n]
  PROVE  Counted(T2, tk2, L) /\ InOrder(T2) /\ Once(T2, tk2, L)
<1>. DEFINE x == tk[L[c]]
            l == Len(T[c])
<1>1. x \in Nat /\ l \in Nat /\ l <= x /\ L[c] \in Fd
  BY DEF Counted
<1>2. \A d \in Channel : d # c => T2[d] = T[d]
  OBVIOUS
<1>3. /\ Len(T2[c]) = l + n
      /\ \A k \in 1 .. l : T2[c][k] = T[c][k]
      /\ \A k \in 1 .. l + n : k > l => T2[c][k] = x + (k - l)
  <2>. DEFINE p == Piece(x, n)
  <2>1. T2[c] = T[c] \o p
    OBVIOUS
  <2>2. p \in Seq(Nat) /\ Len(p) = n /\ \A k \in 1 .. n : p[k] = x + k
    BY <1>1, PieceIsSeq
  <2>. HIDE DEF p, x, l
  <2>0. T[c] \in Seq(Nat)
    OBVIOUS
  <2>3. /\ Len(T[c] \o p) = l + Len(p)
        /\ \A k \in 1 .. l + Len(p) : (T[c] \o p)[k] = IF k <= l THEN T[c][k] ELSE p[k - l]
    BY <2>0, <2>2, ConcatProperties DEF l
  <2>. HIDE DEF l
  <2>4. \A k \in 1 .. l + n : k > l => k - l \in 1 .. n /\ ~ (k <= l)
    BY <1>1
  <2>5. \A k \in 1 .. l : k \in 1 .. l + n /\ k <= l
    BY <1>1
  <2>6. \A k \in 1 .. l + n : T2[c][k] = IF k <= l THEN T[c][k] ELSE p[k - l]
    BY <2>1, <2>2, <2>3
  <2>. QED  BY <2>1, <2>2, <2>3, <2>4, <2>5, <2>6
<1>4. tk2[L[c]] = x + n /\ \A f \in Fd : f # L[c] => tk2[f] = tk[f]
  BY <1>1
<1>5. \A f \in Fd : tk[f] \in Nat /\ tk2[f] \in Nat /\ tk[f] <= tk2[f]
  BY <1>1, <1>4
<1>6. \A d \in Channel : L[d] \in Fd /\ T[d] \in Seq(Nat)
  OBVIOUS
<1>7. \A d \in Channel : \A k \in 1 .. Len(T[d]) : T[d][k] \in Nat /\ k \in Nat
  BY <1>6
<1>8. \A d \in Channel : Len(T[d]) \in Nat
  BY <1>6
<1>. HIDE DEF x, l
<1>9. l = Len(T[c]) /\ x = tk[L[c]]
  BY DEF l, x
<1>10. Counted(T2, tk2, L)
  <2>. SUFFICES ASSUME NEW d \in Channel
                PROVE  /\ Len(T2[d]) <= tk2[L[d]]
                       /\ \A k \in 1 .. Len(T2[d]) : k <= T2[d][k] /\ T2[d][k] <= tk2[L[d]]
    BY DEF Counted
  <2>1. /\ Len(T[d]) <= tk[L[d]]
        /\ \A k \in 1 .. Len(T[d]) : k <= T[d][k] /\ T[d][k] <= tk[L[d]]
    BY DEF Counted
  <2>2. L[d] \in Fd /\ tk[L[d]] \in Nat /\ tk2[L[d]] \in Nat /\ tk[L[d]] <= tk2[L[d]]
    BY <1>5, <1>6
  <2>3. CASE d # c
    BY <1>2, <1>7, <1>8, <2>1, <2>2, <2>3
  <2>4. CASE d = c
    <3>1. Len(T2[c]) <= tk2[L[c]]
      BY <1>1, <1>3, <1>4
    <3>2. ASSUME NEW k \in 1 .. Len(T2[c]) PROVE k <= T2[c][k] /\ T2[c][k] <= tk2[L[c]]
      <4>1. CASE k \in 1 .. l
        BY <1>3, <1>7, <1>9, <2>1, <2>2, <2>4, <4>1
      <4>2. CASE k \notin 1 .. l
        BY <1>1, <1>3, <1>4, <4>2, SMTT(30)
      <4>. QED  BY <4>1, <4>2
    <3>. QED  BY <2>4, <3>1, <3>2
  <2>. QED  BY <2>3, <2>4
<1>11. InOrder(T2)
  <2>. SUFFICES ASSUME NEW d \in Channel, NEW k \in 2 .. Len(T2[d])
                PROVE  T2[d][k - 1] < T2[d][k]
    BY DEF InOrder
  <2>1. CASE d # c
    BY <1>2, <2>1 DEF InOrder
  <2>2. CASE d = c /\ k <= l
    <3>1. k \in 2 .. Len(T[c]) /\ k \in 1 .. l /\ k - 1 \in 1 .. l
      BY <1>1, <1>3, <1>9, <2>2
    <3>. QED  BY <1>3, <2>2, <3>1 DEF InOrder
  <2>3. CASE d = c /\ k = l + 1
    <3>1. T2[c][k] = x + 1 /\ l \in 1 .. l
      BY <1>1, <1>3, <2>3
    <3>2. T2[c][l] <= x /\ T2[c][l] \in Nat
      BY <1>3, <1>7, <1>9, <3>1 DEF Counted
    <3>3. k - 1 = l
      BY <1>1, <2>3
    <3>. QED  BY <1>1, <2>3, <3>1, <3>2, <3>3, SMTT(30)
  <2>4. CASE d = c /\ k > l + 1
    <3>1. k \in 1 .. l + n /\ k > l /\ k - 1 \in 1 .. l + n /\ k - 1 > l
      BY <1>1, <1>3, <2>4
    <3>2. T2[c][k] = x + (k - l) /\ T2[c][k - 1] = x + ((k - 1) - l)
      BY <1>3, <3>1
    <3>. QED  BY <1>1, <2>4, <3>1, <3>2
  <2>5. d = c => k <= l \/ k = l + 1 \/ k > l + 1
    BY <1>1, <1>3
  <2>. QED  BY <2>1, <2>2, <2>3, <2>4, <2>5
<1>12. Once(T2, tk2, L)
  <2>. SUFFICES ASSUME NEW f \in Fd, NEW m \in 1 .. tk2[f]
                PROVE  \E d \in Channel, k \in Nat :
                         /\ Spot(T2, L, f, m, d, k)
                         /\ \A e \in Channel, j \in Nat :
                              Spot(T2, L, f, m, e, j) => e = d /\ j = k
    BY DEF Once
  <2>1. ASSUME m <= tk[f], NEW e \in Channel, NEW j \in Nat
        PROVE  Spot(T2, L, f, m, e, j) <=> Spot(T, L, f, m, e, j)
    <3>1. CASE e # c
      BY <1>2, <3>1 DEF Spot
    <3>2. CASE e = c
      <4>1. ASSUME Spot(T2, L, f, m, c, j), ~ (j <= l) PROVE FALSE
        <5>1. f = L[c] /\ j \in 1 .. l + n /\ T2[c][j] = m
          BY <1>3, <4>1 DEF Spot
        <5>2. m = x + (j - l) /\ j > l /\ m <= x
          BY <1>1, <1>3, <1>9, <2>1, <4>1, <5>1, SMTT(30)
        <5>. QED  BY <1>1, <5>2
      <4>2. ASSUME j <= l PROVE Spot(T2, L, f, m, c, j) <=> Spot(T, L, f, m, c, j)
        <5>1. (j \in 1 .. Len(T2[c]) <=> j \in 1 .. l) /\ (j \in 1 .. l => T2[c][j] = T[c][j])
          BY <1>1, <1>3, <4>2
        <5>. QED  BY <1>9, <5>1 DEF Spot
      <4>3. Spot(T, L, f, m, c, j) => j <= l
        BY <1>1, <1>9 DEF Spot
      <4>. QED  BY <3>2, <4>1, <4>2, <4>3
    <3>. QED  BY <3>1, <3>2
  <2>2. CASE m <= tk[f]
    <3>1. m \in 1 .. tk[f]
      BY <1>5, <2>2
    <3>2. PICK d \in Channel, k \in Nat :
            /\ Spot(T, L, f, m, d, k)
            /\ \A e \in Channel, j \in Nat : Spot(T, L, f, m, e, j) => e = d /\ j = k
      BY <3>1 DEF Once
    <3>. QED  BY <2>1, <2>2, <3>2
  <2>3. CASE m > tk[f]
    <3>1. f = L[c] /\ m \in Nat /\ m > x /\ m <= x + n
      BY <1>1, <1>4, <1>5, <1>9, <2>3
    <3>. DEFINE k == l + (m - x)
    <3>2. k \in Nat /\ k \in 1 .. l + n /\ k > l /\ x + (k - l) = m
      BY <1>1, <3>1
    <3>3. Spot(T2, L, f, m, c, k)
      BY <1>3, <3>1, <3>2 DEF Spot
    <3>4. ASSUME NEW e \in Channel, NEW j \in Nat, Spot(T2, L, f, m, e, j)
          PROVE  e = c /\ j = k
      <4>1. L[e] = f /\ j \in 1 .. Len(T2[e]) /\ T2[e][j] = m
        BY <3>4 DEF Spot
      <4>2. e = c
        <5>. SUFFICES ASSUME e # c PROVE FALSE
          OBVIOUS
        <5>1. j \in 1 .. Len(T[e]) /\ T[e][j] = m /\ T[e][j] <= tk[f]
          BY <1>2, <4>1 DEF Counted
        <5>. QED  BY <1>5, <2>3, <3>1, <5>1
      <4>3. j > l
        <5>. SUFFICES ASSUME j <= l PROVE FALSE
          BY <1>1
        <5>1. j \in 1 .. l
          BY <1>1, <4>1, <4>2, <1>3
        <5>2. T[c][j] = m /\ T[c][j] <= x
          BY <1>3, <1>9, <4>1, <4>2, <5>1 DEF Counted
        <5>. QED  BY <1>1, <3>1, <5>2
      <4>4. m = x + (j - l)
        BY <1>3, <4>1, <4>2, <4>3
      <4>. QED  BY <1>1, <3>1, <4>2, <4>4
    <3>. HIDE DEF k
    <3>. QED  BY <3>2, <3>3, <3>4
  <2>4. m <= tk[f] \/ m > tk[f]
    BY <1>5
  <2>. QED  BY <2>2, <2>3, <2>4
<1>. QED  BY <1>10, <1>11, <1>12

-----------------------------------------------------------------------------
(* The bus. *)

\* Each channel has two descriptors.
LEMMA WiringFacts ==
  ASSUME wiring \in Wirings
  PROVE  /\ Left \in [Channel -> Fd] /\ Right \in [Channel -> Fd]
         /\ SessionFds \subseteq Fd /\ IsFiniteSet(SessionFds)
<1>1. Left \in [Channel -> Fd] /\ Right \in [Channel -> Fd]
  BY WiringAssumption DEF Wiring, Left, Right
<1>2. SessionFds = {Left["lr"]} \cup {Left["rl"]} \cup {Right["lr"]} \cup {Right["rl"]}
  BY DEF SessionFds, Channel
<1>3. SessionFds \subseteq Fd
  BY <1>1 DEF SessionFds
<1>4. IsFiniteSet(SessionFds)
  <2>1. IsFiniteSet({Left["lr"]})
    BY FS_Singleton
  <2>2. IsFiniteSet({Left["lr"]} \cup {Left["rl"]})
    BY <2>1, FS_AddElement
  <2>3. IsFiniteSet({Left["lr"]} \cup {Left["rl"]} \cup {Right["lr"]})
    BY <2>2, FS_AddElement
  <2>4. IsFiniteSet({Left["lr"]} \cup {Left["rl"]} \cup {Right["lr"]} \cup {Right["rl"]})
    BY <2>3, FS_AddElement
  <2>. QED  BY <1>2, <2>4
<1>. QED  BY <1>1, <1>3, <1>4

\* The bus enqueues well-formed events.
LEMMA EnqueueKeeps ==
  ASSUME queue \in Seq(EventOf), NEW f \in Fd \cup {"client"}, NEW flag \in Flag, Enqueue(f, flag)
  PROVE  queue' \in Seq(EventOf)
<1>. DEFINE e == [fd |-> f, mask |-> {flag}]
<1>1. e \in EventOf
  <2>1. {flag} \in (SUBSET Flag) \ {{}}
    OBVIOUS
  <2>. QED  BY <2>1, Zenon DEF EventOf
<1>2. queue' = queue \/ queue' = Append(queue, e)
  BY DEF Enqueue
<1>. HIDE DEF e
<1>. QED  BY <1>1, <1>2

\* The callbacks of an event are steps of the session's channels.
LEMMA CallbacksAreSteps ==
  ASSUME NEW f \in Fd \cup {"client"}, NEW mask
  PROVE  Callbacks(f, mask) \in Seq(StepOf)
<1>1. \A op \in {"recv", "handle", "send", "close"}, c \in Channel : Step(op, c, f) \in StepOf
  BY DEF Step, StepOf
<1>2. ASSUME NEW c \in Channel PROVE LeftSteps(c, f, mask) \in Seq(StepOf)
  <2>. DEFINE h == IF c \in Parsed THEN <<Step("handle", c, f)>> ELSE <<>>
              p == <<Step("recv", c, f)>>
              q == <<Step("send", c, f)>>
  <2>1. h \in Seq(StepOf) /\ p \in Seq(StepOf) /\ q \in Seq(StepOf)
    BY <1>1
  <2>2. LeftSteps(c, f, mask) = <<>> \/ LeftSteps(c, f, mask) = p \o h \o q
    BY DEF LeftSteps
  <2>. HIDE DEF h, p, q
  <2>3. p \o h \o q \in Seq(StepOf)
    BY <2>1
  <2>4. <<>> \in Seq(StepOf)
    OBVIOUS
  <2>. QED  BY <2>2, <2>3, <2>4, Zenon
<1>3. ASSUME NEW c \in Channel PROVE RightSteps(c, f, mask) \in Seq(StepOf)
  BY <1>1 DEF RightSteps
<1>4. SessionSteps(f, mask) \in Seq(StepOf)
  BY <1>1 DEF SessionSteps, Channel
<1>. DEFINE a == LeftSteps("lr", f, mask)
            b == RightSteps("lr", f, mask)
            c == LeftSteps("rl", f, mask)
            d == RightSteps("rl", f, mask)
            e == SessionSteps(f, mask)
<1>5. a \in Seq(StepOf) /\ b \in Seq(StepOf) /\ c \in Seq(StepOf) /\ d \in Seq(StepOf)
  BY <1>2, <1>3 DEF Channel
<1>6. Callbacks(f, mask) = a \o b \o c \o d \o e
  BY DEF Callbacks
<1>. HIDE DEF a, b, c, d
<1>. QED  BY <1>4, <1>5, <1>6

\* The steps the bus still has to take.
LEMMA HeadIsStep ==
  ASSUME BusInv, steps # <<>>
  PROVE  /\ Head(steps).ch \in Channel /\ Head(steps).fd \in Fd \cup {"client"}
         /\ Tail(steps) \in Seq(StepOf)
         /\ SubSeq(steps, 3, Len(steps)) \in Seq(StepOf)
         /\ NothingToHandle \in Seq(StepOf)
<1>1. steps \in Seq(StepOf)
  BY DEF BusInv
<1>2. Head(steps) \in StepOf /\ Tail(steps) \in Seq(StepOf)
  BY <1>1
<1>3. SubSeq(steps, 3, Len(steps)) \in Seq(StepOf)
  BY <1>1
<1>4. Head(steps).ch \in Channel /\ Head(steps).fd \in Fd \cup {"client"}
  BY <1>2 DEF StepOf
<1>. QED  BY <1>2, <1>3, <1>4 DEF NothingToHandle

\* What epoll_wait reports.
LEMMA WaitReports ==
  ASSUME TypeOK, EpollWait
  PROVE  events' \in Seq(EventOf)
<1>. DEFINE ready == {f \in SessionFds : open /\ sock[f].edge /\ Readiness(f) # {}}
            n == Cardinality(ready)
            ev(f) == [fd |-> f, mask |-> Readiness(f)]
<1>1. PICK order \in [1 .. n -> ready] :
        events' = [k \in DOMAIN order |-> [fd |-> order[k], mask |-> Readiness(order[k])]]
  BY DEF EpollWait
<1>2. SessionFds \subseteq Fd /\ IsFiniteSet(SessionFds)
  BY WiringFacts DEF TypeOK
<1>3. n \in Nat
  <2>1. ready \in SUBSET SessionFds
    OBVIOUS
  <2>. HIDE DEF ready
  <2>2. IsFiniteSet(ready)
    BY <1>2, <2>1, FS_Subset
  <2>. QED  BY <2>2, FS_CardinalityType
<1>4. \A f \in ready : ev(f) \in EventOf
  <2>. SUFFICES ASSUME NEW f \in ready PROVE ev(f) \in EventOf
    OBVIOUS
  <2>1. f \in Fd /\ Readiness(f) # {}
    BY <1>2
  <2>2. Readiness(f) \subseteq Flag
    BY DEF Readiness
  <2>3. Readiness(f) \in (SUBSET Flag) \ {{}}
    BY <2>1, <2>2
  <2>. QED  BY <2>1, <2>3, Zenon DEF EventOf
<1>5. events' \in [1 .. n -> EventOf]
  <2>. HIDE DEF ready, n
  <2>. QED  BY <1>1, <1>4
<1>. HIDE DEF n
<1>. QED  BY <1>3, <1>5

\* Every step keeps the events and the steps of the bus well-formed.
LEMMA BusKept ==
  ASSUME TypeOK, BusInv, Next
  PROVE  BusInv'
<1>. USE DEF BusInv
<1>1. "in" \in Flag /\ "out" \in Flag /\ "error" \in Flag
  BY DEF Flag
<1>2. CASE Kernel \/ Ended
  <2>1. UNCHANGED busVars
    BY <1>2 DEF Kernel, PeerSend, PeerRead, PeerFinish, PeerReset, Connect, Ended, vars
  <2>. QED  BY <2>1 DEF busVars
<1>3. CASE EpollWait
  <2>1. UNCHANGED <<queue, steps>>
    BY <1>3 DEF EpollWait
  <2>. QED  BY <1>3, <2>1, WaitReports
<1>4. CASE SwapQueue
  <2>1. events' = queue /\ queue' = <<>> /\ steps' = steps
    BY <1>4 DEF SwapQueue
  <2>2. <<>> \in Seq(EventOf)
    OBVIOUS
  <2>. QED  BY <2>1, <2>2
<1>5. CASE Dispatch
  <2>1. /\ events # <<>> /\ events' = Tail(events) /\ queue' = queue
        /\ steps' = <<>> \/ steps' = Callbacks(Head(events).fd, Head(events).mask)
    BY <1>5 DEF Dispatch
  <2>2. Head(events) \in EventOf /\ events' \in Seq(EventOf)
    BY <2>1
  <2>3. Head(events).fd \in Fd \cup {"client"}
    BY <2>2 DEF EventOf
  <2>4. Callbacks(Head(events).fd, Head(events).mask) \in Seq(StepOf)
    BY <2>3, CallbacksAreSteps
  <2>5. <<>> \in Seq(StepOf)
    OBVIOUS
  <2>6. steps' \in Seq(StepOf)
    BY <2>1, <2>4, <2>5, Zenon
  <2>. QED  BY <2>1, <2>2, <2>6
<1>6. CASE SkipRecv
  <2>1. steps # <<>> /\ steps' = NothingToHandle /\ UNCHANGED <<events, queue>>
    BY <1>6 DEF SkipRecv, At
  <2>. QED  BY <2>1, HeadIsStep
<1>7. CASE RecvData
  <2>1. steps # <<>> /\ steps' = Tail(steps) /\ UNCHANGED <<events, queue>>
    BY <1>7 DEF RecvData, AfterRecv, At
  <2>. QED  BY <2>1, HeadIsStep
<1>8. CASE RecvError
  <2>1. /\ steps # <<>> /\ steps' = NothingToHandle /\ UNCHANGED events
        /\ Enqueue(Head(steps).fd, "error")
    BY <1>8 DEF RecvError, ForceError, At
  <2>2. queue' \in Seq(EventOf)
    BY <1>1, <2>1, HeadIsStep, EnqueueKeeps
  <2>. QED  BY <2>1, <2>2, HeadIsStep
<1>9. CASE Handlers
  <2>1. CASE HandlerEnds
    <3>1. Enqueue("client", "error") /\ UNCHANGED <<events, steps>>
      BY <2>1 DEF HandlerEnds, EndSession
    <3>2. queue' \in Seq(EventOf)
      BY <1>1, <3>1, EnqueueKeeps
    <3>. QED  BY <3>1, <3>2
  <2>2. CASE HandlerReturns \/ HandlerThrows
    <3>1. /\ steps # <<>> /\ UNCHANGED <<events, queue>>
          /\ steps' = Tail(steps) \/ steps' = SubSeq(steps, 3, Len(steps))
      BY <2>2 DEF HandlerReturns, HandlerThrows, At
    <3>. QED  BY <3>1, HeadIsStep
  <2>. QED  BY <1>9, <2>1, <2>2 DEF Handlers
<1>10. CASE SkipSend \/ SendError \/ Close
  <2>1. steps # <<>> /\ steps' = Tail(steps) /\ UNCHANGED <<events, queue>>
    BY <1>10 DEF SkipSend, SendError, Close, At
  <2>. QED  BY <2>1, HeadIsStep
<1>11. CASE SendData
  <2>1. /\ steps # <<>> /\ steps' = Tail(steps) /\ UNCHANGED events
        /\ queue' = queue \/ Enqueue(Head(steps).fd, "out")
    BY <1>11 DEF SendData, At
  <2>2. queue' \in Seq(EventOf)
    BY <1>1, <2>1, HeadIsStep, EnqueueKeeps
  <2>. QED  BY <2>1, <2>2, HeadIsStep
<1>. QED  BY <1>2, <1>3, <1>4, <1>5, <1>6, <1>7, <1>8, <1>9, <1>10, <1>11, Zenon DEF Next, Reactor, Loop

-----------------------------------------------------------------------------
(* The sockets. *)

\* What the calls and the peers do to a socket.
LEMMA SocketUpdates ==
  ASSUME NEW s \in Socket
  PROVE  /\ s.inq \in Nat /\ s.room \in 0 .. Room
         /\ \A n \in Nat : LET t == [s EXCEPT !.inq = n, !.edge = TRUE]
                           IN  t \in Socket /\ t.inq = n
         /\ \A n \in Nat : LET t == [s EXCEPT !.inq = n] IN t \in Socket /\ t.inq = n
         /\ LET t == [s EXCEPT !.eof = TRUE, !.edge = TRUE] IN t \in Socket /\ t.inq = s.inq
         /\ LET t == [s EXCEPT !.err = "raised", !.edge = TRUE] IN t \in Socket /\ t.inq = s.inq
         /\ \A e \in {"none", "raised", "reported"} :
              LET t == [s EXCEPT !.err = e] IN t \in Socket /\ t.inq = s.inq
         /\ LET t == [s EXCEPT !.up = TRUE, !.room = Room, !.edge = TRUE]
            IN  t \in Socket /\ t.inq = s.inq
         /\ LET t == [s EXCEPT !.edge = FALSE] IN t \in Socket /\ t.inq = s.inq
         /\ \A n \in 0 .. Room, b \in BOOLEAN :
              LET t == [s EXCEPT !.room = n, !.nospace = FALSE, !.edge = b]
              IN  t \in Socket /\ t.inq = s.inq
         /\ \A n \in 0 .. Room, b \in BOOLEAN :
              LET t == [s EXCEPT !.room = n, !.nospace = b] IN t \in Socket /\ t.inq = s.inq
<1>0. Room \in 0 .. Room
  BY TrafficAssumption
<1>1. s.inq \in Nat /\ s.room \in 0 .. Room
  BY DEF Socket
<1>2. \A n \in Nat : LET t == [s EXCEPT !.inq = n, !.edge = TRUE] IN t \in Socket /\ t.inq = n
  BY DEF Socket
<1>3. \A n \in Nat : LET t == [s EXCEPT !.inq = n] IN t \in Socket /\ t.inq = n
  BY DEF Socket
<1>4. LET t == [s EXCEPT !.eof = TRUE, !.edge = TRUE] IN t \in Socket /\ t.inq = s.inq
  BY DEF Socket
<1>5. LET t == [s EXCEPT !.err = "raised", !.edge = TRUE] IN t \in Socket /\ t.inq = s.inq
  BY DEF Socket
<1>6. \A e \in {"none", "raised", "reported"} :
        LET t == [s EXCEPT !.err = e] IN t \in Socket /\ t.inq = s.inq
  BY DEF Socket
<1>7. LET t == [s EXCEPT !.up = TRUE, !.room = Room, !.edge = TRUE]
      IN  t \in Socket /\ t.inq = s.inq
  BY <1>0 DEF Socket
<1>8. LET t == [s EXCEPT !.edge = FALSE] IN t \in Socket /\ t.inq = s.inq
  BY DEF Socket
<1>9. \A n \in 0 .. Room, b \in BOOLEAN :
        LET t == [s EXCEPT !.room = n, !.nospace = FALSE, !.edge = b]
        IN  t \in Socket /\ t.inq = s.inq
  BY DEF Socket
<1>10. \A n \in 0 .. Room, b \in BOOLEAN :
         LET t == [s EXCEPT !.room = n, !.nospace = b] IN t \in Socket /\ t.inq = s.inq
  BY DEF Socket
<1>. QED  BY <1>1, <1>2, <1>3, <1>4, <1>5, <1>6, <1>7, <1>8, <1>9, <1>10, Zenon

Sockets == [Fd -> Socket]
\* Nothing is read that was not sent.
ReadOnlySent == \A f \in Fd : sock[f].inq <= given[f]
\* A step that reads nothing from a socket.
ReadsNothing ==
  /\ sock' \in Sockets /\ given' \in [Fd -> Nat] /\ ReadOnlySent'
  /\ \A f \in Fd : given'[f] - sock'[f].inq = given[f] - sock[f].inq

\* One socket changes, and not what is to be read from it.
LEMMA OneSocket ==
  ASSUME sock \in Sockets, given \in [Fd -> Nat], ReadOnlySent, given' = given,
         NEW f \in Fd, NEW t \in Socket, t.inq = sock[f].inq, sock' = [sock EXCEPT ![f] = t]
  PROVE  ReadsNothing
<1>1. sock' \in Sockets
  BY DEF Sockets
<1>2. \A g \in Fd : sock'[g].inq = sock[g].inq
  BY DEF Sockets
<1>. QED  BY <1>1, <1>2 DEF ReadsNothing, ReadOnlySent

\* What the peers and the kernel do takes nothing from the queues the session reads.
LEMMA KernelReadsNothing ==
  ASSUME TypeOK, ReadOnlySent, Kernel
  PROVE  ReadsNothing /\ UNCHANGED <<out, channelVars, phase, open, killed>>
<1>0. sock \in Sockets /\ given \in [Fd -> Nat]
  BY DEF TypeOK, Sockets
<1>1. PICK f \in SessionFds : \/ \E n \in Bursts[f] : PeerSend(f, n) \/ PeerRead(f, n)
                              \/ PeerFinish(f) \/ PeerReset(f) \/ Connect(f)
  BY DEF Kernel
<1>2. f \in Fd
  BY WiringFacts DEF TypeOK
<1>3. sock[f] \in Socket /\ sock[f].inq \in Nat /\ given[f] \in Nat /\ sock[f].inq <= given[f]
  BY <1>0, <1>2, SocketUpdates DEF Sockets, ReadOnlySent
<1>4. \A n \in Bursts[f] : n \in Nat
  BY <1>2, TrafficAssumption
<1>5. ASSUME NEW n \in Bursts[f], PeerSend(f, n)
      PROVE  ReadsNothing /\ UNCHANGED <<out, channelVars, phase, open, killed>>
  <2>. DEFINE t == [sock[f] EXCEPT !.inq = sock[f].inq + n, !.edge = TRUE]
  <2>1. /\ given' = [given EXCEPT ![f] = given[f] + n]
        /\ sock' = [sock EXCEPT ![f] = t]
        /\ UNCHANGED <<out, channelVars, phase, open, killed>>
    BY <1>5 DEF PeerSend, busVars
  <2>2. sock[f].inq + n \in Nat /\ n \in Nat
    BY <1>3, <1>4
  <2>3. t \in Socket /\ t.inq = sock[f].inq + n
    BY <1>3, <2>2, SocketUpdates
  <2>. HIDE DEF t
  <2>4. sock' \in Sockets /\ given' \in [Fd -> Nat]
    <3>1. sock' \in Sockets
      BY <1>0, <2>1, <2>3 DEF Sockets
    <3>2. given[f] + n \in Nat
      BY <1>3, <2>2
    <3>. QED  BY <1>0, <2>1, <3>1, <3>2
  <2>5. sock'[f].inq = sock[f].inq + n /\ given'[f] = given[f] + n
    BY <1>0, <1>2, <2>1, <2>3 DEF Sockets
  <2>6. \A g \in Fd : g # f => sock'[g] = sock[g] /\ given'[g] = given[g]
    BY <1>0, <1>2, <2>1 DEF Sockets
  <2>. QED  BY <1>3, <2>1, <2>2, <2>4, <2>5, <2>6 DEF ReadsNothing, ReadOnlySent
<1>6. ASSUME NEW n \in Bursts[f], PeerRead(f, n)
      PROVE  ReadsNothing /\ UNCHANGED <<out, channelVars, phase, open, killed>>
  <2>. DEFINE room == LeastOf(Room, sock[f].room + n)
              edge == sock[f].edge \/ sock[f].nospace
              t == [sock[f] EXCEPT !.room = room, !.nospace = FALSE, !.edge = edge]
  <2>1. given' = given /\ sock' = [sock EXCEPT ![f] = t]
        /\ UNCHANGED <<out, channelVars, phase, open, killed>>
    BY <1>6 DEF PeerRead, busVars
  <2>2. room \in 0 .. Room
    <3>1. Room \in Nat /\ n \in Nat /\ sock[f].room \in 0 .. Room
      BY <1>3, <1>4, SocketUpdates, TrafficAssumption
    <3>2. PICK x \in 0 .. Room : sock[f].room = x
      BY <3>1
    <3>. QED  BY <3>1, <3>2 DEF LeastOf
  <2>3. edge \in BOOLEAN
    OBVIOUS
  <2>. HIDE DEF room, edge
  <2>4. t \in Socket /\ t.inq = sock[f].inq
    <3>1. \A m \in 0 .. Room, b \in BOOLEAN :
            LET u == [sock[f] EXCEPT !.room = m, !.nospace = FALSE, !.edge = b]
            IN  u \in Socket /\ u.inq = sock[f].inq
      BY <1>3, SocketUpdates, Zenon
    <3>. QED  BY <2>2, <2>3, <3>1, Zenon
  <2>. QED  BY <1>0, <1>2, <2>1, <2>4, OneSocket
<1>7. CASE PeerFinish(f)
  <2>. DEFINE t == [sock[f] EXCEPT !.eof = TRUE, !.edge = TRUE]
  <2>1. given' = given /\ sock' = [sock EXCEPT ![f] = t]
        /\ UNCHANGED <<out, channelVars, phase, open, killed>>
    BY <1>7 DEF PeerFinish, busVars
  <2>2. t \in Socket /\ t.inq = sock[f].inq
    BY <1>3, SocketUpdates
  <2>. QED  BY <1>0, <1>2, <2>1, <2>2, OneSocket
<1>8. CASE PeerReset(f)
  <2>. DEFINE t == [sock[f] EXCEPT !.err = "raised", !.edge = TRUE]
  <2>1. given' = given /\ sock' = [sock EXCEPT ![f] = t]
        /\ UNCHANGED <<out, channelVars, phase, open, killed>>
    BY <1>8 DEF PeerReset, busVars
  <2>2. t \in Socket /\ t.inq = sock[f].inq
    BY <1>3, SocketUpdates
  <2>. QED  BY <1>0, <1>2, <2>1, <2>2, OneSocket
<1>9. CASE Connect(f)
  <2>. DEFINE t == [sock[f] EXCEPT !.up = TRUE, !.room = Room, !.edge = TRUE]
  <2>1. given' = given /\ sock' = [sock EXCEPT ![f] = t]
        /\ UNCHANGED <<out, channelVars, phase, open, killed>>
    BY <1>9 DEF Connect, busVars
  <2>2. t \in Socket /\ t.inq = sock[f].inq
    BY <1>3, SocketUpdates
  <2>. QED  BY <1>0, <1>2, <2>1, <2>2, OneSocket
<1>. QED  BY <1>1, <1>5, <1>6, <1>7, <1>8, <1>9

\* Sound indices delimit something to read.
LEMMA RegionFacts ==
  ASSUME NEW b, Sound(b)
  PROVE  ReadLen(b.r, b.w, b.i) \in Nat
<1>1. b.r \in Index /\ b.w \in Index /\ b.i \in Bound /\ b.w <= b.i /\ (b.r > b.w => b.r <= b.i)
  BY DEF Sound, Indices
<1>2. PICK x \in Index, y \in Index, z \in Bound : b.r = x /\ b.w = y /\ b.i = z
  BY <1>1
<1>3. y <= z /\ (x > y => x <= z)
  BY <1>1, <1>2
<1>4. ReadLen(x, y, z) \in Nat
  <2>1. CASE x <= y
    BY <2>1, SizeAssumption DEF ReadLen, Index, Bound
  <2>2. CASE x > y /\ x = z
    BY <2>2, SizeAssumption DEF ReadLen, Index, Bound
  <2>3. CASE x > y /\ x # z
    BY <1>3, <2>3, SizeAssumption DEF ReadLen, Index, Bound
  <2>. QED  BY <2>1, <2>2, <2>3, SizeAssumption DEF Index, Bound
<1>. QED  BY <1>2, <1>4

\* The smaller of two numbers.
LEMMA LeastOfFacts ==
  ASSUME NEW m \in Nat, NEW n \in Nat
  PROVE  LeastOf(m, n) \in 0 .. m /\ LeastOf(m, n) \in 0 .. n /\ LeastOf(m, n) \in Nat
BY DEF LeastOf

\* The channels' buffers: their types, and indices that match what they hold.
Buffers ==
  /\ out \in [Channel -> Seq(Nat)] /\ content \in [Channel -> Seq(Nat)]
  /\ buf \in [Channel -> Indices]
  /\ \A c \in Channel : Sound(buf[c]) /\ UsedOf(buf[c]) = Len(content[c])

\* Buffers says of all channels what the two invariants say.
LEMMA BuffersAs ==
  TypeOK => (Buffers <=> IndexInv /\ IndicesMatchContent)
BY DEF TypeOK, Buffers, Indices, Sound, UsedOf, IndexInv, IndicesMatchContent

\* One channel's buffer changes.
LEMMA OneBuffer ==
  ASSUME Buffers, NEW c \in Channel,
         NEW o \in Seq(Nat), out' = [out EXCEPT ![c] = o],
         NEW t \in Seq(Nat), content' = [content EXCEPT ![c] = t],
         NEW b, Sound(b), UsedOf(b) = Len(t), buf' = [buf EXCEPT ![c] = b]
  PROVE  Buffers'
<1>1. b \in Indices
  BY DEF Sound
<1>2. /\ out' \in [Channel -> Seq(Nat)] /\ content' \in [Channel -> Seq(Nat)]
      /\ buf' \in [Channel -> Indices]
  BY <1>1 DEF Buffers
<1>3. buf'[c] = b /\ content'[c] = t
  BY DEF Buffers
<1>4. \A d \in Channel : d # c => buf'[d] = buf[d] /\ content'[d] = content[d]
  BY DEF Buffers
<1>5. \A d \in Channel : Sound(buf'[d]) /\ UsedOf(buf'[d]) = Len(content'[d])
  <2>. SUFFICES ASSUME NEW d \in Channel PROVE Sound(buf'[d]) /\ UsedOf(buf'[d]) = Len(content'[d])
    OBVIOUS
  <2>1. CASE d = c
    BY <1>3, <2>1
  <2>2. CASE d # c
    <3>1. Sound(buf[d]) /\ UsedOf(buf[d]) = Len(content[d])
      BY DEF Buffers
    <3>. QED  BY <1>4, <2>2, <3>1
  <2>. QED  BY <2>1, <2>2
<1>6. \A d \in Channel : (Sound(buf[d]) /\ UsedOf(buf[d]) = Len(content[d]))'
  BY <1>5 DEF Sound, UsedOf
<1>. QED  BY <1>2, <1>6, Zenon DEF Buffers

\* A send takes from the head of the buffer what it gives to the kernel.
LEMMA SendDataKeeps ==
  ASSUME TypeOK, BusInv, ReadOnlySent, Buffers, SendData
  PROVE  /\ ReadsNothing /\ Buffers'
         /\ \A d \in Channel : out'[d] \o content'[d] = out[d] \o content[d]
<1>. DEFINE c == Head(steps).ch
            f == Right[c]
            n == LeastOf(Region(c), sock[f].room)
            b == ReadRelease(buf[c], n)
            o == out[c] \o SubSeq(content[c], 1, n)
            t == SubSeq(content[c], n + 1, Len(content[c]))
            ns == sock[f].nospace \/ n < Region(c)
            s == [sock[f] EXCEPT !.room = sock[f].room - n, !.nospace = ns]
<1>1. /\ steps # <<>> /\ Region(c) > 0 /\ given' = given
      /\ sock' = [sock EXCEPT ![f] = s]
      /\ out' = [out EXCEPT ![c] = o] /\ buf' = [buf EXCEPT ![c] = b]
      /\ content' = [content EXCEPT ![c] = t]
  BY DEF SendData, At, AfterSend
<1>2. c \in Channel
  BY <1>1, HeadIsStep
<1>3. f \in Fd
  BY <1>2, WiringFacts DEF TypeOK
<1>4. sock \in Sockets /\ given \in [Fd -> Nat] /\ sock[f] \in Socket
  BY <1>3 DEF TypeOK, Sockets
<1>5. sock[f].room \in 0 .. Room /\ Room \in Nat
  BY <1>4, SocketUpdates, TrafficAssumption
<1>6. Sound(buf[c]) /\ UsedOf(buf[c]) = Len(content[c])
  BY <1>2 DEF Buffers
<1>7. Region(c) \in Nat
  BY <1>6, RegionFacts DEF Region
<1>8. n \in 0 .. Region(c) /\ n \in 0 .. sock[f].room
  <2>1. sock[f].room \in Nat
    BY <1>5
  <2>. QED  BY <1>7, <2>1, LeastOfFacts
<1>9. ReadsNothing
  <2>1. sock[f].room - n \in 0 .. Room
    <3>1. PICK x \in 0 .. Room : sock[f].room = x
      BY <1>5
    <3>2. n \in 0 .. x
      BY <1>8, <3>1
    <3>. HIDE DEF n
    <3>. QED  BY <1>5, <3>1, <3>2
  <2>2. ns \in BOOLEAN
    OBVIOUS
  <2>3. \A m \in 0 .. Room, z \in BOOLEAN :
          LET u == [sock[f] EXCEPT !.room = m, !.nospace = z]
          IN  u \in Socket /\ u.inq = sock[f].inq
    BY <1>4, SocketUpdates, Zenon
  <2>. HIDE DEF ns, n, f
  <2>4. s \in Socket /\ s.inq = sock[f].inq
    BY <2>1, <2>2, <2>3, Zenon
  <2>. HIDE DEF s
  <2>. QED  BY <1>1, <1>3, <1>4, <2>4, OneSocket
<1>10. Sound(b) /\ UsedOf(b) = UsedOf(buf[c]) - n /\ n <= UsedOf(buf[c])
  <2>1. n \in 0 .. ReadLen(buf[c].r, buf[c].w, buf[c].i) /\ ReadLen(buf[c].r, buf[c].w, buf[c].i) > 0
    BY <1>1, <1>8 DEF Region
  <2>. HIDE DEF n, c
  <2>. QED  BY <1>6, <2>1, ReadReleaseRemoves
<1>11. out[c] \in Seq(Nat) /\ content[c] \in Seq(Nat)
  BY <1>2 DEF Buffers
<1>12. n \in 0 .. Len(content[c])
  BY <1>6, <1>8, <1>10, <1>11, UsedIsNat, SMTT(30)
<1>. HIDE DEF n, c
<1>13. /\ SubSeq(content[c], 1, n) \in Seq(Nat) /\ t \in Seq(Nat)
       /\ Len(t) = Len(content[c]) - n /\ o \o t = out[c] \o content[c]
  BY <1>11, <1>12, SendKeepsThrough
<1>14. o \in Seq(Nat)
  BY <1>11, <1>13
<1>. HIDE DEF o, t, b
<1>15. UsedOf(b) = Len(t)
  BY <1>6, <1>10, <1>13
<1>16. Buffers'
  BY <1>1, <1>2, <1>10, <1>13, <1>14, <1>15, OneBuffer
<1>17. \A d \in Channel : out'[d] \o content'[d] = out[d] \o content[d]
  <2>. SUFFICES ASSUME NEW d \in Channel PROVE out'[d] \o content'[d] = out[d] \o content[d]
    OBVIOUS
  <2>1. d = c => out'[d] = o /\ content'[d] = t
    BY <1>1 DEF Buffers
  <2>2. d # c => out'[d] = out[d] /\ content'[d] = content[d]
    BY <1>1 DEF Buffers
  <2>. QED  BY <1>13, <2>1, <2>2, Zenon
<1>. QED  BY <1>9, <1>16, <1>17

\* A recv adds the next bytes of the socket to the end of the buffer.
LEMMA RecvDataKeeps ==
  ASSUME TypeOK, BusInv, ReadOnlySent, Buffers, RecvData
  PROVE  /\ sock' \in Sockets /\ given' = given /\ ReadOnlySent' /\ Buffers' /\ out' = out
         /\ \E c \in Channel : \E n \in Nat :
              /\ n <= sock[Left[c]].inq
              /\ content' = [content EXCEPT ![c] =
                                content[c] \o Piece(given[Left[c]] - sock[Left[c]].inq, n)]
              /\ sock'[Left[c]].inq = sock[Left[c]].inq - n
              /\ \A g \in Fd : g # Left[c] => sock'[g] = sock[g]
<1>. DEFINE c == Head(steps).ch
            f == Left[c]
            q == sock[f].inq
            n == LeastOf(CHUNK_SZ, q)
            b == WriteRelease(buf[c], n)
            s == [sock[f] EXCEPT !.inq = q - n]
            p == Piece(given[f] - q, n)
            t == content[c] \o p
<1>1. /\ steps # <<>> /\ ~ Refused(CHUNK_SZ, buf[c].w, buf[c].r)
      /\ given' = given /\ out' = out
      /\ sock' = [sock EXCEPT ![f] = s]
      /\ buf' = [buf EXCEPT ![c] = b]
      /\ content' = [content EXCEPT ![c] = t]
  BY DEF RecvData, At, Piece
<1>2. c \in Channel
  BY <1>1, HeadIsStep
<1>3. f \in Fd
  BY <1>2, WiringFacts DEF TypeOK
<1>4. sock \in Sockets /\ given \in [Fd -> Nat] /\ sock[f] \in Socket
  BY <1>3 DEF TypeOK, Sockets
<1>5. q \in Nat /\ given[f] \in Nat /\ q <= given[f]
  BY <1>3, <1>4, SocketUpdates DEF ReadOnlySent
<1>6. Sound(buf[c]) /\ UsedOf(buf[c]) = Len(content[c])
  BY <1>2 DEF Buffers
<1>7. n \in 0 .. CHUNK_SZ /\ n \in 0 .. q /\ n \in Nat
  BY <1>5, ChunkFacts, LeastOfFacts
<1>. HIDE DEF n
<1>8. Sound(b) /\ UsedOf(b) = UsedOf(buf[c]) + n
  <2>. HIDE DEF c
  <2>. QED  BY <1>1, <1>6, <1>7, WriteReleaseAdds
<1>9. out[c] \in Seq(Nat) /\ content[c] \in Seq(Nat)
  BY <1>2 DEF Buffers
<1>. HIDE DEF c, q
<1>10. p \in Seq(Nat) /\ Len(p) = n
  <2>1. given[f] - q \in Nat
    BY <1>5
  <2>. QED  BY <1>7, <2>1, PieceIsSeq
<1>. HIDE DEF p, b, f
<1>11. t \in Seq(Nat) /\ Len(t) = Len(content[c]) + n
  <2>1. t \in Seq(Nat) /\ Len(t) = Len(content[c]) + Len(p)
    BY <1>9, <1>10, ConcatProperties
  <2>. QED  BY <1>10, <2>1
<1>. HIDE DEF t
<1>12. Buffers'
  <2>1. out' = [out EXCEPT ![c] = out[c]]
    BY <1>1, <1>2 DEF Buffers
  <2>2. UsedOf(b) = Len(t)
    BY <1>6, <1>8, <1>11
  <2>. QED  BY <1>1, <1>2, <1>8, <1>9, <1>11, <2>1, <2>2, OneBuffer
<1>13. s \in Socket /\ s.inq = q - n
  <2>1. q - n \in Nat
    BY <1>5, <1>7
  <2>. QED  BY <1>4, <2>1, SocketUpdates
<1>. HIDE DEF s
<1>14. /\ sock' \in Sockets /\ sock'[f].inq = q - n
       /\ \A g \in Fd : g # f => sock'[g] = sock[g]
  BY <1>1, <1>3, <1>4, <1>13 DEF Sockets
<1>15. ReadOnlySent'
  <2>. SUFFICES ASSUME NEW g \in Fd PROVE sock'[g].inq <= given[g]
    BY <1>1 DEF ReadOnlySent
  <2>1. CASE g = f
    BY <1>5, <1>7, <1>14, <2>1
  <2>2. CASE g # f
    BY <1>14, <2>2 DEF ReadOnlySent
  <2>. QED  BY <2>1, <2>2
<1>16. n <= sock[Left[c]].inq
  BY <1>5, <1>7 DEF q, f
<1>17. content' = [content EXCEPT ![c] = content[c] \o Piece(given[Left[c]] - sock[Left[c]].inq, n)]
  BY <1>1 DEF t, p, q, f
<1>18. sock'[Left[c]].inq = sock[Left[c]].inq - n /\ \A g \in Fd : g # Left[c] => sock'[g] = sock[g]
  BY <1>14 DEF q, f
<1>. QED  BY <1>1, <1>2, <1>7, <1>12, <1>14, <1>15, <1>16, <1>17, <1>18

\* The other steps of the loop.
LEMMA LoopKeeps ==
  ASSUME TypeOK, BusInv, ReadOnlySent, Buffers, Loop \/ Handlers
  PROVE  /\ ReadsNothing /\ Buffers'
         /\ \A d \in Channel : out'[d] \o content'[d] = out[d] \o content[d]
<1>0. sock \in Sockets /\ given \in [Fd -> Nat]
  BY DEF TypeOK, Sockets
<1>1. ASSUME UNCHANGED <<out, channelVars>>
      PROVE  Buffers' /\ \A d \in Channel : out'[d] \o content'[d] = out[d] \o content[d]
  BY <1>1 DEF Buffers, channelVars, Sound, UsedOf
<1>2. ASSUME UNCHANGED kernelVars PROVE ReadsNothing
  BY <1>0, <1>2 DEF kernelVars, ReadsNothing, ReadOnlySent
<1>3. CASE EpollWait
  <2>1. /\ sock' = [f \in Fd |-> [sock[f] EXCEPT !.edge = FALSE]] /\ given' = given
        /\ UNCHANGED <<out, channelVars>>
    BY <1>3 DEF EpollWait
  <2>2. \A f \in Fd : sock'[f] \in Socket /\ sock'[f].inq = sock[f].inq
    <3>. SUFFICES ASSUME NEW f \in Fd PROVE sock'[f] \in Socket /\ sock'[f].inq = sock[f].inq
      OBVIOUS
    <3>1. sock[f] \in Socket
      BY <1>0 DEF Sockets
    <3>2. sock'[f] = [sock[f] EXCEPT !.edge = FALSE]
      BY <2>1
    <3>3. [sock[f] EXCEPT !.edge = FALSE] \in Socket /\ [sock[f] EXCEPT !.edge = FALSE].inq = sock[f].inq
      BY <3>1, SocketUpdates
    <3>. QED  BY <3>2, <3>3, Zenon
  <2>3. sock' \in Sockets
    BY <2>1, <2>2 DEF Sockets
  <2>4. ReadsNothing
    BY <1>0, <2>1, <2>2, <2>3 DEF ReadsNothing, ReadOnlySent
  <2>. QED  BY <1>1, <2>1, <2>4
<1>4. CASE SwapQueue \/ Dispatch \/ SkipRecv \/ SkipSend \/ Close \/ Handlers
  <2>1. UNCHANGED kernelVars /\ UNCHANGED channelVars
    BY <1>4 DEF SwapQueue, Dispatch, SkipRecv, SkipSend, Close, Handlers, HandlerEnds,
                HandlerReturns, HandlerThrows
  <2>2. UNCHANGED <<out, channelVars>>
    BY <2>1 DEF kernelVars
  <2>. QED  BY <1>1, <1>2, <2>1, <2>2
<1>5. CASE RecvError
  <2>. DEFINE f == Left[Head(steps).ch]
              err == IF sock[f].err = "raised" THEN "reported" ELSE sock[f].err
              t == [sock[f] EXCEPT !.err = err]
  <2>1. /\ steps # <<>> /\ sock' = [sock EXCEPT ![f] = t] /\ given' = given
        /\ UNCHANGED <<out, channelVars>>
    BY <1>5 DEF RecvError, At
  <2>2. f \in Fd
    BY <2>1, HeadIsStep, WiringFacts DEF TypeOK
  <2>3. sock[f] \in Socket
    BY <1>0, <2>2 DEF Sockets
  <2>4. err \in {"none", "raised", "reported"}
    BY <2>3 DEF Socket
  <2>. HIDE DEF err, f
  <2>5. t \in Socket /\ t.inq = sock[f].inq
    BY <2>3, <2>4, SocketUpdates
  <2>. HIDE DEF t
  <2>6. ReadsNothing
    BY <1>0, <2>1, <2>2, <2>5, OneSocket
  <2>. QED  BY <1>1, <2>1, <2>6
<1>6. CASE SendError
  <2>. DEFINE f == Right[Head(steps).ch]
              t == [sock[f] EXCEPT !.err = "reported"]
  <2>1. /\ steps # <<>> /\ sock' = [sock EXCEPT ![f] = t] /\ given' = given
        /\ UNCHANGED <<out, channelVars>>
    BY <1>6 DEF SendError, At
  <2>2. f \in Fd
    BY <2>1, HeadIsStep, WiringFacts DEF TypeOK
  <2>3. sock[f] \in Socket
    BY <1>0, <2>2 DEF Sockets
  <2>. HIDE DEF f
  <2>5. t \in Socket /\ t.inq = sock[f].inq
    BY <2>3, SocketUpdates
  <2>. HIDE DEF t
  <2>6. ReadsNothing
    BY <1>0, <2>1, <2>2, <2>5, OneSocket
  <2>. QED  BY <1>1, <2>1, <2>6
<1>7. CASE SendData
  BY <1>7, SendDataKeeps
<1>. QED  BY <1>3, <1>4, <1>5, <1>6, <1>7, Zenon DEF Loop

-----------------------------------------------------------------------------
(* The order of the bytes. *)

Thru == [c \in Channel |-> Through(c)]
Took == [f \in Fd |-> Taken(f)]
Order == Counted(Thru, Took, Left) /\ InOrder(Thru) /\ Once(Thru, Took, Left)

\* Thru and Took are the values of Through and Taken.
LEMMA OrderFacts ==
  TypeOK /\ ReadOnlySent =>
    /\ Thru \in [Channel -> Seq(Nat)] /\ Took \in [Fd -> Nat] /\ Left \in [Channel -> Fd]
    /\ \A c \in Channel : Thru[c] = Through(c) /\ Through(c) \in Seq(Nat)
                          /\ DOMAIN Through(c) = 1 .. Len(Through(c))
                          /\ Took[Left[c]] = Taken(Left[c])
    /\ \A f \in Fd : Took[f] = Taken(f) /\ Taken(f) \in Nat
<1>. SUFFICES ASSUME TypeOK, ReadOnlySent
              PROVE  /\ Thru \in [Channel -> Seq(Nat)] /\ Took \in [Fd -> Nat]
                     /\ Left \in [Channel -> Fd]
                     /\ \A c \in Channel : Thru[c] = Through(c) /\ Through(c) \in Seq(Nat)
                                           /\ DOMAIN Through(c) = 1 .. Len(Through(c))
                                           /\ Took[Left[c]] = Taken(Left[c])
                     /\ \A f \in Fd : Took[f] = Taken(f) /\ Taken(f) \in Nat
  OBVIOUS
<1>1. Left \in [Channel -> Fd]
  BY WiringFacts DEF TypeOK
<1>2. \A c \in Channel : Through(c) \in Seq(Nat)
  <2>. SUFFICES ASSUME NEW c \in Channel PROVE Through(c) \in Seq(Nat)
    OBVIOUS
  <2>1. out[c] \in Seq(Nat) /\ content[c] \in Seq(Nat)
    BY DEF TypeOK
  <2>. QED  BY <2>1 DEF Through
<1>3. \A f \in Fd : Taken(f) \in Nat
  <2>. SUFFICES ASSUME NEW f \in Fd PROVE Taken(f) \in Nat
    OBVIOUS
  <2>1. sock[f] \in Socket /\ given[f] \in Nat /\ sock[f].inq <= given[f]
    BY DEF TypeOK, ReadOnlySent
  <2>2. sock[f].inq \in Nat
    BY <2>1, SocketUpdates
  <2>. QED  BY <2>1, <2>2 DEF Taken
<1>. HIDE DEF Through, Taken
<1>4. /\ \A c \in Channel : Thru[c] = Through(c)
      /\ \A f \in Fd : Took[f] = Taken(f)
      /\ Thru \in [Channel -> Seq(Nat)] /\ Took \in [Fd -> Nat]
  BY <1>2, <1>3 DEF Thru, Took
<1>5. \A c \in Channel : DOMAIN Through(c) = 1 .. Len(Through(c))
  BY <1>2
<1>. QED  BY <1>1, <1>2, <1>3, <1>4, <1>5

\* The order as the properties of Relay state it.
LEMMA OrderAs ==
  TypeOK => (CountInv /\ Increasing /\ SeenOnce <=> ReadOnlySent /\ Order)
<1>. SUFFICES ASSUME TypeOK, ReadOnlySent
              PROVE  CountInv /\ Increasing /\ SeenOnce <=> Order
  BY DEF CountInv, ReadOnlySent
<1>1. \A c \in Channel : Thru[c] = Through(c)
                         /\ DOMAIN Through(c) = 1 .. Len(Through(c))
                         /\ Took[Left[c]] = Taken(Left[c])
  BY OrderFacts
<1>2. \A f \in Fd : Took[f] = Taken(f)
  BY OrderFacts
<1>3. \A c \in Channel : Through(c) \in Seq(Nat)
  BY OrderFacts
<1>. HIDE DEF Through, Taken, Left, Thru, Took
<1>4. CountInv <=> Counted(Thru, Took, Left)
  BY <1>1 DEF CountInv, Counted, ReadOnlySent
<1>5. Increasing <=> InOrder(Thru)
  BY <1>1 DEF Increasing, InOrder
<1>6. ASSUME NEW f \in Fd, NEW n, NEW c \in Channel, NEW k
      PROVE  IsAt(f, n, c, k) <=> Spot(Thru, Left, f, n, c, k)
  BY <1>1 DEF IsAt, Spot
<1>7. \A c \in Channel : \A k \in DOMAIN Through(c) : k \in Nat
  BY <1>1
<1>8. ASSUME NEW f \in Fd, NEW n, NEW c \in Channel, NEW k, IsAt(f, n, c, k)
      PROVE  k \in DOMAIN Through(c) /\ k \in Nat
  BY <1>7, <1>8 DEF IsAt
<1>. HIDE DEF IsAt, Spot
<1>9. SeenOnce <=> Once(Thru, Took, Left)
  <2>1. ASSUME NEW f \in Fd, NEW n
        PROVE  (\E c \in Channel : \E k \in DOMAIN Through(c) :
                  /\ IsAt(f, n, c, k)
                  /\ \A d \in Channel : \A j \in DOMAIN Through(d) :
                       IsAt(f, n, d, j) => d = c /\ j = k)
               <=>
               (\E c \in Channel, k \in Nat :
                  /\ Spot(Thru, Left, f, n, c, k)
                  /\ \A d \in Channel, j \in Nat : Spot(Thru, Left, f, n, d, j) => d = c /\ j = k)
    BY <1>6, <1>7, <1>8
  <2>. QED  BY <1>2, <2>1 DEF SeenOnce, Once
<1>. QED  BY <1>4, <1>5, <1>9 DEF Order

\* The same in the next state.
LEMMA OrderAsNext ==
  TypeOK' => ((CountInv /\ Increasing /\ SeenOnce)' <=> (ReadOnlySent /\ Order)')
BY OrderAs, PTL

\* The same in the next state.
LEMMA BuffersAsNext ==
  TypeOK' => (Buffers' <=> (IndexInv /\ IndicesMatchContent)')
BY BuffersAs, PTL

\* The order is a fact about Thru, Took and Left.
LEMMA OrderOf ==
  ASSUME NEW T, NEW tk, NEW L, Counted(T, tk, L), InOrder(T), Once(T, tk, L),
         Thru' = T, Took' = tk, Left' = L
  PROVE  Order'
<1>. HIDE DEF Thru, Took, Left
<1>1. Counted(Thru, Took, Left)'
  BY DEF Counted
<1>2. InOrder(Thru)'
  BY DEF InOrder
<1>3. Once(Thru, Took, Left)'
  BY DEF Once, Spot
<1>. QED  BY <1>1, <1>2, <1>3 DEF Order

\* The order stays when nothing is read from a socket or passed on to one.
LEMMA OrderStays ==
  ASSUME Order, wiring' = wiring,
         \A f \in Fd : given'[f] - sock'[f].inq = given[f] - sock[f].inq,
         \A d \in Channel : out'[d] \o content'[d] = out[d] \o content[d]
  PROVE  Order'
<1>1. Thru' = Thru
  BY DEF Thru, Through
<1>2. Took' = Took
  BY DEF Took, Taken
<1>3. Left' = Left
  BY DEF Left
<1>. QED  BY <1>1, <1>2, <1>3, OrderOf DEF Order

\* The order after a recv.
LEMMA OrderAfterRecv ==
  ASSUME TypeOK, BusInv, ReadOnlySent, Buffers, Order, RecvData, wiring' = wiring
  PROVE  Order'
<1>1. /\ sock' \in Sockets /\ given' = given /\ out' = out
      /\ \E c \in Channel : \E n \in Nat :
              /\ n <= sock[Left[c]].inq
              /\ content' = [content EXCEPT ![c] =
                                content[c] \o Piece(given[Left[c]] - sock[Left[c]].inq, n)]
              /\ sock'[Left[c]].inq = sock[Left[c]].inq - n
              /\ \A g \in Fd : g # Left[c] => sock'[g] = sock[g]
  BY RecvDataKeeps
<1>2. PICK c \in Channel, n \in Nat :
              /\ n <= sock[Left[c]].inq
              /\ content' = [content EXCEPT ![c] =
                                content[c] \o Piece(given[Left[c]] - sock[Left[c]].inq, n)]
              /\ sock'[Left[c]].inq = sock[Left[c]].inq - n
              /\ \A g \in Fd : g # Left[c] => sock'[g] = sock[g]
  BY <1>1
<1>3. /\ Thru \in [Channel -> Seq(Nat)] /\ Took \in [Fd -> Nat] /\ Left \in [Channel -> Fd]
      /\ \A d \in Channel : Thru[d] = Through(d)
      /\ \A f \in Fd : Took[f] = Taken(f) /\ Taken(f) \in Nat
  BY OrderFacts
<1>. DEFINE f == Left[c]
            x == Took[f]
            p == Piece(x, n)
            T2 == [Thru EXCEPT ![c] = Thru[c] \o p]
            tk2 == [Took EXCEPT ![f] = x + n]
<1>4. f \in Fd /\ x \in Nat /\ x = given[f] - sock[f].inq
  BY <1>3 DEF Taken
<1>5. p \in Seq(Nat)
  BY <1>4, PieceIsSeq
<1>6. out[c] \in Seq(Nat) /\ content[c] \in Seq(Nat) /\ content \in [Channel -> Seq(Nat)]
  BY DEF Buffers
<1>7. content' = [content EXCEPT ![c] = content[c] \o p]
  BY <1>2, <1>4
<1>. HIDE DEF p
<1>8. Thru' = T2
  <2>1. Thru' = [d \in Channel |-> out'[d] \o content'[d]]
    BY DEF Thru, Through
  <2>2. out[c] \o (content[c] \o p) = (out[c] \o content[c]) \o p
    <3>1. \A w, y, z \in Seq(Nat) : (w \o y) \o z = w \o (y \o z)
      BY Associative
    <3>2. (out[c] \o content[c]) \o p = out[c] \o (content[c] \o p)
      BY <1>5, <1>6, <3>1, Zenon
    <3>. QED  BY <3>2, Zenon
  <2>3. ASSUME NEW d \in Channel PROVE out'[d] \o content'[d] = T2[d]
    <3>1. CASE d = c
      <4>1. content'[d] = content[c] \o p
        BY <1>6, <1>7, <3>1
      <4>2. T2[d] = (out[c] \o content[c]) \o p
        BY <1>3, <3>1 DEF Through
      <4>. QED  BY <1>1, <2>2, <3>1, <4>1, <4>2
    <3>2. CASE d # c
      <4>1. content'[d] = content[d]
        BY <1>6, <1>7, <3>2
      <4>2. T2[d] = out[d] \o content[d]
        BY <1>3, <3>2 DEF Through
      <4>. QED  BY <1>1, <4>1, <4>2
    <3>. QED  BY <3>1, <3>2
  <2>4. T2 = [d \in Channel |-> T2[d]]
    BY <1>3
  <2>. HIDE DEF T2
  <2>. QED  BY <2>1, <2>3, <2>4
<1>9. Took' = tk2
  <2>1. Took' = [g \in Fd |-> given'[g] - sock'[g].inq]
    BY DEF Took, Taken
  <2>2. ASSUME NEW g \in Fd PROVE given'[g] - sock'[g].inq = tk2[g]
    <3>1. CASE g = f
      <4>1. sock[f] \in Socket /\ given[f] \in Nat
        BY <1>4 DEF TypeOK
      <4>2. sock[f].inq \in Nat
        BY <4>1, SocketUpdates
      <4>3. tk2[g] = x + n
        BY <1>3, <1>4, <3>1
      <4>4. given[f] - (sock[f].inq - n) = (given[f] - sock[f].inq) + n
        BY <4>1, <4>2
      <4>. QED  BY <1>1, <1>2, <1>4, <3>1, <4>3, <4>4
    <3>2. CASE g # f
      BY <1>1, <1>2, <1>3, <3>2 DEF Taken
    <3>. QED  BY <3>1, <3>2
  <2>3. tk2 = [g \in Fd |-> tk2[g]]
    BY <1>3
  <2>. HIDE DEF tk2
  <2>. QED  BY <2>1, <2>2, <2>3
<1>10. Counted(T2, tk2, Left) /\ InOrder(T2) /\ Once(T2, tk2, Left)
  <2>1. Counted(Thru, Took, Left) /\ InOrder(Thru) /\ Once(Thru, Took, Left)
    BY DEF Order
  <2>2. T2 = [Thru EXCEPT ![c] = Thru[c] \o Piece(Took[Left[c]], n)]
    BY DEF p
  <2>3. tk2 = [Took EXCEPT ![Left[c]] = Took[Left[c]] + n]
    OBVIOUS
  <2>. HIDE DEF T2, tk2, Thru, Took, Left
  <2>. QED  BY <1>3, <2>1, <2>2, <2>3, RecvKeepsOrder
<1>11. Left' = Left
  BY DEF Left
<1>. HIDE DEF T2, tk2
<1>. QED  BY <1>8, <1>9, <1>10, <1>11, OrderOf

-----------------------------------------------------------------------------
(* The inductive invariant and the properties. *)

\* The initial state.
LEMMA Initially == Init => IInv
<1>. SUFFICES ASSUME Init PROVE IInv
  OBVIOUS
<1>1. /\ wiring \in Wirings /\ sock = [f \in Fd |-> NewSocket(f)]
      /\ given = [f \in Fd |-> 0] /\ out = [c \in Channel |-> <<>>]
      /\ buf = [c \in Channel |-> [r |-> 0, w |-> 0, i |-> 0]]
      /\ content = [c \in Channel |-> <<>>]
      /\ phase = "queue" /\ events = <<>> /\ queue = <<>> /\ steps = <<>>
      /\ open = TRUE /\ killed = FALSE
  BY DEF Init
<1>2. \A f \in Fd : NewSocket(f) \in Socket /\ NewSocket(f).inq = 0
  <2>. SUFFICES ASSUME NEW f \in Fd PROVE NewSocket(f) \in Socket /\ NewSocket(f).inq = 0
    OBVIOUS
  <2>. DEFINE up == f = "client"
              room == IF f = "client" THEN Room ELSE 0
  <2>1. up \in BOOLEAN
    OBVIOUS
  <2>2. room \in 0 .. Room
    BY TrafficAssumption
  <2>3. NewSocket(f) = [inq |-> 0, eof |-> FALSE, err |-> "none", up |-> up,
                        room |-> room, nospace |-> FALSE, edge |-> up]
    BY DEF NewSocket
  <2>4. 0 \in Nat /\ FALSE \in BOOLEAN /\ "none" \in {"none", "raised", "reported"}
    OBVIOUS
  <2>. HIDE DEF up, room
  <2>5. NewSocket(f) \in Socket
    BY <2>1, <2>2, <2>3, <2>4 DEF Socket
  <2>6. NewSocket(f).inq = 0
    BY <2>3
  <2>. QED  BY <2>5, <2>6
<1>3. TypeOK
  <2>1. sock \in [Fd -> Socket]
    BY <1>1, <1>2
  <2>2. given \in [Fd -> Nat] /\ out \in [Channel -> Seq(Nat)] /\ content \in [Channel -> Seq(Nat)]
    BY <1>1
  <2>3. buf \in [Channel -> [r : Index, w : Index, i : Bound]]
    BY <1>1, SizeAssumption DEF Index, Bound
  <2>4. DOMAIN events = {} /\ DOMAIN queue = {}
    BY <1>1
  <2>. QED  BY <1>1, <2>1, <2>2, <2>3, <2>4 DEF TypeOK
<1>4. BusInv
  BY <1>1 DEF BusInv
<1>5. IndexInv /\ IndicesMatchContent
  BY <1>1 DEF IndexInv, IndicesMatchContent, Used
<1>6. \A f \in Fd : sock[f].inq = 0 /\ given[f] = 0
  BY <1>1, <1>2
<1>7. \A f \in Fd : Taken(f) = 0
  BY <1>6 DEF Taken
<1>8. \A c \in Channel : Through(c) = <<>> /\ Len(Through(c)) = 0 /\ Left[c] \in Fd
  BY <1>1, WiringFacts DEF Through
<1>. HIDE DEF Taken, Through, Left
<1>9. CountInv
  BY <1>6, <1>7, <1>8 DEF CountInv
<1>10. Increasing /\ SeenOnce
  BY <1>7, <1>8 DEF Increasing, SeenOnce
<1>. QED  BY <1>3, <1>4, <1>5, <1>9, <1>10 DEF IInv

\* A step of Relay keeps the phase and the flags among their values.
LEMMA FlagsKept ==
  ASSUME TypeOK, Next
  PROVE  /\ wiring' \in Wirings
         /\ phase' \in {"epoll", "queue"} /\ open' \in BOOLEAN /\ killed' \in BOOLEAN
<1>0. /\ wiring \in Wirings /\ wiring' = wiring
      /\ phase \in {"epoll", "queue"} /\ open \in BOOLEAN /\ killed \in BOOLEAN
  BY DEF TypeOK, Next
<1>1. CASE Kernel \/ Ended
  <2>1. UNCHANGED <<phase, open, killed>>
    BY <1>1 DEF Kernel, PeerSend, PeerRead, PeerFinish, PeerReset, Connect, Ended, vars, busVars
  <2>. QED  BY <1>0, <2>1
<1>2. CASE EpollWait \/ SwapQueue
  <2>1. phase' \in {"epoll", "queue"} /\ UNCHANGED <<open, killed>>
    BY <1>2 DEF EpollWait, SwapQueue
  <2>. QED  BY <1>0, <2>1
<1>3. CASE Dispatch \/ SkipRecv \/ RecvError \/ SkipSend \/ SendData \/ RecvData \/ Handlers
  <2>1. UNCHANGED <<phase, open, killed>>
    BY <1>3 DEF Dispatch, SkipRecv, RecvError, SkipSend, SendData, RecvData, Handlers,
                HandlerEnds, HandlerReturns, HandlerThrows
  <2>. QED  BY <1>0, <2>1
<1>4. CASE SendError
  <2>1. killed' \in BOOLEAN /\ UNCHANGED <<phase, open>>
    BY <1>4, Zenon DEF SendError
  <2>. QED  BY <1>0, <2>1
<1>5. CASE Close
  <2>1. open' \in BOOLEAN /\ UNCHANGED <<phase, killed>>
    BY <1>5, Zenon DEF Close
  <2>. QED  BY <1>0, <2>1
<1>. QED  BY <1>1, <1>2, <1>3, <1>4, <1>5, Zenon DEF Next, Reactor, Loop

\* Every event has a flag.
LEMMA MasksOf ==
  ASSUME NEW q \in Seq(EventOf)
  PROVE  \A k \in DOMAIN q : q[k].mask \in (SUBSET Flag) \ {{}}
<1>1. \A k \in DOMAIN q : q[k] \in EventOf
  OBVIOUS
<1>2. \A e \in EventOf : e.mask \in (SUBSET Flag) \ {{}}
  BY Zenon DEF EventOf
<1>. HIDE DEF EventOf
<1>. QED  BY <1>1, <1>2, Zenon

\* One step.
LEMMA StepKeeps == IInv /\ [Next]_vars => IInv'
<1>. SUFFICES ASSUME IInv, [Next]_vars PROVE IInv'
  OBVIOUS
<1>1. CASE UNCHANGED vars
  <2>1. UNCHANGED <<wiring, sock, given, out, buf, content, phase, events, queue, steps,
                    open, killed>>
    BY <1>1 DEF vars, kernelVars, channelVars, busVars
  <2>2. TypeOK' /\ BusInv' /\ IndexInv' /\ IndicesMatchContent'
    BY <2>1 DEF IInv, TypeOK, BusInv, IndexInv, IndicesMatchContent
  <2>3. (CountInv /\ Increasing /\ SeenOnce)'
    <3>1. ReadOnlySent /\ Order
      BY OrderAs DEF IInv
    <3>2. ReadOnlySent' /\ Order'
      BY <2>1, <3>1, OrderStays DEF ReadOnlySent
    <3>. QED  BY <2>2, <3>2, OrderAsNext
  <2>. QED  BY <2>2, <2>3 DEF IInv
<1>2. CASE Next
  <2>1. TypeOK /\ BusInv /\ Buffers /\ ReadOnlySent /\ Order
    BY BuffersAs, OrderAs DEF IInv
  <2>2. wiring' = wiring
    BY <1>2 DEF Next
  <2>3. BusInv'
    BY <1>2, <2>1, BusKept
  <2>4. sock' \in Sockets /\ given' \in [Fd -> Nat] /\ ReadOnlySent' /\ Buffers' /\ Order'
    <3>1. CASE Kernel
      <4>1. ReadsNothing /\ UNCHANGED <<out, channelVars>>
        BY <2>1, <3>1, KernelReadsNothing
      <4>2. Buffers' /\ \A d \in Channel : out'[d] \o content'[d] = out[d] \o content[d]
        BY <2>1, <4>1 DEF Buffers, channelVars, Sound, UsedOf
      <4>3. Order'
        BY <2>1, <2>2, <4>1, <4>2, OrderStays DEF ReadsNothing
      <4>. QED  BY <4>1, <4>2, <4>3 DEF ReadsNothing
    <3>2. CASE Loop \/ Handlers
      <4>1. /\ ReadsNothing /\ Buffers'
            /\ \A d \in Channel : out'[d] \o content'[d] = out[d] \o content[d]
        BY <2>1, <3>2, LoopKeeps
      <4>2. Order'
        BY <2>1, <2>2, <4>1, OrderStays DEF ReadsNothing
      <4>. QED  BY <4>1, <4>2 DEF ReadsNothing
    <3>3. CASE RecvData
      <4>1. sock' \in Sockets /\ given' = given /\ ReadOnlySent' /\ Buffers'
        BY <2>1, <3>3, RecvDataKeeps
      <4>2. Order'
        BY <2>1, <2>2, <3>3, OrderAfterRecv
      <4>. QED  BY <2>1, <4>1, <4>2 DEF TypeOK
    <3>4. CASE Ended
      <4>1. UNCHANGED <<sock, given, out, buf, content>>
        BY <3>4 DEF Ended, vars, kernelVars, channelVars
      <4>2. Order'
        BY <2>1, <2>2, <4>1, OrderStays
      <4>. QED  BY <2>1, <4>1, <4>2 DEF TypeOK, Sockets, ReadOnlySent, Buffers, Sound, UsedOf
    <3>. QED  BY <1>2, <3>1, <3>2, <3>3, <3>4, Zenon DEF Next, Reactor
  <2>5. TypeOK'
    <3>1. /\ \A k \in DOMAIN events' : events'[k].mask \in (SUBSET Flag) \ {{}}
          /\ \A k \in DOMAIN queue' : queue'[k].mask \in (SUBSET Flag) \ {{}}
      BY <2>3, MasksOf DEF BusInv
    <3>2. /\ wiring' \in Wirings
          /\ phase' \in {"epoll", "queue"} /\ open' \in BOOLEAN /\ killed' \in BOOLEAN
      BY <1>2, <2>1, FlagsKept
    <3>3. /\ sock' \in [Fd -> Socket] /\ given' \in [Fd -> Nat]
          /\ out' \in [Channel -> Seq(Nat)] /\ content' \in [Channel -> Seq(Nat)]
          /\ buf' \in [Channel -> [r : Index, w : Index, i : Bound]]
      BY <2>4 DEF Sockets, Buffers, Indices
    <3>. QED  BY <3>1, <3>2, <3>3, Zenon DEF TypeOK
  <2>6. (IndexInv /\ IndicesMatchContent)'
    BY <2>4, <2>5, BuffersAsNext
  <2>7. (CountInv /\ Increasing /\ SeenOnce)'
    BY <2>4, <2>5, OrderAsNext
  <2>. QED  BY <2>3, <2>5, <2>6, <2>7 DEF IInv
<1>. QED  BY <1>1, <1>2

\* A byte that is at one place only is seen once.
LEMMA InvImpliesOrder == IInv => PassedInOrder
<1>. SUFFICES ASSUME IInv, NEW f \in Fd, NEW n \in 1 .. Taken(f) PROVE TimesSeen(f, n) = 1
  BY DEF IInv, Increasing, PassedInOrder
<1>1. /\ \A c \in Channel : Through(c) \in Seq(Nat) /\ DOMAIN Through(c) = 1 .. Len(Through(c))
      /\ Taken(f) \in Nat
  BY OrderFacts DEF IInv, CountInv, ReadOnlySent
<1>2. PICK c \in Channel : \E k \in DOMAIN Through(c) :
        /\ IsAt(f, n, c, k)
        /\ \A d \in Channel : \A j \in DOMAIN Through(d) : IsAt(f, n, d, j) => d = c /\ j = k
  BY DEF IInv, SeenOnce
<1>3. PICK k \in DOMAIN Through(c) :
        /\ IsAt(f, n, c, k)
        /\ \A d \in Channel : \A j \in DOMAIN Through(d) : IsAt(f, n, d, j) => d = c /\ j = k
  BY <1>2
<1>. DEFINE S == {p \in Channel \X (1 .. Taken(f)) :
                    /\ Left[p[1]] = f
                    /\ p[2] <= Len(Through(p[1])) /\ Through(p[1])[p[2]] = n}
<1>4. k \in 1 .. Taken(f)
  <2>1. k \in 1 .. Len(Through(c)) /\ Left[c] = f
    BY <1>1, <1>3 DEF IsAt
  <2>2. Len(Through(c)) <= Taken(f)
    BY <2>1 DEF IInv, CountInv
  <2>3. Len(Through(c)) \in Nat
    BY <1>1
  <2>. QED  BY <1>1, <2>1, <2>2, <2>3
<1>. HIDE DEF Through, Taken, Left
<1>5. <<c, k>> \in S
  <2>1. Left[c] = f /\ k <= Len(Through(c)) /\ Through(c)[k] = n
    BY <1>1, <1>3 DEF IsAt
  <2>. QED  BY <1>4, <2>1
<1>6. ASSUME NEW p \in S PROVE p = <<c, k>>
  <2>1. PICK d \in Channel, j \in 1 .. Taken(f) : p = <<d, j>>
    OBVIOUS
  <2>2. Left[d] = f /\ j <= Len(Through(d)) /\ Through(d)[j] = n
    BY <2>1
  <2>3. j \in DOMAIN Through(d)
    BY <1>1, <2>2
  <2>4. IsAt(f, n, d, j)
    BY <2>2, <2>3 DEF IsAt
  <2>. QED  BY <1>3, <2>1, <2>3, <2>4
<1>7. S = {<<c, k>>}
  BY <1>5, <1>6
<1>8. Cardinality(S) = 1
  <2>. HIDE DEF S
  <2>. QED  BY <1>7, FS_Singleton
<1>. QED  BY <1>8 DEF TimesSeen

\* The invariant of the session's relay: types, buffers whose indices match
\* what they hold, and every byte read at exactly one place, in order, whatever
\* the peers, the kernel, the handlers and the loop do.
THEOREM RelayInductive == Spec => []IInv
BY Initially, StepKeeps, PTL DEF Spec

\* Every variable keeps its type: no index leaves its array, no call counts
\* below zero, no event has an empty mask.
THEOREM RelayTypeCorrect == Spec => []TypeOK
<1>1. IInv => TypeOK
  BY DEF IInv
<1>. QED  BY <1>1, RelayInductive, PTL

\* write_release and read_release account for exactly the bytes recv and send
\* have moved, for every size of the chunks.
THEOREM IndicesMatchContentHolds == Spec => []IndicesMatchContent
<1>1. IInv => IndicesMatchContent
  BY DEF IInv
<1>. QED  BY <1>1, RelayInductive, PTL

\* A session passes every byte on once and in order, for every wiring of its
\* channels (tcp_proxy, psql_proxy and echo), any traffic and any chunks.
THEOREM PassedInOrderHolds == Spec => []PassedInOrder
BY InvImpliesOrder, RelayInductive, PTL
=============================================================================
