---------------------------- MODULE ParserProofs ----------------------------
(***************************************************************************)
(* Proofs about Endianness and Parser: lengths below 2^16 are decoded      *)
(* right; the types; and, for the clients that PlainClient describes, the  *)
(* handler follows the client: IInv is inductive and implies ParsedAsSent  *)
(* and RestKept, and with InPlace and Astray SettingsKept.  Messages and   *)
(* their number are unbounded: what FlattenSeq makes of a sequence, and    *)
(* the loop over parameters of a body, is found by induction on the first  *)
(* n elements (SetInduction), and afterwards only its facts are used.      *)
(***************************************************************************)
EXTENDS Parser, SequenceTheorems, FiniteSetTheorems, WellFoundedInduction, TLAPS

\* Two digits hold at least one.
LEMMA SquareFact == Square \in Nat /\ Square >= Base /\ Square >= 1
  BY BaseAssumption DEF Square

\* The digits of a number below 2^16.
LEMMA Digits ==
  ASSUME NEW n \in 0 .. Square - 1
  PROVE  /\ n \div Base \in 0 .. Base - 1
         /\ n % Base \in 0 .. Base - 1
         /\ n = (n \div Base) * Base + (n % Base)
         /\ n \div Square = 0 /\ n \div (Square * Base) = 0
  <1>1. Base \in Nat \ {0} /\ Square \in Nat \ {0} /\ Square * Base \in Nat \ {0} /\ n \in Nat
    BY BaseAssumption DEF Square
  <1>2. n % Base \in 0 .. Base - 1 /\ n \div Base \in Nat
        /\ n = (n \div Base) * Base + (n % Base)
    BY <1>1
  <1>3. n \div Base < Base
    <2> SUFFICES ASSUME n \div Base >= Base PROVE FALSE  BY <1>2, <1>1
    <2>1. (n \div Base) * Base >= Base * Base  BY <1>1, <1>2
    <2> QED  BY <2>1, <1>1, <1>2 DEF Square
  <1>4. n \div Square = 0  BY <1>1
  <1>5. n < Square * Base  BY <1>1, BaseAssumption
  <1>6. n \div (Square * Base) = 0  BY <1>1, <1>5
  <1> QED  BY <1>1, <1>2, <1>3, <1>4, <1>6

\* The byte order of a length below 2^16 is guessed right.
LEMMA ShortLengthOrder ==
  ASSUME NEW n \in 1 .. Square - 1
  PROVE  CheckEndianness(Encode(n)) = "BE" /\ DecodeUint32BE(Encode(n)) = n
  <1> DEFINE h == n \div Base
             l == n % Base
             b == Encode(n)
  <1>1. Base \in Nat /\ Base > 1 /\ Square \in Nat /\ n \in 0 .. Square - 1 /\ n >= 1
    BY BaseAssumption, SquareFact
  <1>2. h \in 0 .. Base - 1 /\ l \in 0 .. Base - 1 /\ n = h * Base + l
    BY <1>1, Digits
  <1>3. b = <<0, 0, h, l>>
    <2>1. (n \div (Square * Base)) % Base = 0 /\ (n \div Square) % Base = 0
      BY <1>1, Digits
    <2>2. h % Base = h  BY <1>1, <1>2
    <2> QED  BY <2>1, <2>2 DEF Encode
  <1> HIDE DEF b, h, l
  <1>4. DecodeUint32BE(b) = n
    BY <1>1, <1>2, <1>3 DEF DecodeUint32BE
  <1>5. DecodeUint32LE(b) = (l * Base + h) * Square
    BY <1>1, <1>2, <1>3 DEF DecodeUint32LE
  <1>6. l * Base + h >= 1
    <2>1. CASE l >= 1
      <3>1. l * Base \in Nat /\ l * Base >= 1  BY <2>1, <1>1, <1>2
      <3> QED  BY <3>1, <1>2
    <2>2. CASE l = 0
      <3>1. h # 0  BY <2>2, <1>1, <1>2
      <3> QED  BY <3>1, <2>2, <1>1, <1>2
    <2> QED  BY <2>1, <2>2, <1>2
  <1>7. (l * Base + h) * Square >= Square
    <2> DEFINE m == l * Base + h
    <2>1. m \in Nat /\ m >= 1  BY <1>1, <1>2, <1>6
    <2> HIDE DEF m
    <2>2. m * Square >= Square  BY <2>1, <1>1
    <2> QED  BY <2>2 DEF m
  <1>8. CheckEndianness(b) = "BE"
    <2>1. (l * Base + h) * Square \in Nat  BY <1>1, <1>2
    <2>2. ~(DecodeUint32LE(b) <= DecodeUint32BE(b))
      BY <1>1, <1>4, <1>5, <1>7, <2>1
    <2> QED  BY <2>2 DEF CheckEndianness
  <1> QED
    BY <1>4, <1>8 DEF b

\* So the length that the handler computes (handler.cpp:107-108) is the one the
\* client wrote.
THEOREM ShortLengthDecoded ==
  ASSUME NEW n \in 1 .. Square - 1
  PROVE  DecodeUint32(Encode(n), CheckEndianness(Encode(n))) = n
BY ShortLengthOrder DEF DecodeUint32

-----------------------------------------------------------------------------
(* FlattenSeq.  An induction over data is an induction on a set of numbers. *)

\* A set of numbers with 0 and the successor of each is Nat.
LEMMA SetInduction ==
  ASSUME NEW T, T \subseteq Nat, 0 \in T, \A n \in T : n + 1 \in T
  PROVE  T = Nat
<1>. SUFFICES ASSUME Nat \ T # {} PROVE FALSE
  OBVIOUS
<1>. DEFINE R == OpToRel(<, Nat)
            U == Nat \ T
<1>1. IsWellFoundedOn(R, Nat)
  BY NatLessThanWellFounded
<1>2. U \subseteq Nat /\ U # {}
  OBVIOUS
<1>r. \A x, y \in Nat : x < y => <<x, y>> \in R
  BY DEF OpToRel
<1>. HIDE DEF R, U
<1>3. PICK x \in U : \A y \in U : ~ (<<y, x>> \in R)
  BY <1>1, <1>2, WFMin
<1>4. x \in Nat /\ x \notin T /\ x # 0 /\ x - 1 \in Nat /\ x - 1 < x /\ (x - 1) + 1 = x
  BY DEF U
<1>5. x - 1 \notin U
  BY <1>r, <1>3, <1>4
<1>. QED  BY <1>4, <1>5 DEF U

\* g joins the first n sequences of s, one after another.
Joins(g, s, n) == g = [i \in 1 .. n |-> IF i = 1 THEN s[i] ELSE g[i - 1] \o s[i]]

\* The recursive function that joins is well defined.
LEMMA JoinExists ==
  ASSUME NEW s, NEW n \in Nat PROVE \E g : Joins(g, s, n)
<1>. DEFINE T == {m \in Nat : \E g : Joins(g, s, m)}
<1>1. 0 \in T
  <2>. DEFINE g == [i \in 1 .. 0 |-> 0]
  <2>1. g = [i \in 1 .. 0 |-> IF i = 1 THEN s[i] ELSE g[i - 1] \o s[i]]
    OBVIOUS
  <2>. HIDE DEF g
  <2>. QED  BY <2>1 DEF Joins
<1>2. ASSUME NEW m \in T PROVE m + 1 \in T
  <2>0. m \in Nat /\ \E g : Joins(g, s, m)
    OBVIOUS
  <2>1. PICK g : Joins(g, s, m)
    BY <2>0
  <2>. DEFINE e(i) == IF i = 1 THEN s[i] ELSE g[i - 1] \o s[i]
              h == [i \in 1 .. m + 1 |-> e(i)]
  <2>. HIDE DEF T
  <2>2. ASSUME NEW i \in 1 .. m PROVE g[i] = h[i]
    <3>1. g[i] = e(i)
      BY <2>1 DEF Joins
    <3>2. i \in 1 .. m + 1
      BY <2>0
    <3>. QED  BY <3>1, <3>2
  <2>4. ASSUME NEW i \in 1 .. m + 1 PROVE e(i) = IF i = 1 THEN s[i] ELSE h[i - 1] \o s[i]
    <3>1. i # 1 => i - 1 \in 1 .. m
      BY <2>0
    <3>. HIDE DEF h
    <3>. QED  BY <2>2, <3>1
  <2>5. h = [i \in 1 .. m + 1 |-> IF i = 1 THEN s[i] ELSE h[i - 1] \o s[i]]
    BY <2>4, Zenon
  <2>. HIDE DEF h
  <2>6. m + 1 \in Nat
    BY <2>0
  <2>. QED  BY <2>5, <2>6 DEF Joins, T
<1>. HIDE DEF T
<1>3. T = Nat
  BY <1>1, <1>2, SetInduction DEF T
<1>. QED  BY <1>3 DEF T

\* FlattenSeq is the last value of that function.
LEMMA FlattenIs ==
  ASSUME NEW s, Len(s) \in Nat \ {0}
  PROVE  \E g : Joins(g, s, Len(s)) /\ FlattenSeq(s) = g[Len(s)]
<1>1. \E g : g = [i \in 1 .. Len(s) |-> IF i = 1 THEN s[i] ELSE g[i - 1] \o s[i]]
  BY JoinExists DEF Joins
<1>. DEFINE f == CHOOSE g : g = [i \in 1 .. Len(s) |-> IF i = 1 THEN s[i] ELSE g[i - 1] \o s[i]]
<1>2. f = [i \in 1 .. Len(s) |-> IF i = 1 THEN s[i] ELSE f[i - 1] \o s[i]]
  BY <1>1, Zenon
<1>3. FlattenSeq(s) = f[Len(s)]
  BY DEF FlattenSeq
<1>. QED  BY <1>2, <1>3 DEF Joins

\* The first n elements are the same.
Agree(s, t, n) == \A i \in 1 .. n : s[i] = t[i]

\* What the first n sequences join to depends on them only.
LEMMA JoinsAgree ==
  ASSUME NEW s, NEW t, NEW n \in Nat, Agree(s, t, n),
         NEW g, Joins(g, s, n), NEW h, Joins(h, t, n + 1)
  PROVE  Agree(g, h, n)
<1>. DEFINE T == {m \in Nat : m \in 1 .. n => g[m] = h[m]}
<1>1. 0 \in T
  OBVIOUS
<1>2. ASSUME NEW m \in T PROVE m + 1 \in T
  <2>. SUFFICES ASSUME m + 1 \in 1 .. n PROVE g[m + 1] = h[m + 1]
    OBVIOUS
  <2>1. m \in Nat /\ (m \in 1 .. n => g[m] = h[m])
    OBVIOUS
  <2>. HIDE DEF T
  <2>2. m + 1 \in 1 .. n + 1 /\ (m + 1) - 1 = m /\ (m + 1 # 1 => m \in 1 .. n)
    BY <2>1
  <2>3. g[m + 1] = IF m + 1 = 1 THEN s[m + 1] ELSE g[m] \o s[m + 1]
    BY <2>2 DEF Joins
  <2>4. h[m + 1] = IF m + 1 = 1 THEN t[m + 1] ELSE h[m] \o t[m + 1]
    BY <2>2 DEF Joins
  <2>5. s[m + 1] = t[m + 1]
    BY DEF Agree
  <2>. QED  BY <2>1, <2>2, <2>3, <2>4, <2>5
<1>. HIDE DEF T
<1>3. T = Nat
  BY <1>1, <1>2, SetInduction DEF T
<1>. QED  BY <1>3 DEF T, Agree

\* Joined sequences over S are a sequence over S.
LEMMA JoinsType ==
  ASSUME NEW S, NEW s \in Seq(Seq(S)), NEW g, Joins(g, s, Len(s))
  PROVE  \A i \in 1 .. Len(s) : g[i] \in Seq(S)
<1>. DEFINE T == {m \in Nat : m \in 1 .. Len(s) => g[m] \in Seq(S)}
<1>1. 0 \in T
  OBVIOUS
<1>2. ASSUME NEW m \in T PROVE m + 1 \in T
  <2>. SUFFICES ASSUME m + 1 \in 1 .. Len(s) PROVE g[m + 1] \in Seq(S)
    OBVIOUS
  <2>1. m \in Nat /\ (m \in 1 .. Len(s) => g[m] \in Seq(S))
    OBVIOUS
  <2>. HIDE DEF T
  <2>2. (m + 1) - 1 = m /\ (m + 1 # 1 => m \in 1 .. Len(s))
    BY <2>1
  <2>3. g[m + 1] = IF m + 1 = 1 THEN s[m + 1] ELSE g[m] \o s[m + 1]
    BY <2>2 DEF Joins
  <2>4. s[m + 1] \in Seq(S)
    BY ElementOfSeq
  <2>5. CASE m + 1 = 1
    BY <2>3, <2>4, <2>5
  <2>6. CASE m + 1 # 1
    <3>1. g[m] \in Seq(S) /\ g[m + 1] = g[m] \o s[m + 1]
      BY <2>1, <2>2, <2>3, <2>6
    <3>. QED  BY <3>1, <2>4, ConcatProperties
  <2>. QED  BY <2>5, <2>6
<1>. HIDE DEF T
<1>3. T = Nat
  BY <1>1, <1>2, SetInduction DEF T
<1>. QED  BY <1>3, LenProperties DEF T

\* Nothing to join.
LEMMA FlattenEmpty == FlattenSeq(<<>>) = <<>>
  BY DEF FlattenSeq

\* FlattenSeq makes a sequence over S of sequences over S.
LEMMA FlattenType ==
  ASSUME NEW S, NEW s \in Seq(Seq(S))
  PROVE  FlattenSeq(s) \in Seq(S)
<1>1. CASE Len(s) = 0
  <2>1. s = <<>>
    BY <1>1, EmptySeq
  <2>. QED  BY <2>1, FlattenEmpty, EmptySeq
<1>2. CASE Len(s) # 0
  <2>1. Len(s) \in Nat \ {0}
    BY <1>2
  <2>2. PICK g : Joins(g, s, Len(s)) /\ FlattenSeq(s) = g[Len(s)]
    BY <2>1, FlattenIs
  <2>3. \A i \in 1 .. Len(s) : g[i] \in Seq(S)
    BY <2>2, JoinsType
  <2>4. Len(s) \in 1 .. Len(s)
    BY <2>1
  <2>. QED  BY <2>2, <2>3, <2>4
<1>. QED  BY <1>1, <1>2

\* One more sequence is joined at the end.
LEMMA FlattenAppend ==
  ASSUME NEW S, NEW s \in Seq(Seq(S)), NEW x \in Seq(S)
  PROVE  FlattenSeq(Append(s, x)) = FlattenSeq(s) \o x
<1>. DEFINE t == Append(s, x)
            n == Len(s)
<1>1. /\ t \in Seq(Seq(S)) /\ Len(t) = n + 1 /\ n \in Nat
      /\ t[n + 1] = x /\ \A i \in 1 .. n : s[i] = t[i]
  BY AppendProperties
<1>. HIDE DEF t, n
<1>2. PICK h : Joins(h, t, n + 1) /\ FlattenSeq(t) = h[n + 1]
  <2>1. Len(t) \in Nat \ {0}
    BY <1>1
  <2>. QED  BY <2>1, <1>1, FlattenIs
<1>3. h[n + 1] = IF n + 1 = 1 THEN x ELSE h[n] \o x
  <2>1. n + 1 \in 1 .. n + 1 /\ (n + 1) - 1 = n
    BY <1>1
  <2>. QED  BY <1>1, <1>2, <2>1 DEF Joins
<1>4. CASE n = 0
  <2>1. s = <<>>
    BY <1>4, EmptySeq DEF n
  <2>2. FlattenSeq(s) \o x = x
    BY <2>1, FlattenEmpty, ConcatEmptySeq
  <2>. QED  BY <1>2, <1>3, <1>4, <2>2 DEF t
<1>5. CASE n # 0
  <2>1. PICK g : Joins(g, s, n) /\ FlattenSeq(s) = g[n]
    BY <1>1, <1>5, FlattenIs DEF n
  <2>2. n <= n + 1 /\ n \in 1 .. n /\ n \in Nat /\ n + 1 \in Nat
    BY <1>1, <1>5
  <2>3. Agree(g, h, n)
    <3>1. Agree(s, t, n)
      BY <1>1 DEF Agree
    <3>. QED  BY <1>1, <1>2, <2>1, <3>1, JoinsAgree
  <2>4. g[n] = h[n]
    BY <2>2, <2>3 DEF Agree
  <2>5. n + 1 # 1
    BY <1>1, <1>5
  <2>. QED  BY <1>2, <1>3, <2>1, <2>4, <2>5 DEF t
<1>. QED  BY <1>4, <1>5

\* Two sequences of sequences in a row.
LEMMA FlattenConcat ==
  ASSUME NEW S, NEW a \in Seq(Seq(S)), NEW b \in Seq(Seq(S))
  PROVE  FlattenSeq(a \o b) = FlattenSeq(a) \o FlattenSeq(b)
<1>. DEFINE Good(c) == FlattenSeq(a \o c) = FlattenSeq(a) \o FlattenSeq(c)
            T == {m \in Nat : \A c \in Seq(Seq(S)) : Len(c) = m => Good(c)}
<1>0. FlattenSeq(a) \in Seq(S)
  BY FlattenType
<1>1. 0 \in T
  <2>. SUFFICES ASSUME NEW c \in Seq(Seq(S)), Len(c) = 0 PROVE Good(c)
    OBVIOUS
  <2>1. c = <<>>
    BY EmptySeq
  <2>2. a \o c = a /\ FlattenSeq(a) \o <<>> = FlattenSeq(a)
    BY <1>0, <2>1, ConcatEmptySeq
  <2>. QED  BY <2>1, <2>2, FlattenEmpty
<1>2. ASSUME NEW m \in T PROVE m + 1 \in T
  <2>. SUFFICES ASSUME NEW c \in Seq(Seq(S)), Len(c) = m + 1 PROVE Good(c)
    OBVIOUS
  <2>1. m \in Nat /\ \A d \in Seq(Seq(S)) : Len(d) = m => Good(d)
    OBVIOUS
  <2>. HIDE DEF T
  <2>2. PICK d \in Seq(Seq(S)), x \in Seq(S) : c = Append(d, x)
    <3>1. c # <<>>
      BY <2>1
    <3>. QED  BY <3>1, SequenceEmptyOrAppend
  <2>3. Len(d) = m
    BY <2>1, <2>2
  <2>4. FlattenSeq(a \o d) = FlattenSeq(a) \o FlattenSeq(d)
    BY <2>1, <2>3
  <2>5. a \o c = Append(a \o d, x)
    BY <2>2
  <2>6. FlattenSeq(a \o c) = FlattenSeq(a \o d) \o x
    BY <2>5, ConcatProperties, FlattenAppend
  <2>7. FlattenSeq(c) = FlattenSeq(d) \o x
    BY <2>2, FlattenAppend
  <2>8. FlattenSeq(d) \in Seq(S)
    BY FlattenType
  <2>9. (FlattenSeq(a) \o FlattenSeq(d)) \o x = FlattenSeq(a) \o (FlattenSeq(d) \o x)
    <3>. DEFINE A == FlattenSeq(a)
                D == FlattenSeq(d)
    <3>1. A \in Seq(S) /\ D \in Seq(S) /\ x \in Seq(S)
      BY <1>0, <2>8
    <3>. HIDE DEF A, D
    <3>2. (A \o D) \o x = A \o (D \o x)
      BY ONLY <3>1, SMTT(30)
    <3>. QED  BY <3>2 DEF A, D
  <2>. QED  BY <2>4, <2>6, <2>7, <2>9
<1>. HIDE DEF T
<1>3. T = Nat
  BY <1>1, <1>2, SetInduction DEF T
<1>. QED  BY <1>3, LenProperties DEF T

-----------------------------------------------------------------------------
(* The bytes of messages. *)

\* c has the elements of a and then those of b.
InARow(c, a, b) == /\ Len(c) = Len(a) + Len(b)
                   /\ Len(a) \in Nat /\ Len(b) \in Nat
                   /\ \A k \in 1 .. Len(a) : c[k] = a[k]
                   /\ \A k \in 1 .. Len(b) : c[Len(a) + k] = b[k]

\* The elements of a concatenation.
LEMMA ConcatParts ==
  ASSUME NEW S, NEW a \in Seq(S), NEW b \in Seq(S)
  PROVE  a \o b \in Seq(S) /\ InARow(a \o b, a, b)
<1>1. /\ a \o b \in Seq(S) /\ Len(a \o b) = Len(a) + Len(b)
      /\ Len(a) \in Nat /\ Len(b) \in Nat
  OBVIOUS
<1>2. \A k \in 1 .. Len(a) + Len(b) :
         (a \o b)[k] = IF k <= Len(a) THEN a[k] ELSE b[k - Len(a)]
  BY ConcatProperties
<1>3. ASSUME NEW k \in 1 .. Len(a) PROVE (a \o b)[k] = a[k]
  <2>1. k \in 1 .. Len(a) + Len(b) /\ k <= Len(a)
    BY <1>1
  <2>. QED  BY <1>2, <2>1
<1>4. ASSUME NEW k \in 1 .. Len(b) PROVE (a \o b)[Len(a) + k] = b[k]
  <2>1. /\ Len(a) + k \in 1 .. Len(a) + Len(b) /\ ~(Len(a) + k <= Len(a))
        /\ (Len(a) + k) - Len(a) = k
    BY <1>1
  <2>. QED  BY <1>2, <2>1
<1>. QED  BY <1>1, <1>3, <1>4 DEF InARow

\* Bytes in a row may be grouped at will.
LEMMA ByteAssociative ==
  ASSUME NEW a \in Seq(Byte), NEW b \in Seq(Byte), NEW c \in Seq(Byte)
  PROVE  (a \o b) \o c = a \o (b \o c)
BY ConcatAssociative

\* A length field has 4 bytes.
LEMMA EncodeFacts ==
  ASSUME NEW n \in Nat
  PROVE  /\ Encode(n) \in Seq(Byte) /\ Len(Encode(n)) = 4
<1>1. Base \in Nat \ {0} /\ Square \in Nat \ {0} /\ Square * Base \in Nat \ {0}
  BY BaseAssumption DEF Square
<1>2. n \div (Square * Base) \in Nat /\ n \div Square \in Nat /\ n \div Base \in Nat
  BY <1>1
<1>3. \A x \in Nat : x % Base \in Byte
  BY <1>1 DEF Byte
<1>4. /\ (n \div (Square * Base)) % Base \in Byte /\ (n \div Square) % Base \in Byte
      /\ (n \div Base) % Base \in Byte /\ n % Base \in Byte
  BY <1>2, <1>3
<1>. QED  BY <1>4 DEF Encode

\* Where the code, the length field and the body of a message are.
LEMMA BytesFacts ==
  ASSUME NEW m \in Message
  PROVE  /\ Bytes(m) \in Seq(Byte)
         /\ Len(Bytes(m)) = Len(m.tag) + 4 + Len(m.body)
         /\ Len(m.tag) \in Nat /\ Len(m.body) \in Nat
         /\ \A k \in 1 .. Len(m.tag) : Bytes(m)[k] = m.tag[k]
         /\ \A k \in 1 .. 4 : Bytes(m)[Len(m.tag) + k] = Encode(m.len)[k]
         /\ \A k \in 1 .. Len(m.body) : Bytes(m)[Len(m.tag) + 4 + k] = m.body[k]
<1>. DEFINE a == m.tag
            e == Encode(m.len)
            b == m.body
<1>1. a \in Seq(Byte) /\ e \in Seq(Byte) /\ b \in Seq(Byte) /\ Len(e) = 4
  BY EncodeFacts DEF Message
<1>2. Bytes(m) = (a \o e) \o b
  BY DEF Bytes
<1>. HIDE DEF a, e, b
<1>3. /\ Len(a) \in Nat /\ Len(b) \in Nat
      /\ a \o e \in Seq(Byte) /\ Len(a \o e) = Len(a) + 4
      /\ \A k \in 1 .. Len(a) : (a \o e)[k] = a[k]
      /\ \A k \in 1 .. 4 : (a \o e)[Len(a) + k] = e[k]
  <2>1. /\ Len(a) \in Nat /\ Len(b) \in Nat
        /\ a \o e \in Seq(Byte) /\ Len(a \o e) = Len(a) + Len(e)
        /\ \A k \in 1 .. Len(a) : (a \o e)[k] = a[k]
        /\ \A k \in 1 .. Len(e) : (a \o e)[Len(a) + k] = e[k]
    <3>1. a \o e \in Seq(Byte) /\ InARow(a \o e, a, e)
      BY <1>1, ConcatParts
    <3>. QED  BY <1>1, <3>1 DEF InARow
  <2>. QED  BY <1>1, <2>1
<1>4. /\ (a \o e) \o b \in Seq(Byte) /\ Len((a \o e) \o b) = Len(a) + 4 + Len(b)
      /\ \A k \in 1 .. Len(a) + 4 : ((a \o e) \o b)[k] = (a \o e)[k]
      /\ \A k \in 1 .. Len(b) : ((a \o e) \o b)[Len(a) + 4 + k] = b[k]
  <2>. DEFINE c == a \o e
  <2>1. c \in Seq(Byte) /\ Len(c) = Len(a) + 4
    BY <1>3
  <2>. HIDE DEF c
  <2>2. /\ c \o b \in Seq(Byte) /\ Len(c \o b) = Len(c) + Len(b)
        /\ \A k \in 1 .. Len(c) : (c \o b)[k] = c[k]
        /\ \A k \in 1 .. Len(b) : (c \o b)[Len(c) + k] = b[k]
    <3>1. c \o b \in Seq(Byte) /\ InARow(c \o b, c, b)
      BY <1>1, <2>1, ConcatParts
    <3>. QED  BY <3>1 DEF InARow
  <2>3. /\ c \o b \in Seq(Byte) /\ Len(c \o b) = Len(a) + 4 + Len(b)
        /\ \A k \in 1 .. Len(a) + 4 : (c \o b)[k] = c[k]
        /\ \A k \in 1 .. Len(b) : (c \o b)[Len(a) + 4 + k] = b[k]
    BY <2>1, <2>2
  <2>. QED  BY <2>3 DEF c
<1>5. \A k \in 1 .. Len(a) : k \in 1 .. Len(a) + 4
  BY <1>3
<1>6. \A k \in 1 .. 4 : Len(a) + k \in 1 .. Len(a) + 4
  BY <1>3
<1>. QED  BY <1>2, <1>3, <1>4, <1>5, <1>6 DEF a, b, e

\* A message has at least its length field.
LEMMA BytesLong ==
  ASSUME NEW m \in Message PROVE Len(Bytes(m)) \in Nat /\ Len(Bytes(m)) >= 4
<1>1. Len(Bytes(m)) = Len(m.tag) + 4 + Len(m.body) /\ Len(m.tag) \in Nat /\ Len(m.body) \in Nat
  BY BytesFacts
<1>. DEFINE l == Len(Bytes(m))
            a == Len(m.tag)
            b == Len(m.body)
<1>2. l = a + 4 + b /\ a \in Nat /\ b \in Nat
  BY <1>1
<1>. HIDE DEF l, a, b
<1>3. l \in Nat /\ l >= 4
  BY <1>2
<1>. QED  BY <1>3 DEF l

\* The pieces of a sequence of messages, and of two such sequences in a row.
Mapped(f, s) == [k \in DOMAIN s |-> f[s[k]]]

\* Mapping goes element by element.
LEMMA MapFacts ==
  ASSUME NEW S, NEW f \in [Message -> Seq(S)],
         NEW a \in Seq(Message), NEW b \in Seq(Message)
  PROVE  Mapped(f, a) \in Seq(Seq(S)) /\ Mapped(f, a \o b) = Mapped(f, a) \o Mapped(f, b)
<1>. DEFINE F(s) == Mapped(f, s)
            c == a \o b
<1>1. \A s \in Seq(Message) : /\ F(s) \in Seq(Seq(S)) /\ Len(F(s)) = Len(s)
                              /\ Len(s) \in Nat
                              /\ \A k \in 1 .. Len(s) : F(s)[k] = f[s[k]]
  <2>. TAKE s \in Seq(Message)
  <2>1. DOMAIN s = 1 .. Len(s) /\ Len(s) \in Nat
    BY LenProperties
  <2>2. \A k \in 1 .. Len(s) : f[s[k]] \in Seq(S)
    BY ElementOfSeq
  <2>. QED  BY <2>1, <2>2 DEF Mapped
<1>2. /\ c \in Seq(Message) /\ Len(c) = Len(a) + Len(b)
      /\ \A k \in 1 .. Len(a) : c[k] = a[k]
      /\ \A k \in 1 .. Len(b) : c[Len(a) + k] = b[k]
  BY ConcatParts DEF InARow
<1>. HIDE DEF F, c
<1>3. /\ F(a) \o F(b) \in Seq(Seq(S)) /\ Len(F(a) \o F(b)) = Len(a) + Len(b)
      /\ \A k \in 1 .. Len(a) : (F(a) \o F(b))[k] = F(a)[k]
      /\ \A k \in 1 .. Len(b) : (F(a) \o F(b))[Len(a) + k] = F(b)[k]
  <2>. DEFINE x == F(a)
              y == F(b)
  <2>1. x \in Seq(Seq(S)) /\ y \in Seq(Seq(S)) /\ Len(x) = Len(a) /\ Len(y) = Len(b)
    BY <1>1
  <2>. HIDE DEF x, y
  <2>2. x \o y \in Seq(Seq(S)) /\ InARow(x \o y, x, y)
    BY <2>1, ConcatParts
  <2>3. /\ x \o y \in Seq(Seq(S)) /\ Len(x \o y) = Len(a) + Len(b)
        /\ \A k \in 1 .. Len(a) : (x \o y)[k] = x[k]
        /\ \A k \in 1 .. Len(b) : (x \o y)[Len(a) + k] = y[k]
    BY <2>1, <2>2 DEF InARow
  <2>. QED  BY <2>3 DEF x, y
<1>4. ASSUME NEW k \in 1 .. Len(a) + Len(b) PROVE F(c)[k] = (F(a) \o F(b))[k]
  <2>1. Len(a) \in Nat /\ Len(b) \in Nat /\ k \in 1 .. Len(c)
    BY <1>1, <1>2
  <2>2. F(c)[k] = f[c[k]]
    BY <1>1, <1>2, <2>1
  <2>3. CASE k \in 1 .. Len(a)
    <3>1. c[k] = a[k] /\ (F(a) \o F(b))[k] = F(a)[k] /\ F(a)[k] = f[a[k]]
      BY <1>1, <1>2, <1>3, <2>3
    <3>. QED  BY <2>2, <3>1
  <2>4. CASE k \notin 1 .. Len(a)
    <3>. DEFINE j == k - Len(a)
    <3>1. j \in 1 .. Len(b) /\ k = Len(a) + j
      BY <2>1, <2>4
    <3>. HIDE DEF j
    <3>2. c[k] = b[j] /\ (F(a) \o F(b))[k] = F(b)[j]
      BY <1>2, <1>3, <3>1
    <3>. QED  BY <1>1, <2>2, <3>1, <3>2
  <2>. QED  BY <2>3, <2>4
<1>5. F(c) = F(a) \o F(b)
  <2>1. F(c) \in Seq(Seq(S)) /\ Len(F(c)) = Len(a) + Len(b)
    BY <1>1, <1>2
  <2>. QED  BY <1>3, <1>4, <2>1, SeqEqual
<1>6. F(a) \in Seq(Seq(S))
  BY <1>1
<1>. QED  BY <1>5, <1>6 DEF F, c

\* What the messages of a sequence stand for, one after another.
FlatMap(f, s) == FlattenSeq(Mapped(f, s))

\* Mapping and joining goes part by part,
LEMMA FlatMapFacts ==
  ASSUME NEW S, NEW f \in [Message -> Seq(S)], NEW a \in Seq(Message), NEW b \in Seq(Message)
  PROVE  /\ FlatMap(f, a) \in Seq(S)
         /\ FlatMap(f, a \o b) = FlatMap(f, a) \o FlatMap(f, b)
<1>. DEFINE F(s) == Mapped(f, s)
<1>1. F(a) \in Seq(Seq(S)) /\ F(b) \in Seq(Seq(S)) /\ F(a \o b) = F(a) \o F(b)
  BY MapFacts
<1>. HIDE DEF F
<1>2. FlattenSeq(F(a)) \in Seq(S)
  BY <1>1, FlattenType
<1>3. FlattenSeq(F(a) \o F(b)) = FlattenSeq(F(a)) \o FlattenSeq(F(b))
  BY <1>1, FlattenConcat
<1>. QED  BY <1>1, <1>2, <1>3 DEF F, FlatMap

\* and for one message yields its image.
LEMMA FlatMapOne ==
  ASSUME NEW S, NEW f \in [Message -> Seq(S)], NEW m \in Message
  PROVE  FlatMap(f, <<>>) = <<>> /\ FlatMap(f, <<m>>) = f[m]
<1>1. FlatMap(f, <<>>) = <<>>
  <2>1. Mapped(f, <<>>) = <<>>
    BY DEF Mapped
  <2>. QED  BY <2>1, FlattenEmpty DEF FlatMap
<1>2. Mapped(f, <<m>>) = Append(<<>>, f[m])
  BY DEF Mapped
<1>3. FlattenSeq(Append(<<>>, f[m])) = FlattenSeq(<<>>) \o f[m]
  <2>1. <<>> \in Seq(Seq(S)) /\ f[m] \in Seq(S)
    OBVIOUS
  <2>. QED  BY <2>1, FlattenAppend
<1>4. FlattenSeq(<<>>) \o f[m] = f[m]
  BY FlattenEmpty
<1>. QED  BY <1>1, <1>2, <1>3, <1>4 DEF FlatMap

BytesMap == [m \in Message |-> Bytes(m)]
TextsMap == [m \in Message |-> TextsOf(m)]

\* A text is a sequence of bytes.
LEMMA TextOfType ==
  ASSUME NEW s \in Seq(Byte) PROVE TextOf(s) \in Seq(Byte)
<1>1. \A k \in 1 .. Len(s) - 1 : s[k] \in Byte
  OBVIOUS
<1>. QED  BY <1>1, SubSeqProperties DEF TextOf

\* Messages stand for bytes and for texts.
LEMMA MapsTyped == /\ BytesMap \in [Message -> Seq(Byte)]
                   /\ TextsMap \in [Message -> Seq(Seq(Byte))]
<1>1. \A m \in Message : Bytes(m) \in Seq(Byte)
  BY BytesFacts
<1>2. \A m \in Message : TextsOf(m) \in Seq(Seq(Byte))
  BY TextOfType DEF TextsOf, Message
<1>. QED  BY <1>1, <1>2 DEF BytesMap, TextsMap

\* AllBytes and Texts are such maps.
LEMMA AreFlatMaps ==
  ASSUME NEW s \in Seq(Message)
  PROVE  AllBytes(s) = FlatMap(BytesMap, s) /\ Texts(s) = FlatMap(TextsMap, s)
<1>1. \A k \in DOMAIN s : s[k] \in Message
  OBVIOUS
<1>. QED  BY <1>1 DEF AllBytes, Texts, FlatMap, Mapped, BytesMap, TextsMap

\* The bytes and the texts of two sequences of messages in a row.
LEMMA InSequence ==
  ASSUME NEW a \in Seq(Message), NEW b \in Seq(Message)
  PROVE  /\ AllBytes(a) \in Seq(Byte) /\ Texts(a) \in Seq(Seq(Byte))
         /\ AllBytes(a \o b) = AllBytes(a) \o AllBytes(b)
         /\ Texts(a \o b) = Texts(a) \o Texts(b)
<1>1. a \o b \in Seq(Message)
  OBVIOUS
<1>2. /\ FlatMap(BytesMap, a) \in Seq(Byte)
      /\ FlatMap(BytesMap, a \o b) = FlatMap(BytesMap, a) \o FlatMap(BytesMap, b)
  <2>1. BytesMap \in [Message -> Seq(Byte)]
    BY MapsTyped
  <2>. QED  BY <2>1, FlatMapFacts, ZenonT(30)
<1>3. /\ FlatMap(TextsMap, a) \in Seq(Seq(Byte))
      /\ FlatMap(TextsMap, a \o b) = FlatMap(TextsMap, a) \o FlatMap(TextsMap, b)
  <2>1. TextsMap \in [Message -> Seq(Seq(Byte))]
    BY MapsTyped
  <2>. QED  BY <2>1, FlatMapFacts, ZenonT(30)
<1>. QED  BY <1>1, <1>2, <1>3, AreFlatMaps

\* The bytes and the text of one message.
LEMMA OneMessage ==
  ASSUME NEW m \in Message
  PROVE  /\ AllBytes(<<m>>) = Bytes(m) /\ AllBytes(<<>>) = <<>>
         /\ Texts(<<m>>) = TextsOf(m) /\ Texts(<<>>) = <<>>
<1>1. <<m>> \in Seq(Message) /\ <<>> \in Seq(Message)
  OBVIOUS
<1>2. FlatMap(BytesMap, <<>>) = <<>> /\ FlatMap(BytesMap, <<m>>) = BytesMap[m]
  BY MapsTyped, FlatMapOne
<1>3. FlatMap(TextsMap, <<>>) = <<>> /\ FlatMap(TextsMap, <<m>>) = TextsMap[m]
  BY MapsTyped, FlatMapOne
<1>4. BytesMap[m] = Bytes(m) /\ TextsMap[m] = TextsOf(m)
  BY DEF BytesMap, TextsMap
<1>. QED  BY <1>1, <1>2, <1>3, <1>4, AreFlatMaps

-----------------------------------------------------------------------------
(* What the handler reads in its input. *)

\* Two ways to cut the same sequence: x has the beginning of y, and what
\* follows y in it comes before the rest.
Agreeing(x, y) == \A k \in 1 .. Len(x) : k \in 1 .. Len(y) => x[k] = y[k]
Behind(x, y)   == SubSeq(x, Len(y) + 1, Len(x))

\* Two ways to cut one sequence: the first parts agree,
LEMMA SameBeginning ==
  ASSUME NEW S, NEW x \in Seq(S), NEW w \in Seq(S), NEW y \in Seq(S), NEW t \in Seq(S),
         x \o w = y \o t
  PROVE  Agreeing(x, y)
<1>. SUFFICES ASSUME NEW k \in 1 .. Len(x), k \in 1 .. Len(y) PROVE x[k] = y[k]
  BY DEF Agreeing
<1>1. InARow(x \o w, x, w) /\ InARow(y \o t, y, t)
  BY ConcatParts
<1>2. (x \o w)[k] = x[k] /\ (y \o t)[k] = y[k]
  BY <1>1 DEF InARow
<1>. QED  BY <1>2

\* and what the longer has beyond the shorter belongs to the second part.
LEMMA SameRest ==
  ASSUME NEW S, NEW x \in Seq(S), NEW w \in Seq(S), NEW y \in Seq(S), NEW t \in Seq(S),
         x \o w = y \o t, Len(y) <= Len(x)
  PROVE  Behind(x, y) \in Seq(S) /\ Behind(x, y) \o w = t
<1>. DEFINE r == SubSeq(x, Len(y) + 1, Len(x))
            l == Len(y)
            n == Len(x)
            z == x \o w
<1>1. l \in Nat /\ n \in Nat /\ l <= n /\ Len(w) \in Nat /\ Len(t) \in Nat
  BY LenProperties
<1>2. r \in Seq(S) /\ Len(r) = n - l /\ \A i \in 1 .. n - l : r[i] = x[l + i]
  <2>1. \A i \in l + 1 .. n : x[i] \in S
    BY <1>1
  <2>2. l + 1 \in Int /\ n \in Int
    BY <1>1
  <2>3. /\ SubSeq(x, l + 1, n) \in Seq(S)
        /\ Len(SubSeq(x, l + 1, n)) = IF l + 1 <= n THEN n - (l + 1) + 1 ELSE 0
        /\ \A i \in 1 .. n - (l + 1) + 1 : SubSeq(x, l + 1, n)[i] = x[l + 1 + i - 1]
    BY <2>1, <2>2, SubSeqProperties
  <2>. HIDE DEF l, n
  <2>. QED  BY <1>1, <2>3 DEF l, n
<1>3. /\ Len(z) = n + Len(w) /\ \A i \in 1 .. n : z[i] = x[i]
      /\ \A i \in 1 .. Len(w) : z[n + i] = w[i]
  <2>1. InARow(x \o w, x, w)
    BY ConcatParts
  <2>. QED  BY <2>1 DEF InARow
<1>4. Len(z) = l + Len(t) /\ \A i \in 1 .. Len(t) : z[l + i] = t[i]
  <2>1. InARow(y \o t, y, t)
    BY ConcatParts
  <2>. QED  BY <2>1 DEF InARow
<1>. HIDE DEF r, l, n, z
<1>5. /\ r \o w \in Seq(S) /\ Len(r \o w) = Len(r) + Len(w)
      /\ \A i \in 1 .. Len(r) : (r \o w)[i] = r[i]
      /\ \A i \in 1 .. Len(w) : (r \o w)[Len(r) + i] = w[i]
  <2>1. r \o w \in Seq(S) /\ InARow(r \o w, r, w)
    BY <1>2, ConcatParts
  <2>. QED  BY <2>1 DEF InARow
<1>6. Len(r \o w) = Len(t)
  <2>1. n + Len(w) = l + Len(t)
    BY <1>3, <1>4
  <2>2. (n - l) + Len(w) = Len(t)
    BY <1>1, <2>1
  <2>. QED  BY <1>2, <1>5, <2>2
<1>7. ASSUME NEW i \in 1 .. Len(t) PROVE (r \o w)[i] = t[i]
  <2>1. t[i] = z[l + i]
    BY <1>4
  <2>2. CASE i <= n - l
    <3>1. i \in 1 .. Len(r) /\ i \in 1 .. n - l /\ l + i \in 1 .. n
      BY <1>1, <1>2, <2>2
    <3>. QED  BY <1>2, <1>3, <1>5, <2>1, <3>1
  <2>3. CASE ~(i <= n - l)
    <3>. DEFINE j == i - (n - l)
    <3>1. j \in 1 .. Len(w) /\ i = Len(r) + j /\ l + i = n + j
      BY <1>1, <1>2, <1>3, <1>4, <2>3
    <3>. HIDE DEF j
    <3>2. (r \o w)[i] = w[j]
      BY <1>5, <3>1
    <3>3. z[l + i] = w[j]
      BY <1>3, <3>1
    <3>. QED  BY <2>1, <3>2, <3>3
  <2>. QED  BY <1>1, <2>2, <2>3
<1>8. r \o w = t
  BY <1>5, <1>6, <1>7, SeqEqual
<1>. QED  BY <1>2, <1>8 DEF r, Behind

\* What the running branch looks at.
LEMMA InputType ==
  ASSUME TypeOK
  PROVE  /\ Input \in Seq(Byte) /\ Len(Input) \in Nat /\ wire \in Seq(Byte)
         /\ CodeLen \in {0, 1} /\ (first <=> CodeLen = 1)
  BY DEF TypeOK, Input, CodeLen

\* The length field is the 4 bytes behind the code.
LEMMA LengthFieldFacts ==
  ASSUME TypeOK, Len(Input) - CodeLen >= 4
  PROVE  /\ LengthField \in Seq(Byte) /\ Len(LengthField) = 4
         /\ \A k \in 1 .. 4 : LengthField[k] = Input[CodeLen + k]
<1>. DEFINE c == CodeLen
<1>1. c \in Int /\ Input \in Seq(Byte) /\ Len(Input) \in Nat /\ c \in {0, 1}
  BY InputType
<1>. HIDE DEF c
<1>2. \A i \in c + 1 .. c + 4 : Input[i] \in Byte
  <2>. TAKE i \in c + 1 .. c + 4
  <2>1. i \in 1 .. Len(Input)
    BY <1>1 DEF c
  <2>. QED  BY <1>1, <2>1, ElementOfSeq
<1>3. c + 1 \in Int /\ c + 4 \in Int
  BY <1>1
<1>4. /\ SubSeq(Input, c + 1, c + 4) \in Seq(Byte)
      /\ Len(SubSeq(Input, c + 1, c + 4)) = IF c + 1 <= c + 4 THEN (c + 4) - (c + 1) + 1 ELSE 0
      /\ \A i \in 1 .. (c + 4) - (c + 1) + 1 : SubSeq(Input, c + 1, c + 4)[i] = Input[c + 1 + i - 1]
  BY <1>2, <1>3, SubSeqProperties
<1>5. /\ (c + 4) - (c + 1) + 1 = 4 /\ c + 1 <= c + 4
      /\ \A i \in 1 .. 4 : c + 1 + i - 1 = c + i
  BY <1>1
<1>. QED  BY <1>4, <1>5 DEF c, LengthField

\* Whatever the bytes are, they decode to a number.
LEMMA LengthType ==
  ASSUME TypeOK, Len(Input) - CodeLen >= 4
  PROVE  Length \in Nat
<1>1. \A k \in 1 .. 4 : LengthField[k] \in Byte
  BY LengthFieldFacts, ElementOfSeq
<1>2. /\ LengthField[1] \in Nat /\ LengthField[2] \in Nat
      /\ LengthField[3] \in Nat /\ LengthField[4] \in Nat
  BY <1>1, BaseAssumption DEF Byte
<1>3. Base \in Nat /\ Square \in Nat
  BY BaseAssumption, SquareFact
<1>4. \A a, b, c, d \in Nat : (a * Base + b) * Square + (c * Base + d) \in Nat
  BY <1>3
<1>. QED  BY <1>2, <1>4 DEF Length, DecodeUint32, DecodeUint32LE, DecodeUint32BE

\* A part of the input is a sequence of bytes.
LEMMA PartType ==
  ASSUME NEW s \in Seq(Byte), NEW i \in Nat \ {0}, NEW j \in Nat, j <= Len(s)
  PROVE  /\ SubSeq(s, i, j) \in Seq(Byte)
         /\ Len(SubSeq(s, i, j)) = IF i <= j THEN j - i + 1 ELSE 0
         /\ \A k \in 1 .. j - i + 1 : SubSeq(s, i, j)[k] = s[i + k - 1]
<1>1. \A k \in i .. j : s[k] \in Byte
  <2>. TAKE k \in i .. j
  <2>1. k \in 1 .. Len(s)
    BY LenProperties
  <2>. QED  BY <2>1, ElementOfSeq
<1>. QED  BY <1>1, SubSeqProperties

\* A whole message lies within the input.
LEMMA MessageType ==
  ASSUME TypeOK, HasMessage
  PROVE  /\ Length \in Nat /\ Length >= 4 /\ CodeLen + Length <= Len(Input)
         /\ Payload \in Seq(Byte) /\ Len(Payload) = Length - 4
         /\ AfterMessage \in Seq(Byte)
<1>1. /\ Length \in Nat /\ Length >= 4 /\ CodeLen + Length <= Len(Input)
      /\ Input \in Seq(Byte) /\ Len(Input) \in Nat /\ CodeLen \in Nat
  BY InputType, LengthType DEF HasMessage
<1>2. /\ CodeLen + 5 \in Nat \ {0} /\ CodeLen + Length \in Nat
      /\ CodeLen + Length + 1 \in Nat \ {0}
  BY <1>1
<1>3. /\ SubSeq(Input, CodeLen + 5, CodeLen + Length) \in Seq(Byte)
      /\ Len(SubSeq(Input, CodeLen + 5, CodeLen + Length))
           = IF CodeLen + 5 <= CodeLen + Length
             THEN (CodeLen + Length) - (CodeLen + 5) + 1 ELSE 0
  BY <1>1, <1>2, PartType
<1>4. SubSeq(Input, CodeLen + Length + 1, Len(Input)) \in Seq(Byte)
  BY <1>1, <1>2, PartType
<1>5. (IF CodeLen + 5 <= CodeLen + Length
       THEN (CodeLen + Length) - (CodeLen + 5) + 1 ELSE 0) = Length - 4
  BY <1>1
<1>. QED  BY <1>1, <1>3, <1>4, <1>5 DEF Payload, AfterMessage

\* The handler's input begins with a message, or with a part of it: it finds
\* the message once it is there as a whole, and what it takes for the payload
\* and for the rest is that.
LEMMA Reads ==
  ASSUME TypeOK, NEW m \in Message, NEW t \in Seq(Byte), Input \o wire = Bytes(m) \o t,
         CodeLen = Len(m.tag), m.len < 4 \/ (m.len = Len(m.body) + 4 /\ m.len < Square)
  PROVE  /\ HasMessage <=> m.len >= 4 /\ Len(Bytes(m)) <= Len(Input)
         /\ HasMessage => /\ Payload = m.body /\ AfterMessage \o wire = t
                          /\ first => Input[1] = m.tag[1]
                          /\ ByteOrder = "BE"
<1>. DEFINE y == Bytes(m)
            c == CodeLen
            n == Len(Input)
            b == Len(m.body)
<1>1. /\ y \in Seq(Byte) /\ Len(y) = c + 4 + b /\ b \in Nat /\ c \in {0, 1}
      /\ m.body \in Seq(Byte) /\ m.len \in Nat
      /\ \A k \in 1 .. c : y[k] = m.tag[k]
      /\ \A k \in 1 .. 4 : y[c + k] = Encode(m.len)[k]
      /\ \A k \in 1 .. b : y[c + 4 + k] = m.body[k]
  BY BytesFacts, InputType DEF Message
<1>2. Input \in Seq(Byte) /\ wire \in Seq(Byte) /\ n \in Nat /\ (first <=> c = 1)
  BY InputType
<1>3. Input \o wire = y \o t /\ (m.len >= 4 => m.len = b + 4)
  BY <1>1
<1>. HIDE DEF y, c, n, b
<1>6. ASSUME NEW k \in 1 .. n, k \in 1 .. Len(y) PROVE Input[k] = y[k]
  <2>1. Agreeing(Input, y)
    BY <1>1, <1>2, <1>3, SameBeginning
  <2>. QED  BY <1>6, <2>1 DEF Agreeing, n
<1>4. CASE ~(n - c >= 4)
  <2>1. ~(Len(y) <= n)
    BY <1>1, <1>2, <1>4
  <2>. QED  BY <1>4, <2>1 DEF HasMessage, c, n, y
<1>5. CASE n - c >= 4
  <2>1. LengthField = Encode(m.len)
    <3>1. /\ LengthField \in Seq(Byte) /\ Len(LengthField) = 4
          /\ \A k \in 1 .. 4 : LengthField[k] = Input[c + k]
      BY <1>5, LengthFieldFacts DEF c, n
    <3>2. Encode(m.len) \in Seq(Byte) /\ Len(Encode(m.len)) = 4
      BY <1>1, EncodeFacts
    <3>3. ASSUME NEW k \in 1 .. 4 PROVE LengthField[k] = Encode(m.len)[k]
      <4>1. c + k \in 1 .. n /\ c + k \in 1 .. Len(y)
        BY <1>1, <1>2, <1>5
      <4>2. Input[c + k] = y[c + k]
        BY <1>6, <4>1
      <4>. QED  BY <1>1, <3>1, <4>2
    <3>. QED  BY <3>1, <3>2, <3>3, SeqEqual
  <2>2. Length = m.len
    <3>1. Square >= 4 /\ Square \in Nat
      <4>1. Base \in Nat /\ Base >= 2
        BY BaseAssumption
      <4>2. Base * Base >= 4
        BY <4>1
      <4>. QED  BY <4>2, SquareFact DEF Square
    <3>2. m.len \in 0 .. Square - 1
      BY <1>1, <3>1, SMTT(30)
    <3>3. CASE m.len = 0
      <4>1. Encode(0) = <<0, 0, 0, 0>>
        BY BaseAssumption, SquareFact DEF Encode
      <4>2. DecodeUint32LE(<<0, 0, 0, 0>>) = 0 /\ DecodeUint32BE(<<0, 0, 0, 0>>) = 0
        BY BaseAssumption, SquareFact DEF DecodeUint32LE, DecodeUint32BE
      <4>. QED  BY <2>1, <3>3, <4>1, <4>2 DEF Length, DecodeUint32
    <3>4. CASE m.len # 0
      <4>1. m.len \in 1 .. Square - 1
        BY <3>1, <3>2, <3>4
      <4>. QED  BY <2>1, <4>1, ShortLengthDecoded DEF Length, ByteOrder
    <3>. QED  BY <3>3, <3>4
  <2>3. HasMessage <=> m.len >= 4 /\ n - c >= m.len
    BY <1>5, <2>2 DEF HasMessage, c, n
  <2>4. m.len >= 4 => Len(y) = c + m.len
    BY <1>1, <1>3
  <2>5. HasMessage <=> m.len >= 4 /\ Len(y) <= n
    BY <1>1, <1>2, <2>3, <2>4, SMTT(30)
  <2>6. ASSUME HasMessage PROVE /\ Payload = m.body /\ AfterMessage \o wire = t
                                /\ first => Input[1] = m.tag[1]
                                /\ ByteOrder = "BE"
    <3>1. /\ m.len >= 4 /\ Len(y) = c + m.len /\ Len(y) <= n
          /\ m.len = b + 4
      BY <1>3, <2>4, <2>5, <2>6
    <3>2. Payload = m.body
      <4>1. /\ c + 5 \in Nat \ {0} /\ c + m.len \in Nat /\ c + m.len <= Len(Input)
            /\ (c + m.len) - (c + 5) + 1 = b
            /\ (IF c + 5 <= c + m.len THEN (c + m.len) - (c + 5) + 1 ELSE 0) = b
            /\ \A k \in 1 .. b : (c + 5) + k - 1 = c + 4 + k
        BY <1>1, <1>2, <3>1 DEF n
      <4>2. /\ SubSeq(Input, c + 5, c + m.len) \in Seq(Byte)
            /\ Len(SubSeq(Input, c + 5, c + m.len))
                 = IF c + 5 <= c + m.len THEN (c + m.len) - (c + 5) + 1 ELSE 0
            /\ \A k \in 1 .. (c + m.len) - (c + 5) + 1 :
                 SubSeq(Input, c + 5, c + m.len)[k] = Input[(c + 5) + k - 1]
        BY <1>2, <4>1, PartType, ZenonT(30)
      <4>3. Payload = SubSeq(Input, c + 5, c + m.len)
        BY <2>2 DEF Payload, c
      <4>4. /\ Payload \in Seq(Byte) /\ Len(Payload) = b
            /\ \A k \in 1 .. b : Payload[k] = Input[c + 4 + k]
        BY <4>1, <4>2, <4>3
      <4>5. ASSUME NEW k \in 1 .. b PROVE Payload[k] = m.body[k]
        <5>1. c + 4 + k \in 1 .. n /\ c + 4 + k \in 1 .. Len(y)
          BY <1>1, <1>2, <3>1
        <5>2. Input[c + 4 + k] = y[c + 4 + k]
          BY <1>6, <5>1
        <5>. QED  BY <1>1, <4>4, <5>2
      <4>6. Len(Payload) = Len(m.body)
        BY <4>4 DEF b
      <4>7. \A k \in 1 .. Len(Payload) : Payload[k] = m.body[k]
        BY <4>4, <4>5
      <4>. QED  BY <1>1, <4>4, <4>6, <4>7, SeqEqual
    <3>3. AfterMessage \o wire = t
      <4>1. AfterMessage = Behind(Input, y)
        BY <2>2, <3>1 DEF AfterMessage, Behind, c
      <4>2. Len(y) <= Len(Input)
        BY <3>1 DEF n
      <4>3. /\ Input \in Seq(Byte) /\ wire \in Seq(Byte) /\ y \in Seq(Byte)
            /\ Input \o wire = y \o t
        BY <1>1, <1>2, <1>3
      <4>4. Behind(Input, y) \o wire = t
        BY ONLY <4>2, <4>3, t \in Seq(Byte), SameRest, ZenonT(30)
      <4>. QED  BY <4>1, <4>4
    <3>4. ASSUME first PROVE Input[1] = m.tag[1]
      <4>1. c = 1 /\ 1 \in 1 .. c /\ 1 \in 1 .. n /\ 1 \in 1 .. Len(y)
        BY <1>1, <1>2, <1>5, <3>4
      <4>2. Input[1] = y[1]
        BY <1>6, <4>1
      <4>. QED  BY <1>1, <4>1, <4>2
    <3>5. ByteOrder = "BE"
      <4>1. m.len \in 1 .. Square - 1
        BY <1>1, <3>1, SquareFact
      <4>. QED  BY <2>1, <4>1, ShortLengthOrder DEF ByteOrder
    <3>. QED  BY <3>2, <3>3, <3>4, <3>5
  <2>. QED  BY <2>5, <2>6 DEF y, n
<1>. QED  BY <1>4, <1>5

-----------------------------------------------------------------------------
(* Types. *)

\* A sequence in two parts.
LEMMA CutFacts ==
  ASSUME NEW s \in Seq(Byte), NEW n \in Nat, n <= Len(s)
  PROVE  /\ SubSeq(s, 1, n) \in Seq(Byte) /\ SubSeq(s, n + 1, Len(s)) \in Seq(Byte)
         /\ Len(SubSeq(s, n + 1, Len(s))) = Len(s) - n
         /\ SubSeq(s, 1, n) \o SubSeq(s, n + 1, Len(s)) = s
<1>1. Len(s) \in Nat /\ 1 \in Nat \ {0} /\ n + 1 \in Nat \ {0}
  BY LenProperties
<1>2. SubSeq(s, 1, n) \in Seq(Byte)
  BY <1>1, PartType
<1>3. /\ SubSeq(s, n + 1, Len(s)) \in Seq(Byte)
      /\ Len(SubSeq(s, n + 1, Len(s))) = IF n + 1 <= Len(s) THEN Len(s) - (n + 1) + 1 ELSE 0
  BY <1>1, PartType
<1>4. SubSeq(s, 1, n) \o SubSeq(s, n + 1, Len(s)) = s
  <2>1. 1 \in 1 .. Len(s) + 1 /\ n \in 1 - 1 .. Len(s) /\ Len(s) \in n .. Len(s)
    BY <1>1
  <2>2. SubSeq(s, 1, n) \o SubSeq(s, n + 1, Len(s)) = SubSeq(s, 1, Len(s))
    BY <2>1, ConcatAdjacentSubSeq
  <2>. QED  BY <2>2, SubSeqFull
<1>6. Len(SubSeq(s, n + 1, Len(s))) = Len(s) - n
  <2>. DEFINE l == Len(SubSeq(s, n + 1, Len(s)))
  <2>1. l = IF n + 1 <= Len(s) THEN Len(s) - (n + 1) + 1 ELSE 0
    BY <1>3
  <2>. HIDE DEF l
  <2>2. l = Len(s) - n
    BY <1>1, <2>1
  <2>. QED  BY <2>2 DEF l
<1>. QED  BY <1>2, <1>3, <1>4, <1>6, Zenon

\* TypeOK holds at first and in every step.
LEMMA InitType == ASSUME Init PROVE TypeOK
<1>1. sent \in Seq(Message)
  BY CodesAssumption DEF Init
<1>2. wire \in Seq(Byte)
  BY <1>1, InSequence DEF Init
<1>3. rest \in Seq(Byte) /\ buffer \in Seq(Byte) /\ logged \in Seq(Seq(Byte))
  BY EmptySeq DEF Init
<1>4. /\ pc = "idle" /\ rest = <<>>
      /\ first \in BOOLEAN /\ ended \in BOOLEAN /\ thrown \in BOOLEAN
  BY DEF Init
<1>. QED  BY <1>1, <1>2, <1>3, <1>4 DEF TypeOK

\* The client sends a message.
LEMMA SendType == ASSUME TypeOK, NEW m \in Messages, Send(m) PROVE TypeOK'
<1>1. m \in Message
  BY CodesAssumption
<1>2. sent' \in Seq(Message)
  BY <1>1 DEF TypeOK, Send
<1>3. wire' \in Seq(Byte)
  <2>1. Bytes(m) \in Seq(Byte) /\ wire \in Seq(Byte)
    BY <1>1, BytesFacts DEF TypeOK
  <2>. QED  BY <2>1, ConcatProperties DEF Send
<1>. QED  BY <1>2, <1>3 DEF TypeOK, Send, handlerVars

\* The handler is called.
LEMMA RecvType == ASSUME TypeOK, NEW n \in 0 .. CHUNK_SZ, Recv(n) PROVE TypeOK'
<1>1. wire \in Seq(Byte) /\ buffer \in Seq(Byte) /\ n \in Nat /\ n <= Len(wire)
  BY CodesAssumption DEF TypeOK, Recv
<1>2. wire' \in Seq(Byte) /\ Received(n) \in Seq(Byte)
  BY <1>1, CutFacts DEF Recv, Received
<1>3. buffer \o Received(n) \in Seq(Byte)
  BY <1>1, <1>2, ConcatProperties
<1>4. CASE buffer = <<>>
  BY <1>2, <1>4 DEF TypeOK, Recv
<1>5. CASE buffer # <<>>
  BY <1>2, <1>3, <1>5 DEF TypeOK, Recv
<1>. QED  BY <1>4, <1>5

\* It handles a message.
LEMMA HandleType == ASSUME TypeOK, Handle PROVE TypeOK'
<1>1. Payload \in Seq(Byte) /\ AfterMessage \in Seq(Byte)
  BY MessageType DEF Handle
<1>2. TextOf(Payload) \in Seq(Byte)
  BY <1>1, TextOfType
<1>3. logged' \in Seq(Seq(Byte)) /\ ended' \in BOOLEAN
  <2>1. logged \in Seq(Seq(Byte)) /\ ended \in BOOLEAN
    BY DEF TypeOK
  <2>2. Append(logged, TextOf(Payload)) \in Seq(Seq(Byte))
    BY <1>2, <2>1, AppendProperties
  <2>. QED  BY <2>1, <2>2 DEF Handle, Visit
<1>4. rest' \in Seq(Byte) /\ buffer' \in Seq(Byte)
  BY <1>1 DEF Handle, TypeOK
<1>5. rest' # <<>> => pc' = "direct" /\ buffer' = <<>>
  BY DEF Handle, TypeOK, Input
<1>6. /\ sent' \in Seq(Message) /\ wire' \in Seq(Byte)
      /\ pc' \in {"idle", "direct", "buffered"} /\ first' \in BOOLEAN /\ thrown' \in BOOLEAN
  BY DEF Handle, TypeOK, clientVars
<1>. QED  BY <1>3, <1>4, <1>5, <1>6 DEF TypeOK

\* The other steps keep, drop or empty the input.
LEMMA StepType == ASSUME TypeOK, [Next]_vars PROVE TypeOK'
<1>1. CASE NeedMore
  BY <1>1, InputType DEF NeedMore, Saved, TypeOK, clientVars
<1>2. CASE Throw
  BY <1>2 DEF Throw, TypeOK, clientVars
<1>3. CASE Return
  BY <1>3 DEF Return, TypeOK, clientVars, Input
<1>4. CASE UNCHANGED vars
  BY <1>4 DEF vars, clientVars, handlerVars, TypeOK
<1>. QED  BY <1>1, <1>2, <1>3, <1>4, SendType, RecvType, HandleType DEF Next

\* Whatever a client sends and however it is cut, the handler's state is made
\* of bytes, and the two branches of operator() never hold input at once.
THEOREM ParserTypeCorrect == Spec => []TypeOK
<1>1. Init => TypeOK
  BY InitType
<1>2. TypeOK /\ [Next]_vars => TypeOK'
  BY StepType
<1>. QED  BY <1>1, <1>2, PTL DEF Spec

-----------------------------------------------------------------------------
(* The handler follows the client. *)

\* What has been sent, in two parts and message by message.
LEMMA SentParts ==
  ASSUME TypeOK, NEW h \in 0 .. Len(sent)
  PROVE  /\ Len(sent) \in Nat /\ FirstOf(h) \in Seq(Message) /\ After(h) \in Seq(Message)
         /\ FirstOf(h) \o After(h) = sent
         /\ h < Len(sent) => /\ sent[h + 1] \in Message
                             /\ After(h) = <<sent[h + 1]>> \o After(h + 1)
                             /\ FirstOf(h + 1) = FirstOf(h) \o <<sent[h + 1]>>
<1>1. sent \in Seq(Message) /\ Len(sent) \in Nat /\ h \in Nat /\ h <= Len(sent)
  BY DEF TypeOK
<1>2. FirstOf(h) \in Seq(Message)
  <2>1. \A k \in 1 .. h : sent[k] \in Message
    BY <1>1
  <2>. QED  BY <1>1, <2>1, SubSeqProperties DEF FirstOf
<1>3. After(h) \in Seq(Message)
  <2>1. \A k \in h + 1 .. Len(sent) : sent[k] \in Message
    BY <1>1
  <2>2. h + 1 \in Int /\ Len(sent) \in Int
    BY <1>1
  <2>. QED  BY <2>1, <2>2, SubSeqProperties DEF After
<1>4. FirstOf(h) \o After(h) = sent
  <2>1. 1 \in 1 .. Len(sent) + 1 /\ h \in 1 - 1 .. Len(sent) /\ Len(sent) \in h .. Len(sent)
    BY <1>1
  <2>2. FirstOf(h) \o After(h) = SubSeq(sent, 1, Len(sent))
    BY <1>1, <2>1, ConcatAdjacentSubSeq DEF FirstOf, After
  <2>. QED  BY <1>1, <2>2, SubSeqFull
<1>5. ASSUME h < Len(sent)
      PROVE  /\ sent[h + 1] \in Message
             /\ After(h) = <<sent[h + 1]>> \o After(h + 1)
             /\ FirstOf(h + 1) = FirstOf(h) \o <<sent[h + 1]>>
  <2>1. /\ h + 1 \in 1 .. Len(sent) /\ Len(sent) \in h + 1 .. Len(sent)
        /\ 1 \in 1 .. Len(sent) /\ h + 1 \in 1 .. Len(sent) /\ (h + 1) - 1 = h
    BY <1>1, <1>5
  <2>2. SubSeq(sent, h + 1, Len(sent)) = <<sent[h + 1]>> \o SubSeq(sent, (h + 1) + 1, Len(sent))
    BY <1>1, <2>1, SubSeqRecursiveFirst
  <2>3. SubSeq(sent, 1, h + 1) = SubSeq(sent, 1, (h + 1) - 1) \o <<sent[h + 1]>>
    BY <1>1, <2>1, SubSeqRecursiveSecond
  <2>4. sent[h + 1] \in Message
    BY <1>1, <2>1, ElementOfSeq
  <2>. QED  BY <2>1, <2>2, <2>3, <2>4 DEF After, FirstOf
<1>. QED  BY <1>1, <1>2, <1>3, <1>4, <1>5

\* The bytes still to be handled and the texts to be logged by now.
LEMMA NextMessage ==
  ASSUME TypeOK, NEW h \in 0 .. Len(sent)
  PROVE  /\ AllBytes(After(h)) \in Seq(Byte) /\ Texts(FirstOf(h)) \in Seq(Seq(Byte))
         /\ AllBytes(FirstOf(h)) \in Seq(Byte)
         /\ AllBytes(sent) = AllBytes(FirstOf(h)) \o AllBytes(After(h))
         /\ h = Len(sent) => AllBytes(After(h)) = <<>>
         /\ h < Len(sent) =>
              /\ h + 1 \in 0 .. Len(sent)
              /\ AllBytes(After(h)) = Bytes(sent[h + 1]) \o AllBytes(After(h + 1))
              /\ Texts(FirstOf(h + 1)) = Texts(FirstOf(h)) \o TextsOf(sent[h + 1])
<1>1. FirstOf(h) \in Seq(Message) /\ After(h) \in Seq(Message) /\ Len(sent) \in Nat
  BY SentParts
<1>2. /\ AllBytes(After(h)) \in Seq(Byte) /\ Texts(FirstOf(h)) \in Seq(Seq(Byte))
      /\ AllBytes(FirstOf(h)) \in Seq(Byte)
  BY <1>1, InSequence
<1>3. AllBytes(sent) = AllBytes(FirstOf(h)) \o AllBytes(After(h))
  <2>1. AllBytes(FirstOf(h) \o After(h)) = AllBytes(FirstOf(h)) \o AllBytes(After(h))
    BY <1>1, InSequence
  <2>. QED  BY <2>1, SentParts
<1>4. ASSUME h = Len(sent) PROVE AllBytes(After(h)) = <<>>
  <2>1. After(h) = <<>>
    BY <1>1, <1>4, SubSeqEmpty DEF After
  <2>2. <<>> \in Seq(Byte)
    BY EmptySeq
  <2>3. FlattenSeq([k \in DOMAIN <<>> |-> Bytes(<<>>[k])]) = <<>>
    <3>1. [k \in DOMAIN <<>> |-> Bytes(<<>>[k])] = <<>>
      OBVIOUS
    <3>. QED  BY <3>1, FlattenEmpty
  <2>. QED  BY <2>1, <2>3 DEF AllBytes
<1>5. ASSUME h < Len(sent)
      PROVE  /\ h + 1 \in 0 .. Len(sent)
             /\ AllBytes(After(h)) = Bytes(sent[h + 1]) \o AllBytes(After(h + 1))
             /\ Texts(FirstOf(h + 1)) = Texts(FirstOf(h)) \o TextsOf(sent[h + 1])
  <2>. DEFINE m == sent[h + 1]
  <2>1. h + 1 \in 0 .. Len(sent)
    BY <1>1, <1>5
  <2>2. After(h + 1) \in Seq(Message)
    BY <2>1, SentParts
  <2>3. /\ m \in Message /\ After(h) = <<m>> \o After(h + 1)
        /\ FirstOf(h + 1) = FirstOf(h) \o <<m>>
    BY <1>5, SentParts
  <2>. HIDE DEF m
  <2>4. <<m>> \in Seq(Message)
    BY <2>3
  <2>5. AllBytes(<<m>> \o After(h + 1)) = AllBytes(<<m>>) \o AllBytes(After(h + 1))
    BY <2>2, <2>4, InSequence
  <2>6. Texts(FirstOf(h) \o <<m>>) = Texts(FirstOf(h)) \o Texts(<<m>>)
    BY <1>1, <2>4, InSequence
  <2>7. AllBytes(<<m>>) = Bytes(m) /\ Texts(<<m>>) = TextsOf(m)
    BY <2>3, OneMessage
  <2>8. /\ AllBytes(After(h)) = Bytes(m) \o AllBytes(After(h + 1))
        /\ Texts(FirstOf(h + 1)) = Texts(FirstOf(h)) \o TextsOf(m)
    BY <2>3, <2>5, <2>6, <2>7, Zenon
  <2>. QED  BY <2>1, <2>8 DEF m
<1>. QED  BY <1>1, <1>2, <1>3, <1>4, <1>5

\* A handler that has followed its client and has input looks at the next
\* message or a part of it.  It finds it once it is there as a whole and its
\* length is not too small, and throws if it is not well formed.
LEMMA AtHand ==
  ASSUME TypeOK, SentAllowed, NEW h \in 0 .. Len(sent), Followed(h), Input # <<>>
  PROVE  LET m == sent[h + 1]
         IN  /\ h < Len(sent) /\ m \in Message /\ Allowed(m, h + 1)
             /\ HasMessage <=> m.len >= 4 /\ Len(Bytes(m)) <= Len(Input)
             /\ HasMessage => /\ AfterMessage \o wire = AllBytes(After(h + 1))
                              /\ Payload = m.body /\ ByteOrder = "BE"
                              /\ MsgCode = Query <=> m.tag = <<Query>>
                              /\ MsgCode = Terminate <=> m.tag = <<Terminate>>
                              /\ Throws(MsgCode, Payload) <=> ~WellFormed(m)
<1>. DEFINE m == sent[h + 1]
            t == AllBytes(After(h + 1))
<1>1. Input \in Seq(Byte) /\ wire \in Seq(Byte) /\ Len(sent) \in Nat /\ h \in Nat
  BY InputType, SentParts
<1>2. h < Len(sent)
  <2>. SUFFICES ASSUME h = Len(sent) PROVE FALSE
    BY <1>1
  <2>1. Input \o wire = <<>>
    BY NextMessage DEF Followed
  <2>. QED  BY <1>1, <2>1, ConcatEqualIffEmpty
<1>3. m \in Message /\ Allowed(m, h + 1)
  <2>1. h + 1 \in DOMAIN sent
    BY <1>1, <1>2 DEF TypeOK
  <2>. QED  BY <1>2, <2>1, SentParts DEF SentAllowed
<1>4. t \in Seq(Byte) /\ Input \o wire = Bytes(m) \o t
  <2>1. h + 1 \in 0 .. Len(sent)
    BY <1>1, <1>2
  <2>. QED  BY <1>2, <2>1, NextMessage DEF Followed
<1>5. /\ first <=> h + 1 # 1
      /\ first \in BOOLEAN
  BY <1>1 DEF Followed, TypeOK
<1>. HIDE DEF m, t
<1>6. /\ m.len < 4 \/ (m.len = Len(m.body) + 4 /\ m.len < Square)
      /\ IF ~first THEN m.tag = <<>>
                   ELSE \E code \in Byte \ {StartupMessage} : m.tag = <<code>>
  BY <1>3, <1>5 DEF Allowed
<1>7. CodeLen = Len(m.tag)
  BY <1>5, <1>6 DEF CodeLen
<1>8. /\ HasMessage <=> m.len >= 4 /\ Len(Bytes(m)) <= Len(Input)
      /\ HasMessage => /\ Payload = m.body /\ AfterMessage \o wire = t
                       /\ first => Input[1] = m.tag[1]
                       /\ ByteOrder = "BE"
  BY <1>3, <1>4, <1>6, <1>7, Reads
<1>9. ASSUME HasMessage
      PROVE  /\ MsgCode = Query <=> m.tag = <<Query>>
             /\ MsgCode = Terminate <=> m.tag = <<Terminate>>
             /\ Throws(MsgCode, Payload) <=> ~WellFormed(m)
  <2>1. /\ Payload = m.body /\ m.len = Len(m.body) + 4
        /\ m.len \in Nat /\ Len(m.body) \in Nat
        /\ m.body = <<>> <=> ~(m.body # <<>>)
    BY <1>3, <1>6, <1>8, <1>9 DEF Message
  <2>2. Query # StartupMessage /\ Terminate # StartupMessage
    BY CodesAssumption
  <2>3. CASE ~first
    <3>1. m.tag = <<>> /\ MsgCode = StartupMessage
      BY <1>6, <2>3 DEF MsgCode
    <3>2. <<>> # <<Query>> /\ <<>> # <<Terminate>>
      OBVIOUS
    <3>3. Throws(MsgCode, Payload) <=> Len(m.body) < 4
      BY <2>1, <2>2, <3>1 DEF Throws, BadStartup
    <3>4. ~WellFormed(m) <=> Len(m.body) < 4
      BY <2>1, <3>1, <3>2 DEF WellFormed
    <3>. QED  BY <2>2, <3>1, <3>2, <3>3, <3>4
  <2>4. CASE first
    <3>1. PICK code \in Byte \ {StartupMessage} : m.tag = <<code>>
      BY <1>6, <2>4
    <3>2. MsgCode = code /\ code # StartupMessage
      BY <1>8, <1>9, <2>4, <3>1 DEF MsgCode
    <3>3. /\ <<code>> = <<Query>> <=> code = Query
          /\ <<code>> = <<Terminate>> <=> code = Terminate
          /\ <<code>> # <<>>
      OBVIOUS
    <3>4. Throws(MsgCode, Payload) <=> (code = Query /\ m.body = <<>>)
      BY <2>1, <3>2 DEF Throws, BadQuery
    <3>5. ~WellFormed(m) <=> (code = Query /\ m.body = <<>>)
      BY <2>1, <3>1, <3>3 DEF WellFormed
    <3>. QED  BY <3>1, <3>2, <3>3, <3>4, <3>5
  <2>. QED  BY <1>5, <2>3, <2>4
<1>. QED  BY <1>2, <1>3, <1>8, <1>9 DEF m, t

\* At first no message has been handled and all bytes are on the wire.
LEMMA InitFollow == ASSUME PlainClient, Init PROVE SentAllowed /\ FollowInv
<1>1. TypeOK
  BY InitType
<1>2. SentAllowed
  BY DEF PlainClient, Init, SentAllowed
<1>3. 0 \in 0 .. Len(sent) /\ Len(sent) \in Nat
  BY <1>1 DEF TypeOK
<1>4. sent # <<>> /\ 1 \in DOMAIN sent /\ sent[1] \in Message /\ 0 + 1 = 1
  BY <1>1, <1>2 DEF SentAllowed, TypeOK
<1>5. FirstOf(0) = <<>> /\ After(0) = sent
  <2>1. SubSeq(sent, 1, 0) = <<>>
    BY SubSeqEmpty
  <2>2. SubSeq(sent, 1, Len(sent)) = sent
    BY <1>1, SubSeqFull DEF TypeOK
  <2>. QED  BY <2>1, <2>2 DEF FirstOf, After
<1>6. Input \o wire = AllBytes(After(0))
  <2>1. wire \in Seq(Byte) /\ Input = <<>>
    BY <1>1 DEF Init, TypeOK, Input
  <2>2. <<>> \o wire = wire
    BY <2>1, ConcatEmptySeq
  <2>. QED  BY <1>5, <2>1, <2>2 DEF Init
<1>7. logged = Texts(FirstOf(0))
  BY <1>4, <1>5, OneMessage DEF Init
<1>8. Len(buffer) < Len(Bytes(sent[0 + 1]))
  <2>1. Len(Bytes(sent[1])) \in Nat /\ Len(Bytes(sent[1])) >= 4
    BY <1>4, BytesLong
  <2>2. Len(buffer) = 0
    BY EmptySeq DEF Init
  <2>. QED  BY <1>4, <2>1, <2>2
<1>9. Followed(0)
  <2>1. /\ \A k \in 1 .. 0 : FALSE
        /\ ~(0 > 0) /\ pc = "idle" /\ ~first /\ ~ended /\ ~thrown
    BY DEF Init
  <2>. QED  BY <1>6, <1>7, <1>8, <2>1 DEF Followed
<1>. QED  BY <1>2, <1>3, <1>9 DEF FollowInv

\* A further message changes nothing about those before it.
LEMMA SendKeeps ==
  ASSUME TypeOK, NEW m \in Message, sent' = Append(sent, m), NEW h \in 0 .. Len(sent)
  PROVE  /\ h \in 0 .. Len(sent') /\ Len(sent') = Len(sent) + 1
         /\ \A k \in 1 .. Len(sent) : sent'[k] = sent[k]
         /\ sent'[Len(sent) + 1] = m
         /\ FirstOf(h)' = FirstOf(h)
         /\ AllBytes(After(h)') = AllBytes(After(h)) \o Bytes(m)
<1>1. /\ sent \in Seq(Message) /\ sent' \in Seq(Message) /\ Len(sent) \in Nat
      /\ Len(sent') = Len(sent) + 1 /\ sent'[Len(sent) + 1] = m
      /\ \A k \in 1 .. Len(sent) : sent'[k] = sent[k]
  BY AppendProperties DEF TypeOK
<1>2. h \in Nat /\ h <= Len(sent) /\ h \in 0 .. Len(sent')
  BY <1>1
<1>3. FirstOf(h)' = FirstOf(h)
  <2>1. h \in Int /\ 1 \in Int /\ h - 1 + 1 = h
    BY <1>2
  <2>2. \A k \in 1 .. h : sent[k] \in Message /\ sent'[k] \in Message /\ sent'[k] = sent[k]
    BY <1>1, <1>2
  <2>3. /\ SubSeq(sent, 1, h) \in Seq(Message)
        /\ Len(SubSeq(sent, 1, h)) = IF 1 <= h THEN h - 1 + 1 ELSE 0
        /\ \A i \in 1 .. h - 1 + 1 : SubSeq(sent, 1, h)[i] = sent[1 + i - 1]
    BY <2>1, <2>2, SubSeqProperties
  <2>4. /\ SubSeq(sent', 1, h) \in Seq(Message)
        /\ Len(SubSeq(sent', 1, h)) = IF 1 <= h THEN h - 1 + 1 ELSE 0
        /\ \A i \in 1 .. h - 1 + 1 : SubSeq(sent', 1, h)[i] = sent'[1 + i - 1]
    BY <2>1, <2>2, SubSeqProperties
  <2>5. \A i \in 1 .. h : 1 + i - 1 = i
    BY <1>2
  <2>6. Len(SubSeq(sent, 1, h)) = h
    BY <1>2, <2>3
  <2>7. \A i \in 1 .. h : SubSeq(sent, 1, h)[i] = SubSeq(sent', 1, h)[i]
    BY <2>1, <2>2, <2>3, <2>4, <2>5
  <2>8. Len(SubSeq(sent', 1, h)) = Len(SubSeq(sent, 1, h))
    BY <2>3, <2>4
  <2>9. SubSeq(sent, 1, h) = SubSeq(sent', 1, h)
    BY <2>3, <2>4, <2>6, <2>7, <2>8, SeqEqual
  <2>. QED  BY <2>9 DEF FirstOf
<1>4. After(h)' = After(h) \o <<m>>
  <2>. DEFINE a == SubSeq(sent', h + 1, Len(sent'))
  <2>1. h + 1 \in 1 .. Len(sent') /\ Len(sent') \in h + 1 .. Len(sent')
    BY <1>1, <1>2
  <2>2. a = SubSeq(sent', h + 1, Len(sent') - 1) \o <<sent'[Len(sent')]>>
    BY <1>1, <2>1, SubSeqRecursiveSecond
  <2>3. Len(sent') - 1 = Len(sent) /\ sent'[Len(sent')] = m
    BY <1>1
  <2>4. SubSeq(sent', h + 1, Len(sent)) = SubSeq(sent, h + 1, Len(sent))
    <3>. DEFINE l == Len(sent)
                x == SubSeq(sent', h + 1, l)
                y == SubSeq(sent, h + 1, l)
    <3>1. h + 1 \in Int /\ l \in Int
      BY <1>1, <1>2
    <3>2. \A k \in h + 1 .. l : sent[k] \in Message /\ sent'[k] \in Message /\ sent'[k] = sent[k]
      BY <1>1, <1>2
    <3>3. /\ x \in Seq(Message) /\ Len(x) = IF h + 1 <= l THEN l - (h + 1) + 1 ELSE 0
          /\ \A i \in 1 .. l - (h + 1) + 1 : x[i] = sent'[h + 1 + i - 1]
      BY <3>1, <3>2, SubSeqProperties
    <3>4. /\ y \in Seq(Message) /\ Len(y) = IF h + 1 <= l THEN l - (h + 1) + 1 ELSE 0
          /\ \A i \in 1 .. l - (h + 1) + 1 : y[i] = sent[h + 1 + i - 1]
      BY <3>1, <3>2, SubSeqProperties
    <3>. HIDE DEF l, x, y
    <3>5. \A i \in 1 .. l - (h + 1) + 1 : h + 1 + i - 1 \in h + 1 .. l
      BY <3>1, <1>2
    <3>6. Len(x) = Len(y) /\ 1 .. Len(x) \subseteq 1 .. l - (h + 1) + 1
      BY <1>2, <3>1, <3>3, <3>4
    <3>7. \A i \in 1 .. Len(x) : x[i] = y[i]
      BY <3>2, <3>3, <3>4, <3>5, <3>6
    <3>8. x = y
      BY <3>3, <3>4, <3>6, <3>7, SeqEqual
    <3>. QED  BY <3>8 DEF x, y, l
  <2>5. a = SubSeq(sent, h + 1, Len(sent)) \o <<m>>
    BY <2>2, <2>3, <2>4, Zenon
  <2>. QED  BY <2>5 DEF After
<1>5. AllBytes(After(h) \o <<m>>) = AllBytes(After(h)) \o Bytes(m)
  <2>0. <<m>> \in Seq(Message)
    OBVIOUS
  <2>1. After(h) \in Seq(Message) /\ <<m>> \in Seq(Message)
    BY <2>0, SentParts, Zenon
  <2>2. AllBytes(After(h) \o <<m>>) = AllBytes(After(h)) \o AllBytes(<<m>>)
    BY <2>1, InSequence
  <2>3. AllBytes(<<m>>) = Bytes(m)
    BY OneMessage
  <2>. QED  BY <2>2, <2>3, Zenon
<1>. QED  BY <1>1, <1>2, <1>3, <1>4, <1>5

\* IsPrefix, element by element.
LEMMA PrefixIs ==
  ASSUME NEW S, NEW a \in Seq(S), NEW b \in Seq(S)
  PROVE  IsPrefix(a, b) <=> Len(a) <= Len(b) /\ \A k \in 1 .. Len(a) : a[k] = b[k]
<1>. DEFINE c == SubSeq(b, 1, Len(a))
<1>1. Len(a) \in Nat /\ Len(b) \in Nat /\ SubSeq(a, 1, Len(a)) = a
  BY LenProperties, SubSeqFull
<1>2. ASSUME Len(a) <= Len(b)
      PROVE  c \in Seq(S) /\ Len(c) = Len(a) /\ \A k \in 1 .. Len(a) : c[k] = b[k]
  <2>1. \A k \in 1 .. Len(a) : b[k] \in S
    BY <1>1, <1>2
  <2>2. /\ c \in Seq(S) /\ Len(c) = IF 1 <= Len(a) THEN Len(a) - 1 + 1 ELSE 0
        /\ \A k \in 1 .. Len(a) - 1 + 1 : c[k] = b[1 + k - 1]
    BY <1>1, <2>1, SubSeqProperties
  <2>. HIDE DEF c
  <2>3. Len(a) - 1 + 1 = Len(a) /\ \A k \in 1 .. Len(a) : 1 + k - 1 = k
    BY <1>1
  <2>4. Len(c) = Len(a)
    BY <1>1, <2>2
  <2>. QED  BY <2>2, <2>3, <2>4
<1>3. IsPrefix(a, b) <=> Len(a) <= Len(b) /\ a = c
  BY <1>1 DEF IsPrefix
<1>. HIDE DEF c
<1>4. ASSUME Len(a) <= Len(b), \A k \in 1 .. Len(a) : a[k] = b[k] PROVE a = c
  <2>1. \A k \in 1 .. Len(a) : a[k] = c[k]
    BY <1>2, <1>4
  <2>. QED  BY <1>2, <1>4, <2>1, SeqEqual
<1>. QED  BY <1>2, <1>3, <1>4

\* A prefix of a sequence stays one when the sequence grows or the prefix shrinks.
LEMMA PrefixFacts ==
  ASSUME NEW S, NEW a \in Seq(S), NEW b \in Seq(S), NEW c \in Seq(S), NEW x \in S
  PROVE  /\ IsPrefix(a, a) /\ IsPrefix(a, a \o c)
         /\ IsPrefix(a, b) => IsPrefix(a, Append(b, x))
         /\ IsPrefix(a \o c, b) => IsPrefix(a, b)
<1>1. Len(a) \in Nat /\ Len(b) \in Nat /\ Len(c) \in Nat
  BY LenProperties
<1>2. IsPrefix(a, a)
  BY <1>1, PrefixIs
<1>3. /\ a \o c \in Seq(S) /\ Len(a \o c) = Len(a) + Len(c)
      /\ \A k \in 1 .. Len(a) : (a \o c)[k] = a[k]
  <2>1. a \o c \in Seq(S) /\ InARow(a \o c, a, c)
    BY ConcatParts
  <2>. QED  BY <2>1 DEF InARow
<1>4. /\ Append(b, x) \in Seq(S) /\ Len(Append(b, x)) = Len(b) + 1
      /\ \A k \in 1 .. Len(b) : Append(b, x)[k] = b[k]
  BY AppendProperties
<1>. DEFINE p == a \o c
            q == Append(b, x)
<1>. HIDE DEF p, q
<1>5. IsPrefix(a, p)
  <2>1. p \in Seq(S) /\ Len(a) <= Len(p) /\ \A k \in 1 .. Len(a) : a[k] = p[k]
    <3>1. p \in Seq(S) /\ Len(p) = Len(a) + Len(c) /\ \A k \in 1 .. Len(a) : p[k] = a[k]
      BY <1>3 DEF p
    <3>. QED  BY <1>1, <3>1
  <2>. QED  BY <2>1, PrefixIs
<1>6. ASSUME IsPrefix(a, b) PROVE IsPrefix(a, q)
  <2>1. Len(a) <= Len(b) /\ \A k \in 1 .. Len(a) : a[k] = b[k]
    BY <1>6, PrefixIs
  <2>2. q \in Seq(S) /\ Len(q) = Len(b) + 1 /\ \A k \in 1 .. Len(b) : q[k] = b[k]
    BY <1>4 DEF q
  <2>3. Len(a) <= Len(q) /\ \A k \in 1 .. Len(a) : a[k] = q[k]
    BY <1>1, <2>1, <2>2
  <2>. QED  BY <2>2, <2>3, PrefixIs
<1>7. ASSUME IsPrefix(p, b) PROVE IsPrefix(a, b)
  <2>1. p \in Seq(S) /\ Len(p) = Len(a) + Len(c) /\ \A k \in 1 .. Len(a) : p[k] = a[k]
    BY <1>3 DEF p
  <2>2. Len(p) <= Len(b) /\ \A k \in 1 .. Len(p) : p[k] = b[k]
    BY <1>7, <2>1, PrefixIs, SMTT(30)
  <2>3. Len(a) <= Len(b) /\ \A k \in 1 .. Len(a) : a[k] = b[k]
    BY <1>1, <2>1, <2>2
  <2>. QED  BY <2>3, PrefixIs
<1>. QED  BY <1>2, <1>5, <1>6, <1>7 DEF p, q

\* The client sends a message.
LEMMA SendFollow ==
  ASSUME PlainClient, IInv, NEW m \in Messages, Send(m)
  PROVE  SentAllowed' /\ FollowInv'
<1>. USE DEF IInv
<1>1. m \in Message /\ Allowed(m, 2) /\ sent' = Append(sent, m)
  BY CodesAssumption DEF PlainClient, Send
<1>2. /\ Len(sent) \in Nat /\ sent \in Seq(Message) /\ Len(sent) >= 1
      /\ Len(sent') = Len(sent) + 1 /\ sent' \in Seq(Message) /\ sent'[Len(sent) + 1] = m
      /\ \A k \in 1 .. Len(sent) : sent'[k] = sent[k]
  <2>1. sent \in Seq(Message) /\ sent # <<>>
    BY DEF TypeOK, SentAllowed
  <2>. QED  BY <1>1, <2>1, AppendProperties, EmptySeq
<1>3. SentAllowed'
  <2>1. ASSUME NEW k \in DOMAIN sent' PROVE Allowed(sent'[k], k)
    <3>1. k \in 1 .. Len(sent) + 1
      BY <1>2
    <3>2. CASE k \in 1 .. Len(sent)
      BY <1>2, <3>2 DEF SentAllowed
    <3>3. CASE k = Len(sent) + 1
      <4>1. k # 1 /\ sent'[k] = m
        BY <1>2, <3>3
      <4>. QED  BY <1>1, <4>1 DEF Allowed
    <3>. QED  BY <1>2, <3>1, <3>2, <3>3
  <2>2. sent' # <<>>
    BY <1>2
  <2>. QED  BY <2>1, <2>2 DEF SentAllowed
<1>4. PICK h \in 0 .. Len(sent) : Followed(h) \/ GivenUp(h)
  BY DEF FollowInv
<1>5. /\ h \in 0 .. Len(sent') /\ h \in Nat /\ h <= Len(sent)
      /\ FirstOf(h)' = FirstOf(h)
      /\ AllBytes(After(h)') = AllBytes(After(h)) \o Bytes(m)
  <2>1. TypeOK /\ h \in 0 .. Len(sent)
    OBVIOUS
  <2>2. h \in Nat /\ h <= Len(sent) /\ h \in 0 .. Len(sent')
    BY <1>2
  <2>3. FirstOf(h)' = FirstOf(h) /\ AllBytes(After(h)') = AllBytes(After(h)) \o Bytes(m)
    BY <1>1, <2>1, SendKeeps
  <2>. QED  BY <2>2, <2>3
<1>6. \A k \in 1 .. h : sent'[k] = sent[k]
  BY <1>2, <1>5
<1>7. Bytes(m) \in Seq(Byte) /\ wire \in Seq(Byte) /\ Input \in Seq(Byte)
  BY <1>1, BytesFacts, InputType
<1>8. wire' = wire \o Bytes(m) /\ UNCHANGED <<pc, rest, buffer, first, logged, ended, thrown>>
  BY DEF Send, handlerVars
<1>9. Input' = Input
  BY <1>8 DEF Input
<1>10. CASE Followed(h)
  <2>1. Input' \o wire' = AllBytes(After(h)')
    <3>1. (Input \o wire) \o Bytes(m) = Input \o (wire \o Bytes(m))
      BY <1>7, ByteAssociative
    <3>2. Input \o wire = AllBytes(After(h))
      BY <1>10 DEF Followed
    <3>. QED  BY <1>5, <1>8, <1>9, <3>1, <3>2, Zenon
  <2>2. ASSUME pc = "idle", WellFormed(sent'[h + 1])
        PROVE  Len(buffer) < Len(Bytes(sent'[h + 1]))
    <3>1. CASE h < Len(sent)
      <4>1. sent'[h + 1] = sent[h + 1]
        BY <1>2, <1>5, <3>1
      <4>. QED  BY <1>10, <2>2, <3>1, <4>1 DEF Followed
    <3>2. CASE h = Len(sent)
      <4>1. Input \o wire = <<>>
        BY <1>10, <3>2, NextMessage DEF Followed
      <4>2. buffer = <<>>
        BY <1>7, <2>2, <4>1, ConcatEqualIffEmpty DEF Input
      <4>3. Len(Bytes(m)) \in Nat /\ Len(Bytes(m)) >= 4 /\ Len(buffer) = 0
        BY <1>1, <4>2, BytesLong, EmptySeq
      <4>. QED  BY <1>2, <3>2, <4>3
    <3>. QED  BY <1>2, <1>5, <3>1, <3>2
  <2>3. Followed(h)'
    <3>1. \A k \in 1 .. h : WellFormed(sent'[k])
      BY <1>6, <1>10 DEF Followed
    <3>2. ended' <=> \E k \in 1 .. h : sent'[k].tag = <<Terminate>>
      BY <1>6, <1>8, <1>10 DEF Followed
    <3>3. logged' = Texts(FirstOf(h)')
      BY <1>5, <1>8, <1>10 DEF Followed
    <3>4. (first' <=> h > 0) /\ ~thrown' /\ (pc' = "direct" => buffer' = <<>>)
      BY <1>8, <1>10 DEF Followed
    <3>. QED  BY <1>8, <2>1, <2>2, <3>1, <3>2, <3>3, <3>4 DEF Followed
  <2>. QED  BY <1>3, <1>5, <2>3 DEF FollowInv
<1>11. CASE GivenUp(h)
  <2>1. h < Len(sent) /\ h + 1 \in 0 .. Len(sent) /\ h < Len(sent')
    BY <1>2, <1>5, <1>11 DEF GivenUp
  <2>2. sent'[h + 1] = sent[h + 1]
    BY <1>2, <1>5, <2>1
  <2>3. AllBytes(After(h + 1)') = AllBytes(After(h + 1)) \o Bytes(m)
    BY <1>1, <2>1, SendKeeps
  <2>4. Len(wire') <= Len(AllBytes(After(h + 1)'))
    <3>. DEFINE t == AllBytes(After(h + 1))
    <3>1. t \in Seq(Byte) /\ Len(wire) <= Len(t)
      BY <1>11, <2>1, NextMessage DEF GivenUp
    <3>. HIDE DEF t
    <3>2. Len(t \o Bytes(m)) = Len(t) + Len(Bytes(m))
      BY <1>7, <3>1, ConcatProperties
    <3>3. Len(wire \o Bytes(m)) = Len(wire) + Len(Bytes(m))
      BY <1>7, ConcatProperties
    <3>4. Len(t) \in Nat /\ Len(wire) \in Nat /\ Len(Bytes(m)) \in Nat
      BY <1>7, <3>1, LenProperties
    <3>5. Len(wire \o Bytes(m)) <= Len(t \o Bytes(m))
      BY <3>1, <3>2, <3>3, <3>4
    <3>. QED  BY <1>8, <2>3, <3>5 DEF t
  <2>5. GivenUp(h)'
    BY <1>5, <1>8, <1>11, <2>1, <2>2, <2>4 DEF GivenUp
  <2>. QED  BY <1>3, <1>5, <2>5 DEF FollowInv
<1>. QED  BY <1>4, <1>10, <1>11

\* A step of the handler that sends nothing keeps the messages; once given up,
\* it stays so while the log grows and the wire shrinks.
LEMMA StaysGivenUp ==
  ASSUME TypeOK, NEW h \in 0 .. Len(sent), GivenUp(h), UNCHANGED sent, thrown',
         Len(wire') <= Len(wire), Len(wire') \in Nat,
         logged' = logged \/ \E x \in Seq(Byte) : logged' = Append(logged, x)
  PROVE  FollowInv'
<1>1. h < Len(sent) /\ h + 1 \in 0 .. Len(sent) /\ h \in 0 .. Len(sent')
  BY SentParts DEF GivenUp
<1>2. AllBytes(After(h + 1)) \in Seq(Byte) /\ wire \in Seq(Byte)
  BY <1>1, NextMessage DEF TypeOK
<1>3. Len(wire') <= Len(AllBytes(After(h + 1))')
  <2>1. Len(wire) \in Nat /\ Len(AllBytes(After(h + 1))) \in Nat
    BY <1>2, LenProperties
  <2>2. Len(wire) <= Len(AllBytes(After(h + 1)))
    BY DEF GivenUp
  <2>3. AllBytes(After(h + 1))' = AllBytes(After(h + 1))
    BY DEF After
  <2>. QED  BY <2>1, <2>2, <2>3
<1>4. IsPrefix(Texts(FirstOf(h)'), logged')
  <2>1. FirstOf(h)' = FirstOf(h) /\ Texts(FirstOf(h)) \in Seq(Seq(Byte))
        /\ logged \in Seq(Seq(Byte)) /\ IsPrefix(Texts(FirstOf(h)), logged)
    BY NextMessage DEF FirstOf, GivenUp, TypeOK
  <2>2. ASSUME NEW x \in Seq(Byte) PROVE IsPrefix(Texts(FirstOf(h)), Append(logged, x))
    BY <2>1, PrefixFacts
  <2>. QED  BY <2>1, <2>2
<1>5. GivenUp(h)'
  BY <1>3, <1>4 DEF GivenUp
<1>. QED  BY <1>1, <1>5 DEF FollowInv

\* The handler is called with more bytes.
LEMMA RecvFollow ==
  ASSUME IInv, NEW n \in 0 .. CHUNK_SZ, Recv(n)
  PROVE  FollowInv'
<1>. DEFINE a == Received(n)
            b == SubSeq(wire, n + 1, Len(wire))
<1>0. TypeOK /\ n \in Nat /\ n <= Len(wire)
  BY CodesAssumption DEF IInv, Recv
<1>1. /\ wire \in Seq(Byte) /\ buffer \in Seq(Byte) /\ a \in Seq(Byte) /\ b \in Seq(Byte)
      /\ Len(b) = Len(wire) - n /\ Len(wire) \in Nat /\ a \o b = wire
  BY <1>0, CutFacts, LenProperties DEF TypeOK, Received
<1>2. /\ wire' = b /\ pc = "idle" /\ UNCHANGED <<sent, first, logged, ended, thrown>>
      /\ \/ buffer = <<>> /\ pc' = "direct" /\ rest' = a /\ buffer' = buffer
         \/ buffer # <<>> /\ pc' = "buffered" /\ buffer' = buffer \o a
  BY DEF Recv
<1>. HIDE DEF a, b
<1>3. Input' \o wire' = Input \o wire
  <2>1. Input = buffer
    BY <1>2 DEF Input
  <2>2. CASE buffer = <<>>
    <3>1. Input' = a
      BY <1>2, <2>2 DEF Input
    <3>2. <<>> \o wire = wire
      BY <1>1, ConcatEmptySeq
    <3>. QED  BY <1>1, <1>2, <2>1, <2>2, <3>1, <3>2
  <2>3. CASE buffer # <<>>
    <3>1. Input' = buffer \o a
      BY <1>2, <2>3 DEF Input
    <3>2. (buffer \o a) \o b = buffer \o (a \o b)
      <4>1. buffer \in Seq(Byte) /\ a \in Seq(Byte) /\ b \in Seq(Byte)
        BY <1>1
      <4>. QED  BY ONLY <4>1, ByteAssociative, ZenonT(30)
    <3>. QED  BY <1>1, <1>2, <2>1, <3>1, <3>2
  <2>. QED  BY <2>2, <2>3
<1>4. PICK h \in 0 .. Len(sent) : Followed(h) \/ GivenUp(h)
  BY DEF IInv, FollowInv
<1>5. CASE Followed(h)
  <2>1. AllBytes(After(h))' = AllBytes(After(h)) /\ Texts(FirstOf(h))' = Texts(FirstOf(h))
    BY <1>2 DEF After, FirstOf
  <2>2. Followed(h)'
    BY <1>2, <1>3, <1>5, <2>1 DEF Followed
  <2>. QED  BY <1>2, <2>2 DEF FollowInv
<1>6. CASE GivenUp(h)
  <2>1. Len(wire') <= Len(wire) /\ Len(wire') \in Nat
    BY <1>0, <1>1, <1>2
  <2>2. thrown' /\ UNCHANGED sent /\ logged' = logged
    BY <1>2, <1>6 DEF GivenUp
  <2>. QED  BY <1>0, <1>6, <2>1, <2>2, StaysGivenUp
<1>. QED  BY <1>4, <1>5, <1>6

\* The handler itself takes nothing from the wire.
LEMMA WireKept ==
  ASSUME TypeOK, UNCHANGED wire PROVE Len(wire') <= Len(wire) /\ Len(wire') \in Nat
<1>1. Len(wire) \in Nat
  BY LenProperties DEF TypeOK
<1>. QED  BY <1>1

\* It handles a message.
LEMMA HandleFollow ==
  ASSUME IInv, Handle
  PROVE  FollowInv'
<1>0. TypeOK /\ SentAllowed
  BY DEF IInv
<1>1. /\ HasMessage /\ ~Throws(MsgCode, Payload) /\ Input # <<>> /\ pc # "idle"
      /\ UNCHANGED <<sent, wire, pc, thrown>> /\ first' = TRUE /\ Visit(MsgCode, Payload)
      /\ rest'   = IF pc = "direct" THEN AfterMessage ELSE rest
      /\ buffer' = IF pc = "direct" THEN buffer ELSE AfterMessage
  BY DEF Handle, clientVars
<1>2. PICK h \in 0 .. Len(sent) : Followed(h) \/ GivenUp(h)
  BY DEF IInv, FollowInv
<1>3. CASE Followed(h)
  <2>. DEFINE m == sent[h + 1]
  <2>1. /\ h < Len(sent) /\ m \in Message
        /\ AfterMessage \o wire = AllBytes(After(h + 1)) /\ Payload = m.body
        /\ MsgCode = Query <=> m.tag = <<Query>>
        /\ MsgCode = Terminate <=> m.tag = <<Terminate>>
        /\ WellFormed(m)
    BY <1>0, <1>1, <1>3, AtHand
  <2>2. h \in Nat /\ h + 1 \in 0 .. Len(sent) /\ h + 1 > 0
        /\ 1 .. h + 1 = (1 .. h) \cup {h + 1}
    BY <1>0, <2>1, SentParts
  <2>. HIDE DEF m
  <2>3. Input' = AfterMessage
    BY <1>1 DEF Input
  <2>4. /\ AllBytes(After(h + 1))' = AllBytes(After(h + 1))
        /\ Texts(FirstOf(h + 1))' = Texts(FirstOf(h + 1))
    BY <1>1 DEF After, FirstOf
  <2>5. Input' \o wire' = AllBytes(After(h + 1))'
    BY <1>1, <2>1, <2>3, <2>4
  <2>6. logged' = Texts(FirstOf(h + 1))
    <3>1. Texts(FirstOf(h + 1)) = Texts(FirstOf(h)) \o TextsOf(m) /\ logged = Texts(FirstOf(h))
          /\ logged \in Seq(Seq(Byte)) /\ TextOf(m.body) \in Seq(Byte)
      BY <1>0, <1>3, <2>1, NextMessage, TextOfType DEF Followed, m, TypeOK, Message
    <3>2. CASE m.tag = <<Query>>
      <4>1. logged' = Append(logged, TextOf(m.body))
        BY <1>1, <2>1, <3>2 DEF Visit
      <4>2. TextsOf(m) = <<TextOf(m.body)>>
        BY <3>2 DEF TextsOf
      <4>3. Append(logged, TextOf(m.body)) = logged \o <<TextOf(m.body)>>
        BY <3>1, AppendIsConcat
      <4>. QED  BY <3>1, <4>1, <4>2, <4>3
    <3>3. CASE m.tag # <<Query>>
      <4>1. logged' = logged
        BY <1>1, <2>1, <3>3 DEF Visit
      <4>2. TextsOf(m) = <<>>
        BY <3>3 DEF TextsOf
      <4>3. logged \o <<>> = logged
        BY <3>1, ConcatEmptySeq
      <4>. QED  BY <3>1, <4>1, <4>2, <4>3
    <3>. QED  BY <3>2, <3>3
  <2>7. ended' <=> \E k \in 1 .. h + 1 : sent[k].tag = <<Terminate>>
    <3>1. ended' <=> ended \/ m.tag = <<Terminate>>
      BY <1>0, <1>1, <2>1 DEF Visit, TypeOK
    <3>2. ended <=> \E k \in 1 .. h : sent[k].tag = <<Terminate>>
      BY <1>3 DEF Followed
    <3>. QED  BY <2>2, <3>1, <3>2 DEF m
  <2>8. \A k \in 1 .. h + 1 : WellFormed(sent[k])
    BY <1>3, <2>1, <2>2 DEF Followed, m
  <2>9. ~thrown' /\ (pc' = "direct" => buffer' = <<>>) /\ pc' # "idle"
    BY <1>1, <1>3 DEF Followed
  <2>10. Followed(h + 1)'
    BY <1>1, <2>2, <2>4, <2>5, <2>6, <2>7, <2>8, <2>9 DEF Followed
  <2>. QED  BY <1>1, <2>2, <2>10 DEF FollowInv
<1>4. CASE GivenUp(h)
  <2>1. logged' = logged \/ logged' = Append(logged, TextOf(Payload))
    BY <1>1 DEF Visit
  <2>2. TextOf(Payload) \in Seq(Byte)
    BY <1>0, <1>1, MessageType, TextOfType
  <2>3. thrown' /\ UNCHANGED sent
    BY <1>1, <1>4 DEF GivenUp
  <2>4. Len(wire') <= Len(wire) /\ Len(wire') \in Nat
    BY <1>0, <1>1, WireKept
  <2>. QED  BY <1>0, <1>4, <2>1, <2>2, <2>3, <2>4, StaysGivenUp
<1>. QED  BY <1>2, <1>3, <1>4

\* It keeps what is not a whole message, and goes back to waiting.
LEMMA NeedMoreFollow ==
  ASSUME IInv, NeedMore
  PROVE  FollowInv'
<1>0. TypeOK /\ SentAllowed
  BY DEF IInv
<1>1. /\ ~HasMessage /\ Input # <<>> /\ buffer' = Input /\ pc' = "idle"
      /\ UNCHANGED <<sent, wire, first, logged, ended, thrown>>
  BY DEF NeedMore, Saved, clientVars
<1>2. PICK h \in 0 .. Len(sent) : Followed(h) \/ GivenUp(h)
  BY DEF IInv, FollowInv
<1>3. CASE Followed(h)
  <2>1. Input' = Input
    BY <1>1 DEF Input
  <2>2. ASSUME WellFormed(sent[h + 1]) PROVE Len(Input) < Len(Bytes(sent[h + 1]))
    <3>. DEFINE m == sent[h + 1]
    <3>1. m \in Message /\ ~(m.len >= 4 /\ Len(Bytes(m)) <= Len(Input))
      BY <1>0, <1>1, <1>3, AtHand
    <3>2. m.len >= 4
      BY <2>2, <3>1 DEF WellFormed, Message
    <3>3. Len(Bytes(m)) \in Nat /\ Len(Input) \in Nat
      BY <1>0, <3>1, BytesLong, InputType
    <3>. HIDE DEF m
    <3>4. Len(Input) < Len(Bytes(m))
      BY <3>1, <3>2, <3>3
    <3>. QED  BY <3>4 DEF m
  <2>3. AllBytes(After(h))' = AllBytes(After(h)) /\ Texts(FirstOf(h))' = Texts(FirstOf(h))
    BY <1>1 DEF After, FirstOf
  <2>4. Followed(h)'
    BY <1>1, <1>3, <2>1, <2>2, <2>3 DEF Followed
  <2>. QED  BY <1>1, <2>4 DEF FollowInv
<1>4. CASE GivenUp(h)
  <2>1. Len(wire') <= Len(wire) /\ Len(wire') \in Nat
    BY <1>0, <1>1, WireKept
  <2>2. thrown' /\ UNCHANGED sent /\ logged' = logged
    BY <1>1, <1>4 DEF GivenUp
  <2>. QED  BY <1>0, <1>4, <2>1, <2>2, StaysGivenUp
<1>. QED  BY <1>2, <1>3, <1>4

\* It throws: the message is one that is not well formed, and has arrived.
LEMMA ThrowFollow ==
  ASSUME IInv, Throw
  PROVE  FollowInv'
<1>0. TypeOK /\ SentAllowed
  BY DEF IInv
<1>1. /\ HasMessage /\ Input # <<>> /\ Throws(MsgCode, Payload) /\ thrown'
      /\ UNCHANGED <<sent, wire, logged>>
  BY DEF Throw, clientVars
<1>2. PICK h \in 0 .. Len(sent) : Followed(h) \/ GivenUp(h)
  BY DEF IInv, FollowInv
<1>3. CASE Followed(h)
  <2>1. /\ h < Len(sent) /\ ~WellFormed(sent[h + 1])
        /\ AfterMessage \o wire = AllBytes(After(h + 1))
    BY <1>0, <1>1, <1>3, AtHand
  <2>2. Len(wire) <= Len(AllBytes(After(h + 1)))
    <3>1. AfterMessage \in Seq(Byte) /\ wire \in Seq(Byte)
      BY <1>0, <1>1, MessageType DEF TypeOK
    <3>. DEFINE x == AfterMessage
    <3>. HIDE DEF x
    <3>2. x \in Seq(Byte) /\ Len(AllBytes(After(h + 1))) = Len(x \o wire)
      BY <2>1, <3>1 DEF x
    <3>3. Len(x \o wire) = Len(x) + Len(wire) /\ Len(x) \in Nat /\ Len(wire) \in Nat
      BY <3>1, <3>2, ConcatProperties, LenProperties
    <3>. QED  BY <3>2, <3>3
  <2>3. IsPrefix(Texts(FirstOf(h)), logged)
    <3>1. logged = Texts(FirstOf(h)) /\ logged \in Seq(Seq(Byte)) /\ <<>> \in Seq(Byte)
      BY <1>0, <1>3, EmptySeq DEF Followed, TypeOK
    <3>. QED  BY <3>1, PrefixFacts
  <2>4. AllBytes(After(h + 1))' = AllBytes(After(h + 1)) /\ Texts(FirstOf(h))' = Texts(FirstOf(h))
    BY <1>1 DEF After, FirstOf
  <2>5. GivenUp(h)'
    BY <1>1, <2>1, <2>2, <2>3, <2>4 DEF GivenUp
  <2>. QED  BY <1>1, <2>5 DEF FollowInv
<1>4. CASE GivenUp(h)
  <2>1. Len(wire') <= Len(wire) /\ Len(wire') \in Nat
    BY <1>0, <1>1, WireKept
  <2>. QED  BY <1>0, <1>1, <1>4, <2>1, StaysGivenUp
<1>. QED  BY <1>2, <1>3, <1>4

\* It returns with nothing left.
LEMMA ReturnFollow ==
  ASSUME IInv, Return
  PROVE  FollowInv'
<1>0. TypeOK /\ SentAllowed
  BY DEF IInv
<1>1. /\ Input = <<>> /\ pc # "idle" /\ pc' = "idle"
      /\ UNCHANGED <<sent, wire, rest, buffer, first, logged, ended, thrown>>
  BY DEF Return, clientVars
<1>2. PICK h \in 0 .. Len(sent) : Followed(h) \/ GivenUp(h)
  BY DEF IInv, FollowInv
<1>3. CASE Followed(h)
  <2>1. buffer = <<>> /\ Input' = Input
    BY <1>1, <1>3 DEF Input, Followed
  <2>2. ASSUME h < Len(sent) PROVE Len(buffer) < Len(Bytes(sent[h + 1]))
    <3>1. sent[h + 1] \in Message
      BY <1>0, <2>2, SentParts
    <3>2. Len(Bytes(sent[h + 1])) \in Nat /\ Len(Bytes(sent[h + 1])) >= 4
      BY <3>1, BytesLong
    <3>3. Len(buffer) = 0
      BY <2>1, EmptySeq
    <3>. QED  BY <3>2, <3>3
  <2>3. AllBytes(After(h))' = AllBytes(After(h)) /\ Texts(FirstOf(h))' = Texts(FirstOf(h))
    BY <1>1 DEF After, FirstOf
  <2>4. Followed(h)'
    BY <1>1, <1>3, <2>1, <2>2, <2>3 DEF Followed
  <2>. QED  BY <1>1, <2>4 DEF FollowInv
<1>4. CASE GivenUp(h)
  <2>1. Len(wire') <= Len(wire) /\ Len(wire') \in Nat
    BY <1>0, <1>1, WireKept
  <2>2. thrown' /\ UNCHANGED sent /\ logged' = logged
    BY <1>1, <1>4 DEF GivenUp
  <2>. QED  BY <1>0, <1>4, <2>1, <2>2, StaysGivenUp
<1>. QED  BY <1>2, <1>3, <1>4

\* IInv is inductive for every client that PlainClient allows.
THEOREM ParserInductive == ASSUME PlainClient PROVE Spec => []IInv
<1>1. Init => IInv
  BY InitType, InitFollow DEF IInv
<1>2. IInv /\ [Next]_vars => IInv'
  <2>. SUFFICES ASSUME IInv, [Next]_vars PROVE IInv'
    OBVIOUS
  <2>0. TypeOK'
    BY StepType DEF IInv
  <2>1. ASSUME NEW m \in Messages, Send(m) PROVE SentAllowed' /\ FollowInv'
    BY <2>1, SendFollow
  <2>2. CASE UNCHANGED vars
    <3>1. UNCHANGED <<sent, wire, pc, rest, buffer, first, logged, ended, thrown>>
      BY <2>2 DEF vars, clientVars, handlerVars
    <3>2. SentAllowed'
      BY <3>1 DEF IInv, SentAllowed
    <3>3. PICK h \in 0 .. Len(sent) : Followed(h) \/ GivenUp(h)
      BY DEF IInv, FollowInv
    <3>4. /\ AllBytes(After(h))' = AllBytes(After(h)) /\ Input' = Input
          /\ AllBytes(After(h + 1))' = AllBytes(After(h + 1))
          /\ Texts(FirstOf(h))' = Texts(FirstOf(h))
      BY <3>1 DEF After, FirstOf, Input
    <3>5. Followed(h)' \/ GivenUp(h)'
      BY <3>1, <3>3, <3>4 DEF Followed, GivenUp
    <3>. QED  BY <2>0, <3>1, <3>2, <3>5 DEF IInv, FollowInv
  <2>3. ASSUME UNCHANGED sent, FollowInv' PROVE IInv'
    BY <2>0, <2>3 DEF IInv, SentAllowed
  <2>4. ASSUME NEW n \in 0 .. CHUNK_SZ, Recv(n) PROVE IInv'
    BY <2>3, <2>4, RecvFollow DEF Recv
  <2>5. CASE Handle
    BY <2>3, <2>5, HandleFollow DEF Handle, clientVars
  <2>6. CASE NeedMore
    BY <2>3, <2>6, NeedMoreFollow DEF NeedMore, clientVars
  <2>7. CASE Throw
    BY <2>3, <2>7, ThrowFollow DEF Throw, clientVars
  <2>8. CASE Return
    BY <2>3, <2>8, ReturnFollow DEF Return, clientVars
  <2>. QED  BY <2>0, <2>1, <2>2, <2>4, <2>5, <2>6, <2>7, <2>8 DEF Next, IInv
<1>. QED  BY <1>1, <1>2, PTL DEF Spec

\* The largest of some numbers up to n.
LEMMA MaxFacts ==
  ASSUME NEW n \in Nat, NEW S \in SUBSET (0 .. n), S # {}
  PROVE  Max(S) \in S /\ \A y \in S : y <= Max(S)
<1>. DEFINE R == OpToRel(<, Nat)
            U == {n - k : k \in S}
<1>1. IsWellFoundedOn(R, Nat)
  BY NatLessThanWellFounded
<1>2. U \subseteq Nat /\ U # {}
  OBVIOUS
<1>3. \A x, y \in Nat : x < y => <<x, y>> \in R
  BY DEF OpToRel
<1>. HIDE DEF R
<1>4. PICK u \in U : \A v \in U : ~(<<v, u>> \in R)
  <2>. HIDE DEF U
  <2>. QED  BY <1>1, <1>2, WFMin
<1>5. PICK x \in S : u = n - x
  OBVIOUS
<1>6. ASSUME NEW y \in S PROVE x >= y
  <2>1. n - y \in U /\ n - y \in Nat /\ u \in Nat
    OBVIOUS
  <2>. HIDE DEF U
  <2>2. ~(n - y < u)
    BY <1>3, <1>4, <2>1
  <2>3. x \in 0 .. n /\ y \in 0 .. n
    OBVIOUS
  <2>. QED  BY <1>5, <2>2, <2>3
<1>7. \E z \in S : \A y \in S : z >= y
  BY <1>6
<1>8. Max(S) \in S /\ \A y \in S : Max(S) >= y
  BY <1>7, Zenon DEF Max
<1>9. \A a, b \in 0 .. n : a >= b => b <= a
  OBVIOUS
<1>. QED  BY <1>8, <1>9

\* Arrived is the largest number of messages received as a whole.
LEMMA ArrivedFacts ==
  ASSUME TypeOK, NEW h \in 0 .. Len(sent), Len(wire) <= Len(AllBytes(After(h)))
  PROVE  /\ Arrived \in 0 .. Len(sent) /\ h <= Arrived
         /\ Len(wire) <= Len(AllBytes(After(Arrived)))
<1>. DEFINE S == {k \in 0 .. Len(sent) : Len(AllBytes(After(k))) >= Len(wire)}
<1>1. Len(sent) \in Nat /\ Len(wire) \in Nat
  BY SentParts, LenProperties DEF TypeOK
<1>2. \A k \in 0 .. Len(sent) : Len(AllBytes(After(k))) \in Nat
  BY NextMessage, LenProperties
<1>3. Arrived = Max(S)
  BY DEF Arrived, After
<1>4. h \in S /\ S \subseteq 0 .. Len(sent)
  BY <1>1, <1>2
<1>5. Max(S) \in S /\ \A y \in S : y <= Max(S)
  <2>. HIDE DEF S
  <2>. QED  BY <1>1, <1>4, MaxFacts
<1>6. \A k \in S : k \in 0 .. Len(sent) /\ Len(wire) <= Len(AllBytes(After(k)))
  BY <1>1, <1>2
<1>. HIDE DEF S
<1>. QED  BY <1>3, <1>4, <1>5, <1>6

\* Leading is the largest number of them that are well formed.
LEMMA LeadingFacts ==
  ASSUME Arrived \in Nat
  PROVE  /\ Leading \in 0 .. Arrived /\ \A j \in 1 .. Leading : WellFormed(sent[j])
         /\ \A k \in 0 .. Arrived : (\A j \in 1 .. k : WellFormed(sent[j])) => k <= Leading
<1>. DEFINE S == {k \in 0 .. Arrived : \A j \in 1 .. k : WellFormed(sent[j])}
<1>1. Leading = Max(S)
  BY DEF Leading
<1>2. 0 \in S /\ S \subseteq 0 .. Arrived
  OBVIOUS
<1>3. Max(S) \in S /\ \A y \in S : y <= Max(S)
  <2>. HIDE DEF S
  <2>. QED  BY <1>2, MaxFacts
<1>4. \A k \in S : k \in 0 .. Arrived /\ \A j \in 1 .. k : WellFormed(sent[j])
  OBVIOUS
<1>5. \A k \in 0 .. Arrived : (\A j \in 1 .. k : WellFormed(sent[j])) => k \in S
  OBVIOUS
<1>. HIDE DEF S
<1>. QED  BY <1>1, <1>3, <1>4, <1>5

\* The bytes of fewer messages are fewer; their texts come first.
LEMMA FewerMessages ==
  ASSUME TypeOK, NEW k \in 0 .. Len(sent), NEW h \in 0 .. k
  PROVE  /\ Len(AllBytes(After(k))) <= Len(AllBytes(After(h)))
         /\ IsPrefix(Texts(FirstOf(k)), logged) => IsPrefix(Texts(FirstOf(h)), logged)
<1>. DEFINE d == SubSeq(sent, h + 1, k)
<1>1. /\ sent \in Seq(Message) /\ Len(sent) \in Nat /\ h \in Nat /\ k \in Nat /\ h <= k
      /\ k <= Len(sent) /\ h \in 0 .. Len(sent)
  BY DEF TypeOK
<1>2. d \in Seq(Message)
  <2>1. \A i \in h + 1 .. k : sent[i] \in Message
    BY <1>1
  <2>2. h + 1 \in Int /\ k \in Int
    BY <1>1
  <2>. QED  BY <2>1, <2>2, SubSeqProperties
<1>3. After(h) = d \o After(k)
  <2>1. h + 1 \in 1 .. Len(sent) + 1 /\ k \in (h + 1) - 1 .. Len(sent) /\ Len(sent) \in k .. Len(sent)
    BY <1>1
  <2>. QED  BY <1>1, <2>1, ConcatAdjacentSubSeq DEF After
<1>4. FirstOf(k) = FirstOf(h) \o d
  <2>1. 1 \in 1 .. Len(sent) + 1 /\ h \in 1 - 1 .. Len(sent) /\ k \in h .. Len(sent)
    BY <1>1
  <2>. QED  BY <1>1, <2>1, ConcatAdjacentSubSeq DEF FirstOf
<1>. HIDE DEF d
<1>5. After(k) \in Seq(Message) /\ FirstOf(h) \in Seq(Message)
  BY <1>1, SentParts
<1>6. Len(AllBytes(After(k))) <= Len(AllBytes(After(h)))
  <2>. DEFINE x == AllBytes(d)
              y == AllBytes(After(k))
  <2>1. x \in Seq(Byte) /\ y \in Seq(Byte) /\ AllBytes(After(h)) = x \o y
    BY <1>2, <1>3, <1>5, InSequence
  <2>. HIDE DEF x, y
  <2>2. Len(x \o y) = Len(x) + Len(y) /\ Len(x) \in Nat /\ Len(y) \in Nat
    BY <2>1, ConcatProperties, LenProperties
  <2>3. Len(y) <= Len(x \o y)
    BY <2>2
  <2>. QED  BY <2>1, <2>3 DEF y
<1>7. ASSUME IsPrefix(Texts(FirstOf(k)), logged) PROVE IsPrefix(Texts(FirstOf(h)), logged)
  <2>. DEFINE x == Texts(FirstOf(h))
              y == Texts(d)
  <2>1. /\ x \in Seq(Seq(Byte)) /\ y \in Seq(Seq(Byte)) /\ Texts(FirstOf(k)) = x \o y
        /\ logged \in Seq(Seq(Byte)) /\ <<>> \in Seq(Byte)
    BY <1>2, <1>4, <1>5, InSequence, EmptySeq, ZenonT(30) DEF TypeOK
  <2>. HIDE DEF x, y
  <2>2. IsPrefix(x \o y, logged)
    BY <1>7, <2>1
  <2>3. IsPrefix(x, logged)
    BY <2>1, <2>2, PrefixFacts
  <2>. QED  BY <2>3 DEF x
<1>. QED  BY <1>6, <1>7

\* Between two calls a handler that follows its client has handled all the
\* messages that have arrived, up to the first that is not well formed.
LEMMA FollowedAll ==
  ASSUME TypeOK, NEW h \in 0 .. Len(sent), Followed(h), pc = "idle"
  PROVE  Arrived \in 0 .. Len(sent) /\ Leading = h
<1>1. Input = buffer /\ buffer \in Seq(Byte) /\ wire \in Seq(Byte) /\ Len(sent) \in Nat
  BY SentParts DEF Input, TypeOK
<1>2. /\ Len(AllBytes(After(h))) = Len(buffer) + Len(wire)
      /\ Len(buffer) \in Nat /\ Len(wire) \in Nat
  <2>1. Len(buffer \o wire) = Len(buffer) + Len(wire)
    BY <1>1, ConcatProperties
  <2>2. AllBytes(After(h)) = buffer \o wire
    BY <1>1 DEF Followed
  <2>. QED  BY <1>1, <2>1, <2>2, LenProperties
<1>3. Len(wire) <= Len(AllBytes(After(h)))
  BY <1>2
<1>4. /\ Arrived \in 0 .. Len(sent) /\ h <= Arrived
      /\ Len(wire) <= Len(AllBytes(After(Arrived)))
  BY <1>3, ArrivedFacts
<1>5. /\ Leading \in 0 .. Arrived /\ \A j \in 1 .. Leading : WellFormed(sent[j])
      /\ \A k \in 0 .. Arrived : (\A j \in 1 .. k : WellFormed(sent[j])) => k <= Leading
  BY <1>1, <1>4, LeadingFacts
<1>6. h <= Leading
  <2>1. h \in 0 .. Arrived
    BY <1>1, <1>4
  <2>2. \A j \in 1 .. h : WellFormed(sent[j])
    BY DEF Followed
  <2>. QED  BY <1>5, <2>1, <2>2
<1>7. ASSUME h < Leading PROVE FALSE
  <2>. DEFINE m == sent[h + 1]
              t == AllBytes(After(h + 1))
  <2>1. /\ h < Len(sent) /\ h + 1 \in 0 .. Len(sent) /\ h + 1 \in 0 .. Arrived
        /\ h + 1 \in 1 .. Leading
    BY <1>1, <1>4, <1>5, <1>7
  <2>2. WellFormed(m) /\ m \in Message
    BY <1>5, <2>1, SentParts
  <2>3. Len(buffer) < Len(Bytes(m))
    BY <2>1, <2>2 DEF Followed
  <2>4. Len(AllBytes(After(Arrived))) <= Len(t)
    BY <1>4, <2>1, FewerMessages
  <2>5. /\ t \in Seq(Byte) /\ Bytes(m) \in Seq(Byte) /\ AllBytes(After(h)) = Bytes(m) \o t
        /\ AllBytes(After(Arrived)) \in Seq(Byte)
    BY <1>4, <2>1, <2>2, NextMessage, BytesFacts
  <2>. HIDE DEF m, t
  <2>6. /\ Len(Bytes(m) \o t) = Len(Bytes(m)) + Len(t)
        /\ Len(Bytes(m)) \in Nat /\ Len(t) \in Nat /\ Len(AllBytes(After(Arrived))) \in Nat
    BY <2>5, ConcatProperties, LenProperties
  <2>7. Len(buffer) + Len(wire) = Len(Bytes(m)) + Len(t)
    BY <1>2, <2>5, <2>6
  <2>8. Len(wire) <= Len(t)
    BY <1>2, <1>4, <2>4, <2>6
  <2>. QED  BY <1>2, <2>3, <2>6, <2>7, <2>8
<1>. QED  BY <1>1, <1>4, <1>5, <1>6, <1>7

\* A handler that threw has logged the texts of the messages before the one it
\* threw on, and that one has arrived.
LEMMA GivenUpBehind ==
  ASSUME TypeOK, NEW h \in 0 .. Len(sent), GivenUp(h)
  PROVE  Leading # Arrived /\ IsPrefix(Texts(FirstOf(Leading)), logged)
<1>1. /\ Len(sent) \in Nat /\ h < Len(sent) /\ ~WellFormed(sent[h + 1])
      /\ Len(wire) <= Len(AllBytes(After(h + 1))) /\ IsPrefix(Texts(FirstOf(h)), logged)
  BY SentParts DEF GivenUp
<1>2. h + 1 \in 0 .. Len(sent)
  BY <1>1
<1>3. Arrived \in 0 .. Len(sent) /\ h + 1 <= Arrived
  BY <1>1, <1>2, ArrivedFacts
<1>4. Leading \in 0 .. Arrived /\ \A j \in 1 .. Leading : WellFormed(sent[j])
  <2>1. Arrived \in Nat
    BY <1>1, <1>3
  <2>. QED  BY <2>1, LeadingFacts
<1>5. ~(h + 1 \in 1 .. Leading)
  BY <1>1, <1>4
<1>6. Leading \in 0 .. h /\ Leading # Arrived
  BY <1>1, <1>3, <1>4, <1>5
<1>7. IsPrefix(Texts(FirstOf(Leading)), logged)
  BY <1>1, <1>6, FewerMessages
<1>. QED  BY <1>6, <1>7

\* The invariant says what the handler has made of the messages received.
LEMMA FollowedIsParsed == IInv => ParsedAsSent
<1>. SUFFICES ASSUME IInv, pc = "idle"
              PROVE  IF Leading = Arrived
                       THEN /\ logged = Texts(FirstOf(Arrived)) /\ ~thrown
                            /\ ended <=> \E k \in 1 .. Arrived : sent[k].tag = <<Terminate>>
                       ELSE IsPrefix(Texts(FirstOf(Leading)), logged)
  BY DEF ParsedAsSent
<1>1. TypeOK /\ FollowInv
  BY DEF IInv
<1>2. PICK h \in 0 .. Len(sent) : Followed(h) \/ GivenUp(h)
  BY <1>1 DEF FollowInv
<1>3. CASE Followed(h)
  <2>1. Leading = h
    BY <1>1, <1>3, FollowedAll
  <2>2. /\ logged = Texts(FirstOf(h)) /\ ~thrown
        /\ ended <=> \E k \in 1 .. h : sent[k].tag = <<Terminate>>
    BY <1>3 DEF Followed
  <2>3. IsPrefix(logged, logged)
    <3>1. logged \in Seq(Seq(Byte)) /\ <<>> \in Seq(Byte)
      BY <1>1, EmptySeq DEF TypeOK
    <3>. QED  BY <3>1, PrefixFacts
  <2>. QED  BY <2>1, <2>2, <2>3
<1>4. CASE GivenUp(h)
  BY <1>1, <1>4, GivenUpBehind
<1>. QED  BY <1>2, <1>3, <1>4

\* In particular, between two calls the queries among any well-formed messages
\* received as a whole have been logged.
LEMMA ReceivedIsLogged ==
  ASSUME IInv, pc = "idle", NEW k \in 0 .. Len(sent),
         Len(wire) <= Len(AllBytes(After(k))), \A j \in 1 .. k : WellFormed(sent[j])
  PROVE  IsPrefix(Texts(FirstOf(k)), logged)
<1>1. TypeOK /\ ParsedAsSent
  BY FollowedIsParsed DEF IInv
<1>2. Arrived \in 0 .. Len(sent) /\ k <= Arrived /\ Len(sent) \in Nat
  BY <1>1, ArrivedFacts, SentParts
<1>3. Arrived \in Nat /\ k \in 0 .. Arrived
  BY <1>2
<1>4. Leading \in 0 .. Arrived /\ k <= Leading
  BY <1>3, LeadingFacts
<1>5. Leading \in 0 .. Len(sent) /\ k \in 0 .. Leading
  BY <1>2, <1>3, <1>4
<1>6. IsPrefix(Texts(FirstOf(Leading)), logged)
  <2>1. logged \in Seq(Seq(Byte)) /\ <<>> \in Seq(Byte)
    BY <1>1, EmptySeq DEF TypeOK
  <2>2. IsPrefix(logged, logged)
    BY <2>1, PrefixFacts
  <2>3. CASE Leading = Arrived
    <3>1. logged = Texts(FirstOf(Leading))
      BY <1>1, <2>3 DEF ParsedAsSent
    <3>. QED  BY <2>2, <3>1
  <2>4. CASE Leading # Arrived
    BY <1>1, <2>4 DEF ParsedAsSent
  <2>. QED  BY <2>3, <2>4
<1>. QED  BY <1>1, <1>5, <1>6, FewerMessages

\* For a client whose length fields can be trusted, of messages of any number
\* and size and however recv cuts them: between two calls of
\* handler::operator() exactly the queries received as a whole were logged,
\* each once and in order, Terminate ended the session, and what came before a
\* malformed message is logged in any case.
THEOREM ParsedAsSentHolds ==
  ASSUME PlainClient
  PROVE  Spec => []ParsedAsSent
BY FollowedIsParsed, ParserInductive, PTL

\* For the same clients: _buffer is what has been received after the last
\* message handled, so that handler::operator() neither skips a byte nor parses
\* one twice, whether it parses in place or in _buffer.
THEOREM RestKeptHolds ==
  ASSUME PlainClient
  PROVE  Spec => []RestKept
<1>1. IInv => RestKept
  <2>. SUFFICES ASSUME IInv, pc = "idle", ~thrown
                PROVE  AllBytes(FirstOf(Leading)) \o buffer \o wire = AllBytes(sent)
    BY DEF RestKept
  <2>1. TypeOK /\ FollowInv
    BY DEF IInv
  <2>2. PICK h \in 0 .. Len(sent) : Followed(h)
    BY <2>1 DEF FollowInv, GivenUp
  <2>3. Leading = h
    BY <2>1, <2>2, FollowedAll
  <2>4. AllBytes(After(h)) = buffer \o wire
    BY <2>2 DEF Followed, Input
  <2>5. sent = FirstOf(h) \o After(h) /\ FirstOf(h) \in Seq(Message) /\ After(h) \in Seq(Message)
    BY <2>1, SentParts
  <2>6. AllBytes(sent) = AllBytes(FirstOf(h)) \o AllBytes(After(h)) /\ AllBytes(FirstOf(h)) \in Seq(Byte)
    BY <2>5, InSequence
  <2>7. buffer \in Seq(Byte) /\ wire \in Seq(Byte)
    BY <2>1 DEF TypeOK
  <2>. QED  BY <2>3, <2>4, <2>6, <2>7, ByteAssociative, SMTT(30)
<1>. QED  BY <1>1, ParserInductive, PTL

-----------------------------------------------------------------------------
\* The reference definitions of Settings, by counting: where the k-th zero byte
\* is, and how many there are.

\* One byte more holds one zero more, or none.
LEMMA ZerosStep ==
  ASSUME NEW b, NEW p \in Nat
  PROVE  /\ ZerosIn(b, p) \in Nat /\ ZerosIn(b, 0) = 0
         /\ ZerosIn(b, p + 1) = IF b[p + 1] = 0 THEN ZerosIn(b, p) + 1 ELSE ZerosIn(b, p)
<1>. DEFINE Z(n) == {q \in 1 .. n : b[q] = 0}
<1>1. IsFiniteSet(Z(p))
  <2>1. IsFiniteSet(1 .. p)
    BY FS_Interval
  <2>. QED  BY <2>1, FS_Subset
<1>2. Z(0) = {}
  OBVIOUS
<1>3. p + 1 \notin Z(p) /\ Z(p + 1) = IF b[p + 1] = 0 THEN Z(p) \cup {p + 1} ELSE Z(p)
  <2>1. 1 .. p + 1 = (1 .. p) \cup {p + 1} /\ p + 1 \notin 1 .. p
    OBVIOUS
  <2>. QED  BY <2>1
<1>4. /\ ZerosIn(b, p) = Cardinality(Z(p)) /\ ZerosIn(b, 0) = Cardinality(Z(0))
      /\ ZerosIn(b, p + 1) = Cardinality(Z(p + 1))
  BY DEF ZerosIn
<1>. HIDE DEF Z
<1>5. Cardinality(Z(p)) \in Nat
  BY <1>1, FS_CardinalityType
<1>6. Cardinality(Z(p) \cup {p + 1}) = Cardinality(Z(p)) + 1
  BY <1>1, <1>3, FS_AddElement
<1>. QED  BY <1>2, <1>3, <1>4, <1>5, <1>6, FS_EmptySet

\* More bytes hold no fewer zeros.
LEMMA ZerosGrow ==
  ASSUME NEW b, NEW p \in Nat, NEW q \in Nat, p <= q
  PROVE  ZerosIn(b, p) <= ZerosIn(b, q)
<1>. DEFINE Z(n) == {k \in 1 .. n : b[k] = 0}
<1>1. IsFiniteSet(Z(q))
  <2>1. IsFiniteSet(1 .. q)
    BY FS_Interval
  <2>. QED  BY <2>1, FS_Subset
<1>2. Z(p) \in SUBSET Z(q)
  OBVIOUS
<1>3. ZerosIn(b, p) = Cardinality(Z(p)) /\ ZerosIn(b, q) = Cardinality(Z(q))
  BY DEF ZerosIn
<1>. HIDE DEF Z
<1>. QED  BY <1>1, <1>2, <1>3, FS_Subset

\* p is 0 or the place of a zero.
Mark(b, p) == p = 0 \/ b[p] = 0

\* The zeros before it tell a zero from the others.
LEMMA MarkBefore ==
  ASSUME NEW b, NEW p \in Nat, NEW q \in Nat, p < q, Mark(b, q)
  PROVE  ZerosIn(b, p) < ZerosIn(b, q)
<1>. DEFINE r == q - 1
<1>1. r \in Nat /\ p <= r /\ q = r + 1 /\ b[r + 1] = 0
  BY DEF Mark
<1>. HIDE DEF r
<1>2. ZerosIn(b, q) = ZerosIn(b, r) + 1 /\ ZerosIn(b, r) \in Nat /\ ZerosIn(b, p) \in Nat
  BY <1>1, ZerosStep
<1>3. ZerosIn(b, p) <= ZerosIn(b, r)
  BY <1>1, ZerosGrow
<1>. DEFINE x == ZerosIn(b, p)
            y == ZerosIn(b, r)
<1>4. ZerosIn(b, q) = y + 1 /\ y \in Nat /\ x \in Nat /\ x <= y
  BY <1>2, <1>3
<1>. HIDE DEF x, y
<1>5. x < y + 1
  BY <1>4
<1>. QED  BY <1>4, <1>5 DEF x

\* ZeroAt finds it.
LEMMA ZeroFound ==
  ASSUME NEW b, NEW p \in 0 .. Len(b), Len(b) \in Nat, Mark(b, p)
  PROVE  ZeroAt(b, ZerosIn(b, p)) = p
<1>. DEFINE k == ZerosIn(b, p)
            P(q) == (q = 0 \/ b[q] = 0) /\ ZerosIn(b, q) = k
            z == CHOOSE q \in 0 .. Len(b) : P(q)
<1>1. P(p)
  BY DEF Mark
<1>2. z \in 0 .. Len(b) /\ P(z)
  BY <1>1, Zenon
<1>3. ZeroAt(b, k) = z
  BY DEF ZeroAt
<1>4. z \in Nat /\ p \in Nat /\ Mark(b, z) /\ ZerosIn(b, z) = k
  BY <1>2 DEF Mark
<1>. HIDE DEF z
<1>5. ZerosIn(b, z) \in Nat /\ k \in Nat
  BY <1>4, ZerosStep
<1>6. ~ (z < p) /\ ~ (p < z)
  <2>1. ASSUME z < p PROVE FALSE
    <3>1. ZerosIn(b, z) < k
      BY <1>4, <2>1, MarkBefore
    <3>. QED  BY <1>4, <1>5, <3>1
  <2>2. ASSUME p < z PROVE FALSE
    <3>1. k < ZerosIn(b, z)
      BY <1>4, <2>2, MarkBefore
    <3>. QED  BY <1>4, <1>5, <3>1
  <2>. QED  BY <2>1, <2>2
<1>7. z = p
  BY <1>4, <1>6
<1>. QED  BY <1>3, <1>7

\* Among the first n bytes there is a place for each number of zeros up to
\* that in them.
LEMMA ZeroThere ==
  ASSUME NEW b, NEW n \in Nat, NEW k \in 0 .. ZerosIn(b, n)
  PROVE  \E p \in 0 .. n : Mark(b, p) /\ ZerosIn(b, p) = k
<1>. DEFINE G(m) == \A j \in 0 .. ZerosIn(b, m) : \E p \in 0 .. m : Mark(b, p) /\ ZerosIn(b, p) = j
            T == {m \in Nat : G(m)}
<1>1. 0 \in T
  <2>1. ZerosIn(b, 0) = 0 /\ Mark(b, 0) /\ 0 \in 0 .. 0
    BY ZerosStep DEF Mark
  <2>. QED  BY <2>1
<1>2. ASSUME NEW m \in T PROVE m + 1 \in T
  <2>1. m \in Nat /\ G(m)
    OBVIOUS
  <2>2. ASSUME NEW j \in 0 .. ZerosIn(b, m + 1)
        PROVE  \E p \in 0 .. m + 1 : Mark(b, p) /\ ZerosIn(b, p) = j
    <3>1. /\ ZerosIn(b, m) \in Nat
          /\ ZerosIn(b, m + 1) = IF b[m + 1] = 0 THEN ZerosIn(b, m) + 1 ELSE ZerosIn(b, m)
      BY <2>1, ZerosStep
    <3>2. CASE j \in 0 .. ZerosIn(b, m)
      <4>1. PICK p \in 0 .. m : Mark(b, p) /\ ZerosIn(b, p) = j
        BY <2>1, <3>2
      <4>2. p \in 0 .. m + 1
        BY <2>1
      <4>. QED  BY <4>1, <4>2
    <3>3. CASE j \notin 0 .. ZerosIn(b, m)
      <4>. DEFINE c == ZerosIn(b, m)
                  d == ZerosIn(b, m + 1)
      <4>1. c \in Nat /\ d = (IF b[m + 1] = 0 THEN c + 1 ELSE c) /\ j \in 0 .. d /\ j \notin 0 .. c
        BY <3>1, <3>3
      <4>. HIDE DEF c, d
      <4>2. b[m + 1] = 0 /\ d = j
        BY <4>1
      <4>3. m + 1 \in 0 .. m + 1 /\ Mark(b, m + 1)
        BY <2>1, <4>2 DEF Mark
      <4>. QED  BY <4>2, <4>3 DEF d
    <3>. QED  BY <3>2, <3>3
  <2>. QED  BY <2>1, <2>2
<1>. HIDE DEF T
<1>3. T = Nat
  BY <1>1, <1>2, SetInduction DEF T
<1>4. G(n)
  BY <1>3 DEF T
<1>. QED  BY <1>4

-----------------------------------------------------------------------------
\* The loop over parameters (Parameters): what it holds after each byte, and
\* that it makes exactly the settings that the strings of the bytes pair up to.

\* What the loop over parameters holds before the first byte, and g after each
\* of the first n.
Start == [text |-> <<>>, name |-> <<>>, made |-> <<>>]
Loops(g, b, n) == g = [i \in 0 .. n |-> IF i = 0 THEN Start ELSE AfterByte(g[i - 1], b[i])]

\* Such a g exists.
LEMMA LoopExists ==
  ASSUME NEW b, NEW n \in Nat PROVE \E g : Loops(g, b, n)
<1>. DEFINE T == {m \in Nat : \E g : Loops(g, b, m)}
<1>1. 0 \in T
  <2>. DEFINE g == [i \in 0 .. 0 |-> Start]
  <2>1. \A i \in 0 .. 0 : Start = IF i = 0 THEN Start ELSE AfterByte(g[i - 1], b[i])
    OBVIOUS
  <2>2. g = [i \in 0 .. 0 |-> IF i = 0 THEN Start ELSE AfterByte(g[i - 1], b[i])]
    BY <2>1, Zenon
  <2>. HIDE DEF g
  <2>. QED  BY <2>2 DEF Loops
<1>2. ASSUME NEW m \in T PROVE m + 1 \in T
  <2>0. m \in Nat /\ \E g : Loops(g, b, m)
    OBVIOUS
  <2>1. PICK g : Loops(g, b, m)
    BY <2>0
  <2>. DEFINE e(i) == IF i = 0 THEN Start ELSE AfterByte(g[i - 1], b[i])
              h == [i \in 0 .. m + 1 |-> e(i)]
  <2>. HIDE DEF T
  <2>2. ASSUME NEW i \in 0 .. m PROVE g[i] = h[i]
    <3>1. g[i] = e(i)
      BY <2>1 DEF Loops
    <3>2. i \in 0 .. m + 1
      BY <2>0
    <3>. QED  BY <3>1, <3>2
  <2>3. ASSUME NEW i \in 0 .. m + 1 PROVE e(i) = IF i = 0 THEN Start ELSE AfterByte(h[i - 1], b[i])
    <3>1. i # 0 => i - 1 \in 0 .. m
      BY <2>0
    <3>. HIDE DEF h
    <3>. QED  BY <2>2, <3>1
  <2>4. h = [i \in 0 .. m + 1 |-> IF i = 0 THEN Start ELSE AfterByte(h[i - 1], b[i])]
    BY <2>3, Zenon
  <2>. HIDE DEF h
  <2>5. m + 1 \in Nat
    BY <2>0
  <2>. QED  BY <2>4, <2>5 DEF Loops, T
<1>. HIDE DEF T
<1>3. T = Nat
  BY <1>1, <1>2, SetInduction DEF T
<1>. QED  BY <1>3 DEF T

\* Parameters is what it has made in the end.
LEMMA ParametersIs ==
  ASSUME NEW b, Len(b) \in Nat
  PROVE  \E g : Loops(g, b, Len(b)) /\ Parameters(b) = g[Len(b)].made
<1>. DEFINE f == CHOOSE g : g = [i \in 0 .. Len(b) |-> IF i = 0 THEN Start ELSE AfterByte(g[i - 1], b[i])]
<1>1. \E g : g = [i \in 0 .. Len(b) |-> IF i = 0 THEN Start ELSE AfterByte(g[i - 1], b[i])]
  BY LoopExists DEF Loops
<1>2. f = [i \in 0 .. Len(b) |-> IF i = 0 THEN Start ELSE AfterByte(f[i - 1], b[i])]
  BY <1>1, Zenon
<1>3. Parameters(b) = f[Len(b)].made
  BY DEF Parameters, Start
<1>. QED  BY <1>2, <1>3 DEF Loops

\* The first m settings, and what the loop holds after n bytes with c zeros.
Pairs(b, m)     == [k \in 1 .. m |-> <<StringAt(b, 2 * k - 1), StringAt(b, 2 * k)>>]
Strung(b, n, c) == [text |-> SubSeq(b, ZeroAt(b, c) + 1, n),
                    name |-> IF c % 2 = 1 THEN <<StringAt(b, c)>> ELSE <<>>,
                    made |-> Pairs(b, c \div 2)]

\* One setting more.
LEMMA PairAdded ==
  ASSUME NEW b, NEW m \in Nat
  PROVE  /\ Len(Pairs(b, m)) = m
         /\ Pairs(b, m + 1) = Append(Pairs(b, m), <<StringAt(b, 2 * m + 1), StringAt(b, 2 * m + 2)>>)
<1>. DEFINE e(k) == <<StringAt(b, 2 * k - 1), StringAt(b, 2 * k)>>
            S == {e(k) : k \in Nat}
            s == Pairs(b, m)
            t == Pairs(b, m + 1)
            x == e(m + 1)
<1>1. /\ \A k \in 1 .. m : e(k) \in S
      /\ \A k \in 1 .. m + 1 : e(k) \in S
      /\ x \in S
  <2>1. /\ \A k \in 1 .. m : k \in Nat
        /\ \A k \in 1 .. m + 1 : k \in Nat
        /\ m + 1 \in Nat
    OBVIOUS
  <2>2. \A k \in Nat : e(k) \in S
    OBVIOUS
  <2>. HIDE DEF S, e
  <2>. QED  BY <2>1, <2>2
<1>. HIDE DEF S
<1>2. s \in [1 .. m -> S] /\ t \in [1 .. m + 1 -> S] /\ x \in S
  BY <1>1 DEF Pairs
<1>3. /\ \A k \in 1 .. m : s[k] = e(k)
      /\ \A k \in 1 .. m + 1 : t[k] = e(k)
  BY DEF Pairs
<1>4. x = <<StringAt(b, 2 * m + 1), StringAt(b, 2 * m + 2)>>
  <2>1. 2 * (m + 1) - 1 = 2 * m + 1 /\ 2 * (m + 1) = 2 * m + 2
    OBVIOUS
  <2>. QED  BY <2>1
<1>. HIDE DEF S, s, t, e, x
<1>5. s \in Seq(S) /\ Len(s) = m /\ t \in Seq(S) /\ Len(t) = m + 1
  BY <1>2
<1>6. /\ Append(s, x) \in Seq(S) /\ Len(Append(s, x)) = m + 1
      /\ \A k \in 1 .. m + 1 : Append(s, x)[k] = IF k <= m THEN s[k] ELSE x
  <2>1. /\ Append(s, x) \in Seq(S) /\ Len(Append(s, x)) = Len(s) + 1
        /\ \A i \in 1 .. Len(s) : Append(s, x)[i] = s[i]
        /\ Append(s, x)[Len(s) + 1] = x
    BY <1>2, <1>5, AppendProperties
  <2>. QED  BY <1>5, <2>1
<1>7. \A k \in 1 .. m + 1 : t[k] = Append(s, x)[k]
  BY <1>3, <1>6 DEF x
<1>8. t = Append(s, x)
  BY <1>5, <1>6, <1>7, SeqEqual
<1>. QED  BY <1>4, <1>5, <1>8 DEF s, t

\* One byte more of a string.
LEMMA ByteAdded ==
  ASSUME NEW S, NEW b \in Seq(S), NEW n \in Nat, n < Len(b), NEW z \in 0 .. n
  PROVE  SubSeq(b, z + 1, n + 1) = Append(SubSeq(b, z + 1, n), b[n + 1])
<1>. DEFINE s == SubSeq(b, z + 1, n)
            t == SubSeq(b, z + 1, n + 1)
            x == b[n + 1]
            d == n - z
<1>1. /\ s \in Seq(S) /\ Len(s) = d /\ \A k \in 1 .. d : s[k] = b[z + k]
  OBVIOUS
<1>2. /\ t \in Seq(S) /\ Len(t) = d + 1 /\ \A k \in 1 .. d + 1 : t[k] = b[z + k]
  OBVIOUS
<1>3. d \in Nat /\ z + (d + 1) = n + 1 /\ x \in S
  OBVIOUS
<1>. HIDE DEF s, t, x, d
<1>4. /\ Append(s, x) \in Seq(S) /\ Len(Append(s, x)) = d + 1
      /\ \A k \in 1 .. d : Append(s, x)[k] = s[k]
      /\ Append(s, x)[d + 1] = x
  <2>1. /\ Append(s, x) \in Seq(S) /\ Len(Append(s, x)) = Len(s) + 1
        /\ \A i \in 1 .. Len(s) : Append(s, x)[i] = s[i]
        /\ Append(s, x)[Len(s) + 1] = x
    BY <1>1, <1>3, AppendProperties
  <2>. QED  BY <1>1, <2>1
<1>5. ASSUME NEW k \in 1 .. d + 1 PROVE t[k] = Append(s, x)[k]
  <2>1. CASE k \in 1 .. d
    BY <1>1, <1>2, <1>4, <2>1
  <2>2. CASE k = d + 1
    BY <1>2, <1>3, <1>4, <2>2 DEF x
  <2>3. k \in 1 .. d \/ k = d + 1
    BY <1>3
  <2>. QED  BY <2>1, <2>2, <2>3
<1>6. t = Append(s, x)
  BY <1>2, <1>4, <1>5, SeqEqual
<1>. QED  BY <1>6 DEF s, t, x

\* A zero ends a string.
LEMMA StringEnds ==
  ASSUME NEW b, NEW n \in Nat, NEW c \in Nat, ZeroAt(b, c + 1) = n + 1
  PROVE  StringAt(b, c + 1) = SubSeq(b, ZeroAt(b, c) + 1, n)
<1>. DEFINE k == c + 1
<1>1. k - 1 = c /\ ZeroAt(b, k) - 1 = n
  OBVIOUS
<1>. HIDE DEF k
<1>2. StringAt(b, k) = SubSeq(b, ZeroAt(b, k - 1) + 1, ZeroAt(b, k) - 1)
  BY DEF StringAt
<1>3. StringAt(b, k) = SubSeq(b, ZeroAt(b, c) + 1, n)
  BY <1>1, <1>2
<1>. QED  BY <1>3 DEF k

\* The loop reads one byte.
LEMMA ByteRead ==
  ASSUME NEW S, NEW b \in Seq(S), NEW n \in Nat, n < Len(b)
  PROVE  AfterByte(Strung(b, n, ZerosIn(b, n)), b[n + 1]) = Strung(b, n + 1, ZerosIn(b, n + 1))
<1>. DEFINE c == ZerosIn(b, n)
            z == ZeroAt(b, c)
            x == SubSeq(b, z + 1, n)
            a == Strung(b, n, c)
<1>1. /\ c \in Nat
      /\ ZerosIn(b, n + 1) = IF b[n + 1] = 0 THEN c + 1 ELSE c
  BY ZerosStep
<1>2. z \in 0 .. n
  <2>1. c \in 0 .. ZerosIn(b, n)
    BY <1>1
  <2>2. PICK p \in 0 .. n : Mark(b, p) /\ ZerosIn(b, p) = c
    BY <2>1, ZeroThere
  <2>3. p \in 0 .. Len(b) /\ Len(b) \in Nat
    OBVIOUS
  <2>4. z = p
    BY <2>2, <2>3, ZeroFound
  <2>. QED  BY <2>4
<1>3. /\ a = [text |-> x, name |-> IF c % 2 = 1 THEN <<StringAt(b, c)>> ELSE <<>>,
              made |-> Pairs(b, c \div 2)]
  BY DEF Strung
<1>4. CASE b[n + 1] # 0
  <2>1. SubSeq(b, z + 1, n + 1) = Append(x, b[n + 1])
    BY <1>2, ByteAdded
  <2>2. Strung(b, n + 1, c) = [text |-> Append(x, b[n + 1]), name |-> a.name, made |-> a.made]
    BY <1>3, <2>1 DEF Strung
  <2>3. AfterByte(a, b[n + 1]) = [a EXCEPT !.text = Append(a.text, b[n + 1])]
    BY <1>4 DEF AfterByte
  <2>4. [a EXCEPT !.text = Append(a.text, b[n + 1])]
          = [text |-> Append(x, b[n + 1]), name |-> a.name, made |-> a.made]
    <3>. DEFINE y == Append(x, b[n + 1])
                u == IF c % 2 = 1 THEN <<StringAt(b, c)>> ELSE <<>>
                v == Pairs(b, c \div 2)
    <3>1. a = [text |-> x, name |-> u, made |-> v]
      BY <1>3
    <3>. HIDE DEF a, c, x, u, v
    <3>2. Append(a.text, b[n + 1]) = y /\ a.name = u /\ a.made = v
      BY <3>1
    <3>. HIDE DEF y
    <3>3. [a EXCEPT !.text = y] = [text |-> y, name |-> u, made |-> v]
      BY <3>1
    <3>. QED  BY <3>2, <3>3 DEF y
  <2>. QED  BY <1>1, <1>4, <2>2, <2>3, <2>4
<1>5. CASE b[n + 1] = 0
  <2>1. ZeroAt(b, c + 1) = n + 1
    <3>1. n + 1 \in 0 .. Len(b) /\ Len(b) \in Nat /\ Mark(b, n + 1) /\ ZerosIn(b, n + 1) = c + 1
      BY <1>1, <1>5 DEF Mark
    <3>. QED  BY <3>1, ZeroFound
  <2>2. StringAt(b, c + 1) = x
    BY <1>1, <2>1, StringEnds
  <2>3. SubSeq(b, (n + 1) + 1, n + 1) = <<>>
    OBVIOUS
  <2>4. Strung(b, n + 1, c + 1)
          = [text |-> <<>>, name |-> IF (c + 1) % 2 = 1 THEN <<x>> ELSE <<>>,
             made |-> Pairs(b, (c + 1) \div 2)]
    BY <2>1, <2>2, <2>3 DEF Strung
  <2>. HIDE DEF c, z, x, a
  <2>5. CASE c % 2 = 0
    <3>1. (c + 1) % 2 = 1 /\ (c + 1) \div 2 = c \div 2
      BY <1>1, <2>5
    <3>2. a = [text |-> x, name |-> <<>>, made |-> Pairs(b, c \div 2)]
      BY <1>3, <2>5
    <3>3. AfterByte(a, b[n + 1]) = [text |-> <<>>, name |-> <<x>>, made |-> Pairs(b, c \div 2)]
      BY <1>5, <3>2 DEF AfterByte
    <3>. QED  BY <1>1, <1>5, <2>4, <3>1, <3>3 DEF a, c
  <2>6. CASE c % 2 = 1
    <3>. DEFINE m == c \div 2
                y == StringAt(b, c)
    <3>1. (c + 1) % 2 = 0 /\ (c + 1) \div 2 = m + 1 /\ m \in Nat /\ c = 2 * m + 1 /\ c + 1 = 2 * m + 2
      BY <1>1, <2>6
    <3>2. a = [text |-> x, name |-> <<y>>, made |-> Pairs(b, m)]
      BY <1>3, <2>6
    <3>3. Pairs(b, m + 1) = Append(Pairs(b, m), <<y, x>>)
      BY <2>2, <3>1, PairAdded
    <3>. HIDE DEF m, y
    <3>4. <<y>> # <<>> /\ <<y>>[1] = y
      OBVIOUS
    <3>5. AfterByte(a, b[n + 1])
            = [text |-> <<>>, name |-> <<>>, made |-> Append(Pairs(b, m), <<y, x>>)]
      BY <1>5, <3>2, <3>4 DEF AfterByte
    <3>6. Strung(b, n + 1, c + 1)
            = [text |-> <<>>, name |-> <<>>, made |-> Append(Pairs(b, m), <<y, x>>)]
      <4>1. (IF (c + 1) % 2 = 1 THEN <<x>> ELSE <<>>) = <<>>
        BY <3>1
      <4>. QED  BY <2>4, <3>1, <3>3, <4>1, Zenon
    <3>7. ZerosIn(b, n + 1) = c + 1
      BY <1>1, <1>5
    <3>. QED  BY <3>5, <3>6, <3>7, Zenon DEF a, c
  <2>7. c % 2 = 0 \/ c % 2 = 1
    BY <1>1
  <2>. QED  BY <2>5, <2>6, <2>7
<1>. QED  BY <1>4, <1>5

\* For every sequence of bytes, the loop over parameters of make_startup_msg and
\* make_param_status_msg, which takes one byte at a time, makes the settings
\* that the strings in it stand for, a name and a value in turn.
THEOREM ParametersAre ==
  ASSUME NEW S, NEW b \in Seq(S)
  PROVE  Parameters(b) = Settings(b)
<1>0. Len(b) \in Nat
  OBVIOUS
<1>1. PICK g : Loops(g, b, Len(b)) /\ Parameters(b) = g[Len(b)].made
  BY <1>0, ParametersIs
<1>2. /\ g[0] = Start
      /\ \A i \in 1 .. Len(b) : g[i] = AfterByte(g[i - 1], b[i])
  <2>1. \A i \in 0 .. Len(b) : g[i] = IF i = 0 THEN Start ELSE AfterByte(g[i - 1], b[i])
    BY <1>1, Zenon DEF Loops
  <2>2. 0 \in 0 .. Len(b) /\ \A i \in 1 .. Len(b) : i \in 0 .. Len(b) /\ i # 0
    BY <1>0
  <2>. QED  BY <2>1, <2>2
<1>. DEFINE T == {n \in Nat : n <= Len(b) => g[n] = Strung(b, n, ZerosIn(b, n))}
<1>3. 0 \in T
  <2>1. ZerosIn(b, 0) = 0 /\ ZeroAt(b, 0) = 0
    <3>1. ZerosIn(b, 0) = 0 /\ Mark(b, 0) /\ 0 \in 0 .. Len(b)
      BY <1>0, ZerosStep DEF Mark
    <3>2. ZeroAt(b, ZerosIn(b, 0)) = 0
      BY <1>0, <3>1, ZeroFound
    <3>. QED  BY <3>1, <3>2
  <2>2. SubSeq(b, 0 + 1, 0) = <<>> /\ 0 % 2 = 0 /\ 0 \div 2 = 0
    OBVIOUS
  <2>3. Pairs(b, 0) = <<>>
    BY DEF Pairs
  <2>4. Strung(b, 0, 0) = Start
    BY <2>1, <2>2, <2>3 DEF Strung, Start
  <2>. QED  BY <1>2, <2>1, <2>4
<1>4. ASSUME NEW n \in T PROVE n + 1 \in T
  <2>1. n \in Nat /\ n + 1 \in Nat /\ (n <= Len(b) => g[n] = Strung(b, n, ZerosIn(b, n)))
    OBVIOUS
  <2>2. ASSUME n + 1 <= Len(b) PROVE g[n + 1] = Strung(b, n + 1, ZerosIn(b, n + 1))
    <3>1. n + 1 \in 1 .. Len(b) /\ (n + 1) - 1 = n /\ n < Len(b) /\ n <= Len(b)
      BY <1>0, <2>1, <2>2
    <3>2. g[n + 1] = AfterByte(g[n], b[n + 1])
      BY <1>2, <3>1
    <3>3. AfterByte(Strung(b, n, ZerosIn(b, n)), b[n + 1]) = Strung(b, n + 1, ZerosIn(b, n + 1))
      BY <2>1, <3>1, ByteRead
    <3>. QED  BY <2>1, <3>1, <3>2, <3>3
  <2>. QED  BY <2>1, <2>2
<1>. HIDE DEF T
<1>5. T = Nat
  BY <1>3, <1>4, SetInduction DEF T
<1>6. g[Len(b)] = Strung(b, Len(b), ZerosIn(b, Len(b)))
  BY <1>0, <1>5 DEF T
<1>7. g[Len(b)].made = Pairs(b, ZerosIn(b, Len(b)) \div 2)
  BY <1>6 DEF Strung
<1>. QED  BY <1>1, <1>7 DEF Settings, Pairs

-----------------------------------------------------------------------------
\* Bytes behind a message never change the settings the message holds: they can
\* only add pairs after them.

\* n bytes more hold at most n zeros more.
LEMMA ZerosMore ==
  ASSUME NEW b, NEW m \in Nat, NEW n \in Nat
  PROVE  ZerosIn(b, m + n) <= ZerosIn(b, m) + n
<1>. DEFINE T == {j \in Nat : ZerosIn(b, m + j) <= ZerosIn(b, m) + j}
<1>0. ZerosIn(b, m) \in Nat
  BY ZerosStep
<1>1. 0 \in T
  BY <1>0
<1>2. ASSUME NEW j \in T PROVE j + 1 \in T
  <2>. DEFINE x == ZerosIn(b, m)
              y == ZerosIn(b, m + j)
              z == ZerosIn(b, m + (j + 1))
  <2>1. j \in Nat /\ m + j \in Nat /\ m + (j + 1) = (m + j) + 1 /\ y <= x + j
    OBVIOUS
  <2>2. y \in Nat /\ z \in {y, y + 1}
    BY <2>1, ZerosStep
  <2>. HIDE DEF x, y, z
  <2>3. z <= x + (j + 1)
    BY <1>0, <2>1, <2>2 DEF x
  <2>. QED  BY <2>1, <2>3 DEF x, z
<1>. HIDE DEF T
<1>3. T = Nat
  BY <1>1, <1>2, SetInduction DEF T
<1>. QED  BY <1>3 DEF T

\* Settings as elements.
LEMMA PairsFacts ==
  ASSUME NEW b, NEW m \in Nat
  PROVE  LET e(k) == <<StringAt(b, 2 * k - 1), StringAt(b, 2 * k)>>
         IN  \A S : (\A k \in 1 .. m : e(k) \in S) =>
               Pairs(b, m) \in Seq(S) /\ Len(Pairs(b, m)) = m /\ \A k \in 1 .. m : Pairs(b, m)[k] = e(k)
<1>. DEFINE e(k) == <<StringAt(b, 2 * k - 1), StringAt(b, 2 * k)>>
<1>. SUFFICES ASSUME NEW S, \A k \in 1 .. m : e(k) \in S
              PROVE  Pairs(b, m) \in Seq(S) /\ Len(Pairs(b, m)) = m /\ \A k \in 1 .. m : Pairs(b, m)[k] = e(k)
  OBVIOUS
<1>1. Pairs(b, m) = [k \in 1 .. m |-> e(k)]
  BY DEF Pairs
<1>. HIDE DEF e
<1>2. Pairs(b, m) \in [1 .. m -> S] /\ \A k \in 1 .. m : Pairs(b, m)[k] = e(k)
  BY <1>1
<1>. QED  BY <1>2

\* The zeros of a beginning are those of the whole.
LEMMA SameZeros ==
  ASSUME NEW a \in Seq(Byte), NEW d \in Seq(Byte), NEW p \in 0 .. Len(a)
  PROVE  /\ ZerosIn(a \o d, p) = ZerosIn(a, p) /\ (Mark(a \o d, p) <=> Mark(a, p))
         /\ p \in 0 .. Len(a \o d)
<1>. DEFINE b == a \o d
<1>1. InARow(b, a, d) /\ Len(a) \in Nat /\ Len(d) \in Nat
  BY ConcatParts, LenProperties
<1>. HIDE DEF b
<1>2. \A k \in 1 .. Len(a) : b[k] = a[k]
  BY <1>1 DEF InARow
<1>3. \A q \in 1 .. p : b[q] = a[q]
  BY <1>1, <1>2
<1>4. {q \in 1 .. p : b[q] = 0} = {q \in 1 .. p : a[q] = 0}
  BY <1>3
<1>5. Mark(b, p) <=> Mark(a, p)
  BY <1>1, <1>2 DEF Mark
<1>6. p \in 0 .. Len(b)
  BY <1>1 DEF InARow
<1>. QED  BY <1>4, <1>5, <1>6 DEF ZerosIn, b

\* And so are its strings.
LEMMA SameStrings ==
  ASSUME NEW a \in Seq(Byte), NEW d \in Seq(Byte), NEW j \in 1 .. ZerosIn(a, Len(a))
  PROVE  StringAt(a \o d, j) = StringAt(a, j)
<1>. DEFINE b == a \o d
            c == ZerosIn(a, Len(a))
<1>0. Len(a) \in Nat /\ Len(b) \in Nat /\ c \in Nat
  BY ZerosStep, LenProperties, ConcatProperties
<1>1. ASSUME NEW i \in 0 .. c PROVE ZeroAt(b, i) = ZeroAt(a, i) /\ ZeroAt(a, i) \in 0 .. Len(a)
  <2>1. PICK p \in 0 .. Len(a) : Mark(a, p) /\ ZerosIn(a, p) = i
    BY <1>0, ZeroThere
  <2>2. ZerosIn(b, p) = i /\ Mark(b, p) /\ p \in 0 .. Len(b)
    BY <2>1, SameZeros
  <2>. HIDE DEF b
  <2>3. ZeroAt(a, i) = p /\ ZeroAt(b, i) = p
    BY <1>0, <2>1, <2>2, ZeroFound
  <2>. QED  BY <2>3
<1>. DEFINE x == ZeroAt(a, j - 1)
            y == ZeroAt(a, j) - 1
<1>2. /\ ZeroAt(b, j - 1) = x /\ x \in 0 .. Len(a)
      /\ ZeroAt(b, j) = ZeroAt(a, j) /\ ZeroAt(a, j) \in 0 .. Len(a)
  <2>1. j - 1 \in 0 .. c /\ j \in 0 .. c
    BY <1>0
  <2>. QED  BY <1>1, <2>1
<1>3. StringAt(b, j) = SubSeq(b, x + 1, y) /\ StringAt(a, j) = SubSeq(a, x + 1, y)
  BY <1>2 DEF StringAt
<1>4. x + 1 \in Nat \ {0} /\ y <= Len(a) /\ y \in Int
  BY <1>0, <1>2
<1>. HIDE DEF x, y
<1>5. SubSeq(b, x + 1, y) = SubSeq(a, x + 1, y)
  <2>1. \A k \in 1 .. Len(a) : b[k] = a[k]
    BY ConcatParts DEF InARow
  <2>2. \A k \in x + 1 .. y : b[k] = a[k]
    BY <1>0, <1>4, <2>1
  <2>. HIDE DEF b
  <2>3. \A k \in 1 .. (y - (x + 1)) + 1 : (x + 1) + k - 1 \in x + 1 .. y
    BY <1>4
  <2>. QED  BY <1>4, <2>2, <2>3, SMTT(30)
<1>. QED  BY <1>3, <1>5 DEF b

\* The settings of a beginning come first, and each byte behind it adds at most
\* one string.
LEMMA SettingsFirst ==
  ASSUME NEW a \in Seq(Byte), NEW d \in Seq(Byte)
  PROVE  /\ IsPrefix(Settings(a), Settings(a \o d))
         /\ Len(Settings(a \o d)) <= (ZerosIn(a, Len(a)) + Len(d)) \div 2
<1>. DEFINE b == a \o d
            m == Len(a)
            l == Len(d)
            u == ZerosIn(a, m)
            v == ZerosIn(b, m + l)
            e(k) == <<StringAt(a, 2 * k - 1), StringAt(a, 2 * k)>>
            f(k) == <<StringAt(b, 2 * k - 1), StringAt(b, 2 * k)>>
            S == {e(k) : k \in 1 .. u \div 2} \cup {f(k) : k \in 1 .. v \div 2}
<1>1. m \in Nat /\ l \in Nat /\ Len(b) = m + l
  BY LenProperties, ConcatProperties
<1>2. u \in Nat /\ v \in Nat /\ u <= v /\ v <= u + l
  <2>1. m \in 0 .. Len(a)
    BY <1>1
  <2>2. ZerosIn(b, m) = u
    BY <2>1, SameZeros
  <2>. HIDE DEF b, m, l
  <2>3. /\ ZerosIn(b, m) \in Nat /\ v \in Nat /\ ZerosIn(b, m) <= v
        /\ v <= ZerosIn(b, m) + l
    <3>1. m + l \in Nat /\ m <= m + l
      BY <1>1
    <3>. QED  BY <1>1, <3>1, ZerosStep, ZerosGrow, ZerosMore
  <2>. HIDE DEF u, v
  <2>. QED  BY <2>2, <2>3
<1>3. Settings(a) = Pairs(a, u \div 2) /\ Settings(b) = Pairs(b, v \div 2)
  BY <1>1 DEF Settings, Pairs
<1>4. ASSUME NEW k \in 1 .. u \div 2 PROVE e(k) = f(k)
  <2>1. 2 * k - 1 \in 1 .. u /\ 2 * k \in 1 .. u
    <3>. HIDE DEF u
    <3>1. u \div 2 \in Nat /\ 2 * (u \div 2) <= u
      BY <1>2
    <3>. QED  BY <1>2, <3>1
  <2>. QED  BY <2>1, SameStrings
<1>. HIDE DEF b, m, l, u, v
<1>5. u \div 2 \in Nat /\ v \div 2 \in Nat /\ u \div 2 <= v \div 2 /\ v \div 2 <= (u + l) \div 2
  BY <1>1, <1>2
<1>6. /\ \A k \in 1 .. u \div 2 : e(k) \in S
      /\ \A k \in 1 .. v \div 2 : f(k) \in S
  OBVIOUS
<1>. HIDE DEF S
<1>7. /\ Pairs(a, u \div 2) \in Seq(S) /\ Len(Pairs(a, u \div 2)) = u \div 2
      /\ \A k \in 1 .. u \div 2 : Pairs(a, u \div 2)[k] = e(k)
      /\ Pairs(b, v \div 2) \in Seq(S) /\ Len(Pairs(b, v \div 2)) = v \div 2
      /\ \A k \in 1 .. v \div 2 : Pairs(b, v \div 2)[k] = f(k)
  BY <1>5, <1>6, PairsFacts
<1>. HIDE DEF e, f
<1>8. IsPrefix(Pairs(a, u \div 2), Pairs(b, v \div 2))
  <2>1. \A k \in 1 .. u \div 2 : Pairs(a, u \div 2)[k] = Pairs(b, v \div 2)[k]
    <3>1. \A k \in 1 .. u \div 2 : k \in 1 .. v \div 2
      BY <1>5
    <3>. QED  BY <1>4, <1>7, <3>1
  <2>. QED  BY <1>5, <1>7, <2>1, PrefixIs
<1>. QED  BY <1>3, <1>5, <1>7, <1>8 DEF b, m, l, u

-----------------------------------------------------------------------------
\* How the handler reads on: what is left to read never grows but by what the
\* client sends, so that after a throw it is never again at a message before.

\* A piece is parsed in place only while _buffer is empty.
LEMMA InPlaceKept == InPlace /\ [Next]_vars => InPlace'
BY DEF InPlace, Next, Send, Recv, Handle, NeedMore, Throw, Return, vars, handlerVars, clientVars

\* A step of the handler leaves no more to read than there was.
LEMMA ReadsOn ==
  ASSUME TypeOK, InPlace,
         (\E n \in 0 .. CHUNK_SZ : Recv(n)) \/ Handle \/ NeedMore \/ Throw \/ Return \/ UNCHANGED vars
  PROVE  sent' = sent /\ Unread \in Nat /\ Unread' \in Nat /\ Unread' <= Unread
<1>. DEFINE i == Len(Input)
            w == Len(wire)
<1>0. i \in Nat /\ w \in Nat /\ Unread = i + w /\ Input \in Seq(Byte) /\ wire \in Seq(Byte)
  BY InputType, LenProperties DEF Unread
<1>1. ASSUME NEW x \in Nat, NEW y \in Nat, Len(Input') = x, Len(wire') = y, x + y <= i + w, sent' = sent
      PROVE  sent' = sent /\ Unread \in Nat /\ Unread' \in Nat /\ Unread' <= Unread
  <2>1. Unread' = x + y
    BY <1>1 DEF Unread
  <2>. HIDE DEF i, w
  <2>. QED  BY <1>0, <1>1, <2>1
<1>2. ASSUME NEW n \in 0 .. CHUNK_SZ, Recv(n)
      PROVE  sent' = sent /\ Unread \in Nat /\ Unread' \in Nat /\ Unread' <= Unread
  <2>1. n \in Nat /\ n <= w /\ sent' = sent /\ pc = "idle"
    BY <1>2, CodesAssumption DEF Recv
  <2>2. Len(wire') = w - n /\ Received(n) \in Seq(Byte) /\ Len(Received(n)) = n
    <3>1. Len(wire') = w - n /\ Received(n) \in Seq(Byte)
      BY <1>0, <1>2, <2>1, CutFacts DEF Recv, Received
    <3>2. Len(Received(n)) = IF 1 <= n THEN n - 1 + 1 ELSE 0
      BY <1>0, <2>1, PartType DEF Received
    <3>. QED  BY <2>1, <3>1, <3>2
  <2>3. Len(Input') = i + n
    <3>1. Input = buffer /\ buffer \in Seq(Byte)
      BY <2>1 DEF Input, TypeOK
    <3>2. CASE buffer = <<>>
      <4>1. Input' = Received(n)
        BY <1>2, <3>2 DEF Recv, Input
      <4>2. i = 0
        BY <3>1, <3>2, EmptySeq
      <4>. HIDE DEF i
      <4>. QED  BY <2>1, <2>2, <4>1, <4>2
    <3>3. CASE buffer # <<>>
      <4>1. Input' = buffer \o Received(n)
        BY <1>2, <3>3 DEF Recv, Input
      <4>2. Len(buffer \o Received(n)) = Len(buffer) + Len(Received(n))
        BY <2>2, <3>1, ConcatProperties
      <4>. QED  BY <2>2, <3>1, <4>1, <4>2
    <3>. QED  BY <3>2, <3>3
  <2>. HIDE DEF i, w
  <2>4. i + n \in Nat /\ w - n \in Nat /\ (i + n) + (w - n) <= i + w
    BY <1>0, <2>1
  <2>. QED  BY <1>1, <2>1, <2>2, <2>3, <2>4
<1>3. CASE Handle
  <2>1. /\ Input' = AfterMessage /\ wire' = wire /\ sent' = sent /\ HasMessage
    BY <1>3 DEF Handle, Input, clientVars
  <2>2. Len(AfterMessage) \in Nat /\ Len(AfterMessage) <= i
    <3>. DEFINE j == CodeLen + Length + 1
    <3>1. j \in Nat \ {0} /\ AfterMessage = SubSeq(Input, j, i)
      BY <2>1, InputType, MessageType DEF AfterMessage
    <3>. HIDE DEF j
    <3>2. Len(SubSeq(Input, j, i)) = IF j <= i THEN i - j + 1 ELSE 0
      BY <1>0, <3>1, PartType
    <3>. HIDE DEF i
    <3>. QED  BY <1>0, <3>1, <3>2
  <2>. HIDE DEF i
  <2>3. Len(AfterMessage) + w <= i + w
    BY <1>0, <2>2
  <2>. QED  BY <1>0, <1>1, <2>1, <2>2, <2>3
<1>4. CASE NeedMore \/ Throw \/ Return \/ UNCHANGED vars
  <2>1. wire' = wire /\ sent' = sent
    BY <1>4 DEF NeedMore, Throw, Return, vars, clientVars
  <2>2. Input' = Input \/ Input' = <<>>
    BY <1>4 DEF NeedMore, Throw, Return, Saved, vars, handlerVars, Input, InPlace
  <2>3. Len(Input') \in Nat /\ Len(Input') <= i
    <3>1. Len(<<>>) = 0
      OBVIOUS
    <3>2. CASE Input' = Input
      BY <1>0, <3>2
    <3>3. CASE Input' = <<>>
      BY <1>0, <3>1, <3>3
    <3>. QED  BY <2>2, <3>2, <3>3
  <2>. HIDE DEF i
  <2>4. Len(Input') + w <= i + w
    BY <1>0, <2>3
  <2>. QED  BY <1>0, <1>1, <2>1, <2>3, <2>4
<1>. QED  BY <1>2, <1>3, <1>4

\* After a throw there is less left than the messages from that one on.
LEMMA AstrayKept ==
  ASSUME PlainClient, IInv, InPlace, Astray, [Next]_vars
  PROVE  Astray'
<1>0. TypeOK /\ SentAllowed /\ Len(sent) \in Nat
  BY SentParts DEF IInv, TypeOK
<1>1. ASSUME NEW h \in 0 .. Len(sent), h < Len(sent), ~WellFormed(sent[h + 1]),
             Unread <= Len(AllBytes(After(h))), NEW m \in Messages, Send(m)
      PROVE  Astray'
  <2>1. m \in Message /\ sent' = Append(sent, m) /\ wire' = wire \o Bytes(m)
    BY <1>1, CodesAssumption DEF Send
  <2>2. /\ h \in 0 .. Len(sent') /\ Len(sent') = Len(sent) + 1 /\ sent'[h + 1] = sent[h + 1]
        /\ AllBytes(After(h)') = AllBytes(After(h)) \o Bytes(m)
    <3>1. h + 1 \in 1 .. Len(sent)
      BY <1>0, <1>1
    <3>2. /\ h \in 0 .. Len(sent') /\ Len(sent') = Len(sent) + 1
          /\ \A k \in 1 .. Len(sent) : sent'[k] = sent[k]
          /\ AllBytes(After(h)') = AllBytes(After(h)) \o Bytes(m)
      BY <1>0, <2>1, SendKeeps
    <3>. QED  BY <3>1, <3>2
  <2>3. Input' = Input
    BY <1>1 DEF Send, handlerVars, Input
  <2>. DEFINE t == AllBytes(After(h))
              y == Bytes(m)
              i == Len(Input)
  <2>4. t \in Seq(Byte) /\ y \in Seq(Byte) /\ wire \in Seq(Byte) /\ i \in Nat /\ i + Len(wire) <= Len(t)
    BY <1>0, <1>1, <2>1, NextMessage, BytesFacts, InputType DEF Unread
  <2>. HIDE DEF t, y, i
  <2>5. i + Len(wire \o y) <= Len(t \o y)
    <3>1. Len(wire \o y) = Len(wire) + Len(y) /\ Len(t \o y) = Len(t) + Len(y)
      BY <2>4, ConcatProperties
    <3>2. Len(wire) \in Nat /\ Len(t) \in Nat /\ Len(y) \in Nat
      BY <2>4, LenProperties
    <3>. QED  BY <2>4, <3>1, <3>2
  <2>6. Unread' <= Len(AllBytes(After(h)'))
    BY <2>1, <2>2, <2>3, <2>5 DEF Unread, t, y, i
  <2>7. h < Len(sent')
    BY <1>0, <1>1, <2>2
  <2>. QED  BY <1>1, <2>2, <2>6, <2>7 DEF Astray
<1>2. ASSUME NEW h \in 0 .. Len(sent), h < Len(sent), ~WellFormed(sent[h + 1]),
             Unread <= Len(AllBytes(After(h))), Unread \in Nat, Unread' \in Nat, Unread' <= Unread,
             sent' = sent
      PROVE  Astray'
  <2>1. After(h)' = After(h)
    BY <1>2 DEF After
  <2>2. Len(AllBytes(After(h))) \in Nat
    BY <1>0, NextMessage, LenProperties
  <2>3. Unread' <= Len(AllBytes(After(h)))
    BY <1>2, <2>2
  <2>. QED  BY <1>2, <2>1, <2>3 DEF Astray
<1>3. CASE thrown
  <2>1. PICK h \in 0 .. Len(sent) : /\ h < Len(sent) /\ ~WellFormed(sent[h + 1])
                                   /\ Unread <= Len(AllBytes(After(h)))
    BY <1>3 DEF Astray
  <2>2. CASE \E m \in Messages : Send(m)
    BY <1>1, <2>1, <2>2
  <2>3. CASE (\E n \in 0 .. CHUNK_SZ : Recv(n)) \/ Handle \/ NeedMore \/ Throw \/ Return \/ UNCHANGED vars
    BY <1>0, <1>2, <2>1, <2>3, ReadsOn
  <2>. QED  BY <2>2, <2>3 DEF Next
<1>4. CASE ~thrown /\ Throw
  <2>1. PICK h \in 0 .. Len(sent) : Followed(h)
    BY <1>4 DEF IInv, FollowInv, GivenUp
  <2>2. h < Len(sent) /\ ~WellFormed(sent[h + 1])
    BY <1>0, <1>4, <2>1, AtHand DEF Throw
  <2>3. Unread = Len(AllBytes(After(h)))
    BY <1>0, <2>1, InputType, ConcatProperties DEF Followed, Unread
  <2>4. sent' = sent /\ Unread \in Nat /\ Unread' \in Nat /\ Unread' <= Unread
    BY <1>0, <1>4, ReadsOn
  <2>5. Unread <= Len(AllBytes(After(h)))
    BY <2>3, <2>4
  <2>. QED  BY <1>2, <2>2, <2>4, <2>5
<1>5. CASE ~thrown /\ ~Throw
  BY <1>5 DEF Astray, Next, Send, Recv, Handle, NeedMore, Return, vars
<1>. QED  BY <1>3, <1>4, <1>5

\* Fewer messages are fewer bytes.
LEMMA LessLeft ==
  ASSUME TypeOK, NEW h \in 0 .. Len(sent), NEW k \in 0 .. Len(sent), h < k
  PROVE  Len(AllBytes(After(k))) < Len(AllBytes(After(h)))
<1>. DEFINE a == AllBytes(After(h))
            b == AllBytes(After(h + 1))
            c == AllBytes(After(k))
            y == Bytes(sent[h + 1])
<1>0. Len(sent) \in Nat
  BY SentParts
<1>1. h < Len(sent) /\ h + 1 \in 0 .. Len(sent) /\ h + 1 \in 0 .. k
  BY <1>0
<1>2. sent[h + 1] \in Message /\ a = y \o b /\ b \in Seq(Byte) /\ y \in Seq(Byte) /\ c \in Seq(Byte)
  <2>1. sent[h + 1] \in Message
    BY <1>1, SentParts
  <2>. QED  BY <1>1, <2>1, NextMessage, BytesFacts
<1>3. Len(y) \in Nat /\ Len(y) >= 4
  BY <1>2, BytesLong
<1>4. Len(c) <= Len(b)
  BY <1>1, FewerMessages
<1>. HIDE DEF a, b, c, y
<1>5. Len(a) = Len(y) + Len(b) /\ Len(b) \in Nat /\ Len(c) \in Nat
  BY <1>2, ConcatProperties, LenProperties
<1>6. Len(c) < Len(a)
  BY <1>3, <1>4, <1>5
<1>. QED  BY <1>6 DEF a, c

\* A message that is about to be made is the next one.
LEMMA MakesNext ==
  ASSUME IInv, Astray, NEW k \in DOMAIN sent, Making(k)
  PROVE  k - 1 \in 0 .. Len(sent) /\ Followed(k - 1)
<1>. DEFINE j == k - 1
<1>0. TypeOK /\ Len(sent) \in Nat /\ k \in 1 .. Len(sent)
  BY SentParts DEF IInv, TypeOK
<1>1. j \in 0 .. Len(sent) /\ j + 1 = k /\ j \in Nat
  BY <1>0
<1>2. Unread = Len(AllBytes(After(j)))
  BY <1>1 DEF Making, Unread, After
<1>. HIDE DEF j
<1>3. \A g \in 0 .. Len(sent) : Len(AllBytes(After(g))) \in Nat
  BY <1>0, NextMessage, LenProperties
<1>4. PICK h \in 0 .. Len(sent) : Followed(h) \/ GivenUp(h)
  BY DEF IInv, FollowInv
<1>5. CASE Followed(h)
  <2>1. Unread = Len(AllBytes(After(h)))
    BY <1>0, <1>5, InputType, ConcatProperties DEF Followed, Unread
  <2>2. ~(h < j) /\ ~(j < h)
    <3>1. ASSUME h < j PROVE FALSE
      <4>1. Len(AllBytes(After(j))) < Len(AllBytes(After(h)))
        BY <1>0, <1>1, <3>1, LessLeft
      <4>. QED  BY <1>1, <1>2, <1>3, <2>1, <4>1
    <3>2. ASSUME j < h PROVE FALSE
      <4>1. Len(AllBytes(After(h))) < Len(AllBytes(After(j)))
        BY <1>0, <1>1, <3>2, LessLeft
      <4>. QED  BY <1>1, <1>2, <1>3, <2>1, <4>1
    <3>. QED  BY <3>1, <3>2
  <2>3. h = j
    BY <1>0, <1>1, <2>2
  <2>. QED  BY <1>1, <1>5, <2>3 DEF j
<1>6. CASE GivenUp(h)
  <2>1. PICK g \in 0 .. Len(sent) : /\ g < Len(sent) /\ ~WellFormed(sent[g + 1])
                                   /\ Unread <= Len(AllBytes(After(g)))
    BY <1>6 DEF GivenUp, Astray
  <2>2. j < g
    <3>1. g + 1 \notin 1 .. k
      BY <2>1 DEF Making
    <3>. QED  BY <1>0, <1>1, <3>1
  <2>3. Len(AllBytes(After(g))) < Len(AllBytes(After(j)))
    BY <1>0, <1>1, <2>2, LessLeft
  <2>4. FALSE
    BY <1>1, <1>2, <1>3, <2>1, <2>3
  <2>. QED  BY <2>4
<1>. QED  BY <1>4, <1>5, <1>6

-----------------------------------------------------------------------------
\* The settings made of a startup message, in every state.

\* What lies behind the message in memory.
LEMMA MemoryType ==
  ASSUME TypeOK, HasMessage, NEW memory \in Memories
  PROVE  SubSeq(memory, 1, 4) \in Seq(Byte) /\ Len(SubSeq(memory, 1, 4)) = 4
<1>1. PICK pad \in [1 .. 4 -> {0, Base - 1}] : memory = AfterMessage \o pad
  BY DEF Memories
<1>2. pad \in Seq(Byte) /\ Len(pad) = 4
  <2>1. {0, Base - 1} \subseteq Byte
    BY BaseAssumption DEF Byte
  <2>2. pad \in [1 .. 4 -> Byte]
    BY <2>1
  <2>3. \A n \in Nat : \A f \in [1 .. n -> Byte] : f \in Seq(Byte) /\ Len(f) = n
    OBVIOUS
  <2>. QED  BY <2>2, <2>3
<1>3. AfterMessage \in Seq(Byte)
  BY MessageType
<1>. DEFINE a == AfterMessage
<1>. HIDE DEF a
<1>4. memory \in Seq(Byte) /\ Len(memory) = Len(a) + 4 /\ Len(a) \in Nat
  <2>1. a \in Seq(Byte) /\ memory = a \o pad
    BY <1>1, <1>3 DEF a
  <2>2. a \o pad \in Seq(Byte) /\ Len(a \o pad) = Len(a) + Len(pad) /\ Len(a) \in Nat
    BY <1>2, <2>1, ConcatProperties, LenProperties
  <2>. QED  BY <1>2, <2>1, <2>2
<1>5. 1 \in Nat \ {0} /\ 4 \in Nat /\ 4 <= Len(memory) /\ (IF 1 <= 4 THEN 4 - 1 + 1 ELSE 0) = 4
  BY <1>4
<1>6. /\ SubSeq(memory, 1, 4) \in Seq(Byte)
      /\ Len(SubSeq(memory, 1, 4)) = IF 1 <= 4 THEN 4 - 1 + 1 ELSE 0
  BY <1>4, <1>5, PartType
<1>. QED  BY <1>5, <1>6

\* The parameters of a startup message, made of its body behind the version and
\* of 4 bytes more: its settings and what the last 5 bytes add.
LEMMA StartupMade ==
  ASSUME NEW body \in Seq(Byte), Len(body) >= 4, NEW x \in Seq(Byte), Len(x) = 4
  PROVE  LET made == Parameters(SubSeq(body, 5, Len(body)) \o x)
             said == SubSeq(body, 5, Len(body) - 1)
         IN  /\ IsPrefix(Settings(said), made)
             /\ Len(made) <= (ZerosIn(said, Len(said)) + 5) \div 2
<1>. DEFINE n == Len(body)
            said == SubSeq(body, 5, n - 1)
            all == SubSeq(body, 5, n)
<1>0. n \in Nat /\ n >= 4
  BY LenProperties
<1>1. \E d \in Seq(Byte) : all \o x = said \o d /\ said \in Seq(Byte) /\ Len(d) \in 0 .. 5
  <2>1. CASE n = 4
    <3>1. all = <<>> /\ said = <<>>
      BY <2>1
    <3>. HIDE DEF all, said
    <3>. QED  BY <3>1
  <2>2. CASE n >= 5
    <3>. DEFINE k == n - 1
                l == body[n]
    <3>1. k \in Nat /\ k < Len(body) /\ 4 \in 0 .. k /\ k + 1 = n /\ 4 + 1 = 5
      BY <1>0, <2>2
    <3>2. SubSeq(body, 4 + 1, k + 1) = Append(SubSeq(body, 4 + 1, k), body[k + 1])
      BY ONLY <3>1, body \in Seq(Byte), ByteAdded
    <3>3. all = Append(said, l)
      BY <3>1, <3>2
    <3>4. l \in Byte
      BY <1>0, <2>2
    <3>5. said \in Seq(Byte)
      <4>1. 5 \in Nat \ {0} /\ k \in Nat /\ k <= Len(body)
        BY <1>0, <3>1
      <4>. QED  BY <4>1, PartType
    <3>. HIDE DEF all, said, l, n
    <3>6. /\ all = said \o <<l>> /\ <<l>> \in Seq(Byte) /\ Len(<<l>>) = 1
      BY <3>3, <3>4, <3>5, AppendIsConcat
    <3>. DEFINE u == <<l>>
    <3>7. all = said \o u /\ u \in Seq(Byte) /\ Len(u) = 1
      BY <3>6
    <3>. HIDE DEF u
    <3>8. all \o x = said \o (u \o x)
      BY <3>5, <3>7, ByteAssociative
    <3>. DEFINE e == u \o x
    <3>9. e \in Seq(Byte) /\ Len(e) = Len(u) + Len(x)
      BY <3>7, ConcatProperties
    <3>10. all \o x = said \o e
      BY <3>8
    <3>. HIDE DEF e
    <3>11. Len(e) \in 0 .. 5
      BY <3>7, <3>9
    <3>. QED  BY <3>5, <3>9, <3>10, <3>11
  <2>3. n = 4 \/ n >= 5
    BY <1>0
  <2>. HIDE DEF all, said, n
  <2>. QED  BY <2>1, <2>2, <2>3
<1>2. PICK d \in Seq(Byte) : all \o x = said \o d /\ said \in Seq(Byte) /\ Len(d) \in 0 .. 5
  BY <1>1
<1>. HIDE DEF all, said
<1>3. Parameters(all \o x) = Settings(said \o d)
  <2>1. said \o d \in Seq(Byte)
    BY <1>2, ConcatProperties
  <2>. QED  BY <1>2, <2>1, ParametersAre
<1>4. /\ IsPrefix(Settings(said), Settings(said \o d))
      /\ Len(Settings(said \o d)) <= (ZerosIn(said, Len(said)) + Len(d)) \div 2
  BY <1>2, SettingsFirst
<1>5. Len(Settings(said \o d)) <= (ZerosIn(said, Len(said)) + 5) \div 2
  <2>. DEFINE u == ZerosIn(said, Len(said))
              v == ZerosIn(said \o d, Len(said \o d))
              w == Len(Settings(said \o d))
  <2>1. u \in Nat /\ v \in Nat
    <3>1. Len(said) \in Nat /\ Len(said \o d) \in Nat
      BY <1>2, ConcatProperties, LenProperties
    <3>. QED  BY <3>1, ZerosStep
  <2>2. w = v \div 2 /\ v \div 2 \in Nat
    <3>1. v \div 2 \in Nat
      <4>. HIDE DEF v
      <4>. QED  BY <2>1
    <3>2. Settings(said \o d) = Pairs(said \o d, v \div 2)
      BY DEF Settings, Pairs
    <3>. HIDE DEF v
    <3>. QED  BY <3>1, <3>2, PairAdded
  <2>3. Len(d) \in 0 .. 5 /\ w <= (u + Len(d)) \div 2
    BY <1>2, <1>4
  <2>. HIDE DEF u, v, w
  <2>4. w <= (u + 5) \div 2
    <3>. DEFINE l == Len(d)
    <3>1. u \in Nat /\ l \in 0 .. 5 /\ w \in Nat /\ w <= (u + l) \div 2
      BY <2>1, <2>2, <2>3
    <3>. HIDE DEF l
    <3>. QED  BY <3>1
  <2>. QED  BY <2>4 DEF u, w
<1>. QED  BY <1>3, <1>4, <1>5 DEF all, said, n

\* What the handler makes of the next message.
LEMMA MadeAsSent == IInv /\ InPlace /\ Astray => SettingsKept
<1>. SUFFICES ASSUME IInv, Astray, NEW k \in DOMAIN sent, Making(k)
              PROVE  LET body == sent[k].body
                     IN  /\ sent[k].tag = <<ParameterStatus>> => StatusParameters(Payload) = Settings(body)
                         /\ k = 1 =>
                              /\ VersionOf(Payload) = <<body[1] * Base + body[2], body[3] * Base + body[4]>>
                              /\ \A memory \in Memories :
                                   LET made == StartupParameters(Payload, memory)
                                       said == SubSeq(body, 5, Len(body) - 1)
                                   IN  /\ IsPrefix(Settings(said), made)
                                       /\ Len(made) <= (ZerosIn(said, Len(said)) + 5) \div 2
  BY DEF SettingsKept
<1>. DEFINE body == sent[k].body
<1>0. TypeOK /\ SentAllowed /\ Len(sent) \in Nat /\ k \in 1 .. Len(sent) /\ HasMessage /\ Input # <<>>
  BY SentParts DEF IInv, TypeOK, Making
<1>1. /\ sent[k] \in Message /\ Allowed(sent[k], k) /\ Payload = body /\ ByteOrder = "BE"
  <2>. DEFINE h == k - 1
  <2>1. h + 1 = k
    BY <1>0
  <2>2. h \in 0 .. Len(sent) /\ Followed(h)
    BY MakesNext
  <2>. HIDE DEF h
  <2>. QED  BY <1>0, <2>1, <2>2, AtHand
<1>2. body \in Seq(Byte)
  BY <1>1 DEF Message
<1>3. StatusParameters(Payload) = Settings(body)
  BY <1>1, <1>2, ParametersAre DEF StatusParameters
<1>4. ASSUME k = 1
      PROVE  /\ VersionOf(Payload) = <<body[1] * Base + body[2], body[3] * Base + body[4]>>
             /\ \A memory \in Memories :
                  LET made == StartupParameters(Payload, memory)
                      said == SubSeq(body, 5, Len(body) - 1)
                  IN  /\ IsPrefix(Settings(said), made)
                      /\ Len(made) <= (ZerosIn(said, Len(said)) + 5) \div 2
  <2>1. Len(body) \in Nat /\ Len(body) >= 4
    <3>1. WellFormed(sent[k]) /\ sent[k].tag = <<>>
      BY <1>0, <1>1, <1>4 DEF Making, Allowed
    <3>. QED  BY <1>2, <3>1, LenProperties DEF WellFormed
  <2>. HIDE DEF body
  <2>2. VersionOf(body) = <<body[1] * Base + body[2], body[3] * Base + body[4]>>
    <3>. DEFINE a == SubSeq(body, 1, 2)
                b == SubSeq(body, 3, 4)
    <3>1. a[1] = body[1] /\ a[2] = body[2] /\ b[1] = body[3] /\ b[2] = body[4]
      BY <1>2, <2>1
    <3>2. VersionOf(body) = <<DecodeUint16(a, "BE"), DecodeUint16(b, "BE")>>
      BY <1>1 DEF VersionOf
    <3>. HIDE DEF a, b
    <3>3. DecodeUint16(a, "BE") = a[1] * Base + a[2] /\ DecodeUint16(b, "BE") = b[1] * Base + b[2]
      BY DEF DecodeUint16, DecodeUint16BE
    <3>. QED  BY <3>1, <3>2, <3>3
  <2>3. ASSUME NEW memory \in Memories
        PROVE  LET made == StartupParameters(Payload, memory)
                   said == SubSeq(body, 5, Len(body) - 1)
               IN  /\ IsPrefix(Settings(said), made)
                   /\ Len(made) <= (ZerosIn(said, Len(said)) + 5) \div 2
    <3>. DEFINE x == SubSeq(memory, 1, 4)
    <3>1. x \in Seq(Byte) /\ Len(x) = 4
      BY <1>0, MemoryType
    <3>2. StartupParameters(Payload, memory) = Parameters(SubSeq(body, 5, Len(body)) \o x)
      BY <1>1 DEF StartupParameters
    <3>. HIDE DEF x
    <3>. QED  BY <1>2, <2>1, <3>1, <3>2, StartupMade
  <2>. QED  BY <1>1, <2>2, <2>3
<1>. QED  BY <1>3, <1>4

\* For a client whose length fields can be trusted, with bodies of any size and
\* however recv cuts them: make_param_status_msg makes the settings sent,
\* make_startup_msg reads the version that was written and makes the settings
\* sent before anything else, and what it reads behind the payload adds no more
\* than five strings.
THEOREM SettingsKeptHolds ==
  ASSUME PlainClient
  PROVE  Spec => []SettingsKept
<1>1. Init => InPlace /\ Astray
  BY DEF Init, InPlace, Astray
<1>2. IInv /\ InPlace /\ Astray /\ [Next]_vars => Astray'
  BY AstrayKept
<1>3. Spec => []IInv
  BY ParserInductive
<1>. QED  BY <1>1, <1>2, <1>3, InPlaceKept, MadeAsSent, PTL DEF Spec
=============================================================================
