---------------------------- MODULE ProxyProofs ----------------------------
(***************************************************************************)
(* Proofs about the psql session of Proxy: the session is one of Relay and *)
(* its handler one of Parser, so that what RelayProofs and ParserProofs    *)
(* say of each holds of it, and together they show that no query reaches   *)
(* the target before it is logged.                                         *)
(***************************************************************************)
EXTENDS Proxy, RelayProofs

\* The theorems about the handler.  P and PP are instances of the same
\* definitions; the lemmas below say so, one kind of definition at a time.
PP == INSTANCE ParserProofs
        WITH pc <- hpc, Openings <- Scripts, Messages <- {}, MaxMessages <- 0

\* The bytes and the query texts of messages.
LEMMA SameBytes == \A ms : P!AllBytes(ms) = PP!AllBytes(ms) /\ P!Texts(ms) = PP!Texts(ms)
BY DEF P!AllBytes, PP!AllBytes, P!Bytes, PP!Bytes, P!Encode, PP!Encode, P!Square, PP!Square,
       P!FlattenSeq, PP!FlattenSeq, P!Texts, PP!Texts, P!TextsOf, PP!TextsOf, P!TextOf, PP!TextOf

\* The messages.
LEMMA SameTypes == P!Message = PP!Message /\ P!Byte = PP!Byte /\ P!StartupMessage = PP!StartupMessage
BY DEF P!Message, PP!Message, P!Byte, PP!Byte, P!StartupMessage, PP!StartupMessage

\* The initial states.
LEMMA SameInit == P!Init <=> PP!Init
BY SameBytes DEF P!Init, PP!Init

\* What the handler reads in its input.
LEMMA SameReading ==
  /\ P!Input = PP!Input /\ P!CodeLen = PP!CodeLen /\ P!MsgCode = PP!MsgCode
  /\ P!HasMessage = PP!HasMessage /\ P!Payload = PP!Payload /\ P!AfterMessage = PP!AfterMessage
BY DEF P!Input, PP!Input, P!CodeLen, PP!CodeLen, P!MsgCode, PP!MsgCode, P!StartupMessage,
       PP!StartupMessage, P!LengthField, PP!LengthField, P!ByteOrder, PP!ByteOrder,
       P!Length, PP!Length, P!HasMessage, PP!HasMessage, P!Payload, PP!Payload,
       P!AfterMessage, PP!AfterMessage, P!CheckEndianness, PP!CheckEndianness,
       P!DecodeUint32, PP!DecodeUint32, P!DecodeUint32LE, PP!DecodeUint32LE,
       P!DecodeUint32BE, PP!DecodeUint32BE, P!Square, PP!Square

\* The steps of a handler call.
LEMMA SameSteps ==
  /\ \A n : P!Recv(n) <=> PP!Recv(n)
  /\ P!Handle <=> PP!Handle
  /\ P!NeedMore <=> PP!NeedMore
  /\ P!Throw <=> PP!Throw
  /\ P!Return <=> PP!Return
<1>1. \A c, p : P!Throws(c, p) <=> PP!Throws(c, p)
  BY DEF P!Throws, PP!Throws, P!BadStartup, PP!BadStartup, P!BadQuery, PP!BadQuery,
         P!StartupMessage, PP!StartupMessage
<1>2. \A c, p : P!Visit(c, p) <=> PP!Visit(c, p)
  BY DEF P!Visit, PP!Visit, P!TextOf, PP!TextOf
<1>3. \A n : P!Recv(n) <=> PP!Recv(n)
  BY DEF P!Recv, PP!Recv, P!Received, PP!Received
<1>4. P!Handle <=> PP!Handle
  BY <1>1, <1>2, SameReading DEF P!Handle, PP!Handle, P!clientVars, PP!clientVars
<1>5. P!NeedMore <=> PP!NeedMore
  BY <1>1, SameReading DEF P!NeedMore, PP!NeedMore, P!Saved, PP!Saved, P!clientVars, PP!clientVars
<1>6. P!Throw <=> PP!Throw
  BY <1>1, SameReading DEF P!Throw, PP!Throw, P!clientVars, PP!clientVars
<1>7. P!Return <=> PP!Return
  BY SameReading DEF P!Return, PP!Return, P!clientVars, PP!clientVars
<1>. QED  BY <1>3, <1>4, <1>5, <1>6, <1>7

\* Which messages are well formed.
LEMMA SameWellFormed == \A m : P!WellFormed(m) <=> PP!WellFormed(m)
BY DEF P!WellFormed, PP!WellFormed

\* Prefixes.
LEMMA SamePrefix == \A s, t : /\ P!IsPrefix(s, t) <=> PP!IsPrefix(s, t)
                              /\ IsPrefix(s, t) <=> PP!IsPrefix(s, t)
BY DEF P!IsPrefix, PP!IsPrefix, IsPrefix

\* The clients that the theorems are about.
LEMMA SamePlain == P!PlainClient <=> PP!PlainClient
BY SameTypes DEF P!PlainClient, PP!PlainClient, P!Allowed, PP!Allowed, P!Square, PP!Square

\* The handler's invariant.
LEMMA SameInv == P!IInv <=> PP!IInv
<1>1. P!TypeOK <=> PP!TypeOK
  BY SameTypes DEF P!TypeOK, PP!TypeOK
<1>2. P!SentAllowed <=> PP!SentAllowed
  BY SameTypes DEF P!SentAllowed, PP!SentAllowed, P!Allowed, PP!Allowed, P!Square, PP!Square
<1>3. \A h : P!After(h) = PP!After(h) /\ P!FirstOf(h) = PP!FirstOf(h)
  BY DEF P!After, PP!After, P!FirstOf, PP!FirstOf
<1>4. \A m : P!Bytes(m) = PP!Bytes(m)
  BY DEF P!Bytes, PP!Bytes, P!Encode, PP!Encode, P!Square, PP!Square
<1>5. \A h : P!Followed(h) <=> PP!Followed(h)
  BY <1>3, <1>4, SameBytes, SameReading, SameWellFormed, Zenon DEF P!Followed, PP!Followed
<1>6. \A h : P!GivenUp(h) <=> PP!GivenUp(h)
  BY <1>3, SameBytes, SameWellFormed, SamePrefix, Zenon DEF P!GivenUp, PP!GivenUp
<1>7. P!FollowInv <=> PP!FollowInv
  BY <1>5, <1>6 DEF P!FollowInv, PP!FollowInv
<1>. QED  BY <1>1, <1>2, <1>7 DEF P!IInv, PP!IInv

\* What ParserProofs asks of the constants.
LEMMA Codes ==
  /\ Base \in Nat /\ Base > 1
  /\ {Query, Terminate, ParameterStatus} \subseteq PP!Byte \ {PP!StartupMessage}
  /\ CHUNK_SZ \in Nat /\ 0 \in Nat
  /\ {} \subseteq PP!Message /\ Scripts \subseteq Seq(PP!Message)
BY ParserAssumption, ChunkAssumption, SameTypes
-----------------------------------------------------------------------------
(* Steps of the composition are steps of its parts. *)

\* A step of the session.
LEMMA SessionStep == [ProxyNext]_proxyVars => [Next]_vars
BY DEF ProxyNext, proxyVars, Environment, Process, Receive, ParseOne, ParseReturns, ParseThrows,
       Next, Reactor, Handlers, Ended

\* The client is the left side of the channel with the handler.
LEMMA ClientFacts ==
  ASSUME TypeOK
  PROVE  /\ Left["lr"] = "client" /\ Parsed = {"lr"}
         /\ "client" \in Fd /\ sock["client"].inq \in Nat
<1>1. Left["lr"] = "client" /\ Parsed = {"lr"}
  BY SessionAssumption DEF TypeOK, Left, Parsed
<1>2. "client" \in Fd
  BY <1>1, WiringFacts DEF TypeOK, Channel
<1>. QED  BY <1>1, <1>2 DEF TypeOK, Socket

\* A step of the handler.
LEMMA HandlerStep == TypeOK /\ [ProxyNext]_proxyVars => [P!Next]_(P!vars)
<1>. SUFFICES ASSUME TypeOK, ProxyNext, ~ UNCHANGED P!vars PROVE P!Next
  BY DEF proxyVars, parserVars, P!vars, P!clientVars, P!handlerVars
<1>0. ~ UNCHANGED parserVars
  BY DEF parserVars, P!vars, P!clientVars, P!handlerVars
<1>1. CASE Receive
  <2>1. P!Recv(LeastOf(CHUNK_SZ, sock["client"].inq))
    BY <1>0, <1>1 DEF Receive
  <2>2. LeastOf(CHUNK_SZ, sock["client"].inq) \in 0 .. CHUNK_SZ
    BY ClientFacts, ChunkAssumption DEF LeastOf
  <2>. QED  BY <2>1, <2>2 DEF P!Next
<1>2. CASE ParseOne \/ ParseReturns \/ ParseThrows
  BY <1>2 DEF ParseOne, ParseReturns, ParseThrows, P!Next
<1>. QED  BY <1>0, <1>1, <1>2 DEF ProxyNext, Environment, Process

\* The next-state relation.
LEMMA SameNext == [P!Next]_(P!vars) => [PP!Next]_(PP!vars)
BY SameSteps DEF P!Next, PP!Next, P!vars, PP!vars, P!clientVars, PP!clientVars,
       P!handlerVars, PP!handlerVars

\* The psql session is a session of Relay and its handler one of Parser, so
\* that what is proved about either holds of it.
THEOREM ProxyParts == ProxySpec => []IInv /\ P!Spec
<1>1. ProxyInit => IInv /\ P!Init
  BY Initially DEF ProxyInit
<1>2. IInv /\ [ProxyNext]_proxyVars => IInv' /\ [P!Next]_(P!vars)
  BY SessionStep, StepKeeps, HandlerStep DEF IInv
<1>. QED  BY <1>1, <1>2, PTL DEF ProxySpec, P!Spec

\* In particular the handler follows its client through the session.
LEMMA HandlerFollows ==
  ASSUME P!PlainClient
  PROVE  ProxySpec => []P!IInv
<1>1. PP!PlainClient
  BY SamePlain
<1>2. PP!Spec => []PP!IInv
  BY <1>1, Codes, PP!ParserInductive
<1>3. P!Spec => PP!Spec
  <2>1. P!Init => PP!Init
    BY SameInit
  <2>. QED  BY <2>1, SameNext, PTL DEF P!Spec, PP!Spec
<1>4. PP!IInv => P!IInv
  BY SameInv
<1>. QED  BY <1>2, <1>3, <1>4, ProxyParts, PTL
-----------------------------------------------------------------------------
(* The steps of a dispatch. *)

\* Each read of the client is followed by a call of the handler.
Paired(s) == \A k \in 1 .. Len(s) : s[k].op = "recv" /\ s[k].ch = "lr" =>
                                      k + 1 <= Len(s) /\ s[k + 1].op = "handle"

\* What is left of such steps are such steps.
LEMMA PairedRest ==
  ASSUME NEW s \in Seq(StepOf), Paired(s), s # <<>>
  PROVE  Paired(Tail(s)) /\ Paired(SubSeq(s, 3, Len(s)))
<1>1. Len(s) \in Nat /\ Len(s) > 0
  BY LenProperties, EmptySeq
<1>2. /\ Len(Tail(s)) = Len(s) - 1
      /\ \A k \in 1 .. Len(s) - 1 : Tail(s)[k] = s[k + 1]
  BY <1>1, HeadTailProperties
<1>3. Paired(Tail(s))
  BY <1>1, <1>2 DEF Paired
<1>4. /\ Len(SubSeq(s, 3, Len(s))) = IF 3 <= Len(s) THEN Len(s) - 2 ELSE 0
      /\ \A k \in 1 .. Len(s) - 2 : SubSeq(s, 3, Len(s))[k] = s[k + 2]
  BY <1>1
<1>5. Paired(SubSeq(s, 3, Len(s)))
  BY <1>1, <1>4 DEF Paired
<1>. QED  BY <1>3, <1>5

\* Nor do two such sequences in a row tear a pair apart.
LEMMA PairedConcat ==
  ASSUME NEW a \in Seq(StepOf), NEW b \in Seq(StepOf), Paired(a), Paired(b)
  PROVE  a \o b \in Seq(StepOf) /\ Paired(a \o b)
<1>. DEFINE l == Len(a)
            m == Len(b)
            c == a \o b
<1>1. /\ l \in Nat /\ m \in Nat /\ c \in Seq(StepOf) /\ Len(c) = l + m
      /\ \A k \in 1 .. l : c[k] = a[k]
      /\ \A k \in 1 .. m : c[l + k] = b[k]
  BY ConcatProperties, LenProperties
<1>. HIDE DEF l, m, c
<1>2. ASSUME NEW k \in 1 .. l + m, c[k].op = "recv", c[k].ch = "lr"
      PROVE  k + 1 <= l + m /\ c[k + 1].op = "handle"
  <2>1. CASE k <= l
    <3>1. k + 1 <= l /\ a[k + 1].op = "handle"
      BY <1>1, <1>2, <2>1 DEF Paired, l
    <3>. QED  BY <1>1, <3>1
  <2>2. CASE k > l
    <3>. DEFINE j == k - l
    <3>1. j \in 1 .. m /\ k = l + j
      BY <1>1, <2>2
    <3>. HIDE DEF j
    <3>2. j + 1 <= m /\ b[j + 1].op = "handle"
      BY <1>1, <1>2, <3>1 DEF Paired, m
    <3>3. j + 1 \in 1 .. m /\ k + 1 = l + (j + 1)
      <4>1. l \in Nat /\ m \in Nat /\ j \in Nat
        BY <1>1, <3>1
      <4>. QED  BY <4>1, <3>1, <3>2
    <3>. QED  BY <1>1, <3>1, <3>2, <3>3
  <2>. QED  BY <1>1, <2>1, <2>2
<1>. QED  BY <1>1, <1>2 DEF Paired, c

\* The callbacks of an event.
LEMMA CallbacksPaired ==
  ASSUME wiring \in Wirings, NEW f \in Fd \cup {"client"}, NEW mask
  PROVE  Paired(Callbacks(f, mask))
<1>0. Parsed = {"lr"}
  BY SessionAssumption DEF Parsed
<1>1. \A op \in {"recv", "handle", "send", "close"}, c \in Channel :
         Step(op, c, f) \in StepOf /\ Step(op, c, f).op = op /\ Step(op, c, f).ch = c
  BY DEF Step, StepOf
<1>2. <<>> \in Seq(StepOf) /\ Paired(<<>>)
  BY EmptySeq DEF Paired
<1>3. \A x \in StepOf : x.op # "recv" \/ x.ch # "lr"
                          => <<x>> \in Seq(StepOf) /\ Paired(<<x>>)
  BY DEF Paired
<1>4. ASSUME NEW c \in Channel
      PROVE  LeftSteps(c, f, mask) \in Seq(StepOf) /\ Paired(LeftSteps(c, f, mask))
  <2>. DEFINE x == Step("recv", c, f)
              y == Step("handle", c, f)
              z == Step("send", c, f)
  <2>1. x \in StepOf /\ y \in StepOf /\ z \in StepOf /\ y.op = "handle" /\ z.op = "send" /\ x.ch = c
    BY <1>1
  <2>. HIDE DEF x, y, z
  <2>2. <<z>> \in Seq(StepOf) /\ Paired(<<z>>)
    BY <1>3, <2>1
  <2>3. <<x>> \o <<y>> \in Seq(StepOf) /\ Paired(<<x>> \o <<y>>)
    <3>. DEFINE p == <<x>>
                q == <<y>>
    <3>1. p \in Seq(StepOf) /\ q \in Seq(StepOf) /\ Len(p) = 1 /\ Len(q) = 1 /\ q[1] = y
      BY <2>1
    <3>. HIDE DEF p, q
    <3>2. p \o q \in Seq(StepOf) /\ Len(p \o q) = 2 /\ (p \o q)[2] = y
      <4>1. /\ p \o q \in Seq(StepOf) /\ Len(p \o q) = Len(p) + Len(q)
            /\ \A k \in 1 .. Len(p) + Len(q) :
                 (p \o q)[k] = IF k <= Len(p) THEN p[k] ELSE q[k - Len(p)]
        BY <3>1, ConcatProperties
      <4>. QED  BY <3>1, <4>1
    <3>3. Paired(p \o q)
      BY <2>1, <3>2 DEF Paired
    <3>. QED  BY <3>2, <3>3 DEF p, q
  <2>4. c # "lr" => <<x>> \in Seq(StepOf) /\ Paired(<<x>>)
    BY <1>3, <2>1
  <2>5. <<x>> \o <<>> = <<x>>
    BY <2>1
  <2>6. \/ LeftSteps(c, f, mask) = <<>>
        \/ c = "lr" /\ LeftSteps(c, f, mask) = (<<x>> \o <<y>>) \o <<z>>
        \/ c # "lr" /\ LeftSteps(c, f, mask) = <<x>> \o <<z>>
    BY <1>0, <2>5 DEF LeftSteps, x, y, z
  <2>7. CASE c = "lr"
    BY <1>2, <2>2, <2>3, <2>6, <2>7, PairedConcat
  <2>8. CASE c # "lr"
    BY <1>2, <2>2, <2>4, <2>6, <2>8, PairedConcat
  <2>. QED  BY <2>7, <2>8
<1>5. ASSUME NEW c \in Channel
      PROVE  RightSteps(c, f, mask) \in Seq(StepOf) /\ Paired(RightSteps(c, f, mask))
  BY <1>1, <1>2, <1>3 DEF RightSteps
<1>6. SessionSteps(f, mask) \in Seq(StepOf) /\ Paired(SessionSteps(f, mask))
  BY <1>1, <1>2, <1>3 DEF SessionSteps, Channel
<1>. DEFINE a == LeftSteps("lr", f, mask)
            b == RightSteps("lr", f, mask)
            c == LeftSteps("rl", f, mask)
            d == RightSteps("rl", f, mask)
            e == SessionSteps(f, mask)
<1>7. /\ a \in Seq(StepOf) /\ b \in Seq(StepOf) /\ c \in Seq(StepOf) /\ d \in Seq(StepOf)
      /\ e \in Seq(StepOf) /\ Paired(a) /\ Paired(b) /\ Paired(c) /\ Paired(d) /\ Paired(e)
  BY <1>4, <1>5, <1>6 DEF Channel
<1>8. Callbacks(f, mask) = a \o b \o c \o d \o e
  BY DEF Callbacks
<1>. HIDE DEF a, b, c, d, e
<1>9. a \o b \in Seq(StepOf) /\ Paired(a \o b)
  BY <1>7, PairedConcat
<1>10. a \o b \o c \in Seq(StepOf) /\ Paired(a \o b \o c)
  BY <1>7, <1>9, PairedConcat
<1>11. a \o b \o c \o d \in Seq(StepOf) /\ Paired(a \o b \o c \o d)
  BY <1>7, <1>10, PairedConcat
<1>12. Paired(a \o b \o c \o d \o e)
  BY <1>7, <1>11, PairedConcat
<1>. QED  BY <1>8, <1>12

\* StepsInv is about all of the steps.
LEMMA StepsArePaired == BusInv => (StepsInv <=> Paired(steps))
<1>1. BusInv => DOMAIN steps = 1 .. Len(steps) /\ Len(steps) \in Nat
  BY LenProperties DEF BusInv
<1>. QED  BY <1>1 DEF StepsInv, Paired

\* A step takes one or two steps off the list, or makes it anew.
LEMMA StepsAfter ==
  ASSUME IInv, [ProxyNext]_proxyVars
  PROVE  \/ steps' = steps \/ steps' = <<>>
         \/ steps # <<>> /\ steps' \in {Tail(steps), SubSeq(steps, 3, Len(steps))}
         \/ steps = <<>> /\ \E f \in Fd \cup {"client"}, mask \in SUBSET Flag : steps' = Callbacks(f, mask)
<1>. SUFFICES ASSUME ProxyNext, steps' # steps
              PROVE  \/ steps' = <<>>
                     \/ steps # <<>> /\ steps' \in {Tail(steps), SubSeq(steps, 3, Len(steps))}
                     \/ steps = <<>> /\ \E f \in Fd \cup {"client"}, mask \in SUBSET Flag :
                                          steps' = Callbacks(f, mask)
  BY DEF proxyVars, vars, busVars
<1>1. CASE Dispatch
  <2>1. Head(events) \in EventOf
    BY <1>1 DEF Dispatch, IInv, BusInv
  <2>2. Head(events).fd \in Fd \cup {"client"} /\ Head(events).mask \in SUBSET Flag
    BY <2>1 DEF EventOf
  <2>. QED  BY <1>1, <2>2 DEF Dispatch
<1>2. CASE RecvData \/ SkipRecv \/ RecvError \/ Handlers \/ SkipSend \/ SendData \/ SendError \/ Close
  BY <1>2 DEF At, RecvData, SkipRecv, RecvError, Handlers, HandlerEnds, HandlerReturns, HandlerThrows,
         SkipSend, SendData, SendError, Close, NothingToHandle, AfterRecv
<1>3. ~ Kernel /\ ~ EpollWait /\ ~ SwapQueue /\ ~ Ended
  BY DEF Kernel, PeerSend, PeerRead, PeerFinish, PeerReset, Connect, EpollWait, SwapQueue, Ended,
         vars, busVars
<1>. QED  BY <1>1, <1>2, <1>3 DEF ProxyNext, Environment, Process, Receive, ParseOne, ParseReturns,
              ParseThrows, Loop, Handlers, vars, busVars

\* The pairs stay together.
LEMMA StepsKept ==
  ASSUME IInv, StepsInv, [ProxyNext]_proxyVars, BusInv'
  PROVE  StepsInv'
<1>1. steps \in Seq(StepOf) /\ Paired(steps)
  BY StepsArePaired DEF IInv, BusInv
<1>2. Paired(steps')
  <2>1. Paired(<<>>)
    BY DEF Paired
  <2>. QED  BY <1>1, <2>1, StepsAfter, PairedRest, CallbacksPaired DEF IInv, TypeOK
<1>3. DOMAIN steps' = 1 .. Len(steps') /\ Len(steps') \in Nat
  BY LenProperties DEF BusInv
<1>. QED  BY <1>2, <1>3 DEF StepsInv, Paired

\* While the handler runs, its step comes first.
LEMMA CallKept ==
  ASSUME IInv, StepsInv, CallInv, [ProxyNext]_proxyVars
  PROVE  CallInv'
<1>. SUFFICES ASSUME hpc' # "idle" PROVE steps' # <<>> /\ Head(steps').op = "handle"
  BY DEF CallInv
<1>1. CASE hpc # "idle" /\ steps' = steps
  BY <1>1 DEF CallInv
<1>2. CASE Receive /\ Head(steps).ch \in Parsed
  <2>1. steps \in Seq(StepOf) /\ steps # <<>> /\ steps' = Tail(steps) /\ Head(steps).op = "recv"
    BY <1>2 DEF Receive, RecvData, At, AfterRecv, IInv, BusInv
  <2>2. Len(steps) \in Nat /\ Len(steps) > 0 /\ Head(steps) = steps[1]
    BY <2>1, LenProperties, EmptySeq
  <2>3. 1 + 1 \in 1 .. Len(steps) /\ steps[2].op = "handle"
    <3>1. Paired(steps) /\ Head(steps).ch = "lr"
      BY <1>2, StepsArePaired, ClientFacts DEF IInv
    <3>. QED  BY <2>1, <2>2, <3>1 DEF Paired
  <2>4. Tail(steps) # <<>> /\ Head(Tail(steps)) = steps[2]
    <3>. DEFINE t == Tail(steps)
    <3>1. t \in Seq(StepOf) /\ Len(t) = Len(steps) - 1 /\ t[1] = steps[2]
      BY <2>1, <2>2, <2>3, HeadTailProperties
    <3>. HIDE DEF t
    <3>2. Len(t) > 0 /\ Head(t) = t[1]
      BY <2>2, <2>3, <3>1
    <3>3. t # <<>>
      <4>1. Len(<<>>) = 0
        OBVIOUS
      <4>. QED  BY <3>2, <4>1
    <3>. QED  BY <3>1, <3>2, <3>3 DEF t
  <2>. QED  BY <2>1, <2>3, <2>4
<1>3. ASSUME UNCHANGED hpc, \/ steps = <<>>
                            \/ steps # <<>> /\ Head(steps).op # "handle"
      PROVE  FALSE
  BY <1>3 DEF CallInv
<1>4. CASE Environment \/ UNCHANGED proxyVars \/ (Ended /\ UNCHANGED parserVars)
  <2>1. steps' = steps /\ hpc' = hpc
    BY <1>4 DEF Environment, Kernel, PeerSend, PeerRead, PeerFinish, PeerReset, Connect, Ended,
           vars, busVars, proxyVars, parserVars
  <2>. QED  BY <1>1, <2>1
<1>5. CASE Receive /\ Head(steps).ch \notin Parsed
  BY <1>3, <1>5 DEF Receive, RecvData, At, parserVars
<1>6. CASE ParseOne
  <2>1. steps' = steps /\ steps # <<>> /\ Head(steps).op = "handle"
    BY <1>6 DEF ParseOne, HandlerEnds, At, vars, busVars
  <2>. QED  BY <2>1
<1>7. CASE ParseReturns \/ ParseThrows
  BY <1>7 DEF ParseReturns, ParseThrows, P!NeedMore, P!Return, P!Throw
<1>8. CASE Loop /\ UNCHANGED parserVars
  BY <1>3, <1>8 DEF Loop, EpollWait, SwapQueue, Dispatch, SkipRecv, RecvError, SkipSend, SendData,
         SendError, Close, At, parserVars
<1>9. \/ Environment \/ UNCHANGED proxyVars \/ (Ended /\ UNCHANGED parserVars)
      \/ Receive \/ ParseOne \/ ParseReturns \/ ParseThrows \/ (Loop /\ UNCHANGED parserVars)
  BY DEF ProxyNext, Process
<1>. QED  BY <1>2, <1>4, <1>5, <1>6, <1>7, <1>8, <1>9
-----------------------------------------------------------------------------
(* The bytes. *)

\* What has gone through the channel, as a sequence of numbers.
LEMMA ThroughType ==
  ASSUME TypeOK
  PROVE  /\ out["lr"] \in Seq(Nat) /\ content["lr"] \in Seq(Nat) /\ Through("lr") \in Seq(Nat)
         /\ Len(Through("lr")) \in Nat /\ Len(out["lr"]) \in Nat
         /\ Len(out["lr"]) <= Len(Through("lr"))
<1>1. out["lr"] \in Seq(Nat) /\ content["lr"] \in Seq(Nat)
  BY DEF TypeOK, Channel
<1>2. /\ Len(out["lr"]) \in Nat /\ Len(content["lr"]) \in Nat /\ Through("lr") \in Seq(Nat)
      /\ Len(Through("lr")) = Len(out["lr"]) + Len(content["lr"])
  BY <1>1, ConcatProperties, LenProperties DEF Through
<1>3. \A m \in Nat, n \in Nat : m + n \in Nat /\ m <= m + n
  OBVIOUS
<1>. QED  BY <1>1, <1>2, <1>3

\* What the channel takes in is what the client's messages lose.
LEMMA BytesKept ==
  ASSUME IInv, P!TypeOK, BytesInv, [ProxyNext]_proxyVars
  PROVE  BytesInv'
<1>0. /\ TypeOK /\ BusInv /\ ReadOnlySent /\ Buffers
      /\ wire \in Seq(P!Byte) /\ Len(wire) \in Nat
  BY BuffersAs, OrderAs, LenProperties DEF IInv, P!TypeOK
<1>1. ASSUME Through("lr")' = Through("lr"), wire' = wire, sent' = sent PROVE BytesInv'
  <2>1. P!AllBytes(sent)' = P!AllBytes(sent)
    BY <1>1
  <2>. QED  BY <1>1, <2>1 DEF BytesInv
<1>2. CASE Receive /\ Head(steps).ch \in Parsed
  <2>. DEFINE n == LeastOf(CHUNK_SZ, sock["client"].inq)
              o == out["lr"]
              c == content["lr"]
              x == given["client"] - sock["client"].inq
              q == Piece(x, n)
  <2>1. Head(steps).ch = "lr" /\ Left["lr"] = "client" /\ n \in Nat
    BY <1>0, <1>2, ClientFacts, ChunkAssumption DEF LeastOf
  <2>2. out' = out /\ content'["lr"] = c \o q /\ x \in Nat
    <3>1. RecvData /\ content \in [Channel -> Seq(Nat)] /\ "lr" \in Channel
      BY <1>0, <1>2 DEF Receive, TypeOK, Channel
    <3>2. out' = out /\ content' = [content EXCEPT !["lr"] = @ \o q]
      BY <2>1, <3>1 DEF RecvData, Piece
    <3>3. given["client"] \in Nat /\ sock["client"].inq \in Nat /\ sock["client"].inq <= given["client"]
      BY <1>0, ClientFacts DEF TypeOK, ReadOnlySent
    <3>4. x \in Nat
      BY <3>3
    <3>5. content'["lr"] = c \o q
      BY <3>1, <3>2
    <3>. QED  BY <3>2, <3>4, <3>5
  <2>3. wire' = SubSeq(wire, n + 1, Len(wire)) /\ n <= Len(wire) /\ sent' = sent
    BY <1>2 DEF Receive, P!Recv
  <2>4. q \in Seq(Nat) /\ Len(q) = n
    BY <2>1, <2>2, PieceIsSeq
  <2>5. Len(wire') = Len(wire) - n
    BY <1>0, <2>1, <2>3
  <2>6. o \in Seq(Nat) /\ c \in Seq(Nat)
    BY <1>0, ThroughType
  <2>7. Through("lr")' = o \o (c \o q) /\ Through("lr") = o \o c
    BY <2>2 DEF Through
  <2>8. P!AllBytes(sent)' = P!AllBytes(sent)
    BY <2>3
  <2>. HIDE DEF n, o, c, x, q
  <2>9. Len(o \o (c \o q)) = Len(o \o c) + n /\ Len(o \o c) \in Nat
    <3>1. /\ c \o q \in Seq(Nat) /\ Len(c \o q) = Len(c) + Len(q)
          /\ Len(o) \in Nat /\ Len(c) \in Nat
      BY <2>4, <2>6, ConcatProperties, LenProperties
    <3>2. Len(o \o (c \o q)) = Len(o) + Len(c \o q) /\ Len(o \o c) = Len(o) + Len(c)
      BY <2>6, <3>1, ConcatProperties
    <3>. QED  BY <2>1, <2>4, <3>1, <3>2
  <2>10. Len(o \o c) + Len(wire) = Len(P!AllBytes(sent))
    BY <2>7 DEF BytesInv
  <2>11. Len(o \o (c \o q)) + Len(wire') = Len(P!AllBytes(sent))
    <3>. DEFINE l == Len(P!AllBytes(sent))
                d == Len(o \o c)
                w == Len(wire)
    <3>1. d \in Nat /\ w \in Nat /\ n \in Nat /\ d + w = l
      BY <1>0, <2>1, <2>9, <2>10
    <3>2. Len(o \o (c \o q)) = d + n /\ Len(wire') = w - n
      BY <2>5, <2>9
    <3>. HIDE DEF l, d, w
    <3>3. (d + n) + (w - n) = l
      BY <3>1
    <3>. QED  BY <3>2, <3>3 DEF l
  <2>. QED  BY <2>7, <2>8, <2>11 DEF BytesInv
<1>3. CASE Receive /\ Head(steps).ch \notin Parsed
  <2>1. Head(steps).ch # "lr" /\ Head(steps).ch \in Channel /\ UNCHANGED <<wire, sent>>
    BY <1>0, <1>3, ClientFacts, HeadIsStep DEF Receive, RecvData, At, parserVars
  <2>2. out' = out /\ content'["lr"] = content["lr"]
    <3>1. /\ RecvData /\ content \in [Channel -> Seq(Nat)] /\ "lr" \in Channel
      BY <1>0, <1>3 DEF Receive, TypeOK, Channel
    <3>2. out' = out /\ \E z : content' = [content EXCEPT ![Head(steps).ch] = z]
      BY <3>1, Zenon DEF RecvData
    <3>. QED  BY <2>1, <3>1, <3>2
  <2>. QED  BY <1>1, <2>1, <2>2 DEF Through
<1>4. CASE ParseOne \/ ParseReturns \/ ParseThrows
  <2>1. UNCHANGED <<wire, sent>>
    BY <1>4 DEF ParseOne, ParseReturns, ParseThrows, P!Handle, P!NeedMore, P!Return, P!Throw, P!clientVars
  <2>2. out' = out /\ content' = content
    BY <1>4 DEF ParseOne, ParseReturns, ParseThrows, HandlerEnds, HandlerReturns, HandlerThrows,
           vars, kernelVars, channelVars
  <2>. QED  BY <1>1, <2>1, <2>2 DEF Through
<1>5. CASE Loop /\ UNCHANGED parserVars
  <2>1. Through("lr")' = Through("lr")
    BY <1>0, <1>5, LoopKeeps DEF Through, Channel
  <2>. QED  BY <1>1, <1>5, <2>1 DEF parserVars
<1>6. CASE Environment \/ UNCHANGED proxyVars \/ (Ended /\ UNCHANGED parserVars)
  <2>1. UNCHANGED <<wire, sent, out, content>>
    BY <1>6 DEF Environment, Kernel, PeerSend, PeerRead, PeerFinish, PeerReset, Connect, Ended,
           vars, kernelVars, channelVars, proxyVars, parserVars
  <2>. QED  BY <1>1, <2>1 DEF Through
<1>7. \/ Environment \/ UNCHANGED proxyVars \/ (Ended /\ UNCHANGED parserVars)
      \/ Receive \/ ParseOne \/ ParseReturns \/ ParseThrows \/ (Loop /\ UNCHANGED parserVars)
  BY DEF ProxyNext, Process
<1>. QED  BY <1>2, <1>3, <1>4, <1>5, <1>6, <1>7
-----------------------------------------------------------------------------
(* The log. *)

\* No call of the handler is under way.
Idle == hpc = "idle"

\* What the target has as a whole the handler has received: between two calls
\* it has been logged.
LEMMA IdleLogged == TypeOK /\ P!IInv /\ BytesInv /\ Idle => LoggedBeforePassed
<1>. SUFFICES ASSUME TypeOK, P!IInv, BytesInv, hpc = "idle",
                     NEW k \in 0 .. Len(sent), PassedWhole(k)
              PROVE  IsPrefix(P!Texts(P!FirstOf(k)), logged)
  BY DEF LoggedBeforePassed, Idle
<1>. DEFINE a == PP!AllBytes(PP!FirstOf(k))
            b == PP!AllBytes(PP!After(k))
<1>1. PP!IInv /\ PP!TypeOK
  BY SameInv DEF PP!IInv
<1>2. P!FirstOf(k) = PP!FirstOf(k)
  BY DEF P!FirstOf, PP!FirstOf
<1>3. /\ a \in Seq(PP!Byte) /\ b \in Seq(PP!Byte) /\ PP!AllBytes(sent) = a \o b
      /\ wire \in Seq(PP!Byte)
  BY <1>1, Codes, PP!NextMessage DEF PP!TypeOK
<1>4. /\ Len(a) \in Nat /\ Len(b) \in Nat /\ Len(wire) \in Nat
      /\ Len(PP!AllBytes(sent)) = Len(a) + Len(b)
  BY <1>3, ConcatProperties, LenProperties
<1>5. Len(a) <= Len(out["lr"]) /\ \A j \in 1 .. k : PP!WellFormed(sent[j])
  BY <1>2, SameBytes, SameWellFormed DEF PassedWhole
<1>6. Len(Through("lr")) + Len(wire) = Len(a) + Len(b)
  BY <1>4, SameBytes DEF BytesInv
<1>7. Len(wire) <= Len(b)
  <2>. DEFINE o == Len(out["lr"])
              t == Len(Through("lr"))
              x == Len(a)
              y == Len(b)
              w == Len(wire)
  <2>1. o \in Nat /\ t \in Nat /\ o <= t /\ x \in Nat /\ y \in Nat /\ w \in Nat
    BY <1>4, ThroughType
  <2>2. x <= o /\ t + w = x + y
    BY <1>5, <1>6
  <2>. HIDE DEF o, t, x, y, w
  <2>3. w <= y
    BY <2>1, <2>2
  <2>. QED  BY <2>3 DEF w, y
<1>8. PP!IsPrefix(PP!Texts(PP!FirstOf(k)), logged)
  BY <1>1, <1>5, <1>7, Codes, PP!ReceivedIsLogged
<1>. QED  BY <1>2, <1>8, SameBytes, SamePrefix

\* The log only grows.
LEMMA LogGrows ==
  ASSUME P!TypeOK, [ProxyNext]_proxyVars
  PROVE  logged' = logged \/ \E x \in Seq(P!Byte) : logged' = Append(logged, x)
<1>1. CASE ParseOne
  <2>1. P!Handle /\ PP!TypeOK /\ PP!HasMessage
    BY <1>1, SameTypes, SameReading DEF ParseOne, P!Handle, P!TypeOK, PP!TypeOK
  <2>2. PP!Payload \in Seq(PP!Byte)
    BY <2>1, Codes, PP!MessageType
  <2>3. PP!TextOf(PP!Payload) \in Seq(PP!Byte)
    BY <2>2, Codes, PP!TextOfType
  <2>4. P!TextOf(P!Payload) \in Seq(P!Byte)
    BY <2>3, SameReading, SameTypes DEF P!TextOf, PP!TextOf
  <2>. QED  BY <2>1, <2>4 DEF P!Handle, P!Visit
<1>2. CASE Receive \/ ParseReturns \/ ParseThrows \/ UNCHANGED parserVars
  BY <1>2 DEF Receive, ParseReturns, ParseThrows, P!Recv, P!NeedMore, P!Return, P!Throw, parserVars
<1>. QED  BY <1>1, <1>2 DEF ProxyNext, Environment, Process, proxyVars

\* A step that passes nothing on to the target.
LEMMA LoggedKept ==
  ASSUME P!TypeOK, LoggedBeforePassed, [ProxyNext]_proxyVars, out'["lr"] = out["lr"], sent' = sent
  PROVE  LoggedBeforePassed'
<1>. SUFFICES ASSUME NEW k \in 0 .. Len(sent), PassedWhole(k)
              PROVE  IsPrefix(P!Texts(P!FirstOf(k)), logged')
  <2>1. \A k \in 0 .. Len(sent) : /\ PassedWhole(k)' <=> PassedWhole(k)
                                  /\ P!Texts(P!FirstOf(k))' = P!Texts(P!FirstOf(k))
    BY DEF PassedWhole, P!FirstOf
  <2>. QED  BY <2>1 DEF LoggedBeforePassed
<1>. DEFINE t == P!Texts(P!FirstOf(k))
<1>1. IsPrefix(t, logged)
  BY DEF LoggedBeforePassed
<1>2. t \in Seq(Seq(P!Byte)) /\ logged \in Seq(Seq(P!Byte))
  <2>1. PP!TypeOK
    BY SameTypes DEF P!TypeOK, PP!TypeOK
  <2>2. PP!Texts(PP!FirstOf(k)) \in Seq(Seq(PP!Byte))
    BY <2>1, Codes, PP!NextMessage
  <2>. QED  BY <2>2, SameBytes, SameTypes DEF P!FirstOf, PP!FirstOf, P!TypeOK
<1>. HIDE DEF t
<1>3. ASSUME NEW x \in Seq(P!Byte) PROVE IsPrefix(t, Append(logged, x))
  BY <1>1, <1>2, Codes, PP!PrefixFacts, SamePrefix
<1>4. IsPrefix(t, logged')
  BY <1>1, <1>3, LogGrows
<1>. QED  BY <1>4 DEF t

\* A step keeps the invariant; only while the handler is not running does it
\* pass bytes on.
LEMMA SessionKept ==
  ASSUME IInv, P!IInv, CallInv, StepsInv, BytesInv, LoggedBeforePassed,
         [ProxyNext]_proxyVars, IInv'
  PROVE  CallInv' /\ StepsInv' /\ BytesInv' /\ (LoggedBeforePassed' \/ Idle')
<1>0. P!TypeOK
  BY DEF P!IInv
<1>1. StepsInv' /\ CallInv' /\ BytesInv'
  BY <1>0, StepsKept, CallKept, BytesKept DEF IInv
<1>2. CASE SendData
  <2>1. UNCHANGED parserVars
    BY <1>2 DEF ProxyNext, Environment, Process, Receive, RecvData, ParseOne, ParseReturns,
           HandlerReturns, ParseThrows, HandlerThrows, SendData, At, proxyVars, parserVars
  <2>2. Idle'
    BY <1>2, <2>1 DEF Idle, CallInv, SendData, At, parserVars
  <2>. QED  BY <1>1, <2>2
<1>3. CASE ~ SendData
  <2>1. sent' = sent
    BY DEF ProxyNext, Environment, Process, Receive, ParseOne, ParseReturns, ParseThrows, P!Recv, P!Handle,
           P!NeedMore, P!Return, P!Throw, P!clientVars, proxyVars, parserVars
  <2>2. out' = out
    BY <1>3 DEF ProxyNext, Environment, Process, Receive, ParseOne, ParseReturns, ParseThrows, RecvData,
           HandlerEnds, HandlerReturns, HandlerThrows, Loop, EpollWait, SwapQueue, Dispatch, SkipRecv,
           RecvError, SkipSend, SendError, Close, Kernel, PeerSend, PeerRead, PeerFinish, PeerReset,
           Connect, Ended, proxyVars, vars, kernelVars
  <2>. QED  BY <1>0, <1>1, <2>1, <2>2, LoggedKept
<1>. QED  BY <1>2, <1>3

\* For a client whose length fields can be trusted, whatever the peers do, how
\* long the buffers and the messages are and however recv and send cut them:
\* the invariant of the session holds.
THEOREM ProxyInductive ==
  ASSUME P!PlainClient
  PROVE  ProxySpec => []ProxyIInv
<1>1. ProxyInit => CallInv /\ StepsInv /\ BytesInv /\ Idle
  <2>. SUFFICES ASSUME ProxyInit PROVE CallInv /\ StepsInv /\ BytesInv /\ Idle
    OBVIOUS
  <2>1. hpc = "idle" /\ steps = <<>> /\ wire = P!AllBytes(sent)
    BY DEF ProxyInit, Init, P!Init
  <2>2. out["lr"] = <<>> /\ content["lr"] = <<>>
    BY DEF ProxyInit, Init, Channel
  <2>3. Len(Through("lr")) = 0
    BY <2>2 DEF Through
  <2>4. Len(wire) \in Nat
    <3>1. PP!Init
      BY SameInit DEF ProxyInit
    <3>2. PP!TypeOK
      BY <3>1, Codes, PP!InitType
    <3>. QED  BY <3>2, LenProperties DEF PP!TypeOK
  <2>. QED  BY <2>1, <2>3, <2>4 DEF CallInv, StepsInv, BytesInv, Idle
<1>2. IInv /\ P!IInv /\ CallInv /\ StepsInv /\ BytesInv /\ LoggedBeforePassed
      /\ [ProxyNext]_proxyVars /\ IInv'
        => CallInv' /\ StepsInv' /\ BytesInv' /\ (LoggedBeforePassed' \/ Idle')
  BY SessionKept
<1>3. IInv => TypeOK
  BY DEF IInv
<1>4. IInv /\ P!IInv /\ CallInv /\ StepsInv /\ BytesInv /\ LoggedBeforePassed => ProxyIInv
  BY DEF ProxyIInv
<1>5. ProxySpec => []P!IInv
  BY HandlerFollows
<1>6. ProxySpec => []IInv
  BY ProxyParts, PTL
<1>. QED  BY <1>1, <1>2, <1>3, <1>4, <1>5, <1>6, IdleLogged, PTL DEF ProxySpec

\* For the same clients: no query passes the proxy unseen.  When the kernel has
\* taken a query as a whole for the target, psql_proxy::handler has given it to
\* the logger, in order, however the channel's reads, refusals, short sends and
\* retries fall.
THEOREM LoggedBeforePassedHolds ==
  ASSUME P!PlainClient
  PROVE  ProxySpec => []LoggedBeforePassed
<1>1. ProxyIInv => LoggedBeforePassed
  BY DEF ProxyIInv
<1>. QED  BY <1>1, ProxyInductive, PTL
=============================================================================
