------------------------------- MODULE Parser -------------------------------
(***************************************************************************)
(* psql_proxy::handler, the input handler that follows the messages in the *)
(* bytes a client sends, and psql::make_message.  recv cuts the bytes      *)
(* anywhere; the handler parses a piece in place while _buffer is empty    *)
(* and appends it to _buffer otherwise.  The parameters of startup and     *)
(* status messages are made and dropped: they are operators, not state.    *)
(***************************************************************************)
EXTENDS Endianness, SequencesExt

CONSTANTS
  Query, Terminate, ParameterStatus,  \* MESSAGE_CODE of the message types
  CHUNK_SZ,       \* the most that one recv returns
  Openings,       \* the message sequences a client may begin with
  Messages,       \* the messages it may send after that
  MaxMessages     \* bound: how many messages a client sends

StartupMessage == 0   \* its MESSAGE_CODE, also when there is no code at all

\* tag: the code, missing in the first message; len: the length field, which
\* counts itself; body: what follows.
Message == [tag : Seq(Byte), len : Nat, body : Seq(Byte)]

ASSUME CodesAssumption ==
  /\ {Query, Terminate, ParameterStatus} \subseteq Byte \ {StartupMessage}
  /\ CHUNK_SZ \in Nat /\ MaxMessages \in Nat
  /\ Messages \subseteq Message /\ Openings \subseteq Seq(Message)

VARIABLES
  sent,       \* the messages the client has sent
  wire,       \* their bytes that were not received yet
  pc,         \* "idle", or the branch of operator() that is running
  rest,       \* pos_orig .. end of the first branch
  buffer,     \* _buffer
  first,      \* _first_msg_handled
  logged,     \* the texts given to the message_logger
  ended,      \* an error event was enqueued for the client
  thrown      \* a call of the handler has thrown

clientVars  == <<sent, wire>>
handlerVars == <<pc, rest, buffer, first>>
vars        == <<clientVars, handlerVars, logged, ended, thrown>>

\* The bytes of a message and of a sequence of messages.
Bytes(m)     == m.tag \o Encode(m.len) \o m.body
AllBytes(ms) == FlattenSeq([k \in DOMAIN ms |-> Bytes(ms[k])])

Init ==
  /\ sent \in Openings /\ wire = AllBytes(sent)
  /\ pc = "idle" /\ rest = <<>> /\ buffer = <<>> /\ first = FALSE
  /\ logged = <<>> /\ ended = FALSE /\ thrown = FALSE

Send(m) ==
  /\ Len(sent) < MaxMessages
  /\ sent' = Append(sent, m) /\ wire' = wire \o Bytes(m)
  /\ UNCHANGED <<handlerVars, logged, ended, thrown>>
-----------------------------------------------------------------------------
Received(n) == SubSeq(wire, 1, n)

\* Mutant: every piece is parsed on its own.
RecvInPlace(n) ==
  /\ pc = "idle" /\ n <= Len(wire)
  /\ wire' = SubSeq(wire, n + 1, Len(wire))
  /\ pc' = "direct" /\ rest' = Received(n)
  /\ UNCHANGED <<sent, buffer, first, logged, ended, thrown>>

\* The channel calls the handler with the n bytes that recv returned; 0 stands
\* for EAGAIN, which is also a success.
Recv(n) ==
  /\ pc = "idle" /\ n <= Len(wire)
  /\ wire' = SubSeq(wire, n + 1, Len(wire))
  /\ \/ buffer = <<>> /\ pc' = "direct" /\ rest' = Received(n) /\ UNCHANGED buffer
     \/ buffer # <<>> /\ pc' = "buffered" /\ buffer' = buffer \o Received(n) /\ UNCHANGED rest
  /\ UNCHANGED <<sent, first, logged, ended, thrown>>

\* The bytes the running branch is looking at, and what it reads in them.
Input   == IF pc = "direct" THEN rest ELSE buffer
CodeLen == IF first THEN 1 ELSE 0
MsgCode == IF first THEN Input[1] ELSE StartupMessage

LengthField   == SubSeq(Input, CodeLen + 1, CodeLen + 4)
ByteOrder     == CheckEndianness(LengthField)
Length        == DecodeUint32(LengthField, ByteOrder)
HasMessage    == /\ Len(Input) - CodeLen >= 4
                 /\ Length >= 4
                 /\ Len(Input) - CodeLen >= Length
Payload       == SubSeq(Input, CodeLen + 5, CodeLen + Length)
AfterMessage  == SubSeq(Input, CodeLen + Length + 1, Len(Input))

\* The loop over parameters: a zero ends a name, or the value that goes with it.
AfterByte(acc, b) ==
  IF b # 0 THEN [acc EXCEPT !.text = Append(@, b)]
  ELSE IF acc.name = <<>> THEN [acc EXCEPT !.text = <<>>, !.name = <<acc.text>>]
  ELSE [text |-> <<>>, name |-> <<>>, made |-> Append(acc.made, <<acc.name[1], acc.text>>)]
Parameters(bytes) ==
  LET after[n \in 0 .. Len(bytes)] ==
        IF n = 0 THEN [text |-> <<>>, name |-> <<>>, made |-> <<>>]
                 ELSE AfterByte(after[n - 1], bytes[n])
  IN  after[Len(bytes)].made

\* make_startup_msg: params_end is payload_len bytes after params_beg, which
\* lies behind the version, so the loop goes 4 bytes too far: beyond the
\* payload it reads what comes after it in memory.
VersionOf(payload) == << DecodeUint16(SubSeq(payload, 1, 2), ByteOrder),
                         DecodeUint16(SubSeq(payload, 3, 4), ByteOrder) >>
StartupParametersAll(payload, memory) ==   \* mutant: the version is not stepped over
  Parameters(payload \o memory)
StartupParameters(payload, memory) ==
  Parameters(SubSeq(payload, 5, Len(payload)) \o SubSeq(memory, 1, 4))

\* make_param_status_msg
StatusParameters(payload) == Parameters(payload)

\* make_startup_msg throws on a payload without a version; make_query_msg
\* takes one off a length of 0 and asks for a string of that size.
BadStartup(payload) == Len(payload) < 4
BadQuery(payload)   == payload = <<>>

\* make_message; no other type has a constructor that can throw.
Throws(code, payload) == \/ code = StartupMessage /\ BadStartup(payload)
                         \/ code = Query /\ BadQuery(payload)

\* make_query_msg drops the terminating zero.
TextOf(payload) == SubSeq(payload, 1, Len(payload) - 1)

\* PSQL_Message_Visitor; every other type is printed or ignored.
Visit(code, payload) ==
  /\ logged' = IF code = Query THEN Append(logged, TextOf(payload)) ELSE logged
  /\ ended'  = (ended \/ code = Terminate)

Handle ==
  /\ pc # "idle" /\ Input # <<>> /\ HasMessage /\ ~Throws(MsgCode, Payload)
  /\ Visit(MsgCode, Payload)
  /\ first' = TRUE
  /\ rest'   = IF pc = "direct" THEN AfterMessage ELSE rest
  /\ buffer' = IF pc = "direct" THEN buffer ELSE AfterMessage
  /\ UNCHANGED <<clientVars, pc, thrown>>

\* Mutant: the code that was already stepped over is not kept.
SavedAfterCode == SubSeq(Input, CodeLen + 1, Len(Input))
Saved == Input

\* Not a whole message, or a length that cannot be one: keep it for later.
NeedMore ==
  /\ pc # "idle" /\ Input # <<>> /\ ~HasMessage
  /\ buffer' = Saved
  /\ rest' = <<>> /\ pc' = "idle"
  /\ UNCHANGED <<clientVars, first, logged, ended, thrown>>

\* The bus catches the exception: the rest of a piece parsed in place is gone,
\* a message in _buffer stays in front of what follows.
Throw ==
  /\ pc # "idle" /\ Input # <<>> /\ HasMessage /\ Throws(MsgCode, Payload)
  /\ thrown' = TRUE
  /\ rest' = <<>> /\ pc' = "idle"
  /\ UNCHANGED <<clientVars, buffer, first, logged, ended>>

Return ==
  /\ pc # "idle" /\ Input = <<>>
  /\ pc' = "idle"
  /\ UNCHANGED <<clientVars, rest, buffer, first, logged, ended, thrown>>

Next == \/ \E m \in Messages : Send(m)
        \/ \E n \in 0 .. CHUNK_SZ : Recv(n)
        \/ Handle \/ NeedMore \/ Throw \/ Return

Spec == Init /\ [][Next]_vars
-----------------------------------------------------------------------------
(* Properties. *)

\* The types, and: only one of the two branches has bytes to look at.
TypeOK ==
  /\ sent \in Seq(Message) /\ wire \in Seq(Byte)
  /\ pc \in {"idle", "direct", "buffered"}
  /\ rest \in Seq(Byte) /\ buffer \in Seq(Byte)
  /\ logged \in Seq(Seq(Byte))
  /\ first \in BOOLEAN /\ ended \in BOOLEAN /\ thrown \in BOOLEAN
  /\ rest # <<>> => pc = "direct" /\ buffer = <<>>

\* What the client means: the text of a query, and whether a message is one
\* that the protocol allows.
WellFormed(m) == /\ m.len = Len(m.body) + 4
                 /\ m.tag = <<>> => Len(m.body) >= 4
                 /\ m.tag = <<Query>> => m.body # <<>>
TextsOf(m) == IF m.tag = <<Query>> THEN <<TextOf(m.body)>> ELSE <<>>
Texts(ms)  == FlattenSeq([k \in DOMAIN ms |-> TextsOf(ms[k])])
FirstOf(k) == SubSeq(sent, 1, k)

\* How many messages have been received as a whole, and how many of them come
\* before the first that is not well formed.
Arrived == LET left(k) == Len(AllBytes(SubSeq(sent, k + 1, Len(sent))))
           IN  Max({k \in 0 .. Len(sent) : left(k) >= Len(wire)})
Leading == Max({k \in 0 .. Arrived : \A j \in 1 .. k : WellFormed(sent[j])})

\* However recv cuts the stream, between two calls of the handler exactly the
\* queries of the messages received as a whole have been logged, each once and
\* in order, and the session is ended if one of them was Terminate; what comes
\* before a message that is not well formed is logged in any case.
ParsedAsSent ==
  pc = "idle" =>
    IF Leading = Arrived
      THEN /\ logged = Texts(FirstOf(Arrived)) /\ ~thrown
           /\ ended <=> \E k \in 1 .. Arrived : sent[k].tag = <<Terminate>>
      ELSE IsPrefix(Texts(FirstOf(Leading)), logged)

\* As long as no call has thrown, _buffer is what has been received after the
\* last message handled: no byte is skipped, kept twice or parsed again.
RestKept ==
  pc = "idle" /\ ~thrown => AllBytes(FirstOf(Leading)) \o buffer \o wire = AllBytes(sent)

\* The clients of which the two properties above are proved: only the first
\* message has no code, and a length field is right and below 2^16, or too
\* small to be one.
Allowed(m, k) ==
  /\ \/ m.len < 4
     \/ m.len = Len(m.body) + 4 /\ m.len < Square
  /\ IF k = 1 THEN m.tag = <<>>
              ELSE \E code \in Byte \ {StartupMessage} : m.tag = <<code>>
PlainClient ==
  /\ \A o \in Openings : o # <<>> /\ \A k \in DOMAIN o : Allowed(o[k], k)
  /\ \A m \in Messages : Allowed(m, 2)

\* The inductive invariant for such a client.  The handler has followed it
\* through the first h messages, what it keeps is the beginning of the others,
\* and it does not go back to waiting with a whole message in hand ...
After(h) == SubSeq(sent, h + 1, Len(sent))
Followed(h) ==
  /\ Input \o wire = AllBytes(After(h))
  /\ \A k \in 1 .. h : WellFormed(sent[k])
  /\ first <=> h > 0
  /\ logged = Texts(FirstOf(h)) /\ ~thrown
  /\ ended <=> \E k \in 1 .. h : sent[k].tag = <<Terminate>>
  /\ pc = "direct" => buffer = <<>>
  /\ pc = "idle" /\ h < Len(sent) /\ WellFormed(sent[h + 1])
       => Len(buffer) < Len(Bytes(sent[h + 1]))

\* ... or it has thrown on the message after those, which had arrived.
GivenUp(h) ==
  /\ h < Len(sent) /\ ~WellFormed(sent[h + 1]) /\ thrown
  /\ Len(wire) <= Len(AllBytes(After(h + 1)))
  /\ IsPrefix(Texts(FirstOf(h)), logged)

SentAllowed == sent # <<>> /\ \A k \in DOMAIN sent : Allowed(sent[k], k)
FollowInv   == \E h \in 0 .. Len(sent) : Followed(h) \/ GivenUp(h)
IInv        == TypeOK /\ SentAllowed /\ FollowInv

\* How many zeros the first p bytes hold, where the k-th of them is, the string
\* that it ends, and the settings that such strings, a name and a value in
\* turn, stand for.
ZerosIn(b, p)  == Cardinality({q \in 1 .. p : b[q] = 0})
ZeroAt(b, k)   == CHOOSE p \in 0 .. Len(b) : (p = 0 \/ b[p] = 0) /\ ZerosIn(b, p) = k
StringAt(b, k) == SubSeq(b, ZeroAt(b, k - 1) + 1, ZeroAt(b, k) - 1)
Settings(b) == [k \in 1 .. ZerosIn(b, Len(b)) \div 2 |-> <<StringAt(b, 2 * k - 1), StringAt(b, 2 * k)>>]

\* The handler is about to make a message of the k-th one sent.
Making(k) == /\ pc # "idle" /\ Input # <<>> /\ HasMessage
             /\ \A j \in 1 .. k : WellFormed(sent[j])
             /\ Len(Input) + Len(wire) = Len(AllBytes(SubSeq(sent, k, Len(sent))))

\* Memory behind the message: what has been received, then anything.
Memories == {AfterMessage \o pad : pad \in [1 .. 4 -> {0, Base - 1}]}

\* However the message was cut, and whatever lies behind it in memory, the
\* version of a startup message is read as the client wrote it and its settings
\* come first among the parameters; reading 4 bytes too many ends at most five
\* strings more, the last byte's included.  The parameters of a status message
\* are those sent.
SettingsKept ==
  \A k \in DOMAIN sent : Making(k) =>
    LET body == sent[k].body
    IN  /\ sent[k].tag = <<ParameterStatus>> => StatusParameters(Payload) = Settings(body)
        /\ k = 1 =>
             /\ VersionOf(Payload) = <<body[1] * Base + body[2], body[3] * Base + body[4]>>
             /\ \A memory \in Memories :
                  LET made == StartupParameters(Payload, memory)
                      said == SubSeq(body, 5, Len(body) - 1)
                  IN  /\ IsPrefix(Settings(said), made)
                      /\ Len(made) <= (ZerosIn(said, Len(said)) + 5) \div 2

\* What it needs of the handler besides IInv: a piece is parsed in place only
\* while _buffer is empty, and after a throw there is less left than the
\* messages from the malformed one on.
Unread  == Len(Input) + Len(wire)
InPlace == pc = "direct" => buffer = <<>>
Astray  == thrown => \E h \in 0 .. Len(sent) : /\ h < Len(sent) /\ ~WellFormed(sent[h + 1])
                                              /\ Unread <= Len(AllBytes(After(h)))
=============================================================================
