-------------------------------- MODULE Relay --------------------------------
(***************************************************************************)
(* One session of a server: its sockets, the io::channels between them and *)
(* the part of the io::bus loop that dispatches their events.  The peers   *)
(* and the kernel (stream sockets, edge-triggered epoll) are modelled by   *)
(* how the code uses them.                                                 *)
(*                                                                         *)
(* A wiring gives the two channels of a session their left and right side  *)
(* and input handler: tcp_proxy and psql_proxy have channels client ->     *)
(* target and target -> client, psql_proxy with a handler in the first,    *)
(* echo has two channels client -> client.  It also says how the peers of  *)
(* the session behave.                                                     *)
(*                                                                         *)
(* A channel's buffer is given by its indices; its content is the sequence *)
(* of byte numbers in it, in the order the buffer keeps (BipartiteBuffer). *)
(* No action interleaves with the calls of one buffer method, so the       *)
(* _wrapped flags are functions of the indices.                            *)
(***************************************************************************)
EXTENDS BufferIndex, Sequences, FiniteSets

CONSTANTS Fd,             \* file descriptors
          Wirings,        \* the sessions that may be made (see Wiring)
          CHUNK_SZ,       \* BUFF_SZ = 2 * CHUNK_SZ
          Room,           \* what the kernel takes before the peer must read
          Traffic,        \* bound: the bytes the peer of each fd sends
          MaxEqual,       \* bound: how many equal events bus::_events holds
          Bursts          \* per fd, how many bytes its peer sends or reads at once

Channel == {"lr", "rl"}

ASSUME ChunkAssumption == CHUNK_SZ \in Nat /\ Size = 2 * CHUNK_SZ
\* _left and _right of each channel; the channels with a psql_proxy::handler
\* (see Parser); whether the peers await delivery before the next burst, and
\* whether they may reset their connections.
Wiring == [left : [Channel -> Fd], right : [Channel -> Fd], parsed : SUBSET Channel,
           polite : BOOLEAN, resets : BOOLEAN]

ASSUME WiringAssumption == Wirings \subseteq Wiring
ASSUME TrafficAssumption ==
  /\ MaxEqual \in Nat \ {0}
  /\ Room \in Nat \ {0} /\ Traffic \in [Fd -> Nat] /\ Bursts \in [Fd -> SUBSET (Nat \ {0})]

VARIABLES
  wiring,    \* how this session is wired
  sock,      \* per fd, the kernel's side of it (see Socket)
  given,     \* per fd, how many bytes its peer has sent
  out,       \* per channel, the numbers of the bytes the kernel has taken from it
  buf,       \* per channel, the indices of _buffer
  content,   \* per channel, the bytes in _buffer
  phase,     \* which half of bus::wait_events runs: "epoll" or "queue"
  events,    \* the rest of the events that half goes through
  queue,     \* bus::_events
  steps,     \* what is left of the callbacks of the event being dispatched
  open,      \* the session's callbacks are in _callback_map
  killed     \* SIGPIPE has ended the process

kernelVars  == <<sock, given, out>>
channelVars == <<buf, content>>
busVars     == <<phase, events, queue, steps>>
vars        == <<wiring, kernelVars, channelVars, busVars, open, killed>>

Left  == wiring.left
Right == wiring.right
Parsed == wiring.parsed
SessionFds == {Left[c] : c \in Channel} \cup {Right[c] : c \in Channel}

\* inq: unread bytes; eof: the peer has finished; err: the pending error of a
\* reset connection, "raised" until a call reports it; up: connected; room:
\* free send space; nospace: a send fell short; edge: in epoll's ready list.
Socket == [inq : Nat, eof : BOOLEAN, err : {"none", "raised", "reported"},
           up : BOOLEAN, room : 0 .. Room, nospace : BOOLEAN, edge : BOOLEAN]

\* The client was accepted and is writable, the target's connect() is under way.
NewSocket(f) == [inq |-> 0, eof |-> FALSE, err |-> "none", up |-> f = "client",
                 room |-> IF f = "client" THEN Room ELSE 0,
                 nospace |-> FALSE, edge |-> f = "client"]

Init ==
  /\ wiring \in Wirings
  /\ sock = [f \in Fd |-> NewSocket(f)]
  /\ given = [f \in Fd |-> 0] /\ out = [c \in Channel |-> <<>>]
  /\ buf = [c \in Channel |-> [r |-> 0, w |-> 0, i |-> 0]]
  /\ content = [c \in Channel |-> <<>>]
  /\ phase = "queue" /\ events = <<>> /\ queue = <<>> /\ steps = <<>>
  /\ open = TRUE /\ killed = FALSE
-----------------------------------------------------------------------------
(* The peers and the kernel. *)

Running == open /\ ~killed

Healthy(f) == Running /\ sock[f].up /\ sock[f].err = "none"

\* Every byte the peer of f has sent has been passed on.
Delivered(f) == sock[f].inq = 0 /\ \A c \in Channel : Left[c] = f => content[c] = <<>>

LeastOf(m, n) == IF m <= n THEN m ELSE n

PeerSend(f, n) ==
  /\ Healthy(f) /\ ~sock[f].eof
  /\ given[f] + n <= Traffic[f]
  /\ wiring.polite => Delivered(f)
  /\ given' = [given EXCEPT ![f] = @ + n]
  /\ sock' = [sock EXCEPT ![f].inq = @ + n, ![f].edge = TRUE]
  /\ UNCHANGED <<out, channelVars, busVars, open, killed>>

PeerFinish(f) ==
  /\ Healthy(f) /\ ~sock[f].eof
  /\ wiring.polite => Delivered(f)
  /\ sock' = [sock EXCEPT ![f].eof = TRUE, ![f].edge = TRUE]
  /\ UNCHANGED <<given, out, channelVars, busVars, open, killed>>

PeerReset(f) ==
  /\ wiring.resets /\ Running /\ sock[f].err = "none"
  /\ sock' = [sock EXCEPT ![f].err = "raised", ![f].edge = TRUE]
  /\ UNCHANGED <<given, out, channelVars, busVars, open, killed>>

\* Space that a send has found missing wakes epoll when it is there again.
PeerRead(f, n) ==
  /\ Healthy(f) /\ sock[f].room < Room
  /\ sock' = [sock EXCEPT ![f].room = LeastOf(Room, @ + n),
                          ![f].nospace = FALSE,
                          ![f].edge = @ \/ sock[f].nospace]
  /\ UNCHANGED <<given, out, channelVars, busVars, open, killed>>

Connect(f) ==
  /\ Running /\ ~sock[f].up /\ sock[f].err = "none"
  /\ sock' = [sock EXCEPT ![f].up = TRUE, ![f].room = Room, ![f].edge = TRUE]
  /\ UNCHANGED <<given, out, channelVars, busVars, open, killed>>

Kernel == \E f \in SessionFds : \/ \E n \in Bursts[f] : PeerSend(f, n) \/ PeerRead(f, n)
                                \/ PeerFinish(f) \/ PeerReset(f) \/ Connect(f)
-----------------------------------------------------------------------------
(* The event loop: bus::wait_events. *)

\* A value of io::flags is a set of these.
Flag == {"in", "out", "error"}
Test(mask, flag) == flag \in mask

\* Mutant: EPOLLERR and EPOLLHUP are not translated.
ReadinessNoError(f) ==
  {m \in {"in", "out"} : \/ sock[f].err # "none"
                         \/ m = "in" /\ (sock[f].inq > 0 \/ sock[f].eof)
                         \/ m = "out" /\ sock[f].room > 0}

\* What epoll reports for f, as epoll_mask_to_io_flags translates it.
Readiness(f) ==
  {m \in Flag :
     \/ sock[f].err # "none"
     \/ m = "in" /\ (sock[f].inq > 0 \/ sock[f].eof)
     \/ m = "out" /\ sock[f].room > 0}

\* epoll_wait returns every descriptor of the ready list, oldest first.
EpollWait ==
  /\ ~killed /\ phase = "queue" /\ events = <<>> /\ steps = <<>>
  /\ LET ready == {f \in SessionFds : open /\ sock[f].edge /\ Readiness(f) # {}}
     IN  \E order \in [1 .. Cardinality(ready) -> ready] :
           /\ {order[k] : k \in DOMAIN order} = ready
           /\ events' = [k \in DOMAIN order |-> [fd |-> order[k], mask |-> Readiness(order[k])]]
  /\ sock' = [f \in Fd |-> [sock[f] EXCEPT !.edge = FALSE]]
  /\ phase' = "epoll"
  /\ UNCHANGED <<given, out, channelVars, queue, steps, open, killed>>

\* std::swap(_events, events)
SwapQueue ==
  /\ ~killed /\ phase = "epoll" /\ events = <<>> /\ steps = <<>>
  /\ events' = queue /\ queue' = <<>>
  /\ phase' = "queue"
  /\ UNCHANGED <<kernelVars, channelVars, steps, open, killed>>

\* The callbacks of a session, in the order its constructor and start()
\* register them, and what each does with an event on descriptor f: a left
\* handler reads, has the input handlers look at what it read, and writes; a
\* right handler writes, the session closes.
Step(op, c, f) == [op |-> op, ch |-> c, fd |-> f]
LeftSteps(c, f, mask)  ==
  IF Left[c] = f /\ Test(mask, "in")
    THEN <<Step("recv", c, f)>> \o
         (IF c \in Parsed THEN <<Step("handle", c, f)>> ELSE <<>>) \o
         <<Step("send", c, f)>>
    ELSE <<>>
RightStepsOnIn(c, f, mask) == IF Right[c] = f /\ Test(mask, "in")   \* mutant: wrong flag
                                THEN <<Step("send", c, f)>> ELSE <<>>
RightSteps(c, f, mask) == IF Right[c] = f /\ Test(mask, "out")
                            THEN <<Step("send", c, f)>> ELSE <<>>
SessionSteps(f, mask)  == IF Test(mask, "error") THEN <<Step("close", "lr", f)>> ELSE <<>>

Callbacks(f, mask) ==
  LeftSteps("lr", f, mask) \o RightSteps("lr", f, mask) \o
  LeftSteps("rl", f, mask) \o RightSteps("rl", f, mask) \o SessionSteps(f, mask)

\* The dispatcher looks the descriptor up in _callback_map.
Dispatch ==
  /\ ~killed /\ events # <<>> /\ steps = <<>>
  /\ events' = Tail(events)
  /\ steps' = IF open THEN Callbacks(Head(events).fd, Head(events).mask) ELSE <<>>
  /\ UNCHANGED <<kernelVars, channelVars, phase, queue, open, killed>>

\* bus::_enqueue_event.  An event that waits MaxEqual times already is not
\* added: in an echo session with a client that does not read, each out event
\* is followed by one from either channel, and their number has no bound.
Enqueue(f, flag) ==
  LET event == [fd |-> f, mask |-> {flag}]
      equal == {k \in DOMAIN queue : queue[k] = event}
  IN  queue' = IF Cardinality(equal) < MaxEqual THEN Append(queue, event) ELSE queue
-----------------------------------------------------------------------------
(* The handlers of io::channel and the session. *)

At(op) == ~killed /\ steps # <<>> /\ Head(steps).op = op

\* Mutant: the invalidation index is not stored.
WriteReleaseNoI(b, n) ==
  [b EXCEPT !.w = NewW(n, b.w, FitsAtStart(CHUNK_SZ, b.w, b.r))]

WriteRelease(b, n) ==
  LET wrapped == FitsAtStart(CHUNK_SZ, b.w, b.r)
  IN  [b EXCEPT !.w = NewW(n, b.w, wrapped), !.i = NewI(n, b.w, b.i, wrapped)]

ReadRelease(b, n) ==
  [b EXCEPT !.r = NewR(n, b.r, ReadsAtStart(b.r, b.w, b.i))]

\* What is left to do when nothing was read: the channel's input handlers are
\* not called, or called with an error, which they ignore.
NothingToHandle ==
  IF Head(steps).ch \in Parsed THEN SubSeq(steps, 3, Len(steps)) ELSE Tail(steps)

\* _handle_left_io_event: write_acquire failed, nothing is read.
SkipRecv ==
  /\ At("recv")
  /\ LET b == buf[Head(steps).ch] IN Refused(CHUNK_SZ, b.w, b.r)
  /\ steps' = NothingToHandle
  /\ UNCHANGED <<kernelVars, channelVars, phase, events, queue, open, killed>>

\* When data was read, the input handlers look at it before it is sent.
AfterRecvSendFirst ==   \* mutant: the handlers come last
  IF Head(steps).ch \in Parsed
    THEN <<steps[3], steps[2]>> \o SubSeq(steps, 4, Len(steps)) ELSE Tail(steps)
AfterRecv == Tail(steps)

\* recv returned n bytes, or EAGAIN counted as a success of 0 bytes.
RecvData ==
  /\ At("recv")
  /\ LET c == Head(steps).ch
         f == Left[c]
         n == LeastOf(CHUNK_SZ, sock[f].inq)
         seen == given[f] - sock[f].inq
     IN  /\ ~Refused(CHUNK_SZ, buf[c].w, buf[c].r)
         /\ n > 0 \/ (sock[f].err = "none" /\ ~sock[f].eof)
         /\ sock' = [sock EXCEPT ![f].inq = @ - n]
         /\ buf' = [buf EXCEPT ![c] = WriteRelease(@, n)]
         /\ content' = [content EXCEPT ![c] = @ \o [k \in 1 .. n |-> seen + k]]
  /\ steps' = AfterRecv
  /\ UNCHANGED <<given, out, phase, events, queue, open, killed>>

NoForcedError == UNCHANGED queue   \* mutant: the end of the stream is only printed
ForceError == Enqueue(Head(steps).fd, "error")

\* recv returned 0 or an error: the error handler call is forced.
RecvError ==
  /\ At("recv")
  /\ LET c == Head(steps).ch
         f == Left[c]
     IN  /\ ~Refused(CHUNK_SZ, buf[c].w, buf[c].r)
         /\ sock[f].inq = 0 /\ (sock[f].err # "none" \/ sock[f].eof)
         /\ sock' = [sock EXCEPT ![f].err = IF @ = "raised" THEN "reported" ELSE @]
         /\ ForceError
  /\ steps' = NothingToHandle
  /\ UNCHANGED <<given, out, channelVars, phase, events, open, killed>>

\* A psql_proxy::handler that finds Terminate enqueues an error event for the
\* client's descriptor.
EndSessionOut == Enqueue("client", "out")   \* mutant: wrong flag
EndSession == Enqueue("client", "error")
HandlerEnds ==
  /\ At("handle")
  /\ EndSession
  /\ UNCHANGED <<kernelVars, channelVars, phase, events, steps, open, killed>>

HandlerReturns ==
  /\ At("handle")
  /\ steps' = Tail(steps)
  /\ UNCHANGED <<kernelVars, channelVars, phase, events, queue, open, killed>>

\* The bus catches the exception: the rest of this callback, its send, is skipped.
HandlerThrows ==
  /\ At("handle")
  /\ steps' = SubSeq(steps, 3, Len(steps))
  /\ UNCHANGED <<kernelVars, channelVars, phase, events, queue, open, killed>>

Handlers == HandlerEnds \/ HandlerReturns \/ HandlerThrows

Region(c) == ReadLen(buf[c].r, buf[c].w, buf[c].i)

\* read_acquire found nothing.
SkipSend ==
  /\ At("send")
  /\ Region(Head(steps).ch) = 0
  /\ steps' = Tail(steps)
  /\ UNCHANGED <<kernelVars, channelVars, phase, events, queue, open, killed>>

\* What is left of channel c's bytes when n of them were sent.
AfterSendAll(c, n) == SubSeq(content[c], Region(c) + 1, Len(content[c]))   \* mutant
AfterSend(c, n) == SubSeq(content[c], n + 1, Len(content[c]))

\* send took n bytes, or EAGAIN counted as a success of 0 bytes; when that is
\* less than the region, an out event for the descriptor whose event is being
\* handled is enqueued.
SendData ==
  /\ At("send")
  /\ LET c == Head(steps).ch
         f == Right[c]
         n == LeastOf(Region(c), sock[f].room)
     IN  /\ Region(c) > 0
         /\ sock[f].err = "none"
         /\ sock' = [sock EXCEPT ![f].room = @ - n, ![f].nospace = @ \/ n < Region(c)]
         /\ out' = [out EXCEPT ![c] = @ \o SubSeq(content[c], 1, n)]
         /\ buf' = [buf EXCEPT ![c] = ReadRelease(@, n)]
         /\ content' = [content EXCEPT ![c] = AfterSend(c, n)]
         /\ IF n < Region(c) THEN Enqueue(Head(steps).fd, "out") ELSE UNCHANGED queue
  /\ steps' = Tail(steps)
  /\ UNCHANGED <<given, phase, events, open, killed>>

\* send on a reset connection: the pending error is returned and only printed;
\* once it is reported, or when the peer had finished before, it is EPIPE,
\* for which the kernel also raises SIGPIPE.
SendError ==
  /\ At("send")
  /\ LET f == Right[Head(steps).ch]
     IN  /\ Region(Head(steps).ch) > 0
         /\ sock[f].err # "none"
         /\ sock' = [sock EXCEPT ![f].err = "reported"]
         /\ killed' = (sock[f].err = "reported" \/ sock[f].eof)
  /\ steps' = Tail(steps)
  /\ UNCHANGED <<given, out, channelVars, phase, events, queue, open>>

\* session_base's callback marks both descriptors; after the callbacks of the
\* event the dispatcher erases them, which destroys the session, its channels
\* and its sockets.
Close ==
  /\ At("close")
  /\ open' = FALSE
  /\ steps' = Tail(steps)
  /\ UNCHANGED <<kernelVars, channelVars, phase, events, queue, killed>>

\* The steps that do not concern an input handler, and all.
Loop == \/ EpollWait \/ SwapQueue \/ Dispatch
        \/ SkipRecv \/ RecvError
        \/ SkipSend \/ SendData \/ SendError \/ Close
Reactor == Loop \/ RecvData \/ Handlers
-----------------------------------------------------------------------------
Ended == killed /\ UNCHANGED vars

Next == (Kernel \/ Reactor \/ Ended) /\ UNCHANGED wiring

\* The loop runs as long as the process lives; peers read what they are sent
\* and the connection to the target is made, unless it is reset.
Fairness == /\ WF_vars(Reactor /\ UNCHANGED wiring)
            /\ \A f \in Fd :
                 WF_vars(/\ f \in SessionFds /\ UNCHANGED wiring
                         /\ Connect(f) \/ \E n \in Bursts[f] : PeerRead(f, n))

Spec == Init /\ [][Next]_vars /\ Fairness
-----------------------------------------------------------------------------
(* Properties. *)

TypeOK ==
  /\ wiring \in Wirings
  /\ sock \in [Fd -> Socket]
  /\ given \in [Fd -> Nat]
  /\ out \in [Channel -> Seq(Nat)]
  /\ buf \in [Channel -> [r : Index, w : Index, i : Bound]]
  /\ content \in [Channel -> Seq(Nat)]
  /\ phase \in {"epoll", "queue"}
  /\ \A k \in DOMAIN events : events[k].mask \in (SUBSET Flag) \ {{}}
  /\ \A k \in DOMAIN queue : queue[k].mask \in (SUBSET Flag) \ {{}}
  /\ open \in BOOLEAN /\ killed \in BOOLEAN

\* What has gone through channel c, oldest first, what it still holds included.
Through(c) == out[c] \o content[c]
Taken(f)   == given[f] - sock[f].inq
TimesSeen(f, n) == Cardinality({p \in Channel \X (1 .. Taken(f)) :
                      /\ Left[p[1]] = f
                      /\ p[2] <= Len(Through(p[1])) /\ Through(p[1])[p[2]] = n})

\* Each channel passes its bytes on in the order they were sent, and every byte
\* read from a socket goes through exactly one of the channels that read it,
\* once: no short send, refused read, error or throwing handler loses, repeats
\* or reorders a byte, nor do the two channels of an echo session, which take
\* turns at one socket.
PassedInOrder ==
  /\ \A c \in Channel : \A k \in 2 .. Len(Through(c)) : Through(c)[k - 1] < Through(c)[k]
  /\ \A f \in Fd : \A n \in 1 .. Taken(f) : TimesSeen(f, n) = 1

\* The indices account for exactly the bytes held.
IndicesMatchContent ==
  \A c \in Channel : Used(buf[c].r, buf[c].w, buf[c].i) = Len(content[c])

\* A reset of either connection ends the session, whatever else is going on.
ResetCloses == (\E f \in Fd : sock[f].err # "none") ~> (~open \/ killed)

\* What a polite peer sends, no more than recv takes at once, reaches the other
\* one, although a send may fall short and only the kernel asks for the rest.
EventuallyDelivered ==
  \A f \in Fd : (wiring.polite /\ ~Delivered(f)) ~> (Delivered(f) \/ ~open \/ killed)

\* "connection closed - force error handler call to close the session": when a
\* polite peer has finished, its session is closed.
FinishCloses == wiring.polite /\ (\E f \in Fd : sock[f].eof) ~> (~open \/ killed)
-----------------------------------------------------------------------------
(* The inductive invariant behind the safety properties (RelayProofs). *)

EventOf == [fd : Fd \cup {"client"}, mask : (SUBSET Flag) \ {{}}]
StepOf  == [op : {"recv", "handle", "send", "close"}, ch : Channel,
            fd : Fd \cup {"client"}]

\* What the bus has to go through.
BusInv == events \in Seq(EventOf) /\ queue \in Seq(EventOf) /\ steps \in Seq(StepOf)

\* The indices of a buffer as BipartiteBuffer keeps them.
IndexInv == \A c \in Channel : LET b == buf[c] IN b.w <= b.i /\ (b.r > b.w => b.r <= b.i)

\* The k-th byte of a channel is the k-th of its socket or a later one, and
\* none is one that was not read yet.
CountInv ==
  /\ \A f \in Fd : sock[f].inq <= given[f]
  /\ \A c \in Channel :
       LET t == Through(c)
       IN  /\ Len(t) <= Taken(Left[c])
           /\ \A k \in 1 .. Len(t) : k <= t[k] /\ t[k] <= Taken(Left[c])

Increasing == \A c \in Channel : \A k \in 2 .. Len(Through(c)) : Through(c)[k - 1] < Through(c)[k]

\* Byte n of f is the k-th one of channel c.
IsAt(f, n, c, k) == Left[c] = f /\ k \in DOMAIN Through(c) /\ Through(c)[k] = n

SeenOnce ==
  \A f \in Fd : \A n \in 1 .. Taken(f) :
    \E c \in Channel : \E k \in DOMAIN Through(c) :
      /\ IsAt(f, n, c, k)
      /\ \A d \in Channel : \A j \in DOMAIN Through(d) :
           IsAt(f, n, d, j) => d = c /\ j = k

IInv == TypeOK /\ BusInv /\ IndexInv /\ IndicesMatchContent /\ CountInv /\ Increasing /\ SeenOnce
-----------------------------------------------------------------------------
(* Statements about the program that its code does not make true. *)

\* Nothing will happen until a peer does something.
Quiet == /\ Running /\ phase = "queue"
         /\ events = <<>> /\ queue = <<>> /\ steps = <<>>
         /\ \A f \in Fd : ~sock[f].edge

\* "It reads data from io::input_object": no channel rests before unread data.
QuietMeansRead == Quiet => \A f \in Fd : sock[f].inq = 0

\* The service survives the end of a connection.
NotKilled == ~killed
=============================================================================
