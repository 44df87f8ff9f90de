------------------------------- MODULE Reactor -------------------------------
(***************************************************************************)
(* The io::bus with its epoll, the acceptor, and the sessions that come    *)
(* and go: which descriptors are registered where, who owns them, and what *)
(* happens to events of a descriptor that is closed and given out again.   *)
(* One action dispatches one event through all of its callbacks; what a    *)
(* channel does with the bytes is Relay's subject and left out here, so    *)
(* are the out events, which change nothing below.                         *)
(*                                                                         *)
(* Every event carries, as a history, the session its descriptor belonged  *)
(* to when the event arose.                                                *)
(***************************************************************************)
EXTENDS Naturals, Sequences, FiniteSets

CONSTANTS MaxFd,       \* descriptors 1..MaxFd are free at the start (RLIMIT_NOFILE)
          MaxClients,  \* bound: the connections that arrive
          Widths,      \* how many descriptors a session may have: a proxy's 2, echo's 1
          MayReset,    \* whether peers reset connections
          MayFail      \* whether accept, socket, connect and epoll_ctl may fail

ASSUME FdAssumption == MaxFd \in Nat /\ MaxClients \in Nat /\ Widths \subseteq {1, 2}
ASSUME FaultAssumption == MayReset \in BOOLEAN /\ MayFail \in BOOLEAN

Fd      == 1 .. MaxFd
Listen  == 0              \* the acceptor's descriptor
Session == 1 .. MaxClients
None    == 0
Nobody  == MaxClients + 1   \* in the map, but without a session that could close it

VARIABLES
  width,     \* how many descriptors a session of this server has
  file,      \* per fd, the kernel's open socket: for which session, its state
  arrived, backlog, accEdge,   \* connections so far, waiting, listener's edge
  map,       \* _callback_map: whose callbacks an fd has, if it is in there
  fds,       \* per session, its client and target descriptors while it exists
  started,   \* how many sessions were constructed
  phase, events, queue,        \* as in Relay: the two halves of wait_events
  failed     \* accept has failed while a connection was waiting

kernelVars == <<file, arrived, backlog, accEdge>>
busVars    == <<phase, events, queue>>
vars       == <<width, kernelVars, map, fds, started, busVars, failed>>

\* state: "up", the peer has "finished", or the connection is "reset";
\* epoll: registered; edge: in the ready list.
Free == [sess |-> None, state |-> "free", epoll |-> FALSE, edge |-> FALSE]
NoFds == {}

Init ==
  /\ width \in Widths
  /\ file = [f \in Fd |-> Free]
  /\ arrived = 0 /\ backlog = 0 /\ accEdge = FALSE
  /\ map = [f \in Fd |-> None]
  /\ fds = [s \in Session |-> NoFds] /\ started = 0
  /\ phase = "queue" /\ events = <<>> /\ queue = <<>>
  /\ failed = FALSE
-----------------------------------------------------------------------------
(* The kernel and the peers. *)

ClientConnects ==
  /\ arrived < MaxClients
  /\ arrived' = arrived + 1 /\ backlog' = backlog + 1 /\ accEdge' = TRUE
  /\ UNCHANGED <<file, map, fds, started, busVars, failed>>

\* The other end closes or resets the connection.  (Data that arrives has the
\* effect of the edge a new client starts with.)
PeerActs(f, state) ==
  /\ file[f].epoll
  /\ \/ state = "finished" /\ file[f].state = "up"
     \/ state = "reset" /\ file[f].state \in {"up", "finished"} /\ MayReset
  /\ file' = [file EXCEPT ![f].state = state, ![f].edge = TRUE]
  /\ UNCHANGED <<arrived, backlog, accEdge, map, fds, started, busVars, failed>>
-----------------------------------------------------------------------------
(* bus::wait_events. *)

MaskNoError(f) == {"in"}   \* mutant: EPOLLERR and EPOLLHUP are not translated
Mask(f) == IF f # Listen /\ file[f].state = "reset" THEN {"in", "error"} ELSE {"in"}
Event(f, mask, s) == [fd |-> f, mask |-> mask, for |-> s]

EpollWait ==
  /\ phase = "queue" /\ events = <<>>
  /\ LET ready == {f \in Fd : file[f].epoll /\ file[f].edge}
                    \cup (IF accEdge THEN {Listen} ELSE {})
     IN  \E order \in [1 .. Cardinality(ready) -> ready] :
           /\ {order[k] : k \in DOMAIN order} = ready
           /\ events' = [k \in DOMAIN order |->
                LET f == order[k]
                IN  Event(f, Mask(f), IF f = Listen THEN None ELSE file[f].sess)]
  /\ file' = [f \in Fd |-> [file[f] EXCEPT !.edge = FALSE]]
  /\ accEdge' = FALSE
  /\ phase' = "epoll"
  /\ UNCHANGED <<arrived, backlog, map, fds, started, queue, failed>>

SwapQueue ==
  /\ phase = "epoll" /\ events = <<>>
  /\ events' = queue /\ queue' = <<>>
  /\ phase' = "queue"
  /\ UNCHANGED <<kernelVars, map, fds, started, failed>>

Enqueue(e) == queue' = Append(queue, e)

Take == events # <<>> /\ events' = Tail(events) /\ UNCHANGED phase
-----------------------------------------------------------------------------
(* The acceptor's callback. *)

OnListen == Take /\ Head(events).fd = Listen

RearmNot == UNCHANGED queue                             \* mutant: no workaround
RearmTwice ==                                           \* mutant: for both outcomes
  queue' = queue \o <<Event(Listen, {"in"}, None), Event(Listen, {"in"}, None)>>
RearmOut == Enqueue(Event(Listen, {"out"}, None))       \* mutant: wrong flag
Rearm == Enqueue(Event(Listen, {"in"}, None))

LowestFree(n) == \* the n lowest free descriptors
  {f \in Fd : /\ file[f] = Free
              /\ Cardinality({g \in Fd : g <= f /\ file[g] = Free}) <= n}

\* EAGAIN: the event is put back.  (accept takes a descriptor first.)
AcceptNothing ==
  /\ OnListen /\ backlog = 0 /\ LowestFree(1) # {}
  /\ Rearm
  /\ UNCHANGED <<kernelVars, map, fds, started, failed>>

\* Any other error, EMFILE for one, which is found before the backlog is looked
\* at: the exception goes to the error callback, and the event is not put back.
AcceptFails ==
  /\ OnListen
  /\ MayFail \/ LowestFree(1) = {}
  /\ failed' = (failed \/ backlog > 0)
  /\ UNCHANGED <<kernelVars, map, fds, started, queue>>

\* bus::add_fd for a new session's descriptors: into the map, and into epoll.
\* An accepted socket is writable, so its edge is there at once.
AddToMap(new, s)   == map' = [f \in Fd |-> IF f \in new THEN s ELSE map[f]]
AddToEpoll(new, s) ==
  file' = [f \in Fd |-> IF f \in new
                           THEN [sess |-> s, state |-> "up", epoll |-> TRUE,
                                 edge |-> \A g \in new : f <= g]
                           ELSE file[f]]

\* session_manager's callback: the session is made from its sockets, the
\* client's being the lower descriptor, and started.
StartSession(new) ==
  /\ started' = started + 1
  /\ fds' = [fds EXCEPT ![started'] = new]
  /\ AddToMap(new, started') /\ AddToEpoll(new, started')

\* A connection, put back for the next one ("EPOLLET workaround").
AcceptSession ==
  /\ OnListen /\ backlog > 0 /\ Cardinality(LowestFree(width)) = width
  /\ backlog' = backlog - 1
  /\ Rearm
  /\ StartSession(LowestFree(width))
  /\ UNCHANGED <<arrived, accEdge, failed>>

\* The constructor of the session throws because epoll does not take the
\* client's descriptor: unwinding destroys its sockets, whose del_fd throws
\* because they are not in epoll, so none is closed, but all leave the map.
AcceptUnregistered ==
  /\ OnListen /\ backlog > 0 /\ MayFail /\ Cardinality(LowestFree(width)) = width
  /\ backlog' = backlog - 1
  /\ Rearm
  /\ file' = [f \in Fd |-> IF f \in LowestFree(width) THEN [Free EXCEPT !.state = "up"] ELSE file[f]]
  /\ UNCHANGED <<arrived, accEdge, map, fds, started, failed>>

\* It does not take the target's: the first channel's left callback is with the
\* client's descriptor already and keeps the channel and both sockets alive,
\* although there is no session.
AcceptOrphaned ==
  /\ OnListen /\ backlog > 0 /\ MayFail /\ width = 2 /\ Cardinality(LowestFree(2)) = 2
  /\ backlog' = backlog - 1
  /\ Rearm
  /\ map' = [f \in Fd |-> IF f \in LowestFree(2) THEN Nobody ELSE map[f]]
  /\ file' = [f \in Fd |->
       IF f \in LowestFree(2)
         THEN LET client == f \in LowestFree(1)
              IN  [Free EXCEPT !.state = "up", !.epoll = client, !.edge = client]
         ELSE file[f]]
  /\ UNCHANGED <<arrived, accEdge, fds, started, failed>>

\* The target's socket cannot be opened or connected: its constructor throws.
\* Unwinding destroys the client's socket object, whose del_fd throws because
\* the descriptor is not in epoll yet, so it is never closed.
AcceptHalf ==
  /\ OnListen /\ backlog > 0
  /\ width = 2 /\ LowestFree(1) # {}
  /\ MayFail \/ Cardinality(LowestFree(2)) = 1
  /\ backlog' = backlog - 1
  /\ Rearm
  /\ file' = [f \in Fd |-> IF f \in LowestFree(1) THEN [Free EXCEPT !.state = "up"] ELSE file[f]]
  /\ UNCHANGED <<arrived, accEdge, map, fds, started, failed>>
-----------------------------------------------------------------------------
(* The callbacks of a session. *)

OnSession == Take /\ Head(events).fd # Listen

\* The descriptor is not in the map (any more), or only the left callback of a
\* channel without a session is: what that one reads, and the error events it
\* enqueues, close nothing.
Ignore ==
  /\ OnSession /\ map[Head(events).fd] \notin Session
  /\ UNCHANGED <<kernelVars, map, fds, started, queue, failed>>

\* Whether a channel may enqueue an error event while it handles an in event
\* on f: recv finds the end of the stream or an error, or psql_proxy::handler
\* finds Terminate in what the client (the lower descriptor) has sent.
MayEndIt(f) == file[f].state # "up" \/ \A g \in fds[map[f]] : f <= g

\* The channel reads, and finds nothing, data, or the end of the stream.
Read ==
  /\ OnSession
  /\ LET f == Head(events).fd
     IN  /\ map[f] \in Session
         /\ "error" \notin Head(events).mask
         /\ \/ UNCHANGED queue
            \/ MayEndIt(f) /\ Enqueue(Event(f, {"error"}, file[f].sess))
  /\ UNCHANGED <<kernelVars, map, fds, started, failed>>

\* The descriptors session s marks when it handles an error event on f.
MarkedOne(f, s) == {f}   \* mutant: only the one with the error
Marked(f, s) == fds[s]

\* Mutant: the descriptor is not closed.
DestroyedOpen(f) == [file[f] EXCEPT !.epoll = FALSE, !.edge = FALSE]

\* ~socket: out of epoll, shutdown and close, but shutdown fails on a reset
\* connection and close is not reached.
Destroyed(f) == IF file[f].state = "reset"
                  THEN [file[f] EXCEPT !.epoll = FALSE, !.edge = FALSE]
                  ELSE Free

\* The marked descriptors are erased from the map, and with the last callback
\* the session and its sockets are destroyed.
Remove(marked) ==
  /\ map' = [f \in Fd |-> IF f \in marked THEN None ELSE map[f]]
  /\ file' = [f \in Fd |-> IF f \in marked THEN Destroyed(f) ELSE file[f]]
  /\ fds' = [s \in Session |-> fds[s] \ marked]

\* An error event.  The channels may enqueue another one when the mask also
\* has "in"; the session marks its descriptors.
CloseSession ==
  /\ OnSession /\ "error" \in Head(events).mask
  /\ LET f == Head(events).fd
     IN  /\ map[f] \in Session
         /\ \/ UNCHANGED queue
            \/ "in" \in Head(events).mask /\ MayEndIt(f)
                 /\ Enqueue(Event(f, {"error"}, file[f].sess))
         /\ Remove(Marked(f, map[f]))
  /\ UNCHANGED <<arrived, backlog, accEdge, started, failed>>
-----------------------------------------------------------------------------
Loop == \/ EpollWait \/ SwapQueue
        \/ AcceptNothing \/ AcceptFails \/ AcceptSession \/ AcceptHalf
        \/ AcceptUnregistered \/ AcceptOrphaned
        \/ Ignore \/ Read \/ CloseSession

Next == /\ UNCHANGED width
        /\ \/ ClientConnects
           \/ \E f \in Fd, state \in {"finished", "reset"} : PeerActs(f, state)
           \/ Loop

\* io::context::run calls wait_events again and again.
Spec == Init /\ [][Next]_vars /\ WF_vars(Loop /\ UNCHANGED width)
-----------------------------------------------------------------------------
(* Properties. *)

FileState == [sess : Session \cup {None}, state : {"free", "up", "finished", "reset"},
              epoll : BOOLEAN, edge : BOOLEAN]

TypeOK ==
  /\ width \in Widths
  /\ file \in [Fd -> FileState]
  /\ arrived \in 0 .. MaxClients /\ backlog \in 0 .. arrived
  /\ map \in [Fd -> Session \cup {None, Nobody}]
  /\ fds \in [Session -> SUBSET Fd]
  /\ started \in 0 .. MaxClients
  /\ \A k \in DOMAIN queue : queue[k].mask \in {{"in"}, {"error"}}
  /\ phase \in {"epoll", "queue"} /\ failed \in BOOLEAN

\* The callback map, epoll's registrations, the open sockets and the session
\* objects agree: a session exists with all of its descriptors open, mapped
\* to it and registered, or with none, although descriptors are reused and
\* events of closed ones are still around.
RegistrationsAgree ==
  /\ \A s \in Session : Cardinality(fds[s]) \in {0, width}
  /\ \A f \in Fd :
       /\ file[f].epoll => map[f] # None
       /\ map[f] \in Session => file[f].epoll /\ file[f].sess = map[f] /\ f \in fds[map[f]]
       /\ \A s \in Session : f \in fds[s] => map[f] = s

Among(s, f, flag) == \E k \in DOMAIN s : s[k].fd = f /\ flag \in s[k].mask
Pending(f, flag)  == Among(events, f, flag) \/ Among(queue, f, flag)

\* Nobody waits in the backlog unnoticed, although epoll reports the listener
\* only once per arrival, one event accepts only one connection, and an event
\* whose accept fails is not put back.
BacklogNoticed == backlog > 0 => accEdge \/ Pending(Listen, "in") \/ failed

\* Every client is accepted, unless accept fails while one waits: an event that
\* fails on an empty backlog is not put back either, but the next arrival is an
\* edge of its own.
AllAccepted == (backlog > 0) ~> (backlog = 0 \/ failed)

\* A reset of a session's connection is never forgotten: epoll still has to
\* report it, or an error event that will close its session is under way.
ResetNoticed ==
  \A f \in Fd : file[f].state = "reset" /\ map[f] \in Session =>
                   file[f].edge \/ Pending(f, "error")

\* Putting accept events back does not multiply them: there is at most one for
\* each connection that ever arrived, whatever order edges, accepts and swaps
\* of the queue come in.
ListenEvents(s) == Cardinality({k \in DOMAIN s : s[k].fd = Listen})
ListenBounded ==
  ListenEvents(queue) + ListenEvents(events) + (IF accEdge THEN 1 ELSE 0) <= arrived

\* A descriptor stays open without a session in two cases only: its connection
\* had been reset when its session ended (shutdown fails before close), or its
\* session could not be made.  Every other one is closed and can be used again.
OnlyKnownLeaks ==
  \A f \in Fd : file[f] # Free /\ map[f] \notin Session =>
                   file[f].state = "reset" \/ file[f].sess = None
-----------------------------------------------------------------------------
(* The inductive invariant behind the properties (ReactorProofs). *)

EventWith(masks) == [fd : Fd \cup {Listen}, mask : masks, for : Session \cup {None}]

\* What is in the batch and in the queue: only epoll makes events with both flags.
EventInv ==
  /\ events \in Seq(EventWith({{"in"}, {"error"}, {"in", "error"}}))
  /\ queue \in Seq(EventWith({{"in"}, {"error"}}))
  /\ accEdge \in BOOLEAN

\* A session has taken its client from the backlog, so their number is bounded.
CountInv == started + backlog <= arrived

\* A free descriptor is in no registry, and nothing belongs to a later session.
FreeInv ==
  \A f \in Fd : /\ file[f].state = "free" => file[f] = Free /\ map[f] = None
                /\ map[f] \in Session => map[f] <= started

RegistryInv == FreeInv /\ RegistrationsAgree /\ OnlyKnownLeaks

NoticedInv == BacklogNoticed /\ ResetNoticed

IInv == TypeOK /\ EventInv /\ CountInv /\ RegistryInv /\ NoticedInv /\ ListenBounded
-----------------------------------------------------------------------------
(* Statements about the program that its code does not make true. *)

\* "Stop listening on the fd file descriptor": no event of a descriptor that
\* was closed is handled by a later session that got the same number.
NoStaleEvent ==
  events # <<>> /\ Head(events).fd # Listen =>
    map[Head(events).fd] \in {None, Head(events).for}

=============================================================================
