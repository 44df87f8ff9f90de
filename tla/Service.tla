------------------------------- MODULE Service -------------------------------
(***************************************************************************)
(* A service from start to exit: main() of psql_proxy, tcp_proxy or echo,  *)
(* the objects it builds and destroys, the listener's descriptor, the run  *)
(* loop with the accept events that put themselves back, the signal, and   *)
(* the writer thread of psql_proxy.  What sessions do is the subject of    *)
(* Relay and Reactor, what the writer writes that of QueryLog.             *)
(***************************************************************************)
EXTENDS Naturals, Sequences

CONSTANT MaxClients   \* bound: the connections that arrive

ASSUME ClientsAssumption == MaxClients \in Nat

VARIABLES
  kind,       \* which service this is
  pc,         \* what main is doing
  todo,       \* the steps of main's construction still to come
  objects,    \* main's live local objects, oldest first
  context,    \* the global io_context: "null", "made", or destroyed: "freed"
  status,     \* the exit status so far
  fd,         \* the listener's descriptor: "none", "open", "listening", "closed"
  registered, \* it is in epoll
  refused,    \* epoll did not take it
  held,       \* acceptor_base::_fd is the descriptor, not -1
  dtor,       \* what destroys the acceptor next: "none", "guard", "acceptor", "base"
  stray,      \* a destructor used a number that was no longer the listener's
  stop,       \* context::_stop_requested
  writer,     \* the writer thread: "none", "running", "done"
  arrived, backlog, edge,   \* connections so far, waiting; the listener's edge
  batch,      \* accept events left in the part of wait_events that is running
  queue       \* accept events in bus::_events

buildVars == <<kind, todo, objects, context, status>>
listenVars == <<fd, registered, refused, held, dtor, stray>>
loopVars  == <<arrived, backlog, edge, batch, queue>>
vars      == <<buildVars, pc, listenVars, stop, writer, loopVars>>

\* The order of construction.  The acceptor opens its socket, registers it
\* with the bus (in its base class), sets options, binds and listens; the
\* object "server" owns it.  In psql_proxy the context comes before the server.
Order(k) == IF k = "psql_proxy"
              THEN <<"addresses", "bus", "context", "processor",
                     "socket", "register", "options", "bind", "listen", "server",
                     "stream", "thread">>
              ELSE <<"bus", "addresses",
                     "socket", "register", "options", "bind", "listen", "server",
                     "context">>

Init ==
  /\ kind \in {"psql_proxy", "tcp_proxy", "echo"}
  /\ pc = "build" /\ todo = Order(kind) /\ objects = <<>>
  /\ context = "null" /\ status = 0
  /\ fd = "none" /\ registered = FALSE /\ refused = FALSE
  /\ held = FALSE /\ dtor = "none" /\ stray = FALSE
  /\ stop = FALSE /\ writer = "none"
  /\ arrived = 0 /\ backlog = 0 /\ edge = FALSE /\ batch = 0 /\ queue = 0
-----------------------------------------------------------------------------
(* Construction. *)

At(step) == pc = "build" /\ todo # <<>> /\ Head(todo) = step

\* A local object is there; an ofstream that could not be opened is there too.
Construct(o) ==
  /\ At(o) /\ todo' = Tail(todo)
  /\ objects' = Append(objects, o)
  /\ UNCHANGED <<kind, pc, context, status, listenVars, stop, writer, loopVars>>

MakeContext ==
  /\ At("context") /\ todo' = Tail(todo)
  /\ context' = "made"
  /\ UNCHANGED <<kind, pc, objects, status, listenVars, stop, writer, loopVars>>

StartThread ==
  /\ At("thread") /\ todo' = Tail(todo)
  /\ writer' = "running"
  /\ UNCHANGED <<kind, pc, objects, context, status, listenVars, stop, loopVars>>

OpenSocket ==
  /\ At("socket") /\ todo' = Tail(todo)
  /\ fd' = "open"
  /\ UNCHANGED <<kind, pc, objects, context, status, registered, refused, held, dtor, stray,
                 stop, writer, loopVars>>

\* The constructor of acceptor_base is done: from here its destructor will run.
Register ==
  /\ At("register") /\ todo' = Tail(todo)
  /\ registered' = TRUE /\ held' = TRUE
  /\ UNCHANGED <<kind, pc, objects, context, status, fd, refused, dtor, stray,
                 stop, writer, loopVars>>

SetUp(step) ==   \* setsockopt and bind
  /\ At(step) /\ todo' = Tail(todo)
  /\ UNCHANGED <<kind, pc, objects, context, status, listenVars, stop, writer, loopVars>>

\* listen(), the last step that may fail; the scope guard is reset.
Listen ==
  /\ At("listen") /\ todo' = Tail(todo)
  /\ fd' = "listening"
  /\ UNCHANGED <<kind, pc, objects, context, status, registered, refused, held, dtor, stray,
                 stop, writer, loopVars>>

\* Which destructors a failing step of the acceptor leaves to run.  When epoll
\* does not take the descriptor the constructor of acceptor_base throws and the
\* scope guard is not there yet: none.  Later it is the guard, then the base.
Unwound(step) ==
  /\ dtor' = IF step \in {"options", "bind", "listen"} THEN "guard" ELSE "none"
  /\ refused' = (step = "register")
  /\ UNCHANGED <<fd, registered, held, stray>>

\* stoi, epoll_create1, a step of the acceptor, or the thread fails: the
\* exception unwinds main's objects and the process exits with 1.
Fail(step) ==
  /\ At(step)
  /\ step \in {"addresses", "bus", "socket", "register", "options", "bind", "listen", "thread"}
  /\ pc' = "unwind" /\ todo' = <<>> /\ status' = 1
  /\ Unwound(step)
  /\ UNCHANGED <<kind, objects, context, stop, writer, loopVars>>

Built ==
  /\ pc = "build" /\ todo = <<>>
  /\ pc' = "run"
  /\ UNCHANGED <<buildVars, listenVars, stop, writer, loopVars>>
-----------------------------------------------------------------------------
(* context::run and bus::wait_events. *)

\* while (!_stop_requested)
RunTest ==
  /\ pc = "run"
  /\ pc' = IF ~stop THEN "wait" ELSE IF kind = "psql_proxy" THEN "join" ELSE "unwind"
  /\ UNCHANGED <<buildVars, listenVars, stop, writer, loopVars>>

EpollWait ==
  /\ pc = "wait"
  /\ pc' = "epoll" /\ batch' = (IF edge THEN 1 ELSE 0) /\ edge' = FALSE
  /\ UNCHANGED <<buildVars, listenVars, stop, writer, arrived, backlog, queue>>

\* The signal interrupts it: no events, and the queue is served.
EpollInterrupted ==
  /\ pc = "wait"
  /\ pc' = "epoll"
  /\ UNCHANGED <<buildVars, listenVars, stop, writer, loopVars>>

\* Any other error is thrown over the swap of the queue, and printed.
EpollFails ==
  /\ pc = "wait"
  /\ pc' = "run"
  /\ UNCHANGED <<buildVars, listenVars, stop, writer, loopVars>>

RearmTwice == batch' = batch - 1 /\ queue' = queue + 2   \* mutant: for both outcomes
Rearm == batch' = batch - 1 /\ queue' = queue + 1

\* The acceptor's callback: a connection or EAGAIN, either way put back.
Accept ==
  /\ pc \in {"epoll", "queue"} /\ batch > 0
  /\ backlog' = IF backlog > 0 THEN backlog - 1 ELSE 0
  /\ Rearm
  /\ UNCHANGED <<buildVars, pc, listenVars, stop, writer, arrived, edge>>

\* accept fails, EMFILE for one, which it may report before it looks for a
\* connection: the event is not put back.
AcceptFails ==
  /\ pc \in {"epoll", "queue"} /\ batch > 0
  /\ batch' = batch - 1
  /\ UNCHANGED <<buildVars, pc, listenVars, stop, writer, arrived, backlog, edge, queue>>

\* "prevent infinite events generation loop"
Swap ==
  /\ pc = "epoll" /\ batch = 0
  /\ pc' = "queue" /\ batch' = queue /\ queue' = 0
  /\ UNCHANGED <<buildVars, listenVars, stop, writer, arrived, backlog, edge>>

\* Mutant: the queue is served until nothing is left in it.
TurnDoneDrained ==
  /\ pc = "queue" /\ batch = 0
  /\ pc' = IF queue = 0 THEN "run" ELSE "epoll"
  /\ UNCHANGED <<buildVars, listenVars, stop, writer, loopVars>>

TurnDone ==
  /\ pc = "queue" /\ batch = 0
  /\ pc' = "run"
  /\ UNCHANGED <<buildVars, listenVars, stop, writer, loopVars>>
-----------------------------------------------------------------------------
(* The end. *)

JoinNot == pc = "join"   \* mutant: main does not wait
Joined == pc = "join" /\ writer = "done"

Join ==
  /\ Joined
  /\ pc' = "unwind"
  /\ UNCHANGED <<buildVars, listenVars, stop, writer, loopVars>>

\* acceptor_base::_close: del_fd, then _fd = -1, nothing when it is -1 already.
\* del_fd throws when epoll does not have the descriptor, and _fd stays.
DelFdThrows == held /\ ~registered
CloseBaseKeep == registered' = (registered /\ ~held) /\ UNCHANGED held   \* mutant: no _fd = -1
CloseBase == registered' = (registered /\ ~held) /\ held' = DelFdThrows

\* What the scope guard's callback and ~acceptor both do: get_fd, _close and,
\* unless that throws, ::close of the number that get_fd gave.
Release ==
  /\ CloseBase
  /\ fd' = IF held /\ registered THEN "closed" ELSE fd
  /\ stray' = (stray \/ ~held \/ ~registered)

\* Mutant: the guard does not call ::close.
ScopeGuardNoClose ==
  /\ pc = "unwind" /\ dtor = "guard" /\ dtor' = "base"
  /\ CloseBase
  /\ UNCHANGED <<buildVars, pc, fd, refused, stray, stop, writer, loopVars>>

\* The constructor of acceptor has thrown: its scope guard, then the base.
ScopeGuard ==
  /\ pc = "unwind" /\ dtor = "guard" /\ dtor' = "base"
  /\ Release
  /\ UNCHANGED <<buildVars, pc, refused, stop, writer, loopVars>>

\* ~acceptor, called by the server's destructor, then the base.
AcceptorDtor ==
  /\ pc = "unwind" /\ dtor = "acceptor" /\ dtor' = "base"
  /\ Release
  /\ UNCHANGED <<buildVars, pc, refused, stop, writer, loopVars>>

\* ~acceptor_base, which does not close.
BaseDtor ==
  /\ pc = "unwind" /\ dtor = "base" /\ dtor' = "none"
  /\ CloseBase
  /\ stray' = (stray \/ DelFdThrows)
  /\ UNCHANGED <<buildVars, pc, fd, refused, stop, writer, loopVars>>

\* main's objects are destroyed, the last one first.
Destroy ==
  /\ pc = "unwind" /\ dtor = "none" /\ objects # <<>>
  /\ objects' = SubSeq(objects, 1, Len(objects) - 1)
  /\ dtor' = IF objects[Len(objects)] = "server" THEN "acceptor" ELSE "none"
  /\ UNCHANGED <<kind, pc, todo, context, status, fd, registered, refused, held, stray,
                 stop, writer, loopVars>>

\* return or exit(): static objects are destroyed, then the process is gone.
DestroyStatics ==
  /\ pc = "unwind" /\ dtor = "none" /\ objects = <<>>
  /\ pc' = "exit" /\ context' = IF context = "made" THEN "freed" ELSE context
  /\ UNCHANGED <<kind, todo, objects, status, listenVars, stop, writer, loopVars>>

Exit ==
  /\ pc = "exit"
  /\ pc' = "exited"
  /\ UNCHANGED <<buildVars, listenVars, stop, writer, loopVars>>
-----------------------------------------------------------------------------
(* The writer thread, the signal and the clients. *)

\* file_writer's loop ends when it sees the flag (see QueryLog).
WriterEnds ==
  /\ writer = "running" /\ stop
  /\ writer' = "done"
  /\ UNCHANGED <<buildVars, pc, listenVars, stop, loopVars>>

\* _cleanup: before there is a context the signal is only printed.  After
\* static destruction it writes to freed memory, which nobody reads.
Signal ==
  /\ pc # "exited"
  /\ stop' = (stop \/ context = "made")
  /\ UNCHANGED <<buildVars, pc, listenVars, writer, loopVars>>

ClientConnects ==
  /\ fd = "listening" /\ arrived < MaxClients
  /\ arrived' = arrived + 1 /\ backlog' = backlog + 1 /\ edge' = TRUE
  /\ UNCHANGED <<buildVars, pc, listenVars, stop, writer, batch, queue>>
-----------------------------------------------------------------------------
Build == \/ \E o \in {"addresses", "bus", "processor", "server", "stream"} : Construct(o)
         \/ MakeContext \/ StartThread \/ OpenSocket \/ Register
         \/ \E step \in {"options", "bind"} : SetUp(step)
         \/ Listen \/ Built
         \/ pc = "build" /\ todo # <<>> /\ Fail(Head(todo))

Run == \/ RunTest \/ EpollWait \/ EpollInterrupted \/ EpollFails
       \/ Accept \/ AcceptFails \/ Swap \/ TurnDone

End == Join \/ ScopeGuard \/ AcceptorDtor \/ BaseDtor \/ Destroy \/ DestroyStatics \/ Exit

Gone == pc = "exited" /\ UNCHANGED vars

Next == Build \/ Run \/ End \/ WriterEnds \/ Signal \/ ClientConnects \/ Gone

\* Both threads run; epoll_wait returns within its timeout of 10 ms.
Spec == Init /\ [][Next]_vars /\ WF_vars(Build \/ Run \/ End) /\ WF_vars(WriterEnds)
-----------------------------------------------------------------------------
(* Properties. *)

Has(o) == \E k \in DOMAIN objects : objects[k] = o

\* The types, and: there is at most one accept event per connection.
TypeOK ==
  /\ pc \in {"build", "run", "wait", "epoll", "queue", "join", "unwind", "exit", "exited"}
  /\ context \in {"null", "made", "freed"} /\ status \in {0, 1}
  /\ fd \in {"none", "open", "listening", "closed"}
  /\ registered \in BOOLEAN /\ refused \in BOOLEAN /\ held \in BOOLEAN
  /\ dtor \in {"none", "guard", "acceptor", "base"} /\ stray \in BOOLEAN
  /\ stop \in BOOLEAN
  /\ writer \in {"none", "running", "done"}
  /\ arrived \in 0 .. MaxClients /\ backlog \in 0 .. arrived
  /\ batch \in 0 .. arrived /\ queue \in 0 .. arrived - batch

\* A stop that was requested ends the process, although every accept event
\* puts itself back for good: a turn of the loop serves only what was there
\* when it began.
StopEnds == stop ~> pc = "exited"

\* The writer thread holds plain pointers to the query_processor and the
\* stream on main's stack: both outlive it, however the service ends.
WriterUsesLiving == writer = "running" => Has("processor") /\ Has("stream")

\* The listener is there as long as the server is and no longer: from the end
\* of its construction it listens and is registered; once main unwinds and the
\* acceptor's destructors have run, whichever step failed, it is out of epoll
\* and closed.  The one descriptor that stays open is one that epoll refused.
ListenerKept ==
  /\ Has("server") => fd = "listening" /\ registered
  /\ pc \in {"unwind", "exit", "exited"} /\ dtor = "none" /\ ~Has("server") =>
       ~registered /\ (fd \in {"none", "closed"} \/ (fd = "open" /\ refused))

\* Two destructors run one after the other on the same _fd, and the first has
\* closed it: the second does not touch that number any more, which may be
\* another file's by then.
ReleasedOnce == ~stray
-----------------------------------------------------------------------------
(* The inductive invariant behind the safety properties. *)

\* All objects of main, in the order of their construction.
Locals == IF kind = "psql_proxy"
            THEN <<"addresses", "bus", "processor", "server", "stream">>
            ELSE <<"bus", "addresses", "server">>

\* How many steps of the construction are done, how many of the order come
\* before the listener's, and how many objects the steps done have made.
Done   == Len(Order(kind)) - Len(todo)
Before == IF kind = "psql_proxy" THEN 4 ELSE 2
Made   == IF kind = "psql_proxy" THEN <<0, 1, 2, 2, 3, 3, 3, 3, 3, 3, 4, 5, 5>>[Done + 1]
                                 ELSE <<0, 1, 2, 2, 2, 2, 2, 2, 3, 3>>[Done + 1]

\* What is to be done is the end of the order, the live objects are the
\* beginning of theirs, and while main builds these two determine each other
\* and the state of the listener.
Places == /\ kind \in {"psql_proxy", "tcp_proxy", "echo"}
          /\ Len(todo) \in 0 .. Len(Order(kind)) /\ Len(objects) \in 0 .. Len(Locals)
          /\ todo = SubSeq(Order(kind), Done + 1, Len(Order(kind)))
          /\ objects = SubSeq(Locals, 1, Len(objects))

BuildInv == pc = "build" =>
  /\ Len(objects) = Made
  /\ fd = IF Done <= Before THEN "none" ELSE IF Done < Before + 5 THEN "open" ELSE "listening"
  /\ registered <=> Done >= Before + 2
  /\ held <=> Done >= Before + 2
  /\ dtor = "none" /\ ~stray /\ ~refused /\ status = 0
  /\ writer # "none" => kind = "psql_proxy" /\ todo = <<>>

Looping == pc \in {"run", "wait", "epoll", "queue", "join"}

LoopInv == /\ Looping => /\ todo = <<>> /\ objects = Locals
                         /\ fd = "listening" /\ registered /\ held
                         /\ dtor = "none" /\ ~stray
           /\ pc = "join" => kind = "psql_proxy"
           /\ kind # "psql_proxy" => writer = "none"

\* Where the destructors stand: the one that closes runs on a descriptor that is
\* registered and held, the base's on one that is neither.
Unwinding ==
  IF Has("server") THEN fd = "listening" /\ registered /\ held /\ dtor = "none"
  ELSE \/ dtor = "guard" /\ fd = "open" /\ registered /\ held
       \/ dtor = "acceptor" /\ fd = "listening" /\ registered /\ held
       \/ dtor = "base" /\ fd = "closed" /\ ~registered /\ ~held
       \/ dtor = "none" /\ ~registered /\ ~held
          /\ (fd \in {"none", "closed"} \/ (fd = "open" /\ refused))

EndInv ==
  /\ pc \in {"unwind", "exit", "exited"} => writer # "running" /\ ~stray /\ Unwinding
  /\ pc \in {"exit", "exited"} => objects = <<>> /\ dtor = "none"

\* Each connection raises at most one edge, each edge becomes one event.
EventInv == /\ edge \in BOOLEAN
            /\ batch + queue <= arrived
            /\ edge => batch + queue < arrived
            /\ pc \in {"build", "run", "wait"} => batch = 0

IInv == TypeOK /\ Places /\ BuildInv /\ LoopInv /\ EndInv /\ EventInv
=============================================================================
