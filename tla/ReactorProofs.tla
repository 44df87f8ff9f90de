---------------------------- MODULE ReactorProofs ----------------------------
(***************************************************************************)
(* Proofs of Reactor's safety properties, for any number of descriptors    *)
(* and of clients, whatever fails.                                         *)
(*                                                                         *)
(* The first part is about sequences of events: what taking one from the   *)
(* batch and putting one back does to what is pending and to the number of *)
(* the listener's events, and what epoll_wait returns.  The second shows   *)
(* that IInv is inductive: first for the registries, action by action,     *)
(* then for the events under way.                                          *)
(***************************************************************************)
EXTENDS Reactor, FiniteSetTheorems, TLAPS

-----------------------------------------------------------------------------
(* Sequences of events. *)

\* Taking the first event removes no pending event of another descriptor or
\* with another flag.
LEMMA TailKeeps ==
  ASSUME NEW T, NEW s \in Seq(T), s # <<>>, NEW f, NEW flag,
         Among(s, f, flag),
         ~ (Head(s).fd = f /\ flag \in Head(s).mask)
  PROVE  Among(Tail(s), f, flag)
<1>1. PICK k \in DOMAIN s : s[k].fd = f /\ flag \in s[k].mask
  BY DEF Among
<1>2. k # 1
  BY <1>1
<1>3. k - 1 \in DOMAIN Tail(s) /\ Tail(s)[k - 1] = s[k]
  BY <1>1, <1>2
<1>. QED  BY <1>1, <1>3 DEF Among

\* Putting an event back removes none, and makes its own flags pending.
LEMMA AppendKeeps ==
  ASSUME NEW T, NEW s \in Seq(T), NEW e \in T, NEW f, NEW flag
  PROVE  /\ Among(s, f, flag) => Among(Append(s, e), f, flag)
         /\ e.fd = f /\ flag \in e.mask => Among(Append(s, e), f, flag)
<1>1. DOMAIN Append(s, e) = 1 .. Len(s) + 1 /\ DOMAIN s = 1 .. Len(s) /\ Len(s) \in Nat
  OBVIOUS
<1>2. \A k \in DOMAIN s : Append(s, e)[k] = s[k] /\ k \in DOMAIN Append(s, e)
  BY <1>1
<1>3. Append(s, e)[Len(s) + 1] = e /\ Len(s) + 1 \in DOMAIN Append(s, e)
  BY <1>1
<1>4. Among(s, f, flag) => Among(Append(s, e), f, flag)
  BY <1>2, Zenon DEF Among
<1>5. e.fd = f /\ flag \in e.mask => Among(Append(s, e), f, flag)
  BY <1>3, Zenon DEF Among
<1>. QED  BY <1>4, <1>5

\* The listener's events in a sequence are finitely many.
LEMMA ListenFinite ==
  ASSUME NEW T, NEW s \in Seq(T)
  PROVE  /\ IsFiniteSet({k \in DOMAIN s : s[k].fd = Listen})
         /\ ListenEvents(s) \in Nat
<1>1. IsFiniteSet(1 .. Len(s))
  BY FS_Interval
<1>2. {k \in DOMAIN s : s[k].fd = Listen} \in SUBSET (1 .. Len(s))
  OBVIOUS
<1>3. IsFiniteSet({k \in DOMAIN s : s[k].fd = Listen})
  BY <1>1, <1>2, FS_Subset
<1>. QED  BY <1>3, FS_CardinalityType DEF ListenEvents

\* An empty queue has no event of the listener.
LEMMA ListenEmpty == ListenEvents(<<>>) = 0
<1>1. {k \in DOMAIN <<>> : <<>>[k].fd = Listen} = {}
  OBVIOUS
<1>. QED  BY <1>1, FS_EmptySet DEF ListenEvents

\* Putting an event back adds one listener's event at most, and none when it
\* is a session's.
LEMMA ListenAppend ==
  ASSUME NEW T, NEW s \in Seq(T), NEW e \in T
  PROVE  ListenEvents(Append(s, e)) =
           IF e.fd = Listen THEN ListenEvents(s) + 1 ELSE ListenEvents(s)
<1>. DEFINE S == {k \in DOMAIN s : s[k].fd = Listen}
            A == {k \in DOMAIN Append(s, e) : Append(s, e)[k].fd = Listen}
<1>1. DOMAIN Append(s, e) = 1 .. Len(s) + 1 /\ DOMAIN s = 1 .. Len(s) /\ Len(s) \in Nat
  OBVIOUS
<1>2. \A k \in 1 .. Len(s) : Append(s, e)[k] = s[k]
  BY <1>1
<1>3. Append(s, e)[Len(s) + 1] = e
  BY <1>1
<1>4. Len(s) + 1 \notin S
  BY <1>1
<1>5. IsFiniteSet(S)
  BY ListenFinite
<1>6. A = IF e.fd = Listen THEN S \cup {Len(s) + 1} ELSE S
  BY <1>1, <1>2, <1>3
<1>7. Cardinality(S \cup {Len(s) + 1}) = Cardinality(S) + 1
  BY <1>4, <1>5, FS_AddElement
<1>8. ListenEvents(Append(s, e)) = Cardinality(A) /\ ListenEvents(s) = Cardinality(S)
  BY DEF ListenEvents
<1>. HIDE DEF S, A
<1>. QED  BY <1>6, <1>7, <1>8

\* Taking the first event takes one of the listener's if it is one.
LEMMA ListenTail ==
  ASSUME NEW T, NEW s \in Seq(T), s # <<>>
  PROVE  ListenEvents(s) =
           IF Head(s).fd = Listen THEN ListenEvents(Tail(s)) + 1 ELSE ListenEvents(Tail(s))
<1>. DEFINE S == {k \in DOMAIN s : s[k].fd = Listen}
            A == {k \in DOMAIN Tail(s) : Tail(s)[k].fd = Listen}
            g == [k \in A |-> k + 1]
<1>1. /\ DOMAIN Tail(s) = 1 .. Len(s) - 1 /\ DOMAIN s = 1 .. Len(s)
      /\ Len(s) \in Nat \ {0} /\ Tail(s) \in Seq(T)
  OBVIOUS
<1>2. \A k \in 1 .. Len(s) - 1 : Tail(s)[k] = s[k + 1]
  BY <1>1
<1>3. g \in Bijection(A, S \ {1})
  <2>1. g \in [A -> S \ {1}]
    BY <1>1, <1>2
  <2>2. \A a, b \in A : g[a] = g[b] => a = b
    BY <1>1
  <2>3. \A t \in S \ {1} : \E a \in A : g[a] = t
    <3>. SUFFICES ASSUME NEW t \in S \ {1} PROVE \E a \in A : g[a] = t
      OBVIOUS
    <3>1. t - 1 \in A
      BY <1>1, <1>2
    <3>2. g[t - 1] = t
      BY <3>1, <1>1
    <3>. QED  BY <3>1, <3>2
  <2>. HIDE DEF g, A, S
  <2>. QED  BY <2>1, <2>2, <2>3 DEF Bijection, Injection, Surjection, IsInjective
<1>4. IsFiniteSet(A) /\ IsFiniteSet(S)
  BY <1>1, ListenFinite
<1>5. Cardinality(S \ {1}) = Cardinality(A)
  BY <1>3, <1>4, FS_Bijection, ZenonT(30) DEF ExistsBijection
<1>6. Cardinality(S \ {1}) = IF 1 \in S THEN Cardinality(S) - 1 ELSE Cardinality(S)
  BY <1>4, FS_RemoveElement
<1>7. 1 \in S <=> Head(s).fd = Listen
  BY <1>1
<1>8. Cardinality(S) \in Nat /\ Cardinality(A) \in Nat
  BY <1>4, FS_CardinalityType
<1>9. ListenEvents(Tail(s)) = Cardinality(A) /\ ListenEvents(s) = Cardinality(S)
  BY DEF ListenEvents
<1>. HIDE DEF S, A, g
<1>. QED  BY <1>5, <1>6, <1>7, <1>8, <1>9

\* What epoll_wait returns: well-formed events, one for each ready descriptor
\* with its mask, and one of the listener if and only if its edge was there.
LEMMA Reported ==
  ASSUME TypeOK, EventInv, EpollWait
  PROVE  /\ events' \in Seq(EventWith({{"in"}, {"error"}, {"in", "error"}}))
         /\ \A f \in Fd : file[f].epoll /\ file[f].edge =>
              \E k \in DOMAIN events' : events'[k].fd = f /\ events'[k].mask = Mask(f)
         /\ accEdge =>
              \E k \in DOMAIN events' : events'[k].fd = Listen /\ "in" \in events'[k].mask
         /\ ListenEvents(events') = IF accEdge THEN 1 ELSE 0
<1>. DEFINE ready == {f \in Fd : file[f].epoll /\ file[f].edge}
                       \cup (IF accEdge THEN {Listen} ELSE {})
            n == Cardinality(ready)
            ev(f) == Event(f, Mask(f), IF f = Listen THEN None ELSE file[f].sess)
            E == EventWith({{"in"}, {"error"}, {"in", "error"}})
<1>1. PICK order \in [1 .. n -> ready] :
        /\ {order[k] : k \in DOMAIN order} = ready
        /\ events' = [k \in DOMAIN order |-> ev(order[k])]
  BY DEF EpollWait
<1>2. IsFiniteSet(ready) /\ n \in Nat
  <2>1. MaxFd \in Nat /\ IsFiniteSet(0 .. MaxFd)
    BY FdAssumption, FS_Interval
  <2>2. ready \in SUBSET (0 .. MaxFd)
    BY <2>1 DEF Fd, Listen
  <2>. HIDE DEF ready
  <2>3. IsFiniteSet(ready)
    BY <2>1, <2>2, FS_Subset
  <2>. QED  BY <2>3, FS_CardinalityType
<1>3. \A f \in ready : ev(f) \in E
  <2>. SUFFICES ASSUME NEW f \in ready PROVE ev(f) \in E
    OBVIOUS
  <2>1. f \in Fd \cup {Listen}
    OBVIOUS
  <2>2. Mask(f) \in {{"in"}, {"error"}, {"in", "error"}}
    BY DEF Mask
  <2>3. (IF f = Listen THEN None ELSE file[f].sess) \in Session \cup {None}
    BY <2>1 DEF TypeOK, FileState
  <2>. QED  BY <2>1, <2>2, <2>3, Zenon DEF EventWith, Event
<1>4. DOMAIN events' = 1 .. n /\ \A k \in 1 .. n : events'[k] = ev(order[k])
  BY <1>1
<1>5. \A f \in ready : \E k \in 1 .. n : order[k] = f
  BY <1>1
<1>6. \A f : ev(f).fd = f /\ ev(f).mask = Mask(f)
  BY DEF Event
<1>7. \A a, b \in 1 .. n : order[a] = order[b] => a = b
  <2>1. IsFiniteSet(1 .. n) /\ Cardinality(1 .. n) = n
    BY <1>2, FS_Interval
  <2>. HIDE DEF ready
  <2>2. order \in Surjection(1 .. n, ready)
    BY <1>1, <1>5 DEF Surjection
  <2>. HIDE DEF n
  <2>3. n = Cardinality(ready)
    BY DEF n
  <2>4. order \in Injection(1 .. n, ready)
    BY <2>1, <2>2, <2>3, FS_SurjSameCardinalityImpliesInj
  <2>. QED  BY <2>4 DEF Injection, IsInjective
<1>8. events' \in Seq(E)
  <2>. HIDE DEF ready, ev, E
  <2>1. events' \in [1 .. n -> E]
    BY <1>1, <1>3, <1>4
  <2>. HIDE DEF n
  <2>. QED  BY <2>1, <1>2
<1>9. \A f \in ready : \E k \in DOMAIN events' : events'[k].fd = f /\ events'[k].mask = Mask(f)
  <2>. HIDE DEF ready, ev, n
  <2>. QED  BY <1>4, <1>5, <1>6
<1>10. \A f \in Fd : file[f].epoll /\ file[f].edge => f \in ready
  OBVIOUS
<1>11. Listen \in ready <=> accEdge
  BY FdAssumption DEF Fd, Listen
<1>12. Mask(Listen) = {"in"}
  BY DEF Mask
<1>13. ListenEvents(events') = IF accEdge THEN 1 ELSE 0
  <2>. DEFINE S == {k \in DOMAIN events' : events'[k].fd = Listen}
  <2>. HIDE DEF ready, ev, n
  <2>1. S = {k \in 1 .. n : order[k] = Listen}
    BY <1>4, <1>6
  <2>2. CASE accEdge
    <3>1. PICK k \in 1 .. n : order[k] = Listen
      BY <1>5, <1>11, <2>2
    <3>2. S = {k}
      BY <2>1, <3>1, <1>7
    <3>. QED  BY <2>2, <3>2, FS_Singleton DEF ListenEvents
  <2>3. CASE ~accEdge
    <3>1. S = {}
      BY <2>1, <2>3, <1>11, <1>1
    <3>. QED  BY <2>3, <3>1, FS_EmptySet DEF ListenEvents
  <2>. QED  BY <2>2, <2>3
<1>. HIDE DEF ready, ev, n
<1>14. \A f \in Fd : file[f].epoll /\ file[f].edge =>
         \E k \in DOMAIN events' : events'[k].fd = f /\ events'[k].mask = Mask(f)
  BY <1>9, <1>10
<1>15. accEdge => \E k \in DOMAIN events' : events'[k].fd = Listen /\ "in" \in events'[k].mask
  BY <1>9, <1>11, <1>12
<1>. QED  BY <1>8, <1>13, <1>14, <1>15

-----------------------------------------------------------------------------
(* The inductive invariant. *)

Accepting == \/ AcceptNothing \/ AcceptFails \/ AcceptSession \/ AcceptHalf
             \/ AcceptUnregistered \/ AcceptOrphaned

\* The event that an accept puts back is well-formed.
LEMMA ListenEvent ==
  /\ Event(Listen, {"in"}, None) \in EventWith({{"in"}, {"error"}})
  /\ Event(Listen, {"in"}, None).fd = Listen
  /\ Event(Listen, {"in"}, None).mask = {"in"}
BY DEF Event, EventWith

\* So is the error event that a channel enqueues.
LEMMA ErrorEvent ==
  ASSUME TypeOK, NEW f \in Fd
  PROVE  /\ Event(f, {"error"}, file[f].sess) \in EventWith({{"in"}, {"error"}})
         /\ Event(f, {"error"}, file[f].sess).fd = f
<1>1. file[f].sess \in Session \cup {None}
  BY DEF TypeOK, FileState
<1>. QED  BY <1>1 DEF Event, EventWith

\* A head of the batch that is not the listener's belongs to a descriptor.
LEMMA HeadIsEvent ==
  ASSUME EventInv, events # <<>>
  PROVE  /\ Head(events).fd \in Fd \cup {Listen}
         /\ Head(events).mask \in {{"in"}, {"error"}, {"in", "error"}}
<1>. DEFINE E == EventWith({{"in"}, {"error"}, {"in", "error"}})
<1>1. Head(events) \in E
  <2>. HIDE DEF E
  <2>1. events \in Seq(E)
    BY DEF EventInv, E
  <2>. QED  BY <2>1
<1>. QED  BY <1>1 DEF EventWith

\* Every step leaves well-formed events in the batch and in the queue.
LEMMA EventsKept ==
  ASSUME TypeOK, EventInv, Next
  PROVE  EventInv'
<1>. DEFINE E == EventWith({{"in"}, {"error"}, {"in", "error"}})
            Q == EventWith({{"in"}, {"error"}})
<1>1. events \in Seq(E) /\ queue \in Seq(Q) /\ accEdge \in BOOLEAN
  BY DEF EventInv
<1>2. Q \subseteq E
  BY DEF EventWith
<1>3. SUFFICES events' \in Seq(E) /\ queue' \in Seq(Q) /\ accEdge' \in BOOLEAN
  BY DEF EventInv
<1>4. CASE ClientConnects \/ \E f \in Fd, state \in {"finished", "reset"} : PeerActs(f, state)
  BY <1>1, <1>4 DEF ClientConnects, PeerActs, busVars
<1>5. CASE EpollWait
  <2>1. events' \in Seq(E)
    BY <1>5, Reported
  <2>. QED  BY <1>1, <1>5, <2>1 DEF EpollWait
<1>6. CASE SwapQueue
  <2>. HIDE DEF E, Q
  <2>1. queue \in Seq(E)
    BY <1>1, <1>2
  <2>. QED  BY <1>1, <1>6, <2>1 DEF SwapQueue, kernelVars
<1>7. CASE Accepting
  <2>1. events' = Tail(events) /\ events # <<>>
    BY <1>7 DEF Accepting, AcceptNothing, AcceptFails, AcceptSession, AcceptHalf,
                AcceptUnregistered, AcceptOrphaned, OnListen, Take
  <2>2. queue' = queue \/ queue' = Append(queue, Event(Listen, {"in"}, None))
    BY <1>7 DEF Accepting, AcceptNothing, AcceptFails, AcceptSession, AcceptHalf,
                AcceptUnregistered, AcceptOrphaned, Rearm, Enqueue
  <2>3. accEdge' = accEdge
    BY <1>7 DEF Accepting, AcceptNothing, AcceptFails, AcceptSession, AcceptHalf,
                AcceptUnregistered, AcceptOrphaned, kernelVars
  <2>4. Event(Listen, {"in"}, None) \in Q
    BY ListenEvent
  <2>. HIDE DEF E, Q
  <2>. QED  BY <1>1, <2>1, <2>2, <2>3, <2>4, SMTT(30)
<1>8. CASE Ignore \/ Read \/ CloseSession
  <2>1. events' = Tail(events) /\ events # <<>> /\ Head(events).fd \in Fd
    BY <1>8, HeadIsEvent DEF Ignore, Read, CloseSession, OnSession, Take
  <2>2. queue' = queue \/ queue' = Append(queue, Event(Head(events).fd, {"error"}, file[Head(events).fd].sess))
    BY <1>8 DEF Ignore, Read, CloseSession, Enqueue
  <2>3. accEdge' = accEdge
    BY <1>8 DEF Ignore, Read, CloseSession, kernelVars
  <2>4. Event(Head(events).fd, {"error"}, file[Head(events).fd].sess) \in Q
    BY <2>1, ErrorEvent
  <2>. HIDE DEF E, Q
  <2>. QED  BY <1>1, <2>1, <2>2, <2>3, <2>4
<1>. QED  BY <1>4, <1>5, <1>6, <1>7, <1>8 DEF Next, Loop, Accepting

\* RegistryInv, one descriptor at a time: x is its open socket, y its entry in
\* the map, F the descriptors of the sessions, n the number of sessions.
Agrees(f, x, y, F, n) ==
  /\ x.state = "free" => x = Free /\ y = None
  /\ x.epoll => y # None
  /\ y \in Session => y <= n /\ x.epoll /\ x.sess = y /\ f \in F[y]
  /\ \A s \in Session : f \in F[s] => y = s
  /\ x # Free /\ y \notin Session => x.state = "reset" \/ x.sess = None

Whole(F) == \A s \in Session : Cardinality(F[s]) \in {0, width}

\* The registries agree if they do for each descriptor,
LEMMA EachAgrees ==
  RegistryInv <=> Whole(fds) /\ \A f \in Fd : Agrees(f, file[f], map[f], fds, started)
<1>1. ASSUME RegistryInv, NEW f \in Fd
      PROVE  Agrees(f, file[f], map[f], fds, started)
  BY <1>1, Zenon DEF RegistryInv, FreeInv, RegistrationsAgree, OnlyKnownLeaks, Agrees
<1>2. ASSUME \A f \in Fd : Agrees(f, file[f], map[f], fds, started), Whole(fds)
      PROVE  RegistryInv
  <2>1. FreeInv
    BY <1>2, Zenon DEF FreeInv, Agrees
  <2>2. RegistrationsAgree
    BY <1>2, Zenon DEF RegistrationsAgree, Agrees, Whole
  <2>3. OnlyKnownLeaks
    BY <1>2, Zenon DEF OnlyKnownLeaks, Agrees
  <2>. QED  BY <2>1, <2>2, <2>3 DEF RegistryInv
<1>3. RegistryInv => Whole(fds)
  BY DEF RegistryInv, RegistrationsAgree, Whole
<1>. QED  BY <1>1, <1>2, <1>3, Zenon

\* and so in the next state.
LEMMA EachAgreesNext ==
  RegistryInv' <=> /\ Whole(fds)'
                   /\ \A f \in Fd : Agrees(f, file'[f], map'[f], fds', started')
<1>1. (RegistryInv <=> Whole(fds) /\ \A f \in Fd : Agrees(f, file[f], map[f], fds, started))'
  BY EachAgrees, PTL
<1>2. (\A f \in Fd : Agrees(f, file[f], map[f], fds, started))'
        <=> \A f \in Fd : Agrees(f, file'[f], map'[f], fds', started')
  BY Zenon DEF Agrees
<1>. QED  BY <1>1, <1>2

\* What the steps but those of the registries leave of TypeOK.
Registries == /\ file \in [Fd -> FileState]
              /\ map \in [Fd -> Session \cup {None, Nobody}]
              /\ fds \in [Session -> SUBSET Fd]

\* The states of a descriptor's socket that the actions assign.
LEMMA FileStates ==
  /\ Free \in FileState
  /\ \A x \in FileState, state \in {"finished", "reset"} :
        [x EXCEPT !.state = state, !.edge = TRUE] \in FileState
  /\ \A x \in FileState : [x EXCEPT !.edge = FALSE] \in FileState
  /\ \A x \in FileState : [x EXCEPT !.epoll = FALSE, !.edge = FALSE] \in FileState
  /\ \A c \in BOOLEAN : [Free EXCEPT !.state = "up", !.epoll = c, !.edge = c] \in FileState
  /\ [Free EXCEPT !.state = "up"] \in FileState
BY DEF FileState, Free

\* The kernel hands out free descriptors only.
LEMMA LowestFreeIsFree ==
  ASSUME NEW n
  PROVE  LowestFree(n) \subseteq {f \in Fd : file[f] = Free}
BY DEF LowestFree

\* The names of no session are not sessions.
LEMMA ConstantFacts ==
  /\ MaxClients \in Nat /\ Session = 1 .. MaxClients
  /\ None \notin Session /\ Nobody \notin Session /\ Nobody # None
BY FdAssumption DEF Session, None, Nobody

\* A peer closes or resets a connection: only a registered socket changes.
LEMMA PeerKeepsRegistry ==
  ASSUME Registries, RegistryInv, UNCHANGED width,
         NEW f \in Fd, NEW state \in {"finished", "reset"}, PeerActs(f, state)
  PROVE  Registries' /\ RegistryInv'
<1>1. /\ map' = map /\ fds' = fds /\ started' = started
      /\ file' = [file EXCEPT ![f].state = state, ![f].edge = TRUE]
      /\ file[f].epoll /\ file[f].state \in {"up", "finished"}
  BY DEF PeerActs
<1>2. file' = [file EXCEPT ![f] = [file[f] EXCEPT !.state = state, !.edge = TRUE]]
  BY <1>1 DEF Registries, FileState
<1>3. file'[f] = [file[f] EXCEPT !.state = state, !.edge = TRUE] /\ file[f] \in FileState
  BY <1>2 DEF Registries
<1>4. Registries'
  <2>1. [file[f] EXCEPT !.state = state, !.edge = TRUE] \in FileState
    BY <1>3, FileStates
  <2>. HIDE DEF FileState
  <2>. QED  BY <1>1, <1>2, <2>1 DEF Registries
<1>5. \A g \in Fd : g # f => file'[g] = file[g]
  BY <1>2 DEF Registries
<1>6. Agrees(f, file[f], map[f], fds, started) => Agrees(f, file'[f], map[f], fds, started)
  <2>. DEFINE y == [file[f] EXCEPT !.state = state, !.edge = TRUE]
  <2>1. y.state = state /\ y.sess = file[f].sess /\ state # "free"
    BY <1>3 DEF FileState
  <2>3. y.epoll = file[f].epoll
    BY <1>3 DEF FileState
  <2>4. file[f] # Free /\ file[f].state # "free"
    BY <1>1 DEF Free
  <2>2. file'[f] = y
    BY <1>3
  <2>. HIDE DEF y
  <2>. QED  BY <1>1, <2>1, <2>2, <2>3, <2>4, Zenon DEF Agrees
<1>7. \A g \in Fd : Agrees(g, file[g], map[g], fds, started) => Agrees(g, file'[g], map[g], fds, started)
  BY <1>5, <1>6
<1>8. Whole(fds)' <=> Whole(fds)
  BY <1>1 DEF Whole
<1>. QED  BY <1>1, <1>4, <1>7, <1>8, EachAgrees, EachAgreesNext

\* epoll_wait reports the edges and clears them.
LEMMA WaitKeepsRegistry ==
  ASSUME Registries, RegistryInv, UNCHANGED width, EpollWait
  PROVE  Registries' /\ RegistryInv'
<1>1. /\ map' = map /\ fds' = fds /\ started' = started
      /\ file' = [f \in Fd |-> [file[f] EXCEPT !.edge = FALSE]]
  BY DEF EpollWait
<1>2. \A f \in Fd : file[f] \in FileState /\ file'[f] = [file[f] EXCEPT !.edge = FALSE]
  BY <1>1 DEF Registries
<1>3. Registries'
  <2>1. \A f \in Fd : [file[f] EXCEPT !.edge = FALSE] \in FileState
    BY <1>2, FileStates
  <2>. QED  BY <1>1, <2>1 DEF Registries
<1>4. ASSUME NEW f \in Fd, Agrees(f, file[f], map[f], fds, started)
      PROVE  Agrees(f, file'[f], map[f], fds, started)
  <2>. DEFINE x == file[f]
              y == [x EXCEPT !.edge = FALSE]
  <2>1. y.state = x.state /\ y.sess = x.sess
    BY <1>2 DEF FileState
  <2>2. y.epoll = x.epoll
    BY <1>2 DEF FileState
  <2>3. x = Free => y = Free
    <3>1. ASSUME NEW a, NEW b, NEW c, NEW d
          PROVE  [[sess |-> a, state |-> b, epoll |-> c, edge |-> d] EXCEPT !.edge = d]
                   = [sess |-> a, state |-> b, epoll |-> c, edge |-> d]
      OBVIOUS
    <3>2. PICK no : no = FALSE
      OBVIOUS
    <3>3. Free = [sess |-> None, state |-> "free", epoll |-> no, edge |-> no]
      BY <3>2, Zenon DEF Free
    <3>4. [Free EXCEPT !.edge = no] = Free
      BY <3>1, <3>3
    <3>5. y = [x EXCEPT !.edge = no]
      BY <3>2, Zenon
    <3>. QED  BY <3>4, <3>5, Zenon
  <2>4. file'[f] = y
    BY <1>2
  <2>. HIDE DEF y
  <2>. QED  BY <1>4, <2>1, <2>2, <2>3, <2>4, Zenon DEF Agrees
<1>5. Whole(fds)' <=> Whole(fds)
  BY <1>1 DEF Whole
<1>. QED  BY <1>1, <1>3, <1>4, <1>5, EachAgrees, EachAgreesNext

\* A descriptor that is free is nobody's, so it may be left open without a
\* session, in the map only if Nobody can close it.
LEMMA LeftOpen ==
  ASSUME NEW f, NEW F, NEW n, NEW x, NEW y, NEW z \in FileState, NEW u,
         Agrees(f, x, y, F, n), x = Free,
         z.state = "up", z.sess = None, u \in {None, Nobody}, z.epoll => u = Nobody
  PROVE  Agrees(f, z, u, F, n)
<1>1. y = None
  BY DEF Agrees, Free
<1>2. \A s \in Session : f \notin F[s]
  BY <1>1, ConstantFacts, Zenon DEF Agrees
<1>3. u \notin Session /\ Nobody # None /\ "up" # "free"
  BY ConstantFacts
<1>. QED  BY <1>2, <1>3, Zenon DEF Agrees

\* A session that is not made leaves descriptors open, and only them changed.
LEMMA FailureKeepsRegistry ==
  ASSUME Registries, RegistryInv, UNCHANGED width,
         AcceptHalf \/ AcceptUnregistered \/ AcceptOrphaned
  PROVE  Registries' /\ RegistryInv'
<1>. DEFINE up == [Free EXCEPT !.state = "up"]
            half(c) == [Free EXCEPT !.state = "up", !.epoll = c, !.edge = c]
<1>1. /\ fds' = fds /\ started' = started
      /\ DOMAIN file' = Fd /\ (map' = map \/ DOMAIN map' = Fd)
  BY DEF AcceptHalf, AcceptUnregistered, AcceptOrphaned
<1>2. /\ up \in FileState /\ up.state = "up" /\ up.sess = None
      /\ ~ up.epoll
  BY FileStates DEF Free
<1>3. ASSUME NEW c \in BOOLEAN
      PROVE  half(c) \in FileState /\ half(c).state = "up" /\ half(c).sess = None
  BY FileStates DEF Free
<1>4. ASSUME NEW f \in Fd
      PROVE  \/ file'[f] = file[f] /\ map'[f] = map[f]
             \/ /\ file[f] = Free
                /\ file'[f] \in FileState /\ file'[f].state = "up" /\ file'[f].sess = None
                /\ \/ map'[f] = map[f] /\ ~ file'[f].epoll
                   \/ map'[f] = Nobody
  <2>. HIDE DEF up
  <2>1. CASE AcceptHalf
    <3>1. file'[f] = (IF f \in LowestFree(1) THEN up ELSE file[f]) /\ map' = map
      BY <2>1 DEF AcceptHalf, up
    <3>. QED  BY <3>1, <1>2, LowestFreeIsFree
  <2>2. CASE AcceptUnregistered
    <3>1. file'[f] = (IF f \in LowestFree(width) THEN up ELSE file[f]) /\ map' = map
      BY <2>2 DEF AcceptUnregistered, up
    <3>. QED  BY <3>1, <1>2, LowestFreeIsFree
  <2>3. CASE AcceptOrphaned
    <3>1. file'[f] = IF f \in LowestFree(2) THEN half(f \in LowestFree(1)) ELSE file[f]
      BY <2>3 DEF AcceptOrphaned
    <3>2. map'[f] = IF f \in LowestFree(2) THEN Nobody ELSE map[f]
      BY <2>3 DEF AcceptOrphaned
    <3>3. (f \in LowestFree(1)) \in BOOLEAN
      OBVIOUS
    <3>4. f \in LowestFree(2) => file[f] = Free
      BY LowestFreeIsFree
    <3>. HIDE DEF half
    <3>5. CASE f \in LowestFree(2)
      BY <3>1, <3>2, <3>3, <3>4, <3>5, <1>3
    <3>6. CASE f \notin LowestFree(2)
      BY <3>1, <3>2, <3>6
    <3>. QED  BY <3>5, <3>6
  <2>. QED  BY <2>1, <2>2, <2>3
<1>5. ASSUME NEW f \in Fd
      PROVE  file'[f] \in FileState /\ map'[f] \in Session \cup {None, Nobody}
  BY <1>4 DEF Registries
<1>6. Registries'
  <2>1. file' \in [Fd -> FileState]
    <3>1. file' = [f \in Fd |-> file'[f]]
      BY DEF AcceptHalf, AcceptUnregistered, AcceptOrphaned
    <3>. QED  BY <3>1, <1>5
  <2>2. map' \in [Fd -> Session \cup {None, Nobody}]
    <3>1. map' = [f \in Fd |-> map'[f]]
      BY DEF AcceptHalf, AcceptUnregistered, AcceptOrphaned, Registries
    <3>. QED  BY <3>1, <1>5
  <2>. QED  BY <1>1, <2>1, <2>2 DEF Registries
<1>7. ASSUME NEW f \in Fd, Agrees(f, file[f], map[f], fds, started)
      PROVE  Agrees(f, file'[f], map'[f], fds, started)
  <2>1. CASE file'[f] = file[f] /\ map'[f] = map[f]
    BY <1>7, <2>1
  <2>2. CASE ~(file'[f] = file[f] /\ map'[f] = map[f])
    <3>1. /\ file[f] = Free
          /\ file'[f] \in FileState /\ file'[f].state = "up" /\ file'[f].sess = None
          /\ (map'[f] = map[f] /\ ~ file'[f].epoll) \/ map'[f] = Nobody
      BY <1>4, <2>2, Zenon
    <3>2. map[f] = None
      BY <1>7, <3>1 DEF Agrees, Free
    <3>3. map'[f] \in {None, Nobody}
      BY <3>1, <3>2, Zenon
    <3>4. file'[f].epoll => map'[f] = Nobody
      BY <3>1, Zenon
    <3>. QED  BY <1>7, <3>1, <3>3, <3>4, LeftOpen
  <2>. QED  BY <2>1, <2>2
<1>8. Whole(fds)' <=> Whole(fds)
  BY <1>1 DEF Whole
<1>. QED  BY <1>1, <1>6, <1>7, <1>8, EachAgrees, EachAgreesNext

\* A session starts with free descriptors, under a number that is not used yet.
LEMMA StartKeepsRegistry ==
  ASSUME Registries, RegistryInv, UNCHANGED width, AcceptSession,
         started \in Nat, started + 1 \in Session
  PROVE  Registries' /\ RegistryInv'
<1>. DEFINE new == LowestFree(width)
            n == started + 1
            up(f) == [sess |-> n, state |-> "up", epoll |-> TRUE, edge |-> \A g \in new : f <= g]
<1>1. /\ started' = n
      /\ fds' = [fds EXCEPT ![n] = new]
      /\ map' = [f \in Fd |-> IF f \in new THEN n ELSE map[f]]
      /\ file' = [f \in Fd |-> IF f \in new THEN up(f) ELSE file[f]]
      /\ Cardinality(new) = width
  BY DEF AcceptSession, StartSession, AddToMap, AddToEpoll
<1>2. new \subseteq {f \in Fd : file[f] = Free}
  BY LowestFreeIsFree
<1>3. \A f : up(f) \in FileState
  BY DEF FileState
<1>4. \A f : up(f).state = "up" /\ up(f).sess = n
  OBVIOUS
<1>5. \A f : up(f).epoll
  OBVIOUS
<1>. HIDE DEF up, new
<1>6. Registries'
  <2>1. file' \in [Fd -> FileState]
    BY <1>1, <1>3 DEF Registries
  <2>2. map' \in [Fd -> Session \cup {None, Nobody}]
    BY <1>1 DEF Registries
  <2>3. fds' \in [Session -> SUBSET Fd]
    BY <1>1, <1>2 DEF Registries
  <2>. QED  BY <2>1, <2>2, <2>3 DEF Registries
<1>7. \A t \in Session : fds'[t] = IF t = n THEN new ELSE fds[t]
  BY <1>1 DEF Registries
<1>8. ASSUME NEW f \in Fd, Agrees(f, file[f], map[f], fds, started)
      PROVE  Agrees(f, file'[f], map'[f], fds', started')
  <2>1. \A t \in Session : map[f] = t => t # n
    <3>1. map[f] \in Session => map[f] <= started
      BY <1>8 DEF Agrees
    <3>. QED  BY <3>1, ConstantFacts
  <2>2. CASE f \in new
    <3>1. file'[f] = up(f) /\ map'[f] = n
      BY <1>1, <2>2
    <3>2. map[f] = None
      BY <1>2, <1>8, <2>2 DEF Agrees, Free
    <3>3. \A t \in Session : f \notin fds[t]
      BY <1>8, <3>2, ConstantFacts, Zenon DEF Agrees
    <3>4. \A t \in Session : f \in fds'[t] <=> t = n
      BY <1>7, <2>2, <3>3
    <3>5. n <= started' /\ "up" # "free" /\ n \in Session /\ n # None
      BY <1>1, ConstantFacts
    <3>. HIDE DEF n
    <3>. QED  BY <3>1, <3>4, <3>5, <1>4, <1>5, Zenon DEF Agrees
  <2>3. CASE f \notin new
    <3>1. file'[f] = file[f] /\ map'[f] = map[f]
      BY <1>1, <2>3
    <3>2. \A t \in Session : t # n => (f \in fds'[t] <=> f \in fds[t])
      BY <1>7
    <3>3. f \notin fds'[n]
      BY <1>7, <2>3
    <3>4. map[f] \in Session => map[f] <= started'
      <4>1. map[f] \in Session => map[f] <= started
        BY <1>8 DEF Agrees
      <4>. QED  BY <1>1, <4>1, ConstantFacts
    <3>. HIDE DEF n
    <3>. QED  BY <1>8, <2>1, <3>1, <3>2, <3>3, <3>4, Zenon DEF Agrees
  <2>. QED  BY <2>2, <2>3
<1>9. Whole(fds) => Whole(fds)'
  <2>. HIDE DEF n
  <2>. QED  BY <1>1, <1>7 DEF Whole
<1>. QED  BY <1>6, <1>8, <1>9, EachAgrees, EachAgreesNext

\* The end of a session takes exactly its own descriptors out of everything.
LEMMA CloseKeepsRegistry ==
  ASSUME Registries, RegistryInv, UNCHANGED width, CloseSession
  PROVE  Registries' /\ RegistryInv'
<1>. DEFINE s == map[Head(events).fd]
            M == fds[s]
<1>1. /\ s \in Session /\ started' = started
      /\ map' = [f \in Fd |-> IF f \in M THEN None ELSE map[f]]
      /\ file' = [f \in Fd |-> IF f \in M THEN Destroyed(f) ELSE file[f]]
      /\ fds' = [t \in Session |-> fds[t] \ M]
  BY DEF CloseSession, Remove, Marked
<1>2. \A f \in Fd : Agrees(f, file[f], map[f], fds, started)
  BY EachAgrees
<1>3. \A f \in Fd : f \in M => map[f] = s
  BY <1>1, <1>2 DEF Agrees
<1>4. M \subseteq Fd
  BY <1>1 DEF Registries
<1>5. \A f \in Fd : \/ Destroyed(f) = Free
                    \/ /\ Destroyed(f) = [file[f] EXCEPT !.epoll = FALSE, !.edge = FALSE]
                       /\ file[f].state = "reset"
  BY DEF Destroyed
<1>6. ASSUME NEW f \in Fd
      PROVE  /\ Destroyed(f) \in FileState
             /\ Destroyed(f).state = "free" => Destroyed(f) = Free
             /\ Destroyed(f) # Free => Destroyed(f).state = "reset"
             /\ ~ Destroyed(f).epoll
  <2>. DEFINE z == [file[f] EXCEPT !.epoll = FALSE, !.edge = FALSE]
  <2>1. file[f] \in FileState
    BY DEF Registries
  <2>2. z \in FileState /\ z.state = file[f].state
    BY <2>1, FileStates, ZenonT(30) DEF FileState
  <2>3. ~ z.epoll
    BY <2>1 DEF FileState
  <2>4. Free \in FileState
    BY FileStates
  <2>5. ~ Free.epoll
    BY DEF Free
  <2>6. Destroyed(f) = Free \/ (Destroyed(f) = z /\ z.state = "reset")
    BY <1>5, <2>2
  <2>7. "reset" # "free"
    OBVIOUS
  <2>. HIDE DEF z
  <2>. QED  BY <2>2, <2>3, <2>4, <2>5, <2>6, <2>7, Zenon
<1>. HIDE DEF M, s
<1>7. Registries'
  <2>1. file' \in [Fd -> FileState]
    BY <1>1, <1>6 DEF Registries
  <2>2. map' \in [Fd -> Session \cup {None, Nobody}]
    BY <1>1 DEF Registries
  <2>3. fds' \in [Session -> SUBSET Fd]
    BY <1>1 DEF Registries
  <2>. QED  BY <2>1, <2>2, <2>3 DEF Registries
<1>8. \A t \in Session : fds'[t] = IF t = s THEN {} ELSE fds[t]
  <2>. SUFFICES ASSUME NEW t \in Session
               PROVE  fds'[t] = IF t = s THEN {} ELSE fds[t]
    OBVIOUS
  <2>1. fds'[t] = fds[t] \ M
    BY <1>1
  <2>2. CASE t = s
    BY <2>1, <2>2 DEF M
  <2>3. CASE t # s
    <3>1. fds[t] \subseteq Fd
      BY DEF Registries
    <3>2. \A f \in fds[t] : map[f] = t
      BY <1>2, <3>1 DEF Agrees
    <3>3. \A f \in fds[t] : f \notin M
      BY <1>3, <2>3, <3>1, <3>2
    <3>. QED  BY <2>1, <2>3, <3>3
  <2>. QED  BY <2>2, <2>3
<1>9. ASSUME NEW f \in Fd
      PROVE  Agrees(f, file'[f], map'[f], fds', started')
  <2>1. \A t \in Session : fds'[t] = fds[t] \ M
    BY <1>1
  <2>2. CASE f \in M
    <3>1. file'[f] = Destroyed(f) /\ map'[f] = None
      BY <1>1, <2>2
    <3>2. \A t \in Session : f \notin fds'[t]
      BY <2>1, <2>2
    <3>. QED  BY <3>1, <3>2, <1>6, ConstantFacts, Zenon DEF Agrees
  <2>3. CASE f \notin M
    <3>1. file'[f] = file[f] /\ map'[f] = map[f]
      BY <1>1, <2>3
    <3>2. \A t \in Session : f \in fds'[t] <=> f \in fds[t]
      BY <2>1, <2>3
    <3>. QED  BY <1>1, <1>2, <3>1, <3>2, Zenon DEF Agrees
  <2>. QED  BY <2>2, <2>3
<1>10. Whole(fds) => Whole(fds)'
  <2>1. Cardinality({}) = 0
    BY FS_EmptySet
  <2>. QED  BY <1>8, <2>1 DEF Whole
<1>. QED  BY <1>7, <1>9, <1>10, EachAgrees, EachAgreesNext

\* The connections: every accept takes one from the backlog, and at most one
\* session is made of it.
LEMMA CountsKept ==
  ASSUME TypeOK, CountInv, Next
  PROVE  /\ CountInv' /\ width' \in Widths
         /\ arrived' \in 0 .. MaxClients /\ backlog' \in 0 .. arrived'
         /\ started' \in 0 .. MaxClients
         /\ phase' \in {"epoll", "queue"}
         /\ AcceptSession => started + 1 \in Session
<1>1. /\ MaxClients \in Nat /\ arrived \in Nat /\ backlog \in Nat /\ started \in Nat
      /\ arrived <= MaxClients /\ backlog <= arrived /\ started + backlog <= arrived
      /\ width \in Widths /\ phase \in {"epoll", "queue"}
  BY ConstantFacts DEF TypeOK, CountInv
<1>2. \/ arrived' = arrived /\ backlog' = backlog /\ started' = started
      \/ /\ arrived < MaxClients
         /\ arrived' = arrived + 1 /\ backlog' = backlog + 1 /\ started' = started
      \/ /\ backlog > 0 /\ arrived' = arrived /\ backlog' = backlog - 1
         /\ started' = started \/ started' = started + 1
  BY DEF Next, Loop, ClientConnects, PeerActs, EpollWait, SwapQueue, AcceptNothing,
         AcceptFails, AcceptSession, AcceptHalf, AcceptUnregistered, AcceptOrphaned,
         StartSession, Ignore, Read, CloseSession, kernelVars
<1>3. /\ CountInv' /\ arrived' \in 0 .. MaxClients /\ backlog' \in 0 .. arrived'
      /\ started' \in 0 .. MaxClients
  BY <1>1, <1>2 DEF CountInv
<1>4. width' \in Widths
  BY <1>1 DEF Next
<1>5. phase' \in {"epoll", "queue"}
  BY <1>1 DEF Next, Loop, ClientConnects, PeerActs, EpollWait, SwapQueue, AcceptNothing,
         AcceptFails, AcceptSession, AcceptHalf, AcceptUnregistered, AcceptOrphaned,
         Ignore, Read, CloseSession, OnListen, OnSession, Take, busVars
<1>6. AcceptSession => started + 1 \in Session
  <2>1. AcceptSession => backlog > 0
    BY DEF AcceptSession
  <2>. QED  BY <1>1, <2>1, ConstantFacts
<1>. QED  BY <1>3, <1>4, <1>5, <1>6

\* The registries agree after every step.
LEMMA RegistriesKept ==
  ASSUME TypeOK, EventInv, CountInv, RegistryInv, Next
  PROVE  TypeOK' /\ CountInv' /\ RegistryInv'
<1>1. Registries /\ width' = width /\ started \in Nat
  BY ConstantFacts DEF TypeOK, Registries, Next
<1>2. Registries' /\ RegistryInv'
  <2>1. CASE UNCHANGED <<file, map, fds, started>>
    <3>1. Registries'
      BY <1>1, <2>1 DEF Registries
    <3>2. RegistryInv'
      BY <1>1, <2>1 DEF RegistryInv, FreeInv, RegistrationsAgree, OnlyKnownLeaks
    <3>. QED  BY <3>1, <3>2
  <2>2. CASE \E f \in Fd, state \in {"finished", "reset"} : PeerActs(f, state)
    BY <1>1, <2>2, PeerKeepsRegistry
  <2>3. CASE EpollWait
    BY <1>1, <2>3, WaitKeepsRegistry
  <2>4. CASE AcceptHalf \/ AcceptUnregistered \/ AcceptOrphaned
    BY <1>1, <2>4, FailureKeepsRegistry
  <2>5. CASE AcceptSession
    <3>1. started + 1 \in Session
      BY <2>5, CountsKept
    <3>. QED  BY <1>1, <2>5, <3>1, StartKeepsRegistry
  <2>6. CASE CloseSession
    BY <1>1, <2>6, CloseKeepsRegistry
  <2>7. ClientConnects \/ SwapQueue \/ AcceptNothing \/ AcceptFails \/ Ignore \/ Read
          => UNCHANGED <<file, map, fds, started>>
    BY DEF ClientConnects, SwapQueue, AcceptNothing, AcceptFails, Ignore, Read, kernelVars
  <2>. QED  BY <2>1, <2>2, <2>3, <2>4, <2>5, <2>6, <2>7, Zenon DEF Next, Loop
<1>3. failed' \in BOOLEAN
  <2>1. failed' = failed \/ failed' = (failed \/ backlog > 0)
    BY DEF Next, Loop, ClientConnects, PeerActs, EpollWait, SwapQueue, AcceptNothing,
         AcceptFails, AcceptSession, AcceptHalf, AcceptUnregistered, AcceptOrphaned,
         Ignore, Read, CloseSession
  <2>. QED  BY <2>1 DEF TypeOK
<1>4. \A k \in DOMAIN queue' : queue'[k].mask \in {{"in"}, {"error"}}
  <2>. DEFINE Q == EventWith({{"in"}, {"error"}})
  <2>1. queue' \in Seq(Q)
    BY EventsKept DEF EventInv
  <2>2. \A k \in DOMAIN queue' : queue'[k] \in Q
    <3>. HIDE DEF Q
    <3>. QED  BY <2>1
  <2>. QED  BY <2>2 DEF EventWith
<1>. QED  BY <1>2, <1>3, <1>4, CountsKept DEF TypeOK, Registries

-----------------------------------------------------------------------------
(* The events under way. *)

\* Handling one event leaves every other one pending.
LEMMA OthersPending ==
  ASSUME EventInv, events # <<>>, events' = Tail(events),
         NEW e \in EventWith({{"in"}, {"error"}}),
         queue' = queue \/ queue' = Append(queue, e),
         NEW f, NEW flag, Pending(f, flag),
         ~ (Head(events).fd = f /\ flag \in Head(events).mask)
  PROVE  Pending(f, flag)'
<1>1. CASE Among(events, f, flag)
  <2>1. Among(Tail(events), f, flag)
    BY <1>1, TailKeeps DEF EventInv
  <2>. QED  BY <2>1, Zenon DEF Pending, Among
<1>2. CASE Among(queue, f, flag)
  <2>1. Among(Append(queue, e), f, flag)
    BY <1>2, AppendKeeps DEF EventInv
  <2>. QED  BY <1>2, <2>1, Zenon DEF Pending, Among
<1>. QED  BY <1>1, <1>2 DEF Pending

\* What is put back is pending.
LEMMA PutBackPending ==
  ASSUME EventInv, NEW e \in EventWith({{"in"}, {"error"}}),
         queue' = Append(queue, e), NEW flag, flag \in e.mask
  PROVE  Pending(e.fd, flag)'
<1>1. Among(Append(queue, e), e.fd, flag)
  BY AppendKeeps DEF EventInv
<1>. QED  BY <1>1, Zenon DEF Pending, Among

\* What an accept does to the events and to the sockets that were open before.
LEMMA AcceptingStep ==
  ASSUME Accepting
  PROVE  /\ events # <<>> /\ events' = Tail(events) /\ Head(events).fd = Listen
         /\ \/ AcceptFails /\ queue' = queue /\ backlog' = backlog /\ failed' = (failed \/ backlog > 0)
            \/ queue' = Append(queue, Event(Listen, {"in"}, None)) /\ failed' = failed
         /\ accEdge' = accEdge /\ arrived' = arrived
         /\ \A f \in Fd : file'[f].state = "reset" => file'[f] = file[f] /\ map'[f] = map[f]
<1>1. events # <<>> /\ events' = Tail(events) /\ Head(events).fd = Listen
  BY DEF Accepting, AcceptNothing, AcceptFails, AcceptSession, AcceptHalf,
         AcceptUnregistered, AcceptOrphaned, OnListen, Take
<1>2. \/ AcceptFails /\ queue' = queue /\ backlog' = backlog /\ failed' = (failed \/ backlog > 0)
      \/ queue' = Append(queue, Event(Listen, {"in"}, None)) /\ failed' = failed
  BY DEF Accepting, AcceptNothing, AcceptFails, AcceptSession, AcceptHalf,
         AcceptUnregistered, AcceptOrphaned, Rearm, Enqueue, kernelVars
<1>3. accEdge' = accEdge /\ arrived' = arrived
  BY DEF Accepting, AcceptNothing, AcceptFails, AcceptSession, AcceptHalf,
         AcceptUnregistered, AcceptOrphaned, kernelVars
<1>4. ASSUME NEW f \in Fd, file'[f].state = "reset"
      PROVE  file'[f] = file[f] /\ map'[f] = map[f]
  <2>1. CASE AcceptNothing \/ AcceptFails
    BY <2>1 DEF AcceptNothing, AcceptFails, kernelVars
  <2>2. CASE AcceptSession
    BY <1>4, <2>2 DEF AcceptSession, StartSession, AddToMap, AddToEpoll
  <2>3. CASE AcceptHalf \/ AcceptUnregistered
    BY <1>4, <2>3 DEF AcceptHalf, AcceptUnregistered, Free
  <2>4. CASE AcceptOrphaned
    BY <1>4, <2>4 DEF AcceptOrphaned, Free
  <2>. QED  BY <2>1, <2>2, <2>3, <2>4 DEF Accepting
<1>. QED  BY <1>1, <1>2, <1>3, <1>4

\* What the handling of a session's event does to the events.
LEMMA SessionStep ==
  ASSUME TypeOK, EventInv, Ignore \/ Read \/ CloseSession
  PROVE  /\ events # <<>> /\ events' = Tail(events) /\ Head(events).fd \in Fd
         /\ \E e \in EventWith({{"in"}, {"error"}}) :
              e.fd \in Fd /\ (queue' = queue \/ queue' = Append(queue, e))
         /\ UNCHANGED <<accEdge, arrived, backlog, failed>>
<1>1. events # <<>> /\ events' = Tail(events) /\ Head(events).fd \in Fd
  BY HeadIsEvent DEF Ignore, Read, CloseSession, OnSession, Take
<1>. DEFINE f == Head(events).fd
            e == Event(f, {"error"}, file[f].sess)
<1>2. queue' = queue \/ queue' = Append(queue, e)
  BY DEF Ignore, Read, CloseSession, Enqueue
<1>3. e \in EventWith({{"in"}, {"error"}}) /\ e.fd \in Fd
  BY <1>1, ErrorEvent
<1>4. UNCHANGED <<accEdge, arrived, backlog, failed>>
  BY DEF Ignore, Read, CloseSession, kernelVars
<1>. HIDE DEF e
<1>. QED  BY <1>1, <1>2, <1>3, <1>4

\* A waiting connection has an edge, an event or a failure to show for it.
LEMMA BacklogKept ==
  ASSUME TypeOK, EventInv, BacklogNoticed, Next
  PROVE  BacklogNoticed'
<1>. DEFINE Known == accEdge \/ Pending(Listen, "in") \/ failed
<1>0. backlog > 0 => Known
  BY DEF BacklogNoticed
<1>. SUFFICES ASSUME (backlog > 0)' PROVE Known'
  BY DEF BacklogNoticed
<1>1. CASE ClientConnects
  BY <1>1 DEF ClientConnects
<1>2. CASE \E f \in Fd, state \in {"finished", "reset"} : PeerActs(f, state)
  <2>1. UNCHANGED <<backlog, accEdge, failed, busVars>>
    BY <1>2 DEF PeerActs
  <2>. QED  BY <1>0, <2>1, Zenon DEF Pending, Among, busVars
<1>3. CASE EpollWait
  <2>1. backlog' = backlog /\ failed' = failed /\ queue' = queue /\ events = <<>>
    BY <1>3 DEF EpollWait
  <2>2. CASE accEdge
    <3>1. Among(events', Listen, "in")
      BY <1>3, <2>2, Reported, Zenon DEF Among
    <3>. QED  BY <3>1, Zenon DEF Pending, Among
  <2>3. CASE Pending(Listen, "in")
    <3>1. ~ Among(events, Listen, "in")
      BY <2>1 DEF Among
    <3>. QED  BY <2>1, <2>3, <3>1, Zenon DEF Pending, Among
  <2>. QED  BY <1>0, <2>1, <2>2, <2>3
<1>4. CASE SwapQueue
  <2>1. /\ backlog' = backlog /\ failed' = failed /\ accEdge' = accEdge
        /\ events' = queue /\ events = <<>>
    BY <1>4 DEF SwapQueue, kernelVars
  <2>2. ~ Among(events, Listen, "in")
    BY <2>1 DEF Among
  <2>. QED  BY <1>0, <2>1, <2>2, Zenon DEF Pending, Among
<1>5. CASE Accepting
  <2>1. CASE backlog' = backlog /\ failed' = (failed \/ backlog > 0)
    BY <2>1
  <2>2. CASE queue' = Append(queue, Event(Listen, {"in"}, None))
    <3>1. "in" \in {"in"}
      OBVIOUS
    <3>. QED  BY <2>2, <3>1, ListenEvent, PutBackPending
  <2>. QED  BY <1>5, <2>1, <2>2, AcceptingStep
<1>6. CASE Ignore \/ Read \/ CloseSession
  <2>1. PICK e \in EventWith({{"in"}, {"error"}}) :
          /\ events # <<>> /\ events' = Tail(events) /\ Head(events).fd \in Fd
          /\ queue' = queue \/ queue' = Append(queue, e)
          /\ UNCHANGED <<accEdge, backlog, failed>>
    BY <1>6, SessionStep
  <2>2. Head(events).fd # Listen
    BY <2>1, FdAssumption DEF Fd, Listen
  <2>3. Pending(Listen, "in") => Pending(Listen, "in")'
    BY <2>1, <2>2, OthersPending
  <2>. QED  BY <1>0, <2>1, <2>3
<1>. QED  BY <1>1, <1>2, <1>3, <1>4, <1>5, <1>6, Zenon DEF Next, Loop, Accepting

\* A reset connection of a session has an edge or an event.
LEMMA ResetKept ==
  ASSUME TypeOK, EventInv, RegistryInv, ResetNoticed, Next
  PROVE  ResetNoticed'
<1>. SUFFICES ASSUME NEW f \in Fd, file'[f].state = "reset", map'[f] \in Session
              PROVE  file'[f].edge \/ Pending(f, "error")'
  BY DEF ResetNoticed
<1>0. /\ file[f].state = "reset" /\ map[f] \in Session => file[f].edge \/ Pending(f, "error")
      /\ f # Listen /\ file[f] \in FileState /\ file \in [Fd -> FileState]
  BY FdAssumption DEF ResetNoticed, TypeOK, Fd, Listen
<1>1. CASE ClientConnects
  <2>1. UNCHANGED <<file, map, busVars>>
    BY <1>1 DEF ClientConnects
  <2>. QED  BY <1>0, <2>1, Zenon DEF Pending, Among, busVars
<1>2. ASSUME NEW g \in Fd, NEW state \in {"finished", "reset"}, PeerActs(g, state)
      PROVE  file'[f].edge \/ Pending(f, "error")'
  <2>1. /\ map' = map /\ events' = events /\ queue' = queue
        /\ file' = [file EXCEPT ![g].state = state, ![g].edge = TRUE]
    BY <1>2 DEF PeerActs, busVars
  <2>2. CASE g = f
    BY <1>0, <2>1, <2>2 DEF FileState
  <2>3. CASE g # f
    <3>1. file'[f] = file[f]
      BY <1>0, <2>1, <2>3
    <3>. QED  BY <1>0, <2>1, <3>1, Zenon DEF Pending, Among
  <2>. QED  BY <2>2, <2>3
<1>3. CASE EpollWait
  <2>1. /\ map' = map /\ queue' = queue /\ events = <<>>
        /\ file' = [g \in Fd |-> [file[g] EXCEPT !.edge = FALSE]]
    BY <1>3 DEF EpollWait
  <2>2. file[f].state = "reset"
    BY <1>0, <2>1 DEF FileState
  <2>3. CASE file[f].edge
    <3>1. file[f].epoll
      BY <2>1 DEF RegistryInv, RegistrationsAgree
    <3>2. PICK k \in DOMAIN events' : events'[k].fd = f /\ events'[k].mask = Mask(f)
      BY <1>3, <2>3, <3>1, Reported
    <3>3. "error" \in Mask(f)
      BY <1>0, <2>2 DEF Mask
    <3>. QED  BY <3>2, <3>3, Zenon DEF Pending, Among
  <2>4. CASE Pending(f, "error")
    <3>1. ~ Among(events, f, "error")
      BY <2>1 DEF Among
    <3>. QED  BY <2>1, <2>4, <3>1, Zenon DEF Pending, Among
  <2>. QED  BY <1>0, <2>1, <2>2, <2>3, <2>4
<1>4. CASE SwapQueue
  <2>1. UNCHANGED <<file, map>> /\ events' = queue /\ events = <<>>
    BY <1>4 DEF SwapQueue, kernelVars
  <2>2. ~ Among(events, f, "error")
    BY <2>1 DEF Among
  <2>. QED  BY <1>0, <2>1, <2>2, Zenon DEF Pending, Among
<1>5. CASE Accepting
  <2>1. /\ events # <<>> /\ events' = Tail(events) /\ Head(events).fd = Listen
        /\ queue' = queue \/ queue' = Append(queue, Event(Listen, {"in"}, None))
        /\ file'[f] = file[f] /\ map'[f] = map[f]
    BY <1>5, AcceptingStep
  <2>2. Event(Listen, {"in"}, None) \in EventWith({{"in"}, {"error"}})
    BY ListenEvent
  <2>3. Pending(f, "error") => Pending(f, "error")'
    BY <1>0, <2>1, <2>2, OthersPending
  <2>. QED  BY <1>0, <2>1, <2>3, Zenon
<1>6. CASE Ignore \/ Read \/ CloseSession
  <2>1. PICK e \in EventWith({{"in"}, {"error"}}) :
          /\ events # <<>> /\ events' = Tail(events) /\ Head(events).fd \in Fd
          /\ queue' = queue \/ queue' = Append(queue, e)
    BY <1>6, SessionStep
  <2>2. file'[f] = file[f] /\ map'[f] = map[f]
    <3>1. CASE Ignore \/ Read
      BY <3>1 DEF Ignore, Read, kernelVars
    <3>2. CASE CloseSession
      <4>. DEFINE M == fds[map[Head(events).fd]]
      <4>1. /\ map' = [g \in Fd |-> IF g \in M THEN None ELSE map[g]]
            /\ file' = [g \in Fd |-> IF g \in M THEN Destroyed(g) ELSE file[g]]
        BY <3>2 DEF CloseSession, Remove, Marked
      <4>2. f \notin M
        BY <4>1, ConstantFacts
      <4>. QED  BY <4>1, <4>2
    <3>. QED  BY <1>6, <3>1, <3>2
  <2>3. ~ (Head(events).fd = f /\ "error" \in Head(events).mask)
    <3>. SUFFICES ASSUME Head(events).fd = f, "error" \in Head(events).mask
                  PROVE  FALSE
      OBVIOUS
    <3>1. CloseSession
      BY <1>6, <2>2 DEF Ignore, Read
    <3>2. f \in fds[map[f]]
      BY <2>2 DEF RegistryInv, RegistrationsAgree
    <3>3. map'[f] = None
      BY <3>1, <3>2 DEF CloseSession, Remove, Marked
    <3>. QED  BY <3>3, ConstantFacts
  <2>4. Pending(f, "error") => Pending(f, "error")'
    BY <2>1, <2>3, OthersPending
  <2>. QED  BY <1>0, <2>2, <2>4, Zenon
<1>. QED  BY <1>1, <1>2, <1>3, <1>4, <1>5, <1>6, Zenon DEF Next, Loop, Accepting

\* The queued events of the listener stay bounded.
LEMMA ListenKept ==
  ASSUME TypeOK, EventInv, ListenBounded, Next
  PROVE  ListenBounded'
<1>. DEFINE edges == IF accEdge THEN 1 ELSE 0
            Q == EventWith({{"in"}, {"error"}})
            E == EventWith({{"in"}, {"error"}, {"in", "error"}})
            q == ListenEvents(queue)
            b == ListenEvents(events)
<1>0. queue \in Seq(Q) /\ events \in Seq(E) /\ queue' \in Seq(Q) /\ events' \in Seq(E)
  BY EventsKept DEF EventInv
<1>1. /\ q \in Nat /\ b \in Nat /\ edges \in Nat /\ arrived \in Nat
      /\ q + b + edges <= arrived
  <2>1. q \in Nat /\ b \in Nat
    BY <1>0, ListenFinite
  <2>. QED  BY <2>1 DEF ListenBounded, TypeOK
<1>. SUFFICES ListenEvents(queue') + ListenEvents(events') + (IF accEdge' THEN 1 ELSE 0) <= arrived'
  BY DEF ListenBounded, ListenEvents
<1>2. CASE ClientConnects \/ \E f \in Fd, state \in {"finished", "reset"} : PeerActs(f, state)
  <2>1. /\ queue' = queue /\ events' = events
        /\ \/ arrived' = arrived /\ accEdge' = accEdge
           \/ arrived' = arrived + 1 /\ accEdge' = TRUE
    BY <1>2 DEF ClientConnects, PeerActs, busVars
  <2>2. ListenEvents(queue') = q /\ ListenEvents(events') = b
    BY <2>1
  <2>. HIDE DEF q, b
  <2>. QED  BY <1>1, <2>1, <2>2
<1>3. CASE EpollWait
  <2>1. ListenEvents(events') = edges
    BY <1>3, Reported
  <2>2. queue' = queue /\ arrived' = arrived /\ accEdge' = FALSE
    BY <1>3 DEF EpollWait
  <2>3. ListenEvents(queue') = q
    BY <2>2
  <2>. HIDE DEF q, b, edges
  <2>. QED  BY <1>1, <2>1, <2>2, <2>3
<1>4. CASE SwapQueue
  <2>1. queue' = <<>> /\ events' = queue /\ arrived' = arrived /\ accEdge' = accEdge
    BY <1>4 DEF SwapQueue, kernelVars
  <2>2. ListenEvents(events') = q /\ ListenEvents(queue') = 0
    BY <2>1, ListenEmpty
  <2>. HIDE DEF q, b
  <2>. QED  BY <1>1, <2>1, <2>2
<1>5. CASE Accepting
  <2>1. /\ events # <<>> /\ events' = Tail(events) /\ Head(events).fd = Listen
        /\ queue' = queue \/ queue' = Append(queue, Event(Listen, {"in"}, None))
        /\ accEdge' = accEdge /\ arrived' = arrived
    BY <1>5, AcceptingStep
  <2>. HIDE DEF E, Q
  <2>2. b = ListenEvents(events') + 1
    BY <1>0, <2>1, ListenTail
  <2>3. ListenEvents(queue') = q \/ ListenEvents(queue') = q + 1
    <3>1. Event(Listen, {"in"}, None) \in Q
      BY ListenEvent DEF Q
    <3>2. ListenEvents(Append(queue, Event(Listen, {"in"}, None))) = q + 1
      BY <1>0, <3>1, ListenAppend, ListenEvent
    <3>. QED  BY <2>1, <3>2
  <2>4. ListenEvents(queue') \in Nat /\ ListenEvents(events') \in Nat
    BY <1>0, ListenFinite
  <2>. HIDE DEF q, b
  <2>. QED  BY <1>1, <2>1, <2>2, <2>3, <2>4
<1>6. CASE Ignore \/ Read \/ CloseSession
  <2>. HIDE DEF E
  <2>1. PICK e \in Q :
          /\ events # <<>> /\ events' = Tail(events) /\ Head(events).fd \in Fd
          /\ e.fd \in Fd /\ (queue' = queue \/ queue' = Append(queue, e))
          /\ accEdge' = accEdge /\ arrived' = arrived
    BY <1>6, SessionStep
  <2>. HIDE DEF Q
  <2>2. Head(events).fd # Listen /\ e.fd # Listen
    BY <2>1, FdAssumption DEF Fd, Listen
  <2>3. b = ListenEvents(events')
    BY <1>0, <2>1, <2>2, ListenTail
  <2>4. ListenEvents(queue') = q
    <3>1. ListenEvents(Append(queue, e)) = q
      BY <1>0, <2>2, ListenAppend
    <3>. QED  BY <2>1, <3>1
  <2>. HIDE DEF q, b
  <2>. QED  BY <1>1, <2>1, <2>3, <2>4
<1>. QED  BY <1>2, <1>3, <1>4, <1>5, <1>6, Zenon DEF Next, Loop, Accepting

\* The initial state.
LEMMA InitInv == Init => IInv
<1>. SUFFICES ASSUME Init PROVE IInv
  OBVIOUS
<1>1. MaxClients \in Nat /\ Free \in FileState /\ Free.state = "free"
  BY FdAssumption, FileStates DEF Free
<1>2. ~ Free.epoll
  BY DEF Free
<1>3. TypeOK
  <2>1. width \in Widths /\ phase \in {"epoll", "queue"}
    BY DEF Init
  <2>2. file \in [Fd -> FileState]
    BY <1>1 DEF Init
  <2>3. /\ map \in [Fd -> Session \cup {None, Nobody}]
        /\ fds \in [Session -> SUBSET Fd]
    BY DEF Init, NoFds
  <2>4. arrived \in 0 .. MaxClients /\ backlog \in 0 .. arrived /\ started \in 0 .. MaxClients
    BY <1>1 DEF Init
  <2>5. \A k \in DOMAIN queue : queue[k].mask \in {{"in"}, {"error"}}
    BY DEF Init
  <2>6. failed \in BOOLEAN
    BY Zenon DEF Init
  <2>. QED  BY <2>1, <2>2, <2>3, <2>4, <2>5, <2>6 DEF TypeOK
<1>4. EventInv /\ CountInv
  <2>1. accEdge \in BOOLEAN
    BY Zenon DEF Init
  <2>2. events = <<>> /\ queue = <<>>
    BY DEF Init
  <2>3. \A S : <<>> \in Seq(S)
    OBVIOUS
  <2>4. CountInv
    BY DEF Init, CountInv
  <2>. QED  BY <2>1, <2>2, <2>3, <2>4, Zenon DEF EventInv
<1>5. RegistryInv
  <2>1. Whole(fds)
    BY FS_EmptySet DEF Init, Whole, NoFds
  <2>2. ASSUME NEW f \in Fd PROVE Agrees(f, file[f], map[f], fds, started)
    <3>1. file[f] = Free /\ map[f] = None /\ \A t \in Session : f \notin fds[t]
      BY DEF Init, NoFds
    <3>. QED  BY <1>2, <3>1, ConstantFacts, Zenon DEF Agrees
  <2>. QED  BY <2>1, <2>2, EachAgrees
<1>6. NoticedInv
  <2>1. BacklogNoticed
    BY DEF Init, BacklogNoticed
  <2>2. ResetNoticed
    BY <1>1 DEF Init, ResetNoticed
  <2>. QED  BY <2>1, <2>2 DEF NoticedInv
<1>7. ListenBounded
  BY ListenEmpty DEF Init, ListenBounded
<1>. QED  BY <1>3, <1>4, <1>5, <1>6, <1>7 DEF IInv

\* One step.
LEMMA StepInv == IInv /\ [Next]_vars => IInv'
<1>. SUFFICES ASSUME IInv, [Next]_vars PROVE IInv'
  OBVIOUS
<1>1. CASE Next
  BY <1>1, EventsKept, RegistriesKept, BacklogKept, ResetKept, ListenKept DEF IInv, NoticedInv
<1>2. CASE UNCHANGED vars
  BY <1>2 DEF IInv, TypeOK, EventInv, CountInv, RegistryInv, FreeInv, RegistrationsAgree,
              OnlyKnownLeaks, NoticedInv, BacklogNoticed, ResetNoticed, ListenBounded,
              Pending, Among, ListenEvents, vars, kernelVars, busVars
<1>. QED  BY <1>1, <1>2

\* IInv is inductive: types, registries, counts and events under way, for every
\* number of descriptors and clients, with every failure the code may meet.
THEOREM ReactorInductive == Spec => []IInv
BY InitInv, StepInv, PTL DEF Spec

\* The registries, counters and events keep their types: no session beyond the
\* connections that arrived, no event in the queue with a mask that no callback
\* of the code enqueues.
THEOREM ReactorTypeCorrect == Spec => []TypeOK
BY ReactorInductive, PTL DEF IInv

\* The callback map, epoll, the open sockets and the sessions agree, although
\* descriptors are reused and events of closed ones are still around.
THEOREM RegistrationsAgreeHolds == Spec => []RegistrationsAgree
BY ReactorInductive, PTL DEF IInv, RegistryInv

\* No connection waits in the backlog without an edge or an accept event,
\* unless accept has failed while one waited.
THEOREM BacklogNoticedHolds == Spec => []BacklogNoticed
BY ReactorInductive, PTL DEF IInv, NoticedInv

\* A session whose connection was reset has an edge or an error event to come.
THEOREM ResetNoticedHolds == Spec => []ResetNoticed
BY ReactorInductive, PTL DEF IInv, NoticedInv

\* The events that the acceptor puts back never outnumber the connections that
\* have arrived.
THEOREM ListenBoundedHolds == Spec => []ListenBounded
BY ReactorInductive, PTL DEF IInv

\* A descriptor stays open without a session only after a reset or a session
\* that could not be made.
THEOREM OnlyKnownLeaksHolds == Spec => []OnlyKnownLeaks
BY ReactorInductive, PTL DEF IInv, RegistryInv

=============================================================================
