---------------------------- MODULE ServiceProofs ----------------------------
(***************************************************************************)
(* Proofs about Service for any number of connections: how far main's      *)
(* construction or destruction has come determines which objects are there *)
(* and in which state the listener is, and no accept event is made up.     *)
(***************************************************************************)
EXTENDS Service, TLAPS, SequenceTheorems

USE ClientsAssumption

Kinds == {"psql_proxy", "tcp_proxy", "echo"}
Steps == {"addresses", "bus", "context", "processor", "socket", "register", "options",
          "bind", "listen", "server", "stream", "thread"}

\* The order of construction and the objects, by position.
LEMMA OrderTable ==
  ASSUME NEW k \in Kinds
  PROVE  /\ Order(k) \in Seq(Steps)
         /\ k = "psql_proxy" => Len(Order(k)) = 12
         /\ k # "psql_proxy" => Len(Order(k)) = 9
  <1>1. CASE k = "psql_proxy"
    BY <1>1 DEF Order, Steps
  <1>2. CASE k # "psql_proxy"
    BY <1>2 DEF Order, Steps
  <1> QED BY <1>1, <1>2

\* The locals of main, by kind.
LEMMA LocalsTable ==
  /\ Locals \in Seq(Steps)
  /\ kind = "psql_proxy" => Len(Locals) = 5 /\ Locals[3] = "processor" /\ Locals[4] = "server" /\ Locals[5] = "stream"
  /\ kind # "psql_proxy" => Len(Locals) = 3 /\ Locals[3] = "server"
  /\ \A j \in 1 .. Len(Locals) : Locals[j] = "server" => j = (IF kind = "psql_proxy" THEN 4 ELSE 3)
  <1>1. CASE kind = "psql_proxy"
    BY <1>1 DEF Locals, Steps
  <1>2. CASE kind # "psql_proxy"
    BY <1>2 DEF Locals, Steps
  <1> QED BY <1>1, <1>2

\* The step main is at is the one after those done; when it succeeds, one more
\* is done.
LEMMA AtStep ==
  ASSUME Places, NEW step, At(step)
  PROVE  /\ Done \in 0 .. (Len(Order(kind)) - 1)
         /\ Order(kind)[Done + 1] = step
         /\ Tail(todo) = SubSeq(Order(kind), Done + 2, Len(Order(kind)))
         /\ Len(Tail(todo)) = Len(todo) - 1
  <1> DEFINE o == Order(kind)
             n == Len(todo)
  <1>1. o \in Seq(Steps) /\ Len(o) \in Nat
    BY OrderTable DEF Places, Kinds
  <1>2. n \in 0 .. Len(o) /\ todo = SubSeq(o, Len(o) - n + 1, Len(o)) /\ todo # <<>> /\ Head(todo) = step
    BY DEF Places, Done, At
  <1> HIDE DEF o
  <1>3. todo \in Seq(Steps)
    <2>1. \A j \in (Len(o) - n + 1) .. Len(o) : o[j] \in Steps
      BY <1>1, <1>2, ElementOfSeq
    <2>2. Len(o) - n + 1 \in Int /\ Len(o) \in Int
      BY <1>1, <1>2
    <2>3. SubSeq(o, Len(o) - n + 1, Len(o)) \in Seq(Steps)
      BY <2>1, <2>2, SubSeqProperties
    <2> QED BY <1>2, <2>3
  <1>4. n > 0 /\ n \in Nat
    BY <1>2, <1>3, EmptySeq
  <1> HIDE DEF n
  <1>5. Len(o) - n + 1 \in 1 .. Len(o)
    BY <1>1, <1>2, <1>4
  <1>6. Head(todo) = o[Len(o) - n + 1] /\ Tail(todo) = SubSeq(o, Len(o) - n + 2, Len(o))
    BY <1>1, <1>2, <1>5, HeadTailOfSubSeq
  <1>7. Len(Tail(todo)) = n - 1
    BY <1>3, <1>2, HeadTailProperties DEF n
  <1> QED BY <1>1, <1>2, <1>4, <1>6, <1>7 DEF Done, o, n

\* A step of the construction is taken off the list.
LEMMA StepDone ==
  ASSUME Places, NEW step, At(step), todo' = Tail(todo), UNCHANGED kind
  PROVE  /\ Done' = Done + 1 /\ Done \in 0 .. (Len(Order(kind)) - 1)
         /\ Len(todo') \in 0 .. Len(Order(kind))
         /\ todo' = SubSeq(Order(kind), Done' + 1, Len(Order(kind)))
  <1> DEFINE L == Len(Order(kind))
             n == Len(todo)
  <1>1. L \in Nat /\ n \in 0 .. L
    <2>1. L \in Nat
      BY OrderTable DEF Places, Kinds
    <2>2. n \in 0 .. L
      BY DEF Places
    <2> QED BY <2>1, <2>2
  <1>2. /\ Done \in 0 .. (L - 1) /\ Len(todo') = n - 1
        /\ todo' = SubSeq(Order(kind), Done + 2, L)
    BY AtStep
  <1>3. Done' = L - Len(todo') /\ Done = L - n
    BY DEF Done
  <1> HIDE DEF L, n
  <1>4. Done' = Done + 1
    BY <1>1, <1>2, <1>3
  <1>5. Done' + 1 = Done + 2 /\ Len(todo') \in 0 .. L
    BY <1>1, <1>2, <1>3, <1>4
  <1> QED BY <1>2, <1>4, <1>5 DEF L

\* Which step each number of steps done is followed by.
LEMMA StepsPsql ==
  ASSUME kind = "psql_proxy", NEW p \in 0 .. 11
  PROVE  LET s == Order(kind)[p + 1]
         IN  /\ (s = "addresses" <=> p = 0) /\ (s = "bus" <=> p = 1)
             /\ (s = "context" <=> p = 2) /\ (s = "processor" <=> p = 3)
             /\ (s = "socket" <=> p = 4) /\ (s = "register" <=> p = 5)
             /\ (s = "options" <=> p = 6) /\ (s = "bind" <=> p = 7)
             /\ (s = "listen" <=> p = 8) /\ (s = "server" <=> p = 9)
             /\ (s = "stream" <=> p = 10) /\ (s = "thread" <=> p = 11)
  BY DEF Order

\* The place of each step where there is no log.
LEMMA StepsOther ==
  ASSUME kind # "psql_proxy", NEW p \in 0 .. 8
  PROVE  LET s == Order(kind)[p + 1]
         IN  /\ s \notin {"processor", "stream", "thread"}
             /\ (s = "bus" <=> p = 0) /\ (s = "addresses" <=> p = 1)
             /\ (s = "socket" <=> p = 2) /\ (s = "register" <=> p = 3)
             /\ (s = "options" <=> p = 4) /\ (s = "bind" <=> p = 5)
             /\ (s = "listen" <=> p = 6) /\ (s = "server" <=> p = 7)
             /\ (s = "context" <=> p = 8)
  BY DEF Order

\* The same, of the step main is at.
LEMMA AtPlace ==
  ASSUME Places, NEW step, At(step)
  PROVE  /\ kind \in Kinds
         /\ kind = "psql_proxy" =>
              /\ Done \in 0 .. 11 /\ Len(Order(kind)) = 12
              /\ (step = "addresses" <=> Done = 0) /\ (step = "bus" <=> Done = 1)
              /\ (step = "context" <=> Done = 2) /\ (step = "processor" <=> Done = 3)
              /\ (step = "socket" <=> Done = 4) /\ (step = "register" <=> Done = 5)
              /\ (step = "options" <=> Done = 6) /\ (step = "bind" <=> Done = 7)
              /\ (step = "listen" <=> Done = 8) /\ (step = "server" <=> Done = 9)
              /\ (step = "stream" <=> Done = 10) /\ (step = "thread" <=> Done = 11)
         /\ kind # "psql_proxy" =>
              /\ Done \in 0 .. 8 /\ Len(Order(kind)) = 9
              /\ step \notin {"processor", "stream", "thread"}
              /\ (step = "bus" <=> Done = 0) /\ (step = "addresses" <=> Done = 1)
              /\ (step = "socket" <=> Done = 2) /\ (step = "register" <=> Done = 3)
              /\ (step = "options" <=> Done = 4) /\ (step = "bind" <=> Done = 5)
              /\ (step = "listen" <=> Done = 6) /\ (step = "server" <=> Done = 7)
              /\ (step = "context" <=> Done = 8)
  <1>1. kind \in Kinds
    BY DEF Places, Kinds
  <1>2. Done \in 0 .. (Len(Order(kind)) - 1) /\ Order(kind)[Done + 1] = step
    BY AtStep
  <1>3. CASE kind = "psql_proxy"
    <2>1. Len(Order(kind)) = 12
      BY <1>1, <1>3, OrderTable
    <2>2. Done \in 0 .. 11
      BY <1>2, <2>1
    <2> QED BY <1>1, <1>2, <1>3, <2>1, <2>2, StepsPsql, SMTT(30)
  <1>4. CASE kind # "psql_proxy"
    <2>1. Len(Order(kind)) = 9
      BY <1>1, <1>4, OrderTable
    <2>2. Done \in 0 .. 8
      BY <1>2, <2>1
    <2> QED BY <1>1, <1>2, <1>4, <2>1, <2>2, StepsOther
  <1> QED BY <1>3, <1>4

\* The live objects are the first ones of main's, so their number tells which.
LEMMA HasByCount ==
  ASSUME Places
  PROVE  /\ Has("server") <=> Len(objects) >= (IF kind = "psql_proxy" THEN 4 ELSE 3)
         /\ kind = "psql_proxy" /\ Len(objects) >= 3 => Has("processor")
         /\ kind = "psql_proxy" /\ Len(objects) >= 5 => Has("stream")
  <1> DEFINE n == Len(objects)
  <1>1. n \in Nat /\ n <= Len(Locals) /\ Len(Locals) \in Nat
    BY LocalsTable DEF Places
  <1>2. objects = SubSeq(Locals, 1, n)
    BY DEF Places
  <1> HIDE DEF n
  <1>3. DOMAIN objects = 1 .. n /\ \A j \in 1 .. n : objects[j] = Locals[j]
    <2>1. \A j \in 1 .. n : Locals[j] \in Steps
      BY <1>1, LocalsTable, ElementOfSeq
    <2>2. /\ SubSeq(Locals, 1, n) \in Seq(Steps) /\ Len(SubSeq(Locals, 1, n)) = n
          /\ \A j \in 1 .. n : SubSeq(Locals, 1, n)[j] = Locals[j]
      BY <1>1, <2>1, SubSeqProperties
    <2> QED BY <1>2, <2>2, LenProperties
  <1>4. Has("server") <=> n >= (IF kind = "psql_proxy" THEN 4 ELSE 3)
    BY <1>1, <1>3, LocalsTable DEF Has
  <1>5. kind = "psql_proxy" => (n >= 3 => Has("processor")) /\ (n >= 5 => Has("stream"))
    BY <1>1, <1>3, LocalsTable DEF Has
  <1> QED BY <1>4, <1>5 DEF n
\* The same, after a step.
LEMMA HasByCountNext ==
  Places' => (Has("server") <=> Len(objects) >= (IF kind = "psql_proxy" THEN 4 ELSE 3))'
  <1>1. Places => (Has("server") <=> Len(objects) >= (IF kind = "psql_proxy" THEN 4 ELSE 3))
    BY HasByCount
  <1> QED BY <1>1, PTL

\* How many steps there are.
LEMMA DoneRange == Places => Done \in 0 .. (IF kind = "psql_proxy" THEN 12 ELSE 9)
  <1> SUFFICES ASSUME Places PROVE Done \in 0 .. (IF kind = "psql_proxy" THEN 12 ELSE 9)
    OBVIOUS
  <1>1. Len(Order(kind)) = IF kind = "psql_proxy" THEN 12 ELSE 9
    BY OrderTable DEF Places, Kinds
  <1>2. Len(todo) \in 0 .. Len(Order(kind))
    BY DEF Places
  <1> QED BY <1>1, <1>2 DEF Done
-----------------------------------------------------------------------------
(* The initial state. *)

\* The initial state.
LEMMA InitIInv == Init => IInv
  <1> SUFFICES ASSUME Init PROVE IInv
    OBVIOUS
  <1> USE DEF Init
  <1>1. /\ Len(Order(kind)) \in Nat /\ Order(kind) \in Seq(Steps)
        /\ Len(Locals) \in Nat /\ Locals \in Seq(Steps)
    BY OrderTable, LocalsTable DEF Kinds
  <1>2. Done = 0
    BY <1>1 DEF Done
  <1>3. Places
    <2>1. todo = SubSeq(Order(kind), Done + 1, Len(Order(kind)))
      BY <1>1, <1>2, SubSeqFull
    <2>2. objects = SubSeq(Locals, 1, Len(objects)) /\ Len(objects) = 0
      BY <1>1, SubSeqEmpty
    <2> QED BY <1>1, <2>1, <2>2, SMTT(30) DEF Places
  <1>4. BuildInv
    <2>1. Len(objects) = Made /\ Before \in {2, 4}
      BY <1>2 DEF Made, Before
    <2> QED BY <1>2, <2>1 DEF BuildInv
  <1>5. LoopInv
    BY DEF LoopInv, Looping
  <1>6. EndInv
    BY DEF EndInv
  <1>7. /\ registered \in BOOLEAN /\ refused \in BOOLEAN /\ held \in BOOLEAN /\ stray \in BOOLEAN
        /\ stop \in BOOLEAN /\ edge \in BOOLEAN
    OBVIOUS
  <1>8. EventInv
    BY <1>7 DEF EventInv
  <1>9. TypeOK
    BY <1>7 DEF TypeOK
  <1> QED BY <1>3, <1>4, <1>5, <1>6, <1>8, <1>9 DEF IInv
-----------------------------------------------------------------------------
(* Construction. *)

\* What a successful step of the construction keeps of Places.
LEMMA PlacesBuilt ==
  ASSUME Places, NEW step, At(step), todo' = Tail(todo), UNCHANGED kind,
         Len(objects') \in 0 .. Len(Locals), objects' = SubSeq(Locals, 1, Len(objects'))
  PROVE  Places'
  <1>1. /\ Len(todo') \in 0 .. Len(Order(kind))
        /\ todo' = SubSeq(Order(kind), Done' + 1, Len(Order(kind)))
    BY StepDone
  <1>2. Locals' = Locals
    BY DEF Locals
  <1> QED BY <1>1, <1>2 DEF Places

\* One more object: the next one of main's.
LEMMA OneMore ==
  ASSUME Places, Len(objects) < Len(Locals), objects' = Append(objects, Locals[Len(objects) + 1])
  PROVE  Len(objects') = Len(objects) + 1 /\ objects' = SubSeq(Locals, 1, Len(objects'))
  <1> DEFINE n == Len(objects)
             l == Locals
  <1>1. l \in Seq(Steps) /\ Len(l) \in Nat /\ n \in 0 .. Len(l) /\ n < Len(l)
    BY LocalsTable DEF Places
  <1>2. objects = SubSeq(l, 1, n) /\ objects' = Append(objects, l[n + 1])
    BY DEF Places
  <1> HIDE DEF n, l
  <1>3. objects \in Seq(Steps) /\ Len(objects) = n /\ \A j \in 1 .. n : objects[j] = l[j]
    <2>1. \A j \in 1 .. n : l[j] \in Steps
      BY <1>1, ElementOfSeq
    <2> QED BY <1>1, <1>2, <2>1, SubSeqProperties
  <1>4. l[n + 1] \in Steps
    BY <1>1, ElementOfSeq
  <1>5. /\ objects' \in Seq(Steps) /\ Len(objects') = n + 1
        /\ \A j \in 1 .. n + 1 : objects'[j] = l[j]
    BY <1>1, <1>2, <1>3, <1>4, AppendProperties
  <1>6. /\ SubSeq(l, 1, n + 1) \in Seq(Steps) /\ Len(SubSeq(l, 1, n + 1)) = n + 1
        /\ \A j \in 1 .. n + 1 : SubSeq(l, 1, n + 1)[j] = l[j]
    <2>1. \A j \in 1 .. n + 1 : l[j] \in Steps
      BY <1>1, ElementOfSeq
    <2> QED BY <1>1, <2>1, SubSeqProperties
  <1>7. objects' = SubSeq(l, 1, n + 1)
    BY <1>5, <1>6, SeqEqual
  <1> QED BY <1>3, <1>5, <1>7 DEF l

\* One object less: the last one.
LEMMA OneLess ==
  ASSUME Places, objects # <<>>, objects' = SubSeq(objects, 1, Len(objects) - 1)
  PROVE  /\ Len(objects) \in 1 .. Len(Locals)
         /\ objects[Len(objects)] = Locals[Len(objects)]
         /\ Len(objects') = Len(objects) - 1 /\ objects' = SubSeq(Locals, 1, Len(objects'))
  <1> DEFINE n == Len(objects)
             l == Locals
  <1>1. l \in Seq(Steps) /\ Len(l) \in Nat /\ n \in 0 .. Len(l)
    BY LocalsTable DEF Places
  <1>2. objects = SubSeq(l, 1, n) /\ objects' = SubSeq(objects, 1, n - 1) /\ n = Len(objects)
    BY DEF Places
  <1> HIDE DEF n, l
  <1>3. objects \in Seq(Steps) /\ Len(objects) = n /\ \A j \in 1 .. n : objects[j] = l[j]
    <2>1. \A j \in 1 .. n : l[j] \in Steps
      BY <1>1, ElementOfSeq
    <2> QED BY <1>1, <1>2, <2>1, SubSeqProperties
  <1>4. n \in 1 .. Len(l)
    BY <1>1, <1>3, EmptySeq
  <1>5. /\ objects' \in Seq(Steps) /\ Len(objects') = n - 1
        /\ \A j \in 1 .. n - 1 : objects'[j] = l[j]
    <2>1. \A j \in 1 .. n - 1 : objects[j] \in Steps
      BY <1>3, <1>4, ElementOfSeq
    <2> QED BY <1>2, <1>3, <1>4, <2>1, SubSeqProperties
  <1>6. /\ SubSeq(l, 1, n - 1) \in Seq(Steps) /\ Len(SubSeq(l, 1, n - 1)) = n - 1
        /\ \A j \in 1 .. n - 1 : SubSeq(l, 1, n - 1)[j] = l[j]
    <2>1. \A j \in 1 .. n - 1 : l[j] \in Steps
      BY <1>1, <1>4, ElementOfSeq
    <2> QED BY <1>1, <1>4, <2>1, SubSeqProperties
  <1>7. objects' = SubSeq(l, 1, n - 1)
    BY <1>5, <1>6, SeqEqual
  <1> QED BY <1>3, <1>4, <1>5, <1>7 DEF l

\* A successful step keeps the invariant once what it has made is accounted
\* for: the types and the events do not see main's progress.
LEMMA BuildKeeps ==
  ASSUME IInv, NEW step, At(step), todo' = Tail(todo),
         UNCHANGED <<kind, pc, status, refused, dtor, stray, stop, loopVars>>,
         context' \in {"null", "made", "freed"}, registered' \in BOOLEAN, held' \in BOOLEAN,
         writer' \in {"none", "running", "done"},
         Len(objects') = Made', objects' = SubSeq(Locals, 1, Len(objects')),
         Made' \in 0 .. Len(Locals),
         fd' = IF Done + 1 <= Before THEN "none"
               ELSE IF Done + 1 < Before + 5 THEN "open" ELSE "listening",
         registered' <=> Done + 1 >= Before + 2, held' <=> Done + 1 >= Before + 2,
         writer' # "none" => kind = "psql_proxy" /\ todo' = <<>>
  PROVE  IInv'
  <1> USE DEF IInv
  <1>1. pc = "build" /\ pc' = "build"
    BY DEF At
  <1>2. Places'
    BY PlacesBuilt
  <1>3. Done' = Done + 1 /\ Before' = Before
    BY StepDone DEF Before
  <1>4. dtor = "none" /\ ~stray /\ ~refused /\ status = 0
    BY <1>1 DEF BuildInv
  <1>5. BuildInv'
    BY <1>3, <1>4 DEF BuildInv
  <1>6. LoopInv' /\ EndInv'
    BY <1>1, <1>4 DEF LoopInv, EndInv, Looping
  <1>7. TypeOK'
    BY <1>1 DEF TypeOK, loopVars
  <1>8. EventInv'
    BY <1>1 DEF EventInv, loopVars
  <1> QED BY <1>2, <1>5, <1>6, <1>7, <1>8

\* A step of the construction.
LEMMA ConstructIInv ==
  ASSUME IInv, NEW o \in {"addresses", "bus", "processor", "server", "stream"}, Construct(o)
  PROVE  IInv'
  <1> USE DEF IInv
  <1>1. /\ At(o) /\ todo' = Tail(todo) /\ objects' = Append(objects, o)
        /\ UNCHANGED <<kind, pc, context, status, listenVars, stop, writer, loopVars>>
    BY DEF Construct
  <1>2. Done' = Done + 1
    BY <1>1, StepDone
  <1>3. Len(objects) = Made /\ writer = "none"
    BY <1>1 DEF At, BuildInv, TypeOK
  <1>4. /\ Made' = Made + 1 /\ Made < Len(Locals) /\ Made' \in 0 .. Len(Locals)
        /\ Locals[Made + 1] = o
        /\ Done \in Nat /\ Before \in {2, 4}
        /\ Done # Before /\ Done # Before + 4 /\ Done # Before + 1
    <2>1. CASE kind = "psql_proxy"
      <3>1. Before = 4 /\ Len(Locals) = 5
        BY <2>1, LocalsTable DEF Before
      <3>2. \/ o = "addresses" /\ Done = 0
            \/ o = "bus" /\ Done = 1
            \/ o = "processor" /\ Done = 3
            \/ o = "server" /\ Done = 9
            \/ o = "stream" /\ Done = 10
        BY <1>1, <2>1, AtPlace
      <3>3. /\ Made = <<0, 1, 2, 2, 3, 3, 3, 3, 3, 3, 4, 5, 5>>[Done + 1]
            /\ Made' = <<0, 1, 2, 2, 3, 3, 3, 3, 3, 3, 4, 5, 5>>[Done + 2]
        BY <1>1, <1>2, <2>1, <3>2, SMTT(30) DEF Made
      <3> QED BY <2>1, <3>1, <3>2, <3>3 DEF Locals
    <2>2. CASE kind # "psql_proxy"
      <3>1. Before = 2 /\ Len(Locals) = 3
        BY <2>2, LocalsTable DEF Before
      <3>2. \/ o = "bus" /\ Done = 0
            \/ o = "addresses" /\ Done = 1
            \/ o = "server" /\ Done = 7
        BY <1>1, <2>2, AtPlace
      <3>3. /\ Made = <<0, 1, 2, 2, 2, 2, 2, 2, 3, 3>>[Done + 1]
            /\ Made' = <<0, 1, 2, 2, 2, 2, 2, 2, 3, 3>>[Done + 2]
        BY <1>1, <1>2, <2>2, <3>2 DEF Made
      <3> QED BY <2>2, <3>1, <3>2, <3>3 DEF Locals
    <2> QED BY <2>1, <2>2
  <1>5. Len(objects') = Made' /\ objects' = SubSeq(Locals, 1, Len(objects'))
    BY <1>1, <1>3, <1>4, OneMore
  <1>6. /\ Done + 1 <= Before <=> Done <= Before
        /\ Done + 1 < Before + 5 <=> Done < Before + 5
        /\ Done + 1 >= Before + 2 <=> Done >= Before + 2
    BY <1>4
  <1>7. /\ fd' = IF Done + 1 <= Before THEN "none"
                 ELSE IF Done + 1 < Before + 5 THEN "open" ELSE "listening"
        /\ registered' <=> Done + 1 >= Before + 2
        /\ held' <=> Done + 1 >= Before + 2
        /\ UNCHANGED <<refused, dtor, stray>>
    BY <1>1, <1>6 DEF At, BuildInv, listenVars
  <1>8. /\ registered' \in BOOLEAN /\ held' \in BOOLEAN
        /\ context' \in {"null", "made", "freed"} /\ writer' = "none"
    BY <1>1, <1>3 DEF TypeOK, listenVars
  <1> QED BY <1>1, <1>4, <1>5, <1>7, <1>8, BuildKeeps

\* Nothing comes after the thread.
LEMMA ThreadIsLast ==
  ASSUME Places, At("thread")
  PROVE  kind = "psql_proxy" /\ Tail(todo) = <<>>
  <1>1. kind = "psql_proxy" /\ Done = 11 /\ Len(Order(kind)) = 12
    BY AtPlace
  <1>2. Tail(todo) = SubSeq(Order(kind), Done + 2, Len(Order(kind)))
    BY AtStep
  <1>3. \A s, d, e : d = 11 /\ e = 12 => SubSeq(s, d + 2, e) = <<>>
    BY SubSeqEmpty
  <1> QED BY <1>1, <1>2, <1>3

\* The steps that make no object.
LEMMA OtherStepsIInv ==
  ASSUME IInv, NEW step \in {"context", "thread", "socket", "register", "options", "bind", "listen"},
         At(step), todo' = Tail(todo),
         UNCHANGED <<kind, pc, objects, status, refused, dtor, stray, stop, loopVars>>,
         context' = IF step = "context" THEN "made" ELSE context,
         writer' = IF step = "thread" THEN "running" ELSE writer,
         fd' = IF step = "socket" THEN "open" ELSE IF step = "listen" THEN "listening" ELSE fd,
         registered' \in BOOLEAN, registered' <=> (step = "register" \/ registered),
         held' \in BOOLEAN, held' <=> (step = "register" \/ held)
  PROVE  IInv'
  <1> USE DEF IInv
  <1>1. /\ Len(objects) = Made /\ writer = "none" /\ registered \in BOOLEAN
        /\ fd = IF Done <= Before THEN "none" ELSE IF Done < Before + 5 THEN "open" ELSE "listening"
        /\ registered <=> Done >= Before + 2
        /\ held <=> Done >= Before + 2
    BY DEF At, BuildInv, TypeOK
  <1>2. /\ Made' = Made /\ Done \in Nat /\ Before \in {2, 4}
        /\ (step = "socket" <=> Done = Before) /\ (step = "register" <=> Done = Before + 1)
        /\ (step = "listen" <=> Done = Before + 4)
        /\ step = "thread" => kind = "psql_proxy" /\ Done = 11
    <2>1. Done' = Done + 1
      BY StepDone
    <2>2. CASE kind = "psql_proxy"
      <3>1. Before = 4 /\ Done \in {2, 4, 5, 6, 7, 8, 11}
        BY <2>2, AtPlace DEF Before
      <3>2. /\ Made = <<0, 1, 2, 2, 3, 3, 3, 3, 3, 3, 4, 5, 5>>[Done + 1]
            /\ Made' = <<0, 1, 2, 2, 3, 3, 3, 3, 3, 3, 4, 5, 5>>[Done + 2]
        BY <2>1, <2>2, <3>1 DEF Made
      <3>3. Made' = Made
        BY <3>1, <3>2
      <3> QED BY <2>2, <3>1, <3>3, AtPlace
    <2>3. CASE kind # "psql_proxy"
      <3>1. Before = 2 /\ Done \in {2, 3, 4, 5, 6, 8}
        BY <2>3, AtPlace DEF Before
      <3>2. /\ Made = <<0, 1, 2, 2, 2, 2, 2, 2, 3, 3>>[Done + 1]
            /\ Made' = <<0, 1, 2, 2, 2, 2, 2, 2, 3, 3>>[Done + 2]
        BY <2>1, <2>3, <3>1 DEF Made
      <3>3. Made' = Made
        BY <3>1, <3>2
      <3> QED BY <2>3, <3>1, <3>3, AtPlace
    <2> QED BY <2>2, <2>3
  <1>3. Len(objects') = Made' /\ objects' = SubSeq(Locals, 1, Len(objects')) /\ Made' \in 0 .. Len(Locals)
    BY <1>1, <1>2 DEF Places
  <1>4. /\ fd' = IF Done + 1 <= Before THEN "none"
                 ELSE IF Done + 1 < Before + 5 THEN "open" ELSE "listening"
        /\ registered' <=> Done + 1 >= Before + 2
        /\ held' <=> Done + 1 >= Before + 2
    <2>1. CASE step = "socket"
      BY <2>1, <1>1, <1>2
    <2>2. CASE step = "register"
      BY <2>2, <1>1, <1>2
    <2>3. CASE step = "listen"
      BY <2>3, <1>1, <1>2
    <2>4. CASE step \notin {"socket", "register", "listen"}
      BY <2>4, <1>1, <1>2
    <2> QED BY <2>1, <2>2, <2>3, <2>4
  <1>5. registered' \in BOOLEAN /\ held' \in BOOLEAN
    OBVIOUS
  <1>6. context' \in {"null", "made", "freed"} /\ writer' \in {"none", "running", "done"}
    BY <1>1 DEF TypeOK
  <1>7. writer' # "none" => kind = "psql_proxy" /\ todo' = <<>>
    BY <1>1, ThreadIsLast
  <1> QED BY <1>3, <1>4, <1>5, <1>6, <1>7, BuildKeeps

\* When nothing is left to be done, all objects are there.
LEMMA AllMade ==
  ASSUME IInv, pc = "build", todo = <<>>
  PROVE  objects = Locals /\ Done \in Nat /\ Done >= Before + 5 /\ Before \in {2, 4}
  <1> USE DEF IInv
  <1>1. Len(todo) = 0 /\ Len(objects) = Made /\ kind \in Kinds
    BY DEF BuildInv, Places, Kinds
  <1>2. CASE kind = "psql_proxy"
    <2>1. Done = 12 /\ Len(Order(kind)) = 12 /\ Before = 4 /\ Len(Locals) = 5 /\ Locals \in Seq(Steps)
      BY <1>1, <1>2, OrderTable, LocalsTable DEF Done, Before
    <2>2. Made = 5
      BY <1>2, <2>1 DEF Made
    <2>3. objects = SubSeq(Locals, 1, Len(Locals))
      BY <1>1, <2>1, <2>2 DEF Places
    <2> QED BY <2>1, <2>3, SubSeqFull
  <1>3. CASE kind # "psql_proxy"
    <2>1. Done = 9 /\ Len(Order(kind)) = 9 /\ Before = 2 /\ Len(Locals) = 3 /\ Locals \in Seq(Steps)
      BY <1>1, <1>3, OrderTable, LocalsTable DEF Done, Before
    <2>2. Made = 3
      BY <1>3, <2>1 DEF Made
    <2>3. objects = SubSeq(Locals, 1, Len(Locals))
      BY <1>1, <2>1, <2>2 DEF Places
    <2> QED BY <2>1, <2>3, SubSeqFull
  <1> QED BY <1>2, <1>3

\* The last one.
LEMMA BuiltIInv == ASSUME IInv, Built PROVE IInv'
  <1> USE DEF IInv, Built, buildVars, listenVars, loopVars
  <1>1. objects = Locals /\ Done >= Before + 5 /\ Done \in Nat /\ Before \in {2, 4}
    BY AllMade
  <1>2. fd = "listening" /\ registered /\ held /\ dtor = "none" /\ ~stray
    BY <1>1 DEF BuildInv
  <1>3. Places' /\ Locals' = Locals
    BY DEF Places, Done, Locals
  <1>4. BuildInv'
    BY DEF BuildInv
  <1>5. LoopInv'
    BY <1>1, <1>2, <1>3 DEF LoopInv, Looping
  <1>6. EndInv'
    BY DEF EndInv
  <1>7. TypeOK' /\ EventInv'
    BY DEF TypeOK, EventInv
  <1> QED BY <1>3, <1>4, <1>5, <1>6, <1>7

\* The exception of a failing step leaves a listener behind that the server's
\* destructor or the scope guard will close, or the one that epoll refused.
LEMMA FailIInv == ASSUME IInv, NEW step, Fail(step) PROVE IInv'
  <1> USE DEF IInv
  <1>1. /\ At(step) /\ pc = "build" /\ pc' = "unwind" /\ todo' = <<>> /\ status' = 1
        /\ step \in {"addresses", "bus", "socket", "register", "options", "bind", "listen", "thread"}
        /\ UNCHANGED <<kind, objects, context, stop, writer, loopVars>>
    BY DEF Fail, At
  <1>2. /\ dtor' = IF step \in {"options", "bind", "listen"} THEN "guard" ELSE "none"
        /\ refused' = (step = "register")
        /\ UNCHANGED <<fd, registered, held, stray>>
    BY DEF Fail, Unwound
  <1>3. /\ Len(objects) = Made /\ writer = "none" /\ ~stray /\ todo # <<>>
        /\ fd = IF Done <= Before THEN "none" ELSE IF Done < Before + 5 THEN "open" ELSE "listening"
        /\ registered <=> Done >= Before + 2
        /\ held <=> Done >= Before + 2
    BY <1>1 DEF At, BuildInv, TypeOK
  <1>4. Places'
    <2>1. Len(todo') = 0 /\ Len(Order(kind)) \in Nat /\ Locals' = Locals
      BY <1>1, OrderTable DEF Places, Kinds, Locals
    <2>2. Done' = Len(Order(kind))
      BY <1>1, <2>1 DEF Done
    <2>3. SubSeq(Order(kind), Done' + 1, Len(Order(kind))) = <<>>
      BY <2>1, <2>2, SubSeqEmpty
    <2>4. Len(todo') \in 0 .. Len(Order(kind)') /\ Len(objects') \in 0 .. Len(Locals')
      BY <1>1, <2>1 DEF Places
    <2>5. todo' = SubSeq(Order(kind)', Done' + 1, Len(Order(kind)'))
      BY <1>1, <2>3
    <2>6. kind' \in {"psql_proxy", "tcp_proxy", "echo"} /\ objects' = SubSeq(Locals', 1, Len(objects'))
      BY <1>1, <2>1 DEF Places
    <2> QED BY <2>4, <2>5, <2>6 DEF Places
  <1>5. /\ Done \in Nat /\ Before \in {2, 4}
        /\ step \in {"addresses", "bus", "socket"} => Done <= Before
        /\ step = "register" => Done = Before + 1
        /\ step \in {"options", "bind", "listen"} => Done \in (Before + 2) .. (Before + 4)
        /\ step = "thread" => Done > Before + 5
        /\ Has("server") <=> step = "thread"
    <2>1. CASE kind = "psql_proxy"
      <3>1. Before = 4 /\ Done \in {0, 1, 4, 5, 6, 7, 8, 11} /\ (step = "thread" <=> Done = 11)
        BY <1>1, <2>1, AtPlace DEF Before
      <3>2. Made = <<0, 1, 2, 2, 3, 3, 3, 3, 3, 3, 4, 5, 5>>[Done + 1]
        BY <2>1 DEF Made
      <3>3. Made >= 4 <=> Done = 11
        BY <3>1, <3>2
      <3> QED BY <1>1, <1>3, <2>1, <3>1, <3>3, AtPlace, HasByCount
    <2>2. CASE kind # "psql_proxy"
      <3>1. Before = 2 /\ Done \in {0, 1, 2, 3, 4, 5, 6} /\ step # "thread"
        BY <1>1, <2>2, AtPlace DEF Before
      <3>2. Made = <<0, 1, 2, 2, 2, 2, 2, 2, 3, 3>>[Done + 1]
        BY <2>2 DEF Made
      <3>3. ~(Made >= 3)
        BY <3>1, <3>2
      <3> QED BY <1>1, <1>3, <2>2, <3>1, <3>3, AtPlace, HasByCount
    <2> QED BY <2>1, <2>2
  <1>6. Has("server")' <=> Has("server")
    BY <1>1 DEF Has
  <1>7. EndInv'
    <2>1. CASE step \in {"addresses", "bus", "socket"}
      BY <2>1, <1>1, <1>2, <1>3, <1>5, <1>6 DEF EndInv, Unwinding
    <2>2. CASE step = "register"
      <3>1. fd' = "open" /\ ~registered' /\ ~held'
        BY <2>2, <1>2, <1>3, <1>5
      <3>2. refused' /\ dtor' = "none" /\ ~stray' /\ writer' # "running"
        BY <2>2, <1>1, <1>2, <1>3
      <3>3. ~Has("server")'
        BY <2>2, <1>5, <1>6
      <3> QED BY <1>1, <3>1, <3>2, <3>3 DEF EndInv, Unwinding
    <2>3. CASE step \in {"options", "bind", "listen"}
      BY <2>3, <1>1, <1>2, <1>3, <1>5, <1>6 DEF EndInv, Unwinding
    <2>4. CASE step = "thread"
      BY <2>4, <1>1, <1>2, <1>3, <1>5, <1>6 DEF EndInv, Unwinding
    <2> QED BY <1>1, <2>1, <2>2, <2>3, <2>4
  <1>8. BuildInv' /\ LoopInv'
    BY <1>1 DEF BuildInv, LoopInv, Looping
  <1>9. TypeOK'
    <2>1. registered' \in BOOLEAN /\ refused' \in BOOLEAN /\ held' \in BOOLEAN /\ stray' \in BOOLEAN
      BY <1>2 DEF TypeOK
    <2>2. dtor' \in {"none", "guard", "acceptor", "base"}
      BY <1>2
    <2> QED BY <1>1, <1>2, <1>3, <2>1, <2>2 DEF TypeOK, loopVars
  <1>10. EventInv'
    BY <1>1 DEF EventInv, loopVars
  <1> QED BY <1>4, <1>7, <1>8, <1>9, <1>10
-----------------------------------------------------------------------------
(* The loop, the end, and everybody else. *)

\* The types of the listener.
ListenType ==
  /\ fd \in {"none", "open", "listening", "closed"} /\ registered \in BOOLEAN
  /\ refused \in BOOLEAN /\ held \in BOOLEAN /\ stray \in BOOLEAN
  /\ dtor \in {"none", "guard", "acceptor", "base"}

\* They are kept by what leaves it alone.
LEMMA ListenTypeKept == TypeOK /\ UNCHANGED listenVars => ListenType'
  BY Zenon DEF TypeOK, ListenType, listenVars

\* Arithmetic of the backlog.
LEMMA WithinArrived ==
  \A a, b, q \in Nat : b + q <= a => b \in 0 .. a /\ q \in 0 .. a - b
  OBVIOUS

\* A step of the loop touches neither the objects nor the listener.
LEMMA RunIInv == ASSUME IInv, Run PROVE IInv'
  <1> USE DEF IInv
  <1>1. /\ UNCHANGED <<kind, todo, objects, context, status, stop, writer>>
        /\ UNCHANGED <<fd, registered, refused, held, dtor, stray>>
    BY DEF Run, RunTest, EpollWait, EpollInterrupted, EpollFails, Accept, AcceptFails, Swap,
       TurnDone, buildVars, listenVars
  <1>2. /\ Looping /\ pc # "join"
        /\ \/ pc' \in {"run", "wait", "epoll", "queue"}
           \/ pc' = "join" /\ kind = "psql_proxy"
           \/ pc' = "unwind" /\ kind # "psql_proxy"
    BY DEF Run, RunTest, EpollWait, EpollInterrupted, EpollFails, Accept, AcceptFails, Swap,
       TurnDone, Looping
  <1>3. /\ objects = Locals /\ todo = <<>>
        /\ fd = "listening" /\ registered /\ held /\ dtor = "none" /\ ~stray
        /\ kind # "psql_proxy" => writer = "none"
    BY <1>2 DEF LoopInv
  <1>4. Places' /\ Locals' = Locals
    BY <1>1 DEF Places, Done, Locals
  <1>5. Has("server")'
    <2>1. Len(objects) >= IF kind = "psql_proxy" THEN 4 ELSE 3
      BY <1>3, LocalsTable
    <2>2. Has("server")
      BY <2>1, HasByCount
    <2> QED BY <1>1, <2>2 DEF Has
  <1>6. BuildInv'
    BY <1>2 DEF BuildInv
  <1>7. LoopInv'
    BY <1>1, <1>2, <1>3, <1>4 DEF LoopInv, Looping
  <1>8. EndInv'
    BY <1>1, <1>2, <1>3, <1>5 DEF EndInv, Unwinding
  <1>9. /\ arrived' = arrived /\ backlog' \in 0 .. arrived /\ edge' \in BOOLEAN
        /\ batch' \in Nat /\ queue' \in Nat
        /\ batch' + queue' <= arrived /\ (edge' => batch' + queue' < arrived)
        /\ pc' \in {"build", "run", "wait"} => batch' = 0
    <2> USE DEF TypeOK, EventInv
    <2>1. CASE RunTest \/ EpollInterrupted \/ EpollFails \/ TurnDone
      BY <2>1 DEF RunTest, EpollInterrupted, EpollFails, TurnDone, loopVars
    <2>2. CASE EpollWait
      <3>1. batch = 0 /\ edge' = FALSE /\ UNCHANGED <<arrived, backlog, queue>> /\ pc' = "epoll"
        BY <2>2 DEF EpollWait
      <3>2. batch' \in {0, 1} /\ (batch' = 1 => queue < arrived)
        <4>1. CASE edge
          BY <2>2, <3>1, <4>1 DEF EpollWait
        <4>2. CASE ~edge
          BY <2>2, <3>1, <4>2 DEF EpollWait
        <4> QED BY <4>1, <4>2
      <3>3. queue \in Nat /\ arrived \in Nat /\ queue <= arrived /\ backlog \in 0 .. arrived
        BY <3>1
      <3>4. batch' \in Nat /\ batch' + queue <= arrived
        <4>1. CASE batch' = 0
          BY <3>3, <4>1
        <4>2. CASE batch' = 1
          BY <3>2, <3>3, <4>2
        <4> QED BY <3>2, <4>1, <4>2
      <3> QED BY <3>1, <3>3, <3>4
    <2>3. CASE Accept
      BY <2>3 DEF Accept, Rearm
    <2>4. CASE AcceptFails
      BY <2>4 DEF AcceptFails
    <2>5. CASE Swap
      BY <2>5 DEF Swap
    <2> QED BY <2>1, <2>2, <2>3, <2>4, <2>5 DEF Run
  <1>10. TypeOK'
    <2>1. arrived \in Nat
      BY DEF TypeOK
    <2>2. arrived' \in Nat /\ batch' \in Nat /\ queue' \in Nat /\ batch' + queue' <= arrived'
      BY <1>9, <2>1
    <2>3. batch' \in 0 .. arrived' /\ queue' \in 0 .. arrived' - batch'
      BY <2>2, WithinArrived
    <2>4. ListenType'
      BY <1>1, ListenTypeKept DEF listenVars
    <2>5. /\ pc' \in {"build", "run", "wait", "epoll", "queue", "join", "unwind", "exit", "exited"}
          /\ context' \in {"null", "made", "freed"} /\ status' \in {0, 1}
          /\ stop' \in BOOLEAN /\ writer' \in {"none", "running", "done"}
          /\ arrived' \in 0 .. MaxClients /\ backlog' \in 0 .. arrived'
      BY <1>1, <1>2, <1>9 DEF TypeOK
    <2> QED BY <2>3, <2>4, <2>5, Zenon DEF TypeOK, ListenType
  <1>11. EventInv'
    BY <1>9 DEF EventInv
  <1> QED BY <1>4, <1>6, <1>7, <1>8, <1>10, <1>11

\* main joins the writer.
LEMMA JoinIInv == ASSUME IInv, Join PROVE IInv'
  <1> USE DEF IInv, Join, Joined, buildVars, listenVars, loopVars
  <1>1. /\ objects = Locals /\ kind = "psql_proxy"
        /\ fd = "listening" /\ registered /\ held /\ dtor = "none" /\ ~stray
    BY DEF LoopInv, Looping
  <1>2. Has("server") /\ (Has("server")' <=> Has("server"))
    <2>1. Len(objects) = 5
      BY <1>1, LocalsTable
    <2> QED BY <1>1, <2>1, HasByCount DEF Has
  <1>3. Places'
    BY DEF Places, Done, Locals
  <1>4. BuildInv' /\ LoopInv'
    BY DEF BuildInv, LoopInv, Looping
  <1>5. EndInv'
    BY <1>1, <1>2 DEF EndInv, Unwinding
  <1>6. TypeOK' /\ EventInv'
    BY DEF TypeOK, EventInv
  <1> QED BY <1>3, <1>4, <1>5, <1>6

\* One of the acceptor's destructors: the one that closes leaves a descriptor to
\* the base's that is neither registered nor held.
LEMMA DtorIInv == ASSUME IInv, ScopeGuard \/ AcceptorDtor \/ BaseDtor PROVE IInv'
  <1> USE DEF IInv
  <1>1. /\ pc = "unwind" /\ dtor # "none"
        /\ UNCHANGED <<kind, pc, todo, objects, context, status, refused, stop, writer, loopVars>>
    BY DEF ScopeGuard, AcceptorDtor, BaseDtor, buildVars
  <1>2. ~stray /\ writer # "running" /\ Unwinding
    BY <1>1 DEF EndInv
  <1>3. ~Has("server") /\ ~Has("server")'
    BY <1>1, <1>2 DEF Unwinding, Has
  <1>4. Places'
    BY <1>1 DEF Places, Done, Locals
  <1>5. /\ ~stray' /\ stray' \in BOOLEAN /\ registered' = FALSE /\ held' = FALSE /\ fd' = "closed"
        /\ dtor' \in {"base", "none"}
    <2>1. CASE ScopeGuard \/ AcceptorDtor
      <3>1. registered /\ held /\ dtor' = "base"
        BY <1>2, <1>3, <2>1 DEF Unwinding, ScopeGuard, AcceptorDtor
      <3> QED BY <1>2, <2>1, <3>1 DEF ScopeGuard, AcceptorDtor, Release, CloseBase, DelFdThrows
    <2>2. CASE BaseDtor
      <3>1. ~registered /\ ~held /\ fd = "closed" /\ dtor' = "none"
        BY <1>2, <1>3, <2>2 DEF Unwinding, BaseDtor
      <3> QED BY <1>2, <2>2, <3>1 DEF BaseDtor, CloseBase, DelFdThrows
    <2> QED BY <2>1, <2>2
  <1>6. Unwinding'
    BY <1>3, <1>5 DEF Unwinding
  <1>7. EndInv'
    BY <1>1, <1>2, <1>5, <1>6 DEF EndInv
  <1>8. BuildInv' /\ LoopInv'
    BY <1>1 DEF BuildInv, LoopInv, Looping
  <1>9. TypeOK'
    BY <1>1, <1>5 DEF TypeOK, loopVars
  <1>10. EventInv'
    BY <1>1 DEF EventInv, loopVars
  <1> QED BY <1>4, <1>7, <1>8, <1>9, <1>10

\* The listener goes with the server, the only object that owns it.
LEMMA DestroyIInv == ASSUME IInv, Destroy PROVE IInv'
  <1> USE DEF IInv
  <1>1. /\ pc = "unwind" /\ dtor = "none"
        /\ objects # <<>> /\ objects' = SubSeq(objects, 1, Len(objects) - 1)
        /\ UNCHANGED <<kind, pc, todo, context, status, stop, writer, loopVars>>
    BY DEF Destroy
  <1>2. /\ dtor' = IF objects[Len(objects)] = "server" THEN "acceptor" ELSE "none"
        /\ UNCHANGED <<fd, registered, refused, held, stray>>
    BY DEF Destroy
  <1>3. /\ Len(objects) \in 1 .. Len(Locals) /\ objects[Len(objects)] = Locals[Len(objects)]
        /\ Len(objects') = Len(objects) - 1 /\ objects' = SubSeq(Locals, 1, Len(objects'))
    BY <1>1, OneLess
  <1>4. Locals' = Locals /\ Len(Locals) \in Nat
    BY <1>1, LocalsTable DEF Locals
  <1>5. Places'
    <2>1. Len(objects') \in 0 .. Len(Locals)
      <3>1. \A n, l \in Nat : n \in 1 .. l => n - 1 \in 0 .. l
        OBVIOUS
      <3>2. Len(objects) \in Nat
        BY <1>3, <1>4
      <3> QED BY <1>3, <1>4, <3>1, <3>2
    <2>2. Done' = Done
      BY <1>1 DEF Done
    <2> QED BY <1>1, <1>3, <1>4, <2>1, <2>2 DEF Places
  <1>6. /\ objects[Len(objects)] = "server" => Has("server") /\ ~Has("server")'
        /\ objects[Len(objects)] # "server" => (Has("server")' <=> Has("server"))
    <2> DEFINE n == Len(objects)
               m == IF kind = "psql_proxy" THEN 4 ELSE 3
    <2>1. Has("server") <=> n >= m
      BY HasByCount
    <2>2. Has("server")' <=> Len(objects') >= m
      BY <1>1, <1>5, HasByCountNext
    <2>3. n \in Nat /\ m \in Nat /\ n \in 1 .. Len(Locals)
      BY <1>3, <1>4
    <2>4. objects[n] = "server" <=> n = m
      BY <1>3, <2>3, LocalsTable
    <2>5. Len(objects') = n - 1
      BY <1>3
    <2> HIDE DEF n, m
    <2>6. \A x, y \in Nat : /\ x = y => x >= y /\ ~(x - 1 >= y)
                            /\ x # y => (x - 1 >= y <=> x >= y)
      OBVIOUS
    <2> QED BY <2>1, <2>2, <2>3, <2>4, <2>5, <2>6 DEF n
  <1>7. EndInv'
    <2>1. CASE objects[Len(objects)] = "server"
      BY <1>1, <1>2, <1>6, <2>1 DEF EndInv, Unwinding
    <2>2. CASE objects[Len(objects)] # "server"
      BY <1>1, <1>2, <1>6, <2>2 DEF EndInv, Unwinding
    <2> QED BY <2>1, <2>2
  <1>8. BuildInv' /\ LoopInv'
    BY <1>1 DEF BuildInv, LoopInv, Looping
  <1>9. TypeOK'
    <2>1. registered' \in BOOLEAN /\ refused' \in BOOLEAN /\ held' \in BOOLEAN /\ stray' \in BOOLEAN
      BY <1>2 DEF TypeOK
    <2>2. fd' \in {"none", "open", "listening", "closed"} /\ dtor' \in {"none", "guard", "acceptor", "base"}
      BY <1>2 DEF TypeOK
    <2> QED BY <1>1, <2>1, <2>2 DEF TypeOK, loopVars
  <1>10. EventInv'
    BY <1>1 DEF EventInv, loopVars
  <1> QED BY <1>5, <1>7, <1>8, <1>9, <1>10

\* Statics are destroyed, the process ends.
LEMMA LastStepsIInv == ASSUME IInv, DestroyStatics \/ Exit PROVE IInv'
  <1> USE DEF IInv
  <1>1. /\ UNCHANGED <<kind, todo, objects, status, stop, writer, loopVars>>
        /\ UNCHANGED <<fd, registered, refused, held, dtor, stray>>
        /\ pc \in {"unwind", "exit"} /\ pc' \in {"exit", "exited"} /\ objects = <<>> /\ dtor = "none"
        /\ context' \in {"null", "made", "freed"}
    BY DEF DestroyStatics, Exit, buildVars, listenVars, EndInv, TypeOK
  <1>2. Places'
    BY <1>1 DEF Places, Done, Locals
  <1>3. BuildInv' /\ LoopInv'
    BY <1>1 DEF BuildInv, LoopInv, Looping
  <1>4. EndInv'
    BY <1>1 DEF EndInv, Unwinding, Has
  <1>5. TypeOK' /\ EventInv'
    BY <1>1 DEF TypeOK, EventInv, loopVars
  <1> QED BY <1>2, <1>3, <1>4, <1>5

\* The writer thread, the signal and the clients.
LEMMA OthersIInv == ASSUME IInv, WriterEnds \/ Signal \/ ClientConnects PROVE IInv'
  <1> USE DEF IInv
  <1>1. UNCHANGED <<kind, todo, objects, context, status, pc,
                  fd, registered, refused, held, dtor, stray>>
    BY DEF WriterEnds, Signal, ClientConnects, buildVars, listenVars
  <1>2. /\ writer' = writer \/ (writer = "running" /\ writer' = "done")
        /\ stop' \in BOOLEAN
    BY DEF WriterEnds, Signal, ClientConnects, TypeOK
  <1>3. Places' /\ Done' = Done /\ Before' = Before /\ Made' = Made /\ Locals' = Locals
    BY <1>1 DEF Places, Done, Before, Made, Locals
  <1>4. BuildInv'
    BY <1>1, <1>2, <1>3 DEF BuildInv
  <1>5. LoopInv'
    BY <1>1, <1>2, <1>3 DEF LoopInv, Looping
  <1>6. EndInv'
    BY <1>1, <1>2 DEF EndInv, Unwinding, Has
  <1>7. /\ edge' \in BOOLEAN /\ UNCHANGED <<batch, queue>>
        /\ \/ UNCHANGED <<arrived, backlog, edge>>
           \/ arrived < MaxClients /\ arrived' = arrived + 1 /\ backlog' = backlog + 1
    BY DEF WriterEnds, Signal, ClientConnects, loopVars, EventInv
  <1>8. EventInv'
    BY <1>1, <1>7 DEF EventInv, TypeOK
  <1>9. TypeOK'
    <2>1. arrived' \in 0 .. MaxClients /\ backlog' \in 0 .. arrived'
          /\ batch' \in 0 .. arrived' /\ queue' \in 0 .. arrived' - batch'
      BY <1>7 DEF TypeOK
    <2>2. ListenType'
      BY <1>1, ListenTypeKept DEF listenVars
    <2>3. /\ pc' \in {"build", "run", "wait", "epoll", "queue", "join", "unwind", "exit", "exited"}
          /\ context' \in {"null", "made", "freed"} /\ status' \in {0, 1}
          /\ stop' \in BOOLEAN /\ writer' \in {"none", "running", "done"}
      BY <1>1, <1>2 DEF TypeOK
    <2> QED BY <2>1, <2>2, <2>3, Zenon DEF TypeOK, ListenType
  <1> QED BY <1>3, <1>4, <1>5, <1>6, <1>8, <1>9
-----------------------------------------------------------------------------
(* The theorems. *)

\* One step.
LEMMA NextIInv == IInv /\ [Next]_vars => IInv'
  <1> SUFFICES ASSUME IInv, [Next]_vars PROVE IInv'
    OBVIOUS
  <1>1. CASE Build
    <2>1. ASSUME NEW step \in {"options", "bind"}, SetUp(step) PROVE IInv'
      BY <2>1, OtherStepsIInv DEF SetUp, listenVars, IInv, TypeOK
    <2>2. CASE MakeContext
      BY <2>2, OtherStepsIInv DEF MakeContext, listenVars, IInv, TypeOK
    <2>3. CASE StartThread
      BY <2>3, OtherStepsIInv DEF StartThread, listenVars, IInv, TypeOK
    <2>4. CASE OpenSocket
      BY <2>4, OtherStepsIInv DEF OpenSocket, IInv, TypeOK
    <2>5. CASE Register
      BY <2>5, OtherStepsIInv DEF Register, IInv, TypeOK
    <2>6. CASE Listen
      BY <2>6, OtherStepsIInv DEF Listen, IInv, TypeOK
    <2> QED BY <1>1, <2>1, <2>2, <2>3, <2>4, <2>5, <2>6, ConstructIInv, BuiltIInv, FailIInv
            DEF Build
  <1>2. CASE Run
    BY <1>2, RunIInv
  <1>3. CASE End
    BY <1>3, JoinIInv, DtorIInv, DestroyIInv, LastStepsIInv DEF End
  <1>4. CASE WriterEnds \/ Signal \/ ClientConnects
    BY <1>4, OthersIInv
  <1>5. CASE UNCHANGED vars
    <2> USE <1>5 DEF vars, buildVars, listenVars, loopVars, IInv
    <2>1. Places' /\ Done' = Done /\ Before' = Before /\ Made' = Made /\ Locals' = Locals
      BY DEF Places, Done, Before, Made, Locals
    <2>2. BuildInv' /\ LoopInv' /\ EndInv'
      BY <2>1 DEF BuildInv, LoopInv, Looping, EndInv, Unwinding, Has
    <2>3. TypeOK' /\ EventInv'
      BY DEF TypeOK, EventInv
    <2> QED BY <2>1, <2>2, <2>3
  <1> QED BY <1>1, <1>2, <1>3, <1>4, <1>5 DEF Next, Gone

\* How far main has come determines its objects and the listener's state.
THEOREM ServiceInductive == Spec => []IInv
  BY InitIInv, NextIInv, PTL DEF Spec

\* The types; there is never more than one accept event per connection, although
\* each event puts itself back.
THEOREM ServiceTypeCorrect == Spec => []TypeOK
  <1>1. IInv => TypeOK
    BY DEF IInv
  <1> QED BY <1>1, ServiceInductive, PTL

\* The query_processor and the stream outlive the thread that points to them.
THEOREM WriterUsesLivingHolds == Spec => []WriterUsesLiving
  <1>1. IInv => WriterUsesLiving
    <2> SUFFICES ASSUME IInv, writer = "running" PROVE Has("processor") /\ Has("stream")
      BY DEF WriterUsesLiving
    <2> USE DEF IInv
    <2>1. kind = "psql_proxy" /\ objects = Locals
      <3>1. CASE pc = "build"
        BY <3>1, AllMade DEF BuildInv
      <3>2. CASE Looping
        BY <3>2 DEF LoopInv
      <3> QED BY <3>1, <3>2 DEF TypeOK, Looping, EndInv
    <2>2. Len(objects) = 5
      BY <2>1, LocalsTable
    <2>3. Len(objects) >= 3 /\ Len(objects) >= 5
      BY <2>2
    <2>4. Places
      OBVIOUS
    <2> QED BY <2>1, <2>3, <2>4, HasByCount
  <1> QED BY <1>1, ServiceInductive, PTL

\* The listener listens and is registered as long as the server is there; when
\* the destructors have run, whichever step of the construction failed, it is
\* out of epoll and closed, unless epoll had refused it.
THEOREM ListenerKeptHolds == Spec => []ListenerKept
  <1>1. IInv => ListenerKept
    <2> SUFFICES ASSUME IInv PROVE ListenerKept
      OBVIOUS
    <2> USE DEF IInv
    <2>1. Has("server") => fd = "listening" /\ registered
      <3> SUFFICES ASSUME Has("server") PROVE fd = "listening" /\ registered
        OBVIOUS
      <3>1. CASE pc = "build"
        <4>1. /\ Len(objects) = Made /\ Len(objects) >= (IF kind = "psql_proxy" THEN 4 ELSE 3)
              /\ fd = IF Done <= Before THEN "none" ELSE IF Done < Before + 5 THEN "open" ELSE "listening"
              /\ registered <=> Done >= Before + 2
          BY <3>1, HasByCount DEF BuildInv
        <4>2. Done \in 0 .. (IF kind = "psql_proxy" THEN 12 ELSE 9)
          BY DoneRange
        <4>3. CASE kind = "psql_proxy"
          <5>1. Made = <<0, 1, 2, 2, 3, 3, 3, 3, 3, 3, 4, 5, 5>>[Done + 1] /\ Before = 4
            BY <4>3 DEF Made, Before
          <5>2. Done >= 10
            BY <4>1, <4>2, <4>3, <5>1
          <5> QED BY <4>1, <4>2, <4>3, <5>1, <5>2
        <4>4. CASE kind # "psql_proxy"
          <5>1. Made = <<0, 1, 2, 2, 2, 2, 2, 2, 3, 3>>[Done + 1] /\ Before = 2
            BY <4>4 DEF Made, Before
          <5>2. Done >= 8
            BY <4>1, <4>2, <4>4, <5>1
          <5> QED BY <4>1, <4>2, <4>4, <5>1, <5>2
        <4> QED BY <4>3, <4>4
      <3>2. CASE Looping
        BY <3>2 DEF LoopInv
      <3>3. CASE pc \in {"unwind", "exit", "exited"}
        BY <3>3 DEF EndInv, Unwinding
      <3> QED BY <3>1, <3>2, <3>3 DEF TypeOK, Looping
    <2>2. pc \in {"unwind", "exit", "exited"} /\ dtor = "none" /\ ~Has("server") =>
            ~registered /\ (fd \in {"none", "closed"} \/ (fd = "open" /\ refused))
      BY DEF EndInv, Unwinding
    <2> QED BY <2>1, <2>2 DEF ListenerKept
  <1> QED BY <1>1, ServiceInductive, PTL

\* No destructor uses the descriptor's number after another one has closed it.
THEOREM ReleasedOnceHolds == Spec => []ReleasedOnce
  <1>1. IInv => ReleasedOnce
    <2> SUFFICES ASSUME IInv PROVE ~stray
      BY DEF ReleasedOnce
    <2> USE DEF IInv
    <2>1. CASE pc = "build"
      BY <2>1 DEF BuildInv
    <2>2. CASE Looping
      BY <2>2 DEF LoopInv
    <2>3. CASE pc \in {"unwind", "exit", "exited"}
      BY <2>3 DEF EndInv
    <2> QED BY <2>1, <2>2, <2>3 DEF TypeOK, Looping
  <1> QED BY <1>1, ServiceInductive, PTL
=============================================================================
