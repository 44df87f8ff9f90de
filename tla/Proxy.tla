-------------------------------- MODULE Proxy --------------------------------
(***************************************************************************)
(* A session of psql_proxy with its handler: Relay's channels, with the    *)
(* psql_proxy::handler of Parser in the channel from client to target.     *)
(* The client follows a script of messages.  A handler call is several     *)
(* steps, one per message it finds; the kernel and the peers act between   *)
(* them.                                                                   *)
(***************************************************************************)
EXTENDS Relay, SequencesExt

CONSTANTS Base, Query, Terminate, ParameterStatus,   \* as in Parser
          Scripts    \* the message sequences a client may send

VARIABLES sent, wire, hpc, rest, buffer, first, logged, ended, thrown

P == INSTANCE Parser WITH pc <- hpc, Openings <- Scripts, Messages <- {}, MaxMessages <- 0

ASSUME ParserAssumption ==
  /\ Base \in Nat /\ Base > 1
  /\ {Query, Terminate, ParameterStatus} \subseteq P!Byte \ {P!StartupMessage}
  /\ Scripts \subseteq Seq(P!Message)

\* psql_proxy::session: the handler is in the channel that reads from the client.
ASSUME SessionAssumption == \A x \in Wirings : x.parsed = {"lr"} /\ x.left["lr"] = "client"

parserVars == <<sent, wire, hpc, rest, buffer, first, logged, ended, thrown>>
proxyVars  == <<vars, parserVars>>

ProxyInit == Init /\ P!Init

\* The client sends no more than its script.
Environment ==
  /\ Kernel /\ UNCHANGED <<wiring, parserVars>>
  /\ sock'["client"].inq <= Len(wire)

\* recv into the channel's buffer; the handler is called with what it returned.
\* In the other direction there is no handler.
Receive ==
  /\ RecvData
  /\ IF Head(steps).ch \in Parsed
       THEN P!Recv(LeastOf(CHUNK_SZ, sock["client"].inq))
       ELSE UNCHANGED parserVars

\* The handler makes and visits one message.
ParseOne ==
  /\ At("handle")
  /\ P!Handle
  /\ IF P!MsgCode = Terminate THEN HandlerEnds ELSE UNCHANGED vars

ParseReturns == HandlerReturns /\ (P!NeedMore \/ P!Return)
ParseThrows  == HandlerThrows /\ P!Throw

Process == /\ \/ Receive \/ ParseOne \/ ParseReturns \/ ParseThrows
              \/ Loop /\ UNCHANGED parserVars
           /\ UNCHANGED wiring

ProxyNext == Environment \/ Process \/ (Ended /\ UNCHANGED parserVars)

\* The loop runs as long as the process lives; the peers owe nothing.
ProxySpec ==
  /\ ProxyInit /\ [][ProxyNext]_proxyVars
  /\ WF_proxyVars(Process)
-----------------------------------------------------------------------------
(* Properties. *)

\* The target has been given the first k messages as a whole, and all of them
\* are well formed.
PassedWhole(k) == /\ Len(P!AllBytes(P!FirstOf(k))) <= Len(out["lr"])
                  /\ \A j \in 1 .. k : P!WellFormed(sent[j])

\* No query reaches the target unseen: whatever is read, refused, cut, sent
\* short or retried, a query that the kernel has taken as a whole for the
\* target has been given to the logger before, each in order, up to the first
\* message that is not well formed.
LoggedBeforePassed ==
  \A k \in 0 .. Len(sent) : PassedWhole(k) => IsPrefix(P!Texts(P!FirstOf(k)), logged)

\* A Terminate that the handler has found ends the session, whatever else is
\* queued, unless the process is killed first.
TerminateCloses == ended ~> (~open \/ killed)

\* The inductive invariant: those of session and handler; a call of the handler
\* is under way only while its step comes next, and every read is followed by
\* one; what the channel has taken in is what the client no longer has to send.
CallInv  == hpc # "idle" => steps # <<>> /\ Head(steps).op = "handle"
StepsInv == \A k \in DOMAIN steps : steps[k].op = "recv" /\ steps[k].ch = "lr" =>
                                      k + 1 \in DOMAIN steps /\ steps[k + 1].op = "handle"
BytesInv == Len(Through("lr")) + Len(wire) = Len(P!AllBytes(sent))

ProxyIInv == IInv /\ P!IInv /\ CallInv /\ StepsInv /\ BytesInv /\ LoggedBeforePassed
=============================================================================
