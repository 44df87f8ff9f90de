------------------------------ MODULE MCRelay ------------------------------
(* Constants for checking Relay. *)
EXTENDS Relay

\* tcp_proxy::session
TcpWiring == [left   |-> [c \in Channel |-> IF c = "lr" THEN "client" ELSE "target"],
              right  |-> [c \in Channel |-> IF c = "lr" THEN "target" ELSE "client"],
              parsed |-> {}, polite |-> FALSE, resets |-> TRUE]

\* psql_proxy::session: the handler is in the channel from the client.
PsqlWiring == [TcpWiring EXCEPT !.parsed = {"lr"}]

\* echo::session: both channels read from and write to the one socket.
EchoWiring == [TcpWiring EXCEPT !.left  = [c \in Channel |-> "client"],
                                !.right = [c \in Channel |-> "client"]]

Polite(x)  == [x EXCEPT !.polite = TRUE]
NoReset(x) == [x EXCEPT !.resets = FALSE]

TcpOnly  == {TcpWiring}
TcpQuiet == {NoReset(TcpWiring)}
PsqlOnly == {PsqlWiring}
Sessions == {NoReset(PsqlWiring), EchoWiring, Polite(TcpWiring), Polite(EchoWiring)}

\* Bytes in both directions.
BothWays == [f \in Fd |-> IF f = "client" THEN 4 ELSE 1]
OneByOne == [f \in Fd |-> {1}]
OneOrTwo == [f \in Fd |-> {1, 2}]
=============================================================================
