------------------------------ MODULE MCProxy ------------------------------
(* Constants for checking Proxy. *)
EXTENDS Proxy, MCRelay

Msg(tag, body) == [tag |-> tag, len |-> Len(body) + 4, body |-> body]

Startup  == Msg(<<>>, <<0, 3, 0, 0>>)
LongStartup == Msg(<<>>, <<0, 3, 0, 0, 4, 4, 0, 4, 4, 0, 0>>)   \* startup with a parameter
OneQuery == Msg(<<Query>>, <<Terminate, 0>>)
Goodbye  == Msg(<<Terminate>>, <<>>)
BadQuery == Msg(<<Query>>, <<>>)   \* makes the handler throw

\* Each has 20 bytes; a cut after 10 is inside the length of the second message
\* or the body of the first.
Dialogues == {<<Startup, OneQuery, Goodbye>>, <<Startup, BadQuery, OneQuery>>,
              <<Startup, Goodbye, OneQuery>>, <<LongStartup, Goodbye>>}

\* The clients are among those the theorems are about.
ASSUME DialoguesArePlain == P!PlainClient

\* The target answers once.
Answers == [f \in Fd |-> IF f = "client" THEN 20 ELSE 5]
Sizes   == [f \in Fd |-> IF f = "client" THEN {10} ELSE {5}]
=============================================================================
