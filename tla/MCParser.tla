------------------------------ MODULE MCParser ------------------------------
(* Constants for checking Parser.  With five byte values, 1 to 3 are codes. *)
EXTENDS Parser

Msg(tag, body) == [tag |-> tag, len |-> Len(body) + 4, body |-> body]

\* version 3.1 and one setting
Startup    == Msg(<<>>, <<0, 3, 0, 1, 2, 0, 4, 0, 0>>)
SSLRequest == Msg(<<>>, <<1, 2, 1, 3>>)
EmptyQuery == Msg(<<Query>>, <<0>>)
ShortQuery == Msg(<<Query>>, <<Terminate, 0>>)
Goodbye    == Msg(<<Terminate>>, <<>>)
Password   == Msg(<<4>>, <<Query, 0>>)
Status     == Msg(<<ParameterStatus>>, <<1, 0, 1, 0>>)

\* Not well formed: a query without its zero, a length that omits itself.
BareQuery   == Msg(<<Query>>, <<>>)
ShortLength == [tag |-> <<4>>, len |-> 1, body |-> <<1>>]

PlainOpening == {<<Startup>>}
SSLOpening   == {<<SSLRequest, Startup>>}

AnyMessages  == {EmptyQuery, ShortQuery, Goodbye, Password, Status, BareQuery, ShortLength}
FewMessages  == {EmptyQuery, ShortQuery}

\* The first run's clients are among those the theorems are about.
ASSUME PlainOpeningIsPlain == Openings = PlainOpening => PlainClient
=============================================================================
