-------------------------- MODULE MCWebsocketRelay --------------------------
(* Instances of the websocket relay for TLC. *)
EXTENDS WebsocketRelay

MCLetters ==
  {"S", "A", "O", "C", "R", "E", "k", "r", "h", "s", "u", "x", "y", "a", "b", "K", "p"}

host == <<"h">>
user == <<"u">>
secret == <<"s">>

MCParameters == (host :> <<"x", "y">>) @@ (user :> <<"y">>)

\* guacd asks for a parameter without a value between two that have one.
MCAsked == { <<host, secret, user>> }

Thirteen == [i \in 1..13 |-> "x"]

\* Texts of 17 runes (2 * MaxGuacMessage + 1), of two elements, of digits and
\* terminators that are content.
MCScripts ==
  { << << <<"a">> >>, << <<"b">>, <<"1">> >>, <<Thirteen>>, << <<"a">> >>, << <<"b">> >> >>,
    << << <<"1">>, <<".", ";">> >>, << <<"a">> >>, << <<"a">>, <<>> >>, <<Thirteen>> >> }

\* A ping of the client's tunnel, and a key.
MCClientSends == { ProtocolText(<< <<>>, <<"p">> >>), ProtocolText(<< <<"K">> >>) }

WideScripts == { << << <<"a">>, <<"w">> >> >> }

=============================================================================
