--------------------------- MODULE WebsocketRelay ---------------------------
(***************************************************************************)
(* One websocket connection: the handshake that DoConnect starts with guacd,  *)
(* then the two goroutines that carry instructions between guacd and the      *)
(* client, and what they leave behind when either side goes.                 *)
(*                                                                         *)
(* guacd is the environment: it asks for some parameters, may refuse, and     *)
(* sends one of a few scripts. So is the client, who may go at any time.      *)
(***************************************************************************)
EXTENDS GuacStream

CONSTANTS
  Parameters,    \* config.Parameters: names of parameters to values
  Asked,         \* the lists of parameter names guacd may ask for
  Scripts,       \* what guacd may send of a session
  ClientSends,   \* messages of the client, each an instruction as text
  MaxHeard       \* bound: messages of the client to guacd

\* Any value in Letters will do for the letters of this module.
ASSUME RelayAssumption ==
  /\ {"S", "A", "O", "C", "R", "E", "k", "r", "x"} \subseteq Letters
  /\ Asked \subseteq Seq(Seq(Characters))
  /\ Scripts \subseteq Seq(Seq(Seq(Characters)))
  /\ MaxHeard \in Nat

VARIABLES
  names,     \* the parameters this guacd asks for
  script,    \* what it sends once it is ready
  asks,      \* what guacd is to answer next
  phase,     \* the goroutine that serves the request
  told,      \* instructions written to guacd in the handshake
  buf,       \* guacdToWs: instructions not yet sent to the websocket
  messages,  \* websocket messages the client has received
  ws,        \* the websocket, or what is left of it
  up,        \* wsToGuacd, the goroutine of the other direction
  heard      \* messages written to guacd by it

relayVars == <<names, script, asks, phase, told, buf, messages, ws, up, heard>>
allVars == <<streamVars, relayVars>>

\* Opcodes, one character each.
select == <<"S">>
args == <<"A">>
config == <<"O">>    \* size, audio, video and image
connect == <<"C">>
ready == <<"R">>
error == <<"E">>
connectionID == <<"k">>

RelayTypeOK ==
  /\ StreamTypeOK
  /\ names \in Asked /\ script \in Scripts
  /\ asks \in {"none", "args", "ready"}
  /\ phase \in {"select", "args", "ready", "relay", "ended"}
  /\ ws \in {"open", "gone", "reset", "closed"}
  /\ up \in {"none", "runs", "stopped"}
  /\ Len(heard) <= MaxHeard

RelayInit ==
  /\ StreamInit
  /\ names \in Asked /\ script \in Scripts
  /\ asks = "none" /\ phase = "select" /\ told = <<>>
  /\ buf = <<>> /\ messages = <<>>
  /\ ws = "open" /\ up = "none" /\ heard = <<>>

\* The serving goroutine calls ReadSome, again if need be.
Calls == call' = "running" /\ got' = <<>>

(***************************************************************************)
(* guacd.                                                                   *)
(***************************************************************************)
Sends(instructions) ==
  wire' = wire \o FlattenSeq([i \in DOMAIN instructions |->
                                Utf8(ProtocolText(instructions[i]))])

\* guacd answers, or refuses, or something else listens there.
GuacdAnswers ==
  /\ asks # "none"
  /\ asks' = "none"
  /\ \/ asks = "args" /\ Sends(<< <<args>> \o names >>)
     \/ asks = "ready" /\ Sends(<< <<ready, connectionID>> >> \o script)
     \/ asks = "ready" /\ ~calm /\ Sends(<< <<ready>> >>)
     \/ ~calm /\ Sends(<< <<error>> >>)
     \/ ~calm /\ wire' = wire \o <<"x">>
  /\ UNCHANGED <<buffer, offset, parseStart, call, got, failed, calm>>
  /\ UNCHANGED <<names, script, phase, told, buf, messages, ws, up, heard>>

(***************************************************************************)
(* The handshake.                                                           *)
(***************************************************************************)
Select ==
  /\ phase = "select"
  /\ told' = << <<select, <<"r">> >> >>
  /\ phase' = "args" /\ asks' = "args" /\ Calls
  /\ UNCHANGED <<wire, buffer, offset, parseStart, failed, calm>>
  /\ UNCHANGED <<names, script, buf, messages, ws, up, heard>>

ValueOf(name) == IF name \in DOMAIN Parameters THEN Parameters[name] ELSE <<>>

\* A bug: parameters without a value are left out.
ValuesOf_Skips(list) ==
  LET known == SelectSeq(list, LAMBDA n : n \in DOMAIN Parameters)
  IN  [i \in DOMAIN known |-> Parameters[known[i]]]

\* argValueS: a value for each name guacd asks for, empty if there is none.
ValuesOf(list) == [i \in DOMAIN list |-> ValueOf(list[i])]

\* AssertOpcode: what ReadSome returned, with the opcode that is due.
Got(opcode) ==
  /\ call = "returns" /\ ~failed
  /\ Parse(got)[1] = opcode

Configure ==
  /\ phase = "args" /\ Got(args)
  /\ told' = told \o << <<config>>, <<connect>> \o ValuesOf(Tail(Parse(got))) >>
  /\ phase' = "ready" /\ asks' = "ready" /\ Calls
  /\ UNCHANGED <<wire, buffer, offset, parseStart, failed, calm>>
  /\ UNCHANGED <<names, script, buf, messages, ws, up, heard>>

\* A bug: what came with "ready" is thrown away.
StartRelay_Empties ==
  /\ phase = "ready" /\ Got(ready) /\ Len(Parse(got)) > 1
  /\ buffer' = <<>> /\ offset' = 0
  /\ phase' = "relay" /\ up' = "runs" /\ Calls
  /\ UNCHANGED <<wire, parseStart, failed, calm>>
  /\ UNCHANGED <<names, script, asks, told, buf, messages, ws, heard>>

\* guacd is ready: the buffer is flushed and both directions start.
StartRelay ==
  /\ phase = "ready" /\ Got(ready) /\ Len(Parse(got)) > 1
  /\ offset' = 0
  /\ phase' = "relay" /\ up' = "runs" /\ Calls
  /\ UNCHANGED <<wire, buffer, parseStart, failed, calm>>
  /\ UNCHANGED <<names, script, asks, told, buf, messages, ws, heard>>

\* The deferred calls of the request.
End ==
  /\ phase' = "ended" /\ call' = "none" /\ ws' = "closed"
  /\ UNCHANGED <<wire, buffer, offset, parseStart, got, failed, calm>>
  /\ UNCHANGED <<names, script, asks, told, buf, messages, up, heard>>

\* An error, another opcode, a connection without an id; a write that fails,
\* or 45 seconds in all.
HandshakeFails ==
  /\ \/ phase \in {"args", "ready"} /\ call = "returns" /\ failed
     \/ phase = "args" /\ call = "returns" /\ ~failed /\ ~Got(args)
     \/ phase = "ready" /\ call = "returns" /\ ~failed
          /\ ~(Got(ready) /\ Len(Parse(got)) > 1)
     \/ phase \in {"select", "args", "ready"} /\ ~calm
  /\ End

(***************************************************************************)
(* guacdToWs.                                                               *)
(***************************************************************************)
\* The text starts as that of an instruction with the empty opcode does.
Internal(text) == Len(text) > 1 /\ SubSeq(text, 1, 2) = <<"0", ".">>

Bytes(texts) == Len(FlattenSeq([i \in DOMAIN texts |-> Utf8(texts[i])]))

\* A bug: only a full buffer is sent.
Due_WhenFull(texts) == Bytes(texts) >= MaxGuacMessage

Due(texts) == ~Available \/ Bytes(texts) >= MaxGuacMessage

GotMessage == phase = "relay" /\ call = "returns" /\ ~failed

\* Kept for later: more is in the buffer of the stream.
KeepBack ==
  /\ GotMessage
  /\ buf' = IF Internal(got) THEN buf ELSE Append(buf, got)
  /\ Internal(got) \/ ~Due(buf')
  /\ Calls
  /\ UNCHANGED <<wire, buffer, offset, parseStart, failed, calm>>
  /\ UNCHANGED <<names, script, asks, phase, told, messages, ws, up, heard>>

\* A bug: the buffer is not reset.
Forward_NoReset ==
  /\ GotMessage /\ ~Internal(got)
  /\ LET texts == Append(buf, got) IN
       /\ Due(texts)
       /\ \/ ws = "open" /\ messages' = Append(messages, texts) /\ UNCHANGED ws
          \/ ws = "gone" /\ ws' = "reset" /\ UNCHANGED messages
       /\ buf' = texts
  /\ Calls
  /\ UNCHANGED <<wire, buffer, offset, parseStart, failed, calm>>
  /\ UNCHANGED <<names, script, asks, phase, told, up, heard>>

\* Sent as one message. The first write after the client has gone may still
\* be taken by the network.
Forward ==
  /\ GotMessage /\ ~Internal(got)
  /\ LET texts == Append(buf, got) IN
       /\ Due(texts)
       /\ \/ ws = "open" /\ messages' = Append(messages, texts) /\ UNCHANGED ws
          \/ ws = "gone" /\ ws' = "reset" /\ UNCHANGED messages
  /\ buf' = <<>>
  /\ Calls
  /\ UNCHANGED <<wire, buffer, offset, parseStart, failed, calm>>
  /\ UNCHANGED <<names, script, asks, phase, told, up, heard>>

\* ReadSome returned an error, or the write fails.
RelayFails ==
  /\ \/ phase = "relay" /\ call = "returns" /\ failed
     \/ /\ GotMessage /\ ~Internal(got) /\ Due(Append(buf, got))
        /\ ws \in {"gone", "reset"}
  /\ End

(***************************************************************************)
(* The client, and wsToGuacd.                                               *)
(***************************************************************************)
ClientGoes ==
  /\ ~calm
  /\ ws = "open"
  /\ ws' = "gone"
  /\ UNCHANGED <<streamVars, names, script, asks, phase, told, buf, messages, up, heard>>

\* A message of the client, which is written to guacd or dropped; or the write
\* fails and ends the goroutine.
Upstream ==
  /\ up = "runs" /\ ws = "open"
  /\ Len(heard) < MaxHeard
  /\ \E m \in ClientSends :
       \/ heard' = (IF Internal(m) THEN heard ELSE Append(heard, m)) /\ UNCHANGED up
       \/ ~Internal(m) /\ ~calm /\ up' = "stopped" /\ UNCHANGED heard
  /\ UNCHANGED <<streamVars, names, script, asks, phase, told, buf, messages, ws>>

\* Nothing more can be read from the websocket.
UpstreamEnds ==
  /\ up = "runs" /\ ws # "open"
  /\ up' = "stopped"
  /\ UNCHANGED <<streamVars, names, script, asks, phase, told, buf, messages, ws, heard>>

Handshake == Select \/ Configure \/ StartRelay \/ HandshakeFails
GuacdToWs == KeepBack \/ Forward \/ RelayFails

RelayNext ==
  \/ ReadSomeStep /\ UNCHANGED relayVars
  \/ GuacdAnswers
  \/ Handshake
  \/ GuacdToWs
  \/ ClientGoes
  \/ Upstream
  \/ UpstreamEnds

RelaySpec == RelayInit /\ [][RelayNext]_allVars

(***************************************************************************)
(* A relay whose guacd, scripts and parameters the stream is good for.         *)
(***************************************************************************)
Offered ==
  {<< <<args>> \o list >> : list \in Asked}
    \cup {<< <<ready, connectionID>> >> \o list : list \in Scripts}
    \cup {<< <<ready>> >>, << <<error>> >>}

PlainRelay ==
  /\ Offered \subseteq PlainLists
  /\ \A list \in Asked : <<connect>> \o ValuesOf(list) \in Seq(Seq(OneByte))

(***************************************************************************)
(* Properties.                                                              *)
(***************************************************************************)
Texts == [i \in DOMAIN script |-> ProtocolText(script[i])]

\* However reads cut the stream, whatever came in one piece with "ready" and
\* however often the buffer was moved, the client has received what guacd
\* sent, instruction by instruction and without a gap: what is not yet sent
\* to him is what waits in guacdToWs. (Once he has gone, a write may be lost.)
RelayedInOrder ==
  IsPrefix(FlattenSeq(messages) \o (IF ws = "open" THEN buf ELSE <<>>), Texts)

\* A session starts only with a guacd that was told a value for each parameter
\* it named, in its order (stream.go:186-226).
Configured ==
  phase = "relay" =>
    Parse(String(Last(told))) = <<connect>> \o [i \in DOMAIN names |-> ValueOf(names[i])]

\* guacdToWs waits for the network with instructions in hand only if the rest
\* of another one is on its way (Available, ws_server.go:178).
NothingHeldBack ==
  phase = "relay" /\ call = "running" /\ ~Arrived /\ buf # <<>> => Available

\* When nothing goes wrong the client gets the whole script.
AllDelivered == []<>(calm => FlattenSeq(messages) = Texts)

\* Once the client has gone, or ReadSome has failed, both goroutines end, each
\* by an error of its own. (Neither undoes itself, so that "again and again" is
\* "from some time on". A write that is blocked by a client who stays and does
\* not read is neither.)
RelayEnds ==
  []<>(phase = "relay" \/ up = "runs" => ws = "open" /\ ~failed)

\* tunnel.go:21: "ReadSome returns the next complete guacd message from the
\* stream"; nothing was wrong with the stream.
ReturnsNextMessage ==
  calm /\ phase = "relay" /\ call = "returns" =>
    /\ ~failed
    /\ got = Texts[Len(FlattenSeq(messages)) + Len(buf) + 1]

=============================================================================
