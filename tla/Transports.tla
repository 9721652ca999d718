----------------------------- MODULE Transports -----------------------------
(***************************************************************************)
(* What carries a session and its files: the HTTP tunnels, the stream and the *)
(* relay of one websocket, and uploads.                                     *)
(*                                                                         *)
(* The three share no state: the tunnels of the HTTP server are in a map of    *)
(* their own, a relay has its own connection to guacd, and an upload goes      *)
(* past both. What one does neither enables nor disables a step of another, so  *)
(* a property of one holds in every interleaving when it holds of it alone; a  *)
(* behaviour of this module follows one and leaves the others at rest.         *)
(***************************************************************************)
EXTENDS HttpTunnels, WebsocketRelay, FileUpload

VARIABLE focus     \* the transport this behaviour follows

transportVars == <<httpVars, allVars, uploadVars, focus>>

\* A choice of the environment that nothing depends on.
AtRest(chosen, choices) == chosen = CHOOSE x \in choices : TRUE

TransportInit ==
  /\ focus \in {"http", "relay", "upload"}
  /\ HttpInit
  /\ RelayInit
  /\ focus # "relay" => ~calm /\ AtRest(names, Asked) /\ AtRest(script, Scripts)
  /\ UploadInit
  /\ focus # "upload" => ~minioClient

\* The types of what HttpTypeOK does not cover.
StreamsAndFilesTypeOK == RelayTypeOK /\ UploadTypeOK

InHttp(A) == focus = "http" /\ A /\ UNCHANGED <<focus, allVars, uploadVars>>
InRelay(A) == focus = "relay" /\ A /\ UNCHANGED <<focus, httpVars, uploadVars>>
InUpload(A) == focus = "upload" /\ A /\ UNCHANGED <<focus, httpVars, allVars>>

TransportNext ==
  \/ InHttp(HttpNext)
  \/ InRelay(RelayNext)
  \/ InUpload(UploadNext)

(***************************************************************************)
(* HTTP: clients owe nothing, neither a request nor the end of a body, nor    *)
(* do they have to read a response: no fairness on Connect, Lookup, Copy and  *)
(* Respond, the last two without a deadline in the code. A goroutine goes on, *)
(* and ReadSome, which only reads from guacd, returns within its deadline. A  *)
(* Go mutex that a goroutine has waited for is handed over to it, hence the   *)
(* strong fairness: it matters for Take alone, no other step of a request is  *)
(* disabled by somebody else. Of the steps of the ticker and its task one at  *)
(* most is enabled.                                                          *)
(***************************************************************************)
HttpFairness ==
  /\ \A r \in Reqs : SF_transportVars(InHttp(ReqStep(r) \/ Take(r)))
  /\ WF_transportVars(InHttp(Scan \/ RemoveMarked \/ Tick))

(***************************************************************************)
(* Relay: both goroutines go on, the one that serves the request and the one *)
(* that reads the client, and ReadSome returns at its deadline. guacd and the *)
(* client owe nothing, unless the behaviour is calm.                         *)
(***************************************************************************)
Serving == (ReadSomeStep /\ UNCHANGED relayVars) \/ Handshake \/ GuacdToWs

RelayFairness ==
  /\ WF_transportVars(InRelay(Serving))
  /\ WF_transportVars(InRelay(UpstreamEnds))
  /\ WF_transportVars(InRelay(calm /\ GuacdAnswers))

\* Uploads: timeouts fire and goroutines go on. The services owe nothing.
UploadFairness == \A u \in Requests : WF_transportVars(InUpload(UploadStep(u)))

TransportSpec ==
  /\ TransportInit /\ [][TransportNext]_transportVars
  /\ HttpFairness /\ RelayFairness /\ UploadFairness

=============================================================================
