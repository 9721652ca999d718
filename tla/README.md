# KubeBrowse in TLA+

KubeBrowse gives a user a browser or an office program in a Kubernetes pod of
their own, shown over Guacamole. This project specifies two halves of it: the
Go backend, above all the part that decides how long such a session lives and who
cleans it up, with its Redis keys, its pods, its websocket tunnels and its background
goroutines, the transports that carry the session, and uploads; and the part of
the React frontend that has state of its own, the
session pages with their Guacamole client, signing in, the control panel and the
mouse. Paths below are relative to the repository.

## 1. The system

### Components, their state, their operations

| Component | State | Operations | Code |
|---|---|---|---|
| Session store | Redis keys `session:<uuid>` (JSON document, TTL) and `reconnect:<uuid>` | GET, SET, TTL, EXISTS, DEL, and the read-modify-write helpers | `internal/redis/main.go` |
| Deployments | one pod per session, parameters in the tunnel store | create the pod, wait for it, store the session | `api/main.go`, `internal/k8s` |
| Websocket tunnels | `ActiveTunnelStore` (tunnels, parameters), the handler goroutine of each websocket | `DemoDoConnect`, the relay, `OnDisconnect`, close | `api/tunnel.go`, `internal/guac/ws_server.go`, `mem_session.go` |
| Reconnection window | `reconnect:<uuid>`, one sleeping goroutine per disconnection | open the window, wake up, preserve or reap | `cmd/guac/main.go:326-427` |
| Session requests | none of their own | share, extend, stop, join as a viewer; read-only queries | `api/main.go`, `api/session_handlers.go`, `api/sessions.go`, `api/tunnel.go` |
| Session cleanup service | map session -> monitor, one goroutine per monitor, the sweep goroutine | register, unregister, `monitorSession`, `performCleanup`, `cleanupPod` | `internal/cleanup/session_cleanup.go` |
| HTTP tunnels | `TunnelMap` with access times, a timeout goroutine, counted locks per tunnel | connect, read, write, time out | `internal/guac/tunnel_map.go`, `server.go`, `tunnel.go`, `counted_lock.go` |
| Guacamole stream | read buffer, connection id | handshake, `ReadSome`, instruction parsing, websocket relay | `internal/guac/stream.go`, `instruction.go`, `ws_server.go` |
| Orphaned pod cleanup | none | list pods, match with Redis, delete | `internal/cleanup/service.go` (not started by the program) |
| Authentication | users, login sessions, verification tokens (PostgreSQL), OAuth state (Redis) | register, log in, verify, OAuth, change password, expire | `internal/auth` |
| Uploads | none | scan with ClamAV, copy to the pod and to MinIO concurrently | `api/uploads.go` |
| Guacamole client | the tunnel of a page, the connection state shown, timers | open, restart, reconnect, lose, disconnect | `frontend/src/hooks/useGuacWebSocket.js`, `components/GuacClient.jsx`, `Modal.jsx` |
| Session pages | session state, URL, localStorage, requests under way | create, join, restore, share, leave, navigate, reload | `components/OfficeSession.jsx`, `BrowserSession.jsx`, `ShareWSSession.jsx` |
| Signing in | `AuthContext`, the dialog, the effects of two landing pages | log in and out, register, verify, OAuth, save the profile | `context/AuthContext.jsx`, `components/auth`, `routes/AuthSuccessRoute.jsx`, `EmailVerificationSuccessRoute.jsx`, `ProfileRoute.jsx` |
| Control panel | an upload, the log, a share request, their timers | upload, look at the log, share | `components/WebSocketControl.jsx` |
| Mouse | buttons down, events to ignore, accumulated scroll | move, press, release, leave, touch, scroll | `lib/GuacMouse.js` |

### How they interact

A deployment creates the pod and a session without expiration. The first tunnel
gives the session its times, connects guacd to the pod, writes its connection id
into the session and registers a monitor. Everything afterwards works on the same
two Redis keys without transactions: requests, further tunnels, disconnections,
the watchers they leave behind, the monitors and the sweep. They share no lock;
the only mutexes are the one of the tunnel store and the one of the cleanup
service, and neither is held across a Redis command.

Once guacd is ready, two goroutines carry instructions between it and the
websocket: the one that serves the request reads guacd through `Stream` and writes
websocket messages, the other writes what the client sends to guacd. Only the
first closes anything; the second ends by the error this gives it.

An upload asks Redis where the session's container is, and then sends the file to
the container, to ClamAV and to MinIO, each in a goroutine of its own (without MinIO
one after the other); its answer has a result for each.

A page asks the backend for a session (deploy, then connect), keeps its id in
React state, in the tab's URL and in localStorage, and shows a `GuacClient`, whose
hook opens the websocket. Closing the page's session is a `DELETE` that nobody
waits for. Effects and timers connect the parts: a closed tunnel tells the page one
second later, the Disconnect button of the control panel closes the tunnel after
its animation and tells the page 100 ms after that.

### What is hard about it

- read-modify-write over Redis from many goroutines: lost updates, a key that
  expires or is deleted between GET and SET;
- TTL's special replies used as an expiration;
- two timers of equal length (reconnect key and watcher);
- background goroutines working from a copy of the map, and cancelled ones that
  run once more;
- a restart, which forgets monitors and watchers but not pods and sessions;
- pod deletions that fail;
- a stream cut anywhere, in the middle of a length, an element or a character, and
  a buffer that shrinks from the front;
- uploads that fail in part, and that take effect after they were given up;
- in the frontend: answers and timers that outlive the page that waits for them,
  three places that hold one session id, effects that run again because a value
  they depend on is a new one in each render, flags shared by several requests.

`PROJECT.json` lists each of these as a hazard at its line.

### What makes each component correct

- *Cleanup service*: the map and the running monitors agree; a registered pod is
  supervised until it is deleted; every registration goes away in the end.
- *Reconnection window*: as long as the window is open somebody is waiting for
  its end; nobody reaps a pod during a window; a pod is preserved only for a
  reconnection. (The last two do not hold, see section 5.)
- *Session store*: as long as a key expires, its time never adds up beyond one
  timeout or one extension, and it stops expiring only when its time was found to be
  over; an update of one field does not undo another. (The last does not hold.)
- *Deployments*: every pod is deleted in the end. (Holds for supervised pods.)
- *HTTP tunnels*: locks exclude each other and know their queue; a closed tunnel
  is not found again; an unused tunnel goes in time. (A used one is not timed out:
  does not hold.)
- *Stream and relay*: instructions come out as they went in, whatever the reads, and
  wait for nothing (for characters beyond ASCII this does not hold, section 5);
  guacd gets each parameter in its place; no goroutine outlives its session.
- *Uploads*: what the answer calls a success has happened, and stays (the second
  does not hold); an answer comes in time and says of every service what it did.
- *Authentication*: a state or a token is good for one use; a session does not
  outlive a password change it should not outlive.
- *Guacamole client*: one websocket per tab, no leaked one; what the page shows
  is the state of the tunnel; a lost connection does not stay on the screen.
- *Session pages*: a reload brings back the session that is shown; a session that
  is left is stopped, and forgotten in all three places.
- *Signing in*: once everything is answered the user shown is the one the browser
  is logged in as; nothing stays loading or disabled; the landing pages take the
  user home. (One of the two does not.)
- *Control panel*, *mouse*: one mark for an upload; nothing held down outside the
  display; no scrolling farther than the wheel.

## 2. Modules

| Module | What it is |
|---|---|
| `SessionRedis` | the session key: document, TTL, SET with its expiration argument, passing of time |
| `SessionState` | constants and their assumptions, the variables, `TypeOK`, `Init`, shared steps |
| `TunnelConnect` | deployment, `DemoDoConnect`, the websocket's end, `OnDisconnect`, the watcher |
| `SessionRequests` | share, extend, stop, join |
| `SessionCleanup` | monitors, sweep, `cleanupPod`, register and unregister |
| `KubeBrowse` | the composition: time, expiry, restarts, `Next`, fairness |
| `SessionProperties` | what is claimed of `KubeBrowse` |
| `PodLifecycle` | abstract specification: the life of a pod and its supervision |
| `MCKubeBrowse` | the instance TLC runs (symmetry) |
| `KubeBrowse_proofs`, `SessionProperties_proofs` | theorems and proofs, those about `PodLifecycle` included |
| `CountedLock`, `CountedLock_proofs` | the mutex with a count of those at it, and its theorem |
| `HttpTunnels`, `MCHttpTunnels`, `HttpTunnels_proofs` | the HTTP transport: server, tunnel map, timeout task; its properties, instance and proofs |
| `Instruction` | the text of instructions: `String`, `Parse`, runes and bytes |
| `GuacStream`, `GuacStream_proofs` | `Stream.ReadSome`, its buffer and its reads of the network (EXTENDS `Instruction`); what is proved of texts and of the buffer |
| `WebsocketRelay`, `MCWebsocketRelay` | the handshake, `guacdToWs`, `wsToGuacd`, with guacd and the client around them; properties and instance |
| `FileUpload` | uploads with their services; its properties |
| `Transports`, `MCTransports`, `Transports_proofs` | the HTTP transport, the relay and the uploads side by side, with the fairness of each; the instance TLC runs; theorems about the relay, uploads and the composition |
| `GuacClient` | the client of a session page with its hook, its dialog and its Disconnect button |
| `SessionPage` | one tab: the three session pages, the URL, localStorage, requests and stops (EXTENDS `GuacClient`) |
| `AuthClient` | the reducer of `AuthContext`, its requests, the sign-in dialog, the landing pages |
| `ControlPanel` | uploads, their log and the share button |
| `PointerInput` | the mouse of a display |
| `Frontend`, `MCFrontend`, `Frontend_proofs`, `Page_proofs` | the composition of these five, its instance and its theorems |

The parts `TunnelConnect`, `SessionRequests` and `SessionCleanup` are not
separate state machines: they act on one state, so they EXTEND the module that
declares it, and `KubeBrowse` joins their actions. The HTTP transport is a system
of its own: its tunnels have a uuid that no session knows, and nothing in the
session code finds them. `HttpTunnels` instantiates `CountedLock` once for each
lock of each tunnel and is shown to implement all of them. Neither it, nor the relay,
nor an upload shares state with another: each is a module with its own specification,
and `Transports` joins the three for TLC. Its `focus` is the one a behaviour follows;
what holds of a module alone holds in every interleaving with modules that
share nothing with it, so that products of their states would show no more.

### State and code

| Variable | In the program |
|---|---|
| `session[s]` | Redis `session:<uuid>`: ticks left and the document (`ExpireAt`, `Share`, `TunnelConnectionID`), or `NoKey` |
| `reconnect[s]` | Redis `reconnect:<uuid>`: ticks left, 0 when absent |
| `pod[s]` | the pod of the session in Kubernetes |
| `deploy[s]` | the request that deploys the session |
| `conn[c]` | the handler of websocket tunnel `c`: the command it is at, its session, its copies of the document and of the TTL |
| `tunnels`, `params` | the keys of `ActiveTunnelStore`'s two maps |
| `registry[s]` | `SessionCleanupService.sessions` |
| `monitor[c]` | the `monitorSession` goroutine that tunnel `c` registered |
| `sweep` | `performCleanup`'s copy of the map and where it is |
| `watcher[c]` | the goroutine started by the disconnection of `c`, with its sleep |
| `req[r]` | a share, extend, stop or join request |
| `crashes` | restarts of the API process so far |

In `HttpTunnels`: `tunnel[t]` is `SimpleTunnel` with its stream, `tunnelMap` the
keys of `TunnelMap`, `idle[t]` the time since `lastAccessedTime`, `core[l]` and
`numLocks[l]` the fields of the `CountedLock` `l` (a tunnel's reader or writer
lock), `http[r]` the handler of request `r` with the lock it uses, `ticker` the
time since the timeout task ran and `removeIDs` its list between its two sections
under the map's lock. `idle[t]` stops at `IdleCap`, past all that is told apart.

In `GuacStream`: `buffer` and `parseStart` are the fields of `Stream`, `offset` is
where the slice `buffer` starts in its array (`Flush` makes it 0), `call`, `got`
and `failed` are a call of `ReadSome` and its results, `wire` is what guacd sent and
nobody has read. A loop round of `ReadSome` is `TakeElement`, `TakeInstruction`,
`Refuse`, or `ReadMore` when what is in the buffer does not suffice. In
`WebsocketRelay`: `phase` is where the serving goroutine is, `told` the
instructions of the handshake written to guacd, `buf` the buffer of `guacdToWs`
as the list of its instructions, `messages` and `heard` what has arrived at either
end, `ws` the websocket, `up` the goroutine of `wsToGuacd`; `names`, `script` and
`asks` are guacd's.

In `FileUpload`: `upload[u]` is the handler of request `u`, `job[u][s]` its upload to
service `s` with the time it has left, `results[u][s]` the element of `results`;
`taken` and `stored` are what the services really did.

In the frontend, `client` is the mounted `GuacClient` with the state its hook
renders, `sockets` counts the open websockets of the tab, `leaving` the 100 ms
timers of `handleDisconnect`; `page` is `sessionState` of the mounted page, `url`
the uuid of the tab, `store` localStorage, `reqs` the fetches whose answers are
awaited (by a page that is still there, or is not: `live`), `stops` the stop
requests on their way, `session` what the servers know. `auth`, `form`, `arrival`
are React state; `calls` the requests to `/auth` with their answers, labelled by
who waits for them; `runs` the runs of the effect of `/auth/success`, cancelled
ones included; `late` and `homing` timers (one that is set again gets another name). `upload`, `history`, `unfolded`, `logs`,
`copied`, `expanded` are state of the panel and `ticks`, `fades` its timers.
`pressed`, `ignoring`, `scrollDelta` are variables of `GuacMouse`; `sent`,
`travelled`, `clicked` say what reached the session and what the user did.

In the backend, every action is one command on Redis or Kubernetes (or one section under a
mutex), with what the code computes from the reply before the next command. The
`pc` of a goroutine names the command it does next. Actions carry the name of
the function and of the command: `DisconnectTTL` is the TTL command of
`OnDisconnect`, `StopPod` the pod deletion of `stopWSSession`.

Wherever the code is wrong, the model is wrong in the same way. The operators
commented "Wrong on purpose" are plausible mistakes that the code does *not*
make; no action uses them, and each shows that some property would notice.

### Abstractions

- **Time** is counted in ticks and is relative. Ticks happen between handlers'
  command sequences, not inside one (`NoHandlerMidway`): such a sequence takes
  milliseconds, a tick stands for the scale of the timeouts. A handshake, an open
  websocket and all background goroutines do see time pass. Inside a sequence the
  key can still expire: a key at 0 ticks is in its last half second, where TTL
  answers 0, and `Expire` may remove it between any two commands.
- **Session document**: reduced to `ExpireAt`, `Share`, `TunnelConnectionID`.
  `CreatedAt`, `TimeoutDuration` and `ExpireAt` are always zero together.
  `DisconnectionCount` and `LastExtendedAt` are written and never read.
- **Redis** answers every command. Its outages are not modelled.
- **Identities**: one pod per session uuid, one tunnel per connection id; each
  tunnel and request slot is used once, so their number bounds what clients do.
- **Lookups that never find anything**: `cleanupPod` and `stopWSSession` look for
  the websocket's tunnel under ids of another kind. They are modelled by what
  they do, nothing.
- **guacd** accepts `select` of a protocol or refuses; it cannot know a
  connection named by a session uuid.
- **HTTP requests**: what is sent is left out. A round of `writeSome` is
  `ReadSome`, which reads from guacd, `Respond`, which is the write of the message
  and its `Flush`, and `GiveWay`. The headers before the first round and the marker
  after the last are writes of their own (`WritingPC`); each ends when the client
  reads or goes, so none is fair. Every error ends in `Deregister` and `Close`; `doRead` repeats what
  `writeSome` did already, which changes nothing. A failing type assertion
  (`server.go:177`) panics past everything but the deferred release, which is
  the step that the end of a marker's write leads to anyway.
- **Characters**: one byte each, but for one, `w`, of two bytes. Opcodes are single
  characters, lengths below 100, `size`, `audio`, `video` and `image` are one
  instruction. For TLC `MaxGuacMessage` is 8 bytes instead of 8192 and the scripts keep
  to what fits the buffer (a text of 17 runes, `2 * MaxGuacMessage + 1`, is the longest
  that always does: `copy` would drop the rest of a longer one). A script has no
  instruction with the empty opcode; guacd sends none. `Plain` and `PlainRelay` say
  this of an instruction and of an instance.
- **The relay's ends**: a failed read is the deadline of 15 seconds or the end of the
  connection. When the client goes, reading the websocket fails, and of the writes
  the second at the latest. `calm` behaviours are those in which nothing breaks and
  nobody is late. A handshake that times out ends the request; its goroutine and its
  connection to guacd, which the code leaves behind, are not followed.
- **Uploads**: requests that are refused (unknown session, no file, a file too large)
  change nothing and are left out. Every failure of a service is one outcome; a scan
  has one more, the request that fails and claims the upload succeeded. What a scan
  finds is data: no code acts on it.
- **The frontend's servers** are its environment: a session starts and ends, a
  request is answered or fails, a stop arrives or is lost. They are not the
  backend's modules: a page sees no more of them than that.
- **React**: an action is an event or a timer with everything it does up to the
  last render and effect it causes. States that a batch overwrites are left out.
- **The hook without a session**: `GuacClient.jsx:48-53` passes four arguments, so
  `sessionUUID` is null, and the hook's own reconnection (`111-168`), storage,
  sharing and duplicator never run. Its websocket class is declared inside the hook,
  so the `instanceof` of line 532 fails after a render, and lines 532-619 are dead too.
  What is left, and modelled, is the effect of lines 351-518: no automatic
  reconnection exists.
- **Users**: `patient` lets a page settle (no request, no timer, no stop under way)
  before the next click, `calm` waits for the answer to what was asked last. Both
  are chosen at the start, so behaviours with and without are explored; a property
  names the one it needs. `reliable` loses no message.
- **focus**: the parts of the frontend share no state, so that a property of one
  holds in all interleavings if it holds of the part alone. A behaviour of
  `Frontend` follows one part and leaves the others at rest; without that the
  instance would be the product of four.
- **Pod readiness**: the wait succeeds, or fails with or without having deleted
  the pod, as `WaitForPodReadyAndRDP` does.

## 3. Runs

All runs have the deadlock check off: a client may do nothing, and once the bounded
tunnels and requests are used up and everything is cleaned up, nothing is left
to do. The liveness runs take the place of the deadlock check.

| Run | Instance | Shows |
|---|---|---|
| `TwoSessions` | 2 sessions, 2 tunnels, timeouts of 2 ticks | `TypeOK`, `MonitorRegistry`, `Supervised`, `WindowIsWatched`, and `PodsSafe`: refinement of `PodLifecycle` |
| `Requests` | 1 session, 1 tunnel, 2 requests, deletions may fail, 1 restart | `TimeLeftBounded` of keys that expire (`MonitorRegistry`, which also concerns the restart, is a theorem) |
| `Liveness` | 1 session, either 2 tunnels or 1 tunnel and 2 requests, timeouts of 1 tick, fairness | `PodsReaped`, `RegistryDrains`, also with late writes; `UnlimitedOnlyAtTheEnd` |
| `Transports` | 1 HTTP tunnel, 3 requests on either lock, timeout of 2 ticks, fairness | `HttpTypeOK`, `QueuesSeen`, `ClosedNotRegistered`, `UnusedRemoved`, `LocksImplemented`, `ReadersTakeOver`, `TunnelsDrain` |
| | or a relay: 2 scripts of guacd, reads of up to 8 bytes, a parameter without a value, 1 message of the client, fairness | `StreamsAndFilesTypeOK`, `RelayedInOrder`, `Configured`, `NothingHeldBack`, `AllDelivered`, `RelayEnds` |
| | or an upload: timeouts of 3, 2 and 6 ticks (of 5 seconds), with and without MinIO, fairness | `StreamsAndFilesTypeOK`, `AnswersComplete`, `SuccessIsTrue`, `AnsweredInTime`, `UploadsAnswered` |
| `Frontend` | 2 sessions, one request and one timer of a page under way, 2 requests to `/auth`, 2 uploads, 2 shares, 300 pixels of the wheel, fairness | the 14 properties of the frontend in section 4 |
| 7 more | one per statement in section 5 | a counterexample |

Why the bounds suffice to be of interest: two tunnels give a reconnection, a
registration that replaces a monitor, two watchers at once, and a sweep whose
copy is out of date. Two requests give two extensions, an extension with a stop,
and a share with a stop. A timeout of 2 ticks has a state in which an extension
is allowed and one in which it is not (`SessionTTL` is 1). Two sessions make a
sweep go on after its first cleanup. Symmetry is used for safety only. Tunnels of the
HTTP transport share nothing but the map and the task, so one suffices; three
requests give a reader with a queue of two, a writer next to a reader, and a
request under way while two others close the tunnel.

The liveness run keeps to behaviours of two tunnels and behaviours of a tunnel with
two requests (`TunnelsOrRequests` in `MCKubeBrowse`): the first have the watchers and
monitors of two connections, the second the late writes; both at once are past what
TLC can do with fairness. Only steps that nobody owes are kept from happening:
connecting, and making a request.

The scripts of `WebsocketRelay` have instructions of several elements, digits and
terminators as content, an empty element, several instructions in one read and one
that takes three reads, and together exceed the array of 24 runes, so that the
buffer is moved back in every way it can be. Reads of every length from 1 to 8 cut
them at every place. Some reach the buffer in one read with `ready`.

Uploads share nothing but the names of the bucket's objects (section 5), so that one
suffices. The
clock runs two ticks longer than a request may.

In the frontend two sessions give a page that shows one while the other is asked
for, stored or stopped. `MaxRequests`, `MaxLeaving` bound what a page has under
way at once: one request of a page that is gone with a new page, one timer of a page
left for another. An impatient user meets one session (`MaxHasty`). `MaxCalls` of
2 gives a form's request next to a reload's or a profile's, and `MaxAttempts` is
the code's own 3. The thresholds of the mouse are the code's own, and 300 pixels
are a page of the wheel (288) and what tips it over, with turns of 30, 54 and 288
pixels both ways.

### Fairness

`Fairness` is weak, per goroutine: a handler, monitor, watcher, sweep or request
that can do its next command does it; Redis expires keys; time passes. Go's
scheduler and the tickers justify it: a monitor looks every 15 seconds and the
sweep every 30, forever. A handshake ends because its context does (45 seconds).
Nothing is assumed of clients: deploying, connecting, disconnecting and
requesting are not fair, so a liveness property holds for every client behaviour.

`HttpFairness` is fairness of each request's own steps and of the task. It is strong
for the sake of taking a mutex, which Go hands to a goroutine that has waited for it;
no other step of a request is disabled by somebody else. Reading from guacd ends
within the socket timeout, and that is the only deadline there is: a request body may
take forever, and so may a client that does not read its response, as the server sets
no write deadline (`cmd/guac/main.go:589`, `595`). So nothing is assumed of `Copy` and
`Respond`, nor of new requests.

`RelayFairness` is weak, per goroutine: `ReadSome` goes on while there is something to
read and returns at its deadline, the serving goroutine and that of `wsToGuacd` take
their next step. guacd's answers are assumed in calm behaviours only, the client's
messages and his going never. `UploadFairness` is weak for the steps of each upload,
since its clients have timeouts; the services owe nothing.

`FrontFairness` is weak: requests are answered, if only by an error, timers fire,
the end of the animation comes. A timer that is set again before it fires is another
timer (`SetAgain`), of which its predecessor's fairness says nothing. Users owe
nothing: no click, link or reload is fair.

## 4. Properties that hold

- `MonitorRegistry`: a map entry is an active monitor of that session, and every
  active monitor is a map entry. No order of registrations, monitor cleanups and
  sweeps from an old copy leaves two active monitors or a forgotten one.
- `Supervised`: while a pod with a registered tunnel runs it has a monitor, even
  though `cleanupPod` unregisters whatever entry it finds: by then it has deleted
  the pod. (If Kubernetes refuses no deletion, and without a restart since the
  tunnel registered.)
- `WindowIsWatched`: a reconnect key never outlives all the watchers of its
  session. Hence a watcher that finds the key at its end finds another
  disconnection's key (`ReapsAreEarly`), which is how the defects below come about.
- `TimeLeftBounded`: extensions, reconnections and concurrent updates never give a
  key that expires more than one timeout or one extension beyond `SessionTTL`.
- `UnlimitedOnlyAtTheEnd`: a key stops expiring only by the `SET` of a tunnel that
  stores its id or disconnects, or of a share request, that holds 0 or (the share
  request) the reply of a key that was gone. Connecting and extending never do it, nor
  does a reply of -1 that somebody read before the session got its times. An
  unlimited key counts as run out for monitors and sweep (`TimeIsUp`), so `PodsReaped`
  and `RegistryDrains` hold in spite of it: the session is cleaned up at
  their next look, and has unlimited time only if nobody supervises it.
- `PodsSafe`, `PodsReaped`: the backend implements `PodLifecycle`.
- `RegistryDrains`: no registration stays for ever.
- `LocksImplemented`, `QueuesSeen`: on every path, also the failing ones, a request
  uses the locks as `CountedLock` says, so the reader that asks whether others wait
  gets the exact answer, though the count is not under the mutex.
- `ClosedNotRegistered`: errors of several requests and the timeout task close a
  tunnel in any order, and none leaves a closed one in the map.
- `UnusedRemoved`: no tunnel stays for more than twice the timeout after its last
  access, as `tunnel_map.go:44-49` says.
- `ReadersTakeOver`, `TunnelsDrain`: a reader that waits gets its turn even if
  guacd never stops sending, since its predecessor gives way or fails and releases
  on every path. Only a client can keep it waiting: then, from some time on, its
  predecessor is in one write of its response that does not end (`HeldUp`). A tunnel
  nobody asks for is removed, busy or not, also in that case.

- `RelayedInOrder`, `AllDelivered`: however the network cuts what guacd sends, also
  what comes together with the handshake's last answer, the client gets it
  instruction by instruction, without a gap, and in the end all of it.
- `NothingHeldBack`: the relay waits for the network with instructions in hand only
  while the rest of another one is on its way. (The comment at `ws_server.go:177`
  says the buffer is sent when there *is* more; the code sends it when there is not,
  and that is why this holds.)
- `Configured`: a session starts only with a guacd that was given a value for each
  parameter it named, in its order, empty for those the session lacks.
- `RelayEnds`: once the client has gone, or `ReadSome` has failed because guacd ended
  or fell silent, both goroutines end. A write that is blocked by a client who stays
  and does not read is outside the claim: neither has happened.
- `AnswersComplete`, `SuccessIsTrue`: an answered upload has the final result of every
  service, and a success is in the container and, with MinIO, was stored.
- `AnsweredInTime`, `UploadsAnswered`: every upload is answered, within the 30 seconds
  of its context, also where one service is asked after another.

Of the frontend:

- `OneSocket`, `IndicatorsAgree`: renders, restarts after a resize, reconnections,
  losses and the Disconnect button each open or close the tunnel on their own, and
  never leak a websocket or leave the timer that ends a session running.
- `LossEnds`: a closed connection is reconnected or the page leaves the session.
- `ReloadShowsSame`: whatever was created, joined, restored or left before, the URL
  and the stored copy of a patient user never name a session other than his page's.
- `StoppedIsForgotten`, `ForgottenIsStopped`: a session that is being stopped is on
  no screen and comes back by no reload, and the stored session of an office or
  browser page goes only with a stop request for that session.
- `SettledAgrees`: for a calm user without lost messages, once all is answered the
  user shown agrees with the cookie, by whatever sequence of forms, landing pages,
  reloads and answers.
- `LoadingEnds`, `FormsFinish`: the shared loading flag and the flags of the forms
  are cleared on every outcome, also when the dialog is gone or the answer lost.
- `VerifiedGoesHome`: the timer of the verification page is cleared and set again with
  each render, and one fires in the end because only finitely many answers render the
  page. (A page that asks again in each render, as `/auth/success` does, never leaves.)
- `OneMark`: an upload shows its progress, a tick or an error, one of them,
  although the timer of an earlier upload may take a later tick away.
- `OutsideNothingHeld`, `ScrollBounded`: a release that is ignored after a touch is
  made up for when the pointer leaves; turns that change direction, add up or
  overshoot never give a click more than the wheel was turned.

## 5. Statements of the repository that do not hold

Each is checked in a run of its own, expected to be violated; `PROJECT.json`
("findings") quotes the line and describes the counterexample.

| Property | The repository says | What happens |
|---|---|---|
| `PreservedMeansReconnected` | "reconnected within grace period" | the key expired by itself; the pod is kept |
| `WindowHonoured` | "120 seconds reconnection window" | the first watcher ends the second window |
| `ExtensionKept` | "Session extended" | the next tunnel goes by the old `ExpireAt` |
| `OnlyUnusedTimedOut` | an unused tunnel is removed after "between TUNNEL_TIMEOUT and TUNNEL_TIMEOUT*2" | a tunnel accessed after it was marked is closed at once |
| `StoppedStaysStopped` | "stopped and pod deleted" | a write under way brings the session back |
| `ReturnsNextMessage` | "ReadSome returns the next complete guacd message" | a character cut by two reads becomes several others, and its element does not end where it should |
| `SignInCompletes` | "Showing success notification and redirecting to home page..." | each answer renders the page, whose effect depends on a function that is new in each render: it cancels its run and asks again, for ever |

The model shows more of this kind, which no run of its own checks:

- `cleanupPod` and `stopWSSession` never close the websocket, though a comment
  says so first thing (`session_cleanup.go:164`).
- `HandlerShareSession` compares TTL's codes with seconds (`api/main.go:325`,
  `330`), so its default timeout is never set.
- A share request answered during the tunnel's handshake is undone by the Share
  flag `DemoDoConnect` read before it (`api/tunnel.go:262`).
- A disconnection in the session's last half second makes it persistent
  (`cmd/guac/main.go:365`).
- A failed or late handshake never closes its connection to guacd
  (`api/tunnel.go:229-242`).
- `String` writes the length of an element in bytes (`instruction.go:30`), while
  `Parse`, `ReadSome` and guacd count characters: a parameter with a character beyond
  ASCII, such as a username in the query of a connection, arrives as other elements
  or as an error.
- Two uploads of one second and one file name, of one user or of two, write the same
  object, though its name has a "timestamp to avoid conflicts" (`uploads.go:484`).
- A scan that fails says "File upload succeeded but virus scan was skipped"
  (`uploads.go:401`) without knowing: the container's upload is another goroutine's.
- With MinIO a failed scan makes the whole upload a failure (`uploads.go:112-118`),
  though "ClamAV failure" is not to be "critical" (line 393); without MinIO it does not.
- An upload reported as failed may be in the container all the same.
- `CleanupOrphanedPods`, if anything called it, would read sessions as hashes
  (`cleanup/service.go:71`), which they are not, and find no pod in use.
- A client that reconnects between the watcher's `EXISTS` and its deletions
  (`cmd/guac/main.go:401-415`) loses its pod and its session.
- An HTTP client that does not read its response keeps the reader lock of its tunnel
  for ever: there is no write deadline, and closing the tunnel ends the connection to
  guacd and not that write.
- A closed tunnel stays in the store of active ones unless a watcher reaps it.
- The owner of a shared session selects the session's uuid, which guacd cannot
  know, so no tunnel comes about (`api/tunnel.go:194-207`).
- A deployed pod to which nobody connects is never deleted.
- A connection that is lost for more than a second ends the session with a stop
  request (`GuacClient.jsx:95-105`), before the backend's two-minute window matters.
- The error of an office or browser page offers no way out
  (only the share page has "Try again"), and a stored id that is dead leads there
  again on the browser page.
- A late answer to a deployment writes its session into the URL of another page.
- Joining another session overwrites the stored one, which is then never stopped.
- After a reconnection the mouse and keyboard handlers of the old display remain.
- A restart while the tunnel opens leaves `clientRef` at the old client, so that the
  Disconnect button closes nothing until the next render (`held`).
- "Back to Login" does nothing: no action resets `emailVerificationNeeded`.
- Signing out while a saved profile is read again can leave the user on the screen.
- A button pressed before a touch stays down until the pointer leaves.
- An upload's timer takes away the tick of a later one; `expandedLogs` is keyed by
  position, so an unfolded entry slides to another one; a body that is no JSON is
  ticked and not in the log.
- The status card is never told the connection state.
- The "failed" status and the Retry button of `/auth/success` are unreachable as long
  as answers come, for the same reason as `SignInCompletes`.

## 6. Proofs

TLAPS proves these for all finite or infinite sets of sessions, tunnels and
requests and all values of the timeouts that satisfy `ConstantsAssumption`
(sorts of the constants) and, for `WindowsWatched` and
`ReapsAreEarly`, `WindowAssumption` (the
watcher sleeps at least as long as the key lives: both are two minutes). Those of
the HTTP transport use `HttpAssumption` (requests are finite in number, the two null
values are no values, the timeout is positive), those of uploads
`UploadAssumption` (the timeouts and the clock's bound are positive; no order between
them), those of the frontend `PointerAssumption` (thresholds positive) and
`IdsAssumption` (no session is the null id) at most. Those of the stream and the relay
use `LettersAssumption` and `RelayAssumption` (letters are no digits or
separators, names and scripts are made of characters) and `MessageAssumption` (a
read has room for something). Where the table says `PlainRelay`, that is a
hypothesis of the theorem and not an assumption: what guacd sends and is told has one
byte per character, and no text is longer than `2 * MaxGuacMessage + 1`. The
comments in the code do not ask for this, so `WholeMessages` counts as a
disagreement; `MCTransports` assumes it, so that TLC finds it true of the instance it
runs, and the instance's longest text has exactly that length.

The proofs about texts need what `Parse`, `FlattenSeq`, `Number` and `Decimal`
compute for every input, by induction. The library's induction theorems cannot be
instantiated, but one of its consequences can: `NatSetInduction` speaks of a set of
numbers instead of a predicate, and follows from `WFMin`. What a recursive function
computes is then stated by the list of its intermediate results (`Accumulates`,
`Counts`), which exists by that induction and has to agree with the function. For
`Parse` not even this is needed: it is unfolded element by element (`ParseUnfolds`).

| Theorem | Statement | Argument |
|---|---|---|
| `TypeCorrect` | `Spec => []TypeOK` | `TypeInv` adds `SlotsUsed`: a tunnel or request past `idle` names a session. Without it a step of a slot would have no session to act on. |
| `MonitorsRegistered` | `Spec => []MonitorRegistry` | `MonitorInv` adds that a tunnel before `register` has no monitor (`CleanupSlots`), that monitors and sweep refer to tunnels that have a session, and that a tunnel appears in the map only under its own session, so that cancelling the entry cancels exactly the one active monitor. |
| `WindowsWatched` | `Spec => []WindowIsWatched` | `WindowInv` adds that a tunnel that has not opened its window has no watcher (`IdleUnwatched`); a tick then ages key and watcher alike. |
| `ReapsAreEarly` | `Spec => [][... WatcherReap(c) => AnotherWindow(c)]_vars` | from `WindowInv`: as long as the process lives, a watcher that finds the key and reaps the pod ends the window of a later disconnection. So `WindowHonoured` fails whenever a watcher gets to reap, and with a single tunnel none does. |
| `TimeBounded` | `Spec => []TimeLeftBounded` | `TimeInv` adds that the expirations the handlers carry from TTL to SET are granted ones too (`ConnsGranted`, `ReqsGranted`), and that no copy of a document has an `ExpireAt` more than one timeout ahead, on which `CanExtendSession` and the deferred write rely: a TTL never grows on its way through a handler. Of keys without expiration it says nothing; the next theorem does. |
| `ExpirationsKept` | `Spec => UnlimitedOnlyAtTheEnd` | `WriteInv` says of each handler before its `SET` what it may hold (`ConnsHold`, `ReqsHold`): more than 0 when connecting or extending, 0 or more when updating or disconnecting, a reply of -2 besides only in a share request. The reply -1, which a share request passes on, is go-redis' `KEEPTTL` and keeps what it meets. A deployment writes without expiration, but only where nothing is stored (`NothingStored`). |
| `PodsSupervised` | `Spec => []Supervised` | `PodInv` adds `Deployed` (a session with tunnels has a pod that was started) and `CleanedUp` (a cleanup past its pod deletion, whoever runs it, has the pod deleted), so that unregistering is harmless. |
| `PodsImplementLifecycle` | `Spec => PodsSafe` | step simulation under `PodInv`: every action is a step of `PodLifecycle` or leaves `Phase` as it is; a restart is an `Abandon`. |
| `QueueIsSeen` | `LockSpec => []QueueSeen` | the count is the number of threads that wait or hold (`LockInv`), for any finite set of threads. |
| `HttpTypeCorrect` | `HttpSpec => []HttpTypeOK` | a request past its lookup has a lock (`RequestsPlaced`). |
| `UnusedAreRemoved` | `HttpSpec => []UnusedRemoved` | `AgeBounded`: an unmarked tunnel's clock is ahead of the ticker by at most the timeout, else the last scan had marked it. |
| `ClosedAreNotRegistered` | `HttpSpec => []ClosedNotRegistered` | `ClosersDeregistered`: who is about to close a tunnel has removed it, and only an unconnected one is put into the map. |
| `LocksAreImplemented` | `HttpSpec => LocksImplemented` | step simulation for each lock: four actions are steps of it, all others leave it alone. |
| `QueuesAreSeen` | `HttpSpec => []QueuesSeen` | `QueueInv`: the count of a lock is the cardinality of the requests at it (`CountedAt`). By the simulation a step of the transport is a step of `CountedLock` at one lock (`LockStep`) and none at the others. |
| `AnswersAreComplete` | `UploadSpec => []AnswersComplete` | `UploadInv`: the uploads of a request keep the order of its handler (`InOrder`), what has ended is reported and what is reported has happened (`Reported`). |
| `SuccessesAreTrue` | `UploadSpec => []SuccessIsTrue` | from the same `Reported`: the answer is computed from results, and results from what the services took. |
| `AnswersAreInTime` | `UploadSpec => []AnsweredInTime` | `InContext`, in the same invariant: a service that is started late is given no more than what its request's context has left, so time cannot pass that end. Holds for any timeouts, also when a service's own is the longer one. |
| `ParseText` | `Parse(ProtocolText(ins)) = ins` | for every nonempty instruction of one-byte characters. The text consists of its elements, each between two cuts (`TextCuts`); at a cut `Parse` finds the element between it and the next (`FoundAtCut`), whatever its characters: it has counted them. |
| `MessagesAreInOrder` | `PlainRelay` gives `RelaySpec => []RelayedInOrder` | `RelayInv`: `buffer` and `wire` together are the texts of what was sent and not returned (`Holds`), parsing stands at the beginning of an element of the first of them, and these, what is in hand and what the client has are the script (`Relays`). A read keeps this whatever it cuts (`ReadsMore`: it is made only while the first text is not there in full, so there is room), an element that is found is one of that text (`Sees`), and none is refused (`NothingRefused`). In the handshake `Expects` says the same of guacd's answers, and what comes with the last one is the script. |
| `RelaysAreConfigured` | `PlainRelay` gives `RelaySpec => []Configured` | by `RelayInv` the names `ReadSome` returned are those asked for; then by `ParseText`, since bytes and characters of plain values are as many. |
| `NothingIsHeldBack` | `PlainRelay` gives `RelaySpec => []NothingHeldBack` | part of `Relays`: an instruction is kept only with more in the buffer, and a read adds to it. |
| `NextMessageIsReturned` | `PlainRelay` gives `RelaySpec => []ReturnsNextMessage` | `CalmInv`: in calm behaviours the client is there and the stream has not failed, as nothing plain is refused. So wide characters, and texts that are too long, are the only reason for the finding `WholeMessages`. |
| `RelayTypes` | `RelaySpec => []RelayTypeOK` | for every script, plain or not: an element that has arrived ends in the buffer, and a read keeps within the array whether the buffer is moved back or not (`ReadMoreType`). |
| `TransportsImplemented` | `TransportSpec => HttpSpec /\ RelaySpec /\ UploadSpec` | a step of the composition is a step of one part and leaves the others alone, and its fairness is theirs. |
| `TransportsCorrect` | `TransportSpec => LocksImplemented /\ [](...)` | from this and the theorems above: what is proved of the parts holds of what TLC runs. |
| `StreamsAndFilesTypes`, `RelaysCorrect` | `TransportSpec => []StreamsAndFilesTypeOK`, and with `PlainRelay` the three properties of the relay | in the same way. |
| `SocketsAreCounted` | `FrontSpec => []OneSocket` | `ClientInv` ties sockets, tunnel and indicators of the client; every step of a page renders it, replaces it or leaves the client alone (`PageDoes`), so each is one of four cases. |
| `IndicatorsAreRight` | `FrontSpec => []IndicatorsAgree` | from `ClientInv`, which must say that a live tunnel is a mounted one: else a mount could open a second. |
| `MouseLetsGo` | `FrontSpec => []OutsideNothingHeld` | `ButtonInv` adds that the session holds what the element believes to be down. |
| `ScrollIsBounded` | `FrontSpec => []ScrollBounded` | `WheelInv`: what was turned one way and not clicked covers what has accumulated that way, so what is dropped or turned back is never clicked. |
| `OneMarkShown` | `FrontSpec => []OneMark` | `PanelInv` adds the types of the upload and its timers. |
| `SettledAgreement` | `FrontSpec => []SettledAgrees` | `AuthInv` says of each request under way what its answer will mean for the cookie (`Due`), that a calm user has one at most, and where the browser may be with what under way (`AuthPlaces`): nobody on `/auth/success` gets beyond asking who he is. |
| `ReloadsShowSame` | `FrontSpec => []ReloadShowsSame` | `ShapeInv` (any user: a ready page has a session, one that is not ready has no client) and `PatientInv`: a page that asks has one request and nothing else under way, a ready page and its stored copy agree, an idle one has forgotten its session in all places. |
| `StoppedAreForgotten` | `FrontSpec => []StoppedIsForgotten` | by `PatientInv` a stop request is on its way only while an idle page is shown. |
| `ForgottenAreStopped` | `FrontSpec => ForgottenIsStopped` | what is saved names a session (`ShapeInv`), so only the button and the two timers forget one (`ForgettingLeaves`); by `PatientInv` they leave the session that is stored (`LeavesOwn`). |
| `FrontTypes` | `FrontSpec => []FrontTypeOK` | the types in `ShapeInv`, `AuthInv` and `WheelInv`, with those of the control panel and the mouse (`PanelTyped`, `MouseTyped`). |

Only model-checked: the liveness properties (fairness and ENABLED are out of the
prover's reach), and the findings.

## 7. Not modelled, and the plan

Not modelled, though the code has state there:

1. The backend's accounts: login sessions, verification tokens, OAuth state.
   (`AuthClient` has them as its environment.)
2. The orphaned pod cleanup, which nothing starts.
3. In the frontend: the password form, settings and theme, the clipboard and the
   keyboard, each one request or one effect; the 24 hours after which a stored
   session is dropped; the browser's Back button; the double mount of React's
   StrictMode in development; a display element removed under the pointer; several
   connections of one display's mouse. `SessionDuplicator` is called by nobody who
   has a session UUID, `ConnectionRoute` is not routed and
   `SessionCollaborationInfo` not used.

To be proved next: under which hypotheses more of the statements of section 5 hold, as
`NextMessageIsReturned` says for one of them, and the safety half of the liveness
properties: what no step may undo on the way.

Not to be modelled: `TunnelMap.Shutdown` and `Server.StopTunnel` (called by
nothing), Kubernetes manifests and pod templates (data), the unused
`KubeBrowseManager`, MinIO, tracing, logging, e-mail, generated API docs, and the
rendering part of the frontend (pure I/O). `HandlerBrowserPod` and
`HandlerOfficePod` create pods without a session; nothing in the program ever
acts on those again.
