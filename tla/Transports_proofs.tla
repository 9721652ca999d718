--------------------------- MODULE Transports_proofs ---------------------------
(***************************************************************************)
(* What carries a session and its files: uploads, for any requests and     *)
(* timeouts; the relay, for any script, parameters and size of the buffer; *)
(* and the composition of uploads, HTTP tunnels and a relay, which is      *)
(* shown to behave as each of its parts.                                   *)
(***************************************************************************)
EXTENDS Transports, HttpTunnels_proofs, GuacStream_proofs

-----------------------------------------------------------------------------
(***************************************************************************)
(* Uploads.                                                                *)
(***************************************************************************)

JobStates == {Waits, Ended} \cup {Running(t) : t \in 0..RequestTimeout}
Results == {"none", "ok", "failed", "skipped"}

(* UploadTypeOK, with the domains, and with since in the past. *)
UploadTyped ==
    /\ minioClient \in BOOLEAN /\ time \in 0..MaxTime
    /\ upload \in [Requests -> [pc : {"idle", "works", "answered"},
                                since : 0..MaxTime, success : BOOLEAN]]
    /\ job \in [Requests -> [Services -> JobStates]]
    /\ results \in [Requests -> [Services -> Results]]
    /\ taken \subseteq Requests /\ stored \subseteq Requests
    /\ \A u \in Requests : upload[u].since <= time

(***************************************************************************)
(* The uploads of a request keep the order of its handler: all of them at  *)
(* once with MinIO, the scan after the container without.                  *)
(***************************************************************************)
InOrder(u) ==
    /\ upload[u].pc = "idle" =>
         \A s \in Services : ~Runs(u, s) /\ ~HasEnded(u, s)
    /\ upload[u].pc # "idle" =>
         IF minioClient
         THEN \A s \in Services : Runs(u, s) \/ HasEnded(u, s)
         ELSE /\ ~Runs(u, "minio") /\ ~HasEnded(u, "minio")
              /\ \/ /\ Runs(u, "file_upload")
                    /\ ~Runs(u, "clamav") /\ ~HasEnded(u, "clamav")
                 \/ /\ HasEnded(u, "file_upload")
                    /\ Runs(u, "clamav") \/ HasEnded(u, "clamav")
    /\ upload[u].pc = "answered" => \A s \in Used : HasEnded(u, s)

(* What is reported has ended, and has happened if it is reported ok. *)
Reported(u) ==
    /\ \A s \in Services : HasEnded(u, s) => results[u][s] # "none"
    /\ results[u]["file_upload"] = "ok" => u \in taken
    /\ results[u]["minio"] = "ok" => u \in stored
    /\ upload[u].success => u \in taken /\ (minioClient => u \in stored)

(* No service is given longer than the request's context has left. *)
InContext(u) ==
    Works(u) =>
        /\ Age(u) <= RequestTimeout
        /\ \A s \in Services : Runs(u, s) => job[u][s].left <= RequestTimeout - Age(u)

UploadInv ==
    UploadTyped /\ \A u \in Requests : InOrder(u) /\ Reported(u) /\ InContext(u)

(* What a service is given fits into what its request's context has left. *)
LEMMA TimeLeftType ==
    ASSUME NEW s \in Services, NEW age \in 0..RequestTimeout
    PROVE  /\ TimeLeft(s, age) \in 0..RequestTimeout
           /\ TimeLeft(s, age) <= RequestTimeout - age
  BY UploadAssumption DEF TimeLeft, Timeout, Services

(* The three states of an upload exclude each other. *)
LEMMA JobStateCases ==
    ASSUME NEW j \in JobStates
    PROVE  /\ j.state \in {"waits", "running", "ended"}
           /\ j.left \in 0..RequestTimeout
           /\ j.state = "running" => j = Running(j.left)
           /\ j.state = "ended" => j = Ended
           /\ j.state = "waits" => j = Waits
  BY UploadAssumption DEF JobStates, Waits, Ended, Running

(* The states Finish and Start write. *)
LEMMA StateFields ==
    /\ Ended \in JobStates /\ Ended.state = "ended"
    /\ \A t \in 0..RequestTimeout :
         /\ Running(t) \in JobStates
         /\ Running(t).state = "running" /\ Running(t).left = t
  BY DEF JobStates, Ended, Running

(* Nothing has begun. *)
LEMMA UploadInvInit == UploadInit => UploadInv
  <1> SUFFICES ASSUME UploadInit PROVE UploadInv
    OBVIOUS
  <1>1. UploadTyped
    BY UploadAssumption DEF UploadInit, UploadTyped, JobStates, Results
  <1>2. ASSUME NEW u \in Requests
        PROVE  InOrder(u) /\ Reported(u) /\ InContext(u)
    BY DEF UploadInit, InOrder, Reported, InContext, Works, Runs, HasEnded,
           Waits, Services
  <1> QED
    BY <1>1, <1>2 DEF UploadInv

(* Starting services touches these services of this request alone. *)
LEMMA StartDoes ==
    ASSUME UploadTyped, NEW u \in Requests, NEW services \in SUBSET Services,
           NEW age \in 0..RequestTimeout
    PROVE  /\ Start(u, services, age) \in [Requests -> [Services -> JobStates]]
           /\ \A v \in Requests \ {u} : Start(u, services, age)[v] = job[v]
           /\ \A s \in services :
                /\ Start(u, services, age)[u][s].state = "running"
                /\ Start(u, services, age)[u][s].left <= RequestTimeout - age
           /\ \A s \in Services \ services :
                Start(u, services, age)[u][s] = job[u][s]
  <1> DEFINE of == [s \in Services |-> IF s \in services
                                       THEN Running(TimeLeft(s, age))
                                       ELSE job[u][s]]
  <1>1. Start(u, services, age) = [job EXCEPT ![u] = of]
    BY DEF Start
  <1>2. /\ of \in [Services -> JobStates]
        /\ \A s \in services : /\ of[s].state = "running"
                               /\ of[s].left <= RequestTimeout - age
        /\ \A s \in Services \ services : of[s] = job[u][s]
    BY TimeLeftType, StateFields DEF UploadTyped
  <1> HIDE DEF of
  <1> QED
    BY <1>1, <1>2 DEF UploadTyped

(* A request that is accepted has its first services at work. *)
LEMMA UploadBegin ==
    ASSUME UploadInv, NEW u \in Requests, Begin(u)
    PROVE  UploadInv'
  <1> DEFINE services == IF minioClient THEN Services ELSE {"file_upload"}
  <1> USE DEF UploadInv
  <1>1. /\ services \in SUBSET Services /\ 0 \in 0..RequestTimeout
        /\ job' = Start(u, services, 0)
        /\ upload[u].pc = "idle"
        /\ UNCHANGED <<minioClient, time, results, taken, stored>>
    BY UploadAssumption DEF Begin, Services
  <1>2. /\ job' \in [Requests -> [Services -> JobStates]]
        /\ \A v \in Requests \ {u} : job'[v] = job[v]
        /\ \A s \in services : /\ job'[u][s].state = "running"
                               /\ job'[u][s].left <= RequestTimeout - 0
        /\ \A s \in Services \ services : job'[u][s] = job[u][s]
    <2> HIDE DEF services
    <2> QED
      BY <1>1, StartDoes
  <1>3. /\ upload' \in [Requests -> [pc : {"idle", "works", "answered"},
                                     since : 0..MaxTime, success : BOOLEAN]]
        /\ upload'[u].pc = "works" /\ upload'[u].since = time
        /\ upload'[u].success = upload[u].success
        /\ \A v \in Requests \ {u} : upload'[v] = upload[v]
    BY DEF Begin, UploadTyped
  <1>4. UploadTyped'
    <2>1. time \in Int /\ time <= time
      BY DEF UploadTyped
    <2> QED
      BY <1>1, <1>2, <1>3, <2>1 DEF UploadTyped
  <1>5. ASSUME NEW v \in Requests, v # u
        PROVE  (InOrder(v) /\ Reported(v) /\ InContext(v))'
    BY <1>1, <1>2, <1>3, <1>5
    DEF InOrder, Reported, InContext, Works, Runs, HasEnded, Age, Used
  <1>6. InOrder(u)' /\ Reported(u)'
    BY <1>1, <1>2, <1>3
    DEF InOrder, Reported, Runs, HasEnded, Used, Services
  <1>7. InContext(u)'
    <2>1. Age(u)' = 0
      BY <1>1, <1>3 DEF Age, UploadTyped
    <2>2. \A s \in Services : Runs(u, s)' => s \in services
      BY <1>1, <1>2 DEF InOrder, Runs
    <2> QED
      BY <1>2, <2>1, <2>2, UploadAssumption DEF InContext
  <1> QED
    BY <1>4, <1>5, <1>6, <1>7

(* The services only add to what has happened. *)
LEMMA UploadTaken ==
    ASSUME UploadInv, NEW u \in Requests, ContainerTakes(u) \/ MinioStores(u)
    PROVE  UploadInv'
  BY DEF UploadInv, UploadTyped, InOrder, Reported, InContext, Works, Runs,
         HasEnded, Age, Used, ContainerTakes, MinioStores

(* A service that has ended is reported; without MinIO the scan is next. *)
LEMMA UploadFinish ==
    ASSUME UploadInv, NEW u \in Requests, NEW s \in Services, Finish(u, s)
    PROVE  UploadInv'
  <1> USE DEF UploadInv
  <1>1. /\ Runs(u, s) /\ Works(u)
        /\ UNCHANGED <<minioClient, time, upload, taken, stored>>
        /\ ~minioClient => s # "minio"
    BY DEF Finish, InOrder, Works, Used, Services, UploadTyped, Runs, HasEnded
  <1>2. PICK r \in Outcomes(u, s) : results' = [results EXCEPT ![u][s] = r]
    BY DEF Finish
  <1>3. /\ r \in Results /\ r # "none"
        /\ r = "ok" /\ s = "file_upload" => u \in taken
        /\ r = "ok" /\ s = "minio" => u \in stored
    BY <1>2 DEF Outcomes, Results
  <1>4. /\ results' \in [Requests -> [Services -> Results]]
        /\ results'[u][s] = r
        /\ \A v \in Requests, t \in Services :
             v # u \/ t # s => results'[v][t] = results[v][t]
    BY <1>2, <1>3 DEF UploadTyped
  <1>5. Age(u) \in 0..RequestTimeout
    BY <1>1 DEF InContext, UploadTyped, Age
  <1> DEFINE next == IF s = "file_upload" /\ ~minioClient
                     THEN {"clamav"} ELSE {}
             begun == IF s = "file_upload" /\ ~minioClient
                      THEN Start(u, {"clamav"}, Age(u)) ELSE job
  <1>6. /\ begun \in [Requests -> [Services -> JobStates]]
        /\ \A v \in Requests \ {u} : begun[v] = job[v]
        /\ \A t \in next : /\ begun[u][t].state = "running"
                           /\ begun[u][t].left <= RequestTimeout - Age(u)
        /\ \A t \in Services \ next : begun[u][t] = job[u][t]
    <2>1. CASE s = "file_upload" /\ ~minioClient
      <3>1. {"clamav"} \in SUBSET Services
        BY DEF Services
      <3>2. next = {"clamav"} /\ begun = Start(u, {"clamav"}, Age(u))
        BY <2>1
      <3> HIDE DEF next, begun
      <3> QED
        BY <1>5, <3>1, <3>2, StartDoes
    <2>2. CASE ~(s = "file_upload" /\ ~minioClient)
      BY <2>2 DEF UploadTyped
    <2> QED
      BY <2>1, <2>2
  <1>7. job' = [begun EXCEPT ![u][s] = Ended]
    BY DEF Finish
  <1>8. next \subseteq Services /\ s \notin next
    BY DEF Services
  <1> HIDE DEF begun
  <1>9. /\ job' \in [Requests -> [Services -> JobStates]]
        /\ \A v \in Requests \ {u} : job'[v] = job[v]
        /\ job'[u][s].state = "ended"
        /\ \A t \in next : /\ job'[u][t].state = "running"
                           /\ job'[u][t].left <= RequestTimeout - Age(u)
        /\ \A t \in Services \ (next \cup {s}) : job'[u][t] = job[u][t]
    BY <1>6, <1>7, <1>8, StateFields
  <1>10. UploadTyped'
    BY <1>1, <1>4, <1>9 DEF UploadTyped
  <1>11. ASSUME NEW v \in Requests, v # u
         PROVE  (InOrder(v) /\ Reported(v) /\ InContext(v))'
    BY <1>1, <1>4, <1>9, <1>11
    DEF InOrder, Reported, InContext, Works, Runs, HasEnded, Age, Used,
        Services
  <1>12. InOrder(u)'
    <2>1. CASE minioClient
      BY <1>1, <1>9, <2>1 DEF InOrder, Works, Runs, HasEnded
    <2>2. CASE ~minioClient /\ s = "file_upload"
      BY <1>1, <1>9, <2>2 DEF InOrder, Works, Runs, HasEnded, Services
    <2>3. CASE ~minioClient /\ s = "clamav"
      BY <1>1, <1>9, <2>3 DEF InOrder, Works, Runs, HasEnded, Services
    <2> QED
      BY <1>1, <2>1, <2>2, <2>3 DEF Services
  <1>13. Reported(u)'
    <2>1. \A t \in Services : HasEnded(u, t)' => t = s \/ HasEnded(u, t)
      BY <1>9 DEF HasEnded
    <2>2. \A t \in Services : HasEnded(u, t)' => results'[u][t] # "none"
      BY <1>3, <1>4, <2>1 DEF Reported
    <2> QED
      BY <1>1, <1>3, <1>4, <2>2 DEF Reported, Services
  <1>14. InContext(u)'
    <2>1. Age(u)' = Age(u)
      BY <1>1 DEF Age
    <2>2. ASSUME NEW t \in Services, Runs(u, t)'
          PROVE  job'[u][t].left <= RequestTimeout - Age(u)
      <3>1. t # s
        BY <1>9, <2>2 DEF Runs
      <3>2. CASE t \in next
        BY <1>9, <3>2
      <3>3. CASE t \notin next
        BY <1>1, <1>9, <2>2, <3>1, <3>3 DEF InContext, Runs
      <3> QED
        BY <3>2, <3>3
    <2> QED
      BY <1>1, <2>1, <2>2 DEF InContext
  <1> QED
    BY <1>10, <1>11, <1>12, <1>13, <1>14

(* A request answers when everything it used has ended. *)
LEMMA UploadAnswer ==
    ASSUME UploadInv, NEW u \in Requests, Answer(u)
    PROVE  UploadInv'
  <1> USE DEF UploadInv
  <1>1. /\ Works(u) /\ (\A s \in Used : HasEnded(u, s))
        /\ UNCHANGED <<minioClient, time, job, results, taken, stored>>
    BY DEF Answer, Ready
  <1>2. Overall(u) \in BOOLEAN
    BY DEF Overall
  <1>3. /\ upload' \in [Requests -> [pc : {"idle", "works", "answered"},
                                     since : 0..MaxTime, success : BOOLEAN]]
        /\ upload'[u].pc = "answered" /\ upload'[u].since = upload[u].since
        /\ \A v \in Requests \ {u} : upload'[v] = upload[v]
    BY <1>2 DEF Answer, UploadTyped
  <1>4. upload'[u].success = Overall(u)
    BY DEF Answer, UploadTyped
  <1>5. UploadTyped'
    BY <1>1, <1>3 DEF UploadTyped
  <1>6. ASSUME NEW v \in Requests, v # u
        PROVE  (InOrder(v) /\ Reported(v) /\ InContext(v))'
    BY <1>1, <1>3, <1>6
    DEF InOrder, Reported, InContext, Works, Runs, HasEnded, Age, Used
  <1>7. InOrder(u)' /\ InContext(u)'
    BY <1>1, <1>3 DEF InOrder, InContext, Works, Runs, HasEnded, Used
  <1>8. Reported(u)'
    <2>1. Overall(u) => u \in taken /\ (minioClient => u \in stored)
      BY DEF Overall, Reported, Used, Services
    <2>2. upload'[u].success => u \in taken /\ (minioClient => u \in stored)
      BY <1>4, <2>1, Zenon
    <2> QED
      BY <1>1, <2>2 DEF Reported, HasEnded
  <1> QED
    BY <1>5, <1>6, <1>7, <1>8

(***************************************************************************)
(* A second can only pass while every request at work has a service that   *)
(* still has time: it is in no handler's interest, and no handler's power, *)
(* to wait for anything else.                                              *)
(***************************************************************************)
LEMMA SomeServiceRuns ==
    ASSUME UploadInv, NEW u \in Requests, Works(u), ~Ready(u)
    PROVE  \E s \in Services : Runs(u, s)
  BY DEF UploadInv, InOrder, Ready, Used, Services, Works

(* A second takes one from the time of every service and of its request. *)
LEMMA UploadSecond ==
    ASSUME UploadInv, Second
    PROVE  UploadInv'
  <1> USE DEF UploadInv
  <1>1. /\ time < MaxTime /\ time' = time + 1
        /\ UNCHANGED <<minioClient, upload, results, taken, stored>>
        /\ \A u \in Requests : ~Ready(u)
        /\ \A u \in Requests, s \in Services : Runs(u, s) => job[u][s].left > 0
    BY DEF Second
  <1>2. job' \in [Requests -> [Services -> JobStates]]
        /\ \A u \in Requests, s \in Services :
             /\ job'[u][s].state = job[u][s].state
             /\ Runs(u, s) => job'[u][s].left = job[u][s].left - 1
    <2>1. ASSUME NEW u \in Requests, NEW s \in Services
          PROVE  LET j == IF Runs(u, s) THEN Running(job[u][s].left - 1)
                          ELSE job[u][s]
                 IN  /\ j \in JobStates /\ j.state = job[u][s].state
                     /\ Runs(u, s) => j.left = job[u][s].left - 1
      <3>1. job[u][s] \in JobStates
        BY DEF UploadTyped
      <3>2. CASE Runs(u, s)
        <4>1. /\ job[u][s].left \in 0..RequestTimeout /\ job[u][s].left > 0
              /\ job[u][s].state = "running"
          BY <1>1, <3>1, <3>2, JobStateCases DEF Runs
        <4>2. job[u][s].left - 1 \in 0..RequestTimeout
          BY <4>1, UploadAssumption
        <4> QED
          BY <3>2, <4>1, <4>2, StateFields
      <3>3. CASE ~Runs(u, s)
        BY <3>1, <3>3
      <3> QED
        BY <3>2, <3>3
    <2>2. job' = [u \in Requests |-> [s \in Services |->
                    IF Runs(u, s) THEN Running(job[u][s].left - 1)
                    ELSE job[u][s]]]
      BY DEF Second
    <2> QED
      BY <2>1, <2>2
  <1>3. UploadTyped'
    BY <1>1, <1>2, UploadAssumption DEF UploadTyped
  <1>4. ASSUME NEW u \in Requests
        PROVE  (InOrder(u) /\ Reported(u))'
    BY <1>1, <1>2 DEF InOrder, Reported, Runs, HasEnded, Used, Services
  <1>5. ASSUME NEW u \in Requests, Works(u)'
        PROVE  /\ Age(u)' <= RequestTimeout
               /\ \A s \in Services :
                    Runs(u, s)' => job'[u][s].left <= RequestTimeout - Age(u)'
    <2>1. /\ Works(u) /\ Age(u)' = Age(u) + 1 /\ Age(u) \in Int
          /\ RequestTimeout \in Int
      BY <1>1, <1>5, UploadAssumption DEF Works, Age, UploadTyped
    <2>2. \A s \in Services : job[u][s].left \in Int
      BY JobStateCases DEF UploadTyped
    <2>3. PICK s \in Services : Runs(u, s)
      BY <1>1, <2>1, SomeServiceRuns
    <2>4. job[u][s].left > 0 /\ job[u][s].left <= RequestTimeout - Age(u)
      BY <1>1, <2>1, <2>3 DEF InContext
    <2>5. Age(u)' <= RequestTimeout
      BY <2>1, <2>2, <2>4
    <2>6. ASSUME NEW t \in Services, Runs(u, t)'
          PROVE  job'[u][t].left <= RequestTimeout - Age(u)'
      <3>1. Runs(u, t) /\ job'[u][t].left = job[u][t].left - 1
        BY <1>2, <2>6 DEF Runs
      <3>2. job[u][t].left <= RequestTimeout - Age(u)
        BY <2>1, <3>1 DEF InContext
      <3> QED
        BY <2>1, <2>2, <3>1, <3>2
    <2> QED
      BY <2>5, <2>6
  <1>6. \A u \in Requests : InContext(u)'
    BY <1>5 DEF InContext
  <1> QED
    BY <1>3, <1>4, <1>6

(* Every step of an upload keeps the invariant. *)
LEMMA UploadInvStep == UploadInv /\ [UploadNext]_uploadVars => UploadInv'
  <1> SUFFICES ASSUME UploadInv, [UploadNext]_uploadVars PROVE UploadInv'
    OBVIOUS
  <1>1. CASE UNCHANGED uploadVars
    BY <1>1 DEF uploadVars, UploadInv, UploadTyped, InOrder, Reported,
                InContext, Works, Runs, HasEnded, Age, Used
  <1> QED
    BY <1>1, UploadBegin, UploadTaken, UploadFinish, UploadAnswer,
       UploadSecond
    DEF UploadNext, UploadStep

(* What the invariant says of the answers. *)
LEMMA UploadInvImplies ==
    ASSUME UploadInv
    PROVE  /\ UploadTypeOK /\ AnswersComplete /\ SuccessIsTrue /\ AnsweredInTime
  <1> USE DEF UploadInv
  <1>1. UploadTypeOK
    BY DEF UploadTypeOK, UploadTyped, JobStates, Results
  <1>2. AnswersComplete
    BY DEF AnswersComplete, InOrder, Reported, Runs, HasEnded, Used, Services
  <1>3. SuccessIsTrue
    BY DEF SuccessIsTrue, Reported
  <1>4. AnsweredInTime
    BY DEF AnsweredInTime, InContext
  <1> QED
    BY <1>1, <1>2, <1>3, <1>4

LEMMA UploadAlways == UploadSpec => []UploadInv
  <1>1. UploadInit => UploadInv
    BY UploadInvInit
  <1>2. UploadInv /\ [UploadNext]_uploadVars => UploadInv'
    BY UploadInvStep
  <1> QED
    BY <1>1, <1>2, PTL DEF UploadSpec

(* A request is answered with a final result of every service it used. *)
THEOREM AnswersAreComplete == UploadSpec => []AnswersComplete
  <1>1. UploadInv => AnswersComplete
    BY UploadInvImplies
  <1> QED
    BY <1>1, UploadAlways, PTL

(* What is reported as uploaded has been taken and stored. *)
THEOREM SuccessesAreTrue == UploadSpec => []SuccessIsTrue
  <1>1. UploadInv => SuccessIsTrue
    BY UploadInvImplies
  <1> QED
    BY <1>1, UploadAlways, PTL

(* No request is at work for longer than its context lasts. *)
THEOREM AnswersAreInTime == UploadSpec => []AnsweredInTime
  <1>1. UploadInv => AnsweredInTime
    BY UploadInvImplies
  <1> QED
    BY <1>1, UploadAlways, PTL

-----------------------------------------------------------------------------
(***************************************************************************)
(* The relay. A behaviour of the relay is followed through buffer, wire,   *)
(* the instructions in hand and the client's messages: RelayInv says that  *)
(* together they are the script, each instruction once and in order. The   *)
(* theorems are about plain scripts and parameters, with PlainRelay as     *)
(* their hypothesis; without it they are false (section 5 of the README).  *)
(***************************************************************************)
(* What guacd may send once it was asked for its parameters. *)
ArgsOffers == {<< <<args>> \o names >>, << <<error>> >>}
(* What it may send once it was told their values. *)
ReadyOffers == {<< <<ready, connectionID>> >> \o script, << <<ready>> >>, << <<error>> >>}

(* A call of ReadSome in the handshake: it has failed, guacd has not      *)
(* answered, its answer is on the way, or the answer is returned and what *)
(* came with it is kept.                                                  *)
Expects(offers) ==
    \/ failed /\ call = "returns"
    \/ ~failed /\ call = "running" /\ asks = phase /\ Holds(<<>>)
    \/ /\ ~failed /\ call = "running" /\ asks = "none"
       /\ HoldsNothingElse("x") \/ \E list \in offers : Holds(list)
    \/ /\ ~failed /\ call = "returns" /\ asks = "none"
       /\ \E list \in offers : got = ProtocolText(list[1]) /\ Holds(Tail(list))

(* The script without its first k instructions. *)
After(k) == SubSeq(script, k + 1, Len(script))
(* A client who is there has received, or will from what is in hand, the *)
(* first k.                                                              *)
Delivered(k) == ws = "open" => FlattenSeq(messages) \o buf = SubSeq(Texts, 1, k)

(* A call of ReadSome in the relay: what the stream holds is what the     *)
(* client has not received and what is not in hand, without a gap and     *)
(* with nothing twice. Instructions are in hand only while the stream has *)
(* more.                                                                  *)
Relays ==
    \/ /\ failed /\ call = "returns"
       /\ \E k \in 0..Len(script) : Delivered(k)
    \/ /\ ~failed /\ call = "running"
       /\ \E k \in 0..Len(script) : Holds(After(k)) /\ Delivered(k)
       /\ buf # <<>> => Available
    \/ /\ ~failed /\ call = "returns"
       /\ \E k \in 1..Len(script) :
            Holds(After(k)) /\ got = Texts[k] /\ Delivered(k - 1)

(* The strengthening of the three properties of the relay. *)
RelayInv ==
    /\ names \in Asked /\ script \in Scripts
    /\ phase \in {"select", "args", "ready", "relay", "ended"}
    /\ buf \in Seq(Seq(OneByte)) /\ messages \in Seq(Seq(Seq(OneByte)))
    /\ phase \in {"select", "args", "ready"} => messages = <<>> /\ buf = <<>>
    /\ IsPrefix(FlattenSeq(messages), Texts)
    /\ phase = "select" => asks = "none" /\ call = "none" /\ ~failed /\ Holds(<<>>)
    /\ phase = "args" => told = << <<select, <<"r">> >> >> /\ Expects(ArgsOffers)
    /\ phase \in {"ready", "relay"} => Last(told) = <<connect>> \o ValuesOf(names)
    /\ phase = "ready" => Expects(ReadyOffers)
    /\ phase = "relay" => asks = "none" /\ Relays
    /\ phase = "ended" => ws = "closed"

(* The list behind its first element. *)
LEMMA TailOfCons ==
    ASSUME NEW S, NEW s \in Seq(S), NEW x \in S
    PROVE  /\ <<x>> \o s \in Seq(S) /\ <<x>> \o s # <<>>
           /\ (<<x>> \o s)[1] = x /\ Tail(<<x>> \o s) = s
  <1> DEFINE v == <<x>>
             t == v \o s
  <1>1. v \in Seq(S) /\ Len(v) = 1 /\ v[1] = x
    OBVIOUS
  <1> HIDE DEF v
  <1>2. t \in Seq(S) /\ IsJoined(t, v, s)
    BY <1>1, Joined
  <1>3. /\ Len(t) = 1 + Len(s) /\ Len(s) \in Nat /\ t[1] = x
        /\ \A m \in 1..Len(s) : t[1 + m] = s[m]
    BY <1>1, <1>2 DEF IsJoined
  <1> HIDE DEF t
  <1>4. t # <<>>
    <2>1. Len(t) # 0
      BY <1>3
    <2> QED
      BY <2>1
  <1>5. Tail(t) \in Seq(S) /\ Len(Tail(t)) = Len(t) - 1
        /\ \A m \in 1..Len(Tail(t)) : Tail(t)[m] = t[m+1]
    BY <1>2, <1>4, HeadTailProperties
  <1>6. Tail(t) = s
    <2> DEFINE r == Tail(t)
    <2>1. r \in Seq(S) /\ Len(r) = Len(s) /\ \A m \in 1..Len(r) : r[m] = t[m + 1]
      BY <1>3, <1>5
    <2> HIDE DEF r
    <2>2. \A m \in 1..Len(r) : m + 1 = 1 + m /\ m \in 1..Len(s)
      BY <2>1
    <2>3. \A m \in 1..Len(r) : r[m] = s[m]
      BY <1>3, <2>1, <2>2
    <2>4. r = s
      BY <2>1, <2>3, SeqEqual
    <2> QED
      BY <2>4 DEF r
  <1> QED
    BY <1>2, <1>3, <1>4, <1>6 DEF t, v

(* A list without its first k elements. *)
LEMMA RestOfList ==
    ASSUME NEW S, NEW s \in Seq(S), NEW k \in 0..Len(s)
    PROVE  /\ SubSeq(s, k + 1, Len(s)) \in Seq(S)
           /\ \A i \in 1..Len(SubSeq(s, k + 1, Len(s))) :
                i + k \in 1..Len(s) /\ SubSeq(s, k + 1, Len(s))[i] = s[i + k]
           /\ SubSeq(s, k + 1, Len(s)) # <<>> =>
                /\ k + 1 \in 1..Len(s) /\ SubSeq(s, k + 1, Len(s))[1] = s[k + 1]
                /\ Tail(SubSeq(s, k + 1, Len(s))) = SubSeq(s, (k + 1) + 1, Len(s))
  <1> DEFINE n == Len(s)
             m == k + 1
             r == SubSeq(s, k + 1, n)
  <1>1. n \in Nat /\ \A i \in 1..n : s[i] \in S
    BY LenProperties, ElementOfSeq
  <1>2. m \in Int /\ m >= 1 /\ n \in Int /\ \A i \in m..n : s[i] \in S
    BY <1>1
  <1>3. /\ r \in Seq(S) /\ Len(r) = (IF m <= n THEN n - m + 1 ELSE 0)
        /\ \A i \in 1..(n-m+1) : r[i] = s[m+i-1]
    <2> HIDE DEF n, m
    <2>1. r = SubSeq(s, m, n)
      BY DEF m
    <2> HIDE DEF r
    <2> QED
      BY <1>2, <2>1, SubSeqProperties
  <1> HIDE DEF r
  <1>4. ASSUME NEW i \in 1..Len(r)
        PROVE  i + k \in 1..n /\ r[i] = s[i + k]
    <2>1. m <= n /\ i \in 1..(n-m+1)
      BY <1>1, <1>3
    <2>2. m + i - 1 = i + k /\ i + k \in 1..n
      BY <1>1, <2>1
    <2> QED
      BY <1>3, <2>1, <2>2
  <1>5. ASSUME r # <<>>
        PROVE  k + 1 \in 1..n /\ r[1] = s[k + 1] /\ Tail(r) = SubSeq(s, (k + 1) + 1, n)
    <2>1. Len(r) # 0
      BY <1>3, <1>5, EmptySeq
    <2>2. m <= n
      BY <1>3, <2>1
    <2>3. k + 1 \in 1..n /\ n \in (k + 1)..n
      BY <1>1, <2>2
    <2>4. Head(r) = s[k + 1] /\ Tail(r) = SubSeq(s, (k + 1) + 1, n)
      BY <2>3, HeadTailOfSubSeq DEF r, n
    <2>5. Head(r) = r[1]
      BY <1>3, <1>5
    <2> QED
      BY <2>3, <2>4, <2>5
  <1> QED
    BY <1>3, <1>4, <1>5 DEF r, n

LEMMA PlainRest ==
    ASSUME NEW list \in PlainLists, NEW k \in 0..Len(list)
    PROVE  SubSeq(list, k + 1, Len(list)) \in PlainLists
  <1> DEFINE r == SubSeq(list, k + 1, Len(list))
  <1>1. list \in Seq(Seq(Seq(OneByte))) /\ \A i \in 1..Len(list) : Plain(list[i])
    BY DEF PlainLists
  <1>2. r \in Seq(Seq(Seq(OneByte))) /\ \A i \in 1..Len(r) : i + k \in 1..Len(list) /\ r[i] = list[i + k]
    BY <1>1, RestOfList
  <1> HIDE DEF r
  <1>3. r \in PlainLists
    BY <1>1, <1>2 DEF PlainLists
  <1> QED
    BY <1>3 DEF r

(* The first k elements are the first k - 1 and the next. *)
LEMMA DeliveredOneMore ==
    ASSUME NEW S, NEW t \in Seq(S), NEW k \in 1..Len(t), NEW m \in Seq(S), NEW b \in Seq(S),
           m \o b = SubSeq(t, 1, k - 1)
    PROVE  m \o Append(b, t[k]) = SubSeq(t, 1, k)
  <1> DEFINE v == <<t[k]>>
  <1>1. t[k] \in S /\ v \in Seq(S) /\ Append(b, t[k]) = b \o v
    BY ElementOfSeq, AppendIsConcat
  <1>2. 1 \in 1..Len(t) /\ k \in 1..Len(t)
    BY LenProperties
  <1>3. SubSeq(t, 1, k) = SubSeq(t, 1, k - 1) \o v
    BY <1>2, SubSeqRecursiveSecond
  <1> HIDE DEF v
  <1>4. (m \o b) \o v = m \o (b \o v)
    <2>1. Regrouped(m, b, v)
      BY <1>1, Regroup
    <2> QED
      BY <2>1 DEF Regrouped
  <1> QED
    BY <1>1, <1>3, <1>4

(* The first k elements are a prefix, and so is what they begin with. *)
LEMMA PrefixOf ==
    ASSUME NEW S, NEW t \in Seq(S), NEW k \in 0..Len(t), NEW s, s = SubSeq(t, 1, k)
    PROVE  IsPrefix(s, t)
  <1> DEFINE n == Len(t)
  <1>1. n \in Nat /\ \A i \in 1..n : t[i] \in S
    BY LenProperties, ElementOfSeq
  <1>2. s \in Seq(S) /\ Len(s) = k
    <2>1. 1 \in Int /\ k \in Int /\ \A i \in 1..k : t[i] \in S
      BY <1>1
    <2>2. s \in Seq(S) /\ Len(s) = IF 1 <= k THEN k - 1 + 1 ELSE 0
      BY <2>1, SubSeqProperties
    <2> QED
      BY <1>1, <2>2
  <1>3. k <= Len(t)
    BY <1>1
  <1>4. SubSeq(s, 1, k) = s
    BY <1>2, SubSeqFull
  <1> QED
    BY <1>2, <1>3, <1>4 DEF IsPrefix

LEMMA PrefixOfJoined ==
    ASSUME NEW S, NEW t \in Seq(S), NEW k \in 0..Len(t), NEW m \in Seq(S), NEW b \in Seq(S),
           m \o b = SubSeq(t, 1, k)
    PROVE  IsPrefix(m, t)
  <1> DEFINE s == m \o b
             n == Len(t)
             l == Len(m)
  <1>1. n \in Nat /\ l \in Nat /\ \A i \in 1..n : t[i] \in S
    BY LenProperties, ElementOfSeq
  <1>2. s \in Seq(S) /\ IsJoined(s, m, b)
    BY Joined
  <1>3. Len(s) = k /\ \A i \in 1..k : s[i] = t[i]
    <2>1. s = SubSeq(t, 1, k)
      OBVIOUS
    <2>2. 1 \in Int /\ k \in Int /\ \A i \in 1..k : t[i] \in S
      BY <1>1
    <2> HIDE DEF s
    <2>3. Len(s) = (IF 1 <= k THEN k - 1 + 1 ELSE 0) /\ \A i \in 1..(k-1+1) : s[i] = t[1+i-1]
      BY <2>1, <2>2, SubSeqProperties
    <2>4. k - 1 + 1 = k /\ \A i \in 1..k : 1 + i - 1 = i
      BY <1>1
    <2> QED
      BY <1>1, <2>3, <2>4
  <1> HIDE DEF s
  <1>4. l <= k /\ k <= n
    <2>1. Len(s) = l + Len(b) /\ Len(b) \in Nat
      BY <1>2 DEF IsJoined
    <2> DEFINE y == Len(b)
    <2>2. k = l + y /\ y \in Nat /\ k \in 0..n
      BY <1>3, <2>1
    <2> HIDE DEF y, l, n
    <2> QED
      BY <1>1, <2>2
  <1>5. \A i \in 1..l : m[i] = t[i]
    BY <1>1, <1>2, <1>3, <1>4 DEF IsJoined
  <1>6. SubSeq(t, 1, l) = m
    <2> DEFINE r == SubSeq(t, 1, l)
    <2>1. 1 \in Int /\ l \in Int /\ \A i \in 1..l : t[i] \in S
      BY <1>1, <1>4
    <2> HIDE DEF l
    <2>2. r \in Seq(S) /\ Len(r) = (IF 1 <= l THEN l - 1 + 1 ELSE 0) /\ \A i \in 1..(l-1+1) : r[i] = t[1+i-1]
      BY <2>1, SubSeqProperties
    <2>3. l - 1 + 1 = l /\ \A i \in 1..l : 1 + i - 1 = i
      BY <1>1
    <2>4. Len(r) = l /\ \A i \in 1..l : r[i] = t[i]
      BY <1>1, <2>2, <2>3
    <2> HIDE DEF r
    <2>5. r = m
      BY <1>5, <2>2, <2>4, SeqEqual DEF l
    <2> QED
      BY <2>5 DEF r
  <1>7. SubSeq(m, 1, l) = m
    BY SubSeqFull
  <1> QED
    BY <1>4, <1>6, <1>7 DEF IsPrefix, l, n

(* The text of the first instruction is parsed as that instruction. *)
LEMMA PlainFirst ==
    ASSUME NEW list \in PlainLists, list # <<>>
    PROVE  list[1] \in Seq(Seq(OneByte)) /\ list[1] # <<>> /\ Parse(ProtocolText(list[1])) = list[1]
  <1>1. list \in Seq(Seq(Seq(OneByte))) /\ \A i \in 1..Len(list) : Plain(list[i])
    BY DEF PlainLists
  <1>2. 1 \in 1..Len(list)
    BY <1>1, EmptySeq
  <1>3. list[1] \in Seq(Seq(OneByte)) /\ list[1] # <<>>
    BY <1>1, <1>2 DEF Plain
  <1> QED
    BY <1>3, ParseText

(* The letters of the protocol and the opcodes. *)
LEMMA OneByteCharacters ==
    /\ OneByte \subseteq Characters
    /\ {"S", "A", "O", "C", "R", "E", "k", "r", "x"} \subseteq OneByte
  BY RelayAssumption DEF Characters, OneByte

LEMMA OpcodesType ==
    /\ args \in Seq(Characters) /\ ready \in Seq(Characters) /\ error \in Seq(Characters)
    /\ connectionID \in Seq(Characters)
    /\ args # error /\ args # ready /\ ready # error
  <1>1. {"A", "R", "E", "k"} \subseteq Characters
    BY OneByteCharacters
  <1>2. args \in Seq(Characters) /\ ready \in Seq(Characters) /\ error \in Seq(Characters)
        /\ connectionID \in Seq(Characters)
    BY <1>1 DEF args, ready, error, connectionID
  <1>3. args[1] = "A" /\ ready[1] = "R" /\ error[1] = "E"
    BY DEF args, ready, error
  <1> QED
    BY <1>2, <1>3

(* What guacd may answer first, and what a parameter list is in it. *)
LEMMA ArgsOffersAre ==
    ASSUME PlainRelay, names \in Asked, NEW list \in ArgsOffers
    PROVE  /\ list \in PlainLists /\ list # <<>> /\ Tail(list) = <<>>
           /\ list[1][1] = args => Tail(list[1]) = names
  <1>1. list \in Offered
    BY DEF ArgsOffers, Offered
  <1>2. list \in PlainLists
    BY <1>1 DEF PlainRelay
  <1> DEFINE x == <<args>> \o names
  <1>3. x \in Seq(Seq(Characters)) /\ Tail(x) = names
    <2>1. names \in Seq(Seq(Characters)) /\ args \in Seq(Characters)
      BY RelayAssumption, OpcodesType
    <2> QED
      BY <2>1, TailOfCons
  <1> HIDE DEF x
  <1>4. CASE list = <<x>>
    <2>1. list # <<>> /\ Tail(list) = <<>> /\ list[1] = x
      BY <1>4
    <2> QED
      BY <1>2, <1>3, <2>1
  <1>5. CASE list = << <<error>> >>
    <2>1. list # <<>> /\ Tail(list) = <<>> /\ list[1] = <<error>> /\ list[1][1] = error
      BY <1>5
    <2> QED
      BY <1>2, <2>1, OpcodesType
  <1> QED
    BY <1>4, <1>5 DEF ArgsOffers, x

LEMMA ReadyOffersAre ==
    ASSUME PlainRelay, script \in Scripts, NEW list \in ReadyOffers
    PROVE  /\ list \in PlainLists /\ list # <<>>
           /\ list[1][1] = ready /\ Len(list[1]) > 1 => Tail(list) = script
           /\ script \in PlainLists
  <1>1. list \in Offered
    BY DEF ReadyOffers, Offered
  <1>2. list \in PlainLists
    BY <1>1 DEF PlainRelay
  <1> DEFINE r == <<ready, connectionID>>
             x == <<r>> \o script
  <1>3. x \in Seq(Seq(Seq(Characters))) /\ x # <<>> /\ Tail(x) = script
    <2>1. script \in Seq(Seq(Seq(Characters))) /\ r \in Seq(Seq(Characters))
      BY RelayAssumption, OpcodesType
    <2> HIDE DEF r
    <2> QED
      BY <2>1, TailOfCons
  <1> HIDE DEF x
  <1>4. script \in PlainLists
    <2>1. x \in Offered
      BY DEF Offered, x
    <2>2. x \in PlainLists
      BY <2>1 DEF PlainRelay
    <2>3. x \in Seq(Seq(Seq(OneByte)))
      BY <2>2 DEF PlainLists
    <2>4. Tail(x) = SubSeq(x, 1 + 1, Len(x))
      <3>1. Tail(x) = SubSeq(x, 2, Len(x))
        BY <1>3, <2>3, TailIsSubSeq
      <3> QED
        BY <3>1
    <2>5. 1 \in 0..Len(x)
      BY <1>3, <2>3, EmptySeq
    <2> QED
      BY <1>3, <2>2, <2>4, <2>5, PlainRest
  <1>5. CASE list = x
    BY <1>2, <1>3, <1>4, <1>5
  <1>6. CASE list = << <<ready>> >>
    <2>1. list # <<>> /\ list[1] = <<ready>> /\ Len(list[1]) = 1
      BY <1>6
    <2> QED
      BY <1>2, <1>4, <2>1
  <1>7. CASE list = << <<error>> >>
    <2>1. list # <<>> /\ list[1] = <<error>> /\ list[1][1] = error
      BY <1>7
    <2> QED
      BY <1>2, <1>4, <2>1, OpcodesType
  <1> QED
    BY <1>5, <1>6, <1>7 DEF ReadyOffers, x

(* guacd sends an answer. *)
LEMMA StartsAtFirst ==
    ASSUME NEW list \in PlainLists, list # <<>>, parseStart = 0
    PROVE  AtElement(list[1])
  <1>1. list[1] \in Seq(Seq(OneByte)) /\ list[1] # <<>>
    BY PlainFirst
  <1>2. PICK b : TextCuts(b, list[1])
    BY <1>1, TextCutsExist
  <1>3. 1 \in 1..Len(list[1])
    BY <1>1, EmptySeq
  <1>4. b[1 - 1] = 0
    BY <1>2 DEF TextCuts
  <1>5. \E k \in 1..Len(list[1]) : parseStart = b[k - 1]
    BY <1>3, <1>4
  <1> QED
    BY <1>2, <1>5 DEF AtElement

(* What guacd sends to a stream that holds nothing is what it then holds. *)
LEMMA SendsList ==
    ASSUME NEW list \in PlainLists, list # <<>>, Holds(<<>>), Sends(list),
           UNCHANGED <<buffer, parseStart>>
    PROVE  Holds(list)'
  <1>1. list \in Seq(Seq(Seq(OneByte)))
    BY DEF PlainLists
  <1>2. \A i \in DOMAIN list : Utf8(ProtocolText(list[i])) = ProtocolText(list[i])
    <2> SUFFICES ASSUME NEW i \in DOMAIN list
                 PROVE  Utf8(ProtocolText(list[i])) = ProtocolText(list[i])
      OBVIOUS
    <2>1. list[i] \in Seq(Seq(OneByte))
      BY <1>1, LenProperties, ElementOfSeq
    <2>2. ProtocolText(list[i]) \in Seq(OneByte)
      BY <2>1, ProtocolTextIs, OneByteHas
    <2> QED
      BY <2>2, Utf8OneByte
  <1>3. [i \in DOMAIN list |-> Utf8(ProtocolText(list[i]))] = [i \in DOMAIN list |-> ProtocolText(list[i])]
    BY <1>2
  <1>4. buffer = <<>> /\ wire = <<>> /\ parseStart = 0
    BY NothingArrived DEF Holds
  <1>5. TextOf(list) \in Seq(OneByte)
    BY <1>1, TextsType
  <1>6. wire' = TextOf(list)
    <2>1. wire' = <<>> \o TextOf(list)
      BY <1>3, <1>4 DEF Sends, TextOf
    <2> QED
      BY <1>5, <2>1, ConcatEmptySeq
  <1>7. AtElement(list[1])'
    <2>1. AtElement(list[1])
      BY <1>4, StartsAtFirst
    <2> QED
      BY <2>1 DEF AtElement
  <1>8. buffer' = <<>> /\ parseStart' = 0
    BY <1>4
  <1>9. buffer' \o wire' = TextOf(list)
    BY <1>5, <1>6, <1>8, ConcatEmptySeq
  <1>10. buffer' \in Seq(OneByte) /\ parseStart' <= Len(buffer')
    BY <1>8
  <1> QED
    BY <1>5, <1>6, <1>7, <1>9, <1>10 DEF Holds

LEMMA SendsOneCharacter ==
    ASSUME NEW c, Holds(<<>>), wire' = wire \o <<c>>, UNCHANGED <<buffer, parseStart>>
    PROVE  HoldsNothingElse(c)'
  <1>1. buffer = <<>> /\ wire = <<>> /\ parseStart = 0
    BY NothingArrived DEF Holds
  <1>2. <<>> \o <<c>> = <<c>>
    OBVIOUS
  <1> QED
    BY <1>1, <1>2 DEF HoldsNothingElse

(* Fails, goes on, or returns the first instruction. *)
Moves(list) ==
    \/ failed' /\ call' = "returns"
    \/ ~failed' /\ call' = "running" /\ Holds(list)' /\ (buffer # <<>> => buffer' # <<>>)
    \/ /\ ~failed' /\ call' = "returns" /\ list # <<>> /\ Tail(list) \in PlainLists
       /\ got' = ProtocolText(list[1]) /\ Holds(Tail(list))'

(* A step of ReadSome on plain instructions, on what is no instruction, *)
(* and in the handshake.                                                *)
LEMMA ReadSomeMoves ==
    ASSUME NEW list \in PlainLists, Holds(list), ~failed, ReadSomeStep
    PROVE  Moves(list) /\ call = "running"
  <1>1. CASE TakeElement
    <2>1. Holds(list)'
      BY <1>1, TakesElement
    <2> QED
      BY <1>1, <2>1 DEF TakeElement, Moves
  <1>2. CASE TakeInstruction
    <2>1. list # <<>> /\ Tail(list) \in PlainLists /\ got' = ProtocolText(list[1]) /\ Holds(Tail(list))'
      BY <1>2, TakesInstruction
    <2> QED
      BY <1>2, <2>1 DEF TakeInstruction, Moves
  <1>3. CASE Refuse
    BY <1>3, NothingRefused
  <1>4. CASE ReadMore
    <2>1. Holds(list)' /\ (buffer # <<>> => buffer' # <<>>)
      BY <1>4, ReadsMore
    <2> QED
      BY <1>4, <2>1 DEF ReadMore, Moves
  <1>5. CASE ReadFails
    BY <1>5 DEF ReadFails, Moves
  <1> QED
    BY <1>1, <1>2, <1>3, <1>4, <1>5 DEF ReadSomeStep

LEMMA ReadSomeRefuses ==
    ASSUME NEW c \in Letters, HoldsNothingElse(c), ~failed, ReadSomeStep
    PROVE  \/ failed' /\ call' = "returns"
           \/ ~failed' /\ call' = "running" /\ HoldsNothingElse(c)'
  <1>1. ~TakeElement /\ ~TakeInstruction /\ (ReadMore => HoldsNothingElse(c)')
    BY OneCharacter
  <1>2. CASE Refuse
    BY <1>2 DEF Refuse
  <1>3. CASE ReadMore
    BY <1>1, <1>3 DEF ReadMore
  <1>4. CASE ReadFails
    BY <1>4 DEF ReadFails
  <1> QED
    BY <1>1, <1>2, <1>3, <1>4 DEF ReadSomeStep

(* Nothing sent is a plain list, too. *)
LEMMA NoList == <<>> \in PlainLists
  <1>1. <<>> \in Seq(Seq(Seq(OneByte))) /\ 1..Len(<<>>) = {}
    OBVIOUS
  <1> QED
    BY <1>1 DEF PlainLists

LEMMA ExpectsOn ==
    ASSUME NEW offers, offers \subseteq PlainLists, Expects(offers), ReadSomeStep,
           UNCHANGED <<asks, phase>>
    PROVE  Expects(offers)'
  <1>1. call = "running"
    BY DEF ReadSomeStep, TakeElement, TakeInstruction, Refuse, ReadMore, ReadFails
  <1>2. CASE ~failed /\ asks = phase /\ Holds(<<>>)
    <2>1. Moves(<<>>)
      BY <1>2, NoList, ReadSomeMoves
    <2> QED
      BY <1>2, <2>1 DEF Moves, Expects
  <1>3. CASE ~failed /\ asks = "none" /\ HoldsNothingElse("x")
    <2>1. "x" \in Letters
      BY RelayAssumption
    <2>2. \/ failed' /\ call' = "returns"
          \/ ~failed' /\ call' = "running" /\ HoldsNothingElse("x")'
      BY <1>3, <2>1, ReadSomeRefuses
    <2> QED
      BY <1>3, <2>2 DEF Expects
  <1>4. CASE ~failed /\ asks = "none" /\ \E list \in offers : Holds(list)
    <2>1. PICK list \in offers : Holds(list)
      BY <1>4
    <2>2. Moves(list)
      BY <1>4, <2>1, ReadSomeMoves
    <2>3. CASE failed' /\ call' = "returns"
      BY <2>3 DEF Expects
    <2>4. CASE ~failed' /\ call' = "running" /\ Holds(list)'
      BY <1>4, <2>4 DEF Expects
    <2>5. CASE ~failed' /\ call' = "returns" /\ got' = ProtocolText(list[1]) /\ Holds(Tail(list))'
      BY <1>4, <2>5 DEF Expects
    <2> QED
      BY <2>2, <2>3, <2>4, <2>5 DEF Moves
  <1> QED
    BY <1>1, <1>2, <1>3, <1>4 DEF Expects

(* The texts of a plain script. *)
LEMMA TextsAre ==
    ASSUME script \in PlainLists
    PROVE  /\ Texts \in Seq(Seq(OneByte)) /\ Len(Texts) = Len(script) /\ Len(script) \in Nat
           /\ \A k \in 1..Len(script) : Texts[k] = ProtocolText(script[k])
  <1>1. script \in Seq(Seq(Seq(OneByte)))
    BY DEF PlainLists
  <1>2. DOMAIN script = 1..Len(script) /\ Len(script) \in Nat
    BY <1>1, LenProperties
  <1>3. Texts \in Seq(Seq(OneByte))
    BY <1>1, TextsType DEF Texts
  <1>4. DOMAIN Texts = 1..Len(script)
    BY <1>2 DEF Texts
  <1>5. DOMAIN Texts = 1..Len(Texts) /\ Len(Texts) \in Nat
    BY <1>3, LenProperties
  <1>6. Len(Texts) = Len(script)
    <2> DEFINE x == Len(Texts)
               y == Len(script)
    <2>1. x \in Nat /\ y \in Nat /\ 1..x = 1..y
      BY <1>2, <1>4, <1>5
    <2> HIDE DEF x, y
    <2>2. x = y
      BY <2>1
    <2> QED
      BY <2>2 DEF x, y
  <1>7. \A k \in 1..Len(script) : Texts[k] = ProtocolText(script[k])
    BY <1>2 DEF Texts
  <1> QED
    BY <1>2, <1>3, <1>6, <1>7

(* What is left of the script after k instructions, and after one more. *)
LEMMA AfterIs ==
    ASSUME script \in PlainLists, NEW k \in 0..Len(script)
    PROVE  /\ After(k) \in PlainLists
           /\ After(k) # <<>> =>
                /\ k + 1 \in 1..Len(script)
                /\ ProtocolText(After(k)[1]) = Texts[k + 1]
                /\ Tail(After(k)) = After(k + 1)
  <1>1. script \in Seq(Seq(Seq(OneByte)))
    BY DEF PlainLists
  <1>2. After(k) \in PlainLists
    BY PlainRest DEF After
  <1>3. SUFFICES ASSUME After(k) # <<>>
                 PROVE  /\ k + 1 \in 1..Len(script)
                        /\ ProtocolText(After(k)[1]) = Texts[k + 1]
                        /\ Tail(After(k)) = After(k + 1)
    BY <1>2
  <1>4. /\ k + 1 \in 1..Len(script) /\ After(k)[1] = script[k + 1]
        /\ Tail(After(k)) = SubSeq(script, (k + 1) + 1, Len(script))
    BY <1>1, <1>3, RestOfList DEF After
  <1>5. Texts[k + 1] = ProtocolText(script[k + 1])
    BY <1>4, TextsAre
  <1> QED
    BY <1>4, <1>5 DEF After

(* A step of ReadSome in the relay: an instruction that is returned is *)
(* the next one of the script.                                         *)
LEMMA RelaysOn ==
    ASSUME script \in PlainLists, Relays, ReadSomeStep, UNCHANGED relayVars
    PROVE  Relays'
  <1>1. call = "running"
    BY DEF ReadSomeStep, TakeElement, TakeInstruction, Refuse, ReadMore, ReadFails
  <1>2. ~failed /\ (buf # <<>> => Available) /\ \E k \in 0..Len(script) : Holds(After(k)) /\ Delivered(k)
    BY <1>1 DEF Relays
  <1>3. PICK k \in 0..Len(script) : Holds(After(k)) /\ Delivered(k)
    BY <1>2
  <1>4. script' = script /\ buf' = buf /\ messages' = messages /\ ws' = ws
    BY DEF relayVars
  <1>5. Texts' = Texts
    BY <1>4 DEF Texts
  <1>6. \A m : Delivered(m) => Delivered(m)'
    BY <1>4, <1>5 DEF Delivered
  <1>7. PICK list : list = After(k)
    OBVIOUS
  <1>8. /\ list \in PlainLists
        /\ list # <<>> =>
             /\ k + 1 \in 1..Len(script) /\ ProtocolText(list[1]) = Texts[k + 1]
             /\ Tail(list) = After(k + 1)
    BY <1>7, AfterIs
  <1>9. Moves(list)
    BY <1>2, <1>3, <1>7, <1>8, ReadSomeMoves
  <1>10. After(k)' = list /\ After(k + 1)' = After(k + 1)
    BY <1>4, <1>7 DEF After
  <1>11. CASE failed' /\ call' = "returns"
    <2>1. \E m \in 0..Len(script') : Delivered(m)'
      BY <1>3, <1>4, <1>6
    <2> QED
      BY <1>11, <2>1 DEF Relays
  <1>12. CASE ~failed' /\ call' = "running" /\ Holds(list)' /\ (buffer # <<>> => buffer' # <<>>)
    <2>1. Holds(After(k))'
      BY <1>10, <1>12 DEF Holds
    <2>2. \E m \in 0..Len(script') : Holds(After(m))' /\ Delivered(m)'
      BY <1>3, <1>4, <1>6, <2>1
    <2>3. buf' # <<>> => Available'
      BY <1>2, <1>4, <1>12 DEF Available
    <2> QED
      BY <1>12, <2>2, <2>3 DEF Relays
  <1>13. CASE /\ ~failed' /\ call' = "returns" /\ list # <<>>
              /\ got' = ProtocolText(list[1]) /\ Holds(Tail(list))'
    <2>1. PICK n : n = k + 1
      OBVIOUS
    <2>2. n \in 1..Len(script) /\ n - 1 = k
      BY <1>8, <1>13, <2>1
    <2>3. Tail(list) = After(n)' /\ got' = Texts[n]
      <3>1. After(n)' = After(n) /\ After(n) = Tail(list)
        BY <1>4, <1>8, <1>13, <2>1 DEF After
      <3> QED
        BY <1>8, <1>13, <2>1, <3>1
    <2>4. Holds(After(n))'
      BY <1>13, <2>3 DEF Holds
    <2>5. \E m \in 1..Len(script') : Holds(After(m))' /\ got' = Texts[m]' /\ Delivered(m - 1)'
      <3>1. Delivered(n - 1)'
        BY <1>3, <1>6, <2>2
      <3> QED
        BY <1>4, <1>5, <2>2, <2>3, <2>4, <3>1
    <2> QED
      BY <1>13, <2>5 DEF Relays
  <1> QED
    BY <1>9, <1>11, <1>12, <1>13 DEF Moves

(* The script that guacd sends is plain. *)
LEMMA ScriptPlain ==
    ASSUME PlainRelay, script \in Scripts
    PROVE  script \in PlainLists
  <1>1. << <<error>> >> \in ReadyOffers
    BY DEF ReadyOffers
  <1> QED
    BY <1>1, ReadyOffersAre

(* At the start of the relay nothing is delivered. *)
LEMMA NothingDelivered ==
    ASSUME script \in PlainLists
    PROVE  /\ FlattenSeq(<<>>) = <<>> /\ IsPrefix(<<>>, Texts)
           /\ SubSeq(Texts, 1, 0) = <<>> /\ <<>> \o <<>> = <<>>
  <1>1. Texts \in Seq(Seq(OneByte)) /\ Len(Texts) \in Nat
    BY TextsAre
  <1>2. SubSeq(Texts, 1, 0) = <<>>
    BY SubSeqEmpty
  <1>3. 0 \in 0..Len(Texts)
    BY <1>1
  <1>4. IsPrefix(<<>>, Texts)
    BY <1>1, <1>2, <1>3, PrefixOf
  <1>5. <<>> \o <<>> = <<>>
    OBVIOUS
  <1> QED
    BY <1>2, <1>4, <1>5, FlattenEmpty

(* Initially. *)
LEMMA RelayInvInit ==
    ASSUME PlainRelay, RelayInit
    PROVE  RelayInv
  <1>1. script \in PlainLists
    BY ScriptPlain DEF RelayInit
  <1>2. Holds(<<>>)
    <2>1. wire = <<>> /\ buffer = <<>> /\ parseStart = 0
      BY DEF RelayInit, StreamInit
    <2>2. <<>> \in Seq(OneByte) /\ <<>> \o <<>> = <<>> /\ 0 <= Len(<<>>)
      OBVIOUS
    <2> QED
      BY <2>1, <2>2, TextOfNone DEF Holds
  <1>3. messages = <<>> /\ buf = <<>> /\ <<>> \in Seq(Seq(OneByte)) /\ <<>> \in Seq(Seq(Seq(OneByte)))
    BY DEF RelayInit
  <1>4. IsPrefix(FlattenSeq(messages), Texts)
    BY <1>1, <1>3, NothingDelivered
  <1>5. /\ names \in Asked /\ script \in Scripts /\ phase = "select" /\ asks = "none"
        /\ call = "none" /\ ~failed
    BY DEF RelayInit, StreamInit
  <1> QED
    BY <1>2, <1>3, <1>4, <1>5 DEF RelayInv

(* What the steps of the stream and of guacd leave alone. *)
Kept ==
    /\ names \in Asked /\ script \in Scripts
    /\ phase \in {"select", "args", "ready", "relay", "ended"}
    /\ buf \in Seq(Seq(OneByte)) /\ messages \in Seq(Seq(Seq(OneByte)))
    /\ phase \in {"select", "args", "ready"} => messages = <<>> /\ buf = <<>>
    /\ IsPrefix(FlattenSeq(messages), Texts)
    /\ phase = "args" => told = << <<select, <<"r">> >> >>
    /\ phase \in {"ready", "relay"} => Last(told) = <<connect>> \o ValuesOf(names)
    /\ phase = "ended" => ws = "closed"

LEMMA KeptIs ==
    RelayInv <=> /\ Kept
                 /\ phase = "select" => asks = "none" /\ call = "none" /\ ~failed /\ Holds(<<>>)
                 /\ phase = "args" => Expects(ArgsOffers)
                 /\ phase = "ready" => Expects(ReadyOffers)
                 /\ phase = "relay" => asks = "none" /\ Relays
  BY DEF RelayInv, Kept

LEMMA KeptStays ==
    ASSUME Kept, UNCHANGED <<names, script, phase, told, buf, messages, ws>>
    PROVE  Kept'
  <1>1. Texts' = Texts /\ ValuesOf(names)' = ValuesOf(names)
    BY DEF Texts, ValuesOf, ValueOf
  <1> QED
    BY <1>1 DEF Kept

(* The steps keep RelayInv. First those of ReadSome. *)
LEMMA ReadSomeKeeps ==
    ASSUME PlainRelay, RelayInv, ReadSomeStep, UNCHANGED relayVars
    PROVE  RelayInv'
  <1>1. Kept'
    <2>1. Kept /\ UNCHANGED <<names, script, phase, told, buf, messages, ws>>
      BY KeptIs DEF relayVars
    <2> QED
      BY <2>1, KeptStays
  <1>2. names' = names /\ script' = script /\ phase' = phase /\ asks' = asks
    BY DEF relayVars
  <1>3. names \in Asked /\ script \in Scripts
    BY DEF RelayInv
  <1>4. call = "running"
    BY DEF ReadSomeStep, TakeElement, TakeInstruction, Refuse, ReadMore, ReadFails
  <1>5. phase # "select"
    BY <1>4 DEF RelayInv
  <1>6. ASSUME phase = "args" PROVE Expects(ArgsOffers)'
    <2>1. PICK offers : offers = ArgsOffers
      OBVIOUS
    <2>2. offers \subseteq PlainLists
      BY <1>3, <2>1, ArgsOffersAre
    <2>3. Expects(offers)
      BY <1>6, <2>1 DEF RelayInv
    <2>4. Expects(offers)'
      BY <1>2, <2>2, <2>3, ExpectsOn
    <2>5. ArgsOffers' = offers
      BY <1>2, <2>1 DEF ArgsOffers
    <2> QED
      BY <2>4, <2>5 DEF Expects
  <1>7. ASSUME phase = "ready" PROVE Expects(ReadyOffers)'
    <2>1. PICK offers : offers = ReadyOffers
      OBVIOUS
    <2>2. offers \subseteq PlainLists
      BY <1>3, <2>1, ReadyOffersAre
    <2>3. Expects(offers)
      BY <1>7, <2>1 DEF RelayInv
    <2>4. Expects(offers)'
      BY <1>2, <2>2, <2>3, ExpectsOn
    <2>5. ReadyOffers' = offers
      BY <1>2, <2>1 DEF ReadyOffers
    <2> QED
      BY <2>4, <2>5 DEF Expects
  <1>8. ASSUME phase = "relay" PROVE asks' = "none" /\ Relays'
    <2>1. asks = "none" /\ Relays
      BY <1>8 DEF RelayInv
    <2>2. script \in PlainLists
      BY <1>3, ScriptPlain
    <2> QED
      BY <1>2, <2>1, <2>2, RelaysOn
  <1> QED
    BY <1>1, <1>2, <1>5, <1>6, <1>7, <1>8, KeptIs DEF RelayInv, Kept

(* guacd answers, or something else that listens there. *)
LEMMA GuacdAnswersKeeps ==
    ASSUME PlainRelay, RelayInv, GuacdAnswers
    PROVE  RelayInv'
  <1>1. /\ asks # "none" /\ asks' = "none"
        /\ UNCHANGED <<buffer, parseStart, call, got, failed, names, script, phase, told,
                       buf, messages, ws>>
    BY DEF GuacdAnswers
  <1>2. \/ asks = "args" /\ Sends(<< <<args>> \o names >>)
        \/ asks = "ready" /\ Sends(<< <<ready, connectionID>> >> \o script)
        \/ asks = "ready" /\ Sends(<< <<ready>> >>)
        \/ Sends(<< <<error>> >>)
        \/ wire' = wire \o <<"x">>
    BY DEF GuacdAnswers
  <1>3. Kept'
    BY <1>1, KeptIs, KeptStays
  <1>4. names \in Asked /\ script \in Scripts /\ phase # "select" /\ phase # "relay"
    BY <1>1 DEF RelayInv
  <1> DEFINE Answered(offers) ==
        (\E list \in offers : Sends(list)) \/ wire' = wire \o <<"x">>
  <1>5. ASSUME NEW offers, offers \subseteq PlainLists, <<>> \notin offers, Expects(offers),
               asks = phase => Answered(offers)
        PROVE  Expects(offers)'
    <2>1. CASE failed /\ call = "returns"
      BY <1>1, <2>1 DEF Expects
    <2>2. CASE ~failed /\ call = "running" /\ asks = phase /\ Holds(<<>>)
      <3>1. CASE \E list \in offers : Sends(list)
        <4>1. PICK list \in offers : Sends(list)
          BY <3>1
        <4>2. Holds(list)'
          BY <1>1, <1>5, <2>2, <4>1, SendsList
        <4>3. ~failed' /\ call' = "running" /\ asks' = "none"
          BY <1>1, <2>2
        <4> QED
          BY <4>2, <4>3 DEF Expects
      <3>2. CASE wire' = wire \o <<"x">>
        <4>1. HoldsNothingElse("x")'
          BY <1>1, <2>2, <3>2, SendsOneCharacter
        <4>2. ~failed' /\ call' = "running" /\ asks' = "none"
          BY <1>1, <2>2
        <4> QED
          BY <4>1, <4>2 DEF Expects
      <3> QED
        BY <1>5, <2>2, <3>1, <3>2
    <2> QED
      BY <1>1, <1>5, <2>1, <2>2 DEF Expects
  <1>6. ASSUME phase = "args" PROVE Expects(ArgsOffers)'
    <2>1. PICK offers : offers = ArgsOffers
      OBVIOUS
    <2>2. offers \subseteq PlainLists /\ <<>> \notin offers
      BY <1>4, <2>1, ArgsOffersAre
    <2>3. Expects(offers)
      BY <1>6, <2>1 DEF RelayInv
    <2>4. asks = phase => Answered(offers)
      <3>1. << <<args>> \o names >> \in offers /\ << <<error>> >> \in offers
        BY <2>1 DEF ArgsOffers
      <3> QED
        BY <1>2, <1>6, <3>1
    <2>5. Expects(offers)'
      <3> HIDE DEF Answered
      <3> QED
        BY <1>5, <2>2, <2>3, <2>4
    <2>6. ArgsOffers' = offers
      BY <1>1, <2>1 DEF ArgsOffers
    <2> QED
      BY <2>5, <2>6 DEF Expects
  <1>7. ASSUME phase = "ready" PROVE Expects(ReadyOffers)'
    <2>1. PICK offers : offers = ReadyOffers
      OBVIOUS
    <2>2. offers \subseteq PlainLists /\ <<>> \notin offers
      BY <1>4, <2>1, ReadyOffersAre
    <2>3. Expects(offers)
      BY <1>7, <2>1 DEF RelayInv
    <2>4. asks = phase => Answered(offers)
      <3>1. /\ << <<ready, connectionID>> >> \o script \in offers
            /\ << <<ready>> >> \in offers /\ << <<error>> >> \in offers
        BY <2>1 DEF ReadyOffers
      <3> QED
        BY <1>2, <1>7, <3>1
    <2>5. Expects(offers)'
      <3> HIDE DEF Answered
      <3> QED
        BY <1>5, <2>2, <2>3, <2>4
    <2>6. ReadyOffers' = offers
      BY <1>1, <2>1 DEF ReadyOffers
    <2> QED
      BY <2>5, <2>6 DEF Expects
  <1> QED
    BY <1>1, <1>3, <1>4, <1>6, <1>7, KeptIs DEF RelayInv, Kept

(* The first instruction of the handshake. *)
LEMMA SelectKeeps ==
    ASSUME PlainRelay, RelayInv, Select
    PROVE  RelayInv'
  <1>1. /\ phase = "select" /\ phase' = "args" /\ told' = << <<select, <<"r">> >> >>
        /\ asks' = "args" /\ call' = "running"
        /\ UNCHANGED <<wire, buffer, offset, parseStart, failed, calm,
                       names, script, buf, messages, ws, up, heard>>
    BY DEF Select, Calls
  <1>2. Holds(<<>>)' /\ ~failed'
    BY <1>1 DEF RelayInv, Holds, AtElement
  <1>3. Expects(ArgsOffers)'
    BY <1>1, <1>2 DEF Expects
  <1>4. Texts' = Texts
    BY <1>1 DEF Texts
  <1> QED
    BY <1>1, <1>3, <1>4 DEF RelayInv

(* The last of three. *)
LEMMA LastOfThree ==
    ASSUME NEW x, NEW y, NEW z
    PROVE  Last(<<x>> \o <<y, z>>) = z
  <1> DEFINE S == {x, y, z}
             v == <<x>>
             w == <<y, z>>
             t == v \o w
  <1>1. v \in Seq(S) /\ w \in Seq(S) /\ Len(v) = 1 /\ Len(w) = 2 /\ w[2] = z
    OBVIOUS
  <1> HIDE DEF v, w, S
  <1>2. t \in Seq(S) /\ IsJoined(t, v, w)
    BY <1>1, Joined
  <1>3. Len(t) = 3 /\ t[1 + 2] = z
    BY <1>1, <1>2 DEF IsJoined
  <1> QED
    BY <1>3 DEF Last, t, v, w

(* The instruction that was returned in the handshake. *)
LEMMA GotOffer ==
    ASSUME NEW offers, offers \subseteq PlainLists, <<>> \notin offers, Expects(offers),
           call = "returns", ~failed
    PROVE  \E list \in offers : /\ Parse(got) = list[1] /\ Holds(Tail(list)) /\ asks = "none"
                                /\ list[1] \in Seq(Seq(OneByte)) /\ list[1] # <<>>
  <1>1. PICK list \in offers : got = ProtocolText(list[1]) /\ Holds(Tail(list))
    BY DEF Expects
  <1>2. list[1] \in Seq(Seq(OneByte)) /\ list[1] # <<>> /\ Parse(ProtocolText(list[1])) = list[1]
    BY PlainFirst
  <1> QED
    BY <1>1, <1>2 DEF Expects

(* guacd is told a value for each name in what it sent, which is what it *)
(* asked for.                                                            *)
LEMMA ConfigureKeeps ==
    ASSUME PlainRelay, RelayInv, Configure
    PROVE  RelayInv'
  <1>1. /\ phase = "args" /\ Got(args) /\ phase' = "ready" /\ asks' = "ready" /\ call' = "running"
        /\ told' = told \o << <<config>>, <<connect>> \o ValuesOf(Tail(Parse(got))) >>
        /\ UNCHANGED <<wire, buffer, offset, parseStart, failed, calm,
                       names, script, buf, messages, ws, up, heard>>
    BY DEF Configure, Calls
  <1>2. PICK offers : offers = ArgsOffers
    OBVIOUS
  <1>3. offers \subseteq PlainLists /\ <<>> \notin offers
    BY <1>2, ArgsOffersAre DEF RelayInv
  <1>4. Expects(offers) /\ call = "returns" /\ ~failed
    BY <1>1, <1>2 DEF RelayInv, Got
  <1>5. PICK list \in offers : Parse(got) = list[1] /\ Holds(Tail(list))
    BY <1>3, <1>4, GotOffer
  <1>6. list[1][1] = args
    BY <1>1, <1>5 DEF Got
  <1>7. Tail(list) = <<>> /\ Tail(list[1]) = names
    BY <1>2, <1>6, ArgsOffersAre DEF RelayInv
  <1>8. Holds(<<>>)'
    BY <1>1, <1>5, <1>7 DEF Holds, AtElement
  <1>9. Last(told') = <<connect>> \o ValuesOf(names)'
    <2> DEFINE c == <<connect>> \o ValuesOf(names)
               s == <<select, <<"r">> >>
    <2>1. told' = <<s>> \o << <<config>>, c >>
      BY <1>1, <1>5, <1>7 DEF RelayInv
    <2>2. ValuesOf(names)' = ValuesOf(names)
      BY <1>1 DEF ValuesOf, ValueOf
    <2> HIDE DEF c, s
    <2>3. Last(told') = c
      BY <2>1, LastOfThree
    <2> QED
      BY <2>2, <2>3 DEF c
  <1>10. Expects(ReadyOffers)'
    BY <1>1, <1>4, <1>8 DEF Expects
  <1>11. Texts' = Texts
    BY <1>1 DEF Texts
  <1> QED
    BY <1>1, <1>9, <1>10, <1>11 DEF RelayInv

(* What came in one piece with "ready" is still in the buffer: nothing is *)
(* thrown away.                                                           *)
LEMMA StartRelayKeeps ==
    ASSUME PlainRelay, RelayInv, StartRelay
    PROVE  RelayInv'
  <1>1. /\ phase = "ready" /\ Got(ready) /\ Len(Parse(got)) > 1
        /\ phase' = "relay" /\ call' = "running"
        /\ UNCHANGED <<wire, buffer, parseStart, failed, calm,
                       names, script, asks, told, buf, messages, ws, heard>>
    BY DEF StartRelay, Calls
  <1>2. PICK offers : offers = ReadyOffers
    OBVIOUS
  <1>3. offers \subseteq PlainLists /\ <<>> \notin offers
    BY <1>2, ReadyOffersAre DEF RelayInv
  <1>4. Expects(offers) /\ call = "returns" /\ ~failed
    BY <1>1, <1>2 DEF RelayInv, Got
  <1>5. PICK list \in offers : Parse(got) = list[1] /\ Holds(Tail(list)) /\ asks = "none"
    BY <1>3, <1>4, GotOffer
  <1>6. list[1][1] = ready /\ Len(list[1]) > 1
    BY <1>1, <1>5 DEF Got
  <1>7. Tail(list) = script /\ script \in PlainLists
    BY <1>2, <1>6, ReadyOffersAre DEF RelayInv
  <1>8. After(0)' = script
    <2>1. After(0) = script
      <3>1. script \in Seq(Seq(Seq(OneByte))) /\ 0 + 1 = 1
        BY <1>7 DEF PlainLists
      <3> QED
        BY <3>1, SubSeqFull DEF After
    <2> QED
      BY <1>1, <2>1 DEF After
  <1>9. Holds(After(0))'
    BY <1>1, <1>5, <1>7, <1>8 DEF Holds, AtElement
  <1>10. Texts' = Texts /\ ValuesOf(names)' = ValuesOf(names)
    BY <1>1 DEF Texts, ValuesOf, ValueOf
  <1>11. messages = <<>> /\ buf = <<>>
    BY <1>1 DEF RelayInv
  <1>12. Delivered(0)'
    BY <1>1, <1>7, <1>10, <1>11, NothingDelivered DEF Delivered
  <1>13. Relays'
    <2>1. 0 \in 0..Len(script')
      BY <1>1, <1>7, TextsAre
    <2> QED
      BY <1>1, <1>4, <1>9, <1>11, <1>12, <2>1 DEF Relays
  <1> QED
    BY <1>1, <1>5, <1>10, <1>13 DEF RelayInv

(* The end of the request. *)
LEMMA EndKeeps ==
    ASSUME RelayInv, End
    PROVE  RelayInv'
  <1>1. Texts' = Texts
    BY DEF End, Texts
  <1> QED
    BY <1>1 DEF End, RelayInv

(* What ReadSome returned to the relay. *)
LEMMA GotText ==
    ASSUME PlainRelay, RelayInv, GotMessage
    PROVE  /\ script \in PlainLists /\ asks = "none" /\ call = "returns" /\ ~failed /\ ~Internal(got)
           /\ \E k \in 1..Len(script) :
                Holds(After(k)) /\ got = Texts[k] /\ got \in Seq(OneByte) /\ Delivered(k - 1)
  <1>1. phase = "relay" /\ call = "returns" /\ ~failed /\ asks = "none" /\ Relays
    BY DEF RelayInv, GotMessage
  <1>2. script \in PlainLists
    BY ScriptPlain DEF RelayInv
  <1>3. PICK k \in 1..Len(script) : Holds(After(k)) /\ got = Texts[k] /\ Delivered(k - 1)
    BY <1>1 DEF Relays
  <1>4. script[k] \in Seq(Seq(OneByte)) /\ script[k] # <<>> /\ script[k][1] # <<>>
    BY <1>2 DEF PlainLists, Plain
  <1>5. got = ProtocolText(script[k]) /\ got \in Seq(OneByte)
    <2>1. got = ProtocolText(script[k])
      BY <1>2, <1>3, TextsAre
    <2>2. ProtocolText(script[k]) \in Seq(OneByte)
      BY <1>4, ProtocolTextIs, OneByteHas
    <2> QED
      BY <2>1, <2>2
  <1>6. ~(got[1] = "0" /\ got[2] = ".")
    BY <1>4, <1>5, TextBegins
  <1>7. ~Internal(got)
    <2> SUFFICES ASSUME Len(got) > 1, SubSeq(got, 1, 2) = <<"0", ".">>
                 PROVE  FALSE
      BY DEF Internal
    <2> DEFINE r == SubSeq(got, 1, 2)
    <2>1. 1 \in Int /\ 2 \in Int /\ \A i \in 1..2 : got[i] \in OneByte
      BY <1>5
    <2>2. r = <<"0", ".">>
      OBVIOUS
    <2>3. \A i \in 1..(2-1+1) : r[i] = got[1+i-1]
      BY <2>1, SubSeqProperties
    <2> HIDE DEF r
    <2>4. r[1] = got[1] /\ r[2] = got[2]
      BY <2>3
    <2>5. r[1] = "0" /\ r[2] = "."
      BY <2>2
    <2> QED
      BY <1>6, <2>4, <2>5
  <1> QED
    BY <1>1, <1>2, <1>3, <1>5, <1>7

(* An instruction is kept back: it is the next one, and more is in the *)
(* buffer.                                                             *)
LEMMA KeepBackKeeps ==
    ASSUME PlainRelay, RelayInv, KeepBack
    PROVE  RelayInv'
  <1>1. /\ GotMessage /\ call' = "running"
        /\ buf' = (IF Internal(got) THEN buf ELSE Append(buf, got))
        /\ Internal(got) \/ ~Due(buf')
        /\ UNCHANGED <<wire, buffer, offset, parseStart, failed, calm,
                       names, script, asks, phase, told, messages, ws, up, heard>>
    BY DEF KeepBack, Calls
  <1>2. script \in PlainLists /\ asks = "none" /\ ~failed /\ ~Internal(got)
    BY <1>1, GotText
  <1>3. PICK k \in 1..Len(script) :
          Holds(After(k)) /\ got = Texts[k] /\ got \in Seq(OneByte) /\ Delivered(k - 1)
    BY <1>1, GotText
  <1>4. buf' = Append(buf, got) /\ Available
    BY <1>1, <1>2 DEF Due
  <1>5. buf \in Seq(Seq(OneByte)) /\ messages \in Seq(Seq(Seq(OneByte))) /\ phase = "relay"
    BY <1>1 DEF RelayInv, GotMessage
  <1>6. buf' \in Seq(Seq(OneByte))
    BY <1>3, <1>4, <1>5, AppendProperties
  <1>7. Texts' = Texts /\ ValuesOf(names)' = ValuesOf(names) /\ After(k)' = After(k)
    BY <1>1 DEF Texts, ValuesOf, ValueOf, After
  <1>8. Delivered(k)'
    <2> SUFFICES ASSUME ws = "open" PROVE FlattenSeq(messages) \o Append(buf, got) = SubSeq(Texts, 1, k)
      BY <1>1, <1>4, <1>7 DEF Delivered
    <2>1. FlattenSeq(messages) \o buf = SubSeq(Texts, 1, k - 1)
      BY <1>3 DEF Delivered
    <2>2. FlattenSeq(messages) \in Seq(Seq(OneByte))
      BY <1>5, FlattenType
    <2>3. Texts \in Seq(Seq(OneByte)) /\ k \in 1..Len(Texts)
      BY <1>2, TextsAre
    <2> QED
      BY <1>3, <1>5, <2>1, <2>2, <2>3, DeliveredOneMore
  <1>9. Holds(After(k))'
    BY <1>1, <1>3, <1>7 DEF Holds, AtElement
  <1>10. Relays'
    <2>1. k \in 0..Len(script') /\ Available'
      <3>1. Len(script) \in Nat
        BY <1>2, TextsAre
      <3> QED
        BY <1>1, <1>4, <3>1 DEF Available
    <2> QED
      BY <1>1, <1>2, <1>8, <1>9, <2>1 DEF Relays
  <1> QED
    BY <1>1, <1>2, <1>5, <1>6, <1>7, <1>10 DEF RelayInv

(* A message is sent: the instructions in hand and the next one. *)
LEMMA ForwardKeeps ==
    ASSUME PlainRelay, RelayInv, Forward
    PROVE  RelayInv'
  <1> DEFINE texts == Append(buf, got)
  <1>1. /\ GotMessage /\ call' = "running" /\ buf' = <<>>
        /\ \/ ws = "open" /\ messages' = Append(messages, texts) /\ ws' = ws
           \/ ws = "gone" /\ ws' = "reset" /\ messages' = messages
        /\ UNCHANGED <<wire, buffer, offset, parseStart, failed, calm,
                       names, script, asks, phase, told, up, heard>>
    BY DEF Forward, Calls
  <1>2. script \in PlainLists /\ asks = "none" /\ ~failed
    BY <1>1, GotText
  <1>3. PICK k \in 1..Len(script) :
          Holds(After(k)) /\ got = Texts[k] /\ got \in Seq(OneByte) /\ Delivered(k - 1)
    BY <1>1, GotText
  <1>4. buf \in Seq(Seq(OneByte)) /\ messages \in Seq(Seq(Seq(OneByte))) /\ phase = "relay"
    BY <1>1 DEF RelayInv, GotMessage
  <1>5. texts \in Seq(Seq(OneByte))
    BY <1>3, <1>4, AppendProperties
  <1>6. Texts' = Texts /\ ValuesOf(names)' = ValuesOf(names) /\ After(k)' = After(k)
    BY <1>1 DEF Texts, ValuesOf, ValueOf, After
  <1>7. Texts \in Seq(Seq(OneByte)) /\ k \in 1..Len(Texts) /\ k \in 0..Len(Texts)
        /\ k \in 0..Len(script)
    BY <1>2, TextsAre
  <1>8. messages' \in Seq(Seq(Seq(OneByte)))
    <2> HIDE DEF texts
    <2>1. Append(messages, texts) \in Seq(Seq(Seq(OneByte)))
      <3> DEFINE S == Seq(Seq(OneByte))
      <3>1. messages \in Seq(S) /\ texts \in S
        BY <1>4, <1>5
      <3> HIDE DEF S
      <3>2. Append(messages, texts) \in Seq(S)
        BY <3>1, AppendProperties
      <3> QED
        BY <3>2 DEF S
    <2>2. CASE messages' = Append(messages, texts)
      BY <2>1, <2>2
    <2>3. CASE messages' = messages
      BY <1>4, <2>3
    <2> QED
      BY <1>1, <2>2, <2>3
  <1>9. ASSUME ws = "open"
        PROVE  FlattenSeq(messages') = SubSeq(Texts, 1, k)
    <2>1. FlattenSeq(messages) \o buf = SubSeq(Texts, 1, k - 1)
      BY <1>3, <1>9 DEF Delivered
    <2>2. FlattenSeq(messages) \in Seq(Seq(OneByte))
      BY <1>4, FlattenType
    <2>3. FlattenSeq(messages) \o texts = SubSeq(Texts, 1, k)
      BY <1>3, <1>4, <1>7, <2>1, <2>2, DeliveredOneMore
    <2> HIDE DEF texts
    <2>4. messages' = Append(messages, texts)
      BY <1>1, <1>9
    <2>5. FlattenSeq(Append(messages, texts)) = FlattenSeq(messages) \o texts
      BY <1>4, <1>5, FlattenAppend
    <2> QED
      BY <2>3, <2>4, <2>5
  <1>10. Delivered(k)'
    <2> SUFFICES ASSUME ws' = "open" PROVE FlattenSeq(messages') \o <<>> = SubSeq(Texts, 1, k)
      BY <1>1, <1>6 DEF Delivered
    <2>1. FlattenSeq(messages') = SubSeq(Texts, 1, k)
      BY <1>1, <1>9
    <2> DEFINE m == messages'
    <2>2. FlattenSeq(m) \in Seq(Seq(OneByte))
      <3>1. m \in Seq(Seq(Seq(OneByte)))
        BY <1>8
      <3> HIDE DEF m
      <3> QED
        BY <3>1, FlattenType
    <2>3. FlattenSeq(m) \o <<>> = FlattenSeq(m)
      <3> HIDE DEF m
      <3> QED
        BY <2>2, ConcatEmptySeq
    <2> QED
      BY <2>1, <2>3
  <1>11. IsPrefix(FlattenSeq(messages'), Texts)
    <2>1. CASE ws = "open"
      BY <1>7, <1>9, <2>1, PrefixOf
    <2>2. CASE ws # "open"
      BY <1>1, <2>2 DEF RelayInv
    <2> QED
      BY <2>1, <2>2
  <1>12. Holds(After(k))'
    BY <1>1, <1>3, <1>6 DEF Holds, AtElement
  <1>13. Relays'
    BY <1>1, <1>2, <1>7, <1>10, <1>12 DEF Relays
  <1>14. <<>> \in Seq(Seq(OneByte))
    OBVIOUS
  <1> QED
    BY <1>1, <1>2, <1>4, <1>6, <1>8, <1>11, <1>13, <1>14 DEF RelayInv

(* The client and the goroutine of the other direction. *)
LEMMA ClientKeeps ==
    ASSUME RelayInv, ClientGoes \/ Upstream \/ UpstreamEnds
    PROVE  RelayInv'
  <1>1. UNCHANGED <<streamVars, names, script, asks, phase, told, buf, messages>>
        /\ (ws' = ws \/ (ws = "open" /\ ws' = "gone"))
    BY DEF ClientGoes, Upstream, UpstreamEnds
  <1>2. UNCHANGED <<wire, buffer, offset, parseStart, call, got, failed, calm>>
    BY <1>1 DEF streamVars
  <1>3. Texts' = Texts /\ ValuesOf(names)' = ValuesOf(names) /\ (\A k : After(k)' = After(k))
        /\ ArgsOffers' = ArgsOffers /\ ReadyOffers' = ReadyOffers
    BY <1>1 DEF Texts, ValuesOf, ValueOf, After, ArgsOffers, ReadyOffers
  <1>4. \A list : Holds(list)' <=> Holds(list)
    BY <1>2 DEF Holds, AtElement
  <1>5. \A k : Delivered(k) => Delivered(k)'
    BY <1>1, <1>3 DEF Delivered
  <1>6. Relays => Relays'
    BY <1>1, <1>2, <1>3, <1>5 DEF Relays, Holds, AtElement, Available
  <1>7. /\ Expects(ArgsOffers) => Expects(ArgsOffers)'
        /\ Expects(ReadyOffers) => Expects(ReadyOffers)'
    BY <1>1, <1>2, <1>3 DEF Expects, Holds, AtElement, HoldsNothingElse
  <1>8. phase = "select" => Holds(<<>>)'
    BY <1>4 DEF RelayInv
  <1>9. phase # "ended" \/ ws' = "closed"
    BY <1>1 DEF RelayInv
  <1> QED
    BY <1>1, <1>2, <1>3, <1>6, <1>7, <1>8, <1>9 DEF RelayInv

(* Every step keeps RelayInv. *)
LEMMA RelayInvNext ==
    ASSUME PlainRelay, RelayInv, [RelayNext]_allVars
    PROVE  RelayInv'
  <1>1. CASE ReadSomeStep /\ UNCHANGED relayVars
    BY <1>1, ReadSomeKeeps
  <1>2. CASE GuacdAnswers
    BY <1>2, GuacdAnswersKeeps
  <1>3. CASE Select
    BY <1>3, SelectKeeps
  <1>4. CASE Configure
    BY <1>4, ConfigureKeeps
  <1>5. CASE StartRelay
    BY <1>5, StartRelayKeeps
  <1>6. CASE HandshakeFails
    BY <1>6, EndKeeps DEF HandshakeFails
  <1>7. CASE KeepBack
    BY <1>7, KeepBackKeeps
  <1>8. CASE Forward
    BY <1>8, ForwardKeeps
  <1>9. CASE RelayFails
    BY <1>9, EndKeeps DEF RelayFails
  <1>10. CASE ClientGoes \/ Upstream \/ UpstreamEnds
    BY <1>10, ClientKeeps
  <1>11. CASE UNCHANGED allVars
    <2>1. UNCHANGED <<streamVars, names, script, asks, phase, told, buf, messages, ws, up, heard>>
      BY <1>11 DEF allVars, relayVars
    <2>2. UNCHANGED <<wire, buffer, offset, parseStart, call, got, failed, calm>>
      BY <2>1 DEF streamVars
    <2> QED
      BY <2>1, <2>2 DEF RelayInv, Relays, Expects, Holds, AtElement, HoldsNothingElse,
         Available, After, Delivered, Texts, ValuesOf, ValueOf, ArgsOffers, ReadyOffers
  <1> QED
    BY <1>1, <1>2, <1>3, <1>4, <1>5, <1>6, <1>7, <1>8, <1>9, <1>10, <1>11
       DEF RelayNext, Handshake, GuacdToWs

(* What RelayInv says of a state: the client's instructions are the *)
(* beginning of the script.                                         *)
LEMMA RelayedSoFar ==
    ASSUME PlainRelay, RelayInv
    PROVE  RelayedInOrder
  <1>1. script \in PlainLists /\ buf \in Seq(Seq(OneByte)) /\ messages \in Seq(Seq(Seq(OneByte)))
    BY ScriptPlain DEF RelayInv
  <1>2. Texts \in Seq(Seq(OneByte)) /\ Len(Texts) = Len(script) /\ Len(script) \in Nat
    BY <1>1, TextsAre
  <1> DEFINE m == FlattenSeq(messages)
  <1>3. m \in Seq(Seq(OneByte)) /\ IsPrefix(m, Texts)
    BY <1>1, FlattenType DEF RelayInv
  <1> HIDE DEF m
  <1>4. m \o <<>> = m
    BY <1>3, ConcatEmptySeq
  <1>5. CASE ws # "open" \/ buf = <<>>
    BY <1>3, <1>4, <1>5 DEF RelayedInOrder, m
  <1>6. CASE ws = "open" /\ buf # <<>>
    <2>1. phase = "relay" /\ Relays
      BY <1>6 DEF RelayInv
    <2>2. PICK k \in 0..Len(script) : Delivered(k)
      <3>1. \A k \in 1..Len(script) : k - 1 \in 0..Len(script)
        BY <1>2
      <3> QED
        BY <2>1, <3>1 DEF Relays
    <2>3. m \o buf = SubSeq(Texts, 1, k) /\ k \in 0..Len(Texts)
      BY <1>2, <1>6, <2>2 DEF Delivered, m
    <2>4. IsPrefix(m \o buf, Texts)
      BY <1>2, <2>3, PrefixOf
    <2> QED
      BY <1>6, <2>4 DEF RelayedInOrder, m
  <1> QED
    BY <1>5, <1>6

(* guacd reads the values it was told, as many as it asked for. *)
LEMMA ConfiguredIt ==
    ASSUME PlainRelay, RelayInv
    PROVE  Configured
  <1> SUFFICES ASSUME phase = "relay"
               PROVE  Parse(String(Last(told))) = <<connect>> \o ValuesOf(names)
    BY DEF Configured, ValuesOf
  <1> DEFINE c == <<connect>> \o ValuesOf(names)
  <1>1. Last(told) = c /\ c \in Seq(Seq(OneByte))
    BY DEF RelayInv, PlainRelay
  <1>2. c # <<>>
    <2>1. names \in Seq(Seq(Characters))
      BY RelayAssumption DEF RelayInv
    <2> DEFINE v == ValuesOf(names)
               S == {connect} \cup {ValueOf(n) : n \in Seq(Characters)}
    <2>2. v \in Seq(S)
      BY <2>1 DEF ValuesOf
    <2>3. connect \in S
      OBVIOUS
    <2> HIDE DEF v, S
    <2> QED
      BY <2>2, <2>3, TailOfCons DEF v
  <1> HIDE DEF c
  <1>3. String(c) = ProtocolText(c) /\ Parse(ProtocolText(c)) = c
    BY <1>1, <1>2, StringIsProtocolText, ParseText
  <1> QED
    BY <1>1, <1>3 DEF c

(* Instructions in hand mean that there is more in the buffer. *)
LEMMA HoldsNothingBack ==
    ASSUME RelayInv
    PROVE  NothingHeldBack
  BY DEF RelayInv, Relays, NothingHeldBack

(* The inductive invariant. *)
LEMMA RelayAlways ==
    ASSUME PlainRelay
    PROVE  RelaySpec => []RelayInv
  <1>1. RelayInit => RelayInv
    BY RelayInvInit
  <1>2. RelayInv /\ [RelayNext]_allVars => RelayInv'
    BY RelayInvNext
  <1> QED
    BY <1>1, <1>2, PTL DEF RelaySpec

(* The client receives what guacd sent, instruction by instruction and  *)
(* without a gap, however long the script, however the reads cut it and *)
(* for any size of the buffer: as long as it is plain.                  *)
THEOREM MessagesAreInOrder ==
    ASSUME PlainRelay
    PROVE  RelaySpec => []RelayedInOrder
  <1>1. RelayInv => RelayedInOrder
    BY RelayedSoFar
  <1> QED
    BY <1>1, RelayAlways, PTL

(* A session starts only with a guacd that was told a value for each *)
(* parameter it named, in its order, for any parameters of one-byte  *)
(* characters.                                                       *)
THEOREM RelaysAreConfigured ==
    ASSUME PlainRelay
    PROVE  RelaySpec => []Configured
  <1>1. RelayInv => Configured
    BY ConfiguredIt
  <1> QED
    BY <1>1, RelayAlways, PTL

(* guacdToWs (ws_server.go:178) waits for guacd with instructions in hand *)
(* only if the rest of another one is on its way.                         *)
THEOREM NothingIsHeldBack ==
    ASSUME PlainRelay
    PROVE  RelaySpec => []NothingHeldBack
  <1>1. RelayInv => NothingHeldBack
    BY HoldsNothingBack
  <1> QED
    BY <1>1, RelayAlways, PTL

(* While nothing breaks the client is there, and the stream has not *)
(* failed.                                                          *)
CalmInv ==
    /\ calm /\ phase = "relay" => ~failed
    /\ calm /\ phase # "ended" => ws = "open"

(* Every step keeps it: plain instructions are not refused. *)
LEMMA CalmNext ==
    ASSUME PlainRelay, RelayInv, CalmInv, [RelayNext]_allVars
    PROVE  CalmInv'
  <1>1. CASE ReadSomeStep /\ UNCHANGED relayVars
    <2>1. calm' = calm /\ phase' = phase /\ ws' = ws
      BY <1>1 DEF ReadSomeStep, TakeElement, TakeInstruction, Refuse, ReadMore, ReadFails, relayVars
    <2>2. ASSUME calm, phase = "relay"
          PROVE  ~failed'
      <3>1. ~failed
        BY <2>2 DEF CalmInv
      <3>2. call = "running" /\ ~ReadFails
        BY <1>1, <2>2 DEF ReadSomeStep, TakeElement, TakeInstruction, Refuse, ReadMore, ReadFails
      <3>3. script \in PlainLists
        BY ScriptPlain DEF RelayInv
      <3>4. PICK k \in 0..Len(script) : Holds(After(k))
        BY <2>2, <3>1, <3>2 DEF RelayInv, Relays
      <3>5. After(k) \in PlainLists
        BY <3>3, AfterIs
      <3>6. ~Refuse
        BY <3>4, <3>5, NothingRefused
      <3> QED
        BY <1>1, <3>1, <3>2, <3>6 DEF ReadSomeStep, TakeElement, TakeInstruction, ReadMore
    <2> QED
      BY <2>1, <2>2 DEF CalmInv
  <1>2. CASE GuacdAnswers \/ Select \/ Configure \/ StartRelay \/ KeepBack \/ Upstream \/ UpstreamEnds
    <2>1. \/ calm' = calm /\ failed' = failed /\ ws' = ws /\ phase # "ended"
          \/ UNCHANGED <<calm, failed, ws, phase>>
      BY <1>2 DEF GuacdAnswers, Select, Configure, StartRelay, KeepBack, GotMessage, Upstream,
                  UpstreamEnds, streamVars
    <2>2. phase' = "relay" => ~failed \/ phase = "relay"
      BY <1>2 DEF GuacdAnswers, Select, Configure, StartRelay, KeepBack, GotMessage, Upstream,
                  UpstreamEnds, Got
    <2> QED
      BY <2>1, <2>2 DEF CalmInv
  <1>3. CASE Forward
    BY <1>3 DEF Forward, GotMessage, CalmInv
  <1>4. CASE HandshakeFails \/ RelayFails
    BY <1>4 DEF HandshakeFails, RelayFails, End, CalmInv
  <1>5. CASE ClientGoes
    BY <1>5 DEF ClientGoes, streamVars, CalmInv
  <1>6. CASE UNCHANGED allVars
    BY <1>6 DEF allVars, relayVars, streamVars, CalmInv
  <1> QED
    BY <1>1, <1>2, <1>3, <1>4, <1>5, <1>6 DEF RelayNext, Handshake, GuacdToWs

(* ReadSome has returned the instruction behind those delivered and in *)
(* hand.                                                               *)
LEMMA ReturnsNext ==
    ASSUME PlainRelay, RelayInv, CalmInv
    PROVE  ReturnsNextMessage
  <1> SUFFICES ASSUME calm, phase = "relay", call = "returns"
               PROVE  ~failed /\ got = Texts[Len(FlattenSeq(messages)) + Len(buf) + 1]
    BY DEF ReturnsNextMessage
  <1>1. ~failed /\ ws = "open" /\ Relays
    BY DEF CalmInv, RelayInv
  <1>2. PICK k \in 1..Len(script) : got = Texts[k] /\ Delivered(k - 1)
    BY <1>1 DEF Relays
  <1>3. script \in PlainLists /\ buf \in Seq(Seq(OneByte)) /\ messages \in Seq(Seq(Seq(OneByte)))
    BY ScriptPlain DEF RelayInv
  <1>4. Texts \in Seq(Seq(OneByte)) /\ Len(Texts) = Len(script) /\ Len(script) \in Nat
    BY <1>3, TextsAre
  <1> DEFINE m == FlattenSeq(messages)
             r == SubSeq(Texts, 1, k - 1)
             n == k - 1
  <1>5. m \in Seq(Seq(OneByte)) /\ m \o buf = r
    BY <1>1, <1>2, <1>3, FlattenType DEF Delivered
  <1>6. Len(r) = k - 1
    <2>1. 1 \in Int /\ n \in Int /\ n >= 0 /\ \A i \in 1..n : i \in 1..Len(Texts)
      BY <1>4
    <2>2. \A i \in 1..n : Texts[i] \in Seq(OneByte)
      BY <1>4, <2>1, ElementOfSeq
    <2> HIDE DEF n
    <2>3. Len(SubSeq(Texts, 1, n)) = IF 1 <= n THEN n - 1 + 1 ELSE 0
      BY <2>1, <2>2, SubSeqProperties
    <2>4. Len(SubSeq(Texts, 1, n)) = n
      BY <2>1, <2>3
    <2> QED
      BY <2>4 DEF n
  <1> HIDE DEF m, r, n
  <1>7. Len(m) + Len(buf) = k - 1
    BY <1>3, <1>5, <1>6, Joined DEF IsJoined
  <1>8. Len(m) + Len(buf) + 1 = k
    BY <1>7
  <1> QED
    BY <1>1, <1>2, <1>8 DEF m

(* tunnel.go:21, for what is plain: ReadSome returns the next complete *)
(* message, and no error while no connection breaks. (For other        *)
(* characters this is false: the run WholeMessages.)                   *)
THEOREM NextMessageIsReturned ==
    ASSUME PlainRelay
    PROVE  RelaySpec => []ReturnsNextMessage
  <1>1. RelayInit => CalmInv
    BY DEF RelayInit, CalmInv
  <1>2. RelayInv /\ CalmInv /\ [RelayNext]_allVars => CalmInv'
    BY CalmNext
  <1>3. RelayInv /\ CalmInv => ReturnsNextMessage
    BY ReturnsNext
  <1> QED
    BY <1>1, <1>2, <1>3, RelayAlways, PTL DEF RelaySpec

-----------------------------------------------------------------------------
(***************************************************************************)
(* The types of the relay, for any guacd.                                  *)
(***************************************************************************)
(* What guacd sends are characters. *)
LEMMA SentType ==
    ASSUME NEW list \in Seq(Seq(Seq(Characters))), wire \in Seq(Characters), Sends(list)
    PROVE  wire' \in Seq(Characters)
  <1> DEFINE s == [i \in DOMAIN list |-> Utf8(ProtocolText(list[i]))]
             n == Len(list)
             U == Seq(Characters)
  <1>1. n \in Nat /\ DOMAIN list = 1..n /\ \A i \in 1..n : list[i] \in Seq(Seq(Characters))
    BY LenProperties, ElementOfSeq
  <1>2. Digits \subseteq Characters /\ {".", ",", ";"} \subseteq Characters
    BY OneByteHas DEF Characters
  <1>3. \A i \in 1..n : Utf8(ProtocolText(list[i])) \in U
    BY <1>1, <1>2, ProtocolTextIs, Utf8Type
  <1> HIDE DEF n, U
  <1>4. s \in [1..n -> U]
    BY <1>1, <1>3
  <1> HIDE DEF s
  <1>5. s \in Seq(Seq(Characters))
    BY <1>1, <1>4, IsSequence DEF U
  <1>6. FlattenSeq(s) \in Seq(Characters)
    BY <1>5, FlattenType
  <1> QED
    BY <1>6 DEF Sends, s

(* RelayTypeOK, with the type of what bounds the client. *)
RelayTyped == RelayTypeOK /\ heard \in Seq(ClientSends)

(* What guacd sends are characters. *)
LEMMA AnswersType ==
    ASSUME RelayTypeOK, GuacdAnswers
    PROVE  wire' \in Seq(Characters)
  <1> DEFINE U == Seq(Characters)
             V == Seq(Seq(Characters))
  <1>1. wire \in Seq(Characters) /\ names \in V /\ script \in Seq(V)
    BY RelayAssumption DEF RelayTypeOK, StreamTypeOK
  <1>2. args \in U /\ ready \in U /\ error \in U /\ connectionID \in U
    BY OpcodesType
  <1>3. <<args>> \in V /\ <<ready, connectionID>> \in V /\ <<ready>> \in V /\ <<error>> \in V
    BY <1>2
  <1> HIDE DEF U
  <1>4. <<args>> \o names \in V
    BY <1>1, <1>3, ConcatProperties
  <1> HIDE DEF V
  <1>5. /\ << <<args>> \o names >> \in Seq(V) /\ << <<ready, connectionID>> >> \in Seq(V)
        /\ << <<ready>> >> \in Seq(V) /\ << <<error>> >> \in Seq(V)
    BY <1>3, <1>4
  <1>6. << <<ready, connectionID>> >> \o script \in Seq(V)
    BY <1>1, <1>5, ConcatProperties
  <1>7. ASSUME NEW list \in Seq(V), Sends(list) PROVE wire' \in Seq(Characters)
    BY <1>1, <1>7, SentType DEF V
  <1>8. CASE wire' = wire \o <<"x">>
    <2>1. "x" \in Characters
      BY OneByteCharacters
    <2>2. <<"x">> \in Seq(Characters)
      BY <2>1
    <2> QED
      BY <1>1, <1>8, <2>2, ConcatProperties
  <1>9. \/ Sends(<< <<args>> \o names >>)
        \/ Sends(<< <<ready, connectionID>> >> \o script)
        \/ Sends(<< <<ready>> >>)
        \/ Sends(<< <<error>> >>)
        \/ wire' = wire \o <<"x">>
    BY DEF GuacdAnswers
  <1>10. PICK list : (list \in Seq(V) /\ Sends(list)) \/ wire' = wire \o <<"x">>
    <2> HIDE DEF U, V
    <2> DEFINE a == << <<args>> \o names >>
               r == << <<ready, connectionID>> >> \o script
               o == << <<ready>> >>
               e == << <<error>> >>
    <2>1. a \in Seq(V) /\ r \in Seq(V) /\ o \in Seq(V) /\ e \in Seq(V)
      BY <1>5, <1>6
    <2>2. Sends(a) \/ Sends(r) \/ Sends(o) \/ Sends(e) \/ wire' = wire \o <<"x">>
      BY <1>9
    <2> HIDE DEF a, r, o, e
    <2> QED
      BY <2>1, <2>2
  <1> QED
    BY <1>7, <1>8, <1>10

(* The steps keep the types. *)
LEMMA RelayTypedNext ==
    ASSUME RelayTyped, [RelayNext]_allVars
    PROVE  RelayTyped'
  <1> USE DEF RelayTyped
  <1>1. CASE ReadSomeStep /\ UNCHANGED relayVars
    <2>1. StreamTypeOK'
      BY <1>1, ReadSomeType DEF RelayTypeOK
    <2> QED
      BY <1>1, <2>1 DEF RelayTypeOK, relayVars
  <1>2. CASE GuacdAnswers
    <2>1. wire' \in Seq(Characters)
      BY <1>2, AnswersType
    <2> QED
      BY <1>2, <2>1 DEF GuacdAnswers, RelayTypeOK, StreamTypeOK, Capacity
  <1>3. CASE Select
    BY <1>3 DEF Select, Calls, RelayTypeOK, StreamTypeOK, Capacity
  <1>4. CASE Configure
    BY <1>4 DEF Configure, Calls, RelayTypeOK, StreamTypeOK, Capacity
  <1>5. CASE StartRelay
    <2>1. 0 + Len(buffer) <= Capacity
      <3> DEFINE b == Len(buffer)
      <3>1. b \in Nat /\ offset \in Nat /\ offset + b <= Capacity /\ Capacity \in Nat
        BY LenProperties, MessageAssumption DEF RelayTypeOK, StreamTypeOK, Capacity
      <3> HIDE DEF b
      <3>2. 0 + b <= Capacity
        BY <3>1
      <3> QED
        BY <3>2 DEF b
    <2> QED
      BY <1>5, <2>1 DEF StartRelay, Calls, RelayTypeOK, StreamTypeOK, Capacity
  <1>6. CASE HandshakeFails \/ RelayFails
    BY <1>6 DEF HandshakeFails, RelayFails, End, RelayTypeOK, StreamTypeOK, Capacity
  <1>7. CASE KeepBack
    BY <1>7 DEF KeepBack, Calls, RelayTypeOK, StreamTypeOK, Capacity
  <1>8. CASE Forward
    BY <1>8 DEF Forward, Calls, RelayTypeOK, StreamTypeOK, Capacity
  <1>9. CASE ClientGoes
    BY <1>9 DEF ClientGoes, streamVars, RelayTypeOK, StreamTypeOK, Capacity
  <1>10. CASE Upstream
    <2>1. heard' \in Seq(ClientSends) /\ Len(heard') <= MaxHeard
      <3>1. Len(heard) \in Nat /\ Len(heard) < MaxHeard /\ MaxHeard \in Nat
        BY <1>10, RelayAssumption, LenProperties DEF Upstream
      <3>2. PICK m \in ClientSends : heard' = heard \/ heard' = Append(heard, m)
        BY <1>10 DEF Upstream
      <3>3. Append(heard, m) \in Seq(ClientSends) /\ Len(Append(heard, m)) = Len(heard) + 1
        BY AppendProperties
      <3> QED
        BY <3>1, <3>2, <3>3 DEF RelayTypeOK
    <2> QED
      BY <1>10, <2>1 DEF Upstream, streamVars, RelayTypeOK, StreamTypeOK, Capacity
  <1>11. CASE UpstreamEnds
    BY <1>11 DEF UpstreamEnds, streamVars, RelayTypeOK, StreamTypeOK, Capacity
  <1>12. CASE UNCHANGED allVars
    BY <1>12 DEF allVars, relayVars, streamVars, RelayTypeOK, StreamTypeOK, Capacity
  <1> QED
    BY <1>1, <1>2, <1>3, <1>4, <1>5, <1>6, <1>7, <1>8, <1>9, <1>10, <1>11, <1>12
       DEF RelayNext, Handshake, GuacdToWs

(* Initially. *)
LEMMA RelayTypedInit ==
    ASSUME RelayInit
    PROVE  RelayTyped
  <1>1. 0 <= Capacity /\ Len(<<>>) = 0
    BY MessageAssumption DEF Capacity
  <1>2. <<>> \in Seq(Characters) /\ <<>> \in Seq(ClientSends) /\ 0 \in Nat /\ 0 + 0 <= Capacity
    BY MessageAssumption DEF Capacity
  <1>3. StreamTypeOK
    <2>1. buffer = <<>> /\ wire = <<>> /\ got = <<>> /\ offset = 0 /\ parseStart = 0
      BY DEF RelayInit, StreamInit
    <2>2. Len(buffer) = 0 /\ buffer \in Seq(Characters)
      BY <1>1, <1>2, <2>1
    <2>3. offset + Len(buffer) <= Capacity /\ parseStart \in 0..Len(buffer) /\ offset \in Nat
      BY <1>2, <2>1, <2>2
    <2>4. wire \in Seq(Characters) /\ got \in Seq(Characters)
      BY <1>2, <2>1
    <2>5. call = "none" /\ failed = FALSE /\ calm \in BOOLEAN
      BY DEF RelayInit, StreamInit
    <2> QED
      BY <2>2, <2>3, <2>4, <2>5 DEF StreamTypeOK
  <1>4. Len(heard) <= MaxHeard /\ heard \in Seq(ClientSends)
    BY <1>1, <1>2, RelayAssumption DEF RelayInit
  <1> QED
    BY <1>3, <1>4 DEF RelayInit, RelayTyped, RelayTypeOK

(* Every variable of the stream and the relay keeps its type, whatever *)
(* guacd sends and the client does: no read and no element goes beyond *)
(* the buffer or its array.                                            *)
THEOREM RelayTypes == RelaySpec => []RelayTypeOK
  <1>1. RelayInit => RelayTyped
    BY RelayTypedInit
  <1>2. RelayTyped /\ [RelayNext]_allVars => RelayTyped'
    BY RelayTypedNext
  <1>3. RelayTyped => RelayTypeOK
    BY DEF RelayTyped
  <1> QED
    BY <1>1, <1>2, <1>3, PTL DEF RelaySpec

-----------------------------------------------------------------------------
(***************************************************************************)
(* Composition. A step of a transport leaves the variables of the others   *)
(* alone, and they are at rest in one of their own initial states: the     *)
(* composition implements each of its parts.                               *)
(***************************************************************************)
LEMMA TransportInitially ==
    TransportInit => HttpInit /\ RelayInit /\ UploadInit
  BY Zenon DEF TransportInit

LEMMA TransportSteps ==
    [TransportNext]_transportVars =>
      [HttpNext]_httpVars /\ [RelayNext]_allVars /\ [UploadNext]_uploadVars
  <1> SUFFICES ASSUME [TransportNext]_transportVars
               PROVE  /\ [HttpNext]_httpVars /\ [RelayNext]_allVars
                      /\ [UploadNext]_uploadVars
    OBVIOUS
  <1>1. CASE InHttp(HttpNext)
    BY <1>1, Zenon DEF InHttp
  <1>2. CASE InRelay(RelayNext)
    BY <1>2, Zenon DEF InRelay
  <1>3. CASE InUpload(UploadNext)
    BY <1>3, Zenon DEF InUpload
  <1>4. CASE UNCHANGED transportVars
    BY <1>4, Zenon DEF transportVars
  <1> QED
    BY <1>1, <1>2, <1>3, <1>4, Zenon DEF TransportNext

(* Each transport behaves in the composition as it does alone. *)
THEOREM TransportsImplemented ==
    TransportSpec => HttpSpec /\ RelaySpec /\ UploadSpec
  BY TransportInitially, TransportSteps, PTL
  DEF TransportSpec, HttpSpec, RelaySpec, UploadSpec

(* So what is proved of one holds of it in every behaviour of the whole. *)
THEOREM TransportsCorrect ==
    TransportSpec =>
      /\ LocksImplemented
      /\ [](/\ HttpTypeOK /\ QueuesSeen /\ ClosedNotRegistered /\ UnusedRemoved
            /\ AnswersComplete /\ SuccessIsTrue /\ AnsweredInTime)
  BY TransportsImplemented, HttpTypeCorrect, QueuesAreSeen,
     ClosedAreNotRegistered, UnusedAreRemoved, LocksAreImplemented,
     AnswersAreComplete, SuccessesAreTrue, AnswersAreInTime, PTL

(* The types of the relay and of uploads, in the composition. *)
THEOREM StreamsAndFilesTypes == TransportSpec => []StreamsAndFilesTypeOK
  <1>1. UploadInv => UploadTypeOK
    BY UploadInvImplies
  <1>2. RelayTypeOK /\ UploadTypeOK => StreamsAndFilesTypeOK
    BY DEF StreamsAndFilesTypeOK
  <1> QED
    BY <1>1, <1>2, UploadAlways, RelayTypes, TransportsImplemented, PTL

(* What the relay delivers, in the composition. *)
THEOREM RelaysCorrect ==
    ASSUME PlainRelay
    PROVE  TransportSpec => [](RelayedInOrder /\ Configured /\ NothingHeldBack)
  BY TransportsImplemented, MessagesAreInOrder, RelaysAreConfigured,
     NothingIsHeldBack, PTL
=============================================================================
