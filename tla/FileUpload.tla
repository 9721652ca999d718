----------------------------- MODULE FileUpload -----------------------------
(***************************************************************************)
(* Uploads of files to sessions: each request sends its file to the         *)
(* session's container, to ClamAV and, where the program has a MinIO client,  *)
(* to a bucket. With MinIO the three go side by side (HandlerUploadFile),     *)
(* without it one after the other (HandlerUploadFileWithoutMinio).           *)
(*                                                                         *)
(* The three services are the environment. Each takes what it is sent, or not, *)
(* and its answer may be lost or late: what a request reports and what has    *)
(* happened are two things.                                                 *)
(***************************************************************************)
EXTENDS Integers

CONSTANTS
  Requests,        \* uploads
  PostTimeout,     \* of the request to the container: 15 seconds
  ScanTimeout,     \* of the scan: 10 seconds
  RequestTimeout,  \* of the context all of them share: 30 seconds
  MaxTime          \* bound: how long the clock runs

ASSUME UploadAssumption ==
  /\ {PostTimeout, ScanTimeout, RequestTimeout, MaxTime} \subseteq Nat \ {0}

VARIABLES
  minioClient,  \* there is one
  time,         \* the clock
  upload,       \* what each request is at, when it began and what it answered
  job,          \* its upload to each service, with the time it has left
  results,      \* its results, by service
  taken,        \* requests whose file the container took
  stored        \* requests whose file MinIO took

uploadVars == <<minioClient, time, upload, job, results, taken, stored>>

Services == {"file_upload", "clamav", "minio"}

\* The services a request has a result of.
Used == IF minioClient THEN Services ELSE {"file_upload", "clamav"}

Waits == [state |-> "waits", left |-> 0]
Ended == [state |-> "ended", left |-> 0]
Running(t) == [state |-> "running", left |-> t]

UploadTypeOK ==
  /\ minioClient \in BOOLEAN /\ time \in 0..MaxTime
  /\ upload \in [Requests -> [pc : {"idle", "works", "answered"}, since : 0..MaxTime, success : BOOLEAN]]
  /\ \A u \in Requests, s \in Services :
       /\ job[u][s] \in {Waits, Ended} \cup {Running(t) : t \in 0..RequestTimeout}
       /\ results[u][s] \in {"none", "ok", "failed", "skipped"}
  /\ taken \subseteq Requests /\ stored \subseteq Requests

UploadInit ==
  /\ minioClient \in BOOLEAN /\ time = 0
  /\ upload = [u \in Requests |-> [pc |-> "idle", since |-> 0, success |-> FALSE]]
  /\ job = [u \in Requests |-> [s \in Services |-> Waits]]
  /\ results = [u \in Requests |-> [s \in Services |-> "none"]]
  /\ taken = {} /\ stored = {}

Works(u) == upload[u].pc = "works"
Runs(u, s) == job[u][s].state = "running"
HasEnded(u, s) == job[u][s].state = "ended"
Age(u) == time - upload[u].since

Timeout(s) ==
  CASE s = "file_upload" -> PostTimeout
    [] s = "clamav" -> ScanTimeout
    [] s = "minio" -> RequestTimeout

\* A bug: the scan's context is not that of the request.
TimeLeft_OwnContext(s, age) == IF s = "clamav" THEN RequestTimeout ELSE Timeout(s)

\* The timeout of a service within the context of its request.
TimeLeft(s, age) ==
  IF Timeout(s) < RequestTimeout - age THEN Timeout(s) ELSE RequestTimeout - age

Start(u, services, age) ==
  [job EXCEPT ![u] = [s \in Services |->
                        IF s \in services THEN Running(TimeLeft(s, age)) ELSE @[s]]]

\* A request that is accepted. (One for an unknown session, or without a file of
\* a legal size, is answered at once and does nothing.)
Begin(u) ==
  /\ upload[u].pc = "idle"
  /\ upload' = [upload EXCEPT ![u] = [@ EXCEPT !.pc = "works", !.since = time]]
  /\ job' = Start(u, IF minioClient THEN Services ELSE {"file_upload"}, 0)
  /\ UNCHANGED <<minioClient, time, results, taken, stored>>

\* The services, which may still take what has been given up.
ContainerTakes(u) ==
  /\ upload[u].pc # "idle" /\ results[u]["file_upload"] # "ok"
  /\ taken' = taken \cup {u}
  /\ UNCHANGED <<minioClient, time, upload, job, results, stored>>

MinioStores(u) ==
  /\ upload[u].pc # "idle" /\ minioClient /\ u \notin stored
  /\ stored' = stored \cup {u}
  /\ UNCHANGED <<minioClient, time, upload, job, results, taken>>

\* What a service may be reported to have done.
Outcomes(u, s) ==
  {"failed"}
    \cup (IF s = "clamav" \/ (s = "file_upload" /\ u \in taken) \/ (s = "minio" /\ u \in stored)
          THEN {"ok"} ELSE {})
    \cup (IF s = "clamav" THEN {"skipped"} ELSE {})

\* A bug: a goroutine that fails is not counted as done.
Finish_WhenOk(u, s) ==
  /\ Runs(u, s)
  /\ \E r \in Outcomes(u, s) :
       /\ results' = [results EXCEPT ![u][s] = r]
       /\ job' = IF r # "ok" THEN job
                 ELSE IF s = "file_upload" /\ ~minioClient
                 THEN [Start(u, {"clamav"}, Age(u)) EXCEPT ![u][s] = Ended]
                 ELSE [job EXCEPT ![u][s] = Ended]
  /\ UNCHANGED <<minioClient, time, upload, taken, stored>>

\* A service has answered, or it has not in time. Without MinIO the scan is next.
Finish(u, s) ==
  /\ Runs(u, s)
  /\ \E r \in Outcomes(u, s) : results' = [results EXCEPT ![u][s] = r]
  /\ job' = IF s = "file_upload" /\ ~minioClient
            THEN [Start(u, {"clamav"}, Age(u)) EXCEPT ![u][s] = Ended]
            ELSE [job EXCEPT ![u][s] = Ended]
  /\ UNCHANGED <<minioClient, time, upload, taken, stored>>

\* A bug: nobody waits for the scan.
Ready_WithoutScan(u) == Works(u) /\ \A s \in Used \ {"clamav"} : HasEnded(u, s)

\* wg.Wait returns.
Ready(u) == Works(u) /\ \A s \in Used : HasEnded(u, s)

\* A bug: one service that worked makes a success.
Overall_Any(u) == \E s \in Used : results[u][s] = "ok"

\* overallSuccess
Overall(u) ==
  IF minioClient THEN \A s \in Used : results[u][s] = "ok"
  ELSE results[u]["file_upload"] = "ok"

Answer(u) ==
  /\ Ready(u)
  /\ upload' = [upload EXCEPT ![u] = [@ EXCEPT !.pc = "answered", !.success = Overall(u)]]
  /\ UNCHANGED <<minioClient, time, job, results, taken, stored>>

\* A second, in which timeouts come closer. One that is over ends its upload
\* first, and an answer takes no time.
Second ==
  /\ time < MaxTime /\ time' = time + 1
  /\ \A u \in Requests :
       /\ ~Ready(u)
       /\ \A s \in Services : Runs(u, s) => job[u][s].left > 0
  /\ job' = [u \in Requests |-> [s \in Services |->
               IF Runs(u, s) THEN Running(job[u][s].left - 1) ELSE job[u][s]]]
  /\ UNCHANGED <<minioClient, upload, results, taken, stored>>

UploadStep(u) ==
  \/ \E s \in Services : Finish(u, s)
  \/ Answer(u)

UploadNext ==
  \/ \E u \in Requests : Begin(u) \/ ContainerTakes(u) \/ MinioStores(u) \/ UploadStep(u)
  \/ Second

UploadSpec == UploadInit /\ [][UploadNext]_uploadVars

(***************************************************************************)
(* Properties.                                                              *)
(***************************************************************************)
\* A request is answered with the result of every service, none of which is
\* still at work and could change it (performConcurrentUploads).
AnswersComplete ==
  \A u \in Requests : upload[u].pc = "answered" =>
    \A s \in Used : results[u][s] # "none" /\ ~Runs(u, s)

\* A file reported as uploaded is in the container and, where there is MinIO, has
\* been stored, whatever else failed or came late.
SuccessIsTrue ==
  \A u \in Requests : upload[u].success => u \in taken /\ (minioClient => u \in stored)

\* No request outlives the context it made, also when it does one thing after
\* the other and each has a timeout of its own (uploads.go:105, 196).
AnsweredInTime == \A u \in Requests : Works(u) => Age(u) <= RequestTimeout

\* Every request is answered, whatever fails.
UploadsAnswered == \A u \in Requests : []<>~Works(u)

=============================================================================
