---------------------------- MODULE ControlPanel ----------------------------
(***************************************************************************)
(* The control panel of an office session: the upload of files, the log of   *)
(* the uploads and the button that shares the session. (Its Disconnect       *)
(* button is in GuacClient.)                                                 *)
(*                                                                         *)
(* An upload and a share request are answered in their own time, and what     *)
(* they show is taken away by timers of 2 s that nobody clears.              *)
(***************************************************************************)
EXTENDS Integers

CONSTANTS
  MaxUploads,    \* bound: entries of the log, and ticks to be taken away
  MaxShares      \* bound: share requests in flight, and copies to be taken away

ASSUME PanelAssumption == MaxUploads \in Nat \ {0} /\ MaxShares \in Nat \ {0}

VARIABLES
  expanded,    \* the panel is unfolded
  upload,      \* what it shows of the last upload
  ticks,       \* the timers that take the tick away
  history,     \* how many entries the log has, the newest first
  unfolded,    \* expandedLogs: the positions in the log that are unfolded
  logs,        \* the log is open, over everything else
  shares,      \* the share requests whose answer is due
  copied,      \* copiedToClipboard
  fades        \* the timers that reset it

panelVars ==
  <<expanded, upload, ticks, history, unfolded, logs, shares, copied, fades>>

UploadType == [busy : BOOLEAN, ticked : BOOLEAN, failed : BOOLEAN]

PanelTypeOK ==
  /\ {expanded, logs, copied} \subseteq BOOLEAN
  /\ upload \in UploadType
  /\ ticks \in 0..MaxUploads
  /\ history \in 0..MaxUploads
  /\ unfolded \subseteq 1..MaxUploads
  /\ shares \in 0..MaxShares
  /\ fades \in 0..MaxShares

PanelInit ==
  /\ expanded = TRUE
  /\ upload = [busy |-> FALSE, ticked |-> FALSE, failed |-> FALSE]
  /\ ticks = 0
  /\ history = 0
  /\ unfolded = {}
  /\ logs = FALSE
  /\ shares = 0
  /\ copied = FALSE
  /\ fades = 0

ToggleExpanded ==
  /\ ~logs
  /\ expanded' = ~expanded
  /\ UNCHANGED <<upload, ticks, history, unfolded, logs, shares, copied, fades>>

(***************************************************************************)
(* Uploads.                                                                 *)
(***************************************************************************)
UploadOffered == expanded /\ ~logs /\ ~upload.busy

\* A bug: the tick of the last upload is not reset.
ChooseFile_KeepsTick ==
  /\ UploadOffered
  /\ ticks < MaxUploads /\ history < MaxUploads
  /\ upload' = [upload EXCEPT !.busy = TRUE, !.failed = FALSE]
  /\ UNCHANGED <<expanded, ticks, history, unfolded, logs, shares, copied, fades>>

\* handleFileChange. The button and the input are disabled during an upload.
ChooseFile ==
  /\ UploadOffered
  /\ ticks < MaxUploads /\ history < MaxUploads
  /\ upload' = [busy |-> TRUE, ticked |-> FALSE, failed |-> FALSE]
  /\ UNCHANGED <<expanded, ticks, history, unfolded, logs, shares, copied, fades>>

\* onload with a 2xx status. A body that is no JSON is logged and forgotten: the
\* upload is ticked all the same, and not in the log.
UploadAccepted ==
  /\ upload.busy
  /\ upload' = [upload EXCEPT !.busy = FALSE, !.ticked = TRUE]
  /\ ticks' = ticks + 1
  /\ history' \in {history, history + 1}
  /\ UNCHANGED <<expanded, unfolded, logs, shares, copied, fades>>

\* onload with another status, onerror, or an exception before the request is
\* sent.
UploadFails ==
  /\ upload.busy
  /\ upload' = [upload EXCEPT !.busy = FALSE, !.failed = TRUE]
  /\ UNCHANGED <<expanded, ticks, history, unfolded, logs, shares, copied, fades>>

\* 2 s after an upload was accepted, whatever has been uploaded since.
TickGoes ==
  /\ ticks > 0
  /\ ticks' = ticks - 1
  /\ upload' = [upload EXCEPT !.ticked = FALSE]
  /\ UNCHANGED <<expanded, history, unfolded, logs, shares, copied, fades>>

(***************************************************************************)
(* The log. What is unfolded is remembered by position, so that it slides    *)
(* to another entry with the next upload.                                    *)
(***************************************************************************)
ShowLogs ==
  /\ expanded /\ ~logs /\ history > 0
  /\ logs' = TRUE
  /\ UNCHANGED <<expanded, upload, ticks, history, unfolded, shares, copied, fades>>

CloseLogs ==
  /\ logs
  /\ logs' = FALSE
  /\ UNCHANGED <<expanded, upload, ticks, history, unfolded, shares, copied, fades>>

ToggleLog(i) ==
  /\ logs /\ i <= history
  /\ unfolded' = IF i \in unfolded THEN unfolded \ {i} ELSE unfolded \cup {i}
  /\ UNCHANGED <<expanded, upload, ticks, history, logs, shares, copied, fades>>

(***************************************************************************)
(* Sharing. The button is disabled while it shows the copy, not while the    *)
(* request is on its way.                                                   *)
(***************************************************************************)
ShareOffered == expanded /\ ~logs /\ ~copied

ShareSession ==
  /\ ShareOffered
  /\ shares + fades < MaxShares
  /\ shares' = shares + 1
  /\ UNCHANGED <<expanded, upload, ticks, history, unfolded, logs, copied, fades>>

\* The URL is copied; or a refusal, a failure, or a clipboard that refuses.
ShareAnswered ==
  /\ shares > 0
  /\ shares' = shares - 1
  /\ \/ copied' = TRUE /\ fades' = fades + 1
     \/ UNCHANGED <<copied, fades>>
  /\ UNCHANGED <<expanded, upload, ticks, history, unfolded, logs>>

CopyFades ==
  /\ fades > 0
  /\ fades' = fades - 1
  /\ copied' = FALSE
  /\ UNCHANGED <<expanded, upload, ticks, history, unfolded, logs, shares>>

PanelNext ==
  \/ ToggleExpanded
  \/ ChooseFile \/ UploadAccepted \/ UploadFails \/ TickGoes
  \/ ShowLogs \/ CloseLogs \/ \E i \in 1..MaxUploads : ToggleLog(i)
  \/ ShareSession \/ ShareAnswered \/ CopyFades

(***************************************************************************)
(* Properties.                                                              *)
(***************************************************************************)
\* The panel shows one thing of an upload: its progress, the tick or the error,
\* although a tick and an error are reset only by the next upload or, for the
\* tick, by a timer that may be another upload's (WebSocketControl.jsx:109-174).
OneMark ==
  /\ upload.busy => ~upload.ticked /\ ~upload.failed
  /\ ~(upload.ticked /\ upload.failed)
  /\ upload.ticked => ticks > 0

=============================================================================
