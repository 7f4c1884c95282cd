--------------------------- MODULE TransferControl ---------------------------
(***************************************************************************)
(* Pausing, resuming and cancelling one download: the row the UI shows     *)
(* (openterm-app/src/update.rs), the worker's command arms and its         *)
(* TransferCtl, and the transfer task spawn_transfer (connection.rs).      *)
(*                                                                         *)
(* The task and the worker share three atomics - mode, running, finalized  *)
(* - and decide with them who cleans up and who tells the UI; one action   *)
(* is one access to one of them.  The file itself is reduced to whether    *)
(* the `.part` scratch exists and whether it was promoted.                 *)
(***************************************************************************)
EXTENDS Integers, Sequences, FiniteSets

CONSTANTS IsDir,         \* the transfer is a directory tree
          AcquireFails,  \* the pool may fail to lend a data connection
          MaxResumes,    \* bound: how often the user resumes
          MaxLosses      \* bound: how often the connection is torn down

VARIABLES
  row,        \* the row of this transfer: none, Active, Paused, Done, Failed
  pauseReq,   \* Transfer::pause_requested
  cmds,       \* commands on their way to the worker
  evts,       \* events on their way to the UI
  online,     \* run_connection is in its select loop
  known,      \* the worker's map has a TransferCtl for this id
  mode,       \* 0 run, 1 pause, 2 cancel
  running,    \* cleared by the task on its way out
  finalized,  \* claimed by whoever handles the end
  wpc,        \* the worker inside its cancel arm: idle, check or claim
  task,       \* where the transfer task is
  seen,       \* the mode the task read at its end
  sweeping,   \* the cleanup task the worker's cancel arm spawned
  result,     \* what transfer_files returned: done, partial, error
  part,       \* the .part exists
  promoted,   \* the file was promoted to its final name
  canceled,   \* the user cancelled (for the properties)
  unheard,    \* the commands a full channel has refused (for the properties)
  verdicts,   \* what the winner of `finalized` sent, per start (for the properties)
  resumes, losses

uiVars   == <<row, pauseReq, canceled, unheard, resumes>>
ctlVars  == <<known, mode, running, finalized, wpc>>
taskVars == <<task, seen, result>>
fileVars == <<part, promoted>>
vars == <<uiVars, cmds, evts, online, ctlVars, taskVars, sweeping, fileVars, verdicts, losses>>

Rows  == {"none", "Active", "Paused", "Done", "Failed"}
\* failed: the task is gone, and had no data connection or no listing of its tree
Tasks == {"none", "acquire", "walk", "stream", "returned", "ended", "claim",
          "cleanup", "failing", "failed"}
Commands == {"start", "pause", "cancel"}

\* The type invariant.
TypeOK ==
  /\ row \in Rows
  /\ {pauseReq, online, known, running, finalized, part, promoted, canceled, sweeping} \subseteq BOOLEAN
  /\ cmds \in Seq(Commands) /\ unheard \subseteq Commands
  /\ evts \in Seq({"Started", "Paused", "Canceled", "Finished", "FinishedErr"})
  /\ {mode, seen} \subseteq 0 .. 2
  /\ wpc \in {"idle", "check", "claim"}
  /\ task \in Tasks
  /\ result \in {"done", "partial", "error"}
  /\ verdicts \in Seq({"Canceled", "Finished", "FinishedErr"})
  /\ resumes \in 0 .. MaxResumes /\ losses \in 0 .. MaxLosses

\* start_download has just queued the command; there is no row yet.
Init ==
  /\ row = "none" /\ pauseReq = FALSE /\ canceled = FALSE /\ unheard = {} /\ resumes = 0
  /\ cmds = <<"start">> /\ evts = <<>>
  /\ online = TRUE /\ losses = 0
  /\ known = FALSE /\ mode = 0 /\ running = FALSE /\ finalized = FALSE /\ wpc = "idle"
  /\ task = "none" /\ seen = 0 /\ result = "partial"
  /\ sweeping = FALSE /\ part = FALSE /\ promoted = FALSE /\ verdicts = <<>>

------------------------------------------------------------------------------
(* The user's buttons.  A row the user has cancelled can come back (OnEvent);
   he is assumed to leave it alone.                                          *)

\* try_send, its result ignored.  The 256 slots of the channel are shared with all
\* else the tab sends, keystrokes first: when they are full, is not up to a transfer.
Send(cmd) == \/ cmds' = Append(cmds, cmd) /\ UNCHANGED unheard
             \/ unheard' = unheard \cup {cmd} /\ UNCHANGED cmds

Pause ==
  /\ row = "Active" /\ ~pauseReq /\ ~canceled
  /\ pauseReq' = TRUE
  /\ Send("pause")
  /\ UNCHANGED <<row, canceled, resumes, evts, online, ctlVars, taskVars, sweeping, fileVars, verdicts, losses>>

\* The row is dropped at once.
Cancel ==
  /\ row \in {"Active", "Paused"} /\ ~canceled
  /\ row' = "none"
  /\ canceled' = TRUE
  /\ Send("cancel")
  /\ UNCHANGED <<pauseReq, resumes, evts, online, ctlVars, taskVars, sweeping, fileVars, verdicts, losses>>

Resume ==
  /\ row = "Paused" /\ ~canceled /\ resumes < MaxResumes
  /\ row' = "Active" /\ pauseReq' = FALSE
  /\ resumes' = resumes + 1
  /\ Send("start")
  /\ UNCHANGED <<canceled, evts, online, ctlVars, taskVars, sweeping, fileVars, verdicts, losses>>

------------------------------------------------------------------------------
(* handle_conn_event: TransferStarted updates or inserts the row, the others
   only touch a row that is there.                                           *)

Shown(status) == row' = IF row = "none" THEN "none" ELSE status

OnEvent ==
  /\ evts # <<>>
  /\ evts' = Tail(evts)
  /\ \/ /\ Head(evts) = "Started"
        /\ row' = "Active"
        /\ pauseReq' = IF row = "none" THEN FALSE ELSE pauseReq
     \/ /\ Head(evts) = "Paused"
        /\ Shown("Paused")
        /\ pauseReq' = FALSE
     \/ /\ Head(evts) = "Canceled"
        /\ row' = "none"
        /\ UNCHANGED pauseReq
     \/ /\ Head(evts) = "Finished"
        /\ Shown("Done")
        /\ UNCHANGED pauseReq
     \/ /\ Head(evts) = "FinishedErr"
        /\ Shown("Failed")
        /\ UNCHANGED pauseReq
  /\ UNCHANGED <<canceled, unheard, resumes, cmds, online, ctlVars, taskVars, sweeping, fileVars, verdicts, losses>>

------------------------------------------------------------------------------
(* The worker's select loop. *)

Verdict(evt) == /\ evts' = Append(evts, evt)
                /\ verdicts' = Append(verdicts, evt)

Receive(cmd) == /\ online /\ wpc = "idle"
                /\ cmds # <<>> /\ Head(cmds) = cmd
                /\ cmds' = Tail(cmds)

\* SftpDownload: a fresh TransferCtl replaces the entry, a task is spawned.
WorkerStart ==
  /\ Receive("start")
  /\ known' = TRUE /\ mode' = 0 /\ running' = TRUE /\ finalized' = FALSE
  /\ task' = "acquire"
  /\ verdicts' = <<>>
  /\ UNCHANGED <<uiVars, evts, online, wpc, seen, result, sweeping, fileVars, losses>>

WorkerPause ==
  /\ Receive("pause")
  /\ mode' = IF known THEN 1 ELSE mode
  /\ UNCHANGED <<uiVars, evts, online, known, running, finalized, wpc, taskVars, sweeping, fileVars, verdicts, losses>>

\* Nothing happens for an id that is not in the map.
WorkerCancel ==
  /\ Receive("cancel")
  /\ IF known THEN mode' = 2 /\ wpc' = "check" ELSE UNCHANGED <<mode, wpc>>
  /\ UNCHANGED <<uiVars, evts, online, known, running, finalized, taskVars, sweeping, fileVars, verdicts, losses>>

\* Bug variant: a cancel is always left to the task.
CancelCheckLeavesIt ==
  /\ wpc = "check"
  /\ wpc' = "idle"
  /\ UNCHANGED <<uiVars, cmds, evts, online, known, mode, running, finalized, taskVars, sweeping, fileVars, verdicts, losses>>

\* A task that still runs will see the mode itself.
CancelCheck ==
  /\ wpc = "check"
  /\ wpc' = IF running THEN "idle" ELSE "claim"
  /\ UNCHANGED <<uiVars, cmds, evts, online, known, mode, running, finalized, taskVars, sweeping, fileVars, verdicts, losses>>

\* Bug variant: the outcome of the compare_exchange is ignored.
CancelClaimIgnored ==
  /\ wpc = "claim"
  /\ wpc' = "idle"
  /\ finalized' = TRUE
  /\ sweeping' = TRUE
  /\ UNCHANGED <<uiVars, cmds, evts, online, known, mode, running, taskVars, fileVars, verdicts, losses>>

CancelClaim ==
  /\ wpc = "claim"
  /\ wpc' = "idle"
  /\ finalized' = TRUE
  /\ sweeping' = (sweeping \/ ~finalized)
  /\ UNCHANGED <<uiVars, cmds, evts, online, known, mode, running, taskVars, fileVars, verdicts, losses>>

\* The cleanup the arm spawned knows the transfer's own path only: for a
\* directory that is not the path of any `.part`.
WorkerSweep ==
  /\ sweeping
  /\ sweeping' = FALSE
  /\ part' = (part /\ IsDir)
  /\ Verdict("Canceled")
  /\ UNCHANGED <<uiVars, cmds, online, ctlVars, taskVars, promoted, losses>>

\* While no connection is up, every command but Connect is drained.
WorkerDrain ==
  /\ ~online /\ cmds # <<>>
  /\ cmds' = Tail(cmds)
  /\ UNCHANGED <<uiVars, evts, online, ctlVars, taskVars, sweeping, fileVars, verdicts, losses>>

\* Teardown aborts every task at its next await; the map goes with
\* run_connection.
Lose ==
  /\ online /\ wpc = "idle" /\ losses < MaxLosses
  /\ task \notin {"failing", "ended", "claim"}
  /\ online' = FALSE
  /\ task' = "none" /\ sweeping' = FALSE
  /\ known' = FALSE
  /\ losses' = losses + 1
  /\ UNCHANGED <<uiVars, cmds, evts, mode, running, finalized, wpc, seen, result, fileVars, verdicts>>

Reconnect ==
  /\ ~online
  /\ online' = TRUE
  /\ UNCHANGED <<uiVars, cmds, evts, ctlVars, taskVars, sweeping, fileVars, verdicts, losses>>

------------------------------------------------------------------------------
(* The transfer task. *)

Acquired ==
  /\ task = "acquire"
  /\ IF IsDir THEN task' = "walk" /\ UNCHANGED evts
              ELSE task' = "stream" /\ evts' = Append(evts, "Started")
  /\ UNCHANGED <<uiVars, cmds, online, ctlVars, seen, result, sweeping, fileVars, verdicts, losses>>

\* No data connection: a started-then-failed row, whatever the mode.
AcquireError ==
  /\ AcquireFails /\ task = "acquire"
  /\ evts' = evts \o <<"Started", "FinishedErr">>
  /\ task' = "failing"
  /\ UNCHANGED <<uiVars, cmds, online, ctlVars, seen, result, sweeping, fileVars, verdicts, losses>>

AcquireErrorEnds ==
  /\ task = "failing"
  /\ running' = FALSE
  /\ task' = "failed"
  /\ UNCHANGED <<uiVars, cmds, evts, online, known, mode, finalized, wpc, seen, result, sweeping, fileVars, verdicts, losses>>

Walked ==
  /\ task = "walk"
  /\ task' = "stream"
  /\ evts' = Append(evts, "Started")
  /\ UNCHANGED <<uiVars, cmds, online, ctlVars, seen, result, sweeping, fileVars, verdicts, losses>>

\* The task returns with `running` still set.
WalkError ==
  /\ task = "walk"
  /\ evts' = evts \o <<"Started", "FinishedErr">>
  /\ task' = "failed"
  /\ UNCHANGED <<uiVars, cmds, online, ctlVars, seen, result, sweeping, fileVars, verdicts, losses>>

Write ==
  /\ task = "stream" /\ mode = 0 /\ ~part
  /\ part' = TRUE
  /\ UNCHANGED <<uiVars, cmds, evts, online, ctlVars, taskVars, sweeping, promoted, verdicts, losses>>

\* transfer_files returns: stopped by the mode, complete, or failed.
Stream ==
  /\ task = "stream"
  /\ task' = "returned"
  /\ \/ /\ mode # 0 /\ result' = "partial" /\ UNCHANGED fileVars
     \/ /\ part /\ result' = "done" /\ part' = FALSE /\ promoted' = TRUE
     \/ /\ result' = "error" /\ UNCHANGED fileVars
  /\ UNCHANGED <<uiVars, cmds, evts, online, ctlVars, seen, sweeping, verdicts, losses>>

ClearRunning ==
  /\ task = "returned"
  /\ running' = FALSE
  /\ task' = "ended"
  /\ UNCHANGED <<uiVars, cmds, evts, online, known, mode, finalized, wpc, seen, result, sweeping, fileVars, verdicts, losses>>

\* Bug variant: a pause is not reported.
LoadModeSilent ==
  /\ task = "ended"
  /\ seen' = mode
  /\ task' = IF mode = 1 THEN "none" ELSE "claim"
  /\ UNCHANGED <<uiVars, cmds, evts, online, ctlVars, result, sweeping, fileVars, verdicts, losses>>

\* A pause is not terminal; it is reported whatever transfer_files returned.
LoadMode ==
  /\ task = "ended"
  /\ seen' = mode
  /\ IF mode = 1 THEN task' = "none" /\ evts' = Append(evts, "Paused")
                 ELSE task' = "claim" /\ UNCHANGED evts
  /\ UNCHANGED <<uiVars, cmds, online, ctlVars, result, sweeping, fileVars, verdicts, losses>>

\* compare_exchange(false, true); the loser stays silent.
Claim ==
  /\ task = "claim"
  /\ finalized' = TRUE
  /\ IF finalized
     THEN task' = "none" /\ UNCHANGED <<evts, verdicts>>
     ELSE IF seen = 2
     THEN task' = "cleanup" /\ UNCHANGED <<evts, verdicts>>
     ELSE /\ task' = "none"
          /\ Verdict(IF result = "error" THEN "FinishedErr" ELSE "Finished")
  /\ UNCHANGED <<uiVars, cmds, online, known, mode, running, wpc, seen, result, sweeping, fileVars, losses>>

\* Bug variant: the task reports the cancel and leaves the `.part`.
CleanUpNothing ==
  /\ task = "cleanup"
  /\ Verdict("Canceled")
  /\ task' = "none"
  /\ UNCHANGED <<uiVars, cmds, online, ctlVars, seen, result, sweeping, fileVars, losses>>

CleanUp ==
  /\ task = "cleanup"
  /\ part' = FALSE
  /\ Verdict("Canceled")
  /\ task' = "none"
  /\ UNCHANGED <<uiVars, cmds, online, ctlVars, seen, result, sweeping, promoted, losses>>

------------------------------------------------------------------------------
User   == Pause \/ Cancel \/ Resume
Worker == \/ WorkerStart \/ WorkerPause \/ WorkerCancel \/ CancelCheck \/ CancelClaim
          \/ WorkerDrain \/ Reconnect
Task   == \/ Acquired \/ AcquireError \/ AcquireErrorEnds \/ Walked \/ WalkError \/ Stream
          \/ ClearRunning \/ LoadMode \/ Claim \/ CleanUp

Gone == task \in {"none", "failed"}

\* The row is settled and nobody has anything left to do.
Settled == /\ row \in {"none", "Paused", "Done", "Failed"} \/ losses > 0 \/ "start" \in unheard
           /\ cmds = <<>> /\ evts = <<>> /\ Gone
           /\ UNCHANGED vars

Next == User \/ OnEvent \/ Worker \/ WorkerSweep \/ Lose \/ Task \/ Write \/ Settled

Spec == Init /\ [][Next]_vars

(* The UI handles its events, the worker its commands, and every step of the
   task is bounded by a timeout.  The user and the network owe nothing.       *)
FairSpec == Spec /\ WF_vars(OnEvent) /\ WF_vars(Worker) /\ WF_vars(WorkerSweep)
                 /\ WF_vars(Task)

------------------------------------------------------------------------------
\* Exactly one side ends an attempt: the worker's cancel arm and the task never
\* both clean up or both report, however their accesses to the three atomics
\* interleave (connection.rs:795-797, 975-1010).
OneVerdict == /\ Len(verdicts) <= 1
              /\ ~(sweeping /\ task = "cleanup")
              /\ (sweeping \/ task = "cleanup") => verdicts = <<>>

\* A cancel the worker receives while the task has not read its mode for the
\* last time ends the transfer as cancelled: it is never lost between the two
\* sides, and never reported as something else (connection.rs:570-574) - but for
\* a task that fails before its first byte, or is torn down with its connection.
CancelObeyed ==
  (mode = 2 /\ task \in {"acquire", "walk", "stream", "returned", "ended"})
    ~> (verdicts = <<"Canceled">> \/ task = "failed" \/ ~known)

\* "the `.part` scratch was removed worker-side" when TransferCanceled is sent
\* (update.rs:3004).
CanceledIsClean == verdicts = <<"Canceled">> => ~part

\* A cancelled transfer is off the user's hands: its task goes, and its row and its
\* `.part` with it, unless it had come to its own end by then ("the worker removes
\* the `.part` ... Works whether the transfer is active or paused",
\* update.rs:654-656).  That needs a worker that hears it: with the command
\* refused, or the connection lost since the last start, the `.part` may stay.
EndedItself  == task = "failed" \/ verdicts \notin {<<>>, <<"Canceled">>}
CancelCleans ==
  canceled ~> [](Gone /\ (EndedItself \/ (row = "none" /\ ~part)
                                      \/ "cancel" \in unheard \/ ~known))

\* "Pausing..." is shown "between clicking Pause and the worker confirming the
\* pause", so it comes to an end (session.rs:1284-1285) - for a transfer the worker
\* knows of: not after a lost connection until it is started again, and not after
\* that start was refused.
PauseConfirmed ==
  pauseReq ~> (~pauseReq \/ row # "Active" \/ ~known \/ "start" \in unheard)
==============================================================================
