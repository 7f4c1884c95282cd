------------------------------ MODULE MCWorkers ------------------------------
(***************************************************************************)
(* The machines behind a tab in one run of TLC, checked for safety and     *)
(* liveness: its connection worker, its shell, local or remote, and its    *)
(* transfers.  They do not interact here: a behaviour picks one machine in *)
(* its first state and runs that one, and the variables of the others keep *)
(* their initial values.  So the run explores the sum of the machines'     *)
(* state spaces, not their product, and an invariant of a machine that     *)
(* rests holds as it holds initially.                                      *)
(***************************************************************************)
EXTENDS Download

CONSTANTS PutCells, Writes, Tries, MaxUploads, MaxAborts,  \* of the upload
          MaxResumes, MaxLosses,                           \* of the control of a transfer
          CmdCap, MaxDisconnects, Typing,                  \* of a tab
          MaxItems, EventCap, BatchCap, OutCap,            \* of a remote shell
          MaxPaste, MaxWrites, PtyCap, ChannelCap          \* of a local shell

ASSUME WorkersAssumption ==
  /\ {PutCells, Writes, Tries, MaxUploads, MaxAborts, MaxResumes, MaxLosses, CmdCap, MaxDisconnects, MaxItems,
      EventCap, BatchCap, OutCap, MaxPaste, MaxWrites, PtyCap, ChannelCap} \subseteq Nat
  /\ 0 \notin {Tries, CmdCap, MaxItems, BatchCap} /\ Typing \in BOOLEAN

VARIABLES machine,
  row, pauseReq, cmds, evts, online, known, mode, running, finalized, wpc, task, seen, sweeping,
  result, part, promotedT, canceled, unheard, verdicts, resumes, losses,
  scratch, dest, pending, late, refused, upc, try, next, stopReq, disturbed, uploads, aborts,
  phase, userDisc, due, hostKey, exitCode, hasTx, connectDue, tabCmds, tabEvts, worker, exited,
  clean, tab, presses, searching, bounced,
  hasTmux, shell, written, sent, cut, wire, pump, eof, ptyEvents, relay, buf, out, exitTold,
  terminal, lost,
  request, writer, left, writes, input, output, reader, channel, fd, stray, child, reaper, told

\* A single file, and a directory, each where everything may fail.
File == INSTANCE TransferControl WITH IsDir <- FALSE, AcquireFails <- TRUE,
          promoted <- promotedT
Tree == INSTANCE TransferControl WITH IsDir <- TRUE, AcquireFails <- TRUE,
          promoted <- promotedT
Put == INSTANCE Upload WITH Cells <- PutCells, part <- scratch
Session == INSTANCE SessionWorker WITH pending <- connectDue, cmds <- tabCmds, evts <- tabEvts
Shell == INSTANCE ShellPump WITH Persistence <- TRUE, worker <- relay, exited <- exitTold, seen <- terminal
Local == INSTANCE LocalShell WITH worker <- writer

controlVars == <<row, pauseReq, cmds, evts, online, known, mode, running, finalized, wpc,
                 task, seen, sweeping, result, part, promotedT, canceled, unheard,
                 verdicts, resumes, losses>>
putVars   == <<scratch, dest, pending, late, refused, upc, try, next, stopReq, disturbed,
               uploads, aborts>>
tabVars   == <<phase, userDisc, due, hostKey, exitCode, hasTx, connectDue, tabCmds, tabEvts,
               worker, exited, clean, tab, presses, searching, bounced>>
shellVars == <<hasTmux, shell, written, sent, cut, wire, pump, eof, ptyEvents, relay, buf, out,
               exitTold, terminal, lost>>
localVars == <<request, writer, left, writes, input, output, reader, channel, fd, stray, child,
               reaper, told>>
allVars   == <<machine, vars, controlVars, putVars, tabVars, shellVars, localVars>>

MCInit ==
  /\ machine \in {"download", "file", "tree", "upload", "session", "shell", "local"}
  /\ Init /\ File!Init /\ Put!UploadInit /\ Session!Init /\ Shell!PumpInit /\ Local!LocalInit
  /\ machine # "shell" => hasTmux

OfDownload(A)   == machine = "download" /\ A
                   /\ UNCHANGED <<machine, controlVars, putVars, tabVars, shellVars, localVars>>
OfControl(m, A) == machine = m /\ A
                   /\ UNCHANGED <<machine, vars, putVars, tabVars, shellVars, localVars>>
OfUpload(A)     == machine = "upload" /\ A
                   /\ UNCHANGED <<machine, vars, controlVars, tabVars, shellVars, localVars>>
OfSession(A)    == machine = "session" /\ A
                   /\ UNCHANGED <<machine, vars, controlVars, putVars, shellVars, localVars>>
OfShell(A)      == machine = "shell" /\ A
                   /\ UNCHANGED <<machine, vars, controlVars, putVars, tabVars, localVars>>
OfLocal(A)      == machine = "local" /\ A
                   /\ UNCHANGED <<machine, vars, controlVars, putVars, tabVars, shellVars>>

MCNext ==
  \/ OfDownload(Next) \/ OfControl("file", File!Next) \/ OfControl("tree", Tree!Next)
  \/ OfUpload(Put!UploadNext) \/ OfSession(Session!Next) \/ OfShell(Shell!PumpNext)
  \/ OfLocal(Local!LocalNext)

\* The machines' own fairness, as their specifications state it.
MCSpec ==
  /\ MCInit /\ [][MCNext]_allVars
  /\ WF_vars(OfDownload(Backoff)) /\ WF_vars(OfDownload(Attempt))
  /\ \A i \in Chunks : WF_vars(OfDownload(ChunkStep(i)))
  /\ WF_controlVars(OfControl("file", File!OnEvent))
  /\ WF_controlVars(OfControl("file", File!Worker))
  /\ WF_controlVars(OfControl("file", File!WorkerSweep))
  /\ WF_controlVars(OfControl("file", File!Task))
  /\ WF_controlVars(OfControl("tree", Tree!OnEvent))
  /\ WF_controlVars(OfControl("tree", Tree!Worker))
  /\ WF_controlVars(OfControl("tree", Tree!WorkerSweep))
  /\ WF_controlVars(OfControl("tree", Tree!Task))
  /\ WF_putVars(OfUpload(Put!Attempt)) /\ WF_putVars(OfUpload(Put!Backoff))
  /\ WF_tabVars(OfSession(Session!HandleEvent)) /\ WF_tabVars(OfSession(Session!Work))
  /\ WF_tabVars(OfSession(Session!ReconnectTick))
  /\ WF_shellVars(OfShell(Shell!Pump)) /\ WF_shellVars(OfShell(Shell!Work))
  /\ WF_shellVars(OfShell(Shell!WorkerFlush)) /\ WF_shellVars(OfShell(Shell!UiReceives))
  /\ WF_localVars(OfLocal(Local!Worker)) /\ SF_localVars(OfLocal(Local!TakeEnd))
  /\ WF_localVars(OfLocal(Local!Thread)) /\ WF_localVars(OfLocal(Local!Echo))
  /\ WF_localVars(OfLocal(Local!Hup \/ Local!Reap \/ Local!Kill))

------------------------------------------------------------------------------
\* The machines' type invariants.
WorkersTypesOK ==
  CASE machine = "download" -> TypeOK
    [] machine = "file"     -> File!TypeOK
    [] machine = "tree"     -> Tree!TypeOK
    [] machine = "upload"   -> Put!TypeOK
    [] machine = "session"  -> Session!TypeOK
    [] machine = "shell"    -> Shell!TypeOK
    [] machine = "local"    -> Local!TypeOK

\* The machines' other invariants; those of Download keep their names.
OneVerdict      == machine = "tree" => Tree!OneVerdict
CanceledIsClean == machine = "file" => File!CanceledIsClean

\* An upload never loses the content it is about to promote.
UploadKeepsContent == Put!ContentSurvives

\* A shell's output arrives in order, and its end last.
OutputSound == Shell!OutputInOrder /\ Shell!ClosedIsLast

\* A download never goes back behind what it has, and starts no chunk once it is stopped.
DownloadSteps == NeverStartsOver /\ StopSpawnsNothing

\* Downloads and uploads end.
TransfersEnd ==
  /\ machine = "download" => Terminates
  /\ machine = "upload" => Put!UploadTerminates

\* A cancel is obeyed, and for a single file leaves nothing behind, once it is heard by a
\* worker that still has the connection.
CancelWorks ==
  /\ machine = "file" => File!CancelObeyed /\ File!CancelCleans
  /\ machine = "tree" => Tree!CancelObeyed

\* A pause is confirmed to the user, for a file and for a directory.
PauseConfirmed ==
  /\ machine = "file" => File!PauseConfirmed
  /\ machine = "tree" => Tree!PauseConfirmed

\* A connect that is heard settles, and a reconnecting tab goes on dialing.
SessionSettles == machine = "session" => Session!ConnectSettles /\ Session!ReconnectKeepsTrying

\* Output is shown and so is the end of a shell, and a local shell leaves nothing behind.
ShellsEnd ==
  /\ machine = "shell" => Shell!OutputShown /\ Shell!EndShown
  /\ machine = "local" => Local!ShellCleanedUp
==============================================================================
