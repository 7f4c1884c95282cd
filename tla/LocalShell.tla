------------------------------ MODULE LocalShell ------------------------------
(***************************************************************************)
(* A tab with a local shell (connection.rs, local_worker): the worker, the *)
(* thread that reads the PTY master and owns its descriptor, the shell     *)
(* behind the PTY, and the task that reaps it.  The kernel's two buffers   *)
(* and the channel between thread and worker are bounded, and the worker   *)
(* writes the PTY with blocking system calls.  The shell runs a program    *)
(* that copies its input to its output.                                    *)
(***************************************************************************)
EXTENDS Naturals

CONSTANTS MaxPaste,  \* bound: pieces of one Write
          MaxWrites, \* bound: number of Writes
          PtyCap,    \* capacity of each kernel buffer
          ChannelCap \* capacity of pty_tx, 256 in the code

VARIABLES
  request,    \* the Disconnect or the drop of the channel was sent
  worker,     \* where local_worker is
  left,       \* pieces of the Write in hand
  writes,
  input, output, \* the kernel's buffers
  reader, channel, \* the reading thread, and its channel to the worker
  fd,         \* the PTY master
  stray,      \* a Write went to the descriptor after it was closed
  child, reaper,
  told        \* Closed was sent

localVars == <<request, worker, left, writes, input, output, reader, channel, fd, stray, child,
               reaper, told>>

\* The type invariant.
TypeOK ==
  /\ {request, stray, told} \subseteq BOOLEAN
  /\ worker \in {"loop", "write", "ended"} /\ left \in 0 .. MaxPaste /\ writes \in 0 .. MaxWrites
  /\ input \in 0 .. PtyCap /\ output \in 0 .. PtyCap /\ channel \in 0 .. ChannelCap
  /\ reader \in {"read", "send", "close", "ended"} /\ fd \in {"open", "closed"}
  /\ child \in {"running", "zombie", "reaped"}
  /\ reaper \in {"none", "hup", "wait", "kill", "done"}

LocalInit ==
  /\ request = FALSE /\ worker = "loop" /\ left = 0 /\ writes = 0
  /\ input = 0 /\ output = 0 /\ reader = "read" /\ channel = 0 /\ fd = "open"
  /\ stray = FALSE /\ child = "running" /\ reaper = "none" /\ told = FALSE

------------------------------------------------------------------------------
Disconnect == /\ ~request /\ request' = TRUE
              /\ UNCHANGED <<worker, left, writes, input, output, reader, channel, fd, stray,
                             child, reaper, told>>

\* Command::Write: the worker writes until all of it is written.
TakeWrite ==
  /\ worker = "loop" /\ writes < MaxWrites
  /\ worker' = "write" /\ left' \in 1 .. MaxPaste /\ writes' = writes + 1
  /\ UNCHANGED <<request, input, output, reader, channel, fd, stray, child, reaper, told>>

\* libc::write blocks while the PTY has no room; an error ends the Write.
WritePiece ==
  /\ worker = "write"
  /\ \/ /\ fd = "open" /\ child = "running" /\ input < PtyCap /\ input' = input + 1
        /\ left' = left - 1 /\ UNCHANGED stray
     \/ /\ fd = "closed" \/ child # "running"
        /\ left' = 0 /\ stray' = (stray \/ fd = "closed") /\ UNCHANGED input
  /\ worker' = IF left' = 0 THEN "loop" ELSE "write"
  /\ UNCHANGED <<request, writes, output, reader, channel, fd, child, reaper, told>>

TakeOutput ==
  /\ worker = "loop" /\ channel > 0 /\ channel' = channel - 1
  /\ UNCHANGED <<request, worker, left, writes, input, output, reader, fd, stray, child, reaper, told>>

\* Disconnect, or the thread is gone: leave the loop, hand the child to a reaper.
TakeEnd ==
  /\ worker = "loop" /\ (request \/ (channel = 0 /\ reader = "ended"))
  /\ worker' = "ended" /\ reaper' = "hup" /\ channel' = 0
  /\ UNCHANGED <<request, left, writes, input, output, reader, fd, stray, child, told>>

TellClosed == /\ worker = "ended" /\ ~told /\ told' = TRUE
              /\ UNCHANGED <<request, worker, left, writes, input, output, reader, channel, fd,
                             stray, child, reaper>>

------------------------------------------------------------------------------
(* The reading thread.                                                      *)

ThreadRest == <<request, worker, left, writes, input, stray, child, reaper, told>>

Read == /\ reader = "read"
        /\ \/ output > 0 /\ output' = output - 1 /\ reader' = "send"
           \/ output = 0 /\ child # "running" /\ reader' = "close" /\ UNCHANGED output
        /\ UNCHANGED <<channel, fd, ThreadRest>>

\* blocking_send: waits for room, fails when the worker has left.
Forward == /\ reader = "send"
           /\ \/ worker # "ended" /\ channel < ChannelCap /\ channel' = channel + 1
                 /\ reader' = "read"
              \/ worker = "ended" /\ reader' = "close" /\ UNCHANGED channel
           /\ UNCHANGED <<output, fd, ThreadRest>>

\* close, and then the sender is dropped.
CloseFd == /\ reader = "close"
           /\ IF fd = "open" THEN fd' = "closed" /\ UNCHANGED reader
                             ELSE reader' = "ended" /\ UNCHANGED fd
           /\ UNCHANGED <<output, channel, ThreadRest>>

------------------------------------------------------------------------------
(* The shell and its reaper.                                                *)

Echo == /\ child = "running" /\ input > 0 /\ output < PtyCap
        /\ input' = input - 1 /\ output' = output + 1
        /\ UNCHANGED <<request, worker, left, writes, reader, channel, fd, stray, child, reaper, told>>

Exit == /\ child = "running" /\ child' = "zombie"
        /\ UNCHANGED <<request, worker, left, writes, input, output, reader, channel, fd, stray,
                       reaper, told>>

ReaperRest == <<request, worker, left, writes, input, output, reader, channel, fd, stray, told>>

\* SIGHUP: the shell ends, or ignores it.
Hup == /\ reaper = "hup" /\ reaper' = "wait"
       /\ child' \in (IF child = "running" THEN {"running", "zombie"} ELSE {child})
       /\ UNCHANGED ReaperRest

\* Bug variant: a shell that ignores SIGHUP is left alone.
ReapOnly == /\ reaper = "wait"
            /\ child' = (IF child = "zombie" THEN "reaped" ELSE child) /\ reaper' = "done"
            /\ UNCHANGED ReaperRest

\* try_wait for two seconds, then SIGKILL.
Reap == /\ reaper = "wait"
        /\ \/ child = "zombie" /\ child' = "reaped" /\ reaper' = "done"
           \/ child = "running" /\ reaper' = "kill" /\ UNCHANGED child
        /\ UNCHANGED ReaperRest

Kill == /\ reaper = "kill" /\ child' = "reaped" /\ reaper' = "done"
        /\ UNCHANGED ReaperRest

Worker == WritePiece \/ TakeOutput \/ TakeEnd \/ TellClosed
Thread == Read \/ Forward \/ CloseFd

LocalNext == \/ Disconnect \/ TakeWrite \/ WritePiece \/ TakeOutput \/ TakeEnd \/ TellClosed
             \/ Read \/ Forward \/ CloseFd \/ Echo \/ Exit \/ Hup \/ Reap \/ Kill

\* Worker, thread, reaper and the copying program are scheduled; the worker's select
\* takes every branch again and again.  The shell may run for ever.
LocalSpec == /\ LocalInit /\ [][LocalNext]_localVars
             /\ WF_localVars(Worker) /\ SF_localVars(TakeEnd) /\ WF_localVars(Thread)
             /\ WF_localVars(Echo) /\ WF_localVars(Hup \/ Reap \/ Kill)

------------------------------------------------------------------------------
\* The descriptor is closed by the thread only, once the shell is gone or the worker
\* has left; it is not leaked, the shell never stays a zombie, and it does not outlive
\* its tab even when it ignores the hang-up (connection.rs:1402-1428, 1532-1554).
ShellCleanedUp ==
  worker = "ended" ~> child = "reaped" /\ fd = "closed"

\* A disconnect is carried out, whatever the worker is writing
\* (connection.rs:1536-1537: "the Closed event goes out immediately").
DisconnectCloses == request ~> told
==============================================================================
