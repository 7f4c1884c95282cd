------------------------------- MODULE ShellPump -------------------------------
(***************************************************************************)
(* The interactive shell of a connected tab: what the server sends travels *)
(* through the channel's buffer (wire), the shell pump (event_shell in     *)
(* openterm-ssh) and its event channel, the worker's OutputCoalescer and   *)
(* the UI's event channel (connection.rs, run_connection), to the terminal.*)
(* The last hop drops output when the UI lags.  Output is numbered in the  *)
(* order it is written; the exit status takes a number as well.            *)
(***************************************************************************)
EXTENDS Naturals, Sequences

CONSTANTS MaxItems,   \* bound: pieces of output, the exit status included
          EventCap,   \* capacity of pty_ev, 256 in the code
          BatchCap,   \* OUTPUT_BATCH_CAP, in pieces
          OutCap,     \* capacity of the UI's event channel, in messages
          Persistence \* the tab asks for a tmux session

VARIABLES
  hasTmux,   \* tmux is installed on the host
  shell,     \* the command the shell channel runs
  written,   \* pieces the server has sent
  sent,      \* which of exit, eof and close it has sent
  cut,       \* the transport is gone
  wire, pump, eof, ptyEvents,  \* event_shell
  worker, buf, out,            \* run_connection; a message in out is a row of items
  exited,    \* shell_exited
  seen,      \* what the UI has received
  lost       \* output was dropped, or cut off, on the way

pumpVars == <<hasTmux, shell, written, sent, cut, wire, pump, eof, ptyEvents, worker, buf, out,
              exited, seen, lost>>

Item == [kind : {"data", "exit", "eof", "close", "closed"}, n : 0 .. MaxItems]
Piece(n) == [kind |-> "data", n |-> n]
Mark(kind) == [kind |-> kind, n |-> 0]

\* The type invariant.
TypeOK ==
  /\ hasTmux \in BOOLEAN /\ shell \in {"none", "plain", "tmux"}
  /\ written \in 0 .. MaxItems /\ sent \subseteq {"exit", "eof", "close"}
  /\ {cut, eof, exited, lost} \subseteq BOOLEAN
  /\ pump \in {"idle", "run", "closing", "ended"}
  /\ worker \in {"probe", "loop", "exit", "closed", "done"}
  /\ {wire, ptyEvents, buf, seen} \subseteq Seq(Item) /\ out \in Seq(Seq(Item))
  /\ Len(ptyEvents) <= EventCap /\ Len(buf) < BatchCap /\ Len(out) <= OutCap

PumpInit ==
  /\ hasTmux \in BOOLEAN /\ shell = "none" /\ written = 0 /\ sent = {} /\ cut = FALSE
  /\ wire = <<>> /\ pump = "idle" /\ eof = FALSE /\ ptyEvents = <<>>
  /\ worker = "probe" /\ buf = <<>> /\ out = <<>> /\ exited = FALSE
  /\ seen = <<>> /\ lost = FALSE

------------------------------------------------------------------------------
(* The server and the network.                                              *)

ServerVars == <<hasTmux, shell, pump, eof, ptyEvents, worker, buf, out, exited, seen, lost>>

Write ==
  /\ pump = "run" /\ ~cut /\ sent = {} /\ written < MaxItems - 1
  /\ written' = written + 1 /\ wire' = Append(wire, Piece(written + 1))
  /\ UNCHANGED <<sent, cut, ServerVars>>

\* The exit status and the EOF come in either order, or not at all; the close last.
SendExit ==
  /\ pump = "run" /\ ~cut /\ sent \subseteq {"eof"}
  /\ written' = written + 1
  /\ wire' = Append(wire, [kind |-> "exit", n |-> written + 1])
  /\ sent' = sent \cup {"exit"}
  /\ UNCHANGED <<cut, ServerVars>>

SendMark(kind) ==
  /\ pump = "run" /\ ~cut /\ kind \notin sent /\ "close" \notin sent
  /\ wire' = Append(wire, Mark(kind)) /\ sent' = sent \cup {kind}
  /\ UNCHANGED <<written, cut, ServerVars>>

\* The transport goes; what has not arrived is lost.
Cut ==
  /\ pump = "run" /\ ~cut /\ cut' = TRUE
  /\ \E kept \in 0 .. Len(wire) : wire' = SubSeq(wire, 1, kept)
  /\ lost' = (lost \/ wire' # wire)
  /\ UNCHANGED <<hasTmux, shell, written, sent, pump, eof, ptyEvents, worker, buf, out, exited, seen>>

------------------------------------------------------------------------------
(* event_shell.                                                             *)

PumpRest == <<hasTmux, shell, written, sent, cut, worker, buf, out, exited, seen, lost>>

\* A message of the channel: output and the exit status are passed on, with
\* backpressure; EOF starts the grace period; the close ends the loop.
PumpMessage ==
  /\ pump = "run" /\ wire # <<>>
  /\ LET item == Head(wire)
     IN \/ /\ item.kind \in {"data", "exit"} /\ Len(ptyEvents) < EventCap
           /\ ptyEvents' = Append(ptyEvents, item) /\ UNCHANGED <<pump, eof>>
        \/ item.kind = "eof" /\ eof' = TRUE /\ UNCHANGED <<pump, ptyEvents>>
        \/ item.kind = "close" /\ pump' = "closing" /\ UNCHANGED <<eof, ptyEvents>>
  /\ wire' = Tail(wire)
  /\ UNCHANGED PumpRest

\* The channel is gone, or SHELL_CLOSE_GRACE has passed since the EOF.
PumpStops ==
  /\ pump = "run" /\ wire = <<>> /\ (cut \/ eof) /\ pump' = "closing"
  /\ UNCHANGED <<wire, eof, ptyEvents, PumpRest>>

\* Writing input to a dead channel ends event_shell without a Closed event.
PumpInputFails ==
  /\ pump = "run" /\ cut /\ pump' = "ended" /\ wire' = <<>>
  /\ lost' = (lost \/ wire # <<>>)
  /\ UNCHANGED <<hasTmux, shell, written, sent, cut, eof, ptyEvents, worker, buf, out, exited, seen>>

PumpClosed ==
  /\ pump = "closing" /\ Len(ptyEvents) < EventCap
  /\ ptyEvents' = Append(ptyEvents, Mark("closed")) /\ pump' = "ended" /\ wire' = <<>>
  /\ lost' = (lost \/ \E i \in DOMAIN wire : wire[i].kind \in {"data", "exit"})
  /\ UNCHANGED <<hasTmux, shell, written, sent, cut, eof, worker, buf, out, exited, seen>>

------------------------------------------------------------------------------
(* run_connection.                                                          *)

WorkerRest == <<hasTmux, written, sent, cut, wire, eof, seen>>

\* The probe for tmux: any answer counts as "found", only an error does not.
Probe ==
  /\ worker = "probe" /\ worker' = "loop" /\ pump' = "run"
  /\ shell' \in (IF Persistence THEN {"tmux", "plain"} ELSE {"plain"})
  /\ UNCHANGED <<ptyEvents, buf, out, exited, lost, WorkerRest>>

\* One merged message; try_send drops it when the UI's channel is full.
TrySend(pieces) ==
  \/ pieces = <<>> /\ UNCHANGED <<out, lost>>
  \/ pieces # <<>> /\ Len(out) < OutCap /\ out' = Append(out, pieces) /\ UNCHANGED lost
  \/ pieces # <<>> /\ Len(out) >= OutCap /\ lost' = TRUE /\ UNCHANGED out

WorkerOutput ==
  /\ worker = "loop" /\ ptyEvents # <<>> /\ Head(ptyEvents).kind = "data"
  /\ ptyEvents' = Tail(ptyEvents)
  /\ LET all == Append(buf, Head(ptyEvents))
     IN IF Len(all) >= BatchCap THEN TrySend(all) /\ buf' = <<>>
                                ELSE buf' = all /\ UNCHANGED <<out, lost>>
  /\ UNCHANGED <<shell, pump, worker, exited, WorkerRest>>

\* Bug variant: the exit status overtakes the buffered output.
WorkerExitUnflushed ==
  /\ worker = "loop" /\ ptyEvents # <<>> /\ Head(ptyEvents).kind = "exit"
  /\ worker' = "exit" /\ exited' = TRUE
  /\ UNCHANGED <<shell, pump, ptyEvents, buf, out, lost, WorkerRest>>

\* The exit status: flush first, then send it for certain.
WorkerExit ==
  /\ worker = "loop" /\ ptyEvents # <<>> /\ Head(ptyEvents).kind = "exit"
  /\ worker' = "exit" /\ exited' = TRUE
  /\ TrySend(buf) /\ buf' = <<>>
  /\ UNCHANGED <<shell, pump, ptyEvents, WorkerRest>>

WorkerTellExit ==
  /\ worker = "exit" /\ Len(out) < OutCap
  /\ out' = Append(out, <<Head(ptyEvents)>>) /\ ptyEvents' = Tail(ptyEvents)
  /\ worker' = "loop"
  /\ UNCHANGED <<shell, pump, buf, exited, lost, WorkerRest>>

\* Quiescence, or the frame tick.
WorkerFlush ==
  /\ worker = "loop" /\ buf # <<>>
  /\ TrySend(buf) /\ buf' = <<>>
  /\ UNCHANGED <<shell, pump, ptyEvents, worker, exited, WorkerRest>>

\* Closed, or the pump is gone.
WorkerShellClosed ==
  /\ worker = "loop"
  /\ \/ ptyEvents # <<>> /\ Head(ptyEvents).kind = "closed"
     \/ ptyEvents = <<>> /\ pump = "ended"
  /\ TrySend(buf) /\ buf' = <<>> /\ ptyEvents' = <<>>
  /\ worker' = "closed"
  /\ UNCHANGED <<shell, pump, exited, WorkerRest>>

\* The user disconnects: nothing is flushed.
WorkerDisconnect ==
  /\ worker = "loop" /\ worker' = "closed"
  /\ buf' = <<>> /\ ptyEvents' = <<>> /\ pump' = "ended" /\ lost' = TRUE
  /\ UNCHANGED <<shell, out, exited, WorkerRest>>

WorkerTellClosed ==
  /\ worker = "closed" /\ Len(out) < OutCap
  /\ out' = Append(out, <<Mark("closed")>>) /\ worker' = "done" /\ pump' = "ended"
  /\ UNCHANGED <<shell, ptyEvents, buf, exited, lost, WorkerRest>>

\* The UI's update loop.
UiReceives ==
  /\ out # <<>> /\ out' = Tail(out) /\ seen' = seen \o Head(out)
  /\ UNCHANGED <<hasTmux, shell, written, sent, cut, wire, pump, eof, ptyEvents, worker, buf,
                 exited, lost>>

Pump == PumpMessage \/ PumpStops \/ PumpClosed
Work == WorkerOutput \/ WorkerExit \/ WorkerTellExit \/ WorkerShellClosed \/ WorkerTellClosed

PumpNext == \/ Write \/ SendExit \/ SendMark("eof") \/ SendMark("close") \/ Cut
            \/ PumpMessage \/ PumpStops \/ PumpInputFails \/ PumpClosed
            \/ Probe \/ WorkerOutput \/ WorkerExit \/ WorkerTellExit \/ WorkerFlush
            \/ WorkerShellClosed \/ WorkerDisconnect \/ WorkerTellClosed \/ UiReceives

\* The runtime schedules the pump, the worker and the UI, the grace period ends and
\* the tick ticks; the server and the user owe nothing.
PumpSpec == /\ PumpInit /\ [][PumpNext]_pumpVars
            /\ WF_pumpVars(Pump) /\ WF_pumpVars(Work) /\ WF_pumpVars(WorkerFlush)
            /\ WF_pumpVars(UiReceives)

------------------------------------------------------------------------------
\* Everything on its way, the nearest to the user first, and where in it the numbered pieces are.
Stages == <<seen>> \o out \o <<buf, ptyEvents, wire>>
Numbered(k) == {i \in DOMAIN Stages[k] : Stages[k][i].n > 0}

\* Through two channels, the pump and the coalescer, output and exit status reach the
\* UI in the order they were written, with gaps only where something was dropped
\* (the flushes of connection.rs:651-678 before the exit and the close).
OutputInOrder ==
  /\ \A k, l \in DOMAIN Stages : \A i \in Numbered(k), j \in Numbered(l) :
       k < l \/ (k = l /\ i < j) => Stages[k][i].n < Stages[l][j].n
  /\ ~lost => UNION {{Stages[k][i].n : i \in Numbered(k)} : k \in DOMAIN Stages} = 1 .. written

\* Closed is the last the UI hears of a connection, and it hears the exit status before.
ClosedIsLast ==
  \A i \in DOMAIN seen : seen[i].kind = "closed" =>
    /\ i = Len(seen)
    /\ exited => \E j \in 1 .. i : seen[j].kind = "exit"

\* Buffered output is not kept back, and a shell that is closed, or whose transport is
\* gone, is closed in the UI.
OutputShown == buf # <<>> ~> buf = <<>>
EndShown == (pump = "run" /\ (cut \/ "close" \in sent)) ~> \E i \in DOMAIN seen : seen[i].kind = "closed"

\* Without tmux on the host the tab gets a plain shell (the comment in run_connection
\* before the probe).
PersistenceDegrades == shell = "tmux" => hasTmux
==============================================================================
