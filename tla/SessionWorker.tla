---------------------------- MODULE SessionWorker ----------------------------
(***************************************************************************)
(* One SSH tab: the session state the UI keeps (openterm-app/src/update.rs *)
(* and session.rs) and the connection worker behind it (connection.rs),    *)
(* with the bounded command channel to the worker and the event stream     *)
(* back.  The UI handles one message at a time; the worker does not read   *)
(* commands while it dials, probes for tmux or tears a connection down.    *)
(***************************************************************************)
EXTENDS Integers, Sequences

CONSTANTS CmdCap,         \* capacity of the command channel (256 in the code)
          MaxDisconnects, \* bound: how often the user presses Disconnect
          Typing          \* whether the user types into a connected tab

ASSUME SessionAssumption == /\ CmdCap \in Nat \ {0}
                            /\ MaxDisconnects \in Nat
                            /\ Typing \in BOOLEAN

VARIABLES
  phase,     \* Session::phase, with Closed split by its reason
  userDisc,  \* Session::user_disconnect
  due,       \* Session::reconnect_at is set
  hostKey,   \* a host key awaits the user's decision
  exitCode,  \* Session::exit_code is set
  hasTx,     \* Session::cmd_tx is set
  pending,   \* Session::pending_connect is set
  cmds,      \* the command channel
  evts,      \* the event stream
  worker,    \* where the worker is
  exited,    \* run_connection's shell_exited
  clean,     \* the outcome of the shell loop is Disconnected
  tab,       \* open, closing (the collapse animation runs) or gone
  presses,   \* Disconnects pressed so far, at most MaxDisconnects
  searching, \* the history search is open, with no other overlay above it
  bounced    \* the last Connect was refused by try_send (for the properties)

uiVars     == <<phase, userDisc, due, hostKey, exitCode, hasTx, pending, bounced>>
workerVars == <<worker, exited, clean>>
vars == <<uiVars, cmds, evts, workerVars, tab, presses, searching>>

Closed   == {"User", "Remote", "Exited"}
Phases   == {"Idle", "Connecting", "Connected", "Reconnecting", "Failed"} \cup Closed
Commands == {"Connect", "Disconnect", "Write"}
Events   == {"Ready", "Connecting", "Connected", "HostKeyRequired", "Exit",
             "Closed", "ClosedClean", "Failed", "FailedFatal"}
\* await: waiting for a Connect; probe: connected, before the select loop
Places   == {"start", "await", "dial", "probe", "run", "teardown", "dead"}

\* The type invariant.
TypeOK == /\ phase \in Phases
          /\ {userDisc, due, hostKey, exitCode, hasTx, pending, exited, clean} \subseteq BOOLEAN
          /\ cmds \in Seq(Commands) /\ Len(cmds) <= CmdCap
          /\ evts \in Seq(Events)
          /\ worker \in Places
          /\ presses \in 0 .. MaxDisconnects
          /\ {searching, bounced} \subseteq BOOLEAN

IsActive(p) == p \in {"Connecting", "Connected", "Reconnecting"}

\* Bug variant: the command channel is unbounded.
TrySendUnbounded(cmd) == cmds' = IF worker # "dead" THEN Append(cmds, cmd) ELSE cmds

Room == Len(cmds) < CmdCap /\ worker # "dead"

\* try_send: the result is ignored, so a full channel or a dead worker swallows it.
TrySend(cmd) == cmds' = IF Room THEN Append(cmds, cmd) ELSE cmds
TryConnect   == TrySend("Connect") /\ bounced' = ~Room
Emit(evt) == evts' = Append(evts, evt)

\* Bug variant: a Connect pressed before the channel is known is lost.
SendConnectNow == IF hasTx THEN TryConnect /\ UNCHANGED pending
                           ELSE UNCHANGED <<pending, bounced, cmds>>

\* Dispatch a Connect, or park it until the worker has announced its channel.
SendConnect == IF hasTx THEN TryConnect /\ UNCHANGED pending
                        ELSE pending' = TRUE /\ UNCHANGED <<cmds, bounced>>

Init == /\ phase = "Idle"
        /\ userDisc = FALSE /\ due = FALSE /\ hostKey = FALSE /\ exitCode = FALSE
        /\ hasTx = FALSE /\ pending = FALSE
        /\ cmds = <<>> /\ evts = <<>>
        /\ worker = "start" /\ exited = FALSE /\ clean = FALSE
        /\ tab = "open" /\ presses = 0 /\ searching = FALSE /\ bounced = FALSE

------------------------------------------------------------------------------
(* The user and the reconnect timer. *)

\* The tab exists; a tab that collapses still does.
Shown == tab # "gone"

\* connect_active; build_route may reject the configuration.
Connect ==
  /\ Shown /\ ~IsActive(phase)
  /\ \/ /\ phase' = "Connecting"
        /\ hostKey' = FALSE /\ due' = FALSE /\ userDisc' = FALSE
        /\ SendConnect
     \/ /\ phase' = "Failed"
        /\ UNCHANGED <<hostKey, due, userDisc, pending, bounced, cmds>>
  /\ UNCHANGED <<exitCode, hasTx, evts, workerVars, tab, presses, searching>>

\* The Disconnect button is shown while the tab is Connected.
Disconnect ==
  /\ Shown /\ phase = "Connected" /\ presses < MaxDisconnects
  /\ TrySend("Disconnect")
  /\ userDisc' = TRUE
  /\ presses' = presses + 1
  /\ UNCHANGED <<phase, due, hostKey, exitCode, hasTx, pending, bounced, evts, workerVars, tab,
                 searching>>

Type ==
  /\ Shown /\ Typing /\ phase = "Connected"
  /\ TrySend("Write")
  /\ UNCHANGED <<uiVars, evts, workerVars, tab, presses, searching>>

OpenSearch ==
  /\ Shown /\ ~searching
  /\ searching' = TRUE
  /\ UNCHANGED <<uiVars, cmds, evts, workerVars, tab, presses>>

\* Escape closes the search; Enter writes the command found, whatever the phase.
CloseSearch ==
  /\ Shown /\ searching
  /\ searching' = FALSE
  /\ UNCHANGED cmds \/ (hasTx /\ TrySend("Write"))
  /\ UNCHANGED <<uiVars, evts, workerVars, tab, presses>>

\* The key may fail to be saved, or the route to be built.
AcceptHostKey ==
  /\ Shown /\ hostKey
  /\ hostKey' = FALSE
  /\ \/ /\ phase' = "Connecting"
        /\ userDisc' = FALSE
        /\ SendConnect
     \/ /\ phase' = "Failed"
        /\ UNCHANGED <<userDisc, pending, bounced, cmds>>
  /\ UNCHANGED <<due, exitCode, hasTx, evts, workerVars, tab, presses, searching>>

RejectHostKey ==
  /\ Shown /\ hostKey
  /\ hostKey' = FALSE
  /\ phase' = "Failed"
  /\ UNCHANGED <<userDisc, due, exitCode, hasTx, pending, bounced, cmds, evts, workerVars, tab,
                 presses, searching>>

\* Bug variant: the configuration is loaded into a tab that is still connected.
LoadConfigAnyTab ==
  /\ Shown
  /\ phase' = "Idle"
  /\ UNCHANGED <<userDisc, due, hostKey, exitCode, hasTx, pending, bounced, cmds, evts,
                 workerVars, tab, presses, searching>>

\* load_config_into_slot reuses a tab that is not active.
LoadConfig ==
  /\ Shown /\ ~IsActive(phase)
  /\ phase' = "Idle"
  /\ UNCHANGED <<userDisc, due, hostKey, exitCode, hasTx, pending, bounced, cmds, evts,
                 workerVars, tab, presses, searching>>

\* dispatch_reconnect, once the backoff has expired.  The app does not subscribe to
\* the heartbeat while the history search owns the keyboard (subscription.rs:180).
ReconnectTick ==
  /\ Shown /\ phase = "Reconnecting" /\ due /\ ~searching
  /\ due' = FALSE
  /\ \/ /\ userDisc' = FALSE /\ hostKey' = FALSE
        /\ SendConnect
        /\ UNCHANGED phase
     \/ /\ phase' = "Failed"
        /\ UNCHANGED <<userDisc, hostKey, pending, bounced, cmds>>
  /\ UNCHANGED <<exitCode, hasTx, evts, workerVars, tab, presses, searching>>

\* close_tab asks the worker to disconnect; the only tab is replaced at once,
\* any other collapses first.
CloseTab ==
  /\ tab = "open"
  /\ IF hasTx THEN TrySend("Disconnect") ELSE UNCHANGED cmds
  /\ tab' = "closing"
  /\ UNCHANGED <<uiVars, evts, workerVars, presses, searching>>

\* The session is removed, and with it the subscription that runs the worker.
FinalizeClose ==
  /\ tab = "closing"
  /\ tab' = "gone"
  /\ worker' = "dead"
  /\ cmds' = <<>> /\ evts' = <<>>
  /\ UNCHANGED <<uiVars, exited, clean, presses, searching>>

------------------------------------------------------------------------------
(* handle_conn_event *)

Take(evt) == evts # <<>> /\ Head(evts) = evt /\ evts' = Tail(evts)

OnReady ==
  /\ Take("Ready")
  /\ hasTx' = TRUE
  /\ pending' = FALSE
  /\ IF pending THEN TryConnect ELSE UNCHANGED <<cmds, bounced>>
  /\ UNCHANGED <<phase, userDisc, due, hostKey, exitCode, workerVars, tab, presses, searching>>

OnConnecting ==
  /\ Take("Connecting")
  /\ phase' = IF phase = "Reconnecting" THEN phase ELSE "Connecting"
  /\ UNCHANGED <<userDisc, due, hostKey, exitCode, hasTx, pending, bounced, cmds, workerVars,
                 tab, presses, searching>>

OnConnected ==
  /\ Take("Connected")
  /\ phase' = "Connected"
  /\ exitCode' = FALSE /\ hostKey' = FALSE /\ due' = FALSE /\ userDisc' = FALSE
  /\ UNCHANGED <<hasTx, pending, bounced, cmds, workerVars, tab, presses, searching>>

OnHostKeyRequired ==
  /\ Take("HostKeyRequired")
  /\ hostKey' = TRUE
  /\ phase' = "Connecting"
  /\ UNCHANGED <<userDisc, due, exitCode, hasTx, pending, bounced, cmds, workerVars, tab,
                 presses, searching>>

OnExit ==
  /\ Take("Exit")
  /\ exitCode' = TRUE
  /\ UNCHANGED <<phase, userDisc, due, hostKey, hasTx, pending, bounced, cmds, workerVars, tab,
                 presses, searching>>

\* Bug variant: the user's own disconnect is looked at last.
AfterCloseUserLast(isClean, auto) ==
  IF phase = "Connected" /\ auto /\ ~isClean THEN "Reconnecting"
  ELSE IF userDisc THEN "User"
  ELSE IF isClean THEN "Exited"
  ELSE "Remote"

\* Phase::after_close; auto is the user's setting.
AfterClose(isClean, auto) ==
  IF userDisc THEN "User"
  ELSE IF isClean THEN "Exited"
  ELSE IF phase = "Connected" /\ auto THEN "Reconnecting"
  ELSE "Remote"

\* Session::on_closed
OnClosed(isClean, auto) ==
  /\ Take(IF isClean THEN "ClosedClean" ELSE "Closed")
  /\ phase' = AfterClose(isClean, auto)
  /\ due' = (phase' = "Reconnecting")
  /\ userDisc' = FALSE /\ exitCode' = FALSE
  /\ UNCHANGED <<hostKey, hasTx, pending, bounced, cmds, workerVars, tab, presses, searching>>

\* Session::on_failed: only a retryable failure goes on with the backoff loop.
OnFailed(fatal) ==
  /\ Take(IF fatal THEN "FailedFatal" ELSE "Failed")
  /\ IF phase = "Reconnecting" /\ ~fatal
     THEN due' = TRUE /\ UNCHANGED phase
     ELSE phase' = "Failed" /\ UNCHANGED due
  /\ UNCHANGED <<userDisc, hostKey, exitCode, hasTx, pending, bounced, cmds, workerVars, tab,
                 presses, searching>>

------------------------------------------------------------------------------
(* The worker. *)

Announce ==
  /\ worker = "start"
  /\ Emit("Ready")
  /\ worker' = "await"
  /\ UNCHANGED <<uiVars, cmds, exited, clean, tab, presses, searching>>

\* Between connections: a Connect starts one, a Disconnect ends the worker, and
\* anything else is thrown away.
Await ==
  /\ worker = "await" /\ cmds # <<>>
  /\ cmds' = Tail(cmds)
  /\ \/ /\ Head(cmds) = "Connect"
        /\ worker' = "dial"
        /\ Emit("Connecting")
     \/ /\ Head(cmds) = "Disconnect"
        /\ worker' = "dead"
        /\ UNCHANGED evts
     \/ /\ Head(cmds) = "Write"
        /\ UNCHANGED <<worker, evts>>
  /\ UNCHANGED <<uiVars, exited, clean, tab, presses, searching>>

DialOk ==
  /\ worker = "dial"
  /\ Emit("Connected")
  /\ worker' = "probe"
  /\ exited' = FALSE /\ clean' = FALSE
  /\ UNCHANGED <<uiVars, cmds, tab, presses, searching>>

DialRefused ==
  /\ worker = "dial"
  /\ \E evt \in {"HostKeyRequired", "Failed", "FailedFatal"} : Emit(evt)
  /\ worker' = "await"
  /\ UNCHANGED <<uiVars, cmds, exited, clean, tab, presses, searching>>

\* tmux probe and shell start; then the select loop runs.
StartShell ==
  /\ worker = "probe"
  /\ worker' = "run"
  /\ UNCHANGED <<uiVars, cmds, evts, exited, clean, tab, presses, searching>>

\* A Write is forwarded to the shell and a second Connect is ignored.
RunCommand ==
  /\ worker = "run" /\ cmds # <<>>
  /\ cmds' = Tail(cmds)
  /\ IF Head(cmds) = "Disconnect"
     THEN worker' = "teardown" /\ clean' = TRUE
     ELSE UNCHANGED <<worker, clean>>
  /\ UNCHANGED <<uiVars, evts, exited, tab, presses, searching>>

ShellExits ==
  /\ worker = "run" /\ ~exited
  /\ exited' = TRUE
  /\ Emit("Exit")
  /\ UNCHANGED <<uiVars, cmds, worker, clean, tab, presses, searching>>

\* The channel closed or the transport dropped.
ShellCloses ==
  /\ worker = "run"
  /\ worker' = "teardown"
  /\ UNCHANGED <<uiVars, cmds, evts, exited, clean, tab, presses, searching>>

TearDown ==
  /\ worker = "teardown"
  /\ Emit(IF exited \/ clean THEN "ClosedClean" ELSE "Closed")
  /\ worker' = "await"
  /\ UNCHANGED <<uiVars, cmds, exited, clean, tab, presses, searching>>

------------------------------------------------------------------------------
HandleEvent == \/ OnReady \/ OnConnecting \/ OnConnected \/ OnHostKeyRequired \/ OnExit
               \/ \E isClean, auto \in BOOLEAN : OnClosed(isClean, auto)
               \/ \E fatal \in BOOLEAN : OnFailed(fatal)
User == Connect \/ Disconnect \/ Type \/ AcceptHostKey \/ RejectHostKey \/ LoadConfig
        \/ OpenSearch \/ CloseSearch
Dial == DialOk \/ DialRefused
Work == Announce \/ Await \/ Dial \/ StartShell \/ RunCommand \/ TearDown
Shell == ShellExits \/ ShellCloses

Gone == tab = "gone" /\ UNCHANGED vars

Next == \/ User \/ ReconnectTick \/ HandleEvent \/ Work \/ Shell
        \/ CloseTab \/ FinalizeClose \/ Gone

Spec == Init /\ [][Next]_vars

(* The UI loop handles every event, the worker's dials, probes and teardowns
   are bounded by timeouts, and the heartbeat ticks while the app is subscribed
   to it: that it is not during a history search is in the guard of
   ReconnectTick, and no one owes the search an end.  Nor do the user and the
   remote shell owe anything.                                                 *)
FairSpec == Spec /\ WF_vars(HandleEvent) /\ WF_vars(Work) /\ WF_vars(ReconnectTick)
------------------------------------------------------------------------------
\* The worker is idle and no event or command can make it otherwise.
Quiescent == /\ worker \in {"start", "await", "dead"}
             /\ \A i \in DOMAIN cmds : cmds[i] # "Connect"
             /\ \A i \in DOMAIN evts : evts[i] \in {"Ready"}
             /\ ~pending

\* A tab that is not active has no connection behind it, none being dialed and
\* none on its way: no event can revive a tab the user sees as ended
\* (session.rs:232-234 "the single source of truth").
NoGhostConnection == ~IsActive(phase) => Quiescent

\* A Connect reaches a worker that waits for one: it is never swallowed by a
\* worker that still has a connection, and never queued twice
\* (connection.rs:462-464).
ConnectNeverWasted ==
  LET queued == {i \in DOMAIN cmds : cmds[i] = "Connect"}
  IN /\ \A i, j \in queued : i = j
     /\ queued # {} => ~pending /\ worker \in {"await", "dead"}

\* Once the user has pressed Disconnect on a connected tab it becomes
\* "Disconnected" and nothing else, whatever the remote end does meanwhile
\* (session.rs:322-325, 996-998).
UserDisconnectWins ==
  [][phase = "Connected" /\ userDisc => phase' \in {"Connected", "User"}]_vars

\* The phase shown follows the connection: between the worker's Connected and
\* its Closed the tab is Connected or about to be, and a tab shown Connected
\* has a connection or is about to hear that it ended.
ConnectedIsTrue ==
  phase = "Connected" /\ tab # "gone" =>
    \/ worker \in {"probe", "run", "teardown"}
    \/ \E i \in DOMAIN evts : evts[i] \in {"Closed", "ClosedClean"}

\* The phase shown agrees with the worker and the channels between them.
SessionSound == NoGhostConnection /\ ConnectNeverWasted /\ ConnectedIsTrue

\* Nobody will answer the attempt: its Connect was refused, or the worker has died.
Unheard == bounced \/ worker = "dead"

\* A connect attempt comes to an end or to a host key question, if its Connect was heard.
ConnectSettles ==
  phase = "Connecting" ~> (phase # "Connecting" \/ hostKey \/ tab # "open" \/ Unheard)

\* "While any session sits in the backoff window a 250 ms heartbeat checks whether a retry is
\* due" (subscription.rs:68-69): a tab that is reconnecting dials again, for as long as it is
\* reconnecting - but not under a history search, nor after a Connect that was not heard.
ReconnectKeepsTrying ==
  phase = "Reconnecting"
    ~> (worker = "dial" \/ phase # "Reconnecting" \/ tab # "open" \/ searching \/ Unheard)

\* "The worker lives as long as the session exists (across connect/disconnect
\* cycles), so reconnect reuses the same channel" (subscription.rs:13-14).
WorkerLives == tab = "open" => worker # "dead"
==============================================================================
