-------------------------------- MODULE GridSync --------------------------------
(***************************************************************************)
(* The size of a terminal: the app derives it from the window and the      *)
(* bands of the tab in front (current_grid, apply_grid), the worker hands  *)
(* it to the remote PTY.  One SSH tab beside an idle one; commands and     *)
(* events travel in bounded channels, and an overlay has no listener for   *)
(* the window's size.                                                      *)
(***************************************************************************)
EXTENDS Naturals, Sequences

CONSTANTS Sizes,   \* sizes of the window
          CmdCap   \* room in the command channel (256 in the code)

VARIABLES
  window, known,  \* the window's size, and window_size as the app knows it
  deaf,           \* an overlay is up
  shown,          \* the SSH tab is in front
  phase, grid,    \* of the SSH tab
  due,            \* reconnect_at
  cmds, news,     \* its channels to and from the worker
  worker, pty,    \* the worker, and the size of the PTY
  lost            \* a resize found a channel full since the connect

gridVars == <<window, known, deaf, shown, phase, grid, due, cmds, news, worker, pty,
             lost>>

\* A connected tab in front has a band above its terminal.
Grids == [window : Sizes, band : BOOLEAN]
Area(front, ph) == [window |-> known', band |-> front /\ ph = "connected"]
Phases == {"idle", "connecting", "connected", "reconnecting"}
IsActive(ph) == ph # "idle"

\* The type invariant.
TypeOK ==
  /\ window \in Sizes /\ known \in Sizes /\ deaf \in BOOLEAN
  /\ shown \in BOOLEAN /\ phase \in Phases /\ grid \in Grids /\ pty \in Grids
  /\ cmds \in Seq({<<"disconnect">>} \cup ({"connect", "resize"} \X Grids)) /\ Len(cmds) <= CmdCap
  /\ news \in Seq({"connected", "closed", "dropped", "failed"}) /\ Len(news) <= 2
  /\ worker \in {"idle", "dialing", "up", "gone"} /\ lost \in BOOLEAN /\ due \in BOOLEAN

GridInit ==
  /\ window = (CHOOSE size \in Sizes : TRUE) /\ known = window /\ deaf = FALSE /\ shown = TRUE
  /\ phase = "idle" /\ grid = [window |-> window, band |-> FALSE] /\ pty = grid
  /\ cmds = <<>> /\ news = <<>> /\ worker = "idle" /\ lost = FALSE
  /\ due = FALSE

HasRoom == Len(cmds) < CmdCap /\ worker # "gone"

\* Bug variant: a tab that is still connecting is not told.
ApplyConnected(front, ph) ==
  /\ grid' = Area(front, ph)
  /\ IF grid' = grid \/ ph # "connected" THEN UNCHANGED <<cmds, lost>>
     ELSE IF HasRoom THEN cmds' = Append(cmds, <<"resize", grid'>>) /\ UNCHANGED lost
     ELSE lost' = TRUE /\ UNCHANGED cmds

\* apply_grid: the new size goes to the worker of a tab that is connected or about to be.
Apply(front, ph) ==
  /\ grid' = Area(front, ph)
  /\ IF grid' = grid \/ ~IsActive(ph) THEN UNCHANGED <<cmds, lost>>
     ELSE IF HasRoom THEN cmds' = Append(cmds, <<"resize", grid'>>) /\ UNCHANGED lost
     ELSE lost' = TRUE /\ UNCHANGED cmds

------------------------------------------------------------------------------
(* The user and the window.                                                 *)

WindowResized(size) ==
  /\ size # window /\ window' = size
  /\ IF deaf THEN UNCHANGED <<known, grid, cmds, lost>>
     ELSE known' = size /\ Apply(shown, phase)
  /\ UNCHANGED <<deaf, shown, phase, due, news, worker, pty>>

\* Settings, the vault, the palette, a search: their subscriptions leave out the window.
Overlay ==
  /\ deaf' = ~deaf
  /\ UNCHANGED <<window, known, shown, phase, grid, due, cmds, news, worker, pty, lost>>

SelectTab ==
  /\ shown' = ~shown /\ UNCHANGED known /\ Apply(shown', phase)
  /\ UNCHANGED <<window, deaf, phase, due, news, worker, pty>>

\* connect_active and dispatch_reconnect: the command carries the size.
SendConnect ==
  IF HasRoom THEN cmds' = Append(cmds, <<"connect", grid'>>) /\ lost' = FALSE
  ELSE UNCHANGED <<cmds, lost>>

Connect ==
  /\ shown /\ phase = "idle" /\ phase' = "connecting" /\ UNCHANGED known
  /\ grid' = Area(TRUE, "idle") /\ SendConnect
  /\ UNCHANGED <<window, deaf, shown, due, news, worker, pty>>

Reconnect ==
  /\ phase = "reconnecting" /\ due /\ due' = FALSE /\ UNCHANGED grid /\ SendConnect
  /\ UNCHANGED <<window, known, deaf, shown, phase, news, worker, pty>>

Disconnect ==
  /\ phase = "connected" /\ HasRoom /\ cmds' = Append(cmds, <<"disconnect">>)
  /\ UNCHANGED <<window, known, deaf, shown, phase, grid, due, news, worker, pty, lost>>

------------------------------------------------------------------------------
(* The worker.                                                              *)

Tell(event) == Len(news) < 2 /\ news' = Append(news, event)

\* While it waits for a connect it drops resizes and a disconnect ends it; while it dials it
\* takes nothing.
TakeIdle ==
  /\ worker = "idle" /\ cmds # <<>> /\ cmds' = Tail(cmds)
  /\ CASE Head(cmds)[1] = "connect"    -> worker' = "dialing" /\ pty' = Head(cmds)[2]
       [] Head(cmds)[1] = "resize"     -> UNCHANGED <<worker, pty>>
       [] Head(cmds)[1] = "disconnect" -> worker' = "gone" /\ UNCHANGED pty
  /\ UNCHANGED <<window, known, deaf, shown, phase, grid, due, news, lost>>

Dialed(ok) ==
  /\ worker = "dialing"
  /\ IF ok THEN Tell("connected") /\ worker' = "up" ELSE Tell("failed") /\ worker' = "idle"
  /\ UNCHANGED <<window, known, deaf, shown, phase, grid, due, cmds, pty, lost>>

\* A resize goes through one more channel to the PTY, which may be full.
TakeUp ==
  /\ worker = "up" /\ cmds # <<>> /\ cmds' = Tail(cmds)
  /\ \/ /\ Head(cmds)[1] = "resize" /\ UNCHANGED <<worker, news>>
        /\ \/ pty' = Head(cmds)[2] /\ UNCHANGED lost
           \/ lost' = TRUE /\ UNCHANGED pty
     \/ /\ Head(cmds)[1] = "connect" /\ UNCHANGED <<worker, news, pty, lost>>
     \/ /\ Head(cmds)[1] = "disconnect" /\ Tell("closed") /\ worker' = "idle" /\ UNCHANGED <<pty, lost>>
  /\ UNCHANGED <<window, known, deaf, shown, phase, grid, due>>

Drop ==
  /\ worker = "up" /\ Tell("dropped") /\ worker' = "idle"
  /\ UNCHANGED <<window, known, deaf, shown, phase, grid, due, cmds, pty, lost>>

------------------------------------------------------------------------------
\* The app takes an event and derives the grid again: the band comes and goes.
After(event) ==
  CASE event = "connected" -> "connected"
    [] event = "closed"    -> "idle"
    [] event = "dropped"   -> IF phase = "connected" THEN "reconnecting" ELSE "idle"
    [] event = "failed"    -> IF phase = "reconnecting" THEN "reconnecting" ELSE "idle"

OnEvent ==
  /\ news # <<>> /\ news' = Tail(news) /\ phase' = After(Head(news)) /\ UNCHANGED known
  /\ Apply(shown, phase') /\ due' = (phase' = "reconnecting")
  /\ UNCHANGED <<window, deaf, shown, worker, pty>>

GridNext ==
  \/ \E size \in Sizes : WindowResized(size)
  \/ Overlay \/ SelectTab \/ Connect \/ Reconnect \/ Disconnect
  \/ TakeIdle \/ TakeUp \/ Drop \/ OnEvent \/ \E ok \in BOOLEAN : Dialed(ok)

GridSpec == GridInit /\ [][GridNext]_gridVars
------------------------------------------------------------------------------
(* Properties.                                                              *)

\* The terminal in front fits its area, as the app knows it.
FitsKnownArea == grid.window = known /\ (shown /\ phase = "connected" => grid.band)

\* Between messages the remote PTY has the size of the grid, wherever in the life of a
\* connection the window changed, unless a channel was full.
PtyHasTheGrid ==
  worker = "up" /\ phase = "connected" /\ cmds = <<>> /\ news = <<>> /\ ~lost => pty = grid

\* "Because the grid is derived from this exact area, the rendered grid never overflows"
\* (main.rs:1087-1088): violated, an overlay swallows the window's new size for good.
NeverOverflows == ~deaf => grid.window = window
================================================================================
