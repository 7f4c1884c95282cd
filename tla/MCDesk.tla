-------------------------------- MODULE MCDesk --------------------------------
(***************************************************************************)
(* The machines of the app's user interface in one run of TLC, checked for *)
(* safety.  They do not interact: a behaviour picks one machine in its     *)
(* first state and the others rest, so the run explores the sum of their   *)
(* state spaces.  The remote pane appears twice, with two tabs and with    *)
(* one of more rows; so does the mouse, with a remote program that reads   *)
(* it and on a grid of two rows.                                           *)
(***************************************************************************)
EXTENDS SessionWorker, FiniteSets, TLC

CONSTANTS MaxHistory, MaxLate,                          \* of the line
          Texts, SessionCap, MaxRows, MaxCommands,      \* of the history
          TwoTabs, OneTab, Dirs, FewNames, MoreNames, FewLists, MoreLists, MaxOps,  \* of the remote pane
          SmallFiles, LargeFiles, SmallSize, LargeSize, Page, Limit, MaxReads, MaxSaves,  \* of the viewer
          WindowSizes, GridCap,                         \* of the grid
          MaxTabs, Heights, MaxChanges,                 \* of the tab bar and the canvas
          Cols, PressRows, SelectRows, X10Limit, Notch, \* of the mouse
          LocalNames,                                   \* of the local pane
          Slots, MaxTime, MaxChart                      \* of the resource rail

ASSUME DeskAssumption ==
  /\ {MaxHistory, MaxLate, SessionCap, MaxRows, MaxCommands, FewLists, MoreLists, MaxOps, SmallSize,
      LargeSize, Page, Limit, MaxReads, MaxSaves, GridCap, MaxTabs, MaxChanges, Cols, PressRows,
      SelectRows, X10Limit, Notch, MaxTime, MaxChart} \subseteq Nat
  /\ 0 \notin {Page, MaxTabs, Cols, PressRows, SelectRows, Notch}
  /\ Page <= Limit /\ SmallSize <= Limit /\ Limit < LargeSize /\ "" \notin SmallFiles \cup LargeFiles
  /\ OneTab # {} /\ TwoTabs # {} /\ "b" \in Dirs /\ WindowSizes # {}
  /\ Heights # {} /\ Heights \subseteq Nat \ {0} /\ LocalNames \subseteq Nat \ {0}
  /\ IsFiniteSet(Slots) /\ IsFiniteSet(Dirs) /\ IsFiniteSet(LocalNames) /\ IsFiniteSet(OneTab \cup TwoTabs)

VARIABLES machine,
  line, typed, blind, enter, history, ghost, cache, query, connected,
  kept, running, got, memory, tasks, disk, steps, behind, shuffled,
  active, path, rows, chosen, lists, ops, confirm, prompt, adrift,
  viewer, reads, writes,
  window, known, deaf, shown, gridPhase, grid, gridDue, gridCmds, news, gridWorker, pty, lost,
  sessions, front, closing, opened, muted,
  cells, generation, search, current, snapshot, made, prev, syncedGeneration, syncedKey, drawn,
  grown, mode, shift, down, mouse, selection, menu, told, astray, covered, owed,
  files, folder, listed, marked, anchor, ascending, remoteAsc, clicked, popup, named, naming, picked,
  counters, up, online, panel, sampling, sample, charted, first, disorder, table, ports, dropped

\* Lines of a command "c" whose arguments are a flag and a directory, and a snippet "hh" for it.
Lines     == {<<"c", " ", "-", "h">>, <<"c", " ", "h", "h">>, <<"h", "h">>}
Strategy  == [c \in {<<>>, <<"c">>, <<"h">>, <<"h", "h">>} |-> "cd"]
Found     == {<<"h", "h">>}
Abbreviated == <<"h", "h">>
Expanded  == <<"c">>
Suggest == INSTANCE Suggestions WITH
             Typable <- Lines, StrategyTag <- Strategy, StaticFlags <- {}, Listing <- Found,
             Abbr <- Abbreviated, Expansion <- Expanded, MinTyped <- 1, sent <- typed
Store == INSTANCE History WITH Tabs <- TwoTabs
Panes == INSTANCE SftpPanel WITH Tabs <- TwoTabs, Names <- FewNames, MaxLists <- FewLists, shown <- rows
Pane == INSTANCE SftpPanel WITH Tabs <- OneTab, Names <- MoreNames, MaxLists <- MoreLists, shown <- rows
View == INSTANCE FileViewer WITH Small <- SmallFiles, Large <- LargeFiles
Size == INSTANCE GridSync WITH Sizes <- WindowSizes, CmdCap <- GridCap, phase <- gridPhase,
          due <- gridDue, cmds <- gridCmds, worker <- gridWorker
Bar == INSTANCE Tabs WITH active <- front
Canvas == INSTANCE RenderCache WITH MaxWrites <- MaxChanges, query <- search

\* A legacy program that wants drags, and one on the alternate screen that wants no mouse.
Legacy  == [report |-> TRUE, drag |-> TRUE, any |-> FALSE, sgr |-> FALSE, alternate |-> FALSE]
Keys    == [report |-> FALSE, drag |-> FALSE, any |-> FALSE, sgr |-> FALSE, alternate |-> TRUE]
Written == (0 :> (0 :> "h" @@ 1 :> "w") @@ 1 :> (0 :> " " @@ 1 :> "w"))
Turns   == {-2, 4}
Press == INSTANCE Pointer WITH MaxRows <- PressRows, Text <- Written, Modes <- {Legacy, Keys},
           Wheel <- {}, rows <- grown, canvas <- mouse
Select == INSTANCE Pointer WITH MaxRows <- SelectRows, Text <- Written, Modes <- {Keys},
            Wheel <- Turns, rows <- grown, canvas <- mouse
FolderAt(d, n) == IF d = "a" /\ n = 1 THEN "b" ELSE ""
Local == INSTANCE LocalPane WITH Names <- LocalNames, disk <- files,
           path <- folder, rows <- listed, chosen <- marked, menu <- popup, prompt <- naming
Printed == {{}, {"CPU", "NET"}}
Booted  == {[total |-> 1, idle |-> 0, bytes |-> 0], [total |-> 2, idle |-> 2, bytes |-> 1]}
Rail == INSTANCE Monitor WITH Prints <- Printed, Starts <- Booted,
          connected <- online, task <- sampling, prev <- sample

lineVars   == <<line, typed, blind, enter, history, ghost, cache, query, connected>>
storeVars  == <<kept, running, got, memory, tasks, disk, steps, behind, shuffled>>
paneVars   == <<active, path, rows, chosen, lists, ops, confirm, prompt, adrift>>
viewVars   == <<viewer, reads, writes>>
sizeVars   == <<window, known, deaf, shown, gridPhase, grid, gridDue, gridCmds, news, gridWorker,
                pty, lost>>
barVars    == <<sessions, front, closing, opened, muted>>
canvasVars == <<cells, generation, search, current, snapshot, made, prev, syncedGeneration,
                syncedKey, drawn>>

mouseVars  == <<grown, mode, shift, down, mouse, selection, menu, told, astray, covered, owed>>
localVars  == <<files, folder, listed, marked, anchor, ascending, remoteAsc, clicked, popup, named,
                naming, picked>>
railVars   == <<counters, up, online, panel, sampling, sample, charted, first, disorder,
                table, ports, dropped>>

MCInit ==
  /\ machine \in {"session", "line", "store", "panes", "pane", "view", "size", "bar", "canvas",
                 "press", "select", "local", "rail"}
  /\ Init /\ Suggest!SuggestInit /\ Store!HistoryInit
  /\ IF machine = "pane" THEN Pane!PanelInit ELSE Panes!PanelInit
  /\ View!ViewerInit /\ Size!GridInit /\ Bar!TabsInit /\ Canvas!RenderInit
  /\ IF machine = "press" THEN Press!PointerInit ELSE Select!PointerInit
  /\ Local!PaneInit /\ (machine # "local" => files = {}) /\ Rail!MonitorInit /\ (machine # "rail" => counters.idle = 0)

OfSession(A) ==
  /\ machine = "session"
  /\ A
  /\ UNCHANGED <<machine, lineVars, storeVars, paneVars, viewVars, sizeVars, barVars,
                 canvasVars, mouseVars, localVars, railVars>>
OfLine(A) ==
  /\ machine = "line"
  /\ A
  /\ UNCHANGED <<machine, vars, storeVars, paneVars, viewVars, sizeVars, barVars,
                 canvasVars, mouseVars, localVars, railVars>>
OfStore(A) ==
  /\ machine = "store"
  /\ A
  /\ UNCHANGED <<machine, vars, lineVars, paneVars, viewVars, sizeVars, barVars,
                 canvasVars, mouseVars, localVars, railVars>>
OfPane(m, A) ==
  /\ machine = m
  /\ A
  /\ UNCHANGED <<machine, vars, lineVars, storeVars, viewVars, sizeVars, barVars,
                 canvasVars, mouseVars, localVars, railVars>>
OfView(A) ==
  /\ machine = "view"
  /\ A
  /\ UNCHANGED <<machine, vars, lineVars, storeVars, paneVars, sizeVars, barVars,
                 canvasVars, mouseVars, localVars, railVars>>
OfSize(A) ==
  /\ machine = "size"
  /\ A
  /\ UNCHANGED <<machine, vars, lineVars, storeVars, paneVars, viewVars, barVars,
                 canvasVars, mouseVars, localVars, railVars>>
OfBar(A) ==
  /\ machine = "bar"
  /\ A
  /\ UNCHANGED <<machine, vars, lineVars, storeVars, paneVars, viewVars, sizeVars,
                 canvasVars, mouseVars, localVars, railVars>>
OfCanvas(A) ==
  /\ machine = "canvas"
  /\ A
  /\ UNCHANGED <<machine, vars, lineVars, storeVars, paneVars, viewVars, sizeVars,
                 barVars, mouseVars, localVars, railVars>>
OfMouse(m, A) ==
  /\ machine = m
  /\ A
  /\ UNCHANGED <<machine, vars, lineVars, storeVars, paneVars, viewVars, sizeVars,
                 barVars, canvasVars, localVars, railVars>>
OfLocal(A) ==
  /\ machine = "local"
  /\ A
  /\ UNCHANGED <<machine, vars, lineVars, storeVars, paneVars, viewVars, sizeVars,
                 barVars, canvasVars, mouseVars, railVars>>
OfRail(A) ==
  /\ machine = "rail"
  /\ A
  /\ UNCHANGED <<machine, vars, lineVars, storeVars, paneVars, viewVars, sizeVars,
                 barVars, canvasVars, mouseVars, localVars>>

MCNext ==
  \/ OfSession(Next) \/ OfLine(Suggest!SuggestNext) \/ OfStore(Store!HistoryNext)
  \/ OfPane("panes", Panes!PanelNext) \/ OfPane("pane", Pane!PanelNext)
  \/ OfView(View!ViewerNext) \/ OfSize(Size!GridNext) \/ OfBar(Bar!TabsNext) \/ OfCanvas(Canvas!RenderNext)
  \/ OfMouse("press", Press!PointerNext) \/ OfMouse("select", Select!PointerNext)
  \/ OfLocal(Local!PaneNext) \/ OfRail(Rail!MonitorNext)

MCSpec == MCInit /\ [][MCNext]_<<machine, vars, lineVars, storeVars, paneVars, viewVars, sizeVars,
                                 barVars, canvasVars, mouseVars, localVars, railVars>>

------------------------------------------------------------------------------
\* The machines' type invariants.
DeskTypesOK ==
  CASE machine = "session" -> TypeOK
    [] machine = "line"    -> Suggest!TypeOK
    [] machine = "store"   -> Store!TypeOK
    [] machine = "panes"   -> Panes!TypeOK
    [] machine = "pane"    -> Pane!TypeOK
    [] machine = "view"    -> View!TypeOK
    [] machine = "size"    -> Size!TypeOK
    [] machine = "bar"     -> Bar!TypeOK
    [] machine = "canvas"  -> Canvas!TypeOK
    [] machine = "press"   -> Press!TypeOK
    [] machine = "select"  -> Select!TypeOK
    [] machine = "local"   -> Local!TypeOK
    [] machine = "rail"    -> Rail!TypeOK

\* The terminal has the size that the app last worked out for its area, and once the channel
\* is quiet the remote PTY has the terminal's.
GridSound == Size!FitsKnownArea /\ Size!PtyHasTheGrid

\* The app's copy of the line is the shell's as long as the editor sees all that is sent, and it
\* does not flood the host with queries; what the mouse has selected is what is tinted and copied,
\* but for Select All, and the remote program is told of a button that is down only while it is,
\* unless a release went astray.
InputSound ==
  /\ Suggest!CopyIsTrue /\ Suggest!QueriesBounded
  /\ machine = "press"  => Press!ShownIsCommitted /\ Press!ToldIsDown
  /\ machine = "select" => Select!ShownIsCommitted /\ Select!TextIsTint /\ Select!WheelExact

\* Once the tasks are done the table holds what the history panel shows: exactly its newest
\* part when they ran in order, and as many of its commands when they did not.
DiskFollowsPanel == Store!DiskFollowsPanel

\* A pane's rows are those of its path; a delete dialog of the local pane names what it reaches,
\* one of the remote pane only with its own tab in front and at rest (SftpDeletes shows the
\* rest); the resource rail's charts and process table follow the samples.
PaneSound == /\ Local!SelectionIsPicked /\ Local!DeleteReachesNamed
             /\ Rail!ChartAddsUp /\ Rail!TableFollowsPanel
             /\ machine = "panes" => Panes!RowsOfPath /\ Panes!DialogNamesAll
             /\ machine = "pane"  => Pane!RowsOfPath /\ Pane!DialogNamesAll

\* What the viewer shows, edits and saves is a text of its own file, its last page is the file's
\* end, and a page is not saved for a whole; a file read as empty, or not read, is exempt.
ViewerSound == View!TextOfItsPath /\ View!LastPageIsTheEnd /\ View!NoPageIsSaved

\* Three things no step does: take a tab that the user disconnected back into a connection,
\* move the focus when a background tab goes, draw a frame of the terminal as it was.
DeskSteps == UserDisconnectWins /\ Bar!FocusStays /\ Canvas!FrameIsCurrent
==============================================================================
