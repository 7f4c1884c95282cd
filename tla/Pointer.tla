------------------------------- MODULE Pointer -------------------------------
(***************************************************************************)
(* The mouse on the terminal: the canvas's `update`, which selects text    *)
(* locally or reports to the remote program according to the mouse modes   *)
(* of the moment, the selection the session commits, the context menu, and *)
(* the overlay that draws the selection.                                   *)
(*                                                                         *)
(* A cell is <<column, row>>.  The last column of Cells lies beyond the    *)
(* grid: pos_to_cell clamps the row, never the column.  A row of text is   *)
(* given by its classes of characters: "w" belongs to words and URLs, "h"  *)
(* starts a URL's scheme, "?" belongs to URLs only and " " to neither.     *)
(* Whether a click is quick enough to follow up another is the user's      *)
(* choice, and so is what the remote program does to its mouse modes.      *)
(***************************************************************************)
EXTENDS Integers, FiniteSets

CONSTANTS Cols, MaxRows,   \* the grid's columns and the most rows it may have
          Text,            \* the text of each row, by column
          Modes,           \* mouse protocols the remote program may ask for
          X10Limit,        \* columns the legacy encoding can name
          Wheel, Notch     \* wheel deltas, in parts of a line; Notch parts make a line

VARIABLES rows,       \* rows of the grid
          mode,       \* session.terminal.mouse_protocol()
          shift,      \* Shift is held
          down,       \* buttons that are down
          canvas,     \* SelectionState
          selection,  \* session.selection
          menu,       \* app.terminal_menu is open
          told,       \* the button the remote program was told is down
          astray,     \* a button went up and it was not told
          covered,    \* the selection was set without the canvas
          owed        \* parts of lines wheeled that the remote program has not scrolled

pointerVars == <<rows, mode, shift, down, canvas, selection, menu, told, astray, covered, owed>>

None == <<>>        \* no cell, no selection
Outside == <<>>     \* the pointer is beside the terminal
NoButton == "none"
Buttons == {"left", "middle", "right"}
Cells == (0 .. Cols) \X (0 .. MaxRows - 1)
Spots == {c \in Cells : c[2] < rows} \cup {Outside}

------------------------------------------------------------------------------
\* The maximal run of characters in S about a cell of the grid, as columns.
Run(S, c) ==
  LET col == IF c[1] < Cols THEN c[1] ELSE Cols - 1
      Between(a, b) == IF a <= b THEN a .. b ELSE b .. a
  IN  {k \in 0 .. Cols - 1 : \A j \in Between(k, col) : Text[c[2]][j] \in S}
LowEnd(S) == CHOOSE k \in S : \A j \in S : k <= j
HighEnd(S) == CHOOSE k \in S : \A j \in S : j <= k
WordAt(c) == Run({"w", "h"}, c)
UrlAt(c) == \E k \in Run({"w", "h", "?"}, c) : Text[c[2]][k] = "h"

\* A selection from its upper end to its lower, and the cells of it that are on the grid:
\* as selected_text collects them, row by row, and as in_selection tints them.
Ordered(s, e) == IF s[2] < e[2] \/ (s[2] = e[2] /\ s[1] <= e[1]) THEN <<s, e>> ELSE <<e, s>>
Copied(sel) ==
  LET o == Ordered(sel[1], sel[2])
      First(r) == IF r = o[1][2] THEN o[1][1] ELSE 0
      Last(r)  == IF r = o[2][2] /\ o[2][1] < Cols THEN o[2][1] ELSE Cols - 1
  IN  (UNION {{<<k, r>> : k \in First(r) .. Last(r)} : r \in o[1][2] .. o[2][2]}) \cap {c \in Cells : c[2] < rows}
Tinted(sel) ==
  LET o == Ordered(sel[1], sel[2])
      Inside(c) == /\ c[2] \in o[1][2] .. o[2][2]
                   /\ c[2] = o[1][2] => c[1] >= o[1][1]
                   /\ c[2] = o[2][2] => c[1] <= o[2][1]
  IN  {c \in (0 .. Cols - 1) \X (0 .. rows - 1) : Inside(c)}

\* The selection the overlay draws: the drag in progress or finished, or the session's.
Shown ==
  IF canvas.start # None /\ canvas.end # None /\ (canvas.dragging \/ canvas.start # canvas.end)
  THEN <<canvas.start, canvas.end>> ELSE selection

\* The event is on the terminal, and encode_mouse_report finds a form for it.
Encodes(c) == c # Outside /\ (mode.sgr \/ c[1] < X10Limit)
Reporting == mode.report /\ ~shift

------------------------------------------------------------------------------
PointerInit ==
  /\ rows = MaxRows /\ mode \in Modes /\ shift = FALSE /\ down = {}
  /\ canvas = [dragging |-> FALSE, start |-> None, end |-> None, last |-> None, streak |-> 0,
               held |-> NoButton, at |-> None, accum |-> 0]
  /\ selection = None /\ menu = FALSE /\ told = NoButton /\ astray = FALSE /\ covered = FALSE /\ owed = 0

\* The right button opens the menu whoever reads the mouse.
OpenMenu(p) ==
  /\ "right" \notin down /\ p # Outside
  /\ menu' = TRUE
  /\ UNCHANGED <<rows, mode, shift, down, canvas, selection, told, astray, covered, owed>>

\* A press the remote program is told of; it may lie where X10 cannot say so.
PressReported(b, p) ==
  /\ Reporting /\ b \in {"left", "middle"} \ down
  /\ down' = down \cup {b}
  /\ canvas' = IF p = Outside THEN canvas ELSE [canvas EXCEPT !.held = b, !.at = p]
  /\ told' = IF Encodes(p) THEN b ELSE told
  /\ UNCHANGED <<rows, mode, shift, selection, menu, astray, covered, owed>>

\* A release of which it is told, provided the pointer is still on the terminal.
ReleaseReported(b, p) ==
  /\ Reporting /\ b \in down
  /\ down' = down \ {b}
  /\ canvas' = IF p = Outside THEN canvas ELSE [canvas EXCEPT !.held = NoButton, !.at = None]
  /\ told' = IF Encodes(p) THEN NoButton ELSE told
  /\ astray' = (astray \/ b \in {told', canvas'.held})
  /\ UNCHANGED <<rows, mode, shift, selection, menu, covered, owed>>

\* The modes ask for a motion report.
WantMotion == (mode.drag /\ canvas.held # NoButton) \/ mode.any

MoveReported(p) ==
  /\ Reporting /\ WantMotion /\ p \notin {Outside, canvas.at}
  /\ canvas' = [canvas EXCEPT !.at = p]
  /\ told' = IF Encodes(p) THEN canvas.held ELSE told
  /\ UNCHANGED <<rows, mode, shift, down, selection, menu, astray, covered, owed>>

------------------------------------------------------------------------------
\* A left press that selects: a third quick one the line, a second the word under it, any
\* other starts a drag and clears the selection.
Clicked(c, streak) ==
  LET word == WordAt(c)
      Whole(s, e, n) == [canvas EXCEPT !.dragging = FALSE, !.start = s, !.end = e, !.streak = n, !.last = c]
  IN  CASE streak >= 3 -> Whole(<<0, c[2]>>, <<Cols - 1, c[2]>>, 0)
        [] streak = 2 /\ word # {} -> Whole(<<LowEnd(word), c[2]>>, <<HighEnd(word), c[2]>>, 2)
        [] OTHER -> [canvas EXCEPT !.dragging = TRUE, !.start = c, !.end = c, !.streak = streak, !.last = c]

PressSelects(c, quick) ==
  LET next == Clicked(c, IF quick THEN canvas.streak + 1 ELSE 1)
  IN  /\ ~Reporting /\ "left" \notin down
      /\ quick => canvas.last = c
      /\ down' = down \cup {"left"}
      /\ canvas' = next
      /\ selection' = IF next.dragging THEN None ELSE <<next.start, next.end>>
      /\ menu' = FALSE /\ covered' = FALSE
      /\ UNCHANGED <<rows, mode, shift, told, astray, owed>>

\* With Ctrl or Cmd a press on a URL opens it and selects nothing.
PressOpensUrl(c) ==
  /\ ~Reporting /\ "left" \notin down /\ UrlAt(c)
  /\ down' = down \cup {"left"}
  /\ UNCHANGED <<rows, mode, shift, canvas, selection, menu, told, astray, covered, owed>>

\* A press beside the terminal, or of the middle button, is nobody's.
PressIgnored(b) ==
  /\ ~Reporting /\ b \in {"left", "middle"} \ down
  /\ down' = down \cup {b}
  /\ UNCHANGED <<rows, mode, shift, canvas, selection, menu, told, astray, covered, owed>>

Drag(c) ==
  /\ ~Reporting /\ canvas.dragging
  /\ canvas' = [canvas EXCEPT !.end = c]
  /\ UNCHANGED <<rows, mode, shift, down, selection, menu, told, astray, covered, owed>>

\* The end of a drag commits it, wherever the pointer is.
Release(b) ==
  LET ends == b = "left" /\ canvas.dragging
  IN  /\ ~Reporting /\ b \in down
      /\ down' = down \ {b}
      /\ canvas' = [canvas EXCEPT !.dragging = @ /\ ~ends]
      /\ selection' = IF ~ends THEN selection
                      ELSE IF canvas.start = canvas.end THEN None ELSE <<canvas.start, canvas.end>>
      /\ menu' = (menu /\ ~ends)
      /\ astray' = (astray \/ b \in {told, canvas.held})
      /\ UNCHANGED <<rows, mode, shift, told, covered, owed>>

\* On the alternate screen the wheel becomes arrow keys, a whole line at a time.
Lines(parts) == IF parts >= 0 THEN parts \div Notch ELSE -((-parts) \div Notch)
WheelArrows(d) ==
  LET sum == canvas.accum + d
      steps == Lines(sum)
  IN  /\ ~Reporting /\ mode.alternate
      /\ canvas' = [canvas EXCEPT !.accum = sum - steps * Notch]
      /\ owed' = owed + d - steps * Notch
      /\ UNCHANGED <<rows, mode, shift, down, selection, menu, told, astray, covered>>

------------------------------------------------------------------------------
\* The menu, and the keys that do the same.
SelectAll ==
  /\ menu' = FALSE
  /\ selection' = <<<<0, 0>>, <<Cols - 1, rows - 1>>>>
  /\ covered' = TRUE
  /\ UNCHANGED <<rows, mode, shift, down, canvas, told, astray, owed>>

\* Copy, Paste and Clear leave the selection as it is; so does a click beside the menu.
CloseMenu ==
  /\ menu /\ menu' = FALSE
  /\ UNCHANGED <<rows, mode, shift, down, canvas, selection, told, astray, covered, owed>>

\* The remote program changes its modes; the keyboard and the window their state.
SetMode(m) ==
  /\ m # mode /\ mode' = m
  /\ UNCHANGED <<rows, shift, down, canvas, selection, menu, told, astray, covered, owed>>
Shift ==
  /\ shift' = ~shift
  /\ UNCHANGED <<rows, mode, down, canvas, selection, menu, told, astray, covered, owed>>
Resize ==
  /\ rows' \in 1 .. MaxRows /\ rows' # rows
  /\ UNCHANGED <<mode, shift, down, canvas, selection, menu, told, astray, covered, owed>>

PointerNext ==
  \/ \E p \in Spots : \/ OpenMenu(p) \/ MoveReported(p)
                      \/ \E b \in Buttons : PressReported(b, p) \/ ReleaseReported(b, p)
  \/ \E c \in Spots \ {Outside} : \/ \E quick \in BOOLEAN : PressSelects(c, quick)
                                  \/ PressOpensUrl(c) \/ Drag(c)
  \/ \E b \in Buttons : PressIgnored(b) \/ Release(b)
  \/ \E d \in Wheel : WheelArrows(d)
  \/ SelectAll \/ CloseMenu \/ Shift \/ Resize
  \/ \E m \in Modes : SetMode(m)

PointerSpec == PointerInit /\ [][PointerNext]_pointerVars

------------------------------------------------------------------------------
\* The state is well formed.
TypeOK ==
  /\ rows \in 1 .. MaxRows /\ mode \in Modes
  /\ {shift, menu, astray, covered} \subseteq BOOLEAN
  /\ down \subseteq Buttons
  /\ canvas \in [dragging : BOOLEAN, start : Cells \cup {None}, end : Cells \cup {None},
                 last : Cells \cup {None}, streak : 0 .. 2, held : {"left", "middle", NoButton},
                 at : Cells \cup {None}, accum : (1 - Notch) .. (Notch - 1)]
  /\ selection \in (Cells \X Cells) \cup {None}
  /\ told \in {"left", "middle", NoButton} /\ owed \in Int

\* Once no drag is on, the selection drawn is the one Copy takes, unless Select All set it.
ShownIsCommitted == ~canvas.dragging /\ ~covered => Shown = selection

\* Copy takes the cells that are tinted, on a grid that has shrunk too.
TextIsTint == selection # None => Copied(selection) = Tinted(selection)

\* The remote program is told that a button is down only while it is, unless a release went
\* astray: beside the terminal, under Shift, past the columns X10 can name.
ToldIsDown == ~astray => {told, canvas.held} \subseteq down \cup {NoButton}

\* The wheel loses nothing: what is not scrolled yet is less than a line, and remembered.
WheelExact == owed = canvas.accum /\ owed < Notch /\ -owed < Notch

\* README: the selection that is drawn is always the one that is copied (fails after Select All).
SelectAllShows == ~canvas.dragging => Shown = selection
==============================================================================
