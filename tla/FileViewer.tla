------------------------------ MODULE FileViewer ------------------------------
(***************************************************************************)
(* The viewer beside the remote files: a small file is loaded whole and    *)
(* may be edited and written back, a large one is shown a page at a time.  *)
(* Reads and writes are tasks of the connection (spawn_read_file,          *)
(* spawn_write_file); their events name a path or nothing, never the       *)
(* viewer they were made for, and the viewer may be another one by then.   *)
(***************************************************************************)
EXTENDS Integers, FiniteSets, FiniteSetsExt

CONSTANTS Small, Large,       \* files; editing keeps a small file small
          SmallSize, LargeSize,
          Page, Limit,        \* PAGE_SIZE and SMALL_FILE_LIMIT
          MaxReads, MaxSaves  \* bounds: reads and writes under way

VARIABLES viewer,        \* file_viewer of the tab
          reads, writes  \* tasks under way

viewerVars == <<viewer, reads, writes>>

Paths == Small \cup Large
Size == [p \in Paths |-> IF p \in Small THEN SmallSize ELSE LargeSize]

\* A stretch of a file, and the empty text of a new editor or a failed read.
Stretch(p, off, len) == [path |-> p, off |-> off, len |-> len]
Empty == [path |-> "", off |-> 0, len |-> 0]
Stretches == {Empty} \cup {Stretch(p, off, len) : p \in Paths, off \in 0 .. LargeSize,
                                                 len \in 0 .. Limit}
Whole(text) == text # Empty /\ text.off = 0 /\ text.len = Size[text.path]

Closed == [mode |-> "closed"]
Viewers == [path : Paths, mode : {"preview", "edit", "log"}, content : {"loading", "loaded", "paged"},
            text : Stretches, editor : Stretches, dirty : BOOLEAN, saving : BOOLEAN]
IsOpen == viewer # Closed

\* The type invariant.
TypeOK ==
  /\ viewer \in {Closed} \cup Viewers
  /\ reads \subseteq [path : Paths, off : Nat, len : {Page, Limit}] /\ Cardinality(reads) <= MaxReads
  /\ writes \subseteq [path : Paths, data : Stretches] /\ Cardinality(writes) <= MaxSaves

ViewerInit == viewer = Closed /\ reads = {} /\ writes = {}

\* ReadFileRange, unless there is no connection or its channel is full.
Read(p, off, len) ==
  /\ reads' \in {reads, reads \cup {[path |-> p, off |-> off, len |-> len]}}
  /\ Cardinality(reads') <= MaxReads

------------------------------------------------------------------------------
(* The user.                                                                *)

\* A double click opens a file in place of the one that is shown, edited or not.
OpenFile(p) ==
  /\ viewer' = [path |-> p, mode |-> "preview", content |-> "loading", text |-> Empty,
                editor |-> Empty, dirty |-> FALSE, saving |-> FALSE]
  /\ Read(p, 0, Limit) /\ UNCHANGED writes

Close == IsOpen /\ viewer' = Closed /\ UNCHANGED <<reads, writes>>

\* Offered while the file is still loading, too; the editor takes what is loaded.
ToggleEdit ==
  /\ IsOpen /\ viewer.mode # "log"
  /\ viewer' = IF viewer.mode = "edit" THEN [viewer EXCEPT !.mode = "preview"]
               ELSE [viewer EXCEPT !.mode = "edit",
                                   !.editor = IF viewer.content = "loaded" THEN viewer.text ELSE Empty]
  /\ UNCHANGED <<reads, writes>>

\* Typing and replacing; the first changes the editor, the second the loaded text.
Edit ==
  /\ IsOpen /\ viewer.mode = "edit" /\ viewer.content = "loaded"
  /\ viewer' = [viewer EXCEPT !.dirty = TRUE] /\ UNCHANGED <<reads, writes>>

\* The command may find the channel full: the label stays at "Saving".
Save ==
  /\ IsOpen /\ viewer.mode = "edit"
  /\ viewer' = [viewer EXCEPT !.saving = TRUE]
  /\ writes' \in {writes, writes \cup {[path |-> viewer.path, data |-> viewer.editor]}}
  /\ Cardinality(writes') <= MaxSaves /\ UNCHANGED reads

PageOffset(off, total, forth) ==
  IF forth THEN Min({off + Page, Max({0, total - Page})}) ELSE Max({0, off - Page})

TurnPage(forth) ==
  /\ IsOpen /\ viewer.content = "paged"
  /\ LET off == PageOffset(viewer.text.off, Size[viewer.path], forth)
     IN  /\ off # viewer.text.off
         /\ viewer' = [viewer EXCEPT !.content = "loading"] /\ Read(viewer.path, off, Page)
  /\ UNCHANGED writes

------------------------------------------------------------------------------
(* The answers, in any order.                                               *)

\* read_file_range: no further than the end of the file.
Contents(r) == Stretch(r.path, r.off, Min({r.len, Max({0, Size[r.path] - r.off})}))

\* Bug variant: an answer is taken for the viewer that is open.
ShownAny(r) == IsOpen

Shown(r) == IsOpen /\ viewer.path = r.path

\* FileChunk; a small total is taken for a whole file.
Chunk(r) ==
  /\ r \in reads /\ reads' = reads \ {r}
  /\ viewer' = IF ~Shown(r) THEN viewer
               ELSE IF Size[r.path] <= Limit
                    THEN [viewer EXCEPT !.content = "loaded", !.text = Contents(r)]
                    ELSE [viewer EXCEPT !.content = "paged", !.mode = "log", !.text = Contents(r)]
  /\ UNCHANGED writes

\* A read that fails answers with no data and a total of 0, and then with a failed save.
ReadFails(r) ==
  /\ r \in reads /\ reads' = reads \ {r}
  /\ viewer' = IF ~IsOpen THEN viewer
               ELSE IF Shown(r)
                    THEN [viewer EXCEPT !.content = "loaded", !.text = Empty, !.saving = FALSE]
                    ELSE [viewer EXCEPT !.saving = FALSE]
  /\ UNCHANGED writes

\* FileSaved is taken for the save of whatever the viewer shows.
Saved(w, ok) ==
  /\ w \in writes /\ writes' = writes \ {w}
  /\ viewer' = IF IsOpen THEN [viewer EXCEPT !.saving = FALSE, !.dirty = @ /\ ~ok] ELSE viewer
  /\ UNCHANGED reads

\* The connection ends with its tasks.
LoseTasks == reads' = {} /\ writes' = {} /\ UNCHANGED viewer

ViewerNext ==
  \/ \E p \in Paths : OpenFile(p)
  \/ Close \/ ToggleEdit \/ Edit \/ Save \/ LoseTasks \/ TurnPage(TRUE) \/ TurnPage(FALSE)
  \/ \E r \in reads : Chunk(r) \/ ReadFails(r)
  \/ \E w \in writes, ok \in BOOLEAN : Saved(w, ok)

ViewerSpec == ViewerInit /\ [][ViewerNext]_viewerVars
------------------------------------------------------------------------------
(* Properties.                                                              *)

\* Whatever is shown, edited or on its way to the host under a path was read from it, though
\* answers arrive for viewers that are gone.
TextOfItsPath ==
  /\ IsOpen => \A text \in {viewer.text, viewer.editor} : text = Empty \/ text.path = viewer.path
  /\ \A w \in writes : w.data = Empty \/ w.data.path = w.path

\* Next page stops at the end of the file, and only there.
LastPageIsTheEnd ==
  IsOpen /\ viewer.content = "paged" 
  /\ PageOffset(viewer.text.off, Size[viewer.path], TRUE) = viewer.text.off
    => viewer.text.off + viewer.text.len = Size[viewer.path]

\* A page of a large file is never written back as the file.
NoPageIsSaved == \A w \in writes : w.data = Empty \/ Whole(w.data)

\* "Full text loaded (small files or edit mode)" (session.rs:1167): violated, a failed read
\* counts as an empty file, which may be edited and saved over the real one.
LoadedIsFullText == IsOpen /\ viewer.content = "loaded" => Whole(viewer.text)
================================================================================
