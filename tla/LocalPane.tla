------------------------------ MODULE LocalPane ------------------------------
(***************************************************************************)
(* The local pane of the Files view: rows read synchronously from the disk,*)
(* a selection kept as indices with an anchor for ranges, double clicks,   *)
(* the context menu, the delete dialog and the prompt for a name.  Unlike  *)
(* the remote pane (SftpPanel) a row carries its full path.  Other         *)
(* programs change the disk meanwhile, and the end of a transfer re-reads  *)
(* the directory, from under a dialog too.  A name is a folder's or a      *)
(* file's for good.  Switching tabs is SftpPanel's and Tabs' affair.       *)
(***************************************************************************)
EXTENDS Integers, Sequences, FiniteSets, Functions

CONSTANTS Dirs, Names,   \* directories, and the names they may hold, in their order
          FolderAt(_, _) \* the directory a name of a directory is, or "" for a file

VARIABLES disk,       \* the entries that exist
          path,       \* session.local_path
          rows,       \* session.local_files
          chosen,     \* session.selected_local: indices into rows
          anchor,     \* session.local_anchor, 0 for none
          ascending,  \* app.sftp_sort_asc_local, which the header shows
          remoteAsc,  \* app.sftp_sort_asc, the remote pane's
          clicked,    \* app.last_sftp_click, 0 for none
          menu,       \* app.sftp_menu, 0 for none
          named,      \* what the delete dialog names, {} when it is closed
          prompt,     \* app.sftp_prompt: the name to change, 0 for a new folder's, -1 for none
          picked      \* the entries the user's clicks have selected

paneVars == <<disk, path, rows, chosen, anchor, ascending, remoteAsc, clicked, menu, named, prompt, picked>>

Entries == [dir : Dirs, name : Names]
IsFolder(e) == FolderAt(e.dir, e.name) # ""

------------------------------------------------------------------------------
\* sort_local: folders first, then by name in the chosen direction; a row has as many before it
\* as its index says.
Sorted(entries, asc) ==
  LET Before(a, b) == IF IsFolder(a) # IsFolder(b) THEN IsFolder(a)
                      ELSE IF asc THEN a.name < b.name ELSE b.name < a.name
  IN  [i \in 1 .. Cardinality(entries) |->
         CHOOSE e \in entries : Cardinality({x \in entries : Before(x, e)}) = i - 1]

Unselected == chosen' = {} /\ anchor' = 0 /\ picked' = {}

\* refresh_local: the rows of a directory, none when it cannot be read.  Every caller sorts
\* them as the remote pane is sorted.
Reread(d, there) ==
  /\ \/ rows' = Sorted({e \in there : e.dir = d}, remoteAsc)
     \/ rows' = <<>>
  /\ Unselected

PaneInit ==
  /\ disk \in SUBSET Entries /\ path = CHOOSE d \in Dirs : TRUE
  /\ rows = <<>> /\ chosen = {} /\ anchor = 0
  /\ ascending = TRUE /\ remoteAsc = TRUE /\ clicked = 0 /\ menu = 0 /\ named = {} /\ prompt = -1
  /\ picked = {}

NoDialog == named = {} /\ prompt = -1

Refresh ==
  /\ Reread(path, disk)
  /\ UNCHANGED <<disk, path, ascending, remoteAsc, clicked, menu, named, prompt>>

\* The path is edited as text; the rows stay until something re-reads them.
EditPath(d) ==
  /\ NoDialog /\ path' = d
  /\ UNCHANGED <<disk, rows, chosen, anchor, ascending, remoteAsc, clicked, menu, named, picked, prompt>>

Enter(d) ==
  /\ path' = d /\ menu' = 0
  /\ Reread(d, disk)
  /\ UNCHANGED <<disk, ascending, remoteAsc, named, prompt>>

Parent(d) == NoDialog /\ Enter(d) /\ UNCHANGED clicked

SetSort ==
  /\ NoDialog /\ ascending' = ~ascending
  /\ rows' = Sorted(Range(rows), ascending') /\ Unselected
  /\ UNCHANGED <<disk, path, remoteAsc, clicked, menu, named, prompt>>

SetRemoteSort ==
  /\ NoDialog /\ remoteAsc' = ~remoteAsc
  /\ UNCHANGED <<disk, path, rows, chosen, anchor, ascending, clicked, menu, named, picked, prompt>>

\* select_click: a range from the anchor, a toggle, or this row alone.
SelectClick(i, toggle, range) ==
  /\ IF range /\ anchor # 0
     THEN chosen' = (IF anchor <= i THEN anchor .. i ELSE i .. anchor) /\ UNCHANGED anchor
     ELSE /\ anchor' = i
          /\ chosen' = IF ~toggle THEN {i} ELSE IF i \in chosen THEN chosen \ {i} ELSE chosen \cup {i}
  /\ picked' = {rows[k] : k \in chosen'}

\* A click: the second quick one on a row, with no modifier, enters its folder; a click with
\* no modifier that completes a pair on a file selects it again.
Click(i, toggle, range, quick) ==
  LET double == quick /\ clicked = i
      folder == FolderAt(rows[i].dir, rows[i].name)
  IN  /\ NoDialog
      /\ clicked' = IF double THEN 0 ELSE i
      /\ IF double /\ ~toggle /\ ~range /\ folder # ""
         THEN Enter(folder)
         ELSE /\ SelectClick(i, toggle, range) /\ menu' = 0
              /\ UNCHANGED <<disk, path, rows, ascending, remoteAsc, named, prompt>>

\* A right click keeps a selection that holds the row.
OpenMenu(i) ==
  /\ NoDialog /\ menu' = i
  /\ IF i \in chosen THEN UNCHANGED <<chosen, anchor, picked>> ELSE SelectClick(i, FALSE, FALSE)
  /\ UNCHANGED <<disk, path, rows, ascending, remoteAsc, clicked, named, prompt>>

\* The selected rows that exist: an index may have been left behind by a shorter listing.
Targets == {rows[i] : i \in chosen \cap DOMAIN rows}

\* build_delete_confirm; nothing selected opens no dialog.
AskDelete ==
  /\ menu # 0 /\ menu' = 0
  /\ named' = Targets
  /\ UNCHANGED <<disk, path, rows, chosen, anchor, ascending, remoteAsc, clicked, picked, prompt>>

\* delete_local_selected: each file goes or fails, and a folder with all it holds.
Below(e) == {x \in Entries : x.dir = FolderAt(e.dir, e.name)}
ConfirmDelete ==
  /\ named # {} /\ named' = {}
  /\ \E gone \in SUBSET Targets : disk' = disk \ (gone \cup UNION {Below(e) : e \in gone})
  /\ Reread(path, disk')
  /\ UNCHANGED <<path, ascending, remoteAsc, clicked, menu, prompt>>

CancelDelete ==
  /\ named # {} /\ named' = {}
  /\ UNCHANGED <<disk, path, rows, chosen, anchor, ascending, remoteAsc, clicked, menu, picked, prompt>>

------------------------------------------------------------------------------
\* The prompt for a name: of the row the menu is at, or of a new folder.
OpenPrompt(rename) ==
  /\ rename => menu \in DOMAIN rows
  /\ NoDialog /\ menu' = 0
  /\ prompt' = IF rename THEN rows[menu].name ELSE 0
  /\ UNCHANGED <<disk, path, rows, chosen, anchor, ascending, remoteAsc, clicked, named, picked>>

\* The menu closes: on a click beside it, or for an upload (TransferControl).
CloseMenu ==
  /\ menu # 0 /\ menu' = 0
  /\ UNCHANGED <<disk, path, rows, chosen, anchor, ascending, remoteAsc, clicked, named, picked, prompt>>

\* sftp_prompt_confirm, in the directory the path names by now.  A renamed file replaces
\* the one that has the name already; folders keep theirs here; either may fail.
ConfirmPrompt(name) ==
  LET old == [dir |-> path, name |-> prompt]
      new == [dir |-> path, name |-> name]
  IN  /\ prompt # -1 /\ prompt' = -1
      /\ \/ disk' = disk
         \/ prompt = 0 /\ IsFolder(new) /\ disk' = disk \cup {new}
         \/ old \in disk /\ ~IsFolder(old) /\ ~IsFolder(new) /\ disk' = (disk \ {old}) \cup {new}
      /\ Reread(path, disk')
      /\ UNCHANGED <<path, ascending, remoteAsc, clicked, menu, named>>

CancelPrompt ==
  /\ prompt # -1 /\ prompt' = -1
  /\ UNCHANGED <<disk, path, rows, chosen, anchor, ascending, remoteAsc, clicked, menu, named, picked>>

\* Another program creates or removes a file.
Outside ==
  /\ \E e \in Entries : disk' = IF e \in disk THEN disk \ {e} ELSE disk \cup {e}
  /\ UNCHANGED <<path, rows, chosen, anchor, ascending, remoteAsc, clicked, menu, named, picked, prompt>>

PaneNext ==
  \/ CloseMenu \/ CancelPrompt
  \/ \E rename \in BOOLEAN : OpenPrompt(rename)
  \/ \E name \in Names : ConfirmPrompt(name)
  \/ Refresh \/ SetSort \/ SetRemoteSort \/ AskDelete \/ ConfirmDelete \/ CancelDelete \/ Outside
  \/ \E d \in Dirs : EditPath(d) \/ Parent(d)
  \/ \E i \in DOMAIN rows :
       \/ OpenMenu(i)
       \/ \E toggle, range, quick \in BOOLEAN : Click(i, toggle, range, quick)

PaneSpec == PaneInit /\ [][PaneNext]_paneVars

------------------------------------------------------------------------------
\* The state is well formed.
TypeOK ==
  /\ disk \subseteq Entries /\ path \in Dirs
  /\ rows \in Seq(Entries) /\ Cardinality(Range(rows)) = Len(rows)
  /\ chosen \subseteq Nat /\ {anchor, clicked, menu} \subseteq Nat /\ prompt \in Names \cup {0, -1}
  /\ {ascending, remoteAsc} \subseteq BOOLEAN
  /\ named \subseteq Entries /\ picked \subseteq Entries

\* The rows whose indices are selected are those the user picked, whatever has re-read or
\* re-sorted the pane since, and the anchor of a range is a row.
SelectionIsPicked ==
  /\ chosen \subseteq DOMAIN rows /\ anchor \in {0} \cup DOMAIN rows
  /\ Targets = picked

\* A delete reaches what its dialog named or what lies below it, or, when the directory was
\* read again under the dialog, nothing (update.rs:2481).
DeleteReachesNamed == named # {} => Targets \subseteq named

\* README: the rows are in the order the header shows (fails: refresh_local is given the
\* remote pane's order).
SortedAsShown == rows = Sorted(Range(rows), ascending)
==============================================================================
