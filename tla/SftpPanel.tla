------------------------------- MODULE SftpPanel -------------------------------
(***************************************************************************)
(* The remote pane of the Files view: navigation, listings that answer     *)
(* late, out of order or not at all (spawn_sftp_list), the selection, the  *)
(* delete confirmation and the rename / new folder prompt, and the         *)
(* operations they send (spawn_sftp_simple).  The dialogs belong to the    *)
(* app, the pane to a tab.  What a directory holds is the host's affair: a *)
(* listing finds any rows.  Rows and selections are sets of entries: the   *)
(* code's indices are dropped with every listing.                          *)
(***************************************************************************)
EXTENDS Naturals, FiniteSets, FiniteSetsExt

CONSTANTS Tabs, Dirs, Names,
          MaxLists, MaxOps  \* bounds: listings and the entries operations act on

VARIABLES
  active,    \* the tab in front
  path, shown, chosen,  \* remote_path, remote_files, selected_remote of each tab
  lists, ops,\* listings under way, by tab and directory; the entries operations act on
  confirm,   \* sftp_confirm: the tab it was opened on, and what it names
  prompt,    \* sftp_prompt
  adrift     \* the path was edited, or its listing was refused, failed or lost

panelVars == <<active, path, shown, chosen, lists, ops, confirm, prompt, adrift>>

Entries == [dir : Dirs, name : Names]
Nothing == [kind |-> "none"]
In(d, entries) == {e \in entries : e.dir = d}
At(d, name) == [dir |-> d, name |-> name]

\* The type invariant.
TypeOK ==
  /\ active \in Tabs /\ path \in [Tabs -> Dirs]
  /\ shown \in [Tabs -> SUBSET Entries] /\ \A t \in Tabs : chosen[t] \subseteq shown[t]
  /\ lists \in [Tabs \X Dirs -> 0 .. MaxLists]
  /\ ops \subseteq Entries
  /\ confirm \in {Nothing} \cup [kind : {"delete"}, tab : Tabs, named : SUBSET Entries]
  /\ prompt \in {Nothing} \cup [kind : {"rename", "mkdir"}, old : Names]
  /\ adrift \in [Tabs -> BOOLEAN]

PanelInit ==
  /\ active = (CHOOSE t \in Tabs : TRUE) /\ path = [t \in Tabs |-> CHOOSE d \in Dirs : TRUE]
  /\ shown = [t \in Tabs |-> {}] /\ chosen = shown
  /\ lists = [x \in Tabs \X Dirs |-> 0] /\ ops = {}
  /\ confirm = Nothing /\ prompt = Nothing /\ adrift = [t \in Tabs |-> FALSE]

Underway(t) == \E d \in Dirs : lists[<<t, d>>] > 0
NoDialog == confirm = Nothing /\ prompt = Nothing

------------------------------------------------------------------------------
(* The user.                                                                *)

\* sftp_refresh lists the directory of the tab in front; a tab that is not connected, a pane
\* that is closed or a full command channel refuses.
RefreshTo(d) ==
  \/ /\ adrift' = [adrift EXCEPT ![active] = TRUE] /\ UNCHANGED lists
  \/ /\ MapThenSumSet(LAMBDA x : lists[x], Tabs \X Dirs) < MaxLists
     /\ lists' = [lists EXCEPT ![<<active, d>>] = @ + 1] /\ UNCHANGED adrift

\* Entering a directory, going up, and Refresh: the path moves before the rows do.
Navigate(d) ==
  /\ NoDialog /\ path' = [path EXCEPT ![active] = d]
  /\ chosen' = [chosen EXCEPT ![active] = IF d = path[active] THEN @ ELSE {}]
  /\ RefreshTo(d)
  /\ UNCHANGED <<active, shown, ops, confirm, prompt>>

EditPath(d) ==
  /\ NoDialog /\ path' = [path EXCEPT ![active] = d]
  /\ adrift' = [adrift EXCEPT ![active] = TRUE]
  /\ UNCHANGED <<active, shown, chosen, lists, ops, confirm, prompt>>

\* select_click with its modifiers.
Select(rows) ==
  /\ NoDialog /\ rows # {} /\ chosen' = [chosen EXCEPT ![active] = rows]
  /\ UNCHANGED <<active, path, shown, lists, ops, confirm, prompt, adrift>>

\* The keyboard reaches the tabs from under a dialog.
SwitchTab(t) ==
  /\ t # active /\ active' = t
  /\ UNCHANGED <<path, shown, chosen, lists, ops, confirm, prompt, adrift>>

AskDelete ==
  /\ NoDialog /\ chosen[active] # {}
  /\ confirm' = [kind |-> "delete", tab |-> active, named |-> chosen[active]]
  /\ UNCHANGED <<active, path, shown, chosen, lists, ops, prompt, adrift>>

\* The names of the rows that are selected now, under the path of now, in the tab of now;
\* each may find the command channel full.
Reached == {At(path[active], e.name) : e \in chosen[active]}
ConfirmDelete ==
  /\ confirm # Nothing /\ confirm' = Nothing
  /\ \E sent \in SUBSET Reached : ops' = ops \cup sent
  /\ Cardinality(ops') <= MaxOps
  /\ UNCHANGED <<active, path, shown, chosen, lists, prompt, adrift>>

OpenPrompt(kind, name) ==
  /\ NoDialog /\ (kind = "rename" => \E e \in shown[active] : e.name = name)
  /\ prompt' = [kind |-> kind, old |-> name]
  /\ UNCHANGED <<active, path, shown, chosen, lists, ops, confirm, adrift>>

ConfirmPrompt(name) ==
  /\ prompt # Nothing /\ prompt' = Nothing
  /\ \E sent \in SUBSET {IF prompt.kind = "rename" THEN prompt.old ELSE name} :
       ops' = ops \cup {At(path[active], n) : n \in sent}
  /\ Cardinality(ops') <= MaxOps
  /\ UNCHANGED <<active, path, shown, chosen, lists, confirm, adrift>>

Cancel ==
  /\ ~NoDialog /\ confirm' = Nothing /\ prompt' = Nothing
  /\ UNCHANGED <<active, path, shown, chosen, lists, ops, adrift>>

------------------------------------------------------------------------------
(* The worker's tasks and their events.                                     *)

\* Bug variant: the rows of a late listing appear under the path of now.
ListedKeepsPath(t, d) ==
  /\ lists[<<t, d>>] > 0 /\ lists' = [lists EXCEPT ![<<t, d>>] = @ - 1]
  /\ \E found \in SUBSET Entries : shown' = [shown EXCEPT ![t] = In(d, found)]
  /\ chosen' = [chosen EXCEPT ![t] = {}] /\ adrift' = [adrift EXCEPT ![t] = FALSE]
  /\ UNCHANGED <<active, path, ops, confirm, prompt>>

Listed(t, d) ==
  /\ lists[<<t, d>>] > 0 /\ lists' = [lists EXCEPT ![<<t, d>>] = @ - 1]
  /\ path' = [path EXCEPT ![t] = d]
  /\ \E found \in SUBSET Entries : shown' = [shown EXCEPT ![t] = In(d, found)]
  /\ chosen' = [chosen EXCEPT ![t] = {}] /\ adrift' = [adrift EXCEPT ![t] = FALSE]
  /\ UNCHANGED <<active, ops, confirm, prompt>>

ListFails(t, d) ==
  /\ lists[<<t, d>>] > 0 /\ lists' = [lists EXCEPT ![<<t, d>>] = @ - 1]
  /\ adrift' = [adrift EXCEPT ![t] = TRUE]
  /\ UNCHANGED <<active, path, shown, chosen, ops, confirm, prompt>>

\* SftpDone, whether the operation succeeded or not, lists the tab in front, whichever tab
\* it is about.
OnDone(op) ==
  /\ op \in ops /\ ops' = ops \ {op}
  /\ RefreshTo(path[active])
  /\ UNCHANGED <<active, path, shown, chosen, confirm, prompt>>

\* The connection of a tab goes with its tasks.
Lose(t) ==
  /\ lists' = [x \in Tabs \X Dirs |-> IF x[1] = t THEN 0 ELSE lists[x]]
  /\ ops' \in SUBSET ops
  /\ adrift' = [adrift EXCEPT ![t] = @ \/ Underway(t)]
  /\ UNCHANGED <<active, path, shown, chosen, confirm, prompt>>

PanelNext ==
  \/ \E d \in Dirs : Navigate(d) \/ EditPath(d) \/ \E t \in Tabs : Listed(t, d) \/ ListFails(t, d)
  \/ \E rows \in SUBSET shown[active] : Select(rows)
  \/ \E t \in Tabs : SwitchTab(t) \/ Lose(t)
  \/ AskDelete \/ ConfirmDelete \/ Cancel
  \/ \E name \in Names : ConfirmPrompt(name) \/ OpenPrompt("rename", name) \/ OpenPrompt("mkdir", name)
  \/ \E op \in ops : OnDone(op)

PanelSpec == PanelInit /\ [][PanelNext]_panelVars
------------------------------------------------------------------------------
(* Properties.                                                              *)

\* The rows are those of the path that is shown, unless a listing is under way, failed, was
\* refused or lost, or the path was edited: in whatever order the listings answer.
RowsOfPath == \A t \in Tabs : Underway(t) \/ adrift[t] \/ shown[t] = In(path[t], shown[t])

\* What the delete dialog reaches is what it named, whatever was listed under it meanwhile -
\* but only with its own tab in front and a pane at rest: another tab's selection was never
\* named, and while a listing is under way or the pane is adrift the names are looked up in
\* another directory than the one that was shown (DeletesSelected).
DialogNamesAll ==
  confirm # Nothing => \/ Reached \subseteq confirm.named
                       \/ active # confirm.tab \/ Underway(active) \/ adrift[active]

\* "Delete all selected remote entries" (update.rs:2466): violated, the name of the selected
\* row is looked up in the path of now, which is another directory than the row's while its
\* listing is under way or has failed, or after the path was edited.
DeletesSelected ==
  [][ConfirmDelete => \A op \in ops' \ ops : op \in chosen[active]]_panelVars
================================================================================
