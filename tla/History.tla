-------------------------------- MODULE History --------------------------------
(***************************************************************************)
(* The persistent command history: what a tab commits (write_output,       *)
(* commit_input_line), what the UI makes of it (the Output event), the     *)
(* blocking tasks that write it, and the table of openterm-storage.  A     *)
(* captured output is named by the command that printed it.                *)
(***************************************************************************)
EXTENDS Naturals, Sequences, SequencesExt, FiniteSets, FiniteSetsExt

CONSTANTS Tabs, Texts,
          SessionCap,  \* 200: the commands a tab keeps
          MaxRows,     \* MAX_HISTORY_ROWS
          MaxCommands  \* bound: commits and clears

VARIABLES
  kept,      \* command_history of each tab
  running,   \* the command whose output a tab is capturing
  got,       \* it has captured some
  memory,    \* all_history, newest first
  tasks,     \* blocking tasks under way, with the number of the commit that started them
  disk,      \* the HISTORY table, oldest first
  steps,     \* commits and clears so far, the clock of ts_ms
  behind, shuffled  \* a clear overtook a task; tasks changed places (for the properties)

historyVars == <<kept, running, got, memory, tasks, disk, steps, behind, shuffled>>

None == "none"
Rows == [text : Texts, output : Texts \cup {None}, at : 1 .. MaxCommands]
Row(c, now) == [text |-> c, output |-> None, at |-> now]

\* The type invariant.
TypeOK ==
  /\ \A t \in Tabs : kept[t] \in Seq(Texts) /\ Len(kept[t]) <= SessionCap
  /\ running \in [Tabs -> Texts \cup {None}] /\ got \in [Tabs -> BOOLEAN]
  /\ {memory, disk} \subseteq Seq(Rows) /\ Len(disk) <= MaxRows
  /\ tasks \subseteq [op : {"append", "backfill"}, text : Texts, at : 1 .. MaxCommands]
  /\ steps \in 0 .. MaxCommands /\ {behind, shuffled} \subseteq BOOLEAN

HistoryInit ==
  /\ kept = [t \in Tabs |-> <<>>] /\ running = [t \in Tabs |-> None]
  /\ got = [t \in Tabs |-> FALSE] /\ memory = <<>> /\ tasks = {} /\ disk = <<>>
  /\ steps = 0 /\ behind = FALSE /\ shuffled = FALSE

------------------------------------------------------------------------------
(* The tabs.                                                                *)

\* The newest entry is taken for the one the output belongs to.
Backfilled(rows, output) ==
  IF rows = <<>> THEN rows ELSE [rows EXCEPT ![1].output = output]

\* A consecutive duplicate is skipped; the oldest of too many is dropped.
Keep(commands, c) ==
  IF commands # <<>> /\ Last(commands) = c THEN commands
  ELSE LET all == Append(commands, c)
       IN  SubSeq(all, Len(all) - Min({Len(all), SessionCap}) + 1, Len(all))

\* A command is new to the history when the tab keeps more of them than before.
Grown(t, c) == Len(Keep(kept[t], c)) > Len(kept[t])

Commit(t, c) ==
  /\ steps < MaxCommands /\ steps' = steps + 1
  /\ kept' = [kept EXCEPT ![t] = Keep(@, c)]
  /\ running' = [running EXCEPT ![t] = c] /\ got' = [got EXCEPT ![t] = FALSE]
  /\ IF Grown(t, c)
     THEN /\ memory' = <<Row(c, steps')>>
                       \o (IF got[t] THEN Backfilled(memory, running[t]) ELSE memory)
          /\ tasks' = tasks \cup {[op |-> "append", text |-> c, at |-> steps']}
                            \cup (IF got[t] THEN {[op |-> "backfill", text |-> running[t],
                                                   at |-> steps']} ELSE {})
     ELSE UNCHANGED <<memory, tasks>>
  /\ UNCHANGED <<disk, behind, shuffled>>

Capture(t) ==
  /\ running[t] # None /\ ~got[t] /\ got' = [got EXCEPT ![t] = TRUE]
  /\ UNCHANGED <<kept, running, memory, tasks, disk, steps, behind, shuffled>>

------------------------------------------------------------------------------
(* The store.                                                               *)

\* Bug variant: one row is pruned too many.
PrunedEarly(rows) == SubSeq(rows, Len(rows) - Min({Len(rows), MaxRows - 1}) + 1, Len(rows))

Pruned(rows) == SubSeq(rows, Len(rows) - Min({Len(rows), MaxRows}) + 1, Len(rows))

Appended(task) == Pruned(Append(disk, Row(task.text, task.at)))

Overwritten(task) == IF disk = <<>> THEN disk
                     ELSE [disk EXCEPT ![Len(disk)].output = task.text]

\* The order the tasks were started in: a commit fills the last output in, then appends.
Before(a, b) == a.at < b.at \/ (a.at = b.at /\ a.op = "backfill" /\ b.op = "append")

\* Tasks take the write transaction in any order.
Write(task) ==
  /\ task \in tasks /\ tasks' = tasks \ {task}
  /\ shuffled' = (shuffled \/ \E other \in tasks : Before(other, task))
  /\ disk' = IF task.op = "append" THEN Appended(task) ELSE Overwritten(task)
  /\ UNCHANGED <<kept, running, got, memory, steps, behind>>

\* HistoryClearAll does not wait for them.
ClearAll ==
  /\ steps < MaxCommands /\ steps' = steps + 1
  /\ disk' = <<>> /\ memory' = <<>> /\ behind' = (behind \/ tasks # {})
  /\ UNCHANGED <<kept, running, got, tasks, shuffled>>

\* The app ends with its tasks, and loads what they have written.
Restart ==
  /\ steps > 0 /\ memory' = Reverse(disk) /\ tasks' = {}
  /\ behind' = FALSE /\ shuffled' = FALSE
  /\ kept' = [t \in Tabs |-> <<>>] /\ running' = [t \in Tabs |-> None]
  /\ got' = [t \in Tabs |-> FALSE]
  /\ UNCHANGED <<disk, steps>>

HistoryNext ==
  \/ \E t \in Tabs : Capture(t) \/ \E c \in Texts : Commit(t, c)
  \/ \E task \in tasks : Write(task)
  \/ ClearAll \/ Restart

HistorySpec == HistoryInit /\ [][HistoryNext]_historyVars
------------------------------------------------------------------------------
(* Properties.                                                              *)

Count(rows, c) == Cardinality({i \in DOMAIN rows : rows[i].text = c})

\* Once the tasks are done, and unless the panel was cleared before one of them: when they
\* ran in the order they were started in, the table is the newest part of the panel, command
\* by command, in its order and with its outputs.  When they changed places (each is a blocking
\* task of its own, update.rs:2819-2870) it still has as many rows and no command more often
\* than the panel; which of them were pruned, their order and their outputs may differ.
DiskFollowsPanel ==
  tasks = {} /\ ~behind =>
    /\ Len(disk) = Min({Len(memory), MaxRows})
    /\ \A c \in Texts : Count(disk, c) <= Count(memory, c)
    /\ ~shuffled => \A i \in DOMAIN disk : disk[Len(disk) + 1 - i] = memory[i]

\* "History is saved to the redb database" (ui/history.rs:2): violated, a tab that has kept
\* SessionCap commands grows no more, and what it runs from then on is not recorded.
EveryCommandSaved ==
  [][\A t \in Tabs, c \in Texts :
       Commit(t, c) /\ kept'[t] # kept[t] => \E task \in tasks' : task.at = steps']_historyVars

\* "Backfill the previous in-memory entry with its now-captured output" (update.rs:2820):
\* violated by a command of another tab, and by tasks that change places.
OutputBelongs == \A i \in DOMAIN memory : memory[i].output \in {None, memory[i].text}
================================================================================
