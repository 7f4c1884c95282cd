------------------------------- MODULE Monitor -------------------------------
(***************************************************************************)
(* The resource rail: the samples the app asks for while a tab is          *)
(* connected, the worker's tasks that run them side by side on the host    *)
(* and may fail, lag or answer out of order, and what the app makes of     *)
(* the answers (metrics::compute, the chart histories, the process table). *)
(* A sample is the host's counters: CPU time in all, the idle part of it,  *)
(* and bytes moved; disks, memory, load and cores are further fields of    *)
(* the same kind.  Losing the connection covers a reboot or another host   *)
(* in the same tab: the counters then start anew from anywhere.            *)
(***************************************************************************)
EXTENDS Naturals, FiniteSets

CONSTANTS Slots,     \* tasks that may be under way at a time
          MaxTime,   \* bound of the CPU time counted
          MaxChart,  \* bound of the bytes charted
          Prints,    \* sets of sections a host may print
          Starts     \* counters a host may be found with

VARIABLES counters,  \* the host's
          up,        \* the worker has a connection
          connected, \* session.phase is Connected
          panel,     \* session.monitor_panel
          task,      \* what each spawned task does: none, asked, or holds an answer
          prev,      \* session.prev_sample
          charted,   \* bytes the chart's rates add up to
          first,     \* the bytes of the first sample
          disorder,  \* a sample came late or after the counters had started anew
          table,     \* session.processes: the column it is sorted by, None when empty
          ports,     \* session.ports: none, this connection's or an earlier one's
          dropped    \* a request for processes found no room, failed or was lost since the last answer

monitorVars == <<counters, up, connected, panel, task, prev, charted, first, disorder, table, ports, dropped>>

None == "none"
Panels == {"cpu", "memory"}
NoSample == [kind |-> None]
Idle == [kind |-> None]
Sub(a, b) == IF a > b THEN a - b ELSE 0      \* saturating_sub

------------------------------------------------------------------------------
MonitorInit ==
  /\ counters \in Starts /\ up = TRUE /\ connected = TRUE
  /\ panel = None /\ task = [s \in Slots |-> Idle]
  /\ prev = NoSample /\ charted = 0 /\ first = 0 /\ disorder = FALSE
  /\ table = None /\ ports = None /\ dropped = FALSE

\* The host idles, or works and moves bytes.
Work(idle) ==
  /\ counters.total < MaxTime
  /\ counters' = [total |-> counters.total + 1, idle |-> counters.idle + idle, bytes |-> counters.bytes + 1 - idle]
  /\ UNCHANGED <<up, connected, panel, task, prev, charted, first, disorder, table, ports, dropped>>

\* Each command becomes a task, or finds the channel full or no connection behind it.
Spawn(kinds) ==
  /\ \E taken \in SUBSET kinds :
        LET free == {s \in Slots : task[s] = Idle}
            at == CHOOSE f \in [taken -> free] : \A j, k \in taken : f[j] = f[k] => j = k
        IN
        /\ up \/ taken = {}
        /\ Cardinality(taken) <= Cardinality(free)
        /\ task' = [s \in Slots |-> IF \E k \in taken : at[k] = s
                                    THEN [kind |-> CHOOSE k \in taken : at[k] = s, stage |-> "asked"] ELSE task[s]]
        /\ dropped' = (dropped \/ "processes" \in kinds \ taken)

MetricsTick ==
  /\ connected
  /\ Spawn(IF panel = None THEN {"metrics"} ELSE {"metrics", "processes", "ports"})
  /\ UNCHANGED <<counters, up, connected, panel, prev, charted, first, disorder, table, ports>>

\* MonitorSelect: the table will be sorted by the answer to this request.
Select(p) ==
  /\ panel' = p
  /\ IF connected THEN Spawn({"processes"}) ELSE UNCHANGED <<task, dropped>>
  /\ UNCHANGED <<counters, up, connected, prev, charted, first, disorder, table, ports>>

CloseDetail ==
  /\ panel # None /\ panel' = None
  /\ UNCHANGED <<counters, up, connected, task, prev, charted, first, disorder, table, ports, dropped>>

------------------------------------------------------------------------------
\* parse_sample: a section the host does not print leaves its counters at zero.
ParseSample(sections) == [total |-> IF "CPU" \in sections THEN counters.total ELSE 0,
                          idle  |-> IF "CPU" \in sections THEN counters.idle ELSE 0,
                          bytes |-> IF "NET" \in sections THEN counters.bytes ELSE 0]

\* exec_capture reads the counters, or the task fails without a word.
Run(s) ==
  /\ up /\ task[s].kind # None /\ task[s].stage = "asked"
  /\ \/ /\ \E sections \in IF task[s].kind = "metrics" THEN Prints ELSE {{}} :
             task' = [task EXCEPT ![s] = [kind |-> @.kind, stage |-> "answered", seen |-> ParseSample(sections)]]
        /\ UNCHANGED dropped
     \/ /\ task' = [task EXCEPT ![s] = Idle]
        /\ dropped' = (dropped \/ task[s].kind = "processes")
  /\ UNCHANGED <<counters, up, connected, panel, prev, charted, first, disorder, table, ports>>

\* cpu_delta_pct, in whole percents.
Percent(old, new) ==
  LET total == Sub(new.total, old.total)
  IN  IF total = 0 THEN 0 ELSE (Sub(total, Sub(new.idle, old.idle)) * 100) \div total

\* rate(): what a chart's point stands for, over its time.
Rate(old, new) == Sub(new, old)

\* compute() has rates only with a sample before, and only they are charted.
Chart(seen) ==
  IF prev = NoSample THEN first' = seen.bytes /\ UNCHANGED charted
  ELSE charted' = charted + Rate(prev.bytes, seen.bytes) /\ UNCHANGED first

\* The share of CPU time an answer makes the rail show, which takes two samples.
Compute(seen) == IF prev = NoSample THEN 0 ELSE Percent(prev, seen)

Showable(s) == task[s].kind = "metrics" /\ task[s].stage = "answered"

\* ConnEvent::Metrics, in whatever order the tasks answer.
OnMetrics(s) ==
  LET seen == task[s].seen
  IN  /\ Showable(s) /\ charted <= MaxChart
      /\ task' = [task EXCEPT ![s] = Idle]
      /\ Chart(seen)
      /\ disorder' = (disorder \/ (prev # NoSample /\ prev.bytes > seen.bytes))
      /\ prev' = seen
      /\ UNCHANGED <<counters, up, connected, panel, table, ports, dropped>>

\* The order of the parsed rows: the host's, or by the column chosen by now.
ProcessOrder == IF panel = None THEN "host" ELSE panel

OnProcesses(s) ==
  /\ task[s].kind = "processes" /\ task[s].stage = "answered"
  /\ task' = [task EXCEPT ![s] = Idle]
  /\ table' = ProcessOrder
  /\ dropped' = FALSE
  /\ UNCHANGED <<counters, up, connected, panel, prev, charted, first, disorder, ports>>

\* ConnEvent::Ports.
OnPorts(s) ==
  /\ task[s].kind = "ports" /\ task[s].stage = "answered"
  /\ task' = [task EXCEPT ![s] = Idle]
  /\ ports' = "current"
  /\ UNCHANGED <<counters, up, connected, panel, prev, charted, first, disorder, table, dropped>>

------------------------------------------------------------------------------
\* The connection ends: its tasks are aborted, but an answer may be on its way already.
Lose ==
  /\ up /\ up' = FALSE
  /\ \E kept \in SUBSET {s \in Slots : task[s].kind # None /\ task[s].stage = "answered"} :
        task' = [s \in Slots |-> IF s \in kept THEN task[s] ELSE Idle]
  /\ dropped' = TRUE
  /\ UNCHANGED <<counters, connected, panel, prev, charted, first, disorder, table, ports>>

\* ConnEvent::Closed, behind the answers that came through: the table goes, the sample and the
\* ports stay.
OnClosed ==
  /\ ~up /\ connected /\ \A s \in Slots : task[s] = Idle
  /\ connected' = FALSE /\ panel' = None /\ table' = None /\ dropped' = FALSE
  /\ ports' = IF ports = None THEN None ELSE "earlier"
  /\ UNCHANGED <<counters, up, task, prev, charted, first, disorder>>

Reconnect ==
  /\ ~up /\ ~connected /\ up' = TRUE /\ connected' = TRUE
  /\ counters' \in Starts
  /\ UNCHANGED <<panel, task, prev, charted, first, disorder, table, ports, dropped>>

MonitorNext ==
  \/ \E idle \in 0 .. 1 : Work(idle)
  \/ MetricsTick \/ CloseDetail \/ Lose \/ OnClosed \/ Reconnect
  \/ \E p \in Panels : Select(p)
  \/ \E s \in Slots : Run(s) \/ OnMetrics(s) \/ OnProcesses(s) \/ OnPorts(s)

MonitorSpec == MonitorInit /\ [][MonitorNext]_monitorVars

------------------------------------------------------------------------------
Counters == [total : Nat, idle : Nat, bytes : Nat]

\* The state is well formed, and a percentage is one: "All percentages are 0..=100"
\* (metrics.rs:57), late samples and restarted counters included.
TypeOK ==
  /\ counters \in Counters /\ {up, connected, disorder, dropped} \subseteq BOOLEAN
  /\ panel \in Panels \cup {None} /\ table \in Panels \cup {"host", None}
  /\ ports \in {None, "current", "earlier"}
  /\ \A s \in Slots : /\ task[s] = Idle \/ task[s].kind \in {"metrics", "processes", "ports"}
                      /\ Showable(s) => Compute(task[s].seen) \in 0 .. 100
  /\ prev \in Counters \cup {NoSample} /\ {charted, first} \subseteq Nat

\* The chart never loses traffic, and counts it exactly as long as the samples come in order
\* and the counters run on.
ChartAddsUp ==
  prev # NoSample => /\ charted + first >= prev.bytes
                     /\ disorder \/ charted + first = prev.bytes

\* The table is sorted by the column the panel shows, or an answer that will sort it is under
\* way, or a request was dropped; and no table outlives its connection.
TableFollowsPanel ==
  /\ table # None => connected
  /\ connected /\ panel # None /\ table \notin {panel, None} =>
       dropped \/ \E s \in Slots : task[s].kind = "processes"

\* README: the chart counts exactly (fails when two answers change places, or after a reconnect).
ChartExact == prev # NoSample => charted + first = prev.bytes
\* README: the ports shown are those of this connection (fails: nothing clears them).
PortsAreCurrent == connected => ports # "earlier"
==============================================================================
