----------------------------- MODULE LocalForward -----------------------------
(***************************************************************************)
(* A local port forward (openterm-ssh, run_local_forward and               *)
(* forward_tcp_stream): the accept loop, one task per accepted stream, the *)
(* session handle they share under a mutex, the bounded channel of events, *)
(* and the stop request.  A Tokio mutex is FIFO: the head of lockQueue     *)
(* holds it.                                                               *)
(***************************************************************************)
EXTENDS Naturals, Sequences, FiniteSets

CONSTANTS Streams,    \* the TCP connections peers make
          EventCap,   \* capacity of the event channel, 100 in the code
          Keepalive   \* SSH keepalives are on, so a silent server is noticed

VARIABLES
  loop,      \* where run_local_forward is
  accepted,  \* the stream it announces: a set of at most one
  stop,      \* a stop was sent, or its sender dropped
  lockQueue, \* the session mutex; "loop" stands for the accept loop
  up,        \* the SSH session is up
  at,        \* where each stream's task is
  outcome,   \* what it will report
  events     \* the event channel

forwardVars == <<loop, accepted, stop, lockQueue, up, at, outcome, events>>

Event == [kind : {"accepted", "closed", "failed"}, of : Streams]
         \cup [kind : {"listening", "stopped"}]

\* The type invariant.
TypeOK ==
  /\ loop \in {"select", "announce", "lock", "tell", "ended", "failed"}
  /\ accepted \subseteq Streams /\ Cardinality(accepted) <= 1
  /\ stop \in BOOLEAN /\ up \in BOOLEAN
  /\ lockQueue \in Seq(Streams \cup {"loop"})
  /\ at \in [Streams -> {"none", "lock", "pump", "half", "report", "done"}]
  /\ outcome \in [Streams -> {"none", "closed", "failed"}]
  /\ events \in Seq(Event) /\ Len(events) <= EventCap

ForwardInit ==
  /\ loop = "select" /\ accepted = {} /\ stop = FALSE /\ up = TRUE /\ lockQueue = <<>>
  /\ at = [s \in Streams |-> "none"] /\ outcome = [s \in Streams |-> "none"]
  /\ events = <<[kind |-> "listening"]>>

------------------------------------------------------------------------------
\* events.send waits for room in the channel.
Send(event) == Len(events) < EventCap /\ events' = Append(events, event)

Receive == /\ events # <<>> /\ events' = Tail(events)
           /\ UNCHANGED <<loop, accepted, stop, lockQueue, up, at, outcome>>

RequestStop == /\ ~stop /\ stop' = TRUE
               /\ UNCHANGED <<loop, accepted, lockQueue, up, at, outcome, events>>

\* listener.accept: a stream, or an error that ends the forward as it stands.
Accept(s) ==
  /\ loop = "select" /\ at[s] = "none"
  /\ loop' = "announce" /\ accepted' = {s}
  /\ UNCHANGED <<stop, lockQueue, up, at, outcome, events>>

AcceptFails ==
  /\ loop = "select" /\ loop' = "failed"
  /\ UNCHANGED <<accepted, stop, lockQueue, up, at, outcome, events>>

\* ConnectionAccepted is sent, then the stream's task is spawned.
Announce ==
  /\ loop = "announce"
  /\ \E s \in accepted : /\ Send([kind |-> "accepted", of |-> s])
                         /\ at' = [at EXCEPT ![s] = "lock"]
                         /\ lockQueue' = Append(lockQueue, s)
  /\ loop' = "select" /\ accepted' = {}
  /\ UNCHANGED <<stop, up, outcome>>

\* Bug variant: the stop waits until the open streams have drained.
StopTakenDrained ==
  /\ loop = "select" /\ stop /\ \A s \in Streams : at[s] \in {"none", "done"}
  /\ loop' = "lock" /\ lockQueue' = Append(lockQueue, "loop")
  /\ UNCHANGED <<accepted, stop, up, at, outcome, events>>

\* The loop takes the stop: it queues for the session.
StopTaken ==
  /\ loop = "select" /\ stop
  /\ loop' = "lock" /\ lockQueue' = Append(lockQueue, "loop")
  /\ UNCHANGED <<accepted, stop, up, at, outcome, events>>

\* With the session in hand it is disconnected, whatever streams are open on it.
Disconnect ==
  /\ loop = "lock" /\ Head(lockQueue) = "loop"
  /\ lockQueue' = Tail(lockQueue) /\ up' = FALSE /\ loop' = "tell"
  /\ UNCHANGED <<accepted, stop, at, outcome, events>>

TellStopped ==
  /\ loop = "tell" /\ Send([kind |-> "stopped"]) /\ loop' = "ended"
  /\ UNCHANGED <<accepted, stop, lockQueue, up, at, outcome>>

------------------------------------------------------------------------------
(* A stream's task.                                                         *)

\* channel_open_direct_tcpip, with the session locked until the server replies.
OpenChannel(s) ==
  /\ at[s] = "lock" /\ Head(lockQueue) = s
  /\ \/ up /\ at' = [at EXCEPT ![s] = "pump"] /\ UNCHANGED outcome
     \/ at' = [at EXCEPT ![s] = "report"] /\ outcome' = [outcome EXCEPT ![s] = "failed"]
  /\ lockQueue' = Tail(lockQueue)
  /\ UNCHANGED <<loop, accepted, stop, up, events>>

\* The local side is done: the channel's EOF goes out and the remote side is
\* read on.
LocalEof(s) ==
  /\ at[s] = "pump" /\ at' = [at EXCEPT ![s] = "half"]
  /\ UNCHANGED <<loop, accepted, stop, lockQueue, up, outcome, events>>

\* The remote side is done, or the session is gone; an error of either side.
PumpEnds(s) ==
  /\ at[s] \in {"pump", "half"} /\ at' = [at EXCEPT ![s] = "report"]
  /\ outcome' \in {[outcome EXCEPT ![s] = "closed"], [outcome EXCEPT ![s] = "failed"]}
  /\ UNCHANGED <<loop, accepted, stop, lockQueue, up, events>>

Report(s) ==
  /\ at[s] = "report" /\ Send([kind |-> outcome[s], of |-> s])
  /\ at' = [at EXCEPT ![s] = "done"]
  /\ UNCHANGED <<loop, accepted, stop, lockQueue, up, outcome>>

\* The connection breaks.
Break == /\ up /\ up' = FALSE
         /\ UNCHANGED <<loop, accepted, stop, lockQueue, at, outcome, events>>

LoopStep == Announce \/ StopTaken \/ Disconnect \/ TellStopped

ForwardNext ==
  \/ Receive \/ RequestStop \/ AcceptFails \/ Announce \/ StopTaken \/ Disconnect \/ TellStopped
  \/ Break
  \/ \E s \in Streams : \/ Accept(s) \/ OpenChannel(s) \/ LocalEof(s) \/ PumpEnds(s)
                        \/ Report(s)

\* The runtime schedules every task and the caller reads the events; the reply to
\* a channel open comes, or the keepalive ends the session.  The peers of an open
\* stream may stay silent for ever, until the session is gone.
ForwardSpec ==
  /\ ForwardInit /\ [][ForwardNext]_forwardVars
  /\ WF_forwardVars(Receive) /\ SF_forwardVars(LoopStep)
  /\ \A s \in Streams : /\ WF_forwardVars(Keepalive /\ OpenChannel(s))
                        /\ WF_forwardVars(~up /\ PumpEnds(s))
                        /\ SF_forwardVars(Report(s))

------------------------------------------------------------------------------
\* Once a stop has been carried out no stream gets a channel any more, also those
\* that were accepted before it and still wait for the session.
StoppedOpensNothing ==
  [][\A s \in Streams : at[s] = "lock" /\ at'[s] = "pump" => loop \notin {"tell", "ended"}]_forwardVars

\* A stop is carried out although channel opens hold the session and the event
\* channel may be full, and then every stream that was announced is reported.
StopHonoured ==
  /\ stop ~> loop \in {"ended", "failed"}
  /\ \A s \in Streams : (at[s] # "none" /\ loop = "ended") ~> at[s] = "done"
==============================================================================
