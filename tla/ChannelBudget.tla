---------------------------- MODULE ChannelBudget ----------------------------
(***************************************************************************)
(* The two semaphores of a RusshSession (openterm-ssh): channel_sem bounds *)
(* the channels on one SSH connection, bulk_sem the transfers among them.  *)
(* Tokio's semaphores are FIFO: a freed permit goes to the first waiter,   *)
(* and a newcomer does not overtake the queue.                             *)
(*                                                                         *)
(* Three kinds of requests open channels: transfers take a bulk permit and *)
(* then a channel permit; SFTP operations a channel permit inside their    *)
(* deadline; exec_capture a channel permit outside of it.  The shell takes *)
(* none.  A dropped future leaves the queue or frees what it holds.        *)
(***************************************************************************)
EXTENDS Naturals, Sequences, FiniteSets, SequencesExt

CONSTANTS Transfers, SftpOps, Execs,  \* requests in flight at one time
          ChannelPermits,             \* 6 in the code
          BulkPermits                 \* MAX_BULK_TRANSFERS, 3 in the code

\* There are fewer bulk permits than channel permits, and a request is of one kind.
ASSUME BudgetAssumption ==
  /\ ChannelPermits \in Nat /\ BulkPermits \in Nat /\ BulkPermits < ChannelPermits
  /\ IsFiniteSet(Transfers) /\ IsFiniteSet(SftpOps) /\ IsFiniteSet(Execs)
  /\ Transfers \cap (SftpOps \cup Execs) = {}

VARIABLES
  channelFree, channelQueue,  \* channel_sem
  bulkFree, bulkQueue,        \* bulk_sem
  request,                    \* where each request is
  shell                       \* the interactive shell's channel is open

budgetVars == <<channelFree, channelQueue, bulkFree, bulkQueue, request, shell>>

Requests == Transfers \cup SftpOps \cup Execs
\* bulk, channel: waiting for that permit; granted: has its bulk permit; open:
\* opening its channel; closed: the SFTP session is closed
BudgetPlaces == {"none", "bulk", "granted", "channel", "open", "busy", "closed"}

\* The type invariant.
BudgetTypeOK ==
  /\ channelFree \in 0 .. ChannelPermits /\ bulkFree \in 0 .. BulkPermits
  /\ channelQueue \in Seq(Requests) /\ bulkQueue \in Seq(Transfers)
  /\ request \in [Requests -> BudgetPlaces] /\ shell \in BOOLEAN

BudgetInit == /\ channelFree = ChannelPermits /\ channelQueue = <<>>
              /\ bulkFree = BulkPermits /\ bulkQueue = <<>>
              /\ request = [r \in Requests |-> "none"] /\ shell = FALSE

Waits(r, queue) == r \in Range(queue)
HoldsChannel(r) == request[r] \in {"open", "busy"}
HoldsBulk(r)    == r \in Transfers /\ request[r] \in {"granted", "channel", "open", "busy", "closed"}

\* acquire_owned on channel_sem.
AcquireChannel(r) ==
  IF channelFree > 0 /\ channelQueue = <<>>
  THEN /\ channelFree' = channelFree - 1 /\ UNCHANGED channelQueue
       /\ request' = [request EXCEPT ![r] = "open"]
  ELSE /\ channelQueue' = Append(channelQueue, r) /\ UNCHANGED channelFree
       /\ request' = [request EXCEPT ![r] = "channel"]

\* A permit of r comes back: to the first waiter, or to the semaphore.
ReleaseChannel(r, place) ==
  IF channelQueue = <<>>
  THEN /\ channelFree' = channelFree + 1 /\ UNCHANGED channelQueue
       /\ request' = [request EXCEPT ![r] = place]
  ELSE /\ channelQueue' = Tail(channelQueue) /\ UNCHANGED channelFree
       /\ request' = [request EXCEPT ![r] = place, ![Head(channelQueue)] = "open"]

\* The same for bulk_sem.
ReleaseBulk(r) ==
  IF bulkQueue = <<>>
  THEN /\ bulkFree' = bulkFree + 1 /\ UNCHANGED bulkQueue
       /\ request' = [request EXCEPT ![r] = "none"]
  ELSE /\ bulkQueue' = Tail(bulkQueue) /\ UNCHANGED bulkFree
       /\ request' = [request EXCEPT ![r] = "none", ![Head(bulkQueue)] = "granted"]

Leave(queue, r) == RemoveAt(queue, CHOOSE i \in DOMAIN queue : queue[i] = r)

\* Bug variant: a transfer goes straight for its channel permit.
TransferStartUnbounded(r) ==
  /\ request[r] = "none" /\ bulkFree' = IF bulkFree = 0 THEN 0 ELSE bulkFree - 1
  /\ AcquireChannel(r)
  /\ UNCHANGED <<bulkQueue, shell>>

\* upload_attempt, download_attempt: queue behind other transfers first.
TransferStart(r) ==
  /\ request[r] = "none"
  /\ IF bulkFree > 0 /\ bulkQueue = <<>>
     THEN /\ bulkFree' = bulkFree - 1 /\ UNCHANGED bulkQueue
          /\ request' = [request EXCEPT ![r] = "granted"]
     ELSE /\ bulkQueue' = Append(bulkQueue, r) /\ UNCHANGED bulkFree
          /\ request' = [request EXCEPT ![r] = "bulk"]
  /\ UNCHANGED <<channelFree, channelQueue, shell>>

\* With the bulk permit in hand: open_sftp_guarded_with.
TransferOpen(r) ==
  /\ request[r] = "granted"
  /\ AcquireChannel(r)
  /\ UNCHANGED <<bulkFree, bulkQueue, shell>>

\* open_sftp_guarded and exec_capture.
QuickStart(r) ==
  /\ request[r] = "none"
  /\ AcquireChannel(r)
  /\ UNCHANGED <<bulkFree, bulkQueue, shell>>

\* channel_open_session and what makes the channel usable succeed.
Opened(r) ==
  /\ request[r] = "open"
  /\ request' = [request EXCEPT ![r] = "busy"]
  /\ UNCHANGED <<channelFree, channelQueue, bulkFree, bulkQueue, shell>>

\* An operation ends: it is done, refused, failed, or past the deadline that
\* starts once it holds its permit.
QuickEnd(r) ==
  /\ HoldsChannel(r)
  /\ ReleaseChannel(r, "none")
  /\ UNCHANGED <<bulkFree, bulkQueue, shell>>

\* OP_TIMEOUT, CONTENT_TIMEOUT: the deadline of an SFTP operation includes the
\* wait for its permit.
WaitTimeout(r) ==
  /\ request[r] = "channel"
  /\ channelQueue' = Leave(channelQueue, r)
  /\ request' = [request EXCEPT ![r] = "none"]
  /\ UNCHANGED <<channelFree, bulkFree, bulkQueue, shell>>

\* The SFTP handle is closed first; the bulk permit is dropped with the attempt.
TransferClose(r) ==
  /\ r \in Transfers /\ HoldsChannel(r)
  /\ ReleaseChannel(r, "closed")
  /\ UNCHANGED <<bulkFree, bulkQueue, shell>>

TransferEnd(r) ==
  /\ request[r] = "closed"
  /\ ReleaseBulk(r)
  /\ UNCHANGED <<channelFree, channelQueue, shell>>

\* The task of a waiting transfer is aborted.
TransferAbort(r) ==
  /\ \/ /\ request[r] = "bulk"
        /\ bulkQueue' = Leave(bulkQueue, r) /\ UNCHANGED <<bulkFree, channelQueue>>
        /\ request' = [request EXCEPT ![r] = "none"]
     \/ request[r] = "granted" /\ ReleaseBulk(r) /\ UNCHANGED channelQueue
     \/ request[r] = "channel" /\ channelQueue' = Leave(channelQueue, r) /\ ReleaseBulk(r)
  /\ UNCHANGED <<channelFree, shell>>

\* event_shell opens its channel directly, and is_alive opens none.
Shell == shell' = ~shell
         /\ UNCHANGED <<channelFree, channelQueue, bulkFree, bulkQueue, request>>

Quick(r) == Opened(r) \/ QuickEnd(r)

BudgetNext ==
  \/ \E r \in Transfers : \/ TransferStart(r) \/ TransferOpen(r) \/ Opened(r)
                          \/ TransferClose(r) \/ TransferEnd(r) \/ TransferAbort(r)
  \/ \E r \in SftpOps : QuickStart(r) \/ Opened(r) \/ QuickEnd(r) \/ WaitTimeout(r)
  \/ \E r \in Execs : QuickStart(r) \/ Opened(r) \/ QuickEnd(r)
  \/ Shell

\* OP_TIMEOUT ends every exec and SFTP operation that has its permit.  A transfer
\* may hold its permits for ever.
BudgetSpec == /\ BudgetInit /\ [][BudgetNext]_budgetVars
              /\ \A r \in SftpOps \cup Execs : WF_budgetVars(Quick(r))

------------------------------------------------------------------------------
\* However requests are granted, time out in the queue or are aborted, no permit is
\* lost or minted, the queues hold exactly those who wait, and no one waits while
\* a permit is free; so at most ChannelPermits channels and the shell are open.
PermitsExact ==
  /\ channelFree + Cardinality({r \in Requests : HoldsChannel(r)}) = ChannelPermits
  /\ bulkFree + Cardinality({r \in Transfers : HoldsBulk(r)}) = BulkPermits
  /\ channelQueue # <<>> => channelFree = 0
  /\ bulkQueue # <<>> => bulkFree = 0
  /\ IsInjective(channelQueue) /\ IsInjective(bulkQueue)
  /\ \A r \in Requests : Waits(r, channelQueue) <=> request[r] = "channel"
  /\ \A r \in Transfers : Waits(r, bulkQueue) <=> request[r] = "bulk"

\* Transfers leave room (lib.rs:736-743): those that wait for a bulk permit are not in
\* the channel queue, so fewer transfers than channel permits are ever ahead of a
\* listing.
TransfersLeaveRoom ==
  Cardinality({r \in Transfers : HoldsChannel(r) \/ Waits(r, channelQueue)}) < ChannelPermits

\* Permits are exact and leave room beside the transfers.
BudgetSound == PermitsExact /\ TransfersLeaveRoom

\* A remote sample or suggestion query is answered or fails although transfers may
\* hang: exec_capture waits for its permit without a deadline.
ExecServed == \A r \in Execs : request[r] = "channel" ~> request[r] # "channel"
==============================================================================
