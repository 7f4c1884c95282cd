------------------------------- MODULE Download -------------------------------
(***************************************************************************)
(* RusshSession::download_file and download_attempt (openterm-ssh/lib.rs): *)
(* one file fetched into `<local>.part` by a window of concurrent chunk    *)
(* tasks, with retries, a cooperative stop and a resume from the length of *)
(* an existing `.part`.                                                    *)
(*                                                                         *)
(* The file is a row of Size cells.  `.part` is its length and the cells   *)
(* that hold fetched bytes: the others below its length are holes.  A      *)
(* chunk is Chunk cells; a read may return fewer than it asked for.  The   *)
(* measured throughput that sizes the next window is a free choice within  *)
(* the clamp.  Only one task works on a given `.part`.                     *)
(***************************************************************************)
EXTENDS Integers, FiniteSets, FiniteSetsExt

CONSTANTS Size,       \* length of the remote file when the user asks for it
          Chunk,      \* TRANSFER_CHUNK
          WindowMin,  \* TRANSFER_WINDOW_MIN, in chunks
          WindowMax,  \* TRANSFER_WINDOW_MAX
          Attempts,   \* TRANSFER_ATTEMPTS
          MaxStarts,  \* bound: how often the user starts or resumes the download
          MaxKills,   \* bound: how often the task is aborted
          MayShrink   \* the remote file may be cut short, once

ASSUME DownloadAssumption ==
  /\ {Size, Chunk, WindowMin, WindowMax, Attempts} \subseteq Nat \ {0}
  /\ WindowMin <= WindowMax
  /\ MaxStarts \in Nat /\ MaxKills \in Nat /\ MayShrink \in BOOLEAN

VARIABLES
  remote,    \* length of the remote file now
  partLen,   \* length of the .part, 0 also when there is none
  good,      \* the cells of the .part that hold fetched bytes
  promoted,  \* the .part was renamed to its final name
  final,     \* the cells of the promoted file that hold fetched bytes
  pc,        \* where the download task is
  attempt,   \* download_file's attempt counter
  stop,      \* the stop token is nonzero
  resume, total, offset, window,
  cur,       \* how far each chunk task has read
  inflight,  \* the chunk tasks of the JoinSet that have not ended
  completed, \* the chunks whose flag is set
  failure,   \* the attempt's error: none, transient or fatal
  vanished,  \* a chunk ended without completing (`aborted`)
  stopped,
  starts, kills

fileVars  == <<partLen, good, promoted, final>>
planVars  == <<resume, total, offset, window>>
chunkVars == <<cur, inflight, completed>>
endVars   == <<failure, vanished, stopped>>
vars == <<remote, fileVars, pc, attempt, stop, planVars, chunkVars, endVars, starts, kills>>

(* idle     no download task            batch   the head of the window loop
   stat     connecting and stat()       drain   join_next() on the chunk tasks
   open     opening the remote file     close   reporter.await and raw.close()
   backoff  sleeping before a retry                                          *)
PcStates == {"idle", "stat", "open", "batch", "drain", "close", "backoff"}

Cells  == 0 .. Size - 1
Chunks == 0 .. Size - 1  \* indices; an attempt uses the first ones of them

\* The type invariant.
TypeOK ==
  /\ remote \in 0 .. Size
  /\ partLen \in 0 .. Size
  /\ good \in SUBSET (0 .. partLen - 1)
  /\ final \in SUBSET Cells
  /\ {promoted, stop, vanished, stopped} \subseteq BOOLEAN
  /\ pc \in PcStates
  /\ attempt \in 0 .. Attempts
  /\ {resume, total, offset} \subseteq 0 .. Size
  /\ window \in WindowMin .. WindowMax
  /\ cur \in [Chunks -> 0 .. Size]
  /\ inflight \in SUBSET Chunks
  /\ completed \in SUBSET Chunks
  /\ failure \in {"none", "transient", "fatal"}
  /\ starts \in 0 .. MaxStarts /\ kills \in 0 .. MaxKills

Init ==
  /\ remote = Size
  /\ partLen = 0 /\ good = {} /\ promoted = FALSE /\ final = {}
  /\ pc = "idle" /\ attempt = 0 /\ stop = FALSE
  /\ resume = 0 /\ total = 0 /\ offset = 0 /\ window = WindowMin
  /\ cur = [i \in Chunks |-> 0] /\ inflight = {} /\ completed = {}
  /\ failure = "none" /\ vanished = FALSE /\ stopped = FALSE
  /\ starts = 0 /\ kills = 0

ChunkStart(i) == resume + i * Chunk
ChunkEnd(i)   == Min({resume + (i + 1) * Chunk, total})

------------------------------------------------------------------------------
(* What happens to the task from outside. *)

\* The user downloads the file or resumes it: a fresh task with a fresh token.
Start ==
  /\ pc = "idle" /\ ~promoted /\ starts < MaxStarts
  /\ starts' = starts + 1
  /\ attempt' = 1 /\ stop' = FALSE
  /\ pc' = "stat"
  /\ UNCHANGED <<remote, fileVars, planVars, chunkVars, endVars, kills>>

\* Pause or cancel.
Stop ==
  /\ pc # "idle" /\ ~stop
  /\ stop' = TRUE
  /\ UNCHANGED <<remote, fileVars, pc, attempt, planVars, chunkVars, endVars, starts, kills>>

\* The teardown of the SSH connection aborts the task, or the program ends: the
\* chunk tasks go with their JoinSet, and nothing is cut or promoted.
Kill ==
  /\ pc # "idle" /\ kills < MaxKills
  /\ kills' = kills + 1
  /\ pc' = "idle" /\ inflight' = {}
  /\ UNCHANGED <<remote, fileVars, attempt, stop, planVars, cur, completed, endVars, starts>>

\* Somebody truncates the file on the server.
Shrink ==
  /\ MayShrink /\ remote = Size
  /\ remote' \in 0 .. Size - 1
  /\ UNCHANGED <<fileVars, pc, attempt, stop, planVars, chunkVars, endVars, starts, kills>>

------------------------------------------------------------------------------
(* download_file: what happens after an attempt that ended with an error. *)

\* Bug variant: one attempt too many.
RetryOnceMore(kind) ==
  IF stop \/ kind = "fatal" \/ attempt > Attempts
  THEN pc' = "idle" /\ UNCHANGED attempt
  ELSE pc' = "backoff" /\ attempt' = attempt + 1

Retry(kind) ==
  IF stop \/ kind = "fatal" \/ attempt >= Attempts
  THEN pc' = "idle" /\ UNCHANGED attempt
  ELSE pc' = "backoff" /\ attempt' = attempt + 1

Backoff ==
  /\ pc = "backoff"
  /\ pc' = "stat"
  /\ UNCHANGED <<remote, fileVars, attempt, stop, planVars, chunkVars, endVars, starts, kills>>

------------------------------------------------------------------------------
(* download_attempt. *)

\* The channel, the subsystem or stat() fails: nothing has been touched.
StatFail ==
  /\ pc = "stat"
  /\ \E kind \in {"transient", "fatal"} : Retry(kind)
  /\ UNCHANGED <<remote, fileVars, stop, planVars, chunkVars, endVars, starts, kills>>

\* The length of an existing `.part` is where the attempt goes on, unless it is
\* longer than the remote file; then the `.part` is truncated.
Stat ==
  /\ pc = "stat"
  /\ total' = remote
  /\ resume' = IF partLen <= remote THEN partLen ELSE 0
  /\ offset' = resume' /\ window' = WindowMin
  /\ IF resume' = 0 THEN partLen' = 0 /\ good' = {} ELSE UNCHANGED <<partLen, good>>
  /\ completed' = {} /\ failure' = "none" /\ vanished' = FALSE /\ stopped' = FALSE
  /\ pc' = "open"
  /\ UNCHANGED <<remote, promoted, final, attempt, stop, cur, inflight, starts, kills>>

OpenFail ==
  /\ pc = "open"
  /\ \E kind \in {"transient", "fatal"} : Retry(kind)
  /\ UNCHANGED <<remote, fileVars, stop, planVars, chunkVars, endVars, starts, kills>>

Open ==
  /\ pc = "open"
  /\ pc' = "batch"
  /\ UNCHANGED <<remote, fileVars, attempt, stop, planVars, chunkVars, endVars, starts, kills>>

\* The head of the loop when there is nothing left to spawn, or a stop.
LastBatch ==
  /\ pc = "batch"
  /\ \/ offset = total /\ UNCHANGED stopped
     \/ offset < total /\ stop /\ stopped' = TRUE
  /\ pc' = "close"
  /\ UNCHANGED <<remote, fileVars, attempt, stop, planVars, chunkVars, failure, vanished, starts, kills>>

\* Bug variant: the loop spawns its next window without looking at the token.
SpawnWindowUnasked ==
  /\ pc = "batch" /\ offset < total
  /\ offset' = Min({offset + window * Chunk, total})
  /\ inflight' = {i \in Chunks : ChunkStart(i) \in offset .. offset' - 1}
  /\ cur' = [i \in Chunks |-> IF i \in inflight' THEN ChunkStart(i) ELSE 0]
  /\ pc' = "drain"
  /\ UNCHANGED <<remote, fileVars, attempt, stop, resume, total, window, completed, endVars, starts, kills>>

SpawnWindow ==
  /\ pc = "batch" /\ offset < total /\ ~stop
  /\ offset' = Min({offset + window * Chunk, total})
  /\ inflight' = {i \in Chunks : ChunkStart(i) \in offset .. offset' - 1}
  /\ cur' = [i \in Chunks |-> IF i \in inflight' THEN ChunkStart(i) ELSE 0]
  /\ pc' = "drain"
  /\ UNCHANGED <<remote, fileVars, attempt, stop, resume, total, window, completed, endVars, starts, kills>>

\* One read and the positioned write of what it returned.  The flag is set
\* without an await after the last one.
ChunkRead(i) ==
  /\ i \in inflight /\ cur[i] < remote
  /\ \E n \in 1 .. Min({ChunkEnd(i), remote}) - cur[i] :
       /\ good' = good \cup (cur[i] .. cur[i] + n - 1)
       /\ partLen' = Max({partLen, cur[i] + n})
       /\ cur' = [cur EXCEPT ![i] = @ + n]
       /\ IF cur[i] + n < ChunkEnd(i)
          THEN UNCHANGED <<inflight, completed>>
          ELSE inflight' = inflight \ {i} /\ completed' = completed \cup {i}
  /\ UNCHANGED <<remote, promoted, final, pc, attempt, stop, planVars, endVars, starts, kills>>

\* The file ends before the chunk does and the server answers with no data.
ChunkEof(i) ==
  /\ i \in inflight /\ remote <= cur[i]
  /\ inflight' = inflight \ {i}
  /\ completed' = completed \cup {i}
  /\ UNCHANGED <<remote, fileVars, pc, attempt, stop, planVars, cur, endVars, starts, kills>>

\* A timeout or a lost transport, a status reply (end of file among them), or a
\* write the disk refuses.  The first error aborts the other chunks.
ChunkFail(i) ==
  /\ i \in inflight /\ failure = "none"
  /\ inflight' = inflight \ {i}
  /\ failure' \in {"transient", "fatal"}
  /\ UNCHANGED <<remote, fileVars, pc, attempt, stop, planVars, cur, completed, vanished, stopped, starts, kills>>

\* An aborted chunk goes at its next await; one that is being polled may still
\* take its step.
ChunkDropped(i) ==
  /\ i \in inflight /\ failure # "none"
  /\ inflight' = inflight \ {i}
  /\ UNCHANGED <<remote, fileVars, pc, attempt, stop, planVars, cur, completed, endVars, starts, kills>>

\* A chunk ends without reporting an error (a panic).
ChunkVanish(i) ==
  /\ i \in inflight /\ failure = "none"
  /\ inflight' = inflight \ {i}
  /\ vanished' = TRUE
  /\ UNCHANGED <<remote, fileVars, pc, attempt, stop, planVars, cur, completed, failure, stopped, starts, kills>>

\* Every chunk of the window has been joined.
WindowBroken ==
  /\ pc = "drain" /\ inflight = {}
  /\ failure # "none" \/ vanished
  /\ stopped' = (failure = "none" /\ stop)
  /\ failure' = IF failure = "none" /\ ~stop THEN "transient" ELSE failure
  /\ pc' = "close"
  /\ UNCHANGED <<remote, fileVars, attempt, stop, planVars, chunkVars, vanished, starts, kills>>

\* Bug variant: a chunk that vanished is overlooked.
WindowDoneAnyway ==
  /\ pc = "drain" /\ inflight = {} /\ failure = "none"
  /\ window' \in WindowMin .. Min({WindowMax, 2 * window})
  /\ pc' = "batch"
  /\ UNCHANGED <<remote, fileVars, attempt, stop, resume, total, offset, chunkVars, endVars, starts, kills>>

WindowDone ==
  /\ pc = "drain" /\ inflight = {} /\ failure = "none" /\ ~vanished
  /\ window' \in WindowMin .. Min({WindowMax, 2 * window})
  /\ pc' = "batch"
  /\ UNCHANGED <<remote, fileVars, attempt, stop, resume, total, offset, chunkVars, endVars, starts, kills>>

------------------------------------------------------------------------------
(* The end of an attempt. *)

\* The longest prefix of chunks that are known written.
Contiguous == Min({i \in 0 .. Size : i \notin completed})

\* Bug variant: every completed chunk counts.
WatermarkCountsAll == resume + Min({Cardinality(completed) * Chunk, total - resume})

Watermark == resume + Min({Contiguous * Chunk, total - resume})

Promote ==
  /\ pc = "close" /\ failure = "none" /\ ~stopped
  /\ promoted' = TRUE /\ final' = good
  /\ partLen' = 0 /\ good' = {}
  /\ pc' = "idle"
  /\ UNCHANGED <<remote, attempt, stop, planVars, chunkVars, endVars, starts, kills>>

\* sync_all or rename fails; the `.part` is whole.
PromoteFail ==
  /\ pc = "close" /\ failure = "none" /\ ~stopped
  /\ Retry("transient")
  /\ UNCHANGED <<remote, fileVars, stop, planVars, chunkVars, endVars, starts, kills>>

\* Paused, cancelled or failed: set_len(watermark).
CutBack ==
  /\ pc = "close" /\ (failure # "none" \/ stopped)
  /\ partLen' = Watermark
  /\ good' = good \cap (0 .. Watermark - 1)
  /\ IF failure = "none" THEN pc' = "idle" /\ UNCHANGED attempt ELSE Retry(failure)
  /\ UNCHANGED <<remote, promoted, final, stop, planVars, chunkVars, endVars, starts, kills>>

------------------------------------------------------------------------------
ChunkStep(i) == \/ ChunkRead(i) \/ ChunkEof(i) \/ ChunkFail(i)
                \/ ChunkDropped(i) \/ ChunkVanish(i)
Attempt == \/ StatFail \/ Stat \/ OpenFail \/ Open \/ LastBatch \/ SpawnWindow
           \/ WindowBroken \/ WindowDone \/ Promote \/ PromoteFail \/ CutBack
Outside == Start \/ Stop \/ Kill \/ Shrink

\* The user has what he wanted, or has given up.
Ended == pc = "idle" /\ (promoted \/ starts = MaxStarts) /\ UNCHANGED vars

Next == Outside \/ Backoff \/ Attempt \/ (\E i \in Chunks : ChunkStep(i)) \/ Ended

Spec == Init /\ [][Next]_vars

(* Every request has a deadline (TRANSFER_REQUEST_TIMEOUT, OP_TIMEOUT) and every
   backoff ends.  Nobody has to start, stop or kill anything.                *)
FairSpec == Spec /\ WF_vars(Backoff) /\ WF_vars(Attempt)
                 /\ \A i \in Chunks : WF_vars(ChunkStep(i))

------------------------------------------------------------------------------
\* The server's file has not changed and no task was aborted in mid-flight.
Undisturbed == remote = Size /\ kills = 0

\* "Truncated to the watermark so no hole survives": whenever no attempt is under
\* way, every cell of the `.part` holds fetched bytes, however the chunks of a
\* window completed, failed or vanished (lib.rs:1308-1312, 1446-1449).
PartIsPrefix ==
  Undisturbed /\ pc \in {"idle", "stat", "backoff"} => good = 0 .. partLen - 1

\* A promoted file is the whole file, whatever windows, pauses, retries and
\* resumes it was fetched in (lib.rs:1401-1405, 1438-1444).
PromotedIsWhole == Undisturbed /\ promoted => final = Cells

\* The same without excuses for aborts: "a later resume can never skip a hole"
\* (lib.rs:1223-1225).
NeverSkipsHole == remote = Size /\ promoted => final = Cells

\* "A link that breaks mid-file costs one backoff instead of the whole transfer":
\* every attempt begins at or beyond where the one before it began
\* (lib.rs:1190-1192, 1215-1217).
NeverStartsOver == [][remote' = Size => resume' >= resume]_vars

\* Once the stop token is set, no further read is put in flight (lib.rs:1334-1341).
StopSpawnsNothing == [][stop => inflight' \subseteq inflight]_vars

\* A download ends: promoted, stopped or given up (lib.rs:1201-1220).
Terminates == pc # "idle" ~> pc = "idle"
==============================================================================
