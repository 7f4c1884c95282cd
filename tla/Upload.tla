-------------------------------- MODULE Upload --------------------------------
(***************************************************************************)
(* Uploading one file (openterm-ssh, upload_file and upload_attempt): the  *)
(* remote `.part`, the pipelined writes, stop, flush, promotion, retries,  *)
(* and what a later start finds.  The file is a row of cells, one per      *)
(* write; the server handles the writes of one SFTP session in order, but  *)
(* the writes of an attempt that gave up may still be handled later, beside *)
(* the next attempt's.                                                     *)
(***************************************************************************)
EXTENDS Integers, Sequences, FiniteSets

CONSTANTS Cells,     \* number of writes of the file
          Writes,    \* TRANSFER_WRITE_WINDOW
          Tries,     \* TRANSFER_ATTEMPTS
          MaxUploads, \* bound: how often the user starts or resumes
          MaxAborts  \* bound: how often the task is aborted

VARIABLES
  part,      \* the cells the remote `.part` holds; {} also when there is none
  dest,      \* the remote file: absent, old, whole or torn
  pending,   \* this attempt's writes the server has not handled
  late,      \* the same of attempts that gave up
  refused,   \* the server refused a write of this attempt
  upc,       \* where the upload is; halt: flushing to stop
  try, next, \* attempt; the next cell to send
  stopReq,   \* the stop token
  disturbed, \* what the properties except has happened (see ContentSurvives)
  uploads, aborts

uploadVars == <<part, dest, pending, late, refused, upc, try, next, stopReq, disturbed,
                uploads, aborts>>

Row == 0 .. Cells - 1
Length == IF part = {} THEN 0 ELSE CHOOSE n \in 1 .. Cells : n - 1 \in part /\ \A c \in part : c < n

\* The type invariant.
TypeOK ==
  /\ part \subseteq Row /\ dest \in {"absent", "old", "whole", "torn"}
  /\ pending \in Seq(Row) /\ Len(pending) <= Writes /\ late \in Seq(Row)
  /\ upc \in {"idle", "stat", "open", "write", "halt", "flush", "remove", "rename",
             "backoff"}
  /\ try \in 0 .. Tries /\ next \in 0 .. Cells
  /\ {refused, stopReq, disturbed} \subseteq BOOLEAN
  /\ uploads \in 0 .. MaxUploads /\ aborts \in 0 .. MaxAborts

UploadInit ==
  /\ part = {} /\ dest = "old" /\ pending = <<>> /\ late = <<>> /\ refused = FALSE
  /\ upc = "idle" /\ try = 0 /\ next = 0 /\ stopReq = FALSE /\ disturbed = FALSE
  /\ uploads = 0 /\ aborts = 0

\* start_upload, or the resume of a paused row.
Start ==
  /\ upc = "idle" /\ uploads < MaxUploads
  /\ upc' = "stat" /\ try' = 1 /\ stopReq' = FALSE /\ refused' = FALSE /\ uploads' = uploads + 1
  /\ UNCHANGED <<part, dest, pending, late, next, disturbed, aborts>>

\* Pause or cancel.
Stop ==
  /\ upc # "idle" /\ ~stopReq /\ stopReq' = TRUE
  /\ UNCHANGED <<part, dest, pending, late, refused, upc, try, next, disturbed, uploads, aborts>>

\* The attempt gives up; what it had in flight may still arrive.
GiveUp(transient) ==
  /\ upc' = IF transient /\ ~stopReq /\ try < Tries THEN "backoff" ELSE "idle"
  /\ late' = late \o pending /\ pending' = <<>> /\ refused' = FALSE

\* Bug variant: the attempts are not counted.
BackoffUncounted ==
  /\ upc = "backoff" /\ upc' = "stat" /\ UNCHANGED try
  /\ UNCHANGED <<part, dest, pending, late, refused, next, stopReq, disturbed, uploads, aborts>>

Backoff ==
  /\ upc = "backoff" /\ upc' = "stat" /\ try' = try + 1
  /\ UNCHANGED <<part, dest, pending, late, refused, next, stopReq, disturbed, uploads, aborts>>

\* The permits, the SFTP session, and the size of the `.part`: a stat that fails
\* counts as no `.part`.
Stat ==
  /\ upc = "stat"
  /\ \/ /\ upc' = "open" /\ next' \in {Length, 0}
        /\ disturbed' = (disturbed \/ next' # Length)
        /\ UNCHANGED <<pending, late, refused>>
     \/ GiveUp(TRUE) /\ UNCHANGED <<next, disturbed>>
  /\ UNCHANGED <<part, dest, try, stopReq, uploads, aborts>>

\* Open the local file, then the `.part`: truncated unless resumed.
Open ==
  /\ upc = "open"
  /\ \/ /\ upc' = "write" /\ part' = IF next = 0 THEN {} ELSE part
        /\ disturbed' = (disturbed \/ (next = 0 /\ late # <<>>))
        /\ UNCHANGED <<pending, late, refused>>
     \/ \E transient \in BOOLEAN : GiveUp(transient) /\ UNCHANGED <<part, disturbed>>
  /\ UNCHANGED <<dest, try, next, stopReq, uploads, aborts>>

\* One turn of the loop: stop, end of file, or one more write in flight.
Write ==
  /\ upc = "write"
  /\ IF stopReq \/ next = Cells
     THEN upc' = (IF stopReq THEN "halt" ELSE "flush") /\ UNCHANGED <<pending, next>>
     ELSE /\ Len(pending) < Writes /\ ~refused
          /\ pending' = Append(pending, next) /\ next' = next + 1
          /\ UNCHANGED upc
  /\ UNCHANGED <<part, dest, late, refused, try, stopReq, disturbed, uploads, aborts>>

\* The server handles the oldest write in flight, or refuses it.
Handle ==
  /\ pending # <<>>
  /\ \/ part' = part \cup {Head(pending)} /\ UNCHANGED <<refused, disturbed>>
     \/ refused' = TRUE /\ disturbed' = TRUE /\ UNCHANGED part
  /\ pending' = Tail(pending)
  /\ UNCHANGED <<dest, late, upc, try, next, stopReq, uploads, aborts>>

HandleLate ==
  /\ late # <<>>
  /\ part' = part \cup {Head(late)} /\ late' = Tail(late)
  /\ UNCHANGED <<dest, pending, refused, upc, try, next, stopReq, disturbed, uploads, aborts>>

\* A refusal is reported by a later write or by the flush and is final; a reply
\* that does not come is a timeout, or the connection is gone, which is transient.
WriteFails ==
  /\ upc \in {"write", "halt", "flush"} /\ (refused \/ pending # <<>>)
  /\ GiveUp(~refused)
  /\ UNCHANGED <<part, dest, try, next, stopReq, disturbed, uploads, aborts>>

\* Bug variant: promote without waiting for the replies.
FlushIgnored ==
  /\ upc \in {"flush", "halt"} /\ upc' = IF upc = "halt" THEN "idle" ELSE "remove"
  /\ UNCHANGED <<part, dest, pending, late, refused, try, next, stopReq, disturbed, uploads, aborts>>

\* Every write is acknowledged.  A stop after the loop has ended does not stop the
\* promotion.
Flush ==
  /\ upc \in {"flush", "halt"} /\ pending = <<>> /\ ~refused
  /\ upc' = IF upc = "halt" THEN "idle" ELSE "remove"
  /\ UNCHANGED <<part, dest, pending, late, refused, try, next, stopReq, disturbed, uploads, aborts>>

\* remove_file(final): its result is ignored.
Remove ==
  /\ upc = "remove" /\ upc' = "rename"
  /\ dest' \in {dest, "absent"}
  /\ UNCHANGED <<part, pending, late, refused, try, next, stopReq, disturbed, uploads, aborts>>

\* rename(.part, final): refused over an existing file; and its reply may be lost,
\* whether it was done or not.  Late writes follow the file they were opened on.
Rename ==
  /\ upc = "rename"
  /\ \/ /\ dest = "absent"
        /\ dest' = (IF part = Row THEN "whole" ELSE "torn") /\ part' = {} /\ late' = <<>>
        /\ upc' \in {"idle", IF ~stopReq /\ try < Tries THEN "backoff" ELSE "idle"}
        /\ UNCHANGED <<pending, refused>>
     \/ \E transient \in BOOLEAN : GiveUp(transient) /\ UNCHANGED <<part, dest>>
  /\ UNCHANGED <<try, next, stopReq, disturbed, uploads, aborts>>

\* The connection is torn down or the program ends.
Abort ==
  /\ upc # "idle" /\ aborts < MaxAborts
  /\ aborts' = aborts + 1 /\ upc' = "idle"
  /\ late' = late \o pending /\ pending' = <<>> /\ refused' = FALSE
  /\ UNCHANGED <<part, dest, try, next, stopReq, disturbed, uploads>>

Attempt == Stat \/ Open \/ Write \/ Handle \/ WriteFails \/ Flush \/ Remove \/ Rename

UploadNext == \/ Start \/ Stop \/ Abort \/ Backoff \/ Stat \/ Open \/ Write \/ Handle
              \/ HandleLate \/ WriteFails \/ Flush \/ Remove \/ Rename

\* Every request has a deadline and every backoff ends.
UploadSpec == UploadInit /\ [][UploadNext]_uploadVars
              /\ WF_uploadVars(Attempt) /\ WF_uploadVars(Backoff)

------------------------------------------------------------------------------
\* As long as the server refused no write, no stat of an existing `.part` failed, and
\* no `.part` was cut under writes that were still on their way: the `.part` has no hole, what is promoted is the whole
\* file, and while the old remote file is gone and the new one is not in place yet,
\* its whole content is in the `.part`, wherever the attempt fails or is aborted
\* (lib.rs:1562-1578).
ContentSurvives ==
  ~disturbed => /\ part = 0 .. Length - 1
                /\ dest # "torn"
                /\ dest = "absent" => part = Row

\* An upload comes to an end: done, stopped or failed.
UploadTerminates == upc # "idle" ~> upc = "idle"
==============================================================================
