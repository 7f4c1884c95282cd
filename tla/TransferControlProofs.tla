------------------------ MODULE TransferControlProofs ------------------------
(***************************************************************************)
(* Theorems about TransferControl, for every number of resumes and of lost *)
(* connections.  What makes an attempt end once is `finalized`: while it   *)
(* is unset nobody has reported or cleans up (Unclaimed).  It is reset     *)
(* only by a start, and no start comes after a cancel (CancelIsLast), so   *)
(* the reset never meets a cleanup of the worker.                          *)
(***************************************************************************)
EXTENDS TransferControl, SequenceTheorems, TLAPS

USE DEF uiVars, ctlVars, taskVars, fileVars, Verdict, Receive, Send, Commands

\* The places where the task holds the attempt's files, with `running` set.
AtWork == {"acquire", "walk", "stream", "returned"}

\* A cancel is the last command, and its arm and cleanup run with no command left.
CancelIsLast ==
  /\ \A i \in 1 .. Len(cmds) : cmds[i] = "cancel" => canceled /\ i = Len(cmds)
  /\ sweeping \/ wpc # "idle" => canceled /\ cmds = <<>>

\* Whoever reports or cleans up has claimed the end first.
Unclaimed == ~finalized => verdicts = <<>> /\ ~sweeping /\ task # "cleanup"

\* A task at work has not cleared `running`, so the worker claims only after it has left off.
LeftOff ==
  /\ task \in AtWork => running
  /\ wpc = "claim" => ~running
  /\ sweeping \/ verdicts = <<"Canceled">> => task \notin AtWork

Control == TypeOK /\ CancelIsLast /\ Unclaimed /\ LeftOff /\ OneVerdict

------------------------------------------------------------------------------
\* Sending and receiving keep a queue a sequence.
LEMMA SeqSteps ==
  ASSUME NEW S, NEW s \in Seq(S)
  PROVE  /\ \A e \in S : Append(s, e) \in Seq(S)
         /\ s # <<>> => Tail(s) \in Seq(S)
         /\ \A t \in Seq(S) : s \o t \in Seq(S)
         /\ <<>> \in Seq(S)
  BY AppendProperties, HeadTailProperties, ConcatProperties

\* Every step keeps each variable in its range.
LEMMA TypeStep ==
  ASSUME MaxResumes \in Nat, MaxLosses \in Nat
  PROVE  TypeOK /\ [Next]_vars => TypeOK'
<1> SUFFICES ASSUME TypeOK, [Next]_vars PROVE TypeOK'
  OBVIOUS
<1> DEFINE Cmds == Commands
           Evts == {"Started", "Paused", "Canceled", "Finished", "FinishedErr"}
           Ends == {"Canceled", "Finished", "FinishedErr"}
<1> HIDE DEF Cmds, Evts, Ends
<1>0. cmds \in Seq(Cmds) /\ evts \in Seq(Evts) /\ verdicts \in Seq(Ends)
  BY DEF TypeOK, Cmds, Evts, Ends
<1>1. cmds' \in Seq(Cmds)
  <2>1. \/ cmds' = cmds
        \/ cmds # <<>> /\ cmds' = Tail(cmds)
        \/ \E c \in Cmds : cmds' = Append(cmds, c)
    BY DEF Cmds, Next, User, Worker, Task, Settled, Pause, Cancel, Resume, OnEvent, WorkerStart, WorkerPause, WorkerCancel,
           CancelCheck, CancelClaim, WorkerSweep, WorkerDrain, Reconnect, Lose, Acquired, AcquireError,
           AcquireErrorEnds, Walked, WalkError, Write, Stream, ClearRunning, LoadMode, Claim, CleanUp, vars
  <2> QED
    BY <1>0, <2>1, SeqSteps
<1>2. evts' \in Seq(Evts)
  <2>1. \/ evts' = evts
        \/ evts # <<>> /\ evts' = Tail(evts)
        \/ \E e \in Evts : evts' = Append(evts, e)
        \/ evts' = evts \o <<"Started", "FinishedErr">>
    BY DEF Evts, Next, User, Worker, Task, Settled, Pause, Cancel, Resume, OnEvent, WorkerStart, WorkerPause, WorkerCancel,
           CancelCheck, CancelClaim, WorkerSweep, WorkerDrain, Reconnect, Lose, Acquired, AcquireError,
           AcquireErrorEnds, Walked, WalkError, Write, Stream, ClearRunning, LoadMode, Claim, CleanUp, vars
  <2>2. <<"Started", "FinishedErr">> \in Seq(Evts)
    BY DEF Evts
  <2> QED
    BY <1>0, <2>1, <2>2, SeqSteps
<1>3. verdicts' \in Seq(Ends)
  <2>1. \/ verdicts' = verdicts
        \/ verdicts' = <<>>
        \/ \E v \in Ends : verdicts' = Append(verdicts, v)
    BY DEF Ends, Next, User, Worker, Task, Settled, Pause, Cancel, Resume, OnEvent, WorkerStart, WorkerPause, WorkerCancel,
           CancelCheck, CancelClaim, WorkerSweep, WorkerDrain, Reconnect, Lose, Acquired, AcquireError,
           AcquireErrorEnds, Walked, WalkError, Write, Stream, ClearRunning, LoadMode, Claim, CleanUp, vars
  <2> QED
    BY <1>0, <2>1, SeqSteps
<1>4. row' \in Rows
  BY DEF TypeOK, Rows, Shown, Next, User, Worker, Task, Settled, Pause, Cancel, Resume, OnEvent, WorkerStart, WorkerPause, WorkerCancel,
         CancelCheck, CancelClaim, WorkerSweep, WorkerDrain, Reconnect, Lose, Acquired, AcquireError,
         AcquireErrorEnds, Walked, WalkError, Write, Stream, ClearRunning, LoadMode, Claim, CleanUp, vars
<1>e. resumes' \in 0 .. MaxResumes
  <2>1. resumes' = resumes \/ (resumes < MaxResumes /\ resumes' = resumes + 1)
    BY DEF Next, User, Worker, Task, Settled, Pause, Cancel, Resume, OnEvent, WorkerStart, WorkerPause, WorkerCancel,
           CancelCheck, CancelClaim, WorkerSweep, WorkerDrain, Reconnect, Lose, Acquired, AcquireError,
           AcquireErrorEnds, Walked, WalkError, Write, Stream, ClearRunning, LoadMode, Claim, CleanUp, vars
  <2> QED
    BY <2>1 DEF TypeOK
<1>5. {pauseReq', canceled'} \subseteq BOOLEAN
  BY DEF TypeOK, Next, User, Worker, Task, Settled, Pause, Cancel, Resume, OnEvent, WorkerStart, WorkerPause, WorkerCancel,
         CancelCheck, CancelClaim, WorkerSweep, WorkerDrain, Reconnect, Lose, Acquired, AcquireError,
         AcquireErrorEnds, Walked, WalkError, Write, Stream, ClearRunning, LoadMode, Claim, CleanUp, vars
<1>6. {known', running', finalized'} \subseteq BOOLEAN
  BY DEF TypeOK, Next, User, Worker, Task, Settled, Pause, Cancel, Resume, OnEvent, WorkerStart, WorkerPause, WorkerCancel,
         CancelCheck, CancelClaim, WorkerSweep, WorkerDrain, Reconnect, Lose, Acquired, AcquireError,
         AcquireErrorEnds, Walked, WalkError, Write, Stream, ClearRunning, LoadMode, Claim, CleanUp, vars
<1>a. mode' \in 0 .. 2
  <2>1. mode' = mode \/ mode' \in {0, 1, 2}
    BY DEF Next, User, Worker, Task, Settled, Pause, Cancel, Resume, OnEvent, WorkerStart, WorkerPause, WorkerCancel,
           CancelCheck, CancelClaim, WorkerSweep, WorkerDrain, Reconnect, Lose, Acquired, AcquireError,
           AcquireErrorEnds, Walked, WalkError, Write, Stream, ClearRunning, LoadMode, Claim, CleanUp, vars
  <2> QED
    BY <2>1 DEF TypeOK
<1>b. wpc' \in {"idle", "check", "claim"}
  BY DEF TypeOK, Next, User, Worker, Task, Settled, Pause, Cancel, Resume, OnEvent, WorkerStart, WorkerPause, WorkerCancel,
         CancelCheck, CancelClaim, WorkerSweep, WorkerDrain, Reconnect, Lose, Acquired, AcquireError,
         AcquireErrorEnds, Walked, WalkError, Write, Stream, ClearRunning, LoadMode, Claim, CleanUp, vars
<1>f. online' \in BOOLEAN
  BY DEF TypeOK, Next, User, Worker, Task, Settled, Pause, Cancel, Resume, OnEvent, WorkerStart, WorkerPause, WorkerCancel,
         CancelCheck, CancelClaim, WorkerSweep, WorkerDrain, Reconnect, Lose, Acquired, AcquireError,
         AcquireErrorEnds, Walked, WalkError, Write, Stream, ClearRunning, LoadMode, Claim, CleanUp, vars
<1>g. losses' \in 0 .. MaxLosses
  <2>1. losses' = losses \/ (losses < MaxLosses /\ losses' = losses + 1)
    BY DEF Next, User, Worker, Task, Settled, Pause, Cancel, Resume, OnEvent, WorkerStart, WorkerPause, WorkerCancel,
           CancelCheck, CancelClaim, WorkerSweep, WorkerDrain, Reconnect, Lose, Acquired, AcquireError,
           AcquireErrorEnds, Walked, WalkError, Write, Stream, ClearRunning, LoadMode, Claim, CleanUp, vars
  <2> QED
    BY <2>1 DEF TypeOK
<1>c. sweeping' \in BOOLEAN
  BY DEF TypeOK, Next, User, Worker, Task, Settled, Pause, Cancel, Resume, OnEvent, WorkerStart, WorkerPause, WorkerCancel,
         CancelCheck, CancelClaim, WorkerSweep, WorkerDrain, Reconnect, Lose, Acquired, AcquireError,
         AcquireErrorEnds, Walked, WalkError, Write, Stream, ClearRunning, LoadMode, Claim, CleanUp, vars
<1>d. {part', promoted'} \subseteq BOOLEAN
  BY DEF TypeOK, Next, User, Worker, Task, Settled, Pause, Cancel, Resume, OnEvent, WorkerStart, WorkerPause, WorkerCancel,
         CancelCheck, CancelClaim, WorkerSweep, WorkerDrain, Reconnect, Lose, Acquired, AcquireError,
         AcquireErrorEnds, Walked, WalkError, Write, Stream, ClearRunning, LoadMode, Claim, CleanUp, vars
<1>h. unheard' \subseteq Cmds
  <2>1. unheard' = unheard \/ \E c \in Cmds : unheard' = unheard \cup {c}
    BY DEF Cmds, Next, User, Worker, Task, Settled, Pause, Cancel, Resume, OnEvent, WorkerStart, WorkerPause, WorkerCancel,
           CancelCheck, CancelClaim, WorkerSweep, WorkerDrain, Reconnect, Lose, Acquired, AcquireError,
           AcquireErrorEnds, Walked, WalkError, Write, Stream, ClearRunning, LoadMode, Claim, CleanUp, vars
  <2>2. unheard \subseteq Cmds
    BY DEF TypeOK, Cmds
  <2> QED
    BY <2>1, <2>2
<1>7. task' \in Tasks
  BY DEF TypeOK, Tasks, Next, User, Worker, Task, Settled, Pause, Cancel, Resume, OnEvent, WorkerStart, WorkerPause, WorkerCancel,
         CancelCheck, CancelClaim, WorkerSweep, WorkerDrain, Reconnect, Lose, Acquired, AcquireError,
         AcquireErrorEnds, Walked, WalkError, Write, Stream, ClearRunning, LoadMode, Claim, CleanUp, vars
<1>8. seen' \in 0 .. 2 /\ result' \in {"done", "partial", "error"}
  BY DEF TypeOK, Next, User, Worker, Task, Settled, Pause, Cancel, Resume, OnEvent, WorkerStart, WorkerPause, WorkerCancel,
         CancelCheck, CancelClaim, WorkerSweep, WorkerDrain, Reconnect, Lose, Acquired, AcquireError,
         AcquireErrorEnds, Walked, WalkError, Write, Stream, ClearRunning, LoadMode, Claim, CleanUp, vars
<1> QED
  BY <1>1, <1>2, <1>3, <1>4, <1>5, <1>6, <1>7, <1>8, <1>a, <1>b, <1>c, <1>d, <1>e, <1>f, <1>g, <1>h
     DEF TypeOK, Cmds, Evts, Ends

\* The user adds nothing behind a cancel, and the worker takes commands from the front.
LEMMA CancelIsLastStep == TypeOK /\ CancelIsLast /\ [Next]_vars => CancelIsLast'
<1> SUFFICES ASSUME TypeOK, CancelIsLast, [Next]_vars PROVE CancelIsLast'
  OBVIOUS
<1> USE DEF CancelIsLast
<1>0. cmds \in Seq({"start", "pause", "cancel"})
  BY DEF TypeOK
<1>1. CASE User
  <2>1. ~canceled /\ UNCHANGED <<sweeping, wpc>> /\ (canceled' \/ canceled' = canceled)
        /\ \/ cmds' = cmds
           \/ \E c \in {"start", "pause", "cancel"} :
                cmds' = Append(cmds, c) /\ (IF c = "cancel" THEN canceled' ELSE canceled' = canceled)
    BY <1>1 DEF User, Pause, Cancel, Resume
  <2>2. CASE cmds' = cmds
    BY <1>0, <2>1, <2>2
  <2> QED
    BY <1>0, <2>1, <2>2
<1>2. CASE WorkerCancel
  <2>1. canceled /\ Len(cmds) = 1 /\ canceled' = canceled /\ cmds' = Tail(cmds)
    <3>1. cmds # <<>> /\ cmds[1] = "cancel" /\ canceled' = canceled /\ cmds' = Tail(cmds)
      BY <1>0, <1>2 DEF WorkerCancel
    <3>2. 1 \in 1 .. Len(cmds)
      BY <1>0, <3>1
    <3> QED
      BY <3>1, <3>2
  <2> QED
    BY <1>0, <2>1
<1>3. CASE WorkerStart \/ WorkerPause \/ WorkerDrain
  <2>1. cmds # <<>> /\ cmds' = Tail(cmds) /\ UNCHANGED <<canceled, sweeping, wpc>>
    BY <1>3 DEF WorkerStart, WorkerPause, WorkerDrain
  <2> QED
    BY <1>0, <2>1
<1>4. CASE CancelCheck \/ CancelClaim \/ WorkerSweep \/ Lose
  BY <1>4 DEF CancelCheck, CancelClaim, WorkerSweep, Lose
<1>5. CASE UNCHANGED <<cmds, canceled, sweeping, wpc>>
  BY <1>5
<1> QED
  BY <1>1, <1>2, <1>3, <1>4, <1>5
     DEF Next, Worker, Task, Settled, OnEvent, Reconnect, Acquired, AcquireError, AcquireErrorEnds,
         Walked, WalkError, Write, Stream, ClearRunning, LoadMode, Claim, CleanUp, vars

\* Every step keeps who may report and clean up.
LEMMA ControlStep ==
  TypeOK /\ CancelIsLast /\ Unclaimed /\ LeftOff /\ OneVerdict /\ [Next]_vars
    => Unclaimed' /\ LeftOff' /\ OneVerdict'
<1> SUFFICES ASSUME TypeOK, CancelIsLast, Unclaimed, LeftOff, OneVerdict, [Next]_vars
             PROVE  Unclaimed' /\ LeftOff' /\ OneVerdict'
  OBVIOUS
<1> USE DEF Unclaimed, LeftOff, OneVerdict, AtWork
<1>0. finalized \in BOOLEAN /\ running \in BOOLEAN /\ sweeping \in BOOLEAN
      /\ verdicts \in Seq({"Canceled", "Finished", "FinishedErr"})
  BY DEF TypeOK
<1>1. CASE WorkerStart
  <2>1. ~sweeping /\ wpc = "idle"
    BY <1>1 DEF WorkerStart, CancelIsLast
  <2> QED
    BY <1>1, <2>1 DEF WorkerStart
<1>2. CASE WorkerCancel
  BY <1>2 DEF WorkerCancel
<1>3. CASE CancelCheck
  BY <1>0, <1>3 DEF CancelCheck
<1>4. CASE CancelClaim
  BY <1>0, <1>4 DEF CancelClaim
<1>5. CASE WorkerSweep
  BY <1>0, <1>5 DEF WorkerSweep
<1>6. CASE Lose
  BY <1>6 DEF Lose
<1>7. CASE Acquired \/ AcquireError \/ AcquireErrorEnds \/ Walked \/ WalkError \/ Stream
  BY <1>7 DEF Acquired, AcquireError, AcquireErrorEnds, Walked, WalkError, Stream
<1>8. CASE ClearRunning \/ LoadMode
  BY <1>8 DEF ClearRunning, LoadMode
<1>9. CASE Claim
  BY <1>0, <1>9 DEF Claim
<1>10. CASE CleanUp
  BY <1>0, <1>10 DEF CleanUp
<1>11. CASE UNCHANGED <<finalized, verdicts, sweeping, task, running, wpc>>
  BY <1>11
<1> QED
  BY <1>1, <1>2, <1>3, <1>4, <1>5, <1>6, <1>7, <1>8, <1>9, <1>10, <1>11
     DEF Next, User, Worker, Task, Settled, Pause, Cancel, Resume, OnEvent, WorkerPause, WorkerDrain,
         Reconnect, Write, vars

------------------------------------------------------------------------------
\* Before the worker has read the first start, nobody has claimed anything.
LEMMA InitControl ==
  ASSUME MaxResumes \in Nat, MaxLosses \in Nat
  PROVE  Init => Control
<1> SUFFICES ASSUME Init PROVE Control
  OBVIOUS
<1>1. TypeOK
  <2>1. cmds \in Seq(Commands) /\ unheard \subseteq Commands /\ evts = <<>> /\ verdicts = <<>>
    BY DEF Init
  <2>2. /\ row \in Rows /\ task \in Tasks /\ resumes \in 0 .. MaxResumes /\ losses \in 0 .. MaxLosses
        /\ {mode, seen} \subseteq 0 .. 2 /\ wpc \in {"idle", "check", "claim"}
        /\ result \in {"done", "partial", "error"}
    BY DEF Init, Rows, Tasks
  <2>3. {pauseReq, online, known, running, finalized, part, promoted, canceled, sweeping} \subseteq BOOLEAN
    BY DEF Init
  <2> QED
    BY <2>1, <2>2, <2>3 DEF TypeOK
<1>2. CancelIsLast /\ Unclaimed /\ LeftOff /\ OneVerdict
  BY DEF Init, CancelIsLast, Unclaimed, LeftOff, AtWork, OneVerdict
<1> QED
  BY <1>1, <1>2 DEF Control

\* The invariant is inductive.
LEMMA StepControl ==
  ASSUME MaxResumes \in Nat, MaxLosses \in Nat
  PROVE  Control /\ [Next]_vars => Control'
  BY TypeStep, CancelIsLastStep, ControlStep DEF Control

\* The worker's and the task's variables keep their types, for every bound.
THEOREM TypeCorrect ==
  ASSUME MaxResumes \in Nat, MaxLosses \in Nat
  PROVE  Spec => []TypeOK
<1>1. Control => TypeOK
  BY DEF Control
<1> QED
  BY InitControl, StepControl, <1>1, PTL DEF Spec

\* However the accesses to the three atomics interleave, and however often the transfer is
\* resumed or its connection lost: worker and task never both clean up, and never both report.
THEOREM OneVerdictCorrect ==
  ASSUME MaxResumes \in Nat, MaxLosses \in Nat
  PROVE  Spec => []OneVerdict
<1>1. Control => OneVerdict
  BY DEF Control
<1> QED
  BY InitControl, StepControl, <1>1, PTL DEF Spec

\* Whoever reports a cancel has removed the `.part`, and nobody writes one again.
LEMMA CleanStep ==
  ASSUME IsDir = FALSE
  PROVE  Control /\ CanceledIsClean /\ [Next]_vars => CanceledIsClean'
<1> SUFFICES ASSUME Control, CanceledIsClean, [Next]_vars PROVE CanceledIsClean'
  OBVIOUS
<1> USE DEF CanceledIsClean
<1>1. verdicts \in Seq({"Canceled", "Finished", "FinishedErr"}) /\ part \in BOOLEAN
  BY DEF Control, TypeOK
<1>2. CASE WorkerStart
  BY <1>2 DEF WorkerStart
<1>3. CASE WorkerSweep
  BY <1>3 DEF WorkerSweep
<1>4. CASE CleanUp
  BY <1>4 DEF CleanUp
<1>5. CASE Claim
  <2>1. CASE UNCHANGED verdicts
    BY <1>5, <2>1 DEF Claim
  <2>2. CASE verdicts' # verdicts
    <3>1. \E v \in {"Finished", "FinishedErr"} : verdicts' = Append(verdicts, v)
      BY <1>5, <2>2 DEF Claim
    <3>2. PICK v \in {"Finished", "FinishedErr"} : verdicts' = Append(verdicts, v)
      BY <3>1
    <3>3. verdicts'[Len(verdicts')] = v
      BY <1>1, <3>2
    <3>4. <<"Canceled">>[Len(<<"Canceled">>)] = "Canceled"
      OBVIOUS
    <3> QED
      BY <3>2, <3>3, <3>4
  <2> QED
    BY <2>1, <2>2
<1>6. CASE Write
  BY <1>6 DEF Write, Control, LeftOff, AtWork
<1>7. CASE Stream
  BY <1>7 DEF Stream
<1>8. CASE UNCHANGED <<verdicts, part>>
  BY <1>8
<1> QED
  BY <1>2, <1>3, <1>4, <1>5, <1>6, <1>7, <1>8
     DEF Next, User, Worker, Task, Settled, Pause, Cancel, Resume, OnEvent, WorkerPause, WorkerCancel,
         CancelCheck, CancelClaim, WorkerDrain, Reconnect, Lose, Acquired, AcquireError,
         AcquireErrorEnds, Walked, WalkError, ClearRunning, LoadMode, vars

\* Once a single file's transfer is reported cancelled its `.part` is gone and stays so: nobody
\* who could write it again is left.  (For a directory TLC refutes it.)
THEOREM CanceledIsCleanCorrect ==
  ASSUME MaxResumes \in Nat, MaxLosses \in Nat, IsDir = FALSE
  PROVE  Spec => []CanceledIsClean
<1>1. Init => Control /\ CanceledIsClean
  BY InitControl DEF Init, CanceledIsClean
<1>2. Control /\ CanceledIsClean /\ [Next]_vars => Control' /\ CanceledIsClean'
  BY StepControl, CleanStep
<1> QED
  BY <1>1, <1>2, PTL DEF Spec
==============================================================================
