----------------------------- MODULE VaultProofs -----------------------------
(***************************************************************************)
(* Theorems about Vault, for every set of passwords, hosts, secrets and    *)
(* slots.  Coherent speaks about the moments between two migrations; what  *)
(* carries it from one such moment to the next is Undisturbed, which says  *)
(* under which key the secrets are and what the canary is at every place   *)
(* of the one migration that may be in flight.                             *)
(***************************************************************************)
EXTENDS Vault, TLAPS

\* Abbreviations that say nothing by themselves are expanded everywhere.
USE DEF disk, app, Free, Fault, Finish, Arrived, Task, NoTask, PersistEnabled, DeleteCanary

TaskRecords == [kind : {"none", "unlock", "setup", "enable", "disable"},
                pw : Passwords \cup {None}, at : {"run", "commit", "done"},
                seen : SUBSET SecretIds, ok : BOOLEAN]

\* A task works for a password, and only a migration of the secrets has a batch to write.
TasksOK ==
  \A t \in Slots : /\ tasks[t].kind # "none" => tasks[t].pw \in Passwords
                   /\ tasks[t].at = "commit" => tasks[t].kind \in {"enable", "disable"}

\* The records that Finish and Reencrypt leave.
Done(r, ok)   == [kind |-> r.kind, pw |-> r.pw, at |-> "done", seen |-> r.seen, ok |-> ok]
Batch(r, ids) == [kind |-> r.kind, pw |-> r.pw, at |-> "commit", seen |-> ids, ok |-> r.ok]

AllUnder(key) == \A s \in DOMAIN secrets : secrets[s] = key
Migrates(t)   == tasks[t].kind \in {"setup", "enable", "disable"}
Succeeded(t)  == tasks[t].at = "done" /\ tasks[t].ok

\* What memory and disk agree on at every moment, in the middle of a migration too.
Agreed == /\ savedEnabled = enabled /\ hasCanary = enabled
          /\ prompt => ~enabled
          /\ master # None => master = canary

AtRest == /\ enabled = (canary # None) /\ ~busy
          /\ AllUnder(IF enabled THEN canary ELSE Default)

\* The three stations of a migration: before the conversion, and on either way.
Preparing(t)  == /\ ~enabled /\ ~busy /\ AllUnder(Default)
                 /\ canary = IF Succeeded(t) THEN tasks[t].pw ELSE None
Converting(t) == /\ busy /\ enabled = (tasks[t].kind = "disable") /\ canary = tasks[t].pw
                 /\ AllUnder(IF Succeeded(t) THEN NewKey(tasks[t]) ELSE OldKey(tasks[t]))
                 /\ tasks[t].at = "commit" => tasks[t].seen = DOMAIN secrets

Undisturbed ==
  /\ Agreed
  /\ \A t, u \in Slots : Migrates(t) /\ Migrates(u) => t = u
  /\ ~Migrating => AtRest
  /\ \A t \in Slots : /\ tasks[t].kind = "setup" => Preparing(t)
                      /\ tasks[t].kind \in {"enable", "disable"} => Converting(t)

IInv == TypeOK /\ TasksOK /\ (faults = {} => Undisturbed)

------------------------------------------------------------------------------
\* The idle count starts within its limit.
LEMMA IdleFacts == IdleTicks \in Nat /\ 0 \in 0 .. IdleTicks
<1>1. IdleTicks \in Nat
  BY VaultAssumption
<1> QED
  BY <1>1

\* Writing the record of one slot leaves the others alone.
LEMMA SlotFacts ==
  ASSUME TypeOK, NEW t \in Slots, NEW r \in TaskRecords, tasks' = [tasks EXCEPT ![t] = r]
  PROVE  /\ tasks' \in [Slots -> TaskRecords] /\ tasks'[t] = r
         /\ \A u \in Slots : u # t => tasks'[u] = tasks[u]
BY DEF TypeOK, TaskRecords

\* What finishing a task and going on to the batch make of its record.
LEMMA RecordFacts ==
  ASSUME TypeOK, NEW t \in Slots
  PROVE  /\ tasks[t] \in TaskRecords /\ NoTask \in TaskRecords
         /\ \A ok \in BOOLEAN : /\ [tasks[t] EXCEPT !.at = "done", !.ok = ok] = Done(tasks[t], ok)
                              /\ Done(tasks[t], ok) \in TaskRecords
         /\ [tasks[t] EXCEPT !.at = "commit", !.seen = DOMAIN secrets] = Batch(tasks[t], DOMAIN secrets)
         /\ Batch(tasks[t], DOMAIN secrets) \in TaskRecords
         /\ \A kind \in {"unlock", "setup", "enable", "disable"}, pw \in Passwords :
              Task(kind, pw) \in TaskRecords
<1> DEFINE r == tasks[t]
           done == [r EXCEPT !.at = "done"]
           commit == [r EXCEPT !.at = "commit"]
<1>1. r \in TaskRecords /\ DOMAIN secrets \in SUBSET SecretIds
  BY DEF TypeOK, TaskRecords
<1> HIDE DEF r
<1>2. /\ done = [kind |-> r.kind, pw |-> r.pw, at |-> "done", seen |-> r.seen, ok |-> r.ok]
      /\ commit = [kind |-> r.kind, pw |-> r.pw, at |-> "commit", seen |-> r.seen, ok |-> r.ok]
  BY <1>1 DEF TaskRecords
<1>3. /\ \A ok \in BOOLEAN : [r EXCEPT !.at = "done", !.ok = ok] = [done EXCEPT !.ok = ok]
      /\ [r EXCEPT !.at = "commit", !.seen = DOMAIN secrets] = [commit EXCEPT !.seen = DOMAIN secrets]
  OBVIOUS
<1> HIDE DEF done, commit
<1>4. /\ \A ok \in BOOLEAN : [done EXCEPT !.ok = ok] = Done(r, ok)
      /\ [commit EXCEPT !.seen = DOMAIN secrets] = Batch(r, DOMAIN secrets)
  BY <1>2 DEF Done, Batch
<1>5. /\ \A ok \in BOOLEAN : Done(r, ok) \in TaskRecords
      /\ Batch(r, DOMAIN secrets) \in TaskRecords
  BY <1>1 DEF Done, Batch, TaskRecords
<1>6. NoTask \in TaskRecords
      /\ \A kind \in {"unlock", "setup", "enable", "disable"}, pw \in Passwords : Task(kind, pw) \in TaskRecords
  BY DEF TaskRecords
<1> QED
  BY <1>1, <1>3, <1>4, <1>5, <1>6 DEF r

\* What the actions that write one record of `tasks` write there.
LEMMA RunFacts ==
  ASSUME TypeOK, NEW t \in Slots
  PROVE  /\ UnlockRun(t) => tasks' = [tasks EXCEPT ![t] = Done(tasks[t], canary = tasks[t].pw)]
         /\ SetupRun(t) => \E ok \in BOOLEAN : tasks' = [tasks EXCEPT ![t] = Done(tasks[t], ok)]
                                              /\ canary' = IF ok THEN tasks[t].pw ELSE canary
         /\ Reencrypt(t) => \/ tasks' = [tasks EXCEPT ![t] = Done(tasks[t], FALSE)]
                            \/ /\ AllUnder(OldKey(tasks[t]))
                               /\ tasks' = [tasks EXCEPT ![t] = Batch(tasks[t], DOMAIN secrets)]
         /\ PutBatch(t) => \/ tasks' = [tasks EXCEPT ![t] = Done(tasks[t], FALSE)] /\ secrets' = secrets
                           \/ /\ tasks' = [tasks EXCEPT ![t] = Done(tasks[t], TRUE)]
                              /\ secrets' = [s \in DOMAIN secrets |->
                                    IF s \in tasks[t].seen THEN NewKey(tasks[t]) ELSE secrets[s]]
<1>1. (canary = tasks[t].pw) \in BOOLEAN
  OBVIOUS
<1>2. \A ok \in BOOLEAN : Finish(t, ok) => tasks' = [tasks EXCEPT ![t] = Done(tasks[t], ok)]
  BY RecordFacts
<1> USE DEF AllUnder
<1> QED
  BY <1>1, <1>2, RecordFacts DEF UnlockRun, SetupRun, Reencrypt, PutBatch

\* Every step keeps the state well formed.
LEMMA TypeStep == TypeOK /\ TasksOK /\ [Next]_vars => TypeOK' /\ TasksOK'
<1> SUFFICES ASSUME TypeOK, TasksOK, [Next]_vars PROVE TypeOK' /\ TasksOK'
  OBVIOUS
<1> DEFINE Rest == /\ DOMAIN secrets \subseteq SecretIds /\ \A s \in DOMAIN secrets : secrets[s] \in Keys
                   /\ DOMAIN auth \subseteq Hosts /\ \A h \in DOMAIN auth : auth[h] \in SecretIds
                   /\ canary \in Passwords \cup {None}
                   /\ master \in Passwords \cup {None}
                   /\ typed \in Passwords \cup {Blank}
                   /\ {savedEnabled, enabled, hasCanary, prompt, busy} \subseteq BOOLEAN
                   /\ idle \in 0..IdleTicks
                   /\ faults \subseteq Faults
<1>0. TypeOK <=> Rest /\ tasks \in [Slots -> TaskRecords]
  BY DEF TypeOK, TaskRecords
<1>0p. TypeOK' <=> Rest' /\ tasks' \in [Slots -> TaskRecords]
  BY DEF TypeOK, TaskRecords
<1> USE DEF TasksOK
\* A step that writes one record, well formed and with the password it works for.
<1>s. ASSUME NEW t \in Slots, NEW r \in TaskRecords, tasks' = [tasks EXCEPT ![t] = r], Rest',
             r.kind # "none" => r.pw \in Passwords,
             r.at = "commit" => r.kind \in {"enable", "disable"}
      PROVE  TypeOK' /\ TasksOK'
  BY <1>0p, <1>s, SlotFacts
<1>1. ASSUME NEW pw \in Passwords \cup {Blank}, Type(pw) PROVE TypeOK' /\ TasksOK'
  BY <1>0, <1>0p, <1>1 DEF Type
<1>2. CASE EnableRequest
  BY <1>0, <1>0p, <1>2 DEF EnableRequest
<1>3. ASSUME NEW t \in Slots, Submit(t) PROVE TypeOK' /\ TasksOK'
  <2>1. typed \in Passwords /\ Rest'
    BY <1>0, <1>3 DEF Submit, Faults
  <2>2. PICK kind \in {"unlock", "setup"} : tasks' = [tasks EXCEPT ![t] = Task(kind, typed)]
    BY <1>3 DEF Submit
  <2> QED
    BY <2>1, <2>2, <1>s, RecordFacts
<1>4. ASSUME NEW t \in Slots, DisableRequest(t) PROVE TypeOK' /\ TasksOK'
  <2>1. master \in Passwords /\ Rest' /\ tasks' = [tasks EXCEPT ![t] = Task("disable", master)]
    BY <1>0, <1>4 DEF DisableRequest
  <2> QED
    BY <2>1, <1>s, RecordFacts
<1>5. ASSUME NEW t \in Slots, UnlockRun(t) PROVE TypeOK' /\ TasksOK'
  <2>1. Rest' /\ tasks' = [tasks EXCEPT ![t] = Done(tasks[t], canary = tasks[t].pw)]
    BY <1>0, <1>5, RunFacts DEF UnlockRun
  <2> QED
    BY <2>1, <1>s, RecordFacts DEF Done
<1>6. ASSUME NEW t \in Slots, SetupRun(t) PROVE TypeOK' /\ TasksOK'
  <2>1. tasks[t].kind = "setup" /\ tasks[t].pw \in Passwords
    BY <1>6 DEF SetupRun
  <2>2. Rest' /\ \E ok \in BOOLEAN : tasks' = [tasks EXCEPT ![t] = Done(tasks[t], ok)]
    BY <1>0, <1>6, <2>1, RunFacts, Zenon DEF SetupRun
  <2> QED
    BY <2>2, <1>s, RecordFacts DEF Done
<1>7. ASSUME NEW t \in Slots, Reencrypt(t) PROVE TypeOK' /\ TasksOK'
  <2>1. Rest' /\ tasks[t].kind \in {"enable", "disable"}
        /\ \/ tasks' = [tasks EXCEPT ![t] = Done(tasks[t], FALSE)]
           \/ tasks' = [tasks EXCEPT ![t] = Batch(tasks[t], DOMAIN secrets)]
    BY <1>0, <1>7, RunFacts, Zenon DEF Reencrypt
  <2> QED
    BY <2>1, <1>s, RecordFacts DEF Done, Batch
<1>8. ASSUME NEW t \in Slots, PutBatch(t) PROVE TypeOK' /\ TasksOK'
  <2>1. tasks[t].kind \in {"enable", "disable"} /\ NewKey(tasks[t]) \in Keys
    BY <1>8, <1>0 DEF PutBatch, NewKey, Keys
  <2>2. DOMAIN secrets' = DOMAIN secrets /\ \A s \in DOMAIN secrets : secrets'[s] \in Keys
    <3>1. CASE secrets' = secrets
      BY <3>1, <1>0
    <3>2. CASE secrets' = [s \in DOMAIN secrets |->
                             IF s \in tasks[t].seen THEN NewKey(tasks[t]) ELSE secrets[s]]
      BY <3>2, <2>1, <1>0
    <3> QED
      BY <3>1, <3>2, <1>8, RunFacts
  <2>3. Rest' /\ \E ok \in BOOLEAN : tasks' = [tasks EXCEPT ![t] = Done(tasks[t], ok)]
    BY <1>0, <1>8, <2>2, RunFacts, Zenon DEF PutBatch
  <2> QED
    BY <2>3, <1>s, RecordFacts DEF Done
<1>9. ASSUME NEW t \in Slots, OnUnlock(t) PROVE TypeOK' /\ TasksOK'
  <2>1. Rest' /\ tasks' = [tasks EXCEPT ![t] = NoTask]
    BY <1>0, <1>9, IdleFacts DEF OnUnlock, Faults, TaskRecords
  <2> QED
    BY <2>1, <1>s, RecordFacts
<1>10. ASSUME NEW t \in Slots, OnSetup(t) PROVE TypeOK' /\ TasksOK'
  <2>1. Rest' /\ tasks[t].pw \in Passwords
        /\ \/ tasks' = [tasks EXCEPT ![t] = NoTask]
           \/ tasks' = [tasks EXCEPT ![t] = Task("enable", tasks[t].pw)]
    BY <1>0, <1>10 DEF OnSetup
  <2> QED
    BY <2>1, <1>s, RecordFacts
<1>11. ASSUME NEW t \in Slots, OnEnable(t) PROVE TypeOK' /\ TasksOK'
  <2>1. Rest' /\ tasks' = [tasks EXCEPT ![t] = NoTask]
    BY <1>0, <1>11, IdleFacts DEF OnEnable, Faults, TaskRecords
  <2> QED
    BY <2>1, <1>s, RecordFacts
<1>12. ASSUME NEW t \in Slots, OnDisable(t) PROVE TypeOK' /\ TasksOK'
  <2>1. Rest' /\ tasks' = [tasks EXCEPT ![t] = NoTask]
    BY <1>0, <1>12, VaultAssumption DEF OnDisable, Faults, TaskRecords
  <2> QED
    BY <2>1, <1>s, RecordFacts
<1>13. CASE Lock
  BY <1>0, <1>0p, <1>13 DEF Lock
<1>14. ASSUME NEW slept \in BOOLEAN, CheckLock(slept) PROVE TypeOK' /\ TasksOK'
  BY <1>0, <1>0p, <1>14, VaultAssumption DEF CheckLock
<1>15. ASSUME NEW h \in Hosts, NEW s \in SecretIds, SaveHost(h, s) PROVE TypeOK' /\ TasksOK'
  <2>1. VaultKey \in Keys
    BY <1>0 DEF VaultKey, Keys
  <2>2. DOMAIN secrets' = DOMAIN secrets \cup {s}
        /\ \A x \in DOMAIN secrets' : secrets'[x] \in Keys
    BY <1>0, <1>15, <2>1 DEF SaveHost, NewSecret
  <2>3. DOMAIN auth' \subseteq Hosts /\ \A x \in DOMAIN auth' : auth'[x] \in SecretIds
    BY <1>0, <1>15 DEF SaveHost
  <2>4. idle' \in 0 .. IdleTicks /\ faults' \subseteq Faults
    BY <1>0, <1>15, IdleFacts DEF SaveHost, Faults
  <2> QED
    BY <1>0, <1>0p, <1>15, <2>2, <2>3, <2>4 DEF SaveHost
<1>16. ASSUME NEW h \in Hosts, DeleteHost(h) PROVE TypeOK' /\ TasksOK'
  BY <1>0, <1>0p, <1>16 DEF DeleteHost
<1>17. CASE ChangeSetting
  BY <1>0, <1>0p, <1>17 DEF ChangeSetting
<1>18. CASE Restart
  <2>1. Rest'
    BY <1>0, <1>18, IdleFacts DEF Restart, Faults
  <2>2. tasks' = [t \in Slots |-> NoTask] /\ NoTask \in TaskRecords
    BY <1>18 DEF Restart, TaskRecords
  <2> QED
    BY <1>0p, <2>1, <2>2
<1>19. CASE UNCHANGED vars
  BY <1>0, <1>0p, <1>19 DEF vars
<1> QED
  BY <1>1, <1>2, <1>3, <1>4, <1>5, <1>6, <1>7, <1>8, <1>9, <1>10, <1>11, <1>12, <1>13, <1>14,
     <1>15, <1>16, <1>17, <1>18, <1>19 DEF Next

\* The program starts well formed.
LEMMA InitType == Init => TypeOK /\ TasksOK
<1> SUFFICES ASSUME Init PROVE TypeOK /\ TasksOK
  OBVIOUS
<1>1. DOMAIN secrets = {} /\ DOMAIN auth = {}
  BY DEF Init
<1>3. {savedEnabled, enabled, hasCanary, prompt, busy} \subseteq BOOLEAN /\ idle \in 0 .. IdleTicks
      /\ canary = None /\ master = None /\ typed = Blank /\ faults = {}
  BY IdleFacts DEF Init
<1>4. \A t \in Slots : tasks[t].kind = "none" /\ tasks[t].at = "done"
  BY DEF Init
<1>2. tasks \in [Slots -> TaskRecords]
  BY DEF Init, TaskRecords
<1> QED
  BY <1>1, <1>2, <1>3, <1>4 DEF TypeOK, TasksOK, TaskRecords

\* The type invariant: whatever fails, crashes or is late, disk, memory and tasks stay
\* well formed, and the idle count never passes its limit (update.rs:1415-1435).
THEOREM TypeCorrect == Spec => []TypeOK
BY InitType, TypeStep, PTL DEF Spec

------------------------------------------------------------------------------
\* A step that leaves the secrets, the canary and every migration as they are.
LEMMA Frame ==
  ASSUME Undisturbed,
         UNCHANGED <<secrets, canary, enabled, hasCanary, busy>>,
         savedEnabled' = enabled, prompt' => ~enabled,
         master' = master \/ master' = None \/ master' = canary,
         \A u \in Slots : tasks'[u] = tasks[u] \/ (~Migrates(u) /\ ~Migrates(u)')
  PROVE  Undisturbed'
<1>1. \A u \in Slots : (Migrates(u) <=> Migrates(u)') /\ (Migrates(u) => tasks'[u] = tasks[u])
  BY DEF Migrates
<1>2. Agreed'
  BY DEF Undisturbed, Agreed
<1>3. Migrating' <=> Migrating
  BY <1>1 DEF Migrating, Migrates
<1>4. ~Migrating' => AtRest'
  BY <1>3 DEF Undisturbed, AtRest, AllUnder
<1>5. ASSUME NEW t \in Slots, tasks'[t].kind = "setup" PROVE Preparing(t)'
  BY <1>1, <1>5 DEF Undisturbed, Migrates, Preparing, AllUnder, Succeeded
<1>6. ASSUME NEW t \in Slots, tasks'[t].kind \in {"enable", "disable"} PROVE Converting(t)'
  BY <1>1, <1>6 DEF Undisturbed, Migrates, Converting, AllUnder, Succeeded, OldKey, NewKey
<1> QED
  BY <1>1, <1>2, <1>4, <1>5, <1>6 DEF Undisturbed

\* A step of the only migration there is before or after it.
LEMMA Station ==
  ASSUME TypeOK, NEW t \in Slots, NEW r \in TaskRecords, tasks' = [tasks EXCEPT ![t] = r],
         \A u \in Slots : Migrates(u) => u = t,
         Agreed',
         r.kind \notin {"setup", "enable", "disable"} => AtRest',
         r.kind = "setup" => Preparing(t)',
         r.kind \in {"enable", "disable"} => Converting(t)'
  PROVE  Undisturbed'
<1>1. tasks'[t] = r /\ \A u \in Slots : u # t => tasks'[u] = tasks[u]
  BY SlotFacts
<1>2. \A u \in Slots : Migrates(u)' => u = t
  BY <1>1 DEF Migrates
<1>3. Migrates(t)' => Migrating'
  BY DEF Migrates, Migrating
<1>4. ~Migrating' => AtRest'
  BY <1>1, <1>3 DEF Migrates
<1>5. ASSUME NEW u \in Slots, tasks'[u].kind = "setup" PROVE Preparing(u)'
  BY <1>1, <1>2, <1>5 DEF Migrates
<1>8. ASSUME NEW u \in Slots, tasks'[u].kind \in {"enable", "disable"} PROVE Converting(u)'
  BY <1>1, <1>2, <1>8 DEF Migrates
<1>6. \A u, v \in Slots : Migrates(u)' /\ Migrates(v)' => u = v
  BY <1>2
<1>7. Agreed'
  OBVIOUS
<1> QED
  BY <1>4, <1>5, <1>6, <1>7, <1>8 DEF Undisturbed

\* At rest nothing migrates, so a slot that starts to is the only one.
LEMMA NoneMigrates == ~Migrating => \A u \in Slots : ~Migrates(u)
BY DEF Migrating, Migrates

\* No step undoes a fault, and each keeps what holds until one happens.
LEMMA UndisturbedStep ==
  TypeOK /\ TasksOK /\ (faults = {} => Undisturbed) /\ [Next]_vars => (faults' = {} => Undisturbed')
<1> SUFFICES ASSUME TypeOK, TasksOK, faults = {} => Undisturbed, [Next]_vars, faults' = {}
             PROVE  Undisturbed'
  OBVIOUS
<1>0. faults = {}
  BY DEF Next, vars, Type, EnableRequest, Submit, DisableRequest, UnlockRun, SetupRun, Reencrypt,
         PutBatch, OnUnlock, OnSetup, OnEnable, OnDisable, Lock, CheckLock, SaveHost, DeleteHost,
         ChangeSetting, Restart
<1>u. Undisturbed /\ Agreed
  BY <1>0 DEF Undisturbed
<1>m. /\ \A t \in Slots : Migrates(t) => \A u \in Slots : Migrates(u) => u = t
      /\ ~Migrating => AtRest
      /\ \A t \in Slots : tasks[t].kind = "setup" => Preparing(t)
      /\ \A t \in Slots : tasks[t].kind \in {"enable", "disable"} => Converting(t)
  BY <1>u DEF Undisturbed
<1>b. {savedEnabled, enabled, hasCanary, prompt, busy} \subseteq BOOLEAN
      /\ canary \in Passwords \cup {None} /\ master \in Passwords \cup {None}
  BY DEF TypeOK
<1>1. ASSUME NEW pw \in Passwords \cup {Blank}, Type(pw) PROVE Undisturbed'
  BY <1>u, <1>1, Frame DEF Type, Agreed
<1>2. CASE EnableRequest
  BY <1>u, <1>2, Frame DEF EnableRequest, Agreed
<1>3. ASSUME NEW t \in Slots, Submit(t) PROVE Undisturbed'
  <2>1. CASE hasCanary
    <3>1. tasks' = [tasks EXCEPT ![t] = Task("unlock", typed)] /\ tasks[t].kind = "none" /\ typed \in Passwords
      BY <1>3, <2>1 DEF Submit, TypeOK
    <3>2. \A u \in Slots : tasks'[u] = tasks[u] \/ (~Migrates(u) /\ ~Migrates(u)')
      BY <3>1, SlotFacts, RecordFacts DEF Migrates
    <3> QED
      BY <1>u, <1>3, <3>2, Frame DEF Submit, Agreed
  <2>2. CASE ~hasCanary
    <3>1. /\ tasks' = [tasks EXCEPT ![t] = Task("setup", typed)] /\ typed \in Passwords
          /\ ~Migrating /\ UNCHANGED <<disk, app>>
      BY <1>3, <2>2, <1>0 DEF Submit, TypeOK
    <3>2. Agreed' /\ tasks'[t] = Task("setup", typed)
      BY <1>u, <3>1, SlotFacts, RecordFacts DEF Agreed
    <3>3. Preparing(t)'
      <4>1. ~enabled /\ ~busy /\ canary = None /\ AllUnder(Default)
        BY <1>u, <1>m, <2>2, <3>1 DEF Agreed, AtRest
      <4>2. ~Succeeded(t)' /\ AllUnder(Default)'
        BY <3>1, <3>2, <4>1 DEF Succeeded, AllUnder
      <4> QED
        BY <3>1, <4>1, <4>2 DEF Preparing
    <3> QED
      BY <3>1, <3>2, <3>3, Station, NoneMigrates, RecordFacts
  <2> QED
    BY <2>1, <2>2, <1>b
<1>4. ASSUME NEW t \in Slots, DisableRequest(t) PROVE Undisturbed'
  <2>1. tasks' = [tasks EXCEPT ![t] = Task("disable", master)] /\ master \in Passwords
        /\ enabled /\ ~busy /\ busy' = TRUE /\ UNCHANGED <<disk, enabled, master, hasCanary, prompt>>
    BY <1>4, <1>b DEF DisableRequest
  <2>2. ~Migrating
    BY <1>m, <2>1 DEF Migrating, Preparing, Converting
  <2>3. Agreed' /\ master = canary
    BY <1>u, <2>1, VaultAssumption DEF Agreed
  <2>4. tasks'[t] = Task("disable", master)
    BY <2>1, SlotFacts, RecordFacts
  <2>5. Converting(t)'
    <3>1. ~Succeeded(t)' /\ OldKey(tasks[t])' = master
      BY <2>4 DEF Succeeded, OldKey
    <3>2. AllUnder(master)'
      BY <1>m, <2>1, <2>2, <2>3 DEF AtRest, AllUnder
    <3>3. enabled' = TRUE /\ busy' = TRUE /\ canary' = master /\ master' = master
      BY <1>b, <2>1, <2>3
    <3>4. tasks'[t].kind = "disable" /\ tasks'[t].pw = master /\ tasks'[t].at = "run"
      BY <2>4
    <3>5. enabled' = (tasks'[t].kind = "disable")
      BY <3>3, <3>4
    <3> QED
      BY <3>1, <3>2, <3>3, <3>4, <3>5 DEF Converting, AllUnder
  <2> QED
    BY <2>1, <2>2, <2>3, <2>5, Station, NoneMigrates, RecordFacts
<1>5. ASSUME NEW t \in Slots, UnlockRun(t) PROVE Undisturbed'
  <2>1. tasks[t].kind = "unlock" /\ tasks' = [tasks EXCEPT ![t] = Done(tasks[t], canary = tasks[t].pw)]
    BY <1>5, RunFacts DEF UnlockRun
  <2>2. \A u \in Slots : tasks'[u] = tasks[u] \/ (~Migrates(u) /\ ~Migrates(u)')
    <3>1. Done(tasks[t], canary = tasks[t].pw) \in TaskRecords
          /\ Done(tasks[t], canary = tasks[t].pw).kind = "unlock"
      BY <2>1, RecordFacts DEF Done
    <3>2. tasks'[t] = Done(tasks[t], canary = tasks[t].pw) /\ \A u \in Slots : u # t => tasks'[u] = tasks[u]
      BY <2>1, <3>1, SlotFacts
    <3>3. ~Migrates(t) /\ ~Migrates(t)'
      BY <2>1, <3>1, <3>2 DEF Migrates
    <3> QED
      BY ONLY <3>2, <3>3
  <2> QED
    BY <1>u, <1>5, <2>2, Frame DEF UnlockRun, Agreed
<1>6. ASSUME NEW t \in Slots, SetupRun(t) PROVE Undisturbed'
  <2>1. PICK ok \in BOOLEAN : /\ tasks' = [tasks EXCEPT ![t] = Done(tasks[t], ok)]
                              /\ canary' = IF ok THEN tasks[t].pw ELSE canary
    BY <1>6, RunFacts
  <2>2. tasks[t].kind = "setup" /\ tasks[t].at = "run" /\ UNCHANGED <<secrets, auth, savedEnabled, app>>
    BY <1>6 DEF SetupRun
  <2>3. Preparing(t) /\ canary = None /\ master = None
    BY <1>u, <1>m, <2>2 DEF Preparing, Succeeded, Agreed
  <2>4. Agreed'
    BY <1>u, <2>2, <2>3 DEF Agreed
  <2>5. tasks'[t] = Done(tasks[t], ok)
    BY <2>1, SlotFacts, RecordFacts
  <2>6. Preparing(t)'
    BY <2>1, <2>2, <2>3, <2>5 DEF Preparing, AllUnder, Succeeded, Done
  <2>7. \A u \in Slots : Migrates(u) => u = t
    BY <1>m, <2>2 DEF Migrates
  <2> QED
    BY <2>1, <2>2, <2>4, <2>6, <2>7, Station, RecordFacts DEF Done
<1>7. ASSUME NEW t \in Slots, Reencrypt(t) PROVE Undisturbed'
  <2>1. tasks[t].kind \in {"enable", "disable"} /\ tasks[t].at = "run" /\ UNCHANGED <<disk, app>>
    BY <1>7 DEF Reencrypt
  <2>2. Converting(t) /\ Agreed' /\ \A u \in Slots : Migrates(u) => u = t
    BY <1>u, <1>m, <2>1 DEF Agreed, Migrates
  <2>3. PICK r \in {Done(tasks[t], FALSE), Batch(tasks[t], DOMAIN secrets)} : tasks' = [tasks EXCEPT ![t] = r]
    BY <1>7, RunFacts
  <2>4. r \in TaskRecords /\ tasks'[t] = r
    BY <2>3, SlotFacts, RecordFacts
  <2>5. r.kind = tasks[t].kind /\ r.pw = tasks[t].pw /\ ~(r.at = "done" /\ r.ok)
        /\ (r.at = "commit" => r.seen = DOMAIN secrets)
    BY <2>3 DEF Done, Batch
  <2>6. Converting(t)'
    BY <2>1, <2>2, <2>4, <2>5 DEF Converting, AllUnder, Succeeded, OldKey, NewKey
  <2> QED
    BY <2>1, <2>2, <2>3, <2>4, <2>5, <2>6, Station
<1>8. ASSUME NEW t \in Slots, PutBatch(t) PROVE Undisturbed'
  <2>1. tasks[t].kind \in {"enable", "disable"} /\ tasks[t].at = "commit"
        /\ UNCHANGED <<auth, canary, savedEnabled, app>>
    BY <1>8 DEF PutBatch, TasksOK
  <2>2. Converting(t) /\ tasks[t].seen = DOMAIN secrets /\ Agreed' /\ \A u \in Slots : Migrates(u) => u = t
    BY <1>u, <1>m, <2>1 DEF Agreed, Migrates, Converting
  <2>3. PICK ok \in BOOLEAN : /\ tasks' = [tasks EXCEPT ![t] = Done(tasks[t], ok)]
                              /\ IF ok THEN secrets' = [s \in DOMAIN secrets |-> NewKey(tasks[t])]
                                       ELSE secrets' = secrets
    <3>1. CASE tasks' = [tasks EXCEPT ![t] = Done(tasks[t], FALSE)] /\ secrets' = secrets
      BY <3>1
    <3>2. CASE /\ tasks' = [tasks EXCEPT ![t] = Done(tasks[t], TRUE)]
               /\ secrets' = [s \in DOMAIN secrets |->
                     IF s \in tasks[t].seen THEN NewKey(tasks[t]) ELSE secrets[s]]
      BY <3>2, <2>2
    <3> QED
      BY <1>8, <3>1, <3>2, RunFacts
  <2>4. Done(tasks[t], ok) \in TaskRecords /\ tasks'[t] = Done(tasks[t], ok)
    BY <2>3, SlotFacts, RecordFacts
  <2>5. Converting(t)'
    <3>1. Succeeded(t)' = ok /\ OldKey(tasks[t])' = OldKey(tasks[t]) /\ NewKey(tasks[t])' = NewKey(tasks[t])
      BY <2>4 DEF Succeeded, Done, OldKey, NewKey
    <3>2. AllUnder(IF ok THEN NewKey(tasks[t]) ELSE OldKey(tasks[t]))'
      BY <2>1, <2>2, <2>3, <3>1 DEF Converting, AllUnder, Succeeded
    <3> QED
      BY <2>1, <2>2, <2>4, <3>1, <3>2 DEF Converting, Done
  <2> QED
    BY <2>1, <2>2, <2>3, <2>4, <2>5, Station DEF Done
<1>9. ASSUME NEW t \in Slots, OnUnlock(t) PROVE Undisturbed'
  <2>1. tasks[t].kind = "unlock" /\ tasks' = [tasks EXCEPT ![t] = NoTask]
    BY <1>9 DEF OnUnlock
  <2>2. \A u \in Slots : tasks'[u] = tasks[u] \/ (~Migrates(u) /\ ~Migrates(u)')
    BY <2>1, SlotFacts, RecordFacts DEF Migrates
  <2>3. master' = master \/ master' = canary
    BY <1>9 DEF OnUnlock
  <2> QED
    BY <1>u, <1>9, <2>2, <2>3, Frame DEF OnUnlock, Agreed
<1>10. ASSUME NEW t \in Slots, OnSetup(t) PROVE Undisturbed'
  <2>1. tasks[t].kind = "setup" /\ tasks[t].at = "done" /\ tasks[t].pw \in Passwords
        /\ UNCHANGED <<disk, enabled, hasCanary, prompt>>
    BY <1>10 DEF OnSetup, TasksOK
  <2>2. Preparing(t) /\ \A u \in Slots : Migrates(u) => u = t
    BY <1>m, <2>1 DEF Migrates
  <2>3. CASE tasks[t].ok
    <3>1. master' = tasks[t].pw /\ busy' = TRUE /\ tasks' = [tasks EXCEPT ![t] = Task("enable", tasks[t].pw)]
      BY <1>10, <2>3 DEF OnSetup
    <3>2. canary = tasks[t].pw
      BY <2>1, <2>2, <2>3 DEF Preparing, Succeeded
    <3>3. Agreed' /\ tasks'[t] = Task("enable", tasks[t].pw)
      BY <1>u, <2>1, <3>1, <3>2, SlotFacts, RecordFacts DEF Agreed
    <3>4. Converting(t)'
      <4>1. ~Succeeded(t)' /\ OldKey(tasks[t])' = Default
        BY <3>3 DEF Succeeded, OldKey
      <4>2. ~enabled /\ AllUnder(Default)
        BY <2>2 DEF Preparing
      <4>3. enabled' = (tasks'[t].kind = "disable")
        BY <1>b, <2>1, <3>3, <4>2
      <4> QED
        BY <2>1, <3>1, <3>2, <3>3, <4>1, <4>2, <4>3 DEF Converting, AllUnder
    <3> QED
      BY <2>1, <2>2, <3>1, <3>3, <3>4, Station, RecordFacts
  <2>4. CASE ~tasks[t].ok
    <3>1. tasks' = [tasks EXCEPT ![t] = NoTask] /\ UNCHANGED <<master, busy>>
      BY <1>10, <2>4 DEF OnSetup
    <3>2. ~enabled /\ ~busy /\ canary = None /\ AllUnder(Default)
      BY <2>2, <2>4 DEF Preparing, Succeeded
    <3>3. Agreed'
      BY <1>u, <2>1, <3>1, <3>2 DEF Agreed
    <3>4. AtRest'
      BY <1>b, <2>1, <3>1, <3>2 DEF AtRest, AllUnder
    <3> QED
      BY <2>2, <3>1, <3>3, <3>4, Station, RecordFacts
  <2> QED
    BY <2>3, <2>4
<1>11. ASSUME NEW t \in Slots, OnEnable(t) PROVE Undisturbed'
  <2>1. tasks[t].kind = "enable" /\ tasks[t].at = "done" /\ tasks[t].pw \in Passwords
        /\ tasks' = [tasks EXCEPT ![t] = NoTask] /\ UNCHANGED secrets
        /\ busy' = FALSE /\ prompt' = FALSE /\ hasCanary' = tasks[t].ok
    BY <1>11 DEF OnEnable, TasksOK
  <2>2. Converting(t) /\ ~enabled /\ canary = tasks[t].pw /\ \A u \in Slots : Migrates(u) => u = t
    BY <1>m, <1>b, <2>1 DEF Migrates, Converting
  <2>3. CASE tasks[t].ok
    <3>1. enabled' = TRUE /\ savedEnabled' = TRUE /\ UNCHANGED <<canary, master>>
      BY <1>11, <2>3 DEF OnEnable
    <3>2. AllUnder(canary)
      BY <2>1, <2>2, <2>3 DEF Converting, Succeeded, NewKey
    <3>3. Agreed' /\ AtRest'
      BY <1>u, <2>1, <2>2, <2>3, <3>1, <3>2, VaultAssumption DEF Agreed, AtRest, AllUnder
    <3> QED
      BY <2>1, <2>2, <3>3, Station, RecordFacts
  <2>4. CASE ~tasks[t].ok
    <3>1. master' = None /\ canary' = None /\ UNCHANGED <<enabled, savedEnabled>>
      BY <1>11, <2>4 DEF OnEnable
    <3>2. AllUnder(Default)
      BY <2>1, <2>2, <2>4 DEF Converting, Succeeded, OldKey
    <3>3. Agreed' /\ AtRest'
      <4>1. hasCanary' = FALSE /\ tasks[t].ok = FALSE
        BY <2>1, <2>4, RecordFacts DEF TaskRecords
      <4> QED
        BY <1>u, <1>b, <2>1, <2>2, <4>1, <3>1, <3>2 DEF Agreed, AtRest, AllUnder
    <3> QED
      BY <2>1, <2>2, <3>3, Station, RecordFacts
  <2> QED
    BY <2>3, <2>4
<1>12. ASSUME NEW t \in Slots, OnDisable(t) PROVE Undisturbed'
  <2>1. tasks[t].kind = "disable" /\ tasks[t].at = "done" /\ tasks[t].pw \in Passwords
        /\ tasks' = [tasks EXCEPT ![t] = NoTask] /\ busy' = FALSE /\ UNCHANGED <<secrets, prompt>>
    BY <1>12 DEF OnDisable, TasksOK
  <2>2. Converting(t) /\ enabled /\ canary = tasks[t].pw /\ \A u \in Slots : Migrates(u) => u = t
    BY <1>m, <1>b, <2>1 DEF Migrates, Converting
  <2>3. CASE tasks[t].ok
    <3>1. enabled' = FALSE /\ hasCanary' = FALSE /\ savedEnabled' = FALSE /\ canary' = None /\ master' = None
      BY <1>12, <2>3 DEF OnDisable
    <3>2. AllUnder(Default)
      BY <2>1, <2>2, <2>3 DEF Converting, Succeeded, NewKey
    <3>3. Agreed' /\ AtRest'
      BY <2>1, <3>1, <3>2 DEF Agreed, AtRest, AllUnder
    <3> QED
      BY <2>1, <2>2, <3>3, Station, RecordFacts
  <2>4. CASE ~tasks[t].ok
    <3>1. UNCHANGED <<enabled, master, hasCanary, canary, savedEnabled>>
      BY <1>12, <2>4 DEF OnDisable
    <3>2. AllUnder(canary)
      BY <2>1, <2>2, <2>4 DEF Converting, Succeeded, OldKey
    <3>3. Agreed' /\ AtRest'
      BY <1>u, <2>1, <2>2, <3>1, <3>2, VaultAssumption DEF Agreed, AtRest, AllUnder
    <3> QED
      BY <2>1, <2>2, <3>3, Station, RecordFacts
  <2> QED
    BY <2>3, <2>4
<1>13. CASE Lock
  BY <1>u, <1>13, Frame DEF Lock, Agreed
<1>14. ASSUME NEW slept \in BOOLEAN, CheckLock(slept) PROVE Undisturbed'
  BY <1>u, <1>14, Frame DEF CheckLock, Agreed
<1>15. ASSUME NEW h \in Hosts, NEW s \in SecretIds, SaveHost(h, s) PROVE Undisturbed'
  <2>1. ~Migrating /\ ~Overlay /\ secrets' = NewSecret(s) /\ AtRest
        /\ UNCHANGED <<canary, savedEnabled, enabled, master, hasCanary, prompt, busy, tasks>>
    BY <1>15, <1>m DEF SaveHost
  <2>2. VaultKey = IF enabled THEN canary ELSE Default
    BY <1>u, <2>1 DEF VaultKey, Overlay, Agreed
  <2>3. AtRest'
    BY <2>1, <2>2 DEF AtRest, AllUnder, NewSecret
  <2>4. Agreed' /\ \A t \in Slots : ~Migrates(t)'
    BY <1>u, <2>1, NoneMigrates DEF Agreed, Migrates
  <2> QED
    BY <2>3, <2>4 DEF Undisturbed, Migrates
<1>16. ASSUME NEW h \in Hosts, DeleteHost(h) PROVE Undisturbed'
  BY <1>u, <1>16, Frame DEF DeleteHost, Agreed
<1>17. CASE ChangeSetting
  BY <1>u, <1>17, Frame DEF ChangeSetting, Agreed
<1>18. CASE Restart
  <2>1. ~Migrating /\ AtRest
    BY <1>18, <1>m DEF Restart
  <2>2. enabled' = enabled /\ Agreed' /\ AtRest'
    BY <1>u, <1>18, <2>1 DEF Restart, Agreed, AtRest, AllUnder
  <2>3. \A t \in Slots : tasks'[t].kind = "none"
    BY <1>18 DEF Restart
  <2> QED
    BY <2>2, <2>3 DEF Undisturbed, Migrates
<1>19. CASE UNCHANGED vars
  BY <1>u, <1>19, Frame DEF vars, Agreed
<1> QED
  BY <1>1, <1>2, <1>3, <1>4, <1>5, <1>6, <1>7, <1>8, <1>9, <1>10, <1>11, <1>12, <1>13, <1>14,
     <1>15, <1>16, <1>17, <1>18, <1>19 DEF Next

\* A new workspace is at rest, with the vault off.
LEMMA InitIInv == Init => IInv
<1> SUFFICES ASSUME Init PROVE IInv
  OBVIOUS
<1>1. \A t \in Slots : tasks[t].kind = "none"
  BY DEF Init
<1>2. DOMAIN secrets = {}
  BY DEF Init
<1>3. Agreed /\ AtRest
  BY <1>2 DEF Init, Agreed, AtRest, AllUnder
<1>4. Undisturbed
  BY <1>1, <1>3 DEF Undisturbed, Migrates
<1> QED
  BY <1>4, InitType DEF IInv

\* The invariant is inductive.
LEMMA StepIInv == IInv /\ [Next]_vars => IInv'
BY TypeStep, UndisturbedStep DEF IInv

\* Between two migrations, and until the first event the code does not protect the vault from:
\* disk and memory agree on whether the vault is on, and every secret is under the key the
\* vault will ask for (update.rs, the setup, migration and rollback handlers).
THEOREM CoherentCorrect == Spec => []Coherent
<1>1. IInv => Coherent
  BY DEF IInv, Undisturbed, Agreed, AtRest, AllUnder, Coherent
<1> QED
  BY <1>1, InitIInv, StepIInv, PTL DEF Spec

\* Until such an event all secrets are under one key, in the middle of a migration too.
THEOREM NeverHalfConvertedCorrect == Spec => []NeverHalfConverted
<1>1. IInv => NeverHalfConverted
  <2> SUFFICES ASSUME Undisturbed PROVE \E key : AllUnder(key)
    BY DEF IInv, NeverHalfConverted, AllUnder
  <2>1. CASE ~Migrating
    BY <2>1 DEF Undisturbed, AtRest
  <2>2. CASE Migrating
    <3>1. PICK t \in Slots : tasks[t].kind \in {"setup", "enable", "disable"}
      BY <2>2 DEF Migrating
    <3> QED
      BY <3>1 DEF Undisturbed, Preparing, Converting
  <2> QED
    BY <2>1, <2>2
<1> QED
  BY <1>1, InitIInv, StepIInv, PTL DEF Spec

\* Whatever fails, crashes or is late, no saved host refers to a secret that is not stored:
\* persist_host stores the secret first, and nothing deletes one.
THEOREM AuthResolvesCorrect == Spec => []AuthResolves
<1>1. Init => AuthResolves
  BY DEF Init, AuthResolves
<1>2. AuthResolves /\ [Next]_vars => AuthResolves'
  <2> SUFFICES ASSUME AuthResolves, [Next]_vars PROVE AuthResolves'
    OBVIOUS
  <2> USE DEF AuthResolves
  <2>1. ASSUME NEW t \in Slots, PutBatch(t) PROVE AuthResolves'
    <3>1. DOMAIN secrets' = DOMAIN secrets /\ auth' = auth
      BY <2>1 DEF PutBatch
    <3> QED
      BY <3>1
  <2>2. ASSUME NEW h \in Hosts, NEW s \in SecretIds, SaveHost(h, s) PROVE AuthResolves'
    <3>1. DOMAIN secrets' = DOMAIN secrets \cup {s}
      BY <2>2 DEF SaveHost, NewSecret
    <3>2. auth' = auth \/ auth' = [x \in DOMAIN auth \cup {h} |-> IF x = h THEN s ELSE auth[x]]
      BY <2>2 DEF SaveHost
    <3> QED
      BY <3>1, <3>2
  <2>3. ASSUME NEW h \in Hosts, DeleteHost(h) PROVE AuthResolves'
    BY <2>3 DEF DeleteHost
  <2>4. CASE UNCHANGED <<secrets, auth>>
    BY <2>4
  <2> QED
    BY <2>1, <2>2, <2>3, <2>4
       DEF Next, vars, Type, EnableRequest, Submit, DisableRequest, UnlockRun, SetupRun, Reencrypt,
           OnUnlock, OnSetup, OnEnable, OnDisable, Lock, CheckLock, ChangeSetting, Restart
<1> QED
  BY <1>1, <1>2, PTL DEF Spec
==============================================================================
