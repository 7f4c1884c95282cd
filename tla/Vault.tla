------------------------------- MODULE Vault -------------------------------
(***************************************************************************)
(* The credential vault of openterm: the workspace database on disk (the   *)
(* secrets, the hosts that refer to them, the canary, the persisted        *)
(* vault_enabled), the vault fields of App in memory, and the blocking      *)
(* tasks (unlock, setup, the two migrations) that run beside the UI thread *)
(* and answer with a message.                                              *)
(*                                                                         *)
(* A secret is the key it is encrypted under: decryption succeeds with the *)
(* same key and fails with every other.  A password that is too short or   *)
(* does not match its confirmation only sets an error line and is the same *)
(* as Blank.  Every read or write of the database is one transaction; a    *)
(* crash can fall between any two of them.                                 *)
(*                                                                         *)
(* `faults` is an observer: it collects the events that the code does not  *)
(* protect the vault from, so that the invariants can say what holds until *)
(* one of them happens.                                                    *)
(***************************************************************************)
EXTENDS Integers, FiniteSets

CONSTANTS Passwords,   \* the passwords the user may type (long enough)
          Hosts,       \* saved hosts
          SecretIds,   \* identities SecretId::new may draw
          Slots,       \* blocking tasks in flight at one time
          IdleTicks,   \* heartbeats of VaultCheckLock in VAULT_IDLE_TIMEOUT
          MaxFaults,   \* bound of the runs on Cardinality(faults)
          Default,     \* VAULT_DEFAULT_KEY
          Blank,       \* an empty or unusable entry; also the key ""
          None

ASSUME VaultAssumption ==
  /\ Default \notin Passwords /\ Blank \notin Passwords /\ None \notin Passwords
  /\ Default # Blank /\ Default # None /\ Blank # None
  /\ None \notin SecretIds
  /\ IdleTicks \in Nat \ {0} /\ MaxFaults \in Nat

VARIABLES
  secrets,       \* disk: encrypted_secrets, id -> key
  auth,          \* disk: host_profiles, host -> id of its secret
  canary,        \* disk: vault_meta, the password the canary is under
  savedEnabled,  \* disk: UiSettings.vault_enabled
  enabled, master, hasCanary, typed, prompt, busy, idle,  \* App
  tasks,         \* blocking tasks, each until its message is handled
  faults

disk == <<secrets, auth, canary, savedEnabled>>
app == <<enabled, master, hasCanary, typed, prompt, busy, idle>>
vars == <<disk, app, tasks, faults>>

Keys == Passwords \cup {Default, Blank}
Faults == {"second setup", "save during migration", "restart during migration",
           "lost write", "late unlock"}
NoTask == [kind |-> "none", pw |-> None, at |-> "done", seen |-> {}, ok |-> FALSE]

\* The type invariant.  An idle count beyond its limit would show a heartbeat that
\* goes on counting (update.rs:1415-1435).
TypeOK ==
  /\ DOMAIN secrets \subseteq SecretIds /\ \A s \in DOMAIN secrets : secrets[s] \in Keys
  /\ DOMAIN auth \subseteq Hosts /\ \A h \in DOMAIN auth : auth[h] \in SecretIds
  /\ canary \in Passwords \cup {None}
  /\ master \in Passwords \cup {None}
  /\ typed \in Passwords \cup {Blank}
  /\ {savedEnabled, enabled, hasCanary, prompt, busy} \subseteq BOOLEAN
  /\ idle \in 0..IdleTicks
  /\ tasks \in [Slots -> [kind : {"none", "unlock", "setup", "enable", "disable"},
                          pw : Passwords \cup {None}, at : {"run", "commit", "done"},
                          seen : SUBSET SecretIds, ok : BOOLEAN]]
  /\ faults \subseteq Faults

-----------------------------------------------------------------------------
(* App's derived state.                                                    *)

VaultKey == IF ~enabled THEN Default ELSE IF master = None THEN Blank ELSE master
Locked == enabled /\ master = None
Overlay == (enabled /\ hasCanary /\ master = None) \/ prompt

Migrating == \E t \in Slots : tasks[t].kind \in {"setup", "enable", "disable"}
Free(t) == tasks[t].kind = "none"
Task(kind, pw) == [kind |-> kind, pw |-> pw, at |-> "run", seen |-> {}, ok |-> FALSE]
Fault(f, happened) == faults' = IF happened THEN faults \cup {f} ELSE faults
Finish(t, ok) == tasks' = [tasks EXCEPT ![t] = [@ EXCEPT !.at = "done", !.ok = ok]]
Arrived(t, kind) == tasks[t].kind = kind /\ tasks[t].at = "done"

\* Writes whose error the code drops (`let _ =`) may be lost.
PersistEnabled(value, lost) == savedEnabled' = IF lost THEN savedEnabled ELSE value
DeleteCanary(lost) == canary' = IF lost THEN canary ELSE None

NewSecret(s) == [x \in DOMAIN secrets \cup {s} |-> IF x = s THEN VaultKey ELSE secrets[x]]

Init ==
  /\ secrets = << >> /\ auth = << >> /\ canary = None /\ savedEnabled = FALSE
  /\ enabled = FALSE /\ master = None /\ hasCanary = FALSE
  /\ typed = Blank /\ prompt = FALSE /\ busy = FALSE /\ idle = 0
  /\ tasks = [t \in Slots |-> NoTask]
  /\ faults = {}

-----------------------------------------------------------------------------
(* The dialogs.                                                            *)

\* The user edits the password fields of the overlay.
Type(pw) ==
  /\ Overlay /\ typed # pw
  /\ typed' = pw
  /\ UNCHANGED <<disk, enabled, master, hasCanary, prompt, busy, idle, tasks, faults>>

EnableRequest ==
  /\ ~Overlay /\ ~enabled /\ ~busy
  /\ prompt' = TRUE /\ typed' = Blank
  /\ UNCHANGED <<disk, enabled, master, hasCanary, busy, idle, tasks, faults>>

\* vault_submit: unlock when memory knows of a canary, else first-time setup.
\* Nothing stops a second press before the first one's answer.
Submit(t) ==
  /\ Overlay /\ typed # Blank /\ Free(t)
  /\ tasks' = [tasks EXCEPT ![t] = Task(IF hasCanary THEN "unlock" ELSE "setup", typed)]
  /\ Fault("second setup", ~hasCanary /\ Migrating)
  /\ UNCHANGED <<disk, app>>

UnlockRun(t) ==
  /\ tasks[t].kind = "unlock" /\ tasks[t].at = "run"
  /\ Finish(t, canary = tasks[t].pw)
  /\ UNCHANGED <<disk, app, faults>>

SetupRun(t) ==
  /\ tasks[t].kind = "setup" /\ tasks[t].at = "run"
  /\ \/ canary' = tasks[t].pw /\ Finish(t, TRUE)
     \/ Finish(t, FALSE) /\ UNCHANGED canary
  /\ UNCHANGED <<secrets, auth, savedEnabled, app, faults>>

OnUnlock(t) ==
  /\ Arrived(t, "unlock")
  /\ tasks' = [tasks EXCEPT ![t] = NoTask]
  /\ typed' = Blank
  /\ IF tasks[t].ok THEN master' = tasks[t].pw /\ idle' = 0 ELSE UNCHANGED <<master, idle>>
  /\ Fault("late unlock", tasks[t].ok /\ canary # tasks[t].pw)
  /\ UNCHANGED <<disk, enabled, hasCanary, prompt, busy>>

\* The canary is stored: hold the password and start the migration.
OnSetup(t) ==
  /\ Arrived(t, "setup")
  /\ IF tasks[t].ok
     THEN /\ master' = tasks[t].pw /\ typed' = Blank /\ busy' = TRUE
          /\ tasks' = [tasks EXCEPT ![t] = Task("enable", tasks[t].pw)]
     ELSE tasks' = [tasks EXCEPT ![t] = NoTask] /\ UNCHANGED <<master, typed, busy>>
  /\ UNCHANGED <<disk, enabled, hasCanary, prompt, idle, faults>>

-----------------------------------------------------------------------------
(* reencrypt_all_secrets: read and convert everything, then one write.     *)

OldKey(task) == IF task.kind = "enable" THEN Default ELSE task.pw
NewKey(task) == IF task.kind = "enable" THEN task.pw ELSE Default

\* Bug variant: a migration with nothing to convert never reports.
ReencryptSomething(t) ==
  /\ tasks[t].kind \in {"enable", "disable"} /\ tasks[t].at = "run" /\ secrets # << >>
  /\ IF \A s \in DOMAIN secrets : secrets[s] = OldKey(tasks[t])
     THEN tasks' = [tasks EXCEPT ![t] = [@ EXCEPT !.at = "commit", !.seen = DOMAIN secrets]]
     ELSE Finish(t, FALSE)
  /\ UNCHANGED <<disk, app, faults>>

Reencrypt(t) ==
  /\ tasks[t].kind \in {"enable", "disable"} /\ tasks[t].at = "run"
  /\ IF \A s \in DOMAIN secrets : secrets[s] = OldKey(tasks[t])
     THEN tasks' = [tasks EXCEPT ![t] = [@ EXCEPT !.at = "commit", !.seen = DOMAIN secrets]]
     ELSE Finish(t, FALSE)
  /\ UNCHANGED <<disk, app, faults>>

\* Bug variant: the batch is written secret by secret.
PutBatchOneByOne(t) ==
  /\ tasks[t].at = "commit"
  /\ \E done \in SUBSET tasks[t].seen :
        /\ secrets' = [s \in DOMAIN secrets |->
                          IF s \in done THEN NewKey(tasks[t]) ELSE secrets[s]]
        /\ Finish(t, done = tasks[t].seen)
  /\ UNCHANGED <<auth, canary, savedEnabled, app, faults>>

PutBatch(t) ==
  /\ tasks[t].at = "commit"
  /\ \/ /\ secrets' = [s \in DOMAIN secrets |->
                          IF s \in tasks[t].seen THEN NewKey(tasks[t]) ELSE secrets[s]]
        /\ Finish(t, TRUE)
     \/ Finish(t, FALSE) /\ UNCHANGED secrets
  /\ UNCHANGED <<auth, canary, savedEnabled, app, faults>>

\* Bug variant: a failed migration leaves the canary behind.
OnEnableNoRollback(t) ==
  /\ Arrived(t, "enable")
  /\ tasks' = [tasks EXCEPT ![t] = NoTask]
  /\ busy' = FALSE /\ prompt' = FALSE /\ hasCanary' = TRUE
  /\ \E lost \in BOOLEAN :
       /\ Fault("lost write", lost)
       /\ IF tasks[t].ok
          THEN /\ enabled' = TRUE /\ idle' = 0 /\ PersistEnabled(TRUE, lost)
               /\ UNCHANGED <<canary, master>>
          ELSE master' = None /\ UNCHANGED <<canary, enabled, idle, savedEnabled>>
  /\ UNCHANGED <<secrets, auth, typed>>

OnEnable(t) ==
  /\ Arrived(t, "enable")
  /\ tasks' = [tasks EXCEPT ![t] = NoTask]
  /\ busy' = FALSE /\ prompt' = FALSE /\ hasCanary' = tasks[t].ok
  /\ \E lost \in BOOLEAN :
       /\ Fault("lost write", lost)
       /\ IF tasks[t].ok
          THEN /\ enabled' = TRUE /\ idle' = 0 /\ PersistEnabled(TRUE, lost)
               /\ UNCHANGED <<canary, master>>
          ELSE /\ master' = None /\ DeleteCanary(lost)
               /\ UNCHANGED <<enabled, idle, savedEnabled>>
  /\ UNCHANGED <<secrets, auth, typed>>

DisableRequest(t) ==
  /\ ~Overlay /\ enabled /\ ~busy /\ master # None /\ Free(t)
  /\ busy' = TRUE
  /\ tasks' = [tasks EXCEPT ![t] = Task("disable", master)]
  /\ UNCHANGED <<disk, enabled, master, hasCanary, typed, prompt, idle, faults>>

OnDisable(t) ==
  /\ Arrived(t, "disable")
  /\ tasks' = [tasks EXCEPT ![t] = NoTask]
  /\ busy' = FALSE
  /\ IF tasks[t].ok
     THEN /\ enabled' = FALSE /\ master' = None /\ hasCanary' = FALSE
          /\ \E lostCanary, lostFlag \in BOOLEAN :
               /\ Fault("lost write", lostCanary \/ lostFlag)
               /\ DeleteCanary(lostCanary) /\ PersistEnabled(FALSE, lostFlag)
     ELSE UNCHANGED <<enabled, master, hasCanary, canary, savedEnabled, faults>>
  /\ UNCHANGED <<secrets, auth, typed, prompt, idle>>

-----------------------------------------------------------------------------
(* Locking.                                                                *)

Lock ==
  /\ ~Overlay /\ enabled /\ ~busy /\ ~Locked
  /\ master' = None /\ typed' = Blank
  /\ UNCHANGED <<disk, enabled, hasCanary, prompt, busy, idle, tasks, faults>>

\* Bug variant: the heartbeat counts as use.
CheckLockTouches(slept) ==
  /\ enabled /\ idle' = 0
  /\ master' = IF ~Locked /\ slept THEN None ELSE master
  /\ UNCHANGED <<disk, enabled, hasCanary, typed, prompt, busy, tasks, faults>>

\* Bug variant: the idle time is counted on while the vault is locked.
CheckLockCountsOn(slept) ==
  /\ enabled /\ idle' = idle + 1
  /\ master' = IF ~Locked /\ (slept \/ idle' = IdleTicks) THEN None ELSE master
  /\ UNCHANGED <<disk, enabled, hasCanary, typed, prompt, busy, tasks, faults>>

\* The 60 s heartbeat, subscribed while the vault is enabled.
CheckLock(slept) ==
  /\ enabled
  /\ idle' = IF idle < IdleTicks THEN idle + 1 ELSE idle
  /\ master' = IF ~Locked /\ (slept \/ idle' = IdleTicks) THEN None ELSE master
  /\ UNCHANGED <<disk, enabled, hasCanary, typed, prompt, busy, tasks, faults>>

-----------------------------------------------------------------------------
(* Saved hosts: persist_host stores the secret, then the host.             *)

\* Bug variant: the host is stored before the secret it refers to.
SaveHostFirst(h, s) ==
  /\ ~Overlay /\ s \notin DOMAIN secrets
  /\ auth' = [x \in DOMAIN auth \cup {h} |-> IF x = h THEN s ELSE auth[x]] /\ idle' = 0
  /\ secrets' = NewSecret(s) \/ UNCHANGED secrets
  /\ Fault("save during migration", Migrating)
  /\ UNCHANGED <<canary, savedEnabled, enabled, master, hasCanary, typed, prompt, busy, tasks>>

SaveHost(h, s) ==
  /\ ~Overlay /\ s \notin DOMAIN secrets
  /\ secrets' = NewSecret(s)
  /\ \/ auth' = [x \in DOMAIN auth \cup {h} |-> IF x = h THEN s ELSE auth[x]] /\ idle' = 0
     \/ UNCHANGED <<auth, idle>>                      \* save_host failed
  /\ Fault("save during migration", Migrating)
  /\ UNCHANGED <<canary, savedEnabled, enabled, master, hasCanary, typed, prompt, busy, tasks>>

\* The secret of a deleted host stays in the store.
DeleteHost(h) ==
  /\ ~Overlay /\ h \in DOMAIN auth
  /\ auth' = [x \in DOMAIN auth \ {h} |-> auth[x]]
  /\ UNCHANGED <<secrets, canary, savedEnabled, app, tasks, faults>>

\* The program ends, at any moment, and starts again from the disk.
Restart ==
  /\ enabled' = savedEnabled /\ hasCanary' = (canary # None)
  /\ master' = None /\ typed' = Blank /\ prompt' = FALSE /\ busy' = FALSE /\ idle' = 0
  /\ tasks' = [t \in Slots |-> NoTask]
  /\ Fault("restart during migration", Migrating)
  /\ UNCHANGED disk

\* Any other setting is changed: persist_settings writes vault_enabled too.
ChangeSetting ==
  /\ ~Overlay /\ savedEnabled' = enabled
  /\ UNCHANGED <<secrets, auth, canary, app, tasks, faults>>

Handle(t) == OnUnlock(t) \/ OnSetup(t) \/ OnEnable(t) \/ OnDisable(t)
Run(t) == UnlockRun(t) \/ SetupRun(t) \/ Reencrypt(t) \/ PutBatch(t)

Next ==
  \/ \E pw \in Passwords \cup {Blank} : Type(pw)
  \/ EnableRequest
  \/ \E t \in Slots : Submit(t)
  \/ \E t \in Slots : DisableRequest(t)
  \/ \E t \in Slots : UnlockRun(t)
  \/ \E t \in Slots : SetupRun(t)
  \/ \E t \in Slots : Reencrypt(t)
  \/ \E t \in Slots : PutBatch(t)
  \/ \E t \in Slots : OnUnlock(t)
  \/ \E t \in Slots : OnSetup(t)
  \/ \E t \in Slots : OnEnable(t)
  \/ \E t \in Slots : OnDisable(t)
  \/ Lock
  \/ \E slept \in BOOLEAN : CheckLock(slept)
  \/ \E h \in Hosts, s \in SecretIds : SaveHost(h, s)
  \/ \E h \in Hosts : DeleteHost(h)
  \/ ChangeSetting
  \/ Restart

\* The blocking pool runs every task and the UI thread handles every message;
\* the heartbeat fires for ever.  What the user does is not fair.
Fairness ==
  /\ \A t \in Slots : WF_vars(Run(t)) /\ WF_vars(Handle(t))
  /\ WF_vars(CheckLock(FALSE))

Spec == Init /\ [][Next]_vars /\ Fairness

-----------------------------------------------------------------------------

\* Between two migrations, and until a fault: disk and memory agree on whether
\* the vault is on, every secret is under the key the vault derives when it is
\* unlocked, an unlocked vault holds the password of the canary, and the create
\* dialog is only open where it can be finished.  So a restart at such a moment,
\* a failed migration and its rollback lose nothing.
Coherent ==
  (faults = {} /\ ~Migrating) =>
    /\ savedEnabled = enabled
    /\ enabled = (canary # None) /\ hasCanary = enabled
    /\ master # None => master = canary
    /\ prompt => ~enabled
    /\ ~busy
    /\ \A s \in DOMAIN secrets : secrets[s] = IF enabled THEN canary ELSE Default

\* The secrets are never half converted (update.rs, reencrypt_all_secrets): at
\* every moment, in the middle of a migration too, all are under one key.
NeverHalfConverted ==
  faults = {} => \A s, r \in DOMAIN secrets : secrets[s] = secrets[r]

\* No saved host refers to a secret that is not stored, whatever fails or crashes.
AuthResolves == \A h \in DOMAIN auth : auth[h] \in DOMAIN secrets

\* Bound of the runs: nothing is explored beyond MaxFaults faults.
FewFaults == Cardinality(faults) <= MaxFaults

\* A migration ends and gives the settings panel its buttons back.
MigrationEnds == busy ~> ~busy

\* An unlocked vault that nobody uses locks itself, a migration in flight or not.
AutoLocks == (enabled /\ master # None) ~> (~enabled \/ master = None)

\* The rollback's own comment (update.rs:1517): it must not strand secrets under
\* a master password the vault will not use.
RollbackStrandsNothing ==
  [][\A t \in Slots :
       (Arrived(t, "enable") /\ ~tasks[t].ok /\ canary # None /\ canary' = None)
         => \A s \in DOMAIN secrets : secrets'[s] \notin Passwords]_vars

=============================================================================
