---------------------------------- MODULE Cli ----------------------------------
(***************************************************************************)
(* The command line client (openterm-cli): each process opens the          *)
(* workspace, runs one command and exits.  A command on the stored hosts   *)
(* is one transaction per host; a command on a remote host resolves the    *)
(* target, settles the credentials, and hands over to a one-shot helper of *)
(* openterm-ssh (SshConnect), whose result it turns into an exit status.   *)
(***************************************************************************)
EXTENDS Naturals, FiniteSets

CONSTANTS MaxHosts  \* bound: how many hosts are stored

VARIABLES
  hosts,    \* the stored profiles; ids order those of one name
  at,       \* where the process is
  command,  \* what it was asked to do
  profile,  \* the resolved profile
  auth,     \* how it will authenticate
  tty,      \* the terminal's mode
  file,     \* the local file a download writes
  exit      \* how the last process ended

cliVars == <<hosts, at, command, profile, auth, tty, file, exit>>

Names == {1, 2}        \* names, addresses and targets
Sources == {"password", "env", "stdin", "key"}
Remote == {"exec", "shell", "download", "upload", "other"}   \* other: list, mkdir, rm, mv
Profile == [id : 0 .. MaxHosts, name : Names, host : Names]   \* id 0: not stored
Ask == [do : Remote, target : Names, given : SUBSET Sources]
Direct(target) == [id |-> 0, name |-> target, host |-> target]

\* The type invariant.
TypeOK ==
  /\ hosts \subseteq Profile /\ \A h, g \in hosts : h.id = g.id => h = g
  /\ at \in {"start", "options", "raw", "remote", "write", "exited"}
  /\ command \in Ask /\ profile \in Profile /\ auth \in Sources \cup {"agent"}
  /\ tty \in {"cooked", "raw"} /\ file \in {"absent", "torn", "whole"}
  /\ exit \in 0 .. 255

CliInit ==
  /\ hosts = {} /\ at = "start" /\ profile = Direct(1) /\ auth = "agent"
  /\ command = [do |-> "other", target |-> 1, given |-> {}]
  /\ tty = "cooked" /\ file = "absent" /\ exit = 0

\* main returns: RawMode's guard is dropped.
Return(status) == at' = "exited" /\ tty' = "cooked" /\ exit' = status
\* process::exit: no guard is dropped, and the system keeps the low byte.
Quit(status) == at' = "exited" /\ exit' = status % 256 /\ UNCHANGED tty

\* AddHost, and ImportSshConfig, which saves host by host up to the first one that
\* validate_host refuses.
SaveHost ==
  /\ at = "start" /\ Cardinality(hosts) < MaxHosts
  /\ \/ \E n, h \in Names :
           hosts' = hosts \cup {[id |-> Cardinality(hosts) + 1, name |-> n, host |-> h]}
        /\ UNCHANGED <<at, tty, exit>>
     \/ Return(1) /\ UNCHANGED hosts
  /\ UNCHANGED <<command, profile, auth, file>>

\* A command on a remote host; an upload reads its file first.
Begin ==
  /\ at = "start" /\ command' \in Ask
  /\ \/ at' = "options" /\ UNCHANGED <<tty, exit>>
     \/ command'.do = "upload" /\ Return(1)
  /\ UNCHANGED <<hosts, profile, auth, file>>

Matches(h, target) == target \in {h.name, h.host}

\* resolve_target: the first match in name order, else a direct profile.
Resolve(target) ==
  LET found == {h \in hosts : Matches(h, target)}
  IN IF found = {} THEN Direct(target)
     ELSE CHOOSE h \in found : \A g \in found : h.name < g.name \/ (h.name = g.name /\ h.id <= g.id)

\* Only one password, or a key.
Settled(given) == Cardinality(given) <= 1

\* ssh_options: the target, its user name, the credentials.
SshOptions ==
  /\ at = "options"
  /\ profile' = Resolve(command.target)
  /\ \/ /\ Settled(command.given)
        /\ auth' \in (IF command.given = {} THEN {"agent"} ELSE command.given)
        /\ at' = (IF command.do = "shell" THEN "raw" ELSE "remote")
        /\ UNCHANGED <<tty, exit>>
     \* no user name, an unset variable, no input, or too many credentials
     \/ Return(1) /\ UNCHANGED auth
  /\ UNCHANGED <<hosts, command, file>>

\* RawMode::enable.
Raw == /\ at = "raw"
       /\ \/ at' = "remote" /\ tty' = "raw" /\ UNCHANGED exit
          \/ Return(1)
       /\ UNCHANGED <<hosts, command, profile, auth, file>>

\* The one-shot helper: an error, or its result.
RunRemote ==
  /\ at = "remote"
  /\ \/ Return(1)
     \/ command.do \in {"exec", "shell"} /\ \E status \in {0, 1, 255, 256} : Quit(status)
     \/ command.do = "download" /\ at' = "write" /\ UNCHANGED <<tty, exit>>
     \/ command.do \in {"upload", "other"} /\ Return(0)
  /\ UNCHANGED <<hosts, command, profile, auth, file>>

\* tokio::fs::write truncates and fills the file.
WriteLocal ==
  /\ at = "write"
  /\ \/ file' = "whole" /\ Return(0)
     \/ file' \in {file, "torn"} /\ Return(1)
  /\ UNCHANGED <<hosts, command, profile, auth>>

CliNext == SaveHost \/ Begin \/ SshOptions \/ Raw \/ RunRemote \/ WriteLocal

CliSpec == CliInit /\ [][CliNext]_cliVars

------------------------------------------------------------------------------
\* A remote host sees the one credential the user gave, or the agent and default
\* keys when he gave none (openterm-cli ssh_options).
OneCredential ==
  at = "remote" => command.given = (IF auth = "agent" THEN {} ELSE {auth})

\* The local file is touched only once the whole remote content is here, and a
\* download that left it torn reports failure.
DownloadReported ==
  [][file' # file => at = "write" /\ (file' = "torn" => exit' # 0)]_cliVars
==============================================================================
