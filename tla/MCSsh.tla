-------------------------------- MODULE MCSsh --------------------------------
(***************************************************************************)
(* The machines of openterm-ssh and the command line client in one run of  *)
(* TLC: a behaviour picks one machine in its first state, as in            *)
(* MCWorkers, and the others rest.                                         *)
(***************************************************************************)
EXTENDS SshConnect, ChannelBudget

CONSTANT Streams   \* of the forward

ASSUME ForwardAssumption == "loop" \notin Streams

VARIABLES machine,
  loop, acceptedStream, stop, lockQueue, up, at, outcome, events,
  hosts, place, command, profile, auth, tty, file, exit

Forward == INSTANCE LocalForward WITH EventCap <- 1, accepted <- acceptedStream
Client  == INSTANCE Cli WITH MaxHosts <- 2, at <- place

forwardVars == <<loop, acceptedStream, stop, lockQueue, up, at, outcome, events>>
clientVars  == <<hosts, place, command, profile, auth, tty, file, exit>>

MCInit == /\ machine \in {"connect", "budget", "forward", "client"}
          /\ ConnectInit /\ BudgetInit /\ Forward!ForwardInit
          /\ Client!CliInit

OfConnect(A) == machine = "connect" /\ A
                /\ UNCHANGED <<machine, budgetVars, forwardVars, clientVars>>
OfBudget(A)  == machine = "budget" /\ A
                /\ UNCHANGED <<machine, connectVars, forwardVars, clientVars>>
OfForward(A) == machine = "forward" /\ A
                /\ UNCHANGED <<machine, connectVars, budgetVars, clientVars>>
OfClient(A)  == machine = "client" /\ A
                /\ UNCHANGED <<machine, connectVars, budgetVars, forwardVars>>

MCNext == \/ OfConnect(ConnectNext) \/ OfBudget(BudgetNext)
          \/ OfForward(Forward!ForwardNext) \/ OfClient(Client!CliNext)

\* The machines' own fairness, as their specifications state it.
MCSpec ==
  /\ MCInit
  /\ [][MCNext]_<<machine, connectVars, budgetVars, forwardVars, clientVars>>
  /\ \A d \in Dials : WF_connectVars(OfConnect(DialStep(d)))
  /\ \A r \in SftpOps \cup Execs : WF_budgetVars(OfBudget(Quick(r)))
  /\ WF_forwardVars(OfForward(Forward!Receive)) /\ SF_forwardVars(OfForward(Forward!LoopStep))
  /\ \A s \in Streams : /\ WF_forwardVars(OfForward(Keepalive /\ Forward!OpenChannel(s)))
                        /\ WF_forwardVars(OfForward(~up /\ Forward!PumpEnds(s)))
                        /\ SF_forwardVars(OfForward(Forward!Report(s)))

------------------------------------------------------------------------------
\* The machines' type invariants.
SshTypesOK == /\ TypeOK /\ BudgetTypeOK /\ Forward!TypeOK /\ Client!TypeOK

\* No step of a dial, a forward or a client process goes back on what it promised:
\* the user is asked once, success is whole, a stopped forward opens nothing, and a
\* download that failed says so.
StepsSound == /\ NeverAskedAgain /\ SuccessIsWhole
              /\ Forward!StoppedOpensNothing
              /\ Client!DownloadReported /\ []Client!OneCredential

\* Every dial ends, queries are served beside hung transfers, and a stop of
\* a forward is carried out.
SshProgress ==
  /\ machine = "connect" => DialEnds
  /\ machine = "budget"  => ExecServed
  /\ machine = "forward" => Forward!StopHonoured
==============================================================================
