------------------------------ MODULE SshConnect ------------------------------
(***************************************************************************)
(* Connecting to a host, directly or through a jump host (openterm-ssh):   *)
(* the transport of each hop, the host key check against the known_hosts   *)
(* file all dials share, authentication, the tunnel, and the one-shot      *)
(* helpers that connect, run one operation and close.  The user of the app *)
(* answers the challenge of a new key and dials again.                     *)
(*                                                                         *)
(* A dial belongs to a tab, a pool or a command line process; they run     *)
(* concurrently and change known_hosts under each other.  A server may     *)
(* change its key at any moment.                                           *)
(***************************************************************************)
EXTENDS Naturals, Sequences, FiniteSets

CONSTANTS Tabs,         \* the app's dials: a tab's or its pool's
          Processes,    \* the command line's dials, through the one-shot helpers
          MaxRotations, \* bound: how often servers change their keys
          Keepalive,    \* SSH keepalives are on, so a silent peer is noticed
          None

VARIABLES
  recorded,   \* known_hosts: host -> recorded keys
  serverKey,  \* the key each server presents now
  rotations,
  dial,       \* the state of each dial
  challenge,  \* the host key waiting for the user's decision, or None
  accepted    \* host keys the user has accepted (for the properties)

connectVars == <<recorded, serverKey, rotations, dial, challenge, accepted>>

Dials  == Tabs \cup Processes
Hosts  == {"jump", "target"}
Routes == {<<"target">>, <<"jump", "target">>}
Keys   == {<<"ed", 1>>, <<"ed", 2>>, <<"rsa", 1>>}     \* algorithm and identity

Places == {"tcp", "kex", "learn", "challenged", "auth", "defaultKey", "tunnel", "up",
           "operated", "closeJump", "done"}

\* The place of a challenge where none waits is not itself a challenge.
ASSUME ConnectAssumption == MaxRotations \in Nat /\ None \notin Hosts \X Keys

Policies == {"TrustAll", "Strict", "AcceptNew", "ConfirmNew"}
Results == {"none", "ok", "connection", "hostKey", "authentication", "operation", "close"}

\* The type invariant.
TypeOK ==
  /\ recorded \in [Hosts -> SUBSET Keys] /\ serverKey \in [Hosts -> Keys]
  /\ rotations \in 0 .. MaxRotations
  /\ dial \in [Dials -> [at : Places, route : Routes, hop : 1 .. 2, policy : Policies,
                         presented : Seq(Keys), result : Results]]
  /\ \A d \in Dials : dial[d].hop <= Len(dial[d].route) /\ Len(dial[d].presented) <= dial[d].hop
  /\ challenge \in [Dials -> (Hosts \X Keys) \cup {None}]
  /\ accepted \subseteq Hosts \X Keys

Idle == [at |-> "done", route |-> <<"target">>, hop |-> 1, policy |-> "ConfirmNew",
         presented |-> <<>>, result |-> "none"]

ConnectInit ==
  /\ recorded = [h \in Hosts |-> {}]
  /\ serverKey = [h \in Hosts |-> IF h = "jump" THEN <<"ed", 1>> ELSE <<"ed", 2>>]
  /\ rotations = 0
  /\ dial = [d \in Dials |-> Idle]
  /\ challenge = [d \in Dials |-> None]
  /\ accepted = {}

------------------------------------------------------------------------------
At(d, place) == dial[d].at = place
Host(d) == dial[d].route[dial[d].hop]
LastHop(d) == dial[d].hop = Len(dial[d].route)

Goto(d, place) == dial' = [dial EXCEPT ![d].at = place]
\* The end of a dial; an error drops every handle of it (`?` in each of its steps).
End(d, why) == dial' = [dial EXCEPT ![d] = [Idle EXCEPT !.at = "done", !.result = why]]

\* A dial starts: the app confirms new keys; a one-shot helper trusts all keys, as
\* the command line's flag does by default, or accepts new ones.
Start(d) ==
  /\ At(d, "done")
  /\ \E r \in Routes, p \in IF d \in Tabs THEN {"ConfirmNew"} ELSE {"TrustAll", "AcceptNew"} :
        dial' = [dial EXCEPT ![d] = [Idle EXCEPT !.at = "tcp", !.route = r, !.policy = p]]
  /\ challenge' = [challenge EXCEPT ![d] = None]
  /\ UNCHANGED <<recorded, serverKey, rotations, accepted>>

\* TcpStream::connect to the first hop, within options.timeout.
TcpConnect(d) ==
  /\ At(d, "tcp")
  /\ Goto(d, "kex") \/ End(d, "connection")
  /\ UNCHANGED <<recorded, serverKey, rotations, challenge, accepted>>

\* check_known_hosts_path: a recorded key of the same algorithm that differs is
\* an error, whatever else matches.
Check(h, key) ==
  CASE \E k \in recorded[h] : k[1] = key[1] /\ k # key -> "changed"
    [] key \in recorded[h] -> "match"
    [] OTHER -> "new"

\* Bug variant: new keys are learned under every policy.
VerdictLax(policy, check) ==
  IF policy = "TrustAll" \/ check = "match" THEN "accept"
  ELSE IF check = "new" THEN "learn" ELSE "refuse"

\* Bug variant: a changed key is treated like a new one.
VerdictAnyKey(policy, check) ==
  IF policy = "TrustAll" \/ check = "match" THEN "accept"
  ELSE CASE policy = "AcceptNew" -> "learn" [] policy = "ConfirmNew" -> "ask"
         [] OTHER -> "refuse"

\* check_server_key.
Verdict(policy, check) ==
  IF policy = "TrustAll" \/ check = "match" THEN "accept"
  ELSE CASE policy = "AcceptNew" /\ check = "new" -> "learn"
         [] policy = "ConfirmNew" /\ check = "new" -> "ask"
         [] OTHER -> "refuse"

\* connect_stream: the key exchange calls check_server_key; options.timeout
\* bounds it.
Kex(d) ==
  /\ At(d, "kex")
  /\ \/ LET key == serverKey[Host(d)]
            verdict == Verdict(dial[d].policy, Check(Host(d), key))
        IN \/ /\ verdict \in {"accept", "learn"}
              /\ dial' = [dial EXCEPT ![d].at = IF verdict = "learn" THEN "learn" ELSE "auth",
                                      ![d].presented = Append(@, key)]
              /\ UNCHANGED challenge
           \/ /\ verdict = "ask"
              /\ challenge' = [challenge EXCEPT ![d] = <<Host(d), key>>]
              /\ Goto(d, "challenged")
           \/ verdict = "refuse" /\ End(d, "connection") /\ UNCHANGED challenge
     \/ End(d, "connection") /\ UNCHANGED challenge
  /\ UNCHANGED <<recorded, serverKey, rotations, accepted>>

Record(h, key) == recorded' = [recorded EXCEPT ![h] = @ \cup {key}]

\* AcceptNew writes the key after it has read the file; a failed write is ignored.
Learn(d) ==
  /\ At(d, "learn")
  /\ Record(Host(d), dial[d].presented[dial[d].hop]) \/ UNCHANGED recorded
  /\ Goto(d, "auth")
  /\ UNCHANGED <<serverKey, rotations, challenge, accepted>>

\* Bug variant: every host is taken for a jump host.
AuthenticatedJump(d) == Goto(d, "tunnel")

\* Authenticated: on to the tunnel through the jump host, or connected.
Authenticated(d) == Goto(d, IF LastHop(d) THEN "up" ELSE "tunnel")

\* authenticate_handle: an agent that fails in whatever way leads to the default
\* key, and the jump host is always asked that way; a password or a key file
\* decides at once.  Nothing bounds these replies but the keepalive.
Authenticate(d) ==
  /\ At(d, "auth")
  /\ \/ Authenticated(d)
     \/ Goto(d, "defaultKey")
     \/ LastHop(d) /\ (End(d, "authentication") \/ End(d, "connection"))
  /\ UNCHANGED <<recorded, serverKey, rotations, challenge, accepted>>

AuthenticateDefault(d) ==
  /\ At(d, "defaultKey")
  /\ Authenticated(d) \/ End(d, "authentication") \/ End(d, "connection")
  /\ UNCHANGED <<recorded, serverKey, rotations, challenge, accepted>>

\* channel_open_direct_tcpip on the jump host, then the target's handshake in it.
Tunnel(d) ==
  /\ At(d, "tunnel")
  /\ \/ dial' = [dial EXCEPT ![d].at = "kex", ![d].hop = @ + 1]
     \/ End(d, "connection")
  /\ UNCHANGED <<recorded, serverKey, rotations, challenge, accepted>>

------------------------------------------------------------------------------
(* The user's decision.                                                     *)

\* accept_host_key: record the challenged key, then dial the whole route again.
Accept(d) ==
  /\ challenge[d] # None
  /\ \/ /\ Record(challenge[d][1], challenge[d][2])
        /\ accepted' = accepted \cup {challenge[d]}
        /\ dial' = [dial EXCEPT ![d] = [@ EXCEPT !.at = "tcp", !.hop = 1, !.presented = <<>>]]
     \/ End(d, "hostKey") /\ UNCHANGED <<recorded, accepted>>
  /\ challenge' = [challenge EXCEPT ![d] = None]
  /\ UNCHANGED <<serverKey, rotations>>

Reject(d) ==
  /\ challenge[d] # None
  /\ challenge' = [challenge EXCEPT ![d] = None]
  /\ End(d, "hostKey")
  /\ UNCHANGED <<recorded, serverKey, rotations, accepted>>

------------------------------------------------------------------------------
(* The one-shot helpers: exec, shell, list, read, write, create, remove,
   rename - connect, operate, close, and merge the two results.             *)

Operate(d) ==
  /\ d \in Processes /\ At(d, "up")
  /\ \E r \in {"ok", "operation"} : dial' = [dial EXCEPT ![d].at = "operated", ![d].result = r]
  /\ UNCHANGED <<recorded, serverKey, rotations, challenge, accepted>>

\* The operation's error comes first, then the close's.
Merge(op, closed) == IF op = "ok" /\ ~closed THEN "close" ELSE op

\* RusshSession::close: the target first, its error leaves the jump host's handle
\* to be dropped.
CloseTarget(d) ==
  /\ At(d, "operated")
  /\ \E closed \in BOOLEAN :
        LET result == Merge(dial[d].result, closed)
        IN IF closed /\ Len(dial[d].route) = 2
           THEN dial' = [dial EXCEPT ![d].at = "closeJump", ![d].result = result]
           ELSE End(d, result)
  /\ UNCHANGED <<recorded, serverKey, rotations, challenge, accepted>>

CloseJump(d) ==
  /\ At(d, "closeJump")
  /\ \E closed \in BOOLEAN : End(d, Merge(dial[d].result, closed))
  /\ UNCHANGED <<recorded, serverKey, rotations, challenge, accepted>>

\* The tab's connection is torn down, by its user or the network.
Disconnect(d) ==
  /\ d \in Tabs /\ At(d, "up")
  /\ End(d, "ok")
  /\ UNCHANGED <<recorded, serverKey, rotations, challenge, accepted>>

\* A server is reinstalled.
Rotate(h) ==
  /\ rotations < MaxRotations
  /\ \E k \in Keys \ {serverKey[h]} : serverKey' = [serverKey EXCEPT ![h] = k]
  /\ rotations' = rotations + 1
  /\ UNCHANGED <<recorded, dial, challenge, accepted>>

DialStep(d) == \/ TcpConnect(d) \/ Kex(d) \/ Learn(d)
               \/ (Keepalive /\ (Authenticate(d) \/ AuthenticateDefault(d) \/ Tunnel(d)))
               \/ CloseTarget(d) \/ CloseJump(d)

ConnectNext ==
  \/ \E d \in Dials : \/ Start(d) \/ TcpConnect(d) \/ Kex(d) \/ Learn(d) \/ Authenticate(d)
                      \/ AuthenticateDefault(d) \/ Tunnel(d) \/ Accept(d) \/ Reject(d)
                      \/ Disconnect(d) \/ Operate(d) \/ CloseTarget(d) \/ CloseJump(d)
  \/ \E h \in Hosts : Rotate(h)

\* Transport and handshake end by options.timeout; the later replies by the
\* keepalive where it is on.  The user answers no challenge he does not want to,
\* and starts no dial.
ConnectSpec == /\ ConnectInit /\ [][ConnectNext]_connectVars
               /\ \A d \in Dials : WF_connectVars(DialStep(d))

------------------------------------------------------------------------------
\* Behind every hop that is being authenticated, or that carries the next one,
\* is a key the file vouches for: it was recorded before the dial under Strict
\* and ConfirmNew, whoever recorded it, and whatever other dials wrote meanwhile
\* (lib.rs:1804-1857 and the order of the steps in connect_via_jump).
HopsTrusted ==
  \A d \in Dials : dial[d].policy \in {"Strict", "ConfirmNew"} =>
    \A i \in 1 .. Len(dial[d].presented) :
      dial[d].presented[i] \in recorded[dial[d].route[i]]

\* A host whose key has not changed is never locked out: nothing is recorded for
\* it that a later check would take for a changed key, by whichever path keys are
\* learned.  (After a rotation it can happen: a challenge shown before it and
\* accepted after it records the old key.)
NoHostLockedOut ==
  rotations = 0 => \A h \in Hosts : recorded[h] \subseteq {serverKey[h]}

\* What known_hosts promises a dial and the user.
KnownHostsSound == HopsTrusted /\ NoHostLockedOut

\* The user is asked about a key of a host once: what he has accepted is recorded
\* where every later dial, of any tab, looks it up (lib.rs:240-247, update.rs:2189).
NeverAskedAgain ==
  [][\A d \in Dials : challenge'[d] # challenge[d] => challenge'[d] \notin accepted]_connectVars

\* A one-shot helper reports success only when the operation and every close
\* succeeded (lib.rs:462-708).
SuccessIsWhole ==
  [][\A d \in Dials : dial[d].at \in {"operated", "closeJump"} /\ dial[d].result # "ok"
        => dial'[d].result = dial[d].result]_connectVars

\* Every dial comes to an end: it is up, done or waits for the user.
DialEnds ==
  \A d \in Dials : dial[d].at = "tcp" ~> dial[d].at \in {"up", "done", "challenged"}
==============================================================================
