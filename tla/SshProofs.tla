------------------------------ MODULE SshProofs ------------------------------
(***************************************************************************)
(* Theorems about the machines of openterm-ssh and the command line client, *)
(* for any number of dials, key changes, requests, permits and streams.    *)
(***************************************************************************)
EXTENDS MCSsh, ConnectionPool, SequenceFacts, FiniteSetTheorems, TLAPS

------------------------------------------------------------------------------
(* Dials and host keys: what the user may rely on while tabs and command    *)
(* line processes dial over one known_hosts file.                           *)

DialRecords == [at : Places, route : Routes, hop : 1 .. 2, policy : Policies,
                presented : Seq(Keys), result : Results]

\* Where a dial is says how many hops have presented their key, and which hop it is at.
HopOK(r) ==
  /\ r.hop <= Len(r.route) /\ Len(r.presented) <= r.hop
  /\ r.at = "tcp" => r.hop = 1
  /\ r.at \in {"tcp", "kex"} => Len(r.presented) = r.hop - 1
  /\ r.at \in {"learn", "auth", "defaultKey", "tunnel"} => Len(r.presented) = r.hop
  /\ r.at = "tunnel" => r.hop < Len(r.route)

\* A hop of such a dial is trusted.
Trusted(r) ==
  r.policy \in {"Strict", "ConfirmNew"} =>
    \A i \in 1 .. Len(r.presented) : r.presented[i] \in recorded[r.route[i]]

\* While no server has changed its key, a dial has seen the servers' keys.
Current(r) == \A i \in 1 .. Len(r.presented) : r.presented[i] = serverKey[r.route[i]]

DialOK(d) ==
  /\ dial[d] \in DialRecords /\ HopOK(dial[d]) /\ Trusted(dial[d])
  /\ rotations = 0 => Current(dial[d])

\* A challenge waits only where the dial does, and shows a server's key.
ChallengeOK(d) ==
  /\ challenge[d] \in (Hosts \X Keys) \cup {None}
  /\ challenge[d] # None => dial[d].at = "challenged"
  /\ challenge[d] # None /\ rotations = 0 => challenge[d][2] = serverKey[challenge[d][1]]

\* What has been accepted is recorded, and while no server has changed its key
\* nothing else is.
FileOK ==
  /\ recorded \in [Hosts -> SUBSET Keys] /\ serverKey \in [Hosts -> Keys]
  /\ rotations \in 0 .. MaxRotations
  /\ accepted \subseteq Hosts \X Keys
  /\ \A h \in Hosts, k \in Keys : <<h, k>> \in accepted => k \in recorded[h]
  /\ rotations = 0 => \A h \in Hosts : recorded[h] \subseteq {serverKey[h]}

ConnectInv ==
  /\ FileOK
  /\ DOMAIN dial = Dials /\ dial = [d \in Dials |-> dial[d]]
  /\ DOMAIN challenge = Dials /\ challenge = [d \in Dials |-> challenge[d]]
  /\ \A d \in Dials : DialOK(d) /\ ChallengeOK(d)

------------------------------------------------------------------------------
\* A route has one or two hops, the last of them the target.
LEMMA RouteFacts ==
  \A r \in Routes : Len(r) \in 1 .. 2 /\ \A i \in 1 .. Len(r) : r[i] \in Hosts
BY DEF Routes, Hosts

\* What the check of a key says of the file.
LEMMA CheckFacts ==
  ASSUME NEW h \in Hosts, NEW key \in Keys
  PROVE  /\ Check(h, key) = "match" => key \in recorded[h]
         /\ Check(h, key) = "new" => key \notin recorded[h]
BY DEF Check

\* Under the policies that do not learn by themselves, only a recorded key is accepted.
LEMMA VerdictFacts ==
  ASSUME NEW h \in Hosts, NEW key \in Keys, NEW p \in Policies
  PROVE  /\ p \in {"Strict", "ConfirmNew"} /\ Verdict(p, Check(h, key)) \in {"accept", "learn"}
              => key \in recorded[h]
         /\ Verdict(p, Check(h, key)) = "ask" => key \notin recorded[h]
BY CheckFacts DEF Verdict, Policies

Rec(a, rt, h, p, pr, rs) ==
  [at |-> a, route |-> rt, hop |-> h, policy |-> p, presented |-> pr, result |-> rs]

\* The records the steps of a dial write, field by field.
LEMMA RecordFacts ==
  ASSUME NEW r \in DialRecords
  PROVE  /\ \A x \in Places : [r EXCEPT !.at = x] = Rec(x, r.route, r.hop, r.policy, r.presented, r.result)
         /\ \A x \in Places, k \in Keys :
              [r EXCEPT !.at = x, !.presented = Append(r.presented, k)]
                = Rec(x, r.route, r.hop, r.policy, Append(r.presented, k), r.result)
         /\ [r EXCEPT !.at = "kex", !.hop = r.hop + 1]
              = Rec("kex", r.route, r.hop + 1, r.policy, r.presented, r.result)
         /\ \A x \in Places, rs \in Results :
              [r EXCEPT !.at = x, !.result = rs] = Rec(x, r.route, r.hop, r.policy, r.presented, rs)
         /\ [r EXCEPT !.at = "tcp", !.hop = 1, !.presented = <<>>]
              = Rec("tcp", r.route, 1, r.policy, <<>>, r.result)
<1> DEFINE At1(x) == Rec(x, r.route, r.hop, r.policy, r.presented, r.result)
<1>1. \A x \in Places : [r EXCEPT !.at = x] = At1(x)
  BY DEF DialRecords, Rec
<1>2. \A x : [At1(x) EXCEPT !.hop = 1] = Rec(x, r.route, 1, r.policy, r.presented, r.result)
  BY DEF Rec
<1> DEFINE At2 == Rec("tcp", r.route, 1, r.policy, r.presented, r.result)
<1>3. /\ \A x, k : [At1(x) EXCEPT !.presented = Append(r.presented, k)]
                     = Rec(x, r.route, r.hop, r.policy, Append(r.presented, k), r.result)
      /\ [At1("kex") EXCEPT !.hop = r.hop + 1]
           = Rec("kex", r.route, r.hop + 1, r.policy, r.presented, r.result)
      /\ \A x, rs : [At1(x) EXCEPT !.result = rs] = Rec(x, r.route, r.hop, r.policy, r.presented, rs)
      /\ [At2 EXCEPT !.presented = <<>>] = Rec("tcp", r.route, 1, r.policy, <<>>, r.result)
  <2>1. \A a, rt, h, p, pr, rs, new :
          /\ [Rec(a, rt, h, p, pr, rs) EXCEPT !.hop = new] = Rec(a, rt, new, p, pr, rs)
          /\ [Rec(a, rt, h, p, pr, rs) EXCEPT !.result = new] = Rec(a, rt, h, p, pr, new)
    BY DEF Rec
  <2>p. \A a, rt, h, p, pr, rs, new : [Rec(a, rt, h, p, pr, rs) EXCEPT !.presented = new] = Rec(a, rt, h, p, new, rs)
    BY DEF Rec
  <2>2. ASSUME NEW x, NEW k
        PROVE  [At1(x) EXCEPT !.presented = Append(r.presented, k)]
                   = Rec(x, r.route, r.hop, r.policy, Append(r.presented, k), r.result)
    <3> DEFINE longer == Append(r.presented, k)
    <3> HIDE DEF longer
    <3>1. [At1(x) EXCEPT !.presented = longer] = Rec(x, r.route, r.hop, r.policy, longer, r.result)
      BY ONLY <2>p
    <3> QED
      BY ONLY <3>1 DEF longer
  <2>3. /\ [At1("kex") EXCEPT !.hop = r.hop + 1] = Rec("kex", r.route, r.hop + 1, r.policy, r.presented, r.result)
        /\ \A x, rs : [At1(x) EXCEPT !.result = rs] = Rec(x, r.route, r.hop, r.policy, r.presented, rs)
    BY ONLY <2>1
  <2>4. [At2 EXCEPT !.presented = <<>>] = Rec("tcp", r.route, 1, r.policy, <<>>, r.result)
    BY ONLY <2>p
  <2> QED
    BY <2>2, <2>3, <2>4
<1>4. /\ \A x, k : [r EXCEPT !.at = x, !.presented = Append(r.presented, k)]
                     = [[r EXCEPT !.at = x] EXCEPT !.presented = Append(r.presented, k)]
      /\ [r EXCEPT !.at = "kex", !.hop = r.hop + 1] = [[r EXCEPT !.at = "kex"] EXCEPT !.hop = r.hop + 1]
      /\ \A x, rs : [r EXCEPT !.at = x, !.result = rs] = [[r EXCEPT !.at = x] EXCEPT !.result = rs]
      /\ [r EXCEPT !.at = "tcp", !.hop = 1, !.presented = <<>>]
           = [[[r EXCEPT !.at = "tcp"] EXCEPT !.hop = 1] EXCEPT !.presented = <<>>]
  OBVIOUS
<1>5. "kex" \in Places /\ "tcp" \in Places
  BY DEF Places
<1> HIDE DEF At1, At2
<1>6. [[[r EXCEPT !.at = "tcp"] EXCEPT !.hop = 1] EXCEPT !.presented = <<>>]
        = Rec("tcp", r.route, 1, r.policy, <<>>, r.result)
  BY <1>1, <1>2, <1>3, <1>5 DEF At2
<1>7. \A x \in Places, k \in Keys :
        [r EXCEPT !.at = x, !.presented = Append(r.presented, k)]
          = Rec(x, r.route, r.hop, r.policy, Append(r.presented, k), r.result)
  <2> TAKE x \in Places, k \in Keys
  <2>1. [r EXCEPT !.at = x] = At1(x)
    BY <1>1
  <2>2. [r EXCEPT !.at = x, !.presented = Append(r.presented, k)]
          = [[r EXCEPT !.at = x] EXCEPT !.presented = Append(r.presented, k)]
    OBVIOUS
  <2>3. [At1(x) EXCEPT !.presented = Append(r.presented, k)]
          = Rec(x, r.route, r.hop, r.policy, Append(r.presented, k), r.result)
    BY ONLY <1>3, Zenon
  <2> QED
    BY ONLY <2>1, <2>2, <2>3, Zenon
<1>8. [r EXCEPT !.at = "kex", !.hop = r.hop + 1]
        = Rec("kex", r.route, r.hop + 1, r.policy, r.presented, r.result)
  BY <1>1, <1>3, <1>4, <1>5
<1>9. \A x \in Places, rs \in Results :
        [r EXCEPT !.at = x, !.result = rs] = Rec(x, r.route, r.hop, r.policy, r.presented, rs)
  <2> TAKE x \in Places, rs \in Results
  <2>1. [r EXCEPT !.at = x] = At1(x)
    BY <1>1
  <2>2. [r EXCEPT !.at = x, !.result = rs] = [[r EXCEPT !.at = x] EXCEPT !.result = rs]
    OBVIOUS
  <2>3. [At1(x) EXCEPT !.result = rs] = Rec(x, r.route, r.hop, r.policy, r.presented, rs)
    BY ONLY <1>3, Zenon
  <2> QED
    BY ONLY <2>1, <2>2, <2>3, Zenon
<1> QED
  BY ONLY <1>1, <1>6, <1>7, <1>8, <1>9, Zenon DEF At1

\* The idle record, and what a start and an end make of it.
LEMMA IdleFacts ==
  /\ Idle = Rec("done", <<"target">>, 1, "ConfirmNew", <<>>, "none")
  /\ \A rt, p : [Idle EXCEPT !.at = "tcp", !.route = rt, !.policy = p]
                  = Rec("tcp", rt, 1, p, <<>>, "none")
  /\ \A why : [Idle EXCEPT !.at = "done", !.result = why]
                = Rec("done", <<"target">>, 1, "ConfirmNew", <<>>, why)
<1> DEFINE r1(rt) == Rec("tcp", rt, 1, "ConfirmNew", <<>>, "none")
           r2 == Rec("done", <<"target">>, 1, "ConfirmNew", <<>>, "none")
<1>1. Idle = r2
  BY DEF Idle, Rec
<1>2. \A rt : [[Idle EXCEPT !.at = "tcp"] EXCEPT !.route = rt] = r1(rt)
  <2> DEFINE r0 == Rec("tcp", <<"target">>, 1, "ConfirmNew", <<>>, "none")
  <2>1. [Idle EXCEPT !.at = "tcp"] = r0
    BY DEF Idle, Rec
  <2>2. \A rt : [r0 EXCEPT !.route = rt] = r1(rt)
    BY DEF Rec
  <2> QED
    BY ONLY <2>1, <2>2
<1>3. [Idle EXCEPT !.at = "done"] = r2
  BY DEF Idle, Rec
<1>4. \A rt, p : [r1(rt) EXCEPT !.policy = p] = Rec("tcp", rt, 1, p, <<>>, "none")
  BY DEF Rec
<1>5. \A why : [r2 EXCEPT !.result = why] = Rec("done", <<"target">>, 1, "ConfirmNew", <<>>, why)
  BY DEF Rec
<1>6. /\ \A rt, p : [Idle EXCEPT !.at = "tcp", !.route = rt, !.policy = p]
                      = [[[Idle EXCEPT !.at = "tcp"] EXCEPT !.route = rt] EXCEPT !.policy = p]
      /\ \A why : [Idle EXCEPT !.at = "done", !.result = why]
                    = [[Idle EXCEPT !.at = "done"] EXCEPT !.result = why]
  OBVIOUS
<1> HIDE DEF r1, r2
<1>7. \A why : [Idle EXCEPT !.at = "done", !.result = why]
                = Rec("done", <<"target">>, 1, "ConfirmNew", <<>>, why)
  BY ONLY <1>3, <1>5, <1>6
<1>8. \A rt, p : [Idle EXCEPT !.at = "tcp", !.route = rt, !.policy = p]
                  = Rec("tcp", rt, 1, p, <<>>, "none")
  BY ONLY <1>2, <1>4, <1>6
<1> QED
  BY <1>1, <1>7, <1>8 DEF r2

------------------------------------------------------------------------------
\* The invariant, for a step of one dial.
LEMMA Moves ==
  ASSUME ConnectInv, NEW d \in Dials, NEW r \in DialRecords, NEW c \in (Hosts \X Keys) \cup {None},
         dial' = [dial EXCEPT ![d] = r], challenge' = [challenge EXCEPT ![d] = c],
         UNCHANGED <<serverKey, rotations>>, FileOK',
         \A h \in Hosts : recorded[h] \subseteq recorded'[h],
         HopOK(r), Trusted(r), rotations = 0 => Current(r),
         c # None => r.at = "challenged",
         c # None /\ rotations = 0 => c[2] = serverKey[c[1]]
  PROVE  ConnectInv'
<1>1. /\ DOMAIN dial' = Dials /\ dial' = [e \in Dials |-> dial'[e]]
      /\ DOMAIN challenge' = Dials /\ challenge' = [e \in Dials |-> challenge'[e]]
      /\ dial'[d] = r /\ challenge'[d] = c
      /\ \A e \in Dials : e # d => dial'[e] = dial[e] /\ challenge'[e] = challenge[e]
  BY DEF ConnectInv
<1>2. ASSUME NEW e \in Dials, NEW q \in DialRecords, HopOK(q), Trusted(q), dial'[e] = q,
             rotations = 0 => Current(q)
      PROVE  DialOK(e)'
  <2>1. \A i \in 1 .. Len(q.presented) : q.route[i] \in Hosts
    BY <1>2, RouteFacts DEF DialRecords, HopOK
  <2>2. \A i \in 1 .. Len(q.presented) :
          q.policy \in {"Strict", "ConfirmNew"} => q.presented[i] \in recorded'[q.route[i]]
    BY <1>2, <2>1 DEF Trusted
  <2>3. rotations' = 0 => \A i \in 1 .. Len(q.presented) : q.presented[i] = serverKey'[q.route[i]]
    BY <1>2 DEF Current
  <2>4. Trusted(dial[e])'
    BY <1>2, <2>2 DEF Trusted
  <2>5. (rotations = 0 => Current(dial[e]))'
    BY <1>2, <2>3 DEF Current
  <2>6. (dial[e] \in DialRecords /\ HopOK(dial[e]))'
    BY <1>2 DEF HopOK
  <2> QED
    BY <2>4, <2>5, <2>6 DEF DialOK
<1>3. DialOK(d)' /\ ChallengeOK(d)'
  BY <1>1, <1>2 DEF ChallengeOK
<1>4. ASSUME NEW e \in Dials, e # d PROVE DialOK(e)' /\ ChallengeOK(e)'
  BY <1>1, <1>2, <1>4 DEF ConnectInv, DialOK, ChallengeOK
<1> QED
  BY <1>1, <1>3, <1>4 DEF ConnectInv

\* A step of one dial keeps the invariant.
LEMMA DialStepInv ==
  ASSUME ConnectInv, NEW d \in Dials,
         \/ Start(d) \/ TcpConnect(d) \/ Kex(d) \/ Learn(d) \/ Authenticate(d)
         \/ AuthenticateDefault(d) \/ Tunnel(d) \/ Accept(d) \/ Reject(d)
         \/ Disconnect(d) \/ Operate(d) \/ CloseTarget(d) \/ CloseJump(d)
  PROVE  ConnectInv'
<1> DEFINE r == dial[d]
           c == challenge[d]
           File == UNCHANGED <<recorded, serverKey, rotations, accepted>>
<1>1. /\ r \in DialRecords /\ HopOK(r) /\ Trusted(r) /\ (rotations = 0 => Current(r))
      /\ c \in (Hosts \X Keys) \cup {None} /\ ChallengeOK(d) /\ FileOK
      /\ challenge = [challenge EXCEPT ![d] = c]
      /\ r.at \in Places /\ r.route \in Routes /\ r.hop \in 1 .. 2 /\ r.policy \in Policies
      /\ r.presented \in Seq(Keys) /\ r.result \in Results
      /\ Len(r.presented) \in Nat
  BY DEF ConnectInv, DialOK, ChallengeOK, DialRecords
<1>2. /\ Len(r.route) \in 1 .. 2 /\ r.hop \in 1 .. Len(r.route)
      /\ \A i \in 1 .. Len(r.route) : r.route[i] \in Hosts
  <2>1. Len(r.route) \in 1 .. 2 /\ \A i \in 1 .. Len(r.route) : r.route[i] \in Hosts
    BY <1>1, RouteFacts
  <2>2. r.hop \in 1 .. 2 /\ r.hop <= Len(r.route)
    BY <1>1 DEF HopOK
  <2> QED
    BY <2>1, <2>2
<1>3. Host(d) = r.route[r.hop] /\ Host(d) \in Hosts
  BY <1>2 DEF Host
<1>4. At(d, "challenged") \/ challenge = [challenge EXCEPT ![d] = None]
  BY <1>1 DEF ChallengeOK, At
<1>5. File => FileOK' /\ \A h \in Hosts : recorded[h] \subseteq recorded'[h]
  BY <1>1 DEF FileOK
<1>6. At(d, r.at) /\ DOMAIN dial = Dials
  BY DEF At, ConnectInv
<1> HIDE DEF r, c
\* A dial that goes on with the keys it has seen.
<1>s. ASSUME NEW q \in DialRecords, dial' = [dial EXCEPT ![d] = q], File, HopOK(q),
             challenge' = [challenge EXCEPT ![d] = None],
             q.route = r.route, q.policy = r.policy, q.presented = r.presented
      PROVE  ConnectInv'
  <2>1. Trusted(q)
    BY <1>1, <1>s DEF Trusted
  <2>2. rotations = 0 => Current(q)
    BY <1>1, <1>s DEF Current
  <2> QED
    BY <1>5, <1>s, <2>1, <2>2, Moves
\* A dial that ends.
<1>e. ASSUME NEW why \in Results, End(d, why), File, challenge' = [challenge EXCEPT ![d] = None]
      PROVE  ConnectInv'
  <2> DEFINE q == Rec("done", <<"target">>, 1, "ConfirmNew", <<>>, why)
  <2>1. dial' = [dial EXCEPT ![d] = q]
    BY <1>e, IdleFacts DEF End
  <2>2. q \in DialRecords /\ HopOK(q) /\ Trusted(q) /\ Current(q)
    BY DEF Rec, DialRecords, Places, Routes, Policies, HopOK, Trusted, Current
  <2> HIDE DEF q
  <2> QED
    BY <1>5, <1>e, <2>1, <2>2, Moves
<1>7. CASE Start(d)
  <2>1. PICK rt \in Routes, p \in Policies :
          dial' = [dial EXCEPT ![d] = [Idle EXCEPT !.at = "tcp", !.route = rt, !.policy = p]]
    BY <1>7 DEF Start, Policies
  <2> DEFINE q == Rec("tcp", rt, 1, p, <<>>, "none")
  <2>2. q \in DialRecords /\ Trusted(q) /\ Current(q)
    BY DEF Rec, DialRecords, Places, Results, Trusted, Current
  <2>3. HopOK(q)
    BY RouteFacts DEF Rec, HopOK
  <2>4. dial' = [dial EXCEPT ![d] = q]
    BY <2>1, IdleFacts
  <2>5. File /\ challenge' = [challenge EXCEPT ![d] = None]
    BY <1>7 DEF Start
  <2> HIDE DEF q
  <2> QED
    BY <1>5, <2>2, <2>3, <2>4, <2>5, Moves
<1>8. ASSUME NEW x \in Places, r.at # "challenged", Goto(d, x), File, UNCHANGED challenge,
             HopOK(Rec(x, r.route, r.hop, r.policy, r.presented, r.result))
      PROVE  ConnectInv'
  <2> DEFINE q == Rec(x, r.route, r.hop, r.policy, r.presented, r.result)
  <2>1. [r EXCEPT !.at = x] = q
    BY <1>1, RecordFacts, Zenon
  <2>2. dial' = [dial EXCEPT ![d] = q]
    BY <1>8, <2>1 DEF Goto, r
  <2>3. /\ q \in DialRecords /\ q.route = r.route /\ q.policy = r.policy
        /\ q.presented = r.presented
    BY <1>1 DEF Rec, DialRecords
  <2>4. HopOK(q) /\ File /\ challenge' = [challenge EXCEPT ![d] = None]
    BY <1>4, <1>8 DEF At, r
  <2> HIDE DEF q
  <2> QED
    BY <1>s, <2>2, <2>3, <2>4
\* A dial that ends while no challenge waits.
<1>9. ASSUME NEW why \in Results, r.at # "challenged", End(d, why), File, UNCHANGED challenge
      PROVE  ConnectInv'
  BY <1>4, <1>9, <1>e DEF At, r
<1>10. CASE TcpConnect(d)
  <2>1. r.at = "tcp" /\ File /\ UNCHANGED challenge
    BY <1>10 DEF TcpConnect, At, r
  <2>2. CASE Goto(d, "kex")
    <3>1. HopOK(Rec("kex", r.route, r.hop, r.policy, r.presented, r.result))
      BY <1>1, <2>1 DEF HopOK, Rec
    <3> QED
      BY <1>8, <2>1, <2>2, <3>1 DEF Places
  <2>3. CASE End(d, "connection")
    BY <1>9, <2>1, <2>3 DEF Results
  <2> QED
    BY <1>10, <2>2, <2>3 DEF TcpConnect
<1>11. ASSUME r.at \in {"auth", "defaultKey"}, Authenticated(d), File, UNCHANGED challenge PROVE ConnectInv'
  <2> DEFINE x == IF LastHop(d) THEN "up" ELSE "tunnel"
  <2>1. x \in Places /\ Goto(d, x)
    BY <1>11 DEF Authenticated, Places
  <2>2. x = "tunnel" => r.hop < Len(r.route)
    BY <1>2 DEF LastHop, r
  <2>3. HopOK(Rec(x, r.route, r.hop, r.policy, r.presented, r.result))
    BY <1>1, <1>11, <2>2 DEF HopOK, Rec
  <2> QED
    BY <1>8, <1>11, <2>1, <2>3
<1>12. CASE Authenticate(d)
  <2>1. r.at = "auth" /\ File /\ UNCHANGED challenge
    BY <1>12 DEF Authenticate, At, r
  <2>2. CASE Goto(d, "defaultKey")
    <3>1. HopOK(Rec("defaultKey", r.route, r.hop, r.policy, r.presented, r.result))
      BY <1>1, <2>1 DEF HopOK, Rec
    <3> QED
      BY <1>8, <2>1, <2>2, <3>1 DEF Places
  <2>3. CASE \E why \in {"authentication", "connection"} : End(d, why)
    BY <1>9, <2>1, <2>3 DEF Results
  <2> QED
    BY <1>11, <1>12, <2>1, <2>2, <2>3 DEF Authenticate
<1>13. CASE AuthenticateDefault(d)
  <2>1. r.at = "defaultKey" /\ File /\ UNCHANGED challenge
    BY <1>13 DEF AuthenticateDefault, At, r
  <2>2. CASE \E why \in {"authentication", "connection"} : End(d, why)
    BY <1>9, <2>1, <2>2 DEF Results
  <2> QED
    BY <1>11, <1>13, <2>1, <2>2 DEF AuthenticateDefault
<1>14. CASE Tunnel(d)
  <2>1. r.at = "tunnel" /\ File /\ UNCHANGED challenge
    BY <1>14 DEF Tunnel, At, r
  <2>2. CASE dial' = [dial EXCEPT ![d].at = "kex", ![d].hop = @ + 1]
    <3> DEFINE q == Rec("kex", r.route, r.hop + 1, r.policy, r.presented, r.result)
    <3>1. dial' = [dial EXCEPT ![d] = [r EXCEPT !.at = "kex", !.hop = r.hop + 1]]
      BY <1>6, <2>2, Zenon DEF r
    <3>2. dial' = [dial EXCEPT ![d] = q]
      BY <1>1, <3>1, RecordFacts, Zenon
    <3>3. r.hop + 1 \in 1 .. 2 /\ r.hop + 1 <= Len(r.route) /\ Len(r.presented) = r.hop
      BY <1>1, <1>2, <2>1 DEF HopOK
    <3>4. q \in DialRecords /\ HopOK(q)
      BY <1>1, <3>3 DEF Rec, DialRecords, HopOK, Places
    <3>5. q.route = r.route /\ q.policy = r.policy /\ q.presented = r.presented
      BY DEF Rec
    <3>6. challenge' = [challenge EXCEPT ![d] = None]
      BY <1>4, <2>1 DEF At, r
    <3> HIDE DEF q
    <3> QED
      BY <1>s, <2>1, <3>2, <3>4, <3>5, <3>6
  <2>3. CASE End(d, "connection")
    BY <1>9, <2>1, <2>3 DEF Results
  <2> QED
    BY <1>14, <2>2, <2>3 DEF Tunnel
\* A one-shot helper goes on with a result.
<1>15. ASSUME NEW x \in {"operated", "closeJump"}, NEW rs \in Results, r.at # "challenged", File,
              dial' = [dial EXCEPT ![d].at = x, ![d].result = rs], UNCHANGED challenge
       PROVE  ConnectInv'
  <2> DEFINE q == Rec(x, r.route, r.hop, r.policy, r.presented, rs)
  <2>1. dial' = [dial EXCEPT ![d] = [r EXCEPT !.at = x, !.result = rs]]
    BY <1>6, <1>15 DEF r
  <2>2. x \in Places
    BY <1>15 DEF Places
  <2>3. dial' = [dial EXCEPT ![d] = q]
    <3>1. [r EXCEPT !.at = x, !.result = rs] = q
      <4>1. \A y \in Places, z \in Results :
              [r EXCEPT !.at = y, !.result = z] = Rec(y, r.route, r.hop, r.policy, r.presented, z)
        BY <1>1, RecordFacts, Zenon
      <4> QED
        BY <2>2, <4>1, Zenon
    <3> QED
      BY ONLY <2>1, <3>1, Zenon
  <2>4. q \in DialRecords /\ HopOK(q)
    BY <1>1, <1>15, <2>2 DEF Rec, DialRecords, HopOK
  <2>5. q.route = r.route /\ q.policy = r.policy /\ q.presented = r.presented
    BY DEF Rec
  <2>6. challenge' = [challenge EXCEPT ![d] = None]
    BY <1>4, <1>15 DEF At, r
  <2> HIDE DEF q
  <2> QED
    BY <1>s, <1>15, <2>3, <2>4, <2>5, <2>6
<1>16. CASE Operate(d)
  <2>1. r.at = "up" /\ File /\ UNCHANGED challenge
    BY <1>16 DEF Operate, At, r
  <2>2. PICK rs \in {"ok", "operation"} : dial' = [dial EXCEPT ![d].at = "operated", ![d].result = rs]
    BY <1>16 DEF Operate
  <2> QED
    BY <1>15, <2>1, <2>2 DEF Results
<1>17. \A closed \in BOOLEAN : Merge(r.result, closed) \in Results
  BY <1>1 DEF Merge, Results
<1>18. CASE CloseTarget(d)
  <2>1. r.at = "operated" /\ File /\ UNCHANGED challenge
    BY <1>18 DEF CloseTarget, At, r
  <2>2. PICK rs \in Results : \/ dial' = [dial EXCEPT ![d].at = "closeJump", ![d].result = rs]
                              \/ End(d, rs)
    BY <1>17, <1>18 DEF CloseTarget, r
  <2> QED
    BY <1>9, <1>15, <2>1, <2>2
<1>19. CASE CloseJump(d)
  <2>1. r.at = "closeJump" /\ File /\ UNCHANGED challenge
    BY <1>19 DEF CloseJump, At, r
  <2> QED
    BY <1>9, <1>17, <1>19, <2>1 DEF CloseJump, r
<1>20. CASE Disconnect(d)
  <2>1. r.at = "up" /\ File /\ UNCHANGED challenge /\ End(d, "ok")
    BY <1>20 DEF Disconnect, At, r
  <2> QED
    BY <1>9, <2>1 DEF Results
<1>21. CASE Reject(d)
  BY <1>e, <1>21 DEF Reject, Results
<1>22. CASE Accept(d)
  <2>1. /\ c # None /\ challenge' = [challenge EXCEPT ![d] = None] /\ UNCHANGED <<serverKey, rotations>>
        /\ c[1] \in Hosts /\ c[2] \in Keys /\ c = <<c[1], c[2]>>
        /\ rotations = 0 => c[2] = serverKey[c[1]]
    BY <1>1, <1>22 DEF Accept, ChallengeOK, c
  <2>2. CASE End(d, "hostKey") /\ UNCHANGED <<recorded, accepted>>
    BY <1>e, <2>1, <2>2 DEF Results
  <2>3. CASE /\ Record(c[1], c[2]) /\ accepted' = accepted \cup {c}
             /\ dial' = [dial EXCEPT ![d] = [@ EXCEPT !.at = "tcp", !.hop = 1, !.presented = <<>>]]
    <3> DEFINE q == Rec("tcp", r.route, 1, r.policy, <<>>, r.result)
    <3>1. dial' = [dial EXCEPT ![d] = [r EXCEPT !.at = "tcp", !.hop = 1, !.presented = <<>>]]
      BY <2>3 DEF r
    <3>2. dial' = [dial EXCEPT ![d] = q]
      BY <1>1, <3>1, RecordFacts, Zenon
    <3>3. q \in DialRecords /\ HopOK(q) /\ Trusted(q) /\ Current(q)
      BY <1>1, <1>2 DEF Rec, DialRecords, HopOK, Trusted, Current, Places
    <3>4. recorded' = [recorded EXCEPT ![c[1]] = @ \cup {c[2]}]
      BY <2>3 DEF Record
    <3>5. FileOK' /\ \A h \in Hosts : recorded[h] \subseteq recorded'[h]
      BY <1>1, <2>1, <2>3, <3>4 DEF FileOK
    <3> HIDE DEF q
    <3> QED
      BY <2>1, <3>2, <3>3, <3>5, Moves, Zenon
  <2> QED
    BY <1>22, <2>2, <2>3 DEF Accept, c
<1>23. CASE Learn(d)
  <2>1. r.at = "learn" /\ UNCHANGED <<serverKey, rotations, challenge, accepted>>
    BY <1>23 DEF Learn, At, r
  <2>2. Len(r.presented) = r.hop
    BY <1>1, <2>1 DEF HopOK
  <2> DEFINE key == r.presented[r.hop]
             q == Rec("auth", r.route, r.hop, r.policy, r.presented, r.result)
  <2>3. key \in Keys /\ (rotations = 0 => key = serverKey[Host(d)])
    BY <1>1, <1>3, <2>2 DEF Current
  <2>4. recorded' = [recorded EXCEPT ![Host(d)] = @ \cup {key}] \/ UNCHANGED recorded
    BY <1>23 DEF Learn, Record, r
  <2>5. FileOK' /\ \A h \in Hosts : recorded[h] \subseteq recorded'[h]
    <3> HIDE DEF key
    <3>1. CASE UNCHANGED recorded
      BY <1>1, <2>1, <3>1 DEF FileOK
    <3>2. CASE recorded' = [recorded EXCEPT ![Host(d)] = @ \cup {key}]
      <4>1. /\ recorded' \in [Hosts -> SUBSET Keys]
            /\ \A h \in Hosts : recorded'[h] \subseteq recorded[h] \cup (IF h = Host(d) THEN {key} ELSE {})
            /\ \A h \in Hosts : recorded[h] \subseteq recorded'[h]
        BY <1>1, <1>3, <2>3, <3>2 DEF FileOK
      <4> QED
        BY <1>1, <2>1, <2>3, <4>1 DEF FileOK
    <3> QED
      BY <2>4, <3>1, <3>2
  <2>6. dial' = [dial EXCEPT ![d] = q]
    BY <1>1, <1>23, RecordFacts, Zenon DEF Learn, Goto, r, Places
  <2>7. q \in DialRecords /\ HopOK(q)
    BY <1>1, <2>2 DEF Rec, DialRecords, HopOK, Places
  <2>8. Trusted(q)
    BY <1>1 DEF Rec, Trusted
  <2>9. rotations = 0 => Current(q)
    BY <1>1 DEF Rec, Current
  <2>10. challenge' = [challenge EXCEPT ![d] = None]
    BY <1>4, <2>1 DEF At, r
  <2> HIDE DEF q
  <2> QED
    BY <2>1, <2>5, <2>6, <2>7, <2>8, <2>9, <2>10, Moves
<1>24. CASE Kex(d)
  <2> DEFINE key == serverKey[Host(d)]
             verdict == Verdict(r.policy, Check(Host(d), key))
  <2>1. r.at = "kex" /\ File /\ key \in Keys /\ Len(r.presented) = r.hop - 1
    <3>1. r.at = "kex" /\ File
      BY <1>24 DEF Kex, At, r
    <3>2. key \in Keys
      BY <1>1, <1>3 DEF FileOK
    <3>3. Len(r.presented) = r.hop - 1
      BY <1>1, <3>1 DEF HopOK
    <3> QED
      BY <3>1, <3>2, <3>3
  <2>2. CASE \E why \in {"connection"} : End(d, why) /\ UNCHANGED challenge
    BY <1>9, <2>1, <2>2 DEF Results
  <2>3. ASSUME NEW x \in {"learn", "auth"}, verdict \in {"accept", "learn"},
               dial' = [dial EXCEPT ![d].at = x, ![d].presented = Append(@, key)], UNCHANGED challenge
        PROVE  ConnectInv'
    <3> DEFINE pr == Append(r.presented, key)
               q == Rec(x, r.route, r.hop, r.policy, pr, r.result)
    <3>1. dial' = [dial EXCEPT ![d] = [r EXCEPT !.at = x, !.presented = pr]]
      BY <1>6, <2>3 DEF r
    <3>2. x \in Places
      BY <2>3 DEF Places
    <3>3. [r EXCEPT !.at = x, !.presented = pr] = q
      <4>1. \A y \in Places, k \in Keys :
              [r EXCEPT !.at = y, !.presented = Append(r.presented, k)]
                = Rec(y, r.route, r.hop, r.policy, Append(r.presented, k), r.result)
        BY <1>1, RecordFacts, Zenon
      <4>2. key \in Keys
        BY <2>1
      <4> HIDE DEF key
      <4> QED
        BY ONLY <3>2, <4>1, <4>2, Zenon
    <3>4. dial' = [dial EXCEPT ![d] = q]
      BY ONLY <3>1, <3>3
    <3>5. /\ pr \in Seq(Keys) /\ Len(pr) = r.hop /\ pr[r.hop] = key
          /\ \A i \in 1 .. Len(r.presented) : pr[i] = r.presented[i]
          /\ \A i \in 1 .. Len(pr) : i = r.hop \/ i \in 1 .. Len(r.presented)
      <4> HIDE DEF key
      <4> QED
        BY <1>1, <2>1
    <3>6. q \in DialRecords /\ HopOK(q)
      <4> HIDE DEF pr
      <4> QED
        BY <1>1, <2>3, <3>2, <3>5 DEF Rec, DialRecords, HopOK
    <3>7. r.policy \in {"Strict", "ConfirmNew"} => key \in recorded[r.route[r.hop]]
      BY <1>1, <1>3, <2>1, <2>3, VerdictFacts
    <3>8. key = serverKey[r.route[r.hop]]
      BY <1>3
    <3> HIDE DEF pr, key
    <3>9. Trusted(q)
      BY <1>1, <3>5, <3>7 DEF Rec, Trusted
    <3>10. rotations = 0 => Current(q)
      BY <1>1, <3>5, <3>8 DEF Rec, Current
    <3>11. challenge' = [challenge EXCEPT ![d] = None]
      BY <1>4, <2>1, <2>3 DEF At, r
    <3> HIDE DEF q
    <3> QED
      BY <1>5, <2>1, <3>4, <3>6, <3>9, <3>10, <3>11, Moves
  <2>4. CASE verdict = "ask" /\ challenge' = [challenge EXCEPT ![d] = <<Host(d), key>>]
             /\ Goto(d, "challenged")
    <3> DEFINE q == Rec("challenged", r.route, r.hop, r.policy, r.presented, r.result)
               new == <<Host(d), key>>
    <3>1. dial' = [dial EXCEPT ![d] = q]
      BY <1>1, <2>4, RecordFacts, Zenon DEF Goto, r, Places
    <3>2. q \in DialRecords /\ HopOK(q) /\ q.at = "challenged"
      BY <1>1 DEF Rec, DialRecords, HopOK, Places
    <3>3. Trusted(q)
      BY <1>1 DEF Rec, Trusted
    <3>4. rotations = 0 => Current(q)
      BY <1>1 DEF Rec, Current
    <3>5. new \in Hosts \X Keys /\ new[2] = serverKey[new[1]]
      BY <1>3, <2>1
    <3>6. challenge' = [challenge EXCEPT ![d] = new]
      BY <2>4
    <3> HIDE DEF q, new
    <3> QED
      BY <1>5, <2>1, <3>1, <3>2, <3>3, <3>4, <3>5, <3>6, Moves, Zenon
  <2> QED
    BY <1>24, <2>2, <2>3, <2>4, Zenon DEF Kex, r
<1> QED
  BY <1>7, <1>10, <1>12, <1>13, <1>14, <1>16, <1>18, <1>19, <1>20, <1>21, <1>22, <1>23, <1>24

\* A server that changes its key leaves the files and the dials as they are.
LEMMA RotateInv == ASSUME ConnectInv, NEW h \in Hosts, Rotate(h) PROVE ConnectInv'
<1>1. FileOK' /\ rotations' # 0
  BY ConnectAssumption DEF ConnectInv, FileOK, Rotate
<1>2. UNCHANGED <<recorded, dial, challenge, accepted>>
  BY DEF Rotate
<1>3. ASSUME NEW d \in Dials PROVE DialOK(d)' /\ ChallengeOK(d)'
  BY <1>1, <1>2 DEF ConnectInv, DialOK, ChallengeOK, HopOK, Trusted
<1> QED
  BY <1>1, <1>2, <1>3 DEF ConnectInv

\* The invariant holds at first.
LEMMA ConnectInitInv == ConnectInit => ConnectInv
<1> SUFFICES ASSUME ConnectInit PROVE ConnectInv
  OBVIOUS
<1>1. FileOK
  BY ConnectAssumption DEF ConnectInit, FileOK, Hosts, Keys
<1>2. ASSUME NEW d \in Dials PROVE DialOK(d) /\ ChallengeOK(d)
  <2> DEFINE q == Rec("done", <<"target">>, 1, "ConfirmNew", <<>>, "none")
  <2>1. dial[d] = q
    BY IdleFacts DEF ConnectInit
  <2>2. q \in DialRecords /\ HopOK(q) /\ Trusted(q) /\ Current(q)
    BY DEF Rec, DialRecords, Places, Routes, Policies, Results, HopOK, Trusted, Current
  <2>3. challenge[d] = None
    BY DEF ConnectInit
  <2> HIDE DEF q
  <2> QED
    BY <2>1, <2>2, <2>3 DEF DialOK, ChallengeOK
<1> QED
  BY <1>1, <1>2 DEF ConnectInv, ConnectInit

\* Every step keeps the invariant.
LEMMA ConnectStepInv == ConnectInv /\ [ConnectNext]_connectVars => ConnectInv'
<1> SUFFICES ASSUME ConnectInv, [ConnectNext]_connectVars PROVE ConnectInv'
  OBVIOUS
<1>1. CASE UNCHANGED connectVars
  BY <1>1 DEF connectVars, ConnectInv, FileOK, DialOK, ChallengeOK, HopOK, Trusted, Current
<1> QED
  BY <1>1, DialStepInv, RotateInv DEF ConnectNext

\* Every reachable state satisfies the invariant.
LEMMA ConnectInvariant == ConnectSpec => []ConnectInv
BY ConnectInitInv, ConnectStepInv, PTL DEF ConnectSpec

------------------------------------------------------------------------------
\* Every reachable state is well formed.
THEOREM ConnectTypeCorrect == ConnectSpec => []TypeOK
<1>1. ConnectInv => TypeOK
  BY DEF ConnectInv, FileOK, DialOK, ChallengeOK, HopOK, DialRecords, TypeOK
<1> QED
  BY <1>1, ConnectInvariant, PTL

\* Whatever tabs and processes dial and learn at the same time, the hops of a dial are
\* keys the file vouches for, and no host whose key is the same is locked out.
THEOREM KnownHostsSoundCorrect == ConnectSpec => []KnownHostsSound
<1>1. ConnectInv => KnownHostsSound
  BY DEF ConnectInv, FileOK, DialOK, Trusted, KnownHostsSound, HopsTrusted, NoHostLockedOut
<1> QED
  BY <1>1, ConnectInvariant, PTL

\* What a step of the dials asks, and what it keeps: the action properties' own words.
AsksAnew == \A d \in Dials : challenge'[d] # challenge[d] => challenge'[d] \notin accepted

\* A step that asks, asks about what has not been accepted.
LEMMA AsksStep == ConnectInv /\ [ConnectNext]_connectVars => [AsksAnew]_connectVars
<1> SUFFICES ASSUME ConnectInv, ConnectNext, NEW d \in Dials, challenge'[d] # challenge[d],
                    challenge'[d] # None
             PROVE  challenge'[d] \notin accepted
  BY ConnectAssumption DEF ConnectInv, FileOK, AsksAnew
<1>1. PICK e \in Dials : Kex(e) /\ challenge' # challenge
  BY DEF ConnectNext, Start, TcpConnect, Learn, Authenticate, AuthenticateDefault, Tunnel,
         Accept, Reject, Disconnect, Operate, CloseTarget, CloseJump, Rotate, ConnectInv
<1> DEFINE key == serverKey[Host(e)]
<1>2. /\ Verdict(dial[e].policy, Check(Host(e), key)) = "ask"
      /\ challenge' = [challenge EXCEPT ![e] = <<Host(e), key>>]
  BY <1>1 DEF Kex
<1>3. e = d /\ challenge'[d] = <<Host(e), key>>
  BY <1>2 DEF ConnectInv
<1>4. Host(e) \in Hosts /\ key \in Keys /\ dial[e].policy \in Policies
  BY RouteFacts DEF ConnectInv, DialOK, DialRecords, HopOK, FileOK, Host
<1>5. key \notin recorded[Host(e)]
  BY <1>2, <1>4, VerdictFacts
<1> QED
  BY <1>3, <1>4, <1>5 DEF ConnectInv, FileOK

\* No dial asks the user about a key he has accepted for that host.
THEOREM NeverAskedAgainCorrect == ConnectSpec => NeverAskedAgain
BY AsksStep, ConnectInvariant, PTL DEF ConnectSpec, NeverAskedAgain, AsksAnew

StaysFailed == \A d \in Dials : dial[d].at \in {"operated", "closeJump"} /\ dial[d].result # "ok"
                                 => dial'[d].result = dial[d].result

\* A step from a failed operation or close keeps the failure.
LEMMA FailedStep == ConnectInv /\ [ConnectNext]_connectVars => [StaysFailed]_connectVars
<1> SUFFICES ASSUME ConnectInv, ConnectNext, NEW d \in Dials, NEW e \in Dials,
                    \/ Start(e) \/ TcpConnect(e) \/ Kex(e) \/ Learn(e) \/ Authenticate(e)
                    \/ AuthenticateDefault(e) \/ Tunnel(e) \/ Accept(e) \/ Reject(e)
                    \/ Disconnect(e) \/ Operate(e) \/ CloseTarget(e) \/ CloseJump(e),
                    dial[d].at \in {"operated", "closeJump"}, dial[d].result # "ok"
             PROVE  dial'[d].result = dial[d].result
  BY DEF ConnectNext, Rotate, connectVars, StaysFailed
<1>1. dial[d] \in DialRecords /\ DOMAIN dial = Dials /\ challenge[d] = None
  BY DEF ConnectInv, DialOK, ChallengeOK
<1>2. CASE e # d
  BY <1>1, <1>2 DEF Start, TcpConnect, Kex, Learn, Authenticate, Authenticated, AuthenticateDefault,
       Tunnel, Accept, Reject, Disconnect, Operate, CloseTarget, CloseJump, Goto, End
<1>3. CASE e = d
  <2>1. CloseTarget(d) \/ CloseJump(d)
    BY <1>1, <1>3 DEF Start, TcpConnect, Kex, Learn, Authenticate, AuthenticateDefault, Tunnel, Accept,
       Reject, Disconnect, Operate, At
  <2>2. \A closed \in BOOLEAN : Merge(dial[d].result, closed) = dial[d].result
    BY DEF Merge
  <2>3. \/ dial' = [dial EXCEPT ![d].at = "closeJump", ![d].result = dial[d].result]
        \/ End(d, dial[d].result)
    BY <2>1, <2>2 DEF CloseTarget, CloseJump
  <2>4. CASE End(d, dial[d].result)
    BY <1>1, <2>4, IdleFacts DEF End, Rec
  <2>5. CASE dial' = [dial EXCEPT ![d].at = "closeJump", ![d].result = dial[d].result]
    BY <1>1, <2>5 DEF DialRecords
  <2> QED
    BY <2>3, <2>4, <2>5
<1> QED
  BY <1>2, <1>3

\* A one-shot helper never turns a failed operation or close into a success.
THEOREM SuccessIsWholeCorrect == ConnectSpec => SuccessIsWhole
BY FailedStep, ConnectInvariant, PTL DEF ConnectSpec, SuccessIsWhole, StaysFailed

------------------------------------------------------------------------------
(* The channel budget: no permit of the two semaphores is lost or minted.   *)
(* The semaphores are the same machine twice, so the lemmas are about one:  *)
(* free permits, its queue, and the requests that hold a permit or wait.    *)

\* A semaphore of N permits over users U: holders H, waiters W.
Sem(U, N, free, queue, H, W) ==
  /\ free \in 0 .. N /\ queue \in Seq(U) /\ H \subseteq U
  /\ free + Cardinality(H) = N
  /\ queue # <<>> => free = 0
  /\ IsInjective(queue) /\ Range(queue) = W

\* One more or one fewer in a finite set.
LEMMA CountFacts ==
  ASSUME NEW U, IsFiniteSet(U), NEW H \in SUBSET U, NEW r \in U
  PROVE  /\ Cardinality(H) \in Nat
         /\ r \notin H => Cardinality(H \cup {r}) = Cardinality(H) + 1
         /\ r \in H => Cardinality(H \ {r}) = Cardinality(H) - 1
         /\ Cardinality(H \ {r}) \in Nat
<1>1. IsFiniteSet(H) /\ IsFiniteSet(H \ {r})
  BY FS_Subset
<1> QED
  BY <1>1, FS_CardinalityType, FS_AddElement, FS_RemoveElement

\* A permit that is free is taken; with none free, or others waiting, the user queues.
LEMMA SemAcquire ==
  ASSUME NEW U, IsFiniteSet(U), NEW N \in Nat, NEW free, NEW queue, NEW H, NEW W,
         Sem(U, N, free, queue, H, W), NEW r \in U, r \notin H, r \notin W
  PROVE  /\ free > 0 /\ queue = <<>> => Sem(U, N, free - 1, queue, H \cup {r}, W)
         /\ ~(free > 0 /\ queue = <<>>) => Sem(U, N, free, Append(queue, r), H, W \cup {r})
<1>1. ASSUME free > 0, queue = <<>> PROVE Sem(U, N, free - 1, queue, H \cup {r}, W)
  BY <1>1, CountFacts DEF Sem
<1>2. ASSUME ~(free > 0 /\ queue = <<>>) PROVE Sem(U, N, free, Append(queue, r), H, W \cup {r})
  BY <1>2, AppendFacts DEF Sem
<1> QED
  BY <1>1, <1>2

\* A permit that comes back goes to the first waiter, or is free.
LEMMA SemRelease ==
  ASSUME NEW U, IsFiniteSet(U), NEW N \in Nat, NEW free, NEW queue, NEW H, NEW W,
         Sem(U, N, free, queue, H, W), H \cap W = {}, NEW r \in H
  PROVE  /\ queue = <<>> => Sem(U, N, free + 1, queue, H \ {r}, W)
         /\ queue # <<>> =>
              /\ Head(queue) \in W /\ Head(queue) \in U
              /\ Sem(U, N, free, Tail(queue), (H \ {r}) \cup {Head(queue)}, W \ {Head(queue)})
<1>1. /\ r \in U /\ H \in SUBSET U /\ Cardinality(H) \in Nat
      /\ Cardinality(H \ {r}) = Cardinality(H) - 1 /\ Cardinality(H \ {r}) \in Nat
  BY CountFacts DEF Sem
<1>2. ASSUME queue = <<>> PROVE Sem(U, N, free + 1, queue, H \ {r}, W)
  BY <1>1, <1>2 DEF Sem
<1>3. ASSUME queue # <<>>
      PROVE  /\ Head(queue) \in W /\ Head(queue) \in U
             /\ Sem(U, N, free, Tail(queue), (H \ {r}) \cup {Head(queue)}, W \ {Head(queue)})
  <2> DEFINE h == Head(queue)
             t == Tail(queue)
  <2>1. /\ t \in Seq(U) /\ h \in U /\ Range(queue) = {h} \cup Range(t)
        /\ IsInjective(t) /\ h \notin Range(t)
    BY <1>3, TailFacts DEF Sem
  <2>2. h \in W /\ Range(t) = W \ {h}
    BY <2>1 DEF Sem
  <2>3. h \notin H \ {r} /\ H \ {r} \in SUBSET U
    BY <1>1, <2>2
  <2> DEFINE G == H \ {r}
  <2> HIDE DEF G
  <2>4. Cardinality(G \cup {h}) = Cardinality(G) + 1
    BY <2>1, <2>3, CountFacts DEF G
  <2> HIDE DEF h, t
  <2>5. Cardinality((H \ {r}) \cup {h}) = Cardinality(H)
    BY <1>1, <2>4 DEF G
  <2>6. Sem(U, N, free, t, (H \ {r}) \cup {h}, W \ {h})
    BY <1>1, <1>3, <2>1, <2>2, <2>3, <2>5 DEF Sem
  <2> QED
    BY <2>1, <2>2, <2>6 DEF h, t
<1> QED
  BY <1>2, <1>3

\* A waiter that goes away leaves the others in the queue.
LEMMA SemLeave ==
  ASSUME NEW U, NEW N \in Nat, NEW free, NEW queue, NEW H, NEW W,
         Sem(U, N, free, queue, H, W), NEW r \in W
  PROVE  Sem(U, N, free, Leave(queue, r), H, W \ {r})
<1> DEFINE i == CHOOSE i \in DOMAIN queue : queue[i] = r
<1>1. i \in DOMAIN queue /\ queue[i] = r
  BY DEF Sem, Range
<1>2. i \in 1 .. Len(queue) /\ queue # <<>>
  BY <1>1 DEF Sem
<1>3. Leave(queue, r) = SubSeq(queue, 1, i - 1) \o SubSeq(queue, i + 1, Len(queue))
  BY DEF Leave, RemoveAt
<1> HIDE DEF i
<1>4. /\ Leave(queue, r) \in Seq(U) /\ Range(Leave(queue, r)) = W \ {r}
      /\ IsInjective(Leave(queue, r))
  <2>1. queue \in Seq(U) /\ IsInjective(queue) /\ Range(queue) = W
    BY DEF Sem
  <2>2. LET t == SubSeq(queue, 1, i - 1) \o SubSeq(queue, i + 1, Len(queue))
        IN  t \in Seq(U) /\ Range(t) = Range(queue) \ {queue[i]} /\ IsInjective(t)
    BY ONLY <1>2, <2>1, RemoveFacts
  <2> QED
    BY ONLY <1>1, <1>3, <2>1, <2>2
<1> QED
  BY <1>2, <1>4 DEF Sem

------------------------------------------------------------------------------
Holding     == {r \in Requests : HoldsChannel(r)}
Waiting     == {r \in Requests : request[r] = "channel"}
BulkHolding == {r \in Transfers : HoldsBulk(r)}
BulkWaiting == {r \in Transfers : request[r] = "bulk"}

ChannelSem == Sem(Requests, ChannelPermits, channelFree, channelQueue, Holding, Waiting)
BulkSem    == Sem(Transfers, BulkPermits, bulkFree, bulkQueue, BulkHolding, BulkWaiting)

BudgetInv == /\ request \in [Requests -> BudgetPlaces] /\ shell \in BOOLEAN
        /\ ChannelSem /\ BulkSem

\* The second case by itself: the head of the queue takes over the permit.
LEMMA SemHandOver ==
  ASSUME NEW U, IsFiniteSet(U), NEW N \in Nat, NEW free, NEW queue, NEW H, NEW W,
         Sem(U, N, free, queue, H, W), H \cap W = {}, NEW r \in H, queue # <<>>
  PROVE  /\ Head(queue) \in W /\ Head(queue) \in U
         /\ Sem(U, N, free, Tail(queue), (H \ {r}) \cup {Head(queue)}, W \ {Head(queue)})
BY SemRelease

\* There are finitely many requests, and the places are what the names say.
LEMMA BudgetFacts ==
  /\ IsFiniteSet(Requests) /\ IsFiniteSet(Transfers) /\ Transfers \subseteq Requests
  /\ ChannelPermits \in Nat /\ BulkPermits \in Nat /\ BulkPermits < ChannelPermits
  /\ \A r \in SftpOps \cup Execs : r \in Requests /\ r \notin Transfers
BY BudgetAssumption, FS_Union DEF Requests

\* A request that asks for a channel permit gets it or waits.
LEMMA AcquireStep ==
  ASSUME BudgetInv, NEW r \in Requests, ~HoldsChannel(r), request[r] # "channel", AcquireChannel(r)
  PROVE  /\ ChannelSem'
         /\ \E x \in {"open", "channel"} : request' = [request EXCEPT ![r] = x]
<1>1. CASE channelFree > 0 /\ channelQueue = <<>>
  <2>1. /\ channelFree' = channelFree - 1 /\ channelQueue' = channelQueue
        /\ request' = [request EXCEPT ![r] = "open"]
    BY <1>1 DEF AcquireChannel
  <2>2. Holding' = Holding \cup {r} /\ Waiting' = Waiting
    BY <2>1 DEF BudgetInv, Holding, Waiting, HoldsChannel
  <2>3. r \notin Holding /\ r \notin Waiting
    BY DEF Holding, Waiting
  <2>4. Sem(Requests, ChannelPermits, channelFree - 1, channelQueue, Holding \cup {r}, Waiting)
    BY <1>1, <2>3, BudgetFacts, SemAcquire DEF BudgetInv, ChannelSem
  <2> QED
    BY <2>1, <2>2, <2>4 DEF ChannelSem
<1>2. CASE ~(channelFree > 0 /\ channelQueue = <<>>)
  <2>1. /\ channelFree' = channelFree /\ channelQueue' = Append(channelQueue, r)
        /\ request' = [request EXCEPT ![r] = "channel"]
    BY <1>2 DEF AcquireChannel
  <2>2. Holding' = Holding /\ Waiting' = Waiting \cup {r}
    BY <2>1 DEF BudgetInv, Holding, Waiting, HoldsChannel
  <2>3. r \notin Holding /\ r \notin Waiting
    BY DEF Holding, Waiting
  <2>4. Sem(Requests, ChannelPermits, channelFree, Append(channelQueue, r), Holding, Waiting \cup {r})
    BY <1>2, <2>3, BudgetFacts, SemAcquire DEF BudgetInv, ChannelSem
  <2> QED
    BY <2>1, <2>2, <2>4 DEF ChannelSem
<1> QED
  BY <1>1, <1>2

\* A channel permit that comes back wakes at most the first waiter.
LEMMA ReleaseStep ==
  ASSUME BudgetInv, NEW r \in Requests, HoldsChannel(r), NEW p \in {"none", "closed"},
         ReleaseChannel(r, p)
  PROVE  /\ ChannelSem' /\ request' \in [Requests -> BudgetPlaces] /\ request'[r] = p
         /\ \A q \in Requests : q # r =>
              request'[q] = request[q] \/ (request[q] = "channel" /\ request'[q] = "open")
<1>1. Holding \cap Waiting = {} /\ r \in Holding
  BY DEF Holding, Waiting, HoldsChannel
<1>2. CASE channelQueue = <<>>
  <2>1. /\ channelFree' = channelFree + 1 /\ channelQueue' = channelQueue
        /\ request' = [request EXCEPT ![r] = p]
    BY <1>2 DEF ReleaseChannel
  <2>2. Holding' = Holding \ {r} /\ Waiting' = Waiting
    BY <1>1, <2>1 DEF BudgetInv, Holding, Waiting, HoldsChannel
  <2>3. Sem(Requests, ChannelPermits, channelFree + 1, channelQueue, Holding \ {r}, Waiting)
    BY <1>1, <1>2, BudgetFacts, SemRelease DEF BudgetInv, ChannelSem
  <2>4. ChannelSem'
    BY <2>1, <2>2, <2>3 DEF ChannelSem
  <2> QED
    BY <2>1, <2>4 DEF BudgetInv, BudgetPlaces
<1>3. CASE channelQueue # <<>>
  <2> DEFINE h == Head(channelQueue)
  <2>1. /\ channelFree' = channelFree /\ channelQueue' = Tail(channelQueue)
        /\ request' = [request EXCEPT ![r] = p, ![h] = "open"]
    BY <1>3 DEF ReleaseChannel
  <2>2. /\ h \in Waiting /\ h \in Requests
        /\ Sem(Requests, ChannelPermits, channelFree, Tail(channelQueue),
               (Holding \ {r}) \cup {h}, Waiting \ {h})
    <3>1. Sem(Requests, ChannelPermits, channelFree, channelQueue, Holding, Waiting)
      BY DEF BudgetInv, ChannelSem
    <3> QED
      BY <1>1, <1>3, <3>1, BudgetFacts, SemHandOver
  <2> HIDE DEF h
  <2>3. /\ h # r /\ request[h] = "channel"
        /\ request' \in [Requests -> BudgetPlaces] /\ request'[r] = p /\ request'[h] = "open"
        /\ \A q \in Requests : q # r /\ q # h => request'[q] = request[q]
    BY <1>1, <2>1, <2>2 DEF BudgetInv, BudgetPlaces, Waiting
  <2>4. Holding' = (Holding \ {r}) \cup {h} /\ Waiting' = Waiting \ {h}
    BY <1>1, <2>2, <2>3 DEF BudgetInv, Holding, Waiting, HoldsChannel
  <2>5. ChannelSem'
    BY <2>1, <2>2, <2>4 DEF ChannelSem
  <2> QED
    BY <2>3, <2>5
<1> QED
  BY <1>2, <1>3

\* The same for a bulk permit; what r does with its channel permit is its own affair.
LEMMA ReleaseBulkStep ==
  ASSUME BudgetInv, NEW r \in Transfers, HoldsBulk(r), ReleaseBulk(r)
  PROVE  /\ BulkSem' /\ request' \in [Requests -> BudgetPlaces] /\ request'[r] = "none"
         /\ \A q \in Requests : q # r =>
              request'[q] = request[q] \/ (request[q] = "bulk" /\ request'[q] = "granted")
<1>1. BulkHolding \cap BulkWaiting = {} /\ r \in BulkHolding /\ r \in Requests
  BY BudgetFacts DEF BulkHolding, BulkWaiting, HoldsBulk
<1>2. CASE bulkQueue = <<>>
  <2>1. /\ bulkFree' = bulkFree + 1 /\ bulkQueue' = bulkQueue
        /\ request' = [request EXCEPT ![r] = "none"]
    BY <1>2 DEF ReleaseBulk
  <2>2. BulkHolding' = BulkHolding \ {r} /\ BulkWaiting' = BulkWaiting
    BY <1>1, <2>1, BudgetFacts DEF BudgetInv, BulkHolding, BulkWaiting, HoldsBulk
  <2>3. Sem(Transfers, BulkPermits, bulkFree + 1, bulkQueue, BulkHolding \ {r}, BulkWaiting)
    BY <1>1, <1>2, BudgetFacts, SemRelease DEF BudgetInv, BulkSem
  <2>4. BulkSem'
    BY <2>1, <2>2, <2>3 DEF BulkSem
  <2> QED
    BY <1>1, <2>1, <2>4 DEF BudgetInv, BudgetPlaces
<1>3. CASE bulkQueue # <<>>
  <2> DEFINE h == Head(bulkQueue)
  <2>1. /\ bulkFree' = bulkFree /\ bulkQueue' = Tail(bulkQueue)
        /\ request' = [request EXCEPT ![r] = "none", ![h] = "granted"]
    BY <1>3 DEF ReleaseBulk
  <2>2. /\ h \in BulkWaiting /\ h \in Requests
        /\ Sem(Transfers, BulkPermits, bulkFree, Tail(bulkQueue),
               (BulkHolding \ {r}) \cup {h}, BulkWaiting \ {h})
    <3>1. Sem(Transfers, BulkPermits, bulkFree, bulkQueue, BulkHolding, BulkWaiting)
      BY DEF BudgetInv, BulkSem
    <3>2. h \in BulkWaiting /\ h \in Transfers
          /\ Sem(Transfers, BulkPermits, bulkFree, Tail(bulkQueue),
                 (BulkHolding \ {r}) \cup {h}, BulkWaiting \ {h})
      BY <1>1, <1>3, <3>1, BudgetFacts, SemHandOver
    <3> QED
      BY <3>2, BudgetFacts
  <2> HIDE DEF h
  <2>3. /\ h # r /\ request[h] = "bulk"
        /\ request' \in [Requests -> BudgetPlaces] /\ request'[r] = "none" /\ request'[h] = "granted"
        /\ \A q \in Requests : q # r /\ q # h => request'[q] = request[q]
    BY <1>1, <2>1, <2>2 DEF BudgetInv, BudgetPlaces, BulkWaiting
  <2>4. BulkHolding' = (BulkHolding \ {r}) \cup {h} /\ BulkWaiting' = BulkWaiting \ {h}
    BY <1>1, <2>2, <2>3, BudgetFacts DEF BudgetInv, BulkHolding, BulkWaiting, HoldsBulk
  <2>5. BulkSem'
    BY <2>1, <2>2, <2>4 DEF BulkSem
  <2> QED
    BY <2>3, <2>5
<1> QED
  BY <1>2, <1>3

------------------------------------------------------------------------------
\* A step that leaves who holds and who waits for a bulk permit leaves its semaphore.
LEMMA BulkFrame ==
  ASSUME BulkSem, UNCHANGED <<bulkFree, bulkQueue>>,
         \A r \in Transfers : /\ HoldsBulk(r)' <=> HoldsBulk(r)
                              /\ request'[r] = "bulk" <=> request[r] = "bulk"
  PROVE  BulkSem'
<1>1. BulkHolding' = BulkHolding /\ BulkWaiting' = BulkWaiting
  BY DEF BulkHolding, BulkWaiting
<1> QED
  BY <1>1 DEF BulkSem

\* The same for the channel permits.
LEMMA ChannelFrame ==
  ASSUME ChannelSem, UNCHANGED <<channelFree, channelQueue>>,
         \A r \in Requests : /\ HoldsChannel(r)' <=> HoldsChannel(r)
                             /\ request'[r] = "channel" <=> request[r] = "channel"
  PROVE  ChannelSem'
<1>1. Holding' = Holding /\ Waiting' = Waiting
  BY DEF Holding, Waiting
<1> QED
  BY <1>1 DEF ChannelSem

\* A waiter for a channel permit that goes away leaves its semaphore sound.
LEMMA LeaveStep ==
  ASSUME BudgetInv, NEW r \in Requests, request[r] = "channel", channelQueue' = Leave(channelQueue, r),
         UNCHANGED channelFree, request' \in [Requests -> BudgetPlaces], request'[r] = "none",
         \A q \in Requests : q # r =>
           request'[q] = request[q] \/ (request[q] = "bulk" /\ request'[q] = "granted")
  PROVE  ChannelSem'
<1>1. Holding' = Holding /\ Waiting' = Waiting \ {r} /\ r \in Waiting
  BY DEF Holding, Waiting, HoldsChannel
<1>2. Sem(Requests, ChannelPermits, channelFree, Leave(channelQueue, r), Holding, Waiting \ {r})
  BY <1>1, BudgetFacts, SemLeave DEF BudgetInv, ChannelSem
<1> QED
  BY <1>1, <1>2 DEF ChannelSem

\* Every step keeps the invariant.
LEMMA BudgetStepInv == BudgetInv /\ [BudgetNext]_budgetVars => BudgetInv'
<1> SUFFICES ASSUME BudgetInv, [BudgetNext]_budgetVars PROVE BudgetInv'
  OBVIOUS
<1> USE BudgetFacts
<1>0. request \in [Requests -> BudgetPlaces] /\ shell \in BOOLEAN /\ ChannelSem /\ BulkSem
  BY DEF BudgetInv
\* A request that gets or waits for a channel permit.
<1>a. ASSUME NEW r \in Requests, request[r] \in {"none", "granted"}, AcquireChannel(r),
             UNCHANGED <<bulkFree, bulkQueue, shell>>,
             r \in Transfers => request[r] = "granted"
      PROVE  BudgetInv'
  <2>1. PICK x \in {"open", "channel"} : request' = [request EXCEPT ![r] = x]
    BY <1>a, AcquireStep DEF HoldsChannel
  <2>2. ChannelSem'
    BY <1>a, AcquireStep DEF HoldsChannel
  <2>3. BulkSem'
    BY <1>0, <1>a, <2>1, BulkFrame DEF HoldsBulk
  <2> QED
    BY <1>0, <1>a, <2>1, <2>2, <2>3 DEF BudgetInv, BudgetPlaces
\* A request that returns its channel permit.
<1>b. ASSUME NEW r \in Requests, HoldsChannel(r), NEW p \in {"none", "closed"},
             ReleaseChannel(r, p), UNCHANGED <<bulkFree, bulkQueue, shell>>,
             r \in Transfers => p = "closed"
      PROVE  BudgetInv'
  <2>1. /\ ChannelSem' /\ request' \in [Requests -> BudgetPlaces] /\ request'[r] = p
        /\ \A q \in Requests : q # r =>
             request'[q] = request[q] \/ (request[q] = "channel" /\ request'[q] = "open")
    BY <1>b, ReleaseStep
  <2>2. BulkSem'
    BY <1>0, <1>b, <2>1, BulkFrame DEF HoldsBulk, HoldsChannel
  <2> QED
    BY <1>0, <1>b, <2>1, <2>2 DEF BudgetInv
<1>1. ASSUME NEW r \in Transfers, TransferStart(r) PROVE BudgetInv'
  <2>1. r \notin BulkHolding /\ r \notin BulkWaiting /\ request[r] = "none"
    BY <1>1 DEF TransferStart, BulkHolding, BulkWaiting, HoldsBulk
  <2>2. PICK x \in {"granted", "bulk"} : request' = [request EXCEPT ![r] = x]
    BY <1>1 DEF TransferStart
  <2>3. ChannelSem'
    BY <1>0, <1>1, <2>1, <2>2, ChannelFrame DEF TransferStart, HoldsChannel
  <2>4. ASSUME bulkFree > 0, bulkQueue = <<>> PROVE BulkSem'
    <3>1. /\ bulkFree' = bulkFree - 1 /\ bulkQueue' = bulkQueue
          /\ request' = [request EXCEPT ![r] = "granted"]
      BY <1>1, <2>4 DEF TransferStart
    <3>2. BulkHolding' = BulkHolding \cup {r} /\ BulkWaiting' = BulkWaiting
      BY <1>0, <2>1, <3>1 DEF BulkHolding, BulkWaiting, HoldsBulk
    <3>3. Sem(Transfers, BulkPermits, bulkFree - 1, bulkQueue, BulkHolding \cup {r}, BulkWaiting)
      BY <1>0, <2>1, <2>4, SemAcquire DEF BulkSem
    <3> QED
      BY <3>1, <3>2, <3>3 DEF BulkSem
  <2>5. ASSUME ~(bulkFree > 0 /\ bulkQueue = <<>>) PROVE BulkSem'
    <3>1. /\ bulkFree' = bulkFree /\ bulkQueue' = Append(bulkQueue, r)
          /\ request' = [request EXCEPT ![r] = "bulk"]
      BY <1>1, <2>5 DEF TransferStart
    <3>2. BulkHolding' = BulkHolding /\ BulkWaiting' = BulkWaiting \cup {r}
      BY <1>0, <2>1, <3>1 DEF BulkHolding, BulkWaiting, HoldsBulk
    <3>3. Sem(Transfers, BulkPermits, bulkFree, Append(bulkQueue, r), BulkHolding, BulkWaiting \cup {r})
      BY <1>0, <2>1, <2>5, SemAcquire DEF BulkSem
    <3> QED
      BY <3>1, <3>2, <3>3 DEF BulkSem
  <2> QED
    BY <1>0, <1>1, <2>2, <2>3, <2>4, <2>5 DEF BudgetInv, TransferStart, BudgetPlaces
<1>2. ASSUME NEW r \in Transfers, TransferOpen(r) PROVE BudgetInv'
  BY <1>2, <1>a DEF TransferOpen
<1>3. ASSUME NEW r \in Requests, Opened(r) PROVE BudgetInv'
  <2>1. ChannelSem'
    BY <1>0, <1>3, ChannelFrame DEF Opened, HoldsChannel
  <2>2. BulkSem'
    BY <1>0, <1>3, BulkFrame DEF Opened, HoldsBulk
  <2> QED
    BY <1>0, <1>3, <2>1, <2>2 DEF BudgetInv, Opened, BudgetPlaces
<1>4. ASSUME NEW r \in Transfers, TransferClose(r) PROVE BudgetInv'
  BY <1>4, <1>b DEF TransferClose
<1>5. ASSUME NEW r \in Transfers, TransferEnd(r) PROVE BudgetInv'
  <2>1. /\ BulkSem' /\ request' \in [Requests -> BudgetPlaces] /\ request'[r] = "none"
        /\ \A q \in Requests : q # r =>
             request'[q] = request[q] \/ (request[q] = "bulk" /\ request'[q] = "granted")
    BY <1>5, ReleaseBulkStep DEF TransferEnd, HoldsBulk
  <2>2. ChannelSem'
    BY <1>0, <1>5, <2>1, ChannelFrame DEF TransferEnd, HoldsChannel
  <2> QED
    BY <1>0, <1>5, <2>1, <2>2 DEF BudgetInv, TransferEnd
<1>6. ASSUME NEW r \in Transfers, TransferAbort(r) PROVE BudgetInv'
  <2>1. UNCHANGED <<channelFree, shell>>
    BY <1>6 DEF TransferAbort
  <2>2. CASE /\ request[r] = "bulk" /\ bulkQueue' = Leave(bulkQueue, r)
             /\ UNCHANGED <<bulkFree, channelQueue>> /\ request' = [request EXCEPT ![r] = "none"]
    <3>1. BulkHolding' = BulkHolding /\ BulkWaiting' = BulkWaiting \ {r} /\ r \in BulkWaiting
      BY <1>0, <2>2 DEF BulkHolding, BulkWaiting, HoldsBulk
    <3>2. Sem(Transfers, BulkPermits, bulkFree, Leave(bulkQueue, r), BulkHolding, BulkWaiting \ {r})
      BY <1>0, <3>1, SemLeave DEF BulkSem
    <3>3. BulkSem'
      BY <2>2, <3>1, <3>2 DEF BulkSem
    <3>4. ChannelSem'
      BY <1>0, <2>1, <2>2, ChannelFrame DEF HoldsChannel
    <3> QED
      BY <1>0, <2>1, <2>2, <3>3, <3>4 DEF BudgetInv, BudgetPlaces
  <2>3. ASSUME request[r] \in {"granted", "channel"}, ReleaseBulk(r)
        PROVE  /\ BulkSem' /\ request' \in [Requests -> BudgetPlaces] /\ request'[r] = "none"
               /\ \A q \in Requests : q # r =>
                    request'[q] = request[q] \/ (request[q] = "bulk" /\ request'[q] = "granted")
    BY <2>3, ReleaseBulkStep DEF HoldsBulk
  <2>4. CASE request[r] = "granted" /\ ReleaseBulk(r) /\ UNCHANGED channelQueue
    <3>1. ChannelSem'
      BY <1>0, <2>1, <2>3, <2>4, ChannelFrame DEF HoldsChannel
    <3> QED
      BY <1>0, <2>1, <2>3, <2>4, <3>1 DEF BudgetInv
  <2>5. CASE request[r] = "channel" /\ channelQueue' = Leave(channelQueue, r) /\ ReleaseBulk(r)
    <3>1. ChannelSem'
      BY <2>1, <2>3, <2>5, LeaveStep
    <3> QED
      BY <1>0, <2>1, <2>3, <2>5, <3>1 DEF BudgetInv
  <2> QED
    BY <1>6, <2>2, <2>4, <2>5 DEF TransferAbort
<1>7. ASSUME NEW r \in SftpOps \cup Execs, QuickStart(r) PROVE BudgetInv'
  BY <1>7, <1>a DEF QuickStart
<1>8. ASSUME NEW r \in SftpOps \cup Execs, QuickEnd(r) PROVE BudgetInv'
  BY <1>8, <1>b DEF QuickEnd
<1>9. ASSUME NEW r \in SftpOps, WaitTimeout(r) PROVE BudgetInv'
  <2>1. ChannelSem'
    BY <1>0, <1>9, LeaveStep DEF WaitTimeout, BudgetPlaces
  <2>2. BulkSem'
    BY <1>0, <1>9, BulkFrame DEF WaitTimeout, HoldsBulk
  <2> QED
    BY <1>0, <1>9, <2>1, <2>2 DEF BudgetInv, WaitTimeout, BudgetPlaces
<1>10. CASE Shell
  <2>1. ChannelSem' /\ BulkSem'
    BY <1>0, <1>10, ChannelFrame, BulkFrame DEF Shell, HoldsChannel, HoldsBulk
  <2> QED
    BY <1>0, <1>10, <2>1 DEF BudgetInv, Shell
<1>11. CASE UNCHANGED budgetVars
  <2>1. ChannelSem' /\ BulkSem'
    BY <1>0, <1>11, ChannelFrame, BulkFrame DEF budgetVars, HoldsChannel, HoldsBulk
  <2> QED
    BY <1>0, <1>11, <2>1 DEF BudgetInv, budgetVars
<1> QED
  BY <1>1, <1>2, <1>3, <1>4, <1>5, <1>6, <1>7, <1>8, <1>9, <1>10, <1>11 DEF BudgetNext

\* At first every permit is free and no one waits.
LEMMA BudgetInitInv == BudgetInit => BudgetInv
<1> SUFFICES ASSUME BudgetInit PROVE BudgetInv
  OBVIOUS
<1>1. Holding = {} /\ Waiting = {} /\ BulkHolding = {} /\ BulkWaiting = {}
  BY BudgetFacts DEF BudgetInit, Holding, Waiting, BulkHolding, BulkWaiting, HoldsChannel, HoldsBulk
<1>2. ChannelSem /\ BulkSem
  BY <1>1, BudgetFacts, EmptyFacts, FS_EmptySet DEF BudgetInit, ChannelSem, BulkSem, Sem
<1> QED
  BY <1>2 DEF BudgetInv, BudgetInit, BudgetPlaces

\* Every reachable state satisfies the invariant.
LEMMA BudgetInvariant == BudgetSpec => []BudgetInv
BY BudgetInitInv, BudgetStepInv, PTL DEF BudgetSpec

------------------------------------------------------------------------------
\* Every reachable state is well formed.
THEOREM BudgetTypeCorrect == BudgetSpec => []BudgetTypeOK
<1>1. BudgetInv => BudgetTypeOK
  BY DEF BudgetInv, ChannelSem, BulkSem, Sem, BudgetTypeOK
<1> QED
  BY <1>1, BudgetInvariant, PTL

\* However many transfers, operations and queries share a connection, no permit is lost
\* or minted, no one waits while a permit is free, and the transfers together never
\* take or wait for every channel.
THEOREM BudgetSoundCorrect == BudgetSpec => []BudgetSound
<1>1. BudgetInv => PermitsExact
  <2> SUFFICES ASSUME BudgetInv PROVE PermitsExact
    OBVIOUS
  <2>1. /\ channelFree + Cardinality(Holding) = ChannelPermits
        /\ bulkFree + Cardinality(BulkHolding) = BulkPermits
        /\ channelQueue # <<>> => channelFree = 0
        /\ bulkQueue # <<>> => bulkFree = 0
        /\ IsInjective(channelQueue) /\ IsInjective(bulkQueue)
        /\ Range(channelQueue) = Waiting /\ Range(bulkQueue) = BulkWaiting
    BY DEF BudgetInv, ChannelSem, BulkSem, Sem
  <2>2. /\ \A r \in Requests : Waits(r, channelQueue) <=> request[r] = "channel"
        /\ \A r \in Transfers : Waits(r, bulkQueue) <=> request[r] = "bulk"
    BY <2>1 DEF Waits, Waiting, BulkWaiting
  <2> QED
    BY <2>1, <2>2 DEF PermitsExact, Holding, BulkHolding
<1>2. BudgetInv => TransfersLeaveRoom
  <2> SUFFICES ASSUME BudgetInv PROVE TransfersLeaveRoom
    OBVIOUS
  <2> DEFINE Ahead == {r \in Transfers : HoldsChannel(r) \/ Waits(r, channelQueue)}
  <2>1. Ahead \subseteq BulkHolding
    BY BudgetFacts DEF BudgetInv, ChannelSem, Sem, Waits, Waiting, BulkHolding, HoldsBulk, HoldsChannel
  <2>2. IsFiniteSet(BulkHolding)
    BY BudgetFacts, FS_Subset DEF BulkHolding
  <2>3. Cardinality(Ahead) <= Cardinality(BulkHolding) /\ Cardinality(Ahead) \in Nat
    BY <2>1, <2>2, FS_Subset, FS_CardinalityType
  <2>4. Cardinality(BulkHolding) <= BulkPermits
    BY <2>2, BudgetFacts, FS_CardinalityType DEF BudgetInv, BulkSem, Sem
  <2>5. Cardinality(Ahead) < ChannelPermits
    BY <2>2, <2>3, <2>4, BudgetFacts, FS_CardinalityType
  <2> QED
    BY <2>5 DEF TransfersLeaveRoom
<1> QED
  BY <1>1, <1>2, BudgetInvariant, PTL DEF BudgetSound

------------------------------------------------------------------------------
(* A local forward: who waits for the session, and what has gone with it.    *)

LockWaiters == {s \in Streams : at[s] = "lock"} \cup (IF loop = "lock" THEN {"loop"} ELSE {})

\* Who waits for the session is in its queue once; a stream that reports has an outcome; when the
\* stop has been carried out the session is down.
ForwardInv ==
  /\ Forward!TypeOK
  /\ IsInjective(lockQueue) /\ Range(lockQueue) = LockWaiters
  /\ \A s \in Streams : at[s] = "report" => outcome[s] # "none"
  /\ loop = "announce" => \A s \in acceptedStream : at[s] = "none"
  /\ loop \in {"tell", "ended"} => ~up

\* The count of a set is the same in the module and in its instance.
LEMMA SameCount == \A S : Forward!Cardinality(S) = Cardinality(S)
BY DEF Forward!Cardinality, Cardinality

\* Nothing waits for the session at first.
LEMMA ForwardInitInv == Forward!ForwardInit => ForwardInv
<1> SUFFICES ASSUME Forward!ForwardInit PROVE ForwardInv
  OBVIOUS
<1>1. Cardinality({}) = 0
  BY FS_EmptySet
<1>2. /\ <<[kind |-> "listening"]>> \in Seq(Forward!Event) /\ Len(<<[kind |-> "listening"]>>) <= 1
      /\ <<>> \in Seq(Streams \cup {"loop"})
  BY DEF Forward!Event
<1>3. Forward!TypeOK
  <2>1. stop \in BOOLEAN /\ up \in BOOLEAN
    BY DEF Forward!ForwardInit
  <2>2. Cardinality(acceptedStream) <= 1 /\ acceptedStream \subseteq Streams
    BY <1>1 DEF Forward!ForwardInit
  <2>3. events \in Seq(Forward!Event) /\ Len(events) <= 1 /\ lockQueue \in Seq(Streams \cup {"loop"})
    BY <1>2 DEF Forward!ForwardInit
  <2> QED
    BY <2>1, <2>2, <2>3, SameCount DEF Forward!ForwardInit, Forward!TypeOK
<1>4. IsInjective(lockQueue) /\ Range(lockQueue) = {} /\ LockWaiters = {}
  BY DEF Forward!ForwardInit, IsInjective, Range, LockWaiters
<1> QED
  BY <1>3, <1>4 DEF ForwardInv, Forward!ForwardInit

\* An event that is sent fits the channel; one that is received leaves it.
LEMMA EventFacts ==
  ASSUME events \in Seq(Forward!Event), Len(events) <= 1
  PROVE  /\ \A e \in Forward!Event : Forward!Send(e) => events' \in Seq(Forward!Event) /\ Len(events') <= 1
         /\ events # <<>> => Tail(events) \in Seq(Forward!Event) /\ Len(Tail(events)) <= 1
<1>1. ASSUME NEW e \in Forward!Event, Forward!Send(e)
      PROVE  events' \in Seq(Forward!Event) /\ Len(events') <= 1
  BY <1>1 DEF Forward!Send
<1> QED
  BY <1>1

\* Every step of a forward keeps its invariant.
LEMMA ForwardStepInv == ForwardInv /\ [Forward!ForwardNext]_forwardVars => ForwardInv'
<1> SUFFICES ASSUME ForwardInv, [Forward!ForwardNext]_forwardVars PROVE ForwardInv'
  OBVIOUS
<1> DEFINE Users == Streams \cup {"loop"}
<1>t. /\ loop \in {"select", "announce", "lock", "tell", "ended", "failed"}
      /\ acceptedStream \subseteq Streams /\ Cardinality(acceptedStream) <= 1
      /\ lockQueue \in Seq(Users)
      /\ at \in [Streams -> {"none", "lock", "pump", "half", "report", "done"}]
      /\ outcome \in [Streams -> {"none", "closed", "failed"}]
      /\ events \in Seq(Forward!Event) /\ Len(events) <= 1
  BY SameCount DEF ForwardInv, Forward!TypeOK
<1>b. stop \in BOOLEAN /\ up \in BOOLEAN
  BY SameCount DEF ForwardInv, Forward!TypeOK
<1>i. /\ IsInjective(lockQueue) /\ Range(lockQueue) = LockWaiters
      /\ \A s \in Streams : at[s] = "report" => outcome[s] # "none"
      /\ loop = "announce" => \A s \in acceptedStream : at[s] = "none"
      /\ loop \in {"tell", "ended"} => ~up
  BY DEF ForwardInv
<1>a. "loop" \notin Streams
  BY ForwardAssumption
\* A step that touches neither the queue nor the streams' places in it.
<1>q. ASSUME UNCHANGED lockQueue, (loop' = "lock") <=> (loop = "lock"),
             \A s \in Streams : (at'[s] = "lock") <=> (at[s] = "lock")
      PROVE  IsInjective(lockQueue') /\ Range(lockQueue') = LockWaiters'
  BY <1>i, <1>q DEF LockWaiters
<1>h. ASSUME UNCHANGED <<lockQueue, at, outcome>>, (loop' = "lock") <=> (loop = "lock")
      PROVE  IsInjective(lockQueue') /\ Range(lockQueue') = LockWaiters'
  BY <1>h, <1>q
<1>1. CASE Forward!Receive
  <2>1. events' \in Seq(Forward!Event) /\ Len(events') <= 1
    BY <1>1, <1>t, EventFacts DEF Forward!Receive
  <2> QED
    BY <1>1, <1>t, <1>i, <1>h, <2>1, SameCount DEF Forward!Receive, ForwardInv, Forward!TypeOK
<1>2. CASE Forward!RequestStop \/ Forward!AcceptFails \/ Forward!Break
  <2>1. /\ loop' \in {loop, "failed"} /\ (loop' = loop \/ loop = "select")
        /\ UNCHANGED <<acceptedStream, lockQueue, at, outcome, events>>
    BY <1>2 DEF Forward!RequestStop, Forward!AcceptFails, Forward!Break
  <2>2. stop' \in BOOLEAN /\ up' \in BOOLEAN
    BY <1>2, <1>b DEF Forward!RequestStop, Forward!AcceptFails, Forward!Break
  <2>3. up' = up \/ up' = FALSE
    BY <1>2 DEF Forward!RequestStop, Forward!AcceptFails, Forward!Break
  <2>4. loop' \in {"tell", "ended"} => ~up'
    BY <1>i, <2>1, <2>3
  <2>5. Forward!TypeOK'
    BY <1>t, <2>1, <2>2, SameCount DEF Forward!TypeOK
  <2>6. IsInjective(lockQueue') /\ Range(lockQueue') = LockWaiters'
    BY <1>h, <2>1
  <2> QED
    BY <1>i, <2>1, <2>4, <2>5, <2>6 DEF ForwardInv
<1>3. CASE Forward!Announce
  <2>1. PICK s \in acceptedStream : /\ Forward!Send([kind |-> "accepted", of |-> s])
                                    /\ at' = [at EXCEPT ![s] = "lock"]
                                    /\ lockQueue' = Append(lockQueue, s)
    BY <1>3 DEF Forward!Announce
  <2>2. s \in Streams /\ at[s] = "none" /\ [kind |-> "accepted", of |-> s] \in Forward!Event
    BY <1>3, <1>t, <1>i, <2>1 DEF Forward!Event, Forward!Announce
  <2>3. events' \in Seq(Forward!Event) /\ Len(events') <= 1
    BY <1>t, <2>1, <2>2, EventFacts
  <2>4. s \notin Range(lockQueue) /\ s \in Users
    BY <1>i, <1>a, <2>2 DEF LockWaiters
  <2>5. /\ lockQueue' \in Seq(Users) /\ IsInjective(lockQueue')
        /\ Range(lockQueue') = Range(lockQueue) \cup {s}
    BY <1>t, <1>i, <2>1, <2>4, AppendFacts
  <2>6. /\ at' \in [Streams -> {"none", "lock", "pump", "half", "report", "done"}]
        /\ at'[s] = "lock" /\ \A x \in Streams \ {s} : at'[x] = at[x]
        /\ loop = "announce" /\ loop' = "select" /\ acceptedStream' = {} /\ UNCHANGED <<stop, up, outcome>>
    BY <1>3, <1>t, <2>1, <2>2 DEF Forward!Announce
  <2>7. Range(lockQueue') = LockWaiters'
    BY <1>i, <2>2, <2>5, <2>6 DEF LockWaiters
  <2>8. Cardinality(acceptedStream') <= 1
    BY <2>6, FS_EmptySet
  <2> QED
    BY <1>t, <1>i, <2>3, <2>5, <2>6, <2>7, <2>8, SameCount DEF ForwardInv, Forward!TypeOK
<1>4. CASE Forward!StopTaken
  <2>1. "loop" \notin Range(lockQueue) /\ "loop" \in Users
    BY <1>4, <1>i, <1>a DEF LockWaiters, Forward!StopTaken
  <2>2. lockQueue' \in Seq(Users) /\ IsInjective(lockQueue') /\ Range(lockQueue') = Range(lockQueue) \cup {"loop"}
    BY <1>4, <1>t, <1>i, <2>1, AppendFacts DEF Forward!StopTaken
  <2>3. loop = "select" /\ loop' = "lock" /\ UNCHANGED <<acceptedStream, stop, up, at, outcome, events>>
    BY <1>4 DEF Forward!StopTaken
  <2>4. Range(lockQueue') = LockWaiters'
    BY <1>i, <2>2, <2>3 DEF LockWaiters
  <2> QED
    BY <1>t, <1>i, <2>2, <2>3, <2>4, SameCount DEF ForwardInv, Forward!TypeOK
<1>5. CASE Forward!Disconnect
  <2>1. lockQueue # <<>>
    BY <1>5, <1>i DEF LockWaiters, Forward!Disconnect, Range
  <2>2. /\ lockQueue' \in Seq(Users) /\ IsInjective(lockQueue')
        /\ Range(lockQueue) = {"loop"} \cup Range(lockQueue') /\ "loop" \notin Range(lockQueue')
    BY <1>5, <1>t, <1>i, <2>1, TailFacts DEF Forward!Disconnect
  <2>3. /\ loop = "lock" /\ loop' = "tell" /\ up' = FALSE
        /\ UNCHANGED <<acceptedStream, stop, at, outcome, events>>
    BY <1>5 DEF Forward!Disconnect
  <2>4. Range(lockQueue') = LockWaiters'
    BY <1>i, <1>a, <2>2, <2>3 DEF LockWaiters
  <2> QED
    BY <1>t, <1>i, <2>2, <2>3, <2>4, SameCount DEF ForwardInv, Forward!TypeOK
<1>6. CASE Forward!TellStopped
  <2>1. [kind |-> "stopped"] \in Forward!Event
    BY DEF Forward!Event
  <2>2. events' \in Seq(Forward!Event) /\ Len(events') <= 1
    BY <1>6, <1>t, <2>1, EventFacts DEF Forward!TellStopped
  <2> QED
    BY <1>6, <1>t, <1>i, <1>h, <2>2, SameCount DEF Forward!TellStopped, ForwardInv, Forward!TypeOK
<1>7. ASSUME NEW s \in Streams, Forward!Accept(s) PROVE ForwardInv'
  <2>1. /\ loop = "select" /\ at[s] = "none" /\ loop' = "announce" /\ acceptedStream' = {s}
        /\ UNCHANGED <<stop, lockQueue, up, at, outcome, events>>
    BY <1>7 DEF Forward!Accept
  <2>2. Cardinality(acceptedStream') = 1
    BY <2>1, FS_Singleton
  <2> QED
    BY <1>t, <1>i, <1>h, <2>1, <2>2, SameCount DEF ForwardInv, Forward!TypeOK
<1>8. ASSUME NEW s \in Streams, Forward!OpenChannel(s) PROVE ForwardInv'
  <2>1. /\ at[s] = "lock" /\ Head(lockQueue) = s /\ lockQueue' = Tail(lockQueue)
        /\ UNCHANGED <<loop, acceptedStream, stop, up, events>>
        /\ \/ at' = [at EXCEPT ![s] = "pump"] /\ UNCHANGED outcome
           \/ at' = [at EXCEPT ![s] = "report"] /\ outcome' = [outcome EXCEPT ![s] = "failed"]
    BY <1>8 DEF Forward!OpenChannel
  <2>2. lockQueue # <<>>
    BY <1>i, <2>1 DEF LockWaiters, Range
  <2>3. /\ lockQueue' \in Seq(Users) /\ IsInjective(lockQueue')
        /\ Range(lockQueue) = {s} \cup Range(lockQueue') /\ s \notin Range(lockQueue')
    BY <1>t, <1>i, <2>1, <2>2, TailFacts
  <2>4. /\ at' \in [Streams -> {"none", "lock", "pump", "half", "report", "done"}]
        /\ at'[s] \in {"pump", "report"} /\ \A x \in Streams \ {s} : at'[x] = at[x]
        /\ outcome' \in [Streams -> {"none", "closed", "failed"}]
        /\ \A x \in Streams \ {s} : outcome'[x] = outcome[x]
        /\ at'[s] = "report" => outcome'[s] = "failed"
    BY <1>t, <2>1
  <2>5. Range(lockQueue') = LockWaiters'
    BY <1>i, <1>a, <2>1, <2>3, <2>4 DEF LockWaiters
  <2>6. loop' = "announce" => \A x \in acceptedStream' : at'[x] = "none"
    BY <1>t, <1>i, <2>1, <2>4
  <2> QED
    BY <1>t, <1>i, <2>1, <2>3, <2>4, <2>5, <2>6, SameCount DEF ForwardInv, Forward!TypeOK
<1>9. ASSUME NEW s \in Streams, Forward!LocalEof(s) \/ Forward!PumpEnds(s) \/ Forward!Report(s) PROVE ForwardInv'
  <2>1. /\ at[s] \in {"pump", "half", "report"} /\ UNCHANGED <<loop, acceptedStream, stop, lockQueue, up>>
        /\ \E x \in {"half", "report", "done"} :
              /\ at' = [at EXCEPT ![s] = x]
              /\ x = "report" => at[s] \in {"pump", "half"}
        /\ \/ UNCHANGED outcome /\ at'[s] # "report"
           \/ outcome' \in {[outcome EXCEPT ![s] = "closed"], [outcome EXCEPT ![s] = "failed"]}
    BY <1>9, <1>t DEF Forward!LocalEof, Forward!PumpEnds, Forward!Report
  <2>2. /\ at' \in [Streams -> {"none", "lock", "pump", "half", "report", "done"}]
        /\ at'[s] \in {"half", "report", "done"} /\ \A x \in Streams \ {s} : at'[x] = at[x]
        /\ outcome' \in [Streams -> {"none", "closed", "failed"}]
        /\ \A x \in Streams \ {s} : outcome'[x] = outcome[x]
        /\ at'[s] = "report" => outcome'[s] # "none"
    BY <1>t, <2>1
  <2>3. events' \in Seq(Forward!Event) /\ Len(events') <= 1
    <3>1. CASE UNCHANGED events
      BY <1>t, <3>1
    <3>2. CASE Forward!Report(s)
      <4>1. [kind |-> outcome[s], of |-> s] \in Forward!Event
        <5>1. at[s] = "report"
          BY <3>2 DEF Forward!Report
        <5>2. outcome[s] \in {"closed", "failed"}
          BY <1>t, <1>i, <5>1
        <5> QED
          BY <5>2 DEF Forward!Event
      <4> QED
        BY <1>t, <3>2, <4>1, EventFacts DEF Forward!Report
    <3> QED
      BY <1>9, <3>1, <3>2 DEF Forward!LocalEof, Forward!PumpEnds
  <2>4. IsInjective(lockQueue') /\ Range(lockQueue') = LockWaiters'
    BY <1>q, <2>1, <2>2
  <2>5. loop' = "announce" => \A x \in acceptedStream' : at'[x] = "none"
    BY <1>t, <1>i, <2>1, <2>2
  <2> QED
    BY <1>t, <1>i, <2>1, <2>2, <2>3, <2>4, <2>5, SameCount DEF ForwardInv, Forward!TypeOK
<1>10. CASE UNCHANGED forwardVars
  BY <1>10, <1>t, <1>i, <1>h, SameCount DEF forwardVars, ForwardInv, Forward!TypeOK
<1> QED
  BY <1>1, <1>2, <1>3, <1>4, <1>5, <1>6, <1>7, <1>8, <1>9, <1>10 DEF Forward!ForwardNext

\* With the session down no channel is opened any more.
OpensBefore == \A s \in Streams : at[s] = "lock" /\ at'[s] = "pump" => loop \notin {"tell", "ended"}

\* A step that opens a channel has the session up, so the stop is not carried out yet.
LEMMA OpensStep == ForwardInv /\ [Forward!ForwardNext]_forwardVars => [OpensBefore]_forwardVars
<1> SUFFICES ASSUME ForwardInv, Forward!ForwardNext, NEW s \in Streams, at[s] = "lock", at'[s] = "pump"
             PROVE  up
  BY DEF ForwardInv, OpensBefore
<1>1. at \in [Streams -> {"none", "lock", "pump", "half", "report", "done"}]
  BY DEF ForwardInv, Forward!TypeOK
<1>2. PICK x \in Streams : Forward!OpenChannel(x)
  BY <1>1 DEF Forward!ForwardNext, Forward!Receive, Forward!RequestStop, Forward!AcceptFails, Forward!Announce,
              Forward!StopTaken, Forward!Disconnect, Forward!TellStopped, Forward!Break, Forward!Accept,
              Forward!LocalEof, Forward!PumpEnds, Forward!Report
<1> QED
  BY <1>1, <1>2 DEF Forward!OpenChannel

------------------------------------------------------------------------------
(* A client process: which host a target names, and what it reports.         *)

\* The stored ids are the numbers from one on; a process that dials has the credential it was given.
ClientInv ==
  /\ Client!TypeOK
  /\ IsFiniteSet(hosts) /\ {h.id : h \in hosts} = 1 .. Cardinality(hosts)
  /\ place \in {"raw", "remote"} => command.given = (IF auth = "agent" THEN {} ELSE {auth})

\* The count of a set is the same in this instance too.
LEMMA ClientCount == \A S : Client!Cardinality(S) = Cardinality(S)
BY DEF Client!Cardinality, Cardinality

\* A target names a stored host or stands for itself.
LEMMA ResolveFacts ==
  ASSUME hosts \subseteq Client!Profile, NEW target \in Client!Names
  PROVE  Client!Resolve(target) \in Client!Profile
<1> DEFINE found == {h \in hosts : Client!Matches(h, target)}
           First(h) == \A g \in found : h.name < g.name \/ (h.name = g.name /\ h.id <= g.id)
<1>1. CASE found = {}
  <2>1. Client!Resolve(target) = Client!Direct(target)
    BY <1>1 DEF Client!Resolve
  <2> QED
    BY <2>1 DEF Client!Direct, Client!Profile, Client!Names
<1>2. CASE found # {}
  <2>1. \A h \in found : h.name \in {1, 2} /\ h.id \in 0 .. 2
    BY DEF Client!Profile, Client!Names
  <2> DEFINE Key(h) == h.name * 3 + h.id
             S == {Key(h) : h \in found}
  <2>2. S \in SUBSET Nat /\ S # {}
    BY <1>2, <2>1
  <2>3. PICK m \in S : \A k \in S : m <= k
    BY <2>2, LeastOf
  <2>4. PICK h \in found : m = Key(h)
    BY <2>3
  <2>5. First(h)
    <3> SUFFICES ASSUME NEW g \in found PROVE h.name < g.name \/ (h.name = g.name /\ h.id <= g.id)
      OBVIOUS
    <3>1. Key(h) <= Key(g)
      BY <2>3, <2>4
    <3>2. h.name \in {1, 2} /\ h.id \in 0 .. 2 /\ g.name \in {1, 2} /\ g.id \in 0 .. 2
      BY <2>1
    <3> QED
      BY <3>1, <3>2
  <2>6. Client!Resolve(target) = CHOOSE x \in found : First(x)
    BY <1>2 DEF Client!Resolve
  <2> HIDE DEF First
  <2>7. (CHOOSE x \in found : First(x)) \in found
    BY <2>5
  <2> QED
    BY <2>6, <2>7
<1> QED
  BY <1>1, <1>2

\* One credential at most is the one, or none.
LEMMA CredentialFacts ==
  ASSUME NEW given \in SUBSET Client!Sources, Client!Settled(given),
         NEW x \in IF given = {} THEN {"agent"} ELSE given
  PROVE  given = (IF x = "agent" THEN {} ELSE {x})
<1>1. IsFiniteSet(Client!Sources) /\ "agent" \notin Client!Sources
  <2>1. \A e : IsFiniteSet({e})
    BY FS_Singleton
  <2>2. IsFiniteSet({"password"} \cup {"env"}) /\ IsFiniteSet({"stdin"} \cup {"key"})
    BY <2>1, FS_Union
  <2>3. IsFiniteSet(({"password"} \cup {"env"}) \cup ({"stdin"} \cup {"key"}))
    BY <2>2, FS_Union
  <2>4. Client!Sources = ({"password"} \cup {"env"}) \cup ({"stdin"} \cup {"key"})
    BY DEF Client!Sources
  <2> QED
    BY <2>3, <2>4 DEF Client!Sources
<1>2. IsFiniteSet(given) /\ Cardinality(given) <= 1 /\ Cardinality(given) \in Nat
  BY <1>1, ClientCount, FS_Subset, FS_CardinalityType DEF Client!Settled
<1>3. CASE given = {}
  BY <1>3
<1>4. CASE given # {}
  <2>1. Cardinality(given) = 1
    BY <1>2, <1>4, FS_EmptySet
  <2>2. given = {x}
    BY <1>2, <1>4, <2>1, FS_Singleton
  <2> QED
    BY <1>1, <1>4, <2>2
<1> QED
  BY <1>3, <1>4

\* No host is stored at first.
LEMMA ClientInitInv == Client!CliInit => ClientInv
<1> SUFFICES ASSUME Client!CliInit PROVE ClientInv
  OBVIOUS
<1>1. hosts = {} /\ IsFiniteSet(hosts) /\ Cardinality(hosts) = 0
  BY FS_EmptySet DEF Client!CliInit
<1>2. Client!TypeOK
  BY <1>1 DEF Client!CliInit, Client!TypeOK, Client!Ask, Client!Remote, Client!Names, Client!Sources, Client!Direct,
              Client!Profile
<1> QED
  BY <1>1, <1>2 DEF ClientInv, Client!CliInit

\* A stored host gets the next id.
LEMMA SaveFacts ==
  ASSUME ClientInv, Cardinality(hosts) < 2, NEW n \in Client!Names, NEW a \in Client!Names,
         hosts' = hosts \cup {[id |-> Cardinality(hosts) + 1, name |-> n, host |-> a]}
  PROVE  /\ hosts' \subseteq Client!Profile /\ \A h, g \in hosts' : h.id = g.id => h = g
         /\ IsFiniteSet(hosts') /\ {h.id : h \in hosts'} = 1 .. Cardinality(hosts')
<1> DEFINE c == Cardinality(hosts)
           new == [id |-> c + 1, name |-> n, host |-> a]
<1>1. /\ hosts \subseteq Client!Profile /\ IsFiniteSet(hosts) /\ c \in Nat
      /\ {h.id : h \in hosts} = 1 .. c /\ \A h, g \in hosts : h.id = g.id => h = g
  BY FS_CardinalityType DEF ClientInv, Client!TypeOK
<1>2. new.id = c + 1 /\ new \in Client!Profile
  BY <1>1 DEF Client!Profile
<1>3. hosts' = hosts \cup {new}
  OBVIOUS
<1> HIDE DEF c, new
<1>4. \A h \in hosts : h.id # c + 1
  <2>1. \A h \in hosts : h.id \in 1 .. c
    BY <1>1
  <2> QED
    BY <1>1, <2>1
<1>5. new \notin hosts
  BY <1>2, <1>4
<1>6. IsFiniteSet(hosts') /\ Cardinality(hosts') = c + 1
  <2>1. IsFiniteSet(hosts \cup {new}) /\ Cardinality(hosts \cup {new}) = Cardinality(hosts) + 1
    BY <1>1, <1>5, FS_AddElement
  <2> QED
    BY <1>3, <2>1 DEF c
<1>7. {h.id : h \in hosts'} = 1 .. c + 1
  <2>1. {h.id : h \in hosts'} = (1 .. c) \cup {c + 1}
    BY <1>1, <1>2, <1>3
  <2> QED
    BY <1>1, <2>1
<1> QED
  BY <1>1, <1>2, <1>3, <1>4, <1>6, <1>7

\* The stored hosts have the ids from one on, one each.
HostsOK(hs) ==
  /\ hs \subseteq Client!Profile /\ IsFiniteSet(hs)
  /\ \A h, g \in hs : h.id = g.id => h = g
  /\ {h.id : h \in hs} = 1 .. Cardinality(hs)

\* The invariant, part by part.
LEMMA ClientParts ==
  ASSUME HostsOK(hosts)', command' \in Client!Ask, profile' \in Client!Profile,
         auth' \in Client!Sources \cup {"agent"}, file' \in {"absent", "torn", "whole"},
         place' \in {"start", "options", "raw", "remote", "write", "exited"},
         tty' \in {"cooked", "raw"}, exit' \in 0 .. 255,
         place' \in {"raw", "remote"} => command'.given = (IF auth' = "agent" THEN {} ELSE {auth'})
  PROVE  ClientInv'
BY DEF ClientInv, Client!TypeOK, HostsOK

\* Every step of a client process keeps the invariant.
LEMMA ClientStepInv == ClientInv /\ [Client!CliNext]_clientVars => ClientInv'
<1> SUFFICES ASSUME ClientInv, [Client!CliNext]_clientVars PROVE ClientInv'
  OBVIOUS
<1>t. /\ hosts \subseteq Client!Profile /\ \A h, g \in hosts : h.id = g.id => h = g
      /\ place \in {"start", "options", "raw", "remote", "write", "exited"}
      /\ command \in Client!Ask /\ profile \in Client!Profile /\ auth \in Client!Sources \cup {"agent"}
      /\ tty \in {"cooked", "raw"} /\ file \in {"absent", "torn", "whole"} /\ exit \in 0 .. 255
  BY DEF ClientInv, Client!TypeOK
<1>i. /\ IsFiniteSet(hosts) /\ {h.id : h \in hosts} = 1 .. Cardinality(hosts)
      /\ place \in {"raw", "remote"} => command.given = (IF auth = "agent" THEN {} ELSE {auth})
  BY DEF ClientInv
<1>h. HostsOK(hosts)
  BY <1>t, <1>i DEF HostsOK
<1>c. command.target \in Client!Names /\ command.given \in SUBSET Client!Sources
  BY <1>t DEF Client!Ask
\* The process returns or exits.
<1>e. /\ Client!Return(0) \/ Client!Return(1) => place' = "exited" /\ tty' = "cooked" /\ exit' \in 0 .. 1
      /\ Client!Quit(0) \/ Client!Quit(1) \/ Client!Quit(255) \/ Client!Quit(256)
           => place' = "exited" /\ tty' = tty /\ exit' \in 0 .. 255
  BY DEF Client!Return, Client!Quit
\* One that keeps the hosts.
<1>k. ASSUME UNCHANGED hosts PROVE HostsOK(hosts)'
  BY <1>h, <1>k DEF HostsOK
<1>1. CASE Client!SaveHost
  <2>3. command' \in Client!Ask /\ profile' = profile /\ auth' = auth /\ file' = file
    BY <1>1, <1>t DEF Client!SaveHost
  <2>1. CASE \E n, h \in Client!Names : hosts' = hosts \cup {[id |-> Client!Cardinality(hosts) + 1, name |-> n, host |-> h]}
    <3>1. PICK n \in Client!Names, a \in Client!Names :
            hosts' = hosts \cup {[id |-> Cardinality(hosts) + 1, name |-> n, host |-> a]}
      BY <2>1, ClientCount
    <3>2. Cardinality(hosts) < 2
      BY <1>1, ClientCount DEF Client!SaveHost
    <3>3. HostsOK(hosts)'
      BY <3>1, <3>2, SaveFacts DEF HostsOK
    <3>4. UNCHANGED <<command, profile, auth, file>> /\ place = "start"
      BY <1>1 DEF Client!SaveHost
    <3>5. CASE UNCHANGED <<place, tty, exit>>
      <4>1. place' = "start" /\ tty' \in {"cooked", "raw"} /\ exit' \in 0 .. 255
        BY <1>t, <3>4, <3>5
      <4> QED
        BY <1>t, <2>3, <3>3, <4>1, ClientParts
    <3>6. CASE Client!Return(1)
      <4>1. place' = "exited" /\ tty' \in {"cooked", "raw"} /\ exit' \in 0 .. 255
        BY <1>e, <3>6
      <4> QED
        BY <1>t, <2>3, <3>3, <4>1, ClientParts
    <3> QED
      BY <1>1, <3>5, <3>6 DEF Client!SaveHost
  <2>2. CASE Client!Return(1) /\ UNCHANGED hosts
    <3>1. place' = "exited" /\ tty' \in {"cooked", "raw"} /\ exit' \in 0 .. 255
      BY <1>e, <2>2
    <3>2. HostsOK(hosts)'
      BY <1>k, <2>2
    <3> QED
      BY <1>t, <2>3, <3>1, <3>2, ClientParts
  <2> QED
    BY <1>1, <2>1, <2>2 DEF Client!SaveHost
<1>2. CASE Client!Begin
  <2>1. /\ command' \in Client!Ask /\ UNCHANGED <<hosts, profile, auth, file>>
        /\ (place' = "options" /\ UNCHANGED <<tty, exit>>) \/ Client!Return(1)
    BY <1>2 DEF Client!Begin, Client!Return
  <2>2. place' \in {"options", "exited"} /\ tty' \in {"cooked", "raw"} /\ exit' \in 0 .. 255
    BY <1>t, <1>e, <2>1
  <2> QED
    BY <1>t, <1>k, <2>1, <2>2, ClientParts
<1>3. CASE Client!SshOptions
  <2>1. profile' \in Client!Profile /\ UNCHANGED <<hosts, command, file>>
    BY <1>3, <1>t, <1>c, ResolveFacts DEF Client!SshOptions
  <2>2. CASE Client!Return(1) /\ UNCHANGED auth
    <3>1. place' = "exited" /\ tty' \in {"cooked", "raw"} /\ exit' \in 0 .. 255
      BY <1>e, <2>2
    <3> QED
      BY <1>t, <1>k, <2>1, <2>2, <3>1, ClientParts
  <2>3. CASE /\ Client!Settled(command.given)
             /\ auth' \in (IF command.given = {} THEN {"agent"} ELSE command.given)
             /\ place' = (IF command.do = "shell" THEN "raw" ELSE "remote")
             /\ UNCHANGED <<tty, exit>>
    <3>1. command.given = (IF auth' = "agent" THEN {} ELSE {auth'})
      BY <1>c, <2>3, CredentialFacts
    <3>2. auth' \in Client!Sources \cup {"agent"}
      BY <1>c, <2>3
    <3>3. place' \in {"raw", "remote"} /\ tty' \in {"cooked", "raw"} /\ exit' \in 0 .. 255
      BY <1>t, <2>3
    <3> QED
      BY <1>t, <1>k, <2>1, <3>1, <3>2, <3>3, ClientParts
  <2> QED
    BY <1>3, <2>2, <2>3 DEF Client!SshOptions
<1>4. CASE Client!Raw
  <2>1. UNCHANGED <<hosts, command, profile, auth, file>> /\ place = "raw"
    BY ONLY <1>4, Zenon DEF Client!Raw
  <2>2. \/ place' = "remote" /\ tty' = "raw" /\ UNCHANGED exit
        \/ Client!Return(1)
    BY <1>4 DEF Client!Raw, Client!Return
  <2>3. place' \in {"remote", "exited"} /\ tty' \in {"cooked", "raw"} /\ exit' \in 0 .. 255
    BY <1>t, <1>e, <2>2
  <2> QED
    BY <1>t, <1>i, <1>k, <2>1, <2>3, ClientParts
<1>5. CASE Client!RunRemote
  <2>1. UNCHANGED <<hosts, command, profile, auth, file>>
    BY ONLY <1>5, Zenon DEF Client!RunRemote
  <2>2. \/ Client!Return(1) \/ Client!Return(0) \/ Client!Quit(0) \/ Client!Quit(1) \/ Client!Quit(255) \/ Client!Quit(256)
        \/ (place' = "write" /\ UNCHANGED <<tty, exit>>)
    BY <1>5 DEF Client!RunRemote, Client!Return, Client!Quit
  <2>3. place' \in {"write", "exited"} /\ tty' \in {"cooked", "raw"} /\ exit' \in 0 .. 255
    BY <1>t, <1>e, <2>2
  <2> QED
    BY <1>t, <1>i, <1>k, <2>1, <2>3, ClientParts
<1>6. CASE Client!WriteLocal
  <2>1. UNCHANGED <<hosts, command, profile, auth>> /\ (Client!Return(0) \/ Client!Return(1))
        /\ file' \in {file, "whole", "torn"}
    BY <1>6 DEF Client!WriteLocal, Client!Return
  <2>2. place' = "exited" /\ tty' \in {"cooked", "raw"} /\ exit' \in 0 .. 255
    BY <1>e, <2>1
  <2> QED
    BY <1>t, <1>k, <2>1, <2>2, ClientParts
<1>7. CASE UNCHANGED clientVars
  BY <1>7, <1>t, <1>i DEF clientVars, ClientInv, Client!TypeOK
<1> QED
  BY <1>1, <1>2, <1>3, <1>4, <1>5, <1>6, <1>7 DEF Client!CliNext

\* A step that touches the local file is the write, and reports a torn one.
ReportsTorn == file' # file => place = "write" /\ (file' = "torn" => exit' # 0)

\* Only the write touches the local file, and a torn one is a failure.
LEMMA ReportStep == [Client!CliNext]_clientVars => [ReportsTorn]_clientVars
<1> SUFFICES ASSUME Client!CliNext PROVE ReportsTorn
  OBVIOUS
<1>1. CASE Client!WriteLocal
  BY <1>1 DEF Client!WriteLocal, Client!Return, ReportsTorn
<1> QED
  BY <1>1 DEF Client!CliNext, Client!SaveHost, Client!Begin, Client!SshOptions, Client!Raw, Client!RunRemote, ReportsTorn

------------------------------------------------------------------------------
(* The machines together: each keeps its invariant, and the steps of the    *)
(* others leave its variables alone.                                        *)

SshInv == ConnectInv /\ BudgetInv /\ ForwardInv /\ ClientInv

\* A step of the run is one step or none of each machine.
LEMMA WhoSteps ==
  [MCNext]_<<machine, connectVars, budgetVars, forwardVars, clientVars>> =>
    /\ [ConnectNext]_connectVars /\ [BudgetNext]_budgetVars
    /\ [Forward!ForwardNext]_forwardVars /\ [Client!CliNext]_clientVars
BY DEF MCNext, OfConnect, OfBudget, OfForward, OfClient

\* Every reachable state of the run satisfies the invariants of all machines.
LEMMA Invariant == MCSpec => []SshInv
<1>1. MCInit => SshInv
  BY ConnectInitInv, BudgetInitInv, ForwardInitInv, ClientInitInv DEF MCInit, SshInv
<1>2. SshInv /\ [MCNext]_<<machine, connectVars, budgetVars, forwardVars, clientVars>> => SshInv'
  BY WhoSteps, ConnectStepInv, BudgetStepInv, ForwardStepInv, ClientStepInv DEF SshInv
<1> QED
  BY <1>1, <1>2, PTL DEF MCSpec

\* Every reachable state of the dials, the budget, a forward and the client is well formed.
THEOREM SshTypesCorrect == MCSpec => []SshTypesOK
<1>1. SshInv => SshTypesOK
  <2>1. ConnectInv => TypeOK
    BY DEF ConnectInv, FileOK, DialOK, ChallengeOK, HopOK, DialRecords, TypeOK
  <2>2. BudgetInv => BudgetTypeOK
    BY BudgetFacts DEF BudgetInv, ChannelSem, BulkSem, Sem, BudgetTypeOK
  <2> QED
    BY <2>1, <2>2 DEF SshInv, ForwardInv, ClientInv, SshTypesOK
<1> QED
  BY <1>1, Invariant, PTL

\* No step goes back on what a dial, a forward or a client process promised: a key accepted is not
\* asked about again, success is whole, no channel is opened after the stop is carried out, a torn
\* download is a failure, and a host sees the one credential that was given.
THEOREM StepsSoundCorrect == MCSpec => StepsSound
<1>1. /\ SshInv /\ [MCNext]_<<machine, connectVars, budgetVars, forwardVars, clientVars>>
           => /\ [AsksAnew]_connectVars /\ [StaysFailed]_connectVars
              /\ [OpensBefore]_Forward!forwardVars /\ [ReportsTorn]_Client!cliVars
  BY WhoSteps, AsksStep, FailedStep, OpensStep, ReportStep
     DEF SshInv, forwardVars, clientVars, Forward!forwardVars, Client!cliVars
<1>2. SshInv => Client!OneCredential
  BY DEF SshInv, ClientInv, Client!OneCredential
<1> QED
  BY <1>1, <1>2, Invariant, PTL DEF MCSpec, StepsSound, NeverAskedAgain, SuccessIsWhole, AsksAnew, StaysFailed,
     OpensBefore, ReportsTorn, Forward!StoppedOpensNothing, Client!DownloadReported
------------------------------------------------------------------------------
(* The connection pool, for every number of callers, every capacity and     *)
(* every number of faults.  PoolTypeOK is inductive; Control says what each *)
(* task holds where it is; OneOwner is inductive with the two; the permit   *)
(* and the lease counts, and the refinement of PoolLease, follow.           *)

\* Abbreviations that say nothing by themselves are expanded everywhere.
USE DEF callerVars, connVars, statVars, healthVars, MoveTo, Hold, Drop

\* What a task holds where it is, and which lock its place implies.
AtWork == {"ping", "alive", "dead", "count", "dialed", "using"}
Control ==
  /\ \A c \in Callers : conn[c] # NoConn <=> pc[c] \in AtWork
  /\ \A c \in hasPermit : pc[c] \notin {"idle", "wait", "dialed", "using"}
  /\ \A c \in Callers : pc[c] = "dial" => c \in hasPermit
  /\ \A k \in Conns : ret[k] = "stats" => k \in Range(pool)
  /\ spc = "drain" => \A k \in Conns : ret[k] # "stats"
  /\ hpc # "ping" => cand = <<>>
  /\ hpc \in {"sleep", "stopped"} => kept = <<>>

------------------------------------------------------------------------------
\* One step per action keeps the state well formed.
LEMMA PoolTypeStep == PoolTypeOK /\ [Next]_vars => PoolTypeOK'
<1> SUFFICES ASSUME PoolTypeOK, [Next]_vars PROVE PoolTypeOK'
  OBVIOUS
<1> USE DEF PoolTypeOK, PcStates
<1>1. ASSUME NEW c \in Callers, Acquire(c) PROVE PoolTypeOK'
  BY <1>1 DEF Acquire
<1>2. ASSUME NEW c \in Callers, PopIdle(c) PROVE PoolTypeOK'
  BY <1>2, FrontFacts DEF PopIdle
<1>3. ASSUME NEW c \in Callers, PopEmpty(c) PROVE PoolTypeOK'
  BY <1>3 DEF PopEmpty
<1>4. ASSUME NEW c \in Callers, NoneIdle(c) PROVE PoolTypeOK'
  BY <1>4 DEF NoneIdle
<1>5. ASSUME NEW c \in Callers, Ping(c) PROVE PoolTypeOK'
  BY <1>5 DEF Ping
<1>6. ASSUME NEW c \in Callers, EvictDead(c) PROVE PoolTypeOK'
  BY <1>6 DEF EvictDead
<1>7. ASSUME NEW c \in Callers, LockStats(c) PROVE PoolTypeOK'
  BY <1>7 DEF LockStats
<1>8. ASSUME NEW c \in Callers, Reuse(c) PROVE PoolTypeOK'
  BY <1>8 DEF Reuse
<1>9. ASSUME NEW c \in Callers, GotPermit(c) PROVE PoolTypeOK'
  BY <1>9 DEF GotPermit
<1>10. ASSUME NEW c \in Callers, AcquireTimeout(c) PROVE PoolTypeOK'
  BY <1>10 DEF AcquireTimeout
<1>11. ASSUME NEW c \in Callers, DialOk(c) PROVE PoolTypeOK'
  BY <1>11 DEF DialOk
<1>12. ASSUME NEW c \in Callers, DialFail(c) PROVE PoolTypeOK'
  BY <1>12 DEF DialFail
<1>13. ASSUME NEW c \in Callers, CountDialed(c) PROVE PoolTypeOK'
  BY <1>13 DEF CountDialed
<1>14. ASSUME NEW c \in Callers, Release(c) PROVE PoolTypeOK'
  BY <1>14 DEF Release
<1>15. ASSUME NEW c \in Callers, Abort(c) PROVE PoolTypeOK'
  <2>1. permits' \in Nat
    BY <1>15 DEF Abort
  <2>2. ret' \in [Conns -> {"none", "push", "stats"}]
    BY <1>15 DEF Abort
  <2>3. open' \in SUBSET Conns /\ answering' \in SUBSET open'
    BY <1>15 DEF Abort
  <2>4. pc' \in [Callers -> PcStates] /\ conn' \in [Callers -> Conns \cup {NoConn}]
    BY <1>15 DEF Abort
  <2> QED
    BY <1>15, <2>1, <2>2, <2>3, <2>4 DEF Abort
<1>16. ASSUME NEW k \in Conns, ReturnPush(k) PROVE PoolTypeOK'
  BY <1>16, AppendFacts DEF ReturnPush
<1>17. ASSUME NEW k \in Conns, ReturnStats(k) PROVE PoolTypeOK'
  BY <1>17 DEF ReturnStats
<1>18. ASSUME NEW k \in Conns, Die(k) PROVE PoolTypeOK'
  BY <1>18, PoolAssumption DEF Die
<1>19. CASE HealthTake
  BY <1>19, EmptyFacts DEF HealthTake
<1>20. CASE HealthKeep
  BY <1>20, AppendFacts, TailFacts DEF HealthKeep
<1>21. CASE HealthEvict
  BY <1>21, TailFacts DEF HealthEvict
<1>22. CASE HealthExtend
  BY <1>22, ConcatFacts DEF HealthExtend
<1>23. CASE HealthStats
  BY <1>23, EmptyFacts DEF HealthStats
<1>24. CASE HealthStop
  BY <1>24 DEF HealthStop
<1>25. CASE Teardown
  BY <1>25 DEF Teardown
<1>26. CASE ShutdownLock
  BY <1>26 DEF ShutdownLock
<1>27. CASE ShutdownDrain
  BY <1>27, TailFacts DEF ShutdownDrain
<1>28. CASE ShutdownDone
  BY <1>28 DEF ShutdownDone
<1>29. CASE FreePool
  BY <1>29, EmptyFacts DEF FreePool
<1>30. CASE Finished
  BY <1>30 DEF Finished, vars
<1>31. CASE UNCHANGED vars
  BY <1>31 DEF vars
<1> QED
  BY <1>1, <1>2, <1>3, <1>4, <1>5, <1>6, <1>7, <1>8, <1>9, <1>10, <1>11, <1>12, <1>13, <1>14,
     <1>15, <1>16, <1>17, <1>18, <1>19, <1>20, <1>21, <1>22, <1>23, <1>24, <1>25, <1>26,
     <1>27, <1>28, <1>29, <1>30, <1>31
     DEF Next, TakeIdle, Dial, Wait, Return, Health, Shutdown

\* The type invariant: every step of the pool keeps its state well formed.
THEOREM PoolTypeCorrect == Spec => []PoolTypeOK
<1>1. Init => PoolTypeOK
  BY PoolAssumption, EmptyFacts DEF Init, PoolTypeOK, PcStates
<1> QED
  BY <1>1, PoolTypeStep, PTL DEF Spec

------------------------------------------------------------------------------
\* A caller holds a connection exactly where its code does, a permit only where it
\* may, and the health check's lists are empty between rounds.
LEMMA ControlStep == PoolTypeOK /\ Control /\ [Next]_vars => Control'
<1> SUFFICES ASSUME PoolTypeOK, Control, [Next]_vars PROVE Control'
  OBVIOUS
<1> USE PoolAssumption DEF PoolTypeOK, PcStates, Control, AtWork
<1>1. ASSUME NEW c \in Callers, Acquire(c) PROVE Control'
  BY <1>1 DEF Acquire
<1>2. ASSUME NEW c \in Callers, PopIdle(c) PROVE Control'
  BY <1>2, FrontFacts DEF PopIdle, PoolLockFree
<1>3. ASSUME NEW c \in Callers, PopEmpty(c) PROVE Control'
  BY <1>3 DEF PopEmpty
<1>4. ASSUME NEW c \in Callers, NoneIdle(c) PROVE Control'
  BY <1>4 DEF NoneIdle
<1>5. ASSUME NEW c \in Callers, Ping(c) PROVE Control'
  BY <1>5 DEF Ping
<1>6. ASSUME NEW c \in Callers, EvictDead(c) PROVE Control'
  BY <1>6 DEF EvictDead
<1>7. ASSUME NEW c \in Callers, LockStats(c) PROVE Control'
  BY <1>7 DEF LockStats
<1>8. ASSUME NEW c \in Callers, Reuse(c) PROVE Control'
  BY <1>8 DEF Reuse
<1>9. ASSUME NEW c \in Callers, GotPermit(c) PROVE Control'
  BY <1>9 DEF GotPermit
<1>10. ASSUME NEW c \in Callers, AcquireTimeout(c) PROVE Control'
  BY <1>10 DEF AcquireTimeout
<1>11. ASSUME NEW c \in Callers, DialOk(c) PROVE Control'
  BY <1>11 DEF DialOk
<1>12. ASSUME NEW c \in Callers, DialFail(c) PROVE Control'
  BY <1>12 DEF DialFail
<1>13. ASSUME NEW c \in Callers, CountDialed(c) PROVE Control'
  BY <1>13 DEF CountDialed
<1>14. ASSUME NEW c \in Callers, Release(c) PROVE Control'
  BY <1>14 DEF Release
<1>15. ASSUME NEW c \in Callers, Abort(c) PROVE Control'
  BY <1>15 DEF Abort, Popped
<1>16. ASSUME NEW k \in Conns, ReturnPush(k) PROVE Control'
  BY <1>16, AppendFacts DEF ReturnPush, PoolLockFree
<1>17. ASSUME NEW k \in Conns, ReturnStats(k) PROVE Control'
  BY <1>17 DEF ReturnStats
<1>18. ASSUME NEW k \in Conns, Die(k) PROVE Control'
  BY <1>18 DEF Die
<1>19. CASE HealthTake
  BY <1>19, EmptyFacts DEF HealthTake, PoolLockFree
<1>20. CASE HealthKeep
  BY <1>20 DEF HealthKeep
<1>21. CASE HealthEvict
  BY <1>21, TailFacts DEF HealthEvict
<1>22. CASE HealthExtend
  BY <1>22, ConcatFacts DEF HealthExtend, PoolLockFree
<1>23. CASE HealthStats
  BY <1>23 DEF HealthStats
<1>24. CASE HealthStop
  BY <1>24 DEF HealthStop
<1>25. CASE Teardown
  BY <1>25 DEF Teardown
<1>26. CASE ShutdownLock
  BY <1>26 DEF ShutdownLock, PoolLockFree
<1>27. CASE ShutdownDrain
  BY <1>27 DEF ShutdownDrain
<1>28. CASE ShutdownDone
  BY <1>28 DEF ShutdownDone
<1>29. CASE FreePool
  BY <1>29 DEF FreePool
<1>30. CASE Finished
  BY <1>30 DEF Finished, vars
<1>31. CASE UNCHANGED vars
  BY <1>31 DEF vars
<1> QED
  BY <1>1, <1>2, <1>3, <1>4, <1>5, <1>6, <1>7, <1>8, <1>9, <1>10, <1>11, <1>12, <1>13, <1>14,
     <1>15, <1>16, <1>17, <1>18, <1>19, <1>20, <1>21, <1>22, <1>23, <1>24, <1>25, <1>26,
     <1>27, <1>28, <1>29, <1>30, <1>31
     DEF Next, TakeIdle, Dial, Wait, Return, Health, Shutdown

\* The places of the tasks agree with what they hold in every reachable state.
LEMMA ControlCorrect == Spec => []Control
<1>1. Init => Control
  BY PoolAssumption DEF Init, Control, AtWork
<1> QED
  BY <1>1, PoolTypeCorrect, ControlStep, PTL DEF Spec

------------------------------------------------------------------------------
\* A caller takes a connection nobody holds, or puts down the one it holds.
LEMMA TakeFacts ==
  ASSUME PoolTypeOK, Exclusive,
         NEW c \in Callers, NEW k \in Conns, k \notin Held, conn[c] = NoConn, Hold(c, k)
  PROVE  Exclusive' /\ Held' = Held \cup {k}
<1>1. \A d \in Callers : conn'[d] = IF d = c THEN k ELSE conn[d]
  BY DEF PoolTypeOK
<1>2. k # NoConn
  BY PoolAssumption
<1>3. \A d \in Callers : conn[d] # k
  BY <1>2 DEF Held
<1>4. Held' = Held \cup {k}
  <2>1. ASSUME NEW x \in Held' PROVE x \in Held \cup {k}
    BY <1>1 DEF Held
  <2>2. ASSUME NEW x \in Held PROVE x \in Held'
    BY <1>1 DEF Held
  <2>3. k \in Held'
    BY <1>1, <1>2 DEF Held
  <2> QED
    BY <2>1, <2>2, <2>3
<1>5. Exclusive'
  BY <1>1, <1>3 DEF Exclusive
<1> QED
  BY <1>4, <1>5

\* A caller puts down its connection; the others keep theirs.
LEMMA PutFacts ==
  ASSUME PoolTypeOK, Exclusive, NEW c \in Callers, Hold(c, NoConn)
  PROVE  Exclusive' /\ Held' = Held \ {conn[c]}
<1>1. \A d \in Callers : conn'[d] = IF d = c THEN NoConn ELSE conn[d]
  BY DEF PoolTypeOK
<1>2. Held' = Held \ {conn[c]}
  <2>1. ASSUME NEW x \in Held' PROVE x \in Held \ {conn[c]}
    <3>1. PICK d \in Callers : x = conn'[d] /\ x # NoConn
      BY DEF Held
    <3>2. d # c /\ x = conn[d]
      BY <1>1, <3>1
    <3> QED
      BY <3>1, <3>2 DEF Held, Exclusive
  <2>2. ASSUME NEW x \in Held \ {conn[c]} PROVE x \in Held'
    <3>1. PICK d \in Callers : x = conn[d] /\ x # NoConn
      BY DEF Held
    <3> QED
      BY <1>1, <2>2, <3>1 DEF Held
  <2> QED
    BY <2>1, <2>2
<1>3. Exclusive'
  BY <1>1 DEF Exclusive
<1> QED
  BY <1>2, <1>3

\* Steps that move no connection.
LEMMA OwnerFrame ==
  ASSUME PoolTypeOK, OneOwner, UNCHANGED <<pool, cand, conn, open>>,
         Surviving' = Surviving, Returning' = Returning,
         hpc' = "ping" => hpc = "ping" /\ kept' = kept
  PROVE  OneOwner'
<1>1. Held' = Held /\ Exclusive' = Exclusive
  BY DEF Held, Exclusive
<1> QED
  BY <1>1 DEF OneOwner

\* Every action that moves a connection moves it from one owner to one other.
LEMMA OwnerStep == PoolTypeOK /\ Control /\ OneOwner /\ [Next]_vars => OneOwner'
<1> SUFFICES ASSUME PoolTypeOK, Control, OneOwner, [Next]_vars PROVE OneOwner'
  OBVIOUS
<1>1. ASSUME NEW c \in Callers, Acquire(c) PROVE OneOwner'
  BY <1>1, OwnerFrame DEF Acquire, Surviving, Returning
<1>2. ASSUME NEW c \in Callers, PopIdle(c) PROVE OneOwner'
  <2> DEFINE k == pool[Len(pool)]
  <2>1. /\ pool \in Seq(Conns) /\ pool # <<>>
        /\ pool' = SubSeq(pool, 1, Len(pool) - 1) /\ Hold(c, k)
        /\ UNCHANGED <<cand, kept, hpc, ret, open>>
    BY <1>2 DEF PopIdle, PoolTypeOK
  <2>2. k \in Conns /\ Range(pool) = {k} \cup Range(pool')
    BY <2>1, FrontFacts
  <2>3. IsInjective(pool') /\ k \notin Range(pool')
    BY <2>1, FrontFacts DEF OneOwner
  <2> HIDE DEF k
  <2>4. conn[c] = NoConn /\ k \notin Held /\ Exclusive
    BY <1>2, <2>2 DEF PopIdle, Control, AtWork, OneOwner
  <2>5. Exclusive' /\ Held' = Held \cup {k}
    BY <2>1, <2>2, <2>4, TakeFacts
  <2>6. Surviving' = Surviving /\ Returning' = Returning
    BY <2>1 DEF Surviving, Returning
  <2> QED
    BY <2>1, <2>2, <2>3, <2>5, <2>6 DEF OneOwner
<1>3. ASSUME NEW c \in Callers, PopEmpty(c) PROVE OneOwner'
  BY <1>3, OwnerFrame DEF PopEmpty, Surviving, Returning
<1>4. ASSUME NEW c \in Callers, NoneIdle(c) PROVE OneOwner'
  BY <1>4, OwnerFrame DEF NoneIdle, Surviving, Returning
<1>5. ASSUME NEW c \in Callers, Ping(c) PROVE OneOwner'
  BY <1>5, OwnerFrame DEF Ping, Surviving, Returning
<1>6. ASSUME NEW c \in Callers, EvictDead(c) PROVE OneOwner'
  <2>1. UNCHANGED <<pool, cand, kept, hpc, ret>> /\ open' = open \ {conn[c]} /\ Hold(c, NoConn)
    BY <1>6 DEF EvictDead
  <2>2. conn[c] \in Held
    BY <1>6 DEF EvictDead, Control, AtWork, Held
  <2>3. Exclusive' /\ Held' = Held \ {conn[c]}
    BY <2>1, PutFacts DEF OneOwner
  <2>4. Surviving' = Surviving /\ Returning' = Returning
    BY <2>1 DEF Surviving, Returning
  <2> QED
    BY <2>1, <2>2, <2>3, <2>4 DEF OneOwner
<1>7. ASSUME NEW c \in Callers, LockStats(c) PROVE OneOwner'
  BY <1>7, OwnerFrame DEF LockStats, Surviving, Returning
<1>8. ASSUME NEW c \in Callers, Reuse(c) PROVE OneOwner'
  BY <1>8, OwnerFrame DEF Reuse, Surviving, Returning
<1>9. ASSUME NEW c \in Callers, GotPermit(c) PROVE OneOwner'
  BY <1>9, OwnerFrame DEF GotPermit, Surviving, Returning
<1>10. ASSUME NEW c \in Callers, AcquireTimeout(c) PROVE OneOwner'
  BY <1>10, OwnerFrame DEF AcquireTimeout, Surviving, Returning
<1>11. ASSUME NEW c \in Callers, DialOk(c) PROVE OneOwner'
  <2>1. PICK k \in Conns \ open : Hold(c, k) /\ open' = open \cup {k}
    BY <1>11 DEF DialOk
  <2>2. UNCHANGED <<pool, cand, kept, hpc, ret>> /\ conn[c] = NoConn
    BY <1>11 DEF DialOk, Control, AtWork
  <2>3. k \notin Held /\ Exclusive
    BY <2>1 DEF OneOwner
  <2>4. Exclusive' /\ Held' = Held \cup {k}
    BY <2>1, <2>2, <2>3, TakeFacts
  <2>5. Surviving' = Surviving /\ Returning' = Returning
    BY <2>2 DEF Surviving, Returning
  <2> QED
    BY <2>1, <2>2, <2>4, <2>5 DEF OneOwner
<1>12. ASSUME NEW c \in Callers, DialFail(c) PROVE OneOwner'
  BY <1>12, OwnerFrame DEF DialFail, Surviving, Returning
<1>13. ASSUME NEW c \in Callers, CountDialed(c) PROVE OneOwner'
  BY <1>13, OwnerFrame DEF CountDialed, Surviving, Returning
<1>14. ASSUME NEW c \in Callers, Release(c) PROVE OneOwner'
  <2>1. /\ UNCHANGED <<pool, cand, kept, hpc, open>> /\ Hold(c, NoConn)
        /\ ret' = [ret EXCEPT ![conn[c]] = "push"]
    BY <1>14 DEF Release
  <2>2. conn[c] \in Held /\ conn[c] \in Conns
    BY <1>14 DEF Release, Control, AtWork, Held, PoolTypeOK
  <2>3. Exclusive' /\ Held' = Held \ {conn[c]}
    BY <2>1, PutFacts DEF OneOwner
  <2>4. Surviving' = Surviving /\ Returning' = Returning \cup {conn[c]}
    BY <2>1, <2>2 DEF Surviving, Returning, PoolTypeOK
  <2> QED
    BY <2>1, <2>2, <2>3, <2>4 DEF OneOwner
<1>15. ASSUME NEW c \in Callers, Abort(c) PROVE OneOwner'
  <2>1. /\ UNCHANGED <<pool, cand, kept, hpc>> /\ Hold(c, NoConn)
        /\ open' = open \ Popped(c)
        /\ ret' = IF pc[c] = "using" THEN [ret EXCEPT ![conn[c]] = "push"] ELSE ret
    BY <1>15 DEF Abort
  <2>2. Exclusive' /\ Held' = Held \ {conn[c]} /\ Surviving' = Surviving
    BY <2>1, PutFacts DEF OneOwner, Surviving
  <2>3. NoConn \notin open /\ NoConn \notin Held
    BY PoolAssumption DEF PoolTypeOK, Held
  <2>4. CASE pc[c] = "using"
    <3>1. conn[c] \in Held /\ conn[c] \in Conns /\ Popped(c) = {}
      BY <2>4 DEF Control, AtWork, Held, Popped, PoolTypeOK
    <3>2. Returning' = Returning \cup {conn[c]}
      BY <2>1, <2>4, <3>1 DEF Returning, PoolTypeOK
    <3> QED
      BY <2>1, <2>2, <3>1, <3>2 DEF OneOwner
  <2>5. CASE pc[c] # "using"
    <3>1. Returning' = Returning /\ open' = open \ {conn[c]}
      BY <2>1, <2>3, <2>5 DEF Returning, Popped
    <3>2. conn[c] \in Held \/ conn[c] = NoConn
      BY DEF Held
    <3> QED
      BY <2>1, <2>2, <2>3, <3>1, <3>2 DEF OneOwner
  <2> QED
    BY <2>4, <2>5
<1>16. ASSUME NEW k \in Conns, ReturnPush(k) PROVE OneOwner'
  <2>1. /\ pool' = Append(pool, k) /\ pool \in Seq(Conns)
        /\ ret[k] = "push" /\ ret' = [ret EXCEPT ![k] = "stats"]
        /\ UNCHANGED <<conn, cand, kept, hpc, open>>
    BY <1>16 DEF ReturnPush, PoolTypeOK
  <2>2. k \in Returning /\ Returning' = Returning \ {k}
    BY <2>1 DEF Returning, PoolTypeOK
  <2>3. Range(pool') = Range(pool) \cup {k} /\ IsInjective(pool')
    BY <2>1, <2>2, AppendFacts DEF OneOwner
  <2>4. Held' = Held /\ Exclusive' = Exclusive /\ Surviving' = Surviving
    BY <2>1 DEF Held, Exclusive, Surviving
  <2> QED
    BY <2>1, <2>2, <2>3, <2>4 DEF OneOwner
<1>17. ASSUME NEW k \in Conns, ReturnStats(k) PROVE OneOwner'
  BY <1>17, OwnerFrame DEF ReturnStats, Surviving, Returning, PoolTypeOK
<1>18. ASSUME NEW k \in Conns, Die(k) PROVE OneOwner'
  BY <1>18, OwnerFrame DEF Die, Surviving, Returning
<1>19. CASE HealthTake
  <2>1. /\ cand' = pool /\ pool' = <<>> /\ hpc' = "ping" /\ kept' = <<>> /\ kept = <<>>
        /\ cand = <<>> /\ hpc = "sleep" /\ UNCHANGED <<conn, ret, open>>
    BY <1>19 DEF HealthTake, Control
  <2>2. /\ Range(pool') = {} /\ IsInjective(pool') /\ Range(cand) = {}
        /\ Range(cand') = Range(pool) /\ IsInjective(kept') /\ Surviving = {} /\ Surviving' = {}
    BY <2>1, EmptyFacts DEF Surviving
  <2>3. Held' = Held /\ Exclusive' = Exclusive /\ Returning' = Returning
    BY <2>1 DEF Held, Exclusive, Returning
  <2> QED
    BY <2>1, <2>2, <2>3 DEF OneOwner
<1>20. CASE HealthKeep
  <2>1. /\ hpc = "ping" /\ cand # <<>> /\ cand \in Seq(Conns) /\ kept \in Seq(Conns)
        /\ kept' = Append(kept, Head(cand)) /\ cand' = Tail(cand)
        /\ UNCHANGED <<pool, conn, ret, open, hpc>>
    BY <1>20 DEF HealthKeep, PoolTypeOK
  <2>2. /\ Head(cand) \in Conns /\ Range(cand) = {Head(cand)} \cup Range(cand')
        /\ IsInjective(cand') /\ Head(cand) \notin Range(cand')
    BY <2>1, TailFacts DEF OneOwner
  <2>3. Surviving = Range(kept) /\ Surviving' = Range(kept') /\ IsInjective(kept)
    BY <2>1 DEF Surviving, OneOwner
  <2>4. Head(cand) \notin Range(kept)
    BY <2>2, <2>3 DEF OneOwner
  <2>5. Range(kept') = Range(kept) \cup {Head(cand)} /\ IsInjective(kept')
    BY <2>1, <2>2, <2>3, <2>4, AppendFacts
  <2>6. Held' = Held /\ Exclusive' = Exclusive /\ Returning' = Returning
    BY <2>1 DEF Held, Exclusive, Returning
  <2> QED
    BY <2>1, <2>2, <2>3, <2>5, <2>6 DEF OneOwner
<1>21. CASE HealthEvict
  <2>1. /\ hpc = "ping" /\ cand # <<>> /\ cand \in Seq(Conns)
        /\ open' = open \ {Head(cand)} /\ cand' = Tail(cand)
        /\ UNCHANGED <<pool, conn, ret, kept, hpc>>
    BY <1>21 DEF HealthEvict, PoolTypeOK
  <2>2. /\ Range(cand) = {Head(cand)} \cup Range(cand')
        /\ IsInjective(cand') /\ Head(cand) \notin Range(cand')
    BY <2>1, TailFacts DEF OneOwner
  <2>3. /\ Held' = Held /\ Exclusive' = Exclusive /\ Returning' = Returning
        /\ Surviving' = Surviving
    BY <2>1 DEF Held, Exclusive, Returning, Surviving
  <2> QED
    BY <2>1, <2>2, <2>3 DEF OneOwner
<1>22. CASE HealthExtend
  <2>1. /\ hpc = "ping" /\ hpc' = "stats" /\ cand = <<>> /\ pool' = pool \o kept
        /\ pool \in Seq(Conns) /\ kept \in Seq(Conns)
        /\ UNCHANGED <<conn, ret, open, cand, kept>>
    BY <1>22 DEF HealthExtend, PoolTypeOK
  <2>2. Surviving = Range(kept) /\ Surviving' = {} /\ Range(cand) = {}
    BY <2>1, EmptyFacts DEF Surviving
  <2>3. Range(pool') = Range(pool) \cup Range(kept) /\ IsInjective(pool')
    BY <2>1, <2>2, ConcatFacts DEF OneOwner
  <2>4. Held' = Held /\ Exclusive' = Exclusive /\ Returning' = Returning
    BY <2>1 DEF Held, Exclusive, Returning
  <2> QED
    BY <2>1, <2>2, <2>3, <2>4 DEF OneOwner
<1>23. CASE HealthStats
  BY <1>23, OwnerFrame DEF HealthStats, Surviving, Returning
<1>24. CASE HealthStop
  BY <1>24, OwnerFrame DEF HealthStop, Surviving, Returning
<1>25. CASE Teardown
  BY <1>25, OwnerFrame DEF Teardown, Surviving, Returning
<1>26. CASE ShutdownLock
  BY <1>26, OwnerFrame DEF ShutdownLock, Surviving, Returning
<1>27. CASE ShutdownDrain
  <2>1. /\ pool # <<>> /\ pool \in Seq(Conns)
        /\ open' = open \ {Head(pool)} /\ pool' = Tail(pool)
        /\ UNCHANGED <<cand, conn, ret, kept, hpc>>
    BY <1>27 DEF ShutdownDrain, PoolTypeOK
  <2>2. /\ Range(pool) = {Head(pool)} \cup Range(pool')
        /\ IsInjective(pool') /\ Head(pool) \notin Range(pool')
    BY <2>1, TailFacts DEF OneOwner
  <2>3. /\ Held' = Held /\ Exclusive' = Exclusive /\ Returning' = Returning
        /\ Surviving' = Surviving
    BY <2>1 DEF Held, Exclusive, Returning, Surviving
  <2> QED
    BY <2>1, <2>2, <2>3 DEF OneOwner
<1>28. CASE ShutdownDone
  BY <1>28, OwnerFrame DEF ShutdownDone, Surviving, Returning
<1>29. CASE FreePool
  <2>1. /\ pool' = <<>> /\ open' = open \ Range(pool)
        /\ UNCHANGED <<cand, conn, ret, kept, hpc>>
    BY <1>29 DEF FreePool
  <2>2. Range(pool') = {} /\ IsInjective(pool')
    BY <2>1, EmptyFacts
  <2>3. /\ Held' = Held /\ Exclusive' = Exclusive /\ Returning' = Returning
        /\ Surviving' = Surviving
    BY <2>1 DEF Held, Exclusive, Returning, Surviving
  <2> QED
    BY <2>1, <2>2, <2>3 DEF OneOwner
<1>30. CASE Finished
  BY <1>30, OwnerFrame DEF Finished, vars, Surviving, Returning
<1>31. CASE UNCHANGED vars
  BY <1>31, OwnerFrame DEF vars, Surviving, Returning
<1> QED
  BY <1>1, <1>2, <1>3, <1>4, <1>5, <1>6, <1>7, <1>8, <1>9, <1>10, <1>11, <1>12, <1>13, <1>14,
     <1>15, <1>16, <1>17, <1>18, <1>19, <1>20, <1>21, <1>22, <1>23, <1>24, <1>25, <1>26,
     <1>27, <1>28, <1>29, <1>30, <1>31
     DEF Next, TakeIdle, Dial, Wait, Return, Health, Shutdown

\* Every open connection has exactly one owner, whatever the tasks' order.
THEOREM OneOwnerCorrect == Spec => []OneOwner
<1>1. Init => OneOwner
  BY EmptyFacts DEF Init, OneOwner, Held, Returning, Surviving, Exclusive
<1> QED
  BY <1>1, PoolTypeCorrect, ControlCorrect, OwnerStep, PTL DEF Spec

------------------------------------------------------------------------------
\* The sets that are counted are finite.
LEMMA Finite ==
  ASSUME PoolTypeOK
  PROVE  /\ IsFiniteSet(open) /\ Cardinality(open) \in Nat
         /\ IsFiniteSet(hasPermit) /\ Cardinality(hasPermit) \in Nat
         /\ IsFiniteSet(Using) /\ Cardinality(Using) \in Nat
         /\ IsFiniteSet(Uncounted) /\ Cardinality(Uncounted) \in Nat
<1>1. IsFiniteSet(Callers) /\ IsFiniteSet(Conns)
  BY PoolAssumption
<1>2. /\ open \in SUBSET Conns /\ hasPermit \in SUBSET Callers
      /\ Using \in SUBSET Callers /\ Uncounted \in SUBSET Conns
  BY DEF PoolTypeOK, Using, Uncounted
<1>3. /\ IsFiniteSet(open) /\ IsFiniteSet(hasPermit)
      /\ IsFiniteSet(Using) /\ IsFiniteSet(Uncounted)
  BY <1>1, <1>2, FS_Subset
<1> QED
  BY <1>3, FS_CardinalityType

\* The permits a step moves between the free ones, the fresh ones and the open
\* connections are counted.
LEMMA PermitsStep ==
  PoolTypeOK /\ Control /\ OneOwner /\ PermitsConserved /\ [Next]_vars => PermitsConserved'
<1> SUFFICES ASSUME PoolTypeOK, Control, OneOwner, PermitsConserved, [Next]_vars
             PROVE  PermitsConserved'
  OBVIOUS
<1> USE Finite, PoolAssumption DEF PermitsConserved
<1>t. permits \in Nat /\ Capacity \in Nat
  BY DEF PoolTypeOK
<1>1. ASSUME NEW c \in Callers, Acquire(c) PROVE PermitsConserved'
  BY <1>1 DEF Acquire
<1>2. ASSUME NEW c \in Callers, PopIdle(c) PROVE PermitsConserved'
  BY <1>2 DEF PopIdle
<1>3. ASSUME NEW c \in Callers, PopEmpty(c) PROVE PermitsConserved'
  BY <1>3 DEF PopEmpty
<1>4. ASSUME NEW c \in Callers, NoneIdle(c) PROVE PermitsConserved'
  BY <1>4 DEF NoneIdle
<1>5. ASSUME NEW c \in Callers, Ping(c) PROVE PermitsConserved'
  BY <1>5 DEF Ping
<1>6. ASSUME NEW c \in Callers, EvictDead(c) PROVE PermitsConserved'
  <2>1. conn[c] \in open
    BY <1>6 DEF EvictDead, Control, AtWork, OneOwner, Held
  <2>2. Cardinality(open \ {conn[c]}) = Cardinality(open) - 1
    BY <2>1, FS_RemoveElement
  <2> QED
    BY <1>6, <1>t, <2>2 DEF EvictDead
<1>7. ASSUME NEW c \in Callers, LockStats(c) PROVE PermitsConserved'
  BY <1>7 DEF LockStats
<1>8. ASSUME NEW c \in Callers, Reuse(c) PROVE PermitsConserved'
  <2>1. Cardinality(hasPermit \ {c}) = IF c \in hasPermit THEN Cardinality(hasPermit) - 1
                                       ELSE Cardinality(hasPermit)
    BY FS_RemoveElement
  <2> QED
    BY <1>8, <1>t, <2>1 DEF Reuse
<1>9. ASSUME NEW c \in Callers, GotPermit(c) PROVE PermitsConserved'
  <2>1. c \notin hasPermit
    BY <1>9 DEF GotPermit, Control
  <2>2. Cardinality(hasPermit \cup {c}) = Cardinality(hasPermit) + 1
    BY <2>1, FS_AddElement
  <2> QED
    BY <1>9, <1>t, <2>2 DEF GotPermit
<1>10. ASSUME NEW c \in Callers, AcquireTimeout(c) PROVE PermitsConserved'
  BY <1>10 DEF AcquireTimeout
<1>11. ASSUME NEW c \in Callers, DialOk(c) PROVE PermitsConserved'
  <2>1. PICK k \in Conns \ open : open' = open \cup {k}
    BY <1>11 DEF DialOk
  <2>2. c \in hasPermit /\ hasPermit' = hasPermit \ {c} /\ permits' = permits
    BY <1>11 DEF DialOk, Control
  <2>3. Cardinality(open') = Cardinality(open) + 1
    BY <2>1, FS_AddElement
  <2>4. Cardinality(hasPermit') = Cardinality(hasPermit) - 1
    BY <2>2, FS_RemoveElement
  <2> QED
    BY <1>t, <2>2, <2>3, <2>4
<1>12. ASSUME NEW c \in Callers, DialFail(c) PROVE PermitsConserved'
  <2>1. c \in hasPermit
    BY <1>12 DEF DialFail, Control
  <2>2. Cardinality(hasPermit \ {c}) = Cardinality(hasPermit) - 1
    BY <2>1, FS_RemoveElement
  <2> QED
    BY <1>12, <1>t, <2>2 DEF DialFail
<1>13. ASSUME NEW c \in Callers, CountDialed(c) PROVE PermitsConserved'
  BY <1>13 DEF CountDialed
<1>14. ASSUME NEW c \in Callers, Release(c) PROVE PermitsConserved'
  BY <1>14 DEF Release
<1>15. ASSUME NEW c \in Callers, Abort(c) PROVE PermitsConserved'
  <2>1. Cardinality(hasPermit') = IF c \in hasPermit THEN Cardinality(hasPermit) - 1
                                ELSE Cardinality(hasPermit)
    BY <1>15, FS_RemoveElement DEF Abort
  <2>2. Cardinality(open') = IF Popped(c) = {} THEN Cardinality(open)
                           ELSE Cardinality(open) - 1
    <3>1. CASE Popped(c) = {}
      BY <1>15, <3>1 DEF Abort
    <3>2. CASE Popped(c) # {}
      <4>1. Popped(c) = {conn[c]} /\ conn[c] \in open
        BY <3>2 DEF Popped, OneOwner, Held
      <4>2. Cardinality(open \ {conn[c]}) = Cardinality(open) - 1
        BY <4>1, FS_RemoveElement
      <4> QED
        BY <1>15, <3>2, <4>1, <4>2 DEF Abort
    <3> QED
      BY <3>1, <3>2
  <2>3. permits' = permits + (IF c \in hasPermit THEN 1 ELSE 0)
                           + (IF Popped(c) = {} THEN 0 ELSE 1)
    BY <1>15 DEF Abort
  <2> QED
    BY <1>t, <2>1, <2>2, <2>3
<1>16. ASSUME NEW k \in Conns, ReturnPush(k) PROVE PermitsConserved'
  BY <1>16 DEF ReturnPush
<1>17. ASSUME NEW k \in Conns, ReturnStats(k) PROVE PermitsConserved'
  BY <1>17 DEF ReturnStats
<1>18. ASSUME NEW k \in Conns, Die(k) PROVE PermitsConserved'
  BY <1>18 DEF Die
<1>19. CASE HealthTake
  BY <1>19 DEF HealthTake
<1>20. CASE HealthKeep
  BY <1>20 DEF HealthKeep
<1>21. CASE HealthEvict
  <2>1. Head(cand) \in open
    <3>1. cand \in Seq(Conns) /\ cand # <<>>
      BY <1>21 DEF HealthEvict, PoolTypeOK
    <3>2. Head(cand) \in Range(cand)
      BY <3>1, TailFacts
    <3> QED
      BY <3>2 DEF OneOwner
  <2>2. Cardinality(open \ {Head(cand)}) = Cardinality(open) - 1
    BY <2>1, FS_RemoveElement
  <2> QED
    BY <1>21, <1>t, <2>2 DEF HealthEvict
<1>22. CASE HealthExtend
  BY <1>22 DEF HealthExtend
<1>23. CASE HealthStats
  BY <1>23 DEF HealthStats
<1>24. CASE HealthStop
  BY <1>24 DEF HealthStop
<1>25. CASE Teardown
  BY <1>25 DEF Teardown
<1>26. CASE ShutdownLock
  BY <1>26 DEF ShutdownLock
<1>27. CASE ShutdownDrain
  <2>1. Head(pool) \in open
    <3>1. pool \in Seq(Conns) /\ pool # <<>>
      BY <1>27 DEF ShutdownDrain, PoolTypeOK
    <3>2. Head(pool) \in Range(pool)
      BY <3>1, TailFacts
    <3> QED
      BY <3>2 DEF OneOwner
  <2>2. Cardinality(open \ {Head(pool)}) = Cardinality(open) - 1
    BY <2>1, FS_RemoveElement
  <2> QED
    BY <1>27, <1>t, <2>2 DEF ShutdownDrain
<1>28. CASE ShutdownDone
  BY <1>28 DEF ShutdownDone
<1>29. CASE FreePool
  <2>1. Cardinality(Range(pool)) = Len(pool) /\ Len(pool) \in Nat
    BY InjectiveLength DEF PoolTypeOK, OneOwner
  <2>2. open \cap Range(pool) = Range(pool)
    BY DEF OneOwner
  <2>3. /\ IsFiniteSet(open)
        /\ Cardinality(open \ Range(pool)) = Cardinality(open) - Cardinality(open \cap Range(pool))
    BY FS_Difference
  <2>4. Cardinality(open \ Range(pool)) = Cardinality(open) - Len(pool)
    BY <2>1, <2>2, <2>3
  <2> QED
    BY <1>29, <1>t, <2>1, <2>4 DEF FreePool
<1>30. CASE Finished
  BY <1>30 DEF Finished, vars
<1>31. CASE UNCHANGED vars
  BY <1>31 DEF vars
<1> QED
  BY <1>1, <1>2, <1>3, <1>4, <1>5, <1>6, <1>7, <1>8, <1>9, <1>10, <1>11, <1>12, <1>13, <1>14,
     <1>15, <1>16, <1>17, <1>18, <1>19, <1>20, <1>21, <1>22, <1>23, <1>24, <1>25, <1>26,
     <1>27, <1>28, <1>29, <1>30, <1>31
     DEF Next, TakeIdle, Dial, Wait, Return, Health, Shutdown

\* No permit of the capacity semaphore is ever lost or minted.
THEOREM PermitsCorrect == Spec => []PermitsConserved
<1>1. Init => PermitsConserved
  BY PoolAssumption, FS_EmptySet DEF Init, PermitsConserved
<1> QED
  BY <1>1, PoolTypeCorrect, ControlCorrect, OneOwnerCorrect, PermitsStep, PTL DEF Spec

------------------------------------------------------------------------------
\* A caller that moves between two places other than "using".
LEMMA UsingFrame ==
  ASSUME PoolTypeOK, NEW c \in Callers, NEW goal, MoveTo(c, goal),
         pc[c] # "using", goal # "using"
  PROVE  Using' = Using
BY DEF PoolTypeOK, Using

\* Every action changes the counter as it changes the leases and pending returns.
LEMMA ActiveStep ==
  PoolTypeOK /\ Control /\ OneOwner /\ ActiveExact /\ [Next]_vars => ActiveExact'
<1> SUFFICES ASSUME PoolTypeOK, Control, OneOwner, ActiveExact, [Next]_vars
             PROVE  ActiveExact'
  OBVIOUS
<1>s. ASSUME active' = active, Using' = Using, Uncounted' = Uncounted PROVE ActiveExact'
  BY <1>s DEF ActiveExact
<1>g. ASSUME NEW c \in Callers, NEW goal, MoveTo(c, goal), pc[c] # "using",
             goal # "using", UNCHANGED <<active, ret>>
      PROVE  ActiveExact'
  BY <1>g, <1>s, UsingFrame DEF Uncounted
<1>u. ASSUME UNCHANGED <<active, pc, ret>> PROVE ActiveExact'
  BY <1>u, <1>s DEF Using, Uncounted
<1>1. ASSUME NEW c \in Callers, Acquire(c) PROVE ActiveExact'
  BY <1>1, <1>g DEF Acquire
<1>2. ASSUME NEW c \in Callers, PopIdle(c) PROVE ActiveExact'
  BY <1>2, <1>g DEF PopIdle
<1>3. ASSUME NEW c \in Callers, PopEmpty(c) PROVE ActiveExact'
  BY <1>3, <1>g DEF PopEmpty
<1>4. ASSUME NEW c \in Callers, NoneIdle(c) PROVE ActiveExact'
  BY <1>4, <1>g DEF NoneIdle
<1>5. ASSUME NEW c \in Callers, Ping(c) PROVE ActiveExact'
  BY <1>5, <1>g DEF Ping
<1>6. ASSUME NEW c \in Callers, EvictDead(c) PROVE ActiveExact'
  BY <1>6, <1>g DEF EvictDead
<1>7. ASSUME NEW c \in Callers, LockStats(c) PROVE ActiveExact'
  BY <1>7, <1>g DEF LockStats
<1>8. ASSUME NEW c \in Callers, Reuse(c) PROVE ActiveExact'
  <2>1. /\ c \notin Using /\ Using' = Using \cup {c} /\ Uncounted' = Uncounted
        /\ active' = active + 1
    BY <1>8 DEF Reuse, PoolTypeOK, Using, Uncounted
  <2>2. Cardinality(Using') = Cardinality(Using) + 1
    BY <2>1, Finite, FS_AddElement
  <2> QED
    BY <2>1, <2>2, Finite DEF ActiveExact
<1>9. ASSUME NEW c \in Callers, GotPermit(c) PROVE ActiveExact'
  BY <1>9, <1>g DEF GotPermit
<1>10. ASSUME NEW c \in Callers, AcquireTimeout(c) PROVE ActiveExact'
  BY <1>10, <1>g DEF AcquireTimeout
<1>11. ASSUME NEW c \in Callers, DialOk(c) PROVE ActiveExact'
  BY <1>11, <1>g DEF DialOk
<1>12. ASSUME NEW c \in Callers, DialFail(c) PROVE ActiveExact'
  BY <1>12, <1>g DEF DialFail
<1>13. ASSUME NEW c \in Callers, CountDialed(c) PROVE ActiveExact'
  <2>1. /\ c \notin Using /\ Using' = Using \cup {c} /\ Uncounted' = Uncounted
        /\ active' = active + 1
    BY <1>13 DEF CountDialed, PoolTypeOK, Using, Uncounted
  <2>2. Cardinality(Using') = Cardinality(Using) + 1
    BY <2>1, Finite, FS_AddElement
  <2> QED
    BY <2>1, <2>2, Finite DEF ActiveExact
<1>14. ASSUME NEW c \in Callers, Release(c) PROVE ActiveExact'
  <2>1. /\ c \in Using /\ Using' = Using \ {c} /\ active' = active
        /\ ret' = [ret EXCEPT ![conn[c]] = "push"] /\ conn[c] \in Conns /\ conn[c] \in Held
    BY <1>14 DEF Release, Control, AtWork, Held, PoolTypeOK, Using
  <2>2. conn[c] \notin Uncounted /\ Uncounted' = Uncounted \cup {conn[c]}
    BY <2>1 DEF PoolTypeOK, Control, OneOwner, Returning, Uncounted
  <2>3. Cardinality(Using') = Cardinality(Using) - 1
    BY <2>1, Finite, FS_RemoveElement
  <2>4. Cardinality(Uncounted') = Cardinality(Uncounted) + 1
    BY <2>2, Finite, FS_AddElement
  <2> QED
    BY <2>1, <2>3, <2>4, Finite DEF ActiveExact
<1>15. ASSUME NEW c \in Callers, Abort(c) PROVE ActiveExact'
  <2>u. CASE pc[c] = "using"
    <3>1. /\ c \in Using /\ Using' = Using \ {c} /\ active' = active
          /\ ret' = [ret EXCEPT ![conn[c]] = "push"] /\ conn[c] \in Conns /\ conn[c] \in Held
      BY <1>15, <2>u DEF Abort, Control, AtWork, Held, PoolTypeOK, Using
    <3>2. conn[c] \notin Uncounted /\ Uncounted' = Uncounted \cup {conn[c]}
      BY <3>1 DEF PoolTypeOK, Control, OneOwner, Returning, Uncounted
    <3>3. Cardinality(Using') = Cardinality(Using) - 1
      BY <3>1, Finite, FS_RemoveElement
    <3>4. Cardinality(Uncounted') = Cardinality(Uncounted) + 1
      BY <3>2, Finite, FS_AddElement
    <3> QED
      BY <3>1, <3>3, <3>4, Finite DEF ActiveExact
  <2>n. CASE pc[c] # "using"
    BY <1>15, <2>n, <1>g DEF Abort
  <2> QED
    BY <2>u, <2>n
<1>16. ASSUME NEW k \in Conns, ReturnPush(k) PROVE ActiveExact'
  <2>1. Uncounted' = Uncounted /\ Using' = Using /\ active' = active
    BY <1>16 DEF ReturnPush, PoolTypeOK, Uncounted, Using
  <2> QED
    BY <1>s, <2>1
<1>17. ASSUME NEW k \in Conns, ReturnStats(k) PROVE ActiveExact'
  <2>1. k \in Uncounted /\ Uncounted' = Uncounted \ {k} /\ Using' = Using
    BY <1>17 DEF ReturnStats, PoolTypeOK, Uncounted, Using
  <2>2. Cardinality(Uncounted') = Cardinality(Uncounted) - 1
    BY <2>1, Finite, FS_RemoveElement
  <2>3. Cardinality(Uncounted) > 0
    BY <2>1, Finite, FS_EmptySet
  <2>4. active > 0 /\ active' = active - 1
    BY <1>17, <2>3, Finite DEF ReturnStats, ActiveExact
  <2> QED
    BY <2>1, <2>2, <2>4, Finite DEF ActiveExact
<1>18. ASSUME NEW k \in Conns, Die(k) PROVE ActiveExact'
  BY <1>18, <1>u DEF Die
<1>19. CASE HealthTake
  BY <1>19, <1>u DEF HealthTake
<1>20. CASE HealthKeep
  BY <1>20, <1>u DEF HealthKeep
<1>21. CASE HealthEvict
  BY <1>21, <1>u DEF HealthEvict
<1>22. CASE HealthExtend
  BY <1>22, <1>u DEF HealthExtend
<1>23. CASE HealthStats
  BY <1>23, <1>u DEF HealthStats
<1>24. CASE HealthStop
  BY <1>24, <1>u DEF HealthStop
<1>25. CASE Teardown
  BY <1>25, <1>u DEF Teardown
<1>26. CASE ShutdownLock
  BY <1>26, <1>u DEF ShutdownLock
<1>27. CASE ShutdownDrain
  BY <1>27, <1>u DEF ShutdownDrain
<1>28. CASE ShutdownDone
  BY <1>28, <1>u DEF ShutdownDone
<1>29. CASE FreePool
  BY <1>29, <1>u DEF FreePool
<1>30. CASE Finished
  BY <1>30, <1>u DEF Finished, vars
<1>31. CASE UNCHANGED vars
  BY <1>31, <1>u DEF vars
<1> QED
  BY <1>1, <1>2, <1>3, <1>4, <1>5, <1>6, <1>7, <1>8, <1>9, <1>10, <1>11, <1>12, <1>13, <1>14,
     <1>15, <1>16, <1>17, <1>18, <1>19, <1>20, <1>21, <1>22, <1>23, <1>24, <1>25, <1>26,
     <1>27, <1>28, <1>29, <1>30, <1>31
     DEF Next, TakeIdle, Dial, Wait, Return, Health, Shutdown

\* The statistics count the leases exactly, and a return never saturates.
THEOREM ActiveCorrect == Spec => []ActiveExact
<1>1. Init => ActiveExact
  <2> SUFFICES ASSUME Init PROVE ActiveExact
    OBVIOUS
  <2>1. Using = {} /\ Uncounted = {} /\ active = 0
    BY DEF Init, Using, Uncounted
  <2> QED
    BY <2>1, FS_EmptySet DEF ActiveExact
<1> QED
  BY <1>1, PoolTypeCorrect, ControlCorrect, OneOwnerCorrect, ActiveStep, PTL DEF Spec

------------------------------------------------------------------------------
\* A caller that moves between two places other than "using" keeps the leases.
LEMMA LeaseFrame ==
  ASSUME PoolTypeOK, NEW c \in Callers, NEW goal, MoveTo(c, goal),
         pc[c] # "using", goal # "using",
         \A d \in Callers \ {c} : conn'[d] = conn[d]
  PROVE  Leases' = Leases
BY DEF PoolTypeOK, Leases

\* Who works on a connection holds it.
LEMMA LentFacts ==
  ASSUME PoolTypeOK
  PROVE  /\ Leases \in [Callers -> Conns \cup {NoConn}]
         /\ \A k \in Lease!Lent : \E c \in Callers : pc[c] = "using" /\ conn[c] = k
         /\ Lease!Lent \subseteq Held
<1>1. Leases \in [Callers -> Conns \cup {NoConn}]
  BY DEF PoolTypeOK, Leases
<1>2. ASSUME NEW k \in Lease!Lent
      PROVE  k \in Held /\ \E c \in Callers : pc[c] = "using" /\ conn[c] = k
  <2>1. PICK c \in Callers : k = Leases[c] /\ k # NoConn
    BY DEF Lease!Lent
  <2>2. pc[c] = "using" /\ conn[c] = k
    BY <2>1 DEF Leases
  <2> QED
    BY <2>1, <2>2 DEF Held
<1> QED
  BY <1>1, <1>2

\* A caller begins to work on the connection it holds.
LEMMA GrantFacts ==
  ASSUME PoolTypeOK, Control, OneOwner, NEW c \in Callers, pc[c] \in {"count", "dialed"},
         MoveTo(c, "using"), UNCHANGED <<conn, open>>
  PROVE  Lease!Next
<1>1. conn[c] \in Conns /\ conn[c] \in Held /\ conn[c] \in open
  BY DEF PoolTypeOK, Control, AtWork, Held, OneOwner
<1>2. conn[c] \notin Lease!Lent
  <2>1. ASSUME conn[c] \in Lease!Lent PROVE FALSE
    <3>1. PICK d \in Callers : pc[d] = "using" /\ conn[d] = conn[c]
      BY <2>1, LentFacts
    <3> QED
      BY <1>1, <3>1, PoolAssumption DEF OneOwner, Exclusive
  <2> QED
    BY <2>1
<1>3. Leases[c] = NoConn /\ Leases' = [Leases EXCEPT ![c] = conn[c]]
  BY DEF PoolTypeOK, Leases
<1>4. Lease!Grant(c, conn[c])
  BY <1>1, <1>2, <1>3 DEF Lease!Grant
<1> QED
  BY <1>1, <1>4 DEF Lease!Next

\* A caller that worked on a connection stops.
LEMMA ReturnFacts ==
  ASSUME PoolTypeOK, Control, NEW c \in Callers, pc[c] = "using",
         MoveTo(c, "idle"), Hold(c, NoConn), UNCHANGED open
  PROVE  Lease!Next
<1>1. conn[c] # NoConn
  BY DEF Control, AtWork
<1>2. Leases[c] # NoConn /\ Leases' = [Leases EXCEPT ![c] = NoConn]
  BY <1>1 DEF PoolTypeOK, Leases
<1>3. Lease!Return(c)
  BY <1>2 DEF Lease!Return
<1> QED
  BY <1>3 DEF Lease!Next

\* Connections nobody works on close.
LEMMA CloseFacts ==
  ASSUME NEW ks \in SUBSET Conns, ks \cap Lease!Lent = {},
         open' = open \ ks, Leases' = Leases
  PROVE  Lease!Next
<1>1. Lease!Close(ks)
  BY DEF Lease!Close
<1> QED
  BY <1>1 DEF Lease!Next

\* Every step of the pool is a step of the lease or leaves it alone.
LEMMA LeaseStep ==
  PoolTypeOK /\ Control /\ OneOwner /\ PermitsConserved /\ [Next]_vars
    => [Lease!Next]_(Lease!vars)
<1> SUFFICES ASSUME PoolTypeOK, Control, OneOwner, PermitsConserved, [Next]_vars
             PROVE  Lease!Next \/ UNCHANGED <<open, Leases>>
  BY DEF Lease!vars
<1>u. ASSUME UNCHANGED <<open, pc, conn>> PROVE UNCHANGED <<open, Leases>>
  BY <1>u DEF Leases
<1>g. ASSUME NEW c \in Callers, NEW goal, MoveTo(c, goal), pc[c] # "using",
             goal # "using", UNCHANGED <<open, conn>>
      PROVE  UNCHANGED <<open, Leases>>
  BY <1>g, LeaseFrame
<1>c. ASSUME NEW ks \in SUBSET Conns, ks \cap Held = {}, open' = open \ ks,
             UNCHANGED <<pc, conn>>
      PROVE  Lease!Next
  <2>1. Leases' = Leases
    BY <1>c DEF Leases
  <2>2. ks \cap Lease!Lent = {}
    BY <1>c, LentFacts
  <2> QED
    BY <1>c, <2>1, <2>2, CloseFacts
<1>1. ASSUME NEW c \in Callers, Acquire(c) PROVE Lease!Next \/ UNCHANGED <<open, Leases>>
  BY <1>1, <1>g DEF Acquire
<1>2. ASSUME NEW c \in Callers, PopIdle(c) PROVE Lease!Next \/ UNCHANGED <<open, Leases>>
  <2>1. \A d \in Callers \ {c} : conn'[d] = conn[d]
    BY <1>2 DEF PopIdle, PoolTypeOK
  <2> QED
    BY <1>2, <2>1, LeaseFrame DEF PopIdle
<1>3. ASSUME NEW c \in Callers, PopEmpty(c) PROVE Lease!Next \/ UNCHANGED <<open, Leases>>
  BY <1>3, <1>g DEF PopEmpty
<1>4. ASSUME NEW c \in Callers, NoneIdle(c) PROVE Lease!Next \/ UNCHANGED <<open, Leases>>
  BY <1>4, <1>g DEF NoneIdle
<1>5. ASSUME NEW c \in Callers, Ping(c) PROVE Lease!Next \/ UNCHANGED <<open, Leases>>
  BY <1>5, <1>g DEF Ping
<1>6. ASSUME NEW c \in Callers, EvictDead(c) PROVE Lease!Next \/ UNCHANGED <<open, Leases>>
  <2>1. /\ MoveTo(c, "pop") /\ Hold(c, NoConn) /\ open' = open \ {conn[c]}
        /\ pc[c] \in AtWork /\ pc[c] # "using"
    BY <1>6 DEF EvictDead, AtWork
  <2>2. conn[c] \in Conns /\ \A d \in Callers \ {c} : conn'[d] = conn[d]
    BY <2>1 DEF PoolTypeOK, Control
  <2>3. Leases' = Leases
    BY <2>1, <2>2, LeaseFrame
  <2>4. conn[c] \notin Lease!Lent
    <3>1. ASSUME conn[c] \in Lease!Lent PROVE FALSE
      <4>1. PICK d \in Callers : pc[d] = "using" /\ conn[d] = conn[c]
        BY <3>1, LentFacts
      <4> QED
        BY <2>1, <2>2, <4>1, PoolAssumption DEF OneOwner, Exclusive
    <3> QED
      BY <3>1
  <2>5. {conn[c]} \in SUBSET Conns /\ {conn[c]} \cap Lease!Lent = {}
    BY <2>2, <2>4
  <2> QED
    BY <2>1, <2>3, <2>5, CloseFacts
<1>7. ASSUME NEW c \in Callers, LockStats(c) PROVE Lease!Next \/ UNCHANGED <<open, Leases>>
  BY <1>7, <1>g DEF LockStats
<1>8. ASSUME NEW c \in Callers, Reuse(c) PROVE Lease!Next \/ UNCHANGED <<open, Leases>>
  BY <1>8, GrantFacts DEF Reuse
<1>9. ASSUME NEW c \in Callers, GotPermit(c) PROVE Lease!Next \/ UNCHANGED <<open, Leases>>
  BY <1>9, <1>g DEF GotPermit
<1>10. ASSUME NEW c \in Callers, AcquireTimeout(c) PROVE Lease!Next \/ UNCHANGED <<open, Leases>>
  BY <1>10, <1>g DEF AcquireTimeout
<1>11. ASSUME NEW c \in Callers, DialOk(c) PROVE Lease!Next \/ UNCHANGED <<open, Leases>>
  <2>1. PICK k \in Conns \ open : Hold(c, k) /\ open' = open \cup {k}
    BY <1>11 DEF DialOk
  <2>2. MoveTo(c, "dialed") /\ pc[c] = "dial" /\ c \in hasPermit
    BY <1>11 DEF DialOk, Control
  <2>3. Leases' = Leases
    <3>1. \A d \in Callers \ {c} : conn'[d] = conn[d]
      BY <2>1 DEF PoolTypeOK
    <3> QED
      BY <2>2, <3>1, LeaseFrame
  <2>4. Cardinality(open) < Capacity
    <3>1. Cardinality(hasPermit) > 0
      BY <2>2, Finite, FS_EmptySet
    <3> QED
      BY <3>1, Finite, PoolAssumption DEF PermitsConserved, PoolTypeOK
  <2>5. Lease!Cardinality(open) = Cardinality(open)
    BY DEF Lease!Cardinality, Cardinality
  <2>6. Lease!Dial(k)
    BY <2>1, <2>3, <2>4, <2>5 DEF Lease!Dial
  <2> QED
    BY <2>1, <2>6 DEF Lease!Next
<1>12. ASSUME NEW c \in Callers, DialFail(c) PROVE Lease!Next \/ UNCHANGED <<open, Leases>>
  BY <1>12, <1>g DEF DialFail
<1>13. ASSUME NEW c \in Callers, CountDialed(c) PROVE Lease!Next \/ UNCHANGED <<open, Leases>>
  BY <1>13, GrantFacts DEF CountDialed
<1>14. ASSUME NEW c \in Callers, Release(c) PROVE Lease!Next \/ UNCHANGED <<open, Leases>>
  BY <1>14, ReturnFacts DEF Release
<1>15. ASSUME NEW c \in Callers, Abort(c) PROVE Lease!Next \/ UNCHANGED <<open, Leases>>
  <2>a. CASE pc[c] = "using"
    <3>1. MoveTo(c, "idle") /\ Hold(c, NoConn) /\ UNCHANGED open
      BY <1>15, <2>a DEF Abort, Popped
    <3> QED
      BY <2>a, <3>1, ReturnFacts
  <2>b. CASE pc[c] # "using" /\ conn[c] # NoConn
    <3>1. /\ MoveTo(c, "idle") /\ Hold(c, NoConn) /\ open' = open \ {conn[c]}
          /\ pc[c] \in AtWork /\ pc[c] # "using"
      BY <1>15, <2>b DEF Abort, Popped, Control, AtWork
    <3>2. conn[c] \in Conns /\ \A d \in Callers \ {c} : conn'[d] = conn[d]
      BY <3>1 DEF PoolTypeOK, Control
    <3>3. Leases' = Leases
      BY <3>1, <3>2, LeaseFrame
    <3>4. conn[c] \notin Lease!Lent
      <4>1. ASSUME conn[c] \in Lease!Lent PROVE FALSE
        <5>1. PICK d \in Callers : pc[d] = "using" /\ conn[d] = conn[c]
          BY <4>1, LentFacts
        <5> QED
          BY <3>1, <3>2, <5>1, PoolAssumption DEF OneOwner, Exclusive
      <4> QED
        BY <4>1
    <3>5. {conn[c]} \in SUBSET Conns /\ {conn[c]} \cap Lease!Lent = {}
      BY <3>2, <3>4
    <3> QED
      BY <3>1, <3>3, <3>5, CloseFacts
  <2>c. CASE pc[c] # "using" /\ conn[c] = NoConn
    <3>1. /\ MoveTo(c, "idle") /\ open' = open
          /\ \A d \in Callers \ {c} : conn'[d] = conn[d]
      BY <1>15, <2>c DEF Abort, Popped, PoolTypeOK
    <3> QED
      BY <2>c, <3>1, LeaseFrame
  <2> QED
    BY <2>a, <2>b, <2>c
<1>16. ASSUME NEW k \in Conns, ReturnPush(k) PROVE Lease!Next \/ UNCHANGED <<open, Leases>>
  BY <1>16, <1>u DEF ReturnPush
<1>17. ASSUME NEW k \in Conns, ReturnStats(k) PROVE Lease!Next \/ UNCHANGED <<open, Leases>>
  BY <1>17, <1>u DEF ReturnStats
<1>18. ASSUME NEW k \in Conns, Die(k) PROVE Lease!Next \/ UNCHANGED <<open, Leases>>
  BY <1>18, <1>u DEF Die
<1>19. CASE HealthTake
  BY <1>19, <1>u DEF HealthTake
<1>20. CASE HealthKeep
  BY <1>20, <1>u DEF HealthKeep
<1>21. CASE HealthEvict
  <2>1. Head(cand) \in Conns /\ Head(cand) \in Range(cand)
    BY <1>21, TailFacts DEF HealthEvict, PoolTypeOK
  <2>2. {Head(cand)} \cap Held = {}
    BY <2>1 DEF OneOwner
  <2> QED
    BY <1>21, <1>c, <2>1, <2>2 DEF HealthEvict
<1>22. CASE HealthExtend
  BY <1>22, <1>u DEF HealthExtend
<1>23. CASE HealthStats
  BY <1>23, <1>u DEF HealthStats
<1>24. CASE HealthStop
  BY <1>24, <1>u DEF HealthStop
<1>25. CASE Teardown
  BY <1>25, <1>u DEF Teardown
<1>26. CASE ShutdownLock
  BY <1>26, <1>u DEF ShutdownLock
<1>27. CASE ShutdownDrain
  <2>1. Head(pool) \in Conns /\ Head(pool) \in Range(pool)
    BY <1>27, TailFacts DEF ShutdownDrain, PoolTypeOK
  <2>2. {Head(pool)} \cap Held = {}
    BY <2>1 DEF OneOwner
  <2> QED
    BY <1>27, <1>c, <2>1, <2>2 DEF ShutdownDrain
<1>28. CASE ShutdownDone
  BY <1>28, <1>u DEF ShutdownDone
<1>29. CASE FreePool
  <2>1. Range(pool) \in SUBSET Conns
    BY RangeFacts DEF PoolTypeOK
  <2>2. Range(pool) \cap Held = {}
    BY DEF OneOwner
  <2> QED
    BY <1>29, <1>c, <2>1, <2>2 DEF FreePool
<1>30. CASE Finished
  BY <1>30, <1>u DEF Finished, vars
<1>31. CASE UNCHANGED vars
  BY <1>31, <1>u DEF vars
<1> QED
  BY <1>1, <1>2, <1>3, <1>4, <1>5, <1>6, <1>7, <1>8, <1>9, <1>10, <1>11, <1>12, <1>13, <1>14,
     <1>15, <1>16, <1>17, <1>18, <1>19, <1>20, <1>21, <1>22, <1>23, <1>24, <1>25, <1>26,
     <1>27, <1>28, <1>29, <1>30, <1>31
     DEF Next, TakeIdle, Dial, Wait, Return, Health, Shutdown

\* The pool implements the lease: a transfer works on an open connection that is
\* its own until it returns it, and never more than Capacity are open.
THEOREM PoolImplementsLease == Spec => ImplementsLease
<1>1. Init => Lease!Init
  BY DEF Init, Lease!Init, Leases
<1> QED
  BY <1>1, PoolTypeCorrect, ControlCorrect, OneOwnerCorrect, PermitsCorrect, LeaseStep, PTL
     DEF Spec, ImplementsLease, Lease!Spec
==============================================================================
