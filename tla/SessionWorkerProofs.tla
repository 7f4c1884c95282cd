------------------------ MODULE SessionWorkerProofs ------------------------
(***************************************************************************)
(* What the phase of a tab says about the connection behind it, for any    *)
(* capacity of the command channel.  The argument is about what is on its  *)
(* way: a tab has at most one connection attempt, which is queued, dialed, *)
(* up, or told of by the events that are still to be handled.              *)
(***************************************************************************)
EXTENDS SessionWorker, SequenceFacts, TLAPS

\* The order in which the events of one attempt are sent; the last rank ends it.
Rank == [e \in Events |->
           CASE e = "Ready" -> 0 [] e = "Connecting" -> 1 [] e = "Connected" -> 2
             [] e = "Exit" -> 3 [] OTHER -> 4]
Ordered(s) == \A i, j \in DOMAIN s : i < j => Rank[s[i]] < Rank[s[j]]

Refusals == {"HostKeyRequired", "Failed", "FailedFatal"}
Closings == {"Closed", "ClosedClean"}
Dialing  == {"Connecting", "Reconnecting"}   \* the phases of an attempt that is not up yet
Up       == {"probe", "run", "teardown"}
Resting  == {"await", "dead"}

News   == Range(evts)
Queued == "Connect" \in Range(cmds)
One(s) == \A i, j \in DOMAIN s : s[i] = "Connect" /\ s[j] = "Connect" => i = j

\* An attempt is queued, with the worker or in the events.
Busy == Queued \/ worker \in Up \cup {"dial"} \/ News \ {"Ready"} # {}

\* Before the worker has announced its channel there is at most a parked Connect.
Unannounced ==
  /\ cmds = <<>> /\ ~hostKey /\ ~due /\ phase \in {"Idle", "Failed", "Connecting"}
  /\ pending => phase = "Connecting"
  /\ \/ worker = "start" /\ News = {}
     \/ worker = "await" /\ News = {"Ready"}

\* Afterwards an attempt goes through the command channel, the worker and the events.
Announced ==
  /\ ~pending /\ worker # "start" /\ "Ready" \notin News
  /\ hostKey => phase = "Connecting"
  /\ due => phase = "Reconnecting"
  /\ Busy => IsActive(phase) /\ ~due /\ ~hostKey
  /\ Queued => worker \in Resting /\ News = {} /\ phase \in Dialing
  /\ worker = "dial" => News \subseteq {"Connecting"} /\ phase \in Dialing
  /\ worker \in Up =>
       /\ IF phase = "Connected" THEN News \subseteq {"Exit"}
                                 ELSE News \subseteq {"Connecting", "Connected", "Exit"} /\ "Connected" \in News
       /\ "Exit" \in News => exited
  /\ worker \in Resting =>
       /\ phase = "Connected" => News \cap Closings # {} /\ News \subseteq Closings \cup {"Exit"}
       /\ phase # "Connected" /\ News # {} =>
            \/ "Connected" \in News /\ News \cap Closings # {}
               /\ News \subseteq Closings \cup {"Connecting", "Connected", "Exit"}
            \/ News \cap Refusals # {} /\ News \subseteq Refusals \cup {"Connecting"}

Gone0 == /\ worker = "dead" /\ cmds = <<>> /\ evts = <<>>
         /\ IsActive(phase) \/ ~pending

IInv == /\ TypeOK /\ Ordered(evts) /\ One(cmds)
        /\ tab \in {"open", "closing", "gone"}
        /\ tab = "gone" => Gone0
        /\ tab # "gone" => IF hasTx THEN Announced ELSE Unannounced

------------------------------------------------------------------------------
\* The ranks, one by one.
LEMMA RankFacts ==
  /\ Rank["Ready"] = 0 /\ Rank["Connecting"] = 1 /\ Rank["Connected"] = 2 /\ Rank["Exit"] = 3
  /\ \A e \in Refusals \cup Closings : e \in Events /\ Rank[e] = 4
  /\ \A e \in Events : Rank[e] \in 0 .. 4
  /\ \A e \in Events : e \in {"Ready", "Connecting", "Connected", "Exit"} \cup Refusals \cup Closings
BY DEF Rank, Events, Refusals, Closings

\* An event that ranks above those on their way joins them.
LEMMA EmitFacts ==
  ASSUME NEW s \in Seq(Events), NEW e \in Events, Ordered(s), \A x \in Range(s) : Rank[x] < Rank[e]
  PROVE  Append(s, e) \in Seq(Events) /\ Ordered(Append(s, e)) /\ Range(Append(s, e)) = Range(s) \cup {e}
<1>1. Append(s, e) \in Seq(Events) /\ Range(Append(s, e)) = Range(s) \cup {e}
  BY AppendFacts
<1>2. Ordered(Append(s, e))
  <2> DEFINE t == Append(s, e)
  <2>1. /\ DOMAIN t = 1 .. Len(s) + 1 /\ t[Len(s) + 1] = e /\ Len(s) \in Nat /\ DOMAIN s = 1 .. Len(s)
        /\ \A i \in 1 .. Len(s) : t[i] = s[i] /\ s[i] \in Range(s)
    BY DEF Range
  <2> HIDE DEF t
  <2> SUFFICES ASSUME NEW i \in 1 .. Len(s) + 1, NEW j \in 1 .. Len(s) + 1, i < j
               PROVE  Rank[t[i]] < Rank[t[j]]
    BY <2>1 DEF Ordered, t
  <2>2. i \in 1 .. Len(s)
    BY <2>1
  <2>3. CASE j \in 1 .. Len(s)
    BY <2>1, <2>2, <2>3 DEF Ordered
  <2>4. CASE j = Len(s) + 1
    BY <2>1, <2>2, <2>4
  <2> QED
    BY <2>1, <2>3, <2>4
<1> QED
  BY <1>1, <1>2

\* The first event ranks below those that follow it.
LEMMA TakeFacts ==
  ASSUME NEW s \in Seq(Events), Ordered(s), s # <<>>
  PROVE  /\ Tail(s) \in Seq(Events) /\ Ordered(Tail(s)) /\ Head(s) \in Range(s) /\ Head(s) \in Events
         /\ Range(Tail(s)) = Range(s) \ {Head(s)}
         /\ \A x \in Range(Tail(s)) : Rank[Head(s)] < Rank[x]
<1>1. /\ Tail(s) \in Seq(Events) /\ Head(s) = s[1] /\ Len(s) \in Nat /\ Len(s) > 0
      /\ DOMAIN s = 1 .. Len(s) /\ DOMAIN Tail(s) = 1 .. Len(s) - 1
      /\ \A i \in 1 .. Len(s) - 1 : i + 1 \in 1 .. Len(s) /\ Tail(s)[i] = s[i + 1]
  BY HeadTailProperties
<1>2. Ordered(Tail(s))
  <2> SUFFICES ASSUME NEW i \in 1 .. Len(s) - 1, NEW j \in 1 .. Len(s) - 1, i < j
               PROVE  Rank[Tail(s)[i]] < Rank[Tail(s)[j]]
    BY <1>1 DEF Ordered
  <2>1. i + 1 < j + 1 /\ i + 1 \in DOMAIN s /\ j + 1 \in DOMAIN s
    BY <1>1
  <2>2. Rank[s[i + 1]] < Rank[s[j + 1]]
    BY <2>1 DEF Ordered
  <2> QED
    BY <1>1, <2>2
<1>3. ASSUME NEW x \in Range(Tail(s)) PROVE Rank[Head(s)] < Rank[x]
  <2>1. PICK i \in 1 .. Len(s) - 1 : x = s[i + 1]
    BY <1>1, <1>3 DEF Range
  <2>2. 1 \in DOMAIN s /\ i + 1 \in DOMAIN s /\ 1 < i + 1
    BY <1>1
  <2>3. Rank[s[1]] < Rank[s[i + 1]]
    BY <2>2 DEF Ordered
  <2> QED
    BY <1>1, <2>1, <2>3
<1>4. Head(s) \in Events /\ Rank[Head(s)] \in Int
  BY TailFacts, RankFacts
<1>5. Head(s) \notin Range(Tail(s))
  BY <1>3, <1>4
<1> QED
  BY <1>1, <1>2, <1>3, <1>4, <1>5, TailFacts

\* A command in the channel: a Connect is one more, any other does not count.
LEMMA SendFacts ==
  ASSUME NEW s \in Seq(Commands), NEW c \in Commands, One(s), c # "Connect" \/ "Connect" \notin Range(s)
  PROVE  Append(s, c) \in Seq(Commands) /\ One(Append(s, c)) /\ Range(Append(s, c)) = Range(s) \cup {c}
<1>1. /\ DOMAIN Append(s, c) = 1 .. Len(s) + 1 /\ Append(s, c)[Len(s) + 1] = c
      /\ Len(s) \in Nat /\ DOMAIN s = 1 .. Len(s)
      /\ \A i \in 1 .. Len(s) : Append(s, c)[i] = s[i] /\ s[i] \in Range(s)
  BY DEF Range
<1>2. \A i \in 1 .. Len(s) + 1 : i \in 1 .. Len(s) \/ i = Len(s) + 1
  BY <1>1
<1>3. One(Append(s, c))
  <2> SUFFICES ASSUME NEW i \in 1 .. Len(s) + 1, NEW j \in 1 .. Len(s) + 1,
                      Append(s, c)[i] = "Connect", Append(s, c)[j] = "Connect"
               PROVE  i = j
    BY <1>1 DEF One
  <2> QED
    BY <1>1, <1>2 DEF One
<1> QED
  BY <1>3, AppendFacts

\* The worker takes the first command.
LEMMA ReceiveFacts ==
  ASSUME NEW s \in Seq(Commands), One(s), s # <<>>
  PROVE  /\ Tail(s) \in Seq(Commands) /\ One(Tail(s)) /\ Len(Tail(s)) < Len(s) /\ Head(s) \in Commands
         /\ "Connect" \in Range(Tail(s)) <=> Head(s) # "Connect" /\ "Connect" \in Range(s)
<1>1. /\ Tail(s) \in Seq(Commands) /\ Head(s) = s[1] /\ Len(s) \in Nat /\ Len(s) > 0
      /\ Len(Tail(s)) = Len(s) - 1
      /\ DOMAIN s = 1 .. Len(s) /\ DOMAIN Tail(s) = 1 .. Len(s) - 1
      /\ \A i \in 1 .. Len(s) - 1 : i + 1 \in 1 .. Len(s) /\ Tail(s)[i] = s[i + 1]
  BY HeadTailProperties
<1>2. One(Tail(s))
  <2> SUFFICES ASSUME NEW i \in 1 .. Len(s) - 1, NEW j \in 1 .. Len(s) - 1,
                      Tail(s)[i] = "Connect", Tail(s)[j] = "Connect"
               PROVE  i = j
    BY <1>1 DEF One
  <2>1. i + 1 = j + 1
    BY <1>1 DEF One
  <2> QED
    BY <2>1
<1>3. Head(s) = "Connect" => "Connect" \notin Range(Tail(s))
  <2> SUFFICES ASSUME s[1] = "Connect", NEW i \in 1 .. Len(s) - 1, Tail(s)[i] = "Connect" PROVE FALSE
    BY <1>1 DEF Range
  <2>1. i + 1 = 1
    BY <1>1 DEF One
  <2> QED
    BY <2>1
<1> QED
  BY <1>1, <1>2, <1>3, TailFacts

------------------------------------------------------------------------------
\* The channels, well formed.
ChannelsOK == /\ cmds \in Seq(Commands) /\ Len(cmds) <= CmdCap /\ One(cmds)
              /\ evts \in Seq(Events) /\ Ordered(evts)
\* The rest of the state, well formed.
RestOK == /\ phase \in Phases
          /\ {userDisc, due, hostKey, exitCode, hasTx, pending, exited, clean} \subseteq BOOLEAN
          /\ worker \in Places /\ presses \in 0 .. MaxDisconnects
          /\ tab \in {"open", "closing", "gone"}
\* What only bears on the heartbeat.
HandOK == {searching, bounced} \subseteq BOOLEAN

\* What a send makes of the command channel.
LEMMA SendCommand ==
  ASSUME ChannelsOK, NEW c \in Commands, c # "Connect" \/ ~Queued, TrySend(c)
  PROVE  /\ cmds' \in Seq(Commands) /\ Len(cmds') <= CmdCap /\ One(cmds')
         /\ c # "Connect" => Queued' = Queued
         /\ Queued' => Queued \/ worker # "dead"
<1>1. CASE cmds' = cmds
  BY <1>1 DEF ChannelsOK, Queued, One
<1>2. CASE Len(cmds) < CmdCap /\ worker # "dead" /\ cmds' = Append(cmds, c)
  <2>1. /\ cmds' \in Seq(Commands) /\ One(cmds') /\ Range(cmds') = Range(cmds) \cup {c}
        /\ Len(cmds') = Len(cmds) + 1
    BY <1>2, SendFacts DEF ChannelsOK, Queued
  <2> QED
    BY <1>2, <2>1, SessionAssumption DEF ChannelsOK, Queued
<1> QED
  BY <1>1, <1>2 DEF TrySend, Room

\* The same, in a step without events.
LEMMA TrySendFacts ==
  ASSUME ChannelsOK, NEW c \in Commands, c # "Connect" \/ ~Queued, TrySend(c), UNCHANGED evts
  PROVE  /\ ChannelsOK' /\ News' = News
         /\ c # "Connect" => Queued' = Queued
         /\ Queued' => Queued \/ worker # "dead"
<1>1. ChannelsOK' /\ News' = News
  BY SendCommand DEF ChannelsOK, News, Ordered
<1> QED
  BY <1>1, SendCommand

\* What handling an event makes of the event stream.
LEMMA TakeEvent ==
  ASSUME ChannelsOK, NEW e, Take(e)
  PROVE  /\ evts' \in Seq(Events) /\ Ordered(evts') /\ e \in News /\ e \in Events /\ News' = News \ {e}
         /\ \A x \in News' : Rank[e] < Rank[x]
BY TakeFacts DEF ChannelsOK, Take, News

\* What sending an event makes of it.
LEMMA EmitEvent ==
  ASSUME ChannelsOK, NEW e \in Events, Emit(e), \A x \in News : Rank[x] < Rank[e]
  PROVE  evts' \in Seq(Events) /\ Ordered(evts') /\ News' = News \cup {e}
BY EmitFacts DEF ChannelsOK, Emit, News

\* What receiving a command makes of the command channel.
LEMMA ReceiveCommand ==
  ASSUME ChannelsOK, cmds # <<>>, cmds' = Tail(cmds)
  PROVE  /\ cmds' \in Seq(Commands) /\ Len(cmds') <= CmdCap /\ One(cmds') /\ Head(cmds) \in Commands
         /\ Queued' <=> Head(cmds) # "Connect" /\ Queued
         /\ Head(cmds) = "Connect" => Queued
<1>1. Head(cmds) \in Range(cmds)
  BY TailFacts DEF ChannelsOK
<1> QED
  BY <1>1, ReceiveFacts, SessionAssumption DEF ChannelsOK, Queued

\* A channel that is left alone.
LEMMA StillFacts ==
  /\ UNCHANGED evts /\ ChannelsOK =>
       evts' \in Seq(Events) /\ Ordered(evts') /\ News' = News
  /\ UNCHANGED cmds /\ ChannelsOK =>
       cmds' \in Seq(Commands) /\ Len(cmds') <= CmdCap /\ One(cmds') /\ Queued' = Queued
BY DEF ChannelsOK, News, Queued, Ordered, One

\* The protocol's part of the invariant.
Protocol == /\ tab = "gone" => Gone0
            /\ tab # "gone" => IF hasTx THEN Announced ELSE Unannounced

\* The invariant, by what it is about; so too after a step.
LEMMA Parts == /\ IInv <=> ChannelsOK /\ RestOK /\ HandOK /\ Protocol
               /\ IInv' <=> ChannelsOK' /\ RestOK' /\ HandOK' /\ Protocol'
BY DEF IInv, ChannelsOK, RestOK, HandOK, Protocol, TypeOK

\* An empty stream has no news, and no event is on its way without news.
LEMMA NoNews == ChannelsOK => (News = {} <=> evts = <<>>) /\ News \subseteq Events
BY RangeFacts DEF ChannelsOK, News

\* The state of a tab with no attempt on its way.
LEMMA QuietFacts ==
  ASSUME Announced, ~Busy, worker \in Places
  PROVE  ~Queued /\ News = {} /\ worker \in Resting /\ ~pending /\ phase # "Connected"
BY DEF Announced, Busy, Closings, Resting, Up, Places

\* A step to a state with nothing in the events and the worker at rest.
LEMMA Quiet ==
  ASSUME ~pending', worker' \in Resting, News' = {}, phase' # "Connected",
         hostKey' => phase' = "Connecting", due' => phase' = "Reconnecting",
         Queued' => ~due' /\ ~hostKey' /\ phase' \in Dialing
  PROVE  Announced'
BY DEF Announced, Busy, Resting, Up, Dialing, IsActive

\* Nor does it matter that a command other than Connect is sent.
LEMMA Push ==
  ASSUME ChannelsOK, Announced, NEW c \in {"Disconnect", "Write"}, TrySend(c),
         UNCHANGED <<phase, due, hostKey, pending, evts, worker, exited>>
  PROVE  ChannelsOK' /\ Announced'
<1>1. ChannelsOK' /\ News' = News /\ Queued' = Queued
  BY TrySendFacts DEF Commands
<1> QED
  BY <1>1 DEF Announced, Busy

\* The user's steps and the backoff's.
LEMMA UserStep ==
  ASSUME ChannelsOK, RestOK, Protocol, User \/ ReconnectTick
  PROVE  ChannelsOK' /\ RestOK' /\ Protocol'
<1>1. tab # "gone" /\ UNCHANGED <<hasTx, exitCode, evts, worker, exited, clean, tab>>
  BY DEF User, Connect, Disconnect, Type, OpenSearch, CloseSearch, AcceptHostKey, RejectHostKey,
         LoadConfig, ReconnectTick, Shown, uiVars, workerVars
<1>2. IF hasTx THEN Announced ELSE Unannounced
  BY <1>1 DEF Protocol
<1>r. ASSUME phase' \in Phases, {userDisc', due', hostKey', pending'} \subseteq BOOLEAN,
             presses' \in 0 .. MaxDisconnects
      PROVE  RestOK'
  BY <1>1, <1>r DEF RestOK
<1>3. worker \in Places /\ pending \in BOOLEAN
  BY DEF RestOK
\* A Connect that is sent or parked.
<1>a. ASSUME hasTx => ~Busy, SendConnect, ~hostKey', ~due', phase' \in Dialing,
             ~hasTx => phase' = "Connecting"
      PROVE  /\ ChannelsOK' /\ Protocol' /\ pending' \in BOOLEAN
  <2>1. CASE hasTx
    <3>1. ChannelsOK' /\ News' = News /\ (Queued' => worker # "dead") /\ pending' = pending
      <4>1. TrySend("Connect") /\ pending' = pending
        BY <2>1, <1>a DEF SendConnect, TryConnect
      <4>2. ~Queued
        BY <1>2, <1>3, <1>a, <2>1, QuietFacts
      <4> QED
        BY <1>1, <4>1, <4>2, TrySendFacts DEF Commands
    <3>2. Announced'
      BY <1>1, <1>2, <1>3, <1>a, <2>1, <3>1, QuietFacts, Quiet DEF Dialing, Resting
    <3> QED
      BY <1>1, <1>2, <1>3, <1>a, <2>1, <3>1, <3>2, QuietFacts DEF Protocol
  <2>2. CASE ~hasTx
    <3>1. cmds' = cmds /\ pending' = TRUE
      BY <1>a, <2>2 DEF SendConnect
    <3>2. ChannelsOK' /\ News' = News
      BY <1>1, <3>1, StillFacts DEF ChannelsOK
    <3>3. Unannounced'
      BY <1>1, <1>2, <1>a, <2>2, <3>1, <3>2 DEF Unannounced
    <3> QED
      BY <1>1, <2>2, <3>1, <3>2, <3>3 DEF Protocol
  <2> QED
    BY <2>1, <2>2
\* A step that leaves the channels alone.
<1>s. ASSUME UNCHANGED <<cmds, pending>>, IF hasTx THEN Announced' ELSE Unannounced'
      PROVE  ChannelsOK' /\ Protocol'
  <2>1. ChannelsOK'
    BY <1>1, <1>s, StillFacts DEF ChannelsOK
  <2> QED
    BY <1>1, <1>s, <2>1 DEF Protocol
<1>n. UNCHANGED cmds => News' = News /\ Queued' = Queued
  BY <1>1, StillFacts
\* A tab that ends up inactive by the user's doing, with nothing on its way.
<1>q. ASSUME hasTx => ~Busy, ~hasTx => ~pending, UNCHANGED <<cmds, pending>>, phase' \in {"Idle", "Failed"}, ~hostKey', ~due'
      PROVE  ChannelsOK' /\ Protocol'
  <2>1. CASE hasTx
    <3>1. Announced'
      BY <1>1, <1>2, <1>3, <1>q, <1>n, <2>1, QuietFacts, Quiet
    <3> QED
      BY <1>s, <1>q, <2>1, <3>1
  <2>2. CASE ~hasTx
    <3>1. Unannounced'
      BY <1>1, <1>2, <1>q, <1>n, <2>2 DEF Unannounced
    <3> QED
      BY <1>s, <1>q, <2>2, <3>1
  <2> QED
    BY <2>1, <2>2
\* With no active phase, or with a key or the backoff waiting, nothing is on its way.
<1>4. /\ ~IsActive(phase) \/ hostKey \/ due => (hasTx => ~Busy)
      /\ ~IsActive(phase) => (~hasTx => ~pending) /\ ~hostKey /\ ~due
      /\ hostKey => hasTx /\ ~due
      /\ due => hasTx /\ ~hostKey /\ phase = "Reconnecting"
  BY <1>2 DEF Announced, Unannounced, IsActive
<1>5. CASE Connect
  <2>1. ~IsActive(phase)
    BY <1>5 DEF Connect
  <2>2. CASE phase' = "Connecting" /\ hostKey' = FALSE /\ due' = FALSE /\ userDisc' = FALSE /\ SendConnect
    <3>1. ChannelsOK' /\ Protocol' /\ pending' \in BOOLEAN
      BY <1>a, <1>4, <2>1, <2>2 DEF Dialing
    <3> QED
      BY <1>5, <2>2, <3>1, <1>r DEF Connect, RestOK, Phases
  <2>3. CASE phase' = "Failed" /\ UNCHANGED <<hostKey, due, userDisc, pending, cmds>>
    <3>1. ChannelsOK' /\ Protocol'
      BY <1>4, <1>q, <2>1, <2>3
    <3> QED
      BY <1>5, <2>3, <3>1, <1>r DEF Connect, RestOK, Phases
  <2> QED
    BY <1>5, <2>2, <2>3 DEF Connect
<1>6. CASE AcceptHostKey
  <2>1. hostKey /\ hostKey' = FALSE /\ due' = due /\ hasTx /\ ~due /\ ~Busy
    BY <1>4, <1>6 DEF AcceptHostKey
  <2>2. CASE phase' = "Connecting" /\ userDisc' = FALSE /\ SendConnect
    <3>1. ChannelsOK' /\ Protocol' /\ pending' \in BOOLEAN
      BY <1>a, <2>1, <2>2 DEF Dialing
    <3> QED
      BY <1>6, <2>1, <2>2, <3>1, <1>r DEF AcceptHostKey, RestOK, Phases
  <2>3. CASE phase' = "Failed" /\ UNCHANGED <<userDisc, pending, cmds>>
    <3>1. ChannelsOK' /\ Protocol'
      BY <1>q, <2>1, <2>3
    <3> QED
      BY <1>6, <2>1, <2>3, <3>1, <1>r DEF AcceptHostKey, RestOK, Phases
  <2> QED
    BY <1>6, <2>2, <2>3 DEF AcceptHostKey
<1>7. CASE RejectHostKey
  <2>1. hostKey /\ hostKey' = FALSE /\ due' = due /\ hasTx /\ ~due /\ ~Busy /\ phase' = "Failed"
    BY <1>4, <1>7 DEF RejectHostKey
  <2>2. ChannelsOK' /\ Protocol'
    BY <1>7, <1>q, <2>1 DEF RejectHostKey
  <2> QED
    BY <1>7, <2>1, <2>2, <1>r DEF RejectHostKey, RestOK, Phases
<1>8. CASE LoadConfig
  <2>1. ~IsActive(phase) /\ phase' = "Idle" /\ UNCHANGED <<hostKey, due, pending, cmds>>
    BY <1>8 DEF LoadConfig
  <2>2. ChannelsOK' /\ Protocol'
    BY <1>4, <1>q, <2>1
  <2> QED
    BY <1>8, <2>1, <2>2, <1>r DEF LoadConfig, RestOK, Phases
<1>9. CASE ReconnectTick
  <2>1. due /\ due' = FALSE /\ phase = "Reconnecting" /\ hasTx /\ ~Busy /\ ~hostKey
    BY <1>4, <1>9 DEF ReconnectTick
  <2>2. CASE userDisc' = FALSE /\ hostKey' = FALSE /\ SendConnect /\ UNCHANGED phase
    <3>1. ChannelsOK' /\ Protocol' /\ pending' \in BOOLEAN
      BY <1>a, <2>1, <2>2 DEF Dialing
    <3> QED
      BY <1>9, <2>1, <2>2, <3>1, <1>r DEF ReconnectTick, RestOK, Phases
  <2>3. CASE phase' = "Failed" /\ UNCHANGED <<userDisc, hostKey, pending, cmds>>
    <3>1. ChannelsOK' /\ Protocol'
      BY <1>q, <2>1, <2>3
    <3> QED
      BY <1>9, <2>1, <2>3, <3>1, <1>r DEF ReconnectTick, RestOK, Phases
  <2> QED
    BY <1>9, <2>2, <2>3 DEF ReconnectTick
<1>10. CASE Disconnect \/ Type
  <2>0. presses \in 0 .. MaxDisconnects /\ presses < MaxDisconnects => presses + 1 \in 0 .. MaxDisconnects
    BY SessionAssumption
  <2>1. /\ phase = "Connected" /\ presses' \in 0 .. MaxDisconnects /\ userDisc' \in BOOLEAN
        /\ UNCHANGED <<phase, due, hostKey, pending>>
        /\ \E c \in {"Disconnect", "Write"} : TrySend(c)
    <3>1. CASE Disconnect
      BY <2>0, <3>1 DEF Disconnect, RestOK
    <3>2. CASE Type
      BY <3>2 DEF Type, RestOK, uiVars
    <3> QED
      BY <1>10, <3>1, <3>2
  <2>2. hasTx /\ Announced
    BY <1>2, <2>1 DEF Unannounced
  <2>3. ChannelsOK' /\ Announced'
    BY <1>1, <2>1, <2>2, Push
  <2>4. RestOK'
    BY <1>1, <2>1 DEF RestOK
  <2> QED
    BY <1>1, <2>2, <2>3, <2>4 DEF Protocol
\* The history search leaves the connection alone, and may send a Write.
<1>11. CASE OpenSearch \/ CloseSearch
  <2>1. /\ UNCHANGED <<phase, userDisc, due, hostKey, pending, presses>>
        /\ UNCHANGED cmds \/ (hasTx /\ TrySend("Write"))
    BY <1>11 DEF OpenSearch, CloseSearch, uiVars
  <2>2. RestOK'
    BY <1>1, <2>1 DEF RestOK
  <2>3. CASE UNCHANGED cmds
    <3>1. IF hasTx THEN Announced' ELSE Unannounced'
      BY <1>1, <1>2, <1>n, <2>1, <2>3 DEF Announced, Unannounced, Busy
    <3> QED
      BY <1>s, <2>1, <2>2, <2>3, <3>1
  <2>4. CASE hasTx /\ TrySend("Write")
    <3>1. ChannelsOK' /\ Announced'
      BY <1>1, <1>2, <2>1, <2>4, Push
    <3> QED
      BY <1>1, <2>2, <2>4, <3>1 DEF Protocol
  <2> QED
    BY <2>1, <2>3, <2>4
<1> QED
  BY <1>5, <1>6, <1>7, <1>8, <1>9, <1>10, <1>11 DEF User

\* Closing a tab.
LEMMA TabStep ==
  ASSUME ChannelsOK, RestOK, Protocol, CloseTab \/ FinalizeClose
  PROVE  ChannelsOK' /\ RestOK' /\ Protocol'
<1>1. CASE CloseTab
  <2>1. tab = "open" /\ tab' = "closing" /\ UNCHANGED <<uiVars, evts, workerVars, presses>>
    BY <1>1 DEF CloseTab
  <2>2. RestOK'
    BY <2>1 DEF RestOK, uiVars, workerVars
  <2>3. CASE hasTx
    <3>1. TrySend("Disconnect") /\ Announced
      BY <1>1, <2>1, <2>3 DEF CloseTab, Protocol
    <3>2. ChannelsOK' /\ Announced'
      BY <2>1, <3>1, Push DEF uiVars, workerVars
    <3> QED
      BY <2>1, <2>2, <2>3, <3>2 DEF Protocol, uiVars
  <2>4. CASE ~hasTx
    <3>1. UNCHANGED cmds /\ Unannounced
      BY <1>1, <2>1, <2>4 DEF CloseTab, Protocol
    <3>2. ChannelsOK' /\ News' = News
      BY <2>1, <3>1, StillFacts DEF ChannelsOK
    <3>3. Unannounced'
      BY <2>1, <3>1, <3>2 DEF Unannounced, uiVars, workerVars
    <3> QED
      BY <2>1, <2>2, <2>4, <3>2, <3>3 DEF Protocol, uiVars
  <2> QED
    BY <2>3, <2>4
<1>2. CASE FinalizeClose
  <2>1. /\ tab = "closing" /\ tab' = "gone" /\ worker' = "dead" /\ cmds' = <<>> /\ evts' = <<>>
        /\ UNCHANGED <<uiVars, exited, clean, presses>>
    BY <1>2 DEF FinalizeClose
  <2>2. RestOK'
    BY <2>1 DEF RestOK, uiVars, Places
  <2>3. ChannelsOK'
    BY <2>1, SessionAssumption DEF ChannelsOK, One, Ordered
  <2>4. IsActive(phase) \/ ~pending
    BY <2>1 DEF Protocol, Announced, Unannounced, IsActive
  <2>5. Gone0'
    BY <2>1, <2>4 DEF Gone0, uiVars, IsActive
  <2> QED
    BY <2>1, <2>2, <2>3, <2>5 DEF Protocol
<1> QED
  BY <1>1, <1>2

\* The worker's steps, and the shell's.
LEMMA WorkerStep ==
  ASSUME ChannelsOK, RestOK, Protocol, Work \/ Shell
  PROVE  ChannelsOK' /\ RestOK' /\ Protocol'
<1>1. tab # "gone" /\ UNCHANGED <<uiVars, tab, presses>>
  <2>1. worker # "dead" /\ UNCHANGED <<uiVars, tab, presses>>
    BY DEF Work, Shell, Announce, Await, Dial, DialOk, DialRefused, StartShell, RunCommand, TearDown,
           ShellExits, ShellCloses
  <2> QED
    BY <2>1 DEF Protocol, Gone0
<1>2. IF hasTx THEN Announced ELSE Unannounced
  BY <1>1 DEF Protocol
<1>3. UNCHANGED <<phase, userDisc, due, hostKey, exitCode, hasTx, pending>>
  BY <1>1 DEF uiVars
<1>r. ASSUME worker' \in Places, {exited', clean'} \subseteq BOOLEAN PROVE RestOK'
  BY <1>1, <1>3, <1>r DEF RestOK
<1>p. ASSUME IF hasTx THEN Announced' ELSE Unannounced' PROVE Protocol'
  BY <1>1, <1>3, <1>p DEF Protocol
<1>4. CASE Announce
  <2>1. ~hasTx /\ Unannounced /\ worker = "start" /\ worker' = "await" /\ Emit("Ready") /\ News = {}
    BY <1>2, <1>4 DEF Announce, Announced, Unannounced
  <2>2. evts' \in Seq(Events) /\ Ordered(evts') /\ News' = {"Ready"}
    BY <2>1, EmitEvent DEF Events
  <2>3. UNCHANGED <<cmds, exited, clean>>
    BY <1>4 DEF Announce
  <2>4. ChannelsOK'
    BY <2>2, <2>3, StillFacts DEF ChannelsOK
  <2>5. Unannounced'
    BY <1>3, <2>1, <2>2, <2>3 DEF Unannounced
  <2> QED
    BY <1>p, <1>r, <2>1, <2>3, <2>4, <2>5 DEF RestOK, Places
\* From here on the channel has been announced.
<1>5. worker # "start" /\ cmds # <<>> => hasTx /\ Announced
  BY <1>2 DEF Unannounced
<1>6. worker \in Up \cup {"dial"} => hasTx /\ Announced
  BY <1>2 DEF Unannounced, Up
<1>7. CASE Await
  <2>1. /\ hasTx /\ Announced /\ worker = "await" /\ cmds # <<>> /\ cmds' = Tail(cmds)
        /\ UNCHANGED <<exited, clean>>
    BY <1>5, <1>7 DEF Await
  <2>2. /\ cmds' \in Seq(Commands) /\ Len(cmds') <= CmdCap /\ One(cmds') /\ Head(cmds) \in Commands
        /\ Queued' <=> Head(cmds) # "Connect" /\ Queued
        /\ Head(cmds) = "Connect" => Queued
    BY <2>1, ReceiveCommand
  <2>3. CASE Head(cmds) = "Connect" /\ worker' = "dial" /\ Emit("Connecting")
    <3>1. News = {} /\ phase \in Dialing /\ Queued /\ ~Queued'
      BY <2>1, <2>2, <2>3 DEF Announced
    <3>2. evts' \in Seq(Events) /\ Ordered(evts') /\ News' = {"Connecting"}
      BY <2>3, <3>1, EmitEvent DEF Events
    <3>3. Announced'
      BY <1>3, <2>1, <2>3, <3>1, <3>2 DEF Announced, Busy, Dialing, IsActive, Up, Resting
    <3> QED
      BY <1>p, <1>r, <2>1, <2>2, <2>3, <3>2, <3>3 DEF ChannelsOK, Places, RestOK
  <2>4. CASE Head(cmds) # "Connect" /\ worker' \in {"await", "dead"} /\ UNCHANGED evts
    <3>1. evts' \in Seq(Events) /\ Ordered(evts') /\ News' = News /\ (Queued' <=> Queued)
      BY <2>2, <2>4, StillFacts
    <3>2. Announced'
      BY <1>3, <2>1, <2>4, <3>1 DEF Announced, Busy, Up, Resting
    <3> QED
      BY <1>p, <1>r, <2>1, <2>2, <2>4, <3>1, <3>2 DEF ChannelsOK, Places, RestOK
  <2> QED
    BY <1>7, <2>1, <2>3, <2>4 DEF Await
\* A step that sends an event and leaves the commands alone.
<1>e. ASSUME NEW e \in Events, Emit(e), UNCHANGED cmds, \A x \in News : Rank[x] < Rank[e]
      PROVE  ChannelsOK' /\ News' = News \cup {e} /\ Queued' = Queued
  BY <1>e, EmitEvent, StillFacts DEF ChannelsOK
\* While the worker has a connection no Connect is queued.
<1>d. worker \in Up \cup {"dial"} => ~Queued /\ IsActive(phase) /\ ~due /\ ~hostKey
  BY <1>2, <1>6 DEF Announced, Busy, Resting, Up
<1>8. CASE DialOk
  <2>1. /\ worker = "dial" /\ worker' = "probe" /\ Emit("Connected") /\ UNCHANGED cmds
        /\ exited' = FALSE /\ clean' = FALSE
    BY <1>8 DEF DialOk
  <2>2. hasTx /\ Announced /\ News \subseteq {"Connecting"} /\ phase \in Dialing
    BY <1>6, <2>1 DEF Announced
  <2>3. ChannelsOK' /\ News' = News \cup {"Connected"} /\ Queued' = Queued
    BY <1>e, <2>1, <2>2, RankFacts DEF Events
  <2>4. Announced'
    BY <1>3, <1>d, <2>1, <2>2, <2>3 DEF Announced, Busy, Dialing, Up, Resting
  <2> QED
    BY <1>p, <1>r, <2>1, <2>2, <2>3, <2>4 DEF Places
<1>9. CASE DialRefused
  <2>1. /\ worker = "dial" /\ worker' = "await" /\ UNCHANGED <<cmds, exited, clean>>
        /\ \E e \in Refusals : Emit(e)
    BY <1>9 DEF DialRefused, Refusals
  <2>2. hasTx /\ Announced /\ News \subseteq {"Connecting"} /\ phase \in Dialing
    BY <1>6, <2>1 DEF Announced
  <2>3. PICK e \in Refusals : Emit(e)
    BY <2>1
  <2>4. ChannelsOK' /\ News' = News \cup {e} /\ Queued' = Queued
    BY <1>e, <2>1, <2>2, <2>3, RankFacts
  <2>5. Announced'
    BY <1>3, <1>d, <2>1, <2>2, <2>3, <2>4 DEF Announced, Busy, Dialing, Up, Resting, Refusals
  <2> QED
    BY <1>p, <1>r, <2>1, <2>2, <2>4, <2>5 DEF Places, RestOK
<1>10. CASE StartShell \/ ShellCloses
  <2>1. worker \in Up /\ worker' \in Up /\ UNCHANGED <<cmds, evts, exited, clean>>
    BY <1>10 DEF StartShell, ShellCloses, Up
  <2>2. hasTx /\ Announced
    BY <1>6, <2>1
  <2>3. ChannelsOK' /\ News' = News /\ Queued' = Queued
    BY <2>1, StillFacts DEF ChannelsOK
  <2>4. Announced'
    BY <1>3, <1>d, <2>1, <2>2, <2>3 DEF Announced, Busy, Dialing, Up, Resting
  <2> QED
    BY <1>p, <1>r, <2>1, <2>2, <2>3, <2>4 DEF Places, RestOK, Up
<1>11. CASE RunCommand
  <2>1. /\ worker = "run" /\ worker' \in Up /\ clean' \in BOOLEAN /\ cmds # <<>> /\ cmds' = Tail(cmds)
        /\ UNCHANGED <<evts, exited>>
    BY <1>11 DEF RunCommand, Up, RestOK
  <2>2. hasTx /\ Announced
    BY <1>6, <2>1 DEF Up
  <2>3. ChannelsOK' /\ News' = News /\ ~Queued'
    BY <1>d, <2>1, ReceiveCommand, StillFacts DEF ChannelsOK, Up
  <2>4. Announced'
    BY <1>3, <1>d, <2>1, <2>2, <2>3 DEF Announced, Busy, Dialing, Up, Resting
  <2> QED
    BY <1>p, <1>r, <2>1, <2>2, <2>3, <2>4 DEF Places, RestOK, Up
<1>12. CASE ShellExits
  <2>1. /\ worker = "run" /\ worker' = "run" /\ ~exited /\ exited' = TRUE /\ Emit("Exit")
        /\ UNCHANGED <<cmds, clean>>
    BY <1>12 DEF ShellExits
  <2>2. hasTx /\ Announced /\ News \subseteq {"Connecting", "Connected"}
    BY <1>6, <2>1 DEF Announced, Up
  <2>3. ChannelsOK' /\ News' = News \cup {"Exit"} /\ Queued' = Queued
    BY <1>e, <2>1, <2>2, RankFacts DEF Events
  <2>4. Announced'
    BY <1>3, <1>d, <2>1, <2>2, <2>3 DEF Announced, Busy, Dialing, Up, Resting
  <2> QED
    BY <1>p, <1>r, <2>1, <2>2, <2>3, <2>4 DEF Places, RestOK
<1>13. CASE TearDown
  <2>1. /\ worker = "teardown" /\ worker' = "await" /\ UNCHANGED <<cmds, exited, clean>>
        /\ \E e \in Closings : Emit(e)
    BY <1>13 DEF TearDown, Closings
  <2>2. hasTx /\ Announced /\ News \subseteq {"Connecting", "Connected", "Exit"}
    BY <1>6, <2>1 DEF Announced, Up
  <2>3. PICK e \in Closings : Emit(e)
    BY <2>1
  <2>4. ChannelsOK' /\ News' = News \cup {e} /\ Queued' = Queued
    BY <1>e, <2>1, <2>2, <2>3, RankFacts
  <2>5. Announced'
    BY <1>3, <1>d, <2>1, <2>2, <2>3, <2>4 DEF Announced, Busy, Dialing, Up, Resting, Closings
  <2> QED
    BY <1>p, <1>r, <2>1, <2>2, <2>4, <2>5 DEF Places, RestOK
<1> QED
  BY <1>4, <1>7, <1>8, <1>9, <1>10, <1>11, <1>12, <1>13 DEF Work, Dial, Shell

\* An event handled: what it says of the attempt, by its rank and what follows it.
LEMMA NewsFacts ==
  ASSUME ChannelsOK, RestOK, Announced, NEW e, Take(e)
  PROVE  /\ e # "Ready" /\ worker \in {"dial"} \cup Up \cup Resting
         /\ IsActive(phase) /\ ~due /\ ~hostKey /\ ~Queued /\ ~pending
         /\ e \in Refusals \cup Closings => News' = {} /\ worker \in Resting
         /\ e \in Refusals \cup {"Connecting"} => phase \in Dialing
         /\ e = "Connected" => News' \subseteq Closings \cup {"Exit"} /\ worker \in Up \cup Resting
         /\ e = "Exit" => phase = "Connected"
         /\ e \in Closings => phase = "Connected"
<1>1. /\ e \in News /\ e \in Events /\ News' = News \ {e} /\ \A x \in News' : Rank[e] < Rank[x]
      /\ News' \subseteq Events
  BY TakeEvent, RangeFacts DEF News
<1>2. Busy /\ e # "Ready" /\ worker \in {"dial"} \cup Up \cup Resting /\ ~Queued /\ ~pending
  BY <1>1 DEF Announced, Busy, RestOK, Places, Up, Resting
<1>3. IsActive(phase) /\ ~due /\ ~hostKey
  BY <1>2 DEF Announced
<1>4. ASSUME e \in Refusals \cup Closings PROVE News' = {}
  BY <1>1, <1>4, RankFacts
<1>5. e \in {"Connected", "Exit"} => News' \cap {"Connecting"} = {}
  BY <1>1, RankFacts
<1>6. e \in {"Exit"} \cup Closings => "Connected" \notin News
  BY <1>1, RankFacts DEF Closings
<1>7. e \in Refusals \cup Closings => worker \in Resting
  BY <1>1, <1>2 DEF Announced, Up, Refusals, Closings
<1>8. e \in Refusals \cup {"Connecting"} => phase \in Dialing
  BY <1>1, <1>2, <1>3 DEF Announced, Up, Resting, Refusals, Closings, Dialing, IsActive
<1>9. e \in {"Exit"} \cup Closings => phase = "Connected"
  BY <1>1, <1>2, <1>6 DEF Announced, Up, Resting, Refusals, Closings
<1>10. e = "Connected" => News' \subseteq Closings \cup {"Exit"} /\ worker \in Up \cup Resting
  BY <1>1, <1>2, <1>5 DEF Announced, Up, Resting, Refusals, Closings
<1> QED
  BY <1>2, <1>3, <1>4, <1>7, <1>8, <1>9, <1>10

\* The app handles an event.
LEMMA EventStep ==
  ASSUME ChannelsOK, RestOK, Protocol, HandleEvent
  PROVE  ChannelsOK' /\ RestOK' /\ Protocol'
<1>1. evts # <<>> /\ UNCHANGED <<worker, exited, clean, tab, presses>>
  BY DEF HandleEvent, OnReady, OnConnecting, OnConnected, OnHostKeyRequired, OnExit, OnClosed, OnFailed,
         Take, workerVars
<1>2. tab # "gone" /\ IF hasTx THEN Announced ELSE Unannounced
  BY <1>1 DEF Protocol, Gone0
<1>r. ASSUME phase' \in Phases, {userDisc', due', hostKey', exitCode', hasTx', pending'} \subseteq BOOLEAN
      PROVE  RestOK'
  BY <1>1, <1>r DEF RestOK
\* Only the announcement is handled before the channel is known.
<1>3. CASE OnReady
  <2>1. /\ Take("Ready") /\ hasTx' = TRUE /\ pending' = FALSE
        /\ IF pending THEN TrySend("Connect") ELSE UNCHANGED cmds
        /\ UNCHANGED <<phase, userDisc, due, hostKey, exitCode>>
    BY <1>3 DEF OnReady, TryConnect
  <2>2. /\ evts' \in Seq(Events) /\ Ordered(evts') /\ "Ready" \in News /\ News' = News \ {"Ready"}
    BY <2>1, TakeEvent
  <2>3. ~hasTx /\ Unannounced /\ worker = "await" /\ News' = {} /\ cmds = <<>> /\ ~Queued
    BY <1>2, <2>2 DEF Announced, Unannounced, Queued, Range
  <2>4. cmds' \in Seq(Commands) /\ Len(cmds') <= CmdCap /\ One(cmds') /\ (Queued' => pending)
    <3>1. CASE pending
      BY <2>1, <2>3, <3>1, SendCommand DEF Commands
    <3>2. CASE ~pending
      BY <2>1, <2>3, <3>2, StillFacts
    <3> QED
      BY <3>1, <3>2
  <2>5. Announced'
    BY <1>1, <2>1, <2>3, <2>4, Quiet DEF Unannounced, Resting, Dialing
  <2> QED
    BY <1>1, <1>2, <1>r, <2>1, <2>2, <2>4, <2>5 DEF ChannelsOK, Protocol, RestOK
\* Every other event tells of an attempt.
<1>4. ASSUME NEW e \in Events \ {"Ready"}, Take(e) PROVE hasTx /\ Announced
  BY <1>2, <1>4, TakeEvent DEF Unannounced
<1>5. ASSUME NEW e \in Events \ {"Ready"}, Take(e), UNCHANGED cmds
      PROVE  ChannelsOK' /\ News' = News \ {e} /\ Queued' = Queued
  BY <1>5, TakeEvent, StillFacts DEF ChannelsOK
<1>p. ASSUME hasTx', Announced' PROVE Protocol'
  BY <1>1, <1>2, <1>p DEF Protocol
\* An event that ends the attempt.
<1>e. ASSUME NEW e \in Refusals \cup Closings, Take(e), UNCHANGED <<cmds, hasTx, pending>>,
             phase' # "Connected", hostKey' => phase' = "Connecting", due' => phase' = "Reconnecting"
      PROVE  ChannelsOK' /\ Protocol'
  <2>1. e \in Events \ {"Ready"}
    BY <1>e DEF Refusals, Closings, Events
  <2>2. hasTx /\ Announced /\ ChannelsOK' /\ Queued' = Queued
    BY <1>e, <1>4, <1>5, <2>1
  <2>3. News' = {} /\ worker \in Resting /\ ~Queued /\ ~pending
    BY <1>e, <2>2, NewsFacts
  <2>4. Announced'
    BY <1>1, <1>e, <2>2, <2>3, Quiet
  <2> QED
    BY <1>p, <1>e, <2>2, <2>4
<1>6. CASE OnConnecting
  <2>1. /\ Take("Connecting") /\ UNCHANGED <<userDisc, due, hostKey, exitCode, hasTx, pending, cmds>>
        /\ phase' = IF phase = "Reconnecting" THEN phase ELSE "Connecting"
    BY <1>6 DEF OnConnecting
  <2>2. hasTx /\ Announced /\ ChannelsOK' /\ News' = News \ {"Connecting"} /\ Queued' = Queued
    BY <1>4, <1>5, <2>1 DEF Events
  <2>3. phase \in Dialing /\ ~due /\ ~hostKey /\ ~Queued /\ ~pending
    BY <2>1, <2>2, NewsFacts
  <2>4. Announced'
    BY <1>1, <2>1, <2>2, <2>3 DEF Announced, Busy, Up, Resting, Dialing, IsActive, Refusals, Closings
  <2> QED
    BY <1>p, <1>r, <2>1, <2>2, <2>4 DEF RestOK, Phases
<1>7. CASE OnConnected
  <2>1. /\ Take("Connected") /\ UNCHANGED <<hasTx, pending, cmds>> /\ phase' = "Connected"
        /\ exitCode' = FALSE /\ hostKey' = FALSE /\ due' = FALSE /\ userDisc' = FALSE
    BY <1>7 DEF OnConnected
  <2>2. hasTx /\ Announced /\ ChannelsOK' /\ News' = News \ {"Connected"} /\ Queued' = Queued
    BY <1>4, <1>5, <2>1 DEF Events
  <2>3. "Connected" \in News
    BY <2>1, TakeEvent
  <2>4. /\ ~Queued /\ ~pending /\ News' \subseteq Closings \cup {"Exit"} /\ worker \in Up \cup Resting
    BY <2>1, <2>2, NewsFacts
  <2>5. Announced'
    BY <1>1, <2>1, <2>2, <2>3, <2>4 DEF Announced, Busy, Up, Resting, IsActive, Refusals, Closings
  <2> QED
    BY <1>p, <1>r, <2>1, <2>2, <2>5 DEF RestOK, Phases
<1>8. CASE OnHostKeyRequired
  <2>1. /\ Take("HostKeyRequired") /\ UNCHANGED <<userDisc, due, exitCode, hasTx, pending, cmds>>
        /\ hostKey' = TRUE /\ phase' = "Connecting"
    BY <1>8 DEF OnHostKeyRequired
  <2>2. ~due
    BY <1>4, <2>1, NewsFacts DEF Events
  <2>3. ChannelsOK' /\ Protocol'
    BY <1>e, <2>1, <2>2 DEF Refusals
  <2> QED
    BY <1>r, <2>1, <2>3 DEF RestOK, Phases
<1>9. CASE OnExit
  <2>1. /\ Take("Exit") /\ UNCHANGED <<phase, userDisc, due, hostKey, hasTx, pending, cmds>> /\ exitCode' = TRUE
    BY <1>9 DEF OnExit
  <2>2. hasTx /\ Announced /\ ChannelsOK' /\ News' = News \ {"Exit"} /\ Queued' = Queued
    BY <1>4, <1>5, <2>1 DEF Events
  <2>3. phase = "Connected" /\ ~due /\ ~hostKey /\ ~Queued /\ ~pending
    BY <2>1, <2>2, NewsFacts
  <2>4. Announced'
    BY <1>1, <2>1, <2>2, <2>3 DEF Announced, Busy, Up, Resting, IsActive, Refusals, Closings
  <2> QED
    BY <1>p, <1>r, <2>1, <2>2, <2>4 DEF RestOK
<1>10. ASSUME NEW isClean \in BOOLEAN, NEW auto \in BOOLEAN, OnClosed(isClean, auto)
       PROVE  ChannelsOK' /\ RestOK' /\ Protocol'
  <2>1. PICK e \in Closings : Take(e)
    BY <1>10 DEF OnClosed, Closings
  <2>2. e \in Events \ {"Ready"}
    BY DEF Closings, Events
  <2>3. ~hostKey
    BY <1>4, <2>1, <2>2, NewsFacts
  <2>4. /\ UNCHANGED <<hostKey, hasTx, pending, cmds>> /\ userDisc' = FALSE /\ exitCode' = FALSE
        /\ phase' \in {"User", "Exited", "Reconnecting", "Remote"} /\ due' = (phase' = "Reconnecting")
    BY <1>10 DEF OnClosed, AfterClose
  <2>5. ChannelsOK' /\ Protocol'
    BY <1>e, <2>1, <2>3, <2>4
  <2> QED
    BY <1>r, <2>4, <2>5 DEF RestOK, Phases, Closed
<1>11. ASSUME NEW fatal \in BOOLEAN, OnFailed(fatal)
       PROVE  ChannelsOK' /\ RestOK' /\ Protocol'
  <2>1. PICK e \in Refusals : Take(e)
    BY <1>11 DEF OnFailed, Refusals
  <2>2. e \in Events \ {"Ready"}
    BY DEF Refusals, Events
  <2>3. ~hostKey /\ ~due
    BY <1>4, <2>1, <2>2, NewsFacts
  <2>4. /\ UNCHANGED <<userDisc, hostKey, exitCode, hasTx, pending, cmds>>
        /\ \/ phase' = "Reconnecting" /\ due' = TRUE
           \/ phase' = "Failed" /\ due' = due
    BY <1>11 DEF OnFailed
  <2>5. ChannelsOK' /\ Protocol'
    BY <1>e, <2>1, <2>3, <2>4
  <2> QED
    BY <1>r, <2>4, <2>5 DEF RestOK, Phases
<1> QED
  BY <1>3, <1>6, <1>7, <1>8, <1>9, <1>10, <1>11 DEF HandleEvent

\* The search is open or not, and a Connect finds room or not.
LEMMA HandStep ==
  ASSUME HandOK, [Next]_vars
  PROVE  HandOK'
<1>1. searching' \in {searching, TRUE, FALSE}
  <2>1. CASE User
    BY <2>1 DEF User, Connect, Disconnect, Type, OpenSearch, CloseSearch, AcceptHostKey, RejectHostKey,
            LoadConfig
  <2>2. CASE ReconnectTick \/ HandleEvent \/ UNCHANGED vars
    BY <2>2 DEF vars, ReconnectTick, HandleEvent, OnReady, OnConnecting, OnConnected, OnHostKeyRequired,
            OnExit, OnClosed, OnFailed
  <2>3. CASE Work \/ Shell \/ CloseTab \/ FinalizeClose \/ Gone
    BY <2>3 DEF vars, Work, Shell, CloseTab, FinalizeClose, Gone, Announce, Await, Dial, DialOk,
            DialRefused, StartShell, RunCommand, TearDown, ShellExits, ShellCloses
  <2> QED
    BY <2>1, <2>2, <2>3 DEF Next
<1>2. bounced' = bounced \/ bounced' = ~Room
  <2>1. CASE User
    BY <2>1 DEF User, Connect, Disconnect, Type, OpenSearch, CloseSearch, AcceptHostKey, RejectHostKey,
            LoadConfig, SendConnect, TryConnect, uiVars
  <2>2. CASE ReconnectTick \/ HandleEvent \/ UNCHANGED vars
    BY <2>2 DEF vars, uiVars, ReconnectTick, HandleEvent, OnReady, OnConnecting, OnConnected,
            OnHostKeyRequired, OnExit, OnClosed, OnFailed, SendConnect, TryConnect
  <2>3. CASE Work \/ Shell \/ CloseTab \/ FinalizeClose \/ Gone
    BY <2>3 DEF vars, uiVars, Work, Shell, CloseTab, FinalizeClose, Gone, Announce, Await, Dial, DialOk,
            DialRefused, StartShell, RunCommand, TearDown, ShellExits, ShellCloses
  <2> QED
    BY <2>1, <2>2, <2>3 DEF Next
<1>3. bounced' \in BOOLEAN
  <2>1. CASE bounced' = ~Room
    BY <2>1, Zenon
  <2> QED
    BY <1>2, <2>1 DEF HandOK
<1> QED
  BY <1>1, <1>3 DEF HandOK

\* Every step keeps the invariant.
LEMMA StepIInv == IInv /\ [Next]_vars => IInv'
<1> SUFFICES ASSUME ChannelsOK, RestOK, Protocol, [Next]_vars PROVE ChannelsOK' /\ RestOK' /\ Protocol'
  BY Parts, HandStep
<1>1. CASE UNCHANGED vars
  <2>1. ChannelsOK' /\ RestOK' /\ News' = News /\ Queued' = Queued
    BY <1>1, StillFacts DEF vars, uiVars, workerVars, ChannelsOK, RestOK
  <2>2. (Announced => Announced') /\ (Unannounced => Unannounced') /\ (Gone0 => Gone0')
    BY <1>1, <2>1 DEF vars, uiVars, workerVars, Announced, Unannounced, Gone0, Busy
  <2> QED
    BY <1>1, <2>1, <2>2 DEF Protocol, vars, uiVars
<1> QED
  BY <1>1, UserStep, TabStep, WorkerStep, EventStep DEF Next, Gone

\* A new tab has nothing on its way.
LEMMA InitIInv == Init => IInv
<1> SUFFICES ASSUME Init PROVE IInv
  OBVIOUS
<1>1. ChannelsOK
  BY SessionAssumption DEF Init, ChannelsOK, Ordered, One
<1>4. RestOK
  <2>1. {userDisc, due, hostKey, exitCode, hasTx, pending, exited, clean} = {FALSE}
    BY DEF Init
  <2>2. presses \in 0 .. MaxDisconnects
    BY SessionAssumption DEF Init
  <2> QED
    BY <2>1, <2>2 DEF Init, RestOK, Phases, Places
<1>2. News = {}
  BY DEF Init, News, Range
<1>3. Unannounced
  BY <1>2 DEF Init, Unannounced
<1> QED
  BY <1>1, <1>3, <1>4, Parts DEF Init, Protocol, HandOK

\* Every reachable state satisfies the invariant.
LEMMA Invariant == Spec => []IInv
BY InitIInv, StepIInv, PTL DEF Spec

------------------------------------------------------------------------------
\* Every reachable state is well formed.
THEOREM TypeCorrect == Spec => []TypeOK
<1>1. IInv => TypeOK
  BY DEF IInv
<1> QED
  BY <1>1, Invariant, PTL

\* A tab that is not active has no connection behind it nor one on its way, a Connect is
\* queued at most once and for a worker that waits for it, and a tab shown connected has
\* a connection or is about to hear that it ended.
THEOREM SessionSoundCorrect == Spec => []SessionSound
<1>1. IInv => NoGhostConnection
  <2> SUFFICES ASSUME ChannelsOK, RestOK, Protocol, ~IsActive(phase) PROVE Quiescent
    BY Parts DEF NoGhostConnection
  <2>1. worker \in {"start", "await", "dead"} /\ ~Queued /\ News \subseteq {"Ready"} /\ ~pending
    <3>1. CASE tab = "gone"
      BY <3>1 DEF Protocol, Gone0, Queued, News, Range
    <3>2. CASE tab # "gone" /\ hasTx
      <4>1. Announced /\ ~Busy /\ worker \in Places
        BY <3>2 DEF Protocol, Announced, RestOK
      <4> QED
        BY <4>1, QuietFacts DEF Resting
    <3>3. CASE tab # "gone" /\ ~hasTx
      BY <3>3 DEF Protocol, Unannounced, Queued, Range, IsActive
    <3> QED
      BY <3>1, <3>2, <3>3
  <2> QED
    BY <2>1 DEF Quiescent, Queued, News, Range
<1>2. IInv => ConnectNeverWasted
  <2> DEFINE queued == {i \in DOMAIN cmds : cmds[i] = "Connect"}
  <2> SUFFICES ASSUME ChannelsOK, Protocol
               PROVE  /\ \A i, j \in queued : i = j
                      /\ queued # {} => ~pending /\ worker \in {"await", "dead"}
    BY Parts DEF ConnectNeverWasted
  <2>1. \A i, j \in queued : i = j
    BY DEF ChannelsOK, One
  <2>2. ASSUME queued # {} PROVE ~pending /\ worker \in Resting
    <3>1. Queued /\ cmds # <<>>
      BY <2>2 DEF Queued, Range
    <3> QED
      BY <3>1 DEF Protocol, Gone0, Announced, Unannounced
  <2> QED
    BY <2>1, <2>2 DEF Resting
<1>3. IInv => ConnectedIsTrue
  <2> SUFFICES ASSUME RestOK, Protocol, phase = "Connected", tab # "gone",
                      worker \notin {"probe", "run", "teardown"}
               PROVE  \E i \in DOMAIN evts : evts[i] \in {"Closed", "ClosedClean"}
    BY Parts DEF ConnectedIsTrue
  <2>1. Announced
    BY DEF Protocol, Unannounced
  <2>2. worker \in Resting
    BY <2>1 DEF Announced, RestOK, Places, Resting, Dialing
  <2> QED
    BY <2>1, <2>2 DEF Announced, News, Range, Closings
<1> QED
  BY <1>1, <1>2, <1>3, Invariant, PTL DEF SessionSound

\* Once the user has pressed Disconnect on a connected tab, it becomes his disconnect and
\* nothing else.
THEOREM UserDisconnectWinsCorrect == Spec => UserDisconnectWins
<1> DEFINE Wins == phase = "Connected" /\ userDisc => phase' \in {"Connected", "User"}
<1>1. IInv /\ [Next]_vars => [Wins]_vars
  <2> SUFFICES ASSUME ChannelsOK, RestOK, Protocol, Next, phase = "Connected", userDisc
               PROVE  phase' \in {"Connected", "User"}
    BY Parts DEF vars, uiVars
  <2>1. tab # "gone" => hasTx /\ Announced /\ ~hostKey /\ ~due
    BY DEF Protocol, Announced, Unannounced
  <2>2. CASE UNCHANGED phase
    BY <2>2
  <2>3. CASE User \/ ReconnectTick
    <3>1. phase' = phase
      BY <2>1, <2>3 DEF User, Connect, Disconnect, Type, OpenSearch, CloseSearch, AcceptHostKey,
                        RejectHostKey, LoadConfig, ReconnectTick, Shown, IsActive, uiVars
    <3> QED
      BY <3>1
  <2>4. CASE HandleEvent
    <3>1. tab # "gone"
      BY <2>4 DEF HandleEvent, OnReady, OnConnecting, OnConnected, OnHostKeyRequired, OnExit, OnClosed,
                  OnFailed, Take, Protocol, Gone0
    <3>2. ASSUME NEW e, Take(e) PROVE e \notin Refusals \cup {"Connecting"}
      BY <2>1, <3>1, <3>2, NewsFacts DEF Dialing
    <3>3. ~OnConnecting /\ ~OnHostKeyRequired /\ \A fatal \in BOOLEAN : ~OnFailed(fatal)
      BY <3>2 DEF OnConnecting, OnHostKeyRequired, OnFailed, Refusals
    <3> QED
      BY <2>4, <3>3 DEF HandleEvent, OnReady, OnConnected, OnExit, OnClosed, AfterClose
  <2> QED
    BY <2>2, <2>3, <2>4 DEF Next, Work, Shell, CloseTab, FinalizeClose, Gone, Announce, Await, Dial, DialOk,
         DialRefused, StartShell, RunCommand, TearDown, ShellExits, ShellCloses, vars, uiVars
<1> QED
  BY <1>1, Invariant, PTL DEF Spec, UserDisconnectWins
=============================================================================
