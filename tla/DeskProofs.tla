------------------------------ MODULE DeskProofs ------------------------------
(***************************************************************************)
(* The machines of the user interface keep what MCDesk's run checks, for   *)
(* all values of their bounds.  Each machine has an invariant that its own *)
(* steps keep; a step of MCDesk is a step of one machine and lets the      *)
(* others rest, so each theorem at the end is the machine's invariant      *)
(* under MCSpec.                                                           *)
(***************************************************************************)
EXTENDS MCDesk, SessionWorkerProofs, SequenceFacts, FiniteSetTheorems, FunctionTheorems,
        WellFoundedInduction, TLAPS

------------------------------------------------------------------------------
(* The grid.                                                                *)

\* The commands the app sends, and those that carry a size.
Orders == {<<"disconnect">>} \cup ({"connect", "resize"} \X Size!Grids)

\* The last of the commands of the kinds K carries the size g; d stands for it when there is none.
LastSize(cs, K, d, g) ==
  \/ \E i \in DOMAIN cs : cs[i][1] \in K /\ cs[i][2] = g /\ \A j \in DOMAIN cs : j > i => cs[j][1] \notin K
  \/ d = g /\ \A j \in DOMAIN cs : cs[j][1] \notin K

\* A command sent behind them.
LEMMA LastAppend ==
  ASSUME NEW S, NEW cs \in Seq(S), NEW e \in S, NEW K, NEW d, NEW g,
         IF e[1] \in K THEN e[2] = g ELSE LastSize(cs, K, d, g)
  PROVE  LastSize(Append(cs, e), K, d, g)
<1> DEFINE t == Append(cs, e)
<1>1. /\ DOMAIN cs = 1 .. Len(cs) /\ DOMAIN t = 1 .. Len(cs) + 1 /\ Len(cs) \in Nat
      /\ t[Len(cs) + 1] = e /\ \A i \in 1 .. Len(cs) : t[i] = cs[i]
  OBVIOUS
<1> SUFFICES LastSize(t, K, d, g)
  OBVIOUS
<1> HIDE DEF t
<1>2. CASE e[1] \in K
  <2>1. \A j \in DOMAIN t : ~ (j > Len(cs) + 1)
    BY <1>1
  <2>2. Len(cs) + 1 \in DOMAIN t
    BY <1>1
  <2> QED
    BY <1>1, <1>2, <2>1, <2>2 DEF LastSize
<1>3. CASE e[1] \notin K
  <2>1. \A j \in DOMAIN t : j \in DOMAIN cs \/ t[j] = e
    BY <1>1
  <2>2. DOMAIN cs \subseteq DOMAIN t
    BY <1>1
  <2>3. LastSize(cs, K, d, g)
    BY <1>3
  <2>4. CASE d = g /\ \A j \in DOMAIN cs : cs[j][1] \notin K
    BY <1>1, <1>3, <2>1, <2>4 DEF LastSize
  <2>5. CASE \E i \in DOMAIN cs : cs[i][1] \in K /\ cs[i][2] = g /\ \A j \in DOMAIN cs : j > i => cs[j][1] \notin K
    <3>1. PICK i \in DOMAIN cs : cs[i][1] \in K /\ cs[i][2] = g /\ \A j \in DOMAIN cs : j > i => cs[j][1] \notin K
      BY <2>5
    <3>2. i \in DOMAIN t /\ t[i] = cs[i]
      BY <1>1, <2>2
    <3>3. \A j \in DOMAIN t : j > i => t[j][1] \notin K
      BY <1>1, <1>3, <2>1, <3>1
    <3>4. t[i][1] \in K /\ t[i][2] = g
      BY <3>1, <3>2
    <3>5. \E k \in DOMAIN t : t[k][1] \in K /\ t[k][2] = g /\ \A j \in DOMAIN t : j > k => t[j][1] \notin K
      BY ONLY <3>2, <3>3, <3>4, Zenon
    <3> QED
      BY ONLY <3>5, Zenon DEF LastSize
  <2> QED
    BY <2>3, <2>4, <2>5 DEF LastSize
<1> QED
  BY <1>2, <1>3 DEF t

\* The first of them is taken.
LEMMA LastTail ==
  ASSUME NEW S, NEW cs \in Seq(S), cs # <<>>, NEW K, NEW d, NEW g, LastSize(cs, K, d, g)
  PROVE  LastSize(Tail(cs), K, IF Head(cs)[1] \in K THEN Head(cs)[2] ELSE d, g)
<1> DEFINE t == Tail(cs)
           n == IF Head(cs)[1] \in K THEN Head(cs)[2] ELSE d
<1>1. /\ DOMAIN cs = 1 .. Len(cs) /\ DOMAIN t = 1 .. Len(cs) - 1 /\ Len(cs) \in Nat /\ Len(cs) > 0
      /\ Head(cs) = cs[1] /\ \A i \in 1 .. Len(cs) - 1 : t[i] = cs[i + 1]
  OBVIOUS
<1> HIDE DEF t
<1>2. \A j \in DOMAIN t : j + 1 \in DOMAIN cs /\ t[j] = cs[j + 1]
  BY <1>1
<1>3. CASE d = g /\ \A j \in DOMAIN cs : cs[j][1] \notin K
  <2>1. n = g
    BY <1>1, <1>3
  <2> QED
    BY <1>2, <1>3, <2>1 DEF LastSize
<1>4. ASSUME NEW i \in DOMAIN cs, cs[i][1] \in K, cs[i][2] = g, \A j \in DOMAIN cs : j > i => cs[j][1] \notin K
      PROVE  LastSize(t, K, n, g)
  <2>1. CASE i = 1
    <3>1. n = g
      BY <1>1, <1>4, <2>1
    <3>2. \A j \in DOMAIN t : t[j][1] \notin K
      BY <1>1, <1>2, <1>4, <2>1
    <3> QED
      BY <3>1, <3>2 DEF LastSize
  <2>2. CASE i # 1
    <3>1. i - 1 \in DOMAIN t /\ t[i - 1] = cs[i]
      BY <1>1, <2>2
    <3>2. \A j \in DOMAIN t : j > i - 1 => t[j][1] \notin K
      BY <1>1, <1>2, <1>4
    <3> QED
      BY <1>4, <3>1, <3>2 DEF LastSize
  <2> QED
    BY <2>1, <2>2
<1> QED
  BY <1>3, <1>4 DEF LastSize, t

\* No command carries a size.
LEMMA LastNil == ASSUME NEW K, NEW d, NEW g PROVE LastSize(<<>>, K, d, g) <=> d = g
BY DEF LastSize

\* With a command of the kinds there, nothing stands in for it.
LEMMA LastAny ==
  ASSUME NEW cs, NEW K, NEW d, NEW e, NEW g, LastSize(cs, K, d, g), \E i \in DOMAIN cs : cs[i][1] \in K
  PROVE  LastSize(cs, K, e, g)
BY DEF LastSize

\* Without a connect only the resizes count.
LEMMA LastResize ==
  ASSUME NEW cs, NEW d, NEW g, \A i \in DOMAIN cs : cs[i][1] # "connect"
  PROVE  LastSize(cs, {"connect", "resize"}, d, g) <=> LastSize(cs, {"resize"}, d, g)
BY DEF LastSize

ConnectAt == {i \in DOMAIN gridCmds : gridCmds[i][1] = "connect"}
Asked == ConnectAt # {}
GridRests == gridWorker \in {"idle", "gone"}

\* An attempt to connect: asked for, under way, up, or over; or never begun.
Trying ==
  \/ Asked /\ GridRests /\ news = <<>>
  \/ ~Asked /\ gridWorker = "dialing" /\ news = <<>>
  \/ ~Asked /\ gridWorker = "up" /\ news = <<"connected">>
  \/ ~Asked /\ GridRests /\ news \in {<<>>, <<"failed">>, <<"connected", "closed">>, <<"connected", "dropped">>}

\* Where an attempt stands, by the phase of the tab.
GridProtocol ==
  /\ gridPhase = "idle" => ~Asked /\ GridRests /\ news = <<>>
  /\ gridPhase \in {"connecting", "reconnecting"} => Trying
  /\ gridDue => gridPhase = "reconnecting" /\ ~Asked /\ GridRests /\ news = <<>>
  /\ gridPhase = "connected" => /\ ~Asked
                                /\ \/ gridWorker = "up" /\ news = <<>>
                                   \/ GridRests /\ news \in {<<"closed">>, <<"dropped">>}
  /\ \A i, j \in ConnectAt : i = j

\* The grid is the last size on its way, or the PTY's when none is.
SizeArrives ==
  /\ Asked => LastSize(gridCmds, {"connect", "resize"}, pty, grid)
  /\ gridWorker \in {"dialing", "up"} => LastSize(gridCmds, {"resize"}, pty, grid)

GridInv == Size!TypeOK /\ GridProtocol /\ Size!FitsKnownArea /\ (~lost => SizeArrives)

\* The command channel's room is a number.
LEMMA GridRoom == GridCap \in Nat
BY DeskAssumption

\* The app starts with a grid that fits its area.
LEMMA GridFirst == Size!GridInit => GridInv
<1> SUFFICES ASSUME Size!GridInit PROVE GridInv
  OBVIOUS
<1>1. window \in WindowSizes
  BY DeskAssumption DEF Size!GridInit
<1>2. Size!TypeOK
  <2>1. known \in WindowSizes /\ grid \in Size!Grids /\ pty \in Size!Grids
    BY <1>1 DEF Size!GridInit, Size!Grids
  <2>2. gridCmds \in Seq(Orders) /\ Len(gridCmds) <= GridCap
    BY GridRoom DEF Size!GridInit
  <2>3. news \in Seq({"connected", "closed", "dropped", "failed"}) /\ Len(news) <= 2
    BY DEF Size!GridInit
  <2>4. deaf \in BOOLEAN /\ shown \in BOOLEAN /\ lost \in BOOLEAN /\ gridDue \in BOOLEAN
    BY DEF Size!GridInit
  <2>5. gridPhase \in Size!Phases /\ gridWorker \in {"idle", "dialing", "up", "gone"}
    BY DEF Size!GridInit, Size!Phases
  <2> QED
    BY <1>1, <2>1, <2>2, <2>3, <2>4, <2>5 DEF Size!TypeOK, Orders
<1>3. ConnectAt = {}
  BY DEF Size!GridInit, ConnectAt
<1> QED
  BY <1>2, <1>3 DEF GridInv, GridProtocol, Asked, GridRests, Size!FitsKnownArea, SizeArrives, Size!GridInit

\* The commands stay commands.
LEMMA OrderFact == Size!TypeOK => gridCmds \in Seq(Orders)
BY DEF Size!TypeOK, Orders

\* A command is sent, or there is no room.
Sent(c) == gridCmds' = Append(gridCmds, c) /\ Len(gridCmds) < GridCap

\* The grid follows the area, and a resize is sent for it, or refused, or not needed.
LEMMA ApplyFacts ==
  ASSUME NEW ahead, NEW ph, Size!Apply(ahead, ph)
  PROVE  /\ grid' = Size!Area(ahead, ph)
         /\ \/ gridCmds' = gridCmds /\ lost' = lost /\ (grid' = grid \/ ph = "idle")
            \/ gridCmds' = gridCmds /\ lost' = TRUE
            \/ Sent(<<"resize", grid'>>) /\ lost' = lost
BY DEF Size!Apply, Size!IsActive, Size!HasRoom, Sent

\* A connect carries the grid, or finds no room.
LEMMA ConnectFacts ==
  ASSUME Size!SendConnect
  PROVE  \/ gridCmds' = gridCmds /\ lost' = lost
         \/ Sent(<<"connect", grid'>>) /\ lost' = FALSE
BY DEF Size!SendConnect, Size!HasRoom, Sent

\* A step of the grid keeps it well formed.
LEMMA GridTypesStep == GridInv /\ [Size!GridNext]_sizeVars => Size!TypeOK'
<1> SUFFICES ASSUME Size!TypeOK, GridProtocol, [Size!GridNext]_sizeVars PROVE Size!TypeOK'
  BY DEF GridInv
<1> DEFINE Heard == {"connected", "closed", "dropped", "failed"}
<1> USE DEF Size!WindowResized, Size!Overlay, Size!SelectTab, Size!Connect, Size!Reconnect, Size!Disconnect,
            Size!TakeIdle, Size!TakeUp, Size!Drop, Size!OnEvent, Size!Dialed
<1>0. gridCmds \in Seq(Orders) /\ Len(gridCmds) <= GridCap
  BY DEF Size!TypeOK, Orders
<1>1. window' \in WindowSizes /\ known' \in WindowSizes
  BY DEF Size!TypeOK, Size!GridNext, sizeVars, Size!Apply
<1>2. deaf' \in BOOLEAN
  BY DEF Size!TypeOK, Size!GridNext, sizeVars
<1>3. shown' \in BOOLEAN
  BY DEF Size!TypeOK, Size!GridNext, sizeVars
<1>4. lost' \in BOOLEAN
  BY DEF Size!TypeOK, Size!GridNext, sizeVars, Size!Apply, Size!SendConnect
<1>5. gridDue' \in BOOLEAN
  BY DEF Size!TypeOK, Size!GridNext, sizeVars
<1>6. ASSUME NEW ahead \in BOOLEAN, NEW ph PROVE Size!Area(ahead, ph) \in Size!Grids
  <2>1. (ahead /\ ph = "connected") \in BOOLEAN
    OBVIOUS
  <2> QED
    BY <1>1, <2>1 DEF Size!Area, Size!Grids
<1>7. grid' \in Size!Grids
  <2>1. shown \in BOOLEAN /\ grid \in Size!Grids
    BY DEF Size!TypeOK
  <2>2. CASE grid' = grid
    BY <2>1, <2>2
  <2>3. ASSUME NEW ahead \in BOOLEAN, NEW ph, grid' = Size!Area(ahead, ph) PROVE grid' \in Size!Grids
    BY <1>6, <2>3
  <2>4. grid' = grid \/ \E ahead \in BOOLEAN : \E ph : grid' = Size!Area(ahead, ph)
    BY <1>3, <2>1 DEF Size!GridNext, sizeVars, Size!Apply
  <2> QED
    BY <2>2, <2>3, <2>4
<1>8. gridPhase' \in Size!Phases
  <2>1. \A e : Size!After(e) \in Size!Phases \/ e \notin Heard
    BY DEF Size!After, Size!Phases
  <2>2. gridPhase \in Size!Phases /\ {"idle", "connecting"} \subseteq Size!Phases
    BY DEF Size!TypeOK, Size!Phases
  <2>3. news # <<>> => Head(news) \in Heard
    BY DEF Size!TypeOK
  <2> QED
    BY <2>1, <2>2, <2>3 DEF Size!GridNext, sizeVars
<1>9. gridWorker' \in {"idle", "dialing", "up", "gone"}
  <2>1. gridCmds # <<>> => Head(gridCmds)[1] \in {"connect", "resize", "disconnect"}
    <3>1. gridCmds # <<>> => Head(gridCmds) \in Orders
      BY <1>0
    <3> QED
      BY <3>1 DEF Orders
  <2>2. gridWorker \in {"idle", "dialing", "up", "gone"}
    BY DEF Size!TypeOK
  <2> QED
    BY <2>1, <2>2 DEF Size!GridNext, sizeVars
<1>10. pty' \in Size!Grids
  <2>1. ASSUME gridCmds # <<>> PROVE Head(gridCmds) \in Orders
    BY <1>0, <2>1
  <2>2. \A c \in Orders : c[1] \in {"connect", "resize"} => c[2] \in Size!Grids
    BY DEF Orders
  <2>3. pty \in Size!Grids
    BY DEF Size!TypeOK
  <2>4. gridCmds # <<>> => Head(gridCmds)[1] \in {"connect", "resize", "disconnect"}
    BY <2>1 DEF Orders
  <2>5. pty' = pty \/ (gridCmds # <<>> /\ Head(gridCmds)[1] \in {"connect", "resize"} /\ pty' = Head(gridCmds)[2])
    BY <2>4 DEF Size!GridNext, sizeVars
  <2> QED
    BY <2>1, <2>2, <2>3, <2>5
<1>11. gridCmds' \in Seq(Orders) /\ Len(gridCmds') <= GridCap
  <2>1. \A c \in {<<"connect", grid'>>, <<"resize", grid'>>, <<"disconnect">>} : c \in Orders
    BY <1>7 DEF Orders
  <2>2. ASSUME NEW c \in Orders, Len(gridCmds) < GridCap PROVE Append(gridCmds, c) \in Seq(Orders) /\ Len(Append(gridCmds, c)) <= GridCap
    BY <1>0, <2>2, GridRoom
  <2>3. ASSUME gridCmds # <<>> PROVE Tail(gridCmds) \in Seq(Orders) /\ Len(Tail(gridCmds)) <= GridCap
    BY <1>0, <2>3, GridRoom
  <2> QED
    BY <1>0, <2>1, <2>2, <2>3 DEF Size!GridNext, sizeVars, Size!Apply, Size!SendConnect, Size!HasRoom
<1>12. news' \in Seq(Heard) /\ Len(news') <= 2
  <2>0. news \in Seq(Heard) /\ Len(news) <= 2
    BY DEF Size!TypeOK
  <2>1. ASSUME NEW e \in Heard, Len(news) < 2 PROVE Append(news, e) \in Seq(Heard) /\ Len(Append(news, e)) <= 2
    BY <2>0, <2>1
  <2>2. ASSUME news # <<>> PROVE Tail(news) \in Seq(Heard) /\ Len(Tail(news)) <= 2
    BY <2>0, <2>2
  <2> QED
    BY <2>0, <2>1, <2>2 DEF Size!GridNext, sizeVars, Size!Tell
<1> QED
  BY <1>1, <1>2, <1>3, <1>4, <1>5, <1>7, <1>8, <1>9, <1>10, <1>11, <1>12 DEF Size!TypeOK, Orders

\* The rest of a row of commands, or one command more, and where a connect is in it.
LEMMA ConnectMoves ==
  ASSUME gridCmds \in Seq(Orders)
  PROVE  /\ gridCmds' = gridCmds => ConnectAt' = ConnectAt
         /\ gridCmds # <<>> /\ gridCmds' = Tail(gridCmds) =>
              /\ \A i \in ConnectAt' : i + 1 \in ConnectAt
              /\ \A i \in ConnectAt : (i = 1 /\ Head(gridCmds)[1] = "connect") \/ i - 1 \in ConnectAt'
              /\ Head(gridCmds)[1] = "connect" => 1 \in ConnectAt
              /\ ConnectAt' \subseteq Nat \ {0}
         /\ \A c \in Orders : gridCmds' = Append(gridCmds, c) =>
              ConnectAt' = ConnectAt \cup (IF c[1] = "connect" THEN {Len(gridCmds) + 1} ELSE {})
<1>1. CASE gridCmds' = gridCmds
  BY <1>1 DEF ConnectAt
<1>2. ASSUME gridCmds # <<>>, gridCmds' = Tail(gridCmds)
      PROVE  /\ \A i \in ConnectAt' : i + 1 \in ConnectAt
             /\ \A i \in ConnectAt : (i = 1 /\ Head(gridCmds)[1] = "connect") \/ i - 1 \in ConnectAt'
             /\ Head(gridCmds)[1] = "connect" => 1 \in ConnectAt
             /\ ConnectAt' \subseteq Nat \ {0}
  <2>1. /\ DOMAIN gridCmds = 1 .. Len(gridCmds) /\ DOMAIN gridCmds' = 1 .. Len(gridCmds) - 1
        /\ Len(gridCmds) \in Nat /\ Len(gridCmds) > 0 /\ Head(gridCmds) = gridCmds[1]
        /\ \A i \in 1 .. Len(gridCmds) - 1 : gridCmds'[i] = gridCmds[i + 1]
    BY <1>2
  <2>2. \A i \in DOMAIN gridCmds' : i + 1 \in DOMAIN gridCmds /\ i \in Nat \ {0}
    BY <2>1
  <2>3. \A i \in DOMAIN gridCmds : i = 1 \/ (i - 1 \in DOMAIN gridCmds' /\ gridCmds'[i - 1] = gridCmds[i])
    BY <2>1
  <2> QED
    BY <2>1, <2>2, <2>3 DEF ConnectAt
<1>3. ASSUME NEW c \in Orders, gridCmds' = Append(gridCmds, c)
      PROVE  ConnectAt' = ConnectAt \cup (IF c[1] = "connect" THEN {Len(gridCmds) + 1} ELSE {})
  <2>1. /\ DOMAIN gridCmds = 1 .. Len(gridCmds) /\ DOMAIN gridCmds' = 1 .. Len(gridCmds) + 1
        /\ Len(gridCmds) \in Nat /\ gridCmds'[Len(gridCmds) + 1] = c
        /\ \A i \in 1 .. Len(gridCmds) : gridCmds'[i] = gridCmds[i]
    BY <1>3
  <2>2. \A i \in DOMAIN gridCmds' : i \in DOMAIN gridCmds \/ i = Len(gridCmds) + 1
    BY <2>1
  <2>3. \A i \in DOMAIN gridCmds : i \in DOMAIN gridCmds' /\ gridCmds'[i] = gridCmds[i]
    BY <2>1
  <2> QED
    BY <2>1, <2>2, <2>3 DEF ConnectAt
<1> QED
  BY <1>1, <1>2, <1>3

\* A size that is sent asks for no connect.
LEMMA ApplyAsksNot ==
  ASSUME Size!TypeOK, Size!TypeOK', NEW ahead, NEW ph, Size!Apply(ahead, ph)
  PROVE  ConnectAt' = ConnectAt
<1>1. gridCmds \in Seq(Orders) /\ grid' \in Size!Grids
  BY OrderFact DEF Size!TypeOK
<1>2. CASE gridCmds' = gridCmds
  BY <1>2 DEF ConnectAt
<1>3. CASE Sent(<<"resize", grid'>>)
  <2>1. <<"resize", grid'>> \in Orders
    BY <1>1 DEF Orders
  <2> QED
    BY <1>1, <1>3, <2>1, ConnectMoves DEF Sent
<1> QED
  BY <1>2, <1>3, ApplyFacts

\* The first of a row.
LEMMA AppendNil == ASSUME NEW s, s = <<>>, NEW e PROVE Append(s, e) = <<e>>
<1> DEFINE t == Append(s, e)
           u == <<e>>
<1>1. s \in Seq({e}) /\ Len(s) = 0
  OBVIOUS
<1>2. t \in Seq({e}) /\ Len(t) = 1 /\ t[1] = e /\ u \in Seq({e}) /\ Len(u) = 1 /\ u[1] = e
  BY <1>1
<1> HIDE DEF t, u
<1>3. \A i \in 1 .. Len(t) : t[i] = u[i]
  BY <1>2
<1>4. t = u
  BY <1>2, <1>3, SeqEqual
<1> QED
  BY <1>4 DEF t, u

\* The events, two at most.
LEMMA NewsMoves ==
  ASSUME NEW e \in {"connected", "closed", "dropped", "failed"}
  PROVE  /\ Append(<<>>, e) = <<e>> /\ Append(<<"connected">>, e) = <<"connected", e>>
         /\ Head(<<e>>) = e /\ Tail(<<e>>) = <<>> /\ <<e>> # <<>>
         /\ Head(<<"connected", e>>) = "connected" /\ Tail(<<"connected", e>>) = <<e>> /\ <<"connected", e>> # <<>>
<1> DEFINE Happened == {"connected", "closed", "dropped", "failed"}
           one == <<"connected">>
           two == <<"connected", e>>
<1>1. Append(<<>>, e) = <<e>>
  BY AppendNil
<1>2. one \in Seq(Happened) /\ two \in Seq(Happened) /\ Len(one) = 1 /\ Len(two) = 2
      /\ one[1] = "connected" /\ two[1] = "connected" /\ two[2] = e
  OBVIOUS
<1>3. Append(one, e) = two
  <2>1. Append(one, e) \in Seq(Happened) /\ Len(Append(one, e)) = 2
        /\ Append(one, e)[1] = "connected" /\ Append(one, e)[2] = e
    BY <1>2
  <2>2. \A i \in 1 .. 2 : Append(one, e)[i] = two[i]
    <3>1. \A i \in 1 .. 2 : i = 1 \/ i = 2
      OBVIOUS
    <3> QED
      BY <1>2, <2>1, <3>1
  <2> HIDE DEF one, two, Happened
  <2> QED
    BY <1>2, <2>1, <2>2, SeqEqual
<1>4. Head(<<e>>) = e /\ <<e>> # <<>> /\ Head(two) = "connected" /\ two # <<>>
  OBVIOUS
<1>5. Tail(<<e>>) = <<>>
  OBVIOUS
<1>6. Tail(two) = <<e>>
  OBVIOUS
<1> QED
  BY <1>1, <1>3, <1>4, <1>5, <1>6

\* A step of the grid keeps the attempt and the phase of the tab in step.
LEMMA ProtocolStep == Size!TypeOK /\ Size!TypeOK' /\ GridProtocol /\ [Size!GridNext]_sizeVars => GridProtocol'
<1> SUFFICES ASSUME Size!TypeOK, Size!TypeOK', GridProtocol, [Size!GridNext]_sizeVars PROVE GridProtocol'
  OBVIOUS
<1> USE DEF Asked, GridRests, Trying
<1>0. gridCmds \in Seq(Orders) /\ grid' \in Size!Grids /\ gridPhase \in Size!Phases
  BY OrderFact DEF Size!TypeOK
<1>1. ASSUME UNCHANGED <<gridPhase, gridDue, news, gridWorker>>, ConnectAt' = ConnectAt PROVE GridProtocol'
  BY <1>1 DEF GridProtocol
<1>2. CASE UNCHANGED sizeVars
  <2>1. ConnectAt' = ConnectAt /\ UNCHANGED <<gridPhase, gridDue, news, gridWorker>>
    BY <1>2 DEF sizeVars, ConnectAt
  <2> QED
    BY <1>1, <2>1
<1>3. ASSUME NEW size \in WindowSizes, Size!WindowResized(size) PROVE GridProtocol'
  <2>1. ConnectAt' = ConnectAt
    BY <1>3, ApplyAsksNot DEF Size!WindowResized, ConnectAt
  <2> QED
    BY <1>1, <1>3, <2>1 DEF Size!WindowResized
<1>4. CASE Size!Overlay
  BY <1>1, <1>4 DEF Size!Overlay, ConnectAt
<1>5. CASE Size!SelectTab
  BY <1>1, <1>5, ApplyAsksNot DEF Size!SelectTab
<1>6. CASE Size!Disconnect
  <2>1. <<"disconnect">> \in Orders /\ <<"disconnect">>[1] # "connect"
    BY DEF Orders
  <2>2. ConnectAt' = ConnectAt
    BY <1>0, <1>6, <2>1, ConnectMoves DEF Size!Disconnect
  <2> QED
    BY <1>1, <1>6, <2>2 DEF Size!Disconnect
<1>7. ASSUME ~Asked, GridRests, news = <<>>, Size!SendConnect, UNCHANGED <<news, gridWorker>>,
             ~gridDue', gridPhase' \in {"connecting", "reconnecting"}
      PROVE  GridProtocol'
  <2>1. <<"connect", grid'>> \in Orders
    BY <1>0 DEF Orders
  <2>2. ConnectAt' = {} \/ ConnectAt' = {Len(gridCmds) + 1}
    BY <1>0, <1>7, <2>1, ConnectFacts, ConnectMoves DEF Sent
  <2>3. ConnectAt' # {} => Asked'
    OBVIOUS
  <2> QED
    BY <1>7, <2>2, <2>3 DEF GridProtocol
<1>8. CASE Size!Connect
  BY <1>7, <1>8 DEF Size!Connect, GridProtocol
<1>9. CASE Size!Reconnect
  BY <1>7, <1>9 DEF Size!Reconnect, GridProtocol
<1>10. CASE Size!TakeIdle
  <2>1. gridCmds # <<>> /\ gridCmds' = Tail(gridCmds) /\ UNCHANGED <<gridPhase, gridDue, news>> /\ gridWorker = "idle"
    BY <1>10 DEF Size!TakeIdle
  <2>2. /\ \A i \in ConnectAt' : i + 1 \in ConnectAt
        /\ \A i \in ConnectAt : (i = 1 /\ Head(gridCmds)[1] = "connect") \/ i - 1 \in ConnectAt'
        /\ Head(gridCmds)[1] = "connect" => 1 \in ConnectAt
        /\ ConnectAt' \subseteq Nat \ {0}
    BY <1>0, <2>1, ConnectMoves
  <2>3. \A i, j \in ConnectAt : i = j
    BY DEF GridProtocol
  <2>4. \A i, j \in ConnectAt' : i = j
    BY <2>2, <2>3
  <2>5. CASE Head(gridCmds)[1] = "connect"
    <3>1. ConnectAt # {} /\ ConnectAt' = {}
      BY <2>2, <2>3, <2>5
    <3>2. gridWorker' = "dialing"
      BY <1>10, <2>5 DEF Size!TakeIdle
    <3>3. gridPhase \in {"connecting", "reconnecting"} /\ news = <<>> /\ ~gridDue
      BY <1>0, <2>1, <3>1 DEF GridProtocol, Size!Phases
    <3> QED
      BY <2>1, <3>1, <3>2, <3>3 DEF GridProtocol
  <2>6. CASE Head(gridCmds)[1] # "connect"
    <3>1. Asked' <=> Asked
      BY <2>2, <2>6
    <3>2. gridWorker' \in {"idle", "gone"}
      <4>1. Head(gridCmds) \in Orders
        BY <1>0, <2>1
      <4>2. Head(gridCmds)[1] \in {"resize", "disconnect"}
        BY <2>6, <4>1 DEF Orders
      <4> QED
        BY <1>10, <2>1, <4>2 DEF Size!TakeIdle
    <3> QED
      BY <2>1, <2>4, <3>1, <3>2 DEF GridProtocol
  <2> QED
    BY <2>5, <2>6
<1>11. ASSUME gridWorker = "up"
       PROVE  /\ ~Asked /\ ~gridDue
              /\ \/ gridPhase \in {"connecting", "reconnecting"} /\ news = <<"connected">>
                 \/ gridPhase = "connected" /\ news = <<>>
  <2>1. CASE gridPhase = "idle"
    BY <1>11, <2>1 DEF GridProtocol
  <2>2. CASE gridPhase \in {"connecting", "reconnecting"}
    BY <1>11, <2>2 DEF GridProtocol
  <2>3. CASE gridPhase = "connected"
    BY <1>11, <2>3 DEF GridProtocol
  <2> QED
    BY <1>0, <2>1, <2>2, <2>3 DEF Size!Phases
<1>12. ASSUME NEW e \in {"closed", "dropped"}, gridWorker = "up", news' = Append(news, e), gridWorker' = "idle",
              ConnectAt' = {}, UNCHANGED <<gridPhase, gridDue>>
       PROVE  GridProtocol'
  <2>1. CASE gridPhase \in {"connecting", "reconnecting"} /\ news = <<"connected">>
    BY <1>11, <1>12, <2>1, NewsMoves DEF GridProtocol
  <2>2. CASE gridPhase = "connected" /\ news = <<>>
    BY <1>11, <1>12, <2>2, NewsMoves DEF GridProtocol
  <2> QED
    BY <1>11, <1>12, <2>1, <2>2
<1>13. CASE Size!TakeUp
  <2>1. gridCmds # <<>> /\ gridCmds' = Tail(gridCmds) /\ UNCHANGED <<gridPhase, gridDue>> /\ gridWorker = "up"
    BY <1>13 DEF Size!TakeUp
  <2>2. ConnectAt = {}
    BY <1>11, <2>1
  <2>3. ConnectAt' = {} /\ Head(gridCmds)[1] # "connect"
    BY <1>0, <2>1, <2>2, ConnectMoves
  <2>4. \/ UNCHANGED <<gridWorker, news>>
        \/ news' = Append(news, "closed") /\ gridWorker' = "idle"
    BY <1>13, <2>3 DEF Size!TakeUp, Size!Tell
  <2> QED
    BY <1>1, <1>12, <2>1, <2>2, <2>3, <2>4
<1>14. CASE Size!Drop
  <2>1. ConnectAt' = ConnectAt
    BY <1>14 DEF Size!Drop, ConnectAt
  <2> QED
    BY <1>11, <1>12, <1>14, <2>1 DEF Size!Drop, Size!Tell
<1>15. ASSUME NEW ok \in BOOLEAN, Size!Dialed(ok) PROVE GridProtocol'
  <2>1. ConnectAt' = ConnectAt /\ UNCHANGED <<gridPhase, gridDue>> /\ gridWorker = "dialing"
    BY <1>15 DEF Size!Dialed, ConnectAt
  <2>2. ~Asked /\ ~gridDue /\ gridPhase \in {"connecting", "reconnecting"} /\ news = <<>>
    BY <1>0, <2>1 DEF GridProtocol, Size!Phases
  <2>3. \/ news' = <<"connected">> /\ gridWorker' = "up"
        \/ news' = <<"failed">> /\ gridWorker' = "idle"
    <3>2. \/ news' = Append(news, "connected") /\ gridWorker' = "up"
          \/ news' = Append(news, "failed") /\ gridWorker' = "idle"
      BY <1>15 DEF Size!Dialed, Size!Tell
    <3>3. news = <<>>
      BY <2>2
    <3>4. Append(news, "connected") = <<"connected">> /\ Append(news, "failed") = <<"failed">>
      BY <3>3, AppendNil
    <3> QED
      BY <3>2, <3>4, Zenon
  <2> QED
    BY <2>1, <2>2, <2>3 DEF GridProtocol
<1>16. CASE Size!OnEvent
  <2>1. ConnectAt' = ConnectAt /\ UNCHANGED gridWorker /\ news # <<>> /\ news' = Tail(news)
        /\ gridPhase' = Size!After(Head(news)) /\ gridDue' = (gridPhase' = "reconnecting")
    BY <1>16, ApplyAsksNot DEF Size!OnEvent
  <2>2. /\ ~Asked
        /\ \/ gridPhase \in {"connecting", "reconnecting"} /\ gridWorker = "up" /\ news = <<"connected">>
           \/ gridPhase \in {"connecting", "reconnecting"} /\ GridRests
              /\ news \in {<<"failed">>, <<"connected", "closed">>, <<"connected", "dropped">>}
           \/ gridPhase = "connected" /\ GridRests /\ news \in {<<"closed">>, <<"dropped">>}
    BY <1>0, <2>1 DEF GridProtocol, Size!Phases
  <2>3. CASE news = <<"connected">> /\ gridWorker = "up"
    <3>1. news' = <<>> /\ gridPhase' = "connected"
      BY <2>1, <2>3, NewsMoves DEF Size!After
    <3> QED
      BY <2>1, <2>2, <2>3, <3>1 DEF GridProtocol
  <2>4. ASSUME NEW e \in {"closed", "dropped"}, news = <<"connected", e>>, GridRests PROVE GridProtocol'
    <3>1. news' = <<e>> /\ gridPhase' = "connected"
      BY <2>1, <2>4, NewsMoves DEF Size!After
    <3> QED
      BY <2>1, <2>2, <2>4, <3>1 DEF GridProtocol
  <2>5. ASSUME NEW e \in {"failed", "closed", "dropped"}, news = <<e>>, GridRests PROVE GridProtocol'
    <3>1. news' = <<>> /\ gridPhase' \in {"idle", "reconnecting"}
      BY <2>1, <2>5, NewsMoves DEF Size!After
    <3> QED
      BY <2>1, <2>2, <2>5, <3>1 DEF GridProtocol
  <2> QED
    BY <2>2, <2>3, <2>4, <2>5
<1> QED
  BY <1>2, <1>3, <1>4, <1>5, <1>6, <1>8, <1>9, <1>10, <1>13, <1>14, <1>15, <1>16 DEF Size!GridNext

\* A size that the app derives is the last one on its way, or a channel was full.
LEMMA ApplyArrives ==
  ASSUME Size!TypeOK, Size!TypeOK', GridProtocol', ~lost => SizeArrives,
         NEW ahead \in BOOLEAN, Size!Apply(ahead, gridPhase'), UNCHANGED <<gridWorker, pty>>
  PROVE  ~lost' => SizeArrives'
<1> SUFFICES ASSUME ~lost' PROVE SizeArrives'
  OBVIOUS
<1>0. gridCmds \in Seq(Orders) /\ grid' \in Size!Grids /\ ConnectAt' = ConnectAt
  BY OrderFact, ApplyAsksNot DEF Size!TypeOK
<1>1. CASE gridCmds' = gridCmds /\ lost' = lost /\ grid' = grid
  <2>1. SizeArrives
    BY <1>1
  <2> QED
    BY <1>0, <1>1, <2>1 DEF SizeArrives, Asked
<1>2. CASE gridPhase' = "idle"
  BY <1>2 DEF GridProtocol, GridRests, SizeArrives
<1>3. CASE Sent(<<"resize", grid'>>) /\ lost' = lost
  <2>1. <<"resize", grid'>> \in Orders /\ <<"resize", grid'>>[1] = "resize" /\ <<"resize", grid'>>[2] = grid'
    BY <1>0 DEF Orders
  <2>2. ASSUME NEW K, "resize" \in K PROVE LastSize(gridCmds', K, pty, grid')
    BY <1>0, <1>3, <2>1, <2>2, LastAppend DEF Sent
  <2> QED
    BY <2>2 DEF SizeArrives
<1>4. \/ gridCmds' = gridCmds /\ lost' = lost /\ (grid' = grid \/ gridPhase' = "idle")
      \/ gridCmds' = gridCmds /\ lost' = TRUE
      \/ Sent(<<"resize", grid'>>) /\ lost' = lost
  BY ApplyFacts
<1> QED
  BY <1>1, <1>2, <1>3, <1>4

\* The last size is the grid's, whatever happens.
LEMMA ArrivesStep ==
  ASSUME Size!TypeOK, Size!TypeOK', GridProtocol, GridProtocol', ~lost => SizeArrives, [Size!GridNext]_sizeVars
  PROVE  ~lost' => SizeArrives'
<1> SUFFICES ASSUME ~lost' PROVE SizeArrives'
  OBVIOUS
<1> DEFINE Both == {"connect", "resize"}
<1>0. gridCmds \in Seq(Orders) /\ grid' \in Size!Grids /\ gridPhase \in Size!Phases /\ shown' \in BOOLEAN /\ shown \in BOOLEAN
  BY OrderFact DEF Size!TypeOK
<1>1. ASSUME UNCHANGED <<gridCmds, grid, gridWorker, pty, lost>> PROVE SizeArrives'
  <2>1. SizeArrives /\ ConnectAt' = ConnectAt
    BY <1>1 DEF ConnectAt
  <2> QED
    BY <1>1, <2>1 DEF SizeArrives, Asked
<1>2. CASE UNCHANGED sizeVars
  BY <1>1, <1>2 DEF sizeVars
<1>3. ASSUME NEW size \in WindowSizes, Size!WindowResized(size) PROVE SizeArrives'
  <2>1. CASE deaf
    BY <1>1, <1>3, <2>1 DEF Size!WindowResized
  <2>2. CASE ~deaf
    <3>1. Size!Apply(shown, gridPhase') /\ UNCHANGED <<gridWorker, pty>>
      BY <1>3, <2>2 DEF Size!WindowResized
    <3> QED
      BY <1>0, <3>1, ApplyArrives
  <2> QED
    BY <2>1, <2>2
<1>4. CASE Size!Overlay
  BY <1>1, <1>4 DEF Size!Overlay
<1>5. CASE Size!SelectTab
  <2>1. Size!Apply(shown', gridPhase') /\ UNCHANGED <<gridWorker, pty>>
    BY <1>5 DEF Size!SelectTab
  <2> QED
    BY <1>0, <2>1, ApplyArrives
<1>6. CASE Size!OnEvent
  <2>1. Size!Apply(shown, gridPhase') /\ UNCHANGED <<gridWorker, pty>>
    BY <1>6 DEF Size!OnEvent
  <2> QED
    BY <1>0, <2>1, ApplyArrives
<1>7. CASE Size!Disconnect
  <2>1. <<"disconnect">> \in Orders /\ <<"disconnect">>[1] = "disconnect"
    BY DEF Orders
  <2>2. SizeArrives /\ gridCmds' = Append(gridCmds, <<"disconnect">>) /\ UNCHANGED <<grid, gridWorker, pty>>
    BY <1>7 DEF Size!Disconnect
  <2>3. ConnectAt' = ConnectAt
    BY <1>0, <2>1, <2>2, ConnectMoves
  <2>4. ASSUME NEW K, "disconnect" \notin K, LastSize(gridCmds, K, pty, grid) PROVE LastSize(gridCmds', K, pty, grid)
    BY <1>0, <2>1, <2>2, <2>4, LastAppend
  <2> QED
    BY <2>2, <2>3, <2>4 DEF SizeArrives, Asked
<1>8. ASSUME ~Asked, GridRests, UNCHANGED <<gridWorker, pty>>, Size!SendConnect PROVE SizeArrives'
  <2>1. CASE gridCmds' = gridCmds
    BY <1>8, <2>1 DEF SizeArrives, Asked, ConnectAt, GridRests
  <2>2. CASE Sent(<<"connect", grid'>>)
    <3>1. <<"connect", grid'>> \in Orders /\ <<"connect", grid'>>[1] = "connect" /\ <<"connect", grid'>>[2] = grid'
      BY <1>0 DEF Orders
    <3>2. LastSize(gridCmds', Both, pty, grid')
      BY <1>0, <2>2, <3>1, LastAppend DEF Sent
    <3> QED
      BY <1>8, <3>2 DEF SizeArrives, GridRests
  <2> QED
    BY <1>8, <2>1, <2>2, ConnectFacts
<1>9. CASE Size!Connect
  BY <1>8, <1>9 DEF Size!Connect, GridProtocol
<1>10. CASE Size!Reconnect
  BY <1>8, <1>10 DEF Size!Reconnect, GridProtocol
<1>11. ASSUME gridCmds # <<>>, gridCmds' = Tail(gridCmds), UNCHANGED <<grid, lost>>
       PROVE  /\ SizeArrives
              /\ \A i \in ConnectAt' : i + 1 \in ConnectAt
              /\ Head(gridCmds) \in Orders
              /\ Head(gridCmds)[1] \in {"connect", "resize", "disconnect"}
              /\ Asked => LastSize(gridCmds', Both, IF Head(gridCmds)[1] \in Both THEN Head(gridCmds)[2] ELSE pty, grid')
              /\ gridWorker \in {"dialing", "up"} =>
                   LastSize(gridCmds', {"resize"}, IF Head(gridCmds)[1] \in {"resize"} THEN Head(gridCmds)[2] ELSE pty, grid')
  <2>1. SizeArrives
    BY <1>11
  <2>2. \A i \in ConnectAt' : i + 1 \in ConnectAt
    BY <1>0, <1>11, ConnectMoves
  <2>3. Head(gridCmds) \in Orders
    BY <1>0, <1>11
  <2>4. Head(gridCmds)[1] \in {"connect", "resize", "disconnect"}
    BY <2>3 DEF Orders
  <2>5. ASSUME NEW K, LastSize(gridCmds, K, pty, grid)
        PROVE  LastSize(gridCmds', K, IF Head(gridCmds)[1] \in K THEN Head(gridCmds)[2] ELSE pty, grid')
    BY <1>0, <1>11, <2>5, LastTail
  <2>6. Asked => LastSize(gridCmds, Both, pty, grid)
    BY <2>1 DEF SizeArrives
  <2>7. gridWorker \in {"dialing", "up"} => LastSize(gridCmds, {"resize"}, pty, grid)
    BY <2>1 DEF SizeArrives
  <2> HIDE DEF Both
  <2> QED
    BY <2>1, <2>2, <2>3, <2>4, <2>5, <2>6, <2>7
<1>12. CASE Size!TakeIdle
  <2>0. gridCmds # <<>> /\ gridCmds' = Tail(gridCmds) /\ UNCHANGED <<grid, lost>> /\ gridWorker = "idle"
    BY <1>12 DEF Size!TakeIdle
  <2>1. Asked' => Asked
    BY <1>11, <2>0 DEF Asked
  <2>2. CASE Head(gridCmds)[1] = "connect"
    <3>1. gridWorker' = "dialing" /\ pty' = Head(gridCmds)[2]
      BY <1>12, <2>2 DEF Size!TakeIdle
    <3>2. 1 \in ConnectAt
      BY <1>0, <2>0, <2>2, ConnectMoves
    <3>3. ConnectAt' = {}
      <4>1. \A i \in ConnectAt' : i + 1 \in ConnectAt /\ i \in Nat \ {0}
        BY <1>0, <2>0, ConnectMoves
      <4>2. \A i, j \in ConnectAt : i = j
        BY DEF GridProtocol
      <4> QED
        BY <3>2, <4>1, <4>2
    <3>4. Asked
      BY <3>2 DEF Asked
    <3>5. LastSize(gridCmds', Both, pty', grid')
      BY <1>11, <2>0, <2>2, <3>1, <3>4
    <3>6. \A i \in DOMAIN gridCmds' : gridCmds'[i][1] # "connect"
      BY <3>3 DEF ConnectAt
    <3>7. LastSize(gridCmds', {"resize"}, pty', grid')
      BY <3>5, <3>6, LastResize
    <3> QED
      BY <3>3, <3>7 DEF SizeArrives, Asked
  <2>3. CASE Head(gridCmds)[1] # "connect"
    <3>1. pty' = pty /\ gridWorker' \notin {"dialing", "up"}
      BY <1>11, <1>12, <2>0, <2>3 DEF Size!TakeIdle
    <3>2. ASSUME Asked' PROVE LastSize(gridCmds', Both, pty, grid')
      <4>1. \E i \in DOMAIN gridCmds' : gridCmds'[i][1] \in Both
        BY <3>2 DEF Asked, ConnectAt
      <4>2. LastSize(gridCmds', Both, IF Head(gridCmds)[1] \in Both THEN Head(gridCmds)[2] ELSE pty, grid')
        BY <1>11, <2>0, <2>1, <3>2
      <4> HIDE DEF Both
      <4> QED
        BY <4>1, <4>2, LastAny
    <3> QED
      BY <3>1, <3>2 DEF SizeArrives
  <2> QED
    BY <2>2, <2>3
<1>13. gridWorker = "up" => ~Asked
  BY <1>0 DEF GridProtocol, Trying, GridRests, Size!Phases
<1>14. CASE Size!TakeUp
  <2>0. gridCmds # <<>> /\ gridCmds' = Tail(gridCmds) /\ UNCHANGED <<grid>> /\ gridWorker = "up" /\ ~lost
    BY <1>14 DEF Size!TakeUp
  <2>1. UNCHANGED <<grid, lost>>
    BY <1>14, <2>0 DEF Size!TakeUp
  <2>2. ~Asked'
    BY <1>11, <1>13, <2>0, <2>1 DEF Asked
  <2>3. Head(gridCmds)[1] # "connect"
    BY <1>0, <1>13, <2>0, ConnectMoves DEF Asked
  <2>4. CASE Head(gridCmds)[1] = "resize"
    <3>1. pty' = Head(gridCmds)[2]
      BY <1>14, <2>1, <2>0, <2>4 DEF Size!TakeUp
    <3>2. LastSize(gridCmds', {"resize"}, pty', grid')
      BY <1>11, <2>0, <2>1, <2>4, <3>1
    <3> QED
      BY <2>2, <3>2 DEF SizeArrives
  <2>5. CASE Head(gridCmds)[1] = "disconnect"
    <3>1. gridWorker' = "idle"
      BY <1>14, <2>5 DEF Size!TakeUp
    <3> QED
      BY <2>2, <3>1 DEF SizeArrives
  <2> QED
    BY <1>11, <2>0, <2>1, <2>3, <2>4, <2>5
<1>15. CASE Size!Drop
  <2>1. gridWorker' = "idle" /\ ~Asked'
    BY <1>13, <1>15 DEF Size!Drop, Asked, ConnectAt
  <2> QED
    BY <2>1 DEF SizeArrives
<1>16. ASSUME NEW ok \in BOOLEAN, Size!Dialed(ok) PROVE SizeArrives'
  <2>1. SizeArrives /\ UNCHANGED <<grid, gridCmds, pty>> /\ gridWorker = "dialing" /\ ConnectAt' = ConnectAt
    BY <1>16 DEF Size!Dialed, ConnectAt
  <2> QED
    BY <2>1 DEF SizeArrives, Asked
<1> QED
  BY <1>2, <1>3, <1>4, <1>5, <1>6, <1>7, <1>9, <1>10, <1>12, <1>14, <1>15, <1>16 DEF Size!GridNext

\* The app's grid is that of the area it knows.
LEMMA FitsStep ==
  ASSUME Size!FitsKnownArea, [Size!GridNext]_sizeVars
  PROVE  Size!FitsKnownArea'
<1> USE DEF Size!FitsKnownArea, Size!Area
<1>1. CASE UNCHANGED <<known, grid, shown, gridPhase>>
  BY <1>1
<1>2. ASSUME Size!Apply(shown', gridPhase') PROVE Size!FitsKnownArea'
  BY <1>2 DEF Size!Apply
<1>3. ASSUME NEW size \in WindowSizes, Size!WindowResized(size) PROVE Size!FitsKnownArea'
  <2>1. CASE deaf
    BY <1>1, <1>3, <2>1 DEF Size!WindowResized
  <2>2. CASE ~deaf
    BY <1>2, <1>3, <2>2 DEF Size!WindowResized
  <2> QED
    BY <2>1, <2>2
<1>4. CASE Size!SelectTab
  BY <1>2, <1>4 DEF Size!SelectTab
<1>5. CASE Size!OnEvent
  BY <1>2, <1>5 DEF Size!OnEvent
<1>6. CASE Size!Connect
  BY <1>6 DEF Size!Connect
<1>7. CASE Size!Overlay \/ Size!Reconnect \/ Size!Disconnect \/ Size!TakeIdle \/ Size!TakeUp \/ Size!Drop
           \/ (\E ok \in BOOLEAN : Size!Dialed(ok)) \/ UNCHANGED sizeVars
  BY <1>1, <1>7 DEF Size!Overlay, Size!Reconnect, Size!Disconnect, Size!TakeIdle, Size!TakeUp, Size!Drop, Size!Dialed, sizeVars
<1> QED
  BY <1>3, <1>4, <1>5, <1>6, <1>7 DEF Size!GridNext

\* Every step keeps the invariant of the grid.
LEMMA GridStep == GridInv /\ [Size!GridNext]_sizeVars => GridInv'
<1> SUFFICES ASSUME GridInv, [Size!GridNext]_sizeVars PROVE GridInv'
  OBVIOUS
<1>1. Size!TypeOK'
  BY GridTypesStep
<1>2. GridProtocol'
  BY <1>1, ProtocolStep DEF GridInv
<1>3. Size!FitsKnownArea'
  BY FitsStep DEF GridInv
<1>4. ~lost' => SizeArrives'
  BY <1>1, <1>2, ArrivesStep DEF GridInv
<1> QED
  BY <1>1, <1>2, <1>3, <1>4 DEF GridInv

\* What the invariant is for.
LEMMA GridMeans == GridInv => GridSound
<1> SUFFICES ASSUME GridInv PROVE GridSound
  OBVIOUS
<1>1. Size!PtyHasTheGrid
  <2> SUFFICES ASSUME gridWorker = "up", gridCmds = <<>>, ~lost PROVE pty = grid
    BY DEF Size!PtyHasTheGrid
  <2>1. LastSize(gridCmds, {"resize"}, pty, grid)
    BY DEF GridInv, SizeArrives
  <2> QED
    BY <2>1, LastNil
<1> QED
  BY <1>1 DEF GridInv, GridSound

------------------------------------------------------------------------------
(* The viewer.                                                              *)

\* The bounds of the viewer are numbers, pages are no longer than what is read at first, and
\* a small file is read at once.
LEMMA ViewBounds ==
  /\ Page \in Nat \ {0} /\ Limit \in Nat /\ SmallSize \in Nat /\ LargeSize \in Nat
  /\ Page <= Limit /\ SmallSize <= Limit /\ Limit < LargeSize
<1>1. {Page, Limit, SmallSize, LargeSize} \subseteq Nat /\ Page # 0
  BY DeskAssumption
<1> QED
  BY <1>1, DeskAssumption

\* The lesser and the greater of two numbers.
LEMMA OfTwo ==
  ASSUME NEW a \in Int, NEW b \in Int
  PROVE  /\ View!Min({a, b}) = (IF a <= b THEN a ELSE b)
         /\ View!Max({a, b}) = (IF a >= b THEN a ELSE b)
<1>1. \E m \in {a, b} : \A x \in {a, b} : m <= x
  OBVIOUS
<1>2. View!Min({a, b}) \in {a, b} /\ \A x \in {a, b} : View!Min({a, b}) <= x
  BY <1>1 DEF View!Min
<1>3. \E m \in {a, b} : \A x \in {a, b} : m >= x
  OBVIOUS
<1>4. View!Max({a, b}) \in {a, b} /\ \A x \in {a, b} : View!Max({a, b}) >= x
  BY <1>3 DEF View!Max
<1> QED
  BY <1>2, <1>4

\* A file has one size, and a small one is read at once.
LEMMA SizeFacts == \A p \in View!Paths : View!Size[p] \in Nat /\ View!Size[p] = (IF p \in SmallFiles THEN SmallSize ELSE LargeSize)
BY ViewBounds DEF View!Size

\* A stretch of some file, or the empty text.
ViewTexts == [path : View!Paths \cup {""}, off : Nat, len : Nat]

\* A read under way: a page, or the most that is read at first; all of a small file.
IsRead(r) ==
  /\ r \in [path : View!Paths, off : Nat, len : {Page, Limit}]
  /\ View!Size[r.path] <= Limit => r.off = 0 /\ r.len = Limit

\* A text of the file p; one that stops a page before the end has that page.
IsTextOf(p, text) ==
  text = View!Empty \/ (text.path = p /\ (text.off + Page = View!Size[p] => text.len = Page))

\* A viewer that is open shows and edits texts of its file, pages only of a large one, and
\* edits the whole of it or nothing.
OpenOK(v) ==
  /\ v \in [path : View!Paths, mode : {"preview", "edit", "log"}, content : {"loading", "loaded", "paged"},
            text : ViewTexts, editor : ViewTexts, dirty : BOOLEAN, saving : BOOLEAN]
  /\ IsTextOf(v.path, v.text) /\ IsTextOf(v.path, v.editor)
  /\ v.content = "paged" => View!Size[v.path] > Limit /\ v.text # View!Empty
  /\ v.content = "loaded" => v.text = View!Empty \/ View!Whole(v.text)
  /\ v.editor = View!Empty \/ View!Whole(v.editor)

\* A viewer that shows the whole of its file once it has read it.
LEMMA FileShown ==
  ASSUME NEW v, OpenOK(v), NEW text \in ViewTexts, IsTextOf(v.path, text), View!Whole(text)
  PROVE  OpenOK([v EXCEPT !.content = "loaded", !.text = text])
BY DEF OpenOK

\* The same of a page of a large file.
LEMMA PageShown ==
  ASSUME NEW v, OpenOK(v), NEW text \in ViewTexts, IsTextOf(v.path, text), text # View!Empty, View!Size[v.path] > Limit
  PROVE  OpenOK([v EXCEPT !.content = "paged", !.mode = "log", !.text = text])
BY DEF OpenOK

\* What is written is the whole of its file or nothing.
IsWrite(w) == w.data = View!Empty \/ (w.data.path = w.path /\ View!Whole(w.data))

\* The viewer's inductive invariant.
ViewInv ==
  /\ viewer = View!Closed \/ OpenOK(viewer)
  /\ \A r \in reads : IsRead(r)
  /\ \A w \in writes : IsWrite(w)

\* The empty text is none of a file.
LEMMA EmptyText == View!Empty \in ViewTexts /\ "" \notin View!Paths
BY DeskAssumption DEF View!Empty, ViewTexts, View!Paths

\* What a read brings is a text of its file, and the whole of a small one.
LEMMA ContentsFacts ==
  ASSUME NEW r, IsRead(r)
  PROVE  /\ View!Contents(r) \in ViewTexts /\ IsTextOf(r.path, View!Contents(r))
         /\ View!Contents(r) # View!Empty
         /\ View!Size[r.path] <= Limit => View!Whole(View!Contents(r))
         /\ \E n \in 0 .. Limit : View!Contents(r) = View!Stretch(r.path, r.off, n)
<1> DEFINE size == View!Size[r.path]
           left == IF 0 >= size - r.off THEN 0 ELSE size - r.off
           n == IF r.len <= left THEN r.len ELSE left
<1>1. /\ r.path \in View!Paths /\ r.off \in Nat /\ r.len \in Nat /\ r.len >= Page /\ size \in Nat
      /\ size <= Limit => r.off = 0 /\ r.len = Limit
  BY SizeFacts, ViewBounds DEF IsRead
<1>2. View!Max({0, size - r.off}) = left /\ left \in Nat
  BY <1>1, OfTwo
<1>3. View!Min({r.len, left}) = n /\ n \in Nat
  BY <1>1, <1>2, OfTwo
<1>4. View!Contents(r) = [path |-> r.path, off |-> r.off, len |-> n]
  BY <1>2, <1>3 DEF View!Contents, View!Stretch
<1>5. r.off + Page = size => n = Page
  BY <1>1, ViewBounds
<1>6. size <= Limit => n = size /\ r.off = 0
  BY <1>1, ViewBounds
<1>a. n \in 0 .. Limit
  <2>1. r.len <= Limit /\ Limit \in Nat
    BY ViewBounds DEF IsRead
  <2> QED
    BY <1>1, <1>2, <1>3, <2>1
<1> HIDE DEF n, left
<1>7. View!Contents(r) \in ViewTexts
  <2>1. r.path \in View!Paths \cup {""}
    BY <1>1
  <2>2. [path |-> r.path, off |-> r.off, len |-> n] \in [path : View!Paths \cup {""}, off : Nat, len : Nat]
    BY <1>1, <1>3, <2>1
  <2> QED
    BY <1>4, <2>2 DEF ViewTexts
<1>8. View!Contents(r).path = r.path /\ View!Empty.path = ""
  BY <1>4 DEF View!Empty
<1>9. View!Contents(r) # View!Empty
  BY <1>1, <1>8, EmptyText
<1>b. View!Contents(r) = View!Stretch(r.path, r.off, n)
  BY <1>4 DEF View!Stretch
<1> QED
  BY <1>1, <1>4, <1>5, <1>6, <1>7, <1>9, <1>a, <1>b DEF IsTextOf, View!Whole

\* A page turn asks for a page of Nat's.
LEMMA PageFacts ==
  ASSUME NEW off \in Nat, NEW total \in Nat, NEW forth \in BOOLEAN
  PROVE  /\ View!PageOffset(off, total, forth) \in Nat
         /\ View!PageOffset(off, total, forth) <= off \/ View!PageOffset(off, total, forth) <= total
         /\ total > Page /\ View!PageOffset(off, total, TRUE) = off => off + Page = total
<1>1. Page \in Nat \ {0}
  BY ViewBounds
<1> DEFINE edge == IF 0 >= total - Page THEN 0 ELSE total - Page
<1>2. View!Max({0, total - Page}) = edge /\ edge \in Nat
  BY <1>1, OfTwo
<1>3. View!Min({off + Page, edge}) = IF off + Page <= edge THEN off + Page ELSE edge
  BY <1>1, <1>2, OfTwo
<1>4. View!Max({0, off - Page}) = IF 0 >= off - Page THEN 0 ELSE off - Page
  <2> DEFINE d == off - Page
  <2>1. d \in Int /\ 0 \in Int
    BY <1>1
  <2> HIDE DEF d
  <2>2. View!Max({0, d}) = IF 0 >= d THEN 0 ELSE d
    BY <2>1, OfTwo
  <2> QED
    BY <2>2 DEF d
<1> DEFINE back == View!PageOffset(off, total, FALSE)
           next == View!PageOffset(off, total, TRUE)
<1>5. back = IF 0 >= off - Page THEN 0 ELSE off - Page
  BY <1>4 DEF View!PageOffset
<1>6. next = IF off + Page <= edge THEN off + Page ELSE edge
  BY <1>2, <1>3 DEF View!PageOffset
<1> HIDE DEF next, back
<1>7. back \in Nat /\ back <= off
  BY <1>1, <1>5
<1>8. next \in Nat /\ next <= total
  BY <1>1, <1>2, <1>6
<1>9. ASSUME total > Page, next = off PROVE off + Page = total
  <2>1. edge = total - Page
    BY <1>1, <1>9
  <2>2. off # off + Page
    BY <1>1
  <2>3. off = edge
    BY <1>6, <1>9, <2>2
  <2> QED
    BY <1>1, <2>1, <2>3
<1> QED
  BY <1>7, <1>8, <1>9 DEF next, back

\* A read that is sent is one more at most.
LEMMA ReadFacts ==
  ASSUME NEW p, NEW off, NEW len, View!Read(p, off, len), \A r \in reads : IsRead(r),
         IsRead([path |-> p, off |-> off, len |-> len])
  PROVE  \A r \in reads' : IsRead(r)
BY DEF View!Read

\* No file is open at first.
LEMMA ViewFirst == View!ViewerInit => ViewInv
BY DEF View!ViewerInit, ViewInv, View!Closed

\* A step of the viewer keeps what it shows the text of its file.
LEMMA ViewStep == ViewInv /\ [View!ViewerNext]_viewVars => ViewInv'
<1> SUFFICES ASSUME ViewInv, View!ViewerNext PROVE ViewInv'
  <2>1. ASSUME ViewInv, UNCHANGED viewVars PROVE ViewInv'
    BY <2>1 DEF ViewInv, viewVars, OpenOK, IsRead, IsWrite, IsTextOf, View!Whole, View!Closed
  <2> QED
    BY <2>1
<1> USE DEF ViewInv
<1>1. ASSUME NEW p \in View!Paths, View!OpenFile(p) PROVE ViewInv'
  <2>1. IsRead([path |-> p, off |-> 0, len |-> Limit])
    BY ViewBounds DEF IsRead
  <2>2. \A r \in reads' : IsRead(r)
    BY <1>1, <2>1, ReadFacts DEF View!OpenFile
  <2>3. OpenOK(viewer')
    BY <1>1, EmptyText DEF View!OpenFile, OpenOK, IsTextOf
  <2> QED
    BY <1>1, <2>2, <2>3 DEF View!OpenFile, IsWrite
<1>2. ASSUME View!Close PROVE ViewInv'
  BY <1>2 DEF View!Close
<1>3. ASSUME View!ToggleEdit PROVE ViewInv'
  <2>1. OpenOK(viewer)
    BY <1>3 DEF View!ToggleEdit, View!IsOpen
  <2>2. OpenOK(viewer')
    BY <1>3, <2>1, EmptyText DEF View!ToggleEdit, OpenOK, IsTextOf
  <2> QED
    BY <1>3, <2>2 DEF View!ToggleEdit
<1>4. ASSUME View!Edit PROVE ViewInv'
  <2>1. OpenOK(viewer)
    BY <1>4 DEF View!Edit, View!IsOpen
  <2>2. OpenOK(viewer')
    BY <1>4, <2>1 DEF View!Edit, OpenOK, IsTextOf
  <2> QED
    BY <1>4, <2>2 DEF View!Edit
<1>5. ASSUME View!Save PROVE ViewInv'
  <2>1. OpenOK(viewer)
    BY <1>5 DEF View!Save, View!IsOpen
  <2>2. OpenOK(viewer')
    BY <1>5, <2>1 DEF View!Save, OpenOK, IsTextOf
  <2>3. IsWrite([path |-> viewer.path, data |-> viewer.editor])
    BY <2>1 DEF OpenOK, IsTextOf, IsWrite
  <2>4. \A w \in writes' : IsWrite(w)
    BY <1>5, <2>3 DEF View!Save
  <2> QED
    BY <1>5, <2>2, <2>4 DEF View!Save
<1>6. ASSUME NEW forth \in BOOLEAN, View!TurnPage(forth) PROVE ViewInv'
  <2>1. OpenOK(viewer) /\ viewer.content = "paged"
    BY <1>6 DEF View!TurnPage, View!IsOpen
  <2> DEFINE off == View!PageOffset(viewer.text.off, View!Size[viewer.path], forth)
  <2>2. off \in Nat
    BY <2>1, PageFacts, SizeFacts DEF OpenOK, ViewTexts
  <2>3. View!Read(viewer.path, off, Page) /\ viewer' = [viewer EXCEPT !.content = "loading"] /\ writes' = writes
    BY <1>6 DEF View!TurnPage
  <2> HIDE DEF off
  <2>4. IsRead([path |-> viewer.path, off |-> off, len |-> Page])
    BY <2>1, <2>2, SizeFacts, ViewBounds DEF IsRead, OpenOK
  <2>5. \A r \in reads' : IsRead(r)
    BY <2>3, <2>4, ReadFacts
  <2>6. OpenOK(viewer')
    BY <2>1, <2>3 DEF OpenOK, IsTextOf
  <2> QED
    BY <2>3, <2>5, <2>6
<1>7. ASSUME NEW r \in reads, View!Chunk(r) PROVE ViewInv'
  <2>1. (\A q \in reads' : IsRead(q)) /\ (\A w \in writes' : IsWrite(w)) /\ IsRead(r)
    BY <1>7 DEF View!Chunk
  <2>2. CASE ~View!Shown(r)
    BY <1>7, <2>1, <2>2 DEF View!Chunk
  <2>3. CASE View!Shown(r)
    <3>1. OpenOK(viewer) /\ viewer.path = r.path
      BY <2>3 DEF View!Shown, View!IsOpen
    <3> DEFINE text == View!Contents(r)
    <3>2. /\ text \in ViewTexts /\ IsTextOf(r.path, text) /\ text # View!Empty
          /\ View!Size[r.path] <= Limit => View!Whole(text)
      BY <2>1, ContentsFacts
    <3>3. /\ View!Size[r.path] <= Limit => viewer' = [viewer EXCEPT !.content = "loaded", !.text = text]
          /\ ~(View!Size[r.path] <= Limit) => viewer' = [viewer EXCEPT !.content = "paged", !.mode = "log", !.text = text]
      BY <1>7, <2>3 DEF View!Chunk
    <3> HIDE DEF text
    <3>4. View!Size[r.path] \in Nat /\ Limit \in Nat
      BY <2>1, SizeFacts, ViewBounds DEF IsRead
    <3>5. CASE View!Size[r.path] <= Limit
      <4>1. viewer' = [viewer EXCEPT !.content = "loaded", !.text = text] /\ View!Whole(text)
        BY <3>1, <3>2, <3>3, <3>5
      <4> QED
        BY <2>1, <3>1, <3>2, <4>1, FileShown
    <3>6. CASE View!Size[r.path] > Limit
      <4>1. viewer' = [viewer EXCEPT !.content = "paged", !.mode = "log", !.text = text] /\ View!Size[viewer.path] > Limit
        BY <3>1, <3>3, <3>4, <3>6
      <4> QED
        BY <2>1, <3>1, <3>2, <4>1, PageShown
    <3> QED
      BY <3>4, <3>5, <3>6
  <2> QED
    BY <2>2, <2>3
<1>8. ASSUME NEW r \in reads, View!ReadFails(r) PROVE ViewInv'
  <2>1. (\A q \in reads' : IsRead(q)) /\ (\A w \in writes' : IsWrite(w))
    BY <1>8 DEF View!ReadFails
  <2>2. CASE ~View!IsOpen
    BY <1>8, <2>1, <2>2 DEF View!ReadFails
  <2>3. CASE View!IsOpen
    <3>1. OpenOK(viewer)
      BY <2>3 DEF View!IsOpen
    <3>2. \/ viewer' = [viewer EXCEPT !.content = "loaded", !.text = View!Empty, !.saving = FALSE]
          \/ viewer' = [viewer EXCEPT !.saving = FALSE]
      BY <1>8, <2>3 DEF View!ReadFails
    <3>3. OpenOK(viewer')
      BY <3>1, <3>2, EmptyText DEF OpenOK, IsTextOf
    <3> QED
      BY <2>1, <3>3
  <2> QED
    BY <2>2, <2>3
<1>9. ASSUME NEW w \in writes, NEW ok \in BOOLEAN, View!Saved(w, ok) PROVE ViewInv'
  <2>1. (\A q \in reads' : IsRead(q)) /\ (\A v \in writes' : IsWrite(v))
    BY <1>9 DEF View!Saved
  <2>2. CASE ~View!IsOpen
    BY <1>9, <2>1, <2>2 DEF View!Saved
  <2>3. CASE View!IsOpen
    <3>1. OpenOK(viewer)
      BY <2>3 DEF View!IsOpen
    <3>2. viewer' = [viewer EXCEPT !.saving = FALSE, !.dirty = viewer.dirty /\ ~ok]
      BY <1>9, <2>3 DEF View!Saved
    <3>3. (viewer.dirty /\ ~ok) \in BOOLEAN
      OBVIOUS
    <3>4. OpenOK(viewer')
      BY <3>1, <3>2, <3>3 DEF OpenOK, IsTextOf
    <3> QED
      BY <2>1, <3>4
  <2> QED
    BY <2>2, <2>3
<1>10. ASSUME View!LoseTasks PROVE ViewInv'
  BY <1>10 DEF View!LoseTasks
<1> QED
  BY <1>1, <1>2, <1>3, <1>4, <1>5, <1>6, <1>7, <1>8, <1>9, <1>10 DEF View!ViewerNext

\* What is shown, edited and saved is as the run checks it.
LEMMA ViewMeans == ViewInv => ViewerSound
<1> SUFFICES ASSUME ViewInv PROVE ViewerSound
  OBVIOUS
<1>1. View!IsOpen => OpenOK(viewer)
  BY DEF View!IsOpen, ViewInv
<1>2. View!TextOfItsPath
  BY <1>1 DEF View!TextOfItsPath, ViewInv, OpenOK, IsTextOf, IsWrite
<1>3. View!NoPageIsSaved
  BY DEF View!NoPageIsSaved, ViewInv, IsWrite
<1>4. View!LastPageIsTheEnd
  <2> SUFFICES ASSUME View!IsOpen, viewer.content = "paged",
                      View!PageOffset(viewer.text.off, View!Size[viewer.path], TRUE) = viewer.text.off
               PROVE  viewer.text.off + viewer.text.len = View!Size[viewer.path]
    BY DEF View!LastPageIsTheEnd
  <2> DEFINE size == View!Size[viewer.path]
             off == viewer.text.off
  <2>1. /\ size \in Nat /\ size > Limit /\ off \in Nat /\ viewer.text # View!Empty
        /\ IsTextOf(viewer.path, viewer.text)
    BY <1>1, SizeFacts DEF OpenOK, ViewTexts
  <2>2. size > Page
    BY <2>1, ViewBounds
  <2>3. off + Page = size
    BY <2>1, <2>2, PageFacts
  <2> QED
    BY <2>1, <2>3 DEF IsTextOf
<1> QED
  BY <1>2, <1>3, <1>4 DEF ViewerSound

------------------------------------------------------------------------------
(* The tab bar.                                                             *)

\* There is a tab, and one of them is in front.
BarInv == sessions \in Seq(Nat) /\ Len(sessions) > 0 /\ front \in 1 .. Len(sessions) /\ opened \in Nat

\* A tab bar with a tab more.
LEMMA SpawnFacts ==
  ASSUME NEW rest \in Seq(Nat), opened \in Nat, Bar!Spawn(rest)
  PROVE  BarInv'
<1> DEFINE more == Append(rest, opened')
<1>1. opened' = opened + 1 /\ sessions' = more /\ front' = Len(rest) + 1
  BY DEF Bar!Spawn
<1>2. opened' \in Nat
  BY <1>1
<1>3. more \in Seq(Nat) /\ Len(more) = Len(rest) + 1 /\ Len(rest) \in Nat
  BY <1>2
<1> HIDE DEF more
<1> QED
  BY <1>1, <1>2, <1>3 DEF BarInv

\* The tabs without the one at place i.
LEMMA WithoutTab ==
  ASSUME NEW s \in Seq(Nat), NEW i \in 1 .. Len(s)
  PROVE  /\ Bar!RemoveAt(s, i) \in Seq(Nat) /\ Len(Bar!RemoveAt(s, i)) = Len(s) - 1
         /\ \A j \in 1 .. Len(s) - 1 : Bar!RemoveAt(s, i)[j] = IF j < i THEN s[j] ELSE s[j + 1]
<1> DEFINE f == SubSeq(s, 1, i - 1)
           g == SubSeq(s, i + 1, Len(s))
           n == Len(s)
<1>1. n \in Nat /\ i \in 1 .. n
  OBVIOUS
<1>2. f \in Seq(Nat) /\ Len(f) = i - 1 /\ \A j \in 1 .. i - 1 : f[j] = s[j]
  BY <1>1
<1>3. g \in Seq(Nat) /\ Len(g) = n - i /\ \A j \in 1 .. n - i : g[j] = s[i + j]
  BY <1>1
<1> HIDE DEF f, g, n
<1>4. /\ f \o g \in Seq(Nat) /\ Len(f \o g) = Len(f) + Len(g)
      /\ \A j \in 1 .. Len(f) + Len(g) : (f \o g)[j] = IF j <= Len(f) THEN f[j] ELSE g[j - Len(f)]
  BY <1>2, <1>3, ConcatProperties
<1>5. Len(f) + Len(g) = n - 1
  BY <1>1, <1>2, <1>3
<1>6. ASSUME NEW j \in 1 .. n - 1 PROVE (f \o g)[j] = IF j < i THEN s[j] ELSE s[j + 1]
  <2>1. CASE j < i
    <3>1. j \in 1 .. i - 1 /\ j <= Len(f)
      BY <1>1, <1>2, <2>1
    <3> QED
      BY <1>2, <1>4, <1>5, <2>1, <3>1
  <2>2. CASE ~(j < i)
    <3>1. j - (i - 1) \in 1 .. n - i /\ i + (j - (i - 1)) = j + 1
      BY <1>1, <2>2
    <3>2. ~(j <= Len(f)) /\ Len(f) = i - 1
      BY <1>1, <1>2, <2>2
    <3>4. (f \o g)[j] = g[j - (i - 1)]
      BY <1>4, <1>5, <3>2
    <3> QED
      BY <1>3, <2>2, <3>1, <3>4
  <2> QED
    BY <2>1, <2>2
<1>7. Bar!RemoveAt(s, i) = f \o g
  BY DEF Bar!RemoveAt, f, g
<1> QED
  BY <1>4, <1>5, <1>6, <1>7 DEF n

\* The neighbour of a tab is a tab.
LEMMA NeighbourFacts ==
  ASSUME BarInv, NEW i \in 1 .. Len(sessions)
  PROVE  Bar!Neighbour(i) \in 1 .. Len(sessions)
<1> DEFINE live == {j \in i + 1 .. Len(sessions) : sessions[j] \notin closing}
<1>1. Len(sessions) \in Nat /\ live \in SUBSET Nat
  BY DEF BarInv
<1>2. live # {} => \E j \in live : \A k \in live : j <= k
  BY <1>1, LeastOf
<1>3. live # {} => (CHOOSE j \in live : \A k \in live : j <= k) \in live
  BY <1>2
<1>4. \A j \in live : j \in 1 .. Len(sessions)
  BY <1>1
<1> HIDE DEF live
<1>5. Bar!Neighbour(i) = IF i > 1 THEN i - 1 ELSE IF live = {} THEN i ELSE CHOOSE j \in live : \A k \in live : j <= k
  BY DEF Bar!Neighbour, live
<1>6. CASE i > 1
  BY <1>1, <1>5, <1>6
<1>7. CASE ~(i > 1)
  BY <1>3, <1>4, <1>5, <1>7
<1> QED
  BY <1>6, <1>7

\* The app starts with a tab.
LEMMA BarFirst == Bar!TabsInit => BarInv
BY DEF Bar!TabsInit, BarInv

\* What is left when a collapse is over, and who is in front.
LEMMA FinalizeFacts ==
  ASSUME BarInv, NEW i \in 1 .. Len(sessions), Bar!Finalize(i)
  PROVE  BarInv' /\ (i # front => sessions'[front'] = Bar!InFront)
<1> DEFINE n == Len(sessions)
           rest == Bar!RemoveAt(sessions, i)
<1>1. n \in Nat /\ n > 0 /\ i \in 1 .. n /\ front \in 1 .. n /\ sessions \in Seq(Nat) /\ opened \in Nat
  BY DEF BarInv
<1>2. rest \in Seq(Nat) /\ Len(rest) = n - 1 /\ \A j \in 1 .. n - 1 : rest[j] = IF j < i THEN sessions[j] ELSE sessions[j + 1]
  BY <1>1, WithoutTab
<1>3. /\ rest = <<>> => Bar!Spawn(rest)
      /\ rest # <<>> => /\ sessions' = rest /\ opened' = opened
                        /\ front' = IF front > Len(rest) THEN Len(rest) ELSE IF i < front THEN front - 1 ELSE front
  BY DEF Bar!Finalize
<1> HIDE DEF n, rest
<1>4. CASE rest = <<>>
  <2>1. BarInv'
    BY <1>1, <1>2, <1>3, <1>4, SpawnFacts
  <2>2. n = 1
    BY <1>1, <1>2, <1>4
  <2> QED
    BY <1>1, <2>1, <2>2
<1>5. CASE rest # <<>>
  <2>1. Len(rest) \in Nat /\ Len(rest) > 0 /\ n - 1 > 0
    BY <1>2, <1>5
  <2>a. front' = IF front > n - 1 THEN n - 1 ELSE IF i < front THEN front - 1 ELSE front
    BY <1>2, <1>3, <1>5
  <2>2. front' \in 1 .. n - 1
    BY <1>1, <2>1, <2>a
  <2>3. BarInv'
    BY <1>1, <1>2, <1>3, <1>5, <2>1, <2>2 DEF BarInv
  <2>4. ASSUME i # front PROVE rest[front'] = sessions[front]
    <3>1. CASE front > n - 1
      BY <1>1, <1>2, <1>3, <1>5, <2>2, <2>4, <3>1
    <3>2. CASE front <= n - 1 /\ i < front
      <4>1. front' = front - 1 /\ front - 1 \in 1 .. n - 1 /\ ~(front - 1 < i)
        BY <1>1, <1>2, <1>3, <1>5, <3>2
      <4>2. rest[front - 1] = sessions[(front - 1) + 1]
        BY <1>2, <4>1
      <4>3. (front - 1) + 1 = front
        BY <1>1
      <4> QED
        BY <4>1, <4>2, <4>3
    <3>3. CASE front <= n - 1 /\ i > front
      BY <1>1, <1>2, <1>3, <1>5, <2>2, <2>4, <3>3
    <3> QED
      BY <1>1, <2>4, <3>1, <3>2, <3>3
  <2> QED
    BY <1>3, <1>5, <2>3, <2>4 DEF Bar!InFront
<1> QED
  BY <1>4, <1>5

\* A step of the tab bar leaves a tab in front.
LEMMA BarStep == BarInv /\ [Bar!TabsNext]_barVars => BarInv'
<1> SUFFICES ASSUME BarInv, Bar!TabsNext PROVE BarInv'
  BY DEF BarInv, barVars
<1>1. Len(sessions) \in Nat /\ sessions \in Seq(Nat) /\ opened \in Nat /\ front \in 1 .. Len(sessions)
  BY DEF BarInv
<1>2. CASE Bar!NewTab
  BY <1>1, <1>2, SpawnFacts DEF Bar!NewTab
<1>3. CASE Bar!CloseLast
  <2>1. <<>> \in Seq(Nat) /\ Bar!Spawn(<<>>)
    BY <1>3 DEF Bar!CloseLast
  <2> DEFINE none == <<>>
  <2>2. none \in Seq(Nat) /\ Bar!Spawn(none)
    BY <2>1
  <2> HIDE DEF none
  <2> QED
    BY <1>1, <2>2, SpawnFacts
<1>4. CASE Bar!Overlay
  BY <1>4 DEF Bar!Overlay, BarInv
<1>5. ASSUME NEW i \in 1 .. Len(sessions), Bar!SelectTab(i) PROVE BarInv'
  BY <1>5 DEF Bar!SelectTab, BarInv
<1>6. ASSUME NEW i \in 1 .. Len(sessions), Bar!CloseTab(i) PROVE BarInv'
  <2>1. Bar!Neighbour(i) \in 1 .. Len(sessions)
    BY NeighbourFacts
  <2> QED
    BY <1>1, <1>6, <2>1 DEF Bar!CloseTab, BarInv
<1>7. ASSUME NEW i \in 1 .. Len(sessions), Bar!Finalize(i) PROVE BarInv'
  BY <1>7, FinalizeFacts
<1> QED
  BY <1>2, <1>3, <1>4, <1>5, <1>6, <1>7 DEF Bar!TabsNext

------------------------------------------------------------------------------
(* The canvas.                                                              *)

\* The picture of a snapshot under a search.
PaintAs(snap, q, c) ==
  [r \in DOMAIN snap |->
     <<snap[r], q, q /\ r \in Canvas!Matches(snap)
                     /\ Canvas!Cardinality({s \in Canvas!Matches(snap) : s < r}) = c % Canvas!Cardinality(Canvas!Matches(snap))>>]

\* A snapshot of this generation is the buffer, and what is drawn is the picture of the rows
\* that were synced last under the key they were synced with.
CanvasInv ==
  /\ generation \in Nat /\ made \in Int /\ made <= generation
  /\ made = generation => snapshot = cells
  /\ syncedKey # Canvas!Nothing =>
       /\ syncedKey = <<syncedGeneration, syncedKey[2], syncedKey[3]>>
       /\ syncedGeneration \in Int /\ syncedGeneration <= generation
       /\ drawn = PaintAs(prev, syncedKey[2], syncedKey[3])
       /\ syncedGeneration = generation => prev = cells

\* The canvas starts without a picture.
LEMMA CanvasFirst == Canvas!RenderInit => CanvasInv
BY DEF Canvas!RenderInit, CanvasInv, Canvas!Never

\* A frame is the picture of the buffer under the search.
LEMMA FrameFacts ==
  ASSUME CanvasInv, Canvas!View
  PROVE  drawn' = Canvas!Paint(cells) /\ prev' = cells /\ snapshot' = cells
<1>1. Canvas!Snap = cells
  BY DEF CanvasInv, Canvas!Snap
<1>2. Canvas!Paint(cells) = PaintAs(cells, search, current)
  BY DEF Canvas!Paint, Canvas!IsCurrent, PaintAs
<1>3. DOMAIN Canvas!Paint(cells) = DOMAIN cells
  BY DEF Canvas!Paint
<1>4. /\ snapshot' = cells
      /\ prev' = IF Canvas!Synced(cells) THEN prev ELSE cells
      /\ drawn' = [r \in DOMAIN cells |-> IF r \in Canvas!Cleared(cells) THEN Canvas!Paint(cells)[r] ELSE drawn[r]]
  BY <1>1 DEF Canvas!View
<1>5. Canvas!Key = <<generation, search, current>> /\ Canvas!Key # Canvas!Nothing
  BY DEF Canvas!Key, Canvas!Nothing
<1>6. CASE Canvas!Synced(cells)
  <2>1. syncedKey = Canvas!Key /\ syncedGeneration = generation
    BY <1>6 DEF Canvas!Synced
  <2>2. prev = cells /\ drawn = PaintAs(cells, search, current)
    BY <1>5, <2>1 DEF CanvasInv
  <2>3. Canvas!Cleared(cells) = {}
    BY <1>6 DEF Canvas!Cleared, Canvas!Synced
  <2>4. drawn' = [r \in DOMAIN cells |-> drawn[r]]
    BY <1>4, <2>3
  <2>5. drawn' = drawn
    BY <1>2, <1>3, <2>2, <2>4 DEF PaintAs
  <2> QED
    BY <1>2, <1>4, <1>6, <2>2, <2>5
<1>7. CASE ~Canvas!Synced(cells)
  <2>1. Canvas!Resized(cells) \/ syncedKey # Canvas!Key
    <3>1. ASSUME syncedKey = Canvas!Key PROVE syncedGeneration = generation
      BY <1>5, <3>1 DEF CanvasInv
    <3> QED
      BY <1>7, <3>1 DEF Canvas!Synced
  <2>2. Canvas!Cleared(cells) = DOMAIN cells
    BY <1>7, <2>1 DEF Canvas!Cleared
  <2>3. drawn' = [r \in DOMAIN cells |-> Canvas!Paint(cells)[r]]
    BY <1>4, <2>2
  <2> QED
    BY <1>4, <1>7, <2>3 DEF Canvas!Paint
<1> QED
  BY <1>6, <1>7

\* A step of the canvas keeps what it remembers of its buffer.
LEMMA CanvasStep == CanvasInv /\ [Canvas!RenderNext]_canvasVars => CanvasInv'
<1> SUFFICES ASSUME CanvasInv, Canvas!RenderNext PROVE CanvasInv'
  BY DEF CanvasInv, canvasVars
<1>1. ASSUME NEW h \in Heights, Canvas!Change(h) PROVE CanvasInv'
  BY <1>1 DEF Canvas!Change, Canvas!CacheSame, CanvasInv
<1>2. CASE Canvas!ClearGrid
  BY <1>2 DEF Canvas!ClearGrid, CanvasInv, Canvas!Never
<1>3. CASE Canvas!Search
  BY <1>3 DEF Canvas!Search, Canvas!CacheSame, CanvasInv
<1>4. CASE Canvas!View
  <2>1. drawn' = Canvas!Paint(cells) /\ prev' = cells /\ snapshot' = cells
    BY <1>4, FrameFacts
  <2>2. /\ made' = generation /\ syncedKey' = <<generation, search, current>> /\ syncedGeneration' = generation
        /\ cells' = cells /\ generation' = generation /\ search' = search /\ current' = current
    BY <1>4 DEF Canvas!View, Canvas!Key
  <2>3. drawn' = PaintAs(prev', search, current)
    BY <2>1 DEF Canvas!Paint, Canvas!IsCurrent, PaintAs
  <2> QED
    BY <2>1, <2>2, <2>3 DEF CanvasInv
<1> QED
  BY <1>1, <1>2, <1>3, <1>4 DEF Canvas!RenderNext

------------------------------------------------------------------------------
(* The history.                                                             *)

\* The rows the table keeps are a number, and so is the bound of commands.
LEMMA StoreBounds == MaxRows \in Nat /\ MaxCommands \in Nat
<1>1. {MaxRows, MaxCommands} \subseteq Nat
  BY DeskAssumption
<1> QED
  BY <1>1

\* The places of a command in a table, and how many there are.
RowsWith(rs, c) == {i \in DOMAIN rs : rs[i].text = c}

\* The count of a command is the number of its places.
LEMMA CountIs == \A rs, c : Store!Count(rs, c) = Cardinality(RowsWith(rs, c))
BY DEF Store!Count, RowsWith, Store!Cardinality, Cardinality

\* The places of a command in a table are finitely many.
LEMMA PlacesFinite ==
  ASSUME NEW rs \in Seq(Store!Rows), NEW c
  PROVE  /\ IsFiniteSet(RowsWith(rs, c)) /\ Store!Count(rs, c) \in Nat
         /\ Store!Count(rs, c) = Cardinality(RowsWith(rs, c))
         /\ RowsWith(rs, c) \subseteq 1 .. Len(rs)
<1>1. Len(rs) \in Nat /\ DOMAIN rs = 1 .. Len(rs)
  OBVIOUS
<1>2. IsFiniteSet(1 .. Len(rs))
  BY <1>1, FS_Interval
<1>3. RowsWith(rs, c) \in SUBSET (1 .. Len(rs))
  BY <1>1 DEF RowsWith
<1> HIDE DEF RowsWith
<1>4. IsFiniteSet(RowsWith(rs, c))
  BY <1>2, <1>3, FS_Subset
<1> QED
  BY <1>3, <1>4, FS_CardinalityType, CountIs

\* A table whose rows all have places of their own in another one has a command no more often.
LEMMA CountInjection ==
  ASSUME NEW rs \in Seq(Store!Rows), NEW qs \in Seq(Store!Rows), NEW c,
         NEW f \in [1 .. Len(rs) -> 1 .. Len(qs)],
         \A i, j \in 1 .. Len(rs) : f[i] = f[j] => i = j,
         \A i \in 1 .. Len(rs) : qs[f[i]].text = rs[i].text
  PROVE  /\ Store!Count(rs, c) <= Store!Count(qs, c)
         /\ \A k \in 1 .. Len(qs) : qs[k].text = c /\ (\A i \in 1 .. Len(rs) : f[i] # k)
                                      => Store!Count(rs, c) + 1 <= Store!Count(qs, c)
<1> DEFINE R == RowsWith(rs, c)
           Q == RowsWith(qs, c)
           g == [i \in R |-> f[i]]
<1>1. /\ IsFiniteSet(R) /\ Store!Count(rs, c) = Cardinality(R) /\ R \subseteq 1 .. Len(rs)
      /\ IsFiniteSet(Q) /\ Store!Count(qs, c) = Cardinality(Q) /\ Q \subseteq 1 .. Len(qs)
  BY PlacesFinite
<1>2. \A i \in R : rs[i].text = c
  BY DEF RowsWith
<1>3. \A k \in 1 .. Len(qs) : qs[k].text = c => k \in Q
  BY DEF RowsWith
<1> HIDE DEF R, Q
<1>4. \A i \in R : f[i] \in Q
  BY <1>1, <1>2, <1>3
<1>5. g \in Injection(R, Q)
  BY <1>1, <1>4 DEF Injection, IsInjective
<1>6. Cardinality(R) <= Cardinality(Q)
  BY <1>1, <1>5, FS_Injection
<1>7. ASSUME NEW k \in 1 .. Len(qs), qs[k].text = c, \A i \in 1 .. Len(rs) : f[i] # k
      PROVE  Cardinality(R) + 1 <= Cardinality(Q)
  <2>1. k \in Q
    BY <1>3, <1>7
  <2>2. IsFiniteSet(Q \ {k}) /\ Cardinality(Q \ {k}) = Cardinality(Q) - 1
    BY <1>1, <2>1, FS_RemoveElement
  <2>3. g \in Injection(R, Q \ {k})
    BY <1>1, <1>4, <1>7 DEF Injection, IsInjective
  <2>4. Cardinality(R) <= Cardinality(Q \ {k})
    BY <2>2, <2>3, FS_Injection
  <2>5. Cardinality(R) \in Nat /\ Cardinality(Q) \in Nat
    BY <1>1, FS_CardinalityType
  <2> QED
    BY <2>2, <2>4, <2>5
<1> QED
  BY <1>1, <1>6, <1>7

\* A row written behind the others.
LEMMA CountAppend ==
  ASSUME NEW rs \in Seq(Store!Rows), NEW e \in Store!Rows, NEW c
  PROVE  Store!Count(Append(rs, e), c) <= Store!Count(rs, c) + (IF e.text = c THEN 1 ELSE 0)
<1> DEFINE qs == Append(rs, e)
           n == Len(rs)
<1>1. /\ qs \in Seq(Store!Rows) /\ DOMAIN qs = 1 .. n + 1 /\ DOMAIN rs = 1 .. n /\ n \in Nat
      /\ qs[n + 1] = e /\ \A i \in 1 .. n : qs[i] = rs[i]
  OBVIOUS
<1> HIDE DEF qs, n
<1>2. /\ IsFiniteSet(RowsWith(rs, c)) /\ Store!Count(rs, c) = Cardinality(RowsWith(rs, c))
      /\ Store!Count(qs, c) = Cardinality(RowsWith(qs, c)) /\ Store!Count(rs, c) \in Nat
  BY <1>1, PlacesFinite
<1>3. CASE e.text = c
  <2>1. RowsWith(qs, c) = RowsWith(rs, c) \cup {n + 1} /\ n + 1 \notin RowsWith(rs, c)
    BY <1>1, <1>3 DEF RowsWith
  <2>2. Cardinality(RowsWith(qs, c)) = Cardinality(RowsWith(rs, c)) + 1
    BY <1>2, <2>1, FS_AddElement
  <2> QED
    BY <1>2, <1>3, <2>2 DEF qs
<1>4. CASE e.text # c
  <2>1. RowsWith(qs, c) = RowsWith(rs, c)
    BY <1>1, <1>4 DEF RowsWith
  <2> QED
    BY <1>2, <1>4, <2>1 DEF qs
<1> QED
  BY <1>3, <1>4

\* A row put before the others.
LEMMA CountPrepend ==
  ASSUME NEW rs \in Seq(Store!Rows), NEW e \in Store!Rows, NEW c
  PROVE  /\ <<e>> \o rs \in Seq(Store!Rows) /\ Len(<<e>> \o rs) = Len(rs) + 1
         /\ Store!Count(rs, c) + (IF e.text = c THEN 1 ELSE 0) <= Store!Count(<<e>> \o rs, c)
         /\ (<<e>> \o rs)[1] = e /\ \A i \in 1 .. Len(rs) : (<<e>> \o rs)[i + 1] = rs[i]
<1> DEFINE one == <<e>>
           qs == one \o rs
           n == Len(rs)
<1>1. one \in Seq(Store!Rows) /\ Len(one) = 1 /\ one[1] = e
  OBVIOUS
<1> HIDE DEF one
<1>2. /\ qs \in Seq(Store!Rows) /\ Len(qs) = Len(one) + Len(rs) /\ n \in Nat
      /\ \A i \in 1 .. Len(one) + Len(rs) : qs[i] = IF i <= Len(one) THEN one[i] ELSE rs[i - Len(one)]
  <2>1. n \in Nat
    OBVIOUS
  <2>2. one \in Seq(Store!Rows) /\ rs \in Seq(Store!Rows)
    BY <1>1
  <2>3. /\ one \o rs \in Seq(Store!Rows) /\ Len(one \o rs) = Len(one) + Len(rs)
        /\ \A i \in 1 .. Len(one) + Len(rs) : (one \o rs)[i] = IF i <= Len(one) THEN one[i] ELSE rs[i - Len(one)]
    BY <2>2, ConcatProperties
  <2> QED
    BY <2>1, <2>3
<1> HIDE DEF qs, n
<1>3. Len(rs) = n /\ Len(qs) = n + 1
  BY <1>1, <1>2 DEF n
<1>4. qs[1] = e /\ \A i \in 1 .. n : qs[i + 1] = rs[i]
  <2>1. qs[1] = one[1]
    BY <1>1, <1>2, <1>3
  <2>2. ASSUME NEW i \in 1 .. n PROVE qs[i + 1] = rs[i]
    <3>1. i + 1 \in 1 .. 1 + n /\ ~(i + 1 <= 1) /\ (i + 1) - 1 = i
      BY <1>2
    <3>2. qs[i + 1] = rs[(i + 1) - 1]
      BY <1>1, <1>2, <1>3, <3>1
    <3> QED
      BY <3>1, <3>2
  <2> QED
    BY <1>1, <2>1, <2>2
<1> DEFINE f == [i \in 1 .. n |-> i + 1]
<1>5. /\ f \in [1 .. Len(rs) -> 1 .. Len(qs)]
      /\ \A i, j \in 1 .. Len(rs) : f[i] = f[j] => i = j
      /\ \A i \in 1 .. Len(rs) : qs[f[i]].text = rs[i].text /\ f[i] # 1
  BY <1>2, <1>3, <1>4
<1> HIDE DEF f
<1>6. /\ Store!Count(rs, c) <= Store!Count(qs, c)
      /\ \A k \in 1 .. Len(qs) : qs[k].text = c /\ (\A i \in 1 .. Len(rs) : f[i] # k)
                                   => Store!Count(rs, c) + 1 <= Store!Count(qs, c)
  <2>1. /\ qs \in Seq(Store!Rows) /\ f \in [1 .. Len(rs) -> 1 .. Len(qs)]
        /\ \A i, j \in 1 .. Len(rs) : f[i] = f[j] => i = j
        /\ \A i \in 1 .. Len(rs) : qs[f[i]].text = rs[i].text
    BY <1>2, <1>5
  <2> QED
    BY <2>1, CountInjection
<1>7. 1 \in 1 .. Len(qs)
  BY <1>2, <1>3
<1>8. e.text = c => Store!Count(rs, c) + 1 <= Store!Count(qs, c)
  BY <1>4, <1>5, <1>6, <1>7
<1>9. Store!Count(rs, c) \in Nat
  BY PlacesFinite
<1>10. Store!Count(rs, c) + (IF e.text = c THEN 1 ELSE 0) <= Store!Count(qs, c)
  BY <1>6, <1>8, <1>9
<1> QED
  BY <1>2, <1>3, <1>4, <1>10 DEF qs, one, n

\* The newest rows of a table.
LEMMA PrunedFacts ==
  ASSUME NEW rs \in Seq(Store!Rows)
  PROVE  /\ Store!Pruned(rs) \in Seq(Store!Rows)
         /\ Len(Store!Pruned(rs)) = IF Len(rs) <= MaxRows THEN Len(rs) ELSE MaxRows
         /\ \A c : Store!Count(Store!Pruned(rs), c) <= Store!Count(rs, c)
         /\ \A i \in 1 .. Len(Store!Pruned(rs)) : Store!Pruned(rs)[i] = rs[Len(rs) - Len(Store!Pruned(rs)) + i]
<1> DEFINE n == Len(rs)
           k == IF n <= MaxRows THEN n ELSE MaxRows
           qs == SubSeq(rs, n - k + 1, n)
<1>1. n \in Nat /\ MaxRows \in Nat /\ k \in Nat /\ k <= n
  BY StoreBounds
<1>2. Store!Min({n, MaxRows}) = k
  <2>1. \E m \in {n, MaxRows} : \A x \in {n, MaxRows} : m <= x
    BY <1>1
  <2>2. Store!Min({n, MaxRows}) \in {n, MaxRows} /\ \A x \in {n, MaxRows} : Store!Min({n, MaxRows}) <= x
    BY <2>1 DEF Store!Min
  <2> QED
    BY <1>1, <2>2
<1>3. Store!Pruned(rs) = qs
  BY <1>2 DEF Store!Pruned
<1> HIDE DEF k
<1>4. /\ qs \in Seq(Store!Rows) /\ Len(qs) = k
      /\ \A i \in 1 .. k : qs[i] = rs[n - k + i]
  <2>1. n - k + 1 \in 1 .. n + 1 /\ n \in 0 .. Len(rs)
    BY <1>1
  <2>2. qs \in Seq(Store!Rows)
    BY <1>1, <2>1
  <2>3. Len(qs) = IF n - k + 1 <= n THEN n - (n - k + 1) + 1 ELSE 0
    BY <1>1, <2>1
  <2>4. ASSUME NEW i \in 1 .. k PROVE qs[i] = rs[n - k + i]
    <3>1. qs[i] = rs[(n - k + 1) + i - 1]
      BY <1>1, <2>1, <2>3
    <3>2. (n - k + 1) + i - 1 = n - k + i
      BY <1>1
    <3> QED
      BY <3>1, <3>2
  <2> QED
    BY <1>1, <2>2, <2>3, <2>4
<1> HIDE DEF qs, n
<1> DEFINE f == [i \in 1 .. k |-> n - k + i]
<1>5. Len(rs) = n
  BY DEF n
<1>6. /\ f \in [1 .. Len(qs) -> 1 .. Len(rs)]
      /\ \A i, j \in 1 .. Len(qs) : f[i] = f[j] => i = j
      /\ \A i \in 1 .. Len(qs) : rs[f[i]].text = qs[i].text
  BY <1>1, <1>4, <1>5
<1> HIDE DEF f
<1>7. ASSUME NEW c PROVE Store!Count(qs, c) <= Store!Count(rs, c)
  BY <1>4, <1>6, CountInjection
<1>8. \A i \in 1 .. Len(qs) : qs[i] = rs[Len(rs) - Len(qs) + i]
  BY <1>4, <1>5
<1> QED
  BY <1>3, <1>4, <1>7, <1>8 DEF k, n

\* The table read backwards.
LEMMA ReverseFacts ==
  ASSUME NEW rs \in Seq(Store!Rows)
  PROVE  /\ Store!Reverse(rs) \in Seq(Store!Rows) /\ Len(Store!Reverse(rs)) = Len(rs)
         /\ \A c : Store!Count(rs, c) <= Store!Count(Store!Reverse(rs), c)
         /\ \A i \in 1 .. Len(rs) : Store!Reverse(rs)[i] = rs[(Len(rs) - i) + 1]
<1> DEFINE n == Len(rs)
           qs == [i \in 1 .. n |-> rs[(n - i) + 1]]
<1>1. n \in Nat /\ \A i \in 1 .. n : (n - i) + 1 \in 1 .. n /\ (n - ((n - i) + 1)) + 1 = i /\ rs[i] \in Store!Rows
  OBVIOUS
<1>2. Store!Reverse(rs) = qs
  BY DEF Store!Reverse
<1>3. qs \in Seq(Store!Rows) /\ Len(qs) = n /\ \A i \in 1 .. n : qs[(n - i) + 1] = rs[i]
  BY <1>1
<1>4. \A i \in 1 .. n : qs[i] = rs[(n - i) + 1]
  BY <1>1
<1> HIDE DEF qs, n
<1> DEFINE f == [i \in 1 .. n |-> (n - i) + 1]
<1>5. Len(rs) = n
  BY DEF n
<1>6. /\ f \in [1 .. Len(rs) -> 1 .. Len(qs)]
      /\ \A i, j \in 1 .. Len(rs) : f[i] = f[j] => i = j
      /\ \A i \in 1 .. Len(rs) : qs[f[i]].text = rs[i].text
  BY <1>1, <1>3, <1>5
<1> HIDE DEF f
<1>7. ASSUME NEW c PROVE Store!Count(rs, c) <= Store!Count(qs, c)
  BY <1>3, <1>6, CountInjection
<1> QED
  BY <1>2, <1>3, <1>4, <1>5, <1>7

\* A table with an output filled in.
Filled(rs, k, o) == [rs EXCEPT ![k].output = o]

\* An output filled in changes no command.
LEMMA OutputFacts ==
  ASSUME NEW rs \in Seq(Store!Rows), NEW k \in 1 .. Len(rs), NEW o \in Texts \cup {Store!None}
  PROVE  /\ Filled(rs, k, o) \in Seq(Store!Rows) /\ Len(Filled(rs, k, o)) = Len(rs)
         /\ \A c : Store!Count(Filled(rs, k, o), c) = Store!Count(rs, c)
         /\ \A i \in 1 .. Len(rs) : /\ Filled(rs, k, o)[i].at = rs[i].at /\ Filled(rs, k, o)[i].text = rs[i].text
                                    /\ i # k => Filled(rs, k, o)[i] = rs[i]
         /\ Filled(rs, k, o)[k].output = o
<1> DEFINE qs == Filled(rs, k, o)
           row == [rs[k] EXCEPT !.output = o]
<1>1. rs[k] \in Store!Rows
  OBVIOUS
<1>2. row \in Store!Rows /\ row.text = rs[k].text /\ row.at = rs[k].at /\ row.output = o
  BY <1>1 DEF Store!Rows
<1>q. qs = [rs EXCEPT ![k] = row]
  BY DEF Filled
<1> HIDE DEF row, qs
<1>3. qs \in Seq(Store!Rows) /\ Len(qs) = Len(rs) /\ DOMAIN qs = DOMAIN rs
  BY <1>2, <1>q
<1>4. \A i \in DOMAIN rs : qs[i].text = rs[i].text
  BY <1>2, <1>q
<1>6. /\ \A i \in 1 .. Len(rs) : qs[i].at = rs[i].at /\ qs[i].text = rs[i].text /\ (i # k => qs[i] = rs[i])
      /\ qs[k].output = o
  BY <1>2, <1>q
<1>5. ASSUME NEW c PROVE Store!Count(qs, c) = Store!Count(rs, c)
  BY <1>3, <1>4, CountIs DEF RowsWith
<1> QED
  BY <1>3, <1>5, <1>6 DEF qs

\* The appends under way, and those of a command.
Appends == {t \in tasks : t.op = "append"}
AppendsOf(c) == {t \in Appends : t.text = c}

\* The tables hold commands; while no clear overtook a task the table has what the panel has,
\* less what is under way, and no more rows than it may.
TablesMatch ==
  /\ Cardinality(Appends) <= Len(memory)
  /\ Len(disk) = IF Len(memory) - Cardinality(Appends) <= MaxRows THEN Len(memory) - Cardinality(Appends) ELSE MaxRows
  /\ \A c \in Texts : Store!Count(disk, c) + Cardinality(AppendsOf(c)) <= Store!Count(memory, c)

\* The outputs under way.
Fills == {t \in tasks : t.op = "backfill"}

\* Nothing is from a commit yet to come.
Past(rs, now) == \A i \in 1 .. Len(rs) : rs[i].at <= now

\* While the tasks run in their order, with appends A and outputs B under way: the k newest rows
\* of the panel are those A will append, each older than the one before it; an output in B is
\* that of the row before the one it is started with, which the panel shows already; and the rows
\* below them are those of the table, but for the newest output when it is in B.
InOrder(A, B, m, d, k) ==
  /\ \A i \in 1 .. k : \E a \in A : a.at = m[i].at /\ a.text = m[i].text
  /\ \A a \in A : \E i \in 1 .. k : m[i].at = a.at
  /\ \A a, c \in A : a.at = c.at => a = c
  /\ \A i \in 1 .. k, j \in 1 .. Len(m) : i < j => m[j].at < m[i].at
  /\ \A b \in B : \E a \in A : a.at = b.at
  /\ \A i \in 1 .. k, b \in B : i < Len(m) /\ m[i].at = b.at => m[i + 1].output = b.text
  /\ \A i \in 1 .. k : i = 1 \/ (\A b \in B : m[i - 1].at # b.at) => m[i].output = Store!None
  /\ \A i \in 1 .. Len(d) :
       /\ m[k + i].at = d[Len(d) + 1 - i].at /\ m[k + i].text = d[Len(d) + 1 - i].text
       /\ \/ m[k + i].output = d[Len(d) + 1 - i].output
          \/ i = 1 /\ k > 0 /\ \E b \in B : m[k].at = b.at

StoreInv ==
  /\ memory \in Seq(Store!Rows) /\ disk \in Seq(Store!Rows) /\ Len(disk) <= MaxRows
  /\ running \in [TwoTabs -> Texts \cup {Store!None}] /\ steps \in Nat
  /\ IsFiniteSet(tasks) /\ \A t \in tasks : t.at \in 1 .. MaxCommands /\ t.at <= steps
  /\ \A t \in tasks : t.op \in {"append", "backfill"} /\ t.text \in Texts \cup {Store!None} /\ (t.op = "append" => t.text \in Texts)
  /\ Past(memory, steps) /\ Past(disk, steps)
  /\ ~behind => TablesMatch
  /\ ~behind /\ ~shuffled => InOrder(Appends, Fills, memory, disk, Cardinality(Appends))

\* So are the appends under way.
LEMMA AppendsFinite ==
  ASSUME IsFiniteSet(tasks)
  PROVE  /\ IsFiniteSet(Appends) /\ Cardinality(Appends) \in Nat
         /\ \A c : IsFiniteSet(AppendsOf(c)) /\ Cardinality(AppendsOf(c)) \in Nat
<1>1. Appends \in SUBSET tasks /\ \A c : AppendsOf(c) \in SUBSET tasks
  BY DEF Appends, AppendsOf
<1>2. IsFiniteSet(Appends) /\ \A c : IsFiniteSet(AppendsOf(c))
  BY <1>1, FS_Subset
<1> QED
  BY <1>2, FS_CardinalityType

\* An empty table, and one without tasks.
LEMMA NothingStored ==
  /\ <<>> \in Seq(Store!Rows) /\ Len(<<>>) = 0
  /\ \A c : Store!Count(<<>>, c) = 0
<1>1. \A c : RowsWith(<<>>, c) = {}
  BY DEF RowsWith
<1> QED
  BY <1>1, CountIs, FS_EmptySet

\* Without tasks there are none.
LEMMA NoTasks == ASSUME tasks = {} PROVE Cardinality(Appends) = 0 /\ \A c : Cardinality(AppendsOf(c)) = 0
<1>1. Appends = {} /\ \A c : AppendsOf(c) = {}
  BY DEF Appends, AppendsOf
<1> QED
  BY <1>1, FS_EmptySet

\* With nothing under way, the table read backwards is in order.
LEMMA OrderRests ==
  ASSUME NEW A, A = {}, NEW B, B = {}, NEW m, NEW d \in Seq(Store!Rows), NEW k, k = 0,
         \A i \in 1 .. Len(d) : m[i] = d[Len(d) + 1 - i]
  PROVE  InOrder(A, B, m, d, k)
<1>1. \A i \in 1 .. Len(d) : k + i = i
  OBVIOUS
<1>2. 1 .. k = {}
  OBVIOUS
<1> QED
  BY <1>1, <1>2 DEF InOrder

\* A commit puts a row before those of m, fills the output of the first of them in, and starts
\* the tasks a and F for both.
Starts(A, B, m, n, now, a, F, out) ==
  /\ now \in Nat /\ \A i \in 1 .. Len(m) : m[i].at \in Nat /\ m[i].at < now
  /\ \A t \in A \cup B : t.at \in Nat /\ t.at < now
  /\ a.at = now /\ \A b \in F : b.at = now /\ b.text = out
  /\ Len(n) = Len(m) + 1 /\ n[1].at = now /\ n[1].text = a.text /\ n[1].output = Store!None
  /\ \A i \in 1 .. Len(m) : n[i + 1].at = m[i].at /\ n[i + 1].text = m[i].text
  /\ \A i \in 1 .. Len(m) : n[i + 1].output = IF i = 1 /\ F # {} THEN out ELSE m[i].output

\* It keeps the order.
LEMMA OrderCommit ==
  ASSUME NEW A, NEW B, NEW m \in Seq(Store!Rows), NEW d \in Seq(Store!Rows), NEW k \in Nat, k + Len(d) <= Len(m),
         InOrder(A, B, m, d, k), NEW n \in Seq(Store!Rows), NEW now, NEW a, NEW F, NEW out,
         Starts(A, B, m, n, now, a, F, out)
  PROVE  InOrder(A \cup {a}, B \cup F, n, d, k + 1)
<1> DEFINE M == Len(m)
           L == Len(d)
<1>0. M \in Nat /\ L \in Nat /\ k + L <= M /\ Len(n) = M + 1 /\ now \in Nat
  BY DEF Starts
<1>m. \A i \in 1 .. M : /\ m[i].at \in Nat /\ m[i].at < now
                        /\ n[i + 1].at = m[i].at /\ n[i + 1].text = m[i].text
                        /\ n[i + 1].output = IF i = 1 /\ F # {} THEN out ELSE m[i].output
  BY DEF Starts
<1>f. n[1].at = now /\ n[1].text = a.text /\ n[1].output = Store!None /\ a.at = now
  BY DEF Starts
<1>t. (\A t \in A \cup B : t.at \in Nat /\ t.at < now) /\ \A b \in F : b.at = now /\ b.text = out
  BY DEF Starts
<1>o. /\ \A i \in 1 .. k : \E c \in A : c.at = m[i].at /\ c.text = m[i].text
      /\ \A c \in A : \E i \in 1 .. k : m[i].at = c.at
      /\ \A c, e \in A : c.at = e.at => c = e
      /\ \A i \in 1 .. k, j \in 1 .. M : i < j => m[j].at < m[i].at
      /\ \A b \in B : \E c \in A : c.at = b.at
      /\ \A i \in 1 .. k, b \in B : i < M /\ m[i].at = b.at => m[i + 1].output = b.text
      /\ \A i \in 1 .. k : i = 1 \/ (\A b \in B : m[i - 1].at # b.at) => m[i].output = Store!None
      /\ \A i \in 1 .. L :
           /\ m[k + i].at = d[L + 1 - i].at /\ m[k + i].text = d[L + 1 - i].text
           /\ \/ m[k + i].output = d[L + 1 - i].output
              \/ i = 1 /\ k > 0 /\ \E b \in B : m[k].at = b.at
  BY DEF InOrder
<1> HIDE DEF M, L
<1>s. \A i \in 2 .. M + 1 : /\ i - 1 \in 1 .. M /\ n[i].at = m[i - 1].at /\ n[i].text = m[i - 1].text
                            /\ n[i].output = IF i = 2 /\ F # {} THEN out ELSE m[i - 1].output
  <2> TAKE i \in 2 .. M + 1
  <2>1. i - 1 \in 1 .. M /\ (i - 1) + 1 = i /\ (i - 1 = 1 <=> i = 2)
    BY <1>0
  <2> QED
    BY <1>m, <2>1
<1>k. \A i \in 2 .. k + 1 : i - 1 \in 1 .. k /\ i \in 2 .. M + 1 /\ i - 1 \in 1 .. M
  BY <1>0
<1>1. ASSUME NEW i \in 1 .. k + 1 PROVE \E c \in A \cup {a} : c.at = n[i].at /\ c.text = n[i].text
  <2>1. CASE i = 1
    BY <1>f, <2>1
  <2>2. CASE i # 1
    <3>1. i \in 2 .. k + 1
      BY <2>2
    <3>2. i - 1 \in 1 .. k /\ n[i].at = m[i - 1].at /\ n[i].text = m[i - 1].text
      BY <1>s, <1>k, <3>1
    <3> QED
      BY <1>o, <3>2
  <2> QED
    BY <2>1, <2>2
<1>2. ASSUME NEW c \in A \cup {a} PROVE \E i \in 1 .. k + 1 : n[i].at = c.at
  <2>1. CASE c = a
    <3>1. 1 \in 1 .. k + 1
      OBVIOUS
    <3> QED
      BY <1>f, <2>1, <3>1
  <2>2. CASE c \in A
    <3>1. PICK i \in 1 .. k : m[i].at = c.at
      BY <1>o, <2>2
    <3>2. i + 1 \in 1 .. k + 1 /\ i \in 1 .. M
      BY <1>0, <3>1
    <3> QED
      BY <1>m, <3>1, <3>2
  <2> QED
    BY <2>1, <2>2
<1>3. \A c, e \in A \cup {a} : c.at = e.at => c = e
  BY <1>f, <1>t, <1>o
<1>4. ASSUME NEW i \in 1 .. k + 1, NEW j \in 1 .. M + 1, i < j PROVE n[j].at < n[i].at
  <2>1. j \in 2 .. M + 1
    BY <1>0, <1>4
  <2>2. n[j].at = m[j - 1].at /\ j - 1 \in 1 .. M
    BY <1>s, <2>1
  <2>3. CASE i = 1
    BY <1>f, <1>m, <2>2, <2>3
  <2>4. CASE i # 1
    <3>1. i \in 2 .. k + 1 /\ i - 1 < j - 1
      BY <1>4, <2>4, <2>1
    <3>2. i - 1 \in 1 .. k /\ n[i].at = m[i - 1].at
      BY <1>s, <1>k, <3>1
    <3> QED
      BY <1>o, <2>2, <3>1, <3>2
  <2> QED
    BY <2>3, <2>4
<1>5. \A b \in B \cup F : \E c \in A \cup {a} : c.at = b.at
  BY <1>f, <1>t, <1>o
<1>6. ASSUME NEW i \in 1 .. k + 1, NEW b \in B \cup F, i < M + 1, n[i].at = b.at PROVE n[i + 1].output = b.text
  <2>0. i \in 1 .. M
    BY <1>0, <1>6
  <2>1. CASE i = 1
    <3>1. b.at = now
      BY <1>f, <1>6, <2>1
    <3>2. b \in F /\ b.text = out
      BY <1>t, <3>1
    <3> QED
      BY <1>m, <2>0, <2>1, <3>2
  <2>2. CASE i # 1
    <3>1. i \in 2 .. k + 1
      BY <2>2
    <3>2. PICK j \in 1 .. k : j \in 1 .. M /\ j < M /\ j + 1 = i /\ n[i].at = m[j].at
      <4>1. i - 1 \in 1 .. k /\ i - 1 \in 1 .. M /\ i - 1 < M /\ (i - 1) + 1 = i /\ n[i].at = m[i - 1].at
        BY <1>0, <1>s, <1>k, <2>0, <3>1
      <4> QED
        BY <4>1
    <3>a. b.at = m[j].at /\ m[j].at \in Nat /\ m[j].at < now
      BY <1>m, <1>6, <3>2
    <3>3. b \in B
      BY <1>t, <1>6, <3>a
    <3>b. m[j + 1].output = b.text
      BY <1>o, <3>2, <3>a, <3>3
    <3>4. m[i].output = b.text
      BY <3>2, <3>b
    <3> QED
      BY <1>m, <2>0, <2>2, <3>4
  <2> QED
    BY <2>1, <2>2
<1>7. ASSUME NEW i \in 1 .. k + 1, i = 1 \/ (\A b \in B \cup F : n[i - 1].at # b.at) PROVE n[i].output = Store!None
  <2>1. CASE i = 1
    BY <1>f, <2>1
  <2>2. CASE i = 2
    <3>1. F = {}
      BY <1>f, <1>t, <1>7, <2>2
    <3>2. 1 \in 1 .. k /\ 1 \in 1 .. M /\ i = 1 + 1
      BY <1>0, <2>2
    <3>3. m[1].output = Store!None
      BY <1>o, <3>2
    <3> QED
      BY <1>m, <3>1, <3>2, <3>3
  <2>3. CASE i # 1 /\ i # 2
    <3>1. i \in 2 .. k + 1 /\ i - 1 \in 2 .. k + 1 /\ i - 1 \in 1 .. k
      BY <2>3
    <3>2. n[i - 1].at = m[(i - 1) - 1].at /\ n[i].output = m[i - 1].output
      BY <1>s, <1>k, <2>3, <3>1
    <3>3. \A b \in B : m[(i - 1) - 1].at # b.at
      BY <1>7, <2>3, <3>2
    <3> QED
      BY <1>o, <3>1, <3>2, <3>3
  <2> QED
    BY <2>1, <2>2, <2>3
<1>8. ASSUME NEW i \in 1 .. L
      PROVE  /\ n[(k + 1) + i].at = d[L + 1 - i].at /\ n[(k + 1) + i].text = d[L + 1 - i].text
             /\ \/ n[(k + 1) + i].output = d[L + 1 - i].output
                \/ i = 1 /\ k + 1 > 0 /\ \E b \in B \cup F : n[k + 1].at = b.at
  <2>1. k + i \in 1 .. M /\ (k + i) + 1 = (k + 1) + i /\ (k + i = 1 <=> k = 0 /\ i = 1)
    BY <1>0
  <2>2. /\ n[(k + 1) + i].at = m[k + i].at /\ n[(k + 1) + i].text = m[k + i].text
        /\ n[(k + 1) + i].output = IF k + i = 1 /\ F # {} THEN out ELSE m[k + i].output
    BY <1>m, <2>1
  <2>3. /\ m[k + i].at = d[L + 1 - i].at /\ m[k + i].text = d[L + 1 - i].text
        /\ \/ m[k + i].output = d[L + 1 - i].output
           \/ i = 1 /\ k > 0 /\ \E b \in B : m[k].at = b.at
    BY <1>o
  <2>4. CASE k + i = 1 /\ F # {}
    <3>1. k = 0 /\ i = 1
      BY <2>1, <2>4
    <3>2. \E b \in F : n[k + 1].at = b.at
      BY <1>f, <1>t, <2>4, <3>1
    <3> QED
      BY <2>2, <2>3, <3>1, <3>2
  <2>5. CASE m[k + i].output = d[L + 1 - i].output /\ ~(k + i = 1 /\ F # {})
    BY <2>2, <2>3, <2>5
  <2>6. CASE i = 1 /\ k > 0 /\ \E b \in B : m[k].at = b.at
    <3>1. k \in 1 .. M
      BY <1>0, <2>6
    <3>2. n[k + 1].at = m[k].at
      BY <1>m, <3>1
    <3> QED
      BY <2>2, <2>3, <2>6, <3>2
  <2> QED
    BY <2>3, <2>4, <2>5, <2>6
<1> QED
  BY ONLY <1>0, <1>1, <1>2, <1>3, <1>4, <1>5, <1>6, <1>7, <1>8 DEF InOrder, L

\* The rows a task that is next writes for: the oldest of those under way.
LEMMA OrderNext ==
  ASSUME NEW A, NEW B, NEW m \in Seq(Store!Rows), NEW d \in Seq(Store!Rows), NEW k \in Nat, k <= Len(m),
         InOrder(A, B, m, d, k), \A i \in 1 .. Len(m) : m[i].at \in Nat,
         NEW a \in A, \A t \in A : t.at \in Nat /\ ~(t.at < a.at)
  PROVE  k \in 1 .. Len(m) /\ m[k].at = a.at /\ m[k].text = a.text
<1>1. PICK i \in 1 .. k : m[i].at = a.at
  BY DEF InOrder
<1>2. k \in 1 .. k /\ k \in 1 .. Len(m) /\ i \in 1 .. Len(m)
  BY <1>1
<1>3. PICK c \in A : c.at = m[k].at /\ c.text = m[k].text
  BY <1>2 DEF InOrder
<1>4. i = k
  <2> SUFFICES ASSUME i # k PROVE FALSE
    OBVIOUS
  <2>1. i < k
    BY <1>1, <1>2
  <2>2. m[k].at < m[i].at
    BY <1>2, <2>1 DEF InOrder
  <2> QED
    BY <1>1, <1>3, <2>2
<1>5. c.at = a.at
  BY <1>1, <1>3, <1>4
<1>6. c = a
  BY <1>5 DEF InOrder
<1> QED
  BY <1>1, <1>2, <1>3, <1>4, <1>6

\* The next append writes the row the panel shows, before whatever is left of the others.
LEMMA OrderAppend ==
  ASSUME NEW A, NEW B, NEW m \in Seq(Store!Rows), NEW d \in Seq(Store!Rows), NEW k \in Nat, k <= Len(m),
         InOrder(A, B, m, d, k), \A i \in 1 .. Len(m) : m[i].at \in Nat,
         NEW a \in A, \A t \in A : t.at \in Nat /\ ~(t.at < a.at),
         \A b \in B : b.at # a.at,
         NEW e \in Seq(Store!Rows), Len(e) <= Len(d) + 1,
         Len(e) > 0 => e[Len(e)].at = a.at /\ e[Len(e)].text = a.text /\ e[Len(e)].output = Store!None,
         \A i \in 2 .. Len(e) : e[Len(e) + 1 - i] = d[Len(d) + 2 - i]
  PROVE  InOrder(A \ {a}, B, m, e, k - 1)
<1> DEFINE M == Len(m)
           L == Len(d)
           N == Len(e)
<1>0. M \in Nat /\ L \in Nat /\ N \in Nat /\ N <= L + 1
  OBVIOUS
<1>a. k \in 1 .. M /\ m[k].at = a.at /\ m[k].text = a.text
  BY OrderNext
<1>e. /\ N > 0 => e[N].at = a.at /\ e[N].text = a.text /\ e[N].output = Store!None
      /\ \A i \in 2 .. N : e[N + 1 - i] = d[L + 2 - i]
      /\ \A b \in B : b.at # a.at
  OBVIOUS
<1>o. /\ \A i \in 1 .. k : \E c \in A : c.at = m[i].at /\ c.text = m[i].text
      /\ \A c \in A : \E i \in 1 .. k : m[i].at = c.at
      /\ \A c, f \in A : c.at = f.at => c = f
      /\ \A i \in 1 .. k, j \in 1 .. M : i < j => m[j].at < m[i].at
      /\ \A b \in B : \E c \in A : c.at = b.at
      /\ \A i \in 1 .. k, b \in B : i < M /\ m[i].at = b.at => m[i + 1].output = b.text
      /\ \A i \in 1 .. k : i = 1 \/ (\A b \in B : m[i - 1].at # b.at) => m[i].output = Store!None
      /\ \A i \in 1 .. L :
           /\ m[k + i].at = d[L + 1 - i].at /\ m[k + i].text = d[L + 1 - i].text
           /\ \/ m[k + i].output = d[L + 1 - i].output
              \/ i = 1 /\ k > 0 /\ \E b \in B : m[k].at = b.at
  BY DEF InOrder
<1>n. \A i \in 1 .. M : m[i].at \in Nat
  OBVIOUS
<1> HIDE DEF M, L, N
<1>k. \A i \in 1 .. k - 1 : i \in 1 .. k /\ i \in 1 .. M /\ i < k
  BY <1>0, <1>a
<1>1. ASSUME NEW i \in 1 .. k - 1 PROVE \E c \in A \ {a} : c.at = m[i].at /\ c.text = m[i].text
  <2>1. m[k].at < m[i].at
    BY <1>a, <1>k, <1>o
  <2>2. PICK c \in A : c.at = m[i].at /\ c.text = m[i].text
    BY <1>k, <1>o
  <2>3. c # a
    BY <1>a, <1>k, <1>n, <2>1, <2>2
  <2> QED
    BY <2>2, <2>3
<1>2. ASSUME NEW c \in A \ {a} PROVE \E i \in 1 .. k - 1 : m[i].at = c.at
  <2>1. PICK i \in 1 .. k : m[i].at = c.at
    BY <1>o
  <2>2. i # k
    BY <1>a, <1>o, <2>1
  <2>3. i \in 1 .. k - 1
    BY <1>a, <2>2
  <2> QED
    BY <2>1, <2>3
<1>3. \A c, f \in A \ {a} : c.at = f.at => c = f
  BY <1>o
<1>4. \A i \in 1 .. k - 1, j \in 1 .. M : i < j => m[j].at < m[i].at
  BY <1>k, <1>o
<1>5. \A b \in B : \E c \in A \ {a} : c.at = b.at
  BY <1>o, <1>e
<1>6. \A i \in 1 .. k - 1, b \in B : i < M /\ m[i].at = b.at => m[i + 1].output = b.text
  BY <1>k, <1>o
<1>7. \A i \in 1 .. k - 1 : i = 1 \/ (\A b \in B : m[i - 1].at # b.at) => m[i].output = Store!None
  BY <1>k, <1>o
<1>8. ASSUME NEW i \in 1 .. N
      PROVE  /\ m[(k - 1) + i].at = e[N + 1 - i].at /\ m[(k - 1) + i].text = e[N + 1 - i].text
             /\ \/ m[(k - 1) + i].output = e[N + 1 - i].output
                \/ i = 1 /\ k - 1 > 0 /\ \E b \in B : m[k - 1].at = b.at
  <2>1. CASE i = 1
    <3>1. N + 1 - i = N /\ (k - 1) + i = k /\ N > 0
      BY <1>0, <1>a, <2>1
    <3>2. CASE k = 1 \/ \A b \in B : m[k - 1].at # b.at
      <4>1. k \in 1 .. k
        BY <1>a
      <4>2. m[k].output = Store!None
        BY <1>o, <3>2, <4>1
      <4> QED
        BY <1>a, <1>e, <3>1, <4>2
    <3>3. CASE k # 1 /\ \E b \in B : m[k - 1].at = b.at
      <4>1. k - 1 > 0
        BY <1>a, <3>3
      <4> QED
        BY <1>a, <1>e, <2>1, <3>1, <3>3, <4>1
    <3> QED
      BY <3>2, <3>3
  <2>2. CASE i # 1
    <3>1. i \in 2 .. N /\ i - 1 \in 1 .. L /\ L + 1 - (i - 1) = L + 2 - i /\ (k - 1) + i = k + (i - 1)
      BY <1>0, <1>a, <2>2
    <3>2. e[N + 1 - i] = d[L + 2 - i]
      BY <1>e, <3>1
    <3>3. \A b \in B : m[k].at # b.at
      BY <1>a, <1>e
    <3>4. /\ m[k + (i - 1)].at = d[L + 1 - (i - 1)].at /\ m[k + (i - 1)].text = d[L + 1 - (i - 1)].text
          /\ m[k + (i - 1)].output = d[L + 1 - (i - 1)].output
      BY <1>o, <3>1, <3>3
    <3> QED
      BY <3>1, <3>2, <3>4
  <2> QED
    BY <2>1, <2>2
<1> QED
  BY <1>1, <1>2, <1>3, <1>4, <1>5, <1>6, <1>7, <1>8 DEF InOrder, M, N

\* The next output is written to the newest row of the table, which is the row it belongs to.
LEMMA OrderFill ==
  ASSUME NEW A, NEW B, NEW m \in Seq(Store!Rows), NEW d \in Seq(Store!Rows), NEW k \in Nat, k + Len(d) <= Len(m),
         InOrder(A, B, m, d, k), \A i \in 1 .. Len(m) : m[i].at \in Nat,
         NEW b \in B, \A t \in A : t.at \in Nat /\ ~(t.at < b.at),
         NEW e \in Seq(Store!Rows), Len(e) = Len(d),
         Len(d) > 0 => e[Len(d)].at = d[Len(d)].at /\ e[Len(d)].text = d[Len(d)].text /\ e[Len(d)].output = b.text,
         \A i \in 1 .. Len(d) : i # Len(d) => e[i] = d[i]
  PROVE  InOrder(A, B \ {b}, m, e, k)
<1> DEFINE M == Len(m)
           L == Len(d)
<1>0. M \in Nat /\ L \in Nat /\ k + L <= M /\ k <= M /\ Len(e) = L
  OBVIOUS
<1>o. /\ \A i \in 1 .. k : \E c \in A : c.at = m[i].at /\ c.text = m[i].text
      /\ \A c \in A : \E i \in 1 .. k : m[i].at = c.at
      /\ \A c, f \in A : c.at = f.at => c = f
      /\ \A i \in 1 .. k, j \in 1 .. M : i < j => m[j].at < m[i].at
      /\ \A f \in B : \E c \in A : c.at = f.at
      /\ \A i \in 1 .. k, f \in B : i < M /\ m[i].at = f.at => m[i + 1].output = f.text
      /\ \A i \in 1 .. k : i = 1 \/ (\A f \in B : m[i - 1].at # f.at) => m[i].output = Store!None
      /\ \A i \in 1 .. L :
           /\ m[k + i].at = d[L + 1 - i].at /\ m[k + i].text = d[L + 1 - i].text
           /\ \/ m[k + i].output = d[L + 1 - i].output
              \/ i = 1 /\ k > 0 /\ \E f \in B : m[k].at = f.at
  BY DEF InOrder
<1>e. /\ L > 0 => e[L].at = d[L].at /\ e[L].text = d[L].text /\ e[L].output = b.text
      /\ \A i \in 1 .. L : i # L => e[i] = d[i]
  OBVIOUS
<1>n. \A i \in 1 .. M : m[i].at \in Nat
  OBVIOUS
<1>1. PICK a \in A : a.at = b.at
  BY <1>o
<1>2. k \in 1 .. M /\ m[k].at = b.at
  <2>1. \A t \in A : t.at \in Nat /\ ~(t.at < a.at)
    BY <1>1
  <2> QED
    BY <1>0, <1>1, <2>1, OrderNext
<1> HIDE DEF M, L
<1>3. \A i \in 1 .. k : i = 1 \/ (\A f \in B \ {b} : m[i - 1].at # f.at) => m[i].output = Store!None
  <2> SUFFICES ASSUME NEW i \in 1 .. k, i # 1, \A f \in B \ {b} : m[i - 1].at # f.at PROVE m[i].output = Store!None
    BY <1>o
  <2>1. i - 1 \in 1 .. k /\ i - 1 < k /\ k \in 1 .. M /\ i - 1 \in 1 .. M
    BY <1>0, <1>2
  <2>2. m[k].at < m[i - 1].at
    BY <1>o, <2>1
  <2>3. m[i - 1].at # b.at
    BY <1>2, <1>n, <2>1, <2>2
  <2> QED
    BY <1>o, <2>3
<1>4. ASSUME NEW i \in 1 .. L
      PROVE  /\ m[k + i].at = e[L + 1 - i].at /\ m[k + i].text = e[L + 1 - i].text
             /\ m[k + i].output = e[L + 1 - i].output
  <2>0. m[k + i].at = d[L + 1 - i].at /\ m[k + i].text = d[L + 1 - i].text
    BY <1>o
  <2>1. CASE i = 1
    <3>1. L + 1 - i = L /\ L > 0 /\ k + i = k + 1 /\ k < M /\ k \in 1 .. k
      BY <1>0, <1>2, <2>1
    <3>2. m[k + 1].output = b.text
      BY <1>o, <1>2, <3>1
    <3> QED
      BY <1>e, <2>0, <3>1, <3>2
  <2>2. CASE i # 1
    <3>1. L + 1 - i \in 1 .. L /\ L + 1 - i # L
      BY <1>0, <2>2
    <3>2. e[L + 1 - i] = d[L + 1 - i]
      BY <1>e, <3>1
    <3> QED
      BY <1>o, <2>2, <3>2
  <2> QED
    BY <2>1, <2>2
<1> QED
  BY <1>0, <1>o, <1>3, <1>4 DEF InOrder, M

\* The history starts empty.
LEMMA StoreFirst == Store!HistoryInit => StoreInv
<1> SUFFICES ASSUME Store!HistoryInit PROVE StoreInv
  OBVIOUS
<1>1. tasks = {} /\ memory = <<>> /\ disk = <<>> /\ steps = 0 /\ running = [t \in TwoTabs |-> Store!None]
  BY DEF Store!HistoryInit
<1>2. IsFiniteSet(tasks)
  BY <1>1, FS_EmptySet
<1>3. TablesMatch
  BY <1>1, NoTasks, NothingStored, StoreBounds DEF TablesMatch
<1>4. memory \in Seq(Store!Rows) /\ disk \in Seq(Store!Rows) /\ Len(disk) <= MaxRows /\ Len(disk) = 0 /\ Len(memory) = 0
  BY <1>1, NothingStored, StoreBounds
<1>5. Past(memory, steps) /\ Past(disk, steps)
  BY <1>4 DEF Past
<1>6. Appends = {} /\ Fills = {} /\ Cardinality(Appends) = 0
  BY <1>1, NoTasks DEF Appends, Fills
<1>8. \A i \in 1 .. Len(disk) : memory[i] = disk[Len(disk) + 1 - i]
  BY <1>4
<1>7. InOrder(Appends, Fills, memory, disk, Cardinality(Appends))
  BY <1>4, <1>6, <1>8, OrderRests
<1> QED
  BY <1>1, <1>2, <1>3, <1>4, <1>5, <1>7 DEF StoreInv

\* What a commit starts: a task to append the command, and at most one more.
LEMMA CommitFacts ==
  ASSUME StoreInv, NEW t \in TwoTabs, NEW c \in Texts, Store!Commit(t, c)
  PROVE  StoreInv'
<1>1. /\ memory \in Seq(Store!Rows) /\ disk \in Seq(Store!Rows) /\ Len(disk) <= MaxRows
      /\ running \in [TwoTabs -> Texts \cup {Store!None}] /\ steps \in Nat /\ IsFiniteSet(tasks)
      /\ \A s \in tasks : s.at \in 1 .. MaxCommands /\ s.at <= steps
      /\ \A s \in tasks : s.op \in {"append", "backfill"} /\ s.text \in Texts \cup {Store!None} /\ (s.op = "append" => s.text \in Texts)
      /\ Past(memory, steps) /\ Past(disk, steps) /\ MaxCommands \in Nat
  BY StoreBounds DEF StoreInv
<1>2. /\ steps' = steps + 1 /\ running' = [running EXCEPT ![t] = c] /\ disk' = disk /\ behind' = behind
      /\ steps < MaxCommands /\ shuffled' = shuffled
  BY DEF Store!Commit
<1>a. steps' \in 1 .. MaxCommands /\ \A i \in Nat : i <= steps => i <= steps' /\ i < steps'
  BY <1>1, <1>2
<1>p. ASSUME NEW rs \in Seq(Store!Rows), Past(rs, steps)
      PROVE  Past(rs, steps') /\ \A i \in 1 .. Len(rs) : rs[i].at \in Nat /\ rs[i].at < steps'
  <2>1. \A i \in 1 .. Len(rs) : rs[i].at \in Nat /\ rs[i].at <= steps
    <3>1. \A i \in 1 .. Len(rs) : rs[i] \in Store!Rows
      OBVIOUS
    <3> QED
      BY <1>1, <1>p, <3>1 DEF Store!Rows, Past
  <2> QED
    BY <1>a, <2>1 DEF Past
<1>3. running' \in [TwoTabs -> Texts \cup {Store!None}] /\ steps' \in Nat
  BY <1>1, <1>2
<1>4. CASE ~Store!Grown(t, c)
  <2>1. memory' = memory /\ tasks' = tasks
    BY <1>4 DEF Store!Commit
  <2>2. \A s \in tasks : s.at <= steps'
    BY <1>1, <1>2
  <2>3. TablesMatch => TablesMatch'
    BY <1>2, <2>1 DEF TablesMatch, Appends, AppendsOf
  <2>4. Appends' = Appends /\ Fills' = Fills
    BY <2>1 DEF Appends, Fills
  <2>5. ~behind' /\ ~shuffled' => InOrder(Appends, Fills, memory, disk, Cardinality(Appends))'
    BY <1>2, <2>1, <2>4 DEF StoreInv
  <2> HIDE DEF Store!Grown
  <2> QED
    BY <1>1, <1>2, <1>3, <1>p, <2>1, <2>2, <2>3, <2>5 DEF StoreInv
<1>5. CASE Store!Grown(t, c)
  <2> DEFINE row == Store!Row(c, steps')
             rest == IF got[t] THEN Store!Backfilled(memory, running[t]) ELSE memory
             new == [op |-> "append", text |-> c, at |-> steps']
             fill == IF got[t] THEN {[op |-> "backfill", text |-> running[t], at |-> steps']} ELSE {}
  <2>1. memory' = <<row>> \o rest /\ tasks' = tasks \cup {new} \cup fill
    BY <1>5 DEF Store!Commit
  <2>2. row \in Store!Rows /\ row.text = c /\ row.at = steps' /\ row.output = Store!None
    BY <1>a DEF Store!Rows, Store!Row
  <2>3. /\ rest \in Seq(Store!Rows) /\ Len(rest) = Len(memory) /\ \A d : Store!Count(rest, d) = Store!Count(memory, d)
        /\ \A i \in 1 .. Len(memory) : rest[i].at = memory[i].at /\ rest[i].text = memory[i].text
        /\ \A i \in 1 .. Len(memory) : rest[i].output = IF i = 1 /\ got[t] THEN running[t] ELSE memory[i].output
    <3>1. CASE ~got[t] \/ memory = <<>>
      BY <1>1, <3>1 DEF Store!Backfilled
    <3>2. CASE got[t] /\ memory # <<>>
      <4>1. 1 \in 1 .. Len(memory) /\ running[t] \in Texts \cup {Store!None}
        BY <1>1, <3>2
      <4>2. rest = Filled(memory, 1, running[t])
        BY <3>2 DEF Store!Backfilled, Filled
      <4>3. memory \in Seq(Store!Rows)
        BY <1>1
      <4> HIDE DEF rest
      <4>5. /\ rest \in Seq(Store!Rows) /\ Len(rest) = Len(memory)
            /\ \A d : Store!Count(rest, d) = Store!Count(memory, d)
            /\ \A i \in 1 .. Len(memory) : rest[i].at = memory[i].at /\ rest[i].text = memory[i].text /\ (i # 1 => rest[i] = memory[i])
            /\ rest[1].output = running[t]
        BY ONLY <4>1, <4>2, <4>3, OutputFacts
      <4>6. \A i \in 1 .. Len(memory) : rest[i].output = IF i = 1 /\ got[t] THEN running[t] ELSE memory[i].output
        BY ONLY <3>2, <4>5, Zenon
      <4> QED
        BY ONLY <4>5, <4>6, Zenon
    <3> QED
      BY <3>1, <3>2
  <2>4. /\ new.op = "append" /\ new.text = c /\ new.at = steps + 1 /\ new \notin tasks
        /\ \A s \in fill : s.op = "backfill" /\ s.text \in Texts \cup {Store!None} /\ s.at = steps + 1 /\ s.text = running[t]
        /\ IsFiniteSet(fill) /\ (fill = {} <=> ~got[t])
    <3>1. new.op = "append" /\ new.text = c /\ new.at = steps + 1
      BY <1>2
    <3>2. new \notin tasks
      BY <1>1, <3>1
    <3>3. \A s \in fill : s.op = "backfill" /\ s.text \in Texts \cup {Store!None} /\ s.at = steps + 1 /\ s.text = running[t]
      BY <1>1, <1>2
    <3>4. IsFiniteSet(fill) /\ (fill = {} <=> ~got[t])
      BY FS_EmptySet, FS_Singleton
    <3> QED
      BY <3>1, <3>2, <3>3, <3>4
  <2> HIDE DEF row, rest, new, fill
  <2>5. /\ memory' \in Seq(Store!Rows) /\ Len(memory') = Len(memory) + 1 /\ Len(memory) \in Nat
        /\ \A d : Store!Count(memory, d) + (IF c = d THEN 1 ELSE 0) <= Store!Count(memory', d)
        /\ memory'[1] = row /\ \A i \in 1 .. Len(memory) : memory'[i + 1] = rest[i]
    BY <1>1, <2>1, <2>2, <2>3, CountPrepend
  <2>6. IsFiniteSet(tasks')
    BY <1>1, <2>1, <2>4, FS_AddElement, FS_Union
  <2>7. \A s \in tasks' : s.at \in 1 .. MaxCommands /\ s.at <= steps'
    BY <1>1, <1>2, <1>a, <2>1, <2>4
  <2>8. \A s \in tasks' : s.op \in {"append", "backfill"} /\ s.text \in Texts \cup {Store!None} /\ (s.op = "append" => s.text \in Texts)
    BY <1>1, <2>1, <2>4
  <2>9. ASSUME TablesMatch PROVE TablesMatch'
    <3>1. Appends' = Appends \cup {new} /\ new \notin Appends
      BY <2>1, <2>4 DEF Appends
    <3>2. IsFiniteSet(Appends) /\ Cardinality(Appends) \in Nat
      BY <1>1, AppendsFinite
    <3>3. Cardinality(Appends') = Cardinality(Appends) + 1
      BY <3>1, <3>2, FS_AddElement
    <3>4. ASSUME NEW d \in Texts PROVE Store!Count(disk', d) + Cardinality(AppendsOf(d)') <= Store!Count(memory', d)
      <4>1. Store!Count(disk, d) + Cardinality(AppendsOf(d)) <= Store!Count(memory, d)
        BY <2>9 DEF TablesMatch
      <4>2. IsFiniteSet(AppendsOf(d)) /\ Cardinality(AppendsOf(d)) \in Nat
        BY <1>1, AppendsFinite
      <4>3. Store!Count(disk, d) \in Nat /\ Store!Count(memory, d) \in Nat /\ Store!Count(memory', d) \in Nat
        BY <1>1, <2>5, PlacesFinite
      <4>4. Cardinality(AppendsOf(d)') <= Cardinality(AppendsOf(d)) + (IF c = d THEN 1 ELSE 0) /\ Cardinality(AppendsOf(d)') \in Nat
        <5>1. CASE c = d
          <6>1. AppendsOf(d)' = AppendsOf(d) \cup {new} /\ new \notin AppendsOf(d)
            BY <2>4, <3>1, <5>1 DEF AppendsOf
          <6>2. Cardinality(AppendsOf(d) \cup {new}) = Cardinality(AppendsOf(d)) + 1
            BY <4>2, <6>1, FS_AddElement
          <6>3. Cardinality(AppendsOf(d)') = Cardinality(AppendsOf(d)) + 1
            BY <6>1, <6>2
          <6> QED
            BY <4>2, <5>1, <6>3
        <5>2. CASE c # d
          <6>1. AppendsOf(d)' = AppendsOf(d)
            BY <2>4, <3>1, <5>2 DEF AppendsOf
          <6> QED
            BY <4>2, <5>2, <6>1
        <5> QED
          BY <5>1, <5>2
      <4>5. Store!Count(memory, d) + (IF c = d THEN 1 ELSE 0) <= Store!Count(memory', d) /\ disk' = disk
        BY <1>2, <2>5
      <4> QED
        BY <4>1, <4>2, <4>3, <4>4, <4>5
    <3>5. Len(memory') - Cardinality(Appends') = Len(memory) - Cardinality(Appends)
      BY <2>5, <3>2, <3>3
    <3>6. Cardinality(Appends') <= Len(memory')
      BY <2>5, <2>9, <3>2, <3>3 DEF TablesMatch
    <3>7. Len(disk) = IF Len(memory) - Cardinality(Appends) <= MaxRows THEN Len(memory) - Cardinality(Appends) ELSE MaxRows
      BY <2>9 DEF TablesMatch
    <3> QED
      BY <1>2, <3>4, <3>5, <3>6, <3>7 DEF TablesMatch
  <2>10. Past(memory', steps') /\ Past(disk', steps')
    <3>1. Past(disk, steps') /\ Past(memory, steps')
      BY <1>1, <1>p
    <3>2. \A i \in 1 .. Len(rest) : rest[i].at <= steps'
      BY <2>3, <3>1 DEF Past
    <3>3. ASSUME NEW i \in 1 .. Len(memory') PROVE memory'[i].at <= steps'
      <4>1. CASE i = 1
        BY <1>a, <2>2, <2>5, <4>1
      <4>2. CASE i # 1
        <5>1. i - 1 \in 1 .. Len(memory) /\ (i - 1) + 1 = i
          BY <2>5, <4>2
        <5>2. memory'[(i - 1) + 1] = rest[i - 1]
          BY <2>5, <5>1
        <5> QED
          BY <2>3, <3>2, <5>1, <5>2
      <4> QED
        BY <4>1, <4>2
    <3> QED
      BY <1>2, <3>1, <3>3 DEF Past
  <2>11. ASSUME ~behind, ~shuffled PROVE InOrder(Appends, Fills, memory, disk, Cardinality(Appends))'
    <3> DEFINE k == Cardinality(Appends)
    <3>1. Appends' = Appends \cup {new} /\ Fills' = Fills \cup fill /\ new \notin Appends
      BY <2>1, <2>4 DEF Appends, Fills
    <3>2. IsFiniteSet(Appends) /\ k \in Nat
      BY <1>1, AppendsFinite
    <3>3. Cardinality(Appends') = k + 1
      BY <3>1, <3>2, FS_AddElement
    <3>4. InOrder(Appends, Fills, memory, disk, k) /\ TablesMatch
      BY <2>11 DEF StoreInv
    <3>5. k + Len(disk) <= Len(memory)
      BY <1>1, <3>2, <3>4 DEF TablesMatch
    <3> HIDE DEF k
    <3>6. \A s \in Appends \cup Fills : s.at \in Nat /\ s.at < steps'
      BY <1>1, <1>a DEF Appends, Fills
    <3>7. steps' \in Nat /\ new.at = steps' /\ \A s \in fill : s.at = steps' /\ s.text = running[t]
      BY <1>2, <1>3, <2>4
    <3>8. \A i \in 1 .. Len(memory) : memory[i].at \in Nat /\ memory[i].at < steps'
      BY <1>1, <1>p
    <3>9. memory'[1].at = steps' /\ memory'[1].text = new.text /\ memory'[1].output = Store!None
      BY <2>2, <2>4, <2>5
    <3>10. /\ \A i \in 1 .. Len(memory) : memory'[i + 1].at = memory[i].at /\ memory'[i + 1].text = memory[i].text
           /\ \A i \in 1 .. Len(memory) : memory'[i + 1].output = IF i = 1 /\ fill # {} THEN running[t] ELSE memory[i].output
      BY <2>3, <2>4, <2>5
    <3>a. memory \in Seq(Store!Rows) /\ disk \in Seq(Store!Rows) /\ memory' \in Seq(Store!Rows) /\ Len(memory') = Len(memory) + 1
      BY <1>1, <2>5
    <3>b. Starts(Appends, Fills, memory, memory', steps', new, fill, running[t])
      BY <3>a, <3>6, <3>7, <3>8, <3>9, <3>10 DEF Starts
    <3>11. InOrder(Appends \cup {new}, Fills \cup fill, memory', disk, k + 1)
      BY ONLY <3>a, <3>2, <3>4, <3>5, <3>b, OrderCommit
    <3> QED
      BY <1>2, <3>1, <3>3, <3>11
  <2> QED
    BY <1>1, <1>2, <1>3, <2>5, <2>6, <2>7, <2>8, <2>9, <2>10, <2>11 DEF StoreInv
<1> QED
  BY <1>4, <1>5

\* A task writes its row, or fills in an output.
LEMMA WriteFacts ==
  ASSUME StoreInv, NEW task \in tasks, Store!Write(task)
  PROVE  StoreInv'
<1>1. /\ memory \in Seq(Store!Rows) /\ disk \in Seq(Store!Rows) /\ Len(disk) <= MaxRows
      /\ running \in [TwoTabs -> Texts \cup {Store!None}] /\ steps \in Nat /\ IsFiniteSet(tasks)
      /\ \A s \in tasks : s.at \in 1 .. MaxCommands /\ s.at <= steps
      /\ \A s \in tasks : s.op \in {"append", "backfill"} /\ s.text \in Texts \cup {Store!None} /\ (s.op = "append" => s.text \in Texts)
      /\ Past(memory, steps) /\ Past(disk, steps) /\ MaxCommands \in Nat
  BY StoreBounds DEF StoreInv
<1>2. /\ memory' = memory /\ running' = running /\ steps' = steps /\ behind' = behind /\ tasks' = tasks \ {task}
      /\ disk' = IF task.op = "append" THEN Store!Appended(task) ELSE Store!Overwritten(task)
      /\ shuffled' = (shuffled \/ \E other \in tasks : Store!Before(other, task))
  BY DEF Store!Write
<1>n. \A i \in 1 .. Len(memory) : memory[i].at \in Nat
  <2>1. \A i \in 1 .. Len(memory) : memory[i] \in Store!Rows
    BY <1>1
  <2> QED
    BY <1>1, <2>1 DEF Store!Rows
<1>t. \A t \in tasks : t.at \in Nat
  BY <1>1
<1>o. ASSUME ~behind, ~shuffled'
      PROVE  /\ ~shuffled /\ \A other \in tasks : ~Store!Before(other, task)
             /\ InOrder(Appends, Fills, memory, disk, Cardinality(Appends)) /\ TablesMatch
  <2>1. ~shuffled /\ \A other \in tasks : ~Store!Before(other, task)
    BY <1>2, <1>o, Zenon
  <2> QED
    BY <1>o, <2>1 DEF StoreInv
<1>k. /\ IsFiniteSet(Appends) /\ Cardinality(Appends) \in Nat
      /\ TablesMatch => Cardinality(Appends) + Len(disk) <= Len(memory) /\ Cardinality(Appends) <= Len(memory)
  <2>1. IsFiniteSet(Appends) /\ Cardinality(Appends) \in Nat /\ Len(memory) \in Nat
    BY <1>1, AppendsFinite
  <2> QED
    BY <1>1, <2>1, StoreBounds DEF TablesMatch
<1>3. IsFiniteSet(tasks')
  BY <1>1, <1>2, FS_RemoveElement
<1>4. Len(disk) \in Nat /\ Len(memory) \in Nat /\ MaxRows \in Nat
  BY <1>1, StoreBounds
<1>5. CASE task.op = "append"
  <2> DEFINE row == Store!Row(task.text, task.at)
             all == Append(disk, row)
  <2>1. row \in Store!Rows /\ row.text = task.text /\ row.at = task.at /\ row.output = Store!None
    BY <1>1, <1>5 DEF Store!Rows, Store!Row
  <2> HIDE DEF row
  <2>2. /\ all \in Seq(Store!Rows) /\ Len(all) = Len(disk) + 1
        /\ all[Len(disk) + 1] = row /\ \A i \in 1 .. Len(disk) : all[i] = disk[i]
    BY <1>1, <2>1
  <2>3. \A d : Store!Count(all, d) <= Store!Count(disk, d) + (IF task.text = d THEN 1 ELSE 0)
    BY <1>1, <2>1, CountAppend
  <2>4. disk' = Store!Pruned(all)
    BY <1>2, <1>5 DEF Store!Appended, row
  <2> HIDE DEF all
  <2>5. /\ disk' \in Seq(Store!Rows) /\ Len(disk') = IF Len(all) <= MaxRows THEN Len(all) ELSE MaxRows
        /\ \A d : Store!Count(disk', d) <= Store!Count(all, d)
        /\ \A i \in 1 .. Len(disk') : disk'[i] = all[Len(all) - Len(disk') + i]
    BY <2>2, <2>4, PrunedFacts
  <2>6. Len(disk') <= MaxRows
    BY <1>4, <2>2, <2>5
  <2>7. ASSUME TablesMatch PROVE TablesMatch'
    <3>1. Appends' = Appends \ {task} /\ task \in Appends
      BY <1>2, <1>5 DEF Appends
    <3>2. IsFiniteSet(Appends) /\ Cardinality(Appends) \in Nat
      BY <1>1, AppendsFinite
    <3>3. Cardinality(Appends') = Cardinality(Appends) - 1 /\ Cardinality(Appends') \in Nat
      BY <3>1, <3>2, FS_RemoveElement, FS_CardinalityType
    <3>4. ASSUME NEW d \in Texts PROVE Store!Count(disk', d) + Cardinality(AppendsOf(d)') <= Store!Count(memory', d)
      <4>1. Store!Count(disk, d) + Cardinality(AppendsOf(d)) <= Store!Count(memory, d)
        BY <2>7 DEF TablesMatch
      <4>2. IsFiniteSet(AppendsOf(d)) /\ Cardinality(AppendsOf(d)) \in Nat
        BY <1>1, AppendsFinite
      <4>3. /\ Store!Count(disk, d) \in Nat /\ Store!Count(memory, d) \in Nat /\ Store!Count(disk', d) \in Nat
            /\ Store!Count(all, d) \in Nat
        BY <1>1, <2>2, <2>5, PlacesFinite
      <4>4. Cardinality(AppendsOf(d)') + (IF task.text = d THEN 1 ELSE 0) = Cardinality(AppendsOf(d)) /\ Cardinality(AppendsOf(d)') \in Nat
        <5>1. CASE task.text = d
          <6>1. AppendsOf(d)' = AppendsOf(d) \ {task} /\ task \in AppendsOf(d)
            BY <3>1, <5>1 DEF AppendsOf
          <6>2. Cardinality(AppendsOf(d)') = Cardinality(AppendsOf(d)) - 1 /\ IsFiniteSet(AppendsOf(d)')
            BY <4>2, <6>1, FS_RemoveElement
          <6> QED
            BY <4>2, <5>1, <6>2, FS_CardinalityType
        <5>2. CASE task.text # d
          <6>1. AppendsOf(d)' = AppendsOf(d)
            BY <3>1, <5>2 DEF AppendsOf
          <6> QED
            BY <4>2, <5>2, <6>1
        <5> QED
          BY <5>1, <5>2
      <4>5. Store!Count(disk', d) <= Store!Count(disk, d) + (IF task.text = d THEN 1 ELSE 0)
        BY <2>3, <2>5, <4>3
      <4> QED
        BY <1>2, <4>1, <4>2, <4>3, <4>4, <4>5
    <3>5. Len(memory) - Cardinality(Appends') = (Len(memory) - Cardinality(Appends)) + 1
      BY <1>4, <3>2, <3>3
    <3>6. Cardinality(Appends') <= Len(memory)
      BY <1>4, <2>7, <3>2, <3>3 DEF TablesMatch
    <3>7. Len(disk) = IF Len(memory) - Cardinality(Appends) <= MaxRows THEN Len(memory) - Cardinality(Appends) ELSE MaxRows
      BY <2>7 DEF TablesMatch
    <3>8. Len(disk') = IF Len(memory) - Cardinality(Appends') <= MaxRows THEN Len(memory) - Cardinality(Appends') ELSE MaxRows
      <4> DEFINE n == Len(memory) - Cardinality(Appends)
      <4>1. n \in Int /\ Len(memory) - Cardinality(Appends') = n + 1
        BY <1>4, <3>2, <3>5
      <4>2. Len(disk) = IF n <= MaxRows THEN n ELSE MaxRows
        BY <3>7
      <4>3. Len(disk') = IF Len(disk) + 1 <= MaxRows THEN Len(disk) + 1 ELSE MaxRows
        BY <2>2, <2>5
      <4> HIDE DEF n
      <4> QED
        BY ONLY <1>4, <4>1, <4>2, <4>3
    <3> QED
      BY <1>2, <3>4, <3>6, <3>8 DEF TablesMatch
  <2>8. /\ Len(disk') \in Nat /\ Len(disk') <= Len(disk) + 1
        /\ Len(disk') > 0 => disk'[Len(disk')] = row
        /\ \A i \in 2 .. Len(disk') : disk'[Len(disk') + 1 - i] = disk[Len(disk) + 2 - i]
    <3>1. Len(disk') \in Nat /\ Len(disk') <= Len(disk) + 1 /\ Len(all) = Len(disk) + 1
      BY <1>4, <2>2, <2>5
    <3>2. ASSUME Len(disk') > 0 PROVE disk'[Len(disk')] = row
      <4>1. Len(disk') \in 1 .. Len(disk') /\ Len(all) - Len(disk') + Len(disk') = Len(disk) + 1
        BY <1>4, <3>1, <3>2
      <4>2. disk'[Len(disk')] = all[Len(all) - Len(disk') + Len(disk')]
        BY <2>5, <4>1
      <4> QED
        BY <2>2, <4>1, <4>2
    <3>3. ASSUME NEW i \in 2 .. Len(disk') PROVE disk'[Len(disk') + 1 - i] = disk[Len(disk) + 2 - i]
      <4>1. /\ Len(disk') + 1 - i \in 1 .. Len(disk') /\ Len(disk) + 2 - i \in 1 .. Len(disk)
            /\ Len(all) - Len(disk') + (Len(disk') + 1 - i) = Len(disk) + 2 - i
        BY <1>4, <3>1
      <4>2. disk'[Len(disk') + 1 - i] = all[Len(all) - Len(disk') + (Len(disk') + 1 - i)]
        BY <2>5, <4>1
      <4>3. all[Len(disk) + 2 - i] = disk[Len(disk) + 2 - i]
        BY <2>2, <4>1
      <4> QED
        BY <4>1, <4>2, <4>3
    <3> QED
      BY <3>1, <3>2, <3>3
  <2>9. Past(disk', steps)
    <3> SUFFICES ASSUME NEW i \in 1 .. Len(disk') PROVE disk'[i].at <= steps
      BY DEF Past
    <3>1. Len(all) - Len(disk') + i \in 1 .. Len(disk) + 1
      BY <1>4, <2>2, <2>8
    <3>2. disk'[i] = all[Len(all) - Len(disk') + i]
      BY <2>5
    <3>3. all[Len(disk) + 1].at <= steps /\ \A j \in 1 .. Len(disk) : all[j].at <= steps
      BY <1>1, <2>1, <2>2 DEF Past
    <3> QED
      BY <1>4, <3>1, <3>2, <3>3
  <2>10. ASSUME ~behind, ~shuffled' PROVE InOrder(Appends, Fills, memory, disk, Cardinality(Appends))'
    <3> DEFINE k == Cardinality(Appends)
    <3>1. /\ \A other \in tasks : ~Store!Before(other, task)
          /\ InOrder(Appends, Fills, memory, disk, k) /\ TablesMatch
      BY <1>o, <2>10
    <3>2. Appends' = Appends \ {task} /\ Fills' = Fills /\ task \in Appends /\ Appends \subseteq tasks /\ Fills \subseteq tasks
      BY <1>2, <1>5 DEF Appends, Fills
    <3>3. k \in Nat /\ k <= Len(memory) /\ Cardinality(Appends') = k - 1
      BY <1>k, <3>1, <3>2, FS_RemoveElement
    <3>4. \A t \in Appends : t.at \in Nat /\ ~(t.at < task.at)
      BY <1>t, <3>1, <3>2 DEF Store!Before
    <3>5. \A b \in Fills : b.at # task.at
      BY <1>5, <3>1, <3>2 DEF Store!Before, Fills
    <3> HIDE DEF k
    <3>6. Len(disk') > 0 => disk'[Len(disk')].at = task.at /\ disk'[Len(disk')].text = task.text /\ disk'[Len(disk')].output = Store!None
      BY <2>1, <2>8
    <3>7. InOrder(Appends \ {task}, Fills, memory, disk', k - 1)
      BY <1>1, <1>n, <2>5, <2>8, <3>1, <3>2, <3>3, <3>4, <3>5, <3>6, OrderAppend
    <3> QED
      BY <1>2, <3>2, <3>3, <3>7
  <2> QED
    BY <1>1, <1>2, <1>3, <2>5, <2>6, <2>7, <2>9, <2>10 DEF StoreInv
<1>6. CASE task.op # "append"
  <2>1. /\ disk' \in Seq(Store!Rows) /\ Len(disk') = Len(disk) /\ \A d : Store!Count(disk', d) = Store!Count(disk, d)
        /\ \A i \in 1 .. Len(disk) : disk'[i].at = disk[i].at /\ disk'[i].text = disk[i].text /\ (i # Len(disk) => disk'[i] = disk[i])
        /\ Len(disk) > 0 => disk'[Len(disk)].output = task.text
    <3>1. disk' = Store!Overwritten(task)
      BY <1>2, <1>6
    <3>2. CASE disk = <<>>
      BY <1>1, <3>1, <3>2 DEF Store!Overwritten
    <3>3. CASE disk # <<>>
      <4>1. Len(disk) \in 1 .. Len(disk) /\ task.text \in Texts \cup {Store!None}
        BY <1>1, <3>3
      <4>2. disk' = Filled(disk, Len(disk), task.text)
        BY <3>1, <3>3 DEF Store!Overwritten, Filled
      <4> DEFINE n == Len(disk)
                 o == task.text
      <4>3. n \in 1 .. Len(disk) /\ o \in Texts \cup {Store!None} /\ disk' = Filled(disk, n, o)
        BY <4>1, <4>2
      <4> HIDE DEF n, o
      <4>4. /\ disk' \in Seq(Store!Rows) /\ Len(disk') = Len(disk) /\ \A d : Store!Count(disk', d) = Store!Count(disk, d)
            /\ \A i \in 1 .. Len(disk) : disk'[i].at = disk[i].at /\ disk'[i].text = disk[i].text /\ (i # n => disk'[i] = disk[i])
            /\ disk'[n].output = o
        BY ONLY <1>1, <4>3, OutputFacts
      <4> QED
        BY <4>4 DEF n, o
    <3> QED
      BY <3>2, <3>3
  <2>2. Appends' = Appends /\ \A d : AppendsOf(d)' = AppendsOf(d)
    BY <1>2, <1>6 DEF Appends, AppendsOf
  <2>3. TablesMatch => TablesMatch'
    BY <1>2, <2>1, <2>2 DEF TablesMatch
  <2>4. Past(disk', steps)
    BY <1>1, <2>1 DEF Past
  <2>5. ASSUME ~behind, ~shuffled' PROVE InOrder(Appends, Fills, memory, disk, Cardinality(Appends))'
    <3> DEFINE k == Cardinality(Appends)
    <3>1. /\ \A other \in tasks : ~Store!Before(other, task)
          /\ InOrder(Appends, Fills, memory, disk, k) /\ TablesMatch
      BY <1>o, <2>5
    <3>2. Fills' = Fills \ {task} /\ task \in Fills /\ Appends \subseteq tasks
      BY <1>1, <1>2, <1>6 DEF Appends, Fills
    <3>3. k \in Nat /\ k + Len(disk) <= Len(memory)
      BY <1>k, <3>1
    <3>4. \A t \in Appends : t.at \in Nat /\ ~(t.at < task.at)
      BY <1>t, <3>1, <3>2 DEF Store!Before
    <3> HIDE DEF k
    <3>5. /\ Len(disk) > 0 => disk'[Len(disk)].at = disk[Len(disk)].at /\ disk'[Len(disk)].text = disk[Len(disk)].text /\ disk'[Len(disk)].output = task.text
          /\ \A i \in 1 .. Len(disk) : i # Len(disk) => disk'[i] = disk[i]
      BY <1>4, <2>1
    <3>6. InOrder(Appends, Fills \ {task}, memory, disk', k)
      BY <1>1, <1>n, <2>1, <3>1, <3>2, <3>3, <3>4, <3>5, OrderFill
    <3> QED
      BY <1>2, <2>2, <3>2, <3>6 DEF k
  <2> QED
    BY <1>1, <1>2, <1>3, <2>1, <2>3, <2>4, <2>5 DEF StoreInv
<1> QED
  BY <1>5, <1>6

\* A step of the history keeps the table that of the panel, the tasks under way considered.
LEMMA StoreStep == StoreInv /\ [Store!HistoryNext]_storeVars => StoreInv'
<1> SUFFICES ASSUME StoreInv, Store!HistoryNext PROVE StoreInv'
  BY DEF StoreInv, storeVars, TablesMatch, Appends, AppendsOf, Fills
<1>1. ASSUME NEW t \in TwoTabs, Store!Capture(t) PROVE StoreInv'
  BY <1>1 DEF Store!Capture, StoreInv, TablesMatch, Appends, AppendsOf, Fills
<1>2. ASSUME NEW t \in TwoTabs, NEW c \in Texts, Store!Commit(t, c) PROVE StoreInv'
  BY <1>2, CommitFacts
<1>3. ASSUME NEW task \in tasks, Store!Write(task) PROVE StoreInv'
  BY <1>3, WriteFacts
<1>4. CASE Store!ClearAll
  <2>1. /\ disk' = <<>> /\ memory' = <<>> /\ behind' = (behind \/ tasks # {}) /\ steps' = steps + 1
        /\ running' = running /\ tasks' = tasks
    BY <1>4 DEF Store!ClearAll
  <2>2. /\ disk' \in Seq(Store!Rows) /\ memory' \in Seq(Store!Rows) /\ Len(disk') <= MaxRows
        /\ Len(disk') = 0 /\ Len(memory') = 0
    BY <2>1, NothingStored, StoreBounds
  <2>3. ASSUME ~behind' PROVE TablesMatch'
    <3>1. tasks = {}
      BY <2>1, <2>3
    <3>2. Cardinality(Appends') = 0 /\ \A c : Cardinality(AppendsOf(c)') = 0
      BY <2>1, <3>1, FS_EmptySet DEF Appends, AppendsOf
    <3> QED
      BY <2>1, <3>2, NothingStored, StoreBounds DEF TablesMatch
  <2>4. steps \in Nat /\ \A t \in tasks : t.at \in 1 .. MaxCommands /\ t.at <= steps
    BY DEF StoreInv
  <2>5. steps' \in Nat /\ \A t \in tasks' : t.at \in 1 .. MaxCommands /\ t.at <= steps'
    BY <2>1, <2>4, StoreBounds
  <2>6. Past(memory', steps') /\ Past(disk', steps')
    BY <2>2 DEF Past
  <2>7. ASSUME ~behind' PROVE InOrder(Appends, Fills, memory, disk, Cardinality(Appends))'
    <3>1. tasks = {}
      BY <2>1, <2>7
    <3>2. Appends' = {} /\ Fills' = {} /\ Cardinality(Appends') = 0
      BY <2>1, <3>1, FS_EmptySet DEF Appends, Fills
    <3>3. \A i \in 1 .. Len(disk') : memory'[i] = disk'[Len(disk') + 1 - i]
      BY <2>2
    <3> QED
      BY <2>2, <3>2, <3>3, OrderRests
  <2> QED
    BY <2>1, <2>2, <2>3, <2>5, <2>6, <2>7 DEF StoreInv
<1>5. CASE Store!Restart
  <2>1. /\ memory' = Store!Reverse(disk) /\ tasks' = {} /\ disk' = disk /\ steps' = steps
        /\ running' = [t \in TwoTabs |-> Store!None]
    BY <1>5 DEF Store!Restart
  <2>2. disk \in Seq(Store!Rows) /\ Len(disk) <= MaxRows /\ steps \in Nat /\ Past(disk, steps) /\ Len(disk) \in Nat
    BY DEF StoreInv
  <2>3. /\ memory' \in Seq(Store!Rows) /\ Len(memory') = Len(disk)
        /\ \A c : Store!Count(disk, c) <= Store!Count(memory', c)
        /\ \A i \in 1 .. Len(disk) : memory'[i] = disk[(Len(disk) - i) + 1]
    BY <2>1, <2>2, ReverseFacts
  <2>4. Cardinality(Appends') = 0 /\ \A c : Cardinality(AppendsOf(c)') = 0
    BY <2>1, FS_EmptySet DEF Appends, AppendsOf
  <2>5. \A c : Store!Count(disk, c) \in Nat
    BY <2>2, PlacesFinite
  <2>6. TablesMatch'
    BY <2>1, <2>2, <2>3, <2>4, <2>5 DEF TablesMatch
  <2>7. IsFiniteSet(tasks') /\ running' \in [TwoTabs -> Texts \cup {Store!None}]
    BY <2>1, FS_EmptySet
  <2>8. \A i \in 1 .. Len(disk) : (Len(disk) - i) + 1 \in 1 .. Len(disk) /\ (Len(disk) - i) + 1 = Len(disk) + 1 - i
    BY <2>2
  <2>9. Past(memory', steps') /\ Past(disk', steps')
    BY <2>1, <2>2, <2>3, <2>8 DEF Past
  <2>10. Appends' = {} /\ Fills' = {}
    BY <2>1 DEF Appends, Fills
  <2>11. \A i \in 1 .. Len(disk) : memory'[i] = disk[Len(disk) + 1 - i]
    BY <2>3, <2>8
  <2>12. InOrder(Appends, Fills, memory, disk, Cardinality(Appends))'
    BY <2>1, <2>2, <2>4, <2>10, <2>11, OrderRests
  <2> QED
    BY <2>1, <2>2, <2>3, <2>6, <2>7, <2>9, <2>12 DEF StoreInv
<1> QED
  BY <1>1, <1>2, <1>3, <1>4, <1>5 DEF Store!HistoryNext

\* With no task under way the table holds the newest of the panel.
LEMMA StoreMeans == StoreInv => DiskFollowsPanel
<1> SUFFICES ASSUME StoreInv, tasks = {}, ~behind
             PROVE  /\ Len(disk) = Store!Min({Len(memory), MaxRows})
                    /\ \A c \in Texts : Store!Count(disk, c) <= Store!Count(memory, c)
                    /\ ~shuffled => \A i \in DOMAIN disk : disk[Len(disk) + 1 - i] = memory[i]
  BY DEF DiskFollowsPanel, Store!DiskFollowsPanel
<1>1. TablesMatch /\ memory \in Seq(Store!Rows) /\ disk \in Seq(Store!Rows)
  BY DEF StoreInv
<1>2. Cardinality(Appends) = 0 /\ \A c : Cardinality(AppendsOf(c)) = 0
  BY NoTasks
<1>3. Len(memory) \in Nat /\ MaxRows \in Nat
  BY <1>1, StoreBounds
<1>4. Len(disk) = IF Len(memory) <= MaxRows THEN Len(memory) ELSE MaxRows
  BY <1>1, <1>2, <1>3 DEF TablesMatch
<1>5. \E m \in {Len(memory), MaxRows} : \A x \in {Len(memory), MaxRows} : m <= x
  BY <1>3
<1>6. /\ Store!Min({Len(memory), MaxRows}) \in {Len(memory), MaxRows}
      /\ \A x \in {Len(memory), MaxRows} : Store!Min({Len(memory), MaxRows}) <= x
  BY <1>5 DEF Store!Min
<1>7. \A c \in Texts : Store!Count(disk, c) \in Nat
  BY <1>1, PlacesFinite
<1>8. \A c \in Texts : Store!Count(disk, c) <= Store!Count(memory, c)
  BY <1>1, <1>2, <1>7 DEF TablesMatch
<1>9. ASSUME ~shuffled, NEW i \in DOMAIN disk PROVE disk[Len(disk) + 1 - i] = memory[i]
  <2> DEFINE row == disk[Len(disk) + 1 - i]
  <2>1. InOrder(Appends, Fills, memory, disk, 0)
    BY <1>2, <1>9 DEF StoreInv
  <2>2. i \in 1 .. Len(disk) /\ 0 + i = i /\ Len(disk) + 1 - i \in 1 .. Len(disk) /\ i \in 1 .. Len(memory)
    BY <1>1, <1>3, <1>4
  <2>3. memory[i].at = row.at /\ memory[i].text = row.text /\ memory[i].output = row.output
    BY <2>1, <2>2 DEF InOrder
  <2>4. memory[i] \in Store!Rows /\ row \in Store!Rows
    BY <1>1, <2>2
  <2> HIDE DEF row
  <2>5. memory[i] = row
    BY <2>3, <2>4 DEF Store!Rows
  <2> QED
    BY <2>5 DEF row
<1> QED
  BY <1>3, <1>4, <1>6, <1>8, <1>9

------------------------------------------------------------------------------
(* The input line.                                                          *)

\* A query's counts: a mark that was taken back leaves no query but the late ones.
QueryOK(q) ==
  /\ q \in [mark : {"no", "asked", "old"}, flight : Nat, late : Nat]
  /\ q.flight <= 1 + q.late /\ (q.mark = "no" => q.flight <= q.late)

\* The queries of all tags.
QueriesOK(q) == DOMAIN q = Suggest!Tags /\ \A t \in Suggest!Tags : QueryOK(q[t])

\* The app's copy of the line is what the shell was sent, which after Enter is nothing.
CopyOK == ~blind => IF enter THEN typed = <<>> ELSE line = typed

LineInv == CopyOK /\ QueriesOK(query)

\* The line starts empty.
LEMMA LineFirst == Suggest!SuggestInit => LineInv
<1> SUFFICES ASSUME Suggest!SuggestInit PROVE LineInv
  OBVIOUS
<1>1. QueryOK(Suggest!NoQuery)
  BY DEF Suggest!NoQuery, QueryOK
<1> QED
  BY <1>1 DEF Suggest!SuggestInit, LineInv, CopyOK, QueriesOK

\* A query that is asked, again or for the first time.
LEMMA AskFacts ==
  ASSUME NEW q, QueriesOK(q), NEW t, t \in Suggest!Tags => q[t].mark # "asked", Suggest!Ask(t, q)
  PROVE  QueriesOK(query')
<1>1. CASE t \notin Suggest!Tags
  <2>1. PICK n \in {0, 1} :
          query' = [q EXCEPT ![t] = [mark   |-> "asked",
                                     flight |-> q[t].flight + (IF connected THEN n ELSE 0),
                                     late   |-> IF q[t].flight = 0 THEN 0
                                                ELSE q[t].late + (IF q[t].mark = "old" THEN n ELSE 0)]]
    BY DEF Suggest!Ask
  <2>2. DOMAIN query' = DOMAIN q /\ \A u \in Suggest!Tags : query'[u] = q[u]
    BY <1>1, <2>1 DEF QueriesOK
  <2> QED
    BY <2>2 DEF QueriesOK
<1>2. CASE t \in Suggest!Tags
  <2>1. PICK n \in {0, 1} :
          query' = [q EXCEPT ![t] = [mark   |-> "asked",
                                     flight |-> q[t].flight + (IF connected THEN n ELSE 0),
                                     late   |-> IF q[t].flight = 0 THEN 0
                                                ELSE q[t].late + (IF q[t].mark = "old" THEN n ELSE 0)]]
    BY DEF Suggest!Ask
  <2> DEFINE f == q[t].flight + (IF connected THEN n ELSE 0)
             l == IF q[t].flight = 0 THEN 0 ELSE q[t].late + (IF q[t].mark = "old" THEN n ELSE 0)
             new == [mark |-> "asked", flight |-> f, late |-> l]
  <2>2. QueryOK(q[t]) /\ q[t].mark # "asked"
    BY <1>2 DEF QueriesOK
  <2>3. /\ q[t].flight \in Nat /\ q[t].late \in Nat /\ q[t].flight <= 1 + q[t].late
        /\ q[t].mark \in {"no", "old"} /\ (q[t].mark = "no" => q[t].flight <= q[t].late)
    BY <2>2 DEF QueryOK
  <2>4. f \in Nat /\ l \in Nat /\ f <= 1 + l
    BY <2>3
  <2> HIDE DEF f, l
  <2>5. QueryOK(new)
    BY <2>4 DEF QueryOK
  <2>6. query' = [q EXCEPT ![t] = new]
    BY <2>1 DEF f, l
  <2> HIDE DEF new
  <2> QED
    BY <1>2, <2>5, <2>6 DEF QueriesOK
<1> QED
  BY <1>1, <1>2

\* A new suggestion asks for no more than is due.
LEMMA RecomputeFacts ==
  ASSUME NEW q, QueriesOK(q), NEW tail, Suggest!Recompute(tail, q)
  PROVE  QueriesOK(query')
<1>1. query' = q \/ \E t : q[t].mark # "asked" /\ Suggest!Ask(t, q)
  BY DEF Suggest!Recompute
<1>2. ASSUME NEW t, q[t].mark # "asked", Suggest!Ask(t, q) PROVE QueriesOK(query')
  BY <1>2, AskFacts
<1> QED
  BY <1>1, <1>2

\* Keys that are sent are known to have arrived, or the copy is given up.
LEMMA LineSends ==
  ASSUME NEW keys, NEW exact \in BOOLEAN, Suggest!Send(keys, exact)
  PROVE  /\ enter' = enter
         /\ ~blind' => ~blind /\ ~enter /\ exact /\ typed' = keys
BY DEF Suggest!Send

\* A step of the line keeps the copy true and the queries few.
LEMMA LineStep == LineInv /\ [Suggest!SuggestNext]_lineVars => LineInv'
<1> SUFFICES ASSUME LineInv, Suggest!SuggestNext PROVE LineInv'
  BY DEF LineInv, lineVars, CopyOK, QueriesOK, QueryOK
<1>0. CopyOK /\ QueriesOK(query)
  BY DEF LineInv
<1>1. ASSUME NEW k, Suggest!Type(k) PROVE LineInv'
  <2>1. line' = Append(line, k) /\ Suggest!Send(Append(typed, k), TRUE) /\ Suggest!Recompute(ghost, query)
    BY <1>1 DEF Suggest!Type
  <2>2. enter' = enter /\ (~blind' => ~blind /\ ~enter /\ typed' = Append(typed, k))
    BY <2>1, LineSends
  <2>3. CopyOK'
    BY <1>0, <2>1, <2>2 DEF CopyOK
  <2> QED
    BY <1>0, <2>1, <2>3, RecomputeFacts DEF LineInv
<1>2. CASE Suggest!Erase
  <2>1. line' = Suggest!Front(line) /\ Suggest!Send(Suggest!Front(typed), TRUE) /\ Suggest!Recompute(ghost, query)
    BY <1>2 DEF Suggest!Erase
  <2>2. enter' = enter /\ (~blind' => ~blind /\ ~enter /\ typed' = Suggest!Front(typed))
    BY <2>1, LineSends
  <2>3. CopyOK'
    BY <1>0, <2>1, <2>2 DEF CopyOK
  <2> QED
    BY <1>0, <2>1, <2>3, RecomputeFacts DEF LineInv
<1>13. ASSUME NEW ctrl, Suggest!Kill(ctrl) PROVE LineInv'
  <2> DEFINE exact == (ctrl # "L")
  <2>1. line' = <<>> /\ Suggest!Send(<<>>, exact) /\ Suggest!Recompute(ghost, query)
    BY <1>13 DEF Suggest!Kill
  <2>2. exact \in BOOLEAN
    OBVIOUS
  <2> HIDE DEF exact
  <2>3. enter' = enter /\ (~blind' => ~blind /\ ~enter /\ typed' = <<>>)
    BY <2>1, <2>2, LineSends
  <2>4. CopyOK'
    BY <2>1, <2>3 DEF CopyOK
  <2> QED
    BY <1>0, <2>1, <2>4, RecomputeFacts DEF LineInv
<1>14. ASSUME NEW cmd, Suggest!AcceptSearch(cmd) PROVE LineInv'
  <2>1. line' = line \o cmd /\ Suggest!Send(typed \o cmd, TRUE) /\ query' = query
    BY <1>14 DEF Suggest!AcceptSearch
  <2>2. enter' = enter /\ (~blind' => ~blind /\ ~enter /\ typed' = typed \o cmd)
    BY <2>1, LineSends
  <2>3. CopyOK'
    BY <1>0, <2>1, <2>2 DEF CopyOK
  <2> QED
    BY <1>0, <2>1, <2>3 DEF LineInv
<1>15. CASE Suggest!WritePast
  BY <1>0, <1>15 DEF Suggest!WritePast, LineInv, CopyOK
<1>3. CASE Suggest!Escape
  <2>1. Suggest!Send(<<>>, FALSE) /\ Suggest!Recompute(ghost, query)
    BY <1>3 DEF Suggest!Escape
  <2>2. blind'
    BY <2>1, LineSends
  <2>3. CopyOK'
    BY <2>2 DEF CopyOK
  <2> QED
    BY <1>0, <2>1, <2>3, RecomputeFacts DEF LineInv
<1>4. CASE Suggest!Accept
  <2>1. line' = line \o ghost /\ Suggest!Send(typed \o ghost, TRUE) /\ Suggest!Recompute(<<>>, query)
    BY <1>4 DEF Suggest!Accept
  <2>2. enter' = enter /\ (~blind' => ~blind /\ ~enter /\ typed' = typed \o ghost)
    BY <2>1, LineSends
  <2>3. CopyOK'
    BY <1>0, <2>1, <2>2 DEF CopyOK
  <2> QED
    BY <1>0, <2>1, <2>3, RecomputeFacts DEF LineInv
<1>5. ASSUME NEW k \in {Suggest!Space, "tab"}, Suggest!Expand(k) PROVE LineInv'
  <2> DEFINE more == Expanded \o (IF k = Suggest!Space THEN <<Suggest!Space>> ELSE <<>>)
             sent == SubSeq(typed, 1, Len(typed) - Len(Abbreviated)) \o more
             exact == (k = Suggest!Space)
  <2>1. line = Abbreviated /\ line' = more
    BY <1>5 DEF Suggest!Expand
  <2>2. Suggest!Send(sent, exact) /\ Suggest!Recompute(<<>>, query)
    BY <1>5, <2>1 DEF Suggest!Expand
  <2>3. exact \in BOOLEAN /\ more \in Seq({"c", " "})
    <3>1. Expanded \in Seq({"c", " "})
      BY DEF Expanded
    <3>2. <<Suggest!Space>> \in Seq({"c", " "}) /\ <<>> \in Seq({"c", " "})
      <4> DEFINE S == {"c", " "}
      <4>1. Suggest!Space \in S
        BY DEF Suggest!Space
      <4> HIDE DEF S
      <4>2. <<>> \in Seq(S)
        BY EmptyFacts
      <4>3. <<Suggest!Space>> \in Seq(S)
        BY <4>1
      <4> QED
        BY <4>2, <4>3 DEF S
    <3> DEFINE tail == IF k = Suggest!Space THEN <<Suggest!Space>> ELSE <<>>
    <3>3. tail \in Seq({"c", " "})
      BY <3>2
    <3> HIDE DEF tail
    <3>4. Expanded \o tail \in Seq({"c", " "})
      BY <3>1, <3>3, ConcatProperties
    <3> QED
      BY <3>4 DEF tail
  <2> HIDE DEF more
  <2>4. typed = Abbreviated => sent = more
    <3>1. Len(Abbreviated) = 2
      BY DEF Abbreviated
    <3>2. ASSUME typed = Abbreviated PROVE SubSeq(typed, 1, Len(typed) - Len(Abbreviated)) = <<>>
      <4> DEFINE n == Len(Abbreviated)
      <4>1. n = 2
        BY <3>1
      <4> HIDE DEF n
      <4>2. n - n = 0
        BY <4>1
      <4>4. SubSeq(Abbreviated, 1, 0) = <<>>
        BY SubSeqEmpty
      <4> QED
        BY <3>2, <4>2, <4>4 DEF n
    <3>3. <<>> \o more = more
      BY <2>3, ConcatEmptySeq
    <3> QED
      BY <3>2, <3>3
  <2> HIDE DEF sent, exact
  <2>5. enter' = enter /\ (~blind' => ~blind /\ ~enter /\ typed' = sent)
    BY <2>2, <2>3, LineSends
  <2>6. CopyOK'
    BY <1>0, <2>1, <2>4, <2>5 DEF CopyOK
  <2> QED
    BY <1>0, <2>2, <2>6, RecomputeFacts DEF LineInv
<1>6. CASE Suggest!PressEnter
  <2>1. enter' = TRUE /\ typed' = <<>> /\ Suggest!Recompute(<<>>, query)
    BY <1>6 DEF Suggest!PressEnter
  <2>2. CopyOK'
    BY <2>1 DEF CopyOK
  <2> QED
    BY <1>0, <2>1, <2>2, RecomputeFacts DEF LineInv
<1>7. ASSUME NEW l, Suggest!Commit(l) PROVE LineInv'
  BY <1>0, <1>7 DEF Suggest!Commit, LineInv, CopyOK
<1>8. ASSUME NEW t \in Suggest!Tags, Suggest!Answer(t) PROVE LineInv'
  <2> DEFINE new == [mark |-> "no", flight |-> query[t].flight - 1, late |-> query[t].late]
             q == [query EXCEPT ![t] = new]
  <2>1. query[t].flight > 0 /\ Suggest!Recompute(ghost, q) /\ UNCHANGED <<line, typed, blind, enter>>
    BY <1>8 DEF Suggest!Answer
  <2>2. QueryOK(query[t])
    BY <1>0 DEF QueriesOK
  <2>3. QueryOK(new)
    BY <2>1, <2>2 DEF QueryOK
  <2> HIDE DEF new
  <2>4. QueriesOK(q)
    BY <1>0, <2>3 DEF QueriesOK
  <2> HIDE DEF q
  <2>5. CopyOK'
    BY <1>0, <2>1 DEF CopyOK
  <2> QED
    BY <2>1, <2>4, <2>5, RecomputeFacts DEF LineInv
<1>9. ASSUME NEW t \in Suggest!Tags, Suggest!TimeOut(t) PROVE LineInv'
  <2> DEFINE new == [query[t] EXCEPT !.mark = "old"]
  <2>1. query' = [query EXCEPT ![t] = new] /\ UNCHANGED <<line, typed, blind, enter>>
    BY <1>9 DEF Suggest!TimeOut
  <2>2. QueryOK(new)
    BY <1>0 DEF QueriesOK, QueryOK
  <2> HIDE DEF new
  <2>3. QueriesOK(query')
    BY <1>0, <2>1, <2>2 DEF QueriesOK
  <2> QED
    BY <1>0, <2>1, <2>3 DEF LineInv, CopyOK
<1>10. ASSUME NEW s, Suggest!CacheAges(s) PROVE LineInv'
  BY <1>0, <1>10 DEF Suggest!CacheAges, LineInv, CopyOK
<1>11. CASE Suggest!Closed
  <2>1. QueryOK(Suggest!NoQuery)
    BY DEF Suggest!NoQuery, QueryOK
  <2> QED
    BY <1>11, <2>1 DEF Suggest!Closed, LineInv, CopyOK, QueriesOK
<1>12. CASE Suggest!Connected
  BY <1>0, <1>12 DEF Suggest!Connected, LineInv, CopyOK
<1> QED
  BY <1>1, <1>2, <1>3, <1>4, <1>5, <1>6, <1>7, <1>8, <1>9, <1>10, <1>11, <1>12, <1>13, <1>14, <1>15 DEF Suggest!SuggestNext

\* The copy is the line of the shell, and the queries are few.
LEMMA LineMeans == LineInv => Suggest!CopyIsTrue /\ Suggest!QueriesBounded
BY DEF LineInv, CopyOK, QueriesOK, QueryOK, Suggest!CopyIsTrue, Suggest!QueriesBounded

------------------------------------------------------------------------------
(* The mouse.                                                               *)

\* The grid has a cell, and a line of the wheel a part.
LEMMA MouseBounds ==
  Cols \in Nat \ {0} /\ SelectRows \in Nat \ {0} /\ Notch \in Nat \ {0}
<1>1. {Cols, SelectRows, Notch} \subseteq Nat
  BY DeskAssumption
<1>2. 0 \notin {Cols, SelectRows, Notch}
  BY DeskAssumption
<1> QED
  BY <1>1, <1>2

\* The canvas has its fields.
CanvasShape(m) ==
  /\ m = [dragging |-> m.dragging, start |-> m.start, end |-> m.end, last |-> m.last,
          streak |-> m.streak, held |-> m.held, at |-> m.at, accum |-> m.accum]
  /\ m.dragging \in BOOLEAN

\* Once a drag is over, the ends it left are what it committed.
Committed ==
  ~mouse.dragging /\ ~covered /\ mouse.start # <<>> /\ mouse.end # <<>> /\ mouse.start # mouse.end
    => selection = <<mouse.start, mouse.end>>

\* What the remote program was told, and what the canvas will tell it, is down.
PressInv == CanvasShape(mouse) /\ Committed /\ Press!ToldIsDown

\* A step that leaves the drag and its ends, and the selection.
EndsRest ==
  /\ CanvasShape(mouse') /\ mouse'.dragging = mouse.dragging /\ mouse'.start = mouse.start /\ mouse'.end = mouse.end
  /\ selection' = selection /\ covered' = covered

\* Such a step keeps the commitment.
LEMMA RestFacts == ASSUME Committed, EndsRest PROVE CanvasShape(mouse') /\ Committed'
BY DEF Committed, EndsRest

\* The mouse starts with no button told.
LEMMA PressFirst == Press!PointerInit => PressInv
BY DEF Press!PointerInit, PressInv, CanvasShape, Committed, Press!ToldIsDown, Press!None, Press!NoButton

\* Once a drag is over what is drawn is what was committed.
LEMMA PressMeans == PressInv => Press!ShownIsCommitted /\ Press!ToldIsDown
BY DEF PressInv, Committed, Press!ShownIsCommitted, Press!Shown, Press!None

\* A step of the mouse keeps the remote program told of its buttons.
LEMMA PressStep == PressInv /\ [Press!PointerNext]_mouseVars => PressInv'
<1> SUFFICES ASSUME PressInv, Press!PointerNext PROVE PressInv'
  BY DEF PressInv, mouseVars, CanvasShape, Committed, Press!ToldIsDown
<1>0. CanvasShape(mouse) /\ Committed /\ Press!ToldIsDown
  BY DEF PressInv
<1> DEFINE Untold == UNCHANGED <<told, down, astray>> /\ mouse'.held = mouse.held
<1>a. ASSUME EndsRest, Untold PROVE PressInv'
  BY <1>0, <1>a, RestFacts DEF PressInv, Press!ToldIsDown
<1>1. ASSUME NEW p, Press!OpenMenu(p) PROVE PressInv'
  BY <1>0, <1>1, <1>a DEF Press!OpenMenu, EndsRest
<1>2. ASSUME NEW p, Press!MoveReported(p) PROVE PressInv'
  <2>1. EndsRest /\ mouse'.held = mouse.held
    BY <1>0, <1>2 DEF Press!MoveReported, EndsRest, CanvasShape
  <2>2. Press!ToldIsDown'
    BY <1>0, <1>2, <2>1 DEF Press!MoveReported, Press!ToldIsDown
  <2> QED
    BY <1>0, <2>1, <2>2, RestFacts DEF PressInv
<1>3. ASSUME NEW p, NEW b \in Press!Buttons, Press!PressReported(b, p) PROVE PressInv'
  <2>1. EndsRest /\ mouse'.held \in {b, mouse.held}
    BY <1>0, <1>3 DEF Press!PressReported, EndsRest, CanvasShape
  <2>2. Press!ToldIsDown'
    BY <1>0, <1>3, <2>1 DEF Press!PressReported, Press!ToldIsDown
  <2> QED
    BY <1>0, <2>1, <2>2, RestFacts DEF PressInv
<1>4. ASSUME NEW p, NEW b \in Press!Buttons, Press!ReleaseReported(b, p) PROVE PressInv'
  <2>1. EndsRest /\ mouse'.held \in {"none", mouse.held}
    BY <1>0, <1>4 DEF Press!ReleaseReported, EndsRest, CanvasShape, Press!NoButton
  <2>2. Press!ToldIsDown'
    <3>1. /\ told' \in {told, "none"} /\ down' = down \ {b} /\ Press!NoButton = "none"
          /\ astray' = (astray \/ b \in {told', mouse'.held})
      BY <1>4 DEF Press!ReleaseReported, Press!NoButton
    <3>2. ~astray' => ~astray /\ told' # b /\ mouse'.held # b
      BY <3>1
    <3> QED
      BY <1>0, <2>1, <3>1, <3>2 DEF Press!ToldIsDown
  <2> QED
    BY <1>0, <2>1, <2>2, RestFacts DEF PressInv
<1>5. ASSUME NEW c, NEW quick \in BOOLEAN, Press!PressSelects(c, quick) PROVE PressInv'
  <2> DEFINE n == IF quick THEN mouse.streak + 1 ELSE 1
             next == Press!Clicked(c, n)
  <2>1. /\ mouse' = next /\ selection' = (IF next.dragging THEN Press!None ELSE <<next.start, next.end>>)
        /\ down' = down \cup {"left"} /\ UNCHANGED <<told, astray>>
    BY <1>5 DEF Press!PressSelects
  <2> HIDE DEF n
  <2>3. CanvasShape(next) /\ next.held = mouse.held
    BY <1>0 DEF Press!Clicked, CanvasShape
  <2> HIDE DEF next
  <2>4. Committed'
    BY <2>1, <2>3 DEF Committed, CanvasShape
  <2>5. Press!ToldIsDown'
    BY <1>0, <2>1, <2>3 DEF Press!ToldIsDown
  <2> QED
    BY <2>1, <2>3, <2>4, <2>5 DEF PressInv
<1>6. ASSUME NEW c, Press!PressOpensUrl(c) PROVE PressInv'
  <2>1. EndsRest /\ mouse'.held = mouse.held
    BY <1>0, <1>6 DEF Press!PressOpensUrl, EndsRest
  <2>2. Press!ToldIsDown'
    BY <1>0, <1>6 DEF Press!PressOpensUrl, Press!ToldIsDown
  <2> QED
    BY <1>0, <2>1, <2>2, RestFacts DEF PressInv
<1>7. ASSUME NEW b, Press!PressIgnored(b) PROVE PressInv'
  <2>1. EndsRest /\ mouse'.held = mouse.held
    BY <1>0, <1>7 DEF Press!PressIgnored, EndsRest
  <2>2. Press!ToldIsDown'
    BY <1>0, <1>7 DEF Press!PressIgnored, Press!ToldIsDown
  <2> QED
    BY <1>0, <2>1, <2>2, RestFacts DEF PressInv
<1>8. ASSUME NEW c, Press!Drag(c) PROVE PressInv'
  <2>1. mouse' = [mouse EXCEPT !.end = c] /\ mouse.dragging /\ UNCHANGED <<told, down, astray>>
    BY <1>8 DEF Press!Drag
  <2>2. CanvasShape(mouse') /\ mouse'.dragging /\ mouse'.held = mouse.held
    BY <1>0, <2>1 DEF CanvasShape
  <2> QED
    BY <1>0, <2>1, <2>2 DEF PressInv, Committed, Press!ToldIsDown
<1>9. ASSUME NEW b \in Press!Buttons, Press!Release(b) PROVE PressInv'
  <2> DEFINE ends == b = "left" /\ mouse.dragging
  <2>1. /\ mouse' = [mouse EXCEPT !.dragging = mouse.dragging /\ ~ends]
        /\ selection' = IF ~ends THEN selection
                        ELSE IF mouse.start = mouse.end THEN Press!None ELSE <<mouse.start, mouse.end>>
        /\ down' = down \ {b} /\ told' = told /\ covered' = covered /\ astray' = (astray \/ b \in {told, mouse.held})
    BY <1>9 DEF Press!Release
  <2>2. /\ CanvasShape(mouse') /\ mouse'.dragging = (mouse.dragging /\ ~ends) /\ mouse'.start = mouse.start
        /\ mouse'.end = mouse.end /\ mouse'.held = mouse.held
    BY <1>0, <2>1 DEF CanvasShape
  <2>3. Committed'
    <3>1. CASE ends
      BY <2>1, <2>2, <3>1 DEF Committed
    <3>2. CASE ~ends
      BY <1>0, <2>1, <2>2, <3>2 DEF Committed
    <3> QED
      BY <3>1, <3>2
  <2>4. Press!ToldIsDown'
    <3>1. ~astray' => ~astray /\ told # b /\ mouse.held # b
      BY <2>1
    <3> QED
      BY <1>0, <2>1, <2>2, <3>1 DEF Press!ToldIsDown
  <2> QED
    BY <2>2, <2>3, <2>4 DEF PressInv
<1>10. ASSUME NEW d, Press!WheelArrows(d) PROVE PressInv'
  <2>1. EndsRest /\ Untold
    BY <1>0, <1>10 DEF Press!WheelArrows, EndsRest, CanvasShape
  <2> QED
    BY <1>a, <2>1
<1>11. CASE Press!SelectAll
  BY <1>0, <1>11 DEF Press!SelectAll, PressInv, Committed, Press!ToldIsDown
<1>12. CASE Press!CloseMenu \/ Press!Shift \/ Press!Resize \/ \E m \in {Legacy, Keys} : Press!SetMode(m)
  BY <1>0, <1>12, <1>a DEF Press!CloseMenu, Press!Shift, Press!Resize, Press!SetMode, EndsRest
<1> QED
  BY <1>1, <1>2, <1>3, <1>4, <1>5, <1>6, <1>7, <1>8, <1>9, <1>10, <1>11, <1>12 DEF Press!PointerNext, Press!Buttons

\* The cells of the grid, and the column beyond it.
LEMMA CellFacts ==
  /\ \A c \in Select!Cells : c = <<c[1], c[2]>> /\ c[1] \in 0 .. Cols /\ c[2] \in 0 .. SelectRows - 1
  /\ \A k \in 0 .. Cols, r \in 0 .. SelectRows - 1 : <<k, r>> \in Select!Cells
  /\ <<>> \notin Select!Cells
BY DEF Select!Cells

\* Copy takes the cells of a selection that are tinted.
LEMMA CopiedIsTinted ==
  ASSUME NEW sel \in Select!Cells \X Select!Cells, grown \in 1 .. SelectRows
  PROVE  Select!Copied(sel) = Select!Tinted(sel)
<1> DEFINE o == Select!Ordered(sel[1], sel[2])
           p == o[1][1]
           a == o[1][2]
           q == o[2][1]
           b == o[2][2]
           from(r) == IF r = a THEN p ELSE 0
           to(r) == IF r = b /\ q < Cols THEN q ELSE Cols - 1
           inside(c) == c[2] \in a .. b /\ (c[2] = a => c[1] >= p) /\ (c[2] = b => c[1] <= q)
<1>1. o[1] \in Select!Cells /\ o[2] \in Select!Cells
  BY DEF Select!Ordered
<1>2. p \in 0 .. Cols /\ q \in 0 .. Cols /\ a \in 0 .. SelectRows - 1 /\ b \in 0 .. SelectRows - 1
  BY <1>1, CellFacts
<1>3. Cols \in Nat /\ Cols > 0 /\ SelectRows \in Nat /\ grown \in Nat /\ grown <= SelectRows
  BY MouseBounds
<1>4. \A c : c \in Select!Copied(sel) <=> /\ \E r \in a .. b : \E k \in from(r) .. to(r) : c = <<k, r>>
                                          /\ c \in Select!Cells /\ c[2] < grown
  <2> DEFINE of(r) == {<<k, r>> : k \in from(r) .. to(r)}
             seen == {c \in Select!Cells : c[2] < grown}
  <2>1. Select!Copied(sel) = (UNION {of(r) : r \in a .. b}) \cap seen
    BY DEF Select!Copied
  <2> HIDE DEF o, p, a, q, b, from, to
  <2>2. \A r, c : c \in of(r) <=> \E k \in from(r) .. to(r) : c = <<k, r>>
    OBVIOUS
  <2>3. \A c : c \in seen <=> c \in Select!Cells /\ c[2] < grown
    OBVIOUS
  <2> HIDE DEF of, seen
  <2>4. \A c : c \in (UNION {of(r) : r \in a .. b}) <=> \E r \in a .. b : c \in of(r)
    OBVIOUS
  <2>5. ASSUME NEW c PROVE c \in Select!Copied(sel) <=> c \in (UNION {of(r) : r \in a .. b}) /\ c \in seen
    BY <2>1, <2>3
  <2> QED
    BY <2>2, <2>3, <2>4, <2>5
<1>5. Select!Tinted(sel) = {c \in (0 .. Cols - 1) \X (0 .. grown - 1) : inside(c)}
  BY DEF Select!Tinted
<1> HIDE DEF o, p, a, q, b
<1>6. ASSUME NEW c \in Select!Copied(sel) PROVE c \in Select!Tinted(sel)
  <2>1. PICK r \in a .. b : \E k \in from(r) .. to(r) : c = <<k, r>>
    BY <1>4
  <2>2. PICK k \in from(r) .. to(r) : c = <<k, r>>
    BY <2>1
  <2>3. c[1] = k /\ c[2] = r /\ c \in Select!Cells /\ r < grown
    <3>1. c[1] = k /\ c[2] = r
      BY <2>2
    <3> QED
      BY <1>4, <3>1
  <2>4. k \in Int /\ k >= from(r) /\ k <= to(r) /\ r \in Nat /\ r \in a .. b
    BY <1>2, <1>3
  <2>5. k \in 0 .. Cols - 1 /\ r \in 0 .. grown - 1
    BY <1>2, <1>3, <2>3, <2>4
  <2>6. inside(c)
    BY <1>2, <1>3, <2>3, <2>4
  <2> QED
    BY <1>5, <2>2, <2>5, <2>6
<1>7. ASSUME NEW c \in Select!Tinted(sel) PROVE c \in Select!Copied(sel)
  <2>1. c \in (0 .. Cols - 1) \X (0 .. grown - 1) /\ inside(c)
    BY <1>5
  <2> DEFINE k == c[1]
             r == c[2]
  <2>2. c = <<k, r>> /\ k \in 0 .. Cols - 1 /\ r \in 0 .. grown - 1
    BY <2>1
  <2>3. r \in a .. b /\ (r = a => k >= p) /\ (r = b => k <= q)
    BY <2>1
  <2> HIDE DEF k, r
  <2>4. k \in from(r) .. to(r)
    BY <1>2, <1>3, <2>2, <2>3
  <2>5. k \in 0 .. Cols /\ r \in 0 .. SelectRows - 1 /\ r < grown
    BY <1>3, <2>2
  <2>6. c \in Select!Cells /\ c[2] < grown
    BY <2>2, <2>5, CellFacts DEF r
  <2> QED
    BY <1>4, <2>2, <2>3, <2>4, <2>6
<1> QED
  BY <1>6, <1>7

\* The ends of a word are columns of the grid.
LEMMA WordFacts ==
  ASSUME NEW c, Select!WordAt(c) # {}
  PROVE  /\ Select!LowEnd(Select!WordAt(c)) \in 0 .. Cols
         /\ Select!HighEnd(Select!WordAt(c)) \in 0 .. Cols
<1> DEFINE w == Select!WordAt(c)
<1>1. w \subseteq 0 .. Cols - 1
  BY DEF Select!WordAt, Select!Run
<1>2. Cols \in Nat
  BY MouseBounds
<1> HIDE DEF w
<1>3. w \in SUBSET Nat /\ w # {}
  BY <1>1, <1>2 DEF w
<1>4. \E m \in w : \A k \in w : m <= k
  BY <1>3, LeastOf
<1>5. Select!LowEnd(w) \in w
  BY <1>4 DEF Select!LowEnd
<1> DEFINE far == {n \in 0 .. Cols : Cols - n \in w}
<1>6. far \in SUBSET Nat /\ far # {}
  <2>1. PICK k \in w : TRUE
    BY <1>3
  <2>2. k \in 0 .. Cols - 1 /\ Cols - k \in 0 .. Cols /\ Cols - (Cols - k) = k
    BY <1>1, <1>2
  <2>3. Cols - k \in far
    BY <2>1, <2>2
  <2> QED
    BY <1>2, <2>3
<1>7. \E m \in far : \A n \in far : m <= n
  BY <1>6, LeastOf
<1>8. PICK m \in far : \A n \in far : m <= n
  BY <1>7
<1>9. Cols - m \in w
  BY <1>8
<1>10. ASSUME NEW k \in w PROVE k <= Cols - m
  <2>1. k \in 0 .. Cols - 1 /\ Cols - k \in 0 .. Cols /\ Cols - (Cols - k) = k
    BY <1>1, <1>2
  <2>2. Cols - k \in far
    BY <2>1
  <2>3. m <= Cols - k /\ m \in Nat
    BY <1>2, <1>8, <2>2
  <2> QED
    BY <1>2, <2>1, <2>3
<1>11. Select!HighEnd(w) \in w
  BY <1>9, <1>10 DEF Select!HighEnd
<1>12. \A k \in w : k \in 0 .. Cols
  BY <1>1, <1>2
<1> QED
  BY <1>5, <1>11, <1>12 DEF w

\* What the division by the parts of a line leaves is less than a line.
LEMMA WholeLines ==
  ASSUME NEW s \in Int
  PROVE  /\ Select!Lines(s) \in Int
         /\ s - Select!Lines(s) * Notch \in Int
         /\ s - Select!Lines(s) * Notch < Notch /\ -(s - Select!Lines(s) * Notch) < Notch
<1>1. Notch \in Nat \ {0}
  BY MouseBounds
<1>2. ASSUME NEW p \in Nat PROVE p \div Notch \in Int /\ p - (p \div Notch) * Notch \in 0 .. Notch - 1
  BY <1>1, <1>2
<1>3. CASE s >= 0
  BY <1>1, <1>2, <1>3 DEF Select!Lines
<1>4. CASE ~ s >= 0
  <2>1. -s \in Nat
    BY <1>4
  <2> DEFINE p == -s
             l == p \div Notch
  <2>2. l \in Int /\ p - l * Notch \in 0 .. Notch - 1
    BY <1>2, <2>1
  <2>3. Select!Lines(s) = -l
    BY <1>4 DEF Select!Lines
  <2>4. s = -p
    OBVIOUS
  <2> HIDE DEF p, l
  <2>5. (-l) * Notch = -(l * Notch) /\ l * Notch \in Int
    BY <1>1, <2>2
  <2> QED
    BY <1>1, <2>1, <2>2, <2>3, <2>4, <2>5 DEF p
<1> QED
  BY <1>3, <1>4

\* Where the selection's ends may be, and what is left of the wheel.
SelectEnds ==
  /\ {mouse.start, mouse.end} \subseteq Select!Cells \cup {<<>>}
  /\ mouse.dragging => mouse.start # <<>> /\ mouse.end # <<>>
  /\ selection \in (Select!Cells \X Select!Cells) \cup {<<>>}
SelectInv ==
  /\ CanvasShape(mouse) /\ Committed /\ SelectEnds
  /\ grown \in 1 .. SelectRows
  /\ mouse.accum \in Int /\ Select!WheelExact

\* The mouse starts with nothing selected.
LEMMA SelectFirst == Select!PointerInit => SelectInv
<1> SUFFICES ASSUME Select!PointerInit PROVE SelectInv
  OBVIOUS
<1>1. CanvasShape(mouse) /\ Committed /\ SelectEnds
  BY DEF Select!PointerInit, CanvasShape, Committed, SelectEnds, Select!None, Select!NoButton
<1>2. grown \in 1 .. SelectRows
  BY MouseBounds DEF Select!PointerInit
<1>3. mouse.accum = 0 /\ owed = 0
  BY DEF Select!PointerInit
<1> QED
  BY <1>1, <1>2, <1>3, MouseBounds DEF SelectInv, Select!WheelExact

\* What is selected is what is drawn, tinted and copied, and the wheel loses nothing.
LEMMA SelectMeans == SelectInv => Select!ShownIsCommitted /\ Select!TextIsTint /\ Select!WheelExact
<1> SUFFICES ASSUME SelectInv PROVE Select!ShownIsCommitted /\ Select!TextIsTint /\ Select!WheelExact
  OBVIOUS
<1>1. Select!ShownIsCommitted
  BY DEF SelectInv, Committed, Select!ShownIsCommitted, Select!Shown, Select!None
<1>2. Select!TextIsTint
  <2>1. selection # <<>> => selection \in Select!Cells \X Select!Cells
    BY DEF SelectInv, SelectEnds
  <2>2. grown \in 1 .. SelectRows
    BY DEF SelectInv
  <2> QED
    BY <2>1, <2>2, CopiedIsTinted DEF Select!TextIsTint, Select!None
<1> QED
  BY <1>1, <1>2 DEF SelectInv

\* A step of the mouse keeps it so.
LEMMA SelectStep == SelectInv /\ [Select!PointerNext]_mouseVars => SelectInv'
<1> SUFFICES ASSUME SelectInv, [Select!PointerNext]_mouseVars PROVE SelectInv'
  OBVIOUS
<1>0. /\ CanvasShape(mouse) /\ Committed /\ SelectEnds /\ grown \in 1 .. SelectRows
      /\ mouse.accum \in Int /\ Select!WheelExact
  BY DEF SelectInv
<1> DEFINE Unmoved == UNCHANGED <<grown, owed>> /\ mouse'.accum = mouse.accum
<1>a. ASSUME EndsRest, Unmoved PROVE SelectInv'
  <2>1. CanvasShape(mouse') /\ Committed'
    BY <1>0, <1>a, RestFacts
  <2>2. SelectEnds'
    BY <1>0, <1>a DEF SelectEnds, EndsRest
  <2> QED
    BY <1>0, <1>a, <2>1, <2>2 DEF SelectInv, Select!WheelExact
<1>b. CASE UNCHANGED mouseVars
  BY <1>0, <1>b, <1>a DEF mouseVars, EndsRest
<1>1. ASSUME NEW q, Select!OpenMenu(q) PROVE SelectInv'
  BY <1>0, <1>1, <1>a DEF Select!OpenMenu, EndsRest
<1>2. ASSUME NEW q, Select!MoveReported(q) PROVE SelectInv'
  BY <1>0, <1>2, <1>a DEF Select!MoveReported, EndsRest, CanvasShape
<1>3. ASSUME NEW q, NEW b, Select!PressReported(b, q) PROVE SelectInv'
  BY <1>0, <1>3, <1>a DEF Select!PressReported, EndsRest, CanvasShape
<1>4. ASSUME NEW q, NEW b, Select!ReleaseReported(b, q) PROVE SelectInv'
  BY <1>0, <1>4, <1>a DEF Select!ReleaseReported, EndsRest, CanvasShape
<1>5. ASSUME NEW c \in Select!Spots \ {Select!Outside}, NEW quick \in BOOLEAN, Select!PressSelects(c, quick) PROVE SelectInv'
  <2> DEFINE n == IF quick THEN mouse.streak + 1 ELSE 1
             next == Select!Clicked(c, n)
  <2>1. /\ mouse' = next /\ selection' = (IF next.dragging THEN Select!None ELSE <<next.start, next.end>>)
        /\ UNCHANGED <<grown, owed>>
    BY <1>5 DEF Select!PressSelects
  <2>2. c \in Select!Cells
    BY DEF Select!Spots, Select!Outside
  <2> HIDE DEF n
  <2>3. CanvasShape(next) /\ next.accum = mouse.accum
    BY <1>0 DEF Select!Clicked, CanvasShape
  <2>4. next.start \in Select!Cells /\ next.end \in Select!Cells
    <3>1. c[2] \in 0 .. SelectRows - 1 /\ Cols \in Nat /\ Cols > 0
      BY <2>2, CellFacts, MouseBounds
    <3>2. \A k \in 0 .. Cols : <<k, c[2]>> \in Select!Cells
      BY <3>1, CellFacts
    <3> DEFINE word == Select!WordAt(c)
               low == Select!LowEnd(word)
               high == Select!HighEnd(word)
    <3>3. word # {} => low \in 0 .. Cols /\ high \in 0 .. Cols
      BY WordFacts
    <3>4. \/ next.start = <<0, c[2]>> /\ next.end = <<Cols - 1, c[2]>>
          \/ word # {} /\ next.start = <<low, c[2]>> /\ next.end = <<high, c[2]>>
          \/ next.start = c /\ next.end = c
      BY <1>0 DEF Select!Clicked, CanvasShape
    <3>5. 0 \in 0 .. Cols /\ Cols - 1 \in 0 .. Cols
      BY <3>1
    <3> HIDE DEF word, low, high, next
    <3> QED
      BY <2>2, <3>2, <3>3, <3>4, <3>5
  <2> HIDE DEF next
  <2>5. Committed'
    BY <2>1, <2>3 DEF Committed, CanvasShape
  <2>6. SelectEnds'
    BY <2>1, <2>4, CellFacts DEF SelectEnds, Select!None
  <2> QED
    BY <1>0, <2>1, <2>3, <2>5, <2>6 DEF SelectInv, Select!WheelExact
<1>6. ASSUME NEW c, Select!PressOpensUrl(c) PROVE SelectInv'
  BY <1>0, <1>6, <1>a DEF Select!PressOpensUrl, EndsRest
<1>7. ASSUME NEW b, Select!PressIgnored(b) PROVE SelectInv'
  BY <1>0, <1>7, <1>a DEF Select!PressIgnored, EndsRest
<1>8. ASSUME NEW c \in Select!Spots \ {Select!Outside}, Select!Drag(c) PROVE SelectInv'
  <2>1. mouse' = [mouse EXCEPT !.end = c] /\ mouse.dragging /\ UNCHANGED <<grown, owed, selection>>
    BY <1>8 DEF Select!Drag
  <2>2. /\ CanvasShape(mouse') /\ mouse'.dragging /\ mouse'.start = mouse.start /\ mouse'.end = c
        /\ mouse'.accum = mouse.accum
    BY <1>0, <2>1 DEF CanvasShape
  <2>3. c \in Select!Cells
    BY DEF Select!Spots, Select!Outside
  <2>4. SelectEnds'
    BY <1>0, <2>1, <2>2, <2>3, CellFacts DEF SelectEnds
  <2>5. Committed'
    BY <2>2 DEF Committed
  <2> QED
    BY <1>0, <2>1, <2>2, <2>4, <2>5 DEF SelectInv, Select!WheelExact
<1>9. ASSUME NEW b \in Select!Buttons, Select!Release(b) PROVE SelectInv'
  <2> DEFINE ends == b = "left" /\ mouse.dragging
  <2>1. /\ mouse' = [mouse EXCEPT !.dragging = mouse.dragging /\ ~ends]
        /\ selection' = IF ~ends THEN selection
                        ELSE IF mouse.start = mouse.end THEN Select!None ELSE <<mouse.start, mouse.end>>
        /\ UNCHANGED <<grown, owed, covered>>
    BY <1>9 DEF Select!Release
  <2>2. /\ CanvasShape(mouse') /\ mouse'.dragging = (mouse.dragging /\ ~ends) /\ mouse'.start = mouse.start
        /\ mouse'.end = mouse.end /\ mouse'.accum = mouse.accum
    BY <1>0, <2>1 DEF CanvasShape
  <2>3. Committed'
    <3>1. CASE ends
      BY <2>1, <2>2, <3>1 DEF Committed
    <3>2. CASE ~ends
      BY <1>0, <2>1, <2>2, <3>2 DEF Committed
    <3> QED
      BY <3>1, <3>2
  <2>4. SelectEnds'
    <3>1. CASE ends
      <4>1. mouse.start \in Select!Cells /\ mouse.end \in Select!Cells
        BY <1>0, <3>1 DEF SelectEnds
      <4> QED
        BY <2>1, <2>2, <3>1, <4>1 DEF SelectEnds, Select!None
    <3>2. CASE ~ends
      BY <1>0, <2>1, <2>2, <3>2 DEF SelectEnds
    <3> QED
      BY <3>1, <3>2
  <2> QED
    BY <1>0, <2>1, <2>2, <2>3, <2>4 DEF SelectInv, Select!WheelExact
<1>10. ASSUME NEW d \in Turns, Select!WheelArrows(d) PROVE SelectInv'
  <2> DEFINE s == mouse.accum + d
             l == Select!Lines(s)
  <2>1. /\ mouse' = [mouse EXCEPT !.accum = s - l * Notch] /\ owed' = owed + d - l * Notch
        /\ UNCHANGED <<grown, selection, covered>>
    BY <1>10 DEF Select!WheelArrows
  <2>2. d \in Int /\ s \in Int
    BY <1>0 DEF Turns
  <2>3. l \in Int /\ s - l * Notch \in Int /\ s - l * Notch < Notch /\ -(s - l * Notch) < Notch
    BY <2>2, WholeLines
  <2>4. owed = mouse.accum
    BY <1>0 DEF Select!WheelExact
  <2>5. owed' = s - l * Notch
    <3> DEFINE m == l * Notch
    <3>1. m \in Int /\ owed \in Int /\ d \in Int
      BY <1>0, <2>2, <2>3, <2>4, MouseBounds
    <3>2. owed' = owed + (d - m)
      BY <2>1
    <3>3. s = owed + d
      BY <2>4
    <3> HIDE DEF m, s
    <3>4. owed' = s - m
      BY <3>1, <3>2, <3>3
    <3> QED
      BY <3>4 DEF m
  <2> DEFINE z == s - l * Notch
  <2>6. z \in Int /\ z < Notch /\ -z < Notch /\ owed' = z /\ mouse' = [mouse EXCEPT !.accum = z]
    BY <2>1, <2>3, <2>5
  <2> HIDE DEF z, s, l
  <2>7. EndsRest /\ mouse'.accum = z
    BY <1>0, <2>1, <2>6 DEF EndsRest, CanvasShape
  <2>8. CanvasShape(mouse') /\ Committed'
    BY <1>0, <2>7, RestFacts
  <2>9. SelectEnds'
    BY <1>0, <2>7 DEF SelectEnds, EndsRest
  <2> QED
    BY <1>0, <2>1, <2>6, <2>7, <2>8, <2>9 DEF SelectInv, Select!WheelExact
<1>11. CASE Select!SelectAll
  <2>1. selection' = <<<<0, 0>>, <<Cols - 1, grown - 1>>>> /\ covered' /\ UNCHANGED <<grown, owed, mouse>>
    BY <1>11 DEF Select!SelectAll
  <2>2. 0 \in 0 .. Cols /\ 0 \in 0 .. SelectRows - 1 /\ Cols - 1 \in 0 .. Cols /\ grown - 1 \in 0 .. SelectRows - 1
    BY <1>0, MouseBounds
  <2>3. <<0, 0>> \in Select!Cells /\ <<Cols - 1, grown - 1>> \in Select!Cells
    BY <2>2, CellFacts
  <2>4. SelectEnds'
    BY <1>0, <2>1, <2>3 DEF SelectEnds
  <2>5. Committed'
    BY <2>1 DEF Committed
  <2> QED
    BY <1>0, <2>1, <2>4, <2>5 DEF SelectInv, Select!WheelExact
<1>12. CASE Select!CloseMenu \/ Select!Shift \/ \E m \in {Keys} : Select!SetMode(m)
  BY <1>0, <1>12, <1>a DEF Select!CloseMenu, Select!Shift, Select!SetMode, EndsRest
<1>13. CASE Select!Resize
  <2>1. EndsRest /\ mouse' = mouse /\ owed' = owed /\ grown' \in 1 .. SelectRows
    BY <1>0, <1>13 DEF Select!Resize, EndsRest
  <2>2. CanvasShape(mouse') /\ Committed'
    BY <1>0, <2>1, RestFacts
  <2> QED
    BY <1>0, <2>1, <2>2 DEF SelectInv, SelectEnds, Select!WheelExact, EndsRest
<1> QED
  BY <1>b, <1>1, <1>2, <1>3, <1>4, <1>5, <1>6, <1>7, <1>8, <1>9, <1>10, <1>11, <1>12, <1>13 DEF Select!PointerNext

------------------------------------------------------------------------------
(* The remote pane.                                                         *)

\* The rows of the pane and what its delete dialog reaches, with two tabs.
PanesInv ==
  /\ active \in TwoTabs /\ path \in [TwoTabs -> Dirs]
  /\ rows \in [TwoTabs -> SUBSET Panes!Entries] /\ chosen \in [TwoTabs -> SUBSET Panes!Entries]
  /\ lists \in [TwoTabs \X Dirs -> Nat] /\ adrift \in [TwoTabs -> BOOLEAN]
  /\ Panes!RowsOfPath
  /\ \A t \in TwoTabs : chosen[t] \subseteq rows[t]
  /\ confirm = Panes!Nothing \/ (confirm.tab \in TwoTabs /\ chosen[confirm.tab] \subseteq confirm.named)

\* The pane opens empty.
LEMMA PanesFirst == Panes!PanelInit => PanesInv
<1> SUFFICES ASSUME Panes!PanelInit PROVE PanesInv
  OBVIOUS
<1>1. TwoTabs # {} /\ Dirs # {}
  BY DeskAssumption
<1>2. active \in TwoTabs /\ path \in [TwoTabs -> Dirs]
  BY <1>1 DEF Panes!PanelInit
<1>3. rows \in [TwoTabs -> SUBSET Panes!Entries] /\ chosen \in [TwoTabs -> SUBSET Panes!Entries]
  BY DEF Panes!PanelInit
<1>4. lists \in [TwoTabs \X Dirs -> Nat] /\ adrift \in [TwoTabs -> BOOLEAN]
  BY DEF Panes!PanelInit
<1>5. Panes!RowsOfPath
  BY DEF Panes!PanelInit, Panes!RowsOfPath, Panes!In
<1>6. confirm = Panes!Nothing
  BY DEF Panes!PanelInit
<1>7. \A t \in TwoTabs : chosen[t] \subseteq rows[t]
  BY DEF Panes!PanelInit
<1> QED
  BY <1>2, <1>3, <1>4, <1>5, <1>6, <1>7 DEF PanesInv

\* The rows are those of the path, and the dialog names what it reaches.
LEMMA PanesMeans == PanesInv => Panes!RowsOfPath /\ Panes!DialogNamesAll
<1> SUFFICES ASSUME PanesInv PROVE Panes!RowsOfPath /\ Panes!DialogNamesAll
  OBVIOUS
<1>1. Panes!RowsOfPath
  BY DEF PanesInv
<1>2. ASSUME confirm # Panes!Nothing, active = confirm.tab, ~Panes!Underway(active), ~adrift[active]
      PROVE  Panes!Reached \subseteq confirm.named
  <2>1. active \in TwoTabs /\ chosen[active] \subseteq rows[active] /\ chosen[active] \subseteq confirm.named
    BY <1>2 DEF PanesInv
  <2>2. rows[active] = Panes!In(path[active], rows[active]) /\ rows[active] \subseteq Panes!Entries
    BY <1>1, <1>2, <2>1 DEF PanesInv, Panes!RowsOfPath
  <2>3. \A e \in chosen[active] : Panes!At(path[active], e.name) = e
    BY <2>1, <2>2 DEF Panes!At, Panes!In, Panes!Entries
  <2> QED
    BY <2>1, <2>3 DEF Panes!Reached
<1> QED
  BY <1>1, <1>2 DEF Panes!DialogNamesAll

\* A listing asked for leaves the others, and the pane of the tab in front waits for one or is
\* adrift.
LEMMA PanesAsks ==
  ASSUME PanesInv, NEW d \in Dirs, Panes!RefreshTo(d)
  PROVE  /\ lists' \in [TwoTabs \X Dirs -> Nat] /\ adrift' \in [TwoTabs -> BOOLEAN]
         /\ \A t \in TwoTabs : Panes!Underway(t) => Panes!Underway(t)'
         /\ \A t \in TwoTabs : t # active => adrift'[t] = adrift[t]
         /\ adrift[active] => adrift'[active]
         /\ \A t \in TwoTabs : t = active => adrift'[t] \/ Panes!Underway(t)'
<1>0. /\ active \in TwoTabs /\ lists \in [TwoTabs \X Dirs -> Nat] /\ adrift \in [TwoTabs -> BOOLEAN]
  BY DEF PanesInv
<1>1. CASE adrift' = [adrift EXCEPT ![active] = TRUE] /\ lists' = lists
  BY <1>0, <1>1 DEF Panes!Underway
<1>2. CASE lists' = [lists EXCEPT ![<<active, d>>] = @ + 1] /\ adrift' = adrift
  <2>1. lists' \in [TwoTabs \X Dirs -> Nat] /\ lists'[<<active, d>>] > 0
    <3>1. <<active, d>> \in TwoTabs \X Dirs /\ lists[<<active, d>>] \in Nat
      BY <1>0
    <3> QED
      BY <1>0, <1>2, <3>1
  <2>2. \A t \in TwoTabs, e \in Dirs : lists[<<t, e>>] > 0 => lists'[<<t, e>>] > 0
    BY <1>0, <1>2, <2>1
  <2>3. \A t \in TwoTabs : t = active => Panes!Underway(t)'
    BY <2>1 DEF Panes!Underway
  <2>4. \A t \in TwoTabs : Panes!Underway(t) => Panes!Underway(t)'
    BY <2>2 DEF Panes!Underway
  <2> QED
    BY <1>0, <1>2, <2>1, <2>3, <2>4
<1> QED
  BY <1>1, <1>2 DEF Panes!RefreshTo

\* A listing that ends leaves those of the other tabs.
LEMMA PanesEnds ==
  ASSUME PanesInv, NEW t \in TwoTabs, NEW d \in Dirs, lists[<<t, d>>] > 0, lists' = [lists EXCEPT ![<<t, d>>] = @ - 1]
  PROVE  /\ lists' \in [TwoTabs \X Dirs -> Nat]
         /\ \A u \in TwoTabs : u # t /\ Panes!Underway(u) => Panes!Underway(u)'
<1>0. lists \in [TwoTabs \X Dirs -> Nat]
  BY DEF PanesInv
<1>a. lists[<<t, d>>] > 0 /\ lists' = [lists EXCEPT ![<<t, d>>] = @ - 1]
  OBVIOUS
<1> DEFINE n == lists[<<t, d>>]
<1>b. <<t, d>> \in TwoTabs \X Dirs /\ n \in Nat
  BY <1>0
<1>1. n > 0 /\ lists' = [lists EXCEPT ![<<t, d>>] = n - 1]
  BY <1>a
<1> HIDE DEF n
<1>2. lists' \in [TwoTabs \X Dirs -> Nat]
  <2>1. n - 1 \in Nat
    BY <1>b, <1>1
  <2> QED
    BY <1>0, <1>b, <1>1, <2>1
<1>3. \A u \in TwoTabs, e \in Dirs : u # t => lists'[<<u, e>>] = lists[<<u, e>>]
  BY <1>0, <1>1
<1> QED
  BY <1>2, <1>3 DEF Panes!Underway

\* A step of the pane keeps the rows those of its path.
LEMMA PanesStep == PanesInv /\ [Panes!PanelNext]_paneVars => PanesInv'
<1> SUFFICES ASSUME PanesInv, [Panes!PanelNext]_paneVars PROVE PanesInv'
  OBVIOUS
<1> DEFINE Dialog == confirm = Panes!Nothing \/ (confirm.tab \in TwoTabs /\ chosen[confirm.tab] \subseteq confirm.named)
           Types == /\ active \in TwoTabs /\ path \in [TwoTabs -> Dirs]
                    /\ rows \in [TwoTabs -> SUBSET Panes!Entries] /\ chosen \in [TwoTabs -> SUBSET Panes!Entries]
                    /\ (\A t \in TwoTabs : chosen[t] \subseteq rows[t])
                    /\ lists \in [TwoTabs \X Dirs -> Nat] /\ adrift \in [TwoTabs -> BOOLEAN]
<1>0. Types /\ Dialog
  BY DEF PanesInv
<1>r. \A t \in TwoTabs : Panes!Underway(t) \/ adrift[t] \/ rows[t] = Panes!In(path[t], rows[t])
  BY DEF PanesInv, Panes!RowsOfPath
<1>i. ASSUME Types', Dialog', \A t \in TwoTabs : Panes!Underway(t)' \/ adrift'[t] \/ rows'[t] = Panes!In(path'[t], rows'[t])
      PROVE  PanesInv'
  BY <1>i DEF PanesInv, Panes!RowsOfPath, Panes!In
<1>c. Panes!NoDialog /\ confirm' = confirm => Dialog'
  BY DEF Panes!NoDialog
<1>k. ASSUME UNCHANGED <<path, rows, lists, adrift>>, active' \in TwoTabs,
             chosen' \in [TwoTabs -> SUBSET Panes!Entries], (\A t \in TwoTabs : chosen'[t] \subseteq rows'[t]), Dialog'
      PROVE  PanesInv'
  BY <1>0, <1>r, <1>k, <1>i DEF Panes!Underway
<1>u. CASE UNCHANGED paneVars
  <2>1. Dialog'
    BY <1>0, <1>u DEF paneVars, Panes!NoDialog
  <2> QED
    BY <1>0, <1>u, <1>k, <2>1 DEF paneVars
<1>1. ASSUME NEW d \in Dirs, Panes!Navigate(d) PROVE PanesInv'
  <2>1. /\ Panes!NoDialog /\ path' = [path EXCEPT ![active] = d] /\ Panes!RefreshTo(d)
        /\ chosen' = [chosen EXCEPT ![active] = IF d = path[active] THEN @ ELSE {}]
        /\ UNCHANGED <<active, rows, confirm>>
    BY <1>1 DEF Panes!Navigate
  <2>2. /\ lists' \in [TwoTabs \X Dirs -> Nat] /\ adrift' \in [TwoTabs -> BOOLEAN]
        /\ \A t \in TwoTabs : Panes!Underway(t) => Panes!Underway(t)'
        /\ \A t \in TwoTabs : t # active => adrift'[t] = adrift[t]
        /\ \A t \in TwoTabs : t = active => adrift'[t] \/ Panes!Underway(t)'
    BY <2>1, PanesAsks
  <2>3. Types'
    BY <1>0, <2>1, <2>2
  <2>4. ASSUME NEW t \in TwoTabs PROVE Panes!Underway(t)' \/ adrift'[t] \/ rows'[t] = Panes!In(path'[t], rows'[t])
    <3>1. CASE t = active
      BY <2>2, <3>1
    <3>2. CASE t # active
      <4>1. path'[t] = path[t]
        BY <1>0, <2>1, <3>2
      <4> QED
        BY <1>r, <2>1, <2>2, <3>2, <4>1
    <3> QED
      BY <3>1, <3>2
  <2>5. Dialog'
    BY <1>c, <2>1
  <2> QED
    BY <1>i, <2>3, <2>4, <2>5
<1>2. ASSUME NEW d \in Dirs, Panes!EditPath(d) PROVE PanesInv'
  <2>1. /\ Panes!NoDialog /\ path' = [path EXCEPT ![active] = d] /\ adrift' = [adrift EXCEPT ![active] = TRUE]
        /\ UNCHANGED <<active, rows, chosen, lists, confirm>>
    BY <1>2 DEF Panes!EditPath
  <2>2. Types'
    BY <1>0, <2>1
  <2>3. \A t \in TwoTabs : Panes!Underway(t)' <=> Panes!Underway(t)
    BY <2>1 DEF Panes!Underway
  <2>4. ASSUME NEW t \in TwoTabs PROVE Panes!Underway(t)' \/ adrift'[t] \/ rows'[t] = Panes!In(path'[t], rows'[t])
    <3>1. CASE t = active
      BY <1>0, <2>1, <3>1
    <3>2. CASE t # active
      <4>1. path'[t] = path[t] /\ adrift'[t] = adrift[t]
        BY <1>0, <2>1, <3>2
      <4> QED
        BY <1>r, <2>1, <2>3, <4>1
    <3> QED
      BY <3>1, <3>2
  <2>5. Dialog'
    BY <1>c, <2>1
  <2> QED
    BY <1>i, <2>2, <2>4, <2>5
<1>3. ASSUME NEW t \in TwoTabs, NEW d \in Dirs, Panes!Listed(t, d) PROVE PanesInv'
  <2>1. /\ lists[<<t, d>>] > 0 /\ lists' = [lists EXCEPT ![<<t, d>>] = @ - 1]
        /\ path' = [path EXCEPT ![t] = d] /\ chosen' = [chosen EXCEPT ![t] = {}]
        /\ adrift' = [adrift EXCEPT ![t] = FALSE]
        /\ UNCHANGED <<active, confirm, prompt>>
    BY <1>3 DEF Panes!Listed
  <2>2. PICK found \in SUBSET Panes!Entries : rows' = [rows EXCEPT ![t] = Panes!In(d, found)]
    BY <1>3 DEF Panes!Listed
  <2>3. /\ lists' \in [TwoTabs \X Dirs -> Nat]
        /\ \A u \in TwoTabs : u # t /\ Panes!Underway(u) => Panes!Underway(u)'
    BY <2>1, PanesEnds
  <2>4. Panes!In(d, found) \in SUBSET Panes!Entries /\ Panes!In(d, Panes!In(d, found)) = Panes!In(d, found)
    BY DEF Panes!In
  <2>5. Types'
    BY <1>0, <2>1, <2>2, <2>3, <2>4
  <2>6. ASSUME NEW u \in TwoTabs PROVE Panes!Underway(u)' \/ adrift'[u] \/ rows'[u] = Panes!In(path'[u], rows'[u])
    <3>1. CASE u = t
      <4>1. rows'[u] = Panes!In(d, found) /\ path'[u] = d
        BY <1>0, <2>1, <2>2, <3>1
      <4> QED
        BY <2>4, <4>1
    <3>2. CASE u # t
      <4>1. path'[u] = path[u] /\ adrift'[u] = adrift[u] /\ rows'[u] = rows[u]
        BY <1>0, <2>1, <2>2, <3>2
      <4> QED
        BY <1>r, <2>3, <3>2, <4>1
    <3> QED
      BY <3>1, <3>2
  <2>7. Dialog'
    BY <1>0, <2>1 DEF Panes!NoDialog
  <2> QED
    BY <1>i, <2>5, <2>6, <2>7
<1>4. ASSUME NEW t \in TwoTabs, NEW d \in Dirs, Panes!ListFails(t, d) PROVE PanesInv'
  <2>1. /\ lists[<<t, d>>] > 0 /\ lists' = [lists EXCEPT ![<<t, d>>] = @ - 1]
        /\ adrift' = [adrift EXCEPT ![t] = TRUE]
        /\ UNCHANGED <<active, path, rows, chosen, confirm, prompt>>
    BY <1>4 DEF Panes!ListFails
  <2>2. /\ lists' \in [TwoTabs \X Dirs -> Nat]
        /\ \A u \in TwoTabs : u # t /\ Panes!Underway(u) => Panes!Underway(u)'
    BY <2>1, PanesEnds
  <2>3. Types'
    BY <1>0, <2>1, <2>2
  <2>4. ASSUME NEW u \in TwoTabs PROVE Panes!Underway(u)' \/ adrift'[u] \/ rows'[u] = Panes!In(path'[u], rows'[u])
    <3>1. u = t => adrift'[u]
      BY <1>0, <2>1
    <3>2. u # t => adrift'[u] = adrift[u]
      BY <1>0, <2>1
    <3> QED
      BY <1>r, <2>1, <2>2, <3>1, <3>2
  <2>5. Dialog'
    BY <1>0, <2>1 DEF Panes!NoDialog
  <2> QED
    BY <1>i, <2>3, <2>4, <2>5
<1>5. ASSUME NEW some \in SUBSET rows[active], Panes!Select(some) PROVE PanesInv'
  <2>1. /\ Panes!NoDialog /\ chosen' = [chosen EXCEPT ![active] = some]
        /\ UNCHANGED <<active, path, rows, lists, confirm, adrift>>
    BY <1>5 DEF Panes!Select
  <2>2. chosen' \in [TwoTabs -> SUBSET Panes!Entries]
    BY <1>0, <2>1
  <2>3. \A t \in TwoTabs : chosen'[t] \subseteq rows'[t]
    BY <1>0, <2>1
  <2> QED
    BY <1>0, <1>c, <1>k, <2>1, <2>2, <2>3
<1>6. ASSUME NEW t \in TwoTabs, Panes!SwitchTab(t) PROVE PanesInv'
  <2>1. active' = t /\ UNCHANGED <<path, rows, chosen, lists, confirm, prompt, adrift>>
    BY <1>6 DEF Panes!SwitchTab
  <2>2. Dialog'
    BY <1>0, <2>1 DEF Panes!NoDialog
  <2> QED
    BY <1>0, <1>k, <2>1, <2>2
<1>7. ASSUME NEW t \in TwoTabs, Panes!Lose(t) PROVE PanesInv'
  <2>1. /\ lists' = [x \in TwoTabs \X Dirs |-> IF x[1] = t THEN 0 ELSE lists[x]]
        /\ adrift' = [adrift EXCEPT ![t] = @ \/ Panes!Underway(t)]
        /\ UNCHANGED <<active, path, rows, chosen, confirm, prompt>>
    BY <1>7 DEF Panes!Lose
  <2>2. lists' \in [TwoTabs \X Dirs -> Nat]
    BY <1>0, <2>1
  <2>3. \A u \in TwoTabs, e \in Dirs : u # t => lists'[<<u, e>>] = lists[<<u, e>>]
    BY <2>1
  <2>a. adrift' \in [TwoTabs -> BOOLEAN]
    BY <1>0, <2>1, Zenon DEF Panes!Underway
  <2>4. Types'
    BY <1>0, <2>1, <2>2, <2>a
  <2>5. ASSUME NEW u \in TwoTabs PROVE Panes!Underway(u)' \/ adrift'[u] \/ rows'[u] = Panes!In(path'[u], rows'[u])
    <3>1. CASE u = t
      <4>1. adrift'[u] = (adrift[u] \/ Panes!Underway(u))
        BY <1>0, <2>1, <3>1, Zenon
      <4> QED
        BY <1>r, <2>1, <4>1
    <3>2. CASE u # t
      <4>1. adrift'[u] = adrift[u]
        BY <1>0, <2>1, <3>2, Zenon
      <4>2. Panes!Underway(u) => Panes!Underway(u)'
        BY <2>3, <3>2 DEF Panes!Underway
      <4> QED
        BY <1>r, <2>1, <4>1, <4>2
    <3> QED
      BY <3>1, <3>2
  <2>6. Dialog'
    BY <1>0, <2>1 DEF Panes!NoDialog
  <2> QED
    BY <1>i, <2>4, <2>5, <2>6
<1>8. CASE Panes!AskDelete
  <2>1. /\ confirm' = [kind |-> "delete", tab |-> active, named |-> chosen[active]]
        /\ UNCHANGED <<active, path, rows, chosen, lists, adrift>>
    BY <1>8 DEF Panes!AskDelete
  <2>2. Dialog'
    BY <1>0, <2>1
  <2> QED
    BY <1>0, <1>k, <2>1, <2>2
<1>9. CASE Panes!ConfirmDelete \/ Panes!Cancel
  <2>1. confirm' = Panes!Nothing /\ UNCHANGED <<active, path, rows, chosen, lists, adrift>>
    BY <1>9 DEF Panes!ConfirmDelete, Panes!Cancel
  <2> QED
    BY <1>0, <1>k, <2>1 DEF Panes!Nothing
<1>10. ASSUME NEW kind, NEW name, Panes!OpenPrompt(kind, name) PROVE PanesInv'
  <2>1. Panes!NoDialog /\ UNCHANGED <<active, path, rows, chosen, lists, confirm, adrift>>
    BY <1>10 DEF Panes!OpenPrompt
  <2> QED
    BY <1>0, <1>c, <1>k, <2>1
<1>11. ASSUME NEW name, Panes!ConfirmPrompt(name) PROVE PanesInv'
  <2>1. prompt' = Panes!Nothing /\ UNCHANGED <<active, path, rows, chosen, lists, confirm, adrift>>
    BY <1>11 DEF Panes!ConfirmPrompt
  <2>2. Dialog'
    BY <1>0, <2>1 DEF Panes!NoDialog
  <2> QED
    BY <1>0, <1>k, <2>1, <2>2
<1>12. ASSUME NEW op, Panes!OnDone(op) PROVE PanesInv'
  <2>1. Panes!RefreshTo(path[active]) /\ UNCHANGED <<active, path, rows, chosen, confirm, prompt>>
    BY <1>12 DEF Panes!OnDone
  <2>2. path[active] \in Dirs
    BY <1>0
  <2>3. /\ lists' \in [TwoTabs \X Dirs -> Nat] /\ adrift' \in [TwoTabs -> BOOLEAN]
        /\ \A t \in TwoTabs : Panes!Underway(t) => Panes!Underway(t)'
        /\ \A t \in TwoTabs : t # active => adrift'[t] = adrift[t]
        /\ adrift[active] => adrift'[active]
    BY <2>1, <2>2, PanesAsks
  <2>4. Types'
    BY <1>0, <2>1, <2>3
  <2>5. \A t \in TwoTabs : Panes!Underway(t)' \/ adrift'[t] \/ rows'[t] = Panes!In(path'[t], rows'[t])
    BY <1>r, <2>1, <2>3
  <2>6. Dialog'
    BY <1>0, <2>1 DEF Panes!NoDialog
  <2> QED
    BY <1>i, <2>4, <2>5, <2>6
<1> QED
  BY <1>u, <1>1, <1>2, <1>3, <1>4, <1>5, <1>6, <1>7, <1>8, <1>9, <1>10, <1>11, <1>12 DEF Panes!PanelNext

\* The rows of the pane and what its delete dialog reaches, with one tab and more rows.
PaneInv ==
  /\ active \in OneTab /\ path \in [OneTab -> Dirs]
  /\ rows \in [OneTab -> SUBSET Pane!Entries] /\ chosen \in [OneTab -> SUBSET Pane!Entries]
  /\ lists \in [OneTab \X Dirs -> Nat] /\ adrift \in [OneTab -> BOOLEAN]
  /\ Pane!RowsOfPath
  /\ \A t \in OneTab : chosen[t] \subseteq rows[t]
  /\ confirm = Pane!Nothing \/ (confirm.tab \in OneTab /\ chosen[confirm.tab] \subseteq confirm.named)

\* The pane opens empty.
LEMMA PaneFirst == Pane!PanelInit => PaneInv
<1> SUFFICES ASSUME Pane!PanelInit PROVE PaneInv
  OBVIOUS
<1>1. OneTab # {} /\ Dirs # {}
  BY DeskAssumption
<1>2. active \in OneTab /\ path \in [OneTab -> Dirs]
  BY <1>1 DEF Pane!PanelInit
<1>3. rows \in [OneTab -> SUBSET Pane!Entries] /\ chosen \in [OneTab -> SUBSET Pane!Entries]
  BY DEF Pane!PanelInit
<1>4. lists \in [OneTab \X Dirs -> Nat] /\ adrift \in [OneTab -> BOOLEAN]
  BY DEF Pane!PanelInit
<1>5. Pane!RowsOfPath
  BY DEF Pane!PanelInit, Pane!RowsOfPath, Pane!In
<1>6. confirm = Pane!Nothing
  BY DEF Pane!PanelInit
<1>7. \A t \in OneTab : chosen[t] \subseteq rows[t]
  BY DEF Pane!PanelInit
<1> QED
  BY <1>2, <1>3, <1>4, <1>5, <1>6, <1>7 DEF PaneInv

\* The rows are those of the path, and the dialog names what it reaches.
LEMMA PaneMeans == PaneInv => Pane!RowsOfPath /\ Pane!DialogNamesAll
<1> SUFFICES ASSUME PaneInv PROVE Pane!RowsOfPath /\ Pane!DialogNamesAll
  OBVIOUS
<1>1. Pane!RowsOfPath
  BY DEF PaneInv
<1>2. ASSUME confirm # Pane!Nothing, active = confirm.tab, ~Pane!Underway(active), ~adrift[active]
      PROVE  Pane!Reached \subseteq confirm.named
  <2>1. active \in OneTab /\ chosen[active] \subseteq rows[active] /\ chosen[active] \subseteq confirm.named
    BY <1>2 DEF PaneInv
  <2>2. rows[active] = Pane!In(path[active], rows[active]) /\ rows[active] \subseteq Pane!Entries
    BY <1>1, <1>2, <2>1 DEF PaneInv, Pane!RowsOfPath
  <2>3. \A e \in chosen[active] : Pane!At(path[active], e.name) = e
    BY <2>1, <2>2 DEF Pane!At, Pane!In, Pane!Entries
  <2> QED
    BY <2>1, <2>3 DEF Pane!Reached
<1> QED
  BY <1>1, <1>2 DEF Pane!DialogNamesAll

\* A listing asked for leaves the others, and the pane of the tab in front waits for one or is
\* adrift.
LEMMA PaneAsks ==
  ASSUME PaneInv, NEW d \in Dirs, Pane!RefreshTo(d)
  PROVE  /\ lists' \in [OneTab \X Dirs -> Nat] /\ adrift' \in [OneTab -> BOOLEAN]
         /\ \A t \in OneTab : Pane!Underway(t) => Pane!Underway(t)'
         /\ \A t \in OneTab : t # active => adrift'[t] = adrift[t]
         /\ adrift[active] => adrift'[active]
         /\ \A t \in OneTab : t = active => adrift'[t] \/ Pane!Underway(t)'
<1>0. /\ active \in OneTab /\ lists \in [OneTab \X Dirs -> Nat] /\ adrift \in [OneTab -> BOOLEAN]
  BY DEF PaneInv
<1>1. CASE adrift' = [adrift EXCEPT ![active] = TRUE] /\ lists' = lists
  BY <1>0, <1>1 DEF Pane!Underway
<1>2. CASE lists' = [lists EXCEPT ![<<active, d>>] = @ + 1] /\ adrift' = adrift
  <2>1. lists' \in [OneTab \X Dirs -> Nat] /\ lists'[<<active, d>>] > 0
    <3>1. <<active, d>> \in OneTab \X Dirs /\ lists[<<active, d>>] \in Nat
      BY <1>0
    <3> QED
      BY <1>0, <1>2, <3>1
  <2>2. \A t \in OneTab, e \in Dirs : lists[<<t, e>>] > 0 => lists'[<<t, e>>] > 0
    BY <1>0, <1>2, <2>1
  <2>3. \A t \in OneTab : t = active => Pane!Underway(t)'
    BY <2>1 DEF Pane!Underway
  <2>4. \A t \in OneTab : Pane!Underway(t) => Pane!Underway(t)'
    BY <2>2 DEF Pane!Underway
  <2> QED
    BY <1>0, <1>2, <2>1, <2>3, <2>4
<1> QED
  BY <1>1, <1>2 DEF Pane!RefreshTo

\* A listing that ends leaves those of the other tabs.
LEMMA PaneEnds ==
  ASSUME PaneInv, NEW t \in OneTab, NEW d \in Dirs, lists[<<t, d>>] > 0, lists' = [lists EXCEPT ![<<t, d>>] = @ - 1]
  PROVE  /\ lists' \in [OneTab \X Dirs -> Nat]
         /\ \A u \in OneTab : u # t /\ Pane!Underway(u) => Pane!Underway(u)'
<1>0. lists \in [OneTab \X Dirs -> Nat]
  BY DEF PaneInv
<1>a. lists[<<t, d>>] > 0 /\ lists' = [lists EXCEPT ![<<t, d>>] = @ - 1]
  OBVIOUS
<1> DEFINE n == lists[<<t, d>>]
<1>b. <<t, d>> \in OneTab \X Dirs /\ n \in Nat
  BY <1>0
<1>1. n > 0 /\ lists' = [lists EXCEPT ![<<t, d>>] = n - 1]
  BY <1>a
<1> HIDE DEF n
<1>2. lists' \in [OneTab \X Dirs -> Nat]
  <2>1. n - 1 \in Nat
    BY <1>b, <1>1
  <2> QED
    BY <1>0, <1>b, <1>1, <2>1
<1>3. \A u \in OneTab, e \in Dirs : u # t => lists'[<<u, e>>] = lists[<<u, e>>]
  BY <1>0, <1>1
<1> QED
  BY <1>2, <1>3 DEF Pane!Underway

\* A step of the pane keeps the rows those of its path.
LEMMA PaneStep == PaneInv /\ [Pane!PanelNext]_paneVars => PaneInv'
<1> SUFFICES ASSUME PaneInv, [Pane!PanelNext]_paneVars PROVE PaneInv'
  OBVIOUS
<1> DEFINE Dialog == confirm = Pane!Nothing \/ (confirm.tab \in OneTab /\ chosen[confirm.tab] \subseteq confirm.named)
           Types == /\ active \in OneTab /\ path \in [OneTab -> Dirs]
                    /\ rows \in [OneTab -> SUBSET Pane!Entries] /\ chosen \in [OneTab -> SUBSET Pane!Entries]
                    /\ (\A t \in OneTab : chosen[t] \subseteq rows[t])
                    /\ lists \in [OneTab \X Dirs -> Nat] /\ adrift \in [OneTab -> BOOLEAN]
<1>0. Types /\ Dialog
  BY DEF PaneInv
<1>r. \A t \in OneTab : Pane!Underway(t) \/ adrift[t] \/ rows[t] = Pane!In(path[t], rows[t])
  BY DEF PaneInv, Pane!RowsOfPath
<1>i. ASSUME Types', Dialog', \A t \in OneTab : Pane!Underway(t)' \/ adrift'[t] \/ rows'[t] = Pane!In(path'[t], rows'[t])
      PROVE  PaneInv'
  BY <1>i DEF PaneInv, Pane!RowsOfPath, Pane!In
<1>c. Pane!NoDialog /\ confirm' = confirm => Dialog'
  BY DEF Pane!NoDialog
<1>k. ASSUME UNCHANGED <<path, rows, lists, adrift>>, active' \in OneTab,
             chosen' \in [OneTab -> SUBSET Pane!Entries], (\A t \in OneTab : chosen'[t] \subseteq rows'[t]), Dialog'
      PROVE  PaneInv'
  BY <1>0, <1>r, <1>k, <1>i DEF Pane!Underway
<1>u. CASE UNCHANGED paneVars
  <2>1. Dialog'
    BY <1>0, <1>u DEF paneVars, Pane!NoDialog
  <2> QED
    BY <1>0, <1>u, <1>k, <2>1 DEF paneVars
<1>1. ASSUME NEW d \in Dirs, Pane!Navigate(d) PROVE PaneInv'
  <2>1. /\ Pane!NoDialog /\ path' = [path EXCEPT ![active] = d] /\ Pane!RefreshTo(d)
        /\ chosen' = [chosen EXCEPT ![active] = IF d = path[active] THEN @ ELSE {}]
        /\ UNCHANGED <<active, rows, confirm>>
    BY <1>1 DEF Pane!Navigate
  <2>2. /\ lists' \in [OneTab \X Dirs -> Nat] /\ adrift' \in [OneTab -> BOOLEAN]
        /\ \A t \in OneTab : Pane!Underway(t) => Pane!Underway(t)'
        /\ \A t \in OneTab : t # active => adrift'[t] = adrift[t]
        /\ \A t \in OneTab : t = active => adrift'[t] \/ Pane!Underway(t)'
    BY <2>1, PaneAsks
  <2>3. Types'
    BY <1>0, <2>1, <2>2
  <2>4. ASSUME NEW t \in OneTab PROVE Pane!Underway(t)' \/ adrift'[t] \/ rows'[t] = Pane!In(path'[t], rows'[t])
    <3>1. CASE t = active
      BY <2>2, <3>1
    <3>2. CASE t # active
      <4>1. path'[t] = path[t]
        BY <1>0, <2>1, <3>2
      <4> QED
        BY <1>r, <2>1, <2>2, <3>2, <4>1
    <3> QED
      BY <3>1, <3>2
  <2>5. Dialog'
    BY <1>c, <2>1
  <2> QED
    BY <1>i, <2>3, <2>4, <2>5
<1>2. ASSUME NEW d \in Dirs, Pane!EditPath(d) PROVE PaneInv'
  <2>1. /\ Pane!NoDialog /\ path' = [path EXCEPT ![active] = d] /\ adrift' = [adrift EXCEPT ![active] = TRUE]
        /\ UNCHANGED <<active, rows, chosen, lists, confirm>>
    BY <1>2 DEF Pane!EditPath
  <2>2. Types'
    BY <1>0, <2>1
  <2>3. \A t \in OneTab : Pane!Underway(t)' <=> Pane!Underway(t)
    BY <2>1 DEF Pane!Underway
  <2>4. ASSUME NEW t \in OneTab PROVE Pane!Underway(t)' \/ adrift'[t] \/ rows'[t] = Pane!In(path'[t], rows'[t])
    <3>1. CASE t = active
      BY <1>0, <2>1, <3>1
    <3>2. CASE t # active
      <4>1. path'[t] = path[t] /\ adrift'[t] = adrift[t]
        BY <1>0, <2>1, <3>2
      <4> QED
        BY <1>r, <2>1, <2>3, <4>1
    <3> QED
      BY <3>1, <3>2
  <2>5. Dialog'
    BY <1>c, <2>1
  <2> QED
    BY <1>i, <2>2, <2>4, <2>5
<1>3. ASSUME NEW t \in OneTab, NEW d \in Dirs, Pane!Listed(t, d) PROVE PaneInv'
  <2>1. /\ lists[<<t, d>>] > 0 /\ lists' = [lists EXCEPT ![<<t, d>>] = @ - 1]
        /\ path' = [path EXCEPT ![t] = d] /\ chosen' = [chosen EXCEPT ![t] = {}]
        /\ adrift' = [adrift EXCEPT ![t] = FALSE]
        /\ UNCHANGED <<active, confirm, prompt>>
    BY <1>3 DEF Pane!Listed
  <2>2. PICK found \in SUBSET Pane!Entries : rows' = [rows EXCEPT ![t] = Pane!In(d, found)]
    BY <1>3 DEF Pane!Listed
  <2>3. /\ lists' \in [OneTab \X Dirs -> Nat]
        /\ \A u \in OneTab : u # t /\ Pane!Underway(u) => Pane!Underway(u)'
    BY <2>1, PaneEnds
  <2>4. Pane!In(d, found) \in SUBSET Pane!Entries /\ Pane!In(d, Pane!In(d, found)) = Pane!In(d, found)
    BY DEF Pane!In
  <2>5. Types'
    BY <1>0, <2>1, <2>2, <2>3, <2>4
  <2>6. ASSUME NEW u \in OneTab PROVE Pane!Underway(u)' \/ adrift'[u] \/ rows'[u] = Pane!In(path'[u], rows'[u])
    <3>1. CASE u = t
      <4>1. rows'[u] = Pane!In(d, found) /\ path'[u] = d
        BY <1>0, <2>1, <2>2, <3>1
      <4> QED
        BY <2>4, <4>1
    <3>2. CASE u # t
      <4>1. path'[u] = path[u] /\ adrift'[u] = adrift[u] /\ rows'[u] = rows[u]
        BY <1>0, <2>1, <2>2, <3>2
      <4> QED
        BY <1>r, <2>3, <3>2, <4>1
    <3> QED
      BY <3>1, <3>2
  <2>7. Dialog'
    BY <1>0, <2>1 DEF Pane!NoDialog
  <2> QED
    BY <1>i, <2>5, <2>6, <2>7
<1>4. ASSUME NEW t \in OneTab, NEW d \in Dirs, Pane!ListFails(t, d) PROVE PaneInv'
  <2>1. /\ lists[<<t, d>>] > 0 /\ lists' = [lists EXCEPT ![<<t, d>>] = @ - 1]
        /\ adrift' = [adrift EXCEPT ![t] = TRUE]
        /\ UNCHANGED <<active, path, rows, chosen, confirm, prompt>>
    BY <1>4 DEF Pane!ListFails
  <2>2. /\ lists' \in [OneTab \X Dirs -> Nat]
        /\ \A u \in OneTab : u # t /\ Pane!Underway(u) => Pane!Underway(u)'
    BY <2>1, PaneEnds
  <2>3. Types'
    BY <1>0, <2>1, <2>2
  <2>4. ASSUME NEW u \in OneTab PROVE Pane!Underway(u)' \/ adrift'[u] \/ rows'[u] = Pane!In(path'[u], rows'[u])
    <3>1. u = t => adrift'[u]
      BY <1>0, <2>1
    <3>2. u # t => adrift'[u] = adrift[u]
      BY <1>0, <2>1
    <3> QED
      BY <1>r, <2>1, <2>2, <3>1, <3>2
  <2>5. Dialog'
    BY <1>0, <2>1 DEF Pane!NoDialog
  <2> QED
    BY <1>i, <2>3, <2>4, <2>5
<1>5. ASSUME NEW some \in SUBSET rows[active], Pane!Select(some) PROVE PaneInv'
  <2>1. /\ Pane!NoDialog /\ chosen' = [chosen EXCEPT ![active] = some]
        /\ UNCHANGED <<active, path, rows, lists, confirm, adrift>>
    BY <1>5 DEF Pane!Select
  <2>2. chosen' \in [OneTab -> SUBSET Pane!Entries]
    BY <1>0, <2>1
  <2>3. \A t \in OneTab : chosen'[t] \subseteq rows'[t]
    BY <1>0, <2>1
  <2> QED
    BY <1>0, <1>c, <1>k, <2>1, <2>2, <2>3
<1>6. ASSUME NEW t \in OneTab, Pane!SwitchTab(t) PROVE PaneInv'
  <2>1. active' = t /\ UNCHANGED <<path, rows, chosen, lists, confirm, prompt, adrift>>
    BY <1>6 DEF Pane!SwitchTab
  <2>2. Dialog'
    BY <1>0, <2>1 DEF Pane!NoDialog
  <2> QED
    BY <1>0, <1>k, <2>1, <2>2
<1>7. ASSUME NEW t \in OneTab, Pane!Lose(t) PROVE PaneInv'
  <2>1. /\ lists' = [x \in OneTab \X Dirs |-> IF x[1] = t THEN 0 ELSE lists[x]]
        /\ adrift' = [adrift EXCEPT ![t] = @ \/ Pane!Underway(t)]
        /\ UNCHANGED <<active, path, rows, chosen, confirm, prompt>>
    BY <1>7 DEF Pane!Lose
  <2>2. lists' \in [OneTab \X Dirs -> Nat]
    BY <1>0, <2>1
  <2>3. \A u \in OneTab, e \in Dirs : u # t => lists'[<<u, e>>] = lists[<<u, e>>]
    BY <2>1
  <2>a. adrift' \in [OneTab -> BOOLEAN]
    BY <1>0, <2>1, Zenon DEF Pane!Underway
  <2>4. Types'
    BY <1>0, <2>1, <2>2, <2>a
  <2>5. ASSUME NEW u \in OneTab PROVE Pane!Underway(u)' \/ adrift'[u] \/ rows'[u] = Pane!In(path'[u], rows'[u])
    <3>1. CASE u = t
      <4>1. adrift'[u] = (adrift[u] \/ Pane!Underway(u))
        BY <1>0, <2>1, <3>1, Zenon
      <4> QED
        BY <1>r, <2>1, <4>1
    <3>2. CASE u # t
      <4>1. adrift'[u] = adrift[u]
        BY <1>0, <2>1, <3>2, Zenon
      <4>2. Pane!Underway(u) => Pane!Underway(u)'
        BY <2>3, <3>2 DEF Pane!Underway
      <4> QED
        BY <1>r, <2>1, <4>1, <4>2
    <3> QED
      BY <3>1, <3>2
  <2>6. Dialog'
    BY <1>0, <2>1 DEF Pane!NoDialog
  <2> QED
    BY <1>i, <2>4, <2>5, <2>6
<1>8. CASE Pane!AskDelete
  <2>1. /\ confirm' = [kind |-> "delete", tab |-> active, named |-> chosen[active]]
        /\ UNCHANGED <<active, path, rows, chosen, lists, adrift>>
    BY <1>8 DEF Pane!AskDelete
  <2>2. Dialog'
    BY <1>0, <2>1
  <2> QED
    BY <1>0, <1>k, <2>1, <2>2
<1>9. CASE Pane!ConfirmDelete \/ Pane!Cancel
  <2>1. confirm' = Pane!Nothing /\ UNCHANGED <<active, path, rows, chosen, lists, adrift>>
    BY <1>9 DEF Pane!ConfirmDelete, Pane!Cancel
  <2> QED
    BY <1>0, <1>k, <2>1 DEF Pane!Nothing
<1>10. ASSUME NEW kind, NEW name, Pane!OpenPrompt(kind, name) PROVE PaneInv'
  <2>1. Pane!NoDialog /\ UNCHANGED <<active, path, rows, chosen, lists, confirm, adrift>>
    BY <1>10 DEF Pane!OpenPrompt
  <2> QED
    BY <1>0, <1>c, <1>k, <2>1
<1>11. ASSUME NEW name, Pane!ConfirmPrompt(name) PROVE PaneInv'
  <2>1. prompt' = Pane!Nothing /\ UNCHANGED <<active, path, rows, chosen, lists, confirm, adrift>>
    BY <1>11 DEF Pane!ConfirmPrompt
  <2>2. Dialog'
    BY <1>0, <2>1 DEF Pane!NoDialog
  <2> QED
    BY <1>0, <1>k, <2>1, <2>2
<1>12. ASSUME NEW op, Pane!OnDone(op) PROVE PaneInv'
  <2>1. Pane!RefreshTo(path[active]) /\ UNCHANGED <<active, path, rows, chosen, confirm, prompt>>
    BY <1>12 DEF Pane!OnDone
  <2>2. path[active] \in Dirs
    BY <1>0
  <2>3. /\ lists' \in [OneTab \X Dirs -> Nat] /\ adrift' \in [OneTab -> BOOLEAN]
        /\ \A t \in OneTab : Pane!Underway(t) => Pane!Underway(t)'
        /\ \A t \in OneTab : t # active => adrift'[t] = adrift[t]
        /\ adrift[active] => adrift'[active]
    BY <2>1, <2>2, PaneAsks
  <2>4. Types'
    BY <1>0, <2>1, <2>3
  <2>5. \A t \in OneTab : Pane!Underway(t)' \/ adrift'[t] \/ rows'[t] = Pane!In(path'[t], rows'[t])
    BY <1>r, <2>1, <2>3
  <2>6. Dialog'
    BY <1>0, <2>1 DEF Pane!NoDialog
  <2> QED
    BY <1>i, <2>4, <2>5, <2>6
<1> QED
  BY <1>u, <1>1, <1>2, <1>3, <1>4, <1>5, <1>6, <1>7, <1>8, <1>9, <1>10, <1>11, <1>12 DEF Pane!PanelNext

------------------------------------------------------------------------------
(* The local pane.                                                          *)

\* Rows are numbered from one.
Numbered(r) == \E n \in Nat : DOMAIN r = 1 .. n

\* A finite set's elements, in the pane's order, are numbered from one.
LEMMA SortedRows == ASSUME NEW S, IsFiniteSet(S), NEW asc PROVE Numbered(Local!Sorted(S, asc))
<1>1. Cardinality(S) \in Nat
  BY FS_CardinalityType
<1>2. DOMAIN Local!Sorted(S, asc) = 1 .. Local!Cardinality(S)
  BY DEF Local!Sorted
<1>3. Local!Cardinality(S) = Cardinality(S)
  BY DEF Local!Cardinality, Cardinality
<1> QED
  BY <1>1, <1>2, <1>3 DEF Numbered

\* What numbered rows hold is finite.
LEMMA RowsFinite == ASSUME NEW r, Numbered(r) PROVE IsFiniteSet(Local!Range(r))
<1>1. PICK n \in Nat : DOMAIN r = 1 .. n
  BY DEF Numbered
<1>2. IsFiniteSet(1 .. n)
  BY <1>1, FS_Interval
<1> DEFINE T == {r[x] : x \in 1 .. n}
           f == [x \in 1 .. n |-> r[x]]
<1>3. f \in Surjection(1 .. n, T)
  BY DEF Surjection
<1>4. IsFiniteSet(T)
  BY <1>2, <1>3, FS_Surjection
<1> QED
  BY <1>1, <1>4 DEF Local!Range

\* There are finitely many entries.
LEMMA EntriesFinite == IsFiniteSet(Local!Entries)
<1>1. IsFiniteSet(Dirs) /\ IsFiniteSet(LocalNames)
  BY DeskAssumption
<1>2. IsFiniteSet(Dirs \X LocalNames)
  BY <1>1, FS_Product
<1> DEFINE T == {[dir |-> x[1], name |-> x[2]] : x \in Dirs \X LocalNames}
           f == [x \in Dirs \X LocalNames |-> [dir |-> x[1], name |-> x[2]]]
<1>a. f \in Surjection(Dirs \X LocalNames, T)
  BY DEF Surjection
<1>3. IsFiniteSet(T)
  BY <1>2, <1>a, FS_Surjection
<1>4. Local!Entries \subseteq T
  <2> SUFFICES ASSUME NEW e \in Local!Entries PROVE e \in T
    OBVIOUS
  <2>1. e = [dir |-> e.dir, name |-> e.name] /\ <<e.dir, e.name>> \in Dirs \X LocalNames
    BY DEF Local!Entries
  <2> QED
    BY <2>1
<1> QED
  BY <1>3, <1>4, FS_Subset

\* The pane's selection is one of its rows, and those the user picked.
LocalInv ==
  /\ IsFiniteSet(files)
  /\ Numbered(listed)
  /\ Local!SelectionIsPicked /\ Local!DeleteReachesNamed

\* The local pane opens empty.
LEMMA LocalFirst == Local!PaneInit => LocalInv
<1> SUFFICES ASSUME Local!PaneInit PROVE LocalInv
  OBVIOUS
<1>1. listed = <<>> /\ marked = {} /\ anchor = 0 /\ named = {} /\ picked = {} /\ files \in SUBSET Local!Entries
  BY DEF Local!PaneInit
<1>3. IsFiniteSet(files)
  BY <1>1, EntriesFinite, FS_Subset
<1>2. Numbered(listed)
  BY <1>1 DEF Numbered
<1> QED
  BY <1>1, <1>2, <1>3 DEF LocalInv, Local!SelectionIsPicked, Local!DeleteReachesNamed, Local!Targets

\* Reading a directory again numbers the rows anew, and selects none.
LEMMA RereadFacts ==
  ASSUME NEW d, NEW there, IsFiniteSet(there), Local!Reread(d, there)
  PROVE  Numbered(listed') /\ Local!SelectionIsPicked' /\ Local!DeleteReachesNamed'
<1>1. Numbered(listed')
  <2>1. CASE listed' = Local!Sorted({e \in there : e.dir = d}, remoteAsc)
    <3>1. IsFiniteSet({e \in there : e.dir = d})
      BY FS_Subset
    <3> QED
      BY <2>1, <3>1, SortedRows
  <2>2. CASE listed' = <<>>
    BY <2>2 DEF Numbered
  <2> QED
    BY <2>1, <2>2 DEF Local!Reread
<1>2. marked' = {} /\ anchor' = 0 /\ picked' = {}
  BY DEF Local!Reread, Local!Unselected
<1> QED
  BY <1>1, <1>2 DEF Local!SelectionIsPicked, Local!DeleteReachesNamed, Local!Targets

\* A click selects rows, which are the ones the user picks.
LEMMA ClickFacts ==
  ASSUME LocalInv, NEW i \in DOMAIN listed, NEW toggle \in BOOLEAN, NEW range \in BOOLEAN,
         Local!SelectClick(i, toggle, range), listed' = listed
  PROVE  Local!SelectionIsPicked'
<1>1. PICK n \in Nat : DOMAIN listed = 1 .. n
  BY DEF LocalInv, Numbered
<1>2. marked \subseteq 1 .. n /\ anchor \in {0} \cup 1 .. n /\ i \in 1 .. n
  BY <1>1 DEF LocalInv, Local!SelectionIsPicked
<1>3. picked' = {listed[k] : k \in marked'}
  BY DEF Local!SelectClick
<1>4. marked' \subseteq 1 .. n /\ anchor' \in {0} \cup 1 .. n
  <2>1. CASE range /\ anchor # 0
    <3>1. marked' = (IF anchor <= i THEN anchor .. i ELSE i .. anchor) /\ anchor' = anchor
      BY <2>1 DEF Local!SelectClick
    <3> QED
      BY <1>1, <1>2, <2>1, <3>1
  <2>2. CASE ~(range /\ anchor # 0)
    <3>1. anchor' = i /\ marked' = (IF ~toggle THEN {i} ELSE IF i \in marked THEN marked \ {i} ELSE marked \cup {i})
      BY <2>2 DEF Local!SelectClick
    <3> QED
      BY <1>2, <3>1
  <2> QED
    BY <2>1, <2>2
<1>5. Local!Targets' = picked'
  BY <1>1, <1>3, <1>4 DEF Local!Targets
<1> QED
  BY <1>1, <1>4, <1>5 DEF Local!SelectionIsPicked

\* A step of the pane keeps its selection what the user picked.
LEMMA LocalStep == LocalInv /\ [Local!PaneNext]_localVars => LocalInv'
<1> SUFFICES ASSUME LocalInv, [Local!PaneNext]_localVars PROVE LocalInv'
  OBVIOUS
<1>0. /\ IsFiniteSet(files) /\ Numbered(listed)
      /\ Local!SelectionIsPicked /\ Local!DeleteReachesNamed
  BY DEF LocalInv
<1>k. ASSUME UNCHANGED <<files, listed, marked, anchor, picked>>, named' \in {{}, named, Local!Targets} PROVE LocalInv'
  BY <1>0, <1>k DEF LocalInv, Numbered, Local!SelectionIsPicked, Local!DeleteReachesNamed, Local!Targets
<1>r. ASSUME NEW d, Local!Reread(d, files'), IsFiniteSet(files') PROVE LocalInv'
  BY <1>r, RereadFacts DEF LocalInv
<1>u. CASE UNCHANGED localVars
  BY <1>u, <1>k DEF localVars
<1>1. CASE Local!CloseMenu \/ Local!CancelPrompt \/ Local!SetRemoteSort \/ Local!AskDelete \/ Local!CancelDelete
  BY <1>1, <1>k DEF Local!CloseMenu, Local!CancelPrompt, Local!SetRemoteSort, Local!AskDelete, Local!CancelDelete
<1>2. ASSUME NEW rename, Local!OpenPrompt(rename) PROVE LocalInv'
  BY <1>2, <1>k DEF Local!OpenPrompt
<1>3. ASSUME NEW name \in LocalNames, Local!ConfirmPrompt(name) PROVE LocalInv'
  <2>1. Local!Reread(folder, files')
    BY <1>3 DEF Local!ConfirmPrompt
  <2>2. PICK new, old : files' \in {files, files \cup {new}, (files \ {old}) \cup {new}}
    BY <1>3 DEF Local!ConfirmPrompt
  <2>3. IsFiniteSet(files \cup {new}) /\ IsFiniteSet(files \ {old})
    BY <1>0, FS_AddElement, FS_RemoveElement
  <2>4. IsFiniteSet((files \ {old}) \cup {new})
    BY <2>3, FS_AddElement
  <2>5. IsFiniteSet(files')
    BY <1>0, <2>2, <2>3, <2>4
  <2> QED
    BY <1>r, <2>1, <2>5
<1>4. CASE Local!Refresh
  BY <1>0, <1>4, <1>r DEF Local!Refresh
<1>5. CASE Local!SetSort
  <2>1. /\ listed' = Local!Sorted(Local!Range(listed), ascending') /\ Local!Unselected
        /\ named = {} /\ UNCHANGED <<files, named>>
    BY <1>5 DEF Local!SetSort, Local!NoDialog
  <2>2. IsFiniteSet(Local!Range(listed))
    BY <1>0, RowsFinite
  <2>3. Numbered(listed')
    BY <2>1, <2>2, SortedRows
  <2> QED
    BY <1>0, <2>1, <2>3 DEF LocalInv, Local!Unselected, Local!SelectionIsPicked, Local!DeleteReachesNamed, Local!Targets
<1>6. CASE Local!ConfirmDelete
  <2>1. Local!Reread(folder, files')
    BY <1>6 DEF Local!ConfirmDelete
  <2>2. PICK gone : files' = files \ gone
    BY <1>6 DEF Local!ConfirmDelete
  <2>3. IsFiniteSet(files')
    BY <1>0, <2>2, FS_Subset
  <2> QED
    BY <2>1, <2>3, <1>r
<1>7. CASE Local!Outside
  <2>1. /\ UNCHANGED <<listed, marked, anchor, picked, named>>
        /\ \E e \in Local!Entries : files' = IF e \in files THEN files \ {e} ELSE files \cup {e}
    BY <1>7 DEF Local!Outside
  <2>2. PICK e : files' = IF e \in files THEN files \ {e} ELSE files \cup {e}
    BY <2>1
  <2>3. IsFiniteSet(files')
    BY <1>0, <2>2, FS_AddElement, FS_RemoveElement
  <2> QED
    BY <1>0, <2>1, <2>3 DEF LocalInv, Numbered, Local!SelectionIsPicked, Local!DeleteReachesNamed, Local!Targets
<1>8. ASSUME NEW d, Local!EditPath(d) PROVE LocalInv'
  BY <1>8, <1>k DEF Local!EditPath
<1>e. ASSUME NEW d, Local!Enter(d) PROVE LocalInv'
  BY <1>0, <1>e, <1>r DEF Local!Enter
<1>9. ASSUME NEW d, Local!Parent(d) PROVE LocalInv'
  BY <1>9, <1>e DEF Local!Parent
<1>10. ASSUME NEW i \in DOMAIN listed, Local!OpenMenu(i) PROVE LocalInv'
  <2>1. named = {} /\ UNCHANGED <<files, listed, named>>
    BY <1>10 DEF Local!OpenMenu, Local!NoDialog
  <2>2. CASE i \in marked
    BY <1>10, <1>k, <2>1, <2>2 DEF Local!OpenMenu
  <2>3. CASE i \notin marked
    <3>1. Local!SelectClick(i, FALSE, FALSE)
      BY <1>10, <2>3 DEF Local!OpenMenu
    <3>2. FALSE \in BOOLEAN
      OBVIOUS
    <3>3. Local!SelectionIsPicked'
      BY <2>1, <3>1, <3>2, ClickFacts
    <3> QED
      BY <1>0, <2>1, <3>3 DEF LocalInv, Numbered, Local!DeleteReachesNamed
  <2> QED
    BY <2>2, <2>3
<1>11. ASSUME NEW i \in DOMAIN listed, NEW toggle \in BOOLEAN, NEW range \in BOOLEAN, NEW quick \in BOOLEAN,
              Local!Click(i, toggle, range, quick)
       PROVE  LocalInv'
  <2>1. CASE \E d : Local!Enter(d)
    BY <1>e, <2>1
  <2>2. CASE Local!SelectClick(i, toggle, range) /\ UNCHANGED <<files, listed, named>>
    <3>1. named = {}
      BY <1>11 DEF Local!Click, Local!NoDialog
    <3>2. Local!SelectionIsPicked'
      BY <2>2, ClickFacts
    <3> QED
      BY <1>0, <2>2, <3>1, <3>2 DEF LocalInv, Numbered, Local!DeleteReachesNamed
  <2> QED
    BY <1>11, <2>1, <2>2 DEF Local!Click
<1> QED
  BY <1>u, <1>1, <1>2, <1>3, <1>4, <1>5, <1>6, <1>7, <1>8, <1>9, <1>10, <1>11 DEF Local!PaneNext

------------------------------------------------------------------------------
(* The resource rail.                                                       *)

\* As many things as there are free slots find one each.
LEMMA OneEach ==
  ASSUME NEW S, NEW T, IsFiniteSet(S), IsFiniteSet(T), Cardinality(S) <= Cardinality(T)
  PROVE  \E f \in [S -> T] : \A j, k \in S : f[j] = f[k] => j = k
<1>1. /\ Cardinality(S) \in Nat /\ ExistsBijection(1 .. Cardinality(S), S)
      /\ Cardinality(T) \in Nat /\ ExistsBijection(1 .. Cardinality(T), T)
  BY FS_CardinalityType
<1>2. ExistsInjection(1 .. Cardinality(S), 1 .. Cardinality(T))
  BY <1>1, Fun_NatInjLeq
<1>3. ExistsInjection(S, 1 .. Cardinality(S)) /\ ExistsInjection(1 .. Cardinality(T), T)
  BY <1>1, Fun_ExistsBijEquiv
<1>4. ExistsInjection(S, 1 .. Cardinality(T))
  BY <1>2, <1>3, Fun_ExistsInjTransitive
<1>5. ExistsInjection(S, T)
  BY <1>3, <1>4, Fun_ExistsInjTransitive
<1> QED
  BY <1>5 DEF ExistsInjection, Injection, IsInjective

\* The slots are finite, and the cardinality of the rail is that of sets.
LEMMA RailSlots == IsFiniteSet(Slots)
BY DeskAssumption

\* A task that holds an answer holds counters, and without a connection there is none.
RailTasks ==
  /\ \A s \in Slots : sampling[s].kind # "none" /\ sampling[s].stage = "answered" => sampling[s].seen \in Rail!Counters
  /\ online \/ \A s \in Slots : sampling[s] = Rail!Idle
RailInv ==
  /\ counters \in Rail!Counters /\ sample \in Rail!Counters \cup {Rail!NoSample} /\ charted \in Nat /\ first \in Nat
  /\ disorder \in BOOLEAN
  /\ sampling = [s \in Slots |-> sampling[s]]
  /\ RailTasks
  /\ sample = Rail!NoSample => charted = 0
  /\ Rail!ChartAddsUp /\ Rail!TableFollowsPanel

\* The rail starts without a sample.
LEMMA RailFirst == Rail!MonitorInit => RailInv
<1> SUFFICES ASSUME Rail!MonitorInit PROVE RailInv
  OBVIOUS
<1>1. counters \in Rail!Counters
  BY DEF Rail!MonitorInit, Booted, Rail!Counters
<1>2. RailTasks /\ sampling = [s \in Slots |-> sampling[s]]
  BY DEF Rail!MonitorInit, RailTasks, Rail!Idle, Rail!None
<1>3. Rail!ChartAddsUp /\ Rail!TableFollowsPanel
  BY DEF Rail!MonitorInit, Rail!ChartAddsUp, Rail!TableFollowsPanel, Rail!None
<1> QED
  BY <1>1, <1>2, <1>3 DEF Rail!MonitorInit, RailInv

\* The tasks a command becomes take free slots, and one that was refused is remembered.
LEMMA RailSpawns ==
  ASSUME NEW kinds, IsFiniteSet(kinds), "none" \notin kinds, Rail!Spawn(kinds), sampling = [s \in Slots |-> sampling[s]]
  PROVE  /\ sampling' = [s \in Slots |-> sampling'[s]]
         /\ \A s \in Slots : \/ sampling'[s] = sampling[s]
                             \/ sampling[s] = Rail!Idle /\ \E k \in kinds : sampling'[s] = [kind |-> k, stage |-> "asked"]
         /\ dropped => dropped'
         /\ \A k \in kinds : k = "processes" => dropped' \/ \E s \in Slots : sampling'[s].kind = "processes"
<1>1. PICK taken \in SUBSET kinds :
        LET free == {s \in Slots : sampling[s] = Rail!Idle}
            at == CHOOSE f \in [taken -> free] : \A j, k \in taken : f[j] = f[k] => j = k
        IN
        /\ Rail!Cardinality(taken) <= Rail!Cardinality(free)
        /\ sampling' = [s \in Slots |-> IF \E k \in taken : at[k] = s
                                    THEN [kind |-> CHOOSE k \in taken : at[k] = s, stage |-> "asked"] ELSE sampling[s]]
        /\ dropped' = (dropped \/ "processes" \in kinds \ taken)
  BY DEF Rail!Spawn
<1> DEFINE free == {s \in Slots : sampling[s] = Rail!Idle}
           at == CHOOSE f \in [taken -> free] : \A j, k \in taken : f[j] = f[k] => j = k
           who(s) == CHOOSE k \in taken : at[k] = s
<1>2. IsFiniteSet(taken) /\ IsFiniteSet(free)
  BY RailSlots, FS_Subset
<1>3. Cardinality(taken) <= Cardinality(free)
  BY <1>1 DEF Rail!Cardinality, Cardinality
<1>4. \E f \in [taken -> free] : \A j, k \in taken : f[j] = f[k] => j = k
  BY <1>2, <1>3, OneEach
<1>5. at \in [taken -> free] /\ \A j, k \in taken : at[j] = at[k] => j = k
  BY <1>4
<1>6. /\ sampling' = [s \in Slots |-> IF \E k \in taken : at[k] = s THEN [kind |-> who(s), stage |-> "asked"] ELSE sampling[s]]
      /\ dropped' = (dropped \/ "processes" \in kinds \ taken)
  BY <1>1
<1>7. \A s : (\E k \in taken : at[k] = s) => who(s) \in taken /\ at[who(s)] = s
  OBVIOUS
<1>8. free \subseteq Slots /\ \A s \in free : sampling[s] = Rail!Idle
  OBVIOUS
<1> HIDE DEF free, at, who
<1>9. ASSUME NEW s \in Slots
      PROVE  \/ sampling'[s] = sampling[s]
             \/ sampling[s] = Rail!Idle /\ \E k \in kinds : sampling'[s] = [kind |-> k, stage |-> "asked"]
  <2>1. CASE \E k \in taken : at[k] = s
    <3>1. sampling'[s] = [kind |-> who(s), stage |-> "asked"] /\ who(s) \in kinds
      BY <1>6, <1>7, <2>1
    <3>2. s \in free
      BY <1>5, <2>1
    <3> QED
      BY <1>8, <3>1, <3>2
  <2>2. CASE ~ \E k \in taken : at[k] = s
    BY <1>6, <2>2
  <2> QED
    BY <2>1, <2>2
<1>10. ASSUME "processes" \in taken PROVE \E s \in Slots : sampling'[s].kind = "processes"
  <2> DEFINE s == at["processes"]
  <2>1. s \in Slots
    BY <1>5, <1>8, <1>10
  <2>2. who(s) \in taken /\ at[who(s)] = at["processes"]
    BY <1>7, <1>10
  <2>3. who(s) = "processes"
    BY <1>5, <1>10, <2>2
  <2>4. sampling'[s] = [kind |-> who(s), stage |-> "asked"]
    BY <1>6, <1>10, <2>1
  <2> QED
    BY <2>1, <2>3, <2>4
<1>11. sampling' = [s \in Slots |-> sampling'[s]]
  BY <1>6
<1> QED
  BY <1>6, <1>9, <1>10, <1>11

\* What a spawn leaves of the tasks, of the chart and of the table.
LEMMA RailKeeps ==
  ASSUME RailInv, online, NEW kinds, kinds \in {{"metrics"}, {"processes"}, {"metrics", "processes", "ports"}},
         Rail!Spawn(kinds), UNCHANGED <<counters, online, sample, charted, first, disorder, table>>,
         panel' = panel \/ "processes" \in kinds
  PROVE  RailInv'
<1>1. IsFiniteSet(kinds) /\ "none" \notin kinds
  <2>1. IsFiniteSet({"metrics"}) /\ IsFiniteSet({"processes"}) /\ IsFiniteSet({"ports"})
    BY FS_Singleton
  <2>2. IsFiniteSet({"metrics"} \cup {"processes"})
    BY <2>1, FS_AddElement
  <2>3. IsFiniteSet(({"metrics"} \cup {"processes"}) \cup {"ports"})
    BY <2>2, FS_AddElement
  <2>4. ({"metrics"} \cup {"processes"}) \cup {"ports"} = {"metrics", "processes", "ports"}
    OBVIOUS
  <2> QED
    BY <2>1, <2>3, <2>4
<1>2. sampling = [s \in Slots |-> sampling[s]]
  BY DEF RailInv
<1>3. /\ sampling' = [s \in Slots |-> sampling'[s]]
      /\ \A s \in Slots : \/ sampling'[s] = sampling[s]
                          \/ sampling[s] = Rail!Idle /\ \E k \in kinds : sampling'[s] = [kind |-> k, stage |-> "asked"]
      /\ dropped => dropped'
      /\ \A k \in kinds : k = "processes" => dropped' \/ \E s \in Slots : sampling'[s].kind = "processes"
  BY <1>1, <1>2, RailSpawns
<1>4. RailTasks'
  BY <1>3 DEF RailInv, RailTasks
<1>5. Rail!TableFollowsPanel'
  <2>1. CASE "processes" \in kinds
    BY <1>3, <2>1 DEF RailInv, Rail!TableFollowsPanel, Rail!None
  <2>2. CASE "processes" \notin kinds
    BY <1>3, <2>2 DEF RailInv, Rail!TableFollowsPanel, Rail!Idle, Rail!None
  <2> QED
    BY <2>1, <2>2
<1>6. Rail!ChartAddsUp'
  BY DEF RailInv, Rail!ChartAddsUp
<1> QED
  BY <1>3, <1>4, <1>5, <1>6 DEF RailInv

\* A task is given up, or its answer taken; the table is right still.
LEMMA RailTakes ==
  ASSUME RailInv, NEW s \in Slots, sampling' = [sampling EXCEPT ![s] = Rail!Idle], UNCHANGED <<online, panel>>,
         \/ dropped' /\ table' = table
         \/ (dropped => dropped') /\ table' = table /\ sampling[s].kind # "processes"
         \/ online /\ table' = Rail!ProcessOrder
  PROVE  sampling' = [u \in Slots |-> sampling'[u]] /\ RailTasks' /\ Rail!TableFollowsPanel'
<1>1. sampling = [u \in Slots |-> sampling[u]] /\ RailTasks /\ Rail!TableFollowsPanel
  BY DEF RailInv
<1>2. sampling' = [u \in Slots |-> sampling'[u]]
  BY <1>1
<1>3. \A u \in Slots : sampling'[u] = IF u = s THEN Rail!Idle ELSE sampling[u]
  BY <1>1
<1>4. RailTasks'
  BY <1>1, <1>3 DEF RailTasks, Rail!Idle, Rail!None
<1>5. Rail!TableFollowsPanel'
  BY <1>1, <1>3 DEF Rail!TableFollowsPanel, Rail!Idle, Rail!None, Rail!ProcessOrder
<1> QED
  BY <1>2, <1>4, <1>5

\* A step of the rail keeps the chart and the table right.
LEMMA RailStep == RailInv /\ [Rail!MonitorNext]_railVars => RailInv'
<1> SUFFICES ASSUME RailInv, [Rail!MonitorNext]_railVars PROVE RailInv'
  OBVIOUS
<1>0. /\ counters \in Rail!Counters /\ sample \in Rail!Counters \cup {Rail!NoSample} /\ charted \in Nat /\ first \in Nat
      /\ disorder \in BOOLEAN
      /\ sampling = [s \in Slots |-> sampling[s]]
      /\ RailTasks
      /\ sample = Rail!NoSample => charted = 0
      /\ Rail!ChartAddsUp /\ Rail!TableFollowsPanel
  BY DEF RailInv
<1>c. ASSUME UNCHANGED <<sample, charted, first, disorder>> PROVE Rail!ChartAddsUp'
  BY <1>0, <1>c DEF Rail!ChartAddsUp
<1>u. CASE UNCHANGED railVars
  BY <1>0, <1>u DEF railVars, RailInv, RailTasks, Rail!ChartAddsUp, Rail!TableFollowsPanel
<1>1. ASSUME NEW idle \in 0 .. 1, Rail!Work(idle) PROVE RailInv'
  <2>1. counters' = [total |-> counters.total + 1, idle |-> counters.idle + idle, bytes |-> counters.bytes + 1 - idle]
    BY <1>1 DEF Rail!Work
  <2>2. counters.total \in Nat /\ counters.idle \in Nat /\ counters.bytes \in Nat
    BY <1>0 DEF Rail!Counters
  <2>3. counters.total + 1 \in Nat /\ counters.idle + idle \in Nat /\ counters.bytes + 1 - idle \in Nat
    BY <2>2
  <2>4. counters' \in Rail!Counters
    BY <2>1, <2>3 DEF Rail!Counters
  <2> QED
    BY <1>0, <1>1, <1>c, <2>4 DEF Rail!Work, RailInv, RailTasks, Rail!TableFollowsPanel
<1>2. CASE Rail!MetricsTick
  <2> DEFINE kinds == IF panel = Rail!None THEN {"metrics"} ELSE {"metrics", "processes", "ports"}
  <2>1. /\ online /\ Rail!Spawn(kinds) /\ UNCHANGED <<counters, online, sample, charted, first, disorder, table>>
        /\ panel' = panel
    BY <1>2 DEF Rail!MetricsTick
  <2>2. kinds \in {{"metrics"}, {"processes"}, {"metrics", "processes", "ports"}}
    OBVIOUS
  <2> QED
    BY <2>1, <2>2, RailKeeps
<1>3. ASSUME NEW p \in Rail!Panels, Rail!Select(p) PROVE RailInv'
  <2>1. UNCHANGED <<counters, online, sample, charted, first, disorder, table>>
    BY <1>3 DEF Rail!Select
  <2>2. CASE online
    <3>1. Rail!Spawn({"processes"})
      BY <1>3, <2>2 DEF Rail!Select
    <3>2. {"processes"} \in {{"metrics"}, {"processes"}, {"metrics", "processes", "ports"}}
      OBVIOUS
    <3> QED
      BY <2>1, <2>2, <3>1, <3>2, RailKeeps
  <2>3. CASE ~online
    <3>1. UNCHANGED <<sampling, dropped>>
      BY <1>3, <2>3 DEF Rail!Select
    <3> QED
      BY <1>0, <1>c, <2>1, <2>3, <3>1 DEF RailInv, RailTasks, Rail!TableFollowsPanel
  <2> QED
    BY <2>2, <2>3
<1>4. CASE Rail!CloseDetail
  BY <1>0, <1>4, <1>c DEF Rail!CloseDetail, RailInv, RailTasks, Rail!TableFollowsPanel
<1>5. ASSUME NEW s \in Slots, Rail!Run(s) PROVE RailInv'
  <2>1. /\ sampling[s].kind # Rail!None /\ UNCHANGED <<counters, online, panel, sample, charted, first, disorder, table>>
    BY <1>5 DEF Rail!Run
  <2>2. CASE sampling' = [sampling EXCEPT ![s] = Rail!Idle] /\ dropped' = (dropped \/ sampling[s].kind = "processes")
    <3>1. \/ dropped' /\ table' = table
          \/ (dropped => dropped') /\ table' = table /\ sampling[s].kind # "processes"
      BY <2>1, <2>2
    <3>2. sampling' = [u \in Slots |-> sampling'[u]] /\ RailTasks' /\ Rail!TableFollowsPanel'
      BY <2>1, <2>2, <3>1, RailTakes
    <3> QED
      BY <1>0, <1>c, <2>1, <3>2 DEF RailInv
  <2>3. ASSUME NEW sections, dropped' = dropped,
               sampling' = [sampling EXCEPT ![s] = [kind |-> @.kind, stage |-> "answered", seen |-> Rail!ParseSample(sections)]]
        PROVE  RailInv'
    <3> DEFINE seen == Rail!ParseSample(sections)
    <3>1. seen \in Rail!Counters
      BY <1>0 DEF Rail!ParseSample, Rail!Counters
    <3> HIDE DEF seen
    <3>2. /\ sampling' = [u \in Slots |-> sampling'[u]]
          /\ \A u \in Slots : sampling'[u] = IF u = s THEN [kind |-> sampling[s].kind, stage |-> "answered", seen |-> seen]
                                             ELSE sampling[u]
      BY <1>0, <2>3 DEF seen
    <3>3. online
      BY <1>0, <2>1 DEF RailTasks, Rail!Idle
    <3>4. RailTasks'
      BY <1>0, <2>1, <3>1, <3>2, <3>3 DEF RailTasks
    <3>5. \A u \in Slots : sampling'[u].kind = sampling[u].kind
      BY <3>2
    <3>6. Rail!TableFollowsPanel'
      BY <1>0, <2>1, <2>3, <3>5 DEF Rail!TableFollowsPanel
    <3> QED
      BY <1>0, <1>c, <2>1, <3>2, <3>4, <3>6 DEF RailInv
  <2> QED
    BY <1>5, <2>2, <2>3 DEF Rail!Run
<1>6. ASSUME NEW s \in Slots, Rail!OnMetrics(s) PROVE RailInv'
  <2> DEFINE seen == sampling[s].seen
  <2>1. /\ sampling[s].kind = "metrics" /\ sampling[s].stage = "answered"
        /\ sampling' = [sampling EXCEPT ![s] = Rail!Idle] /\ Rail!Chart(seen) /\ sample' = seen
        /\ disorder' = (disorder \/ (sample # Rail!NoSample /\ sample.bytes > seen.bytes))
        /\ UNCHANGED <<counters, online, panel, table, dropped>>
    BY <1>6 DEF Rail!OnMetrics, Rail!Showable
  <2>2. sampling' = [u \in Slots |-> sampling'[u]] /\ RailTasks' /\ Rail!TableFollowsPanel'
    BY <2>1, RailTakes
  <2>3. seen \in Rail!Counters /\ seen.bytes \in Nat
    BY <1>0, <2>1 DEF RailTasks, Rail!Counters
  <2>4. seen # Rail!NoSample
    BY <2>3 DEF Rail!Counters, Rail!NoSample
  <2>a. disorder' \in BOOLEAN
    BY <2>1
  <2> HIDE DEF seen
  <2>5. CASE sample = Rail!NoSample
    <3>1. first' = seen.bytes /\ charted' = charted
      BY <2>1, <2>5 DEF Rail!Chart
    <3>2. charted' = 0 /\ first' \in Nat
      BY <1>0, <2>3, <2>5, <3>1
    <3>3. Rail!ChartAddsUp'
      BY <2>1, <2>3, <3>1, <3>2 DEF Rail!ChartAddsUp
    <3> QED
      BY <1>0, <2>1, <2>2, <2>3, <2>4, <2>a, <3>2, <3>3 DEF RailInv
  <2>6. CASE sample # Rail!NoSample
    <3> DEFINE old == sample.bytes
               new == seen.bytes
    <3>1. charted' = charted + Rail!Sub(new, old) /\ first' = first
      BY <2>1, <2>6 DEF Rail!Chart, Rail!Rate
    <3>2. old \in Nat /\ new \in Nat
      BY <1>0, <2>3, <2>6 DEF Rail!Counters
    <3>3. charted + first >= old /\ (disorder \/ charted + first = old)
      BY <1>0, <2>6 DEF Rail!ChartAddsUp
    <3>4. disorder' = (disorder \/ old > new)
      BY <2>1, <2>6
    <3> HIDE DEF old, new
    <3>5. charted' \in Nat /\ first' \in Nat /\ charted' + first' >= new
      BY <1>0, <3>1, <3>2, <3>3 DEF Rail!Sub
    <3>6. CASE ~disorder' /\ ~disorder
      <4>1. ~ old > new /\ charted + first = old
        BY <3>3, <3>4, <3>6
      <4>2. charted' + first' = new
        BY <1>0, <3>1, <3>2, <4>1 DEF Rail!Sub
      <4> QED
        BY <1>0, <2>1, <2>2, <2>3, <2>4, <2>a, <3>5, <4>2 DEF RailInv, Rail!ChartAddsUp, new
    <3>7. CASE disorder' \/ disorder
      <4>1. disorder'
        BY <3>4, <3>7
      <4> QED
        BY <1>0, <2>1, <2>2, <2>3, <2>4, <2>a, <3>5, <4>1 DEF RailInv, Rail!ChartAddsUp, new
    <3> QED
      BY <3>6, <3>7
  <2> QED
    BY <2>5, <2>6
<1>7. ASSUME NEW s \in Slots, Rail!OnProcesses(s) PROVE RailInv'
  <2>1. /\ sampling[s].kind = "processes" /\ sampling' = [sampling EXCEPT ![s] = Rail!Idle] /\ table' = Rail!ProcessOrder
        /\ UNCHANGED <<counters, online, panel, sample, charted, first, disorder>>
    BY <1>7 DEF Rail!OnProcesses
  <2>2. online
    BY <1>0, <2>1 DEF RailTasks, Rail!Idle, Rail!None
  <2>3. sampling' = [u \in Slots |-> sampling'[u]] /\ RailTasks' /\ Rail!TableFollowsPanel'
    BY <2>1, <2>2, RailTakes
  <2> QED
    BY <1>0, <1>c, <2>1, <2>3 DEF RailInv
<1>8. ASSUME NEW s \in Slots, Rail!OnPorts(s) PROVE RailInv'
  <2>1. /\ sampling[s].kind = "ports" /\ sampling' = [sampling EXCEPT ![s] = Rail!Idle]
        /\ UNCHANGED <<counters, online, panel, sample, charted, first, disorder, table, dropped>>
    BY <1>8 DEF Rail!OnPorts
  <2>2. sampling' = [u \in Slots |-> sampling'[u]] /\ RailTasks' /\ Rail!TableFollowsPanel'
    BY <2>1, RailTakes
  <2> QED
    BY <1>0, <1>c, <2>1, <2>2 DEF RailInv
<1>9. CASE Rail!Lose
  <2>1. dropped' /\ UNCHANGED <<counters, online, panel, sample, charted, first, disorder, table>>
    BY <1>9 DEF Rail!Lose
  <2>2. PICK left \in SUBSET Slots : sampling' = [s \in Slots |-> IF s \in left THEN sampling[s] ELSE Rail!Idle]
    BY <1>9 DEF Rail!Lose
  <2>3. RailTasks' /\ sampling' = [s \in Slots |-> sampling'[s]]
    BY <1>0, <2>1, <2>2 DEF RailTasks, Rail!Idle, Rail!None
  <2>4. Rail!TableFollowsPanel'
    BY <1>0, <2>1 DEF Rail!TableFollowsPanel
  <2> QED
    BY <1>0, <1>c, <2>1, <2>3, <2>4 DEF RailInv
<1>10. CASE Rail!OnClosed
  <2>1. /\ \A s \in Slots : sampling[s] = Rail!Idle
        /\ online' = FALSE /\ table' = Rail!None /\ UNCHANGED <<counters, sampling, sample, charted, first, disorder>>
    BY <1>10 DEF Rail!OnClosed
  <2>2. RailTasks' /\ Rail!TableFollowsPanel'
    BY <1>0, <2>1 DEF RailTasks, Rail!TableFollowsPanel
  <2> QED
    BY <1>0, <1>c, <2>1, <2>2 DEF RailInv
<1>11. CASE Rail!Reconnect
  <2>1. ~online /\ online' /\ UNCHANGED <<panel, sampling, sample, charted, first, disorder, table>> /\ counters' \in Booted
    BY <1>11 DEF Rail!Reconnect
  <2>2. counters' \in Rail!Counters
    BY <2>1 DEF Booted, Rail!Counters
  <2>3. RailTasks' /\ Rail!TableFollowsPanel'
    BY <1>0, <2>1 DEF RailTasks, Rail!TableFollowsPanel
  <2> QED
    BY <1>0, <1>c, <2>1, <2>2, <2>3 DEF RailInv
<1> QED
  BY <1>u, <1>1, <1>2, <1>3, <1>4, <1>5, <1>6, <1>7, <1>8, <1>9, <1>10, <1>11 DEF Rail!MonitorNext

\* A sequence of T's.
LEMMA SequenceOf ==
  ASSUME NEW S, NEW s \in Seq(S), NEW T, \A i \in 1 .. Len(s) : s[i] \in T
  PROVE  s \in Seq(T)
<1>1. Len(s) \in Nat /\ s \in [1 .. Len(s) -> S]
  BY LenProperties
<1>2. s \in [1 .. Len(s) -> T]
  BY <1>1
<1> QED
  BY <1>1, <1>2, SeqDef

------------------------------------------------------------------------------
(* The machines together.                                                   *)

allVars == <<machine, vars, lineVars, storeVars, paneVars, viewVars, sizeVars, barVars, canvasVars,
             mouseVars, localVars, railVars>>

\* A step is one of one machine, the one the behaviour has picked; the others rest.
LEMMA OneMachine ==
  ASSUME [MCNext]_allVars
  PROVE  /\ machine' = machine
         /\ [Next]_vars /\ [Suggest!SuggestNext]_lineVars /\ [Store!HistoryNext]_storeVars
         /\ [View!ViewerNext]_viewVars /\ [Size!GridNext]_sizeVars /\ [Bar!TabsNext]_barVars
         /\ [Canvas!RenderNext]_canvasVars /\ [Local!PaneNext]_localVars /\ [Rail!MonitorNext]_railVars
         /\ machine = "panes" => [Panes!PanelNext]_paneVars
         /\ machine = "pane" => [Pane!PanelNext]_paneVars
         /\ machine = "press" => [Press!PointerNext]_mouseVars
         /\ machine = "select" => [Select!PointerNext]_mouseVars
BY DEF MCNext, allVars, OfSession, OfLine, OfStore, OfPane, OfView, OfSize, OfBar, OfCanvas, OfMouse,
       OfLocal, OfRail

\* The invariants of the machines.
DeskInv ==
  /\ LineInv /\ StoreInv /\ ViewInv /\ GridInv /\ BarInv /\ CanvasInv /\ LocalInv /\ RailInv
  /\ machine = "panes" => PanesInv
  /\ machine = "pane" => PaneInv
  /\ machine = "press" => PressInv
  /\ machine = "select" => SelectInv

\* They hold in the first state.
LEMMA DeskFirst == MCInit => DeskInv
BY LineFirst, StoreFirst, ViewFirst, GridFirst, BarFirst, CanvasFirst, LocalFirst, RailFirst, PanesFirst, PaneFirst,
   PressFirst, SelectFirst DEF MCInit, DeskInv

\* And a step keeps them.
LEMMA DeskStep == DeskInv /\ [MCNext]_allVars => DeskInv'
BY OneMachine, LineStep, StoreStep, ViewStep, GridStep, BarStep, CanvasStep, LocalStep, RailStep, PanesStep, PaneStep,
   PressStep, SelectStep DEF DeskInv

\* The machines' invariants hold throughout.
LEMMA DeskInvariant == MCSpec => []DeskInv
<1>1. MCSpec => [][MCNext]_allVars
  BY PTL DEF MCSpec, allVars
<1> QED
  BY <1>1, DeskFirst, DeskStep, PTL DEF MCSpec

\* The session among the machines is the session: it implements SessionWorker.
THEOREM SessionAmongMachines == MCSpec => Spec
<1>1. MCInit => Init
  BY DEF MCInit
<1>2. [MCNext]_allVars => [Next]_vars
  BY OneMachine
<1> QED
  BY <1>1, <1>2, PTL DEF MCSpec, Spec, allVars

\* The terminal has the size the app last worked out for its area, and once the channel is quiet
\* and no resize was dropped the remote PTY has the terminal's.
THEOREM GridSoundCorrect == MCSpec => []GridSound
<1>1. DeskInv => GridSound
  BY GridMeans DEF DeskInv
<1> QED
  BY <1>1, DeskInvariant, PTL

\* What the viewer shows, edits and saves is a text of its own file, its last page is the file's
\* end, and a page is not saved for a whole; a file read as empty, or not read, is exempt.
THEOREM ViewerSoundCorrect == MCSpec => []ViewerSound
<1>1. DeskInv => ViewerSound
  BY ViewMeans DEF DeskInv
<1> QED
  BY <1>1, DeskInvariant, PTL

\* Once the tasks are done, and unless a clear overtook one, the table is the newest part of the
\* history panel in its order and with its outputs if they ran in the order they were started in;
\* if not, it has as many rows and no command more often than the panel.
THEOREM DiskFollowsPanelCorrect == MCSpec => []DiskFollowsPanel
<1>1. DeskInv => DiskFollowsPanel
  BY StoreMeans DEF DeskInv
<1> QED
  BY <1>1, DeskInvariant, PTL

\* Until something reaches the shell that the app does not follow, its copy of the line is the
\* shell's; the queries are few; what the mouse has selected is what is tinted and copied, but for
\* Select All, and the remote program is told of a button that is down only while it is, unless a
\* release went astray.
THEOREM InputSoundCorrect == MCSpec => []InputSound
<1>1. DeskInv => InputSound
  BY LineMeans, PressMeans, SelectMeans DEF DeskInv, InputSound
<1> QED
  BY <1>1, DeskInvariant, PTL

\* Rows are those of their path unless a listing is due, failed or was lost; a delete of the local
\* pane reaches only what its dialog names, and one of the remote pane does with its own tab in front
\* and the pane at rest; the rail's charts and process table follow the samples.
THEOREM PaneSoundCorrect == MCSpec => []PaneSound
<1>1. DeskInv => PaneSound
  <2>1. LocalInv => Local!SelectionIsPicked /\ Local!DeleteReachesNamed
    BY DEF LocalInv
  <2>2. RailInv => Rail!ChartAddsUp /\ Rail!TableFollowsPanel
    BY DEF RailInv
  <2> QED
    BY <2>1, <2>2, PanesMeans, PaneMeans DEF DeskInv, PaneSound
<1> QED
  BY <1>1, DeskInvariant, PTL

\* Three things no step does: take a tab that the user disconnected back into a connection, move
\* the focus when a background tab goes, draw a frame of the terminal as it was.
THEOREM DeskStepsCorrect == MCSpec => DeskSteps
<1> DEFINE Focus == \A i \in 1 .. Len(sessions) : Bar!Finalize(i) /\ i # front => sessions'[front'] = Bar!InFront
           Frame == Canvas!View => drawn' = Canvas!Paint(cells)
<1>1. DeskInv => Focus
  BY FinalizeFacts DEF DeskInv
<1>2. DeskInv => Frame
  BY FrameFacts DEF DeskInv
<1> HIDE DEF Focus, Frame
<1>3. MCSpec => [][Focus]_Bar!tabVars
  BY <1>1, DeskInvariant, PTL
<1>4. MCSpec => [][Frame]_Canvas!renderVars
  BY <1>2, DeskInvariant, PTL
<1>5. MCSpec => UserDisconnectWins
  BY SessionAmongMachines, UserDisconnectWinsCorrect, PTL
<1> QED
  BY <1>3, <1>4, <1>5, PTL DEF DeskSteps, Bar!FocusStays, Canvas!FrameIsCurrent, Focus, Frame

==============================================================================
