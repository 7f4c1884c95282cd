---------------------------- MODULE DeskTypeProofs ----------------------------
(***************************************************************************)
(* The machines of the user interface keep their types, for all values of  *)
(* their bounds.  For every machine, <machine>Types is its state, bound by *)
(* bound; where a type alone is not inductive it holds what the type rests *)
(* on as well; and <machine>TypesMean says it implies the type the run     *)
(* checks.  DeskTypes, at the end, is all of them together.                *)
(***************************************************************************)
EXTENDS DeskProofs

------------------------------------------------------------------------------
(* The types of the tab bar.                                                *)

\* Each tab once, under a number that was given out; those that are closing are there.
BarTypes ==
  /\ opened \in 1 .. MaxTabs /\ muted \in BOOLEAN
  /\ Range(sessions) \subseteq 1 .. opened /\ IsInjective(sessions) /\ closing \subseteq Range(sessions)

\* At least one tab may be opened.
LEMMA TabBound == MaxTabs \in Nat \ {0}
<1>1. {MaxTabs} \subseteq Nat /\ MaxTabs # 0
  BY DeskAssumption
<1> QED
  BY <1>1

\* So the tabs are no more than were opened.
LEMMA BarTypesMean == BarInv /\ BarTypes => Bar!TypeOK
<1> SUFFICES ASSUME BarInv, BarTypes PROVE Bar!TypeOK
  OBVIOUS
<1> DEFINE n == Len(sessions)
           R == Range(sessions)
<1>1. n \in Nat /\ n > 0 /\ DOMAIN sessions = 1 .. n /\ sessions \in Seq(Nat) /\ front \in 1 .. n
  BY DEF BarInv
<1>2. MaxTabs \in Nat /\ opened \in Nat /\ opened \in 1 .. MaxTabs
  BY TabBound DEF BarTypes
<1>a. 1 .. opened \subseteq 1 .. MaxTabs
  BY <1>2
<1>3. R \subseteq 1 .. opened
  BY DEF BarTypes
<1>4. IsFiniteSet(R) /\ Cardinality(R) = n
  BY <1>1, InjectiveLength DEF BarTypes
<1>5. IsFiniteSet(1 .. opened) /\ Cardinality(1 .. opened) = opened
  BY <1>2, FS_Interval
<1>6. n <= opened
  BY <1>3, <1>4, <1>5, FS_Subset
<1>7. sessions \in Seq(1 .. MaxTabs)
  <2>1. \A i \in 1 .. n : sessions[i] \in R
    BY <1>1 DEF Range
  <2>2. R \subseteq 1 .. MaxTabs
    BY <1>3, <1>a
  <2> QED
    BY <1>1, <2>1, <2>2, SequenceOf
<1>8. Bar!IsInjective(sessions) /\ Bar!ToSet(sessions) = R
  BY DEF BarTypes, IsInjective, Range, Bar!IsInjective, Bar!ToSet
<1> HIDE DEF n, R
<1>9. n \in 1 .. MaxTabs
  BY <1>1, <1>2, <1>6
<1> QED
  BY <1>1, <1>2, <1>7, <1>8, <1>9 DEF BarTypes, Bar!TypeOK, Bar!Ids, n, R

\* A tab more.
LEMMA SpawnTypes ==
  ASSUME NEW rest \in Seq(Nat), opened \in Nat, Bar!Spawn(rest), Range(rest) \subseteq 1 .. opened,
         IsInjective(rest), muted' \in BOOLEAN, closing' \subseteq Range(rest)
  PROVE  BarTypes'
<1>1. opened' = opened + 1 /\ opened < MaxTabs /\ sessions' = Append(rest, opened')
  BY DEF Bar!Spawn
<1>2. MaxTabs \in Nat
  BY TabBound
<1>3. opened' \in Nat /\ opened' \in 1 .. MaxTabs /\ opened' \in 1 .. opened' /\ opened' \notin 1 .. opened
      /\ 1 .. opened \subseteq 1 .. opened'
  BY <1>1, <1>2
<1>4. Range(sessions') = Range(rest) \cup {opened'} /\ IsInjective(sessions')
  <2>1. opened' \notin Range(rest)
    BY <1>3
  <2> QED
    BY <1>1, <1>3, <2>1, AppendFacts
<1> QED
  BY <1>3, <1>4 DEF BarTypes

\* The app starts with one tab.
LEMMA BarTypesFirst == Bar!TabsInit => BarTypes
<1> SUFFICES ASSUME Bar!TabsInit PROVE BarTypes
  OBVIOUS
<1>1. 1 \in 1 .. MaxTabs
  BY TabBound
<1>2. sessions = <<1>> /\ opened = 1 /\ closing = {} /\ muted = FALSE
  BY DEF Bar!TabsInit
<1>3. DOMAIN sessions = 1 .. 1 /\ sessions[1] = 1
  BY <1>2
<1>4. Range(sessions) \subseteq 1 .. 1 /\ IsInjective(sessions)
  BY <1>3 DEF Range, IsInjective
<1> QED
  BY <1>1, <1>2, <1>4 DEF BarTypes

\* A step of the tab bar keeps each tab once.
LEMMA BarTypesStep == BarInv /\ BarTypes /\ [Bar!TabsNext]_barVars => BarTypes'
<1> SUFFICES ASSUME BarInv, BarTypes, [Bar!TabsNext]_barVars PROVE BarTypes'
  OBVIOUS
<1> DEFINE n == Len(sessions)
           R == Range(sessions)
<1>0. /\ n \in Nat /\ DOMAIN sessions = 1 .. n /\ sessions \in Seq(Nat) /\ opened \in Nat /\ muted \in BOOLEAN
      /\ R \subseteq 1 .. opened /\ IsInjective(sessions) /\ closing \subseteq R
  BY DEF BarInv, BarTypes
<1>i. \A i \in 1 .. n : sessions[i] \in R
  BY <1>0 DEF Range
<1>k. ASSUME UNCHANGED <<sessions, opened>>, muted' \in BOOLEAN, closing' \subseteq R PROVE BarTypes'
  BY <1>k DEF BarTypes
<1> HIDE DEF n, R
<1>u. CASE UNCHANGED barVars
  BY <1>0, <1>u, <1>k DEF barVars
<1>1. CASE Bar!NewTab
  BY <1>0, <1>1, SpawnTypes DEF Bar!NewTab, R
<1>2. CASE Bar!CloseLast
  <2> DEFINE none == <<>>
  <2>1. none \in Seq(Nat) /\ Range(none) = {} /\ IsInjective(none)
    BY EmptyFacts
  <2>2. Bar!Spawn(none) /\ closing' = {} /\ muted' = muted
    BY <1>2 DEF Bar!CloseLast
  <2> HIDE DEF none
  <2> QED
    BY <1>0, <2>1, <2>2, SpawnTypes
<1>3. CASE Bar!Overlay
  BY <1>0, <1>3, <1>k DEF Bar!Overlay
<1>4. ASSUME NEW i \in 1 .. n, Bar!SelectTab(i) PROVE BarTypes'
  BY <1>0, <1>4, <1>k DEF Bar!SelectTab
<1>5. ASSUME NEW i \in 1 .. n, Bar!CloseTab(i) PROVE BarTypes'
  BY <1>0, <1>i, <1>5, <1>k DEF Bar!CloseTab
<1>6. ASSUME NEW i \in 1 .. n, Bar!Finalize(i) PROVE BarTypes'
  <2> DEFINE rest == Bar!RemoveAt(sessions, i)
  <2>1. rest \in Seq(Nat) /\ Range(rest) = R \ {sessions[i]} /\ IsInjective(rest)
    BY <1>0, RemoveFacts DEF Bar!RemoveAt, n, R
  <2>2. /\ closing' = closing \ {sessions[i]} /\ muted' = muted
        /\ rest = <<>> => Bar!Spawn(rest)
        /\ rest # <<>> => sessions' = rest /\ opened' = opened
    BY <1>6 DEF Bar!Finalize
  <2> HIDE DEF rest
  <2>3. Range(rest) \subseteq 1 .. opened /\ closing' \subseteq Range(rest)
    BY <1>0, <2>1, <2>2
  <2>4. CASE rest = <<>>
    BY <1>0, <2>1, <2>2, <2>3, <2>4, SpawnTypes
  <2>5. CASE rest # <<>>
    <3>1. sessions' = rest /\ opened' = opened /\ muted' = muted
      BY <2>2, <2>5
    <3> QED
      BY <2>1, <2>3, <3>1 DEF BarTypes
  <2> QED
    BY <2>4, <2>5
<1> QED
  BY <1>u, <1>1, <1>2, <1>3, <1>4, <1>5, <1>6 DEF Bar!TabsNext, n

------------------------------------------------------------------------------
(* The types of the canvas.                                                 *)

\* A grid has one of the heights, and so has what is drawn.
Grids == UNION {Canvas!Grid(h) : h \in Heights}
CanvasTypes ==
  /\ cells \in Grids /\ generation \in 0 .. MaxChanges /\ search \in BOOLEAN /\ current \in 0 .. 1
  /\ snapshot \in {Canvas!Nothing} \cup Grids /\ made \in Canvas!Never .. MaxChanges
  /\ prev \in {Canvas!Nothing} \cup Grids /\ syncedGeneration \in Canvas!Never .. MaxChanges
  /\ DOMAIN drawn \in {{}} \cup {1 .. h : h \in Heights}

\* This is the canvas's type invariant.
LEMMA CanvasTypesMean == CanvasTypes => Canvas!TypeOK
BY DEF CanvasTypes, Canvas!TypeOK, Grids

\* There is a height, and a grid has it.
LEMMA GridHeights ==
  /\ Heights # {} /\ Heights \subseteq Nat /\ MaxChanges \in Nat
  /\ \A h \in Heights : Canvas!Blank(h) \in Grids
  /\ \A c \in Grids : \E h \in Heights : DOMAIN c = 1 .. h /\ Canvas!Cardinality(DOMAIN c) = h
<1>1. {MaxChanges} \subseteq Nat /\ Heights # {} /\ Heights \subseteq Nat
  BY DeskAssumption
<1>2. ASSUME NEW h \in Heights PROVE Canvas!Blank(h) \in Grids
  BY DEF Canvas!Blank, Canvas!Grid, Canvas!Chars, Grids
<1>3. ASSUME NEW h \in Heights PROVE Canvas!Cardinality(1 .. h) = h
  <2>1. h \in Nat
    BY <1>1
  <2>2. Cardinality(1 .. h) = h
    BY <2>1, FS_Interval
  <2> QED
    BY <2>2 DEF Canvas!Cardinality, Cardinality
<1>4. \A c \in Grids : \E h \in Heights : DOMAIN c = 1 .. h
  BY DEF Grids, Canvas!Grid
<1> QED
  BY <1>1, <1>2, <1>3, <1>4

\* The canvas starts with a blank grid.
LEMMA CanvasTypesFirst == Canvas!RenderInit => CanvasTypes
<1> SUFFICES ASSUME Canvas!RenderInit PROVE CanvasTypes
  OBVIOUS
<1>1. cells \in Grids
  BY GridHeights DEF Canvas!RenderInit
<1>2. MaxChanges \in Nat
  BY GridHeights
<1>3. DOMAIN drawn = {}
  BY DEF Canvas!RenderInit, Canvas!Nothing
<1>4. generation \in 0 .. MaxChanges /\ made \in Canvas!Never .. MaxChanges /\ syncedGeneration \in Canvas!Never .. MaxChanges
  BY <1>2 DEF Canvas!RenderInit, Canvas!Never
<1>5. search = FALSE /\ current = 0 /\ snapshot = Canvas!Nothing /\ prev = Canvas!Nothing
  BY DEF Canvas!RenderInit
<1>6. search \in BOOLEAN /\ snapshot \in {Canvas!Nothing} \cup Grids /\ prev \in {Canvas!Nothing} \cup Grids
  BY <1>5
<1>8. current \in 0 .. 1
  BY <1>5
<1>7. DOMAIN drawn \in {{}} \cup {1 .. h : h \in Heights}
  BY <1>3
<1> QED
  BY <1>1, <1>4, <1>6, <1>7, <1>8 DEF CanvasTypes

\* A step of the canvas draws a grid of one of the heights.
LEMMA CanvasTypesStep == CanvasInv /\ CanvasTypes /\ [Canvas!RenderNext]_canvasVars => CanvasTypes'
<1> SUFFICES ASSUME CanvasInv, CanvasTypes, [Canvas!RenderNext]_canvasVars PROVE CanvasTypes'
  OBVIOUS
<1>0. /\ cells \in Grids /\ generation \in 0 .. MaxChanges /\ search \in BOOLEAN /\ current \in 0 .. 1
      /\ snapshot \in {Canvas!Nothing} \cup Grids /\ made \in Canvas!Never .. MaxChanges
      /\ prev \in {Canvas!Nothing} \cup Grids /\ syncedGeneration \in Canvas!Never .. MaxChanges
      /\ DOMAIN drawn \in {{}} \cup {1 .. h : h \in Heights}
  BY DEF CanvasTypes
<1>g. MaxChanges \in Nat /\ 0 .. MaxChanges \subseteq Canvas!Never .. MaxChanges
  BY GridHeights DEF Canvas!Never
<1>q. ASSUME /\ cells' \in Grids /\ generation' \in 0 .. MaxChanges /\ search' \in BOOLEAN /\ current' \in 0 .. 1
             /\ snapshot' \in {Canvas!Nothing} \cup Grids /\ made' \in Canvas!Never .. MaxChanges
             /\ prev' \in {Canvas!Nothing} \cup Grids /\ syncedGeneration' \in Canvas!Never .. MaxChanges
             /\ DOMAIN drawn' \in {{}} \cup {1 .. h : h \in Heights}
      PROVE  CanvasTypes'
  BY <1>q DEF CanvasTypes
<1>u. CASE UNCHANGED canvasVars
  BY <1>0, <1>u, <1>q DEF canvasVars
<1>1. ASSUME NEW h \in Heights, Canvas!Change(h) PROVE CanvasTypes'
  <2>1. cells' \in Canvas!Grid(h) /\ generation < MaxChanges /\ generation' = generation + 1
        /\ UNCHANGED <<search, current, snapshot, made, prev, syncedGeneration, drawn>>
    BY <1>1 DEF Canvas!Change, Canvas!CacheSame
  <2>2. cells' \in Grids
    BY <2>1 DEF Grids
  <2>3. generation' \in 0 .. MaxChanges
    BY <1>0, <1>g, <2>1
  <2> QED
    BY <1>0, <1>q, <2>1, <2>2, <2>3
<1>2. CASE Canvas!ClearGrid
  <2>1. /\ cells' = Canvas!Blank(Canvas!Cardinality(DOMAIN cells)) /\ generation' = 0
        /\ snapshot' = Canvas!Nothing /\ made' = Canvas!Never /\ prev' = Canvas!Nothing /\ syncedGeneration' = 0
        /\ drawn' = Canvas!Nothing /\ UNCHANGED <<search, current>>
    BY <1>2 DEF Canvas!ClearGrid
  <2>2. cells' \in Grids
    BY <1>0, <2>1, GridHeights
  <2>3. DOMAIN drawn' = {}
    BY <2>1 DEF Canvas!Nothing
  <2>4. generation' \in 0 .. MaxChanges /\ made' \in Canvas!Never .. MaxChanges
    BY <1>g, <2>1 DEF Canvas!Never
  <2> QED
    BY <1>0, <1>g, <1>q, <2>1, <2>2, <2>3, <2>4
<1>3. CASE Canvas!Search
  <2>1. UNCHANGED <<cells, generation, snapshot, made, prev, syncedGeneration, drawn>>
    BY <1>3 DEF Canvas!Search, Canvas!CacheSame
  <2>2. search' \in BOOLEAN
    BY <1>0, <1>3 DEF Canvas!Search
  <2>3. current' = 0 \/ current' = 1 - current
    BY <1>3 DEF Canvas!Search
  <2>4. current' \in 0 .. 1
    BY <1>0, <2>3
  <2> QED
    BY <1>0, <1>q, <2>1, <2>2, <2>4
<1>4. CASE Canvas!View
  <2>1. prev' = cells /\ snapshot' = cells
    BY <1>4, FrameFacts
  <2>2. /\ made' = generation /\ syncedGeneration' = generation
        /\ UNCHANGED <<cells, generation, search, current>>
    BY <1>4 DEF Canvas!View
  <2>3. DOMAIN drawn' = DOMAIN cells
    BY <1>4, FrameFacts DEF Canvas!Paint
  <2>4. PICK h \in Heights : DOMAIN cells = 1 .. h
    BY <1>0, GridHeights
  <2> QED
    BY <1>0, <1>g, <1>q, <2>1, <2>2, <2>3, <2>4
<1> QED
  BY <1>u, <1>1, <1>2, <1>3, <1>4 DEF Canvas!RenderNext

------------------------------------------------------------------------------
(* The types of the history.                                                *)

\* The bounds of the history are numbers.
LEMMA StoreNumbers == SessionCap \in Nat /\ MaxCommands \in Nat
<1>1. {SessionCap, MaxCommands} \subseteq Nat
  BY DeskAssumption
<1> QED
  BY <1>1

\* A tab keeps commands, and no more than it may.
IsKept(commands) == commands \in Seq(Texts) /\ Len(commands) <= SessionCap

\* So it does when it keeps one more.
LEMMA KeepFacts ==
  ASSUME NEW commands, IsKept(commands), NEW c \in Texts
  PROVE  IsKept(Store!Keep(commands, c))
<1> DEFINE all == Append(commands, c)
           n == Len(all)
           k == IF n <= SessionCap THEN n ELSE SessionCap
           qs == SubSeq(all, n - k + 1, n)
<1>1. all \in Seq(Texts) /\ n \in Nat /\ SessionCap \in Nat
  BY StoreNumbers DEF IsKept
<1>2. k \in Nat /\ k <= n /\ k <= SessionCap
  BY <1>1
<1>3. Store!Min({n, SessionCap}) = k
  <2>1. \E m \in {n, SessionCap} : \A x \in {n, SessionCap} : m <= x
    BY <1>1
  <2>2. Store!Min({n, SessionCap}) \in {n, SessionCap} /\ \A x \in {n, SessionCap} : Store!Min({n, SessionCap}) <= x
    BY <2>1 DEF Store!Min
  <2> QED
    BY <1>1, <2>2
<1>4. Store!Keep(commands, c) \in {commands, qs}
  BY <1>3 DEF Store!Keep
<1> HIDE DEF all, k
<1>5. qs \in Seq(Texts) /\ Len(qs) = k
  <2>1. n - k + 1 \in 1 .. n + 1
    BY <1>1, <1>2
  <2>2. qs \in Seq(Texts)
    BY <1>1, <2>1
  <2>3. Len(qs) = IF n - k + 1 <= n THEN n - (n - k + 1) + 1 ELSE 0
    BY <1>1, <2>1
  <2> QED
    BY <1>1, <1>2, <2>2, <2>3
<1> HIDE DEF qs
<1> QED
  BY <1>2, <1>4, <1>5 DEF IsKept

\* What a tab captures is the output of a command, and a task is of one.
StoreTasks == [op : {"append", "backfill"}, text : Texts, at : 1 .. MaxCommands]
StoreTypes ==
  /\ kept = [t \in TwoTabs |-> kept[t]] /\ \A t \in TwoTabs : IsKept(kept[t])
  /\ got \in [TwoTabs -> BOOLEAN] /\ \A t \in TwoTabs : got[t] => running[t] # Store!None
  /\ tasks \subseteq StoreTasks /\ steps \in 0 .. MaxCommands /\ {behind, shuffled} \subseteq BOOLEAN

\* This is the history's type invariant.
LEMMA StoreTypesMean == StoreInv /\ StoreTypes => Store!TypeOK
BY DEF StoreInv, StoreTypes, StoreTasks, IsKept, Store!TypeOK

\* No tab keeps a command at first, or after a restart.
LEMMA NothingKept ==
  ASSUME NEW k, NEW g, k = [t \in TwoTabs |-> <<>>], g = [t \in TwoTabs |-> FALSE]
  PROVE  k = [t \in TwoTabs |-> k[t]] /\ (\A t \in TwoTabs : IsKept(k[t])) /\ g \in [TwoTabs -> BOOLEAN] /\ \A t \in TwoTabs : ~g[t]
<1>1. <<>> \in Seq(Texts) /\ Len(<<>>) = 0
  BY EmptySeq
<1>2. IsKept(<<>>)
  BY <1>1, StoreNumbers DEF IsKept
<1> QED
  BY <1>2

\* The history starts empty.
LEMMA StoreTypesFirst == Store!HistoryInit => StoreTypes
<1> SUFFICES ASSUME Store!HistoryInit PROVE StoreTypes
  OBVIOUS
<1>1. steps = 0 /\ behind = FALSE /\ shuffled = FALSE /\ tasks = {} /\ kept = [t \in TwoTabs |-> <<>>] /\ got = [t \in TwoTabs |-> FALSE]
  BY DEF Store!HistoryInit
<1>2. steps \in 0 .. MaxCommands
  BY <1>1, StoreNumbers
<1>3. {behind, shuffled} \subseteq BOOLEAN /\ tasks \subseteq StoreTasks
  BY <1>1
<1> QED
  BY <1>1, <1>2, <1>3, NothingKept DEF StoreTypes

\* A step of the history writes and captures commands.
LEMMA StoreTypesStep == StoreInv /\ StoreTypes /\ [Store!HistoryNext]_storeVars => StoreTypes'
<1> SUFFICES ASSUME StoreInv, StoreTypes, [Store!HistoryNext]_storeVars PROVE StoreTypes'
  OBVIOUS
<1>0. /\ kept = [t \in TwoTabs |-> kept[t]] /\ \A t \in TwoTabs : IsKept(kept[t])
      /\ got \in [TwoTabs -> BOOLEAN] /\ \A t \in TwoTabs : got[t] => running[t] # Store!None
      /\ tasks \subseteq StoreTasks /\ steps \in 0 .. MaxCommands /\ {behind, shuffled} \subseteq BOOLEAN
      /\ running \in [TwoTabs -> Texts \cup {Store!None}]
  BY DEF StoreTypes, StoreInv
<1>n. MaxCommands \in Nat
  BY StoreNumbers
<1>s. ASSUME steps < MaxCommands, steps' = steps + 1 PROVE steps' \in 0 .. MaxCommands /\ steps' \in 1 .. MaxCommands
  BY <1>0, <1>n, <1>s
<1>u. CASE UNCHANGED storeVars
  BY <1>0, <1>u DEF StoreTypes, storeVars
<1>1. ASSUME NEW t \in TwoTabs, Store!Capture(t) PROVE StoreTypes'
  <2>1. running[t] # Store!None /\ got' = [got EXCEPT ![t] = TRUE] /\ UNCHANGED <<kept, running, tasks, steps, behind, shuffled>>
    BY <1>1 DEF Store!Capture
  <2>2. got' \in [TwoTabs -> BOOLEAN] /\ \A u \in TwoTabs : got'[u] => running[u] # Store!None
    BY <1>0, <2>1
  <2> QED
    BY <1>0, <2>1, <2>2 DEF StoreTypes
<1>2. ASSUME NEW t \in TwoTabs, NEW c \in Texts, Store!Commit(t, c) PROVE StoreTypes'
  <2> DEFINE new == [op |-> "append", text |-> c, at |-> steps']
             old == [op |-> "backfill", text |-> running[t], at |-> steps']
  <2>1. /\ steps < MaxCommands /\ steps' = steps + 1 /\ UNCHANGED <<behind, shuffled>>
        /\ kept' = [kept EXCEPT ![t] = Store!Keep(kept[t], c)]
        /\ got' = [got EXCEPT ![t] = FALSE] /\ running' = [running EXCEPT ![t] = c]
        /\ tasks' = tasks \/ tasks' = tasks \cup {new} \cup (IF got[t] THEN {old} ELSE {})
    BY <1>2 DEF Store!Commit
  <2>2. steps' \in 0 .. MaxCommands /\ steps' \in 1 .. MaxCommands
    BY <1>s, <2>1
  <2>3. IsKept(Store!Keep(kept[t], c))
    BY <1>0, KeepFacts
  <2>4. kept' = [u \in TwoTabs |-> kept'[u]] /\ \A u \in TwoTabs : IsKept(kept'[u])
    BY <1>0, <2>1, <2>3
  <2>5. got' \in [TwoTabs -> BOOLEAN] /\ \A u \in TwoTabs : got'[u] => running'[u] # Store!None
    BY <1>0, <2>1
  <2>6. new \in StoreTasks
    BY <2>2 DEF StoreTasks
  <2>7. got[t] => old \in StoreTasks
    BY <1>0, <2>2 DEF StoreTasks
  <2> HIDE DEF new, old
  <2>8. tasks' \subseteq StoreTasks
    BY <1>0, <2>1, <2>6, <2>7
  <2> QED
    BY <1>0, <2>1, <2>2, <2>4, <2>5, <2>8 DEF StoreTypes
<1>3. ASSUME NEW task \in tasks, Store!Write(task) PROVE StoreTypes'
  <2>1. shuffled' \in BOOLEAN
    BY <1>0, <1>3, Zenon DEF Store!Write
  <2>2. UNCHANGED <<kept, running, got, steps, behind>> /\ tasks' \subseteq tasks
    BY <1>3 DEF Store!Write
  <2> QED
    BY <1>0, <2>1, <2>2 DEF StoreTypes
<1>4. CASE Store!ClearAll
  <2>1. UNCHANGED <<kept, running, got, tasks, shuffled>> /\ behind' \in BOOLEAN
    BY <1>4 DEF Store!ClearAll
  <2>2. steps' \in 0 .. MaxCommands
    BY <1>4, <1>s DEF Store!ClearAll
  <2> QED
    BY <1>0, <2>1, <2>2 DEF StoreTypes
<1>5. CASE Store!Restart
  <2>1. /\ kept' = [t \in TwoTabs |-> <<>>] /\ got' = [t \in TwoTabs |-> FALSE]
        /\ tasks' = {} /\ behind' = FALSE /\ shuffled' = FALSE /\ steps' = steps
    BY <1>5 DEF Store!Restart
  <2>2. kept' = [t \in TwoTabs |-> kept'[t]] /\ (\A t \in TwoTabs : IsKept(kept'[t])) /\ got' \in [TwoTabs -> BOOLEAN] /\ \A t \in TwoTabs : ~got'[t]
    BY <2>1, NothingKept
  <2> QED
    BY <1>0, <2>1, <2>2 DEF StoreTypes
<1> QED
  BY <1>u, <1>1, <1>2, <1>3, <1>4, <1>5 DEF Store!HistoryNext

------------------------------------------------------------------------------
(* The types of the remote pane.                                            *)

\* The sum of a function over the subsets of a finite set, as the fold takes it: an element at a time.
Some(s) == CHOOSE x \in s : TRUE
SumsOver(it, L, P) == it = [s \in P |-> IF s = {} THEN 0 ELSE L[Some(s)] + it[s \ {Some(s)}]]

\* A finite set without one of its members is smaller by one.
LEMMA SomeFacts ==
  ASSUME NEW D, IsFiniteSet(D), NEW s \in SUBSET D
  PROVE  /\ IsFiniteSet(s) /\ Cardinality(s) \in Nat
         /\ s # {} => /\ Some(s) \in s /\ Cardinality(s) > 0
                      /\ Cardinality(s \ {Some(s)}) = Cardinality(s) - 1
<1>1. IsFiniteSet(s) /\ Cardinality(s) \in Nat
  BY FS_Subset, FS_CardinalityType
<1>2. CASE s # {}
  <2>1. Some(s) \in s
    BY <1>2 DEF Some
  <2>2. Cardinality(s \ {Some(s)}) = Cardinality(s) - 1
    BY <1>1, <2>1, FS_RemoveElement
  <2>3. Cardinality(s) > 0
    BY <1>1, <1>2, FS_EmptySet
  <2> QED
    BY <1>1, <2>1, <2>2, <2>3
<1> QED
  BY <1>1, <1>2

\* There is such a sum.
LEMMA SumsExist ==
  ASSUME NEW D, IsFiniteSet(D), NEW L
  PROVE  \E it : SumsOver(it, L, SUBSET D)
<1> DEFINE P(n) == {s \in SUBSET D : Cardinality(s) <= n}
           Q(n) == \E f : SumsOver(f, L, P(n))
           bad == {n \in Nat : ~Q(n)}
<1>f. \A s \in SUBSET D : /\ IsFiniteSet(s) /\ Cardinality(s) \in Nat
                          /\ s # {} => /\ Some(s) \in s /\ Cardinality(s) > 0
                                       /\ Cardinality(s \ {Some(s)}) = Cardinality(s) - 1
  BY SomeFacts
<1>1. Q(0)
  <2> DEFINE f == [s \in P(0) |-> 0]
  <2>1. ASSUME NEW s \in P(0), s # {} PROVE FALSE
    <3>1. s \in SUBSET D /\ Cardinality(s) <= 0 /\ s # {}
      BY <2>1
    <3>2. Cardinality(s) > 0 /\ Cardinality(s) \in Nat
      BY <1>f, <3>1
    <3> QED
      BY <3>1, <3>2
  <2>2. SumsOver(f, L, P(0))
    BY <2>1 DEF SumsOver
  <2> QED
    BY <2>2
<1>2. ASSUME NEW n \in Nat, Q(n) PROVE Q(n + 1)
  <2>1. PICK f : SumsOver(f, L, P(n))
    BY <1>2
  <2> DEFINE g == [s \in P(n + 1) |-> IF s = {} THEN 0 ELSE L[Some(s)] + f[s \ {Some(s)}]]
  <2>2. \A s \in P(n) : f[s] = IF s = {} THEN 0 ELSE L[Some(s)] + f[s \ {Some(s)}]
    BY <2>1 DEF SumsOver
  <2>3. ASSUME NEW s \in P(n) PROVE s \in P(n + 1)
    <3> DEFINE k == Cardinality(s)
    <3>1. s \in SUBSET D /\ k <= n /\ k \in Nat
      BY <1>f, <2>3
    <3> HIDE DEF k
    <3>2. k <= n + 1
      BY <3>1
    <3> QED
      BY <3>1, <3>2 DEF k
  <2>4. \A s \in P(n) : g[s] = f[s]
    BY <2>2, <2>3
  <2>5. ASSUME NEW s \in P(n + 1), s # {} PROVE s \ {Some(s)} \in P(n)
    <3> DEFINE k == Cardinality(s)
    <3>1. s \in SUBSET D /\ k <= n + 1
      BY <2>5
    <3>2. k \in Nat /\ Cardinality(s \ {Some(s)}) = k - 1
      BY <1>f, <2>5, <3>1
    <3> HIDE DEF k
    <3>3. Cardinality(s \ {Some(s)}) <= n
      BY <3>1, <3>2
    <3> QED
      BY <3>1, <3>3
  <2>6. g = [s \in P(n + 1) |-> IF s = {} THEN 0 ELSE L[Some(s)] + g[s \ {Some(s)}]]
    BY <2>4, <2>5
  <2> HIDE DEF g, P
  <2> QED
    BY <2>6 DEF SumsOver
<1> HIDE DEF Q
<1>3. ASSUME bad # {} PROVE FALSE
  <2>1. PICK m \in bad : \A k \in bad : m <= k
    BY <1>3, LeastOf
  <2>2. m # 0 /\ m \in Nat
    BY <1>1, <2>1
  <2>3. m - 1 \in Nat /\ m - 1 \notin bad /\ (m - 1) + 1 = m
    BY <2>1, <2>2
  <2>4. Q(m - 1)
    BY <2>3
  <2> QED
    BY <1>2, <2>1, <2>3, <2>4
<1>4. Cardinality(D) \in Nat /\ \A s \in SUBSET D : Cardinality(s) <= Cardinality(D)
  BY FS_CardinalityType, FS_Subset
<1>5. P(Cardinality(D)) = SUBSET D
  BY <1>4
<1>6. Q(Cardinality(D))
  BY <1>3, <1>4
<1> HIDE DEF P
<1> QED
  BY <1>5, <1>6 DEF Q

\* A sum of numbers is a number, and none of them exceeds it.
LEMMA SumBounds ==
  ASSUME NEW D, IsFiniteSet(D), NEW L \in [D -> Nat]
  PROVE  LET it == CHOOSE f : SumsOver(f, L, SUBSET D)
         IN  it[D] \in Nat /\ \A x \in D : L[x] <= it[D]
<1> DEFINE it == CHOOSE f : SumsOver(f, L, SUBSET D)
           Good(s) == it[s] \in Nat /\ \A x \in s : L[x] <= it[s]
           bad == {n \in Nat : \E s \in SUBSET D : Cardinality(s) = n /\ ~Good(s)}
<1>1. SumsOver(it, L, SUBSET D)
  BY SumsExist
<1>2. \A s \in SUBSET D : it[s] = IF s = {} THEN 0 ELSE L[Some(s)] + it[s \ {Some(s)}]
  BY <1>1 DEF SumsOver
<1> HIDE DEF it
<1>f. \A s \in SUBSET D : /\ IsFiniteSet(s) /\ Cardinality(s) \in Nat
                          /\ s # {} => /\ Some(s) \in s /\ Cardinality(s) > 0
                                       /\ Cardinality(s \ {Some(s)}) = Cardinality(s) - 1
  BY SomeFacts
<1>3. ASSUME bad # {} PROVE FALSE
  <2>1. PICK m \in bad : \A k \in bad : m <= k
    BY <1>3, LeastOf
  <2>2. PICK s \in SUBSET D : Cardinality(s) = m /\ ~Good(s)
    BY <2>1
  <2>3. s # {}
    BY <1>2, <2>2
  <2> DEFINE c == Some(s)
             t == s \ {c}
  <2>4. c \in s /\ t \in SUBSET D /\ Cardinality(t) = m - 1 /\ m \in Nat /\ m - 1 \in Nat
    BY <1>f, <2>1, <2>2, <2>3
  <2>5. Good(t)
    <3>1. m - 1 \notin bad
      BY <2>1, <2>4
    <3> QED
      BY <2>4, <3>1
  <2>6. it[s] = L[c] + it[t] /\ L[c] \in Nat /\ it[t] \in Nat
    BY <1>2, <2>3, <2>4, <2>5
  <2>7. \A x \in s : x = c \/ x \in t
    OBVIOUS
  <2> HIDE DEF c, t
  <2>8. \A x \in s : L[x] <= it[s]
    <3>1. \A x \in t : L[x] \in Nat /\ L[x] <= it[t]
      BY <2>4, <2>5
    <3> QED
      BY <2>6, <2>7, <3>1
  <2>9. Good(s)
    BY <2>6, <2>8
  <2> QED
    BY <2>2, <2>9
<1>4. Good(D)
  <2>1. Cardinality(D) \in Nat
    BY FS_CardinalityType
  <2> QED
    BY <1>3, <2>1
<1> QED
  BY <1>4 DEF it

\* The listings under way as the pane counts them.
LEMMA PanesSum ==
  ASSUME lists \in [TwoTabs \X Dirs -> Nat]
  PROVE  LET n == Panes!MapThenSumSet(LAMBDA x : lists[x], TwoTabs \X Dirs)
         IN  n \in Nat /\ \A x \in TwoTabs \X Dirs : lists[x] <= n
<1> DEFINE D == TwoTabs \X Dirs
           n == Panes!MapThenSumSet(LAMBDA x : lists[x], D)
           it == CHOOSE f : SumsOver(f, lists, SUBSET D)
<1>1. n = it[D]
  BY DEF Panes!MapThenSumSet, Panes!MapThenFoldSet, SumsOver, Some
<1>2. IsFiniteSet(D)
  <2>1. IsFiniteSet(Dirs) /\ IsFiniteSet(OneTab \cup TwoTabs)
    BY DeskAssumption
  <2>2. IsFiniteSet(TwoTabs)
    BY <2>1, FS_Subset
  <2> QED
    BY <2>1, <2>2, FS_Product
<1> HIDE DEF D
<1>3. it[D] \in Nat /\ \A x \in D : lists[x] <= it[D]
  BY <1>2, SumBounds DEF D
<1> QED
  BY <1>1, <1>3 DEF D

\* What is selected is there, the listings are no more than they may, the operations act on
\* entries, and a dialog is of a kind.
PanesTypes ==
  /\ \A t \in TwoTabs : chosen[t] \subseteq rows[t]
  /\ \A x \in TwoTabs \X Dirs : lists[x] <= FewLists
  /\ ops \subseteq Panes!Entries
  /\ confirm \in {Panes!Nothing} \cup [kind : {"delete"}, tab : TwoTabs, named : SUBSET Panes!Entries]
  /\ prompt \in {Panes!Nothing} \cup [kind : {"rename", "mkdir"}, old : FewNames]

\* This is the pane's type invariant.
LEMMA PanesTypesMean == PanesInv /\ PanesTypes => Panes!TypeOK
<1> SUFFICES ASSUME PanesInv, PanesTypes PROVE Panes!TypeOK
  OBVIOUS
<1>0. FewLists \in Nat
  <2>1. {FewLists} \subseteq Nat
    BY DeskAssumption
  <2> QED
    BY <2>1
<1>1. lists \in [TwoTabs \X Dirs -> Nat] /\ \A x \in TwoTabs \X Dirs : lists[x] <= FewLists
  BY DEF PanesInv, PanesTypes
<1>2. \A x \in TwoTabs \X Dirs : lists[x] \in 0 .. FewLists
  BY <1>0, <1>1
<1>3. lists \in [TwoTabs \X Dirs -> 0 .. FewLists]
  BY <1>1, <1>2
<1> QED
  BY <1>3 DEF PanesInv, PanesTypes, Panes!TypeOK

\* The pane opens empty.
LEMMA PanesTypesFirst == Panes!PanelInit => PanesTypes
<1> SUFFICES ASSUME Panes!PanelInit PROVE PanesTypes
  OBVIOUS
<1>0. FewLists \in Nat
  <2>1. {FewLists} \subseteq Nat
    BY DeskAssumption
  <2> QED
    BY <2>1
<1>1. /\ rows = [t \in TwoTabs |-> {}] /\ chosen = rows /\ lists = [x \in TwoTabs \X Dirs |-> 0] /\ ops = {}
      /\ confirm = Panes!Nothing /\ prompt = Panes!Nothing
  BY DEF Panes!PanelInit
<1>2. \A x \in TwoTabs \X Dirs : lists[x] <= FewLists
  BY <1>0, <1>1
<1> QED
  BY <1>1, <1>2 DEF PanesTypes

\* A listing is asked for only while they are few enough.
LEMMA PanesFew ==
  ASSUME PanesInv, PanesTypes, NEW d \in Dirs, Panes!RefreshTo(d)
  PROVE  \A x \in TwoTabs \X Dirs : lists'[x] <= FewLists
<1>0. /\ active \in TwoTabs /\ lists \in [TwoTabs \X Dirs -> Nat]
      /\ \A x \in TwoTabs \X Dirs : lists[x] <= FewLists
  BY DEF PanesInv, PanesTypes
<1> DEFINE n == Panes!MapThenSumSet(LAMBDA x : lists[x], TwoTabs \X Dirs)
           c == <<active, d>>
<1>1. CASE lists' = lists
  BY <1>0, <1>1
<1>2. CASE n < FewLists /\ lists' = [lists EXCEPT ![c] = @ + 1]
  <2>1. n \in Nat /\ \A x \in TwoTabs \X Dirs : lists[x] <= n
    BY <1>0, PanesSum
  <2>2. n < FewLists /\ FewLists \in Nat
    <3>1. {FewLists} \subseteq Nat
      BY DeskAssumption
    <3> QED
      BY <1>2, <3>1
  <2> HIDE DEF n
  <2>3. c \in TwoTabs \X Dirs
    BY <1>0
  <2> HIDE DEF c
  <2> DEFINE k == lists[c]
  <2>4. k \in Nat /\ k <= n
    BY <1>0, <2>1, <2>3
  <2>5. lists' = [lists EXCEPT ![c] = k + 1]
    BY <1>2
  <2> HIDE DEF k
  <2>6. k + 1 <= FewLists
    BY <2>1, <2>2, <2>4
  <2> QED
    BY <1>0, <2>3, <2>5, <2>6
<1> QED
  BY <1>1, <1>2 DEF Panes!RefreshTo

\* A listing that ends is one less.
LEMMA PanesFewer ==
  ASSUME PanesInv, PanesTypes, NEW t \in TwoTabs, NEW d \in Dirs, lists' = [lists EXCEPT ![<<t, d>>] = @ - 1]
  PROVE  \A x \in TwoTabs \X Dirs : lists'[x] <= FewLists
<1>0. /\ lists \in [TwoTabs \X Dirs -> Nat] /\ \A x \in TwoTabs \X Dirs : lists[x] <= FewLists
  BY DEF PanesInv, PanesTypes
<1> DEFINE k == lists[<<t, d>>]
<1>1. k \in Nat /\ k <= FewLists /\ FewLists \in Nat
  <2>1. {FewLists} \subseteq Nat
    BY DeskAssumption
  <2> QED
    BY <1>0, <2>1
<1>2. lists' = [lists EXCEPT ![<<t, d>>] = k - 1]
  OBVIOUS
<1> HIDE DEF k
<1>3. k - 1 <= FewLists
  BY <1>1
<1> QED
  BY <1>0, <1>2, <1>3

\* A step of the pane keeps what is selected among the rows.
LEMMA PanesTypesStep == PanesInv /\ PanesTypes /\ [Panes!PanelNext]_paneVars => PanesTypes'
<1> SUFFICES ASSUME PanesInv, PanesTypes, [Panes!PanelNext]_paneVars PROVE PanesTypes'
  OBVIOUS
<1> DEFINE Dialogs == [kind : {"delete"}, tab : TwoTabs, named : SUBSET Panes!Entries]
           Prompts == [kind : {"rename", "mkdir"}, old : FewNames]
           Few == \A x \in TwoTabs \X Dirs : lists[x] <= FewLists
           Kept == \A t \in TwoTabs : chosen[t] \subseteq rows[t]
<1>0. /\ active \in TwoTabs /\ path \in [TwoTabs -> Dirs]
      /\ rows \in [TwoTabs -> SUBSET Panes!Entries] /\ chosen \in [TwoTabs -> SUBSET Panes!Entries]
      /\ Few /\ Kept /\ ops \subseteq Panes!Entries
      /\ confirm \in {Panes!Nothing} \cup Dialogs /\ prompt \in {Panes!Nothing} \cup Prompts
  BY DEF PanesInv, PanesTypes
<1>i. ASSUME Few', Kept', ops' \subseteq Panes!Entries, confirm' \in {Panes!Nothing} \cup Dialogs, prompt' \in {Panes!Nothing} \cup Prompts
      PROVE  PanesTypes'
  BY <1>i DEF PanesTypes, Panes!Entries
<1>l. lists' = lists => Few'
  BY <1>0
<1>k. UNCHANGED <<rows, chosen>> => Kept'
  BY <1>0
<1>h. \A d \in Dirs, n \in FewNames : Panes!At(d, n) \in Panes!Entries
  BY DEF Panes!At, Panes!Entries
<1>e. \A e \in Panes!Entries : e.name \in FewNames
  BY DEF Panes!Entries
<1> HIDE DEF Dialogs, Prompts, Few, Kept
<1>u. CASE UNCHANGED paneVars
  BY <1>0, <1>u, <1>i, <1>l, <1>k DEF paneVars
<1>1. ASSUME NEW d \in Dirs, Panes!Navigate(d) PROVE PanesTypes'
  <2>1. /\ chosen' = [chosen EXCEPT ![active] = IF d = path[active] THEN @ ELSE {}]
        /\ UNCHANGED <<rows, ops, confirm, prompt>> /\ Panes!RefreshTo(d)
    BY <1>1 DEF Panes!Navigate
  <2>2. Kept'
    BY <1>0, <2>1 DEF Kept
  <2>3. Few'
    BY <2>1, PanesFew DEF Few
  <2> QED
    BY <1>0, <1>i, <2>1, <2>2, <2>3
<1>2. ASSUME NEW d \in Dirs, Panes!EditPath(d) PROVE PanesTypes'
  BY <1>0, <1>2, <1>i, <1>l, <1>k DEF Panes!EditPath
<1>3. ASSUME NEW t \in TwoTabs, NEW d \in Dirs, Panes!Listed(t, d) PROVE PanesTypes'
  <2>1. /\ lists' = [lists EXCEPT ![<<t, d>>] = @ - 1] /\ chosen' = [chosen EXCEPT ![t] = {}]
        /\ UNCHANGED <<ops, confirm, prompt>>
    BY <1>3 DEF Panes!Listed
  <2>2. PICK found \in SUBSET Panes!Entries : rows' = [rows EXCEPT ![t] = Panes!In(d, found)]
    BY <1>3 DEF Panes!Listed
  <2>3. Kept'
    BY <1>0, <2>1, <2>2 DEF Kept
  <2>4. Few'
    BY <2>1, PanesFewer DEF Few
  <2> QED
    BY <1>0, <1>i, <2>1, <2>3, <2>4
<1>4. ASSUME NEW t \in TwoTabs, NEW d \in Dirs, Panes!ListFails(t, d) PROVE PanesTypes'
  <2>1. /\ lists' = [lists EXCEPT ![<<t, d>>] = @ - 1] /\ UNCHANGED <<rows, chosen, ops, confirm, prompt>>
    BY <1>4 DEF Panes!ListFails
  <2>2. Few'
    BY <2>1, PanesFewer DEF Few
  <2> QED
    BY <1>0, <1>i, <1>k, <2>1, <2>2
<1>5. ASSUME NEW some \in SUBSET rows[active], Panes!Select(some) PROVE PanesTypes'
  <2>1. chosen' = [chosen EXCEPT ![active] = some] /\ UNCHANGED <<rows, lists, ops, confirm, prompt>>
    BY <1>5 DEF Panes!Select
  <2>2. Kept'
    BY <1>0, <2>1 DEF Kept
  <2> QED
    BY <1>0, <1>i, <1>l, <2>1, <2>2
<1>6. ASSUME NEW t \in TwoTabs, Panes!SwitchTab(t) PROVE PanesTypes'
  BY <1>0, <1>6, <1>i, <1>l, <1>k DEF Panes!SwitchTab
<1>7. ASSUME NEW t \in TwoTabs, Panes!Lose(t) PROVE PanesTypes'
  <2>1. /\ lists' = [x \in TwoTabs \X Dirs |-> IF x[1] = t THEN 0 ELSE lists[x]] /\ ops' \in SUBSET ops
        /\ UNCHANGED <<rows, chosen, confirm, prompt>>
    BY <1>7 DEF Panes!Lose
  <2>2. 0 <= FewLists
    <3>1. {FewLists} \subseteq Nat
      BY DeskAssumption
    <3> QED
      BY <3>1
  <2>3. Few'
    BY <1>0, <2>1, <2>2 DEF Few
  <2> QED
    BY <1>0, <1>i, <1>k, <2>1, <2>3
<1>8. CASE Panes!AskDelete
  <2>1. /\ confirm' = [kind |-> "delete", tab |-> active, named |-> chosen[active]]
        /\ UNCHANGED <<rows, chosen, lists, ops, prompt>>
    BY <1>8 DEF Panes!AskDelete
  <2>2. chosen[active] \in SUBSET Panes!Entries
    BY <1>0
  <2>3. confirm' \in Dialogs
    BY <1>0, <2>1, <2>2 DEF Dialogs
  <2> QED
    BY <1>0, <1>i, <1>l, <1>k, <2>1, <2>3
<1>9. CASE Panes!ConfirmDelete
  <2>1. confirm' = Panes!Nothing /\ UNCHANGED <<rows, chosen, lists, prompt>>
    BY <1>9 DEF Panes!ConfirmDelete
  <2>2. PICK sent \in SUBSET Panes!Reached : ops' = ops \cup sent
    BY <1>9 DEF Panes!ConfirmDelete
  <2>3. path[active] \in Dirs /\ chosen[active] \subseteq Panes!Entries
    BY <1>0
  <2>4. Panes!Reached \subseteq Panes!Entries
    BY <1>h, <1>e, <2>3 DEF Panes!Reached
  <2>5. ops' \subseteq Panes!Entries
    BY <1>0, <2>2, <2>4
  <2> QED
    BY <1>0, <1>i, <1>l, <1>k, <2>1, <2>5
<1>10. CASE Panes!Cancel
  BY <1>0, <1>10, <1>i, <1>l, <1>k DEF Panes!Cancel
<1>11. ASSUME NEW kind \in {"rename", "mkdir"}, NEW name \in FewNames, Panes!OpenPrompt(kind, name) PROVE PanesTypes'
  <2>1. prompt' = [kind |-> kind, old |-> name] /\ UNCHANGED <<rows, chosen, lists, ops, confirm>>
    BY <1>11 DEF Panes!OpenPrompt
  <2>2. prompt' \in Prompts
    BY <2>1 DEF Prompts
  <2> QED
    BY <1>0, <1>i, <1>l, <1>k, <2>1, <2>2
<1>12. ASSUME NEW name \in FewNames, Panes!ConfirmPrompt(name) PROVE PanesTypes'
  <2>1. prompt # Panes!Nothing /\ prompt' = Panes!Nothing /\ UNCHANGED <<rows, chosen, lists, confirm>>
    BY <1>12 DEF Panes!ConfirmPrompt
  <2> DEFINE asked == IF prompt.kind = "rename" THEN prompt.old ELSE name
  <2>2. asked \in FewNames
    BY <1>0, <2>1 DEF Prompts
  <2>3. PICK sent \in SUBSET {asked} : ops' = ops \cup {Panes!At(path[active], n) : n \in sent}
    BY <1>12 DEF Panes!ConfirmPrompt
  <2> HIDE DEF asked
  <2>4. path[active] \in Dirs
    BY <1>0
  <2>5. \A n \in sent : Panes!At(path[active], n) \in Panes!Entries
    BY <1>h, <2>2, <2>3, <2>4
  <2>6. ops' \subseteq Panes!Entries
    BY <1>0, <2>3, <2>5
  <2> QED
    BY <1>0, <1>i, <1>l, <1>k, <2>1, <2>6
<1>13. ASSUME NEW op, Panes!OnDone(op) PROVE PanesTypes'
  <2>1. ops' = ops \ {op} /\ Panes!RefreshTo(path[active]) /\ UNCHANGED <<rows, chosen, confirm, prompt>>
    BY <1>13 DEF Panes!OnDone
  <2>2. path[active] \in Dirs
    BY <1>0
  <2>3. Few'
    BY <2>1, <2>2, PanesFew DEF Few
  <2> QED
    BY <1>0, <1>i, <1>k, <2>1, <2>3
<1> QED
  BY <1>u, <1>1, <1>2, <1>3, <1>4, <1>5, <1>6, <1>7, <1>8, <1>9, <1>10, <1>11, <1>12, <1>13 DEF Panes!PanelNext


------------------------------------------------------------------------------
(* The same of the pane with one tab and more rows. *)

\* The listings under way as the pane counts them.
LEMMA PaneSum ==
  ASSUME lists \in [OneTab \X Dirs -> Nat]
  PROVE  LET n == Pane!MapThenSumSet(LAMBDA x : lists[x], OneTab \X Dirs)
         IN  n \in Nat /\ \A x \in OneTab \X Dirs : lists[x] <= n
<1> DEFINE D == OneTab \X Dirs
           n == Pane!MapThenSumSet(LAMBDA x : lists[x], D)
           it == CHOOSE f : SumsOver(f, lists, SUBSET D)
<1>1. n = it[D]
  BY DEF Pane!MapThenSumSet, Pane!MapThenFoldSet, SumsOver, Some
<1>2. IsFiniteSet(D)
  <2>1. IsFiniteSet(Dirs) /\ IsFiniteSet(OneTab \cup TwoTabs)
    BY DeskAssumption
  <2>2. IsFiniteSet(OneTab)
    BY <2>1, FS_Subset
  <2> QED
    BY <2>1, <2>2, FS_Product
<1> HIDE DEF D
<1>3. it[D] \in Nat /\ \A x \in D : lists[x] <= it[D]
  BY <1>2, SumBounds DEF D
<1> QED
  BY <1>1, <1>3 DEF D

\* What is selected is there, the listings are no more than they may, the operations act on
\* entries, and a dialog is of a kind.
PaneTypes ==
  /\ \A t \in OneTab : chosen[t] \subseteq rows[t]
  /\ \A x \in OneTab \X Dirs : lists[x] <= MoreLists
  /\ ops \subseteq Pane!Entries
  /\ confirm \in {Pane!Nothing} \cup [kind : {"delete"}, tab : OneTab, named : SUBSET Pane!Entries]
  /\ prompt \in {Pane!Nothing} \cup [kind : {"rename", "mkdir"}, old : MoreNames]

\* This is the pane's type invariant.
LEMMA PaneTypesMean == PaneInv /\ PaneTypes => Pane!TypeOK
<1> SUFFICES ASSUME PaneInv, PaneTypes PROVE Pane!TypeOK
  OBVIOUS
<1>0. MoreLists \in Nat
  <2>1. {MoreLists} \subseteq Nat
    BY DeskAssumption
  <2> QED
    BY <2>1
<1>1. lists \in [OneTab \X Dirs -> Nat] /\ \A x \in OneTab \X Dirs : lists[x] <= MoreLists
  BY DEF PaneInv, PaneTypes
<1>2. \A x \in OneTab \X Dirs : lists[x] \in 0 .. MoreLists
  BY <1>0, <1>1
<1>3. lists \in [OneTab \X Dirs -> 0 .. MoreLists]
  BY <1>1, <1>2
<1> QED
  BY <1>3 DEF PaneInv, PaneTypes, Pane!TypeOK

\* The pane opens empty.
LEMMA PaneTypesFirst == Pane!PanelInit => PaneTypes
<1> SUFFICES ASSUME Pane!PanelInit PROVE PaneTypes
  OBVIOUS
<1>0. MoreLists \in Nat
  <2>1. {MoreLists} \subseteq Nat
    BY DeskAssumption
  <2> QED
    BY <2>1
<1>1. /\ rows = [t \in OneTab |-> {}] /\ chosen = rows /\ lists = [x \in OneTab \X Dirs |-> 0] /\ ops = {}
      /\ confirm = Pane!Nothing /\ prompt = Pane!Nothing
  BY DEF Pane!PanelInit
<1>2. \A x \in OneTab \X Dirs : lists[x] <= MoreLists
  BY <1>0, <1>1
<1> QED
  BY <1>1, <1>2 DEF PaneTypes

\* A listing is asked for only while they are few enough.
LEMMA PaneFew ==
  ASSUME PaneInv, PaneTypes, NEW d \in Dirs, Pane!RefreshTo(d)
  PROVE  \A x \in OneTab \X Dirs : lists'[x] <= MoreLists
<1>0. /\ active \in OneTab /\ lists \in [OneTab \X Dirs -> Nat]
      /\ \A x \in OneTab \X Dirs : lists[x] <= MoreLists
  BY DEF PaneInv, PaneTypes
<1> DEFINE n == Pane!MapThenSumSet(LAMBDA x : lists[x], OneTab \X Dirs)
           c == <<active, d>>
<1>1. CASE lists' = lists
  BY <1>0, <1>1
<1>2. CASE n < MoreLists /\ lists' = [lists EXCEPT ![c] = @ + 1]
  <2>1. n \in Nat /\ \A x \in OneTab \X Dirs : lists[x] <= n
    BY <1>0, PaneSum
  <2>2. n < MoreLists /\ MoreLists \in Nat
    <3>1. {MoreLists} \subseteq Nat
      BY DeskAssumption
    <3> QED
      BY <1>2, <3>1
  <2> HIDE DEF n
  <2>3. c \in OneTab \X Dirs
    BY <1>0
  <2> HIDE DEF c
  <2> DEFINE k == lists[c]
  <2>4. k \in Nat /\ k <= n
    BY <1>0, <2>1, <2>3
  <2>5. lists' = [lists EXCEPT ![c] = k + 1]
    BY <1>2
  <2> HIDE DEF k
  <2>6. k + 1 <= MoreLists
    BY <2>1, <2>2, <2>4
  <2> QED
    BY <1>0, <2>3, <2>5, <2>6
<1> QED
  BY <1>1, <1>2 DEF Pane!RefreshTo

\* A listing that ends is one less.
LEMMA PaneFewer ==
  ASSUME PaneInv, PaneTypes, NEW t \in OneTab, NEW d \in Dirs, lists' = [lists EXCEPT ![<<t, d>>] = @ - 1]
  PROVE  \A x \in OneTab \X Dirs : lists'[x] <= MoreLists
<1>0. /\ lists \in [OneTab \X Dirs -> Nat] /\ \A x \in OneTab \X Dirs : lists[x] <= MoreLists
  BY DEF PaneInv, PaneTypes
<1> DEFINE k == lists[<<t, d>>]
<1>1. k \in Nat /\ k <= MoreLists /\ MoreLists \in Nat
  <2>1. {MoreLists} \subseteq Nat
    BY DeskAssumption
  <2> QED
    BY <1>0, <2>1
<1>2. lists' = [lists EXCEPT ![<<t, d>>] = k - 1]
  OBVIOUS
<1> HIDE DEF k
<1>3. k - 1 <= MoreLists
  BY <1>1
<1> QED
  BY <1>0, <1>2, <1>3

\* A step of the pane keeps what is selected among the rows.
LEMMA PaneTypesStep == PaneInv /\ PaneTypes /\ [Pane!PanelNext]_paneVars => PaneTypes'
<1> SUFFICES ASSUME PaneInv, PaneTypes, [Pane!PanelNext]_paneVars PROVE PaneTypes'
  OBVIOUS
<1> DEFINE Dialogs == [kind : {"delete"}, tab : OneTab, named : SUBSET Pane!Entries]
           Prompts == [kind : {"rename", "mkdir"}, old : MoreNames]
           Few == \A x \in OneTab \X Dirs : lists[x] <= MoreLists
           Kept == \A t \in OneTab : chosen[t] \subseteq rows[t]
<1>0. /\ active \in OneTab /\ path \in [OneTab -> Dirs]
      /\ rows \in [OneTab -> SUBSET Pane!Entries] /\ chosen \in [OneTab -> SUBSET Pane!Entries]
      /\ Few /\ Kept /\ ops \subseteq Pane!Entries
      /\ confirm \in {Pane!Nothing} \cup Dialogs /\ prompt \in {Pane!Nothing} \cup Prompts
  BY DEF PaneInv, PaneTypes
<1>i. ASSUME Few', Kept', ops' \subseteq Pane!Entries, confirm' \in {Pane!Nothing} \cup Dialogs, prompt' \in {Pane!Nothing} \cup Prompts
      PROVE  PaneTypes'
  BY <1>i DEF PaneTypes, Pane!Entries
<1>l. lists' = lists => Few'
  BY <1>0
<1>k. UNCHANGED <<rows, chosen>> => Kept'
  BY <1>0
<1>h. \A d \in Dirs, n \in MoreNames : Pane!At(d, n) \in Pane!Entries
  BY DEF Pane!At, Pane!Entries
<1>e. \A e \in Pane!Entries : e.name \in MoreNames
  BY DEF Pane!Entries
<1> HIDE DEF Dialogs, Prompts, Few, Kept
<1>u. CASE UNCHANGED paneVars
  BY <1>0, <1>u, <1>i, <1>l, <1>k DEF paneVars
<1>1. ASSUME NEW d \in Dirs, Pane!Navigate(d) PROVE PaneTypes'
  <2>1. /\ chosen' = [chosen EXCEPT ![active] = IF d = path[active] THEN @ ELSE {}]
        /\ UNCHANGED <<rows, ops, confirm, prompt>> /\ Pane!RefreshTo(d)
    BY <1>1 DEF Pane!Navigate
  <2>2. Kept'
    BY <1>0, <2>1 DEF Kept
  <2>3. Few'
    BY <2>1, PaneFew DEF Few
  <2> QED
    BY <1>0, <1>i, <2>1, <2>2, <2>3
<1>2. ASSUME NEW d \in Dirs, Pane!EditPath(d) PROVE PaneTypes'
  BY <1>0, <1>2, <1>i, <1>l, <1>k DEF Pane!EditPath
<1>3. ASSUME NEW t \in OneTab, NEW d \in Dirs, Pane!Listed(t, d) PROVE PaneTypes'
  <2>1. /\ lists' = [lists EXCEPT ![<<t, d>>] = @ - 1] /\ chosen' = [chosen EXCEPT ![t] = {}]
        /\ UNCHANGED <<ops, confirm, prompt>>
    BY <1>3 DEF Pane!Listed
  <2>2. PICK found \in SUBSET Pane!Entries : rows' = [rows EXCEPT ![t] = Pane!In(d, found)]
    BY <1>3 DEF Pane!Listed
  <2>3. Kept'
    BY <1>0, <2>1, <2>2 DEF Kept
  <2>4. Few'
    BY <2>1, PaneFewer DEF Few
  <2> QED
    BY <1>0, <1>i, <2>1, <2>3, <2>4
<1>4. ASSUME NEW t \in OneTab, NEW d \in Dirs, Pane!ListFails(t, d) PROVE PaneTypes'
  <2>1. /\ lists' = [lists EXCEPT ![<<t, d>>] = @ - 1] /\ UNCHANGED <<rows, chosen, ops, confirm, prompt>>
    BY <1>4 DEF Pane!ListFails
  <2>2. Few'
    BY <2>1, PaneFewer DEF Few
  <2> QED
    BY <1>0, <1>i, <1>k, <2>1, <2>2
<1>5. ASSUME NEW some \in SUBSET rows[active], Pane!Select(some) PROVE PaneTypes'
  <2>1. chosen' = [chosen EXCEPT ![active] = some] /\ UNCHANGED <<rows, lists, ops, confirm, prompt>>
    BY <1>5 DEF Pane!Select
  <2>2. Kept'
    BY <1>0, <2>1 DEF Kept
  <2> QED
    BY <1>0, <1>i, <1>l, <2>1, <2>2
<1>6. ASSUME NEW t \in OneTab, Pane!SwitchTab(t) PROVE PaneTypes'
  BY <1>0, <1>6, <1>i, <1>l, <1>k DEF Pane!SwitchTab
<1>7. ASSUME NEW t \in OneTab, Pane!Lose(t) PROVE PaneTypes'
  <2>1. /\ lists' = [x \in OneTab \X Dirs |-> IF x[1] = t THEN 0 ELSE lists[x]] /\ ops' \in SUBSET ops
        /\ UNCHANGED <<rows, chosen, confirm, prompt>>
    BY <1>7 DEF Pane!Lose
  <2>2. 0 <= MoreLists
    <3>1. {MoreLists} \subseteq Nat
      BY DeskAssumption
    <3> QED
      BY <3>1
  <2>3. Few'
    BY <1>0, <2>1, <2>2 DEF Few
  <2> QED
    BY <1>0, <1>i, <1>k, <2>1, <2>3
<1>8. CASE Pane!AskDelete
  <2>1. /\ confirm' = [kind |-> "delete", tab |-> active, named |-> chosen[active]]
        /\ UNCHANGED <<rows, chosen, lists, ops, prompt>>
    BY <1>8 DEF Pane!AskDelete
  <2>2. chosen[active] \in SUBSET Pane!Entries
    BY <1>0
  <2>3. confirm' \in Dialogs
    BY <1>0, <2>1, <2>2 DEF Dialogs
  <2> QED
    BY <1>0, <1>i, <1>l, <1>k, <2>1, <2>3
<1>9. CASE Pane!ConfirmDelete
  <2>1. confirm' = Pane!Nothing /\ UNCHANGED <<rows, chosen, lists, prompt>>
    BY <1>9 DEF Pane!ConfirmDelete
  <2>2. PICK sent \in SUBSET Pane!Reached : ops' = ops \cup sent
    BY <1>9 DEF Pane!ConfirmDelete
  <2>3. path[active] \in Dirs /\ chosen[active] \subseteq Pane!Entries
    BY <1>0
  <2>4. Pane!Reached \subseteq Pane!Entries
    BY <1>h, <1>e, <2>3 DEF Pane!Reached
  <2>5. ops' \subseteq Pane!Entries
    BY <1>0, <2>2, <2>4
  <2> QED
    BY <1>0, <1>i, <1>l, <1>k, <2>1, <2>5
<1>10. CASE Pane!Cancel
  BY <1>0, <1>10, <1>i, <1>l, <1>k DEF Pane!Cancel
<1>11. ASSUME NEW kind \in {"rename", "mkdir"}, NEW name \in MoreNames, Pane!OpenPrompt(kind, name) PROVE PaneTypes'
  <2>1. prompt' = [kind |-> kind, old |-> name] /\ UNCHANGED <<rows, chosen, lists, ops, confirm>>
    BY <1>11 DEF Pane!OpenPrompt
  <2>2. prompt' \in Prompts
    BY <2>1 DEF Prompts
  <2> QED
    BY <1>0, <1>i, <1>l, <1>k, <2>1, <2>2
<1>12. ASSUME NEW name \in MoreNames, Pane!ConfirmPrompt(name) PROVE PaneTypes'
  <2>1. prompt # Pane!Nothing /\ prompt' = Pane!Nothing /\ UNCHANGED <<rows, chosen, lists, confirm>>
    BY <1>12 DEF Pane!ConfirmPrompt
  <2> DEFINE asked == IF prompt.kind = "rename" THEN prompt.old ELSE name
  <2>2. asked \in MoreNames
    BY <1>0, <2>1 DEF Prompts
  <2>3. PICK sent \in SUBSET {asked} : ops' = ops \cup {Pane!At(path[active], n) : n \in sent}
    BY <1>12 DEF Pane!ConfirmPrompt
  <2> HIDE DEF asked
  <2>4. path[active] \in Dirs
    BY <1>0
  <2>5. \A n \in sent : Pane!At(path[active], n) \in Pane!Entries
    BY <1>h, <2>2, <2>3, <2>4
  <2>6. ops' \subseteq Pane!Entries
    BY <1>0, <2>3, <2>5
  <2> QED
    BY <1>0, <1>i, <1>l, <1>k, <2>1, <2>6
<1>13. ASSUME NEW op, Pane!OnDone(op) PROVE PaneTypes'
  <2>1. ops' = ops \ {op} /\ Pane!RefreshTo(path[active]) /\ UNCHANGED <<rows, chosen, confirm, prompt>>
    BY <1>13 DEF Pane!OnDone
  <2>2. path[active] \in Dirs
    BY <1>0
  <2>3. Few'
    BY <2>1, <2>2, PaneFew DEF Few
  <2> QED
    BY <1>0, <1>i, <1>k, <2>1, <2>3
<1> QED
  BY <1>u, <1>1, <1>2, <1>3, <1>4, <1>5, <1>6, <1>7, <1>8, <1>9, <1>10, <1>11, <1>12, <1>13 DEF Pane!PanelNext

------------------------------------------------------------------------------
(* The types of the viewer.                                                 *)

\* The texts are stretches of files, and the tasks are few.
ViewReads  == [path : View!Paths, off : 0 .. LargeSize, len : {Page, Limit}]
ViewWrites == [path : View!Paths, data : View!Stretches]
ViewTypes ==
  /\ viewer = View!Closed \/ (viewer.text \in View!Stretches /\ viewer.editor \in View!Stretches)
  /\ reads \subseteq ViewReads /\ IsFiniteSet(reads) /\ Cardinality(reads) <= MaxReads
  /\ writes \subseteq ViewWrites /\ IsFiniteSet(writes) /\ Cardinality(writes) <= MaxSaves

\* The module's count is the library's.
LEMMA ViewCount == \A S : View!Cardinality(S) = Cardinality(S)
BY DEF View!Cardinality, Cardinality

\* The stretches.
LEMMA StretchFacts ==
  /\ View!Empty \in View!Stretches
  /\ \A p \in View!Paths, off \in 0 .. LargeSize, len \in 0 .. Limit : View!Stretch(p, off, len) \in View!Stretches
  /\ \A text \in View!Stretches : text.off \in 0 .. LargeSize
<1>1. View!Empty \in View!Stretches
  BY DEF View!Stretches
<1>2. ASSUME NEW p \in View!Paths, NEW off \in 0 .. LargeSize, NEW len \in 0 .. Limit
      PROVE  View!Stretch(p, off, len) \in View!Stretches
  BY DEF View!Stretches
<1>3. ASSUME NEW text \in View!Stretches PROVE text.off \in 0 .. LargeSize
  <2>1. 0 \in 0 .. LargeSize
    BY ViewBounds
  <2>2. CASE text = View!Empty
    BY <2>1, <2>2 DEF View!Empty
  <2>3. CASE \E p \in View!Paths, off \in 0 .. LargeSize, len \in 0 .. Limit : text = View!Stretch(p, off, len)
    <3>1. PICK p \in View!Paths, off \in 0 .. LargeSize, len \in 0 .. Limit : text = View!Stretch(p, off, len)
      BY <2>3
    <3> QED
      BY <3>1 DEF View!Stretch
  <2> QED
    BY <2>2, <2>3 DEF View!Stretches
<1> QED
  BY <1>1, <1>2, <1>3

\* Reads start within the largest file.
LEMMA OffsetFacts ==
  ASSUME NEW off \in 0 .. LargeSize, NEW p \in View!Paths, NEW forth \in BOOLEAN
  PROVE  View!PageOffset(off, View!Size[p], forth) \in 0 .. LargeSize
<1> DEFINE n == View!PageOffset(off, View!Size[p], forth)
           size == View!Size[p]
<1>1. size \in Nat /\ size <= LargeSize
  <2>1. size = SmallSize \/ size = LargeSize
    BY SizeFacts
  <2> QED
    BY <2>1, ViewBounds
<1>2. off \in Nat /\ off <= LargeSize /\ LargeSize \in Nat
  BY ViewBounds
<1>3. n \in Nat /\ (n <= off \/ n <= size)
  BY <1>1, <1>2, PageFacts
<1> HIDE DEF n, size
<1>4. n <= LargeSize
  BY <1>1, <1>2, <1>3
<1> QED
  BY <1>2, <1>3, <1>4 DEF n

\* This is the viewer's type invariant.
LEMMA ViewTypesMean == ViewInv /\ ViewTypes => View!TypeOK
<1> SUFFICES ASSUME ViewInv, ViewTypes PROVE View!TypeOK
  OBVIOUS
<1>1. viewer \in {View!Closed} \cup View!Viewers
  <2>1. CASE viewer = View!Closed
    BY <2>1
  <2>2. CASE viewer # View!Closed
    <3>1. OpenOK(viewer) /\ viewer.text \in View!Stretches /\ viewer.editor \in View!Stretches
      BY <2>2 DEF ViewInv, ViewTypes
    <3> QED
      BY <3>1 DEF OpenOK, View!Viewers
  <2> QED
    BY <2>1, <2>2
<1>2. 0 .. LargeSize \subseteq Nat
  OBVIOUS
<1>3. reads \subseteq [path : View!Paths, off : Nat, len : {Page, Limit}]
  BY <1>2 DEF ViewTypes, ViewReads
<1> QED
  BY <1>1, <1>3, ViewCount DEF ViewTypes, ViewWrites, View!TypeOK

\* No file is open at first.
LEMMA ViewTypesFirst == View!ViewerInit => ViewTypes
<1> SUFFICES ASSUME View!ViewerInit PROVE ViewTypes
  OBVIOUS
<1>1. viewer = View!Closed /\ reads = {} /\ writes = {}
  BY DEF View!ViewerInit
<1>2. IsFiniteSet(reads) /\ Cardinality(reads) <= MaxReads /\ IsFiniteSet(writes) /\ Cardinality(writes) <= MaxSaves
  <2>1. {MaxReads, MaxSaves} \subseteq Nat
    BY DeskAssumption
  <2>2. IsFiniteSet({}) /\ Cardinality({}) = 0
    BY FS_EmptySet
  <2> QED
    BY <1>1, <2>1, <2>2
<1> QED
  BY <1>1, <1>2 DEF ViewTypes

\* A task that ends makes them fewer.
LEMMA Fewer ==
  ASSUME NEW S, IsFiniteSet(S), NEW n \in Nat, Cardinality(S) <= n, NEW x
  PROVE  IsFiniteSet(S \ {x}) /\ Cardinality(S \ {x}) <= n
<1>1. IsFiniteSet(S \ {x}) /\ Cardinality(S \ {x}) <= Cardinality(S) /\ Cardinality(S \ {x}) \in Nat /\ Cardinality(S) \in Nat
  BY FS_Subset, FS_CardinalityType
<1> QED
  BY <1>1

\* A read that is sent is one more at most.
LEMMA ReadTypes ==
  ASSUME ViewTypes, NEW p \in View!Paths, NEW off \in 0 .. LargeSize, NEW len \in {Page, Limit}, View!Read(p, off, len)
  PROVE  reads' \subseteq ViewReads /\ IsFiniteSet(reads') /\ Cardinality(reads') <= MaxReads
<1> DEFINE r == [path |-> p, off |-> off, len |-> len]
<1>1. r \in ViewReads
  BY DEF ViewReads
<1>2. reads' \in {reads, reads \cup {r}} /\ Cardinality(reads') <= MaxReads
  BY ViewCount DEF View!Read
<1> HIDE DEF r
<1>3. IsFiniteSet(reads \cup {r})
  BY FS_AddElement DEF ViewTypes
<1> QED
  BY <1>1, <1>2, <1>3 DEF ViewTypes

\* A step of the viewer keeps its texts stretches of files.
LEMMA ViewTypesStep == ViewInv /\ ViewTypes /\ [View!ViewerNext]_viewVars => ViewTypes'
<1> SUFFICES ASSUME ViewInv, ViewTypes, [View!ViewerNext]_viewVars PROVE ViewTypes'
  OBVIOUS
<1> DEFINE Texts2(v) == v = View!Closed \/ (v.text \in View!Stretches /\ v.editor \in View!Stretches)
           Reads2 == reads \subseteq ViewReads /\ IsFiniteSet(reads) /\ Cardinality(reads) <= MaxReads
           Writes2 == writes \subseteq ViewWrites /\ IsFiniteSet(writes) /\ Cardinality(writes) <= MaxSaves
<1>0. Texts2(viewer) /\ Reads2 /\ Writes2 /\ MaxReads \in Nat /\ MaxSaves \in Nat
  <2>1. {MaxReads, MaxSaves} \subseteq Nat
    BY DeskAssumption
  <2> QED
    BY <2>1 DEF ViewTypes
<1>o. View!IsOpen => OpenOK(viewer) /\ viewer.text \in View!Stretches /\ viewer.editor \in View!Stretches
  BY <1>0 DEF ViewInv, View!IsOpen
<1>e. View!Empty \in View!Stretches
  BY StretchFacts
<1>z. 0 \in 0 .. LargeSize /\ Limit \in {Page, Limit} /\ Page \in {Page, Limit}
  BY ViewBounds
<1>i. ASSUME Texts2(viewer'), Reads2', Writes2' PROVE ViewTypes'
  BY <1>i DEF ViewTypes, ViewReads, ViewWrites, View!Closed
<1>r. reads' = reads => Reads2'
  BY <1>0
<1>w. writes' = writes => Writes2'
  BY <1>0
<1>f. \A r : reads' = reads \ {r} => Reads2'
  BY <1>0, Fewer
<1>g. \A w : writes' = writes \ {w} => Writes2'
  BY <1>0, Fewer
<1>t. ASSUME NEW v, v.text \in View!Stretches, v.editor \in View!Stretches PROVE Texts2(v)
  BY <1>t
<1> HIDE DEF Reads2, Writes2
<1>u. CASE UNCHANGED viewVars
  BY <1>0, <1>u, <1>i, <1>r, <1>w DEF viewVars
<1>1. ASSUME NEW p \in View!Paths, View!OpenFile(p) PROVE ViewTypes'
  <2>1. viewer'.text = View!Empty /\ viewer'.editor = View!Empty /\ View!Read(p, 0, Limit) /\ writes' = writes
    BY <1>1 DEF View!OpenFile
  <2>2. Reads2'
    BY <1>z, <2>1, ReadTypes DEF Reads2
  <2> QED
    BY <1>e, <1>i, <1>w, <2>1, <2>2
<1>2. CASE View!Close
  BY <1>2, <1>i, <1>r, <1>w DEF View!Close
<1>3. CASE View!ToggleEdit
  <2>1. /\ UNCHANGED <<reads, writes>> /\ View!IsOpen
        /\ \/ viewer' = [viewer EXCEPT !.mode = "preview"]
           \/ \E text \in {viewer.text, View!Empty} : viewer' = [viewer EXCEPT !.mode = "edit", !.editor = text]
    BY <1>3 DEF View!ToggleEdit
  <2>2. viewer'.text = viewer.text /\ viewer'.editor \in {viewer.editor, viewer.text, View!Empty}
    BY <1>o, <2>1 DEF OpenOK
  <2>3. viewer'.text \in View!Stretches /\ viewer'.editor \in View!Stretches
    BY <1>o, <1>e, <2>1, <2>2
  <2> QED
    BY <1>i, <1>r, <1>w, <2>1, <2>3
<1>4. CASE View!Edit
  <2>1. View!IsOpen /\ viewer' = [viewer EXCEPT !.dirty = TRUE] /\ UNCHANGED <<reads, writes>>
    BY <1>4 DEF View!Edit
  <2>2. viewer'.text = viewer.text /\ viewer'.editor = viewer.editor
    BY <1>o, <2>1 DEF OpenOK
  <2> QED
    BY <1>o, <1>i, <1>r, <1>w, <2>1, <2>2
<1>5. CASE View!Save
  <2> DEFINE w == [path |-> viewer.path, data |-> viewer.editor]
  <2>1. /\ View!IsOpen /\ viewer' = [viewer EXCEPT !.saving = TRUE] /\ reads' = reads
        /\ writes' \in {writes, writes \cup {w}} /\ Cardinality(writes') <= MaxSaves
    BY <1>5, ViewCount DEF View!Save
  <2>2. viewer'.text = viewer.text /\ viewer'.editor = viewer.editor
    BY <1>o, <2>1 DEF OpenOK
  <2>3. w \in ViewWrites
    BY <1>o, <2>1 DEF OpenOK, ViewWrites
  <2> HIDE DEF w
  <2>4. IsFiniteSet(writes \cup {w})
    BY <1>0, FS_AddElement DEF Writes2
  <2>5. Writes2'
    BY <1>0, <2>1, <2>3, <2>4 DEF Writes2
  <2> QED
    BY <1>o, <1>i, <1>r, <2>1, <2>2, <2>5
<1>6. ASSUME NEW forth \in BOOLEAN, View!TurnPage(forth) PROVE ViewTypes'
  <2> DEFINE off == View!PageOffset(viewer.text.off, View!Size[viewer.path], forth)
  <2>1. View!IsOpen /\ View!Read(viewer.path, off, Page) /\ viewer' = [viewer EXCEPT !.content = "loading"] /\ writes' = writes
    BY <1>6 DEF View!TurnPage
  <2>2. viewer'.text = viewer.text /\ viewer'.editor = viewer.editor /\ viewer.path \in View!Paths
    BY <1>o, <2>1 DEF OpenOK
  <2>3. viewer.text.off \in 0 .. LargeSize
    BY <1>o, <2>1, StretchFacts
  <2>4. off \in 0 .. LargeSize
    BY <2>2, <2>3, OffsetFacts
  <2> HIDE DEF off
  <2>5. Reads2'
    BY <1>z, <2>1, <2>2, <2>4, ReadTypes DEF Reads2
  <2> QED
    BY <1>o, <1>i, <1>w, <2>1, <2>2, <2>5
<1>7. ASSUME NEW r \in reads, View!Chunk(r) PROVE ViewTypes'
  <2> DEFINE text == View!Contents(r)
  <2>1. /\ reads' = reads \ {r} /\ writes' = writes
        /\ \/ viewer' = viewer
           \/ View!IsOpen /\ viewer' = [viewer EXCEPT !.content = "loaded", !.text = text]
           \/ View!IsOpen /\ viewer' = [viewer EXCEPT !.content = "paged", !.mode = "log", !.text = text]
    BY <1>7 DEF View!Chunk, View!Shown
  <2>2. text \in View!Stretches
    <3>1. IsRead(r) /\ r \in ViewReads
      BY <1>0 DEF ViewInv, Reads2
    <3>2. PICK n \in 0 .. Limit : text = View!Stretch(r.path, r.off, n)
      BY <3>1, ContentsFacts
    <3>3. r.path \in View!Paths /\ r.off \in 0 .. LargeSize
      BY <3>1 DEF ViewReads
    <3> QED
      BY <3>2, <3>3, StretchFacts
  <2> HIDE DEF text
  <2>3. Texts2(viewer')
    <3>1. CASE viewer' = viewer
      BY <1>0, <3>1
    <3>2. CASE viewer' # viewer
      <4>1. viewer'.text \in View!Stretches /\ viewer'.editor \in View!Stretches
        BY <1>o, <2>1, <2>2, <3>2 DEF OpenOK
      <4> QED
        BY <1>t, <4>1
    <3> QED
      BY <3>1, <3>2
  <2> QED
    BY <1>i, <1>w, <1>f, <2>1, <2>3
<1>8. ASSUME NEW r \in reads, View!ReadFails(r) PROVE ViewTypes'
  <2>1. /\ reads' = reads \ {r} /\ writes' = writes
        /\ \/ viewer' = viewer
           \/ View!IsOpen /\ viewer' = [viewer EXCEPT !.content = "loaded", !.text = View!Empty, !.saving = FALSE]
           \/ View!IsOpen /\ viewer' = [viewer EXCEPT !.saving = FALSE]
    BY <1>8 DEF View!ReadFails
  <2>3. Texts2(viewer')
    <3>1. CASE viewer' = viewer
      BY <1>0, <3>1
    <3>2. CASE viewer' # viewer
      <4>1. viewer'.text \in View!Stretches /\ viewer'.editor \in View!Stretches
        BY <1>o, <1>e, <2>1, <3>2 DEF OpenOK
      <4> QED
        BY <1>t, <4>1
    <3> QED
      BY <3>1, <3>2
  <2> QED
    BY <1>i, <1>w, <1>f, <2>1, <2>3
<1>9. ASSUME NEW w \in writes, NEW ok \in BOOLEAN, View!Saved(w, ok) PROVE ViewTypes'
  <2>1. /\ writes' = writes \ {w} /\ reads' = reads
        /\ \/ viewer' = viewer
           \/ View!IsOpen /\ viewer' = [viewer EXCEPT !.saving = FALSE, !.dirty = viewer.dirty /\ ~ok]
    BY <1>9 DEF View!Saved
  <2>3. Texts2(viewer')
    <3>1. CASE viewer' = viewer
      BY <1>0, <3>1
    <3>2. CASE viewer' # viewer
      <4>1. viewer'.text = viewer.text /\ viewer'.editor = viewer.editor /\ View!IsOpen
        BY <1>o, <2>1, <3>2 DEF OpenOK
      <4> QED
        BY <1>o, <1>t, <4>1
    <3> QED
      BY <3>1, <3>2
  <2> QED
    BY <1>i, <1>r, <1>g, <2>1, <2>3
<1>10. CASE View!LoseTasks
  <2>1. reads' = {} /\ writes' = {} /\ viewer' = viewer
    BY <1>10 DEF View!LoseTasks
  <2>2. Reads2' /\ Writes2'
    BY <1>0, <2>1, FS_EmptySet DEF Reads2, Writes2
  <2> QED
    BY <1>0, <1>i, <2>1, <2>2
<1> QED
  BY <1>u, <1>1, <1>2, <1>3, <1>4, <1>5, <1>6, <1>7, <1>8, <1>9, <1>10 DEF View!ViewerNext

------------------------------------------------------------------------------
(* The types of the mouse.                                                  *)

\* The buttons a program may be told of, and a cell of C or none.
Told == {"left", "middle", "none"}
MaybeIn(C) == C \cup {<<>>}

\* How many quick clicks it counts.
Streaks == 0 .. 2

\* What the canvas remembers, of the cells C.
CanvasOver(m, C) ==
  /\ CanvasShape(m)
  /\ {m.start, m.end, m.last, m.at} \subseteq MaybeIn(C)
  /\ m.dragging => m.start # <<>> /\ m.end # <<>>
  /\ m.streak \in Streaks /\ m.held \in Told

\* The steps that change a field or two of it.
Holding(m, h, p)  == [m EXCEPT !.held = h, !.at = p]
PointedAt(m, p)   == [m EXCEPT !.at = p]
EndingAt(m, c)    == [m EXCEPT !.end = c]
Dragged(m, on)    == [m EXCEPT !.dragging = on]
Wheeled(m, a)     == [m EXCEPT !.accum = a]

\* They keep its types.
LEMMA CanvasFields ==
  ASSUME NEW C, <<>> \notin C, NEW m, CanvasOver(m, C), NEW h \in Told, NEW p \in MaybeIn(C), NEW c \in C,
         NEW on \in BOOLEAN, on => m.dragging, NEW a
  PROVE  /\ CanvasOver(Holding(m, h, p), C) /\ Holding(m, h, p).accum = m.accum
         /\ CanvasOver(PointedAt(m, p), C) /\ PointedAt(m, p).accum = m.accum
         /\ CanvasOver(EndingAt(m, c), C) /\ EndingAt(m, c).accum = m.accum
         /\ CanvasOver(Dragged(m, on), C) /\ Dragged(m, on).accum = m.accum
         /\ CanvasOver(Wheeled(m, a), C) /\ Wheeled(m, a).accum = a
<1>0. /\ CanvasShape(m) /\ {m.start, m.end, m.last, m.at} \subseteq MaybeIn(C)
      /\ m.dragging => m.start # <<>> /\ m.end # <<>>
      /\ m.streak \in Streaks /\ m.held \in Told /\ c \in MaybeIn(C) /\ c # <<>>
  BY DEF CanvasOver, MaybeIn
<1>1. CanvasOver(Holding(m, h, p), C) /\ Holding(m, h, p).accum = m.accum
  <2> DEFINE v == Holding(m, h, p)
  <2>0. m = [dragging |-> m.dragging, start |-> m.start, end |-> m.end, last |-> m.last, streak |-> m.streak,
             held |-> m.held, at |-> m.at, accum |-> m.accum]
    BY <1>0 DEF CanvasShape
  <2>a. v = [m EXCEPT !.held = h, !.at = p]
    BY DEF Holding
  <2> HIDE DEF v
  <2>1. v = [dragging |-> m.dragging, start |-> m.start, end |-> m.end, last |-> m.last, streak |-> m.streak,
             held |-> h, at |-> p, accum |-> m.accum]
    BY ONLY <2>0, <2>a
  <2>2. /\ v.dragging = m.dragging /\ v.start = m.start /\ v.end = m.end /\ v.last = m.last /\ v.streak = m.streak
        /\ v.held = h /\ v.at = p /\ v.accum = m.accum
    BY <2>1
  <2>3. CanvasShape(v)
    BY <1>0, <2>1, <2>2, Zenon DEF CanvasShape
  <2>4. CanvasOver(v, C) /\ v.accum = m.accum
    BY <1>0, <2>2, <2>3 DEF CanvasOver
  <2> QED
    BY <2>4 DEF v
<1>2. CanvasOver(PointedAt(m, p), C) /\ PointedAt(m, p).accum = m.accum
  BY <1>0 DEF CanvasOver, CanvasShape, PointedAt, EndingAt, Wheeled
<1>3. CanvasOver(EndingAt(m, c), C) /\ EndingAt(m, c).accum = m.accum
  BY <1>0 DEF CanvasOver, CanvasShape, PointedAt, EndingAt, Wheeled
<1>4. CanvasOver(Dragged(m, on), C) /\ Dragged(m, on).accum = m.accum
  <2> DEFINE v == Dragged(m, on)
  <2>1. v = [dragging |-> on, start |-> m.start, end |-> m.end, last |-> m.last, streak |-> m.streak,
             held |-> m.held, at |-> m.at, accum |-> m.accum]
    BY <1>0 DEF CanvasShape, Dragged
  <2> HIDE DEF v
  <2>2. /\ v.dragging = on /\ v.start = m.start /\ v.end = m.end /\ v.last = m.last /\ v.streak = m.streak
        /\ v.held = m.held /\ v.at = m.at /\ v.accum = m.accum
    BY <2>1
  <2>3. CanvasShape(v)
    BY <2>1, <2>2, Zenon DEF CanvasShape
  <2>4. CanvasOver(v, C) /\ v.accum = m.accum
    BY <1>0, <2>2, <2>3 DEF CanvasOver
  <2> QED
    BY <2>4 DEF v
<1>5. CanvasOver(Wheeled(m, a), C) /\ Wheeled(m, a).accum = a
  BY <1>0 DEF CanvasOver, CanvasShape, PointedAt, EndingAt, Wheeled
<1> QED
  BY <1>1, <1>2, <1>3, <1>4, <1>5

\* A click selects a stretch of its row, or starts a drag.
LEMMA ClickTypes ==
  ASSUME NEW C, <<>> \notin C, CanvasOver(mouse, C), NEW c \in C, \A k \in 0 .. Cols : <<k, c[2]>> \in C,
         NEW n \in 1 .. 3
  PROVE  LET next == Select!Clicked(c, n)
         IN  CanvasOver(next, C) /\ next.accum = mouse.accum /\ next.start \in C /\ next.end \in C
<1> DEFINE next == Select!Clicked(c, n)
           word == Select!WordAt(c)
           low == Select!LowEnd(word)
           high == Select!HighEnd(word)
           Whole(s, e, k) == [mouse EXCEPT !.dragging = FALSE, !.start = s, !.end = e, !.streak = k, !.last = c]
           drag == [mouse EXCEPT !.dragging = TRUE, !.start = c, !.end = c, !.streak = n, !.last = c]
<1>1. \/ next = Whole(<<0, c[2]>>, <<Cols - 1, c[2]>>, 0)
      \/ word # {} /\ next = Whole(<<low, c[2]>>, <<high, c[2]>>, 2)
      \/ n \in 1 .. 2 /\ next = drag
  BY DEF Select!Clicked
<1>2. word # {} => low \in 0 .. Cols /\ high \in 0 .. Cols
  BY WordFacts
<1>3. 0 \in 0 .. Cols /\ Cols - 1 \in 0 .. Cols
  BY MouseBounds
<1>0. /\ CanvasShape(mouse) /\ {mouse.start, mouse.end, mouse.last, mouse.at} \subseteq MaybeIn(C)
      /\ mouse.held \in Told /\ C \subseteq MaybeIn(C)
  BY DEF CanvasOver, MaybeIn
<1>4. ASSUME NEW s \in C, NEW e \in C, NEW k \in Streaks
      PROVE  CanvasOver(Whole(s, e, k), C) /\ Whole(s, e, k).accum = mouse.accum /\ Whole(s, e, k).start = s /\ Whole(s, e, k).end = e
  <2> DEFINE v == Whole(s, e, k)
  <2>1. s \in MaybeIn(C) /\ e \in MaybeIn(C) /\ c \in MaybeIn(C)
    BY <1>0
  <2>0. mouse = [dragging |-> mouse.dragging, start |-> mouse.start, end |-> mouse.end, last |-> mouse.last,
                 streak |-> mouse.streak, held |-> mouse.held, at |-> mouse.at, accum |-> mouse.accum]
    BY <1>0 DEF CanvasShape
  <2>a. v = [mouse EXCEPT !.dragging = FALSE, !.start = s, !.end = e, !.streak = k, !.last = c]
    OBVIOUS
  <2> HIDE DEF v
  <2>2. v = [dragging |-> FALSE, start |-> s, end |-> e, last |-> c, streak |-> k,
             held |-> mouse.held, at |-> mouse.at, accum |-> mouse.accum]
    BY ONLY <2>0, <2>a
  <2>3. /\ v.dragging = FALSE /\ v.start = s /\ v.end = e /\ v.last = c /\ v.streak = k
        /\ v.held = mouse.held /\ v.at = mouse.at /\ v.accum = mouse.accum
    BY <2>2
  <2>4. CanvasShape(v)
    BY <2>2, <2>3, Zenon DEF CanvasShape
  <2>5. CanvasOver(v, C) /\ v.accum = mouse.accum /\ v.start = s /\ v.end = e
    BY <1>0, <2>1, <2>3, <2>4 DEF CanvasOver
  <2> QED
    BY <2>5 DEF v
<1>5. n \in Streaks => CanvasOver(drag, C) /\ drag.accum = mouse.accum /\ drag.start = c /\ drag.end = c
  <2> HAVE n \in Streaks
  <2>1. c \in MaybeIn(C) /\ c # <<>>
    BY <1>0
  <2>0. mouse = [dragging |-> mouse.dragging, start |-> mouse.start, end |-> mouse.end, last |-> mouse.last,
                 streak |-> mouse.streak, held |-> mouse.held, at |-> mouse.at, accum |-> mouse.accum]
    BY <1>0 DEF CanvasShape
  <2>a. drag = [mouse EXCEPT !.dragging = TRUE, !.start = c, !.end = c, !.streak = n, !.last = c]
    OBVIOUS
  <2> HIDE DEF drag
  <2>2. drag = [dragging |-> TRUE, start |-> c, end |-> c, last |-> c, streak |-> n,
                held |-> mouse.held, at |-> mouse.at, accum |-> mouse.accum]
    BY ONLY <2>0, <2>a
  <2>3. /\ drag.dragging = TRUE /\ drag.start = c /\ drag.end = c /\ drag.last = c /\ drag.streak = n
        /\ drag.held = mouse.held /\ drag.at = mouse.at /\ drag.accum = mouse.accum
    BY <2>2
  <2>4. CanvasShape(drag)
    BY <2>2, <2>3, Zenon DEF CanvasShape
  <2> QED
    BY <1>0, <2>1, <2>3, <2>4 DEF CanvasOver
<1> HIDE DEF next, word, low, high, Whole, drag
<1>6. 0 \in Streaks /\ 2 \in Streaks /\ (n \in 1 .. 2 => n \in Streaks)
  BY DEF Streaks
<1>7. CASE next = Whole(<<0, c[2]>>, <<Cols - 1, c[2]>>, 0)
  BY <1>3, <1>4, <1>6, <1>7 DEF next
<1>8. CASE word # {} /\ next = Whole(<<low, c[2]>>, <<high, c[2]>>, 2)
  BY <1>2, <1>4, <1>6, <1>8 DEF next
<1>9. CASE n \in 1 .. 2 /\ next = drag
  BY <1>5, <1>6, <1>9 DEF next
<1> QED
  BY <1>1, <1>7, <1>8, <1>9

\* Of the buttons, keys and modes.
PressKeys == mode \in {Legacy, Keys} /\ {shift, menu, astray, covered} \subseteq BOOLEAN /\ down \subseteq Press!Buttons /\ told \in Told

\* What is drawn is on the grid, no wheel turns, and the program is told of buttons.
PressTypes ==
  /\ CanvasOver(mouse, Press!Cells) /\ mouse.accum = 0 /\ owed = 0
  /\ grown \in 1 .. PressRows /\ selection \in MaybeIn(Press!Cells \X Press!Cells) /\ PressKeys

\* The grid's rows, and its cells.
LEMMA PressCells ==
  /\ PressRows \in Nat \ {0} /\ <<>> \notin Press!Cells
  /\ \A c \in Press!Cells : c[2] \in 0 .. PressRows - 1
  /\ \A k \in 0 .. Cols, r \in 0 .. PressRows - 1 : <<k, r>> \in Press!Cells
<1>1. {PressRows} \subseteq Nat /\ PressRows # 0
  BY DeskAssumption
<1> QED
  BY <1>1 DEF Press!Cells

\* A click is one on either grid.
LEMMA PressClicks == \A c, n : Press!Clicked(c, n) = Select!Clicked(c, n)
BY DEF Press!Clicked, Select!Clicked, Press!WordAt, Select!WordAt, Press!Run, Select!Run, Press!LowEnd, Select!LowEnd,
       Press!HighEnd, Select!HighEnd

\* This is the mouse's type invariant.
LEMMA PressTypesMean == PressInv /\ PressTypes => Press!TypeOK
<1> SUFFICES ASSUME PressInv, PressTypes PROVE Press!TypeOK
  OBVIOUS
<1>1. mouse.accum \in 1 - Notch .. Notch - 1 /\ owed \in Int
  BY MouseBounds DEF PressTypes
<1>2. grown \in 1 .. PressRows /\ selection \in (Press!Cells \X Press!Cells) \cup {<<>>}
  BY DEF PressTypes, MaybeIn
<1> DEFINE A == 1 - Notch .. Notch - 1
           B == 0 .. 2
           K == Press!Cells
<1>3. mouse.accum \in A
  BY <1>1
<1>4. CanvasOver(mouse, K)
  BY DEF PressTypes
<1>5. mouse.streak \in B
  BY <1>4 DEF CanvasOver, Streaks
<1> HIDE DEF A, B, K
<1>6. mouse \in [dragging : BOOLEAN, start : K \cup {<<>>}, end : K \cup {<<>>}, last : K \cup {<<>>}, streak : B,
                held : {"left", "middle", "none"}, at : K \cup {<<>>}, accum : A]
  BY <1>3, <1>4, <1>5 DEF CanvasOver, CanvasShape, MaybeIn, Told
<1>7. PressKeys
  BY DEF PressTypes
<1> QED
  BY <1>1, <1>2, <1>6, <1>7 DEF PressKeys, Press!TypeOK, Press!None, Press!NoButton, A, B, K, Told

\* The mouse starts with nothing selected and no button told.
LEMMA PressTypesFirst == Press!PointerInit => PressTypes
<1> SUFFICES ASSUME Press!PointerInit PROVE PressTypes
  OBVIOUS
<1>1. /\ grown = PressRows /\ mode \in {Legacy, Keys} /\ shift = FALSE /\ down = {}
      /\ mouse = [dragging |-> FALSE, start |-> <<>>, end |-> <<>>, last |-> <<>>, streak |-> 0,
                  held |-> "none", at |-> <<>>, accum |-> 0]
      /\ selection = <<>> /\ menu = FALSE /\ told = "none" /\ astray = FALSE /\ covered = FALSE /\ owed = 0
  BY DEF Press!PointerInit, Press!None, Press!NoButton
<1>2. /\ mouse.dragging = FALSE /\ mouse.start = <<>> /\ mouse.end = <<>> /\ mouse.last = <<>> /\ mouse.streak = 0
      /\ mouse.held = "none" /\ mouse.at = <<>> /\ mouse.accum = 0
  BY <1>1
<1>3. mouse.streak \in Streaks
  BY <1>2 DEF Streaks
<1>4. CanvasShape(mouse)
  BY <1>1, <1>2, Zenon DEF CanvasShape
<1>5. CanvasOver(mouse, Press!Cells)
  BY <1>2, <1>3, <1>4 DEF CanvasOver, MaybeIn, Told
<1>6. PressKeys
  BY <1>1 DEF PressKeys, Told
<1>7. grown \in 1 .. PressRows
  BY <1>1, PressCells
<1> QED
  BY <1>1, <1>2, <1>5, <1>6, <1>7 DEF PressTypes, MaybeIn

\* A step of the mouse keeps what is drawn on the grid.
LEMMA PressTypesStep == PressInv /\ PressTypes /\ [Press!PointerNext]_mouseVars => PressTypes'
<1> SUFFICES ASSUME PressInv, PressTypes, [Press!PointerNext]_mouseVars PROVE PressTypes'
  OBVIOUS
<1> DEFINE C == Press!Cells
           Drawn == grown \in 1 .. PressRows /\ selection \in MaybeIn(C \X C) /\ owed = 0
           Whole(m) == CanvasOver(m, C) /\ m.accum = 0
<1>0. Whole(mouse) /\ Drawn /\ PressKeys
  BY DEF PressTypes
<1>i. ASSUME Whole(mouse'), Drawn', PressKeys' PROVE PressTypes'
  BY <1>i DEF PressTypes, Press!Cells
<1>c. <<>> \notin C /\ C # {}
  <2>1. 0 \in 0 .. Cols /\ 0 \in 0 .. PressRows - 1
    BY MouseBounds, PressCells
  <2>2. <<0, 0>> \in C
    BY <2>1, PressCells
  <2> QED
    BY <2>2, PressCells
<1>s. Press!Spots \subseteq MaybeIn(C) /\ Press!Spots \ {Press!Outside} \subseteq C
  BY DEF Press!Spots, Press!Outside, MaybeIn
<1> HIDE DEF C
<1>k. /\ \A h \in Told, q \in MaybeIn(C) : Whole(Holding(mouse, h, q)) /\ Whole(PointedAt(mouse, q))
      /\ \A c \in C : Whole(EndingAt(mouse, c))
      /\ \A on \in BOOLEAN : (on => mouse.dragging) => Whole(Dragged(mouse, on))
  <2>1. <<>> \in MaybeIn(C) /\ "none" \in Told /\ \E c \in C : TRUE
    BY <1>c DEF Told, MaybeIn
  <2>2. CanvasOver(mouse, C)
    BY <1>0
  <2>3. ASSUME NEW h \in Told, NEW q \in MaybeIn(C), NEW c \in C, NEW on \in BOOLEAN, on => mouse.dragging
        PROVE  /\ Whole(Holding(mouse, h, q)) /\ Whole(PointedAt(mouse, q))
               /\ Whole(EndingAt(mouse, c)) /\ Whole(Dragged(mouse, on))
    <3> HIDE DEF Whole
    <3>1. /\ CanvasOver(Holding(mouse, h, q), C) /\ Holding(mouse, h, q).accum = mouse.accum
          /\ CanvasOver(PointedAt(mouse, q), C) /\ PointedAt(mouse, q).accum = mouse.accum
          /\ CanvasOver(EndingAt(mouse, c), C) /\ EndingAt(mouse, c).accum = mouse.accum
          /\ CanvasOver(Dragged(mouse, on), C) /\ Dragged(mouse, on).accum = mouse.accum
      BY <1>c, <2>2, <2>3, CanvasFields
    <3> QED
      BY <1>0, <3>1 DEF Whole
  <2> QED
    BY <2>1, <2>3
<1> HIDE DEF Whole, Drawn
<1>b. mouse.held \in Told
  BY <1>0 DEF Whole, CanvasOver
<1>u. CASE UNCHANGED mouseVars
  BY <1>0, <1>i, <1>u DEF mouseVars, PressKeys, Drawn
<1>r. ASSUME UNCHANGED <<grown, selection, owed>>, Whole(mouse'), PressKeys' PROVE PressTypes'
  BY <1>0, <1>i, <1>r DEF Drawn
<1>1. ASSUME NEW q, Press!OpenMenu(q) PROVE PressTypes'
  BY <1>0, <1>1, <1>r DEF Press!OpenMenu, PressKeys
<1>2. ASSUME NEW q \in Press!Spots, Press!MoveReported(q) PROVE PressTypes'
  <2>1. /\ mouse' = PointedAt(mouse, q) /\ told' \in {told, mouse.held}
        /\ UNCHANGED <<grown, mode, shift, down, selection, menu, astray, covered, owed>>
    BY <1>2 DEF Press!MoveReported, PointedAt
  <2>2. Whole(mouse')
    BY <1>k, <1>s, <1>b, <2>1
  <2> QED
    BY <1>0, <1>b, <1>r, <2>1, <2>2 DEF PressKeys
<1>3. ASSUME NEW q \in Press!Spots, NEW b \in Press!Buttons, Press!PressReported(b, q) PROVE PressTypes'
  <2>1. /\ b \in {"left", "middle"} /\ down' = down \cup {b} /\ told' \in {told, b}
        /\ mouse' = mouse \/ mouse' = Holding(mouse, b, q)
        /\ UNCHANGED <<grown, mode, shift, selection, menu, astray, covered, owed>>
    BY <1>3 DEF Press!PressReported, Holding
  <2>2. b \in Told /\ q \in MaybeIn(C)
    BY <1>s, <2>1 DEF Told
  <2>3. Whole(mouse')
    BY <1>0, <1>k, <2>1, <2>2
  <2> QED
    BY <1>0, <1>r, <2>1, <2>2, <2>3 DEF PressKeys
<1>4. ASSUME NEW q \in Press!Spots, NEW b \in Press!Buttons, Press!ReleaseReported(b, q) PROVE PressTypes'
  <2>1. /\ down' = down \ {b} /\ told' \in {told, "none"} /\ astray' = (astray \/ b \in {told', mouse'.held})
        /\ mouse' = mouse \/ mouse' = Holding(mouse, "none", <<>>)
        /\ UNCHANGED <<grown, mode, shift, selection, menu, covered, owed>>
    BY <1>4 DEF Press!ReleaseReported, Press!NoButton, Press!None, Holding
  <2>2. "none" \in Told /\ <<>> \in MaybeIn(C)
    BY DEF Told, MaybeIn
  <2>3. Whole(mouse')
    BY <1>0, <1>k, <2>1, <2>2
  <2>4. astray' \in BOOLEAN
    BY <2>1, Zenon
  <2> QED
    BY <1>0, <1>r, <2>1, <2>2, <2>3, <2>4 DEF PressKeys
<1>5. ASSUME NEW c \in Press!Spots \ {Press!Outside}, NEW quick \in BOOLEAN, Press!PressSelects(c, quick) PROVE PressTypes'
  <2> DEFINE n == IF quick THEN mouse.streak + 1 ELSE 1
             next == Select!Clicked(c, n)
  <2>1. /\ mouse' = next /\ selection' = (IF next.dragging THEN <<>> ELSE <<next.start, next.end>>)
        /\ down' = down \cup {"left"} /\ menu' = FALSE /\ covered' = FALSE
        /\ UNCHANGED <<grown, mode, shift, told, astray, owed>>
    BY <1>5, PressClicks DEF Press!PressSelects, Press!None
  <2>2. c \in C /\ c[2] \in 0 .. PressRows - 1 /\ CanvasOver(mouse, C)
    BY <1>0, <1>s, PressCells DEF C, Whole
  <2>3. \A k \in 0 .. Cols : <<k, c[2]>> \in C
    BY <2>2, PressCells DEF C
  <2>4. n \in 1 .. 3
    <3>1. mouse.streak \in 0 .. 2
      BY <2>2 DEF CanvasOver, Streaks
    <3> QED
      BY <3>1
  <2> HIDE DEF n
  <2>5. CanvasOver(next, C) /\ next.accum = mouse.accum /\ next.start \in C /\ next.end \in C
    BY <1>c, <2>2, <2>3, <2>4, ClickTypes
  <2> HIDE DEF next
  <2>6. Whole(mouse')
    BY <1>0, <2>1, <2>5 DEF Whole
  <2>7. PressKeys'
    BY <1>0, <2>1 DEF PressKeys, Press!Buttons
  <2>8. Drawn'
    BY <1>0, <2>1, <2>5 DEF Drawn, MaybeIn, C, Press!Cells
  <2> QED
    BY <1>i, <2>6, <2>7, <2>8
<1>6. ASSUME NEW c, Press!PressOpensUrl(c) PROVE PressTypes'
  BY <1>0, <1>6, <1>r DEF Press!PressOpensUrl, PressKeys, Press!Buttons
<1>7. ASSUME NEW b \in Press!Buttons, Press!PressIgnored(b) PROVE PressTypes'
  BY <1>0, <1>7, <1>r DEF Press!PressIgnored, PressKeys
<1>8. ASSUME NEW c \in Press!Spots \ {Press!Outside}, Press!Drag(c) PROVE PressTypes'
  <2>1. /\ mouse' = EndingAt(mouse, c)
        /\ UNCHANGED <<grown, mode, shift, down, selection, menu, told, astray, covered, owed>>
    BY <1>8 DEF Press!Drag, EndingAt
  <2>2. Whole(mouse')
    BY <1>k, <1>s, <2>1
  <2> QED
    BY <1>0, <1>r, <2>1, <2>2 DEF PressKeys
<1>9. ASSUME NEW b \in Press!Buttons, Press!Release(b) PROVE PressTypes'
  <2> DEFINE ends == b = "left" /\ mouse.dragging
             on == mouse.dragging /\ ~ends
  <2>1. /\ down' = down \ {b} /\ mouse' = Dragged(mouse, on)
        /\ selection' = IF ~ends THEN selection
                        ELSE IF mouse.start = mouse.end THEN <<>> ELSE <<mouse.start, mouse.end>>
        /\ menu' = (menu /\ ~ends) /\ astray' = (astray \/ b \in {told, mouse.held})
        /\ UNCHANGED <<grown, mode, shift, told, covered, owed>>
    BY <1>9 DEF Press!Release, Press!None, Dragged
  <2>2. on \in BOOLEAN /\ (on => mouse.dragging) /\ menu' \in BOOLEAN /\ astray' \in BOOLEAN
    BY <2>1, Zenon
  <2>3. Whole(mouse')
    BY <1>k, <2>1, <2>2
  <2>4. PressKeys'
    BY <1>0, <2>1, <2>2 DEF PressKeys
  <2>5. selection' \in MaybeIn(C \X C)
    <3>1. CASE ends
      <4>1. mouse.start \in C /\ mouse.end \in C
        BY <1>0, <3>1 DEF Whole, CanvasOver, MaybeIn
      <4> QED
        BY <2>1, <3>1, <4>1 DEF MaybeIn
    <3>2. CASE ~ends
      BY <1>0, <2>1, <3>2 DEF Drawn
    <3> QED
      BY <3>1, <3>2
  <2>6. Drawn'
    BY <1>0, <2>1, <2>5 DEF Drawn, C, Press!Cells
  <2> QED
    BY <1>i, <2>3, <2>4, <2>6
<1>10. CASE Press!SelectAll
  <2>1. /\ selection' = <<<<0, 0>>, <<Cols - 1, grown - 1>>>> /\ menu' = FALSE /\ covered' = TRUE
        /\ UNCHANGED <<grown, mode, shift, down, mouse, told, astray, owed>>
    BY <1>10 DEF Press!SelectAll
  <2>2. 0 \in 0 .. Cols /\ 0 \in 0 .. PressRows - 1 /\ Cols - 1 \in 0 .. Cols /\ grown - 1 \in 0 .. PressRows - 1
    BY <1>0, MouseBounds, PressCells DEF Drawn
  <2>3. <<0, 0>> \in C /\ <<Cols - 1, grown - 1>> \in C
    BY <2>2, PressCells DEF C
  <2>4. Drawn'
    BY <1>0, <2>1, <2>3 DEF Drawn, MaybeIn, C, Press!Cells
  <2>5. PressKeys'
    BY <1>0, <2>1 DEF PressKeys
  <2> QED
    BY <1>0, <1>i, <2>1, <2>4, <2>5
<1>11. CASE Press!CloseMenu \/ Press!Shift
  <2>1. /\ UNCHANGED <<grown, mode, down, mouse, selection, told, astray, covered, owed>>
        /\ (menu' = menu \/ menu' = FALSE) /\ (shift' = shift \/ shift' = ~shift)
    BY <1>11 DEF Press!CloseMenu, Press!Shift
  <2>2. menu \in BOOLEAN /\ shift \in BOOLEAN
    BY <1>0 DEF PressKeys
  <2>3. menu' \in BOOLEAN /\ shift' \in BOOLEAN
    BY <2>1, <2>2, Zenon
  <2> QED
    BY <1>0, <1>r, <2>1, <2>3 DEF PressKeys
<1>12. ASSUME NEW k \in {Legacy, Keys}, Press!SetMode(k) PROVE PressTypes'
  BY <1>0, <1>12, <1>r DEF Press!SetMode, PressKeys
<1>13. CASE Press!Resize
  <2>1. grown' \in 1 .. PressRows /\ UNCHANGED <<mode, shift, down, mouse, selection, menu, told, astray, covered, owed>>
    BY <1>13 DEF Press!Resize
  <2>2. Drawn'
    BY <1>0, <2>1 DEF Drawn, C, Press!Cells
  <2>3. PressKeys'
    BY <1>0, <2>1 DEF PressKeys
  <2> QED
    BY <1>0, <1>i, <2>1, <2>2, <2>3
<1> QED
  BY <1>u, <1>1, <1>2, <1>3, <1>4, <1>5, <1>6, <1>7, <1>8, <1>9, <1>10, <1>11, <1>12, <1>13 DEF Press!PointerNext

\* Of the buttons, keys and modes.
SelectKeys == mode \in {Keys} /\ {shift, menu, astray, covered} \subseteq BOOLEAN /\ down \subseteq Select!Buttons /\ told \in Told

\* What is drawn is on the grid, and the program is told of buttons.
SelectTypes == CanvasOver(mouse, Select!Cells) /\ SelectKeys

\* The grid's cells.
LEMMA SelectCells ==
  /\ <<>> \notin Select!Cells
  /\ \A c \in Select!Cells : c[2] \in 0 .. SelectRows - 1
  /\ \A k \in 0 .. Cols, r \in 0 .. SelectRows - 1 : <<k, r>> \in Select!Cells
BY CellFacts

\* This is the mouse's type invariant.
LEMMA SelectTypesMean == SelectInv /\ SelectTypes => Select!TypeOK
<1> SUFFICES ASSUME SelectInv, SelectTypes PROVE Select!TypeOK
  OBVIOUS
<1>1. mouse.accum \in 1 - Notch .. Notch - 1 /\ owed \in Int
  <2>1. mouse.accum \in Int /\ owed = mouse.accum /\ owed < Notch /\ -owed < Notch
    BY DEF SelectInv, Select!WheelExact
  <2> DEFINE a == mouse.accum
  <2>2. a \in Int /\ owed = a /\ a < Notch /\ -a < Notch
    BY <2>1
  <2> HIDE DEF a
  <2>3. a \in 1 - Notch .. Notch - 1 /\ owed \in Int
    BY <2>2, MouseBounds
  <2> QED
    BY <2>3 DEF a
<1>2. grown \in 1 .. SelectRows /\ selection \in (Select!Cells \X Select!Cells) \cup {<<>>}
  BY DEF SelectInv, SelectEnds
<1> DEFINE A == 1 - Notch .. Notch - 1
           B == 0 .. 2
           K == Select!Cells
<1>3. mouse.accum \in A
  BY <1>1
<1>4. CanvasOver(mouse, K)
  BY DEF SelectTypes
<1>5. mouse.streak \in B
  BY <1>4 DEF CanvasOver, Streaks
<1> HIDE DEF A, B, K
<1>6. mouse \in [dragging : BOOLEAN, start : K \cup {<<>>}, end : K \cup {<<>>}, last : K \cup {<<>>}, streak : B,
                held : {"left", "middle", "none"}, at : K \cup {<<>>}, accum : A]
  BY <1>3, <1>4, <1>5 DEF CanvasOver, CanvasShape, MaybeIn, Told
<1>7. SelectKeys
  BY DEF SelectTypes
<1> QED
  BY <1>1, <1>2, <1>6, <1>7 DEF SelectKeys, Select!TypeOK, Select!None, Select!NoButton, A, B, K, Told

\* The mouse starts with nothing selected and no button told.
LEMMA SelectTypesFirst == Select!PointerInit => SelectTypes
<1> SUFFICES ASSUME Select!PointerInit PROVE SelectTypes
  OBVIOUS
<1>1. /\ grown = SelectRows /\ mode \in {Keys} /\ shift = FALSE /\ down = {}
      /\ mouse = [dragging |-> FALSE, start |-> <<>>, end |-> <<>>, last |-> <<>>, streak |-> 0,
                  held |-> "none", at |-> <<>>, accum |-> 0]
      /\ selection = <<>> /\ menu = FALSE /\ told = "none" /\ astray = FALSE /\ covered = FALSE /\ owed = 0
  BY DEF Select!PointerInit, Select!None, Select!NoButton
<1>2. /\ mouse.dragging = FALSE /\ mouse.start = <<>> /\ mouse.end = <<>> /\ mouse.last = <<>> /\ mouse.streak = 0
      /\ mouse.held = "none" /\ mouse.at = <<>> /\ mouse.accum = 0
  BY <1>1
<1>3. mouse.streak \in Streaks
  BY <1>2 DEF Streaks
<1>4. CanvasShape(mouse)
  BY <1>1, <1>2, Zenon DEF CanvasShape
<1>5. CanvasOver(mouse, Select!Cells)
  BY <1>2, <1>3, <1>4 DEF CanvasOver, MaybeIn, Told
<1>6. SelectKeys
  BY <1>1 DEF SelectKeys, Told
<1> QED
  BY <1>5, <1>6 DEF SelectTypes

\* A step of the mouse keeps what is drawn on the grid.
LEMMA SelectTypesStep == SelectInv /\ SelectTypes /\ [Select!PointerNext]_mouseVars => SelectTypes'
<1> SUFFICES ASSUME SelectInv, SelectTypes, [Select!PointerNext]_mouseVars PROVE SelectTypes'
  OBVIOUS
<1> DEFINE C == Select!Cells
           Whole(m) == CanvasOver(m, C)
<1>0. Whole(mouse) /\ SelectKeys
  BY DEF SelectTypes
<1>i. ASSUME Whole(mouse'), SelectKeys' PROVE SelectTypes'
  BY <1>i DEF SelectTypes, Select!Cells
<1>c. <<>> \notin C /\ C # {}
  <2>1. 0 \in 0 .. Cols /\ 0 \in 0 .. SelectRows - 1
    BY MouseBounds
  <2>2. <<0, 0>> \in C
    BY <2>1, SelectCells
  <2> QED
    BY <2>2, SelectCells
<1>s. Select!Spots \subseteq MaybeIn(C) /\ Select!Spots \ {Select!Outside} \subseteq C
  BY DEF Select!Spots, Select!Outside, MaybeIn
<1> HIDE DEF C
<1>k. /\ \A h \in Told, q \in MaybeIn(C) : Whole(Holding(mouse, h, q)) /\ Whole(PointedAt(mouse, q))
      /\ \A c \in C : Whole(EndingAt(mouse, c))
      /\ \A on \in BOOLEAN : (on => mouse.dragging) => Whole(Dragged(mouse, on))
  <2>1. <<>> \in MaybeIn(C) /\ "none" \in Told /\ \E c \in C : TRUE
    BY <1>c DEF Told, MaybeIn
  <2>2. CanvasOver(mouse, C)
    BY <1>0
  <2>3. ASSUME NEW h \in Told, NEW q \in MaybeIn(C), NEW c \in C, NEW on \in BOOLEAN, on => mouse.dragging
        PROVE  /\ Whole(Holding(mouse, h, q)) /\ Whole(PointedAt(mouse, q))
               /\ Whole(EndingAt(mouse, c)) /\ Whole(Dragged(mouse, on))
    <3> HIDE DEF Whole
    <3>1. /\ CanvasOver(Holding(mouse, h, q), C) /\ Holding(mouse, h, q).accum = mouse.accum
          /\ CanvasOver(PointedAt(mouse, q), C) /\ PointedAt(mouse, q).accum = mouse.accum
          /\ CanvasOver(EndingAt(mouse, c), C) /\ EndingAt(mouse, c).accum = mouse.accum
          /\ CanvasOver(Dragged(mouse, on), C) /\ Dragged(mouse, on).accum = mouse.accum
      BY <1>c, <2>2, <2>3, CanvasFields
    <3> QED
      BY <1>0, <3>1 DEF Whole
  <2> QED
    BY <2>1, <2>3
<1> HIDE DEF Whole
<1>b. mouse.held \in Told
  BY <1>0 DEF Whole, CanvasOver
<1>u. CASE UNCHANGED mouseVars
  BY <1>0, <1>i, <1>u DEF mouseVars, SelectKeys
<1>r. ASSUME UNCHANGED <<grown, selection, owed>>, Whole(mouse'), SelectKeys' PROVE SelectTypes'
  BY <1>0, <1>i, <1>r
<1>1. ASSUME NEW q, Select!OpenMenu(q) PROVE SelectTypes'
  BY <1>0, <1>1, <1>r DEF Select!OpenMenu, SelectKeys
<1>2. ASSUME NEW q \in Select!Spots, Select!MoveReported(q) PROVE SelectTypes'
  <2>1. /\ mouse' = PointedAt(mouse, q) /\ told' \in {told, mouse.held}
        /\ UNCHANGED <<grown, mode, shift, down, selection, menu, astray, covered, owed>>
    BY <1>2 DEF Select!MoveReported, PointedAt
  <2>2. Whole(mouse')
    BY <1>k, <1>s, <1>b, <2>1
  <2> QED
    BY <1>0, <1>b, <1>r, <2>1, <2>2 DEF SelectKeys
<1>3. ASSUME NEW q \in Select!Spots, NEW b \in Select!Buttons, Select!PressReported(b, q) PROVE SelectTypes'
  <2>1. /\ b \in {"left", "middle"} /\ down' = down \cup {b} /\ told' \in {told, b}
        /\ mouse' = mouse \/ mouse' = Holding(mouse, b, q)
        /\ UNCHANGED <<grown, mode, shift, selection, menu, astray, covered, owed>>
    BY <1>3 DEF Select!PressReported, Holding
  <2>2. b \in Told /\ q \in MaybeIn(C)
    BY <1>s, <2>1 DEF Told
  <2>3. Whole(mouse')
    BY <1>0, <1>k, <2>1, <2>2
  <2> QED
    BY <1>0, <1>r, <2>1, <2>2, <2>3 DEF SelectKeys
<1>4. ASSUME NEW q \in Select!Spots, NEW b \in Select!Buttons, Select!ReleaseReported(b, q) PROVE SelectTypes'
  <2>1. /\ down' = down \ {b} /\ told' \in {told, "none"} /\ astray' = (astray \/ b \in {told', mouse'.held})
        /\ mouse' = mouse \/ mouse' = Holding(mouse, "none", <<>>)
        /\ UNCHANGED <<grown, mode, shift, selection, menu, covered, owed>>
    BY <1>4 DEF Select!ReleaseReported, Select!NoButton, Select!None, Holding
  <2>2. "none" \in Told /\ <<>> \in MaybeIn(C)
    BY DEF Told, MaybeIn
  <2>3. Whole(mouse')
    BY <1>0, <1>k, <2>1, <2>2
  <2>4. astray' \in BOOLEAN
    BY <2>1, Zenon
  <2> QED
    BY <1>0, <1>r, <2>1, <2>2, <2>3, <2>4 DEF SelectKeys
<1>5. ASSUME NEW c \in Select!Spots \ {Select!Outside}, NEW quick \in BOOLEAN, Select!PressSelects(c, quick) PROVE SelectTypes'
  <2> DEFINE n == IF quick THEN mouse.streak + 1 ELSE 1
             next == Select!Clicked(c, n)
  <2>1. /\ mouse' = next /\ selection' = (IF next.dragging THEN <<>> ELSE <<next.start, next.end>>)
        /\ down' = down \cup {"left"} /\ menu' = FALSE /\ covered' = FALSE
        /\ UNCHANGED <<grown, mode, shift, told, astray, owed>>
    BY <1>5 DEF Select!PressSelects, Select!None
  <2>2. c \in C /\ c[2] \in 0 .. SelectRows - 1 /\ CanvasOver(mouse, C)
    BY <1>0, <1>s, SelectCells DEF C, Whole
  <2>3. \A k \in 0 .. Cols : <<k, c[2]>> \in C
    BY <2>2, SelectCells DEF C
  <2>4. n \in 1 .. 3
    <3>1. mouse.streak \in 0 .. 2
      BY <2>2 DEF CanvasOver, Streaks
    <3> QED
      BY <3>1
  <2> HIDE DEF n
  <2>5. CanvasOver(next, C) /\ next.accum = mouse.accum /\ next.start \in C /\ next.end \in C
    BY <1>c, <2>2, <2>3, <2>4, ClickTypes
  <2> HIDE DEF next
  <2>6. Whole(mouse')
    BY <1>0, <2>1, <2>5 DEF Whole
  <2>7. SelectKeys'
    BY <1>0, <2>1 DEF SelectKeys, Select!Buttons
  <2> QED
    BY <1>i, <2>6, <2>7
<1>6. ASSUME NEW c, Select!PressOpensUrl(c) PROVE SelectTypes'
  BY <1>0, <1>6, <1>r DEF Select!PressOpensUrl, SelectKeys, Select!Buttons
<1>7. ASSUME NEW b \in Select!Buttons, Select!PressIgnored(b) PROVE SelectTypes'
  BY <1>0, <1>7, <1>r DEF Select!PressIgnored, SelectKeys
<1>8. ASSUME NEW c \in Select!Spots \ {Select!Outside}, Select!Drag(c) PROVE SelectTypes'
  <2>1. /\ mouse' = EndingAt(mouse, c)
        /\ UNCHANGED <<grown, mode, shift, down, selection, menu, told, astray, covered, owed>>
    BY <1>8 DEF Select!Drag, EndingAt
  <2>2. Whole(mouse')
    BY <1>k, <1>s, <2>1
  <2> QED
    BY <1>0, <1>r, <2>1, <2>2 DEF SelectKeys
<1>9. ASSUME NEW b \in Select!Buttons, Select!Release(b) PROVE SelectTypes'
  <2> DEFINE ends == b = "left" /\ mouse.dragging
             on == mouse.dragging /\ ~ends
  <2>1. /\ down' = down \ {b} /\ mouse' = Dragged(mouse, on)
        /\ selection' = IF ~ends THEN selection
                        ELSE IF mouse.start = mouse.end THEN <<>> ELSE <<mouse.start, mouse.end>>
        /\ menu' = (menu /\ ~ends) /\ astray' = (astray \/ b \in {told, mouse.held})
        /\ UNCHANGED <<grown, mode, shift, told, covered, owed>>
    BY <1>9 DEF Select!Release, Select!None, Dragged
  <2>2. on \in BOOLEAN /\ (on => mouse.dragging) /\ menu' \in BOOLEAN /\ astray' \in BOOLEAN
    BY <2>1, Zenon
  <2>3. Whole(mouse')
    BY <1>k, <2>1, <2>2
  <2>4. SelectKeys'
    BY <1>0, <2>1, <2>2 DEF SelectKeys
  <2> QED
    BY <1>i, <2>3, <2>4
<1>10. CASE Select!SelectAll
  <2>1. /\ menu' = FALSE /\ covered' = TRUE /\ UNCHANGED <<mode, shift, down, mouse, told, astray>>
    BY <1>10 DEF Select!SelectAll
  <2>2. SelectKeys'
    BY <1>0, <2>1 DEF SelectKeys
  <2> QED
    BY <1>0, <1>i, <2>1, <2>2
<1>14. ASSUME NEW d, Select!WheelArrows(d) PROVE SelectTypes'
  <2>1. /\ \E a : mouse' = Wheeled(mouse, a)
        /\ UNCHANGED <<mode, shift, down, menu, told, astray, covered>>
    BY <1>14 DEF Select!WheelArrows, Wheeled
  <2>2. PICK a : mouse' = Wheeled(mouse, a)
    BY <2>1
  <2>3. Whole(mouse')
    <3>1. "none" \in Told /\ <<>> \in MaybeIn(C) /\ \E c \in C : TRUE
      BY <1>c DEF Told, MaybeIn
    <3>2. PICK c \in C : TRUE
      BY <3>1
    <3>3. mouse.dragging \in BOOLEAN /\ CanvasOver(mouse, C)
      BY <1>0 DEF Whole, CanvasOver, CanvasShape
    <3>4. CanvasOver(Wheeled(mouse, a), C)
      BY <1>c, <3>1, <3>2, <3>3, CanvasFields
    <3> QED
      BY <2>2, <3>4 DEF Whole
  <2> QED
    BY <1>0, <1>i, <2>1, <2>3 DEF SelectKeys
<1>11. CASE Select!CloseMenu \/ Select!Shift
  <2>1. /\ UNCHANGED <<grown, mode, down, mouse, selection, told, astray, covered, owed>>
        /\ (menu' = menu \/ menu' = FALSE) /\ (shift' = shift \/ shift' = ~shift)
    BY <1>11 DEF Select!CloseMenu, Select!Shift
  <2>2. menu \in BOOLEAN /\ shift \in BOOLEAN
    BY <1>0 DEF SelectKeys
  <2>3. menu' \in BOOLEAN /\ shift' \in BOOLEAN
    BY <2>1, <2>2, Zenon
  <2> QED
    BY <1>0, <1>r, <2>1, <2>3 DEF SelectKeys
<1>12. ASSUME NEW k \in {Keys}, Select!SetMode(k) PROVE SelectTypes'
  BY <1>0, <1>12, <1>r DEF Select!SetMode, SelectKeys
<1>13. CASE Select!Resize
  BY <1>0, <1>13, <1>i DEF Select!Resize, SelectKeys
<1> QED
  BY <1>u, <1>1, <1>2, <1>3, <1>4, <1>5, <1>6, <1>7, <1>8, <1>9, <1>10, <1>11, <1>12, <1>13, <1>14 DEF Select!PointerNext

------------------------------------------------------------------------------
(* The types of the local pane.                                             *)

\* The pane's order, and what comes before an entry.
Earlier(a, b, asc) == IF Local!IsFolder(a) # Local!IsFolder(b) THEN Local!IsFolder(a)
                      ELSE IF asc THEN a.name < b.name ELSE b.name < a.name
Above(S, e, asc) == {x \in S : Earlier(x, e, asc)}

\* Entries of one directory, which their names tell apart.
NamesApart(S) == \A a, b \in S : a.name = b.name => a = b

\* A name is a positive number.
LEMMA NamesAre == \A e \in Local!Entries : e.name \in LocalNames /\ e.name \in Nat /\ e.name # 0
<1>1. LocalNames \subseteq Nat \ {0}
  BY DeskAssumption
<1> QED
  BY <1>1 DEF Local!Entries

\* The order is one of them all.
LEMMA EarlierFacts ==
  ASSUME NEW S \in SUBSET Local!Entries, NamesApart(S), NEW asc
  PROVE  /\ \A a \in S : ~Earlier(a, a, asc)
         /\ \A a, b, c \in S : Earlier(a, b, asc) /\ Earlier(b, c, asc) => Earlier(a, c, asc)
         /\ \A a, b \in S : a # b => Earlier(a, b, asc) \/ Earlier(b, a, asc)
<1>1. \A e \in S : e.name \in Nat
  BY NamesAre
<1> DEFINE F(e) == Local!IsFolder(e)
<1>2. \A a, b : Earlier(a, b, asc) <=> \/ F(a) /\ ~F(b)
                                      \/ /\ F(a) <=> F(b)
                                         /\ IF asc THEN a.name < b.name ELSE b.name < a.name
  BY DEF Earlier, Local!IsFolder
<1> HIDE DEF F
<1>3. \A a \in S : ~Earlier(a, a, asc)
  BY <1>1, <1>2
<1>4. ASSUME NEW a \in S, NEW b \in S, NEW c \in S, Earlier(a, b, asc), Earlier(b, c, asc) PROVE Earlier(a, c, asc)
  <2>1. a.name \in Nat /\ b.name \in Nat /\ c.name \in Nat
    BY <1>1
  <2> QED
    BY <1>2, <1>4, <2>1
<1>5. ASSUME NEW a \in S, NEW b \in S, a # b PROVE Earlier(a, b, asc) \/ Earlier(b, a, asc)
  <2>1. a.name \in Nat /\ b.name \in Nat /\ a.name # b.name
    BY <1>1, <1>5 DEF NamesApart
  <2> QED
    BY <1>2, <2>1
<1> QED
  BY <1>3, <1>4, <1>5

\* Each place in the order is an entry's, and no two entries have one place.
LEMMA PlaceFacts ==
  ASSUME NEW S \in SUBSET Local!Entries, NamesApart(S), IsFiniteSet(S), NEW asc
  PROVE  /\ \A e \in S : Cardinality(Above(S, e, asc)) \in 0 .. Cardinality(S) - 1
         /\ \A i \in 0 .. Cardinality(S) - 1 : \E e \in S : Cardinality(Above(S, e, asc)) = i
<1> DEFINE n == Cardinality(S)
           R(e) == Above(S, e, asc)
           f == [e \in S |-> Cardinality(R(e))]
<1>0. n \in Nat
  BY FS_CardinalityType
<1>1. \A e \in S : R(e) \subseteq S /\ e \notin R(e) /\ IsFiniteSet(R(e)) /\ Cardinality(R(e)) \in Nat
  <2> SUFFICES ASSUME NEW e \in S PROVE R(e) \subseteq S /\ e \notin R(e) /\ IsFiniteSet(R(e)) /\ Cardinality(R(e)) \in Nat
    OBVIOUS
  <2>1. R(e) \subseteq S /\ e \notin R(e)
    BY EarlierFacts DEF Above
  <2> HIDE DEF R
  <2> QED
    BY <2>1, FS_Subset, FS_CardinalityType
<1>2. ASSUME NEW A \in SUBSET S, NEW x \in S \ A PROVE Cardinality(A) < n
  <2>1. IsFiniteSet(A) /\ Cardinality(A) <= n /\ (n = Cardinality(A) => S = A) /\ Cardinality(A) \in Nat
    BY FS_Subset, FS_CardinalityType
  <2> QED
    BY <1>0, <2>1
<1>3. \A e \in S : Cardinality(R(e)) \in 0 .. n - 1
  BY <1>0, <1>1, <1>2
<1>4. ASSUME NEW a \in S, NEW b \in S, Earlier(a, b, asc) PROVE Cardinality(R(a)) < Cardinality(R(b))
  <2>1. R(a) \subseteq R(b) /\ a \in R(b) /\ a \notin R(a)
    BY <1>4, EarlierFacts DEF Above
  <2> DEFINE A == R(a)
             B == R(b)
  <2>2. IsFiniteSet(B) /\ Cardinality(A) \in Nat /\ Cardinality(B) \in Nat
    BY <1>1
  <2> HIDE DEF A, B, R
  <2>3. A \in SUBSET B /\ B # A
    BY <2>1 DEF A, B
  <2>4. Cardinality(A) <= Cardinality(B) /\ (Cardinality(B) = Cardinality(A) => B = A)
    BY <2>2, <2>3, FS_Subset
  <2>5. Cardinality(A) < Cardinality(B)
    BY <2>2, <2>3, <2>4
  <2> QED
    BY <2>5 DEF A, B
<1> HIDE DEF R
<1>f. \A e \in S : f[e] = Cardinality(R(e))
  OBVIOUS
<1>g. DOMAIN f = S /\ f = [e \in S |-> f[e]]
  OBVIOUS
<1> HIDE DEF f
<1>5. \A a, b \in S : f[a] = f[b] => a = b
  <2> SUFFICES ASSUME NEW a \in S, NEW b \in S, a # b PROVE f[a] # f[b]
    OBVIOUS
  <2>1. Earlier(a, b, asc) \/ Earlier(b, a, asc)
    BY EarlierFacts
  <2>2. f[a] = Cardinality(R(a)) /\ f[b] = Cardinality(R(b)) /\ f[a] \in Nat /\ f[b] \in Nat
    BY <1>1, <1>f
  <2>3. f[a] < f[b] \/ f[b] < f[a]
    BY <1>4, <2>1, <2>2
  <2> QED
    BY <2>2, <2>3
<1> DEFINE T == 0 .. n - 1
<1>6. f \in [S -> T]
  BY <1>3, <1>f, <1>g
<1> HIDE DEF T
<1>7. f \in Injection(S, T)
  BY ONLY <1>5, <1>6 DEF Injection, IsInjective
<1> HIDE DEF n
<1>8. IsFiniteSet(T) /\ Cardinality(T) = n
  <2> DEFINE m == n - 1
  <2>1. 0 \in Int /\ m \in Int
    BY <1>0
  <2> HIDE DEF m
  <2>2. IsFiniteSet(0 .. m) /\ Cardinality(0 .. m) = IF 0 > m THEN 0 ELSE m - 0 + 1
    BY <2>1, FS_Interval, Zenon
  <2> QED
    BY <1>0, <2>2 DEF T, m
<1>9. f \in Surjection(S, T)
  BY <1>7, <1>8, FS_Injection DEF n
<1>10. \A i \in T : \E e \in S : f[e] = i
  BY <1>9 DEF Surjection
<1> QED
  BY <1>3, <1>10, <1>f DEF T, n, R

\* So the rows are the entries, each once.
LEMMA SortedTypes ==
  ASSUME NEW S \in SUBSET Local!Entries, NamesApart(S), IsFiniteSet(S), NEW asc
  PROVE  LET r == Local!Sorted(S, asc)
         IN  r \in Seq(Local!Entries) /\ IsInjective(r) /\ NamesApart(Range(r))
<1> DEFINE r == Local!Sorted(S, asc)
           n == Cardinality(S)
           R(e) == Above(S, e, asc)
<1>0. n \in Nat
  BY FS_CardinalityType
<1>1. \A A : Local!Cardinality(A) = Cardinality(A)
  BY DEF Local!Cardinality, Cardinality
<1>2. r = [i \in 1 .. n |-> CHOOSE e \in S : Cardinality(R(e)) = i - 1]
  <2>1. r = [i \in 1 .. Local!Cardinality(S) |-> CHOOSE e \in S : Local!Cardinality(R(e)) = i - 1]
    BY DEF Local!Sorted, Above, Earlier
  <2> HIDE DEF R
  <2> QED
    BY <1>1, <2>1
<1> HIDE DEF r, R
<1>3. ASSUME NEW i \in 1 .. n PROVE r[i] \in S /\ Cardinality(R(r[i])) = i - 1
  <2>1. i - 1 \in 0 .. n - 1
    BY <1>0
  <2>2. \E e \in S : Cardinality(R(e)) = i - 1
    BY <2>1, PlaceFacts DEF R, n
  <2>3. r[i] = CHOOSE e \in S : Cardinality(R(e)) = i - 1
    BY <1>2
  <2> HIDE DEF n
  <2> QED
    BY <2>2, <2>3
<1>4. DOMAIN r = 1 .. n
  BY <1>2
<1> HIDE DEF n
<1>5. r \in [1 .. n -> Local!Entries]
  BY <1>2, <1>3
<1>6. r \in Seq(Local!Entries)
  BY <1>0, <1>5, SeqDef
<1>7. IsInjective(r)
  <2> SUFFICES ASSUME NEW i \in 1 .. n, NEW j \in 1 .. n, r[i] = r[j] PROVE i = j
    BY <1>4 DEF IsInjective
  <2>1. i - 1 = j - 1
    BY <1>3
  <2> QED
    BY <1>0, <2>1
<1>8. Range(r) \subseteq S
  BY <1>3, <1>4 DEF Range
<1>9. NamesApart(Range(r))
  BY <1>8 DEF NamesApart
<1> QED
  BY <1>6, <1>7, <1>9 DEF r

\* The local pane is well formed; its rows are of one directory.
LocalTypes ==
  /\ files \subseteq Local!Entries /\ named \subseteq Local!Entries /\ folder \in Dirs
  /\ listed \in Seq(Local!Entries) /\ IsInjective(listed) /\ NamesApart(Range(listed))
  /\ clicked \in Nat /\ popup \in Nat /\ naming \in LocalNames \cup {0, -1}
  /\ ascending \in BOOLEAN /\ remoteAsc \in BOOLEAN

\* Which is what its type invariant says, given the selection.
LEMMA LocalTypesMean == LocalInv /\ LocalTypes => Local!TypeOK
<1> SUFFICES ASSUME LocalInv, LocalTypes PROVE Local!TypeOK
  OBVIOUS
<1>1. marked \subseteq DOMAIN listed /\ anchor \in {0} \cup DOMAIN listed /\ Local!Targets = picked
  BY DEF LocalInv, Local!SelectionIsPicked
<1>2. listed \in Seq(Local!Entries) /\ DOMAIN listed = 1 .. Len(listed) /\ Len(listed) \in Nat
  BY LenProperties DEF LocalTypes
<1>3. marked \subseteq Nat /\ anchor \in Nat
  BY <1>1, <1>2
<1>4. picked \subseteq Local!Entries
  <2>1. \A i \in DOMAIN listed : listed[i] \in Local!Entries
    BY <1>2, ElementOfSeq
  <2> QED
    BY <1>1, <2>1 DEF Local!Targets
<1>5. Local!Cardinality(Local!Range(listed)) = Len(listed)
  <2>1. Cardinality(Range(listed)) = Len(listed)
    BY <1>2, InjectiveLength DEF LocalTypes
  <2> QED
    BY <2>1 DEF Local!Cardinality, Cardinality, Local!Range, Range
<1>6. {ascending, remoteAsc} \subseteq BOOLEAN
  BY DEF LocalTypes
<1> QED
  BY <1>2, <1>3, <1>4, <1>5, <1>6 DEF LocalTypes, Local!TypeOK

\* The local pane opens well formed.
LEMMA LocalTypesFirst == Local!PaneInit => LocalTypes
<1> SUFFICES ASSUME Local!PaneInit PROVE LocalTypes
  OBVIOUS
<1>1. /\ files \in SUBSET Local!Entries /\ folder = CHOOSE d \in Dirs : TRUE
      /\ listed = <<>> /\ named = {} /\ clicked = 0 /\ popup = 0 /\ naming = -1
      /\ ascending = TRUE /\ remoteAsc = TRUE
  BY DEF Local!PaneInit
<1>2. folder \in Dirs
  <2>1. "b" \in Dirs
    BY DeskAssumption
  <2> QED
    BY <1>1, <2>1
<1>3. listed \in Seq(Local!Entries) /\ IsInjective(listed) /\ NamesApart(Range(listed))
  <2>1. IsInjective(listed)
    BY <1>1 DEF IsInjective
  <2>2. Range(listed) = {}
    BY <1>1 DEF Range
  <2> QED
    BY <1>1, <2>1, <2>2 DEF NamesApart
<1> QED
  BY <1>1, <1>2, <1>3 DEF LocalTypes

\* So are the rows of a directory as it is read.
LEMMA RereadTypes ==
  ASSUME NEW d, NEW there \in SUBSET Local!Entries, IsFiniteSet(there), Local!Reread(d, there)
  PROVE  listed' \in Seq(Local!Entries) /\ IsInjective(listed') /\ NamesApart(Range(listed'))
<1>1. CASE listed' = Local!Sorted({e \in there : e.dir = d}, remoteAsc)
  <2> DEFINE S == {e \in there : e.dir = d}
  <2>1. S \in SUBSET Local!Entries /\ IsFiniteSet(S)
    BY FS_Subset
  <2>2. NamesApart(S)
    BY DEF NamesApart, Local!Entries
  <2> QED
    BY <1>1, <2>1, <2>2, SortedTypes
<1>2. CASE listed' = <<>>
  <2>1. IsInjective(listed')
    BY <1>2 DEF IsInjective
  <2>2. Range(listed') = {}
    BY <1>2 DEF Range
  <2> QED
    BY <1>2, <2>1, <2>2 DEF NamesApart
<1> QED
  BY <1>1, <1>2 DEF Local!Reread

\* A step of the pane keeps it well formed.
LEMMA LocalTypesStep == LocalInv /\ LocalTypes /\ [Local!PaneNext]_localVars => LocalTypes'
<1> SUFFICES ASSUME LocalInv, LocalTypes, [Local!PaneNext]_localVars PROVE LocalTypes'
  OBVIOUS
<1>0. /\ files \subseteq Local!Entries /\ named \subseteq Local!Entries /\ folder \in Dirs
      /\ listed \in Seq(Local!Entries) /\ IsInjective(listed) /\ NamesApart(Range(listed))
      /\ clicked \in Nat /\ popup \in Nat /\ naming \in LocalNames \cup {0, -1}
      /\ ascending \in BOOLEAN /\ remoteAsc \in BOOLEAN
  BY DEF LocalTypes
<1>f. IsFiniteSet(files) /\ IsFiniteSet(files')
  <2>1. LocalInv'
    BY LocalStep
  <2> QED
    BY <2>1 DEF LocalInv
<1>d. DOMAIN listed = 1 .. Len(listed) /\ Len(listed) \in Nat /\ \A i \in DOMAIN listed : listed[i] \in Local!Entries
  BY <1>0, LenProperties, ElementOfSeq
<1>t. Local!Targets \subseteq Local!Entries
  BY <1>d DEF Local!Targets
<1>k. ASSUME UNCHANGED <<files, folder, listed, ascending, remoteAsc>>, clicked' \in Nat, popup' \in Nat,
             named' \subseteq Local!Entries, naming' \in LocalNames \cup {0, -1}
      PROVE  LocalTypes'
  BY <1>0, <1>k DEF LocalTypes, NamesApart, Range, IsInjective
<1>r. ASSUME NEW d, Local!Reread(d, files'), files' \subseteq Local!Entries, folder' \in Dirs,
             UNCHANGED <<ascending, remoteAsc>>, clicked' \in Nat, popup' \in Nat,
             named' \in {{}, named}, naming' \in {-1, naming}
      PROVE  LocalTypes'
  <2>1. listed' \in Seq(Local!Entries) /\ IsInjective(listed') /\ NamesApart(Range(listed'))
    BY <1>f, <1>r, RereadTypes
  <2> QED
    BY <1>0, <1>r, <2>1 DEF LocalTypes, NamesApart, Range, IsInjective
<1>u. CASE UNCHANGED localVars
  BY <1>0, <1>u, <1>k DEF localVars
<1>1. CASE Local!CloseMenu \/ Local!CancelPrompt \/ Local!AskDelete \/ Local!CancelDelete
  <2>1. UNCHANGED <<files, folder, listed, ascending, remoteAsc, clicked>> /\ popup' \in {0, popup}
        /\ named' \in {{}, named, Local!Targets} /\ naming' \in {-1, naming}
    BY <1>1 DEF Local!CloseMenu, Local!CancelPrompt, Local!AskDelete, Local!CancelDelete
  <2> QED
    BY <1>0, <1>k, <1>t, <2>1
<1>2. ASSUME NEW rename \in BOOLEAN, Local!OpenPrompt(rename) PROVE LocalTypes'
  <2>1. /\ rename => popup \in DOMAIN listed
        /\ UNCHANGED <<files, folder, listed, ascending, remoteAsc, clicked, named>> /\ popup' = 0
        /\ naming' = IF rename THEN listed[popup].name ELSE 0
    BY <1>2 DEF Local!OpenPrompt
  <2>2. naming' \in LocalNames \cup {0, -1}
    BY <1>d, <2>1, NamesAre
  <2> QED
    BY <1>0, <1>k, <2>1, <2>2
<1>3. ASSUME NEW name \in LocalNames, Local!ConfirmPrompt(name) PROVE LocalTypes'
  <2> DEFINE old == [dir |-> folder, name |-> naming]
             new == [dir |-> folder, name |-> name]
  <2>1. new \in Local!Entries
    BY <1>0 DEF Local!Entries
  <2>2. /\ files' \in {files, files \cup {new}, (files \ {old}) \cup {new}}
        /\ Local!Reread(folder, files') /\ naming' = -1 /\ UNCHANGED <<folder, ascending, remoteAsc, clicked, popup, named>>
    BY <1>3 DEF Local!ConfirmPrompt
  <2>3. files' \subseteq Local!Entries
    BY <1>0, <2>1, <2>2
  <2> QED
    BY <1>0, <1>r, <2>2, <2>3
<1>4. CASE Local!Refresh
  BY <1>0, <1>4, <1>r DEF Local!Refresh
<1>5. CASE Local!SetSort
  <2>1. /\ listed' = Local!Sorted(Local!Range(listed), ascending') /\ ascending' = ~ascending
        /\ UNCHANGED <<files, folder, remoteAsc, clicked, popup, named, naming>>
    BY <1>5 DEF Local!SetSort
  <2>2. ascending' \in BOOLEAN
    BY <2>1, Zenon
  <2>3. Local!Range(listed) = Range(listed)
    BY DEF Local!Range, Range
  <2>4. IsFiniteSet(Range(listed)) /\ Range(listed) \in SUBSET Local!Entries
    BY <1>0, RangeFacts, InjectiveLength
  <2>5. listed' \in Seq(Local!Entries) /\ IsInjective(listed') /\ NamesApart(Range(listed'))
    BY <1>0, <2>1, <2>3, <2>4, SortedTypes
  <2> QED
    BY <1>0, <2>1, <2>2, <2>5 DEF LocalTypes, NamesApart, Range, IsInjective
<1>6. CASE Local!ConfirmDelete
  <2>1. Local!Reread(folder, files') /\ named' = {} /\ UNCHANGED <<folder, ascending, remoteAsc, clicked, popup, naming>>
    BY <1>6 DEF Local!ConfirmDelete
  <2>2. PICK gone : files' = files \ gone
    BY <1>6 DEF Local!ConfirmDelete
  <2>3. files' \subseteq Local!Entries
    BY <1>0, <2>2
  <2> QED
    BY <1>0, <2>1, <2>3, <1>r
<1>7. CASE Local!Outside
  <2>1. /\ UNCHANGED <<folder, listed, ascending, remoteAsc, clicked, popup, named, naming>>
        /\ \E e \in Local!Entries : files' = IF e \in files THEN files \ {e} ELSE files \cup {e}
    BY <1>7 DEF Local!Outside
  <2>2. files' \subseteq Local!Entries
    BY <1>0, <2>1
  <2> QED
    BY <1>0, <2>1, <2>2 DEF LocalTypes, NamesApart, Range, IsInjective
<1>8. ASSUME NEW d \in Dirs, Local!EditPath(d) PROVE LocalTypes'
  <2>1. folder' = d /\ UNCHANGED <<files, listed, ascending, remoteAsc, clicked, popup, named, naming>>
    BY <1>8 DEF Local!EditPath
  <2> QED
    BY <1>0, <2>1 DEF LocalTypes, NamesApart, Range, IsInjective
<1>s. CASE Local!SetRemoteSort
  <2>1. remoteAsc' = ~remoteAsc /\ UNCHANGED <<files, folder, listed, ascending, clicked, popup, named, naming>>
    BY <1>s DEF Local!SetRemoteSort
  <2>2. remoteAsc' \in BOOLEAN
    BY <2>1, Zenon
  <2> QED
    BY <1>0, <2>1, <2>2 DEF LocalTypes, NamesApart, Range, IsInjective
<1>e. ASSUME NEW d \in Dirs, Local!Enter(d), clicked' \in Nat PROVE LocalTypes'
  <2>1. folder' = d /\ popup' = 0 /\ Local!Reread(d, files') /\ UNCHANGED <<files, ascending, remoteAsc, named, naming>>
    BY <1>e DEF Local!Enter, Local!Reread
  <2> QED
    BY <1>0, <1>e, <1>r, <2>1
<1>9. ASSUME NEW d \in Dirs, Local!Parent(d) PROVE LocalTypes'
  BY <1>0, <1>9, <1>e DEF Local!Parent
<1>10. ASSUME NEW i \in DOMAIN listed, Local!OpenMenu(i) PROVE LocalTypes'
  <2>1. popup' = i /\ UNCHANGED <<files, folder, listed, ascending, remoteAsc, clicked, named, naming>>
    BY <1>10 DEF Local!OpenMenu
  <2>2. i \in Nat
    BY <1>d
  <2> QED
    BY <1>0, <1>k, <2>1, <2>2
<1>11. ASSUME NEW i \in DOMAIN listed, NEW toggle \in BOOLEAN, NEW range \in BOOLEAN, NEW quick \in BOOLEAN,
              Local!Click(i, toggle, range, quick)
       PROVE  LocalTypes'
  <2> DEFINE g == FolderAt(listed[i].dir, listed[i].name)
  <2>1. i \in Nat
    BY <1>d
  <2>2. clicked' \in Nat
    <3>1. clicked' \in {0, i}
      BY <1>11 DEF Local!Click
    <3> QED
      BY <2>1, <3>1
  <2>3. CASE Local!Enter(g) /\ g # ""
    <3>1. g \in Dirs
      BY <2>3, DeskAssumption DEF FolderAt
    <3> QED
      BY <1>e, <2>2, <2>3, <3>1
  <2>4. CASE popup' = 0 /\ UNCHANGED <<files, folder, listed, ascending, remoteAsc, named, naming>>
    BY <1>0, <1>k, <2>2, <2>4
  <2> QED
    BY <1>11, <2>3, <2>4 DEF Local!Click
<1> QED
  BY <1>u, <1>1, <1>2, <1>3, <1>4, <1>5, <1>6, <1>7, <1>8, <1>9, <1>10, <1>11, <1>s DEF Local!PaneNext

------------------------------------------------------------------------------
(* The types of the resource rail.                                          *)

\* Part of a whole is at most a hundred percent of it.
LEMMA PercentFacts == \A a, t \in Nat : t > 0 /\ a <= t => (a * 100) \div t \in 0 .. 100
<1> SUFFICES ASSUME NEW a \in Nat, NEW t \in Nat, t > 0, a <= t PROVE (a * 100) \div t \in 0 .. 100
  OBVIOUS
<1> DEFINE b == a * 100
           q == b \div t
<1>1. b \in Nat /\ b <= 100 * t
  OBVIOUS
<1> HIDE DEF b
<1>2. q \in Int /\ t * q <= b /\ b < t * q + t
  BY <1>1
<1> HIDE DEF q
<1>3. q <= 100
  <2>1. SUFFICES ASSUME q >= 101 PROVE FALSE
    BY <1>2
  <2>2. t * q >= t * 101
    BY <1>2, <2>1
  <2> QED
    BY <1>1, <1>2, <2>2
<1>4. 0 <= q
  <2>1. SUFFICES ASSUME q <= -1 PROVE FALSE
    BY <1>2
  <2>2. t * q <= t * (-1)
    BY <1>2, <2>1
  <2> QED
    BY <1>1, <1>2, <2>2
<1> QED
  BY <1>2, <1>3, <1>4 DEF q, b

\* What the rail shows of the CPU is a percentage, whatever two samples it is made of.
LEMMA ComputeFacts ==
  ASSUME sample \in Rail!Counters \cup {Rail!NoSample}, NEW seen \in Rail!Counters
  PROVE  Rail!Compute(seen) \in 0 .. 100
<1>1. CASE sample = Rail!NoSample
  BY <1>1 DEF Rail!Compute
<1>2. CASE sample \in Rail!Counters /\ sample # Rail!NoSample
  <2> DEFINE t == Rail!Sub(seen.total, sample.total)
             i == Rail!Sub(seen.idle, sample.idle)
             a == Rail!Sub(t, i)
  <2>1. t \in Nat /\ i \in Nat
    BY <1>2 DEF Rail!Counters, Rail!Sub
  <2>2. Rail!Compute(seen) = IF t = 0 THEN 0 ELSE (a * 100) \div t
    BY <1>2 DEF Rail!Compute, Rail!Percent
  <2>3. a \in Nat /\ a <= t
    <3> HIDE DEF t, i
    <3> QED
      BY <2>1 DEF Rail!Sub
  <2> HIDE DEF t, i, a
  <2>4. CASE t = 0
    BY <2>2, <2>4
  <2>5. CASE t # 0
    <3>1. t > 0
      BY <2>1, <2>5
    <3> QED
      BY <2>1, <2>2, <2>3, <2>5, <3>1, PercentFacts
  <2> QED
    BY <2>4, <2>5
<1> QED
  BY <1>1, <1>2

\* The rail is well formed.
RailTypes ==
  /\ up \in BOOLEAN /\ online \in BOOLEAN /\ dropped \in BOOLEAN
  /\ panel \in Rail!Panels \cup {Rail!None} /\ table \in Rail!Panels \cup {"host", Rail!None}
  /\ ports \in {Rail!None, "current", "earlier"}
  /\ \A s \in Slots : sampling[s] = Rail!Idle \/ sampling[s].kind \in {"metrics", "processes", "ports"}

\* Which is what its type invariant says, given the samples.
LEMMA RailTypesMean == RailInv /\ RailTypes => Rail!TypeOK
<1> SUFFICES ASSUME RailInv, RailTypes PROVE Rail!TypeOK
  OBVIOUS
<1>1. /\ counters \in Rail!Counters /\ sample \in Rail!Counters \cup {Rail!NoSample} /\ {charted, first} \subseteq Nat
      /\ disorder \in BOOLEAN /\ RailTasks
  BY DEF RailInv
<1>2. ASSUME NEW s \in Slots, Rail!Showable(s) PROVE Rail!Compute(sampling[s].seen) \in 0 .. 100
  <2>1. sampling[s].seen \in Rail!Counters
    BY <1>1, <1>2 DEF RailTasks, Rail!Showable
  <2> QED
    BY <1>1, <2>1, ComputeFacts
<1>3. {up, online, disorder, dropped} \subseteq BOOLEAN
  BY <1>1 DEF RailTypes
<1> QED
  BY <1>1, <1>2, <1>3 DEF RailTypes, Rail!TypeOK

\* The rail starts well formed.
LEMMA RailTypesFirst == Rail!MonitorInit => RailTypes
BY DEF Rail!MonitorInit, RailTypes

\* What becomes of the tasks.
LEMMA TaskTypes ==
  ASSUME RailInv, RailTypes, NEW kinds, kinds \in {{"metrics"}, {"processes"}, {"metrics", "processes", "ports"}},
         Rail!Spawn(kinds)
  PROVE  /\ dropped' \in BOOLEAN
         /\ \A s \in Slots : sampling'[s] = Rail!Idle \/ sampling'[s].kind \in {"metrics", "processes", "ports"}
<1>1. IsFiniteSet(kinds) /\ "none" \notin kinds /\ kinds \subseteq {"metrics", "processes", "ports"}
  <2>1. IsFiniteSet({"metrics"}) /\ IsFiniteSet({"processes"}) /\ IsFiniteSet({"ports"})
    BY FS_Singleton
  <2>2. IsFiniteSet({"metrics"} \cup {"processes"})
    BY <2>1, FS_AddElement
  <2>3. IsFiniteSet(({"metrics"} \cup {"processes"}) \cup {"ports"})
    BY <2>2, FS_AddElement
  <2>4. ({"metrics"} \cup {"processes"}) \cup {"ports"} = {"metrics", "processes", "ports"}
    OBVIOUS
  <2> QED
    BY <2>1, <2>3, <2>4
<1>2. sampling = [s \in Slots |-> sampling[s]]
  BY DEF RailInv
<1>3. \A s \in Slots : \/ sampling'[s] = sampling[s]
                       \/ \E k \in kinds : sampling'[s] = [kind |-> k, stage |-> "asked"]
  BY <1>1, <1>2, RailSpawns
<1>4. \E x : dropped' = (dropped \/ "processes" \in kinds \ x)
  BY DEF Rail!Spawn
<1>5. dropped' \in BOOLEAN
  BY <1>4, Zenon
<1>6. ASSUME NEW s \in Slots PROVE sampling'[s] = Rail!Idle \/ sampling'[s].kind \in {"metrics", "processes", "ports"}
  <2>1. CASE sampling'[s] = sampling[s]
    BY <2>1 DEF RailTypes
  <2>2. ASSUME NEW k \in kinds, sampling'[s] = [kind |-> k, stage |-> "asked"] PROVE sampling'[s].kind \in {"metrics", "processes", "ports"}
    BY <1>1, <2>2
  <2> QED
    BY <1>3, <2>1, <2>2
<1> QED
  BY <1>5, <1>6

\* A step of the rail keeps it well formed.
LEMMA RailTypesStep == RailInv /\ RailTypes /\ [Rail!MonitorNext]_railVars => RailTypes'
<1> SUFFICES ASSUME RailInv, RailTypes, [Rail!MonitorNext]_railVars PROVE RailTypes'
  OBVIOUS
<1>0. /\ up \in BOOLEAN /\ online \in BOOLEAN /\ dropped \in BOOLEAN
      /\ panel \in Rail!Panels \cup {Rail!None} /\ table \in Rail!Panels \cup {"host", Rail!None}
      /\ ports \in {Rail!None, "current", "earlier"}
      /\ \A s \in Slots : sampling[s] = Rail!Idle \/ sampling[s].kind \in {"metrics", "processes", "ports"}
  BY DEF RailTypes
<1>i. sampling = [s \in Slots |-> sampling[s]]
  BY DEF RailInv
<1>k. ASSUME UNCHANGED <<sampling, dropped>>, up' \in BOOLEAN, online' \in BOOLEAN, panel' \in {panel, Rail!None} \cup Rail!Panels,
             table' \in {table, Rail!None}, ports' \in {Rail!None, "current", "earlier"}
      PROVE  RailTypes'
  BY <1>0, <1>k DEF RailTypes
<1>p. ASSUME NEW kinds, kinds \in {{"metrics"}, {"processes"}, {"metrics", "processes", "ports"}},
             Rail!Spawn(kinds), UNCHANGED <<up, online, table, ports>>, panel' \in {panel} \cup Rail!Panels
      PROVE  RailTypes'
  BY <1>0, <1>p, TaskTypes DEF RailTypes
<1>t. ASSUME NEW s \in Slots, sampling' = [sampling EXCEPT ![s] = Rail!Idle], UNCHANGED <<up, online, panel>>,
             table' \in {table, Rail!ProcessOrder}, ports' \in {ports, "current"}, dropped' \in BOOLEAN
      PROVE  RailTypes'
  <2>1. \A u \in Slots : sampling'[u] = IF u = s THEN Rail!Idle ELSE sampling[u]
    BY <1>i, <1>t
  <2> QED
    BY <1>0, <1>t, <2>1 DEF RailTypes, Rail!ProcessOrder
<1>u. CASE UNCHANGED railVars
  BY <1>0, <1>k, <1>u DEF railVars
<1>1. ASSUME NEW idle \in 0 .. 1, Rail!Work(idle) PROVE RailTypes'
  BY <1>0, <1>k, <1>1 DEF Rail!Work
<1>2. CASE Rail!MetricsTick
  <2> DEFINE kinds == IF panel = Rail!None THEN {"metrics"} ELSE {"metrics", "processes", "ports"}
  <2>1. Rail!Spawn(kinds) /\ UNCHANGED <<up, online, panel, table, ports>>
    BY <1>2 DEF Rail!MetricsTick
  <2>2. kinds \in {{"metrics"}, {"processes"}, {"metrics", "processes", "ports"}}
    OBVIOUS
  <2> QED
    BY <1>p, <2>1, <2>2
<1>3. ASSUME NEW p \in Rail!Panels, Rail!Select(p) PROVE RailTypes'
  <2>1. UNCHANGED <<up, online, table, ports>> /\ panel' = p
    BY <1>3 DEF Rail!Select
  <2>2. CASE Rail!Spawn({"processes"})
    BY <1>p, <2>1, <2>2
  <2>3. CASE UNCHANGED <<sampling, dropped>>
    BY <1>0, <1>k, <2>1, <2>3
  <2> QED
    BY <1>3, <2>2, <2>3 DEF Rail!Select
<1>4. CASE Rail!CloseDetail
  BY <1>0, <1>4, <1>k DEF Rail!CloseDetail
<1>5. ASSUME NEW s \in Slots, Rail!Run(s) PROVE RailTypes'
  <2>1. sampling[s].kind # Rail!None /\ UNCHANGED <<up, online, panel, table, ports>>
    BY <1>5 DEF Rail!Run
  <2>2. CASE sampling' = [sampling EXCEPT ![s] = Rail!Idle] /\ dropped' = (dropped \/ sampling[s].kind = "processes")
    <3>1. dropped' \in BOOLEAN
      BY <2>2, Zenon
    <3> QED
      BY <1>t, <2>1, <2>2, <3>1
  <2>3. ASSUME NEW sections, dropped' = dropped,
               sampling' = [sampling EXCEPT ![s] = [kind |-> @.kind, stage |-> "answered", seen |-> Rail!ParseSample(sections)]]
        PROVE  RailTypes'
    <3> DEFINE seen == Rail!ParseSample(sections)
    <3> HIDE DEF seen
    <3>2. \A u \in Slots : sampling'[u] = IF u = s THEN [kind |-> sampling[s].kind, stage |-> "answered", seen |-> seen]
                                          ELSE sampling[u]
      BY <1>i, <2>3 DEF seen
    <3>3. sampling[s].kind \in {"metrics", "processes", "ports"}
      BY <1>0, <2>1 DEF Rail!Idle, Rail!None
    <3> QED
      BY <1>0, <2>1, <2>3, <3>2, <3>3 DEF RailTypes
  <2> QED
    BY <1>5, <2>2, <2>3 DEF Rail!Run
<1>6. ASSUME NEW s \in Slots, Rail!OnMetrics(s) PROVE RailTypes'
  BY <1>0, <1>t, <1>6 DEF Rail!OnMetrics
<1>7. ASSUME NEW s \in Slots, Rail!OnProcesses(s) PROVE RailTypes'
  BY <1>0, <1>t, <1>7 DEF Rail!OnProcesses
<1>8. ASSUME NEW s \in Slots, Rail!OnPorts(s) PROVE RailTypes'
  BY <1>0, <1>t, <1>8 DEF Rail!OnPorts
<1>9. CASE Rail!Lose
  <2>1. PICK answers : sampling' = [s \in Slots |-> IF s \in answers THEN sampling[s] ELSE Rail!Idle]
    BY <1>9 DEF Rail!Lose
  <2>2. up' = FALSE /\ dropped' = TRUE /\ UNCHANGED <<online, panel, table, ports>>
    BY <1>9 DEF Rail!Lose
  <2> QED
    BY <1>0, <2>1, <2>2 DEF RailTypes
<1>10. CASE Rail!OnClosed
  <2>1. /\ online' = FALSE /\ panel' = Rail!None /\ table' = Rail!None /\ dropped' = FALSE
        /\ ports' = (IF ports = Rail!None THEN Rail!None ELSE "earlier") /\ UNCHANGED <<up, sampling>>
    BY <1>10 DEF Rail!OnClosed
  <2> QED
    BY <1>0, <2>1 DEF RailTypes
<1>11. CASE Rail!Reconnect
  BY <1>0, <1>11, <1>k DEF Rail!Reconnect
<1> QED
  BY <1>u, <1>1, <1>2, <1>3, <1>4, <1>5, <1>6, <1>7, <1>8, <1>9, <1>10, <1>11 DEF Rail!MonitorNext

------------------------------------------------------------------------------
(* The types of the input line.                                             *)

\* The keys there are, and what may be typed with them.
Typed == {"c", " ", "-", "h"}
Keyed == Seq(Typed)

\* The words a suggestion may be the end of.
Words == Suggest!Beginnings \cup Found
Ends == Suggest!Tails(Words)

\* Four keys are a sequence of keys, and so are two.
LEMMA FourKeys == \A S : \A a, b, c, d \in S : <<a, b, c, d>> \in Seq(S)
OBVIOUS

\* Two keys.
LEMMA TwoKeys == \A S : \A a, b \in S : <<a, b>> \in Seq(S)
OBVIOUS

\* The lines that may be typed are sequences of keys.
LEMMA LinesKeyed == \A w \in Lines : w \in Keyed
<1>1. "c" \in Typed /\ " " \in Typed /\ "-" \in Typed /\ "h" \in Typed
  BY DEF Typed
<1>2. <<"c", " ", "-", "h">> \in Keyed
  BY <1>1, FourKeys, Zenon DEF Keyed
<1>3. <<"c", " ", "h", "h">> \in Keyed
  BY <1>1, FourKeys, Zenon DEF Keyed
<1>4. <<"h", "h">> \in Keyed
  BY <1>1, TwoKeys, Zenon DEF Keyed
<1> QED
  BY <1>2, <1>3, <1>4, Zenon DEF Lines

\* A line is a beginning of one that may be typed, and so is a beginning of it.
LEMMA BeginningFacts ==
  /\ Suggest!Beginnings \subseteq Keyed /\ <<>> \in Suggest!Beginnings
  /\ \A b \in Suggest!Beginnings : \A n \in 0 .. Len(b) : SubSeq(b, 1, n) \in Suggest!Beginnings
<1>1. \A w \in Lines : w \in Keyed
  BY LinesKeyed
<1>2. \A b : b \in Suggest!Beginnings <=> \E w \in Lines : \E n \in 0 .. Len(w) : b = SubSeq(w, 1, n)
  BY DEF Suggest!Beginnings
<1>3. ASSUME NEW w \in Keyed, NEW n \in 0 .. Len(w)
      PROVE  /\ SubSeq(w, 1, n) \in Keyed /\ Len(SubSeq(w, 1, n)) = n
             /\ \A k \in 0 .. n : SubSeq(SubSeq(w, 1, n), 1, k) = SubSeq(w, 1, k)
  <2>1. w \in Seq(Typed) /\ Len(w) \in Nat /\ \A i \in 1 .. Len(w) : w[i] \in Typed
    BY LenProperties, ElementOfSeq DEF Keyed
  <2>2. SubSeq(w, 1, n) \in Keyed /\ Len(SubSeq(w, 1, n)) = n
    BY <2>1, SubSeqProperties DEF Keyed
  <2>3. ASSUME NEW k \in 0 .. n PROVE SubSeq(SubSeq(w, 1, n), 1, k) = SubSeq(w, 1, k)
    <3>1. CASE k = 0
      <4>1. SubSeq(SubSeq(w, 1, n), 1, 0) = <<>> /\ SubSeq(w, 1, 0) = <<>>
        BY SubSeqEmpty
      <4> QED
        BY <3>1, <4>1
    <3>2. CASE k > 0
      <4>1. n \in 1 .. Len(w) /\ 1 \in 1 .. Len(w) /\ 1 \in 1 .. n - 1 + 1 /\ k \in 1 .. n - 1 + 1
        BY <2>1, <3>2
      <4>2. SubSeq(SubSeq(w, 1, n), 1, k) = SubSeq(w, 1 + 1 - 1, 1 + k - 1)
        BY <2>1, <4>1, SubSeqOfSubSeq
      <4>3. 1 + 1 - 1 = 1 /\ 1 + k - 1 = k
        BY <2>1
      <4> QED
        BY <4>2, <4>3
    <3> QED
      BY <3>1, <3>2
  <2> QED
    BY <2>2, <2>3
<1>4. Suggest!Beginnings \subseteq Keyed
  <2> SUFFICES ASSUME NEW b \in Suggest!Beginnings PROVE b \in Keyed
    OBVIOUS
  <2>a. PICK w \in Lines : \E n \in 0 .. Len(w) : b = SubSeq(w, 1, n)
    BY <1>2
  <2>1. PICK n \in 0 .. Len(w) : b = SubSeq(w, 1, n)
    BY <2>a
  <2>2. w \in Keyed
    BY <1>1
  <2> QED
    BY <1>3, <2>1, <2>2
<1>5. <<>> \in Suggest!Beginnings
  <2> DEFINE w == <<"c", " ", "-", "h">>
  <2>1. w \in Lines
    BY DEF Lines
  <2> HIDE DEF w
  <2>2. Len(w) \in Nat
    BY <1>1, <2>1, LenProperties DEF Keyed
  <2>3. 0 \in 0 .. Len(w) /\ SubSeq(w, 1, 0) = <<>>
    BY <2>2, SubSeqEmpty
  <2> QED
    BY <1>2, <2>1, <2>3
<1>6. ASSUME NEW b \in Suggest!Beginnings, NEW n \in 0 .. Len(b) PROVE SubSeq(b, 1, n) \in Suggest!Beginnings
  <2>a. PICK w \in Lines : \E m \in 0 .. Len(w) : b = SubSeq(w, 1, m)
    BY <1>2
  <2>1. PICK m \in 0 .. Len(w) : b = SubSeq(w, 1, m)
    BY <2>a
  <2>2. w \in Keyed /\ Len(w) \in Nat
    BY <1>1, LenProperties DEF Keyed
  <2>3. Len(b) = m
    BY <1>3, <2>1, <2>2
  <2>4. n \in 0 .. m /\ n \in 0 .. Len(w)
    BY <2>2, <2>3
  <2>5. SubSeq(b, 1, n) = SubSeq(w, 1, n)
    BY <1>3, <2>1, <2>2, <2>4
  <2> QED
    BY <1>2, <2>4, <2>5
<1> QED
  BY <1>4, <1>5, <1>6

\* The end of a sequence's end is an end of the sequence.
LEMMA EndOfEnd ==
  ASSUME NEW w \in Keyed, NEW n \in 1 .. Len(w) + 1
  PROVE  LET e == SubSeq(w, n, Len(w))
         IN  /\ e \in Keyed /\ Len(e) = Len(w) - n + 1
             /\ \A k \in 1 .. Len(e) + 1 : SubSeq(e, k, Len(e)) = SubSeq(w, n + k - 1, Len(w))
<1> DEFINE e == SubSeq(w, n, Len(w))
<1>1. w \in Seq(Typed) /\ Len(w) \in Nat /\ \A i \in 1 .. Len(w) : w[i] \in Typed
  BY LenProperties, ElementOfSeq DEF Keyed
<1>2. e \in Keyed /\ Len(e) = Len(w) - n + 1
  BY <1>1, SubSeqProperties DEF Keyed
<1> DEFINE m == Len(e)
<1>3. m \in Nat /\ m = Len(w) - n + 1
  BY <1>1, <1>2
<1> HIDE DEF m
<1>4. ASSUME NEW k \in 1 .. m + 1 PROVE SubSeq(e, k, m) = SubSeq(w, n + k - 1, Len(w))
  <2>1. CASE k = m + 1
    <3>1. m < k /\ Len(w) < n + k - 1 /\ n + k - 1 \in Int
      BY <1>1, <1>3, <2>1
    <3> QED
      BY <1>1, <1>3, <3>1, SubSeqEmpty
  <2>2. CASE k <= m
    <3>1. /\ n \in 1 .. Len(w) /\ Len(w) \in 1 .. Len(w)
          /\ k \in 1 .. Len(w) - n + 1 /\ m \in 1 .. Len(w) - n + 1
      BY <1>1, <1>3, <2>2
    <3>2. SubSeq(e, k, m) = SubSeq(w, n + k - 1, n + m - 1)
      BY <1>1, <3>1, SubSeqOfSubSeq
    <3>3. n + m - 1 = Len(w)
      BY <1>1, <1>3
    <3> QED
      BY <3>2, <3>3
  <2> QED
    BY <1>3, <2>1, <2>2
<1> QED
  BY <1>2, <1>4 DEF m

\* The ends of the words are all that is ever suggested: a word is one, and an end of one is one.
LEMMA EndsFacts ==
  /\ Ends \subseteq Keyed /\ <<>> \in Ends /\ Suggest!Beginnings \subseteq Ends /\ Found \subseteq Ends
  /\ \A e \in Ends : \A k \in 1 .. Len(e) + 1 : SubSeq(e, k, Len(e)) \in Ends
<1>1. Words \subseteq Keyed
  <2>1. Found \subseteq Keyed
    BY DEF Found, Keyed, Typed
  <2> QED
    BY <2>1, BeginningFacts DEF Words
<1>2. \A e : e \in Ends <=> \E w \in Words : \E n \in 1 .. Len(w) + 1 : e = SubSeq(w, n, Len(w))
  BY DEF Ends, Suggest!Tails
<1>3. Ends \subseteq Keyed
  <2> SUFFICES ASSUME NEW e \in Ends PROVE e \in Keyed
    OBVIOUS
  <2>a. PICK w \in Words : \E n \in 1 .. Len(w) + 1 : e = SubSeq(w, n, Len(w))
    BY <1>2
  <2>1. PICK n \in 1 .. Len(w) + 1 : e = SubSeq(w, n, Len(w))
    BY <2>a
  <2>2. w \in Keyed
    BY <1>1
  <2> QED
    BY <2>1, <2>2, EndOfEnd
<1>4. ASSUME NEW w \in Words PROVE w \in Ends
  <2>1. w \in Seq(Typed) /\ Len(w) \in Nat
    BY <1>1, LenProperties DEF Keyed
  <2>2. w = SubSeq(w, 1, Len(w)) /\ 1 \in 1 .. Len(w) + 1
    BY <2>1, SubSeqFull
  <2> QED
    BY <1>2, <2>2
<1>5. ASSUME NEW e \in Ends, NEW k \in 1 .. Len(e) + 1 PROVE SubSeq(e, k, Len(e)) \in Ends
  <2>a. PICK w \in Words : \E n \in 1 .. Len(w) + 1 : e = SubSeq(w, n, Len(w))
    BY <1>2
  <2>1. PICK n \in 1 .. Len(w) + 1 : e = SubSeq(w, n, Len(w))
    BY <2>a
  <2>2. w \in Keyed /\ Len(w) \in Nat
    BY <1>1, LenProperties DEF Keyed
  <2>3. SubSeq(e, k, Len(e)) = SubSeq(w, n + k - 1, Len(w)) /\ Len(e) = Len(w) - n + 1
    BY <2>1, <2>2, EndOfEnd
  <2>4. n + k - 1 \in 1 .. Len(w) + 1
    BY <2>2, <2>3
  <2> QED
    BY <1>2, <2>3, <2>4
<1> QED
  BY <1>3, <1>4, <1>5, BeginningFacts DEF Words

\* What is missing of a word is one of its ends.
LEMMA MissingEnds ==
  ASSUME NEW prefix \in Keyed, NEW words \in SUBSET Ends
  PROVE  Suggest!Missing(prefix, words) \subseteq Ends
<1> SUFFICES ASSUME NEW w \in words, Suggest!IsStrictPrefix(prefix, w)
             PROVE  SubSeq(w, Len(prefix) + 1, Len(w)) \in Ends
  BY DEF Suggest!Missing
<1>1. Len(prefix) <= Len(w)
  BY DEF Suggest!IsStrictPrefix, Suggest!IsPrefix
<1>2. w \in Ends /\ w \in Seq(Typed) /\ prefix \in Seq(Typed)
  BY EndsFacts DEF Keyed
<1>3. Len(w) \in Nat /\ Len(prefix) \in Nat
  BY <1>2, LenProperties
<1>4. Len(prefix) + 1 \in 1 .. Len(w) + 1
  BY <1>1, <1>3
<1> QED
  BY <1>2, <1>4, EndsFacts

\* A line's command is a beginning of it, and its last token an end of it.
LEMMA SplitFacts ==
  ASSUME NEW l \in Suggest!Beginnings
  PROVE  Suggest!Command(l) \in Suggest!Beginnings /\ Suggest!Token(l) \in Ends
<1> DEFINE n == Len(l)
           k == Suggest!FirstSpace(l)
           I == {i \in 1 .. Len(l) : l[i] = Suggest!Space}
<1>1. l \in Keyed /\ l \in Ends /\ n \in Nat
  <2>1. l \in Keyed /\ l \in Ends
    BY BeginningFacts, EndsFacts
  <2> QED
    BY <2>1, LenProperties DEF Keyed
<1>2. k = IF I # {} THEN Suggest!Min(I) ELSE 0
  BY DEF Suggest!FirstSpace, Suggest!SelectInSeq
<1> HIDE DEF k
<1>3. I # {} => Suggest!Min(I) \in I
  <2> SUFFICES ASSUME I # {} PROVE Suggest!Min(I) \in I
    OBVIOUS
  <2>1. I \in SUBSET Nat
    OBVIOUS
  <2> HIDE DEF I
  <2>2. \E m \in I : \A j \in I : m <= j
    BY <2>1, LeastOf
  <2> QED
    BY <2>2 DEF Suggest!Min
<1>4. I \subseteq 1 .. n
  OBVIOUS
<1> HIDE DEF I
<1>5. k \in 0 .. n
  <2>1. CASE I # {}
    <3>1. k \in I
      BY <1>2, <1>3, <2>1
    <3>2. k \in 1 .. n
      BY <1>4, <3>1
    <3> QED
      BY <1>1, <3>2
  <2>2. CASE ~ I # {}
    <3>1. k = 0
      BY <1>2, <2>2
    <3> QED
      BY <1>1, <3>1
  <2> QED
    BY <2>1, <2>2
<1>6. Suggest!Command(l) = SubSeq(l, 1, IF Suggest!Contains(l, Suggest!Space) THEN k - 1 ELSE n)
  BY DEF Suggest!Command, k
<1>7. Suggest!Token(l) = IF Suggest!Contains(l, Suggest!Space) THEN SubSeq(l, k + 1, n) ELSE <<>>
  BY DEF Suggest!Token, k
<1>8. SubSeq(l, 1, k - 1) \in Suggest!Beginnings
  <2>1. CASE k = 0
    <3>1. k - 1 \in Int /\ k - 1 < 1
      BY <2>1
    <3>2. SubSeq(l, 1, k - 1) = <<>>
      BY <3>1, SubSeqEmpty
    <3> QED
      BY <3>2, BeginningFacts
  <2>2. CASE k # 0
    <3>1. k - 1 \in 0 .. Len(l)
      BY <1>1, <1>5, <2>2
    <3> QED
      BY <3>1, BeginningFacts
  <2> QED
    BY <2>1, <2>2
<1>9. SubSeq(l, 1, n) \in Suggest!Beginnings
  BY <1>1, BeginningFacts
<1>10. SubSeq(l, k + 1, n) \in Ends
  <2>1. k + 1 \in 1 .. Len(l) + 1
    BY <1>1, <1>5
  <2> QED
    BY <1>1, <2>1, EndsFacts
<1> QED
  BY <1>6, <1>7, <1>8, <1>9, <1>10, EndsFacts

\* The caches, and the queries of the tags.
Cached == [words : SUBSET Found, dirs : SUBSET Found, age : {"none", "fresh", "stale"}]
LineCaches == [{"dir", "help"} -> Cached]
Queried == [mark : {"no", "asked", "old"}, flight : Nat, late : 0 .. MaxLate]
LineQueries == [Suggest!Tags -> Queried]

\* Whatever completes a line is the end of a word.
LEMMA CompletionFacts ==
  ASSUME NEW l \in Suggest!Beginnings, NEW lines \in SUBSET Suggest!Beginnings, NEW c \in LineCaches
  PROVE  Suggest!Completions(l, lines, c) \subseteq Ends
<1> DEFINE learned == Suggest!Learned(Suggest!Command(l), lines)
<1>1. learned \subseteq Ends
  BY SplitFacts DEF Suggest!Learned
<1>2. l \in Keyed /\ Suggest!Token(l) \in Keyed
  BY SplitFacts, BeginningFacts, EndsFacts
<1>3. lines \in SUBSET Ends /\ {Suggest!Command(h) : h \in lines} \in SUBSET Ends
  BY SplitFacts, EndsFacts
<1>4. Suggest!NameCompletions(l, lines) \subseteq Ends
  <2>1. Suggest!Missing(l, lines) \subseteq Ends /\ Suggest!Missing(l, {Suggest!Command(h) : h \in lines}) \subseteq Ends
    BY <1>2, <1>3, MissingEnds
  <2> QED
    BY <2>1 DEF Suggest!NameCompletions
<1>5. c["dir"] \in Cached /\ c["help"] \in Cached
  BY DEF LineCaches
<1>6. c["dir"].words \in SUBSET Ends /\ c["dir"].dirs \in SUBSET Ends /\ c["help"].words \in SUBSET Ends
  BY <1>5, EndsFacts DEF Cached
<1> HIDE DEF learned
<1>7. Suggest!FlagCompletions(l, lines, c) \subseteq Ends
  <2> DEFINE words == learned \cup {} \cup (IF c["help"].age = "fresh" THEN c["help"].words ELSE {})
  <2>1. words \in SUBSET Ends
    BY <1>1, <1>6
  <2>2. Suggest!FlagCompletions(l, lines, c) = Suggest!Missing(Suggest!Token(l), words)
    BY DEF Suggest!FlagCompletions, learned
  <2> HIDE DEF words
  <2> QED
    BY <1>2, <2>1, <2>2, MissingEnds
<1>8. Suggest!WordCompletions(l, lines, c) \subseteq Ends
  <2>1. /\ Suggest!Missing(Suggest!Token(l), c["dir"].dirs) \subseteq Ends
        /\ Suggest!Missing(Suggest!Token(l), c["dir"].words) \subseteq Ends
        /\ Suggest!Missing(Suggest!Token(l), learned) \subseteq Ends
    BY <1>1, <1>2, <1>6, MissingEnds
  <2> QED
    BY <2>1 DEF Suggest!WordCompletions, learned
<1> QED
  BY <1>4, <1>7, <1>8 DEF Suggest!Completions

\* A sequence of four keys begins with two.
Begins(w, a, b) ==
  /\ Len(w) = 4 /\ SubSeq(w, 1, 1) = <<a>> /\ SubSeq(w, 1, 2) = <<a, b>>
  /\ <<a>> \o <<>> = <<a>> /\ <<a>> \o <<b>> = <<a, b>>

\* Which are its first ones.
LEMMA FirstKeys ==
  ASSUME NEW S, NEW a \in S, NEW b \in S, NEW c \in S, NEW d \in S
  PROVE  Begins(<<a, b, c, d>>, a, b)
<1> DEFINE w == <<a, b, c, d>>
<1>1. w \in Seq(S) /\ Len(w) = 4 /\ w[1] = a /\ w[2] = b
  OBVIOUS
<1> HIDE DEF w
<1>2. \A i \in 1 .. 4 : w[i] \in S
  <2>1. \A i \in 1 .. Len(w) : w[i] \in S
    BY <1>1, ElementOfSeq
  <2> QED
    BY <1>1, <2>1
<1>3. SubSeq(w, 1, 1) = <<a>>
  <2> DEFINE u == SubSeq(w, 1, 1)
             v == <<a>>
  <2>1. \A i \in 1 .. 1 : w[i] \in S
    BY <1>2
  <2>2. u \in Seq(S) /\ Len(u) = 1 /\ u[1] = a
    BY <1>1, <2>1, SubSeqProperties
  <2>3. v \in Seq(S) /\ Len(v) = 1 /\ v[1] = a
    OBVIOUS
  <2> HIDE DEF u, v
  <2>4. \A i \in 1 .. Len(u) : u[i] = v[i]
    BY <2>2, <2>3
  <2>5. u = v
    BY <2>2, <2>3, <2>4, SeqEqual
  <2> QED
    BY <2>5 DEF u, v
<1>4. SubSeq(w, 1, 2) = <<a, b>> /\ <<a>> \o <<b>> = <<a, b>>
  <2> DEFINE u == SubSeq(w, 1, 2)
             v == <<a, b>>
             x == <<a>> \o <<b>>
  <2>1. \A i \in 1 .. 2 : w[i] \in S
    BY <1>2
  <2>2. u \in Seq(S) /\ Len(u) = 2 /\ u[1] = a /\ u[2] = b
    BY <1>1, <2>1, SubSeqProperties
  <2>3. v \in Seq(S) /\ Len(v) = 2 /\ v[1] = a /\ v[2] = b
    OBVIOUS
  <2>4. x \in Seq(S) /\ Len(x) = 2 /\ x[1] = a /\ x[2] = b
    <3>1. <<a>> \in Seq(S) /\ <<b>> \in Seq(S) /\ Len(<<a>>) = 1 /\ Len(<<b>>) = 1 /\ <<a>>[1] = a /\ <<b>>[1] = b
      OBVIOUS
    <3> QED
      BY <3>1, ConcatProperties
  <2> HIDE DEF u, v, x
  <2>5. (\A i \in 1 .. Len(u) : u[i] = v[i]) /\ (\A i \in 1 .. Len(x) : x[i] = v[i])
    BY <2>2, <2>3, <2>4
  <2>6. u = v /\ x = v
    BY <2>2, <2>3, <2>4, <2>5, SeqEqual
  <2> QED
    BY <2>6 DEF u, v, x
<1>5. <<a>> \o <<>> = <<a>>
  <2>1. <<a>> \in Seq(S)
    OBVIOUS
  <2> QED
    BY <2>1, ConcatEmptySeq
<1> QED
  BY <1>1, <1>3, <1>4, <1>5 DEF w, Begins

\* What the snippet expands to is the beginning of a line.
LEMMA ExpandedFacts ==
  ASSUME NEW more \in {<<Suggest!Space>>, <<>>}
  PROVE  Expanded \o more \in Suggest!Beginnings
<1> DEFINE w == <<"c", " ", "-", "h">>
<1>1. "c" \in Typed /\ " " \in Typed /\ "-" \in Typed /\ "h" \in Typed
  BY Zenon DEF Typed
<1>2. /\ Len(w) = 4 /\ SubSeq(w, 1, 1) = <<"c">> /\ SubSeq(w, 1, 2) = <<"c", " ">>
      /\ <<"c">> \o <<>> = <<"c">> /\ <<"c">> \o <<" ">> = <<"c", " ">>
  <2>1. \A a, b, c, d \in Typed : Begins(<<a, b, c, d>>, a, b)
    BY FirstKeys
  <2>2. Begins(w, "c", " ")
    BY <1>1, <2>1, Zenon
  <2> QED
    BY <2>2, Zenon DEF Begins
<1>3. w \in Lines
  BY Zenon DEF Lines
<1> HIDE DEF w
<1>4. Len(w) = 4
  BY <1>2, Zenon
<1>5. \A x \in Lines : \A n \in 0 .. Len(x) : SubSeq(x, 1, n) \in Suggest!Beginnings
  BY DEF Suggest!Beginnings
<1>6. SubSeq(w, 1, 1) \in Suggest!Beginnings /\ SubSeq(w, 1, 2) \in Suggest!Beginnings
  <2>1. 1 \in 0 .. Len(w) /\ 2 \in 0 .. Len(w)
    BY <1>4
  <2> QED
    BY <1>3, <1>5, <2>1
<1> QED
  BY <1>2, <1>6 DEF Expanded, Suggest!Space

\* A query that is asked is one still.
LEMMA AskTypes ==
  ASSUME NEW q \in LineQueries, NEW t, Suggest!Ask(t, q)
  PROVE  query' \in LineQueries
<1>1. PICK n \in {0, 1} :
        /\ query' = [q EXCEPT ![t] = [mark   |-> "asked",
                                      flight |-> q[t].flight + (IF connected THEN n ELSE 0),
                                      late   |-> IF q[t].flight = 0 THEN 0
                                                 ELSE q[t].late + (IF q[t].mark = "old" THEN n ELSE 0)]]
        /\ query'[t].late <= MaxLate
  BY DEF Suggest!Ask
<1> DEFINE f == q[t].flight + (IF connected THEN n ELSE 0)
           l == IF q[t].flight = 0 THEN 0 ELSE q[t].late + (IF q[t].mark = "old" THEN n ELSE 0)
           new == [mark |-> "asked", flight |-> f, late |-> l]
<1>2. query' = [q EXCEPT ![t] = new]
  BY <1>1
<1>3. DOMAIN q = Suggest!Tags
  BY DEF LineQueries
<1>4. CASE t \in Suggest!Tags
  <2>1. q[t] \in Queried
    BY <1>4 DEF LineQueries
  <2>2. q[t].flight \in Nat /\ q[t].late \in Nat
    BY <2>1 DEF Queried
  <2>3. f \in Nat /\ l \in Nat
    BY <2>2
  <2> HIDE DEF f, l
  <2>4. new.late = l /\ new.late <= MaxLate
    <3> HIDE DEF new
    <3>1. query'[t] = new
      BY <1>2, <1>3, <1>4
    <3> QED
      BY <1>1, <3>1 DEF new
  <2>5. {MaxLate} \subseteq Nat
    BY DeskAssumption
  <2>6. l \in 0 .. MaxLate
    BY <2>3, <2>4, <2>5
  <2>7. new \in Queried
    BY <2>3, <2>6 DEF Queried
  <2> HIDE DEF new
  <2> QED
    BY <1>2, <2>7 DEF LineQueries
<1>5. CASE t \notin Suggest!Tags
  <2> HIDE DEF new
  <2>1. query' = q
    BY <1>2, <1>3, <1>5 DEF LineQueries
  <2> QED
    BY <2>1
<1> QED
  BY <1>4, <1>5

\* The line is well formed, and what it suggests the end of a word.
LineTypes ==
  /\ line \in Suggest!Beginnings /\ typed \in Suggest!Beginnings
  /\ blind \in BOOLEAN /\ enter \in BOOLEAN /\ connected \in BOOLEAN
  /\ history \in SUBSET (Suggest!Beginnings \ {<<>>}) /\ Suggest!Cardinality(history) <= MaxHistory
  /\ ghost \in Ends /\ cache \in LineCaches /\ query \in LineQueries

\* Which is what its type invariant says.
LEMMA LineTypesMean == LineTypes => Suggest!TypeOK
<1> SUFFICES ASSUME LineTypes PROVE Suggest!TypeOK
  OBVIOUS
<1>1. Ends = Suggest!Tails(Suggest!Beginnings \cup Found \cup {})
  BY DEF Ends, Words
<1>2. {line, typed} \subseteq Suggest!Beginnings /\ {blind, enter, connected} \subseteq BOOLEAN
  BY DEF LineTypes
<1> QED
  BY <1>1, <1>2 DEF LineTypes, Suggest!TypeOK, LineCaches, Cached, LineQueries, Queried

\* The line starts well formed.
LEMMA LineTypesFirst == Suggest!SuggestInit => LineTypes
<1> SUFFICES ASSUME Suggest!SuggestInit PROVE LineTypes
  OBVIOUS
<1>1. /\ line = <<>> /\ typed = <<>> /\ blind = FALSE /\ enter = FALSE /\ history = {}
      /\ ghost = <<>> /\ cache = [s \in {"dir", "help"} |-> Suggest!NoCache]
      /\ query = [t \in Suggest!Tags |-> Suggest!NoQuery] /\ connected = TRUE
  BY DEF Suggest!SuggestInit
<1>2. {MaxLate, MaxHistory} \subseteq Nat
  BY DeskAssumption
<1>3. Suggest!NoCache \in Cached
  BY DEF Suggest!NoCache, Cached
<1>4. Suggest!NoQuery \in Queried
  BY <1>2 DEF Suggest!NoQuery, Queried
<1>5. cache \in LineCaches /\ query \in LineQueries
  BY <1>1, <1>3, <1>4 DEF LineCaches, LineQueries
<1>6. Suggest!Cardinality(history) <= MaxHistory
  <2>1. Suggest!Cardinality(history) = Cardinality({})
    BY <1>1 DEF Suggest!Cardinality, Cardinality
  <2>2. Cardinality({}) = 0
    BY FS_EmptySet
  <2> QED
    BY <1>2, <2>1, <2>2
<1> QED
  BY <1>1, <1>5, <1>6, BeginningFacts, EndsFacts DEF LineTypes

\* So is a suggestion anew.
LEMMA SuggestTypes ==
  ASSUME line' \in Suggest!Beginnings, history' \in SUBSET Suggest!Beginnings, cache' \in LineCaches,
         NEW tail \in Ends, NEW q \in LineQueries, Suggest!Recompute(tail, q)
  PROVE  ghost' \in Ends /\ query' \in LineQueries
<1>1. ghost' \in Ends
  <2>1. CASE tail # <<>> /\ ghost' = Tail(tail)
    <3>1. tail \in Seq(Typed) /\ tail # <<>>
      BY <2>1, EndsFacts DEF Keyed
    <3>2. Tail(tail) = SubSeq(tail, 2, Len(tail))
      BY <3>1, TailIsSubSeq
    <3>3. Len(tail) \in Nat /\ Len(tail) # 0
      BY <3>1, LenProperties, EmptySeq
    <3>4. 2 \in 1 .. Len(tail) + 1
      BY <3>3
    <3> QED
      BY <2>1, <3>2, <3>4, EndsFacts
  <2>2. CASE ghost' \in Suggest!Completions(line', history', cache')
    BY <2>2, CompletionFacts
  <2>3. CASE ghost' = <<>>
    BY <2>3, EndsFacts
  <2> QED
    BY <2>1, <2>2, <2>3 DEF Suggest!Recompute
<1>2. query' = q \/ \E t : Suggest!Ask(t, q)
  BY DEF Suggest!Recompute
<1> QED
  BY <1>1, <1>2, AskTypes

\* Keys leave the line and what was sent of it.
LEMMA SentTypes ==
  ASSUME LineInv', LineTypes, NEW keys, NEW exact \in BOOLEAN, Suggest!Send(keys, exact),
         line' \in Suggest!Beginnings
  PROVE  /\ typed' \in Suggest!Beginnings /\ blind' \in BOOLEAN
         /\ UNCHANGED <<enter, history, cache, connected>>
         /\ Suggest!Cardinality(history') <= MaxHistory
<1>0. Suggest!Cardinality(history) <= MaxHistory
  BY DEF LineTypes
<1>1. /\ \E gone \in BOOLEAN : blind' = (blind \/ enter \/ ~connected \/ gone \/ ~exact)
      /\ typed' = IF blind' THEN <<>> ELSE keys
      /\ UNCHANGED <<enter, history, cache, connected>>
  BY DEF Suggest!Send
<1>2. blind' \in BOOLEAN
  BY <1>1, Zenon
<1>3. ~blind' => (IF enter' THEN typed' = <<>> ELSE line' = typed')
  BY DEF LineInv, CopyOK
<1>4. typed' \in {<<>>, line'}
  BY <1>1, <1>3
<1> QED
  BY <1>0, <1>1, <1>2, <1>4, BeginningFacts DEF Suggest!Cardinality

\* And a suggestion.
LEMMA KeyTypes ==
  ASSUME LineInv, LineInv', LineTypes, NEW keys, NEW exact \in BOOLEAN, Suggest!Send(keys, exact),
         line' \in Suggest!Beginnings, NEW tail \in {ghost, <<>>}, Suggest!Recompute(tail, query)
  PROVE  LineTypes'
<1>0. /\ blind \in BOOLEAN /\ enter \in BOOLEAN /\ connected \in BOOLEAN
      /\ history \in SUBSET (Suggest!Beginnings \ {<<>>}) /\ Suggest!Cardinality(history) <= MaxHistory
      /\ ghost \in Ends /\ cache \in LineCaches /\ query \in LineQueries
  BY DEF LineTypes
<1>1. /\ typed' \in Suggest!Beginnings /\ blind' \in BOOLEAN
      /\ UNCHANGED <<enter, history, cache, connected>>
      /\ Suggest!Cardinality(history') <= MaxHistory
  BY SentTypes
<1>5. tail \in Ends
  BY <1>0, EndsFacts
<1>6. ghost' \in Ends /\ query' \in LineQueries
  BY <1>0, <1>1, <1>5, SuggestTypes
<1> QED
  BY <1>0, <1>1, <1>6 DEF LineTypes

\* A step of the line keeps it well formed.
LEMMA LineTypesStep == LineInv /\ LineTypes /\ [Suggest!SuggestNext]_lineVars => LineTypes'
<1> SUFFICES ASSUME LineInv, LineTypes, [Suggest!SuggestNext]_lineVars PROVE LineTypes'
  OBVIOUS
<1>0. /\ line \in Suggest!Beginnings /\ typed \in Suggest!Beginnings
      /\ blind \in BOOLEAN /\ enter \in BOOLEAN /\ connected \in BOOLEAN
      /\ history \in SUBSET (Suggest!Beginnings \ {<<>>}) /\ Suggest!Cardinality(history) <= MaxHistory
      /\ ghost \in Ends /\ cache \in LineCaches /\ query \in LineQueries
  BY DEF LineTypes
<1>i. LineInv'
  BY LineStep
<1>b. Suggest!Beginnings \subseteq Keyed /\ <<>> \in Suggest!Beginnings /\ <<>> \in Ends
  BY BeginningFacts, EndsFacts
<1>u. CASE UNCHANGED lineVars
  BY <1>0, <1>u DEF LineTypes, lineVars, Suggest!Cardinality
<1>k. ASSUME UNCHANGED <<line, typed, blind, enter, history>>, connected' \in BOOLEAN, ghost' \in Ends,
             cache' \in LineCaches, query' \in LineQueries
      PROVE  LineTypes'
  BY <1>0, <1>k DEF LineTypes, Suggest!Cardinality
<1>s. ASSUME NEW keys, NEW exact \in BOOLEAN, Suggest!Send(keys, exact),
             line' \in Suggest!Beginnings, NEW tail \in {ghost, <<>>}, Suggest!Recompute(tail, query)
      PROVE  LineTypes'
  BY <1>i, <1>s, KeyTypes
<1>1. ASSUME NEW k, Suggest!Type(k) PROVE LineTypes'
  <2>1. line' \in Suggest!Beginnings /\ Suggest!Send(Append(typed, k), TRUE) /\ Suggest!Recompute(ghost, query)
    BY <1>1 DEF Suggest!Type
  <2> QED
    BY <1>s, <2>1
<1>2. CASE Suggest!Erase
  <2>1. /\ line # <<>> /\ line' = SubSeq(line, 1, Len(line) - 1)
        /\ Suggest!Send(Suggest!Front(typed), TRUE) /\ Suggest!Recompute(ghost, query)
    BY <1>2 DEF Suggest!Erase, Suggest!Front
  <2>2. line \in Seq(Typed)
    BY <1>0, <1>b DEF Keyed
  <2>3. Len(line) - 1 \in 0 .. Len(line)
    BY <2>1, <2>2, LenProperties, EmptySeq
  <2>4. SubSeq(line, 1, Len(line) - 1) \in Suggest!Beginnings
    BY <1>0, <2>3, BeginningFacts
  <2>5. line' \in Suggest!Beginnings
    BY <1>b, <2>1, <2>4
  <2> QED
    BY <1>s, <2>1, <2>5
<1>13. ASSUME NEW ctrl, Suggest!Kill(ctrl) PROVE LineTypes'
  <2> DEFINE exact == (ctrl # "L")
  <2>1. line' = <<>> /\ Suggest!Send(<<>>, exact) /\ Suggest!Recompute(ghost, query)
    BY <1>13 DEF Suggest!Kill
  <2>2. exact \in BOOLEAN
    OBVIOUS
  <2> HIDE DEF exact
  <2> QED
    BY <1>b, <1>s, <2>1, <2>2
<1>14. ASSUME NEW cmd, Suggest!AcceptSearch(cmd) PROVE LineTypes'
  <2>1. /\ line' \in Suggest!Beginnings /\ Suggest!Send(typed \o cmd, TRUE)
        /\ ghost' = <<>> /\ query' = query
    BY <1>14 DEF Suggest!AcceptSearch
  <2> QED
    BY <1>0, <1>b, <1>i, <2>1, SentTypes DEF LineTypes
<1>15. CASE Suggest!WritePast
  BY <1>0, <1>b, <1>15 DEF Suggest!WritePast, LineTypes, Suggest!Cardinality
<1>3. CASE Suggest!Escape
  <2>1. line' = line /\ Suggest!Send(<<>>, FALSE) /\ Suggest!Recompute(ghost, query)
    BY <1>3 DEF Suggest!Escape
  <2> QED
    BY <1>0, <1>s, <2>1
<1>4. CASE Suggest!Accept
  <2>1. line' \in Suggest!Beginnings /\ Suggest!Send(typed \o ghost, TRUE) /\ Suggest!Recompute(<<>>, query)
    BY <1>4 DEF Suggest!Accept
  <2> QED
    BY <1>s, <2>1
<1>5. ASSUME NEW k \in {Suggest!Space, "tab"}, Suggest!Expand(k) PROVE LineTypes'
  <2> DEFINE space == (k = Suggest!Space)
  <2>1. /\ line' = Expanded \o (IF k = Suggest!Space THEN <<Suggest!Space>> ELSE <<>>)
        /\ Suggest!Send(SubSeq(typed, 1, Len(typed) - Len(Abbreviated)) \o line', space) /\ Suggest!Recompute(<<>>, query)
    BY <1>5 DEF Suggest!Expand
  <2>2. line' \in Suggest!Beginnings
    BY <2>1, ExpandedFacts
  <2>3. space \in BOOLEAN
    OBVIOUS
  <2> HIDE DEF space
  <2> QED
    BY <1>s, <2>1, <2>2, <2>3
<1>6. CASE Suggest!PressEnter
  <2>1. /\ line' = line /\ enter' = TRUE /\ typed' = <<>> /\ UNCHANGED <<history, cache, connected>>
        /\ \E gone \in BOOLEAN : blind' = (~connected \/ gone)
        /\ Suggest!Recompute(<<>>, query)
    BY <1>6 DEF Suggest!PressEnter
  <2>2. blind' \in BOOLEAN
    BY <2>1, Zenon
  <2>3. ghost' \in Ends /\ query' \in LineQueries
    BY <1>0, <1>b, <2>1, SuggestTypes
  <2> QED
    BY <1>0, <1>b, <2>1, <2>2, <2>3 DEF LineTypes, Suggest!Cardinality
<1>7. ASSUME NEW l \in Suggest!Beginnings, Suggest!Commit(l) PROVE LineTypes'
  <2>1. /\ enter' = FALSE /\ line' = <<>> /\ history' = history \cup ({l} \ {<<>>})
        /\ Suggest!Cardinality(history') <= MaxHistory
        /\ cache' \in {cache, [cache EXCEPT !["dir"] = Suggest!NoCache]}
        /\ UNCHANGED <<typed, blind, ghost, query, connected>>
    BY <1>7 DEF Suggest!Commit
  <2>2. Suggest!NoCache \in Cached
    BY DEF Suggest!NoCache, Cached
  <2>3. cache' \in LineCaches
    BY <1>0, <2>1, <2>2 DEF LineCaches
  <2>4. history' \in SUBSET (Suggest!Beginnings \ {<<>>})
    BY <1>0, <2>1
  <2> QED
    BY <1>0, <1>b, <2>1, <2>3, <2>4 DEF LineTypes, Suggest!Cardinality
<1>8. ASSUME NEW t \in Suggest!Tags, Suggest!Answer(t) PROVE LineTypes'
  <2> DEFINE new == [mark |-> "no", flight |-> query[t].flight - 1, late |-> query[t].late]
             q == [query EXCEPT ![t] = new]
  <2>1. /\ query[t].flight > 0 /\ Suggest!Recompute(ghost, q)
        /\ UNCHANGED <<line, typed, blind, enter, history, connected>>
        /\ \E words \in SUBSET Found : cache' = [cache EXCEPT ![Suggest!Slot(t)] =
             [words |-> words, dirs |-> IF t = "cd" THEN words ELSE {}, age |-> "fresh"]]
    BY <1>8 DEF Suggest!Answer
  <2>2. PICK words \in SUBSET Found : cache' = [cache EXCEPT ![Suggest!Slot(t)] =
             [words |-> words, dirs |-> IF t = "cd" THEN words ELSE {}, age |-> "fresh"]]
    BY <2>1
  <2>3. [words |-> words, dirs |-> IF t = "cd" THEN words ELSE {}, age |-> "fresh"] \in Cached
    BY DEF Cached
  <2>4. cache' \in LineCaches
    BY <1>0, <2>2, <2>3 DEF LineCaches
  <2>5. query[t] \in Queried
    BY <1>0 DEF LineQueries
  <2>6. new \in Queried
    BY <2>1, <2>5 DEF Queried
  <2> HIDE DEF new
  <2>7. q \in LineQueries
    BY <1>0, <2>6 DEF LineQueries
  <2> HIDE DEF q
  <2>8. ghost' \in Ends /\ query' \in LineQueries
    BY <1>0, <2>1, <2>4, <2>7, SuggestTypes
  <2> QED
    BY <1>0, <1>k, <2>1, <2>4, <2>8
<1>9. ASSUME NEW t \in Suggest!Tags, Suggest!TimeOut(t) PROVE LineTypes'
  <2> DEFINE new == [query[t] EXCEPT !.mark = "old"]
  <2>1. query' = [query EXCEPT ![t] = new] /\ UNCHANGED <<line, typed, blind, enter, history, ghost, cache, connected>>
    BY <1>9 DEF Suggest!TimeOut
  <2>2. query[t] \in Queried
    BY <1>0 DEF LineQueries
  <2>3. new \in Queried
    BY <2>2 DEF Queried
  <2> HIDE DEF new
  <2>4. query' \in LineQueries
    BY <1>0, <2>1, <2>3 DEF LineQueries
  <2> QED
    BY <1>0, <1>k, <2>1, <2>4
<1>10. ASSUME NEW s \in {"dir", "help"}, Suggest!CacheAges(s) PROVE LineTypes'
  <2> DEFINE new == IF s = "help" THEN [Suggest!NoCache EXCEPT !.age = "stale"] ELSE Suggest!NoCache
  <2>1. cache' = [cache EXCEPT ![s] = new] /\ UNCHANGED <<line, typed, blind, enter, history, ghost, query, connected>>
    BY <1>10 DEF Suggest!CacheAges
  <2>2. new \in Cached
    BY DEF Suggest!NoCache, Cached
  <2> HIDE DEF new
  <2>3. cache' \in LineCaches
    BY <1>0, <2>1, <2>2 DEF LineCaches
  <2> QED
    BY <1>0, <1>k, <2>1, <2>3
<1>11. CASE Suggest!Closed
  <2>1. /\ connected' = FALSE /\ ghost' = <<>> /\ typed' = <<>> /\ blind' = TRUE /\ UNCHANGED <<line, enter, history>>
        /\ cache' = [s \in {"dir", "help"} |-> Suggest!NoCache] /\ query' = [t \in Suggest!Tags |-> Suggest!NoQuery]
    BY <1>11 DEF Suggest!Closed
  <2>2. {MaxLate} \subseteq Nat
    BY DeskAssumption
  <2>3. Suggest!NoCache \in Cached /\ Suggest!NoQuery \in Queried
    BY <2>2 DEF Suggest!NoCache, Suggest!NoQuery, Cached, Queried
  <2>4. cache' \in LineCaches /\ query' \in LineQueries
    BY <2>1, <2>3 DEF LineCaches, LineQueries
  <2> QED
    BY <1>0, <1>b, <2>1, <2>4 DEF LineTypes, Suggest!Cardinality
<1>12. CASE Suggest!Connected
  <2>1. connected' = TRUE /\ UNCHANGED <<line, typed, blind, enter, history, ghost, cache, query>>
    BY <1>12 DEF Suggest!Connected
  <2> QED
    BY <1>0, <1>k, <2>1
<1> QED
  BY <1>u, <1>1, <1>2, <1>3, <1>4, <1>5, <1>6, <1>7, <1>8, <1>9, <1>10, <1>11, <1>12, <1>13, <1>14, <1>15 DEF Suggest!SuggestNext

------------------------------------------------------------------------------
(* The types of all machines.                                               *)

Machines == {"session", "line", "store", "panes", "pane", "view", "size", "bar", "canvas",
             "press", "select", "local", "rail"}

\* What the machines' type invariants need beside their invariants.
DeskTypes ==
  /\ machine \in Machines
  /\ LineTypes /\ StoreTypes /\ ViewTypes /\ BarTypes /\ CanvasTypes /\ LocalTypes /\ RailTypes
  /\ machine = "panes" => PanesTypes
  /\ machine = "pane" => PaneTypes
  /\ machine = "press" => PressTypes
  /\ machine = "select" => SelectTypes

\* They hold in the first state.
LEMMA DeskTypesFirst == MCInit => DeskTypes
BY LineTypesFirst, StoreTypesFirst, ViewTypesFirst, BarTypesFirst, CanvasTypesFirst, LocalTypesFirst, RailTypesFirst,
   PanesTypesFirst, PaneTypesFirst, PressTypesFirst, SelectTypesFirst DEF MCInit, DeskTypes, Machines

\* And a step keeps them.
LEMMA DeskTypesStep == DeskInv /\ DeskTypes /\ [MCNext]_allVars => DeskTypes'
BY OneMachine, LineTypesStep, StoreTypesStep, ViewTypesStep, BarTypesStep, CanvasTypesStep, LocalTypesStep, RailTypesStep,
   PanesTypesStep, PaneTypesStep, PressTypesStep, SelectTypesStep DEF DeskInv, DeskTypes

\* With the session's they are the type invariant of the machine that runs.
LEMMA DeskTypesMean == DeskInv /\ DeskTypes /\ TypeOK => DeskTypesOK
<1> SUFFICES ASSUME DeskInv, DeskTypes, TypeOK PROVE DeskTypesOK
  OBVIOUS
<1>1. /\ Suggest!TypeOK /\ Store!TypeOK /\ View!TypeOK /\ Bar!TypeOK /\ Canvas!TypeOK /\ Local!TypeOK /\ Rail!TypeOK
      /\ machine = "panes" => Panes!TypeOK
      /\ machine = "pane" => Pane!TypeOK
      /\ machine = "press" => Press!TypeOK
      /\ machine = "select" => Select!TypeOK
  BY LineTypesMean, StoreTypesMean, ViewTypesMean, BarTypesMean, CanvasTypesMean, LocalTypesMean, RailTypesMean,
     PanesTypesMean, PaneTypesMean, PressTypesMean, SelectTypesMean DEF DeskInv, DeskTypes
<1>2. Size!TypeOK
  BY DEF DeskInv, GridInv
<1>3. machine \in Machines
  BY DEF DeskTypes
<1> QED
  BY <1>1, <1>2, <1>3 DEF DeskTypesOK, Machines

\* Every machine's state is well formed in every state: what the line suggests is the end of a
\* word that was typed or found, the rows of the local pane hold each name once, no folder has
\* more listings under way than the panes may have, what is selected lies on the largest
\* grid, the text of the viewer is one stretch of a file, and a percentage of the rail is one.
THEOREM DeskTypesCorrect == MCSpec => []DeskTypesOK
<1>1. MCSpec => [][MCNext]_allVars
  BY PTL DEF MCSpec, allVars
<1>2. MCSpec => []DeskTypes
  BY <1>1, DeskInvariant, DeskTypesFirst, DeskTypesStep, PTL DEF MCSpec
<1>3. MCSpec => []TypeOK
  BY SessionAmongMachines, TypeCorrect, PTL
<1> QED
  BY <1>2, <1>3, DeskInvariant, DeskTypesMean, PTL

==============================================================================
