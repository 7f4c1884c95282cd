---------------------------------- MODULE Tabs ----------------------------------
(***************************************************************************)
(* The tab bar: tabs are addressed by their place, a closing tab collapses *)
(* over some frames before it is dropped (close_tab, finalize_tab_close),  *)
(* and frames reach the app only while no overlay has the keyboard.        *)
(***************************************************************************)
EXTENDS Naturals, Sequences, SequencesExt

CONSTANT MaxTabs  \* bound: tabs a run of the app may open

VARIABLES
  sessions,  \* the ids of the tabs, in order
  active,    \* the place of the tab in front
  closing,   \* closing_tabs: the ids whose collapse is animated
  opened,    \* next_session_id
  muted      \* the settings or the vault overlay is up: no frame is delivered

tabVars == <<sessions, active, closing, opened, muted>>

Ids == 1 .. MaxTabs
InFront == sessions[active]

\* The type invariant: no tab twice, and one of them in front.
TypeOK ==
  /\ sessions \in Seq(Ids) /\ Len(sessions) \in 1 .. MaxTabs /\ IsInjective(sessions)
  /\ active \in 1 .. Len(sessions) /\ closing \subseteq ToSet(sessions)
  /\ opened \in Ids /\ muted \in BOOLEAN

TabsInit == sessions = <<1>> /\ active = 1 /\ closing = {} /\ opened = 1 /\ muted = FALSE

\* spawn_session: at the end, and in front.
Spawn(rest) ==
  /\ opened < MaxTabs /\ opened' = opened + 1
  /\ sessions' = Append(rest, opened') /\ active' = Len(rest) + 1

NewTab == ~muted /\ Spawn(sessions) /\ UNCHANGED <<closing, muted>>

SelectTab(i) ==
  /\ ~muted /\ active' = i /\ UNCHANGED <<sessions, closing, opened, muted>>

\* The last tab is replaced at once.
CloseLast == ~muted /\ Len(sessions) = 1 /\ Spawn(<<>>) /\ closing' = {} /\ UNCHANGED muted

\* The focus goes to the left whatever is there, or to the first tab on the right that stays.
Neighbour(i) ==
  LET live == {j \in i + 1 .. Len(sessions) : sessions[j] \notin closing}
  IN  IF i > 1 THEN i - 1
      ELSE IF live = {} THEN i ELSE CHOOSE j \in live : \A k \in live : j <= k

CloseTab(i) ==
  /\ ~muted /\ Len(sessions) > 1 /\ sessions[i] \notin closing
  /\ closing' = closing \cup {sessions[i]}
  /\ active' = IF active = i THEN Neighbour(i) ELSE active
  /\ UNCHANGED <<sessions, opened, muted>>

\* A frame in which the collapse of the tab at place i is over.
Finalize(i) ==
  /\ ~muted /\ sessions[i] \in closing /\ closing' = closing \ {sessions[i]}
  /\ LET rest == RemoveAt(sessions, i)
     IN  IF rest = <<>> THEN Spawn(rest)
         ELSE /\ sessions' = rest /\ UNCHANGED opened
              /\ active' = IF active > Len(rest) THEN Len(rest)
                           ELSE IF i < active THEN active - 1 ELSE active
  /\ UNCHANGED muted

Overlay == muted' = ~muted /\ UNCHANGED <<sessions, active, closing, opened>>

TabsNext ==
  \/ NewTab \/ CloseLast \/ Overlay
  \/ \E i \in 1 .. Len(sessions) : SelectTab(i) \/ CloseTab(i) \/ Finalize(i)

TabsSpec == TabsInit /\ [][TabsNext]_tabVars
------------------------------------------------------------------------------
(* Properties.                                                              *)

\* A background tab that goes away never takes the focus from the tab in front.
FocusStays ==
  [][\A i \in 1 .. Len(sessions) :
       Finalize(i) /\ i # active => sessions'[active'] = InFront]_tabVars

\* "move focus to a neighbor that is not itself animating out, so the workspace immediately
\* shows a live tab" (update.rs:2264-2265): violated, the left neighbour may be closing.
FocusMovesToLive ==
  [][\A i \in 1 .. Len(sessions) :
       CloseTab(i) /\ active = i /\ ToSet(sessions) # closing'
         => sessions'[active'] \notin closing']_tabVars
================================================================================
