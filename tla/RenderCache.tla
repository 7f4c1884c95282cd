------------------------------ MODULE RenderCache ------------------------------
(***************************************************************************)
(* What the terminal canvas draws: a snapshot memoized on the buffer's     *)
(* generation and one geometry cache per row, cleared row by row as their  *)
(* cells or the render key change (TerminalRenderCache).  Hashes of keys   *)
(* are taken to be distinct.                                               *)
(***************************************************************************)
EXTENDS Integers, FiniteSets

CONSTANTS Heights,   \* grid heights
          MaxWrites  \* bound: changes of a buffer's life

Chars   == {" ", "x"}  \* a row: blank, or with a match of the query
Never   == -1          \* no generation: u64::MAX, and no snapshot
Nothing == <<>>

VARIABLES
  cells, generation,  \* the buffer
  query, current,     \* the search: on or off, and the number of its current match
  snapshot, made,     \* the memoized snapshot and its generation
  prev, syncedGeneration, syncedKey,  \* of sync_rows
  drawn               \* what the geometry of each row shows; Nothing once cleared

renderVars == <<cells, generation, query, current, snapshot, made, prev, syncedGeneration,
                syncedKey, drawn>>

Grid(height) == [1 .. height -> Chars]
Key == <<generation, query, current>>

\* draw_row of a snapshot: its cells, and whether the row's match is the current one.
Matches(snap) == {r \in DOMAIN snap : snap[r] = "x"}
IsCurrent(snap, r) ==
  query /\ r \in Matches(snap)
    /\ Cardinality({q \in Matches(snap) : q < r}) = current % Cardinality(Matches(snap))
Paint(snap) == [r \in DOMAIN snap |-> <<snap[r], query, IsCurrent(snap, r)>>]

\* The type invariant.
TypeOK ==
  /\ cells \in UNION {Grid(h) : h \in Heights} /\ generation \in 0 .. MaxWrites
  /\ query \in BOOLEAN /\ current \in 0 .. 1
  /\ snapshot \in {Nothing} \cup UNION {Grid(h) : h \in Heights} /\ made \in Never .. MaxWrites
  /\ prev \in {Nothing} \cup UNION {Grid(h) : h \in Heights}
  /\ syncedGeneration \in Never .. MaxWrites
  /\ DOMAIN drawn \in {{}} \cup {1 .. h : h \in Heights}

Blank(height) == [r \in 1 .. height |-> " "]

RenderInit ==
  /\ cells = Blank(CHOOSE h \in Heights : TRUE)
  /\ generation = 0 /\ query = FALSE /\ current = 0
  /\ snapshot = Nothing /\ made = Never /\ prev = Nothing /\ syncedGeneration = 0
  /\ syncedKey = Nothing /\ drawn = Nothing

CacheSame == UNCHANGED <<snapshot, made, prev, syncedGeneration, syncedKey, drawn>>

\* Output and scrolling change any rows, a new size their number.
Change(height) ==
  /\ generation < MaxWrites /\ generation' = generation + 1 /\ cells' \in Grid(height)
  /\ UNCHANGED <<query, current>> /\ CacheSame

\* A new buffer counts from 0 again: clear_grid resets the caches with it.
ClearGrid ==
  /\ cells' = Blank(Cardinality(DOMAIN cells)) /\ generation' = 0
  /\ snapshot' = Nothing /\ made' = Never /\ prev' = Nothing /\ syncedGeneration' = 0
  /\ syncedKey' = Nothing /\ drawn' = Nothing /\ UNCHANGED <<query, current>>

Search ==
  /\ \/ query' = ~query /\ current' = 0
     \/ query /\ current' \in {1 - current} /\ UNCHANGED query
  /\ UNCHANGED <<cells, generation>> /\ CacheSame

\* view: the snapshot, sync_rows, and the rows that are not cached drawn again.
Snap == IF made = generation THEN snapshot ELSE cells
Resized(snap) == DOMAIN drawn # DOMAIN snap
Before(snap) == IF Resized(snap) THEN Nothing ELSE prev
Synced(snap) == ~Resized(snap) /\ syncedGeneration = generation /\ syncedKey = Key
Cleared(snap) ==
  {r \in DOMAIN snap : \/ Resized(snap)
                       \/ ~Synced(snap) /\ (\/ syncedKey # Key
                                            \/ Before(snap) = Nothing
                                            \/ Before(snap)[r] # snap[r])}

View ==
  LET snap == Snap IN
  /\ snapshot' = snap /\ made' = generation
  /\ syncedKey' = Key /\ syncedGeneration' = generation
  /\ prev' = IF Synced(snap) THEN prev ELSE snap
  /\ drawn' = [r \in DOMAIN snap |-> IF r \in Cleared(snap) THEN Paint(snap)[r] ELSE drawn[r]]
  /\ UNCHANGED <<cells, generation, query, current>>

RenderNext == \/ \E h \in Heights : Change(h)
              \/ ClearGrid \/ Search \/ View

RenderSpec == RenderInit /\ [][RenderNext]_renderVars
------------------------------------------------------------------------------
(* Properties.                                                              *)

\* However output, clearing, resizing and searching come together, a frame shows the
\* buffer as it is, with the highlights of the search as it is.
FrameIsCurrent == [][View => drawn' = Paint(cells)]_renderVars

\* "An output burst only re-tessellates the rows whose cells actually changed"
\* (session.rs:24-25): violated, the render key hashes the generation, which moves with
\* every burst, so all rows are drawn again.
OnlyChangedRows ==
  [][View /\ prev # Nothing
       /\ syncedKey # Nothing /\ <<syncedKey[2], syncedKey[3]>> = <<query, current>>
     => \A r \in Cleared(Snap) : prev[r] # cells[r]]_renderVars
================================================================================
