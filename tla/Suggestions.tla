------------------------------ MODULE Suggestions ------------------------------
(***************************************************************************)
(* The ghost text of a terminal tab: the line editor the app keeps beside  *)
(* the shell's own (Session::track_input, write_output, commit_input_line),*)
(* the suggestion it shows (recompute_active_suggestion), and the queries  *)
(* that fill its caches (ExecQuery, spawn_suggestion_query and             *)
(* SuggestionData).  Much that reaches the shell goes past the editor, and *)
(* the copy of the line is then wrong until the next Enter.                *)
(* A line is a sequence of keys with at most one space; Typable bounds     *)
(* what the user types.  Learned words are those of the committed lines,   *)
(* and the order of candidates is left open.                               *)
(***************************************************************************)
EXTENDS Naturals, Sequences, SequencesExt, FiniteSets

CONSTANTS Typable,     \* bound: the lines a user may be typing
          StrategyTag, \* the tag of the query that strategy_for picks for a command
          StaticFlags, \* flags_for, for the commands that have any
          Listing,     \* the words a query may find
          Abbr, Expansion, \* the snippet
          MinTyped,    \* 2: the shortest line that history completes
          MaxHistory, MaxLate  \* bounds: committed lines; queries asked again after a timeout

VARIABLES
  line,      \* input_buf, the app's copy of the shell's line
  sent,      \* what the shell has really been sent since the last Enter
  blind,     \* since the last Enter the copy may differ: keys that move the shell's line unseen,
             \* writes past the editor, Ctrl-L, type-ahead, lost writes
  enter,     \* enter_pending
  history,   \* command_history, and through it the TokenModel
  ghost,     \* inline_suggestion
  cache,     \* dir_cache and remote_caches
  query,     \* a tag's mark in pending, its queries in flight, those asked after a timeout
  connected

suggestVars == <<line, sent, blind, enter, history, ghost, cache, query, connected>>

Space == " "
Tags == {StrategyTag[c] : c \in DOMAIN StrategyTag} \cup {"help"}
Slot(tag) == IF tag = "help" THEN "help" ELSE "dir"
NoCache == [words |-> {}, dirs |-> {}, age |-> "none"]
NoQuery == [mark |-> "no", flight |-> 0, late |-> 0]
Beginnings == UNION {{SubSeq(w, 1, n) : n \in 0 .. Len(w)} : w \in Typable}
Tails(words) == UNION {{SubSeq(w, n, Len(w)) : n \in 1 .. Len(w) + 1} : w \in words}

\* The type invariant.
TypeOK ==
  /\ {line, sent} \subseteq Beginnings /\ {blind, enter, connected} \subseteq BOOLEAN
  /\ history \subseteq Beginnings \ {<<>>} /\ Cardinality(history) <= MaxHistory
  /\ ghost \in Tails(Beginnings \cup Listing \cup StaticFlags)
  /\ cache \in [{"dir", "help"} -> [words : SUBSET Listing, dirs : SUBSET Listing,
                                    age : {"none", "fresh", "stale"}]]
  /\ query \in [Tags -> [mark : {"no", "asked", "old"}, flight : Nat, late : 0 .. MaxLate]]

SuggestInit ==
  /\ line = <<>> /\ sent = <<>> /\ blind = FALSE /\ enter = FALSE /\ history = {}
  /\ ghost = <<>> /\ cache = [s \in {"dir", "help"} |-> NoCache]
  /\ query = [t \in Tags |-> NoQuery] /\ connected = TRUE

------------------------------------------------------------------------------
(* What there is to suggest.                                                *)

\* split_command_and_arg, last_token.
FirstSpace(l) == SelectInSeq(l, LAMBDA k : k = Space)
Command(l) == SubSeq(l, 1, IF Contains(l, Space) THEN FirstSpace(l) - 1 ELSE Len(l))
Token(l) == IF Contains(l, Space)
            THEN SubSeq(l, FirstSpace(l) + 1, Len(l)) ELSE <<>>
InArgument(l) == Token(l) # <<>>
IsFlag(l) == InArgument(l) /\ Head(Token(l)) = "-"

Learned(cmd, lines) == {Token(l) : l \in {h \in lines : Command(h) = cmd /\ InArgument(h)}}

\* match_suffix and suggestion_suffix: what is missing of a word that has begun.
Missing(prefix, words) ==
  {SubSeq(w, Len(prefix) + 1, Len(w)) : w \in {v \in words : IsStrictPrefix(prefix, v)}}

\* Phase 1, the command's name: history, then the learned commands.
NameCompletions(l, lines) ==
  LET remembered == IF Len(Command(l)) < MinTyped THEN {} ELSE Missing(l, lines)
  IN  IF remembered # {} THEN remembered ELSE Missing(l, {Command(h) : h \in lines})

FlagCompletions(l, lines, c) ==
  Missing(Token(l), Learned(Command(l), lines) \cup StaticFlags
                     \cup (IF c["help"].age = "fresh" THEN c["help"].words ELSE {}))

\* Phase 2: what the strategy's cache has, then what was learned.
WordCompletions(l, lines, c) ==
  LET live == IF c["dir"].age # "fresh" THEN {}
              ELSE Missing(Token(l), IF StrategyTag[Command(l)] = "cd" THEN c["dir"].dirs
                                      ELSE c["dir"].words)
  IN  IF live # {} THEN live ELSE Missing(Token(l), Learned(Command(l), lines))

Completions(l, lines, c) ==
  IF l = <<>> THEN {}
  ELSE IF ~InArgument(l) THEN NameCompletions(l, lines)
  ELSE IF IsFlag(l) THEN FlagCompletions(l, lines, c)
  ELSE WordCompletions(l, lines, c)

\* The query a miss calls for: the strategy's, or a help scrape of a command that was run
\* (maybe_scrape_help), has no static flags and was not scraped yet.
Wanted(l, lines, c) ==
  IF ~InArgument(l) THEN {}
  ELSE IF ~IsFlag(l) THEN {StrategyTag[Command(l)]}
  ELSE IF /\ StaticFlags = {} /\ c["help"].age = "none"
          /\ \E h \in lines : Command(h) = Command(l) THEN {"help"}
  ELSE {}

\* A tag is asked for unless its mark is recent.  try_send may find the command channel
\* full, and a worker between connections drops what it reads: the mark stays.
Ask(t, q) ==
  \E taken \in {0, 1} :
    /\ query' = [q EXCEPT ![t] = [mark   |-> "asked",
                                  flight |-> @.flight + (IF connected THEN taken ELSE 0),
                                  late   |-> IF @.flight = 0 THEN 0
                                             ELSE @.late + (IF @.mark = "old" THEN taken ELSE 0)]]
    /\ query'[t].late <= MaxLate

\* The tail is shown on when the line ends in the suggestion's first key, whatever was
\* pressed; otherwise the line is completed anew, or a query is sent for it.
Recompute(shown, q) ==
  IF line' # <<>> /\ shown # <<>> /\ Last(line') = Head(shown)
  THEN ghost' = Tail(shown) /\ query' = q
  ELSE LET found == Completions(line', history', cache')
           asked == {t \in Wanted(line', history', cache') : q[t].mark # "asked"}
       IN  IF found # {} THEN ghost' \in found /\ query' = q
           ELSE /\ ghost' = <<>>
                /\ IF asked = {} THEN query' = q ELSE \E t \in asked : Ask(t, q)

------------------------------------------------------------------------------
(* The keyboard (terminal_input).                                           *)

\* Keys reach the shell when the channel has room and a connection takes them.
Send(keys, exact) ==
  \E lost \in BOOLEAN :
    /\ blind' = (blind \/ enter \/ ~connected \/ lost \/ ~exact)
    /\ sent' = IF blind' THEN <<>> ELSE keys
  /\ UNCHANGED <<enter, history, cache, connected>>

Type(k) ==
  /\ Append(line, k) \in Beginnings /\ ~(k = Space /\ line = Abbr)
  /\ line' = Append(line, k) /\ Send(Append(sent, k), TRUE)
  /\ Recompute(ghost, query)

\* Backspace.
Erase ==
  /\ line # <<>> /\ line' = Front(line) /\ Send(Front(sent), TRUE)
  /\ Recompute(ghost, query)

\* Ctrl-C and Ctrl-U.  Ctrl-L clears the copy as well, but only the screen of the shell.
Kill(ctrl) ==
  /\ line # <<>> /\ line' = <<>> /\ Send(<<>>, ctrl # "L")
  /\ Recompute(ghost, query)

\* A cursor key, another control key, or Tab with nothing to accept: the shell's line
\* moves on unseen.
Escape ==
  /\ line # <<>> /\ line' = line /\ Send(<<>>, FALSE)
  /\ Recompute(ghost, query)

Accept ==
  /\ ghost # <<>> /\ line \o ghost \in Beginnings
  /\ line' = line \o ghost /\ Send(sent \o ghost, TRUE)
  /\ Recompute(<<>>, query)

\* Bug variant: the key that triggers the snippet is not sent.
ExpandSwallowsKey(k) ==
  /\ line = Abbr
  /\ line' = Expansion \o (IF k = Space THEN <<Space>> ELSE <<>>)
  /\ Send(SubSeq(sent, 1, Len(sent) - Len(Abbr)) \o Expansion, k = Space)
  /\ Recompute(<<>>, query)

\* The abbreviation is erased key by key; a Tab goes on to the shell's completion.
Expand(k) ==
  /\ line = Abbr
  /\ line' = Expansion \o (IF k = Space THEN <<Space>> ELSE <<>>)
  /\ Send(SubSeq(sent, 1, Len(sent) - Len(Abbr)) \o line', k = Space)
  /\ Recompute(<<>>, query)

\* The copy of the line is kept until the shell answers.
PressEnter ==
  /\ line' = line /\ enter' = TRUE /\ sent' = <<>>
  /\ \E lost \in BOOLEAN : blind' = (~connected \/ lost)
  /\ UNCHANGED <<history, cache, connected>>
  /\ Recompute(<<>>, query)

\* Enter in the history search types the command found, and completes nothing.
AcceptSearch(cmd) ==
  /\ line \o cmd \in Beginnings
  /\ line' = line \o cmd /\ Send(sent \o cmd, TRUE)
  /\ ghost' = <<>> /\ UNCHANGED query

\* A paste, a command inserted or run from the history panel, a raw write or the terminal's
\* own reply: they go to the shell as they are, and no one tells the editor.
WritePast ==
  /\ blind' = TRUE /\ sent' = <<>>
  /\ UNCHANGED <<line, enter, history, ghost, cache, query, connected>>

------------------------------------------------------------------------------
(* Output, answers and the connection.                                      *)

\* The first output after Enter commits the line the terminal shows by then: the echo may
\* be behind, and the shell may have completed what the copy has not.
Commit(l) ==
  /\ enter /\ enter' = FALSE /\ line' = <<>>
  /\ IF blind THEN TRUE ELSE IsPrefix(l, line)
  /\ l = <<>> => line = <<>>
  /\ history' = history \cup ({l} \ {<<>>}) /\ Cardinality(history') <= MaxHistory
  /\ cache' = IF l # <<>> /\ StrategyTag[Command(l)] = "cd" THEN [cache EXCEPT !["dir"] = NoCache]
              ELSE cache
  /\ UNCHANGED <<sent, blind, ghost, query, connected>>

\* A failed query answers with no words; a plain listing marks no directories.
Answer(t) ==
  /\ connected /\ query[t].flight > 0
  /\ \E words \in SUBSET Listing :
       cache' = [cache EXCEPT ![Slot(t)] =
                   [words |-> words, dirs |-> IF t = "cd" THEN words ELSE {}, age |-> "fresh"]]
  /\ UNCHANGED <<line, sent, blind, enter, history, connected>>
  /\ Recompute(ghost, [query EXCEPT ![t] = [mark |-> "no", flight |-> @.flight - 1, late |-> @.late]])

\* PENDING_TIMEOUT passes over a mark, and the time to live over a cache: it is as good as
\* none, except that a scrape is not repeated.
TimeOut(t) ==
  /\ query[t].mark = "asked" /\ query' = [query EXCEPT ![t].mark = "old"]
  /\ UNCHANGED <<line, sent, blind, enter, history, ghost, cache, connected>>

CacheAges(s) ==
  /\ cache[s].age = "fresh"
  /\ cache' = [cache EXCEPT ![s] = IF s = "help" THEN [NoCache EXCEPT !.age = "stale"] ELSE NoCache]
  /\ UNCHANGED <<line, sent, blind, enter, history, ghost, query, connected>>

\* Closed or Failed: the worker aborted its tasks before it said so.
Closed ==
  /\ connected /\ connected' = FALSE
  /\ cache' = [s \in {"dir", "help"} |-> NoCache] /\ query' = [t \in Tags |-> NoQuery]
  /\ ghost' = <<>> /\ sent' = <<>> /\ blind' = TRUE
  /\ UNCHANGED <<line, enter, history>>

Connected ==
  /\ ~connected /\ connected' = TRUE
  /\ UNCHANGED <<line, sent, blind, enter, history, ghost, cache, query>>

Keys == UNION {ToSet(w) : w \in Typable}
SuggestNext ==
  \/ \E k \in Keys : Type(k)
  \/ Erase \/ Kill("C") \/ Kill("L") \/ Escape \/ WritePast
  \/ \E cmd \in Beginnings \ {<<>>} : AcceptSearch(cmd)
  \/ Accept \/ Expand(Space) \/ Expand("tab") \/ PressEnter
  \/ \E l \in Beginnings : Commit(l)
  \/ \E t \in Tags : Answer(t) \/ TimeOut(t)
  \/ \E s \in {"dir", "help"} : CacheAges(s)
  \/ Closed \/ Connected

SuggestSpec == SuggestInit /\ [][SuggestNext]_suggestVars
------------------------------------------------------------------------------
(* Properties.                                                              *)

\* As long as the editor sees all that goes to the shell, its copy of the line is what the
\* shell has been sent: typing, erasing, an accepted suggestion, an expanded snippet and an
\* accepted history search keep the two in step.  It says nothing of a line that the editor
\* does not see whole (blind): after a cursor key, a completion, a paste, an insert or a run
\* from the history panel, a raw write, Ctrl-L, type-ahead or a lost write, the copy in the
\* code is wrong until the next Enter.
CopyIsTrue == ~blind /\ ~enter => line = sent

\* A tag has one query in flight, and one more for every time that its answer was late.
QueriesBounded == \A t \in Tags : query[t].flight <= 1 + query[t].late

\* "Enter clears the line; drop any stale suggestion immediately so it doesn't flash on the
\* next prompt" (update.rs:1764-1765): violated, the line is kept until the shell answers and
\* is completed again at once.
EnterDropsGhost == [][PressEnter => ghost' = <<>>]_suggestVars

\* "Cache miss: trigger a remote query" (update.rs:2010): violated, a fresh cache without a
\* match is asked for again, and every answer asks the next query.
QueryOnlyOnMiss ==
  [][\A t \in Tags : query'[t].flight > query[t].flight => cache'[Slot(t)].age # "fresh"]_suggestVars

\* "cursor_line_text() sees the full command" (session.rs:1481): violated while the echo lags.
CommitsWhatRan == [][history' # history /\ ~blind => history' \subseteq history \cup {line}]_suggestVars
================================================================================
