------------------------------- MODULE Board -------------------------------
(***************************************************************************)
(* The cursor of the board (crates/cli/src/app.rs): which task row and     *)
(* which session card the next Play, Finish or Close acts on.  Intents     *)
(* name no target, so what the cursor is on when one is applied decides    *)
(* which session is stopped.  Meanwhile terminals print, processes exit    *)
(* and files change under it: sessions are kept in order of activity, and  *)
(* tasks in order of status.                                               *)
(*                                                                         *)
(* One project; rows and cards count from 0 as in the code, rows - 1 being *)
(* the project row on top.  Scrolling, tabs and overlays are left out.     *)
(***************************************************************************)
EXTENDS Integers, Sequences, FiniteSets, Selection

CONSTANTS
  Tasks,     \* task ids, numbers in their order
  NoTask,    \* the task of a setup session: the project row
  Statuses,  \* ranks of the statuses, numbers; Wip is the first
  Wip,
  Gone,      \* the "status" of a task with no file
  Uuids,     \* session ids; a bound on the sessions ever opened
  NoCard     \* no session

ASSUME TaskAssumption ==
  Tasks \subseteq Nat \ {NoTask} /\ IsFiniteSet(Tasks) /\ Gone \notin Statuses
ASSUME StatusAssumption ==
  Statuses \subseteq Int /\ Wip \in Statuses /\ \A s \in Statuses : Wip <= s

VARIABLES
  disk,      \* status of each task on disk
  tasks,     \* App.tasks, as of the last refresh
  sessions,  \* App.sessions, most recent activity first
  owner,     \* per session ever opened, its task
  live,      \* sessions that are live
  row,       \* -1 if project_selected, else selected
  card,      \* card_selected
  focus      \* board_focus

vars == <<disk, tasks, sessions, owner, live, row, card, focus>>

\* Type invariant: a row on a non-empty list is on a task of it, live
\* sessions are listed.
TypeOK ==
  /\ disk \in [Tasks -> Statuses \cup {Gone}]
  /\ tasks \in Seq(Tasks)
  /\ sessions \in Seq(Uuids)
  /\ owner \in [Uuids -> Tasks \cup {NoTask}]
  /\ live \in SUBSET {sessions[i] : i \in DOMAIN sessions}
  /\ row \in -1 .. Cardinality(Tasks) /\ (tasks # << >> => row < Len(tasks))
  /\ card \in Nat
  /\ focus \in {"tasks", "cards", "chat"}

-----------------------------------------------------------------------------
(* The lists. *)

Smaller(m, n) == IF m < n THEN m ELSE n
Larger(m, n)  == IF m > n THEN m ELSE n

\* The order of sort_for_board: by status, then by id.
Before(d, a, b) == d[a] < d[b] \/ (d[a] = d[b] /\ a < b)

\* The tasks that have a file in d.
Listed(d) == {t \in Tasks : d[t] # Gone}

\* sort_for_board of the tasks in d.
SortForBoard(d) ==
  CHOOSE q \in [1 .. Cardinality(Listed(d)) -> Listed(d)] :
    \A i, j \in DOMAIN q : i < j => Before(d, q[i], q[j])

\* target_task_id, NoTask on the project row or past the end.
Target(ts, r) == IF r + 1 \in DOMAIN ts THEN ts[r + 1] ELSE NoTask

\* task_cards: the sessions of the selected row, most recent first.
TaskCards(ss, own, ts, r) ==
  IF r # -1 /\ r + 1 \notin DOMAIN ts THEN << >>
  ELSE Only(ss, {u \in Uuids : own[u] = Target(ts, r)})

\* selected_card: the cursor is held inside the list when it is read.
SelectedCard(cards, k) ==
  IF cards = << >> THEN NoCard ELSE cards[Smaller(k, Len(cards) - 1) + 1]

Current == SelectedCard(TaskCards(sessions, owner, tasks, row), card)

\* The position of u among the cards of row r, dflt if it is not there.
CardOf(u, ss, own, ts, r, dflt) ==
  LET cards == TaskCards(ss, own, ts, r)
  IN  IF \E i \in DOMAIN cards : cards[i] = u
        THEN (CHOOSE i \in DOMAIN cards : cards[i] = u) - 1 ELSE dflt

\* Mutant: the card keeps its position instead of its session.
ResortedInPlace(u, ss) == card

\* sort_sessions: the cursor goes with the session u it was on.
Resorted(u, ss) == IF Len(ss) < 2 THEN card ELSE CardOf(u, ss, owner, tasks, row, card)

\* u as the most recent of ss.
OnTop(u, ss) == <<u>> \o Only(ss, Uuids \ {u})

\* Mutant: the row is left past the end of a shorter list.
RefreshedUnclamped(d, r) ==
  /\ tasks' = SortForBoard(d)
  /\ row' = r

\* refresh: the row keeps its number, not its task.  A list that became empty
\* leaves the row where it was.
Refreshed(d, r) ==
  /\ tasks' = SortForBoard(d)
  /\ row' = IF tasks' # << >> /\ r >= Len(tasks') THEN Len(tasks') - 1 ELSE r

\* The row that focus_session of u selects in the task list of now (a
\* refresh may follow).
FocusedRow(u, own) ==
  IF own[u] = NoTask THEN -1
  ELSE IF \E i \in DOMAIN tasks : tasks[i] = own[u]
    THEN (CHOOSE i \in DOMAIN tasks : tasks[i] = own[u]) - 1
    ELSE Larger(row, 0)

Init ==
  /\ disk \in [Tasks -> Statuses \cup {Gone}]
  /\ tasks = SortForBoard(disk)
  /\ sessions = << >>
  /\ owner = [u \in Uuids |-> NoTask]
  /\ live = {}
  /\ row = 0
  /\ card = 0
  /\ focus = "tasks"

-----------------------------------------------------------------------------
(* Intents that move the cursor. *)

\* select_next, select_prev (which returns at the top), select_first, select_last.
Select ==
  /\ \/ row' = IF row = -1 THEN 0
               ELSE IF tasks = << >> THEN row ELSE Smaller(row + 1, Len(tasks) - 1)
     \/ row > -1 /\ row' = row - 1
     \/ row' = -1
     \/ row' = Larger(Len(tasks) - 1, 0)
  /\ card' = 0
  /\ UNCHANGED <<disk, tasks, sessions, owner, live, focus>>

\* card_next, card_prev.
SelectCard ==
  /\ LET n == Len(TaskCards(sessions, owner, tasks, row))
     IN  card' \in {IF n = 0 THEN card ELSE Smaller(card + 1, n - 1), Larger(card - 1, 0)}
  /\ UNCHANGED <<disk, tasks, sessions, owner, live, row, focus>>

\* focus_right, focus_left: the chat is entered on a live card only.
Focus ==
  /\ \/ focus = "tasks" /\ TaskCards(sessions, owner, tasks, row) # << >> /\ focus' = "cards"
     \/ focus = "cards" /\ Current \in live /\ focus' = "chat"
     \/ focus = "chat" /\ focus' = "cards"
     \/ focus = "cards" /\ focus' = "tasks"
  /\ UNCHANGED <<disk, tasks, sessions, owner, live, row, card>>

-----------------------------------------------------------------------------
(* Intents that act on what it is on. *)

\* Mutant: the card is left where it was on another row.
FocusSessionUnmoved(u, ss, own, alive) ==
  /\ card' = card
  /\ focus' = IF u \in alive THEN "chat" ELSE "cards"

\* focus_session on the row FocusedRow found, with ss, own and alive the
\* sessions from now on.
FocusSession(u, ss, own, alive) ==
  /\ card' = CardOf(u, ss, own, tasks, FocusedRow(u, own), 0)
  /\ focus' = IF SelectedCard(TaskCards(ss, own, tasks, FocusedRow(u, own)), card') \in alive
                THEN "chat" ELSE "cards"

\* play_selected with a live play on the task: its card is focused.
PlayOpen(u) ==
  /\ row # -1
  /\ u \in live /\ owner[u] = Target(tasks, row) /\ owner[u] # NoTask
  /\ FocusSession(u, sessions, owner, live)
  /\ row' = FocusedRow(u, owner)
  /\ UNCHANGED <<disk, tasks, sessions, owner, live>>

\* play_selected otherwise: the task becomes wip, its session (an earlier one
\* resumed, or a new one) goes on top and is focused, and last of all the
\* lists are reloaded.
PlayNew(u) ==
  LET t     == Target(tasks, row)
      plays == {sessions[i] : i \in {j \in DOMAIN sessions : owner[sessions[j]] = t}}
      own   == [owner EXCEPT ![u] = t]
  IN  /\ row # -1 /\ t # NoTask /\ disk[t] # Gone
      /\ plays \cap live = {}
      /\ IF plays = {} THEN u \notin {sessions[i] : i \in DOMAIN sessions} /\ owner[u] = NoTask
                       ELSE u \in plays
      /\ disk' = [disk EXCEPT ![t] = Wip]
      /\ owner' = own
      /\ live' = live \cup {u}
      /\ sessions' = OnTop(u, sessions)
      /\ FocusSession(u, sessions', own, live')
      /\ Refreshed(disk', FocusedRow(u, own))

\* setup_start.
SetupStart(u) ==
  /\ u \notin {sessions[i] : i \in DOMAIN sessions} /\ owner[u] = NoTask
  /\ live' = live \cup {u}
  /\ sessions' = OnTop(u, sessions)
  /\ FocusSession(u, sessions', owner, live')
  /\ row' = -1
  /\ UNCHANGED <<disk, tasks, owner>>

\* finish_selected_session.
FinishSession ==
  /\ Current # NoCard
  /\ live' = live \ {Current}
  /\ UNCHANGED <<disk, tasks, sessions, owner, row, card, focus>>

\* close_selected_session.
CloseSession ==
  /\ Current # NoCard
  /\ live' = live \ {Current}
  /\ sessions' = Only(sessions, Uuids \ {Current})
  /\ card' = Larger(card - 1, 0)
  /\ focus' = IF focus = "chat" THEN "cards" ELSE focus
  /\ UNCHANGED <<disk, tasks, owner, row>>

-----------------------------------------------------------------------------
(* What moves under it. *)

\* drain_pty: a session printed, and may have ended with that.
DrainPty(u) ==
  /\ u \in live
  /\ live' \in {live, live \ {u}}
  /\ sessions' = OnTop(u, sessions)
  /\ card' = Resorted(Current, sessions')
  /\ UNCHANGED <<disk, tasks, owner, row, focus>>

\* Somebody edits the backlog: claude in a session, the pr sync, `jaum task`.
Edit(t) ==
  /\ disk' \in {[disk EXCEPT ![t] = s] : s \in Statuses \cup {Gone}}
  /\ UNCHANGED <<tasks, sessions, owner, live, row, card, focus>>

\* tick_reload.
Reload ==
  /\ Refreshed(disk, row)
  /\ UNCHANGED <<disk, sessions, owner, live, card, focus>>

-----------------------------------------------------------------------------

Next ==
  \/ Select \/ SelectCard \/ Focus
  \/ \E u \in Uuids : PlayOpen(u) \/ PlayNew(u) \/ SetupStart(u) \/ DrainPty(u)
  \/ FinishSession \/ CloseSession
  \/ \E t \in Tasks : Edit(t)
  \/ Reload

Spec == Init /\ [][Next]_vars

-----------------------------------------------------------------------------
(* Properties. *)

\* Activity reorders the cards, never what the cursor is on: the user who
\* closes a session while another prints closes the one that was selected.
ActivityKeepsCard == [][(\E u \in Uuids : DrainPty(u)) => Current' = Current]_vars

\* Whatever is opened is what the next Finish or Close acts on: after Play on
\* a live task, setup, and Play otherwise, unless the reload at its end has
\* put another task on the row (see PlayFocuses).
OpenFocuses ==
  [][\A u \in Uuids :
       \/ PlayOpen(u)
       \/ SetupStart(u)
       \/ PlayNew(u) /\ Target(tasks', row') = owner'[u]
       => Current' = u]_vars

\* After Play the board is on the session that was opened.
PlayFocuses == [][\A u \in Uuids : PlayNew(u) => Current' = u]_vars
=============================================================================
