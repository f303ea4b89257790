------------------------------ MODULE Worktrees ------------------------------
(***************************************************************************)
(* The worktrees of play sessions: Play::launch, spawn and cleanup         *)
(* (crates/flows/src/play.rs) over git (crates/adapters/src/git.rs), and   *)
(* what the daemon does with them when a session starts, fails to, ends or *)
(* is resumed (crates/cli/src/app.rs).  Every git command is a step: it    *)
(* may fail, and the daemon may die before and after it.                   *)
(*                                                                         *)
(* A branch of a repository stands for the directory of its worktree, so   *)
(* two branches never get one directory (feat/a and feat-a would).  The    *)
(* list of cards is module Sessions; here a task has one.  Who changes the *)
(* task's status, and when, is module Backlog.                             *)
(***************************************************************************)
EXTENDS Naturals, Sequences, FiniteSets

CONSTANTS
  Tasks,
  Trees,    \* branches, and so worktrees
  Start,    \* per task, the branches it links, one per repository
  Renamed,  \* what setup may rename them to
  MaxFails  \* bound: git commands and processes that fail

\* Tasks do not share a branch, and no branch is given up for another's.
ASSUME BranchAssumption ==
  /\ Start \in [Tasks -> Seq(Trees)] /\ Renamed \in [Tasks -> Seq(Trees)]
  /\ \A t \in Tasks : Len(Start[t]) > 0 /\ Len(Renamed[t]) = Len(Start[t])
  /\ \A t, u \in Tasks : \A j \in DOMAIN Start[t], k \in DOMAIN Start[u] :
       /\ Start[t][j] # Renamed[u][k]
       /\ <<t, j>> # <<u, k>> => Start[t][j] # Start[u][k] /\ Renamed[t][j] # Renamed[u][k]
ASSUME BoundAssumption == MaxFails \in Nat /\ IsFiniteSet(Tasks)

VARIABLES
  link,    \* per task, the branches in its file
  tree,    \* per branch, its worktree
  up,      \* the daemon runs
  card,    \* per task, the card of its play session
  record,  \* the same in sessions.json
  job,     \* what the daemon is doing
  fails    \* used up of the bound

vars == <<link, tree, up, card, record, job, fails>>

\* A card, with the worktrees the session was opened with: the first is its cwd.
Card   == [state : {"none"}] \cup [state : {"live", "done"}, trees : Seq(Trees)]
NoCard == [state |-> "none"]

\* A launch has the branches it read and the worktrees it has so far; an undo, a
\* finish and a close have the places, in the task's links, of those to remove;
\* kept are worktrees git would not remove.
Job == [kind : {"none"}]
         \cup [kind : {"launch"}, task : Tasks, links : Seq(Trees), trees : Seq(Trees)]
         \cup [kind : {"undo"}, task : Tasks, at : Nat]
         \cup [kind : {"finish", "close"}, task : Tasks, at : Nat, kept : SUBSET Trees]
NoJob == [kind |-> "none"]

\* Type invariant: without a daemon there are no sessions and nothing is under way.
TypeOK ==
  /\ link \in [Tasks -> Seq(Trees)]
  /\ tree \in [Trees -> {"none", "clean", "dirty"}]
  /\ up \in BOOLEAN
  /\ card \in [Tasks -> Card] /\ record \in [Tasks -> Card]
  /\ job \in Job
  /\ ~up => job = NoJob /\ \A t \in Tasks : card[t] = NoCard
  /\ fails \in 0 .. MaxFails

Init ==
  /\ link = Start
  /\ tree = [d \in Trees |-> "none"]
  /\ up = FALSE
  /\ card = [t \in Tasks |-> NoCard]
  /\ record = card
  /\ job = NoJob
  /\ fails = 0

-----------------------------------------------------------------------------
\* One more failure, of n.
Fails(n) == fails + n <= MaxFails /\ fails' = fails + n

Live(t) == card[t].state = "live"

\* persist_sessions: a project without a card is not written.
Persisted(cards) == IF \A t \in Tasks : cards[t] = NoCard THEN record ELSE cards

\* worktree_remove, without --force.
Removable(d) == tree[d] = "clean"

-----------------------------------------------------------------------------
\* play_selected, of a task that is not live: launch reads the links ...
Launch(t) ==
  /\ up /\ job = NoJob
  /\ ~Live(t)
  /\ job' = [kind |-> "launch", task |-> t, links |-> link[t], trees |-> <<>>]
  /\ UNCHANGED <<link, tree, up, card, record, fails>>

Launching == job.kind = "launch"
Made      == Len(job.trees) = Len(job.links)

\* ... and makes a worktree for each, or takes the one that is there ...
AddTree ==
  /\ Launching /\ ~Made
  /\ LET d == job.links[Len(job.trees) + 1] IN
       /\ tree' = [tree EXCEPT ![d] = IF @ = "none" THEN "clean" ELSE @]
       /\ job' = [job EXCEPT !.trees = Append(@, d)]
  /\ UNCHANGED <<link, up, card, record, fails>>

\* ... unless git or the store fails: then it gives up and undoes nothing.
LaunchFails ==
  /\ Launching
  /\ Fails(1)
  /\ job' = NoJob
  /\ UNCHANGED <<link, tree, up, card, record>>

\* spawn, and open_session in place of the card of an earlier play.
Spawn ==
  /\ Launching /\ Made
  /\ card' = [card EXCEPT ![job.task] = [state |-> "live", trees |-> job.trees]]
  /\ record' = Persisted(card')
  /\ job' = NoJob
  /\ UNCHANGED <<link, tree, up, fails>>

\* claude does not start: rollback_play_launch.
SpawnFails ==
  /\ Launching /\ Made
  /\ Fails(1)
  /\ job' = [kind |-> "undo", task |-> job.task, at |-> 1]
  /\ UNCHANGED <<link, tree, up, card, record>>

\* Play::cleanup: the worktree of the branch that the task links by now.  It stops
\* at the first that git does not remove.
Undo ==
  /\ job.kind = "undo"
  /\ LET d == link[job.task][job.at] IN
       IF Removable(d)
       THEN /\ tree' = [tree EXCEPT ![d] = "none"]
            /\ job' = IF job.at = Len(link[job.task]) THEN NoJob ELSE [job EXCEPT !.at = @ + 1]
       ELSE job' = NoJob /\ tree' = tree
  /\ UNCHANGED <<link, up, card, record, fails>>

\* git refuses, or the task's file cannot be read: the rest stays.
UndoFails ==
  /\ job.kind = "undo"
  /\ Fails(1)
  /\ job' = NoJob
  /\ UNCHANGED <<link, tree, up, card, record>>

-----------------------------------------------------------------------------
\* finish_selected_session and close_selected_session, of any card: the process
\* is killed ...
End(t, kind) ==
  /\ up /\ job = NoJob
  /\ card[t] # NoCard
  /\ card' = [card EXCEPT ![t].state = "done"]
  /\ job' = [kind |-> kind, task |-> t, at |-> 1, kept |-> {}]
  /\ UNCHANGED <<link, tree, up, record, fails>>

Ending == job.kind \in {"finish", "close"}

\* Mutant. As Play::cleanup does it, the first failure is the last attempt.
CleanupStops ==
  /\ Ending /\ job.at <= Len(card[job.task].trees)
  /\ LET d == link[job.task][job.at] IN
       IF Removable(d)
       THEN tree' = [tree EXCEPT ![d] = "none"] /\ job' = [job EXCEPT !.at = @ + 1]
       ELSE job' = [job EXCEPT !.at = Len(card[job.task].trees) + 1] /\ tree' = tree
  /\ UNCHANGED <<link, up, card, record, fails>>

\* ... cleanup_worktrees goes through its worktrees, again by the branches that
\* the task links by now, and past those that git does not remove ...
Cleanup ==
  /\ Ending /\ job.at <= Len(card[job.task].trees)
  /\ LET d == link[job.task][job.at] IN
       tree' = [tree EXCEPT ![d] = IF Removable(d) THEN "none" ELSE @]
  /\ job' = [job EXCEPT !.at = @ + 1]
  /\ UNCHANGED <<link, up, card, record, fails>>

\* ... past those too that git fails on, or whose task cannot be read, which is done
\* anew for each ...
CleanupFails ==
  /\ Ending /\ job.at <= Len(card[job.task].trees)
  /\ Fails(1)
  /\ job' = [job EXCEPT !.at = @ + 1, !.kept = @ \cup {link[job.task][job.at]}]
  /\ UNCHANGED <<link, tree, up, card, record>>

\* ... and only then is the end of the session recorded.
Ended ==
  /\ Ending /\ job.at > Len(card[job.task].trees)
  /\ card' = IF job.kind = "close" THEN [card EXCEPT ![job.task] = NoCard] ELSE card
  /\ record' = Persisted(card')
  /\ job' = NoJob
  /\ UNCHANGED <<link, tree, up, fails>>

-----------------------------------------------------------------------------
\* Mutant. The sessions stay in the list.
StopListed ==
  /\ up /\ job = NoJob
  /\ record' = Persisted(card)
  /\ up' = FALSE
  /\ UNCHANGED <<link, tree, card, job, fails>>

\* stop_all_sessions: the worktrees stay.
Stop ==
  /\ up /\ job = NoJob
  /\ record' = Persisted(card)
  /\ up' = FALSE
  /\ card' = [t \in Tasks |-> NoCard]
  /\ UNCHANGED <<link, tree, job, fails>>

\* The daemon dies, wherever it is; its claudes lose their terminal and end.
Crash ==
  /\ up
  /\ up' = FALSE
  /\ card' = [t \in Tasks |-> NoCard]
  /\ job' = NoJob
  /\ UNCHANGED <<link, tree, record, fails>>

\* Mutant. The record says whether to resume it.
ResumableUnchecked(r) == r.state = "live"

\* rehydrate_one resumes the session of an unfinished record in its first worktree,
\* if that is there; what is not resumed is history.
Resumable(r) == r.state = "live" /\ tree[r.trees[1]] # "none"

\* The daemon starts; the sessions of failing do not come up.
Boot ==
  /\ ~up
  /\ \E failing \in SUBSET {t \in Tasks : Resumable(record[t])} :
       /\ Fails(Cardinality(failing))
       /\ card' = [t \in Tasks |->
            IF record[t] = NoCard THEN NoCard
            ELSE [record[t] EXCEPT !.state =
                    IF Resumable(record[t]) /\ t \notin failing THEN "live" ELSE "done"]]
  /\ up' = TRUE
  /\ UNCHANGED <<link, tree, record, job>>

-----------------------------------------------------------------------------
\* External: claude works in the worktrees of its session, and commits; its process
\* exits, which drain_pty notes on the card.
Work(t) ==
  /\ Live(t)
  /\ \E k \in DOMAIN card[t].trees : LET d == card[t].trees[k] IN
       /\ tree[d] # "none"
       /\ tree' = [tree EXCEPT ![d] = IF @ = "clean" THEN "dirty" ELSE "clean"]
  /\ UNCHANGED <<link, up, card, record, job, fails>>

Exit(t) ==
  /\ Live(t)
  /\ card' = [card EXCEPT ![t].state = "done"]
  /\ UNCHANGED <<link, tree, up, record, job, fails>>

\* External: setup renames a branch in a task's file.
Rename(t) ==
  /\ \E k \in DOMAIN link[t] :
       link[t][k] # Renamed[t][k] /\ link' = [link EXCEPT ![t][k] = Renamed[t][k]]
  /\ UNCHANGED <<tree, up, card, record, job, fails>>

-----------------------------------------------------------------------------
Next ==
  \/ AddTree \/ LaunchFails \/ Spawn \/ SpawnFails \/ Undo \/ UndoFails
  \/ Cleanup \/ CleanupFails \/ Ended
  \/ Stop \/ Crash \/ Boot
  \/ \E t \in Tasks : \/ Launch(t) \/ End(t, "finish") \/ End(t, "close")
                      \/ Work(t) \/ Exit(t) \/ Rename(t)

Spec == Init /\ [][Next]_vars

-----------------------------------------------------------------------------
\* A live session has the directory it runs in, although worktrees go before the
\* end of their session is recorded and a crash may fall in between, and although a
\* play that failed takes worktrees away (app.rs:757, 2144).
LiveHasCwd ==
  \A t \in Tasks : Live(t) => tree[card[t].trees[1]] # "none"

\* The end of a session leaves no worktree behind but those with uncommitted work,
\* those whose branch was renamed under it, and those git would not remove: one
\* that cannot be removed does not keep the next (app.rs:2144).
EndCleansUp ==
  [][(Ending /\ job' = NoJob /\ up') =>
       \A k \in DOMAIN card[job.task].trees : LET d == card[job.task].trees[k] IN
          link[job.task][k] = d => tree[d] # "clean" \/ d \in job.kept]_vars

\* A worktree without work in it belongs to a card, or to a play under way: of a
\* launch whose session never opened "nothing stays orphaned" (app.rs:1231).
NoOrphans ==
  job = NoJob /\ up => \A d \in Trees :
    tree[d] = "clean" => \E t \in Tasks :
      card[t] # NoCard /\ \E k \in DOMAIN card[t].trees : card[t].trees[k] = d

=============================================================================
