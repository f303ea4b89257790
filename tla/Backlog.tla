------------------------------- MODULE Backlog -------------------------------
(***************************************************************************)
(* The backlog of one project: a file per task (crates/core/src/store.rs), *)
(* and everybody who reads and rewrites whole files with no lock between   *)
(* them.  The daemon's thread plays, finishes, defers and creates tasks;   *)
(* its pr sync thread records the numbers of pull requests                 *)
(* (crates/cli/src/app.rs); `jaum task new` creates tasks (main.rs);       *)
(* claude edits files.  GitHub moves on its own.                           *)
(*                                                                         *)
(* A change is a get and a write, and a write is a truncation and the      *)
(* content: in between the file does not parse.  Directories are listed in *)
(* one step.  Of a task the status and the links are kept.  The file       *)
(* watcher only makes a reload come sooner, so the fallback timer stands   *)
(* for both.  The pull request of branch b is number b.  Worktrees and     *)
(* processes are module Worktrees.                                         *)
(***************************************************************************)
EXTENDS Naturals, Sequences, FiniteSets

CONSTANTS
  MaxId,     \* bound: the highest task number
  Repos,     \* repository slugs
  Mapped,    \* those with a local path in the project
  Branches,  \* branches, numbers
  Start,     \* the links of each task there is at first
  GhStart,   \* the pull requests there are at first
  NewLink,   \* the --repo and --branch of `jaum task new`
  Edits,     \* the links claude may add to a task
  Creators,  \* `jaum task new` processes
  Gone,      \* the "content" of a file that is not there
  Torn,      \* the content of a file that does not parse
  MaxOps,    \* bound: intents of the user, and edits of claude
  MaxFails   \* bound: calls of gh, of git and of claude that fail

PrStates == {"none", "open", "merged"}  \* a closed one counts as open: it may be reopened
Place == [repo : Repos, branch : Branches]

\* A task links a repository once, as link_repo sees to.
ASSUME LinkAssumption ==
  /\ Mapped \subseteq Repos
  /\ Branches \subseteq Nat \ {0}
  /\ NewLink \in Place
  /\ GhStart \in [Branches -> PrStates]
  /\ Edits \subseteq Place
  /\ Start \in Seq(Seq(Place))
  /\ \A i \in DOMAIN Start : \A j, k \in DOMAIN Start[i] :
       Start[i][j].repo = Start[i][k].repo => j = k
\* What task i may come to link: a repository has one branch in it, whoever links
\* it, for no branch is renamed here.
Places(i) ==
  Edits \cup {NewLink}
    \cup IF i \in DOMAIN Start THEN {Start[i][k] : k \in DOMAIN Start[i]} ELSE {}
ASSUME BranchAssumption ==
  \A i \in 1 .. MaxId : \A p, q \in Places(i) : p.repo = q.repo => p = q
ASSUME BoundAssumption ==
  {MaxId, MaxOps, MaxFails} \subseteq Nat /\ Len(Start) <= MaxId

VARIABLES
  file,      \* per number, the task file
  gh,        \* per branch, the state of its pull request on GitHub
  shown,     \* App.tasks, as of the last refresh that worked
  live,      \* tasks with a live play session
  io,        \* per process, the change it is making to a file
  op,        \* what the daemon's thread is doing
  sync,      \* the pr sync: whether its thread runs, and the targets it has left
  cli,       \* per creator, how far it is, and with what task
  ops, fails \* used up of the bounds

vars == <<file, gh, shown, live, io, op, sync, cli, ops, fails>>

Ids      == 1 .. MaxId
Statuses == {"backlog", "wip", "merged"}
Procs    == {"daemon", "sync"} \cup Creators

Link == [repo : Repos, pr : {0} \cup Branches, branch : Branches]

Task    == [status : Statuses, links : Seq(Link)]
NewTask == [status |-> "backlog", links |-> <<>>]

Links(t, r) == \E k \in DOMAIN t.links : t.links[k].repo = r

\* link_repo: the branch of a repository it links, or a link without a number.
LinkRepo(t, l) ==
  IF Links(t, l.repo)
  THEN [t EXCEPT !.links = [k \in DOMAIN t.links |->
          IF t.links[k].repo = l.repo THEN [t.links[k] EXCEPT !.branch = l.branch] ELSE t.links[k]]]
  ELSE [t EXCEPT !.links = Append(@, [repo |-> l.repo, pr |-> 0, branch |-> l.branch])]

\* What a process is about to write.
Io   == [step : {"idle"}] \cup [step : {"truncate", "fill"}, id : Ids, task : Task]
Idle == [step |-> "idle"]

\* An intent under way.  A play, before and after the task is marked, holds the
\* status it had.  A finish holds the links it read, how many of them it has asked
\* for, whether those were all merged, and a number of the last that it is to record.
Op   == [kind : {"none", "settle", "defer"}]
          \cup [kind : {"launch", "spawn"}, id : Ids, prior : Statuses]
          \cup [kind : {"finish"}, id : Ids, links : Seq(Link), at : Nat, merged : BOOLEAN,
                found : {0} \cup Branches]
NoOp == [kind |-> "none"]
Settle == [kind |-> "settle"]

Target == [id : Ids, repo : Repos, branch : Branches]

\* Type invariant: a finish is at one of its links, and a pr sync that has targets
\* left has its flag up.
TypeOK ==
  /\ file \in [Ids -> Task \cup {Gone, Torn}]
  /\ gh \in [Branches -> PrStates]
  /\ shown \in [Ids -> Task \cup {Gone}]
  /\ live \in SUBSET Ids
  /\ io \in [Procs -> Io]
  /\ op \in Op /\ (op.kind = "finish" => op.at <= Len(op.links))
  /\ sync \in [running : BOOLEAN, targets : SUBSET Target]
  /\ sync.targets # {} => sync.running
  /\ cli \in [Creators -> [step : {"new", "created", "linked", "killed"}, id : {0} \cup Ids]]
  /\ ops \in 0 .. MaxOps
  /\ fails \in 0 .. MaxFails

StartTask(i) ==
  [NewTask EXCEPT !.links = [k \in DOMAIN Start[i] |->
     [repo |-> Start[i][k].repo, pr |-> 0, branch |-> Start[i][k].branch]]]

Init ==
  /\ file = [i \in Ids |-> IF i <= Len(Start) THEN StartTask(i) ELSE Gone]
  /\ gh = GhStart
  /\ shown = file
  /\ live = {}
  /\ io = [p \in Procs |-> Idle]
  /\ op = NoOp
  /\ sync = [running |-> FALSE, targets |-> {}]
  /\ cli = [c \in Creators |-> [step |-> "new", id |-> 0]]
  /\ ops = 0 /\ fails = 0

-----------------------------------------------------------------------------
\* The store.

\* get finds the file and can parse it.
Parses(i) == file[i] \notin {Gone, Torn}

\* write: the process holds the whole task from here on.
Write(p, i, t) == io' = [io EXCEPT ![p] = [step |-> "truncate", id |-> i, task |-> t]]

\* Mutant. set_pr writes the task's first link, whatever its repository.
SetPrFirst(p, i, r, n) == Write(p, i, [file[i] EXCEPT !.links[1].pr = n])

\* set_pr of the task it has just read: the first link of the repository.
SetPr(p, i, r, n) ==
  LET k == CHOOSE k \in DOMAIN file[i].links :
             /\ file[i].links[k].repo = r
             /\ \A j \in 1 .. k - 1 : file[i].links[j].repo # r
  IN Write(p, i, [file[i] EXCEPT !.links[k].pr = n])
CanSetPr(i, r) == Parses(i) /\ Links(file[i], r)

\* pr_number: there is one for the branch, closed ones and merged ones included.
HasPr(b) == gh[b] # "none"

\* next_id: the highest number there is a file for, one that does not parse included.
NextId ==
  CHOOSE n \in 1 .. MaxId + 1 :
    /\ \A i \in Ids : file[i] # Gone => i < n
    /\ n = 1 \/ file[n - 1] # Gone

\* Bound: there is a number left, and one for everyone else who may take one.
Numbered == NextId \in Ids
Room ==
  /\ Numbered
  /\ LET soon == {io[p].id : p \in {p \in Procs : io[p] # Idle}}
         news == Cardinality({c \in Creators : cli[c].step = "new"})
     IN \A i \in soon \cup {NextId - 1} : i + 1 + news <= MaxId

\* fs::write opens the file and so empties it, and then fills it.
WriteStep(p) ==
  /\ io[p] # Idle
  /\ IF io[p].step = "truncate"
     THEN /\ file' = [file EXCEPT ![io[p].id] = Torn]
          /\ io' = [io EXCEPT ![p].step = "fill"]
     ELSE /\ file' = [file EXCEPT ![io[p].id] = io[p].task]
          /\ io' = [io EXCEPT ![p] = Idle]
  /\ UNCHANGED <<gh, shown, live, op, sync, cli, ops, fails>>

SomeTorn == \E i \in Ids : file[i] = Torn

\* Mutant. A reload is spared when there are as many files as there are tasks shown.
RefreshCounted ==
  shown' = IF \/ SomeTorn
              \/ {i \in Ids : file[i] = Gone} = {i \in Ids : shown[i] = Gone}
           THEN shown ELSE file

\* refresh: list fails as a whole on one file that does not parse.
Refresh == shown' = IF SomeTorn THEN shown ELSE file

-----------------------------------------------------------------------------
\* The daemon's thread.

\* The user picks a task on the board; one intent is handled at a time.
Pick(i) ==
  /\ op = NoOp
  /\ shown[i] # Gone
  /\ ops < MaxOps /\ ops' = ops + 1

\* The intent fails on the store: only its refresh is left.
Fail == op' = Settle /\ io' = io

\* play of a task without a live session; its two reads of the task are one step.  A
\* spike fails like a task with a repository that has no local path.
Play(i) ==
  /\ Pick(i)
  /\ i \notin live
  /\ io' = io
  /\ op' = IF /\ Parses(i)
              /\ file[i].links # <<>>
              /\ \A k \in DOMAIN file[i].links : file[i].links[k].repo \in Mapped
           THEN [kind |-> "launch", id |-> i, prior |-> file[i].status]
           ELSE Settle
  /\ UNCHANGED <<file, gh, shown, live, sync, cli, fails>>

\* set_status, of the file as it is by now.
SetStatus(st) == Write("daemon", op.id, [file[op.id] EXCEPT !.status = st])

\* The worktrees are there: set_status wip.
PlayMarks ==
  /\ op.kind = "launch"
  /\ IF Parses(op.id) THEN op' = [op EXCEPT !.kind = "spawn"] /\ SetStatus("wip") ELSE Fail
  /\ UNCHANGED <<file, gh, shown, live, sync, cli, ops, fails>>

\* git fails, and the status is as it was.
PlayGitFails ==
  /\ op.kind = "launch"
  /\ fails < MaxFails /\ fails' = fails + 1
  /\ Fail
  /\ UNCHANGED <<file, gh, shown, live, sync, cli, ops>>

Marked == op.kind = "spawn" /\ io["daemon"] = Idle

\* The status is on disk and claude starts: the session is open.
PlayOpens ==
  /\ Marked
  /\ live' = live \cup {op.id}
  /\ op' = NoOp
  /\ Refresh
  /\ UNCHANGED <<file, gh, io, sync, cli, ops, fails>>

\* claude does not start, and rollback_play_launch puts the status back.
PlayRollsBack ==
  /\ Marked
  /\ fails < MaxFails /\ fails' = fails + 1
  /\ IF Parses(op.id) THEN op' = Settle /\ SetStatus(op.prior) ELSE Fail
  /\ UNCHANGED <<file, gh, shown, live, sync, cli, ops>>

\* The session ends (module Sessions says how).
SessionEnds ==
  /\ op = NoOp
  /\ \E i \in live : live' = live \ {i}
  /\ UNCHANGED <<file, gh, shown, io, op, sync, cli, ops, fails>>

\* finish: the links are read once.
Finish(i) ==
  /\ Pick(i)
  /\ IF Parses(i)
     THEN op' = [kind |-> "finish", id |-> i, links |-> file[i].links, at |-> 0,
                 merged |-> TRUE, found |-> 0]
     ELSE op' = Settle
  /\ UNCHANGED <<file, gh, shown, live, io, sync, cli, fails>>

\* pr_state of a link gh need not, or cannot, be asked for, or has no number for.
NotCreated(l) == l.repo \notin Mapped \/ (l.pr = 0 /\ ~HasPr(l.branch))

\* Between two links: no number is left to record, nor on its way to the file.
FinishReady == op.kind = "finish" /\ op.found = 0 /\ io["daemon"] = Idle
FinishAt    == FinishReady /\ op.at < Len(op.links)

\* gh answers for the next link: its number, if the link had none, and its state.
FinishLink ==
  /\ FinishAt
  /\ LET l == op.links[op.at + 1]
         n == IF l.pr = 0 THEN l.branch ELSE l.pr
     IN op' = [op EXCEPT !.at = @ + 1,
                         !.merged = @ /\ ~NotCreated(l) /\ gh[n] = "merged",
                         !.found = IF NotCreated(l) \/ l.pr # 0 THEN 0 ELSE n]
  /\ UNCHANGED <<file, gh, shown, live, io, sync, cli, ops, fails>>

\* The number is recorded before the next link is asked for.
FinishRecords ==
  /\ op.kind = "finish" /\ op.found # 0
  /\ LET r == op.links[op.at].repo IN
       IF CanSetPr(op.id, r)
       THEN op' = [op EXCEPT !.found = 0] /\ SetPr("daemon", op.id, r, op.found)
       ELSE Fail
  /\ UNCHANGED <<file, gh, shown, live, sync, cli, ops, fails>>

\* gh fails: no number counts as no pull request, no state ends the finish.
FinishGhFails ==
  /\ FinishAt
  /\ LET l == op.links[op.at + 1] IN
       /\ l.repo \in Mapped
       /\ \/ l.pr = 0 /\ op' = [op EXCEPT !.at = @ + 1, !.merged = FALSE]
          \/ ~NotCreated(l) /\ op' = Settle
  /\ fails < MaxFails /\ fails' = fails + 1
  /\ UNCHANGED <<file, gh, shown, live, io, sync, cli, ops>>

\* Mutant. aggregate takes the last state for all.
VerdictLast ==
  op.links # <<>> /\ LET l == op.links[Len(op.links)] IN ~NotCreated(l) /\ gh[l.branch] = "merged"

\* aggregate: all are merged, and there is at least one.
Verdict == op.links # <<>> /\ op.merged

FinishEnds ==
  /\ FinishReady /\ op.at = Len(op.links)
  /\ IF Verdict /\ Parses(op.id) THEN op' = Settle /\ SetStatus("merged") ELSE Fail
  /\ UNCHANGED <<file, gh, shown, live, sync, cli, ops, fails>>

\* defer: add_deferred writes the task the text comes from ...
Defer(i) ==
  /\ Pick(i)
  /\ Room
  /\ IF Parses(i)
     THEN op' = [kind |-> "defer"] /\ Write("daemon", i, file[i])
     ELSE Fail
  /\ UNCHANGED <<file, gh, shown, live, sync, cli, fails>>

\* ... and a task for it.
DeferSpawns ==
  /\ op.kind = "defer" /\ io["daemon"] = Idle
  /\ Numbered
  /\ op' = Settle
  /\ Write("daemon", NextId, NewTask)
  /\ UNCHANGED <<file, gh, shown, live, sync, cli, ops, fails>>

\* new_task_quick.
QuickTask ==
  /\ op = NoOp
  /\ Room
  /\ ops < MaxOps /\ ops' = ops + 1
  /\ op' = Settle
  /\ Write("daemon", NextId, NewTask)
  /\ UNCHANGED <<file, gh, shown, live, sync, cli, fails>>

\* Every intent ends with a refresh.
Settled ==
  /\ op = Settle /\ io["daemon"] = Idle
  /\ op' = NoOp
  /\ Refresh
  /\ UNCHANGED <<file, gh, live, io, sync, cli, ops, fails>>

\* tick_reload, by the timer at the latest.
Reload ==
  /\ op = NoOp
  /\ Refresh
  /\ UNCHANGED <<file, gh, live, io, op, sync, cli, ops, fails>>

-----------------------------------------------------------------------------
\* The pr sync.

\* A task shown has a link without a number for target t.
Unnumbered(t) ==
  /\ shown[t.id] # Gone
  /\ \E k \in DOMAIN shown[t.id].links : LET l == shown[t.id].links[k] IN
       l.repo = t.repo /\ l.branch = t.branch /\ l.pr = 0

\* Mutant. Only tasks whose file still says wip are looked up.
SyncTargetsWip ==
  {t \in Target : t.id \in live /\ Unnumbered(t) /\ shown[t.id].status = "wip"}

\* pr_sync_targets: the links without a number of the tasks with a live session.
SyncTargets == {t \in Target : t.id \in live /\ Unnumbered(t)}

\* tick_pr_sync: one thread at a time.
SyncStarts ==
  /\ op = NoOp
  /\ ~sync.running
  /\ SyncTargets # {}
  /\ sync' = [running |-> TRUE, targets |-> SyncTargets]
  /\ UNCHANGED <<file, gh, shown, live, io, op, cli, ops, fails>>

\* One of its targets, gh answering: errors of the store are dropped.
SyncTarget ==
  /\ io["sync"] = Idle
  /\ \E t \in sync.targets :
       /\ IF t.repo \in Mapped /\ HasPr(t.branch) /\ CanSetPr(t.id, t.repo)
          THEN SetPr("sync", t.id, t.repo, t.branch)
          ELSE io' = io
       /\ sync' = [sync EXCEPT !.targets = @ \ {t}]
  /\ UNCHANGED <<file, gh, shown, live, op, cli, ops, fails>>

\* gh fails: on to the next target.
SyncGhFails ==
  /\ io["sync"] = Idle
  /\ fails < MaxFails /\ fails' = fails + 1
  /\ \E t \in sync.targets :
       t.repo \in Mapped /\ sync' = [sync EXCEPT !.targets = @ \ {t}]
  /\ UNCHANGED <<file, gh, shown, live, io, op, cli, ops>>

\* Mutant. The thread clears its flag before it goes through its targets.
SyncEndsEarly ==
  /\ sync.running /\ io["sync"] = Idle
  /\ sync' = [sync EXCEPT !.running = FALSE]
  /\ UNCHANGED <<file, gh, shown, live, io, op, cli, ops, fails>>

SyncEnds ==
  /\ sync.running /\ sync.targets = {} /\ io["sync"] = Idle
  /\ sync' = [sync EXCEPT !.running = FALSE]
  /\ UNCHANGED <<file, gh, shown, live, io, op, cli, ops, fails>>

-----------------------------------------------------------------------------
\* `jaum task new --repo --branch`, a process of its own: create_backlog ...
CliCreates(c) ==
  /\ cli[c].step = "new"
  /\ Numbered
  /\ cli' = [cli EXCEPT ![c] = [step |-> "created", id |-> NextId]]
  /\ Write(c, NextId, NewTask)
  /\ UNCHANGED <<file, gh, shown, live, op, sync, ops, fails>>

\* ... then link_repo, of the file as it is by now, and out.
CliLinks(c) ==
  /\ cli[c].step = "created" /\ io[c] = Idle
  /\ cli' = [cli EXCEPT ![c].step = "linked"]
  /\ LET i == cli[c].id IN
       IF ~Parses(i) THEN io' = io
       ELSE Write(c, i, LinkRepo(file[i], NewLink))
  /\ UNCHANGED <<file, gh, shown, live, op, sync, ops, fails>>

\* It is interrupted: a file it has emptied stays empty.
CliKilled(c) ==
  /\ cli[c].step = "created" \/ io[c] # Idle
  /\ cli' = [cli EXCEPT ![c].step = "killed"]
  /\ io' = [io EXCEPT ![c] = Idle]
  /\ UNCHANGED <<file, gh, shown, live, op, sync, ops, fails>>

-----------------------------------------------------------------------------
\* External: claude links a repository to a task, or takes its status back.
ClaudeEdits(i) ==
  /\ Parses(i)
  /\ ops < MaxOps /\ ops' = ops + 1
  /\ \E t \in {LinkRepo(file[i], l) : l \in {l \in Edits : ~Links(file[i], l.repo)}}
            \cup {[file[i] EXCEPT !.status = "backlog"]} :
       file' = [file EXCEPT ![i] = t]
  /\ UNCHANGED <<gh, shown, live, io, op, sync, cli, fails>>

\* External: the agent of a live session opens the pull request of its branch,
\* and the user merges it.
GitHub(b) ==
  /\ \/ /\ gh[b] = "none"
        /\ \E i \in live : Parses(i) /\ \E k \in DOMAIN file[i].links :
              file[i].links[k].branch = b /\ file[i].links[k].repo \in Mapped
        /\ gh' = [gh EXCEPT ![b] = "open"]
     \/ gh[b] = "open" /\ gh' = [gh EXCEPT ![b] = "merged"]
  /\ UNCHANGED <<file, shown, live, io, op, sync, cli, ops, fails>>

-----------------------------------------------------------------------------
Daemon == \/ PlayMarks \/ PlayGitFails \/ PlayOpens \/ PlayRollsBack
          \/ FinishLink \/ FinishRecords \/ FinishGhFails \/ FinishEnds \/ DeferSpawns
          \/ Settled \/ WriteStep("daemon")
User   == QuickTask \/ \E i \in Ids : Play(i) \/ Finish(i) \/ Defer(i)
Sync   == SyncTarget \/ SyncGhFails \/ SyncEnds \/ WriteStep("sync")
Cli(c) == CliCreates(c) \/ CliLinks(c) \/ WriteStep(c)

Next ==
  \/ Daemon \/ User \/ SessionEnds \/ Reload
  \/ SyncStarts \/ Sync
  \/ \E c \in Creators : Cli(c) \/ CliKilled(c)
  \/ \E i \in Ids : ClaudeEdits(i)
  \/ \E b \in Branches : GitHub(b)

\* The daemon's loop comes round to its ticks and goes on with what it does; a
\* thread that runs and a process that was started go on, unless it is killed.
\* Nothing ties a reload to a write: it does not always fall into one.
Fairness ==
  /\ WF_vars(Daemon) /\ SF_vars(Reload /\ ~SomeTorn) /\ WF_vars(SyncStarts) /\ WF_vars(Sync)
  /\ \A c \in Creators : WF_vars(Cli(c))

Spec == Init /\ [][Next]_vars /\ Fairness

-----------------------------------------------------------------------------
\* A number on a link is that of the pull request of the link's own branch, and
\* that one exists: set_pr takes the link by its repository, in a task it reads
\* again (store.rs:206), and never invents a number (finish.rs:62).
NumbersFromGh ==
  \A i \in Ids : Parses(i) => \A k \in DOMAIN file[i].links :
    LET l == file[i].links[k] IN l.pr # 0 => l.pr = l.branch /\ HasPr(l.branch)

\* finish is about to mark its task merged.
Merging ==
  op.kind = "finish" /\ op.at = Len(op.links) /\ Verdict /\ Parses(op.id)

\* When finish marks a task merged, every link the file then has to a repository finish
\* found in it has a merged pull request, whatever was rewritten while gh was asked,
\* link by link (finish.rs:69).  A link to another repository that was added in the
\* meantime is not looked at.
MergedMeansAll ==
  Merging => \A k \in DOMAIN file[op.id].links :
    LET l == file[op.id].links[k] IN
      (\E j \in DOMAIN op.links : op.links[j].repo = l.repo) =>
         l.repo \in Mapped /\ gh[l.branch] = "merged"

\* What finish.rs:55 says, all are merged, of the links of the task at that moment.  It
\* does not hold: a link claude adds meanwhile is marked merged with the rest.
MergedNow ==
  Merging => \A k \in DOMAIN file[op.id].links :
    LET l == file[op.id].links[k] IN l.repo \in Mapped /\ gh[l.branch] = "merged"

\* A task has a live session, a link without a number, and GitHub the pull request.
NumberMissing ==
  \E i \in live : Parses(i) /\ \E k \in DOMAIN file[i].links :
    LET l == file[i].links[k] IN l.pr = 0 /\ l.repo \in Mapped /\ HasPr(l.branch)

\* Every pull request of a live task gets its number on its link, although gh calls
\* fail, files are read while they are empty and others write back what they read
\* before; only a file left empty by a killed process prevents it (app.rs:1843).
NumberArrives == <>[]~NumberMissing \/ <>[]SomeTorn

\* The board ends up showing what the files say, whoever wrote them last, unless
\* one of them no longer parses (app.rs:1803).
Converges == <>[](shown = file) \/ <>[]SomeTorn

=============================================================================
