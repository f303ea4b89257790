# jaum: a TLA+ verification development

`jaum` is a terminal board from which a developer starts claude sessions on the
tasks of a project. A daemon owns all state and all processes; terminals attach
to it over a Unix socket. This directory models the parts of it in which
several actors meet, checks them with TLC on small instances, and proves with
TLAPS, for every instance, the safety properties of each: the daemon's server
(with its refinement), its start, its sessions, their worktrees, the cursor of its
board, the chat turns of its sidecar, and the task files.

Paths below are relative to `src/`. `PROJECT.json` maps every definition that
stands for code to its lines, and lists runs, mutants, findings, hazards and
theorems.

## 1. Inventory

### Parts, state and operations

| Part | Where | State it keeps | Operations |
|---|---|---|---|
| Daemon server | `crates/cli/src/daemon.rs` | map of connections, which are handshaken, last snapshot, running flag, event channel | accept, one handler per client message, tick, broadcast, stop |
| Wire protocol | `crates/cli/src/protocol.rs`, `snapshot.rs` | none | framing, building a snapshot |
| Client | `crates/cli/src/client.rs` | newest snapshot, ping in flight | hello, read, draw, send intents, run editor |
| Command line | `crates/cli/src/main.rs` | the socket file | attach, shutdown, restart, `--daemon`, init, list, task new |
| Session manager | `crates/cli/src/app.rs` | `sessions`, `current`, buffered session events, one `sessions.json` per project | play, setup, finish, close, load project, persist, rehydrate, drain, stop all |
| Board cursor | `crates/cli/src/app.rs` | selected row and card, focus, sorted tasks | select, focus, refresh, sort sessions |
| Sidecar supervision | `crates/cli/src/app.rs`, `sidecar.rs` | client and process, receivers of turns, queues, permission tracker, ping | open, send, drain, permissions, health check, abort |
| Sidecar process | `sidecar/src/chat.ts`, `main.ts` | running queries, pending permissions, counter | chat, abort, permission response, ping |
| Backlog store | `crates/core/src/store.rs` | one markdown file per task | create, set status, link repo, set pr, defer |
| Flows | `crates/flows/src/*.rs` | worktrees, status, locks | launch, clean up, finish, setup, lock |
| Background jobs | `crates/cli/src/app.rs` | flags, channels | pr sync, init job |
| Session log | `crates/cli/src/session_event.rs` | a JSONL file per session | append, migrate, replay |
| Config | `crates/cli/src/config.rs` | `~/jaum/config.toml` | load, init project |
| Adapters | `crates/adapters/src/*.rs` | none | git, gh, claude on a pty |
| Rendering, key map | `crates/cli/src/tui.rs`, `keymap.rs` | list offsets | render, map a key |

### How they interact

* An acceptor thread and one reader thread per connection put events in one
  channel. A single thread takes them, calls into the application, and writes
  to the sockets itself. Nothing else touches the application: concurrency is
  in the order of events, in bursts, and in what peers do meanwhile.
* Every loop round ticks the application once: terminals are drained, sidecar
  events handled, files reloaded, deadlines and health checked.
* The sidecar is a child process behind two threads, a writer that dies with
  the pipe and a reader that routes events to turns.
* Daemons, terminals and installers find each other through one socket file.
* The backlog is shared with claude itself, with `jaum task`, and with threads
  of the daemon, through files without locks.

### What is hard, and what makes each part correct

* Server: joins, broken peers and bursts in any order; a snapshot handed out
  for one client must not be lost for another; session events exactly once; a
  handshake is answered, a shutdown obeyed, a dead peer forgotten.
* Life cycle: probe, unlink and bind are separate steps of separate processes;
  one daemon must own the state, be reachable, and no attach may hang.
* Sessions: crashes, restarts and project switches between any two operations;
  one card per task and conversation, nothing lost, nothing filed under another
  project, events that tell what runs.
* Board: the list under the cursor is re-sorted by processes the user does not
  watch; an intent must hit what was selected.
* Sidecar: aborts, deadlines, late events, death and replacement of a process;
  one query per conversation, no request pending for ever, every turn ends.
* Store: daemon, sync thread, `jaum task` and claude rewrite whole files of one
  another, and empty a file before they fill it; a number must be recorded on
  its own link, survive a lost update, and the board must come to show it; a
  verdict must not mix pull requests of different moments.
* Play: one git command per repository, each of which may fail or be the last
  before a crash; a live session must have its directory, an ended one must not
  leave its worktrees behind.

## 2. Modules

| Module | Models | Notes |
|---|---|---|
| `SnapshotFeed` | what clients are promised about state | abstract: publish, join, leave |
| `DaemonServer` | the serve loop with its clients | implements `SnapshotFeed` |
| `DaemonBoot` | commands, daemons and the socket file | |
| `Sessions` | the life of terminal sessions | |
| `Board` | the cursor over tasks and sessions | |
| `SidecarTurns` | chat turns, supervision and the sidecar process | |
| `Backlog` | task files, and everybody who rewrites them; finish and pr sync | |
| `Worktrees` | play, its rollback, clean-up and resume over git | |
| `Selection` | `Only(s, A)`, the elements of a sequence that are in a set | used by `Sessions` and `Board` |
| `SelectionProofs` | what `Only` returns | TLAPS |
| `DaemonServerProofs`, `DaemonBootProofs`, `SessionsProofs`, `BoardProofs`, `SidecarTurnsProofs`, `BacklogProofs`, `WorktreesProofs` | theorems about the module each is named after | TLAPS |
| `MC...` | instances for TLC, with symmetries | |

**DaemonServer.** `chan` is the event channel, `clients` and `device` are the
keys of `Server.clients` and those of them with a device, `last` is
`Daemon.last`, `pend` the application's buffered session events, `outbox[c]`
the bytes of a socket the daemon has written and the client has not read. There
is one action per event and message kind (`HandleConnect` ... `HandleShutdown`),
`Tick` for the rest of a loop round and `Exit` for the end. A handler is one
step because one thread runs it and what it writes becomes visible through the
outboxes only. A write to a full socket blocks the loop: `Ready` is a guard of
every action that writes. The peer of a write may be gone (`Open`), which drops
it, as in `send_to` and `broadcast`. The application is a value `dom`, which any
call into it may move, and a counter of emitted events; that a snapshot equals
the domain it was built from is what the model knows of `build_snapshot`. The
client is its handshake, its slot `view` and the last session event it read.

**SnapshotFeed** says it in three actions: a value is published to a group in
one step, whoever joins is handed the value of that step, whoever leaves keeps
nothing. The refinement maps `published` to `last`, the group to the handshaken
clients whose peer is there, and a copy to the newest snapshot in the outbox,
or the one shown. It fails if any path consumes a change without handing it to
everybody.

**DaemonBoot.** `sock` says whose socket the file is; each daemon and each
terminal is at a step of its code, and each probe (`is_running`), unlink, bind
and removal is an action of its own. A spawn may fail, and the wait for the socket
may be given up before it comes. A connection is accepted by the kernel as
soon as a daemon listens, so `ConnectTo` succeeds on a daemon that is stopping,
and `Welcome` waits for one that serves.

**Sessions.** `sessions` is the list, `file` the record files, `told` the last
event announced per session; `opened`, `closed` and `echoed` are history. The
end of a process (`ProcessExit`) and its discovery by the tick (`DrainPty`) are
two steps. Finish and close act on any card of the current project: which one
the cursor is on is the business of `Board`. `PlayFails` stands for every way a
launch can fail, with the worktree left or removed. A crash loses the list and
keeps the files.

**Board.** Rows and cards are the indices of the code, `row = -1` being the
project row. `Resorted` is the re-sort that keeps the session under the cursor,
`Refreshed` the reload that keeps the row. `Edit` is anybody who writes the
backlog. A launch that fails only reloads, which `Reload` shows.

**SidecarTurns.** Daemon, the two threads and the process step separately.
`inbox` are the receivers of the turns, `tracked` the permission tracker,
`shown` the requests the log shows undecided, `cmds` the commands between the
writer and the process, `stdout` what each process has written and the reader
has not routed. `DrainSidecar` is the whole function: all turns are drained,
requests tracked or answered, those of broken turns dropped, queued messages
sent. A query is over at its result and leaves `activeQueries` at the end of
its stream: two steps. This code is kept and tested but not called by the
program today (`open_play_session` is marked `allow(dead_code)`), so its
findings concern the day it is connected again. `Routed` is
`App.route_permissions`, `FALSE` in `App::new`.

**Backlog.** `file[i]` is the content of a task file, `Gone` where there is none
and `Torn` while it does not parse. A change is what the code does: a `get`, and
a `write` of the whole task, which `io` holds from then on and which empties the
file (`truncate`) before it fills it. The processes are the daemon's thread, its
pr sync thread, `jaum task new` and claude. `op` is the intent the daemon is in
the middle of, `sync` the flag and the remaining targets of the thread, `cli[c]`
how far a creator is, `gh` the pull requests as GitHub has them, `shown` is
`App.tasks`. Intents of the user go through `Pick`: on a task the board shows,
whatever has become of its file. `Play` reads the task and its status, `PlayMarks`
sets it to wip once the worktrees are there (or `PlayGitFails`), and then claude
starts (`PlayOpens`) or does not, and the old status is put back
(`PlayRollsBack`). `Finish` reads the links once, `FinishLink` asks gh for one after
the other, `FinishRecords` writes a number it discovers before the next is asked
for, `FinishEnds` the status. `Settled` is the refresh that ends every intent, `Reload` the tick's.
A refresh that finds one file it cannot parse changes nothing, as `Store::list`
fails as a whole and `load_project` and `tick_reload` go on without it.

**Worktrees.** `link[t]` are the branches in the task file, `tree[d]` whether the
worktree of a branch exists and holds uncommitted work, `card[t]` and `record[t]`
the play session of a task in memory and in `sessions.json`, `job` the launch,
undo or clean-up under way. Every git command is an action with a failing twin
(`LaunchFails`, `UndoFails`, `CleanupFails`), which stands for a task file that
cannot be read as well; `Crash` may fall between any two. A launch works on the links it read, while
undo and clean-up look the branch up again: `Rename`, which is what setup does to
a task file, may come in between.

`Sessions`, `Backlog` and `Worktrees` meet in `play_selected` and in finish: the
list of cards and their events are in the first, the status of the task with its
rollback in the second, the directories with theirs in the third. They share no variable, so each takes the
steps of the others as events of its own (`PlayFails` in `Sessions`;
`SessionEnds` in `Backlog`; `Rename` in `Worktrees`).

## 3. Runs

| Run | Bounds | Shows |
|---|---|---|
| `daemon_serve` | 2 connections, 2 domain values, 3 messages of every kind, 1 session event, sockets of 3 | agreement, exact event feed, no duplicates, well-formed streams, refinement |
| `daemon_live` | 2 connections, 2 values, 2 messages, sockets of 1 | convergence, answers, shutdown, release of peers |
| `sessions_life` | 2 projects, 1 task id in both, 3 sessions | the five invariants and `StopKeepsLive` |
| `sessions_closed` | the same | finding: a closed session comes back |
| `boot_crowd` | 2 terminals, which may give up waiting, 2 daemons, crashes | two owners, and a lost socket, come from one race each; a daemon in possession is undisturbed; attach settles |
| `turns_safety` | 2 chats, 2 processes, 2 turns each, 1 request per process, death | one working query, requests tracked |
| `turns_hang` | 2 chats, 2 processes, 1 turn each, hangs | turns end, only hung processes are killed |
| `turns_dead` | 1 chat, 2 processes, death | finding: a turn of a dead process does not end |
| `board_cursor` | 2 tasks, 2 statuses, 3 sessions | the cursor stays on its session, and is on what was opened |
| `backlog_shared` | 1 task with 2 links at first, up to 3 tasks, 4 repositories of which 3 are mapped, 1 creator, 2 intents or edits, 1 failing call of gh, git or claude | numbers belong to their links, merged means all that finish found, numbers arrive, the board converges |
| `worktrees_play` | 2 tasks, with 2 and 1 repositories, each may be renamed; 2 failures | a live session has its directory, an end cleans up |
| `worktrees_orphan` | the same, 1 failure | finding: a failed launch leaves a worktree |

Four more configurations are kept beside the runs, because each reproduces a
counterexample that section 4 describes: `DaemonBoot_owner.cfg` (`SoleOwner`),
`DaemonBoot_race.cfg` (`OneServes`), `Board_play.cfg` (`PlayFocuses`) and
`Backlog_merged.cfg` (`MergedNow`).

Why the bounds are enough: two connections are a newcomer and somebody already
there, or a reader and a broken peer; three messages are two handshakes and
something between or after them; two domain values tell a moved domain from one
that stands still. A socket of one message fills up at once; one of three has room
for a Welcome, its snapshot and a refusal, which is what a client that repeats its
Hello before the first is answered is sent. Two projects that
share a task id are what filtering by project is for, and three sessions allow
two of one project beside one of the other, or a play next to a setup of the
same project. Two terminals and two daemons are a daemon that is there, on its way,
stopping or dead, and one that is spawned beside it or after it, by the same terminal
or by the other; a third daemon with one terminal was checked as well, and what
the properties say of more is proved (section 5). Two processes are a dead one and its replacement, two turns a
message queued behind another. The bounds on messages, events, turns, requests
and spawned processes are guards (`MaxMsgs`, `MaxEvents`, `MaxTurns`,
`MaxAsks`, `MaxGens`); `Uuids`, `Daemons` bound what is ever opened or spawned.
In `Backlog`, a
second and a third task appear by `jaum task new`, by a deferred one or by the
key for a quick one; three numbers are room for one creator and one intent, and
the guard `Room` keeps the daemon from taking the number of a creator that has not
come yet (`Numbered` alone, that there is a number left, where the code comes to
the second half of an intent). Of the two links one has a pull request that was merged before jaum
knew of it, so that finish has one to discover and the other can still move; the pull request of
the other is open at first, so that a finish with an edit of claude in the middle
of it needs no play before. The repository claude may add is mapped, that of `jaum
task new` is not. Two intents are a play and what comes after it (finish, defer, a
second task), or any of them with an edit of claude in the middle. In `Worktrees` the task with two repositories can
fail between them, the other is there to be hit by mistake; two failures are one
of a launch or a clean-up and one of the undo or of the resume after it.
Deadlock is checked where the system never stops (`Sessions`, `Board`,
`Worktrees`), and not where a bounded number of messages, processes, turns or
intents runs out, or where the daemon has exited.

Symmetry is used in runs without liveness only, on ids the code merely compares.

### Fairness

* `DaemonServer`: the loop thread takes events and ticks, reader threads on
  both sides read (client readers are threads of their own and never wait for
  the user). Nobody has to connect, send or leave, and the application never
  has to move: fairness is on `QuietTick`, a tick that changes nothing, so it
  cannot help `Converges` by moving the domain.
* `DaemonBoot`: processes run on; users need not type, daemons need not crash.
* `SidecarTurns`: the daemon ticks, its threads run, a live process takes
  commands and a query that waits for no decision ends. Queries that wait are
  ended by the deadline of the daemon, not by fairness.
* `Backlog`: the daemon's thread goes on with an intent it has begun, the sync
  thread with its targets, a creator with its steps unless it is killed; users,
  claude and GitHub need not do anything, sessions need not end. The reload is
  strongly fair to the moments in which every file parses. Weak fairness would
  allow a timer of seconds to fall, each time and for ever, into the microseconds
  between the emptying and the filling of a file, which nothing in the code
  synchronises it with. A file that is left empty by a killed process stays so:
  both liveness properties except that case (`<>[]SomeTorn`), since the code does
  stop reloading then.

## 4. What the runs show about the code

* `ClosedStaysClosed` (`app.rs:2114`): a project whose last session is closed
  has no group in `persist_sessions`, so its file keeps the closed record.
* `TurnsEnd` (`app.rs:1580`): a ping that cannot be sent is not counted as
  unanswered, so a dead sidecar is not replaced. With hangs instead of deaths
  the turns end (`turns_hang`).
* `NoOrphans` (`app.rs:1231`): a comment says that of a launch whose session never
  opened nothing stays orphaned. The rollback runs when claude does not start; when
  the second of two worktrees cannot be made, `Play::launch` returns its error
  and the first one stays, with no card that would remove it.

More that was met on the way, without a run of its own:

* `SoleOwner` (`main.rs:34`, `DaemonBoot_owner.cfg`): `App::new` resumes sessions
  before `serve` asks whether it is alone. `OwnersRaced` says that there is one way
  there: a terminal about to spawn a daemon, on the answer of its probe, while
  another daemon is on its way (`StartRace`).
* `OneServes` (`daemon.rs:432`, `DaemonBoot_race.cfg`): probe, unlink and bind can
  interleave with those of another daemon. `ReachableUnlessRaced` says that a daemon
  loses its socket only after two were between probe and bind at once (`BindRace`),
  `Undisturbed` that one past that point keeps it.
* `MergedNow` (`finish.rs:55`, `Backlog_merged.cfg`): "if ALL are merged" is said of
  the links as they were read at `finish.rs:58`. A link that claude adds while gh is
  asked is not looked at, and the task is marked merged with it. `MergedMeansAll` says
  what does hold: of the links the file has at that moment, those to a repository
  that finish found in the task have a merged pull request.
* `PlayFocuses` (`app.rs:1228`, `Board_play.cfg`): the reload at the end of play
  re-sorts the tasks after the focus was set. It is the only way: `OpenFocuses` says
  that the cursor is on what was opened unless that reload put another task on the
  row, and it holds.
* With `MayDie` set to `TRUE`, `OnlyHungKilled` fails: `ensure_sidecar` does not
  reset `sidecar_pinged`, and the replacement is killed for a ping sent to the
  process before it. And a deadline can mark a session blocked after its turn has
  ended normally, since only broken and aborted turns drop their requests.
* `next_id` lists and the write comes later: a deferred task and one that `jaum
  task new` makes at the same moment get one number, and the later write replaces
  the other task.
* `set_pr` finds a link by its repository only. With two branches of one
  repository in a task, or a branch renamed between the reload and the answer of
  gh, a number lands on another branch's link. `LinkAssumption` excludes the
  first, `BranchAssumption` (a task has one branch of a repository, whoever links
  it) and the absence of renames in `Backlog` the second.
* One file that does not parse makes `list` fail as a whole: no reload works until
  it is repaired, a daemon that starts then has no tasks to show or does not
  start, and switching to the project keeps the tasks of the one before.
* `poll_job` takes over the list of projects that the init job left, and loads the
  new project if it is in there. If another registration has overwritten it, none
  is loaded, and the index of the current project, of the old list, may point to
  another project than the one whose store is open.
* Undo and clean-up take the branch of today: a branch that was renamed since the
  launch leaves its old worktree behind (`EndCleansUp` excepts it).
* `worktree_path` gives `feat/a` and `feat-a` one directory, and two tasks may
  link one branch; ending the session of one task then removes the directory the
  other works in. `BranchAssumption` excludes both.

## 5. Proofs

Each theorem is about every value of the constants that satisfies the named
assumptions of its module. The pattern is the same throughout: an invariant that
is inductive, as a rule checked with TLC before it was proved; one lemma per action for
its preservation; the theorem from these by temporal reasoning.

### Server

`DaemonServerProofs`, for every set of connections, domain, socket capacity and
bound:

* `TypeCorrect`: `Spec => []TypeOK`. The invariant is inductive as it is. One
  lemma per recurring pattern (taking an event, refusing, calling the
  application, writing), then one step per action.
* `Agreement`: `Spec => []AttachedAgree`. `AttachedAgree` alone is not
  inductive: an arrival could find an old slot, or an old queue, behind the id
  of a connection that was never opened. The strengthening is `TypeOK`,
  `NoIdlePeers` (an id nobody has connected with is in no map, and no event of it is
  waiting) and `AttachedAgree`. The argument: steps that write no snapshot
  do not change which snapshot is newest in a queue; a snapshot that is written
  is `last` from then on, and goes to all who stay in the audience, or goes to
  the newcomer alone when `last` does not move; reading moves the newest from
  the queue to the slot.
* `Streamed`: `Spec => []StreamWellFormed`. The invariant is `Past` (the above with
  `ConnectFirst`, that a connection's first event is its Connect, and `Untouched`,
  that one not greeted yet was sent nothing) with `Streams`, which adds to the
  property that an attached client's stream is not sealed by a Rejected or a
  Detach, and that its Welcome is still unread while it is in `hello`. The attempt
  found that an earlier form of the property held only because sockets of two
  messages had no room for its counterexample: a second Hello before the first
  is answered leaves Welcome, Snapshot, Rejected in one queue. The property was
  restated to allow that refusal behind a welcome, and the run has sockets of 3.
* `FeedExact`: `Spec => []EventFeedExact`, with `Past` and `EventsInOrder`: the
  events in a queue are numbered without a gap from the one read last to the first
  still pending.
* `NoneTwice`: `Spec => []NoDuplicateSnapshots`, with `Past`, `AttachedAgree` and
  `NewsOnly`, which says of every snapshot in a queue that it differs from the
  newest before it. Agreement is what the step needs: a snapshot is written only
  if it differs from `last`, and `last` is what everybody has.
* `Implementation`: `Spec => ImplementsSnapshotFeed`, the refinement, on the
  invariant `Past` and `AttachedAgree`. Each action is a step of `SnapshotFeed` or a
  stutter: reading, waiting, refusing and dropping change no copy; a publication
  gives all who stay the new value; a join hands the newcomer that of the step.

### Start

`DaemonBootProofs`:

All for any number of terminals and daemons, whether or not daemons die and
terminals give up waiting:

* `TypeCorrect`: `Spec => []TypeOK`.
* `OneOwner`: `Spec => OwnersRaced`, that is `[]SoleOwner \/ <>StartRace`. The
  invariant `OneAlive` is kept by every step of a state without `StartRace`: one process
  is alive at most, the socket of one that listens is its own, and no terminal is
  about to spawn another while it listens. Each part needs the others: a terminal
  goes by the file, and the file is right because nobody else touches it.
* `Reachable`: `Spec => ReachableUnlessRaced`, that is `[]ServingReachable \/
  <>BindRace`. The invariant, kept without `BindRace`, is `OneTakes`: beside a daemon
  that listens nobody listens or is between probe and bind, and the file is that
  daemon's. It holds in the middle of a `StartRace` as well: of two owners only one
  gets the socket.
* `Newcomers`: `Spec => Undisturbed`. A step property without an invariant besides
  `TypeOK`: who has the socket is found by every probe (`HoldsStep`).

### Sessions

`SessionsProofs`, for any number of projects, tasks and sessions, has one
invariant, `IInv`, and from it `TypeCorrect`, `OneCard` (`OneCardPerTask`), `NoneLost`
(`NothingLost`), `NoStrays` (`OwnProject`), `Announced` (`EventsTrackLife`) and the
action property `LiveKept` (`StopKeepsLive`). Its parts:

* `Stored` relates the list to the files: no two cards or records of a file clash
  (same conversation, or two plays of one task), a session is on the disk of its
  own project only, what is in memory is on disk (the live ones as unfinished),
  and what was opened and not closed is in one of the two.
* `InMemory`, while the daemon is up: what is on the disk of a project that is shown,
  or current, is in memory, unless it was closed. This is the part without which
  nothing is inductive: `persist_sessions` writes the files of the projects with a
  card from memory, and would lose what it does not hold.
* While it is down, the list is empty; and `Truthful` says of the events told what
  they may say of a session, of those closed too.

The list is rebuilt with `Only(s, A)` (`Selection`), the standard `SelectSeq` being
unknown to the provers; `SelectionProofs` shows that it returns the elements of `s`
in `A`, each once if `s` has no duplicates. The induction is done with a
counterexample of least length, since induction theorems that take an operator
cannot be cited.

### Board

`BoardProofs`, for every finite set of tasks and any sessions. The order of the rows
is a `CHOOSE` of a sorted enumeration, so the first thing to prove is that there is
one (`SortedExists`): the number of tasks ahead of a task grows along the order,
which makes it an injection into as many places as there are tasks, and so onto
them.

* `TypeCorrect`: `Spec => []TypeOK`. Besides the types it says that the row is that
  of a task while there is any, and that what is live is listed. It needs that the
  list is no longer than the set of tasks.
* `CardStays`: `Spec => ActivityKeepsCard`. Activity puts one session on top of the
  others; by `OnTopIds` and `TaskCardsIds` the row has the same cards before and
  after, so that the selected one is found again (`CardOfIs`), or there is none.
* `OpenedInFocus`: `Spec => OpenFocuses`. `RowOfSession`: the row that focus finds is one
  of the task; `PlacedCard`: the card found on it is the session. The reload that
  follows in a play is harmless when the row has still the same task.

### Chat turns

`SidecarTurnsProofs`, for every finite set of chats, any number of processes and
requests, at least one turn of a chat (`ChatsAssumption`, `BoundsAssumption`), with
or without deaths, hangs and routed permissions:

* `TypeCorrect`: `Spec => []TypeOK`. The strengthening is `Counted` (a turn in flight
  is the last one numbered of an open chat, and the numbers used and the messages
  queued are within the bound together) and `Started` (a client has a process).
* `Tracked`: `Spec => []PendingTracked`, on top of it.
* `OnlyHung`: `Spec => OnlyHungKilled`, if no process exits on its own (`~MayDie`), as
  in `turns_hang`; section 4 says why it fails otherwise. The invariant is `Pinged`: an
  unanswered ping of a living process is among the commands, or its pong in the
  pipe or at the health check.
* `OneQuery`: `Spec => []OneQueryPerChat`. The invariant `IInv` has, beside the types,
  four parts. `Alone`: of a chat, one query works at most, or one command for one is
  under way. `InFlight`: of a chat that is not finished, it is that of the turn in
  flight, in the process of that turn. `Answered`: the end of that turn is in the pipe
  or at the receiver only when nothing of the chat works any more, and an end of
  another turn has a smaller number. `Unborn` and `Clientless`: a process to come
  has written nothing, and without a client nothing works. A turn is launched only
  for a chat without one, or when a drain found its end, or its channel dead: in
  each case the chat is idle, and the number is new.

### Worktrees and task files

`WorktreesProofs` proves, for every finite set of tasks, any number of repositories
per task and any number of failures, from `BranchAssumption` (tasks do not share
branches) and `BoundAssumption`:

* `TypeCorrect`: `Spec => []TypeOK`. `TypeOK` is not inductive: that the branch an
  undo is at exists, and that a clean-up has a branch for each of its worktrees,
  follow from `Owned`. It says that every sequence in a task's file, card,
  record or launch has, place by place, a branch of that task, that a launch has
  the worktrees of its first branches, and that worktrees are removed only of a
  task without a live session.
* `Directory`: `Spec => []LiveHasCwd`, with the invariant `TypeOK`, `Owned` and
  `LiveHasCwd`. What undo and clean-up remove belongs to another task than any
  live session, so it is another directory (`Apart`); a session opens in a
  worktree that a launch has just made or found, or that `Resumable` has seen.
* `CleanUp`: `Spec => EndCleansUp`, with the invariant `CInv`: `TypeOK`, `Owned`,
  `AllHeld` (renames go one way, so a branch that is not renamed yet is the one
  every older copy has) and `Cleaned` (the places a clean-up has been at are gone,
  hold work, or are kept by git). The step that needs it is a rename in the middle
  of a clean-up, which must not turn a branch into the name under which a
  worktree was made.

`BacklogProofs` proves, for every backlog to start from, any number of creators,
branches, failures and intents, from `LinkAssumption` (a task links a repository
once), `BranchAssumption` (and always on the same branch) and `BoundAssumption`,
with one invariant, `BInv`:

* `TypeCorrect`: `Spec => []TypeOK`.
* `Numbers`: `Spec => []NumbersFromGh`. What is on disk may be written back by
  whoever read it before, so `AllSound` says of every copy of a task (in its file,
  on the board, in the hands of a process that is about to write it, in a finish)
  that it links a repository once, on a branch that task may link, and that a
  number in it is that of the pull request of this branch, which exists. `set_pr`
  finds the link by its repository; that it has the branch gh was asked about
  follows from the targets of the sync having branches of the same task.
* `Merged`: `Spec => []MergedMeansAll`, by `Asked`: what a finish has found merged
  is merged still, since GitHub never takes a merge back. It speaks of the file as it
  is at the verdict: a link there to a repository that finish had in its copy has
  the same branch, by `AllSound` and `BranchAssumption`, whoever wrote it.

### What TLC has checked first, and what it checks alone

Every strengthening above but `OneAlive` and `OneTakes` was an invariant of a TLC run before it was proved:
`Owned`, `AllHeld` and `Cleaned` on the instance of `worktrees_play`, `AllSound` and
`Asked` on `backlog_shared`'s, those of the server on `daemon_serve`'s, `IInv` of the
sessions on `sessions_life`'s, `IInv` and `Pinged` of
the chat turns on `turns_safety`'s and `turns_hang`'s, `IInv` of the board on
`board_cursor`'s. Those two are no invariants, the races break them; TLC has checked
the properties they are for, on `boot_crowd`.

Only model-checked:

* liveness: `Converges`, `HelloAnswered`, `ShutdownObeyed` and `GoneClientsReleased` of
  `DaemonServer`, `AttachSettles` of `DaemonBoot`, `TurnsEnd` of `SidecarTurns`,
  `NumberArrives` and `Converges` of `Backlog`. Temporal reasoning with `ENABLED` is
  out of the prover's reach.

## 6. Not modelled

* Layout, colours, keys, scrolling, docs, the project picker and toasts: pure
  functions of the state, or state nothing else reads.
* Bytes: framing, base64, JSON, markdown and TOML. The record file of a
  project (`Sessions`, `Worktrees`) is written in one step, although the code writes
  it in place; a task file (`Backlog`) is emptied and filled.
* Timers are nondeterministic (a tick may find any of them over); where the
  code relies on an interval being long enough it is said so (`Answering`,
  `MayGiveUp`).
* In `Backlog`: titles, text, ranks and documents of a task (nothing decides by
  them), and so spikes, which fail to be played like a task whose repository is not
  mapped; reviews; a branch that is renamed (in `Worktrees` it is); a
  repository linked twice by one task; the file watcher, which only makes a reload
  come sooner than the timer.
* The locks and overlaps of `conflict.rs`: the functions that take and release a
  lock have no caller, and overlaps are computed from the tasks for display.
* The session log, which belongs with the resumption of chats; the registry of
  projects in `config.rs` with the init job and `jaum init`; `diff`, `view` and
  `create` of gh, `--local`. They are in the plan where they keep state.
* Sidecar guards, content and codec; executor arguments and the pty: pure
  functions, or input and output.

## 7. Plan

In order of importance; the first seven are in place.

1. `SnapshotFeed`, `DaemonServer`: server and clients. 2. `Sessions`.
3. `DaemonBoot`. 4. `SidecarTurns`. 5. `Board`. 6. `Backlog`. 7. `Worktrees`.
8. Resuming a finished chat and the migration and replay of its log, in
   `SidecarTurns`.
9. `Registry`: `init_project_in` as read and write steps of the init job and of
   `jaum init`, and the reload that follows.

Theorems left: those of `Registry` when it is there, and of what item 8 adds to
`SidecarTurns`.
