------------------------------ MODULE Sessions ------------------------------
(***************************************************************************)
(* The life of the claude sessions the daemon runs (crates/cli/src/app.rs):*)
(* opened by Play and Setup, ended by their process or by the user, kept   *)
(* across project switches in memory and across restarts in one            *)
(* sessions.json per project.                                              *)
(*                                                                         *)
(* The board only ever shows the cards of the current project, and its     *)
(* cursor can be on any of them; which one it is belongs to module Board.  *)
(* The order of the list is left out: no operation here depends on it.     *)
(* Terminal output is left out.  Sidecar chats are module SidecarTurns;    *)
(* Play and Setup both run on a terminal.                                  *)
(***************************************************************************)
EXTENDS Naturals, Sequences, FiniteSets, Selection

CONSTANTS
  Projects,   \* the projects of the global config
  Tasks,      \* task ids: unique within one project's backlog only
  NoTask,     \* the task of a setup session
  Uuids       \* claude session ids; a bound on the sessions ever opened

ASSUME TaskAssumption == NoTask \notin Tasks

VARIABLES
  up,        \* the daemon is running
  current,   \* App.current
  sessions,  \* App.sessions
  file,      \* per project its sessions.json; empty also when missing
  worktrees, \* the tasks whose worktree exists on disk
  told,      \* per session, the last SessionEvent of this daemon life
  echoed,    \* sessions that had the same event twice running
  opened,    \* ids ever handed out: Uuid::new_v4 repeats none
  closed     \* sessions the user closed

vars == <<up, current, sessions, file, worktrees, told, echoed, opened, closed>>

Kinds == {"play", "setup"}

\* A SessionRecord: what is kept of a session on disk.
Record == [uuid : Uuids, kind : Kinds, task : Tasks \cup {NoTask}, finished : BOOLEAN]

\* A SessionEntry.  pty is the session handle: none, or a process that runs,
\* or one that has exited.
Entry == [uuid : Uuids, kind : Kinds, project : Projects, task : Tasks \cup {NoTask},
          pty : {"none", "running", "exited"}, finished : BOOLEAN]

\* Type invariant: what has no process is history, and a setup has no task.
TypeOK ==
  /\ up \in BOOLEAN
  /\ current \in Projects
  /\ sessions \in Seq(Entry)
  /\ \A i \in DOMAIN sessions :
       /\ sessions[i].pty = "none" => sessions[i].finished
       /\ sessions[i].kind = "setup" <=> sessions[i].task = NoTask
  /\ file \in [Projects -> Seq(Record)]
  /\ worktrees \in SUBSET (Projects \X Tasks)
  /\ told \in [Uuids -> {"nothing", "Started", "Finished"}]
  /\ echoed \in SUBSET Uuids
  /\ opened \in SUBSET Uuids
  /\ closed \in SUBSET opened

Init ==
  /\ up = FALSE
  /\ current \in Projects
  /\ sessions = << >>
  /\ file = [p \in Projects |-> << >>]
  /\ worktrees = {}
  /\ told = [u \in Uuids |-> "nothing"]
  /\ echoed = {}
  /\ opened = {}
  /\ closed = {}

-----------------------------------------------------------------------------
(* Helpers. *)

Cards(ss) == {ss[i] : i \in DOMAIN ss}
Ids(ss)   == {ss[i].uuid : i \in DOMAIN ss}

\* is_live: there is a handle and nobody saw the session finish.
Live(e) == e.pty # "none" /\ ~e.finished

\* to_record.
ToRecord(e) == [uuid |-> e.uuid, kind |-> e.kind, task |-> e.task, finished |-> e.finished]

\* The entry of a process just spawned.
Spawned(u, kind, p, t) ==
  [uuid |-> u, kind |-> kind, project |-> p, task |-> t, pty |-> "running", finished |-> FALSE]

OwnRecords(ss, p) ==
  LET own == Only(ss, {e \in Cards(ss) : e.project = p})
  IN  [i \in DOMAIN own |-> ToRecord(own[i])]

\* Mutant: the whole list goes into the file of the current project.
PersistedHere(ss) ==
  [p \in Projects |-> IF p = current /\ ss # << >>
                        THEN [i \in DOMAIN ss |-> ToRecord(ss[i])] ELSE file[p]]

\* persist_sessions: the entries are grouped by project and each group is
\* written to its project's file.  A project with no entry has no group.
Persisted(ss) ==
  [p \in Projects |-> IF \E e \in Cards(ss) : e.project = p
                        THEN OwnRecords(ss, p) ELSE file[p]]

\* The cwd of a play is its worktree, that of a setup the project's home.
CwdExists(p, r) == r.kind = "setup" \/ <<p, r.task>> \in worktrees

\* rehydrate_one: resumed, or history if it finished, its cwd is gone, or
\* claude does not come up (the records of failing).
Rehydrated(p, r, failing) ==
  LET resumed == ~r.finished /\ CwdExists(p, r) /\ r.uuid \notin failing
  IN  [uuid |-> r.uuid, kind |-> r.kind, project |-> p, task |-> r.task,
       pty |-> IF resumed THEN "running" ELSE "none", finished |-> ~resumed]

\* Mutant: the records of sessions in memory come in a second time.
RehydrateAll(p, ss, files, failing) ==
  ss \o [i \in DOMAIN files[p] |-> Rehydrated(p, files[p][i], failing)]

\* Mutant: history is not worth reading back.
RehydrateUnfinished(p, ss, files, failing) ==
  LET recs == Only(files[p], {r \in Cards(files[p]) : r.uuid \notin Ids(ss) /\ ~r.finished})
  IN  ss \o [i \in DOMAIN recs |-> Rehydrated(p, recs[i], failing)]

\* rehydrate_sessions of project p onto the list ss, skipping those in it.
Rehydrate(p, ss, files, failing) ==
  LET recs == Only(files[p], {r \in Cards(files[p]) : r.uuid \notin Ids(ss)})
  IN  ss \o [i \in DOMAIN recs |-> Rehydrated(p, recs[i], failing)]

\* The worktrees after cleanup_worktrees of e: git refuses to remove one with
\* uncommitted work, and the failure is ignored.
Cleaned(e) == {worktrees, worktrees \ {<<e.project, e.task>>}}

\* The list without the i-th entry.
Without(ss, i) == SubSeq(ss, 1, i - 1) \o SubSeq(ss, i + 1, Len(ss))

\* The SessionEvent kind is pushed for each session of us.
Tell(us, kind) ==
  /\ told' = [u \in Uuids |-> IF u \in us THEN kind ELSE told[u]]
  /\ echoed' = echoed \cup {u \in us : told[u] = kind}

-----------------------------------------------------------------------------
(* Opening. *)

\* open_session: announced, listed, persisted.
OpenSession(kept, e) ==
  /\ Tell({e.uuid}, "Started")
  /\ sessions' = Append(kept, e)
  /\ file' = Persisted(sessions')
  /\ opened' = opened \cup {e.uuid}

\* setup_start: nothing stops a second setup session of a project.
SetupStart ==
  /\ up
  /\ \E u \in Uuids \ opened : OpenSession(sessions, Spawned(u, "setup", current, NoTask))
  /\ UNCHANGED <<up, current, worktrees, closed>>

\* The play cards of task t in the current project.
PlaysOf(t) ==
  {e \in Cards(sessions) : e.kind = "play" /\ e.project = current /\ e.task = t}

\* Mutant: the finished card of a resumed session stays next to the live one.
PlayUnreplaced(t) ==
  /\ up
  /\ \A e \in PlaysOf(t) : ~Live(e)
  /\ \E u \in IF PlaysOf(t) = {} THEN Uuids \ opened ELSE {e.uuid : e \in PlaysOf(t)} :
       OpenSession(sessions, Spawned(u, "play", current, t))
  /\ worktrees' = worktrees \cup {<<current, t>>}
  /\ UNCHANGED <<up, current, closed>>

\* play_selected: refused while a play of the task is live (its card is
\* focused instead).  The conversation of an earlier play is resumed under
\* its own id, and its card replaced.
Play(t) ==
  /\ up
  /\ \A e \in PlaysOf(t) : ~Live(e)
  /\ \E u \in IF PlaysOf(t) = {} THEN Uuids \ opened ELSE {e.uuid : e \in PlaysOf(t)} :
       LET kept == Only(sessions, {e \in Cards(sessions) : e.uuid # u})
       IN  OpenSession(kept, Spawned(u, "play", current, t))
  /\ worktrees' = worktrees \cup {<<current, t>>}
  /\ UNCHANGED <<up, current, closed>>

\* play_selected when launch fails, before or after it made the worktree, or
\* when the process does not start and the launch is rolled back.
PlayFails(t) ==
  /\ up
  /\ \A e \in PlaysOf(t) : ~Live(e)
  /\ worktrees' \in {worktrees, worktrees \cup {<<current, t>>}, worktrees \ {<<current, t>>}}
  /\ UNCHANGED <<up, current, sessions, file, told, echoed, opened, closed>>

-----------------------------------------------------------------------------
(* Ending. *)

\* A claude process exits: Ctrl+C in it, /exit, or a crash.
ProcessExit(i) ==
  /\ sessions[i].pty = "running"
  /\ sessions' = [sessions EXCEPT ![i].pty = "exited"]
  /\ UNCHANGED <<up, current, file, worktrees, told, echoed, opened, closed>>

\* Mutant: an exit is announced on every tick while the card is listed.
DrainPtyAgain ==
  LET ended == {i \in DOMAIN sessions : sessions[i].pty = "exited"}
  IN  /\ ended # {}
      /\ sessions' = [i \in DOMAIN sessions |->
                        IF i \in ended THEN [sessions[i] EXCEPT !.finished = TRUE] ELSE sessions[i]]
      /\ Tell({sessions[i].uuid : i \in ended}, "Finished")
      /\ UNCHANGED <<up, current, file, worktrees, opened, closed>>

\* drain_pty, on every tick: exits become visible and are announced.  The
\* file is not written.
DrainPty ==
  LET ended == {i \in DOMAIN sessions : sessions[i].pty = "exited" /\ ~sessions[i].finished}
  IN  /\ ended # {}
      /\ sessions' = [i \in DOMAIN sessions |->
                        IF i \in ended THEN [sessions[i] EXCEPT !.finished = TRUE] ELSE sessions[i]]
      /\ Tell({sessions[i].uuid : i \in ended}, "Finished")
      /\ UNCHANGED <<up, current, file, worktrees, opened, closed>>

\* The user ends session e: no event if it was not live any more.
TellEnd(e) == Tell(IF Live(e) THEN {e.uuid} ELSE {}, "Finished")

\* Mutant: the process is gone, the card does not know.
FinishUnmarked(i) ==
  /\ sessions[i].project = current
  /\ TellEnd(sessions[i])
  /\ sessions' = [sessions EXCEPT ![i].pty = "none"]
  /\ worktrees' \in Cleaned(sessions[i])
  /\ file' = Persisted(sessions')
  /\ UNCHANGED <<up, current, opened, closed>>

\* finish_selected_session: the card stays, as history.
FinishSession(i) ==
  /\ sessions[i].project = current
  /\ TellEnd(sessions[i])
  /\ sessions' = [sessions EXCEPT ![i].pty = "none", ![i].finished = TRUE]
  /\ worktrees' \in Cleaned(sessions[i])
  /\ file' = Persisted(sessions')
  /\ UNCHANGED <<up, current, opened, closed>>

\* close_selected_session: the card goes.
CloseSession(i) ==
  /\ sessions[i].project = current
  /\ TellEnd(sessions[i])
  /\ sessions' = Without(sessions, i)
  /\ worktrees' \in Cleaned(sessions[i])
  /\ file' = Persisted(sessions')
  /\ closed' = closed \cup {sessions[i].uuid}
  /\ UNCHANGED <<up, current, opened>>

-----------------------------------------------------------------------------
(* Projects and restarts. *)

\* load_project: the state of all is flushed, the sessions of the project left
\* behind go on, those of the new one are rehydrated.
LoadProject(p) ==
  /\ up
  /\ p # current
  /\ current' = p
  /\ file' = Persisted(sessions)
  /\ \E failing \in SUBSET Ids(file'[p]) :
       sessions' = Rehydrate(p, sessions, file', failing)
  /\ UNCHANGED <<up, worktrees, told, echoed, opened, closed>>

\* Mutant: the processes are stopped and drained before the file is written.
StopAllDrained ==
  /\ up
  /\ up' = FALSE
  /\ file' = Persisted([i \in DOMAIN sessions |-> [sessions[i] EXCEPT !.finished = TRUE]])
  /\ sessions' = << >>
  /\ UNCHANGED <<current, worktrees, told, echoed, opened, closed>>

\* stop_all_sessions at the end of serve: persisted first, then killed.
StopAllSessions ==
  /\ up
  /\ up' = FALSE
  /\ file' = Persisted(sessions)
  /\ sessions' = << >>
  /\ UNCHANGED <<current, worktrees, told, echoed, opened, closed>>

\* The daemon dies; its processes lose their terminal and die with it.
Crash ==
  /\ up
  /\ up' = FALSE
  /\ sessions' = << >>
  /\ UNCHANGED <<current, file, worktrees, told, echoed, opened, closed>>

\* App::new in a new daemon, opened on project p.
Boot(p) ==
  /\ ~up
  /\ up' = TRUE
  /\ current' = p
  /\ \E failing \in SUBSET Ids(file[p]) : sessions' = Rehydrate(p, << >>, file, failing)
  /\ told' = [u \in Uuids |-> "nothing"]
  /\ echoed' = {}
  /\ UNCHANGED <<file, worktrees, opened, closed>>

Next ==
  \/ SetupStart
  \/ \E t \in Tasks : Play(t) \/ PlayFails(t)
  \/ \E i \in DOMAIN sessions : ProcessExit(i) \/ FinishSession(i) \/ CloseSession(i)
  \/ DrainPty
  \/ \E p \in Projects : LoadProject(p) \/ Boot(p)
  \/ StopAllSessions
  \/ Crash

Spec == Init /\ [][Next]_vars

-----------------------------------------------------------------------------
(* Properties. *)

\* Two claudes in one worktree would fight over it, and a conversation is
\* resumed by one card: whatever was switched, resumed, rehydrated or
\* restarted, no id is listed twice and a task has one play card.
OneCardPerTask ==
  \A i, j \in DOMAIN sessions :
    (\/ sessions[i].uuid = sessions[j].uuid
     \/ /\ sessions[i].kind = "play" /\ sessions[j].kind = "play"
        /\ sessions[i].project = sessions[j].project
        /\ sessions[i].task = sessions[j].task) => i = j

\* A session opened and never closed is always on the board or on the disk of
\* its project: neither a switch, a crash nor another project's write loses it.
NothingLost ==
  \A u \in opened \ closed :
    u \in Ids(sessions) \/ \E p \in Projects : u \in Ids(file[p])

\* A session is on the disk of one project only, the one it is listed under:
\* task ids repeat across projects, so a stray record would resume elsewhere.
OwnProject ==
  \A p, q \in Projects :
    /\ p # q => Ids(file[p]) \cap Ids(file[q]) = {}
    /\ \A e \in Cards(sessions) : e.project # p => e.uuid \notin Ids(file[p])

\* The events a client receives tell it which sessions run: Started and
\* Finished alternate, none is announced twice, a session last announced as
\* started is live and no finished one is; one that was closed is not left
\* announced as started.
EventsTrackLife ==
  /\ echoed \subseteq closed
  /\ up => \A u \in Uuids :
       LET lives == \E e \in Cards(sessions) : e.uuid = u /\ Live(e)
       IN  /\ u \notin closed /\ told[u] # "nothing" => (told[u] = "Started" <=> lives)
           /\ u \in closed /\ u \notin Ids(sessions) => told[u] # "Started"

\* Whenever the daemon goes down, by a shutdown or a crash, every live session
\* is on disk as unfinished: the next boot resumes it.
StopKeepsLive ==
  [][up /\ ~up' => \A e \in Cards(sessions) : Live(e) => ToRecord(e) \in Cards(file'[e.project])]_vars

\* A session removed from the list stays removed.
ClosedStaysClosed == Ids(sessions) \cap closed = {}
=============================================================================
