----------------------------- MODULE DaemonBoot -----------------------------
(***************************************************************************)
(* How daemons come up and go (crates/cli/src/main.rs, daemon.rs): the     *)
(* commands `jaum` (attach), `jaum shutdown` and `jaum restart`, run by    *)
(* several terminals, the daemon processes they spawn, and the one socket  *)
(* file through which all of them find each other.                         *)
(*                                                                         *)
(* Every probe of the socket and every operation on the file is a step:    *)
(* nothing in the code makes two of them atomic.                           *)
(***************************************************************************)
EXTENDS Naturals, FiniteSets

CONSTANTS
  Terminals,   \* processes of the user running a jaum command
  Daemons,     \* ids of daemon processes; a bound on how many are spawned
  NoDaemon,    \* nobody's id
  MayGiveUp,   \* whether the 2 s of waiting for a daemon may be too short
  MayCrash     \* whether a daemon may die on its own

ASSUME NoDaemonAssumption == NoDaemon \notin Daemons
ASSUME SwitchAssumption == MayGiveUp \in BOOLEAN /\ MayCrash \in BOOLEAN

VARIABLES
  sock,   \* whose socket the file ~/jaum/daemon.sock is; NoDaemon: no file
  stage,  \* per daemon, where it is
  asked,  \* daemons with a Shutdown in their channel
  step,   \* per terminal, where its command is
  again,  \* terminals whose command attaches after the shutdown: restart
  peer    \* per terminal, the daemon it is connected to

vars == <<sock, stage, asked, step, again, peer>>

DaemonStages == {"unborn", "boot", "probe", "unlink", "bind", "serve", "stop", "remove", "gone"}
Steps == {"idle", "probe", "spawn", "await", "connect", "hello", "attached", "failed",
          "ask", "tell", "settle"}

\* Type invariant: a terminal has a peer exactly while it is connected.
TypeOK ==
  /\ sock \in Daemons \cup {NoDaemon}
  /\ stage \in [Daemons -> DaemonStages]
  /\ asked \in SUBSET Daemons
  /\ step \in [Terminals -> Steps]
  /\ again \in SUBSET Terminals
  /\ peer \in [Terminals -> Daemons \cup {NoDaemon}]
  /\ \A t \in Terminals : step[t] \in {"hello", "attached"} <=> peer[t] # NoDaemon

Init ==
  /\ sock = NoDaemon
  /\ stage = [d \in Daemons |-> "unborn"]
  /\ asked = {}
  /\ step = [t \in Terminals |-> "idle"]
  /\ again = {}
  /\ peer = [t \in Terminals |-> NoDaemon]

-----------------------------------------------------------------------------

\* Its listener is open: a connect succeeds, whether or not anybody accepts.
Listening(d) == stage[d] \in {"serve", "stop", "remove"}

\* is_running, also the outcome of any connect: a file nobody listens on
\* (left by a daemon that died) refuses like a missing one.
IsRunning == sock # NoDaemon /\ Listening(sock)

\* On its way to the socket: no probe of a terminal finds it yet.
Coming(d) == stage[d] \in {"boot", "probe", "unlink", "bind"}

\* The daemon holds the application and its terminals.
Owns(d) == stage[d] \in {"probe", "unlink", "bind", "serve", "stop"}

Goto(t, s) == step' = [step EXCEPT ![t] = s]
Enter(d, s) == stage' = [stage EXCEPT ![d] = s]

-----------------------------------------------------------------------------
(* The commands. *)

\* The user starts one; a terminal whose command ended can start the next.
RunAttach(t) ==
  /\ step[t] \in {"idle", "failed"}
  /\ Goto(t, "probe")
  /\ again' = again \ {t}
  /\ UNCHANGED <<sock, stage, asked, peer>>

RunShutdown(t) ==
  /\ step[t] \in {"idle", "failed"}
  /\ Goto(t, "ask")
  /\ again' \in {again \ {t}, again \cup {t}}
  /\ UNCHANGED <<sock, stage, asked, peer>>

\* attach: is somebody there already?
Probe(t) ==
  /\ step[t] = "probe"
  /\ Goto(t, IF IsRunning THEN "connect" ELSE "spawn")
  /\ UNCHANGED <<sock, stage, asked, again, peer>>

\* spawn_detached, which may not get its log file or its process.
Spawn(t) ==
  /\ step[t] = "spawn"
  /\ \/ /\ \E d \in Daemons : stage[d] = "unborn" /\ Enter(d, "boot")
        /\ Goto(t, "await")
     \/ /\ Goto(t, "failed")
        /\ UNCHANGED stage
  /\ UNCHANGED <<sock, asked, again, peer>>

\* The socket came up, or the 2 s are over and it has not: for certain when
\* the daemon that was spawned is gone, otherwise if it is slow to boot.
Await(t) ==
  /\ step[t] = "await"
  /\ \/ IsRunning /\ Goto(t, "connect")
     \/ MayGiveUp /\ ~IsRunning /\ Goto(t, "failed")
     \/ ~IsRunning /\ (\A d \in Daemons : stage[d] \in {"unborn", "gone"}) /\ Goto(t, "failed")
  /\ UNCHANGED <<sock, stage, asked, again, peer>>

\* client::run.
ConnectTo(t) ==
  /\ step[t] = "connect"
  /\ IF IsRunning
       THEN Goto(t, "hello") /\ peer' = [peer EXCEPT ![t] = sock]
       ELSE Goto(t, "failed") /\ UNCHANGED peer
  /\ UNCHANGED <<sock, stage, asked, again>>

\* hello: answered by a daemon that serves.
Welcome(t) ==
  /\ step[t] = "hello"
  /\ stage[peer[t]] = "serve"
  /\ Goto(t, "attached")
  /\ UNCHANGED <<sock, stage, asked, again, peer>>

\* The user detaches.
Detach(t) ==
  /\ step[t] = "attached"
  /\ Goto(t, "idle")
  /\ peer' = [peer EXCEPT ![t] = NoDaemon]
  /\ UNCHANGED <<sock, stage, asked, again>>

\* shutdown: nobody there is no error, and a restart attaches all the same.
Ask(t) ==
  /\ step[t] = "ask"
  /\ Goto(t, IF IsRunning THEN "tell" ELSE IF t \in again THEN "settle" ELSE "idle")
  /\ UNCHANGED <<sock, stage, asked, again, peer>>

\* The second connect of shutdown, and the message.
Tell(t) ==
  /\ step[t] = "tell"
  /\ IF IsRunning
       THEN /\ asked' = asked \cup {sock}
            /\ Goto(t, IF t \in again THEN "settle" ELSE "idle")
       ELSE /\ Goto(t, "failed")
            /\ UNCHANGED asked
  /\ UNCHANGED <<sock, stage, again, peer>>

\* restart: wait for the old daemon to be gone, for 2 s at most.
Settle(t) ==
  /\ step[t] = "settle"
  /\ ~IsRunning \/ MayGiveUp
  /\ Goto(t, "probe")
  /\ UNCHANGED <<sock, stage, asked, again, peer>>

-----------------------------------------------------------------------------
(* A daemon process: App::new, then serve. *)

\* App::new: the sessions on disk are resumed before anybody looks whether
\* another daemon has them.
NewApp(d) ==
  /\ stage[d] = "boot"
  /\ Enter(d, "probe")
  /\ UNCHANGED <<sock, asked, step, again, peer>>

\* Mutant: serve takes any socket file for an orphan.
ServeProbeBlind(d) ==
  /\ stage[d] = "probe"
  /\ Enter(d, "unlink")
  /\ UNCHANGED <<sock, asked, step, again, peer>>

\* serve refuses to be the second daemon.
ServeProbe(d) ==
  /\ stage[d] = "probe"
  /\ Enter(d, IF IsRunning THEN "gone" ELSE "unlink")
  /\ UNCHANGED <<sock, asked, step, again, peer>>

\* The file is an orphan by now, or so the probe said.
Unlink(d) ==
  /\ stage[d] = "unlink"
  /\ sock' = NoDaemon
  /\ Enter(d, "bind")
  /\ UNCHANGED <<asked, step, again, peer>>

\* bind fails on a file that exists.
Bind(d) ==
  /\ stage[d] = "bind"
  /\ IF sock = NoDaemon
       THEN sock' = d /\ Enter(d, "serve")
       ELSE Enter(d, "gone") /\ UNCHANGED sock
  /\ UNCHANGED <<asked, step, again, peer>>

\* Mutant: the socket file goes first, the sessions after it.
LeaveLoopUnlinking(d) ==
  /\ stage[d] = "serve"
  /\ d \in asked
  /\ sock' = NoDaemon
  /\ Enter(d, "stop")
  /\ UNCHANGED <<asked, step, again, peer>>

\* The loop takes the Shutdown and is left.
LeaveLoop(d) ==
  /\ stage[d] = "serve"
  /\ d \in asked
  /\ Enter(d, "stop")
  /\ UNCHANGED <<sock, asked, step, again, peer>>

\* stop_all_sessions.
StopSessions(d) ==
  /\ stage[d] = "stop"
  /\ Enter(d, "remove")
  /\ UNCHANGED <<sock, asked, step, again, peer>>

\* Mutant: an attached client does not notice.
DroppedGreeting(d) ==
  /\ step' = [t \in Terminals |->
                IF peer[t] = d /\ step[t] = "hello" THEN "failed" ELSE step[t]]
  /\ peer' = [t \in Terminals |-> IF peer[t] = d THEN NoDaemon ELSE peer[t]]

\* The clients of a process that ends read end of file: one in its handshake
\* fails, one attached leaves its loop.
Dropped(d) ==
  /\ step' = [t \in Terminals |->
                IF peer[t] # d THEN step[t] ELSE IF step[t] = "hello" THEN "failed" ELSE "idle"]
  /\ peer' = [t \in Terminals |-> IF peer[t] = d THEN NoDaemon ELSE peer[t]]

\* Mutant: the process waits for its acceptor thread, which never ends.
RemoveHangs(d) ==
  /\ stage[d] = "remove"
  /\ sock' = NoDaemon
  /\ UNCHANGED <<stage, asked, step, again, peer>>

\* The file is removed, whosesoever it is, and the process ends.
Remove(d) ==
  /\ stage[d] = "remove"
  /\ sock' = NoDaemon
  /\ Enter(d, "gone")
  /\ Dropped(d)
  /\ UNCHANGED <<asked, again>>

\* The daemon dies: its file stays.
Crash(d) ==
  /\ MayCrash
  /\ stage[d] \notin {"unborn", "gone"}
  /\ Enter(d, "gone")
  /\ Dropped(d)
  /\ UNCHANGED <<sock, asked, again>>

-----------------------------------------------------------------------------

Command(t) ==
  \/ Probe(t) \/ Spawn(t) \/ Await(t) \/ ConnectTo(t) \/ Welcome(t)
  \/ Ask(t) \/ Tell(t) \/ Settle(t)

DaemonStep(d) ==
  \/ NewApp(d) \/ ServeProbe(d) \/ Unlink(d) \/ Bind(d)
  \/ LeaveLoop(d) \/ StopSessions(d) \/ Remove(d)

Next ==
  \/ \E t \in Terminals : RunAttach(t) \/ RunShutdown(t) \/ Detach(t) \/ Command(t)
  \/ \E d \in Daemons : DaemonStep(d) \/ Crash(d)

\* Processes run; users need not type, and daemons need not die.
Fairness ==
  /\ \A t \in Terminals : WF_vars(Command(t))
  /\ \A d \in Daemons : WF_vars(DaemonStep(d))

Spec == Init /\ [][Next]_vars /\ Fairness

-----------------------------------------------------------------------------
(* Properties. *)

\* One daemon owns the application and the terminals of its sessions.  Two
\* would each resume the same claude conversations in the same worktrees.
SoleOwner == \A d, e \in Daemons : Owns(d) /\ Owns(e) => d = e

\* A second daemon is refused: at most one serves.
OneServes ==
  \A d, e \in Daemons : stage[d] = "serve" /\ stage[e] = "serve" => d = e

\* A daemon that serves can be reached: the file is its own.
ServingReachable == \A d \in Daemons : stage[d] = "serve" => sock = d

\* attach goes on to spawn on an answer that is out of date: a daemon is on its way.
StartRace == \E t \in Terminals : step[t] = "spawn" /\ \E d \in Daemons : Coming(d)

\* Two daemons have both taken the socket file for an orphan.
BindRace ==
  \E d, e \in Daemons : d # e /\ {stage[d], stage[e]} \subseteq {"unlink", "bind"}

\* Two daemons own the sessions only after a terminal was about to spawn one while
\* another was on its way: no other order of attaches that give up, restarts,
\* shutdowns, deaths and files left behind gets there.
OwnersRaced == []SoleOwner \/ <>StartRace

\* The daemon that serves loses its socket, to a newcomer or to one that stops, only
\* after two of them were removing and binding it at once, with however many
\* terminals spawning daemons.
ReachableUnlessRaced == []ServingReachable \/ <>BindRace

\* The daemon has the socket, and nobody who probed before it had is about to act on it.
Holds(d) ==
  /\ Listening(d)
  /\ sock = d
  /\ \A e \in Daemons \ {d} : stage[e] \in {"unborn", "boot", "probe", "gone"}

\* Such a daemon keeps the socket until its process ends, through its shutdown too,
\* whatever daemons are spawned besides it by terminals whose probe was out of date.
Undisturbed == [][\A d \in Daemons : Holds(d) => Holds(d)' \/ stage'[d] = "gone"]_vars

\* An attach or a restart ends, attached or with an error: it never hangs,
\* whatever daemon it met.
AttachSettles ==
  \A t \in Terminals : step[t] = "probe" ~> step[t] \in {"attached", "failed", "idle"}
=============================================================================
