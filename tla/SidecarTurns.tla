---------------------------- MODULE SidecarTurns ----------------------------
(***************************************************************************)
(* Chat turns run through the sidecar process: the supervision, the turns  *)
(* and the permission requests of the daemon (crates/cli/src/app.rs,       *)
(* sidecar.rs), and the process itself (sidecar/src/chat.ts, main.ts).     *)
(*                                                                         *)
(* The daemon thread talks to the process through a writer thread that     *)
(* dies on the first failed write, and hears from it through a reader      *)
(* thread that routes each event to the turn it belongs to.  A process may *)
(* die or hang at any time, its replacement counts permission requests     *)
(* from the start again.                                                   *)
(*                                                                         *)
(* Text, tool results and error categories are left out, and so is a       *)
(* change of the claude session id.  Of the log, what is kept is which     *)
(* permission requests it shows as pending.                                *)
(***************************************************************************)
EXTENDS Naturals, Sequences, FiniteSets, SequencesExt

CONSTANTS
  Chats,     \* sidecar sessions
  Routed,    \* App.route_permissions: a client decides, or all is allowed
  MayDie,    \* whether the process may exit on its own
  MayHang,   \* whether it may stop reading and answering
  MaxGens,   \* bound: processes spawned
  MaxTurns,  \* bound: turns of one chat
  MaxAsks    \* bound: permission requests of one process

ASSUME SwitchAssumption == Routed \in BOOLEAN /\ MayDie \in BOOLEAN /\ MayHang \in BOOLEAN
ASSUME ChatsAssumption == IsFiniteSet(Chats)
ASSUME BoundsAssumption == MaxGens \in Nat /\ MaxTurns \in Nat \ {0} /\ MaxAsks \in Nat

VARIABLES
  chats,    \* per chat: its entry and the ChatState in it
  inbox,    \* per chat: the receiver of its turn
  tracked,  \* the PermissionTracker
  shown,    \* requests the log shows without a decision
  blocked,  \* chats marked blocked
  pinged,   \* App.sidecar_pinged is set
  client,   \* App.sidecar is set; its process is number gen
  gen,      \* processes spawned so far
  proc,     \* state of process gen
  writer,   \* the writer thread of process gen lives
  cmds,     \* commands on their way to process gen
  stdout,   \* per process, events it wrote and the reader has not routed
  pongs,    \* a pong of process gen waits for the health check
  queries,  \* queries that run in process gen
  counter   \* permission requests process gen has made

daemonVars == <<chats, inbox, tracked, shown, blocked>>
procVars   == <<gen, proc, writer, queries, counter>>
vars == <<chats, inbox, tracked, shown, blocked, pinged, client, gen, proc, writer,
          cmds, stdout, pongs, queries, counter>>

Turns == 1 .. MaxTurns
Gens  == 1 .. MaxGens
Asks  == 1 .. MaxAsks

\* A ChatState; turn 0 is none in flight, queued counts the waiting messages.
Chat == [state : {"absent", "open", "finished"}, turn : 0 .. MaxTurns, gen : 0 .. MaxGens,
         seq : 0 .. MaxTurns, queued : 0 .. MaxTurns]

\* A PendingPermission.  The code has no gen in it: ids of two processes meet.
Pending == [chat : Chats, gen : Gens, perm : Asks]

Command == [type : {"chat", "abort"}, chat : Chats, turn : Turns]
             \cup [type : {"respond"}, perm : Asks] \cup [type : {"ping"}]

Happening == [type : {"done"}, chat : Chats, turn : Turns]
               \cup [type : {"ask"}, chat : Chats, turn : Turns, perm : Asks]
               \cup [type : {"pong"}]

\* A query in activeQueries; perm is the request it waits for, 0 if none, and
\* over says that its result is out while its stream has not ended yet.
Query == [chat : Chats, turn : Turns, perm : 0 .. MaxAsks, cut : BOOLEAN, over : BOOLEAN]

\* Type invariant: turns, requests and messages are of the turns and processes
\* there are.
TypeOK ==
  /\ chats \in [Chats -> Chat]
  /\ inbox \in [Chats -> Seq(Happening)]
  /\ tracked \in SUBSET Pending
  /\ shown \in SUBSET Pending
  /\ blocked \in SUBSET Chats
  /\ pinged \in BOOLEAN /\ client \in BOOLEAN /\ writer \in BOOLEAN /\ pongs \in BOOLEAN
  /\ gen \in 0 .. MaxGens
  /\ proc \in {"none", "alive", "hung", "dead"}
  /\ cmds \in Seq(Command)
  /\ stdout \in [Gens -> Seq(Happening)]
  /\ queries \in SUBSET Query
  /\ counter \in 0 .. MaxAsks

Init ==
  /\ chats = [s \in Chats |-> [state |-> "absent", turn |-> 0, gen |-> 0, seq |-> 0, queued |-> 0]]
  /\ inbox = [s \in Chats |-> << >>]
  /\ tracked = {}
  /\ shown = {}
  /\ blocked = {}
  /\ pinged = FALSE
  /\ client = FALSE
  /\ gen = 0
  /\ proc = "none"
  /\ writer = FALSE
  /\ cmds = << >>
  /\ stdout = [g \in Gens |-> << >>]
  /\ pongs = FALSE
  /\ queries = {}
  /\ counter = 0

-----------------------------------------------------------------------------
(* Sending. *)

\* turn_active.
Active(s) == chats[s].turn # 0

\* The queue q after one more command: a send fails, unnoticed, without a
\* client or once its writer thread is gone.
Sent(q, c) == IF client /\ writer THEN Append(q, c) ELSE q

\* ensure_sidecar looks at the process only: a hung one is alive.
NeedsSpawn == ~client \/ proc = "dead"

\* SidecarClient::chat for each chat of X, their turns being those of cs.
ChatCommands(X, cs) ==
  LET order == SetToSeq(X)
  IN  [i \in DOMAIN order |-> [type |-> "chat", chat |-> order[i], turn |-> cs[order[i]].seq]]

\* ensure_sidecar, and ChatCommands for each chat of X, after cs became
\* the state of the chats and q that of the command queue.  What a replaced
\* process has not been told is lost.
Launch(X, cs, q) ==
  LET fresh == X # {} /\ NeedsSpawn
      g     == IF fresh THEN gen + 1 ELSE gen
      turns == ChatCommands(X, cs)
  IN  /\ g <= MaxGens
      /\ gen' = g
      /\ chats' = [s \in Chats |-> IF s \in X THEN [cs[s] EXCEPT !.turn = cs[s].seq, !.gen = g]
                                              ELSE cs[s]]
      /\ IF fresh
           THEN /\ client' = TRUE /\ proc' = "alive" /\ writer' = TRUE
                /\ cmds' = turns
                /\ pongs' = FALSE /\ queries' = {} /\ counter' = 0
           ELSE /\ cmds' = q \o turns
                /\ UNCHANGED <<client, proc, writer, pongs, queries, counter>>

\* open_play_session: the first turn comes with the entry, or there is none.
OpenChat(s) ==
  /\ chats[s].state = "absent"
  /\ Launch({s}, [chats EXCEPT ![s] = [@ EXCEPT !.seq = 1, !.state = "open"]], cmds)
  /\ UNCHANGED <<inbox, tracked, shown, blocked, pinged, stdout>>

\* Mutant: a follow-up does not wait for the turn in flight.
SendChatTurnEager(s) ==
  /\ chats[s].state = "open"
  /\ chats[s].seq + chats[s].queued < MaxTurns
  /\ Launch({s}, [chats EXCEPT ![s].seq = @ + 1], cmds)
  /\ UNCHANGED <<inbox, tracked, shown, blocked, pinged, stdout>>

\* send_chat_turn on an open chat: behind a turn in flight it is queued.  The
\* turn number is used up even if the task is gone or nothing can be spawned.
SendChatTurn(s) ==
  /\ chats[s].state = "open"
  /\ chats[s].seq + chats[s].queued < MaxTurns
  /\ LET numbered == [chats EXCEPT ![s].seq = @ + 1]
     IN  \/ /\ Active(s)
            /\ Launch({}, [chats EXCEPT ![s].queued = @ + 1], cmds)
            /\ UNCHANGED blocked
         \/ /\ ~Active(s)
            /\ Launch({s}, numbered, cmds)
            /\ blocked' = blocked \ {s}
         \/ /\ ~Active(s)
            /\ Launch({}, numbered, cmds)
            /\ UNCHANGED blocked
  /\ UNCHANGED <<inbox, tracked, shown, pinged, stdout>>

-----------------------------------------------------------------------------
(* Ticks of the daemon. *)

HasDone(s) == \E i \in DOMAIN inbox[s] : inbox[s][i].type = "done"

\* Mutant: an empty queue is popped like any other.
WaitingAlways(s) == TRUE

\* A message waits for the turn to end.
Waiting(s) == chats[s].queued > 0

\* The sender of the turn's channel is gone: the client that held it was
\* dropped, and the reader of that process has routed all it wrote.
HungUp(s) == ~(client /\ chats[s].gen = gen) /\ stdout[chats[s].gen] = << >>

\* The requests among the events of the turn, its done excluded.
AskedBy(s) ==
  {[chat |-> s, gen |-> chats[s].gen, perm |-> inbox[s][i].perm] :
     i \in {j \in DOMAIN inbox[s] : inbox[s][j].type = "ask"}}

\* The queue after all of asks were allowed.
Allowed(asks) ==
  LET order == SetToSeq(asks)
      replies == [i \in DOMAIN order |-> [type |-> "respond", perm |-> order[i].perm]]
  IN  IF client /\ writer THEN cmds \o replies ELSE cmds

\* drain_sidecar.  Every turn is drained up to its done, or until its channel
\* proves dead; then the requests are tracked or answered, those of dead turns
\* dropped, and one queued message of each ended turn is sent, which may fail
\* for some of them.
DrainSidecar ==
  LET active == {s \in Chats : Active(s)}
      broken == {s \in active : ~HasDone(s) /\ HungUp(s)}
      over   == {s \in active : HasDone(s)} \cup broken
      asks   == UNION {AskedBy(s) : s \in active}
      held   == IF Routed THEN tracked \cup asks ELSE tracked
      gone   == {a \in held : a.chat \in broken}
      next   == {s \in over : Waiting(s)}
      ended  == [s \in Chats |->
                   [chats[s] EXCEPT !.turn   = IF s \in over THEN 0 ELSE @,
                                    !.queued = IF s \in next THEN @ - 1 ELSE @,
                                    !.seq    = IF s \in next THEN @ + 1 ELSE @]]
  IN  /\ broken # {} \/ \E s \in active : inbox[s] # << >>
      /\ inbox' = [s \in Chats |-> << >>]
      /\ tracked' = held \ gone
      /\ shown' = (IF Routed THEN shown \cup asks ELSE shown) \ gone
      /\ \E ok \in SUBSET next :
           /\ Launch(ok, ended, IF Routed THEN cmds ELSE Allowed(asks))
           /\ blocked' = blocked \ ok
      /\ UNCHANGED <<pinged, stdout>>

\* tick_permissions for a request past its deadline, several of them being
\* several such steps: the session is found by its id, whatever became of the
\* turn.
TickPermissions ==
  \E a \in tracked :
    /\ tracked' = tracked \ {a}
    /\ shown' = shown \ {a}
    /\ blocked' = blocked \cup {a.chat}
    /\ cmds' = Sent(cmds, [type |-> "respond", perm |-> a.perm])
    /\ UNCHANGED <<chats, inbox, pinged, client, procVars, stdout, pongs>>

\* A pong is on its way: 30 s are enough for it to arrive, if the process lives.
Answering ==
  /\ proc = "alive"
  /\ \/ \E i \in DOMAIN cmds : cmds[i].type = "ping"
     \/ \E i \in DOMAIN stdout[gen] : stdout[gen][i].type = "pong"

\* Mutant: the process is killed, its client and the routes in it are kept.
HealthKeepsClient ==
  /\ client
  /\ ~Answering
  /\ pongs' = FALSE
  /\ IF pinged /\ ~pongs
       THEN /\ proc' = "dead" /\ writer' = FALSE
            /\ cmds' = << >> /\ queries' = {}
            /\ pinged' = FALSE
       ELSE /\ cmds' = Sent(cmds, [type |-> "ping"])
            /\ pinged' = writer
            /\ UNCHANGED <<proc, writer, queries>>
  /\ UNCHANGED <<daemonVars, client, gen, stdout, counter>>

\* Mutant: pongs are not looked at.
HealthDeaf ==
  /\ client
  /\ ~Answering
  /\ pongs' = FALSE
  /\ IF pinged
       THEN /\ client' = FALSE /\ proc' = "dead" /\ writer' = FALSE
            /\ cmds' = << >> /\ queries' = {}
            /\ pinged' = FALSE
       ELSE /\ cmds' = Sent(cmds, [type |-> "ping"])
            /\ pinged' = writer
            /\ UNCHANGED <<client, proc, writer, queries>>
  /\ UNCHANGED <<daemonVars, gen, stdout, counter>>

\* tick_sidecar_health, its 30 s over: an unanswered ping is the end of the
\* process, otherwise the next one is sent, if it can be.
TickHealth ==
  /\ client
  /\ ~Answering
  /\ pongs' = FALSE
  /\ IF pinged /\ ~pongs
       THEN /\ client' = FALSE /\ proc' = "dead" /\ writer' = FALSE
            /\ cmds' = << >> /\ queries' = {}
            /\ pinged' = FALSE
       ELSE /\ cmds' = Sent(cmds, [type |-> "ping"])
            /\ pinged' = writer
            /\ UNCHANGED <<client, proc, writer, queries>>
  /\ UNCHANGED <<daemonVars, gen, stdout, counter>>

\* tick_sidecar_health before that.
TickPong ==
  /\ client /\ pongs
  /\ pongs' = FALSE
  /\ pinged' = FALSE
  /\ UNCHANGED <<daemonVars, client, procVars, cmds, stdout>>

\* Mutant: the deadlines of an aborted turn stay.
FinishChatTracked(s) ==
  /\ chats[s].state = "open"
  /\ chats' = [chats EXCEPT ![s] = [@ EXCEPT !.turn = 0, !.queued = 0, !.state = "finished"]]
  /\ inbox' = [inbox EXCEPT ![s] = << >>]
  /\ shown' = {a \in shown : a.chat # s}
  /\ cmds' = IF Active(s) THEN Sent(cmds, [type |-> "abort", chat |-> s, turn |-> chats[s].turn])
                          ELSE cmds
  /\ UNCHANGED <<tracked, blocked, pinged, client, procVars, stdout, pongs>>

\* finish_selected_session with abort_chat_turn: the turn is aborted, its
\* followers dropped, its requests denied in the log.
FinishChat(s) ==
  /\ chats[s].state = "open"
  /\ chats' = [chats EXCEPT ![s] = [@ EXCEPT !.turn = 0, !.queued = 0, !.state = "finished"]]
  /\ inbox' = [inbox EXCEPT ![s] = << >>]
  /\ tracked' = {a \in tracked : a.chat # s}
  /\ shown' = {a \in shown : a.chat # s}
  /\ cmds' = IF Active(s) THEN Sent(cmds, [type |-> "abort", chat |-> s, turn |-> chats[s].turn])
                          ELSE cmds
  /\ UNCHANGED <<blocked, pinged, client, procVars, stdout, pongs>>

-----------------------------------------------------------------------------
(* The two threads of the client. *)

\* The writer thread meets the closed pipe of a dead process.
WriterDies ==
  /\ client /\ proc = "dead" /\ writer
  /\ cmds # << >>
  /\ writer' = FALSE
  /\ cmds' = << >>
  /\ UNCHANGED <<daemonVars, pinged, client, gen, proc, stdout, pongs, queries, counter>>

\* The reader thread routes an event; one whose turn is over is dropped.
Route(g) ==
  /\ stdout[g] # << >>
  /\ stdout' = [stdout EXCEPT ![g] = Tail(@)]
  /\ LET m == Head(stdout[g])
     IN  IF m.type = "pong"
           THEN pongs' = (pongs \/ g = gen) /\ UNCHANGED inbox
           ELSE /\ inbox' = IF chats[m.chat].turn = m.turn /\ chats[m.chat].gen = g
                              THEN [inbox EXCEPT ![m.chat] = Append(@, m)] ELSE inbox
                /\ UNCHANGED pongs
  /\ UNCHANGED <<chats, tracked, shown, blocked, pinged, client, procVars, cmds>>

-----------------------------------------------------------------------------
(* The process. *)

Writes(m) == stdout' = [stdout EXCEPT ![gen] = Append(@, m)]

\* runSidecar takes the next command: handleChat, handleAbort,
\* handlePermissionResponse or handlePing.
Handle ==
  /\ proc = "alive"
  /\ cmds # << >>
  /\ cmds' = Tail(cmds)
  /\ LET c == Head(cmds)
     IN  \/ /\ c.type = "chat"
            /\ queries' = queries \cup {[chat |-> c.chat, turn |-> c.turn, perm |-> 0,
                                         cut |-> FALSE, over |-> FALSE]}
            /\ UNCHANGED stdout
         \/ /\ c.type = "abort"
            /\ queries' = {IF q.chat = c.chat /\ q.turn = c.turn THEN [q EXCEPT !.cut = TRUE] ELSE q :
                             q \in queries}
            /\ UNCHANGED stdout
         \/ /\ c.type = "respond"
            /\ queries' = {IF q.perm = c.perm THEN [q EXCEPT !.perm = 0] ELSE q : q \in queries}
            /\ UNCHANGED stdout
         \/ /\ c.type = "ping"
            /\ Writes([type |-> "pong"])
            /\ UNCHANGED queries
  /\ UNCHANGED <<daemonVars, pinged, client, gen, proc, writer, pongs, counter>>

\* canUseTool, past the guards: the query waits for a decision.
CanUseTool(q) ==
  /\ proc = "alive"
  /\ q.perm = 0 /\ ~q.cut /\ ~q.over
  /\ counter < MaxAsks
  /\ counter' = counter + 1
  /\ queries' = (queries \ {q}) \cup {[q EXCEPT !.perm = counter + 1]}
  /\ Writes([type |-> "ask", chat |-> q.chat, turn |-> q.turn, perm |-> counter + 1])
  /\ UNCHANGED <<daemonVars, pinged, client, gen, proc, writer, cmds, pongs>>

\* The result of the query: done is written, and the input of the query is
\* released, which will end its stream.
Result(q) ==
  /\ proc = "alive"
  /\ q.perm = 0 /\ ~q.over
  /\ queries' = (queries \ {q}) \cup {[q EXCEPT !.over = TRUE, !.cut = FALSE]}
  /\ Writes([type |-> "done", chat |-> q.chat, turn |-> q.turn])
  /\ UNCHANGED <<daemonVars, pinged, client, gen, proc, writer, cmds, pongs, counter>>

\* The stream ends: after its result, or without one when it was interrupted
\* or failed, even while it waits for a decision.  The done that has not been
\* written is, and the pending requests are forgotten.
EndQuery(q) ==
  /\ proc = "alive"
  /\ queries' = queries \ {q}
  /\ IF q.over THEN UNCHANGED stdout ELSE Writes([type |-> "done", chat |-> q.chat, turn |-> q.turn])
  /\ UNCHANGED <<daemonVars, pinged, client, gen, proc, writer, cmds, pongs, counter>>

\* The process exits.  What was written to its pipe is lost, what the writer
\* still has to write is not yet known to be.
Die ==
  /\ MayDie
  /\ proc \in {"alive", "hung"}
  /\ proc' = "dead"
  /\ queries' = {}
  /\ cmds' \in {cmds, << >>}
  /\ UNCHANGED <<daemonVars, pinged, client, gen, writer, stdout, pongs, counter>>

Hang ==
  /\ MayHang
  /\ proc = "alive"
  /\ proc' = "hung"
  /\ UNCHANGED <<daemonVars, pinged, client, gen, writer, cmds, stdout, pongs, queries, counter>>

-----------------------------------------------------------------------------

Next ==
  \/ \E s \in Chats : OpenChat(s) \/ SendChatTurn(s) \/ FinishChat(s)
  \/ DrainSidecar \/ TickPermissions \/ TickHealth \/ TickPong
  \/ WriterDies
  \/ \E g \in Gens : Route(g)
  \/ Handle
  \/ \E q \in queries : CanUseTool(q) \/ Result(q) \/ EndQuery(q)
  \/ Die \/ Hang

\* The daemon ticks, its threads and a process that is alive run, and a query
\* that waits for no decision ends.  Nobody has to send or finish a chat.
Fairness ==
  /\ WF_vars(DrainSidecar) /\ WF_vars(TickPermissions) /\ WF_vars(TickHealth) /\ WF_vars(TickPong)
  /\ WF_vars(WriterDies) /\ WF_vars(Handle)
  /\ \A g \in Gens : WF_vars(Route(g))
  /\ WF_vars(\E q \in queries : (q.perm = 0 \/ q.cut) /\ EndQuery(q))

Spec     == Init /\ [][Next]_vars
FairSpec == Spec /\ Fairness

-----------------------------------------------------------------------------
(* Properties. *)

\* A conversation is answered by one query at a time: queued messages, aborts
\* and replaced processes never make two of one chat work side by side, nor
\* one that works while another is on its way.  One whose result is out may
\* still be closing.
OneQueryPerChat ==
  \A q \in queries : ~q.over =>
    /\ \A r \in queries : q.chat = r.chat /\ ~r.over => q = r
    /\ \A i \in DOMAIN cmds : cmds[i].type = "chat" => cmds[i].chat # q.chat

\* The log never shows a request as pending for ever: each one it shows so
\* has a deadline, and none outlives its session.
PendingTracked ==
  /\ shown = tracked
  /\ \A a \in tracked : chats[a.chat].state = "open"

\* A turn ends: done, or with an error when its process does not answer.
TurnsEnd ==
  \A s \in Chats, n \in Turns : chats[s].turn = n ~> chats[s].turn # n

\* The health check kills a process that does not answer, and no other.
OnlyHungKilled == [][client /\ ~client' => proc # "alive"]_vars
=============================================================================
