---------------------------- MODULE DaemonServer ----------------------------
(***************************************************************************)
(* The serve loop of the daemon (crates/cli/src/daemon.rs) and the clients *)
(* connected to its Unix socket (crates/cli/src/client.rs).                *)
(*                                                                         *)
(* One thread owns all state.  An acceptor thread and one reader thread    *)
(* per connection turn socket traffic into events of a single FIFO         *)
(* channel.  The loop takes a burst of events, ticks the application once, *)
(* broadcasts the buffered session events and then at most one snapshot.   *)
(* A Hello is answered from inside the burst, and may itself broadcast.    *)
(*                                                                         *)
(* The application is a domain value plus a counter of session events: what*)
(* an intent does to them is modelled in the modules about sessions, and is*)
(* free here.  A snapshot is the domain value it was built from.           *)
(***************************************************************************)
EXTENDS Naturals, Sequences, FiniteSets, Selection

CONSTANTS
  Conns,       \* connection ids (the acceptor never reuses one)
  Doms,        \* values of the domain, as build_snapshot sees it
  NoSnap,      \* "no snapshot": Daemon.last and the client's slot at start
  OutCap,      \* messages a socket holds before a write to it blocks
  Menu,        \* the kinds of message clients send (all of ClientMsgs, or fewer)
  MaxMsgs,     \* bound: messages sent, by all connections together
  MaxEvents    \* bound: session events emitted

ASSUME DomsAssumption == NoSnap \notin Doms /\ Doms # {}
ASSUME BoundsAssumption ==
  /\ OutCap \in Nat \ {0}
  /\ MaxMsgs \in Nat
  /\ MaxEvents \in Nat

(***************************************************************************)
(* Messages.  Act is any Intent other than Quit and EditConventions; the   *)
(* two Hellos differ in whether the protocol version is the daemon's own.  *)
(***************************************************************************)
Intents    == {"Act", "Quit", "EditConventions"}
ClientMsgs == Intents \cup {"Hello", "HelloOldVersion", "Ping", "EditorDone", "Shutdown"}
ASSUME MenuAssumption == Menu \subseteq ClientMsgs

Event      == [id : Conns, kind : ClientMsgs \cup {"Connect", "Disconnect"}]

BareMsgs   == {"Welcome", "Rejected", "RunEditor", "Detach", "Pong"}
ServerMsg  == [type : BareMsgs, arg : {NoSnap}]
                \cup [type : {"Snapshot"}, arg : Doms]
                \cup [type : {"Session"}, arg : Nat]

Bare(t)     == [type |-> t, arg |-> NoSnap]
Snapshot(d) == [type |-> "Snapshot", arg |-> d]
Session(n)  == [type |-> "Session", arg |-> n]

VARIABLES
  dom,      \* the domain value the application is in
  emitted,  \* session events emitted so far; event n is the n-th
  pend,     \* App.session_events: emitted, not yet taken by the loop
  last,     \* Daemon.last: newest snapshot handed out
  clients,  \* keys of Server.clients
  device,   \* the clients whose device is set: the handshaken ones
  running,  \* Server.running
  stage,    \* where the loop is: "recv", "burst", "closing", "exit"
  chan,     \* the event channel, socket input included
  outbox,   \* per connection, written by the daemon and not yet read
  cut,      \* connections drop_client shut down
  eof,      \* connections whose reader thread ended
  phase,    \* client side: "idle", "hello", "up", "closed"
  view,     \* client side: the shared snapshot slot the screen is drawn from
  cursor,   \* the last session event this client has read, or was told to skip
  sends     \* messages sent so far (bounds the model)

appVars    == <<dom, emitted>>
serverVars == <<last, clients, device, running>>
clientVars == <<phase, view, sends>>
vars == <<dom, emitted, pend, last, clients, device, running, stage,
          chan, outbox, cut, eof, phase, view, cursor, sends>>

\* Type invariant: whoever is handshaken is in the map, and no session event is
\* buffered that was not emitted.
TypeOK ==
  /\ dom \in Doms
  /\ emitted \in 0 .. MaxEvents
  /\ pend \in Seq(Nat) /\ Len(pend) <= emitted
  /\ last \in Doms \cup {NoSnap}
  /\ clients \in SUBSET Conns
  /\ device \in SUBSET clients
  /\ running \in BOOLEAN
  /\ stage \in {"recv", "burst", "closing", "exit"}
  /\ chan \in Seq(Event)
  /\ outbox \in [Conns -> Seq(ServerMsg)]
  /\ cut \in SUBSET Conns
  /\ eof \in SUBSET Conns
  /\ phase \in [Conns -> {"idle", "hello", "up", "closed"}]
  /\ view \in [Conns -> Doms \cup {NoSnap}]
  /\ cursor \in [Conns -> Nat]
  /\ sends \in 0 .. MaxMsgs

Init ==
  /\ dom \in Doms
  /\ emitted = 0
  /\ pend = << >>
  /\ last = NoSnap
  /\ clients = {}
  /\ device = {}
  /\ running = TRUE
  /\ stage = "recv"
  /\ chan = << >>
  /\ outbox = [c \in Conns |-> << >>]
  /\ cut = {}
  /\ eof = {}
  /\ phase = [c \in Conns |-> "idle"]
  /\ view = [c \in Conns |-> NoSnap]
  /\ cursor = [c \in Conns |-> 0]
  /\ sends = 0

-----------------------------------------------------------------------------
(* Client side. *)

\* A connection whose peer still holds its end: a write to it does not fail.
Open(c) == phase[c] \in {"hello", "up"}

\* Mutant: the acceptor starts the reader without announcing the connection.
ConnectUnannounced(c) ==
  /\ phase[c] = "idle"
  /\ stage # "exit"
  /\ phase' = [phase EXCEPT ![c] = "hello"]
  /\ UNCHANGED <<appVars, pend, serverVars, stage, chan, outbox, cut, eof, view, cursor, sends>>

\* A process connects: an attach, `jaum shutdown`, or an is_running probe.
Connect(c) ==
  /\ phase[c] = "idle"
  /\ stage # "exit"
  /\ phase' = [phase EXCEPT ![c] = "hello"]
  /\ chan' = Append(chan, [id |-> c, kind |-> "Connect"])
  /\ UNCHANGED <<appVars, pend, serverVars, stage, outbox, cut, eof, view, cursor, sends>>

\* The client writes one message and its reader thread forwards it.  A write
\* to a connection the daemon shut down fails, and ends the client: Close.
Send(c, m) ==
  /\ Open(c)
  /\ c \notin cut
  /\ stage # "exit"
  /\ sends < MaxMsgs
  /\ sends' = sends + 1
  /\ chan' = Append(chan, [id |-> c, kind |-> m])
  /\ UNCHANGED <<appVars, pend, serverVars, stage, outbox, cut, eof, phase, view, cursor>>

\* The client goes away on its own: a crash, a closed terminal, a probe done.
Close(c) ==
  /\ Open(c)
  /\ phase' = [phase EXCEPT ![c] = "closed"]
  /\ outbox' = [outbox EXCEPT ![c] = << >>]
  /\ UNCHANGED <<appVars, pend, serverVars, stage, chan, cut, eof, view, cursor, sends>>

\* The client reads the next message.  During hello() only Welcome lets it
\* in; later a Snapshot overwrites the slot, Session is dropped by the
\* reader, and Detach ends the client.
Read(c) ==
  /\ Open(c)
  /\ outbox[c] # << >>
  /\ LET m    == Head(outbox[c])
         ends == IF phase[c] = "hello" THEN m.type # "Welcome" ELSE m.type = "Detach"
     IN  /\ phase' = [phase EXCEPT ![c] = IF ends THEN "closed" ELSE "up"]
         /\ outbox' = [outbox EXCEPT ![c] = IF ends THEN << >> ELSE Tail(@)]
         /\ view' = IF phase[c] = "up" /\ m.type = "Snapshot"
                      THEN [view EXCEPT ![c] = m.arg] ELSE view
         /\ cursor' = IF phase[c] = "up" /\ m.type = "Session"
                        THEN [cursor EXCEPT ![c] = m.arg] ELSE cursor
  /\ UNCHANGED <<appVars, pend, serverVars, stage, chan, cut, eof, sends>>

\* The client reaches end of file: the daemon shut the connection, or is gone.
ReadEof(c) ==
  /\ Open(c)
  /\ outbox[c] = << >>
  /\ c \in cut \/ stage = "exit"
  /\ phase' = [phase EXCEPT ![c] = "closed"]
  /\ UNCHANGED <<appVars, pend, serverVars, stage, chan, outbox, cut, eof, view, cursor, sends>>

\* The reader thread of a finished connection reports Disconnect and ends.
ReaderEof(c) ==
  /\ phase[c] = "closed" \/ c \in cut
  /\ c \notin eof
  /\ stage # "exit"
  /\ eof' = eof \cup {c}
  /\ chan' = Append(chan, [id |-> c, kind |-> "Disconnect"])
  /\ UNCHANGED <<appVars, pend, serverVars, stage, outbox, cut, phase, view, cursor, sends>>

-----------------------------------------------------------------------------
(* Server side: sending. *)

\* write_msg to every connection of R blocks the loop while a socket is full;
\* a write to a peer that is gone fails at once.
Ready(R) == \A c \in R : Open(c) => Len(outbox[c]) < OutCap

\* The outboxes after the messages ms were written to the live members of R.
Written(box, R, ms) ==
  [c \in Conns |-> IF c \in R /\ Open(c) THEN box[c] \o ms ELSE box[c]]

\* Of the clients S that were written to, those the daemon keeps.
Kept(S) == {c \in S : Open(c)}

\* send_to then drop_client.  After a failed write the client is out of the
\* map already and its connection is not shut down.
Reject(c) ==
  /\ Ready({c} \cap clients)
  /\ outbox' = Written(outbox, {c} \cap clients, <<Bare("Rejected")>>)
  /\ cut' = cut \cup Kept({c} \cap clients)
  /\ clients' = clients \ {c}
  /\ device' = device \ {c}
  /\ UNCHANGED <<appVars, pend, last, running, cursor>>

\* Mutant: broadcast does not look at device.
ListenersUngreeted == clients

\* broadcast goes to the handshaken clients only.
Listeners == device

\* Mutant: only session events make a snapshot due.
DueWithEvents(heard, d) == heard # {} /\ last # d /\ pend # << >>

\* The tick publishes the domain value d: somebody listens, and d is not what
\* was handed out last (snapshot_if_changed).
Due(heard, d) == heard # {} /\ last # d

\* One call into the application: it may move the domain, and may emit a
\* session event, evs being the sequence of those it emitted.
AppStep(evs) ==
  /\ dom' \in Doms
  /\ evs \in {<< >>, <<emitted + 1>>}
  /\ emitted' = emitted + Len(evs)
  /\ emitted' <= MaxEvents

-----------------------------------------------------------------------------
(* Server side: Server::handle_event, one action per kind of event. *)

\* The loop takes the next event of the channel.  A burst goes on as long as
\* the daemon runs; Tick may end it at any point (the cap, or a quiet gap).
Take(kind, c) ==
  /\ running
  /\ stage \in {"recv", "burst"}
  /\ chan # << >>
  /\ Head(chan) = [id |-> c, kind |-> kind]
  /\ chan' = Tail(chan)
  /\ stage' = "burst"
  /\ UNCHANGED <<eof, clientVars>>

HandleConnect(c) ==
  /\ Take("Connect", c)
  /\ clients' = clients \cup {c}
  /\ UNCHANGED <<appVars, pend, last, device, running, outbox, cut, cursor>>

\* Mutant: the map entry outlives its connection.
HandleDisconnectKept(c) ==
  /\ Take("Disconnect", c)
  /\ device' = device \ {c}
  /\ UNCHANGED <<appVars, pend, last, clients, running, outbox, cut, cursor>>

\* Mutant: only the map entry goes.
HandleDisconnectDevice(c) ==
  /\ Take("Disconnect", c)
  /\ clients' = clients \ {c}
  /\ UNCHANGED <<appVars, pend, last, device, running, outbox, cut, cursor>>

HandleDisconnect(c) ==
  /\ Take("Disconnect", c)
  /\ clients' = clients \ {c}
  /\ device' = device \ {c}
  /\ UNCHANGED <<appVars, pend, last, running, outbox, cut, cursor>>

\* A Hello of another protocol version, or a second Hello, is refused.
HandleBadHello(c) ==
  /\ \/ Take("HelloOldVersion", c)
     \/ Take("Hello", c) /\ c \in device
  /\ Reject(c)

\* Mutant: every arrival discards what is buffered, not only the first.
KeptEventsNone == << >>

\* Events buffered while nobody was attached are history, not state: the
\* first arrival discards them.
KeptEvents == IF device = {} THEN << >> ELSE pend

\* Mutants: the newcomer alone, or everybody, whether or not the domain moved.
BootstrappedAlone(c, att)    == {c} \cap clients
BootstrappedEverybody(c, att) == att

\* Who is sent the snapshot a Hello of c hands out, att being the audience it
\* leaves: everybody if the domain moved since the last one, otherwise the
\* newcomer alone, who is served the cached one.
Bootstrapped(c, att) == IF last # dom THEN att ELSE {c} \cap clients

\* A valid Hello.  A client that is no longer in the map gets no answer, yet
\* the snapshot it made due is published to the others.
HandleHello(c) ==
  /\ Take("Hello", c)
  /\ c \notin device
  /\ LET joins  == c \in clients /\ Open(c)
         failed == {c} \ Kept({c})
         att    == (device \ failed) \cup (IF joins THEN {c} ELSE {})
         to     == Bootstrapped(c, att)
     IN  /\ Ready(to)
         /\ pend' = KeptEvents
         /\ last' = dom
         /\ outbox' = Written(Written(outbox, {c} \cap clients, <<Bare("Welcome")>>),
                              to, <<Snapshot(dom)>>)
         /\ device' = att \ (to \ Kept(to))
         /\ clients' = (clients \ failed) \ (to \ Kept(to))
         /\ cursor' = IF joins THEN [cursor EXCEPT ![c] = emitted - Len(pend')] ELSE cursor
  /\ UNCHANGED <<appVars, running, cut>>

\* Anything else before a valid Hello is refused, Shutdown excepted.
HandleEarly(c) ==
  /\ \E m \in ClientMsgs \ {"Hello", "HelloOldVersion", "Shutdown"} : Take(m, c)
  /\ c \notin device
  /\ Reject(c)

\* An intent that neither quits nor opens the editor.
HandleIntent(c) ==
  /\ Take("Act", c)
  /\ c \in device
  /\ \E evs \in {<< >>, <<emitted + 1>>} : AppStep(evs) /\ pend' = pend \o evs
  /\ UNCHANGED <<serverVars, outbox, cut, cursor>>

\* EditConventions sets edit_request: the sender is told to run its editor.
HandleEdit(c) ==
  /\ Take("EditConventions", c)
  /\ c \in device
  /\ Ready({c})
  /\ outbox' = Written(outbox, {c}, <<Bare("RunEditor")>>)
  /\ clients' = clients \ ({c} \ Kept({c}))
  /\ device' = device \ ({c} \ Kept({c}))
  /\ UNCHANGED <<appVars, pend, last, running, cut, cursor>>

\* Quit sets should_quit: the sender is detached and leaves the map, its
\* connection stays open until the client closes it.
HandleQuit(c) ==
  /\ Take("Quit", c)
  /\ c \in device
  /\ Ready({c})
  /\ outbox' = Written(outbox, {c}, <<Bare("Detach")>>)
  /\ clients' = clients \ {c}
  /\ device' = device \ {c}
  /\ UNCHANGED <<appVars, pend, last, running, cut, cursor>>

HandlePing(c) ==
  /\ Take("Ping", c)
  /\ c \in device
  /\ Ready({c})
  /\ outbox' = Written(outbox, {c}, <<Bare("Pong")>>)
  /\ clients' = clients \ ({c} \ Kept({c}))
  /\ device' = device \ ({c} \ Kept({c}))
  /\ UNCHANGED <<appVars, pend, last, running, cut, cursor>>

\* reload_conventions and a new status message: a move of the domain.
HandleEditorDone(c) ==
  /\ Take("EditorDone", c)
  /\ c \in device
  /\ AppStep(<< >>)
  /\ UNCHANGED <<pend, serverVars, outbox, cut, cursor>>

\* Mutant: Shutdown needs a handshake like everything else.
HandleShutdownGreeted(c) ==
  /\ c \in device
  /\ Take("Shutdown", c)
  /\ running' = FALSE
  /\ UNCHANGED <<appVars, pend, last, clients, device, outbox, cut, cursor>>

\* Shutdown is obeyed from any connection, handshaken or not.
HandleShutdown(c) ==
  /\ Take("Shutdown", c)
  /\ running' = FALSE
  /\ UNCHANGED <<appVars, pend, last, clients, device, outbox, cut, cursor>>

-----------------------------------------------------------------------------
(* Server side: the rest of the loop. *)

\* The burst is over, or TICK passed with no event: tick, broadcast the
\* session events to the audience, then the snapshot if there still is one
\* and the domain moved.
Tick ==
  /\ \/ stage = "burst"
     \/ stage = "recv" /\ chan = << >>
  /\ \E evs \in {<< >>, <<emitted + 1>>} :
       /\ AppStep(evs)
       /\ LET out     == pend \o evs
              heard   == IF out = << >> THEN Listeners ELSE Kept(Listeners)
              publish == Due(heard, dom')
              streamed == Written(outbox, Listeners, [i \in DOMAIN out |-> Session(out[i])])
              stay    == IF publish THEN Kept(heard) ELSE heard
          IN  /\ Ready(IF out # << >> \/ publish THEN Listeners ELSE {})
              /\ last' = IF publish THEN dom' ELSE last
              /\ outbox' = IF publish THEN Written(streamed, heard, <<Snapshot(dom')>>)
                                      ELSE streamed
              /\ device' = device \ (Listeners \ stay)
              /\ clients' = clients \ (Listeners \ stay)
  /\ pend' = << >>
  /\ stage' = IF running THEN "recv" ELSE "closing"
  /\ UNCHANGED <<running, chan, cut, eof, clientVars, cursor>>

\* The loop is left: sessions are stopped, the socket file is removed and the
\* process exits, which ends every connection and drops the channel.
Exit ==
  /\ stage = "closing"
  /\ stage' = "exit"
  /\ chan' = << >>
  /\ UNCHANGED <<appVars, pend, serverVars, outbox, cut, eof, clientVars, cursor>>

-----------------------------------------------------------------------------

HandleEvent(c) ==
  \/ HandleConnect(c)
  \/ HandleDisconnect(c)
  \/ HandleBadHello(c)
  \/ HandleHello(c)
  \/ HandleEarly(c)
  \/ HandleIntent(c)
  \/ HandleEdit(c)
  \/ HandleQuit(c)
  \/ HandlePing(c)
  \/ HandleEditorDone(c)
  \/ HandleShutdown(c)

ClientStep(c) ==
  \/ Connect(c)
  \/ \E m \in Menu : Send(c, m)
  \/ Close(c)
  \/ Read(c)
  \/ ReadEof(c)
  \/ ReaderEof(c)

Next ==
  \/ \E c \in Conns : ClientStep(c)
  \/ \E c \in Conns : HandleEvent(c)
  \/ Tick
  \/ Exit

\* A tick in which the application stands still.
QuietTick == Tick /\ UNCHANGED appVars

\* The loop thread never stops looping; the reader threads of daemon and
\* clients read whatever arrives.  Nobody has to connect, send or close, and
\* the application never has to move: fairness is about quiet ticks only.
Fairness ==
  /\ WF_vars(\E c \in Conns : HandleEvent(c))
  /\ WF_vars(QuietTick)
  /\ WF_vars(Exit)
  /\ \A c \in Conns : WF_vars(Read(c)) /\ WF_vars(ReadEof(c)) /\ WF_vars(ReaderEof(c))

Spec     == Init /\ [][Next]_vars
FairSpec == Spec /\ Fairness

-----------------------------------------------------------------------------
(* Properties. *)

IsSnapshot(m) == m.type = "Snapshot"

\* d is the newest snapshot in the queue q, or, with none queued, the one shown.
NewestIn(q, shown, d) ==
  \/ \E i \in DOMAIN q :
       /\ q[i] = Snapshot(d)
       /\ \A j \in DOMAIN q : j > i => ~IsSnapshot(q[j])
  \/ /\ shown = d
     /\ \A j \in DOMAIN q : ~IsSnapshot(q[j])

\* All handshaken clients agree: whatever bursts, joins and broken peers came
\* between, the newest snapshot each one was sent is the daemon's last.  It
\* fails if a snapshot consumed for one client (the Hello path) skips another.
AttachedAgree ==
  \A c \in device : Open(c) => NewestIn(outbox[c], view[c], last)

\* What hello() of the client relies on: the first message is the verdict, it
\* is the only Welcome ever, the state follows it at once, and a refused or
\* detached connection is sent nothing more.
StreamWellFormed ==
  \A c \in Conns : \A i \in DOMAIN outbox[c] :
    LET type == outbox[c][i].type
    IN  /\ phase[c] = "hello" /\ i = 1 => type \in {"Welcome", "Rejected"}
        /\ type = "Welcome" => /\ phase[c] = "hello" /\ i = 1
                               /\ Len(outbox[c]) >= 2 /\ IsSnapshot(outbox[c][2])
        /\ type \in {"Rejected", "Detach"} => i = Len(outbox[c]) /\ c \notin device

\* A snapshot is never sent twice running to one client: not the cached one
\* of a Hello to those who have it, nor an unchanged one by the tick.
NoDuplicateSnapshots ==
  \A c \in Conns : \A j \in DOMAIN outbox[c] :
    IsSnapshot(outbox[c][j]) =>
      \A d \in Doms : NewestIn(SubSeq(outbox[c], 1, j - 1), view[c], d) => outbox[c][j].arg # d

\* The numbers of the session events c is still to read, oldest first.
Feed(c) ==
  LET coming == Only(outbox[c], [type : {"Session"}, arg : Nat])
  IN  [i \in DOMAIN coming |-> coming[i].arg] \o pend

\* Session events reach an attached client exactly once and in order: neither
\* an arrival, nor a departure, nor a burst loses one or sends one again.
EventFeedExact ==
  \A c \in device : Open(c) =>
    Feed(c) = [i \in 1 .. emitted - cursor[c] |-> cursor[c] + i]

\* The daemon's state reaches the screen: once the domain is left alone, an
\* attached client ends up showing it and goes on showing it.
Converges ==
  \A c \in Conns, d \in Doms :
    <>[](dom = d) => <>[](c \in device /\ phase[c] = "up" /\ stage # "exit" => view[c] = d)

\* A Hello is answered, unless the client or the daemon goes away first.
HelloAnswered ==
  \A c \in Conns :
    (\E i \in DOMAIN chan : chan[i] = [id |-> c, kind |-> "Hello"])
      ~> (phase[c] \in {"up", "closed"} \/ stage = "exit")

\* Shutdown, from any connection in any state, stops the daemon and lets
\* every client go: neither a burst nor a full socket holds it up for ever.
ShutdownObeyed ==
  (\E i \in DOMAIN chan : chan[i].kind = "Shutdown")
    ~> (stage = "exit" /\ \A c \in Conns : ~Open(c))

\* A connection that is over leaves the map: the daemon keeps no dead peers.
GoneClientsReleased ==
  \A c \in Conns : phase[c] = "closed" ~> (c \notin clients \/ stage = "exit")

\* Refinement: the daemon implements an atomic publication to its audience.
Audience == {c \in device : Open(c)}

\* The newest snapshot c was sent.
Delivered(c) == CHOOSE d \in Doms \cup {NoSnap} : NewestIn(outbox[c], view[c], d)

Feeding == INSTANCE SnapshotFeed WITH
  Members <- Conns, Values <- Doms, None <- NoSnap, published <- last,
  group <- Audience, copy <- [c \in Conns |-> IF c \in Audience THEN Delivered(c) ELSE NoSnap]

\* The snapshots implement SnapshotFeed under that mapping.
ImplementsSnapshotFeed == Feeding!FeedSpec
=============================================================================
