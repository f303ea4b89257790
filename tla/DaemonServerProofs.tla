------------------------- MODULE DaemonServerProofs -------------------------
(***************************************************************************)
(* Proofs about DaemonServer, for every set of connections, every domain,  *)
(* every socket capacity and every bound.                                  *)
(***************************************************************************)
EXTENDS DaemonServer, SelectionProofs, TLAPS

\* The messages the daemon writes are messages.
LEMMA MessagesTyped ==
  /\ \A t \in BareMsgs : Bare(t) \in ServerMsg
  /\ \A d \in Doms : Snapshot(d) \in ServerMsg
  /\ \A n \in Nat : Session(n) \in ServerMsg
  BY DEF ServerMsg, Bare, Snapshot, Session

\* Writing messages to some connections leaves sequences of messages.
LEMMA WrittenTyped ==
  ASSUME NEW box \in [Conns -> Seq(ServerMsg)], NEW R, NEW ms \in Seq(ServerMsg)
  PROVE  Written(box, R, ms) \in [Conns -> Seq(ServerMsg)]
  BY DEF Written

\* Every event appended to the channel keeps it a channel.
LEMMA AppendTyped ==
  ASSUME chan \in Seq(Event), NEW c \in Conns,
         NEW k \in ClientMsgs \cup {"Connect", "Disconnect"}
  PROVE  Append(chan, [id |-> c, kind |-> k]) \in Seq(Event)
<1>1. [id |-> c, kind |-> k] \in Event
  BY DEF Event
<1> QED
  BY <1>1

\* Taking an event keeps the channel typed and moves the loop into a burst.
LEMMA TakeTyped ==
  ASSUME TypeOK, NEW c, NEW k, Take(k, c)
  PROVE  /\ chan' \in Seq(Event)
         /\ stage' \in {"recv", "burst", "closing", "exit"}
         /\ eof' \in SUBSET Conns
         /\ phase' \in [Conns -> {"idle", "hello", "up", "closed"}]
         /\ view' \in [Conns -> Doms \cup {NoSnap}]
         /\ sends' \in 0 .. MaxMsgs
<1>1. chan # << >> => Tail(chan) \in Seq(Event)
  BY DEF TypeOK
<1> QED
  BY <1>1 DEF TypeOK, Take, clientVars

\* A refusal keeps the server's own variables typed.
LEMMA RejectTyped ==
  ASSUME TypeOK, NEW c \in Conns, Reject(c)
  PROVE  /\ dom' \in Doms
         /\ emitted' \in 0 .. MaxEvents
         /\ pend' \in Seq(Nat) /\ Len(pend') <= emitted'
         /\ last' \in Doms \cup {NoSnap}
         /\ clients' \in SUBSET Conns
         /\ device' \in SUBSET clients'
         /\ running' \in BOOLEAN
         /\ outbox' \in [Conns -> Seq(ServerMsg)]
         /\ cut' \in SUBSET Conns
         /\ cursor' \in [Conns -> Nat]
<1>1. <<Bare("Rejected")>> \in Seq(ServerMsg)
  BY MessagesTyped DEF BareMsgs
<1>2. outbox' \in [Conns -> Seq(ServerMsg)]
  BY <1>1, WrittenTyped DEF Reject, TypeOK
<1> QED
  BY <1>2 DEF Reject, TypeOK, appVars, Kept

\* What an answer of type t to the sender c alone does, whether or not the
\* sender stays in the map.
Replied(c, t) ==
  /\ outbox' = Written(outbox, {c}, <<Bare(t)>>)
  /\ \/ clients' = clients \ ({c} \ Kept({c})) /\ device' = device \ ({c} \ Kept({c}))
     \/ clients' = clients \ {c} /\ device' = device \ {c}
  /\ UNCHANGED <<appVars, pend, last, running, cut, cursor>>

\* A call into the application keeps its state and the new events typed.
LEMMA AppTyped ==
  ASSUME TypeOK, NEW evs, AppStep(evs)
  PROVE  /\ dom' \in Doms
         /\ emitted' \in 0 .. MaxEvents /\ emitted <= emitted'
         /\ pend \o evs \in Seq(Nat) /\ Len(pend \o evs) <= emitted'
<1>1. CASE evs = << >>
  <2>1. pend \o evs = pend /\ Len(evs) = 0
    BY <1>1 DEF TypeOK
  <2> QED
    BY <2>1 DEF AppStep, TypeOK
<1>2. CASE evs = <<emitted + 1>>
  <2>1. emitted + 1 \in Nat
    BY BoundsAssumption DEF TypeOK
  <2>2. evs \in Seq(Nat) /\ Len(evs) = 1
    BY <1>2, <2>1
  <2>3. pend \o evs \in Seq(Nat) /\ Len(pend \o evs) = Len(pend) + 1
    <3>1. pend \in Seq(Nat) /\ evs \in Seq(Nat) /\ Len(evs) = 1
      BY <2>2 DEF TypeOK
    <3>2. pend \o evs \in Seq(Nat)
      BY <3>1
    <3>3. Len(pend \o evs) = Len(pend) + Len(evs)
      BY <3>1, ConcatProperties, Zenon
    <3> QED
      BY <3>1, <3>2, <3>3
  <2>4. emitted' = emitted + 1 /\ emitted' <= MaxEvents /\ dom' \in Doms
    BY <2>2 DEF AppStep
  <2> QED
    BY <2>3, <2>4, BoundsAssumption DEF TypeOK
<1> QED
  BY <1>1, <1>2 DEF AppStep

\* Every variable keeps its type under every step.
LEMMA TypeStep == TypeOK /\ [Next]_vars => TypeOK'
<1> SUFFICES ASSUME TypeOK, [Next]_vars PROVE TypeOK'
  OBVIOUS
<1>1. ASSUME NEW c \in Conns, ClientStep(c) PROVE TypeOK'
  <2>1. CASE Connect(c)
    BY <2>1, AppendTyped DEF Connect, TypeOK, appVars, serverVars
  <2>2. ASSUME NEW m \in Menu, Send(c, m) PROVE TypeOK'
    <3>1. m \in ClientMsgs
      BY MenuAssumption
    <3>2. chan' \in Seq(Event)
      BY <2>2, <3>1, AppendTyped DEF Send, TypeOK
    <3>3. sends' \in 0 .. MaxMsgs
      BY <2>2, BoundsAssumption DEF Send, TypeOK
    <3> QED
      BY <2>2, <3>2, <3>3 DEF Send, TypeOK, appVars, serverVars
  <2>3. CASE Close(c)
    BY <2>3 DEF Close, TypeOK, appVars, serverVars
  <2>4. CASE Read(c)
    <3>1. outbox[c] \in Seq(ServerMsg) /\ outbox[c] # << >>
      BY <2>4 DEF Read, TypeOK
    <3>2. Head(outbox[c]) \in ServerMsg /\ Tail(outbox[c]) \in Seq(ServerMsg)
      BY <3>1
    <3>3. /\ Head(outbox[c]).type = "Snapshot" => Head(outbox[c]).arg \in Doms
          /\ Head(outbox[c]).type = "Session" => Head(outbox[c]).arg \in Nat
      BY <3>2 DEF ServerMsg, BareMsgs
    <3> QED
      BY <2>4, <3>2, <3>3 DEF Read, TypeOK, appVars, serverVars
  <2>5. CASE ReadEof(c)
    BY <2>5 DEF ReadEof, TypeOK, appVars, serverVars
  <2>6. CASE ReaderEof(c)
    BY <2>6, AppendTyped DEF ReaderEof, TypeOK, appVars, serverVars
  <2> QED
    BY <1>1, <2>1, <2>2, <2>3, <2>4, <2>5, <2>6 DEF ClientStep
<1>2. ASSUME NEW c \in Conns, HandleEvent(c) PROVE TypeOK'
  <2> USE <1>2
  <2>1. CASE HandleConnect(c)
    BY <2>1, TakeTyped DEF HandleConnect, TypeOK, appVars
  <2>2. CASE HandleDisconnect(c)
    BY <2>2, TakeTyped DEF HandleDisconnect, TypeOK, appVars
  <2>3. CASE HandleBadHello(c)
    BY <2>3, TakeTyped, RejectTyped DEF HandleBadHello, TypeOK
  <2>4. CASE HandleHello(c)
    <3> DEFINE joins  == c \in clients /\ Open(c)
               failed == {c} \ Kept({c})
               att    == (device \ failed) \cup (IF joins THEN {c} ELSE {})
               to     == Bootstrapped(c, att)
    <3>1. <<Bare("Welcome")>> \in Seq(ServerMsg) /\ <<Snapshot(dom)>> \in Seq(ServerMsg)
      BY MessagesTyped DEF BareMsgs, TypeOK
    <3>2. Written(outbox, {c} \cap clients, <<Bare("Welcome")>>) \in [Conns -> Seq(ServerMsg)]
      BY <3>1, WrittenTyped DEF TypeOK
    <3>3. outbox' \in [Conns -> Seq(ServerMsg)]
      <4>1. outbox' = Written(Written(outbox, {c} \cap clients, <<Bare("Welcome")>>),
                              to, <<Snapshot(dom)>>)
        BY <2>4 DEF HandleHello
      <4> QED
        BY <4>1, <3>1, <3>2, WrittenTyped
    <3>4. pend' \in Seq(Nat) /\ Len(pend') <= emitted
      BY <2>4 DEF HandleHello, KeptEvents, TypeOK
    <3>5. cursor' \in [Conns -> Nat]
      <4>1. emitted - Len(pend') \in Nat
        BY <3>4, BoundsAssumption DEF TypeOK
      <4> QED
        BY <2>4, <4>1 DEF HandleHello, TypeOK
    <3>6. clients' \in SUBSET Conns /\ device' \in SUBSET clients'
      <4>1. att \subseteq clients \ failed
        BY DEF TypeOK, Kept
      <4>2. /\ device' = att \ (to \ Kept(to))
            /\ clients' = (clients \ failed) \ (to \ Kept(to))
        BY <2>4 DEF HandleHello
      <4> QED
        BY <4>1, <4>2 DEF TypeOK
    <3>7. /\ UNCHANGED <<dom, emitted, running, cut>>
          /\ last' = dom
      BY <2>4 DEF HandleHello, appVars
    <3>8. Take("Hello", c)
      BY <2>4 DEF HandleHello
    <3> QED
      BY <3>8, TakeTyped, <3>3, <3>4, <3>5, <3>6, <3>7 DEF TypeOK
  <2>5. CASE HandleEarly(c)
    BY <2>5, TakeTyped, RejectTyped DEF HandleEarly, TypeOK
  <2>6. CASE HandleIntent(c)
    BY <2>6, TakeTyped, AppTyped DEF HandleIntent, TypeOK, serverVars
  <2>7. ASSUME NEW k, NEW t \in BareMsgs, Take(k, c), Replied(c, t)
        PROVE  TypeOK'
    <3>1. <<Bare(t)>> \in Seq(ServerMsg)
      BY MessagesTyped
    <3>2. outbox' \in [Conns -> Seq(ServerMsg)]
      BY <2>7, <3>1, WrittenTyped DEF Replied, TypeOK
    <3> QED
      BY <2>7, <3>2, TakeTyped DEF Replied, TypeOK, appVars
  <2>8. CASE HandleEdit(c)
    BY <2>7, <2>8 DEF HandleEdit, Replied, BareMsgs
  <2>9. CASE HandleQuit(c)
    BY <2>7, <2>9 DEF HandleQuit, Replied, BareMsgs
  <2>10. CASE HandlePing(c)
    BY <2>7, <2>10 DEF HandlePing, Replied, BareMsgs
  <2>11. CASE HandleEditorDone(c)
    <3>1. AppStep(<< >>) /\ Take("EditorDone", c)
      BY <2>11 DEF HandleEditorDone
    <3>2. dom' \in Doms /\ emitted' \in 0 .. MaxEvents /\ emitted <= emitted'
      BY <3>1, AppTyped
    <3>3. UNCHANGED <<pend, last, clients, device, running, outbox, cut, cursor>>
      BY <2>11 DEF HandleEditorDone, serverVars
    <3> QED
      BY <3>1, <3>2, <3>3, TakeTyped, BoundsAssumption DEF TypeOK
  <2>12. CASE HandleShutdown(c)
    BY <2>12, TakeTyped DEF HandleShutdown, TypeOK, appVars
  <2> QED
    BY <1>2, <2>1, <2>2, <2>3, <2>4, <2>5, <2>6, <2>8, <2>9, <2>10, <2>11, <2>12
       DEF HandleEvent
<1>3. CASE Tick
  <2>1. PICK evs \in {<< >>, <<emitted + 1>>} :
          /\ AppStep(evs)
          /\ LET out      == pend \o evs
                 heard    == IF out = << >> THEN Listeners ELSE Kept(Listeners)
                 publish  == Due(heard, dom')
                 streamed == Written(outbox, Listeners, [i \in DOMAIN out |-> Session(out[i])])
                 stay     == IF publish THEN Kept(heard) ELSE heard
             IN  /\ last' = IF publish THEN dom' ELSE last
                 /\ outbox' = IF publish THEN Written(streamed, heard, <<Snapshot(dom')>>)
                                         ELSE streamed
                 /\ device' = device \ (Listeners \ stay)
                 /\ clients' = clients \ (Listeners \ stay)
    BY <1>3 DEF Tick
  <2> DEFINE out      == pend \o evs
             heard    == IF out = << >> THEN Listeners ELSE Kept(Listeners)
             publish  == Due(heard, dom')
             events   == [i \in DOMAIN out |-> Session(out[i])]
             streamed == Written(outbox, Listeners, events)
             stay     == IF publish THEN Kept(heard) ELSE heard
  <2>2. dom' \in Doms /\ emitted' \in 0 .. MaxEvents /\ out \in Seq(Nat)
    BY <2>1, AppTyped
  <2>3. events \in Seq(ServerMsg)
    <3>1. \A i \in DOMAIN out : Session(out[i]) \in ServerMsg
      BY <2>2, MessagesTyped
    <3> QED
      BY <2>2, <3>1
  <2>4. streamed \in [Conns -> Seq(ServerMsg)]
    BY <2>3, WrittenTyped DEF TypeOK
  <2>5. Written(streamed, heard, <<Snapshot(dom')>>) \in [Conns -> Seq(ServerMsg)]
    <3>1. <<Snapshot(dom')>> \in Seq(ServerMsg)
      BY <2>2, MessagesTyped
    <3> HIDE DEF streamed, heard
    <3> QED
      BY <2>4, <3>1, WrittenTyped
  <2>6. outbox' \in [Conns -> Seq(ServerMsg)] /\ last' \in Doms \cup {NoSnap}
    BY <2>1, <2>2, <2>4, <2>5 DEF TypeOK
  <2>7. clients' \in SUBSET Conns /\ device' \in SUBSET clients'
    BY <2>1 DEF TypeOK
  <2>8. /\ UNCHANGED <<running, chan, cut, eof, clientVars, cursor>>
        /\ pend' = << >> /\ stage' \in {"recv", "closing"}
    BY <1>3 DEF Tick
  <2> QED
    BY <2>2, <2>6, <2>7, <2>8 DEF TypeOK, clientVars
<1>4. CASE Exit
  BY <1>4 DEF Exit, TypeOK, appVars, serverVars, clientVars
<1>5. CASE UNCHANGED vars
  BY <1>5 DEF vars, TypeOK
<1> QED
  BY <1>1, <1>2, <1>3, <1>4, <1>5 DEF Next

\* Every reachable state of the daemon and its clients is well typed: in
\* particular device never names a client that is not in the map, and the
\* buffered session events are never more than those emitted.
THEOREM TypeCorrect == Spec => []TypeOK
<1>1. Init => TypeOK
  BY BoundsAssumption DEF Init, TypeOK
<1> QED
  BY <1>1, TypeStep, PTL DEF Spec

-----------------------------------------------------------------------------
(* Agreement of the attached clients. *)

\* Messages that are no snapshots do not change which snapshot is newest.
LEMMA NewestAfterOthers ==
  ASSUME NEW q \in Seq(ServerMsg), NEW ms \in Seq(ServerMsg), NEW v, NEW d,
         \A i \in DOMAIN ms : ~IsSnapshot(ms[i]), NewestIn(q, v, d)
  PROVE  NewestIn(q \o ms, v, d)
<1>1. /\ Len(q) \in Nat /\ Len(ms) \in Nat
      /\ DOMAIN q = 1 .. Len(q) /\ DOMAIN ms = 1 .. Len(ms)
  OBVIOUS
<1>2. /\ DOMAIN (q \o ms) = 1 .. Len(q) + Len(ms)
      /\ \A i \in 1 .. Len(q) + Len(ms) :
           (q \o ms)[i] = IF i <= Len(q) THEN q[i] ELSE ms[i - Len(q)]
  BY ConcatProperties
<1>3. \A i \in DOMAIN (q \o ms) : i > Len(q) => ~IsSnapshot((q \o ms)[i])
  BY <1>1, <1>2
<1>4. \A i \in DOMAIN q : i \in DOMAIN (q \o ms) /\ (q \o ms)[i] = q[i]
  BY <1>1, <1>2
<1>5. \A i \in DOMAIN (q \o ms) : i \in DOMAIN q \/ i > Len(q)
  BY <1>1, <1>2
<1> QED
  BY <1>3, <1>4, <1>5 DEF NewestIn

\* A snapshot written last is the newest.
LEMMA NewestAfterSnapshot ==
  ASSUME NEW q \in Seq(ServerMsg), NEW v, NEW d \in Doms
  PROVE  NewestIn(q \o <<Snapshot(d)>>, v, d)
<1> DEFINE r == q \o <<Snapshot(d)>>
<1>1. <<Snapshot(d)>> \in Seq(ServerMsg)
  BY MessagesTyped
<1>2. /\ Len(q) \in Nat
      /\ DOMAIN r = 1 .. Len(q) + 1
      /\ r[Len(q) + 1] = Snapshot(d)
  BY <1>1, ConcatProperties
<1> QED
  BY <1>2 DEF NewestIn

\* Reading the oldest message keeps the newest snapshot, provided a snapshot
\* that is read is shown.
LEMMA NewestAfterRead ==
  ASSUME NEW q \in Seq(ServerMsg), q # << >>, NEW v, NEW d, NewestIn(q, v, d)
  PROVE  NewestIn(Tail(q), IF IsSnapshot(Head(q)) THEN Head(q).arg ELSE v, d)
<1>1. /\ Len(q) \in Nat \ {0}
      /\ DOMAIN q = 1 .. Len(q)
      /\ Head(q) = q[1]
      /\ DOMAIN Tail(q) = 1 .. Len(q) - 1
      /\ \A i \in 1 .. Len(q) - 1 : Tail(q)[i] = q[i + 1]
  BY HeadTailProperties, LenProperties
<1>2. \A i \in DOMAIN q : i > 1 => i - 1 \in DOMAIN Tail(q) /\ Tail(q)[i - 1] = q[i]
  BY <1>1
<1>3. CASE /\ v = d
           /\ \A j \in DOMAIN q : ~IsSnapshot(q[j])
  BY <1>1, <1>3 DEF NewestIn
<1>4. ASSUME NEW i \in DOMAIN q, q[i] = Snapshot(d),
             \A j \in DOMAIN q : j > i => ~IsSnapshot(q[j])
      PROVE  NewestIn(Tail(q), IF IsSnapshot(Head(q)) THEN Head(q).arg ELSE v, d)
  <2>1. CASE i = 1
    <3>1. IsSnapshot(Head(q)) /\ Head(q).arg = d
      BY <1>1, <1>4, <2>1 DEF IsSnapshot, Snapshot
    <3>2. \A j \in DOMAIN Tail(q) : ~IsSnapshot(Tail(q)[j])
      BY <1>1, <1>4, <2>1
    <3> QED
      BY <3>1, <3>2 DEF NewestIn
  <2>2. CASE i > 1
    <3>1. i - 1 \in DOMAIN Tail(q) /\ Tail(q)[i - 1] = Snapshot(d)
      BY <1>2, <1>4, <2>2
    <3>2. \A j \in DOMAIN Tail(q) : j > i - 1 => ~IsSnapshot(Tail(q)[j])
      BY <1>1, <1>4, <2>2
    <3> QED
      BY <3>1, <3>2 DEF NewestIn
  <2> QED
    BY <1>1, <2>1, <2>2
<1> QED
  BY <1>3, <1>4 DEF NewestIn

\* Whoever the daemon knows of, by its map, by a connection it shut down or by
\* an event on its way, has connected.
NoIdlePeers ==
  \A c \in Conns :
    (c \in clients \/ c \in cut \/ \E i \in DOMAIN chan : chan[i].id = c)
      => phase[c] # "idle"

\* A connection whose own event is taken has connected, and taking the event
\* makes no new one known.
LEMMA TakeNoIdle ==
  ASSUME TypeOK, NoIdlePeers, NEW c \in Conns, NEW k, Take(k, c)
  PROVE  /\ phase[c] # "idle" /\ phase' = phase
         /\ \A x \in Conns : (\E i \in DOMAIN chan' : chan'[i].id = x)
                             => \E i \in DOMAIN chan : chan[i].id = x
<1>1. chan \in Seq(Event) /\ chan # << >> /\ chan' = Tail(chan) /\ Head(chan).id = c
  BY DEF Take, TypeOK
<1>2. /\ Len(chan) \in Nat \ {0} /\ DOMAIN chan = 1 .. Len(chan) /\ Head(chan) = chan[1]
      /\ DOMAIN chan' = 1 .. Len(chan) - 1
      /\ \A i \in 1 .. Len(chan) - 1 : chan'[i] = chan[i + 1]
  BY <1>1, HeadTailProperties, LenProperties
<1>3. phase[c] # "idle"
  BY <1>1, <1>2 DEF NoIdlePeers
<1>4. \A i \in DOMAIN chan' : i + 1 \in DOMAIN chan /\ chan'[i] = chan[i + 1]
  BY <1>2
<1>5. phase' = phase
  BY DEF Take, clientVars
<1> QED
  BY <1>3, <1>4, <1>5

\* An event appended for c is the only new one.
LEMMA AppendIds ==
  ASSUME chan \in Seq(Event), NEW c \in Conns, NEW k,
         chan' = Append(chan, [id |-> c, kind |-> k])
  PROVE  \A x \in Conns : (\E i \in DOMAIN chan' : chan'[i].id = x)
                          => x = c \/ \E i \in DOMAIN chan : chan[i].id = x
<1>1. /\ Len(chan) \in Nat /\ DOMAIN chan = 1 .. Len(chan)
      /\ DOMAIN chan' = 1 .. Len(chan) + 1
      /\ \A i \in 1 .. Len(chan) : chan'[i] = chan[i]
      /\ chan'[Len(chan) + 1] = [id |-> c, kind |-> k]
  OBVIOUS
<1> QED
  BY <1>1

LEMMA NoIdleStep == TypeOK /\ NoIdlePeers /\ [Next]_vars => NoIdlePeers'
<1> SUFFICES ASSUME TypeOK, NoIdlePeers, [Next]_vars PROVE NoIdlePeers'
  OBVIOUS
<1>1. ASSUME NEW c \in Conns, ClientStep(c) PROVE NoIdlePeers'
  <2>1. CASE Connect(c)
    BY <2>1, AppendIds DEF Connect, NoIdlePeers, TypeOK, serverVars
  <2>2. ASSUME NEW m \in Menu, Send(c, m) PROVE NoIdlePeers'
    BY <2>2, AppendIds DEF Send, Open, NoIdlePeers, TypeOK, serverVars
  <2>3. CASE Close(c)
    BY <2>3 DEF Close, NoIdlePeers, TypeOK, serverVars
  <2>4. CASE Read(c)
    BY <2>4 DEF Read, NoIdlePeers, TypeOK, serverVars
  <2>5. CASE ReadEof(c)
    BY <2>5 DEF ReadEof, NoIdlePeers, TypeOK, serverVars
  <2>6. CASE ReaderEof(c)
    BY <2>6, AppendIds DEF ReaderEof, NoIdlePeers, TypeOK, serverVars
  <2> QED
    BY <1>1, <2>1, <2>2, <2>3, <2>4, <2>5, <2>6 DEF ClientStep
<1>2. ASSUME NEW c \in Conns, HandleEvent(c) PROVE NoIdlePeers'
  <2>1. PICK k : Take(k, c)
    BY <1>2 DEF HandleEvent, HandleConnect, HandleDisconnect, HandleBadHello,
       HandleHello, HandleEarly, HandleIntent, HandleEdit, HandleQuit, HandlePing,
       HandleEditorDone, HandleShutdown
  <2>2. clients' \subseteq clients \cup {c} /\ cut' \subseteq cut \cup {c}
    BY <1>2 DEF HandleEvent, HandleConnect, HandleDisconnect, HandleBadHello,
       HandleHello, HandleEarly, HandleIntent, HandleEdit, HandleQuit, HandlePing,
       HandleEditorDone, HandleShutdown, Reject, Kept, serverVars
  <2> QED
    BY <2>1, <2>2, TakeNoIdle DEF NoIdlePeers
<1>3. CASE Tick
  BY <1>3 DEF Tick, NoIdlePeers, clientVars
<1>4. CASE Exit
  BY <1>4 DEF Exit, NoIdlePeers, clientVars, serverVars
<1>5. CASE UNCHANGED vars
  BY <1>5 DEF vars, NoIdlePeers
<1> QED
  BY <1>1, <1>2, <1>3, <1>4, <1>5 DEF Next

\* What a connection is to read after a write: unchanged, or extended.
LEMMA WrittenAt ==
  ASSUME NEW box, NEW R, NEW ms, NEW c \in Conns
  PROVE  Written(box, R, ms)[c] = IF c \in R /\ Open(c) THEN box[c] \o ms ELSE box[c]
  BY DEF Written

\* A step that leaves the published snapshot and the slots alone, that adds
\* nobody to the audience and that writes no snapshot keeps the agreement.
LEMMA AgreeUnlessSnapshot ==
  ASSUME TypeOK, AttachedAgree, device' \subseteq device, last' = last,
         phase' = phase, view' = view,
         NEW R, NEW ms \in Seq(ServerMsg), \A i \in DOMAIN ms : ~IsSnapshot(ms[i]),
         outbox' = Written(outbox, R, ms)
  PROVE  AttachedAgree'
<1> SUFFICES ASSUME NEW c \in device', Open(c)
             PROVE  NewestIn(outbox'[c], view[c], last)
  BY DEF AttachedAgree, Open
<1>1. c \in Conns /\ outbox[c] \in Seq(ServerMsg) /\ NewestIn(outbox[c], view[c], last)
  BY DEF AttachedAgree, TypeOK
<1> QED
  BY <1>1, WrittenAt, NewestAfterOthers

\* The same for a step that writes nothing.
LEMMA AgreeUnlessWritten ==
  ASSUME TypeOK, AttachedAgree, device' \subseteq device,
         UNCHANGED <<last, phase, view, outbox>>
  PROVE  AttachedAgree'
  BY DEF AttachedAgree, Open

\* Messages without a payload are no snapshots.
LEMMA BareIsOther ==
  ASSUME NEW t \in BareMsgs
  PROVE  /\ <<Bare(t)>> \in Seq(ServerMsg)
         /\ \A i \in DOMAIN <<Bare(t)>> : ~IsSnapshot(<<Bare(t)>>[i])
  BY MessagesTyped DEF Bare, BareMsgs, IsSnapshot

\* A client step: only a connection that cannot be attached yet, or is over,
\* changes its state, unless a message is read.
LEMMA AgreeClientStep ==
  ASSUME TypeOK, NoIdlePeers, AttachedAgree, NEW c \in Conns, ClientStep(c)
  PROVE  AttachedAgree'
<1>1. CASE Connect(c)
  <2>1. c \notin device
    BY <1>1 DEF Connect, NoIdlePeers, TypeOK
  <2> QED
    BY <1>1, <2>1 DEF Connect, AttachedAgree, Open, TypeOK, serverVars
<1>2. ASSUME NEW m \in Menu, Send(c, m) PROVE AttachedAgree'
  BY <1>2, AgreeUnlessWritten DEF Send, serverVars
<1>3. CASE Close(c)
  BY <1>3 DEF Close, AttachedAgree, Open, TypeOK, serverVars
<1>4. CASE Read(c)
  <2> SUFFICES ASSUME NEW x \in device, Open(x)'
               PROVE  NewestIn(outbox'[x], view'[x], last)
    BY <1>4 DEF Read, AttachedAgree, serverVars
  <2>1. CASE x # c
    BY <1>4, <2>1 DEF Read, AttachedAgree, Open, TypeOK
  <2>2. CASE x = c
    <3> DEFINE m == Head(outbox[c])
    <3>1. /\ outbox[c] \in Seq(ServerMsg) /\ outbox[c] # << >>
          /\ NewestIn(outbox[c], view[c], last)
      BY <1>4, <2>2 DEF Read, AttachedAgree, TypeOK
    <3>2. /\ phase[c] = "hello" => m.type = "Welcome"
          /\ outbox'[c] = Tail(outbox[c])
          /\ view'[c] = IF phase[c] = "up" /\ m.type = "Snapshot" THEN m.arg ELSE view[c]
      BY <1>4, <2>2 DEF Read, Open, TypeOK
    <3>3. phase[c] \in {"hello", "up"}
      BY <1>4 DEF Read, Open
    <3>4. view'[c] = IF IsSnapshot(m) THEN m.arg ELSE view[c]
      BY <3>2, <3>3 DEF IsSnapshot
    <3> QED
      BY <2>2, <3>1, <3>2, <3>4, NewestAfterRead
  <2> QED
    BY <2>1, <2>2
<1>5. CASE ReadEof(c)
  BY <1>5 DEF ReadEof, AttachedAgree, Open, TypeOK, serverVars
<1>6. CASE ReaderEof(c)
  BY <1>6, AgreeUnlessWritten DEF ReaderEof, serverVars
<1> QED
  BY <1>1, <1>2, <1>3, <1>4, <1>5, <1>6 DEF ClientStep

\* A valid Hello: if the domain moved, everybody is sent the new snapshot;
\* if not, the newcomer is sent the one the others have.
LEMMA AgreeHello ==
  ASSUME TypeOK, AttachedAgree, NEW c \in Conns, HandleHello(c)
  PROVE  AttachedAgree'
<1> DEFINE joins  == c \in clients /\ Open(c)
           failed == {c} \ Kept({c})
           att    == (device \ failed) \cup (IF joins THEN {c} ELSE {})
           to     == Bootstrapped(c, att)
           hail   == Written(outbox, {c} \cap clients, <<Bare("Welcome")>>)
<1>1. /\ c \notin device
      /\ last' = dom
      /\ outbox' = Written(hail, to, <<Snapshot(dom)>>)
      /\ device' = att \ (to \ Kept(to))
      /\ phase' = phase /\ view' = view
  BY DEF HandleHello, Take, clientVars
<1> SUFFICES ASSUME NEW x \in device', Open(x)
             PROVE  NewestIn(outbox'[x], view[x], dom)
  BY <1>1 DEF AttachedAgree, Open
<1>2. x \in Conns /\ x \in att /\ dom \in Doms /\ outbox \in [Conns -> Seq(ServerMsg)]
  BY <1>1 DEF TypeOK
<1>3. hail[x] \in Seq(ServerMsg)
  <2>1. <<Bare("Welcome")>> \in Seq(ServerMsg)
    BY MessagesTyped DEF BareMsgs
  <2>2. hail \in [Conns -> Seq(ServerMsg)]
    BY <1>2, <2>1, WrittenTyped
  <2> QED
    BY <1>2, <2>2
<1>4. CASE x \in to
  <2>1. outbox'[x] = hail[x] \o <<Snapshot(dom)>>
    <3> HIDE DEF hail, to
    <3> QED
      BY <1>1, <1>2, <1>4 DEF Written
  <2> QED
    BY <1>2, <1>3, <2>1, NewestAfterSnapshot
<1>5. CASE x \notin to
  <2>1. x # c /\ x \in device
    BY <1>2, <1>5 DEF Bootstrapped, Kept, TypeOK
  <2>2. last = dom
    BY <1>2, <1>5 DEF Bootstrapped
  <2>3. outbox'[x] = outbox[x]
    <3>1. outbox'[x] = hail[x]
      BY <1>1, <1>2, <1>5, WrittenAt
    <3>2. hail[x] = outbox[x]
      BY <1>2, <2>1, WrittenAt
    <3> QED
      BY <3>1, <3>2
  <2> QED
    BY <2>1, <2>2, <2>3 DEF AttachedAgree
<1> QED
  BY <1>4, <1>5

\* The tick: session events are no snapshots, and a snapshot that is due goes
\* to all who are left.
LEMMA AgreeTick ==
  ASSUME TypeOK, AttachedAgree, Tick
  PROVE  AttachedAgree'
<1>1. PICK evs \in {<< >>, <<emitted + 1>>} :
        /\ AppStep(evs)
        /\ LET out      == pend \o evs
               heard    == IF out = << >> THEN Listeners ELSE Kept(Listeners)
               publish  == Due(heard, dom')
               streamed == Written(outbox, Listeners, [i \in DOMAIN out |-> Session(out[i])])
               stay     == IF publish THEN Kept(heard) ELSE heard
           IN  /\ last' = IF publish THEN dom' ELSE last
               /\ outbox' = IF publish THEN Written(streamed, heard, <<Snapshot(dom')>>)
                                       ELSE streamed
               /\ device' = device \ (Listeners \ stay)
  BY DEF Tick
<1> DEFINE out      == pend \o evs
           heard    == IF out = << >> THEN Listeners ELSE Kept(Listeners)
           publish  == Due(heard, dom')
           events   == [i \in DOMAIN out |-> Session(out[i])]
           streamed == Written(outbox, Listeners, events)
           stay     == IF publish THEN Kept(heard) ELSE heard
<1>2. dom' \in Doms /\ out \in Seq(Nat)
  BY <1>1, AppTyped
<1>3. events \in Seq(ServerMsg) /\ \A i \in DOMAIN events : ~IsSnapshot(events[i])
  <2>1. \A i \in DOMAIN out : Session(out[i]) \in ServerMsg /\ ~IsSnapshot(Session(out[i]))
    BY <1>2, MessagesTyped DEF Session, IsSnapshot
  <2> QED
    BY <1>2, <2>1
<1>4. phase' = phase /\ view' = view
  BY DEF Tick, clientVars
<1>5. streamed \in [Conns -> Seq(ServerMsg)]
  BY <1>3, WrittenTyped DEF TypeOK
<1>6. CASE publish
  <2> SUFFICES ASSUME NEW x \in device', Open(x)
               PROVE  NewestIn(outbox'[x], view[x], dom')
    BY <1>1, <1>4, <1>6 DEF AttachedAgree, Open
  <2>1. x \in Conns /\ x \in heard
    BY <1>1, <1>6 DEF Listeners, Kept, TypeOK
  <2>2. outbox'[x] = streamed[x] \o <<Snapshot(dom')>>
    <3>1. outbox' = Written(streamed, heard, <<Snapshot(dom')>>)
      BY <1>1, <1>6
    <3> HIDE DEF streamed, heard
    <3> QED
      BY <2>1, <3>1 DEF Written
  <2>3. streamed[x] \in Seq(ServerMsg)
    BY <1>5, <2>1
  <2> HIDE DEF streamed
  <2> QED
    BY <1>2, <2>2, <2>3, NewestAfterSnapshot
<1>7. CASE ~publish
  <2>1. outbox' = Written(outbox, Listeners, events) /\ last' = last
    BY <1>1, <1>7
  <2>2. device' \subseteq device
    BY <1>1
  <2> HIDE DEF events
  <2> QED
    BY <1>3, <1>4, <2>1, <2>2, AgreeUnlessSnapshot
<1> QED
  BY <1>6, <1>7

LEMMA AgreeStep == TypeOK /\ NoIdlePeers /\ AttachedAgree /\ [Next]_vars => AttachedAgree'
<1> SUFFICES ASSUME TypeOK, NoIdlePeers, AttachedAgree, [Next]_vars PROVE AttachedAgree'
  OBVIOUS
<1>1. ASSUME NEW c \in Conns, ClientStep(c) PROVE AttachedAgree'
  BY <1>1, AgreeClientStep
<1>2. ASSUME NEW c \in Conns, HandleEvent(c) PROVE AttachedAgree'
  <2>1. phase' = phase /\ view' = view
    BY <1>2 DEF HandleEvent, HandleConnect, HandleDisconnect, HandleBadHello,
       HandleHello, HandleEarly, HandleIntent, HandleEdit, HandleQuit, HandlePing,
       HandleEditorDone, HandleShutdown, Take, clientVars
  <2>2. CASE HandleConnect(c) \/ HandleDisconnect(c) \/ HandleIntent(c)
             \/ HandleEditorDone(c) \/ HandleShutdown(c)
    BY <2>1, <2>2, AgreeUnlessWritten DEF HandleConnect, HandleDisconnect,
       HandleIntent, HandleEditorDone, HandleShutdown, serverVars
  <2>3. CASE HandleBadHello(c) \/ HandleEarly(c)
    <3>1. Reject(c)
      BY <2>3 DEF HandleBadHello, HandleEarly
    <3>2. /\ outbox' = Written(outbox, {c} \cap clients, <<Bare("Rejected")>>)
          /\ device' \subseteq device /\ last' = last
      BY <3>1 DEF Reject
    <3>3. "Rejected" \in BareMsgs
      BY DEF BareMsgs
    <3> QED
      BY <2>1, <3>2, <3>3, BareIsOther, AgreeUnlessSnapshot
  <2>4. CASE HandleEdit(c) \/ HandleQuit(c) \/ HandlePing(c)
    <3>1. PICK t \in BareMsgs : outbox' = Written(outbox, {c}, <<Bare(t)>>)
      BY <2>4 DEF HandleEdit, HandleQuit, HandlePing, BareMsgs
    <3>2. device' \subseteq device /\ last' = last
      BY <2>4 DEF HandleEdit, HandleQuit, HandlePing
    <3> QED
      BY <2>1, <3>1, <3>2, BareIsOther, AgreeUnlessSnapshot
  <2>5. CASE HandleHello(c)
    BY <2>5, AgreeHello
  <2> QED
    BY <1>2, <2>2, <2>3, <2>4, <2>5 DEF HandleEvent
<1>3. CASE Tick
  BY <1>3, AgreeTick
<1>4. CASE Exit
  BY <1>4, AgreeUnlessWritten DEF Exit, serverVars, clientVars
<1>5. CASE UNCHANGED vars
  BY <1>5, AgreeUnlessWritten DEF vars
<1> QED
  BY <1>1, <1>2, <1>3, <1>4, <1>5 DEF Next

\* However connections come and go, the newest snapshot every attached client
\* was sent is the daemon's last one: no client is left behind by a Hello, a
\* failed write or the dedupe.
THEOREM Agreement == Spec => []AttachedAgree
<1>1. Init => TypeOK /\ NoIdlePeers /\ AttachedAgree
  BY BoundsAssumption DEF Init, TypeOK, NoIdlePeers, AttachedAgree
<1>2. TypeOK /\ NoIdlePeers /\ AttachedAgree /\ [Next]_vars
        => (TypeOK /\ NoIdlePeers /\ AttachedAgree)'
  BY TypeStep, NoIdleStep, AgreeStep
<1> QED
  BY <1>1, <1>2, PTL DEF Spec

-----------------------------------------------------------------------------
(* Connections the daemon has not greeted. *)

\* No Hello of c was answered yet: c is idle, its Connect is still in the
\* channel, or it is in the map without a handshake.
Ungreeted(c) ==
  \/ phase[c] = "idle"
  \/ \E i \in DOMAIN chan : chan[i] = [id |-> c, kind |-> "Connect"]
  \/ c \in clients \ device

\* Such a connection was sent nothing and shows nothing.
Untouched ==
  \A c \in Conns : Ungreeted(c) =>
    c \notin device /\ outbox[c] = << >> /\ view[c] = NoSnap /\ phase[c] # "up"

\* Connect is the first event of a connection.
ConnectFirst ==
  \A i, j \in DOMAIN chan : i < j /\ chan[i].id = chan[j].id => chan[j].kind # "Connect"

\* What the daemon and its connections have been through so far.
Past == TypeOK /\ NoIdlePeers /\ ConnectFirst /\ Untouched

\* The channel after an event of c was appended.
LEMMA AppendPositions ==
  ASSUME chan \in Seq(Event), NEW c \in Conns, NEW k,
         chan' = Append(chan, [id |-> c, kind |-> k])
  PROVE  \A i \in DOMAIN chan' :
           \/ i \in DOMAIN chan /\ chan'[i] = chan[i]
           \/ i = Len(chan) + 1 /\ chan'[i] = [id |-> c, kind |-> k]
  OBVIOUS

LEMMA ConnectFirstAppend ==
  ASSUME TypeOK, ConnectFirst, NEW c \in Conns, NEW k,
         chan' = Append(chan, [id |-> c, kind |-> k]),
         k = "Connect" => ~ \E i \in DOMAIN chan : chan[i].id = c
  PROVE  ConnectFirst'
<1>1. chan \in Seq(Event) /\ DOMAIN chan = 1 .. Len(chan) /\ Len(chan) \in Nat
  BY DEF TypeOK
<1>2. \A i \in DOMAIN chan' :
         \/ i \in DOMAIN chan /\ chan'[i] = chan[i]
         \/ i = Len(chan) + 1 /\ chan'[i] = [id |-> c, kind |-> k]
  BY <1>1, AppendPositions
<1> SUFFICES ASSUME NEW i \in DOMAIN chan', NEW j \in DOMAIN chan', i < j,
                    chan'[i].id = chan'[j].id
             PROVE  chan'[j].kind # "Connect"
  BY DEF ConnectFirst
<1>3. i \in DOMAIN chan /\ chan'[i] = chan[i]
  BY <1>1, <1>2
<1>4. CASE j \in DOMAIN chan /\ chan'[j] = chan[j]
  BY <1>3, <1>4 DEF ConnectFirst
<1>5. CASE chan'[j] = [id |-> c, kind |-> k]
  BY <1>3, <1>5
<1> QED
  BY <1>2, <1>4, <1>5

\* Taking an event of c leaves no Connect of c behind, and the rest in order.
LEMMA TakeInOrder ==
  ASSUME TypeOK, ConnectFirst, NEW c \in Conns, NEW k, Take(k, c)
  PROVE  /\ ConnectFirst'
         /\ \A i \in DOMAIN chan' : chan'[i] # [id |-> c, kind |-> "Connect"]
         /\ \A i \in DOMAIN chan' : \E j \in DOMAIN chan : chan'[i] = chan[j]
<1>1. chan \in Seq(Event) /\ chan # << >> /\ chan' = Tail(chan) /\ Head(chan).id = c
  BY DEF Take, TypeOK
<1>2. /\ Len(chan) \in Nat \ {0} /\ DOMAIN chan = 1 .. Len(chan) /\ Head(chan) = chan[1]
      /\ DOMAIN chan' = 1 .. Len(chan) - 1
      /\ \A i \in 1 .. Len(chan) - 1 : chan'[i] = chan[i + 1]
  BY <1>1, HeadTailProperties, LenProperties
<1>3. \A i \in DOMAIN chan' : i \in Nat /\ i + 1 \in DOMAIN chan /\ chan'[i] = chan[i + 1]
  BY <1>2
<1>4. ConnectFirst'
  BY <1>3 DEF ConnectFirst
<1>5. \A i \in DOMAIN chan' : chan'[i] # [id |-> c, kind |-> "Connect"]
  <2> SUFFICES ASSUME NEW i \in DOMAIN chan', chan'[i] = [id |-> c, kind |-> "Connect"]
               PROVE  FALSE
    OBVIOUS
  <2>1. chan[i + 1].id = c /\ chan[i + 1].kind = "Connect" /\ chan[1].id = c
    BY <1>1, <1>2, <1>3
  <2>2. 1 \in DOMAIN chan /\ i + 1 \in DOMAIN chan /\ 1 < i + 1
    BY <1>2, <1>3
  <2> QED
    BY <2>1, <2>2 DEF ConnectFirst
<1> QED
  BY <1>3, <1>4, <1>5

LEMMA ConnectFirstStep == Past /\ [Next]_vars => ConnectFirst'
<1> SUFFICES ASSUME Past, [Next]_vars PROVE ConnectFirst'
  OBVIOUS
<1>1. ASSUME NEW c \in Conns, ClientStep(c) PROVE ConnectFirst'
  <2>1. CASE Connect(c)
    BY <2>1, ConnectFirstAppend DEF Connect, Past, NoIdlePeers
  <2>2. ASSUME NEW m \in Menu, Send(c, m) PROVE ConnectFirst'
    <3>1. m # "Connect"
      BY MenuAssumption DEF ClientMsgs, Intents
    <3> QED
      BY <2>2, <3>1, ConnectFirstAppend DEF Send, Past
  <2>3. CASE Close(c) \/ Read(c) \/ ReadEof(c)
    BY <2>3 DEF Close, Read, ReadEof, Past, ConnectFirst
  <2>4. CASE ReaderEof(c)
    BY <2>4, ConnectFirstAppend DEF ReaderEof, Past
  <2> QED
    BY <1>1, <2>1, <2>2, <2>3, <2>4 DEF ClientStep
<1>2. ASSUME NEW c \in Conns, HandleEvent(c) PROVE ConnectFirst'
  <2>1. PICK k : Take(k, c)
    BY <1>2 DEF HandleEvent, HandleConnect, HandleDisconnect, HandleBadHello,
       HandleHello, HandleEarly, HandleIntent, HandleEdit, HandleQuit, HandlePing,
       HandleEditorDone, HandleShutdown
  <2> QED
    BY <2>1, TakeInOrder DEF Past
<1>3. CASE Tick
  BY <1>3 DEF Tick, Past, ConnectFirst
<1>4. CASE Exit
  BY <1>4 DEF Exit, Past, ConnectFirst
<1>5. CASE UNCHANGED vars
  BY <1>5 DEF vars, Past, ConnectFirst
<1> QED
  BY <1>1, <1>2, <1>3, <1>4, <1>5 DEF Next

\* The event of c that is taken leaves the other connections as they are: it
\* greets nobody else, writes nothing to whom it had not greeted, and takes
\* out of the map whoever it takes out of the audience.
Undisturbed(c) ==
  /\ \A x \in Conns \ {c} : x \notin device =>
       x \notin device' /\ outbox'[x] = outbox[x] /\ (x \in clients' => x \in clients)
  /\ \A x \in Conns \ {c} : x \in device /\ x \notin device' => x \notin clients'
  /\ c \in clients' /\ c \notin device' => Ungreeted(c) /\ outbox'[c] = outbox[c]

LEMMA UntouchedHandled ==
  ASSUME Past, NEW c \in Conns, NEW k, Take(k, c), Undisturbed(c)
  PROVE  Untouched'
<1>1. /\ \A i \in DOMAIN chan' : chan'[i] # [id |-> c, kind |-> "Connect"]
      /\ \A i \in DOMAIN chan' : \E j \in DOMAIN chan : chan'[i] = chan[j]
  BY TakeInOrder DEF Past
<1>2. phase' = phase /\ view' = view /\ phase[c] # "idle"
  BY TakeNoIdle DEF Past, Take, clientVars
<1> SUFFICES ASSUME NEW x \in Conns, Ungreeted(x)'
             PROVE  x \notin device' /\ outbox'[x] = << >> /\ view'[x] = NoSnap /\ phase'[x] # "up"
  BY DEF Untouched
<1>3. CASE x = c
  <2>1. c \in clients' /\ c \notin device'
    BY <1>1, <1>2, <1>3 DEF Ungreeted
  <2> QED
    BY <1>2, <1>3, <2>1 DEF Undisturbed, Past, Untouched
<1>4. CASE x # c
  <2>1. Ungreeted(x)
    BY <1>1, <1>2, <1>4 DEF Ungreeted, Undisturbed
  <2>2. x \notin device /\ outbox[x] = << >> /\ view[x] = NoSnap /\ phase[x] # "up"
    BY <2>1 DEF Past, Untouched
  <2> QED
    BY <1>2, <1>4, <2>2 DEF Undisturbed
<1> QED
  BY <1>3, <1>4

\* The audience a Hello of c leaves, and what is written.
LEMMA HelloEffect ==
  ASSUME TypeOK, NEW c \in Conns, HandleHello(c)
  PROVE  /\ c \notin device
         /\ \A x \in Conns \ {c} :
              /\ x \notin device => x \notin device' /\ outbox'[x] = outbox[x]
              /\ x \in clients' => x \in clients
              /\ x \in device /\ x \notin device' => x \notin clients' /\ ~Open(x)
              /\ x \in device /\ Open(x) =>
                   /\ x \in device'
                   /\ outbox'[x] = IF last # dom THEN outbox[x] \o <<Snapshot(dom)>> ELSE outbox[x]
         /\ c \in clients /\ Open(c) =>
              /\ c \in device'
              /\ outbox'[c] = (outbox[c] \o <<Bare("Welcome")>>) \o <<Snapshot(dom)>>
         /\ ~(c \in clients /\ Open(c)) =>
              c \notin device' /\ c \notin clients' /\ outbox'[c] = outbox[c]
<1> DEFINE joins  == c \in clients /\ Open(c)
           failed == {c} \ Kept({c})
           att    == (device \ failed) \cup (IF joins THEN {c} ELSE {})
           to     == Bootstrapped(c, att)
           hail   == Written(outbox, {c} \cap clients, <<Bare("Welcome")>>)
<1>1. /\ c \notin device
      /\ outbox' = Written(hail, to, <<Snapshot(dom)>>)
      /\ device' = att \ (to \ Kept(to))
      /\ clients' = (clients \ failed) \ (to \ Kept(to))
  BY DEF HandleHello
<1>2. device \subseteq clients /\ clients \subseteq Conns
  BY DEF TypeOK
<1>3. \A x \in Conns : hail[x] = IF x \in {c} \cap clients /\ Open(x)
                                 THEN outbox[x] \o <<Bare("Welcome")>> ELSE outbox[x]
  BY WrittenAt
<1>4. \A x \in Conns : outbox'[x] = IF x \in to /\ Open(x)
                                    THEN hail[x] \o <<Snapshot(dom)>> ELSE hail[x]
  <2> HIDE DEF hail, to
  <2> QED
    BY <1>1, WrittenAt
<1>5. to = IF last # dom THEN att ELSE {c} \cap clients
  BY DEF Bootstrapped
<1>6. \A x : x \in Kept(to) <=> x \in to /\ Open(x)
  BY DEF Kept
<1>7. failed = IF Open(c) THEN {} ELSE {c}
  BY DEF Kept
<1> HIDE DEF hail, to, failed
<1>8. ASSUME NEW x \in Conns \ {c}
      PROVE  /\ x \notin device => x \notin device' /\ outbox'[x] = outbox[x]
             /\ x \in clients' => x \in clients
             /\ x \in device /\ x \notin device' => x \notin clients' /\ ~Open(x)
             /\ x \in device /\ Open(x) =>
                  /\ x \in device'
                  /\ outbox'[x] = IF last # dom THEN outbox[x] \o <<Snapshot(dom)>> ELSE outbox[x]
  <2>1. x \in att <=> x \in device
    BY <1>7
  <2>2. x \in to => x \in device
    BY <1>5, <2>1
  <2>3. hail[x] = outbox[x]
    BY <1>3
  <2>4. x \notin device => x \notin device' /\ outbox'[x] = outbox[x]
    BY <1>1, <1>4, <2>1, <2>2, <2>3
  <2>5. x \in clients' => x \in clients
    BY <1>1
  <2>6. x \in device /\ x \notin device' => x \notin clients' /\ ~Open(x)
    BY <1>1, <1>6, <2>1
  <2>7. x \in device /\ Open(x) => x \in device'
    BY <1>1, <1>6, <2>1
  <2>8. x \in device /\ Open(x) =>
          outbox'[x] = IF last # dom THEN outbox[x] \o <<Snapshot(dom)>> ELSE outbox[x]
    BY <1>4, <1>5, <2>1, <2>3
  <2> QED
    BY <2>4, <2>5, <2>6, <2>7, <2>8
<1>9. CASE joins
  <2>1. c \in to
    BY <1>5, <1>9
  <2>2. c \in device'
    BY <1>1, <1>6, <1>9, <2>1
  <2>3. outbox'[c] = (outbox[c] \o <<Bare("Welcome")>>) \o <<Snapshot(dom)>>
    BY <1>3, <1>4, <1>9, <2>1
  <2> QED
    BY <1>1, <1>8, <1>9, <2>2, <2>3
<1>10. CASE ~joins
  <2>1. c \notin att
    BY <1>1, <1>10
  <2>2. hail[c] = outbox[c]
    BY <1>3, <1>10
  <2>3. outbox'[c] = outbox[c]
    BY <1>4, <1>5, <1>10, <2>1, <2>2
  <2>4. c \notin clients'
    BY <1>1, <1>7, <1>10
  <2> QED
    BY <1>1, <1>8, <1>10, <2>1, <2>3, <2>4
<1> QED
  BY <1>9, <1>10

\* A refusal of c.
LEMMA RejectEffect ==
  ASSUME TypeOK, NEW c \in Conns, Reject(c)
  PROVE  /\ \A x \in Conns \ {c} :
              outbox'[x] = outbox[x] /\ (x \in device' <=> x \in device)
                /\ (x \in clients' <=> x \in clients)
         /\ c \notin device' /\ c \notin clients'
         /\ outbox'[c] = IF c \in clients /\ Open(c)
                           THEN outbox[c] \o <<Bare("Rejected")>> ELSE outbox[c]
<1>1. outbox' = Written(outbox, {c} \cap clients, <<Bare("Rejected")>>)
  BY DEF Reject
<1> QED
  BY <1>1, WrittenAt DEF Reject

\* An answer to c alone.
LEMMA ReplyEffect ==
  ASSUME TypeOK, NEW c \in device, NEW t, Replied(c, t)
  PROVE  /\ \A x \in Conns \ {c} :
              outbox'[x] = outbox[x] /\ (x \in device' <=> x \in device)
                /\ (x \in clients' <=> x \in clients)
         /\ c \in clients' => c \in device'
         /\ outbox'[c] = IF Open(c) THEN outbox[c] \o <<Bare(t)>> ELSE outbox[c]
<1>1. outbox' = Written(outbox, {c}, <<Bare(t)>>) /\ c \in Conns
  BY DEF Replied, TypeOK
<1>2. \A x \in Conns : outbox'[x] = IF x \in {c} /\ Open(x)
                                    THEN outbox[x] \o <<Bare(t)>> ELSE outbox[x]
  BY <1>1, WrittenAt
<1> QED
  BY <1>1, <1>2 DEF Replied, TypeOK, Kept

\* The messages that carry the session events out.
Carried(out) == [i \in DOMAIN out |-> Session(out[i])]

\* A tick that emitted evs: those in the audience that are still there are sent
\* the pending events and then, if the domain moved, the snapshot.
TickWith(evs) ==
  /\ evs \in {<< >>, <<emitted + 1>>}
  /\ AppStep(evs)
  /\ \A x \in Conns :
       /\ x \notin device => x \notin device' /\ outbox'[x] = outbox[x]
       /\ x \notin device => (x \in clients' <=> x \in clients)
       /\ x \in device /\ ~Open(x) => (x \in clients' => x \in device')
       /\ x \in device /\ Open(x) =>
            /\ x \in device' /\ last' = dom'
            /\ outbox'[x] = IF last # dom'
                              THEN (outbox[x] \o Carried(pend \o evs)) \o <<Snapshot(dom')>>
                              ELSE outbox[x] \o Carried(pend \o evs)
       /\ ~Open(x) => outbox'[x] = outbox[x]
  /\ device' \subseteq device
  /\ last' = last \/ last' = dom'

LEMMA TickEffect ==
  ASSUME TypeOK, Tick
  PROVE  \E evs : TickWith(evs)
<1>1. PICK evs \in {<< >>, <<emitted + 1>>} :
        /\ AppStep(evs)
        /\ LET out      == pend \o evs
               heard    == IF out = << >> THEN Listeners ELSE Kept(Listeners)
               publish  == Due(heard, dom')
               streamed == Written(outbox, Listeners, [i \in DOMAIN out |-> Session(out[i])])
               stay     == IF publish THEN Kept(heard) ELSE heard
           IN  /\ last' = IF publish THEN dom' ELSE last
               /\ outbox' = IF publish THEN Written(streamed, heard, <<Snapshot(dom')>>)
                                       ELSE streamed
               /\ device' = device \ (Listeners \ stay)
               /\ clients' = clients \ (Listeners \ stay)
  BY DEF Tick
<1> DEFINE out      == pend \o evs
           heard    == IF out = << >> THEN Listeners ELSE Kept(Listeners)
           publish  == Due(heard, dom')
           events   == Carried(out)
           streamed == Written(outbox, Listeners, events)
           stay     == IF publish THEN Kept(heard) ELSE heard
<1>2. /\ last' = IF publish THEN dom' ELSE last
      /\ outbox' = IF publish THEN Written(streamed, heard, <<Snapshot(dom')>>) ELSE streamed
      /\ device' = device \ (device \ stay)
      /\ clients' = clients \ (device \ stay)
  BY <1>1 DEF Carried, Listeners
<1>3. \A x : (x \in heard => x \in device) /\ (x \in device /\ Open(x) => x \in heard)
  BY DEF Listeners, Kept
<1>4. \A x : (x \in stay => x \in heard) /\ (x \in heard /\ Open(x) => x \in stay)
  BY DEF Kept
<1>5. publish <=> heard # {} /\ last # dom'
  BY DEF Due
<1>6. \A x \in Conns : streamed[x] = IF x \in device /\ Open(x) THEN outbox[x] \o events
                                                               ELSE outbox[x]
  BY WrittenAt DEF Listeners
<1> HIDE DEF out, heard, publish, events, streamed, stay
<1>7. \A x \in Conns : publish =>
        outbox'[x] = IF x \in heard /\ Open(x) THEN streamed[x] \o <<Snapshot(dom')>>
                                               ELSE streamed[x]
  BY <1>2, WrittenAt
<1>8. \A x \in Conns : ~publish => outbox'[x] = streamed[x]
  BY <1>2
<1>9. device \subseteq clients
  BY DEF TypeOK
<1>10. ASSUME NEW x \in Conns
       PROVE  /\ x \notin device => x \notin device' /\ outbox'[x] = outbox[x]
              /\ x \notin device => (x \in clients' <=> x \in clients)
              /\ x \in device /\ ~Open(x) => (x \in clients' => x \in device')
              /\ x \in device /\ Open(x) =>
                   /\ x \in device' /\ last' = dom'
                   /\ outbox'[x] = IF last # dom' THEN (outbox[x] \o events) \o <<Snapshot(dom')>>
                                                  ELSE outbox[x] \o events
              /\ ~Open(x) => outbox'[x] = outbox[x]
  <2>1. x \notin device => x \notin device' /\ (x \in clients' <=> x \in clients)
    BY <1>2
  <2>2. x \notin device \/ ~Open(x) => outbox'[x] = outbox[x]
    BY <1>3, <1>6, <1>7, <1>8
  <2>3. x \in device /\ ~Open(x) => (x \in clients' => x \in device')
    BY <1>2
  <2>4. CASE x \in device /\ Open(x)
    <3>1. x \in heard /\ x \in stay /\ x \in device'
      BY <1>2, <1>3, <1>4, <2>4
    <3>2. publish <=> last # dom'
      BY <1>5, <3>1
    <3>3. last' = dom'
      BY <1>2, <3>2
    <3>4. streamed[x] = outbox[x] \o events
      BY <1>6, <2>4
    <3>5. outbox'[x] = IF last # dom' THEN (outbox[x] \o events) \o <<Snapshot(dom')>>
                                      ELSE outbox[x] \o events
      BY <1>7, <1>8, <2>4, <3>1, <3>2, <3>4
    <3> QED
      BY <2>4, <3>1, <3>3, <3>5
  <2> QED
    BY <2>1, <2>2, <2>3, <2>4
<1>11. device' \subseteq device /\ (last' = last \/ last' = dom')
  BY <1>2
<1>12. TickWith(evs)
  BY <1>1, <1>10, <1>11 DEF TickWith, out, events
<1> QED
  BY <1>12

\* A client step changes nothing for the connections the daemon has not
\* greeted, the newcomer apart.
LEMMA UntouchedClient ==
  ASSUME Past, NEW c \in Conns, ClientStep(c)
  PROVE  Untouched'
<1>1. TypeOK /\ Untouched
  BY DEF Past
<1>2. clients' = clients /\ device' = device
  BY DEF ClientStep, Connect, Send, Close, Read, ReadEof, ReaderEof, serverVars
<1>3. \A x \in Conns \ {c} :
        phase'[x] = phase[x] /\ outbox'[x] = outbox[x] /\ view'[x] = view[x]
  BY <1>1 DEF ClientStep, Connect, Send, Close, Read, ReadEof, ReaderEof, TypeOK
<1>4. \A x \in Conns \ {c} : Ungreeted(x)' => Ungreeted(x)
  <2>1. CASE chan' = chan
    BY <1>2, <1>3, <2>1 DEF Ungreeted
  <2>2. CASE \E k : chan' = Append(chan, [id |-> c, kind |-> k])
    <3>1. chan \in Seq(Event)
      BY <1>1 DEF TypeOK
    <3> QED
      BY <1>2, <1>3, <2>2, <3>1, AppendPositions DEF Ungreeted
  <2> QED
    BY <2>1, <2>2 DEF ClientStep, Connect, Send, Close, Read, ReadEof, ReaderEof
<1>5. ASSUME Ungreeted(c)'
      PROVE  c \notin device /\ outbox'[c] = << >> /\ view'[c] = NoSnap /\ phase'[c] # "up"
  <2>1. CASE Connect(c)
    <3>1. Ungreeted(c)
      BY <2>1 DEF Connect, Ungreeted
    <3> QED
      BY <1>1, <2>1, <3>1 DEF Connect, Untouched, TypeOK
  <2>2. ASSUME NEW k, chan' = Append(chan, [id |-> c, kind |-> k]), k # "Connect",
               UNCHANGED <<phase, outbox, view>>
        PROVE  c \notin device /\ outbox'[c] = << >> /\ view'[c] = NoSnap /\ phase'[c] # "up"
    <3>1. chan \in Seq(Event)
      BY <1>1 DEF TypeOK
    <3>2. Ungreeted(c)
      BY <1>2, <1>5, <2>2, <3>1, AppendPositions DEF Ungreeted
    <3> QED
      BY <1>1, <2>2, <3>2 DEF Untouched
  <2>3. ASSUME NEW m \in Menu, Send(c, m)
        PROVE  c \notin device /\ outbox'[c] = << >> /\ view'[c] = NoSnap /\ phase'[c] # "up"
    <3>1. m # "Connect"
      BY MenuAssumption DEF ClientMsgs, Intents
    <3> QED
      BY <2>2, <2>3, <3>1 DEF Send
  <2>4. CASE ReaderEof(c)
    BY <2>2, <2>4 DEF ReaderEof
  <2>5. CASE Close(c) \/ Read(c) \/ ReadEof(c)
    <3>1. chan' = chan /\ phase[c] # "idle" /\ phase'[c] # "idle"
      BY <1>1, <2>5 DEF Close, Read, ReadEof, Open, TypeOK
    <3>2. Ungreeted(c)
      BY <1>2, <1>5, <3>1 DEF Ungreeted
    <3>3. c \notin device /\ outbox[c] = << >> /\ view[c] = NoSnap
      BY <1>1, <3>2 DEF Untouched
    <3> QED
      BY <1>1, <2>5, <3>3 DEF Close, Read, ReadEof, TypeOK
  <2> QED
    BY <2>1, <2>3, <2>4, <2>5 DEF ClientStep
<1> SUFFICES ASSUME NEW x \in Conns, Ungreeted(x)'
             PROVE  x \notin device' /\ outbox'[x] = << >> /\ view'[x] = NoSnap /\ phase'[x] # "up"
  BY DEF Untouched
<1>6. CASE x = c
  BY <1>2, <1>5, <1>6
<1>7. CASE x # c
  BY <1>1, <1>2, <1>3, <1>4, <1>7 DEF Untouched
<1> QED
  BY <1>6, <1>7

LEMMA UntouchedStep == Past /\ [Next]_vars => Untouched'
<1> SUFFICES ASSUME Past, [Next]_vars PROVE Untouched'
  OBVIOUS
<1>1. ASSUME NEW c \in Conns, ClientStep(c) PROVE Untouched'
  BY <1>1, UntouchedClient
<1>2. ASSUME NEW c \in Conns, HandleEvent(c) PROVE Untouched'
  <2>1. TypeOK /\ device \subseteq clients
    BY DEF Past, TypeOK
  <2>2. CASE HandleConnect(c)
    <3>1. chan \in Seq(Event) /\ chan # << >> /\ Head(chan) = [id |-> c, kind |-> "Connect"]
      BY <2>1, <2>2 DEF HandleConnect, Take, TypeOK
    <3>2. 1 \in DOMAIN chan /\ chan[1] = [id |-> c, kind |-> "Connect"]
      BY <3>1, HeadTailProperties, LenProperties
    <3>3. Ungreeted(c)
      BY <3>2 DEF Ungreeted
    <3>4. Undisturbed(c)
      BY <2>2, <3>3 DEF HandleConnect, Undisturbed
    <3> QED
      BY <2>2, <3>4, UntouchedHandled DEF HandleConnect
  <2>3. CASE HandleDisconnect(c)
    <3>1. Undisturbed(c)
      BY <2>3 DEF HandleDisconnect, Undisturbed
    <3> QED
      BY <2>3, <3>1, UntouchedHandled DEF HandleDisconnect
  <2>4. CASE HandleBadHello(c) \/ HandleEarly(c)
    <3>1. Reject(c) /\ \E k : Take(k, c)
      BY <2>4 DEF HandleBadHello, HandleEarly
    <3>2. Undisturbed(c)
      BY <2>1, <3>1, RejectEffect DEF Undisturbed
    <3> QED
      BY <3>1, <3>2, UntouchedHandled
  <2>5. CASE HandleHello(c)
    <3>1. Undisturbed(c)
      BY <2>1, <2>5, HelloEffect DEF Undisturbed
    <3> QED
      BY <2>5, <3>1, UntouchedHandled DEF HandleHello
  <2>6. CASE HandleIntent(c) \/ HandleEditorDone(c) \/ HandleShutdown(c)
    <3>1. (\E k : Take(k, c)) /\ UNCHANGED <<clients, device, outbox>>
      BY <2>6 DEF HandleIntent, HandleEditorDone, HandleShutdown, serverVars
    <3>2. Undisturbed(c)
      BY <2>1, <3>1 DEF Undisturbed, Ungreeted
    <3> QED
      BY <3>1, <3>2, UntouchedHandled
  <2>7. CASE HandleEdit(c) \/ HandleQuit(c) \/ HandlePing(c)
    <3>1. PICK t : Replied(c, t)
      BY <2>7 DEF HandleEdit, HandleQuit, HandlePing, Replied
    <3>2. c \in device /\ \E k : Take(k, c)
      BY <2>7 DEF HandleEdit, HandleQuit, HandlePing
    <3>3. Undisturbed(c)
      BY <2>1, <3>1, <3>2, ReplyEffect DEF Undisturbed
    <3> QED
      BY <3>2, <3>3, UntouchedHandled
  <2> QED
    BY <1>2, <2>2, <2>3, <2>4, <2>5, <2>6, <2>7 DEF HandleEvent
<1>3. CASE Tick
  <2>1. PICK evs : TickWith(evs)
    BY <1>3, TickEffect DEF Past
  <2>2. UNCHANGED <<chan, phase, view>>
    BY <1>3 DEF Tick, clientVars
  <2>3. \A x \in Conns : Ungreeted(x)' => Ungreeted(x)
    BY <2>1, <2>2 DEF Ungreeted, TickWith
  <2> QED
    BY <2>1, <2>2, <2>3 DEF Past, Untouched, TickWith
<1>4. CASE Exit
  BY <1>4 DEF Exit, Past, Untouched, Ungreeted, clientVars, serverVars
<1>5. CASE UNCHANGED vars
  BY <1>5 DEF vars, Past, Untouched, Ungreeted
<1> QED
  BY <1>1, <1>2, <1>3, <1>4, <1>5 DEF Next

LEMMA PastStep == Past /\ [Next]_vars => Past'
  BY TypeStep, NoIdleStep, ConnectFirstStep, UntouchedStep DEF Past

LEMMA PastInit == Init => Past
  BY BoundsAssumption
     DEF Init, Past, TypeOK, NoIdlePeers, ConnectFirst, Untouched

-----------------------------------------------------------------------------
(* The stream of messages to one connection. *)

\* StreamWellFormed for the queue q of a connection in phase ph.
Shape(q, ph) ==
  \A i \in DOMAIN q :
    /\ ph = "hello" /\ i = 1 => q[i].type \in {"Welcome", "Rejected"}
    /\ q[i].type = "Welcome" => ph = "hello" /\ i = 1 /\ Len(q) >= 2 /\ IsSnapshot(q[2])
    /\ q[i].type \in {"Rejected", "Detach"} => i = Len(q)

\* No message of q is a last one.
Unsealed(q) == \A i \in DOMAIN q : q[i].type \notin {"Rejected", "Detach"}

\* A message that may come at any point after the verdict.
Plain(m) == m.type \in {"Snapshot", "Session", "RunEditor", "Pong"}

\* Every stream is well formed, and that of an attached client goes on: it is
\* not sealed, and its Welcome is not read yet while it is in hello().
Streams ==
  \A c \in Conns :
    /\ Shape(outbox[c], phase[c])
    /\ c \in device => Unsealed(outbox[c]) /\ (phase[c] = "hello" => outbox[c] # << >>)

LEMMA StreamsWellFormed == Streams => StreamWellFormed
  BY DEF Streams, StreamWellFormed, Shape, Unsealed

\* The positions of a queue that was extended.
LEMMA Extended ==
  ASSUME NEW S, NEW q \in Seq(S), NEW ms \in Seq(S)
  PROVE  /\ q \o ms \in Seq(S) /\ Len(q \o ms) = Len(q) + Len(ms)
         /\ \A i \in DOMAIN q : i \in DOMAIN (q \o ms) /\ (q \o ms)[i] = q[i]
         /\ \A i \in DOMAIN (q \o ms) :
              i \in DOMAIN q \/ (i > Len(q) /\ i - Len(q) \in DOMAIN ms /\ (q \o ms)[i] = ms[i - Len(q)])
<1>1. /\ Len(q) \in Nat /\ Len(ms) \in Nat
      /\ DOMAIN q = 1 .. Len(q) /\ DOMAIN ms = 1 .. Len(ms)
  OBVIOUS
<1>2. /\ DOMAIN (q \o ms) = 1 .. Len(q) + Len(ms)
      /\ Len(q \o ms) = Len(q) + Len(ms)
      /\ \A i \in 1 .. Len(q) + Len(ms) :
           (q \o ms)[i] = IF i <= Len(q) THEN q[i] ELSE ms[i - Len(q)]
  BY ConcatProperties
<1>3. q \o ms \in Seq(S)
  OBVIOUS
<1> QED
  BY <1>1, <1>2, <1>3

\* Plain messages extend the stream of an attached client, and one last message
\* seals it.
LEMMA StreamExtended ==
  ASSUME NEW q \in Seq(ServerMsg), NEW ms \in Seq(ServerMsg), NEW ph,
         Shape(q, ph), Unsealed(q), ph = "hello" => q # << >>,
         \A i \in DOMAIN ms : Plain(ms[i])
  PROVE  Shape(q \o ms, ph) /\ Unsealed(q \o ms) /\ (ph = "hello" => q \o ms # << >>)
<1>1. /\ Len(q) \in Nat /\ Len(ms) \in Nat /\ DOMAIN q = 1 .. Len(q)
      /\ Len(q \o ms) = Len(q) + Len(ms)
      /\ \A i \in DOMAIN q : i \in DOMAIN (q \o ms) /\ (q \o ms)[i] = q[i]
      /\ \A i \in DOMAIN (q \o ms) :
           i \in DOMAIN q \/ (i > Len(q) /\ i - Len(q) \in DOMAIN ms /\ (q \o ms)[i] = ms[i - Len(q)])
  BY Extended
<1>2. ASSUME NEW i \in DOMAIN (q \o ms), i \notin DOMAIN q
      PROVE  i > Len(q) /\ Plain((q \o ms)[i])
  BY <1>1, <1>2
<1>3. Unsealed(q \o ms)
  BY <1>1, <1>2 DEF Unsealed, Plain
<1>4. ph = "hello" => Len(q) > 0
  BY <1>1
<1>5. Shape(q \o ms, ph)
  <2> SUFFICES ASSUME NEW i \in DOMAIN (q \o ms)
               PROVE  /\ ph = "hello" /\ i = 1 => (q \o ms)[i].type \in {"Welcome", "Rejected"}
                      /\ (q \o ms)[i].type = "Welcome" =>
                           ph = "hello" /\ i = 1 /\ Len(q \o ms) >= 2 /\ IsSnapshot((q \o ms)[2])
    BY <1>3 DEF Shape, Unsealed
  <2>1. CASE i \in DOMAIN q
    <3>1. (q \o ms)[i] = q[i]
      BY <1>1, <2>1
    <3>2. q[i].type = "Welcome" =>
            ph = "hello" /\ i = 1 /\ Len(q) >= 2 /\ IsSnapshot(q[2])
      BY <2>1 DEF Shape
    <3>3. Len(q) >= 2 => (q \o ms)[2] = q[2] /\ Len(q \o ms) >= 2
      BY <1>1
    <3>4. ph = "hello" /\ i = 1 => q[i].type \in {"Welcome", "Rejected"}
      BY <2>1 DEF Shape
    <3> QED
      BY <3>1, <3>2, <3>3, <3>4
  <2>2. CASE i \notin DOMAIN q
    <3>1. i > Len(q) /\ Plain((q \o ms)[i])
      BY <1>2, <2>2
    <3> QED
      BY <1>4, <3>1 DEF Plain
  <2> QED
    BY <2>1, <2>2
<1>6. ph = "hello" => q \o ms # << >>
  <2>1. ph = "hello" => Len(q \o ms) > 0
    BY <1>1, <1>4
  <2>2. Len(<< >>) = 0
    OBVIOUS
  <2> QED
    BY <2>1, <2>2
<1> QED
  BY <1>3, <1>5, <1>6

LEMMA StreamSealed ==
  ASSUME NEW q \in Seq(ServerMsg), NEW ph, NEW t \in {"Rejected", "Detach"},
         Shape(q, ph), Unsealed(q), ph = "hello" => q # << >>
  PROVE  Shape(q \o <<Bare(t)>>, ph)
<1> DEFINE ms == <<Bare(t)>>
<1>1. ms \in Seq(ServerMsg) /\ Len(ms) = 1 /\ ms[1].type = t /\ DOMAIN ms = {1}
  BY MessagesTyped DEF BareMsgs, Bare
<1> HIDE DEF ms
<1>2. /\ Len(q) \in Nat /\ DOMAIN q = 1 .. Len(q)
      /\ Len(q \o ms) = Len(q) + 1
      /\ \A i \in DOMAIN q : i \in DOMAIN (q \o ms) /\ (q \o ms)[i] = q[i]
      /\ \A i \in DOMAIN (q \o ms) :
           i \in DOMAIN q \/ (i > Len(q) /\ i - Len(q) \in DOMAIN ms /\ (q \o ms)[i] = ms[i - Len(q)])
  BY <1>1, Extended
<1>3. ASSUME NEW i \in DOMAIN (q \o ms)
      PROVE  /\ ph = "hello" /\ i = 1 => (q \o ms)[i].type \in {"Welcome", "Rejected"}
             /\ (q \o ms)[i].type = "Welcome" =>
                  ph = "hello" /\ i = 1 /\ Len(q \o ms) >= 2 /\ IsSnapshot((q \o ms)[2])
             /\ (q \o ms)[i].type \in {"Rejected", "Detach"} => i = Len(q \o ms)
  <2>1. CASE i \in DOMAIN q
    <3>1. (q \o ms)[i] = q[i]
      BY <1>2, <2>1
    <3>2. /\ ph = "hello" /\ i = 1 => q[i].type \in {"Welcome", "Rejected"}
          /\ q[i].type = "Welcome" => ph = "hello" /\ i = 1 /\ Len(q) >= 2 /\ IsSnapshot(q[2])
          /\ q[i].type \notin {"Rejected", "Detach"}
      BY <2>1 DEF Shape, Unsealed
    <3>3. Len(q) >= 2 => (q \o ms)[2] = q[2] /\ Len(q \o ms) >= 2
      BY <1>2
    <3> QED
      BY <3>1, <3>2, <3>3
  <2>2. CASE i \notin DOMAIN q
    <3>1. i > Len(q) /\ i - Len(q) = 1 /\ (q \o ms)[i].type = t
      BY <1>1, <1>2, <2>2
    <3>2. ph = "hello" => Len(q) > 0
      BY <1>2
    <3>3. i = Len(q) + 1
      BY <1>2, <3>1, <2>2
    <3> QED
      BY <1>2, <3>1, <3>2, <3>3
  <2> QED
    BY <2>1, <2>2
<1>4. Shape(q \o ms, ph)
  BY <1>3 DEF Shape
<1> QED
  BY <1>4 DEF ms

\* The first messages of a connection: a refusal, or Welcome and the state.
LEMMA StreamRefused ==
  ASSUME NEW ph
  PROVE  Shape(<< >> \o <<Bare("Rejected")>>, ph)
<1>1. << >> \o <<Bare("Rejected")>> = <<Bare("Rejected")>>
  OBVIOUS
<1> DEFINE r == <<Bare("Rejected")>>
<1>2. Len(r) = 1 /\ DOMAIN r = {1} /\ r[1].type = "Rejected"
  BY DEF Bare
<1> HIDE DEF r
<1>3. ASSUME NEW i \in DOMAIN r
      PROVE  i = Len(r) /\ r[i].type = "Rejected" /\ r[i].type # "Welcome"
  BY <1>2
<1>4. Shape(r, ph)
  BY <1>3 DEF Shape
<1> QED
  BY <1>1, <1>4 DEF r

LEMMA StreamWelcomed ==
  ASSUME NEW d \in Doms
  PROVE  LET q == (<< >> \o <<Bare("Welcome")>>) \o <<Snapshot(d)>>
         IN  q \in Seq(ServerMsg) /\ Shape(q, "hello") /\ Unsealed(q) /\ q # << >>
<1> DEFINE r == <<Bare("Welcome")>> \o <<Snapshot(d)>>
<1>1. << >> \o <<Bare("Welcome")>> = <<Bare("Welcome")>>
  OBVIOUS
<1>2. <<Bare("Welcome")>> \in Seq(ServerMsg) /\ <<Snapshot(d)>> \in Seq(ServerMsg)
  BY MessagesTyped DEF BareMsgs
<1>3. /\ r \in Seq(ServerMsg) /\ Len(r) = 2 /\ DOMAIN r = 1 .. 2
      /\ r[1] = Bare("Welcome") /\ r[2] = Snapshot(d)
  BY <1>2, ConcatProperties
<1> HIDE DEF r
<1>4. r[1].type = "Welcome" /\ r[2].type = "Snapshot"
  BY <1>3 DEF Bare, Snapshot
<1>5. DOMAIN r = {1, 2} /\ r # << >>
  <2>1. 1 .. 2 = {1, 2}
    OBVIOUS
  <2>2. DOMAIN r = {1, 2}
    BY <1>3, <2>1, Zenon
  <2>3. r # << >>
    <3> SUFFICES ASSUME r = << >> PROVE FALSE
      OBVIOUS
    <3>1. Len(r) = 0
      OBVIOUS
    <3> QED
      BY <1>3, <3>1
  <2> QED
    BY <2>2, <2>3
<1>6. Unsealed(r)
  BY <1>4, <1>5 DEF Unsealed
<1>7. Shape(r, "hello")
  BY <1>3, <1>4, <1>5 DEF Shape, IsSnapshot
<1> QED
  BY <1>1, <1>3, <1>5, <1>6, <1>7 DEF r

\* Reading on.
LEMMA StreamRead ==
  ASSUME NEW q \in Seq(ServerMsg), q # << >>, NEW ph, Shape(q, ph)
  PROVE  Shape(Tail(q), "up") /\ (Unsealed(q) => Unsealed(Tail(q)))
<1>1. /\ Len(q) \in Nat \ {0} /\ DOMAIN q = 1 .. Len(q)
      /\ DOMAIN Tail(q) = 1 .. Len(q) - 1 /\ Len(Tail(q)) = Len(q) - 1
      /\ \A i \in 1 .. Len(q) - 1 : Tail(q)[i] = q[i + 1]
  BY HeadTailProperties, LenProperties
<1>2. \A i \in DOMAIN Tail(q) : i \in Nat \ {0} /\ i + 1 \in DOMAIN q /\ Tail(q)[i] = q[i + 1]
  BY <1>1
<1>3. Shape(Tail(q), "up")
  <2> SUFFICES ASSUME NEW i \in DOMAIN Tail(q)
               PROVE  /\ Tail(q)[i].type # "Welcome"
                      /\ Tail(q)[i].type \in {"Rejected", "Detach"} => i = Len(Tail(q))
    BY DEF Shape
  <2>1. i \in Nat \ {0} /\ i + 1 \in DOMAIN q /\ Tail(q)[i] = q[i + 1]
    BY <1>2
  <2>2. PICK j : j \in DOMAIN q /\ j = i + 1 /\ Tail(q)[i] = q[j]
    BY <2>1
  <2>3. /\ q[j].type = "Welcome" => j = 1
        /\ q[j].type \in {"Rejected", "Detach"} => j = Len(q)
    BY <2>2 DEF Shape
  <2> DEFINE m == Len(q)
             n == Len(Tail(q))
  <2>4. i \in Nat \ {0} /\ j = i + 1 /\ m \in Nat /\ n = m - 1
    BY <1>1, <2>1, <2>2
  <2> HIDE DEF m, n
  <2>5. j # 1
    BY <2>4
  <2>6. j = m => i = n
    BY <2>4
  <2> USE DEF m, n
  <2> QED
    BY <2>2, <2>3, <2>5, <2>6
<1>4. Unsealed(q) => Unsealed(Tail(q))
  BY <1>2 DEF Unsealed
<1> QED
  BY <1>3, <1>4

\* What the tick sends is plain.
LEMMA CarriedPlain ==
  ASSUME NEW out \in Seq(Nat)
  PROVE  /\ Carried(out) \in Seq(ServerMsg) /\ DOMAIN Carried(out) = DOMAIN out
         /\ \A i \in DOMAIN out : Carried(out)[i] = Session(out[i])
         /\ \A i \in DOMAIN Carried(out) : Plain(Carried(out)[i])
<1>1. \A i \in DOMAIN out : Session(out[i]) \in ServerMsg /\ Plain(Session(out[i]))
  BY MessagesTyped DEF Session, Plain
<1> QED
  BY <1>1 DEF Carried

LEMMA OnePlain ==
  /\ \A d \in Doms : /\ <<Snapshot(d)>> \in Seq(ServerMsg)
                     /\ \A i \in DOMAIN <<Snapshot(d)>> : Plain(<<Snapshot(d)>>[i])
  /\ \A t \in {"RunEditor", "Pong"} :
       /\ <<Bare(t)>> \in Seq(ServerMsg)
       /\ \A i \in DOMAIN <<Bare(t)>> : Plain(<<Bare(t)>>[i])
  BY MessagesTyped DEF BareMsgs, Bare, Snapshot, Plain

LEMMA StreamsClient ==
  ASSUME Past, Streams, NEW c \in Conns, ClientStep(c)
  PROVE  Streams'
<1>1. TypeOK /\ Untouched /\ NoIdlePeers
  BY DEF Past
<1>2. device' = device
  BY DEF ClientStep, Connect, Send, Close, Read, ReadEof, ReaderEof, serverVars
<1>3. \A x \in Conns \ {c} : phase'[x] = phase[x] /\ outbox'[x] = outbox[x]
  BY <1>1 DEF ClientStep, Connect, Send, Close, Read, ReadEof, ReaderEof, TypeOK
<1>4. /\ Shape(outbox'[c], phase'[c])
      /\ c \in device => Unsealed(outbox'[c]) /\ (phase'[c] = "hello" => outbox'[c] # << >>)
  <2>1. \A ph : Shape(<< >>, ph) /\ Unsealed(<< >>)
    BY DEF Shape, Unsealed
  <2>2. CASE Connect(c)
    <3>1. Ungreeted(c)
      BY <2>2 DEF Connect, Ungreeted
    <3>2. c \notin device /\ outbox'[c] = << >>
      BY <1>1, <2>2, <3>1 DEF Connect, Untouched
    <3> QED
      BY <2>1, <3>2
  <2>3. CASE ReaderEof(c) \/ \E m \in Menu : Send(c, m)
    <3>1. phase' = phase /\ outbox' = outbox
      BY <2>3 DEF ReaderEof, Send
    <3> QED
      BY <3>1 DEF Streams
  <2>4. CASE Close(c) \/ ReadEof(c)
    <3>1. outbox'[c] = << >> /\ phase'[c] = "closed"
      BY <1>1, <2>4 DEF Close, ReadEof, TypeOK
    <3> QED
      BY <2>1, <3>1
  <2>5. CASE Read(c)
    <3>1. /\ outbox[c] \in Seq(ServerMsg) /\ outbox[c] # << >>
          /\ \/ outbox'[c] = << >> /\ phase'[c] = "closed"
             \/ outbox'[c] = Tail(outbox[c]) /\ phase'[c] = "up"
      BY <1>1, <2>5 DEF Read, TypeOK
    <3>2. CASE outbox'[c] = << >> /\ phase'[c] = "closed"
      BY <2>1, <3>2
    <3>3. CASE outbox'[c] = Tail(outbox[c]) /\ phase'[c] = "up"
      BY <3>1, <3>3, StreamRead DEF Streams
    <3> QED
      BY <3>1, <3>2, <3>3
  <2> QED
    BY <2>2, <2>3, <2>4, <2>5 DEF ClientStep
<1> QED
  BY <1>2, <1>3, <1>4 DEF Streams

\* A queue that did not change, of a connection that was not let in since.
LEMMA StreamKept ==
  ASSUME Streams, NEW x \in Conns, phase' = phase, outbox'[x] = outbox[x],
         x \in device' => x \in device
  PROVE  /\ Shape(outbox'[x], phase'[x])
         /\ x \in device' =>
              Unsealed(outbox'[x]) /\ (phase'[x] = "hello" => outbox'[x] # << >>)
  BY DEF Streams

LEMMA StreamsHandled ==
  ASSUME Past, Streams, NEW c \in Conns, HandleEvent(c)
  PROVE  Streams'
<1>1. TypeOK /\ Untouched /\ NoIdlePeers /\ outbox[c] \in Seq(ServerMsg) /\ dom \in Doms
  BY DEF Past, TypeOK
<1>2. PICK k : Take(k, c)
  BY DEF HandleEvent, HandleConnect, HandleDisconnect, HandleBadHello,
     HandleHello, HandleEarly, HandleIntent, HandleEdit, HandleQuit, HandlePing,
     HandleEditorDone, HandleShutdown
<1>3. phase' = phase
  BY <1>2, TakeNoIdle, <1>1
<1>4. CASE HandleConnect(c) \/ HandleDisconnect(c) \/ HandleIntent(c)
           \/ HandleEditorDone(c) \/ HandleShutdown(c)
  <2>1. outbox' = outbox /\ device' \subseteq device
    BY <1>4 DEF HandleConnect, HandleDisconnect, HandleIntent,
       HandleEditorDone, HandleShutdown, serverVars
  <2> QED
    BY <1>3, <2>1, StreamKept DEF Streams
<1>5. CASE HandleBadHello(c) \/ HandleEarly(c)
  <2>1. Reject(c)
    BY <1>5 DEF HandleBadHello, HandleEarly
  <2>2. /\ \A x \in Conns \ {c} : outbox'[x] = outbox[x] /\ (x \in device' <=> x \in device)
        /\ c \notin device'
        /\ outbox'[c] = IF c \in clients /\ Open(c)
                          THEN outbox[c] \o <<Bare("Rejected")>> ELSE outbox[c]
    BY <1>1, <2>1, RejectEffect
  <2>3. Shape(outbox[c] \o <<Bare("Rejected")>>, phase[c]) \/ c \notin clients
    <3>1. CASE c \in device
      BY <1>1, <3>1, StreamSealed DEF Streams
    <3>2. CASE c \in clients /\ c \notin device
      <4>1. outbox[c] = << >>
        BY <1>1, <3>2 DEF Untouched, Ungreeted
      <4> QED
        BY <4>1, StreamRefused
    <3> QED
      BY <3>1, <3>2
  <2>4. Shape(outbox'[c], phase[c])
    BY <2>2, <2>3 DEF Streams
  <2> QED
    BY <1>3, <2>2, <2>4, StreamKept DEF Streams
<1>6. CASE HandleHello(c)
  <2>1. /\ c \notin device
        /\ \A x \in Conns \ {c} :
             /\ x \notin device => x \notin device' /\ outbox'[x] = outbox[x]
             /\ x \in device /\ x \notin device' => ~Open(x)
             /\ x \in device /\ Open(x) =>
                  outbox'[x] = IF last # dom THEN outbox[x] \o <<Snapshot(dom)>> ELSE outbox[x]
        /\ c \in clients /\ Open(c) =>
             outbox'[c] = (outbox[c] \o <<Bare("Welcome")>>) \o <<Snapshot(dom)>>
        /\ ~(c \in clients /\ Open(c)) => c \notin device' /\ outbox'[c] = outbox[c]
    BY <1>1, <1>6, HelloEffect
  <2>2. /\ Shape(outbox'[c], phase'[c])
        /\ c \in device' =>
             Unsealed(outbox'[c]) /\ (phase'[c] = "hello" => outbox'[c] # << >>)
    <3>1. CASE c \in clients /\ Open(c)
      <4>1. outbox[c] = << >> /\ phase[c] = "hello"
        BY <1>1, <2>1, <3>1 DEF Untouched, Ungreeted, Open
      <4>2. outbox'[c] = (<< >> \o <<Bare("Welcome")>>) \o <<Snapshot(dom)>>
        BY <2>1, <3>1, <4>1
      <4> QED
        BY <1>1, <1>3, <4>1, <4>2, StreamWelcomed
    <3>2. CASE ~(c \in clients /\ Open(c))
      BY <1>3, <2>1, <3>2 DEF Streams
    <3> QED
      BY <3>1, <3>2
  <2>3. ASSUME NEW x \in Conns \ {c}
        PROVE  /\ Shape(outbox'[x], phase'[x])
               /\ x \in device' =>
                    Unsealed(outbox'[x]) /\ (phase'[x] = "hello" => outbox'[x] # << >>)
    <3>1. CASE outbox'[x] = outbox[x] /\ (x \in device' => x \in device)
      BY <1>3, <3>1, StreamKept
    <3>2. CASE x \in device /\ Open(x) /\ outbox'[x] = outbox[x] \o <<Snapshot(dom)>>
      <4>1. outbox[x] \in Seq(ServerMsg)
        BY <1>1 DEF TypeOK
      <4>2. /\ Shape(outbox[x], phase[x]) /\ Unsealed(outbox[x])
            /\ phase[x] = "hello" => outbox[x] # << >>
        BY <3>2 DEF Streams
      <4>3. /\ <<Snapshot(dom)>> \in Seq(ServerMsg)
            /\ \A i \in DOMAIN <<Snapshot(dom)>> : Plain(<<Snapshot(dom)>>[i])
        BY <1>1, OnePlain
      <4> QED
        BY <1>3, <3>2, <4>1, <4>2, <4>3, StreamExtended
    <3>3. CASE x \in device /\ ~Open(x)
      <4>1. outbox'[x] = outbox[x]
        BY <1>6, <3>3, WrittenAt DEF HandleHello
      <4> QED
        BY <3>1, <3>3, <4>1
    <3> QED
      BY <2>1, <3>1, <3>2, <3>3
  <2> QED
    BY <2>2, <2>3 DEF Streams
<1>7. CASE HandleEdit(c) \/ HandleQuit(c) \/ HandlePing(c)
  <2>1. PICK t \in {"RunEditor", "Pong", "Detach"} :
          /\ Replied(c, t)
          /\ t = "Detach" => c \notin device'
    BY <1>7 DEF HandleEdit, HandleQuit, HandlePing, Replied
  <2>2. c \in device
    BY <1>7 DEF HandleEdit, HandleQuit, HandlePing
  <2>3. /\ \A x \in Conns \ {c} : outbox'[x] = outbox[x] /\ (x \in device' <=> x \in device)
        /\ outbox'[c] = IF Open(c) THEN outbox[c] \o <<Bare(t)>> ELSE outbox[c]
    BY <1>1, <2>1, <2>2, ReplyEffect
  <2>4. /\ Shape(outbox[c], phase[c]) /\ Unsealed(outbox[c])
        /\ phase[c] = "hello" => outbox[c] # << >>
    BY <2>2 DEF Streams
  <2>5. /\ Shape(outbox'[c], phase[c])
        /\ c \in device' =>
             Unsealed(outbox'[c]) /\ (phase[c] = "hello" => outbox'[c] # << >>)
    <3>1. CASE ~Open(c)
      BY <2>3, <2>4, <3>1
    <3>2. CASE Open(c) /\ t \in {"RunEditor", "Pong"}
      <4>1. /\ <<Bare(t)>> \in Seq(ServerMsg)
            /\ \A i \in DOMAIN <<Bare(t)>> : Plain(<<Bare(t)>>[i])
        BY <3>2, OnePlain
      <4> QED
        BY <1>1, <2>3, <2>4, <3>2, <4>1, StreamExtended
    <3>3. CASE Open(c) /\ t = "Detach"
      BY <1>1, <2>1, <2>3, <2>4, <3>3, StreamSealed
    <3> QED
      BY <2>1, <3>1, <3>2, <3>3
  <2> QED
    BY <1>3, <2>3, <2>5, StreamKept DEF Streams
<1> QED
  BY <1>4, <1>5, <1>6, <1>7 DEF HandleEvent

LEMMA StreamsTick ==
  ASSUME Past, Streams, Tick
  PROVE  Streams'
<1>1. TypeOK
  BY DEF Past
<1>2. PICK evs : TickWith(evs)
  BY <1>1, TickEffect
<1>3. phase' = phase
  BY DEF Tick, clientVars
<1>4. pend \o evs \in Seq(Nat) /\ dom' \in Doms
  BY <1>1, <1>2, AppTyped DEF TickWith
<1> DEFINE ms == Carried(pend \o evs)
<1>5. ms \in Seq(ServerMsg) /\ \A i \in DOMAIN ms : Plain(ms[i])
  BY <1>4, CarriedPlain
<1> HIDE DEF ms
<1> SUFFICES ASSUME NEW x \in Conns
             PROVE  /\ Shape(outbox'[x], phase'[x])
                    /\ x \in device' =>
                         Unsealed(outbox'[x]) /\ (phase'[x] = "hello" => outbox'[x] # << >>)
  BY DEF Streams
<1>6. CASE x \in device /\ Open(x)
  <2> DEFINE q == outbox[x] \o ms
  <2>1. /\ outbox[x] \in Seq(ServerMsg)
        /\ Shape(outbox[x], phase[x]) /\ Unsealed(outbox[x])
        /\ phase[x] = "hello" => outbox[x] # << >>
    BY <1>1, <1>6 DEF Streams, TypeOK
  <2>2. /\ q \in Seq(ServerMsg)
        /\ Shape(q, phase[x]) /\ Unsealed(q) /\ (phase[x] = "hello" => q # << >>)
    BY <1>5, <2>1, StreamExtended
  <2>3. outbox'[x] = IF last # dom' THEN q \o <<Snapshot(dom')>> ELSE q
    BY <1>2, <1>6 DEF TickWith, ms
  <2> HIDE DEF q
  <2>4. /\ <<Snapshot(dom')>> \in Seq(ServerMsg)
        /\ \A i \in DOMAIN <<Snapshot(dom')>> : Plain(<<Snapshot(dom')>>[i])
    BY <1>4, OnePlain
  <2>5. LET r == q \o <<Snapshot(dom')>>
        IN  Shape(r, phase[x]) /\ Unsealed(r) /\ (phase[x] = "hello" => r # << >>)
    BY <2>2, <2>4, StreamExtended
  <2> QED
    BY <1>3, <2>2, <2>3, <2>5
<1>7. CASE ~(x \in device /\ Open(x))
  <2>1. outbox'[x] = outbox[x] /\ (x \in device' => x \in device)
    BY <1>2, <1>7 DEF TickWith
  <2> QED
    BY <1>3, <2>1, StreamKept
<1> QED
  BY <1>6, <1>7

LEMMA StreamsStep == Past /\ Streams /\ [Next]_vars => Streams'
<1> SUFFICES ASSUME Past, Streams, [Next]_vars PROVE Streams'
  OBVIOUS
<1>1. CASE Exit
  BY <1>1 DEF Exit, Streams, serverVars, clientVars
<1>2. CASE UNCHANGED vars
  BY <1>2 DEF vars, Streams
<1> QED
  BY <1>1, <1>2, StreamsClient, StreamsHandled, StreamsTick DEF Next

\* Whatever a client sends, and whenever, the daemon's verdict comes first and
\* once, a welcome is followed by the state at once, and nothing follows a
\* refusal or a Detach.
THEOREM Streamed == Spec => []StreamWellFormed
<1>1. Init => Past /\ Streams
  BY PastInit DEF Init, Streams, Shape, Unsealed
<1>2. Past /\ Streams /\ [Next]_vars => (Past /\ Streams)'
  BY PastStep, StreamsStep
<1>3. Past /\ Streams => StreamWellFormed
  BY StreamsWellFormed
<1> QED
  BY <1>1, <1>2, <1>3, PTL DEF Spec

-----------------------------------------------------------------------------
(* The session events an attached client is still to read. *)

EventMsgs == [type : {"Session"}, arg : Nat]

\* The session events in q are those numbered k + 1 to b.
Numbered(q, k, b) ==
  /\ Len(Only(q, EventMsgs)) = b - k
  /\ \A i \in 1 .. b - k : Only(q, EventMsgs)[i] = Session(k + i)

\* What is pending is what was emitted last, and what an attached client is to
\* read before it is all that it has not read.
EventsInOrder ==
  /\ \A i \in DOMAIN pend : pend[i] = (emitted - Len(pend)) + i
  /\ \A c \in device : Open(c) => Numbered(outbox[c], cursor[c], emitted - Len(pend))

LEMMA SessionsAreEvents ==
  /\ \A n \in Nat : Session(n) \in EventMsgs
  /\ \A m \in ServerMsg : m \in EventMsgs <=> m.type = "Session"
  BY DEF Session, EventMsgs, ServerMsg, BareMsgs

\* Messages of another kind do not count ...
LEMMA NumberedOthers ==
  ASSUME NEW q \in Seq(ServerMsg), NEW ms \in Seq(ServerMsg), NEW k, NEW b,
         Numbered(q, k, b), \A i \in DOMAIN ms : ms[i] \notin EventMsgs
  PROVE  Numbered(q \o ms, k, b)
<1>1. Only(q \o ms, EventMsgs) = Only(q, EventMsgs) \o Only(ms, EventMsgs)
  BY OnlyConcat
<1>2. Only(ms, EventMsgs) = << >>
  BY OnlyNothing
<1>3. Only(q, EventMsgs) \o << >> = Only(q, EventMsgs)
  BY OnlyType
<1>4. Only(q \o ms, EventMsgs) = Only(q, EventMsgs)
  BY <1>1, <1>2, <1>3, Zenon
<1> QED
  BY <1>4 DEF Numbered

\* ... and the tick sends the pending ones in their order.
LEMMA NumberedCarried ==
  ASSUME NEW q \in Seq(ServerMsg), NEW out \in Seq(Nat), NEW k \in Nat, NEW b \in Nat,
         Numbered(q, k, b), \A i \in DOMAIN out : out[i] = b + i
  PROVE  Numbered(q \o Carried(out), k, b + Len(out))
<1> DEFINE ms == Carried(out)
           p  == Only(q, EventMsgs)
<1>1. /\ ms \in Seq(ServerMsg) /\ DOMAIN ms = DOMAIN out /\ Len(out) \in Nat
      /\ \A i \in DOMAIN out : ms[i] = Session(out[i])
  BY CarriedPlain
<1>2. Len(ms) = Len(out) /\ DOMAIN ms = 1 .. Len(out) /\ DOMAIN out = 1 .. Len(out)
  BY <1>1
<1> HIDE DEF ms
<1>3. \A i \in DOMAIN ms : ms[i] \in EventMsgs
  <2> SUFFICES ASSUME NEW i \in DOMAIN ms PROVE ms[i] \in EventMsgs
    OBVIOUS
  <2>1. out[i] \in Nat /\ ms[i] = Session(out[i])
    BY <1>1
  <2> QED
    BY <2>1, SessionsAreEvents
<1>4. Only(ms, EventMsgs) = ms
  BY <1>1, <1>3, OnlyAll
<1>5. Only(q \o ms, EventMsgs) = p \o ms
  <2>1. Only(q \o ms, EventMsgs) = Only(q, EventMsgs) \o Only(ms, EventMsgs)
    BY <1>1, OnlyConcat
  <2> QED
    BY <1>4, <2>1, Zenon
<1>6. p \in Seq(ServerMsg) /\ Len(p) = b - k /\ \A i \in 1 .. b - k : p[i] = Session(k + i)
  BY OnlyType DEF Numbered
<1> HIDE DEF p
<1>7. b - k \in Nat
  BY <1>6
<1> DEFINE r == p \o ms
<1>8. /\ Len(r) = Len(p) + Len(ms)
      /\ \A i \in 1 .. Len(p) + Len(ms) : r[i] = IF i <= Len(p) THEN p[i] ELSE ms[i - Len(p)]
  <2>1. p \in Seq(ServerMsg) /\ ms \in Seq(ServerMsg)
    BY <1>1, <1>6
  <2> QED
    BY <2>1, ConcatProperties
<1> HIDE DEF r
<1>9. /\ Len(r) = (b - k) + Len(out)
      /\ \A i \in 1 .. Len(r) : r[i] = IF i <= b - k THEN p[i] ELSE ms[i - (b - k)]
  BY <1>2, <1>6, <1>8
<1>10. ASSUME NEW i \in 1 .. (b + Len(out)) - k
       PROVE  r[i] = Session(k + i)
  <2>1. i \in 1 .. Len(r)
    BY <1>1, <1>7, <1>9
  <2>2. CASE i <= b - k
    <3>1. r[i] = p[i] /\ i \in 1 .. b - k
      BY <1>7, <1>9, <2>1, <2>2
    <3> QED
      BY <1>6, <3>1
  <2>3. CASE ~(i <= b - k)
    <3> DEFINE j == i - (b - k)
    <3>1. j \in 1 .. Len(out) /\ b + j = k + i
      BY <1>1, <1>7, <2>3
    <3>2. ms[j] = Session(out[j]) /\ out[j] = b + j
      BY <1>1, <1>2, <3>1
    <3>3. r[i] = ms[j]
      BY <1>9, <2>1, <2>3
    <3> QED
      BY <3>1, <3>2, <3>3
  <2> QED
    BY <2>2, <2>3
<1>11. Len(r) = (b + Len(out)) - k
  BY <1>1, <1>7, <1>9
<1>12. Only(q \o ms, EventMsgs) = r
  BY <1>5 DEF r
<1>13. Numbered(q \o ms, k, b + Len(out))
  BY <1>10, <1>11, <1>12 DEF Numbered
<1> QED
  BY <1>13 DEF ms

\* Reading the next message: an event moves the client's own count.
LEMMA NumberedRead ==
  ASSUME NEW q \in Seq(ServerMsg), q # << >>, NEW k \in Nat, NEW b \in Nat, Numbered(q, k, b)
  PROVE  Numbered(Tail(q), IF Head(q).type = "Session" THEN Head(q).arg ELSE k, b)
<1> DEFINE h == Head(q)
           t == Tail(q)
           p == Only(t, EventMsgs)
<1>1. h \in ServerMsg /\ t \in Seq(ServerMsg)
  BY HeadTailProperties
<1>2. Only(q, EventMsgs) = IF h \in EventMsgs THEN <<h>> \o p ELSE p
  BY OnlyHead
<1>3. h \in EventMsgs <=> h.type = "Session"
  BY <1>1, SessionsAreEvents
<1>4. p \in Seq(ServerMsg)
  BY <1>1, OnlyType
<1> HIDE DEF h, t, p
<1>5. CASE h.type # "Session"
  <2>1. Numbered(t, k, b)
    BY <1>2, <1>3, <1>5 DEF Numbered, p
  <2> QED
    BY <1>5, <2>1 DEF h, t
<1>6. CASE h.type = "Session"
  <2> DEFINE r == <<h>> \o p
  <2>1. Len(r) = b - k /\ \A i \in 1 .. b - k : r[i] = Session(k + i)
    BY <1>2, <1>3, <1>6 DEF Numbered
  <2>2. <<h>> \in Seq(ServerMsg) /\ Len(<<h>>) = 1 /\ <<h>>[1] = h
    BY <1>1
  <2>3. Len(p) \in Nat /\ Len(r) = 1 + Len(p)
    BY <1>4, <2>2, ConcatProperties
  <2>4. \A i \in 1 .. 1 + Len(p) : r[i] = IF i <= 1 THEN <<h>>[i] ELSE p[i - 1]
    BY <1>4, <2>2, ConcatProperties
  <2> HIDE DEF r
  <2>5. h = Session(k + 1)
    BY <2>1, <2>2, <2>3, <2>4
  <2>6. h.arg = k + 1
    BY <2>5 DEF Session
  <2>7. Len(p) = b - (k + 1)
    BY <2>1, <2>3
  <2>8. ASSUME NEW i \in 1 .. b - (k + 1)
        PROVE  p[i] = Session((k + 1) + i)
    <3> DEFINE j == i + 1
    <3>1. j \in 1 .. b - k /\ j \in 1 .. 1 + Len(p) /\ ~(j <= 1) /\ j - 1 = i
      BY <2>7
    <3>2. r[j] = p[i]
      BY <2>4, <3>1
    <3>3. r[j] = Session(k + j) /\ k + j = (k + 1) + i
      BY <2>1, <3>1
    <3> QED
      BY <3>2, <3>3
  <2>9. Numbered(t, k + 1, b)
    BY <2>7, <2>8 DEF Numbered, p
  <2> QED
    BY <1>6, <2>6, <2>9 DEF h, t
<1> QED
  BY <1>5, <1>6

\* A newcomer is to read none of what was emitted before it came.
LEMMA NumberedNone ==
  ASSUME NEW d \in Doms, NEW b \in Nat
  PROVE  Numbered((<< >> \o <<Bare("Welcome")>>) \o <<Snapshot(d)>>, b, b)
<1>1. Numbered(<< >>, b, b)
  <2>1. Only(<< >>, EventMsgs) = << >>
    BY OnlyEmpty
  <2>2. b - b = 0 /\ Len(<< >>) = 0 /\ 1 .. 0 = {}
    OBVIOUS
  <2> QED
    BY <2>1, <2>2 DEF Numbered
<1>2. << >> \in Seq(ServerMsg)
  OBVIOUS
<1>3. /\ <<Bare("Welcome")>> \in Seq(ServerMsg)
      /\ \A i \in DOMAIN <<Bare("Welcome")>> : <<Bare("Welcome")>>[i] \notin EventMsgs
  BY MessagesTyped DEF BareMsgs, Bare, EventMsgs
<1>4. /\ <<Snapshot(d)>> \in Seq(ServerMsg)
      /\ \A i \in DOMAIN <<Snapshot(d)>> : <<Snapshot(d)>>[i] \notin EventMsgs
  BY MessagesTyped DEF Snapshot, EventMsgs
<1> DEFINE r == << >> \o <<Bare("Welcome")>>
<1>5. Numbered(r, b, b)
  BY <1>1, <1>2, <1>3, NumberedOthers
<1>6. r \in Seq(ServerMsg)
  BY <1>2, <1>3
<1> HIDE DEF r
<1>7. Numbered(r \o <<Snapshot(d)>>, b, b)
  BY <1>4, <1>5, <1>6, NumberedOthers
<1> QED
  BY <1>7 DEF r

\* Emitting keeps the pending events consecutive, up to the last one emitted.
LEMMA EmittedNext ==
  ASSUME TypeOK, EventsInOrder, NEW evs \in {<< >>, <<emitted + 1>>}, AppStep(evs)
  PROVE  /\ pend \o evs \in Seq(Nat)
         /\ emitted' - Len(pend \o evs) = emitted - Len(pend)
         /\ \A i \in DOMAIN (pend \o evs) : (pend \o evs)[i] = (emitted - Len(pend)) + i
         /\ emitted - Len(pend) \in Nat
<1>1. /\ pend \in Seq(Nat) /\ emitted \in Nat /\ Len(pend) \in Nat /\ Len(pend) <= emitted
      /\ emitted' = emitted + Len(evs)
  BY BoundsAssumption DEF TypeOK, AppStep
<1>2. \A i \in DOMAIN pend : pend[i] = (emitted - Len(pend)) + i
  BY DEF EventsInOrder
<1>3. CASE evs = << >>
  <2>1. pend \o evs = pend /\ Len(evs) = 0
    BY <1>1, <1>3
  <2> QED
    BY <1>1, <1>2, <2>1
<1>4. CASE evs = <<emitted + 1>>
  <2>1. evs \in Seq(Nat) /\ Len(evs) = 1 /\ evs[1] = emitted + 1 /\ DOMAIN evs = 1 .. 1
    BY <1>1, <1>4
  <2> DEFINE r == pend \o evs
  <2>2. /\ r \in Seq(Nat) /\ Len(r) = Len(pend) + Len(evs)
        /\ \A i \in DOMAIN r :
             \/ i \in DOMAIN pend
             \/ i > Len(pend) /\ i - Len(pend) \in DOMAIN evs /\ r[i] = evs[i - Len(pend)]
        /\ \A i \in DOMAIN pend : r[i] = pend[i]
    <3>1. pend \in Seq(Nat) /\ evs \in Seq(Nat)
      BY <1>1, <2>1
    <3>2. r \in Seq(Nat) /\ Len(r) = Len(pend) + Len(evs)
      BY <3>1, Extended
    <3>3. \A i \in DOMAIN pend : r[i] = pend[i]
      BY <3>1, Extended
    <3>4. \A i \in DOMAIN r :
            \/ i \in DOMAIN pend
            \/ i > Len(pend) /\ i - Len(pend) \in DOMAIN evs /\ r[i] = evs[i - Len(pend)]
      BY <3>1, Extended
    <3> QED
      BY <3>2, <3>3, <3>4
  <2> HIDE DEF r
  <2>3. ASSUME NEW i \in DOMAIN r PROVE r[i] = (emitted - Len(pend)) + i
    <3>1. CASE i \in DOMAIN pend
      BY <1>2, <2>2, <3>1
    <3>2. CASE i \notin DOMAIN pend
      <4>1. i - Len(pend) = 1 /\ r[i] = evs[i - Len(pend)] /\ i \in Nat
        <5>1. DOMAIN r = 1 .. Len(r)
          BY <2>2
        <5>2. i \in Nat
          BY <5>1
        <5>3. i - Len(pend) \in 1 .. 1 /\ r[i] = evs[i - Len(pend)]
          BY <2>1, <2>2, <3>2
        <5> QED
          BY <1>1, <5>2, <5>3
      <4>2. i = Len(pend) + 1 /\ r[i] = emitted + 1
        BY <1>1, <2>1, <4>1
      <4> QED
        BY <1>1, <4>2
    <3> QED
      BY <3>1, <3>2
  <2>4. emitted' - Len(r) = emitted - Len(pend)
    BY <1>1, <2>1, <2>2
  <2>5. emitted - Len(pend) \in Nat
    BY <1>1
  <2> QED
    BY <2>2, <2>3, <2>4, <2>5 DEF r
<1> QED
  BY <1>3, <1>4

\* Messages that carry no event.
LEMMA NoEvents ==
  /\ \A d \in Doms : /\ <<Snapshot(d)>> \in Seq(ServerMsg)
                     /\ \A i \in DOMAIN <<Snapshot(d)>> : <<Snapshot(d)>>[i] \notin EventMsgs
  /\ \A t \in BareMsgs : /\ <<Bare(t)>> \in Seq(ServerMsg)
                         /\ \A i \in DOMAIN <<Bare(t)>> : <<Bare(t)>>[i] \notin EventMsgs
<1>1. /\ \A d \in Doms : <<Snapshot(d)>> \in Seq(ServerMsg) /\ Snapshot(d) \notin EventMsgs
      /\ \A t \in BareMsgs : <<Bare(t)>> \in Seq(ServerMsg) /\ Bare(t) \notin EventMsgs
  BY MessagesTyped DEF BareMsgs, Bare, Snapshot, EventMsgs
<1>2. \A m : m \notin EventMsgs => \A i \in DOMAIN <<m>> : <<m>>[i] \notin EventMsgs
  OBVIOUS
<1> QED
  BY <1>1, <1>2

LEMMA EventsClient ==
  ASSUME Past, EventsInOrder, NEW c \in Conns, ClientStep(c)
  PROVE  EventsInOrder'
<1>1. TypeOK /\ Untouched
  BY DEF Past
<1>2. UNCHANGED <<device, pend, emitted>>
  BY DEF ClientStep, Connect, Send, Close, Read, ReadEof, ReaderEof, serverVars, appVars
<1>3. \A x \in Conns \ {c} :
        phase'[x] = phase[x] /\ outbox'[x] = outbox[x] /\ cursor'[x] = cursor[x]
  BY <1>1 DEF ClientStep, Connect, Send, Close, Read, ReadEof, ReaderEof, TypeOK
<1>4. ASSUME c \in device, Open(c)'
      PROVE  Numbered(outbox'[c], cursor'[c], emitted - Len(pend))
  <2>1. ~Connect(c)
    <3> SUFFICES ASSUME Connect(c) PROVE FALSE
      OBVIOUS
    <3>1. Ungreeted(c)
      BY DEF Connect, Ungreeted
    <3> QED
      BY <1>1, <1>4, <3>1 DEF Untouched
  <2>2. ~Close(c) /\ ~ReadEof(c)
    BY <1>1, <1>4 DEF Close, ReadEof, Open, TypeOK
  <2>3. CASE ReaderEof(c) \/ \E m \in Menu : Send(c, m)
    <3>1. UNCHANGED <<phase, outbox, cursor>>
      BY <2>3 DEF ReaderEof, Send
    <3> QED
      BY <1>4, <3>1 DEF EventsInOrder, Open
  <2>4. CASE Read(c)
    <3> DEFINE m == Head(outbox[c])
    <3>1. /\ outbox[c] \in Seq(ServerMsg) /\ outbox[c] # << >> /\ Open(c)
          /\ cursor[c] \in Nat /\ emitted - Len(pend) \in Nat
      BY <1>1, <2>4, BoundsAssumption DEF Read, TypeOK
    <3>2. Numbered(outbox[c], cursor[c], emitted - Len(pend))
      BY <1>4, <3>1 DEF EventsInOrder
    <3>3. /\ phase[c] = "hello" => m.type = "Welcome"
          /\ outbox'[c] = Tail(outbox[c])
          /\ cursor'[c] = IF phase[c] = "up" /\ m.type = "Session" THEN m.arg ELSE cursor[c]
      BY <1>1, <1>4, <2>4 DEF Read, Open, TypeOK
    <3>4. phase[c] \in {"hello", "up"}
      BY <3>1 DEF Open
    <3>5. cursor'[c] = IF m.type = "Session" THEN m.arg ELSE cursor[c]
      BY <3>3, <3>4
    <3> QED
      BY <3>1, <3>2, <3>3, <3>5, NumberedRead
  <2> QED
    BY <2>1, <2>2, <2>3, <2>4 DEF ClientStep
<1>5. ASSUME NEW x \in device, Open(x)'
      PROVE  Numbered(outbox'[x], cursor'[x], emitted - Len(pend))
  <2>1. CASE x = c
    BY <1>4, <1>5, <2>1
  <2>2. CASE x # c
    BY <1>1, <1>3, <1>5, <2>2 DEF EventsInOrder, Open, TypeOK
  <2> QED
    BY <2>1, <2>2
<1> QED
  BY <1>2, <1>5 DEF EventsInOrder

\* A step that emits nothing, takes nothing from the pending events and sends
\* no event to whom it keeps.
LEMMA EventsKept ==
  ASSUME EventsInOrder, UNCHANGED <<pend, emitted, phase, cursor>>,
         \A x \in device' : x \in device /\ (Open(x) => outbox'[x] = outbox[x])
  PROVE  EventsInOrder'
  BY DEF EventsInOrder, Open

LEMMA EventsHello ==
  ASSUME Past, EventsInOrder, NEW c \in Conns, HandleHello(c)
  PROVE  EventsInOrder'
<1>1. TypeOK /\ Untouched /\ dom \in Doms /\ outbox \in [Conns -> Seq(ServerMsg)]
  BY DEF Past, TypeOK
<1> DEFINE joins == c \in clients /\ Open(c)
<1>2. /\ c \notin device
      /\ \A x \in Conns \ {c} :
           /\ x \notin device => x \notin device'
           /\ x \in device /\ Open(x) =>
                outbox'[x] = IF last # dom THEN outbox[x] \o <<Snapshot(dom)>> ELSE outbox[x]
      /\ joins => outbox'[c] = (outbox[c] \o <<Bare("Welcome")>>) \o <<Snapshot(dom)>>
      /\ ~joins => c \notin device'
  BY <1>1, HelloEffect
<1>3. /\ pend' = KeptEvents /\ emitted' = emitted /\ phase' = phase
      /\ cursor' = IF joins THEN [cursor EXCEPT ![c] = emitted - Len(pend')] ELSE cursor
  BY DEF HandleHello, Take, clientVars, appVars
<1>4. pend' = << >> \/ pend' = pend
  BY <1>3 DEF KeptEvents
<1>5. emitted - Len(pend') \in Nat
  BY <1>1, <1>4, BoundsAssumption DEF TypeOK
<1>6. \A i \in DOMAIN pend' : pend'[i] = (emitted' - Len(pend')) + i
  BY <1>3, <1>4 DEF EventsInOrder
<1>8. device' \subseteq Conns
  BY <1>1 DEF HandleHello, TypeOK
<1>7. ASSUME NEW x \in device', Open(x)'
      PROVE  Numbered(outbox'[x], cursor'[x], emitted - Len(pend'))
  <2>1. Open(x)
    BY <1>3, <1>7 DEF Open
  <2>2. CASE x = c
    <3>1. joins
      BY <1>2, <1>7, <2>2
    <3>2. outbox[c] = << >>
      BY <1>1, <1>2, <3>1 DEF Untouched, Ungreeted
    <3>3. outbox'[c] = (<< >> \o <<Bare("Welcome")>>) \o <<Snapshot(dom)>>
      BY <1>2, <3>1, <3>2
    <3>4. cursor'[c] = emitted - Len(pend')
      BY <1>1, <1>3, <3>1 DEF TypeOK
    <3> QED
      BY <1>1, <1>5, <2>2, <3>3, <3>4, NumberedNone
  <2>3. CASE x # c
    <3>1. x \in Conns
      BY <1>7, <1>8
    <3>2. x \in device
      BY <1>2, <1>7, <2>3, <3>1
    <3>3. pend' = pend
      BY <1>3, <3>2 DEF KeptEvents
    <3>4. Numbered(outbox[x], cursor[x], emitted - Len(pend))
      BY <2>1, <3>2 DEF EventsInOrder
    <3>5. cursor'[x] = cursor[x]
      BY <1>1, <1>3, <2>3, <3>1 DEF TypeOK
    <3>6. outbox'[x] = IF last # dom THEN outbox[x] \o <<Snapshot(dom)>> ELSE outbox[x]
      BY <1>2, <2>1, <2>3, <3>1, <3>2
    <3>7. outbox[x] \in Seq(ServerMsg)
      BY <1>1, <3>1
    <3>8. Numbered(outbox[x] \o <<Snapshot(dom)>>, cursor[x], emitted - Len(pend))
      BY <1>1, <3>4, <3>7, NoEvents, NumberedOthers
    <3> QED
      BY <3>3, <3>4, <3>5, <3>6, <3>8
  <2> QED
    BY <2>2, <2>3
<1> QED
  BY <1>3, <1>6, <1>7 DEF EventsInOrder

LEMMA EventsHandled ==
  ASSUME Past, EventsInOrder, NEW c \in Conns, HandleEvent(c)
  PROVE  EventsInOrder'
<1>1. TypeOK /\ outbox[c] \in Seq(ServerMsg) /\ device \subseteq Conns
  BY DEF Past, TypeOK
<1>2. phase' = phase
  BY DEF HandleEvent, HandleConnect, HandleDisconnect, HandleBadHello,
     HandleHello, HandleEarly, HandleIntent, HandleEdit, HandleQuit, HandlePing,
     HandleEditorDone, HandleShutdown, Take, clientVars
<1>3. CASE HandleConnect(c) \/ HandleDisconnect(c) \/ HandleShutdown(c)
  <2>1. UNCHANGED <<pend, emitted, cursor, outbox>> /\ device' \subseteq device
    BY <1>3 DEF HandleConnect, HandleDisconnect, HandleShutdown, appVars
  <2> QED
    BY <1>2, <2>1, EventsKept
<1>4. CASE HandleEditorDone(c)
  <2>1. UNCHANGED <<pend, cursor, outbox, device>> /\ AppStep(<< >>)
    BY <1>4 DEF HandleEditorDone, serverVars
  <2>2. emitted' = emitted
    BY <1>1, <2>1, BoundsAssumption DEF AppStep, TypeOK
  <2> QED
    BY <1>2, <2>1, <2>2, EventsKept
<1>5. CASE HandleBadHello(c) \/ HandleEarly(c)
  <2>1. Reject(c)
    BY <1>5 DEF HandleBadHello, HandleEarly
  <2>2. UNCHANGED <<pend, emitted, cursor>> /\ device' \subseteq device
    BY <2>1 DEF Reject, appVars
  <2>3. /\ \A x \in Conns \ {c} : outbox'[x] = outbox[x]
        /\ c \notin device'
    BY <1>1, <2>1, RejectEffect
  <2> QED
    BY <1>1, <1>2, <2>2, <2>3, EventsKept
<1>6. CASE HandleHello(c)
  BY <1>6, EventsHello
<1>7. CASE HandleIntent(c)
  <2>1. PICK evs \in {<< >>, <<emitted + 1>>} : AppStep(evs) /\ pend' = pend \o evs
    BY <1>7 DEF HandleIntent
  <2>2. UNCHANGED <<device, outbox, cursor>>
    BY <1>7 DEF HandleIntent, serverVars
  <2>3. /\ emitted' - Len(pend') = emitted - Len(pend)
        /\ \A i \in DOMAIN pend' : pend'[i] = (emitted - Len(pend)) + i
    BY <1>1, <2>1, EmittedNext
  <2> QED
    BY <1>2, <2>2, <2>3 DEF EventsInOrder, Open
<1>8. CASE HandleEdit(c) \/ HandleQuit(c) \/ HandlePing(c)
  <2>1. PICK t \in BareMsgs : Replied(c, t)
    BY <1>8 DEF HandleEdit, HandleQuit, HandlePing, Replied, BareMsgs
  <2>2. c \in device
    BY <1>8 DEF HandleEdit, HandleQuit, HandlePing
  <2>3. /\ \A x \in Conns \ {c} : outbox'[x] = outbox[x]
        /\ outbox'[c] = IF Open(c) THEN outbox[c] \o <<Bare(t)>> ELSE outbox[c]
    BY <1>1, <2>1, <2>2, ReplyEffect
  <2>4. UNCHANGED <<pend, emitted, cursor>> /\ device' \subseteq device
    BY <2>1 DEF Replied, appVars
  <2>5. ASSUME NEW x \in device', Open(x)
        PROVE  Numbered(outbox'[x], cursor[x], emitted - Len(pend))
    <3>1. x \in Conns /\ x \in device /\ Numbered(outbox[x], cursor[x], emitted - Len(pend))
      BY <1>1, <2>4, <2>5 DEF EventsInOrder
    <3>2. CASE x = c
      <4>1. outbox'[c] = outbox[c] \o <<Bare(t)>>
        BY <2>3, <2>5, <3>2
      <4>2. Numbered(outbox[c] \o <<Bare(t)>>, cursor[c], emitted - Len(pend))
        BY <1>1, <3>1, <3>2, NoEvents, NumberedOthers
      <4> QED
        BY <3>2, <4>1, <4>2
    <3>3. CASE x # c
      BY <2>3, <3>1, <3>3
    <3> QED
      BY <3>2, <3>3
  <2> QED
    BY <1>2, <2>4, <2>5 DEF EventsInOrder, Open
<1> QED
  BY <1>3, <1>4, <1>5, <1>6, <1>7, <1>8 DEF HandleEvent

LEMMA EventsTick ==
  ASSUME Past, EventsInOrder, Tick
  PROVE  EventsInOrder'
<1>1. TypeOK /\ device \subseteq Conns
  BY DEF Past, TypeOK
<1>2. PICK evs : TickWith(evs)
  BY <1>1, TickEffect
<1>3. phase' = phase /\ cursor' = cursor /\ pend' = << >>
  BY DEF Tick, clientVars
<1> DEFINE out == pend \o evs
           b   == emitted - Len(pend)
<1>4. /\ out \in Seq(Nat) /\ emitted' - Len(out) = b /\ b \in Nat
      /\ \A i \in DOMAIN out : out[i] = b + i
  BY <1>1, <1>2, EmittedNext DEF TickWith
<1>5. dom' \in Doms /\ emitted' \in Nat
  BY <1>1, <1>2, AppTyped, BoundsAssumption DEF TickWith
<1>6. \A x \in device' : x \in device
  BY <1>2 DEF TickWith
<1>7. \A x \in device : Open(x) =>
        outbox'[x] = IF last # dom' THEN (outbox[x] \o Carried(out)) \o <<Snapshot(dom')>>
                                    ELSE outbox[x] \o Carried(out)
  BY <1>1, <1>2 DEF TickWith
<1>8. \A x \in device : Open(x) => Numbered(outbox[x], cursor[x], b)
  BY DEF EventsInOrder
<1> HIDE DEF out, b
<1>9. ASSUME NEW x \in device', Open(x)'
      PROVE  Numbered(outbox'[x], cursor'[x], emitted')
  <2>1. /\ x \in device /\ Open(x) /\ x \in Conns
        /\ outbox[x] \in Seq(ServerMsg) /\ cursor[x] \in Nat
    BY <1>1, <1>3, <1>6, <1>9 DEF Open, TypeOK
  <2> DEFINE q == outbox[x] \o Carried(out)
  <2>2. Carried(out) \in Seq(ServerMsg)
    BY <1>4, CarriedPlain
  <2>3. q \in Seq(ServerMsg)
    BY <2>1, <2>2
  <2>4. Numbered(q, cursor[x], b + Len(out))
    <3>1. Numbered(outbox[x], cursor[x], b)
      BY <1>8, <2>1
    <3>2. Numbered(outbox[x] \o Carried(out), cursor[x], b + Len(out))
      BY <1>4, <2>1, <3>1, NumberedCarried
    <3> QED
      BY <3>2
  <2>5. b + Len(out) = emitted'
    <3>1. Len(out) \in Nat
      BY <1>4
    <3> QED
      BY <1>4, <1>5, <3>1
  <2>6. outbox'[x] = IF last # dom' THEN q \o <<Snapshot(dom')>> ELSE q
    BY <1>7, <2>1
  <2> HIDE DEF q
  <2>7. Numbered(q, cursor[x], emitted')
    BY <2>4, <2>5
  <2>8. Numbered(q \o <<Snapshot(dom')>>, cursor[x], emitted')
    BY <1>5, <2>3, <2>7, NoEvents, NumberedOthers
  <2> QED
    BY <1>3, <2>6, <2>7, <2>8
<1>10. DOMAIN pend' = {} /\ emitted' - Len(pend') = emitted'
  <2>1. Len(pend') = 0 /\ DOMAIN pend' = {}
    BY <1>3
  <2>2. emitted' - 0 = emitted'
    <3>1. \A n \in Nat : n - 0 = n
      OBVIOUS
    <3> QED
      BY <1>5, <3>1, Zenon
  <2> QED
    BY <2>1, <2>2
<1> QED
  BY <1>9, <1>10 DEF EventsInOrder

LEMMA EventsStep == Past /\ EventsInOrder /\ [Next]_vars => EventsInOrder'
<1> SUFFICES ASSUME Past, EventsInOrder, [Next]_vars PROVE EventsInOrder'
  OBVIOUS
<1>1. CASE Exit
  BY <1>1 DEF Exit, EventsInOrder, Open, serverVars, clientVars, appVars
<1>2. CASE UNCHANGED vars
  BY <1>2 DEF vars, EventsInOrder, Open
<1> QED
  BY <1>1, <1>2, EventsClient, EventsHandled, EventsTick DEF Next

\* Numbers in order, told as the feed of a client.
LEMMA FeedOfNumbered ==
  ASSUME TypeOK, EventsInOrder, NEW c \in device, Open(c)
  PROVE  Feed(c) = [i \in 1 .. emitted - cursor[c] |-> cursor[c] + i]
<1>1. /\ c \in Conns /\ outbox[c] \in Seq(ServerMsg) /\ cursor[c] \in Nat
      /\ pend \in Seq(Nat) /\ Len(pend) \in Nat /\ emitted \in Nat
      /\ DOMAIN pend = 1 .. Len(pend)
  BY BoundsAssumption DEF TypeOK
<1> DEFINE p == Only(outbox[c], EventMsgs)
           k == cursor[c]
           b == emitted - Len(pend)
           a == [i \in DOMAIN p |-> p[i].arg]
<1>2. p \in Seq(ServerMsg) /\ Len(p) = b - k /\ \A i \in 1 .. b - k : p[i] = Session(k + i)
  BY <1>1, OnlyType DEF EventsInOrder, Numbered
<1>3. Feed(c) = a \o pend
  BY DEF Feed, EventMsgs
<1>4. \A i \in DOMAIN pend : pend[i] = b + i
  BY DEF EventsInOrder
<1> HIDE DEF p
<1>5. DOMAIN p = 1 .. b - k /\ b - k \in Nat
  BY <1>2
<1>6. \A i \in 1 .. b - k : p[i].arg = k + i /\ k + i \in Nat
  BY <1>1, <1>2 DEF Session
<1>7. a \in Seq(Nat) /\ Len(a) = b - k /\ \A i \in 1 .. b - k : a[i] = k + i
  BY <1>5, <1>6
<1> HIDE DEF a
<1> DEFINE r == a \o pend
<1>8. /\ r \in Seq(Nat) /\ Len(r) = Len(a) + Len(pend)
      /\ \A i \in 1 .. Len(a) + Len(pend) : r[i] = IF i <= Len(a) THEN a[i] ELSE pend[i - Len(a)]
  BY <1>1, <1>7, ConcatProperties
<1> HIDE DEF r
<1>9. Len(r) = emitted - k
  BY <1>1, <1>7, <1>8
<1>10. ASSUME NEW i \in 1 .. emitted - k PROVE r[i] = k + i
  <2>1. CASE i <= b - k
    BY <1>1, <1>5, <1>7, <1>8, <1>9, <2>1
  <2>2. CASE ~(i <= b - k)
    <3>1. i - (b - k) \in 1 .. Len(pend)
      BY <1>1, <1>5, <2>2
    <3>2. r[i] = pend[i - (b - k)]
      BY <1>5, <1>7, <1>8, <1>9, <2>2
    <3>3. pend[i - (b - k)] = b + (i - (b - k))
      BY <1>1, <1>4, <3>1
    <3>4. b + (i - (b - k)) = k + i
      <4>1. b \in Int /\ k \in Int /\ i \in Int
        BY <1>1 DEF b
      <4> HIDE DEF b, k
      <4> QED
        BY <4>1
    <3> QED
      BY <3>2, <3>3, <3>4
  <2> QED
    BY <2>1, <2>2
<1>11. r = [i \in 1 .. emitted - k |-> k + i]
  BY <1>8, <1>9, <1>10
<1> QED
  BY <1>3, <1>11 DEF r

\* However arrivals, departures, bursts and ticks interleave, the session
\* events an attached client has not read are on their way to it, each of them
\* once and in order.
THEOREM FeedExact == Spec => []EventFeedExact
<1>1. Init => Past /\ EventsInOrder
  BY PastInit DEF Init, EventsInOrder
<1>2. Past /\ EventsInOrder /\ [Next]_vars => (Past /\ EventsInOrder)'
  BY PastStep, EventsStep
<1>3. Past /\ EventsInOrder => EventFeedExact
  BY FeedOfNumbered DEF Past, EventFeedExact
<1> QED
  BY <1>1, <1>2, <1>3, PTL DEF Spec

-----------------------------------------------------------------------------
(* No snapshot twice running. *)

\* NewestIn for the first j - 1 messages of q.
NewestBefore(q, j, v, d) ==
  \/ \E i \in 1 .. j - 1 : q[i] = Snapshot(d) /\ \A k \in 1 .. j - 1 : k > i => ~IsSnapshot(q[k])
  \/ v = d /\ \A k \in 1 .. j - 1 : ~IsSnapshot(q[k])

\* Every snapshot of q differs from the one before it, the first from v.
Changing(q, v) ==
  \A j \in DOMAIN q : IsSnapshot(q[j]) =>
    \A d \in Doms : NewestBefore(q, j, v, d) => q[j].arg # d

NewsOnly == \A c \in Conns : Changing(outbox[c], view[c])

LEMMA NewestOfPrefix ==
  ASSUME NEW q \in Seq(ServerMsg), NEW j \in DOMAIN q, NEW v, NEW d
  PROVE  NewestIn(SubSeq(q, 1, j - 1), v, d) <=> NewestBefore(q, j, v, d)
<1> DEFINE r == SubSeq(q, 1, j - 1)
<1>1. DOMAIN r = 1 .. j - 1 /\ \A i \in 1 .. j - 1 : r[i] = q[i]
  OBVIOUS
<1> HIDE DEF r
<1>2. NewestIn(r, v, d) <=> NewestBefore(q, j, v, d)
  BY <1>1 DEF NewestIn, NewestBefore
<1> QED
  BY <1>2 DEF r

LEMMA NewsOnlySuffices == TypeOK /\ NewsOnly => NoDuplicateSnapshots
<1> SUFFICES ASSUME TypeOK, NewsOnly, NEW c \in Conns, NEW j \in DOMAIN outbox[c],
                    IsSnapshot(outbox[c][j]), NEW d \in Doms,
                    NewestIn(SubSeq(outbox[c], 1, j - 1), view[c], d)
             PROVE  outbox[c][j].arg # d
  BY DEF NoDuplicateSnapshots
<1>1. outbox[c] \in Seq(ServerMsg)
  BY DEF TypeOK
<1>2. NewestBefore(outbox[c], j, view[c], d)
  BY <1>1, NewestOfPrefix
<1> QED
  BY <1>2 DEF NewsOnly, Changing

\* At most one snapshot is the newest.
LEMMA NewestUnique ==
  ASSUME NEW q \in Seq(ServerMsg), NEW v, NEW d, NEW e, NewestIn(q, v, d), NewestIn(q, v, e)
  PROVE  d = e
<1>1. \A i \in DOMAIN q : i \in Nat
  OBVIOUS
<1>2. \A x, y : Snapshot(x) = Snapshot(y) => x = y
  <2> SUFFICES ASSUME NEW x, NEW y, Snapshot(x) = Snapshot(y) PROVE x = y
    OBVIOUS
  <2>1. Snapshot(x).arg = x /\ Snapshot(y).arg = y
    BY DEF Snapshot
  <2> QED
    BY <2>1
<1>3. \A x : IsSnapshot(Snapshot(x))
  BY DEF IsSnapshot, Snapshot
<1>4. CASE \E i \in DOMAIN q : IsSnapshot(q[i])
  <2>1. PICK i \in DOMAIN q : q[i] = Snapshot(d) /\ \A k \in DOMAIN q : k > i => ~IsSnapshot(q[k])
    BY <1>4 DEF NewestIn
  <2>2. PICK j \in DOMAIN q : q[j] = Snapshot(e) /\ \A k \in DOMAIN q : k > j => ~IsSnapshot(q[k])
    BY <1>4 DEF NewestIn
  <2>3. ~(i > j) /\ ~(j > i)
    BY <1>3, <2>1, <2>2
  <2>4. i = j
    BY <1>1, <2>3
  <2> QED
    BY <1>2, <2>1, <2>2, <2>4
<1>5. CASE ~ \E i \in DOMAIN q : IsSnapshot(q[i])
  BY <1>3, <1>5 DEF NewestIn
<1> QED
  BY <1>4, <1>5

\* What comes before a position of q is the same in an extension of q.
LEMMA PrefixOfExtension ==
  ASSUME NEW q \in Seq(ServerMsg), NEW ms \in Seq(ServerMsg), NEW j \in DOMAIN q, NEW v, NEW d
  PROVE  NewestBefore(q \o ms, j, v, d) => NewestBefore(q, j, v, d)
<1> DEFINE r == q \o ms
<1>1. /\ DOMAIN q = 1 .. Len(q) /\ Len(q) \in Nat
      /\ \A i \in DOMAIN q : r[i] = q[i]
  BY Extended
<1> HIDE DEF r
<1>2. \A i \in 1 .. j - 1 : r[i] = q[i]
  BY <1>1
<1>3. NewestBefore(r, j, v, d) => NewestBefore(q, j, v, d)
  BY <1>2 DEF NewestBefore
<1> QED
  BY <1>3 DEF r

LEMMA ChangingOthers ==
  ASSUME NEW q \in Seq(ServerMsg), NEW ms \in Seq(ServerMsg), NEW v,
         Changing(q, v), \A i \in DOMAIN ms : ~IsSnapshot(ms[i])
  PROVE  Changing(q \o ms, v)
<1>1. /\ \A i \in DOMAIN q : (q \o ms)[i] = q[i]
      /\ \A i \in DOMAIN (q \o ms) :
           i \in DOMAIN q \/ (i - Len(q) \in DOMAIN ms /\ (q \o ms)[i] = ms[i - Len(q)])
  BY Extended
<1>2. \A i \in DOMAIN (q \o ms) : IsSnapshot((q \o ms)[i]) => i \in DOMAIN q
  BY <1>1
<1>3. \A j \in DOMAIN q : \A d : NewestBefore(q \o ms, j, v, d) => NewestBefore(q, j, v, d)
  BY PrefixOfExtension
<1> QED
  BY <1>1, <1>2, <1>3 DEF Changing

LEMMA ChangingSnapshot ==
  ASSUME NEW q \in Seq(ServerMsg), NEW v, NEW d \in Doms, NEW e,
         Changing(q, v), NewestIn(q, v, e), e # d
  PROVE  Changing(q \o <<Snapshot(d)>>, v)
<1> DEFINE ms == <<Snapshot(d)>>
           r == q \o ms
<1>1. ms \in Seq(ServerMsg) /\ ms[1] = Snapshot(d) /\ DOMAIN ms = {1}
  BY MessagesTyped
<1> HIDE DEF ms
<1>2. /\ Len(q) \in Nat /\ DOMAIN q = 1 .. Len(q)
      /\ \A i \in DOMAIN q : r[i] = q[i]
      /\ \A i \in DOMAIN r :
           i \in DOMAIN q \/ (i > Len(q) /\ i - Len(q) \in DOMAIN ms /\ r[i] = ms[i - Len(q)])
      /\ r \in Seq(ServerMsg)
  BY <1>1, Extended
<1>3. \A j \in DOMAIN q : \A x : NewestBefore(r, j, v, x) => NewestBefore(q, j, v, x)
  BY <1>1, PrefixOfExtension
<1> HIDE DEF r
<1> SUFFICES ASSUME NEW j \in DOMAIN r, IsSnapshot(r[j]), NEW x \in Doms, NewestBefore(r, j, v, x)
             PROVE  r[j].arg # x
  BY DEF Changing, r, ms
<1>4. CASE j \in DOMAIN q
  BY <1>2, <1>3, <1>4 DEF Changing
<1>5. CASE j \notin DOMAIN q
  <2>1. j \in Nat
    <3>1. DOMAIN r = 1 .. Len(r)
      BY <1>2
    <3> QED
      BY <3>1
  <2>2. j = Len(q) + 1 /\ r[j] = Snapshot(d)
    BY <1>1, <1>2, <1>5, <2>1
  <2>3. \A i : i \in 1 .. j - 1 <=> i \in DOMAIN q
    BY <1>2, <2>2
  <2>4. NewestIn(q, v, x)
    BY <1>2, <2>3 DEF NewestBefore, NewestIn
  <2>5. x = e
    BY <2>4, NewestUnique
  <2> QED
    BY <2>2, <2>5 DEF Snapshot
<1> QED
  BY <1>4, <1>5

LEMMA ChangingFirst ==
  ASSUME NEW d \in Doms
  PROVE  Changing((<< >> \o <<Bare("Welcome")>>) \o <<Snapshot(d)>>, NoSnap)
<1> DEFINE ms == <<Bare("Welcome")>>
           r  == << >> \o ms
<1>1. << >> \in Seq(ServerMsg) /\ Changing(<< >>, NoSnap) /\ NewestIn(<< >>, NoSnap, NoSnap)
  BY DEF Changing, NewestIn
<1>2. ms \in Seq(ServerMsg) /\ \A i \in DOMAIN ms : ~IsSnapshot(ms[i])
  <2>1. "Welcome" \in BareMsgs
    BY DEF BareMsgs
  <2> QED
    BY <2>1, BareIsOther
<1> HIDE DEF ms
<1>3. r \in Seq(ServerMsg) /\ Changing(r, NoSnap) /\ NewestIn(r, NoSnap, NoSnap)
  <2>1. r \in Seq(ServerMsg)
    BY <1>1, <1>2
  <2>2. Changing(r, NoSnap)
    BY <1>1, <1>2, ChangingOthers
  <2>3. NewestIn(r, NoSnap, NoSnap)
    BY <1>1, <1>2, NewestAfterOthers
  <2> QED
    BY <2>1, <2>2, <2>3
<1> HIDE DEF r
<1>4. Changing(r \o <<Snapshot(d)>>, NoSnap)
  BY <1>3, DomsAssumption, ChangingSnapshot
<1> QED
  BY <1>4 DEF r, ms

LEMMA ChangingRead ==
  ASSUME NEW q \in Seq(ServerMsg), q # << >>, NEW v, Changing(q, v)
  PROVE  Changing(Tail(q), IF IsSnapshot(Head(q)) THEN Head(q).arg ELSE v)
<1> DEFINE h == Head(q)
           t == Tail(q)
           w == IF IsSnapshot(h) THEN h.arg ELSE v
<1>1. /\ Len(q) \in Nat \ {0} /\ DOMAIN q = 1 .. Len(q)
      /\ h = q[1] /\ h \in ServerMsg
      /\ DOMAIN t = 1 .. Len(q) - 1
      /\ \A i \in 1 .. Len(q) - 1 : t[i] = q[i + 1]
  BY HeadTailProperties, LenProperties
<1>2. IsSnapshot(h) => h = Snapshot(h.arg)
  BY <1>1 DEF ServerMsg, BareMsgs, IsSnapshot, Snapshot
<1> HIDE DEF h, t
<1> SUFFICES ASSUME NEW j \in DOMAIN t, IsSnapshot(t[j]), NEW d \in Doms, NewestBefore(t, j, w, d)
             PROVE  t[j].arg # d
  BY DEF Changing, h, t
<1>3. /\ j \in Nat \ {0} /\ j + 1 \in DOMAIN q /\ t[j] = q[j + 1]
      /\ \A i \in 1 .. j - 1 : i + 1 \in 2 .. j /\ t[i] = q[i + 1]
  BY <1>1
<1>4. \A k \in 1 .. (j + 1) - 1 : k = 1 \/ (k - 1 \in 1 .. j - 1 /\ q[k] = t[k - 1])
  BY <1>1, <1>3
<1>5. NewestBefore(q, j + 1, v, d)
  <2>1. CASE \E i \in 1 .. j - 1 : t[i] = Snapshot(d) /\ \A k \in 1 .. j - 1 : k > i => ~IsSnapshot(t[k])
    <3>1. PICK i \in 1 .. j - 1 : t[i] = Snapshot(d) /\ \A k \in 1 .. j - 1 : k > i => ~IsSnapshot(t[k])
      BY <2>1
    <3>2. i + 1 \in 1 .. (j + 1) - 1 /\ q[i + 1] = Snapshot(d)
      BY <1>3, <3>1
    <3>3. \A k \in 1 .. (j + 1) - 1 : k > i + 1 => ~IsSnapshot(q[k])
      BY <1>4, <3>1
    <3> QED
      BY <3>2, <3>3 DEF NewestBefore
  <2>2. CASE w = d /\ \A k \in 1 .. j - 1 : ~IsSnapshot(t[k])
    <3>1. \A k \in 1 .. (j + 1) - 1 : k > 1 => ~IsSnapshot(q[k])
      BY <1>4, <2>2
    <3>2. 1 \in 1 .. (j + 1) - 1
      BY <1>3
    <3>3. CASE IsSnapshot(h)
      <4>1. q[1] = Snapshot(d)
        BY <1>1, <1>2, <2>2, <3>3
      <4> QED
        BY <3>1, <3>2, <4>1 DEF NewestBefore
    <3>4. CASE ~IsSnapshot(h)
      <4>1. v = d /\ \A k \in 1 .. (j + 1) - 1 : ~IsSnapshot(q[k])
        BY <1>1, <1>4, <2>2, <3>4
      <4> QED
        BY <4>1 DEF NewestBefore
    <3> QED
      BY <3>3, <3>4
  <2> QED
    BY <2>1, <2>2 DEF NewestBefore
<1> QED
  BY <1>3, <1>5 DEF Changing

LEMMA NewsClient ==
  ASSUME Past, NewsOnly, NEW c \in Conns, ClientStep(c)
  PROVE  NewsOnly'
<1>1. TypeOK
  BY DEF Past
<1>2. \A x \in Conns \ {c} : view'[x] = view[x] /\ outbox'[x] = outbox[x]
  BY <1>1 DEF ClientStep, Connect, Send, Close, Read, ReadEof, ReaderEof, TypeOK
<1>3. \A v : Changing(<< >>, v)
  BY DEF Changing
<1>4. Changing(outbox'[c], view'[c])
  <2>1. CASE Connect(c) \/ ReadEof(c) \/ ReaderEof(c) \/ \E m \in Menu : Send(c, m)
    <3>1. UNCHANGED <<outbox, view>>
      BY <2>1 DEF Connect, ReadEof, ReaderEof, Send
    <3> QED
      BY <3>1 DEF NewsOnly
  <2>2. CASE Close(c)
    <3>1. outbox'[c] = << >>
      BY <1>1, <2>2 DEF Close, TypeOK
    <3> QED
      BY <1>3, <3>1
  <2>3. CASE Read(c)
    <3> DEFINE m == Head(outbox[c])
    <3>1. outbox[c] \in Seq(ServerMsg) /\ outbox[c] # << >> /\ phase[c] \in {"hello", "up"}
      BY <1>1, <2>3 DEF Read, Open, TypeOK
    <3>2. CASE outbox'[c] = << >>
      BY <1>3, <3>2
    <3>3. CASE outbox'[c] # << >>
      <4>1. /\ phase[c] = "hello" => m.type = "Welcome"
            /\ outbox'[c] = Tail(outbox[c])
            /\ view'[c] = IF phase[c] = "up" /\ m.type = "Snapshot" THEN m.arg ELSE view[c]
        BY <1>1, <2>3, <3>3 DEF Read, TypeOK
      <4>2. view'[c] = IF IsSnapshot(m) THEN m.arg ELSE view[c]
        BY <3>1, <4>1 DEF IsSnapshot
      <4> QED
        BY <3>1, <4>1, <4>2, ChangingRead DEF NewsOnly
    <3> QED
      BY <3>2, <3>3
  <2> QED
    BY <2>1, <2>2, <2>3 DEF ClientStep
<1> QED
  BY <1>2, <1>4 DEF NewsOnly

LEMMA NewsHandled ==
  ASSUME Past, AttachedAgree, NewsOnly, NEW c \in Conns, HandleEvent(c)
  PROVE  NewsOnly'
<1>1. TypeOK /\ Untouched /\ dom \in Doms /\ outbox \in [Conns -> Seq(ServerMsg)]
  BY DEF Past, TypeOK
<1>2. view' = view
  BY DEF HandleEvent, HandleConnect, HandleDisconnect, HandleBadHello,
     HandleHello, HandleEarly, HandleIntent, HandleEdit, HandleQuit, HandlePing,
     HandleEditorDone, HandleShutdown, Take, clientVars
<1>3. CASE HandleConnect(c) \/ HandleDisconnect(c) \/ HandleIntent(c)
           \/ HandleEditorDone(c) \/ HandleShutdown(c)
  <2>1. outbox' = outbox
    BY <1>3 DEF HandleConnect, HandleDisconnect, HandleIntent,
       HandleEditorDone, HandleShutdown
  <2> QED
    BY <1>2, <2>1 DEF NewsOnly
<1>4. ASSUME NEW t \in BareMsgs,
             \A x \in Conns : outbox'[x] = outbox[x] \/ outbox'[x] = outbox[x] \o <<Bare(t)>>
      PROVE  NewsOnly'
  <2>1. \A x \in Conns : Changing(outbox[x] \o <<Bare(t)>>, view[x])
    <3> TAKE x \in Conns
    <3>1. outbox[x] \in Seq(ServerMsg) /\ Changing(outbox[x], view[x])
      BY <1>1 DEF NewsOnly
    <3>2. <<Bare(t)>> \in Seq(ServerMsg) /\ \A i \in DOMAIN <<Bare(t)>> : ~IsSnapshot(<<Bare(t)>>[i])
      BY BareIsOther
    <3> QED
      BY <3>1, <3>2, ChangingOthers
  <2> QED
    BY <1>2, <1>4, <2>1 DEF NewsOnly
<1>5. CASE HandleBadHello(c) \/ HandleEarly(c)
  <2>1. Reject(c) /\ "Rejected" \in BareMsgs
    BY <1>5 DEF HandleBadHello, HandleEarly, BareMsgs
  <2>2. \A x \in Conns : outbox'[x] = outbox[x] \/ outbox'[x] = outbox[x] \o <<Bare("Rejected")>>
    BY <1>1, <2>1, RejectEffect
  <2> QED
    BY <1>4, <2>1, <2>2
<1>6. CASE HandleEdit(c) \/ HandleQuit(c) \/ HandlePing(c)
  <2>1. PICK t \in BareMsgs : Replied(c, t)
    BY <1>6 DEF HandleEdit, HandleQuit, HandlePing, Replied, BareMsgs
  <2>2. c \in device
    BY <1>6 DEF HandleEdit, HandleQuit, HandlePing
  <2>3. \A x \in Conns : outbox'[x] = outbox[x] \/ outbox'[x] = outbox[x] \o <<Bare(t)>>
    BY <1>1, <2>1, <2>2, ReplyEffect
  <2> QED
    BY <1>4, <2>3
<1>7. CASE HandleHello(c)
  <2>1. /\ c \notin device
        /\ \A x \in Conns \ {c} :
             /\ x \notin device => outbox'[x] = outbox[x]
             /\ x \in device /\ Open(x) =>
                  outbox'[x] = IF last # dom THEN outbox[x] \o <<Snapshot(dom)>> ELSE outbox[x]
        /\ c \in clients /\ Open(c) =>
             outbox'[c] = (outbox[c] \o <<Bare("Welcome")>>) \o <<Snapshot(dom)>>
        /\ ~(c \in clients /\ Open(c)) => outbox'[c] = outbox[c]
    BY <1>1, <1>7, HelloEffect
  <2>2. Changing(outbox'[c], view[c])
    <3>1. CASE c \in clients /\ Open(c)
      <4>1. outbox[c] = << >> /\ view[c] = NoSnap
        BY <1>1, <2>1, <3>1 DEF Untouched, Ungreeted
      <4>2. outbox'[c] = (<< >> \o <<Bare("Welcome")>>) \o <<Snapshot(dom)>>
        BY <2>1, <3>1, <4>1
      <4> QED
        BY <1>1, <4>1, <4>2, ChangingFirst
    <3>2. CASE ~(c \in clients /\ Open(c))
      BY <2>1, <3>2 DEF NewsOnly
    <3> QED
      BY <3>1, <3>2
  <2>3. ASSUME NEW x \in Conns \ {c}
        PROVE  Changing(outbox'[x], view[x])
    <3>1. CASE outbox'[x] = outbox[x]
      BY <3>1 DEF NewsOnly
    <3>2. CASE x \in device /\ Open(x) /\ last # dom /\ outbox'[x] = outbox[x] \o <<Snapshot(dom)>>
      <4>1. outbox[x] \in Seq(ServerMsg) /\ Changing(outbox[x], view[x])
        BY <1>1 DEF NewsOnly
      <4>2. NewestIn(outbox[x], view[x], last)
        BY <3>2 DEF AttachedAgree
      <4> QED
        BY <1>1, <3>2, <4>1, <4>2, ChangingSnapshot
    <3>3. CASE x \in device /\ ~Open(x)
      <4>1. outbox'[x] = outbox[x]
        BY <1>7, <3>3, WrittenAt DEF HandleHello
      <4> QED
        BY <3>1, <4>1
    <3> QED
      BY <2>1, <3>1, <3>2, <3>3
  <2> QED
    BY <1>2, <2>2, <2>3 DEF NewsOnly
<1> QED
  BY <1>3, <1>5, <1>6, <1>7 DEF HandleEvent

LEMMA NewsTick ==
  ASSUME Past, AttachedAgree, NewsOnly, Tick
  PROVE  NewsOnly'
<1>1. TypeOK
  BY DEF Past
<1>2. PICK evs : TickWith(evs)
  BY <1>1, TickEffect
<1>3. view' = view
  BY DEF Tick, clientVars
<1>4. pend \o evs \in Seq(Nat) /\ dom' \in Doms
  BY <1>1, <1>2, AppTyped DEF TickWith
<1> DEFINE ms == Carried(pend \o evs)
<1>5. ms \in Seq(ServerMsg) /\ \A i \in DOMAIN ms : ~IsSnapshot(ms[i])
  <2>1. /\ ms \in Seq(ServerMsg) /\ DOMAIN ms = DOMAIN (pend \o evs)
        /\ \A i \in DOMAIN (pend \o evs) : ms[i] = Session((pend \o evs)[i])
    BY <1>4, CarriedPlain
  <2>2. \A n : ~IsSnapshot(Session(n))
    BY DEF IsSnapshot, Session
  <2> QED
    BY <2>1, <2>2
<1> HIDE DEF ms
<1> SUFFICES ASSUME NEW x \in Conns PROVE Changing(outbox'[x], view[x])
  BY <1>3 DEF NewsOnly
<1>6. outbox[x] \in Seq(ServerMsg) /\ Changing(outbox[x], view[x])
  BY <1>1 DEF NewsOnly, TypeOK
<1>7. CASE x \in device /\ Open(x)
  <2> DEFINE q == outbox[x] \o ms
  <2>1. NewestIn(outbox[x], view[x], last)
    BY <1>7 DEF AttachedAgree
  <2>2. q \in Seq(ServerMsg) /\ Changing(q, view[x]) /\ NewestIn(q, view[x], last)
    <3>1. q \in Seq(ServerMsg)
      BY <1>5, <1>6
    <3>2. Changing(q, view[x])
      BY <1>5, <1>6, ChangingOthers
    <3>3. NewestIn(q, view[x], last)
      BY <1>5, <1>6, <2>1, NewestAfterOthers
    <3> QED
      BY <3>1, <3>2, <3>3
  <2>3. outbox'[x] = IF last # dom' THEN q \o <<Snapshot(dom')>> ELSE q
    BY <1>2, <1>7 DEF TickWith, ms
  <2> HIDE DEF q
  <2>4. last # dom' => Changing(q \o <<Snapshot(dom')>>, view[x])
    BY <1>4, <2>2, ChangingSnapshot
  <2> QED
    BY <2>2, <2>3, <2>4
<1>8. CASE ~(x \in device /\ Open(x))
  <2>1. outbox'[x] = outbox[x]
    BY <1>2, <1>8 DEF TickWith
  <2> QED
    BY <1>6, <2>1
<1> QED
  BY <1>7, <1>8

LEMMA NewsStep == Past /\ AttachedAgree /\ NewsOnly /\ [Next]_vars => NewsOnly'
<1> SUFFICES ASSUME Past, AttachedAgree, NewsOnly, [Next]_vars PROVE NewsOnly'
  OBVIOUS
<1>1. CASE Exit
  BY <1>1 DEF Exit, NewsOnly, clientVars
<1>2. CASE UNCHANGED vars
  BY <1>2 DEF vars, NewsOnly
<1> QED
  BY <1>1, <1>2, NewsClient, NewsHandled, NewsTick DEF Next

LEMMA PastAgreeStep == Past /\ AttachedAgree /\ [Next]_vars => (Past /\ AttachedAgree)'
  BY PastStep, AgreeStep DEF Past

LEMMA PastAgreeInit == Init => Past /\ AttachedAgree
  BY PastInit DEF Init, AttachedAgree

\* No client is ever sent the snapshot it was sent last: neither by the Hello
\* of another client nor by the tick.
THEOREM NoneTwice == Spec => []NoDuplicateSnapshots
<1>1. Init => Past /\ AttachedAgree /\ NewsOnly
  BY PastAgreeInit DEF Init, NewsOnly, Changing
<1>2. Past /\ AttachedAgree /\ NewsOnly /\ [Next]_vars => (Past /\ AttachedAgree /\ NewsOnly)'
  BY PastAgreeStep, NewsStep
<1>3. Past /\ NewsOnly => NoDuplicateSnapshots
  BY NewsOnlySuffices DEF Past
<1> QED
  BY <1>1, <1>2, <1>3, PTL DEF Spec

-----------------------------------------------------------------------------
(* The snapshots implement SnapshotFeed. *)

\* What SnapshotFeed's variable copy stands for.
Copies == [c \in Conns |-> IF c \in Audience THEN Delivered(c) ELSE NoSnap]

\* The members are those attached clients that still hold their end, and each
\* was delivered the daemon's last snapshot.
AllAlike == Copies = [c \in Conns |-> IF c \in Audience THEN last ELSE NoSnap]

LEMMA CopiesAgree == TypeOK /\ AttachedAgree => AllAlike
<1> SUFFICES ASSUME TypeOK, AttachedAgree PROVE AllAlike
  OBVIOUS
<1>1. ASSUME NEW c \in Conns, c \in Audience PROVE Delivered(c) = last
  <2>1. /\ NewestIn(outbox[c], view[c], last)
        /\ outbox[c] \in Seq(ServerMsg) /\ last \in Doms \cup {NoSnap}
    BY <1>1 DEF AttachedAgree, Audience, TypeOK
  <2> DEFINE D == Delivered(c)
  <2>2. D \in Doms \cup {NoSnap} /\ NewestIn(outbox[c], view[c], D)
    BY <2>1 DEF Delivered
  <2> HIDE DEF D
  <2>3. D = last
    BY <2>1, <2>2, NewestUnique
  <2> QED
    BY <2>3 DEF D
<1> QED
  BY <1>1 DEF Copies, AllAlike

\* Steps of SnapshotFeed, told by what becomes of the group and the value.
FeedStep ==
  \/ last' = last /\ Audience' = Audience
  \/ last' = last /\ \E m \in Audience : Audience' = Audience \ {m}
  \/ last' # last /\ last' \in Doms /\ Audience' = Audience
  \/ last' \in Doms /\ \E m \in Conns \ Audience : Audience' = Audience \cup {m}

LEMMA FeedStepFeeds ==
  ASSUME TypeOK, AttachedAgree, TypeOK', AttachedAgree', FeedStep
  PROVE  [Feeding!FeedNext]_(Feeding!feedVars)
<1>1. Copies = [c \in Conns |-> IF c \in Audience THEN last ELSE NoSnap]
  BY CopiesAgree DEF AllAlike
<1>2. Copies' = [c \in Conns |-> IF c \in Audience' THEN last' ELSE NoSnap]
  <2>1. AllAlike'
    BY CopiesAgree, PTL
  <2> QED
    BY <2>1 DEF AllAlike
<1>3. Audience \subseteq Conns
  BY DEF Audience, TypeOK
<1>4. CASE last' = last /\ Audience' = Audience
  <2>1. Copies' = Copies
    BY <1>1, <1>2, <1>4
  <2> QED
    BY <1>4, <2>1 DEF Feeding!feedVars, Copies
<1>5. ASSUME NEW m \in Audience, last' = last, Audience' = Audience \ {m}
      PROVE  Feeding!FeedNext
  <2>1. Copies' = [Copies EXCEPT ![m] = NoSnap]
    BY <1>1, <1>2, <1>3, <1>5
  <2>2. Feeding!Leave(m)
    BY <1>5, <2>1 DEF Feeding!Leave, Copies
  <2> QED
    BY <1>3, <2>2 DEF Feeding!FeedNext
<1>6. ASSUME NEW v \in Doms, last' = v, last' # last, Audience' = Audience
      PROVE  Feeding!FeedNext
  <2>1. Copies' = [c \in Conns |-> IF c \in Audience THEN v ELSE NoSnap]
    BY <1>2, <1>6
  <2>2. Feeding!Publish(v)
    BY <1>6, <2>1 DEF Feeding!Publish, Feeding!Handed, Copies
  <2> QED
    BY <1>6, <2>2 DEF Feeding!FeedNext
<1>7. ASSUME NEW v \in Doms, NEW m \in Conns \ Audience, last' = v, Audience' = Audience \cup {m}
      PROVE  Feeding!FeedNext
  <2>1. Feeding!Join(m, v)
    BY <1>2, <1>7 DEF Feeding!Join, Feeding!Handed, Copies
  <2> QED
    BY <1>7, <2>1 DEF Feeding!FeedNext
<1> QED
  BY <1>4, <1>5, <1>6, <1>7 DEF FeedStep

\* Who is in the audience after a step that leaves the phases alone.
LEMMA AudienceAfter ==
  ASSUME phase' = phase
  PROVE  Audience' = {c \in device' : Open(c)}
  BY DEF Audience, Open

LEMMA FeedClient ==
  ASSUME Past, NEW c \in Conns, ClientStep(c)
  PROVE  FeedStep
<1>1. TypeOK /\ Untouched
  BY DEF Past
<1>2. last' = last /\ device' = device /\ device \subseteq Conns
  BY <1>1 DEF ClientStep, Connect, Send, Close, Read, ReadEof, ReaderEof, serverVars, TypeOK
<1>3. \A x \in Conns \ {c} : phase'[x] = phase[x]
  BY <1>1 DEF ClientStep, Connect, Send, Close, Read, ReadEof, ReaderEof, TypeOK
<1>4. CASE Connect(c)
  <2>1. Ungreeted(c)
    BY <1>4 DEF Connect, Ungreeted
  <2>2. c \notin device
    BY <1>1, <2>1 DEF Untouched
  <2>3. Audience' = Audience
    BY <1>2, <1>3, <2>2 DEF Audience, Open
  <2> QED
    BY <1>2, <2>3 DEF FeedStep
<1>5. CASE ~Connect(c)
  <2>1. Open(c)' => Open(c)
    BY <1>1, <1>5 DEF ClientStep, Connect, Send, Close, Read, ReadEof, ReaderEof, Open, TypeOK
  <2>2. Audience' = Audience \/ (c \in Audience /\ Audience' = Audience \ {c})
    BY <1>2, <1>3, <2>1 DEF Audience, Open
  <2> QED
    BY <1>2, <2>2 DEF FeedStep
<1> QED
  BY <1>4, <1>5

LEMMA FeedHandled ==
  ASSUME Past, NEW c \in Conns, HandleEvent(c)
  PROVE  FeedStep
<1>1. TypeOK /\ dom \in Doms /\ device \subseteq Conns
  BY DEF Past, TypeOK
<1>2. phase' = phase
  BY DEF HandleEvent, HandleConnect, HandleDisconnect, HandleBadHello,
     HandleHello, HandleEarly, HandleIntent, HandleEdit, HandleQuit, HandlePing,
     HandleEditorDone, HandleShutdown, Take, clientVars
<1>3. Audience' = {x \in device' : Open(x)} /\ Audience = {x \in device : Open(x)}
  BY <1>2, AudienceAfter DEF Audience
<1>4. ASSUME last' = last, device' = device \/ device' = device \ {c} PROVE FeedStep
  <2>1. Audience' = Audience \/ (c \in Audience /\ Audience' = Audience \ {c})
    BY <1>3, <1>4
  <2> QED
    BY <1>4, <2>1 DEF FeedStep
<1>5. CASE ~HandleHello(c)
  <2>1. last' = last
    BY <1>5 DEF HandleEvent, HandleConnect, HandleDisconnect, HandleBadHello,
       HandleEarly, HandleIntent, HandleEdit, HandleQuit, HandlePing,
       HandleEditorDone, HandleShutdown, Reject, serverVars
  <2>2. device' = device \/ device' = device \ {c}
    BY <1>5 DEF HandleEvent, HandleConnect, HandleDisconnect, HandleBadHello,
       HandleEarly, HandleIntent, HandleEdit, HandleQuit, HandlePing,
       HandleEditorDone, HandleShutdown, Reject, Kept, serverVars
  <2> QED
    BY <1>4, <2>1, <2>2
<1>6. CASE HandleHello(c)
  <2>1. last' = dom /\ device' \subseteq Conns
    BY <1>1, <1>6 DEF HandleHello, TypeOK
  <2>2. /\ c \notin device
        /\ \A x \in Conns \ {c} :
             /\ x \notin device => x \notin device'
             /\ x \in device /\ Open(x) => x \in device'
        /\ c \in clients /\ Open(c) => c \in device'
        /\ ~(c \in clients /\ Open(c)) => c \notin device'
    BY <1>1, <1>6, HelloEffect
  <2>3. CASE c \in clients /\ Open(c)
    <3>1. Audience' = Audience \cup {c} /\ c \notin Audience
      BY <1>1, <1>3, <2>1, <2>2, <2>3
    <3> QED
      BY <1>1, <2>1, <3>1 DEF FeedStep
  <2>4. CASE ~(c \in clients /\ Open(c))
    <3>1. Audience' = Audience
      BY <1>1, <1>3, <2>1, <2>2, <2>4
    <3> QED
      BY <1>1, <2>1, <3>1 DEF FeedStep
  <2> QED
    BY <2>3, <2>4
<1> QED
  BY <1>5, <1>6

LEMMA FeedTick ==
  ASSUME Past, Tick
  PROVE  FeedStep
<1>1. TypeOK /\ device \subseteq Conns
  BY DEF Past, TypeOK
<1>2. PICK evs : TickWith(evs)
  BY <1>1, TickEffect
<1>3. dom' \in Doms
  BY <1>2 DEF TickWith, AppStep
<1>4. phase' = phase
  BY DEF Tick, clientVars
<1>5. Audience' = {x \in device' : Open(x)} /\ Audience = {x \in device : Open(x)}
  BY <1>4, AudienceAfter DEF Audience
<1>6. Audience' = Audience
  BY <1>1, <1>2, <1>5 DEF TickWith
<1>7. last' = last \/ last' = dom'
  BY <1>2 DEF TickWith
<1> QED
  BY <1>3, <1>6, <1>7 DEF FeedStep

LEMMA FeedInitial == Init => Feeding!FeedInit
<1> SUFFICES ASSUME Init PROVE Feeding!FeedInit
  OBVIOUS
<1>1. last = NoSnap /\ Audience = {}
  BY DEF Init, Audience
<1> QED
  BY <1>1 DEF Feeding!FeedInit

\* Every step of the daemon and its clients is a step of SnapshotFeed, or none.
LEMMA FeedSimulated ==
  Past /\ AttachedAgree /\ [Next]_vars => [Feeding!FeedNext]_(Feeding!feedVars)
<1> SUFFICES ASSUME Past, AttachedAgree, [Next]_vars
             PROVE  [Feeding!FeedNext]_(Feeding!feedVars)
  OBVIOUS
<1>1. TypeOK /\ TypeOK' /\ AttachedAgree'
  BY PastAgreeStep DEF Past
<1>2. FeedStep
  <2>1. CASE Exit
    BY <2>1 DEF Exit, FeedStep, Audience, Open, serverVars, clientVars
  <2>2. CASE UNCHANGED vars
    BY <2>2 DEF vars, FeedStep, Audience, Open
  <2> QED
    BY <2>1, <2>2, FeedClient, FeedHandled, FeedTick DEF Next
<1> QED
  BY <1>1, <1>2, FeedStepFeeds

\* The daemon, with its queues, joins, refusals and broken peers, implements
\* an atomic publication of its state to the clients attached to it.
THEOREM Implementation == Spec => ImplementsSnapshotFeed
<1>1. Spec => [](Past /\ AttachedAgree)
  BY PastAgreeInit, PastAgreeStep, PTL DEF Spec
<1> QED
  BY <1>1, FeedInitial, FeedSimulated, PTL
     DEF Spec, ImplementsSnapshotFeed, Feeding!FeedSpec
=============================================================================
