------------------------- MODULE SidecarTurnsProofs -------------------------
(***************************************************************************)
(* Proofs about SidecarTurns, for every finite set of chats and any number *)
(* of turns, requests and processes, whether the process may die or hang   *)
(* and whoever decides permissions.                                        *)
(***************************************************************************)
EXTENDS SidecarTurns, FiniteSetTheorems, TLAPS

-----------------------------------------------------------------------------
\* The order in which the daemon goes over a set.

\* SetToSeq lists each element of a finite set once.
LEMMA Ordered ==
  ASSUME NEW S, IsFiniteSet(S)
  PROVE  /\ SetToSeq(S) \in Seq(S)
         /\ \A i, j \in DOMAIN SetToSeq(S) : SetToSeq(S)[i] = SetToSeq(S)[j] => i = j
<1> DEFINE n == Cardinality(S)
<1>1. n \in Nat /\ \E f \in [1 .. n -> S] : IsInjective(f)
  BY FS_CardinalityType DEF ExistsBijection, Bijection, Injection
<1>2. SetToSeq(S) \in [1 .. n -> S] /\ IsInjective(SetToSeq(S))
  BY <1>1 DEF SetToSeq
<1> QED
  BY <1>1, <1>2 DEF IsInjective

\* There are finitely many requests.
LEMMA FinitelyPending == IsFiniteSet(Pending)
<1> DEFINE triple == (Chats \X Gens) \X Asks
           f == [a \in Pending |-> <<<<a.chat, a.gen>>, a.perm>>]
<1>1. IsFiniteSet(Gens) /\ IsFiniteSet(Asks)
  BY FS_Interval, BoundsAssumption DEF Gens, Asks
<1>2. IsFiniteSet(triple)
  BY <1>1, ChatsAssumption, FS_Product
<1>3. f \in [Pending -> triple] /\ \A a, b \in Pending : f[a] = f[b] => a = b
  BY DEF Pending
<1>4. f \in Injection(Pending, triple)
  BY <1>3 DEF Injection, IsInjective
<1> QED
  BY <1>2, <1>4, FS_Injection

-----------------------------------------------------------------------------
\* Type correctness.

\* A command, a happening, by its type.
LEMMA Commands ==
  /\ \A s \in Chats, n \in Turns :
       /\ [type |-> "chat", chat |-> s, turn |-> n] \in Command
       /\ [type |-> "abort", chat |-> s, turn |-> n] \in Command
       /\ [type |-> "done", chat |-> s, turn |-> n] \in Happening
       /\ \A p \in Asks : [type |-> "ask", chat |-> s, turn |-> n, perm |-> p] \in Happening
  /\ \A p \in Asks : [type |-> "respond", perm |-> p] \in Command
  /\ [type |-> "ping"] \in Command
  /\ [type |-> "pong"] \in Happening
  BY DEF Command, Happening

LEMMA CommandFields ==
  /\ \A c \in Command :
       /\ c.type \in {"chat", "abort", "respond", "ping"}
       /\ c.type \in {"chat", "abort"} => c.chat \in Chats /\ c.turn \in Turns
       /\ c.type = "respond" => c.perm \in Asks
  /\ \A m \in Happening :
       /\ m.type \in {"done", "ask", "pong"}
       /\ m.type \in {"done", "ask"} => m.chat \in Chats /\ m.turn \in Turns
       /\ m.type = "ask" => m.perm \in Asks
  BY DEF Command, Happening

\* A command per element of a finite set.
LEMMA Told ==
  ASSUME NEW X \in SUBSET Chats, NEW cs \in [Chats -> Chat],
         \A s \in X : cs[s].seq \in Turns
  PROVE  /\ ChatCommands(X, cs) \in Seq(Command)
         /\ \A i \in DOMAIN ChatCommands(X, cs) : \E s \in X :
              ChatCommands(X, cs)[i] = [type |-> "chat", chat |-> s, turn |-> cs[s].seq]
         /\ \A i, j \in DOMAIN ChatCommands(X, cs) :
              ChatCommands(X, cs)[i].chat = ChatCommands(X, cs)[j].chat => i = j
<1> DEFINE order == SetToSeq(X)
<1>1. IsFiniteSet(X)
  BY ChatsAssumption, FS_Subset
<1>2. order \in Seq(X) /\ \A i, j \in DOMAIN order : order[i] = order[j] => i = j
  BY <1>1, Ordered
<1>3. ChatCommands(X, cs) = [i \in DOMAIN order |->
         [type |-> "chat", chat |-> order[i], turn |-> cs[order[i]].seq]]
  BY DEF ChatCommands
<1> HIDE DEF order
<1>4. \A i \in DOMAIN order :
        /\ order[i] \in X
        /\ [type |-> "chat", chat |-> order[i], turn |-> cs[order[i]].seq] \in Command
  <2>1. \A i \in DOMAIN order : order[i] \in X
    BY <1>2
  <2>2. \A s \in X : [type |-> "chat", chat |-> s, turn |-> cs[s].seq] \in Command
    BY Commands
  <2> QED
    BY <2>1, <2>2
<1>5. ChatCommands(X, cs) \in Seq(Command)
  <2>1. PICK n \in Nat : DOMAIN order = 1 .. n
    BY <1>2
  <2> DEFINE f == ChatCommands(X, cs)
  <2>2. DOMAIN f = 1 .. n
    BY <1>3, <2>1
  <2>3. f \in [1 .. n -> Command]
    BY <1>3, <1>4, <2>1
  <2> QED
    BY <2>1, <2>3
<1> QED
  BY <1>2, <1>3, <1>4, <1>5

\* Every request of asks is answered.
LEMMA AllowedType ==
  ASSUME NEW asks \in SUBSET Pending, cmds \in Seq(Command)
  PROVE  /\ Allowed(asks) \in Seq(Command)
         /\ ~(client /\ writer) => Allowed(asks) = cmds
         /\ \E r \in Seq(Command) : /\ Allowed(asks) \in {cmds, cmds \o r}
                                    /\ \A i \in DOMAIN r : r[i].type = "respond"
<1> DEFINE order   == SetToSeq(asks)
           replies == [i \in DOMAIN order |-> [type |-> "respond", perm |-> order[i].perm]]
<1>1. IsFiniteSet(asks)
  BY FinitelyPending, FS_Subset
<1>2. order \in Seq(asks)
  BY <1>1, Ordered
<1>3. Allowed(asks) = IF client /\ writer THEN cmds \o replies ELSE cmds
  BY DEF Allowed
<1> HIDE DEF order
<1>4. \A i \in DOMAIN order : order[i].perm \in Asks
  BY <1>2 DEF Pending
<1>5. replies \in Seq(Command) /\ \A i \in DOMAIN replies : replies[i].type = "respond"
  BY <1>2, <1>4, Commands
<1> HIDE DEF replies
<1> QED
  BY <1>3, <1>5

\* What an entry counts: its turn is its last one or none; without a turn its
\* receiver is empty; every message sent or queued has a number left.
Counted(cs, ib) ==
  \A s \in Chats :
    /\ cs[s].turn \in {0, cs[s].seq}
    /\ cs[s].turn = 0 => ib[s] = << >>
    /\ cs[s].turn # 0 => cs[s].state = "open" /\ cs[s].gen \in Gens
    /\ cs[s].seq + cs[s].queued <= MaxTurns
    /\ cs[s].state = "absent" => cs[s].seq = 0 /\ cs[s].queued = 0

\* A client has a process.
Started == client => gen # 0

TInv == TypeOK /\ Counted(chats, inbox) /\ Started

\* The part of the type that sending can disturb.
SendType ==
  /\ chats \in [Chats -> Chat]
  /\ client \in BOOLEAN /\ writer \in BOOLEAN /\ pongs \in BOOLEAN
  /\ gen \in 0 .. MaxGens
  /\ proc \in {"none", "alive", "hung", "dead"}
  /\ cmds \in Seq(Command)
  /\ queries \in SUBSET Query
  /\ counter \in 0 .. MaxAsks

\* Launching keeps the types and the counts it is given.
LEMMA LaunchType ==
  ASSUME TypeOK, Started, NEW ib, NEW X \in SUBSET Chats,
         NEW cs \in [Chats -> Chat], Counted(cs, ib),
         \A s \in X : cs[s].seq \in Turns /\ cs[s].state = "open",
         NEW q \in Seq(Command), Launch(X, cs, q)
  PROVE  /\ SendType'
         /\ Counted(chats', ib)
         /\ Started'
<1> DEFINE fresh == X # {} /\ NeedsSpawn
           g     == IF fresh THEN gen + 1 ELSE gen
           turns == ChatCommands(X, cs)
<1>1. turns \in Seq(Command)
  BY Told
<1>0. g <= MaxGens /\ gen' = g
  BY DEF Launch
<1>2. /\ fresh => /\ client' = TRUE /\ proc' = "alive" /\ writer' = TRUE
                  /\ cmds' = turns
                  /\ pongs' = FALSE /\ queries' = {} /\ counter' = 0
      /\ ~fresh => /\ cmds' = q \o turns
                   /\ UNCHANGED <<client, proc, writer, pongs, queries, counter>>
  BY DEF Launch
<1>8. chats' = [s \in Chats |-> IF s \in X THEN [cs[s] EXCEPT !.turn = cs[s].seq, !.gen = g]
                                           ELSE cs[s]]
  BY DEF Launch
<1>3. g \in 0 .. MaxGens /\ (X # {} => g \in Gens)
  <2>1. g \in Nat /\ g <= MaxGens
    BY <1>0, BoundsAssumption DEF TypeOK
  <2>2. X # {} => g # 0
    BY <2>1, BoundsAssumption DEF TypeOK, NeedsSpawn, Started
  <2> QED
    BY <2>1, <2>2, BoundsAssumption DEF Gens
<1>4. Started'
  <2>1. CASE fresh
    <3>1. gen \in Nat /\ gen' = gen + 1
      BY <1>0, <2>1, BoundsAssumption DEF TypeOK
    <3> QED
      BY <3>1 DEF Started
  <2>2. CASE ~fresh
    <3>1. gen' = gen /\ client' = client
      BY <1>0, <1>2, <2>2
    <3> QED
      BY <3>1 DEF Started
  <2> QED
    BY <2>1, <2>2
<1> HIDE DEF turns, g
<1>5. chats' \in [Chats -> Chat]
  <2>1. ASSUME NEW s \in X
        PROVE  [cs[s] EXCEPT !.turn = cs[s].seq, !.gen = g] \in Chat
    <3>1. cs[s] \in Chat /\ cs[s].seq \in 0 .. MaxTurns
      BY <2>1 DEF Turns, Chat
    <3> QED
      BY <1>3, <3>1 DEF Chat
  <2> QED
    BY <1>8, <2>1
<1>6. SendType'
  <2>0. /\ gen' \in 0 .. MaxGens
        /\ q \o turns \in Seq(Command)
        /\ 0 \in 0 .. MaxAsks
    BY <1>0, <1>1, <1>3, BoundsAssumption
  <2>1. CASE fresh
    <3>1. /\ client' = TRUE /\ proc' = "alive" /\ writer' = TRUE
          /\ cmds' = turns
          /\ pongs' = FALSE /\ queries' = {} /\ counter' = 0
      BY <1>2, <2>1
    <3> QED
      BY <1>1, <1>5, <2>0, <3>1 DEF SendType
  <2>2. CASE ~fresh
    <3>1. /\ cmds' = q \o turns
          /\ UNCHANGED <<client, proc, writer, pongs, queries, counter>>
      BY <1>2, <2>2
    <3> QED
      BY <1>5, <2>0, <3>1 DEF SendType, TypeOK
  <2> QED
    BY <2>1, <2>2
<1>7. Counted(chats', ib)
  <2> SUFFICES ASSUME NEW s \in Chats
               PROVE  /\ chats'[s].turn \in {0, chats'[s].seq}
                      /\ chats'[s].turn = 0 => ib[s] = << >>
                      /\ chats'[s].turn # 0 => chats'[s].state = "open" /\ chats'[s].gen \in Gens
                      /\ chats'[s].seq + chats'[s].queued <= MaxTurns
                      /\ chats'[s].state = "absent" => chats'[s].seq = 0 /\ chats'[s].queued = 0
    BY DEF Counted
  <2>1. CASE s \notin X
    BY <1>8, <2>1 DEF Counted
  <2>2. CASE s \in X
    <3>1. chats'[s] = [cs[s] EXCEPT !.turn = cs[s].seq, !.gen = g]
      BY <1>8, <2>2
    <3>2. cs[s] \in Chat /\ cs[s].seq # 0 /\ cs[s].state = "open"
      BY <2>2 DEF Turns
    <3>3. /\ chats'[s].turn = cs[s].seq /\ chats'[s].gen = g /\ chats'[s].seq = cs[s].seq
          /\ chats'[s].state = "open" /\ chats'[s].queued = cs[s].queued
      BY <3>1, <3>2 DEF Chat
    <3> QED
      BY <1>3, <2>2, <3>2, <3>3 DEF Counted
  <2> QED
    BY <2>1, <2>2
<1> QED
  BY <1>4, <1>6, <1>7

-----------------------------------------------------------------------------
\* What each intent makes of an entry before a turn is launched.

\* Everybody else's entry stays.
Others(s, cs) == cs \in [Chats -> Chat] /\ \A t \in Chats \ {s} : cs[t] = chats[t]

LEMMA OpenedEntry ==
  ASSUME NEW e \in Chat, e.turn = 0, e.queued = 0
  PROVE  LET f == [e EXCEPT !.seq = 1, !.state = "open"]
         IN  f \in Chat /\ f.state = "open" /\ f.turn = 0 /\ f.seq = 1 /\ f.queued = 0
<1> DEFINE f == [e EXCEPT !.seq = 1, !.state = "open"]
           g == [e EXCEPT !.seq = 1]
<1>1. f = [g EXCEPT !.state = "open"]
  OBVIOUS
<1>2. g \in Chat /\ g.turn = 0 /\ g.seq = 1 /\ g.queued = 0
  BY BoundsAssumption DEF Chat
<1> HIDE DEF f, g
<1>3. f \in Chat /\ f.state = "open" /\ f.turn = 0 /\ f.seq = 1 /\ f.queued = 0
  BY <1>1, <1>2 DEF Chat
<1> QED
  BY <1>3 DEF f

LEMMA FinishedEntry ==
  ASSUME NEW e \in Chat
  PROVE  LET f == [e EXCEPT !.turn = 0, !.queued = 0, !.state = "finished"]
         IN  f \in Chat /\ f.state = "finished" /\ f.turn = 0 /\ f.seq = e.seq /\ f.queued = 0
<1> DEFINE f == [e EXCEPT !.turn = 0, !.queued = 0, !.state = "finished"]
           g == [e EXCEPT !.turn = 0]
           h == [g EXCEPT !.queued = 0]
<1>1. f = [h EXCEPT !.state = "finished"]
  OBVIOUS
<1>2. g \in Chat /\ g.turn = 0 /\ g.seq = e.seq
  BY BoundsAssumption DEF Chat
<1> HIDE DEF f, g
<1>3. h \in Chat /\ h.turn = 0 /\ h.seq = e.seq /\ h.queued = 0
  BY <1>2, BoundsAssumption DEF Chat
<1> HIDE DEF h
<1>4. f \in Chat /\ f.state = "finished" /\ f.turn = 0 /\ f.seq = e.seq /\ f.queued = 0
  BY <1>1, <1>3 DEF Chat
<1> QED
  BY <1>4 DEF f

LEMMA Opened ==
  ASSUME TypeOK, Counted(chats, inbox), NEW s \in Chats, chats[s].state = "absent",
         NEW cs, cs = [chats EXCEPT ![s] = [@ EXCEPT !.seq = 1, !.state = "open"]]
  PROVE  /\ Others(s, cs)
         /\ cs[s].state = "open" /\ cs[s].turn = 0 /\ cs[s].seq = 1 /\ cs[s].queued = 0
         /\ Counted(cs, inbox)
<1>1. /\ chats[s] \in Chat /\ chats[s].seq = 0 /\ chats[s].queued = 0 /\ chats[s].turn = 0
      /\ inbox[s] = << >>
  BY DEF TypeOK, Counted
<1> DEFINE e == [chats[s] EXCEPT !.seq = 1, !.state = "open"]
<1>2. /\ e \in Chat
      /\ e.state = "open" /\ e.turn = 0 /\ e.seq = 1 /\ e.queued = 0
  BY <1>1, OpenedEntry, Zenon
<1>3. cs = [chats EXCEPT ![s] = e]
  BY Zenon
<1> HIDE DEF e
<1>4. Others(s, cs) /\ cs[s] = e
  BY <1>2, <1>3 DEF Others, TypeOK
<1> QED
  BY <1>1, <1>2, <1>4, BoundsAssumption DEF Counted, Others

LEMMA Numbered ==
  ASSUME TypeOK, Counted(chats, inbox), NEW s \in Chats, chats[s].state = "open",
         chats[s].turn = 0, chats[s].seq + chats[s].queued < MaxTurns,
         NEW cs, cs = [chats EXCEPT ![s].seq = @ + 1]
  PROVE  /\ Others(s, cs)
         /\ cs[s].state = "open" /\ cs[s].turn = 0 /\ cs[s].seq = chats[s].seq + 1
         /\ cs[s].seq \in Turns
         /\ Counted(cs, inbox)
<1>1. /\ chats[s] \in Chat /\ inbox[s] = << >>
      /\ chats[s].seq \in Nat /\ chats[s].queued \in Nat
  BY BoundsAssumption DEF TypeOK, Counted, Chat
<1> DEFINE e == [chats[s] EXCEPT !.seq = @ + 1]
<1>2. /\ e \in Chat
      /\ e.state = "open" /\ e.turn = 0 /\ e.seq = chats[s].seq + 1 /\ e.queued = chats[s].queued
  BY <1>1, BoundsAssumption DEF Chat
<1>3. cs = [chats EXCEPT ![s] = e]
  BY DEF TypeOK
<1> HIDE DEF e
<1>4. Others(s, cs) /\ cs[s] = e
  BY <1>2, <1>3 DEF Others, TypeOK
<1>5. e.seq + e.queued <= MaxTurns /\ e.seq \in Turns
  <2>1. \A a, b \in Nat : a + b < MaxTurns => (a + 1) + b <= MaxTurns /\ a + 1 \in Turns
    BY BoundsAssumption DEF Turns
  <2> QED
    BY <1>1, <1>2, <2>1
<1> QED
  BY <1>1, <1>2, <1>4, <1>5 DEF Counted, Others

LEMMA Queued ==
  ASSUME TypeOK, Counted(chats, inbox), NEW s \in Chats, chats[s].state = "open",
         chats[s].seq + chats[s].queued < MaxTurns,
         NEW cs, cs = [chats EXCEPT ![s].queued = @ + 1]
  PROVE  /\ Others(s, cs)
         /\ cs[s].state = "open" /\ cs[s].turn = chats[s].turn /\ cs[s].seq = chats[s].seq
         /\ cs[s].gen = chats[s].gen
         /\ Counted(cs, inbox)
<1>1. /\ chats[s] \in Chat
      /\ chats[s].seq \in Nat /\ chats[s].queued \in Nat
  BY BoundsAssumption DEF TypeOK, Chat
<1> DEFINE e == [chats[s] EXCEPT !.queued = @ + 1]
<1>2. /\ e \in Chat
      /\ e.state = "open" /\ e.turn = chats[s].turn /\ e.seq = chats[s].seq
      /\ e.gen = chats[s].gen /\ e.queued = chats[s].queued + 1
  BY <1>1, BoundsAssumption DEF Chat
<1>3. cs = [chats EXCEPT ![s] = e]
  BY DEF TypeOK
<1> HIDE DEF e
<1>4. Others(s, cs) /\ cs[s] = e
  BY <1>2, <1>3 DEF Others, TypeOK
<1>5. e.seq + e.queued <= MaxTurns
  BY <1>1, <1>2, BoundsAssumption
<1> QED
  BY <1>1, <1>2, <1>4, <1>5 DEF Counted, Others

LEMMA Finished ==
  ASSUME TypeOK, Counted(chats, inbox), NEW s \in Chats, chats[s].state = "open",
         NEW cs, cs = [chats EXCEPT ![s] = [@ EXCEPT !.turn = 0, !.queued = 0, !.state = "finished"]],
         NEW ib, ib = [inbox EXCEPT ![s] = << >>]
  PROVE  /\ Others(s, cs)
         /\ cs[s].state = "finished" /\ cs[s].turn = 0
         /\ Counted(cs, ib)
<1>1. chats[s] \in Chat /\ chats[s].seq \in Nat /\ chats[s].seq <= MaxTurns
  BY BoundsAssumption DEF TypeOK, Chat
<1> DEFINE e == [chats[s] EXCEPT !.turn = 0, !.queued = 0, !.state = "finished"]
<1>2. /\ e \in Chat
      /\ e.state = "finished" /\ e.turn = 0 /\ e.seq = chats[s].seq /\ e.queued = 0
  BY <1>1, FinishedEntry, Zenon
<1>3. cs = [chats EXCEPT ![s] = e]
  BY Zenon
<1> HIDE DEF e
<1>4. Others(s, cs) /\ cs[s] = e
  BY <1>2, <1>3 DEF Others, TypeOK
<1>5. ib[s] = << >> /\ \A t \in Chats \ {s} : ib[t] = inbox[t]
  BY DEF TypeOK
<1> QED
  BY <1>1, <1>2, <1>4, <1>5 DEF Counted, Others

\* What a drain makes of an entry.
LEMMA DrainedEntry ==
  ASSUME NEW e \in Chat, e.seq + e.queued <= MaxTurns,
         NEW s, NEW over, NEW next, s \in next => e.queued > 0
  PROVE  LET f == [e EXCEPT !.turn   = IF s \in over THEN 0 ELSE @,
                            !.queued = IF s \in next THEN @ - 1 ELSE @,
                            !.seq    = IF s \in next THEN @ + 1 ELSE @]
         IN  /\ f \in Chat
             /\ f.state = e.state /\ f.gen = e.gen
             /\ f.turn = IF s \in over THEN 0 ELSE e.turn
             /\ f.queued = IF s \in next THEN e.queued - 1 ELSE e.queued
             /\ f.seq = IF s \in next THEN e.seq + 1 ELSE e.seq
             /\ f.seq + f.queued <= MaxTurns
<1> DEFINE t == IF s \in over THEN 0 ELSE e.turn
           k == IF s \in next THEN e.queued - 1 ELSE e.queued
           m == IF s \in next THEN e.seq + 1 ELSE e.seq
           f == [e EXCEPT !.turn   = IF s \in over THEN 0 ELSE @,
                          !.queued = IF s \in next THEN @ - 1 ELSE @,
                          !.seq    = IF s \in next THEN @ + 1 ELSE @]
           g == [e EXCEPT !.turn = t]
           h == [g EXCEPT !.queued = k]
           i == [h EXCEPT !.seq = m]
<1>1. /\ t \in 0 .. MaxTurns /\ k \in 0 .. MaxTurns /\ m \in 0 .. MaxTurns
      /\ m + k <= MaxTurns
  BY BoundsAssumption DEF Chat
<1>2. f = [e EXCEPT !.turn = t, !.queued = k, !.seq = m]
  OBVIOUS
<1>3. f = i
  BY <1>2
<1>4. t = IF s \in over THEN 0 ELSE e.turn
  OBVIOUS
<1>5. m = IF s \in next THEN e.seq + 1 ELSE e.seq
  OBVIOUS
<1>10. k = IF s \in next THEN e.queued - 1 ELSE e.queued
  OBVIOUS
<1> HIDE DEF f, i, t, k, m
<1>6. /\ g \in Chat /\ g.turn = t
      /\ g.state = e.state /\ g.gen = e.gen
  BY <1>1 DEF Chat
<1> HIDE DEF g
<1>7. /\ h \in Chat /\ h.turn = t /\ h.queued = k
      /\ h.state = e.state /\ h.gen = e.gen
  BY <1>1, <1>6 DEF Chat
<1> HIDE DEF h
<1>8. /\ i \in Chat /\ i.turn = t /\ i.queued = k /\ i.seq = m
      /\ i.state = e.state /\ i.gen = e.gen
  BY <1>1, <1>7 DEF Chat, i
<1>9. /\ f \in Chat
      /\ f.state = e.state /\ f.gen = e.gen
      /\ f.turn = IF s \in over THEN 0 ELSE e.turn
      /\ f.queued = IF s \in next THEN e.queued - 1 ELSE e.queued
      /\ f.seq = IF s \in next THEN e.seq + 1 ELSE e.seq
      /\ f.seq + f.queued <= MaxTurns
  BY <1>1, <1>3, <1>4, <1>5, <1>8, <1>10
<1> QED
  BY <1>9 DEF f

\* The requests of a turn in flight.
LEMMA AskedType ==
  ASSUME TypeOK, Counted(chats, inbox), NEW s \in Chats, Active(s)
  PROVE  /\ AskedBy(s) \in SUBSET Pending
         /\ \A a \in AskedBy(s) : a.chat = s
<1>1. chats[s].gen \in Gens /\ inbox[s] \in Seq(Happening)
  BY DEF TypeOK, Counted, Active
<1>2. \A i \in DOMAIN inbox[s] : inbox[s][i] \in Happening
  BY <1>1
<1>3. \A i \in DOMAIN inbox[s] : inbox[s][i].type = "ask" => inbox[s][i].perm \in Asks
  BY <1>2, CommandFields
<1> QED
  BY <1>1, <1>3 DEF AskedBy, Pending

\* What a drain does: of the turns over, all done or hung up, those in next have a
\* message waiting, and those in ok get it sent.
Drained(over, next, ok, asks, gone, cs) ==
  /\ \A s \in over : s \in Chats /\ Active(s) /\ (HasDone(s) \/ HungUp(s))
  /\ next \subseteq over /\ ok \subseteq next
  /\ asks \in SUBSET Pending /\ \A a \in asks : Active(a.chat)
  /\ cs \in [Chats -> Chat]
  /\ \A s \in Chats :
       /\ cs[s].state = chats[s].state /\ cs[s].gen = chats[s].gen
       /\ cs[s].turn = IF s \in over THEN 0 ELSE chats[s].turn
       /\ cs[s].seq = IF s \in next THEN chats[s].seq + 1 ELSE chats[s].seq
  /\ Counted(cs, inbox')
  /\ inbox' = [s \in Chats |-> << >>]
  /\ tracked' = (IF Routed THEN tracked \cup asks ELSE tracked) \ gone
  /\ shown' = (IF Routed THEN shown \cup asks ELSE shown) \ gone
  /\ Launch(ok, cs, IF Routed THEN cmds ELSE Allowed(asks))
  /\ blocked' = blocked \ ok
  /\ UNCHANGED <<pinged, stdout>>

LEMMA DrainIsDrained ==
  ASSUME TypeOK, Counted(chats, inbox), DrainSidecar
  PROVE  \E over, next, ok, asks, gone, cs : Drained(over, next, ok, asks, gone, cs)
<1> DEFINE active == {s \in Chats : Active(s)}
           broken == {s \in active : ~HasDone(s) /\ HungUp(s)}
           over   == {s \in active : HasDone(s)} \cup broken
           asks   == UNION {AskedBy(s) : s \in active}
           held   == IF Routed THEN tracked \cup asks ELSE tracked
           gone   == {a \in held : a.chat \in broken}
           next   == {s \in over : Waiting(s)}
           cs     == [s \in Chats |->
                        [chats[s] EXCEPT !.turn   = IF s \in over THEN 0 ELSE @,
                                         !.queued = IF s \in next THEN @ - 1 ELSE @,
                                         !.seq    = IF s \in next THEN @ + 1 ELSE @]]
<1>1. PICK ok \in SUBSET next :
        /\ Launch(ok, cs, IF Routed THEN cmds ELSE Allowed(asks))
        /\ blocked' = blocked \ ok
  BY DEF DrainSidecar
<1>2. /\ inbox' = [s \in Chats |-> << >>]
      /\ tracked' = (IF Routed THEN tracked \cup asks ELSE tracked) \ gone
      /\ shown' = (IF Routed THEN shown \cup asks ELSE shown) \ gone
      /\ UNCHANGED <<pinged, stdout>>
  BY DEF DrainSidecar
<1>3. \A s \in over : s \in Chats /\ Active(s) /\ (HasDone(s) \/ HungUp(s))
  OBVIOUS
<1>4. asks \in SUBSET Pending /\ \A a \in asks : Active(a.chat)
  BY AskedType
<1>5. \A s \in next : s \in over /\ chats[s].queued > 0
  BY DEF Waiting
<1>6. \A s \in Chats : cs[s] = [chats[s] EXCEPT !.turn   = IF s \in over THEN 0 ELSE @,
                                                !.queued = IF s \in next THEN @ - 1 ELSE @,
                                                !.seq    = IF s \in next THEN @ + 1 ELSE @]
  OBVIOUS
<1>7. DOMAIN cs = Chats /\ cs = [s \in Chats |-> cs[s]]
  OBVIOUS
<1> HIDE DEF over, next, asks, gone, cs
<1>8. \A s \in Chats : /\ cs[s] \in Chat
                       /\ cs[s].state = chats[s].state /\ cs[s].gen = chats[s].gen
                       /\ cs[s].turn = IF s \in over THEN 0 ELSE chats[s].turn
                       /\ cs[s].seq = IF s \in next THEN chats[s].seq + 1 ELSE chats[s].seq
                       /\ cs[s].queued = IF s \in next THEN chats[s].queued - 1 ELSE chats[s].queued
                       /\ cs[s].seq + cs[s].queued <= MaxTurns
  <2> TAKE s \in Chats
  <2>1. /\ chats[s] \in Chat /\ chats[s].seq + chats[s].queued <= MaxTurns
        /\ s \in next => chats[s].queued > 0
    BY <1>5 DEF TypeOK, Counted
  <2> DEFINE f == [chats[s] EXCEPT !.turn   = IF s \in over THEN 0 ELSE @,
                                   !.queued = IF s \in next THEN @ - 1 ELSE @,
                                   !.seq    = IF s \in next THEN @ + 1 ELSE @]
  <2>2. /\ f \in Chat
        /\ f.state = chats[s].state /\ f.gen = chats[s].gen
        /\ f.turn = IF s \in over THEN 0 ELSE chats[s].turn
        /\ f.queued = IF s \in next THEN chats[s].queued - 1 ELSE chats[s].queued
        /\ f.seq = IF s \in next THEN chats[s].seq + 1 ELSE chats[s].seq
        /\ f.seq + f.queued <= MaxTurns
    BY <2>1, DrainedEntry, Zenon
  <2>3. cs[s] = f
    BY <1>6, Zenon
  <2> QED
    BY <2>2, <2>3, Zenon
<1>9. cs \in [Chats -> Chat]
  BY <1>7, <1>8
<1>10. Counted(cs, inbox')
  <2> SUFFICES ASSUME NEW s \in Chats
               PROVE  /\ cs[s].turn \in {0, cs[s].seq}
                      /\ cs[s].turn = 0 => inbox'[s] = << >>
                      /\ cs[s].turn # 0 => cs[s].state = "open" /\ cs[s].gen \in Gens
                      /\ cs[s].seq + cs[s].queued <= MaxTurns
                      /\ cs[s].state = "absent" => cs[s].seq = 0 /\ cs[s].queued = 0
    BY DEF Counted
  <2>1. inbox'[s] = << >>
    BY <1>2
  <2>2. CASE chats[s].turn = 0
    BY <1>3, <1>5, <1>8, <2>1, <2>2 DEF Active, Counted
  <2>3. CASE chats[s].turn # 0
    BY <1>3, <1>5, <1>8, <2>1, <2>3 DEF Active, Counted
  <2> QED
    BY <2>2, <2>3
<1>11. next \subseteq over
  BY <1>5
<1>12. Drained(over, next, ok, asks, gone, cs)
  BY <1>1, <1>2, <1>3, <1>4, <1>8, <1>9, <1>10, <1>11 DEF Drained
<1> QED
  BY <1>12

-----------------------------------------------------------------------------
\* Type correctness, step by step.

LEMMA WritesType ==
  ASSUME TypeOK, NEW m \in Happening, Writes(m)
  PROVE  stdout' \in [Gens -> Seq(Happening)]
<1>1. \A g \in Gens : Append(stdout[g], m) \in Seq(Happening)
  BY DEF TypeOK
<1> QED
  BY <1>1 DEF TypeOK, Writes

LEMMA SentType ==
  ASSUME NEW q \in Seq(Command), NEW c \in Command
  PROVE  Sent(q, c) \in Seq(Command)
  BY DEF Sent

LEMMA OpenType ==
  ASSUME TInv, NEW s \in Chats, OpenChat(s)
  PROVE  TInv'
<1> DEFINE cs == [chats EXCEPT ![s] = [@ EXCEPT !.seq = 1, !.state = "open"]]
<1>1. /\ Others(s, cs)
      /\ cs[s].state = "open" /\ cs[s].seq = 1
      /\ Counted(cs, inbox)
  BY Opened DEF OpenChat, TInv
<1>2. /\ Launch({s}, cs, cmds)
      /\ UNCHANGED <<inbox, tracked, shown, blocked, pinged, stdout>>
  BY DEF OpenChat
<1> HIDE DEF cs
<1>3. cs \in [Chats -> Chat] /\ cs[s].seq \in Turns /\ cmds \in Seq(Command) /\ {s} \in SUBSET Chats
  BY <1>1, BoundsAssumption DEF Others, Turns, TInv, TypeOK
<1>4. SendType' /\ Counted(chats', inbox) /\ Started'
  BY <1>1, <1>2, <1>3, LaunchType DEF TInv
<1> QED
  BY <1>2, <1>4 DEF TInv, TypeOK, SendType

LEMMA SendTurnType ==
  ASSUME TInv, NEW s \in Chats, SendChatTurn(s)
  PROVE  TInv'
<1> DEFINE numbered == [chats EXCEPT ![s].seq = @ + 1]
           queued   == [chats EXCEPT ![s].queued = @ + 1]
<1>1. /\ chats[s].state = "open"
      /\ chats[s].seq + chats[s].queued < MaxTurns
      /\ \/ /\ Active(s)
            /\ Launch({}, queued, cmds)
            /\ UNCHANGED blocked
         \/ /\ ~Active(s)
            /\ Launch({s}, numbered, cmds)
            /\ blocked' = blocked \ {s}
         \/ /\ ~Active(s)
            /\ Launch({}, numbered, cmds)
            /\ UNCHANGED blocked
      /\ UNCHANGED <<inbox, tracked, shown, pinged, stdout>>
  BY DEF SendChatTurn
<1>2. Others(s, queued) /\ Counted(queued, inbox)
  BY <1>1, Queued DEF TInv
<1>3. ~Active(s) => /\ Others(s, numbered) /\ Counted(numbered, inbox)
                    /\ numbered[s].state = "open" /\ numbered[s].seq \in Turns
  BY <1>1, Numbered DEF TInv, Active
<1> HIDE DEF numbered, queued
<1>4. cmds \in Seq(Command) /\ {} \in SUBSET Chats /\ {s} \in SUBSET Chats
  BY DEF TInv, TypeOK
<1>5. SendType' /\ Counted(chats', inbox) /\ Started'
  <2>1. CASE Launch({}, queued, cmds)
    BY <1>2, <1>4, <2>1, LaunchType DEF TInv, Others
  <2>2. CASE ~Active(s) /\ Launch({s}, numbered, cmds)
    BY <1>3, <1>4, <2>2, LaunchType DEF TInv, Others
  <2>3. CASE ~Active(s) /\ Launch({}, numbered, cmds)
    BY <1>3, <1>4, <2>3, LaunchType DEF TInv, Others
  <2> QED
    BY <1>1, <2>1, <2>2, <2>3
<1>6. blocked' \in SUBSET Chats
  BY <1>1 DEF TInv, TypeOK
<1> QED
  BY <1>1, <1>5, <1>6 DEF TInv, TypeOK, SendType

LEMMA FinishType ==
  ASSUME TInv, NEW s \in Chats, FinishChat(s)
  PROVE  TInv'
<1>1. /\ chats' \in [Chats -> Chat] /\ Counted(chats', inbox')
  BY Finished DEF FinishChat, TInv, Others
<1>2. cmds' \in Seq(Command)
  <2>1. Active(s) => [type |-> "abort", chat |-> s, turn |-> chats[s].turn] \in Command
    <3>1. chats[s].turn \in 0 .. MaxTurns
      BY DEF TInv, TypeOK, Chat
    <3>2. Active(s) => chats[s].turn \in Turns
      BY <3>1, BoundsAssumption DEF Active, Turns
    <3> QED
      BY <3>2, Commands
  <2> QED
    BY <2>1, SentType DEF FinishChat, TInv, TypeOK
<1>3. /\ inbox' \in [Chats -> Seq(Happening)]
      /\ tracked' \in SUBSET Pending /\ shown' \in SUBSET Pending
      /\ UNCHANGED <<blocked, pinged, client, procVars, stdout, pongs>>
  BY DEF FinishChat, TInv, TypeOK
<1> QED
  BY <1>1, <1>2, <1>3 DEF TInv, TypeOK, Started, procVars

LEMMA DrainType ==
  ASSUME TInv, DrainSidecar
  PROVE  TInv'
<1>1. PICK over, next, ok, asks, gone, cs : Drained(over, next, ok, asks, gone, cs)
  BY DrainIsDrained DEF TInv
<1> DEFINE q == IF Routed THEN cmds ELSE Allowed(asks)
<1>2. q \in Seq(Command) /\ Launch(ok, cs, q)
  BY <1>1, AllowedType DEF Drained, TInv, TypeOK
<1> HIDE DEF q
<1>3. ok \in SUBSET Chats
  BY <1>1 DEF Drained
<1>4. \A s \in ok : cs[s].seq \in Turns /\ cs[s].state = "open"
  <2> TAKE s \in ok
  <2>1. /\ s \in Chats /\ chats[s].turn # 0 /\ s \in next
        /\ cs[s].seq = chats[s].seq + 1 /\ cs[s].state = chats[s].state
    BY <1>1 DEF Drained, Active
  <2>2. /\ cs[s] \in Chat /\ chats[s] \in Chat
    BY <1>1, <2>1 DEF Drained, TInv, TypeOK
  <2>3. chats[s].seq \in Nat /\ cs[s].seq \in 0 .. MaxTurns
    BY <2>2 DEF Chat
  <2> QED
    BY <2>1, <2>3, BoundsAssumption DEF TInv, Counted, Turns
<1>5. SendType' /\ Counted(chats', inbox') /\ Started'
  BY <1>1, <1>2, <1>3, <1>4, LaunchType DEF Drained, TInv
<1>6. /\ inbox' \in [Chats -> Seq(Happening)]
      /\ tracked' \in SUBSET Pending /\ shown' \in SUBSET Pending
      /\ blocked' \in SUBSET Chats /\ UNCHANGED <<pinged, stdout>>
  BY <1>1 DEF Drained, TInv, TypeOK
<1> QED
  BY <1>5, <1>6 DEF TInv, TypeOK, SendType

\* What the process does besides writing.
LEMMA HandleType ==
  ASSUME TInv, Handle
  PROVE  TInv'
<1>1. cmds \in Seq(Command) /\ cmds # << >> /\ cmds' = Tail(cmds)
  BY DEF Handle, TInv, TypeOK
<1>2. Head(cmds) \in Command /\ cmds' \in Seq(Command)
  BY <1>1
<1> DEFINE c == Head(cmds)
<1>3. \/ /\ c.type = "chat"
         /\ queries' = queries \cup {[chat |-> c.chat, turn |-> c.turn, perm |-> 0,
                                      cut |-> FALSE, over |-> FALSE]}
         /\ UNCHANGED stdout
      \/ /\ c.type = "abort"
         /\ queries' = {IF q.chat = c.chat /\ q.turn = c.turn THEN [q EXCEPT !.cut = TRUE] ELSE q :
                          q \in queries}
         /\ UNCHANGED stdout
      \/ /\ c.type = "respond"
         /\ queries' = {IF q.perm = c.perm THEN [q EXCEPT !.perm = 0] ELSE q : q \in queries}
         /\ UNCHANGED stdout
      \/ /\ c.type = "ping"
         /\ Writes([type |-> "pong"])
         /\ UNCHANGED queries
  BY DEF Handle
<1> HIDE DEF c
<1>4. queries \in SUBSET Query /\ c \in Command
  BY <1>2 DEF TInv, TypeOK, c
<1>5. queries' \in SUBSET Query /\ stdout' \in [Gens -> Seq(Happening)]
  <2>1. CASE /\ c.type = "chat"
             /\ queries' = queries \cup {[chat |-> c.chat, turn |-> c.turn, perm |-> 0,
                                          cut |-> FALSE, over |-> FALSE]}
             /\ UNCHANGED stdout
    <3>1. c.chat \in Chats /\ c.turn \in Turns /\ 0 \in 0 .. MaxAsks
      BY <1>4, <2>1, CommandFields, BoundsAssumption
    <3>2. [chat |-> c.chat, turn |-> c.turn, perm |-> 0, cut |-> FALSE, over |-> FALSE] \in Query
      BY <3>1 DEF Query
    <3>3. queries' \in SUBSET Query
      BY <1>4, <2>1, <3>2, Zenon
    <3> QED
      BY <2>1, <3>3 DEF TInv, TypeOK
  <2>2. CASE /\ queries' = {IF q.chat = c.chat /\ q.turn = c.turn THEN [q EXCEPT !.cut = TRUE] ELSE q :
                              q \in queries}
             /\ UNCHANGED stdout
    <3>1. \A q \in queries : [q EXCEPT !.cut = TRUE] \in Query
      BY <1>4 DEF Query
    <3> QED
      BY <1>4, <2>2, <3>1, Zenon DEF TInv, TypeOK
  <2>3. CASE /\ queries' = {IF q.perm = c.perm THEN [q EXCEPT !.perm = 0] ELSE q : q \in queries}
             /\ UNCHANGED stdout
    <3>1. \A q \in queries : [q EXCEPT !.perm = 0] \in Query
      BY <1>4, BoundsAssumption DEF Query
    <3> QED
      BY <1>4, <2>3, <3>1, Zenon DEF TInv, TypeOK
  <2>4. CASE Writes([type |-> "pong"]) /\ UNCHANGED queries
    <3>1. [type |-> "pong"] \in Happening
      BY Commands
    <3>2. stdout' \in [Gens -> Seq(Happening)]
      BY <2>4, <3>1, WritesType DEF TInv
    <3> QED
      BY <1>4, <2>4, <3>2
  <2> QED
    BY <1>3, <2>1, <2>2, <2>3, <2>4
<1>6. UNCHANGED <<daemonVars, pinged, client, gen, proc, writer, pongs, counter>>
  BY DEF Handle
<1> QED
  BY <1>2, <1>5, <1>6 DEF TInv, TypeOK, Started, daemonVars

LEMMA QueryFields ==
  ASSUME TypeOK, NEW q \in queries
  PROVE  /\ q \in Query /\ q.chat \in Chats /\ q.turn \in Turns
         /\ [type |-> "done", chat |-> q.chat, turn |-> q.turn] \in Happening
         /\ counter < MaxAsks => /\ counter + 1 \in Asks /\ counter + 1 \in 0 .. MaxAsks
                                 /\ [type |-> "ask", chat |-> q.chat, turn |-> q.turn,
                                     perm |-> counter + 1] \in Happening
<1>1. q \in Query /\ q.chat \in Chats /\ q.turn \in Turns
  BY DEF TypeOK, Query
<1>2. counter < MaxAsks => counter + 1 \in Asks /\ counter + 1 \in 0 .. MaxAsks
  BY BoundsAssumption DEF TypeOK, Asks
<1> QED
  BY <1>1, <1>2, Commands

LEMMA QueryType ==
  ASSUME TInv, NEW q \in queries, CanUseTool(q) \/ Result(q) \/ EndQuery(q)
  PROVE  TInv'
<1>1. /\ queries \in SUBSET Query
      /\ q \in Query /\ q.chat \in Chats /\ q.turn \in Turns
      /\ [type |-> "done", chat |-> q.chat, turn |-> q.turn] \in Happening
      /\ counter < MaxAsks => /\ counter + 1 \in Asks /\ counter + 1 \in 0 .. MaxAsks
                              /\ [type |-> "ask", chat |-> q.chat, turn |-> q.turn,
                                  perm |-> counter + 1] \in Happening
  BY QueryFields DEF TInv, TypeOK
<1>2. CASE CanUseTool(q)
  <2>1. [q EXCEPT !.perm = counter + 1] \in Query
    BY <1>1, <1>2 DEF CanUseTool, Query
  <2>2. queries' \in SUBSET Query /\ counter' \in 0 .. MaxAsks
    BY <1>1, <1>2, <2>1 DEF CanUseTool
  <2>3. stdout' \in [Gens -> Seq(Happening)]
    BY <1>1, <1>2, WritesType DEF CanUseTool, TInv
  <2>4. UNCHANGED <<daemonVars, pinged, client, gen, proc, writer, cmds, pongs>>
    BY <1>2 DEF CanUseTool
  <2> QED
    BY <2>2, <2>3, <2>4 DEF TInv, TypeOK, Started, daemonVars
<1>3. CASE Result(q)
  <2>1. [q EXCEPT !.over = TRUE, !.cut = FALSE] \in Query
    BY <1>1 DEF Query
  <2>2. queries' = (queries \ {q}) \cup {[q EXCEPT !.over = TRUE, !.cut = FALSE]}
    BY <1>3 DEF Result
  <2>3. queries' \in SUBSET Query
    BY <1>1, <2>1, <2>2, Zenon
  <2>4. stdout' \in [Gens -> Seq(Happening)]
    BY <1>1, <1>3, WritesType DEF Result, TInv
  <2>5. UNCHANGED <<daemonVars, pinged, client, gen, proc, writer, cmds, pongs, counter>>
    BY <1>3 DEF Result
  <2> QED
    BY <2>3, <2>4, <2>5 DEF TInv, TypeOK, Started, daemonVars
<1>4. CASE EndQuery(q)
  <2>1. queries' \in SUBSET Query
    BY <1>1, <1>4 DEF EndQuery
  <2>2. stdout' \in [Gens -> Seq(Happening)]
    <3>1. CASE q.over
      BY <1>4, <3>1 DEF EndQuery, TInv, TypeOK
    <3>2. CASE ~q.over
      BY <1>1, <1>4, <3>2, WritesType DEF EndQuery, TInv
    <3> QED
      BY <3>1, <3>2
  <2>3. UNCHANGED <<daemonVars, pinged, client, gen, proc, writer, cmds, pongs, counter>>
    BY <1>4 DEF EndQuery
  <2> QED
    BY <2>1, <2>2, <2>3 DEF TInv, TypeOK, Started, daemonVars
<1> QED
  BY <1>2, <1>3, <1>4

\* What the reader routes goes to a turn in flight.
LEMMA RouteType ==
  ASSUME TInv, NEW g \in Gens, Route(g)
  PROVE  TInv'
<1> DEFINE m == Head(stdout[g])
<1>1. stdout[g] \in Seq(Happening) /\ stdout[g] # << >>
  BY DEF Route, TInv, TypeOK
<1>2. m \in Happening /\ Tail(stdout[g]) \in Seq(Happening)
  BY <1>1
<1>3. /\ stdout' = [stdout EXCEPT ![g] = Tail(@)]
      /\ \/ m.type = "pong" /\ pongs' = (pongs \/ g = gen) /\ UNCHANGED inbox
         \/ /\ m.type # "pong"
            /\ chats[m.chat].turn = m.turn
            /\ inbox' = [inbox EXCEPT ![m.chat] = Append(@, m)] /\ UNCHANGED pongs
         \/ UNCHANGED <<inbox, pongs>>
      /\ UNCHANGED <<chats, tracked, shown, blocked, pinged, client, procVars, cmds>>
  BY DEF Route
<1> HIDE DEF m
<1>4. stdout' \in [Gens -> Seq(Happening)]
  BY <1>2, <1>3 DEF TInv, TypeOK
<1>5. pongs' \in BOOLEAN /\ inbox' \in [Chats -> Seq(Happening)] /\ Counted(chats, inbox')
  <2>1. CASE m.type = "pong" /\ pongs' = (pongs \/ g = gen) /\ UNCHANGED inbox
    BY <2>1 DEF TInv, TypeOK
  <2>2. CASE UNCHANGED <<inbox, pongs>>
    BY <2>2 DEF TInv, TypeOK
  <2>3. CASE /\ m.type # "pong"
             /\ chats[m.chat].turn = m.turn
             /\ inbox' = [inbox EXCEPT ![m.chat] = Append(@, m)] /\ UNCHANGED pongs
    <3>1. m.chat \in Chats /\ m.turn # 0
      BY <1>2, <2>3, CommandFields DEF Turns
    <3>2. /\ inbox' \in [Chats -> Seq(Happening)]
          /\ \A s \in Chats \ {m.chat} : inbox'[s] = inbox[s]
      <4>1. Append(inbox[m.chat], m) \in Seq(Happening)
        BY <1>2, <3>1 DEF TInv, TypeOK
      <4> QED
        BY <2>3, <3>1, <4>1 DEF TInv, TypeOK
    <3> QED
      BY <2>3, <3>1, <3>2 DEF TInv, TypeOK, Counted
  <2> QED
    BY <1>3, <2>1, <2>2, <2>3
<1>6. Counted(chats', inbox')
  BY <1>3, <1>5
<1> QED
  BY <1>3, <1>4, <1>5, <1>6 DEF TInv, TypeOK, Started, procVars

\* Timers, the writer thread and the end of a process.
LEMMA RestType ==
  ASSUME TInv, TickPermissions \/ TickHealth \/ TickPong \/ WriterDies \/ Die \/ Hang
  PROVE  TInv'
<1>0. /\ cmds \in Seq(Command) /\ << >> \in Seq(Command) /\ {} \in SUBSET Query
      /\ Sent(cmds, [type |-> "ping"]) \in Seq(Command)
  BY SentType, Commands DEF TInv, TypeOK
<1>1. CASE TickPermissions
  <2>1. PICK a \in tracked :
          /\ tracked' = tracked \ {a}
          /\ shown' = shown \ {a}
          /\ blocked' = blocked \cup {a.chat}
          /\ cmds' = Sent(cmds, [type |-> "respond", perm |-> a.perm])
          /\ UNCHANGED <<chats, inbox, pinged, client, procVars, stdout, pongs>>
    BY <1>1 DEF TickPermissions
  <2>2. a.chat \in Chats /\ a.perm \in Asks
    BY DEF TInv, TypeOK, Pending
  <2>3. [type |-> "respond", perm |-> a.perm] \in Command
    BY <2>2, Commands
  <2>4. cmds' \in Seq(Command)
    BY <1>0, <2>1, <2>3, SentType
  <2> QED
    BY <2>1, <2>2, <2>4 DEF TInv, TypeOK, Started, procVars
<1>2. CASE TickHealth
  <2>1. /\ pongs' = FALSE
        /\ pinged' \in BOOLEAN /\ client' \in BOOLEAN /\ writer' \in BOOLEAN
        /\ client' = TRUE => client
        /\ proc' \in {proc, "dead"} /\ queries' \in {queries, {}}
        /\ cmds' \in Seq(Command)
        /\ UNCHANGED <<daemonVars, gen, stdout, counter>>
    BY <1>0, <1>2 DEF TickHealth, TInv, TypeOK
  <2> QED
    BY <2>1 DEF TInv, TypeOK, Started, daemonVars
<1>3. CASE TickPong
  BY <1>3 DEF TickPong, TInv, TypeOK, Started, daemonVars, procVars
<1>4. CASE WriterDies
  BY <1>0, <1>4 DEF WriterDies, TInv, TypeOK, Started, daemonVars
<1>5. CASE Die
  BY <1>0, <1>5 DEF Die, TInv, TypeOK, Started, daemonVars
<1>6. CASE Hang
  BY <1>6 DEF Hang, TInv, TypeOK, Started, daemonVars
<1> QED
  BY <1>1, <1>2, <1>3, <1>4, <1>5, <1>6

LEMMA TypeInit == Init => TInv
<1> SUFFICES ASSUME Init PROVE TInv
  OBVIOUS
<1>1. TypeOK
  <2>1. [state |-> "absent", turn |-> 0, gen |-> 0, seq |-> 0, queued |-> 0] \in Chat
    BY BoundsAssumption DEF Chat
  <2>2. chats \in [Chats -> Chat]
    BY <2>1, Zenon DEF Init
  <2>3. gen \in 0 .. MaxGens /\ counter \in 0 .. MaxAsks
    BY BoundsAssumption DEF Init
  <2>4. /\ inbox \in [Chats -> Seq(Happening)] /\ stdout \in [Gens -> Seq(Happening)]
        /\ cmds \in Seq(Command)
    BY DEF Init
  <2> QED
    BY <2>2, <2>3, <2>4 DEF Init, TypeOK
<1>2. Counted(chats, inbox) /\ Started
  BY BoundsAssumption DEF Init, Counted, Started
<1> QED
  BY <1>1, <1>2 DEF TInv

LEMMA TypeStep == TInv /\ [Next]_vars => TInv'
<1> SUFFICES ASSUME TInv, [Next]_vars PROVE TInv'
  OBVIOUS
<1>1. CASE UNCHANGED vars
  BY <1>1 DEF vars, TInv, TypeOK, Started
<1> QED
  BY <1>1, OpenType, SendTurnType, FinishType, DrainType, RestType, RouteType, HandleType,
     QueryType DEF Next

\* Type correctness: whoever drains, aborts, dies or is replaced, a turn in flight is
\* the last one numbered of an open chat, and no message is ever queued for which no
\* turn is left.
THEOREM TypeCorrect == Spec => []TypeOK
<1>1. TInv => TypeOK
  BY DEF TInv
<1> QED
  BY <1>1, TypeInit, TypeStep, PTL DEF Spec

-----------------------------------------------------------------------------
\* Requests: none is shown without its deadline, and none outlives its session.

\* Launching opens and closes nothing, and says which turn is in flight.
LEMMA LaunchFields ==
  ASSUME NEW X \in SUBSET Chats, NEW cs \in [Chats -> Chat], NEW q, Launch(X, cs, q)
  PROVE  \A s \in Chats :
           /\ chats'[s].state = cs[s].state /\ chats'[s].seq = cs[s].seq
           /\ s \notin X => chats'[s] = cs[s]
           /\ s \in X => chats'[s].turn = cs[s].seq /\ chats'[s].gen = gen'
<1> DEFINE g == IF X # {} /\ NeedsSpawn THEN gen + 1 ELSE gen
<1>1. /\ gen' = g
      /\ chats' = [s \in Chats |-> IF s \in X THEN [cs[s] EXCEPT !.turn = cs[s].seq, !.gen = g]
                                              ELSE cs[s]]
  BY DEF Launch
<1> HIDE DEF g
<1> TAKE s \in Chats
<1>2. CASE s \notin X
  BY <1>1, <1>2
<1>3. CASE s \in X
  <2>1. chats'[s] = [cs[s] EXCEPT !.turn = cs[s].seq, !.gen = g]
    BY <1>1, <1>3
  <2>2. cs[s] \in Chat
    OBVIOUS
  <2>3. /\ chats'[s].turn = cs[s].seq /\ chats'[s].gen = g /\ chats'[s].seq = cs[s].seq
        /\ chats'[s].state = cs[s].state
    BY <2>1, <2>2 DEF Chat
  <2> QED
    BY <1>1, <1>3, <2>3
<1> QED
  BY <1>2, <1>3

LEMMA TrackedInit == Init => PendingTracked
  BY DEF Init, PendingTracked

LEMMA TrackedStep == TInv /\ PendingTracked /\ [Next]_vars => PendingTracked'
<1> SUFFICES ASSUME TInv, PendingTracked, [Next]_vars PROVE PendingTracked'
  OBVIOUS
<1>0. \A a \in tracked : a.chat \in Chats
  BY DEF TInv, TypeOK, Pending
<1>1. ASSUME NEW s \in Chats, OpenChat(s) PROVE PendingTracked'
  <2> DEFINE cs == [chats EXCEPT ![s] = [@ EXCEPT !.seq = 1, !.state = "open"]]
  <2>1. Others(s, cs) /\ cs[s].state = "open" /\ Launch({s}, cs, cmds)
        /\ UNCHANGED <<tracked, shown>>
    BY <1>1, Opened DEF OpenChat, TInv
  <2> HIDE DEF cs
  <2>2. \A t \in Chats : chats'[t].state = cs[t].state
    BY <2>1, LaunchFields DEF Others
  <2> QED
    BY <1>0, <2>1, <2>2 DEF PendingTracked, Others
<1>2. ASSUME NEW s \in Chats, SendChatTurn(s) PROVE PendingTracked'
  <2> DEFINE numbered == [chats EXCEPT ![s].seq = @ + 1]
             queued   == [chats EXCEPT ![s].queued = @ + 1]
  <2>1. \/ Launch({}, queued, cmds)
        \/ ~Active(s) /\ (Launch({s}, numbered, cmds) \/ Launch({}, numbered, cmds))
    BY <1>2 DEF SendChatTurn
  <2>2. Others(s, queued) /\ queued[s].state = chats[s].state
    BY <1>2, Queued DEF SendChatTurn, TInv
  <2>3. ~Active(s) => Others(s, numbered) /\ numbered[s].state = chats[s].state
    BY <1>2, Numbered DEF SendChatTurn, TInv, Active
  <2> HIDE DEF numbered, queued
  <2>4. \A t \in Chats : chats'[t].state = chats[t].state
    <3>1. ASSUME NEW X \in SUBSET Chats, NEW cs, Others(s, cs), cs[s].state = chats[s].state,
                 Launch(X, cs, cmds)
          PROVE  \A t \in Chats : chats'[t].state = chats[t].state
      <4>1. cs \in [Chats -> Chat] /\ \A t \in Chats : cs[t].state = chats[t].state
        BY <3>1 DEF Others
      <4>2. \A t \in Chats : chats'[t].state = cs[t].state
        BY <3>1, <4>1, LaunchFields
      <4> QED
        BY <4>1, <4>2
    <3>2. {} \in SUBSET Chats /\ {s} \in SUBSET Chats
      OBVIOUS
    <3> QED
      BY <2>1, <2>2, <2>3, <3>1, <3>2
  <2> QED
    BY <1>0, <1>2, <2>4 DEF PendingTracked, SendChatTurn
<1>3. ASSUME NEW s \in Chats, FinishChat(s) PROVE PendingTracked'
  <2>1. \A t \in Chats \ {s} : chats'[t] = chats[t]
    BY <1>3, Finished DEF FinishChat, TInv, Others
  <2> QED
    BY <1>0, <1>3, <2>1 DEF PendingTracked, FinishChat
<1>4. ASSUME DrainSidecar PROVE PendingTracked'
  <2>1. PICK over, next, ok, asks, gone, cs : Drained(over, next, ok, asks, gone, cs)
    BY <1>4, DrainIsDrained DEF TInv
  <2>2. \A t \in Chats : chats'[t].state = chats[t].state
    BY <2>1, LaunchFields DEF Drained
  <2>3. \A a \in asks : a.chat \in Chats /\ chats[a.chat].state = "open"
    BY <2>1 DEF Drained, Active, TInv, Counted, Pending
  <2>4. shown' = tracked' /\ \A a \in tracked' : a \in tracked \/ a \in asks
    BY <2>1 DEF Drained, PendingTracked
  <2> QED
    BY <1>0, <2>2, <2>3, <2>4 DEF PendingTracked
<1>5. CASE TickPermissions
  BY <1>5 DEF TickPermissions, PendingTracked
<1>6. CASE UNCHANGED <<chats, tracked, shown>>
  BY <1>6 DEF PendingTracked
<1>7. TickHealth \/ TickPong \/ WriterDies \/ Handle \/ Die \/ Hang
        => UNCHANGED <<chats, tracked, shown>>
  BY DEF TickHealth, TickPong, WriterDies, Handle, Die, Hang, daemonVars
<1>8. (\E g \in Gens : Route(g)) \/ (\E q \in queries : CanUseTool(q) \/ Result(q) \/ EndQuery(q))
        => UNCHANGED <<chats, tracked, shown>>
  BY DEF Route, CanUseTool, Result, EndQuery, daemonVars
<1>9. UNCHANGED vars => UNCHANGED <<chats, tracked, shown>>
  BY DEF vars
<1> QED
  BY <1>1, <1>2, <1>3, <1>4, <1>5, <1>6, <1>7, <1>8, <1>9 DEF Next

\* The log never shows a request as pending without a deadline that will deny it, and
\* none is left of a session that was finished, whatever became of its process.
THEOREM Tracked == Spec => []PendingTracked
<1> QED
  BY TypeInit, TypeStep, TrackedInit, TrackedStep, PTL DEF Spec

-----------------------------------------------------------------------------
\* The health check.

\* A ping that a living process has not answered is under way, or its answer is.  As
\* long as no process dies by itself, client and process come and go together.
Pinged ==
  /\ pinged /\ proc = "alive" => pongs \/ Answering
  /\ proc = "dead" => ~client
  /\ proc = "alive" => client
  /\ ~client => ~pinged

\* One of the queue is of type t.
HasType(q, t) == \E i \in DOMAIN q : q[i].type = t

\* Nothing is taken out by adding, and what is taken from the front is one.
LEMMA HasTypeFacts ==
  ASSUME NEW S, NEW q \in Seq(S), NEW t
  PROVE  /\ \A r \in Seq(S) : HasType(q, t) => HasType(q \o r, t)
         /\ \A c \in S : /\ HasType(q, t) => HasType(Append(q, c), t)
                         /\ c.type = t => HasType(Append(q, c), t)
         /\ q # << >> /\ HasType(q, t) => Head(q).type = t \/ HasType(Tail(q), t)
<1>1. ASSUME NEW r \in Seq(S), HasType(q, t) PROVE HasType(q \o r, t)
  BY <1>1 DEF HasType
<1>2. ASSUME NEW c \in S PROVE /\ HasType(q, t) => HasType(Append(q, c), t)
                               /\ c.type = t => HasType(Append(q, c), t)
  <2>1. Len(q) + 1 \in DOMAIN Append(q, c) /\ Append(q, c)[Len(q) + 1] = c
    OBVIOUS
  <2>2. \A i \in DOMAIN q : i \in DOMAIN Append(q, c) /\ Append(q, c)[i] = q[i]
    OBVIOUS
  <2> QED
    BY <2>1, <2>2, Zenon DEF HasType
<1>3. ASSUME q # << >>, HasType(q, t) PROVE Head(q).type = t \/ HasType(Tail(q), t)
  <2>1. PICK i \in 1 .. Len(q) : q[i].type = t
    BY <1>3 DEF HasType
  <2>2. CASE i = 1
    BY <1>3, <2>1, <2>2
  <2>3. CASE i # 1
    <3>1. i - 1 \in DOMAIN Tail(q) /\ Tail(q)[i - 1] = q[i]
      BY <1>3, <2>1, <2>3
    <3> QED
      BY <2>1, <3>1 DEF HasType
  <2> QED
    BY <2>2, <2>3
<1> QED
  BY <1>1, <1>2, <1>3

LEMMA AnsweringAs ==
  Answering <=> proc = "alive" /\ (HasType(cmds, "ping") \/ HasType(stdout[gen], "pong"))
  BY DEF Answering, HasType

LEMMA SentHas ==
  ASSUME TInv, NEW c \in Command
  PROVE  /\ HasType(cmds, "ping") => HasType(Sent(cmds, c), "ping")
         /\ client /\ writer /\ c.type = "ping" => HasType(Sent(cmds, c), "ping")
  BY HasTypeFacts DEF Sent, TInv, TypeOK

\* Launching a turn takes no ping out of the queue; a new process was not pinged.
LEMMA LaunchPinged ==
  ASSUME TInv, Pinged, NEW X \in SUBSET Chats, NEW cs \in [Chats -> Chat],
         \A s \in X : cs[s].seq \in Turns,
         NEW q \in Seq(Command), HasType(cmds, "ping") => HasType(q, "ping"),
         Launch(X, cs, q), UNCHANGED <<pinged, stdout>>
  PROVE  Pinged' /\ (client => client')
<1> DEFINE fresh == X # {} /\ NeedsSpawn
           turns == ChatCommands(X, cs)
<1>1. turns \in Seq(Command)
  BY Told
<1> HIDE DEF turns
<1>2. CASE fresh
  <2>1. client' = TRUE /\ proc' = "alive" /\ pinged' = pinged
    BY <1>2 DEF Launch
  <2>2. ~client
    BY <1>2 DEF NeedsSpawn, Pinged
  <2> QED
    BY <2>1, <2>2 DEF Pinged
<1>3. CASE ~fresh
  <2>1. /\ cmds' = q \o turns /\ gen' = gen
        /\ UNCHANGED <<client, proc, pongs>>
    BY <1>3 DEF Launch, turns
  <2>2. HasType(cmds, "ping") => HasType(cmds', "ping")
    BY <1>1, <2>1, HasTypeFacts
  <2>3. Answering => Answering'
    BY <2>1, <2>2, AnsweringAs DEF Answering, HasType
  <2> QED
    BY <2>1, <2>3 DEF Pinged
<1> QED
  BY <1>2, <1>3

LEMMA DaemonPinged ==
  ASSUME TInv, Pinged,
         (\E s \in Chats : OpenChat(s) \/ SendChatTurn(s)) \/ DrainSidecar
  PROVE  Pinged' /\ (client => client')
<1>0. cmds \in Seq(Command)
  BY DEF TInv, TypeOK
<1>1. ASSUME NEW s \in Chats, OpenChat(s) PROVE Pinged' /\ (client => client')
  <2> DEFINE cs == [chats EXCEPT ![s] = [@ EXCEPT !.seq = 1, !.state = "open"]]
  <2>1. Others(s, cs) /\ cs[s].seq = 1
    BY <1>1, Opened DEF OpenChat, TInv
  <2>2. Launch({s}, cs, cmds) /\ UNCHANGED <<pinged, stdout>>
    BY <1>1 DEF OpenChat
  <2> HIDE DEF cs
  <2>3. cs \in [Chats -> Chat] /\ cs[s].seq \in Turns
    BY <2>1, BoundsAssumption DEF Others, Turns
  <2> QED
    BY <1>0, <2>2, <2>3, LaunchPinged
<1>2. ASSUME NEW s \in Chats, SendChatTurn(s) PROVE Pinged' /\ (client => client')
  <2> DEFINE numbered == [chats EXCEPT ![s].seq = @ + 1]
             queued   == [chats EXCEPT ![s].queued = @ + 1]
  <2>1. /\ \/ Launch({}, queued, cmds)
           \/ ~Active(s) /\ (Launch({s}, numbered, cmds) \/ Launch({}, numbered, cmds))
        /\ UNCHANGED <<pinged, stdout>>
    BY <1>2 DEF SendChatTurn
  <2>2. Others(s, queued)
    BY <1>2, Queued DEF SendChatTurn, TInv
  <2>3. ~Active(s) => Others(s, numbered) /\ numbered[s].seq \in Turns
    BY <1>2, Numbered DEF SendChatTurn, TInv, Active
  <2> HIDE DEF numbered, queued
  <2>4. CASE Launch({}, queued, cmds)
    BY <1>0, <2>1, <2>2, <2>4, LaunchPinged DEF Others
  <2>5. CASE ~Active(s) /\ Launch({s}, numbered, cmds)
    BY <1>0, <2>1, <2>3, <2>5, LaunchPinged DEF Others
  <2>6. CASE ~Active(s) /\ Launch({}, numbered, cmds)
    BY <1>0, <2>1, <2>3, <2>6, LaunchPinged DEF Others
  <2> QED
    BY <2>1, <2>4, <2>5, <2>6
<1>3. ASSUME DrainSidecar PROVE Pinged' /\ (client => client')
  <2>1. PICK over, next, ok, asks, gone, cs : Drained(over, next, ok, asks, gone, cs)
    BY <1>3, DrainIsDrained DEF TInv
  <2> DEFINE q == IF Routed THEN cmds ELSE Allowed(asks)
  <2>2. q \in Seq(Command) /\ (HasType(cmds, "ping") => HasType(q, "ping"))
    <3>1. Allowed(asks) \in Seq(Command)
      BY <1>0, <2>1, AllowedType DEF Drained
    <3>2. PICK r \in Seq(Command) : Allowed(asks) \in {cmds, cmds \o r}
      BY <1>0, <2>1, AllowedType DEF Drained
    <3>3. HasType(cmds, "ping") => HasType(cmds \o r, "ping")
      BY <1>0, <3>2, HasTypeFacts
    <3> QED
      BY <1>0, <3>1, <3>2, <3>3
  <2>4. Launch(ok, cs, q) /\ UNCHANGED <<pinged, stdout>>
    BY <2>1 DEF Drained
  <2> HIDE DEF q
  <2>3. ok \in SUBSET Chats /\ cs \in [Chats -> Chat] /\ \A s \in ok : cs[s].seq \in Turns
    <3>1. ok \in SUBSET Chats /\ cs \in [Chats -> Chat]
      BY <2>1 DEF Drained
    <3>2. ASSUME NEW s \in ok PROVE cs[s].seq \in Turns
      <4>1. s \in Chats /\ cs[s].seq = chats[s].seq + 1
        BY <2>1, <3>1 DEF Drained
      <4>2. chats[s].seq \in Nat /\ cs[s].seq \in 0 .. MaxTurns
        BY <3>1, <4>1, BoundsAssumption DEF TInv, TypeOK, Chat
      <4> QED
        BY <4>1, <4>2, BoundsAssumption DEF Turns
    <3> QED
      BY <3>1, <3>2
  <2> QED
    BY <2>2, <2>3, <2>4, LaunchPinged
<1> QED
  BY <1>1, <1>2, <1>3

LEMMA WritesHas ==
  ASSUME TInv, gen \in Gens, NEW m \in Happening, Writes(m)
  PROVE  /\ HasType(stdout[gen], "pong") => HasType(stdout'[gen], "pong")
         /\ m.type = "pong" => HasType(stdout'[gen], "pong")
<1>1. stdout[gen] \in Seq(Happening) /\ stdout'[gen] = Append(stdout[gen], m)
  BY DEF Writes, TInv, TypeOK
<1> QED
  BY <1>1, HasTypeFacts

LEMMA ProcessPinged ==
  ASSUME TInv, Pinged,
         Handle \/ (\E q \in queries : CanUseTool(q) \/ Result(q) \/ EndQuery(q)) \/ Hang
  PROVE  Pinged' /\ (client => client')
<1>0. cmds \in Seq(Command) /\ proc = "alive" /\ client /\ gen \in Gens
  <2>1. proc = "alive"
    BY DEF Handle, CanUseTool, Result, EndQuery, Hang
  <2> QED
    BY <2>1, BoundsAssumption DEF Pinged, TInv, TypeOK, Started, Gens
<1>1. CASE Handle
  <2>1. /\ cmds # << >> /\ cmds' = Tail(cmds)
        /\ UNCHANGED <<pinged, client, gen, proc, pongs>>
        /\ UNCHANGED stdout \/ (Writes([type |-> "pong"]))
        /\ Head(cmds).type = "ping" => Writes([type |-> "pong"])
    BY <1>1 DEF Handle
  <2>2. Head(cmds).type = "ping" => HasType(stdout'[gen], "pong")
    <3>1. [type |-> "pong"] \in Happening
      BY Commands
    <3>2. [type |-> "pong"].type = "pong"
      OBVIOUS
    <3> QED
      BY <1>0, <2>1, <3>1, <3>2, WritesHas
  <2>3. HasType(stdout[gen], "pong") => HasType(stdout'[gen], "pong")
    <3>1. [type |-> "pong"] \in Happening
      BY Commands
    <3> QED
      BY <1>0, <2>1, <3>1, WritesHas
  <2>4. HasType(cmds, "ping") => Head(cmds).type = "ping" \/ HasType(cmds', "ping")
    BY <1>0, <2>1, HasTypeFacts
  <2>5. Answering => Answering'
    BY <1>0, <2>1, <2>2, <2>3, <2>4, AnsweringAs DEF Answering, HasType
  <2> QED
    BY <1>0, <2>1, <2>5 DEF Pinged
<1>2. ASSUME NEW q \in queries, CanUseTool(q) \/ Result(q) \/ EndQuery(q)
      PROVE  Pinged' /\ (client => client')
  <2>1. UNCHANGED <<pinged, client, gen, proc, pongs, cmds>>
    BY <1>2 DEF CanUseTool, Result, EndQuery
  <2>2. HasType(stdout[gen], "pong") => HasType(stdout'[gen], "pong")
    <3>1. /\ [type |-> "done", chat |-> q.chat, turn |-> q.turn] \in Happening
          /\ counter < MaxAsks => [type |-> "ask", chat |-> q.chat, turn |-> q.turn,
                                   perm |-> counter + 1] \in Happening
      BY QueryFields DEF TInv
    <3>2. CASE CanUseTool(q)
      BY <1>0, <3>1, <3>2, WritesHas DEF CanUseTool
    <3>3. CASE Result(q)
      BY <1>0, <3>1, <3>3, WritesHas DEF Result
    <3>4. CASE EndQuery(q)
      <4>1. CASE q.over
        BY <3>4, <4>1 DEF EndQuery
      <4>2. CASE ~q.over
        BY <1>0, <3>1, <3>4, <4>2, WritesHas DEF EndQuery
      <4> QED
        BY <4>1, <4>2
    <3> QED
      BY <1>2, <3>2, <3>3, <3>4
  <2>3. Answering => Answering'
    BY <2>1, <2>2, AnsweringAs DEF Answering, HasType
  <2> QED
    BY <2>1, <2>3 DEF Pinged
<1>3. CASE Hang
  BY <1>0, <1>3 DEF Hang, Pinged
<1> QED
  BY <1>1, <1>2, <1>3

\* The reader hands the pong of this process over and no other.
LEMMA RoutePinged ==
  ASSUME TInv, Pinged, NEW g \in Gens, Route(g)
  PROVE  Pinged' /\ (client => client')
<1>1. /\ stdout[g] \in Seq(Happening) /\ stdout[g] # << >>
      /\ stdout' = [stdout EXCEPT ![g] = Tail(@)]
      /\ UNCHANGED <<pinged, client, gen, proc, cmds>>
  BY DEF Route, TInv, TypeOK, procVars
<1>2. /\ Head(stdout[g]).type = "pong" /\ g = gen => pongs'
      /\ pongs => pongs'
  BY DEF Route
<1>3. CASE g # gen
  <2>1. stdout'[gen] = stdout[gen]
    BY <1>1, <1>3 DEF TInv, TypeOK
  <2>2. Answering => Answering'
    BY <1>1, <2>1 DEF Answering
  <2> QED
    BY <1>1, <1>2, <2>2 DEF Pinged
<1>4. CASE g = gen
  <2>1. stdout'[gen] = Tail(stdout[gen])
    BY <1>1, <1>4 DEF TInv, TypeOK
  <2>2. HasType(stdout[gen], "pong") => Head(stdout[gen]).type = "pong" \/ HasType(stdout'[gen], "pong")
    BY <1>1, <1>4, <2>1, HasTypeFacts
  <2>3. Answering => pongs' \/ Answering'
    BY <1>1, <1>2, <1>4, <2>2, AnsweringAs DEF Answering, HasType
  <2> QED
    BY <1>1, <1>2, <2>3 DEF Pinged
<1> QED
  BY <1>3, <1>4

\* Aborts, deadlines and the timers.
LEMMA TimersPinged ==
  ASSUME TInv, Pinged,
         (\E s \in Chats : FinishChat(s)) \/ TickPermissions \/ TickPong \/ WriterDies
  PROVE  Pinged' /\ (client => client')
<1>1. ASSUME NEW c \in Command, cmds' \in {cmds, Sent(cmds, c)},
             UNCHANGED <<pinged, client, procVars, stdout, pongs>>
      PROVE  Pinged' /\ (client => client')
  <2>1. HasType(cmds, "ping") => HasType(cmds', "ping")
    BY <1>1, SentHas
  <2>2. UNCHANGED <<pinged, client, gen, proc, stdout, pongs>>
    BY <1>1 DEF procVars
  <2>3. Answering => Answering'
    BY <2>1, <2>2, AnsweringAs DEF Answering, HasType
  <2> QED
    BY <2>2, <2>3 DEF Pinged
<1>2. ASSUME NEW s \in Chats, FinishChat(s) PROVE Pinged' /\ (client => client')
  <2>1. UNCHANGED <<pinged, client, procVars, stdout, pongs>>
    BY <1>2 DEF FinishChat
  <2>2. CASE Active(s)
    <3>1. chats[s].turn \in Turns
      BY <2>2, BoundsAssumption DEF TInv, TypeOK, Chat, Active, Turns
    <3>2. [type |-> "abort", chat |-> s, turn |-> chats[s].turn] \in Command
      BY <3>1, Commands
    <3>3. cmds' = Sent(cmds, [type |-> "abort", chat |-> s, turn |-> chats[s].turn])
      BY <1>2, <2>2 DEF FinishChat
    <3> QED
      BY <1>1, <2>1, <3>2, <3>3
  <2>3. CASE ~Active(s)
    <3>1. cmds' = cmds /\ [type |-> "ping"] \in Command
      BY <1>2, <2>3, Commands DEF FinishChat
    <3> QED
      BY <1>1, <2>1, <3>1
  <2> QED
    BY <2>2, <2>3
<1>3. CASE TickPermissions
  <2>1. PICK a \in tracked :
          /\ cmds' = Sent(cmds, [type |-> "respond", perm |-> a.perm])
          /\ UNCHANGED <<pinged, client, procVars, stdout, pongs>>
    BY <1>3 DEF TickPermissions
  <2>2. a.perm \in Asks
    BY DEF TInv, TypeOK, Pending
  <2>3. [type |-> "respond", perm |-> a.perm] \in Command
    BY <2>2, Commands
  <2> QED
    BY <1>1, <2>1, <2>3
<1>4. CASE TickPong
  BY <1>4 DEF TickPong, Pinged, procVars
<1>5. CASE WriterDies
  BY <1>5 DEF WriterDies, Pinged
<1> QED
  BY <1>2, <1>3, <1>4, <1>5

\* A process is given up only if its answer is neither here nor under way.
LEMMA HealthPinged ==
  ASSUME TInv, Pinged, TickHealth
  PROVE  Pinged' /\ (client /\ ~client' => proc # "alive")
<1>0. client /\ ~Answering
  BY DEF TickHealth
<1>1. CASE pinged /\ ~pongs
  <2>1. client' = FALSE /\ proc' = "dead" /\ pinged' = FALSE
    BY <1>1 DEF TickHealth
  <2> QED
    BY <1>0, <1>1, <2>1 DEF Pinged
<1>2. CASE ~(pinged /\ ~pongs)
  <2>1. /\ cmds' = Sent(cmds, [type |-> "ping"])
        /\ pinged' = writer
        /\ UNCHANGED <<client, proc, gen, stdout>>
    BY <1>2 DEF TickHealth
  <2>2. [type |-> "ping"] \in Command /\ [type |-> "ping"].type = "ping"
    BY Commands
  <2>3. writer => HasType(cmds', "ping")
    BY <1>0, <2>1, <2>2, SentHas
  <2>4. pinged' /\ proc' = "alive" => Answering'
    BY <2>1, <2>3, AnsweringAs DEF Answering, HasType
  <2> QED
    BY <1>0, <2>1, <2>4 DEF Pinged
<1> QED
  BY <1>1, <1>2

LEMMA PingedStep ==
  ~MayDie /\ TInv /\ Pinged /\ [Next]_vars => Pinged' /\ (client /\ ~client' => proc # "alive")
<1> SUFFICES ASSUME ~MayDie, TInv, Pinged, [Next]_vars
             PROVE  Pinged' /\ (client /\ ~client' => proc # "alive")
  OBVIOUS
<1>1. CASE UNCHANGED vars
  BY <1>1 DEF vars, Pinged, Answering
<1>2. ~Die
  BY DEF Die
<1> QED
  BY <1>1, <1>2, DaemonPinged, ProcessPinged, RoutePinged, TimersPinged, HealthPinged DEF Next

\* As long as no process exits on its own, the health check kills none that would have
\* answered, however its pong is routed.  One that exits leaves the mark of its ping to
\* its replacement (hazard at app.rs:1256), so the hypothesis is needed.
THEOREM OnlyHung ==
  ASSUME ~MayDie
  PROVE  Spec => OnlyHungKilled
<1>1. Init => Pinged
  BY DEF Init, Pinged
<1>2. TInv /\ Pinged /\ [Next]_vars => Pinged' /\ (client /\ ~client' => proc # "alive")
  BY PingedStep
<1>3. TInv /\ Pinged /\ [Next]_vars => [client /\ ~client' => proc # "alive"]_vars
  BY <1>2
<1> QED
  BY <1>1, <1>2, <1>3, TypeInit, TypeStep, PTL DEF Spec, OnlyHungKilled

-----------------------------------------------------------------------------
\* One query per chat.

\* The command m starts a query of s; the event m ends one.
Asking(m, s) == m.type = "chat" /\ m.chat = s
Ending(m, s) == m.type = "done" /\ m.chat = s

\* Nothing of s is being answered by the process, nor on its way to it.
Idle(qs, cm, s) ==
  /\ \A q \in qs : q.chat = s => q.over
  /\ \A i \in DOMAIN cm : ~Asking(cm[i], s)

\* Queries and commands are of different chats.
Alone(qs, cm) ==
  /\ \A q, r \in qs : q.chat = r.chat /\ ~q.over /\ ~r.over => q = r
  /\ \A q \in qs, i \in DOMAIN cm : ~q.over => ~Asking(cm[i], q.chat)
  /\ \A i, j \in DOMAIN cm, s \in Chats : Asking(cm[i], s) /\ Asking(cm[j], s) => i = j

\* Of a chat that is not finished, what works or is about to is the turn in flight.
InFlight(cs, gn, qs, cm) ==
  \A s \in Chats : cs[s].state # "finished" =>
    /\ \A q \in qs : q.chat = s /\ ~q.over => cs[s].turn = q.turn /\ cs[s].gen = gn
    /\ \A i \in DOMAIN cm : Asking(cm[i], s) => cs[s].turn = cm[i].turn /\ cs[s].gen = gn

\* The end of a turn that its chat still waits for is out only when nothing of the
\* chat works any more, and a later turn has another number.
Answered(cs, ib, out, gn, qs, cm) ==
  \A s \in Chats : cs[s].state # "finished" =>
    /\ \A g \in Gens : \A i \in DOMAIN out[g] : Ending(out[g][i], s) =>
         /\ out[g][i].turn <= cs[s].seq
         /\ g = gn /\ out[g][i].turn = cs[s].turn => Idle(qs, cm, s)
    /\ \A i \in DOMAIN ib[s] : ib[s][i].type = "done" /\ cs[s].gen = gn => Idle(qs, cm, s)

Orderly(cs, ib, out, gn, qs, cm) ==
  /\ Alone(qs, cm)
  /\ InFlight(cs, gn, qs, cm)
  /\ Answered(cs, ib, out, gn, qs, cm)

\* A process to come has written nothing; without a client none is told anything.
Unborn     == \A g \in Gens : g > gen => stdout[g] = << >>
Clientless == ~client => cmds = << >> /\ queries = {}

Order ==
  /\ Orderly(chats, inbox, stdout, gen, queries, cmds)
  /\ Unborn
  /\ Clientless

IInv == TInv /\ Order

\* It says more than the property.
LEMMA OrderlyOne == IInv => OneQueryPerChat
  BY DEF IInv, Order, Orderly, Alone, Asking, OneQueryPerChat

\* Of qs and cm, fewer queries that work and fewer commands that start one are left.
Fewer(qs, cm, qs2, cm2) ==
  /\ \A r \in qs2 : ~r.over => \E q \in qs : q.chat = r.chat /\ q.turn = r.turn /\ ~q.over
  /\ \A q, r \in qs2 : q.chat = r.chat /\ ~q.over /\ ~r.over => q = r
  /\ \A i \in DOMAIN cm2, s \in Chats : Asking(cm2[i], s) => \E j \in DOMAIN cm : cm2[i] = cm[j]
  /\ \A i, j \in DOMAIN cm2, s \in Chats : Asking(cm2[i], s) /\ Asking(cm2[j], s) => i = j

LEMMA FewerOrderly ==
  ASSUME NEW cs, NEW ib, NEW out, NEW gn, NEW qs, NEW cm, Orderly(cs, ib, out, gn, qs, cm),
         NEW qs2, NEW cm2, Fewer(qs, cm, qs2, cm2),
         \A q \in qs : q.chat \in Chats
  PROVE  /\ Orderly(cs, ib, out, gn, qs2, cm2)
         /\ \A s \in Chats : Idle(qs, cm, s) => Idle(qs2, cm2, s)
<1> USE DEF Fewer
<1>1. \A s \in Chats : Idle(qs, cm, s) => Idle(qs2, cm2, s)
  BY DEF Idle
<1>2. Alone(qs2, cm2)
  BY DEF Orderly, Alone
<1>3. InFlight(cs, gn, qs2, cm2)
  BY DEF Orderly, InFlight
<1>4. Answered(cs, ib, out, gn, qs2, cm2)
  BY <1>1 DEF Orderly, Answered
<1> QED
  BY <1>1, <1>2, <1>3, <1>4 DEF Orderly

\* One more event is written: if it ends a turn, nothing of that chat works.
LEMMA WroteOrderly ==
  ASSUME NEW cs, NEW ib, NEW out \in [Gens -> Seq(Happening)], NEW gn, NEW qs, NEW cm,
         Orderly(cs, ib, out, gn, qs, cm),
         NEW m \in Happening,
         \A s \in Chats : Ending(m, s) /\ cs[s].state # "finished" =>
                            m.turn <= cs[s].seq /\ Idle(qs, cm, s)
  PROVE  Orderly(cs, ib, [out EXCEPT ![gn] = Append(@, m)], gn, qs, cm)
<1> DEFINE out2 == [out EXCEPT ![gn] = Append(@, m)]
<1>1. \A g \in Gens : \A i \in DOMAIN out2[g] :
        (i \in DOMAIN out[g] /\ out2[g][i] = out[g][i]) \/ out2[g][i] = m
  <2> SUFFICES ASSUME NEW g \in Gens
               PROVE  \A i \in DOMAIN out2[g] :
                        (i \in DOMAIN out[g] /\ out2[g][i] = out[g][i]) \/ out2[g][i] = m
    OBVIOUS
  <2>1. CASE g # gn
    BY <2>1
  <2>2. CASE g = gn
    <3>1. out2[g] = Append(out[g], m) /\ out[g] \in Seq(Happening)
      BY <2>2
    <3> HIDE DEF out2
    <3> QED
      BY <3>1
  <2> QED
    BY <2>1, <2>2
<1> HIDE DEF out2
<1>2. Answered(cs, ib, out2, gn, qs, cm)
  <2> SUFFICES ASSUME NEW s \in Chats, cs[s].state # "finished"
               PROVE  /\ \A g \in Gens : \A i \in DOMAIN out2[g] : Ending(out2[g][i], s) =>
                           /\ out2[g][i].turn <= cs[s].seq
                           /\ g = gn /\ out2[g][i].turn = cs[s].turn => Idle(qs, cm, s)
                      /\ \A i \in DOMAIN ib[s] :
                           ib[s][i].type = "done" /\ cs[s].gen = gn => Idle(qs, cm, s)
    BY DEF Answered
  <2> QED
    BY <1>1, Zenon DEF Orderly, Answered
<1> QED
  BY <1>2 DEF Orderly, out2

LEMMA Appended ==
  ASSUME NEW S, NEW q \in Seq(S), NEW t \in Seq(S)
  PROVE  /\ q \o t \in Seq(S)
         /\ \A i \in DOMAIN (q \o t) : \/ i \in DOMAIN q /\ (q \o t)[i] = q[i]
                                       \/ \E k \in DOMAIN t : i = Len(q) + k /\ (q \o t)[i] = t[k]
<1> SUFFICES ASSUME NEW i \in 1 .. Len(q) + Len(t)
             PROVE  \/ i \in DOMAIN q /\ (q \o t)[i] = q[i]
                    \/ \E k \in DOMAIN t : i = Len(q) + k /\ (q \o t)[i] = t[k]
  OBVIOUS
<1>1. CASE i <= Len(q)
  BY <1>1
<1>2. CASE i > Len(q)
  <2>1. i - Len(q) \in DOMAIN t /\ i = Len(q) + (i - Len(q)) /\ (q \o t)[i] = t[i - Len(q)]
    BY <1>2
  <2> QED
    BY <2>1
<1> QED
  BY <1>1, <1>2

\* The chats of X may get a turn: they are open and idle, and nothing has had the
\* number of the turn before.
Fit(X, cs, ib, out, qs, q) ==
  \A s \in X : /\ cs[s].state = "open" /\ ib[s] = << >> /\ Idle(qs, q, s)
               /\ cs[s].seq \in Turns
               /\ \A g \in Gens : \A i \in DOMAIN out[g] :
                    Ending(out[g][i], s) => out[g][i].turn < cs[s].seq

\* t tells the process of the turns of X, one command for each.
Telling(t, X, cs) ==
  /\ t \in Seq(Command)
  /\ \A k \in DOMAIN t : \E s \in X : t[k] = [type |-> "chat", chat |-> s, turn |-> cs[s].seq]
  /\ \A k, l \in DOMAIN t : t[k].chat = t[l].chat => k = l

\* cs2 is cs with the turns of X in flight in process gn.
Turned(X, cs, cs2, gn) ==
  \A s \in Chats :
    /\ cs2[s].state = cs[s].state /\ cs2[s].seq = cs[s].seq
    /\ s \notin X => cs2[s] = cs[s]
    /\ s \in X => cs2[s].turn = cs[s].seq /\ cs2[s].gen = gn

\* A turn is launched for chats fit for it.
LEMMA ToldOrderly ==
  ASSUME NEW cs, NEW ib, NEW out \in [Gens -> Seq(Happening)], NEW gn, NEW qs,
         NEW q \in Seq(Command), Orderly(cs, ib, out, gn, qs, q),
         \A r \in qs : r.chat \in Chats,
         NEW X \in SUBSET Chats, Fit(X, cs, ib, out, qs, q),
         NEW t, Telling(t, X, cs),
         NEW cm, cm = q \o t,
         NEW cs2, Turned(X, cs, cs2, gn)
  PROVE  Orderly(cs2, ib, out, gn, qs, cm)
<1> USE DEF Fit, Telling, Turned
<1>1. \A k \in DOMAIN t : /\ t[k].chat \in X /\ Asking(t[k], t[k].chat)
                          /\ t[k].turn = cs[t[k].chat].seq
  BY DEF Asking
<1>2. \A i \in DOMAIN cm : \/ i \in DOMAIN q /\ cm[i] = q[i]
                           \/ \E k \in DOMAIN t : i = Len(q) + k /\ cm[i] = t[k]
  BY Appended
<1>3. \A i \in DOMAIN cm, s \in Chats : Asking(cm[i], s) =>
        \/ s \notin X /\ i \in DOMAIN q /\ cm[i] = q[i]
        \/ s \in X /\ \E k \in DOMAIN t : i = Len(q) + k /\ cm[i] = t[k]
  <2> SUFFICES ASSUME NEW i \in DOMAIN cm, NEW s \in Chats, Asking(cm[i], s)
               PROVE  \/ s \notin X /\ i \in DOMAIN q /\ cm[i] = q[i]
                      \/ s \in X /\ \E k \in DOMAIN t : i = Len(q) + k /\ cm[i] = t[k]
    OBVIOUS
  <2>1. CASE i \in DOMAIN q /\ cm[i] = q[i]
    BY <2>1 DEF Idle
  <2>2. CASE \E k \in DOMAIN t : i = Len(q) + k /\ cm[i] = t[k]
    <3>1. PICK k \in DOMAIN t : i = Len(q) + k /\ cm[i] = t[k]
      BY <2>2
    <3>2. s = t[k].chat
      BY <3>1 DEF Asking
    <3> QED
      BY <1>1, <3>1, <3>2
  <2> QED
    BY <1>2, <2>1, <2>2
<1>4. \A s \in Chats \ X : Idle(qs, q, s) => Idle(qs, cm, s)
  BY <1>3 DEF Idle
<1>5. Alone(qs, cm)
  <2>1. \A r, p \in qs : r.chat = p.chat /\ ~r.over /\ ~p.over => r = p
    BY DEF Orderly, Alone
  <2>2. ASSUME NEW r \in qs, NEW i \in DOMAIN cm, ~r.over, Asking(cm[i], r.chat)
        PROVE  FALSE
    <3>1. CASE r.chat \in X
      BY <2>2, <3>1 DEF Idle
    <3>2. CASE r.chat \notin X
      BY <1>3, <2>2, <3>2 DEF Orderly, Alone
    <3> QED
      BY <3>1, <3>2
  <2>3. ASSUME NEW i \in DOMAIN cm, NEW j \in DOMAIN cm, NEW s \in Chats,
               Asking(cm[i], s), Asking(cm[j], s)
        PROVE  i = j
    <3>1. CASE s \notin X
      BY <1>3, <2>3, <3>1 DEF Orderly, Alone
    <3>2. CASE s \in X
      <4>1. PICK k \in DOMAIN t : i = Len(q) + k /\ cm[i] = t[k]
        BY <1>3, <2>3, <3>2
      <4>2. PICK l \in DOMAIN t : j = Len(q) + l /\ cm[j] = t[l]
        BY <1>3, <2>3, <3>2
      <4>3. t[k].chat = t[l].chat
        BY <2>3, <4>1, <4>2 DEF Asking
      <4> QED
        BY <4>1, <4>2, <4>3
    <3> QED
      BY <3>1, <3>2
  <2>4. \A r \in qs, i \in DOMAIN cm : ~r.over => ~Asking(cm[i], r.chat)
    BY <2>2
  <2>5. \A i, j \in DOMAIN cm, s \in Chats : Asking(cm[i], s) /\ Asking(cm[j], s) => i = j
    BY <2>3
  <2> QED
    BY <2>1, <2>4, <2>5, Zenon DEF Alone
<1>6. InFlight(cs2, gn, qs, cm)
  <2> SUFFICES ASSUME NEW s \in Chats, cs2[s].state # "finished"
               PROVE  /\ \A r \in qs : r.chat = s /\ ~r.over => cs2[s].turn = r.turn /\ cs2[s].gen = gn
                      /\ \A i \in DOMAIN cm : Asking(cm[i], s) =>
                           cs2[s].turn = cm[i].turn /\ cs2[s].gen = gn
    BY DEF InFlight
  <2>1. CASE s \notin X
    <3>1. cs2[s] = cs[s]
      BY <2>1
    <3> QED
      BY <1>3, <2>1, <3>1 DEF Orderly, InFlight
  <2>2. CASE s \in X
    <3>1. cs2[s].turn = cs[s].seq /\ cs2[s].gen = gn /\ Idle(qs, q, s)
      BY <2>2
    <3>2. ASSUME NEW i \in DOMAIN cm, Asking(cm[i], s) PROVE cm[i].turn = cs[s].seq
      <4>1. PICK k \in DOMAIN t : i = Len(q) + k /\ cm[i] = t[k]
        BY <1>3, <2>2, <3>2
      <4> QED
        BY <1>1, <3>2, <4>1 DEF Asking
    <3> QED
      BY <3>1, <3>2 DEF Idle
  <2> QED
    BY <2>1, <2>2
<1>7. Answered(cs2, ib, out, gn, qs, cm)
  <2> SUFFICES ASSUME NEW s \in Chats, cs2[s].state # "finished"
               PROVE  /\ \A g \in Gens : \A i \in DOMAIN out[g] : Ending(out[g][i], s) =>
                           /\ out[g][i].turn <= cs2[s].seq
                           /\ g = gn /\ out[g][i].turn = cs2[s].turn => Idle(qs, cm, s)
                      /\ \A i \in DOMAIN ib[s] :
                           ib[s][i].type = "done" /\ cs2[s].gen = gn => Idle(qs, cm, s)
    BY DEF Answered
  <2>1. CASE s \notin X
    <3>1. cs2[s] = cs[s]
      BY <2>1
    <3> QED
      BY <1>4, <2>1, <3>1 DEF Orderly, Answered
  <2>2. CASE s \in X
    <3>1. /\ cs2[s].turn = cs[s].seq /\ cs2[s].seq = cs[s].seq
          /\ cs[s].seq \in Nat /\ ib[s] = << >>
      BY <2>2 DEF Turns
    <3>2. ASSUME NEW g \in Gens, NEW i \in DOMAIN out[g], Ending(out[g][i], s)
          PROVE  out[g][i].turn < cs[s].seq /\ out[g][i].turn \in Nat
      <4>1. out[g][i] \in Happening
        OBVIOUS
      <4>2. out[g][i].turn \in Turns
        BY <3>2, <4>1, CommandFields DEF Ending
      <4> QED
        BY <2>2, <3>2, <4>2 DEF Turns
    <3> QED
      BY <3>1, <3>2
  <2> QED
    BY <2>1, <2>2
<1> QED
  BY <1>5, <1>6, <1>7 DEF Orderly

LEMMA LaunchOrderly ==
  ASSUME TypeOK, Unborn, Clientless, UNCHANGED stdout,
         NEW X \in SUBSET Chats, NEW cs \in [Chats -> Chat], NEW ib, inbox' = ib,
         NEW q \in Seq(Command), Orderly(cs, ib, stdout, gen, queries, q), ~client => q = << >>,
         Fit(X, cs, ib, stdout, queries, q),
         Launch(X, cs, q)
  PROVE  Order'
<1> DEFINE fresh == X # {} /\ NeedsSpawn
           t     == ChatCommands(X, cs)
<1>1. Telling(t, X, cs)
  BY Told DEF Telling, Fit
<1>2. Turned(X, cs, chats', gen')
  BY LaunchFields DEF Turned, Fit
<1>3. /\ stdout \in [Gens -> Seq(Happening)]
      /\ \A r \in queries : r.chat \in Chats
      /\ gen \in Nat
  BY BoundsAssumption DEF TypeOK, Query
<1>4. /\ fresh => /\ gen' = gen + 1 /\ client' = TRUE
                  /\ cmds' = t /\ queries' = {}
      /\ ~fresh => /\ gen' = gen /\ cmds' = q \o t
                   /\ UNCHANGED <<client, queries>>
  BY DEF Launch
<1>5. t \in Seq(Command)
  BY <1>1 DEF Telling
<1> HIDE DEF t
<1>6. CASE fresh
  <2> DEFINE none == << >>
  <2>1. Orderly(cs, ib, stdout, gen', {}, none)
    BY DEF Orderly, Alone, InFlight, Answered, Idle
  <2>2. Fit(X, cs, ib, stdout, {}, none)
    BY DEF Fit, Idle
  <2>3. none \in Seq(Command) /\ t = none \o t
    BY <1>5
  <2>4. \A r \in {} : r.chat \in Chats
    OBVIOUS
  <2> HIDE DEF none
  <2>5. Orderly(chats', ib, stdout, gen', {}, t)
    BY <1>1, <1>2, <1>3, <2>1, <2>2, <2>3, <2>4, ToldOrderly
  <2>6. Unborn'
    <3>1. gen' = gen + 1 /\ stdout' = stdout
      BY <1>4, <1>6
    <3>2. \A g \in Gens : g > gen + 1 => g > gen
      BY <1>3 DEF Gens
    <3> QED
      BY <3>1, <3>2 DEF Unborn
  <2>7. client' = TRUE /\ cmds' = t /\ queries' = {} /\ stdout' = stdout
    BY <1>4, <1>6
  <2>8. Orderly(chats', ib, stdout', gen', queries', cmds')
    BY <2>5, <2>7, Zenon
  <2>9. Clientless'
    BY <2>7 DEF Clientless
  <2> QED
    BY <2>6, <2>8, <2>9, Zenon DEF Order
<1>7. CASE ~fresh
  <2>1. gen' = gen /\ cmds' = q \o t /\ client' = client /\ queries' = queries /\ stdout' = stdout
    BY <1>4, <1>7
  <2>2. Turned(X, cs, chats', gen)
    BY <1>2, <2>1, Zenon
  <2>3. Orderly(chats', ib, stdout, gen, queries, cmds')
    BY <1>1, <1>3, <2>1, <2>2, ToldOrderly
  <2>4. ASSUME ~client PROVE cmds' = << >> /\ queries' = {}
    <3>1. X = {}
      BY <1>7, <2>4 DEF NeedsSpawn
    <3>2. t = << >>
      BY <1>1, <1>5, <3>1 DEF Telling
    <3>3. << >> \o << >> = << >>
      OBVIOUS
    <3>4. q = << >> /\ queries = {}
      BY <2>4 DEF Clientless
    <3> QED
      BY <2>1, <3>2, <3>3, <3>4
  <2>5. Unborn'
    BY <2>1, Zenon DEF Unborn
  <2>6. Clientless'
    BY <2>1, <2>4 DEF Clientless
  <2>7. Orderly(chats', ib, stdout', gen', queries', cmds')
    BY <2>1, <2>3, Zenon
  <2> QED
    BY <2>5, <2>6, <2>7, Zenon DEF Order
<1> QED
  BY <1>6, <1>7

\* The entries change, and receivers are emptied, only of chats that are idle or keep
\* their turn.
Changed(cs, ib, cs2, ib2, qs, cm) ==
  \A s \in Chats : cs2[s].state # "finished" =>
    /\ cs[s].state # "finished" /\ cs[s].seq <= cs2[s].seq
    /\ \/ Idle(qs, cm, s)
       \/ /\ cs2[s].turn = cs[s].turn /\ cs2[s].gen = cs[s].gen
          /\ ib2[s] = ib[s] \/ ib2[s] = << >>

LEMMA ChangedOrderly ==
  ASSUME NEW cs \in [Chats -> Chat], NEW ib, NEW out \in [Gens -> Seq(Happening)],
         NEW gn, NEW qs, NEW cm, Orderly(cs, ib, out, gn, qs, cm),
         NEW cs2 \in [Chats -> Chat], NEW ib2, Changed(cs, ib, cs2, ib2, qs, cm)
  PROVE  Orderly(cs2, ib2, out, gn, qs, cm)
<1> USE DEF Changed
<1>1. InFlight(cs2, gn, qs, cm)
  BY DEF Orderly, InFlight, Idle
<1>2. Answered(cs2, ib2, out, gn, qs, cm)
  <2> SUFFICES ASSUME NEW s \in Chats, cs2[s].state # "finished"
               PROVE  /\ \A g \in Gens : \A i \in DOMAIN out[g] : Ending(out[g][i], s) =>
                           /\ out[g][i].turn <= cs2[s].seq
                           /\ g = gn /\ out[g][i].turn = cs2[s].turn => Idle(qs, cm, s)
                      /\ \A i \in DOMAIN ib2[s] :
                           ib2[s][i].type = "done" /\ cs2[s].gen = gn => Idle(qs, cm, s)
    BY DEF Answered
  <2>1. \A i \in DOMAIN ib2[s] : ib2[s][i].type = "done" /\ cs2[s].gen = gn => Idle(qs, cm, s)
    BY DEF Orderly, Answered
  <2>2. ASSUME NEW g \in Gens, NEW i \in DOMAIN out[g], Ending(out[g][i], s)
        PROVE  /\ out[g][i].turn <= cs2[s].seq
               /\ g = gn /\ out[g][i].turn = cs2[s].turn => Idle(qs, cm, s)
    <3>1. out[g][i].turn <= cs[s].seq /\ cs[s].seq <= cs2[s].seq
      BY <2>2 DEF Orderly, Answered
    <3>2. g = gn /\ out[g][i].turn = cs2[s].turn => Idle(qs, cm, s)
      BY <2>2 DEF Orderly, Answered
    <3>3. out[g][i].turn \in Turns
      <4>1. out[g][i] \in Happening
        OBVIOUS
      <4> QED
        BY <2>2, <4>1, CommandFields DEF Ending
    <3>4. cs[s] \in Chat /\ cs2[s] \in Chat
      OBVIOUS
    <3>5. out[g][i].turn \in Nat /\ cs[s].seq \in Nat /\ cs2[s].seq \in Nat
      BY <3>3, <3>4, BoundsAssumption DEF Turns, Chat
    <3> QED
      BY <3>1, <3>2, <3>5
  <2> QED
    BY <2>1, <2>2
<1> QED
  BY <1>1, <1>2 DEF Orderly

\* Without a turn a chat is idle.
LEMMA RestingIdle ==
  ASSUME TInv, Order, NEW s \in Chats, chats[s].state # "finished", chats[s].turn = 0
  PROVE  Idle(queries, cmds, s)
<1>1. \A q \in queries : q.turn \in Turns
  BY DEF TInv, TypeOK, Query
<1>2. \A i \in DOMAIN cmds : cmds[i].type = "chat" => cmds[i].turn \in Turns
  <2>1. \A i \in DOMAIN cmds : cmds[i] \in Command
    BY DEF TInv, TypeOK
  <2> QED
    BY <2>1, CommandFields
<1>3. 0 \notin Turns
  BY DEF Turns
<1> QED
  BY <1>1, <1>2, <1>3 DEF Order, Orderly, InFlight, Idle, Asking

\* The numbers of the turns that ended.
LEMMA EndedTurns ==
  ASSUME TInv, Order, NEW s \in Chats, chats[s].state # "finished",
         NEW g \in Gens, NEW i \in DOMAIN stdout[g], Ending(stdout[g][i], s)
  PROVE  stdout[g][i].turn \in Turns /\ stdout[g][i].turn <= chats[s].seq /\ chats[s].seq \in Nat
<1>1. stdout[g][i] \in Happening
  BY DEF TInv, TypeOK
<1>2. stdout[g][i].turn \in Turns
  BY <1>1, CommandFields DEF Ending
<1>3. stdout[g][i].turn <= chats[s].seq
  BY DEF Order, Orderly, Answered
<1>4. chats[s].seq \in 0 .. MaxTurns
  BY DEF TInv, TypeOK, Chat
<1> QED
  BY <1>2, <1>3, <1>4, BoundsAssumption

LEMMA OpenOrderly ==
  ASSUME TInv, Order, NEW s \in Chats, OpenChat(s)
  PROVE  Order'
<1> DEFINE cs == [chats EXCEPT ![s] = [@ EXCEPT !.seq = 1, !.state = "open"]]
<1>1. /\ Others(s, cs)
      /\ cs[s].state = "open" /\ cs[s].turn = 0 /\ cs[s].seq = 1
      /\ chats[s].state = "absent"
  BY Opened DEF OpenChat, TInv
<1>2. Launch({s}, cs, cmds) /\ inbox' = inbox /\ stdout' = stdout
  BY DEF OpenChat
<1> HIDE DEF cs
<1>3. chats[s].turn = 0 /\ inbox[s] = << >> /\ chats[s].seq = 0
  BY <1>1 DEF TInv, Counted
<1>4. Idle(queries, cmds, s)
  BY <1>1, <1>3, RestingIdle
<1>5. /\ chats \in [Chats -> Chat] /\ cs \in [Chats -> Chat]
      /\ stdout \in [Gens -> Seq(Happening)] /\ cmds \in Seq(Command)
  BY <1>1 DEF TInv, TypeOK, Others
<1>6. Changed(chats, inbox, cs, inbox, queries, cmds)
  <2> SUFFICES ASSUME NEW t \in Chats, t # s, cs[t].state # "finished"
               PROVE  chats[t].state # "finished" /\ chats[t].seq <= cs[t].seq
                      /\ cs[t].turn = chats[t].turn /\ cs[t].gen = chats[t].gen
    BY <1>1, <1>3, <1>4 DEF Changed
  <2>1. cs[t] = chats[t]
    BY <1>1 DEF Others
  <2>2. chats[t].seq \in Nat
    BY <1>5 DEF Chat
  <2> QED
    BY <2>1, <2>2
<1>7. Orderly(cs, inbox, stdout, gen, queries, cmds)
  BY <1>5, <1>6, ChangedOrderly DEF Order
<1>8. Fit({s}, cs, inbox, stdout, queries, cmds)
  <2>1. ASSUME NEW g \in Gens, NEW i \in DOMAIN stdout[g], Ending(stdout[g][i], s)
        PROVE  FALSE
    BY <1>1, <1>3, <2>1, EndedTurns DEF Turns
  <2> QED
    BY <1>1, <1>3, <1>4, <2>1, BoundsAssumption DEF Fit, Turns
<1> QED
  BY <1>2, <1>5, <1>7, <1>8, LaunchOrderly DEF TInv, Order, Clientless

LEMMA SendTurnOrderly ==
  ASSUME TInv, Order, NEW s \in Chats, SendChatTurn(s)
  PROVE  Order'
<1> DEFINE numbered == [chats EXCEPT ![s].seq = @ + 1]
           queued   == [chats EXCEPT ![s].queued = @ + 1]
<1>1. /\ chats[s].state = "open"
      /\ \/ Launch({}, queued, cmds)
         \/ ~Active(s) /\ Launch({s}, numbered, cmds)
         \/ ~Active(s) /\ Launch({}, numbered, cmds)
      /\ inbox' = inbox /\ stdout' = stdout
  BY DEF SendChatTurn
<1>2. /\ Others(s, queued)
      /\ queued[s].state = "open" /\ queued[s].turn = chats[s].turn
      /\ queued[s].seq = chats[s].seq /\ queued[s].gen = chats[s].gen
  BY Queued DEF SendChatTurn, TInv
<1>3. ~Active(s) => /\ Others(s, numbered)
                    /\ numbered[s].state = "open" /\ numbered[s].seq \in Turns
                    /\ numbered[s].seq = chats[s].seq + 1
  BY Numbered DEF SendChatTurn, TInv, Active
<1> HIDE DEF numbered, queued
<1>4. /\ chats \in [Chats -> Chat]
      /\ stdout \in [Gens -> Seq(Happening)] /\ cmds \in Seq(Command)
      /\ TypeOK /\ Unborn /\ Clientless /\ (~client => cmds = << >>)
  BY DEF TInv, TypeOK, Order, Clientless
<1>5. \A t \in Chats : chats[t].seq \in Nat
  BY <1>4 DEF Chat
<1>6. ~Active(s) => Idle(queries, cmds, s) /\ inbox[s] = << >>
  BY <1>1, RestingIdle DEF Active, TInv, Counted
<1>7. Orderly(queued, inbox, stdout, gen, queries, cmds)
  <2>1. Changed(chats, inbox, queued, inbox, queries, cmds)
    <3> SUFFICES ASSUME NEW t \in Chats, queued[t].state # "finished"
                 PROVE  /\ chats[t].state # "finished" /\ chats[t].seq <= queued[t].seq
                        /\ \/ Idle(queries, cmds, t)
                           \/ /\ queued[t].turn = chats[t].turn /\ queued[t].gen = chats[t].gen
                              /\ inbox[t] = inbox[t] \/ inbox[t] = << >>
      BY DEF Changed
    <3>1. CASE t = s
      BY <1>1, <1>2, <1>5, <3>1
    <3>2. CASE t # s
      BY <1>2, <1>5, <3>2 DEF Others
    <3> QED
      BY <3>1, <3>2
  <2> QED
    BY <1>2, <1>4, <2>1, ChangedOrderly DEF Order, Others
<1>8. ~Active(s) => Orderly(numbered, inbox, stdout, gen, queries, cmds)
  <2> SUFFICES ASSUME ~Active(s) PROVE Orderly(numbered, inbox, stdout, gen, queries, cmds)
    OBVIOUS
  <2>1. Changed(chats, inbox, numbered, inbox, queries, cmds)
    <3> SUFFICES ASSUME NEW t \in Chats, numbered[t].state # "finished"
                 PROVE  /\ chats[t].state # "finished" /\ chats[t].seq <= numbered[t].seq
                        /\ \/ Idle(queries, cmds, t)
                           \/ /\ numbered[t].turn = chats[t].turn /\ numbered[t].gen = chats[t].gen
                              /\ inbox[t] = inbox[t] \/ inbox[t] = << >>
      BY DEF Changed
    <3>1. CASE t = s
      BY <1>1, <1>3, <1>5, <1>6, <3>1
    <3>2. CASE t # s
      BY <1>3, <1>5, <3>2 DEF Others
    <3> QED
      BY <3>1, <3>2
  <2> QED
    BY <1>3, <1>4, <2>1, ChangedOrderly DEF Order, Others
<1>9. ~Active(s) => Fit({s}, numbered, inbox, stdout, queries, cmds)
  <2> SUFFICES ASSUME ~Active(s) PROVE Fit({s}, numbered, inbox, stdout, queries, cmds)
    OBVIOUS
  <2>1. ASSUME NEW g \in Gens, NEW i \in DOMAIN stdout[g], Ending(stdout[g][i], s)
        PROVE  stdout[g][i].turn < numbered[s].seq
    BY <1>1, <1>3, <2>1, EndedTurns DEF Turns
  <2> QED
    BY <1>3, <1>6, <2>1 DEF Fit
<1>10. Fit({}, queued, inbox, stdout, queries, cmds) /\ Fit({}, numbered, inbox, stdout, queries, cmds)
  BY DEF Fit
<1>11. CASE Launch({}, queued, cmds)
  BY <1>1, <1>2, <1>4, <1>7, <1>10, <1>11, LaunchOrderly DEF Others
<1>12. CASE ~Active(s) /\ Launch({s}, numbered, cmds)
  BY <1>1, <1>3, <1>4, <1>8, <1>9, <1>12, LaunchOrderly DEF Others
<1>13. CASE ~Active(s) /\ Launch({}, numbered, cmds)
  BY <1>1, <1>3, <1>4, <1>8, <1>10, <1>13, LaunchOrderly DEF Others
<1> QED
  BY <1>1, <1>11, <1>12, <1>13

\* Commands that start no query disturb nothing.
LEMMA SaidOrderly ==
  ASSUME NEW cs, NEW ib, NEW out, NEW gn, NEW qs, \A r \in qs : r.chat \in Chats,
         NEW q \in Seq(Command), Orderly(cs, ib, out, gn, qs, q),
         NEW t \in Seq(Command), \A k \in DOMAIN t : t[k].type # "chat",
         NEW cm, cm = q \o t
  PROVE  /\ Orderly(cs, ib, out, gn, qs, cm)
         /\ \A s \in Chats : Idle(qs, q, s) => Idle(qs, cm, s)
<1>1. \A i \in DOMAIN cm : \/ i \in DOMAIN q /\ cm[i] = q[i]
                           \/ \E k \in DOMAIN t : i = Len(q) + k /\ cm[i] = t[k]
  BY Appended
<1>2. \A i \in DOMAIN cm, s \in Chats : Asking(cm[i], s) => i \in DOMAIN q /\ cm[i] = q[i]
  BY <1>1 DEF Asking
<1>3. \A r, p \in qs : r.chat = p.chat /\ ~r.over /\ ~p.over => r = p
  BY DEF Orderly, Alone
<1>4. \A i, j \in DOMAIN cm, s \in Chats : Asking(cm[i], s) /\ Asking(cm[j], s) => i = j
  BY <1>2 DEF Orderly, Alone
<1>5. Fewer(qs, q, qs, cm)
  BY <1>2, <1>3, <1>4 DEF Fewer
<1> QED
  BY <1>5, FewerOrderly

LEMMA SentOrderly ==
  ASSUME NEW cs, NEW ib, NEW out, NEW gn, NEW qs, \A r \in qs : r.chat \in Chats,
         NEW q \in Seq(Command), Orderly(cs, ib, out, gn, qs, q),
         NEW c \in Command, c.type # "chat"
  PROVE  /\ Orderly(cs, ib, out, gn, qs, Sent(q, c))
         /\ ~client => Sent(q, c) = q
<1>1. CASE client /\ writer
  <2> DEFINE t == <<c>>
  <2>1. Sent(q, c) = q \o t /\ t \in Seq(Command)
    BY <1>1 DEF Sent
  <2>2. \A k \in DOMAIN t : t[k].type # "chat"
    OBVIOUS
  <2> HIDE DEF t
  <2> QED
    BY <1>1, <2>1, <2>2, SaidOrderly
<1>2. CASE ~(client /\ writer)
  BY <1>2 DEF Sent
<1> QED
  BY <1>1, <1>2

\* An end read, or a channel that proves dead: nothing of the chat works.
LEMMA OverIdle ==
  ASSUME TInv, Order, NEW s \in Chats, Active(s), HasDone(s) \/ HungUp(s)
  PROVE  Idle(queries, cmds, s)
<1>1. chats[s].state # "finished"
  BY DEF TInv, Counted, Active
<1>2. CASE ~client
  BY <1>2 DEF Order, Clientless, Idle
<1>3. CASE chats[s].gen # gen
  BY <1>1, <1>3 DEF Order, Orderly, InFlight, Idle
<1>4. CASE HasDone(s) /\ chats[s].gen = gen
  BY <1>1, <1>4 DEF Order, Orderly, Answered, HasDone
<1> QED
  BY <1>2, <1>3, <1>4 DEF HungUp

LEMMA DrainOrderly ==
  ASSUME TInv, Order, DrainSidecar
  PROVE  Order'
<1>1. PICK over, next, ok, asks, gone, cs : Drained(over, next, ok, asks, gone, cs)
  BY DrainIsDrained DEF TInv
<1> DEFINE q == IF Routed THEN cmds ELSE Allowed(asks)
           ib == [s \in Chats |-> << >>]
<1>2. /\ Launch(ok, cs, q) /\ stdout' = stdout /\ inbox' = ib
      /\ cs \in [Chats -> Chat] /\ asks \in SUBSET Pending
      /\ ok \subseteq next /\ next \subseteq over /\ ok \in SUBSET Chats
      /\ \A s \in over : s \in Chats /\ Active(s) /\ (HasDone(s) \/ HungUp(s))
      /\ \A s \in Chats :
           /\ cs[s].state = chats[s].state /\ cs[s].gen = chats[s].gen
           /\ cs[s].turn = IF s \in over THEN 0 ELSE chats[s].turn
           /\ cs[s].seq = IF s \in next THEN chats[s].seq + 1 ELSE chats[s].seq
  BY <1>1 DEF Drained
<1>3. /\ chats \in [Chats -> Chat] /\ TypeOK /\ Unborn /\ Clientless
      /\ stdout \in [Gens -> Seq(Happening)] /\ cmds \in Seq(Command)
      /\ \A r \in queries : r.chat \in Chats
      /\ ~client => cmds = << >>
  BY DEF TInv, TypeOK, Order, Clientless, Query
<1>4. \A s \in Chats : chats[s].seq \in Nat /\ cs[s].seq \in 0 .. MaxTurns /\ ib[s] = << >>
  BY <1>2, <1>3 DEF Chat
<1>5. /\ q \in Seq(Command) /\ (~client => q = cmds)
      /\ \E r \in Seq(Command) : /\ q \in {cmds, cmds \o r}
                                 /\ \A i \in DOMAIN r : r[i].type = "respond"
  <2>1. << >> \in Seq(Command) /\ \A i \in DOMAIN << >> : << >>[i].type = "respond"
    OBVIOUS
  <2> QED
    BY <1>2, <1>3, <2>1, AllowedType
<1> HIDE DEF q, ib
<1>6. \A s \in over : Idle(queries, cmds, s)
  BY <1>2, OverIdle
<1>7. Orderly(cs, ib, stdout, gen, queries, cmds)
  <2>1. Changed(chats, inbox, cs, ib, queries, cmds)
    <3> SUFFICES ASSUME NEW s \in Chats, cs[s].state # "finished"
                 PROVE  /\ chats[s].state # "finished" /\ chats[s].seq <= cs[s].seq
                        /\ \/ Idle(queries, cmds, s)
                           \/ /\ cs[s].turn = chats[s].turn /\ cs[s].gen = chats[s].gen
                              /\ ib[s] = inbox[s] \/ ib[s] = << >>
      BY DEF Changed
    <3>1. CASE s \in over
      BY <1>2, <1>4, <1>6, <3>1
    <3>2. CASE s \notin over
      BY <1>2, <1>4, <3>2
    <3> QED
      BY <3>1, <3>2
  <2> QED
    BY <1>2, <1>3, <2>1, ChangedOrderly DEF Order
<1>8. Orderly(cs, ib, stdout, gen, queries, q) /\ \A s \in over : Idle(queries, q, s)
  <2>1. CASE q = cmds
    BY <1>6, <1>7, <2>1
  <2>2. ASSUME NEW r \in Seq(Command), q = cmds \o r, \A i \in DOMAIN r : r[i].type = "respond"
        PROVE  Orderly(cs, ib, stdout, gen, queries, q) /\ \A s \in over : Idle(queries, q, s)
    <3>1. \A i \in DOMAIN r : r[i].type # "chat"
      BY <2>2
    <3> QED
      BY <1>2, <1>3, <1>6, <1>7, <2>2, <3>1, SaidOrderly
  <2> QED
    BY <1>5, <2>1, <2>2
<1>9. Fit(ok, cs, ib, stdout, queries, q)
  <2> SUFFICES ASSUME NEW s \in ok
               PROVE  /\ cs[s].state = "open" /\ ib[s] = << >> /\ Idle(queries, q, s)
                      /\ cs[s].seq \in Turns
                      /\ \A g \in Gens : \A i \in DOMAIN stdout[g] :
                           Ending(stdout[g][i], s) => stdout[g][i].turn < cs[s].seq
    BY DEF Fit
  <2>1. s \in Chats /\ s \in next /\ s \in over /\ Active(s)
    BY <1>2
  <2>2. cs[s].seq = chats[s].seq + 1 /\ cs[s].state = chats[s].state
    BY <1>2, <2>1
  <2>3. chats[s].state = "open"
    BY <2>1 DEF TInv, Counted, Active
  <2>4. cs[s].seq \in Turns
    BY <1>4, <2>1, <2>2, BoundsAssumption DEF Turns
  <2>5. ASSUME NEW g \in Gens, NEW i \in DOMAIN stdout[g], Ending(stdout[g][i], s)
        PROVE  stdout[g][i].turn < cs[s].seq
    BY <2>1, <2>2, <2>3, <2>5, EndedTurns DEF Turns
  <2> QED
    BY <1>4, <1>8, <2>1, <2>2, <2>3, <2>4, <2>5
<1>10. ~client => q = << >>
  BY <1>3, <1>5
<1> QED
  BY <1>2, <1>3, <1>5, <1>8, <1>9, <1>10, LaunchOrderly

LEMMA FinishOrderly ==
  ASSUME TInv, Order, NEW s \in Chats, FinishChat(s)
  PROVE  Order'
<1>1. Others(s, chats') /\ chats'[s].state = "finished"
  BY Finished DEF FinishChat, TInv
<1>2. /\ \A t \in Chats \ {s} : inbox'[t] = inbox[t]
      /\ gen' = gen /\ stdout' = stdout /\ queries' = queries /\ client' = client
      /\ cmds' = IF Active(s) THEN Sent(cmds, [type |-> "abort", chat |-> s, turn |-> chats[s].turn])
                              ELSE cmds
  BY DEF FinishChat, TInv, TypeOK, procVars
<1>3. /\ chats \in [Chats -> Chat] /\ stdout \in [Gens -> Seq(Happening)]
      /\ cmds \in Seq(Command) /\ (\A r \in queries : r.chat \in Chats)
  BY DEF TInv, TypeOK, Query
<1>4. \A t \in Chats : chats[t].seq \in Nat
  BY <1>3 DEF Chat
<1>5. Orderly(chats', inbox', stdout, gen, queries, cmds)
  <2>1. Changed(chats, inbox, chats', inbox', queries, cmds)
    BY <1>1, <1>2, <1>4 DEF Others, Changed
  <2> QED
    BY <1>1, <1>3, <2>1, ChangedOrderly DEF Order, Others
<1>6. Orderly(chats', inbox', stdout, gen, queries, cmds') /\ (~client => cmds' = cmds)
  <2>1. CASE ~Active(s)
    BY <1>2, <1>5, <2>1
  <2>2. CASE Active(s)
    <3> DEFINE c == [type |-> "abort", chat |-> s, turn |-> chats[s].turn]
    <3>1. chats[s].turn \in Turns
      <4>1. chats[s].turn \in 0 .. MaxTurns
        BY <1>3 DEF Chat
      <4> QED
        BY <2>2, <4>1, BoundsAssumption DEF Active, Turns
    <3>2. c \in Command /\ c.type # "chat"
      BY <3>1, Commands
    <3>3. cmds' = Sent(cmds, c)
      BY <1>2, <2>2
    <3> HIDE DEF c
    <3> QED
      BY <1>3, <1>5, <3>2, <3>3, SentOrderly
  <2> QED
    BY <2>1, <2>2
<1>7. Orderly(chats', inbox', stdout', gen', queries', cmds')
  BY <1>2, <1>6, Zenon
<1> QED
  BY <1>2, <1>6, <1>7, Zenon DEF Order, Unborn, Clientless

\* A step of which the daemon's turns, the pipes and the processes are no part.
LEMMA FewerOrder ==
  ASSUME TInv, Order, UNCHANGED <<chats, inbox, gen, stdout>>,
         Fewer(queries, cmds, queries', cmds'), Clientless'
  PROVE  Order'
<1>1. \A q \in queries : q.chat \in Chats
  BY DEF TInv, TypeOK, Query
<1>2. Orderly(chats, inbox, stdout, gen, queries', cmds')
  BY <1>1, FewerOrderly DEF Order
<1>3. Orderly(chats', inbox', stdout', gen', queries', cmds')
  BY <1>2, Zenon
<1>4. Unborn'
  BY Zenon DEF Order, Unborn
<1> QED
  BY <1>3, <1>4, Zenon DEF Order

\* What is there is no more than itself, and nothing is no more than anything.
LEMMA FewerThan ==
  ASSUME TInv, Order
  PROVE  /\ Fewer(queries, cmds, queries, cmds)
         /\ Fewer(queries, cmds, queries, << >>)
         /\ Fewer(queries, cmds, {}, cmds)
         /\ Fewer(queries, cmds, {}, << >>)
<1>1. /\ \A q, r \in queries : q.chat = r.chat /\ ~q.over /\ ~r.over => q = r
      /\ \A i, j \in DOMAIN cmds, s \in Chats : Asking(cmds[i], s) /\ Asking(cmds[j], s) => i = j
  BY DEF Order, Orderly, Alone
<1> QED
  BY <1>1 DEF Fewer

\* So it is after a command that starts no query, or without the first one.
LEMMA SentFewer ==
  ASSUME TInv, Order, NEW c \in Command, c.type # "chat"
  PROVE  Fewer(queries, cmds, queries, Sent(cmds, c)) /\ (~client => Sent(cmds, c) = cmds)
<1>1. cmds \in Seq(Command)
  BY DEF TInv, TypeOK
<1>2. CASE ~(client /\ writer)
  BY <1>2, FewerThan DEF Sent
<1>3. CASE client /\ writer
  <2> DEFINE cm == Append(cmds, c)
  <2>1. Sent(cmds, c) = cm
    BY <1>3 DEF Sent
  <2>2. \A i \in DOMAIN cm : (i \in DOMAIN cmds /\ cm[i] = cmds[i]) \/ cm[i] = c
    BY <1>1
  <2> HIDE DEF cm
  <2>3. \A i \in DOMAIN cm, s \in Chats : Asking(cm[i], s) => i \in DOMAIN cmds /\ cm[i] = cmds[i]
    BY <2>2 DEF Asking
  <2>4. Fewer(queries, cmds, queries, cm)
    BY <2>3, FewerThan DEF Fewer
  <2> QED
    BY <1>3, <2>1, <2>4
<1> QED
  BY <1>2, <1>3

LEMMA TimersOrderly ==
  ASSUME TInv, Order, TickPermissions \/ TickHealth \/ TickPong
  PROVE  Order'
<1>1. CASE TickPermissions
  <2>1. PICK a \in tracked :
          /\ cmds' = Sent(cmds, [type |-> "respond", perm |-> a.perm])
          /\ UNCHANGED <<chats, inbox, client, gen, stdout, queries>>
    BY <1>1 DEF TickPermissions, procVars
  <2> DEFINE c == [type |-> "respond", perm |-> a.perm]
  <2>2. a.perm \in Asks
    BY DEF TInv, TypeOK, Pending
  <2>3. c \in Command /\ c.type # "chat"
    BY <2>2, Commands
  <2>4. cmds' = Sent(cmds, c)
    BY <2>1
  <2> HIDE DEF c
  <2>5. Fewer(queries, cmds, queries', cmds') /\ (~client => cmds' = cmds)
    BY <2>1, <2>3, <2>4, SentFewer
  <2> QED
    BY <2>1, <2>5, FewerOrder DEF Order, Clientless
<1>2. CASE TickHealth
  <2> DEFINE c == [type |-> "ping"]
  <2>1. /\ UNCHANGED <<chats, inbox, gen, stdout>>
        /\ \/ cmds' = << >> /\ queries' = {}
           \/ cmds' = Sent(cmds, c) /\ UNCHANGED <<client, queries>>
    BY <1>2 DEF TickHealth, daemonVars
  <2>2. c \in Command /\ c.type # "chat"
    BY Commands
  <2> HIDE DEF c
  <2>3. CASE cmds' = << >> /\ queries' = {}
    BY <2>1, <2>3, FewerThan, FewerOrder DEF Clientless
  <2>4. CASE cmds' = Sent(cmds, c) /\ UNCHANGED <<client, queries>>
    BY <2>1, <2>2, <2>4, SentFewer, FewerOrder DEF Order, Clientless
  <2> QED
    BY <2>1, <2>3, <2>4
<1>3. CASE TickPong
  BY <1>3, FewerThan, FewerOrder DEF TickPong, daemonVars, procVars, Order, Clientless
<1> QED
  BY <1>1, <1>2, <1>3

LEMMA EndsOrderly ==
  ASSUME TInv, Order, WriterDies \/ Die \/ Hang
  PROVE  Order'
<1>1. CASE WriterDies
  BY <1>1, FewerThan, FewerOrder DEF WriterDies, daemonVars, Order, Clientless
<1>2. CASE Die
  BY <1>2, FewerThan, FewerOrder DEF Die, daemonVars, Order, Clientless
<1>3. CASE Hang
  BY <1>3, FewerThan, FewerOrder DEF Hang, daemonVars, Order, Clientless
<1> QED
  BY <1>1, <1>2, <1>3

-----------------------------------------------------------------------------
\* One query per chat: the steps of the process and of the reader.

\* What is left of the commands after the first.
LEMMA Rest ==
  ASSUME NEW q \in Seq(Command), q # << >>
  PROVE  /\ 1 \in DOMAIN q /\ Head(q) = q[1] /\ Head(q) \in Command
         /\ \A i \in DOMAIN Tail(q) : i + 1 \in DOMAIN q /\ Tail(q)[i] = q[i + 1] /\ i + 1 # 1
         /\ \A i, j \in DOMAIN Tail(q) : i + 1 = j + 1 => i = j
<1>1. Len(q) \in Nat /\ Len(q) # 0 /\ DOMAIN q = 1 .. Len(q)
  OBVIOUS
<1>2. Tail(q) \in Seq(Command) /\ Len(Tail(q)) = Len(q) - 1
  BY <1>1
<1>3. DOMAIN Tail(q) = 1 .. Len(q) - 1
  BY <1>2
<1>4. \A i \in 1 .. Len(q) - 1 : Tail(q)[i] = q[i + 1]
  BY <1>1
<1> QED
  BY <1>1, <1>3, <1>4

\* The commands of cm are commands of q other than its first, one per chat.
Remains(q, cm) ==
  /\ \A i \in DOMAIN cm : \E j \in DOMAIN q : j # 1 /\ cm[i] = q[j]
  /\ \A i, j \in DOMAIN cm, s \in Chats : Asking(cm[i], s) /\ Asking(cm[j], s) => i = j

LEMMA RestAlone ==
  ASSUME NEW qs, NEW q \in Seq(Command), q # << >>, Alone(qs, q)
  PROVE  Remains(q, Tail(q))
<1> DEFINE cm == Tail(q)
<1>1. \A i \in DOMAIN cm : i + 1 \in DOMAIN q /\ cm[i] = q[i + 1] /\ i + 1 # 1
  BY Rest
<1>2. \A i, j \in DOMAIN cm : i + 1 = j + 1 => i = j
  BY Rest
<1> HIDE DEF cm
<1>3. ASSUME NEW i \in DOMAIN cm, NEW j \in DOMAIN cm, NEW s \in Chats,
             Asking(cm[i], s), Asking(cm[j], s)
      PROVE  i = j
  <2>1. Asking(q[i + 1], s) /\ Asking(q[j + 1], s)
    BY <1>1, <1>3
  <2>2. i + 1 = j + 1
    BY <1>1, <2>1 DEF Alone
  <2> QED
    BY <1>2, <2>2
<1>4. Remains(q, cm)
  BY <1>1, <1>3 DEF Remains
<1> QED
  BY <1>4 DEF cm

\* The first command starts a query: it is still the only one of its chat.
LEMMA StartedOrderly ==
  ASSUME NEW cs, NEW ib, NEW out, NEW gn, NEW qs,
         NEW q \in Seq(Command), q # << >>, Orderly(cs, ib, out, gn, qs, q),
         \A p \in qs : p.chat \in Chats,
         NEW r, r.chat = Head(q).chat, r.turn = Head(q).turn, Head(q).type = "chat",
         NEW qs2, qs2 = qs \cup {r}, NEW cm, cm = Tail(q)
  PROVE  Orderly(cs, ib, out, gn, qs2, cm)
<1>0. Alone(qs, q)
  BY DEF Orderly
<1>9. Remains(q, cm)
  BY <1>0, RestAlone
<1>1. /\ \A i \in DOMAIN cm : \E j \in DOMAIN q : j # 1 /\ cm[i] = q[j]
      /\ \A i, j \in DOMAIN cm, s \in Chats : Asking(cm[i], s) /\ Asking(cm[j], s) => i = j
  BY <1>9 DEF Remains
<1>2. 1 \in DOMAIN q /\ Asking(q[1], r.chat) /\ q[1].turn = r.turn /\ r.chat \in Chats
  BY Rest, CommandFields DEF Asking
<1>3. \A p \in qs : p.chat = r.chat => p.over
  BY <1>2 DEF Orderly, Alone
<1>4. \A i \in DOMAIN cm : ~Asking(cm[i], r.chat)
  BY <1>1, <1>2 DEF Orderly, Alone
<1>5. Alone(qs2, cm)
  <2>1. \A p, o \in qs2 : p.chat = o.chat /\ ~p.over /\ ~o.over => p = o
    BY <1>3 DEF Orderly, Alone
  <2>2. ASSUME NEW p \in qs2, NEW i \in DOMAIN cm, ~p.over PROVE ~Asking(cm[i], p.chat)
    <3>1. PICK j \in DOMAIN q : cm[i] = q[j]
      BY <1>1
    <3>2. CASE p = r
      BY <1>4, <3>2
    <3>3. CASE p \in qs
      BY <2>2, <3>1, <3>3 DEF Orderly, Alone
    <3> QED
      BY <3>2, <3>3
  <2> QED
    BY <1>1, <2>1, <2>2 DEF Alone
<1>6. InFlight(cs, gn, qs2, cm)
  <2> SUFFICES ASSUME NEW s \in Chats, cs[s].state # "finished"
               PROVE  /\ \A p \in qs2 : p.chat = s /\ ~p.over => cs[s].turn = p.turn /\ cs[s].gen = gn
                      /\ \A i \in DOMAIN cm : Asking(cm[i], s) =>
                           cs[s].turn = cm[i].turn /\ cs[s].gen = gn
    BY DEF InFlight
  <2>1. r.chat = s => cs[s].turn = r.turn /\ cs[s].gen = gn
    BY <1>2 DEF Orderly, InFlight
  <2>2. \A p \in qs2 : p.chat = s /\ ~p.over => cs[s].turn = p.turn /\ cs[s].gen = gn
    BY <2>1 DEF Orderly, InFlight
  <2>3. \A i \in DOMAIN cm : Asking(cm[i], s) => cs[s].turn = cm[i].turn /\ cs[s].gen = gn
    BY <1>1 DEF Orderly, InFlight
  <2> QED
    BY <2>2, <2>3
<1>7. \A s \in Chats : Idle(qs, q, s) => Idle(qs2, cm, s)
  <2> SUFFICES ASSUME NEW s \in Chats, Idle(qs, q, s) PROVE Idle(qs2, cm, s)
    OBVIOUS
  <2>1. s # r.chat
    BY <1>2 DEF Idle
  <2>2. \A i \in DOMAIN cm : ~Asking(cm[i], s)
    BY <1>1 DEF Idle
  <2> QED
    BY <2>1, <2>2 DEF Idle
<1>8. Answered(cs, ib, out, gn, qs2, cm)
  BY <1>7 DEF Orderly, Answered
<1> QED
  BY <1>5, <1>6, <1>8 DEF Orderly

\* The process writes, its queries and commands being no more than they were.
LEMMA WritesOrder ==
  ASSUME TInv, Order, UNCHANGED <<chats, inbox, gen>>,
         Fewer(queries, cmds, queries', cmds'), Clientless',
         NEW m \in Happening, Writes(m),
         \A s \in Chats : Ending(m, s) /\ chats[s].state # "finished" =>
                            m.turn <= chats[s].seq /\ Idle(queries', cmds', s)
  PROVE  Order'
<1>1. stdout \in [Gens -> Seq(Happening)] /\ (\A q \in queries : q.chat \in Chats)
  BY DEF TInv, TypeOK, Query
<1>2. Orderly(chats, inbox, stdout, gen, queries', cmds')
  BY <1>1, FewerOrderly DEF Order
<1>3. Orderly(chats, inbox, [stdout EXCEPT ![gen] = Append(@, m)], gen, queries', cmds')
  BY <1>1, <1>2, WroteOrderly
<1>4. Orderly(chats', inbox', stdout', gen', queries', cmds')
  BY <1>3, Zenon DEF Writes
<1>5. Unborn'
  <2> SUFFICES ASSUME NEW g \in Gens, g > gen PROVE stdout'[g] = << >>
    BY DEF Unborn
  <2>1. g # gen /\ stdout[g] = << >>
    BY BoundsAssumption DEF Order, Unborn, Gens, TInv, TypeOK
  <2> QED
    BY <1>1, <2>1 DEF Writes
<1> QED
  BY <1>4, <1>5, Zenon DEF Order

\* Each query is changed into one of the same chat and turn, over if it was.
LEMMA ImagesFewer ==
  ASSUME TInv, Order, cmds # << >>, NEW qs2, NEW f, qs2 = {f[q] : q \in queries},
         \A q \in queries : f[q].chat = q.chat /\ f[q].turn = q.turn /\ f[q].over = q.over
  PROVE  Fewer(queries, cmds, qs2, Tail(cmds))
<1> DEFINE cm == Tail(cmds)
<1>1. cmds \in Seq(Command) /\ Alone(queries, cmds)
  BY DEF TInv, TypeOK, Order, Orderly
<1>2. Remains(cmds, cm)
  BY <1>1, RestAlone
<1> HIDE DEF cm
<1>3. \A r \in qs2 : ~r.over => \E q \in queries : q.chat = r.chat /\ q.turn = r.turn /\ ~q.over
  OBVIOUS
<1>4. \A r, p \in qs2 : r.chat = p.chat /\ ~r.over /\ ~p.over => r = p
  BY <1>1 DEF Alone
<1>5. Fewer(queries, cmds, qs2, cm)
  BY <1>2, <1>3, <1>4 DEF Fewer, Remains
<1> QED
  BY <1>5 DEF cm

LEMMA HandleOrderly ==
  ASSUME TInv, Order, Handle
  PROVE  Order'
<1> DEFINE c == Head(cmds)
<1>1. /\ cmds \in Seq(Command) /\ cmds # << >> /\ cmds' = Tail(cmds)
      /\ UNCHANGED <<chats, inbox, gen, client>>
      /\ \/ /\ c.type = "chat"
            /\ queries' = queries \cup {[chat |-> c.chat, turn |-> c.turn, perm |-> 0,
                                         cut |-> FALSE, over |-> FALSE]}
            /\ UNCHANGED stdout
         \/ /\ queries' = {IF q.chat = c.chat /\ q.turn = c.turn THEN [q EXCEPT !.cut = TRUE] ELSE q :
                             q \in queries}
            /\ UNCHANGED stdout
         \/ /\ queries' = {IF q.perm = c.perm THEN [q EXCEPT !.perm = 0] ELSE q : q \in queries}
            /\ UNCHANGED stdout
         \/ Writes([type |-> "pong"]) /\ UNCHANGED queries
  BY DEF Handle, daemonVars, TInv, TypeOK
<1>2. client /\ client' = client /\ Clientless'
  BY <1>1 DEF Order, Clientless
<1>3. queries \in SUBSET Query /\ \A q \in queries : q.chat \in Chats
  BY DEF TInv, TypeOK, Query
<1>4. CASE /\ c.type = "chat"
           /\ queries' = queries \cup {[chat |-> c.chat, turn |-> c.turn, perm |-> 0,
                                        cut |-> FALSE, over |-> FALSE]}
           /\ UNCHANGED stdout
  <2> DEFINE r == [chat |-> c.chat, turn |-> c.turn, perm |-> 0, cut |-> FALSE, over |-> FALSE]
  <2>1. r.chat = Head(cmds).chat /\ r.turn = Head(cmds).turn /\ Head(cmds).type = "chat"
    BY <1>4
  <2>2. queries' = queries \cup {r} /\ UNCHANGED stdout
    BY <1>4
  <2> HIDE DEF r
  <2>3. Orderly(chats, inbox, stdout, gen, queries', cmds')
    BY <1>1, <1>3, <2>1, <2>2, StartedOrderly DEF Order
  <2>4. Orderly(chats', inbox', stdout', gen', queries', cmds') /\ Unborn'
    BY <1>1, <2>2, <2>3, Zenon DEF Order, Unborn
  <2> QED
    BY <1>2, <2>4 DEF Order
<1> HIDE DEF c
<1>5. CASE /\ queries' = {IF q.chat = c.chat /\ q.turn = c.turn THEN [q EXCEPT !.cut = TRUE] ELSE q :
                            q \in queries}
           /\ UNCHANGED stdout
  <2> DEFINE f == [q \in queries |->
                     IF q.chat = c.chat /\ q.turn = c.turn THEN [q EXCEPT !.cut = TRUE] ELSE q]
  <2>1. \A q \in queries : f[q].chat = q.chat /\ f[q].turn = q.turn /\ f[q].over = q.over
    BY <1>3 DEF Query
  <2>2. queries' = {f[q] : q \in queries}
    BY <1>5
  <2> HIDE DEF f
  <2>3. Fewer(queries, cmds, queries', cmds')
    BY <1>1, <2>1, <2>2, ImagesFewer
  <2> QED
    BY <1>1, <1>2, <1>5, <2>3, FewerOrder
<1>6. CASE /\ queries' = {IF q.perm = c.perm THEN [q EXCEPT !.perm = 0] ELSE q : q \in queries}
           /\ UNCHANGED stdout
  <2> DEFINE f == [q \in queries |-> IF q.perm = c.perm THEN [q EXCEPT !.perm = 0] ELSE q]
  <2>1. \A q \in queries : f[q].chat = q.chat /\ f[q].turn = q.turn /\ f[q].over = q.over
    BY <1>3 DEF Query
  <2>2. queries' = {f[q] : q \in queries}
    BY <1>6
  <2> HIDE DEF f
  <2>3. Fewer(queries, cmds, queries', cmds')
    BY <1>1, <2>1, <2>2, ImagesFewer
  <2> QED
    BY <1>1, <1>2, <1>6, <2>3, FewerOrder
<1>7. CASE Writes([type |-> "pong"]) /\ UNCHANGED queries
  <2> DEFINE f == [q \in queries |-> q]
             m == [type |-> "pong"]
  <2>1. \A q \in queries : f[q].chat = q.chat /\ f[q].turn = q.turn /\ f[q].over = q.over
    OBVIOUS
  <2>2. queries' = {f[q] : q \in queries}
    BY <1>7
  <2> HIDE DEF f
  <2>3. Fewer(queries, cmds, queries', cmds')
    BY <1>1, <2>1, <2>2, ImagesFewer
  <2>4. m \in Happening /\ (\A s \in Chats : ~Ending(m, s)) /\ Writes(m)
    BY <1>7, Commands DEF Ending
  <2> HIDE DEF m
  <2> QED
    BY <1>1, <1>2, <2>3, <2>4, WritesOrder
<1> QED
  BY <1>1, <1>4, <1>5, <1>6, <1>7

\* A query goes on or ends, and nothing else changes what works.
LEMMA ReplacedFewer ==
  ASSUME TInv, Order, NEW q \in queries, NEW qs2,
         \A r \in qs2 : ~r.over =>
           \/ r \in queries \ {q}
           \/ ~q.over /\ r.chat = q.chat /\ r.turn = q.turn,
         \A r, p \in qs2 : r \notin queries \ {q} /\ p \notin queries \ {q} => r = p
  PROVE  Fewer(queries, cmds, qs2, cmds)
<1>1. Alone(queries, cmds)
  BY DEF Order, Orderly
<1>2. \A r \in qs2 : ~r.over => \E p \in queries : p.chat = r.chat /\ p.turn = r.turn /\ ~p.over
  OBVIOUS
<1>3. \A r, p \in qs2 : r.chat = p.chat /\ ~r.over /\ ~p.over => r = p
  <2> SUFFICES ASSUME NEW r \in qs2, NEW p \in qs2, r.chat = p.chat, ~r.over, ~p.over
               PROVE  r = p
    OBVIOUS
  <2>1. CASE r \in queries \ {q} /\ p \in queries \ {q}
    BY <1>1, <2>1 DEF Alone
  <2>2. CASE r \in queries \ {q} /\ p \notin queries \ {q}
    BY <1>1, <2>2 DEF Alone
  <2>3. CASE r \notin queries \ {q} /\ p \in queries \ {q}
    BY <1>1, <2>3 DEF Alone
  <2>4. CASE r \notin queries \ {q} /\ p \notin queries \ {q}
    BY <2>4
  <2> QED
    BY <2>1, <2>2, <2>3, <2>4
<1> QED
  BY <1>1, <1>2, <1>3 DEF Fewer, Alone

\* The end of a query that works ends the turn in flight, and nothing else of its chat
\* works, once this query does not.
LEMMA EndsIdle ==
  ASSUME TInv, Order, NEW q \in queries, ~q.over, NEW qs2,
         \A r \in qs2 : ~r.over => r \in queries \ {q},
         NEW m, m.chat = q.chat, m.turn = q.turn
  PROVE  \A s \in Chats : Ending(m, s) /\ chats[s].state # "finished" =>
                            m.turn <= chats[s].seq /\ Idle(qs2, cmds, s)
<1> SUFFICES ASSUME NEW s \in Chats, q.chat = s, chats[s].state # "finished"
             PROVE  m.turn <= chats[s].seq /\ Idle(qs2, cmds, s)
  BY DEF Ending
<1>1. Idle(qs2, cmds, s)
  BY DEF Order, Orderly, Alone, Idle
<1>2. chats[s].turn = q.turn
  BY DEF Order, Orderly, InFlight
<1>3. q.turn \in Turns
  BY DEF TInv, TypeOK, Query
<1>4. chats[s].seq = q.turn
  BY <1>2, <1>3 DEF TInv, Counted, Turns
<1>5. q.turn \in Nat
  BY <1>3 DEF Turns
<1> QED
  BY <1>1, <1>4, <1>5

LEMMA QueryOrderly ==
  ASSUME TInv, Order, NEW q \in queries, CanUseTool(q) \/ Result(q) \/ EndQuery(q)
  PROVE  Order'
<1>1. /\ q \in Query
      /\ [type |-> "done", chat |-> q.chat, turn |-> q.turn] \in Happening
      /\ counter < MaxAsks => [type |-> "ask", chat |-> q.chat, turn |-> q.turn,
                               perm |-> counter + 1] \in Happening
  BY QueryFields DEF TInv
<1>2. client
  BY DEF Order, Clientless
<1>3. CASE CanUseTool(q)
  <2> DEFINE r == [q EXCEPT !.perm = counter + 1]
             m == [type |-> "ask", chat |-> q.chat, turn |-> q.turn, perm |-> counter + 1]
  <2>1. /\ UNCHANGED <<chats, inbox, gen, client, cmds>>
        /\ queries' = (queries \ {q}) \cup {r} /\ Writes(m) /\ ~q.over
    BY <1>3 DEF CanUseTool, daemonVars
  <2>2. r.chat = q.chat /\ r.turn = q.turn
    BY <1>1 DEF Query
  <2>3. m \in Happening /\ \A s \in Chats : ~Ending(m, s)
    BY <1>1, <1>3 DEF CanUseTool, Ending
  <2> HIDE DEF r, m
  <2>4. Fewer(queries, cmds, queries', cmds')
    BY <2>1, <2>2, ReplacedFewer
  <2>5. Clientless'
    BY <1>2, <2>1 DEF Clientless
  <2> QED
    BY <2>1, <2>3, <2>4, <2>5, WritesOrder
<1>4. CASE Result(q)
  <2> DEFINE r == [q EXCEPT !.over = TRUE, !.cut = FALSE]
             m == [type |-> "done", chat |-> q.chat, turn |-> q.turn]
  <2>1. /\ UNCHANGED <<chats, inbox, gen, client, cmds>>
        /\ queries' = (queries \ {q}) \cup {r} /\ Writes(m) /\ ~q.over
    BY <1>4 DEF Result, daemonVars
  <2>2. r.over
    BY <1>1 DEF Query
  <2>3. m \in Happening /\ m.chat = q.chat /\ m.turn = q.turn
    BY <1>1
  <2> HIDE DEF r, m
  <2>4. Fewer(queries, cmds, queries', cmds')
    BY <2>1, <2>2, ReplacedFewer
  <2>5. Clientless'
    BY <1>2, <2>1 DEF Clientless
  <2>6. \A o \in queries' : ~o.over => o \in queries \ {q}
    BY <2>1, <2>2
  <2>7. \A s \in Chats : Ending(m, s) /\ chats[s].state # "finished" =>
                           m.turn <= chats[s].seq /\ Idle(queries', cmds, s)
    BY <2>1, <2>3, <2>6, EndsIdle
  <2> QED
    BY <2>1, <2>3, <2>4, <2>5, <2>7, WritesOrder
<1>5. CASE EndQuery(q)
  <2> DEFINE m == [type |-> "done", chat |-> q.chat, turn |-> q.turn]
  <2>1. /\ UNCHANGED <<chats, inbox, gen, client, cmds>>
        /\ queries' = queries \ {q}
        /\ IF q.over THEN UNCHANGED stdout ELSE Writes(m)
    BY <1>5 DEF EndQuery, daemonVars
  <2>2. m \in Happening /\ m.chat = q.chat /\ m.turn = q.turn
    BY <1>1
  <2> HIDE DEF m
  <2>3. Fewer(queries, cmds, queries', cmds')
    BY <2>1, ReplacedFewer
  <2>4. Clientless'
    BY <1>2, <2>1 DEF Clientless
  <2>5. CASE q.over
    BY <2>1, <2>3, <2>4, <2>5, FewerOrder
  <2>6. CASE ~q.over
    <3>1. \A s \in Chats : Ending(m, s) /\ chats[s].state # "finished" =>
                             m.turn <= chats[s].seq /\ Idle(queries', cmds, s)
      BY <2>1, <2>2, <2>6, EndsIdle
    <3> QED
      BY <2>1, <2>2, <2>3, <2>4, <2>6, <3>1, WritesOrder
  <2> QED
    BY <2>5, <2>6
<1> QED
  BY <1>3, <1>4, <1>5

\* The end of a turn changes hands, from the pipe to the receiver.
LEMMA RouteOrderly ==
  ASSUME TInv, Order, NEW g \in Gens, Route(g)
  PROVE  Order'
<1> DEFINE m == Head(stdout[g])
<1>1. stdout[g] \in Seq(Happening) /\ stdout[g] # << >> /\ stdout \in [Gens -> Seq(Happening)]
  BY DEF Route, TInv, TypeOK
<1>2. 1 \in DOMAIN stdout[g] /\ m = stdout[g][1] /\ m \in Happening
  BY <1>1
<1>3. /\ stdout' = [stdout EXCEPT ![g] = Tail(@)]
      /\ UNCHANGED <<chats, gen, client, queries, cmds>>
      /\ \/ UNCHANGED inbox
         \/ /\ m.type # "pong" /\ chats[m.chat].turn = m.turn /\ chats[m.chat].gen = g
            /\ inbox' = [inbox EXCEPT ![m.chat] = Append(@, m)]
  BY DEF Route, procVars
<1> HIDE DEF m
<1>4. \A h \in Gens : \A i \in DOMAIN stdout'[h] : \E j \in DOMAIN stdout[h] :
        stdout'[h][i] = stdout[h][j]
  <2> SUFFICES ASSUME NEW h \in Gens, NEW i \in DOMAIN stdout'[h]
               PROVE  \E j \in DOMAIN stdout[h] : stdout'[h][i] = stdout[h][j]
    OBVIOUS
  <2>1. CASE h # g
    BY <1>1, <1>3, <2>1
  <2>2. CASE h = g
    <3> DEFINE rest == Tail(stdout[g])
    <3>1. stdout'[h] = rest
      BY <1>1, <1>3, <2>2
    <3>2. \A k \in DOMAIN rest : k + 1 \in DOMAIN stdout[g] /\ rest[k] = stdout[g][k + 1]
      BY <1>1
    <3> HIDE DEF rest
    <3> QED
      BY <2>2, <3>1, <3>2
  <2> QED
    BY <2>1, <2>2
<1>5. ASSUME NEW s \in Chats, chats[s].state # "finished", chats[s].gen = gen,
             NEW i \in DOMAIN inbox'[s], inbox'[s][i].type = "done"
      PROVE  Idle(queries, cmds, s)
  <2>1. CASE i \in DOMAIN inbox[s] /\ inbox'[s][i] = inbox[s][i]
    BY <1>5, <2>1 DEF Order, Orderly, Answered
  <2>2. CASE ~(i \in DOMAIN inbox[s] /\ inbox'[s][i] = inbox[s][i])
    <3>1. /\ m.type # "pong" /\ chats[m.chat].turn = m.turn /\ chats[m.chat].gen = g
          /\ inbox' = [inbox EXCEPT ![m.chat] = Append(@, m)]
      BY <1>3, <1>5, <2>2
    <3>2. s = m.chat
      BY <1>5, <2>2, <3>1 DEF TInv, TypeOK
    <3>3. inbox'[s] = Append(inbox[s], m) /\ inbox[s] \in Seq(Happening)
      BY <3>1, <3>2 DEF TInv, TypeOK
    <3>4. inbox'[s][i] = m
      BY <1>5, <2>2, <3>3
    <3>5. Ending(stdout[gen][1], s) /\ stdout[gen][1].turn = chats[s].turn /\ gen \in Gens
          /\ 1 \in DOMAIN stdout[gen]
      BY <1>2, <1>5, <3>1, <3>2, <3>4 DEF Ending
    <3> QED
      BY <1>5, <3>5 DEF Order, Orderly, Answered
  <2> QED
    BY <2>1, <2>2
<1>6. Answered(chats, inbox', stdout', gen, queries, cmds)
  <2> SUFFICES ASSUME NEW s \in Chats, chats[s].state # "finished"
               PROVE  /\ \A h \in Gens : \A i \in DOMAIN stdout'[h] : Ending(stdout'[h][i], s) =>
                           /\ stdout'[h][i].turn <= chats[s].seq
                           /\ h = gen /\ stdout'[h][i].turn = chats[s].turn => Idle(queries, cmds, s)
                      /\ \A i \in DOMAIN inbox'[s] :
                           inbox'[s][i].type = "done" /\ chats[s].gen = gen => Idle(queries, cmds, s)
    BY DEF Answered
  <2>1. ASSUME NEW h \in Gens, NEW i \in DOMAIN stdout'[h], Ending(stdout'[h][i], s)
        PROVE  /\ stdout'[h][i].turn <= chats[s].seq
               /\ h = gen /\ stdout'[h][i].turn = chats[s].turn => Idle(queries, cmds, s)
    <3>1. PICK j \in DOMAIN stdout[h] : stdout'[h][i] = stdout[h][j]
      BY <1>4
    <3> QED
      BY <2>1, <3>1 DEF Order, Orderly, Answered
  <2> QED
    BY <1>5, <2>1
<1>7. Orderly(chats, inbox', stdout', gen, queries, cmds)
  BY <1>6 DEF Order, Orderly
<1>8. Orderly(chats', inbox', stdout', gen', queries', cmds')
  BY <1>3, <1>7, Zenon
<1>9. Unborn'
  <2> SUFFICES ASSUME NEW h \in Gens, h > gen PROVE stdout'[h] = << >>
    BY <1>3 DEF Unborn
  <2>1. stdout[h] = << >> /\ h # g
    BY <1>1 DEF Order, Unborn
  <2> QED
    BY <1>1, <1>3, <2>1
<1>10. Clientless'
  BY <1>3 DEF Order, Clientless
<1> QED
  BY <1>8, <1>9, <1>10, Zenon DEF Order

LEMMA OrderInit == Init => Order
<1> SUFFICES ASSUME Init PROVE Order
  OBVIOUS
<1>1. queries = {} /\ cmds = << >> /\ \A s \in Chats : inbox[s] = << >>
  BY DEF Init
<1>2. \A g \in Gens : stdout[g] = << >>
  BY DEF Init
<1>3. Orderly(chats, inbox, stdout, gen, queries, cmds)
  BY <1>1, <1>2 DEF Orderly, Alone, InFlight, Answered, Idle
<1> QED
  BY <1>1, <1>2, <1>3 DEF Order, Unborn, Clientless

LEMMA OrderStep == IInv /\ [Next]_vars => IInv'
<1> SUFFICES ASSUME TInv, Order, [Next]_vars PROVE TInv' /\ Order'
  BY DEF IInv
<1>1. TInv'
  BY TypeStep
<1>2. CASE UNCHANGED vars
  <2>1. UNCHANGED <<chats, inbox, gen, stdout>> /\ UNCHANGED <<client, queries, cmds>>
    BY <1>2 DEF vars
  <2>2. Clientless'
    BY <2>1 DEF Order, Clientless
  <2>3. Fewer(queries, cmds, queries', cmds')
    BY <2>1, FewerThan, Zenon
  <2> QED
    BY <1>1, <2>1, <2>2, <2>3, FewerOrder
<1>3. CASE Next
  BY <1>1, <1>3, OpenOrderly, SendTurnOrderly, FinishOrderly, DrainOrderly, TimersOrderly,
     EndsOrderly, RouteOrderly, HandleOrderly, QueryOrderly DEF Next
<1> QED
  BY <1>2, <1>3

\* However turns, aborts, deaths and replacements of the process interleave, no chat is
\* ever worked on by two queries, nor by one while another is on its way.
THEOREM OneQuery == Spec => []OneQueryPerChat
<1>1. Init => IInv
  BY TypeInit, OrderInit DEF IInv
<1> QED
  BY <1>1, OrderStep, OrderlyOne, PTL DEF Spec
=============================================================================
