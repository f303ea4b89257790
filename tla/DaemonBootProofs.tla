-------------------------- MODULE DaemonBootProofs --------------------------
(***************************************************************************)
(* Proofs about DaemonBoot, for every set of terminals and of daemons,     *)
(* whether or not daemons die and terminals give up waiting for them: type *)
(* correctness, what the socket protects as it is, and that each of its    *)
(* two guarantees is lost in one race only.                                *)
(***************************************************************************)
EXTENDS DaemonBoot, TLAPS

-----------------------------------------------------------------------------
\* Type correctness.

\* A process that ends takes its terminals with it.
LEMMA DroppedType ==
  ASSUME TypeOK, NEW d \in Daemons, Dropped(d)
  PROVE  /\ step' \in [Terminals -> Steps]
         /\ peer' \in [Terminals -> Daemons \cup {NoDaemon}]
         /\ \A t \in Terminals : step'[t] \in {"hello", "attached"} <=> peer'[t] # NoDaemon
  BY NoDaemonAssumption DEF Dropped, TypeOK, Steps

\* One terminal goes on, without a peer before and after.
LEMMA GotoType ==
  ASSUME TypeOK, NEW t \in Terminals, step[t] \notin {"hello", "attached"},
         NEW s \in Steps \ {"hello", "attached"}, Goto(t, s), UNCHANGED <<sock, stage, peer>>,
         asked' \in SUBSET Daemons, again' \in SUBSET Terminals
  PROVE  TypeOK'
  BY DEF Goto, TypeOK

\* One daemon goes on, and may touch the file.
LEMMA EnterType ==
  ASSUME TypeOK, NEW d \in Daemons, NEW s \in DaemonStages, Enter(d, s),
         sock' \in {sock, NoDaemon, d}, UNCHANGED <<asked, again>>,
         UNCHANGED <<step, peer>> \/ Dropped(d)
  PROVE  TypeOK'
<1>1. /\ sock' \in Daemons \cup {NoDaemon}
      /\ stage' \in [Daemons -> DaemonStages]
      /\ asked' \in SUBSET Daemons
      /\ again' \in SUBSET Terminals
  BY DEF Enter, TypeOK
<1>2. /\ step' \in [Terminals -> Steps]
      /\ peer' \in [Terminals -> Daemons \cup {NoDaemon}]
      /\ \A t \in Terminals : step'[t] \in {"hello", "attached"} <=> peer'[t] # NoDaemon
  <2>1. CASE UNCHANGED <<step, peer>>
    BY <2>1 DEF TypeOK
  <2>2. CASE Dropped(d)
    BY <2>2, DroppedType
  <2> QED
    BY <2>1, <2>2
<1> QED
  BY <1>1, <1>2 DEF TypeOK

LEMMA TypeStep ==
  ASSUME TypeOK, [Next]_vars
  PROVE  TypeOK'
<1> USE DEF Steps, DaemonStages
<1>1. ASSUME NEW t \in Terminals,
             \/ RunAttach(t) \/ RunShutdown(t) \/ Probe(t) \/ Await(t) \/ Ask(t) \/ Tell(t)
             \/ Settle(t)
      PROVE  TypeOK'
  <2>1. CASE RunAttach(t)
    BY <2>1, GotoType DEF RunAttach, TypeOK
  <2>2. CASE RunShutdown(t)
    BY <2>2, GotoType DEF RunShutdown, TypeOK
  <2>3. CASE Probe(t)
    BY <2>3, GotoType DEF Probe, TypeOK
  <2>4. CASE Await(t)
    BY <2>4, GotoType DEF Await, TypeOK
  <2>5. CASE Ask(t)
    BY <2>5, GotoType DEF Ask, TypeOK
  <2>6. CASE Tell(t)
    BY <2>6, GotoType DEF Tell, TypeOK, IsRunning
  <2>7. CASE Settle(t)
    BY <2>7, GotoType DEF Settle, TypeOK
  <2> QED
    BY <1>1, <2>1, <2>2, <2>3, <2>4, <2>5, <2>6, <2>7
<1>2. ASSUME NEW t \in Terminals, Spawn(t)
      PROVE  TypeOK'
  <2>1. CASE \E d \in Daemons : Enter(d, "boot")
    BY <1>2, <2>1 DEF Spawn, Goto, Enter, TypeOK
  <2>2. CASE UNCHANGED stage
    BY <1>2, <2>2, GotoType DEF Spawn, Goto, TypeOK
  <2> QED
    BY <1>2, <2>1, <2>2 DEF Spawn
<1>3. ASSUME NEW t \in Terminals, ConnectTo(t)
      PROVE  TypeOK'
  BY <1>3 DEF ConnectTo, Goto, IsRunning, TypeOK
<1>4. ASSUME NEW t \in Terminals, Welcome(t) \/ Detach(t)
      PROVE  TypeOK'
  BY <1>4 DEF Welcome, Detach, Goto, TypeOK
<1>5. ASSUME NEW d \in Daemons, DaemonStep(d) \/ Crash(d)
      PROVE  TypeOK'
  <2>1. CASE NewApp(d)
    BY <2>1, EnterType DEF NewApp
  <2>2. CASE ServeProbe(d)
    BY <2>2, EnterType DEF ServeProbe
  <2>3. CASE Unlink(d)
    BY <2>3, EnterType DEF Unlink
  <2>4. CASE Bind(d)
    BY <2>4, EnterType DEF Bind
  <2>5. CASE LeaveLoop(d)
    BY <2>5, EnterType DEF LeaveLoop
  <2>6. CASE StopSessions(d)
    BY <2>6, EnterType DEF StopSessions
  <2>7. CASE Remove(d)
    BY <2>7, EnterType DEF Remove
  <2>8. CASE Crash(d)
    BY <2>8, EnterType DEF Crash
  <2> QED
    BY <1>5, <2>1, <2>2, <2>3, <2>4, <2>5, <2>6, <2>7, <2>8 DEF DaemonStep
<1>6. CASE UNCHANGED vars
  BY <1>6 DEF vars, TypeOK
<1> QED
  BY <1>1, <1>2, <1>3, <1>4, <1>5, <1>6 DEF Next, Command

\* Type correctness: a terminal is connected exactly while its command has a
\* connection open, whichever process ends under it.
THEOREM TypeCorrect == Spec => []TypeOK
<1>1. Init => TypeOK
  BY DEF Init, TypeOK, DaemonStages, Steps
<1> QED
  BY <1>1, TypeStep, PTL DEF Spec

-----------------------------------------------------------------------------
\* What a step of a process does to the others.

\* A process that has not ended.
Alive(d) == stage[d] \notin {"unborn", "gone"}

\* Between the probe that found nobody and a listener of its own.
Taking(d) == stage[d] \in {"unlink", "bind"}

\* A process is on its way, there, or none.
LEMMA StageKinds ==
  ASSUME TypeOK, NEW d \in Daemons
  PROVE  /\ Alive(d) <=> Coming(d) \/ Listening(d)
         /\ Owns(d) => Alive(d)
         /\ Taking(d) => Coming(d) /\ ~Listening(d)
  BY DEF TypeOK, DaemonStages, Alive, Coming, Listening, Owns, Taking

\* Going on, a process leaves the stages of the others alone.
LEMMA OthersStay ==
  ASSUME TypeOK, NEW d \in Daemons, NEW s, Enter(d, s)
  PROVE  /\ stage'[d] = s
         /\ \A e \in Daemons : e # d => stage'[e] = stage[e]
  BY DEF TypeOK, Enter

\* No step of a process is the terminals', but for those it drops: none starts to
\* spawn.
LEMMA NoneStartsToSpawn ==
  ASSUME TypeOK, NEW d \in Daemons, DaemonStep(d) \/ Crash(d), NEW t \in Terminals,
         step'[t] = "spawn"
  PROVE  step[t] = "spawn"
<1>1. UNCHANGED step \/ Dropped(d)
  BY DEF DaemonStep, NewApp, ServeProbe, Unlink, Bind, LeaveLoop, StopSessions, Remove, Crash
<1> QED
  BY <1>1 DEF Dropped

\* The stages a step of a process takes it through, and what it does to the file.
LEMMA ProcessKinds ==
  ASSUME TypeOK, NEW d \in Daemons, DaemonStep(d) \/ Crash(d)
  PROVE  /\ Alive(d)
         /\ \A e \in Daemons : e # d => stage'[e] = stage[e]
         /\ Taking(d)' => Taking(d) \/ (stage[d] = "probe" /\ ~IsRunning)
         /\ Listening(d)' => \/ (Listening(d) /\ UNCHANGED sock)
                             \/ (stage[d] = "bind" /\ sock' = d)
         /\ sock' # sock => \/ Taking(d)
                            \/ (stage[d] = "remove" /\ stage'[d] = "gone")
<1> USE OthersStay DEF Alive, Taking, Listening
<1>1. CASE NewApp(d)
  BY <1>1 DEF NewApp
<1>2. CASE ServeProbe(d)
  <2>1. CASE IsRunning
    BY <1>2, <2>1 DEF ServeProbe
  <2>2. CASE ~IsRunning
    BY <1>2, <2>2 DEF ServeProbe
  <2> QED
    BY <2>1, <2>2
<1>3. CASE Unlink(d)
  BY <1>3 DEF Unlink
<1>4. CASE Bind(d)
  BY <1>4 DEF Bind
<1>5. CASE LeaveLoop(d)
  BY <1>5 DEF LeaveLoop
<1>6. CASE StopSessions(d)
  BY <1>6 DEF StopSessions
<1>7. CASE Remove(d)
  BY <1>7 DEF Remove
<1>8. CASE Crash(d)
  BY <1>8 DEF Crash
<1> QED
  BY <1>1, <1>2, <1>3, <1>4, <1>5, <1>6, <1>7, <1>8 DEF DaemonStep

\* A terminal touches neither the file nor a process, but for the one it spawns.
LEMMA TerminalKinds ==
  ASSUME TypeOK, NEW t \in Terminals,
         RunAttach(t) \/ RunShutdown(t) \/ Detach(t) \/ Command(t)
  PROVE  /\ UNCHANGED sock
         /\ \/ UNCHANGED stage
            \/ /\ step[t] = "spawn"
               /\ \E b \in Daemons :
                    /\ stage[b] = "unborn"
                    /\ stage'[b] = "boot"
                    /\ \A e \in Daemons : e # b => stage'[e] = stage[e]
         /\ \A u \in Terminals :
              step'[u] = "spawn" => step[u] = "spawn" \/ (UNCHANGED stage /\ ~IsRunning)
<1>1. CASE Spawn(t)
  <2>1. \A u \in Terminals : step'[u] = "spawn" => step[u] = "spawn"
    BY <1>1 DEF Spawn, Goto, TypeOK
  <2>2. UNCHANGED sock /\ step[t] = "spawn"
    BY <1>1 DEF Spawn
  <2>3. \/ UNCHANGED stage
        \/ \E b \in Daemons : /\ stage[b] = "unborn"
                              /\ stage'[b] = "boot"
                              /\ \A e \in Daemons : e # b => stage'[e] = stage[e]
    BY <1>1, OthersStay DEF Spawn
  <2> QED
    BY <2>1, <2>2, <2>3
<1>2. CASE Probe(t)
  <2>1. UNCHANGED <<sock, stage>>
    BY <1>2 DEF Probe
  <2>2. \A u \in Terminals : step'[u] = "spawn" => step[u] = "spawn" \/ ~IsRunning
    BY <1>2, Zenon DEF Probe, Goto, TypeOK
  <2> QED
    BY <2>1, <2>2
<1>3. CASE \/ RunAttach(t) \/ RunShutdown(t) \/ Detach(t) \/ Await(t) \/ ConnectTo(t)
           \/ Welcome(t) \/ Ask(t) \/ Tell(t) \/ Settle(t)
  <2>1. UNCHANGED <<sock, stage>>
    BY <1>3 DEF RunAttach, RunShutdown, Detach, Await, ConnectTo, Welcome, Ask, Tell, Settle
  <2>2. \A u \in Terminals : step'[u] = "spawn" => step[u] = "spawn"
    BY <1>3 DEF RunAttach, RunShutdown, Detach, Await, ConnectTo, Welcome, Ask, Tell, Settle,
                Goto, TypeOK
  <2> QED
    BY <2>1, <2>2
<1> QED
  BY <1>1, <1>2, <1>3 DEF Command

-----------------------------------------------------------------------------
\* One owner, unless a terminal spawns a daemon while another is on its way.

\* The inductive invariant: one process at most is alive, the socket of one that
\* listens is its own, and no terminal is about to spawn another while it listens.
\* Each part needs the others: the probe of a terminal goes by the file.
OneAlive ==
  /\ \A d, e \in Daemons : Alive(d) /\ Alive(e) => d = e
  /\ \A d \in Daemons : Listening(d) => sock = d
  /\ \A t \in Terminals : step[t] = "spawn" => \A d \in Daemons : ~Listening(d)

\* A socket of its own is found.
LEMMA ProbeTells ==
  ASSUME TypeOK, \A d \in Daemons : Listening(d) => sock = d, ~IsRunning
  PROVE  \A d \in Daemons : ~Listening(d)
  BY NoDaemonAssumption DEF IsRunning

LEMMA OneAliveTerminal ==
  ASSUME TypeOK, OneAlive, ~StartRace, NEW t \in Terminals,
         RunAttach(t) \/ RunShutdown(t) \/ Detach(t) \/ Command(t)
  PROVE  OneAlive'
<1>1. CASE UNCHANGED stage
  <2>1. UNCHANGED sock
    BY TerminalKinds
  <2>2. ASSUME NEW u \in Terminals, step'[u] = "spawn", NEW d \in Daemons
        PROVE  ~Listening(d)
    <3>1. step[u] = "spawn" \/ ~IsRunning
      BY <2>2, TerminalKinds
    <3> QED
      BY <2>2, <3>1, ProbeTells DEF OneAlive
  <2> QED
    BY <1>1, <2>1, <2>2 DEF OneAlive, Alive, Listening
<1>2. CASE ~UNCHANGED stage
  <2>1. /\ UNCHANGED sock
        /\ step[t] = "spawn"
    BY <1>2, TerminalKinds
  <2>2. \A d \in Daemons : ~Alive(d)
    BY <2>1, StageKinds DEF StartRace, OneAlive
  <2>3. PICK b \in Daemons : stage'[b] = "boot" /\ \A e \in Daemons : e # b => stage'[e] = stage[e]
    BY <1>2, TerminalKinds
  <2>4. \A d \in Daemons : ~Listening(d)' /\ (Alive(d)' => d = b)
    BY <2>2, <2>3, StageKinds DEF Alive, Listening
  <2> QED
    BY <2>4 DEF OneAlive
<1> QED
  BY <1>1, <1>2

LEMMA OneAliveProcess ==
  ASSUME TypeOK, OneAlive, ~StartRace, NEW d \in Daemons, DaemonStep(d) \/ Crash(d)
  PROVE  OneAlive'
<1>1. /\ Alive(d)
      /\ \A e \in Daemons : e # d => ~Alive(e) /\ ~Alive(e)' /\ ~Listening(e)'
  BY ProcessKinds, StageKinds DEF OneAlive, Alive, Listening
<1>2. Listening(d)' => sock' = d
  BY ProcessKinds DEF OneAlive
<1>3. ASSUME NEW t \in Terminals, step'[t] = "spawn"
      PROVE  ~Listening(d)'
  <2>1. step[t] = "spawn"
    BY <1>3, NoneStartsToSpawn
  <2>2. ~Coming(d) /\ ~Listening(d)
    BY <2>1 DEF StartRace, OneAlive
  <2> QED
    BY <2>2, ProcessKinds DEF Coming
<1> QED
  BY <1>1, <1>2, <1>3 DEF OneAlive

\* Two daemons own the sessions only after the one race: a terminal that was about to
\* spawn one, on the answer of its probe, while another was on its way.
THEOREM OneOwner == Spec => OwnersRaced
<1>1. Init => TypeOK /\ OneAlive
  BY DEF Init, TypeOK, DaemonStages, Steps, OneAlive, Alive, Listening
<1>2. TypeOK /\ OneAlive /\ ~StartRace /\ [Next]_vars => (TypeOK /\ OneAlive)'
  <2> SUFFICES ASSUME TypeOK, OneAlive, ~StartRace, [Next]_vars
               PROVE  OneAlive'
    BY TypeStep
  <2>1. ASSUME NEW t \in Terminals, RunAttach(t) \/ RunShutdown(t) \/ Detach(t) \/ Command(t)
        PROVE  OneAlive'
    BY <2>1, OneAliveTerminal
  <2>2. ASSUME NEW d \in Daemons, DaemonStep(d) \/ Crash(d) PROVE OneAlive'
    BY <2>2, OneAliveProcess
  <2>3. CASE UNCHANGED vars
    BY <2>3 DEF vars, OneAlive, Alive, Listening
  <2> QED
    BY <2>1, <2>2, <2>3 DEF Next
<1>3. TypeOK /\ OneAlive => SoleOwner
  BY StageKinds DEF OneAlive, SoleOwner
<1> QED
  BY <1>1, <1>2, <1>3, PTL DEF Spec, OwnersRaced

-----------------------------------------------------------------------------
\* Reachable, unless two daemons take the socket at once.

\* The inductive invariant: nobody listens, or is about to, beside a daemon that
\* listens, and the file is that one's.
OneTakes ==
  /\ \A d, e \in Daemons : Listening(d) /\ (Taking(e) \/ Listening(e)) => d = e
  /\ \A d \in Daemons : Listening(d) => sock = d

LEMMA OneTakesTerminal ==
  ASSUME TypeOK, OneTakes, NEW t \in Terminals,
         RunAttach(t) \/ RunShutdown(t) \/ Detach(t) \/ Command(t)
  PROVE  OneTakes'
<1>1. UNCHANGED sock
  BY TerminalKinds
<1>2. \A d \in Daemons : (Listening(d)' => Listening(d)) /\ (Taking(d)' => Taking(d))
  BY TerminalKinds DEF Listening, Taking
<1> QED
  BY <1>1, <1>2 DEF OneTakes

LEMMA OneTakesProcess ==
  ASSUME TypeOK, OneTakes, ~BindRace, NEW d \in Daemons, DaemonStep(d) \/ Crash(d)
  PROVE  OneTakes'
<1>1. \A e \in Daemons : e # d => (Listening(e)' <=> Listening(e)) /\ (Taking(e)' <=> Taking(e))
  BY ProcessKinds DEF Listening, Taking
<1>2. ASSUME NEW e \in Daemons, e # d, Listening(e)
      PROVE  UNCHANGED sock /\ ~Taking(d)' /\ ~Listening(d)'
  <2>1. ~Taking(d) /\ ~Listening(d)
    BY <1>2 DEF OneTakes
  <2>2. IsRunning
    BY <1>2, ProbeTells DEF OneTakes
  <2> QED
    BY <2>1, <2>2, ProcessKinds DEF Taking, Listening
<1>3. ASSUME NEW e \in Daemons, e # d, Taking(e)
      PROVE  ~Listening(d)'
  <2>1. ~Listening(d)
    BY <1>3 DEF OneTakes
  <2>2. ~Taking(d)
    BY <1>3 DEF BindRace, Taking
  <2> QED
    BY <2>1, <2>2, ProcessKinds DEF Taking
<1>4. Listening(d)' => sock' = d
  BY ProcessKinds DEF OneTakes
<1> QED
  BY <1>1, <1>2, <1>3, <1>4 DEF OneTakes

\* The daemon that serves loses its socket only after the one race: two daemons that
\* had both found it orphaned, and were removing and binding it.
THEOREM Reachable == Spec => ReachableUnlessRaced
<1>1. Init => TypeOK /\ OneTakes
  BY DEF Init, TypeOK, DaemonStages, Steps, OneTakes, Taking, Listening
<1>2. TypeOK /\ OneTakes /\ ~BindRace /\ [Next]_vars => (TypeOK /\ OneTakes)'
  <2> SUFFICES ASSUME TypeOK, OneTakes, ~BindRace, [Next]_vars
               PROVE  OneTakes'
    BY TypeStep
  <2>1. ASSUME NEW t \in Terminals, RunAttach(t) \/ RunShutdown(t) \/ Detach(t) \/ Command(t)
        PROVE  OneTakes'
    BY <2>1, OneTakesTerminal
  <2>2. ASSUME NEW d \in Daemons, DaemonStep(d) \/ Crash(d) PROVE OneTakes'
    BY <2>2, OneTakesProcess
  <2>3. CASE UNCHANGED vars
    BY <2>3 DEF vars, OneTakes, Taking, Listening
  <2> QED
    BY <2>1, <2>2, <2>3 DEF Next
<1>3. OneTakes => ServingReachable
  BY DEF OneTakes, ServingReachable, Listening
<1> QED
  BY <1>1, <1>2, <1>3, PTL DEF Spec, ReachableUnlessRaced

-----------------------------------------------------------------------------
\* A daemon in possession of the socket.

\* Whatever process or terminal goes on.
LEMMA HoldsStep ==
  ASSUME TypeOK, [Next]_vars, NEW d \in Daemons, Holds(d)
  PROVE  Holds(d)' \/ stage'[d] = "gone"
<1> DEFINE Harmless(e) == stage[e] \in {"unborn", "boot", "probe", "gone"}
<1>1. IsRunning
  BY NoDaemonAssumption DEF Holds, IsRunning
<1>2. ASSUME NEW t \in Terminals, RunAttach(t) \/ RunShutdown(t) \/ Detach(t) \/ Command(t)
      PROVE  Holds(d)'
  <2>1. UNCHANGED sock
    BY <1>2, TerminalKinds
  <2>2. stage'[d] = stage[d]
    BY <1>2, TerminalKinds DEF Holds, Listening
  <2>3. \A e \in Daemons : Harmless(e) => Harmless(e)'
    BY <1>2, TerminalKinds
  <2> QED
    BY <2>1, <2>2, <2>3 DEF Holds, Listening
<1>3. ASSUME DaemonStep(d) \/ Crash(d), stage'[d] # "gone"
      PROVE  Holds(d)'
  <2>1. Listening(d)' /\ UNCHANGED sock
    BY <1>3 DEF DaemonStep, NewApp, ServeProbe, Unlink, Bind, LeaveLoop, StopSessions, Remove,
                Crash, Enter, Holds, Listening, TypeOK
  <2>2. \A e \in Daemons : e # d => stage'[e] = stage[e]
    BY <1>3, ProcessKinds
  <2> QED
    BY <2>1, <2>2 DEF Holds
<1>4. ASSUME NEW e \in Daemons, e # d, DaemonStep(e) \/ Crash(e)
      PROVE  Holds(d)'
  <2>1. Harmless(e)
    BY <1>4 DEF Holds
  <2>2. Harmless(e)' /\ UNCHANGED sock
    BY <1>1, <1>4, <2>1 DEF DaemonStep, NewApp, ServeProbe, Unlink, Bind, LeaveLoop,
                            StopSessions, Remove, Crash, Enter, TypeOK
  <2>3. \A f \in Daemons : f # e => stage'[f] = stage[f]
    BY <1>4, ProcessKinds
  <2> QED
    BY <1>4, <2>2, <2>3 DEF Holds, Listening
<1>5. CASE UNCHANGED vars
  BY <1>5 DEF vars, Holds, Listening
<1> QED
  BY <1>2, <1>3, <1>4, <1>5 DEF Next

\* A daemon that has the socket, with nobody past a probe that found none, keeps it
\* until its process ends: the daemons that stale probes bring about are refused.
THEOREM Newcomers == Spec => Undisturbed
<1>1. TypeOK /\ [Next]_vars =>
        [\A d \in Daemons : Holds(d) => Holds(d)' \/ stage'[d] = "gone"]_vars
  BY HoldsStep
<1> QED
  BY <1>1, TypeCorrect, PTL DEF Spec, Undisturbed
=============================================================================
