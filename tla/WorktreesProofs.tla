--------------------------- MODULE WorktreesProofs ---------------------------
(***************************************************************************)
(* Proofs about Worktrees, for every set of tasks, every number of         *)
(* repositories per task and every number of failures.                     *)
(***************************************************************************)
EXTENDS Worktrees, FiniteSetTheorems, TLAPS

-----------------------------------------------------------------------------
\* The inductive invariant.

\* s is, place by place, a branch that task t links or linked.
Own(t, s) ==
  /\ s \in Seq(Trees)
  /\ Len(s) = Len(Start[t])
  /\ \A k \in 1 .. Len(Start[t]) : s[k] \in {Start[t][k], Renamed[t][k]}

\* A card that has worktrees has them for its own task.
CardOwn(t, c) == c.state # "none" => Own(t, c.trees)

\* A launch has, for the branches of its task, the worktrees of the first ones,
\* and the first of all is there.
LaunchOwn ==
  job.kind = "launch" =>
    /\ Own(job.task, job.links)
    /\ Len(job.trees) <= Len(job.links)
    /\ \A k \in 1 .. Len(job.trees) : job.trees[k] = job.links[k]
    /\ Len(job.trees) > 0 => tree[job.trees[1]] # "none"
    /\ ~Live(job.task)

\* Worktrees are removed of a task that has no live session, at its own places.
RemovalOwn ==
  /\ job.kind = "undo" => ~Live(job.task) /\ job.at \in 1 .. Len(Start[job.task])
  /\ job.kind \in {"finish", "close"} =>
       card[job.task].state = "done" /\ job.at \in 1 .. Len(Start[job.task]) + 1

Owned ==
  /\ \A t \in Tasks : Own(t, link[t]) /\ CardOwn(t, card[t]) /\ CardOwn(t, record[t])
  /\ LaunchOwn
  /\ RemovalOwn

IInv == TypeOK /\ Owned /\ LiveHasCwd

-----------------------------------------------------------------------------
\* Records of the two kinds of variables.

\* A card is no card, or has a state and worktrees.
LEMMA CardKinds ==
  ASSUME NEW c \in Card
  PROVE  /\ c.state \in {"none", "live", "done"}
         /\ c.state = "none" <=> c = NoCard
         /\ c.state # "none" => c.trees \in Seq(Trees)
  BY DEF Card, NoCard

\* A session that begins or ends keeps the worktrees of its card.
LEMMA CardState ==
  ASSUME NEW c \in Card, c # NoCard, NEW s \in {"live", "done"}
  PROVE  /\ [c EXCEPT !.state = s] \in Card
         /\ [c EXCEPT !.state = s].state = s
         /\ [c EXCEPT !.state = s].trees = c.trees
  BY DEF Card, NoCard

\* What a job of each kind has.
LEMMA JobKinds ==
  ASSUME NEW j \in Job
  PROVE  /\ j.kind \in {"none", "launch", "undo", "finish", "close"}
         /\ j.kind = "none" <=> j = NoJob
         /\ j.kind = "launch" =>
              j \in [kind : {"launch"}, task : Tasks, links : Seq(Trees), trees : Seq(Trees)]
         /\ j.kind = "undo" => j \in [kind : {"undo"}, task : Tasks, at : Nat]
         /\ j.kind \in {"finish", "close"} =>
              j \in [kind : {"finish", "close"}, task : Tasks, at : Nat, kept : SUBSET Trees]
  BY DEF Job, NoJob

\* Branches of two tasks differ.
LEMMA Apart ==
  ASSUME NEW t \in Tasks, NEW u \in Tasks, t # u,
         NEW s, Own(t, s), NEW j \in 1 .. Len(Start[t]),
         NEW r, Own(u, r), NEW k \in 1 .. Len(Start[u])
  PROVE  s[j] # r[k]
<1>1. Start[t] \in Seq(Trees) /\ Start[u] \in Seq(Trees)
  BY BranchAssumption
<1>2. j \in DOMAIN Start[t] /\ k \in DOMAIN Start[u]
  BY <1>1
<1>3. s[j] \in {Start[t][j], Renamed[t][j]} /\ r[k] \in {Start[u][k], Renamed[u][k]}
  BY <1>1, <1>2 DEF Own
<1>4. /\ Start[t][j] # Start[u][k] /\ Renamed[t][j] # Renamed[u][k]
      /\ Start[t][j] # Renamed[u][k] /\ Start[u][k] # Renamed[t][j]
  BY <1>2, BranchAssumption
<1> QED
  BY <1>3, <1>4

\* Every task has a first place, and a branch at each.
LEMMA Owns ==
  ASSUME NEW t \in Tasks, NEW s, Own(t, s)
  PROVE  /\ Len(Start[t]) \in Nat \ {0}
         /\ s \in Seq(Trees)
         /\ \A k \in 1 .. Len(Start[t]) : k \in DOMAIN s /\ s[k] \in Trees
<1>1. Start[t] \in Seq(Trees) /\ Len(Start[t]) > 0
  BY BranchAssumption
<1> QED
  BY <1>1 DEF Own

\* Writing the cards down keeps records that are owned.
LEMMA PersistedTyped ==
  ASSUME NEW cards \in [Tasks -> Card], record \in [Tasks -> Card],
         \A t \in Tasks : CardOwn(t, cards[t]) /\ CardOwn(t, record[t])
  PROVE  /\ Persisted(cards) \in [Tasks -> Card]
         /\ \A t \in Tasks : CardOwn(t, Persisted(cards)[t])
  BY DEF Persisted

-----------------------------------------------------------------------------
\* Types and owners are kept.

\* They hold in every initial state.
LEMMA OwnedInit == Init => TypeOK /\ Owned
<1> SUFFICES ASSUME Init PROVE TypeOK /\ Owned
  OBVIOUS
<1>1. \A t \in Tasks : card[t] = NoCard /\ record[t] = NoCard
  BY DEF Init
<1>2. NoCard \in Card /\ NoCard.state = "none" /\ NoJob \in Job /\ NoJob.kind = "none"
  BY DEF NoCard, Card, NoJob, Job
<1>3. TypeOK
  <2>1. /\ card \in [Tasks -> Card] /\ record \in [Tasks -> Card] /\ job \in Job
        /\ tree \in [Trees -> {"none", "clean", "dirty"}]
    BY <1>2 DEF Init
  <2>2. link \in [Tasks -> Seq(Trees)]
    BY BranchAssumption DEF Init
  <2>3. up \in BOOLEAN /\ (~up => job = NoJob)
    BY DEF Init
  <2>4. fails \in 0 .. MaxFails
    BY BoundAssumption DEF Init
  <2> QED
    BY <1>1, <2>1, <2>2, <2>3, <2>4 DEF TypeOK
<1>4. \A t \in Tasks : Own(t, link[t])
  <2> TAKE t \in Tasks
  <2>1. Start[t] \in Seq(Trees)
    BY BranchAssumption
  <2> QED
    BY <2>1 DEF Init, Own
<1>5. LaunchOwn /\ RemovalOwn
  BY <1>2 DEF Init, LaunchOwn, RemovalOwn
<1> QED
  BY <1>1, <1>2, <1>3, <1>4, <1>5 DEF Owned, CardOwn

\* What a play does keeps them: the branches of the launch are those of the task,
\* and of the task no session is live.
LEMMA PlayKeeps ==
  ASSUME TypeOK, Owned,
         \/ \E t \in Tasks : Launch(t)
         \/ AddTree \/ LaunchFails \/ Spawn \/ SpawnFails \/ Undo \/ UndoFails
  PROVE  TypeOK' /\ Owned'
<1>1. /\ job \in Job /\ up \in BOOLEAN /\ (~up => job = NoJob)
      /\ NoJob \in Job /\ NoJob.kind = "none"
  BY DEF TypeOK, NoJob, Job
<1>2. CASE \E t \in Tasks : Launch(t)
  <2> PICK t \in Tasks : Launch(t)
    BY <1>2
  <2>1. job' = [kind |-> "launch", task |-> t, links |-> link[t], trees |-> <<>>]
    BY DEF Launch
  <2>2. Own(t, link[t]) /\ link[t] \in Seq(Trees)
    BY DEF Owned, Own
  <2>3. job' \in Job
    BY <2>1, <2>2 DEF Job
  <2>4. TypeOK'
    BY <2>3 DEF Launch, TypeOK
  <2>5. LaunchOwn'
    BY <2>1, <2>2, Owns DEF Launch, LaunchOwn, Live
  <2>6. RemovalOwn'
    BY <2>1 DEF RemovalOwn
  <2> QED
    BY <2>4, <2>5, <2>6 DEF Launch, Owned, CardOwn
<1>3. CASE AddTree
  <2> DEFINE n == Len(job.trees) + 1
             d == job.links[n]
  <2>1. /\ job \in [kind : {"launch"}, task : Tasks, links : Seq(Trees), trees : Seq(Trees)]
        /\ Own(job.task, job.links) /\ Len(job.trees) # Len(job.links)
        /\ Len(job.trees) <= Len(job.links)
    BY <1>1, <1>3, JobKinds DEF AddTree, Launching, Made, Owned, LaunchOwn
  <2>2. n \in 1 .. Len(job.links) /\ d \in Trees
    BY <2>1
  <2>3. /\ job' = [job EXCEPT !.trees = Append(@, d)]
        /\ tree' = [tree EXCEPT ![d] = IF @ = "none" THEN "clean" ELSE @]
    BY <1>3 DEF AddTree
  <2>4. /\ job' \in [kind : {"launch"}, task : Tasks, links : Seq(Trees), trees : Seq(Trees)]
        /\ job'.kind = "launch" /\ job'.task = job.task /\ job'.links = job.links
        /\ job'.trees = Append(job.trees, d)
    <3>1. Append(job.trees, d) \in Seq(Trees)
      BY <2>1, <2>2
    <3>2. job' = [job EXCEPT !.trees = Append(job.trees, d)]
      BY <2>3
    <3> HIDE DEF d
    <3> QED
      BY <2>1, <3>1, <3>2
  <2>5. job' \in Job
    BY <2>4 DEF Job
  <2>6. TypeOK'
    BY <1>1, <1>3, <2>1, <2>2, <2>3, <2>5 DEF AddTree, TypeOK, NoJob
  <2>7. /\ Len(job'.trees) = n
        /\ \A k \in 1 .. n : job'.trees[k] = job.links[k]
    BY <2>1, <2>2, <2>4 DEF Owned, LaunchOwn, AddTree
  <2>8. tree'[job'.trees[1]] # "none"
    <3>1. tree' [d] # "none" /\ \A e \in Trees : tree[e] # "none" => tree'[e] # "none"
      BY <2>2, <2>3 DEF TypeOK
    <3>2. CASE Len(job.trees) = 0
      BY <3>1, <3>2, <2>1, <2>4
    <3>3. CASE Len(job.trees) > 0
      <4>1. tree[job.trees[1]] # "none" /\ job'.trees[1] = job.trees[1] /\ job.trees[1] \in Trees
        BY <3>3, <2>1, <2>4 DEF Owned, LaunchOwn
      <4> QED
        BY <4>1, <3>1
    <3> QED
      BY <3>2, <3>3, <2>1
  <2>9. LaunchOwn'
    BY <1>3, <2>1, <2>2, <2>4, <2>7, <2>8 DEF LaunchOwn, Owned, AddTree, Live, Own
  <2>10. RemovalOwn'
    BY <2>4 DEF RemovalOwn
  <2> QED
    BY <1>3, <2>6, <2>9, <2>10 DEF AddTree, Owned, CardOwn
<1>4. CASE LaunchFails \/ UndoFails
  BY <1>1, <1>4 DEF LaunchFails, UndoFails, Fails, TypeOK, Owned, LaunchOwn, RemovalOwn
<1>5. CASE Spawn
  <2> DEFINE t == job.task
             c == [state |-> "live", trees |-> job.trees]
  <2>1. /\ job \in [kind : {"launch"}, task : Tasks, links : Seq(Trees), trees : Seq(Trees)]
        /\ Own(t, job.links) /\ Len(job.trees) = Len(job.links)
        /\ \A k \in 1 .. Len(job.trees) : job.trees[k] = job.links[k]
    BY <1>1, <1>5, JobKinds DEF Spawn, Launching, Made, Owned, LaunchOwn
  <2>2. Own(t, job.trees)
    BY <2>1 DEF Own
  <2>3. c \in Card /\ CardOwn(t, c)
    BY <2>1, <2>2 DEF Card, CardOwn
  <2>4. card' = [card EXCEPT ![t] = c] /\ record' = Persisted(card')
    BY <1>5 DEF Spawn
  <2>5. card' \in [Tasks -> Card] /\ \A u \in Tasks : CardOwn(u, card'[u])
    BY <2>1, <2>3, <2>4 DEF TypeOK, Owned
  <2>6. record' \in [Tasks -> Card] /\ \A u \in Tasks : CardOwn(u, record'[u])
    BY <2>4, <2>5, PersistedTyped DEF TypeOK, Owned
  <2>7. TypeOK'
    BY <1>1, <1>5, <2>1, <2>5, <2>6 DEF Spawn, TypeOK, NoJob
  <2>8. LaunchOwn' /\ RemovalOwn'
    BY <1>1, <1>5 DEF Spawn, LaunchOwn, RemovalOwn
  <2> QED
    BY <1>5, <2>5, <2>6, <2>7, <2>8 DEF Spawn, Owned
<1>6. CASE SpawnFails
  <2>1. /\ job.task \in Tasks /\ ~Live(job.task) /\ up
    BY <1>1, <1>6, JobKinds DEF SpawnFails, Launching, Owned, LaunchOwn, NoJob
  <2>2. job' = [kind |-> "undo", task |-> job.task, at |-> 1]
    BY <1>6 DEF SpawnFails
  <2>3. job' \in Job
    BY <2>1, <2>2 DEF Job
  <2>4. 1 \in 1 .. Len(Start[job.task])
    BY <2>1, Owns DEF Owned
  <2>5. TypeOK'
    BY <1>6, <2>1, <2>3 DEF SpawnFails, Fails, TypeOK
  <2>6. LaunchOwn' /\ RemovalOwn'
    BY <1>6, <2>1, <2>2, <2>4 DEF SpawnFails, LaunchOwn, RemovalOwn, Live
  <2> QED
    BY <1>6, <2>5, <2>6 DEF SpawnFails, Owned
<1>7. CASE Undo
  <2> DEFINE t == job.task
             d == link[t][job.at]
  <2>1. /\ job \in [kind : {"undo"}, task : Tasks, at : Nat]
        /\ job.at \in 1 .. Len(Start[t]) /\ Own(t, link[t])
    BY <1>1, <1>7, JobKinds DEF Undo, Owned, RemovalOwn
  <2>2. d \in Trees /\ Len(link[t]) = Len(Start[t]) /\ Len(Start[t]) \in Nat
    BY <2>1, Owns DEF Own
  <2>3. \/ job' = NoJob
        \/ job' = [job EXCEPT !.at = @ + 1] /\ job.at # Len(link[t])
    BY <1>7 DEF Undo
  <2>4. /\ job' \in Job
        /\ job' # NoJob =>
             job'.kind = "undo" /\ job'.task = t /\ job'.at \in 1 .. Len(Start[t])
    <3>1. CASE job' = NoJob
      BY <3>1, <1>1
    <3>2. CASE job' = [job EXCEPT !.at = @ + 1] /\ job.at # Len(link[t])
      <4>1. /\ job' \in [kind : {"undo"}, task : Tasks, at : Nat]
            /\ job'.kind = "undo" /\ job'.task = t /\ job'.at = job.at + 1
        BY <3>2, <2>1
      <4>2. job'.at \in 1 .. Len(Start[t])
        BY <4>1, <3>2, <2>1, <2>2
      <4> QED
        BY <4>1, <4>2 DEF Job
    <3> QED
      BY <2>3, <3>1, <3>2
  <2>5. tree' \in [Trees -> {"none", "clean", "dirty"}]
    BY <1>7, <2>2 DEF Undo, TypeOK
  <2>6. TypeOK'
    BY <1>1, <1>7, <2>1, <2>4, <2>5 DEF Undo, TypeOK, NoJob
  <2>7. LaunchOwn' /\ RemovalOwn'
    BY <1>1, <1>7, <2>4 DEF Undo, LaunchOwn, RemovalOwn, Owned, Live
  <2> QED
    BY <1>7, <2>6, <2>7 DEF Undo, Owned
<1> QED
  BY <1>2, <1>3, <1>4, <1>5, <1>6, <1>7

\* So does the end of a session: its card is done from the first step on, and the
\* clean-up has a place for every worktree of it.
LEMMA EndKeeps ==
  ASSUME TypeOK, Owned,
         \/ \E t \in Tasks, kind \in {"finish", "close"} : End(t, kind)
         \/ Cleanup \/ CleanupFails \/ Ended
  PROVE  TypeOK' /\ Owned'
<1>1. /\ job \in Job /\ up \in BOOLEAN /\ (~up => job = NoJob)
      /\ NoJob \in Job /\ NoJob.kind = "none"
  BY DEF TypeOK, NoJob, Job
<1>2. CASE \E t \in Tasks, kind \in {"finish", "close"} : End(t, kind)
  <2> PICK t \in Tasks, kind \in {"finish", "close"} : End(t, kind)
    BY <1>2
  <2>1. card[t] \in Card /\ card[t] # NoCard
    BY DEF End, TypeOK
  <2>2. /\ [card[t] EXCEPT !.state = "done"] \in Card
        /\ [card[t] EXCEPT !.state = "done"].state = "done"
        /\ [card[t] EXCEPT !.state = "done"].trees = card[t].trees
        /\ card[t].state # "none"
    BY <2>1, CardKinds, CardState
  <2>3. card' = [card EXCEPT ![t] = [card[t] EXCEPT !.state = "done"]]
    BY DEF End
  <2>4. card' \in [Tasks -> Card] /\ card'[t].state = "done"
        /\ \A u \in Tasks : CardOwn(u, card'[u])
    BY <2>2, <2>3 DEF TypeOK, Owned, CardOwn
  <2>5. job' = [kind |-> kind, task |-> t, at |-> 1, kept |-> {}]
    BY DEF End
  <2>6. job' \in Job
    BY <2>5 DEF Job
  <2>7. TypeOK'
    BY <2>4, <2>6 DEF End, TypeOK
  <2>8. 1 \in 1 .. Len(Start[t]) + 1
    BY Owns DEF Owned
  <2>9. LaunchOwn' /\ RemovalOwn'
    BY <2>4, <2>5, <2>8 DEF LaunchOwn, RemovalOwn
  <2> QED
    BY <2>4, <2>7, <2>9 DEF End, Owned
<1>3. CASE Cleanup \/ CleanupFails
  <2> DEFINE t == job.task
             d == link[t][job.at]
  <2>1. /\ job \in [kind : {"finish", "close"}, task : Tasks, at : Nat, kept : SUBSET Trees]
        /\ card[t].state = "done" /\ job.at \in 1 .. Len(Start[t]) + 1
        /\ job.at <= Len(card[t].trees)
    BY <1>1, <1>3, JobKinds DEF Cleanup, CleanupFails, Ending, Owned, RemovalOwn
  <2>2. Own(t, link[t]) /\ Own(t, card[t].trees)
    BY <2>1 DEF Owned, CardOwn
  <2>3. job.at \in 1 .. Len(Start[t]) /\ d \in Trees
    BY <2>1, <2>2, Owns DEF Own
  <2>4. \/ job' = [job EXCEPT !.at = @ + 1]
        \/ job' = [job EXCEPT !.at = @ + 1, !.kept = @ \cup {d}]
    BY <1>3 DEF Cleanup, CleanupFails
  <2>5. job.kept \cup {d} \in SUBSET Trees
    BY <2>1, <2>3
  <2>6. /\ job' \in [kind : {"finish", "close"}, task : Tasks, at : Nat, kept : SUBSET Trees]
        /\ job'.task = t /\ job'.at = job.at + 1
    <3>1. CASE job' = [job EXCEPT !.at = @ + 1]
      BY <2>1, <3>1
    <3>2. CASE job' = [job EXCEPT !.at = @ + 1, !.kept = @ \cup {d}]
      <4> DEFINE K == job.kept \cup {d}
      <4>1. K \in SUBSET Trees /\ job.at + 1 \in Nat
        BY <2>1, <2>5
      <4>2. job' = [kind |-> job.kind, task |-> job.task, at |-> job.at + 1, kept |-> K]
        BY <2>1, <3>2
      <4> HIDE DEF d, K
      <4> QED
        BY <2>1, <4>1, <4>2
    <3> QED
      BY <2>4, <3>1, <3>2
  <2>7. job' \in Job
    BY <2>6 DEF Job
  <2>8. tree' \in [Trees -> {"none", "clean", "dirty"}]
    BY <1>3, <2>3 DEF Cleanup, CleanupFails, TypeOK
  <2>9. fails' \in 0 .. MaxFails
    BY <1>3, BoundAssumption DEF Cleanup, CleanupFails, Fails, TypeOK
  <2>10. up' /\ card' = card /\ link' = link /\ record' = record
    BY <1>1, <1>3, <2>1 DEF Cleanup, CleanupFails, NoJob
  <2>11. TypeOK'
    BY <2>7, <2>8, <2>9, <2>10 DEF TypeOK
  <2>12. job'.at \in 1 .. Len(Start[t]) + 1
    BY <2>3, <2>6, Owns, <2>2
  <2>13. LaunchOwn' /\ RemovalOwn'
    BY <2>1, <2>6, <2>10, <2>12 DEF LaunchOwn, RemovalOwn
  <2> QED
    BY <2>10, <2>11, <2>13 DEF Owned
<1>4. CASE Ended
  <2>1. job.task \in Tasks /\ up
    BY <1>1, <1>4, JobKinds DEF Ended, Ending
  <2>2. /\ card' = card \/ card' = [card EXCEPT ![job.task] = NoCard]
        /\ record' = Persisted(card')
    BY <1>4 DEF Ended
  <2>3. NoCard \in Card /\ NoCard.state = "none"
    BY DEF NoCard, Card
  <2>4. card' \in [Tasks -> Card] /\ \A u \in Tasks : CardOwn(u, card'[u])
    BY <2>1, <2>2, <2>3 DEF TypeOK, Owned, CardOwn
  <2>5. record' \in [Tasks -> Card] /\ \A u \in Tasks : CardOwn(u, record'[u])
    BY <2>2, <2>4, PersistedTyped DEF TypeOK, Owned
  <2>6. TypeOK'
    BY <1>1, <1>4, <2>1, <2>4, <2>5 DEF Ended, TypeOK
  <2>7. LaunchOwn' /\ RemovalOwn'
    BY <1>1, <1>4 DEF Ended, LaunchOwn, RemovalOwn
  <2> QED
    BY <1>4, <2>4, <2>5, <2>6, <2>7 DEF Ended, Owned
<1> QED
  BY <1>2, <1>3, <1>4

\* So do the end of the daemon and its start: a record becomes the card it was.
LEMMA DaemonKeeps ==
  ASSUME TypeOK, Owned, Stop \/ Crash \/ Boot
  PROVE  TypeOK' /\ Owned'
<1>1. /\ NoJob \in Job /\ NoJob.kind = "none"
      /\ NoCard \in Card /\ NoCard.state = "none"
  BY DEF NoJob, Job, NoCard, Card
<1>2. CASE Stop \/ Crash
  <2>1. /\ card' = [t \in Tasks |-> NoCard] /\ job' = NoJob /\ up' = FALSE
        /\ record' = Persisted(card) \/ record' = record
        /\ UNCHANGED <<link, tree, fails>>
    BY <1>2 DEF Stop, Crash
  <2>2. record' \in [Tasks -> Card] /\ \A u \in Tasks : CardOwn(u, record'[u])
    BY <2>1, PersistedTyped DEF TypeOK, Owned
  <2>3. card' \in [Tasks -> Card] /\ \A u \in Tasks : card'[u] = NoCard /\ CardOwn(u, card'[u])
    BY <1>1, <2>1 DEF CardOwn
  <2>4. TypeOK'
    BY <1>1, <2>1, <2>2, <2>3 DEF TypeOK
  <2>5. LaunchOwn' /\ RemovalOwn'
    BY <1>1, <2>1 DEF LaunchOwn, RemovalOwn
  <2> QED
    BY <2>1, <2>2, <2>3, <2>4, <2>5 DEF Owned
<1>3. CASE Boot
  <2>1. PICK failing \in SUBSET {t \in Tasks : Resumable(record[t])} :
          /\ Fails(Cardinality(failing))
          /\ card' = [t \in Tasks |->
               IF record[t] = NoCard THEN NoCard
               ELSE [record[t] EXCEPT !.state =
                       IF Resumable(record[t]) /\ t \notin failing THEN "live" ELSE "done"]]
    BY <1>3 DEF Boot
  <2>2. job' = NoJob /\ up' = TRUE /\ UNCHANGED <<link, tree, record>>
    BY <1>3 DEF Boot, TypeOK
  <2>3. ASSUME NEW t \in Tasks PROVE card'[t] \in Card /\ CardOwn(t, card'[t])
    <3>1. record[t] \in Card /\ CardOwn(t, record[t])
      BY DEF TypeOK, Owned
    <3>2. CASE record[t] = NoCard
      BY <1>1, <2>1, <3>2 DEF CardOwn
    <3>3. CASE record[t] # NoCard
      <4>1. \E s \in {"live", "done"} : card'[t] = [record[t] EXCEPT !.state = s]
        BY <2>1, <3>3
      <4> PICK s \in {"live", "done"} : card'[t] = [record[t] EXCEPT !.state = s]
        BY <4>1
      <4>2. /\ [record[t] EXCEPT !.state = s] \in Card
            /\ [record[t] EXCEPT !.state = s].trees = record[t].trees
        BY <3>1, <3>3, CardState
      <4>3. [record[t] EXCEPT !.state = s].state # "none" /\ record[t].state # "none"
        BY <3>1, <3>3, CardState, CardKinds
      <4> QED
        BY <3>1, <4>2, <4>3 DEF CardOwn
    <3> QED
      BY <3>2, <3>3
  <2>4. card' \in [Tasks -> Card]
    BY <2>1, <2>3
  <2>5. fails' \in 0 .. MaxFails
    <3>1. failing \in SUBSET Tasks /\ IsFiniteSet(Tasks)
      BY <2>1, BoundAssumption
    <3>2. Cardinality(failing) \in Nat
      BY <3>1, FS_Subset, FS_CardinalityType
    <3> QED
      BY <2>1, <3>2, BoundAssumption DEF Fails, TypeOK
  <2>6. TypeOK'
    BY <1>1, <2>2, <2>4, <2>5 DEF TypeOK
  <2>7. LaunchOwn' /\ RemovalOwn'
    BY <1>1, <2>2 DEF LaunchOwn, RemovalOwn
  <2> QED
    BY <2>2, <2>3, <2>6, <2>7 DEF Owned
<1> QED
  BY <1>2, <1>3

\* So do claude, which leaves its worktrees where they are, and setup, which renames
\* a branch to one of the same task.
LEMMA OutsideKeeps ==
  ASSUME TypeOK, Owned, NEW t \in Tasks, Work(t) \/ Exit(t) \/ Rename(t)
  PROVE  TypeOK' /\ Owned'
<1>1. up \in BOOLEAN /\ (~up => \A u \in Tasks : card[u] = NoCard)
  BY DEF TypeOK
<1>2. CASE Work(t)
  <2>1. card[t] \in Card /\ Live(t)
    BY <1>2 DEF Work, TypeOK
  <2>2. card[t].trees \in Seq(Trees)
    BY <2>1, CardKinds DEF Live
  <2>3. PICK d \in Trees : tree[d] # "none"
          /\ tree' = [tree EXCEPT ![d] = IF @ = "clean" THEN "dirty" ELSE "clean"]
    <3>1. PICK k \in DOMAIN card[t].trees :
            /\ tree[card[t].trees[k]] # "none"
            /\ tree' = [tree EXCEPT ![card[t].trees[k]] = IF @ = "clean" THEN "dirty" ELSE "clean"]
      BY <1>2 DEF Work
    <3>2. card[t].trees[k] \in Trees
      BY <2>2
    <3> QED
      BY <3>1, <3>2
  <2>4. /\ tree' \in [Trees -> {"none", "clean", "dirty"}]
        /\ \A e \in Trees : tree[e] # "none" => tree'[e] # "none"
    BY <2>3 DEF TypeOK
  <2>5. TypeOK'
    BY <1>2, <2>4 DEF Work, TypeOK
  <2>6. LaunchOwn'
    <3>1. job.kind = "launch" => job.trees \in Seq(Trees)
      BY JobKinds DEF TypeOK
    <3>2. job.kind = "launch" /\ Len(job.trees) > 0 => job.trees[1] \in Trees
      BY <3>1
    <3> QED
      BY <1>2, <2>4, <3>2 DEF Work, Owned, LaunchOwn, Live
  <2>7. RemovalOwn'
    BY <1>2 DEF Work, Owned, RemovalOwn, Live
  <2> QED
    BY <1>2, <2>5, <2>6, <2>7 DEF Work, Owned
<1>3. CASE Exit(t)
  <2>1. card[t] \in Card /\ card[t].state = "live"
    BY <1>3 DEF Exit, TypeOK, Live
  <2>2. /\ [card[t] EXCEPT !.state = "done"] \in Card
        /\ [card[t] EXCEPT !.state = "done"].state = "done"
        /\ [card[t] EXCEPT !.state = "done"].trees = card[t].trees
    BY <2>1, CardKinds, CardState
  <2>3. card' = [card EXCEPT ![t] = [card[t] EXCEPT !.state = "done"]]
    BY <1>3 DEF Exit
  <2>4. /\ card' \in [Tasks -> Card] /\ card'[t].state = "done"
        /\ \A u \in Tasks : CardOwn(u, card'[u])
        /\ \A u \in Tasks : u # t => card'[u] = card[u]
    BY <2>1, <2>2, <2>3 DEF TypeOK, Owned, CardOwn
  <2>5. up
    BY <1>1, <2>1 DEF NoCard
  <2>6. TypeOK'
    BY <1>3, <2>4, <2>5 DEF Exit, TypeOK
  <2>7. job.kind # "none" => job.task \in Tasks
    BY JobKinds DEF TypeOK
  <2>8. LaunchOwn' /\ RemovalOwn'
    BY <1>3, <2>1, <2>4, <2>7 DEF Exit, Owned, LaunchOwn, RemovalOwn, Live
  <2> QED
    BY <1>3, <2>4, <2>6, <2>8 DEF Exit, Owned
<1>4. CASE Rename(t)
  <2>1. PICK k \in DOMAIN link[t] : link' = [link EXCEPT ![t][k] = Renamed[t][k]]
    BY <1>4 DEF Rename
  <2>2. /\ Own(t, link[t]) /\ link \in [Tasks -> Seq(Trees)]
        /\ Renamed[t] \in Seq(Trees) /\ Len(Renamed[t]) = Len(Start[t])
    BY BranchAssumption DEF Owned, TypeOK
  <2>3. k \in 1 .. Len(Start[t]) /\ Renamed[t][k] \in Trees
    BY <2>2 DEF Own
  <2>4. /\ link' \in [Tasks -> Seq(Trees)]
        /\ link'[t] = [link[t] EXCEPT ![k] = Renamed[t][k]]
        /\ \A u \in Tasks : u # t => link'[u] = link[u]
    BY <2>1, <2>2, <2>3
  <2>5. Own(t, link'[t])
    BY <2>2, <2>3, <2>4 DEF Own
  <2>6. \A u \in Tasks : Own(u, link'[u])
    BY <2>4, <2>5 DEF Owned
  <2>7. TypeOK'
    BY <1>4, <2>4 DEF Rename, TypeOK
  <2>8. LaunchOwn' /\ RemovalOwn'
    BY <1>4 DEF Rename, Owned, LaunchOwn, RemovalOwn, Live
  <2> QED
    BY <1>4, <2>6, <2>7, <2>8 DEF Rename, Owned
<1> QED
  BY <1>2, <1>3, <1>4

\* Every step keeps types and owners.
LEMMA OwnedStep == TypeOK /\ Owned /\ [Next]_vars => TypeOK' /\ Owned'
<1> SUFFICES ASSUME TypeOK, Owned, [Next]_vars PROVE TypeOK' /\ Owned'
  OBVIOUS
<1>1. CASE Next
  BY <1>1, PlayKeeps, EndKeeps, DaemonKeeps, OutsideKeeps DEF Next
<1>2. CASE UNCHANGED vars
  BY <1>2 DEF vars, TypeOK, Owned, LaunchOwn, RemovalOwn, Live
<1> QED
  BY <1>1, <1>2

\* Type correctness: the daemon is never in the middle of something it has no
\* variables for, and a daemon that is down holds nothing.
THEOREM TypeCorrect == Spec => []TypeOK
<1>1. Init => TypeOK /\ Owned
  BY OwnedInit
<1>2. TypeOK /\ Owned /\ [Next]_vars => (TypeOK /\ Owned)'
  BY OwnedStep
<1> QED
  BY <1>1, <1>2, PTL DEF Spec

-----------------------------------------------------------------------------
\* A live session keeps its directory.

\* Sessions that were live with the same worktrees keep their directory if it is
\* not taken away from them.
LEMMA CwdKept ==
  ASSUME LiveHasCwd,
         \A t \in Tasks : card'[t].state = "live" =>
           /\ card[t].state = "live" /\ card'[t].trees = card[t].trees
           /\ tree[card[t].trees[1]] # "none" => tree'[card[t].trees[1]] # "none"
  PROVE  LiveHasCwd'
  BY DEF LiveHasCwd, Live

\* A worktree that is removed at a place of a task without a live session is
\* nobody's directory.
LEMMA RemovalSpares ==
  ASSUME TypeOK, Owned, LiveHasCwd,
         NEW u \in Tasks, ~Live(u), NEW k \in 1 .. Len(Start[u]),
         card' = card,
         tree' = tree \/ tree' = [tree EXCEPT ![link[u][k]] = "none"]
  PROVE  LiveHasCwd'
<1>1. ASSUME NEW t \in Tasks, card[t].state = "live", tree[card[t].trees[1]] # "none"
      PROVE  tree'[card[t].trees[1]] # "none"
  <2>1. t # u
    BY <1>1 DEF Live
  <2>2. Own(t, card[t].trees) /\ Own(u, link[u])
    BY <1>1 DEF Owned, CardOwn
  <2>3. 1 \in 1 .. Len(Start[t]) /\ card[t].trees[1] \in Trees
    BY <2>2, Owns
  <2>4. card[t].trees[1] # link[u][k]
    BY <2>1, <2>2, <2>3, Apart
  <2> QED
    BY <1>1, <2>3, <2>4 DEF TypeOK
<1> QED
  BY <1>1, CwdKept

\* No step takes the directory of a live session, or opens one without.
LEMMA CwdStep == TypeOK /\ Owned /\ LiveHasCwd /\ [Next]_vars => LiveHasCwd'
<1> SUFFICES ASSUME TypeOK, Owned, LiveHasCwd, [Next]_vars PROVE LiveHasCwd'
  OBVIOUS
<1> USE DEF Live
\* Steps that leave cards and worktrees alone.
<1>1. ASSUME UNCHANGED <<card, tree>> PROVE LiveHasCwd'
  BY <1>1 DEF LiveHasCwd
\* Steps that close cards.
<1>2. ASSUME tree' = tree,
             \A t \in Tasks : card'[t].state = "live" => card'[t] = card[t]
      PROVE  LiveHasCwd'
  BY <1>2, CwdKept
<1>3. NoCard.state = "none"
  BY DEF NoCard
<1>4. ASSUME NEW t \in Tasks, Launch(t) \/ Rename(t) PROVE LiveHasCwd'
  BY <1>1, <1>4 DEF Launch, Rename
<1>5. CASE LaunchFails \/ SpawnFails \/ UndoFails \/ CleanupFails
  BY <1>1, <1>5 DEF LaunchFails, SpawnFails, UndoFails, CleanupFails
<1>6. CASE AddTree
  <2>1. PICK d : tree' = [tree EXCEPT ![d] = IF @ = "none" THEN "clean" ELSE @]
    BY <1>6 DEF AddTree
  <2>2. \A e \in Trees : tree[e] # "none" => tree'[e] # "none"
    BY <2>1 DEF TypeOK
  <2>3. \A t \in Tasks : card[t].state = "live" => card[t].trees[1] \in Trees
    BY Owns DEF Owned, CardOwn
  <2> QED
    BY <1>6, <2>2, <2>3, CwdKept DEF AddTree
<1>7. CASE Spawn
  <2>1. /\ job.task \in Tasks /\ job.trees \in Seq(Trees)
        /\ Own(job.task, job.links) /\ Len(job.trees) = Len(job.links)
        /\ Len(job.trees) > 0 => tree[job.trees[1]] # "none"
    BY <1>7, JobKinds DEF Spawn, Launching, Made, Owned, LaunchOwn, TypeOK
  <2>2. Len(job.trees) > 0
    BY <2>1, Owns DEF Own
  <2>3. /\ card' = [card EXCEPT ![job.task] = [state |-> "live", trees |-> job.trees]]
        /\ tree' = tree
    BY <1>7 DEF Spawn
  <2> QED
    BY <2>1, <2>2, <2>3 DEF LiveHasCwd, TypeOK
<1>8. CASE Undo
  <2>1. /\ job.task \in Tasks /\ ~Live(job.task) /\ job.at \in 1 .. Len(Start[job.task])
    BY <1>8, JobKinds DEF Undo, Owned, RemovalOwn, TypeOK
  <2>2. /\ card' = card
        /\ tree' = tree \/ tree' = [tree EXCEPT ![link[job.task][job.at]] = "none"]
    BY <1>8 DEF Undo
  <2> QED
    BY <2>1, <2>2, RemovalSpares
<1>9. CASE Cleanup
  <2>1. /\ job.task \in Tasks /\ card[job.task].state = "done"
        /\ job.at \in 1 .. Len(Start[job.task]) + 1 /\ job.at <= Len(card[job.task].trees)
    BY <1>9, JobKinds DEF Cleanup, Ending, Owned, RemovalOwn, TypeOK
  <2>2. Own(job.task, card[job.task].trees) /\ Own(job.task, link[job.task])
    BY <2>1 DEF Owned, CardOwn
  <2>3. job.at \in 1 .. Len(Start[job.task]) /\ link[job.task][job.at] \in Trees
    BY <2>1, <2>2, Owns DEF Own
  <2>4. /\ card' = card
        /\ tree' = tree \/ tree' = [tree EXCEPT ![link[job.task][job.at]] = "none"]
    BY <1>9, <2>3 DEF Cleanup, TypeOK
  <2> QED
    BY <2>1, <2>3, <2>4, RemovalSpares
<1>10. CASE Ended
  <2>1. tree' = tree /\ (card' = card \/ card' = [card EXCEPT ![job.task] = NoCard])
    BY <1>10 DEF Ended
  <2>2. \A t \in Tasks : card'[t] = card[t] \/ card'[t] = NoCard
    BY <2>1 DEF TypeOK
  <2> QED
    BY <1>2, <1>3, <2>1, <2>2
<1>11. CASE Stop \/ Crash
  BY <1>2, <1>3, <1>11 DEF Stop, Crash
<1>12. CASE Boot
  <2>1. PICK failing :
          card' = [t \in Tasks |->
            IF record[t] = NoCard THEN NoCard
            ELSE [record[t] EXCEPT !.state =
                    IF Resumable(record[t]) /\ t \notin failing THEN "live" ELSE "done"]]
    BY <1>12 DEF Boot
  <2>2. tree' = tree
    BY <1>12 DEF Boot
  <2>3. ASSUME NEW t \in Tasks, card'[t].state = "live"
        PROVE  tree'[card'[t].trees[1]] # "none"
    <3>1. record[t] \in Card /\ record[t] # NoCard
      BY <1>3, <2>1, <2>3 DEF TypeOK
    <3>2. /\ [record[t] EXCEPT !.state = "done"].state = "done"
          /\ [record[t] EXCEPT !.state = "live"].trees = record[t].trees
      BY <3>1, CardState
    <3>3. Resumable(record[t]) /\ card'[t] = [record[t] EXCEPT !.state = "live"]
      BY <2>1, <2>3, <3>1, <3>2
    <3> QED
      BY <2>2, <3>2, <3>3 DEF Resumable
  <2> QED
    BY <2>3 DEF LiveHasCwd
<1>13. ASSUME NEW t \in Tasks, NEW kind \in {"finish", "close"}, End(t, kind) PROVE LiveHasCwd'
  <2>1. card[t] \in Card /\ card[t] # NoCard /\ tree' = tree
    BY <1>13 DEF End, TypeOK
  <2>2. [card[t] EXCEPT !.state = "done"].state = "done"
    BY <2>1, CardState
  <2>3. card' = [card EXCEPT ![t] = [card[t] EXCEPT !.state = "done"]]
    BY <1>13 DEF End
  <2> QED
    BY <1>2, <2>1, <2>2, <2>3 DEF TypeOK
<1>14. ASSUME NEW t \in Tasks, Exit(t) PROVE LiveHasCwd'
  <2>1. card[t] \in Card /\ card[t] # NoCard /\ tree' = tree
    BY <1>3, <1>14 DEF Exit, TypeOK
  <2>2. [card[t] EXCEPT !.state = "done"].state = "done"
    BY <2>1, CardState
  <2>3. card' = [card EXCEPT ![t] = [card[t] EXCEPT !.state = "done"]]
    BY <1>14 DEF Exit
  <2> QED
    BY <1>2, <2>1, <2>2, <2>3 DEF TypeOK
<1>15. ASSUME NEW t \in Tasks, Work(t) PROVE LiveHasCwd'
  <2>1. PICK d : tree' = [tree EXCEPT ![d] = IF @ = "clean" THEN "dirty" ELSE "clean"]
    BY <1>15 DEF Work
  <2>2. \A e \in Trees : tree[e] # "none" => tree'[e] # "none"
    BY <2>1 DEF TypeOK
  <2>3. \A u \in Tasks : card[u].state = "live" => card[u].trees[1] \in Trees
    BY Owns DEF Owned, CardOwn
  <2> QED
    BY <1>15, <2>2, <2>3, CwdKept DEF Work
<1>16. CASE UNCHANGED vars
  BY <1>1, <1>16 DEF vars
<1> QED
  BY <1>4, <1>5, <1>6, <1>7, <1>8, <1>9, <1>10, <1>11, <1>12, <1>13, <1>14, <1>15, <1>16
     DEF Next

\* A live session has the directory it runs in, in every state: after a crash between
\* the removal of a worktree and the record of it, after the rollback of a play of
\* another task, and after a rename.
THEOREM Directory == Spec => []LiveHasCwd
<1>1. Init => IInv
  <2>1. Init => LiveHasCwd
    BY DEF Init, LiveHasCwd, Live, NoCard
  <2> QED
    BY <2>1, OwnedInit DEF IInv
<1>2. IInv /\ [Next]_vars => IInv'
  BY OwnedStep, CwdStep DEF IInv
<1>3. IInv => LiveHasCwd
  BY DEF IInv
<1> QED
  BY <1>1, <1>2, <1>3, PTL DEF Spec

-----------------------------------------------------------------------------
\* The end of a session cleans up.

\* A branch that is not renamed yet is what any sequence of the task has in its place.
Held(t, s) ==
  \A k \in 1 .. Len(Start[t]) : link[t][k] = Start[t][k] => s[k] = Start[t][k]

CardHeld(t, c) == c.state # "none" => Held(t, c.trees)

AllHeld ==
  /\ \A t \in Tasks : CardHeld(t, card[t]) /\ CardHeld(t, record[t])
  /\ job.kind = "launch" => Held(job.task, job.links)

\* The places a clean-up has been at: what it should have removed is gone, holds
\* work, or is kept by git.
Cleaned ==
  job.kind \in {"finish", "close"} =>
    \A k \in 1 .. Len(Start[job.task]) : LET d == card[job.task].trees[k] IN
      k < job.at /\ link[job.task][k] = d => tree[d] # "clean" \/ d \in job.kept

CInv == TypeOK /\ Owned /\ AllHeld /\ Cleaned

\* Renames go one way, and only they change links.
LEMMA LinksForward ==
  ASSUME TypeOK, Owned, [Next]_vars, NEW t \in Tasks, NEW k \in 1 .. Len(Start[t]),
         link'[t][k] = Start[t][k]
  PROVE  link[t][k] = Start[t][k]
<1>1. CASE link' = link
  BY <1>1
<1>2. ASSUME NEW u \in Tasks, Rename(u) PROVE link[t][k] = Start[t][k]
  <2>1. PICK i \in DOMAIN link[u] : link' = [link EXCEPT ![u][i] = Renamed[u][i]]
    BY <1>2 DEF Rename
  <2>2. /\ link \in [Tasks -> Seq(Trees)] /\ Start[t] \in Seq(Trees)
        /\ Own(t, link[t])
    BY BranchAssumption DEF TypeOK, Owned
  <2>3. k \in DOMAIN link[t] /\ k \in DOMAIN Start[t]
    BY <2>2 DEF Own
  <2>4. CASE u = t /\ i = k
    <3>1. link'[t][k] = Renamed[t][k]
      BY <2>1, <2>2, <2>3, <2>4
    <3>2. Start[t][k] # Renamed[t][k]
      BY <2>3, BranchAssumption
    <3> QED
      BY <3>1, <3>2
  <2>5. CASE ~(u = t /\ i = k)
    <3>1. link'[t][k] = link[t][k]
      BY <2>1, <2>2, <2>3, <2>5
    <3> QED
      BY <3>1
  <2> QED
    BY <2>4, <2>5
<1>3. link' = link \/ \E u \in Tasks : Rename(u)
  BY DEF Next, vars, Launch, AddTree, LaunchFails, Spawn, SpawnFails, Undo, UndoFails, End,
         Cleanup, CleanupFails, Ended, Stop, Crash, Boot, Work, Exit
<1> QED
  BY <1>1, <1>2, <1>3

\* A card after a step has the worktrees of a card, of a record or of a launch.
LEMMA CardsHeld ==
  ASSUME TypeOK, Owned, AllHeld, [Next]_vars, NEW t \in Tasks
  PROVE  CardHeld(t, card'[t])
<1>1. CASE card'[t] = card[t] \/ card'[t] = NoCard
  BY <1>1 DEF AllHeld, CardHeld, NoCard
<1>2. CASE Spawn
  <2> DEFINE u == job.task
  <2>1. /\ u \in Tasks /\ Own(u, job.links) /\ Len(job.trees) = Len(job.links)
        /\ \A k \in 1 .. Len(job.trees) : job.trees[k] = job.links[k]
        /\ Held(u, job.links)
    BY <1>2, JobKinds DEF Spawn, Launching, Made, Owned, LaunchOwn, AllHeld, TypeOK
  <2>2. Held(u, job.trees)
    BY <2>1 DEF Held, Own
  <2>3. card' = [card EXCEPT ![u] = [state |-> "live", trees |-> job.trees]]
    BY <1>2 DEF Spawn
  <2>4. CASE u = t
    <3>1. card'[t].trees = job.trees
      BY <2>3, <2>4 DEF TypeOK
    <3> QED
      BY <2>2, <2>4, <3>1 DEF CardHeld
  <2>5. CASE u # t
    BY <1>1, <2>3, <2>5 DEF TypeOK
  <2> QED
    BY <2>4, <2>5
<1>3. CASE card[t] # NoCard /\ \E s \in {"live", "done"} : card'[t] = [card[t] EXCEPT !.state = s]
  <2> PICK s \in {"live", "done"} : card'[t] = [card[t] EXCEPT !.state = s]
    BY <1>3
  <2>1. card'[t].trees = card[t].trees /\ card[t].state # "none"
    BY <1>3, CardKinds, CardState DEF TypeOK
  <2> QED
    BY <2>1 DEF AllHeld, CardHeld
<1>4. CASE Boot
  <2>1. PICK failing :
          card' = [v \in Tasks |->
            IF record[v] = NoCard THEN NoCard
            ELSE [record[v] EXCEPT !.state =
                    IF Resumable(record[v]) /\ v \notin failing THEN "live" ELSE "done"]]
    BY <1>4 DEF Boot
  <2>2. CASE record[t] = NoCard
    BY <1>1, <2>1, <2>2
  <2>3. CASE record[t] # NoCard
    <3>1. PICK s \in {"live", "done"} : card'[t] = [record[t] EXCEPT !.state = s]
      BY <2>1, <2>3
    <3>2. card'[t].trees = record[t].trees /\ record[t].state # "none"
      BY <2>3, <3>1, CardKinds, CardState DEF TypeOK
    <3> QED
      BY <3>2 DEF AllHeld, CardHeld
  <2> QED
    BY <2>2, <2>3
<1>5. ASSUME NEW u \in Tasks, Exit(u) \/ \E kind \in {"finish", "close"} : End(u, kind)
      PROVE  CardHeld(t, card'[t])
  <2>1. card' = [card EXCEPT ![u] = [card[u] EXCEPT !.state = "done"]] /\ card[u] # NoCard
    BY <1>5 DEF Exit, End, Live, NoCard
  <2> QED
    BY <1>1, <1>3, <2>1 DEF TypeOK
<1>6. CASE Stop \/ Crash \/ Ended
  <2>1. \/ card' = [u \in Tasks |-> NoCard] \/ card' = card
        \/ card' = [card EXCEPT ![job.task] = NoCard]
    BY <1>6 DEF Stop, Crash, Ended
  <2> QED
    BY <1>1, <2>1 DEF TypeOK
<1>7. card' = card \/ Spawn \/ Boot \/ Stop \/ Crash \/ Ended
        \/ \E u \in Tasks : Exit(u) \/ \E kind \in {"finish", "close"} : End(u, kind)
  BY DEF Next, vars, Launch, AddTree, LaunchFails, SpawnFails, Undo, UndoFails, Cleanup,
         CleanupFails, Work, Rename
<1> QED
  BY <1>1, <1>2, <1>4, <1>5, <1>6, <1>7

\* A record after a step is a record or a card.
LEMMA RecordsHeld ==
  ASSUME TypeOK, Owned, AllHeld, [Next]_vars, NEW t \in Tasks
  PROVE  CardHeld(t, record'[t])
<1>1. record' \in {record, card, card'}
  BY DEF Next, vars, Persisted, Launch, AddTree, LaunchFails, Spawn, SpawnFails, Undo,
         UndoFails, End, Cleanup, CleanupFails, Ended, Stop, Crash, Boot, Work, Exit, Rename
<1> QED
  BY <1>1, CardsHeld DEF AllHeld

\* A launch after a step has the branches it had, or has just read them.
LEMMA LaunchHeld ==
  ASSUME TypeOK, Owned, AllHeld, [Next]_vars, job'.kind = "launch"
  PROVE  job'.task \in Tasks /\ Held(job'.task, job'.links)
<1>1. CASE job' = job
  BY <1>1, JobKinds DEF TypeOK, AllHeld
<1>2. ASSUME NEW t \in Tasks, Launch(t) PROVE job'.task \in Tasks /\ Held(job'.task, job'.links)
  BY <1>2 DEF Launch, Held
<1>3. CASE AddTree
  <2>1. job \in [kind : {"launch"}, task : Tasks, links : Seq(Trees), trees : Seq(Trees)]
    BY <1>3, JobKinds DEF AddTree, Launching, TypeOK
  <2>2. job'.task = job.task /\ job'.links = job.links /\ job.kind = "launch"
    BY <1>3, <2>1 DEF AddTree
  <2> QED
    BY <2>1, <2>2 DEF AllHeld
<1>4. CASE SpawnFails
  BY <1>4 DEF SpawnFails
<1>5. CASE Undo \/ Cleanup \/ CleanupFails
  <2>1. /\ \/ job \in [kind : {"undo"}, task : Tasks, at : Nat]
           \/ job \in [kind : {"finish", "close"}, task : Tasks, at : Nat, kept : SUBSET Trees]
        /\ job.kind # "launch"
    BY <1>5, JobKinds DEF Undo, Cleanup, CleanupFails, Ending, TypeOK
  <2>2. job' = NoJob \/ job'.kind = job.kind
    BY <1>5, <2>1 DEF Undo, Cleanup, CleanupFails
  <2> QED
    BY <2>1, <2>2 DEF NoJob
<1>6. ASSUME NEW t \in Tasks, NEW kind \in {"finish", "close"}, End(t, kind)
      PROVE  job'.kind # "launch"
  BY <1>6 DEF End
<1>7. CASE job' = NoJob
  BY <1>7 DEF NoJob
<1>8. \/ job' = job \/ job' = NoJob \/ AddTree \/ SpawnFails \/ Undo \/ Cleanup \/ CleanupFails
      \/ \E t \in Tasks : Launch(t) \/ \E kind \in {"finish", "close"} : End(t, kind)
  BY DEF Next, vars, LaunchFails, UndoFails, Spawn, Ended, Stop, Crash, Boot, Work, Exit, Rename
<1> QED
  BY <1>1, <1>2, <1>3, <1>4, <1>5, <1>6, <1>7, <1>8

\* No step makes a sequence hold an older name than the task's file does.
LEMMA HeldStep == TypeOK /\ Owned /\ AllHeld /\ [Next]_vars => AllHeld'
<1> SUFFICES ASSUME TypeOK, Owned, AllHeld, [Next]_vars PROVE AllHeld'
  OBVIOUS
<1>1. \A t \in Tasks : CardHeld(t, card'[t]) /\ CardHeld(t, record'[t])
  BY CardsHeld, RecordsHeld
<1>2. \A t \in Tasks : \A k \in 1 .. Len(Start[t]) :
        link'[t][k] = Start[t][k] => link[t][k] = Start[t][k]
  BY LinksForward
<1>3. \A t \in Tasks : CardHeld(t, card[t])' /\ CardHeld(t, record[t])'
  BY <1>1, <1>2 DEF CardHeld, Held
<1>4. job'.kind = "launch" => Held(job.task, job.links)'
  BY <1>2, LaunchHeld DEF Held
<1> QED
  BY <1>3, <1>4 DEF AllHeld

\* While a clean-up goes on, nobody else makes its places worse: its worktrees are no
\* live session's, and no branch gets the name a place was created with.
LEMMA OthersClean ==
  ASSUME TypeOK, Owned, AllHeld, Cleaned, [Next]_vars,
         job' = job, job.kind \in {"finish", "close"}, NEW k \in 1 .. Len(Start[job.task]),
         k < job.at, link'[job.task][k] = card'[job.task].trees[k]
  PROVE  /\ card'[job.task] = card[job.task]
         /\ \/ tree'[card[job.task].trees[k]] # "clean"
            \/ card[job.task].trees[k] \in job.kept
<1> DEFINE t == job.task
           d == card[t].trees[k]
<1>1. /\ t \in Tasks /\ card[t].state = "done" /\ Own(t, card[t].trees) /\ Own(t, link[t])
      /\ job # NoJob /\ ~Launching /\ job.kind # "undo" /\ up
      /\ \A c \in {"none", "launch"} : job.kind # c
  BY JobKinds DEF Owned, RemovalOwn, CardOwn, TypeOK, Launching
<1>2. \/ \E u \in Tasks : Work(u) \/ Exit(u) \/ Rename(u)
      \/ card' = card /\ link' = link /\ tree' = tree
  <2>1. ASSUME Cleanup \/ CleanupFails PROVE FALSE
    <3>1. job \in [kind : {"finish", "close"}, task : Tasks, at : Nat, kept : SUBSET Trees]
      BY JobKinds DEF TypeOK
    <3>2. job'.at = job.at + 1
      BY <2>1, <3>1 DEF Cleanup, CleanupFails
    <3> QED
      BY <3>1, <3>2
  <2>2. ASSUME Ended \/ Stop \/ Crash \/ Boot PROVE FALSE
    BY <1>1, <2>2 DEF Ended, Stop, Crash, Boot
  <2>3. ASSUME AddTree \/ LaunchFails \/ Spawn \/ SpawnFails \/ Undo \/ UndoFails PROVE FALSE
    BY <1>1, <2>3 DEF AddTree, LaunchFails, Spawn, SpawnFails, Undo, UndoFails, Launching
  <2>4. ASSUME NEW u \in Tasks, Launch(u) \/ End(u, "finish") \/ End(u, "close") PROVE FALSE
    BY <1>1, <2>4 DEF Launch, End
  <2> QED
    BY <2>1, <2>2, <2>3, <2>4 DEF Next, vars
<1>3. d \in Trees
  BY <1>1, Owns
<1>4. ASSUME link[t][k] = d PROVE tree[d] # "clean" \/ d \in job.kept
  BY <1>4 DEF Cleaned
<1>5. CASE card' = card /\ link' = link /\ tree' = tree
  BY <1>4, <1>5
<1>6. ASSUME NEW u \in Tasks, Work(u)
      PROVE  card'[t] = card[t] /\ (tree'[d] # "clean" \/ d \in job.kept)
  <2>1. card[u].state = "live" /\ Own(u, card[u].trees) /\ u # t
    BY <1>1, <1>6 DEF Work, Live, Owned, CardOwn
  <2>2. PICK i \in DOMAIN card[u].trees :
          tree' = [tree EXCEPT ![card[u].trees[i]] = IF @ = "clean" THEN "dirty" ELSE "clean"]
    BY <1>6 DEF Work
  <2>3. i \in 1 .. Len(Start[u])
    BY <2>1, <2>2 DEF Own
  <2>4. d # card[u].trees[i]
    BY <1>1, <2>1, <2>3, Apart
  <2>5. tree'[d] = tree[d]
    <3> HIDE DEF d
    <3> QED
      BY <1>3, <2>2, <2>4 DEF TypeOK
  <2> QED
    BY <1>4, <1>6, <2>5 DEF Work
<1>7. ASSUME NEW u \in Tasks, Exit(u)
      PROVE  card'[t] = card[t] /\ (tree'[d] # "clean" \/ d \in job.kept)
  <2>1. u # t /\ card'[t] = card[t] /\ tree' = tree /\ link' = link
    BY <1>1, <1>7 DEF Exit, Live, TypeOK
  <2> QED
    BY <1>4, <2>1
<1>8. ASSUME NEW u \in Tasks, Rename(u)
      PROVE  card'[t] = card[t] /\ (tree'[d] # "clean" \/ d \in job.kept)
  <2>1. card' = card /\ tree' = tree
    BY <1>8 DEF Rename
  <2>2. PICK i \in DOMAIN link[u] :
          link[u][i] # Renamed[u][i] /\ link' = [link EXCEPT ![u][i] = Renamed[u][i]]
    BY <1>8 DEF Rename
  <2>3. /\ link \in [Tasks -> Seq(Trees)] /\ Start[t] \in Seq(Trees)
        /\ k \in DOMAIN link[t] /\ k \in DOMAIN Start[t]
    BY <1>1, BranchAssumption DEF TypeOK, Own
  <2>4. CASE u = t /\ i = k
    <3>1. link'[t][k] = Renamed[t][k]
      BY <2>2, <2>3, <2>4
    <3>2. link[t][k] = Start[t][k]
      BY <1>1, <2>2, <2>4 DEF Own
    <3>3. d = Start[t][k]
      BY <1>1, <3>2 DEF AllHeld, CardHeld, Held
    <3>4. Start[t][k] # Renamed[t][k]
      BY <1>1, <2>3, BranchAssumption
    <3> QED
      BY <2>1, <3>1, <3>3, <3>4
  <2>5. CASE ~(u = t /\ i = k)
    <3>1. link'[t][k] = link[t][k]
      BY <2>2, <2>3, <2>5
    <3> QED
      BY <1>4, <2>1, <3>1
  <2> QED
    BY <2>4, <2>5
<1> QED
  BY <1>2, <1>5, <1>6, <1>7, <1>8

\* A clean-up leaves its places clean one after the other, and nothing undoes it.
LEMMA CleanedStep == CInv /\ [Next]_vars => Cleaned'
<1> SUFFICES ASSUME CInv, [Next]_vars PROVE Cleaned'
  OBVIOUS
<1> USE DEF CInv
<1>1. CASE job' = job
  BY <1>1, OthersClean DEF Cleaned
<1>2. CASE job'.kind \notin {"finish", "close"}
  BY <1>2 DEF Cleaned
<1>3. ASSUME NEW t \in Tasks, NEW kind \in {"finish", "close"}, End(t, kind) PROVE Cleaned'
  <2>1. job'.at = 1
    BY <1>3 DEF End
  <2>2. job'.kind \in {"finish", "close"} => Len(Start[job'.task]) \in Nat
    BY <1>3, Owns DEF End, Owned
  <2> QED
    BY <2>1, <2>2 DEF Cleaned
<1>4. CASE Cleanup \/ CleanupFails
  <2> DEFINE t == job.task
             e == link[t][job.at]
  <2>1. /\ job \in [kind : {"finish", "close"}, task : Tasks, at : Nat, kept : SUBSET Trees]
        /\ job.at \in 1 .. Len(Start[t]) + 1 /\ card[t].state = "done"
        /\ job.at <= Len(card[t].trees)
    BY <1>4, JobKinds DEF Cleanup, CleanupFails, Ending, Owned, RemovalOwn, TypeOK
  <2>2. Own(t, card[t].trees) /\ Own(t, link[t])
    BY <2>1 DEF Owned, CardOwn
  <2>3. job.at \in 1 .. Len(Start[t]) /\ e \in Trees
    BY <2>1, <2>2, Owns DEF Own
  <2>4. card' = card /\ link' = link
    BY <1>4 DEF Cleanup, CleanupFails
  <2>5. /\ job'.task = t /\ job'.at = job.at + 1
        /\ Cleanup => job'.kept = job.kept
        /\ CleanupFails => job'.kept = job.kept \cup {e}
    <3>1. CASE Cleanup
      <4>1. job' = [job EXCEPT !.at = job.at + 1] /\ ~CleanupFails
        <5>1. job' = [job EXCEPT !.at = job.at + 1]
          BY <3>1 DEF Cleanup
        <5>2. fails' = fails /\ fails \in Nat
          BY <3>1, BoundAssumption DEF Cleanup, TypeOK
        <5> QED
          BY <5>1, <5>2 DEF CleanupFails, Fails
      <4> QED
        BY <2>1, <4>1
    <3>2. CASE CleanupFails
      <4>1. job' = [job EXCEPT !.at = @ + 1, !.kept = @ \cup {e}] /\ ~Cleanup
        <5>1. fails' = fails + 1 /\ fails \in Nat
          BY <3>2, BoundAssumption DEF CleanupFails, Fails, TypeOK
        <5> QED
          BY <3>2, <5>1 DEF CleanupFails, Cleanup
      <4>2. job' = [kind |-> job.kind, task |-> t, at |-> job.at + 1, kept |-> job.kept \cup {e}]
        BY <2>1, <4>1
      <4> QED
        BY <4>1, <4>2
    <3> QED
      BY <1>4, <3>1, <3>2
  <2>6. ASSUME NEW k \in 1 .. Len(Start[t]), k < job.at + 1, link[t][k] = card[t].trees[k]
        PROVE  tree'[card[t].trees[k]] # "clean" \/ card[t].trees[k] \in job'.kept
    <3> DEFINE d == card[t].trees[k]
    <3>1. d \in Trees
      BY <2>1, <2>2, Owns
    <3>2. CASE CleanupFails
      <4>1. tree' = tree
        BY <3>2 DEF CleanupFails
      <4>2. CASE k = job.at
        BY <2>5, <2>6, <3>2, <4>2
      <4>3. CASE k < job.at
        BY <2>1, <2>5, <2>6, <3>2, <4>1, <4>3 DEF Cleaned
      <4> QED
        BY <2>1, <2>6, <4>2, <4>3
    <3>3. CASE Cleanup
      <4>1. tree' = [tree EXCEPT ![e] = IF Removable(e) THEN "none" ELSE @]
        BY <3>3 DEF Cleanup
      <4>2. CASE k = job.at
        <5>1. d = e
          BY <2>6, <4>2
        <5>2. tree'[e] # "clean"
          BY <2>3, <4>1 DEF Removable, TypeOK
        <5> QED
          BY <5>1, <5>2
      <4>3. CASE k < job.at
        <5>1. tree[d] # "clean" \/ d \in job.kept
          BY <2>1, <2>6, <4>3 DEF Cleaned
        <5>2. tree[d] # "clean" => tree'[d] # "clean"
          BY <3>1, <4>1 DEF TypeOK
        <5> QED
          BY <2>5, <3>3, <5>1, <5>2
      <4> QED
        BY <2>1, <2>6, <4>2, <4>3
    <3> QED
      BY <1>4, <3>2, <3>3
  <2> QED
    BY <2>4, <2>5, <2>6 DEF Cleaned
<1>5. CASE Undo
  <2>1. job \in [kind : {"undo"}, task : Tasks, at : Nat]
    BY <1>5, JobKinds DEF Undo, TypeOK
  <2>2. job' = NoJob \/ job'.kind = "undo"
    BY <1>5, <2>1 DEF Undo
  <2> QED
    BY <1>2, <2>2 DEF NoJob
<1>6. CASE AddTree
  <2>1. job \in [kind : {"launch"}, task : Tasks, links : Seq(Trees), trees : Seq(Trees)]
    BY <1>6, JobKinds DEF AddTree, Launching, TypeOK
  <2>2. job'.kind = "launch"
    BY <1>6, <2>1 DEF AddTree
  <2> QED
    BY <1>2, <2>2
<1>7. ASSUME NEW t \in Tasks, Launch(t) PROVE Cleaned'
  BY <1>2, <1>7 DEF Launch
<1>8. CASE SpawnFails
  BY <1>2, <1>8 DEF SpawnFails
<1>9. CASE job' = NoJob
  BY <1>2, <1>9 DEF NoJob
<1>10. \/ job' = job \/ job' = NoJob \/ Undo \/ AddTree \/ SpawnFails \/ Cleanup \/ CleanupFails
       \/ \E t \in Tasks : Launch(t) \/ \E kind \in {"finish", "close"} : End(t, kind)
  BY DEF Next, vars, LaunchFails, UndoFails, Spawn, Ended, Stop, Crash, Boot, Work, Exit, Rename
<1> QED
  BY <1>1, <1>3, <1>4, <1>5, <1>6, <1>7, <1>8, <1>9, <1>10

\* Only its last step ends a clean-up while the daemon is up.
LEMMA EndsClean ==
  ASSUME CInv, [Next]_vars, Ending, job' = NoJob, up',
         NEW k \in DOMAIN card[job.task].trees,
         link[job.task][k] = card[job.task].trees[k]
  PROVE  \/ tree[card[job.task].trees[k]] # "clean"
         \/ card[job.task].trees[k] \in job.kept
<1> USE DEF CInv
<1>1. /\ job \in [kind : {"finish", "close"}, task : Tasks, at : Nat, kept : SUBSET Trees]
      /\ job # NoJob /\ ~Launching /\ job.kind # "undo"
      /\ card[job.task].state = "done"
  BY JobKinds DEF Ending, Launching, TypeOK, Owned, RemovalOwn
<1>2. Ended
  <2>1. ASSUME Cleanup \/ CleanupFails PROVE FALSE
    <3>1. job'.at = job.at + 1 /\ job'.kind = job.kind
      BY <1>1, <2>1 DEF Cleanup, CleanupFails
    <3> QED
      BY <1>1, <3>1 DEF NoJob
  <2>2. ASSUME Stop \/ Crash \/ Boot PROVE FALSE
    BY <1>1, <2>2 DEF Stop, Crash, Boot, TypeOK
  <2>3. ASSUME AddTree \/ LaunchFails \/ Spawn \/ SpawnFails \/ Undo \/ UndoFails PROVE FALSE
    BY <1>1, <2>3 DEF AddTree, LaunchFails, Spawn, SpawnFails, Undo, UndoFails, Launching
  <2>4. ASSUME NEW u \in Tasks, Launch(u) \/ End(u, "finish") \/ End(u, "close") PROVE FALSE
    BY <1>1, <2>4 DEF Launch, End
  <2>5. ASSUME NEW u \in Tasks, Work(u) \/ Exit(u) \/ Rename(u) PROVE FALSE
    BY <1>1, <2>5 DEF Work, Exit, Rename
  <2> QED
    BY <1>1, <2>1, <2>2, <2>3, <2>4, <2>5 DEF Next, vars
<1>3. /\ Own(job.task, card[job.task].trees)
      /\ job.at > Len(card[job.task].trees)
  BY <1>1, <1>2 DEF Ended, Owned, CardOwn
<1>4. k \in 1 .. Len(Start[job.task]) /\ k < job.at
  BY <1>1, <1>3 DEF Own
<1> QED
  BY <1>1, <1>4 DEF Cleaned

\* The end of a session removes every worktree of it that can be removed, whatever
\* fails in between, is renamed, or is worked on elsewhere.
THEOREM CleanUp == Spec => EndCleansUp
<1>1. Init => CInv
  <2>1. Init => AllHeld /\ Cleaned
    BY DEF Init, AllHeld, CardHeld, Cleaned, NoCard, NoJob
  <2> QED
    BY <2>1, OwnedInit DEF CInv
<1>2. CInv /\ [Next]_vars => CInv'
  BY OwnedStep, HeldStep, CleanedStep DEF CInv
<1>3. CInv /\ [Next]_vars =>
        [(Ending /\ job' = NoJob /\ up') =>
           \A k \in DOMAIN card[job.task].trees : LET d == card[job.task].trees[k] IN
              link[job.task][k] = d => tree[d] # "clean" \/ d \in job.kept]_vars
  BY EndsClean
<1> QED
  BY <1>1, <1>2, <1>3, PTL DEF Spec, EndCleansUp

=============================================================================
