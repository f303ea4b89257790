---------------------------- MODULE BacklogProofs ----------------------------
(***************************************************************************)
(* Proofs about Backlog, for every backlog, every set of processes and     *)
(* every bound.                                                            *)
(***************************************************************************)
EXTENDS Backlog, TLAPS

-----------------------------------------------------------------------------
\* The inductive invariant.

\* The links ls of task i, while GitHub is at g: one per repository, on its branch,
\* with the number of its own pull request if with any.
Sound(i, ls, g) ==
  /\ \A j, k \in DOMAIN ls : ls[j].repo = ls[k].repo => j = k
  /\ \A k \in DOMAIN ls : [repo |-> ls[k].repo, branch |-> ls[k].branch] \in Places(i)
  /\ \A k \in DOMAIN ls : ls[k].pr # 0 => ls[k].pr = ls[k].branch /\ g[ls[k].branch] # "none"

\* Every copy of a task is sound: on disk, on the board, in the hands of a process
\* that is about to write it, and of a finish.
FilesSound == \A i \in Ids : Parses(i) => Sound(i, file[i].links, gh)
ShownSound == \A i \in Ids : shown[i] # Gone => Sound(i, shown[i].links, gh)
IoSound    == \A p \in Procs : io[p].step # "idle" => Sound(io[p].id, io[p].task.links, gh)
\* The number a finish is to record is, besides, that of the link it asked for last.
OpSound ==
  op.kind = "finish" =>
    /\ Sound(op.id, op.links, gh)
    /\ op.found # 0 => /\ op.at \in DOMAIN op.links
                       /\ op.found = op.links[op.at].branch
                       /\ HasPr(op.found)
SyncSound  == \A t \in sync.targets : [repo |-> t.repo, branch |-> t.branch] \in Places(t.id)

\* A task that `jaum task new` has created has a number.
CliNumbered == \A c \in Creators : cli[c].step = "created" => cli[c].id \in Ids

\* What a finish has found merged stays merged.
Asked ==
  op.kind = "finish" /\ op.merged =>
    \A k \in 1 .. op.at : op.links[k].repo \in Mapped /\ gh[op.links[k].branch] = "merged"

AllSound == FilesSound /\ ShownSound /\ IoSound /\ OpSound /\ SyncSound /\ CliNumbered

BInv == TypeOK /\ AllSound /\ Asked

-----------------------------------------------------------------------------
\* Records, and what is done to the links of a task.

\* What a process is about to write.
LEMMA IoKinds ==
  ASSUME NEW x \in Io
  PROVE  /\ x.step \in {"idle", "truncate", "fill"}
         /\ x.step = "idle" <=> x = Idle
         /\ x.step # "idle" => x \in [step : {"truncate", "fill"}, id : Ids, task : Task]
  BY DEF Io, Idle

\* What an intent of each kind has.
LEMMA OpKinds ==
  ASSUME NEW x \in Op
  PROVE  /\ x.kind \in {"launch", "spawn"} =>
              x \in [kind : {"launch", "spawn"}, id : Ids, prior : Statuses]
         /\ x.kind = "finish" =>
              x \in [kind : {"finish"}, id : Ids, links : Seq(Link), at : Nat, merged : BOOLEAN,
                     found : {0} \cup Branches]
  BY DEF Op

\* Intents without a task are intents.
LEMMA PlainOps == {NoOp, Settle, [kind |-> "defer"]} \subseteq Op
  BY DEF NoOp, Settle, Op

\* Bounds are natural numbers.
LEMMA Bounds == MaxId \in Nat /\ MaxOps \in Nat /\ MaxFails \in Nat
  BY BoundAssumption

\* A file that parses is a task.
LEMMA ParsesTask == ASSUME TypeOK, NEW i \in Ids, Parses(i) PROVE file[i] \in Task
  BY DEF TypeOK, Parses

\* The links of a task are links.
LEMMA TaskLinks ==
  ASSUME NEW t \in Task
  PROVE  /\ t.status \in Statuses /\ t.links \in Seq(Link)
         /\ \A k \in DOMAIN t.links : /\ t.links[k].repo \in Repos
                                      /\ t.links[k].pr \in {0} \cup Branches
                                      /\ t.links[k].branch \in Branches
<1>1. t.status \in Statuses /\ t.links \in Seq(Link)
  BY DEF Task
<1>2. \A k \in DOMAIN t.links : t.links[k] \in Link
  BY <1>1
<1> QED
  BY <1>1, <1>2 DEF Link

\* Another status leaves the links alone.
LEMMA StatusKeepsLinks ==
  ASSUME NEW t \in Task, NEW st \in Statuses
  PROVE  [t EXCEPT !.status = st] \in Task /\ [t EXCEPT !.status = st].links = t.links
  BY DEF Task

\* A new task has no links.
LEMMA NewTaskSound == NewTask \in Task /\ \A i : Sound(i, NewTask.links, gh)
  BY DEF NewTask, Task, Statuses, Sound

\* A link that is given the number of the pull request of its branch stays sound.
LEMMA NumberSound ==
  ASSUME NEW i \in Ids, NEW t \in Task, NEW g, Sound(i, t.links, g),
         NEW k \in DOMAIN t.links, g[t.links[k].branch] # "none"
  PROVE  /\ [t EXCEPT !.links[k].pr = t.links[k].branch] \in Task
         /\ Sound(i, [t EXCEPT !.links[k].pr = t.links[k].branch].links, g)
<1> DEFINE b  == t.links[k].branch
           l  == [t.links[k] EXCEPT !.pr = b]
           ls == [t.links EXCEPT ![k] = l]
<1>1. t.links \in Seq(Link) /\ t.links[k] \in Link /\ b \in Branches
  BY TaskLinks
<1>2. l \in Link /\ l.repo = t.links[k].repo /\ l.branch = b /\ l.pr = b
  BY <1>1 DEF Link
<1>3. ls \in Seq(Link) /\ DOMAIN ls = DOMAIN t.links
        /\ \A j \in DOMAIN t.links : ls[j] = IF j = k THEN l ELSE t.links[j]
  <2> HIDE DEF l
  <2> QED
    BY <1>1, <1>2
<1>4. [t EXCEPT !.links[k].pr = t.links[k].branch] = [t EXCEPT !.links = ls]
  BY DEF Task
<1>5. [t EXCEPT !.links = ls] \in Task /\ [t EXCEPT !.links = ls].links = ls
  <2> HIDE DEF ls
  <2> QED
    BY <1>3 DEF Task
<1>6. Sound(i, ls, g)
  <2> HIDE DEF l, ls
  <2> QED
    BY <1>2, <1>3 DEF Sound
<1> QED
  BY <1>4, <1>5, <1>6

\* Linking a place the task may link keeps it sound, whether the repository is new
\* to it or not.
LEMMA LinkSound ==
  ASSUME NEW i \in Ids, NEW t \in Task, NEW g, Sound(i, t.links, g),
         NEW l \in Edits \cup {NewLink}
  PROVE  LinkRepo(t, l) \in Task /\ Sound(i, LinkRepo(t, l).links, g)
<1>1. t.links \in Seq(Link) /\ l \in Place /\ l \in Places(i)
  BY TaskLinks, LinkAssumption DEF Places
<1>2. l.repo \in Repos /\ l.branch \in Branches /\ l = [repo |-> l.repo, branch |-> l.branch]
  BY <1>1 DEF Place
<1>3. CASE Links(t, l.repo)
  <2> DEFINE ls == [k \in DOMAIN t.links |->
               IF t.links[k].repo = l.repo THEN [t.links[k] EXCEPT !.branch = l.branch]
               ELSE t.links[k]]
  <2>1. ASSUME NEW k \in DOMAIN t.links PROVE ls[k] = t.links[k]
    <3>1. CASE t.links[k].repo = l.repo
      <4>1. [repo |-> t.links[k].repo, branch |-> t.links[k].branch] \in Places(i)
        BY DEF Sound
      <4>2. l.branch = t.links[k].branch
        BY <1>1, <1>2, <3>1, <4>1, BranchAssumption DEF Ids
      <4>3. t.links[k] \in Link
        BY <1>1
      <4> QED
        BY <3>1, <4>2, <4>3 DEF Link
    <3>2. CASE t.links[k].repo # l.repo
      BY <3>2
    <3> QED
      BY <3>1, <3>2
  <2>2. ls = t.links
    <3>1. DOMAIN ls = DOMAIN t.links /\ ls = [k \in DOMAIN t.links |-> t.links[k]]
      BY <2>1
    <3> HIDE DEF ls
    <3> QED
      BY <1>1, <3>1
  <2>3. LinkRepo(t, l) = [t EXCEPT !.links = ls]
    BY <1>3 DEF LinkRepo
  <2>4. [t EXCEPT !.links = t.links] = t
    BY DEF Task
  <2> QED
    BY <2>2, <2>3, <2>4
<1>4. CASE ~Links(t, l.repo)
  <2> DEFINE n  == [repo |-> l.repo, pr |-> 0, branch |-> l.branch]
             ls == Append(t.links, n)
  <2>1. n \in Link
    BY <1>2 DEF Link
  <2>2. /\ ls \in Seq(Link) /\ DOMAIN ls = 1 .. Len(t.links) + 1
        /\ DOMAIN t.links = 1 .. Len(t.links) /\ Len(t.links) \in Nat
        /\ \A k \in DOMAIN t.links : ls[k] = t.links[k]
        /\ ls[Len(t.links) + 1] = n
    <3> HIDE DEF n
    <3> QED
      BY <1>1, <2>1
  <2>3. LinkRepo(t, l) = [t EXCEPT !.links = ls]
    BY <1>4 DEF LinkRepo
  <2>4. [t EXCEPT !.links = ls] \in Task /\ [t EXCEPT !.links = ls].links = ls
    <3> HIDE DEF ls
    <3> QED
      BY <2>2 DEF Task
  <2>5. n.repo = l.repo /\ n.pr = 0 /\ [repo |-> n.repo, branch |-> n.branch] \in Places(i)
    BY <1>1, <1>2
  <2>6. \A k \in DOMAIN t.links : t.links[k].repo # l.repo
    BY <1>4 DEF Links
  <2>7. Sound(i, ls, g)
    <3> HIDE DEF n, ls
    <3>1. \A k \in DOMAIN ls : k \in DOMAIN t.links \/ k = Len(t.links) + 1
      BY <2>2
    <3>2. ASSUME NEW j \in DOMAIN ls, NEW k \in DOMAIN ls, ls[j].repo = ls[k].repo PROVE j = k
      BY <2>2, <2>5, <2>6, <3>1, <3>2 DEF Sound
    <3>3. \A k \in DOMAIN ls : [repo |-> ls[k].repo, branch |-> ls[k].branch] \in Places(i)
      BY <2>2, <2>5, <3>1 DEF Sound
    <3>4. \A k \in DOMAIN ls : ls[k].pr # 0 => ls[k].pr = ls[k].branch /\ g[ls[k].branch] # "none"
      BY <2>2, <2>5, <3>1 DEF Sound
    <3> QED
      BY <3>2, <3>3, <3>4 DEF Sound
  <2> QED
    BY <2>3, <2>4, <2>7
<1> QED
  BY <1>3, <1>4

\* A process that is about to write a sound task is typed and sound.
LEMMA WriteKeeps ==
  ASSUME TypeOK, IoSound, gh' = gh, NEW p \in Procs, NEW i \in Ids,
         NEW t \in Task, Sound(i, t.links, gh), Write(p, i, t)
  PROVE  io' \in [Procs -> Io] /\ IoSound'
<1> DEFINE x == [step |-> "truncate", id |-> i, task |-> t]
<1>1. x \in Io /\ x.id = i /\ x.task = t
  BY DEF Io
<1>2. io' = [io EXCEPT ![p] = x]
  BY DEF Write
<1> HIDE DEF x
<1> QED
  BY <1>1, <1>2 DEF TypeOK, IoSound

\* set_pr of the number of the link's own pull request, the only link there is of
\* the repository.
LEMMA SetPrKeeps ==
  ASSUME TypeOK, FilesSound, IoSound, gh' = gh, NEW p \in Procs, NEW i \in Ids,
         NEW r, NEW n, CanSetPr(i, r), [repo |-> r, branch |-> n] \in Places(i), HasPr(n),
         SetPr(p, i, r, n)
  PROVE  io' \in [Procs -> Io] /\ IoSound'
<1>1. file[i] \in Task /\ Sound(i, file[i].links, gh)
  BY ParsesTask DEF CanSetPr, FilesSound
<1> DEFINE P(k) == file[i].links[k].repo = r /\ \A j \in 1 .. k - 1 : file[i].links[j].repo # r
           k == CHOOSE k \in DOMAIN file[i].links : P(k)
<1>2. PICK h \in DOMAIN file[i].links : file[i].links[h].repo = r
  BY DEF CanSetPr, Links
<1>3. P(h)
  <2>1. file[i].links \in Seq(Link)
    BY <1>1, TaskLinks
  <2>2. \A j \in 1 .. h - 1 : j \in DOMAIN file[i].links /\ j # h
    BY <2>1
  <2> QED
    BY <1>1, <1>2, <2>2 DEF Sound
<1>4. k \in DOMAIN file[i].links /\ file[i].links[k].repo = r
  BY <1>3
<1>5. n = file[i].links[k].branch
  <2>1. [repo |-> r, branch |-> file[i].links[k].branch] \in Places(i)
    BY <1>1, <1>4 DEF Sound
  <2>2. [repo |-> r, branch |-> file[i].links[k].branch] = [repo |-> r, branch |-> n]
    BY <2>1, BranchAssumption DEF Ids
  <2> QED
    BY <2>2
<1>6. Write(p, i, [file[i] EXCEPT !.links[k].pr = file[i].links[k].branch])
  BY <1>5 DEF SetPr
<1> HIDE DEF k
<1> QED
  BY <1>1, <1>4, <1>5, <1>6, NumberSound, WriteKeeps DEF HasPr

\* What the others have read stays sound while files, processes and GitHub stand still.
LEMMA Copies ==
  ASSUME AllSound, gh' = gh
  PROVE  /\ file' = file => FilesSound'
         /\ shown' = shown => ShownSound'
         /\ io' = io => IoSound'
         /\ op' = op => OpSound'
         /\ sync' = sync => SyncSound'
         /\ cli' = cli => CliNumbered'
  BY DEF AllSound, FilesSound, ShownSound, IoSound, OpSound, SyncSound, CliNumbered, Parses,
         HasPr

\* An intent that is not a finish has nothing to keep.
LEMMA OtherOp ==
  ASSUME op'.kind # "finish"
  PROVE  OpSound' /\ Asked' /\ (op.kind = "finish" => op.at <= Len(op.links))'
  BY DEF OpSound, Asked

\* The kinds of the plain intents.
LEMMA PlainKinds ==
  /\ NoOp.kind = "none" /\ Settle.kind = "settle" /\ [kind |-> "defer"].kind = "defer"
  BY DEF NoOp, Settle

-----------------------------------------------------------------------------
\* The daemon's thread keeps the invariant.

\* Intents of the user.
LEMMA UserStep == ASSUME BInv, User PROVE BInv'
<1> USE DEF BInv
<1>1. ASSUME ops < MaxOps, ops' = ops + 1 PROVE ops' \in 0 .. MaxOps
  BY <1>1, Bounds DEF TypeOK
<1>2. "daemon" \in Procs
  BY DEF Procs
<1>3. CASE QuickTask
  <2>1. io' \in [Procs -> Io] /\ IoSound'
    BY <1>2, <1>3, NewTaskSound, WriteKeeps DEF QuickTask, Room, Numbered, AllSound
  <2>2. OpSound' /\ Asked' /\ (op.kind = "finish" => op.at <= Len(op.links))'
    BY <1>3, OtherOp, PlainKinds DEF QuickTask
  <2>3. op' \in Op /\ ops' \in 0 .. MaxOps
    BY <1>1, <1>3, PlainOps DEF QuickTask
  <2>4. TypeOK'
    BY <1>3, <2>1, <2>2, <2>3 DEF QuickTask, TypeOK
  <2> QED
    BY <1>3, <2>1, <2>2, <2>4, Copies DEF QuickTask, AllSound
<1>4. ASSUME NEW i \in Ids, Play(i) PROVE BInv'
  <2>1. op' \in Op /\ op'.kind # "finish"
    <3>1. CASE Parses(i) /\ op' = [kind |-> "launch", id |-> i, prior |-> file[i].status]
      <4>1. file[i].status \in Statuses
        BY <3>1, ParsesTask, TaskLinks
      <4> QED
        BY <3>1, <4>1 DEF Op
    <3>2. CASE op' = Settle
      BY <3>2, PlainOps, PlainKinds
    <3> QED
      BY <1>4, <3>1, <3>2 DEF Play
  <2>2. OpSound' /\ Asked' /\ (op.kind = "finish" => op.at <= Len(op.links))'
    BY <2>1, OtherOp
  <2>3. TypeOK'
    BY <1>1, <1>4, <2>1, <2>2 DEF Play, Pick, TypeOK
  <2> QED
    BY <1>4, <2>2, <2>3, Copies DEF Play, AllSound
<1>5. ASSUME NEW i \in Ids, Finish(i) PROVE BInv'
  <2>1. io' = io
    BY <1>5 DEF Finish
  <2>2. /\ op' \in Op /\ OpSound' /\ Asked'
        /\ (op.kind = "finish" => op.at <= Len(op.links))'
    <3>1. CASE Parses(i)
      <4> DEFINE o == [kind |-> "finish", id |-> i, links |-> file[i].links,
                       at |-> 0, merged |-> TRUE, found |-> 0]
      <4>1. file[i].links \in Seq(Link) /\ Sound(i, file[i].links, gh)
        BY <3>1, ParsesTask, TaskLinks DEF AllSound, FilesSound
      <4>2. /\ o \in Op /\ o.id = i /\ o.links = file[i].links /\ o.at = 0 /\ o.found = 0
            /\ o.at <= Len(o.links)
        BY <4>1 DEF Op
      <4>3. op' = o /\ gh' = gh
        BY <1>5, <3>1 DEF Finish
      <4> HIDE DEF o
      <4> QED
        BY <4>1, <4>2, <4>3 DEF OpSound, Asked
    <3>2. CASE ~Parses(i)
      BY <1>5, <3>2, PlainOps, OtherOp, PlainKinds DEF Finish
    <3> QED
      BY <3>1, <3>2
  <2>3. TypeOK'
    BY <1>1, <1>5, <2>1, <2>2 DEF Finish, Pick, TypeOK
  <2> QED
    BY <1>5, <2>1, <2>2, <2>3, Copies DEF Finish, AllSound
<1>6. ASSUME NEW i \in Ids, Defer(i) PROVE BInv'
  <2>1. io' \in [Procs -> Io] /\ IoSound' /\ op' \in Op /\ op'.kind # "finish"
    <3>1. CASE Parses(i)
      <4>1. file[i] \in Task /\ Sound(i, file[i].links, gh)
        BY <3>1, ParsesTask DEF AllSound, FilesSound
      <4>2. io' \in [Procs -> Io] /\ IoSound'
        BY <1>2, <1>6, <3>1, <4>1, WriteKeeps DEF Defer, AllSound
      <4> QED
        BY <1>6, <3>1, <4>2, PlainOps, PlainKinds DEF Defer
    <3>2. CASE ~Parses(i)
      <4>1. op' = Settle /\ io' = io
        BY <1>6, <3>2 DEF Defer, Fail
      <4> QED
        BY <1>6, <4>1, PlainOps, PlainKinds, Copies DEF Defer, AllSound, TypeOK
    <3> QED
      BY <3>1, <3>2
  <2>2. OpSound' /\ Asked' /\ (op.kind = "finish" => op.at <= Len(op.links))'
    BY <2>1, OtherOp
  <2>3. TypeOK'
    BY <1>1, <1>6, <2>1, <2>2 DEF Defer, Pick, TypeOK
  <2> QED
    BY <1>6, <2>1, <2>2, <2>3, Copies DEF Defer, AllSound
<1> QED
  BY <1>3, <1>4, <1>5, <1>6 DEF User

\* A refresh takes the files as they are, or leaves the board alone.
LEMMA RefreshKeeps ==
  ASSUME TypeOK, FilesSound, ShownSound, Refresh, gh' = gh
  PROVE  shown' \in [Ids -> Task \cup {Gone}] /\ ShownSound'
<1>1. CASE SomeTorn
  BY <1>1 DEF Refresh, TypeOK, ShownSound
<1>2. CASE ~SomeTorn
  <2>1. shown' = file /\ \A i \in Ids : file[i] # Torn
    BY <1>2 DEF Refresh, SomeTorn
  <2> QED
    BY <2>1 DEF TypeOK, FilesSound, ShownSound, Parses
<1> QED
  BY <1>1, <1>2

\* Refreshes, and the ends of sessions.
LEMMA BoardStep == ASSUME BInv, PlayOpens \/ Settled \/ Reload \/ SessionEnds PROVE BInv'
<1> USE DEF BInv
<1>1. CASE SessionEnds
  <2>1. TypeOK'
    BY <1>1 DEF SessionEnds, TypeOK
  <2> QED
    BY <1>1, <2>1, Copies DEF SessionEnds, AllSound, Asked
<1>2. CASE PlayOpens \/ Settled
  <2>1. shown' \in [Ids -> Task \cup {Gone}] /\ ShownSound'
    BY <1>2, RefreshKeeps DEF PlayOpens, Settled, AllSound
  <2>2. op' = NoOp
    BY <1>2 DEF PlayOpens, Settled
  <2>3. /\ op' \in Op /\ OpSound' /\ Asked'
        /\ (op.kind = "finish" => op.at <= Len(op.links))'
    BY <2>2, PlainOps, OtherOp, PlainKinds
  <2>4. live' \in SUBSET Ids
    BY <1>2, OpKinds DEF PlayOpens, Marked, Settled, TypeOK
  <2>5. UNCHANGED <<file, gh, io, sync, cli, ops, fails>>
    BY <1>2 DEF PlayOpens, Settled
  <2>6. TypeOK'
    BY <2>1, <2>3, <2>4, <2>5 DEF TypeOK
  <2> QED
    BY <2>1, <2>3, <2>5, <2>6, Copies DEF AllSound
<1>3. CASE Reload
  <2>1. shown' \in [Ids -> Task \cup {Gone}] /\ ShownSound'
    BY <1>3, RefreshKeeps DEF Reload, AllSound
  <2>2. TypeOK'
    BY <1>3, <2>1 DEF Reload, TypeOK
  <2> QED
    BY <1>3, <2>1, <2>2, Copies DEF Reload, AllSound, Asked
<1> QED
  BY <1>1, <1>2, <1>3

\* Another status, in the task as it is by now.
LEMMA SetStatusKeeps ==
  ASSUME TypeOK, FilesSound, IoSound, gh' = gh, op.id \in Ids, Parses(op.id),
         NEW st \in Statuses, SetStatus(st)
  PROVE  io' \in [Procs -> Io] /\ IoSound'
<1>1. /\ [file[op.id] EXCEPT !.status = st] \in Task
      /\ Sound(op.id, [file[op.id] EXCEPT !.status = st].links, gh)
  BY ParsesTask, StatusKeepsLinks DEF FilesSound
<1> QED
  BY <1>1, WriteKeeps DEF SetStatus, Procs

\* A play marks its task, and takes the mark back when claude does not start.
LEMMA PlayStep == ASSUME BInv, PlayMarks \/ PlayGitFails \/ PlayRollsBack PROVE BInv'
<1> USE DEF BInv
<1>1. op \in [kind : {"launch", "spawn"}, id : Ids, prior : Statuses]
  BY OpKinds DEF PlayMarks, PlayGitFails, PlayRollsBack, Marked, TypeOK
<1>2. op' \in Op /\ op'.kind # "finish"
  <2>1. CASE op' = Settle
    BY <2>1, PlainOps, PlainKinds
  <2>2. CASE op' = [op EXCEPT !.kind = "spawn"]
    <3>1. op' \in [kind : {"launch", "spawn"}, id : Ids, prior : Statuses]
      BY <1>1, <2>2
    <3> QED
      BY <3>1 DEF Op
  <2> QED
    BY <2>1, <2>2 DEF PlayMarks, PlayGitFails, PlayRollsBack, Fail
<1>3. UNCHANGED <<file, gh, shown, live, sync, cli, ops>> /\ fails' \in 0 .. MaxFails
  BY Bounds DEF PlayMarks, PlayGitFails, PlayRollsBack, TypeOK
<1>4. io' \in [Procs -> Io] /\ IoSound'
  <2>1. CASE io' = io
    BY <1>3, <2>1, Copies DEF AllSound, TypeOK
  <2>2. ASSUME Parses(op.id), NEW st \in Statuses, SetStatus(st)
        PROVE  io' \in [Procs -> Io] /\ IoSound'
    BY <1>1, <1>3, <2>2, SetStatusKeeps DEF AllSound
  <2>3. "wip" \in Statuses /\ op.prior \in Statuses
    BY <1>1 DEF Statuses
  <2> QED
    BY <2>1, <2>2, <2>3 DEF PlayMarks, PlayGitFails, PlayRollsBack, Fail
<1>5. OpSound' /\ Asked' /\ (op.kind = "finish" => op.at <= Len(op.links))'
  BY <1>2, OtherOp
<1>6. TypeOK'
  BY <1>2, <1>3, <1>4, <1>5 DEF TypeOK
<1> QED
  BY <1>3, <1>4, <1>5, <1>6, Copies DEF AllSound

\* A finish goes through its links: what it has asked for stays merged, and the numbers
\* it records are those of the links it read.
LEMMA FinishStep ==
  ASSUME BInv, FinishLink \/ FinishRecords \/ FinishGhFails \/ FinishEnds PROVE BInv'
<1> USE DEF BInv
<1>1. /\ op \in [kind : {"finish"}, id : Ids, links : Seq(Link), at : Nat, merged : BOOLEAN,
                found : {0} \cup Branches]
      /\ Sound(op.id, op.links, gh) /\ "daemon" \in Procs /\ op.at <= Len(op.links)
  BY OpKinds DEF FinishLink, FinishRecords, FinishGhFails, FinishEnds, FinishAt, FinishReady,
                 TypeOK, AllSound, OpSound, Procs
<1>2. CASE FinishEnds
  <2>1. op' = Settle
    BY <1>2 DEF FinishEnds, Fail
  <2>2. /\ op' \in Op /\ OpSound' /\ Asked'
        /\ (op.kind = "finish" => op.at <= Len(op.links))'
    BY <2>1, PlainOps, OtherOp, PlainKinds
  <2>3. io' \in [Procs -> Io] /\ IoSound'
    <3>1. CASE Verdict /\ Parses(op.id)
      <4>1. SetStatus("merged") /\ gh' = gh /\ "merged" \in Statuses
        BY <1>2, <3>1 DEF FinishEnds, Statuses
      <4> QED
        BY <1>1, <3>1, <4>1, SetStatusKeeps DEF AllSound
    <3>2. CASE ~(Verdict /\ Parses(op.id))
      BY <1>2, <3>2, Copies DEF FinishEnds, Fail, AllSound, TypeOK
    <3> QED
      BY <3>1, <3>2
  <2>4. TypeOK'
    BY <1>2, <2>2, <2>3 DEF FinishEnds, TypeOK
  <2> QED
    BY <1>2, <2>2, <2>3, <2>4, Copies DEF FinishEnds, AllSound
<1>3. CASE FinishLink \/ FinishGhFails
  <2> DEFINE l == op.links[op.at + 1]
             n == IF l.pr = 0 THEN l.branch ELSE l.pr
  <2>1. op.at + 1 \in DOMAIN op.links /\ op.at < Len(op.links) /\ l \in Link
    BY <1>1, <1>3 DEF FinishLink, FinishGhFails, FinishAt, FinishReady
  <2>2. /\ [repo |-> l.repo, branch |-> l.branch] \in Places(op.id)
        /\ n = l.branch
    BY <1>1, <2>1 DEF Sound
  \* The finish, one link further.
  <2>3. ASSUME NEW m \in BOOLEAN, NEW f \in {0} \cup Branches, gh' = gh,
               op' = [op EXCEPT !.at = @ + 1, !.merged = m, !.found = f],
               m => op.merged /\ l.repo \in Mapped /\ gh[l.branch] = "merged",
               f # 0 => f = l.branch /\ HasPr(f)
        PROVE  /\ op' \in Op /\ OpSound' /\ Asked'
               /\ (op.kind = "finish" => op.at <= Len(op.links))'
    <3>1. op' = [kind |-> "finish", id |-> op.id, links |-> op.links, at |-> op.at + 1,
                 merged |-> m, found |-> f]
      BY <1>1, <2>3
    <3>2. /\ op' \in [kind : {"finish"}, id : Ids, links : Seq(Link), at : Nat, merged : BOOLEAN,
                      found : {0} \cup Branches]
          /\ op'.id = op.id /\ op'.links = op.links /\ op'.at = op.at + 1
          /\ op'.merged = m /\ op'.found = f
      BY <1>1, <3>1
    <3>3. op' \in Op
      BY <3>2 DEF Op
    <3>4. ASSUME m, NEW k \in 1 .. op.at + 1
          PROVE  op.links[k].repo \in Mapped /\ gh[op.links[k].branch] = "merged"
      <4>1. CASE k = op.at + 1
        BY <2>3, <3>4, <4>1
      <4>2. CASE k \in 1 .. op.at
        BY <1>1, <2>3, <3>4, <4>2 DEF Asked
      <4> QED
        BY <1>1, <3>4, <4>1, <4>2
    <3>5. OpSound'
      BY <1>1, <2>1, <2>3, <3>2 DEF OpSound, HasPr
    <3> QED
      BY <1>1, <2>1, <2>3, <3>2, <3>3, <3>4, <3>5 DEF Asked
  <2>4. CASE FinishGhFails
    <3>1. io' = io /\ gh' = gh
      BY <2>4 DEF FinishGhFails
    <3>2. /\ op' \in Op /\ OpSound' /\ Asked'
          /\ (op.kind = "finish" => op.at <= Len(op.links))'
      <4>1. CASE op' = Settle
        BY <4>1, PlainOps, OtherOp, PlainKinds
      <4>2. CASE op' = [op EXCEPT !.at = @ + 1, !.merged = FALSE]
        <5>1. op.found = 0
          BY <2>4 DEF FinishGhFails, FinishAt, FinishReady
        <5>2. op' = [op EXCEPT !.at = @ + 1, !.merged = FALSE, !.found = 0]
          BY <1>1, <4>2, <5>1
        <5> QED
          BY <2>3, <3>1, <5>2
      <4> QED
        BY <2>4, <4>1, <4>2 DEF FinishGhFails
    <3>3. fails' \in 0 .. MaxFails
      BY <2>4, Bounds DEF FinishGhFails, TypeOK
    <3>4. TypeOK'
      BY <2>4, <3>1, <3>2, <3>3 DEF FinishGhFails, TypeOK
    <3> QED
      BY <2>4, <3>1, <3>2, <3>4, Copies DEF FinishGhFails, AllSound
  <2>5. CASE FinishLink
    <3> DEFINE m == op.merged /\ ~NotCreated(l) /\ gh[n] = "merged"
               f == IF NotCreated(l) \/ l.pr # 0 THEN 0 ELSE n
    <3>1. /\ m \in BOOLEAN
          /\ m => op.merged /\ l.repo \in Mapped /\ gh[l.branch] = "merged"
      BY <1>1, <2>2 DEF NotCreated
    <3>2. /\ f \in {0} \cup Branches
          /\ f # 0 => f = l.branch /\ HasPr(f)
      BY <2>1, <2>2 DEF NotCreated, Link
    <3>3. UNCHANGED <<file, gh, shown, live, io, sync, cli, ops, fails>>
      BY <2>5 DEF FinishLink
    <3>4. op' = [op EXCEPT !.at = @ + 1, !.merged = m, !.found = f]
      BY <2>5, Zenon DEF FinishLink
    <3>5. /\ op' \in Op /\ OpSound' /\ Asked'
          /\ (op.kind = "finish" => op.at <= Len(op.links))'
      <4> HIDE DEF m, f
      <4> QED
        BY <2>3, <3>1, <3>2, <3>3, <3>4
    <3>6. TypeOK'
      BY <3>3, <3>5 DEF TypeOK
    <3> QED
      BY <3>3, <3>5, <3>6, Copies DEF AllSound
  <2> QED
    BY <1>3, <2>4, <2>5
<1>4. CASE FinishRecords
  <2> DEFINE r == op.links[op.at].repo
  <2>1. UNCHANGED <<file, gh, shown, live, sync, cli, ops, fails>>
    BY <1>4 DEF FinishRecords
  <2>2. op.at \in DOMAIN op.links /\ op.found = op.links[op.at].branch /\ HasPr(op.found)
    BY <1>4 DEF FinishRecords, AllSound, OpSound
  <2>3. \/ /\ op' = [op EXCEPT !.found = 0]
           /\ CanSetPr(op.id, r) /\ SetPr("daemon", op.id, r, op.found)
        \/ op' = Settle /\ io' = io
    BY <1>4 DEF FinishRecords, Fail
  <2>4. /\ op' \in Op /\ OpSound' /\ Asked'
        /\ (op.kind = "finish" => op.at <= Len(op.links))'
    <3>1. CASE op' = Settle
      BY <3>1, PlainOps, OtherOp, PlainKinds
    <3>2. CASE op' = [op EXCEPT !.found = 0]
      <4>1. op' = [kind |-> "finish", id |-> op.id, links |-> op.links, at |-> op.at,
                   merged |-> op.merged, found |-> 0]
        BY <1>1, <3>2
      <4>2. /\ op' \in [kind : {"finish"}, id : Ids, links : Seq(Link), at : Nat,
                        merged : BOOLEAN, found : {0} \cup Branches]
            /\ op'.id = op.id /\ op'.links = op.links /\ op'.at = op.at
            /\ op'.merged = op.merged /\ op'.found = 0
        BY <1>1, <4>1
      <4>3. op' \in Op
        BY <4>2 DEF Op
      <4>4. OpSound'
        BY <1>1, <2>1, <4>2 DEF OpSound
      <4>5. Asked'
        BY <1>1, <2>1, <4>2 DEF Asked
      <4> QED
        BY <1>1, <4>2, <4>3, <4>4, <4>5
    <3> QED
      BY <2>3, <3>1, <3>2
  <2>5. io' \in [Procs -> Io] /\ IoSound'
    <3>1. CASE io' = io
      BY <2>1, <3>1, Copies DEF AllSound, TypeOK
    <3>2. CASE CanSetPr(op.id, r) /\ SetPr("daemon", op.id, r, op.found)
      <4>1. [repo |-> r, branch |-> op.found] \in Places(op.id)
        BY <1>1, <2>2 DEF Sound
      <4> HIDE DEF r
      <4> QED
        BY <1>1, <2>1, <2>2, <3>2, <4>1, SetPrKeeps DEF AllSound
    <3> QED
      BY <2>3, <3>1, <3>2
  <2>6. TypeOK'
    BY <2>1, <2>4, <2>5 DEF TypeOK
  <2> QED
    BY <2>1, <2>4, <2>5, <2>6, Copies DEF AllSound
<1> QED
  BY <1>2, <1>3, <1>4

\* A deferred task is new.
LEMMA DeferStep == ASSUME BInv, DeferSpawns PROVE BInv'
<1> USE DEF BInv
<1>1. io' \in [Procs -> Io] /\ IoSound'
  BY NewTaskSound, WriteKeeps DEF DeferSpawns, Numbered, AllSound, Procs
<1>2. /\ op' \in Op /\ OpSound' /\ Asked'
      /\ (op.kind = "finish" => op.at <= Len(op.links))'
  BY PlainOps, OtherOp, PlainKinds DEF DeferSpawns
<1>3. TypeOK'
  BY <1>1, <1>2 DEF DeferSpawns, TypeOK
<1> QED
  BY <1>1, <1>2, <1>3, Copies DEF DeferSpawns, AllSound

-----------------------------------------------------------------------------
\* So do the pr sync, the creators, the files, claude and GitHub.

\* The pr sync: its targets are places of their tasks, whatever has become of the
\* links since they were read.
LEMMA SyncStep ==
  ASSUME BInv, SyncStarts \/ SyncTarget \/ SyncGhFails \/ SyncEnds PROVE BInv'
<1> USE DEF BInv
<1>1. "sync" \in Procs
  BY DEF Procs
<1>2. CASE SyncStarts
  <2>1. sync' = [running |-> TRUE, targets |-> SyncTargets] /\ SyncTargets \subseteq Target
    BY <1>2 DEF SyncStarts, SyncTargets
  <2>2. ASSUME NEW t \in SyncTargets
        PROVE  [repo |-> t.repo, branch |-> t.branch] \in Places(t.id)
    <3>1. t \in Target /\ t.id \in Ids /\ shown[t.id] # Gone
      BY DEF SyncTargets, Unnumbered, Target
    <3>2. PICK k \in DOMAIN shown[t.id].links :
            shown[t.id].links[k].repo = t.repo /\ shown[t.id].links[k].branch = t.branch
      BY DEF SyncTargets, Unnumbered
    <3> QED
      BY <3>1, <3>2 DEF AllSound, ShownSound, Sound
  <2>3. SyncSound'
    BY <2>1, <2>2 DEF SyncSound
  <2>4. TypeOK'
    BY <1>2, <2>1 DEF SyncStarts, TypeOK
  <2> QED
    BY <1>2, <2>3, <2>4, Copies DEF SyncStarts, AllSound, Asked
<1>3. CASE SyncTarget
  <2>1. PICK t \in sync.targets :
          /\ IF t.repo \in Mapped /\ HasPr(t.branch) /\ CanSetPr(t.id, t.repo)
             THEN SetPr("sync", t.id, t.repo, t.branch)
             ELSE io' = io
          /\ sync' = [sync EXCEPT !.targets = @ \ {t}]
    BY <1>3 DEF SyncTarget
  <2>2. t.id \in Ids /\ [repo |-> t.repo, branch |-> t.branch] \in Places(t.id)
    BY DEF AllSound, SyncSound, TypeOK, Target
  <2>3. UNCHANGED <<file, gh, shown, live, op, cli, ops, fails>>
    BY <1>3 DEF SyncTarget
  <2>4. io' \in [Procs -> Io] /\ IoSound'
    <3>1. CASE io' = io
      BY <2>3, <3>1, Copies DEF AllSound, TypeOK
    <3>2. CASE HasPr(t.branch) /\ CanSetPr(t.id, t.repo) /\ SetPr("sync", t.id, t.repo, t.branch)
      BY <1>1, <2>2, <2>3, <3>2, SetPrKeeps DEF AllSound
    <3> QED
      BY <2>1, <3>1, <3>2
  <2>5. sync'.targets \subseteq sync.targets /\ sync'.running = sync.running
          /\ sync' \in [running : BOOLEAN, targets : SUBSET Target]
    BY <2>1 DEF TypeOK
  <2>6. TypeOK'
    BY <2>3, <2>4, <2>5 DEF TypeOK
  <2>7. SyncSound'
    BY <2>5 DEF AllSound, SyncSound
  <2> QED
    BY <2>3, <2>4, <2>6, <2>7, Copies DEF AllSound, Asked
<1>4. CASE SyncGhFails
  <2>1. PICK t \in sync.targets : sync' = [sync EXCEPT !.targets = @ \ {t}]
    BY <1>4 DEF SyncGhFails
  <2>2. sync'.targets \subseteq sync.targets /\ sync'.running = sync.running
          /\ sync' \in [running : BOOLEAN, targets : SUBSET Target]
    BY <2>1 DEF TypeOK
  <2>3. fails' \in 0 .. MaxFails
    BY <1>4, Bounds DEF SyncGhFails, TypeOK
  <2>4. TypeOK'
    BY <1>4, <2>2, <2>3 DEF SyncGhFails, TypeOK
  <2>5. SyncSound'
    BY <2>2 DEF AllSound, SyncSound
  <2> QED
    BY <1>4, <2>4, <2>5, Copies DEF SyncGhFails, AllSound, Asked
<1>5. CASE SyncEnds
  <2>1. sync.targets = {} /\ sync'.targets = {}
          /\ sync' \in [running : BOOLEAN, targets : SUBSET Target]
    BY <1>5 DEF SyncEnds, TypeOK
  <2>2. TypeOK'
    BY <1>5, <2>1 DEF SyncEnds, TypeOK
  <2>3. SyncSound'
    BY <2>1 DEF SyncSound
  <2> QED
    BY <1>5, <2>2, <2>3, Copies DEF SyncEnds, AllSound, Asked
<1> QED
  BY <1>2, <1>3, <1>4, <1>5

\* `jaum task new` links a place that its task may link, even if others have written
\* the task in the meantime, and may be killed anywhere.
LEMMA CliStep ==
  ASSUME BInv, NEW c \in Creators, CliCreates(c) \/ CliLinks(c) \/ CliKilled(c) PROVE BInv'
<1> USE DEF BInv
<1>1. c \in Procs
  BY DEF Procs
<1>2. CASE CliCreates(c)
  <2>1. io' \in [Procs -> Io] /\ IoSound'
    BY <1>1, <1>2, NewTaskSound, WriteKeeps DEF CliCreates, Numbered, AllSound
  <2>2. cli' = [cli EXCEPT ![c] = [step |-> "created", id |-> NextId]] /\ NextId \in Ids
    BY <1>2 DEF CliCreates, Numbered
  <2>3. /\ cli' \in [Creators -> [step : {"new", "created", "linked", "killed"}, id : {0} \cup Ids]]
        /\ CliNumbered'
    BY <2>2 DEF TypeOK, AllSound, CliNumbered
  <2>4. TypeOK'
    BY <1>2, <2>1, <2>3 DEF CliCreates, TypeOK
  <2> QED
    BY <1>2, <2>1, <2>3, <2>4, Copies DEF CliCreates, AllSound, Asked
<1>3. CASE CliLinks(c)
  <2>1. cli[c].id \in Ids
    BY <1>3 DEF CliLinks, AllSound, CliNumbered
  <2>2. io' \in [Procs -> Io] /\ IoSound'
    <3>1. CASE ~Parses(cli[c].id)
      BY <1>3, <3>1, Copies DEF CliLinks, AllSound, TypeOK
    <3>2. CASE Parses(cli[c].id)
      <4> DEFINE i == cli[c].id
      <4>1. /\ LinkRepo(file[i], NewLink) \in Task
            /\ Sound(i, LinkRepo(file[i], NewLink).links, gh)
        BY <2>1, <3>2, ParsesTask, LinkSound DEF AllSound, FilesSound
      <4>2. Write(c, i, LinkRepo(file[i], NewLink)) /\ gh' = gh
        BY <1>3, <3>2 DEF CliLinks
      <4> QED
        BY <1>1, <2>1, <4>1, <4>2, WriteKeeps DEF AllSound
    <3> QED
      BY <3>1, <3>2
  <2>3. /\ cli' \in [Creators -> [step : {"new", "created", "linked", "killed"}, id : {0} \cup Ids]]
        /\ CliNumbered'
    BY <1>3 DEF CliLinks, TypeOK, AllSound, CliNumbered
  <2>4. TypeOK'
    BY <1>3, <2>2, <2>3 DEF CliLinks, TypeOK
  <2> QED
    BY <1>3, <2>2, <2>3, <2>4, Copies DEF CliLinks, AllSound, Asked
<1>4. CASE CliKilled(c)
  <2>1. Idle \in Io /\ Idle.step = "idle"
    BY DEF Idle, Io
  <2>2. io' = [io EXCEPT ![c] = Idle]
    BY <1>4 DEF CliKilled
  <2>3. io' \in [Procs -> Io] /\ IoSound'
    <3>1. io \in [Procs -> Io] /\ IoSound
      BY DEF TypeOK, AllSound
    <3>2. gh' = gh
      BY <1>4 DEF CliKilled
    <3>3. io' \in [Procs -> Io]
      BY <2>1, <2>2, <3>1
    <3>4. \A p \in Procs : io'[p].step # "idle" => io'[p] = io[p]
      BY <2>1, <2>2, <3>1
    <3> QED
      BY <3>1, <3>2, <3>3, <3>4 DEF IoSound
  <2>4. /\ cli' \in [Creators -> [step : {"new", "created", "linked", "killed"}, id : {0} \cup Ids]]
        /\ CliNumbered'
    BY <1>4 DEF CliKilled, TypeOK, AllSound, CliNumbered
  <2>5. TypeOK'
    BY <1>4, <2>3, <2>4 DEF CliKilled, TypeOK
  <2> QED
    BY <1>4, <2>3, <2>4, <2>5, Copies DEF CliKilled, AllSound, Asked
<1> QED
  BY <1>2, <1>3, <1>4

\* A write empties a file, or leaves in it what the process held.
LEMMA FileStep == ASSUME BInv, NEW p \in Procs, WriteStep(p) PROVE BInv'
<1> USE DEF BInv
<1> DEFINE x == io[p]
<1>1. x \in [step : {"truncate", "fill"}, id : Ids, task : Task] /\ Sound(x.id, x.task.links, gh)
  BY IoKinds DEF WriteStep, TypeOK, AllSound, IoSound
<1>2. UNCHANGED <<gh, shown, live, op, sync, cli, ops, fails>>
  BY DEF WriteStep
<1>3. CASE x.step = "truncate"
  <2>1. file' = [file EXCEPT ![x.id] = Torn] /\ io' = [io EXCEPT ![p].step = "fill"]
    BY <1>3 DEF WriteStep
  <2>2. [x EXCEPT !.step = "fill"] \in Io
          /\ [x EXCEPT !.step = "fill"].id = x.id /\ [x EXCEPT !.step = "fill"].task = x.task
    BY <1>1 DEF Io
  <2>3. io' = [io EXCEPT ![p] = [x EXCEPT !.step = "fill"]]
    BY <2>1
  <2>4. io' \in [Procs -> Io] /\ IoSound'
    BY <1>1, <1>2, <2>2, <2>3 DEF TypeOK, AllSound, IoSound
  <2>5. file' \in [Ids -> Task \cup {Gone, Torn}] /\ FilesSound'
    BY <1>1, <1>2, <2>1 DEF TypeOK, AllSound, FilesSound, Parses
  <2>6. TypeOK'
    BY <1>2, <2>4, <2>5 DEF TypeOK
  <2> QED
    BY <1>2, <2>4, <2>5, <2>6, Copies DEF AllSound, Asked
<1>4. CASE x.step # "truncate"
  <2>1. file' = [file EXCEPT ![x.id] = x.task] /\ io' = [io EXCEPT ![p] = Idle]
    BY <1>4 DEF WriteStep
  <2>2. Idle \in Io /\ Idle.step = "idle"
    BY DEF Idle, Io
  <2>3. io' \in [Procs -> Io] /\ IoSound'
    BY <1>2, <2>1, <2>2 DEF TypeOK, AllSound, IoSound
  <2>4. file' \in [Ids -> Task \cup {Gone, Torn}] /\ FilesSound'
    BY <1>1, <1>2, <2>1 DEF TypeOK, AllSound, FilesSound, Parses
  <2>5. TypeOK'
    BY <1>2, <2>3, <2>4 DEF TypeOK
  <2> QED
    BY <1>2, <2>3, <2>4, <2>5, Copies DEF AllSound, Asked
<1> QED
  BY <1>3, <1>4

\* Claude links a place that its task may link.
LEMMA ClaudeStep == ASSUME BInv, NEW i \in Ids, ClaudeEdits(i) PROVE BInv'
<1> USE DEF BInv
<1>1. file[i] \in Task /\ Sound(i, file[i].links, gh)
  BY ParsesTask DEF ClaudeEdits, AllSound, FilesSound
<1>2. PICK t : /\ file' = [file EXCEPT ![i] = t]
               /\ \/ \E l \in Edits : t = LinkRepo(file[i], l)
                  \/ t = [file[i] EXCEPT !.status = "backlog"]
  BY DEF ClaudeEdits
<1>3. t \in Task /\ Sound(i, t.links, gh)
  <2>1. CASE \E l \in Edits : t = LinkRepo(file[i], l)
    <3>1. PICK l \in Edits : t = LinkRepo(file[i], l)
      BY <2>1
    <3> QED
      BY <1>1, <3>1, LinkSound
  <2>2. CASE t = [file[i] EXCEPT !.status = "backlog"]
    <3>1. "backlog" \in Statuses
      BY DEF Statuses
    <3> QED
      BY <1>1, <2>2, <3>1, StatusKeepsLinks
  <2> QED
    BY <1>2, <2>1, <2>2
<1>4. UNCHANGED <<gh, shown, live, io, op, sync, cli, fails>> /\ ops' \in 0 .. MaxOps
  BY Bounds DEF ClaudeEdits, TypeOK
<1>5. file' \in [Ids -> Task \cup {Gone, Torn}] /\ FilesSound'
  BY <1>2, <1>3, <1>4 DEF TypeOK, AllSound, FilesSound, Parses
<1>6. TypeOK'
  BY <1>4, <1>5 DEF TypeOK
<1> QED
  BY <1>4, <1>5, <1>6, Copies DEF AllSound, Asked

\* A pull request that is there stays, and one that is merged stays merged.
LEMMA GitHubStep == ASSUME BInv, NEW b \in Branches, GitHub(b) PROVE BInv'
<1> USE DEF BInv
<1>1. UNCHANGED <<file, shown, live, io, op, sync, cli, ops, fails>>
  BY DEF GitHub
<1>2. /\ gh' \in [Branches -> PrStates]
      /\ \A a \in Branches : gh[a] # "none" => gh'[a] # "none"
      /\ \A a \in Branches : gh[a] = "merged" => gh'[a] = "merged"
  BY DEF GitHub, TypeOK, PrStates
<1>3. ASSUME NEW i, NEW ls \in Seq(Link), Sound(i, ls, gh) PROVE Sound(i, ls, gh')
  <2>1. \A k \in DOMAIN ls : ls[k] \in Link
    OBVIOUS
  <2>2. \A k \in DOMAIN ls : ls[k].branch \in Branches
    BY <2>1 DEF Link
  <2> QED
    BY <1>2, <1>3, <2>2 DEF Sound
<1>4. \A t \in Task : t.links \in Seq(Link)
  BY TaskLinks
<1>5. FilesSound'
  <2>1. \A i \in Ids : Parses(i) => file[i].links \in Seq(Link)
    BY <1>4, ParsesTask
  <2> QED
    BY <1>1, <1>3, <2>1 DEF AllSound, FilesSound, Parses
<1>6. ShownSound'
  <2>1. \A i \in Ids : shown[i] # Gone => shown[i].links \in Seq(Link)
    BY <1>4 DEF TypeOK
  <2> QED
    BY <1>1, <1>3, <2>1 DEF AllSound, ShownSound
<1>7. IoSound'
  <2>1. \A p \in Procs : io[p].step # "idle" => io[p].task.links \in Seq(Link)
    <3> TAKE p \in Procs
    <3> HAVE io[p].step # "idle"
    <3>1. io[p].task \in Task
      BY IoKinds DEF TypeOK
    <3> QED
      BY <1>4, <3>1
  <2> QED
    BY <1>1, <1>3, <2>1 DEF AllSound, IoSound
<1>8. OpSound' /\ Asked'
  <2>1. op.kind = "finish" => op.links \in Seq(Link) /\ op.at \in Nat /\ op.at <= Len(op.links)
    BY OpKinds DEF TypeOK
  <2>2. op.kind = "finish" => \A k \in 1 .. op.at : op.links[k] \in Link
    BY <2>1
  <2>3. op.kind = "finish" => \A k \in 1 .. op.at : op.links[k].branch \in Branches
    BY <2>2 DEF Link
  <2>4. OpSound'
    <3>1. op.kind = "finish" => Sound(op.id, op.links, gh)'
      BY <1>1, <1>3, <2>1 DEF AllSound, OpSound
    <3>2. op.kind = "finish" /\ op.found # 0 => op.found \in Branches
      BY OpKinds DEF TypeOK
    <3> QED
      BY <1>1, <1>2, <3>1, <3>2 DEF AllSound, OpSound, HasPr
  <2>5. Asked'
    BY <1>1, <1>2, <2>3 DEF Asked
  <2> QED
    BY <2>4, <2>5
<1>9. TypeOK'
  BY <1>1, <1>2 DEF TypeOK
<1> QED
  BY <1>1, <1>5, <1>6, <1>7, <1>8, <1>9 DEF AllSound, SyncSound, CliNumbered

-----------------------------------------------------------------------------
\* The theorems.

\* The files there are at first are sound.
LEMMA InvInit == Init => BInv
<1> SUFFICES ASSUME Init PROVE BInv
  OBVIOUS
<1>1. ASSUME NEW i \in Ids, i <= Len(Start)
      PROVE  StartTask(i) \in Task /\ Sound(i, StartTask(i).links, gh)
  <2> DEFINE ls == [k \in DOMAIN Start[i] |->
               [repo |-> Start[i][k].repo, pr |-> 0, branch |-> Start[i][k].branch]]
  <2>1. Start \in Seq(Seq(Place)) /\ i \in DOMAIN Start
    BY <1>1, LinkAssumption, Bounds DEF Ids
  <2>2. Start[i] \in Seq(Place)
    BY <2>1
  <2>3. \A k \in DOMAIN Start[i] : Start[i][k] \in Place
    BY <2>2
  <2>4. ASSUME NEW k \in DOMAIN Start[i]
        PROVE  /\ ls[k] \in Link /\ ls[k].repo = Start[i][k].repo
               /\ ls[k].branch = Start[i][k].branch /\ ls[k].pr = 0
               /\ [repo |-> ls[k].repo, branch |-> ls[k].branch] = Start[i][k]
    BY <2>3 DEF Link, Place
  <2>5. DOMAIN ls = DOMAIN Start[i]
    OBVIOUS
  <2>6. ls \in Seq(Link)
    <3>1. PICK n \in Nat : DOMAIN Start[i] = 1 .. n
      BY <2>2
    <3>2. ls \in [1 .. n -> Link]
      BY <2>4, <3>1
    <3> QED
      BY <3>1, <3>2
  <2>7. Sound(i, ls, gh)
    <3>1. \A j, k \in DOMAIN Start[i] : Start[i][j].repo = Start[i][k].repo => j = k
      BY <2>1, LinkAssumption
    <3>2. \A k \in DOMAIN Start[i] : Start[i][k] \in Places(i)
      BY <2>1 DEF Places
    <3> HIDE DEF ls
    <3> QED
      BY <2>4, <2>5, <3>1, <3>2 DEF Sound
  <2>8. NewTask \in Task /\ StartTask(i) = [NewTask EXCEPT !.links = ls]
    BY NewTaskSound DEF StartTask
  <2>9. [NewTask EXCEPT !.links = ls] \in Task /\ [NewTask EXCEPT !.links = ls].links = ls
    <3> HIDE DEF ls
    <3> QED
      BY <2>6, <2>8 DEF Task
  <2> QED
    BY <2>7, <2>8, <2>9
<1>2. /\ \A i \in Ids : file[i] = IF i <= Len(Start) THEN StartTask(i) ELSE Gone
      /\ file \in [Ids -> Task \cup {Gone, Torn}] /\ shown \in [Ids -> Task \cup {Gone}]
  BY <1>1 DEF Init
<1>3. FilesSound /\ ShownSound
  BY <1>1, <1>2 DEF Init, FilesSound, ShownSound, Parses
<1>4. Idle \in Io /\ Idle.step = "idle" /\ NoOp \in Op /\ NoOp.kind = "none"
  BY PlainOps DEF Idle, Io, NoOp
<1>5. io \in [Procs -> Io] /\ IoSound
  BY <1>4 DEF Init, IoSound
<1>6. op \in Op /\ op.kind = "none" /\ OpSound /\ Asked
  BY <1>4 DEF Init, OpSound, Asked
<1>7. /\ sync \in [running : BOOLEAN, targets : SUBSET Target] /\ sync.targets = {} /\ SyncSound
  BY DEF Init, SyncSound
<1>8. /\ cli \in [Creators -> [step : {"new", "created", "linked", "killed"}, id : {0} \cup Ids]]
      /\ CliNumbered
  BY DEF Init, CliNumbered
<1>9. gh \in [Branches -> PrStates] /\ live \in SUBSET Ids
        /\ ops \in 0 .. MaxOps /\ fails \in 0 .. MaxFails
  BY LinkAssumption, Bounds DEF Init
<1>10. TypeOK
  BY <1>2, <1>5, <1>6, <1>7, <1>8, <1>9 DEF TypeOK
<1> QED
  BY <1>3, <1>5, <1>6, <1>7, <1>8, <1>10 DEF BInv, AllSound

\* Every step keeps the invariant.
LEMMA InvStep == BInv /\ [Next]_vars => BInv'
<1> SUFFICES ASSUME BInv, [Next]_vars PROVE BInv'
  OBVIOUS
<1>1. CASE UNCHANGED vars
  <2>1. TypeOK'
    BY <1>1 DEF BInv, TypeOK, vars
  <2> QED
    BY <1>1, <2>1, Copies DEF BInv, AllSound, Asked, vars
<1>2. CASE Daemon
  BY <1>2, BoardStep, PlayStep, FinishStep, DeferStep, FileStep DEF Daemon, Procs
<1>3. CASE User \/ SessionEnds \/ Reload
  BY <1>3, UserStep, BoardStep
<1>4. CASE SyncStarts \/ Sync
  BY <1>4, SyncStep, FileStep DEF Sync, Procs
<1>5. CASE \E c \in Creators : Cli(c) \/ CliKilled(c)
  BY <1>5, CliStep, FileStep DEF Cli, Procs
<1>6. CASE (\E i \in Ids : ClaudeEdits(i)) \/ (\E b \in Branches : GitHub(b))
  BY <1>6, ClaudeStep, GitHubStep
<1> QED
  BY <1>1, <1>2, <1>3, <1>4, <1>5, <1>6 DEF Next

\* The invariant holds of every behaviour.
LEMMA Invariant == Spec => []BInv
  BY InvInit, InvStep, PTL DEF Spec

\* Type correctness: a finish never asks past its links, and the flag of the pr sync
\* is up as long as there is a target left.
THEOREM TypeCorrect == Spec => []TypeOK
<1>1. BInv => TypeOK
  BY DEF BInv
<1> QED
  BY <1>1, Invariant, PTL

\* A number on a link is that of the pull request of its branch, and that one exists,
\* whoever writes back what they read before whatever others have written since.
THEOREM Numbers == Spec => []NumbersFromGh
<1>1. BInv => NumbersFromGh
  BY DEF BInv, AllSound, FilesSound, Sound, NumbersFromGh, HasPr
<1> QED
  BY <1>1, Invariant, PTL

\* When finish marks a task merged, the pull request of every link the file then has to a
\* repository finish found in it is merged at that moment, although each was asked for
\* at another and the file has been rewritten since: what is merged stays merged, and the
\* link to a repository has the same branch in every copy of the task.
THEOREM Merged == Spec => []MergedMeansAll
<1>1. ASSUME BInv, Merging,
             NEW k \in DOMAIN file[op.id].links,
             NEW j \in DOMAIN op.links, op.links[j].repo = file[op.id].links[k].repo
      PROVE  /\ file[op.id].links[k].repo \in Mapped
             /\ gh[file[op.id].links[k].branch] = "merged"
  <2>1. /\ op.id \in Ids /\ op.links \in Seq(Link) /\ Parses(op.id)
        /\ op.kind = "finish" /\ op.merged /\ op.at = Len(op.links)
    BY <1>1, OpKinds DEF BInv, TypeOK, Merging, Verdict
  <2>2. op.links[j].repo \in Mapped /\ gh[op.links[j].branch] = "merged"
    <3>1. j \in 1 .. op.at
      BY <2>1
    <3> QED
      BY <1>1, <2>1, <3>1 DEF BInv, Asked
  <2>3. op.links[j].branch = file[op.id].links[k].branch
    <3> DEFINE p == [repo |-> op.links[j].repo, branch |-> op.links[j].branch]
               q == [repo |-> file[op.id].links[k].repo, branch |-> file[op.id].links[k].branch]
    <3>1. p \in Places(op.id)
      BY <1>1, <2>1 DEF BInv, AllSound, OpSound, Sound
    <3>2. q \in Places(op.id)
      BY <1>1, <2>1 DEF BInv, AllSound, FilesSound, Sound
    <3>3. p.repo = q.repo
      BY <1>1
    <3>4. p = q
      <4> HIDE DEF p, q
      <4> QED
        BY <2>1, <3>1, <3>2, <3>3, BranchAssumption DEF Ids
    <3> QED
      BY <3>4
  <2> QED
    BY <1>1, <2>2, <2>3
<1>2. BInv => MergedMeansAll
  BY <1>1 DEF MergedMeansAll
<1> QED
  BY <1>2, Invariant, PTL

=============================================================================
