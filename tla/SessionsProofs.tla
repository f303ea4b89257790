--------------------------- MODULE SessionsProofs ---------------------------
(***************************************************************************)
(* Proofs about Sessions, for every set of projects, tasks and session     *)
(* ids.                                                                    *)
(***************************************************************************)
EXTENDS Sessions, SelectionProofs

-----------------------------------------------------------------------------
\* Lists of cards.

\* What two cards of a list cannot have in common.
Clash(e, f) ==
  \/ e.uuid = f.uuid
  \/ e.kind = "play" /\ f.kind = "play" /\ e.project = f.project /\ e.task = f.task

Distinct(ss) == \A i, j \in DOMAIN ss : Clash(ss[i], ss[j]) => i = j

\* A list of cards, with what a card has besides its fields' types.
WellFormed(ss) ==
  /\ ss \in Seq(Entry)
  /\ \A e \in Cards(ss) :
       /\ e.pty = "none" => e.finished
       /\ e.kind = "setup" <=> e.task = NoTask

\* The same of the records of one project.
RecordsClash(r, s) ==
  \/ r.uuid = s.uuid
  \/ r.kind = "play" /\ s.kind = "play" /\ r.task = s.task

Readable(rs) ==
  /\ rs \in Seq(Record)
  /\ \A i, j \in DOMAIN rs : RecordsClash(rs[i], rs[j]) => i = j
  /\ \A r \in Cards(rs) : r.kind = "setup" <=> r.task = NoTask

LEMMA CardsType ==
  ASSUME NEW S, NEW s \in Seq(S)
  PROVE  Cards(s) \subseteq S
  BY DEF Cards

\* An id of a list is that of a card of it.
LEMMA IdsOfCards ==
  ASSUME NEW s
  PROVE  Ids(s) = {e.uuid : e \in Cards(s)}
  BY DEF Ids, Cards

LEMMA CardsOnly ==
  ASSUME NEW S, NEW s \in Seq(S), NEW A
  PROVE  Cards(Only(s, A)) = Cards(s) \cap A
<1>1. \A x \in Cards(Only(s, A)) : x \in Cards(s) /\ x \in A
  BY OnlyElements DEF Cards
<1>2. \A x \in Cards(s) : x \in A => x \in Cards(Only(s, A))
  BY OnlyElements DEF Cards
<1> QED
  BY <1>1, <1>2

LEMMA CardsConcat ==
  ASSUME NEW S, NEW s \in Seq(S), NEW t \in Seq(S)
  PROVE  /\ \A i \in DOMAIN (s \o t) :
              \/ i \in DOMAIN s /\ (s \o t)[i] = s[i]
              \/ i - Len(s) \in DOMAIN t /\ i \notin DOMAIN s /\ (s \o t)[i] = t[i - Len(s)]
         /\ Cards(s \o t) = Cards(s) \cup Cards(t)
<1> DEFINE u == s \o t
<1>1. /\ u \in Seq(S) /\ Len(u) = Len(s) + Len(t) /\ Len(s) \in Nat /\ Len(t) \in Nat
      /\ DOMAIN u = 1 .. Len(u) /\ DOMAIN s = 1 .. Len(s) /\ DOMAIN t = 1 .. Len(t)
      /\ \A i \in 1 .. Len(s) : u[i] = s[i]
      /\ \A i \in 1 .. Len(t) : u[Len(s) + i] = t[i]
  OBVIOUS
<1> HIDE DEF u
<1>2. \A i \in DOMAIN u :
        \/ i \in DOMAIN s /\ u[i] = s[i]
        \/ i - Len(s) \in DOMAIN t /\ i \notin DOMAIN s /\ u[i] = t[i - Len(s)]
  BY <1>1
<1>3. Cards(u) \subseteq Cards(s) \cup Cards(t)
  BY <1>2 DEF Cards
<1>4. Cards(s) \subseteq Cards(u)
  BY <1>1 DEF Cards
<1>5. Cards(t) \subseteq Cards(u)
  <2>1. \A i \in DOMAIN t : Len(s) + i \in DOMAIN u /\ u[Len(s) + i] = t[i]
    BY <1>1
  <2> QED
    BY <2>1 DEF Cards
<1> QED
  BY <1>2, <1>3, <1>4, <1>5 DEF u

LEMMA CardsAppend ==
  ASSUME NEW S, NEW s \in Seq(S), NEW x \in S
  PROVE  Cards(Append(s, x)) = Cards(s) \cup {x}
<1>1. /\ Append(s, x) \in Seq(S) /\ Len(Append(s, x)) = Len(s) + 1
      /\ Append(s, x)[Len(s) + 1] = x
      /\ \A i \in 1 .. Len(s) : Append(s, x)[i] = s[i]
      /\ DOMAIN s = 1 .. Len(s) /\ DOMAIN Append(s, x) = 1 .. Len(s) + 1
      /\ Len(s) \in Nat
  OBVIOUS
<1> DEFINE u == Append(s, x)
<1> HIDE DEF u
<1>2. /\ \A i \in DOMAIN u : (i \in DOMAIN s /\ u[i] = s[i]) \/ u[i] = x
      /\ \A i \in DOMAIN s : i \in DOMAIN u /\ u[i] = s[i]
      /\ Len(s) + 1 \in DOMAIN u /\ u[Len(s) + 1] = x
  BY <1>1 DEF u
<1>3. Cards(u) = Cards(s) \cup {x}
  BY <1>2 DEF Cards
<1> QED
  BY <1>3 DEF u

\* Cards chosen from a list are as distinct as those of the list ...
LEMMA DistinctOnly ==
  ASSUME NEW ss \in Seq(Entry), Distinct(ss), NEW A
  PROVE  Only(ss, A) \in Seq(Entry) /\ Distinct(Only(ss, A))
<1>1. PICK g : Embeds(ss, A, Len(ss), Only(ss, A), g)
  BY OnlyEmbeds
<1>2. Only(ss, A) \in Seq(Entry)
  BY OnlyType
<1> DEFINE q == Only(ss, A)
<1>3. Embeds(ss, A, Len(ss), q, g) /\ DOMAIN q = 1 .. Len(q) /\ DOMAIN ss = 1 .. Len(ss)
  BY <1>1, <1>2
<1> HIDE DEF q
<1>4. Distinct(q)
  <2> SUFFICES ASSUME NEW i \in DOMAIN q, NEW j \in DOMAIN q, Clash(q[i], q[j])
               PROVE  i = j
    BY DEF Distinct
  <2>1. /\ g[i] \in DOMAIN ss /\ g[j] \in DOMAIN ss
        /\ q[i] = ss[g[i]] /\ q[j] = ss[g[j]]
    BY <1>3 DEF Embeds
  <2>2. g[i] = g[j]
    BY <2>1 DEF Distinct
  <2>3. (i < j => g[i] < g[j]) /\ (j < i => g[j] < g[i])
    BY <1>3 DEF Embeds
  <2> QED
    BY <1>3, <2>1, <2>2, <2>3
<1> QED
  BY <1>2, <1>4 DEF q

\* ... and the same of records.
LEMMA ReadableOnly ==
  ASSUME NEW rs, Readable(rs), NEW A
  PROVE  Readable(Only(rs, A))
<1> USE DEF Readable
<1>1. PICK g : Embeds(rs, A, Len(rs), Only(rs, A), g)
  BY OnlyEmbeds
<1>2. Only(rs, A) \in Seq(Record) /\ Cards(Only(rs, A)) \subseteq Cards(rs)
  BY OnlyType, CardsOnly
<1> DEFINE q == Only(rs, A)
<1>3. Embeds(rs, A, Len(rs), q, g) /\ DOMAIN q = 1 .. Len(q) /\ DOMAIN rs = 1 .. Len(rs)
  BY <1>1, <1>2
<1> HIDE DEF q
<1>4. ASSUME NEW i \in DOMAIN q, NEW j \in DOMAIN q, RecordsClash(q[i], q[j])
      PROVE  i = j
  <2>1. /\ g[i] \in DOMAIN rs /\ g[j] \in DOMAIN rs
        /\ q[i] = rs[g[i]] /\ q[j] = rs[g[j]]
    BY <1>3 DEF Embeds
  <2>2. g[i] = g[j]
    BY <1>4, <2>1
  <2>3. (i < j => g[i] < g[j]) /\ (j < i => g[j] < g[i])
    BY <1>3 DEF Embeds
  <2> QED
    BY <1>3, <2>1, <2>2, <2>3
<1> QED
  BY <1>2, <1>4 DEF q

\* A card at the end.
Fits(ss, e) == \A f \in Cards(ss) : ~Clash(e, f) /\ ~Clash(f, e)

LEMMA DistinctAppend ==
  ASSUME NEW ss \in Seq(Entry), Distinct(ss), NEW e \in Entry, Fits(ss, e)
  PROVE  Distinct(Append(ss, e))
<1>1. /\ Append(ss, e)[Len(ss) + 1] = e
      /\ \A i \in DOMAIN Append(ss, e) :
           i = Len(ss) + 1 \/ (i \in DOMAIN ss /\ Append(ss, e)[i] = ss[i])
  OBVIOUS
<1> DEFINE u == Append(ss, e)
<1> HIDE DEF u
<1>2. ASSUME NEW i \in DOMAIN u, NEW j \in DOMAIN u, Clash(u[i], u[j])
      PROVE  i = j
  <2>1. i \in DOMAIN ss => u[i] \in Cards(ss) /\ u[i] = ss[i]
    BY <1>1 DEF u, Cards
  <2>2. j \in DOMAIN ss => u[j] \in Cards(ss) /\ u[j] = ss[j]
    BY <1>1 DEF u, Cards
  <2> QED
    BY <1>1, <1>2, <2>1, <2>2 DEF u, Distinct, Fits
<1> QED
  BY <1>2 DEF u, Distinct

\* Cards that keep who they are.
LEMMA DistinctSame ==
  ASSUME NEW ss, Distinct(ss), NEW u, DOMAIN u = DOMAIN ss,
         \A i \in DOMAIN ss : /\ u[i].uuid = ss[i].uuid /\ u[i].kind = ss[i].kind
                              /\ u[i].project = ss[i].project /\ u[i].task = ss[i].task
  PROVE  Distinct(u) /\ Ids(u) = Ids(ss)
  BY DEF Distinct, Clash, Ids

\* A list without one of its cards.
LEMMA WithoutOne ==
  ASSUME NEW ss \in Seq(Entry), Distinct(ss), NEW k \in DOMAIN ss
  PROVE  /\ Without(ss, k) \in Seq(Entry)
         /\ Distinct(Without(ss, k))
         /\ Cards(Without(ss, k)) = {e \in Cards(ss) : e.uuid # ss[k].uuid}
<1> DEFINE a == SubSeq(ss, 1, k - 1)
           b == SubSeq(ss, k + 1, Len(ss))
           n == Len(ss)
<1>1. n \in Nat /\ DOMAIN ss = 1 .. n /\ k \in 1 .. n
  OBVIOUS
<1>2. /\ a \in Seq(Entry) /\ Len(a) = k - 1
      /\ \A i \in 1 .. k - 1 : a[i] = ss[i]
  BY <1>1
<1>3. /\ b \in Seq(Entry) /\ Len(b) = n - k
      /\ \A i \in 1 .. n - k : b[i] = ss[k + i]
  BY <1>1
<1> DEFINE u == a \o b
<1> HIDE DEF a, b, n
<1>a. /\ u \in Seq(Entry) /\ Len(u) = Len(a) + Len(b) /\ DOMAIN u = 1 .. Len(u)
      /\ \A i \in 1 .. Len(a) : u[i] = a[i]
      /\ \A i \in 1 .. Len(b) : u[Len(a) + i] = b[i]
  <2>1. a \in Seq(Entry) /\ b \in Seq(Entry)
    BY <1>2, <1>3
  <2> QED
    BY <2>1
<1> HIDE DEF u
<1>4. /\ u \in Seq(Entry) /\ Len(u) = n - 1 /\ DOMAIN u = 1 .. n - 1
      /\ \A i \in 1 .. k - 1 : u[i] = a[i]
      /\ \A i \in 1 .. n - k : u[k - 1 + i] = b[i]
  BY <1>1, <1>2, <1>3, <1>a
<1> DEFINE g == [i \in 1 .. n - 1 |-> IF i < k THEN i ELSE i + 1]
<1>5. \A i \in 1 .. n - 1 : g[i] = IF i < k THEN i ELSE i + 1
  OBVIOUS
<1> HIDE DEF g
<1>6. \A i \in DOMAIN u : g[i] \in DOMAIN ss /\ g[i] # k /\ u[i] = ss[g[i]]
  <2> TAKE i \in DOMAIN u
  <2>1. CASE i < k
    BY <1>1, <1>2, <1>4, <1>5, <2>1
  <2>2. CASE ~ (i < k)
    <3>1. i - (k - 1) \in 1 .. n - k /\ i = k - 1 + (i - (k - 1))
      BY <1>1, <1>4, <2>2
    <3>2. u[i] = b[i - (k - 1)]
      BY <1>4, <3>1
    <3>3. u[i] = ss[k + (i - (k - 1))] /\ k + (i - (k - 1)) = i + 1
      BY <1>1, <1>3, <1>4, <3>1, <3>2
    <3> QED
      BY <1>1, <1>4, <1>5, <2>2, <3>3
  <2> QED
    BY <2>1, <2>2
<1>7. \A i, j \in DOMAIN u : g[i] = g[j] => i = j
  BY <1>1, <1>4, <1>5
<1>8. \A j \in DOMAIN ss : j # k => \E i \in DOMAIN u : g[i] = j
  <2> TAKE j \in DOMAIN ss
  <2> HAVE j # k
  <2>1. CASE j < k
    BY <1>1, <1>4, <1>5, <2>1
  <2>2. CASE j > k
    <3>1. j - 1 \in DOMAIN u /\ g[j - 1] = j
      BY <1>1, <1>4, <1>5, <2>2
    <3> QED
      BY <3>1
  <2> QED
    BY <1>1, <2>1, <2>2
<1>9. Distinct(u)
  BY <1>6, <1>7 DEF Distinct
<1>10. \A j \in DOMAIN ss : ss[j].uuid = ss[k].uuid => j = k
  BY DEF Distinct, Clash
<1>11. Cards(u) = {e \in Cards(ss) : e.uuid # ss[k].uuid}
  <2>1. \A i \in DOMAIN u : ss[g[i]] \in Cards(ss) /\ ss[g[i]].uuid # ss[k].uuid
    BY <1>6, <1>10 DEF Cards
  <2>2. \A j \in DOMAIN ss : ss[j].uuid # ss[k].uuid => ss[j] \in Cards(u)
    BY <1>6, <1>8 DEF Cards
  <2> QED
    BY <1>6, <2>1, <2>2 DEF Cards
<1> QED
  BY <1>4, <1>9, <1>11 DEF u, a, b, n, Without

-----------------------------------------------------------------------------
\* The inductive invariant.

\* The cards on the board, the files, the ids handed out and the closed ones.
\* The parts take them as arguments, because a step may change some of them first.

\* No id comes from nowhere.
Known(ss, ff, op) ==
  Ids(ss) \subseteq op /\ \A p \in Projects : Ids(ff[p]) \subseteq op

\* A session is on the disk of its own project only.
Owned(ss, ff) ==
  \A p, q \in Projects :
    /\ p # q => Ids(ff[p]) \cap Ids(ff[q]) = {}
    /\ \A e \in Cards(ss) : e.project # p => e.uuid \notin Ids(ff[p])

\* What is in memory is on the disk, the live sessions as unfinished.
OnDisk(ss, ff) ==
  \A e \in Cards(ss) :
    /\ e.uuid \in Ids(ff[e.project])
    /\ Live(e) => ToRecord(e) \in Cards(ff[e.project])

Somewhere(ss, ff, us) ==
  \A u \in us : u \in Ids(ss) \/ \E p \in Projects : u \in Ids(ff[p])

Stored(ss, ff, op, cl) ==
  /\ WellFormed(ss) /\ Distinct(ss)
  /\ ff \in [Projects -> Seq(Record)] /\ \A p \in Projects : Readable(ff[p])
  /\ op \in SUBSET Uuids /\ cl \in SUBSET op
  /\ Known(ss, ff, op) /\ Owned(ss, ff) /\ OnDisk(ss, ff) /\ Somewhere(ss, ff, op \ cl)

\* The projects with a card in the list.
Shown(ss) == {e.project : e \in Cards(ss)}

\* What is on the disk of the projects ps is in memory, but for the closed: writing
\* these files from memory loses nothing else.
InMemory(ss, ff, cl, ps) == \A p \in ps : Ids(ff[p]) \ cl \subseteq Ids(ss)

\* A session that runs.
Lives(ss, u) == \E e \in Cards(ss) : e.uuid = u /\ Live(e)

\* The events so far.
Truthful ==
  /\ echoed \subseteq closed
  /\ \A u \in Uuids : told[u] # "nothing" => u \in opened
  /\ up => \A u \in Uuids :
       /\ told[u] = "Started" => Lives(sessions, u)
       /\ u \notin closed /\ told[u] = "Finished" => ~Lives(sessions, u)
       /\ u \notin closed /\ told[u] # "nothing" => u \in Ids(sessions)

\* The types of what is not on the board or in the files.
RestType ==
  /\ up \in BOOLEAN
  /\ current \in Projects
  /\ worktrees \in SUBSET (Projects \X Tasks)
  /\ told \in [Uuids -> {"nothing", "Started", "Finished"}]
  /\ echoed \in SUBSET Uuids

IInv ==
  /\ RestType
  /\ Stored(sessions, file, opened, closed)
  /\ up => InMemory(sessions, file, closed, Shown(sessions) \cup {current})
  /\ ~up => sessions = << >>
  /\ Truthful

\* It implies the invariants.
LEMMA IInvImplies ==
  ASSUME IInv
  PROVE  TypeOK /\ OneCardPerTask /\ NothingLost /\ OwnProject /\ EventsTrackLife
<1> USE DEF IInv
<1>1. TypeOK
  <2>1. \A i \in DOMAIN sessions : sessions[i] \in Cards(sessions)
    BY DEF Cards
  <2> QED
    BY <2>1 DEF TypeOK, RestType, Stored, WellFormed
<1>2. OneCardPerTask
  BY DEF Stored, Distinct, Clash, OneCardPerTask
<1>3. NothingLost
  BY DEF Stored, Somewhere, NothingLost
<1>4. OwnProject
  BY DEF Stored, Owned, OwnProject
<1>5. EventsTrackLife
  <2>1. ASSUME up, NEW u \in Uuids
        PROVE  LET lives == \E e \in Cards(sessions) : e.uuid = u /\ Live(e)
               IN  /\ u \notin closed /\ told[u] # "nothing" => (told[u] = "Started" <=> lives)
                   /\ u \in closed /\ u \notin Ids(sessions) => told[u] # "Started"
    <3>1. Lives(sessions, u) => u \in Ids(sessions)
      BY IdsOfCards DEF Lives
    <3>2. told[u] \in {"nothing", "Started", "Finished"}
      BY DEF RestType
    <3> QED
      BY <2>1, <3>1, <3>2 DEF Truthful, Lives
  <2> QED
    BY <2>1 DEF EventsTrackLife, Truthful
<1> QED
  BY <1>1, <1>2, <1>3, <1>4, <1>5

-----------------------------------------------------------------------------
\* Writing the files.

\* A card and its record.
LEMMA RecordOf ==
  ASSUME NEW e \in Entry
  PROVE  /\ ToRecord(e) \in Record
         /\ ToRecord(e).uuid = e.uuid /\ ToRecord(e).kind = e.kind
         /\ ToRecord(e).task = e.task /\ ToRecord(e).finished = e.finished
  BY DEF ToRecord, Entry, Record

\* The records of a project in a list.
LEMMA OwnRecordsOf ==
  ASSUME NEW ss, WellFormed(ss), Distinct(ss), NEW p \in Projects
  PROVE  /\ Readable(OwnRecords(ss, p))
         /\ Cards(OwnRecords(ss, p)) = {ToRecord(e) : e \in {f \in Cards(ss) : f.project = p}}
<1> DEFINE A == {e \in Cards(ss) : e.project = p}
           q == Only(ss, A)
           rs == [i \in DOMAIN q |-> ToRecord(q[i])]
<1>1. OwnRecords(ss, p) = rs
  BY DEF OwnRecords
<1>2. ss \in Seq(Entry)
  BY DEF WellFormed
<1>3. q \in Seq(Entry) /\ Distinct(q)
  BY <1>2, DistinctOnly
<1>4. Cards(q) = Cards(ss) \cap A
  BY <1>2, CardsOnly
<1>5. \A i \in DOMAIN q : q[i] \in Cards(ss) /\ q[i].project = p /\ q[i] \in Entry
  <2>1. \A x \in Cards(q) : x \in Cards(ss) /\ x.project = p
    BY <1>4
  <2> HIDE DEF q
  <2>2. \A i \in DOMAIN q : q[i] \in Cards(q) /\ q[i] \in Entry
    BY <1>3 DEF Cards
  <2> QED
    BY <2>1, <2>2
<1> HIDE DEF q
<1>6. /\ rs \in Seq(Record) /\ DOMAIN rs = DOMAIN q
      /\ \A i \in DOMAIN q : rs[i] = ToRecord(q[i])
  <2>1. \A i \in DOMAIN q : ToRecord(q[i]) \in Record
    BY <1>5, RecordOf
  <2>2. DOMAIN q = 1 .. Len(q) /\ Len(q) \in Nat
    BY <1>3
  <2> QED
    BY <2>1, <2>2
<1> HIDE DEF rs
<1>7. ASSUME NEW i \in DOMAIN rs, NEW j \in DOMAIN rs, RecordsClash(rs[i], rs[j])
      PROVE  i = j
  <2>1. Clash(q[i], q[j])
    BY <1>5, <1>6, <1>7, RecordOf DEF RecordsClash, Clash
  <2> QED
    BY <1>3, <1>6, <2>1 DEF Distinct
<1>8. \A r \in Cards(rs) : r.kind = "setup" <=> r.task = NoTask
  <2> SUFFICES ASSUME NEW i \in DOMAIN rs
               PROVE  rs[i].kind = "setup" <=> rs[i].task = NoTask
    BY DEF Cards
  <2>1. q[i] \in Cards(ss) /\ q[i] \in Entry /\ rs[i] = ToRecord(q[i])
    BY <1>5, <1>6
  <2> QED
    BY <2>1, RecordOf DEF WellFormed
<1>9. Cards(rs) = {ToRecord(e) : e \in Cards(q)}
  BY <1>6 DEF Cards
<1>10. Cards(q) = A
  BY <1>4
<1> QED
  BY <1>1, <1>6, <1>7, <1>8, <1>9, <1>10 DEF Readable

\* What persist_sessions leaves in the file of each project.
LEMMA PersistedFiles ==
  ASSUME NEW ss, WellFormed(ss), Distinct(ss),
         file \in [Projects -> Seq(Record)], \A p \in Projects : Readable(file[p])
  PROVE  /\ Persisted(ss) \in [Projects -> Seq(Record)]
         /\ \A p \in Projects :
              /\ Readable(Persisted(ss)[p])
              /\ p \notin Shown(ss) => Persisted(ss)[p] = file[p]
              /\ p \in Shown(ss) =>
                   Cards(Persisted(ss)[p])
                     = {ToRecord(e) : e \in {f \in Cards(ss) : f.project = p}}
<1>1. \A p \in Projects : /\ p \notin Shown(ss) => Persisted(ss)[p] = file[p]
                          /\ p \in Shown(ss) => Persisted(ss)[p] = OwnRecords(ss, p)
  BY DEF Persisted, Shown
<1>2. \A p \in Projects : Readable(OwnRecords(ss, p))
  BY OwnRecordsOf
<1>3. \A p \in Projects : Readable(Persisted(ss)[p])
  BY <1>1, <1>2
<1>4. Persisted(ss) \in [Projects -> Seq(Record)]
  <2>1. \A p \in Projects : Persisted(ss)[p] \in Seq(Record)
    BY <1>3 DEF Readable
  <2> QED
    BY <2>1 DEF Persisted
<1> QED
  BY <1>1, <1>3, <1>4, OwnRecordsOf

\* The same, told by ids.
LEMMA PersistedIds ==
  ASSUME NEW ss, WellFormed(ss), Distinct(ss),
         file \in [Projects -> Seq(Record)], \A p \in Projects : Readable(file[p]),
         NEW p \in Projects
  PROVE  /\ p \notin Shown(ss) => Ids(Persisted(ss)[p]) = Ids(file[p])
         /\ p \in Shown(ss) =>
              /\ \A u \in Ids(Persisted(ss)[p]) : \E e \in Cards(ss) : e.project = p /\ e.uuid = u
              /\ \A e \in Cards(ss) :
                   e.project = p => /\ e.uuid \in Ids(Persisted(ss)[p])
                                    /\ ToRecord(e) \in Cards(Persisted(ss)[p])
<1>1. CASE p \notin Shown(ss)
  BY <1>1, PersistedFiles
<1>2. CASE p \in Shown(ss)
  <2> DEFINE rs == Persisted(ss)[p]
  <2>1. Cards(rs) = {ToRecord(e) : e \in {f \in Cards(ss) : f.project = p}}
    BY <1>2, PersistedFiles
  <2>2. Ids(rs) = {r.uuid : r \in Cards(rs)}
    BY IdsOfCards
  <2> HIDE DEF rs
  <2>3. \A e \in Cards(ss) : ToRecord(e).uuid = e.uuid
    BY CardsType, RecordOf DEF WellFormed
  <2> QED
    BY <1>2, <2>1, <2>2, <2>3 DEF rs
<1> QED
  BY <1>1, <1>2

\* A change of the list, written to the disk: what is new in it is new, what is gone
\* is closed, and no card gets to a project that has its files elsewhere.
LEMMA StoredPersisted ==
  ASSUME Stored(sessions, file, opened, closed),
         InMemory(sessions, file, closed, Shown(sessions) \cup {current}),
         NEW ss, WellFormed(ss), Distinct(ss), NEW op \in SUBSET Uuids, NEW cl \in SUBSET op,
         opened \subseteq op, closed \subseteq cl,
         Ids(ss) \subseteq op, op \ opened \subseteq Ids(ss), Ids(sessions) \ cl \subseteq Ids(ss),
         Shown(ss) \subseteq Shown(sessions) \cup {current}, current \in Projects,
         \A e \in Cards(ss), p \in Projects : e.project # p => e.uuid \notin Ids(file[p])
  PROVE  /\ Stored(ss, Persisted(ss), op, cl)
         /\ InMemory(ss, Persisted(ss), cl, Shown(ss) \cup {current})
         /\ \A p \in Shown(ss) : Ids(Persisted(ss)[p]) \subseteq Ids(ss)
<1> DEFINE ff == Persisted(ss)
<1>1. ff \in [Projects -> Seq(Record)] /\ \A p \in Projects : Readable(ff[p])
  BY PersistedFiles DEF Stored
<1>2. \A p \in Projects :
        /\ p \notin Shown(ss) => Ids(ff[p]) = Ids(file[p])
        /\ p \in Shown(ss) =>
             /\ \A u \in Ids(ff[p]) : \E e \in Cards(ss) : e.project = p /\ e.uuid = u
             /\ \A e \in Cards(ss) :
                  e.project = p => e.uuid \in Ids(ff[p]) /\ ToRecord(e) \in Cards(ff[p])
  BY PersistedIds DEF Stored
<1> HIDE DEF ff
<1>3. \A e \in Cards(ss) : e \in Entry /\ e.project \in Projects /\ e.project \in Shown(ss)
  <2>1. \A e \in Cards(ss) : e \in Entry
    BY CardsType DEF WellFormed
  <2> QED
    BY <2>1 DEF Entry, Shown
<1>4. \A e \in Cards(ss) : e.uuid \in Ids(ss)
  BY IdsOfCards
<1>5. \A p \in Shown(ss) : Ids(ff[p]) \subseteq Ids(ss)
  <2> SUFFICES ASSUME NEW p \in Shown(ss), NEW u \in Ids(ff[p])
               PROVE  u \in Ids(ss)
    OBVIOUS
  <2>1. p \in Projects
    BY <1>3 DEF Shown
  <2>2. PICK e \in Cards(ss) : e.project = p /\ e.uuid = u
    BY <1>2, <2>1
  <2> QED
    BY <1>4, <2>2
<1>6. Known(ss, ff, op)
  <2>1. \A p \in Projects : Ids(file[p]) \subseteq op
    BY DEF Stored, Known
  <2> QED
    BY <1>2, <1>5, <2>1 DEF Known
<1>7. Owned(ss, ff)
  <2>1. ASSUME NEW p \in Projects, NEW q \in Projects, p # q, NEW u \in Ids(ff[p]) \cap Ids(ff[q])
        PROVE  FALSE
    <3>1. CASE p \notin Shown(ss) /\ q \notin Shown(ss)
      BY <1>2, <2>1, <3>1 DEF Stored, Owned
    <3>2. CASE p \in Shown(ss) /\ q \notin Shown(ss)
      BY <1>2, <2>1, <3>2
    <3>3. CASE p \notin Shown(ss) /\ q \in Shown(ss)
      BY <1>2, <2>1, <3>3
    <3>4. CASE p \in Shown(ss) /\ q \in Shown(ss)
      <4>1. PICK e \in Cards(ss) : e.project = p /\ e.uuid = u
        BY <1>2, <2>1, <3>4
      <4>2. PICK f \in Cards(ss) : f.project = q /\ f.uuid = u
        BY <1>2, <2>1, <3>4
      <4>3. e = f
        BY <4>1, <4>2 DEF Distinct, Clash, Cards
      <4> QED
        BY <2>1, <4>1, <4>2, <4>3
    <3> QED
      BY <3>1, <3>2, <3>3, <3>4
  <2>2. ASSUME NEW p \in Projects, NEW e \in Cards(ss), e.project # p, e.uuid \in Ids(ff[p])
        PROVE  FALSE
    <3>1. CASE p \notin Shown(ss)
      BY <1>2, <2>2, <3>1
    <3>2. CASE p \in Shown(ss)
      <4>1. PICK f \in Cards(ss) : f.project = p /\ f.uuid = e.uuid
        BY <1>2, <2>2, <3>2
      <4>2. e = f
        BY <4>1 DEF Distinct, Clash, Cards
      <4> QED
        BY <2>2, <4>1, <4>2
    <3> QED
      BY <3>1, <3>2
  <2> QED
    BY <2>1, <2>2 DEF Owned
<1>8. OnDisk(ss, ff)
  BY <1>2, <1>3 DEF OnDisk
<1>9. InMemory(ss, ff, cl, Shown(ss) \cup {current})
  <2>1. ASSUME current \notin Shown(ss), NEW u \in Ids(ff[current]) \ cl
        PROVE  u \in Ids(ss)
    <3>1. u \in Ids(file[current]) \ closed
      BY <1>2, <2>1
    <3>2. u \in Ids(sessions)
      BY <3>1 DEF InMemory
    <3> QED
      BY <2>1, <3>2
  <2> QED
    BY <1>5, <2>1 DEF InMemory
<1>10. Somewhere(ss, ff, op \ cl)
  <2> SUFFICES ASSUME NEW u \in op \ cl, u \notin Ids(ss)
               PROVE  \E p \in Projects : u \in Ids(ff[p])
    BY DEF Somewhere
  <2>1. u \in opened \ closed /\ u \notin Ids(sessions)
    OBVIOUS
  <2>2. PICK p \in Projects : u \in Ids(file[p])
    BY <2>1 DEF Stored, Somewhere
  <2>3. p \notin Shown(ss)
    <3>1. p \in Shown(sessions) \cup {current} => u \in Ids(sessions)
      BY <2>1, <2>2 DEF InMemory
    <3> QED
      BY <2>1, <3>1
  <2> QED
    BY <1>2, <2>2, <2>3
<1> QED
  BY <1>1, <1>5, <1>6, <1>7, <1>8, <1>9, <1>10 DEF Stored, ff

-----------------------------------------------------------------------------
\* Reading them back.

LEMMA RehydratedCard ==
  ASSUME NEW p \in Projects, NEW r \in Record, r.kind = "setup" <=> r.task = NoTask, NEW failing
  PROVE  LET e == Rehydrated(p, r, failing) IN
         /\ e \in Entry
         /\ e.uuid = r.uuid /\ e.kind = r.kind /\ e.project = p /\ e.task = r.task
         /\ e.pty = "none" => e.finished
         /\ e.kind = "setup" <=> e.task = NoTask
         /\ Live(e) => ToRecord(e) = r
<1> DEFINE resumed == ~r.finished /\ CwdExists(p, r) /\ r.uuid \notin failing
           e == Rehydrated(p, r, failing)
<1>1. e = [uuid |-> r.uuid, kind |-> r.kind, project |-> p, task |-> r.task,
           pty |-> IF resumed THEN "running" ELSE "none", finished |-> ~resumed]
  BY DEF Rehydrated
<1>2. /\ r.uuid \in Uuids /\ r.kind \in Kinds /\ r.task \in Tasks \cup {NoTask}
      /\ r.finished \in BOOLEAN
      /\ r = [uuid |-> r.uuid, kind |-> r.kind, task |-> r.task, finished |-> r.finished]
  BY DEF Record
<1>3. resumed => r.finished = FALSE
  BY <1>2
<1> HIDE DEF resumed
<1>4. CASE resumed
  <2>1. e = [uuid |-> r.uuid, kind |-> r.kind, project |-> p, task |-> r.task,
             pty |-> "running", finished |-> FALSE]
    BY <1>1, <1>4
  <2>2. ToRecord(e) = r
    BY <1>2, <1>3, <1>4, <2>1 DEF ToRecord
  <2> QED
    BY <1>2, <2>1, <2>2 DEF Entry
<1>5. CASE ~resumed
  <2>1. e = [uuid |-> r.uuid, kind |-> r.kind, project |-> p, task |-> r.task,
             pty |-> "none", finished |-> TRUE]
    BY <1>1, <1>5
  <2> QED
    BY <1>2, <2>1 DEF Entry, Live
<1> QED
  BY <1>4, <1>5

\* rehydrate_sessions adds to a list what it does not have, if it has all or nothing
\* of the project.
LEMMA RehydrateStored ==
  ASSUME NEW ss, NEW ff, NEW op, NEW cl, Stored(ss, ff, op, cl), NEW p \in Projects, NEW failing,
         p \in Shown(ss) => Ids(ff[p]) \subseteq Ids(ss),
         InMemory(ss, ff, cl, Shown(ss))
  PROVE  LET new == Rehydrate(p, ss, ff, failing) IN
         /\ Stored(new, ff, op, cl)
         /\ InMemory(new, ff, cl, Shown(new) \cup {p})
         /\ Cards(ss) \subseteq Cards(new)
         /\ \A e \in Cards(new) : e \in Cards(ss) \/ e.uuid \notin Ids(ss)
<1> DEFINE A == {r \in Cards(ff[p]) : r.uuid \notin Ids(ss)}
           recs == Only(ff[p], A)
           back == [i \in DOMAIN recs |-> Rehydrated(p, recs[i], failing)]
           new == ss \o back
<1>1. Rehydrate(p, ss, ff, failing) = new
  BY DEF Rehydrate
<1>2. ss \in Seq(Entry) /\ Readable(ff[p]) /\ ff[p] \in Seq(Record)
  BY DEF Stored, WellFormed, Readable
<1>3. Readable(recs) /\ recs \in Seq(Record)
  BY <1>2, ReadableOnly DEF Readable
<1>4. Cards(recs) = A
  BY <1>2, CardsOnly
<1> HIDE DEF recs
<1>5. \A i \in DOMAIN recs :
        /\ recs[i] \in Cards(ff[p]) /\ recs[i].uuid \notin Ids(ss)
        /\ recs[i] \in Record /\ (recs[i].kind = "setup" <=> recs[i].task = NoTask)
  <2>1. \A i \in DOMAIN recs : recs[i] \in Cards(recs)
    BY DEF Cards
  <2> QED
    BY <1>3, <1>4, <2>1 DEF Readable
<1>6. \A i \in DOMAIN recs :
        LET e == Rehydrated(p, recs[i], failing) IN
        /\ e \in Entry
        /\ e.uuid = recs[i].uuid /\ e.kind = recs[i].kind /\ e.project = p /\ e.task = recs[i].task
        /\ e.pty = "none" => e.finished
        /\ e.kind = "setup" <=> e.task = NoTask
        /\ Live(e) => ToRecord(e) = recs[i]
  BY <1>5, RehydratedCard
<1>7. /\ back \in Seq(Entry) /\ DOMAIN back = DOMAIN recs
      /\ \A i \in DOMAIN recs : back[i] = Rehydrated(p, recs[i], failing)
  <2>1. DOMAIN recs = 1 .. Len(recs) /\ Len(recs) \in Nat
    BY <1>3
  <2>2. \A i \in DOMAIN recs : Rehydrated(p, recs[i], failing) \in Entry
    BY <1>6
  <2> QED
    BY <2>1, <2>2
<1> HIDE DEF back
<1>8. \A i \in DOMAIN back :
        /\ back[i] \in Entry
        /\ back[i].uuid = recs[i].uuid /\ back[i].kind = recs[i].kind
        /\ back[i].project = p /\ back[i].task = recs[i].task
        /\ back[i].pty = "none" => back[i].finished
        /\ back[i].kind = "setup" <=> back[i].task = NoTask
        /\ Live(back[i]) => ToRecord(back[i]) = recs[i]
  BY <1>6, <1>7
<1>9. /\ \A i \in DOMAIN new :
           \/ i \in DOMAIN ss /\ new[i] = ss[i]
           \/ i - Len(ss) \in DOMAIN back /\ i \notin DOMAIN ss /\ new[i] = back[i - Len(ss)]
      /\ Cards(new) = Cards(ss) \cup Cards(back)
  BY <1>2, <1>7, CardsConcat
<1>10. new \in Seq(Entry)
  BY <1>2, <1>7
<1> HIDE DEF new
<1>11. \A e \in Cards(back) :
         /\ e \in Entry /\ e.project = p
         /\ e.pty = "none" => e.finished
         /\ e.kind = "setup" <=> e.task = NoTask
         /\ e.uuid \notin Ids(ss)
         /\ \E r \in Cards(ff[p]) : r.uuid = e.uuid /\ (Live(e) => ToRecord(e) = r)
  <2> SUFFICES ASSUME NEW i \in DOMAIN back
               PROVE  /\ back[i] \in Entry /\ back[i].project = p
                      /\ back[i].pty = "none" => back[i].finished
                      /\ back[i].kind = "setup" <=> back[i].task = NoTask
                      /\ back[i].uuid \notin Ids(ss)
                      /\ \E r \in Cards(ff[p]) :
                           r.uuid = back[i].uuid /\ (Live(back[i]) => ToRecord(back[i]) = r)
    BY DEF Cards
  <2>1. recs[i] \in Cards(ff[p]) /\ recs[i].uuid \notin Ids(ss)
    BY <1>5, <1>7
  <2> QED
    BY <1>8, <2>1
<1>12. \A r \in Cards(ff[p]) : r.uuid \in Ids(ss) \/ r.uuid \in Ids(back)
  <2> SUFFICES ASSUME NEW r \in A
               PROVE  r.uuid \in Ids(back)
    OBVIOUS
  <2>1. PICK i \in DOMAIN recs : recs[i] = r
    BY <1>4 DEF Cards
  <2>2. back[i].uuid = r.uuid /\ i \in DOMAIN back
    BY <1>7, <1>8, <2>1
  <2> QED
    BY <2>2 DEF Ids
<1>13. WellFormed(new)
  BY <1>9, <1>10, <1>11 DEF Stored, WellFormed
<1>14. Distinct(new)
  <2>1. ASSUME NEW i \in DOMAIN back, NEW j \in DOMAIN back, Clash(back[i], back[j])
        PROVE  i = j
    <3>1. RecordsClash(recs[i], recs[j])
      BY <1>8, <2>1 DEF Clash, RecordsClash
    <3> QED
      BY <1>3, <1>7, <3>1 DEF Readable
  <2>2. ASSUME NEW i \in DOMAIN ss, NEW j \in DOMAIN back
        PROVE  ~Clash(ss[i], back[j]) /\ ~Clash(back[j], ss[i])
    <3>1. ss[i] \in Cards(ss) /\ ss[i].uuid \in Ids(ss)
      BY DEF Cards, Ids
    <3>2. back[j] \in Cards(back)
      BY DEF Cards
    <3>3. ss[i].uuid # back[j].uuid
      BY <1>11, <3>1, <3>2
    <3>4. ss[i].project # p
      <4> SUFFICES ASSUME ss[i].project = p PROVE FALSE
        OBVIOUS
      <4>1. Ids(ff[p]) \subseteq Ids(ss)
        BY <3>1 DEF Shown
      <4>2. PICK r \in Cards(ff[p]) : r.uuid = back[j].uuid
        BY <1>11, <3>2
      <4>3. r.uuid \in Ids(ff[p])
        BY IdsOfCards
      <4> QED
        BY <1>11, <3>2, <4>1, <4>2, <4>3
    <3> QED
      BY <1>8, <3>3, <3>4 DEF Clash
  <2>3. \A i, j \in DOMAIN ss : Clash(ss[i], ss[j]) => i = j
    BY DEF Stored, Distinct
  <2> SUFFICES ASSUME NEW i \in DOMAIN new, NEW j \in DOMAIN new, Clash(new[i], new[j])
               PROVE  i = j
    BY DEF Distinct
  <2>4. i \in Nat /\ j \in Nat /\ Len(ss) \in Nat
    BY <1>2, <1>10
  <2>5. CASE i \in DOMAIN ss
    <3>1. new[i] = ss[i]
      BY <1>9, <2>5
    <3>2. j \in DOMAIN ss /\ new[j] = ss[j]
      BY <1>9, <2>2, <2>5, <3>1
    <3> QED
      BY <2>3, <2>5, <3>1, <3>2
  <2>6. CASE i \notin DOMAIN ss
    <3>1. i - Len(ss) \in DOMAIN back /\ new[i] = back[i - Len(ss)]
      BY <1>9, <2>6
    <3>2. j - Len(ss) \in DOMAIN back /\ new[j] = back[j - Len(ss)]
      BY <1>9, <2>2, <3>1
    <3>3. i - Len(ss) = j - Len(ss)
      BY <2>1, <3>1, <3>2
    <3> QED
      BY <2>4, <3>3
  <2> QED
    BY <2>5, <2>6
<1>15. Ids(ss) \subseteq Ids(new) /\ Ids(back) \subseteq Ids(new)
  BY <1>9, IdsOfCards
<1>16. \A e \in Cards(back) : e.uuid \in Ids(ff[p])
  BY <1>11, IdsOfCards
<1>17. Known(new, ff, op)
  <2>1. \A e \in Cards(new) : e.uuid \in op
    BY <1>9, <1>16, IdsOfCards DEF Stored, Known
  <2> QED
    BY <2>1, IdsOfCards DEF Stored, Known
<1>18. Owned(new, ff)
  <2>1. ASSUME NEW q \in Projects, NEW e \in Cards(back), e.project # q
        PROVE  e.uuid \notin Ids(ff[q])
    <3>1. p # q /\ e.uuid \in Ids(ff[p])
      BY <1>11, <1>16, <2>1
    <3> QED
      BY <3>1 DEF Stored, Owned
  <2> QED
    BY <1>9, <2>1 DEF Stored, Owned
<1>19. OnDisk(new, ff)
  <2>1. ASSUME NEW e \in Cards(back)
        PROVE  /\ e.uuid \in Ids(ff[e.project])
               /\ Live(e) => ToRecord(e) \in Cards(ff[e.project])
    BY <1>11, <1>16
  <2> QED
    BY <1>9, <2>1 DEF Stored, OnDisk
<1>20. Somewhere(new, ff, op \ cl)
  BY <1>15 DEF Stored, Somewhere
<1>21. Ids(ff[p]) \subseteq Ids(new)
  BY <1>12, <1>15, IdsOfCards
<1>22. InMemory(new, ff, cl, Shown(new) \cup {p})
  <2>1. Shown(new) \cup {p} \subseteq Shown(ss) \cup {p}
    BY <1>9, <1>11 DEF Shown
  <2> QED
    BY <1>15, <1>21, <2>1 DEF InMemory
<1>23. Stored(new, ff, op, cl)
  BY <1>13, <1>14, <1>17, <1>18, <1>19, <1>20 DEF Stored
<1> QED
  BY <1>1, <1>9, <1>11, <1>22, <1>23

-----------------------------------------------------------------------------
\* Steps that leave the files alone.

\* f is e a moment later: it is who it was, and did not get live or get a new record.
Same(f, e) ==
  f.uuid = e.uuid /\ f.kind = e.kind /\ f.project = e.project /\ f.task = e.task

Later(f, e) ==
  Same(f, e) /\ (Live(f) => Live(e) /\ ToRecord(f) = ToRecord(e))

Sound(e) ==
  /\ e \in Entry
  /\ e.pty = "none" => e.finished
  /\ e.kind = "setup" <=> e.task = NoTask

LEMMA WellFormedAt ==
  ASSUME NEW ss \in Seq(Entry), \A i \in DOMAIN ss : Sound(ss[i])
  PROVE  WellFormed(ss)
  BY DEF WellFormed, Cards, Sound

LEMMA StoredQuiet ==
  ASSUME NEW ss, NEW ff, NEW op, NEW cl, Stored(ss, ff, op, cl),
         NEW new, WellFormed(new), DOMAIN new = DOMAIN ss,
         \A i \in DOMAIN ss : Later(new[i], ss[i])
  PROVE  /\ Stored(new, ff, op, cl)
         /\ Ids(new) = Ids(ss) /\ Shown(new) = Shown(ss)
<1>1. Distinct(new) /\ Ids(new) = Ids(ss)
  BY DistinctSame DEF Stored, Later, Same
<1>2. \A e \in Cards(new) : \E f \in Cards(ss) :
        /\ e.uuid = f.uuid /\ e.project = f.project
        /\ Live(e) => Live(f) /\ ToRecord(e) = ToRecord(f)
  BY DEF Cards, Later, Same
<1>3. \A f \in Cards(ss) : \E e \in Cards(new) : e.project = f.project
  BY DEF Cards, Later, Same
<1>4. Shown(new) = Shown(ss)
  BY <1>2, <1>3 DEF Shown
<1>5. Owned(new, ff)
  BY <1>2 DEF Stored, Owned
<1>6. OnDisk(new, ff)
  BY <1>2 DEF Stored, OnDisk
<1>7. Known(new, ff, op) /\ Somewhere(new, ff, op \ cl)
  BY <1>1 DEF Stored, Known, Somewhere
<1> QED
  BY <1>1, <1>4, <1>5, <1>6, <1>7 DEF Stored

\* Of distinct cards, the one at i tells whether its id runs.
LEMMA LivesAt ==
  ASSUME NEW ss, Distinct(ss), NEW i \in DOMAIN ss
  PROVE  Lives(ss, ss[i].uuid) <=> Live(ss[i])
<1>1. \A j \in DOMAIN ss : ss[j].uuid = ss[i].uuid => j = i
  BY DEF Distinct, Clash
<1> QED
  BY <1>1 DEF Lives, Cards

\* Sessions end, and their ends are told.
LEMMA TruthfulEnd ==
  ASSUME IInv, up, up', NEW us \in SUBSET Uuids, Tell(us, "Finished"),
         opened' = opened, closed \subseteq closed',
         \A u \in us : Lives(sessions, u),
         \A u \in Uuids : Lives(sessions', u) <=> Lives(sessions, u) /\ u \notin us,
         Ids(sessions) \ closed' \subseteq Ids(sessions')
  PROVE  Truthful' /\ told' \in [Uuids -> {"nothing", "Started", "Finished"}]
                   /\ echoed' \in SUBSET Uuids
<1> USE DEF IInv, RestType
<1>1. /\ told' \in [Uuids -> {"nothing", "Started", "Finished"}]
      /\ \A u \in Uuids : told'[u] = IF u \in us THEN "Finished" ELSE told[u]
      /\ echoed' = echoed \cup {u \in us : told[u] = "Finished"}
  BY DEF Tell
<1>2. \A u \in Uuids : Lives(sessions, u) => u \in Ids(sessions)
  BY IdsOfCards DEF Lives
<1>3. Ids(sessions) \subseteq opened
  BY DEF Stored, Known
<1>4. \A u \in us : told[u] = "Finished" => u \in closed
  BY DEF Truthful
<1> QED
  BY <1>1, <1>2, <1>3, <1>4 DEF Truthful

\* Nothing happens to what runs.
LEMMA TruthfulQuiet ==
  ASSUME IInv, up, up', UNCHANGED <<told, echoed, opened, closed>>,
         \A u \in Uuids : Lives(sessions, u) => Lives(sessions', u),
         \A u \in Uuids : u \in Ids(sessions) /\ Lives(sessions', u) => Lives(sessions, u),
         \A u \in Ids(sessions) : u \in Ids(sessions')
  PROVE  Truthful'
  BY DEF IInv, Truthful

\* The entry i of a list of cards.
LEMMA EntryAt ==
  ASSUME IInv, NEW i \in DOMAIN sessions
  PROVE  /\ sessions[i] \in Cards(sessions) /\ Sound(sessions[i])
         /\ sessions \in Seq(Entry)
         /\ sessions[i].uuid \in Ids(sessions)
         /\ sessions[i].project \in Shown(sessions)
         /\ sessions[i].uuid \in opened /\ up
         /\ DOMAIN sessions = 1 .. Len(sessions) /\ Len(sessions) \in Nat
<1>1. sessions \in Seq(Entry)
  BY DEF IInv, Stored, WellFormed
<1>2. sessions[i] \in Cards(sessions)
  BY DEF Cards
<1>3. sessions[i].uuid \in Ids(sessions)
  BY DEF Ids
<1>4. up
  <2>1. sessions # << >>
    BY <1>1
  <2> QED
    BY <2>1 DEF IInv, RestType
<1> QED
  BY <1>1, <1>2, <1>3, <1>4 DEF IInv, Stored, WellFormed, Known, Shown, Sound

\* What becomes of a card.
LEMMA CardExited ==
  ASSUME NEW e, Sound(e), e.pty = "running"
  PROVE  LET f == [e EXCEPT !.pty = "exited"] IN
         Sound(f) /\ Later(f, e) /\ (Live(f) <=> Live(e))
  BY DEF Sound, Later, Same, Live, ToRecord, Entry

LEMMA CardFinished ==
  ASSUME NEW e, Sound(e)
  PROVE  LET f == [e EXCEPT !.finished = TRUE] IN Sound(f) /\ Later(f, e) /\ ~Live(f)
  BY DEF Sound, Later, Same, Live, ToRecord, Entry

LEMMA CardHistory ==
  ASSUME NEW e, Sound(e)
  PROVE  LET f == [e EXCEPT !.pty = "none", !.finished = TRUE] IN
         Sound(f) /\ Later(f, e) /\ ~Live(f)
  BY DEF Sound, Later, Same, Live, ToRecord, Entry

LEMMA CardUnchanged ==
  ASSUME NEW e
  PROVE  Later(e, e)
  BY DEF Later, Same

\* The cards at ended, and no others, stop being live.
LEMMA LivesLess ==
  ASSUME NEW ss, Distinct(ss), NEW new, DOMAIN new = DOMAIN ss,
         \A i \in DOMAIN ss : Later(new[i], ss[i]),
         NEW ended \in SUBSET DOMAIN ss,
         \A i \in DOMAIN ss : Live(new[i]) <=> Live(ss[i]) /\ i \notin ended
  PROVE  \A u : Lives(new, u) <=> Lives(ss, u) /\ u \notin {ss[i].uuid : i \in ended}
<1> TAKE u
<1>1. \A i \in DOMAIN ss : new[i].uuid = ss[i].uuid
  BY DEF Later, Same
<1>2. \A i \in DOMAIN ss : ss[i].uuid \in {ss[j].uuid : j \in ended} <=> i \in ended
  BY DEF Distinct, Clash
<1>3. ASSUME Lives(new, u)
      PROVE  Lives(ss, u) /\ u \notin {ss[i].uuid : i \in ended}
  <2>1. PICK j \in DOMAIN ss : new[j].uuid = u /\ Live(new[j])
    BY <1>3 DEF Lives, Cards
  <2>2. ss[j].uuid = u /\ Live(ss[j]) /\ u \notin {ss[i].uuid : i \in ended}
    BY <1>1, <1>2, <2>1
  <2> QED
    BY <2>2 DEF Lives, Cards
<1>4. ASSUME Lives(ss, u), u \notin {ss[i].uuid : i \in ended}
      PROVE  Lives(new, u)
  <2>1. PICK j \in DOMAIN ss : ss[j].uuid = u /\ Live(ss[j])
    BY <1>4 DEF Lives, Cards
  <2>2. new[j].uuid = u /\ Live(new[j]) /\ j \in DOMAIN new
    BY <1>1, <1>2, <1>4, <2>1
  <2> QED
    BY <2>2 DEF Lives, Cards
<1> QED
  BY <1>3, <1>4

LEMMA ProcessExitStep ==
  ASSUME IInv, NEW i \in DOMAIN sessions, ProcessExit(i)
  PROVE  IInv'
<1>1. /\ Sound(sessions[i]) /\ up
      /\ sessions \in Seq(Entry) /\ DOMAIN sessions = 1 .. Len(sessions)
      /\ Len(sessions) \in Nat
      /\ \A j \in DOMAIN sessions : Sound(sessions[j])
  BY EntryAt
<1> DEFINE f == [sessions[i] EXCEPT !.pty = "exited"]
<1>2. Sound(f) /\ Later(f, sessions[i]) /\ (Live(f) <=> Live(sessions[i]))
  BY <1>1, CardExited DEF ProcessExit
<1>3. sessions' = [sessions EXCEPT ![i] = f]
  BY DEF ProcessExit
<1>a. UNCHANGED <<up, current, file, worktrees, told, echoed, opened, closed>>
  BY DEF ProcessExit
<1> HIDE DEF f
<1>4. /\ sessions' \in Seq(Entry) /\ DOMAIN sessions' = DOMAIN sessions
      /\ \A j \in DOMAIN sessions : sessions'[j] = IF j = i THEN f ELSE sessions[j]
  BY <1>1, <1>2, <1>3 DEF Sound
<1>5. \A j \in DOMAIN sessions :
        /\ Sound(sessions'[j]) /\ Later(sessions'[j], sessions[j])
        /\ Live(sessions'[j]) <=> Live(sessions[j])
  BY <1>1, <1>2, <1>4, CardUnchanged
<1>6. WellFormed(sessions')
  BY <1>4, <1>5, WellFormedAt
<1>7. /\ Stored(sessions', file, opened, closed)
      /\ Ids(sessions') = Ids(sessions) /\ Shown(sessions') = Shown(sessions)
  BY <1>4, <1>5, <1>6, StoredQuiet DEF IInv
<1>8. \A u \in Uuids : Lives(sessions', u) <=> Lives(sessions, u)
  <2>1. \A j \in DOMAIN sessions : Live(sessions'[j]) <=> Live(sessions[j]) /\ j \notin {}
    BY <1>5
  <2>2. {} \in SUBSET DOMAIN sessions /\ Distinct(sessions)
    BY DEF IInv, Stored
  <2>3. \A u : Lives(sessions', u)
                <=> Lives(sessions, u) /\ u \notin {sessions[j].uuid : j \in {}}
    BY <1>4, <1>5, <2>1, <2>2, LivesLess
  <2> QED
    BY <2>3
<1>9. Truthful'
  BY <1>1, <1>7, <1>8, <1>a, TruthfulQuiet
<1> QED
  BY <1>1, <1>7, <1>9, <1>a DEF IInv, RestType, InMemory

LEMMA DrainPtyStep ==
  ASSUME IInv, DrainPty
  PROVE  IInv'
<1> DEFINE ended == {i \in DOMAIN sessions : sessions[i].pty = "exited" /\ ~sessions[i].finished}
           us == {sessions[i].uuid : i \in ended}
<1>1. /\ ended # {}
      /\ sessions' = [i \in DOMAIN sessions |->
                        IF i \in ended THEN [sessions[i] EXCEPT !.finished = TRUE] ELSE sessions[i]]
      /\ Tell(us, "Finished")
      /\ UNCHANGED <<up, current, file, worktrees, opened, closed>>
  BY DEF DrainPty
<1>2. /\ \A i \in DOMAIN sessions : Sound(sessions[i]) /\ (i \in ended => Live(sessions[i]))
      /\ ended \subseteq DOMAIN sessions
  BY EntryAt DEF Live
<1>3. /\ up /\ us \in SUBSET Uuids
      /\ sessions \in Seq(Entry) /\ DOMAIN sessions = 1 .. Len(sessions) /\ Len(sessions) \in Nat
  BY <1>1, <1>2, EntryAt DEF Entry, Sound
<1> HIDE DEF ended
<1>4. \A i \in ended : Lives(sessions, sessions[i].uuid)
  BY <1>2 DEF Lives, Cards
<1>5. \A u \in us : Lives(sessions, u)
  BY <1>4
<1>6. /\ DOMAIN sessions' = DOMAIN sessions
      /\ \A j \in DOMAIN sessions :
           /\ j \in ended => sessions'[j] = [sessions[j] EXCEPT !.finished = TRUE]
           /\ j \notin ended => sessions'[j] = sessions[j]
  BY <1>1
<1>7. \A j \in DOMAIN sessions :
        /\ Sound(sessions'[j]) /\ Later(sessions'[j], sessions[j])
        /\ Live(sessions'[j]) <=> Live(sessions[j]) /\ j \notin ended
  BY <1>2, <1>6, CardFinished, CardUnchanged
<1>8. sessions' \in Seq(Entry)
  <2>1. sessions' = [j \in 1 .. Len(sessions) |-> sessions'[j]]
    BY <1>1, <1>3
  <2>2. \A j \in 1 .. Len(sessions) : sessions'[j] \in Entry
    BY <1>3, <1>7 DEF Sound
  <2> QED
    BY <1>3, <2>1, <2>2
<1>9. WellFormed(sessions')
  BY <1>6, <1>7, <1>8, WellFormedAt
<1>10. /\ Stored(sessions', file, opened, closed)
       /\ Ids(sessions') = Ids(sessions) /\ Shown(sessions') = Shown(sessions)
  BY <1>6, <1>7, <1>9, StoredQuiet DEF IInv
<1>11. \A u \in Uuids : Lives(sessions', u) <=> Lives(sessions, u) /\ u \notin us
  BY <1>2, <1>6, <1>7, LivesLess DEF IInv, Stored
<1> HIDE DEF us
<1>12. Truthful' /\ told' \in [Uuids -> {"nothing", "Started", "Finished"}]
                 /\ echoed' \in SUBSET Uuids
  BY <1>1, <1>3, <1>5, <1>10, <1>11, TruthfulEnd
<1> QED
  BY <1>1, <1>3, <1>10, <1>12 DEF IInv, RestType, InMemory

-----------------------------------------------------------------------------
\* Steps that write the files.

\* A card that has its id from a card of its project, or a new id, is on the disk of
\* no other project.
Placed(ss) ==
  \A e \in Cards(ss), p \in Projects : e.project # p => e.uuid \notin Ids(file[p])

LEMMA WrittenStep ==
  ASSUME IInv, up, UNCHANGED <<up, current>>, file' = Persisted(sessions'),
         WellFormed(sessions'), Distinct(sessions'),
         opened' \in SUBSET Uuids, closed' \in SUBSET opened',
         opened \subseteq opened', closed \subseteq closed',
         Ids(sessions') \subseteq opened', opened' \ opened \subseteq Ids(sessions'),
         Ids(sessions) \ closed' \subseteq Ids(sessions'),
         Shown(sessions') \subseteq Shown(sessions) \cup {current}, Placed(sessions'),
         worktrees' \in SUBSET (Projects \X Tasks),
         Truthful', told' \in [Uuids -> {"nothing", "Started", "Finished"}],
         echoed' \in SUBSET Uuids
  PROVE  IInv'
<1>1. /\ Stored(sessions', Persisted(sessions'), opened', closed')
      /\ InMemory(sessions', Persisted(sessions'), closed', Shown(sessions') \cup {current})
  BY StoredPersisted DEF IInv, RestType, Placed
<1> QED
  BY <1>1 DEF IInv, RestType

LEMMA CleanedType ==
  ASSUME IInv, NEW e, worktrees' \in Cleaned(e)
  PROVE  worktrees' \in SUBSET (Projects \X Tasks)
  BY DEF IInv, RestType, Cleaned

LEMMA FinishSessionStep ==
  ASSUME IInv, NEW i \in DOMAIN sessions, FinishSession(i)
  PROVE  IInv'
<1>1. /\ Sound(sessions[i]) /\ up
      /\ sessions \in Seq(Entry) /\ DOMAIN sessions = 1 .. Len(sessions)
      /\ Len(sessions) \in Nat
      /\ \A j \in DOMAIN sessions : Sound(sessions[j])
      /\ Distinct(sessions)
  BY EntryAt DEF IInv, Stored
<1> DEFINE f == [sessions[i] EXCEPT !.pty = "none", !.finished = TRUE]
           us == IF Live(sessions[i]) THEN {sessions[i].uuid} ELSE {}
<1>2. Sound(f) /\ Later(f, sessions[i]) /\ ~Live(f)
  BY <1>1, CardHistory
<1>3. /\ sessions' = [sessions EXCEPT ![i] = f]
      /\ file' = Persisted(sessions')
      /\ UNCHANGED <<up, current, opened, closed>>
      /\ worktrees' \in SUBSET (Projects \X Tasks)
      /\ Tell(us, "Finished")
  BY CleanedType DEF FinishSession, TellEnd
<1> HIDE DEF f
<1>4. /\ sessions' \in Seq(Entry) /\ DOMAIN sessions' = DOMAIN sessions
      /\ \A j \in DOMAIN sessions : sessions'[j] = IF j = i THEN f ELSE sessions[j]
  BY <1>1, <1>2, <1>3 DEF Sound
<1> DEFINE ended == IF Live(sessions[i]) THEN {i} ELSE {}
<1>5. \A j \in DOMAIN sessions :
        /\ Sound(sessions'[j]) /\ Later(sessions'[j], sessions[j])
        /\ Live(sessions'[j]) <=> Live(sessions[j]) /\ j \notin ended
  BY <1>1, <1>2, <1>4, CardUnchanged
<1>6. WellFormed(sessions')
  BY <1>4, <1>5, WellFormedAt
<1>7. Distinct(sessions') /\ Ids(sessions') = Ids(sessions) /\ Shown(sessions') = Shown(sessions)
  BY <1>4, <1>5, <1>6, StoredQuiet DEF IInv, Stored
<1>8. Stored(sessions', file, opened, closed)
  BY <1>4, <1>5, <1>6, StoredQuiet DEF IInv
<1>9. us = {sessions[j].uuid : j \in ended} /\ ended \in SUBSET DOMAIN sessions
  OBVIOUS
<1>10. us \in SUBSET Uuids /\ \A u \in us : Lives(sessions, u)
  BY <1>1, LivesAt DEF Sound, Entry
<1> HIDE DEF us, ended
<1>11. \A u : Lives(sessions', u) <=> Lives(sessions, u) /\ u \notin {sessions[j].uuid : j \in ended}
  BY <1>1, <1>4, <1>5, <1>9, LivesLess
<1>12. Truthful' /\ told' \in [Uuids -> {"nothing", "Started", "Finished"}]
                 /\ echoed' \in SUBSET Uuids
  BY <1>1, <1>3, <1>7, <1>9, <1>10, <1>11, TruthfulEnd
<1>13. Placed(sessions') /\ Ids(sessions) \subseteq opened
       /\ opened \in SUBSET Uuids /\ closed \in SUBSET opened
  BY <1>8 DEF Stored, Owned, Known, Placed, IInv
<1> QED
  BY <1>1, <1>3, <1>6, <1>7, <1>12, <1>13, WrittenStep

LEMMA CloseSessionStep ==
  ASSUME IInv, NEW i \in DOMAIN sessions, CloseSession(i)
  PROVE  IInv'
<1> DEFINE v == sessions[i].uuid
           us == IF Live(sessions[i]) THEN {v} ELSE {}
<1>1. /\ Sound(sessions[i]) /\ up /\ sessions[i] \in Cards(sessions)
      /\ sessions \in Seq(Entry) /\ Distinct(sessions) /\ v \in opened /\ v \in Uuids
      /\ opened \in SUBSET Uuids /\ closed \in SUBSET opened
  BY EntryAt DEF IInv, Stored, Sound, Entry
<1>2. /\ sessions' = Without(sessions, i)
      /\ file' = Persisted(sessions')
      /\ UNCHANGED <<up, current, opened>> /\ closed' = closed \cup {v}
      /\ worktrees' \in SUBSET (Projects \X Tasks)
      /\ Tell(us, "Finished")
  BY CleanedType DEF CloseSession, TellEnd
<1>3. /\ sessions' \in Seq(Entry) /\ Distinct(sessions')
      /\ Cards(sessions') = {e \in Cards(sessions) : e.uuid # v}
  BY <1>1, <1>2, WithoutOne
<1>4. Lives(sessions, v) <=> Live(sessions[i])
  BY <1>1, LivesAt
<1> HIDE DEF v
<1>5. WellFormed(sessions')
  BY <1>3 DEF IInv, Stored, WellFormed
<1>6. Ids(sessions') = Ids(sessions) \ {v}
  BY <1>3, IdsOfCards
<1>7. Shown(sessions') \subseteq Shown(sessions)
  BY <1>3 DEF Shown
<1>8. \A u \in Uuids : Lives(sessions', u) <=> Lives(sessions, u) /\ u \notin us
  <2>1. \A u : Lives(sessions', u) <=> Lives(sessions, u) /\ u # v
    BY <1>3 DEF Lives
  <2> QED
    BY <1>4, <2>1
<1>9. us \in SUBSET Uuids /\ \A u \in us : Lives(sessions, u)
  BY <1>1, <1>4
<1>10. Ids(sessions) \ closed' \subseteq Ids(sessions') /\ closed \subseteq closed'
  BY <1>2, <1>6
<1> HIDE DEF us
<1>11. Truthful' /\ told' \in [Uuids -> {"nothing", "Started", "Finished"}]
                 /\ echoed' \in SUBSET Uuids
  BY <1>1, <1>2, <1>8, <1>9, <1>10, TruthfulEnd
<1>12. Placed(sessions') /\ Ids(sessions') \subseteq opened
  BY <1>3, <1>6 DEF IInv, Stored, Owned, Known, Placed
<1> QED
  BY <1>1, <1>2, <1>3, <1>5, <1>7, <1>10, <1>11, <1>12, WrittenStep

\* A new card is a live one.
LEMMA SpawnedCard ==
  ASSUME NEW u \in Uuids, NEW k \in Kinds, NEW p \in Projects, NEW t \in Tasks \cup {NoTask},
         k = "setup" <=> t = NoTask
  PROVE  LET e == Spawned(u, k, p, t) IN
         /\ Sound(e) /\ Live(e)
         /\ e.uuid = u /\ e.kind = k /\ e.project = p /\ e.task = t
  BY DEF Spawned, Sound, Live, Entry

\* open_session: a card with a new id, or in place of one that is not live.
LEMMA OpenStep ==
  ASSUME IInv, up, UNCHANGED <<up, current, closed>>,
         worktrees' \in SUBSET (Projects \X Tasks),
         NEW kept \in Seq(Entry), Distinct(kept), NEW e, Sound(e), Live(e), e.project = current,
         Cards(kept) = {f \in Cards(sessions) : f.uuid # e.uuid},
         Fits(kept, e), OpenSession(kept, e),
         \/ e.uuid \notin opened
         \/ \E g \in Cards(sessions) : g.uuid = e.uuid /\ g.project = current /\ ~Live(g)
  PROVE  IInv'
<1> DEFINE u == e.uuid
<1>1. /\ Tell({u}, "Started")
      /\ sessions' = Append(kept, e)
      /\ file' = Persisted(sessions')
      /\ opened' = opened \cup {u}
  BY DEF OpenSession
<1>2. e \in Entry /\ u \in Uuids
  BY DEF Sound, Entry
<1>3. sessions' \in Seq(Entry) /\ Cards(sessions') = Cards(kept) \cup {e}
  BY <1>1, <1>2, CardsAppend
<1>4. Distinct(sessions')
  BY <1>1, <1>2, DistinctAppend
<1> DEFINE others == {f \in Cards(sessions) : f.uuid # u}
<1>5. Cards(sessions') = others \cup {e}
  BY <1>3
<1> HIDE DEF u
<1>6. WellFormed(sessions')
  BY <1>3, <1>5 DEF IInv, Stored, WellFormed, Sound
<1>7. Ids(sessions') = Ids(sessions) \cup {u}
  BY <1>5, IdsOfCards DEF u
<1>8. Shown(sessions') \subseteq Shown(sessions) \cup {current}
  BY <1>5 DEF Shown
<1>9. Placed(sessions')
  <2>1. ASSUME NEW p \in Projects, p # current PROVE u \notin Ids(file[p])
    <3>1. CASE u \notin opened
      BY <3>1 DEF IInv, Stored, Known
    <3>2. CASE \E g \in Cards(sessions) : g.uuid = u /\ g.project = current /\ ~Live(g)
      BY <2>1, <3>2 DEF IInv, Stored, Owned
    <3> QED
      BY <3>1, <3>2 DEF u
  <2>2. \A f \in others, p \in Projects : f.project # p => f.uuid \notin Ids(file[p])
    BY DEF IInv, Stored, Owned
  <2> QED
    BY <1>5, <2>1, <2>2 DEF Placed, u
<1>10. ~Lives(sessions, u)
  <2>1. u \notin opened => u \notin Ids(sessions)
    BY DEF IInv, Stored, Known
  <2>2. Lives(sessions, u) => u \in Ids(sessions)
    BY IdsOfCards DEF Lives
  <2>3. ASSUME NEW g \in Cards(sessions), g.uuid = u, ~Live(g) PROVE ~Lives(sessions, u)
    <3>1. \A f \in Cards(sessions) : f.uuid = u => f = g
      BY <2>3 DEF Cards, Distinct, Clash, IInv, Stored
    <3> QED
      BY <2>3, <3>1 DEF Lives
  <2> QED
    BY <2>1, <2>2, <2>3 DEF u
<1>11. /\ Lives(sessions', u)
       /\ \A w : w # u => (Lives(sessions', w) <=> Lives(sessions, w))
  BY <1>5 DEF Lives, u
<1>12. /\ told' \in [Uuids -> {"nothing", "Started", "Finished"}]
       /\ \A w \in Uuids : told'[w] = IF w = u THEN "Started" ELSE told[w]
       /\ echoed' = echoed \cup {w \in {u} : told[w] = "Started"}
  BY <1>1 DEF Tell, IInv, RestType
<1>13. told[u] = "Started" => u \in closed
  BY <1>2, <1>10 DEF IInv, Truthful
<1>14. Truthful'
  BY <1>1, <1>2, <1>7, <1>11, <1>12, <1>13 DEF IInv, Truthful
<1>15. echoed' \in SUBSET Uuids
  BY <1>2, <1>12 DEF IInv, RestType
<1>16. /\ opened' \in SUBSET Uuids /\ closed' \in SUBSET opened'
       /\ opened \subseteq opened' /\ closed \subseteq closed'
       /\ Ids(sessions') \subseteq opened' /\ opened' \ opened \subseteq Ids(sessions')
       /\ Ids(sessions) \ closed' \subseteq Ids(sessions')
  BY <1>1, <1>2, <1>7 DEF IInv, Stored, Known
<1> HIDE DEF others
<1> QED
  BY <1>1, <1>4, <1>6, <1>8, <1>9, <1>12, <1>14, <1>15, <1>16, WrittenStep

LEMMA SetupStartStep ==
  ASSUME IInv, SetupStart
  PROVE  IInv'
<1>1. PICK u \in Uuids \ opened : OpenSession(sessions, Spawned(u, "setup", current, NoTask))
  BY DEF SetupStart
<1>2. up /\ UNCHANGED <<up, current, worktrees, closed>>
  BY DEF SetupStart
<1>3. /\ current \in Projects /\ worktrees \in SUBSET (Projects \X Tasks)
      /\ sessions \in Seq(Entry) /\ Distinct(sessions)
  BY DEF IInv, RestType, Stored, WellFormed
<1> DEFINE e == Spawned(u, "setup", current, NoTask)
<1>4. /\ Sound(e) /\ Live(e)
      /\ e.uuid = u /\ e.kind = "setup" /\ e.project = current
  BY <1>3, SpawnedCard DEF Kinds
<1> HIDE DEF e
<1>5. \A f \in Cards(sessions) : f.uuid # u
  BY IdsOfCards DEF IInv, Stored, Known
<1>6. Cards(sessions) = {f \in Cards(sessions) : f.uuid # e.uuid}
  BY <1>4, <1>5
<1>7. Fits(sessions, e)
  BY <1>4, <1>5 DEF Fits, Clash
<1>8. OpenSession(sessions, e)
  BY <1>1 DEF e
<1> QED
  BY <1>2, <1>3, <1>4, <1>6, <1>7, <1>8, OpenStep

LEMMA PlayStep ==
  ASSUME IInv, NEW t \in Tasks, Play(t)
  PROVE  IInv'
<1>1. /\ up /\ \A e \in PlaysOf(t) : ~Live(e)
      /\ UNCHANGED <<up, current, closed>>
      /\ worktrees' = worktrees \cup {<<current, t>>}
  BY DEF Play
<1>2. PICK u \in IF PlaysOf(t) = {} THEN Uuids \ opened ELSE {e.uuid : e \in PlaysOf(t)} :
        OpenSession(Only(sessions, {e \in Cards(sessions) : e.uuid # u}),
                    Spawned(u, "play", current, t))
  BY DEF Play
<1>3. /\ current \in Projects /\ worktrees' \in SUBSET (Projects \X Tasks)
      /\ sessions \in Seq(Entry) /\ Distinct(sessions)
  BY <1>1 DEF IInv, RestType, Stored, WellFormed
<1>4. \A g \in PlaysOf(t) :
        g \in Cards(sessions) /\ g.kind = "play" /\ g.project = current /\ g.task = t
  BY DEF PlaysOf
<1>5. \/ u \notin opened /\ PlaysOf(t) = {}
      \/ \E g \in PlaysOf(t) : g.uuid = u
  BY <1>2
<1>6. u \in Uuids
  <2>1. \A g \in PlaysOf(t) : g.uuid \in Uuids
    BY <1>3, <1>4, CardsType DEF Entry
  <2> QED
    BY <1>2, <2>1
<1> DEFINE A == {e \in Cards(sessions) : e.uuid # u}
           kept == Only(sessions, A)
           e == Spawned(u, "play", current, t)
<1>7. /\ Sound(e) /\ Live(e)
      /\ e.uuid = u /\ e.kind = "play" /\ e.project = current /\ e.task = t
  BY <1>3, <1>6, SpawnedCard, TaskAssumption DEF Kinds
<1>8. kept \in Seq(Entry) /\ Distinct(kept)
  BY <1>3, DistinctOnly
<1>9. Cards(kept) = Cards(sessions) \cap A
  BY <1>3, CardsOnly
<1> HIDE DEF e, kept
<1>10. Cards(kept) = {f \in Cards(sessions) : f.uuid # e.uuid}
  BY <1>7, <1>9
<1>11. Fits(kept, e)
  <2> SUFFICES ASSUME NEW f \in Cards(kept)
               PROVE  ~Clash(e, f) /\ ~Clash(f, e)
    BY DEF Fits
  <2>1. f \in Cards(sessions) /\ f.uuid # u
    BY <1>9
  <2>2. ASSUME f.kind = "play", f.project = current, f.task = t PROVE FALSE
    <3>1. f \in PlaysOf(t)
      BY <2>1, <2>2 DEF PlaysOf
    <3>2. PICK g \in PlaysOf(t) : g.uuid = u
      BY <1>5, <3>1
    <3>3. f = g
      BY <1>3, <1>4, <3>1, <3>2 DEF Distinct, Clash, Cards
    <3> QED
      BY <2>1, <3>2, <3>3
  <2> QED
    BY <1>7, <2>1, <2>2 DEF Clash
<1>12. OpenSession(kept, e)
  BY <1>2 DEF e, kept
<1>13. \/ e.uuid \notin opened
       \/ \E g \in Cards(sessions) : g.uuid = e.uuid /\ g.project = current /\ ~Live(g)
  BY <1>1, <1>4, <1>5, <1>7
<1> QED
  BY <1>1, <1>3, <1>7, <1>8, <1>10, <1>11, <1>12, <1>13, OpenStep

-----------------------------------------------------------------------------
\* Other projects, other daemons.

\* The sessions of a daemon that is gone are on the disk.
LEMMA StoredDown ==
  ASSUME NEW ss, NEW ff, NEW op, NEW cl, Stored(ss, ff, op, cl)
  PROVE  Stored(<< >>, ff, op, cl)
<1>1. Cards(<< >>) = {} /\ Ids(<< >>) = {} /\ DOMAIN << >> = {} /\ << >> \in Seq(Entry)
  BY DEF Cards, Ids
<1>2. WellFormed(<< >>) /\ Distinct(<< >>)
  BY <1>1 DEF WellFormed, Distinct
<1>3. Known(<< >>, ff, op) /\ Owned(<< >>, ff) /\ OnDisk(<< >>, ff)
  BY <1>1 DEF Stored, Known, Owned, OnDisk
<1>4. Somewhere(<< >>, ff, op \ cl)
  <2> SUFFICES ASSUME NEW u \in op \ cl
               PROVE  \E p \in Projects : u \in Ids(ff[p])
    BY DEF Somewhere
  <2>1. CASE u \in Ids(ss)
    <3>1. PICK e \in Cards(ss) : e.uuid = u
      BY <2>1, IdsOfCards
    <3>2. ss \in Seq(Entry)
      BY DEF Stored, WellFormed
    <3>3. e \in Entry
      BY <3>1, <3>2, CardsType
    <3>4. e.project \in Projects
      BY <3>3 DEF Entry
    <3>5. e.uuid \in Ids(ff[e.project])
      BY <3>1 DEF Stored, OnDisk
    <3> QED
      BY <3>1, <3>4, <3>5
  <2>2. CASE u \notin Ids(ss)
    BY <2>2 DEF Stored, Somewhere
  <2> QED
    BY <2>1, <2>2
<1> QED
  BY <1>2, <1>3, <1>4 DEF Stored

\* The files, written as they are.
LEMMA StoredFlushed ==
  ASSUME IInv, up
  PROVE  /\ Stored(sessions, Persisted(sessions), opened, closed)
         /\ InMemory(sessions, Persisted(sessions), closed, Shown(sessions) \cup {current})
         /\ \A p \in Shown(sessions) : Ids(Persisted(sessions)[p]) \subseteq Ids(sessions)
<1>1. /\ opened \in SUBSET Uuids /\ closed \in SUBSET opened /\ Ids(sessions) \subseteq opened
      /\ WellFormed(sessions) /\ Distinct(sessions) /\ current \in Projects
      /\ \A e \in Cards(sessions), p \in Projects : e.project # p => e.uuid \notin Ids(file[p])
  BY DEF IInv, RestType, Stored, Known, Owned
<1> QED
  BY <1>1, StoredPersisted DEF IInv

LEMMA LoadProjectStep ==
  ASSUME IInv, NEW p \in Projects, LoadProject(p)
  PROVE  IInv'
<1>1. /\ up /\ UNCHANGED <<up, worktrees, told, echoed, opened, closed>>
      /\ current' = p /\ file' = Persisted(sessions)
  BY DEF LoadProject
<1>2. PICK failing \in SUBSET Ids(file'[p]) : sessions' = Rehydrate(p, sessions, file', failing)
  BY DEF LoadProject
<1>3. /\ Stored(sessions, file', opened, closed)
      /\ InMemory(sessions, file', closed, Shown(sessions))
      /\ p \in Shown(sessions) => Ids(file'[p]) \subseteq Ids(sessions)
  BY <1>1, StoredFlushed DEF InMemory
<1>4. /\ Stored(sessions', file', opened, closed)
      /\ InMemory(sessions', file', closed, Shown(sessions') \cup {p})
      /\ Cards(sessions) \subseteq Cards(sessions')
      /\ \A e \in Cards(sessions') : e \in Cards(sessions) \/ e.uuid \notin Ids(sessions)
  BY <1>2, <1>3, RehydrateStored
<1>5. /\ \A u \in Uuids : Lives(sessions, u) => Lives(sessions', u)
      /\ \A u \in Uuids : u \in Ids(sessions) /\ Lives(sessions', u) => Lives(sessions, u)
  BY <1>4 DEF Lives
<1>6. \A u \in Ids(sessions) : u \in Ids(sessions')
  BY <1>4, IdsOfCards
<1>7. Truthful'
  BY <1>1, <1>5, <1>6, TruthfulQuiet
<1> QED
  BY <1>1, <1>4, <1>7 DEF IInv, RestType

LEMMA BootStep ==
  ASSUME IInv, NEW p \in Projects, Boot(p)
  PROVE  IInv'
<1>1. /\ ~up /\ up' = TRUE /\ UNCHANGED <<file, worktrees, opened, closed>>
      /\ current' = p /\ told' = [u \in Uuids |-> "nothing"] /\ echoed' = {}
  BY DEF Boot
<1>2. PICK failing \in SUBSET Ids(file[p]) : sessions' = Rehydrate(p, << >>, file, failing)
  BY DEF Boot
<1>3. Stored(<< >>, file, opened, closed) /\ Shown(<< >>) = {}
  BY StoredDown DEF IInv, Shown, Cards
<1>4. InMemory(<< >>, file, closed, Shown(<< >>))
  BY <1>3 DEF InMemory
<1>5. /\ Stored(sessions', file, opened, closed)
      /\ InMemory(sessions', file, closed, Shown(sessions') \cup {p})
  BY <1>2, <1>3, <1>4, RehydrateStored
<1>6. Truthful'
  BY <1>1 DEF Truthful
<1> QED
  BY <1>1, <1>5, <1>6 DEF IInv, RestType

LEMMA DownStep ==
  ASSUME IInv, StopAllSessions \/ Crash
  PROVE  IInv'
<1>1. up /\ ~up' /\ up' \in BOOLEAN
  BY DEF StopAllSessions, Crash
<1>2. sessions' = << >> /\ UNCHANGED <<current, worktrees, told, echoed, opened, closed>>
  BY DEF StopAllSessions, Crash
<1>3. Stored(sessions, file', opened, closed)
  <2>1. CASE StopAllSessions
    BY <1>1, <2>1, StoredFlushed DEF StopAllSessions
  <2>2. CASE Crash
    BY <2>2 DEF Crash, IInv
  <2> QED
    BY <2>1, <2>2
<1>4. Stored(sessions', file', opened', closed')
  BY <1>2, <1>3, StoredDown
<1>5. Truthful' /\ RestType'
  BY <1>1, <1>2 DEF IInv, Truthful, RestType
<1> QED
  BY <1>1, <1>2, <1>4, <1>5 DEF IInv

LEMMA PlayFailsStep ==
  ASSUME IInv, NEW t \in Tasks, PlayFails(t)
  PROVE  IInv'
<1>1. worktrees' \in SUBSET (Projects \X Tasks)
  BY DEF PlayFails, IInv, RestType
<1>2. UNCHANGED <<up, current, sessions, file, told, echoed, opened, closed>>
  BY DEF PlayFails
<1> QED
  BY <1>1, <1>2 DEF IInv, RestType, Truthful

LEMMA IInvInit ==
  ASSUME Init
  PROVE  IInv
<1> USE DEF Init
<1>1. Cards(sessions) = {} /\ Ids(sessions) = {} /\ DOMAIN sessions = {} /\ sessions \in Seq(Entry)
  BY DEF Cards, Ids
<1>2. \A p \in Projects : /\ file[p] = << >> /\ Cards(file[p]) = {} /\ Ids(file[p]) = {}
                          /\ Readable(file[p])
  BY DEF Cards, Ids, Readable
<1>3. file \in [Projects -> Seq(Record)]
  OBVIOUS
<1>4. Stored(sessions, file, opened, closed)
  BY <1>1, <1>2, <1>3
     DEF Stored, WellFormed, Distinct, Known, Owned, OnDisk, Somewhere
<1> QED
  BY <1>4 DEF IInv, RestType, Truthful

LEMMA IInvStep ==
  ASSUME IInv, [Next]_vars
  PROVE  IInv'
<1>1. CASE SetupStart
  BY <1>1, SetupStartStep
<1>2. ASSUME NEW t \in Tasks, Play(t) PROVE IInv'
  BY <1>2, PlayStep
<1>3. ASSUME NEW t \in Tasks, PlayFails(t) PROVE IInv'
  BY <1>3, PlayFailsStep
<1>4. ASSUME NEW i \in DOMAIN sessions, ProcessExit(i) PROVE IInv'
  BY <1>4, ProcessExitStep
<1>5. ASSUME NEW i \in DOMAIN sessions, FinishSession(i) PROVE IInv'
  BY <1>5, FinishSessionStep
<1>6. ASSUME NEW i \in DOMAIN sessions, CloseSession(i) PROVE IInv'
  BY <1>6, CloseSessionStep
<1>7. CASE DrainPty
  BY <1>7, DrainPtyStep
<1>8. ASSUME NEW p \in Projects, LoadProject(p) PROVE IInv'
  BY <1>8, LoadProjectStep
<1>9. ASSUME NEW p \in Projects, Boot(p) PROVE IInv'
  BY <1>9, BootStep
<1>10. CASE StopAllSessions \/ Crash
  BY <1>10, DownStep
<1>11. CASE UNCHANGED vars
  BY <1>11 DEF vars, IInv, RestType, Truthful
<1> QED
  BY <1>1, <1>2, <1>3, <1>4, <1>5, <1>6, <1>7, <1>8, <1>9, <1>10, <1>11 DEF Next

-----------------------------------------------------------------------------
\* The theorems.

LEMMA Invariant == Spec => []IInv
<1>1. Init => IInv
  BY IInvInit
<1>2. IInv /\ [Next]_vars => IInv'
  BY IInvStep
<1> QED
  BY <1>1, <1>2, PTL DEF Spec

\* Type correctness: a card without a process is history, a setup card has no task,
\* and what is read back from a file is a card again.
THEOREM TypeCorrect == Spec => []TypeOK
<1>1. IInv => TypeOK
  BY IInvImplies
<1> QED
  BY <1>1, Invariant, PTL

\* No conversation has two cards and no task two play cards, whatever was resumed,
\* switched, read back or restarted.
THEOREM OneCard == Spec => []OneCardPerTask
<1>1. IInv => OneCardPerTask
  BY IInvImplies
<1> QED
  BY <1>1, Invariant, PTL

\* A session opened and not closed is on the board or on a disk, after any switch,
\* crash, failed resume or write of another project's sessions.
THEOREM NoneLost == Spec => []NothingLost
<1>1. IInv => NothingLost
  BY IInvImplies
<1> QED
  BY <1>1, Invariant, PTL

\* No session is on the disk of a project other than its own.
THEOREM NoStrays == Spec => []OwnProject
<1>1. IInv => OwnProject
  BY IInvImplies
<1> QED
  BY <1>1, Invariant, PTL

\* The session events tell which sessions run.
THEOREM Announced == Spec => []EventsTrackLife
<1>1. IInv => EventsTrackLife
  BY IInvImplies
<1> QED
  BY <1>1, Invariant, PTL

\* A daemon that goes down, by a shutdown or a crash, leaves every live session on disk
\* as unfinished.
THEOREM LiveKept == Spec => StopKeepsLive
<1>1. IInv /\ [Next]_vars =>
        [up /\ ~up' => \A e \in Cards(sessions) :
                         Live(e) => ToRecord(e) \in Cards(file'[e.project])]_vars
  <2> SUFFICES ASSUME IInv, Next, up, ~up'
               PROVE  \A e \in Cards(sessions) :
                        Live(e) => ToRecord(e) \in Cards(file'[e.project])
    OBVIOUS
  <2>1. StopAllSessions \/ Crash
    BY DEF Next, SetupStart, Play, PlayFails, ProcessExit, FinishSession, CloseSession,
           DrainPty, LoadProject, Boot
  <2>2. CASE StopAllSessions
    BY <2>2, StoredFlushed DEF StopAllSessions, Stored, OnDisk
  <2>3. CASE Crash
    BY <2>3 DEF Crash, IInv, Stored, OnDisk
  <2> QED
    BY <2>1, <2>2, <2>3
<1> QED
  BY <1>1, Invariant, PTL DEF Spec, StopKeepsLive
=============================================================================
