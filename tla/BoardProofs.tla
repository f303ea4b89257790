---------------------------- MODULE BoardProofs ----------------------------
(***************************************************************************)
(* Proofs about Board, for every finite set of tasks and every set of      *)
(* session ids.                                                            *)
(***************************************************************************)
EXTENDS Board, SelectionProofs

-----------------------------------------------------------------------------
(* The rows of the board. *)

Disks == [Tasks -> Statuses \cup {Gone}]

\* The tasks of d that come before t, and the row of t counted from 1.
Ahead(d, t) == {s \in Listed(d) : Before(d, s, t)}
Place(d, t) == Cardinality(Ahead(d, t)) + 1

LEMMA ListedFinite ==
  ASSUME NEW d
  PROVE  /\ IsFiniteSet(Listed(d)) /\ Listed(d) \subseteq Tasks
         /\ Cardinality(Listed(d)) \in Nat /\ Cardinality(Tasks) \in Nat
         /\ Cardinality(Listed(d)) <= Cardinality(Tasks)
<1>1. Listed(d) \in SUBSET Tasks /\ IsFiniteSet(Tasks)
  BY TaskAssumption DEF Listed
<1> QED
  BY <1>1, FS_Subset, FS_CardinalityType

\* Before is a strict order in which any two tasks compare.
LEMMA BeforeOrder ==
  ASSUME NEW d \in Disks
  PROVE  /\ \A a \in Listed(d) : ~Before(d, a, a)
         /\ \A a, b \in Listed(d) : a # b => Before(d, a, b) \/ Before(d, b, a)
         /\ \A a, b, c \in Listed(d) : Before(d, a, b) /\ Before(d, b, c) => Before(d, a, c)
<1>1. \A a \in Listed(d) : a \in Int /\ d[a] \in Int
  <2> TAKE a \in Listed(d)
  <2>1. a \in Tasks /\ d[a] \in Statuses \cup {Gone} /\ d[a] # Gone
    BY DEF Listed, Disks
  <2>2. a \in Int
    BY <2>1, TaskAssumption
  <2>3. d[a] \in Int
    BY <2>1, StatusAssumption
  <2> QED
    BY <2>2, <2>3
<1> QED
  BY <1>1 DEF Before

\* Who comes before another task has fewer before it.
LEMMA PlaceGrows ==
  ASSUME NEW d \in Disks, NEW a \in Listed(d), NEW b \in Listed(d), Before(d, a, b)
  PROVE  Place(d, a) < Place(d, b)
<1>1. IsFiniteSet(Ahead(d, b)) /\ Cardinality(Ahead(d, b)) \in Nat
  <2>1. Ahead(d, b) \in SUBSET Listed(d) /\ IsFiniteSet(Listed(d))
    BY ListedFinite DEF Ahead
  <2> QED
    BY <2>1, FS_Subset, FS_CardinalityType
<1>2. Ahead(d, a) \in SUBSET Ahead(d, b) /\ a \in Ahead(d, b) /\ a \notin Ahead(d, a)
  BY BeforeOrder DEF Ahead
<1>3. /\ Cardinality(Ahead(d, a)) \in Nat
      /\ Cardinality(Ahead(d, a)) <= Cardinality(Ahead(d, b))
      /\ Cardinality(Ahead(d, a)) # Cardinality(Ahead(d, b))
  BY <1>1, <1>2, FS_Subset, FS_CardinalityType
<1> QED
  BY <1>1, <1>3 DEF Place

\* The rows are counted off without a gap.
LEMMA PlaceOnto ==
  ASSUME NEW d \in Disks
  PROVE  [t \in Listed(d) |-> Place(d, t)]
           \in Surjection(Listed(d), 1 .. Cardinality(Listed(d)))
<1> DEFINE S == Listed(d)
           n == Cardinality(S)
           f == [t \in S |-> Place(d, t)]
<1>1. IsFiniteSet(S) /\ n \in Nat
  BY ListedFinite
<1>2. \A t \in S : Place(d, t) \in 1 .. n
  <2> TAKE t \in S
  <2>1. Ahead(d, t) \in SUBSET S /\ t \notin Ahead(d, t)
    BY BeforeOrder DEF Ahead
  <2>2. /\ Cardinality(Ahead(d, t)) \in Nat /\ Cardinality(Ahead(d, t)) <= n
        /\ Cardinality(Ahead(d, t)) # n
    BY <1>1, <2>1, FS_Subset, FS_CardinalityType
  <2> QED
    BY <1>1, <2>2 DEF Place
<1>3. \A a, b \in S : Place(d, a) = Place(d, b) => a = b
  <2> SUFFICES ASSUME NEW a \in S, NEW b \in S, a # b PROVE Place(d, a) # Place(d, b)
    OBVIOUS
  <2>1. Place(d, a) < Place(d, b) \/ Place(d, b) < Place(d, a)
    BY BeforeOrder, PlaceGrows
  <2> QED
    BY <1>2, <2>1
<1>4. f \in Injection(S, 1 .. n)
  <2>1. f \in [S -> 1 .. n] /\ \A a, b \in S : f[a] = f[b] => a = b
    BY <1>2, <1>3
  <2> QED
    BY <2>1 DEF Injection, IsInjective
<1>5. IsFiniteSet(1 .. n) /\ Cardinality(1 .. n) = n
  BY <1>1, FS_Interval
<1> QED
  BY <1>4, <1>5, FS_Injection

\* d in order: what sort_for_board of it has to be.
Sorted(d, q) ==
  /\ q \in [1 .. Cardinality(Listed(d)) -> Listed(d)]
  /\ \A i, j \in DOMAIN q : i < j => Before(d, q[i], q[j])

LEMMA SortedExists ==
  ASSUME NEW d \in Disks
  PROVE  \E q : Sorted(d, q)
<1> DEFINE S == Listed(d)
           n == Cardinality(S)
           q == [i \in 1 .. n |-> CHOOSE t \in S : Place(d, t) = i]
<1>1. \A i \in 1 .. n : \E t \in S : Place(d, t) = i
  BY PlaceOnto DEF Surjection
<1>2. \A i \in 1 .. n : q[i] \in S /\ Place(d, q[i]) = i
  BY <1>1
<1>3. \A i, j \in 1 .. n : i < j => Before(d, q[i], q[j])
  <2> SUFFICES ASSUME NEW i \in 1 .. n, NEW j \in 1 .. n, i < j, ~Before(d, q[i], q[j])
               PROVE  FALSE
    OBVIOUS
  <2> HIDE DEF q
  <2>1. q[i] # q[j]
    BY <1>2
  <2>2. Before(d, q[j], q[i])
    BY <1>2, <2>1, BeforeOrder
  <2>3. j < i
    BY <1>2, <2>2, PlaceGrows
  <2> QED
    BY <2>3
<1>4. Sorted(d, q)
  BY <1>2, <1>3 DEF Sorted
<1> QED
  BY <1>4

\* The rows of d: each task that has a file once, in the order of the board.
LEMMA RowsSorted ==
  ASSUME NEW d \in Disks
  PROVE  Sorted(d, SortForBoard(d))
<1>1. PICK q : Sorted(d, q)
  BY SortedExists
<1> QED
  BY <1>1 DEF Sorted, SortForBoard

LEMMA RowsType ==
  ASSUME NEW d \in Disks
  PROVE  /\ SortForBoard(d) \in Seq(Tasks)
         /\ Len(SortForBoard(d)) <= Cardinality(Tasks)
<1>1. /\ SortForBoard(d) \in [1 .. Cardinality(Listed(d)) -> Listed(d)]
  BY RowsSorted DEF Sorted
<1>2. /\ Listed(d) \subseteq Tasks /\ Cardinality(Listed(d)) \in Nat
      /\ Cardinality(Tasks) \in Nat /\ Cardinality(Listed(d)) <= Cardinality(Tasks)
  BY ListedFinite
<1> HIDE DEF SortForBoard
<1>3. SortForBoard(d) \in Seq(Listed(d)) /\ Len(SortForBoard(d)) = Cardinality(Listed(d))
  BY <1>1, <1>2
<1> QED
  BY <1>2, <1>3

-----------------------------------------------------------------------------
(* The cards of a row. *)

Ids(ss) == {ss[i] : i \in DOMAIN ss}

Owners == [Uuids -> Tasks \cup {NoTask}]

LEMMA OnTopIds ==
  ASSUME NEW ss \in Seq(Uuids), NEW u \in Uuids
  PROVE  OnTop(u, ss) \in Seq(Uuids) /\ Ids(OnTop(u, ss)) = Ids(ss) \cup {u}
<1> DEFINE A == Uuids \ {u}
           o == Only(ss, A)
<1>1. o \in Seq(Uuids)
  BY OnlyType
<1>2. Ids(o) = Ids(ss) \ {u}
  <2>1. /\ \A i \in DOMAIN o : o[i] \in A /\ \E k \in DOMAIN ss : ss[k] = o[i]
        /\ \A k \in DOMAIN ss : ss[k] \in A => \E i \in DOMAIN o : o[i] = ss[k]
    <3> HIDE DEF A
    <3> QED
      BY OnlyElements DEF o
  <2>2. \A k \in DOMAIN ss : ss[k] \in Uuids
    OBVIOUS
  <2> HIDE DEF o
  <2> QED
    BY <2>1, <2>2 DEF Ids
<1> HIDE DEF o
<1>3. <<u>> \o o \in Seq(Uuids) /\ Ids(<<u>> \o o) = {u} \cup Ids(o)
  <2> DEFINE q == <<u>> \o o
  <2>1. /\ q \in Seq(Uuids) /\ DOMAIN q = 1 .. Len(o) + 1 /\ DOMAIN o = 1 .. Len(o)
        /\ Len(o) \in Nat /\ q[1] = u
        /\ \A i \in 1 .. Len(o) : q[i + 1] = o[i]
    BY <1>1
  <2> HIDE DEF q
  <2>2. ASSUME NEW x \in Ids(q) PROVE x \in {u} \cup Ids(o)
    <3>1. PICK i \in DOMAIN q : x = q[i]
      BY <2>2 DEF Ids
    <3>2. CASE i = 1
      BY <2>1, <3>1, <3>2
    <3>3. CASE i # 1
      <4>1. i - 1 \in 1 .. Len(o) /\ (i - 1) + 1 = i
        BY <2>1, <3>3
      <4> QED
        BY <2>1, <3>1, <4>1 DEF Ids
    <3> QED
      BY <3>2, <3>3
  <2>3. ASSUME NEW x \in {u} \cup Ids(o) PROVE x \in Ids(q)
    <3>1. CASE x = u
      BY <2>1, <3>1 DEF Ids
    <3>2. CASE x \in Ids(o)
      <4>1. PICK i \in 1 .. Len(o) : x = o[i]
        BY <2>1, <3>2 DEF Ids
      <4>2. i + 1 \in DOMAIN q /\ q[i + 1] = x
        BY <2>1, <4>1
      <4> QED
        BY <4>2 DEF Ids
    <3> QED
      BY <2>3, <3>1, <3>2
  <2>4. Ids(q) = {u} \cup Ids(o)
    BY <2>2, <2>3
  <2> QED
    BY <2>1, <2>4 DEF q
<1>4. Ids(<<u>> \o o) = Ids(ss) \cup {u}
  BY <1>2, <1>3
<1> QED
  BY <1>3, <1>4 DEF OnTop, o

\* Row r is one that has cards: that of the project, or that of a task.
HasCards(ts, r) == r = -1 \/ r + 1 \in DOMAIN ts

LEMMA TaskCardsIds ==
  ASSUME NEW ss \in Seq(Uuids), NEW own \in Owners, NEW ts, NEW r
  PROVE  /\ TaskCards(ss, own, ts, r) \in Seq(Uuids)
         /\ Ids(TaskCards(ss, own, ts, r))
              = {u \in Ids(ss) : HasCards(ts, r) /\ own[u] = Target(ts, r)}
<1> DEFINE A == {u \in Uuids : own[u] = Target(ts, r)}
           o == Only(ss, A)
<1>1. o \in Seq(Uuids)
  BY OnlyType
<1>2. /\ \A i \in DOMAIN o : o[i] \in A /\ \E k \in DOMAIN ss : ss[k] = o[i]
      /\ \A k \in DOMAIN ss : ss[k] \in A => \E i \in DOMAIN o : o[i] = ss[k]
  <2> HIDE DEF A
  <2> QED
    BY OnlyElements DEF o
<1>3. \A k \in DOMAIN ss : ss[k] \in Uuids
  OBVIOUS
<1>4. << >> \in Seq(Uuids) /\ DOMAIN << >> = {}
  OBVIOUS
<1>5. TaskCards(ss, own, ts, r) = IF HasCards(ts, r) THEN o ELSE << >>
  BY DEF TaskCards, HasCards
<1> HIDE DEF o
<1>6. Ids(o) = {u \in Ids(ss) : own[u] = Target(ts, r)}
  BY <1>2, <1>3 DEF Ids
<1>7. Ids(<< >>) = {}
  BY <1>4 DEF Ids
<1>8. CASE HasCards(ts, r)
  BY <1>1, <1>5, <1>6, <1>8
<1>9. CASE ~HasCards(ts, r)
  BY <1>4, <1>5, <1>7, <1>9
<1> QED
  BY <1>8, <1>9

\* CardOf is the position of a card that is there, and its default otherwise.
LEMMA CardOfIs ==
  ASSUME NEW u, NEW ss \in Seq(Uuids), NEW own \in Owners, NEW ts, NEW r, NEW dflt \in Nat
  PROVE  LET cards == TaskCards(ss, own, ts, r)
             k     == CardOf(u, ss, own, ts, r, dflt)
         IN  /\ k \in Nat
             /\ u \in Ids(cards) => k + 1 \in DOMAIN cards /\ cards[k + 1] = u
<1> DEFINE cards == TaskCards(ss, own, ts, r)
           k == CardOf(u, ss, own, ts, r, dflt)
<1>1. cards \in Seq(Uuids) /\ DOMAIN cards = 1 .. Len(cards) /\ Len(cards) \in Nat
  BY TaskCardsIds
<1>2. k = IF \E i \in DOMAIN cards : cards[i] = u
            THEN (CHOOSE i \in DOMAIN cards : cards[i] = u) - 1 ELSE dflt
  BY DEF CardOf
<1> HIDE DEF cards, k
<1>3. CASE \E i \in DOMAIN cards : cards[i] = u
  <2> DEFINE i == CHOOSE i \in DOMAIN cards : cards[i] = u
  <2>1. i \in DOMAIN cards /\ cards[i] = u /\ k = i - 1
    BY <1>2, <1>3
  <2> HIDE DEF i
  <2>2. k \in Nat /\ k + 1 = i
    BY <1>1, <2>1
  <2> QED
    BY <2>1, <2>2 DEF cards, k
<1>4. CASE ~ \E i \in DOMAIN cards : cards[i] = u
  <2>1. k = dflt /\ u \notin Ids(cards)
    BY <1>2, <1>4 DEF Ids
  <2> QED
    BY <2>1 DEF cards, k
<1> QED
  BY <1>3, <1>4

\* The selected card is one of the cards, if there is any.
LEMMA SelectedIs ==
  ASSUME NEW cards \in Seq(Uuids), NEW k \in Nat
  PROVE  /\ cards = << >> => SelectedCard(cards, k) = NoCard /\ Ids(cards) = {}
         /\ cards # << >> => SelectedCard(cards, k) \in Ids(cards)
         /\ k + 1 \in DOMAIN cards => SelectedCard(cards, k) = cards[k + 1]
<1>1. DOMAIN cards = 1 .. Len(cards) /\ Len(cards) \in Nat /\ (cards = << >> <=> Len(cards) = 0)
  OBVIOUS
<1>2. ASSUME cards # << >> PROVE Smaller(k, Len(cards) - 1) + 1 \in DOMAIN cards
  BY <1>1, <1>2 DEF Smaller
<1>3. ASSUME k + 1 \in DOMAIN cards PROVE cards # << >> /\ Smaller(k, Len(cards) - 1) = k
  <2> DEFINE n == Len(cards)
  <2>1. n \in Nat /\ k + 1 \in 1 .. n
    BY <1>1, <1>3
  <2> HIDE DEF n
  <2>2. n # 0 /\ ~(n - 1 < k)
    BY <2>1
  <2>3. k = n - 1 \/ k < n - 1
    BY <2>1
  <2> QED
    BY <1>1, <2>2, <2>3 DEF Smaller, n
<1> QED
  BY <1>1, <1>2, <1>3 DEF SelectedCard, Ids

-----------------------------------------------------------------------------
(* Type correctness. *)

\* The list of rows is no longer than the tasks: with it the last row is a
\* number TypeOK allows.
IInv == TypeOK /\ Len(tasks) <= Cardinality(Tasks)

\* What the list and the cursor's row are.
RowOK(ts, r) ==
  /\ ts \in Seq(Tasks) /\ Len(ts) <= Cardinality(Tasks)
  /\ r \in -1 .. Cardinality(Tasks) /\ (ts # << >> => r < Len(ts))

\* What the sessions, their tasks and the live ones are.
ListOK(ss, own, alive) ==
  ss \in Seq(Uuids) /\ own \in Owners /\ alive \in SUBSET Ids(ss)

LEMMA IInvParts ==
  IInv <=> /\ disk \in Disks
           /\ RowOK(tasks, row)
           /\ ListOK(sessions, owner, live)
           /\ card \in Nat
           /\ focus \in {"tasks", "cards", "chat"}
  BY DEF IInv, TypeOK, Disks, Owners, RowOK, ListOK, Ids

\* A row below the end of ts.
LEMMA RowFits ==
  ASSUME NEW ts, NEW r, NEW q, RowOK(ts, r), q \in Int, -1 <= q,
         ts # << >> => q < Len(ts), ts = << >> => q <= Larger(r, 0)
  PROVE  RowOK(ts, q)
<1>1. Cardinality(Tasks) \in Nat
  BY ListedFinite
<1>2. r \in Int /\ r <= Cardinality(Tasks) /\ Larger(r, 0) <= Cardinality(Tasks)
  BY <1>1 DEF RowOK, Larger
<1>3. ts \in Seq(Tasks) /\ Len(ts) \in Nat /\ Len(ts) <= Cardinality(Tasks)
  BY DEF RowOK
<1>4. q <= Cardinality(Tasks)
  <2>1. CASE ts = << >>
    BY <1>1, <1>2, <2>1 DEF Larger
  <2>2. CASE ts # << >>
    BY <1>1, <1>3, <2>2
  <2> QED
    BY <2>1, <2>2
<1> QED
  BY <1>1, <1>3, <1>4 DEF RowOK

LEMMA RefreshedOK ==
  ASSUME NEW d \in Disks, NEW r, RowOK(tasks, r), Refreshed(d, r)
  PROVE  RowOK(tasks', row')
<1>1. tasks' \in Seq(Tasks) /\ Len(tasks') <= Cardinality(Tasks) /\ Len(tasks') \in Nat
  BY RowsType DEF Refreshed
<1>2. r \in Int /\ -1 <= r /\ r <= Cardinality(Tasks) /\ Cardinality(Tasks) \in Nat
  BY ListedFinite DEF RowOK
<1>3. row' = IF tasks' # << >> /\ r >= Len(tasks') THEN Len(tasks') - 1 ELSE r
  BY DEF Refreshed
<1>4. tasks' = << >> <=> Len(tasks') = 0
  BY <1>1
<1>5. /\ row' \in Int /\ -1 <= row' /\ row' <= Cardinality(Tasks)
      /\ tasks' # << >> => row' < Len(tasks')
  BY <1>1, <1>2, <1>3, <1>4
<1> QED
  BY <1>1, <1>2, <1>5 DEF RowOK

LEMMA FocusedRowOK ==
  ASSUME NEW u, NEW own, RowOK(tasks, row)
  PROVE  RowOK(tasks, FocusedRow(u, own))
<1> DEFINE q == FocusedRow(u, own)
           Listing == \E i \in DOMAIN tasks : tasks[i] = own[u]
           at == CHOOSE i \in DOMAIN tasks : tasks[i] = own[u]
<1>1. /\ tasks \in Seq(Tasks) /\ DOMAIN tasks = 1 .. Len(tasks) /\ Len(tasks) \in Nat
      /\ tasks = << >> <=> Len(tasks) = 0
      /\ row \in Int /\ -1 <= row
      /\ tasks # << >> => row < Len(tasks)
  BY ListedFinite DEF RowOK
<1>2. q = IF own[u] = NoTask THEN -1 ELSE IF Listing THEN at - 1 ELSE Larger(row, 0)
  BY DEF FocusedRow
<1>3. Listing => at \in 1 .. Len(tasks)
  BY <1>1
<1> HIDE DEF q, Listing, at
<1>4. /\ q \in Int /\ -1 <= q /\ (tasks # << >> => q < Len(tasks))
      /\ tasks = << >> => q <= Larger(row, 0)
  BY <1>1, <1>2, <1>3 DEF Larger
<1>5. RowOK(tasks, q)
  BY <1>4, RowFits
<1> QED
  BY <1>5 DEF q

LEMMA FocusOK ==
  ASSUME NEW u, NEW ss, NEW own, NEW alive, ListOK(ss, own, alive),
         FocusSession(u, ss, own, alive)
  PROVE  card' \in Nat /\ focus' \in {"tasks", "cards", "chat"}
<1>1. ss \in Seq(Uuids) /\ own \in Owners
  BY DEF ListOK
<1>2. card' = CardOf(u, ss, own, tasks, FocusedRow(u, own), 0) /\ focus' \in {"cards", "chat"}
  BY DEF FocusSession
<1>3. card' \in Nat
  BY <1>1, <1>2, CardOfIs
<1> QED
  BY <1>2, <1>3

LEMMA OnTopOK ==
  ASSUME NEW u \in Uuids, NEW own \in Owners, ListOK(sessions, owner, live)
  PROVE  /\ ListOK(OnTop(u, sessions), own, live \cup {u})
         /\ ListOK(OnTop(u, sessions), own, live)
         /\ ListOK(OnTop(u, sessions), own, live \ {u})
  BY OnTopIds DEF ListOK

LEMMA CloseOK ==
  ASSUME ListOK(sessions, owner, live), NEW c
  PROVE  ListOK(Only(sessions, Uuids \ {c}), owner, live \ {c})
<1> DEFINE A == Uuids \ {c}
           o == Only(sessions, A)
<1>1. sessions \in Seq(Uuids) /\ owner \in Owners /\ live \in SUBSET Ids(sessions)
  BY DEF ListOK
<1>2. \A k \in DOMAIN sessions : sessions[k] \in Uuids
  BY <1>1
<1>3. /\ o \in Seq(Uuids)
      /\ \A k \in DOMAIN sessions : sessions[k] \in A => \E i \in DOMAIN o : o[i] = sessions[k]
  <2> HIDE DEF A
  <2> QED
    BY <1>1, OnlyType, OnlyElements DEF o
<1> HIDE DEF o
<1>4. live \ {c} \subseteq Ids(o)
  BY <1>1, <1>2, <1>3 DEF Ids
<1>5. ListOK(o, owner, live \ {c})
  BY <1>1, <1>3, <1>4 DEF ListOK
<1> QED
  BY <1>5 DEF o

LEMMA InitOK ==
  Init => IInv
<1> SUFFICES ASSUME Init PROVE IInv
  OBVIOUS
<1>1. disk \in Disks /\ tasks = SortForBoard(disk)
  BY DEF Init, Disks
<1>2. tasks \in Seq(Tasks) /\ Len(tasks) <= Cardinality(Tasks) /\ Len(tasks) \in Nat
  BY <1>1, RowsType
<1>3. RowOK(tasks, row)
  <2>1. Cardinality(Tasks) \in Nat /\ row = 0 /\ (tasks # << >> => 0 < Len(tasks))
    BY <1>2, ListedFinite DEF Init
  <2> QED
    BY <1>2, <2>1 DEF RowOK
<1>4. ListOK(sessions, owner, live)
  BY DEF Init, ListOK, Owners, Ids
<1> QED
  BY <1>1, <1>3, <1>4, IInvParts DEF Init

\* Every step keeps the invariant; each action is seen through RowOK and ListOK.
LEMMA StepOK ==
  IInv /\ [Next]_vars => IInv'
<1> SUFFICES ASSUME IInv, [Next]_vars PROVE IInv'
  OBVIOUS
<1>1. /\ disk \in Disks /\ RowOK(tasks, row) /\ ListOK(sessions, owner, live)
      /\ card \in Nat /\ focus \in {"tasks", "cards", "chat"}
  BY IInvParts
<1>2. /\ tasks \in Seq(Tasks) /\ Len(tasks) \in Nat /\ row \in Int /\ -1 <= row
      /\ tasks = << >> <=> Len(tasks) = 0
      /\ tasks # << >> => row < Len(tasks)
      /\ sessions \in Seq(Uuids) /\ owner \in Owners /\ live \subseteq Uuids
  BY <1>1, ListedFinite DEF RowOK, ListOK, Ids
<1>3. SUFFICES /\ disk' \in Disks /\ RowOK(tasks', row') /\ ListOK(sessions', owner', live')
               /\ card' \in Nat /\ focus' \in {"tasks", "cards", "chat"}
  BY DEF IInv, TypeOK, Disks, Owners, RowOK, ListOK, Ids
<1>4. CASE Select
  <2>1. /\ row' \in Int /\ -1 <= row' /\ (tasks # << >> => row' < Len(tasks))
        /\ tasks = << >> => row' <= Larger(row, 0)
    BY <1>2, <1>4 DEF Select, Smaller, Larger
  <2>2. RowOK(tasks, row')
    BY <1>1, <2>1, RowFits
  <2> QED
    BY <1>1, <1>4, <2>2 DEF Select
<1>5. CASE SelectCard
  <2> DEFINE n == Len(TaskCards(sessions, owner, tasks, row))
  <2>1. n \in Nat
    BY <1>2, TaskCardsIds
  <2>2. card' \in {IF n = 0 THEN card ELSE Smaller(card + 1, n - 1), Larger(card - 1, 0)}
    BY <1>5 DEF SelectCard
  <2> HIDE DEF n
  <2>3. card' \in Nat
    BY <1>1, <2>1, <2>2 DEF Smaller, Larger
  <2> QED
    BY <1>1, <1>5, <2>3 DEF SelectCard
<1>6. CASE Focus
  BY <1>1, <1>6 DEF Focus
<1>7. ASSUME NEW u \in Uuids, PlayOpen(u) PROVE <1>3!1
  <2>1. RowOK(tasks, row')
    BY <1>1, <1>7, FocusedRowOK DEF PlayOpen
  <2>2. card' \in Nat /\ focus' \in {"tasks", "cards", "chat"}
    BY <1>1, <1>7, FocusOK DEF PlayOpen
  <2> QED
    BY <1>1, <1>7, <2>1, <2>2 DEF PlayOpen
<1>8. ASSUME NEW u \in Uuids, PlayNew(u) PROVE <1>3!1
  <2> DEFINE t == Target(tasks, row)
  <2>1. /\ t # NoTask
        /\ disk' = [disk EXCEPT ![t] = Wip] /\ owner' = [owner EXCEPT ![u] = t]
        /\ live' = live \cup {u} /\ sessions' = OnTop(u, sessions)
        /\ FocusSession(u, sessions', owner', live')
        /\ Refreshed(disk', FocusedRow(u, owner'))
    BY <1>8 DEF PlayNew
  <2>2. t \in Tasks
    BY <1>2, <2>1 DEF Target
  <2> HIDE DEF t
  <2>3. disk' \in Disks /\ owner' \in Owners
    BY <1>1, <1>2, <2>1, <2>2, StatusAssumption DEF Disks, Owners
  <2>4. ListOK(sessions', owner', live')
    BY <1>1, <2>1, <2>3, OnTopOK
  <2>5. card' \in Nat /\ focus' \in {"tasks", "cards", "chat"}
    BY <2>1, <2>4, FocusOK
  <2>6. RowOK(tasks', row')
    BY <1>1, <2>1, <2>3, FocusedRowOK, RefreshedOK
  <2> QED
    BY <2>3, <2>4, <2>5, <2>6
<1>9. ASSUME NEW u \in Uuids, SetupStart(u) PROVE <1>3!1
  <2>1. /\ live' = live \cup {u} /\ sessions' = OnTop(u, sessions) /\ row' = -1
        /\ FocusSession(u, sessions', owner, live')
        /\ disk' = disk /\ tasks' = tasks /\ owner' = owner
    BY <1>9 DEF SetupStart
  <2>2. ListOK(sessions', owner', live')
    BY <1>1, <1>2, <2>1, OnTopOK
  <2>3. card' \in Nat /\ focus' \in {"tasks", "cards", "chat"}
    BY <2>1, <2>2, FocusOK
  <2>4. RowOK(tasks, -1)
    BY <1>1, <1>2, RowFits DEF Larger
  <2> QED
    BY <1>1, <2>1, <2>2, <2>3, <2>4
<1>10. ASSUME NEW u \in Uuids, DrainPty(u) PROVE <1>3!1
  <2>1. /\ live' \in {live, live \ {u}} /\ sessions' = OnTop(u, sessions)
        /\ card' = Resorted(Current, sessions')
        /\ disk' = disk /\ tasks' = tasks /\ owner' = owner /\ row' = row /\ focus' = focus
    BY <1>10 DEF DrainPty
  <2>2. ListOK(sessions', owner', live')
    BY <1>1, <1>2, <2>1, OnTopOK
  <2>3. sessions' \in Seq(Uuids)
    BY <2>2 DEF ListOK
  <2>4. CardOf(Current, sessions', owner, tasks, row, card) \in Nat
    BY <1>1, <1>2, <2>3, CardOfIs
  <2>5. card' \in Nat
    BY <1>1, <2>1, <2>4 DEF Resorted
  <2> QED
    BY <1>1, <2>1, <2>2, <2>5
<1>11. CASE FinishSession
  <2>1. ListOK(sessions, owner, live \ {Current})
    BY <1>1 DEF ListOK
  <2> QED
    BY <1>1, <1>11, <2>1 DEF FinishSession
<1>12. CASE CloseSession
  <2>1. /\ live' = live \ {Current} /\ sessions' = Only(sessions, Uuids \ {Current})
        /\ card' = Larger(card - 1, 0) /\ focus' = IF focus = "chat" THEN "cards" ELSE focus
        /\ disk' = disk /\ tasks' = tasks /\ owner' = owner /\ row' = row
    BY <1>12 DEF CloseSession
  <2>2. ListOK(sessions', owner', live')
    BY <1>1, <2>1, CloseOK
  <2>3. card' \in Nat /\ focus' \in {"tasks", "cards", "chat"}
    BY <1>1, <2>1 DEF Larger
  <2> QED
    BY <1>1, <2>1, <2>2, <2>3
<1>13. ASSUME NEW t \in Tasks, Edit(t) PROVE <1>3!1
  <2>1. PICK s \in Statuses \cup {Gone} : disk' = [disk EXCEPT ![t] = s]
    BY <1>13 DEF Edit
  <2>2. disk' \in Disks
    BY <1>1, <2>1 DEF Disks
  <2> QED
    BY <1>1, <1>13, <2>2 DEF Edit
<1>14. CASE Reload
  <2>1. RowOK(tasks', row')
    BY <1>1, <1>14, RefreshedOK DEF Reload
  <2> QED
    BY <1>1, <1>14, <2>1 DEF Reload
<1>15. CASE UNCHANGED vars
  BY <1>1, <1>15 DEF vars
<1> QED
  BY <1>4, <1>5, <1>6, <1>7, <1>8, <1>9, <1>10, <1>11, <1>12, <1>13, <1>14, <1>15 DEF Next

LEMMA Inductive ==
  Spec => []IInv
<1> QED
  BY InitOK, StepOK, PTL DEF Spec

\* Whatever tasks, sessions, reloads and moves there are, the cursor's row is
\* that of a task while the list has one, and only listed sessions are live
\* (app.rs:921, :2246).
THEOREM TypeCorrect ==
  Spec => []TypeOK
<1>1. IInv => TypeOK
  BY DEF IInv
<1> QED
  BY <1>1, Inductive, PTL

-----------------------------------------------------------------------------
(* The card stays. *)

\* The lists before and after have the same ids, so that the session that was
\* selected is found again; in a list of one there is no other to be on.
LEMMA DrainKeepsCard ==
  ASSUME IInv, NEW u \in Uuids, DrainPty(u)
  PROVE  Current' = Current
<1> DEFINE old == TaskCards(sessions, owner, tasks, row)
           new == TaskCards(sessions', owner, tasks, row)
<1>1. /\ sessions \in Seq(Uuids) /\ owner \in Owners /\ card \in Nat /\ u \in Ids(sessions)
  BY IInvParts DEF ListOK, DrainPty
<1>2. /\ sessions' = OnTop(u, sessions) /\ card' = Resorted(Current, sessions')
      /\ tasks' = tasks /\ owner' = owner /\ row' = row
  BY DEF DrainPty
<1>3. sessions' \in Seq(Uuids) /\ Ids(sessions') = Ids(sessions)
  <2> DEFINE o == OnTop(u, sessions)
  <2>1. o \in Seq(Uuids) /\ Ids(o) = Ids(sessions) \cup {u}
    BY <1>1, OnTopIds
  <2> HIDE DEF o
  <2>2. Ids(o) = Ids(sessions)
    BY <1>1, <2>1
  <2> QED
    BY <1>2, <2>1, <2>2 DEF o
<1>4. /\ old \in Seq(Uuids) /\ new \in Seq(Uuids) /\ Ids(new) = Ids(old)
      /\ Ids(new) \subseteq Ids(sessions')
  <2> DEFINE here(v) == HasCards(tasks, row) /\ owner[v] = Target(tasks, row)
  <2>1. old \in Seq(Uuids) /\ Ids(old) = {v \in Ids(sessions) : here(v)}
    BY <1>1, TaskCardsIds
  <2>2. new \in Seq(Uuids) /\ Ids(new) = {v \in Ids(sessions') : here(v)}
    BY <1>1, <1>3, TaskCardsIds
  <2> HIDE DEF old, new
  <2> QED
    BY <1>3, <2>1, <2>2
<1>5. Current = SelectedCard(old, card) /\ Current' = SelectedCard(new, card')
  BY <1>2 DEF Current
<1>6. card' = IF Len(sessions') < 2 THEN card
                ELSE CardOf(Current, sessions', owner, tasks, row, card)
  BY <1>2 DEF Resorted
<1>7. LET k == CardOf(Current, sessions', owner, tasks, row, card)
      IN  k \in Nat /\ (Current \in Ids(new) => k + 1 \in DOMAIN new /\ new[k + 1] = Current)
  BY <1>1, <1>3, CardOfIs
<1>8. card' \in Nat
  BY <1>1, <1>6, <1>7
<1> HIDE DEF old, new
<1>9. CASE old = << >>
  <2>1. Current = NoCard /\ Ids(new) = {}
    BY <1>1, <1>4, <1>5, <1>9, SelectedIs
  <2>2. new = << >>
    BY <1>4, <1>8, <2>1, SelectedIs
  <2> QED
    BY <1>4, <1>5, <1>8, <2>1, <2>2, SelectedIs
<1>10. CASE old # << >>
  <2>1. Current \in Ids(new)
    BY <1>1, <1>4, <1>5, <1>10, SelectedIs
  <2>2. CASE Len(sessions') < 2
    <3>1. DOMAIN sessions' \subseteq {1}
      BY <1>3, <2>2
    <3>2. Ids(new) \subseteq {sessions'[1]}
      BY <1>4, <3>1 DEF Ids
    <3>3. new # << >>
      BY <1>4, <1>8, <2>1, SelectedIs
    <3>4. Current' \in Ids(new)
      BY <1>4, <1>5, <1>8, <3>3, SelectedIs
    <3> QED
      BY <2>1, <3>2, <3>4
  <2>3. CASE ~(Len(sessions') < 2)
    <3>1. card' + 1 \in DOMAIN new /\ new[card' + 1] = Current
      BY <1>6, <1>7, <2>1, <2>3
    <3> QED
      BY <1>4, <1>5, <1>8, <3>1, SelectedIs
  <2> QED
    BY <2>2, <2>3
<1> QED
  BY <1>9, <1>10

\* Output and exits reorder the cards, never what the cursor is on, with any
\* number of sessions in any order (app.rs:2320).
THEOREM CardStays ==
  Spec => ActivityKeepsCard
<1>1. IInv /\ [Next]_vars => [(\E u \in Uuids : DrainPty(u)) => Current' = Current]_vars
  BY DrainKeepsCard
<1> QED
  BY <1>1, Inductive, PTL DEF Spec, ActivityKeepsCard

-----------------------------------------------------------------------------
(* What was opened is selected. *)

\* A cursor that CardOf has placed on u reads u, if u is a card of the row.
LEMMA PlacedCard ==
  ASSUME NEW u, NEW ss \in Seq(Uuids), NEW own \in Owners, NEW ts, NEW r,
         u \in Ids(ss), HasCards(ts, r), own[u] = Target(ts, r)
  PROVE  SelectedCard(TaskCards(ss, own, ts, r), CardOf(u, ss, own, ts, r, 0)) = u
<1> DEFINE cards == TaskCards(ss, own, ts, r)
           k == CardOf(u, ss, own, ts, r, 0)
<1>1. cards \in Seq(Uuids) /\ u \in Ids(cards)
  BY TaskCardsIds
<1>2. k \in Nat /\ (u \in Ids(cards) => k + 1 \in DOMAIN cards /\ cards[k + 1] = u)
  BY CardOfIs
<1> HIDE DEF cards, k
<1>3. SelectedCard(cards, k) = u
  BY <1>1, <1>2, SelectedIs
<1> QED
  BY <1>3 DEF cards, k

\* The row of a session whose task is listed, or of a setup.
LEMMA RowOfSession ==
  ASSUME NEW u, NEW own, RowOK(tasks, row),
         own[u] = NoTask \/ \E i \in DOMAIN tasks : tasks[i] = own[u]
  PROVE  HasCards(tasks, FocusedRow(u, own)) /\ Target(tasks, FocusedRow(u, own)) = own[u]
<1> DEFINE q == FocusedRow(u, own)
<1>1. tasks \in Seq(Tasks) /\ DOMAIN tasks = 1 .. Len(tasks) /\ Len(tasks) \in Nat
  BY DEF RowOK
<1>2. CASE own[u] = NoTask
  <2>1. q = -1 /\ q + 1 \notin DOMAIN tasks
    BY <1>1, <1>2 DEF FocusedRow
  <2> HIDE DEF q
  <2>2. HasCards(tasks, q) /\ Target(tasks, q) = own[u]
    BY <1>2, <2>1 DEF HasCards, Target
  <2> QED
    BY <2>2 DEF q
<1>3. CASE own[u] # NoTask
  <2> DEFINE at == CHOOSE i \in DOMAIN tasks : tasks[i] = own[u]
  <2>1. at \in DOMAIN tasks /\ tasks[at] = own[u]
    BY <1>3
  <2>2. q = at - 1
    BY <1>3 DEF FocusedRow
  <2> HIDE DEF q, at
  <2>3. q + 1 = at
    BY <1>1, <2>1, <2>2
  <2>4. HasCards(tasks, q) /\ Target(tasks, q) = own[u]
    BY <2>1, <2>3 DEF HasCards, Target
  <2> QED
    BY <2>4 DEF q
<1> QED
  BY <1>2, <1>3

LEMMA OpenedSelected ==
  ASSUME IInv, NEW u \in Uuids,
         \/ PlayOpen(u)
         \/ SetupStart(u)
         \/ PlayNew(u) /\ Target(tasks', row') = owner'[u]
  PROVE  Current' = u
<1>1. RowOK(tasks, row) /\ ListOK(sessions, owner, live)
  BY IInvParts
<1>2. sessions \in Seq(Uuids) /\ owner \in Owners /\ live \subseteq Ids(sessions)
  BY <1>1 DEF ListOK
<1> DEFINE r == FocusedRow(u, owner')
<1>3. ASSUME NEW t, t = Target(tasks, row), t # NoTask
      PROVE  t \in Tasks /\ \E i \in DOMAIN tasks : tasks[i] = t
  BY <1>1, <1>3 DEF Target, RowOK
<1>4. ASSUME FocusSession(u, sessions', owner', live'), sessions' \in Seq(Uuids),
             owner' \in Owners, u \in Ids(sessions'),
             owner'[u] = NoTask \/ \E i \in DOMAIN tasks : tasks[i] = owner'[u],
             TaskCards(sessions', owner', tasks', row')
               = TaskCards(sessions', owner', tasks, r)
      PROVE  Current' = u
  <2>1. card' = CardOf(u, sessions', owner', tasks, r, 0)
    BY <1>4 DEF FocusSession
  <2>2. HasCards(tasks, r) /\ Target(tasks, r) = owner'[u]
    BY <1>1, <1>4, RowOfSession
  <2> HIDE DEF r
  <2>3. SelectedCard(TaskCards(sessions', owner', tasks, r), card') = u
    BY <1>4, <2>1, <2>2, PlacedCard
  <2> QED
    BY <1>4, <2>3 DEF Current
<1>5. CASE PlayOpen(u)
  <2>1. /\ owner[u] = Target(tasks, row) /\ owner[u] # NoTask /\ u \in live
        /\ FocusSession(u, sessions, owner, live) /\ row' = FocusedRow(u, owner)
        /\ tasks' = tasks /\ sessions' = sessions /\ owner' = owner /\ live' = live
    BY <1>5 DEF PlayOpen
  <2>2. \E i \in DOMAIN tasks : tasks[i] = owner[u]
    BY <1>3, <2>1
  <2> QED
    BY <1>2, <1>4, <2>1, <2>2
<1>6. CASE SetupStart(u)
  <2>1. /\ owner[u] = NoTask
        /\ FocusSession(u, sessions', owner, live') /\ row' = -1
        /\ sessions' = OnTop(u, sessions) /\ tasks' = tasks /\ owner' = owner
    BY <1>6 DEF SetupStart
  <2>2. sessions' \in Seq(Uuids) /\ u \in Ids(sessions')
    <3>1. OnTop(u, sessions) \in Seq(Uuids) /\ u \in Ids(OnTop(u, sessions))
      BY <1>2, OnTopIds
    <3> QED
      BY <2>1, <3>1
  <2>3. r = -1
    BY <2>1 DEF FocusedRow
  <2> HIDE DEF r
  <2>4. TaskCards(sessions', owner', tasks', row') = TaskCards(sessions', owner', tasks, r)
    BY <2>1, <2>3
  <2> QED
    BY <1>2, <1>4, <2>1, <2>2, <2>4
<1>7. CASE PlayNew(u) /\ Target(tasks', row') = owner'[u]
  <2> DEFINE t == Target(tasks, row)
  <2>1. /\ t # NoTask
        /\ owner' = [owner EXCEPT ![u] = t] /\ sessions' = OnTop(u, sessions)
        /\ FocusSession(u, sessions', owner', live')
    BY <1>7 DEF PlayNew
  <2>2. t \in Tasks /\ \E i \in DOMAIN tasks : tasks[i] = t
    BY <1>3, <2>1
  <2> HIDE DEF t
  <2>3. owner' \in Owners /\ owner'[u] = t
    BY <1>2, <2>1, <2>2 DEF Owners
  <2>4. sessions' \in Seq(Uuids) /\ u \in Ids(sessions')
    <3>1. OnTop(u, sessions) \in Seq(Uuids) /\ u \in Ids(OnTop(u, sessions))
      BY <1>2, OnTopIds
    <3> QED
      BY <2>1, <3>1
  <2>5. HasCards(tasks, r) /\ Target(tasks, r) = t
    BY <1>1, <2>2, <2>3, RowOfSession
  <2>6. row' + 1 \in DOMAIN tasks' /\ Target(tasks', row') = t
    BY <1>7, <2>1, <2>3 DEF Target
  <2>7. r + 1 \in DOMAIN tasks
    BY <2>1, <2>5 DEF Target
  <2> HIDE DEF r
  <2>8. TaskCards(sessions', owner', tasks', row') = TaskCards(sessions', owner', tasks, r)
    BY <2>5, <2>6, <2>7 DEF TaskCards
  <2> QED
    BY <1>4, <2>1, <2>2, <2>3, <2>4, <2>8
<1> QED
  BY <1>5, <1>6, <1>7

\* Play and setup leave the cursor on the session they opened, however many
\* cards the row has and wherever the cursor was (app.rs:2069).
THEOREM OpenedInFocus ==
  Spec => OpenFocuses
<1>1. IInv /\ [Next]_vars =>
        [\A u \in Uuids :
           \/ PlayOpen(u)
           \/ SetupStart(u)
           \/ PlayNew(u) /\ Target(tasks', row') = owner'[u]
           => Current' = u]_vars
  BY OpenedSelected
<1> QED
  BY <1>1, Inductive, PTL DEF Spec, OpenFocuses
=============================================================================
