-------------------------- MODULE SelectionProofs --------------------------
(***************************************************************************)
(* What Only returns, for every sequence and every set.  The facts are by  *)
(* induction on the length, for which the least number principle stands    *)
(* in: a counterexample of least length cannot be.                         *)
(***************************************************************************)
EXTENDS Selection, SequenceTheorems, FiniteSetTheorems, WellFoundedInduction, TLAPS

\* A set of numbers that is not empty has a least one.
LEMMA LeastNumber ==
  ASSUME NEW T \in SUBSET Nat, T # {}
  PROVE  \E n \in T : \A m \in T : n <= m
<1> DEFINE U == {0 .. n : n \in T}
<1>1. \A n \in T : 0 .. n \in FiniteSubsetsOf(Nat)
  <2> TAKE n \in T
  <2>1. IsFiniteSet(0 .. n)
    BY FS_Interval
  <2> QED
    BY <2>1 DEF FiniteSubsetsOf
<1>2. U \subseteq FiniteSubsetsOf(Nat) /\ U # {}
  BY <1>1
<1>3. PICK x \in U : \A y \in U : ~ (<<y, x>> \in StrictSubsetOrdering(Nat))
  BY <1>2, FS_StrictSubsetOrderingWellFounded, WFMin
<1>4. PICK n \in T : x = 0 .. n
  BY <1>3
<1>5. ASSUME NEW m \in T, m < n PROVE FALSE
  <2>1. 0 .. m \in U /\ 0 .. m \subseteq 0 .. n /\ 0 .. m # 0 .. n
    BY <1>5
  <2>2. 0 .. m \in SUBSET Nat /\ 0 .. n \in SUBSET Nat
    OBVIOUS
  <2>3. <<0 .. m, 0 .. n>> \in StrictSubsetOrdering(Nat)
    BY <2>1, <2>2 DEF StrictSubsetOrdering
  <2> QED
    BY <1>3, <1>4, <2>1, <2>3
<1> QED
  BY <1>5

-----------------------------------------------------------------------------
(* The recursive function. *)

\* What is chosen with x, p having been chosen before.
Step(p, x, A) == IF x \in A THEN Append(p, x) ELSE p

\* f holds, up to n, what is chosen of the first elements of s.
Chosen(s, A, n, f) ==
  f = [i \in 0 .. n |-> IF i = 0 THEN << >> ELSE Step(f[i - 1], s[i], A)]

LEMMA StepType ==
  ASSUME NEW S, NEW p \in Seq(S), NEW x \in S, NEW A
  PROVE  Step(p, x, A) \in Seq(S)
  BY DEF Step

\* There is such a function, and its values are sequences over those elements.
LEMMA ChosenExists ==
  ASSUME NEW S, NEW s \in Seq(S), NEW A, NEW n \in 0 .. Len(s)
  PROVE  \E f \in [0 .. n -> Seq(S)] : Chosen(s, A, n, f)
<1> DEFINE T == {m \in 0 .. Len(s) : ~ \E f \in [0 .. m -> Seq(S)] : Chosen(s, A, m, f)}
<1>1. T = {}
  <2> SUFFICES ASSUME T # {} PROVE FALSE
    OBVIOUS
  <2>1. PICK m \in T : \A k \in T : m <= k
    <3>1. T \in SUBSET Nat
      OBVIOUS
    <3> HIDE DEF T
    <3> QED
      BY <3>1, LeastNumber
  <2>2. m \in Nat /\ m <= Len(s) /\ ~ \E f \in [0 .. m -> Seq(S)] : Chosen(s, A, m, f)
    BY <2>1
  <2>3. CASE m = 0
    <3> DEFINE f == [i \in 0 .. 0 |-> << >>]
    <3>1. f \in [0 .. 0 -> Seq(S)]
      OBVIOUS
    <3>2. f = [i \in 0 .. 0 |-> IF i = 0 THEN << >> ELSE Step(f[i - 1], s[i], A)]
      OBVIOUS
    <3> QED
      BY <2>2, <2>3, <3>1, <3>2 DEF Chosen
  <2>4. CASE m > 0
    <3>1. m - 1 \in 0 .. Len(s) /\ m - 1 \notin T
      BY <2>1, <2>2, <2>4
    <3>2. PICK f \in [0 .. m - 1 -> Seq(S)] : Chosen(s, A, m - 1, f)
      BY <3>1
    <3>3. s[m] \in S /\ f[m - 1] \in Seq(S)
      BY <2>2, <2>4, <3>2
    <3> DEFINE v == Step(f[m - 1], s[m], A)
               g == [i \in 0 .. m |-> IF i = m THEN v ELSE f[i]]
    <3>4. v \in Seq(S)
      BY <3>3, StepType
    <3>5. g \in [0 .. m -> Seq(S)] /\ g[m] = v /\ \A i \in 0 .. m - 1 : g[i] = f[i]
      BY <2>2, <3>4
    <3>6. \A i \in 0 .. m - 1 :
            f[i] = IF i = 0 THEN << >> ELSE Step(f[i - 1], s[i], A)
      BY <3>2 DEF Chosen
    <3> HIDE DEF g
    <3>7. \A i \in 0 .. m :
            g[i] = IF i = 0 THEN << >> ELSE Step(g[i - 1], s[i], A)
      <4> TAKE i \in 0 .. m
      <4>1. CASE i = m
        <5>1. i # 0 /\ g[i - 1] = f[m - 1]
          BY <2>2, <2>4, <3>5, <4>1
        <5> QED
          BY <3>5, <4>1, <5>1
      <4>2. CASE i # m
        <5>1. i \in 0 .. m - 1 /\ (i # 0 => i - 1 \in 0 .. m - 1)
          BY <2>2, <4>2
        <5> QED
          BY <3>5, <3>6, <5>1
      <4> QED
        BY <4>1, <4>2
    <3>8. Chosen(s, A, m, g)
      BY <3>5, <3>7 DEF Chosen
    <3> QED
      BY <2>2, <3>5, <3>8
  <2> QED
    BY <2>2, <2>3, <2>4
<1> QED
  BY <1>1

\* What it does with one element.
LEMMA ChosenStep ==
  ASSUME NEW s, NEW A, NEW n \in Nat, NEW f, Chosen(s, A, n, f), NEW i \in 1 .. n
  PROVE  f[i] = Step(f[i - 1], s[i], A)
<1>1. i \in 0 .. n /\ i # 0
  OBVIOUS
<1> QED
  BY <1>1 DEF Chosen

\* s and t begin with the same n elements.
SameUpto(s, t, n) == \A i \in 1 .. n : s[i] = t[i]

\* There is one only.
LEMMA ChosenUnique ==
  ASSUME NEW S, NEW s \in Seq(S), NEW t \in Seq(S), NEW A, NEW n \in Nat,
         NEW f, Chosen(s, A, n, f), NEW m \in Nat, NEW g, Chosen(t, A, m, g), n <= m,
         SameUpto(s, t, n)
  PROVE  \A i \in 0 .. n : f[i] = g[i]
<1> DEFINE T == {i \in 0 .. n : f[i] # g[i]}
<1>1. /\ \A i \in 0 .. n :
           f[i] = IF i = 0 THEN << >> ELSE Step(f[i - 1], s[i], A)
      /\ \A i \in 0 .. m :
           g[i] = IF i = 0 THEN << >> ELSE Step(g[i - 1], t[i], A)
  BY DEF Chosen
<1>2. T = {}
  <2> SUFFICES ASSUME T # {} PROVE FALSE
    OBVIOUS
  <2>1. PICK i \in T : \A k \in T : i <= k
    <3>1. T \in SUBSET Nat
      OBVIOUS
    <3> HIDE DEF T
    <3> QED
      BY <3>1, LeastNumber
  <2>2. i # 0
    BY <1>1
  <2>3. i - 1 \in 0 .. n /\ i - 1 \notin T
    BY <2>1, <2>2
  <2> QED
    BY <1>1, <2>1, <2>2, <2>3 DEF SameUpto
<1> QED
  BY <1>2

\* What Only returns is the last value of that function.
LEMMA OnlyIsChosen ==
  ASSUME NEW S, NEW s \in Seq(S), NEW A
  PROVE  \E f \in [0 .. Len(s) -> Seq(S)] : Chosen(s, A, Len(s), f) /\ Only(s, A) = f[Len(s)]
<1> DEFINE c == CHOOSE f : Chosen(s, A, Len(s), f)
<1>1. PICK f \in [0 .. Len(s) -> Seq(S)] : Chosen(s, A, Len(s), f)
  <2>1. Len(s) \in 0 .. Len(s)
    OBVIOUS
  <2> QED
    BY <2>1, ChosenExists
<1>2. Chosen(s, A, Len(s), c)
  BY <1>1
<1>3. Only(s, A) = c[Len(s)]
  BY DEF Only, Chosen, Step
<1>4. c[Len(s)] = f[Len(s)]
  <2>1. SameUpto(s, s, Len(s)) /\ Len(s) \in Nat /\ Len(s) <= Len(s) /\ Len(s) \in 0 .. Len(s)
    BY DEF SameUpto
  <2>2. \A i \in 0 .. Len(s) : c[i] = f[i]
    <3> HIDE DEF c
    <3> QED
      BY <1>1, <1>2, <2>1, ChosenUnique
  <2> QED
    BY <2>1, <2>2
<1> QED
  BY <1>1, <1>3, <1>4

-----------------------------------------------------------------------------
(* The facts. *)

\* The values f of the function for s, one element after the other.
Run(S, s, A, f) ==
  /\ f \in [0 .. Len(s) -> Seq(S)]
  /\ f[0] = << >>
  /\ \A i \in 1 .. Len(s) : f[i] = Step(f[i - 1], s[i], A)

LEMMA OnlyRuns ==
  ASSUME NEW S, NEW s \in Seq(S), NEW A
  PROVE  \E f : Run(S, s, A, f) /\ Only(s, A) = f[Len(s)]
<1>1. PICK f \in [0 .. Len(s) -> Seq(S)] : Chosen(s, A, Len(s), f) /\ Only(s, A) = f[Len(s)]
  BY OnlyIsChosen
<1>2. f[0] = << >>
  BY <1>1 DEF Chosen
<1>3. \A i \in 1 .. Len(s) : f[i] = Step(f[i - 1], s[i], A)
  <2>1. Len(s) \in Nat
    OBVIOUS
  <2> QED
    BY <1>1, <2>1, ChosenStep
<1> QED
  BY <1>1, <1>2, <1>3 DEF Run

\* One step of it.
LEMMA RunStep ==
  ASSUME NEW S, NEW s \in Seq(S), NEW A, NEW f, Run(S, s, A, f), NEW i \in 1 .. Len(s)
  PROVE  /\ i \in 0 .. Len(s) /\ i - 1 \in 0 .. Len(s) /\ s[i] \in S
         /\ f[i - 1] \in Seq(S)
         /\ f[i] = Step(f[i - 1], s[i], A)
  BY DEF Run

LEMMA OnlyType ==
  ASSUME NEW S, NEW s \in Seq(S), NEW A
  PROVE  Only(s, A) \in Seq(S)
<1>1. PICK f : Run(S, s, A, f) /\ Only(s, A) = f[Len(s)]
  BY OnlyRuns
<1>2. f \in [0 .. Len(s) -> Seq(S)] /\ Len(s) \in 0 .. Len(s)
  BY <1>1 DEF Run
<1> QED
  BY <1>1, <1>2

LEMMA OnlyEmpty ==
  ASSUME NEW A
  PROVE  Only(<< >>, A) = << >>
<1>1. << >> \in Seq({}) /\ Len(<< >>) = 0
  OBVIOUS
<1>2. PICK f : Run({}, << >>, A, f) /\ Only(<< >>, A) = f[0]
  BY <1>1, OnlyRuns
<1>3. f[0] = << >>
  BY <1>2 DEF Run
<1> QED
  BY <1>2, <1>3

\* g tells where in the first n elements of s what is in q comes from: in the
\* order it has there, and all of A in them.
Embeds(s, A, n, q, g) ==
  /\ g \in [1 .. Len(q) -> 1 .. n]
  /\ \A i \in 1 .. Len(q) : q[i] = s[g[i]] /\ s[g[i]] \in A
  /\ \A i, j \in 1 .. Len(q) : i < j => g[i] < g[j]
  /\ \A k \in 1 .. n : s[k] \in A => \E i \in 1 .. Len(q) : g[i] = k

\* One step of the run, when the next element is not in A ...
LEMMA EmbedsPass ==
  ASSUME NEW s, NEW A, NEW S, NEW n \in Nat \ {0}, NEW q \in Seq(S), NEW g,
         Embeds(s, A, n - 1, q, g), s[n] \notin A
  PROVE  Embeds(s, A, n, q, g)
<1>1. \A k \in 1 .. n : k = n \/ k \in 1 .. n - 1
  OBVIOUS
<1>2. 1 .. n - 1 \subseteq 1 .. n
  OBVIOUS
<1> QED
  BY <1>1, <1>2 DEF Embeds

\* ... and when it is.
LEMMA EmbedsTake ==
  ASSUME NEW s, NEW A, NEW S, NEW n \in Nat \ {0}, NEW q \in Seq(S), NEW g,
         Embeds(s, A, n - 1, q, g), s[n] \in A, s[n] \in S
  PROVE  \E h : Embeds(s, A, n, Append(q, s[n]), h)
<1> DEFINE l == Len(q) + 1
           r == Append(q, s[n])
           h == [i \in 1 .. l |-> IF i = l THEN n ELSE g[i]]
<1>1. /\ Len(r) = l /\ r[l] = s[n]
      /\ \A i \in 1 .. Len(q) : r[i] = q[i]
  OBVIOUS
<1>2. g \in [1 .. Len(q) -> 1 .. n - 1] /\ Len(q) \in Nat
  BY DEF Embeds
<1>3. /\ h \in [1 .. l -> 1 .. n] /\ h[l] = n
      /\ \A i \in 1 .. Len(q) : h[i] = g[i] /\ g[i] \in 1 .. n - 1
  <2>1. n \in 1 .. n /\ 1 .. n - 1 \subseteq 1 .. n
    OBVIOUS
  <2>2. \A i \in 1 .. l : i # l => i \in 1 .. Len(q)
    BY <1>2
  <2>3. \A i \in 1 .. Len(q) : i \in 1 .. l /\ i # l
    BY <1>2
  <2>4. l \in 1 .. l
    BY <1>2
  <2> HIDE DEF l
  <2> QED
    BY <1>2, <2>1, <2>2, <2>3, <2>4
<1>4. \A i \in 1 .. l : i = l \/ i \in 1 .. Len(q)
  BY <1>2
<1>5. 1 .. Len(q) \subseteq 1 .. l /\ l \in 1 .. l
  BY <1>2
<1> HIDE DEF h, r, l
<1>6. \A i \in 1 .. l : r[i] = s[h[i]] /\ s[h[i]] \in A
  BY <1>1, <1>3, <1>4 DEF Embeds
<1>7. \A i, j \in 1 .. l : i < j => h[i] < h[j]
  <2>1. \A i, j \in 1 .. Len(q) : i < j => g[i] < g[j]
    BY DEF Embeds
  <2> TAKE i, j \in 1 .. l
  <2> HAVE i < j
  <2>2. i \in 1 .. Len(q)
    BY <1>2 DEF l
  <2>3. CASE j = l
    <3>1. h[i] \in 1 .. n - 1 /\ h[j] = n
      BY <1>3, <2>2, <2>3
    <3> QED
      BY <3>1
  <2>4. CASE j \in 1 .. Len(q)
    BY <1>3, <2>1, <2>2, <2>4
  <2> QED
    BY <1>4, <2>3, <2>4
<1>8. \A k \in 1 .. n : s[k] \in A => \E i \in 1 .. l : h[i] = k
  <2> TAKE k \in 1 .. n
  <2> HAVE s[k] \in A
  <2>1. CASE k = n
    BY <1>3, <1>5, <2>1
  <2>2. CASE k # n
    <3>1. k \in 1 .. n - 1
      BY <2>2
    <3>2. PICK i \in 1 .. Len(q) : g[i] = k
      BY <3>1 DEF Embeds
    <3> QED
      BY <1>3, <1>5, <3>2
  <2> QED
    BY <2>1, <2>2
<1>9. Embeds(s, A, n, r, h)
  BY <1>1, <1>3, <1>6, <1>7, <1>8 DEF Embeds
<1> QED
  BY <1>9 DEF r

\* All of it: where the elements of Only(s, A) come from.
LEMMA OnlyEmbeds ==
  ASSUME NEW S, NEW s \in Seq(S), NEW A
  PROVE  \E g : Embeds(s, A, Len(s), Only(s, A), g)
<1>1. PICK f : Run(S, s, A, f) /\ Only(s, A) = f[Len(s)]
  BY OnlyRuns
<1> DEFINE T == {n \in 0 .. Len(s) : ~ \E g : Embeds(s, A, n, f[n], g)}
<1>2. T = {}
  <2> SUFFICES ASSUME T # {} PROVE FALSE
    OBVIOUS
  <2>1. PICK n \in T : \A m \in T : n <= m
    <3>1. T \in SUBSET Nat
      OBVIOUS
    <3> HIDE DEF T
    <3> QED
      BY <3>1, LeastNumber
  <2>2. n \in 0 .. Len(s) /\ ~ \E g : Embeds(s, A, n, f[n], g)
    BY <2>1
  <2>3. n # 0
    <3> SUFFICES Embeds(s, A, 0, f[0], << >>)
      BY <2>2
    <3>1. f[0] = << >>
      BY <1>1 DEF Run
    <3>2. Embeds(s, A, 0, << >>, << >>)
      BY DEF Embeds
    <3> QED
      BY <3>1, <3>2
  <2>4. n \in 1 .. Len(s) /\ n \in Nat \ {0} /\ n - 1 \in 0 .. Len(s) /\ ~ (n <= n - 1)
    BY <2>2, <2>3
  <2>5. n - 1 \notin T
    BY <2>1, <2>4
  <2>6. PICK g : Embeds(s, A, n - 1, f[n - 1], g)
    BY <2>4, <2>5
  <2>7. s[n] \in S /\ f[n - 1] \in Seq(S) /\ f[n] = Step(f[n - 1], s[n], A)
    BY <1>1, <2>4, RunStep
  <2> HIDE DEF T
  <2>8. CASE s[n] \in A
    <3>1. f[n] = Append(f[n - 1], s[n])
      BY <2>7, <2>8 DEF Step
    <3> QED
      BY <2>2, <2>4, <2>6, <2>7, <2>8, <3>1, EmbedsTake
  <2>9. CASE s[n] \notin A
    <3>1. f[n] = f[n - 1]
      BY <2>7, <2>9 DEF Step
    <3> QED
      BY <2>2, <2>4, <2>6, <2>7, <2>9, <3>1, EmbedsPass
  <2> QED
    BY <2>8, <2>9
<1>3. Len(s) \in 0 .. Len(s)
  OBVIOUS
<1> QED
  BY <1>1, <1>2, <1>3

\* The elements of Only(s, A).
LEMMA OnlyElements ==
  ASSUME NEW S, NEW s \in Seq(S), NEW A
  PROVE  /\ \A i \in DOMAIN Only(s, A) :
              Only(s, A)[i] \in A /\ \E k \in DOMAIN s : s[k] = Only(s, A)[i]
         /\ \A k \in DOMAIN s : s[k] \in A => \E i \in DOMAIN Only(s, A) : Only(s, A)[i] = s[k]
<1>1. PICK g : Embeds(s, A, Len(s), Only(s, A), g)
  BY OnlyEmbeds
<1> DEFINE q == Only(s, A)
<1>2. DOMAIN q = 1 .. Len(q) /\ DOMAIN s = 1 .. Len(s)
  BY OnlyType
<1>3. Embeds(s, A, Len(s), q, g)
  BY <1>1
<1> HIDE DEF q
<1>4. \A i \in DOMAIN q : q[i] \in A /\ \E k \in DOMAIN s : s[k] = q[i]
  BY <1>2, <1>3 DEF Embeds
<1>5. \A k \in DOMAIN s : s[k] \in A => \E i \in DOMAIN q : q[i] = s[k]
  BY <1>2, <1>3 DEF Embeds
<1> QED
  BY <1>4, <1>5 DEF q

\* Only goes through a concatenation: the run of s \o t, which is u below, is
\* that of s, and then ...
LEMMA OnlyPrefix ==
  ASSUME NEW S, NEW s \in Seq(S), NEW u \in Seq(S), NEW A, NEW f, NEW h,
         Len(s) <= Len(u), SameUpto(s, u, Len(s)),
         Chosen(s, A, Len(s), f), Chosen(u, A, Len(u), h)
  PROVE  h[Len(s)] = f[Len(s)]
<1>1. Len(s) \in Nat /\ Len(u) \in Nat /\ Len(s) \in 0 .. Len(s)
  OBVIOUS
<1>2. \A i \in 0 .. Len(s) : f[i] = h[i]
  BY <1>1, ChosenUnique
<1> QED
  BY <1>1, <1>2

\* ... that of t after it.  (Concatenation under a name the provers leave alone.)
Join(p, q) == p \o q

LEMMA StepJoin ==
  ASSUME NEW S, NEW p \in Seq(S), NEW q \in Seq(S), NEW x \in S, NEW A
  PROVE  Step(Join(p, q), x, A) = Join(p, Step(q, x, A))
<1>1. Append(p \o q, x) = p \o Append(q, x)
  OBVIOUS
<1> QED
  BY <1>1 DEF Step, Join

\* After the first n values, h goes on with what is chosen of t.
GoesOn(h, n, t, A) == \A i \in 1 .. Len(t) : h[n + i] = Step(h[n + (i - 1)], t[i], A)

\* After i more, h has what g has, after p.
After(h, n, p, g, i) == h[n + i] = Join(p, g[i])

LEMMA RunAfter ==
  ASSUME NEW S, NEW t \in Seq(S), NEW A, NEW g, Run(S, t, A, g), NEW p \in Seq(S),
         NEW h, NEW n \in Nat, After(h, n, p, g, 0), GoesOn(h, n, t, A)
  PROVE  After(h, n, p, g, Len(t))
<1>1. Len(t) \in Nat /\ 0 .. Len(t) \subseteq Nat /\ Len(t) \in 0 .. Len(t)
  OBVIOUS
<1> DEFINE T == {i \in 0 .. Len(t) : ~After(h, n, p, g, i)}
<1>2. T \in SUBSET Nat
  BY <1>1
<1>3. ASSUME NEW i \in T, \A k \in T : i <= k PROVE FALSE
  <2>1. i \in 0 .. Len(t) /\ ~After(h, n, p, g, i)
    OBVIOUS
  <2>2. i \in 1 .. Len(t) /\ i - 1 \in 0 .. Len(t) /\ ~ (i <= i - 1)
    BY <1>1, <2>1
  <2>3. After(h, n, p, g, i - 1)
    BY <1>3, <2>2
  <2> HIDE DEF T
  <2>4. g[i - 1] \in Seq(S) /\ t[i] \in S
    BY <2>2, RunStep
  <2>5. g[i] = Step(g[i - 1], t[i], A)
    BY <2>2, RunStep
  <2>6. h[n + i] = Step(h[n + (i - 1)], t[i], A)
    BY <2>2 DEF GoesOn
  <2>7. Step(Join(p, g[i - 1]), t[i], A) = Join(p, Step(g[i - 1], t[i], A))
    BY <2>4, StepJoin
  <2>8. h[n + i] = Join(p, g[i])
    BY <2>3, <2>5, <2>6, <2>7 DEF After
  <2> QED
    BY <2>1, <2>8 DEF After
<1>4. T = {}
  <2> HIDE DEF T
  <2> QED
    BY <1>2, <1>3, LeastNumber
<1> QED
  BY <1>1, <1>4

LEMMA OnlyConcat ==
  ASSUME NEW S, NEW s \in Seq(S), NEW t \in Seq(S), NEW A
  PROVE  Only(s \o t, A) = Only(s, A) \o Only(t, A)
<1> DEFINE u == s \o t
<1>1. u \in Seq(S) /\ Len(s) \in Nat /\ Len(u) = Len(s) + Len(t) /\ Len(t) \in Nat
  OBVIOUS
<1>2. \A i \in 1 .. Len(t) : u[Len(s) + i] = t[i]
  OBVIOUS
<1>3. PICK f \in [0 .. Len(s) -> Seq(S)] : Chosen(s, A, Len(s), f) /\ Only(s, A) = f[Len(s)]
  BY OnlyIsChosen
<1>4. PICK g : Run(S, t, A, g) /\ Only(t, A) = g[Len(t)]
  BY OnlyRuns
<1> HIDE DEF u
<1>5. PICK h \in [0 .. Len(u) -> Seq(S)] : Chosen(u, A, Len(u), h) /\ Only(u, A) = h[Len(u)]
  BY <1>1, OnlyIsChosen
<1>6. h[Len(s)] = Only(s, A)
  <2>1. Len(s) <= Len(u) /\ SameUpto(s, u, Len(s))
    BY DEF u, SameUpto
  <2> QED
    BY <1>1, <1>3, <1>5, <2>1, OnlyPrefix
<1>7. Only(s, A) \in Seq(S)
  BY OnlyType
<1>8. GoesOn(h, Len(s), t, A)
  <2> SUFFICES ASSUME NEW i \in 1 .. Len(t)
               PROVE  h[Len(s) + i] = Step(h[Len(s) + (i - 1)], t[i], A)
    BY DEF GoesOn
  <2>1. Len(s) + i \in 1 .. Len(u) /\ Len(u) \in Nat
    BY <1>1
  <2>2. h[Len(s) + i] = Step(h[Len(s) + i - 1], u[Len(s) + i], A)
    <3>1. Chosen(u, A, Len(u), h)
      BY <1>5
    <3> QED
      BY <2>1, <3>1, ChosenStep
  <2>3. Len(s) + i - 1 = Len(s) + (i - 1)
    BY <1>1
  <2> QED
    BY <1>2, <2>2, <2>3
<1>9. After(h, Len(s), Only(s, A), g, Len(t))
  <2>1. g[0] = << >>
    BY <1>4 DEF Run
  <2>2. After(h, Len(s), Only(s, A), g, 0)
    BY <1>1, <1>6, <1>7, <2>1 DEF After, Join
  <2> QED
    BY <1>1, <1>4, <1>7, <1>8, <2>2, RunAfter
<1> QED
  BY <1>1, <1>4, <1>5, <1>9 DEF u, After, Join

\* ... chooses an element or not ...
LEMMA OnlyOne ==
  ASSUME NEW x, NEW A
  PROVE  Only(<<x>>, A) = IF x \in A THEN <<x>> ELSE << >>
<1>1. <<x>> \in Seq({x}) /\ Len(<<x>>) = 1 /\ <<x>>[1] = x
  OBVIOUS
<1>2. PICK f : Run({x}, <<x>>, A, f) /\ Only(<<x>>, A) = f[1]
  BY <1>1, OnlyRuns
<1>3. f[0] = << >> /\ f[1] = Step(f[0], x, A)
  BY <1>1, <1>2 DEF Run
<1>4. Append(<< >>, x) = <<x>>
  OBVIOUS
<1> QED
  BY <1>2, <1>3, <1>4 DEF Step

\* ... and leaves nothing of a sequence that has nothing of A.
LEMMA OnlyNothing ==
  ASSUME NEW S, NEW s \in Seq(S), NEW A, \A i \in DOMAIN s : s[i] \notin A
  PROVE  Only(s, A) = << >>
<1>1. DOMAIN Only(s, A) = {}
  <2> SUFFICES ASSUME NEW i \in DOMAIN Only(s, A) PROVE FALSE
    OBVIOUS
  <2>1. Only(s, A)[i] \in A /\ \E k \in DOMAIN s : s[k] = Only(s, A)[i]
    BY OnlyElements
  <2> QED
    BY <2>1
<1>2. Only(s, A) \in Seq(S)
  BY OnlyType
<1> DEFINE q == Only(s, A)
<1> HIDE DEF q
<1>3. DOMAIN q = {} /\ q \in Seq(S)
  BY <1>1, <1>2 DEF q
<1>4. q = << >>
  BY <1>3
<1> QED
  BY <1>4 DEF q

\* Of a sequence that has nothing else, it leaves everything.
LEMMA OnlyAll ==
  ASSUME NEW S, NEW s \in Seq(S), NEW A, \A i \in DOMAIN s : s[i] \in A
  PROVE  Only(s, A) = s
<1>1. PICK f : Run(S, s, A, f) /\ Only(s, A) = f[Len(s)]
  BY OnlyRuns
<1> DEFINE Copied(i) == Len(f[i]) = i /\ \A k \in 1 .. i : f[i][k] = s[k]
           T == {i \in 0 .. Len(s) : ~Copied(i)}
<1>2. Len(s) \in Nat /\ DOMAIN s = 1 .. Len(s)
  OBVIOUS
<1>3. T = {}
  <2> SUFFICES ASSUME T # {} PROVE FALSE
    OBVIOUS
  <2>1. PICK i \in T : \A k \in T : i <= k
    <3>1. T \in SUBSET Nat
      OBVIOUS
    <3> HIDE DEF T
    <3> QED
      BY <3>1, LeastNumber
  <2>2. i # 0
    <3>1. f[0] = << >> /\ Len(<< >>) = 0
      BY <1>1 DEF Run
    <3> QED
      BY <2>1, <3>1
  <2>3. i \in 1 .. Len(s) /\ i - 1 \in 0 .. Len(s) /\ Copied(i - 1)
    BY <1>2, <2>1, <2>2
  <2>4. f[i] = Append(f[i - 1], s[i]) /\ f[i - 1] \in Seq(S)
    <3>1. s[i] \in A
      BY <1>2, <2>3
    <3>2. f[i] = Step(f[i - 1], s[i], A)
      BY <1>1, <2>3 DEF Run
    <3>3. f \in [0 .. Len(s) -> Seq(S)]
      BY <1>1 DEF Run
    <3> QED
      BY <2>3, <3>1, <3>2, <3>3 DEF Step
  <2> DEFINE p == f[i - 1]
  <2>5. p \in Seq(S) /\ Len(p) = i - 1 /\ \A k \in 1 .. i - 1 : p[k] = s[k]
    BY <2>3, <2>4
  <2> HIDE DEF p
  <2>6. LET r == Append(p, s[i])
        IN  Len(r) = i /\ \A k \in 1 .. i : r[k] = s[k]
    BY <2>3, <2>5
  <2>7. Copied(i)
    BY <2>4, <2>6 DEF p
  <2> QED
    BY <2>1, <2>7
<1>4. Copied(Len(s))
  BY <1>2, <1>3
<1> DEFINE q == Only(s, A)
<1>5. q \in Seq(S) /\ Len(q) = Len(s) /\ \A k \in 1 .. Len(s) : q[k] = s[k]
  BY <1>1, <1>4, OnlyType
<1> HIDE DEF q
<1>6. q = s
  BY <1>5
<1> QED
  BY <1>6 DEF q

\* The first element of a sequence is chosen first, or passed over.
LEMMA OnlyHead ==
  ASSUME NEW S, NEW s \in Seq(S), s # << >>, NEW A
  PROVE  Only(s, A) = IF Head(s) \in A THEN <<Head(s)>> \o Only(Tail(s), A)
                                       ELSE Only(Tail(s), A)
<1> DEFINE h == Head(s)
           t == Tail(s)
<1>1. /\ h \in S /\ t \in Seq(S) /\ Len(s) \in Nat \ {0}
      /\ h = s[1] /\ Len(t) = Len(s) - 1
      /\ \A i \in 1 .. Len(s) - 1 : t[i] = s[i + 1]
  BY HeadTailProperties, LenProperties
<1> HIDE DEF h, t
<1>2. <<h>> \in Seq(S) /\ Len(<<h>>) = 1 /\ <<h>>[1] = h
  BY <1>1
<1>3. s = <<h>> \o t
  <2> DEFINE u == <<h>> \o t
  <2>1. u \in Seq(S) /\ Len(u) = Len(s)
    BY <1>1, <1>2
  <2>2. \A i \in 1 .. Len(s) : u[i] = IF i = 1 THEN h ELSE t[i - 1]
    BY <1>1, <1>2
  <2>3. \A i \in 1 .. Len(s) : u[i] = s[i]
    BY <1>1, <2>2
  <2> HIDE DEF u
  <2>4. u = s
    BY <2>1, <2>3
  <2> QED
    BY <2>4 DEF u
<1>4. Only(<<h>> \o t, A) = Only(<<h>>, A) \o Only(t, A)
  <2> DEFINE o == <<h>>
  <2>1. o \in Seq(S)
    BY <1>2
  <2> HIDE DEF o
  <2>2. Only(o \o t, A) = Only(o, A) \o Only(t, A)
    BY <1>1, <2>1, OnlyConcat
  <2> QED
    BY <2>2 DEF o
<1>5. Only(<<h>>, A) = IF h \in A THEN <<h>> ELSE << >>
  BY OnlyOne
<1>6. << >> \o Only(t, A) = Only(t, A)
  BY <1>1, OnlyType
<1>7. Only(s, A) = IF h \in A THEN <<h>> \o Only(t, A) ELSE Only(t, A)
  BY <1>3, <1>4, <1>5, <1>6, Zenon
<1> QED
  BY <1>7 DEF h, t
=============================================================================
