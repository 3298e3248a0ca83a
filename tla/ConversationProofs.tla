------------------------- MODULE ConversationProofs -------------------------
(***************************************************************************)
(* Theorems about plan validation, for every plan, and about one planning  *)
(* conversation, for any selections, plans and bounds.                     *)
(***************************************************************************)
EXTENDS Conversation, PlanSearch, SequenceTheorems, FiniteSetTheorems, WellFoundedInduction, TLAPS
-----------------------------------------------------------------------------
(* Validation of a plan: the search for cycles, and what acceptance is worth. *)

\* The least of the numbers that are left is one of them.
LEMMA MinIsLeast ==
    ASSUME NEW S \in SUBSET Nat, S # {}
    PROVE  Min(S) \in S /\ \A y \in S : Min(S) <= y
<1>1. PICK x \in S : \A y \in S : <<y, x>> \notin OpToRel(<, Nat)
  BY NatLessThanWellFounded, WFMin
<1>2. \A y \in S : ~(y < x)
  BY <1>1, Zenon DEF OpToRel
<1>3. \A y \in S : x <= y
  BY <1>2
<1> QED BY <1>3 DEF Min

\* What a plan's dependencies are, and that with distinct IDs they are those of
\* the task that has the ID.
LEMMA DependenciesType ==
    ASSUME NEW tasks \in Seq(Tasks)
    PROVE  /\ DependenciesOf(tasks) \in [Ids(tasks) -> SUBSET Nat]
           /\ Ids(tasks) = {tasks[n].id : n \in DOMAIN tasks} /\ Ids(tasks) \in SUBSET Nat
           /\ Distinct(tasks) => \A n \in DOMAIN tasks :
                 DependenciesOf(tasks)[tasks[n].id] = tasks[n].deps
<1> DEFINE At(i) == {n \in DOMAIN tasks : tasks[n].id = i}
<1>1. Ids(tasks) = {tasks[n].id : n \in DOMAIN tasks} /\ Ids(tasks) \in SUBSET Nat
  <2>1. \A n \in DOMAIN tasks : tasks[n] \in Tasks
    OBVIOUS
  <2>2. Ids(tasks) = {tasks[n].id : n \in DOMAIN tasks}
    BY Zenon DEF Ids, ToSet
  <2> QED BY <2>1, <2>2 DEF Tasks
<1>2. ASSUME NEW i \in Ids(tasks) PROVE Min(At(i)) \in At(i)
  <2>1. At(i) # {} /\ At(i) \in SUBSET Nat
    BY <1>1
  <2> QED BY <2>1, MinIsLeast
<1>3. DependenciesOf(tasks) = [i \in Ids(tasks) |-> tasks[Min(At(i))].deps]
  BY DEF DependenciesOf
<1>4. \A n \in DOMAIN tasks : tasks[n] \in Tasks
  OBVIOUS
<1> HIDE DEF At
<1>5. \A i \in Ids(tasks) : Min(At(i)) \in DOMAIN tasks /\ tasks[Min(At(i))].id = i
  BY <1>2 DEF At
<1>6. DependenciesOf(tasks) \in [Ids(tasks) -> SUBSET Nat]
  BY <1>3, <1>4, <1>5 DEF Tasks
<1>7. ASSUME Distinct(tasks), NEW n \in DOMAIN tasks
      PROVE  DependenciesOf(tasks)[tasks[n].id] = tasks[n].deps
  <2>1. tasks[n].id \in Ids(tasks)
    BY <1>1
  <2>2. Min(At(tasks[n].id)) = n
    BY <1>5, <1>7, <2>1 DEF Distinct
  <2> QED BY <1>3, <2>1, <2>2
<1> QED BY <1>1, <1>6, <1>7

\* A path of the search, each task on it once.
Walk(d, p) ==
    /\ p \in Seq(DOMAIN d)
    /\ \A n, m \in 1..Len(p) : p[n] = p[m] => n = m
    /\ \A n \in 1..Len(p) - 1 : p[n + 1] \in d[p[n]]

\* Tasks that are done with: all they depend on is, and no cycle is among them.
Settled(d, D) ==
    /\ \A t \in D : d[t] \cap DOMAIN d \subseteq D
    /\ \A S \in SUBSET D : S # {} => \E t \in S : d[t] \cap S = {}

IsCycle(d, c) ==
    /\ c \in Seq(DOMAIN d) /\ Len(c) > 1 /\ c[1] = c[Len(c)]
    /\ \A n \in 1..Len(c) - 1 : c[n + 1] \in d[c[n]]

LEMMA WalkGrows ==
    ASSUME NEW d, NEW p, Walk(d, p), NEW t \in DOMAIN d, t \notin ToSet(p),
           p # <<>> => t \in d[p[Len(p)]]
    PROVE  Walk(d, Append(p, t)) /\ ToSet(Append(p, t)) = ToSet(p) \cup {t}
<1> DEFINE q == Append(p, t)
<1>1. /\ p \in Seq(DOMAIN d) /\ q \in Seq(DOMAIN d) /\ Len(q) = Len(p) + 1 /\ q[Len(p) + 1] = t
      /\ \A n \in 1..Len(p) : q[n] = p[n] /\ p[n] # t
      /\ Len(p) \in Nat /\ DOMAIN p = 1..Len(p) /\ DOMAIN q = 1..Len(p) + 1
  BY DEF Walk, ToSet
<1> HIDE DEF q
<1>2. \A n, m \in 1..Len(q) : q[n] = q[m] => n = m
  BY <1>1 DEF Walk
<1>3. ASSUME NEW n \in 1..Len(q) - 1 PROVE q[n + 1] \in d[q[n]]
  <2>1. n \in 1..Len(p) /\ q[n] = p[n]
    BY <1>1
  <2>2. CASE n = Len(p)
    <3>1. p # <<>>
      BY <2>1
    <3> QED BY <1>1, <2>1, <2>2, <3>1
  <2>3. CASE n # Len(p)
    <3>1. Len(p) \in Nat /\ n \in 1..Len(p)
      BY <1>1, <2>1
    <3>2. n \in 1..Len(p) - 1 /\ n + 1 \in 1..Len(p)
      BY <3>1, <2>3
    <3>3. q[n + 1] = p[n + 1] /\ p[n + 1] \in d[p[n]]
      BY <1>1, <3>2 DEF Walk
    <3> QED BY <2>1, <3>3
  <2> QED BY <2>2, <2>3
<1>4. ToSet(q) = ToSet(p) \cup {t}
  BY <1>1 DEF ToSet
<1> QED BY <1>1, <1>2, <1>3, <1>4 DEF Walk, q

LEMMA WalkShrinks ==
    ASSUME NEW d, NEW p, Walk(d, p), p # <<>>
    PROVE  /\ Walk(d, Front(p)) /\ ToSet(Front(p)) = ToSet(p) \ {Last(p)}
           /\ Last(p) \in ToSet(p) /\ Last(p) \in DOMAIN d
<1> DEFINE q == Front(p)
<1>1. /\ p \in Seq(DOMAIN d) /\ q \in Seq(DOMAIN d) /\ Len(q) = Len(p) - 1
      /\ \A n \in 1..Len(q) : q[n] = p[n]
      /\ Len(p) \in Nat /\ Len(p) > 0 /\ DOMAIN p = 1..Len(p) /\ DOMAIN q = 1..Len(p) - 1
  <2>1. p \in Seq(DOMAIN d) /\ Len(p) \in Nat /\ Len(p) > 0 /\ DOMAIN p = 1..Len(p)
    BY DEF Walk
  <2>2. q = SubSeq(p, 1, Len(p) - 1)
    BY DEF Front
  <2>3. q \in Seq(DOMAIN d) /\ Len(q) = Len(p) - 1 /\ \A n \in 1..Len(q) : q[n] = p[n]
    BY <2>1, <2>2
  <2> QED BY <2>1, <2>3
<1> HIDE DEF q
<1>2. Walk(d, q)
  BY <1>1 DEF Walk
<1>3. Last(p) = p[Len(p)] /\ Last(p) \in ToSet(p) /\ Last(p) \in DOMAIN d
  BY <1>1 DEF Last, ToSet
<1>4. ToSet(q) = ToSet(p) \ {Last(p)}
  BY <1>1, <1>3 DEF Walk, ToSet
<1> QED BY <1>2, <1>3, <1>4 DEF q

LEMMA WalkCloses ==
    ASSUME NEW d, NEW p, Walk(d, p), NEW n \in DOMAIN p, p[n] \in d[Last(p)]
    PROVE  IsCycle(d, Append(SubSeq(p, n, Len(p)), p[n]))
<1> DEFINE s == SubSeq(p, n, Len(p))
           c == Append(s, p[n])
<1>1. p \in Seq(DOMAIN d) /\ Len(p) \in Nat /\ n \in 1..Len(p) /\ p[n] \in DOMAIN d
  BY DEF Walk
<1>2. s \in Seq(DOMAIN d) /\ Len(s) = Len(p) - n + 1 /\ \A m \in 1..Len(s) : s[m] = p[n + m - 1]
  BY <1>1
<1> HIDE DEF s
<1>3. /\ c \in Seq(DOMAIN d) /\ Len(c) = Len(p) - n + 2 /\ c[Len(c)] = p[n]
      /\ \A m \in 1..Len(c) - 1 : c[m] = p[n + m - 1]
  BY <1>1, <1>2
<1> HIDE DEF c
<1>4. Len(c) > 1 /\ c[1] = c[Len(c)]
  BY <1>1, <1>3
<1>5. ASSUME NEW m \in 1..Len(c) - 1 PROVE c[m + 1] \in d[c[m]]
  <2>1. CASE m = Len(c) - 1
    <3>1. Len(c) \in Nat /\ n + m - 1 = Len(p) /\ m + 1 = Len(c)
      <4>1. Len(c) \in Nat /\ Len(p) \in Nat /\ n \in Nat /\ Len(c) = Len(p) - n + 2
        BY <1>1, <1>3
      <4> QED BY <4>1, <2>1
    <3>2. c[m] = p[Len(p)] /\ c[m + 1] = p[n]
      BY <1>3, <3>1
    <3> QED BY <3>2 DEF Last
  <2>2. CASE m # Len(c) - 1
    <3>1. m + 1 \in 1..Len(c) - 1 /\ n + m - 1 \in 1..Len(p) - 1
      <4>1. Len(c) \in Nat /\ Len(c) = Len(p) - n + 2
        BY <1>1, <1>3
      <4> QED BY <1>1, <4>1, <2>2
    <3>2. c[m] = p[n + m - 1] /\ c[m + 1] = p[n + (m + 1) - 1]
      BY <1>3, <3>1
    <3>3. n + (m + 1) - 1 = (n + m - 1) + 1
      BY <1>1, <3>1
    <3>4. p[(n + m - 1) + 1] \in d[p[n + m - 1]]
      BY <3>1 DEF Walk
    <3> QED BY <3>2, <3>3, <3>4
  <2> QED BY <2>1, <2>2
<1> QED BY <1>3, <1>4, <1>5 DEF IsCycle, c, s

LEMMA CycleIsCyclic ==
    ASSUME NEW d, NEW c, IsCycle(d, c)
    PROVE  Cyclic(d)
<1> DEFINE S == {c[n] : n \in 1..Len(c)}
<1>1. c \in Seq(DOMAIN d) /\ Len(c) \in Nat /\ Len(c) > 1
  BY DEF IsCycle
<1>2. S \in SUBSET DOMAIN d /\ c[1] \in S
  BY <1>1
<1>3. ASSUME NEW t \in S PROVE d[t] \cap S # {}
  <2>1. PICK n \in 1..Len(c) : t = c[n]
    OBVIOUS
  <2>2. PICK m \in 1..Len(c) - 1 : t = c[m]
    BY <1>1, <2>1 DEF IsCycle
  <2>3. c[m + 1] \in d[t] /\ c[m + 1] \in S
    BY <1>1, <2>2 DEF IsCycle
  <2> QED BY <2>3
<1> QED BY <1>2, <1>3 DEF Cyclic

LEMMA SettledIsAcyclic ==
    ASSUME NEW d, Settled(d, DOMAIN d)
    PROVE  ~Cyclic(d)
BY DEF Settled, Cyclic

LEMMA SettledGrows ==
    ASSUME NEW d, NEW D \in SUBSET DOMAIN d, Settled(d, D),
           NEW t \in DOMAIN d, t \notin D, d[t] \cap DOMAIN d \subseteq D
    PROVE  Settled(d, D \cup {t})
<1>1. \A u \in D \cup {t} : d[u] \cap DOMAIN d \subseteq D \cup {t}
  BY DEF Settled
<1>2. ASSUME NEW S \in SUBSET (D \cup {t}), S # {} PROVE \E u \in S : d[u] \cap S = {}
  <2>1. CASE S \ {t} = {}
    <3>1. S = {t} /\ t \notin d[t]
      BY <1>2, <2>1
    <3> QED BY <3>1
  <2>2. CASE S \ {t} # {}
    <3>1. S \ {t} \in SUBSET D
      OBVIOUS
    <3>2. PICK u \in S \ {t} : d[u] \cap (S \ {t}) = {}
      BY <2>2, <3>1 DEF Settled
    <3>3. u \in D /\ d[u] \cap DOMAIN d \subseteq D
      BY DEF Settled
    <3>4. t \notin d[u]
      BY <3>3
    <3> QED BY <3>2, <3>4
  <2> QED BY <2>1, <2>2
<1> QED BY <1>1, <1>2 DEF Settled

LEMMA Segment ==
    ASSUME NEW n \in Nat
    PROVE  IsFiniteSet(1..n) /\ Cardinality(1..n) = n
<1>1. IsFiniteSet(1..n) /\ Cardinality(1..n) = IF 1 > n THEN 0 ELSE n - 1 + 1
  BY FS_Interval
<1> QED BY <1>1

\* The first k of the tasks of a plan, in an order they can be carried out in.
Begins(tasks, k, o) ==
    /\ o \in Injection(1..k, DOMAIN tasks)
    /\ \A n \in 1..k : tasks[o[n]].deps \subseteq {tasks[o[m]].id : m \in 1..n - 1}

\* An order that leaves tasks out goes on: among those that are left is one
\* that waits for none of them.
LEMMA BeginsGoesOn ==
    ASSUME NEW tasks \in Seq(Tasks), Distinct(tasks), ~Cyclic(DependenciesOf(tasks)),
           \A n \in DOMAIN tasks : tasks[n].deps \subseteq Ids(tasks),
           NEW k \in Nat, k < Len(tasks), NEW o, Begins(tasks, k, o)
    PROVE  \E q : Begins(tasks, k + 1, q)
<1> DEFINE I == DOMAIN tasks
           left == {t \in I : \A n \in 1..k : o[n] # t}
           S == {tasks[t].id : t \in left}
<1>1. o \in Injection(1..k, I) /\ o \in [1..k -> I] /\ I = 1..Len(tasks) /\ Len(tasks) \in Nat
  BY Zenon, LenProperties DEF Begins, Injection
<1>2. \A n, m \in 1..k : o[n] = o[m] => n = m
  BY <1>1 DEF Injection, IsInjective
<1>3. left # {}
  <2>1. IsFiniteSet(I) /\ Cardinality(I) = Len(tasks) /\ Cardinality(1..k) = k
    BY <1>1, Segment
  <2>2. o \notin Surjection(1..k, I)
    BY <1>1, <2>1, FS_Injection
  <2> QED BY <1>1, <2>2 DEF Surjection
<1>4. PICK t \in left : DependenciesOf(tasks)[tasks[t].id] \cap S = {}
  <2>1. S # {} /\ S \in SUBSET DOMAIN DependenciesOf(tasks)
    BY <1>3, DependenciesType
  <2>2. PICK i \in S : DependenciesOf(tasks)[i] \cap S = {}
    BY <2>1, Zenon DEF Cyclic
  <2> QED BY <2>2
<1>5. tasks[t].deps \subseteq {tasks[o[m]].id : m \in 1..k}
  <2> SUFFICES ASSUME NEW e \in tasks[t].deps PROVE \E m \in 1..k : e = tasks[o[m]].id
    OBVIOUS
  <2>1. e \in Ids(tasks) /\ e \notin S
    BY <1>4, DependenciesType
  <2>2. PICK x \in I : e = tasks[x].id
    BY <2>1, DependenciesType
  <2>3. x \notin left
    BY <2>1, <2>2
  <2> QED BY <2>2, <2>3
<1> DEFINE q == [n \in 1..k + 1 |-> IF n = k + 1 THEN t ELSE o[n]]
<1>6. q \in [1..k + 1 -> I] /\ q[k + 1] = t /\ \A n \in 1..k : q[n] = o[n]
  BY <1>1
<1>7. t \in I /\ \A n \in 1..k : o[n] # t
  OBVIOUS
<1> HIDE DEF q, left, S
<1>8. \A n, m \in 1..k + 1 : q[n] = q[m] => n = m
  <2> SUFFICES ASSUME NEW n \in 1..k + 1, NEW m \in 1..k + 1, q[n] = q[m] PROVE n = m
    OBVIOUS
  <2>1. /\ n = k + 1 \/ n \in 1..k
        /\ m = k + 1 \/ m \in 1..k
    OBVIOUS
  <2> QED BY <1>2, <1>6, <1>7, <2>1
<1>9. ASSUME NEW n \in 1..k + 1
      PROVE  tasks[q[n]].deps \subseteq {tasks[q[m]].id : m \in 1..n - 1}
  <2>1. CASE n = k + 1
    <3>1. n - 1 = k
      BY <2>1
    <3> QED BY <1>5, <1>6, <2>1, <3>1
  <2>2. CASE n # k + 1
    <3>1. n \in 1..k /\ \A m \in 1..n - 1 : m \in 1..k
      BY <2>2
    <3>2. tasks[o[n]].deps \subseteq {tasks[o[m]].id : m \in 1..n - 1}
      BY <3>1 DEF Begins
    <3> QED BY <1>6, <3>1, <3>2
  <2> QED BY <2>1, <2>2
<1>10. q \in Injection(1..k + 1, I)
  BY <1>6, <1>8 DEF Injection, IsInjective
<1> QED BY <1>9, <1>10 DEF Begins

\* The longest order leaves none out.
LEMMA AcyclicIsRunnable ==
    ASSUME NEW tasks \in Seq(Tasks), Distinct(tasks), ~Cyclic(DependenciesOf(tasks)),
           \A n \in DOMAIN tasks : tasks[n].deps \subseteq Ids(tasks)
    PROVE  Runnable(tasks)
<1> DEFINE I == DOMAIN tasks
           begun == {k \in Nat : \E o : Begins(tasks, k, o)}
           left == {Len(tasks) - k : k \in begun}
<1>1. I = 1..Len(tasks) /\ Len(tasks) \in Nat /\ IsFiniteSet(I) /\ Cardinality(I) = Len(tasks)
  <2>1. I = 1..Len(tasks) /\ Len(tasks) \in Nat
    BY LenProperties
  <2> QED BY <2>1, Segment
<1>2. ASSUME NEW k \in begun PROVE k <= Len(tasks)
  <2>1. PICK o : Begins(tasks, k, o)
    OBVIOUS
  <2>2. o \in Injection(1..k, I) /\ Cardinality(1..k) = k
    BY <2>1, Segment DEF Begins
  <2> QED BY <1>1, <2>2, FS_Injection
<1>3. 0 \in begun
  <2>1. Begins(tasks, 0, [n \in 1..0 |-> n])
    BY DEF Begins, Injection, IsInjective
  <2> QED BY <2>1
<1>4. left \in SUBSET Nat /\ left # {}
  <2>1. \A k \in begun : Len(tasks) - k \in Nat
    BY <1>1, <1>2
  <2> QED BY <1>3, <2>1
<1>5. PICK k \in begun : \A j \in begun : Len(tasks) - k <= Len(tasks) - j
  <2>1. Min(left) \in left /\ \A x \in left : Min(left) <= x
    BY <1>4, MinIsLeast
  <2> QED BY <2>1
<1>6. k = Len(tasks)
  <2>1. k \in Nat /\ k <= Len(tasks) /\ Len(tasks) \in Nat
    BY <1>1, <1>2
  <2>2. CASE k < Len(tasks)
    <3>1. \E o : Begins(tasks, k, o)
      OBVIOUS
    <3>2. \E q : Begins(tasks, k + 1, q)
      BY <2>1, <2>2, <3>1, BeginsGoesOn
    <3>3. k + 1 \in begun
      BY <2>1, <3>2
    <3>4. Len(tasks) - k <= Len(tasks) - (k + 1)
      BY <1>5, <3>3
    <3> HIDE DEF begun
    <3> QED BY <2>1, <3>4
  <2> HIDE DEF begun
  <2> QED BY <2>1, <2>2
<1>7. PICK o : Begins(tasks, Len(tasks), o)
  BY <1>6
<1>8. o \in Bijection(I, I)
  <2>1. o \in Injection(I, I)
    BY <1>1, <1>7 DEF Begins
  <2>2. o \in Surjection(I, I)
    BY <1>1, <2>1, FS_Injection
  <2> QED BY <2>1, <2>2 DEF Bijection
<1> QED BY <1>1, <1>7, <1>8 DEF Begins, Runnable

LEMMA RunnableIsAcyclic ==
    ASSUME NEW tasks \in Seq(Tasks), Distinct(tasks), Runnable(tasks)
    PROVE  /\ \A t \in ToSet(tasks) : t.id \notin t.deps /\ t.deps \subseteq Ids(tasks)
           /\ ~Cyclic(DependenciesOf(tasks))
<1> DEFINE I == DOMAIN tasks
<1>1. PICK o \in Bijection(I, I) : \A n \in I :
          tasks[o[n]].deps \subseteq {tasks[o[m]].id : m \in 1..n - 1}
  BY DEF Runnable
<1>2. /\ o \in [I -> I] /\ \A t \in I : \E n \in I : o[n] = t
      /\ \A n, m \in I : o[n] = o[m] => n = m
  BY DEF Bijection, Injection, Surjection, IsInjective
<1>3. I = 1..Len(tasks) /\ Len(tasks) \in Nat
  BY LenProperties
<1>4. ASSUME NEW n \in I, NEW e \in tasks[o[n]].deps
      PROVE  \E m \in I : m < n /\ e = tasks[o[m]].id
  <2>1. PICK m \in 1..n - 1 : e = tasks[o[m]].id
    BY <1>1, <1>4
  <2> QED BY <1>3, <2>1
<1>5. ASSUME NEW t \in ToSet(tasks) PROVE t.id \notin t.deps /\ t.deps \subseteq Ids(tasks)
  <2>1. PICK n \in I : t = tasks[o[n]]
    <3>1. PICK x \in I : t = tasks[x]
      BY Zenon DEF ToSet
    <3> QED BY <1>2, <3>1
  <2>2. ASSUME t.id \in t.deps PROVE FALSE
    <3>1. PICK m \in I : m < n /\ tasks[o[n]].id = tasks[o[m]].id
      BY <1>4, <2>1, <2>2
    <3>2. o[n] = o[m]
      BY <1>2, <3>1 DEF Distinct
    <3> QED BY <1>2, <1>3, <3>1, <3>2
  <2>3. ASSUME NEW e \in t.deps PROVE e \in Ids(tasks)
    <3>1. PICK m \in I : e = tasks[o[m]].id
      BY <1>4, <2>1
    <3> QED BY <1>2, <3>1, DependenciesType
  <2> QED BY <2>2, <2>3
<1>6. ASSUME NEW S \in SUBSET DOMAIN DependenciesOf(tasks), S # {},
             \A i \in S : DependenciesOf(tasks)[i] \cap S # {}
      PROVE  FALSE
  <2> DEFINE P == {n \in I : tasks[o[n]].id \in S}
  <2>1. P # {}
    <3>1. PICK i \in S : TRUE
      BY <1>6
    <3>2. PICK x \in I : i = tasks[x].id
      BY DependenciesType
    <3> QED BY <1>2, <3>2
  <2>2. PICK n \in P : \A m \in P : n <= m
    <3>1. P \in SUBSET Nat
      BY <1>3
    <3>2. Min(P) \in P /\ \A m \in P : Min(P) <= m
      BY <2>1, <3>1, MinIsLeast
    <3> QED BY <3>2
  <2>3. PICK e \in S : e \in DependenciesOf(tasks)[tasks[o[n]].id]
    BY <1>6
  <2>4. e \in tasks[o[n]].deps
    BY <1>2, <2>3, DependenciesType
  <2>5. PICK m \in I : m < n /\ e = tasks[o[m]].id
    BY <1>4, <2>4
  <2> QED BY <1>3, <2>2, <2>5
<1> QED BY <1>5, <1>6 DEF Cyclic

\* The tasks the search is done with.
Gone == visited \ ToSet(path)

\* Where the search stands: what is under visit is a path through the plan,
\* what it is done with is settled.
SearchInv ==
    /\ plan \in Plans /\ phase \in {"checks", "search", "done"}
    /\ visited \in SUBSET DOMAIN deps /\ ToSet(path) \subseteq visited
    /\ Walk(deps, path) /\ Settled(deps, Gone)
    /\ phase # "done" => cycle = <<>>
    /\ phase = "search" => plan.tasks # <<>> /\ Distinct(plan.tasks)
    /\ phase = "done" =>
         \/ cycle = <<>> /\ (plan.tasks = <<>> \/ ~Distinct(plan.tasks))
         \/ cycle = <<>> /\ Distinct(plan.tasks) /\ Gone = DOMAIN deps
         \/ IsCycle(deps, cycle) /\ Distinct(plan.tasks)

LEMMA SearchInvInit == SearchInit => SearchInv
<1> SUFFICES ASSUME SearchInit PROVE SearchInv
  OBVIOUS
<1>1. path = <<>> /\ visited = {} /\ ToSet(path) = {} /\ Gone = {}
  BY DEF SearchInit, ToSet, Gone
<1>2. Walk(deps, path)
  BY <1>1 DEF Walk
<1>3. Settled(deps, Gone)
  BY <1>1 DEF Settled
<1> QED BY <1>1, <1>2, <1>3 DEF SearchInit, SearchInv

\* The dependencies of a plan, at every step.
LEMMA DepsTyped ==
    ASSUME plan \in Plans
    PROVE  /\ plan.tasks \in Seq(Tasks)
           /\ deps \in [Ids(plan.tasks) -> SUBSET Nat] /\ DOMAIN deps \in SUBSET Nat
<1>1. plan.tasks \in Seq(Tasks)
  BY PlansAssumption
<1> QED BY <1>1, DependenciesType DEF deps

\* Entering a task that was not visited before
LEMMA VisitKeeps ==
    ASSUME SearchInv, phase = "search", NEW t \in DOMAIN deps, t \notin visited,
           path # <<>> => t \in deps[Last(path)], Visit(t)
    PROVE  SearchInv'
<1>1. plan' = plan /\ deps' = deps /\ phase' = phase /\ cycle' = cycle
  BY DEF Visit, deps
<1>2. Walk(deps, path') /\ ToSet(path') = ToSet(path) \cup {t}
  <2>1. Walk(deps, path) /\ t \notin ToSet(path)
    BY DEF SearchInv
  <2>2. path # <<>> => t \in deps[path[Len(path)]]
    BY DEF Last
  <2> QED BY <2>1, <2>2, WalkGrows DEF Visit
<1>3. ToSet(path)' = ToSet(path')
  BY DEF ToSet
<1>4. visited' = visited \cup {t} /\ Gone' = Gone
  BY <1>2, <1>3 DEF Visit, Gone, SearchInv
<1> QED BY <1>1, <1>2, <1>3, <1>4 DEF SearchInv

LEMMA SearchInvNext == SearchInv /\ [SearchNext]_search => SearchInv'
<1> SUFFICES ASSUME SearchInv, [SearchNext]_search PROVE SearchInv'
  OBVIOUS
<1>1. plan' = plan /\ deps' = deps /\ DOMAIN deps \in SUBSET Nat
  BY DepsTyped DEF SearchInv, SearchNext, search, deps, Check, Enter, Descend, Close, Leave, Finish, Visit
<1>2. CASE UNCHANGED <<path, visited>>
  <2>1. Gone' = Gone /\ ToSet(path)' = ToSet(path)
    BY <1>2 DEF Gone, ToSet
  <2>2. CASE UNCHANGED <<phase, cycle>>
    BY <1>1, <1>2, <2>1, <2>2 DEF SearchInv
  <2>3. CASE Check
    BY <1>1, <1>2, <2>1, <2>3 DEF SearchInv, Check
  <2>4. CASE Close
    <3>1. PICK n \in DOMAIN path : path[n] = Min(Ahead) /\
             cycle' = Append(SubSeq(path, n, Len(path)), path[n])
      BY <2>4 DEF Close
    <3>2. Min(Ahead) \in Ahead
      <4>1. Ahead # {} /\ Ahead \in SUBSET Nat
        BY <1>1, <2>4 DEF Close, Ahead
      <4> QED BY <4>1, MinIsLeast
    <3>3. IsCycle(deps, cycle')
      BY <3>1, <3>2, WalkCloses DEF Ahead, SearchInv
    <3> QED BY <1>1, <1>2, <2>1, <2>4, <3>3 DEF SearchInv, Close
  <2>5. CASE Finish
    <3>1. DOMAIN deps \subseteq visited /\ ToSet(path) = {}
      BY <2>5 DEF Finish, Roots, ToSet
    <3>2. Gone = DOMAIN deps
      BY <3>1 DEF Gone, SearchInv
    <3> QED BY <1>1, <1>2, <2>1, <2>5, <3>2 DEF SearchInv, Finish
  <2>6. CASE Enter \/ Descend \/ Leave
    <3>1. path' # path
      <4>1. Walk(deps, path)
        BY DEF SearchInv
      <4>2. path \in Seq(DOMAIN deps)
        BY <4>1 DEF Walk
      <4>3. CASE Leave
        BY <4>2, <4>3 DEF Leave, Front
      <4>4. CASE Enter \/ Descend
        <5>1. PICK t : path' = Append(path, t)
          BY <4>4 DEF Enter, Descend, Visit
        <5> QED BY <4>2, <5>1
      <4> QED BY <2>6, <4>3, <4>4
    <3> QED BY <1>2, <3>1
  <2> QED BY <2>2, <2>3, <2>4, <2>5, <2>6 DEF SearchNext, search
<1>3. CASE Enter
  <2>1. Roots # {} /\ Roots \in SUBSET Nat
    BY <1>1, <1>3 DEF Enter, Roots
  <2>2. Min(Roots) \in Roots
    BY <2>1, MinIsLeast
  <2> QED BY <1>3, <2>2, VisitKeeps DEF Enter, Roots
<1>4. CASE Descend
  <2>1. Ahead # {} /\ Ahead \in SUBSET Nat
    BY <1>1, <1>4 DEF Descend, Ahead
  <2>2. Min(Ahead) \in Ahead
    BY <2>1, MinIsLeast
  <2> QED BY <1>4, <2>2, VisitKeeps DEF Descend, Ahead
<1>5. CASE Leave
  <2>1. Walk(deps, path) /\ path # <<>> /\ Ahead = {} /\ path' = Front(path) /\ visited' = visited
        /\ phase' = phase /\ phase = "search" /\ cycle' = cycle
    BY <1>5 DEF Leave, SearchInv
  <2>2. /\ Walk(deps, path') /\ ToSet(path') = ToSet(path) \ {Last(path)}
        /\ Last(path) \in ToSet(path) /\ Last(path) \in DOMAIN deps
    BY <2>1, WalkShrinks
  <2>3. ToSet(path)' = ToSet(path')
    BY DEF ToSet
  <2>4. Gone' = Gone \cup {Last(path)} /\ Last(path) \notin Gone
    BY <2>1, <2>2, <2>3 DEF Gone, SearchInv
  <2>5. deps[Last(path)] \cap DOMAIN deps \subseteq Gone
    BY <2>1 DEF Ahead, Gone
  <2>6. Settled(deps, Gone')
    BY <2>2, <2>4, <2>5, SettledGrows DEF SearchInv, Gone
  <2> QED BY <1>1, <2>1, <2>2, <2>3, <2>6 DEF SearchInv
<1> QED BY <1>2, <1>3, <1>4, <1>5 DEF SearchNext, search, Check, Close, Finish

LEMMA SearchInvSound == SearchInv => PlansSound
<1> SUFFICES ASSUME SearchInv, phase = "done" PROVE
      /\ Accepted <=> /\ plan.tasks # <<>> /\ WellAssigned(plan)
                      /\ Distinct(plan.tasks) /\ Runnable(plan.tasks)
      /\ Accepted <=> Valid(plan)
      /\ cycle # <<>> =>
           /\ Len(cycle) > 1 /\ cycle[1] = Last(cycle)
           /\ \A n \in 1..Len(cycle) - 1 : cycle[n + 1] \in deps[cycle[n]]
  BY DEF PlansSound
<1>1. plan.tasks \in Seq(Tasks)
  BY DepsTyped DEF SearchInv
<1>2. Distinct(plan.tasks) /\ plan.tasks # <<>> => (cycle = <<>> <=> ~Cyclic(deps))
  <2>1. ASSUME IsCycle(deps, cycle) PROVE cycle # <<>> /\ Cyclic(deps)
    BY <2>1, CycleIsCyclic DEF IsCycle
  <2>2. ASSUME Gone = DOMAIN deps PROVE ~Cyclic(deps)
    BY <2>2, SettledIsAcyclic DEF SearchInv
  <2> QED BY <2>1, <2>2 DEF SearchInv
<1>3. Accepted <=> Valid(plan)
  BY <1>2 DEF Accepted, Valid, Checked, deps
<1>4. Valid(plan) <=> /\ plan.tasks # <<>> /\ WellAssigned(plan)
                      /\ Distinct(plan.tasks) /\ Runnable(plan.tasks)
  <2>1. ASSUME Valid(plan) PROVE Runnable(plan.tasks)
    <3>1. \A n \in DOMAIN plan.tasks : plan.tasks[n].deps \subseteq Ids(plan.tasks)
      BY <2>1 DEF Valid, Checked, ToSet
    <3> QED BY <1>1, <2>1, <3>1, AcyclicIsRunnable DEF Valid, Checked
  <2>2. ASSUME Distinct(plan.tasks), Runnable(plan.tasks), plan.tasks # <<>>, WellAssigned(plan)
        PROVE  Valid(plan)
    BY <1>1, <2>2, RunnableIsAcyclic DEF Valid, Checked
  <2> QED BY <2>1, <2>2 DEF Valid, Checked
<1>5. cycle # <<>> => IsCycle(deps, cycle)
  BY DEF SearchInv
<1> QED BY <1>3, <1>4, <1>5 DEF IsCycle, Last

\* For every plan the search of validate_plan ends, when it ends, with the
\* verdict PlansSound asks for: it accepts exactly the plans whose tasks can be
\* carried out one after the other, and names a cycle only where there is one.
THEOREM SearchIsSound == SearchSpec => []PlansSound
<1> QED BY SearchInvInit, SearchInvNext, SearchInvSound, PTL DEF SearchSpec

\* What is left of the search: each task that was not entered costs two steps,
\* entering and leaving it, one under visit the second of them.
Left == 2 * Cardinality(Roots) + Len(path)
          + (IF phase = "checks" THEN 2 ELSE IF phase = "search" THEN 1 ELSE 0)

LEMMA RootsFinite ==
    ASSUME plan \in Plans
    PROVE  IsFiniteSet(Roots) /\ Cardinality(Roots) \in Nat
<1> DEFINE I == DOMAIN plan.tasks
           f == [n \in I |-> plan.tasks[n].id]
<1>1. plan.tasks \in Seq(Tasks) /\ DOMAIN deps = Ids(plan.tasks)
  BY DepsTyped
<1>2. I = 1..Len(plan.tasks) /\ Len(plan.tasks) \in Nat
  BY <1>1, LenProperties
<1>3. IsFiniteSet(I)
  BY <1>2, Segment, FS_EmptySet
<1>4. Ids(plan.tasks) = {plan.tasks[n].id : n \in I}
  BY <1>1, DependenciesType
<1>5. f \in Surjection(I, DOMAIN deps)
  BY <1>1, <1>4 DEF Surjection
<1>6. IsFiniteSet(DOMAIN deps)
  BY <1>3, <1>5, FS_Surjection
<1> QED BY <1>6, FS_Subset, FS_CardinalityType DEF Roots

\* One task less is to be entered when one is visited.
LEMMA VisitCounts ==
    ASSUME SearchInv, NEW t \in DOMAIN deps, t \notin visited, Visit(t)
    PROVE  /\ Cardinality(Roots)' = Cardinality(Roots) - 1 /\ Cardinality(Roots) \in Nat \ {0}
           /\ Len(path') = Len(path) + 1 /\ Len(path) \in Nat /\ phase' = phase
<1>1. deps' = deps /\ phase' = phase /\ path \in Seq(DOMAIN deps) /\ path' = Append(path, t)
  BY DEF Visit, deps, SearchInv, Walk
<1>2. Roots' = Roots \ {t} /\ t \in Roots
  BY <1>1 DEF Roots, Visit
<1>3. IsFiniteSet(Roots) /\ Cardinality(Roots) \in Nat
  BY RootsFinite DEF SearchInv
<1>4. Cardinality(Roots \ {t}) = Cardinality(Roots) - 1 /\ Cardinality(Roots \ {t}) \in Nat
  BY <1>2, <1>3, FS_RemoveElement, FS_CardinalityType
<1>5. Len(path') = Len(path) + 1 /\ Len(path) \in Nat
  BY <1>1
<1> QED BY <1>1, <1>2, <1>3, <1>4, <1>5

\* The search of validate_plan comes to an end for every plan: each of its steps
\* makes a natural number smaller, so a task that several others wait for is
\* not searched again and again, as a search without `visited' would.
THEOREM SearchComesToAnEnd == SearchSpec => [][Left' \in Nat /\ Left \in Nat /\ Left' < Left]_search
<1>1. ASSUME SearchInv, SearchNext
      PROVE  Left' \in Nat /\ Left \in Nat /\ Left' < Left
  <2>1. /\ Cardinality(Roots) \in Nat /\ path \in Seq(DOMAIN deps) /\ Len(path) \in Nat
        /\ deps' = deps /\ DOMAIN deps \in SUBSET Nat
    BY <1>1, RootsFinite, DepsTyped
       DEF SearchInv, Walk, SearchNext, deps, Check, Enter, Descend, Close, Leave, Finish, Visit
  <2>2. CASE UNCHANGED <<path, visited>> /\ phase # "done" /\ phase' # phase /\ phase' # "checks"
    <3>1. Cardinality(Roots)' = Cardinality(Roots)
      BY <2>1, <2>2 DEF Roots
    <3>2. phase \in {"checks", "search", "done"} /\ phase' \in {"checks", "search", "done"}
      BY <1>1, SearchInvNext DEF SearchInv
    <3> QED BY <2>1, <2>2, <3>1, <3>2 DEF Left
  <2>3. ASSUME NEW t \in DOMAIN deps, t \notin visited, Visit(t), phase = "search"
        PROVE  Left' \in Nat /\ Left \in Nat /\ Left' < Left
    BY <1>1, <2>3, VisitCounts DEF Left
  <2>4. CASE Enter
    <3>1. Min(Roots) \in Roots
      BY <2>1, <2>4, MinIsLeast DEF Enter, Roots
    <3> QED BY <2>3, <2>4, <3>1 DEF Enter, Roots
  <2>5. CASE Descend
    <3>1. Min(Ahead) \in Ahead
      BY <2>1, <2>5, MinIsLeast DEF Descend, Ahead
    <3> QED BY <2>3, <2>5, <3>1 DEF Descend, Ahead
  <2>6. CASE Leave
    <3>1. path # <<>> /\ path' = SubSeq(path, 1, Len(path) - 1) /\ visited' = visited
          /\ phase' = phase /\ phase = "search"
      BY <2>6 DEF Leave, Front
    <3>2. Cardinality(Roots)' = Cardinality(Roots)
      BY <2>1, <3>1 DEF Roots
    <3>3. Len(path) > 0
      <4>1. ASSUME NEW D, NEW s \in Seq(D), s # <<>> PROVE Len(s) > 0
        BY <4>1
      <4> QED BY <2>1, <3>1, <4>1
    <3>4. \A m \in Nat : m <= Len(path) => Len(SubSeq(path, 1, m)) = m
      BY <2>1
    <3>5. Len(path') = Len(path) - 1
      <4>1. Len(path) - 1 \in Nat /\ Len(path) - 1 <= Len(path)
        BY <2>1, <3>3
      <4> QED BY <3>1, <3>4, <4>1, Zenon
    <3> QED BY <2>1, <3>1, <3>2, <3>3, <3>5 DEF Left
  <2>7. CASE Check \/ Close \/ Finish
    BY <2>2, <2>7 DEF Check, Close, Finish
  <2> QED BY <1>1, <2>4, <2>5, <2>6, <2>7 DEF SearchNext
<1> QED BY <1>1, SearchInvInit, SearchInvNext, PTL DEF SearchSpec

\* A plan that validate_plan accepts can be carried out.
THEOREM ValidIsRunnable == \A p \in Plans : Valid(p) => Runnable(p.tasks)
<1> SUFFICES ASSUME NEW p \in Plans, Valid(p) PROVE Runnable(p.tasks)
  OBVIOUS
<1>1. p.tasks \in Seq(Tasks)
  BY PlansAssumption
<1>2. \A n \in DOMAIN p.tasks : p.tasks[n].deps \subseteq Ids(p.tasks)
  BY DEF Valid, Checked, ToSet
<1> QED BY <1>1, <1>2, AcyclicIsRunnable DEF Valid, Checked

\* What Executor assumes of the plans a run is created from (PlansAssumption
\* there) is what validate_plan ensures: finitely many tasks and at least one,
\* dependencies among them, and in every part of them one that waits for none
\* of that part.
THEOREM ValidFitsTheScheduler ==
    \A p \in Plans : Valid(p) =>
      LET d == DependenciesOf(p.tasks)
      IN  /\ DOMAIN d # {} /\ IsFiniteSet(DOMAIN d)
          /\ \A t \in DOMAIN d : d[t] \subseteq DOMAIN d
          /\ \A S \in SUBSET DOMAIN d : S # {} => \E t \in S : d[t] \cap S = {}
<1> SUFFICES ASSUME NEW p \in Plans, Valid(p)
    PROVE  LET d == DependenciesOf(p.tasks)
           IN  /\ DOMAIN d # {} /\ IsFiniteSet(DOMAIN d)
               /\ \A t \in DOMAIN d : d[t] \subseteq DOMAIN d
               /\ \A S \in SUBSET DOMAIN d : S # {} => \E t \in S : d[t] \cap S = {}
  OBVIOUS
<1> DEFINE d == DependenciesOf(p.tasks)
           I == DOMAIN p.tasks
<1>1. p.tasks \in Seq(Tasks) /\ p.tasks # <<>> /\ Distinct(p.tasks) /\ ~Cyclic(d)
  BY PlansAssumption DEF Valid, Checked
<1>2. /\ d \in [Ids(p.tasks) -> SUBSET Nat] /\ Ids(p.tasks) = {p.tasks[n].id : n \in I}
      /\ \A n \in I : d[p.tasks[n].id] = p.tasks[n].deps
  BY <1>1, DependenciesType
<1>3. I = 1..Len(p.tasks) /\ Len(p.tasks) \in Nat /\ Len(p.tasks) > 0 /\ IsFiniteSet(I)
  <2>1. I = 1..Len(p.tasks) /\ Len(p.tasks) \in Nat
    BY <1>1, LenProperties
  <2>2. Len(p.tasks) # 0
    BY <1>1
  <2> QED BY <2>1, <2>2, Segment
<1>4. DOMAIN d # {} /\ IsFiniteSet(DOMAIN d)
  <2> DEFINE f == [n \in I |-> p.tasks[n].id]
  <2>1. f \in Surjection(I, DOMAIN d) /\ 1 \in I
    BY <1>2, <1>3 DEF Surjection
  <2>2. IsFiniteSet(DOMAIN d)
    BY <1>3, <2>1, FS_Surjection
  <2> QED BY <1>2, <2>1, <2>2
<1>5. \A n \in I : p.tasks[n].deps \subseteq Ids(p.tasks)
  BY DEF Valid, Checked, ToSet
<1>6. \A t \in DOMAIN d : d[t] \subseteq DOMAIN d
  BY <1>2, <1>5
<1>7. \A S \in SUBSET DOMAIN d : S # {} => \E t \in S : d[t] \cap S = {}
  BY <1>1 DEF Cyclic
<1> QED BY <1>4, <1>6, <1>7
-----------------------------------------------------------------------------
(* A conversation: types.                                                  *)

Resolved == [leader : Selections \cup {None}, workers : SUBSET Selections, max : Nat]

Sessions == [selected : Resolved, base : Nat, asked : Nat, dialogue : Seq(Nat),
             pending : Seq(Nat), draft : Proposals \cup {None}, shown : SUBSET Nat,
             back : BOOLEAN]

InTurn == pc \in {"prompt", "ensure", "leader", "response"}

\* The types of what the theorems speak of; a turn has a session.
Types ==
    /\ head \in Nat /\ seen \in SUBSET Nat /\ back \in BOOLEAN
    /\ project \in Limits \cup {0}
    /\ file \in Preferences \cup {Unreadable, None}
    /\ settings \in Resolved
    /\ session # None => session \in Sessions
    /\ InTurn => session \in Sessions

LEMMA ResolveType ==
    ASSUME project \in Limits \cup {0}, NEW prefs \in Preferences \cup {None}
    PROVE  Resolve(prefs) \in Resolved
<1>1. project \in Nat
  BY ConversationAssumption
<1>2. CASE prefs = None
  BY <1>1, <1>2 DEF Resolve, Resolved
<1>3. CASE prefs # None
  BY <1>1, <1>3 DEF Resolve, Resolved, Preferences
<1> QED BY <1>2, <1>3

\* What apply_response may do to a session keeps its type.
LEMMA SessionUpdates ==
    ASSUME NEW s \in Sessions, NEW p \in Seq(Nat), NEW q \in Seq(Nat), NEW a \in Nat,
           NEW d \in Proposals \cup {None}, NEW w \in SUBSET Nat, NEW b \in BOOLEAN
    PROVE  /\ [s EXCEPT !.pending = p] \in Sessions
           /\ [s EXCEPT !.pending = p, !.asked = a] \in Sessions
           /\ [s EXCEPT !.dialogue = p, !.pending = q] \in Sessions
           /\ [s EXCEPT !.draft = d, !.shown = w, !.back = b, !.pending = p] \in Sessions
<1> HIDE DEF Resolved, Proposals
<1> QED BY DEF Sessions

LEMMA TypesInit == Init => Types
<1> SUFFICES ASSUME Init PROVE Types
  OBVIOUS
<1>1. Resolve(None) \in Resolved
  BY ResolveType DEF Init
<1> QED BY <1>1 DEF Init, Types, InTurn

LEMMA TypesNext == Types /\ [Next]_vars => Types'
<1> SUFFICES ASSUME Types, [Next]_vars PROVE Types'
  OBVIOUS
<1> USE DEF Types, InTurn, world
<1>1. CASE Start
  BY <1>1, ResolveType DEF Start, InForce
<1>2. CASE Settings
  BY <1>2 DEF Settings
<1>3. CASE Configure
  BY <1>3 DEF Configure
<1>4. CASE NotSaved
  BY <1>4 DEF NotSaved
<1>5. CASE Reload
  <2>1. CASE file \in {None, Unreadable}
    BY <1>5, <2>1 DEF Reload
  <2>2. CASE file \notin {None, Unreadable}
    <3>1. file \in Preferences
      BY <2>2
    <3>2. Resolve(file) \in Resolved
      BY <3>1, ResolveType
    <3> QED BY <1>5, <2>2, <3>2 DEF Reload, InForce
  <2> QED BY <2>1, <2>2
<1>6. ASSUME NEW prefs \in Preferences, Save(prefs) PROVE Types'
  <2>1. Resolve(prefs) \in Resolved
    BY ResolveType
  <2> QED BY <1>6, <2>1 DEF Save, InForce
<1>7. CASE TurnFails
  BY <1>7 DEF TurnFails, TurnEnds
<1>8. CASE BuildPrompt
  BY <1>8 DEF BuildPrompt
<1>9. CASE EnsureHead
  BY <1>9 DEF EnsureHead
<1>10. CASE LeaderReads
  BY <1>10 DEF LeaderReads
<1>11. CASE Respond
  <2>0. pc = "response"
    BY <1>11 DEF Respond
  <2>1. session \in Sessions /\ <<>> \in Seq(Nat)
    BY <2>0
  <2>2. ASSUME NEW n \in 1..MaxQuestions
        PROVE  [session EXCEPT !.pending = [i \in 1..n |-> session.asked + i], !.asked = @ + n]
                  \in Sessions
    <3>1. n \in Nat /\ session.asked \in Nat /\ session.asked + n \in Nat
      BY <2>1, ConversationAssumption DEF Sessions
    <3>2. [i \in 1..n |-> session.asked + i] \in Seq(Nat)
      BY <3>1
    <3> QED BY <2>1, <3>1, <3>2, SessionUpdates
  <2>3. ASSUME NEW draft \in Proposals
        PROVE  [session EXCEPT !.draft = draft, !.shown = seen, !.back = back, !.pending = <<>>] \in Sessions
    BY <2>1, SessionUpdates
  <2>4. [session EXCEPT !.pending = <<>>] \in Sessions
    BY <2>1, SessionUpdates
  <2>5. session' \in Sessions
    BY <1>11, <2>2, <2>3, <2>4 DEF Respond
  <2>6. pc' = "shell" /\ seen' = {} /\ back' = FALSE /\ UNCHANGED <<head, file, project, settings>>
    BY <1>11 DEF Respond, TurnEnds
  <2> QED BY <2>5, <2>6
<1>12. CASE Request
  <2> DEFINE New == [selected |-> settings, base |-> head, asked |-> 0, dialogue |-> <<>>,
                     pending |-> <<>>, draft |-> None, shown |-> {}, back |-> FALSE]
  <2>1. pc = "shell" /\ UNCHANGED <<head, file, project, settings, seen, back>>
    BY <1>12 DEF Request, StartPlanning
  <2>2. New \in Sessions
    BY DEF Sessions
  <2>4. (session' = New /\ pc' = "prompt") \/ (session' = None /\ pc' = pc)
    BY <1>12, Zenon DEF Request, StartPlanning
  <2> HIDE DEF New
  <2>5. CASE session' = New /\ pc' = "prompt"
    BY <2>1, <2>2, <2>5
  <2>6. CASE session' = None /\ pc' = pc
    BY <2>1, <2>6
  <2> QED BY <2>4, <2>5, <2>6
<1>13. CASE Answer
  <2>1. session \in Sessions /\ session.pending # <<>>
    BY <1>13 DEF Answer
  <2>2. session.pending \in Seq(Nat) /\ session.dialogue \in Seq(Nat)
    BY <2>1 DEF Sessions
  <2>3. /\ Append(session.dialogue, Head(session.pending)) \in Seq(Nat)
        /\ Tail(session.pending) \in Seq(Nat)
    BY <2>1, <2>2
  <2>4. session' \in Sessions
    BY <1>13, <2>1, <2>3, SessionUpdates DEF Answer
  <2> QED BY <1>13, <2>4 DEF Answer
<1>14. CASE Cancel
  BY <1>14 DEF Cancel
<1>15. CASE Quit
  BY <1>15 DEF Quit
<1>16. CASE MoveHead
  <2>1. head' \in 1..MaxCommits /\ MaxCommits \in Nat
    BY <1>16, ConversationAssumption DEF MoveHead
  <2>2. back' \in BOOLEAN
    BY <1>16, Zenon DEF MoveHead
  <2>3. head' \in Nat
    BY <2>1
  <2> QED BY <1>16, <2>2, <2>3 DEF MoveHead
<1>17. CASE Edit
  BY <1>17 DEF Edit
<1>18. CASE UNCHANGED vars
  BY <1>18 DEF vars
<1> QED BY <1>1, <1>2, <1>3, <1>4, <1>5, <1>6, <1>7, <1>8, <1>9, <1>10, <1>11, <1>12, <1>13,
           <1>14, <1>15, <1>16, <1>17, <1>18 DEF Next

\* The types hold of every conversation.
THEOREM ConversationTyped == Spec => []Types
BY TypesInit, TypesNext, PTL DEF Spec
-----------------------------------------------------------------------------
(* One commit.                                                             *)

HasSession == session # None \/ InTurn

\* While HEAD is at the session's commit, and has not come back to it, all that
\* was shown in the turn is of that commit.
SeenInv ==
    /\ pc \in {"ensure", "leader", "response"} =>
         seen # {} /\ (head = session.base /\ ~back => seen = {session.base})
    /\ HasSession =>
         (session.draft # None => session.shown = {session.base} \/ session.back)

LEMMA SeenInit == Init => SeenInv
BY DEF Init, SeenInv, HasSession, InTurn

LEMMA SeenNext == Types /\ SeenInv /\ [Next]_vars => SeenInv'
<1> SUFFICES ASSUME Types, SeenInv, [Next]_vars PROVE SeenInv'
  OBVIOUS
<1> USE DEF SeenInv, HasSession, InTurn, world
<1>1. CASE UNCHANGED <<head, session>> /\ ~InTurn'
  BY <1>1
<1>2. CASE UNCHANGED <<head, session, pc, seen, back>>
  BY <1>2
<1>3. CASE session' = None /\ ~InTurn'
  BY <1>3
<1>4. CASE BuildPrompt
  BY <1>4 DEF BuildPrompt
<1>5. CASE EnsureHead
  BY <1>5 DEF EnsureHead
<1>6. CASE LeaderReads
  BY <1>6 DEF LeaderReads
<1>7. CASE Respond
  <2>1. pc = "response" /\ head = session.base /\ session \in Sessions /\ pc' = "shell"
    BY <1>7 DEF Respond, TurnEnds, Types
  <2>2. session'.base = session.base /\
          \/ /\ session'.draft = session.draft /\ session'.shown = session.shown
             /\ session'.back = session.back
          \/ session'.shown = seen /\ session'.back = back
    BY <1>7, <2>1 DEF Respond, Sessions
  <2>3. back \/ seen = {session.base}
    BY <2>1
  <2>4. session.draft # None => session.shown = {session.base} \/ session.back
    BY <2>1
  <2>5. (session.draft # None => session.shown = {session.base} \/ session.back)'
    BY <2>2, <2>3, <2>4
  <2> QED BY <2>1, <2>5
<1>8. CASE Request
  BY <1>8 DEF Request, StartPlanning
<1>9. CASE Answer
  <2>1. session # None /\ session \in Sessions
    BY <1>9 DEF Answer, Types
  <2>2. pc' \notin {"ensure", "leader", "response"}
    BY <1>9 DEF Answer
  <2>3. /\ session'.base = session.base /\ session'.draft = session.draft
        /\ session'.shown = session.shown /\ session'.back = session.back
    BY <1>9, <2>1 DEF Answer, Sessions
  <2> QED BY <2>1, <2>2, <2>3
<1>10. CASE MoveHead
  <2>1. UNCHANGED <<session, pc, seen>>
    BY <1>10 DEF MoveHead
  <2>2. pc \in {"ensure", "leader", "response"} /\ head' = session.base => back'
    BY <1>10 DEF MoveHead
  <2> QED BY <2>1, <2>2
<1> QED
  BY <1>1, <1>2, <1>3, <1>4, <1>5, <1>6, <1>7, <1>8, <1>9, <1>10
     DEF Next, Start, Settings, Configure, NotSaved, Reload, Save, TurnFails, TurnEnds, Cancel,
         Quit, Edit, vars

\* All the Leader was shown for a draft is of the session's commit, wherever
\* commits and checkouts fall, unless HEAD came back to that commit during the
\* turn: invoke_leader's two comparisons see every other change.
THEOREM DraftsAreOfOneCommit == Spec => []DraftOfOneCommit
<1>1. Types /\ Types' /\ SeenInv /\ [Next]_vars => SeenInv'
  BY SeenNext
<1>2. SeenInv => DraftOfOneCommit
  BY DEF SeenInv, HasSession, DraftOfOneCommit
<1> QED BY <1>1, <1>2, SeenInit, ConversationTyped, PTL DEF Spec
-----------------------------------------------------------------------------
(* Rounds of questions.                                                    *)

\* What is asked is recorded: the questions answered and those open are, in
\* order, the ones the session has counted.
Rounds(s) == s.dialogue \o s.pending = [n \in 1..s.asked |-> n]

RoundsInv ==
    /\ HasSession => Rounds(session) /\ (session.draft # None => session.pending = <<>>)
    /\ InTurn => session.pending = <<>> /\ session.draft = None

\* A round of questions continues the numbers.
LEMMA AskedRound ==
    ASSUME NEW k \in Nat, NEW n \in Nat, NEW d \in Seq(Nat), d \o <<>> = [i \in 1..k |-> i]
    PROVE  d \o [i \in 1..n |-> k + i] = [i \in 1..(k + n) |-> i]
<1>1. d = [i \in 1..k |-> i]
  OBVIOUS
<1>2. Len(d) = k
  BY <1>1
<1> DEFINE new == [i \in 1..n |-> k + i]
<1>3. new \in Seq(Nat) /\ Len(new) = n
  OBVIOUS
<1> HIDE DEF new
<1>4. /\ d \o new \in Seq(Nat) /\ Len(d \o new) = k + n
      /\ \A i \in 1..(k + n) : (d \o new)[i] = IF i <= k THEN d[i] ELSE new[i - k]
  <2>1. /\ d \o new \in Seq(Nat) /\ Len(d \o new) = Len(d) + Len(new)
        /\ \A i \in 1..(Len(d) + Len(new)) :
             (d \o new)[i] = IF i <= Len(d) THEN d[i] ELSE new[i - Len(d)]
    BY <1>3, ConcatProperties, Zenon
  <2> QED BY <2>1, <1>2, <1>3
<1>5. ASSUME NEW i \in 1..(k + n)
      PROVE  (IF i <= k THEN d[i] ELSE new[i - k]) = i
  <2>1. CASE i <= k
    BY <1>1, <2>1
  <2>2. CASE ~(i <= k)
    <3>1. i \in Int /\ i - k \in 1..n /\ k + (i - k) = i
      BY <2>2
    <3> QED BY <2>2, <3>1 DEF new
  <2> QED BY <2>1, <2>2
<1>6. \A i \in 1..(k + n) : (d \o new)[i] = i
  BY <1>4, <1>5
<1> DEFINE whole == d \o new
<1>7. whole \in Seq(Nat) /\ Len(whole) = k + n /\ \A i \in 1..(k + n) : whole[i] = i
  BY <1>4, <1>6
<1>8. whole = [i \in 1..(k + n) |-> i]
  <2> HIDE DEF whole
  <2> QED BY <1>7
<1> QED BY <1>8 DEF new

\* An answer moves a question from the open ones to the answered ones.
LEMMA AnsweredRound ==
    ASSUME NEW d \in Seq(Nat), NEW p \in Seq(Nat), p # <<>>
    PROVE  Append(d, Head(p)) \o Tail(p) = d \o p
<1>1. Len(Append(d, Head(p))) = Len(d) + 1 /\ Len(Tail(p)) = Len(p) - 1
  OBVIOUS
<1>2. \A i \in 1..(Len(d) + Len(p)) : (Append(d, Head(p)) \o Tail(p))[i] = (d \o p)[i]
  BY <1>1
<1> QED BY <1>1, <1>2

LEMMA RoundsInit == Init => RoundsInv
BY DEF Init, RoundsInv, HasSession, InTurn

LEMMA RoundsNext == Types /\ RoundsInv /\ [Next]_vars => RoundsInv'
<1> SUFFICES ASSUME Types, RoundsInv, [Next]_vars PROVE RoundsInv'
  OBVIOUS
<1> USE DEF RoundsInv, HasSession, InTurn
<1>1. CASE UNCHANGED session /\ (InTurn' => InTurn)
  BY <1>1 DEF Rounds
<1>2. CASE session' = None /\ ~InTurn'
  BY <1>2
<1>3. CASE Respond
  <2>1. pc = "response" /\ pc' = "shell"
    BY <1>3 DEF Respond, TurnEnds
  <2>2. session \in Sessions /\ Rounds(session) /\ session.pending = <<>> /\ session.draft = None
    BY <2>1 DEF Types
  <2>3. ASSUME NEW n \in 1..MaxQuestions,
               session' = [session EXCEPT !.pending = [i \in 1..n |-> session.asked + i],
                                          !.asked = @ + n]
        PROVE  Rounds(session')
    <3>1. session.asked \in Nat /\ n \in Nat /\ session.dialogue \in Seq(Nat)
      BY <2>2, ConversationAssumption DEF Sessions
    <3>2. /\ session'.dialogue = session.dialogue /\ session'.asked = session.asked + n
          /\ session'.pending = [i \in 1..n |-> session.asked + i]
      BY <2>2, <2>3 DEF Sessions
    <3>3. session.dialogue \o <<>> = [i \in 1..session.asked |-> i]
      BY <2>2 DEF Rounds
    <3>4. session.dialogue \o [i \in 1..n |-> session.asked + i]
            = [i \in 1..(session.asked + n) |-> i]
      BY <3>1, <3>3, AskedRound
    <3> QED BY <3>2, <3>4 DEF Rounds
  <2>4. ASSUME session'.dialogue = session.dialogue, session'.asked = session.asked,
               session'.pending = <<>>
        PROVE  Rounds(session')
    BY <2>2, <2>4 DEF Rounds
  <2>5. ASSUME NEW draft \in Proposals,
               session' = [session EXCEPT !.draft = draft, !.shown = seen, !.back = back, !.pending = <<>>]
        PROVE  Rounds(session') /\ session'.pending = <<>>
    BY <2>2, <2>4, <2>5 DEF Sessions
  <2>6. ASSUME session' = [session EXCEPT !.pending = <<>>]
        PROVE  Rounds(session') /\ session'.pending = <<>>
    BY <2>2, <2>4, <2>6 DEF Sessions
  <2>7. ASSUME NEW n \in 1..MaxQuestions,
               session' = [session EXCEPT !.pending = [i \in 1..n |-> session.asked + i],
                                          !.asked = @ + n]
        PROVE  session'.draft = None
    BY <2>2, <2>7 DEF Sessions
  <2> QED BY <1>3, <2>1, <2>3, <2>5, <2>6, <2>7 DEF Respond
<1>4. CASE Request
  <2>1. pc = "shell" /\
          \/ session' = [selected |-> settings, base |-> head, asked |-> 0, dialogue |-> <<>>,
                         pending |-> <<>>, draft |-> None, shown |-> {}, back |-> FALSE]
          \/ session' = None /\ pc' = pc
    BY <1>4, Zenon DEF Request, StartPlanning
  <2>2. ASSUME NEW s, s.dialogue = <<>>, s.pending = <<>>, s.asked = 0
        PROVE  Rounds(s)
    BY <2>2 DEF Rounds
  <2> QED BY <2>1, <2>2
<1>5. CASE Answer
  <2>1. session # None /\ session \in Sessions /\ session.pending # <<>> /\ pc = "shell"
    BY <1>5 DEF Answer, Types
  <2>2. session.dialogue \in Seq(Nat) /\ session.pending \in Seq(Nat)
    BY <2>1 DEF Sessions
  <2>3. /\ session'.dialogue = Append(session.dialogue, Head(session.pending))
        /\ session'.pending = Tail(session.pending) /\ session'.asked = session.asked
        /\ session'.draft = session.draft
    BY <1>5, <2>1 DEF Answer, Sessions
  <2>4. Rounds(session')
    BY <2>1, <2>2, <2>3, AnsweredRound DEF Rounds
  <2>5. session.draft = None
    BY <2>1
  <2>6. InTurn' => session'.pending = <<>>
    <3>1. InTurn' => Len(session.pending) = 1
      BY <1>5 DEF Answer
    <3>2. /\ Tail(session.pending) \in Seq(Nat)
          /\ Len(session.pending) = 1 => Len(Tail(session.pending)) = 0
      BY <2>1, <2>2
    <3> QED BY <2>3, <3>1, <3>2, EmptySeq
  <2> QED BY <2>3, <2>4, <2>5, <2>6
<1> QED
  BY <1>1, <1>2, <1>3, <1>4, <1>5
     DEF Next, Start, Settings, Configure, NotSaved, Reload, Save, TurnFails, TurnEnds,
         BuildPrompt, EnsureHead, LeaderReads, Cancel, Quit, MoveHead, Edit, vars

\* The Leader is asked again only when all it asked is answered, and no turn,
\* failed, rejected or answered, loses or repeats a question.
THEOREM QuestionsInOrder == Spec => []RoundsInOrder
<1>1. RoundsInv => RoundsInOrder
  BY DEF RoundsInv, Rounds, RoundsInOrder, HasSession, InTurn
<1> QED BY <1>1, RoundsInit, RoundsNext, ConversationTyped, PTL DEF Spec
-----------------------------------------------------------------------------
(* The user's selection.                                                   *)

\* What validate_plan_draft let pass, for the settings of the session.
Drafted(s) ==
    /\ Valid(s.draft.plan)
    /\ s.draft.leader = s.selected.leader
    /\ s.draft.users \subseteq s.selected.workers

\* A session keeps the settings it began under, which stay those in force:
\* where they are read anew there is no session, or it is dropped.
SelectionInv ==
    /\ pc \in {"start", "setup"} => session = None
    /\ HasSession => session.selected = settings /\ (session.draft # None => Drafted(session))

LEMMA SelectionInit == Init => SelectionInv
BY DEF Init, SelectionInv, HasSession, InTurn

LEMMA SelectionNext == Types /\ SelectionInv /\ [Next]_vars => SelectionInv'
<1> SUFFICES ASSUME Types, SelectionInv, [Next]_vars PROVE SelectionInv'
  OBVIOUS
<1> USE DEF SelectionInv, HasSession, InTurn
<1>1. CASE UNCHANGED <<session, settings>> /\ (InTurn' => InTurn)
            /\ (pc' \in {"start", "setup"} => pc \in {"start", "setup"})
  BY <1>1 DEF Drafted
<1>2. CASE session' = None /\ ~InTurn'
  BY <1>2
<1>3. CASE Respond
  <2>1. pc = "response" /\ pc' = "shell" /\ UNCHANGED settings /\ session \in Sessions
    BY <1>3 DEF Respond, TurnEnds, Types
  <2>2. session.selected = settings /\ (session.draft # None => Drafted(session))
    BY <2>1
  <2>3. ASSUME session'.selected = session.selected, session'.draft = session.draft
        PROVE  session'.draft # None => Drafted(session')
    BY <2>2, <2>3 DEF Drafted
  <2>4. ASSUME NEW draft \in Proposals, Acceptable(draft),
               session' = [session EXCEPT !.draft = draft, !.shown = seen, !.back = back, !.pending = <<>>]
        PROVE  session'.selected = session.selected /\ Drafted(session')
    BY <2>1, <2>4 DEF Sessions, Acceptable, Drafted
  <2>5. ASSUME NEW n \in 1..MaxQuestions,
               session' = [session EXCEPT !.pending = [i \in 1..n |-> session.asked + i],
                                          !.asked = @ + n]
        PROVE  session'.selected = session.selected /\ session'.draft = session.draft
    BY <2>1, <2>5 DEF Sessions
  <2>6. ASSUME session' = [session EXCEPT !.pending = <<>>]
        PROVE  session'.selected = session.selected /\ session'.draft = session.draft
    BY <2>1, <2>6 DEF Sessions
  <2>7. session'.selected = session.selected /\ (session'.draft # None => Drafted(session'))
    BY <1>3, <2>3, <2>4, <2>5, <2>6 DEF Respond
  <2> QED BY <2>1, <2>2, <2>7
<1>4. CASE Request
  <2>1. /\ pc = "shell" /\ UNCHANGED settings
        /\ \/ /\ session' = [selected |-> settings, base |-> head, asked |-> 0, dialogue |-> <<>>,
                               pending |-> <<>>, draft |-> None, shown |-> {}, back |-> FALSE]
              /\ pc' = "prompt"
           \/ session' = None /\ pc' = pc
    BY <1>4, Zenon DEF Request, StartPlanning
  <2> QED BY <2>1
<1>5. CASE Answer
  <2>1. session # None /\ session \in Sessions /\ pc = "shell" /\ pc' \in {"prompt", "shell"}
    BY <1>5 DEF Answer, Types
  <2>2. session'.selected = session.selected /\ session'.draft = session.draft /\ UNCHANGED settings
    BY <1>5, <2>1 DEF Answer, Sessions
  <2> QED BY <2>1, <2>2 DEF Drafted
<1>6. CASE Reload
  BY <1>6 DEF Reload, InForce, Drafted
<1>7. CASE Start
  BY <1>7 DEF Start, InForce
<1>8. ASSUME NEW prefs \in Preferences, Save(prefs) PROVE SelectionInv'
  BY <1>8 DEF Save, InForce, Drafted
<1> QED
  BY <1>1, <1>2, <1>3, <1>4, <1>5, <1>6, <1>7, <1>8
     DEF Next, Settings, Configure, NotSaved, TurnFails, TurnEnds, BuildPrompt, EnsureHead,
         LeaderReads, Cancel, Quit, MoveHead, Edit, vars, world

\* Whatever happens to preferences, project configuration and installed CLIs
\* while a conversation is open, its settings are those in force, and its
\* draft has passed validation and names only what they selected.
THEOREM SelectionIsKept ==
    Spec => [](session # None =>
                 session.selected = settings /\ (session.draft # None => Drafted(session)))
<1>1. SelectionInv => (session # None =>
          session.selected = settings /\ (session.draft # None => Drafted(session)))
  BY DEF SelectionInv, HasSession
<1> QED BY <1>1, SelectionInit, SelectionNext, ConversationTyped, PTL DEF Spec

\* A conversation runs under the settings in force and its draft can be
\* carried out by the selected Workers alone.
THEOREM DraftsHonourTheUser == Spec => []DraftHonoursUser
<1>1. Types /\ SelectionInv => DraftHonoursUser
  <2> SUFFICES ASSUME Types, SelectionInv, session # None PROVE
          /\ session.selected = settings
          /\ session.draft # None =>
               /\ Runnable(session.draft.plan.tasks)
               /\ session.draft.leader = settings.leader
               /\ session.draft.users \subseteq settings.workers
    BY DEF DraftHonoursUser
  <2>1. session.selected = settings /\ (session.draft # None => Drafted(session))
    BY DEF SelectionInv, HasSession
  <2>2. session.draft \in Proposals \cup {None}
    BY DEF Types, Sessions
  <2>3. ASSUME session.draft # None PROVE Runnable(session.draft.plan.tasks)
    <3>1. session.draft.plan \in Plans
      BY <2>2, <2>3 DEF Proposals
    <3> QED BY <2>1, <2>3, <3>1, ValidIsRunnable DEF Drafted
  <2> QED BY <2>1, <2>3 DEF Drafted
<1> QED BY <1>1, SelectionInit, SelectionNext, ConversationTyped, PTL DEF Spec
=============================================================================
